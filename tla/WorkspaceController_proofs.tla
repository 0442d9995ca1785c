--------------------- MODULE WorkspaceController_proofs ---------------------
(***************************************************************************)
(* Proofs about the workspace controller.                                  *)
(*                                                                         *)
(* A handler runs on a copy of the object that may be old, deletes or      *)
(* builds a pod and moves a gauge, and only then finds out whether its     *)
(* update is taken.  The proofs first say what every handler has in common *)
(* (HandlerStep) and then need one case for all of them.                   *)
(***************************************************************************)
EXTENDS WorkspaceController, TLAPS

-----------------------------------------------------------------------------
(* The inductive invariant. *)

Nexts == [then : {"idle", "clear", "finalizer"}, undoRunning : {-1, 0, 1}, doneRunning : {-1, 0}]

Histories == [refreshed : BOOLEAN, lostDeletes : Nat, clearsFailed : Nat,
              activates : Nat, resumes : Nat]

(* A copy is never ahead of the object, nor the object of the requests. *)
ControllerTypes ==
    /\ TypeOK
    /\ next \in Nexts /\ hist \in Histories
    /\ cache.gen <= ws.gen /\ view.gen <= ws.gen /\ ws.gen <= inputs

Parked == {"Suspended", "Terminated", "Gone"}
Unclaimed == {"Pending", "Terminated", "Gone"}

IsCounted(w) == w.phase \in {"Active", "Suspending"}

(* No handler that runs on this copy builds a pod or brings one back. *)
NoBuild(w) ==
    \/ w.deleting
    \/ w.phase \in Parked \cup {"Pending", "Suspending", "Terminating"}
    \/ w.phase = "Creating" /\ w.suspend = "true"

(* How the copies relate to the object. *)
CopiesHold ==
    /\ cacheCur => cache = ws
    /\ \A w \in {ws, cache, view} : w.ip <=> IsCounted(w)
    /\ ws.phase = "Pending" => pod = "none" /\ cache.phase = "Pending"
    /\ ws.phase \notin Unclaimed => ws.final

(* Between two writes of one reconcile. *)
ContinuesRight ==
    /\ pc = "cont" => view.phase \in {"Pending", "Active", "Creating"}
    /\ pc = "force" => view.phase \in {"Active", "Creating"}
    /\ pc = "cont" /\ view.phase = "Pending" /\ cur => ws.phase = "Pending" /\ ws.final
    /\ pc \in {"force", "cont"} /\ view.phase # "Pending"
          => ws.final /\ ws.phase \notin Parked \cup {"Pending"}
    /\ pc = "finalizer" /\ cur => ws.phase = "Terminated"

(* An update that will be taken. *)
CommitsRight ==
    pc = "commit" =>
       /\ next.then = "finalizer" => view.phase = "Terminated"
       /\ cur => /\ view.phase = "Pending" => ws.phase = "Pending"
                 /\ view.phase \notin Unclaimed => ws.final
                 /\ view.phase \in Parked => NoBuild(cache) /\ NoBuild(ws)

(* The suspension knows of every copy that a reconcile may still run on. *)
ParkedHolds ==
    /\ ws.phase \in Parked => NoBuild(cache)
    /\ pc = "commit" /\ view.phase \in Parked /\ hist.lostDeletes = 0 => pod \in {"none", "dying"}
    /\ ParkedPodStops

(* An activation is paid for by the request that is still in the spec. *)
Credit == IF ws.suspend = "false" /\ pc # "clear" THEN 1 ELSE 0

ResumesPaid ==
    /\ hist.clearsFailed = 0 => hist.resumes + Credit <= hist.activates
    /\ pc = "commit" /\ view.phase = "Resuming"
          => next.then = "clear" /\ (cur => ws.suspend = "false")

(* The gauge, and what the outcome of the update adds to it. *)
Count(w) == IF IsCounted(w) THEN 1 ELSE 0

GaugeHolds ==
    ~hist.refreshed =>
       /\ ws.force = 0 /\ cache.force = 0 /\ view.force = 0 /\ pc # "force"
       /\ pc = "cont" => view.phase = "Pending"
       /\ pc # "commit" => running = Count(ws)
       /\ pc = "commit" => /\ running + next.undoRunning = Count(ws)
                           /\ cur => running + next.doneRunning = Count(view)

ControllerInv ==
    /\ ControllerTypes /\ CopiesHold /\ ContinuesRight /\ CommitsRight
    /\ ParkedHolds /\ ResumesPaid /\ GaugeHolds

-----------------------------------------------------------------------------
(* Handlers. *)

(* What an update makes of the copy o that the handler started from. *)
UpdateOK(o, w, then) ==
    /\ w \in Objects /\ w.gen = o.gen /\ w.force = o.force /\ w.obs \in {o.obs, o.gen}
    /\ w.ip <=> IsCounted(w)
    /\ then \in Nexts
    /\ w.phase = "Pending" => o.phase = "Pending"
    /\ w.phase \notin Unclaimed => o.phase \notin Unclaimed \/ (o.phase = "Pending" /\ o.final)
    /\ w.phase \in Parked => NoBuild(o)
    /\ then.then = "finalizer" => w.phase = "Terminated"
    /\ w.phase = "Resuming" => then.then = "clear" /\ o.suspend = "false" /\ o.phase = "Suspended"
    /\ Count(o) + then.doneRunning = Count(w) + then.undoRunning

(* A failed deletion is all that a handler adds to the history. *)
HistoryKept ==
    /\ hist' \in Histories
    /\ hist'.refreshed = hist.refreshed /\ hist'.clearsFailed = hist.clearsFailed
    /\ hist'.activates = hist.activates /\ hist'.resumes = hist.resumes
    /\ hist'.lostDeletes >= hist.lostDeletes

(* A handler deletes the pod, or builds one for a copy that wants one. *)
PodHandled ==
    /\ pod' \in PodStates
    /\ pod' = pod \/ (pod # "none" /\ pod' = "dying") \/ ~NoBuild(Object)

(* What every handler does before its update. *)
HandlerStep ==
    /\ pc \in {"idle", "cont"} /\ pc' = "commit" /\ cur' = Current
    /\ UNCHANGED <<ws, cache, cacheCur, podCache, api>>
    /\ pvc' \in BOOLEAN /\ inputs' \in 0..MaxInputs /\ inputs <= inputs'
    /\ UpdateOK(Object, view', next')
    /\ HistoryKept /\ PodHandled
    /\ view'.phase \in Parked => /\ pc = "idle" \/ Object.phase \in {"Pending", "Suspending"}
                                 /\ pod' \in {"none", "dying"} \/ hist'.lostDeletes > 0
    /\ running' \in Int /\ running' + next'.undoRunning = running

LEMMA ObjectFacts ==
    ASSUME ControllerInv
    PROVE  /\ Object \in Objects /\ (Object.ip <=> IsCounted(Object))
           /\ running \in Int /\ inputs \in 0..MaxInputs /\ inputs \in Nat /\ pvc \in BOOLEAN
           /\ hist \in Histories /\ pod \in PodStates
BY DEF ControllerInv, ControllerTypes, TypeOK, CopiesHold, Object

LEMMA DeleteFacts ==
    ASSUME ControllerInv, deletePodByName
    PROVE  /\ HistoryKept /\ PodHandled
           /\ pod' \in {"none", "dying"} \/ hist'.lostDeletes > 0
<1>1. hist \in Histories /\ pod \in PodStates
  BY ObjectFacts
<1>2. hist.lostDeletes \in Nat /\ hist.lostDeletes + 1 \in Nat /\ hist.lostDeletes + 1 > 0
      /\ hist.lostDeletes + 1 >= hist.lostDeletes /\ hist.lostDeletes >= hist.lostDeletes
  BY <1>1 DEF Histories
<1>3. CASE pod' = (IF pod = "none" THEN "none" ELSE "dying") /\ UNCHANGED hist
  BY <1>1, <1>2, <1>3 DEF HistoryKept, PodHandled, PodStates
<1>4. CASE hist' = [hist EXCEPT !.lostDeletes = @ + 1] /\ UNCHANGED pod
  <2>1. /\ hist' \in Histories /\ hist'.lostDeletes = hist.lostDeletes + 1
        /\ hist'.refreshed = hist.refreshed /\ hist'.clearsFailed = hist.clearsFailed
        /\ hist'.activates = hist.activates /\ hist'.resumes = hist.resumes
    BY <1>1, <1>2, <1>4 DEF Histories
  <2> QED BY <1>1, <1>2, <1>4, <2>1 DEF HistoryKept, PodHandled
<1> QED BY <1>3, <1>4 DEF deletePodByName

LEMMA NoDeleteFacts ==
    ASSUME ControllerInv, UNCHANGED <<pod, hist>>
    PROVE  HistoryKept /\ PodHandled
<1>1. hist \in Histories /\ pod \in PodStates
  BY ObjectFacts
<1>2. hist.lostDeletes >= hist.lostDeletes
  BY <1>1 DEF Histories
<1> QED BY <1>1, <1>2 DEF HistoryKept, PodHandled

(* The handlers that only change the status. *)
LEMMA NextFacts ==
    /\ NoNext \in Nexts /\ NoNext.then = "idle" /\ NoNext.undoRunning = 0 /\ NoNext.doneRunning = 0
    /\ \A n \in {-1, 0, 1} : LET x == [NoNext EXCEPT !.undoRunning = n]
                             IN  x \in Nexts /\ x.then = "idle" /\ x.undoRunning = n /\ x.doneRunning = 0
    /\ LET x == [NoNext EXCEPT !.then = "clear"]
       IN  x \in Nexts /\ x.then = "clear" /\ x.undoRunning = 0 /\ x.doneRunning = 0
    /\ \A n \in {-1, 0} : LET x == [NoNext EXCEPT !.then = "finalizer", !.doneRunning = n]
                          IN  x \in Nexts /\ x.then = "finalizer" /\ x.undoRunning = 0 /\ x.doneRunning = n
BY DEF NoNext, Nexts

(* The copies that the handlers write. *)
LEMMA CopyFacts ==
    ASSUME NEW o \in Objects
    PROVE  /\ \A p \in Phases :
                LET w == [o EXCEPT !.phase = p]
                IN  w \in Objects /\ w.phase = p /\ w.ip = o.ip /\ w.gen = o.gen
                    /\ w.force = o.force /\ w.obs = o.obs
           /\ LET w == [clearRecoveryState(o) EXCEPT !.phase = "Suspended", !.ip = FALSE]
              IN  w \in Objects /\ w.phase = "Suspended" /\ ~w.ip /\ w.gen = o.gen
                  /\ w.force = o.force /\ w.obs = o.obs
           /\ LET w == ToCreating(o)
              IN  w \in Objects /\ w.phase = "Creating" /\ ~w.ip /\ w.gen = o.gen
                  /\ w.force = o.force /\ w.obs = o.obs
           /\ LET w == RecoveryStatus(o)
              IN  w \in Objects /\ w.phase = "Creating" /\ ~w.ip /\ w.gen = o.gen
                  /\ w.force = o.force /\ w.obs = o.obs
           /\ LET w == ObserveBump(o)
              IN  w \in Objects /\ w.phase = o.phase /\ w.ip = o.ip /\ w.gen = o.gen
                  /\ w.force = o.force /\ w.obs \in {o.obs, o.gen}
           /\ LET w == maybeReset(o)
              IN  w \in Objects /\ w.phase = o.phase /\ w.ip = o.ip /\ w.gen = o.gen
                  /\ w.force = o.force /\ w.obs = o.obs
<1>1. clearRecoveryState(o) \in Objects
      /\ \A w : w = clearRecoveryState(o) =>
           w.phase = o.phase /\ w.ip = o.ip /\ w.gen = o.gen /\ w.force = o.force /\ w.obs = o.obs
  BY DEF clearRecoveryState, Objects
<1>2. ToCreating(o) \in Objects
      /\ \A w : w = ToCreating(o) =>
           w.phase = "Creating" /\ ~w.ip /\ w.gen = o.gen /\ w.force = o.force /\ w.obs = o.obs
  BY DEF ToCreating, Objects, Phases
<1>3. ASSUME NEW p \in Phases
      PROVE LET w == [o EXCEPT !.phase = p]
            IN  w \in Objects /\ w.phase = p /\ w.ip = o.ip /\ w.gen = o.gen
                /\ w.force = o.force /\ w.obs = o.obs
  BY DEF Objects
<1>4. LET w == [clearRecoveryState(o) EXCEPT !.phase = "Suspended", !.ip = FALSE]
      IN  w \in Objects /\ w.phase = "Suspended" /\ ~w.ip /\ w.gen = o.gen
          /\ w.force = o.force /\ w.obs = o.obs
  BY <1>1 DEF Objects, Phases
<1>5. LET w == RecoveryStatus(o)
      IN  w \in Objects /\ w.phase = "Creating" /\ ~w.ip /\ w.gen = o.gen
          /\ w.force = o.force /\ w.obs = o.obs
  BY <1>2 DEF RecoveryStatus, Objects
<1>6. LET w == ObserveBump(o)
      IN  w \in Objects /\ w.phase = o.phase /\ w.ip = o.ip /\ w.gen = o.gen
          /\ w.force = o.force /\ w.obs \in {o.obs, o.gen}
  <2>1. LET w == [clearRecoveryState(o) EXCEPT !.obs = o.gen]
        IN  w \in Objects /\ w.phase = o.phase /\ w.ip = o.ip /\ w.gen = o.gen
            /\ w.force = o.force /\ w.obs = o.gen
    BY <1>1 DEF Objects
  <2> QED BY <2>1 DEF ObserveBump
<1>7. LET w == maybeReset(o)
      IN  w \in Objects /\ w.phase = o.phase /\ w.ip = o.ip /\ w.gen = o.gen
          /\ w.force = o.force /\ w.obs = o.obs
  <2>1. LET w == [o EXCEPT !.stable = TRUE]
        IN  w \in Objects /\ w.phase = o.phase /\ w.ip = o.ip /\ w.gen = o.gen
            /\ w.force = o.force /\ w.obs = o.obs
    BY DEF Objects
  <2> QED BY <1>1, <2>1 DEF maybeReset
<1> QED BY <1>2, <1>3, <1>4, <1>5, <1>6, <1>7

(* The handlers, up to their update. *)
Handler ==
    \/ EnsurePVC \/ PendingToCreating \/ PendingTimedOut \/ suspendFromPreActive
    \/ BuildPod \/ BuildFails \/ RebuildOnBump \/ CreatingToActive
    \/ CreatingPodFailed \/ CreatingPodStuck \/ ActiveSuspend \/ PolicySuspend
    \/ ActiveRestart \/ ActiveRecycle \/ ActivePodLost \/ ActivePodDying
    \/ ActiveStable \/ restartAgentPod \/ handleSuspending \/ ResumeSuspended
    \/ TTLExpires \/ handleResuming \/ handleTerminating

LEMMA HandlerFacts ==
    ASSUME ControllerInv, Handler
    PROVE  HandlerStep
<1>o. /\ Object \in Objects /\ (Object.ip <=> IsCounted(Object))
      /\ running \in Int /\ inputs \in 0..MaxInputs /\ inputs \in Nat /\ pvc \in BOOLEAN
      /\ hist \in Histories /\ pod \in PodStates /\ MaxInputs \in Nat
  BY ObjectFacts, ControllerAssumption
<1>1. CASE EnsurePVC
  <2>1. Object.phase = "Pending" /\ Object.final
    BY <1>1 DEF EnsurePVC, Handling, Update, others
  <2>2. /\ pc \in {"idle", "cont"} /\ pc' = "commit" /\ cur' = Current
        /\ UNCHANGED <<ws, cache, cacheCur, podCache, api>>
        /\ view' = Object
        /\ next' = NoNext /\ running' = running
        /\ pvc' \in BOOLEAN
    BY <1>o, <1>1 DEF EnsurePVC, Handling, Update, others
  <2>3. inputs' \in 0..MaxInputs /\ inputs <= inputs'
    BY <1>o, <1>1 DEF EnsurePVC, Handling, Update, others
  <2>4. /\ view' \in Objects /\ view'.phase = "Pending" /\ view'.ip = Object.ip
        /\ view'.gen = Object.gen /\ view'.force = Object.force
        /\ view'.obs \in {Object.obs, Object.gen}
    BY <1>o, <2>1, <2>2, CopyFacts DEF Phases
  <2>5. next' \in Nexts /\ next'.then = "idle" /\ next'.undoRunning = 0 /\ next'.doneRunning = 0
    BY <2>2, NextFacts
  <2>6. UpdateOK(Object, view', next')
    BY <1>o, <2>1, <2>4, <2>5 DEF UpdateOK, IsCounted, Count, Parked, Unclaimed, NoBuild
  <2>7. running' \in Int /\ running' + next'.undoRunning = running
    BY <1>o, <2>2, <2>5
  <2>8. HistoryKept /\ PodHandled
    BY <1>1, NoDeleteFacts DEF EnsurePVC, Handling, Update, others
  <2> QED BY <2>1, <2>2, <2>3, <2>4, <2>6, <2>7, <2>8 DEF HandlerStep, Parked
<1>2. CASE PendingToCreating
  <2>1. Object.phase = "Pending" /\ Object.final
    BY <1>2 DEF PendingToCreating, Handling, Update, others
  <2>2. /\ pc \in {"idle", "cont"} /\ pc' = "commit" /\ cur' = Current
        /\ UNCHANGED <<ws, cache, cacheCur, podCache, api>>
        /\ view' = [Object EXCEPT !.phase = "Creating"]
        /\ next' = NoNext /\ running' = running
        /\ pvc' \in BOOLEAN
    BY <1>o, <1>2 DEF PendingToCreating, Handling, Update, others
  <2>3. inputs' \in 0..MaxInputs /\ inputs <= inputs'
    BY <1>o, <1>2, SMTT(30) DEF PendingToCreating, Handling, Update, others
  <2>4. /\ view' \in Objects /\ view'.phase = "Creating" /\ view'.ip = Object.ip
        /\ view'.gen = Object.gen /\ view'.force = Object.force
        /\ view'.obs \in {Object.obs, Object.gen}
    BY <1>o, <2>1, <2>2, CopyFacts, ZenonT(60) DEF Phases
  <2>5. next' \in Nexts /\ next'.then = "idle" /\ next'.undoRunning = 0 /\ next'.doneRunning = 0
    BY <2>2, NextFacts
  <2>6. UpdateOK(Object, view', next')
    BY <1>o, <2>1, <2>4, <2>5 DEF UpdateOK, IsCounted, Count, Parked, Unclaimed, NoBuild
  <2>7. running' \in Int /\ running' + next'.undoRunning = running
    BY <1>o, <2>2, <2>5
  <2>8. HistoryKept /\ PodHandled
    BY <1>2, NoDeleteFacts DEF PendingToCreating, Handling, Update, others
  <2> QED BY <2>1, <2>2, <2>3, <2>4, <2>6, <2>7, <2>8 DEF HandlerStep, Parked
<1>3. CASE PendingTimedOut
  <2>1. Object.phase = "Pending" /\ Object.final
    BY <1>3 DEF PendingTimedOut, Handling, Update, others, enterRecovery, Input
  <2>2. /\ pc \in {"idle", "cont"} /\ pc' = "commit" /\ cur' = Current
        /\ UNCHANGED <<ws, cache, cacheCur, podCache, api>>
        /\ view' = RecoveryStatus(Object)
        /\ next' = [NoNext EXCEPT !.undoRunning = 0] /\ running' = running
        /\ pvc' \in BOOLEAN
    BY <1>o, <1>3 DEF PendingTimedOut, Handling, Update, others, enterRecovery, Input
  <2>3. inputs' \in 0..MaxInputs /\ inputs <= inputs'
    BY <1>o, <1>3 DEF PendingTimedOut, Handling, Update, others, enterRecovery, Input
  <2>4. /\ view' \in Objects /\ view'.phase = "Creating" /\ view'.ip = FALSE
        /\ view'.gen = Object.gen /\ view'.force = Object.force
        /\ view'.obs \in {Object.obs, Object.gen}
    <3>1. LET w == RecoveryStatus(Object)
          IN  w \in Objects /\ w.phase = "Creating" /\ ~w.ip /\ w.gen = Object.gen
              /\ w.force = Object.force /\ w.obs = Object.obs
      BY <1>o, CopyFacts
    <3>2. view'.ip \in BOOLEAN
      BY <2>2, <3>1 DEF Objects
    <3> QED BY <2>2, <3>1, <3>2
  <2>5. next' \in Nexts /\ next'.then = "idle" /\ next'.undoRunning = 0 /\ next'.doneRunning = 0
    BY <2>2, NextFacts
  <2>6. UpdateOK(Object, view', next')
    BY <1>o, <2>1, <2>4, <2>5 DEF UpdateOK, IsCounted, Count, Parked, Unclaimed, NoBuild
  <2>7. running' \in Int /\ running' + next'.undoRunning = running
    BY <1>o, <2>2, <2>5
  <2>8. HistoryKept /\ PodHandled
    BY <1>3, NoDeleteFacts DEF PendingTimedOut, Handling, Update, others, enterRecovery, Input
  <2> QED BY <2>1, <2>2, <2>3, <2>4, <2>6, <2>7, <2>8 DEF HandlerStep, Parked
<1>4. CASE suspendFromPreActive
  <2>1. Object.suspend = "true" /\ ((Object.phase = "Pending" /\ Object.final) \/ (Object.phase = "Creating" /\ pc = "idle"))
    BY <1>4 DEF suspendFromPreActive, Handling, Update, others, Park, ParkStatus
  <2>2. /\ pc \in {"idle", "cont"} /\ pc' = "commit" /\ cur' = Current
        /\ UNCHANGED <<ws, cache, cacheCur, podCache, api>>
        /\ view' = [clearRecoveryState(Object) EXCEPT !.phase = "Suspended", !.ip = FALSE]
        /\ next' = [NoNext EXCEPT !.then = "clear"] /\ running' = running
        /\ pvc' \in BOOLEAN
    BY <1>o, <1>4 DEF suspendFromPreActive, Handling, Update, others, Park, ParkStatus
  <2>3. inputs' \in 0..MaxInputs /\ inputs <= inputs'
    BY <1>o, <1>4 DEF suspendFromPreActive, Handling, Update, others, Park, ParkStatus
  <2>4. /\ view' \in Objects /\ view'.phase = "Suspended" /\ view'.ip = FALSE
        /\ view'.gen = Object.gen /\ view'.force = Object.force
        /\ view'.obs \in {Object.obs, Object.gen}
    <3>1. LET w == [clearRecoveryState(Object) EXCEPT !.phase = "Suspended", !.ip = FALSE]
          IN  w \in Objects /\ w.phase = "Suspended" /\ ~w.ip /\ w.gen = Object.gen
              /\ w.force = Object.force /\ w.obs = Object.obs
      BY <1>o, CopyFacts
    <3>2. view'.ip \in BOOLEAN
      BY <2>2, <3>1 DEF Objects
    <3> QED BY <2>2, <3>1, <3>2
  <2>5. next' \in Nexts /\ next'.then = "clear" /\ next'.undoRunning = 0 /\ next'.doneRunning = 0
    BY <2>2, NextFacts
  <2>6. UpdateOK(Object, view', next')
    BY <1>o, <2>1, <2>4, <2>5 DEF UpdateOK, IsCounted, Count, Parked, Unclaimed, NoBuild
  <2>7. running' \in Int /\ running' + next'.undoRunning = running
    BY <1>o, <2>2, <2>5
  <2>8. HistoryKept /\ PodHandled /\ (pod' \in {"none", "dying"} \/ hist'.lostDeletes > 0)
    BY <1>4, DeleteFacts DEF suspendFromPreActive, Handling, Update, others, Park, ParkStatus
  <2> QED BY <2>1, <2>2, <2>3, <2>4, <2>6, <2>7, <2>8 DEF HandlerStep, Parked
<1>5. CASE BuildPod
  <2>1. Object.phase = "Creating" /\ Object.suspend # "true" /\ ~Object.deleting
    BY <1>5 DEF BuildPod, Handling, Update, others, InCreating
  <2>2. /\ pc \in {"idle", "cont"} /\ pc' = "commit" /\ cur' = Current
        /\ UNCHANGED <<ws, cache, cacheCur, podCache, api>>
        /\ view' = ObserveBump(Object)
        /\ next' = NoNext /\ running' = running
        /\ pvc' \in BOOLEAN
    BY <1>o, <1>5 DEF BuildPod, Handling, Update, others, InCreating
  <2>3. inputs' \in 0..MaxInputs /\ inputs <= inputs'
    BY <1>o, <1>5 DEF BuildPod, Handling, Update, others, InCreating
  <2>4. /\ view' \in Objects /\ view'.phase = "Creating" /\ view'.ip = Object.ip
        /\ view'.gen = Object.gen /\ view'.force = Object.force
        /\ view'.obs \in {Object.obs, Object.gen}
    <3>1. LET w == ObserveBump(Object)
          IN  w \in Objects /\ w.phase = Object.phase /\ w.ip = Object.ip /\ w.gen = Object.gen
              /\ w.force = Object.force /\ w.obs \in {Object.obs, Object.gen}
      BY <1>o, CopyFacts
    <3> QED BY <1>o, <2>1, <2>2, <3>1
  <2>5. next' \in Nexts /\ next'.then = "idle" /\ next'.undoRunning = 0 /\ next'.doneRunning = 0
    BY <2>2, NextFacts
  <2>6. UpdateOK(Object, view', next')
    BY <1>o, <2>1, <2>4, <2>5 DEF UpdateOK, IsCounted, Count, Parked, Unclaimed, NoBuild
  <2>7. running' \in Int /\ running' + next'.undoRunning = running
    BY <1>o, <2>2, <2>5
  <2>8. HistoryKept /\ PodHandled
    <3>1. pod' = "starting" /\ UNCHANGED hist /\ ~NoBuild(Object)
      BY <1>5, <2>1 DEF BuildPod, Handling, Update, others, InCreating, NoBuild, Parked
    <3>2. hist.lostDeletes >= hist.lostDeletes
      BY <1>o DEF Histories
    <3> QED BY <1>o, <3>1, <3>2 DEF HistoryKept, PodHandled, PodStates
  <2> QED BY <2>1, <2>2, <2>3, <2>4, <2>6, <2>7, <2>8 DEF HandlerStep, Parked
<1>6. CASE BuildFails
  <2>1. Object.phase = "Creating"
    BY <1>6 DEF BuildFails, Handling, Update, others, InCreating, Input
  <2>2. /\ pc \in {"idle", "cont"} /\ pc' = "commit" /\ cur' = Current
        /\ UNCHANGED <<ws, cache, cacheCur, podCache, api>>
        /\ view' = RecoveryStatus(ObserveBump(Object))
        /\ next' = NoNext /\ running' = running
        /\ pvc' \in BOOLEAN
    BY <1>o, <1>6 DEF BuildFails, Handling, Update, others, InCreating, Input
  <2>3. inputs' \in 0..MaxInputs /\ inputs <= inputs'
    BY <1>o, <1>6 DEF BuildFails, Handling, Update, others, InCreating, Input
  <2>4. /\ view' \in Objects /\ view'.phase = "Creating" /\ view'.ip = FALSE
        /\ view'.gen = Object.gen /\ view'.force = Object.force
        /\ view'.obs \in {Object.obs, Object.gen}
    <3> DEFINE o == ObserveBump(Object)
    <3>1. /\ o \in Objects /\ o.gen = Object.gen /\ o.force = Object.force
          /\ o.obs \in {Object.obs, Object.gen}
      BY <1>o, CopyFacts
    <3>2. view' = RecoveryStatus(o)
      BY <2>2
    <3> HIDE DEF o
    <3>3. LET w == RecoveryStatus(o)
          IN  w \in Objects /\ w.phase = "Creating" /\ ~w.ip /\ w.gen = o.gen
              /\ w.force = o.force /\ w.obs = o.obs
      BY <3>1, CopyFacts
    <3>4. view'.ip \in BOOLEAN
      BY <3>2, <3>3 DEF Objects
    <3> QED BY <3>1, <3>2, <3>3, <3>4
  <2>5. next' \in Nexts /\ next'.then = "idle" /\ next'.undoRunning = 0 /\ next'.doneRunning = 0
    BY <2>2, NextFacts
  <2>6. UpdateOK(Object, view', next')
    BY <1>o, <2>1, <2>4, <2>5 DEF UpdateOK, IsCounted, Count, Parked, Unclaimed, NoBuild
  <2>7. running' \in Int /\ running' + next'.undoRunning = running
    BY <1>o, <2>2, <2>5
  <2>8. HistoryKept /\ PodHandled
    BY <1>6, NoDeleteFacts DEF BuildFails, Handling, Update, others, InCreating, Input
  <2> QED BY <2>1, <2>2, <2>3, <2>4, <2>6, <2>7, <2>8 DEF HandlerStep, Parked
<1>7. CASE RebuildOnBump
  <2>1. Object.phase = "Creating"
    BY <1>7 DEF RebuildOnBump, Handling, Update, others, InCreating
  <2>2. /\ pc \in {"idle", "cont"} /\ pc' = "commit" /\ cur' = Current
        /\ UNCHANGED <<ws, cache, cacheCur, podCache, api>>
        /\ view' = ObserveBump(Object)
        /\ next' = NoNext /\ running' = running
        /\ pvc' \in BOOLEAN
    BY <1>o, <1>7 DEF RebuildOnBump, Handling, Update, others, InCreating
  <2>3. inputs' \in 0..MaxInputs /\ inputs <= inputs'
    BY <1>o, <1>7 DEF RebuildOnBump, Handling, Update, others, InCreating
  <2>4. /\ view' \in Objects /\ view'.phase = "Creating" /\ view'.ip = Object.ip
        /\ view'.gen = Object.gen /\ view'.force = Object.force
        /\ view'.obs \in {Object.obs, Object.gen}
    <3>1. LET w == ObserveBump(Object)
          IN  w \in Objects /\ w.phase = Object.phase /\ w.ip = Object.ip /\ w.gen = Object.gen
              /\ w.force = Object.force /\ w.obs \in {Object.obs, Object.gen}
      BY <1>o, CopyFacts
    <3> QED BY <1>o, <2>1, <2>2, <3>1
  <2>5. next' \in Nexts /\ next'.then = "idle" /\ next'.undoRunning = 0 /\ next'.doneRunning = 0
    BY <2>2, NextFacts
  <2>6. UpdateOK(Object, view', next')
    BY <1>o, <2>1, <2>4, <2>5 DEF UpdateOK, IsCounted, Count, Parked, Unclaimed, NoBuild
  <2>7. running' \in Int /\ running' + next'.undoRunning = running
    BY <1>o, <2>2, <2>5
  <2>8. HistoryKept /\ PodHandled /\ (pod' \in {"none", "dying"} \/ hist'.lostDeletes > 0)
    BY <1>7, DeleteFacts DEF RebuildOnBump, Handling, Update, others, InCreating
  <2> QED BY <2>1, <2>2, <2>3, <2>4, <2>6, <2>7, <2>8 DEF HandlerStep, Parked
<1>8. CASE CreatingToActive
  <2>1. Object.phase = "Creating"
    BY <1>8 DEF CreatingToActive, Handling, Update, others, InCreating
  <2>2. /\ pc \in {"idle", "cont"} /\ pc' = "commit" /\ cur' = Current
        /\ UNCHANGED <<ws, cache, cacheCur, podCache, api>>
        /\ view' = [Object EXCEPT !.phase = "Active", !.ip = TRUE]
        /\ next' = [NoNext EXCEPT !.undoRunning = -1] /\ running' = running + 1
        /\ pvc' \in BOOLEAN
    BY <1>o, <1>8 DEF CreatingToActive, Handling, Update, others, InCreating
  <2>3. inputs' \in 0..MaxInputs /\ inputs <= inputs'
    BY <1>o, <1>8 DEF CreatingToActive, Handling, Update, others, InCreating
  <2>4. /\ view' \in Objects /\ view'.phase = "Active" /\ view'.ip = TRUE
        /\ view'.gen = Object.gen /\ view'.force = Object.force
        /\ view'.obs \in {Object.obs, Object.gen}
    BY <1>o, <2>2 DEF Objects, Phases
  <2>5. next' \in Nexts /\ next'.then = "idle" /\ next'.undoRunning = -1 /\ next'.doneRunning = 0
    BY <2>2, NextFacts
  <2>6. UpdateOK(Object, view', next')
    BY <1>o, <2>1, <2>4, <2>5 DEF UpdateOK, IsCounted, Count, Parked, Unclaimed, NoBuild
  <2>7. running' \in Int /\ running' + next'.undoRunning = running
    BY <1>o, <2>2, <2>5
  <2>8. HistoryKept /\ PodHandled
    BY <1>8, NoDeleteFacts DEF CreatingToActive, Handling, Update, others, InCreating
  <2> QED BY <2>1, <2>2, <2>3, <2>4, <2>6, <2>7, <2>8 DEF HandlerStep, Parked
<1>9. CASE CreatingPodFailed
  <2>1. Object.phase = "Creating"
    BY <1>9 DEF CreatingPodFailed, Handling, Update, others, InCreating, enterRecovery
  <2>2. /\ pc \in {"idle", "cont"} /\ pc' = "commit" /\ cur' = Current
        /\ UNCHANGED <<ws, cache, cacheCur, podCache, api>>
        /\ view' = RecoveryStatus(Object)
        /\ next' = [NoNext EXCEPT !.undoRunning = 0] /\ running' = running
        /\ pvc' \in BOOLEAN
    BY <1>o, <1>9 DEF CreatingPodFailed, Handling, Update, others, InCreating, enterRecovery
  <2>3. inputs' \in 0..MaxInputs /\ inputs <= inputs'
    BY <1>o, <1>9 DEF CreatingPodFailed, Handling, Update, others, InCreating, enterRecovery
  <2>4. /\ view' \in Objects /\ view'.phase = "Creating" /\ view'.ip = FALSE
        /\ view'.gen = Object.gen /\ view'.force = Object.force
        /\ view'.obs \in {Object.obs, Object.gen}
    <3>1. LET w == RecoveryStatus(Object)
          IN  w \in Objects /\ w.phase = "Creating" /\ ~w.ip /\ w.gen = Object.gen
              /\ w.force = Object.force /\ w.obs = Object.obs
      BY <1>o, CopyFacts
    <3>2. view'.ip \in BOOLEAN
      BY <2>2, <3>1 DEF Objects
    <3> QED BY <2>2, <3>1, <3>2
  <2>5. next' \in Nexts /\ next'.then = "idle" /\ next'.undoRunning = 0 /\ next'.doneRunning = 0
    BY <2>2, NextFacts
  <2>6. UpdateOK(Object, view', next')
    BY <1>o, <2>1, <2>4, <2>5 DEF UpdateOK, IsCounted, Count, Parked, Unclaimed, NoBuild
  <2>7. running' \in Int /\ running' + next'.undoRunning = running
    BY <1>o, <2>2, <2>5
  <2>8. HistoryKept /\ PodHandled /\ (pod' \in {"none", "dying"} \/ hist'.lostDeletes > 0)
    BY <1>9, DeleteFacts DEF CreatingPodFailed, Handling, Update, others, InCreating, enterRecovery
  <2> QED BY <2>1, <2>2, <2>3, <2>4, <2>6, <2>7, <2>8 DEF HandlerStep, Parked
<1>10. CASE CreatingPodStuck
  <2>1. Object.phase = "Creating"
    BY <1>10 DEF CreatingPodStuck, Handling, Update, others, InCreating, enterRecovery, Input
  <2>2. /\ pc \in {"idle", "cont"} /\ pc' = "commit" /\ cur' = Current
        /\ UNCHANGED <<ws, cache, cacheCur, podCache, api>>
        /\ view' = RecoveryStatus(Object)
        /\ next' = [NoNext EXCEPT !.undoRunning = 0] /\ running' = running
        /\ pvc' \in BOOLEAN
    BY <1>o, <1>10 DEF CreatingPodStuck, Handling, Update, others, InCreating, enterRecovery, Input
  <2>3. inputs' \in 0..MaxInputs /\ inputs <= inputs'
    BY <1>o, <1>10 DEF CreatingPodStuck, Handling, Update, others, InCreating, enterRecovery, Input
  <2>4. /\ view' \in Objects /\ view'.phase = "Creating" /\ view'.ip = FALSE
        /\ view'.gen = Object.gen /\ view'.force = Object.force
        /\ view'.obs \in {Object.obs, Object.gen}
    <3>1. LET w == RecoveryStatus(Object)
          IN  w \in Objects /\ w.phase = "Creating" /\ ~w.ip /\ w.gen = Object.gen
              /\ w.force = Object.force /\ w.obs = Object.obs
      BY <1>o, CopyFacts
    <3>2. view'.ip \in BOOLEAN
      BY <2>2, <3>1 DEF Objects
    <3> QED BY <2>2, <3>1, <3>2
  <2>5. next' \in Nexts /\ next'.then = "idle" /\ next'.undoRunning = 0 /\ next'.doneRunning = 0
    BY <2>2, NextFacts
  <2>6. UpdateOK(Object, view', next')
    BY <1>o, <2>1, <2>4, <2>5 DEF UpdateOK, IsCounted, Count, Parked, Unclaimed, NoBuild
  <2>7. running' \in Int /\ running' + next'.undoRunning = running
    BY <1>o, <2>2, <2>5
  <2>8. HistoryKept /\ PodHandled /\ (pod' \in {"none", "dying"} \/ hist'.lostDeletes > 0)
    BY <1>10, DeleteFacts DEF CreatingPodStuck, Handling, Update, others, InCreating, enterRecovery, Input
  <2> QED BY <2>1, <2>2, <2>3, <2>4, <2>6, <2>7, <2>8 DEF HandlerStep, Parked
<1>11. CASE ActiveSuspend
  <2>1. Object.phase = "Active"
    BY <1>11 DEF ActiveSuspend, Handling, Update, others, ToSuspending, Object
  <2>2. /\ pc \in {"idle", "cont"} /\ pc' = "commit" /\ cur' = Current
        /\ UNCHANGED <<ws, cache, cacheCur, podCache, api>>
        /\ view' = [Object EXCEPT !.phase = "Suspending"]
        /\ next' = [NoNext EXCEPT !.then = "clear"] /\ running' = running
        /\ pvc' \in BOOLEAN
    BY <1>o, <1>11 DEF ActiveSuspend, Handling, Update, others, ToSuspending, Object
  <2>3. inputs' \in 0..MaxInputs /\ inputs <= inputs'
    BY <1>o, <1>11, SMTT(30) DEF ActiveSuspend, Handling, Update, others, ToSuspending, Object
  <2>4. /\ view' \in Objects /\ view'.phase = "Suspending" /\ view'.ip = Object.ip
        /\ view'.gen = Object.gen /\ view'.force = Object.force
        /\ view'.obs \in {Object.obs, Object.gen}
    BY <1>o, <2>1, <2>2, CopyFacts DEF Phases
  <2>5. next' \in Nexts /\ next'.then = "clear" /\ next'.undoRunning = 0 /\ next'.doneRunning = 0
    BY <2>2, NextFacts
  <2>6. UpdateOK(Object, view', next')
    BY <1>o, <2>1, <2>4, <2>5 DEF UpdateOK, IsCounted, Count, Parked, Unclaimed, NoBuild
  <2>7. running' \in Int /\ running' + next'.undoRunning = running
    BY <1>o, <2>2, <2>5
  <2>8. HistoryKept /\ PodHandled
    BY <1>11, NoDeleteFacts DEF ActiveSuspend, Handling, Update, others, ToSuspending, Object
  <2> QED BY <2>1, <2>2, <2>3, <2>4, <2>6, <2>7, <2>8 DEF HandlerStep, Parked
<1>12. CASE PolicySuspend
  <2>1. Object.phase = "Active"
    BY <1>12 DEF PolicySuspend, Handling, Update, others, ToSuspending, Object, Input
  <2>2. /\ pc \in {"idle", "cont"} /\ pc' = "commit" /\ cur' = Current
        /\ UNCHANGED <<ws, cache, cacheCur, podCache, api>>
        /\ view' = [Object EXCEPT !.phase = "Suspending"]
        /\ next' = NoNext /\ running' = running
        /\ pvc' \in BOOLEAN
    BY <1>o, <1>12 DEF PolicySuspend, Handling, Update, others, ToSuspending, Object, Input
  <2>3. inputs' \in 0..MaxInputs /\ inputs <= inputs'
    BY <1>o, <1>12 DEF PolicySuspend, Handling, Update, others, ToSuspending, Object, Input
  <2>4. /\ view' \in Objects /\ view'.phase = "Suspending" /\ view'.ip = Object.ip
        /\ view'.gen = Object.gen /\ view'.force = Object.force
        /\ view'.obs \in {Object.obs, Object.gen}
    BY <1>o, <2>1, <2>2, CopyFacts DEF Phases
  <2>5. next' \in Nexts /\ next'.then = "idle" /\ next'.undoRunning = 0 /\ next'.doneRunning = 0
    BY <2>2, NextFacts
  <2>6. UpdateOK(Object, view', next')
    BY <1>o, <2>1, <2>4, <2>5 DEF UpdateOK, IsCounted, Count, Parked, Unclaimed, NoBuild
  <2>7. running' \in Int /\ running' + next'.undoRunning = running
    BY <1>o, <2>2, <2>5
  <2>8. HistoryKept /\ PodHandled
    BY <1>12, NoDeleteFacts DEF PolicySuspend, Handling, Update, others, ToSuspending, Object, Input
  <2> QED BY <2>1, <2>2, <2>3, <2>4, <2>6, <2>7, <2>8 DEF HandlerStep, Parked
<1>13. CASE ActiveRestart
  <2>1. Object.phase = "Active"
    BY <1>13 DEF ActiveRestart, Handling, Update, others, InActive, LeaveActive
  <2>2. /\ pc \in {"idle", "cont"} /\ pc' = "commit" /\ cur' = Current
        /\ UNCHANGED <<ws, cache, cacheCur, podCache, api>>
        /\ view' = [ToCreating(Object) EXCEPT !.obs = Object.gen]
        /\ next' = [NoNext EXCEPT !.undoRunning = 1] /\ running' = running - 1
        /\ pvc' \in BOOLEAN
    BY <1>o, <1>13 DEF ActiveRestart, Handling, Update, others, InActive, LeaveActive
  <2>3. inputs' \in 0..MaxInputs /\ inputs <= inputs'
    BY <1>o, <1>13 DEF ActiveRestart, Handling, Update, others, InActive, LeaveActive
  <2>4. /\ view' \in Objects /\ view'.phase = "Creating" /\ view'.ip = FALSE
        /\ view'.gen = Object.gen /\ view'.force = Object.force
        /\ view'.obs \in {Object.obs, Object.gen}
    <3>1. LET w == ToCreating(Object)
          IN  w \in Objects /\ w.phase = "Creating" /\ ~w.ip /\ w.gen = Object.gen
              /\ w.force = Object.force
      BY <1>o, CopyFacts
    <3> QED BY <1>o, <2>2, <3>1 DEF Objects
  <2>5. next' \in Nexts /\ next'.then = "idle" /\ next'.undoRunning = 1 /\ next'.doneRunning = 0
    BY <2>2, NextFacts
  <2>6. UpdateOK(Object, view', next')
    BY <1>o, <2>1, <2>4, <2>5 DEF UpdateOK, IsCounted, Count, Parked, Unclaimed, NoBuild
  <2>7. running' \in Int /\ running' + next'.undoRunning = running
    BY <1>o, <2>2, <2>5
  <2>8. HistoryKept /\ PodHandled /\ (pod' \in {"none", "dying"} \/ hist'.lostDeletes > 0)
    BY <1>13, DeleteFacts DEF ActiveRestart, Handling, Update, others, InActive, LeaveActive
  <2> QED BY <2>1, <2>2, <2>3, <2>4, <2>6, <2>7, <2>8 DEF HandlerStep, Parked
<1>14. CASE ActiveRecycle
  <2>1. Object.phase = "Active"
    BY <1>14 DEF ActiveRecycle, Handling, Update, others, InActive, LeaveActive, Input
  <2>2. /\ pc \in {"idle", "cont"} /\ pc' = "commit" /\ cur' = Current
        /\ UNCHANGED <<ws, cache, cacheCur, podCache, api>>
        /\ view' = ToCreating(Object)
        /\ next' = [NoNext EXCEPT !.undoRunning = 1] /\ running' = running - 1
        /\ pvc' \in BOOLEAN
    BY <1>o, <1>14 DEF ActiveRecycle, Handling, Update, others, InActive, LeaveActive, Input
  <2>3. inputs' \in 0..MaxInputs /\ inputs <= inputs'
    BY <1>o, <1>14 DEF ActiveRecycle, Handling, Update, others, InActive, LeaveActive, Input
  <2>4. /\ view' \in Objects /\ view'.phase = "Creating" /\ view'.ip = FALSE
        /\ view'.gen = Object.gen /\ view'.force = Object.force
        /\ view'.obs \in {Object.obs, Object.gen}
    <3>1. LET w == ToCreating(Object)
          IN  w \in Objects /\ w.phase = "Creating" /\ ~w.ip /\ w.gen = Object.gen
              /\ w.force = Object.force /\ w.obs = Object.obs
      BY <1>o, CopyFacts
    <3>2. view'.ip \in BOOLEAN
      BY <2>2, <3>1 DEF Objects
    <3> QED BY <2>2, <3>1, <3>2
  <2>5. next' \in Nexts /\ next'.then = "idle" /\ next'.undoRunning = 1 /\ next'.doneRunning = 0
    BY <2>2, NextFacts
  <2>6. UpdateOK(Object, view', next')
    BY <1>o, <2>1, <2>4, <2>5 DEF UpdateOK, IsCounted, Count, Parked, Unclaimed, NoBuild
  <2>7. running' \in Int /\ running' + next'.undoRunning = running
    BY <1>o, <2>2, <2>5
  <2>8. HistoryKept /\ PodHandled /\ (pod' \in {"none", "dying"} \/ hist'.lostDeletes > 0)
    BY <1>14, DeleteFacts DEF ActiveRecycle, Handling, Update, others, InActive, LeaveActive, Input
  <2> QED BY <2>1, <2>2, <2>3, <2>4, <2>6, <2>7, <2>8 DEF HandlerStep, Parked
<1>15. CASE ActivePodLost
  <2>1. Object.phase = "Active"
    BY <1>15 DEF ActivePodLost, Handling, Update, others, InActive, enterRecovery
  <2>2. /\ pc \in {"idle", "cont"} /\ pc' = "commit" /\ cur' = Current
        /\ UNCHANGED <<ws, cache, cacheCur, podCache, api>>
        /\ view' = RecoveryStatus(Object)
        /\ next' = [NoNext EXCEPT !.undoRunning = 1] /\ running' = running - 1
        /\ pvc' \in BOOLEAN
    BY <1>o, <1>15 DEF ActivePodLost, Handling, Update, others, InActive, enterRecovery
  <2>3. inputs' \in 0..MaxInputs /\ inputs <= inputs'
    BY <1>o, <1>15 DEF ActivePodLost, Handling, Update, others, InActive, enterRecovery
  <2>4. /\ view' \in Objects /\ view'.phase = "Creating" /\ view'.ip = FALSE
        /\ view'.gen = Object.gen /\ view'.force = Object.force
        /\ view'.obs \in {Object.obs, Object.gen}
    <3>1. LET w == RecoveryStatus(Object)
          IN  w \in Objects /\ w.phase = "Creating" /\ ~w.ip /\ w.gen = Object.gen
              /\ w.force = Object.force /\ w.obs = Object.obs
      BY <1>o, CopyFacts
    <3>2. view'.ip \in BOOLEAN
      BY <2>2, <3>1 DEF Objects
    <3> QED BY <2>2, <3>1, <3>2
  <2>5. next' \in Nexts /\ next'.then = "idle" /\ next'.undoRunning = 1 /\ next'.doneRunning = 0
    BY <2>2, NextFacts
  <2>6. UpdateOK(Object, view', next')
    BY <1>o, <2>1, <2>4, <2>5 DEF UpdateOK, IsCounted, Count, Parked, Unclaimed, NoBuild
  <2>7. running' \in Int /\ running' + next'.undoRunning = running
    BY <1>o, <2>2, <2>5
  <2>8. HistoryKept /\ PodHandled
    BY <1>15, NoDeleteFacts DEF ActivePodLost, Handling, Update, others, InActive, enterRecovery
  <2> QED BY <2>1, <2>2, <2>3, <2>4, <2>6, <2>7, <2>8 DEF HandlerStep, Parked
<1>16. CASE ActivePodDying
  <2>1. Object.phase = "Active"
    BY <1>16 DEF ActivePodDying, Handling, Update, others, InActive, LeaveActive
  <2>2. /\ pc \in {"idle", "cont"} /\ pc' = "commit" /\ cur' = Current
        /\ UNCHANGED <<ws, cache, cacheCur, podCache, api>>
        /\ view' = ToCreating(Object)
        /\ next' = [NoNext EXCEPT !.undoRunning = 1] /\ running' = running - 1
        /\ pvc' \in BOOLEAN
    BY <1>o, <1>16 DEF ActivePodDying, Handling, Update, others, InActive, LeaveActive
  <2>3. inputs' \in 0..MaxInputs /\ inputs <= inputs'
    BY <1>o, <1>16 DEF ActivePodDying, Handling, Update, others, InActive, LeaveActive
  <2>4. /\ view' \in Objects /\ view'.phase = "Creating" /\ view'.ip = FALSE
        /\ view'.gen = Object.gen /\ view'.force = Object.force
        /\ view'.obs \in {Object.obs, Object.gen}
    <3>1. LET w == ToCreating(Object)
          IN  w \in Objects /\ w.phase = "Creating" /\ ~w.ip /\ w.gen = Object.gen
              /\ w.force = Object.force /\ w.obs = Object.obs
      BY <1>o, CopyFacts
    <3>2. view'.ip \in BOOLEAN
      BY <2>2, <3>1 DEF Objects
    <3> QED BY <2>2, <3>1, <3>2
  <2>5. next' \in Nexts /\ next'.then = "idle" /\ next'.undoRunning = 1 /\ next'.doneRunning = 0
    BY <2>2, NextFacts
  <2>6. UpdateOK(Object, view', next')
    BY <1>o, <2>1, <2>4, <2>5 DEF UpdateOK, IsCounted, Count, Parked, Unclaimed, NoBuild
  <2>7. running' \in Int /\ running' + next'.undoRunning = running
    BY <1>o, <2>2, <2>5
  <2>8. HistoryKept /\ PodHandled
    BY <1>16, NoDeleteFacts DEF ActivePodDying, Handling, Update, others, InActive, LeaveActive
  <2> QED BY <2>1, <2>2, <2>3, <2>4, <2>6, <2>7, <2>8 DEF HandlerStep, Parked
<1>17. CASE ActiveStable
  <2>1. Object.phase = "Active"
    BY <1>17 DEF ActiveStable, Handling, Update, others, InActive
  <2>2. /\ pc \in {"idle", "cont"} /\ pc' = "commit" /\ cur' = Current
        /\ UNCHANGED <<ws, cache, cacheCur, podCache, api>>
        /\ view' = maybeReset(Object)
        /\ next' = NoNext /\ running' = running
        /\ pvc' \in BOOLEAN
    BY <1>o, <1>17 DEF ActiveStable, Handling, Update, others, InActive
  <2>3. inputs' \in 0..MaxInputs /\ inputs <= inputs'
    BY <1>o, <1>17 DEF ActiveStable, Handling, Update, others, InActive
  <2>4. /\ view' \in Objects /\ view'.phase = "Active" /\ view'.ip = Object.ip
        /\ view'.gen = Object.gen /\ view'.force = Object.force
        /\ view'.obs \in {Object.obs, Object.gen}
    <3>1. LET w == maybeReset(Object)
          IN  w \in Objects /\ w.phase = Object.phase /\ w.ip = Object.ip /\ w.gen = Object.gen
              /\ w.force = Object.force /\ w.obs \in {Object.obs, Object.gen}
      BY <1>o, CopyFacts
    <3> QED BY <1>o, <2>1, <2>2, <3>1
  <2>5. next' \in Nexts /\ next'.then = "idle" /\ next'.undoRunning = 0 /\ next'.doneRunning = 0
    BY <2>2, NextFacts
  <2>6. UpdateOK(Object, view', next')
    BY <1>o, <2>1, <2>4, <2>5 DEF UpdateOK, IsCounted, Count, Parked, Unclaimed, NoBuild
  <2>7. running' \in Int /\ running' + next'.undoRunning = running
    BY <1>o, <2>2, <2>5
  <2>8. HistoryKept /\ PodHandled
    BY <1>17, NoDeleteFacts DEF ActiveStable, Handling, Update, others, InActive
  <2> QED BY <2>1, <2>2, <2>3, <2>4, <2>6, <2>7, <2>8 DEF HandlerStep, Parked
<1>18. CASE restartAgentPod
  <2>1. Object.phase = "Active"
    BY <1>18 DEF restartAgentPod, Handling, Update, others, InActive, LeaveActive, Input
  <2>2. /\ pc \in {"idle", "cont"} /\ pc' = "commit" /\ cur' = Current
        /\ UNCHANGED <<ws, cache, cacheCur, podCache, api>>
        /\ view' = ToCreating(maybeReset(Object))
        /\ next' = [NoNext EXCEPT !.undoRunning = 1] /\ running' = running - 1
        /\ pvc' \in BOOLEAN
    BY <1>o, <1>18 DEF restartAgentPod, Handling, Update, others, InActive, LeaveActive, Input
  <2>3. inputs' \in 0..MaxInputs /\ inputs <= inputs'
    BY <1>o, <1>18 DEF restartAgentPod, Handling, Update, others, InActive, LeaveActive, Input
  <2>4. /\ view' \in Objects /\ view'.phase = "Creating" /\ view'.ip = FALSE
        /\ view'.gen = Object.gen /\ view'.force = Object.force
        /\ view'.obs \in {Object.obs, Object.gen}
    <3> DEFINE o == maybeReset(Object)
    <3>1. /\ o \in Objects /\ o.gen = Object.gen /\ o.force = Object.force
          /\ o.obs \in {Object.obs, Object.gen}
      BY <1>o, CopyFacts
    <3>2. view' = ToCreating(o)
      BY <2>2
    <3> HIDE DEF o
    <3>3. LET w == ToCreating(o)
          IN  w \in Objects /\ w.phase = "Creating" /\ ~w.ip /\ w.gen = o.gen
              /\ w.force = o.force /\ w.obs = o.obs
      BY <3>1, CopyFacts
    <3>4. view'.ip \in BOOLEAN
      BY <3>2, <3>3 DEF Objects
    <3> QED BY <3>1, <3>2, <3>3, <3>4
  <2>5. next' \in Nexts /\ next'.then = "idle" /\ next'.undoRunning = 1 /\ next'.doneRunning = 0
    BY <2>2, NextFacts
  <2>6. UpdateOK(Object, view', next')
    BY <1>o, <2>1, <2>4, <2>5 DEF UpdateOK, IsCounted, Count, Parked, Unclaimed, NoBuild
  <2>7. running' \in Int /\ running' + next'.undoRunning = running
    BY <1>o, <2>2, <2>5
  <2>8. HistoryKept /\ PodHandled /\ (pod' \in {"none", "dying"} \/ hist'.lostDeletes > 0)
    BY <1>18, DeleteFacts DEF restartAgentPod, Handling, Update, others, InActive, LeaveActive, Input
  <2> QED BY <2>1, <2>2, <2>3, <2>4, <2>6, <2>7, <2>8 DEF HandlerStep, Parked
<1>19. CASE handleSuspending
  <2>1. Object.phase = "Suspending"
    BY <1>19 DEF handleSuspending, Handling, Update, others
  <2>2. /\ pc \in {"idle", "cont"} /\ pc' = "commit" /\ cur' = Current
        /\ UNCHANGED <<ws, cache, cacheCur, podCache, api>>
        /\ view' = [clearRecoveryState(Object) EXCEPT !.phase = "Suspended", !.ip = FALSE]
        /\ next' = [NoNext EXCEPT !.undoRunning = 1] /\ running' = running - 1
        /\ pvc' \in BOOLEAN
    BY <1>o, <1>19 DEF handleSuspending, Handling, Update, others
  <2>3. inputs' \in 0..MaxInputs /\ inputs <= inputs'
    BY <1>o, <1>19 DEF handleSuspending, Handling, Update, others
  <2>4. /\ view' \in Objects /\ view'.phase = "Suspended" /\ view'.ip = FALSE
        /\ view'.gen = Object.gen /\ view'.force = Object.force
        /\ view'.obs \in {Object.obs, Object.gen}
    <3>1. LET w == [clearRecoveryState(Object) EXCEPT !.phase = "Suspended", !.ip = FALSE]
          IN  w \in Objects /\ w.phase = "Suspended" /\ ~w.ip /\ w.gen = Object.gen
              /\ w.force = Object.force /\ w.obs = Object.obs
      BY <1>o, CopyFacts
    <3>2. view'.ip \in BOOLEAN
      BY <2>2, <3>1 DEF Objects
    <3> QED BY <2>2, <3>1, <3>2
  <2>5. next' \in Nexts /\ next'.then = "idle" /\ next'.undoRunning = 1 /\ next'.doneRunning = 0
    BY <2>2, NextFacts
  <2>6. UpdateOK(Object, view', next')
    BY <1>o, <2>1, <2>4, <2>5 DEF UpdateOK, IsCounted, Count, Parked, Unclaimed, NoBuild
  <2>7. running' \in Int /\ running' + next'.undoRunning = running
    BY <1>o, <2>2, <2>5
  <2>8. HistoryKept /\ PodHandled /\ (pod' \in {"none", "dying"} \/ hist'.lostDeletes > 0)
    BY <1>19, DeleteFacts DEF handleSuspending, Handling, Update, others
  <2> QED BY <2>1, <2>2, <2>3, <2>4, <2>6, <2>7, <2>8 DEF HandlerStep, Parked
<1>20. CASE ResumeSuspended
  <2>1. Object.phase = "Suspended" /\ Object.suspend = "false"
    BY <1>20 DEF ResumeSuspended, Handling, Update, others
  <2>2. /\ pc \in {"idle", "cont"} /\ pc' = "commit" /\ cur' = Current
        /\ UNCHANGED <<ws, cache, cacheCur, podCache, api>>
        /\ view' = [Object EXCEPT !.phase = "Resuming"]
        /\ next' = [NoNext EXCEPT !.then = "clear"] /\ running' = running
        /\ pvc' \in BOOLEAN
    BY <1>o, <1>20 DEF ResumeSuspended, Handling, Update, others
  <2>3. inputs' \in 0..MaxInputs /\ inputs <= inputs'
    BY <1>o, <1>20, SMTT(30) DEF ResumeSuspended, Handling, Update, others
  <2>4. /\ view' \in Objects /\ view'.phase = "Resuming" /\ view'.ip = Object.ip
        /\ view'.gen = Object.gen /\ view'.force = Object.force
        /\ view'.obs \in {Object.obs, Object.gen}
    BY <1>o, <2>1, <2>2, CopyFacts DEF Phases
  <2>5. next' \in Nexts /\ next'.then = "clear" /\ next'.undoRunning = 0 /\ next'.doneRunning = 0
    BY <2>2, NextFacts
  <2>6. UpdateOK(Object, view', next')
    BY <1>o, <2>1, <2>4, <2>5 DEF UpdateOK, IsCounted, Count, Parked, Unclaimed, NoBuild
  <2>7. running' \in Int /\ running' + next'.undoRunning = running
    BY <1>o, <2>2, <2>5
  <2>8. HistoryKept /\ PodHandled
    BY <1>20, NoDeleteFacts DEF ResumeSuspended, Handling, Update, others
  <2> QED BY <2>1, <2>2, <2>3, <2>4, <2>6, <2>7, <2>8 DEF HandlerStep, Parked
<1>21. CASE TTLExpires
  <2>1. Object.phase = "Suspended"
    BY <1>21 DEF TTLExpires, Handling, Update, others, Input
  <2>2. /\ pc \in {"idle", "cont"} /\ pc' = "commit" /\ cur' = Current
        /\ UNCHANGED <<ws, cache, cacheCur, podCache, api>>
        /\ view' = [Object EXCEPT !.phase = "Terminating"]
        /\ next' = NoNext /\ running' = running
        /\ pvc' \in BOOLEAN
    BY <1>o, <1>21 DEF TTLExpires, Handling, Update, others, Input
  <2>3. inputs' \in 0..MaxInputs /\ inputs <= inputs'
    BY <1>o, <1>21 DEF TTLExpires, Handling, Update, others, Input
  <2>4. /\ view' \in Objects /\ view'.phase = "Terminating" /\ view'.ip = Object.ip
        /\ view'.gen = Object.gen /\ view'.force = Object.force
        /\ view'.obs \in {Object.obs, Object.gen}
    BY <1>o, <2>1, <2>2, CopyFacts DEF Phases
  <2>5. next' \in Nexts /\ next'.then = "idle" /\ next'.undoRunning = 0 /\ next'.doneRunning = 0
    BY <2>2, NextFacts
  <2>6. UpdateOK(Object, view', next')
    BY <1>o, <2>1, <2>4, <2>5 DEF UpdateOK, IsCounted, Count, Parked, Unclaimed, NoBuild
  <2>7. running' \in Int /\ running' + next'.undoRunning = running
    BY <1>o, <2>2, <2>5
  <2>8. HistoryKept /\ PodHandled
    BY <1>21, NoDeleteFacts DEF TTLExpires, Handling, Update, others, Input
  <2> QED BY <2>1, <2>2, <2>3, <2>4, <2>6, <2>7, <2>8 DEF HandlerStep, Parked
<1>22. CASE handleResuming
  <2>1. Object.phase = "Resuming"
    BY <1>22 DEF handleResuming, Handling, Update, others
  <2>2. /\ pc \in {"idle", "cont"} /\ pc' = "commit" /\ cur' = Current
        /\ UNCHANGED <<ws, cache, cacheCur, podCache, api>>
        /\ view' = [Object EXCEPT !.phase = "Creating"]
        /\ next' = NoNext /\ running' = running
        /\ pvc' \in BOOLEAN
    BY <1>o, <1>22 DEF handleResuming, Handling, Update, others
  <2>3. inputs' \in 0..MaxInputs /\ inputs <= inputs'
    BY <1>o, <1>22 DEF handleResuming, Handling, Update, others
  <2>4. /\ view' \in Objects /\ view'.phase = "Creating" /\ view'.ip = Object.ip
        /\ view'.gen = Object.gen /\ view'.force = Object.force
        /\ view'.obs \in {Object.obs, Object.gen}
    BY <1>o, <2>1, <2>2, CopyFacts, ZenonT(60) DEF Phases
  <2>5. next' \in Nexts /\ next'.then = "idle" /\ next'.undoRunning = 0 /\ next'.doneRunning = 0
    BY <2>2, NextFacts
  <2>6. UpdateOK(Object, view', next')
    BY <1>o, <2>1, <2>4, <2>5 DEF UpdateOK, IsCounted, Count, Parked, Unclaimed, NoBuild
  <2>7. running' \in Int /\ running' + next'.undoRunning = running
    BY <1>o, <2>2, <2>5
  <2>8. HistoryKept /\ PodHandled
    BY <1>22, NoDeleteFacts DEF handleResuming, Handling, Update, others
  <2> QED BY <2>1, <2>2, <2>3, <2>4, <2>6, <2>7, <2>8 DEF HandlerStep, Parked
<1>23. CASE handleTerminating
  <2>1. /\ pc = "idle" /\ Object = cache /\ (Object.deleting \/ Object.phase = "Terminating")
    BY <1>23 DEF handleTerminating, Object
  <2>2. /\ pc' = "commit" /\ cur' = Current /\ UNCHANGED <<ws, cache, cacheCur, podCache, api>>
        /\ view' = [Object EXCEPT !.phase = "Terminated", !.ip = FALSE]
        /\ next' = [NoNext EXCEPT !.then = "finalizer", !.doneRunning = IF Object.ip THEN -1 ELSE 0]
        /\ UNCHANGED <<running, inputs>> /\ pvc' = FALSE
    BY <1>23, <2>1 DEF handleTerminating, Update, others
  <2>3. inputs' \in 0..MaxInputs /\ inputs <= inputs'
    BY <1>o, <2>2
  <2>4. /\ view' \in Objects /\ view'.phase = "Terminated" /\ view'.ip = FALSE
        /\ view'.gen = Object.gen /\ view'.force = Object.force /\ view'.obs = Object.obs
    BY <1>o, <2>2 DEF Objects, Phases
  <2>5. /\ next' \in Nexts /\ next'.then = "finalizer" /\ next'.undoRunning = 0
        /\ next'.doneRunning = IF Object.ip THEN -1 ELSE 0
    BY <2>2, NextFacts
  <2>6. UpdateOK(Object, view', next')
    BY <1>o, <2>1, <2>4, <2>5 DEF UpdateOK, IsCounted, Count, Parked, Unclaimed, NoBuild
  <2>7. running' \in Int /\ running' + next'.undoRunning = running
    BY <1>o, <2>2, <2>5
  <2>8. HistoryKept /\ PodHandled /\ (pod' \in {"none", "dying"} \/ hist'.lostDeletes > 0)
    BY <1>23, DeleteFacts DEF handleTerminating
  <2> QED BY <2>1, <2>2, <2>3, <2>6, <2>7, <2>8 DEF HandlerStep
<1> QED
  BY <1>1, <1>2, <1>3, <1>4, <1>5, <1>6, <1>7, <1>8, <1>9, <1>10, <1>11, <1>12, <1>13, <1>14, <1>15, <1>16, <1>17, <1>18, <1>19, <1>20, <1>21, <1>22, <1>23 DEF Handler

(* One proof for all handlers. *)
LEMMA HandlerKeeps ==
    ASSUME ControllerInv, HandlerStep
    PROVE  ControllerInv'
<1> DEFINE o == Object
<1>a. \/ pc = "idle" /\ o = cache /\ cur' = cacheCur
      \/ pc = "cont" /\ o = view /\ cur' = cur
  BY DEF HandlerStep, Object, Current
<1>b. /\ pc' = "commit" /\ UNCHANGED <<ws, cache, cacheCur, podCache, api>>
      /\ UpdateOK(o, view', next')
  BY DEF HandlerStep
<1> HIDE DEF o
<1>c. cur' => /\ ~hist.refreshed => Count(o) = Count(ws)
              /\ o.phase = "Pending" => ws.phase = "Pending"
              /\ (o.phase \notin Unclaimed \/ (o.phase = "Pending" /\ o.final)) => ws.final
  BY <1>a DEF ControllerInv, CopiesHold, ContinuesRight, GaugeHolds, Count, IsCounted, Unclaimed
<1>1. ControllerTypes'
  <2>1. /\ view' \in Objects /\ view'.gen = o.gen /\ view'.obs \in {o.obs, o.gen}
        /\ next' \in Nexts /\ hist' \in Histories
    BY <1>b DEF UpdateOK, HandlerStep, HistoryKept
  <2>2. o \in {cache, view} /\ cur' \in BOOLEAN
    BY <1>a DEF ControllerInv, ControllerTypes, TypeOK
  <2>3. /\ ws.gen \in Int /\ cache.gen \in Int /\ view.gen \in Int /\ cache.obs \in Int /\ view.obs \in Int
        /\ cache.gen <= ws.gen /\ view.gen <= ws.gen /\ ws.gen <= inputs /\ inputs \in Int
        /\ inputs' \in Int /\ inputs <= inputs'
        /\ cache.obs <= cache.gen /\ view.obs <= view.gen
    BY DEF ControllerInv, ControllerTypes, TypeOK, Objects, HandlerStep
  <2>4. view'.obs <= view'.gen /\ view'.obs <= ws.gen /\ view'.gen <= ws.gen /\ ws.gen <= inputs'
    BY <2>1, <2>2, <2>3
  <2>5. TypeOK'
    BY <1>b, <2>1, <2>2, <2>4 DEF ControllerInv, ControllerTypes, TypeOK, HandlerStep, PodHandled
  <2> QED BY <1>b, <2>1, <2>4, <2>5 DEF ControllerInv, ControllerTypes
<1>2. NoBuild(o) \/ (pc = "cont" /\ ws.phase \notin Parked \cup {"Pending"})
      \/ (pc = "idle" /\ ws.phase \notin Parked \cup {"Pending"})
  BY <1>a DEF ControllerInv, CopiesHold, ContinuesRight, ParkedHolds, NoBuild
<1>3. CopiesHold'
  <2>1. ws.phase = "Pending" => pod' = "none"
    BY <1>2 DEF HandlerStep, PodHandled, ControllerInv, CopiesHold, o
  <2>2. view'.ip <=> IsCounted(view')
    BY <1>b DEF UpdateOK
  <2>3. /\ ws' = ws /\ cache' = cache /\ cacheCur' = cacheCur
    BY <1>b
  <2>4. \A w \in {ws, cache, view'} : w.ip <=> IsCounted(w)
    BY <2>2 DEF ControllerInv, CopiesHold
  <2>5. \A w \in {ws', cache', view'} : w.ip <=> IsCounted(w)
    BY <2>3, <2>4
  <2> QED BY <2>1, <2>3, <2>5 DEF ControllerInv, CopiesHold, IsCounted
<1>4. ContinuesRight'
  BY <1>b DEF ContinuesRight
<1>5. CommitsRight'
  <2>1. next'.then = "finalizer" => view'.phase = "Terminated"
    BY <1>b DEF UpdateOK
  <2>2. ASSUME cur'
        PROVE  /\ view'.phase = "Pending" => ws.phase = "Pending"
               /\ view'.phase \notin Unclaimed => ws.final
    BY <1>b, <1>c, <2>2 DEF UpdateOK
  <2>3. ASSUME cur', view'.phase \in Parked
        PROVE  NoBuild(cache) /\ NoBuild(ws)
    <3>1. CASE pc = "idle"
      <4>1. NoBuild(o) /\ o = cache /\ cache = ws
        BY <1>a, <1>b, <2>3, <3>1 DEF UpdateOK, ControllerInv, CopiesHold
      <4> QED BY <4>1
    <3>2. CASE pc = "cont"
      <4>1. o.phase \in {"Pending", "Suspending"} /\ o = view /\ cur
        BY <1>a, <2>3, <3>2 DEF HandlerStep, o
      <4>2. ws.phase = "Pending" /\ cache.phase = "Pending"
        BY <3>2, <4>1 DEF ControllerInv, ContinuesRight, CopiesHold
      <4> QED BY <4>2 DEF NoBuild
    <3> QED BY <1>a, <3>1, <3>2
  <2>4. ws' = ws /\ cache' = cache
    BY <1>b
  <2> QED BY <2>1, <2>2, <2>3, <2>4 DEF CommitsRight, NoBuild
<1>6. ParkedHolds'
  <2>1. ws' = ws /\ cache' = cache
    BY <1>b
  <2>2. ws.phase \in Parked => NoBuild(cache)
    BY DEF ControllerInv, ParkedHolds
  <2>3. hist'.lostDeletes = 0 => hist.lostDeletes = 0
    <3>1. hist.lostDeletes \in Nat /\ hist'.lostDeletes \in Nat /\ hist'.lostDeletes >= hist.lostDeletes
      BY DEF HandlerStep, HistoryKept, ControllerInv, ControllerTypes, Histories
    <3> QED BY <3>1
  <2>4. ASSUME ws.phase \in Parked, hist'.lostDeletes = 0
        PROVE  pod' \in {"none", "dying"}
    <3>1. pod \in {"none", "dying"}
      BY <2>3, <2>4 DEF ControllerInv, ParkedHolds, ParkedPodStops, Parked
    <3>2. NoBuild(o)
      BY <1>2, <2>4
    <3> QED BY <3>1, <3>2 DEF HandlerStep, PodHandled, o
  <2>5. view'.phase \in Parked /\ hist'.lostDeletes = 0 => pod' \in {"none", "dying"}
    BY DEF HandlerStep
  <2> QED BY <2>1, <2>2, <2>4, <2>5 DEF ParkedHolds, ParkedPodStops, Parked, NoBuild
<1>7. ResumesPaid'
  <2>1. ws' = ws /\ pc # "clear" /\ pc' # "clear"
    BY <1>a, <1>b
  <2>2. Credit' = Credit
    BY <2>1 DEF Credit
  <2>3. hist'.clearsFailed = hist.clearsFailed /\ hist'.activates = hist.activates
        /\ hist'.resumes = hist.resumes
    BY DEF HandlerStep, HistoryKept
  <2>4. ASSUME view'.phase = "Resuming"
        PROVE  next'.then = "clear" /\ (cur' => ws.suspend = "false")
    <3>1. next'.then = "clear" /\ o.suspend = "false" /\ o.phase = "Suspended"
      BY <1>b, <2>4 DEF UpdateOK
    <3> QED BY <1>a, <3>1 DEF ControllerInv, CopiesHold, ContinuesRight
  <2> QED BY <2>1, <2>2, <2>3, <2>4 DEF ControllerInv, ResumesPaid
<1>8. GaugeHolds'
  <2>1. SUFFICES ASSUME ~hist.refreshed
                 PROVE  /\ ws.force = 0 /\ cache.force = 0 /\ view'.force = 0
                        /\ running' + next'.undoRunning = Count(ws)
                        /\ cur' => running' + next'.doneRunning = Count(view')
    <3>1. hist'.refreshed = hist.refreshed /\ Count(ws)' = Count(ws) /\ Count(view)' = Count(view')
      BY <1>b DEF HandlerStep, HistoryKept, Count, IsCounted
    <3> QED BY <1>b, <3>1 DEF GaugeHolds
  <2>2. ws.force = 0 /\ cache.force = 0 /\ view.force = 0 /\ running = Count(ws)
    BY <1>a, <2>1 DEF ControllerInv, GaugeHolds
  <2>3. view'.force = 0
    BY <1>a, <1>b, <2>2 DEF UpdateOK
  <2>4. running' \in Int /\ running' + next'.undoRunning = running
    BY DEF HandlerStep
  <2>5. Count(o) + next'.doneRunning = Count(view') + next'.undoRunning
        /\ next'.doneRunning \in Int /\ next'.undoRunning \in Int
    BY <1>b DEF UpdateOK, Nexts
  <2>6. Count(o) \in Int /\ Count(view') \in Int
    BY DEF Count
  <2> QED BY <1>c, <2>1, <2>2, <2>3, <2>4, <2>5, <2>6
<1> QED BY <1>1, <1>3, <1>4, <1>5, <1>6, <1>7, <1>8 DEF ControllerInv

-----------------------------------------------------------------------------
(* The steps that end a reconcile or go on to its last write. *)

(* What they have in common: the object is left with what was promised.    *)
FinishStep ==
    /\ pc' \in {"idle", "clear", "finalizer"} /\ view' \in {view, NewWorkspace} /\ next' = NoNext
    /\ cur' \in BOOLEAN /\ UNCHANGED <<cache, pod, podCache, pvc, api, inputs>>
    /\ ws' \in Objects /\ ws'.gen = ws.gen /\ ws'.force = ws.force /\ ws'.obs <= ws.gen
    /\ ws'.ip <=> IsCounted(ws')
    /\ cacheCur' = FALSE \/ (ws' = ws /\ cacheCur' = cacheCur)
    /\ ws'.phase = "Pending" => ws.phase = "Pending"
    /\ ws'.phase \notin Unclaimed => ws'.final
    /\ ws'.phase \in Parked => NoBuild(cache) /\ (hist.lostDeletes = 0 => pod \in {"none", "dying"})
    /\ pc' = "finalizer" /\ cur' => ws'.phase = "Terminated"
    /\ hist' \in Histories /\ hist'.refreshed = hist.refreshed /\ hist'.lostDeletes = hist.lostDeletes
    /\ hist'.clearsFailed = 0 => hist'.resumes + Credit' <= hist'.activates
    /\ running' \in Int /\ (~hist.refreshed => running' = Count(ws'))

LEMMA NewFacts ==
    /\ NewWorkspace \in Objects /\ NewWorkspace.gen = 0 /\ NewWorkspace.obs = 0 /\ NewWorkspace.force = 0
    /\ ~NewWorkspace.ip /\ NewWorkspace.phase = "Pending" /\ ~IsCounted(NewWorkspace)
BY ControllerAssumption DEF NewWorkspace, Objects, Phases, IsCounted

LEMMA FinishKeeps ==
    ASSUME ControllerInv, FinishStep
    PROVE  ControllerInv'
<1>a. /\ pc' \in {"idle", "clear", "finalizer"} /\ view' \in {view, NewWorkspace} /\ cache' = cache
      /\ pod' = pod
  BY DEF FinishStep
<1>1. ControllerTypes'
  <2>1. /\ ws.gen \in 0..MaxInputs /\ 0 <= ws.gen /\ view.gen <= ws.gen /\ view.obs <= ws.gen
        /\ view.obs <= view.gen /\ view \in Objects
    BY ControllerAssumption DEF ControllerInv, ControllerTypes, TypeOK, Objects
  <2>2. /\ view' \in Objects /\ view'.gen <= ws'.gen /\ view'.obs <= ws'.gen /\ view'.obs <= view'.gen
    BY <1>a, <2>1, NewFacts DEF FinishStep
  <2>3. /\ ws' \in Objects /\ ws'.obs <= ws'.gen /\ ws'.gen = ws.gen /\ cacheCur' \in BOOLEAN
        /\ cur' \in BOOLEAN
    BY DEF FinishStep, ControllerInv, ControllerTypes, TypeOK
  <2>4. TypeOK'
    BY <1>a, <2>2, <2>3 DEF FinishStep, ControllerInv, ControllerTypes, TypeOK
  <2> QED BY <1>a, <2>2, <2>3, <2>4, NextFacts DEF FinishStep, ControllerInv, ControllerTypes
<1>2. CopiesHold'
  <2>1. view'.ip <=> IsCounted(view')
    BY <1>a, NewFacts DEF ControllerInv, CopiesHold
  <2>2. \A w \in {ws', cache', view'} : w.ip <=> IsCounted(w)
    BY <1>a, <2>1 DEF FinishStep, ControllerInv, CopiesHold
  <2>3. cacheCur' => cache' = ws'
    BY <1>a DEF FinishStep, ControllerInv, CopiesHold
  <2> QED BY <1>a, <2>2, <2>3 DEF FinishStep, ControllerInv, CopiesHold, IsCounted, Unclaimed
<1>3. ContinuesRight'
  BY <1>a DEF FinishStep, ContinuesRight
<1>4. CommitsRight'
  BY <1>a DEF CommitsRight
<1>5. ParkedHolds'
  BY <1>a DEF FinishStep, ParkedHolds, ParkedPodStops, Parked, NoBuild
<1>6. ResumesPaid'
  BY <1>a DEF FinishStep, ResumesPaid
<1>7. GaugeHolds'
  <2>1. ~hist.refreshed => ws'.force = 0 /\ cache'.force = 0 /\ view'.force = 0
    BY <1>a, NewFacts DEF FinishStep, ControllerInv, GaugeHolds
  <2>2. Count(ws)' = Count(ws')
    BY DEF Count, IsCounted
  <2> QED BY <1>a, <2>1, <2>2 DEF FinishStep, GaugeHolds
<1> QED BY <1>1, <1>2, <1>3, <1>4, <1>5, <1>6, <1>7 DEF ControllerInv

LEMMA FinishFacts ==
    ASSUME ControllerInv,
           Requeue \/ ForceClearFails \/ Conflict \/ ClearFails \/ RemoveFinalizer
             \/ clearSuspendRequest \/ Commit
    PROVE  FinishStep
<1>t. /\ ws \in Objects /\ ws.obs <= ws.gen /\ (ws.ip <=> IsCounted(ws)) /\ hist \in Histories
      /\ view \in Objects /\ view.obs <= ws.gen /\ (view.ip <=> IsCounted(view))
      /\ running \in Int /\ next \in Nexts /\ cur \in BOOLEAN
      /\ ws.phase \notin Unclaimed => ws.final
      /\ ws.phase \in Parked => NoBuild(cache) /\ (hist.lostDeletes = 0 => pod \in {"none", "dying"})
  BY DEF ControllerInv, ControllerTypes, TypeOK, CopiesHold, ParkedHolds, ParkedPodStops, Parked
<1>u. next.undoRunning \in Int /\ next.doneRunning \in Int
      /\ hist.resumes \in Nat /\ hist.activates \in Nat /\ hist.clearsFailed \in Nat
  BY <1>t DEF Nexts, Histories
<1>p. hist.clearsFailed = 0 => hist.resumes + Credit <= hist.activates
  BY DEF ControllerInv, ResumesPaid
<1>1. CASE Requeue \/ ForceClearFails \/ Conflict
  <2>1. /\ pc # "clear" /\ pc' = "idle" /\ view' = NewWorkspace /\ next' = NoNext /\ cur' = FALSE
        /\ UNCHANGED <<ws, cache, cacheCur, podCache, api, pod, pvc, inputs, hist>>
    BY <1>1 DEF Requeue, ForceClearFails, Conflict, Return, others
  <2>2. Credit' = Credit
    BY <2>1 DEF Credit
  <2>3. running' \in Int /\ (~hist.refreshed => running' = Count(ws'))
    <3>1. CASE Conflict
      BY <1>t, <1>u, <2>1, <3>1 DEF Conflict, ControllerInv, GaugeHolds
    <3>2. CASE Requeue \/ ForceClearFails
      BY <1>t, <2>1, <3>2 DEF Requeue, ForceClearFails, ControllerInv, GaugeHolds
    <3> QED BY <1>1, <3>1, <3>2
  <2> QED BY <1>t, <1>p, <2>1, <2>2, <2>3 DEF FinishStep
<1>2. CASE ClearFails
  <2>1. /\ pc = "clear" /\ pc' = "idle" /\ view' = NewWorkspace /\ next' = NoNext /\ cur' = FALSE
        /\ UNCHANGED <<ws, cache, cacheCur, podCache, api, pod, pvc, inputs, running>>
        /\ hist' = [hist EXCEPT !.clearsFailed = @ + 1]
    BY <1>2 DEF ClearFails, Return, others
  <2>2. /\ hist' \in Histories /\ hist'.refreshed = hist.refreshed
        /\ hist'.lostDeletes = hist.lostDeletes /\ hist'.clearsFailed = hist.clearsFailed + 1
    BY <1>t, <1>u, <2>1 DEF Histories
  <2>3. hist'.clearsFailed # 0
    BY <1>u, <2>2
  <2>4. ~hist.refreshed => running' = Count(ws')
    BY <2>1 DEF ControllerInv, GaugeHolds
  <2> QED BY <1>t, <2>1, <2>2, <2>3, <2>4 DEF FinishStep
<1>3. CASE RemoveFinalizer
  <2>1. /\ pc = "finalizer" /\ pc' = "idle" /\ view' = NewWorkspace /\ next' = NoNext /\ cur' = FALSE
        /\ UNCHANGED <<cache, podCache, api, pod, pvc, inputs, running, hist>>
    BY <1>3 DEF RemoveFinalizer, Return
  <2>2. ~hist.refreshed => running' = Count(ws)
    BY <2>1 DEF ControllerInv, GaugeHolds
  <2>3. CASE cur
    <3>1. ws.phase = "Terminated"
      BY <2>1, <2>3 DEF ControllerInv, ContinuesRight
    <3>2. /\ ws' = [ws EXCEPT !.final = FALSE, !.phase = IF ws.deleting THEN "Gone" ELSE @]
          /\ cacheCur' = FALSE
      BY <1>3, <2>3 DEF RemoveFinalizer
    <3>3. /\ ws' \in Objects /\ ws'.gen = ws.gen /\ ws'.force = ws.force /\ ws'.obs = ws.obs
          /\ ws'.ip = ws.ip /\ ws'.phase \in {"Terminated", "Gone"} /\ ws'.suspend = ws.suspend
      BY <1>t, <3>1, <3>2 DEF Objects, Phases
    <3>4. Credit' = Credit /\ Count(ws') = Count(ws)
      BY <2>1, <3>1, <3>3 DEF Credit, Count, IsCounted
    <3> QED BY <1>t, <1>p, <2>1, <2>2, <3>1, <3>2, <3>3, <3>4
              DEF FinishStep, Unclaimed, Parked, IsCounted
  <2>4. CASE ~cur
    <3>1. UNCHANGED <<ws, cacheCur>>
      BY <1>3, <2>4 DEF RemoveFinalizer
    <3>2. Credit' = Credit
      BY <2>1, <3>1 DEF Credit
    <3> QED BY <1>t, <1>p, <2>1, <2>2, <3>1, <3>2 DEF FinishStep
  <2> QED BY <2>3, <2>4
<1>4. CASE clearSuspendRequest
  <2>1. /\ pc = "clear" /\ pc' = "idle" /\ view' = NewWorkspace /\ next' = NoNext /\ cur' = FALSE
        /\ UNCHANGED <<cache, podCache, api, pod, pvc, inputs, running, hist>> /\ cacheCur' = FALSE
        /\ ws' = [ws EXCEPT !.suspend = "nil"]
    BY <1>4 DEF clearSuspendRequest, Return
  <2>2. ~hist.refreshed => running' = Count(ws)
    BY <2>1 DEF ControllerInv, GaugeHolds
  <2>3. /\ ws' \in Objects /\ ws'.gen = ws.gen /\ ws'.force = ws.force /\ ws'.obs = ws.obs
        /\ ws'.ip = ws.ip /\ ws'.phase = ws.phase /\ ws'.suspend = "nil" /\ ws'.final = ws.final
    BY <1>t, <2>1 DEF Objects
  <2>4. Credit' = 0 /\ Credit = 0 /\ Count(ws') = Count(ws)
    BY <2>1, <2>3 DEF Credit, Count, IsCounted
  <2> QED BY <1>t, <1>p, <2>1, <2>2, <2>3, <2>4 DEF FinishStep, IsCounted
<1>5. CASE Commit
  <2>1. /\ pc = "commit" /\ cur /\ cacheCur' = FALSE /\ next' = NoNext
        /\ UNCHANGED <<cache, podCache, api, pod, pvc, inputs>>
        /\ running' = running + next.doneRunning
        /\ pc' = next.then
        /\ (view' = NewWorkspace /\ cur' = FALSE) \/ UNCHANGED <<view, cur>>
    BY <1>5 DEF Commit, Return
  <2>2. ws' = [ws EXCEPT !.phase = view.phase, !.obs = view.obs, !.failing = view.failing,
                         !.stable = view.stable, !.ip = view.ip]
    BY <1>5 DEF Commit
  <2>3. /\ ws' \in Objects /\ ws'.gen = ws.gen /\ ws'.force = ws.force /\ ws'.obs = view.obs
        /\ ws'.ip = view.ip /\ ws'.phase = view.phase /\ ws'.suspend = ws.suspend
        /\ ws'.final = ws.final
    BY <1>t, <2>2 DEF Objects
  <2>4. Count(ws') = Count(view) /\ (IsCounted(ws') <=> IsCounted(view))
    BY <2>3 DEF Count, IsCounted
  <2>5. running' \in Int /\ (~hist.refreshed => running' = Count(ws'))
    BY <1>t, <1>u, <2>1, <2>4 DEF ControllerInv, GaugeHolds
  <2>6. /\ view.phase = "Pending" => ws.phase = "Pending"
        /\ view.phase \notin Unclaimed => ws.final
        /\ view.phase \in Parked => NoBuild(cache) /\ (hist.lostDeletes = 0 => pod \in {"none", "dying"})
        /\ next.then = "finalizer" => view.phase = "Terminated"
    BY <2>1 DEF ControllerInv, CommitsRight, ParkedHolds
  <2>7. /\ hist' \in Histories /\ hist'.refreshed = hist.refreshed
        /\ hist'.lostDeletes = hist.lostDeletes
        /\ hist'.clearsFailed = 0 => hist'.resumes + Credit' <= hist'.activates
    <3>1. CASE view.phase = "Resuming"
      <4>1. hist' = [hist EXCEPT !.resumes = @ + 1]
        BY <1>5, <3>1 DEF Commit
      <4>2. hist' \in Histories /\ hist'.refreshed = hist.refreshed
            /\ hist'.lostDeletes = hist.lostDeletes /\ hist'.clearsFailed = hist.clearsFailed
            /\ hist'.activates = hist.activates /\ hist'.resumes = hist.resumes + 1
        BY <1>t, <1>u, <4>1 DEF Histories
      <4>3. next.then = "clear" /\ ws.suspend = "false"
        BY <2>1, <3>1 DEF ControllerInv, ResumesPaid
      <4>4. Credit = 1 /\ Credit' = 0
        BY <2>1, <4>3 DEF Credit
      <4> QED BY <1>u, <1>p, <4>2, <4>4
    <3>2. CASE view.phase # "Resuming"
      <4>1. hist' = hist
        BY <1>5, <3>2 DEF Commit
      <4>2. Credit' \in {0, 1} /\ Credit \in {0, 1} /\ Credit' <= Credit
        BY <2>1, <2>3 DEF Credit
      <4> QED BY <1>t, <1>u, <1>p, <4>1, <4>2
    <3> QED BY <3>1, <3>2
  <2>8. pc' \in {"idle", "clear", "finalizer"}
    BY <1>t, <2>1 DEF Nexts
  <2>9. cur' \in BOOLEAN /\ view' \in {view, NewWorkspace}
    BY <1>t, <2>1
  <2>10. ws'.obs <= ws.gen /\ (ws'.ip <=> IsCounted(ws'))
    BY <1>t, <2>3, <2>4
  <2> QED BY <2>1, <2>3, <2>5, <2>6, <2>7, <2>8, <2>9, <2>10 DEF FinishStep
<1> QED BY <1>1, <1>2, <1>3, <1>4, <1>5

-----------------------------------------------------------------------------
(* The steps that go on within a reconcile. *)

LEMMA AddFinalizerKeeps ==
    ASSUME ControllerInv, AddFinalizer
    PROVE  ControllerInv'
<1>1. /\ pc = "idle" /\ cacheCur /\ cache.phase = "Pending" /\ pc' = "cont" /\ cur' = TRUE
      /\ cacheCur' = FALSE /\ ws' = [ws EXCEPT !.final = TRUE]
      /\ view' = [cache EXCEPT !.final = TRUE]
      /\ UNCHANGED <<cache, pod, podCache, pvc, next, running, api, inputs, hist>>
  BY DEF AddFinalizer, Handling, Object
<1>2. cache = ws /\ ws \in Objects
  BY <1>1 DEF ControllerInv, CopiesHold, ControllerTypes, TypeOK
<1>3. /\ view' = ws' /\ ws' \in Objects /\ ws'.final /\ ws'.phase = "Pending" /\ ws'.ip = ws.ip
      /\ ws'.gen = ws.gen /\ ws'.obs = ws.obs /\ ws'.force = ws.force /\ ws'.suspend = ws.suspend
  BY <1>1, <1>2 DEF Objects
<1>4. ControllerTypes'
  <2>1. TypeOK'
    BY <1>1, <1>2, <1>3 DEF ControllerInv, ControllerTypes, TypeOK
  <2>2. ws.gen <= ws.gen
    BY <1>2 DEF Objects
  <2> QED BY <1>1, <1>2, <1>3, <2>1, <2>2 DEF ControllerInv, ControllerTypes
<1>5. CopiesHold'
  BY <1>1, <1>2, <1>3 DEF ControllerInv, CopiesHold, IsCounted, Unclaimed
<1>6. ContinuesRight' /\ CommitsRight' /\ ParkedHolds'
  BY <1>1, <1>2, <1>3
     DEF ControllerInv, ContinuesRight, CommitsRight, ParkedHolds, ParkedPodStops, Parked, NoBuild
<1>7. ResumesPaid'
  <2>1. Credit' = Credit
    BY <1>1, <1>3 DEF Credit
  <2> QED BY <1>1, <2>1 DEF ControllerInv, ResumesPaid
<1>8. GaugeHolds'
  <2>1. Count(ws)' = Count(ws)
    BY <1>1, <1>2, <1>3 DEF Count, IsCounted
  <2> QED BY <1>1, <1>3, <2>1 DEF ControllerInv, GaugeHolds
<1> QED BY <1>4, <1>5, <1>6, <1>7, <1>8 DEF ControllerInv

LEMMA SeeForceMarkerKeeps ==
    ASSUME ControllerInv, SeeForceMarker
    PROVE  ControllerInv'
<1>1. /\ pc = "idle" /\ pc' = "force" /\ ~cache.deleting /\ cache.suspend # "true"
      /\ view' = [cache EXCEPT !.force = 0] /\ cache.phase \in {"Active", "Creating"}
      /\ UNCHANGED <<ws, cache, cacheCur, podCache, api, pod, pvc, cur, next, running, inputs, hist>>
  BY DEF SeeForceMarker, ForceMarked, others
<1>2. cache \in Objects /\ cache.obs <= cache.gen /\ cache.gen <= ws.gen /\ cache.obs <= ws.gen
  BY DEF ControllerInv, ControllerTypes, TypeOK
<1>3. /\ view' \in Objects /\ view'.force = 0 /\ view'.phase = cache.phase /\ view'.ip = cache.ip
      /\ view'.gen = cache.gen /\ view'.obs = cache.obs
  BY <1>1, <1>2, ControllerAssumption DEF Objects
<1>4. ControllerTypes'
  BY <1>1, <1>2, <1>3 DEF ControllerInv, ControllerTypes, TypeOK
<1>5. CopiesHold'
  BY <1>1, <1>3 DEF ControllerInv, CopiesHold, IsCounted, Unclaimed
<1>6. ws.final /\ ws.phase \notin Parked \cup {"Pending"}
  BY <1>1 DEF ControllerInv, CopiesHold, ParkedHolds, NoBuild, Parked, Unclaimed
<1>7. ContinuesRight' /\ CommitsRight' /\ ParkedHolds'
  BY <1>1, <1>3, <1>6
     DEF ControllerInv, ContinuesRight, CommitsRight, ParkedHolds, ParkedPodStops, Parked, NoBuild
<1>8. ResumesPaid'
  <2>1. Credit' = Credit
    BY <1>1 DEF Credit
  <2> QED BY <1>1, <2>1 DEF ControllerInv, ResumesPaid
<1>9. hist.refreshed
  <2>1. cache.gen > cache.obs /\ cache.obs \in Nat /\ cache.gen \in Nat
    BY <1>2 DEF SeeForceMarker, Bumped, Objects
  <2>2. cache.gen # 0
    BY <2>1
  <2>3. cache.force # 0
    BY <2>2 DEF SeeForceMarker, ForceMarked
  <2> QED BY <2>3 DEF ControllerInv, GaugeHolds
<1>10. GaugeHolds'
  BY <1>1, <1>9 DEF GaugeHolds
<1> QED BY <1>4, <1>5, <1>7, <1>8, <1>10 DEF ControllerInv

LEMMA ClearForceKeeps ==
    ASSUME ControllerInv, clearForceRecycleAnnotation
    PROVE  ControllerInv'
<1>1. /\ pc = "force" /\ pc' = "cont"
      /\ UNCHANGED <<cache, pod, podCache, pvc, view, next, running, api, inputs, hist>>
  BY DEF clearForceRecycleAnnotation
<1>2. ws \in Objects /\ cacheCur \in BOOLEAN
  BY DEF ControllerInv, ControllerTypes, TypeOK
<1>3. /\ ws' \in Objects /\ ws'.phase = ws.phase /\ ws'.ip = ws.ip /\ ws'.final = ws.final
      /\ ws'.gen = ws.gen /\ ws'.obs = ws.obs /\ ws'.suspend = ws.suspend
      /\ cacheCur' \in BOOLEAN /\ cur' \in BOOLEAN
      /\ cacheCur' => ws' = ws /\ cacheCur
  <2>1. CASE ws' = [ws EXCEPT !.force = 0] /\ cacheCur' = FALSE /\ cur' = TRUE
    <3>1. 0 \in 0..MaxInputs
      BY ControllerAssumption
    <3>2. /\ ws' \in Objects /\ ws'.phase = ws.phase /\ ws'.ip = ws.ip /\ ws'.final = ws.final
          /\ ws'.gen = ws.gen /\ ws'.obs = ws.obs /\ ws'.suspend = ws.suspend
      BY <1>2, <2>1, <3>1 DEF Objects
    <3> QED BY <2>1, <3>2
  <2>2. CASE cur' = cacheCur /\ UNCHANGED <<ws, cacheCur>>
    BY <1>2, <2>2
  <2> QED BY <2>1, <2>2 DEF clearForceRecycleAnnotation
<1>4. ControllerTypes'
  BY <1>1, <1>3 DEF ControllerInv, ControllerTypes, TypeOK
<1>5. CopiesHold'
  BY <1>1, <1>3 DEF ControllerInv, CopiesHold, IsCounted, Unclaimed
<1>6. ContinuesRight' /\ CommitsRight' /\ ParkedHolds'
  BY <1>1, <1>3
     DEF ControllerInv, ContinuesRight, CommitsRight, ParkedHolds, ParkedPodStops, Parked, NoBuild
<1>7. ResumesPaid'
  <2>1. Credit' = Credit
    BY <1>1, <1>3 DEF Credit
  <2> QED BY <1>1, <2>1 DEF ControllerInv, ResumesPaid
<1>8. GaugeHolds'
  BY <1>1 DEF ControllerInv, GaugeHolds
<1> QED BY <1>4, <1>5, <1>6, <1>7, <1>8 DEF ControllerInv

-----------------------------------------------------------------------------
(* Requests, and the world around the reconciler. *)

(* A request writes the spec, and may remove an object without a finalizer. *)
RequestStep ==
    /\ ws' \in Objects /\ ws'.ip = ws.ip /\ ws'.obs = ws.obs /\ ws'.final = ws.final
    /\ ws'.phase = ws.phase \/ (ws'.phase = "Gone" /\ ~ws.final)
    /\ ws.gen <= ws'.gen /\ ws'.gen <= inputs' /\ inputs' \in 0..MaxInputs
    /\ cacheCur' = FALSE /\ cur' = FALSE /\ UNCHANGED apiUnchanged
    /\ api' \in {"idle", "check", "write"}
    /\ hist' \in Histories /\ hist'.lostDeletes = hist.lostDeletes
    /\ hist'.clearsFailed = hist.clearsFailed /\ hist'.resumes = hist.resumes
    /\ hist.activates + Credit' <= hist'.activates + Credit
    /\ ~hist'.refreshed => ~hist.refreshed /\ ws'.force = ws.force

LEMMA RequestKeeps ==
    ASSUME ControllerInv, RequestStep
    PROVE  ControllerInv'
<1>1. /\ UNCHANGED <<cache, pod, podCache, pvc, pc, view, next, running>>
      /\ cacheCur' = FALSE /\ cur' = FALSE
      /\ ws' \in Objects /\ ws'.ip = ws.ip /\ ws'.obs = ws.obs /\ ws'.final = ws.final
      /\ ws'.phase = ws.phase \/ (ws'.phase = "Gone" /\ ~ws.final)
  BY DEF RequestStep, apiUnchanged
<1>2. ws'.phase # ws.phase => /\ ws'.phase = "Gone" /\ ws.phase \in {"Pending", "Terminated"}
                              /\ ~IsCounted(ws) /\ ~IsCounted(ws') /\ ~ws.final
  BY <1>1 DEF ControllerInv, CopiesHold, Unclaimed, IsCounted
<1>3. IsCounted(ws') <=> IsCounted(ws)
  BY <1>2 DEF IsCounted
<1>4. ControllerTypes'
  <2>1. /\ ws.gen \in Int /\ ws'.gen \in Int /\ ws.gen <= ws'.gen
        /\ \A w \in {ws, cache, view} : w.obs \in Int /\ w.gen \in Int /\ w.gen <= ws.gen
                                        /\ w.obs <= w.gen
    BY <1>1 DEF RequestStep, ControllerInv, ControllerTypes, TypeOK, Objects
  <2>2. \A w \in {ws, cache, view} : w.obs <= ws'.gen /\ w.gen <= ws'.gen
    BY <2>1
  <2>3. {ws', cache', view'} \subseteq Objects
        /\ \A w \in {ws', cache', view'} : w.obs <= w.gen /\ w.obs <= ws'.gen
    BY <1>1, <2>1, <2>2 DEF ControllerInv, ControllerTypes, TypeOK
  <2>4. TypeOK'
    BY <1>1, <2>3 DEF RequestStep, ControllerInv, ControllerTypes, TypeOK
  <2> QED BY <1>1, <2>2, <2>4 DEF RequestStep, ControllerInv, ControllerTypes
<1>5. CopiesHold'
  <2>1. \A w \in {ws', cache', view'} : w.ip <=> IsCounted(w)
    BY <1>1, <1>3 DEF ControllerInv, CopiesHold
  <2> QED BY <1>1, <1>2, <2>1 DEF ControllerInv, CopiesHold, IsCounted, Unclaimed
<1>6. ContinuesRight'
  BY <1>1, <1>2 DEF ControllerInv, ContinuesRight
<1>7. CommitsRight'
  BY <1>1 DEF ControllerInv, CommitsRight
<1>8. ParkedHolds'
  <2>1. ws'.phase \in Parked => NoBuild(cache)
    BY <1>1, <1>2 DEF ControllerInv, CopiesHold, ParkedHolds, NoBuild, Parked
  <2>2. ws'.phase \in Parked /\ hist.lostDeletes = 0 => pod \in {"none", "dying"}
    BY <1>1, <1>2 DEF ControllerInv, CopiesHold, ParkedHolds, ParkedPodStops, Parked
  <2>3. hist'.lostDeletes = hist.lostDeletes
    BY DEF RequestStep
  <2> QED BY <1>1, <2>1, <2>2, <2>3 DEF ControllerInv, ParkedHolds, ParkedPodStops, Parked, NoBuild
<1>9. ResumesPaid'
  <2>1. /\ Credit \in Int /\ Credit' \in Int /\ hist.resumes \in Int /\ hist.activates \in Int
        /\ hist'.activates \in Int
        /\ hist.activates + Credit' <= hist'.activates + Credit
        /\ hist'.clearsFailed = hist.clearsFailed /\ hist'.resumes = hist.resumes
    BY DEF RequestStep, ControllerInv, ControllerTypes, Histories, Credit
  <2>2. hist.clearsFailed = 0 => hist.resumes + Credit <= hist.activates
    BY DEF ControllerInv, ResumesPaid
  <2>3. hist'.clearsFailed = 0 => hist'.resumes + Credit' <= hist'.activates
    BY <2>1, <2>2
  <2> QED BY <1>1, <2>3 DEF ControllerInv, ResumesPaid
<1>10. GaugeHolds'
  <2>1. Count(ws)' = Count(ws) /\ Count(view)' = Count(view)
    BY <1>1, <1>3 DEF Count, IsCounted
  <2> QED BY <1>1, <2>1 DEF RequestStep, ControllerInv, GaugeHolds
<1> QED BY <1>4, <1>5, <1>6, <1>7, <1>8, <1>9, <1>10 DEF ControllerInv

LEMMA InputFacts ==
    ASSUME ControllerInv
    PROVE  /\ ws \in Objects /\ ws.gen \in Nat /\ ws.gen <= inputs /\ inputs \in 0..MaxInputs
           /\ ws.gen <= ws.gen
           /\ hist \in Histories /\ hist.activates \in Nat
           /\ Credit \in {0, 1} /\ MaxInputs \in Nat /\ api \in {"idle", "check", "write"}
           /\ Input => /\ inputs' \in 0..MaxInputs /\ inputs <= inputs' /\ ws.gen <= inputs'
                       /\ ws.gen + 1 \in 0..MaxInputs /\ ws.gen + 1 <= inputs'
<1>1. /\ ws \in Objects /\ ws.gen \in Nat /\ ws.gen <= inputs /\ inputs \in 0..MaxInputs
      /\ hist \in Histories /\ hist.activates \in Nat /\ Credit \in {0, 1}
      /\ MaxInputs \in Nat /\ api \in {"idle", "check", "write"}
  BY ControllerAssumption
     DEF ControllerInv, ControllerTypes, TypeOK, Objects, Histories, Credit
<1>2. Input => /\ inputs' \in 0..MaxInputs /\ inputs <= inputs' /\ ws.gen <= inputs'
               /\ ws.gen + 1 \in 0..MaxInputs /\ ws.gen + 1 <= inputs'
  BY <1>1 DEF Input
<1> QED BY <1>1, <1>2

LEMMA RequestFacts ==
    ASSUME ControllerInv,
           \/ SuspendWorkspace \/ OperatorSuspend \/ RestartWorkspace \/ RefreshWorkspaceCompute
           \/ DeleteWorkspace \/ (ActivateWrite /\ ws.phase # "Gone")
    PROVE  RequestStep
<1>a. /\ ws \in Objects /\ ws.gen <= inputs /\ inputs \in 0..MaxInputs /\ ws.gen <= ws.gen
      /\ hist \in Histories /\ hist.activates \in Nat
      /\ Credit \in {0, 1} /\ api \in {"idle", "check", "write"}
      /\ Input => /\ inputs' \in 0..MaxInputs /\ ws.gen <= inputs'
                  /\ ws.gen + 1 \in 0..MaxInputs /\ ws.gen + 1 <= inputs'
  BY InputFacts
<1>1. CASE SuspendWorkspace \/ OperatorSuspend
  <2>1. /\ Input /\ ws' = [ws EXCEPT !.suspend = "true"] /\ cacheCur' = FALSE /\ cur' = FALSE
        /\ UNCHANGED <<apiUnchanged, api, hist>>
    BY <1>1 DEF SuspendWorkspace, OperatorSuspend, Written
  <2>2. /\ ws' \in Objects /\ ws'.ip = ws.ip /\ ws'.obs = ws.obs /\ ws'.final = ws.final
        /\ ws'.phase = ws.phase /\ ws'.gen = ws.gen /\ ws'.suspend = "true" /\ ws'.force = ws.force
    BY <1>a, <2>1 DEF Objects
  <2>3. Credit' = 0
    BY <2>2 DEF Credit
  <2>4. hist.activates + Credit' <= hist'.activates + Credit
    BY <1>a, <2>1, <2>3
  <2> QED BY <1>a, <2>1, <2>2, <2>4 DEF RequestStep
<1>2. CASE RestartWorkspace
  <2>1. /\ Input /\ ws' = [ws EXCEPT !.gen = @ + 1] /\ cacheCur' = FALSE /\ cur' = FALSE
        /\ UNCHANGED <<apiUnchanged, api, hist>>
    BY <1>2 DEF RestartWorkspace, Written
  <2>2. /\ ws' \in Objects /\ ws'.ip = ws.ip /\ ws'.obs = ws.obs /\ ws'.final = ws.final
        /\ ws'.phase = ws.phase /\ ws'.gen = ws.gen + 1 /\ ws'.suspend = ws.suspend
        /\ ws'.force = ws.force
    BY <1>a, <2>1 DEF Objects
  <2>3. Credit' = Credit
    BY <2>1, <2>2 DEF Credit, apiUnchanged
  <2>4. hist.activates + Credit' <= hist'.activates + Credit /\ ws.gen <= ws.gen + 1
    BY <1>a, <2>1, <2>3, InputFacts
  <2> QED BY <1>a, <2>1, <2>2, <2>4 DEF RequestStep
<1>3. CASE RefreshWorkspaceCompute
  <2>1. /\ Input /\ ws' = [ws EXCEPT !.gen = @ + 1, !.force = ws.gen + 1]
        /\ cacheCur' = FALSE /\ cur' = FALSE /\ UNCHANGED apiUnchanged
        /\ api' \in {"idle", "check"} /\ hist' = [hist EXCEPT !.refreshed = TRUE]
    BY <1>3 DEF RefreshWorkspaceCompute, Written
  <2>2. /\ ws' \in Objects /\ ws'.ip = ws.ip /\ ws'.obs = ws.obs /\ ws'.final = ws.final
        /\ ws'.phase = ws.phase /\ ws'.gen = ws.gen + 1 /\ ws'.suspend = ws.suspend
    BY <1>a, <2>1 DEF Objects
  <2>3. /\ hist' \in Histories /\ hist'.refreshed /\ hist'.lostDeletes = hist.lostDeletes
        /\ hist'.clearsFailed = hist.clearsFailed /\ hist'.resumes = hist.resumes
        /\ hist'.activates = hist.activates
    BY <1>a, <2>1 DEF Histories
  <2>4. Credit' = Credit
    BY <2>1, <2>2 DEF Credit, apiUnchanged
  <2>5. hist.activates + Credit' <= hist'.activates + Credit /\ ws.gen <= ws.gen + 1
    BY <1>a, <2>3, <2>4, InputFacts
  <2> QED BY <1>a, <2>1, <2>2, <2>3, <2>5 DEF RequestStep
<1>4. CASE DeleteWorkspace
  <2>1. /\ Input /\ cacheCur' = FALSE /\ cur' = FALSE /\ UNCHANGED <<apiUnchanged, api, hist>>
        /\ ws' = [ws EXCEPT !.deleting = TRUE, !.phase = IF ws.final THEN @ ELSE "Gone"]
    BY <1>4 DEF DeleteWorkspace, Written
  <2>2. /\ ws' \in Objects /\ ws'.ip = ws.ip /\ ws'.obs = ws.obs /\ ws'.final = ws.final
        /\ ws'.phase = ws.phase \/ (ws'.phase = "Gone" /\ ~ws.final)
        /\ ws'.gen = ws.gen /\ ws'.suspend = ws.suspend /\ ws'.force = ws.force
    BY <1>a, <2>1 DEF Objects, Phases
  <2>3. Credit' = Credit
    BY <2>1, <2>2 DEF Credit, apiUnchanged
  <2>4. hist.activates + Credit' <= hist'.activates + Credit
    BY <1>a, <2>1, <2>3
  <2> QED BY <1>a, <2>1, <2>2, <2>4 DEF RequestStep
<1>5. CASE ActivateWrite /\ ws.phase # "Gone"
  <2>1. /\ inputs' = inputs /\ cacheCur' = FALSE /\ cur' = FALSE /\ UNCHANGED apiUnchanged
        /\ ws' = [ws EXCEPT !.suspend = "false"] /\ api' = "idle"
        /\ hist' = [hist EXCEPT !.activates = @ + 1]
    BY <1>5 DEF ActivateWrite, Written
  <2>2. /\ ws' \in Objects /\ ws'.ip = ws.ip /\ ws'.obs = ws.obs /\ ws'.final = ws.final
        /\ ws'.phase = ws.phase /\ ws'.gen = ws.gen /\ ws'.force = ws.force
    BY <1>a, <2>1 DEF Objects
  <2>3. /\ hist' \in Histories /\ hist'.refreshed = hist.refreshed
        /\ hist'.lostDeletes = hist.lostDeletes /\ hist'.clearsFailed = hist.clearsFailed
        /\ hist'.resumes = hist.resumes /\ hist'.activates = hist.activates + 1
    BY <1>a, <2>1 DEF Histories
  <2>4. Credit' \in {0, 1}
    BY DEF Credit
  <2>5. hist.activates + Credit' <= hist'.activates + Credit
    BY <1>a, <2>3, <2>4
  <2> QED BY <1>a, <2>1, <2>2, <2>3, <2>5 DEF RequestStep
<1> QED BY <1>1, <1>2, <1>3, <1>4, <1>5

(* The cluster and the calls that only read: the object and the copies stay. *)
WorldStep ==
    /\ UNCHANGED <<ws, cache, cacheCur, pvc, pc, view, cur, next, running, hist>>
    /\ pod' \in PodStates /\ podCache' \in PodStates
    /\ pod' = pod \/ (pod # "none" /\ (pod = "dying" => pod' = "none"))
    /\ api' \in {"idle", "check", "write"}
    /\ inputs' \in 0..MaxInputs /\ inputs <= inputs'

LEMMA WorldKeeps ==
    ASSUME ControllerInv, WorldStep
    PROVE  ControllerInv'
<1>1. /\ UNCHANGED <<ws, cache, cacheCur, pvc, pc, view, cur, next, running, hist>>
      /\ pod' = pod \/ (pod # "none" /\ (pod = "dying" => pod' = "none"))
  BY DEF WorldStep
<1>2. ControllerTypes'
  <2>1. TypeOK'
    BY <1>1 DEF WorldStep, ControllerInv, ControllerTypes, TypeOK
  <2>2. ws.gen <= inputs'
    BY InputFacts DEF WorldStep
  <2> QED BY <1>1, <2>1, <2>2 DEF ControllerInv, ControllerTypes
<1>3. CopiesHold' /\ ContinuesRight' /\ CommitsRight'
  BY <1>1 DEF ControllerInv, CopiesHold, ContinuesRight, CommitsRight, IsCounted, NoBuild
<1>4. ParkedHolds'
  BY <1>1 DEF ControllerInv, ParkedHolds, ParkedPodStops, NoBuild
<1>5. ResumesPaid' /\ GaugeHolds'
  BY <1>1 DEF ControllerInv, ResumesPaid, GaugeHolds, Credit, Count, IsCounted
<1> QED BY <1>2, <1>3, <1>4, <1>5 DEF ControllerInv

LEMMA WorldFacts ==
    ASSUME ControllerInv,
           \/ ActivateWorkspace \/ ActivateCheck \/ (ActivateWrite /\ ws.phase = "Gone")
           \/ PodCacheSync \/ PodStarts \/ CrashLoopEnds \/ PodFault \/ PodReaped
           \/ UNCHANGED vars
    PROVE  WorldStep
<1>a. /\ pod \in PodStates /\ podCache \in PodStates /\ inputs \in 0..MaxInputs /\ inputs <= inputs
      /\ api \in {"idle", "check", "write"} /\ (Input => inputs' \in 0..MaxInputs /\ inputs <= inputs')
  BY InputFacts DEF ControllerInv, ControllerTypes, TypeOK
<1>1. CASE ActivateWorkspace
  BY <1>a, <1>1 DEF ActivateWorkspace, apiUnchanged, WorldStep
<1>2. CASE ActivateCheck
  BY <1>a, <1>2 DEF ActivateCheck, apiUnchanged, WorldStep
<1>3. CASE ActivateWrite /\ ws.phase = "Gone"
  BY <1>a, <1>3 DEF ActivateWrite, apiUnchanged, WorldStep
<1>4. CASE PodCacheSync
  BY <1>a, <1>4 DEF PodCacheSync, informerUnchanged, WorldStep
<1>5. CASE PodStarts \/ CrashLoopEnds \/ PodReaped
  BY <1>a, <1>5 DEF PodStarts, CrashLoopEnds, PodReaped, kubeletUnchanged, WorldStep, PodStates
<1>6. CASE PodFault
  BY <1>a, <1>6 DEF PodFault, kubeletUnchanged, WorldStep, PodStates
<1>7. CASE UNCHANGED vars
  BY <1>a, <1>7 DEF vars, WorldStep
<1> QED BY <1>1, <1>2, <1>3, <1>4, <1>5, <1>6, <1>7

LEMMA CacheSyncKeeps ==
    ASSUME ControllerInv, CacheSync
    PROVE  ControllerInv'
<1>1. /\ cache' = ws /\ cacheCur' = TRUE
      /\ UNCHANGED <<podCache, ws, pod, pvc, pc, view, cur, next, running, api, inputs, hist>>
  BY DEF CacheSync, informerUnchanged
<1>2. ControllerTypes'
  <2>1. TypeOK'
    BY <1>1 DEF ControllerInv, ControllerTypes, TypeOK
  <2>2. ws.gen <= ws.gen
    BY InputFacts
  <2> QED BY <1>1, <2>1, <2>2 DEF ControllerInv, ControllerTypes
<1>3. CopiesHold' /\ ContinuesRight'
  BY <1>1 DEF ControllerInv, CopiesHold, ContinuesRight, IsCounted
<1>4. CommitsRight' /\ ParkedHolds'
  BY <1>1 DEF ControllerInv, CommitsRight, ParkedHolds, ParkedPodStops, Parked, NoBuild
<1>5. ResumesPaid' /\ GaugeHolds'
  BY <1>1 DEF ControllerInv, ResumesPaid, GaugeHolds, Credit, Count, IsCounted
<1> QED BY <1>2, <1>3, <1>4, <1>5 DEF ControllerInv

-----------------------------------------------------------------------------
(* The theorems. *)

LEMMA ControllerInit == Init => ControllerInv
<1> SUFFICES ASSUME Init PROVE ControllerInv
  OBVIOUS
<1>1. /\ ws = NewWorkspace /\ cache = NewWorkspace /\ view = NewWorkspace
      /\ pod = "none" /\ podCache = "none" /\ pc = "idle" /\ next = NoNext /\ running = 0
      /\ cacheCur = TRUE /\ cur = FALSE /\ pvc = FALSE /\ api = "idle" /\ inputs = 0
      /\ hist = [refreshed |-> FALSE, lostDeletes |-> 0, clearsFailed |-> 0,
                 activates |-> 0, resumes |-> 0]
  BY DEF Init
<1>2. /\ hist \in Histories /\ hist.resumes = 0 /\ hist.activates = 0
  BY <1>1 DEF Histories
<1>3. ControllerTypes
  <2>1. 0 <= 0 /\ 0 \in 0..MaxInputs /\ 0 \in Int
    BY ControllerAssumption
  <2>2. TypeOK
    BY <1>1, <2>1, NewFacts DEF TypeOK, PodStates
  <2> QED BY <1>1, <1>2, <2>1, <2>2, NewFacts, NextFacts DEF ControllerTypes
<1>4. CopiesHold /\ ContinuesRight /\ CommitsRight
  BY <1>1, NewFacts DEF CopiesHold, ContinuesRight, CommitsRight, Unclaimed
<1>5. ParkedHolds
  BY <1>1, NewFacts DEF ParkedHolds, ParkedPodStops, Parked
<1>6. ResumesPaid
  <2>1. Credit = 0
    BY <1>1 DEF Credit, NewWorkspace
  <2> QED BY <1>1, <1>2, <2>1 DEF ResumesPaid
<1>7. GaugeHolds
  BY <1>1, NewFacts DEF GaugeHolds, Count
<1> QED BY <1>3, <1>4, <1>5, <1>6, <1>7 DEF ControllerInv

LEMMA ControllerNext == ControllerInv /\ [Next]_vars => ControllerInv'
<1> SUFFICES ASSUME ControllerInv, [Next]_vars PROVE ControllerInv'
  OBVIOUS
<1>1. CASE Handler
  BY <1>1, HandlerFacts, HandlerKeeps
<1>2. CASE Requeue \/ ForceClearFails \/ Conflict \/ ClearFails \/ RemoveFinalizer
             \/ clearSuspendRequest \/ Commit
  BY <1>2, FinishFacts, FinishKeeps
<1>3. CASE AddFinalizer
  BY <1>3, AddFinalizerKeeps
<1>4. CASE SeeForceMarker
  BY <1>4, SeeForceMarkerKeeps
<1>5. CASE clearForceRecycleAnnotation
  BY <1>5, ClearForceKeeps
<1>6. CASE Requests
  <2>1. CASE \/ SuspendWorkspace \/ OperatorSuspend \/ RestartWorkspace
             \/ RefreshWorkspaceCompute \/ DeleteWorkspace \/ (ActivateWrite /\ ws.phase # "Gone")
    BY <2>1, RequestFacts, RequestKeeps
  <2>2. CASE ActivateWorkspace \/ ActivateCheck \/ (ActivateWrite /\ ws.phase = "Gone")
    BY <2>2, WorldFacts, WorldKeeps
  <2> QED BY <1>6, <2>1, <2>2 DEF Requests
<1>7. CASE CacheSync
  BY <1>7, CacheSyncKeeps
<1>8. CASE PodCacheSync \/ PodStarts \/ CrashLoopEnds \/ PodFault \/ PodReaped \/ UNCHANGED vars
  BY <1>8, WorldFacts, WorldKeeps
<1> QED BY <1>1, <1>2, <1>3, <1>4, <1>5, <1>6, <1>7, <1>8
           DEF Next, Reconcile, Environment, Handler

LEMMA ControllerHolds == Spec => []ControllerInv
BY ControllerInit, ControllerNext, PTL DEF Spec

(***************************************************************************)
(* Types, and a restart generation is never observed before it was         *)
(* requested, in the object and in every copy of it, however old.          *)
(***************************************************************************)
THEOREM ControllerTypesHold == Spec => []TypeOK
<1>1. ControllerInv => TypeOK
  BY DEF ControllerInv, ControllerTypes
<1> QED BY <1>1, ControllerHolds, PTL

(***************************************************************************)
(* A suspended or terminated workspace has no pod that nobody is stopping: *)
(* no reconcile on an older copy brings one up behind the suspension,      *)
(* unless deletePodByName dropped the error of a failed delete.            *)
(***************************************************************************)
THEOREM ParkedStaysStopped == Spec => []ParkedPodStops
<1>1. ControllerInv => ParkedPodStops
  BY DEF ControllerInv, ParkedHolds
<1> QED BY <1>1, ControllerHolds, PTL

(***************************************************************************)
(* handleSuspended resumes a workspace at most once for each accepted      *)
(* request to activate it, unless clearSuspendRequest failed.              *)
(***************************************************************************)
THEOREM ActivationsResumeOnce == Spec => []ResumeOnce
<1>1. ControllerInv => ResumeOnce
  <2> SUFFICES ASSUME ControllerInv, hist.clearsFailed = 0
               PROVE  hist.resumes <= hist.activates
    BY DEF ResumeOnce
  <2>1. /\ hist.resumes + Credit <= hist.activates /\ hist.resumes \in Nat
        /\ hist.activates \in Nat /\ Credit \in {0, 1}
    BY InputFacts DEF ControllerInv, ResumesPaid, ControllerTypes, Histories
  <2> QED BY <2>1
<1> QED BY <1>1, ControllerHolds, PTL

(***************************************************************************)
(* Between reconciles WorkspacesRunning counts the workspace exactly while *)
(* it is Active or on its way from Active to Suspended, whatever update    *)
(* was refused after the gauge had moved, unless a refresh was requested.  *)
(***************************************************************************)
THEOREM RunningGaugeIsExact == Spec => []RunningGaugeExact
<1>1. ControllerInv => RunningGaugeExact
  BY DEF ControllerInv, GaugeHolds, RunningGaugeExact, CountedPhase, Count, IsCounted
<1> QED BY <1>1, ControllerHolds, PTL

=============================================================================
