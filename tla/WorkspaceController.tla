------------------------- MODULE WorkspaceController -------------------------
(***************************************************************************)
(* The workspace controller: the reconciler that drives one Workspace      *)
(* object through its phases, with the API service and operators that      *)
(* write requests into the object's spec and the kubelet that runs its pod.*)
(*                                                                         *)
(* Everything the reconciler reads comes from informer caches, one for the *)
(* object and one for the pod, which lag behind the API server.  What it   *)
(* writes is guarded by the resource version: a status update of an object *)
(* that changed since the cached copy was written is refused.  The pod is  *)
(* deleted or built, and the gauges move, before that update.              *)
(*                                                                         *)
(* A version is not numbered here.  `cacheCur' and `cur' say whether the   *)
(* cached copy and the reconciler's own copy carry the version the API     *)
(* server has.  A reconcile that changes nothing is a stuttering step, so  *)
(* a handler is an action of its own, enabled by what the caches show; the *)
(* passing of a backoff, a drain or a grace period is the time at which    *)
(* the action is taken.                                                    *)
(***************************************************************************)
EXTENDS Integers

CONSTANTS
    MaxInputs,  \* bound: requests, policy decisions and failures between them
    MaxLost     \* bound: failed pod deletions, and failed acknowledgements

ASSUME ControllerAssumption == MaxInputs \in Nat /\ MaxLost \in Nat

VARIABLES
    ws,          \* the Workspace in the API server
    cache,       \* the informer's copy of it
    cacheCur,    \* the informer's copy is the latest version
    pod,         \* the pod in the API server
    podCache,    \* the informer's copy of it
    pvc,         \* the volume claim exists
    pc,          \* where the reconcile is
    view,        \* the reconcile's own copy of the object
    cur,         \* that copy carries the latest version
    next,        \* what the reconcile does with the outcome of its update
    running,     \* metrics.WorkspacesRunning
    api,         \* an ActivateWorkspace call in progress
    inputs,      \* inputs so far
    hist         \* history: what the properties speak of

vars == <<ws, cache, cacheCur, pod, podCache, pvc, pc, view, cur, next,
          running, api, inputs, hist>>

Phases == {"Pending", "Creating", "Active", "Suspending", "Suspended", "Resuming",
           "Terminating", "Terminated", "Gone"}
PodStates == {"none", "starting", "ready", "failed", "crash", "dying"}

\* status: phase, obs, failing (ConsecutiveFailures > 0), stable (LastStableAt set),
\* ip (PodIP set); spec and metadata: the rest; force is 0 without the annotation
NewWorkspace ==
    [phase |-> "Pending", obs |-> 0, failing |-> FALSE, stable |-> FALSE, ip |-> FALSE,
     suspend |-> "nil", gen |-> 0, force |-> 0, deleting |-> FALSE, final |-> FALSE]

NoNext == [then |-> "idle", undoRunning |-> 0, doneRunning |-> 0]

Init ==
    /\ ws = NewWorkspace /\ cache = NewWorkspace /\ cacheCur = TRUE
    /\ pod = "none" /\ podCache = "none" /\ pvc = FALSE
    /\ pc = "idle" /\ view = NewWorkspace /\ cur = FALSE /\ next = NoNext
    /\ running = 0
    /\ api = "idle" /\ inputs = 0
    /\ hist = [refreshed |-> FALSE, lostDeletes |-> 0, clearsFailed |-> 0,
               activates |-> 0, resumes |-> 0]

-----------------------------------------------------------------------------
(* The object, as the handlers see it and as the API server takes writes.  *)

\* a handler starts from the cache, or goes on after a first write of its own
Object == IF pc = "cont" THEN view ELSE cache

Current == IF pc = "cont" THEN cur ELSE cacheCur

Handling(phase) == pc \in {"idle", "cont"} /\ Object.phase = phase /\ ~Object.deleting

\* Somebody else writes: every copy held elsewhere is out of date
Written(w) == ws' = w /\ cacheCur' = FALSE /\ cur' = FALSE

\* what a handler leaves to the update that follows it, and to others
others == <<ws, cache, cacheCur, podCache, api>>

\* the reconcile is over and its copy is gone
Return == pc' = "idle" /\ view' = NewWorkspace /\ cur' = FALSE /\ next' = NoNext

Input == inputs < MaxInputs /\ inputs' = inputs + 1

\* The copy changed to `w', to be written by the status update that follows
Update(w, then) ==
    /\ view' = w /\ cur' = Current /\ pc' = "commit" /\ next' = then

\* deletePodByName: the error of the delete is dropped
deletePodByName ==
    \/ /\ pod' = IF pod = "none" THEN "none" ELSE "dying"
       /\ UNCHANGED hist
    \/ /\ pod \notin {"none", "dying"} /\ hist.lostDeletes < MaxLost
       /\ hist' = [hist EXCEPT !.lostDeletes = @ + 1] /\ UNCHANGED pod

clearRecoveryState(w) == [w EXCEPT !.failing = FALSE, !.stable = FALSE]

ToCreating(w) == [w EXCEPT !.phase = "Creating", !.ip = FALSE]

\* enterRecovery: the failure is counted, and the workspace is built again
RecoveryStatus(w) == [ToCreating(w) EXCEPT !.failing = TRUE]

enterRecovery(wasRunning) ==
    /\ running' = IF wasRunning THEN running - 1 ELSE running
    /\ Update(RecoveryStatus(Object),
              [NoNext EXCEPT !.undoRunning = IF wasRunning THEN 1 ELSE 0])

\* Status().Update: refused unless the copy carries the latest version
Commit ==
    /\ pc = "commit" /\ cur
    /\ ws' = [ws EXCEPT !.phase = view.phase, !.obs = view.obs, !.failing = view.failing,
                        !.stable = view.stable, !.ip = view.ip]
    /\ cacheCur' = FALSE
    /\ running' = running + next.doneRunning
    /\ hist' = IF view.phase = "Resuming" THEN [hist EXCEPT !.resumes = @ + 1] ELSE hist
    /\ IF next.then = "idle"
       THEN Return
       ELSE pc' = next.then /\ next' = NoNext /\ UNCHANGED <<view, cur>>
    /\ UNCHANGED <<cache, pod, podCache, pvc, api, inputs>>

Conflict ==
    /\ pc = "commit" /\ ~cur
    /\ running' = running + next.undoRunning
    /\ Return
    /\ UNCHANGED <<others, pod, pvc, inputs, hist>>

KeepSuspendRequest ==
    /\ pc = "clear"
    /\ Return
    /\ UNCHANGED <<others, pod, pvc, running, inputs, hist>>

\* clearSuspendRequest: a fresh copy, retried until the cache has caught up;
\* whatever the field holds by then is cleared
clearSuspendRequest ==
    /\ pc = "clear"
    /\ ws' = [ws EXCEPT !.suspend = "nil"] /\ cacheCur' = FALSE
    /\ Return
    /\ UNCHANGED <<cache, pod, podCache, pvc, running, api, inputs, hist>>

\* ... or the retries run out, and no later reconcile comes back to it
ClearFails ==
    /\ pc = "clear" /\ hist.clearsFailed < MaxLost
    /\ hist' = [hist EXCEPT !.clearsFailed = @ + 1]
    /\ Return
    /\ UNCHANGED <<others, pod, pvc, running, inputs>>

-----------------------------------------------------------------------------
(* Pending.                                                                *)

AddFinalizer ==
    /\ pc = "idle" /\ Handling("Pending") /\ ~cache.final
    /\ cacheCur
    /\ ws' = [ws EXCEPT !.final = TRUE]
    /\ cacheCur' = FALSE /\ cur' = TRUE
    /\ view' = [cache EXCEPT !.final = TRUE] /\ pc' = "cont"
    /\ UNCHANGED <<cache, pod, podCache, pvc, next, running, api, inputs, hist>>

EnsurePVC ==
    /\ Handling("Pending") /\ Object.final /\ Object.suspend # "true" /\ ~pvc
    /\ pvc' = TRUE
    /\ Update(Object, NoNext)
    /\ UNCHANGED <<others, pod, running, inputs, hist>>

\* bound, or waiting for the first consumer
PendingToCreating ==
    /\ Handling("Pending") /\ Object.final /\ Object.suspend # "true" /\ pvc
    /\ Update([Object EXCEPT !.phase = "Creating"], NoNext)
    /\ UNCHANGED <<others, pod, pvc, running, inputs, hist>>

PendingTimedOut ==
    /\ Handling("Pending") /\ Object.final /\ Object.suspend # "true" /\ pvc
    /\ Input
    /\ enterRecovery(FALSE)
    /\ UNCHANGED <<others, pod, pvc, hist>>

\* to Suspended without passing through Suspending
ParkStatus ==
    /\ Update([clearRecoveryState(Object) EXCEPT !.phase = "Suspended", !.ip = FALSE],
              [NoNext EXCEPT !.then = "clear"])
    /\ UNCHANGED <<others, pvc, running, inputs>>

ParkAndKeepPod == Object.suspend = "true" /\ ParkStatus /\ UNCHANGED <<pod, hist>>

Park == Object.suspend = "true" /\ deletePodByName /\ ParkStatus

SuspendFromPendingOnly == Handling("Pending") /\ Object.final /\ Park

\* honours Spec.Suspend in Pending and Creating
suspendFromPreActive ==
    /\ \/ Handling("Pending") /\ Object.final
       \/ Handling("Creating") /\ pc = "idle"
    /\ Park

-----------------------------------------------------------------------------
(* Creating.                                                               *)

Bumped(w) == w.gen > w.obs

\* a restart generation seen in Creating clears the recovery state
ObserveBump(w) ==
    IF Bumped(w) THEN [clearRecoveryState(w) EXCEPT !.obs = w.gen] ELSE w

\* past the force marker, which is cleared where the generation is seen
InCreating ==
    /\ Handling("Creating") /\ Object.suspend # "true"
    /\ Bumped(Object) => Object.force = 0

BuildPod ==
    /\ InCreating /\ podCache = "none" /\ pod = "none"
    /\ pod' = "starting"
    /\ Update(ObserveBump(Object), NoNext)
    /\ UNCHANGED <<others, pvc, running, inputs, hist>>

BuildFails ==
    /\ InCreating /\ podCache = "none" /\ Input
    /\ Update(RecoveryStatus(ObserveBump(Object)), NoNext)
    /\ UNCHANGED <<others, pod, pvc, running, hist>>

\* AlreadyExists, or a pod on its way out: what was observed is dropped
Requeue ==
    /\ pc = "cont" /\ InCreating
    /\ podCache = "dying" \/ (podCache = "none" /\ pod # "none")
    /\ Return
    /\ UNCHANGED <<others, pod, pvc, running, inputs, hist>>

RebuildOnBump ==
    /\ InCreating /\ Bumped(Object) /\ podCache \notin {"none", "dying"}
    /\ deletePodByName
    /\ Update(ObserveBump(Object), NoNext)
    /\ UNCHANGED <<others, pvc, running, inputs>>

\* the update's failure gives back the running gauge only
CreatingToActive ==
    /\ InCreating /\ ~Bumped(Object) /\ podCache = "ready"
    /\ running' = running + 1
    /\ Update([Object EXCEPT !.phase = "Active", !.ip = TRUE],
              [NoNext EXCEPT !.undoRunning = -1])
    /\ UNCHANGED <<others, pod, pvc, inputs, hist>>

CreatingPodKept ==
    /\ InCreating /\ ~Bumped(Object) /\ podCache = "failed"
    /\ enterRecovery(FALSE)
    /\ UNCHANGED <<others, pod, pvc, inputs, hist>>

CreatingPodFailed ==
    /\ InCreating /\ ~Bumped(Object) /\ podCache = "failed"
    /\ deletePodByName
    /\ enterRecovery(FALSE)
    /\ UNCHANGED <<others, pvc, inputs>>

\* unschedulable, never started, or an init container in a crash loop
CreatingPodStuck ==
    /\ InCreating /\ ~Bumped(Object) /\ podCache = "starting"
    /\ Input
    /\ deletePodByName
    /\ enterRecovery(FALSE)
    /\ UNCHANGED <<others, pvc>>

-----------------------------------------------------------------------------
(* The force marker of a refresh, at the two sites that observe a bump.    *)

ForceMarked(w) ==
    \/ w.phase = "Active" /\ w.force = w.gen
    \/ w.phase = "Creating" /\ w.force # 0

SeeForceMarker ==
    /\ pc = "idle" /\ ~cache.deleting /\ cache.suspend # "true"
    /\ Bumped(cache) /\ ForceMarked(cache)
    /\ view' = [cache EXCEPT !.force = 0] /\ pc' = "force"
    /\ UNCHANGED <<others, pod, pvc, cur, next, running, inputs, hist>>

\* clearForceRecycleAnnotation: the copy takes the version of what it read
\* or wrote, and keeps its own contents
clearForceRecycleAnnotation ==
    /\ pc = "force"
    /\ \/ /\ cache.force # 0 /\ cacheCur
          /\ ws' = [ws EXCEPT !.force = 0] /\ cacheCur' = FALSE /\ cur' = TRUE
       \/ /\ cache.force = 0
          /\ cur' = cacheCur /\ UNCHANGED <<ws, cacheCur>>
    /\ pc' = "cont"
    /\ UNCHANGED <<cache, pod, podCache, pvc, view, next, running, api, inputs, hist>>

\* the retries ran out before the cache caught up
ForceClearFails ==
    /\ pc = "force" /\ cache.force # 0 /\ ~cacheCur
    /\ Return
    /\ UNCHANGED <<others, pod, pvc, running, inputs, hist>>

-----------------------------------------------------------------------------
(* Active.                                                                 *)

ToSuspending(w) == [w EXCEPT !.phase = "Suspending"]

ActiveSuspend ==
    /\ pc = "idle" /\ Handling("Active") /\ cache.suspend = "true"
    /\ Update(ToSuspending(cache), [NoNext EXCEPT !.then = "clear"])
    /\ UNCHANGED <<others, pod, pvc, running, inputs, hist>>

\* the org is suspended; or, on a running pod, the timeout or idleness
PolicySuspend ==
    /\ pc = "idle" /\ Handling("Active") /\ cache.suspend # "true" /\ Input
    /\ Update(ToSuspending(cache), NoNext)
    /\ UNCHANGED <<others, pod, pvc, running, hist>>

InActive == Handling("Active") /\ Object.suspend # "true"

LeaveActiveForGood(w) ==
    /\ running' = running - 1
    /\ Update(w, NoNext)

\* the running gauge falls with the pod and rises again if the update fails
LeaveActive(w) ==
    /\ running' = running - 1
    /\ Update(w, [NoNext EXCEPT !.undoRunning = 1])

ActiveRestart ==
    /\ InActive /\ Bumped(Object) /\ Object.force # Object.gen
    /\ deletePodByName
    /\ LeaveActive([ToCreating(Object) EXCEPT !.obs = Object.gen])
    /\ UNCHANGED <<others, pvc, inputs>>

\* the password secret is missing, the architecture changed, a new agentd rolls
ActiveRecycle ==
    /\ InActive /\ ~Bumped(Object) /\ Input
    /\ deletePodByName
    /\ LeaveActive(ToCreating(Object))
    /\ UNCHANGED <<others, pvc>>

\* no pod, or one that is not running or crash-loops; it is left in place
ActivePodLost ==
    /\ InActive /\ ~Bumped(Object) /\ podCache \in {"none", "starting", "failed", "crash"}
    /\ enterRecovery(TRUE)
    /\ UNCHANGED <<others, pod, pvc, inputs, hist>>

ActivePodDying ==
    /\ InActive /\ ~Bumped(Object) /\ podCache = "dying"
    /\ LeaveActive(ToCreating(Object))
    /\ UNCHANGED <<others, pod, pvc, inputs, hist>>

\* maybeResetConsecutiveFailures: starts the clock, or the window has passed
maybeReset(w) ==
    IF ~w.failing THEN w
    ELSE IF w.stable THEN clearRecoveryState(w) ELSE [w EXCEPT !.stable = TRUE]

ActiveStable ==
    /\ InActive /\ ~Bumped(Object) /\ podCache = "ready" /\ Object.failing
    /\ Update(maybeReset(Object), NoNext)
    /\ UNCHANGED <<others, pod, pvc, running, inputs, hist>>

\* checkAgentHealth: the threshold of failed checks is reached
restartAgentPod ==
    /\ InActive /\ ~Bumped(Object) /\ podCache = "ready" /\ Input
    /\ deletePodByName
    /\ LeaveActive(ToCreating(maybeReset(Object)))
    /\ UNCHANGED <<others, pvc>>

-----------------------------------------------------------------------------
(* Suspending, Suspended, Resuming, Terminating.                           *)

handleSuspending ==
    /\ Handling("Suspending")
    /\ deletePodByName
    /\ running' = running - 1
    /\ Update([clearRecoveryState(Object) EXCEPT !.phase = "Suspended", !.ip = FALSE],
              [NoNext EXCEPT !.undoRunning = 1])
    /\ UNCHANGED <<others, pvc, inputs>>

ResumeSuspended ==
    /\ Handling("Suspended") /\ Object.suspend = "false"
    /\ Update([Object EXCEPT !.phase = "Resuming"], [NoNext EXCEPT !.then = "clear"])
    /\ UNCHANGED <<others, pod, pvc, running, inputs, hist>>

TTLExpires ==
    /\ Handling("Suspended") /\ Object.suspend # "false" /\ Input
    /\ Update([Object EXCEPT !.phase = "Terminating"], NoNext)
    /\ UNCHANGED <<others, pod, pvc, running, hist>>

handleResuming ==
    /\ Handling("Resuming")
    /\ Update([Object EXCEPT !.phase = "Creating"], NoNext)
    /\ UNCHANGED <<others, pod, pvc, running, inputs, hist>>

\* also handleDeletion; PodIP stands for "counted as running"
handleTerminating ==
    /\ pc = "idle" /\ cache.phase # "Gone"
    /\ \/ cache.phase = "Terminating" /\ ~cache.deleting
       \/ cache.deleting /\ cache.final
    /\ deletePodByName
    /\ pvc' = FALSE
    /\ Update([cache EXCEPT !.phase = "Terminated", !.ip = FALSE],
              [NoNext EXCEPT !.then = "finalizer", !.doneRunning = IF cache.ip THEN -1 ELSE 0])
    /\ UNCHANGED <<others, running, inputs>>

\* the update that drops the finalizer, refused if the object changed again
RemoveFinalizer ==
    /\ pc = "finalizer" /\ Return
    /\ IF cur
       THEN /\ ws' = [ws EXCEPT !.final = FALSE, !.phase = IF ws.deleting THEN "Gone" ELSE @]
            /\ cacheCur' = FALSE
       ELSE UNCHANGED <<ws, cacheCur>>
    /\ UNCHANGED <<cache, pod, podCache, pvc, running, api, inputs, hist>>

-----------------------------------------------------------------------------
(* The API service and operators.  A Get followed by an Update of what it  *)
(* returned is one step: the Update is refused if anything came between.   *)

apiUnchanged == <<cache, pod, podCache, pvc, pc, view, next, running>>

SuspendWorkspace ==
    /\ Input /\ ws.phase = "Active"
    /\ Written([ws EXCEPT !.suspend = "true"])
    /\ UNCHANGED <<apiUnchanged, api, hist>>

\* an operator's patch, for a workspace stuck before Active
OperatorSuspend ==
    /\ Input /\ ws.phase \in {"Pending", "Creating"}
    /\ Written([ws EXCEPT !.suspend = "true"])
    /\ UNCHANGED <<apiUnchanged, api, hist>>

RestartWorkspace ==
    /\ Input /\ ws.phase \notin {"Terminating", "Terminated", "Gone"}
    /\ Written([ws EXCEPT !.gen = @ + 1])
    /\ UNCHANGED <<apiUnchanged, api, hist>>

\* a suspended workspace is then resumed by the same call
RefreshWorkspaceCompute ==
    /\ Input /\ ws.phase \notin {"Terminating", "Terminated", "Gone"}
    /\ api = "idle"
    /\ Written([ws EXCEPT !.gen = @ + 1, !.force = ws.gen + 1])
    /\ api' = IF ws.phase = "Suspended" THEN "check" ELSE "idle"
    /\ hist' = [hist EXCEPT !.refreshed = TRUE]
    /\ UNCHANGED apiUnchanged

ActivateWorkspace ==
    /\ Input /\ api = "idle" /\ api' = "check"
    /\ UNCHANGED <<ws, cacheCur, cur, hist, apiUnchanged>>

\* the phase is checked on one read ...
ActivateCheck ==
    /\ api = "check"
    /\ api' = IF ws.phase = "Suspended" THEN "write" ELSE "idle"
    /\ UNCHANGED <<ws, cacheCur, cur, hist, inputs, apiUnchanged>>

\* ... and the request is written on another, retried on conflict
ActivateWrite ==
    /\ api = "write" /\ api' = "idle"
    /\ IF ws.phase = "Gone"
       THEN UNCHANGED <<ws, cacheCur, cur, hist>>
       ELSE /\ Written([ws EXCEPT !.suspend = "false"])
            /\ hist' = [hist EXCEPT !.activates = @ + 1]
    /\ UNCHANGED <<inputs, apiUnchanged>>

DeleteWorkspace ==
    /\ Input /\ ws.phase # "Gone" /\ ~ws.deleting
    /\ Written([ws EXCEPT !.deleting = TRUE, !.phase = IF ws.final THEN @ ELSE "Gone"])
    /\ UNCHANGED <<apiUnchanged, api, hist>>

-----------------------------------------------------------------------------
(* The caches and the kubelet.                                             *)

informerUnchanged == <<ws, pod, pvc, pc, view, cur, next, running, api, inputs, hist>>

CacheSync ==
    /\ ~cacheCur /\ cache' = ws /\ cacheCur' = TRUE
    /\ UNCHANGED <<podCache, informerUnchanged>>

PodCacheSync ==
    /\ podCache # pod /\ podCache' = pod
    /\ UNCHANGED <<cache, cacheCur, informerUnchanged>>

kubeletUnchanged == <<ws, cache, cacheCur, podCache, pvc, pc, view, cur, next, running,
                      api, hist>>

PodStarts ==
    /\ pod = "starting" /\ pod' = "ready" /\ UNCHANGED <<kubeletUnchanged, inputs>>

\* a restarted container stays up; nothing says that one ever does
CrashLoopEnds ==
    /\ pod = "crash" /\ pod' = "ready" /\ UNCHANGED <<kubeletUnchanged, inputs>>

\* the pod fails, crash-loops, is evicted, or vanishes with its node
PodFault ==
    /\ pod = "ready" /\ Input
    /\ pod' \in {"failed", "crash", "dying", "none"}
    /\ UNCHANGED kubeletUnchanged

PodReaped ==
    /\ pod = "dying" /\ pod' = "none" /\ UNCHANGED <<kubeletUnchanged, inputs>>

Reconcile ==
    \/ AddFinalizer \/ EnsurePVC \/ PendingToCreating \/ PendingTimedOut
    \/ suspendFromPreActive
    \/ BuildPod \/ BuildFails \/ Requeue \/ RebuildOnBump
    \/ CreatingToActive \/ CreatingPodFailed \/ CreatingPodStuck
    \/ SeeForceMarker \/ clearForceRecycleAnnotation \/ ForceClearFails
    \/ ActiveSuspend \/ PolicySuspend \/ ActiveRestart \/ ActiveRecycle
    \/ ActivePodLost \/ ActivePodDying \/ ActiveStable \/ restartAgentPod
    \/ handleSuspending \/ ResumeSuspended \/ TTLExpires \/ handleResuming
    \/ handleTerminating \/ RemoveFinalizer
    \/ Commit \/ Conflict \/ clearSuspendRequest \/ ClearFails

Requests ==
    \/ SuspendWorkspace \/ OperatorSuspend \/ RestartWorkspace \/ RefreshWorkspaceCompute
    \/ ActivateWorkspace \/ ActivateCheck \/ ActivateWrite \/ DeleteWorkspace

Environment == CacheSync \/ PodCacheSync \/ PodStarts \/ CrashLoopEnds \/ PodFault \/ PodReaped

Next == Reconcile \/ Requests \/ Environment

Spec == Init /\ [][Next]_vars

\* The reconciles that are due whatever policies and faults do: the work queue
\* retries a key until its handler has nothing left to do.  ActiveRestart is
\* among them because a drain ends, by idleness or by the stall bound.
DueReconcile ==
    \/ AddFinalizer \/ EnsurePVC \/ PendingToCreating \/ suspendFromPreActive
    \/ BuildPod \/ Requeue \/ RebuildOnBump \/ CreatingToActive \/ CreatingPodFailed
    \/ SeeForceMarker \/ clearForceRecycleAnnotation
    \/ ActiveSuspend \/ ActiveRestart \/ ActivePodLost \/ ActivePodDying
    \/ handleSuspending \/ ResumeSuspended \/ handleResuming
    \/ handleTerminating \/ RemoveFinalizer
    \/ Commit \/ Conflict \/ clearSuspendRequest

Fairness ==
    /\ WF_vars(DueReconcile)
    /\ WF_vars(CacheSync) /\ WF_vars(PodCacheSync)
    /\ WF_vars(PodStarts) /\ WF_vars(PodReaped)

FairSpec == Spec /\ Fairness

-----------------------------------------------------------------------------
(* Properties.                                                             *)

Objects ==
    [phase : Phases, obs : 0..MaxInputs, failing : BOOLEAN, stable : BOOLEAN, ip : BOOLEAN,
     suspend : {"nil", "true", "false"}, gen : 0..MaxInputs, force : 0..MaxInputs,
     deleting : BOOLEAN, final : BOOLEAN]

\* Types; and a generation is never observed before it is requested, in the
\* object and in every copy of it, however old (Status.ObservedRestartGeneration).
TypeOK ==
    /\ {ws, cache, view} \subseteq Objects
    /\ \A w \in {ws, cache, view} : w.obs <= w.gen /\ w.obs <= ws.gen
    /\ {cacheCur, cur, pvc} \subseteq BOOLEAN
    /\ {pod, podCache} \subseteq PodStates
    /\ pc \in {"idle", "cont", "force", "commit", "clear", "finalizer"}
    /\ api \in {"idle", "check", "write"}
    /\ running \in Int
    /\ inputs \in 0..MaxInputs

CountedPhase == ws.phase \in {"Active", "Suspending"}

\* Between reconciles WorkspacesRunning counts the workspace exactly while it
\* is Active or on its way from Active to Suspended, whatever update was
\* refused after the gauge had moved, unless a refresh was ever requested
\* (the decrements and their undoing around Status().Update).
RunningGaugeExact ==
    pc = "idle" /\ ~hist.refreshed => running = IF CountedPhase THEN 1 ELSE 0

\* A suspended or terminated workspace has no pod that nobody is stopping: no
\* reconcile that runs on an older copy of the object brings one up behind the
\* suspension, unless a delete call failed (deletePodByName drops its error).
ParkedPodStops ==
    ws.phase \in {"Suspended", "Terminated", "Gone"} /\ hist.lostDeletes = 0
        => pod \in {"none", "dying"}

\* A workspace resumes at most once for each accepted request to activate it:
\* a request is not consumed twice, by a reconcile on an older copy or after
\* a later suspension, unless its acknowledgement failed (handleSuspended and
\* clearSuspendRequest).
ResumeOnce ==
    hist.clearsFailed = 0 => hist.resumes <= hist.activates

\* A request to suspend is acted upon in every phase before Suspended, however
\* the pod fails and whatever updates are refused meanwhile (handlePending,
\* handleCreating and handleActive look at Spec.Suspend first).
SuspendHonoured ==
    []<>~(/\ ws.suspend = "true" /\ ~ws.deleting
          /\ ws.phase \in {"Pending", "Creating", "Active", "Suspending"})

\* The workspace settles again and again: serving from a ready pod with every
\* requested restart observed, parked, or removed once it is deleted.  The exception is a container in a crash loop,
\* which no branch of handleCreating takes up.
Settles ==
    []<>(/\ pc = "idle"
         /\ ws.deleting => ws.phase = "Gone"
         /\ \/ ws.phase = "Active" /\ pod = "ready" /\ ws.obs = ws.gen
            \/ ws.phase \in {"Suspended", "Terminated", "Gone"}
            \/ ws.phase = "Creating" /\ pod = "crash")

=============================================================================
