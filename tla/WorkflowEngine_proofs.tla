------------------------ MODULE WorkflowEngine_proofs ------------------------
(***************************************************************************)
(* For every number of replicas, runs, fires and inputs: the types of the  *)
(* engine's state, that single-in-flight holds of what executes, that a    *)
(* webhook delivery fires at most once, and the bound on the overshoot of  *)
(* the circuit breaker.                                                    *)
(***************************************************************************)
EXTENDS WorkflowEngine, FiniteSetTheorems, SequenceTheorems, WellFoundedInduction, TLAPS

-----------------------------------------------------------------------------
(* The inductive invariants *)

(* An executor has claimed its run, and a cancel has read its row.         *)
Started ==
    /\ \A r \in RunIds : exec[r].pc # "none" => runs[r].st \notin {"none", "queued"}
    /\ \A r \in RunIds : r \in cancel => runs[r].st # "none"

(* The row of a run that executes is running, unless a user's cancel or    *)
(* the deletion of the workflow took it away.                              *)
RowIsRunning ==
    \A r \in RunIds :
       Executing(r) /\ r \notin userCanceled => runs[r].st \in {"running", "deleted"}

(* The partial unique index. *)
IndexHolds ==
    \A q, r \in RunIds : runs[q].st \in InFlight /\ runs[r].st \in InFlight => q = r

(* A trigger without a workflow has no rows but deleted ones, and a        *)
(* routine has none.                                                       *)
RowsOfTarget ==
    /\ \A r \in RunIds : runs[r].st = "deleted" => target = "none"
    /\ target = "none" => \A r \in RunIds : runs[r].st \in {"none", "deleted"}
    /\ target = "routine" => \A r \in RunIds : runs[r].st = "none"

RunsInv == Started /\ RowIsRunning /\ IndexHolds /\ RowsOfTarget /\ OneExecutor

FiredKeys == {fires[f].key : f \in 1..Len(fires)}

(* A request that is past the insert is the only one with its key, and no  *)
(* fire has the key yet; one that accounts has made its fire.              *)
HookOwnsKey ==
    \A p \in Replicas :
       /\ hook[p].pc = "fire" =>
             /\ hook[p].key \in dedup
             /\ hook[p].key \notin FiredKeys
             /\ \A q \in Replicas : hook[q].pc = "fire" /\ hook[q].key = hook[p].key => q = p
       /\ hook[p].pc \in {"account", "disable"} =>
             hook[p].key \in FiredKeys /\ target # "routine"

FireKeys ==
    /\ \A f \in 1..Len(fires) : fires[f].key \in Keys => fires[f].key \in dedup
    /\ \A f, g \in 1..Len(fires) : fires[f].key \in Keys /\ fires[f].key = fires[g].key => f = g

AnswersFired ==
    \A k \in Keys : answers[k] \cap {"fired", "skipped", "conflict"} # {} => k \in FiredKeys

KeysInv == HookOwnsKey /\ FireKeys /\ AnswersFired

(* The schedulers that may still count a failure without looking whether   *)
(* the trigger is enabled, and those about to disable it.                  *)
MayCount == {p \in Replicas : sched[p].pc \in {"fire", "leg", "account"}}
Disabling == {p \in Replicas : sched[p].pc = "disable"}

(* From the threshold on, while the trigger is enabled, every failure      *)
(* beyond it was counted by a scheduler that is about to disable it or has *)
(* died; once it is disabled every scheduler counts at most one more.      *)
BreakerInv ==
    target = "routine" /\ trig.failures >= AutoDisableAfter =>
       /\ trig.failures + 1 + Cardinality(MayCount)
             <= AutoDisableAfter + Cardinality(Replicas) + crashes
       /\ trig.enabled => trig.failures + 1
             <= AutoDisableAfter + Cardinality(Disabling) + crashes

-----------------------------------------------------------------------------
(* Lemmas about the model's operators *)

LEMMA LeastNumber ==
    ASSUME NEW S \in SUBSET Nat, S # {}
    PROVE  \E x \in S : \A y \in S : x <= y
<1>1. PICK x \in S : \A y \in S : ~(<<y, x>> \in OpToRel(<, Nat))
  BY WFMin, NatLessThanWellFounded
<1>2. ASSUME NEW y \in S PROVE x <= y
  <2>1. y \in Nat /\ x \in Nat
    OBVIOUS
  <2>2. ~(y < x)
    BY <2>1, <1>1 DEF OpToRel
  <2> QED BY <2>1, <2>2
<1> QED BY <1>2

(* A non-empty set of fires has an oldest one, so Min is one of them.      *)
LEMMA OldestFire ==
    ASSUME NEW S \in SUBSET Nat, S # {}
    PROVE  Min(S) \in S
BY LeastNumber DEF Min

(* While the last row is free, the first free row is one the insert may    *)
(* take.                                                                   *)
LEMMA FreeRunIsFree ==
    ASSUME TypeOK, RunRoom
    PROVE  FreeRun \in RunIds /\ runs[FreeRun].st = "none"
<1> DEFINE S == {r \in RunIds : runs[r].st = "none"}
<1>1. MaxRuns \in RunIds
  BY EngineAssumption DEF RunIds
<1>2. S \in SUBSET Nat /\ MaxRuns \in S
  BY <1>1 DEF RunIds, RunRoom
<1>3. PICK x \in S : \A y \in S : x <= y
  BY <1>2, LeastNumber
<1>4. ASSUME NEW q \in 1..(x - 1) PROVE runs[q].st # "none"
  <2>1. x \in 1..MaxRuns /\ MaxRuns \in Nat
    BY <1>3, EngineAssumption DEF RunIds
  <2>2. q \in RunIds /\ ~(x <= q)
    BY <2>1 DEF RunIds
  <2> QED BY <2>2, <1>3
<1> QED BY <1>3, <1>4 DEF FreeRun

(* What an inserted fire does to the sequence of fires.                    *)
LEMMA FireAdded ==
    ASSUME TypeOK, Len(fires) < MaxFires,
           NEW row \in FireRows, fires' = Append(fires, row)
    PROVE  /\ fires' \in Seq(FireRows) /\ Len(fires') <= MaxFires
           /\ Len(fires') = Len(fires) + 1
           /\ \A f \in 1..Len(fires) : fires'[f] = fires[f]
           /\ fires'[Len(fires) + 1] = row
BY EngineAssumption, AppendProperties DEF TypeOK

(* What the update of a fire's result does, whichever row it is given.     *)
LEMMA FireUpdated ==
    ASSUME TypeOK, NEW f, NEW status \in FireStatus, FireResult(f, status)
    PROVE  /\ fires' \in Seq(FireRows) /\ Len(fires') <= MaxFires
           /\ Len(fires') = Len(fires)
           /\ \A g \in 1..Len(fires) : fires'[g].key = fires[g].key
<1>1. fires \in Seq(FireRows) /\ fires' = [fires EXCEPT ![f] = [@ EXCEPT !.st = status]]
  BY DEF TypeOK, FireResult
<1>2. CASE f \in 1..Len(fires)
  <2>1. fires[f] \in FireRows
    BY <1>1, <1>2, ElementOfSeq
  <2>2. [fires[f] EXCEPT !.st = status] \in FireRows
    BY <2>1 DEF FireRows
  <2>3. [fires[f] EXCEPT !.st = status].key = fires[f].key
    BY <2>1 DEF FireRows
  <2> QED BY <1>1, <1>2, <2>2, <2>3, ExceptSeq DEF TypeOK
<1>3. CASE f \notin 1..Len(fires)
  <2>1. fires \in [1..Len(fires) -> FireRows]
    BY <1>1, LenProperties
  <2>2. fires' = fires
    BY <2>1, <1>1, <1>3
  <2> QED BY <2>2 DEF TypeOK
<1> QED BY <1>2, <1>3

LEMMA FireRowType ==
    ASSUME NEW act \in {"run_workflow", "routine"}, NEW status \in FireStatus,
           NEW key \in Keys \cup {NoKey}, NEW run \in 0..MaxRuns
    PROVE  FireRow(act, status, key, run) \in FireRows /\ FireRow(act, status, key, run).key = key
BY DEF FireRow, FireRows

LEMMA FireCreated ==
    ASSUME TypeOK, NEW act \in {"run_workflow", "routine"}, NEW status \in FireStatus,
           NEW key \in Keys \cup {NoKey}, CreateTriggerFire(act, status, key)
    PROVE  /\ fires' \in Seq(FireRows) /\ Len(fires') <= MaxFires
           /\ Len(fires) < MaxFires
           /\ Len(fires') = Len(fires) + 1
           /\ \A f \in 1..Len(fires) : fires'[f] = fires[f]
           /\ fires'[Len(fires) + 1].key = key
<1>1. 0 \in 0..MaxRuns
  BY EngineAssumption
<1>2. FireRow(act, status, key, 0) \in FireRows /\ FireRow(act, status, key, 0).key = key
  BY <1>1, FireRowType
<1>3. Len(fires) < MaxFires /\ fires' = Append(fires, FireRow(act, status, key, 0))
  BY DEF CreateTriggerFire
<1>4. /\ fires' \in Seq(FireRows) /\ Len(fires') <= MaxFires
      /\ Len(fires') = Len(fires) + 1
      /\ \A f \in 1..Len(fires) : fires'[f] = fires[f]
      /\ fires'[Len(fires) + 1] = FireRow(act, status, key, 0)
  BY <1>2, <1>3, FireAdded
<1> QED BY <1>2, <1>3, <1>4

LEMMA RunCreated ==
    ASSUME TypeOK, NEW key \in Keys \cup {NoKey}, CreateWorkflowRunWithFire(key)
    PROVE  /\ fires' \in Seq(FireRows) /\ Len(fires') <= MaxFires
           /\ Len(fires') = Len(fires) + 1
           /\ \A f \in 1..Len(fires) : fires'[f] = fires[f]
           /\ fires'[Len(fires) + 1].key = key
           /\ runs' \in [RunIds -> [st : RunStatus, fire : 0..MaxFires]]
           /\ FreeRun \in RunIds /\ runs[FreeRun].st = "none"
           /\ runs'[FreeRun].st = "queued"
           /\ \A r \in RunIds \ {FreeRun} : runs'[r] = runs[r]
           /\ ~SingleInFlight
<1>1. FreeRun \in RunIds /\ runs[FreeRun].st = "none"
  BY FreeRunIsFree DEF CreateWorkflowRunWithFire
<1>2. FreeRun \in 0..MaxRuns
  BY <1>1, EngineAssumption DEF RunIds
<1>3. FireRow("run_workflow", "fired", key, FreeRun) \in FireRows
      /\ FireRow("run_workflow", "fired", key, FreeRun).key = key
  BY <1>2, FireRowType DEF FireStatus
<1>4. Len(fires) \in Nat /\ Len(fires) < MaxFires /\ MaxFires \in Nat
  BY EngineAssumption, LenProperties DEF TypeOK, CreateWorkflowRunWithFire
<1>5. [st |-> "queued", fire |-> Len(fires) + 1] \in [st : RunStatus, fire : 0..MaxFires]
  BY <1>4 DEF RunStatus, InFlight
<1>6. fires' = Append(fires, FireRow("run_workflow", "fired", key, FreeRun))
  BY DEF CreateWorkflowRunWithFire
<1>7. runs' = [runs EXCEPT ![FreeRun] = [st |-> "queued", fire |-> Len(fires) + 1]] /\ ~SingleInFlight
  BY DEF CreateWorkflowRunWithFire
<1>8. runs \in [RunIds -> [st : RunStatus, fire : 0..MaxFires]]
  BY DEF TypeOK
<1>9. /\ runs' \in [RunIds -> [st : RunStatus, fire : 0..MaxFires]]
      /\ runs'[FreeRun].st = "queued"
      /\ \A r \in RunIds \ {FreeRun} : runs'[r] = runs[r]
  BY <1>1, <1>5, <1>7, <1>8
<1>10. /\ fires' \in Seq(FireRows) /\ Len(fires') <= MaxFires
       /\ Len(fires') = Len(fires) + 1
       /\ \A f \in 1..Len(fires) : fires'[f] = fires[f]
       /\ fires'[Len(fires) + 1] = FireRow("run_workflow", "fired", key, FreeRun)
  BY <1>3, <1>4, <1>6, FireAdded
<1> QED BY <1>1, <1>3, <1>7, <1>9, <1>10

LEMMA StatusType ==
    ASSUME TypeOK, NEW r \in RunIds, NEW status \in RunStatus
    PROVE  /\ StatusWritten(r, status) \in [RunIds -> [st : RunStatus, fire : 0..MaxFires]]
           /\ StatusWritten(r, status)[r].st = IF runs[r].st = "deleted" THEN "deleted" ELSE status
           /\ \A q \in RunIds \ {r} : StatusWritten(r, status)[q] = runs[q]
BY DEF TypeOK, StatusWritten

LEMMA DrainType ==
    ASSUME NEW S \in SUBSET (1..MaxFires)
    PROVE  /\ Drain(S) \in Scheds /\ (Drain(S).pc = "drain" => Drain(S).todo # {})
           /\ Drain(S).pc \in {"idle", "drain"}
<1>1. 0 \in 0..MaxFires /\ 0 \in 0..MaxAttempts
  BY EngineAssumption
<1>2. CASE S = {}
  BY <1>1, <1>2 DEF Drain, IdleSched, Scheds
<1>3. CASE S # {}
  <2>1. Drain(S) = [pc |-> "drain", cron |-> FALSE, fire |-> 0, leg |-> "none", att |-> 0, todo |-> S]
    BY <1>3 DEF Drain, IdleSched
  <2> QED BY <2>1, <1>1, <1>3 DEF Scheds
<1> QED BY <1>2, <1>3

LEMMA PendingType ==
    ASSUME TypeOK
    PROVE  ListPendingRoutineFires \in SUBSET (1..MaxFires)
<1>1. Len(fires) \in Nat /\ Len(fires) <= MaxFires /\ DOMAIN fires = 1..Len(fires) /\ MaxFires \in Nat
  BY EngineAssumption, LenProperties DEF TypeOK
<1> QED BY <1>1 DEF ListPendingRoutineFires

-----------------------------------------------------------------------------
(* Types *)

(* A scheduler that drains has a fire left to process.                     *)
DrainHasFires == \A p \in Replicas : sched[p].pc = "drain" => sched[p].todo # {}

(* A request in progress has a key.                                        *)
HookHasKey == \A p \in Replicas : hook[p].pc # "idle" => hook[p].key \in Keys

LEMMA Bounds ==
    /\ MaxCalls \in Nat \ {0} /\ MaxAttempts \in Nat \ {0} /\ MaxFires \in Nat \ {0}
    /\ MaxRuns \in Nat \ {0} /\ AutoDisableAfter \in Nat \ {0} /\ MaxInputs \in Nat
    /\ NoKey \notin Keys /\ NoReplica \notin Replicas
BY EngineAssumption

(* A handler's answer is given to the key of its request.                  *)
LEMMA HookDoneType ==
    ASSUME TypeOK, NEW p \in Replicas, NEW a \in Answers, HookDone(p, a)
    PROVE  /\ hook' \in [Replicas -> Hooks]
           /\ answers' \in [Keys -> SUBSET Answers]
           /\ HookHasKey => HookHasKey'
<1>1. IdleHook \in Hooks /\ IdleHook.pc = "idle"
  BY DEF IdleHook, Hooks
<1> QED BY <1>1 DEF TypeOK, HookDone, HookHasKey

LEMMA SchedGotoType ==
    ASSUME TypeOK, DrainHasFires, NEW p \in Replicas, NEW pc, SchedGoto(p, pc),
           pc \in {"idle", "fire", "list", "leg", "account", "disable", "reset", "next"}
    PROVE  /\ sched' \in [Replicas -> Scheds]
           /\ sched'[p].pc = pc
           /\ \A q \in Replicas \ {p} : sched'[q] = sched[q]
           /\ DrainHasFires'
<1>1. sched \in [Replicas -> Scheds] /\ sched' = [sched EXCEPT ![p] = [@ EXCEPT !.pc = pc]]
  BY DEF TypeOK, SchedGoto
<1>2. [sched[p] EXCEPT !.pc = pc] \in Scheds /\ [sched[p] EXCEPT !.pc = pc].pc = pc
  BY <1>1 DEF Scheds
<1>3. /\ sched' \in [Replicas -> Scheds]
      /\ sched'[p].pc = pc
      /\ \A q \in Replicas \ {p} : sched'[q] = sched[q]
  BY <1>1, <1>2
<1> QED BY <1>3 DEF DrainHasFires

(* One scheduler is given a new record.                                    *)
LEMMA SchedSetType ==
    ASSUME TypeOK, DrainHasFires, NEW p \in Replicas, NEW x \in Scheds,
           x.pc = "drain" => x.todo # {}, sched' = [sched EXCEPT ![p] = x]
    PROVE  /\ sched' \in [Replicas -> Scheds]
           /\ sched'[p] = x
           /\ \A q \in Replicas \ {p} : sched'[q] = sched[q]
           /\ DrainHasFires'
<1>1. sched \in [Replicas -> Scheds]
  BY DEF TypeOK
<1>3. /\ sched' \in [Replicas -> Scheds]
      /\ sched'[p] = x
      /\ \A q \in Replicas \ {p} : sched'[q] = sched[q]
  BY <1>1
<1> QED BY <1>3 DEF DrainHasFires

LEMMA AfterFireType ==
    ASSUME TypeOK, NEW p \in Replicas
    PROVE  /\ AfterFire(p) \in Scheds /\ (AfterFire(p).pc = "drain" => AfterFire(p).todo # {})
           /\ AfterFire(p).pc \in {"idle", "list", "drain"}
<1>1. sched[p].todo \in SUBSET (1..MaxFires)
  BY DEF TypeOK, Scheds
<1>2. 0 \in 0..MaxFires /\ 0 \in 0..MaxAttempts
  BY Bounds
<1>3. IdleSched \in Scheds
  BY <1>2 DEF IdleSched, Scheds
<1>4. [IdleSched EXCEPT !.pc = "list"] \in Scheds /\ [IdleSched EXCEPT !.pc = "list"].pc = "list"
  BY <1>3 DEF Scheds
<1> QED BY <1>1, <1>4, DrainType DEF AfterFire

LEMMA ExecGotoType ==
    ASSUME TypeOK, NEW r \in RunIds, NEW pc, Goto(r, pc),
           pc \in {"none", "check", "skipfire", "activate", "node", "finish", "account", "reset"}
    PROVE  /\ exec' \in [RunIds -> Execs]
           /\ exec'[r].pc = pc /\ exec'[r].by = exec[r].by
           /\ \A q \in RunIds \ {r} : exec'[q] = exec[q]
<1>1. exec \in [RunIds -> Execs] /\ exec' = [exec EXCEPT ![r] = [@ EXCEPT !.pc = pc]]
  BY DEF TypeOK, Goto
<1>2. /\ [exec[r] EXCEPT !.pc = pc] \in Execs /\ [exec[r] EXCEPT !.pc = pc].pc = pc
      /\ [exec[r] EXCEPT !.pc = pc].by = exec[r].by
  BY <1>1 DEF Execs
<1> QED BY <1>1, <1>2

LEMMA NoExecType ==
    NoExec \in Execs /\ NoExec.pc = "none"
BY Bounds DEF NoExec, Execs

EngineTypes == TypeOK /\ DrainHasFires /\ HookHasKey

LEMMA InputType ==
    ASSUME TypeOK, Input
    PROVE  inputs' \in 0..MaxInputs /\ \A n \in 0..inputs : n \in 0..inputs'
BY Bounds DEF TypeOK, Input

(* The parts of TypeOK that an action leaves alone are carried over by     *)
(* the parts of the state it changes.                                      *)
LEMMA RunActionTypes ==
    ASSUME EngineTypes, NEW r \in RunIds,
           \/ CancelRead(r) \/ CancelWrite(r) \/ Executor(r)
           \/ \E p \in Replicas : ClaimQueuedRuns(p, r)
    PROVE  EngineTypes'
<1> USE DEF EngineTypes
<1>1. CASE CancelRead(r)
  BY <1>1, InputType DEF CancelRead, TypeOK, DrainHasFires, schedule, hookState, HookHasKey, deaths
<1>2. CASE CancelWrite(r)
  BY <1>2, StatusType DEF CancelWrite, TypeOK, DrainHasFires, schedule, hookState, HookHasKey, bounds, deaths, RunStatus, Terminal
<1>3. CASE \E p \in Replicas : ClaimQueuedRuns(p, r)
  <2>1. PICK p \in Replicas : ClaimQueuedRuns(p, r)
    BY <1>3
  <2>2. [by |-> p, pc |-> "check", calls |-> 1] \in Execs
    BY Bounds DEF Execs
  <2>3. runs' \in [RunIds -> [st : RunStatus, fire : 0..MaxFires]]
    <3>1. "running" \in RunStatus
      BY DEF RunStatus, InFlight
    <3> QED BY <2>1, <3>1 DEF ClaimQueuedRuns, TypeOK
  <2> QED BY <2>1, <2>2, <2>3
          DEF ClaimQueuedRuns, TypeOK, DrainHasFires, schedule, hookState, HookHasKey, bounds, deaths
<1>4. CASE CheckTrigger(r)
  <2>1. exec' \in [RunIds -> Execs]
    BY <1>4, ExecGotoType DEF CheckTrigger
  <2>2. runs' \in [RunIds -> [st : RunStatus, fire : 0..MaxFires]]
    BY <1>4, StatusType DEF CheckTrigger, TypeOK, RunStatus, Terminal
  <2> QED BY <1>4, <2>1, <2>2, InputType
          DEF CheckTrigger, TypeOK, DrainHasFires, schedule, hookState, HookHasKey, deaths
<1>5. CASE SkipFire(r)
  <2>1. fires' \in Seq(FireRows) /\ Len(fires') <= MaxFires
    BY <1>5, FireUpdated DEF SkipFire, FireStatus
  <2> QED BY <1>5, <2>1, NoExecType
          DEF SkipFire, TypeOK, DrainHasFires, schedule, hookState, HookHasKey, bounds, deaths
<1>6. CASE Activate(r)
  <2>1. exec' \in [RunIds -> Execs]
    BY <1>6, ExecGotoType DEF Activate, FailRun
  <2>2. runs' \in [RunIds -> [st : RunStatus, fire : 0..MaxFires]]
    BY <1>6, StatusType DEF Activate, FailRun, TypeOK, RunStatus, Terminal
  <2> QED BY <1>6, <2>1, <2>2
          DEF Activate, TypeOK, DrainHasFires, schedule, hookState, HookHasKey, bounds, deaths
<1>7. CASE ExecuteNode(r)
  <2>1. exec' \in [RunIds -> Execs]
    <3>1. ASSUME exec[r].calls < MaxCalls, exec' = [exec EXCEPT ![r].calls = @ + 1]
          PROVE  exec' \in [RunIds -> Execs]
      <4>1. exec[r] \in Execs
        BY DEF TypeOK
      <4>2. exec[r].calls + 1 \in 0..MaxCalls
        BY <3>1, <4>1, Bounds DEF Execs
      <4>3. [exec[r] EXCEPT !.calls = @ + 1] \in Execs
        BY <4>1, <4>2 DEF Execs
      <4> QED BY <3>1, <4>3 DEF TypeOK
    <3> QED BY <1>7, <3>1, ExecGotoType DEF ExecuteNode, FailRun
  <2>2. runs' \in [RunIds -> [st : RunStatus, fire : 0..MaxFires]]
    BY <1>7, StatusType DEF ExecuteNode, FailRun, TypeOK, RunStatus, Terminal
  <2> QED BY <1>7, <2>1, <2>2
          DEF ExecuteNode, TypeOK, DrainHasFires, schedule, hookState, HookHasKey, bounds, deaths
<1>8. CASE Succeed(r)
  <2>1. exec' \in [RunIds -> Execs]
    BY <1>8, ExecGotoType DEF Succeed
  <2>2. runs' \in [RunIds -> [st : RunStatus, fire : 0..MaxFires]]
    BY <1>8, StatusType DEF Succeed, RunStatus, Terminal
  <2> QED BY <1>8, <2>1, <2>2
          DEF Succeed, TypeOK, DrainHasFires, schedule, hookState, HookHasKey, bounds, deaths
<1>9. CASE RunAccounted(r)
  <2>1. trig' \in [enabled : BOOLEAN, failures : Nat]
    BY <1>9, SMTT(30) DEF RunAccounted, TypeOK, IncrementTriggerFailures, ResetTriggerFailures
  <2> QED BY <1>9, <2>1, NoExecType
          DEF RunAccounted, TypeOK, DrainHasFires, schedule, hookState, HookHasKey, bounds, deaths
<1> QED BY <1>1, <1>2, <1>3, <1>4, <1>5, <1>6, <1>7, <1>8, <1>9 DEF Executor

LEMMA OwnerActionTypes ==
    ASSUME EngineTypes, RunWorkflow \/ ComeDue \/ UpdateTrigger \/ DeleteWorkflow
    PROVE  EngineTypes'
<1> USE DEF EngineTypes
<1>1. CASE RunWorkflow
  <2>1. FreeRun \in RunIds /\ [st |-> "queued", fire |-> 0] \in [st : RunStatus, fire : 0..MaxFires]
    BY <1>1, FreeRunIsFree, Bounds DEF RunWorkflow, RunStatus, InFlight
  <2> QED BY <1>1, <2>1, InputType
          DEF RunWorkflow, TypeOK, DrainHasFires, schedule, runState, hookState, HookHasKey, deaths
<1>2. CASE ComeDue
  BY <1>2, InputType DEF ComeDue, TypeOK, DrainHasFires, runState, hookState, HookHasKey, deaths
<1>3. CASE UpdateTrigger
  <2>1. trig' \in [enabled : BOOLEAN, failures : Nat]
    BY <1>3 DEF UpdateTrigger, TypeOK
  <2> QED BY <1>3, <2>1, InputType
          DEF UpdateTrigger, TypeOK, DrainHasFires, schedule, runState, hookState, HookHasKey, deaths
<1>4. CASE DeleteWorkflow
  <2>1. runs' \in [RunIds -> [st : RunStatus, fire : 0..MaxFires]]
    BY <1>4 DEF DeleteWorkflow, TypeOK, RunStatus
  <2> QED BY <1>4, <2>1, InputType
          DEF DeleteWorkflow, TypeOK, DrainHasFires, runState, hookState, HookHasKey, deaths
<1> QED BY <1>1, <1>2, <1>3, <1>4

LEMMA CrashTypes ==
    ASSUME EngineTypes, NEW p \in Replicas, Crash(p)
    PROVE  EngineTypes'
<1> USE DEF EngineTypes
<1>1. IdleSched \in Scheds /\ IdleSched.pc = "idle"
  BY Bounds DEF IdleSched, Scheds
<1>2. IdleHook \in Hooks /\ IdleHook.pc = "idle"
  BY DEF IdleHook, Hooks
<1>3. sched' \in [Replicas -> Scheds] /\ DrainHasFires'
  BY <1>1, SchedSetType DEF Crash
<1>4. hook' \in [Replicas -> Hooks] /\ HookHasKey'
  BY <1>2 DEF Crash, TypeOK, HookHasKey
<1>5. exec' \in [RunIds -> Execs]
  BY NoExecType DEF Crash, TypeOK
<1>6. inputs' \in 0..MaxInputs /\ crashes' \in 0..inputs'
  BY Bounds DEF Crash, Input, TypeOK
<1> QED BY <1>3, <1>4, <1>5, <1>6 DEF Crash, TypeOK, schedule

LEMMA SchedulerTypes ==
    ASSUME EngineTypes, NEW p \in Replicas, Scheduler(p)
    PROVE  EngineTypes'
<1> USE DEF EngineTypes
<1>0. sched[p] \in Scheds /\ fires \in Seq(FireRows) /\ Len(fires) <= MaxFires
  BY DEF TypeOK
<1>1. CASE Tick(p)
  <2>1. CASE source = "cron" /\ due /\ trig.enabled
    <3>1. /\ [sched[p] EXCEPT !.pc = "fire", !.cron = TRUE] \in Scheds
          /\ [sched[p] EXCEPT !.pc = "fire", !.cron = TRUE].pc = "fire"
      BY <1>0 DEF Scheds
    <3>2. sched' = [sched EXCEPT ![p] = [sched[p] EXCEPT !.pc = "fire", !.cron = TRUE]] /\ due' = FALSE
      BY <1>1, <2>1 DEF Tick, TypeOK
    <3>3. sched' \in [Replicas -> Scheds] /\ DrainHasFires'
      BY <3>1, <3>2, SchedSetType
    <3> QED BY <1>1, <3>2, <3>3 DEF Tick, TypeOK, runState, hookState, HookHasKey, bounds, deaths
  <2>2. CASE ~(source = "cron" /\ due /\ trig.enabled)
    <3>1. sched' = [sched EXCEPT ![p] = Drain(ListPendingRoutineFires)] /\ UNCHANGED due
      BY <1>1, <2>2 DEF Tick
    <3>2. sched' \in [Replicas -> Scheds] /\ DrainHasFires'
      BY <3>1, PendingType, DrainType, SchedSetType
    <3> QED BY <1>1, <3>1, <3>2 DEF Tick, TypeOK, runState, hookState, HookHasKey, bounds, deaths
  <2> QED BY <2>1, <2>2
<1>2. CASE FireMissed(p)
  <2>1. fires' \in Seq(FireRows) /\ Len(fires') <= MaxFires
    BY <1>2, FireCreated DEF FireMissed, FireStatus
  <2>2. sched' \in [Replicas -> Scheds] /\ DrainHasFires'
    BY <1>2, SchedGotoType DEF FireMissed
  <2> QED BY <1>2, <2>1, <2>2 DEF FireMissed, TypeOK, schedule, runState, hookState, HookHasKey, bounds, deaths
<1>3. CASE FireWorkflowTarget(p)
  <2>1. CASE CreateWorkflowRunWithFire(NoKey) /\ SchedGoto(p, "list")
    <3>1. /\ fires' \in Seq(FireRows) /\ Len(fires') <= MaxFires
          /\ runs' \in [RunIds -> [st : RunStatus, fire : 0..MaxFires]]
      BY <2>1, RunCreated
    <3>2. sched' \in [Replicas -> Scheds] /\ DrainHasFires'
      BY <2>1, SchedGotoType
    <3> QED BY <1>3, <3>1, <3>2
            DEF FireWorkflowTarget, TypeOK, schedule, runState, hookState, HookHasKey, bounds, deaths
  <2>2. CASE /\ CreateTriggerFire("run_workflow", "skipped", NoKey)
             /\ SchedGoto(p, "list")
             /\ UNCHANGED runs
    <3>1. fires' \in Seq(FireRows) /\ Len(fires') <= MaxFires
      BY <2>2, FireCreated DEF FireStatus
    <3>2. sched' \in [Replicas -> Scheds] /\ DrainHasFires'
      BY <2>2, SchedGotoType
    <3> QED BY <1>3, <2>2, <3>1, <3>2
            DEF FireWorkflowTarget, TypeOK, schedule, runState, hookState, HookHasKey, bounds, deaths
  <2>3. CASE /\ CreateTriggerFire("run_workflow", "validation_error", NoKey)
             /\ SchedGoto(p, "account")
             /\ UNCHANGED runs
    <3>1. fires' \in Seq(FireRows) /\ Len(fires') <= MaxFires
      BY <2>3, FireCreated DEF FireStatus
    <3>2. sched' \in [Replicas -> Scheds] /\ DrainHasFires'
      BY <2>3, SchedGotoType
    <3> QED BY <1>3, <2>3, <3>1, <3>2
            DEF FireWorkflowTarget, TypeOK, schedule, runState, hookState, HookHasKey, bounds, deaths
  <2> QED BY <1>3, <2>1, <2>2, <2>3 DEF FireWorkflowTarget
<1>4. CASE FireRoutineTarget(p)
  <2>1. CASE target = "routine"
    <3>1. /\ CreateTriggerFire("routine", "fired", NoKey)
          /\ sched' = [sched EXCEPT ![p] = [sched[p] EXCEPT !.pc = "leg", !.fire = Len(fires) + 1,
                                                            !.leg = "activate", !.att = 1]]
      BY <1>4, <2>1 DEF FireRoutineTarget, TypeOK
    <3>2. fires' \in Seq(FireRows) /\ Len(fires') <= MaxFires /\ Len(fires) < MaxFires
      BY <3>1, FireCreated DEF FireStatus
    <3>3. Len(fires) + 1 \in 0..MaxFires /\ 1 \in 0..MaxAttempts
      BY <3>2, <1>0, LenProperties, Bounds
    <3>4. /\ [sched[p] EXCEPT !.pc = "leg", !.fire = Len(fires) + 1, !.leg = "activate", !.att = 1] \in Scheds
          /\ [sched[p] EXCEPT !.pc = "leg", !.fire = Len(fires) + 1, !.leg = "activate", !.att = 1].pc = "leg"
      BY <1>0, <3>3 DEF Scheds
    <3>5. sched' \in [Replicas -> Scheds] /\ DrainHasFires'
      BY <3>1, <3>4, SchedSetType
    <3> QED BY <1>4, <3>2, <3>5
            DEF FireRoutineTarget, TypeOK, schedule, runState, hookState, HookHasKey, bounds, deaths
  <2>2. CASE target # "routine"
    <3>1. fires' \in Seq(FireRows) /\ Len(fires') <= MaxFires
      BY <1>4, <2>2, FireCreated DEF FireRoutineTarget, FireStatus
    <3>2. sched' \in [Replicas -> Scheds] /\ DrainHasFires'
      BY <1>4, <2>2, SchedGotoType DEF FireRoutineTarget
    <3> QED BY <1>4, <3>1, <3>2
            DEF FireRoutineTarget, TypeOK, schedule, runState, hookState, HookHasKey, bounds, deaths
  <2> QED BY <2>1, <2>2
<1>5. CASE FireGlitch(p)
  <2>1. sched' \in [Replicas -> Scheds] /\ DrainHasFires'
    BY <1>5, SchedGotoType DEF FireGlitch
  <2> QED BY <1>5, <2>1, InputType
          DEF FireGlitch, TypeOK, schedule, runState, hookState, HookHasKey, deaths
<1>6. CASE ListPending(p)
  <2>1. sched' \in [Replicas -> Scheds] /\ DrainHasFires'
    BY <1>6, PendingType, DrainType, SchedSetType DEF ListPending
  <2> QED BY <1>6, <2>1 DEF ListPending, TypeOK, schedule, runState, hookState, HookHasKey, bounds, deaths
<1>7. CASE ProcessPending(p)
  <2> DEFINE f == Min(sched[p].todo)
             rest == sched[p].todo \ {f}
  <2>1. sched[p].todo \in SUBSET (1..MaxFires) /\ sched[p].todo # {}
    BY <1>0, <1>7 DEF ProcessPending, DrainHasFires, Scheds
  <2>2. f \in sched[p].todo
    BY <2>1, OldestFire
  <2>3. f \in 0..MaxFires /\ rest \in SUBSET (1..MaxFires)
    BY <2>1, <2>2
  <2> HIDE DEF f, rest
  <2>4. CASE FireResult(f, "skipped") /\ sched' = [sched EXCEPT ![p] = Drain(rest)] /\ UNCHANGED inputs
    <3>1. fires' \in Seq(FireRows) /\ Len(fires') <= MaxFires
      BY <2>4, FireUpdated DEF FireStatus
    <3>2. sched' \in [Replicas -> Scheds] /\ DrainHasFires'
      BY <2>3, <2>4, DrainType, SchedSetType
    <3> QED BY <1>7, <2>4, <3>1, <3>2
            DEF ProcessPending, TypeOK, schedule, runState, hookState, HookHasKey, deaths
  <2>5. CASE /\ sched' = [sched EXCEPT ![p] = [pc |-> "leg", cron |-> FALSE, fire |-> f,
                                               leg |-> "activate", att |-> 1, todo |-> rest]]
             /\ UNCHANGED <<fires, inputs>>
    <3>1. [pc |-> "leg", cron |-> FALSE, fire |-> f, leg |-> "activate", att |-> 1, todo |-> rest] \in Scheds
      BY <2>3, Bounds DEF Scheds
    <3>2. sched' \in [Replicas -> Scheds] /\ DrainHasFires'
      BY <2>5, <3>1, SchedSetType
    <3> QED BY <1>7, <2>5, <3>2
            DEF ProcessPending, TypeOK, schedule, runState, hookState, HookHasKey, deaths
  <2>6. CASE Input /\ sched' = [sched EXCEPT ![p] = Drain(rest)] /\ UNCHANGED fires
    <3>1. sched' \in [Replicas -> Scheds] /\ DrainHasFires'
      BY <2>3, <2>6, DrainType, SchedSetType
    <3> QED BY <1>7, <2>6, <3>1, InputType
            DEF ProcessPending, TypeOK, schedule, runState, hookState, HookHasKey, deaths
  <2> QED BY <1>7, <2>4, <2>5, <2>6 DEF ProcessPending, f, rest
<1>8. CASE RoutineLeg(p)
  <2>1. fires' \in Seq(FireRows) /\ Len(fires') <= MaxFires
    BY <1>0, <1>8, FireUpdated DEF RoutineLeg, FireStatus
  <2>2. ASSUME NEW l \in {"gate", "agent"}, sched' = [sched EXCEPT ![p].leg = l, ![p].att = 1], sched[p].pc = "leg"
        PROVE  sched' \in [Replicas -> Scheds] /\ DrainHasFires'
    <3>1. sched' = [sched EXCEPT ![p] = [sched[p] EXCEPT !.leg = l, !.att = 1]]
      BY <2>2 DEF TypeOK
    <3>2. /\ [sched[p] EXCEPT !.leg = l, !.att = 1] \in Scheds
          /\ [sched[p] EXCEPT !.leg = l, !.att = 1].pc = "leg"
      <4>1. 1 \in 0..MaxAttempts
        BY Bounds
      <4> QED BY <1>0, <2>2, <4>1 DEF Scheds
    <3> QED BY <3>1, <3>2, SchedSetType
  <2>3. sched' \in [Replicas -> Scheds] /\ DrainHasFires'
    BY <1>8, <2>2, SchedGotoType DEF RoutineLeg
  <2> QED BY <1>8, <2>1, <2>3 DEF RoutineLeg, TypeOK, schedule, runState, hookState, HookHasKey, bounds, deaths
<1>9. CASE RoutineLegFails(p)
  <2>1. fires' \in Seq(FireRows) /\ Len(fires') <= MaxFires
    BY <1>0, <1>9, FireUpdated DEF RoutineLegFails, FireStatus
  <2>2. ASSUME sched[p].att < MaxAttempts, sched' = [sched EXCEPT ![p].att = @ + 1], sched[p].pc = "leg"
        PROVE  sched' \in [Replicas -> Scheds] /\ DrainHasFires'
    <3>1. sched' = [sched EXCEPT ![p] = [sched[p] EXCEPT !.att = sched[p].att + 1]]
      BY <2>2 DEF TypeOK
    <3>2. sched[p].att + 1 \in 0..MaxAttempts
      BY <1>0, <2>2, Bounds DEF Scheds
    <3>3. /\ [sched[p] EXCEPT !.att = sched[p].att + 1] \in Scheds
          /\ [sched[p] EXCEPT !.att = sched[p].att + 1].pc = "leg"
      BY <1>0, <2>2, <3>2 DEF Scheds
    <3> QED BY <3>1, <3>3, SchedSetType
  <2>3. sched' \in [Replicas -> Scheds] /\ DrainHasFires'
    BY <1>9, <2>2, SchedGotoType DEF RoutineLegFails
  <2> QED BY <1>9, <2>1, <2>3 DEF RoutineLegFails, TypeOK, schedule, runState, hookState, HookHasKey, bounds, deaths
<1>10. CASE AccountTriggerFailure(p)
  <2>1. trig' \in [enabled : BOOLEAN, failures : Nat]
    BY <1>10 DEF AccountTriggerFailure, IncrementTriggerFailures, TypeOK
  <2>2. /\ [sched[p] EXCEPT !.pc = "disable"] \in Scheds
        /\ [sched[p] EXCEPT !.pc = "disable"].pc = "disable"
    BY <1>0 DEF Scheds
  <2>3. \/ sched' = [sched EXCEPT ![p] = [sched[p] EXCEPT !.pc = "disable"]]
        \/ sched' = [sched EXCEPT ![p] = AfterFire(p)]
    BY <1>10 DEF AccountTriggerFailure
  <2>4. sched' \in [Replicas -> Scheds] /\ DrainHasFires'
    BY <2>2, <2>3, AfterFireType, SchedSetType
  <2> QED BY <1>10, <2>1, <2>4
          DEF AccountTriggerFailure, TypeOK, schedule, runState, hookState, HookHasKey, bounds, deaths
<1>11. CASE FireAccounted(p)
  <2>1. trig' \in [enabled : BOOLEAN, failures : Nat]
    <3>1. trig \in [enabled : BOOLEAN, failures : Nat]
      BY DEF TypeOK
    <3>2. [trig EXCEPT !.enabled = FALSE] \in [enabled : BOOLEAN, failures : Nat]
      BY <3>1
    <3>3. [trig EXCEPT !.failures = 0] \in [enabled : BOOLEAN, failures : Nat]
      BY <3>1
    <3> QED BY <1>11, <3>1, <3>2, <3>3 DEF FireAccounted, DisableTrigger, ResetTriggerFailures
  <2>2. sched' \in [Replicas -> Scheds] /\ DrainHasFires'
    BY <1>11, AfterFireType, SchedSetType DEF FireAccounted
  <2> QED BY <1>11, <2>1, <2>2
          DEF FireAccounted, TypeOK, schedule, runState, hookState, HookHasKey, bounds, deaths
<1> QED BY <1>1, <1>2, <1>3, <1>4, <1>5, <1>6, <1>7, <1>8, <1>9, <1>10, <1>11 DEF Scheduler

LEMMA ReceiverTypes ==
    ASSUME EngineTypes, NEW p \in Replicas,
           Receiver(p) \/ \E k \in Keys : WebhookReceive(p, k)
    PROVE  EngineTypes'
<1> USE DEF EngineTypes
<1>0. hook[p] \in Hooks /\ hook[p].key \in Keys \cup {NoKey}
  BY DEF TypeOK, Hooks
<1>a. ASSUME NEW pc \in {"fire", "account", "disable"}, hook' = [hook EXCEPT ![p].pc = pc],
             hook[p].pc # "idle"
      PROVE  hook' \in [Replicas -> Hooks] /\ HookHasKey'
  <2>1. [hook[p] EXCEPT !.pc = pc] \in Hooks /\ [hook[p] EXCEPT !.pc = pc].key = hook[p].key
    BY <1>0 DEF Hooks
  <2>2. hook[p].key \in Keys
    BY <1>a DEF HookHasKey
  <2> QED BY <1>a, <2>1, <2>2 DEF TypeOK, HookHasKey
<1>1. CASE \E k \in Keys : WebhookReceive(p, k)
  <2>1. PICK k \in Keys : WebhookReceive(p, k)
    BY <1>1
  <2>2. trig.enabled \in BOOLEAN
    BY DEF TypeOK
  <2>3. [pc |-> "dedup", key |-> k, enabled |-> trig.enabled] \in Hooks
    BY <2>2 DEF Hooks
  <2>4. hook' \in [Replicas -> Hooks] /\ HookHasKey'
    BY <2>1, <2>3 DEF WebhookReceive, TypeOK, HookHasKey
  <2> QED BY <2>1, <2>4, InputType
          DEF WebhookReceive, TypeOK, DrainHasFires, schedule, runState, deaths
<1>2. CASE RecordWebhookDelivery(p)
  <2>1. CASE hook[p].key \in dedup
    <3>1. hook' \in [Replicas -> Hooks] /\ answers' \in [Keys -> SUBSET Answers] /\ HookHasKey'
      BY <1>2, <2>1, HookDoneType DEF RecordWebhookDelivery, Answers
    <3> QED BY <1>2, <2>1, <3>1
            DEF RecordWebhookDelivery, TypeOK, DrainHasFires, schedule, runState, bounds, deaths
  <2>2. CASE hook[p].key \notin dedup
    <3>1. /\ hook[p].pc = "dedup" /\ dedup' = dedup \cup {hook[p].key}
          /\ hook' = [hook EXCEPT ![p].pc = "fire"] /\ UNCHANGED answers
      BY <1>2, <2>2 DEF RecordWebhookDelivery
    <3>2. hook' \in [Replicas -> Hooks] /\ HookHasKey'
      BY <1>a, <3>1
    <3>3. dedup' \subseteq Keys
      BY <3>1 DEF TypeOK, HookHasKey
    <3> QED BY <1>2, <3>1, <3>2, <3>3
            DEF RecordWebhookDelivery, TypeOK, DrainHasFires, schedule, runState, bounds, deaths
  <2> QED BY <2>1, <2>2
<1>3. CASE WebhookAbsorb(p)
  <2>1. fires' \in Seq(FireRows) /\ Len(fires') <= MaxFires
    BY <1>0, <1>3, FireCreated DEF WebhookAbsorb, FireStatus
  <2>2. hook' \in [Replicas -> Hooks] /\ answers' \in [Keys -> SUBSET Answers] /\ HookHasKey'
    BY <1>3, HookDoneType DEF WebhookAbsorb, Answers
  <2> QED BY <1>3, <2>1, <2>2
          DEF WebhookAbsorb, TypeOK, DrainHasFires, schedule, runState, bounds, deaths
<1>4. CASE WebhookRun(p)
  <2>1. CASE CreateWorkflowRunWithFire(hook[p].key) /\ HookDone(p, "fired")
    <3>1. /\ fires' \in Seq(FireRows) /\ Len(fires') <= MaxFires
          /\ runs' \in [RunIds -> [st : RunStatus, fire : 0..MaxFires]]
      BY <1>0, <2>1, RunCreated
    <3>2. hook' \in [Replicas -> Hooks] /\ answers' \in [Keys -> SUBSET Answers] /\ HookHasKey'
      BY <2>1, HookDoneType DEF Answers
    <3> QED BY <1>4, <3>1, <3>2
            DEF WebhookRun, TypeOK, DrainHasFires, schedule, runState, bounds, deaths
  <2>2. CASE /\ CreateTriggerFire("run_workflow", "skipped", hook[p].key)
             /\ HookDone(p, "conflict")
             /\ UNCHANGED runs
    <3>1. fires' \in Seq(FireRows) /\ Len(fires') <= MaxFires
      BY <1>0, <2>2, FireCreated DEF FireStatus
    <3>2. hook' \in [Replicas -> Hooks] /\ answers' \in [Keys -> SUBSET Answers] /\ HookHasKey'
      BY <2>2, HookDoneType DEF Answers
    <3> QED BY <1>4, <2>2, <3>1, <3>2
            DEF WebhookRun, TypeOK, DrainHasFires, schedule, runState, bounds, deaths
  <2>3. CASE /\ CreateTriggerFire("run_workflow", "validation_error", hook[p].key)
             /\ hook' = [hook EXCEPT ![p].pc = "account"]
             /\ UNCHANGED <<runs, answers>>
    <3>1. fires' \in Seq(FireRows) /\ Len(fires') <= MaxFires
      BY <1>0, <2>3, FireCreated DEF FireStatus
    <3>2. hook' \in [Replicas -> Hooks] /\ HookHasKey'
      BY <1>4, <2>3, <1>a DEF WebhookRun
    <3> QED BY <1>4, <2>3, <3>1, <3>2
            DEF WebhookRun, TypeOK, DrainHasFires, schedule, runState, bounds, deaths
  <2> QED BY <1>4, <2>1, <2>2, <2>3 DEF WebhookRun
<1>5. CASE WebhookAccount(p)
  <2>1. trig' \in [enabled : BOOLEAN, failures : Nat]
    <3>1. trig \in [enabled : BOOLEAN, failures : Nat]
      BY DEF TypeOK
    <3>2. [trig EXCEPT !.enabled = FALSE] \in [enabled : BOOLEAN, failures : Nat]
      BY <3>1
    <3>3. [trig EXCEPT !.failures = @ + 1] \in [enabled : BOOLEAN, failures : Nat]
      BY <3>1
    <3> QED BY <1>5, <3>2, <3>3 DEF WebhookAccount, DisableTrigger, IncrementTriggerFailures
  <2>2. \/ hook' = [hook EXCEPT ![p].pc = "disable"] /\ UNCHANGED answers
        \/ HookDone(p, "fired")
    BY <1>5 DEF WebhookAccount
  <2>4. hook[p].pc # "idle"
    BY <1>5 DEF WebhookAccount
  <2>3. hook' \in [Replicas -> Hooks] /\ answers' \in [Keys -> SUBSET Answers] /\ HookHasKey'
    BY <2>2, <2>4, <1>a, HookDoneType DEF Answers, TypeOK
  <2> QED BY <1>5, <2>1, <2>3
          DEF WebhookAccount, TypeOK, DrainHasFires, schedule, runState, bounds, deaths
<1>6. CASE WebhookRoutine(p)
  <2>1. fires' \in Seq(FireRows) /\ Len(fires') <= MaxFires
    BY <1>0, <1>6, FireCreated DEF WebhookRoutine, FireStatus
  <2>2. hook' \in [Replicas -> Hooks] /\ answers' \in [Keys -> SUBSET Answers] /\ HookHasKey'
    BY <1>6, HookDoneType DEF WebhookRoutine, Answers
  <2> QED BY <1>6, <2>1, <2>2
          DEF WebhookRoutine, TypeOK, DrainHasFires, schedule, runState, bounds, deaths
<1>7. CASE WebhookError(p)
  <2>1. hook' \in [Replicas -> Hooks] /\ answers' \in [Keys -> SUBSET Answers] /\ HookHasKey'
    BY <1>7, HookDoneType DEF WebhookError, Answers
  <2>2. inputs' \in 0..MaxInputs /\ crashes \in 0..inputs'
    BY <1>7, InputType DEF WebhookError, TypeOK
  <2> QED BY <1>7, <2>1, <2>2
          DEF WebhookError, TypeOK, DrainHasFires, schedule, runState, deaths
<1> QED BY <1>1, <1>2, <1>3, <1>4, <1>5, <1>6, <1>7 DEF Receiver

LEMMA InitTypes == Init => EngineTypes
<1> SUFFICES ASSUME Init PROVE EngineTypes
  OBVIOUS
<1>1. IdleSched \in Scheds /\ IdleSched.pc = "idle"
  BY Bounds DEF IdleSched, Scheds
<1>2. IdleHook \in Hooks /\ IdleHook.pc = "idle"
  BY DEF IdleHook, Hooks
<1>3. <<>> \in Seq(FireRows) /\ Len(<<>>) = 0
  BY EmptySeq
<1>4. [st |-> "none", fire |-> 0] \in [st : RunStatus, fire : 0..MaxFires]
  BY Bounds DEF RunStatus
<1>5. /\ fires \in Seq(FireRows) /\ Len(fires) <= MaxFires
      /\ inputs \in 0..MaxInputs /\ crashes \in 0..inputs
  BY <1>3, Bounds DEF Init
<1>6. /\ runs \in [RunIds -> [st : RunStatus, fire : 0..MaxFires]]
      /\ exec \in [RunIds -> Execs]
      /\ sched \in [Replicas -> Scheds]
      /\ hook \in [Replicas -> Hooks]
      /\ answers \in [Keys -> SUBSET Answers]
  BY <1>1, <1>2, <1>4, NoExecType DEF Init
<1>7. DrainHasFires /\ HookHasKey
  BY <1>1, <1>2 DEF Init, DrainHasFires, HookHasKey
<1>8. trig \in [enabled : BOOLEAN, failures : Nat]
  BY DEF Init
<1> QED BY <1>5, <1>6, <1>7, <1>8 DEF Init, EngineTypes, TypeOK

LEMMA StepTypes == EngineTypes /\ [Next]_vars => EngineTypes'
<1> SUFFICES ASSUME EngineTypes, [Next]_vars PROVE EngineTypes'
  OBVIOUS
<1>1. CASE UNCHANGED vars
  BY <1>1 DEF vars, EngineTypes, TypeOK, DrainHasFires, HookHasKey
<1>2. CASE Next
  BY <1>2, RunActionTypes, OwnerActionTypes, CrashTypes, SchedulerTypes, ReceiverTypes DEF Next
<1> QED BY <1>1, <1>2

(* Every variable of the engine stays in its type, whatever the number of  *)
(* replicas: in particular a run is only made where the table has a free   *)
(* row, and the oldest pending fire that a scheduler works off exists.     *)
THEOREM EngineTypesHold == Spec => []TypeOK
<1>1. EngineTypes => TypeOK
  BY DEF EngineTypes
<1> QED BY <1>1, InitTypes, StepTypes, PTL DEF Spec

-----------------------------------------------------------------------------
(* Single-in-flight *)

(* Most actions leave the runs and their executors alone.                  *)
LEMMA RunsFrame ==
    ASSUME RunsInv, UNCHANGED <<target, runs, exec, cancel, userCanceled>>
    PROVE  RunsInv'
BY DEF RunsInv, Started, RowIsRunning, IndexHolds, RowsOfTarget, OneExecutor, Executing

(* A run is inserted.                                                      *)
LEMMA RunsAdded ==
    ASSUME RunsInv, NEW n \in RunIds, runs[n].st = "none", ~SingleInFlight, target = "workflow",
           runs'[n].st = "queued", \A r \in RunIds \ {n} : runs'[r] = runs[r],
           UNCHANGED <<target, exec, cancel, userCanceled>>
    PROVE  RunsInv'
<1>1. Started' /\ RowsOfTarget'
  BY DEF RunsInv, Started, RowsOfTarget
<1>2. RowIsRunning'
  BY DEF RunsInv, RowIsRunning, Started, Executing
<1>3. IndexHolds'
  BY DEF IndexHolds, SingleInFlight
<1>4. OneExecutor'
  BY DEF RunsInv, OneExecutor, Executing
<1> QED BY <1>1, <1>2, <1>3, <1>4 DEF RunsInv

(* A claim makes the run's executor the only one whose row is running.     *)
LEMMA RunsClaimed ==
    ASSUME EngineTypes, RunsInv, NEW p \in Replicas, NEW r \in RunIds, ClaimQueuedRuns(p, r)
    PROVE  RunsInv'
<1>1. /\ runs[r].st = "queued" /\ runs'[r].st = "running" /\ exec'[r].pc = "check"
      /\ \A q \in RunIds \ {r} : runs'[q] = runs[q] /\ exec'[q] = exec[q]
      /\ UNCHANGED <<target, cancel, userCanceled>>
  BY DEF ClaimQueuedRuns, EngineTypes, TypeOK, schedule
<1>2. Started' /\ RowsOfTarget'
  BY <1>1 DEF RunsInv, Started, RowsOfTarget
<1>3. RowIsRunning'
  BY <1>1 DEF RunsInv, RowIsRunning, Executing
<1>4. IndexHolds'
  BY <1>1 DEF RunsInv, IndexHolds, InFlight
<1>5. OneExecutor'
  <2>1. ASSUME NEW q \in RunIds \ {r}, Executing(q) PROVE q \in userCanceled
    BY <1>1, <2>1 DEF RunsInv, RowIsRunning, IndexHolds, RowsOfTarget, InFlight
  <2> QED BY <1>1, <2>1 DEF RunsInv, OneExecutor, Executing
<1> QED BY <1>2, <1>3, <1>4, <1>5 DEF RunsInv

(* A step of an executor leaves the row alone or ends the run.             *)
LEMMA RunsExecuted ==
    ASSUME RunsInv, NEW r \in RunIds, exec[r].pc # "none",
           \A q \in RunIds \ {r} : runs'[q] = runs[q] /\ exec'[q] = exec[q],
           UNCHANGED <<target, cancel, userCanceled>>,
           \/ runs'[r] = runs[r] /\ (Executing(r)' => Executing(r))
           \/ /\ runs'[r].st \in Terminal \cup {"deleted"}
              /\ runs'[r].st = "deleted" <=> runs[r].st = "deleted"
              /\ ~Executing(r)'
    PROVE  RunsInv'
<1>1. runs[r].st \notin {"none", "queued"}
  BY DEF RunsInv, Started
<1>2. Started' /\ RowsOfTarget'
  BY <1>1 DEF RunsInv, Started, RowsOfTarget, Terminal
<1>3. RowIsRunning'
  BY DEF RunsInv, RowIsRunning, Executing
<1>4. IndexHolds'
  BY DEF RunsInv, IndexHolds, InFlight, Terminal
<1>5. OneExecutor'
  BY DEF RunsInv, OneExecutor, Executing
<1> QED BY <1>2, <1>3, <1>4, <1>5 DEF RunsInv

LEMMA RunsExecutor ==
    ASSUME EngineTypes, RunsInv, NEW r \in RunIds, Executor(r)
    PROVE  RunsInv'
<1> USE DEF EngineTypes
<1>1. CASE \/ SkipFire(r) \/ RunAccounted(r)
  <2>1. /\ exec[r].pc # "none" /\ exec'[r].pc = "none"
        /\ \A q \in RunIds \ {r} : exec'[q] = exec[q]
        /\ UNCHANGED <<target, runs, cancel, userCanceled>>
    BY <1>1, NoExecType DEF SkipFire, RunAccounted, At, TypeOK, schedule
  <2> QED BY <2>1, RunsExecuted DEF Executing
<1>2. ASSUME NEW pc \in {"activate", "node", "finish"}, Goto(r, pc), UNCHANGED runs,
             At(r, "check") \/ At(r, "activate") \/ At(r, "node"),
             UNCHANGED <<target, cancel, userCanceled>>
      PROVE  RunsInv'
  <2>1. /\ exec[r].pc # "none" /\ Executing(r)
        /\ \A q \in RunIds \ {r} : exec'[q] = exec[q]
    BY <1>2, ExecGotoType DEF At, Executing
  <2> QED BY <1>2, <2>1, RunsExecuted
<1>3. ASSUME NEW pc \in {"skipfire", "account", "reset"}, Goto(r, pc),
             NEW status \in Terminal, runs' = StatusWritten(r, status),
             exec[r].pc # "none", UNCHANGED <<target, cancel, userCanceled>>
      PROVE  RunsInv'
  <2>1. /\ exec'[r].pc = pc
        /\ \A q \in RunIds \ {r} : exec'[q] = exec[q]
    BY <1>3, ExecGotoType
  <2>2. /\ runs'[r].st = IF runs[r].st = "deleted" THEN "deleted" ELSE status
        /\ \A q \in RunIds \ {r} : runs'[q] = runs[q]
    BY <1>3, StatusType DEF RunStatus
  <2>3. ~Executing(r)'
    BY <2>1 DEF Executing
  <2>4. runs'[r].st \in Terminal \cup {"deleted"} /\ (runs'[r].st = "deleted" <=> runs[r].st = "deleted")
    BY <2>2, <1>3 DEF Terminal
  <2> QED BY <1>3, <2>1, <2>2, <2>3, <2>4, RunsExecuted
<1>4. CASE CheckTrigger(r)
  <2>1. exec[r].pc # "none" /\ At(r, "check") /\ UNCHANGED <<target, cancel, userCanceled>>
    BY <1>4 DEF CheckTrigger, At, schedule
  <2>2. \/ Goto(r, "activate") /\ UNCHANGED runs
        \/ Goto(r, "skipfire") /\ runs' = StatusWritten(r, "canceled")
    BY <1>4 DEF CheckTrigger
  <2> QED BY <2>1, <2>2, <1>2, <1>3 DEF Terminal
<1>5. CASE Activate(r)
  <2>1. exec[r].pc # "none" /\ At(r, "activate") /\ UNCHANGED <<target, cancel, userCanceled>>
    BY <1>5 DEF Activate, At, schedule
  <2>2. \/ Goto(r, "node") /\ UNCHANGED runs
        \/ Goto(r, "account") /\ runs' = StatusWritten(r, "failed")
    BY <1>5 DEF Activate, FailRun
  <2> QED BY <2>1, <2>2, <1>2, <1>3 DEF Terminal
<1>6. CASE ExecuteNode(r)
  <2>1. exec[r].pc # "none" /\ At(r, "node") /\ UNCHANGED <<target, cancel, userCanceled>>
    BY <1>6 DEF ExecuteNode, At, schedule
  <2>2. CASE exec' = [exec EXCEPT ![r].calls = @ + 1] /\ UNCHANGED runs
    <3>1. exec'[r].pc = exec[r].pc /\ \A q \in RunIds \ {r} : exec'[q] = exec[q]
      BY <2>2 DEF TypeOK, Execs
    <3> QED BY <2>1, <2>2, <3>1, RunsExecuted DEF Executing
  <2>3. \/ exec' = [exec EXCEPT ![r].calls = @ + 1] /\ UNCHANGED runs
        \/ Goto(r, "finish") /\ UNCHANGED runs
        \/ Goto(r, "account") /\ runs' = StatusWritten(r, "failed")
    BY <1>6 DEF ExecuteNode, FailRun
  <2> QED BY <2>1, <2>2, <2>3, <1>2, <1>3 DEF Terminal
<1>7. CASE Succeed(r)
  <2>1. exec[r].pc # "none" /\ UNCHANGED <<target, cancel, userCanceled>>
    BY <1>7 DEF Succeed, At, schedule
  <2> QED BY <1>7, <2>1, <1>3 DEF Succeed, Terminal
<1> QED BY <1>1, <1>4, <1>5, <1>6, <1>7 DEF Executor

LEMMA RunsCanceled ==
    ASSUME EngineTypes, RunsInv, NEW r \in RunIds, CancelRead(r) \/ CancelWrite(r)
    PROVE  RunsInv'
<1>1. CASE CancelRead(r)
  <2>1. runs[r].st # "none" /\ cancel' = cancel \cup {r} /\ UNCHANGED <<target, runs, exec, userCanceled>>
    BY <1>1 DEF CancelRead, schedule, InFlight
  <2> QED BY <2>1 DEF RunsInv, Started, RowIsRunning, IndexHolds, RowsOfTarget, OneExecutor, Executing
<1>2. CASE CancelWrite(r)
  <2>1. /\ runs'[r].st = IF runs[r].st = "deleted" THEN "deleted" ELSE "canceled"
        /\ \A q \in RunIds \ {r} : runs'[q] = runs[q]
    BY <1>2, StatusType DEF CancelWrite, EngineTypes, RunStatus, Terminal
  <2>2. /\ r \in cancel /\ cancel' = cancel \ {r} /\ userCanceled' = userCanceled \cup {r}
        /\ UNCHANGED <<target, exec>>
    BY <1>2 DEF CancelWrite, schedule
  <2>3. runs[r].st # "none"
    BY <2>2 DEF RunsInv, Started
  <2>4. Started' /\ RowsOfTarget'
    BY <2>1, <2>2, <2>3 DEF RunsInv, Started, RowsOfTarget
  <2>5. RowIsRunning'
    BY <2>1, <2>2 DEF RunsInv, RowIsRunning, Executing
  <2>6. IndexHolds'
    BY <2>1 DEF RunsInv, IndexHolds, InFlight
  <2>7. OneExecutor'
    BY <2>2 DEF RunsInv, OneExecutor, Executing
  <2> QED BY <2>4, <2>5, <2>6, <2>7 DEF RunsInv
<1> QED BY <1>1, <1>2

LEMMA RunsDeleted ==
    ASSUME EngineTypes, RunsInv, DeleteWorkflow
    PROVE  RunsInv'
<1>1. /\ target' = "none" /\ UNCHANGED <<exec, cancel, userCanceled>>
      /\ \A r \in RunIds : runs'[r].st = IF runs[r].st = "none" THEN "none" ELSE "deleted"
  BY DEF DeleteWorkflow, runState, EngineTypes, TypeOK
<1>3. Started' /\ RowsOfTarget'
  BY <1>1 DEF RunsInv, Started, RowsOfTarget
<1>4. RowIsRunning'
  BY <1>1 DEF RunsInv, RowIsRunning, Executing
<1>5. IndexHolds'
  BY <1>1 DEF IndexHolds, InFlight
<1>6. OneExecutor'
  BY <1>1 DEF RunsInv, OneExecutor, Executing
<1> QED BY <1>3, <1>4, <1>5, <1>6 DEF RunsInv

LEMMA RunsCrashed ==
    ASSUME EngineTypes, RunsInv, NEW p \in Replicas, Crash(p)
    PROVE  RunsInv'
<1>1. /\ UNCHANGED <<target, runs, cancel, userCanceled>>
      /\ \A r \in RunIds : exec'[r] = exec[r] \/ exec'[r].pc = "none"
  BY NoExecType DEF Crash, schedule
<1> QED BY <1>1 DEF RunsInv, Started, RowIsRunning, IndexHolds, RowsOfTarget, OneExecutor, Executing

LEMMA RunsScheduled ==
    ASSUME EngineTypes, RunsInv, NEW p \in Replicas,
           Scheduler(p) \/ Receiver(p) \/ \E k \in Keys : WebhookReceive(p, k)
    PROVE  RunsInv'
<1>1. CASE UNCHANGED <<target, runs, exec, cancel, userCanceled>>
  BY <1>1, RunsFrame
<1>2. ASSUME NEW k \in Keys \cup {NoKey}, target = "workflow", CreateWorkflowRunWithFire(k),
             UNCHANGED <<target, exec, cancel, userCanceled>>
      PROVE  RunsInv'
  BY <1>2, RunCreated, RunsAdded DEF EngineTypes
<1>3. hook[p].key \in Keys \cup {NoKey}
  BY DEF EngineTypes, TypeOK, Hooks
<1>4. ASSUME FireWorkflowTarget(p) PROVE RunsInv'
  BY <1>1, <1>2, <1>4 DEF FireWorkflowTarget, schedule, runState
<1>5. ASSUME WebhookRun(p) PROVE RunsInv'
  BY <1>1, <1>2, <1>3, <1>5 DEF WebhookRun, schedule, runState
<1>6. ASSUME ~FireWorkflowTarget(p), Scheduler(p)
      PROVE  UNCHANGED <<target, runs, exec, cancel, userCanceled>>
  BY <1>6 DEF Scheduler, Tick, FireMissed, FireRoutineTarget, FireGlitch, ListPending, ProcessPending,
              RoutineLeg, RoutineLegFails, AccountTriggerFailure, FireAccounted, schedule, runState
<1>7. ASSUME ~WebhookRun(p), Receiver(p) \/ \E k \in Keys : WebhookReceive(p, k)
      PROVE  UNCHANGED <<target, runs, exec, cancel, userCanceled>>
  BY <1>7 DEF Receiver, RecordWebhookDelivery, WebhookAbsorb, WebhookAccount, WebhookRoutine,
              WebhookError, WebhookReceive, schedule, runState
<1> QED BY <1>1, <1>4, <1>5, <1>6, <1>7

LEMMA InitRuns == Init => RunsInv
<1> SUFFICES ASSUME Init PROVE RunsInv
  OBVIOUS
<1>1. \A r \in RunIds : runs[r].st = "none" /\ exec[r].pc = "none"
  BY NoExecType DEF Init
<1>2. cancel = {} /\ target # "none"
  BY EngineAssumption DEF Init
<1> QED BY <1>1, <1>2
        DEF RunsInv, Started, RowIsRunning, IndexHolds, RowsOfTarget, OneExecutor, Executing, InFlight

LEMMA StepRuns == EngineTypes /\ RunsInv /\ [Next]_vars => RunsInv'
<1> SUFFICES ASSUME EngineTypes, RunsInv, [Next]_vars PROVE RunsInv'
  OBVIOUS
<1>1. CASE UNCHANGED vars \/ ComeDue \/ UpdateTrigger
  <2>1. UNCHANGED <<target, runs, exec, cancel, userCanceled>>
    BY <1>1 DEF vars, ComeDue, UpdateTrigger, schedule, runState
  <2> QED BY <2>1, RunsFrame
<1>2. CASE RunWorkflow
  <2>1. FreeRun \in RunIds /\ runs[FreeRun].st = "none"
    BY <1>2, FreeRunIsFree DEF RunWorkflow, EngineTypes
  <2>2. /\ runs'[FreeRun].st = "queued" /\ \A r \in RunIds \ {FreeRun} : runs'[r] = runs[r]
        /\ UNCHANGED <<target, exec, cancel, userCanceled>>
    BY <1>2, <2>1 DEF RunWorkflow, EngineTypes, TypeOK, schedule, runState
  <2> QED BY <1>2, <2>1, <2>2, RunsAdded DEF RunWorkflow
<1> QED BY <1>1, <1>2, RunsClaimed, RunsExecutor, RunsCanceled, RunsDeleted, RunsCrashed, RunsScheduled
        DEF Next

(* Single-in-flight holds of what executes in the pods (executeRun,        *)
(* engine.go): however many replicas claim, whichever of them die and      *)
(* whatever the owner deletes, two runs are executed at the same time only *)
(* if a user's cancel took one of them out of the unique index.            *)
THEOREM RunsExecuteOneByOne == Spec => []OneExecutor
<1>1. EngineTypes /\ RunsInv => OneExecutor
  BY DEF RunsInv
<1> QED BY <1>1, InitTypes, StepTypes, InitRuns, StepRuns, PTL DEF Spec

-----------------------------------------------------------------------------
(* Webhook deliveries *)

(* What a step does to the keys of the recorded fires.                     *)
KeysKept ==
    /\ Len(fires') = Len(fires)
    /\ \A f \in 1..Len(fires) : fires'[f].key = fires[f].key

KeyAdded(k) ==
    /\ Len(fires') = Len(fires) + 1
    /\ \A f \in 1..Len(fires) : fires'[f].key = fires[f].key
    /\ fires'[Len(fires) + 1].key = k

LEMMA FiredKeysStep ==
    ASSUME TypeOK, NEW k
    PROVE  /\ KeysKept => FiredKeys' = FiredKeys
           /\ KeyAdded(k) => FiredKeys' = FiredKeys \cup {k}
<1>1. Len(fires) \in Nat
  BY LenProperties DEF TypeOK
<1>2. ASSUME KeysKept PROVE FiredKeys' = FiredKeys
  BY <1>2 DEF KeysKept, FiredKeys
<1>3. ASSUME KeyAdded(k) PROVE FiredKeys' = FiredKeys \cup {k}
  <2>1. \A f : f \in 1..(Len(fires) + 1) <=> f \in 1..Len(fires) \/ f = Len(fires) + 1
    BY <1>1
  <2> QED BY <1>3, <2>1 DEF KeyAdded, FiredKeys
<1> QED BY <1>2, <1>3

(* The fires that no webhook made have no key, and the others are first    *)
(* recorded by the delivery table.                                         *)
LEMMA FireKeysStep ==
    ASSUME TypeOK, FireKeys, dedup \subseteq dedup', NEW k,
           \/ KeysKept
           \/ KeyAdded(k) /\ (k \in Keys => k \in dedup' /\ k \notin FiredKeys)
    PROVE  FireKeys'
<1>1. Len(fires) \in Nat
  BY LenProperties DEF TypeOK
<1>2. CASE KeysKept
  BY <1>2 DEF KeysKept, FireKeys
<1>3. CASE KeyAdded(k) /\ (k \in Keys => k \in dedup' /\ k \notin FiredKeys)
  <2>1. \A f : f \in 1..(Len(fires) + 1) <=> f \in 1..Len(fires) \/ f = Len(fires) + 1
    BY <1>1
  <2>2. \A f \in 1..Len(fires)' : fires'[f].key \in Keys => fires'[f].key \in dedup'
    BY <1>3, <2>1 DEF KeyAdded, FireKeys
  <2>3. ASSUME NEW f \in 1..Len(fires)', NEW g \in 1..Len(fires)',
               fires'[f].key \in Keys, fires'[f].key = fires'[g].key
        PROVE  f = g
    <3>1. \A h \in 1..Len(fires) : fires'[h].key = k => k \notin Keys
      BY <1>3 DEF KeyAdded, FiredKeys
    <3> QED BY <1>3, <2>1, <2>3, <3>1 DEF KeyAdded, FireKeys
  <2> QED BY <2>2, <2>3 DEF FireKeys
<1> QED BY <1>2, <1>3

(* A step that is not the receiver's.                                      *)
LEMMA KeysFrame ==
    ASSUME TypeOK, KeysInv, UNCHANGED hookState, target' = "routine" => target = "routine",
           KeysKept \/ KeyAdded(NoKey)
    PROVE  KeysInv'
<1>1. UNCHANGED <<hook, dedup, answers>>
  BY DEF hookState
<1>2. FiredKeys' = FiredKeys \/ FiredKeys' = FiredKeys \cup {NoKey}
  BY FiredKeysStep
<1>3. FireKeys'
  BY <1>1, FireKeysStep, Bounds DEF KeysInv
<1>4. \A p \in Replicas : hook[p].pc = "fire" => hook[p].key \in Keys
  BY DEF KeysInv, HookOwnsKey, TypeOK
<1>6. HookOwnsKey'
  BY <1>1, <1>2, <1>4, Bounds DEF KeysInv, HookOwnsKey
<1>7. AnswersFired'
  BY <1>1, <1>2, Bounds DEF KeysInv, AnswersFired
<1> QED BY <1>3, <1>6, <1>7 DEF KeysInv

LEMMA OtherKeys ==
    ASSUME EngineTypes, Next, ~(\E p \in Replicas : Receiver(p) \/ Crash(p)
                                   \/ \E k \in Keys : WebhookReceive(p, k))
    PROVE  /\ UNCHANGED hookState /\ (target' = "routine" => target = "routine")
           /\ KeysKept \/ KeyAdded(NoKey)
<1> USE DEF EngineTypes
<1>0. ASSUME UNCHANGED fires PROVE KeysKept
  BY <1>0 DEF KeysKept
<1>1. ASSUME NEW f, NEW status \in FireStatus, FireResult(f, status) PROVE KeysKept
  BY <1>1, FireUpdated DEF KeysKept
<1>2. ASSUME NEW act \in {"run_workflow", "routine"}, NEW status \in FireStatus,
             CreateTriggerFire(act, status, NoKey)
      PROVE  KeyAdded(NoKey)
  BY <1>2, FireCreated DEF KeyAdded
<1>3. ASSUME CreateWorkflowRunWithFire(NoKey) PROVE KeyAdded(NoKey)
  BY <1>3, RunCreated DEF KeyAdded
<1>4. CASE RunWorkflow \/ ComeDue \/ UpdateTrigger \/ DeleteWorkflow
  BY <1>0, <1>4 DEF RunWorkflow, ComeDue, UpdateTrigger, DeleteWorkflow, schedule, hookState
<1>5. CASE \E r \in RunIds : CancelRead(r) \/ CancelWrite(r)
  BY <1>0, <1>5 DEF CancelRead, CancelWrite, schedule
<1>6. CASE \E r \in RunIds : \E p \in Replicas : ClaimQueuedRuns(p, r)
  BY <1>0, <1>6 DEF ClaimQueuedRuns, schedule
<1>7. ASSUME NEW r \in RunIds, Executor(r)
      PROVE  UNCHANGED <<hookState, target>> /\ KeysKept
  <2>1. CASE SkipFire(r)
    BY <1>1, <2>1 DEF SkipFire, FireStatus, schedule
  <2>2. CASE ~SkipFire(r)
    BY <1>0, <1>7, <2>2 DEF Executor, CheckTrigger, Activate, ExecuteNode, Succeed, RunAccounted, schedule
  <2> QED BY <2>1, <2>2
<1>8. ASSUME NEW p \in Replicas, Scheduler(p)
      PROVE  UNCHANGED <<hookState, target>> /\ (KeysKept \/ KeyAdded(NoKey))
  <2>1. CASE FireMissed(p)
    BY <1>2, <2>1 DEF FireMissed, FireStatus, schedule
  <2>2. CASE FireWorkflowTarget(p)
    BY <1>2, <1>3, <2>2 DEF FireWorkflowTarget, FireStatus, schedule
  <2>3. CASE FireRoutineTarget(p)
    BY <1>2, <2>3 DEF FireRoutineTarget, FireStatus, schedule
  <2>4. CASE ProcessPending(p)
    BY <1>0, <1>1, <2>4 DEF ProcessPending, FireStatus, schedule
  <2>5. CASE RoutineLeg(p) \/ RoutineLegFails(p)
    BY <1>0, <1>1, <2>5 DEF RoutineLeg, RoutineLegFails, FireStatus, schedule
  <2>6. CASE Tick(p) \/ FireGlitch(p) \/ ListPending(p) \/ AccountTriggerFailure(p) \/ FireAccounted(p)
    BY <1>0, <2>6 DEF Tick, FireGlitch, ListPending, AccountTriggerFailure, FireAccounted, schedule
  <2> QED BY <1>8, <2>1, <2>2, <2>3, <2>4, <2>5, <2>6 DEF Scheduler
<1> QED BY <1>4, <1>5, <1>6, <1>7, <1>8 DEF Next

(* The receiver records a fire for its key and answers, or accounts it.    *)
LEMMA KeyFired ==
    ASSUME EngineTypes, KeysInv, NEW p \in Replicas, hook[p].pc = "fire",
           KeyAdded(hook[p].key), UNCHANGED dedup, target' = target,
           \A q \in Replicas \ {p} : hook'[q] = hook[q],
           \A k \in Keys \ {hook[p].key} : answers'[k] = answers[k],
           \/ hook'[p].pc = "idle"
           \/ hook'[p].pc = "account" /\ hook'[p].key = hook[p].key /\ target # "routine"
    PROVE  KeysInv'
<1>1. hook[p].key \in Keys /\ hook[p].key \in dedup /\ hook[p].key \notin FiredKeys
  BY DEF EngineTypes, HookHasKey, KeysInv, HookOwnsKey
<1>2. FiredKeys' = FiredKeys \cup {hook[p].key}
  BY FiredKeysStep DEF EngineTypes
<1>3. FireKeys'
  BY <1>1, FireKeysStep DEF EngineTypes, KeysInv
<1>4. HookOwnsKey'
  BY <1>1, <1>2 DEF KeysInv, HookOwnsKey
<1>5. AnswersFired'
  BY <1>1, <1>2 DEF KeysInv, AnswersFired
<1> QED BY <1>3, <1>4, <1>5 DEF KeysInv

(* A request ends or changes its place without touching the fires.         *)
LEMMA KeyKept ==
    ASSUME EngineTypes, KeysInv, NEW p \in Replicas, UNCHANGED <<fires, dedup, target>>,
           \A q \in Replicas \ {p} : hook'[q] = hook[q],
           \/ hook'[p].pc \in {"idle", "dedup"}
           \/ hook[p].pc = "account" /\ hook'[p].pc = "disable" /\ hook'[p].key = hook[p].key,
           \A k \in Keys : answers'[k] = answers[k] \/ k \in FiredKeys
                              \/ answers'[k] \cap {"fired", "skipped", "conflict"}
                                   = answers[k] \cap {"fired", "skipped", "conflict"}
    PROVE  KeysInv'
<1>1. FiredKeys' = FiredKeys
  BY DEF FiredKeys
<1>2. FireKeys'
  BY DEF KeysInv, FireKeys
<1>3. HookOwnsKey'
  BY <1>1 DEF KeysInv, HookOwnsKey
<1>4. AnswersFired'
  BY <1>1 DEF KeysInv, AnswersFired
<1> QED BY <1>2, <1>3, <1>4 DEF KeysInv

LEMMA KeysReceived ==
    ASSUME EngineTypes, KeysInv, NEW p \in Replicas,
           Receiver(p) \/ \E k \in Keys : WebhookReceive(p, k)
    PROVE  KeysInv'
<1>0. /\ hook \in [Replicas -> Hooks] /\ hook[p].key \in Keys \cup {NoKey} /\ hook[p] \in Hooks
      /\ answers \in [Keys -> SUBSET Answers]
  BY DEF EngineTypes, TypeOK, Hooks
<1>1. ASSUME NEW a, HookDone(p, a)
      PROVE  /\ hook'[p].pc = "idle" /\ \A q \in Replicas \ {p} : hook'[q] = hook[q]
             /\ \A k \in Keys \ {hook[p].key} : answers'[k] = answers[k]
             /\ \A k \in Keys : answers'[k] = answers[k] \/ answers'[k] = answers[k] \cup {a}
  <2>1. IdleHook.pc = "idle"
    BY DEF IdleHook
  <2> QED BY <1>0, <1>1, <2>1 DEF HookDone
<1>2. ASSUME NEW pc, hook' = [hook EXCEPT ![p].pc = pc]
      PROVE  /\ hook'[p].pc = pc /\ hook'[p].key = hook[p].key /\ \A q \in Replicas \ {p} : hook'[q] = hook[q]
  <2>1. hook' = [hook EXCEPT ![p] = [hook[p] EXCEPT !.pc = pc]]
    BY <1>0, <1>2
  <2>2. [hook[p] EXCEPT !.pc = pc].pc = pc /\ [hook[p] EXCEPT !.pc = pc].key = hook[p].key
    BY <1>0 DEF Hooks
  <2> QED BY <1>0, <2>1, <2>2
<1>3. ASSUME NEW act \in {"run_workflow", "routine"}, NEW status \in FireStatus,
             CreateTriggerFire(act, status, hook[p].key)
      PROVE  KeyAdded(hook[p].key)
  BY <1>0, <1>3, FireCreated DEF KeyAdded, EngineTypes
<1>4. CASE \E k \in Keys : WebhookReceive(p, k)
  <2>1. PICK k \in Keys : WebhookReceive(p, k)
    BY <1>4
  <2>2. hook'[p].pc = "dedup" /\ \A q \in Replicas \ {p} : hook'[q] = hook[q]
    BY <1>0, <2>1 DEF WebhookReceive
  <2> QED BY <2>1, <2>2, KeyKept DEF WebhookReceive, schedule
<1>5. CASE RecordWebhookDelivery(p)
  <2>1. CASE hook[p].key \in dedup
    <3>1. HookDone(p, "duplicate") /\ UNCHANGED <<fires, dedup, target>>
      BY <1>5, <2>1 DEF RecordWebhookDelivery, schedule
    <3>2. \A k \in Keys : answers'[k] \cap {"fired", "skipped", "conflict"}
                            = answers[k] \cap {"fired", "skipped", "conflict"}
      BY <1>1, <3>1
    <3> QED BY <1>1, <3>1, <3>2, KeyKept
  <2>2. CASE hook[p].key \notin dedup
    <3>1. /\ hook[p].pc = "dedup" /\ dedup' = dedup \cup {hook[p].key} /\ UNCHANGED <<fires, target, answers>>
          /\ hook' = [hook EXCEPT ![p].pc = "fire"]
      BY <1>5, <2>2 DEF RecordWebhookDelivery, schedule
    <3>2. hook'[p].pc = "fire" /\ hook'[p].key = hook[p].key /\ \A q \in Replicas \ {p} : hook'[q] = hook[q]
      BY <1>2, <3>1
    <3>3. FiredKeys' = FiredKeys
      BY <3>1 DEF FiredKeys
    <3>4. hook[p].key \in Keys
      BY <3>1 DEF EngineTypes, HookHasKey
    <3>5. hook[p].key \notin FiredKeys
      BY <2>2, <3>4 DEF KeysInv, FireKeys, FiredKeys
    <3>6. HookOwnsKey'
      BY <2>2, <3>1, <3>2, <3>3, <3>5 DEF KeysInv, HookOwnsKey
    <3>7. FireKeys'
      BY <3>1 DEF KeysInv, FireKeys
    <3>8. AnswersFired'
      BY <3>1, <3>3 DEF KeysInv, AnswersFired
    <3> QED BY <3>6, <3>7, <3>8 DEF KeysInv
  <2> QED BY <2>1, <2>2
<1>6. CASE WebhookAbsorb(p)
  <2>1. /\ hook[p].pc = "fire" /\ KeyAdded(hook[p].key) /\ HookDone(p, "skipped")
        /\ UNCHANGED <<dedup, target>>
    BY <1>3, <1>6 DEF WebhookAbsorb, FireStatus, schedule
  <2> QED BY <1>1, <2>1, KeyFired
<1>7. CASE WebhookRoutine(p)
  <2>1. /\ hook[p].pc = "fire" /\ KeyAdded(hook[p].key) /\ HookDone(p, "fired")
        /\ UNCHANGED <<dedup, target>>
    BY <1>3, <1>7 DEF WebhookRoutine, FireStatus, schedule
  <2> QED BY <1>1, <2>1, KeyFired
<1>8. CASE WebhookRun(p)
  <2>1. hook[p].pc = "fire" /\ target = "workflow" /\ UNCHANGED <<dedup, target>>
    BY <1>8 DEF WebhookRun, schedule
  <2>2. CASE CreateWorkflowRunWithFire(hook[p].key) /\ HookDone(p, "fired")
    <3>1. KeyAdded(hook[p].key)
      BY <1>0, <2>2, RunCreated DEF KeyAdded, EngineTypes
    <3> QED BY <1>1, <2>1, <2>2, <3>1, KeyFired
  <2>3. CASE CreateTriggerFire("run_workflow", "skipped", hook[p].key) /\ HookDone(p, "conflict")
    <3>1. KeyAdded(hook[p].key)
      BY <1>3, <2>3 DEF FireStatus
    <3> QED BY <1>1, <2>1, <2>3, <3>1, KeyFired
  <2>4. CASE /\ CreateTriggerFire("run_workflow", "validation_error", hook[p].key)
             /\ hook' = [hook EXCEPT ![p].pc = "account"] /\ UNCHANGED answers
    <3>1. KeyAdded(hook[p].key)
      BY <1>3, <2>4 DEF FireStatus
    <3>2. hook'[p].pc = "account" /\ hook'[p].key = hook[p].key /\ \A q \in Replicas \ {p} : hook'[q] = hook[q]
      BY <1>2, <2>4
    <3> QED BY <2>1, <2>4, <3>1, <3>2, KeyFired
  <2> QED BY <1>8, <2>2, <2>3, <2>4 DEF WebhookRun
<1>9. CASE WebhookAccount(p)
  <2>1. UNCHANGED <<fires, dedup, target>> /\ hook[p].pc \in {"account", "disable"}
    BY <1>9 DEF WebhookAccount, schedule
  <2>2. hook[p].key \in FiredKeys
    BY <2>1 DEF KeysInv, HookOwnsKey
  <2>3. CASE HookDone(p, "fired")
    BY <1>1, <2>1, <2>2, <2>3, KeyKept
  <2>4. CASE hook[p].pc = "account" /\ hook' = [hook EXCEPT ![p].pc = "disable"] /\ UNCHANGED answers
    <3>1. hook'[p].pc = "disable" /\ hook'[p].key = hook[p].key /\ \A q \in Replicas \ {p} : hook'[q] = hook[q]
      BY <1>2, <2>4
    <3> QED BY <2>1, <2>4, <3>1, KeyKept
  <2> QED BY <1>9, <2>3, <2>4 DEF WebhookAccount
<1>10. CASE WebhookError(p)
  <2>1. HookDone(p, "error") /\ UNCHANGED <<fires, dedup, target>>
    BY <1>10 DEF WebhookError, schedule
  <2>2. \A k \in Keys : answers'[k] \cap {"fired", "skipped", "conflict"}
                          = answers[k] \cap {"fired", "skipped", "conflict"}
    BY <1>1, <2>1
  <2> QED BY <1>1, <2>1, <2>2, KeyKept
<1> QED BY <1>4, <1>5, <1>6, <1>7, <1>8, <1>9, <1>10 DEF Receiver

LEMMA InitKeys == Init => KeysInv
<1> SUFFICES ASSUME Init PROVE KeysInv
  OBVIOUS
<1>1. Len(fires) = 0 /\ 1..Len(fires) = {}
  BY EmptySeq DEF Init
<1>2. \A p \in Replicas : hook[p].pc = "idle"
  BY DEF Init, IdleHook
<1>3. \A k \in Keys : answers[k] = {}
  BY DEF Init
<1> QED BY <1>1, <1>2, <1>3 DEF KeysInv, HookOwnsKey, FireKeys, AnswersFired

LEMMA StepKeys == EngineTypes /\ KeysInv /\ [Next]_vars => KeysInv'
<1> SUFFICES ASSUME EngineTypes, KeysInv, [Next]_vars PROVE KeysInv'
  OBVIOUS
<1>1. CASE UNCHANGED vars
  <2>1. UNCHANGED hookState /\ KeysKept /\ target' = target
    BY <1>1 DEF vars, hookState, KeysKept
  <2> QED BY <2>1, KeysFrame DEF EngineTypes
<1>2. ASSUME NEW p \in Replicas, Crash(p) PROVE KeysInv'
  <2>1. /\ hook'[p].pc = "idle" /\ \A q \in Replicas \ {p} : hook'[q] = hook[q]
        /\ UNCHANGED <<fires, dedup, target, answers>>
    BY <1>2 DEF Crash, EngineTypes, TypeOK, IdleHook, schedule
  <2> QED BY <2>1, KeyKept
<1>3. ASSUME Next, ~(\E p \in Replicas : Receiver(p) \/ Crash(p) \/ \E k \in Keys : WebhookReceive(p, k))
      PROVE  KeysInv'
  BY <1>3, OtherKeys, KeysFrame DEF EngineTypes
<1> QED BY <1>1, <1>2, <1>3, KeysReceived

(* A webhook delivery is fired at most once (HandleWebhook, with the       *)
(* delivery table's primary key between the replicas), and an answer that  *)
(* says it was taken is backed by a fire in the audit.                     *)
THEOREM DeliveriesFireOnce == Spec => []KeyFiredOnce
<1>1. ASSUME EngineTypes, KeysInv PROVE KeyFiredOnce
  <2> SUFFICES ASSUME NEW k \in Keys
               PROVE  /\ Cardinality({f \in DOMAIN fires : fires[f].key = k}) <= 1
                      /\ answers[k] \cap {"fired", "skipped", "conflict"} # {}
                            => {f \in DOMAIN fires : fires[f].key = k} # {}
    BY DEF KeyFiredOnce
  <2> DEFINE F == {f \in DOMAIN fires : fires[f].key = k}
  <2>1. DOMAIN fires = 1..Len(fires)
    BY <1>1, LenProperties DEF EngineTypes, TypeOK
  <2>2. answers[k] \cap {"fired", "skipped", "conflict"} # {} => F # {}
    BY <1>1, <2>1 DEF KeysInv, AnswersFired, FiredKeys
  <2>3. \A f, g \in F : f = g
    BY <1>1, <2>1 DEF KeysInv, FireKeys
  <2>4. Cardinality(F) <= 1
    <3>1. CASE F = {}
      BY <3>1, FS_EmptySet
    <3>2. CASE F # {}
      <4>1. PICK f \in F : TRUE
        BY <3>2
      <4>2. F = {f}
        BY <4>1, <2>3
      <4>3. Cardinality({f}) = 1
        BY FS_Singleton, Zenon
      <4>4. Cardinality(F) = 1
        BY <4>2, <4>3
      <4> QED BY <4>4
    <3> QED BY <3>1, <3>2
  <2> QED BY <2>2, <2>4
<1> QED BY <1>1, InitTypes, StepTypes, InitKeys, StepKeys, PTL DEF Spec

-----------------------------------------------------------------------------
(* The circuit breaker *)

LEMMA ReplicaCount ==
    ASSUME NEW A \in SUBSET Replicas, NEW D \in SUBSET Replicas, A \cap D = {}
    PROVE  /\ IsFiniteSet(A) /\ Cardinality(A) \in Nat
           /\ IsFiniteSet(D) /\ Cardinality(D) \in Nat
           /\ Cardinality(Replicas) \in Nat
           /\ Cardinality(A) + Cardinality(D) <= Cardinality(Replicas)
<1>1. IsFiniteSet(Replicas)
  BY EngineAssumption
<1>2. /\ IsFiniteSet(A) /\ Cardinality(A) \in Nat
      /\ IsFiniteSet(D) /\ Cardinality(D) \in Nat
      /\ Cardinality(Replicas) \in Nat
  BY <1>1, FS_Subset, FS_CardinalityType
<1>3. Cardinality(A \cup D) = Cardinality(A) + Cardinality(D) - Cardinality(A \cap D)
  BY <1>2, FS_Union
<1>4. Cardinality(A \cap D) = 0
  BY FS_EmptySet
<1>5. A \cup D \in SUBSET Replicas
  OBVIOUS
<1>6. Cardinality(A \cup D) <= Cardinality(Replicas)
  BY <1>1, <1>5, FS_Subset
<1> QED BY <1>2, <1>3, <1>4, <1>6

LEMMA BreakerSets ==
    /\ MayCount \in SUBSET Replicas /\ Disabling \in SUBSET Replicas /\ MayCount \cap Disabling = {}
    /\ MayCount' \in SUBSET Replicas /\ Disabling' \in SUBSET Replicas /\ MayCount' \cap Disabling' = {}
BY DEF MayCount, Disabling

LEMMA BreakerCounts ==
    /\ Cardinality(MayCount) \in Nat /\ Cardinality(Disabling) \in Nat
    /\ Cardinality(MayCount)' \in Nat /\ Cardinality(Disabling)' \in Nat
    /\ Cardinality(Replicas) \in Nat
    /\ Cardinality(MayCount) + Cardinality(Disabling) <= Cardinality(Replicas)
    /\ Cardinality(MayCount)' + Cardinality(Disabling)' <= Cardinality(Replicas)
    /\ IsFiniteSet(MayCount) /\ IsFiniteSet(Disabling)
    /\ IsFiniteSet(MayCount') /\ IsFiniteSet(Disabling')
BY BreakerSets, ReplicaCount

(* No scheduler becomes one that may count, and none that was about to     *)
(* disable the trigger forgets to.                                         *)
LEMMA BreakerFrame ==
    ASSUME TypeOK, BreakerInv, UNCHANGED <<trig, crashes>>, target' = "routine" => target = "routine",
           MayCount' \subseteq MayCount, Disabling \subseteq Disabling'
    PROVE  BreakerInv'
<1>1. Cardinality(MayCount)' <= Cardinality(MayCount) /\ Cardinality(Disabling) <= Cardinality(Disabling)'
  BY BreakerCounts, FS_Subset
<1>2. trig.failures \in Nat /\ crashes \in Nat
  BY DEF TypeOK
<1> QED BY <1>1, <1>2, BreakerCounts, Bounds DEF BreakerInv

(* A scheduler takes up a fire because it sees the trigger enabled.        *)
LEMMA BreakerEnter ==
    ASSUME TypeOK, BreakerInv, UNCHANGED <<trig, crashes, target>>, trig.enabled,
           Disabling \subseteq Disabling'
    PROVE  BreakerInv'
<1>1. Cardinality(Disabling) <= Cardinality(Disabling)'
  BY BreakerCounts, FS_Subset
<1>2. trig.failures \in Nat /\ crashes \in Nat
  BY DEF TypeOK
<1> QED BY <1>1, <1>2, BreakerCounts, Bounds DEF BreakerInv

(* A move of one scheduler, seen by the two sets.                          *)
LEMMA BreakerMove ==
    ASSUME NEW p \in Replicas, \A q \in Replicas \ {p} : sched'[q] = sched[q]
    PROVE  /\ sched[p].pc \in {"fire", "leg", "account"} \/ sched'[p].pc \notin {"fire", "leg", "account"}
                => MayCount' \subseteq MayCount
           /\ sched[p].pc # "disable" => Disabling \subseteq Disabling'
           /\ sched[p].pc \in {"fire", "leg", "account"} /\ sched'[p].pc = "disable" =>
                MayCount' = MayCount \ {p} /\ Disabling' = Disabling \cup {p}
                /\ p \in MayCount /\ p \notin Disabling
           /\ Disabling \ {p} \subseteq Disabling'
BY DEF MayCount, Disabling

(* The count goes up: the scheduler that counted is now about to disable   *)
(* the trigger, once the count has reached the threshold.                  *)
LEMMA BreakerCount ==
    ASSUME EngineTypes, BreakerInv, NEW p \in Replicas, AccountTriggerFailure(p)
    PROVE  BreakerInv'
<1>1. /\ trig'.failures = trig.failures + 1 /\ trig'.enabled = trig.enabled
      /\ trig.failures \in Nat /\ crashes \in Nat
      /\ UNCHANGED <<target, crashes>> /\ sched[p].pc = "account"
  BY DEF AccountTriggerFailure, IncrementTriggerFailures, EngineTypes, TypeOK, schedule, bounds, deaths
<1>2. CASE trig.failures + 1 < AutoDisableAfter
  BY <1>1, <1>2, Bounds DEF BreakerInv
<1>3. CASE trig.failures + 1 >= AutoDisableAfter
  <2>1. sched' = [sched EXCEPT ![p] = [sched[p] EXCEPT !.pc = "disable"]]
    BY <1>3 DEF AccountTriggerFailure
  <2>2. sched'[p].pc = "disable" /\ \A q \in Replicas \ {p} : sched'[q] = sched[q]
    BY <2>1 DEF EngineTypes, TypeOK, Scheds
  <2>3. MayCount' = MayCount \ {p} /\ Disabling' = Disabling \cup {p} /\ p \in MayCount /\ p \notin Disabling
    BY <1>1, <2>2, BreakerMove
  <2>4. Cardinality(MayCount)' = Cardinality(MayCount) - 1
    BY <2>3, BreakerCounts, FS_RemoveElement
  <2>5. Cardinality(Disabling)' = Cardinality(Disabling) + 1
    BY <2>3, BreakerCounts, FS_AddElement
  <2> QED BY <1>1, <1>3, <2>4, <2>5, BreakerCounts, Bounds DEF BreakerInv
<1> QED BY <1>1, <1>2, <1>3, Bounds

LEMMA BreakerScheduled ==
    ASSUME EngineTypes, BreakerInv, NEW p \in Replicas, Scheduler(p)
    PROVE  BreakerInv'
<1> USE DEF EngineTypes
<1>0. sched \in [Replicas -> Scheds] /\ sched[p] \in Scheds
  BY DEF TypeOK
<1>1. ASSUME NEW pc, SchedGoto(p, pc)
      PROVE  sched'[p].pc = pc /\ \A q \in Replicas \ {p} : sched'[q] = sched[q]
  BY <1>0, <1>1 DEF SchedGoto, Scheds
<1>2. ASSUME UNCHANGED <<trig, crashes, target>>, \A q \in Replicas \ {p} : sched'[q] = sched[q],
             sched[p].pc # "disable",
             sched[p].pc \in {"fire", "leg", "account"} \/ sched'[p].pc \notin {"fire", "leg", "account"}
      PROVE  BreakerInv'
  BY <1>2, BreakerMove, BreakerFrame
<1>3. ASSUME UNCHANGED <<trig, crashes, target>>, \A q \in Replicas \ {p} : sched'[q] = sched[q],
             sched[p].pc # "disable", trig.enabled
      PROVE  BreakerInv'
  BY <1>3, BreakerMove, BreakerEnter
<1>4. CASE Tick(p)
  <2>1. UNCHANGED <<trig, crashes, target>> /\ sched[p].pc = "idle"
    BY <1>4 DEF Tick, bounds, deaths
  <2>2. \A q \in Replicas \ {p} : sched'[q] = sched[q]
    BY <1>0, <1>4 DEF Tick
  <2>3. CASE trig.enabled
    BY <2>1, <2>2, <2>3, <1>3
  <2>4. CASE ~trig.enabled
    <3>1. sched'[p] = Drain(ListPendingRoutineFires)
      BY <1>0, <1>4, <2>4 DEF Tick
    <3>2. sched'[p].pc \in {"idle", "drain"}
      BY <3>1, PendingType, DrainType
    <3> QED BY <2>1, <2>2, <3>2, <1>2
  <2> QED BY <2>3, <2>4
<1>5. CASE FireMissed(p) \/ FireGlitch(p)
  BY <1>1, <1>2, <1>5 DEF FireMissed, FireGlitch, schedule, bounds, deaths
<1>6. CASE FireWorkflowTarget(p)
  BY <1>1, <1>2, <1>6 DEF FireWorkflowTarget, schedule, bounds, deaths
<1>7. CASE FireRoutineTarget(p)
  <2>1. sched[p].pc = "fire" /\ UNCHANGED <<trig, crashes, target>>
    BY <1>7 DEF FireRoutineTarget, schedule, bounds, deaths
  <2>2. \A q \in Replicas \ {p} : sched'[q] = sched[q]
    BY <1>0, <1>1, <1>7 DEF FireRoutineTarget
  <2> QED BY <2>1, <2>2, <1>2
<1>8. CASE ListPending(p)
  <2>1. sched'[p] = Drain(ListPendingRoutineFires) /\ \A q \in Replicas \ {p} : sched'[q] = sched[q]
    BY <1>0, <1>8 DEF ListPending
  <2>2. sched'[p].pc \in {"idle", "drain"}
    BY <2>1, PendingType, DrainType
  <2> QED BY <1>2, <1>8, <2>1, <2>2 DEF ListPending, schedule, bounds, deaths
<1>9. CASE ProcessPending(p)
  <2>1. sched[p].pc = "drain" /\ UNCHANGED <<trig, crashes, target>>
    BY <1>9 DEF ProcessPending, schedule, deaths
  <2>2. \A q \in Replicas \ {p} : sched'[q] = sched[q]
    BY <1>0, <1>9 DEF ProcessPending
  <2>3. CASE trig.enabled
    BY <2>1, <2>2, <2>3, <1>3
  <2>4. CASE ~trig.enabled
    <3>1. sched'[p] = Drain(sched[p].todo \ {Min(sched[p].todo)})
      BY <1>0, <1>9, <2>4 DEF ProcessPending
    <3>2. sched[p].todo \ {Min(sched[p].todo)} \in SUBSET (1..MaxFires)
      BY <1>0 DEF Scheds
    <3>3. sched'[p].pc \in {"idle", "drain"}
      BY <3>1, <3>2, DrainType
    <3> QED BY <2>1, <2>2, <3>3, <1>2
  <2> QED BY <2>3, <2>4
<1>10. CASE RoutineLeg(p) \/ RoutineLegFails(p)
  <2>1. sched[p].pc = "leg" /\ UNCHANGED <<trig, crashes, target>>
    BY <1>10 DEF RoutineLeg, RoutineLegFails, schedule, bounds, deaths
  <2>2. \A q \in Replicas \ {p} : sched'[q] = sched[q]
    BY <1>0, <1>10 DEF RoutineLeg, RoutineLegFails, SchedGoto
  <2> QED BY <2>1, <2>2, <1>2
<1>11. CASE FireAccounted(p)
  <2>1. /\ sched'[p] = AfterFire(p) /\ \A q \in Replicas \ {p} : sched'[q] = sched[q]
        /\ UNCHANGED <<crashes, target>>
    BY <1>0, <1>11 DEF FireAccounted, schedule, bounds, deaths
  <2>2. sched'[p].pc \in {"idle", "list", "drain"}
    BY <2>1, AfterFireType
  <2>3. CASE sched[p].pc = "next" /\ UNCHANGED trig
    BY <2>1, <2>2, <2>3, <1>2
  <2>4. CASE sched[p].pc = "reset" /\ ResetTriggerFailures
    <3>1. trig'.failures = 0
      BY <2>4 DEF ResetTriggerFailures, TypeOK
    <3> QED BY <3>1, Bounds DEF BreakerInv
  <2>5. CASE sched[p].pc = "disable" /\ DisableTrigger
    <3>1. trig'.failures = trig.failures /\ ~trig'.enabled /\ trig.failures \in Nat /\ crashes \in Nat
      BY <2>5 DEF DisableTrigger, TypeOK
    <3>2. MayCount' \subseteq MayCount
      BY <2>1, <2>2, BreakerMove
    <3>3. Cardinality(MayCount)' <= Cardinality(MayCount)
      BY <3>2, BreakerCounts, FS_Subset
    <3> QED BY <2>1, <3>1, <3>3, BreakerCounts, Bounds DEF BreakerInv
  <2> QED BY <1>11, <2>3, <2>4, <2>5 DEF FireAccounted
<1> QED BY <1>4, <1>5, <1>6, <1>7, <1>8, <1>9, <1>10, <1>11, BreakerCount DEF Scheduler

LEMMA BreakerCrashed ==
    ASSUME EngineTypes, BreakerInv, NEW p \in Replicas, Crash(p)
    PROVE  BreakerInv'
<1>1. /\ crashes' = crashes + 1 /\ UNCHANGED <<trig, target>>
      /\ sched'[p].pc = "idle" /\ \A q \in Replicas \ {p} : sched'[q] = sched[q]
      /\ trig.failures \in Nat /\ crashes \in Nat
  BY DEF Crash, EngineTypes, TypeOK, IdleSched, schedule
<1>2. MayCount' \subseteq MayCount /\ Disabling \ {p} \subseteq Disabling'
  BY <1>1, BreakerMove
<1>3. Cardinality(MayCount)' <= Cardinality(MayCount)
  BY <1>2, BreakerCounts, FS_Subset
<1>4. Cardinality(Disabling) <= Cardinality(Disabling)' + 1
  <2>1. Cardinality(Disabling \ {p}) <= Cardinality(Disabling)'
    BY <1>2, BreakerCounts, FS_Subset
  <2>2. Cardinality(Disabling \ {p}) \in {Cardinality(Disabling), Cardinality(Disabling) - 1}
    BY BreakerCounts, FS_RemoveElement
  <2> QED BY <2>1, <2>2, BreakerCounts
<1> QED BY <1>1, <1>3, <1>4, BreakerCounts, Bounds DEF BreakerInv

(* A routine trigger has no run that could count a failure, and its        *)
(* receiver validates no input.                                            *)
LEMMA OthersDoNotCount ==
    ASSUME EngineTypes, RunsInv, KeysInv, Next, target' = "routine",
           ~UpdateTrigger, ~(\E p \in Replicas : Scheduler(p) \/ Crash(p))
    PROVE  UNCHANGED <<trig, crashes, target, sched>>
<1>1. target = "routine" \/ target' # "routine"
  BY DEF Next, RunWorkflow, ComeDue, UpdateTrigger, DeleteWorkflow, CancelRead, CancelWrite,
     Executor, CheckTrigger, SkipFire, Activate, ExecuteNode, Succeed, RunAccounted, ClaimQueuedRuns,
     Receiver, RecordWebhookDelivery, WebhookAbsorb, WebhookRun, WebhookAccount, WebhookRoutine, WebhookError,
     WebhookReceive, schedule
<1>2. \A r \in RunIds : runs[r].st = "none" /\ exec[r].pc = "none" /\ r \notin cancel
  BY <1>1 DEF RunsInv, Started, RowsOfTarget
<1>3. \A p \in Replicas : ~WebhookAccount(p)
  BY <1>1 DEF KeysInv, HookOwnsKey, WebhookAccount
<1>4. \A r \in RunIds : ~Executor(r)
  BY <1>2 DEF Executor, CheckTrigger, SkipFire, Activate, ExecuteNode, Succeed, RunAccounted, At
<1> QED BY <1>1, <1>2, <1>3, <1>4
        DEF Next, RunWorkflow, ComeDue, DeleteWorkflow, CancelRead, CancelWrite, ClaimQueuedRuns,
            Receiver, RecordWebhookDelivery, WebhookAbsorb, WebhookRun, WebhookRoutine, WebhookError,
            WebhookReceive, schedule, bounds, deaths

LEMMA InitBreaker == Init => BreakerInv
BY Bounds DEF Init, BreakerInv

LEMMA StepBreaker == EngineTypes /\ RunsInv /\ KeysInv /\ BreakerInv /\ [Next]_vars => BreakerInv'
<1> SUFFICES ASSUME EngineTypes, RunsInv, KeysInv, BreakerInv, [Next]_vars PROVE BreakerInv'
  OBVIOUS
<1>1. CASE UNCHANGED <<trig, crashes, target, sched>>
  <2>1. MayCount' = MayCount /\ Disabling' = Disabling
    BY <1>1 DEF MayCount, Disabling
  <2> QED BY <1>1, <2>1, BreakerFrame DEF EngineTypes
<1>2. CASE UpdateTrigger
  <2>1. UNCHANGED <<crashes, target, sched>> /\ trig.failures \in Nat /\ crashes \in Nat
    BY <1>2 DEF UpdateTrigger, schedule, deaths, EngineTypes, TypeOK
  <2>2. \/ trig'.failures = trig.failures /\ ~trig'.enabled
        \/ trig'.failures = 0
    BY <1>2 DEF UpdateTrigger, EngineTypes, TypeOK
  <2>3. MayCount' = MayCount
    BY <2>1 DEF MayCount
  <2> QED BY <2>1, <2>2, <2>3, BreakerCounts, Bounds DEF BreakerInv
<1>3. CASE target' # "routine"
  BY <1>3 DEF BreakerInv
<1>4. CASE UNCHANGED vars
  BY <1>1, <1>4 DEF vars
<1> QED BY <1>1, <1>2, <1>3, <1>4, OthersDoNotCount, BreakerScheduled, BreakerCrashed

(* The breaker of a routine trigger (accountTriggerFailure, engine.go) is  *)
(* not atomic: every other scheduler may count one failure between the     *)
(* increment and the disable, and a death there leaves the trigger         *)
(* enabled.  The overshoot is bounded by exactly these two, for any number *)
(* of replicas, fires and owner updates.                                   *)
THEOREM BreakerOvershootBounded == Spec => []BreakerOvershoot
<1>1. ASSUME EngineTypes, BreakerInv PROVE BreakerOvershoot
  <2>1. trig.failures \in Nat /\ crashes \in Nat
    BY <1>1 DEF EngineTypes, TypeOK
  <2> QED BY <1>1, <2>1, BreakerCounts, Bounds DEF BreakerInv, BreakerOvershoot
<1> QED BY <1>1, InitTypes, StepTypes, InitRuns, StepRuns, InitKeys, StepKeys,
           InitBreaker, StepBreaker, PTL DEF Spec

=============================================================================
