----------------------------- MODULE WorkflowEngine -----------------------------
(***************************************************************************)
(* Triggers, routine fires and workflow runs, as the API replicas drive    *)
(* them from PostgreSQL: the Scheduler and the Reconciler of               *)
(* api/internal/workflows/engine.go, the store of pkg/workflows/store.go,  *)
(* the webhook receiver and the run handlers.                              *)
(*                                                                         *)
(* One trigger is modelled.  It is fired by cron or by a webhook (`source')*)
(* and it targets one workflow or a routine (`target'); both are chosen in *)
(* the initial state.  Every replica runs one scheduler goroutine, any     *)
(* number of executor goroutines and at most one webhook request at a time.*)
(* One action is one store call together with the local computation up to  *)
(* the next one, so a crash or another replica can fall between any two.   *)
(***************************************************************************)
EXTENDS Naturals, Sequences, FiniteSetsExt

CONSTANTS
  Replicas,          \* API replicas
  NoReplica,         \* nobody
  Sources,           \* subset of {"cron", "webhook"} to explore
  Targets,           \* subset of {"workflow", "routine"} to explore
  Keys,              \* idempotency keys of webhook deliveries
  AutoDisableAfter,  \* triggers.auto_disable_after
  MaxCalls,          \* bound: node attempts of a run, over all its nodes
  MaxAttempts,       \* attempts of executeWithRetry
  MaxRuns,           \* bound: rows of workflow_runs
  MaxFires,          \* bound: rows of trigger_fires
  MaxInputs          \* bound: cron instants, webhook requests, manual runs, cancels, owner
                     \* updates, transient store errors and replica deaths, together

NoKey == "none"      \* the key of a fire that no webhook made

ASSUME EngineAssumption ==
  /\ NoReplica \notin Replicas /\ IsFiniteSet(Replicas)
  /\ NoKey \notin Keys
  /\ Sources \subseteq {"cron", "webhook"} /\ Sources # {}
  /\ Targets \subseteq {"workflow", "routine"} /\ Targets # {}
  /\ {AutoDisableAfter, MaxCalls, MaxAttempts, MaxRuns, MaxFires} \subseteq Nat \ {0}
  /\ MaxInputs \in Nat /\ MaxInputs <= MaxFires     \* no fire is held up by a bound

RunIds == 1..MaxRuns

InFlight == {"queued", "running"}                      \* the partial unique index's predicate
Terminal == {"succeeded", "failed", "canceled"}
RunStatus == InFlight \cup Terminal \cup {"none", "deleted"}
FireStatus == {"fired", "delivered", "failed", "skipped", "validation_error"}
Answers == {"fired", "skipped", "duplicate", "conflict", "error"}

VARIABLES
  source, target,    \* the trigger's source_type and what its target columns name
  trig,              \* the trigger row: enabled, consecutive_failures
  due,               \* next_fire_at <= now
  runs,              \* workflow_runs: status and the fire that made the run
  fires,             \* trigger_fires, in fired_at order
  exec,              \* executeRun of each run: replica, place, node attempts made
  sched,             \* each replica's scheduler goroutine
  hook,              \* each replica's webhook request
  dedup,             \* webhook_deliveries
  answers,           \* what the sender has been answered, by key
  cancel,            \* cancel requests that have read the run and not yet written
  userCanceled,      \* history: runs a user's cancel was answered OK for
  inputs,            \* inputs so far
  crashes,           \* history: replica deaths
  orphaned           \* history: runs whose executor died with its replica

vars == <<source, target, trig, due, runs, fires, exec, sched, hook, dedup,
          answers, cancel, userCanceled, inputs, crashes, orphaned>>

\* Groups, for UNCHANGED.
schedule == <<source, target, due>>
runState == <<exec, cancel, userCanceled>>
hookState == <<hook, dedup, answers>>
deaths == <<crashes, orphaned>>
bounds == <<inputs, deaths>>

----------------------------------------------------------------------------
(* Store operations                                                        *)

\* Mutant: an index over the queued rows only.
SingleQueued == \E r \in RunIds : runs[r].st = "queued"

\* uq_workflow_run_single_inflight: the insert is refused while a run is in flight.
SingleInFlight == \E r \in RunIds : runs[r].st \in InFlight

FreeRun == CHOOSE r \in RunIds : runs[r].st = "none" /\ \A q \in 1..(r - 1) : runs[q].st # "none"

RunRoom == runs[MaxRuns].st = "none"

\* UpdateWorkflowRunStatus: unconditional, except that a deleted row is not there.
StatusWritten(r, status) ==
  [runs EXCEPT ![r].st = IF @ = "deleted" THEN @ ELSE status]

FireRow(act, status, key, run) == [act |-> act, st |-> status, key |-> key, run |-> run]

\* CreateTriggerFire.
CreateTriggerFire(act, status, key) ==
  /\ Len(fires) < MaxFires
  /\ fires' = Append(fires, FireRow(act, status, key, 0))

\* CreateWorkflowRunWithFire: both rows in one transaction, or neither.
CreateWorkflowRunWithFire(key) ==
  /\ ~SingleInFlight /\ RunRoom /\ Len(fires) < MaxFires
  /\ fires' = Append(fires, FireRow("run_workflow", "fired", key, FreeRun))
  /\ runs' = [runs EXCEPT ![FreeRun] = [st |-> "queued", fire |-> Len(fires) + 1]]

\* Mutant: only the webhooks' fires are looked for, as the comment on the method has it.
ListPendingWebhooks ==
  {f \in DOMAIN fires : fires[f].act = "routine" /\ fires[f].st = "fired" /\ fires[f].key # NoKey}

\* ListPendingRoutineFires: a plain SELECT, not a claim.  The rows are worked off oldest
\* first, which is the order of their numbers.
ListPendingRoutineFires ==
  {f \in DOMAIN fires : fires[f].act = "routine" /\ fires[f].st = "fired"}

\* UpdateTriggerFireResult: unconditional.
FireResult(f, status) == fires' = [fires EXCEPT ![f].st = status]

IncrementTriggerFailures == trig' = [trig EXCEPT !.failures = @ + 1]
ResetTriggerFailures == trig' = [trig EXCEPT !.failures = 0]
DisableTrigger == trig' = [trig EXCEPT !.enabled = FALSE]

\* One more of the inputs that MaxInputs bounds.
Input == inputs < MaxInputs /\ inputs' = inputs + 1

----------------------------------------------------------------------------
NoExec == [by |-> NoReplica, pc |-> "none", calls |-> 0]
IdleSched == [pc |-> "idle", cron |-> FALSE, fire |-> 0, leg |-> "none", att |-> 0, todo |-> {}]
IdleHook == [pc |-> "idle", key |-> NoKey, enabled |-> FALSE]

Init ==
  /\ source \in Sources
  /\ target \in Targets
  /\ trig = [enabled |-> TRUE, failures |-> 0]
  /\ due = FALSE
  /\ runs = [r \in RunIds |-> [st |-> "none", fire |-> 0]]
  /\ fires = <<>>
  /\ exec = [r \in RunIds |-> NoExec]
  /\ sched = [p \in Replicas |-> IdleSched]
  /\ hook = [p \in Replicas |-> IdleHook]
  /\ dedup = {}
  /\ answers = [k \in Keys |-> {}]
  /\ cancel = {}
  /\ userCanceled = {}
  /\ inputs = 0
  /\ crashes = 0
  /\ orphaned = {}

----------------------------------------------------------------------------
(* The workflow run: handlers and the Reconciler                           *)

\* runWorkflow (POST /workflows/:id/runs): no trigger, no fire.
RunWorkflow ==
  /\ target = "workflow" /\ ~SingleInFlight /\ RunRoom
  /\ runs' = [runs EXCEPT ![FreeRun] = [st |-> "queued", fire |-> 0]]
  /\ Input
  /\ UNCHANGED <<schedule, trig, fires, runState, sched, hookState, deaths>>

\* CancelRun reads the run; a terminal one is refused.
CancelRead(r) ==
  /\ runs[r].st \in InFlight /\ r \notin cancel
  /\ cancel' = cancel \cup {r}
  /\ Input
  /\ UNCHANGED <<schedule, trig, runs, fires, exec, userCanceled, sched, hookState, deaths>>

\* ... and then writes the status it decided on, whatever the row says by now.
\* The executor is not told: nothing calls Reconciler.Cancel.
CancelWrite(r) ==
  /\ r \in cancel
  /\ runs' = StatusWritten(r, "canceled")
  /\ cancel' = cancel \ {r}
  /\ userCanceled' = userCanceled \cup {r}
  /\ UNCHANGED <<schedule, trig, fires, exec, sched, hookState, bounds>>

\* claimAndDispatch / ClaimQueuedRuns: queued becomes running and the row is returned,
\* in one statement (FOR UPDATE SKIP LOCKED).
ClaimQueuedRuns(p, r) ==
  /\ runs[r].st = "queued"
  /\ runs' = [runs EXCEPT ![r].st = "running"]
  /\ exec' = [exec EXCEPT ![r] = [by |-> p, pc |-> "check", calls |-> 1]]
  /\ UNCHANGED <<schedule, trig, fires, cancel, userCanceled, sched, hookState, bounds>>

At(r, pc) == exec[r].pc = pc
Goto(r, pc) == exec' = [exec EXCEPT ![r].pc = pc]

\* Mutant: a disabled trigger ends the execution without the status write.
CheckTriggerSilent(r) ==
  /\ At(r, "check")
  /\ IF runs[r].fire # 0 /\ ~trig.enabled THEN exec' = [exec EXCEPT ![r] = NoExec] ELSE Goto(r, "activate")
  /\ UNCHANGED <<schedule, trig, runs, fires, cancel, userCanceled, sched, hookState, bounds>>

\* executeRun's first leg: a confirmed disabled trigger cancels the run; a run without a
\* trigger, an enabled trigger or a failed lookup goes on to the workspace.
CheckTrigger(r) ==
  /\ At(r, "check")
  /\ \/ /\ runs[r].fire # 0 /\ ~trig.enabled
        /\ runs' = StatusWritten(r, "canceled")
        /\ Goto(r, "skipfire")
        /\ UNCHANGED inputs
     \/ /\ runs[r].fire = 0 \/ trig.enabled
        /\ Goto(r, "activate")
        /\ UNCHANGED <<runs, inputs>>
     \/ /\ runs[r].fire # 0 /\ ~trig.enabled
        /\ Goto(r, "activate")
        /\ Input
        /\ UNCHANGED runs
  /\ UNCHANGED <<schedule, trig, fires, cancel, userCanceled, sched, hookState, deaths>>

\* ... and the run's fire is marked skipped.
SkipFire(r) ==
  /\ At(r, "skipfire")
  /\ FireResult(runs[r].fire, "skipped")
  /\ exec' = [exec EXCEPT ![r] = NoExec]
  /\ UNCHANGED <<schedule, trig, runs, cancel, userCanceled, sched, hookState, bounds>>

\* failRun: the status, and then (Account) the trigger's failure count.
FailRun(r) ==
  /\ runs' = StatusWritten(r, "failed")
  /\ Goto(r, "account")

\* EnsureActive, the on-missing-create policy, the parse of the snapshot and topoSort:
\* the run goes on to its first node or fails.
Activate(r) ==
  /\ At(r, "activate")
  /\ \/ Goto(r, "node") /\ UNCHANGED runs
     \/ FailRun(r)
  /\ UNCHANGED <<schedule, trig, fires, cancel, userCanceled, sched, hookState, bounds>>

\* executeNode, one attempt, and the loop around it.  The run goes on with a further
\* attempt or a later active node, ends, or fails because the attempts of a node are used
\* up.  Which node and which attempt it is makes no difference to the rows.
ExecuteNode(r) ==
  /\ At(r, "node")
  /\ \/ /\ exec[r].calls < MaxCalls
        /\ exec' = [exec EXCEPT ![r].calls = @ + 1]
        /\ UNCHANGED runs
     \/ Goto(r, "finish") /\ UNCHANGED runs
     \/ FailRun(r)
  /\ UNCHANGED <<schedule, trig, fires, cancel, userCanceled, sched, hookState, bounds>>

\* The run succeeds, whatever its row says.
Succeed(r) ==
  /\ At(r, "finish")
  /\ runs' = StatusWritten(r, "succeeded")
  /\ Goto(r, "reset")
  /\ UNCHANGED <<schedule, trig, fires, cancel, userCanceled, sched, hookState, bounds>>

\* failRun and executeRun end with the trigger's counter.  Unlike accountTriggerFailure,
\* failRun does not look at the new count.
RunAccounted(r) ==
  /\ \/ At(r, "account") /\ (IF runs[r].fire # 0 THEN IncrementTriggerFailures ELSE UNCHANGED trig)
     \/ At(r, "reset") /\ (IF runs[r].fire # 0 THEN ResetTriggerFailures ELSE UNCHANGED trig)
  /\ exec' = [exec EXCEPT ![r] = NoExec]
  /\ UNCHANGED <<schedule, runs, fires, cancel, userCanceled, sched, hookState, bounds>>

----------------------------------------------------------------------------
(* The scheduler                                                           *)

\* Time passes: next_fire_at of an enabled or disabled cron trigger comes due.
ComeDue ==
  /\ source = "cron" /\ ~due
  /\ due' = TRUE
  /\ Input
  /\ UNCHANGED <<source, target, trig, runs, fires, runState, sched, hookState, deaths>>

\* The pending fires still to process; the tick is over when there are none.
Drain(todo) == IF todo = {} THEN IdleSched ELSE [IdleSched EXCEPT !.pc = "drain", !.todo = todo]

\* tick: ClaimDueCronTriggers selects the enabled due trigger and advances next_fire_at in
\* one transaction; without one the tick goes straight to the pending fires.
Tick(p) ==
  /\ sched[p].pc = "idle"
  /\ IF source = "cron" /\ due /\ trig.enabled
     THEN /\ due' = FALSE
          /\ sched' = [sched EXCEPT ![p].pc = "fire", ![p].cron = TRUE]
     ELSE /\ sched' = [sched EXCEPT ![p] = Drain(ListPendingRoutineFires)]
          /\ UNCHANGED due
  /\ UNCHANGED <<source, target, trig, runs, fires, runState, hookState, bounds>>

SchedGoto(p, pc) == sched' = [sched EXCEPT ![p].pc = pc]

\* fireTrigger, a missed tick: the claimed instant is more than one interval ago.
FireMissed(p) ==
  /\ sched[p].pc = "fire"
  /\ CreateTriggerFire("routine", "skipped", NoKey)
  /\ SchedGoto(p, "list")
  /\ UNCHANGED <<schedule, trig, runs, runState, hookState, bounds>>

\* fireWorkflowTarget: a run with its fire, or a skipped fire when one is in flight; an
\* opted-in input that does not validate is a recorded failure.
FireWorkflowTarget(p) ==
  /\ sched[p].pc = "fire" /\ target = "workflow"
  /\ \/ CreateWorkflowRunWithFire(NoKey) /\ SchedGoto(p, "list")
     \/ /\ SingleInFlight
        /\ CreateTriggerFire("run_workflow", "skipped", NoKey)
        /\ SchedGoto(p, "list")
        /\ UNCHANGED runs
     \/ /\ CreateTriggerFire("run_workflow", "validation_error", NoKey)
        /\ SchedGoto(p, "account")
        /\ UNCHANGED runs
  /\ UNCHANGED <<schedule, trig, runState, hookState, bounds>>

\* A transient error of GetWorkflow or CreateTriggerFire drops the tick: nothing is
\* recorded and next_fire_at has moved on.
FireGlitch(p) ==
  /\ sched[p].pc = "fire" /\ target # "none"
  /\ Input
  /\ SchedGoto(p, "list")
  /\ UNCHANGED <<schedule, trig, runs, fires, runState, hookState, deaths>>

\* fireRoutineTarget: the fire row, then executeRoutine in the same goroutine; a trigger
\* whose workflow was deleted has no target and records a failed fire.
FireRoutineTarget(p) ==
  /\ sched[p].pc = "fire" /\ target # "workflow"
  /\ IF target = "routine"
     THEN /\ CreateTriggerFire("routine", "fired", NoKey)
          /\ sched' = [sched EXCEPT ![p].pc = "leg", ![p].fire = Len(fires) + 1,
                                    ![p].leg = "activate", ![p].att = 1]
     ELSE /\ CreateTriggerFire("routine", "failed", NoKey)
          /\ SchedGoto(p, "account")
  /\ UNCHANGED <<schedule, trig, runs, runState, hookState, bounds>>

\* The second half of tick: the pending routine fires are listed.
ListPending(p) ==
  /\ sched[p].pc = "list"
  /\ sched' = [sched EXCEPT ![p] = Drain(ListPendingRoutineFires)]
  /\ UNCHANGED <<schedule, trig, runs, fires, runState, hookState, bounds>>

\* processPendingRoutineFire: fetch the trigger; disabled absorbs the fire, a missing
\* target fails it, a transient error leaves it pending.
ProcessPending(p) ==
  /\ sched[p].pc = "drain"
  /\ LET f == Min(sched[p].todo)
         rest == sched[p].todo \ {f} IN
     \/ /\ ~trig.enabled
        /\ FireResult(f, "skipped")
        /\ sched' = [sched EXCEPT ![p] = Drain(rest)]
        /\ UNCHANGED inputs
     \/ /\ trig.enabled /\ target = "routine"
        /\ sched' = [sched EXCEPT ![p] = [pc |-> "leg", cron |-> FALSE, fire |-> f,
                                          leg |-> "activate", att |-> 1, todo |-> rest]]
        /\ UNCHANGED <<fires, inputs>>
     \/ /\ Input
        /\ sched' = [sched EXCEPT ![p] = Drain(rest)]
        /\ UNCHANGED fires
  /\ UNCHANGED <<schedule, trig, runs, runState, hookState, deaths>>

\* executeRoutine, one leg that succeeds: EnsureActive, then the gate script (a closed
\* gate ends the fire as skipped), then the agent call or a script-only delivery.
RoutineLeg(p) ==
  /\ sched[p].pc = "leg"
  /\ \/ /\ sched[p].leg = "activate"
        /\ \E l \in {"gate", "agent"} : sched' = [sched EXCEPT ![p].leg = l, ![p].att = 1]
        /\ UNCHANGED fires
     \/ /\ sched[p].leg = "gate"
        /\ sched' = [sched EXCEPT ![p].leg = "agent", ![p].att = 1]
        /\ UNCHANGED fires
     \/ /\ sched[p].leg = "gate"
        /\ FireResult(sched[p].fire, "skipped")
        /\ SchedGoto(p, "next")
     \/ /\ sched[p].leg \in {"gate", "agent"}
        /\ FireResult(sched[p].fire, "delivered")
        /\ SchedGoto(p, "reset")
  /\ UNCHANGED <<schedule, trig, runs, runState, hookState, bounds>>

\* A leg that fails: executeWithRetry repeats a transient 5xx of a script or agent call,
\* anything else (or the last attempt) fails the fire and is accounted.
RoutineLegFails(p) ==
  /\ sched[p].pc = "leg"
  /\ \/ /\ sched[p].leg # "activate" /\ sched[p].att < MaxAttempts
        /\ sched' = [sched EXCEPT ![p].att = @ + 1]
        /\ UNCHANGED fires
     \/ /\ FireResult(sched[p].fire, "failed")
        /\ SchedGoto(p, "account")
  /\ UNCHANGED <<schedule, trig, runs, runState, hookState, bounds>>

\* Where the goroutine goes after a fire: a cron fire is followed by the listing, a
\* pending one by the rest of the list.
AfterFire(p) == IF sched[p].cron THEN [IdleSched EXCEPT !.pc = "list"] ELSE Drain(sched[p].todo)

\* Mutant: the scheduler counts as failRun does, without looking at the count.
AccountWithoutDisable(p) ==
  /\ sched[p].pc = "account"
  /\ IncrementTriggerFailures
  /\ sched' = [sched EXCEPT ![p] = AfterFire(p)]
  /\ UNCHANGED <<schedule, runs, fires, runState, hookState, bounds>>

\* accountTriggerFailure, first call: n is the count the increment returned.
AccountTriggerFailure(p) ==
  /\ sched[p].pc = "account"
  /\ IncrementTriggerFailures
  /\ sched' = [sched EXCEPT ![p] = IF trig.failures + 1 >= AutoDisableAfter
                                   THEN [@ EXCEPT !.pc = "disable"] ELSE AfterFire(p)]
  /\ UNCHANGED <<schedule, runs, fires, runState, hookState, bounds>>

\* accountTriggerFailure's second call, ResetTriggerFailures after a delivery, and the
\* return from a gated fire.
FireAccounted(p) ==
  /\ \/ sched[p].pc = "disable" /\ DisableTrigger
     \/ sched[p].pc = "reset" /\ ResetTriggerFailures
     \/ sched[p].pc = "next" /\ UNCHANGED trig
  /\ sched' = [sched EXCEPT ![p] = AfterFire(p)]
  /\ UNCHANGED <<schedule, runs, fires, runState, hookState, bounds>>

----------------------------------------------------------------------------
(* The webhook receiver                                                    *)

HookDone(p, answer) ==
  /\ hook' = [hook EXCEPT ![p] = IdleHook]
  /\ answers' = [answers EXCEPT ![hook[p].key] = @ \cup {answer}]

\* HandleWebhook up to the signature checks: the trigger row is read once, here.
WebhookReceive(p, k) ==
  /\ source = "webhook" /\ hook[p].pc = "idle"
  /\ hook' = [hook EXCEPT ![p] = [pc |-> "dedup", key |-> k, enabled |-> trig.enabled]]
  /\ Input
  /\ UNCHANGED <<schedule, trig, runs, fires, runState, sched, dedup, answers, deaths>>

\* Mutant: the conflict of the insert is not looked at.
RecordIgnoringConflict(p) ==
  /\ hook[p].pc = "dedup"
  /\ dedup' = dedup \cup {hook[p].key}
  /\ hook' = [hook EXCEPT ![p].pc = "fire"]
  /\ UNCHANGED <<schedule, trig, runs, fires, runState, sched, answers, bounds>>

\* RecordWebhookDelivery: INSERT ... ON CONFLICT DO NOTHING; a conflict is answered 200.
RecordWebhookDelivery(p) ==
  /\ hook[p].pc = "dedup"
  /\ IF hook[p].key \in dedup
     THEN HookDone(p, "duplicate") /\ UNCHANGED dedup
     ELSE /\ dedup' = dedup \cup {hook[p].key}
          /\ hook' = [hook EXCEPT ![p].pc = "fire"]
          /\ UNCHANGED answers
  /\ UNCHANGED <<schedule, trig, runs, fires, runState, sched, bounds>>

\* A disabled trigger absorbs the delivery: a skipped fire and a 202.
WebhookAbsorb(p) ==
  /\ hook[p].pc = "fire" /\ ~hook[p].enabled
  /\ CreateTriggerFire(IF target = "workflow" THEN "run_workflow" ELSE "routine", "skipped", hook[p].key)
  /\ HookDone(p, "skipped")
  /\ UNCHANGED <<schedule, trig, runs, runState, sched, dedup, bounds>>

\* Workflow mode: a run with its fire (202), a skipped fire and 409 with Retry-After when
\* one is in flight, or a validation_error fire (202) that is then accounted.
WebhookRun(p) ==
  /\ hook[p].pc = "fire" /\ hook[p].enabled /\ target = "workflow"
  /\ \/ CreateWorkflowRunWithFire(hook[p].key) /\ HookDone(p, "fired")
     \/ /\ SingleInFlight
        /\ CreateTriggerFire("run_workflow", "skipped", hook[p].key)
        /\ HookDone(p, "conflict")
        /\ UNCHANGED runs
     \/ /\ CreateTriggerFire("run_workflow", "validation_error", hook[p].key)
        /\ hook' = [hook EXCEPT ![p].pc = "account"]
        /\ UNCHANGED <<runs, answers>>
  /\ UNCHANGED <<schedule, trig, runState, sched, dedup, bounds>>

\* The receiver's own copy of the accounting: increment, then disable at the threshold.
WebhookAccount(p) ==
  /\ \/ /\ hook[p].pc = "account"
        /\ IncrementTriggerFailures
        /\ IF trig.failures + 1 >= AutoDisableAfter
           THEN hook' = [hook EXCEPT ![p].pc = "disable"] /\ UNCHANGED answers
           ELSE HookDone(p, "fired")
     \/ hook[p].pc = "disable" /\ DisableTrigger /\ HookDone(p, "fired")
  /\ UNCHANGED <<schedule, runs, fires, runState, sched, dedup, bounds>>

\* Routine mode: the fire row is left for the scheduler's drain.
WebhookRoutine(p) ==
  /\ hook[p].pc = "fire" /\ hook[p].enabled /\ target = "routine"
  /\ CreateTriggerFire("routine", "fired", hook[p].key)
  /\ HookDone(p, "fired")
  /\ UNCHANGED <<schedule, trig, runs, runState, sched, dedup, bounds>>

\* A store error, or a trigger that has lost its target, is answered 500.
WebhookError(p) ==
  /\ hook[p].pc \in {"dedup", "fire"}
  /\ \/ Input
     \/ hook[p].pc = "fire" /\ hook[p].enabled /\ target = "none" /\ UNCHANGED inputs
  /\ HookDone(p, "error")
  /\ UNCHANGED <<schedule, trig, runs, fires, runState, sched, dedup, deaths>>

----------------------------------------------------------------------------
(* The owner, and failures                                                 *)

\* UpdateTrigger: enabling a disabled trigger resets its counter.
UpdateTrigger ==
  /\ trig' = IF trig.enabled THEN [trig EXCEPT !.enabled = FALSE] ELSE [enabled |-> TRUE, failures |-> 0]
  /\ Input
  /\ UNCHANGED <<schedule, runs, fires, runState, sched, hookState, deaths>>

\* DeleteWorkflow: the runs go with it and the trigger's workflow_id becomes NULL.
\* Executors are not told.
DeleteWorkflow ==
  /\ target = "workflow"
  /\ target' = "none"
  /\ runs' = [r \in RunIds |-> [runs[r] EXCEPT !.st = IF @ = "none" THEN @ ELSE "deleted"]]
  /\ Input
  /\ UNCHANGED <<source, due, trig, fires, runState, sched, hookState, deaths>>

\* A replica dies or is shut down (its context is canceled, so the writes that would
\* record it fail): its goroutines are gone, the rows stay as they are.
Crash(p) ==
  /\ Input
  /\ crashes' = crashes + 1
  /\ orphaned' = orphaned \cup {r \in RunIds : exec[r].by = p}
  /\ sched' = [sched EXCEPT ![p] = IdleSched]
  /\ hook' = [hook EXCEPT ![p] = IdleHook]
  /\ exec' = [r \in RunIds |-> IF exec[r].by = p THEN NoExec ELSE exec[r]]
  /\ UNCHANGED <<schedule, trig, runs, fires, cancel, userCanceled, dedup, answers>>

----------------------------------------------------------------------------
Executor(r) ==
  CheckTrigger(r) \/ SkipFire(r) \/ Activate(r) \/ ExecuteNode(r) \/ Succeed(r) \/ RunAccounted(r)

Scheduler(p) ==
  \/ Tick(p) \/ FireMissed(p) \/ FireWorkflowTarget(p) \/ FireRoutineTarget(p)
  \/ FireGlitch(p) \/ ListPending(p) \/ ProcessPending(p)
  \/ RoutineLeg(p) \/ RoutineLegFails(p) \/ AccountTriggerFailure(p) \/ FireAccounted(p)

Receiver(p) ==
  \/ RecordWebhookDelivery(p) \/ WebhookAbsorb(p) \/ WebhookRun(p) \/ WebhookAccount(p)
  \/ WebhookRoutine(p) \/ WebhookError(p)

Next ==
  \/ RunWorkflow \/ ComeDue \/ UpdateTrigger \/ DeleteWorkflow
  \/ \E r \in RunIds : CancelRead(r) \/ CancelWrite(r) \/ Executor(r)
  \/ \E p \in Replicas, r \in RunIds : ClaimQueuedRuns(p, r)
  \/ \E p \in Replicas : Scheduler(p) \/ Receiver(p) \/ Crash(p)
  \/ \E p \in Replicas, k \in Keys : WebhookReceive(p, k)

Spec == Init /\ [][Next]_vars

\* The goroutines of a live replica are scheduled: tickers fire, and store and pod calls
\* return (each has a timeout).  Nothing is assumed of time, owners, senders or crashes.
FairSpec ==
  /\ Spec
  /\ \A p \in Replicas : WF_vars(Scheduler(p))
  /\ WF_vars(\E r \in RunIds : Executor(r) \/ \E p \in Replicas : ClaimQueuedRuns(p, r))

----------------------------------------------------------------------------
(* Properties                                                              *)

FireRows == [act : {"run_workflow", "routine"}, st : FireStatus, key : Keys \cup {NoKey}, run : 0..MaxRuns]

Execs == [by : Replicas \cup {NoReplica},
          pc : {"none", "check", "skipfire", "activate", "node", "finish", "account", "reset"},
          calls : 0..MaxCalls]

Scheds == [pc : {"idle", "fire", "list", "drain", "leg", "account", "disable", "reset", "next"},
           cron : BOOLEAN, fire : 0..MaxFires, leg : {"none", "activate", "gate", "agent"},
           att : 0..MaxAttempts, todo : SUBSET (1..MaxFires)]

Hooks == [pc : {"idle", "dedup", "fire", "account", "disable"}, key : Keys \cup {NoKey}, enabled : BOOLEAN]

TypeOK ==
  /\ source \in Sources /\ target \in Targets \cup {"none"}
  /\ trig \in [enabled : BOOLEAN, failures : Nat]
  /\ due \in BOOLEAN
  /\ runs \in [RunIds -> [st : RunStatus, fire : 0..MaxFires]]
  /\ fires \in Seq(FireRows) /\ Len(fires) <= MaxFires
  /\ exec \in [RunIds -> Execs]
  /\ sched \in [Replicas -> Scheds]
  /\ hook \in [Replicas -> Hooks]
  /\ dedup \subseteq Keys
  /\ answers \in [Keys -> SUBSET Answers]
  /\ cancel \subseteq RunIds /\ userCanceled \subseteq RunIds /\ orphaned \subseteq RunIds
  /\ inputs \in 0..MaxInputs /\ crashes \in 0..inputs

Executing(r) == exec[r].pc \in {"check", "activate", "node", "finish"}

\* Single-in-flight holds of what runs in the pods, not only of the rows: two runs of the
\* workflow are executed at the same time only if a user's cancel took one of them out of
\* the index while its executor went on.
OneExecutor ==
  \A q, r \in RunIds :
    q # r /\ Executing(q) /\ Executing(r) =>
      q \in userCanceled \/ r \in userCanceled

\* A delivery is fired at most once, however often it is sent and whichever replicas the
\* sends reach; and a sender that was answered 202 or 409 has its delivery in the audit.
KeyFiredOnce ==
  \A k \in Keys :
    LET firesOf == {f \in DOMAIN fires : fires[f].key = k}
    IN  /\ Cardinality(firesOf) <= 1
        /\ answers[k] \cap {"fired", "skipped", "conflict"} # {} => firesOf # {}

\* The circuit breaker of a routine trigger overshoots its threshold by
\* no more than one failure for every other scheduler, and one for every death that falls
\* between the increment and the disable.
BreakerOvershoot ==
  target = "routine" =>
    trig.failures < AutoDisableAfter + Cardinality(Replicas) + crashes

\* The backlog of routine fires drains: while inputs are finite, every fire recorded as
\* fired is given an outcome, through deaths, transient errors and a disabled trigger,
\* because the drain of some live replica drives it again.
FiresResolve == []<>(\A f \in DOMAIN fires : ~(fires[f].act = "routine" /\ fires[f].st = "fired"))

\* Every run reaches a terminal status, except one whose executor has died: it is left
\* running, and the index then refuses every later run of the workflow.
RunsEnd == []<>(\A r \in RunIds : runs[r].st \in InFlight => r \in orphaned)

==============================================================================
