------------------------------ MODULE BoardTask ------------------------------
(***************************************************************************)
(* One task row of the board (pkg/board): the claim that dispatches it to  *)
(* a worker session, the asynchronous spawn and its assignee stamp, the    *)
(* writes of the worker, the lease ladder and the persona pass of the      *)
(* reconciler, and the levers of its owner.  A row is PostgreSQL's: each   *)
(* transaction, and each statement outside one, is a step.  A claim token, *)
(* and the session its spawn creates, have one number; a number that no    *)
(* row field and no delivery names any more is minted again.  The other    *)
(* rows of the project, whose number limits the slots, are not modelled: a *)
(* slot is free sooner or later.                                           *)
(***************************************************************************)
EXTENDS Naturals, FiniteSets, Sequences

CONSTANTS
    AttemptsCap,    \* EngineConfig.AttemptsCap
    BusyRenewCap,   \* boardBusyRenewCap
    MaxDeliveries,  \* bound: deliveries in flight
    MaxInputs,      \* bound: owners' levers, worker deaths, throttles
    MaxFaults       \* bound: lost writes, lost answers, replica deaths

ASSUME BoardBounds ==
    /\ AttemptsCap \in Nat \ {0}
    /\ {BusyRenewCap, MaxDeliveries, MaxInputs, MaxFaults} \subseteq Nat

VARIABLES
    row,            \* the row of table tasks
    sess,           \* sess[k]: the session that the spawn for token k creates
    spawns,         \* goroutines that deliver a claim, after their commit
    start,          \* a TaskStart between its checks and its transaction
    rearm,          \* what rc1PersonaClaims read of the row, before its update
    slotCooling,    \* projects.slot_cooldown_until is in the future
    inputs, faults,
    dispatched,     \* history: dispatches that no throttle handed back
    lastDispatch,   \* history: the token of the latest claim, if it was one
    blurred         \* history: a fault struck the delivery of the row's claim

history == <<dispatched, lastDispatch, blurred>>
vars == <<row, sess, spawns, start, rearm, slotCooling, inputs, faults, history>>

Claimed == {"in_progress", "in_review"}
Sessions == 1..(2 + 2 * MaxDeliveries)

Rows == [stage : {"backlog", "done", "failed"} \cup Claimed,
         token : {0} \cup Sessions, assignee : {0} \cup Sessions,
         implementer : {0} \cup Sessions,
         counted : BOOLEAN, persona : BOOLEAN,
         attempts : 0..AttemptsCap, failures : 0..AttemptsCap,
         lease : {"none", "live", "lapsed"}, cooling : BOOLEAN,
         nudge : {"none", "sent", "answered"}, busy : 0..BusyRenewCap,
         flagged : BOOLEAN, origin : {"none", "worker", "escalated"},
         paused : BOOLEAN]

Workers == [st : {"unborn", "working", "hung", "gone"}, knows : {0} \cup Sessions]

Spawns == [sid : Sessions, old : {0} \cup Sessions,
           step : {"redispatch", "begin", "spawn", "stamp"}]

TypeOK ==
    /\ row \in Rows
    /\ sess \in [Sessions -> Workers]
    /\ spawns \subseteq Spawns
    /\ start \in {"no", "checked"} /\ rearm \in {"no", "mint", "escalate"}
    /\ slotCooling \in BOOLEAN
    /\ inputs \in 0..MaxInputs /\ faults \in 0..MaxFaults
    /\ dispatched \in Nat /\ lastDispatch \in {0} \cup Sessions
    /\ blurred \in BOOLEAN

Input == inputs < MaxInputs /\ inputs' = inputs + 1
Fault == faults < MaxFaults /\ faults' = faults + 1

-----------------------------------------------------------------------------
(* What the updates of the row have in common *)

(* The numbers that still mean something, and the next one to mint. *)
InUse == {row.token, row.assignee, row.implementer, lastDispatch}
            \cup {x.sid : x \in spawns} \cup {x.old : x \in spawns}

Fresh == CHOOSE k \in Sessions \ InUse : \A j \in Sessions \ InUse : k <= j

(* The claim and every identity are cleared. *)
Released(r) ==
    [r EXCEPT !.token = 0, !.lease = "none", !.assignee = 0, !.implementer = 0,
              !.counted = FALSE, !.persona = FALSE, !.nudge = "none"]

(* A fresh claim: a token, a lease, and none of the earlier episode's      *)
(* nudge and heartbeat evidence.                                           *)
Minted(r) ==
    [r EXCEPT !.token = Fresh, !.lease = "live", !.nudge = "none", !.busy = 0]

(* failure_count, which is only compared with the cap. *)
Failure(r) ==
    [r EXCEPT !.failures = IF @ < AttemptsCap THEN @ + 1 ELSE @]

Unflagged(r) == [r EXCEPT !.flagged = FALSE, !.origin = "none"]

(* updateStageTx: what every stage move clears. *)
Moved(r, to) == [Unflagged(r) EXCEPT !.stage = to, !.nudge = "none", !.busy = 0]

(* A human's exit is the judgement that forgives the attempts. *)
Forgiven(r) == [r EXCEPT !.attempts = 0, !.failures = 0]

Escalated(r) ==
    [r EXCEPT !.stage = "failed", !.origin = "escalated", !.flagged = FALSE]

Unborn == [st |-> "unborn", knows |-> 0]

(* Sessions that nothing names any more are forgotten. *)
Forgotten(known) == [i \in Sessions |-> IF i \in InUse' THEN known[i] ELSE Unborn]

(* The delivery of the new token to a worker, started after the commit.    *)
(* The token that a session knows will never be the row's again.           *)
Deliver(step, old) ==
    /\ Cardinality(spawns) < MaxDeliveries
    /\ spawns' = spawns \cup {[sid |-> Fresh, old |-> old, step |-> step]}
    /\ sess' = Forgotten([i \in Sessions |-> [sess[i] EXCEPT !.knows = 0]])
    /\ blurred' = FALSE

NoDelivery == UNCHANGED <<spawns, history>> /\ sess' = Forgotten(sess)

(* A claim that is not a dispatch: a review, a bounce. *)
NotDispatched == lastDispatch' = 0 /\ UNCHANGED dispatched

Holds(s) == /\ sess[s].st = "working"
            /\ row.token # 0 /\ sess[s].knows = row.token

-----------------------------------------------------------------------------
(* Dispatch *)

(* The claim of a ready row, or its failure when the attempts are used up. *)
Claim ==
    \/ /\ row.attempts >= AttemptsCap
       /\ row' = Escalated(row)
       /\ NoDelivery
    \/ /\ row.attempts < AttemptsCap
       /\ row' = [Minted(row) EXCEPT !.stage = "in_progress", !.assignee = 0,
                     !.implementer = 0, !.persona = FALSE, !.counted = TRUE,
                     !.attempts = @ + 1]
       /\ dispatched' = dispatched + 1 /\ lastDispatch' = Fresh
       /\ Deliver("spawn", 0)

(* claimOnce, from the sweep's drive or a poke: project and candidate are  *)
(* selected under their row locks.                                         *)
claimOnce ==
    /\ row.stage = "backlog" /\ ~row.paused /\ ~row.flagged
    /\ ~row.cooling /\ ~slotCooling
    /\ Claim
    /\ UNCHANGED <<start, rearm, slotCooling, inputs, faults>>

TaskStartChecks ==
    /\ start = "no"
    /\ row.stage = "backlog" /\ ~row.paused /\ ~row.flagged
    /\ Input
    /\ start' = "checked"
    /\ UNCHANGED <<row, sess, spawns, rearm, slotCooling, faults, history>>

(* The manual dispatch checks the stage and the flag again under the lock, *)
(* and not the pause; it ignores the row's own cooldown.                   *)
TaskStart ==
    /\ start = "checked"
    /\ start' = "no"
    /\ IF row.stage = "backlog" /\ ~row.flagged /\ ~slotCooling
       THEN Claim
       ELSE UNCHANGED row /\ NoDelivery
    /\ UNCHANGED <<rearm, slotCooling, inputs, faults>>

-----------------------------------------------------------------------------
(* Delivery of a claim *)

Blur(x) == Fault /\ blurred' = (blurred \/ x.sid = row.token)

NoFault == UNCHANGED <<faults, blurred>>

Gone == [st |-> "gone", knows |-> 0]

(* A step of delivery x: what is left of x, and the sessions after it. *)
Step(x, left, known) ==
    /\ spawns' = (spawns \ {x}) \cup left
    /\ UNCHANGED <<start, rearm, slotCooling, inputs, dispatched, lastDispatch>>
    /\ sess' = Forgotten(known)

(* nudge.fire: the session of the earlier claim is aborted, or that call   *)
(* fails.                                                                  *)
Abort(x) ==
    LET left == {[x EXCEPT !.old = 0]}
    IN  /\ x.step = "begin" /\ x.old # 0
        /\ UNCHANGED row
        /\ \/ NoFault /\ Step(x, left, [sess EXCEPT ![x.old] = Gone])
           \/ Blur(x) /\ Step(x, left, sess)

Told(x) == [sess EXCEPT ![x.old].knows = x.sid]

ToFresh(x) == {[x EXCEPT !.step = "begin", !.old = 0]}

redispatchBounce_alwaysSpawns(x) ==
    /\ x.step = "redispatch"
    /\ UNCHANGED row /\ NoFault
    /\ Step(x, ToFresh(x), IF sess[x.old].st = "gone" THEN sess ELSE Told(x))

(* redispatchBounce: the new token goes to the session that did the work;  *)
(* if that fails, or it never took a turn, to a fresh worker.  An answer   *)
(* that is lost counts as failed.                                          *)
redispatchBounce(x) ==
    /\ x.step = "redispatch"
    /\ UNCHANGED row
    /\ \/ NoFault /\ Step(x, ToFresh(x), sess)
       \/ sess[x.old].st # "gone" /\ NoFault /\ Step(x, {}, Told(x))
       \/ sess[x.old].st # "gone" /\ Blur(x) /\ Step(x, ToFresh(x), Told(x))

(* spawnFor spawns nothing for a claim that is no longer the row's; the    *)
(* dispatch of a claim does not look again.                                *)
spawnFor(x) == row.token = x.sid /\ row.stage \in Claimed /\ ~row.flagged

(* The spawner starts the session with the token in its charter, fails, or *)
(* starts it and the answer is lost.                                       *)
spawner(x) ==
    LET born == [sess EXCEPT ![x.sid] = [st |-> "working", knows |-> x.sid]]
    IN  /\ x.step \in {"begin", "spawn"} /\ x.old = 0
        /\ UNCHANGED row
        /\ \/ /\ x.step = "begin" => spawnFor(x)
              /\ \/ NoFault /\ Step(x, {[x EXCEPT !.step = "stamp"]}, born)
                 \/ Blur(x) /\ Step(x, {}, born)
           \/ NoFault /\ Step(x, {}, sess)

spawnSync_anyClaim(x) ==
    /\ x.step = "stamp"
    /\ row' = [row EXCEPT !.assignee = x.sid, !.lease = "live"]
    /\ NoFault /\ Step(x, {}, sess)

(* writeAssigneeStamp under the token and stage guard (no update changes   *)
(* the stage and keeps the token).  A stamp that finds no row aborts the   *)
(* session; one that cannot be written leaves it unstamped if the claim    *)
(* still lives.                                                            *)
spawnSync(x) ==
    /\ x.step = "stamp"
    /\ \/ /\ row.token = x.sid
          /\ row' = [row EXCEPT !.assignee = x.sid, !.lease = "live"]
          /\ NoFault /\ Step(x, {}, sess)
       \/ /\ row.token # x.sid
          /\ UNCHANGED row
          /\ NoFault /\ Step(x, {}, [sess EXCEPT ![x.sid] = Gone])
       \/ /\ UNCHANGED row                     \* the write or the abort is lost
          /\ Blur(x) /\ Step(x, {}, sess)

(* The replica dies with its goroutines. *)
ReplicaDies ==
    /\ spawns # {}
    /\ Fault
    /\ spawns' = {}
    /\ start' = "no" /\ rearm' = "no"
    /\ blurred' = (blurred \/ \E x \in spawns : x.sid = row.token)
    /\ UNCHANGED <<row, slotCooling, inputs, dispatched, lastDispatch>>
    /\ sess' = Forgotten(sess)

Delivery ==
    \E x \in spawns : Abort(x) \/ redispatchBounce(x) \/ spawner(x) \/ spawnSync(x)

-----------------------------------------------------------------------------
(* The worker's writes: each needs the row's live token *)

(* Heartbeat answers a nudge and renews the lease; one whose first         *)
(* statement ran before the nudge was recorded leaves only its time, which *)
(* the ladder reads as an answer.  Without a nudge it renews nothing.  It  *)
(* names its session on a row whose stamp was lost (backfillAssigneeStamp).*)
Heartbeat(s) ==
    LET stamped == [row EXCEPT !.assignee = IF @ = 0 THEN s ELSE @]
    IN  /\ Holds(s) /\ row.stage \in Claimed /\ ~row.flagged
        /\ \/ /\ row.nudge = "none" /\ row.assignee = 0
              /\ row' = stamped
           \/ /\ row.nudge # "none"
              /\ row' \in {[stamped EXCEPT !.nudge = "none", !.lease = "live",
                                          !.busy = 0],
                          [stamped EXCEPT !.nudge = "answered"]}
        /\ NoDelivery
        /\ UNCHANGED <<start, rearm, slotCooling, inputs, faults>>

(* The forward exit keeps the implementer; the stage's persona, when one   *)
(* resolves, claims the row in the same transaction.                       *)
ToReview(s) ==
    LET moved == [Moved(row, "in_review") EXCEPT
                     !.token = 0, !.lease = "none", !.counted = FALSE,
                     !.persona = FALSE, !.implementer = row.assignee,
                     !.failures = 0]
    IN  /\ Holds(s) /\ row.stage = "in_progress"
        /\ ~row.flagged /\ ~row.paused
        /\ \/ /\ row' = [Minted(moved) EXCEPT !.persona = TRUE]
              /\ NotDispatched /\ Deliver("begin", 0)
              /\ UNCHANGED faults
           \/ row' = moved /\ NoDelivery /\ Fault
        /\ UNCHANGED <<start, rearm, slotCooling, inputs>>

(* The guards on criteria and evidence only refuse. *)
Done(r) == [Moved(r, "done") EXCEPT !.token = 0, !.lease = "none",
               !.counted = FALSE, !.persona = FALSE, !.failures = 0]

SelfFailed(r) == [Unflagged(Failure(Released(r))) EXCEPT !.stage = "failed"]

Flagged(r) == [r EXCEPT !.flagged = TRUE, !.origin = "worker"]

(* Done (for a reviewer: its verdict), the worker's own failure, and a     *)
(* question to the owner.                                                  *)
WorkerMoves(s) ==
    /\ Holds(s) /\ row.stage \in Claimed /\ ~row.flagged
    /\ \/ ~row.paused /\ row' = Done(row)
       \/ row' = SelfFailed(row)
       \/ row' = Flagged(row)
    /\ NoDelivery
    /\ UNCHANGED <<start, rearm, slotCooling, inputs, faults>>

(* ReportThrottle hands the attempt back if this claim counted one.  The   *)
(* flag is checked before the transaction only, so a throttle can also     *)
(* meet a row flagged since, and leaves the flag.                          *)
ReportThrottle(s) ==
    /\ Holds(s) /\ row.stage = "in_progress"
    /\ Input
    /\ row' = [Released(row) EXCEPT !.stage = "backlog", !.cooling = TRUE,
                  !.attempts = IF row.counted THEN @ - 1 ELSE @]
    /\ slotCooling' = TRUE
    /\ IF row.token = lastDispatch
       THEN dispatched' = dispatched - 1 /\ lastDispatch' = 0
       ELSE UNCHANGED <<dispatched, lastDispatch>>
    /\ UNCHANGED <<spawns, start, rearm, faults, blurred>>
    /\ sess' = Forgotten(sess)

(* What can become of a session. *)
WorkerStops(s) ==
    /\ sess[s].st = "working"
    /\ Input
    /\ sess' \in {[sess EXCEPT ![s] = Gone], [sess EXCEPT ![s].st = "hung"]}
    /\ UNCHANGED <<row, spawns, start, rearm, slotCooling, faults, history>>

-----------------------------------------------------------------------------
(* The reconciler *)

(* ObserveAssignees: no answer, or what the session shows.  "unmarked" is  *)
(* quiet, with the position of the nudge forgotten.                        *)
Observable(s) ==
    CASE sess[s].st = "working" -> {"unobserved", "moved", "reacted", "busy", "quiet", "unmarked"}
      [] sess[s].st = "hung"    -> {"unobserved", "busy", "quiet", "unmarked"}
      [] OTHER                  -> {"unobserved", "absent"}

ShowsLife(o) ==
    \/ o \in {"moved", "reacted"}
    \/ o = "busy" /\ row.busy < BusyRenewCap

Lapsed == row.lease # "live"

Renew_uncounted(busyOnly) ==
    /\ row' = [row EXCEPT !.lease = "live", !.nudge = "none", !.busy = 0]
    /\ UNCHANGED faults

(* Renewals on the busy signal alone are counted. *)
Renew(busyOnly) ==
    /\ row' = [row EXCEPT !.lease = "live", !.nudge = "none",
                          !.busy = IF busyOnly THEN @ + 1 ELSE 0]
    /\ UNCHANGED faults

Reclaimed(r) ==
    [Failure(Released(r)) EXCEPT !.stage = "backlog", !.cooling = TRUE]

Reclaim == row' = Reclaimed(row) /\ UNCHANGED faults

(* The nudge is delivered before it is recorded; if it cannot be, the      *)
(* claim is taken back.                                                    *)
Nudge ==
    \/ row' = [row EXCEPT !.nudge = "sent", !.lease = "live"]
    \/ row' = Reclaimed(row)

Wedge ==
    /\ row' = [Escalated(Failure(Released(row))) EXCEPT !.busy = 0]
    /\ UNCHANGED faults

(* The ladder for an expired claim: observed movement renews it, silence   *)
(* earns a nudge, and silence after the nudge ends it.                     *)
rc1Reclaims ==
    /\ row.stage = "in_progress" /\ ~row.flagged /\ Lapsed
    /\ \/ row.assignee = 0 /\ Reclaim
       \/ row.assignee # 0 /\ row.nudge = "answered" /\ Renew(FALSE)
       \/ /\ row.assignee # 0 /\ row.nudge # "answered"
          /\ \E o \in Observable(row.assignee) :
                \/ ShowsLife(o) /\ Renew(o = "busy")
                \/ o = "absent" /\ Reclaim
                \/ /\ ~ShowsLife(o) /\ o # "absent"
                   /\ row.nudge = "none" /\ Nudge /\ UNCHANGED faults
                \/ o = "unmarked" /\ row.nudge = "sent" /\ Nudge /\ Fault
                \/ /\ ~ShowsLife(o) /\ o \notin {"absent", "unmarked"}
                   /\ row.nudge = "sent" /\ Wedge
    /\ NoDelivery
    /\ UNCHANGED <<start, rearm, slotCooling, inputs>>

(* rc1PersonaClaims, first pass: an expired review claim, also one whose   *)
(* row is flagged.  Without a persona only the claim is cleared.           *)
PersonaLapse ==
    LET cleared == [row EXCEPT !.token = 0, !.lease = "none",
                               !.persona = FALSE, !.nudge = "none"]
    IN  /\ row.stage = "in_review" /\ row.lease = "lapsed"
        /\ \/ /\ row' = [Failure(cleared) EXCEPT !.assignee = 0,
                                                 !.cooling = TRUE]
              /\ UNCHANGED faults
           \/ row' = cleared /\ Fault
        /\ NoDelivery
        /\ UNCHANGED <<start, rearm, slotCooling, inputs>>

(* Second pass, after its query: a review without a claim gets a fresh     *)
(* persona worker, or has used up its failures.                            *)
PersonaCandidates ==
    /\ rearm = "no"
    /\ row.stage = "in_review" /\ row.token = 0 /\ row.lease = "none"
    /\ ~row.flagged /\ ~row.paused /\ ~row.cooling
    /\ rearm' = IF row.failures >= AttemptsCap THEN "escalate" ELSE "mint"
    /\ UNCHANGED <<row, start, slotCooling, inputs, faults>> /\ NoDelivery

(* What the mint checks again: not the flag. *)
MintGuard ==
    row.stage = "in_review" /\ row.token = 0 /\ ~row.paused /\ ~row.cooling

(* Its update, on what the query read. *)
PersonaRearm ==
    /\ rearm # "no"
    /\ rearm' = "no"
    /\ \/ /\ rearm = "escalate" /\ row.stage = "in_review" /\ row.token = 0
          /\ row' = [Escalated(row) EXCEPT !.cooling = FALSE]
          /\ NoDelivery
       \/ /\ rearm = "mint" /\ MintGuard
          /\ row' = [Minted(row) EXCEPT !.counted = FALSE, !.persona = TRUE]
          /\ NotDispatched /\ Deliver("begin", 0)
       \/ /\ IF rearm = "mint" THEN ~MintGuard
                              ELSE row.stage # "in_review" \/ row.token # 0
          /\ UNCHANGED row /\ NoDelivery
    /\ UNCHANGED <<start, slotCooling, inputs, faults>>

-----------------------------------------------------------------------------
(* Levers of the owner, and writes that need no token *)

bounceImplementer ==
    CASE row.implementer # 0 -> row.implementer
      [] row.implementer = 0 /\ ~row.persona -> row.assignee
      [] OTHER -> 0

bounceTx_keepsProvenance ==
    LET impl == bounceImplementer
    IN  /\ ~row.paused
        /\ row' = [Minted(Unflagged(row)) EXCEPT !.stage = "in_progress",
                      !.assignee = impl, !.counted = TRUE, !.persona = FALSE]
        /\ NotDispatched
        /\ IF impl # 0 THEN Deliver("redispatch", impl)
                       ELSE Deliver("begin", 0)

(* A failed review: the row returns to its implementer under a new token,  *)
(* and the attempt is not counted again.                                   *)
bounceTx ==
    LET impl == bounceImplementer
    IN  /\ ~row.paused
        /\ row' = [Minted(Unflagged(row)) EXCEPT !.stage = "in_progress",
                      !.assignee = impl, !.counted = FALSE, !.persona = FALSE]
        /\ NotDispatched
        /\ IF impl # 0 THEN Deliver("redispatch", impl)
                       ELSE Deliver("begin", 0)

(* A row in review is moved by anyone: its owner, or a session with a      *)
(* stale token or none.                                                    *)
ReviewMove ==
    /\ row.stage = "in_review" /\ ~row.flagged
    /\ Input
    /\ \/ ~row.paused /\ row' = Done(row) /\ NoDelivery
       \/ row' \in {SelfFailed(row), Flagged(row)} /\ NoDelivery
       \/ bounceTx
    /\ UNCHANGED <<start, rearm, slotCooling, faults>>

(* The human's exit from the flag: back to the queue, or, when the row     *)
(* names a session, a fresh claim, with that session aborted.              *)
exitPendingReclaim ==
    /\ row.assignee # 0 /\ ~row.paused
    /\ row' = [Minted(Forgiven(Unflagged(Released(row)))) EXCEPT
                  !.stage = "in_progress"]
    /\ Deliver("begin", row.assignee)

exitPendingBacklog ==
    /\ row' = Moved(Forgiven(Released(row)), "backlog")
    /\ UNCHANGED <<spawns, blurred>> /\ sess' = Forgotten(sess)

ExitPending ==
    /\ row.flagged
    /\ Input
    /\ dispatched' = 0 /\ lastDispatch' = 0
    /\ exitPendingReclaim \/ exitPendingBacklog
    /\ UNCHANGED <<start, rearm, slotCooling, faults>>

(* A failed row returns only if the system failed it. *)
RearmTask ==
    /\ row.stage = "failed" /\ row.origin = "escalated"
    /\ Input
    /\ row' = [Unflagged(Forgiven(Released(row))) EXCEPT
                  !.stage = "backlog", !.cooling = FALSE]
    /\ dispatched' = 0 /\ lastDispatch' = 0
    /\ UNCHANGED <<spawns, start, rearm, slotCooling, faults, blurred>>
    /\ sess' = Forgotten(sess)

PauseTask ==
    /\ row.stage # "done" /\ ~row.paused
    /\ Input
    /\ row' = [row EXCEPT !.paused = TRUE]
    /\ NoDelivery
    /\ UNCHANGED <<start, rearm, slotCooling, faults>>

ResumeTask ==
    /\ row.paused
    /\ row' = [row EXCEPT !.paused = FALSE]
    /\ NoDelivery
    /\ UNCHANGED <<start, rearm, slotCooling, inputs, faults>>

(* DeposeTask takes back a lapsed claim that shows no life. *)
DeposeTask ==
    /\ row.stage = "in_progress" /\ ~row.flagged /\ Lapsed
    /\ Input
    /\ \/ row.assignee = 0
       \/ /\ row.assignee # 0 /\ row.nudge # "answered"
          /\ \E o \in Observable(row.assignee) : ~ShowsLife(o)
    /\ row' = Reclaimed(row)
    /\ NoDelivery
    /\ UNCHANGED <<start, rearm, slotCooling, faults>>

-----------------------------------------------------------------------------
(* Time *)

LeaseLapses ==
    /\ row.lease = "live"
    /\ row' = [row EXCEPT !.lease = "lapsed"]
    /\ NoDelivery
    /\ UNCHANGED <<start, rearm, slotCooling, inputs, faults>>

CooldownEnds ==
    /\ row.cooling \/ slotCooling
    /\ row' = [row EXCEPT !.cooling = FALSE]
    /\ slotCooling' = FALSE
    /\ NoDelivery
    /\ UNCHANGED <<start, rearm, inputs, faults>>

-----------------------------------------------------------------------------
Init ==
    /\ row = [stage |-> "backlog", token |-> 0, assignee |-> 0,
              implementer |-> 0, counted |-> FALSE, persona |-> FALSE,
              attempts |-> 0, failures |-> 0, lease |-> "none",
              cooling |-> FALSE, nudge |-> "none", busy |-> 0,
              flagged |-> FALSE, origin |-> "none", paused |-> FALSE]
    /\ sess = [s \in Sessions |-> Unborn] /\ spawns = {}
    /\ start = "no" /\ rearm = "no" /\ slotCooling = FALSE
    /\ inputs = 0 /\ faults = 0
    /\ dispatched = 0 /\ lastDispatch = 0 /\ blurred = FALSE

Next ==
    \/ claimOnce \/ TaskStartChecks \/ TaskStart
    \/ Delivery \/ ReplicaDies
    \/ \E s \in Sessions : \/ Heartbeat(s) \/ ToReview(s) \/ WorkerMoves(s)
                           \/ ReportThrottle(s) \/ WorkerStops(s)
    \/ rc1Reclaims \/ PersonaLapse \/ PersonaCandidates \/ PersonaRearm
    \/ ReviewMove \/ ExitPending \/ RearmTask
    \/ PauseTask \/ ResumeTask \/ DeposeTask
    \/ LeaseLapses \/ CooldownEnds

Spec == Init /\ [][Next]_vars

(* Time passes, the sweep's ticker runs every phase, and a delivery's      *)
(* calls end.  Nothing is promised of owners, workers, and their sessions. *)
Fairness ==
    /\ WF_vars(LeaseLapses) /\ WF_vars(CooldownEnds)
    /\ WF_vars(claimOnce) /\ WF_vars(Delivery)
    /\ WF_vars(rc1Reclaims) /\ WF_vars(PersonaLapse)
    /\ WF_vars(PersonaCandidates) /\ WF_vars(PersonaRearm)

FairSpec == Spec /\ Fairness

-----------------------------------------------------------------------------
(* Correctness *)

(* A row counts exactly the dispatches that no throttle handed back,       *)
(* since a human last forgave them: bounces, reviews, manual re-claims     *)
(* and the provenance flag never make it count one twice or refund one     *)
(* that was not counted.                                                   *)
AttemptsExact == row.attempts = dispatched

Alive(s) == sess[s].st \in {"working", "hung"}

(* At most one session that was not aborted holds the row's live token,    *)
(* except when a fault struck its delivery: a re-dispatch that reached the *)
(* implementer and whose answer was lost gives a second worker the token.  *)
OneAuthorizedWorker ==
    row.token # 0 /\ ~blurred =>
        \A s, z \in Sessions :
            /\ Alive(s) /\ sess[s].knows = row.token
            /\ Alive(z) /\ sess[z].knows = row.token
            => s = z

(* Once its delivery has ended the session that holds the claim is the one *)
(* the row names, so that the ladder, the nudge and the abort address the  *)
(* worker they judge; only a fault of the delivery parts the two.          *)
HolderIsNamed ==
    \A s \in Sessions :
        /\ row.token # 0 /\ ~blurred /\ Alive(s) /\ sess[s].knows = row.token
        /\ \A x \in spawns : x.sid # row.token
        => row.assignee = s

(* An open row that no live worker holds, and that waits for no human: the *)
(* worker died, hangs, was never spawned, or lost its claim.  The ladder   *)
(* trusts what it observes: it renews the claim of the session that the    *)
(* row names while that session moves, whatever it works on.               *)
Stranded ==
    /\ row.stage \notin {"done", "failed"}
    /\ ~row.flagged /\ ~row.paused
    /\ ~\E s \in Sessions : Holds(s)
    /\ ~(/\ row.stage = "in_progress" /\ row.assignee # 0
         /\ sess[row.assignee].st = "working")

(* A row is never stranded for good: the sweep dispatches it again, or     *)
(* ends it when the attempts are used up.                                  *)
NeverStranded == []<>~Stranded
=============================================================================
