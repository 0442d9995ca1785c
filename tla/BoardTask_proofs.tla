--------------------------- MODULE BoardTask_proofs ---------------------------
(***************************************************************************)
(* For every cap and bound: the types of a board row and its deliveries,   *)
(* that its attempts are exactly the dispatches no throttle handed back,   *)
(* that at most one session holds its live token, and that the holder is   *)
(* the session the row names.                                              *)
(***************************************************************************)
EXTENDS BoardTask, FiniteSetTheorems, WellFoundedInduction, TLAPS

-----------------------------------------------------------------------------
(* The inductive invariants *)

(* The claim that counted an attempt is the latest dispatch, and while     *)
(* that dispatch may still be handed back no other claim holds the row.    *)
CountedIsLatest ==
    /\ row.token # 0 => (row.counted <=> row.token = lastDispatch)
    /\ lastDispatch # 0 => dispatched >= 1
    /\ lastDispatch = 0 \/ row.token \in {0, lastDispatch}

BoardTypes == TypeOK /\ IsFiniteSet(spawns) /\ AttemptsExact /\ CountedIsLatest

(* A token is delivered once. *)
OneDelivery == \A x, y \in spawns : x.sid = y.sid => x = y

(* A re-dispatch goes to the session that the row already names.           *)
BounceIsNamed ==
    \A x \in spawns :
        x.step = "redispatch" /\ x.sid = row.token => x.old # 0 /\ row.assignee = x.old

Delivering == {x \in spawns : x.sid = row.token}

(* A live session that knows the row's token was born of a delivery that   *)
(* has yet to stamp it, or is named by the row, with no delivery left.     *)
HolderKnown ==
    \A s \in Sessions :
        row.token # 0 /\ ~blurred /\ Alive(s) /\ sess[s].knows = row.token =>
            \/ s = row.token /\ \E x \in Delivering : x.step = "stamp"
            \/ s = row.assignee /\ Delivering = {}

ClaimInv == OneDelivery /\ BounceIsNamed /\ HolderKnown

-----------------------------------------------------------------------------
(* A number is left to mint *)

LEMMA Caps ==
    /\ AttemptsCap \in Nat \ {0} /\ BusyRenewCap \in Nat /\ MaxDeliveries \in Nat
    /\ MaxInputs \in Nat /\ MaxFaults \in Nat
BY BoardBounds

LEMMA LeastNumber ==
    ASSUME NEW S \in SUBSET Nat, S # {}
    PROVE  \E x \in S : \A y \in S : x <= y
<1>1. PICK x \in S : \A y \in S : ~(<<y, x>> \in OpToRel(<, Nat))
  BY WFMin, NatLessThanWellFounded
<1>2. ASSUME NEW y \in S PROVE x <= y
  <2>1. y \in Nat /\ x \in Nat
    OBVIOUS
  <2>2. ~(y < x)
    BY <2>1, <1>1 DEF OpToRel
  <2> QED BY <2>1, <2>2
<1> QED BY <1>2

(* The image of a finite set under a function is no larger.                *)
LEMMA ImageBound ==
    ASSUME NEW S, IsFiniteSet(S), NEW T, NEW f \in [S -> T], T = {f[x] : x \in S}
    PROVE  /\ IsFiniteSet(T) /\ Cardinality(T) \in Nat /\ Cardinality(S) \in Nat
           /\ Cardinality(T) <= Cardinality(S)
<1>1. f \in Surjection(S, T)
  BY DEF Surjection
<1> QED BY <1>1, FS_Surjection, FS_CardinalityType

(* A union is no larger than its two parts together.                       *)
LEMMA UnionBound ==
    ASSUME NEW S, NEW T, IsFiniteSet(S), IsFiniteSet(T)
    PROVE  /\ IsFiniteSet(S \cup T) /\ Cardinality(S \cup T) \in Nat
           /\ Cardinality(S) \in Nat /\ Cardinality(T) \in Nat
           /\ Cardinality(S \cup T) <= Cardinality(S) + Cardinality(T)
<1>1. IsFiniteSet(S \cup T) /\ Cardinality(S \cup T) = Cardinality(S) + Cardinality(T) - Cardinality(S \cap T)
  BY FS_Union
<1>2. IsFiniteSet(S \cap T)
  BY FS_Intersection
<1>3. Cardinality(S \cap T) \in Nat /\ Cardinality(S) \in Nat /\ Cardinality(T) \in Nat
      /\ Cardinality(S \cup T) \in Nat
  BY <1>1, <1>2, FS_CardinalityType
<1> QED BY <1>1, <1>3

LEMMA TripleBound ==
    ASSUME NEW a, NEW b, NEW c
    PROVE  IsFiniteSet({a, b, c}) /\ Cardinality({a, b, c}) <= 3
<1>1. IsFiniteSet({a}) /\ Cardinality({a}) = 1
  BY FS_Singleton, Zenon
<1>2. IsFiniteSet({b}) /\ Cardinality({b}) = 1
  BY FS_Singleton, Zenon
<1>3. IsFiniteSet({c}) /\ Cardinality({c}) = 1
  BY FS_Singleton, Zenon
<1>4. IsFiniteSet({a} \cup {b}) /\ Cardinality({a} \cup {b}) <= 2 /\ Cardinality({a} \cup {b}) \in Nat
  BY <1>1, <1>2, UnionBound
<1>5. IsFiniteSet(({a} \cup {b}) \cup {c}) /\ Cardinality(({a} \cup {b}) \cup {c}) <= 3
  BY <1>3, <1>4, UnionBound
<1>6. ({a} \cup {b}) \cup {c} = {a, b, c}
  OBVIOUS
<1> QED BY <1>5, <1>6

(* While a delivery may be started, a number is free: the row's fields     *)
(* name at most three, because the latest dispatch is the row's claim or   *)
(* forgotten, and each delivery two.                                       *)
LEMMA FreshExists ==
    ASSUME BoardTypes, Cardinality(spawns) < MaxDeliveries
    PROVE  Fresh \in Sessions /\ Fresh \notin InUse /\ Fresh # 0
<1> DEFINE A == {x.sid : x \in spawns}
           B == {x.old : x \in spawns}
           m == IF row.token # 0 THEN row.token ELSE lastDispatch
           C == {m, row.assignee, row.implementer}
           n == Cardinality(spawns)
<1>1. IsFiniteSet(spawns) /\ n \in Nat
  BY FS_CardinalityType DEF BoardTypes
<1>2. IsFiniteSet(A) /\ Cardinality(A) <= n /\ Cardinality(A) \in Nat
  <2> DEFINE f == [x \in spawns |-> x.sid]
  <2>1. f \in [spawns -> A] /\ A = {f[x] : x \in spawns}
    OBVIOUS
  <2> HIDE DEF f, A
  <2> QED BY <1>1, <2>1, ImageBound
<1>3. IsFiniteSet(B) /\ Cardinality(B) <= n /\ Cardinality(B) \in Nat
  <2> DEFINE f == [x \in spawns |-> x.old]
  <2>1. f \in [spawns -> B] /\ B = {f[x] : x \in spawns}
    OBVIOUS
  <2> HIDE DEF f, B
  <2> QED BY <1>1, <2>1, ImageBound
<1>4. IsFiniteSet(C) /\ Cardinality(C) <= 3 /\ Cardinality(C) \in Nat
  BY TripleBound, FS_CardinalityType
<1>5. InUse \subseteq ((A \cup B) \cup C) \cup {0}
  BY DEF InUse, BoardTypes, CountedIsLatest
<1> HIDE DEF A, B, C, n
<1>6. IsFiniteSet((A \cup B) \cup C) /\ Cardinality((A \cup B) \cup C) <= n + n + 3
      /\ Cardinality((A \cup B) \cup C) \in Nat
  <2>1. IsFiniteSet(A \cup B) /\ Cardinality(A \cup B) \in Nat /\ Cardinality(A \cup B) <= n + n
    BY <1>1, <1>2, <1>3, UnionBound
  <2> QED BY <1>1, <1>4, <2>1, UnionBound
<1>7. n < MaxDeliveries
  BY DEF n
<1>8. Sessions \ InUse # {}
  <2> SUFFICES ASSUME Sessions \subseteq InUse PROVE FALSE
    OBVIOUS
  <2>1. Sessions \subseteq (A \cup B) \cup C
    BY <1>5 DEF Sessions
  <2>2. Cardinality(Sessions) <= Cardinality((A \cup B) \cup C)
    BY <2>1, <1>6, FS_Subset
  <2>3. Cardinality(Sessions) = 2 + 2 * MaxDeliveries
    <3>1. 1 \in Int /\ 2 + 2 * MaxDeliveries \in Int /\ ~(1 > 2 + 2 * MaxDeliveries)
      BY Caps
    <3>2. Cardinality(1..(2 + 2 * MaxDeliveries)) = (2 + 2 * MaxDeliveries) - 1 + 1
      BY <3>1, FS_Interval
    <3> QED BY <3>1, <3>2 DEF Sessions
  <2> QED BY <1>1, <1>6, <1>7, <2>2, <2>3, Caps
<1>9. Sessions \ InUse \in SUBSET Nat
  BY DEF Sessions
<1>10. \E k \in Sessions \ InUse : \A j \in Sessions \ InUse : k <= j
  BY <1>8, <1>9, LeastNumber
<1>11. Fresh \in Sessions \ InUse
  BY <1>10 DEF Fresh
<1> QED BY <1>11 DEF Sessions

-----------------------------------------------------------------------------
(* What the updates of the row do to its claim *)

(* The claim, its assignee and its attempts are left alone, or the claim   *)
(* ends with its attempts counted.                                         *)
SameClaim(r, q) ==
    /\ q.token = r.token /\ q.assignee = r.assignee
    /\ q.counted = r.counted /\ q.attempts = r.attempts

ClaimEnded(r, q) == q.token = 0 /\ q.attempts = r.attempts

LEMMA ReleasedRow ==
    ASSUME NEW r \in Rows
    PROVE  Released(r) \in Rows /\ ClaimEnded(r, Released(r)) /\ ~Released(r).counted
           /\ Released(r).attempts = r.attempts
BY DEF Released, Rows, ClaimEnded

LEMMA MintedRow ==
    ASSUME NEW r \in Rows, Fresh \in Sessions
    PROVE  /\ Minted(r) \in Rows /\ Minted(r).token = Fresh
           /\ Minted(r).attempts = r.attempts /\ Minted(r).counted = r.counted
           /\ Minted(r).assignee = r.assignee
<1>1. 0 \in 0..BusyRenewCap
  BY Caps
<1> QED BY <1>1 DEF Minted, Rows

LEMMA FailureRow ==
    ASSUME NEW r \in Rows
    PROVE  Failure(r) \in Rows /\ SameClaim(r, Failure(r))
<1>1. (IF r.failures < AttemptsCap THEN r.failures + 1 ELSE r.failures) \in 0..AttemptsCap
  BY Caps DEF Rows
<1> QED BY <1>1 DEF Failure, Rows, SameClaim

LEMMA UnflaggedRow ==
    ASSUME NEW r \in Rows
    PROVE  Unflagged(r) \in Rows /\ SameClaim(r, Unflagged(r))
BY DEF Unflagged, Rows, SameClaim

LEMMA MovedRow ==
    ASSUME NEW r \in Rows, NEW to \in {"backlog", "done", "failed"} \cup Claimed
    PROVE  Moved(r, to) \in Rows /\ SameClaim(r, Moved(r, to))
<1>1. 0 \in 0..BusyRenewCap
  BY Caps
<1>2. Unflagged(r) \in Rows /\ SameClaim(r, Unflagged(r))
  BY UnflaggedRow
<1> DEFINE u == Unflagged(r)
<1>3. /\ [u EXCEPT !.stage = to, !.nudge = "none", !.busy = 0] \in Rows
      /\ SameClaim(u, [u EXCEPT !.stage = to, !.nudge = "none", !.busy = 0])
  <2> HIDE DEF u
  <2>1. u \in Rows
    BY <1>2 DEF u
  <2> QED BY <1>1, <2>1, ZenonT(60) DEF Rows, SameClaim
<1> QED BY <1>2, <1>3 DEF Moved, SameClaim

LEMMA ForgivenRow ==
    ASSUME NEW r \in Rows
    PROVE  /\ Forgiven(r) \in Rows /\ Forgiven(r).token = r.token
           /\ Forgiven(r).attempts = 0 /\ Forgiven(r).counted = r.counted
<1>1. 0 \in 0..AttemptsCap
  BY Caps
<1> QED BY <1>1 DEF Forgiven, Rows

LEMMA EscalatedRow ==
    ASSUME NEW r \in Rows
    PROVE  Escalated(r) \in Rows /\ SameClaim(r, Escalated(r))
BY DEF Escalated, Rows, SameClaim

LEMMA FlaggedRow ==
    ASSUME NEW r \in Rows
    PROVE  Flagged(r) \in Rows /\ SameClaim(r, Flagged(r))
BY DEF Flagged, Rows, SameClaim

LEMMA DoneRow ==
    ASSUME NEW r \in Rows
    PROVE  Done(r) \in Rows /\ ClaimEnded(r, Done(r))
<1>1. 0 \in 0..AttemptsCap
  BY Caps
<1>2. Moved(r, "done") \in Rows /\ SameClaim(r, Moved(r, "done"))
  BY MovedRow
<1> QED BY <1>1, <1>2, ZenonT(60) DEF Done, Rows, SameClaim, ClaimEnded

LEMMA SelfFailedRow ==
    ASSUME NEW r \in Rows
    PROVE  SelfFailed(r) \in Rows /\ ClaimEnded(r, SelfFailed(r))
<1>1. Released(r) \in Rows /\ ClaimEnded(r, Released(r))
  BY ReleasedRow
<1>2. Failure(Released(r)) \in Rows /\ SameClaim(Released(r), Failure(Released(r)))
  BY <1>1, FailureRow
<1>3. /\ Unflagged(Failure(Released(r))) \in Rows
      /\ SameClaim(Failure(Released(r)), Unflagged(Failure(Released(r))))
  BY <1>2, UnflaggedRow
<1> QED BY <1>1, <1>2, <1>3 DEF SelfFailed, Rows, SameClaim, ClaimEnded

LEMMA ReclaimedRow ==
    ASSUME NEW r \in Rows
    PROVE  /\ Reclaimed(r) \in Rows /\ ClaimEnded(r, Reclaimed(r))
           /\ Failure(Released(r)) \in Rows /\ ClaimEnded(r, Failure(Released(r)))
<1>1. Released(r) \in Rows /\ ClaimEnded(r, Released(r))
  BY ReleasedRow
<1>2. Failure(Released(r)) \in Rows /\ SameClaim(Released(r), Failure(Released(r)))
  BY <1>1, FailureRow
<1> QED BY <1>1, <1>2, ZenonT(60) DEF Reclaimed, Rows, SameClaim, ClaimEnded

-----------------------------------------------------------------------------
(* The kinds of steps *)

Rest ==
    /\ start \in {"no", "checked"} /\ rearm \in {"no", "mint", "escalate"}
    /\ slotCooling \in BOOLEAN
    /\ inputs \in 0..MaxInputs /\ faults \in 0..MaxFaults

LEMMA ForgottenType ==
    ASSUME NEW known \in [Sessions -> Workers]
    PROVE  /\ Forgotten(known) \in [Sessions -> Workers]
           /\ \A s \in Sessions : Forgotten(known)[s] \in {known[s], Unborn}
<1>1. Unborn \in Workers
  BY DEF Unborn, Workers
<1> QED BY <1>1 DEF Forgotten

(* A session that is forgotten is not alive. *)
LEMMA ForgottenAlive ==
    ASSUME TypeOK, NEW known \in [Sessions -> Workers], sess' = Forgotten(known),
           NEW s \in Sessions, Alive(s)'
    PROVE  sess'[s] = known[s] /\ known[s].st \in {"working", "hung"}
<1>1. Unborn.st = "unborn"
  BY DEF Unborn
<1> QED BY <1>1, ForgottenType DEF Alive

ForgivenStep ==
    row'.token = 0 /\ row'.attempts = 0 /\ dispatched' = 0 /\ lastDispatch' = 0

(* The row is updated and nothing is delivered.                            *)
LEMMA PlainStep ==
    ASSUME BoardTypes, ClaimInv, Rest', row' \in Rows,
           \/ SameClaim(row, row') /\ UNCHANGED <<dispatched, lastDispatch>>
           \/ ClaimEnded(row, row') /\ UNCHANGED <<dispatched, lastDispatch>>
           \/ ForgivenStep,
           UNCHANGED <<spawns, blurred>>,
           NEW known \in [Sessions -> Workers], sess' = Forgotten(known) \/ sess' = known,
           \A s \in Sessions : known[s] = sess[s]
              \/ /\ known[s].st \in {"working", "hung"} => Alive(s)
                 /\ known[s].knows \in {0, sess[s].knows}
    PROVE  BoardTypes' /\ ClaimInv'
<1>1. sess' \in [Sessions -> Workers]
  BY ForgottenType
<1>2. dispatched' \in Nat /\ lastDispatch' \in {0} \cup Sessions
  BY DEF BoardTypes, TypeOK, ForgivenStep
<1>3. TypeOK'
  BY <1>1, <1>2 DEF BoardTypes, TypeOK, Rest
<1>4. AttemptsExact' /\ CountedIsLatest'
  BY DEF BoardTypes, AttemptsExact, CountedIsLatest, SameClaim, ClaimEnded, ForgivenStep
<1>5. OneDelivery'
  BY DEF ClaimInv, OneDelivery
<1>6. row'.token = 0 \/ (row'.token = row.token /\ row'.assignee = row.assignee)
  BY DEF SameClaim, ClaimEnded, ForgivenStep
<1>7. \A x \in spawns : x.sid # 0
  BY DEF BoardTypes, TypeOK, Spawns, Sessions
<1>8. BounceIsNamed'
  BY <1>6, <1>7 DEF ClaimInv, BounceIsNamed
<1>9. ASSUME NEW s \in Sessions, Alive(s)'
      PROVE  Alive(s) /\ sess'[s].knows \in {0, sess[s].knows}
  BY <1>9, ForgottenAlive DEF Alive, BoardTypes
<1>10. row'.token = row.token => Delivering' = Delivering
  BY DEF Delivering
<1>11. HolderKnown'
  BY <1>6, <1>9, <1>10 DEF ClaimInv, HolderKnown
<1> QED BY <1>3, <1>4, <1>5, <1>8, <1>11 DEF BoardTypes, ClaimInv

(* The row gets a fresh claim, and its delivery is started.                *)
LEMMA DeliverStep ==
    ASSUME BoardTypes, ClaimInv, Rest', row' \in Rows, row'.token = Fresh,
           NEW step \in {"redispatch", "begin", "spawn"}, NEW old \in {0} \cup Sessions,
           step = "redispatch" => old # 0 /\ row'.assignee = old,
           Deliver(step, old),
           \/ /\ dispatched' = dispatched + 1 /\ lastDispatch' = Fresh
              /\ row'.counted /\ row'.attempts = row.attempts + 1
           \/ /\ NotDispatched
              /\ ~row'.counted /\ row'.attempts = row.attempts
           \/ /\ dispatched' = 0 /\ lastDispatch' = 0
              /\ ~row'.counted /\ row'.attempts = 0
    PROVE  BoardTypes' /\ ClaimInv'
<1> DEFINE d == [sid |-> Fresh, old |-> old, step |-> step]
           known == [i \in Sessions |-> [sess[i] EXCEPT !.knows = 0]]
<1>1. Fresh \in Sessions /\ Fresh \notin InUse /\ Fresh # 0
  BY FreshExists DEF Deliver
<1>2. d \in Spawns /\ d.sid = Fresh /\ d.old = old /\ d.step = step
  BY <1>1 DEF Spawns
<1>3. spawns' = spawns \cup {d} /\ sess' = Forgotten(known) /\ blurred' = FALSE
  BY DEF Deliver
<1>4. known \in [Sessions -> Workers] /\ \A s \in Sessions : known[s].knows = 0
  BY DEF BoardTypes, TypeOK, Workers
<1> HIDE DEF d, known
<1>5. sess' \in [Sessions -> Workers]
  BY <1>3, <1>4, ForgottenType
<1>6. \A s \in Sessions : sess'[s].knows = 0
  <2>1. Unborn.knows = 0
    BY DEF Unborn
  <2> QED BY <1>3, <1>4, <2>1, ForgottenType
<1>7. dispatched' \in Nat /\ lastDispatch' \in {0} \cup Sessions
  BY <1>1 DEF BoardTypes, TypeOK, NotDispatched
<1>8. TypeOK'
  BY <1>2, <1>3, <1>5, <1>7 DEF BoardTypes, TypeOK, Rest
<1>9. IsFiniteSet(spawns')
  BY <1>3, FS_AddElement DEF BoardTypes
<1>10. row.attempts = dispatched /\ dispatched \in Nat
  BY DEF BoardTypes, AttemptsExact, TypeOK
<1>11. AttemptsExact' /\ CountedIsLatest'
  BY <1>1, <1>10 DEF AttemptsExact, CountedIsLatest, NotDispatched
<1>12. \A x \in spawns : x.sid # Fresh
  BY <1>1 DEF InUse
<1>13. OneDelivery'
  BY <1>2, <1>3, <1>12 DEF ClaimInv, OneDelivery
<1>14. BounceIsNamed'
  BY <1>2, <1>3, <1>12 DEF BounceIsNamed
<1>15. HolderKnown'
  BY <1>1, <1>6 DEF HolderKnown
<1> QED BY <1>8, <1>9, <1>11, <1>13, <1>14, <1>15 DEF BoardTypes, ClaimInv

LEMMA RestStep ==
    ASSUME TypeOK, Next PROVE Rest'
<1> USE DEF Rest
<1>1. Input => inputs' \in 0..MaxInputs
  BY Caps DEF Input, TypeOK
<1>2. Fault => faults' \in 0..MaxFaults
  BY Caps DEF Fault, TypeOK
<1>3. CASE claimOnce \/ TaskStartChecks \/ TaskStart
  BY <1>1, <1>3 DEF claimOnce, TaskStartChecks, TaskStart, TypeOK
<1>4. CASE Delivery
  BY <1>2, <1>4 DEF Delivery, Abort, redispatchBounce, spawner, spawnSync, Step, NoFault, Blur, TypeOK
<1>5. CASE ReplicaDies
  BY <1>2, <1>5 DEF ReplicaDies, TypeOK
<1>6. CASE \E s \in Sessions : \/ Heartbeat(s) \/ ToReview(s) \/ WorkerMoves(s)
                               \/ ReportThrottle(s) \/ WorkerStops(s)
  BY <1>1, <1>2, <1>6 DEF Heartbeat, ToReview, WorkerMoves, ReportThrottle, WorkerStops, TypeOK
<1>7. CASE rc1Reclaims
  BY <1>2, <1>7 DEF rc1Reclaims, Reclaim, Renew, Wedge, TypeOK
<1>8. CASE PersonaLapse \/ PersonaCandidates \/ PersonaRearm
  BY <1>2, <1>8 DEF PersonaLapse, PersonaCandidates, PersonaRearm, TypeOK
<1>9. CASE ReviewMove \/ ExitPending \/ RearmTask \/ PauseTask \/ ResumeTask \/ DeposeTask
  BY <1>1, <1>9 DEF ReviewMove, ExitPending, RearmTask, PauseTask, ResumeTask, DeposeTask, TypeOK
<1>10. CASE LeaseLapses \/ CooldownEnds
  BY <1>10 DEF LeaseLapses, CooldownEnds, TypeOK
<1> QED BY <1>3, <1>4, <1>5, <1>6, <1>7, <1>8, <1>9, <1>10 DEF Next

(* An update of the row by an action that delivers nothing.                *)
LEMMA RowStep ==
    ASSUME BoardTypes, ClaimInv, Rest', NoDelivery, row' \in Rows,
           SameClaim(row, row') \/ ClaimEnded(row, row')
    PROVE  BoardTypes' /\ ClaimInv'
<1>1. sess \in [Sessions -> Workers]
  BY DEF BoardTypes, TypeOK
<1>2. UNCHANGED <<spawns, dispatched, lastDispatch, blurred>> /\ sess' = Forgotten(sess)
  BY DEF NoDelivery, history
<1> QED BY <1>1, <1>2, PlainStep

LEMMA ClaimStep ==
    ASSUME BoardTypes, ClaimInv, Rest', Claim
    PROVE  BoardTypes' /\ ClaimInv'
<1>1. row \in Rows
  BY DEF BoardTypes, TypeOK
<1>2. CASE row' = Escalated(row) /\ NoDelivery
  BY <1>1, <1>2, EscalatedRow, RowStep
<1>3. CASE /\ row.attempts < AttemptsCap
           /\ row' = [Minted(row) EXCEPT !.stage = "in_progress", !.assignee = 0,
                         !.implementer = 0, !.persona = FALSE, !.counted = TRUE,
                         !.attempts = @ + 1]
           /\ dispatched' = dispatched + 1 /\ lastDispatch' = Fresh
           /\ Deliver("spawn", 0)
  <2> DEFINE m == Minted(row)
  <2>1. Fresh \in Sessions
    BY <1>3, FreshExists DEF Deliver
  <2>2. m \in Rows /\ m.token = Fresh /\ m.attempts = row.attempts
    BY <1>1, <2>1, MintedRow
  <2>3. row' = [m EXCEPT !.stage = "in_progress", !.assignee = 0,
                   !.implementer = 0, !.persona = FALSE, !.counted = TRUE,
                   !.attempts = row.attempts + 1]
    BY <1>3, <2>2
  <2>4. row.attempts + 1 \in 0..AttemptsCap
    BY <1>1, <1>3, Caps DEF Rows
  <2> HIDE DEF m
  <2>5. row' \in Rows /\ row'.token = Fresh /\ row'.counted /\ row'.attempts = row.attempts + 1
    BY <2>2, <2>3, <2>4 DEF Rows, Claimed
  <2> QED BY <1>3, <2>5, DeliverStep
<1> QED BY <1>2, <1>3 DEF Claim

(* A step of a delivery.  What is left to show is that the holder of the   *)
(* row's claim stays known when the delivery is the claim's.               *)
LEMMA AnyDeliveryStep ==
    ASSUME BoardTypes, ClaimInv, Rest', NEW x \in spawns, NEW left \in SUBSET Spawns,
           left = {} \/ \E y : left = {y},
           \A y \in left : y.sid = x.sid /\ y.step # "redispatch",
           NEW known \in [Sessions -> Workers], Step(x, left, known),
           \A s \in Sessions : known[s] = sess[s] \/ known[s].knows \in {0, x.sid},
           row' \in Rows, row'.token = row.token, row'.counted = row.counted,
           row'.attempts = row.attempts, row'.assignee = row.assignee \/ x.sid = row.token,
           blurred' \in BOOLEAN, blurred' = FALSE => blurred = FALSE,
           row.token = x.sid => HolderKnown'
    PROVE  BoardTypes' /\ ClaimInv'
<1>1. spawns' = (spawns \ {x}) \cup left /\ UNCHANGED <<dispatched, lastDispatch>> /\ sess' = Forgotten(known)
  BY DEF Step
<1>2. TypeOK'
  BY <1>1, ForgottenType DEF BoardTypes, TypeOK, Rest
<1>3. IsFiniteSet(spawns')
  <2>1. IsFiniteSet(spawns \ {x})
    BY FS_RemoveElement DEF BoardTypes
  <2>2. CASE left = {}
    BY <1>1, <2>1, <2>2
  <2>3. CASE \E y : left = {y}
    BY <1>1, <2>1, <2>3, FS_AddElement
  <2> QED BY <2>2, <2>3
<1>4. AttemptsExact' /\ CountedIsLatest'
  BY <1>1 DEF BoardTypes, AttemptsExact, CountedIsLatest
<1>5. OneDelivery'
  BY <1>1 DEF ClaimInv, OneDelivery
<1>6. BounceIsNamed'
  BY <1>1 DEF ClaimInv, OneDelivery, BounceIsNamed
<1>7. CASE row.token # x.sid
  <2>1. Delivering' = Delivering
    BY <1>1, <1>7 DEF Delivering
  <2>2. ASSUME NEW s \in Sessions, Alive(s)', sess'[s].knows = row.token, row.token # 0
        PROVE  Alive(s) /\ sess[s].knows = row.token
    BY <1>1, <1>7, <2>2, ForgottenAlive DEF Alive, BoardTypes
  <2>3. HolderKnown'
    BY <1>7, <2>1, <2>2 DEF ClaimInv, HolderKnown
  <2> QED BY <1>2, <1>3, <1>4, <1>5, <1>6, <2>3 DEF BoardTypes, ClaimInv
<1> QED BY <1>2, <1>3, <1>4, <1>5, <1>6, <1>7 DEF BoardTypes, ClaimInv

(* While the claim's delivery has not yet reached a session, none knows    *)
(* the token.                                                              *)
LEMMA NobodyKnows ==
    ASSUME BoardTypes, ClaimInv, NEW x \in spawns, x.sid = row.token, ~blurred,
           NEW s \in Sessions, Alive(s), sess[s].knows = row.token
    PROVE  x.step = "stamp" /\ s = row.token
<1>1. row.token # 0
  BY DEF BoardTypes, TypeOK, Spawns, Sessions
<1>2. x \in Delivering
  BY DEF Delivering
<1> QED BY <1>1, <1>2 DEF ClaimInv, HolderKnown, OneDelivery, Delivering

LEMMA DeliveryStep ==
    ASSUME BoardTypes, ClaimInv, Rest', Delivery
    PROVE  BoardTypes' /\ ClaimInv'
<1>0. PICK x \in spawns : Abort(x) \/ redispatchBounce(x) \/ spawner(x) \/ spawnSync(x)
  BY DEF Delivery
<1>1. /\ x \in Spawns /\ x.sid \in Sessions /\ x.old \in {0} \cup Sessions
      /\ sess \in [Sessions -> Workers] /\ row \in Rows /\ blurred \in BOOLEAN
      /\ x.sid # 0
  BY <1>0 DEF BoardTypes, TypeOK, Spawns, Sessions
<1>2. Gone \in Workers /\ Gone.knows = 0 /\ Gone.st = "gone"
  BY DEF Gone, Workers
<1>3. ASSUME Blur(x)
      PROVE  /\ blurred' \in BOOLEAN /\ (blurred' = FALSE => blurred = FALSE)
             /\ row'.token = row.token /\ row.token = x.sid => HolderKnown'
  BY <1>1, <1>3 DEF Blur, HolderKnown
<1>4. NoFault => blurred' = blurred
  BY DEF NoFault
<1>5. CASE Abort(x)
  <2> DEFINE y == [x EXCEPT !.old = 0]
  <2>1. x.step = "begin" /\ x.old # 0 /\ x.old \in Sessions /\ UNCHANGED row
    BY <1>1, <1>5 DEF Abort
  <2>2. y \in Spawns /\ y.sid = x.sid /\ y.step = "begin"
    BY <1>1, <2>1 DEF Spawns
  <2> HIDE DEF y
  <2>3. CASE NoFault /\ Step(x, {y}, [sess EXCEPT ![x.old] = Gone])
    <3> DEFINE known == [sess EXCEPT ![x.old] = Gone]
    <3>1. known \in [Sessions -> Workers] /\ \A s \in Sessions : known[s] = sess[s] \/ known[s] = Gone
      BY <1>1, <1>2
    <3> HIDE DEF known
    <3>2. row.token = x.sid => HolderKnown'
      <4> SUFFICES ASSUME row.token = x.sid, ~blurred', NEW s \in Sessions, Alive(s)', sess'[s].knows = row.token
                   PROVE  FALSE
        BY <2>1 DEF HolderKnown
      <4>1. Alive(s) /\ sess[s].knows = row.token
        BY <1>1, <1>2, <2>3, <3>1, ForgottenAlive DEF Alive, Step, known, BoardTypes
      <4> QED BY <1>0, <1>4, <2>1, <2>3, <4>1, NobodyKnows
    <3> QED BY <1>1, <1>2, <1>4, <2>1, <2>2, <2>3, <3>1, <3>2, AnyDeliveryStep DEF known
  <2>4. CASE Blur(x) /\ Step(x, {y}, sess)
    BY <1>1, <1>3, <2>1, <2>2, <2>4, AnyDeliveryStep
  <2> QED BY <1>5, <2>3, <2>4 DEF Abort, y
<1>6. CASE redispatchBounce(x)
  <2> DEFINE y == [x EXCEPT !.step = "begin", !.old = 0]
             known == Told(x)
  <2>1. x.step = "redispatch" /\ UNCHANGED row
    BY <1>6 DEF redispatchBounce
  <2>2. y \in Spawns /\ y.sid = x.sid /\ y.step = "begin" /\ ToFresh(x) = {y}
    BY <1>1 DEF Spawns, ToFresh
  <2>3. /\ known \in [Sessions -> Workers]
        /\ \A s \in Sessions : known[s] = sess[s] \/ (s = x.old /\ known[s].knows = x.sid)
    <3>1. known = [sess EXCEPT ![x.old] = [sess[x.old] EXCEPT !.knows = x.sid]]
      BY DEF Told
    <3>2. CASE x.old \in Sessions
      <4>1. /\ [sess[x.old] EXCEPT !.knows = x.sid] \in Workers
            /\ [sess[x.old] EXCEPT !.knows = x.sid].knows = x.sid
        BY <1>1, <3>2 DEF Workers
      <4> QED BY <1>1, <3>1, <3>2, <4>1
    <3>3. CASE x.old \notin Sessions
      BY <1>1, <3>1, <3>3
    <3> QED BY <3>2, <3>3
  <2> HIDE DEF y, known
  <2>4. CASE NoFault /\ Step(x, {y}, sess)
    <3>1. row.token = x.sid => HolderKnown'
      <4> SUFFICES ASSUME row.token = x.sid, ~blurred', NEW s \in Sessions, Alive(s)', sess'[s].knows = row.token
                   PROVE  FALSE
        BY <2>1 DEF HolderKnown
      <4>1. Alive(s) /\ sess[s].knows = row.token
        BY <1>1, <2>4, ForgottenAlive DEF Alive, Step, BoardTypes
      <4> QED BY <1>0, <1>4, <2>1, <2>4, <4>1, NobodyKnows
    <3> QED BY <1>1, <1>4, <2>1, <2>2, <2>4, <3>1, AnyDeliveryStep
  <2>5. CASE NoFault /\ Step(x, {}, known)
    <3>1. row.token = x.sid => HolderKnown'
      <4> SUFFICES ASSUME row.token = x.sid, ~blurred', NEW s \in Sessions, Alive(s)', sess'[s].knows = row.token
                   PROVE  s = row.assignee /\ Delivering' = {}
        BY <2>1 DEF HolderKnown
      <4>1. Delivering' = {}
        BY <1>0, <2>1, <2>5 DEF Delivering, Step, ClaimInv, OneDelivery
      <4>2. row.assignee = x.old
        BY <1>0, <2>1 DEF ClaimInv, BounceIsNamed
      <4>3. sess'[s] = known[s] /\ known[s].st \in {"working", "hung"}
        BY <2>3, <2>5, ForgottenAlive DEF Step, BoardTypes
      <4>4. CASE known[s] = sess[s]
        <5>1. Alive(s) /\ sess[s].knows = row.token
          BY <4>3, <4>4 DEF Alive
        <5> QED BY <1>0, <1>4, <2>1, <2>5, <5>1, NobodyKnows
      <4> QED BY <2>3, <4>1, <4>2, <4>4
    <3> QED BY <1>1, <1>4, <2>1, <2>3, <2>5, <3>1, AnyDeliveryStep
  <2>6. CASE Blur(x) /\ Step(x, {y}, known)
    BY <1>1, <1>3, <2>1, <2>2, <2>3, <2>6, AnyDeliveryStep
  <2> QED BY <1>6, <2>2, <2>4, <2>5, <2>6 DEF redispatchBounce, known
<1>7. CASE spawner(x)
  <2> DEFINE w == [st |-> "working", knows |-> x.sid]
             born == [sess EXCEPT ![x.sid] = w]
             y == [x EXCEPT !.step = "stamp"]
  <2>1. x.step \in {"begin", "spawn"} /\ UNCHANGED row
    BY <1>7 DEF spawner
  <2>2. y \in Spawns /\ y.sid = x.sid /\ y.step = "stamp"
    BY <1>1 DEF Spawns
  <2>3. w \in Workers /\ w.knows = x.sid
    BY <1>1 DEF Workers
  <2> HIDE DEF w, y
  <2>4. /\ born \in [Sessions -> Workers]
        /\ \A s \in Sessions : born[s] = sess[s] \/ (s = x.sid /\ born[s].knows = x.sid)
    BY <1>1, <2>3
  <2> HIDE DEF born
  <2>5. CASE NoFault /\ Step(x, {y}, born)
    <3>1. row.token = x.sid => HolderKnown'
      <4> SUFFICES ASSUME row.token = x.sid, ~blurred', NEW s \in Sessions, Alive(s)', sess'[s].knows = row.token
                   PROVE  s = row.token /\ \E z \in Delivering' : z.step = "stamp"
        BY <2>1 DEF HolderKnown
      <4>1. y \in Delivering'
        BY <2>1, <2>2, <2>5 DEF Delivering, Step
      <4>2. sess'[s] = born[s] /\ born[s].st \in {"working", "hung"}
        BY <2>4, <2>5, ForgottenAlive DEF Step, BoardTypes
      <4>3. CASE born[s] = sess[s]
        <5>1. Alive(s) /\ sess[s].knows = row.token
          BY <4>2, <4>3 DEF Alive
        <5> QED BY <1>0, <1>4, <2>1, <2>5, <5>1, NobodyKnows
      <4> QED BY <2>2, <2>4, <4>1, <4>3
    <3> QED BY <1>1, <1>4, <2>1, <2>2, <2>4, <2>5, <3>1, AnyDeliveryStep
  <2>6. CASE Blur(x) /\ Step(x, {}, born)
    BY <1>1, <1>3, <2>1, <2>4, <2>6, AnyDeliveryStep
  <2>7. CASE NoFault /\ Step(x, {}, sess)
    <3>1. row.token = x.sid => HolderKnown'
      <4> SUFFICES ASSUME row.token = x.sid, ~blurred', NEW s \in Sessions, Alive(s)', sess'[s].knows = row.token
                   PROVE  FALSE
        BY <2>1 DEF HolderKnown
      <4>1. Alive(s) /\ sess[s].knows = row.token
        BY <1>1, <2>7, ForgottenAlive DEF Alive, Step, BoardTypes
      <4> QED BY <1>0, <1>4, <2>1, <2>7, <4>1, NobodyKnows
    <3> QED BY <1>1, <1>4, <2>1, <2>7, <3>1, AnyDeliveryStep
  <2> QED BY <1>7, <2>5, <2>6, <2>7 DEF spawner, born, w, y
<1>8. CASE spawnSync(x)
  <2>1. x.step = "stamp"
    BY <1>8 DEF spawnSync
  <2>2. CASE /\ row.token = x.sid /\ row' = [row EXCEPT !.assignee = x.sid, !.lease = "live"]
             /\ NoFault /\ Step(x, {}, sess)
    <3>1. /\ row' \in Rows /\ row'.token = row.token /\ row'.counted = row.counted
          /\ row'.attempts = row.attempts /\ row'.assignee = x.sid
      BY <1>1, <2>2 DEF Rows
    <3>2. HolderKnown'
      <4> SUFFICES ASSUME ~blurred', NEW s \in Sessions, Alive(s)', sess'[s].knows = row.token
                   PROVE  s = row'.assignee /\ Delivering' = {}
        BY <3>1 DEF HolderKnown
      <4>1. Delivering' = {}
        BY <1>0, <2>2, <3>1 DEF Delivering, Step, ClaimInv, OneDelivery
      <4>2. Alive(s) /\ sess[s].knows = row.token
        BY <1>1, <2>2, ForgottenAlive DEF Alive, Step, BoardTypes
      <4> QED BY <1>0, <1>4, <2>2, <3>1, <4>1, <4>2, NobodyKnows
    <3> QED BY <1>1, <1>4, <2>2, <3>1, <3>2, AnyDeliveryStep
  <2>3. CASE /\ row.token # x.sid /\ UNCHANGED row
             /\ NoFault /\ Step(x, {}, [sess EXCEPT ![x.sid] = Gone])
    <3> DEFINE known == [sess EXCEPT ![x.sid] = Gone]
    <3>1. known \in [Sessions -> Workers] /\ \A s \in Sessions : known[s] = sess[s] \/ known[s] = Gone
      BY <1>1, <1>2
    <3> HIDE DEF known
    <3> QED BY <1>1, <1>2, <1>4, <2>3, <3>1, AnyDeliveryStep DEF known
  <2>4. CASE UNCHANGED row /\ Blur(x) /\ Step(x, {}, sess)
    BY <1>1, <1>3, <2>4, AnyDeliveryStep
  <2> QED BY <1>8, <2>2, <2>3, <2>4 DEF spawnSync
<1> QED BY <1>0, <1>5, <1>6, <1>7, <1>8

(* The replica dies: the deliveries it made are lost.                      *)
LEMMA ReplicaDiesStep ==
    ASSUME BoardTypes, ClaimInv, Rest', ReplicaDies
    PROVE  BoardTypes' /\ ClaimInv'
<1>1. /\ spawns' = {} /\ UNCHANGED <<row, dispatched, lastDispatch>> /\ sess' = Forgotten(sess)
      /\ blurred' = (blurred \/ \E x \in spawns : x.sid = row.token)
  BY DEF ReplicaDies
<1>2. sess \in [Sessions -> Workers] /\ row \in Rows
  BY DEF BoardTypes, TypeOK
<1>3. blurred' \in BOOLEAN
  BY <1>1
<1>4. TypeOK'
  BY <1>1, <1>2, <1>3, ForgottenType DEF BoardTypes, TypeOK, Rest
<1>5. IsFiniteSet(spawns')
  BY <1>1, FS_EmptySet
<1>6. AttemptsExact' /\ CountedIsLatest'
  BY <1>1 DEF BoardTypes, AttemptsExact, CountedIsLatest
<1>7. OneDelivery' /\ BounceIsNamed'
  BY <1>1 DEF OneDelivery, BounceIsNamed
<1>8. HolderKnown'
  <2> SUFFICES ASSUME row.token # 0, ~blurred', NEW s \in Sessions, Alive(s)', sess'[s].knows = row.token
               PROVE  s = row.assignee /\ Delivering' = {}
    BY <1>1 DEF HolderKnown
  <2>1. Alive(s) /\ sess[s].knows = row.token
    BY <1>1, <1>2, ForgottenAlive DEF Alive, BoardTypes
  <2>2. ~blurred /\ Delivering = {} /\ Delivering' = {}
    BY <1>1 DEF Delivering
  <2> QED BY <2>1, <2>2 DEF ClaimInv, HolderKnown
<1> QED BY <1>4, <1>5, <1>6, <1>7, <1>8 DEF BoardTypes, ClaimInv

(* The worker's writes.                                                    *)
LEMMA HeartbeatStep ==
    ASSUME BoardTypes, ClaimInv, Rest', NEW s \in Sessions, Heartbeat(s)
    PROVE  BoardTypes' /\ ClaimInv'
<1> DEFINE a == IF row.assignee = 0 THEN s ELSE row.assignee
           stamped == [row EXCEPT !.assignee = IF @ = 0 THEN s ELSE @]
<1>1. row \in Rows /\ sess \in [Sessions -> Workers] /\ 0 \in 0..BusyRenewCap
  BY Caps DEF BoardTypes, TypeOK
<1>2. a \in {0} \cup Sessions /\ stamped = [row EXCEPT !.assignee = a]
  BY <1>1 DEF Rows
<1>3. /\ stamped \in Rows /\ stamped.token = row.token /\ stamped.counted = row.counted
      /\ stamped.attempts = row.attempts /\ stamped.assignee = a
  BY <1>1, <1>2 DEF Rows
<1>4. /\ row' \in {stamped, [stamped EXCEPT !.nudge = "none", !.lease = "live", !.busy = 0],
                   [stamped EXCEPT !.nudge = "answered"]}
      /\ Holds(s) /\ NoDelivery
  BY DEF Heartbeat
<1> HIDE DEF stamped
<1>5. /\ row' \in Rows /\ row'.token = row.token /\ row'.counted = row.counted
      /\ row'.attempts = row.attempts /\ row'.assignee = a
  <2>1. CASE row' = stamped
    BY <1>3, <2>1
  <2>2. CASE row' = [stamped EXCEPT !.nudge = "none", !.lease = "live", !.busy = 0]
    BY <1>1, <1>3, <2>2 DEF Rows
  <2>3. CASE row' = [stamped EXCEPT !.nudge = "answered"]
    BY <1>3, <2>3 DEF Rows
  <2> QED BY <1>4, <2>1, <2>2, <2>3
<1>6. UNCHANGED <<spawns, dispatched, lastDispatch, blurred>> /\ sess' = Forgotten(sess)
  BY <1>4 DEF NoDelivery, history
<1>7. TypeOK'
  BY <1>1, <1>5, <1>6, ForgottenType DEF BoardTypes, TypeOK, Rest
<1>8. IsFiniteSet(spawns)' /\ AttemptsExact' /\ CountedIsLatest' /\ OneDelivery'
  BY <1>5, <1>6 DEF BoardTypes, AttemptsExact, CountedIsLatest, ClaimInv, OneDelivery
<1>9. BounceIsNamed'
  BY <1>5, <1>6 DEF ClaimInv, BounceIsNamed
<1>10. ASSUME ~blurred PROVE row.assignee = 0 => s = row.token /\ \E x \in Delivering : x.step = "stamp"
  BY <1>4, <1>10 DEF Holds, Alive, ClaimInv, HolderKnown, Sessions
<1>11. HolderKnown'
  <2> SUFFICES ASSUME row.token # 0, ~blurred', NEW z \in Sessions, Alive(z)', sess'[z].knows = row.token
               PROVE  \/ z = row.token /\ \E x \in Delivering' : x.step = "stamp"
                      \/ z = row'.assignee /\ Delivering' = {}
    BY <1>5 DEF HolderKnown
  <2>1. Alive(z) /\ sess[z].knows = row.token /\ ~blurred
    BY <1>1, <1>6, ForgottenAlive DEF Alive, BoardTypes
  <2>2. Delivering' = Delivering
    BY <1>5, <1>6 DEF Delivering
  <2>3. z # 0
    BY DEF Sessions
  <2> QED BY <1>5, <1>10, <2>1, <2>2, <2>3 DEF ClaimInv, HolderKnown
<1> QED BY <1>7, <1>8, <1>9, <1>11 DEF BoardTypes, ClaimInv

LEMMA ToReviewStep ==
    ASSUME BoardTypes, ClaimInv, Rest', NEW s \in Sessions, ToReview(s)
    PROVE  BoardTypes' /\ ClaimInv'
<1> DEFINE u == Moved(row, "in_review")
           moved == [u EXCEPT !.token = 0, !.lease = "none", !.counted = FALSE,
                        !.persona = FALSE, !.implementer = row.assignee, !.failures = 0]
<1>1. row \in Rows /\ row.assignee \in {0} \cup Sessions /\ 0 \in 0..AttemptsCap
  BY Caps DEF BoardTypes, TypeOK, Rows
<1>2. u \in Rows /\ SameClaim(row, u)
  BY <1>1, MovedRow DEF Claimed
<1> HIDE DEF u
<1>3. moved \in Rows /\ ClaimEnded(row, moved) /\ ~moved.counted
  BY <1>1, <1>2, ZenonT(60) DEF Rows, SameClaim, ClaimEnded
<1> HIDE DEF moved
<1>4. \/ /\ row' = [Minted(moved) EXCEPT !.persona = TRUE]
         /\ NotDispatched /\ Deliver("begin", 0)
      \/ row' = moved /\ NoDelivery
  BY DEF ToReview, moved, u
<1>5. CASE /\ row' = [Minted(moved) EXCEPT !.persona = TRUE]
           /\ NotDispatched /\ Deliver("begin", 0)
  <2> DEFINE m == Minted(moved)
  <2>1. m \in Rows /\ m.token = Fresh /\ m.attempts = row.attempts /\ ~m.counted
    BY <1>3, <1>5, FreshExists, MintedRow DEF Deliver, ClaimEnded
  <2> HIDE DEF m
  <2>2. row' \in Rows /\ row'.token = Fresh /\ row'.attempts = row.attempts /\ ~row'.counted
    BY <1>5, <2>1 DEF Rows, m
  <2> QED BY <1>5, <2>2, DeliverStep
<1>6. CASE row' = moved /\ NoDelivery
  BY <1>3, <1>6, RowStep
<1> QED BY <1>4, <1>5, <1>6

LEMMA ThrottleStep ==
    ASSUME BoardTypes, ClaimInv, Rest', NEW s \in Sessions, ReportThrottle(s)
    PROVE  BoardTypes' /\ ClaimInv'
<1> DEFINE u == Released(row)
           n == IF row.counted THEN row.attempts - 1 ELSE row.attempts
<1>1. /\ row \in Rows /\ sess \in [Sessions -> Workers] /\ row.token # 0
      /\ row.attempts \in 0..AttemptsCap /\ row.counted \in BOOLEAN
      /\ dispatched \in Nat /\ row.attempts = dispatched
  BY DEF BoardTypes, TypeOK, Rows, ReportThrottle, Holds, AttemptsExact
<1>2. u \in Rows /\ u.token = 0 /\ u.attempts = row.attempts
  BY <1>1, ReleasedRow DEF ClaimEnded
<1>3. row.counted => row.token = lastDispatch /\ dispatched >= 1
  BY <1>1 DEF BoardTypes, CountedIsLatest
<1>4. n \in 0..AttemptsCap
  BY <1>1, <1>3, Caps
<1>5. row' = [u EXCEPT !.stage = "backlog", !.cooling = TRUE, !.attempts = n]
  BY <1>2 DEF ReportThrottle
<1> HIDE DEF u, n
<1>6. row' \in Rows /\ row'.token = 0 /\ row'.attempts = n
  BY <1>2, <1>4, <1>5 DEF Rows
<1>7. /\ dispatched' \in Nat /\ lastDispatch' \in {0} \cup Sessions /\ row'.attempts = dispatched'
      /\ lastDispatch' # 0 => dispatched' >= 1
  <2>1. CASE row.token = lastDispatch
    BY <1>1, <1>3, <1>6, <2>1 DEF ReportThrottle, n, BoardTypes, CountedIsLatest
  <2>2. CASE row.token # lastDispatch
    BY <1>1, <1>6, <2>2 DEF ReportThrottle, n, BoardTypes, CountedIsLatest, TypeOK
  <2> QED BY <2>1, <2>2
<1>8. UNCHANGED <<spawns, blurred>> /\ sess' = Forgotten(sess)
  BY DEF ReportThrottle
<1>9. TypeOK'
  BY <1>1, <1>6, <1>7, <1>8, ForgottenType DEF BoardTypes, TypeOK, Rest
<1>10. IsFiniteSet(spawns)' /\ AttemptsExact' /\ CountedIsLatest' /\ OneDelivery'
  BY <1>6, <1>7, <1>8 DEF BoardTypes, AttemptsExact, CountedIsLatest, ClaimInv, OneDelivery
<1>11. \A x \in spawns : x.sid # 0
  BY DEF BoardTypes, TypeOK, Spawns, Sessions
<1>12. BounceIsNamed' /\ HolderKnown'
  BY <1>6, <1>8, <1>11 DEF BounceIsNamed, HolderKnown
<1> QED BY <1>9, <1>10, <1>12 DEF BoardTypes, ClaimInv

LEMMA WorkerStep ==
    ASSUME BoardTypes, ClaimInv, Rest', NEW s \in Sessions, WorkerMoves(s) \/ WorkerStops(s)
    PROVE  BoardTypes' /\ ClaimInv'
<1>1. row \in Rows /\ sess \in [Sessions -> Workers]
  BY DEF BoardTypes, TypeOK
<1>2. CASE WorkerMoves(s)
  <2>1. row' \in {Done(row), SelfFailed(row), Flagged(row)} /\ NoDelivery
    BY <1>2 DEF WorkerMoves
  <2> QED BY <1>1, <2>1, DoneRow, SelfFailedRow, FlaggedRow, RowStep
<1>3. CASE WorkerStops(s)
  <2>1. UNCHANGED <<row, spawns, dispatched, lastDispatch, blurred>> /\ Alive(s)
    BY <1>3 DEF WorkerStops, history, Alive
  <2>2. [sess[s] EXCEPT !.st = "hung"] \in Workers /\ [sess[s] EXCEPT !.st = "hung"].knows = sess[s].knows
    BY <1>1 DEF Workers
  <2>3. Gone \in Workers /\ Gone.knows = 0 /\ Gone.st = "gone"
    BY DEF Gone, Workers
  <2>4. sess' \in {[sess EXCEPT ![s] = Gone], [sess EXCEPT ![s] = [sess[s] EXCEPT !.st = "hung"]]}
    BY <1>3 DEF WorkerStops
  <2>5. /\ sess' \in [Sessions -> Workers]
        /\ \A z \in Sessions : sess'[z] = sess[z]
              \/ /\ sess'[z].st \in {"working", "hung"} => Alive(z)
                 /\ sess'[z].knows \in {0, sess[z].knows}
    BY <1>1, <2>1, <2>2, <2>3, <2>4
  <2>6. SameClaim(row, row')
    BY <2>1 DEF SameClaim
  <2> QED BY <1>1, <2>1, <2>5, <2>6, PlainStep
<1> QED BY <1>2, <1>3

-----------------------------------------------------------------------------
(* The reconciler, the owner and time *)

LEMMA LadderStep ==
    ASSUME BoardTypes, ClaimInv, Rest', rc1Reclaims \/ DeposeTask
    PROVE  BoardTypes' /\ ClaimInv'
<1>1. row \in Rows /\ row.busy \in 0..BusyRenewCap /\ 0 \in 0..BusyRenewCap
  BY Caps DEF BoardTypes, TypeOK, Rows
<1>2. NoDelivery
  BY DEF rc1Reclaims, DeposeTask
<1>3. ASSUME NEW b \in 0..BusyRenewCap, NEW lease \in {"live"},
             row' = [row EXCEPT !.lease = lease, !.nudge = "none", !.busy = b]
      PROVE  row' \in Rows /\ SameClaim(row, row')
  BY <1>1, <1>3 DEF Rows, SameClaim
<1>4. ASSUME row' = [row EXCEPT !.nudge = "sent", !.lease = "live"]
      PROVE  row' \in Rows /\ SameClaim(row, row')
  BY <1>1, <1>4 DEF Rows, SameClaim
<1>5. Reclaimed(row) \in Rows /\ ClaimEnded(row, Reclaimed(row))
  BY <1>1, ReclaimedRow
<1>6. ASSUME Wedge PROVE row' \in Rows /\ ClaimEnded(row, row')
  <2> DEFINE f == Failure(Released(row))
             e == Escalated(f)
  <2>1. f \in Rows /\ ClaimEnded(row, f)
    BY <1>1, ReclaimedRow
  <2>2. e \in Rows /\ SameClaim(f, e)
    BY <2>1, EscalatedRow
  <2>3. row' = [e EXCEPT !.busy = 0]
    BY <1>6 DEF Wedge
  <2> HIDE DEF e, f
  <2> QED BY <1>1, <2>1, <2>2, <2>3 DEF Rows, ClaimEnded, SameClaim
<1>7. ASSUME Renew(FALSE) PROVE row' \in Rows /\ SameClaim(row, row')
  BY <1>1, <1>3, <1>7 DEF Renew
<1>8. ASSUME NEW o, ShowsLife(o), Renew(o = "busy") PROVE row' \in Rows /\ SameClaim(row, row')
  <2>1. CASE o = "busy"
    <3>1. row.busy + 1 \in 0..BusyRenewCap
      BY <1>1, <1>8, <2>1, Caps DEF ShowsLife
    <3>2. row' = [row EXCEPT !.lease = "live", !.nudge = "none", !.busy = row.busy + 1]
      BY <1>8, <2>1 DEF Renew
    <3> QED BY <1>3, <3>1, <3>2
  <2>2. CASE o # "busy"
    <3>1. row' = [row EXCEPT !.lease = "live", !.nudge = "none", !.busy = 0]
      BY <1>8, <2>2 DEF Renew
    <3> QED BY <1>1, <1>3, <3>1
  <2> QED BY <2>1, <2>2
<1>9. ASSUME Nudge PROVE row' \in Rows /\ (SameClaim(row, row') \/ ClaimEnded(row, row'))
  BY <1>4, <1>5, <1>9 DEF Nudge
<1>10. ASSUME row' = Reclaimed(row) PROVE row' \in Rows /\ ClaimEnded(row, row')
  BY <1>5, <1>10
<1>11. row' \in Rows /\ (SameClaim(row, row') \/ ClaimEnded(row, row'))
  <2>1. CASE rc1Reclaims
    BY <1>6, <1>7, <1>8, <1>9, <1>10, <2>1 DEF rc1Reclaims, Reclaim
  <2>2. CASE DeposeTask
    BY <1>10, <2>2 DEF DeposeTask
  <2> QED BY <2>1, <2>2
<1> QED BY <1>2, <1>11, RowStep

LEMMA PersonaStep ==
    ASSUME BoardTypes, ClaimInv, Rest', PersonaLapse \/ PersonaCandidates \/ PersonaRearm
    PROVE  BoardTypes' /\ ClaimInv'
<1>1. row \in Rows
  BY DEF BoardTypes, TypeOK
<1>2. CASE PersonaLapse
  <2> DEFINE c == [row EXCEPT !.token = 0, !.lease = "none", !.persona = FALSE, !.nudge = "none"]
             f == Failure(c)
  <2>1. c \in Rows /\ ClaimEnded(row, c)
    BY <1>1 DEF Rows, ClaimEnded
  <2>2. NoDelivery /\ row' \in {[f EXCEPT !.assignee = 0, !.cooling = TRUE], c}
    BY <1>2 DEF PersonaLapse
  <2> HIDE DEF c
  <2>3. f \in Rows /\ SameClaim(c, f)
    BY <2>1, FailureRow
  <2> HIDE DEF f
  <2>4. row' \in Rows /\ ClaimEnded(row, row')
    BY <2>1, <2>2, <2>3, ZenonT(60) DEF Rows, ClaimEnded, SameClaim
  <2> QED BY <2>2, <2>4, RowStep
<1>3. CASE PersonaCandidates
  <2>1. NoDelivery /\ row' = row
    BY <1>3 DEF PersonaCandidates
  <2>2. SameClaim(row, row')
    BY <2>1 DEF SameClaim
  <2> QED BY <1>1, <2>1, <2>2, RowStep
<1>4. CASE PersonaRearm
  <2>1. CASE row' = [Escalated(row) EXCEPT !.cooling = FALSE] /\ NoDelivery
    <3> DEFINE e == Escalated(row)
    <3>1. e \in Rows /\ SameClaim(row, e)
      BY <1>1, EscalatedRow
    <3>2. row' = [e EXCEPT !.cooling = FALSE]
      BY <2>1
    <3> HIDE DEF e
    <3>3. row' \in Rows /\ SameClaim(row, row')
      BY <3>1, <3>2 DEF Rows, SameClaim
    <3> QED BY <2>1, <3>3, RowStep
  <2>2. CASE /\ row' = [Minted(row) EXCEPT !.counted = FALSE, !.persona = TRUE]
             /\ NotDispatched /\ Deliver("begin", 0)
    <3> DEFINE m == Minted(row)
    <3>1. m \in Rows /\ m.token = Fresh /\ m.attempts = row.attempts
      BY <1>1, <2>2, FreshExists, MintedRow DEF Deliver
    <3>2. row' = [m EXCEPT !.counted = FALSE, !.persona = TRUE]
      BY <2>2
    <3> HIDE DEF m
    <3>3. row' \in Rows /\ row'.token = Fresh /\ row'.attempts = row.attempts /\ ~row'.counted
      BY <3>1, <3>2 DEF Rows
    <3> QED BY <2>2, <3>3, DeliverStep
  <2>3. CASE UNCHANGED row /\ NoDelivery
    <3>1. SameClaim(row, row')
      BY <2>3 DEF SameClaim
    <3> QED BY <1>1, <2>3, <3>1, RowStep
  <2> QED BY <1>4, <2>1, <2>2, <2>3 DEF PersonaRearm
<1> QED BY <1>2, <1>3, <1>4

LEMMA BounceStep ==
    ASSUME BoardTypes, ClaimInv, Rest', bounceTx
    PROVE  BoardTypes' /\ ClaimInv'
<1> DEFINE impl == bounceImplementer
           u == Unflagged(row)
           m == Minted(u)
<1>1. row \in Rows /\ row.implementer \in {0} \cup Sessions /\ row.assignee \in {0} \cup Sessions
      /\ row.persona \in BOOLEAN
  BY DEF BoardTypes, TypeOK, Rows
<1>2. impl \in {0} \cup Sessions
  <2>1. CASE row.implementer # 0
    BY <1>1, <2>1 DEF bounceImplementer
  <2>2. CASE row.implementer = 0 /\ ~row.persona
    BY <1>1, <2>2 DEF bounceImplementer
  <2>3. CASE row.implementer = 0 /\ row.persona
    BY <1>1, <2>3 DEF bounceImplementer
  <2> QED BY <1>1, <2>1, <2>2, <2>3
<1>3. /\ row' = [m EXCEPT !.stage = "in_progress", !.assignee = impl, !.counted = FALSE, !.persona = FALSE]
      /\ NotDispatched
      /\ IF impl # 0 THEN Deliver("redispatch", impl) ELSE Deliver("begin", 0)
  BY DEF bounceTx
<1>4. u \in Rows /\ SameClaim(row, u)
  BY <1>1, UnflaggedRow
<1> HIDE DEF u, impl
<1>5. m \in Rows /\ m.token = Fresh /\ m.attempts = row.attempts
  BY <1>3, <1>4, FreshExists, MintedRow DEF Deliver, SameClaim
<1> HIDE DEF m
<1>6. /\ row' \in Rows /\ row'.token = Fresh /\ row'.attempts = row.attempts /\ ~row'.counted
      /\ row'.assignee = impl
  BY <1>2, <1>3, <1>5 DEF Rows, Claimed
<1>7. CASE impl # 0
  BY <1>2, <1>3, <1>6, <1>7, DeliverStep
<1>8. CASE impl = 0
  BY <1>3, <1>6, <1>8, DeliverStep
<1> QED BY <1>7, <1>8

LEMMA OwnerStep ==
    ASSUME BoardTypes, ClaimInv, Rest',
           ReviewMove \/ RearmTask \/ PauseTask \/ ResumeTask \/ LeaseLapses \/ CooldownEnds
    PROVE  BoardTypes' /\ ClaimInv'
<1>1. row \in Rows /\ sess \in [Sessions -> Workers]
  BY DEF BoardTypes, TypeOK
<1>2. CASE ReviewMove
  <2>1. \/ row' \in {Done(row), SelfFailed(row), Flagged(row)} /\ NoDelivery
        \/ bounceTx
    BY <1>2 DEF ReviewMove
  <2> QED BY <1>1, <2>1, DoneRow, SelfFailedRow, FlaggedRow, RowStep, BounceStep
<1>3. CASE RearmTask
  <2> DEFINE q == Released(row)
             f == Forgiven(q)
             u == Unflagged(f)
  <2>1. q \in Rows /\ q.token = 0
    BY <1>1, ReleasedRow DEF ClaimEnded
  <2> HIDE DEF q
  <2>2. f \in Rows /\ f.token = 0 /\ f.attempts = 0
    BY <2>1, ForgivenRow
  <2> HIDE DEF f
  <2>3. u \in Rows /\ u.token = 0 /\ u.attempts = 0
    BY <2>2, UnflaggedRow DEF SameClaim
  <2> HIDE DEF u
  <2>4. row' = [u EXCEPT !.stage = "backlog", !.cooling = FALSE] /\ dispatched' = 0 /\ lastDispatch' = 0
    BY <1>3 DEF RearmTask, u, f, q
  <2>5. row' \in Rows /\ ForgivenStep
    BY <2>3, <2>4 DEF Rows, ForgivenStep
  <2>6. UNCHANGED <<spawns, blurred>> /\ sess' = Forgotten(sess)
    BY <1>3 DEF RearmTask
  <2> QED BY <1>1, <2>5, <2>6, PlainStep
<1>4. CASE PauseTask \/ ResumeTask
  <2>1. row' \in Rows /\ SameClaim(row, row') /\ NoDelivery
    BY <1>1, <1>4, ZenonT(60) DEF PauseTask, ResumeTask, Rows, SameClaim
  <2> QED BY <2>1, RowStep
<1>5. CASE LeaseLapses \/ CooldownEnds
  <2>1. row' \in Rows /\ SameClaim(row, row') /\ NoDelivery
    BY <1>1, <1>5 DEF LeaseLapses, CooldownEnds, Rows, SameClaim
  <2> QED BY <2>1, RowStep
<1> QED BY <1>2, <1>3, <1>4, <1>5

LEMMA ExitPendingStep ==
    ASSUME BoardTypes, ClaimInv, Rest', ExitPending
    PROVE  BoardTypes' /\ ClaimInv'
<1> DEFINE q == Released(row)
<1>1. row \in Rows /\ sess \in [Sessions -> Workers] /\ row.assignee \in {0} \cup Sessions
  BY DEF BoardTypes, TypeOK, Rows
<1>2. q \in Rows /\ q.token = 0 /\ ~q.counted
  BY <1>1, ReleasedRow DEF ClaimEnded
<1>3. dispatched' = 0 /\ lastDispatch' = 0
  BY DEF ExitPending
<1>4. CASE exitPendingReclaim
  <2> DEFINE u == Unflagged(q)
             f == Forgiven(u)
             m == Minted(f)
  <2>1. row' = [m EXCEPT !.stage = "in_progress"] /\ Deliver("begin", row.assignee)
    BY <1>4 DEF exitPendingReclaim
  <2> HIDE DEF q
  <2>2. u \in Rows /\ ~u.counted
    BY <1>2, UnflaggedRow DEF SameClaim
  <2> HIDE DEF u
  <2>3. f \in Rows /\ f.attempts = 0 /\ ~f.counted
    BY <2>2, ForgivenRow
  <2> HIDE DEF f
  <2>4. m \in Rows /\ m.token = Fresh /\ m.attempts = 0 /\ ~m.counted
    BY <2>1, <2>3, FreshExists, MintedRow DEF Deliver
  <2> HIDE DEF m
  <2>5. row' \in Rows /\ row'.token = Fresh /\ row'.attempts = 0 /\ ~row'.counted
    BY <2>1, <2>4 DEF Rows, Claimed
  <2> QED BY <1>1, <1>3, <2>1, <2>5, DeliverStep
<1>5. CASE exitPendingBacklog
  <2> DEFINE f == Forgiven(q)
  <2>1. row' = Moved(f, "backlog") /\ UNCHANGED <<spawns, blurred>> /\ sess' = Forgotten(sess)
    BY <1>5 DEF exitPendingBacklog
  <2> HIDE DEF q
  <2>2. f \in Rows /\ f.token = 0 /\ f.attempts = 0
    BY <1>2, ForgivenRow
  <2> HIDE DEF f
  <2>3. row' \in Rows /\ ForgivenStep
    BY <1>3, <2>1, <2>2, MovedRow DEF SameClaim, ForgivenStep
  <2> QED BY <1>1, <2>1, <2>3, PlainStep
<1> QED BY <1>4, <1>5 DEF ExitPending

-----------------------------------------------------------------------------
(* The theorems *)

LEMMA InitBoard == Init => BoardTypes /\ ClaimInv
<1> SUFFICES ASSUME Init PROVE BoardTypes /\ ClaimInv
  OBVIOUS
<1>1. 0 \in 0..AttemptsCap /\ 0 \in 0..BusyRenewCap /\ inputs \in 0..MaxInputs /\ faults \in 0..MaxFaults
  BY Caps DEF Init
<1>2. row \in Rows /\ row.token = 0 /\ row.attempts = 0
  BY <1>1 DEF Init, Rows
<1>3. Unborn \in Workers
  BY DEF Unborn, Workers
<1>4. TypeOK
  BY <1>1, <1>2, <1>3 DEF Init, TypeOK
<1>5. IsFiniteSet(spawns)
  BY FS_EmptySet DEF Init
<1>6. AttemptsExact /\ CountedIsLatest
  BY <1>2 DEF Init, AttemptsExact, CountedIsLatest
<1>7. ClaimInv
  BY <1>2 DEF Init, ClaimInv, OneDelivery, BounceIsNamed, HolderKnown
<1> QED BY <1>4, <1>5, <1>6, <1>7 DEF BoardTypes

LEMMA StepBoard == BoardTypes /\ ClaimInv /\ [Next]_vars => BoardTypes' /\ ClaimInv'
<1> SUFFICES ASSUME BoardTypes, ClaimInv, [Next]_vars PROVE BoardTypes' /\ ClaimInv'
  OBVIOUS
<1>1. CASE UNCHANGED vars
  <2>1. /\ UNCHANGED <<row, sess, spawns, start, rearm, slotCooling, inputs, faults>>
        /\ UNCHANGED <<dispatched, lastDispatch, blurred>>
    BY <1>1 DEF vars, history
  <2>2. BoardTypes'
    BY <2>1 DEF BoardTypes, TypeOK, AttemptsExact, CountedIsLatest
  <2>3. ClaimInv'
    BY <2>1 DEF ClaimInv, OneDelivery, BounceIsNamed, HolderKnown, Delivering, Alive
  <2> QED BY <2>2, <2>3
<1>2. CASE Next
  <2>0. Rest'
    BY <1>2, RestStep DEF BoardTypes
  <2>1. CASE claimOnce
    BY <2>0, <2>1, ClaimStep DEF claimOnce
  <2>2. CASE TaskStartChecks
    <3>1. UNCHANGED <<row, sess, spawns, dispatched, lastDispatch, blurred>>
      BY <2>2 DEF TaskStartChecks, history
    <3>2. BoardTypes'
      BY <2>0, <3>1 DEF BoardTypes, TypeOK, AttemptsExact, CountedIsLatest, Rest
    <3>3. ClaimInv'
      BY <3>1 DEF ClaimInv, OneDelivery, BounceIsNamed, HolderKnown, Delivering, Alive
    <3> QED BY <3>2, <3>3
  <2>3. CASE TaskStart
    <3>1. CASE UNCHANGED row /\ NoDelivery
      <4>1. row' \in Rows /\ SameClaim(row, row')
        BY <3>1 DEF SameClaim, BoardTypes, TypeOK
      <4> QED BY <2>0, <3>1, <4>1, RowStep
    <3> QED BY <2>0, <2>3, <3>1, ClaimStep DEF TaskStart
  <2>4. CASE Delivery \/ ReplicaDies
    BY <2>0, <2>4, DeliveryStep, ReplicaDiesStep
  <2>5. CASE \E s \in Sessions : \/ Heartbeat(s) \/ ToReview(s) \/ WorkerMoves(s)
                                 \/ ReportThrottle(s) \/ WorkerStops(s)
    BY <2>0, <2>5, HeartbeatStep, ToReviewStep, WorkerStep, ThrottleStep
  <2> QED BY <1>2, <2>0, <2>1, <2>2, <2>3, <2>4, <2>5, LadderStep, PersonaStep, OwnerStep, ExitPendingStep
          DEF Next
<1> QED BY <1>1, <1>2

(* Every variable stays in its type: in particular a claim always finds a  *)
(* number that no field and no delivery still means, and a refund never    *)
(* takes attempts below zero.                                              *)
THEOREM BoardTypesHold == Spec => []TypeOK
<1>1. BoardTypes => TypeOK
  BY DEF BoardTypes
<1> QED BY <1>1, InitBoard, StepBoard, PTL DEF Spec

(* The attempts of a row (claimOnce, ReportThrottle, bounceTx and the      *)
(* human's exits of pkg/board) are exactly the dispatches that no throttle *)
(* handed back since a human last forgave them.                            *)
THEOREM AttemptsAreExact == Spec => []AttemptsExact
<1>1. BoardTypes => AttemptsExact
  BY DEF BoardTypes
<1> QED BY <1>1, InitBoard, StepBoard, PTL DEF Spec

(* Unless a fault struck its delivery, the row's live token is held by at  *)
(* most one live session, however claims, bounces, reviews, aborts and     *)
(* stamps interleave.                                                      *)
THEOREM OneWorkerHolds == Spec => []OneAuthorizedWorker
<1>1. ASSUME BoardTypes, ClaimInv PROVE OneAuthorizedWorker
  <2>1. \A x \in Delivering : x \in spawns
    BY DEF Delivering
  <2> QED BY <1>1, <2>1 DEF ClaimInv, HolderKnown, OneAuthorizedWorker
<1> QED BY <1>1, InitBoard, StepBoard, PTL DEF Spec

(* And once the delivery has ended the row names that session, so that the *)
(* ladder judges the worker it addresses.                                  *)
THEOREM HolderIsAssignee == Spec => []HolderIsNamed
<1>1. ASSUME BoardTypes, ClaimInv PROVE HolderIsNamed
  BY <1>1 DEF ClaimInv, HolderKnown, HolderIsNamed, Delivering
<1> QED BY <1>1, InitBoard, StepBoard, PTL DEF Spec

=============================================================================
