------------------------------- MODULE Outbox -------------------------------
(***************************************************************************)
(* The durable prompt outbox of one session (api/internal/services/outbox) *)
(* with the agentd terminus (api/internal/handlers/outbox_terminus.go):    *)
(* acceptance with its duplicate marker, the queue and the staging list in *)
(* Valkey, the delivery workers of several API replicas under the          *)
(* session's lock, the retry ladder, verification, crash recovery, the     *)
(* parked-error sweep and the user's and operator's actions.  The pod's    *)
(* ledger is what DeliveryContract says of it.                             *)
(*                                                                         *)
(* One step is one Valkey command, script or request to the pod, or a run  *)
(* of them that no other actor can come between.  A pod that does not      *)
(* answer is a choice every time it is asked.  Clock times are reduced to  *)
(* what the code compares: an entry is due at once or gated by a back-off, *)
(* and LastAttemptAt is a stamp that changes with every send, so that two  *)
(* copies of an entry are equal when their bytes are.                      *)
(***************************************************************************)
EXTENDS Naturals, FiniteSets, FiniteSetsExt, SequencesExt

CONSTANTS
    Messages,             \* client message IDs
    Twice,                \* those that are posted to Accept twice
    Replicas,             \* API replicas
    Cap,                  \* outbox.Cap
    MaxAttempts,          \* outbox.MaxAttempts
    MaxTransientFailures, \* outbox.MaxTransientFailures
    MaxVerifyAttempts,    \* outbox.MaxVerifyAttempts
    Included,             \* faults and actions of others the run includes
    MaxRows,              \* bound: attempt numbers the pod is asked for
    Stamps,               \* bound: send stamps, used in turn
    MaxCrashes            \* bound: replicas that die

Free == "free"
Stale == "stale"

ASSUME OutboxAssumption ==
    /\ Twice \subseteq Messages
    /\ Free \notin Replicas /\ Stale \notin Replicas
    /\ Cap \in Nat
    /\ MaxAttempts \in Nat \ {0}
    /\ MaxTransientFailures \in Nat \ {0}
    /\ MaxVerifyAttempts \in Nat \ {0}
    /\ Included \subseteq {"dismiss", "retry", "park", "archive", "sweep",
                           "lookup", "fail", "forget"}
    /\ MaxRows \in Nat /\ MaxAttempts <= MaxRows
    /\ Stamps \in Nat \ {0}
    /\ MaxCrashes \in Nat

VARIABLES
    accept,    \* where each Accept call is
    marker,    \* outboxdedupe: the entry a message is accepted as
    main,      \* outboxq
    staging,   \* outboxd
    lock,      \* outboxlock: the replica that holds it, Stale or Free
    pc,        \* what each replica's worker is doing
    work,      \* and the entry it works on
    archived,  \* the session is archived
    row,       \* pod: DeliveryContract
    transcript,
    claimed,   \* history: entries a claim removed as delivered
    hooks,     \* history: calls of onDelivered
    dismissed, \* history: entries the user dismissed
    crashes    \* history: replicas that died so far

queueVars == <<main, staging>>
acceptVars == <<accept, marker>>
workVars == <<lock, pc, work>>
podVars == <<row, transcript>>
history == <<claimed, hooks, dismissed>>
vars == <<acceptVars, queueVars, workVars, archived, podVars, history, crashes>>

(* An entry is one call of Accept. *)
Entries == (Messages \X {1}) \cup (Twice \X {2})

Message(e) == e[1]

NoEntry == <<>>

Copies ==
    [id : Entries, status : {"pending", "delivering", "verifying", "error", "parked"},
     attempts : 0..MaxRows, verify : 0..MaxVerifyAttempts,
     transient : 0..MaxTransientFailures, unverifiable : BOOLEAN, gated : BOOLEAN,
     sent : 0..Stamps]

Fresh(e) ==
    [id |-> e, status |-> "pending", attempts |-> 0, verify |-> 0, transient |-> 0,
     unverifiable |-> FALSE, gated |-> FALSE, sent |-> 0]

NoWork == [idx |-> 0, was |-> <<>>, new |-> <<>>, pivot |-> <<>>]

Ids(s) == {r.id : r \in ToSet(s)}

(* A list without the copies of a set: what LREM and the filters leave.    *)
Without(s, S) ==
    LET f[n \in 0..Len(s)] ==
          IF n = 0 THEN <<>>
          ELSE IF s[n] \in S THEN f[n - 1] ELSE Append(f[n - 1], s[n])
    IN  f[Len(s)]

Contract == INSTANCE DeliveryContract WITH Attempts <- 1..MaxRows

(* The pod's row for an attempt; there is none for attempt 0.              *)
Row(e, a) == IF a \in 1..MaxRows THEN row[<<e, a>>] ELSE "none"

TypeOK ==
    /\ accept \in [Entries -> {"new", "checked", "pushed", "lost", "accepted", "duplicate", "capped"}]
    /\ marker \in [Messages -> Entries \cup {NoEntry}]
    /\ ToSet(main) \subseteq Copies
    /\ ToSet(staging) \subseteq Copies
    /\ lock \in Replicas \cup {Free, Stale}
    /\ pc \in [Replicas -> {"down", "idle", "staged", "send", "prior", "post", "poll",
                            "insert", "drop", "fire", "verify"}]
    /\ \A w \in Replicas : /\ work[w].idx \in Nat
                           /\ ToSet(work[w].was) \subseteq Copies
                           /\ ToSet(work[w].new) \subseteq Copies
                           /\ ToSet(work[w].pivot) \subseteq Copies
    /\ archived \in BOOLEAN
    /\ row \in [Entries \X (1..MaxRows) -> Contract!RowStates]
    /\ transcript \subseteq Entries
    /\ claimed \subseteq Entries
    /\ hooks \in [Entries -> Nat]
    /\ dismissed \subseteq Entries
    /\ crashes \in 0..MaxCrashes

-----------------------------------------------------------------------------
(* Accept *)

AcceptCheck(e) ==
    /\ accept[e] = "new"
    /\ accept' = [accept EXCEPT ![e] = IF marker[Message(e)] # NoEntry
                                       THEN "duplicate" ELSE "checked"]
    /\ UNCHANGED <<marker, queueVars, workVars, archived, podVars, history, crashes>>

(* acceptScript: the cap and the push are one step.                        *)
AcceptPush(e) ==
    /\ accept[e] = "checked"
    /\ \/ /\ Len(main) < Cap
          /\ main' = Append(main, Fresh(e))
          /\ accept' = [accept EXCEPT ![e] = "pushed"]
       \/ /\ Len(main) >= Cap
          /\ accept' = [accept EXCEPT ![e] = "capped"]
          /\ UNCHANGED main
    /\ UNCHANGED <<marker, staging, workVars, archived, podVars, history, crashes>>

AcceptMark_errorIsRace(e) ==
    /\ accept[e] = "pushed"
    /\ \/ /\ marker[Message(e)] = NoEntry
          /\ marker' = [marker EXCEPT ![Message(e)] = e]
          /\ accept' = [accept EXCEPT ![e] = "accepted"]
       \/ /\ accept' = [accept EXCEPT ![e] = "lost"]
          /\ UNCHANGED marker
    /\ UNCHANGED <<queueVars, workVars, archived, podVars, history, crashes>>

(* The marker is set once the entry is queued.  If Valkey does not answer, *)
(* the entry is accepted without a marker.                                 *)
AcceptMark(e) ==
    /\ accept[e] = "pushed"
    /\ \/ /\ marker[Message(e)] = NoEntry
          /\ marker' = [marker EXCEPT ![Message(e)] = e]
          /\ accept' = [accept EXCEPT ![e] = "accepted"]
       \/ /\ marker[Message(e)] # NoEntry
          /\ accept' = [accept EXCEPT ![e] = "lost"]
          /\ UNCHANGED marker
       \/ /\ accept' = [accept EXCEPT ![e] = "accepted"]
          /\ UNCHANGED marker
    /\ UNCHANGED <<queueVars, workVars, archived, podVars, history, crashes>>

(* An Accept that lost the race for the marker takes its own entry out of  *)
(* the queue again, without the session's lock.                            *)
AcceptWithdraw(e) ==
    /\ accept[e] = "lost"
    /\ main' = RemoveFirst(main, Fresh(e))
    /\ accept' = [accept EXCEPT ![e] = "duplicate"]
    /\ UNCHANGED <<marker, staging, workVars, archived, podVars, history, crashes>>

-----------------------------------------------------------------------------
(* deliverOne: picking and staging *)

Runnable(r) == r.status \in {"pending", "delivering", "verifying"}

(* The first due entry: whatever is runnable before it waits for its time. *)
Due(i) ==
    /\ Runnable(main[i])
    /\ \A j \in 1..(i - 1) : Runnable(main[j]) => main[j].gated

LockFree_ignored == TRUE

(* acquireLock succeeds. *)
LockFree == lock = Free

(* A due entry is verified in place or pushed to staging; the queue still  *)
(* holds it.                                                               *)
Pick(w) ==
    /\ pc[w] = "idle" /\ LockFree
    /\ \E i \in 1..Len(main) :
          /\ Due(i)
          /\ work' = [work EXCEPT ![w] = [NoWork EXCEPT !.idx = i, !.was = <<main[i]>>]]
          /\ \/ /\ main[i].status = "verifying"
                /\ pc' = [pc EXCEPT ![w] = "verify"]
                /\ UNCHANGED staging
             \/ /\ main[i].status # "verifying"
                /\ pc' = [pc EXCEPT ![w] = "staged"]
                /\ staging' = Append(staging, main[i])
    /\ lock' = w
    /\ UNCHANGED <<acceptVars, main, archived, podVars, history, crashes>>

Unqueue(w) ==
    /\ pc[w] = "staged"
    /\ main' = RemoveFirst(main, work[w].was[1])
    /\ work' = [work EXCEPT ![w].new = <<[work[w].was[1] EXCEPT !.sent = (@ % Stamps) + 1]>>]
    /\ pc' = [pc EXCEPT ![w] = "send"]
    /\ UNCHANGED <<acceptVars, staging, lock, archived, podVars, history, crashes>>

-----------------------------------------------------------------------------
(* deliverOne: bookkeeping *)

Release(w) ==
    /\ lock' = IF lock = w THEN Free ELSE lock
    /\ pc' = [pc EXCEPT ![w] = "idle"]
    /\ work' = [work EXCEPT ![w] = NoWork]

(* The script removes every byte-identical copy from both lists.           *)
claimDelivered(v) ==
    /\ main' = Without(main, {v})
    /\ staging' = Without(staging, {v})

(* Only the claim that removed a copy goes on to call the hook.            *)
Complete(w) ==
    LET v == work[w].was[1]
    IN  /\ claimDelivered(v)
        /\ IF v \in ToSet(main) \cup ToSet(staging)
           THEN /\ claimed' = claimed \cup {v.id}
                /\ pc' = [pc EXCEPT ![w] = "fire"]
                /\ UNCHANGED <<lock, work>>
           ELSE Release(w) /\ UNCHANGED claimed

Fire(w) ==
    /\ pc[w] = "fire"
    /\ hooks' = [hooks EXCEPT ![work[w].was[1].id] = @ + 1]
    /\ Release(w)
    /\ UNCHANGED <<acceptVars, queueVars, archived, podVars, claimed, dismissed, crashes>>

(* restoreStaged reads the queue: the entry goes back before the copy that *)
(* has its place now ...                                                   *)
Restore(w, r) ==
    LET i == work[w].idx
    IN  /\ work' = [work EXCEPT ![w].new = <<r>>,
                                ![w].pivot = IF i > Len(main) THEN <<>> ELSE <<main[i]>>]
        /\ pc' = [pc EXCEPT ![w] = "insert"]
        /\ UNCHANGED <<queueVars, lock, claimed>>

InsertBefore(s, p, r) ==
    LET at == SelectInSeq(s, LAMBDA x : x = p)
    IN  IF at = 0 THEN s ELSE InsertAt(s, at, r)

RestoreInsert_alwaysBefore(w) ==
    LET x == work[w]
    IN  /\ pc[w] = "insert"
        /\ main' = IF x.pivot = <<>> THEN Append(main, x.new[1])
                   ELSE InsertBefore(main, x.pivot[1], x.new[1])
        /\ pc' = [pc EXCEPT ![w] = "drop"]
        /\ UNCHANGED <<acceptVars, staging, lock, work, archived, podVars,
                       history, crashes>>

(* ... LINSERT puts it nowhere if that copy has gone ...                   *)
RestoreInsert(w) ==
    LET x == work[w]
    IN  /\ pc[w] = "insert"
        /\ main' = CASE x.pivot = <<>>                -> Append(main, x.new[1])
                     [] x.pivot # <<>> /\ x.idx = 1   -> x.new \o main
                     [] OTHER                         -> InsertBefore(main, x.pivot[1], x.new[1])
        /\ pc' = [pc EXCEPT ![w] = "drop"]
        /\ UNCHANGED <<acceptVars, staging, lock, work, archived, podVars,
                       history, crashes>>

(* ... and the staged copy is removed.                                     *)
RestoreDrop(w) ==
    /\ pc[w] = "drop"
    /\ staging' = RemoveFirst(staging, work[w].was[1])
    /\ Release(w)
    /\ UNCHANGED <<acceptVars, main, archived, podVars, history, crashes>>

(* What parkGuard may find: a probe that fails finds nothing.              *)
GuardFinds(r, finding) ==
    LET here == Row(r.id, r.attempts)
        next == Row(r.id, r.attempts + 1)
    IN  \/ finding = "completes" /\ (here = "done" \/ (here # "ledgered" /\ next = "done"))
        \/ finding = "holds" /\ (here = "ledgered" \/ (here # "done" /\ next = "ledgered"))
        \/ finding = "neither"

(* At a threshold an entry is parked as error unless the ledger holds it.  *)
ParkOrKeep(w, r) ==
    \/ GuardFinds(r, "completes") /\ Complete(w)
    \/ GuardFinds(r, "holds")
       /\ Restore(w, [r EXCEPT !.status = "delivering", !.gated = TRUE])
    \/ GuardFinds(r, "neither") /\ Restore(w, [r EXCEPT !.status = "error"])

(* The outcomes of a delivery that is not known to have completed.         *)
PriorPending(w) ==
    Restore(w, [work[w].new[1] EXCEPT !.status = "delivering", !.gated = TRUE])

Terminal(w) == Restore(w, [work[w].new[1] EXCEPT !.status = "error"])

Transient_uncounted(w) ==
    Restore(w, [work[w].new[1] EXCEPT !.status = "pending", !.gated = TRUE])

Transient(w) ==
    LET r == [work[w].new[1] EXCEPT !.transient = Min({@ + 1, MaxTransientFailures})]
    IN  IF r.transient >= MaxTransientFailures
        THEN ParkOrKeep(w, r)
        ELSE Restore(w, [r EXCEPT !.status = "pending", !.gated = TRUE])

Fails(w) ==
    LET r == [work[w].new[1] EXCEPT !.attempts = @ + 1]
    IN  IF r.attempts >= MaxAttempts
        THEN ParkOrKeep(w, r)
        ELSE Restore(w, [r EXCEPT !.status = "pending", !.gated = TRUE])

-----------------------------------------------------------------------------
(* outboxDeliver and the terminus *)

Goto(w, p) ==
    /\ pc' = [pc EXCEPT ![w] = p]
    /\ UNCHANGED <<queueVars, lock, work, claimed>>

(* The archive check (which fails open), the endpoint, and the row of the  *)
(* prior attempt; a lookup that fails is taken for a row that is not there.*)
Send(w) ==
    LET r     == work[w].new[1]
        prior == Row(r.id, r.attempts)
    IN  /\ pc[w] = "send"
        /\ \/ archived /\ Terminal(w)
           \/ Transient(w)
           \/ prior = "done" /\ Complete(w)
           \/ prior = "ledgered" /\ Goto(w, "prior")
           \/ prior \in {"none", "failed"} /\ Goto(w, "post")
           \/ "lookup" \in Included /\ r.attempts > 0 /\ Goto(w, "post")
        /\ UNCHANGED <<acceptVars, archived, podVars, hooks, dismissed, crashes>>

(* The window of the prior attempt's row. *)
PollPrior(w) ==
    LET r == work[w].new[1]
    IN  /\ pc[w] = "prior"
        /\ \/ Row(r.id, r.attempts) = "done" /\ Complete(w)
           \/ PriorPending(w)
           \/ Transient(w)
        /\ UNCHANGED <<acceptVars, archived, podVars, hooks, dismissed,
                       crashes>>

(* Deliver at attempt+1.  A row that exists is answered as it is; the      *)
(* answer may be lost, and so may the request.                             *)
Post(w) ==
    LET r == work[w].new[1]
        k == <<r.id, r.attempts + 1>>
    IN  /\ pc[w] = "post"
        /\ r.attempts < MaxRows
        /\ \/ /\ row' = [row EXCEPT ![k] = IF @ = "none" THEN "ledgered" ELSE @]
              /\ \/ Goto(w, "poll") \/ Fails(w)
           \/ Fails(w) /\ UNCHANGED row
        /\ UNCHANGED <<acceptVars, archived, transcript, hooks, dismissed, crashes>>

completionFor_ledgered(state) == state \in {"ledgered", "done"}

completionFor(state) == state = "done"

Poll(w) ==
    LET r == work[w].new[1]
    IN  /\ pc[w] = "poll"
        /\ \/ completionFor(Row(r.id, r.attempts + 1)) /\ Complete(w)
           \/ Fails(w)
        /\ UNCHANGED <<acceptVars, archived, podVars, hooks, dismissed,
                       crashes>>

-----------------------------------------------------------------------------
(* verifyOne *)

(* The verifying entry is resolved in place: the write is by index.        *)
Rewrite(w, r) ==
    /\ main' = IF work[w].idx > Len(main) THEN main ELSE ReplaceAt(main, work[w].idx, r)
    /\ Release(w)
    /\ UNCHANGED <<staging, claimed>>

VerifyAbsent(w, r) ==
    LET n == r.attempts + 1
    IN  Rewrite(w, [r EXCEPT !.attempts = n, !.verify = 0, !.unverifiable = FALSE,
                             !.status = IF n >= MaxAttempts THEN "error" ELSE "pending",
                             !.gated = IF n >= MaxAttempts THEN @ ELSE TRUE])

VerifyInconclusive(w, r) ==
    LET v == [r EXCEPT !.verify = @ + 1]
    IN  \/ /\ v.verify < MaxVerifyAttempts
           /\ Rewrite(w, [v EXCEPT !.gated = TRUE])
        \/ /\ v.verify >= MaxVerifyAttempts
           /\ \/ GuardFinds(v, "completes") /\ Complete(w)
              \/ /\ GuardFinds(v, "holds") \/ GuardFinds(v, "neither")
                 /\ Rewrite(w, [v EXCEPT !.status = "error", !.unverifiable = TRUE])

verifyOne(w) ==
    LET r == work[w].was[1]
    IN  /\ pc[w] = "verify"
        /\ \/ r.id \in transcript /\ Complete(w)
           \/ r.id \notin transcript /\ r.attempts < MaxRows /\ VerifyAbsent(w, r)
           \/ VerifyInconclusive(w, r)
        /\ UNCHANGED <<acceptVars, archived, podVars, hooks, dismissed, crashes>>

-----------------------------------------------------------------------------
(* Replicas that die and start *)

Crash(w) ==
    /\ crashes < MaxCrashes /\ pc[w] # "down"
    /\ crashes' = crashes + 1
    /\ pc' = [pc EXCEPT ![w] = "down"]
    /\ work' = [work EXCEPT ![w] = NoWork]
    /\ lock' = IF lock = w THEN Stale ELSE lock
    /\ UNCHANGED <<acceptVars, queueVars, archived, podVars, history>>

(* LockTTL. *)
LockExpires ==
    /\ lock = Stale
    /\ lock' = Free
    /\ UNCHANGED <<acceptVars, queueVars, pc, work, archived, podVars, history, crashes>>

(* Staged copies whose entry the queue does not hold. *)
Requeued ==
    LET lost == Without(staging, {r \in ToSet(staging) : r.id \in Ids(main)})
    IN  [i \in 1..Len(lost) |-> [lost[i] EXCEPT !.status = "verifying", !.gated = FALSE]]

(* Recover at the start of Run passes over a session that stays locked.    *)
Recover(w) ==
    /\ pc[w] = "down"
    /\ \/ LockFree /\ main' = Reverse(Requeued) \o main /\ staging' = <<>>
       \/ ~LockFree /\ UNCHANGED queueVars
    /\ pc' = [pc EXCEPT ![w] = "idle"]
    /\ UNCHANGED <<acceptVars, lock, work, archived, podVars, history, crashes>>

RecoverDies_deletesFirst(w) ==
    /\ crashes < MaxCrashes
    /\ pc[w] = "down" /\ LockFree
    /\ staging' = <<>>
    /\ lock' = Stale
    /\ crashes' = crashes + 1
    /\ UNCHANGED <<acceptVars, main, pc, work, archived, podVars, history>>

(* Recover is killed after some of its pushes. *)
RecoverDies(w) ==
    /\ crashes < MaxCrashes
    /\ pc[w] = "down" /\ LockFree
    /\ \E n \in 1..Len(Requeued) : main' = Reverse(SubSeq(Requeued, 1, n)) \o main
    /\ lock' = Stale
    /\ crashes' = crashes + 1
    /\ UNCHANGED <<acceptVars, staging, pc, work, archived, podVars, history>>

-----------------------------------------------------------------------------
(* What others do with the queue, each under the session's lock.  An       *)
(* Accept can come between the read and the writes, but it adds and        *)
(* removes fresh copies only, behind every copy that is rewritten.         *)

Dismiss(e) ==
    /\ "dismiss" \in Included /\ LockFree
    /\ e \in Ids(main)
    /\ main' = RemoveAt(main, SelectInSeq(main, LAMBDA r : r.id = e))
    /\ dismissed' = dismissed \cup {e}
    /\ UNCHANGED <<acceptVars, staging, workVars, archived, podVars, claimed, hooks, crashes>>

Retry(e) ==
    LET at == SelectInSeq(main, LAMBDA r : r.id = e /\ r.status = "error")
    IN  /\ "retry" \in Included /\ LockFree
        /\ at # 0
        /\ main' = [main EXCEPT ![at] =
                       [@ EXCEPT !.status = "pending", !.attempts = 0, !.verify = 0,
                                 !.transient = 0, !.unverifiable = FALSE, !.gated = FALSE]]
        /\ UNCHANGED <<acceptVars, staging, workVars, archived, podVars, claimed, hooks,
                       dismissed, crashes>>

(* Every copy of the queue in turn: those of a set take their new form.    *)
RewriteAll(old, new) ==
    main' = [i \in 1..Len(main) |-> IF main[i] \in old THEN new[main[i]] ELSE main[i]]

Parked == {r \in ToSet(main) : r.status = "parked"}

Unverifiable == {r \in ToSet(main) : r.status = "error" /\ r.unverifiable}

Parkable == {r \in ToSet(main) : Runnable(r)}

SweepWorkspaceUnverifiable ==
    /\ "sweep" \in Included /\ LockFree
    /\ RewriteAll(Unverifiable, [r \in Unverifiable |->
                                   [r EXCEPT !.status = "verifying", !.verify = 0,
                                             !.gated = FALSE]])
    /\ UNCHANGED <<acceptVars, staging, workVars, archived, podVars, history, crashes>>

ParkWorkspace ==
    /\ "park" \in Included /\ LockFree
    /\ RewriteAll(Parkable, [r \in Parkable |->
                               [r EXCEPT !.status = "parked", !.unverifiable = FALSE,
                                         !.gated = FALSE]])
    /\ UNCHANGED <<acceptVars, staging, workVars, archived, podVars, history, crashes>>

UnparkWorkspace ==
    /\ "park" \in Included /\ LockFree
    /\ RewriteAll(Parked, [r \in Parked |-> [r EXCEPT !.status = "pending", !.gated = FALSE]])
    /\ UNCHANGED <<acceptVars, staging, workVars, archived, podVars, history, crashes>>

(* dispositionParked, for an entry both of whose probes were answered.     *)
Completes(r) == "done" \in {Row(r.id, r.attempts), Row(r.id, r.attempts + 1)}

Adopted(r) == IF Row(r.id, r.attempts + 1) = "failed" THEN r.attempts + 1 ELSE r.attempts

Rearms(r) ==
    /\ ~Completes(r)
    /\ "ledgered" \notin {Row(r.id, r.attempts), Row(r.id, r.attempts + 1)}
    /\ ~r.unverifiable
    /\ Adopted(r) < MaxAttempts

(* The parked-error sweep.  A pod that does not answer a probe leaves the  *)
(* entry to the next sweep.                                                *)
SweepParkedErrors ==
    /\ "sweep" \in Included /\ LockFree
    /\ \E answered \in SUBSET Ids(main) :
          LET swept == {r \in ToSet(main) : r.status = "error" /\ r.id \in answered}
              done  == {r \in swept : Completes(r)}
              left  == Without(main, done)
          IN  /\ main' = [i \in 1..Len(left) |->
                            IF left[i] \in swept /\ Rearms(left[i])
                            THEN [left[i] EXCEPT !.status = "pending", !.transient = 0,
                                                 !.attempts = Adopted(left[i]),
                                                 !.unverifiable = FALSE, !.gated = FALSE]
                            ELSE left[i]]
              /\ staging' = Without(staging, done)
              /\ claimed' = claimed \cup {r.id : r \in done}
              /\ hooks' = [e \in Entries |-> hooks[e] + Cardinality({r \in done : r.id = e})]
    /\ UNCHANGED <<acceptVars, workVars, archived, podVars, dismissed, crashes>>

Archive ==
    /\ "archive" \in Included
    /\ archived' = ~archived
    /\ UNCHANGED <<acceptVars, queueVars, workVars, podVars, history, crashes>>

-----------------------------------------------------------------------------
(* The pod, within DeliveryContract *)

PodStores(e) ==
    /\ e \notin transcript
    /\ \E a \in 1..MaxRows : Row(e, a) # "none"
    /\ transcript' = transcript \cup {e}
    /\ UNCHANGED <<acceptVars, queueVars, workVars, archived, row, history, crashes>>

PodAdmits(k) ==
    /\ row[k] = "ledgered" /\ k[1] \in transcript
    /\ row' = [row EXCEPT ![k] = "done"]
    /\ UNCHANGED <<acceptVars, queueVars, workVars, archived, transcript, history, crashes>>

PodFails(k) ==
    /\ "fail" \in Included /\ row[k] = "ledgered"
    /\ row' = [row EXCEPT ![k] = "failed"]
    /\ UNCHANGED <<acceptVars, queueVars, workVars, archived, transcript, history, crashes>>

PodForgets(k) ==
    /\ "forget" \in Included /\ row[k] \in {"done", "failed"}
    /\ row' = [row EXCEPT ![k] = "ledgered"]
    /\ UNCHANGED <<acceptVars, queueVars, workVars, archived, transcript, history, crashes>>

-----------------------------------------------------------------------------
Init ==
    /\ accept = [e \in Entries |-> "new"]
    /\ marker = [m \in Messages |-> NoEntry]
    /\ main = <<>> /\ staging = <<>>
    /\ lock = Free
    /\ pc = [w \in Replicas |-> "down"]
    /\ work = [w \in Replicas |-> NoWork]
    /\ archived = FALSE
    /\ Contract!Init
    /\ claimed = {} /\ dismissed = {}
    /\ hooks = [e \in Entries |-> 0]
    /\ crashes = 0

Work(w) ==
    \/ Pick(w) \/ Unqueue(w) \/ Send(w) \/ PollPrior(w) \/ Post(w) \/ Poll(w)
    \/ RestoreInsert(w) \/ RestoreDrop(w) \/ Fire(w) \/ verifyOne(w)

Next ==
    \/ \E e \in Entries : AcceptCheck(e) \/ AcceptPush(e) \/ AcceptMark(e) \/ AcceptWithdraw(e)
    \/ \E w \in Replicas : Work(w) \/ Recover(w) \/ RecoverDies(w) \/ Crash(w)
    \/ LockExpires
    \/ \E e \in Entries : Dismiss(e) \/ Retry(e) \/ PodStores(e)
    \/ SweepWorkspaceUnverifiable \/ SweepParkedErrors
    \/ ParkWorkspace \/ UnparkWorkspace \/ Archive
    \/ \E k \in Entries \X (1..MaxRows) : PodAdmits(k) \/ PodFails(k) \/ PodForgets(k)

Spec == Init /\ [][Next]_vars

(* Replicas are interchangeable. *)
Symmetry == Permutations(Replicas)

(* Workers run every tick and a killed replica is started again; a dead    *)
(* lock expires; the pod's ledger resolves what it holds.                  *)
FairSpec ==
    /\ Spec
    /\ \A w \in Replicas : WF_vars(Work(w)) /\ WF_vars(Recover(w))
    /\ WF_vars(LockExpires)
    /\ \A e \in Entries : WF_vars(PodStores(e))
    /\ \A k \in Entries \X (1..MaxRows) : WF_vars(PodAdmits(k))

-----------------------------------------------------------------------------
(* Properties *)

(* No accepted entry is lost: until it is confirmed delivered or the user  *)
(* dismisses it, the queue or the staging list holds it, whatever replica  *)
(* dies between the commands of deliverOne, restoreStaged and Recover.     *)
(* This is for messages posted once: an Accept that withdraws its copy may *)
(* take the place that restoreStaged has read for another entry.           *)
NeverLost ==
    \A e \in Entries :
       (accept[e] \in {"pushed", "accepted"} \/ marker[Message(e)] = e)
       => e \in Ids(main) \cup Ids(staging) \cup claimed \cup dismissed

(* A message whose Accept was told "duplicate" has an entry under way or   *)
(* finished: the marker is set only after the push it stands for.          *)
DuplicateIsAccepted ==
    \A e \in Entries :
       accept[e] = "duplicate"
       => \E f \in Entries : /\ Message(f) = Message(e) /\ f # e
                             /\ f \in Ids(main) \cup Ids(staging) \cup claimed \cup dismissed

(* An entry that a list holds stays in one until it is confirmed delivered *)
(* or dismissed, over every death of a replica and every duplicate post,   *)
(* but for its own Accept taking it back and for one step: restoreStaged   *)
(* drops the staged copy after an Accept, which takes no lock, withdrew    *)
(* the copy before which the entry was to be inserted.                     *)
Held(e) == e \in Ids(main) \cup Ids(staging)

PivotWithdrawn(w) ==
    /\ pc[w] = "drop" /\ work[w].idx > 1
    /\ work[w].pivot # <<>> /\ accept[work[w].pivot[1].id] = "duplicate"

OnlyWithdrawnPivotLoses ==
    [][\A e \in Entries : Held(e) /\ ~Held(e)' =>
          \/ e \in claimed' \cup dismissed'
          \/ accept[e] = "lost"
          \/ \E w \in Replicas : PivotWithdrawn(w) /\ work[w].was[1].id = e]_vars

(* Without crashes: at most one copy is staged, and it is the one that the *)
(* holder of the session's lock is delivering.                             *)
OneInFlight ==
    /\ Len(staging) <= 1
    /\ \A r \in ToSet(staging) : lock \in Replicas /\ work[lock].was = <<r>>

(* An entry is confirmed delivered only if the harness stores its message, *)
(* by whichever of the five paths to the claim it went.                    *)
CompletedIsStored == claimed \subseteq transcript

(* The delivered hook (metering, activity, the queue's update) fires at    *)
(* most once for an entry.                                                 *)
HookOnce == \A e \in Entries : hooks[e] <= 1

(* Every accepted entry is confirmed delivered or shown to the user as an  *)
(* error: none is sent, polled or verified for ever.                       *)
AcceptedResolves ==
    \A e \in Entries :
       (e \in Ids(main) \cup Ids(staging))
       ~> (e \notin Ids(main) \cup Ids(staging)
           \/ \E r \in ToSet(main) : r.id = e /\ r.status = "error")
=============================================================================
