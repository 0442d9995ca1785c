--------------------------- MODULE LeaseProjection ---------------------------
(***************************************************************************)
(* What agentd's projection shows of one session besides its transcript:   *)
(* the asks that wait for the user (pending inputs) and the busy flag.     *)
(* The harness owns both truths.  Its events tell the projection of a      *)
(* change, but the event stream loses events and an aborted turn drops its *)
(* asks without one, so the projection also re-reads the truth:            *)
(*                                                                         *)
(*   - the reconcile pass (a timer): declared tool timeouts, the busy      *)
(*     sweep, the re-derivation of the status, the lease diff;             *)
(*   - the serve path: a snapshot request re-reads the asks, one gather at *)
(*     a time, and reuses a fresh gather for the resolve half only;        *)
(*   - the reseed: rebuilds the record from the store while events buffer; *)
(*   - an answer that the harness refuses as unknown resolves the ask.     *)
(*                                                                         *)
(* Every such read is old when it is applied.  What keeps it from undoing  *)
(* newer events is a stamp: the sequence number when the read began, which *)
(* is compared with the number at which an entry was last folded.          *)
(*                                                                         *)
(* One session is modelled: records are per session, and events of other   *)
(* sessions only advance the shared sequence number, which no comparison   *)
(* between this session's numbers can see.  Several folds of one critical  *)
(* section are numbered alike, as no stamp can fall between them.          *)
(***************************************************************************)
EXTENDS Naturals, Sequences, FiniteSets

CONSTANTS
    Asks,         \* identifiers of questions and permissions, never reused
    Focuses,      \* what a behaviour exercises: "asks", "turns"
    MaxInputs,    \* bound: what harness, users and faults do between them
    MaxReseeds    \* bound: reseeds of the projection

ASSUME LeaseAssumption ==
    /\ IsFiniteSet(Asks)
    /\ MaxInputs \in Nat /\ MaxReseeds \in Nat
    /\ "none" \notin Asks /\ Focuses \subseteq {"asks", "turns"}

VARIABLES
    focus,     \* which half of the record the inputs of this behaviour concern
    harness,   \* the harness: its live asks, its turn and what its list says
    wire,      \* events on their way to Ingest, in order
    inputs,    \* inputs so far
    reseeds,   \* reseeds so far
    seq,       \* a.seq
    rec,       \* the sessionRecord
    buffer,    \* a.pending: events held back while a reseed runs
    pass,      \* the goroutine that holds reseedMu: a pass or a reseed
    serve,     \* the serve that gathers (inFlight)
    cache,     \* serveGather's reusable slice
    answer,    \* an answer between the harness's 404 and its fold
    admitting, \* an admission holds the session's lock
    settled,   \* history: asks whose resolution event was folded since swapSeq
    swapSeq,   \* history: the number the last reseed's swap consumed
    deadTurn   \* history: the turn last folded dead, 0 once the harness spoke

vars == <<focus, harness, wire, inputs, reseeds, seq, rec, buffer, pass, serve, cache,
          answer, admitting, settled, swapSeq, deadTurn>>

env == <<focus, harness, wire, inputs, reseeds>>
ghosts == <<settled, swapSeq, deadTurn>>

------------------------------------------------------------------------------
(* The record and its fold. *)

\* newSessionRecord.  since and resolved are pendingSince and resolvedSeq (0:
\* no entry), old that the busy mark is older than the lease bound, tool that
\* a running tool part with a declared deadline is the last active part, and
\* turn, a history field, the turn that the busy mark is about.
NewRecord(pend, dead) ==
    [pending |-> pend, since |-> [a \in Asks |-> 0],
     resolved |-> [a \in Asks |-> 0], busy |-> FALSE, lastBusySeq |-> 0,
     old |-> FALSE, tool |-> FALSE, foldedDead |-> dead, turn |-> 0]

\* markBusy: the mark carries the number of the event and the time.
MarkBusy(r, n, t) ==
    [r EXCEPT !.busy = TRUE, !.lastBusySeq = n, !.old = FALSE, !.turn = t]

\* The events of one kind about the asks in set as.
Resolve(r, as, n) ==
    [r EXCEPT !.pending = @ \ as,
              !.resolved = [a \in Asks |-> IF a \in as THEN n ELSE @[a]]]
Request(r, as, n) ==
    [r EXCEPT !.pending = @ \cup as,
              !.since = [a \in Asks |-> IF a \in as THEN n ELSE @[a]]]

\* applyContractLocked: one event, numbered n, folded into the record.
Fold(r, e, n) ==
    CASE e.kind = "request"  -> Request(r, {e.ask}, n)
      [] e.kind = "resolved" -> Resolve(r, {e.ask}, n)
      [] e.kind = "busy"     -> MarkBusy(r, n, e.turn)
      [] e.kind = "part"     -> [MarkBusy(r, n, e.turn) EXCEPT !.tool = TRUE]
      [] e.kind = "partEnd"  -> [r EXCEPT !.tool = FALSE]
      [] e.kind = "error"    -> [r EXCEPT !.busy = FALSE]
      [] e.kind = "idle"     -> [r EXCEPT !.busy = FALSE, !.tool = FALSE]

\* The record after the events of evs, the first of them numbered n + 1.
FoldAll(r, evs, n) ==
    LET f[i \in 0..Len(evs)] ==
            IF i = 0 THEN r ELSE Fold(f[i - 1], evs[i], n + i)
    IN  f[Len(evs)]

\* The asks resolved by the events of evs.
ResolvedIn(evs) == {evs[i].ask : i \in {j \in DOMAIN evs : evs[j].kind = "resolved"}}

------------------------------------------------------------------------------
(* The harness, as agentd sees it: its HTTP answers and its event stream.  *)

AskEvent(k, a) == [kind |-> k, ask |-> a, turn |-> 0]
TurnEvent(k) == [kind |-> k, ask |-> "none", turn |-> harness.turns]

Authority == <<seq, rec, buffer, pass, serve, cache, answer, ghosts>>

Input ==
    /\ inputs < MaxInputs
    /\ inputs' = inputs + 1
    /\ UNCHANGED <<focus, reseeds, Authority>>

\* An event reaches the stream, or a recycle of the subscription loses it.
Emit(e) == wire' \in {Append(wire, e), wire}

\* The running turn blocks a tool call on a new ask.
Ask(a) ==
    /\ Input
    /\ focus = "asks" /\ harness.running /\ a \notin harness.asked
    /\ harness' = [harness EXCEPT !.live = @ \cup {a}, !.asked = @ \cup {a}]
    /\ Emit(AskEvent("request", a))
    /\ UNCHANGED admitting

\* An answer reaches the harness, which closes the ask.
Answered(a) ==
    /\ Input
    /\ a \in harness.live
    /\ harness' = [harness EXCEPT !.live = @ \ {a}]
    /\ Emit(AskEvent("resolved", a))
    /\ UNCHANGED admitting

\* A turn starts.  The session list may say so or not: it is biased to idle.
StartTurn ==
    /\ Input
    /\ focus = "turns" /\ ~harness.running
    /\ \E l \in BOOLEAN :
         harness' = [harness EXCEPT !.running = TRUE, !.turns = @ + 1, !.list = l]
    /\ wire' \in {Append(wire, [TurnEvent("busy") EXCEPT !.turn = @ + 1]), wire}
    /\ UNCHANGED admitting

\* The running turn starts or ends a tool call with a declared timeout.
ToolEvent ==
    /\ Input
    /\ focus = "turns"
    /\ harness.running
    /\ \E k \in {"part", "partEnd"} : Emit(TurnEvent(k))
    /\ UNCHANGED <<harness, admitting>>

\* The turn ends; its remaining asks are dropped without an event.
EndTurn ==
    /\ Input
    /\ harness.running
    /\ harness' = [harness EXCEPT !.running = FALSE, !.live = {}, !.list = FALSE]
    /\ \E k \in {"idle", "error"} : Emit(TurnEvent(k))
    /\ UNCHANGED admitting

\* An admission takes the session's single-flight lock.
Admit ==
    /\ Input
    /\ ~admitting
    /\ admitting' = TRUE
    /\ UNCHANGED <<harness, wire>>

AdmitEnd ==
    /\ admitting
    /\ admitting' = FALSE
    /\ UNCHANGED <<env, Authority>>

------------------------------------------------------------------------------
(* Events and answers. *)

\* Ingest: held back while a reseed buffers; otherwise the hold of a session
\* that was folded dead is lifted and the event is folded.
Ingest ==
    /\ wire # <<>>
    /\ wire' = Tail(wire)
    /\ LET e == Head(wire) IN
         IF pass.buffering
         THEN /\ buffer' = Append(buffer, e)
              /\ UNCHANGED <<seq, rec, settled, deadTurn>>
         ELSE /\ seq' = seq + 1
              /\ rec' = Fold([rec EXCEPT !.foldedDead = FALSE], e, seq + 1)
              /\ settled' = settled \cup ResolvedIn(<<e>>)
              /\ deadTurn' = 0
              /\ UNCHANGED buffer
    /\ UNCHANGED <<focus, harness, inputs, reseeds, pass, serve, cache, answer,
                   admitting, swapSeq>>

\* actAnswer, an answer to an ask that the harness no longer knows: 404.
AnswerUnknown(a) ==
    /\ inputs < MaxInputs
    /\ inputs' = inputs + 1
    /\ answer = "none" /\ a \in harness.asked \ harness.live
    /\ answer' = a
    /\ UNCHANGED <<focus, harness, wire, reseeds, seq, rec, buffer, pass, serve, cache,
                   admitting, ghosts>>

\* resolveByAbsence: a projected ask is resolved through the fold.
ResolveByAbsence ==
    /\ answer # "none"
    /\ answer' = "none"
    /\ IF answer \in rec.pending
       THEN /\ seq' = seq + 1
            /\ rec' = Resolve(rec, {answer}, seq + 1)
       ELSE UNCHANGED <<seq, rec>>
    /\ UNCHANGED <<env, buffer, pass, serve, cache, admitting, ghosts>>

------------------------------------------------------------------------------
(* The lease diff. *)

\* Mutant: entries folded after the gather are not spared.
MissingUngated(r, seen, stamp) == r.pending \ seen

\* diffSessionLease, first half: projected asks that the gather did not see,
\* except those folded after it began.
MissingAsks(r, seen, stamp) ==
    {a \in r.pending \ seen : ~(r.since[a] > stamp)}

\* Mutant: entries resolved after the gather are not spared.
NewUngated(r, seen, stamp) == seen \ r.pending

\* Second half: asks that the gather saw and the projection has not, except
\* those resolved after it began.
NewAsks(r, seen, stamp) ==
    {a \in seen \ r.pending : ~(r.resolved[a] > stamp)}

\* diffSessionLease, and diffSessionResolveOnly for a reused gather.
DiffSessionLease(seen, stamp, reused) ==
    LET gone == MissingAsks(rec, seen, stamp)
        new  == IF reused THEN {} ELSE NewAsks(rec, seen, stamp)
        n    == seq + Cardinality(gone) + Cardinality(new)
    IN  /\ seq' = n
        /\ rec' = Request(Resolve(rec, gone, n), new, n)

\* The session's lock is only tried: a session mid-admission is skipped.
DiffUnlessAdmitting(seen, stamp, reused) ==
    IF admitting THEN UNCHANGED <<seq, rec>>
                 ELSE DiffSessionLease(seen, stamp, reused)

------------------------------------------------------------------------------
(* The reconcile pass.  pass.pc says what has been done; reseedMu keeps    *)
(* passes and reseeds apart.  pass.turn is a history field: the turn that  *)
(* the evidence is about.                                                  *)

IdlePass ==
    [pc |-> "idle", stamp |-> 0, buffering |-> FALSE, busy |-> FALSE,
     liveBusy |-> FALSE, seen |-> {}, turn |-> 0]

PassStep(from) ==
    /\ pass.pc = from
    /\ UNCHANGED <<env, buffer, serve, cache, answer, admitting, settled, swapSeq>>

\* enforceDeclaredTimeoutsLocked: the last active tool part may be past its
\* declared deadline; then the turn is dead by contract.
EnforceDeclaredTimeouts ==
    /\ PassStep("idle")
    /\ pass' = [IdlePass EXCEPT !.pc = "enforced"]
    /\ \E late \in BOOLEAN :
         IF late /\ rec.tool
         THEN /\ rec' = [rec EXCEPT !.busy = FALSE, !.tool = FALSE, !.foldedDead = TRUE]
              /\ deadTurn' = rec.turn
         ELSE UNCHANGED <<rec, deadTurn>>
    /\ UNCHANGED seq

\* The freshness stamp is taken before the evidence is read.
StampEvidence ==
    /\ PassStep("enforced")
    /\ pass' = [pass EXCEPT !.pc = "stamped", !.stamp = seq]
    /\ UNCHANGED <<seq, rec, deadTurn>>

\* SessionStates: the list's status, the turn registry's verdict and the asks.
\* A failure is one of the inputs: a registry that cannot be read counts as
\* busy, an ask list that cannot be read as empty, a session list that cannot
\* be read ends the pass.
SessionStates(next) ==
    LET read == [pass EXCEPT !.pc = next, !.busy = harness.list,
                             !.liveBusy = harness.running, !.seen = harness.live,
                             !.turn = harness.turns]
    IN  /\ \/ pass' = read /\ UNCHANGED inputs
           \/ /\ inputs < MaxInputs
              /\ inputs' = inputs + 1
              /\ pass' \in {[read EXCEPT !.liveBusy = TRUE], [read EXCEPT !.seen = {}],
                            IdlePass}
        /\ UNCHANGED <<focus, harness, wire, reseeds, seq, rec, buffer, serve, cache,
                       answer, admitting, ghosts>>

ReadEvidence == pass.pc = "stamped" /\ SessionStates("evidence")

\* The status event by which evidence ends a turn; ERROR does the same.
IdleStatus == [kind |-> "idle", ask |-> "none", turn |-> 0]

\* Mutant: a busy mark newer than the evidence is not spared.
ClearBusyUngated ==
    IF ~admitting /\ ~pass.busy /\ ~pass.liveBusy /\ rec.busy
    THEN seq' = seq + 1 /\ rec' = Fold(rec, IdleStatus, seq + 1)
    ELSE UNCHANGED <<seq, rec>>

\* sweepAgainstEvidence with clearBusyFromEvidence: a busy session whose turn
\* the evidence shows ended, unless it was marked busy after the stamp.
ClearBusyFromEvidence ==
    IF /\ ~admitting /\ ~pass.busy /\ ~pass.liveBusy
       /\ rec.busy /\ ~(rec.lastBusySeq > pass.stamp)
    THEN /\ seq' = seq + 1
         /\ rec' = Fold(rec, IdleStatus, seq + 1)
    ELSE UNCHANGED <<seq, rec>>

\* Mutant: the sweep leaves the busy flag alone.
SweepRowsOnly ==
    /\ PassStep("evidence")
    /\ pass' = [pass EXCEPT !.pc = "swept"]
    /\ UNCHANGED <<seq, rec, deadTurn>>

Sweep ==
    /\ PassStep("evidence")
    /\ ClearBusyFromEvidence
    /\ pass' = [pass EXCEPT !.pc = "swept"]
    /\ UNCHANGED deadTurn

\* rederiveStatusLocked: the store's BUSY marks a session that is not held as
\* folded dead; its IDLE clears a busy mark past the lease bound.
RederiveStatus ==
    /\ PassStep("swept")
    /\ IF admitting THEN UNCHANGED <<seq, rec>>
       ELSE CASE pass.busy /\ ~rec.busy /\ ~rec.foldedDead ->
                   /\ seq' = seq + 1
                   /\ rec' = MarkBusy(rec, seq + 1, pass.turn)
              [] ~pass.busy /\ ~pass.liveBusy /\ rec.busy /\ rec.old ->
                   /\ seq' = seq + 1
                   /\ rec' = Fold(rec, IdleStatus, seq + 1)
              [] OTHER -> UNCHANGED <<seq, rec>>
    /\ pass' = [pass EXCEPT !.pc = "rederived"]
    /\ UNCHANGED deadTurn

StampGather ==
    /\ PassStep("rederived")
    /\ pass' = [IdlePass EXCEPT !.pc = "gstamped", !.stamp = seq]
    /\ UNCHANGED <<seq, rec, deadTurn>>

\* PendingInputs; a failure leaves the projection alone.
PendingInputs ==
    /\ pass.pc = "gstamped"
    /\ \/ pass' = [pass EXCEPT !.pc = "gathered", !.seen = harness.live] /\ UNCHANGED inputs
       \/ inputs < MaxInputs /\ inputs' = inputs + 1 /\ pass' = IdlePass
    /\ UNCHANGED <<focus, harness, wire, reseeds, seq, rec, buffer, serve, cache, answer,
                   admitting, ghosts>>

\* Mutant: the pass only resolves.
DiffResolveOnly ==
    /\ PassStep("gathered")
    /\ DiffUnlessAdmitting(pass.seen, pass.stamp, TRUE)
    /\ pass' = IdlePass
    /\ UNCHANGED deadTurn

DiffPendingLeases ==
    /\ PassStep("gathered")
    /\ DiffUnlessAdmitting(pass.seen, pass.stamp, FALSE)
    /\ pass' = IdlePass
    /\ UNCHANGED deadTurn

\* The busy mark passes the lease bound of 30 s.  A pass lasts at most 10 s,
\* so a mark made after its stamp does not.
Age ==
    /\ focus = "turns" /\ rec.busy /\ ~rec.old
    /\ pass.pc \in {"stamped", "evidence", "swept"} => ~(rec.lastBusySeq > pass.stamp)
    /\ rec' = [rec EXCEPT !.old = TRUE]
    /\ UNCHANGED <<env, seq, buffer, pass, serve, cache, answer, admitting, ghosts>>

------------------------------------------------------------------------------
(* Reseed. *)

ReseedStamp ==
    /\ pass.pc = "idle" /\ reseeds < MaxReseeds
    /\ reseeds' = reseeds + 1
    /\ pass' = [IdlePass EXCEPT !.pc = "rsStamped", !.stamp = seq]
    /\ UNCHANGED <<focus, harness, wire, inputs, seq, rec, buffer, serve, cache, answer,
                   admitting, ghosts>>

ReseedRead == pass.pc = "rsStamped" /\ SessionStates("rsRead")

\* The buffer is armed after the read.
ReseedArm ==
    /\ PassStep("rsRead")
    /\ pass' = [pass EXCEPT !.pc = "rsArmed", !.buffering = TRUE]
    /\ UNCHANGED <<seq, rec, deadTurn>>

ReseedSweep ==
    /\ PassStep("rsArmed")
    /\ ClearBusyFromEvidence
    /\ pass' = [pass EXCEPT !.pc = "rsSwept"]
    /\ UNCHANGED deadTurn

\* Mutant: the swap forgets which sessions were folded dead.
SwapForgetsDead ==
    /\ pass.pc = "rsSwept"
    /\ seq' = seq + 1
    /\ rec' = NewRecord(pass.seen, FALSE)
    /\ pass' = [pass EXCEPT !.pc = "rsSwapped"]
    /\ swapSeq' = seq + 1
    /\ settled' = {}
    /\ UNCHANGED <<env, buffer, serve, cache, answer, admitting, deadTurn>>

\* The swap: the record is rebuilt by seedLocked, the notice takes a number,
\* and a session that was folded dead stays so if the store still says BUSY.
ReseedSwap ==
    /\ pass.pc = "rsSwept"
    /\ seq' = seq + 1
    /\ rec' = NewRecord(pass.seen, rec.foldedDead /\ pass.busy)
    /\ pass' = [pass EXCEPT !.pc = "rsSwapped"]
    /\ swapSeq' = seq + 1
    /\ settled' = {}
    /\ UNCHANGED <<env, buffer, serve, cache, answer, admitting, deadTurn>>

\* flush: buffered events are folded; the hold is not lifted here.
ReseedFlush ==
    /\ pass.pc = "rsSwapped"
    /\ pass' = IdlePass
    /\ seq' = seq + Len(buffer)
    /\ rec' = FoldAll(rec, buffer, seq)
    /\ settled' = settled \cup ResolvedIn(buffer)
    /\ deadTurn' = IF buffer = <<>> THEN deadTurn ELSE 0
    /\ buffer' = <<>>
    /\ UNCHANGED <<env, serve, cache, answer, admitting, swapSeq>>

------------------------------------------------------------------------------
(* The serve path. *)

IdleServe == [pc |-> "idle", stamp |-> 0, seen |-> {}]
NoCache == [fresh |-> FALSE, stamp |-> 0, seen |-> {}]

\* refreshSessionLeaseOnServe, a fresh gather is there: only its resolve half.
ServeCached ==
    /\ serve.pc = "idle" /\ cache.fresh
    /\ DiffUnlessAdmitting(cache.seen, cache.stamp, TRUE)
    /\ UNCHANGED <<env, buffer, pass, serve, cache, answer, admitting, ghosts>>

\* Otherwise this serve gathers (inFlight); others meanwhile serve as it is.
ServeStamp ==
    /\ focus = "asks" /\ serve.pc = "idle" /\ ~cache.fresh
    /\ inputs < MaxInputs
    /\ inputs' = inputs + 1
    /\ serve' = [serve EXCEPT !.pc = "stamped", !.stamp = seq]
    /\ UNCHANGED <<focus, harness, wire, reseeds, seq, rec, buffer, pass, cache, answer, admitting, ghosts>>

\* The read succeeds and is cached, or it fails and nothing changes.
ServeRead ==
    /\ serve.pc = "stamped"
    /\ \/ /\ serve' = [serve EXCEPT !.pc = "gathered", !.seen = harness.live]
          /\ cache' = [fresh |-> TRUE, stamp |-> serve.stamp, seen |-> harness.live]
       \/ serve' = IdleServe /\ UNCHANGED cache
    /\ UNCHANGED <<env, seq, rec, buffer, pass, answer, admitting, ghosts>>

ServeApply ==
    /\ serve.pc = "gathered"
    /\ DiffUnlessAdmitting(serve.seen, serve.stamp, FALSE)
    /\ serve' = IdleServe
    /\ UNCHANGED <<env, buffer, pass, cache, answer, admitting, ghosts>>

\* gatherTTL has passed.
CacheExpires ==
    /\ cache.fresh
    /\ cache' = NoCache
    /\ UNCHANGED <<env, seq, rec, buffer, pass, serve, answer, admitting, ghosts>>

------------------------------------------------------------------------------
(* The session was seeded at boot and has no ask.  With the focus on asks  *)
(* a turn is running and known to be; with the focus on turns none is, and *)
(* no ask is made: the two halves of the record share no field.            *)
Init ==
    /\ focus \in Focuses
    /\ LET t == IF focus = "asks" THEN 1 ELSE 0 IN
         /\ harness = [live |-> {}, asked |-> {}, running |-> t = 1, turns |-> t,
                       list |-> t = 1]
         /\ seq = t
         /\ rec = IF t = 1 THEN MarkBusy(NewRecord({}, FALSE), 1, 1)
                           ELSE NewRecord({}, FALSE)
    /\ wire = <<>> /\ inputs = 0 /\ reseeds = 0 /\ buffer = <<>>
    /\ pass = IdlePass /\ serve = IdleServe /\ cache = NoCache
    /\ answer = "none" /\ admitting = FALSE
    /\ settled = {} /\ swapSeq = 0 /\ deadTurn = 0

Harness ==
    \/ \E a \in Asks : Ask(a) \/ Answered(a)
    \/ StartTurn \/ ToolEvent \/ EndTurn \/ Admit

Reconcile ==
    \/ EnforceDeclaredTimeouts \/ StampEvidence \/ ReadEvidence \/ Sweep
    \/ RederiveStatus \/ StampGather \/ PendingInputs \/ DiffPendingLeases

Reseed == ReseedRead \/ ReseedArm \/ ReseedSweep \/ ReseedSwap \/ ReseedFlush

Serve == ServeCached \/ ServeStamp \/ ServeRead \/ ServeApply \/ CacheExpires

Next ==
    \/ Harness \/ AdmitEnd \/ Ingest
    \/ \E a \in Asks : AnswerUnknown(a)
    \/ ResolveByAbsence
    \/ Reconcile \/ Age \/ ReseedStamp \/ Reseed \/ Serve

Spec == Init /\ [][Next]_vars

(* The reader of the stream keeps reading, an admission ends, and the pass *)
(* is run by a timer to its end.  Serves and answers promise nothing.      *)
FairSpec ==
    /\ Spec
    /\ WF_vars(Ingest) /\ WF_vars(AdmitEnd) /\ WF_vars(Reconcile \/ Reseed)

------------------------------------------------------------------------------
(* Properties. *)

Ev ==
    [kind : {"request", "resolved"}, ask : Asks, turn : {0}]
    \cup [kind : {"busy", "part", "partEnd", "error", "idle"}, ask : {"none"}, turn : Nat]

Harnesses == [live : SUBSET Asks, asked : SUBSET Asks, running : BOOLEAN,
              turns : Nat, list : BOOLEAN]

\* Records, passes, serves and cached gathers, whose numbers are at most n.
Records(n) ==
    [pending : SUBSET Asks, since : [Asks -> 0..n], resolved : [Asks -> 0..n],
     busy : BOOLEAN, lastBusySeq : 0..n, old : BOOLEAN, tool : BOOLEAN,
     foldedDead : BOOLEAN, turn : Nat]
Passes(n) ==
    [pc : {"idle", "enforced", "stamped", "evidence", "swept", "rederived", "gstamped",
           "gathered", "rsStamped", "rsRead", "rsArmed", "rsSwept", "rsSwapped"},
     stamp : 0..n, buffering : BOOLEAN, busy : BOOLEAN, liveBusy : BOOLEAN,
     seen : SUBSET Asks, turn : Nat]
Serves(n) == [pc : {"idle", "stamped", "gathered"}, stamp : 0..n, seen : SUBSET Asks]
Caches(n) == [fresh : BOOLEAN, stamp : 0..n, seen : SUBSET Asks]

\* The record, the wire, and the processes around them keep their types.
TypeOK ==
    /\ harness \in Harnesses
    /\ wire \in Seq(Ev) /\ buffer \in Seq(Ev)
    /\ inputs \in 0..MaxInputs /\ reseeds \in 0..MaxReseeds
    /\ seq \in Nat /\ swapSeq \in 0..seq
    /\ rec \in Records(seq) /\ pass \in Passes(seq)
    /\ serve \in Serves(seq) /\ cache \in Caches(seq)
    /\ answer \in Asks \cup {"none"} /\ admitting \in BOOLEAN
    /\ settled \subseteq Asks /\ deadTurn \in Nat

(* An ask whose resolution the harness announced and the projection folded *)
(* is never shown again, whatever gathers were under way: neither the pass *)
(* nor a serve, fresh or cached, brings back a prompt that the user has    *)
(* just answered.  (From one reseed to the next.)                          *)
NoResurrection == rec.pending \cap settled = {}

(* The stamp a step that removes asks from the record goes by. *)
StepStamp ==
    CASE pass.pc = "gathered" /\ pass'.pc = "idle" -> pass.stamp
      [] serve.pc = "gathered" /\ serve'.pc = "idle" -> serve.stamp
      [] OTHER -> cache.stamp

(* A prompt that the harness still waits on is never taken from the user   *)
(* by a gather that began before the prompt was folded: only a reseed's    *)
(* swap, or a gather that began before such a swap, can do that.           *)
LiveAskStays ==
    [][ (\E a \in rec.pending \ rec'.pending : a \in harness.live)
        => swapSeq' # swapSeq \/ StepStamp < swapSeq ]_vars

(* Evidence clears busy only when the turn that marked the session busy    *)
(* has really ended in the harness: a turn that starts while the evidence  *)
(* is being read or applied is never reported as over.                     *)
EndedTurns == IF harness.running THEN harness.turns - 1 ELSE harness.turns
EvidenceClearsEndedTurns ==
    [][ rec.busy /\ ~rec'.busy /\ pass.pc \in {"evidence", "swept", "rsArmed"}
            /\ pass'.pc # pass.pc
        => rec.turn <= EndedTurns ]_vars

(* A turn that was folded dead past a declared timeout is not shown busy   *)
(* again until the harness has spoken: not by the store's stale BUSY, not  *)
(* across a reseed.                                                        *)
DeadStaysDead == deadTurn # 0 /\ rec.busy => rec.turn > deadTurn

(* Whatever was lost or dropped without an event, the prompts shown are in *)
(* the end exactly the ones that the harness waits on.                     *)
AsksConverge == <>[](rec.pending = harness.live)

(* A session whose turn is over does not stay busy.                        *)
BusyConverges == <>[](harness.running \/ ~rec.busy)
==============================================================================
