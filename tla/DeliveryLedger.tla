---------------------------- MODULE DeliveryLedger ----------------------------
(***************************************************************************)
(* The delivery ledger of one session (cmd/workspace-agentd/sessionstate,  *)
(* ledger.go and the ledger half of reconcile.go): the write-ahead log,    *)
(* the rows it rebuilds, the admission drivers under the session's         *)
(* single-flight lock, the store-evidence sweep, stall detection and the   *)
(* promotion events, against a harness that may take a prompt late, answer *)
(* it late or lose it.                                                     *)
(*                                                                         *)
(* The log is what replaying it would rebuild: replay takes the last line  *)
(* of every key and stops at the first line it cannot parse, so a torn     *)
(* line hides everything that is appended after it.                        *)
(***************************************************************************)
EXTENDS Naturals, FiniteSets

CONSTANTS
    Entries,           \* outbox entries addressed to the session
    MaxAttempt,        \* bound: delivery attempts the outbox makes of an entry
    AdmissionAttempts, \* admissionAttempts
    TornTails,         \* whether an append may leave half a line behind
    MaxFaults          \* bound: crashes, harness restarts, failed appends

ASSUME LedgerAssumption ==
    /\ MaxAttempt \in Nat \ {0}
    /\ AdmissionAttempts \in Nat \ {0}
    /\ TornTails \in BOOLEAN
    /\ MaxFaults \in Nat

VARIABLES
    rows,       \* deliveryLedger.rows
    saved,      \* what replaying the log file would rebuild
    torn,       \* the file holds a line that replay cannot parse
    acked,      \* history: keys whose Deliver was answered
    aged,       \* keys whose row is older than the deadline of its state
    drv,        \* driveAdmission goroutines
    lock,       \* the session's single-flight lock
    booted,     \* replayUnresolved has run in this process
    sweep,      \* the reconcile pass and the evidence it has gathered
    collected,  \* keys observeEvent is about to promote
    sent,       \* harness: prompts on their way
    transcript, \* harness: entries whose user message is stored
    answered,   \* harness: entries whose turn produced its message
    running,    \* harness: entries whose turn runs
    faults      \* history: faults so far

ledgerVars == <<rows, saved, torn, aged>>
harnessVars == <<sent, transcript, answered, running>>
vars == <<ledgerVars, acked, drv, lock, booted, sweep, collected, harnessVars,
          faults>>

Keys == Entries \X (1..MaxAttempt)

(* A row is driven by the goroutine of its Deliver and, after a restart,   *)
(* by the one of the replay.                                               *)
Drivers == Keys \X {"deliver", "replay"}

Key(d) == d[1]
Entry(d) == d[1][1]

NoDriver == <<>>

LedgerStates ==
    {"ledgered", "admitted", "promoted", "turn-ended", "stalled", "failed"}

AdmittedOrLater == {"admitted", "promoted", "turn-ended", "stalled"}

(* The message ID of a row is the entry-derived key of the user message    *)
(* or the ID of the assistant message that Admit returned.                 *)
Rows == [st : LedgerStates \cup {"absent"}, mid : {"none", "user", "asst"}]

Row(s, m) == [st |-> s, mid |-> m]

NoRow == Row("absent", "none")

MessageIDs == Entries \X {"user", "asst"}

MessageID(k) == <<k[1], rows[k].mid>>

Idle == [pc |-> "idle", ended |-> FALSE, queried |-> {}, present |-> {}]

Stopped == [pc |-> "none", tries |-> 0, mid |-> "none"]

TypeOK ==
    /\ rows \in [Keys -> Rows]
    /\ saved \in [Keys -> Rows]
    /\ torn \in BOOLEAN
    /\ acked \subseteq Keys
    /\ aged \subseteq Keys
    /\ drv \in [Drivers -> [pc : {"none", "try", "locked", "post", "wait", "mark"},
                            tries : 0..AdmissionAttempts,
                            mid : {"none", "user", "asst"}]]
    /\ lock \in Drivers \cup {NoDriver}
    /\ booted \in BOOLEAN
    /\ sweep \in [pc : {"idle", "status", "rows"}, ended : BOOLEAN,
                  queried : SUBSET MessageIDs, present : SUBSET MessageIDs]
    /\ collected \subseteq Keys
    /\ sent \subseteq Entries
    /\ transcript \subseteq Entries
    /\ answered \subseteq Entries
    /\ running \subseteq Entries
    /\ faults \in 0..MaxFaults

-----------------------------------------------------------------------------
(* The log *)

(* The lines of the keys K, taken from new, are in the file.               *)
Replayed(K, new) ==
    IF torn THEN saved ELSE [k \in Keys |-> IF k \in K THEN new[k] ELSE saved[k]]

appendSync_noFsync(K, new) == UNCHANGED <<saved, torn, faults>>

(* appendSyncLocked, once per key of K, returns no error.                  *)
appendSync(K, new) ==
    /\ saved' = Replayed(K, new)
    /\ UNCHANGED <<torn, faults>>

(* It returns an error for some of them: the line may be in the file all   *)
(* the same (a failed fsync), or half of it.                               *)
appendFails(K, new) ==
    /\ K # {}
    /\ faults < MaxFaults
    /\ faults' = faults + 1
    /\ \E done \in SUBSET K : saved' = Replayed(done, new)
    /\ torn' \in {torn} \cup {TornTails}

(* The callers that only log the error.                                    *)
appendLogged(K, new) == appendSync(K, new) \/ appendFails(K, new)

(* transition: a row that is not in the from-set is left alone; otherwise  *)
(* memory changes first and the append's error is only reported.           *)
transition(k, to, allowed, mid) ==
    IF rows[k].st \in allowed
    THEN /\ rows' = [rows EXCEPT ![k] = Row(to, mid)]
         /\ aged' = aged \ {k}
         /\ appendLogged({k}, rows')
    ELSE UNCHANGED <<ledgerVars, faults>>

fromLedgered == {"ledgered"}
fromAdmitted == {"admitted", "stalled"}

-----------------------------------------------------------------------------
(* Deliver *)

(* One Deliver call.  A known key is answered from its row; a new one is   *)
(* answered once its line is durable, and its driver starts.               *)
Deliver(k) ==
    /\ \/ /\ rows[k] # NoRow
          /\ acked' = acked \cup {k}
          /\ UNCHANGED <<ledgerVars, drv, faults>>
       \/ /\ rows[k] = NoRow
          /\ rows' = [rows EXCEPT ![k] = Row("ledgered", "none")]
          /\ aged' = aged \ {k}
          /\ appendSync({k}, rows')
          /\ acked' = acked \cup {k}
          /\ drv' = [drv EXCEPT ![<<k, "deliver">>] = [Stopped EXCEPT !.pc = "try"]]
       \/ /\ rows[k] = NoRow
          /\ appendFails({k}, [rows EXCEPT ![k] = Row("ledgered", "none")])
          /\ UNCHANGED <<rows, aged, acked, drv>>
    /\ UNCHANGED <<lock, booted, sweep, collected, harnessVars>>

-----------------------------------------------------------------------------
(* driveAdmission and attemptAdmission *)

Goto(d, pc) == drv' = [drv EXCEPT ![d].pc = pc]

Lock(d) ==
    /\ drv[d].pc = "try"
    /\ drv[d].tries < AdmissionAttempts
    /\ lock = NoDriver
    /\ lock' = d
    /\ Goto(d, "locked")
    /\ UNCHANGED <<ledgerVars, acked, booted, sweep, collected, harnessVars, faults>>

admittedAnywhere_none(e) == {}

(* The latest attempt of the entry that is known to have been admitted.    *)
admittedAnywhere(e) ==
    {a \in 1..MaxAttempt :
        /\ rows[<<e, a>>].st \in AdmittedOrLater
        /\ \A b \in 1..MaxAttempt :
              rows[<<e, b>>].st \in AdmittedOrLater => b <= a}

EvidencePresent_errorIsPresence(e) == TRUE

(* The store answers and holds the entry's user message.                   *)
EvidencePresent(e) == e \in transcript

(* The checks under the session lock: the row's own state, the other       *)
(* attempts, the store.  A store that does not answer shows nothing, and   *)
(* the prompt is posted.                                                   *)
Check(d) ==
    LET e == Entry(d)
    IN  /\ drv[d].pc = "locked"
        /\ \/ /\ rows[Key(d)].st # "ledgered"
              /\ drv' = [drv EXCEPT ![d] = Stopped]
              /\ lock' = NoDriver
           \/ /\ rows[Key(d)].st = "ledgered"
              /\ \E a \in admittedAnywhere(e) :
                    drv' = [drv EXCEPT ![d].pc = "mark", ![d].mid = rows[<<e, a>>].mid]
              /\ UNCHANGED lock
           \/ /\ rows[Key(d)].st = "ledgered"
              /\ admittedAnywhere(e) = {}
              /\ EvidencePresent(e)
              /\ drv' = [drv EXCEPT ![d].pc = "mark", ![d].mid = "user"]
              /\ UNCHANGED lock
           \/ /\ rows[Key(d)].st = "ledgered"
              /\ admittedAnywhere(e) = {}
              /\ Goto(d, "post")
              /\ UNCHANGED lock
        /\ UNCHANGED <<ledgerVars, acked, booted, sweep, collected, harnessVars,
                       faults>>

(* Admitter.Admit, keyed by the entry: the request leaves.                 *)
Post(d) ==
    /\ drv[d].pc = "post"
    /\ sent' = sent \cup {Entry(d)}
    /\ Goto(d, "wait")
    /\ UNCHANGED <<ledgerVars, acked, lock, booted, sweep, collected, transcript,
                   answered, running, faults>>

(* The synchronous turn has ended and its message ID comes back.           *)
AdmitReturns(d) ==
    /\ drv[d].pc = "wait"
    /\ Entry(d) \in answered \ running
    /\ drv' = [drv EXCEPT ![d].pc = "mark", ![d].mid = "asst"]
    /\ UNCHANGED <<ledgerVars, acked, lock, booted, sweep, collected, harnessVars,
                   faults>>

(* An error, or the admission timeout; the back-off is slept unlocked.     *)
AdmitFails(d) ==
    /\ drv[d].pc = "wait"
    /\ drv' = [drv EXCEPT ![d].pc = "try", ![d].tries = @ + 1]
    /\ lock' = NoDriver
    /\ UNCHANGED <<ledgerVars, acked, booted, sweep, collected, harnessVars, faults>>

markAdmitted(d) ==
    /\ drv[d].pc = "mark"
    /\ transition(Key(d), "admitted", fromLedgered, drv[d].mid)
    /\ drv' = [drv EXCEPT ![d] = Stopped]
    /\ lock' = NoDriver
    /\ UNCHANGED <<acked, booted, sweep, collected, harnessVars>>

(* The ladder is exhausted; the row fails outside the session lock.        *)
markFailed(d) ==
    /\ drv[d].pc = "try"
    /\ drv[d].tries = AdmissionAttempts
    /\ transition(Key(d), "failed", fromLedgered, rows[Key(d)].mid)
    /\ drv' = [drv EXCEPT ![d] = Stopped]
    /\ UNCHANGED <<acked, lock, booted, sweep, collected, harnessVars>>

(* replayUnresolved, once per process, after the boot reseed.              *)
replayUnresolved ==
    /\ ~booted
    /\ booted' = TRUE
    /\ drv' = [d \in Drivers |->
                 IF d[2] = "replay" /\ rows[Key(d)].st = "ledgered"
                 THEN [Stopped EXCEPT !.pc = "try"] ELSE drv[d]]
    /\ UNCHANGED <<ledgerVars, acked, lock, sweep, collected, harnessVars, faults>>

-----------------------------------------------------------------------------
(* Time, stalls, promotion events *)

(* A row is older than its admission or promotion deadline.                *)
Age(k) ==
    /\ rows[k].st \in {"ledgered", "admitted"}
    /\ k \notin aged
    /\ aged' = aged \cup {k}
    /\ UNCHANGED <<rows, saved, torn, acked, drv, lock, booted, sweep, collected,
                   harnessVars, faults>>

(* checkStalls; the wake it fires is a reseed, whose part here is a sweep. *)
checkStalls ==
    LET late == {k \in aged : rows[k].st = "admitted"}
    IN  /\ late # {}
        /\ rows' = [k \in Keys |-> IF k \in late THEN Row("stalled", rows[k].mid)
                                                 ELSE rows[k]]
        /\ appendLogged(late, rows')
        /\ UNCHANGED <<aged, acked, drv, lock, booted, sweep, collected, harnessVars>>

Stored == {m \in MessageIDs : m[1] \in (IF m[2] = "user" THEN transcript
                                                         ELSE answered)}

(* observeEvent on a message event: the rows to promote are collected,     *)
(* then the ledger's lock is released and they are promoted one by one.    *)
observeMessage(m) ==
    /\ collected = {}
    /\ m \in Stored
    /\ collected' = {k \in Keys : rows[k].st = "admitted" /\ MessageID(k) = m}
    /\ UNCHANGED <<ledgerVars, acked, drv, lock, booted, sweep, harnessVars, faults>>

markPromoted(k) ==
    /\ k \in collected
    /\ transition(k, "promoted", fromAdmitted, rows[k].mid)
    /\ collected' = collected \ {k}
    /\ UNCHANGED <<acked, drv, lock, booted, sweep, harnessVars>>

(* observeEvent on an idle event, which may come late.  The first append   *)
(* that fails ends the loop.                                               *)
markTurnEnded ==
    LET promoted == {k \in Keys : rows[k].st = "promoted"}
        Ended(K) == [k \in Keys |-> IF k \in K THEN Row("turn-ended", rows[k].mid)
                                               ELSE rows[k]]
    IN  /\ promoted # {}
        /\ \/ rows' = Ended(promoted) /\ appendSync(promoted, rows')
           \/ \E K \in SUBSET promoted :
                 /\ K # {}
                 /\ rows' = Ended(K)
                 /\ appendFails(K, rows')
        /\ UNCHANGED <<aged, acked, drv, lock, booted, sweep, collected, harnessVars>>

-----------------------------------------------------------------------------
(* The store-evidence sweep of Reconcile and Reseed *)

Unresolved_stalledIsResolved == {"ledgered", "admitted"}

Unresolved == {"ledgered", "admitted", "stalled"}

(* The session statuses are read: the turn has ended if none runs.         *)
SweepStatus ==
    /\ sweep.pc = "idle"
    /\ \E k \in Keys : rows[k].st \in Unresolved
    /\ sweep' = [Idle EXCEPT !.pc = "status", !.ended = (running = {})]
    /\ UNCHANGED <<ledgerVars, acked, drv, lock, booted, collected, harnessVars,
                   faults>>

(* Then the messages of the rows that are unresolved now; a read that      *)
(* fails leaves the status evidence.                                       *)
SweepMessages ==
    LET asked == {MessageID(k) : k \in {j \in Keys : /\ rows[j].st \in Unresolved
                                                     /\ rows[j].mid # "none"}}
    IN  /\ sweep.pc = "status"
        /\ \E found \in {asked \cap Stored, {}} :
              sweep' = [sweep EXCEPT !.pc = "rows", !.queried = asked,
                                     !.present = found]
        /\ UNCHANGED <<ledgerVars, acked, drv, lock, booted, collected, harnessVars,
                       faults>>

(* The reconciliation matrix for one row. *)
Swept(k) ==
    CASE rows[k].st = "ledgered" /\ sweep.ended /\ k \in aged -> "failed"
      [] rows[k].st \in Unresolved \ {"ledgered"} /\ MessageID(k) \in sweep.present
            -> "promoted"
      [] rows[k].st \in Unresolved \ {"ledgered"} /\ sweep.ended
         /\ MessageID(k) \in sweep.queried \ sweep.present -> "turn-ended"
      [] OTHER -> rows[k].st

(* sweepSession under TryLock: a session in the middle of an admission is  *)
(* skipped until the next pass.                                            *)
sweepSession ==
    LET moved == {k \in Keys : Swept(k) # rows[k].st}
    IN  /\ sweep.pc = "rows"
        /\ sweep' = Idle
        /\ \/ /\ lock = NoDriver
              /\ rows' = [k \in Keys |-> Row(Swept(k), rows[k].mid)]
              /\ aged' = aged \ moved
              /\ appendLogged(moved, rows')
           \/ /\ lock # NoDriver
              /\ UNCHANGED <<ledgerVars, faults>>
        /\ UNCHANGED <<acked, drv, lock, booted, collected, harnessVars>>

-----------------------------------------------------------------------------
(* The harness, modelled from how the ledger uses it (external)            *)

(* It stores the prompt under the entry's key, once, and runs its turn; a  *)
(* prompt it already answered gives back the exchange it has.              *)
HarnessTakes(e) ==
    /\ e \in sent
    /\ sent' = sent \ {e}
    /\ transcript' = transcript \cup {e}
    /\ \/ e \notin answered /\ running' = running \cup {e}
       \/ e \in transcript /\ UNCHANGED running
    /\ UNCHANGED <<ledgerVars, acked, drv, lock, booted, sweep, collected, answered,
                   faults>>

HarnessAnswers(e) ==
    /\ e \in running
    /\ running' = running \ {e}
    /\ answered' = answered \cup {e}
    /\ UNCHANGED <<ledgerVars, acked, drv, lock, booted, sweep, collected, sent,
                   transcript, faults>>

HarnessRestarts ==
    /\ faults < MaxFaults
    /\ faults' = faults + 1
    /\ running' = {}
    /\ sent' = {}
    /\ UNCHANGED <<ledgerVars, acked, drv, lock, booted, sweep, collected,
                   transcript, answered>>

-----------------------------------------------------------------------------
(* agentd dies, perhaps in the middle of an append, and openDeliveryLedger *)
(* replays the log.                                                        *)
Crash ==
    /\ faults < MaxFaults
    /\ faults' = faults + 1
    /\ rows' = saved
    /\ torn' \in {torn} \cup {TornTails}
    /\ drv' = [d \in Drivers |-> Stopped]
    /\ lock' = NoDriver
    /\ booted' = FALSE
    /\ sweep' = Idle
    /\ collected' = {}
    /\ UNCHANGED <<saved, aged, acked, harnessVars>>

Init ==
    /\ rows = [k \in Keys |-> NoRow]
    /\ saved = [k \in Keys |-> NoRow]
    /\ torn = FALSE
    /\ acked = {}
    /\ aged = {}
    /\ drv = [d \in Drivers |-> Stopped]
    /\ lock = NoDriver
    /\ booted = FALSE
    /\ sweep = Idle
    /\ collected = {}
    /\ sent = {}
    /\ transcript = {}
    /\ answered = {}
    /\ running = {}
    /\ faults = 0

DriverStep(d) ==
    \/ Lock(d) \/ Check(d) \/ Post(d) \/ AdmitReturns(d) \/ AdmitFails(d)
    \/ markAdmitted(d) \/ markFailed(d)

SweepStep == SweepStatus \/ SweepMessages \/ sweepSession

HarnessStep(e) == HarnessTakes(e) \/ HarnessAnswers(e)

Next ==
    \/ \E k \in Keys : Deliver(k) \/ Age(k) \/ markPromoted(k)
    \/ \E d \in Drivers : DriverStep(d)
    \/ \E e \in Entries : HarnessStep(e)
    \/ \E m \in MessageIDs : observeMessage(m)
    \/ replayUnresolved
    \/ checkStalls
    \/ markTurnEnded
    \/ SweepStep
    \/ HarnessRestarts
    \/ Crash

Spec == Init /\ [][Next]_vars

(* Some driver that can run does, the reconcile ticker fires, time passes  *)
(* and turns end.  Nothing is assumed of promotion events, and no order    *)
(* among the drivers that wait for the session's lock.                     *)
Fairness ==
    /\ WF_vars(\E d \in Drivers : DriverStep(d))
    /\ WF_vars(\E e \in Entries : HarnessAnswers(e))
    /\ WF_vars(\E k \in Keys : Age(k))
    /\ WF_vars(SweepStep)
    /\ WF_vars(replayUnresolved)

FairSpec == Spec /\ Fairness

-----------------------------------------------------------------------------
(* Correctness *)

(* I9, "the ack implies fsync-persistence": a delivery that was answered   *)
(* has a row, in memory and in what the next process will replay.          *)
AckedSurvives == \A k \in acked : NoRow \notin {rows[k], saved[k]}

(* I6, "admitted is never re-admitted": once a row of an entry is durably  *)
(* admitted, by whatever attempt, no driver posts the entry again, also    *)
(* after crashes and with several drivers for the same row.                *)
NoRepost ==
    [][\A d \in Drivers : drv[d].pc = "post" /\ drv'[d].pc = "wait" =>
          \A a \in 1..MaxAttempt : saved[<<Entry(d), a>>].st \notin AdmittedOrLater]_vars

(* A row that lets the outbox drop the entry (admitted or later) means     *)
(* that the harness stores the user's message.                             *)
AdmittedReached ==
    \A k \in Keys : rows[k].st \in AdmittedOrLater => k[1] \in transcript

(* The outbox reads every state from admitted on as done.                  *)
Answered(s) ==
    CASE s = "absent"          -> "none"
      [] s \in AdmittedOrLater -> "done"
      [] OTHER                 -> s

contractRow == [k \in Keys |-> Answered(rows[k].st)]

Contract == INSTANCE DeliveryContract WITH
    Attempts <- 1..MaxAttempt,
    row <- contractRow

(* The ledger implements the contract the outbox relies on.                *)
ImplementsContract == Contract!Spec

(* S7, "deadlines on every state": an answered delivery does not stay      *)
(* unresolved, even if every promotion event is lost: again and again all  *)
(* of them are resolved.                                                   *)
AckedResolves ==
    []<>(\A k \in acked : rows[k].st \in {"promoted", "turn-ended", "failed"})
=============================================================================
