------------------------ MODULE DeliveryLedger_proofs ------------------------
(***************************************************************************)
(* For every set of entries, every number of attempts and every number of  *)
(* faults: the types of the ledger's state, that an admitted row means a   *)
(* stored user message, that a durably admitted entry is not posted again; *)
(* and, when an append leaves no half line behind, that an answered        *)
(* delivery survives and that the ledger implements the contract the       *)
(* outbox relies on.                                                       *)
(***************************************************************************)
EXTENDS DeliveryLedger, WellFoundedInduction, TLAPS

-----------------------------------------------------------------------------
(* The inductive invariant *)

(* Only the holder of the session's lock is between Lock and the release,  *)
(* and it has not used up its ladder.                                      *)
LockHolder ==
    \A d \in Drivers : drv[d].pc \in {"locked", "post", "wait", "mark"} =>
       lock = d /\ drv[d].tries < AdmissionAttempts

(* A driver about to post has seen no attempt of its entry admitted, and   *)
(* none is admitted while it holds the lock.                               *)
PostClear ==
    \A d \in Drivers : drv[d].pc = "post" =>
       \A a \in 1..MaxAttempt : rows[<<Entry(d), a>>].st \notin AdmittedOrLater

(* The log is never ahead of memory in the states that resolve a row.      *)
SavedBehind ==
    \A k \in Keys :
       /\ saved[k].st \in AdmittedOrLater => rows[k].st \in AdmittedOrLater
       /\ saved[k].st = "failed" => rows[k].st = "failed"

(* A driver marks a row admitted on evidence only.                         *)
MarkReached == \A d \in Drivers : drv[d].pc = "mark" => Entry(d) \in transcript

(* The harness runs and answers what it stores.                            *)
TurnsStored == answered \cup running \subseteq transcript

AbsentIsNoRow ==
    \A k \in Keys : /\ rows[k].st = "absent" => rows[k] = NoRow
                    /\ saved[k].st = "absent" => saved[k] = NoRow

(* A driver runs for a row that exists.                                    *)
DriverHasRow == \A d \in Drivers : drv[d].pc # "none" => rows[Key(d)].st # "absent"

LedgerInv ==
    /\ TypeOK
    /\ LockHolder
    /\ PostClear
    /\ SavedBehind
    /\ MarkReached
    /\ TurnsStored
    /\ AdmittedReached
    /\ AbsentIsNoRow
    /\ DriverHasRow

(* Without half lines: every row of memory has a line, every answered key  *)
(* a row, and every prompt on its way a row of its entry.                  *)
DurableInv ==
    /\ torn = FALSE
    /\ \A k \in Keys : rows[k].st # "absent" => saved[k].st # "absent"
    /\ \A k \in acked : rows[k].st # "absent"
    /\ \A e \in sent : \E a \in 1..MaxAttempt : rows[<<e, a>>].st # "absent"

-----------------------------------------------------------------------------
(* Facts about the operators *)

(* No driver is the value of a free lock.                                  *)
LEMMA NoDriverIsNone == NoDriver \notin Drivers
BY DEF NoDriver, Drivers

(* A set of attempt numbers that is not empty has a greatest element.      *)
LEMMA GreatestAttempt ==
    ASSUME NEW S \in SUBSET (1..MaxAttempt), S # {}
    PROVE  \E a \in S : \A b \in S : b <= a
<1> DEFINE T == {MaxAttempt - a : a \in S}
<1>1. MaxAttempt \in Nat
  BY LedgerAssumption
<1>2. T \subseteq Nat /\ T # {}
  <2>1. \A a \in S : a \in Nat /\ MaxAttempt - a \in Nat
    BY <1>1
  <2>2. PICK a \in S : TRUE
    OBVIOUS
  <2>3. MaxAttempt - a \in T
    BY <2>2
  <2> QED BY <2>1, <2>3
<1>3. PICK x \in T : \A y \in T : ~(<<y, x>> \in OpToRel(<, Nat))
  BY <1>2, WFMin, NatLessThanWellFounded
<1>4. PICK a \in S : x = MaxAttempt - a
  BY <1>3
<1>5. ASSUME NEW b \in S PROVE b <= a
  <2>1. MaxAttempt - b \in T
    OBVIOUS
  <2>2. ~(MaxAttempt - b < x)
    BY <2>1, <1>2, <1>3 DEF OpToRel
  <2> QED BY <2>2, <1>1, <1>4
<1> QED BY <1>5

(* An empty answer of admittedAnywhere means what its callers take it to   *)
(* mean: no attempt of the entry is admitted.                              *)
LEMMA NoneAdmitted ==
    ASSUME NEW e \in Entries, admittedAnywhere(e) = {}
    PROVE  \A a \in 1..MaxAttempt : rows[<<e, a>>].st \notin AdmittedOrLater
<1> DEFINE S == {a \in 1..MaxAttempt : rows[<<e, a>>].st \in AdmittedOrLater}
<1> SUFFICES ASSUME S # {} PROVE FALSE
  OBVIOUS
<1>1. PICK a \in S : \A b \in S : b <= a
  BY GreatestAttempt
<1>2. a \in admittedAnywhere(e)
  BY <1>1 DEF admittedAnywhere
<1> QED BY <1>2

LEMMA RowType ==
    ASSUME NEW s \in LedgerStates \cup {"absent"}, NEW m \in {"none", "user", "asst"}
    PROVE  /\ Row(s, m) \in Rows
           /\ Row(s, m).st = s /\ Row(s, m).mid = m
BY DEF Row, Rows

(* What an append does to the log, whether or not it reports an error.     *)
LEMMA AppendFacts ==
    ASSUME TypeOK, NEW K \in SUBSET Keys, NEW new \in [Keys -> Rows],
           appendLogged(K, new)
    PROVE  /\ saved' \in [Keys -> Rows]
           /\ torn' \in BOOLEAN
           /\ faults' \in 0..MaxFaults
           /\ \A k \in Keys : saved'[k] \in {saved[k], new[k]}
           /\ \A k \in Keys \ K : saved'[k] = saved[k]
           /\ TornTails = FALSE /\ torn = FALSE => torn' = FALSE
<1>1. ASSUME NEW J \in SUBSET K
      PROVE  /\ Replayed(J, new) \in [Keys -> Rows]
             /\ \A k \in Keys : Replayed(J, new)[k] \in {saved[k], new[k]}
             /\ \A k \in Keys \ K : Replayed(J, new)[k] = saved[k]
  BY DEF Replayed, TypeOK
<1>2. CASE appendSync(K, new)
  BY <1>1, <1>2 DEF appendSync, TypeOK
<1>3. CASE appendFails(K, new)
  <2>1. PICK J \in SUBSET K : saved' = Replayed(J, new)
    BY <1>3 DEF appendFails
  <2>2. /\ torn' \in BOOLEAN /\ faults' \in 0..MaxFaults
        /\ TornTails = FALSE /\ torn = FALSE => torn' = FALSE
    BY <1>3, LedgerAssumption DEF appendFails, TypeOK
  <2> QED BY <2>1, <2>2, <1>1
<1> QED BY <1>2, <1>3 DEF appendLogged

-----------------------------------------------------------------------------
(* One step of the rows and of the log *)

(* What a step other than a crash may do to a row ...                      *)
RowMove(k) ==
    \/ rows'[k] = rows[k]
    \/ rows[k].st = "absent" /\ rows'[k] = Row("ledgered", "none")
    \/ rows[k].st = "ledgered" /\ rows'[k].st = "failed"
    \/ /\ rows[k].st = "ledgered" /\ rows'[k].st = "admitted"
       /\ \E d \in Drivers : Entry(d) = k[1] /\ drv[d].pc = "mark"
    \/ rows[k].st \in AdmittedOrLater /\ rows'[k].st \in AdmittedOrLater

(* ... and to its line: a Deliver whose append failed leaves a line and no *)
(* row.                                                                    *)
LineMove(k) ==
    \/ saved'[k] \in {saved[k], rows'[k]}
    \/ /\ rows[k].st = "absent" /\ rows'[k] = rows[k]
       /\ saved'[k] = Row("ledgered", "none")

LedgerStep ==
    /\ rows' \in [Keys -> Rows] /\ saved' \in [Keys -> Rows]
    /\ torn' \in BOOLEAN /\ aged' \subseteq Keys /\ faults' \in 0..MaxFaults
    /\ \A k \in Keys : RowMove(k) /\ LineMove(k)
    /\ TornTails = FALSE /\ torn = FALSE =>
          /\ torn' = FALSE
          /\ \A k \in Keys : rows[k].st = "absent" /\ rows'[k] # rows[k]
                                => saved'[k] = rows'[k]

LEMMA QuietLedger ==
    ASSUME TypeOK, UNCHANGED <<rows, saved, torn>>, aged' \subseteq Keys,
           faults' \in 0..MaxFaults
    PROVE  LedgerStep
BY DEF LedgerStep, RowMove, LineMove, TypeOK

(* Rows that exist are moved in memory, then their lines are appended.     *)
LEMMA AppendStep ==
    ASSUME TypeOK, NEW K \in SUBSET Keys,
           rows' \in [Keys -> Rows], aged' \subseteq Keys, appendLogged(K, rows'),
           \A k \in Keys : RowMove(k),
           \A k \in Keys : rows[k].st = "absent" => rows'[k] = rows[k]
    PROVE  LedgerStep
<1>1. /\ saved' \in [Keys -> Rows] /\ torn' \in BOOLEAN /\ faults' \in 0..MaxFaults
      /\ \A k \in Keys : saved'[k] \in {saved[k], rows'[k]}
      /\ TornTails = FALSE /\ torn = FALSE => torn' = FALSE
  BY AppendFacts
<1> QED BY <1>1 DEF LedgerStep, LineMove

LEMMA TransitionStep ==
    ASSUME TypeOK, NEW k \in Keys, NEW to \in LedgerStates, NEW allowed,
           NEW mid \in {"none", "user", "asst"},
           transition(k, to, allowed, mid),
           rows[k].st \in allowed =>
              \/ rows[k].st = "ledgered" /\ to = "failed"
              \/ /\ rows[k].st = "ledgered" /\ to = "admitted"
                 /\ \E d \in Drivers : Entry(d) = k[1] /\ drv[d].pc = "mark"
              \/ rows[k].st \in AdmittedOrLater /\ to \in AdmittedOrLater
    PROVE  LedgerStep
<1>1. CASE rows[k].st \notin allowed
  <2>1. UNCHANGED <<ledgerVars, faults>>
    BY <1>1 DEF transition
  <2> QED BY <2>1, QuietLedger DEF ledgerVars, TypeOK
<1>2. CASE rows[k].st \in allowed
  <2>1. /\ rows' = [rows EXCEPT ![k] = Row(to, mid)]
        /\ aged' = aged \ {k}
        /\ appendLogged({k}, rows')
    BY <1>2 DEF transition
  <2>2. Row(to, mid) \in Rows /\ Row(to, mid).st = to
    BY RowType
  <2>3. rows' \in [Keys -> Rows] /\ aged' \subseteq Keys
    BY <2>1, <2>2 DEF TypeOK
  <2>4. \A j \in Keys : rows'[j] = IF j = k THEN Row(to, mid) ELSE rows[j]
    BY <2>1 DEF TypeOK
  <2>5. rows[k].st # "absent"
    BY <1>2 DEF AdmittedOrLater
  <2>6. RowMove(k)
    BY <1>2, <2>2, <2>4 DEF RowMove
  <2>7. \A j \in Keys : RowMove(j)
    BY <2>4, <2>6 DEF RowMove
  <2> QED BY <2>1, <2>3, <2>4, <2>5, <2>7, AppendStep
<1> QED BY <1>1, <1>2

LEMMA DeliverLedger ==
    ASSUME TypeOK, AbsentIsNoRow, NEW k \in Keys, Deliver(k)
    PROVE  LedgerStep
<1> DEFINE new == [rows EXCEPT ![k] = Row("ledgered", "none")]
<1>1. /\ Row("ledgered", "none") \in Rows
      /\ new \in [Keys -> Rows]
      /\ \A j \in Keys : new[j] = IF j = k THEN Row("ledgered", "none") ELSE rows[j]
  BY RowType DEF TypeOK, LedgerStates
<1>2. CASE rows[k] # NoRow
  BY <1>2, QuietLedger DEF Deliver, ledgerVars, TypeOK
<1>3. CASE rows[k] = NoRow /\ rows' = new /\ aged' = aged \ {k} /\ appendSync({k}, rows')
  <2>1. /\ saved' \in [Keys -> Rows] /\ torn' = torn /\ faults' = faults
        /\ \A j \in Keys : saved'[j] \in {saved[j], rows'[j]}
        /\ torn = FALSE => saved'[k] = rows'[k]
    BY <1>1, <1>3 DEF appendSync, Replayed, TypeOK
  <2>2. rows[k].st = "absent"
    BY <1>3 DEF NoRow, Row
  <2> HIDE DEF new
  <2>3. \A j \in Keys : RowMove(j)
    BY <1>1, <1>3, <2>2 DEF RowMove
  <2>4. rows' \in [Keys -> Rows] /\ aged' \subseteq Keys
    BY <1>1, <1>3 DEF TypeOK
  <2>5. /\ \A j \in Keys : LineMove(j)
        /\ torn = FALSE => \A j \in Keys : rows'[j] # rows[j] => saved'[j] = rows'[j]
    BY <1>1, <1>3, <2>1 DEF LineMove
  <2> QED BY <2>1, <2>3, <2>4, <2>5 DEF LedgerStep, TypeOK
<1>4. CASE rows[k] = NoRow /\ appendFails({k}, new) /\ UNCHANGED <<rows, aged>>
  <2>1. /\ saved' \in [Keys -> Rows] /\ torn' \in BOOLEAN /\ faults' \in 0..MaxFaults
        /\ \A j \in Keys : saved'[j] \in {saved[j], new[j]}
        /\ \A j \in Keys \ {k} : saved'[j] = saved[j]
        /\ TornTails = FALSE /\ torn = FALSE => torn' = FALSE
    BY <1>1, <1>4, AppendFacts DEF appendLogged
  <2>2. rows[k].st = "absent"
    BY <1>4 DEF NoRow, Row
  <2> QED BY <2>1, <2>2, <1>1, <1>4 DEF LedgerStep, RowMove, LineMove, TypeOK
<1> QED BY <1>2, <1>3, <1>4 DEF Deliver

LEMMA StallsLedger ==
    ASSUME TypeOK, checkStalls
    PROVE  LedgerStep
<1> DEFINE late == {k \in aged : rows[k].st = "admitted"}
<1>1. /\ rows' = [k \in Keys |-> IF k \in late THEN Row("stalled", rows[k].mid)
                                               ELSE rows[k]]
      /\ appendLogged(late, rows')
      /\ UNCHANGED aged
  BY DEF checkStalls
<1>2. ASSUME NEW k \in Keys
      PROVE  /\ rows[k] \in Rows
             /\ Row("stalled", rows[k].mid) \in Rows
             /\ Row("stalled", rows[k].mid).st = "stalled"
  BY RowType DEF TypeOK, Rows, LedgerStates
<1>3. rows' \in [Keys -> Rows] /\ late \subseteq Keys /\ aged' \subseteq Keys
  BY <1>1, <1>2 DEF TypeOK
<1>4. \A k \in Keys : RowMove(k) /\ (rows[k].st = "absent" => rows'[k] = rows[k])
  BY <1>1, <1>2 DEF RowMove, AdmittedOrLater
<1> QED BY <1>1, <1>3, <1>4, AppendStep

LEMMA TurnEndedLedger ==
    ASSUME TypeOK, markTurnEnded
    PROVE  LedgerStep
<1>1. PICK K \in SUBSET {k \in Keys : rows[k].st = "promoted"} :
         /\ rows' = [k \in Keys |-> IF k \in K THEN Row("turn-ended", rows[k].mid)
                                               ELSE rows[k]]
         /\ appendLogged(K, rows')
  BY DEF markTurnEnded, appendLogged
<1>2. ASSUME NEW k \in Keys
      PROVE  /\ rows[k] \in Rows
             /\ Row("turn-ended", rows[k].mid) \in Rows
             /\ Row("turn-ended", rows[k].mid).st = "turn-ended"
  BY RowType DEF TypeOK, Rows, LedgerStates
<1>3. rows' \in [Keys -> Rows] /\ aged' \subseteq Keys
  BY <1>1, <1>2 DEF TypeOK, markTurnEnded
<1>4. \A k \in Keys : RowMove(k) /\ (rows[k].st = "absent" => rows'[k] = rows[k])
  BY <1>1, <1>2 DEF RowMove, AdmittedOrLater
<1> QED BY <1>1, <1>3, <1>4, AppendStep

(* The matrix of the sweep: a row resolves forward or stays.               *)
LEMMA SweptMoves ==
    ASSUME TypeOK, NEW k \in Keys
    PROVE  \/ Swept(k) = rows[k].st
           \/ rows[k].st = "ledgered" /\ Swept(k) = "failed"
           \/ rows[k].st \in AdmittedOrLater /\ Swept(k) \in {"promoted", "turn-ended"}
BY DEF Swept, Unresolved, AdmittedOrLater

LEMMA SweepLedger ==
    ASSUME TypeOK, sweepSession
    PROVE  LedgerStep
<1> DEFINE moved == {k \in Keys : Swept(k) # rows[k].st}
<1>1. CASE lock # NoDriver
  BY <1>1, QuietLedger DEF sweepSession, ledgerVars, TypeOK
<1>2. CASE lock = NoDriver
  <2>1. /\ rows' = [k \in Keys |-> Row(Swept(k), rows[k].mid)]
        /\ aged' = aged \ moved
        /\ appendLogged(moved, rows')
    BY <1>2 DEF sweepSession
  <2>2. ASSUME NEW k \in Keys
        PROVE  /\ rows'[k] \in Rows
               /\ RowMove(k)
               /\ rows[k].st = "absent" => rows'[k] = rows[k]
    <3>1. rows'[k] = Row(Swept(k), rows[k].mid)
      BY <2>1
    <3>2. /\ rows[k].st \in LedgerStates \cup {"absent"}
          /\ rows[k].mid \in {"none", "user", "asst"}
          /\ rows[k] = Row(rows[k].st, rows[k].mid)
      BY DEF TypeOK, Rows, Row
    <3>3. Swept(k) \in LedgerStates \cup {"absent"}
      BY <3>2, SweptMoves DEF LedgerStates
    <3>4. rows'[k] \in Rows /\ rows'[k].st = Swept(k)
      BY <3>1, <3>2, <3>3, RowType
    <3> QED BY <3>1, <3>2, <3>4, SweptMoves DEF RowMove, AdmittedOrLater
  <2>3. rows' \in [Keys -> Rows] /\ aged' \subseteq Keys
    BY <2>1, <2>2 DEF TypeOK
  <2> QED BY <2>1, <2>2, <2>3, AppendStep
<1> QED BY <1>1, <1>2

(* Every step but a crash is a step of the rows and the log.               *)
LEMMA NextLedger ==
    ASSUME LedgerInv, Next
    PROVE  LedgerStep \/ Crash
<1> USE DEF LedgerInv
<1>1. ASSUME NEW d \in Drivers
      PROVE  Key(d) \in Keys /\ Entry(d) = Key(d)[1]
  BY DEF Drivers, Key, Entry
<1>2. ASSUME NEW k \in Keys, Deliver(k) PROVE LedgerStep
  BY <1>2, DeliverLedger
<1>3. ASSUME NEW k \in Keys, Age(k) PROVE LedgerStep
  BY <1>3, QuietLedger DEF Age, TypeOK
<1>4. ASSUME NEW k \in Keys, markPromoted(k) PROVE LedgerStep
  <2>1. transition(k, "promoted", fromAdmitted, rows[k].mid)
    BY <1>4 DEF markPromoted
  <2>2. rows[k].mid \in {"none", "user", "asst"}
    BY DEF TypeOK, Rows
  <2> QED BY <2>1, <2>2, TransitionStep DEF fromAdmitted, AdmittedOrLater, LedgerStates
<1>5. ASSUME NEW d \in Drivers, DriverStep(d) PROVE LedgerStep
  <2>1. CASE Lock(d) \/ Check(d) \/ Post(d) \/ AdmitReturns(d) \/ AdmitFails(d)
    BY <2>1, QuietLedger
       DEF Lock, Check, Post, AdmitReturns, AdmitFails, ledgerVars, TypeOK
  <2>2. CASE markAdmitted(d)
    <3>1. transition(Key(d), "admitted", fromLedgered, drv[d].mid)
      BY <2>2 DEF markAdmitted
    <3>2. drv[d].mid \in {"none", "user", "asst"} /\ drv[d].pc = "mark"
      BY <2>2 DEF markAdmitted, TypeOK
    <3> QED BY <3>1, <3>2, <1>1, TransitionStep DEF fromLedgered, LedgerStates
  <2>3. CASE markFailed(d)
    <3>1. transition(Key(d), "failed", fromLedgered, rows[Key(d)].mid)
      BY <2>3 DEF markFailed
    <3>2. rows[Key(d)].mid \in {"none", "user", "asst"}
      BY <1>1 DEF TypeOK, Rows
    <3> QED BY <3>1, <3>2, <1>1, TransitionStep DEF fromLedgered, LedgerStates
  <2> QED BY <2>1, <2>2, <2>3, <1>5 DEF DriverStep
<1>6. ASSUME NEW e \in Entries, HarnessStep(e) PROVE LedgerStep
  BY <1>6, QuietLedger DEF HarnessStep, HarnessTakes, HarnessAnswers, ledgerVars, TypeOK
<1>7. ASSUME NEW m \in MessageIDs, observeMessage(m) PROVE LedgerStep
  BY <1>7, QuietLedger DEF observeMessage, ledgerVars, TypeOK
<1>8. CASE replayUnresolved
  BY <1>8, QuietLedger DEF replayUnresolved, ledgerVars, TypeOK
<1>9. CASE checkStalls
  BY <1>9, StallsLedger
<1>10. CASE markTurnEnded
  BY <1>10, TurnEndedLedger
<1>11. CASE SweepStep
  <2>1. CASE SweepStatus \/ SweepMessages
    BY <2>1, QuietLedger DEF SweepStatus, SweepMessages, ledgerVars, TypeOK
  <2> QED BY <2>1, <1>11, SweepLedger DEF SweepStep
<1>12. CASE HarnessRestarts
  BY <1>12, QuietLedger, LedgerAssumption DEF HarnessRestarts, ledgerVars, TypeOK
<1> QED
  BY <1>2, <1>3, <1>4, <1>5, <1>6, <1>7, <1>8, <1>9, <1>10, <1>11, <1>12 DEF Next

-----------------------------------------------------------------------------
(* One step of the drivers and of the harness *)

DriverRecords == [pc : {"none", "try", "locked", "post", "wait", "mark"},
                  tries : 0..AdmissionAttempts, mid : {"none", "user", "asst"}]

(* The part of TypeOK that LedgerStep leaves out.                          *)
OthersOK ==
    /\ acked \subseteq Keys
    /\ drv \in [Drivers -> DriverRecords]
    /\ lock \in Drivers \cup {NoDriver}
    /\ booted \in BOOLEAN
    /\ sweep \in [pc : {"idle", "status", "rows"}, ended : BOOLEAN,
                  queried : SUBSET MessageIDs, present : SUBSET MessageIDs]
    /\ collected \subseteq Keys
    /\ sent \subseteq Entries
    /\ transcript \subseteq Entries
    /\ answered \subseteq Entries
    /\ running \subseteq Entries

LEMMA TypeSplit == TypeOK => OthersOK
BY DEF TypeOK, OthersOK, DriverRecords

(* A driver enters the lock's section with the lock, goes to post when no  *)
(* attempt is admitted, to mark on evidence, and starts for a row.         *)
DriverMove(d) ==
    /\ drv'[d].pc \in {"locked", "post", "wait", "mark"} =>
          lock' = d /\ drv'[d].tries < AdmissionAttempts
    /\ drv'[d].pc = "post" =>
          \/ drv[d].pc = "post"
          \/ \A a \in 1..MaxAttempt : rows'[<<Entry(d), a>>].st \notin AdmittedOrLater
    /\ drv'[d].pc = "mark" => drv[d].pc = "mark" \/ Entry(d) \in transcript
    /\ drv'[d].pc # "none" => drv[d].pc # "none" \/ rows'[Key(d)].st # "absent"

SideStep ==
    /\ OthersOK'
    /\ \A d \in Drivers : DriverMove(d)
    /\ transcript \subseteq transcript'
    /\ TurnsStored'

LEMMA QuietDrivers ==
    ASSUME LockHolder, UNCHANGED <<drv, lock>>
    PROVE  \A d \in Drivers : DriverMove(d)
BY DEF LockHolder, DriverMove

(* One driver moves, and the lock with it.                                 *)
LEMMA OneDriver ==
    ASSUME LockHolder, OthersOK, NEW d \in Drivers, NEW r \in DriverRecords,
           drv' = [drv EXCEPT ![d] = r],
           \/ lock \in {d, NoDriver}
           \/ r.pc \in {"none", "try"} /\ UNCHANGED lock,
           lock' \in {lock, d, NoDriver},
           r.pc \in {"locked", "post", "wait", "mark"} =>
              lock' = d /\ r.tries < AdmissionAttempts,
           r.pc = "post" =>
              \/ drv[d].pc = "post"
              \/ \A a \in 1..MaxAttempt : rows'[<<Entry(d), a>>].st \notin AdmittedOrLater,
           r.pc = "mark" => Entry(d) \in transcript,
           r.pc # "none" => drv[d].pc # "none" \/ rows'[Key(d)].st # "absent"
    PROVE  /\ \A c \in Drivers : DriverMove(c)
           /\ drv' \in [Drivers -> DriverRecords]
           /\ lock' \in Drivers \cup {NoDriver}
<1>1. /\ drv' \in [Drivers -> DriverRecords]
      /\ lock' \in Drivers \cup {NoDriver}
      /\ drv'[d] = r
      /\ \A c \in Drivers \ {d} : drv'[c] = drv[c]
  BY DEF OthersOK
<1>2. DriverMove(d)
  BY <1>1 DEF DriverMove
<1>3. ASSUME NEW c \in Drivers \ {d} PROVE DriverMove(c)
  <2>1. drv[c].pc \in {"locked", "post", "wait", "mark"} =>
           lock = c /\ drv[c].tries < AdmissionAttempts
    BY DEF LockHolder
  <2>2. drv[c].pc \in {"locked", "post", "wait", "mark"} => lock' = c
    BY <2>1, NoDriverIsNone
  <2> QED BY <2>1, <2>2, <1>1 DEF DriverMove
<1> QED BY <1>1, <1>2, <1>3

LEMMA DriverSide ==
    ASSUME LedgerInv, NEW d \in Drivers, DriverStep(d)
    PROVE  SideStep
<1> USE DEF LedgerInv
<1>1. OthersOK
  BY TypeSplit
<1>2. /\ Key(d) \in Keys /\ Entry(d) \in Entries
      /\ \A a \in 1..MaxAttempt : <<Entry(d), a>> \in Keys
  BY DEF Drivers, Key, Entry, Keys
<1>3. /\ drv[d] \in DriverRecords
      /\ drv[d].tries \in 0..AdmissionAttempts
      /\ drv[d].mid \in {"none", "user", "asst"}
      /\ AdmissionAttempts \in Nat
  BY <1>1, LedgerAssumption DEF OthersOK, DriverRecords
<1>4. Stopped \in DriverRecords /\ Stopped.pc = "none"
  BY LedgerAssumption DEF Stopped, DriverRecords
<1>5. drv[d].pc \in {"locked", "post", "wait", "mark"} =>
         lock = d /\ drv[d].tries < AdmissionAttempts
  BY DEF LockHolder
<1>6. CASE Lock(d)
  <2> DEFINE r == [drv[d] EXCEPT !.pc = "locked"]
  <2>1. r \in DriverRecords /\ r.pc = "locked" /\ r.tries = drv[d].tries
    BY <1>3 DEF DriverRecords
  <2>2. /\ drv' = [drv EXCEPT ![d] = r] /\ drv[d].tries < AdmissionAttempts
        /\ drv[d].pc = "try" /\ lock = NoDriver /\ lock' = d
    BY <1>6, <1>1 DEF Lock, Goto, OthersOK
  <2> HIDE DEF r
  <2>3. /\ \A c \in Drivers : DriverMove(c)
        /\ drv' \in [Drivers -> DriverRecords] /\ lock' \in Drivers \cup {NoDriver}
    BY <2>1, <2>2, <1>1, <1>5, OneDriver
  <2> QED BY <2>3, <1>1, <1>6 DEF Lock, SideStep, OthersOK, TurnsStored, harnessVars
<1>7. CASE Check(d)
  <2>1. PICK r \in DriverRecords :
          /\ drv' = [drv EXCEPT ![d] = r]
          /\ lock' \in {lock, NoDriver}
          /\ r.pc \in {"post", "mark"} => lock' = lock /\ r.tries = drv[d].tries
          /\ \/ r.pc = "none"
             \/ r.pc = "mark" /\ Entry(d) \in transcript
             \/ r.pc = "post" /\ admittedAnywhere(Entry(d)) = {}
    <3>1. CASE drv' = [drv EXCEPT ![d] = Stopped] /\ lock' = NoDriver
      BY <3>1, <1>4
    <3>2. CASE /\ UNCHANGED lock
               /\ \E a \in admittedAnywhere(Entry(d)) :
                    drv' = [drv EXCEPT ![d].pc = "mark",
                                       ![d].mid = rows[<<Entry(d), a>>].mid]
      <4>1. PICK a \in admittedAnywhere(Entry(d)) :
              drv' = [drv EXCEPT ![d].pc = "mark", ![d].mid = rows[<<Entry(d), a>>].mid]
        BY <3>2
      <4>2. a \in 1..MaxAttempt /\ rows[<<Entry(d), a>>].st \in AdmittedOrLater
        BY DEF admittedAnywhere
      <4>3. Entry(d) \in transcript
        BY <4>2, <1>2 DEF AdmittedReached
      <4>4. rows[<<Entry(d), a>>].mid \in {"none", "user", "asst"}
        BY <4>2, <1>2 DEF TypeOK, Rows
      <4> DEFINE r == [drv[d] EXCEPT !.pc = "mark", !.mid = rows[<<Entry(d), a>>].mid]
      <4>5. r \in DriverRecords /\ r.pc = "mark" /\ r.tries = drv[d].tries
        BY <4>4, <1>3 DEF DriverRecords
      <4>6. drv' = [drv EXCEPT ![d] = r]
        BY <4>1, <1>1 DEF OthersOK
      <4> HIDE DEF r
      <4> QED BY <4>3, <4>5, <4>6, <3>2
    <3>3. CASE /\ UNCHANGED lock /\ EvidencePresent(Entry(d))
               /\ drv' = [drv EXCEPT ![d].pc = "mark", ![d].mid = "user"]
      <4> DEFINE r == [drv[d] EXCEPT !.pc = "mark", !.mid = "user"]
      <4>1. r \in DriverRecords /\ r.pc = "mark" /\ r.tries = drv[d].tries
        BY <1>3 DEF DriverRecords
      <4>2. drv' = [drv EXCEPT ![d] = r]
        BY <3>3, <1>1 DEF OthersOK
      <4> HIDE DEF r
      <4> QED BY <4>1, <4>2, <3>3 DEF EvidencePresent
    <3>4. CASE UNCHANGED lock /\ admittedAnywhere(Entry(d)) = {} /\ Goto(d, "post")
      <4> DEFINE r == [drv[d] EXCEPT !.pc = "post"]
      <4>1. r \in DriverRecords /\ r.pc = "post" /\ r.tries = drv[d].tries
        BY <1>3 DEF DriverRecords
      <4>2. drv' = [drv EXCEPT ![d] = r]
        BY <3>4, <1>1 DEF OthersOK, Goto
      <4> HIDE DEF r
      <4> QED BY <4>1, <4>2, <3>4
    <3> QED BY <1>7, <3>1, <3>2, <3>3, <3>4 DEF Check
  <2>2. drv[d].pc = "locked" /\ lock = d /\ UNCHANGED rows
    BY <1>5, <1>7 DEF Check, ledgerVars
  <2>3. r.pc = "post" =>
           \A a \in 1..MaxAttempt : rows'[<<Entry(d), a>>].st \notin AdmittedOrLater
    BY <2>1, <2>2, <1>2, NoneAdmitted
  <2>4. /\ \A c \in Drivers : DriverMove(c)
        /\ drv' \in [Drivers -> DriverRecords] /\ lock' \in Drivers \cup {NoDriver}
    BY <2>1, <2>2, <2>3, <1>1, <1>5, OneDriver
  <2> QED BY <2>4, <1>1, <1>7 DEF Check, SideStep, OthersOK, TurnsStored, harnessVars
<1>8. CASE Post(d)
  <2> DEFINE r == [drv[d] EXCEPT !.pc = "wait"]
  <2>1. r \in DriverRecords /\ r.pc = "wait" /\ r.tries = drv[d].tries
    BY <1>3 DEF DriverRecords
  <2>2. drv' = [drv EXCEPT ![d] = r] /\ drv[d].pc = "post" /\ lock = d /\ lock' = lock
    BY <1>8, <1>1, <1>5 DEF Post, Goto, OthersOK
  <2> HIDE DEF r
  <2>3. /\ \A c \in Drivers : DriverMove(c)
        /\ drv' \in [Drivers -> DriverRecords] /\ lock' \in Drivers \cup {NoDriver}
    BY <2>1, <2>2, <1>1, <1>5, OneDriver
  <2> QED BY <2>3, <1>1, <1>2, <1>8 DEF Post, SideStep, OthersOK, TurnsStored
<1>9. CASE AdmitReturns(d)
  <2> DEFINE r == [drv[d] EXCEPT !.pc = "mark", !.mid = "asst"]
  <2>1. r \in DriverRecords /\ r.pc = "mark" /\ r.tries = drv[d].tries
    BY <1>3 DEF DriverRecords
  <2>2. drv' = [drv EXCEPT ![d] = r] /\ drv[d].pc = "wait" /\ lock = d /\ lock' = lock
    BY <1>9, <1>1, <1>5 DEF AdmitReturns, OthersOK
  <2> HIDE DEF r
  <2>3. Entry(d) \in transcript
    BY <1>9 DEF AdmitReturns, TurnsStored
  <2>4. /\ \A c \in Drivers : DriverMove(c)
        /\ drv' \in [Drivers -> DriverRecords] /\ lock' \in Drivers \cup {NoDriver}
    BY <2>1, <2>2, <2>3, <1>1, <1>5, OneDriver
  <2> QED BY <2>4, <1>1, <1>9 DEF AdmitReturns, SideStep, OthersOK, TurnsStored, harnessVars
<1>10. CASE AdmitFails(d)
  <2> DEFINE r == [drv[d] EXCEPT !.pc = "try", !.tries = @ + 1]
  <2>1. drv[d].tries < AdmissionAttempts /\ drv[d].tries + 1 \in 0..AdmissionAttempts
    BY <1>3, <1>5, <1>10 DEF AdmitFails
  <2>2. r \in DriverRecords /\ r.pc = "try"
    BY <1>3, <2>1 DEF DriverRecords
  <2>3. drv' = [drv EXCEPT ![d] = r] /\ drv[d].pc = "wait" /\ lock = d /\ lock' = NoDriver
    BY <1>10, <1>1, <1>5 DEF AdmitFails, OthersOK
  <2> HIDE DEF r
  <2>4. /\ \A c \in Drivers : DriverMove(c)
        /\ drv' \in [Drivers -> DriverRecords] /\ lock' \in Drivers \cup {NoDriver}
    BY <2>2, <2>3, <1>1, OneDriver
  <2> QED BY <2>4, <1>1, <1>10 DEF AdmitFails, SideStep, OthersOK, TurnsStored, harnessVars
<1>11. CASE markAdmitted(d) \/ markFailed(d)
  <2>1. /\ drv' = [drv EXCEPT ![d] = Stopped]
        /\ \/ lock = d /\ lock' = NoDriver
           \/ UNCHANGED lock
    BY <1>5, <1>11 DEF markAdmitted, markFailed
  <2>2. /\ \A c \in Drivers : DriverMove(c)
        /\ drv' \in [Drivers -> DriverRecords] /\ lock' \in Drivers \cup {NoDriver}
    BY <2>1, <1>1, <1>4, OneDriver
  <2> QED BY <2>2, <1>1, <1>11
          DEF markAdmitted, markFailed, SideStep, OthersOK, TurnsStored, harnessVars
<1> QED
  BY <1>6, <1>7, <1>8, <1>9, <1>10, <1>11 DEF DriverStep

LEMMA NextSide ==
    ASSUME LedgerInv, LedgerStep, Next
    PROVE  SideStep \/ Crash
<1> USE DEF LedgerInv
<1>1. OthersOK
  BY TypeSplit
<1>2. ASSUME NEW k \in Keys, Deliver(k) PROVE SideStep
  <2>1. CASE UNCHANGED drv
    <3>1. \A d \in Drivers : DriverMove(d)
      BY <2>1, <1>2, QuietDrivers DEF Deliver
    <3> QED BY <2>1, <3>1, <1>1, <1>2 DEF Deliver, SideStep, OthersOK, TurnsStored, harnessVars
  <2>2. CASE /\ rows[k] = NoRow /\ rows' = [rows EXCEPT ![k] = Row("ledgered", "none")]
             /\ drv' = [drv EXCEPT ![<<k, "deliver">>] = [Stopped EXCEPT !.pc = "try"]]
    <3> DEFINE d == <<k, "deliver">>
               r == [Stopped EXCEPT !.pc = "try"]
    <3>1. d \in Drivers /\ Key(d) = k
      BY DEF Drivers, Key
    <3>2. r \in DriverRecords /\ r.pc = "try"
      BY LedgerAssumption DEF DriverRecords, Stopped
    <3>3. rows'[k].st = "ledgered"
      BY <2>2 DEF TypeOK, Row
    <3> HIDE DEF r, d
    <3>4. drv' = [drv EXCEPT ![d] = r] /\ UNCHANGED lock
      BY <2>2, <1>2 DEF d, r, Deliver
    <3>5. /\ \A c \in Drivers : DriverMove(c)
          /\ drv' \in [Drivers -> DriverRecords] /\ lock' \in Drivers \cup {NoDriver}
      BY <3>1, <3>2, <3>3, <3>4, <1>1, OneDriver
    <3> QED BY <3>5, <1>1, <1>2 DEF Deliver, SideStep, OthersOK, TurnsStored, harnessVars
  <2> QED BY <2>1, <2>2, <1>2 DEF Deliver
<1>3. ASSUME UNCHANGED <<drv, lock>>, OthersOK', transcript \subseteq transcript', TurnsStored'
      PROVE  SideStep
  BY <1>3, QuietDrivers DEF SideStep
<1>4. ASSUME NEW k \in Keys, Age(k) \/ markPromoted(k) PROVE SideStep
  BY <1>1, <1>3, <1>4 DEF Age, markPromoted, OthersOK, TurnsStored, harnessVars
<1>5. ASSUME NEW d \in Drivers, DriverStep(d) PROVE SideStep
  BY <1>5, DriverSide
<1>6. ASSUME NEW e \in Entries, HarnessStep(e) PROVE SideStep
  <2>1. UNCHANGED <<drv, lock, acked, booted, sweep, collected>>
    BY <1>6 DEF HarnessStep, HarnessTakes, HarnessAnswers
  <2>2. /\ sent' \subseteq Entries /\ transcript' \subseteq Entries
        /\ answered' \subseteq Entries /\ running' \subseteq Entries
        /\ transcript \subseteq transcript'
    BY <1>1, <1>6 DEF HarnessStep, HarnessTakes, HarnessAnswers, OthersOK
  <2>3. TurnsStored'
    BY <1>6 DEF HarnessStep, HarnessTakes, HarnessAnswers, TurnsStored
  <2>4. OthersOK'
    BY <2>1, <2>2, <1>1 DEF OthersOK
  <2> QED BY <2>1, <2>2, <2>3, <2>4, <1>3
<1>7. ASSUME NEW m \in MessageIDs, observeMessage(m) PROVE SideStep
  BY <1>1, <1>3, <1>7 DEF observeMessage, OthersOK, TurnsStored, harnessVars
<1>8. CASE replayUnresolved
  <2>1. [Stopped EXCEPT !.pc = "try"] \in DriverRecords
    BY LedgerAssumption DEF DriverRecords, Stopped
  <2>2. /\ drv' \in [Drivers -> DriverRecords]
        /\ UNCHANGED <<rows, lock>>
        /\ \A d \in Drivers :
              \/ drv'[d] = drv[d]
              \/ drv'[d].pc = "try" /\ rows[Key(d)].st = "ledgered"
    BY <1>1, <1>8, <2>1 DEF replayUnresolved, OthersOK, Stopped, ledgerVars
  <2>3. \A d \in Drivers : DriverMove(d)
    BY <2>2 DEF DriverMove, LockHolder
  <2> QED BY <2>2, <2>3, <1>1, <1>8
          DEF replayUnresolved, SideStep, OthersOK, TurnsStored, harnessVars
<1>9. CASE checkStalls \/ markTurnEnded
  BY <1>1, <1>3, <1>9 DEF checkStalls, markTurnEnded, OthersOK, TurnsStored, harnessVars
<1>10. CASE SweepStep
  <2>1. sweep' \in [pc : {"idle", "status", "rows"}, ended : BOOLEAN,
                    queried : SUBSET MessageIDs, present : SUBSET MessageIDs]
    <3>1. CASE SweepStatus
      <4>1. (running = {}) \in BOOLEAN
        OBVIOUS
      <4>2. sweep' = [pc |-> "status", ended |-> (running = {}), queried |-> {},
                      present |-> {}]
        BY <3>1 DEF SweepStatus, Idle
      <4> QED BY <4>1, <4>2
    <3>2. CASE SweepMessages
      <4> DEFINE asked == {MessageID(k) : k \in {j \in Keys : /\ rows[j].st \in Unresolved
                                                              /\ rows[j].mid # "none"}}
      <4>1. asked \subseteq MessageIDs
        BY DEF MessageID, MessageIDs, TypeOK, Rows, Keys
      <4>2. PICK found \in {asked \cap Stored, {}} :
               sweep' = [sweep EXCEPT !.pc = "rows", !.queried = asked, !.present = found]
        BY <3>2 DEF SweepMessages
      <4>3. found \subseteq MessageIDs
        BY <4>1, <4>2
      <4> HIDE DEF asked
      <4> QED BY <4>1, <4>2, <4>3, <1>1 DEF OthersOK
    <3>3. CASE sweepSession
      BY <3>3 DEF sweepSession, Idle
    <3> QED BY <3>1, <3>2, <3>3, <1>10 DEF SweepStep
  <2>2. UNCHANGED <<drv, lock, acked, booted, collected, harnessVars>>
    BY <1>10 DEF SweepStep, SweepStatus, SweepMessages, sweepSession
  <2>3. OthersOK' /\ TurnsStored' /\ transcript \subseteq transcript'
    BY <2>1, <2>2, <1>1 DEF OthersOK, TurnsStored, harnessVars
  <2> QED BY <2>2, <2>3, <1>3
<1>11. CASE HarnessRestarts
  BY <1>1, <1>3, <1>11 DEF HarnessRestarts, OthersOK, TurnsStored
<1> QED
  BY <1>2, <1>4, <1>5, <1>6, <1>7, <1>8, <1>9, <1>10, <1>11 DEF Next

-----------------------------------------------------------------------------
(* The invariant is inductive *)

LEMMA StepInv ==
    ASSUME LedgerInv, LedgerStep, SideStep
    PROVE  LedgerInv'
<1> USE DEF LedgerInv
<1>1. TypeOK'
  BY DEF LedgerStep, SideStep, OthersOK, DriverRecords, TypeOK
<1>2. LockHolder'
  BY DEF SideStep, DriverMove, LockHolder
<1>3. ASSUME NEW k \in Keys
      PROVE  /\ rows[k].st # "absent" => rows'[k].st # "absent"
             /\ rows[k].st \in AdmittedOrLater => rows'[k].st \in AdmittedOrLater
             /\ rows[k].st = "failed" => rows'[k].st = "failed"
  BY DEF LedgerStep, RowMove, AdmittedOrLater
<1>4. PostClear'
  <2> SUFFICES ASSUME NEW d \in Drivers, drv'[d].pc = "post", drv[d].pc = "post",
                      NEW a \in 1..MaxAttempt
               PROVE  rows'[<<Entry(d), a>>].st \notin AdmittedOrLater
    BY DEF PostClear, SideStep, DriverMove
  <2> DEFINE k == <<Entry(d), a>>
  <2>1. k \in Keys /\ rows[k].st \notin AdmittedOrLater
    BY DEF PostClear, Drivers, Entry, Keys
  <2>2. \A c \in Drivers : drv[c].pc # "mark"
    BY NoDriverIsNone DEF LockHolder
  <2> QED BY <2>1, <2>2 DEF LedgerStep, RowMove, AdmittedOrLater, Row
<1>5. SavedBehind'
  <2> SUFFICES ASSUME NEW k \in Keys
               PROVE  /\ saved'[k].st \in AdmittedOrLater => rows'[k].st \in AdmittedOrLater
                      /\ saved'[k].st = "failed" => rows'[k].st = "failed"
    BY DEF SavedBehind
  <2>1. \/ saved'[k] \in {saved[k], rows'[k]}
        \/ saved'[k] = Row("ledgered", "none")
    BY DEF LedgerStep, LineMove
  <2>2. Row("ledgered", "none").st = "ledgered"
    BY DEF Row
  <2> QED BY <2>1, <2>2, <1>3 DEF SavedBehind, AdmittedOrLater
<1>6. MarkReached'
  BY DEF SideStep, DriverMove, MarkReached
<1>7. TurnsStored'
  BY DEF SideStep
<1>8. AdmittedReached'
  <2> SUFFICES ASSUME NEW k \in Keys, rows'[k].st \in AdmittedOrLater
               PROVE  k[1] \in transcript
    BY DEF AdmittedReached, SideStep
  <2>1. CASE rows[k].st \in AdmittedOrLater
    BY <2>1 DEF AdmittedReached
  <2>2. CASE \E d \in Drivers : Entry(d) = k[1] /\ drv[d].pc = "mark"
    BY <2>2 DEF MarkReached
  <2> QED BY <2>1, <2>2 DEF LedgerStep, RowMove, AdmittedOrLater, Row
<1>9. AbsentIsNoRow'
  <2>1. Row("ledgered", "none").st = "ledgered"
    BY DEF Row
  <2> QED BY <2>1 DEF AbsentIsNoRow, LedgerStep, RowMove, LineMove, AdmittedOrLater
<1>10. DriverHasRow'
  <2>1. \A d \in Drivers : Key(d) \in Keys
    BY DEF Drivers, Key
  <2> QED BY <2>1, <1>3 DEF DriverHasRow, SideStep, DriverMove
<1> QED BY <1>1, <1>2, <1>4, <1>5, <1>6, <1>7, <1>8, <1>9, <1>10

(* A crash takes memory back to the log, which is behind it.               *)
LEMMA CrashInv ==
    ASSUME LedgerInv, Crash
    PROVE  LedgerInv'
<1> USE DEF LedgerInv
<1>1. /\ UNCHANGED <<saved, acked, aged, sent, transcript, answered, running>>
      /\ rows' = saved /\ lock' = NoDriver /\ booted' = FALSE /\ sweep' = Idle
      /\ collected' = {}
      /\ torn' \in BOOLEAN /\ faults' \in 0..MaxFaults
  BY LedgerAssumption DEF Crash, harnessVars, TypeOK
<1>2. Stopped \in DriverRecords /\ Stopped.pc = "none"
  BY LedgerAssumption DEF Stopped, DriverRecords
<1>3. drv' \in [Drivers -> DriverRecords] /\ \A d \in Drivers : drv'[d].pc = "none"
  BY <1>2 DEF Crash
<1>4. TypeOK'
  BY <1>1, <1>3 DEF TypeOK, Idle, DriverRecords
<1>5. LockHolder' /\ PostClear' /\ MarkReached' /\ DriverHasRow'
  BY <1>3 DEF LockHolder, PostClear, MarkReached, DriverHasRow
<1>6. SavedBehind' /\ AbsentIsNoRow' /\ TurnsStored'
  BY <1>1 DEF SavedBehind, AbsentIsNoRow, TurnsStored
<1>7. AdmittedReached'
  BY <1>1 DEF AdmittedReached, SavedBehind
<1> QED BY <1>4, <1>5, <1>6, <1>7

LEMMA LedgerInit == Init => LedgerInv
<1> SUFFICES ASSUME Init PROVE LedgerInv
  OBVIOUS
<1>1. /\ NoRow \in Rows /\ NoRow.st = "absent"
      /\ Stopped \in DriverRecords /\ Stopped.pc = "none"
  BY LedgerAssumption DEF NoRow, Row, Rows, Stopped, DriverRecords
<1>2. TypeOK
  <2>1. rows \in [Keys -> Rows] /\ saved \in [Keys -> Rows]
    BY <1>1 DEF Init
  <2>2. drv \in [Drivers -> DriverRecords]
    BY <1>1 DEF Init
  <2>3. sweep \in [pc : {"idle", "status", "rows"}, ended : BOOLEAN,
                   queried : SUBSET MessageIDs, present : SUBSET MessageIDs]
    BY DEF Init, Idle
  <2>4. faults \in 0..MaxFaults
    BY LedgerAssumption DEF Init
  <2> QED BY <2>1, <2>2, <2>3, <2>4 DEF Init, TypeOK, DriverRecords
<1>3. LockHolder /\ PostClear /\ MarkReached /\ DriverHasRow
  BY <1>1 DEF Init, LockHolder, PostClear, MarkReached, DriverHasRow
<1>4. SavedBehind /\ AbsentIsNoRow /\ TurnsStored /\ AdmittedReached
  BY <1>1 DEF Init, SavedBehind, AbsentIsNoRow, TurnsStored, AdmittedReached,
              AdmittedOrLater
<1> QED BY <1>2, <1>3, <1>4 DEF LedgerInv

LEMMA LedgerNext == LedgerInv /\ [Next]_vars => LedgerInv'
<1> SUFFICES ASSUME LedgerInv, [Next]_vars PROVE LedgerInv'
  OBVIOUS
<1>1. CASE Next
  BY <1>1, NextLedger, NextSide, StepInv, CrashInv
<1>2. CASE UNCHANGED vars
  BY <1>2 DEF vars, ledgerVars, harnessVars, LedgerInv, TypeOK, LockHolder, PostClear,
              SavedBehind, MarkReached, TurnsStored, AdmittedReached, AbsentIsNoRow,
              DriverHasRow
<1> QED BY <1>1, <1>2

LEMMA LedgerAlways == Spec => []LedgerInv
BY LedgerInit, LedgerNext, PTL DEF Spec

-----------------------------------------------------------------------------
(* The theorems *)

(* Every variable of the ledger, its drivers and the harness keeps its     *)
(* type, for every bound.                                                  *)
THEOREM LedgerTypes == Spec => []TypeOK
<1>1. LedgerInv => TypeOK
  BY DEF LedgerInv
<1> QED BY <1>1, LedgerAlways, PTL

(* A row that lets the outbox drop its entry, in memory or replayed from   *)
(* the log after any number of crashes, means that the harness stores the  *)
(* user's message.                                                         *)
THEOREM AdmittedIsReached == Spec => []AdmittedReached
<1>1. LedgerInv => AdmittedReached
  BY DEF LedgerInv
<1> QED BY <1>1, LedgerAlways, PTL

(* No driver posts an entry one of whose attempts is durably admitted.     *)
THEOREM AdmittedNeverReposted == Spec => NoRepost
<1>1. ASSUME LedgerInv, NEW d \in Drivers, drv[d].pc = "post", NEW a \in 1..MaxAttempt
      PROVE  saved[<<Entry(d), a>>].st \notin AdmittedOrLater
  <2>1. <<Entry(d), a>> \in Keys
    BY DEF Drivers, Entry, Keys
  <2> QED BY <1>1, <2>1 DEF LedgerInv, PostClear, SavedBehind
<1>2. LedgerInv /\ [Next]_vars =>
        [\A d \in Drivers : drv[d].pc = "post" /\ drv'[d].pc = "wait" =>
            \A a \in 1..MaxAttempt : saved[<<Entry(d), a>>].st \notin AdmittedOrLater]_vars
  BY <1>1
<1> QED BY <1>2, LedgerAlways, PTL DEF Spec, NoRepost

-----------------------------------------------------------------------------
(* Without half lines *)

(* Deliver answers for a row that exists, and a prompt leaves for one.     *)
LEMMA AckedAndSent ==
    ASSUME LedgerInv, LedgerStep, Next, ~Crash
    PROVE  /\ \A k \in acked' : k \in acked \/ rows'[k].st # "absent"
           /\ \A e \in sent' : \/ e \in sent
                               \/ \E a \in 1..MaxAttempt : rows[<<e, a>>].st # "absent"
<1> USE DEF LedgerInv
<1>1. ASSUME NEW k \in Keys, Deliver(k)
      PROVE  (\A j \in acked' : j \in acked \/ rows'[j].st # "absent") /\ UNCHANGED sent
  <2>1. CASE rows[k] # NoRow
    <3>1. rows'[k].st # "absent"
      BY <1>1, <2>1 DEF Deliver, ledgerVars, AbsentIsNoRow
    <3> QED BY <1>1, <2>1, <3>1 DEF Deliver, harnessVars
  <2>2. CASE rows[k] = NoRow
    <3>1. rows'[k].st = "ledgered" \/ UNCHANGED acked
      BY <1>1, <2>2 DEF Deliver, TypeOK, Row
    <3> QED BY <1>1, <2>2, <3>1 DEF Deliver, harnessVars
  <2> QED BY <2>1, <2>2
<1>2. ASSUME NEW d \in Drivers, DriverStep(d)
      PROVE  /\ UNCHANGED acked
             /\ \A e \in sent' : \/ e \in sent
                                 \/ \E a \in 1..MaxAttempt : rows[<<e, a>>].st # "absent"
  <2>1. CASE Post(d)
    <3>1. UNCHANGED acked /\ sent' = sent \cup {Entry(d)} /\ rows[Key(d)].st # "absent"
      BY <2>1 DEF Post, DriverHasRow
    <3>2. PICK a \in 1..MaxAttempt : Key(d) = <<Entry(d), a>>
      BY DEF Drivers, Keys, Key, Entry
    <3> QED BY <3>1, <3>2
  <2>2. CASE ~Post(d)
    BY <2>2, <1>2 DEF DriverStep, Lock, Check, AdmitReturns, AdmitFails, markAdmitted,
                      markFailed, harnessVars
  <2> QED BY <2>1, <2>2
<1>3. ASSUME NEW e \in Entries, HarnessStep(e)
      PROVE  UNCHANGED acked /\ sent' \subseteq sent
  BY <1>3 DEF HarnessStep, HarnessTakes, HarnessAnswers
<1>4. CASE HarnessRestarts
  BY <1>4 DEF HarnessRestarts
<1>5. ASSUME NEW k \in Keys, Age(k) \/ markPromoted(k)
      PROVE  UNCHANGED <<acked, sent>>
  BY <1>5 DEF Age, markPromoted, harnessVars
<1>6. ASSUME NEW m \in MessageIDs, observeMessage(m)
      PROVE  UNCHANGED <<acked, sent>>
  BY <1>6 DEF observeMessage, harnessVars
<1>7. CASE replayUnresolved \/ checkStalls \/ markTurnEnded \/ SweepStep
  BY <1>7 DEF replayUnresolved, checkStalls, markTurnEnded, SweepStep, SweepStatus,
              SweepMessages, sweepSession, harnessVars
<1> QED BY <1>1, <1>2, <1>3, <1>4, <1>5, <1>6, <1>7 DEF Next

LEMMA DurableNext ==
    ASSUME TornTails = FALSE
    PROVE  LedgerInv /\ DurableInv /\ [Next]_vars => DurableInv'
<1> SUFFICES ASSUME LedgerInv, DurableInv, [Next]_vars PROVE DurableInv'
  OBVIOUS
<1> USE DEF DurableInv
<1>1. CASE Crash
  <2>1. /\ rows' = saved /\ torn' = FALSE
        /\ UNCHANGED <<saved, acked, sent>>
    BY <1>1 DEF Crash, harnessVars
  <2>2. acked \subseteq Keys /\ sent \subseteq Entries
    BY DEF LedgerInv, TypeOK
  <2>3. \A e \in sent, a \in 1..MaxAttempt : <<e, a>> \in Keys
    BY <2>2 DEF Keys
  <2> QED BY <2>1, <2>2, <2>3
<1>2. CASE Next /\ ~Crash
  <2>1. LedgerStep /\ SideStep
    BY <1>2, NextLedger, NextSide
  <2>2. /\ \A k \in acked' : k \in acked \/ rows'[k].st # "absent"
        /\ \A e \in sent' : \/ e \in sent
                            \/ \E a \in 1..MaxAttempt : rows[<<e, a>>].st # "absent"
    BY <1>2, <2>1, AckedAndSent
  <2>3. \A k \in Keys : rows[k].st # "absent" => rows'[k].st # "absent"
    BY <2>1 DEF LedgerStep, RowMove, AdmittedOrLater
  <2>4. torn' = FALSE
    BY <2>1 DEF LedgerStep
  <2>5. \A k \in Keys : rows'[k].st # "absent" => saved'[k].st # "absent"
    <3>1. Row("ledgered", "none").st # "absent"
      BY DEF Row
    <3> QED BY <2>1, <2>3, <3>1 DEF LedgerStep, LineMove
  <2>6. \A k \in acked' : rows'[k].st # "absent"
    BY <2>2, <2>3 DEF LedgerInv, TypeOK
  <2>7. sent' \subseteq Entries
    BY <2>1 DEF SideStep, OthersOK
  <2>8. \A e \in sent', a \in 1..MaxAttempt : <<e, a>> \in Keys
    BY <2>7 DEF Keys
  <2> QED BY <2>2, <2>3, <2>4, <2>5, <2>6, <2>8
<1>3. CASE UNCHANGED vars
  BY <1>3 DEF vars, ledgerVars, harnessVars
<1> QED BY <1>1, <1>2, <1>3

LEMMA DurableAlways ==
    ASSUME TornTails = FALSE
    PROVE  Spec => []DurableInv
<1>1. Init => DurableInv
  BY DEF Init, DurableInv, NoRow, Row
<1>2. LedgerInv /\ DurableInv /\ [Next]_vars => DurableInv'
  BY DurableNext
<1> QED BY <1>1, <1>2, LedgerAlways, PTL DEF Spec

(* I9 for every bound: when no append leaves half a line behind, an        *)
(* answered delivery has its row in memory and in the log, through failed  *)
(* appends and crashes.                                                    *)
THEOREM AckedAlwaysSurvives ==
    ASSUME TornTails = FALSE
    PROVE  Spec => []AckedSurvives
<1>1. LedgerInv /\ DurableInv => AckedSurvives
  BY DEF LedgerInv, TypeOK, DurableInv, AckedSurvives, NoRow, Row
<1> QED BY <1>1, LedgerAlways, DurableAlways, PTL

-----------------------------------------------------------------------------
(* The ledger implements the delivery contract *)

LEMMA AbstractMoves ==
    ASSUME TornTails = FALSE, LedgerInv, DurableInv, Next, NEW k \in Keys
    PROVE  Answered(rows'[k].st) \in Contract!Moves(Answered(rows[k].st))
<1> USE DEF LedgerInv
<1>1. rows[k].st \in LedgerStates \cup {"absent"} /\ saved[k].st \in LedgerStates \cup {"absent"}
  BY DEF TypeOK, Rows
<1>2. CASE Crash
  <2>1. rows'[k] = saved[k]
    BY <1>2 DEF Crash
  <2>2. /\ saved[k].st \in AdmittedOrLater => rows[k].st \in AdmittedOrLater
        /\ saved[k].st = "failed" => rows[k].st = "failed"
        /\ rows[k].st # "absent" => saved[k].st # "absent"
    BY DEF SavedBehind, DurableInv
  <2> QED BY <1>1, <2>1, <2>2 DEF Answered, Contract!Moves, AdmittedOrLater, LedgerStates
<1>3. CASE LedgerStep
  <2>1. RowMove(k) /\ Row("ledgered", "none").st = "ledgered"
    BY <1>3 DEF LedgerStep, Row
  <2> QED BY <1>1, <2>1 DEF RowMove, Answered, Contract!Moves, AdmittedOrLater, LedgerStates
<1> QED BY <1>2, <1>3, NextLedger

LEMMA AbstractStep ==
    ASSUME TornTails = FALSE, LedgerInv, LedgerInv', DurableInv, Next
    PROVE  Contract!Next
<1>1. \A k \in Keys : rows'[k].st \in LedgerStates \cup {"absent"}
  BY DEF LedgerInv, TypeOK, Rows
<1>2. \A k \in Keys : Answered(rows'[k].st) \in {"none", "ledgered", "done", "failed"}
  BY <1>1 DEF Answered, AdmittedOrLater, LedgerStates
<1>3. \A k \in Keys : Answered(rows'[k].st) \in Contract!Moves(Answered(rows[k].st))
  BY AbstractMoves
<1>4. \A k \in Keys : Answered(rows'[k].st) = "done" => k[1] \in transcript'
  BY <1>1 DEF Answered, AdmittedOrLater, LedgerStates, LedgerInv, AdmittedReached
<1>5. transcript \subseteq transcript'
  BY NextLedger, NextSide DEF SideStep, Crash, harnessVars
<1>6. \A e \in transcript' \ transcript : e \in sent
  <2>1. CASE \E e \in Entries : HarnessTakes(e)
    BY <2>1 DEF HarnessTakes
  <2>2. CASE ~\E e \in Entries : HarnessTakes(e)
    BY <2>2 DEF Next, Deliver, Age, markPromoted, DriverStep, Lock, Check, Post,
                AdmitReturns, AdmitFails, markAdmitted, markFailed, HarnessStep,
                HarnessAnswers, observeMessage, replayUnresolved, checkStalls,
                markTurnEnded, SweepStep, SweepStatus, SweepMessages, sweepSession,
                HarnessRestarts, Crash, harnessVars
  <2> QED BY <2>1, <2>2
<1>7. \A e \in transcript' \ transcript :
         \E a \in 1..MaxAttempt : Answered(rows[<<e, a>>].st) # "none"
  <2> SUFFICES ASSUME NEW e \in transcript' \ transcript
               PROVE  \E a \in 1..MaxAttempt : Answered(rows[<<e, a>>].st) # "none"
    OBVIOUS
  <2>1. PICK a \in 1..MaxAttempt : rows[<<e, a>>].st # "absent"
    BY <1>6 DEF DurableInv
  <2>2. <<e, a>> \in Keys
    BY <1>6 DEF LedgerInv, TypeOK, Keys
  <2>3. rows[<<e, a>>].st \in LedgerStates
    BY <2>1, <2>2 DEF LedgerInv, TypeOK, Rows
  <2> QED BY <2>1, <2>3 DEF Answered, AdmittedOrLater, LedgerStates
<1>8. \A k \in Keys : /\ contractRow[k] = Answered(rows[k].st)
                       /\ contractRow'[k] = Answered(rows'[k].st)
  BY DEF contractRow
<1>9. contractRow' \in [Keys -> {"none", "ledgered", "done", "failed"}]
  BY <1>2 DEF contractRow
<1>10. \A e \in transcript' \ transcript :
          \E a \in 1..MaxAttempt : contractRow[<<e, a>>] # "none"
  <2>1. \A e \in transcript' \ transcript : e \in Entries
    BY DEF LedgerInv, TypeOK
  <2>2. \A e \in transcript' \ transcript, a \in 1..MaxAttempt : <<e, a>> \in Keys
    BY <2>1 DEF Keys
  <2> QED BY <2>2, <1>7, <1>8
<1> QED
  BY <1>3, <1>4, <1>5, <1>8, <1>9, <1>10 DEF Contract!Next, Contract!RowStates, Keys

(* When no append leaves half a line behind, every step of the ledger is a *)
(* step of the contract the outbox relies on or changes nothing it sees.   *)
THEOREM LedgerImplementsContract ==
    ASSUME TornTails = FALSE
    PROVE  Spec => ImplementsContract
<1>1. Init => Contract!Init
  <2> SUFFICES ASSUME Init PROVE Contract!Init
    OBVIOUS
  <2>1. \A k \in Keys : Answered(rows[k].st) = "none"
    <3>1. \A k \in Keys : rows[k].st = "absent"
      BY DEF Init, NoRow, Row
    <3> QED BY <3>1 DEF Answered, AdmittedOrLater
  <2>2. contractRow = [k \in Keys |-> "none"]
    BY <2>1 DEF contractRow
  <2> QED BY <2>2 DEF Init, Contract!Init, Keys
<1>2. ASSUME LedgerInv, LedgerInv', DurableInv, [Next]_vars
      PROVE  [Contract!Next]_<<contractRow, transcript>>
  <2>1. CASE Next
    BY <1>2, <2>1, AbstractStep
  <2>2. CASE UNCHANGED vars
    BY <2>2 DEF vars, ledgerVars, harnessVars, contractRow
  <2> QED BY <1>2, <2>1, <2>2
<1> QED
  BY <1>1, <1>2, LedgerAlways, DurableAlways, PTL DEF Spec, ImplementsContract, Contract!Spec

=============================================================================
