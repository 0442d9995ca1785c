---------------------- MODULE SessionAuthority_proofs ----------------------
(***************************************************************************)
(* For every ring size, buffer size and number of consumers.  Of the       *)
(* authority: the types of its state, that a published sequence number is  *)
(* never used again, that the ring serves every cursor it accepts exactly, *)
(* and that harness events keep their order through a reseed.  Of the      *)
(* authority with its consumers: that it implements the authority, that an *)
(* honoured resume has no gap, that nothing is applied twice, and which    *)
(* step alone can break a fold.                                            *)
(***************************************************************************)
EXTENDS SessionSync, SequenceTheorems, TLAPS

(* The file is never behind the number in memory, and at most one ahead.   *)
CursorLeads == seq <= disk /\ disk <= seq + 1

(* The ring holds the latest numbers without a hole ...                    *)
RingContiguous ==
    /\ Len(ring) <= seq
    /\ \A i \in 1..Len(ring) : ring[i].seq = seq - Len(ring) + i

(* ... and they are the latest frames published.                           *)
RingIsLogTail ==
    /\ Len(ring) <= Len(log)
    /\ \A i \in 1..Len(ring) : ring[i] = log[Len(log) - Len(ring) + i]

LogBelowSeq == \A i \in 1..Len(log) : log[i].seq <= seq

(* A stream that is opening has its snapshot frame to send.                *)
SnapshotWaiting == \A c \in Subs : conn[c] = "opening" => rep[c] # <<>>

AuthorityInv ==
    /\ TypeOK
    /\ SnapshotWaiting
    /\ CursorLeads
    /\ RingContiguous
    /\ RingIsLogTail
    /\ LogBelowSeq
    /\ SeqNeverReused

-----------------------------------------------------------------------------
LEMMA FrameType ==
    ASSUME NEW k \in {"event", "reseed", "snapshot"}, NEW n \in 0..MaxSeq,
           NEW e \in 0..MaxEvents
    PROVE  Frame(k, n, e) \in Frames
BY DEF Frame, Frames

(* A suffix of a sequence, as a sequence.                                  *)
LEMMA SuffixFacts ==
    ASSUME NEW S, NEW s \in Seq(S), NEW k \in 1..(Len(s) + 1)
    PROVE  /\ SubSeq(s, k, Len(s)) \in Seq(S)
           /\ Len(SubSeq(s, k, Len(s))) = Len(s) + 1 - k
           /\ \A i \in 1..(Len(s) + 1 - k) :
                 SubSeq(s, k, Len(s))[i] = s[k + i - 1]
BY SubSeqProperties, LenProperties

(* One published frame keeps the ring the tail of a log whose numbers      *)
(* grow.                                                                   *)
LEMMA PublishStep ==
    ASSUME AuthorityInv,
           NEW k \in {"event", "reseed"}, NEW e \in 0..MaxEvents,
           Publish(k, e)
    PROVE  /\ disk' \in 0..MaxSeq /\ seq' \in 0..MaxSeq
           /\ ring' \in Seq(Frames) /\ log' \in Seq(Frames)
           /\ subs' \subseteq Subs
           /\ ch' \in [Subs -> Seq(Frames)]
           /\ CursorLeads'
           /\ RingContiguous'
           /\ RingIsLogTail'
           /\ LogBelowSeq'
           /\ SeqNeverReused'
<1> DEFINE f == Frame(k, seq + 1, e)
<1> USE DEF AuthorityInv
<1>1. /\ seq < MaxSeq /\ seq \in Nat /\ MaxSeq \in Nat
      /\ seq' = seq + 1 /\ disk' = seq + 1
  BY BoundsAssumption DEF Publish, TypeOK
<1>2. f \in Frames /\ f.seq = seq + 1
  BY <1>1, FrameType DEF Frame
<1>3. /\ ring \in Seq(Frames) /\ log \in Seq(Frames)
      /\ Len(ring) \in Nat /\ Len(log) \in Nat
  BY LenProperties DEF TypeOK
<1>4. fanoutLocked(f)
  BY DEF Publish
<1>5. /\ log' = Append(log, f) /\ log' \in Seq(Frames)
      /\ Len(log') = Len(log) + 1
      /\ \A i \in 1..Len(log) : log'[i] = log[i]
      /\ log'[Len(log) + 1] = f
  <2>1. log' = Append(log, f)
    BY <1>4 DEF fanoutLocked
  <2> QED BY <2>1, <1>2, <1>3, AppendProperties
<1> DEFINE r == Append(ring, f)
<1>6. /\ r \in Seq(Frames) /\ Len(r) = Len(ring) + 1
      /\ \A i \in 1..Len(ring) : r[i] = ring[i]
      /\ r[Len(ring) + 1] = f
  BY <1>2, <1>3, AppendProperties
<1>7. PICK p \in 1..Len(r) : ring' = SubSeq(r, p, Len(r))
  BY <1>4 DEF fanoutLocked, ringAppend
<1> HIDE DEF r, f
<1>8. /\ ring' \in Seq(Frames)
      /\ Len(ring') = Len(r) + 1 - p
      /\ \A i \in 1..(Len(r) + 1 - p) : ring'[i] = r[p + i - 1]
  <2>1. p \in 1..(Len(r) + 1)
    BY <1>3, <1>6
  <2> QED BY <2>1, <1>6, <1>7, SuffixFacts
<1>9. ASSUME NEW i \in 1..Len(r) PROVE r[i].seq = seq' - Len(r) + i
  <2>1. CASE i \in 1..Len(ring)
    <3>1. r[i] = ring[i] /\ ring[i].seq = seq - Len(ring) + i
      BY <2>1, <1>6 DEF RingContiguous
    <3> QED BY <3>1, <2>1, <1>1, <1>3, <1>6
  <2>2. CASE i = Len(ring) + 1
    BY <2>2, <1>1, <1>2, <1>3, <1>6
  <2> QED BY <2>1, <2>2, <1>3, <1>6
<1>10. ASSUME NEW i \in 1..Len(r) PROVE r[i] = log'[Len(log') - Len(r) + i]
  <2>1. CASE i \in 1..Len(ring)
    <3>1. r[i] = ring[i] /\ ring[i] = log[Len(log) - Len(ring) + i]
      BY <2>1, <1>6 DEF RingIsLogTail
    <3>2. /\ Len(log) - Len(ring) + i \in 1..Len(log)
          /\ Len(log') - Len(r) + i = Len(log) - Len(ring) + i
      BY <2>1, <1>3, <1>5, <1>6 DEF RingIsLogTail
    <3> QED BY <3>1, <3>2, <1>5
  <2>2. CASE i = Len(ring) + 1
    BY <2>2, <1>3, <1>5, <1>6
  <2> QED BY <2>1, <2>2, <1>3, <1>6
<1>11. RingContiguous'
  <2>1. Len(ring') <= seq'
    BY <1>1, <1>3, <1>6, <1>8 DEF RingContiguous
  <2>2. ASSUME NEW i \in 1..Len(ring') PROVE ring'[i].seq = seq' - Len(ring') + i
    <3>1. p + i - 1 \in 1..Len(r) /\ ring'[i] = r[p + i - 1]
      BY <1>3, <1>6, <1>8
    <3>2. r[p + i - 1].seq = seq' - Len(r) + (p + i - 1)
      BY <3>1, <1>9
    <3> QED BY <3>1, <3>2, <1>1, <1>3, <1>6, <1>8
  <2> QED BY <2>1, <2>2 DEF RingContiguous
<1>12. RingIsLogTail'
  <2>1. Len(ring') <= Len(log')
    BY <1>3, <1>5, <1>6, <1>8 DEF RingIsLogTail
  <2>2. ASSUME NEW i \in 1..Len(ring')
        PROVE  ring'[i] = log'[Len(log') - Len(ring') + i]
    <3>1. p + i - 1 \in 1..Len(r) /\ ring'[i] = r[p + i - 1]
      BY <1>3, <1>6, <1>8
    <3>2. r[p + i - 1] = log'[Len(log') - Len(r) + (p + i - 1)]
      BY <3>1, <1>10
    <3>3. Len(log') - Len(r) + (p + i - 1) = Len(log') - Len(ring') + i
      BY <1>3, <1>5, <1>6, <1>8
    <3> QED BY <3>1, <3>2, <3>3
  <2> QED BY <2>1, <2>2 DEF RingIsLogTail
<1>13. LogBelowSeq'
  <2> SUFFICES ASSUME NEW i \in 1..Len(log') PROVE log'[i].seq <= seq'
    BY DEF LogBelowSeq
  <2>1. CASE i \in 1..Len(log)
    <3>1. log[i] \in Frames
      BY <2>1, <1>3, ElementOfSeq
    <3> QED BY <2>1, <3>1, <1>1, <1>5, SMTT(30) DEF LogBelowSeq, Frames
  <2>2. CASE i = Len(log) + 1
    BY <2>2, <1>1, <1>2, <1>5
  <2> QED BY <2>1, <2>2, <1>3, <1>5
<1>14. SeqNeverReused'
  <2> SUFFICES ASSUME NEW i \in 1..Len(log'), NEW j \in 1..Len(log'), i < j
               PROVE  log'[i].seq < log'[j].seq
    BY DEF SeqNeverReused
  <2>1. CASE j \in 1..Len(log)
    BY <2>1, <1>3, <1>5 DEF SeqNeverReused
  <2>2. CASE j = Len(log) + 1
    <3>1. i \in 1..Len(log)
      BY <2>2, <1>3
    <3>2. log[i].seq <= seq /\ log[i] \in Frames
      BY <3>1, <1>3, ElementOfSeq DEF LogBelowSeq
    <3>3. log[i].seq \in 0..MaxSeq
      BY <3>2 DEF Frames
    <3>4. log'[i] = log[i] /\ log'[j].seq = seq + 1
      BY <2>2, <3>1, <1>2, <1>5
    <3>5. \A a, b \in Nat : a <= b => a < b + 1
      OBVIOUS
    <3>6. log[i].seq \in Nat
      BY <3>3
    <3>7. log[i].seq < seq + 1
      BY <3>2, <3>5, <3>6, <1>1
    <3> QED BY <3>4, <3>7
  <2>3. j \in 1..Len(log) \/ j = Len(log) + 1
    <3>1. Len(log') = Len(log) + 1 /\ Len(log) \in Nat
      BY <1>3, <1>5
    <3> QED BY <3>1
  <2> QED BY <2>1, <2>2, <2>3
<1>15. subs' \subseteq Subs /\ ch' \in [Subs -> Seq(Frames)]
  <2>1. subs' \subseteq Subs
    BY <1>4 DEF fanoutLocked, TypeOK
  <2>2. ASSUME NEW c \in Subs PROVE Append(ch[c], f) \in Seq(Frames)
    BY <1>2, AppendProperties DEF TypeOK
  <2> QED BY <1>4, <2>1, <2>2 DEF fanoutLocked, TypeOK
<1>16. CursorLeads' /\ disk' \in 0..MaxSeq /\ seq' \in 0..MaxSeq
  BY <1>1 DEF CursorLeads
<1> QED BY <1>5, <1>8, <1>11, <1>12, <1>13, <1>14, <1>15, <1>16

(* A failed persist may only move the file ahead by the one number that    *)
(* is tried again next.                                                    *)
LEMMA PersistFailsStep ==
    ASSUME AuthorityInv, PersistFails
    PROVE  /\ disk' \in 0..MaxSeq /\ seq' \in 0..MaxSeq
           /\ ring' \in Seq(Frames) /\ log' \in Seq(Frames)
           /\ subs' \subseteq Subs
           /\ ch' \in [Subs -> Seq(Frames)]
           /\ CursorLeads'
           /\ RingContiguous'
           /\ RingIsLogTail'
           /\ LogBelowSeq'
           /\ SeqNeverReused'
BY BoundsAssumption
   DEF PersistFails, AuthorityInv, TypeOK, CursorLeads, RingContiguous,
       RingIsLogTail, LogBelowSeq, SeqNeverReused

LEMMA ApplyStep ==
    ASSUME AuthorityInv, NEW e \in 0..MaxEvents, applyLocked(e)
    PROVE  /\ disk' \in 0..MaxSeq /\ seq' \in 0..MaxSeq
           /\ ring' \in Seq(Frames) /\ log' \in Seq(Frames)
           /\ subs' \subseteq Subs
           /\ ch' \in [Subs -> Seq(Frames)]
           /\ CursorLeads'
           /\ RingContiguous'
           /\ RingIsLogTail'
           /\ LogBelowSeq'
           /\ SeqNeverReused'
BY PublishStep, PersistFailsStep DEF applyLocked

-----------------------------------------------------------------------------
(* The facts that no step but a publication, a failed persist or a restart *)
(* touches.                                                                *)
LEMMA QuietStep ==
    ASSUME AuthorityInv, UNCHANGED <<cursorVars, ring, log>>
    PROVE  /\ CursorLeads'
           /\ RingContiguous'
           /\ RingIsLogTail'
           /\ LogBelowSeq'
           /\ SeqNeverReused'
BY DEF AuthorityInv, cursorVars, CursorLeads, RingContiguous, RingIsLogTail,
       LogBelowSeq, SeqNeverReused

LEMMA NoStreamOpens ==
    ASSUME AuthorityInv, UNCHANGED <<conn, rep>>
    PROVE  SnapshotWaiting'
BY DEF AuthorityInv, SnapshotWaiting

LEMMA NoFrames ==
    /\ <<>> \in Seq(Frames) /\ <<>> \in Seq(1..MaxEvents)
    /\ [c \in Subs |-> <<>>] \in [Subs -> Seq(Frames)]
<1>1. <<>> \in Seq(Frames) /\ <<>> \in Seq(1..MaxEvents)
  BY EmptySeq
<1> QED BY <1>1

LEMMA InitInv == Init => AuthorityInv
<1> SUFFICES ASSUME Init PROVE AuthorityInv
  OBVIOUS
<1>1. TypeOK
  <2>1. /\ disk \in 0..MaxSeq /\ seq \in 0..MaxSeq
        /\ orphans \in 0..MaxOrphans /\ emitted \in 0..MaxEvents
    BY BoundsAssumption DEF Init
  <2>2. /\ ring \in Seq(Frames) /\ log \in Seq(Frames)
        /\ pending \in Seq(1..MaxEvents) /\ batch \in Seq(1..MaxEvents)
        /\ ch \in [Subs -> Seq(Frames)] /\ rep \in [Subs -> Seq(Frames)]
    BY NoFrames DEF Init
  <2>3. /\ subs \subseteq Subs /\ conn \in [Subs -> ConnStates]
        /\ rs \in ReseedPhases
    BY DEF Init, ConnStates, ReseedPhases
  <2>4. buffering \in BOOLEAN
    BY DEF Init
  <2> QED BY <2>1, <2>2, <2>3, <2>4 DEF TypeOK
<1>2. SnapshotWaiting /\ CursorLeads /\ RingContiguous /\ RingIsLogTail /\ LogBelowSeq /\ SeqNeverReused
  BY DEF Init, SnapshotWaiting, CursorLeads, RingContiguous, RingIsLogTail, LogBelowSeq, SeqNeverReused
<1> QED BY <1>1, <1>2 DEF AuthorityInv

LEMMA NextInv == AuthorityInv /\ [Next]_vars => AuthorityInv'
<1> SUFFICES ASSUME AuthorityInv, [Next]_vars PROVE AuthorityInv'
  OBVIOUS
<1> USE DEF AuthorityInv
<1>1. CASE Ingest
  <2>1. /\ emitted + 1 \in 1..MaxEvents /\ emitted' \in 0..MaxEvents
        /\ pending \in Seq(1..MaxEvents)
    BY <1>1, BoundsAssumption DEF Ingest, TypeOK
  <2>2. UNCHANGED <<conn, rep, buffering, batch, rs, orphans>>
    BY <1>1 DEF Ingest
  <2>3. CASE UNCHANGED <<cursorVars, ring, subs, ch, log, pending>>
    BY <2>1, <2>2, <2>3, QuietStep, NoStreamOpens DEF TypeOK, cursorVars
  <2>4. CASE UNCHANGED <<cursorVars, ring, subs, ch, log>>
             /\ pending' = Append(pending, emitted + 1)
    <3>1. pending' \in Seq(1..MaxEvents)
      BY <2>1, <2>4, AppendProperties
    <3> QED BY <2>1, <2>2, <2>4, <3>1, QuietStep, NoStreamOpens DEF TypeOK, cursorVars
  <2>5. CASE applyLocked(emitted + 1) /\ UNCHANGED pending
    <3>1. emitted + 1 \in 0..MaxEvents
      BY <2>1
    <3> QED BY <2>1, <2>2, <2>5, <3>1, ApplyStep, NoStreamOpens DEF TypeOK
  <2> QED BY <1>1, <2>3, <2>4, <2>5 DEF Ingest
<1>2. CASE ApplyOwn
  <2>1. Local \in 0..MaxEvents
    BY BoundsAssumption DEF Local
  <2> QED BY <1>2, <2>1, ApplyStep, NoStreamOpens DEF ApplyOwn, TypeOK, reseedVars
<1>3. CASE ReseedArm
  <2>1. TypeOK'
    BY <1>3 DEF ReseedArm, TypeOK, ReseedPhases, cursorVars, streamVars
  <2> QED BY <1>3, <2>1, QuietStep, NoStreamOpens DEF ReseedArm, streamVars
<1>4. CASE ReseedSwap
  <2>1. CASE Publish("reseed", Local) /\ rs' = "orphans" /\ UNCHANGED orphans
    <3>1. Local \in 0..MaxEvents
      BY BoundsAssumption DEF Local
    <3> QED BY <1>4, <2>1, <3>1, PublishStep, NoStreamOpens DEF ReseedSwap, TypeOK, ReseedPhases
  <2>2. CASE PersistFails /\ rs' = "swapped" /\ orphans' = 0
    BY <1>4, <2>2, PersistFailsStep, NoStreamOpens, BoundsAssumption DEF ReseedSwap, TypeOK, ReseedPhases
  <2> QED BY <1>4, <2>1, <2>2 DEF ReseedSwap
<1>5. CASE ReseedOrphan
  <2>1. CASE orphans > 0 /\ orphans' = orphans - 1 /\ applyLocked(Local) /\ UNCHANGED rs
    <3>1. Local \in 0..MaxEvents
      BY BoundsAssumption DEF Local
    <3>2. orphans' \in 0..MaxOrphans
      BY <2>1, BoundsAssumption DEF TypeOK
    <3> QED BY <1>5, <2>1, <3>1, <3>2, ApplyStep, NoStreamOpens DEF ReseedOrphan, TypeOK
  <2>2. CASE rs' = "swapped" /\ UNCHANGED <<orphans, cursorVars, ring, subs, ch, log>>
    BY <1>5, <2>2, QuietStep, NoStreamOpens DEF ReseedOrphan, TypeOK, ReseedPhases, cursorVars
  <2> QED BY <1>5, <2>1, <2>2 DEF ReseedOrphan
<1>6. CASE FlushBegin
  <2>1. TypeOK'
    BY <1>6, NoFrames DEF FlushBegin, TypeOK, ReseedPhases, cursorVars, streamVars
  <2> QED BY <1>6, <2>1, QuietStep, NoStreamOpens DEF FlushBegin, streamVars
<1>7. CASE FlushStep
  <2>1. CASE /\ batch # <<>>
             /\ batch' = Tail(batch)
             /\ applyLocked(Head(batch))
             /\ UNCHANGED rs
    <3>1. Head(batch) \in 1..MaxEvents /\ Tail(batch) \in Seq(1..MaxEvents)
      BY <2>1, HeadTailProperties DEF TypeOK
    <3>2. Head(batch) \in 0..MaxEvents
      BY <3>1, BoundsAssumption
    <3> QED BY <1>7, <2>1, <3>1, <3>2, ApplyStep, NoStreamOpens DEF FlushStep, TypeOK
  <2>2. CASE rs' = "idle" /\ UNCHANGED <<batch, cursorVars, ring, subs, ch, log>>
    BY <1>7, <2>2, QuietStep, NoStreamOpens DEF FlushStep, TypeOK, ReseedPhases, cursorVars
  <2> QED BY <1>7, <2>1, <2>2 DEF FlushStep
<1>8. ASSUME NEW c \in Subs, Stream(c) PROVE AuthorityInv'
  <2>1. <<Frame("snapshot", seq, Local)>> \in Seq(Frames)
    BY FrameType, BoundsAssumption DEF TypeOK, Local
  <2>2. TypeOK'
    BY <1>8, <2>1, NoFrames DEF Stream, TypeOK, ConnStates, cursorVars, reseedVars
  <2>3. SnapshotWaiting'
    BY <1>8 DEF Stream, SnapshotWaiting, TypeOK
  <2> QED BY <1>8, <2>2, <2>3, QuietStep DEF Stream
<1>9. ASSUME NEW c \in Subs, SendSnapshot(c) PROVE AuthorityInv'
  <2>1. rep[c] \in Seq(Frames) /\ rep[c] # <<>> /\ ch[c] \in Seq(Frames)
    BY <1>9 DEF SendSnapshot, SnapshotWaiting, TypeOK
  <2>2. rep[c][1] \in Frames
    BY <2>1, EmptySeq, ElementOfSeq, LenProperties
  <2>3. Append(ch[c], rep[c][1]) \in Seq(Frames)
    BY <2>1, <2>2, AppendProperties
  <2>4. TypeOK'
    BY <1>9, <2>3, NoFrames DEF SendSnapshot, TypeOK, ConnStates, cursorVars, reseedVars
  <2>5. SnapshotWaiting'
    BY <1>9 DEF SendSnapshot, SnapshotWaiting, TypeOK
  <2> QED BY <1>9, <2>4, <2>5, QuietStep DEF SendSnapshot
<1>10. ASSUME NEW c \in Subs, NEW since \in 0..MaxSeq, StreamSince(c, since)
       PROVE  AuthorityInv'
  <2>1. rep' \in [Subs -> Seq(Frames)]
    <3>1. ASSUME NEW k \in 1..(Len(ring) + 1) PROVE SubSeq(ring, k, Len(ring)) \in Seq(Frames)
      BY SuffixFacts DEF TypeOK
    <3> QED BY <1>10, <3>1, ZenonT(60) DEF StreamSince, TypeOK
  <2>2. /\ subs' \subseteq Subs /\ conn' \in [Subs -> ConnStates]
        /\ ch' \in [Subs -> Seq(Frames)]
    BY <1>10, NoFrames DEF StreamSince, TypeOK, ConnStates
  <2>3. TypeOK'
    BY <1>10, <2>1, <2>2 DEF StreamSince, TypeOK, cursorVars, reseedVars
  <2>4. SnapshotWaiting'
    BY <1>10 DEF StreamSince, SnapshotWaiting, TypeOK
  <2> QED BY <1>10, <2>3, <2>4, QuietStep DEF StreamSince
<1>11. ASSUME NEW c \in Subs, Pump(c) PROVE AuthorityInv'
  <2>1. rep' \in [Subs -> Seq(Frames)] /\ ch' \in [Subs -> Seq(Frames)]
    <3>1. ASSUME NEW s \in Seq(Frames), s # <<>> PROVE Tail(s) \in Seq(Frames)
      BY <3>1, HeadTailProperties
    <3>2. CASE rep[c] # <<>>
      BY <1>11, <3>1, <3>2 DEF Pump, TypeOK
    <3>3. CASE rep[c] = <<>>
      <4>1. ch[c] # <<>>
        BY <1>11, <3>3, ConcatEmptySeq DEF Pump, Outgoing, TypeOK
      <4>2. Tail(ch[c]) \in Seq(Frames)
        BY <3>1, <4>1 DEF TypeOK
      <4>3. ch' = [ch EXCEPT ![c] = Tail(@)] /\ rep' = rep
        BY <1>11, <3>3 DEF Pump
      <4> QED BY <4>2, <4>3 DEF TypeOK
    <3> QED BY <3>2, <3>3
  <2>2. TypeOK'
    BY <1>11, <2>1 DEF Pump, TypeOK, cursorVars, reseedVars
  <2>3. SnapshotWaiting'
    BY <1>11 DEF Pump, SnapshotWaiting, TypeOK
  <2> QED BY <1>11, <2>2, <2>3, QuietStep DEF Pump
<1>12. ASSUME NEW c \in Subs, dropSub(c) PROVE AuthorityInv'
  <2>1. TypeOK'
    BY <1>12, NoFrames DEF dropSub, TypeOK, ConnStates, cursorVars, reseedVars
  <2>2. SnapshotWaiting'
    BY <1>12 DEF dropSub, SnapshotWaiting, TypeOK
  <2> QED BY <1>12, <2>1, <2>2, QuietStep DEF dropSub
<1>13. CASE Restart
  <2>1. /\ disk' \in 0..MaxSeq /\ disk' >= seq /\ disk' <= seq + 1
        /\ seq' = disk' /\ seq' \in Nat
    BY <1>13, BoundsAssumption DEF Restart, TypeOK, CursorLeads
  <2>2. TypeOK'
    <3>1. /\ orphans' = 0 /\ 0 \in 0..MaxOrphans
          /\ rs' \in ReseedPhases
      BY <1>13, BoundsAssumption DEF Restart, ReseedPhases
    <3>5. buffering' \in BOOLEAN
      BY <1>13 DEF Restart
    <3>2. /\ ring' \in Seq(Frames) /\ pending' \in Seq(1..MaxEvents)
          /\ batch' \in Seq(1..MaxEvents)
          /\ ch' \in [Subs -> Seq(Frames)] /\ rep' \in [Subs -> Seq(Frames)]
      BY <1>13, NoFrames DEF Restart
    <3>3. subs' \subseteq Subs /\ conn' \in [Subs -> ConnStates]
      BY <1>13 DEF Restart, ConnStates
    <3>4. emitted' \in 0..MaxEvents /\ log' \in Seq(Frames)
      BY <1>13 DEF Restart, TypeOK
    <3> QED BY <2>1, <3>1, <3>2, <3>3, <3>4, <3>5 DEF TypeOK
  <2>3. CursorLeads' /\ RingContiguous' /\ RingIsLogTail' /\ SeqNeverReused'
    <3>1. Len(ring') = 0 /\ Len(log') \in Nat /\ log' = log
      BY <1>13, EmptySeq, LenProperties DEF Restart, TypeOK
    <3>2. CursorLeads'
      <4>1. seq' = disk' /\ disk' \in Nat
        BY <2>1
      <4>2. \A n \in Nat : n <= n /\ n <= n + 1
        OBVIOUS
      <4> QED BY <4>1, <4>2 DEF CursorLeads
    <3>3. RingContiguous'
      BY <2>1, <3>1 DEF RingContiguous
    <3>4. RingIsLogTail'
      BY <3>1 DEF RingIsLogTail
    <3> QED BY <3>1, <3>2, <3>3, <3>4 DEF SeqNeverReused
  <2>4. LogBelowSeq'
    <3> SUFFICES ASSUME NEW i \in 1..Len(log) PROVE log[i].seq <= seq'
      BY <1>13 DEF Restart, LogBelowSeq
    <3>1. log[i] \in Frames /\ log[i].seq <= seq
      BY ElementOfSeq DEF TypeOK, LogBelowSeq
    <3>2. log[i].seq \in 0..MaxSeq
      BY <3>1 DEF Frames
    <3> QED BY <3>1, <3>2, <2>1 DEF TypeOK
  <2>5. SnapshotWaiting'
    BY <1>13 DEF Restart, SnapshotWaiting
  <2> QED BY <2>2, <2>3, <2>4, <2>5
<1>14. CASE UNCHANGED vars
  <2>1. TypeOK'
    BY <1>14 DEF vars, TypeOK, cursorVars, streamVars, reseedVars
  <2> QED BY <1>14, <2>1, QuietStep, NoStreamOpens DEF vars, streamVars
<1> QED
  BY <1>1, <1>2, <1>3, <1>4, <1>5, <1>6, <1>7, <1>8, <1>9, <1>10, <1>11, <1>12,
     <1>13, <1>14 DEF Next, AuthorityStep, ReseedStep

-----------------------------------------------------------------------------
(* Type correctness: the authority's state keeps its types for every ring  *)
(* size, channel capacity and number of consumers.                         *)
THEOREM TypeCorrect == Spec => []TypeOK
<1>1. AuthorityInv => TypeOK
  BY DEF AuthorityInv
<1> QED BY <1>1, InitInv, NextInv, PTL DEF Spec

(* Crash safety of the cursor: whatever the process dies in, and however   *)
(* often a persist fails, no published number is published again.          *)
THEOREM NumbersNeverReused == Spec => []SeqNeverReused
<1>1. AuthorityInv => SeqNeverReused
  BY DEF AuthorityInv
<1> QED BY <1>1, InitInv, NextInv, PTL DEF Spec

(* A cursor at or above the low-water mark is not below the ring.          *)
LEMMA ServableAboveRing ==
    ASSUME AuthorityInv, NEW since \in 0..MaxSeq, Servable(since)
    PROVE  /\ seq - Len(ring) <= since /\ since <= seq
           /\ Len(ring) \in Nat /\ seq \in Nat /\ Len(log) \in Nat
<1> USE DEF AuthorityInv
<1>1. /\ Len(ring) \in Nat /\ seq \in Nat /\ Len(log) \in Nat
      /\ ring \in Seq(Frames) /\ since \in Nat
  BY LenProperties, BoundsAssumption DEF TypeOK
<1>2. CASE ring = <<>>
  <2>1. Len(ring) = 0
    BY <1>2
  <2>2. seq <= since /\ since <= seq
    BY <1>2 DEF Servable, lowWater
  <2> QED BY <2>1, <2>2, <1>1
<1>3. CASE ring # <<>>
  <2>1. Len(ring) >= 1
    BY <1>1, <1>3, EmptySeq
  <2>2. ring[1].seq = seq - Len(ring) + 1
    BY <2>1, <1>1 DEF RingContiguous
  <2>3. ring[1].seq - 1 <= since /\ since <= seq
    BY <1>3 DEF Servable, lowWater
  <2> QED BY <2>2, <2>3, <1>1
<1> QED BY <1>2, <1>3

(* The frames the ring keeps for an accepted cursor are those of the log.  *)
LEMMA RingServes == AuthorityInv => RingServesExactly
<1> SUFFICES ASSUME AuthorityInv, NEW since \in 0..MaxSeq, Servable(since)
             PROVE  \E k \in 1..(Len(ring) + 1), m \in 1..(Len(log) + 1) :
                       /\ KeepsFrom(ring, since, k)
                       /\ KeepsFrom(log, since, m)
                       /\ SubSeq(ring, k, Len(ring)) = SubSeq(log, m, Len(log))
                       /\ Len(ring) + 1 - k = seq - since
  BY DEF RingServesExactly
<1> DEFINE n == Len(ring)
           l == Len(log)
           k == since - (seq - n) + 1
           m == l - n + k
<1>1. /\ seq - n <= since /\ since <= seq
      /\ n \in Nat /\ seq \in Nat /\ l \in Nat /\ since \in Nat
  BY ServableAboveRing, BoundsAssumption
<1>2. n <= l /\ n <= seq /\ ring \in Seq(Frames) /\ log \in Seq(Frames)
  BY DEF AuthorityInv, RingIsLogTail, RingContiguous, TypeOK
<1>3. /\ k \in 1..(n + 1) /\ m \in 1..(l + 1)
      /\ n + 1 - k = seq - since /\ l + 1 - m = n + 1 - k
  BY <1>1, <1>2
<1>4. ASSUME NEW j \in 1..n PROVE ring[j].seq = seq - n + j
  BY DEF AuthorityInv, RingContiguous
<1>5. ASSUME NEW j \in 1..n PROVE ring[j] = log[l - n + j]
  BY DEF AuthorityInv, RingIsLogTail
<1>6. KeepsFrom(ring, since, k)
  <2>1. ASSUME NEW j \in 1..n PROVE ring[j].seq > since <=> j >= k
    <3>1. ring[j].seq = seq - n + j
      BY <1>4
    <3>2. (seq - n + j > since) <=> (j >= k)
      BY <1>1
    <3> QED BY <3>1, <3>2
  <2> QED BY <2>1 DEF KeepsFrom
<1>7. KeepsFrom(log, since, m)
  <2>1. ASSUME NEW j \in 1..l PROVE log[j].seq > since <=> j >= m
    <3>1. CASE j > l - n
      <4>1. j - (l - n) \in 1..n /\ l - n + (j - (l - n)) = j
        BY <3>1, <1>1, <1>2
      <4>2. log[j] = ring[j - (l - n)]
        BY <4>1, <1>5
      <4>3. log[j].seq = seq - n + (j - (l - n))
        BY <4>1, <4>2, <1>4
      <4>4. (seq - n + (j - (l - n)) > since) <=> (j >= m)
        BY <1>1, <1>2
      <4> QED BY <4>3, <4>4
    <3>2. CASE j <= l - n
      <4>1. log[j].seq \in Nat
        <5>1. log[j] \in Frames
          BY <1>2, ElementOfSeq
        <5> QED BY <5>1, BoundsAssumption DEF Frames
      <4>2. log[j].seq <= since
        <5>1. CASE n = 0
          <6>1. log[j].seq <= seq
            BY DEF AuthorityInv, LogBelowSeq
          <6> QED BY <5>1, <6>1, <4>1, <1>1
        <5>2. CASE n >= 1
          <6>1. l - n + 1 \in 1..l /\ j < l - n + 1
            BY <3>2, <5>2, <1>1, <1>2
          <6>2. log[j].seq < log[l - n + 1].seq
            BY <6>1 DEF AuthorityInv, SeqNeverReused
          <6>3. 1 \in 1..n
            BY <5>2, <1>1
          <6>4. log[l - n + 1].seq = seq - n + 1
            BY <6>3, <1>4, <1>5
          <6>5. log[j].seq < seq - n + 1
            BY <6>2, <6>4
          <6> QED BY <6>5, <4>1, <1>1
        <5> QED BY <5>1, <5>2, <1>1
      <4>3. ~(j >= m)
        BY <3>2, <1>1, <1>2, <1>3
      <4>4. ~(log[j].seq > since)
        BY <4>1, <4>2, <1>1
      <4> QED BY <4>3, <4>4
    <3> QED BY <3>1, <3>2, <1>1
  <2> QED BY <2>1 DEF KeepsFrom
<1>8. SubSeq(ring, k, n) = SubSeq(log, m, l)
  <2>1. /\ SubSeq(ring, k, n) \in Seq(Frames)
        /\ Len(SubSeq(ring, k, n)) = n + 1 - k
        /\ \A i \in 1..(n + 1 - k) : SubSeq(ring, k, n)[i] = ring[k + i - 1]
    BY <1>2, <1>3, SuffixFacts
  <2>2. /\ SubSeq(log, m, l) \in Seq(Frames)
        /\ Len(SubSeq(log, m, l)) = l + 1 - m
        /\ \A i \in 1..(l + 1 - m) : SubSeq(log, m, l)[i] = log[m + i - 1]
    BY <1>2, <1>3, SuffixFacts
  <2>3. ASSUME NEW i \in 1..(n + 1 - k)
        PROVE  SubSeq(ring, k, n)[i] = SubSeq(log, m, l)[i]
    <3>1. k + i - 1 \in 1..n /\ l - n + (k + i - 1) = m + i - 1
      BY <1>1, <1>2, <1>3
    <3>2. ring[k + i - 1] = log[m + i - 1]
      BY <3>1, <1>5
    <3>3. i \in 1..(l + 1 - m)
      BY <1>3
    <3> QED BY <2>1, <2>2, <3>2, <3>3
  <2>4. Len(SubSeq(ring, k, n)) = Len(SubSeq(log, m, l))
    BY <2>1, <2>2, <1>3
  <2> HIDE DEF k, m
  <2> QED BY <2>1, <2>2, <2>3, <2>4, SeqEqual
<1> QED BY <1>3, <1>6, <1>7, <1>8

(* Resumability: for every cursor StreamSince accepts, the ring's replay   *)
(* is all of what was published above it, whatever the budgets evicted.    *)
THEOREM RingAlwaysServes == Spec => []RingServesExactly
BY RingServes, InitInv, NextInv, PTL DEF Spec

-----------------------------------------------------------------------------
(* The order of the harness's events *)

OrderedLog(l) ==
    \A i, j \in 1..Len(l) :
        i < j /\ l[i].ev # Local /\ l[j].ev # Local => l[i].ev < l[j].ev

(* Events that wait to be published are in order, none is later than the   *)
(* last one emitted, and all are later than the published ones.            *)
Behind(s, l, last) ==
    /\ \A i, j \in 1..Len(s) : i < j => s[i] < s[j]
    /\ \A i \in 1..Len(s) : s[i] <= last
    /\ \A i \in 1..Len(l), j \in 1..Len(s) : l[i].ev < s[j]

(* A reseed buffers and then flushes: outside these phases nothing waits.  *)
BufferPhases ==
    /\ buffering <=> rs \in {"armed", "orphans", "swapped"}
    /\ ~buffering => pending = <<>>
    /\ rs # "flush" => batch = <<>>

Emitted(l, last) == \A i \in 1..Len(l) : l[i].ev <= last

OrderInv ==
    /\ BufferPhases
    /\ Behind(pending, log, emitted)
    /\ Behind(batch, log, emitted)
    /\ Emitted(log, emitted)
    /\ OrderedLog(log)

LEMMA EventTypes ==
    ASSUME NEW l \in Seq(Frames), NEW i \in 1..Len(l)
    PROVE  l[i].ev \in Nat
<1>1. l[i] \in Frames
  BY ElementOfSeq
<1> QED BY <1>1, BoundsAssumption DEF Frames

LEMMA AppendOrdered ==
    ASSUME NEW l \in Seq(Frames), NEW f \in Frames, OrderedLog(l),
           f.ev # Local => \A i \in 1..Len(l) : l[i].ev < f.ev
    PROVE  OrderedLog(Append(l, f))
<1> DEFINE a == Append(l, f)
<1>1. /\ Len(a) = Len(l) + 1 /\ Len(l) \in Nat
      /\ \A i \in 1..Len(l) : a[i] = l[i]
      /\ a[Len(l) + 1] = f
  BY AppendProperties, LenProperties
<1> HIDE DEF a
<1> SUFFICES ASSUME NEW i \in 1..Len(a), NEW j \in 1..Len(a), i < j,
                    a[i].ev # Local, a[j].ev # Local
             PROVE  a[i].ev < a[j].ev
  BY DEF OrderedLog, a
<1>2. i \in 1..Len(l) /\ a[i] = l[i]
  BY <1>1
<1>3. CASE j \in 1..Len(l)
  BY <1>1, <1>2, <1>3 DEF OrderedLog
<1>4. CASE j = Len(l) + 1
  <2>1. a[j] = f
    BY <1>1, <1>4
  <2> QED BY <1>2, <2>1
<1> QED BY <1>1, <1>3, <1>4

LEMMA AppendEmitted ==
    ASSUME NEW l \in Seq(Frames), NEW f \in Frames, NEW last \in Nat, NEW next \in Nat,
           Emitted(l, last), last <= next, f.ev <= next
    PROVE  Emitted(Append(l, f), next)
<1> DEFINE a == Append(l, f)
<1>1. /\ Len(a) = Len(l) + 1 /\ Len(l) \in Nat
      /\ \A i \in 1..Len(l) : a[i] = l[i]
      /\ a[Len(l) + 1] = f
  BY AppendProperties, LenProperties
<1> HIDE DEF a
<1> SUFFICES ASSUME NEW i \in 1..Len(a) PROVE a[i].ev <= next
  BY DEF Emitted, a
<1>2. CASE i \in 1..Len(l)
  <2>1. a[i] = l[i] /\ l[i].ev <= last /\ l[i].ev \in Nat
    BY <1>1, <1>2, EventTypes DEF Emitted
  <2> QED BY <2>1
<1>3. CASE i = Len(l) + 1
  <2>1. a[i] = f
    BY <1>1, <1>3
  <2> QED BY <2>1
<1> QED BY <1>1, <1>2, <1>3

(* A frame is published: what waits still waits behind.                    *)
LEMMA PublishedBehind ==
    ASSUME NEW s \in Seq(1..MaxEvents), NEW l \in Seq(Frames), NEW f \in Frames,
           NEW last \in Nat, NEW next \in Nat,
           Behind(s, l, last), last <= next, \A j \in 1..Len(s) : f.ev < s[j]
    PROVE  Behind(s, Append(l, f), next)
<1> DEFINE a == Append(l, f)
<1>1. /\ Len(a) = Len(l) + 1 /\ Len(l) \in Nat
      /\ \A i \in 1..Len(l) : a[i] = l[i]
      /\ a[Len(l) + 1] = f
  BY AppendProperties, LenProperties
<1> HIDE DEF a
<1>2. ASSUME NEW i \in 1..Len(s) PROVE s[i] <= next
  <2>1. s[i] \in 1..MaxEvents /\ s[i] <= last
    BY ElementOfSeq DEF Behind
  <2> QED BY <2>1, BoundsAssumption
<1>3. ASSUME NEW i \in 1..Len(a), NEW j \in 1..Len(s) PROVE a[i].ev < s[j]
  <2>1. CASE i \in 1..Len(l)
    BY <1>1, <2>1 DEF Behind
  <2>2. CASE i = Len(l) + 1
    <3>1. a[i] = f
      BY <1>1, <2>2
    <3> QED BY <3>1
  <2> QED BY <1>1, <2>1, <2>2
<1> QED BY <1>2, <1>3 DEF Behind, a

(* The first that waits is published, or dropped.                          *)
LEMMA TailBehind ==
    ASSUME NEW s \in Seq(1..MaxEvents), NEW l \in Seq(Frames), NEW last \in Nat,
           Behind(s, l, last), s # <<>>
    PROVE  /\ Behind(Tail(s), l, last)
           /\ Head(s) <= last
           /\ \A i \in 1..Len(l) : l[i].ev < Head(s)
           /\ \A j \in 1..Len(Tail(s)) : Head(s) < Tail(s)[j]
<1>1. /\ Tail(s) \in Seq(1..MaxEvents) /\ Len(Tail(s)) = Len(s) - 1
      /\ Len(s) \in Nat /\ Len(s) >= 1
      /\ \A i \in 1..Len(Tail(s)) : Tail(s)[i] = s[i + 1]
      /\ Head(s) = s[1]
  BY HeadTailProperties, LenProperties, EmptySeq
<1>2. ASSUME NEW i \in 1..Len(Tail(s)) PROVE i + 1 \in 1..Len(s) /\ 1 < i + 1 /\ Tail(s)[i] = s[i + 1]
  BY <1>1
<1>3. 1 \in 1..Len(s)
  BY <1>1
<1>4. \A j \in 1..Len(Tail(s)) : Head(s) < Tail(s)[j]
  BY <1>1, <1>2, <1>3 DEF Behind
<1>5. ASSUME NEW i \in 1..Len(Tail(s)), NEW j \in 1..Len(Tail(s)), i < j
      PROVE  Tail(s)[i] < Tail(s)[j]
  <2>1. i + 1 < j + 1
    BY <1>1, <1>5
  <2> QED BY <2>1, <1>2 DEF Behind
<1> QED BY <1>1, <1>2, <1>3, <1>4, <1>5 DEF Behind

(* The next event emitted waits last.                                      *)
LEMMA AppendBehind ==
    ASSUME NEW s \in Seq(1..MaxEvents), NEW l \in Seq(Frames), NEW last \in Nat,
           last + 1 \in 1..MaxEvents, Behind(s, l, last), Emitted(l, last)
    PROVE  Behind(Append(s, last + 1), l, last + 1)
<1> DEFINE a == Append(s, last + 1)
<1>1. /\ Len(a) = Len(s) + 1 /\ Len(s) \in Nat
      /\ \A i \in 1..Len(s) : a[i] = s[i]
      /\ a[Len(s) + 1] = last + 1
  BY AppendProperties, LenProperties
<1> HIDE DEF a
<1>2. ASSUME NEW i \in 1..Len(s) PROVE a[i] = s[i] /\ s[i] \in Nat /\ s[i] <= last
  <2>1. s[i] \in 1..MaxEvents /\ s[i] <= last
    BY ElementOfSeq DEF Behind
  <2> QED BY <2>1, <1>1, BoundsAssumption
<1>3. ASSUME NEW i \in 1..Len(a) PROVE i \in 1..Len(s) \/ i = Len(s) + 1
  BY <1>1
<1>4. ASSUME NEW i \in 1..Len(a), NEW j \in 1..Len(a), i < j PROVE a[i] < a[j]
  <2>1. i \in 1..Len(s)
    BY <1>1, <1>4
  <2>2. CASE j \in 1..Len(s)
    BY <1>2, <1>4, <2>1, <2>2 DEF Behind
  <2>3. CASE j = Len(s) + 1
    BY <1>1, <1>2, <2>1, <2>3
  <2> QED BY <1>3, <2>2, <2>3
<1>5. ASSUME NEW i \in 1..Len(a) PROVE a[i] <= last + 1
  BY <1>1, <1>2, <1>3
<1>6. ASSUME NEW i \in 1..Len(l), NEW j \in 1..Len(a) PROVE l[i].ev < a[j]
  <2>1. l[i].ev \in Nat /\ l[i].ev <= last
    BY EventTypes DEF Emitted
  <2>2. CASE j \in 1..Len(s)
    BY <1>2, <2>2 DEF Behind
  <2>3. CASE j = Len(s) + 1
    BY <1>1, <2>1, <2>3
  <2> QED BY <1>3, <2>2, <2>3
<1> QED BY <1>4, <1>5, <1>6 DEF Behind, a

(* Time passes: later events only.                                         *)
LEMMA LaterBehind ==
    ASSUME NEW s \in Seq(1..MaxEvents), NEW l \in Seq(Frames), NEW last \in Nat,
           Behind(s, l, last), Emitted(l, last)
    PROVE  Behind(s, l, last + 1) /\ Emitted(l, last + 1)
<1>1. ASSUME NEW i \in 1..Len(s) PROVE s[i] <= last + 1
  <2>1. s[i] \in 1..MaxEvents /\ s[i] <= last
    BY ElementOfSeq DEF Behind
  <2> QED BY <2>1, BoundsAssumption
<1>2. ASSUME NEW i \in 1..Len(l) PROVE l[i].ev <= last + 1
  <2>1. l[i].ev \in Nat /\ l[i].ev <= last
    BY EventTypes DEF Emitted
  <2> QED BY <2>1
<1> QED BY <1>1, <1>2 DEF Behind, Emitted

LEMMA NothingBehind ==
    ASSUME NEW l, NEW last PROVE Behind(<<>>, l, last)
BY DEF Behind

LEMMA LogGrows ==
    ASSUME TypeOK, NEW e \in 0..MaxEvents, applyLocked(e) \/ Publish("reseed", e)
    PROVE  log' = log \/ \E f \in Frames : f.ev = e /\ log' = Append(log, f)
<1>1. ASSUME NEW k \in {"event", "reseed"}, Publish(k, e)
      PROVE  \E f \in Frames : f.ev = e /\ log' = Append(log, f)
  <2>1. seq + 1 \in 0..MaxSeq
    BY <1>1, BoundsAssumption DEF Publish, TypeOK
  <2>2. Frame(k, seq + 1, e) \in Frames /\ Frame(k, seq + 1, e).ev = e
    BY <2>1, FrameType DEF Frame
  <2> QED BY <1>1, <2>2 DEF Publish, fanoutLocked
<1> QED BY <1>1 DEF applyLocked, PersistFails

(* Publishing an event of agentd's own, or the first harness event that is *)
(* not published yet, keeps the order.                                     *)
LEMMA PublishOrdered ==
    ASSUME TypeOK, OrderedLog(log), Emitted(log, emitted),
           NEW e \in 0..MaxEvents, applyLocked(e) \/ Publish("reseed", e),
           e # Local => \A i \in 1..Len(log) : log[i].ev < e,
           emitted' \in Nat, emitted <= emitted', e <= emitted'
    PROVE  /\ OrderedLog(log') /\ Emitted(log', emitted')
           /\ \A s \in Seq(1..MaxEvents) :
                 Behind(s, log, emitted) /\ (\A j \in 1..Len(s) : e < s[j])
                 => Behind(s, log', emitted')
<1>1. log \in Seq(Frames) /\ emitted \in Nat
  BY BoundsAssumption DEF TypeOK
<1>2. CASE log' = log
  <2>1. Emitted(log, emitted')
    <3>1. ASSUME NEW i \in 1..Len(log) PROVE log[i].ev <= emitted'
      <4>1. log[i].ev \in Nat /\ log[i].ev <= emitted
        BY <1>1, EventTypes DEF Emitted
      <4> QED BY <4>1, <1>1
    <3> QED BY <3>1 DEF Emitted
  <2>2. ASSUME NEW s \in Seq(1..MaxEvents), Behind(s, log, emitted)
        PROVE  Behind(s, log, emitted')
    <3>1. ASSUME NEW i \in 1..Len(s) PROVE s[i] <= emitted'
      <4>1. s[i] \in 1..MaxEvents /\ s[i] <= emitted
        BY <2>2, ElementOfSeq DEF Behind
      <4> QED BY <4>1, <1>1, BoundsAssumption
    <3> QED BY <2>2, <3>1 DEF Behind
  <2> QED BY <1>2, <2>1, <2>2
<1>3. ASSUME NEW f \in Frames, f.ev = e, log' = Append(log, f)
      PROVE  /\ OrderedLog(log') /\ Emitted(log', emitted')
             /\ \A s \in Seq(1..MaxEvents) :
                   Behind(s, log, emitted) /\ (\A j \in 1..Len(s) : e < s[j])
                   => Behind(s, log', emitted')
  <2>1. OrderedLog(log')
    BY <1>1, <1>3, AppendOrdered
  <2>2. Emitted(log', emitted')
    BY <1>1, <1>3, AppendEmitted
  <2> QED BY <1>1, <1>3, <2>1, <2>2, PublishedBehind
<1> QED BY <1>2, <1>3, LogGrows

(* Nothing is published and nothing is emitted.                            *)
LEMMA OrderQuiet ==
    ASSUME OrderInv, UNCHANGED <<reseedVars, emitted, log>>
    PROVE  OrderInv'
BY DEF OrderInv, BufferPhases, reseedVars

LEMMA OrderInit == Init => OrderInv
BY NothingBehind DEF Init, OrderInv, BufferPhases, Emitted, OrderedLog

LEMMA OrderStep == AuthorityInv /\ OrderInv /\ [Next]_vars => OrderInv'
<1> SUFFICES ASSUME AuthorityInv, OrderInv, [Next]_vars PROVE OrderInv'
  OBVIOUS
<1>1. /\ TypeOK /\ log \in Seq(Frames) /\ pending \in Seq(1..MaxEvents)
      /\ batch \in Seq(1..MaxEvents) /\ emitted \in Nat
  BY BoundsAssumption DEF AuthorityInv, TypeOK
<1>2. /\ BufferPhases /\ Behind(pending, log, emitted) /\ Behind(batch, log, emitted)
      /\ Emitted(log, emitted) /\ OrderedLog(log)
  BY DEF OrderInv
<1>3. Local \in 0..MaxEvents /\ Local <= emitted
  BY <1>1, BoundsAssumption DEF Local
<1>4. ASSUME NEW s \in Seq(1..MaxEvents) PROVE \A j \in 1..Len(s) : Local < s[j]
  <2>1. ASSUME NEW j \in 1..Len(s) PROVE s[j] \in 1..MaxEvents
    BY ElementOfSeq
  <2> QED BY <2>1, BoundsAssumption DEF Local
(* agentd's own events *)
<1>5. ASSUME applyLocked(Local) \/ Publish("reseed", Local),
             UNCHANGED <<pending, batch, emitted>>, BufferPhases'
      PROVE  OrderInv'
  <2>1. /\ OrderedLog(log') /\ Emitted(log', emitted')
        /\ Behind(pending, log', emitted') /\ Behind(batch, log', emitted')
    BY <1>1, <1>2, <1>3, <1>4, <1>5, PublishOrdered
  <2> QED BY <1>5, <2>1 DEF OrderInv
<1>6. CASE Ingest
  <2>1. /\ emitted' = emitted + 1 /\ emitted + 1 \in 1..MaxEvents /\ emitted' \in Nat
        /\ UNCHANGED <<buffering, batch, rs>> /\ rs # "flush"
    BY <1>1, <1>6, BoundsAssumption DEF Ingest, MuFree
  <2>2. batch = <<>> /\ (~buffering => pending = <<>>)
    BY <1>2, <2>1 DEF BufferPhases
  <2>3. CASE UNCHANGED <<log, pending>>
    <3>1. Behind(pending, log, emitted + 1) /\ Emitted(log, emitted + 1)
      BY <1>1, <1>2, LaterBehind
    <3>2. Behind(batch, log, emitted + 1)
      BY <2>2, NothingBehind
    <3> QED BY <1>2, <2>1, <2>3, <3>1, <3>2 DEF OrderInv, BufferPhases
  <2>4. CASE buffering /\ pending' = Append(pending, emitted + 1) /\ log' = log
    <3>1. Behind(pending', log, emitted + 1) /\ Emitted(log, emitted + 1)
      BY <1>1, <1>2, <2>1, <2>4, AppendBehind, LaterBehind
    <3>2. Behind(batch, log, emitted + 1)
      BY <2>2, NothingBehind
    <3> QED BY <1>2, <2>1, <2>4, <3>1, <3>2 DEF OrderInv, BufferPhases
  <2>5. CASE ~buffering /\ applyLocked(emitted + 1) /\ UNCHANGED pending
    <3>1. \A i \in 1..Len(log) : log[i].ev < emitted + 1
      BY <1>1, <1>2, EventTypes DEF Emitted
    <3>2. /\ emitted + 1 \in 0..MaxEvents /\ emitted <= emitted' /\ emitted + 1 <= emitted'
      BY <1>1, <2>1
    <3>3. OrderedLog(log') /\ Emitted(log', emitted')
      BY <1>1, <1>2, <2>1, <2>5, <3>1, <3>2, PublishOrdered
    <3>4. Behind(pending', log', emitted') /\ Behind(batch', log', emitted')
      BY <2>1, <2>2, <2>5, NothingBehind
    <3> QED BY <1>2, <2>1, <2>5, <3>3, <3>4 DEF OrderInv, BufferPhases
  <2> QED BY <1>6, <2>3, <2>4, <2>5 DEF Ingest
<1>7. CASE ApplyOwn
  <2>1. BufferPhases'
    BY <1>2, <1>7 DEF ApplyOwn, reseedVars, BufferPhases
  <2> QED BY <1>5, <1>7, <2>1 DEF ApplyOwn, reseedVars
<1>8. CASE ReseedArm
  <2>1. BufferPhases' /\ UNCHANGED <<pending, batch, emitted, log>>
    BY <1>2, <1>8 DEF ReseedArm, BufferPhases
  <2> QED BY <1>2, <2>1 DEF OrderInv
<1>9. CASE ReseedSwap
  <2>1. BufferPhases' /\ UNCHANGED <<pending, batch, emitted>>
    BY <1>2, <1>9 DEF ReseedSwap, BufferPhases
  <2> QED BY <1>5, <1>9, <2>1 DEF ReseedSwap, applyLocked
<1>10. CASE ReseedOrphan
  <2>1. BufferPhases' /\ UNCHANGED <<pending, batch, emitted>>
    BY <1>2, <1>10 DEF ReseedOrphan, BufferPhases
  <2>2. CASE applyLocked(Local)
    BY <1>5, <2>1, <2>2
  <2>3. CASE log' = log
    BY <1>2, <2>1, <2>3 DEF OrderInv
  <2> QED BY <1>10, <2>2, <2>3 DEF ReseedOrphan
<1>11. CASE FlushBegin
  <2>1. /\ batch' = pending /\ pending' = <<>> /\ UNCHANGED <<emitted, log>>
        /\ BufferPhases'
    BY <1>2, <1>11 DEF FlushBegin, BufferPhases
  <2> QED BY <1>2, <2>1, NothingBehind DEF OrderInv
<1>12. CASE FlushStep
  <2>1. /\ UNCHANGED <<buffering, pending, emitted>> /\ rs = "flush" /\ pending = <<>>
        /\ BufferPhases'
    BY <1>2, <1>12 DEF FlushStep, BufferPhases
  <2>2. CASE batch # <<>> /\ batch' = Tail(batch) /\ applyLocked(Head(batch))
    <3>1. /\ Behind(Tail(batch), log, emitted) /\ Head(batch) <= emitted
          /\ \A i \in 1..Len(log) : log[i].ev < Head(batch)
          /\ \A j \in 1..Len(Tail(batch)) : Head(batch) < Tail(batch)[j]
      BY <1>1, <1>2, <2>2, TailBehind
    <3>2. Tail(batch) \in Seq(1..MaxEvents) /\ Head(batch) \in 0..MaxEvents
      BY <1>1, <2>2, HeadTailProperties, BoundsAssumption
    <3>3. emitted' \in Nat /\ emitted <= emitted' /\ Head(batch) <= emitted'
      BY <1>1, <2>1, <3>1
    <3>4. /\ OrderedLog(log') /\ Emitted(log', emitted')
          /\ Behind(Tail(batch), log', emitted')
      BY <1>1, <1>2, <2>2, <3>1, <3>2, <3>3, PublishOrdered
    <3> QED BY <2>1, <2>2, <3>4, NothingBehind DEF OrderInv
  <2>3. CASE UNCHANGED <<batch, log>>
    BY <1>2, <2>1, <2>3 DEF OrderInv
  <2> QED BY <1>12, <2>2, <2>3 DEF FlushStep
<1>13. ASSUME NEW c \in Subs,
              \/ Stream(c) \/ SendSnapshot(c) \/ Pump(c) \/ dropSub(c)
              \/ \E since \in 0..MaxSeq : StreamSince(c, since)
       PROVE  OrderInv'
  <2>1. UNCHANGED <<reseedVars, emitted, log>>
    BY <1>13 DEF Stream, SendSnapshot, StreamSince, Pump, dropSub
  <2> QED BY <2>1, OrderQuiet
<1>14. CASE Restart
  <2>1. /\ batch' = <<>> /\ pending' = <<>> /\ UNCHANGED <<emitted, log>>
        /\ BufferPhases'
    BY <1>14 DEF Restart, BufferPhases
  <2> QED BY <1>2, <2>1, NothingBehind DEF OrderInv
<1>15. CASE UNCHANGED vars
  BY <1>15, OrderQuiet DEF vars
<1>16. CASE AuthorityStep
  BY <1>6, <1>7, <1>8, <1>9, <1>10, <1>11, <1>12, <1>16 DEF AuthorityStep, ReseedStep
<1> QED BY <1>13, <1>14, <1>15, <1>16 DEF Next

(* Harness events leave in the order in which they were emitted, whether   *)
(* they went straight through Ingest or waited for a reseed's flush, over  *)
(* any number of reseeds, failed persists and restarts; a reseed that has  *)
(* ended has left nothing in the buffer.                                   *)
THEOREM EventsKeepOrder == Spec => []HarnessOrder
<1>1. Init => AuthorityInv /\ OrderInv
  BY InitInv, OrderInit
<1>2. (AuthorityInv /\ OrderInv) /\ [Next]_vars => (AuthorityInv /\ OrderInv)'
  BY NextInv, OrderStep
<1>3. OrderInv => HarnessOrder
  BY DEF OrderInv, BufferPhases, OrderedLog, HarnessOrder
<1> QED BY <1>1, <1>2, <1>3, PTL DEF Spec

-----------------------------------------------------------------------------
(* The authority with its consumers *)

(* The frames of a channel: consecutive numbers above b, and a snapshot in *)
(* place p, or none when p is behind the last.                             *)
Numbered(s, b, p) ==
    /\ p \in 1..(Len(s) + 1)
    /\ \A i \in 1..Len(s) :
          /\ i < p => s[i].kind # "snapshot" /\ s[i].seq = b + i
          /\ i = p => s[i].kind = "snapshot"
          /\ i > p => s[i].kind # "snapshot" /\ s[i].seq = b + i - 1

End(s, b, p) == IF p <= Len(s) THEN b + Len(s) - 1 ELSE b + Len(s)

(* ... and while fan-out reaches the channel, they end at the latest.      *)
Carries(c, s, b, p) ==
    /\ Numbered(s, b, p)
    /\ End(s, b, p) <= seq
    /\ c \in subs => seq = End(s, b, p)

ClosedIsEmpty(c) ==
    conn[c] \in {"none", "fallback"} => c \notin subs /\ rep[c] = <<>> /\ ch[c] = <<>>

OpeningHolds(c) ==
    /\ conn[c] = "opening" => \E n \in 0..MaxSeq : rep[c] = <<Frame("snapshot", n, Local)>>
    /\ conn[c] = "live" => rep[c] = <<>>
    /\ up[c] /\ conn[c] \in {"fallback", "opening"} => ~seeded[c]

(* A resumed connection carries what follows the cursor.                   *)
ResumedRuns(c) ==
    up[c] /\ conn[c] = "resumed" =>
        Carries(c, Outgoing(c), cur[c], Len(Outgoing(c)) + 1)

(* A stamped connection carries what follows the stamp, which is not below *)
(* the cursor ...                                                          *)
StampedRuns(c) ==
    /\ up[c] /\ conn[c] = "opening" =>
          /\ cur[c] <= rep[c][1].seq
          /\ Carries(c, ch[c], rep[c][1].seq, Len(ch[c]) + 1)
    /\ up[c] /\ conn[c] = "live" /\ ~seeded[c] =>
          \E p \in 1..Len(ch[c]) :
             cur[c] <= ch[c][p].seq /\ Carries(c, ch[c], ch[c][p].seq, p)

(* ... and once it is seeded, what follows the cursor.                     *)
SeededRuns(c) ==
    up[c] /\ conn[c] = "live" /\ seeded[c] =>
        \E p \in 1..(Len(ch[c]) + 1) : Carries(c, ch[c], cur[c], p)

AppliedBelow(c) ==
    /\ cur[c] <= seq
    /\ \A i \in 1..Len(applied[c]) : applied[c][i] <= cur[c]
    /\ \A i, j \in 1..Len(applied[c]) : i < j => applied[c][i] < applied[c][j]

LinkInv(c) ==
    ClosedIsEmpty(c) /\ OpeningHolds(c) /\ ResumedRuns(c) /\ StampedRuns(c) /\ SeededRuns(c)

(* Snapshots are not published.                                            *)
LogKinds == \A i \in 1..Len(log) : log[i].kind # "snapshot"

SyncInv ==
    /\ AuthorityInv
    /\ LogKinds
    /\ SyncTypeOK
    /\ \A c \in Subs : LinkInv(c) /\ AppliedBelow(c)

LEMMA NumberedEmpty ==
    ASSUME NEW b \in Nat
    PROVE  Numbered(<<>>, b, 1) /\ End(<<>>, b, 1) = b
BY DEF Numbered, End

(* Fan-out appends the next number.                                        *)
LEMMA NumberedAppend ==
    ASSUME NEW s \in Seq(Frames), NEW b \in Nat, NEW p \in Nat, Numbered(s, b, p),
           NEW f \in Frames, f.kind # "snapshot", f.seq = End(s, b, p) + 1,
           NEW q \in Nat, q = IF p <= Len(s) THEN p ELSE p + 1
    PROVE  Numbered(Append(s, f), b, q) /\ End(Append(s, f), b, q) = End(s, b, p) + 1
<1> DEFINE a == Append(s, f)
<1>1. /\ Len(a) = Len(s) + 1 /\ Len(s) \in Nat
      /\ \A i \in 1..Len(s) : a[i] = s[i]
      /\ a[Len(s) + 1] = f
  BY AppendProperties, LenProperties
<1> HIDE DEF a
<1>2. p \in 1..(Len(s) + 1)
  BY DEF Numbered
<1>3. q \in 1..(Len(a) + 1) /\ End(a, b, q) = End(s, b, p) + 1
  BY <1>1, <1>2 DEF End
<1>4. ASSUME NEW i \in 1..Len(a)
      PROVE  /\ i < q => a[i].kind # "snapshot" /\ a[i].seq = b + i
             /\ i = q => a[i].kind = "snapshot"
             /\ i > q => a[i].kind # "snapshot" /\ a[i].seq = b + i - 1
  <2>1. CASE i \in 1..Len(s)
    <3>1. a[i] = s[i] /\ (i < q <=> i < p) /\ (i = q <=> i = p) /\ (i > q <=> i > p)
      BY <1>1, <1>2, <2>1
    <3> QED BY <2>1, <3>1 DEF Numbered
  <2>2. CASE i = Len(s) + 1
    <3>1. a[i] = f /\ i # q
      BY <1>1, <1>2, <2>2
    <3> QED BY <1>1, <1>2, <2>2, <3>1 DEF End
  <2> QED BY <1>1, <2>1, <2>2
<1> QED BY <1>3, <1>4 DEF Numbered, a

(* The pump takes the first frame.                                         *)
LEMMA NumberedTail ==
    ASSUME NEW s \in Seq(Frames), NEW b \in Nat, NEW p \in Nat, Numbered(s, b, p), s # <<>>
    PROVE  /\ Head(s) = s[1] /\ Head(s) \in Frames
           /\ Tail(s) \in Seq(Frames) /\ Len(Tail(s)) = Len(s) - 1
           /\ p > 1 => /\ Head(s).kind # "snapshot" /\ Head(s).seq = b + 1
                       /\ p - 1 \in 1..(Len(Tail(s)) + 1)
                       /\ \A i \in 1..Len(Tail(s)) : Tail(s)[i] = s[i + 1]
                       /\ Numbered(Tail(s), b + 1, p - 1)
                       /\ End(Tail(s), b + 1, p - 1) = End(s, b, p)
           /\ p = 1 => /\ Head(s).kind = "snapshot"
                       /\ Numbered(Tail(s), b, Len(Tail(s)) + 1)
                       /\ End(Tail(s), b, Len(Tail(s)) + 1) = End(s, b, p)
<1> DEFINE t == Tail(s)
<1>1. /\ t \in Seq(Frames) /\ Len(t) = Len(s) - 1
      /\ Len(s) \in Nat /\ Len(s) >= 1
      /\ \A i \in 1..Len(t) : t[i] = s[i + 1]
      /\ Head(s) = s[1] /\ Head(s) \in Frames
  BY HeadTailProperties, LenProperties, EmptySeq
<1> HIDE DEF t
<1>2. 1 \in 1..Len(s) /\ p \in 1..(Len(s) + 1)
  BY <1>1 DEF Numbered
<1>3. ASSUME NEW i \in 1..Len(t) PROVE i + 1 \in 1..Len(s) /\ t[i] = s[i + 1]
  BY <1>1
<1>4. CASE p > 1
  <2>1. Head(s).kind # "snapshot" /\ Head(s).seq = b + 1
    BY <1>1, <1>2, <1>4 DEF Numbered
  <2>2. p - 1 \in 1..(Len(t) + 1) /\ End(t, b + 1, p - 1) = End(s, b, p)
    BY <1>1, <1>2, <1>4 DEF End
  <2>3. ASSUME NEW i \in 1..Len(t)
        PROVE  /\ i < p - 1 => t[i].kind # "snapshot" /\ t[i].seq = (b + 1) + i
               /\ i = p - 1 => t[i].kind = "snapshot"
               /\ i > p - 1 => t[i].kind # "snapshot" /\ t[i].seq = (b + 1) + i - 1
    <3>1. /\ i < p - 1 <=> i + 1 < p
          /\ i = p - 1 <=> i + 1 = p
          /\ i > p - 1 <=> i + 1 > p
          /\ b + (i + 1) = (b + 1) + i /\ b + (i + 1) - 1 = (b + 1) + i - 1
      BY <1>1, <1>2
    <3> QED BY <1>3, <3>1 DEF Numbered
  <2>4. Numbered(t, b + 1, p - 1)
    BY <2>2, <2>3 DEF Numbered
  <2> QED BY <1>1, <1>4, <2>1, <2>2, <2>4 DEF t
<1>5. CASE p = 1
  <2>1. Head(s).kind = "snapshot"
    BY <1>1, <1>2, <1>5 DEF Numbered
  <2>2. Len(t) + 1 \in 1..(Len(t) + 1) /\ End(t, b, Len(t) + 1) = End(s, b, p)
    BY <1>1, <1>2, <1>5 DEF End
  <2>3. ASSUME NEW i \in 1..Len(t)
        PROVE  i < Len(t) + 1 /\ t[i].kind # "snapshot" /\ t[i].seq = b + i
    <3>1. i + 1 > p /\ b + (i + 1) - 1 = b + i /\ i < Len(t) + 1
      BY <1>1, <1>5
    <3> QED BY <1>3, <3>1 DEF Numbered
  <2>4. Numbered(t, b, Len(t) + 1)
    BY <1>1, <2>2, <2>3 DEF Numbered
  <2> QED BY <1>1, <1>5, <2>1, <2>2, <2>4 DEF t
<1> QED BY <1>2, <1>4, <1>5

(* The snapshot goes behind what fan-out has put there.                    *)
LEMMA NumberedSnapshot ==
    ASSUME NEW s \in Seq(Frames), NEW b \in Nat, Numbered(s, b, Len(s) + 1),
           NEW f \in Frames, f.kind = "snapshot"
    PROVE  /\ Len(s) + 1 \in 1..Len(Append(s, f))
           /\ Append(s, f)[Len(s) + 1] = f
           /\ Numbered(Append(s, f), b, Len(s) + 1)
           /\ End(Append(s, f), b, Len(s) + 1) = End(s, b, Len(s) + 1)
<1> DEFINE a == Append(s, f)
<1>1. /\ Len(a) = Len(s) + 1 /\ Len(s) \in Nat
      /\ \A i \in 1..Len(s) : a[i] = s[i]
      /\ a[Len(s) + 1] = f
  BY AppendProperties, LenProperties
<1> HIDE DEF a
<1>2. ASSUME NEW i \in 1..Len(a)
      PROVE  /\ i < Len(s) + 1 => a[i].kind # "snapshot" /\ a[i].seq = b + i
             /\ i = Len(s) + 1 => a[i].kind = "snapshot"
             /\ ~(i > Len(s) + 1)
  <2>1. CASE i \in 1..Len(s)
    BY <1>1, <2>1 DEF Numbered
  <2>2. CASE i = Len(s) + 1
    BY <1>1, <2>2
  <2> QED BY <1>1, <2>1, <2>2
<1>3. Numbered(a, b, Len(s) + 1)
  BY <1>1, <1>2 DEF Numbered
<1>4. End(a, b, Len(s) + 1) = End(s, b, Len(s) + 1)
  BY <1>1 DEF End
<1> QED BY <1>1, <1>3, <1>4 DEF a

LEMMA ConcatAppend ==
    ASSUME NEW r \in Seq(Frames), NEW s \in Seq(Frames), NEW f \in Frames
    PROVE  r \o Append(s, f) = Append(r \o s, f)
<1>1. /\ r \o s \in Seq(Frames) /\ Append(s, f) \in Seq(Frames)
      /\ Len(r) \in Nat /\ Len(s) \in Nat
      /\ Len(Append(s, f)) = Len(s) + 1
      /\ Len(r \o s) = Len(r) + Len(s)
  BY ConcatProperties, AppendProperties, LenProperties
<1>2. /\ r \o Append(s, f) \in Seq(Frames) /\ Append(r \o s, f) \in Seq(Frames)
      /\ Len(r \o Append(s, f)) = Len(r) + Len(s) + 1
      /\ Len(Append(r \o s, f)) = Len(r) + Len(s) + 1
  BY <1>1, ConcatProperties, AppendProperties
<1>3. ASSUME NEW i \in 1..(Len(r) + Len(s) + 1)
      PROVE  (r \o Append(s, f))[i] = Append(r \o s, f)[i]
  <2>1. CASE i <= Len(r)
    BY <1>1, <2>1, ConcatProperties, AppendProperties
  <2>2. CASE i > Len(r) /\ i <= Len(r) + Len(s)
    <3>1. (r \o Append(s, f))[i] = Append(s, f)[i - Len(r)] /\ i - Len(r) \in 1..Len(s)
      BY <1>1, <2>2, ConcatProperties
    <3>2. Append(r \o s, f)[i] = (r \o s)[i] /\ (r \o s)[i] = s[i - Len(r)]
      BY <1>1, <2>2, ConcatProperties, AppendProperties
    <3> QED BY <3>1, <3>2, AppendProperties
  <2>3. CASE i = Len(r) + Len(s) + 1
    <3>1. (r \o Append(s, f))[i] = Append(s, f)[Len(s) + 1]
      BY <1>1, <2>3, ConcatProperties
    <3> QED BY <1>1, <2>3, <3>1, AppendProperties
  <2> QED BY <1>1, <2>1, <2>2, <2>3
<1> QED BY <1>2, <1>3, SeqEqual

LEMMA ConcatTail ==
    ASSUME NEW r \in Seq(Frames), NEW s \in Seq(Frames)
    PROVE  /\ r \o s \in Seq(Frames)
           /\ r = <<>> => r \o s = s
           /\ r # <<>> => Tail(r) \o s = Tail(r \o s) /\ Head(r \o s) = Head(r) /\ r \o s # <<>>
<1>1. r \o s \in Seq(Frames) /\ Len(r \o s) = Len(r) + Len(s) /\ Len(r) \in Nat /\ Len(s) \in Nat
  BY ConcatProperties, LenProperties
<1>2. CASE r = <<>>
  BY <1>1, <1>2, ConcatEmptySeq
<1>3. CASE r # <<>>
  <2>1. /\ Tail(r) \in Seq(Frames) /\ Len(Tail(r)) = Len(r) - 1 /\ Len(r) >= 1
        /\ \A i \in 1..Len(Tail(r)) : Tail(r)[i] = r[i + 1]
        /\ Head(r) = r[1]
    BY <1>1, <1>3, HeadTailProperties, EmptySeq
  <2>2. r \o s # <<>>
    BY <1>1, <2>1, EmptySeq
  <2>3. /\ Tail(r \o s) \in Seq(Frames) /\ Len(Tail(r \o s)) = Len(r) + Len(s) - 1
        /\ \A i \in 1..Len(Tail(r \o s)) : Tail(r \o s)[i] = (r \o s)[i + 1]
        /\ Head(r \o s) = (r \o s)[1]
    BY <1>1, <2>2, HeadTailProperties
  <2>4. (r \o s)[1] = r[1]
    BY <1>1, <2>1, ConcatProperties
  <2>5. Tail(r) \o s \in Seq(Frames) /\ Len(Tail(r) \o s) = Len(r) + Len(s) - 1
    BY <1>1, <2>1, ConcatProperties
  <2>6. ASSUME NEW i \in 1..(Len(r) + Len(s) - 1)
        PROVE  (Tail(r) \o s)[i] = Tail(r \o s)[i]
    <3>1. Tail(r \o s)[i] = (r \o s)[i + 1]
      BY <2>3, <2>6
    <3>2. CASE i <= Len(r) - 1
      <4>1. (Tail(r) \o s)[i] = Tail(r)[i] /\ (r \o s)[i + 1] = r[i + 1]
        BY <1>1, <2>1, <3>2, ConcatProperties
      <4> QED BY <1>1, <2>1, <3>1, <3>2, <4>1
    <3>3. CASE i > Len(r) - 1
      <4>1. (Tail(r) \o s)[i] = s[i - (Len(r) - 1)] /\ (r \o s)[i + 1] = s[i + 1 - Len(r)]
        BY <1>1, <2>1, <3>3, ConcatProperties
      <4> QED BY <1>1, <3>1, <4>1
    <3> QED BY <1>1, <3>2, <3>3
  <2>7. Tail(r) \o s = Tail(r \o s)
    BY <2>3, <2>5, <2>6, SeqEqual
  <2> QED BY <1>1, <1>3, <2>1, <2>2, <2>3, <2>4, <2>7
<1> QED BY <1>2, <1>3

LEMMA LogKindsStep ==
    ASSUME TypeOK, LogKinds, [Next]_vars
    PROVE  LogKinds'
<1>1. CASE log' = log
  BY <1>1 DEF LogKinds
<1>2. ASSUME NEW k \in {"event", "reseed"}, NEW e, Publish(k, e) PROVE LogKinds'
  <2> DEFINE f == Frame(k, seq + 1, e)
  <2>1. log' = Append(log, f) /\ f.kind # "snapshot"
    BY <1>2 DEF Publish, fanoutLocked, Frame
  <2>2. log \in Seq(Frames) /\ Len(log) \in Nat
    BY LenProperties DEF TypeOK
  <2> HIDE DEF f
  <2>3. /\ Len(log') = Len(log) + 1
        /\ \A i \in 1..Len(log) : log'[i] = log[i]
        /\ log'[Len(log) + 1] = f
    BY <2>1, <2>2
  <2> QED BY <2>1, <2>2, <2>3 DEF LogKinds
<1>3. ASSUME NEW e, applyLocked(e) PROVE LogKinds'
  BY <1>1, <1>2, <1>3 DEF applyLocked, PersistFails
<1>4. CASE AuthorityStep
  BY <1>1, <1>2, <1>3, <1>4
     DEF AuthorityStep, Ingest, ApplyOwn, ReseedArm, ReseedStep, ReseedSwap, PersistFails,
         ReseedOrphan, FlushBegin, FlushStep
<1>5. CASE Restart \/ UNCHANGED vars
  BY <1>1, <1>5 DEF Restart, vars
<1>6. ASSUME NEW c \in Subs,
             \/ Stream(c) \/ SendSnapshot(c) \/ Pump(c) \/ dropSub(c)
             \/ \E since \in 0..MaxSeq : StreamSince(c, since)
      PROVE  LogKinds'
  BY <1>1, <1>6 DEF Stream, SendSnapshot, StreamSince, Pump, dropSub
<1> QED BY <1>4, <1>5, <1>6 DEF Next

(* A step of the authority with its consumers is one of the authority.     *)
LEMMA SyncIsAuthority ==
    ASSUME SyncTypeOK, [SyncNext]_syncVars
    PROVE  [Next]_vars
<1>1. ASSUME NEW c \in Subs, Dial(c) PROVE Next
  <2>1. cur[c] \in 0..MaxSeq
    BY DEF SyncTypeOK
  <2>2. StreamSince(c, cur[c]) \/ Stream(c)
    BY <1>1 DEF Dial
  <2> QED BY <2>1, <2>2 DEF Next
<1>2. ASSUME NEW c \in Subs, Receive(c) \/ ServerDrop(c) \/ ServerOpens(c) PROVE Next
  <2>1. Pump(c) \/ dropSub(c) \/ Stream(c) \/ SendSnapshot(c)
    BY <1>2 DEF Receive, ServerDrop, ServerOpens
  <2> QED BY <2>1 DEF Next
<1>3. ASSUME NEW c \in Subs, StreamEnds(c) \/ ConnectionLost(c) PROVE UNCHANGED vars
  BY <1>3 DEF StreamEnds, ConnectionLost
<1>4. CASE UNCHANGED syncVars
  BY <1>4 DEF syncVars
<1>5. CASE Crash
  BY <1>5 DEF Crash, Next
<1>6. CASE AuthorityStep
  BY <1>6 DEF Next
<1> QED BY <1>1, <1>2, <1>3, <1>4, <1>5, <1>6 DEF SyncNext

-----------------------------------------------------------------------------
SameLink(d) ==
    /\ conn'[d] = conn[d] /\ ch'[d] = ch[d] /\ rep'[d] = rep[d]
    /\ up'[d] = up[d] /\ seeded'[d] = seeded[d] /\ cur'[d] = cur[d]

LEMMA KeepsLink ==
    ASSUME NEW d \in Subs, LinkInv(d), SameLink(d),
           d \in subs' => d \in subs, seq' = seq
    PROVE  LinkInv(d)'
BY DEF LinkInv, SameLink, ClosedIsEmpty, OpeningHolds, ResumedRuns, StampedRuns, SeededRuns,
       Carries, Outgoing

LEMMA LinkTypes ==
    ASSUME TypeOK, NEW d \in Subs
    PROVE  /\ ch[d] \in Seq(Frames) /\ rep[d] \in Seq(Frames) /\ Outgoing(d) \in Seq(Frames)
           /\ Len(ch[d]) \in Nat /\ Len(Outgoing(d)) \in Nat /\ seq \in Nat
           /\ \A p \in 1..Len(ch[d]) : ch[d][p] \in Frames /\ ch[d][p].seq \in Nat
<1>1. ch[d] \in Seq(Frames) /\ rep[d] \in Seq(Frames) /\ seq \in Nat
  BY BoundsAssumption DEF TypeOK
<1>2. Outgoing(d) \in Seq(Frames)
  BY <1>1, ConcatProperties DEF Outgoing
<1>3. ASSUME NEW p \in 1..Len(ch[d]) PROVE ch[d][p] \in Frames /\ ch[d][p].seq \in Nat
  <2>1. ch[d][p] \in Frames
    BY <1>1, ElementOfSeq
  <2> QED BY <2>1, BoundsAssumption DEF Frames
<1> QED BY <1>1, <1>2, <1>3, LenProperties

LEMMA StampType ==
    ASSUME NEW d \in Subs, OpeningHolds(d), conn[d] = "opening"
    PROVE  /\ rep[d][1] \in Frames /\ rep[d][1].kind = "snapshot"
           /\ rep[d][1].seq \in 0..MaxSeq /\ rep[d][1].seq \in Nat
<1>1. PICK n \in 0..MaxSeq : rep[d] = <<Frame("snapshot", n, Local)>>
  BY DEF OpeningHolds
<1>2. rep[d][1] = Frame("snapshot", n, Local) /\ Local \in 0..MaxEvents
  BY <1>1, BoundsAssumption DEF Local
<1> QED BY <1>2, FrameType, BoundsAssumption DEF Frame

LEMMA CarriedEnd ==
    ASSUME NEW d, NEW s \in Seq(Frames), NEW b \in Nat, NEW p \in Nat, Carries(d, s, b, p)
    PROVE  Numbered(s, b, p) /\ End(s, b, p) \in Nat /\ End(s, b, p) <= seq /\ b <= End(s, b, p)
<1>1. Len(s) \in Nat /\ p \in 1..(Len(s) + 1)
  BY LenProperties DEF Carries, Numbered
<1> QED BY <1>1 DEF Carries, End

(* A channel that fan-out no longer reaches may fall behind.               *)
LEMMA LeftBehind ==
    ASSUME TypeOK, NEW d \in Subs, LinkInv(d), SameLink(d), cur[d] \in Nat,
           d \notin subs', seq' = seq + 1
    PROVE  LinkInv(d)'
<1>1. ASSUME NEW s \in Seq(Frames), NEW b \in Nat, NEW p \in Nat, Carries(d, s, b, p)
      PROVE  Numbered(s, b, p) /\ End(s, b, p) <= seq'
  BY <1>1, CarriedEnd, LinkTypes
<1>2. ClosedIsEmpty(d)' /\ OpeningHolds(d)'
  BY DEF LinkInv, ClosedIsEmpty, OpeningHolds, SameLink
<1>3. ResumedRuns(d)'
  <2> SUFFICES ASSUME up[d], conn[d] = "resumed"
               PROVE  Carries(d, Outgoing(d), cur[d], Len(Outgoing(d)) + 1)'
    BY DEF ResumedRuns, SameLink
  <2>1. Carries(d, Outgoing(d), cur[d], Len(Outgoing(d)) + 1)
    BY DEF LinkInv, ResumedRuns
  <2>2. Len(Outgoing(d)) + 1 \in Nat /\ Outgoing(d) \in Seq(Frames)
    BY LinkTypes
  <2>3. Outgoing(d)' = Outgoing(d) /\ cur'[d] = cur[d]
    BY DEF SameLink, Outgoing
  <2> QED BY <1>1, <2>1, <2>2, <2>3 DEF Carries
<1>4. StampedRuns(d)'
  <2>1. ASSUME up[d], conn[d] = "opening"
        PROVE  cur'[d] <= rep'[d][1].seq /\ Carries(d, ch[d], rep[d][1].seq, Len(ch[d]) + 1)'
    <3>1. /\ cur[d] <= rep[d][1].seq
          /\ Carries(d, ch[d], rep[d][1].seq, Len(ch[d]) + 1)
      BY <2>1 DEF LinkInv, StampedRuns
    <3>2. Len(ch[d]) + 1 \in Nat /\ ch[d] \in Seq(Frames) /\ rep[d][1].seq \in Nat
      BY <2>1, LinkTypes, StampType DEF LinkInv
    <3>3. Numbered(ch[d], rep[d][1].seq, Len(ch[d]) + 1)
          /\ End(ch[d], rep[d][1].seq, Len(ch[d]) + 1) <= seq'
      BY <1>1, <3>1, <3>2
    <3> QED BY <3>1, <3>3 DEF Carries, SameLink
  <2>2. ASSUME up[d], conn[d] = "live", ~seeded[d]
        PROVE  \E p \in 1..Len(ch'[d]) :
                  cur'[d] <= ch'[d][p].seq /\ Carries(d, ch[d], ch[d][p].seq, p)'
    <3>1. PICK p \in 1..Len(ch[d]) :
             cur[d] <= ch[d][p].seq /\ Carries(d, ch[d], ch[d][p].seq, p)
      BY <2>2 DEF LinkInv, StampedRuns
    <3>2. p \in Nat /\ ch[d] \in Seq(Frames) /\ ch[d][p].seq \in Nat
      BY LinkTypes
    <3>3. Numbered(ch[d], ch[d][p].seq, p) /\ End(ch[d], ch[d][p].seq, p) <= seq'
      BY <1>1, <3>1, <3>2
    <3> QED BY <3>1, <3>3 DEF Carries, SameLink
  <2> QED BY <2>1, <2>2 DEF StampedRuns, SameLink
<1>5. SeededRuns(d)'
  <2> SUFFICES ASSUME up[d], conn[d] = "live", seeded[d]
               PROVE  \E p \in 1..(Len(ch'[d]) + 1) : Carries(d, ch[d], cur[d], p)'
    BY DEF SeededRuns, SameLink
  <2>1. PICK p \in 1..(Len(ch[d]) + 1) : Carries(d, ch[d], cur[d], p)
    BY DEF LinkInv, SeededRuns
  <2>2. p \in Nat /\ ch[d] \in Seq(Frames)
    BY LinkTypes
  <2>3. Numbered(ch[d], cur[d], p) /\ End(ch[d], cur[d], p) <= seq'
    BY <1>1, <2>1, <2>2
  <2> QED BY <2>1, <2>3 DEF Carries, SameLink
<1> QED BY <1>2, <1>3, <1>4, <1>5 DEF LinkInv

(* Fan-out reaches the channel.                                            *)
LEMMA FannedOut ==
    ASSUME TypeOK, NEW d \in Subs, LinkInv(d), cur[d] \in Nat,
           NEW f \in Frames, f.kind # "snapshot", f.seq = seq + 1,
           d \in subs, seq' = seq + 1, ch'[d] = Append(ch[d], f),
           conn'[d] = conn[d], rep'[d] = rep[d],
           up'[d] = up[d], seeded'[d] = seeded[d], cur'[d] = cur[d]
    PROVE  LinkInv(d)'
<1>1. ASSUME NEW s \in Seq(Frames), NEW b \in Nat, NEW p \in Nat, Carries(d, s, b, p),
             NEW q \in Nat, q = IF p <= Len(s) THEN p ELSE p + 1
      PROVE  Numbered(Append(s, f), b, q) /\ End(Append(s, f), b, q) = seq + 1
  <2>1. Numbered(s, b, p) /\ f.seq = End(s, b, p) + 1 /\ seq = End(s, b, p)
    BY <1>1 DEF Carries
  <2> QED BY <1>1, <2>1, NumberedAppend
<1>2. ClosedIsEmpty(d)' /\ OpeningHolds(d)'
  BY DEF LinkInv, ClosedIsEmpty, OpeningHolds
<1>3. /\ ch[d] \in Seq(Frames) /\ Len(ch[d]) \in Nat /\ Len(ch'[d]) = Len(ch[d]) + 1
      /\ \A i \in 1..Len(ch[d]) : ch'[d][i] = ch[d][i]
      /\ seq \in Nat /\ seq' <= seq'
  BY LinkTypes, AppendProperties
<1>4. ResumedRuns(d)'
  <2> SUFFICES ASSUME up[d], conn[d] = "resumed"
               PROVE  Carries(d, Outgoing(d), cur[d], Len(Outgoing(d)) + 1)'
    BY DEF ResumedRuns
  <2>1. Carries(d, Outgoing(d), cur[d], Len(Outgoing(d)) + 1)
    BY DEF LinkInv, ResumedRuns
  <2>2. /\ Len(Outgoing(d)) \in Nat /\ Outgoing(d) \in Seq(Frames)
        /\ Outgoing(d)' = Append(Outgoing(d), f)
    <3>1. Outgoing(d)' = rep[d] \o Append(ch[d], f)
      BY DEF Outgoing
    <3>2. Outgoing(d)' = Append(rep[d] \o ch[d], f)
      BY <3>1, LinkTypes, ConcatAppend
    <3> QED BY <3>2, LinkTypes DEF Outgoing
  <2>3. Len(Outgoing(d)') + 1 = Len(Outgoing(d)) + 2 /\ Len(Outgoing(d)) + 2 \in Nat
    BY <2>2, AppendProperties
  <2>4. /\ Numbered(Append(Outgoing(d), f), cur[d], Len(Outgoing(d)) + 2)
        /\ End(Append(Outgoing(d), f), cur[d], Len(Outgoing(d)) + 2) = seq + 1
    <3>1. /\ Len(Outgoing(d)) + 1 \in Nat
          /\ Len(Outgoing(d)) + 2 = IF Len(Outgoing(d)) + 1 <= Len(Outgoing(d))
                                   THEN Len(Outgoing(d)) + 1 ELSE (Len(Outgoing(d)) + 1) + 1
      BY <2>2
    <3> QED BY <1>1, <2>1, <2>2, <2>3, <3>1
  <2> QED BY <1>3, <2>2, <2>3, <2>4 DEF Carries
<1>5. StampedRuns(d)'
  <2>1. ASSUME up[d], conn[d] = "opening"
        PROVE  /\ cur'[d] <= rep'[d][1].seq
               /\ Carries(d, ch[d], rep[d][1].seq, Len(ch[d]) + 1)'
    <3>1. /\ cur[d] <= rep[d][1].seq
          /\ Carries(d, ch[d], rep[d][1].seq, Len(ch[d]) + 1)
      BY <2>1 DEF LinkInv, StampedRuns
    <3>2. rep[d][1].seq \in Nat
      BY <2>1, StampType DEF LinkInv
    <3>3. /\ Len(ch[d]) + 1 \in Nat /\ Len(ch[d]) + 2 \in Nat
          /\ Len(ch[d]) + 2 = IF Len(ch[d]) + 1 <= Len(ch[d])
                              THEN Len(ch[d]) + 1 ELSE (Len(ch[d]) + 1) + 1
          /\ Len(ch'[d]) + 1 = Len(ch[d]) + 2
      BY <1>3
    <3>4. /\ Numbered(Append(ch[d], f), rep[d][1].seq, Len(ch[d]) + 2)
          /\ End(Append(ch[d], f), rep[d][1].seq, Len(ch[d]) + 2) = seq + 1
      BY <1>1, <1>3, <3>1, <3>2, <3>3
    <3> QED BY <1>3, <3>1, <3>3, <3>4 DEF Carries
  <2>2. ASSUME up[d], conn[d] = "live", ~seeded[d]
        PROVE  \E p \in 1..Len(ch'[d]) :
                  cur'[d] <= ch'[d][p].seq /\ Carries(d, ch[d], ch[d][p].seq, p)'
    <3>1. PICK p \in 1..Len(ch[d]) :
             cur[d] <= ch[d][p].seq /\ Carries(d, ch[d], ch[d][p].seq, p)
      BY <2>2 DEF LinkInv, StampedRuns
    <3>2. /\ p \in Nat /\ ch[d][p].seq \in Nat /\ p \in 1..Len(ch'[d])
          /\ ch'[d][p] = ch[d][p] /\ p = IF p <= Len(ch[d]) THEN p ELSE p + 1
      BY <1>3, LinkTypes
    <3>3. /\ Numbered(Append(ch[d], f), ch[d][p].seq, p)
          /\ End(Append(ch[d], f), ch[d][p].seq, p) = seq + 1
      BY <1>1, <1>3, <3>1, <3>2
    <3>4. Carries(d, ch[d], ch[d][p].seq, p)'
      BY <1>3, <3>2, <3>3 DEF Carries
    <3> QED BY <3>1, <3>2, <3>4
  <2> QED BY <2>1, <2>2 DEF StampedRuns
<1>6. SeededRuns(d)'
  <2> SUFFICES ASSUME up[d], conn[d] = "live", seeded[d]
               PROVE  \E p \in 1..(Len(ch'[d]) + 1) : Carries(d, ch[d], cur[d], p)'
    BY DEF SeededRuns
  <2>1. PICK p \in 1..(Len(ch[d]) + 1) : Carries(d, ch[d], cur[d], p)
    BY DEF LinkInv, SeededRuns
  <2>2. PICK q \in 1..(Len(ch'[d]) + 1) : q = IF p <= Len(ch[d]) THEN p ELSE p + 1
    BY <1>3
  <2>3. Numbered(Append(ch[d], f), cur[d], q) /\ End(Append(ch[d], f), cur[d], q) = seq + 1
    <3>1. p \in Nat /\ q \in Nat
      BY <1>3
    <3> QED BY <1>1, <1>3, <2>1, <2>2, <3>1
  <2>4. Carries(d, ch[d], cur[d], q)'
    BY <1>3, <2>3 DEF Carries
  <2> QED BY <2>4
<1> QED BY <1>2, <1>4, <1>5, <1>6 DEF LinkInv

(* A step of the authority, whatever it publishes.                         *)
LEMMA AuthorityKeepsLinks ==
    ASSUME SyncInv, AuthorityStep, UNCHANGED clientVars, NEW d \in Subs
    PROVE  LinkInv(d)' /\ AppliedBelow(d)'
<1>1. TypeOK /\ LinkInv(d) /\ AppliedBelow(d) /\ cur[d] \in Nat /\ seq \in Nat
  BY BoundsAssumption DEF SyncInv, AuthorityInv, SyncTypeOK, TypeOK
<1>2. UNCHANGED <<conn, rep, up, seeded, cur, applied>>
  BY DEF AuthorityStep, Ingest, ApplyOwn, ReseedArm, ReseedStep, ReseedSwap, ReseedOrphan,
         FlushBegin, FlushStep, streamVars, clientVars
<1>3. ASSUME UNCHANGED <<seq, subs, ch>> PROVE LinkInv(d)' /\ AppliedBelow(d)'
  BY <1>1, <1>2, <1>3, KeepsLink DEF SameLink, AppliedBelow
<1>4. ASSUME NEW k \in {"event", "reseed"}, NEW e \in 0..MaxEvents, Publish(k, e)
      PROVE  LinkInv(d)' /\ AppliedBelow(d)'
  <2> DEFINE f == Frame(k, seq + 1, e)
  <2>1. seq' = seq + 1 /\ seq + 1 \in 0..MaxSeq /\ fanoutLocked(f)
    BY <1>1, <1>4, BoundsAssumption DEF Publish, TypeOK
  <2>2. f \in Frames /\ f.kind # "snapshot" /\ f.seq = seq + 1
    BY <2>1, FrameType DEF Frame
  <2> HIDE DEF f
  <2>3. /\ ch'[d] = IF d \in subs /\ ~Full(d) THEN Append(ch[d], f) ELSE ch[d]
        /\ d \in subs' <=> d \in subs /\ ~Full(d)
    BY <2>1 DEF fanoutLocked
  <2>4. AppliedBelow(d)'
    BY <1>1, <1>2, <2>1 DEF AppliedBelow
  <2>5. CASE d \in subs /\ ~Full(d)
    BY <1>1, <1>2, <2>1, <2>2, <2>3, <2>4, <2>5, FannedOut
  <2>6. CASE ~(d \in subs /\ ~Full(d))
    BY <1>1, <1>2, <2>1, <2>3, <2>4, <2>6, LeftBehind DEF SameLink
  <2> QED BY <2>5, <2>6
<1>5. ASSUME NEW e \in 0..MaxEvents, applyLocked(e) PROVE LinkInv(d)' /\ AppliedBelow(d)'
  BY <1>3, <1>4, <1>5 DEF applyLocked, PersistFails
<1>6. Local \in 0..MaxEvents
  BY BoundsAssumption DEF Local
<1>7. CASE Ingest
  <2>1. emitted + 1 \in 0..MaxEvents
    BY <1>1, <1>7, BoundsAssumption DEF Ingest, TypeOK
  <2> QED BY <1>3, <1>5, <1>7, <2>1 DEF Ingest, cursorVars
<1>8. CASE ApplyOwn
  BY <1>5, <1>6, <1>8 DEF ApplyOwn
<1>9. CASE ReseedArm \/ FlushBegin
  BY <1>3, <1>9 DEF ReseedArm, FlushBegin, cursorVars, streamVars
<1>10. CASE ReseedSwap
  BY <1>3, <1>4, <1>6, <1>10 DEF ReseedSwap, PersistFails
<1>11. CASE ReseedOrphan
  BY <1>3, <1>5, <1>6, <1>11 DEF ReseedOrphan, cursorVars
<1>12. CASE FlushStep
  <2>1. CASE batch # <<>> /\ applyLocked(Head(batch))
    <3>1. Head(batch) \in 0..MaxEvents
      BY <1>1, <2>1, HeadTailProperties, BoundsAssumption DEF TypeOK
    <3> QED BY <1>5, <2>1, <3>1
  <2> QED BY <1>3, <1>12, <2>1 DEF FlushStep, cursorVars
<1> QED
  BY <1>7, <1>8, <1>9, <1>10, <1>11, <1>12 DEF AuthorityStep, ReseedStep

-----------------------------------------------------------------------------
(* Steps of one connection *)

ClientStep(c) ==
    Dial(c) \/ Receive(c) \/ StreamEnds(c) \/ ConnectionLost(c) \/ ServerDrop(c) \/ ServerOpens(c)

LEMMA OthersKept ==
    ASSUME SyncInv, NEW c \in Subs, ClientStep(c), NEW d \in Subs, d # c
    PROVE  LinkInv(d)' /\ AppliedBelow(d)'
<1>1. /\ conn \in [Subs -> ConnStates] /\ ch \in [Subs -> Seq(Frames)]
      /\ rep \in [Subs -> Seq(Frames)]
      /\ up \in [Subs -> BOOLEAN] /\ seeded \in [Subs -> BOOLEAN]
      /\ cur \in [Subs -> 0..MaxSeq] /\ applied \in [Subs -> Seq(1..MaxSeq)]
  BY DEF SyncInv, SyncTypeOK, TypeOK
<1>2. /\ conn'[d] = conn[d] /\ ch'[d] = ch[d] /\ rep'[d] = rep[d]
      /\ d \in subs' <=> d \in subs
      /\ seq' = seq
  <2>1. CASE Stream(c) \/ StreamSince(c, cur[c])
    BY <1>1, <2>1 DEF Stream, StreamSince, cursorVars
  <2>2. CASE Pump(c) \/ dropSub(c) \/ SendSnapshot(c) \/ UNCHANGED vars
    BY <1>1, <2>2 DEF Pump, dropSub, SendSnapshot, cursorVars, vars, streamVars
  <2> QED BY <2>1, <2>2
             DEF ClientStep, Dial, Receive, StreamEnds, ConnectionLost, ServerDrop, ServerOpens
<1>3. up'[d] = up[d] /\ seeded'[d] = seeded[d] /\ cur'[d] = cur[d] /\ applied'[d] = applied[d]
  <2>1. CASE Dial(c) \/ StreamEnds(c) \/ ConnectionLost(c) \/ ServerDrop(c) \/ ServerOpens(c)
    BY <1>1, <2>1 DEF Dial, StreamEnds, ConnectionLost, ServerDrop, ServerOpens, HangUp, clientVars
  <2>2. CASE Receive(c)
    BY <1>1, <2>2 DEF Receive, applySnapshot, applyEvent, onReseed, HangUp, clientVars
  <2> QED BY <2>1, <2>2 DEF ClientStep
<1>4. LinkInv(d)'
  BY <1>2, <1>3, KeepsLink DEF SyncInv, SameLink
<1> QED BY <1>2, <1>3, <1>4 DEF SyncInv, AppliedBelow

(* A connection nobody reads promises nothing.                             *)
LEMMA HungUp ==
    ASSUME NEW c \in Subs, ClosedIsEmpty(c)', OpeningHolds(c)', ~up'[c]
    PROVE  LinkInv(c)'
BY DEF LinkInv, ResumedRuns, StampedRuns, SeededRuns

(* What a closed connection is opened with: a stamp and nothing else.      *)
LEMMA StreamLink ==
    ASSUME SyncInv, NEW c \in Subs, Stream(c), cur'[c] = cur[c], up'[c] => ~seeded'[c]
    PROVE  LinkInv(c)'
<1>1. /\ conn'[c] = "opening" /\ ch'[c] = <<>> /\ seq' = seq
      /\ rep'[c] = <<Frame("snapshot", seq, Local)>>
      /\ seq \in 0..MaxSeq /\ seq \in Nat
  BY BoundsAssumption DEF SyncInv, SyncTypeOK, TypeOK, Stream, cursorVars
<1>2. ClosedIsEmpty(c)' /\ OpeningHolds(c)'
  BY <1>1 DEF ClosedIsEmpty, OpeningHolds
<1>3. rep'[c][1].seq = seq
  BY <1>1 DEF Frame
<1>4. cur[c] <= seq
  BY DEF SyncInv, AppliedBelow
<1>5. Numbered(<<>>, seq, 1) /\ End(<<>>, seq, 1) = seq
  BY <1>1, NumberedEmpty
<1>6. Len(<<>>) + 1 = 1
  OBVIOUS
<1>7. Carries(c, ch[c], rep[c][1].seq, Len(ch[c]) + 1)'
  BY <1>1, <1>3, <1>5, <1>6 DEF Carries
<1>8. StampedRuns(c)'
  BY <1>1, <1>3, <1>4, <1>7 DEF StampedRuns
<1> QED BY <1>1, <1>2, <1>8 DEF LinkInv, ResumedRuns, SeededRuns

(* A cursor the ring serves: the replay follows it.                        *)
LEMMA ReplayFollows ==
    ASSUME SyncInv, NEW since \in 0..MaxSeq, Servable(since),
           NEW k \in 1..(Len(ring) + 1), KeepsFrom(ring, since, k)
    PROVE  LET s == SubSeq(ring, k, Len(ring))
           IN  /\ Numbered(s, since, Len(s) + 1)
               /\ End(s, since, Len(s) + 1) = seq
<1> DEFINE n == Len(ring)
           s == SubSeq(ring, k, n)
<1>1. /\ seq - n <= since /\ since <= seq /\ n \in Nat /\ seq \in Nat /\ since \in Nat
      /\ ring \in Seq(Frames)
  BY ServableAboveRing, BoundsAssumption DEF SyncInv, AuthorityInv, TypeOK
<1>2. /\ s \in Seq(Frames) /\ Len(s) = n + 1 - k
      /\ \A i \in 1..(n + 1 - k) : s[i] = ring[k + i - 1]
  BY <1>1, SuffixFacts
<1>3. ASSUME NEW j \in 1..n PROVE ring[j].seq = seq - n + j /\ ring[j].kind # "snapshot"
  <2>1. ring[j].seq = seq - n + j
    BY DEF SyncInv, AuthorityInv, RingContiguous
  <2>2. ring[j] = log[Len(log) - n + j] /\ n <= Len(log) /\ Len(log) \in Nat
    BY LenProperties DEF SyncInv, AuthorityInv, RingIsLogTail, TypeOK
  <2>3. Len(log) - n + j \in 1..Len(log)
    BY <1>1, <2>2
  <2> QED BY <2>1, <2>2, <2>3 DEF SyncInv, LogKinds
<1>4. ASSUME NEW j \in 1..n PROVE seq - n + j > since <=> j >= k
  BY <1>3 DEF KeepsFrom
<1>5. k = since - (seq - n) + 1
  <2> DEFINE m == since - (seq - n) + 1
  <2>1. m \in 1..(n + 1)
    BY <1>1
  <2>2. CASE m < k
    <3>1. m \in 1..n
      BY <1>1, <2>1, <2>2
    <3> QED BY <1>1, <1>4, <2>2, <3>1
  <2>3. CASE k < m
    <3>1. k \in 1..n
      BY <1>1, <2>1, <2>3
    <3> QED BY <1>1, <1>4, <2>3, <3>1
  <2> QED BY <1>1, <2>1, <2>2, <2>3
<1> HIDE DEF s
<1>6. ASSUME NEW i \in 1..Len(s) PROVE s[i].kind # "snapshot" /\ s[i].seq = since + i
  <2>1. k + i - 1 \in 1..n /\ s[i] = ring[k + i - 1]
    BY <1>1, <1>2
  <2>2. seq - n + (k + i - 1) = since + i
    BY <1>1, <1>2, <1>5
  <2> QED BY <1>3, <2>1, <2>2
<1>7. Len(s) \in Nat
  BY <1>1, <1>2
<1>8. Numbered(s, since, Len(s) + 1)
  BY <1>6, <1>7 DEF Numbered
<1>9. End(s, since, Len(s) + 1) = seq
  BY <1>1, <1>2, <1>5, <1>7 DEF End
<1> QED BY <1>8, <1>9 DEF s

LEMMA DialLink ==
    ASSUME SyncInv, NEW c \in Subs, Dial(c)
    PROVE  LinkInv(c)' /\ AppliedBelow(c)'
<1>1. /\ ~up[c] /\ conn[c] = "none" /\ ~seeded'[c] /\ UNCHANGED <<cur, applied>>
      /\ cur[c] \in 0..MaxSeq /\ cur[c] \in Nat
  BY BoundsAssumption DEF Dial, SyncInv, SyncTypeOK
<1>2. rep[c] = <<>> /\ ch[c] = <<>> /\ c \notin subs
  BY <1>1 DEF SyncInv, LinkInv, ClosedIsEmpty
<1>3. CASE Stream(c)
  <2>1. seq' = seq
    BY <1>3 DEF Stream, cursorVars
  <2> QED BY <1>1, <1>3, <2>1, StreamLink DEF SyncInv, AppliedBelow
<1>4. CASE StreamSince(c, cur[c])
  <2>1. seq' = seq
    BY <1>4 DEF StreamSince, cursorVars
  <2>2. AppliedBelow(c)'
    BY <1>1, <2>1 DEF SyncInv, AppliedBelow
  <2>3. CASE ~Servable(cur[c])
    <3>1. conn'[c] = "fallback" /\ rep'[c] = <<>> /\ ch'[c] = <<>> /\ c \notin subs'
      BY <1>2, <1>4, <2>3 DEF StreamSince, SyncInv, SyncTypeOK, TypeOK
    <3> QED BY <1>1, <2>2, <3>1
            DEF LinkInv, ClosedIsEmpty, OpeningHolds, ResumedRuns, StampedRuns, SeededRuns
  <2>4. CASE Servable(cur[c])
    <3>1. /\ conn'[c] = "resumed" /\ ch'[c] = <<>>
          /\ \E k \in 1..(Len(ring) + 1) :
                KeepsFrom(ring, cur[c], k) /\ rep'[c] = SubSeq(ring, k, Len(ring))
      BY <1>4, <2>4 DEF StreamSince, SyncInv, SyncTypeOK, TypeOK
    <3>2. PICK k \in 1..(Len(ring) + 1) :
             KeepsFrom(ring, cur[c], k) /\ rep'[c] = SubSeq(ring, k, Len(ring))
      BY <3>1
    <3>3. rep'[c] \in Seq(Frames)
      BY <3>2, SuffixFacts DEF SyncInv, SyncTypeOK, TypeOK
    <3>4. Outgoing(c)' = rep'[c]
      BY <3>1, <3>3, ConcatEmptySeq DEF Outgoing
    <3>5. /\ Numbered(rep'[c], cur[c], Len(rep'[c]) + 1)
          /\ End(rep'[c], cur[c], Len(rep'[c]) + 1) = seq
      BY <1>1, <2>4, <3>2, ReplayFollows
    <3>6. seq <= seq
      BY BoundsAssumption DEF SyncInv, SyncTypeOK, TypeOK
    <3>7. ResumedRuns(c)'
      BY <1>1, <2>1, <3>4, <3>5, <3>6 DEF ResumedRuns, Carries
    <3> QED BY <2>2, <3>1, <3>7
            DEF LinkInv, ClosedIsEmpty, OpeningHolds, StampedRuns, SeededRuns
  <2> QED BY <2>3, <2>4
<1> QED BY <1>3, <1>4 DEF Dial

LEMMA ServerLink ==
    ASSUME SyncInv, NEW c \in Subs, ServerDrop(c) \/ ServerOpens(c)
    PROVE  LinkInv(c)' /\ AppliedBelow(c)'
<1>1. /\ UNCHANGED <<up, seeded, cur, applied>> /\ TypeOK /\ LinkInv(c)
      /\ cur[c] \in Nat
  BY BoundsAssumption DEF ServerDrop, ServerOpens, clientVars, SyncInv, SyncTypeOK
<1>2. CASE dropSub(c)
  <2>1. /\ conn'[c] = "none" /\ rep'[c] = <<>> /\ ch'[c] = <<>> /\ c \notin subs' /\ seq' = seq
    BY <1>1, <1>2 DEF dropSub, TypeOK, cursorVars
  <2>2. LinkInv(c)'
    BY <2>1 DEF LinkInv, ClosedIsEmpty, OpeningHolds, ResumedRuns, StampedRuns, SeededRuns
  <2> QED BY <1>1, <2>1, <2>2 DEF SyncInv, AppliedBelow
<1>3. CASE conn[c] = "fallback" /\ Stream(c)
  <2>1. up'[c] => ~seeded'[c]
    BY <1>1, <1>3 DEF LinkInv, OpeningHolds
  <2>2. seq' = seq
    BY <1>3 DEF Stream, cursorVars
  <2> QED BY <1>1, <1>3, <2>1, <2>2, StreamLink DEF SyncInv, AppliedBelow
<1>4. CASE SendSnapshot(c)
  <2>1. /\ conn[c] = "opening" /\ conn'[c] = "live" /\ ch'[c] = Append(ch[c], rep[c][1])
        /\ rep'[c] = <<>> /\ subs' = subs /\ seq' = seq
    BY <1>1, <1>4 DEF SendSnapshot, TypeOK, cursorVars
  <2>2. /\ rep[c][1] \in Frames /\ rep[c][1].kind = "snapshot" /\ rep[c][1].seq \in Nat
        /\ up[c] => ~seeded[c]
    BY <1>1, <2>1, StampType DEF LinkInv, OpeningHolds
  <2>3. ClosedIsEmpty(c)' /\ OpeningHolds(c)'
    BY <2>1 DEF ClosedIsEmpty, OpeningHolds
  <2>4. AppliedBelow(c)'
    BY <1>1, <2>1 DEF SyncInv, AppliedBelow
  <2>5. CASE ~up[c]
    BY <1>1, <2>3, <2>4, <2>5, HungUp
  <2>6. CASE up[c]
    <3> DEFINE n == rep[c][1].seq
               p == Len(ch[c]) + 1
    <3>1. cur[c] <= n /\ Carries(c, ch[c], n, p)
      BY <1>1, <2>1, <2>6 DEF LinkInv, StampedRuns
    <3>2. ch[c] \in Seq(Frames) /\ Numbered(ch[c], n, p)
      BY <1>1, <3>1, LinkTypes DEF Carries
    <3>3. /\ p \in 1..Len(ch'[c]) /\ ch'[c][p] = rep[c][1]
          /\ Numbered(ch'[c], n, p) /\ End(ch'[c], n, p) = End(ch[c], n, p)
      BY <2>1, <2>2, <3>2, NumberedSnapshot
    <3> HIDE DEF p, n
    <3>4. PICK m \in 1..Len(ch'[c]) : m = p
      BY <3>3
    <3>5. ch'[c][m].seq = n
      BY <3>3, <3>4 DEF n
    <3>6. Carries(c, ch[c], ch[c][m].seq, m)'
      BY <2>1, <3>1, <3>3, <3>4, <3>5 DEF Carries
    <3>7. StampedRuns(c)'
      BY <1>1, <2>1, <3>1, <3>5, <3>6 DEF StampedRuns
    <3> QED BY <1>1, <2>1, <2>2, <2>3, <2>4, <3>7 DEF LinkInv, ResumedRuns, SeededRuns
  <2> QED BY <2>5, <2>6
<1> QED BY <1>2, <1>3, <1>4 DEF ServerDrop, ServerOpens

LEMMA LostLink ==
    ASSUME SyncInv, NEW c \in Subs, StreamEnds(c) \/ ConnectionLost(c)
    PROVE  LinkInv(c)' /\ AppliedBelow(c)'
<1>1. /\ ~up'[c] /\ UNCHANGED <<conn, ch, rep, subs, seq, seeded, cur, applied>>
  BY DEF StreamEnds, ConnectionLost, HangUp, vars, cursorVars, streamVars, SyncInv, SyncTypeOK
<1>2. ClosedIsEmpty(c)' /\ OpeningHolds(c)'
  BY <1>1 DEF SyncInv, LinkInv, ClosedIsEmpty, OpeningHolds
<1> QED BY <1>1, <1>2, HungUp DEF SyncInv, AppliedBelow

LEMMA CrashLinks ==
    ASSUME SyncInv, Crash, NEW d \in Subs
    PROVE  LinkInv(d)' /\ AppliedBelow(d)'
<1>1. /\ conn'[d] = "none" /\ rep'[d] = <<>> /\ ch'[d] = <<>> /\ d \notin subs'
      /\ UNCHANGED <<cur, applied>>
  BY DEF Crash, Restart, clientVars
<1>2. seq' \in Nat /\ seq \in Nat /\ seq <= seq' /\ cur[d] \in Nat
  BY BoundsAssumption DEF Crash, Restart, SyncInv, SyncTypeOK, TypeOK, AuthorityInv, CursorLeads
<1>3. LinkInv(d)'
  BY <1>1 DEF LinkInv, ClosedIsEmpty, OpeningHolds, ResumedRuns, StampedRuns, SeededRuns
<1>4. cur[d] <= seq
  BY DEF SyncInv, AppliedBelow
<1>5. cur[d] <= seq'
  BY <1>2, <1>4
<1> QED BY <1>1, <1>3, <1>5 DEF SyncInv, AppliedBelow

-----------------------------------------------------------------------------
(* What a connection that is read carries: consecutive numbers, above the  *)
(* cursor or, before the first frame, above the stamp.                     *)
LEMMA ConnectionCarries ==
    ASSUME SyncInv, NEW c \in Subs, up[c], conn[c] \in {"live", "resumed"}
    PROVE  \E b \in Nat, p \in 1..(Len(Outgoing(c)) + 1) :
              /\ Carries(c, Outgoing(c), b, p)
              /\ cur[c] <= b
              /\ conn[c] = "resumed" \/ seeded[c] => b = cur[c]
              /\ conn[c] = "resumed" => p = Len(Outgoing(c)) + 1
              /\ conn[c] = "live" /\ ~seeded[c] =>
                    p <= Len(Outgoing(c)) /\ Outgoing(c)[p].seq = b
<1>1. TypeOK /\ LinkInv(c) /\ cur[c] \in Nat /\ cur[c] <= cur[c]
  BY BoundsAssumption DEF SyncInv, SyncTypeOK
<1>2. Len(Outgoing(c)) \in Nat /\ Len(ch[c]) \in Nat
  BY <1>1, LinkTypes
<1>3. CASE conn[c] = "resumed"
  <2>1. Carries(c, Outgoing(c), cur[c], Len(Outgoing(c)) + 1)
    BY <1>1, <1>3 DEF LinkInv, ResumedRuns
  <2>2. Len(Outgoing(c)) + 1 \in 1..(Len(Outgoing(c)) + 1)
    BY <1>2
  <2> QED BY <1>1, <1>3, <2>1, <2>2
<1>4. CASE conn[c] = "live"
  <2>1. Outgoing(c) = ch[c]
    BY <1>1, <1>4, LinkTypes, ConcatTail DEF LinkInv, OpeningHolds, Outgoing
  <2>2. CASE seeded[c]
    <3>1. PICK p \in 1..(Len(ch[c]) + 1) : Carries(c, ch[c], cur[c], p)
      BY <1>1, <1>4, <2>2 DEF LinkInv, SeededRuns
    <3> QED BY <1>1, <1>4, <2>1, <2>2, <3>1
  <2>3. CASE ~seeded[c]
    <3>1. PICK p \in 1..Len(ch[c]) :
             cur[c] <= ch[c][p].seq /\ Carries(c, ch[c], ch[c][p].seq, p)
      BY <1>1, <1>4, <2>3 DEF LinkInv, StampedRuns
    <3>2. ch[c][p].seq \in Nat /\ p \in 1..(Len(ch[c]) + 1) /\ p <= Len(ch[c])
      BY <1>1, <1>2, LinkTypes
    <3> QED BY <1>4, <2>1, <2>3, <3>1, <3>2
  <2> QED BY <2>2, <2>3
<1> QED BY <1>3, <1>4

(* One received frame: a snapshot is met only on a stamped connection, and *)
(* any other frame has the next number.                                    *)
LEMMA ReceiveFacts ==
    ASSUME SyncInv, NEW c \in Subs, Receive(c)
    PROVE  LET f == Head(Outgoing(c))
           IN  /\ f \in Frames /\ f.seq \in Nat
               /\ up[c] /\ conn[c] \in {"live", "resumed"}
               /\ UNCHANGED <<conn, subs, seq>>
               /\ conn[c] = "live" => rep'[c] = <<>>
               /\ f.kind = "snapshot" =>
                     /\ conn[c] = "live"
                     /\ seeded[c] => Carries(c, ch'[c], cur[c], Len(ch'[c]) + 1)
                     /\ ~seeded[c] => /\ cur[c] <= f.seq /\ f.seq <= seq
                                      /\ Carries(c, ch'[c], f.seq, Len(ch'[c]) + 1)
               /\ f.kind # "snapshot" =>
                     /\ cur[c] + 1 <= f.seq /\ f.seq <= seq
                     /\ conn[c] = "resumed" \/ seeded[c] => f.seq = cur[c] + 1
                     /\ conn[c] = "resumed" =>
                           Carries(c, Outgoing(c)', f.seq, Len(Outgoing(c)') + 1)
                     /\ conn[c] = "live" =>
                           \E q \in 1..(Len(ch'[c]) + 1) : Carries(c, ch'[c], f.seq, q)
<1> DEFINE out == Outgoing(c)
           f == Head(out)
<1>1. /\ TypeOK /\ LinkInv(c) /\ cur[c] \in Nat
      /\ up[c] /\ conn[c] \in {"live", "resumed"} /\ out # <<>>
      /\ UNCHANGED <<conn, subs, seq>>
  BY BoundsAssumption DEF Receive, Pump, SyncInv, SyncTypeOK, cursorVars
<1>2. /\ out \in Seq(Frames) /\ ch[c] \in Seq(Frames) /\ rep[c] \in Seq(Frames)
      /\ Len(out) \in Nat /\ Len(ch[c]) \in Nat /\ seq \in Nat
  BY <1>1, LinkTypes
<1>3. Outgoing(c)' = Tail(out)
  <2>1. CASE rep[c] # <<>>
    <3>1. rep'[c] = Tail(rep[c]) /\ ch'[c] = ch[c]
      BY <1>1, <2>1 DEF Receive, Pump, TypeOK
    <3> QED BY <1>2, <2>1, <3>1, ConcatTail DEF Outgoing
  <2>2. CASE rep[c] = <<>>
    <3>1. rep'[c] = rep[c] /\ ch'[c] = Tail(ch[c])
      BY <1>1, <2>2 DEF Receive, Pump, TypeOK
    <3>2. out = ch[c]
      BY <1>2, <2>2, ConcatTail DEF Outgoing
    <3>3. Tail(ch[c]) \in Seq(Frames)
      BY <1>1, <1>2, <3>2, HeadTailProperties
    <3> QED BY <2>2, <3>1, <3>2, <3>3, ConcatEmptySeq DEF Outgoing
  <2> QED BY <2>1, <2>2
<1>4. ASSUME conn[c] = "live"
      PROVE  rep'[c] = <<>> /\ ch'[c] = Tail(out)
  <2>1. rep[c] = <<>>
    BY <1>1, <1>4 DEF LinkInv, OpeningHolds
  <2>2. rep'[c] = <<>> /\ ch'[c] = Tail(ch[c])
    BY <1>1, <2>1 DEF Receive, Pump, TypeOK
  <2>3. out = ch[c]
    BY <1>2, <2>1, ConcatTail DEF Outgoing
  <2> QED BY <2>2, <2>3
<1>5. PICK b \in Nat, p \in 1..(Len(out) + 1) :
         /\ Carries(c, out, b, p)
         /\ cur[c] <= b
         /\ conn[c] = "resumed" \/ seeded[c] => b = cur[c]
         /\ conn[c] = "resumed" => p = Len(out) + 1
         /\ conn[c] = "live" /\ ~seeded[c] => p <= Len(out) /\ out[p].seq = b
  BY <1>1, ConnectionCarries
<1>6. /\ p \in Nat /\ Numbered(out, b, p) /\ b <= End(out, b, p) /\ End(out, b, p) <= seq
      /\ End(out, b, p) \in Nat
  BY <1>2, <1>5, CarriedEnd
<1>7. /\ f = out[1] /\ f \in Frames
      /\ Tail(out) \in Seq(Frames) /\ Len(Tail(out)) = Len(out) - 1
      /\ p > 1 => /\ f.kind # "snapshot" /\ f.seq = b + 1
                  /\ p - 1 \in 1..(Len(Tail(out)) + 1)
                  /\ Numbered(Tail(out), b + 1, p - 1)
                  /\ End(Tail(out), b + 1, p - 1) = End(out, b, p)
      /\ p = 1 => /\ f.kind = "snapshot"
                  /\ Numbered(Tail(out), b, Len(Tail(out)) + 1)
                  /\ End(Tail(out), b, Len(Tail(out)) + 1) = End(out, b, p)
  BY <1>1, <1>2, <1>6, NumberedTail
<1>8. f.seq \in Nat /\ Len(out) >= 1
  BY <1>1, <1>2, <1>7, BoundsAssumption, EmptySeq DEF Frames
<1>9. c \in subs' => seq' = End(out, b, p)
  BY <1>1, <1>5 DEF Carries
<1> HIDE DEF out, f
<1>10. CASE f.kind = "snapshot"
  <2>1. p = 1
    BY <1>2, <1>7, <1>10
  <2>2. conn[c] = "live"
    BY <1>1, <1>2, <1>5, <1>8, <2>1
  <2>3. ~seeded[c] => f.seq = b
    BY <1>5, <1>7, <2>1, <2>2
  <2>4. ch'[c] = Tail(out) /\ rep'[c] = <<>>
    BY <1>4, <2>2
  <2>5. Carries(c, ch'[c], b, Len(ch'[c]) + 1)
    BY <1>1, <1>6, <1>7, <1>9, <2>1, <2>4 DEF Carries
  <2>6. b <= seq
    BY <1>2, <1>6
  <2> QED BY <1>1, <1>5, <1>7, <1>8, <1>10, <2>2, <2>3, <2>4, <2>5, <2>6 DEF out, f
<1>11. CASE f.kind # "snapshot"
  <2>1. p > 1
    BY <1>2, <1>7, <1>11
  <2>2. f.seq = b + 1 /\ cur[c] + 1 <= f.seq
    BY <1>1, <1>5, <1>7, <2>1
  <2>3. f.seq <= seq
    <3>1. b + 1 <= End(out, b, p)
      BY <1>2, <1>8, <2>1 DEF End
    <3> QED BY <1>2, <1>6, <2>2, <3>1
  <2>4. Carries(c, Tail(out), f.seq, p - 1)
    BY <1>1, <1>6, <1>7, <1>9, <2>1, <2>2 DEF Carries
  <2>5. conn[c] = "resumed" => p - 1 = Len(Tail(out)) + 1
    BY <1>2, <1>5, <1>7
  <2>6. /\ conn[c] = "resumed" => Carries(c, Outgoing(c)', f.seq, Len(Outgoing(c)') + 1)
        /\ conn[c] = "live" => \E q \in 1..(Len(ch'[c]) + 1) : Carries(c, ch'[c], f.seq, q)
    BY <1>3, <1>4, <1>7, <2>1, <2>4, <2>5
  <2>7. conn[c] = "resumed" \/ seeded[c] => f.seq = cur[c] + 1
    BY <1>5, <2>2
  <2>8. conn[c] = "live" => rep'[c] = <<>>
    BY <1>4
  <2> QED BY <1>1, <1>7, <1>8, <1>11, <2>2, <2>3, <2>6, <2>7, <2>8 DEF out, f
<1> QED BY <1>10, <1>11

LEMMA ReceiveLink ==
    ASSUME SyncInv, NEW c \in Subs, Receive(c)
    PROVE  LinkInv(c)' /\ AppliedBelow(c)'
<1> DEFINE f == Head(Outgoing(c))
<1>1. /\ f \in Frames /\ f.seq \in Nat
      /\ up[c] /\ conn[c] \in {"live", "resumed"}
      /\ UNCHANGED <<conn, subs, seq>>
      /\ conn[c] = "live" => rep'[c] = <<>>
      /\ f.kind = "snapshot" =>
            /\ conn[c] = "live"
            /\ seeded[c] => Carries(c, ch'[c], cur[c], Len(ch'[c]) + 1)
            /\ ~seeded[c] => /\ cur[c] <= f.seq /\ f.seq <= seq
                             /\ Carries(c, ch'[c], f.seq, Len(ch'[c]) + 1)
      /\ f.kind # "snapshot" =>
            /\ cur[c] + 1 <= f.seq /\ f.seq <= seq
            /\ conn[c] = "resumed" => Carries(c, Outgoing(c)', f.seq, Len(Outgoing(c)') + 1)
            /\ conn[c] = "live" =>
                  \E q \in 1..(Len(ch'[c]) + 1) : Carries(c, ch'[c], f.seq, q)
  BY ReceiveFacts
<1> HIDE DEF f
<1>2. /\ up \in [Subs -> BOOLEAN] /\ seeded \in [Subs -> BOOLEAN]
      /\ cur \in [Subs -> 0..MaxSeq] /\ applied \in [Subs -> Seq(1..MaxSeq)]
      /\ cur[c] \in Nat /\ seq \in Nat
  BY BoundsAssumption DEF SyncInv, SyncTypeOK, TypeOK
<1>3. /\ cur[c] <= seq /\ \A i \in 1..Len(applied[c]) : applied[c][i] <= cur[c]
      /\ \A i, j \in 1..Len(applied[c]) : i < j => applied[c][i] < applied[c][j]
  BY DEF SyncInv, AppliedBelow
<1>4. ClosedIsEmpty(c)' /\ OpeningHolds(c)'
  BY <1>1 DEF ClosedIsEmpty, OpeningHolds
<1>5. ch'[c] \in Seq(Frames) /\ Len(ch'[c]) \in Nat
  <2>1. TypeOK'
    BY NextInv, SyncIsAuthority DEF SyncInv, AuthorityInv, SyncNext
  <2> QED BY <2>1, LenProperties DEF TypeOK
<1>6. CASE f.kind = "snapshot" /\ ~seeded[c] /\ applySnapshot(c, f)
  <2>1. cur'[c] = f.seq /\ seeded'[c] /\ up'[c] /\ applied'[c] = applied[c]
    BY <1>1, <1>2, <1>6 DEF applySnapshot
  <2>2. SeededRuns(c)'
    <3>1. Carries(c, ch'[c], f.seq, Len(ch'[c]) + 1) /\ Len(ch'[c]) + 1 \in 1..(Len(ch'[c]) + 1)
      BY <1>1, <1>5, <1>6
    <3>2. PICK q \in 1..(Len(ch'[c]) + 1) : Carries(c, ch'[c], f.seq, q)
      BY <3>1
    <3>3. Carries(c, ch[c], cur[c], q)'
      BY <1>1, <2>1, <3>2 DEF Carries
    <3> QED BY <3>3 DEF SeededRuns
  <2>3. AppliedBelow(c)'
    <3>1. ASSUME NEW i \in 1..Len(applied[c]) PROVE applied[c][i] <= f.seq
      <4>1. applied[c][i] \in 1..MaxSeq
        BY <1>2, ElementOfSeq
      <4> QED BY <1>1, <1>2, <1>3, <1>6, <4>1, BoundsAssumption
    <3> QED BY <1>1, <1>3, <1>6, <2>1, <3>1 DEF AppliedBelow
  <2> QED BY <1>1, <1>4, <1>6, <2>1, <2>2, <2>3 DEF LinkInv, ResumedRuns, StampedRuns
<1>7. CASE f.kind = "snapshot" /\ seeded[c] /\ UNCHANGED clientVars
  <2>1. cur' = cur /\ seeded'[c] /\ up'[c] /\ applied' = applied
    BY <1>1, <1>7 DEF clientVars
  <2>2. SeededRuns(c)'
    <3>1. Carries(c, ch'[c], cur[c], Len(ch'[c]) + 1) /\ Len(ch'[c]) + 1 \in 1..(Len(ch'[c]) + 1)
      BY <1>1, <1>5, <1>7
    <3>2. PICK q \in 1..(Len(ch'[c]) + 1) : Carries(c, ch'[c], cur[c], q)
      BY <3>1
    <3>3. Carries(c, ch[c], cur[c], q)'
      BY <1>1, <2>1, <3>2 DEF Carries
    <3> QED BY <3>3 DEF SeededRuns
  <2> QED BY <1>1, <1>3, <1>4, <1>7, <2>1, <2>2
          DEF LinkInv, ResumedRuns, StampedRuns, AppliedBelow
<1>8. CASE HangUp(c) /\ UNCHANGED <<cur, applied>>
  <2>1. ~up'[c]
    BY <1>2, <1>8 DEF HangUp
  <2> QED BY <1>1, <1>3, <1>4, <1>8, <2>1, HungUp DEF AppliedBelow
<1>9. CASE f.kind = "event" /\ applyEvent(c, f)
  <2>1. f.kind # "snapshot" /\ cur[c] + 1 <= f.seq /\ f.seq <= seq /\ ~(f.seq <= cur[c])
    BY <1>1, <1>2, <1>9
  <2>2. /\ cur'[c] = f.seq /\ seeded'[c] /\ up'[c] /\ applied'[c] = Append(applied[c], f.seq)
    BY <1>1, <1>2, <1>9, <2>1 DEF applyEvent
  <2>3. conn[c] = "resumed" => ResumedRuns(c)'
    BY <1>1, <2>1, <2>2 DEF ResumedRuns, Carries
  <2>4. conn[c] = "live" => SeededRuns(c)'
    <3> SUFFICES ASSUME conn[c] = "live" PROVE SeededRuns(c)'
      OBVIOUS
    <3>1. PICK q \in 1..(Len(ch'[c]) + 1) : Carries(c, ch'[c], f.seq, q)
      BY <1>1, <2>1
    <3>2. Carries(c, ch[c], cur[c], q)'
      BY <1>1, <2>2, <3>1 DEF Carries
    <3> QED BY <3>2 DEF SeededRuns
  <2>5. LinkInv(c)'
    BY <1>1, <1>4, <2>2, <2>3, <2>4 DEF LinkInv, ResumedRuns, StampedRuns, SeededRuns
  <2>6. AppliedBelow(c)'
    <3> DEFINE a == applied[c]
    <3>1. /\ Len(a) \in Nat /\ Len(applied'[c]) = Len(a) + 1
          /\ \A i \in 1..Len(a) : applied'[c][i] = a[i]
          /\ applied'[c][Len(a) + 1] = f.seq
      BY <1>2, <2>2, AppendProperties, LenProperties
    <3>2. ASSUME NEW i \in 1..Len(a) PROVE a[i] \in Nat /\ a[i] <= cur[c] /\ a[i] < f.seq
      <4>1. a[i] \in 1..MaxSeq
        BY <1>2, ElementOfSeq
      <4> QED BY <1>1, <1>2, <1>3, <2>1, <4>1, BoundsAssumption
    <3> HIDE DEF a
    <3>3. ASSUME NEW i \in 1..Len(applied'[c]) PROVE i \in 1..Len(a) \/ i = Len(a) + 1
      BY <3>1
    <3>4. ASSUME NEW i \in 1..Len(applied'[c]) PROVE applied'[c][i] <= cur'[c]
      <4>1. CASE i \in 1..Len(a)
        BY <1>1, <1>2, <2>2, <3>1, <3>2, <4>1
      <4>2. CASE i = Len(a) + 1
        BY <1>1, <2>2, <3>1, <4>2
      <4> QED BY <3>3, <4>1, <4>2
    <3>5. ASSUME NEW i \in 1..Len(applied'[c]), NEW j \in 1..Len(applied'[c]), i < j
          PROVE  applied'[c][i] < applied'[c][j]
      <4>1. i \in 1..Len(a)
        BY <3>1, <3>5
      <4>2. CASE j \in 1..Len(a)
        BY <1>3, <3>1, <3>5, <4>1, <4>2 DEF a
      <4>3. CASE j = Len(a) + 1
        <5>1. applied'[c][i] = a[i] /\ applied'[c][j] = f.seq
          BY <3>1, <4>1, <4>3
        <5> QED BY <3>2, <4>1, <5>1
      <4> QED BY <3>3, <4>2, <4>3
    <3> QED BY <1>1, <2>1, <2>2, <3>4, <3>5 DEF AppliedBelow
  <2> QED BY <2>5, <2>6
<1> QED BY <1>6, <1>7, <1>8, <1>9 DEF Receive, onReseed, f

(* What a received frame does to the consumer.                             *)
LEMMA ReceiveFold ==
    ASSUME SyncInv, NEW c \in Subs, Receive(c)
    PROVE  /\ faults' = faults
           /\ \/ /\ UNCHANGED <<cur, have, foldSeeded, applied>>
              \/ \E n \in 0..MaxSeq :
                    /\ cur' = [cur EXCEPT ![c] = n] /\ have' = [have EXCEPT ![c] = 1..n]
                    /\ foldSeeded' = [foldSeeded EXCEPT ![c] = TRUE] /\ applied' = applied
                    /\ conn[c] = "live"
              \/ \E n \in 1..MaxSeq :
                    /\ cur' = [cur EXCEPT ![c] = n] /\ have' = [have EXCEPT ![c] = @ \cup {n}]
                    /\ foldSeeded' = foldSeeded
                    /\ applied' = [applied EXCEPT ![c] = Append(@, n)]
                    /\ conn[c] = "resumed" \/ seeded[c] => n = cur[c] + 1
                    /\ seeded[c] \/ resuming[c]
                    /\ conn[c] \in {"live", "resumed"}
<1> DEFINE f == Head(Outgoing(c))
<1>1. /\ f.seq \in Nat
      /\ f.kind = "snapshot" /\ ~seeded[c] => conn[c] = "live" /\ f.seq <= seq
      /\ f.kind # "snapshot" => /\ cur[c] + 1 <= f.seq /\ f.seq <= seq
                                /\ conn[c] = "resumed" \/ seeded[c] => f.seq = cur[c] + 1
      /\ conn[c] \in {"live", "resumed"}
  BY ReceiveFacts
<1>2. seq \in Nat /\ seq <= MaxSeq /\ MaxSeq \in Nat /\ cur[c] \in Nat
  BY BoundsAssumption DEF SyncInv, SyncTypeOK, TypeOK
<1> HIDE DEF f
<1>3. CASE f.kind = "snapshot" /\ ~seeded[c] /\ applySnapshot(c, f)
  <2>1. f.seq \in 0..MaxSeq
    BY <1>1, <1>2, <1>3
  <2> QED BY <1>1, <1>3, <2>1 DEF applySnapshot, Receive
<1>4. CASE f.kind = "event" /\ Opened(c) /\ applyEvent(c, f)
  <2>1. f.seq \in 1..MaxSeq /\ ~(f.seq <= cur[c])
    BY <1>1, <1>2, <1>4
  <2> QED BY <1>1, <1>4, <2>1 DEF applyEvent, Opened, Receive
<1>5. CASE UNCHANGED <<cur, have, foldSeeded, applied>>
  BY <1>5 DEF Receive
<1> QED BY <1>3, <1>4, <1>5 DEF Receive, clientVars, f

LEMMA SyncTypes ==
    ASSUME SyncInv, [SyncNext]_syncVars
    PROVE  SyncTypeOK'
<1>1. TypeOK'
  BY SyncIsAuthority, NextInv DEF SyncInv, AuthorityInv
<1>2. /\ up \in [Subs -> BOOLEAN] /\ seeded \in [Subs -> BOOLEAN]
      /\ resuming \in [Subs -> BOOLEAN] /\ needSnapshot \in [Subs -> BOOLEAN]
      /\ foldSeeded \in [Subs -> BOOLEAN]
      /\ cur \in [Subs -> 0..MaxSeq] /\ have \in [Subs -> SUBSET (1..MaxSeq)]
      /\ applied \in [Subs -> Seq(1..MaxSeq)] /\ faults \in 0..MaxFaults
  BY DEF SyncInv, SyncTypeOK
<1>3. CASE UNCHANGED <<clientVars, faults>>
  BY <1>1, <1>2, <1>3 DEF SyncTypeOK, clientVars
<1>4. CASE Crash
  BY <1>1, <1>2, <1>4, FaultsAssumption DEF Crash, SyncTypeOK, clientVars
<1>5. ASSUME NEW c \in Subs, Dial(c) PROVE SyncTypeOK'
  <2>1. (foldSeeded[c] /\ ~needSnapshot[c]) \in BOOLEAN
    BY <1>2
  <2>2. up' \in [Subs -> BOOLEAN] /\ seeded' \in [Subs -> BOOLEAN] /\ resuming' \in [Subs -> BOOLEAN]
    BY <1>2, <1>5, <2>1 DEF Dial
  <2> QED BY <1>1, <1>2, <1>5, <2>2 DEF Dial, SyncTypeOK
<1>6. ASSUME NEW c \in Subs, StreamEnds(c) \/ ConnectionLost(c) PROVE SyncTypeOK'
  <2>1. up' \in [Subs -> BOOLEAN]
    BY <1>2, <1>6 DEF StreamEnds, ConnectionLost, HangUp
  <2>3. faults' = faults \/ (faults < MaxFaults /\ faults' = faults + 1)
    BY <1>6 DEF StreamEnds, ConnectionLost
  <2>4. faults' \in 0..MaxFaults
    BY <1>2, <2>3, FaultsAssumption
  <2>2. UNCHANGED <<seeded, resuming, cur, have, foldSeeded, needSnapshot, applied>>
    BY <1>6 DEF StreamEnds, ConnectionLost
  <2> QED BY <1>1, <1>2, <2>1, <2>2, <2>4 DEF SyncTypeOK
<1>7. ASSUME NEW c \in Subs, ServerDrop(c) \/ ServerOpens(c) PROVE SyncTypeOK'
  BY <1>3, <1>7 DEF ServerDrop, ServerOpens
<1>8. ASSUME NEW c \in Subs, Receive(c) PROVE SyncTypeOK'
  <2>1. /\ up' \in [Subs -> BOOLEAN] /\ seeded' \in [Subs -> BOOLEAN]
        /\ resuming' \in [Subs -> BOOLEAN] /\ needSnapshot' \in [Subs -> BOOLEAN]
    BY <1>2, <1>8 DEF Receive, applySnapshot, applyEvent, onReseed, HangUp, clientVars
  <2> DEFINE FoldTypes == /\ foldSeeded \in [Subs -> BOOLEAN] /\ faults \in 0..MaxFaults
                         /\ cur \in [Subs -> 0..MaxSeq] /\ have \in [Subs -> SUBSET (1..MaxSeq)]
                         /\ applied \in [Subs -> Seq(1..MaxSeq)]
  <2>2. FoldTypes'
    <3>1. faults' = faults
      BY <1>8, ReceiveFold
    <3>2. CASE UNCHANGED <<cur, have, foldSeeded, applied>>
      BY <1>2, <3>1, <3>2
    <3>3. ASSUME NEW n \in 0..MaxSeq,
                 cur' = [cur EXCEPT ![c] = n], have' = [have EXCEPT ![c] = 1..n],
                 foldSeeded' = [foldSeeded EXCEPT ![c] = TRUE], applied' = applied
          PROVE  FoldTypes'
      <4>1. 1..n \in SUBSET (1..MaxSeq)
        BY BoundsAssumption
      <4> QED BY <1>2, <3>1, <3>3, <4>1
    <3>4. ASSUME NEW n \in 1..MaxSeq,
                 cur' = [cur EXCEPT ![c] = n], have' = [have EXCEPT ![c] = @ \cup {n}],
                 foldSeeded' = foldSeeded, applied' = [applied EXCEPT ![c] = Append(@, n)]
          PROVE  FoldTypes'
      <4>1. n \in 0..MaxSeq /\ have[c] \cup {n} \in SUBSET (1..MaxSeq)
        BY <1>2, BoundsAssumption
      <4>2. Append(applied[c], n) \in Seq(1..MaxSeq)
        BY <1>2, AppendProperties
      <4> QED BY <1>2, <3>1, <3>4, <4>1, <4>2
    <3> QED BY <1>8, <3>2, <3>3, <3>4, ReceiveFold
  <2> QED BY <1>1, <2>1, <2>2 DEF SyncTypeOK
<1>9. CASE UNCHANGED syncVars
  BY <1>3, <1>9 DEF syncVars
<1> QED BY <1>3, <1>4, <1>5, <1>6, <1>7, <1>8, <1>9 DEF SyncNext

LEMMA SyncStep == SyncInv /\ [SyncNext]_syncVars => SyncInv'
<1> SUFFICES ASSUME SyncInv, [SyncNext]_syncVars PROVE SyncInv'
  OBVIOUS
<1>1. [Next]_vars /\ AuthorityInv /\ LogKinds /\ TypeOK
  BY SyncIsAuthority DEF SyncInv, SyncTypeOK
<1>2. AuthorityInv' /\ LogKinds' /\ SyncTypeOK'
  BY <1>1, NextInv, LogKindsStep, SyncTypes
<1>3. ASSUME NEW d \in Subs PROVE LinkInv(d)' /\ AppliedBelow(d)'
  <2>1. CASE AuthorityStep /\ UNCHANGED <<clientVars, faults>>
    BY <2>1, AuthorityKeepsLinks
  <2>2. CASE Crash
    BY <2>2, CrashLinks
  <2>3. ASSUME NEW c \in Subs, ClientStep(c) PROVE LinkInv(d)' /\ AppliedBelow(d)'
    <3>1. CASE c = d
      BY <2>3, <3>1, DialLink, ReceiveLink, LostLink, ServerLink DEF ClientStep
    <3>2. CASE c # d
      BY <2>3, <3>2, OthersKept
    <3> QED BY <3>1, <3>2
  <2>4. CASE UNCHANGED syncVars
    <3>1. SameLink(d) /\ subs' = subs /\ seq' = seq /\ applied' = applied
      BY <2>4 DEF SameLink, syncVars, clientVars, vars, cursorVars, streamVars
    <3>2. LinkInv(d) /\ AppliedBelow(d)
      BY DEF SyncInv
    <3> QED BY <3>1, <3>2, KeepsLink DEF AppliedBelow, SameLink
  <2> QED BY <2>1, <2>2, <2>3, <2>4 DEF SyncNext, ClientStep
<1> QED BY <1>2, <1>3 DEF SyncInv

LEMMA SyncStart == SyncInit => SyncInv
<1> SUFFICES ASSUME SyncInit PROVE SyncInv
  OBVIOUS
<1>1. Init /\ AuthorityInv /\ TypeOK
  BY InitInv DEF SyncInit, AuthorityInv
<1>2. LogKinds
  BY <1>1 DEF Init, LogKinds
<1>3. SyncTypeOK
  <2>1. 0 \in 0..MaxSeq /\ 0 \in 0..MaxFaults /\ {} \in SUBSET (1..MaxSeq)
        /\ <<>> \in Seq(1..MaxSeq)
    BY BoundsAssumption, FaultsAssumption
  <2> QED BY <1>1, <2>1 DEF SyncInit, SyncTypeOK
<1>4. ASSUME NEW c \in Subs PROVE LinkInv(c) /\ AppliedBelow(c)
  <2>1. /\ conn[c] = "none" /\ rep[c] = <<>> /\ ch[c] = <<>> /\ c \notin subs /\ ~up[c]
        /\ seq = 0 /\ cur[c] = 0 /\ applied[c] = <<>>
    BY <1>1 DEF Init, SyncInit
  <2> QED BY <2>1
          DEF LinkInv, ClosedIsEmpty, OpeningHolds, ResumedRuns, StampedRuns, SeededRuns, AppliedBelow
<1> QED BY <1>1, <1>2, <1>3, <1>4 DEF SyncInv

(* The authority with its consumers behaves as the authority does: what is *)
(* proved of the authority alone holds of every composition.               *)
THEOREM SyncRefinesAuthority == SyncSpec => Spec
<1>1. SyncInit => Init
  BY DEF SyncInit
<1>2. SyncInv /\ [SyncNext]_syncVars => [Next]_vars
  BY SyncIsAuthority DEF SyncInv
<1> QED BY <1>1, <1>2, SyncStart, SyncStep, PTL DEF SyncSpec, Spec

(* The usage callback of abiclient sees every number at most once, and in  *)
(* order, over all connections of a consumer and all agentd processes:     *)
(* the discard rule and the opening rule of Client.Stream.                 *)
THEOREM NothingAppliedTwice == SyncSpec => []AppliedOnce
<1>1. SyncInv => AppliedOnce
  BY DEF SyncInv, AppliedBelow, AppliedOnce
<1> QED BY <1>1, SyncStart, SyncStep, PTL DEF SyncSpec

(* Only a received frame moves a consumer's fold.                          *)
LEMMA FoldMoves ==
    ASSUME SyncInv, [SyncNext]_syncVars, NEW d \in Subs
    PROVE  \/ UNCHANGED <<cur[d], have[d], foldSeeded[d]>>
           \/ Receive(d)
<1>1. /\ cur \in [Subs -> 0..MaxSeq] /\ have \in [Subs -> SUBSET (1..MaxSeq)]
      /\ foldSeeded \in [Subs -> BOOLEAN]
  BY DEF SyncInv, SyncTypeOK
<1>2. ASSUME NEW c \in Subs, Receive(c), c # d
      PROVE  UNCHANGED <<cur[d], have[d], foldSeeded[d]>>
  BY <1>1, <1>2, ReceiveFold
<1>3. ASSUME NEW c \in Subs, ClientStep(c), ~Receive(c)
      PROVE  UNCHANGED <<cur, have, foldSeeded>>
  BY <1>3 DEF ClientStep, Dial, StreamEnds, ConnectionLost, ServerDrop, ServerOpens, clientVars
<1>4. CASE AuthorityStep /\ UNCHANGED <<clientVars, faults>>
  BY <1>4 DEF clientVars
<1>5. CASE Crash \/ UNCHANGED syncVars
  BY <1>5 DEF Crash, syncVars, clientVars
<1> QED BY <1>2, <1>3, <1>4, <1>5 DEF SyncNext, ClientStep

(* A connection that StreamSince serves from the ring hands the consumer   *)
(* consecutive numbers: no gap and no repetition where the replayed frames *)
(* meet the live ones, whatever is published in between.                   *)
THEOREM ResumeHasNoGap == SyncSpec => HonouredResumeGapless
<1>1. ASSUME SyncInv, [SyncNext]_syncVars, NEW c \in Subs, conn[c] = "resumed", cur'[c] # cur[c]
      PROVE  cur'[c] = cur[c] + 1
  <2>1. Receive(c)
    BY <1>1, FoldMoves
  <2>2. cur \in [Subs -> 0..MaxSeq]
    BY <1>1 DEF SyncInv, SyncTypeOK
  <2> QED BY <1>1, <2>1, <2>2, ReceiveFold
<1>2. SyncInv /\ [SyncNext]_syncVars =>
         [\A c \in Subs : conn[c] = "resumed" /\ cur'[c] # cur[c] => cur'[c] = cur[c] + 1]_syncVars
  BY <1>1
<1> QED BY <1>2, SyncStart, SyncStep, PTL DEF SyncSpec, HonouredResumeGapless

(* The one step that breaks a consumer's fold, for every number of         *)
(* consumers, every ring, channel and event count: on a connection asked   *)
(* for with a cursor that StreamSince refused, a frame of the fan-out      *)
(* overtakes the snapshot of Stream and is taken for "resume honored".     *)
THEOREM FoldBrokenOnlyByOvertaking == SyncSpec => OnlyOvertakenBreaks
<1>1. ASSUME SyncInv, [SyncNext]_syncVars, NEW c \in Subs, Exact(c), ~Exact(c)'
      PROVE  conn[c] = "live" /\ resuming[c] /\ ~seeded[c]
  <2>1. /\ cur \in [Subs -> 0..MaxSeq] /\ have \in [Subs -> SUBSET (1..MaxSeq)]
        /\ foldSeeded \in [Subs -> BOOLEAN] /\ MaxSeq \in Nat
    BY <1>1, BoundsAssumption DEF SyncInv, SyncTypeOK
  <2>2. Receive(c)
    BY <1>1, FoldMoves DEF Exact
  <2>3. ~UNCHANGED <<cur, have, foldSeeded, applied>>
    BY <1>1 DEF Exact
  <2>4. ASSUME NEW n \in 0..MaxSeq, cur' = [cur EXCEPT ![c] = n], have' = [have EXCEPT ![c] = 1..n]
        PROVE  Exact(c)'
    BY <2>1, <2>4 DEF Exact
  <2>5. ASSUME NEW n \in 1..MaxSeq, n = cur[c] + 1, foldSeeded' = foldSeeded,
               cur' = [cur EXCEPT ![c] = n], have' = [have EXCEPT ![c] = @ \cup {n}]
        PROVE  Exact(c)'
    <3>1. foldSeeded[c] => have[c] = 1..cur[c]
      BY <1>1 DEF Exact
    <3>2. cur'[c] = cur[c] + 1 /\ have'[c] = have[c] \cup {cur[c] + 1} /\ cur[c] \in Nat
      BY <2>1, <2>5
    <3>3. (1..cur[c]) \cup {cur[c] + 1} = 1..(cur[c] + 1)
      BY <3>2
    <3> QED BY <2>5, <3>1, <3>2, <3>3 DEF Exact
  <2>6. PICK n \in 1..MaxSeq :
           /\ cur' = [cur EXCEPT ![c] = n] /\ have' = [have EXCEPT ![c] = @ \cup {n}]
           /\ foldSeeded' = foldSeeded
           /\ conn[c] = "resumed" \/ seeded[c] => n = cur[c] + 1
           /\ seeded[c] \/ resuming[c]
           /\ conn[c] \in {"live", "resumed"}
    BY <1>1, <2>2, <2>3, <2>4, ReceiveFold
  <2> QED BY <1>1, <2>5, <2>6
<1>2. SyncInv /\ [SyncNext]_syncVars =>
         [\A c \in Subs : Exact(c) /\ ~Exact(c)'
                             => conn[c] = "live" /\ resuming[c] /\ ~seeded[c]]_syncVars
  BY <1>1
<1> QED BY <1>2, SyncStart, SyncStep, PTL DEF SyncSpec, OnlyOvertakenBreaks
=============================================================================
