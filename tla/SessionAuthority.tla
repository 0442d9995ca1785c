-------------------------- MODULE SessionAuthority --------------------------
(***************************************************************************)
(* The pod-local session state authority                                   *)
(* (cmd/workspace-agentd/sessionstate): assignment of sequence numbers     *)
(* behind a durable cursor, the replay ring, the fan-out to subscribers,   *)
(* the reseed procedure with its inbound buffer, and process death.        *)
(*                                                                         *)
(* One step is one critical section of Authority.mu.  The two sections     *)
(* that apply several events under one hold (the orphan fold and the flush *)
(* of the reseed) are a sequence of steps during which `rs' says the lock  *)
(* is taken, so that a reader of a channel, which needs no lock, and a     *)
(* crash can fall between two of them.  What an event says is left out:    *)
(* an event is its number in the order the harness emitted it, or Local    *)
(* when agentd itself made it (reconcile, lease diff, action, orphan).     *)
(***************************************************************************)
EXTENDS Naturals, Sequences

CONSTANTS
    Subs,        \* identities of stream connections (consumers)
    RingCap,     \* Config.ReplayRingFrames
    RingBytes,   \* Config.ReplayRingBytes
    ChanCap,     \* streamBuffer
    BigEvents,   \* harness events whose frame weighs two bytes, not one
    MaxSeq,      \* bound: sequence numbers assigned
    MaxEvents,   \* bound: events the harness emits
    MaxOrphans   \* bound: in-flight tool parts one harness restart orphans

ASSUME BoundsAssumption ==
    /\ RingCap \in Nat \ {0}
    /\ RingBytes \in Nat \ {0}
    /\ ChanCap \in Nat \ {0}
    /\ MaxSeq \in Nat
    /\ MaxEvents \in Nat
    /\ MaxOrphans \in Nat
    /\ BigEvents \subseteq 1..MaxEvents

VARIABLES
    disk,      \* seqCursor: the number the cursor file holds
    seq,       \* Authority.seq
    ring,      \* replayRing.frames
    subs,      \* Authority.subs: the connections fan-out sends to
    conn,      \* what each connection's goroutine is doing
    ch,        \* subscriber.ch of each connection
    rep,       \* StreamSince's replay slice, what is left to send of it
    buffering, \* Authority.buffering
    pending,   \* Authority.pending
    batch,     \* flush's local `pending'
    rs,        \* where the reseed procedure is
    orphans,   \* captured orphan parts still to fold
    emitted,   \* harness: events emitted so far
    log        \* history: every frame ever published, over all processes

cursorVars == <<disk, seq>>
streamVars == <<subs, conn, ch, rep>>
reseedVars == <<buffering, pending, batch, rs, orphans>>
vars == <<cursorVars, ring, streamVars, reseedVars, emitted, log>>

Local == 0

Frames ==
    [kind : {"event", "reseed", "snapshot"}, seq : 0..MaxSeq, ev : 0..MaxEvents]

Frame(k, n, e) == [kind |-> k, seq |-> n, ev |-> e]

ReseedPhases == {"idle", "armed", "orphans", "swapped", "flush"}

ConnStates == {"none", "fallback", "opening", "live", "resumed"}

TypeOK ==
    /\ disk \in 0..MaxSeq
    /\ seq \in 0..MaxSeq
    /\ ring \in Seq(Frames)
    /\ subs \subseteq Subs
    /\ conn \in [Subs -> ConnStates]
    /\ ch \in [Subs -> Seq(Frames)]
    /\ rep \in [Subs -> Seq(Frames)]
    /\ buffering \in BOOLEAN
    /\ pending \in Seq(1..MaxEvents)
    /\ batch \in Seq(1..MaxEvents)
    /\ rs \in ReseedPhases
    /\ orphans \in 0..MaxOrphans
    /\ emitted \in 0..MaxEvents
    /\ log \in Seq(Frames)

MuFree_flushUnlocked == rs # "orphans"

(* Authority.mu is not held across steps by the reseed procedure. *)
MuFree == rs \notin {"orphans", "flush"}

-----------------------------------------------------------------------------
(* The replay ring *)

frameSize(f) == IF f.ev \in BigEvents THEN 2 ELSE 1

(* r.bytes of a ring; the frames of one ring have different numbers. *)
ringBytes(r) ==
    Len(r) + Len(SelectSeq(r, LAMBDA f : frameSize(f) = 2))

WithinBudgets(r) == Len(r) <= RingCap /\ ringBytes(r) <= RingBytes

(* The eviction loop of replayRing.append stops at the first suffix that   *)
(* is within both budgets, or when only the newest frame is left.          *)
EvictionStops(r, k) == k = Len(r) \/ WithinBudgets(SubSeq(r, k, Len(r)))

Evicted(r, k) ==
    /\ EvictionStops(r, k)
    /\ \A j \in 1..(k - 1) : ~EvictionStops(r, j)

ringAppend(f) ==
    LET r == Append(ring, f)
    IN  \E k \in 1..Len(r) : Evicted(r, k) /\ ring' = SubSeq(r, k, Len(r))

lowWater_emptyRingServesAll == IF ring = <<>> THEN 0 ELSE ring[1].seq - 1

lowWater == IF ring = <<>> THEN seq ELSE ring[1].seq - 1

(* The copy loop of replayRing.after keeps the frames above since; the     *)
(* numbers of a ring grow, so what it keeps of s is what follows k - 1.    *)
KeepsFrom(s, since, k) ==
    \A j \in 1..Len(s) : s[j].seq > since <=> j >= k

-----------------------------------------------------------------------------
(* Sequence numbers, fan-out *)

(* A full channel drops its subscriber: cancelled and deleted from subs.   *)
Full(c) == Len(ch[c]) >= ChanCap

fanoutLocked(f) ==
    /\ ringAppend(f)
    /\ ch' = [c \in Subs |-> IF c \in subs /\ ~Full(c) THEN Append(ch[c], f)
                                                      ELSE ch[c]]
    /\ subs' = {c \in subs : ~Full(c)}
    /\ log' = Append(log, f)

Publish_beforePersist(k, e) ==
    /\ seq < MaxSeq
    /\ seq' = seq + 1
    /\ UNCHANGED disk
    /\ fanoutLocked(Frame(k, seq + 1, e))

(* seqCursor.persist succeeds, the number is assigned and published.       *)
Publish(k, e) ==
    /\ seq < MaxSeq
    /\ disk' = seq + 1
    /\ seq' = seq + 1
    /\ fanoutLocked(Frame(k, seq + 1, e))

(* seqCursor.persist fails: before the rename nothing has changed, after   *)
(* it (directory fsync) the file is ahead of seq.  Nothing is published.   *)
PersistFails ==
    /\ disk' \in {disk, seq + 1} \cap (0..MaxSeq)
    /\ UNCHANGED <<seq, ring, subs, ch, log>>

applyLocked(e) == Publish("event", e) \/ PersistFails

-----------------------------------------------------------------------------
(* Actions of the authority *)

(* One harness event: a payload the parser rejects, or that carries        *)
(* nothing, is only counted; during a reseed it is buffered.               *)
Ingest ==
    /\ MuFree
    /\ emitted < MaxEvents
    /\ emitted' = emitted + 1
    /\ \/ UNCHANGED <<cursorVars, ring, subs, ch, log, pending>>
       \/ /\ buffering
          /\ pending' = Append(pending, emitted + 1)
          /\ UNCHANGED <<cursorVars, ring, subs, ch, log>>
       \/ /\ ~buffering
          /\ applyLocked(emitted + 1)
          /\ UNCHANGED pending
    /\ UNCHANGED <<conn, rep, buffering, batch, rs, orphans>>

(* Reconcile, the lease diffs and the answer verb apply their own events   *)
(* directly, whether or not a reseed is buffering harness events.          *)
ApplyOwn ==
    /\ MuFree
    /\ applyLocked(Local)
    /\ UNCHANGED <<conn, rep, reseedVars, emitted>>

(* Reseed up to the quiesce point: the store read has succeeded, buffering *)
(* is armed and, on a generation change, the orphaned parts are captured.  *)
ReseedArm ==
    /\ rs = "idle"
    /\ buffering' = TRUE
    /\ rs' = "armed"
    /\ orphans' \in 0..MaxOrphans
    /\ UNCHANGED <<cursorVars, ring, streamVars, pending, batch, emitted, log>>

(* The projection swap consumes a number of its own; if that number cannot *)
(* be made durable the reseed only flushes and returns the error.          *)
ReseedSwap ==
    /\ rs = "armed"
    /\ \/ Publish("reseed", Local) /\ rs' = "orphans" /\ UNCHANGED orphans
       \/ PersistFails /\ rs' = "swapped" /\ orphans' = 0
    /\ UNCHANGED <<conn, rep, buffering, pending, batch, emitted>>

(* The orphaned parts are folded as aborted under the same hold.           *)
ReseedOrphan ==
    /\ rs = "orphans"
    /\ \/ /\ orphans > 0
          /\ orphans' = orphans - 1
          /\ applyLocked(Local)
          /\ UNCHANGED rs
       \/ /\ orphans = 0
          /\ rs' = "swapped"
          /\ UNCHANGED <<orphans, cursorVars, ring, subs, ch, log>>
    /\ UNCHANGED <<conn, rep, buffering, pending, batch, emitted>>

FlushBegin ==
    /\ rs = "swapped"
    /\ rs' = "flush"
    /\ buffering' = FALSE
    /\ batch' = pending
    /\ pending' = <<>>
    /\ UNCHANGED <<cursorVars, ring, streamVars, orphans, emitted, log>>

(* The flush applies the buffered events under one hold of the lock, each  *)
(* parsed again (a payload that no longer parses is dropped, as is one     *)
(* whose number cannot be persisted).                                      *)
FlushStep ==
    /\ rs = "flush"
    /\ \/ /\ batch # <<>>
          /\ batch' = Tail(batch)
          /\ applyLocked(Head(batch))
          /\ UNCHANGED rs
       \/ /\ batch = <<>>
          /\ rs' = "idle"
          /\ UNCHANGED <<batch, cursorVars, ring, subs, ch, log>>
    /\ UNCHANGED <<conn, rep, buffering, pending, orphans, emitted>>

-----------------------------------------------------------------------------
(* Streams *)

(* Stream registers and stamps under one hold; the snapshot frame is sent  *)
(* later, outside it.  StreamSince falls back to it after releasing the    *)
(* lock it decided under.                                                  *)
Stream(c) ==
    /\ MuFree
    /\ conn[c] \in {"none", "fallback"}
    /\ subs' = subs \cup {c}
    /\ conn' = [conn EXCEPT ![c] = "opening"]
    /\ rep' = [rep EXCEPT ![c] = <<Frame("snapshot", seq, Local)>>]
    /\ ch' = [ch EXCEPT ![c] = <<>>]
    /\ UNCHANGED <<cursorVars, ring, reseedVars, emitted, log>>

(* The snapshot frame goes into the subscriber's own channel, behind what  *)
(* fan-out has put there since the registration.                           *)
SendSnapshot(c) ==
    /\ conn[c] = "opening"
    /\ ~Full(c)
    /\ conn' = [conn EXCEPT ![c] = "live"]
    /\ ch' = [ch EXCEPT ![c] = Append(@, rep[c][1])]
    /\ rep' = [rep EXCEPT ![c] = <<>>]
    /\ UNCHANGED <<cursorVars, ring, subs, reseedVars, emitted, log>>

Servable_noLowWater(since) == since <= seq

Servable(since) == lowWater <= since /\ since <= seq

StreamSince(c, since) ==
    /\ MuFree
    /\ conn[c] = "none"
    /\ \/ /\ Servable(since)
          /\ subs' = subs \cup {c}
          /\ conn' = [conn EXCEPT ![c] = "resumed"]
          /\ \E k \in 1..(Len(ring) + 1) :
                /\ KeepsFrom(ring, since, k)
                /\ rep' = [rep EXCEPT ![c] = SubSeq(ring, k, Len(ring))]
          /\ ch' = [ch EXCEPT ![c] = <<>>]
       \/ /\ ~Servable(since)
          /\ conn' = [conn EXCEPT ![c] = "fallback"]
          /\ UNCHANGED <<subs, rep, ch>>
    /\ UNCHANGED <<cursorVars, ring, reseedVars, emitted, log>>

(* The next frame on the wire: the replay first, then the live channel.    *)
Outgoing(c) == rep[c] \o ch[c]

(* The pump goroutine hands one frame to the transport.                    *)
Pump(c) ==
    /\ conn[c] \in {"live", "resumed"}
    /\ Outgoing(c) # <<>>
    /\ IF rep[c] # <<>>
       THEN rep' = [rep EXCEPT ![c] = Tail(@)] /\ UNCHANGED ch
       ELSE ch' = [ch EXCEPT ![c] = Tail(@)] /\ UNCHANGED rep
    /\ UNCHANGED <<cursorVars, ring, subs, conn, reseedVars, emitted, log>>

(* dropSub: the connection ends, from either side; while the snapshot      *)
(* frame is being sent only a drop by fan-out can end it.                  *)
dropSub(c) ==
    /\ MuFree
    /\ conn[c] \in {"live", "resumed"} \/ (conn[c] = "opening" /\ c \notin subs)
    /\ subs' = subs \ {c}
    /\ conn' = [conn EXCEPT ![c] = "none"]
    /\ ch' = [ch EXCEPT ![c] = <<>>]
    /\ rep' = [rep EXCEPT ![c] = <<>>]
    /\ UNCHANGED <<cursorVars, ring, reseedVars, emitted, log>>

-----------------------------------------------------------------------------
(* Process death, at any point, also in the middle of a persist; New loads *)
(* the cursor and everything else starts empty.                            *)
Restart ==
    /\ disk' \in {disk, seq + 1} \cap (disk..MaxSeq)
    /\ seq' = disk'
    /\ ring' = <<>>
    /\ subs' = {}
    /\ conn' = [c \in Subs |-> "none"]
    /\ ch' = [c \in Subs |-> <<>>]
    /\ rep' = [c \in Subs |-> <<>>]
    /\ buffering' = FALSE
    /\ pending' = <<>>
    /\ batch' = <<>>
    /\ rs' = "idle"
    /\ orphans' = 0
    /\ UNCHANGED <<emitted, log>>

Init ==
    /\ disk = 0
    /\ seq = 0
    /\ ring = <<>>
    /\ subs = {}
    /\ conn = [c \in Subs |-> "none"]
    /\ ch = [c \in Subs |-> <<>>]
    /\ rep = [c \in Subs |-> <<>>]
    /\ buffering = FALSE
    /\ pending = <<>>
    /\ batch = <<>>
    /\ rs = "idle"
    /\ orphans = 0
    /\ emitted = 0
    /\ log = <<>>

ReseedStep == ReseedSwap \/ ReseedOrphan \/ FlushBegin \/ FlushStep

AuthorityStep == Ingest \/ ApplyOwn \/ ReseedArm \/ ReseedStep

Next ==
    \/ AuthorityStep
    \/ \E c \in Subs :
          \/ Stream(c)
          \/ SendSnapshot(c)
          \/ \E since \in 0..MaxSeq : StreamSince(c, since)
          \/ Pump(c)
          \/ dropSub(c)
    \/ Restart

Spec == Init /\ [][Next]_vars

-----------------------------------------------------------------------------
(* Correctness *)

(* A published number is never used again, not even by a later process:    *)
(* seqCursor.persist has made it durable before fanoutLocked publishes it. *)
SeqNeverReused ==
    \A i, j \in 1..Len(log) : i < j => log[i].seq < log[j].seq

(* For every cursor that StreamSince accepts, the frames replayed from the *)
(* ring are all the frames ever published above it, in publish order, and  *)
(* no number between the cursor and the current one is missing.            *)
RingServesExactly ==
    \A since \in 0..MaxSeq : Servable(since) =>
        \E k \in 1..(Len(ring) + 1), m \in 1..(Len(log) + 1) :
            /\ KeepsFrom(ring, since, k)
            /\ KeepsFrom(log, since, m)
            /\ SubSeq(ring, k, Len(ring)) = SubSeq(log, m, Len(log))
            /\ Len(ring) + 1 - k = seq - since

(* Harness events are published in the order the harness emitted them,     *)
(* through a reseed's buffer and its flush as well; and buffering ends     *)
(* with the reseed that armed it, whichever way that ends, with no event   *)
(* left behind in the buffer.                                              *)
HarnessOrder ==
    /\ \A i, j \in 1..Len(log) :
          i < j /\ log[i].ev # Local /\ log[j].ev # Local
              => log[i].ev < log[j].ev
    /\ rs = "idle" => ~buffering /\ pending = <<>> /\ batch = <<>>

=============================================================================
