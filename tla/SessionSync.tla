----------------------------- MODULE SessionSync -----------------------------
(***************************************************************************)
(* The authority together with the consumers of its stream, each of them   *)
(* the reference client pkg/abi/abiclient, which presents its cursor when  *)
(* it reconnects.  A fold is the set of sequence numbers whose effect it   *)
(* holds.                                                                  *)
(***************************************************************************)
EXTENDS SessionAuthority

CONSTANTS
    MaxFaults    \* bound: process deaths and lost connections

ASSUME FaultsAssumption == MaxFaults \in Nat

VARIABLES
    up,           \* the consumer reads this connection
    seeded,       \* first frame of the connection accepted
    resuming,     \* the connection was asked for with a cursor
    cur,          \* SessionState.Seq
    have,         \* numbers whose effect the fold holds
    foldSeeded,   \* Client.foldSeeded
    needSnapshot, \* Client.needSnapshot
    applied,      \* history: numbers handed to the applied-events callback
    faults        \* history: faults so far

clientVars ==
    <<up, seeded, resuming, cur, have, foldSeeded, needSnapshot, applied>>
syncVars == <<vars, clientVars, faults>>

SyncTypeOK ==
    /\ TypeOK
    /\ up \in [Subs -> BOOLEAN]
    /\ seeded \in [Subs -> BOOLEAN]
    /\ resuming \in [Subs -> BOOLEAN]
    /\ cur \in [Subs -> 0..MaxSeq]
    /\ have \in [Subs -> SUBSET (1..MaxSeq)]
    /\ foldSeeded \in [Subs -> BOOLEAN]
    /\ needSnapshot \in [Subs -> BOOLEAN]
    /\ applied \in [Subs -> Seq(1..MaxSeq)]
    /\ faults \in 0..MaxFaults

-----------------------------------------------------------------------------
(* Client.Stream: one dial.  Only a fold that exists and that no reseed    *)
(* has invalidated is offered as a cursor.                                 *)
Dial(c) ==
    /\ ~up[c]
    /\ conn[c] = "none"
    /\ up' = [up EXCEPT ![c] = TRUE]
    /\ seeded' = [seeded EXCEPT ![c] = FALSE]
    /\ LET withCursor == foldSeeded[c] /\ ~needSnapshot[c]
       IN  /\ resuming' = [resuming EXCEPT ![c] = withCursor]
           /\ IF withCursor THEN StreamSince(c, cur[c]) ELSE Stream(c)
    /\ UNCHANGED <<cur, have, foldSeeded, needSnapshot, applied, faults>>

HangUp(c) == up' = [up EXCEPT ![c] = FALSE]

applySnapshot(c, f) ==
    /\ cur' = [cur EXCEPT ![c] = f.seq]
    /\ have' = [have EXCEPT ![c] = 1..f.seq]
    /\ foldSeeded' = [foldSeeded EXCEPT ![c] = TRUE]
    /\ needSnapshot' = [needSnapshot EXCEPT ![c] = FALSE]
    /\ seeded' = [seeded EXCEPT ![c] = TRUE]
    /\ UNCHANGED <<up, resuming, applied>>

(* The discard rule drops what the fold already holds; the callback is     *)
(* called for every event frame.                                           *)
applyEvent(c, f) ==
    /\ IF f.seq <= cur[c]
       THEN UNCHANGED <<cur, have>>
       ELSE /\ cur' = [cur EXCEPT ![c] = f.seq]
            /\ have' = [have EXCEPT ![c] = @ \cup {f.seq}]
    /\ applied' = [applied EXCEPT ![c] = Append(@, f.seq)]
    /\ seeded' = [seeded EXCEPT ![c] = TRUE]
    /\ UNCHANGED <<up, resuming, foldSeeded, needSnapshot>>

Opened_anyFrame(c) == TRUE

(* A first frame that is not a snapshot is accepted only as the answer to  *)
(* a cursor ("resume honored").                                            *)
Opened(c) == seeded[c] \/ resuming[c]

onReseed_keepsCursor(c) == HangUp(c) /\ UNCHANGED needSnapshot

(* A reseed invalidates the fold: the next dial asks for a snapshot.       *)
onReseed(c) == HangUp(c) /\ needSnapshot' = [needSnapshot EXCEPT ![c] = TRUE]

(* One received frame. *)
Receive(c) ==
    /\ up[c]
    /\ Pump(c)
    /\ LET f == Head(Outgoing(c))
       IN  \/ /\ f.kind = "snapshot" /\ ~seeded[c]
              /\ applySnapshot(c, f)
           \/ /\ f.kind = "snapshot" /\ seeded[c]
              /\ UNCHANGED clientVars
           \/ /\ f.kind # "snapshot" /\ ~Opened(c)
              /\ HangUp(c)
              /\ UNCHANGED <<seeded, resuming, cur, have, foldSeeded,
                             needSnapshot, applied>>
           \/ /\ f.kind = "reseed" /\ Opened(c)
              /\ onReseed(c)
              /\ UNCHANGED <<seeded, resuming, cur, have, foldSeeded, applied>>
           \/ /\ f.kind = "event" /\ Opened(c)
              /\ applyEvent(c, f)
    /\ UNCHANGED faults

(* The stream ends under the consumer: the server dropped a slow consumer, *)
(* or its process died.                                                    *)
StreamEnds(c) ==
    /\ up[c]
    /\ c \notin subs /\ conn[c] # "fallback"
    /\ HangUp(c)
    /\ UNCHANGED <<vars, seeded, resuming, cur, have, foldSeeded, needSnapshot,
                   applied, faults>>

ConnectionLost(c) ==
    /\ up[c]
    /\ faults < MaxFaults
    /\ faults' = faults + 1
    /\ HangUp(c)
    /\ UNCHANGED <<vars, seeded, resuming, cur, have, foldSeeded, needSnapshot,
                   applied>>

(* The server notices that the consumer is gone. *)
ServerDrop(c) ==
    /\ ~up[c] \/ c \notin subs
    /\ dropSub(c)
    /\ UNCHANGED <<clientVars, faults>>

ServerOpens(c) ==
    /\ \/ conn[c] = "fallback" /\ Stream(c)
       \/ SendSnapshot(c)
    /\ UNCHANGED <<clientVars, faults>>

Crash ==
    /\ faults < MaxFaults
    /\ faults' = faults + 1
    /\ Restart
    /\ UNCHANGED clientVars

SyncInit ==
    /\ Init
    /\ up = [c \in Subs |-> FALSE]
    /\ seeded = [c \in Subs |-> FALSE]
    /\ resuming = [c \in Subs |-> FALSE]
    /\ cur = [c \in Subs |-> 0]
    /\ have = [c \in Subs |-> {}]
    /\ foldSeeded = [c \in Subs |-> FALSE]
    /\ needSnapshot = [c \in Subs |-> FALSE]
    /\ applied = [c \in Subs |-> <<>>]
    /\ faults = 0

SyncNext ==
    \/ AuthorityStep /\ UNCHANGED <<clientVars, faults>>
    \/ Crash
    \/ \E c \in Subs :
          \/ Dial(c)
          \/ Receive(c)
          \/ StreamEnds(c)
          \/ ConnectionLost(c)
          \/ ServerDrop(c)
          \/ ServerOpens(c)

SyncSpec == SyncInit /\ [][SyncNext]_syncVars

(* Every goroutine that can run, runs.  What has to take Authority.mu gets *)
(* strong fairness: the lock may be taken again and again by others, and a *)
(* sync.Mutex hands itself to a waiter that has starved for a millisecond. *)
(* A consumer that is disconnected dials again (the client's outer loop).  *)
SyncFairness ==
    /\ WF_syncVars(ReseedStep /\ UNCHANGED <<clientVars, faults>>)
    /\ \A c \in Subs :
          /\ WF_syncVars(Receive(c))
          /\ WF_syncVars(StreamEnds(c))
          /\ SF_syncVars(Dial(c))
          /\ SF_syncVars(ServerDrop(c))
          /\ SF_syncVars(ServerOpens(c))

FairSyncSpec == SyncSpec /\ SyncFairness

-----------------------------------------------------------------------------
(* Correctness *)

(* What every consumer is promised: its fold holds exactly the events up   *)
(* to its cursor (abiclient: "I hold exactly the fold of events 1..Seq").  *)
Exact(c) == foldSeeded[c] => have[c] = 1..cur[c]

FoldExact == \A c \in Subs : Exact(c)

(* An exact fold stays exact over every drop, reseed, lost connection and  *)
(* restart but for one step: the connection was opened with a cursor that  *)
(* the server refused, and the first frame is not the snapshot.            *)
OnlyOvertakenBreaks ==
    [][\A c \in Subs : Exact(c) /\ ~Exact(c)'
                          => conn[c] = "live" /\ resuming[c] /\ ~seeded[c]]_syncVars

(* On a connection the server serves from the ring a consumer's cursor     *)
(* moves one number at a time: nothing is skipped between the replayed and *)
(* the live frames, and nothing is applied twice.                          *)
HonouredResumeGapless ==
    [][\A c \in Subs : conn[c] = "resumed" /\ cur'[c] # cur[c]
                          => cur'[c] = cur[c] + 1]_syncVars

(* The applied-events callback, which meters usage, sees every number at   *)
(* most once over all connections and all agentd processes.                *)
AppliedOnce ==
    \A c \in Subs : \A i, j \in 1..Len(applied[c]) :
        i < j => applied[c][i] < applied[c][j]

(* Stream is stuck: it sends the snapshot into a full channel, whose       *)
(* reader starts only after it, until the next fan-out drops the consumer. *)
SnapshotStuck(c) == conn[c] = "opening" /\ c \in subs /\ Full(c)

(* A consumer catches up again and again: no interplay of slow-consumer    *)
(* drops, refused first frames, reseeds and restarts keeps it behind once  *)
(* the authority stops publishing, but for the one stuck send.             *)
CatchesUp ==
    \A c \in Subs : []<>((foldSeeded[c] /\ cur[c] = seq) \/ SnapshotStuck(c))
=============================================================================
