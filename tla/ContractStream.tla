---------------------------- MODULE ContractStream ----------------------------
(***************************************************************************)
(* The API's contract stream of one workspace                              *)
(* (api/internal/services/contractstream): one reference-counted upstream  *)
(* to the pod shared by the browsers that are attached, the SSE handler of *)
(* each attachment, and the browser's fold (frontend useContractStream).   *)
(*                                                                         *)
(* An attachment is one SSE request with its handler; it outlives the      *)
(* browser's interest in it until the handler notices and unsubscribes.    *)
(* The pod's side is SessionAuthority's: a connection is stamped when it   *)
(* is registered, and its snapshot frame is sent later.                    *)
(***************************************************************************)
EXTENDS Naturals, Sequences, FiniteSets

CONSTANTS
    Browsers,   \* browser tabs on the workspace
    Conns,      \* attachments (SSE requests and their handlers)
    ChanCap,    \* subscriber.ch
    MaxSeq,     \* bound: numbers the pod assigns
    MaxStreams, \* bound: workspaceStream objects created
    MaxFaults   \* bound: upstream and browser connections that are lost

NoStream == 0
NoConn == <<>>

ASSUME StreamAssumption ==
    /\ IsFiniteSet(Conns) /\ NoConn \notin Conns
    /\ ChanCap \in Nat \ {0}
    /\ MaxSeq \in Nat
    /\ MaxStreams \in Nat
    /\ MaxFaults \in Nat

VARIABLES
    seq,       \* the pod's current number
    streams,   \* Manager.streams of the workspace: a stream, or none
    made,      \* streams created so far
    refs,      \* workspaceStream.refs
    cancelled, \* workspaceStream.cancel is closed
    link,      \* the upstream connection: frames on their way, if there is one
    upSeeded,  \* runOnce's seeded
    ws,        \* the stream an attachment was made to
    subs,      \* attachments that are in their stream's subs
    ch,        \* subscriber.ch of an attachment
    at,        \* the attachment a browser reads, or none
    owner,     \* attachments whose handler has not unsubscribed yet
    seeded,    \* the browser's seeded
    cur,       \* fold.seq
    have,      \* numbers whose effect the fold holds
    faults     \* history: faults so far

managerVars == <<streams, made, refs, cancelled>>
upVars == <<link, upSeeded>>
connVars == <<ws, subs, ch, owner>>
browserVars == <<at, seeded, cur, have>>
vars == <<seq, managerVars, upVars, connVars, browserVars, faults>>

StreamIds == 1..MaxStreams

Frames == [kind : {"snapshot", "event", "reseed"}, seq : 0..MaxSeq]

Frame(k, n) == [kind |-> k, seq |-> n]

Resync == [kind |-> "resync", seq |-> 0]

Links == [up : BOOLEAN, sending : BOOLEAN, stamp : 0..MaxSeq, frames : Seq(Frames)]

(* An upstream connection; while `sending' the pod has stamped a snapshot  *)
(* that is not on the wire yet.                                            *)
Down == [up |-> FALSE, sending |-> FALSE, stamp |-> 0, frames |-> <<>>]

TypeOK ==
    /\ seq \in 0..MaxSeq
    /\ streams \in StreamIds \cup {NoStream}
    /\ made \in 0..MaxStreams
    /\ refs \in [StreamIds -> 0..Cardinality(Conns)]
    /\ cancelled \subseteq StreamIds
    /\ link \in [StreamIds -> Links]
    /\ upSeeded \subseteq StreamIds
    /\ ws \in [Conns -> StreamIds \cup {NoStream}]
    /\ subs \subseteq Conns
    /\ ch \in [Conns -> Seq(Frames \cup {Resync})]
    /\ at \in [Browsers -> Conns \cup {NoConn}]
    /\ owner \subseteq Conns
    /\ seeded \subseteq Browsers
    /\ cur \in [Browsers -> 0..MaxSeq]
    /\ have \in [Browsers -> SUBSET (1..MaxSeq)]
    /\ faults \in 0..MaxFaults

-----------------------------------------------------------------------------
(* Attaching and detaching *)

(* Manager.Subscribe for a browser that (re)connects: the stream in the    *)
(* map is joined as it is, otherwise one is made and its run starts.       *)
Subscribe(b, c) ==
    /\ at[b] = NoConn
    /\ c \notin owner
    /\ \/ streams # NoStream /\ UNCHANGED <<streams, made>>
       \/ /\ streams = NoStream
          /\ made < MaxStreams
          /\ made' = made + 1
          /\ streams' = made + 1
    /\ ws' = [ws EXCEPT ![c] = streams']
    /\ subs' = subs \cup {c}
    /\ owner' = owner \cup {c}
    /\ ch' = [ch EXCEPT ![c] = <<>>]
    /\ refs' = [refs EXCEPT ![streams'] = @ + 1]
    /\ at' = [at EXCEPT ![b] = c]
    /\ seeded' = seeded \ {b}
    /\ UNCHANGED <<seq, cancelled, upVars, cur, have, faults>>

(* The handler of an attachment ends: the browser has gone, or fan-out     *)
(* closed the channel and it is drained.                                   *)
HandlerEnds(c) ==
    /\ c \in owner
    /\ \/ \A b \in Browsers : at[b] # c
       \/ c \notin subs /\ ch[c] = <<>>

(* remove: an attachment that fan-out dropped has given its reference back *)
(* already.                                                                *)
removed(c) == IF c \in subs THEN refs[ws[c]] - 1 ELSE refs[ws[c]]

(* The stream is cancelled and forgotten on the last detach.               *)
unsub(c) ==
    LET w == ws[c]
    IN  /\ HandlerEnds(c)
        /\ refs' = [refs EXCEPT ![w] = removed(c)]
        /\ subs' = subs \ {c}
        /\ owner' = owner \ {c}
        /\ ch' = [ch EXCEPT ![c] = <<>>]
        /\ ws' = [ws EXCEPT ![c] = NoStream]
        /\ at' = [b \in Browsers |-> IF at[b] = c THEN NoConn ELSE at[b]]
        /\ IF removed(c) = 0 /\ streams = w
           THEN streams' = NoStream /\ cancelled' = cancelled \cup {w}
           ELSE UNCHANGED <<streams, cancelled>>
        /\ UNCHANGED <<seq, made, upVars, seeded, cur, have, faults>>

-----------------------------------------------------------------------------
(* The upstream *)

(* The pod publishes an event, or a reseed notice, to every connection.    *)
Publish(k) ==
    /\ seq < MaxSeq
    /\ seq' = seq + 1
    /\ link' = [w \in StreamIds |->
                  IF link[w].up
                  THEN [link[w] EXCEPT !.frames = Append(@, Frame(k, seq + 1))]
                  ELSE link[w]]
    /\ UNCHANGED <<managerVars, upSeeded, connVars, browserVars, faults>>

(* runOnce connects, the pod registers the connection and stamps it ...    *)
Connect(w) ==
    /\ w <= made /\ w \notin cancelled
    /\ ~link[w].up
    /\ link' = [link EXCEPT ![w] = [Down EXCEPT !.up = TRUE, !.sending = TRUE,
                                              !.stamp = seq]]
    /\ upSeeded' = upSeeded \ {w}
    /\ UNCHANGED <<seq, managerVars, connVars, browserVars, faults>>

(* ... and sends the snapshot, behind what it published since.             *)
PodSnapshot(w) ==
    /\ link[w].sending
    /\ link' = [link EXCEPT ![w].sending = FALSE,
                            ![w].frames = Append(@, Frame("snapshot", link[w].stamp))]
    /\ UNCHANGED <<seq, managerVars, upSeeded, connVars, browserVars, faults>>

(* The connection ends under runOnce, or its stream was cancelled.         *)
Disconnect(w) ==
    /\ link[w].up
    /\ \/ w \in cancelled /\ UNCHANGED faults
       \/ w \notin cancelled /\ faults < MaxFaults /\ faults' = faults + 1
    /\ link' = [link EXCEPT ![w] = Down]
    /\ UNCHANGED <<seq, managerVars, upSeeded, connVars, browserVars>>

Full(c) == Len(ch[c]) >= ChanCap

dropped_refKept(w) == 0

(* The references fan-out gives back for the subscribers it drops.         *)
dropped(w) == Cardinality({c \in subs : ws[c] = w /\ Full(c)})

(* fanout, with dropLocked for a full channel: drained, a Resync, closed.  *)
fanout(w, f) ==
    /\ ch' = [c \in Conns |->
                IF c \in subs /\ ws[c] = w
                THEN IF Full(c) THEN <<Resync>> ELSE Append(ch[c], f)
                ELSE ch[c]]
    /\ refs' = [refs EXCEPT ![w] = @ - dropped(w)]
    /\ subs' = {c \in subs : ws[c] # w \/ ~Full(c)}

forwards_beforeSnapshot(w, f) == f.kind # "reseed"

(* A frame is forwarded unless it asks for a new connection: a reseed, or  *)
(* a first frame that is not a snapshot.                                   *)
forwards(w, f) == f.kind # "reseed" /\ (w \in upSeeded \/ f.kind = "snapshot")

Forward(w) ==
    LET f == Head(link[w].frames)
    IN  /\ link[w].up /\ link[w].frames # <<>>
        /\ w \notin cancelled
        /\ \/ /\ forwards(w, f)
              /\ fanout(w, f)
              /\ link' = [link EXCEPT ![w].frames = Tail(@)]
              /\ upSeeded' = upSeeded \cup (IF f.kind = "snapshot" THEN {w} ELSE {})
           \/ /\ ~forwards(w, f)
              /\ link' = [link EXCEPT ![w] = Down]
              /\ UNCHANGED <<upSeeded, refs, subs, ch>>
        /\ UNCHANGED <<seq, streams, made, cancelled, ws, owner, browserVars, faults>>

-----------------------------------------------------------------------------
(* The browser *)

Leaves(b) == at' = [at EXCEPT ![b] = NoConn]

(* One SSE message: a snapshot replaces the fold, an event before any      *)
(* snapshot and a resync make the browser reconnect at once, an event is   *)
(* applied by the discard rule.                                            *)
Receive(b) ==
    LET c == at[b]
        f == Head(ch[c])
    IN  /\ c # NoConn
        /\ ch[c] # <<>>
        /\ ch' = [ch EXCEPT ![c] = Tail(@)]
        /\ \/ /\ f.kind = "snapshot"
              /\ cur' = [cur EXCEPT ![b] = f.seq]
              /\ have' = [have EXCEPT ![b] = 1..f.seq]
              /\ seeded' = seeded \cup {b}
              /\ UNCHANGED at
           \/ /\ f.kind = "resync" \/ (f.kind = "event" /\ b \notin seeded)
              /\ Leaves(b)
              /\ UNCHANGED <<seeded, cur, have>>
           \/ /\ f.kind = "event" /\ b \in seeded /\ f.seq > cur[b]
              /\ cur' = [cur EXCEPT ![b] = f.seq]
              /\ have' = [have EXCEPT ![b] = @ \cup {f.seq}]
              /\ UNCHANGED <<at, seeded>>
           \/ /\ f.kind = "event" /\ b \in seeded /\ f.seq <= cur[b]
              /\ UNCHANGED browserVars
        /\ UNCHANGED <<seq, managerVars, upVars, ws, subs, owner, faults>>

(* The browser loses its connection, or its tab is closed and reopened     *)
(* with the fold it had.                                                   *)
BrowserLost(b) ==
    /\ at[b] # NoConn
    /\ faults < MaxFaults
    /\ faults' = faults + 1
    /\ Leaves(b)
    /\ UNCHANGED <<seq, managerVars, upVars, connVars, seeded, cur, have>>

Init ==
    /\ seq = 0
    /\ streams = NoStream
    /\ made = 0
    /\ refs = [w \in StreamIds |-> 0]
    /\ cancelled = {}
    /\ link = [w \in StreamIds |-> Down]
    /\ upSeeded = {}
    /\ ws = [c \in Conns |-> NoStream]
    /\ subs = {}
    /\ ch = [c \in Conns |-> <<>>]
    /\ at = [b \in Browsers |-> NoConn]
    /\ owner = {}
    /\ seeded = {}
    /\ cur = [b \in Browsers |-> 0]
    /\ have = [b \in Browsers |-> {}]
    /\ faults = 0

Next ==
    \/ \E k \in {"event", "reseed"} : Publish(k)
    \/ \E w \in StreamIds : \/ Connect(w) \/ PodSnapshot(w)
                            \/ Disconnect(w) \/ Forward(w)
    \/ \E b \in Browsers : \/ \E c \in Conns : Subscribe(b, c)
                           \/ Receive(b)
                           \/ BrowserLost(b)
    \/ \E c \in Conns : unsub(c)

Spec == Init /\ [][Next]_vars

-----------------------------------------------------------------------------
(* Correctness *)

(* A browser's fold implements the abstract consumer through the shared    *)
(* upstream: always a prefix, which only grows, over reconnects of the     *)
(* upstream, drops, joining a running stream and leaving it.               *)
Prefix == INSTANCE PrefixFold WITH
    Consumers <- Browsers,
    top <- seq,
    fold <- have

BrowserFoldsArePrefixes == Prefix!Spec

(* The reference count is the number of subscribers, so the upstream goes  *)
(* with the last of them and not before, whoever drops them: a subscriber  *)
(* is never left on a cancelled stream, and a stream in the map has an     *)
(* attachment that will release it.                                        *)
RefcountExact ==
    /\ \A w \in StreamIds : refs[w] = Cardinality({c \in subs : ws[c] = w})
    /\ \A c \in subs : ws[c] \notin cancelled
    /\ streams # NoStream => \E c \in owner : ws[c] = streams
=============================================================================
