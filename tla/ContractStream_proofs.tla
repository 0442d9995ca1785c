------------------------ MODULE ContractStream_proofs ------------------------
(***************************************************************************)
(* Proofs about the API's contract stream.                                 *)
(*                                                                         *)
(* The count of references is exact because only one stream is live at a   *)
(* time: what is not in the manager's map is cancelled (LiveIsMapped), and *)
(* every attachment that still counts is on the live stream.  The browsers *)
(* fold prefixes because the frames on their way are numbered without a    *)
(* gap, from the pod to the last channel (FoldInv).                        *)
(***************************************************************************)
EXTENDS ContractStream, FiniteSetTheorems, SequenceTheorems, TLAPS

-----------------------------------------------------------------------------
(* The inductive invariants. *)

(* The attachments that a stream counts. *)
Counted(w) == {c \in subs : ws[c] = w}

(* A stream that was made is in the map or cancelled, and what was not     *)
(* made has no connection.                                                 *)
LiveIsMapped ==
    /\ streams <= made
    /\ \A w \in StreamIds : w \in cancelled <=> w <= made /\ w # streams
    /\ \A w \in StreamIds : w > made => ~link[w].up

SubsOwned ==
    /\ subs \subseteq owner
    /\ \A c \in owner : ws[c] \in 1..made

StreamInv == TypeOK /\ LiveIsMapped /\ SubsOwned /\ RefcountExact

(* A browser's attachment is its own until its handler ends. *)
AttachedAlone ==
    \A b \in Browsers :
       at[b] # NoConn => /\ at[b] \in owner
                         /\ \A a \in Browsers : at[a] = at[b] => a = b

FoldIsPrefix == \A b \in Browsers : have[b] = 1..cur[b] /\ cur[b] <= seq

(* Frames numbered without a gap up to n. *)
Runs(s, n) ==
    \A i \in 1..Len(s) : /\ s[i].seq = n - Len(s) + i
                         /\ i > 1 => s[i].kind # "snapshot"

(* What a connection carries, before and after the snapshot that seeds it  *)
(* is on the wire and forwarded.                                           *)
Carries(l, isSeeded, n) ==
    /\ l.stamp <= n
    /\ l.sending => ~isSeeded /\ l.stamp = n - Len(l.frames)
    /\ l.sending \/ isSeeded
       => Runs(l.frames, n) /\ \A i \in 1..Len(l.frames) : l.frames[i].kind # "snapshot"
    /\ ~isSeeded /\ l.frames # <<>> /\ l.frames[1].kind = "snapshot"
       => Runs(l.frames, n) /\ l.frames[1].seq = l.stamp

LinkRuns ==
    \A w \in StreamIds :
       w = streams /\ link[w].up => Carries(link[w], w \in upSeeded, seq)

(* A frame that may come after number m. *)
Follows(m, f) ==
    \/ f.kind = "event" /\ f.seq = m + 1
    \/ f.kind = "snapshot" /\ f.seq >= m

(* What waits for a browser continues its fold up to m, or replaces it by  *)
(* a newer one.                                                            *)
Waits(s, m, isSeeded, n) ==
    /\ \A i \in 1..Len(s) : /\ s[i].seq <= n
                            /\ s[i].kind \in {"event", "snapshot"}
                            /\ i > 1 => Follows(s[i - 1].seq, s[i])
    /\ s # <<>> /\ s[1].kind = "snapshot" => s[1].seq >= m
    /\ s # <<>> /\ isSeeded => Follows(m, s[1])

ChannelRuns ==
    \A b \in Browsers : at[b] # NoConn /\ at[b] \in subs
                        => Waits(ch[at[b]], cur[b], b \in seeded, seq)

(* An attachment that was dropped has nothing but the notice. *)
DroppedIsTold ==
    \A b \in Browsers : at[b] # NoConn /\ at[b] \notin subs
                        => ch[at[b]] \in {<<>>, <<Resync>>}

(* A connection that is not seeded yet was stamped after all that any      *)
(* browser has or is about to have ...                                     *)
StampIsNewer ==
    \A w \in StreamIds : w = streams /\ link[w].up /\ w \notin upSeeded =>
       \A b \in Browsers :
          /\ cur[b] <= link[w].stamp
          /\ at[b] # NoConn /\ at[b] \in subs =>
                \A i \in 1..Len(ch[at[b]]) : ch[at[b]][i].seq <= link[w].stamp

(* ... and one that is seeded goes on where the channels end.              *)
EndsAt(s, m, isSeeded, n) ==
    /\ s # <<>> => s[Len(s)].seq = n
    /\ s = <<>> /\ isSeeded => m = n

LinkContinues ==
    \A w \in StreamIds : w = streams /\ link[w].up /\ w \in upSeeded =>
       \A b \in Browsers : at[b] # NoConn /\ at[b] \in subs =>
          EndsAt(ch[at[b]], cur[b], b \in seeded, seq - Len(link[w].frames))

FoldInv ==
    /\ AttachedAlone /\ FoldIsPrefix /\ LinkRuns /\ ChannelRuns /\ DroppedIsTold
    /\ StampIsNewer /\ LinkContinues

-----------------------------------------------------------------------------
(* Types. *)

LEMMA FrameTypes ==
    /\ \A k \in {"snapshot", "event", "reseed"}, n \in 0..MaxSeq : Frame(k, n) \in Frames
    /\ Down \in Links
    /\ <<>> \in Seq(Frames) /\ <<>> \in Seq(Frames \cup {Resync})
    /\ <<Resync>> \in Seq(Frames \cup {Resync})
<1>1. \A k \in {"snapshot", "event", "reseed"}, n \in 0..MaxSeq : Frame(k, n) \in Frames
  BY DEF Frame, Frames
<1>2. <<>> \in Seq(Frames) /\ <<>> \in Seq(Frames \cup {Resync})
  BY EmptySeq
<1>3. 0 \in 0..MaxSeq
  BY StreamAssumption
<1>4. Down \in Links
  BY <1>2, <1>3 DEF Down, Links
<1>5. <<Resync>> \in Seq(Frames \cup {Resync})
  OBVIOUS
<1> QED BY <1>1, <1>2, <1>4, <1>5

LEMMA FrameAppended ==
    ASSUME NEW l \in Links, NEW f \in Frames
    PROVE  /\ [l EXCEPT !.frames = Append(@, f)] \in Links
           /\ [l EXCEPT !.sending = FALSE, !.frames = Append(@, f)] \in Links
<1>1. l.frames \in Seq(Frames)
  BY DEF Links
<1>2. Append(l.frames, f) \in Seq(Frames)
  BY <1>1, AppendProperties
<1> QED BY <1>2 DEF Links

(* A stream counts finitely many attachments. *)
LEMMA CountedFinite ==
    ASSUME NEW S \in SUBSET Conns
    PROVE  /\ IsFiniteSet(S) /\ Cardinality(S) \in Nat
           /\ Cardinality(S) \in 0..Cardinality(Conns)
<1>1. /\ IsFiniteSet(S) /\ Cardinality(S) <= Cardinality(Conns)
  BY FS_Subset, StreamAssumption
<1>2. Cardinality(S) \in Nat /\ Cardinality(Conns) \in Nat
  BY <1>1, FS_CardinalityType, StreamAssumption
<1> QED BY <1>1, <1>2

LEMMA InitStream == Init => StreamInv
<1> SUFFICES ASSUME Init PROVE StreamInv
  OBVIOUS
<1>0. {c \in {} : ws[c] = 0} = {} /\ Cardinality({}) = 0 /\ Cardinality(Conns) \in Nat
  BY FS_EmptySet, FS_CardinalityType, StreamAssumption
<1>1. TypeOK
  <2>1. 0 \in 0..MaxSeq /\ 0 \in 0..MaxStreams /\ 0 \in 0..MaxFaults
        /\ 0 \in 0..Cardinality(Conns)
    BY StreamAssumption, <1>0
  <2>2. /\ refs \in [StreamIds -> 0..Cardinality(Conns)]
        /\ link \in [StreamIds -> Links]
        /\ ws \in [Conns -> StreamIds \cup {NoStream}]
        /\ ch \in [Conns -> Seq(Frames \cup {Resync})]
        /\ at \in [Browsers -> Conns \cup {NoConn}]
        /\ cur \in [Browsers -> 0..MaxSeq]
        /\ have \in [Browsers -> SUBSET (1..MaxSeq)]
    BY <2>1, FrameTypes DEF Init
  <2> QED BY <2>1, <2>2 DEF Init, TypeOK
<1>2. LiveIsMapped
  BY StreamAssumption DEF Init, LiveIsMapped, NoStream, StreamIds, Down
<1>3. SubsOwned
  BY DEF Init, SubsOwned
<1>4. RefcountExact
  <2>1. \A w \in StreamIds : {c \in subs : ws[c] = w} = {}
    BY DEF Init
  <2> QED BY <1>0, <2>1 DEF Init, RefcountExact
<1> QED BY <1>1, <1>2, <1>3, <1>4 DEF StreamInv

(* Steps that leave the counts and the map alone. *)
LEMMA QuietStream ==
    ASSUME StreamInv, UNCHANGED <<managerVars, ws, subs, owner>>,
           \A w \in StreamIds : w > made => link'[w].up = link[w].up
    PROVE  LiveIsMapped' /\ SubsOwned' /\ RefcountExact'
<1>1. LiveIsMapped'
  BY DEF StreamInv, LiveIsMapped, managerVars
<1>2. SubsOwned'
  BY DEF StreamInv, SubsOwned, managerVars
<1>3. RefcountExact'
  BY DEF StreamInv, RefcountExact, managerVars
<1> QED BY <1>1, <1>2, <1>3

LEMMA PublishStream ==
    ASSUME StreamInv, NEW k \in {"event", "reseed"}, Publish(k)
    PROVE  StreamInv'
<1> USE DEF StreamInv
<1>1. seq' \in 0..MaxSeq /\ seq + 1 \in 0..MaxSeq
  BY StreamAssumption DEF Publish, TypeOK
<1>2. Frame(k, seq + 1) \in Frames
  BY <1>1, FrameTypes
<1>3. link' \in [StreamIds -> Links]
  <2>1. \A w \in StreamIds : [link[w] EXCEPT !.frames = Append(@, Frame(k, seq + 1))] \in Links
    BY <1>2, FrameAppended DEF TypeOK
  <2> QED BY <2>1 DEF Publish, TypeOK
<1>4. TypeOK'
  BY <1>1, <1>3 DEF Publish, TypeOK, managerVars, connVars, browserVars
<1>5. \A w \in StreamIds : link'[w].up = link[w].up
  <2>1. \A w \in StreamIds :
           [link[w] EXCEPT !.frames = Append(@, Frame(k, seq + 1))].up = link[w].up
    BY DEF TypeOK, Links
  <2> QED BY <2>1 DEF Publish
<1> QED BY <1>4, <1>5, QuietStream DEF Publish, connVars

LEMMA ConnectStream ==
    ASSUME StreamInv, NEW w \in StreamIds, Connect(w)
    PROVE  StreamInv'
<1> USE DEF StreamInv
<1>1. [Down EXCEPT !.up = TRUE, !.sending = TRUE, !.stamp = seq] \in Links
  BY FrameTypes DEF Links, TypeOK
<1>2. TypeOK'
  <2>1. link' \in [StreamIds -> Links] /\ upSeeded' \subseteq StreamIds
    BY <1>1 DEF Connect, TypeOK
  <2> QED BY <2>1 DEF Connect, TypeOK, managerVars, connVars, browserVars
<1>3. \A v \in StreamIds : v > made => link'[v].up = link[v].up
  <2> SUFFICES ASSUME NEW v \in StreamIds, v > made PROVE link'[v].up = link[v].up
    OBVIOUS
  <2>1. v # w
    BY StreamAssumption DEF Connect, TypeOK, StreamIds
  <2> QED BY <2>1 DEF Connect, TypeOK
<1> QED BY <1>2, <1>3, QuietStream DEF Connect, connVars

LEMMA PodSnapshotStream ==
    ASSUME StreamInv, NEW w \in StreamIds, PodSnapshot(w)
    PROVE  StreamInv'
<1> USE DEF StreamInv
<1>1. Frame("snapshot", link[w].stamp) \in Frames
  BY FrameTypes DEF TypeOK, Links
<1>2. [link[w] EXCEPT !.sending = FALSE,
                      !.frames = Append(@, Frame("snapshot", link[w].stamp))] \in Links
  BY <1>1, FrameAppended DEF TypeOK
<1>3. link' = [link EXCEPT ![w] =
                 [link[w] EXCEPT !.sending = FALSE,
                                 !.frames = Append(@, Frame("snapshot", link[w].stamp))]]
  BY DEF PodSnapshot, TypeOK, Links
<1>4. TypeOK'
  BY <1>2, <1>3 DEF PodSnapshot, TypeOK, managerVars, connVars, browserVars
<1>5. \A v \in StreamIds : v > made => link'[v].up = link[v].up
  BY <1>3 DEF TypeOK, Links
<1> QED BY <1>4, <1>5, QuietStream DEF PodSnapshot, connVars

LEMMA DisconnectStream ==
    ASSUME StreamInv, NEW w \in StreamIds, Disconnect(w)
    PROVE  StreamInv'
<1> USE DEF StreamInv
<1>1. faults' \in 0..MaxFaults
  BY StreamAssumption DEF Disconnect, TypeOK
<1>2. link' \in [StreamIds -> Links]
  BY FrameTypes DEF Disconnect, TypeOK
<1>3. TypeOK'
  BY <1>1, <1>2 DEF Disconnect, TypeOK, managerVars, connVars, browserVars
<1>4. \A v \in StreamIds : v > made => link'[v].up = link[v].up
  BY DEF Disconnect, TypeOK, LiveIsMapped
<1> QED BY <1>3, <1>4, QuietStream DEF Disconnect, connVars

LEMMA BrowserLostStream ==
    ASSUME StreamInv, NEW b \in Browsers, BrowserLost(b)
    PROVE  StreamInv'
<1> USE DEF StreamInv
<1>1. faults' \in 0..MaxFaults
  BY StreamAssumption DEF BrowserLost, TypeOK
<1>2. at' \in [Browsers -> Conns \cup {NoConn}]
  BY DEF BrowserLost, Leaves, TypeOK
<1>3. TypeOK'
  BY <1>1, <1>2 DEF BrowserLost, TypeOK, managerVars, connVars, upVars
<1> QED BY <1>3, QuietStream DEF BrowserLost, connVars, upVars

LEMMA ReceiveStream ==
    ASSUME StreamInv, NEW b \in Browsers, Receive(b)
    PROVE  StreamInv'
<1> USE DEF StreamInv
<1> DEFINE c == at[b]
           f == Head(ch[c])
<1>1. c \in Conns /\ ch[c] \in Seq(Frames \cup {Resync}) /\ ch[c] # <<>>
  BY StreamAssumption DEF Receive, TypeOK
<1>2. f \in Frames \cup {Resync} /\ Tail(ch[c]) \in Seq(Frames \cup {Resync})
  BY <1>1, HeadTailProperties
<1>3. f.seq \in 0..MaxSeq
  BY <1>2, StreamAssumption DEF Frames, Resync
<1>4. ch' \in [Conns -> Seq(Frames \cup {Resync})]
  BY <1>1, <1>2 DEF Receive, TypeOK
<1>5. cur' \in [Browsers -> 0..MaxSeq]
  BY <1>3 DEF Receive, TypeOK, browserVars
<1>6. have' \in [Browsers -> SUBSET (1..MaxSeq)]
  <2>1. 1..f.seq \in SUBSET (1..MaxSeq)
    BY <1>3, StreamAssumption
  <2>2. f.seq > cur[b] => f.seq \in 1..MaxSeq
    BY <1>3, StreamAssumption DEF TypeOK
  <2>3. CASE have' = [have EXCEPT ![b] = 1..f.seq]
    BY <2>1, <2>3 DEF TypeOK
  <2>4. CASE have' = [have EXCEPT ![b] = @ \cup {f.seq}] /\ f.seq > cur[b]
    BY <2>2, <2>4 DEF TypeOK
  <2>5. CASE UNCHANGED have
    BY <2>5 DEF TypeOK
  <2> QED BY <2>3, <2>4, <2>5 DEF Receive, browserVars
<1>7. at' \in [Browsers -> Conns \cup {NoConn}] /\ seeded' \subseteq Browsers
  BY DEF Receive, Leaves, TypeOK, browserVars
<1>8. TypeOK'
  BY <1>4, <1>5, <1>6, <1>7 DEF Receive, TypeOK, managerVars, upVars
<1> QED BY <1>8, QuietStream DEF Receive, upVars

LEMMA SubscribeStream ==
    ASSUME StreamInv, NEW b \in Browsers, NEW c \in Conns, Subscribe(b, c)
    PROVE  StreamInv'
<1> USE DEF StreamInv
<1> DEFINE w == streams'
<1>0. streams \in Nat /\ made \in Nat /\ MaxStreams \in Nat
  BY StreamAssumption DEF TypeOK, StreamIds, NoStream
<1>1. /\ w \in StreamIds /\ made' \in 0..MaxStreams /\ made <= made'
      /\ w <= made' /\ w \notin cancelled
      /\ streams # NoStream => w = streams /\ made' = made
      /\ streams = NoStream => w = made + 1 /\ made' = made + 1
  <2>1. CASE streams # NoStream /\ UNCHANGED <<streams, made>>
    BY <2>1, <1>0 DEF TypeOK, LiveIsMapped, StreamIds, NoStream
  <2>2. CASE streams = NoStream /\ made < MaxStreams /\ made' = made + 1 /\ streams' = made + 1
    <3>1. made + 1 \in StreamIds
      BY <2>2, <1>0 DEF StreamIds
    <3>2. made + 1 \notin cancelled
      BY <3>1, <1>0 DEF LiveIsMapped
    <3> QED BY <2>2, <3>1, <3>2, <1>0
  <2> QED BY <2>1, <2>2 DEF Subscribe
<1> HIDE DEF w
<1>2. /\ c \notin owner /\ c \notin subs
      /\ subs' = subs \cup {c} /\ owner' = owner \cup {c}
      /\ ws' = [ws EXCEPT ![c] = w] /\ refs' = [refs EXCEPT ![w] = @ + 1]
      /\ UNCHANGED <<cancelled, link>>
  BY DEF Subscribe, SubsOwned, upVars, w
<1>3. \A v \in StreamIds : {x \in subs' : ws'[x] = v} =
                             IF v = w THEN {x \in subs : ws[x] = v} \cup {c}
                             ELSE {x \in subs : ws[x] = v}
  BY <1>2 DEF TypeOK
<1>4. \A v \in StreamIds : refs'[v] = Cardinality({x \in subs' : ws'[x] = v})
  <2> SUFFICES ASSUME NEW v \in StreamIds
               PROVE  refs'[v] = Cardinality({x \in subs' : ws'[x] = v})
    OBVIOUS
  <2>1. {x \in subs : ws[x] = v} \in SUBSET Conns /\ c \notin {x \in subs : ws[x] = v}
    BY <1>2 DEF TypeOK
  <2>2. Cardinality({x \in subs : ws[x] = v} \cup {c}) = Cardinality({x \in subs : ws[x] = v}) + 1
    BY <2>1, CountedFinite, FS_AddElement
  <2> QED BY <1>1, <1>2, <1>3, <2>2 DEF RefcountExact, TypeOK
<1>5. TypeOK'
  <2>1. refs' \in [StreamIds -> 0..Cardinality(Conns)]
    <3>1. \A v \in StreamIds : {x \in subs' : ws'[x] = v} \in SUBSET Conns
      BY <1>2 DEF TypeOK
    <3>2. \A v \in StreamIds : refs'[v] \in 0..Cardinality(Conns)
      BY <3>1, <1>4, CountedFinite
    <3>3. refs' = [v \in StreamIds |-> refs'[v]]
      BY <1>2 DEF TypeOK
    <3> QED BY <3>2, <3>3
  <2>2. /\ ws' \in [Conns -> StreamIds \cup {NoStream}] /\ subs' \subseteq Conns
        /\ owner' \subseteq Conns /\ streams' \in StreamIds \cup {NoStream}
    BY <1>1, <1>2 DEF TypeOK, w
  <2>3. ch' \in [Conns -> Seq(Frames \cup {Resync})]
    BY FrameTypes DEF Subscribe, TypeOK
  <2>4. at' \in [Browsers -> Conns \cup {NoConn}] /\ seeded' \subseteq Browsers
    BY DEF Subscribe, TypeOK
  <2> QED BY <1>1, <2>1, <2>2, <2>3, <2>4 DEF Subscribe, TypeOK, upVars
<1>6. LiveIsMapped'
  <2>1. streams' <= made'
    BY <1>1 DEF w
  <2>2. \A v \in StreamIds : v \in cancelled' <=> v <= made' /\ v # streams'
    <3>1. CASE streams # NoStream
      BY <1>1, <1>2, <3>1 DEF LiveIsMapped, w
    <3>2. CASE streams = NoStream
      <4>1. \A v \in StreamIds : v \in cancelled <=> v <= made
        BY <3>2 DEF LiveIsMapped, NoStream, StreamIds
      <4> QED BY <4>1, <1>0, <1>1, <1>2, <3>2 DEF StreamIds, w
    <3> QED BY <3>1, <3>2
  <2>3. \A v \in StreamIds : v > made' => ~link'[v].up
    BY <1>0, <1>1, <1>2 DEF LiveIsMapped, StreamIds
  <2> QED BY <2>1, <2>2, <2>3 DEF LiveIsMapped
<1>7. SubsOwned'
  <2>1. w \in 1..made'
    BY <1>0, <1>1 DEF StreamIds
  <2>2. \A x \in owner : ws[x] \in 1..made'
    BY <1>0, <1>1 DEF SubsOwned
  <2> QED BY <1>2, <2>1, <2>2 DEF SubsOwned, TypeOK
<1>8. RefcountExact'
  <2>1. \A x \in subs' : ws'[x] \notin cancelled'
    BY <1>1, <1>2 DEF RefcountExact, TypeOK
  <2>2. c \in owner' /\ ws'[c] = streams'
    BY <1>2 DEF TypeOK, w
  <2> QED BY <1>4, <2>1, <2>2 DEF RefcountExact
<1> QED BY <1>5, <1>6, <1>7, <1>8

LEMMA UnsubStream ==
    ASSUME StreamInv, NEW c \in Conns, unsub(c)
    PROVE  StreamInv'
<1> USE DEF StreamInv
<1> DEFINE w == ws[c]
           left == {x \in subs \ {c} : ws[x] = w}
<1>0. streams \in Nat /\ made \in Nat /\ MaxStreams \in Nat
  BY StreamAssumption DEF TypeOK, StreamIds, NoStream
<1>1. c \in owner /\ w \in 1..made /\ w \in StreamIds
  BY <1>0 DEF unsub, HandlerEnds, SubsOwned, TypeOK, StreamIds
<1>2. /\ subs' = subs \ {c} /\ owner' = owner \ {c}
      /\ ws' = [ws EXCEPT ![c] = NoStream] /\ refs' = [refs EXCEPT ![w] = removed(c)]
      /\ UNCHANGED <<made, link>>
      /\ \/ /\ removed(c) = 0 /\ streams = w
            /\ streams' = NoStream /\ cancelled' = cancelled \cup {w}
         \/ ~(removed(c) = 0 /\ streams = w) /\ UNCHANGED <<streams, cancelled>>
  BY DEF unsub, upVars
<1>3. removed(c) = Cardinality(left) /\ left \in SUBSET Conns
  <2>1. {x \in subs : ws[x] = w} \in SUBSET Conns /\ left \in SUBSET Conns
    BY DEF TypeOK
  <2>2. CASE c \in subs
    <3>1. left = {x \in subs : ws[x] = w} \ {c} /\ c \in {x \in subs : ws[x] = w}
      BY <2>2
    <3>2. Cardinality(left) = Cardinality({x \in subs : ws[x] = w}) - 1
      BY <2>1, <3>1, CountedFinite, FS_RemoveElement
    <3> QED BY <2>1, <2>2, <3>2, <1>1 DEF removed, RefcountExact
  <2>3. CASE c \notin subs
    <3>1. left = {x \in subs : ws[x] = w}
      BY <2>3
    <3> QED BY <2>1, <2>3, <3>1, <1>1 DEF removed, RefcountExact
  <2> QED BY <2>2, <2>3, <2>1
<1>4. \A v \in StreamIds : {x \in subs' : ws'[x] = v} =
                             IF v = w THEN left ELSE {x \in subs : ws[x] = v}
  BY <1>2 DEF TypeOK
<1>5. \A v \in StreamIds : refs'[v] = Cardinality({x \in subs' : ws'[x] = v})
  BY <1>1, <1>2, <1>3, <1>4 DEF RefcountExact, TypeOK
<1>6. removed(c) = 0 => left = {}
  <2>1. IsFiniteSet(left)
    BY <1>3, CountedFinite
  <2> QED BY <1>3, <2>1, FS_EmptySet
<1>7. TypeOK'
  <2>1. refs' \in [StreamIds -> 0..Cardinality(Conns)]
    <3>1. \A v \in StreamIds : {x \in subs' : ws'[x] = v} \in SUBSET Conns
      BY <1>2 DEF TypeOK
    <3>2. \A v \in StreamIds : refs'[v] \in 0..Cardinality(Conns)
      BY <3>1, <1>5, CountedFinite
    <3>3. refs' = [v \in StreamIds |-> refs'[v]]
      BY <1>2 DEF TypeOK
    <3> QED BY <3>2, <3>3
  <2>2. /\ ws' \in [Conns -> StreamIds \cup {NoStream}] /\ subs' \subseteq Conns
        /\ owner' \subseteq Conns /\ streams' \in StreamIds \cup {NoStream}
        /\ cancelled' \subseteq StreamIds
    BY <1>1, <1>2 DEF TypeOK
  <2>3. ch' \in [Conns -> Seq(Frames \cup {Resync})]
    BY FrameTypes DEF unsub, TypeOK
  <2>4. at' \in [Browsers -> Conns \cup {NoConn}]
    BY DEF unsub, TypeOK
  <2> QED BY <2>1, <2>2, <2>3, <2>4 DEF unsub, TypeOK, upVars
<1>8. LiveIsMapped'
  BY <1>0, <1>1, <1>2 DEF LiveIsMapped, NoStream, StreamIds
<1>9. SubsOwned'
  BY <1>2 DEF SubsOwned, TypeOK
<1>10. RefcountExact'
  <2>1. \A x \in subs' : ws'[x] \notin cancelled'
    <3> SUFFICES ASSUME NEW x \in subs' PROVE ws'[x] \notin cancelled'
      OBVIOUS
    <3>1. x \in subs /\ x # c /\ ws'[x] = ws[x] /\ ws[x] \notin cancelled
      BY <1>2 DEF TypeOK, RefcountExact
    <3>2. removed(c) = 0 => ws[x] # w
      BY <1>6, <3>1
    <3> QED BY <3>1, <3>2, <1>2
  <2>2. streams' # NoStream => \E x \in owner' : ws'[x] = streams'
    <3> SUFFICES ASSUME streams' # NoStream PROVE \E x \in owner' : ws'[x] = streams'
      OBVIOUS
    <3>1. streams' = streams /\ ~(removed(c) = 0 /\ streams = w)
      BY <1>2
    <3>2. CASE streams = w
      <4>1. Cardinality(left) # 0
        BY <3>1, <3>2, <1>3
      <4>2. PICK x \in left : TRUE
        BY <4>1, FS_EmptySet
      <4> QED BY <4>2, <1>2, <3>1, <3>2 DEF SubsOwned, TypeOK
    <3>3. CASE streams # w
      <4>1. PICK x \in owner : ws[x] = streams
        BY <3>1 DEF RefcountExact
      <4> QED BY <4>1, <3>1, <3>3, <1>2 DEF TypeOK
    <3> QED BY <3>2, <3>3
  <2> QED BY <1>5, <2>1, <2>2 DEF RefcountExact
<1> QED BY <1>7, <1>8, <1>9, <1>10

LEMMA ForwardStream ==
    ASSUME StreamInv, NEW w \in StreamIds, Forward(w)
    PROVE  StreamInv'
<1> USE DEF StreamInv
<1> DEFINE f == Head(link[w].frames)
           gone == {c \in subs : ws[c] = w /\ Full(c)}
           stay == {c \in subs : ws[c] # w \/ ~Full(c)}
<1>0. /\ link[w] \in Links /\ link[w].frames \in Seq(Frames) /\ link[w].frames # <<>>
      /\ f \in Frames /\ Tail(link[w].frames) \in Seq(Frames)
  <2>1. link[w] \in Links /\ link[w].frames \in Seq(Frames) /\ link[w].frames # <<>>
    BY DEF Forward, TypeOK, Links
  <2> QED BY <2>1, HeadTailProperties
<1>1. CASE fanout(w, f) /\ link' = [link EXCEPT ![w].frames = Tail(@)]
           /\ upSeeded' = upSeeded \cup (IF f.kind = "snapshot" THEN {w} ELSE {})
  <2>1. /\ subs' = stay /\ stay \in SUBSET Conns /\ gone \in SUBSET Conns
        /\ refs' = [refs EXCEPT ![w] = @ - Cardinality(gone)]
        /\ UNCHANGED <<ws, owner, streams, made, cancelled>>
    BY <1>1 DEF Forward, fanout, dropped, TypeOK
  <2>2. \A v \in StreamIds : refs'[v] = Cardinality({x \in subs' : ws'[x] = v})
    <3> SUFFICES ASSUME NEW v \in StreamIds
                 PROVE  refs'[v] = Cardinality({x \in subs' : ws'[x] = v})
      OBVIOUS
    <3>1. CASE v # w
      <4>1. {x \in subs' : ws'[x] = v} = {x \in subs : ws[x] = v}
        BY <2>1, <3>1
      <4> QED BY <2>1, <3>1, <4>1 DEF RefcountExact, TypeOK
    <3>2. CASE v = w
      <4> DEFINE all == {x \in subs : ws[x] = w}
      <4>1. {x \in subs' : ws'[x] = v} = all \ gone /\ all \cap gone = gone
        BY <2>1, <3>2
      <4>2. all \in SUBSET Conns
        BY DEF TypeOK
      <4>3. Cardinality(all \ gone) = Cardinality(all) - Cardinality(gone)
        <5>1. IsFiniteSet(all)
          BY <4>2, CountedFinite
        <5> HIDE DEF all, gone
        <5>2. Cardinality(all \ gone) = Cardinality(all) - Cardinality(all \cap gone)
          BY <5>1, FS_Difference
        <5> QED BY <5>2, <4>1
      <4>4. refs'[v] = refs[w] - Cardinality(gone) /\ refs[w] = Cardinality(all)
        BY <2>1, <3>2 DEF RefcountExact, TypeOK
      <4> QED BY <4>1, <4>3, <4>4
    <3> QED BY <3>1, <3>2
  <2>3. refs' \in [StreamIds -> 0..Cardinality(Conns)]
    <3>1. \A v \in StreamIds : {x \in subs' : ws'[x] = v} \in SUBSET Conns
      BY <2>1
    <3>2. \A v \in StreamIds : refs'[v] \in 0..Cardinality(Conns)
      BY <3>1, <2>2, CountedFinite
    <3>3. refs' = [v \in StreamIds |-> refs'[v]]
      BY <2>1 DEF TypeOK
    <3> QED BY <3>2, <3>3
  <2>4. link' \in [StreamIds -> Links] /\ \A v \in StreamIds : link'[v].up = link[v].up
    <3>1. [link[w] EXCEPT !.frames = Tail(@)] \in Links
      BY <1>0 DEF Links
    <3>2. link' = [link EXCEPT ![w] = [link[w] EXCEPT !.frames = Tail(@)]]
      BY <1>1 DEF TypeOK
    <3> QED BY <3>1, <3>2 DEF TypeOK, Links
  <2>5. ch' \in [Conns -> Seq(Frames \cup {Resync})]
    <3>1. \A c \in Conns : Append(ch[c], f) \in Seq(Frames \cup {Resync})
      BY <1>0, AppendProperties DEF TypeOK
    <3> QED BY <1>1, <3>1, FrameTypes DEF fanout, TypeOK
  <2>6. TypeOK'
    BY <1>1, <2>1, <2>3, <2>4, <2>5 DEF Forward, TypeOK, browserVars
  <2>7. LiveIsMapped'
    BY <2>1, <2>4 DEF LiveIsMapped
  <2>8. SubsOwned'
    BY <2>1 DEF SubsOwned
  <2>9. RefcountExact'
    BY <2>1, <2>2 DEF RefcountExact
  <2> QED BY <2>6, <2>7, <2>8, <2>9
<1>2. CASE link' = [link EXCEPT ![w] = Down] /\ UNCHANGED <<upSeeded, refs, subs, ch>>
  <2>1. link' \in [StreamIds -> Links]
    BY <1>2, FrameTypes DEF TypeOK
  <2>2. \A v \in StreamIds : v > made => link'[v].up = link[v].up
    BY <1>2 DEF Forward, TypeOK, LiveIsMapped
  <2>3. TypeOK'
    BY <1>2, <2>1 DEF Forward, TypeOK, browserVars
  <2> QED BY <1>2, <2>2, <2>3, QuietStream DEF Forward, managerVars
<1> QED BY <1>1, <1>2 DEF Forward

LEMMA NextStream == StreamInv /\ [Next]_vars => StreamInv'
<1> SUFFICES ASSUME StreamInv, [Next]_vars PROVE StreamInv'
  OBVIOUS
<1>1. CASE UNCHANGED vars
  <2>1. TypeOK'
    BY <1>1 DEF StreamInv, TypeOK, vars, managerVars, upVars, connVars, browserVars
  <2> QED BY <1>1, <2>1, QuietStream DEF StreamInv, vars, upVars, connVars
<1> QED BY <1>1, PublishStream, ConnectStream, PodSnapshotStream, DisconnectStream,
           ForwardStream, SubscribeStream, ReceiveStream, BrowserLostStream, UnsubStream
        DEF Next

(* Every variable of the manager, the upstream and the browsers keeps its  *)
(* type; in particular a reference count never falls below zero.           *)
THEOREM StreamTypesHold == Spec => []TypeOK
<1>1. StreamInv => TypeOK
  BY DEF StreamInv
<1> QED BY <1>1, InitStream, NextStream, PTL DEF Spec

(* Manager.Subscribe, remove and dropLocked keep the reference count equal *)
(* to the number of subscribers, for any number of browsers, attachments   *)
(* and streams: the upstream goes with the last of them and not before.    *)
THEOREM RefcountIsExact == Spec => []RefcountExact
<1>1. StreamInv => RefcountExact
  BY DEF StreamInv
<1> QED BY <1>1, InitStream, NextStream, PTL DEF Spec

-----------------------------------------------------------------------------
(* Browsers fold prefixes. *)

(* What is made and not cancelled is the stream in the map, and every      *)
(* subscriber is on it.                                                    *)
LEMMA OneLiveStream ==
    ASSUME StreamInv
    PROVE  /\ \A w \in StreamIds : w <= made /\ w \notin cancelled => w = streams
           /\ \A c \in subs : c \in owner /\ ws[c] = streams /\ ws[c] \in StreamIds
<1>1. \A w \in StreamIds : w <= made /\ w \notin cancelled => w = streams
  BY DEF StreamInv, LiveIsMapped
<1>2. made \in Nat /\ MaxStreams \in Nat /\ made <= MaxStreams
  BY StreamAssumption DEF StreamInv, TypeOK
<1>3. \A c \in subs : c \in owner /\ ws[c] \in StreamIds /\ ws[c] <= made
  BY <1>2 DEF StreamInv, SubsOwned, StreamIds
<1> QED BY <1>1, <1>3 DEF StreamInv, RefcountExact

(* The numbers that occur, and the sequences they are compared in. *)
LEMMA Numbers ==
    ASSUME StreamInv
    PROVE  /\ seq \in Nat
           /\ \A b \in Browsers : cur[b] \in Nat
           /\ \A w \in StreamIds : /\ link[w] \in Links
                                   /\ link[w].stamp \in Nat
                                   /\ link[w].frames \in Seq(Frames)
                                   /\ Len(link[w].frames) \in Nat
           /\ \A w \in StreamIds : \A i \in 1..Len(link[w].frames) :
                 link[w].frames[i] \in Frames /\ link[w].frames[i].seq \in Nat
           /\ \A c \in Conns : /\ ch[c] \in Seq(Frames \cup {Resync})
                               /\ Len(ch[c]) \in Nat
           /\ \A c \in Conns : \A i \in 1..Len(ch[c]) :
                 ch[c][i] \in Frames \cup {Resync} /\ ch[c][i].seq \in Nat
<1>1. seq \in Nat /\ \A b \in Browsers : cur[b] \in Nat
  BY StreamAssumption DEF StreamInv, TypeOK
<1>2. \A w \in StreamIds : /\ link[w] \in Links
                           /\ link[w].stamp \in Nat
                           /\ link[w].frames \in Seq(Frames)
                           /\ Len(link[w].frames) \in Nat
  BY StreamAssumption DEF StreamInv, TypeOK, Links
<1>3. \A c \in Conns : ch[c] \in Seq(Frames \cup {Resync}) /\ Len(ch[c]) \in Nat
  BY DEF StreamInv, TypeOK
<1>4. \A f \in Frames \cup {Resync} : f.seq \in Nat
  BY StreamAssumption DEF Frames, Resync
<1> QED BY <1>1, <1>2, <1>3, <1>4

LEMMA InitFold == Init => FoldInv
<1> SUFFICES ASSUME Init PROVE FoldInv
  OBVIOUS
<1>1. AttachedAlone /\ ChannelRuns /\ DroppedIsTold
  BY DEF Init, AttachedAlone, ChannelRuns, DroppedIsTold
<1>2. FoldIsPrefix
  BY DEF Init, FoldIsPrefix
<1>3. LinkRuns /\ StampIsNewer /\ LinkContinues
  BY DEF Init, LinkRuns, StampIsNewer, LinkContinues, Down
<1> QED BY <1>1, <1>2, <1>3 DEF FoldInv

LEMMA PublishFold ==
    ASSUME StreamInv, FoldInv, NEW k \in {"event", "reseed"}, Publish(k)
    PROVE  FoldInv'
<1> USE DEF FoldInv
<1>1. /\ seq' = seq + 1 /\ seq \in Nat
      /\ UNCHANGED <<streams, upSeeded, subs, ch, owner, at, seeded, cur, have>>
  BY Numbers DEF Publish, managerVars, connVars, browserVars
<1>2. Frame(k, seq + 1) \in Frames
  <2>1. seq + 1 \in 0..MaxSeq
    BY StreamAssumption DEF Publish, StreamInv, TypeOK
  <2> QED BY <2>1, FrameTypes
<1>3. ASSUME NEW w \in StreamIds, link'[w].up
      PROVE  /\ link[w].up
             /\ link'[w] = [link[w] EXCEPT !.frames = Append(@, Frame(k, seq + 1))]
  BY <1>3 DEF Publish, StreamInv, TypeOK
<1>4. ASSUME NEW l \in Links, NEW sd \in BOOLEAN, Carries(l, sd, seq)
      PROVE  LET m == [l EXCEPT !.frames = Append(@, Frame(k, seq + 1))]
             IN  /\ Carries(m, sd, seq + 1) /\ m.stamp = l.stamp
                 /\ (seq + 1) - Len(m.frames) = seq - Len(l.frames)
  <2> DEFINE s == l.frames
             f == Frame(k, seq + 1)
             t == Append(s, f)
             m == [l EXCEPT !.frames = Append(@, f)]
  <2>1. s \in Seq(Frames) /\ Len(s) \in Nat /\ l.stamp \in Nat
    BY StreamAssumption DEF Links
  <2>2. \A i \in 1..Len(s) : s[i] \in Frames /\ s[i].seq \in Nat
    <3>1. \A i \in 1..Len(s) : s[i] \in Frames
      BY <2>1, ElementOfSeq
    <3>2. \A g \in Frames : g.seq \in Nat
      BY StreamAssumption DEF Frames
    <3> QED BY <3>1, <3>2
  <2>3. /\ t \in Seq(Frames) /\ Len(t) = Len(s) + 1 /\ t # <<>>
        /\ \A i \in 1..Len(s) : t[i] = s[i]
        /\ t[Len(s) + 1] = f
    BY <2>1, <1>2, AppendProperties
  <2>4. m.frames = t /\ m.stamp = l.stamp /\ m.sending = l.sending
    BY DEF Links
  <2>5. f.seq = seq + 1 /\ f.kind # "snapshot"
    BY DEF Frame
  <2>6. ASSUME Runs(s, seq) PROVE Runs(t, seq + 1)
    <3> HIDE DEF s, t, f
    <3> SUFFICES ASSUME NEW i \in 1..Len(t)
                 PROVE  t[i].seq = (seq + 1) - Len(t) + i /\ (i > 1 => t[i].kind # "snapshot")
      BY DEF Runs
    <3>1. CASE i = Len(s) + 1
      BY <3>1, <2>1, <2>3, <2>5, <1>1
    <3>2. CASE i # Len(s) + 1
      <4>1. i \in 1..Len(s)
        BY <3>2, <2>1, <2>3
      <4>2. t[i] = s[i] /\ s[i].seq = seq - Len(s) + i /\ (i > 1 => s[i].kind # "snapshot")
        BY <4>1, <2>3, <2>6 DEF Runs
      <4> QED BY <4>1, <4>2, <2>1, <2>3, <1>1
    <3> QED BY <3>1, <3>2
  <2>7. s = <<>> => t[1].kind # "snapshot"
    BY <2>3, <2>5
  <2>8. s # <<>> => t[1] = s[1]
    BY <2>1, <2>3, EmptySeq
  <2> HIDE DEF s, t, f, m
  <2>9. (seq + 1) - Len(t) = seq - Len(s)
    BY <2>1, <2>3, <1>1
  <2>10. (\A i \in 1..Len(s) : s[i].kind # "snapshot")
         => \A i \in 1..Len(t) : t[i].kind # "snapshot"
    BY <2>1, <2>3, <2>5
  <2>11. Carries(m, sd, seq + 1)
    <3>1. /\ l.stamp <= seq
          /\ l.sending => ~sd /\ l.stamp = seq - Len(s)
          /\ l.sending \/ sd
             => Runs(s, seq) /\ \A i \in 1..Len(s) : s[i].kind # "snapshot"
          /\ ~sd /\ s # <<>> /\ s[1].kind = "snapshot"
             => Runs(s, seq) /\ s[1].seq = l.stamp
      BY <1>4 DEF Carries, s
    <3>2. l.stamp <= seq + 1
      BY <3>1, <2>1, <1>1
    <3>3. /\ m.stamp <= seq + 1
          /\ m.sending => ~sd /\ m.stamp = (seq + 1) - Len(m.frames)
      BY <3>1, <3>2, <2>4, <2>9
    <3>4. m.sending \/ sd => Runs(m.frames, seq + 1)
                             /\ \A i \in 1..Len(m.frames) : m.frames[i].kind # "snapshot"
      BY <3>1, <2>4, <2>6, <2>10
    <3>5. ~sd /\ m.frames # <<>> /\ m.frames[1].kind = "snapshot"
          => Runs(m.frames, seq + 1) /\ m.frames[1].seq = m.stamp
      BY <3>1, <2>4, <2>6, <2>7, <2>8
    <3> QED BY <3>3, <3>4, <3>5 DEF Carries
  <2> QED BY <2>4, <2>9, <2>11 DEF m, s, t, f
<1>5. AttachedAlone' /\ FoldIsPrefix' /\ ChannelRuns' /\ DroppedIsTold'
  <2>1. AttachedAlone' /\ DroppedIsTold'
    BY <1>1 DEF AttachedAlone, DroppedIsTold
  <2>2. FoldIsPrefix'
    BY <1>1, Numbers DEF FoldIsPrefix
  <2>3. ChannelRuns'
    <3>1. \A b \in Browsers : at[b] # NoConn /\ at[b] \in subs => at[b] \in Conns
      BY DEF StreamInv, TypeOK
    <3> QED BY <1>1, <3>1, Numbers DEF ChannelRuns, Waits
  <2> QED BY <2>1, <2>2, <2>3
<1>6. LinkRuns' /\ StampIsNewer' /\ LinkContinues'
  <2>1. ASSUME NEW w \in StreamIds, w = streams, link'[w].up
        PROVE  /\ link[w].up /\ Carries(link'[w], w \in upSeeded, seq')
               /\ link'[w].stamp = link[w].stamp
               /\ seq' - Len(link'[w].frames) = seq - Len(link[w].frames)
    <3>1. link[w].up /\ link[w] \in Links
      BY <2>1, <1>3, Numbers
    <3>2. Carries(link[w], w \in upSeeded, seq)
      BY <2>1, <3>1 DEF LinkRuns
    <3>3. PICK sd \in BOOLEAN : sd = (w \in upSeeded)
      <4>1. CASE w \in upSeeded
        BY <4>1, TRUE = (w \in upSeeded)
      <4>2. CASE w \notin upSeeded
        BY <4>2, FALSE = (w \in upSeeded)
      <4> QED BY <4>1, <4>2
    <3>4. Carries(link[w], sd, seq)
      BY <3>2, <3>3
    <3>5. LET m == [link[w] EXCEPT !.frames = Append(@, Frame(k, seq + 1))]
          IN  /\ Carries(m, sd, seq + 1) /\ m.stamp = link[w].stamp
              /\ (seq + 1) - Len(m.frames) = seq - Len(link[w].frames)
      BY <3>1, <3>4, <1>4
    <3> QED BY <3>1, <3>3, <3>5, <2>1, <1>1, <1>3
  <2>2. LinkRuns'
    BY <1>1, <2>1 DEF LinkRuns
  <2>3. StampIsNewer'
    BY <1>1, <2>1 DEF StampIsNewer
  <2>4. LinkContinues'
    BY <1>1, <2>1 DEF LinkContinues
  <2> QED BY <2>2, <2>3, <2>4
<1> QED BY <1>5, <1>6

(* Steps of the upstream leave the browsers and their channels alone. *)
LEMMA QuietBrowsers ==
    ASSUME FoldInv, UNCHANGED <<seq, subs, owner, ch, browserVars>>
    PROVE  AttachedAlone' /\ FoldIsPrefix' /\ ChannelRuns' /\ DroppedIsTold'
<1> USE DEF FoldInv, browserVars
<1>1. AttachedAlone' /\ FoldIsPrefix'
  BY DEF AttachedAlone, FoldIsPrefix
<1>2. ChannelRuns' /\ DroppedIsTold'
  BY DEF ChannelRuns, DroppedIsTold
<1> QED BY <1>1, <1>2

LEMMA ConnectFold ==
    ASSUME StreamInv, FoldInv, NEW w \in StreamIds, Connect(w)
    PROVE  FoldInv'
<1> USE DEF FoldInv
<1>1. w = streams /\ streams' = streams
  BY OneLiveStream DEF Connect, managerVars
<1>2. /\ link'[w].up /\ link'[w].sending /\ link'[w].stamp = seq /\ link'[w].frames = <<>>
      /\ w \notin upSeeded' /\ UNCHANGED <<seq, subs, owner, ch, browserVars>>
  BY DEF Connect, Down, StreamInv, TypeOK, connVars
<1>3. LinkRuns'
  <2>1. Len(link'[w].frames) = 0 /\ seq \in Nat /\ seq - 0 = seq
    BY <1>2, Numbers
  <2>2. Carries(link'[w], FALSE, seq)
    BY <1>2, <2>1 DEF Carries, Runs
  <2>3. FALSE = (w \in upSeeded')
    BY <1>2
  <2> QED BY <1>1, <1>2, <2>2, <2>3 DEF LinkRuns
<1>4. StampIsNewer'
  <2>1. \A b \in Browsers : cur[b] <= seq
    BY DEF FoldIsPrefix
  <2>2. \A b \in Browsers : at[b] # NoConn /\ at[b] \in subs =>
           \A i \in 1..Len(ch[at[b]]) : ch[at[b]][i].seq <= seq
    BY DEF ChannelRuns, Waits
  <2> QED BY <1>1, <1>2, <2>1, <2>2 DEF StampIsNewer, browserVars
<1>5. LinkContinues'
  BY <1>1, <1>2 DEF LinkContinues
<1> QED BY <1>2, <1>3, <1>4, <1>5, QuietBrowsers

LEMMA PodSnapshotFold ==
    ASSUME StreamInv, FoldInv, NEW w \in StreamIds, PodSnapshot(w)
    PROVE  FoldInv'
<1> USE DEF FoldInv
<1> DEFINE f == Frame("snapshot", link[w].stamp)
           s == link[w].frames
           t == Append(s, f)
<1>1. /\ link'[w] = [link[w] EXCEPT !.sending = FALSE, !.frames = t]
      /\ \A v \in StreamIds : v # w => link'[v] = link[v]
      /\ link[w].sending
      /\ UNCHANGED <<seq, subs, owner, ch, browserVars, streams, upSeeded>>
  BY DEF PodSnapshot, StreamInv, TypeOK, connVars, managerVars, Links
<1>2. /\ link[w] \in Links /\ s \in Seq(Frames) /\ Len(s) \in Nat /\ seq \in Nat
      /\ f \in Frames /\ f.kind = "snapshot" /\ f.seq = link[w].stamp /\ link[w].stamp \in Nat
  BY Numbers, FrameTypes DEF Frame, StreamInv, TypeOK, Links
<1>3. /\ link'[w].up = link[w].up /\ link'[w].stamp = link[w].stamp
      /\ link'[w].sending = FALSE /\ link'[w].frames = t
  BY <1>1, <1>2 DEF Links
<1>4. /\ Len(t) = Len(s) + 1 /\ t # <<>> /\ t[Len(s) + 1] = f
      /\ \A i \in 1..Len(s) : t[i] = s[i]
  BY <1>2, AppendProperties
<1> HIDE DEF t, f
<1>5. ASSUME w = streams, link[w].up
      PROVE  w \notin upSeeded /\ Carries(link'[w], FALSE, seq)
  <2>1. Carries(link[w], w \in upSeeded, seq)
    BY <1>5 DEF LinkRuns
  <2>2. /\ w \notin upSeeded /\ link[w].stamp <= seq /\ link[w].stamp = seq - Len(s)
        /\ \A i \in 1..Len(s) : s[i].kind # "snapshot"
    BY <2>1, <1>1 DEF Carries
  <2>3. ASSUME t[1].kind = "snapshot"
        PROVE  Runs(t, seq) /\ t[1].seq = link[w].stamp
    <3>1. Len(s) = 0
      BY <1>2, <1>4, <2>2, <2>3
    <3>2. Len(t) = 1 /\ t[1] = f /\ link[w].stamp = seq
      BY <3>1, <1>2, <1>4, <2>2
    <3>3. seq - 1 + 1 = seq
      BY <1>2
    <3> QED BY <3>2, <3>3, <1>2 DEF Runs
  <2> QED BY <2>2, <2>3, <1>3 DEF Carries
<1>6. LinkRuns'
  <2>1. ASSUME w = streams, link[w].up PROVE Carries(link'[w], w \in upSeeded, seq)
    <3>1. FALSE = (w \in upSeeded)
      BY <1>5, <2>1
    <3> QED BY <1>5, <2>1, <3>1
  <2> QED BY <1>1, <1>3, <2>1 DEF LinkRuns
<1>7. StampIsNewer'
  BY <1>1, <1>3 DEF StampIsNewer, browserVars
<1>8. LinkContinues'
  BY <1>1, <1>3, <1>5 DEF LinkContinues, browserVars
<1> QED BY <1>1, <1>6, <1>7, <1>8, QuietBrowsers

(* A connection that ends. *)
LEMMA LinkDownFold ==
    ASSUME StreamInv, FoldInv, NEW w \in StreamIds, link' = [link EXCEPT ![w] = Down],
           UNCHANGED <<seq, streams, upSeeded, subs, owner, ch, browserVars>>
    PROVE  FoldInv'
<1> USE DEF FoldInv
<1>1. ~link'[w].up /\ \A v \in StreamIds : v # w => link'[v] = link[v]
  BY DEF Down, StreamInv, TypeOK
<1>2. LinkRuns'
  BY <1>1 DEF LinkRuns
<1>3. StampIsNewer'
  BY <1>1 DEF StampIsNewer, browserVars
<1>4. LinkContinues'
  BY <1>1 DEF LinkContinues, browserVars
<1> QED BY <1>2, <1>3, <1>4, QuietBrowsers

LEMMA DisconnectFold ==
    ASSUME StreamInv, FoldInv, NEW w \in StreamIds, Disconnect(w)
    PROVE  FoldInv'
BY LinkDownFold DEF Disconnect, managerVars, connVars

LEMMA SubscribeFold ==
    ASSUME StreamInv, FoldInv, NEW b \in Browsers, NEW c \in Conns, Subscribe(b, c)
    PROVE  FoldInv'
<1> USE DEF FoldInv
<1>1. /\ at[b] = NoConn /\ c \notin owner /\ c \notin subs /\ c # NoConn
      /\ at'[b] = c /\ ch'[c] = <<>> /\ b \notin seeded'
      /\ subs' = subs \cup {c} /\ owner' = owner \cup {c}
      /\ UNCHANGED <<seq, cur, have, link, upSeeded>>
  BY StreamAssumption DEF Subscribe, StreamInv, TypeOK, SubsOwned, upVars
<1>2. \A a \in Browsers : a # b => /\ at'[a] = at[a]
                                   /\ a \in seeded' <=> a \in seeded
  BY DEF Subscribe, StreamInv, TypeOK
<1>3. \A a \in Browsers : a # b /\ at[a] # NoConn =>
         /\ at[a] # c /\ at[a] \in Conns /\ ch'[at[a]] = ch[at[a]]
         /\ at[a] \in subs' <=> at[a] \in subs
  BY <1>1 DEF AttachedAlone, Subscribe, StreamInv, TypeOK
<1>4. ASSUME NEW w \in StreamIds, w = streams', link'[w].up PROVE w = streams
  <2>1. CASE streams = NoStream
    <3>1. w = made + 1
      BY <2>1, <1>4 DEF Subscribe
    <3>2. w > made
      BY <3>1 DEF StreamInv, TypeOK
    <3> QED BY <3>2, <1>1, <1>4 DEF StreamInv, LiveIsMapped
  <2>2. CASE streams # NoStream
    BY <2>2, <1>4 DEF Subscribe
  <2> QED BY <2>1, <2>2
<1>5. AttachedAlone'
  BY <1>1, <1>2, <1>3 DEF AttachedAlone
<1>6. FoldIsPrefix'
  BY <1>1 DEF FoldIsPrefix
<1>7. LinkRuns'
  BY <1>1, <1>4 DEF LinkRuns
<1>8. ChannelRuns'
  <2> SUFFICES ASSUME NEW a \in Browsers, at'[a] # NoConn, at'[a] \in subs'
               PROVE  Waits(ch'[at'[a]], cur'[a], a \in seeded', seq')
    BY DEF ChannelRuns
  <2>1. CASE a = b
    BY <2>1, <1>1 DEF Waits
  <2>2. CASE a # b
    BY <2>2, <1>1, <1>2, <1>3 DEF ChannelRuns
  <2> QED BY <2>1, <2>2
<1>9. DroppedIsTold'
  BY <1>1, <1>2, <1>3 DEF DroppedIsTold
<1>10. StampIsNewer'
  <2> SUFFICES ASSUME NEW w \in StreamIds, w = streams', link'[w].up, w \notin upSeeded',
                      NEW a \in Browsers
               PROVE  /\ cur'[a] <= link'[w].stamp
                      /\ at'[a] # NoConn /\ at'[a] \in subs' =>
                           \A i \in 1..Len(ch'[at'[a]]) : ch'[at'[a]][i].seq <= link'[w].stamp
    BY DEF StampIsNewer
  <2>1. CASE a = b
    BY <2>1, <1>1, <1>4 DEF StampIsNewer
  <2>2. CASE a # b
    BY <2>2, <1>1, <1>2, <1>3, <1>4 DEF StampIsNewer
  <2> QED BY <2>1, <2>2
<1>11. LinkContinues'
  <2> SUFFICES ASSUME NEW w \in StreamIds, w = streams', link'[w].up, w \in upSeeded',
                      NEW a \in Browsers, at'[a] # NoConn, at'[a] \in subs'
               PROVE  EndsAt(ch'[at'[a]], cur'[a], a \in seeded', seq' - Len(link'[w].frames))
    BY DEF LinkContinues
  <2>1. CASE a = b
    BY <2>1, <1>1 DEF EndsAt
  <2>2. CASE a # b
    BY <2>2, <1>1, <1>2, <1>3, <1>4 DEF LinkContinues
  <2> QED BY <2>1, <2>2
<1> QED BY <1>5, <1>6, <1>7, <1>8, <1>9, <1>10, <1>11

(* Browsers that leave, and attachments that nobody reads any more. *)
LEMMA LeavingFold ==
    ASSUME StreamInv, FoldInv, UNCHANGED <<seq, link, upSeeded, seeded, cur, have>>,
           \A w \in StreamIds : w = streams' => w = streams,
           \A a \in Browsers : at'[a] # NoConn =>
              /\ at'[a] = at[a] /\ at[a] \in owner' /\ ch'[at[a]] = ch[at[a]]
              /\ at[a] \in subs' <=> at[a] \in subs
    PROVE  FoldInv'
<1> USE DEF FoldInv
<1>1. AttachedAlone'
  BY DEF AttachedAlone
<1>2. FoldIsPrefix' /\ LinkRuns'
  BY DEF FoldIsPrefix, LinkRuns
<1>3. ChannelRuns' /\ DroppedIsTold'
  BY DEF ChannelRuns, DroppedIsTold
<1>4. StampIsNewer'
  BY DEF StampIsNewer
<1>5. LinkContinues'
  BY DEF LinkContinues
<1> QED BY <1>1, <1>2, <1>3, <1>4, <1>5

LEMMA BrowserLostFold ==
    ASSUME StreamInv, FoldInv, NEW b \in Browsers, BrowserLost(b)
    PROVE  FoldInv'
<1>1. \A a \in Browsers : at'[a] # NoConn => at'[a] = at[a] /\ at[a] \in owner'
  BY DEF BrowserLost, Leaves, StreamInv, TypeOK, FoldInv, AttachedAlone, connVars
<1> QED BY <1>1, LeavingFold DEF BrowserLost, connVars, upVars, managerVars

LEMMA UnsubFold ==
    ASSUME StreamInv, FoldInv, NEW c \in Conns, unsub(c)
    PROVE  FoldInv'
<1>1. \A a \in Browsers : at'[a] # NoConn =>
         /\ at'[a] = at[a] /\ at[a] \in owner' /\ ch'[at[a]] = ch[at[a]]
         /\ at[a] \in subs' <=> at[a] \in subs
  <2> SUFFICES ASSUME NEW a \in Browsers, at'[a] # NoConn
               PROVE  /\ at'[a] = at[a] /\ at[a] \in owner' /\ ch'[at[a]] = ch[at[a]]
                      /\ at[a] \in subs' <=> at[a] \in subs
    OBVIOUS
  <2>1. at[a] # c /\ at'[a] = at[a]
    BY DEF unsub
  <2>2. at[a] \in owner
    BY <2>1 DEF FoldInv, AttachedAlone
  <2> QED BY <2>1, <2>2 DEF unsub, StreamInv, TypeOK
<1>2. \A w \in StreamIds : w = streams' => w = streams
  BY DEF unsub, NoStream, StreamIds
<1> QED BY <1>1, <1>2, LeavingFold DEF unsub, upVars

(* The frames behind the first. *)
LEMMA WaitsBehind ==
    ASSUME NEW s \in Seq(Frames \cup {Resync}), s # <<>>, NEW m \in Nat, NEW n \in Nat,
           NEW sd, Waits(s, m, sd, n)
    PROVE  /\ Waits(Tail(s), s[1].seq, TRUE, n)
           /\ EndsAt(Tail(s), s[1].seq, TRUE, s[Len(s)].seq)
           /\ \A i \in 1..Len(Tail(s)) : i + 1 \in 1..Len(s) /\ Tail(s)[i] = s[i + 1]
           /\ 1 \in 1..Len(s)
<1> DEFINE t == Tail(s)
<1>1. /\ Len(s) \in Nat \ {0} /\ Len(t) = Len(s) - 1 /\ t \in Seq(Frames \cup {Resync})
      /\ \A i \in 1..Len(t) : t[i] = s[i + 1]
  BY EmptySeq, HeadTailProperties
<1>2. \A f \in Frames \cup {Resync} : f.seq \in Nat
  BY StreamAssumption DEF Frames, Resync
<1>3. \A i \in 1..Len(s) : s[i].seq \in Nat
  BY <1>2, ElementOfSeq
<1> HIDE DEF t
<1>4. \A i \in 1..Len(t) : /\ i + 1 \in 1..Len(s) /\ i \in 1..Len(s) /\ i + 1 > 1
                           /\ (i + 1) - 1 = i
  BY <1>1
<1>5. \A i \in 1..Len(t) : /\ t[i].seq <= n /\ t[i].kind \in {"event", "snapshot"}
                           /\ Follows(s[i].seq, t[i])
  BY <1>1, <1>4 DEF Waits
<1>6. \A i \in 1..Len(t) : i > 1 => i - 1 \in 1..Len(t) /\ (i - 1) + 1 = i
  BY <1>1
<1>7. \A i \in 1..Len(t) : i > 1 => t[i - 1] = s[i]
  BY <1>1, <1>6
<1>8. t # <<>> => 1 \in 1..Len(t)
  BY <1>1, EmptySeq
<1>9. t # <<>> => Follows(s[1].seq, t[1])
  BY <1>5, <1>8
<1>10. t # <<>> /\ t[1].kind = "snapshot" => t[1].seq >= s[1].seq
  BY <1>9 DEF Follows
<1>11. Waits(t, s[1].seq, TRUE, n)
  BY <1>5, <1>7, <1>9, <1>10 DEF Waits
<1>12. EndsAt(t, s[1].seq, TRUE, s[Len(s)].seq)
  <2>2. CASE t = <<>>
    <3>1. Len(t) = 0
      BY <2>2
    <3>2. Len(s) = 1
      BY <1>1, <3>1
    <3> QED BY <2>2, <3>2 DEF EndsAt
  <2>3. CASE t # <<>>
    <3>1. Len(t) \in 1..Len(t) /\ Len(t) + 1 = Len(s)
      BY <1>1, <1>8, <2>3
    <3>2. t[Len(t)] = s[Len(s)]
      BY <1>1, <3>1
    <3> QED BY <2>3, <3>2 DEF EndsAt
  <2> QED BY <2>2, <2>3
<1>13. /\ \A i \in 1..Len(t) : i + 1 \in 1..Len(s) /\ t[i] = s[i + 1]
       /\ 1 \in 1..Len(s)
  BY <1>1, <1>4
<1> QED BY <1>11, <1>12, <1>13 DEF t

(* A frame that the browser takes into its fold. *)
LEMMA TakenFold ==
    ASSUME StreamInv, FoldInv, NEW b \in Browsers, Receive(b), UNCHANGED at,
           at[b] \in subs, cur' = [cur EXCEPT ![b] = ch[at[b]][1].seq], b \in seeded',
           have'[b] = 1..ch[at[b]][1].seq,
           \A a \in Browsers : a # b => /\ have'[a] = have[a]
                                        /\ a \in seeded' <=> a \in seeded
    PROVE  FoldInv'
<1> USE DEF FoldInv
<1> DEFINE c == at[b]
           s == ch[c]
<1>1. c \in Conns /\ c # NoConn /\ s # <<>> /\ s \in Seq(Frames \cup {Resync})
      /\ cur[b] \in Nat /\ seq \in Nat /\ (b \in seeded) \in BOOLEAN
  BY Numbers DEF Receive, StreamInv, TypeOK
<1>2. /\ ch'[c] = Tail(s) /\ cur'[b] = s[1].seq
      /\ UNCHANGED <<seq, streams, link, upSeeded, subs, owner>>
      /\ \A a \in Browsers : a # b => cur'[a] = cur[a]
  BY <1>1 DEF Receive, StreamInv, TypeOK, managerVars, upVars
<1>3. \A a \in Browsers : a # b /\ at[a] # NoConn => at[a] # c /\ ch'[at[a]] = ch[at[a]]
  BY <1>1 DEF Receive, StreamInv, TypeOK, AttachedAlone
<1>4. PICK sd \in BOOLEAN : sd = (b \in seeded)
  <2>1. CASE b \in seeded
    BY <2>1, TRUE = (b \in seeded)
  <2>2. CASE b \notin seeded
    BY <2>2, FALSE = (b \in seeded)
  <2> QED BY <2>1, <2>2
<1>5. Waits(s, cur[b], sd, seq)
  <2>1. Waits(s, cur[b], b \in seeded, seq)
    BY <1>1 DEF ChannelRuns
  <2> QED BY <2>1, <1>4
<1>6. TRUE = (b \in seeded')
  OBVIOUS
<1>7. /\ Waits(Tail(s), s[1].seq, TRUE, seq)
      /\ EndsAt(Tail(s), s[1].seq, TRUE, s[Len(s)].seq)
      /\ \A i \in 1..Len(Tail(s)) : i + 1 \in 1..Len(s) /\ Tail(s)[i] = s[i + 1]
      /\ 1 \in 1..Len(s)
  BY <1>1, <1>5, WaitsBehind
<1> HIDE DEF s
<1>8. AttachedAlone' /\ LinkRuns'
  BY <1>2 DEF AttachedAlone, LinkRuns
<1>9. FoldIsPrefix'
  <2>1. s[1].seq <= seq
    BY <1>5, <1>7 DEF Waits
  <2> QED BY <1>2, <2>1 DEF FoldIsPrefix, s
<1>10. ChannelRuns'
  <2>1. Waits(ch'[at'[b]], cur'[b], b \in seeded', seq')
    BY <1>2, <1>6, <1>7
  <2>2. ASSUME NEW a \in Browsers, a # b, at[a] # NoConn, at[a] \in subs
        PROVE  Waits(ch'[at'[a]], cur'[a], a \in seeded', seq')
    BY <2>2, <1>2, <1>3 DEF ChannelRuns
  <2> QED BY <1>2, <2>1, <2>2 DEF ChannelRuns
<1>11. DroppedIsTold'
  BY <1>2, <1>3 DEF DroppedIsTold
<1>12. StampIsNewer'
  <2> SUFFICES ASSUME NEW w \in StreamIds, w = streams, link[w].up, w \notin upSeeded,
                      NEW a \in Browsers
               PROVE  /\ cur'[a] <= link[w].stamp
                      /\ at[a] # NoConn /\ at[a] \in subs =>
                           \A i \in 1..Len(ch'[at[a]]) : ch'[at[a]][i].seq <= link[w].stamp
    BY <1>2 DEF StampIsNewer
  <2>1. \A i \in 1..Len(s) : s[i].seq <= link[w].stamp
    BY <1>1 DEF StampIsNewer, s
  <2>2. CASE a = b
    BY <2>1, <2>2, <1>2, <1>7
  <2>3. CASE a # b
    BY <2>3, <1>2, <1>3 DEF StampIsNewer
  <2> QED BY <2>2, <2>3
<1>13. LinkContinues'
  <2> SUFFICES ASSUME NEW w \in StreamIds, w = streams, link[w].up, w \in upSeeded,
                      NEW a \in Browsers, at[a] # NoConn, at[a] \in subs
               PROVE  EndsAt(ch'[at[a]], cur'[a], a \in seeded', seq - Len(link[w].frames))
    BY <1>2 DEF LinkContinues
  <2>1. CASE a = b
    <3> DEFINE n == seq - Len(link[w].frames)
    <3>1. EndsAt(s, cur[b], b \in seeded, n)
      BY <1>1 DEF LinkContinues, s
    <3>2. s[Len(s)].seq = n
      BY <3>1, <1>1 DEF EndsAt, s
    <3>3. EndsAt(Tail(s), s[1].seq, TRUE, n)
      BY <3>2, <1>7
    <3> QED BY <3>3, <2>1, <1>2, <1>6
  <2>2. CASE a # b
    BY <2>2, <1>2, <1>3 DEF LinkContinues
  <2> QED BY <2>1, <2>2
<1> QED BY <1>8, <1>9, <1>10, <1>11, <1>12, <1>13

LEMMA ReceiveFold ==
    ASSUME StreamInv, FoldInv, NEW b \in Browsers, Receive(b)
    PROVE  FoldInv'
<1> DEFINE c == at[b]
           s == ch[c]
           f == Head(s)
<1>1. /\ c \in Conns /\ c # NoConn /\ s # <<>> /\ s \in Seq(Frames \cup {Resync})
      /\ f = s[1] /\ 1 \in 1..Len(s) /\ cur[b] \in Nat
  <2>1. c \in Conns /\ c # NoConn /\ s # <<>> /\ s \in Seq(Frames \cup {Resync})
    BY Numbers DEF Receive, StreamInv, TypeOK
  <2>2. Len(s) \in Nat \ {0}
    BY <2>1, EmptySeq
  <2> QED BY <2>1, <2>2, Numbers
<1>2. CASE Leaves(b) /\ UNCHANGED <<seeded, cur, have>>
  <2>1. ASSUME NEW a \in Browsers, at'[a] # NoConn
        PROVE  /\ at'[a] = at[a] /\ at[a] \in owner' /\ ch'[at[a]] = ch[at[a]]
               /\ at[a] \in subs' <=> at[a] \in subs
    <3>1. a # b /\ at'[a] = at[a]
      BY <1>2, <2>1 DEF Leaves, StreamInv, TypeOK
    <3>2. at[a] \in owner /\ at[a] # c
      BY <2>1, <3>1, <1>1 DEF FoldInv, AttachedAlone
    <3> QED BY <3>1, <3>2 DEF Receive, StreamInv, TypeOK
  <2> QED BY <1>2, <2>1, LeavingFold DEF Receive, managerVars, upVars
<1>3. CASE f.kind # "resync" /\ UNCHANGED at
  <2>1. c \in subs
    <3>1. s # <<Resync>>
      BY <1>3 DEF Resync
    <3> QED BY <1>1, <3>1 DEF FoldInv, DroppedIsTold
  <2>2. Waits(s, cur[b], b \in seeded, seq)
    BY <1>1, <2>1 DEF FoldInv, ChannelRuns
  <2>3. have[b] = 1..cur[b]
    BY DEF FoldInv, FoldIsPrefix
  <2>4. CASE /\ f.kind = "snapshot"
             /\ cur' = [cur EXCEPT ![b] = f.seq]
             /\ have' = [have EXCEPT ![b] = 1..f.seq]
             /\ seeded' = seeded \cup {b}
    <3>1. /\ have'[b] = 1..s[1].seq /\ b \in seeded'
          /\ \A a \in Browsers : a # b => /\ have'[a] = have[a]
                                          /\ a \in seeded' <=> a \in seeded
      BY <2>4, <1>1 DEF StreamInv, TypeOK
    <3> QED BY <3>1, <1>1, <1>3, <2>1, <2>4, TakenFold
  <2>5. ASSUME f.kind = "event", b \in seeded PROVE f.seq = cur[b] + 1 /\ f.seq > cur[b]
    <3>1. Follows(cur[b], s[1])
      BY <2>2, <2>5, <1>1 DEF Waits
    <3> QED BY <3>1, <2>5, <1>1 DEF Follows
  <2>6. CASE /\ f.kind = "event" /\ b \in seeded /\ f.seq > cur[b]
             /\ cur' = [cur EXCEPT ![b] = f.seq]
             /\ have' = [have EXCEPT ![b] = @ \cup {f.seq}]
             /\ UNCHANGED seeded
    <3>1. (1..cur[b]) \cup {cur[b] + 1} = 1..(cur[b] + 1)
      BY <1>1
    <3>2. /\ have'[b] = 1..s[1].seq /\ b \in seeded'
          /\ \A a \in Browsers : a # b => /\ have'[a] = have[a]
                                          /\ a \in seeded' <=> a \in seeded
      BY <2>3, <2>5, <2>6, <3>1, <1>1 DEF StreamInv, TypeOK
    <3> QED BY <3>2, <1>1, <1>3, <2>1, <2>6, TakenFold
  <2>7. ~(f.kind = "event" /\ b \in seeded /\ f.seq <= cur[b])
    BY <2>5, <1>1, Numbers
  <2>8. CASE Leaves(b) /\ UNCHANGED <<seeded, cur, have>>
    BY <1>2, <2>8
  <2> QED BY <2>4, <2>6, <2>7, <2>8 DEF Receive
<1>4. \/ f.kind # "resync" /\ UNCHANGED at
      \/ Leaves(b) /\ UNCHANGED <<seeded, cur, have>>
  BY DEF Receive, browserVars
<1> QED BY <1>2, <1>3, <1>4

(* A frame behind the last. *)
LEMMA WaitsLonger ==
    ASSUME NEW s \in Seq(Frames \cup {Resync}), NEW f \in Frames, NEW m \in Nat,
           NEW n \in Nat, NEW sd, Waits(s, m, sd, n),
           f.kind \in {"event", "snapshot"}, f.seq <= n,
           s # <<>> => Follows(s[Len(s)].seq, f),
           s = <<>> /\ f.kind = "snapshot" => f.seq >= m,
           s = <<>> /\ sd => Follows(m, f)
    PROVE  Waits(Append(s, f), m, sd, n) /\ EndsAt(Append(s, f), m, sd, f.seq)
<1> DEFINE t == Append(s, f)
<1>1. /\ Len(s) \in Nat /\ Len(t) = Len(s) + 1 /\ t # <<>> /\ t[Len(s) + 1] = f
      /\ \A i \in 1..Len(s) : t[i] = s[i]
  BY AppendProperties
<1> HIDE DEF t
<1>2. EndsAt(t, m, sd, f.seq)
  BY <1>1 DEF EndsAt
<1>3. s # <<>> => Len(s) \in 1..Len(s) /\ 1 \in 1..Len(s)
  BY <1>1, EmptySeq
<1>4. ASSUME NEW i \in 1..Len(t)
      PROVE  /\ t[i].seq <= n /\ t[i].kind \in {"event", "snapshot"}
             /\ i > 1 => Follows(t[i - 1].seq, t[i])
  <2>1. CASE i = Len(s) + 1
    <3>1. i > 1 => s # <<>> /\ i - 1 = Len(s)
      BY <2>1, <1>1
    <3> QED BY <2>1, <3>1, <1>1, <1>3
  <2>2. CASE i # Len(s) + 1
    <3>1. i \in 1..Len(s) /\ (i > 1 => i - 1 \in 1..Len(s))
      BY <2>2, <1>1
    <3> QED BY <3>1, <1>1 DEF Waits
  <2> QED BY <2>1, <2>2
<1>5. /\ t[1].kind = "snapshot" => t[1].seq >= m
      /\ sd => Follows(m, t[1])
  <2>1. CASE s = <<>>
    <3>1. t[1] = f
      BY <2>1, <1>1
    <3> QED BY <2>1, <3>1
  <2>2. CASE s # <<>>
    <3>1. t[1] = s[1]
      BY <2>2, <1>1, <1>3
    <3> QED BY <2>2, <3>1 DEF Waits
  <2> QED BY <2>1, <2>2
<1>6. Waits(t, m, sd, n)
  BY <1>4, <1>5 DEF Waits
<1> QED BY <1>2, <1>6 DEF t

(* A frame that is forwarded continues what the channels hold, and leaves  *)
(* the connection seeded.                                                  *)
LEMMA ForwardedFrame ==
    ASSUME NEW l \in Links, NEW sd \in BOOLEAN, NEW n \in Nat, Carries(l, sd, n),
           l.frames # <<>>, l.frames[1].kind # "reseed",
           sd \/ l.frames[1].kind = "snapshot"
    PROVE  LET f == l.frames[1]
               m == [l EXCEPT !.frames = Tail(@)]
           IN  /\ m \in Links /\ m.up = l.up /\ m.stamp = l.stamp
               /\ Carries(m, TRUE, n)
               /\ f.seq = n - Len(m.frames) /\ f.seq <= n
               /\ sd => f.kind = "event" /\ f.seq = (n - Len(l.frames)) + 1
               /\ ~sd => f.kind = "snapshot" /\ f.seq = l.stamp
<1> DEFINE s == l.frames
           t == Tail(s)
           f == s[1]
           m == [l EXCEPT !.frames = Tail(@)]
<1>1. /\ s \in Seq(Frames) /\ s # <<>> /\ l.stamp \in Nat
  BY StreamAssumption DEF Links
<1>2. /\ Len(s) \in Nat \ {0} /\ Len(t) = Len(s) - 1 /\ t \in Seq(Frames)
      /\ \A i \in 1..Len(t) : t[i] = s[i + 1]
  BY <1>1, EmptySeq, HeadTailProperties
<1>3. /\ m.frames = t /\ m.stamp = l.stamp /\ m.up = l.up /\ m.sending = l.sending
      /\ m \in Links
  BY <1>2 DEF Links
<1>4. \A i \in 1..Len(s) : s[i] \in Frames /\ s[i].seq \in Nat
  <2>1. \A i \in 1..Len(s) : s[i] \in Frames
    BY <1>1, ElementOfSeq
  <2>2. \A g \in Frames : g.seq \in Nat
    BY StreamAssumption DEF Frames
  <2> QED BY <2>1, <2>2
<1>5. Runs(s, n) /\ ~l.sending /\ l.stamp <= n
      /\ (sd => f.kind # "snapshot") /\ (~sd => f.kind = "snapshot" /\ f.seq = l.stamp)
  <2>1. 1 \in 1..Len(s)
    BY <1>2
  <2> QED BY <2>1, <1>1 DEF Carries
<1> HIDE DEF s, t, m
<1>6. f.seq = (n - Len(s)) + 1 /\ f.seq = n - Len(t) /\ f.seq <= n
  <2>1. 1 \in 1..Len(s)
    BY <1>2
  <2>2. f.seq = n - Len(s) + 1
    BY <1>5, <2>1 DEF Runs
  <2> QED BY <2>2, <1>2
<1>7. \A i \in 1..Len(t) : /\ t[i].seq = n - Len(t) + i
                           /\ t[i].kind # "snapshot"
  <2> SUFFICES ASSUME NEW i \in 1..Len(t)
               PROVE  t[i].seq = n - Len(t) + i /\ t[i].kind # "snapshot"
    OBVIOUS
  <2>1. i + 1 \in 1..Len(s) /\ i + 1 > 1 /\ t[i] = s[i + 1]
    BY <1>2
  <2>2. s[i + 1].seq = n - Len(s) + (i + 1) /\ s[i + 1].kind # "snapshot"
    BY <2>1, <1>5 DEF Runs
  <2> QED BY <2>1, <2>2, <1>2
<1>8. Carries(m, TRUE, n)
  BY <1>3, <1>5, <1>7 DEF Carries, Runs
<1>9. sd => f.kind = "event"
  <2>1. f \in Frames
    BY <1>2, <1>4
  <2> QED BY <2>1, <1>5 DEF Frames, s
<1> QED BY <1>3, <1>5, <1>6, <1>8, <1>9 DEF m, s

LEMMA FanoutFold ==
    ASSUME StreamInv, FoldInv, NEW w \in StreamIds, Forward(w),
           LET f == Head(link[w].frames)
           IN  /\ forwards(w, f) /\ fanout(w, f)
               /\ link' = [link EXCEPT ![w].frames = Tail(@)]
               /\ upSeeded' = upSeeded \cup (IF f.kind = "snapshot" THEN {w} ELSE {})
    PROVE  FoldInv'
<1> USE DEF FoldInv
<1> DEFINE l == link[w]
           f == l.frames[1]
           m == [l EXCEPT !.frames = Tail(@)]
<1>1. /\ l \in Links /\ l.frames # <<>> /\ l.up /\ f = Head(l.frames) /\ f \in Frames
      /\ seq \in Nat
  <2>1. l \in Links /\ l.frames # <<>> /\ l.up /\ l.frames \in Seq(Frames) /\ seq \in Nat
    BY Numbers DEF Forward
  <2>2. 1 \in 1..Len(l.frames)
    BY <2>1, EmptySeq
  <2> QED BY <2>1, <2>2, ElementOfSeq
<1>2. w = streams
  <2>1. w <= made
    BY <1>1, StreamAssumption DEF StreamInv, LiveIsMapped, TypeOK, StreamIds
  <2> QED BY <2>1, OneLiveStream DEF Forward
<1>3. /\ link'[w] = m
      /\ \A v \in StreamIds : v # w => link'[v] = link[v]
      /\ UNCHANGED <<seq, streams, ws, owner, browserVars>>
  BY DEF StreamInv, TypeOK, Forward
<1>4. PICK sd \in BOOLEAN : sd = (w \in upSeeded)
  <2>1. CASE w \in upSeeded
    BY <2>1, TRUE = (w \in upSeeded)
  <2>2. CASE w \notin upSeeded
    BY <2>2, FALSE = (w \in upSeeded)
  <2> QED BY <2>1, <2>2
<1>5. Carries(l, sd, seq)
  <2>1. Carries(l, w \in upSeeded, seq)
    BY <1>1, <1>2 DEF LinkRuns
  <2> QED BY <2>1, <1>4
<1>6. f.kind # "reseed" /\ (sd \/ f.kind = "snapshot")
  BY <1>1, <1>4 DEF forwards
<1>7. /\ m \in Links /\ m.up = l.up /\ m.stamp = l.stamp
      /\ Carries(m, TRUE, seq)
      /\ f.seq = seq - Len(m.frames) /\ f.seq <= seq
      /\ sd => f.kind = "event" /\ f.seq = (seq - Len(l.frames)) + 1
      /\ ~sd => f.kind = "snapshot" /\ f.seq = l.stamp
  BY <1>1, <1>5, <1>6, ForwardedFrame
<1>8. TRUE = (w \in upSeeded')
  BY <1>1, <1>4, <1>6
<1> HIDE DEF m
<1>9. ASSUME NEW b \in Browsers, at[b] # NoConn
      PROVE  /\ at[b] \notin subs => at[b] \notin subs' /\ ch'[at[b]] = ch[at[b]]
             /\ at[b] \in subs /\ Full(at[b]) => at[b] \notin subs' /\ ch'[at[b]] = <<Resync>>
             /\ at[b] \in subs /\ ~Full(at[b])
                => at[b] \in subs' /\ ch'[at[b]] = Append(ch[at[b]], f)
  <2>1. at[b] \in Conns /\ (at[b] \in subs => ws[at[b]] = w)
    BY <1>2, <1>9, OneLiveStream DEF StreamInv, TypeOK
  <2> QED BY <1>1, <2>1 DEF fanout
<1>10. ASSUME NEW b \in Browsers, at[b] # NoConn, at[b] \in subs'
       PROVE  /\ Waits(ch'[at[b]], cur[b], b \in seeded, seq)
              /\ EndsAt(ch'[at[b]], cur[b], b \in seeded, seq - Len(m.frames))
  <2> DEFINE s == ch[at[b]]
  <2>1. at[b] \in subs /\ ch'[at[b]] = Append(s, f)
    BY <1>9, <1>10
  <2>2. Waits(s, cur[b], b \in seeded, seq)
    BY <1>10, <2>1 DEF ChannelRuns
  <2>3. /\ s \in Seq(Frames \cup {Resync}) /\ cur[b] \in Nat
        /\ s # <<>> => Len(s) \in 1..Len(s) /\ s[Len(s)].seq \in Nat
    <3>1. at[b] \in Conns
      BY <1>10 DEF StreamInv, TypeOK
    <3>2. s \in Seq(Frames \cup {Resync}) /\ cur[b] \in Nat
      BY <3>1, Numbers
    <3>3. s # <<>> => Len(s) \in 1..Len(s)
      BY <3>2, EmptySeq
    <3> QED BY <3>1, <3>2, <3>3, Numbers
  <2>4. CASE sd
    <3>1. EndsAt(s, cur[b], b \in seeded, seq - Len(l.frames))
      BY <1>1, <1>2, <1>4, <1>10, <2>1, <2>4 DEF LinkContinues
    <3>2. /\ s # <<>> => Follows(s[Len(s)].seq, f)
          /\ s = <<>> /\ b \in seeded => Follows(cur[b], f)
      BY <3>1, <1>7, <2>4 DEF EndsAt, Follows
    <3> QED BY <3>2, <2>1, <2>2, <2>3, <2>4, <1>1, <1>7, WaitsLonger
  <2>5. CASE ~sd
    <3>1. /\ cur[b] <= l.stamp
          /\ s # <<>> => s[Len(s)].seq <= l.stamp
      BY <1>1, <1>2, <1>4, <1>10, <2>1, <2>3, <2>5 DEF StampIsNewer
    <3>2. l.stamp \in Nat
      BY Numbers
    <3>3. /\ s # <<>> => Follows(s[Len(s)].seq, f)
          /\ Follows(cur[b], f) /\ f.seq >= cur[b]
      BY <3>1, <3>2, <1>7, <2>3, <2>5 DEF Follows
    <3> QED BY <3>3, <2>1, <2>2, <2>3, <2>5, <1>1, <1>7, WaitsLonger
  <2> QED BY <2>4, <2>5
<1>11. AttachedAlone' /\ FoldIsPrefix'
  BY <1>3 DEF AttachedAlone, FoldIsPrefix, browserVars
<1>12. LinkRuns'
  <2>1. Carries(link'[w], w \in upSeeded', seq)
    BY <1>3, <1>7, <1>8
  <2> QED BY <1>2, <1>3, <2>1 DEF LinkRuns
<1>13. ChannelRuns'
  BY <1>3, <1>10 DEF ChannelRuns, browserVars
<1>14. DroppedIsTold'
  BY <1>3, <1>9 DEF DroppedIsTold, browserVars
<1>15. StampIsNewer'
  BY <1>2, <1>3, <1>8 DEF StampIsNewer
<1>16. LinkContinues'
  BY <1>2, <1>3, <1>10 DEF LinkContinues, browserVars
<1> QED BY <1>11, <1>12, <1>13, <1>14, <1>15, <1>16

LEMMA ForwardFold ==
    ASSUME StreamInv, FoldInv, NEW w \in StreamIds, Forward(w)
    PROVE  FoldInv'
<1>1. CASE link' = [link EXCEPT ![w] = Down] /\ UNCHANGED <<upSeeded, refs, subs, ch>>
  BY <1>1, LinkDownFold DEF Forward
<1>2. CASE LET f == Head(link[w].frames)
           IN  /\ forwards(w, f) /\ fanout(w, f)
               /\ link' = [link EXCEPT ![w].frames = Tail(@)]
               /\ upSeeded' = upSeeded \cup (IF f.kind = "snapshot" THEN {w} ELSE {})
  BY <1>2, FanoutFold
<1> QED BY <1>1, <1>2 DEF Forward

LEMMA NextFold == StreamInv /\ FoldInv /\ [Next]_vars => FoldInv'
<1> SUFFICES ASSUME StreamInv, FoldInv, [Next]_vars PROVE FoldInv'
  OBVIOUS
<1>1. CASE UNCHANGED vars
  <2>1. UNCHANGED <<seq, link, upSeeded, streams, subs, owner, ch, at, seeded, cur, have>>
    BY <1>1 DEF vars, managerVars, upVars, connVars, browserVars
  <2>2. \A a \in Browsers : at[a] # NoConn => at[a] \in owner
    BY DEF FoldInv, AttachedAlone
  <2> QED BY <2>1, <2>2, LeavingFold
<1> QED BY <1>1, PublishFold, ConnectFold, PodSnapshotFold, DisconnectFold, ForwardFold,
           SubscribeFold, ReceiveFold, BrowserLostFold, UnsubFold
        DEF Next

(* Every step publishes a number, replaces one browser's fold by a longer  *)
(* prefix, or changes nothing that the abstract consumer sees.             *)
LEMMA StepIsFold ==
    StreamInv /\ FoldInv /\ FoldInv' /\ [Next]_vars => [Prefix!Next]_<<seq, have>>
<1> SUFFICES ASSUME StreamInv, FoldInv, FoldInv', [Next]_vars
             PROVE  Prefix!Next \/ UNCHANGED <<seq, have>>
  OBVIOUS
<1>1. ASSUME NEW k \in {"event", "reseed"}, Publish(k) PROVE Prefix!Next
  <2>1. seq \in Nat
    BY Numbers
  <2> QED BY <1>1, <2>1 DEF Publish, browserVars, Prefix!Next, Prefix!Publish
<1>2. ASSUME NEW b \in Browsers, Receive(b), ~UNCHANGED have PROVE Prefix!Next
  <2>1. UNCHANGED seq /\ seq \in Nat /\ have' = [have EXCEPT ![b] = have'[b]]
    BY <1>2, Numbers DEF Receive, browserVars, StreamInv, TypeOK
  <2>2. have[b] = 1..cur[b] /\ have'[b] = 1..cur'[b] /\ cur'[b] <= seq /\ cur[b] <= seq
    BY <2>1 DEF FoldInv, FoldIsPrefix
  <2>3. cur[b] \in Nat /\ cur'[b] \in Nat
    <3>1. StreamInv'
      BY NextStream
    <3> QED BY <3>1, StreamAssumption DEF StreamInv, TypeOK
  <2>4. cur[b] <= cur'[b]
    <3> DEFINE s == ch[at[b]]
               f == Head(s)
    <3>1. CASE f.kind = "snapshot" /\ cur' = [cur EXCEPT ![b] = f.seq]
      <4>1. /\ at[b] \in Conns /\ at[b] # NoConn /\ s # <<>>
            /\ s \in Seq(Frames \cup {Resync}) /\ f = s[1]
        BY <1>2, Numbers DEF Receive, StreamInv, TypeOK
      <4>2. s # <<Resync>>
        BY <3>1, <4>1 DEF Resync
      <4>3. at[b] \in subs
        BY <4>1, <4>2 DEF FoldInv, DroppedIsTold
      <4>4. Waits(s, cur[b], b \in seeded, seq)
        BY <4>1, <4>3 DEF FoldInv, ChannelRuns
      <4>5. f.seq >= cur[b] /\ cur'[b] = f.seq
        BY <3>1, <4>1, <4>4 DEF Waits, StreamInv, TypeOK
      <4> QED BY <4>5, <2>3
    <3>2. CASE cur' = [cur EXCEPT ![b] = f.seq] /\ f.seq > cur[b]
      <4>1. cur'[b] = f.seq
        BY <3>2 DEF StreamInv, TypeOK
      <4> QED BY <3>2, <4>1, <2>3
    <3> QED BY <1>2, <2>3, <3>1, <3>2 DEF Receive, browserVars
  <2>5. have[b] \subseteq 1..cur'[b] /\ cur'[b] \in 0..seq
    BY <2>1, <2>2, <2>3, <2>4
  <2> QED BY <2>1, <2>2, <2>5 DEF Prefix!Next, Prefix!Fold
<1>3. CASE UNCHANGED vars
  BY <1>3 DEF vars, browserVars
<1>4. ASSUME NEW w \in StreamIds, Connect(w) \/ PodSnapshot(w) \/ Disconnect(w) \/ Forward(w)
      PROVE  UNCHANGED <<seq, have>>
  BY <1>4 DEF Connect, PodSnapshot, Disconnect, Forward, browserVars
<1>5. ASSUME NEW b \in Browsers, NEW c \in Conns, Subscribe(b, c) PROVE UNCHANGED <<seq, have>>
  BY <1>5 DEF Subscribe
<1>6. ASSUME NEW b \in Browsers, BrowserLost(b) PROVE UNCHANGED <<seq, have>>
  BY <1>6 DEF BrowserLost
<1>7. ASSUME NEW c \in Conns, unsub(c) PROVE UNCHANGED <<seq, have>>
  BY <1>7 DEF unsub
<1>8. ASSUME NEW b \in Browsers, Receive(b) PROVE UNCHANGED seq
  BY <1>8 DEF Receive
<1> QED BY <1>1, <1>2, <1>3, <1>4, <1>5, <1>6, <1>7, <1>8 DEF Next

(* Through the shared upstream, over its reconnects, slow browsers that    *)
(* are dropped, browsers that join a running stream and leave it, what a   *)
(* browser's fold holds is always the events up to some number, and that   *)
(* number only grows (fanout, runOnce, useContractStream).                 *)
THEOREM BrowsersFoldPrefixes == Spec => BrowserFoldsArePrefixes
<1>1. Init => Prefix!Init
  BY DEF Init, Prefix!Init
<1> QED BY <1>1, InitStream, NextStream, InitFold, NextFold, StepIsFold, PTL
        DEF Spec, BrowserFoldsArePrefixes, Prefix!Spec

=============================================================================
