----------------------- MODULE LeaseProjection_proofs -----------------------
(***************************************************************************)
(* Proofs about the projection's asks and busy flag.                       *)
(*                                                                         *)
(* Every read of the harness is old when it is applied.  The proofs show   *)
(* that the stamps make up for it: what an event changed after a gather    *)
(* began carries a number above the gather's stamp (AsksInv), and a busy   *)
(* mark not above the evidence's stamp is of a turn the evidence knows of  *)
(* (TurnsInv).                                                             *)
(***************************************************************************)
EXTENDS LeaseProjection, FiniteSetTheorems, SequenceTheorems, NaturalsInduction,
        WellFoundedInduction, TLAPS

-----------------------------------------------------------------------------
(* The inductive invariants. *)

(* Events are held back only while a reseed buffers. *)
BufferHeld ==
    /\ pass.buffering <=> pass.pc \in {"rsArmed", "rsSwept", "rsSwapped"}
    /\ ~pass.buffering => buffer = <<>>

LeaseTypes == TypeOK /\ BufferHeld

(* The asks requested by the events of s. *)
RequestedIn(s) == {s[i].ask : i \in {j \in DOMAIN s : s[j].kind = "request"}}

(* No request of an ask behind its resolution. *)
Ordered(s) ==
    \A i, j \in DOMAIN s : i < j /\ s[i].kind = "resolved" /\ s[j].kind = "request"
                           => s[i].ask # s[j].ask

(* Whatever the projection and its readers hold was asked; what was        *)
(* resolved is not live any more.                                          *)
AskedBefore ==
    /\ harness.live \subseteq harness.asked
    /\ rec.pending \cup pass.seen \cup serve.seen \cup cache.seen \subseteq harness.asked
    /\ RequestedIn(wire) \cup RequestedIn(buffer) \subseteq harness.asked
    /\ ResolvedIn(wire) \cup ResolvedIn(buffer) \cup settled
          \subseteq harness.asked \ harness.live
    /\ answer # "none" => answer \in harness.asked \ harness.live

(* An ask is requested before it is resolved. *)
EventsOrdered ==
    /\ Ordered(wire) /\ Ordered(buffer)
    /\ ResolvedIn(buffer) \cap RequestedIn(wire) = {}
    /\ settled \cap (RequestedIn(wire) \cup RequestedIn(buffer)) = {}

(* A gather that saw an ask which is settled by now began before that. *)
GatherIsOlder ==
    /\ pass.pc = "gathered" =>
          \A a \in settled \cap pass.seen : rec.resolved[a] > pass.stamp
    /\ serve.pc = "gathered" =>
          \A a \in settled \cap serve.seen : rec.resolved[a] > serve.stamp

(* A gather that did not see a live prompt began before the prompt was     *)
(* folded, or before the last swap.                                        *)
MissedIsNewer(seen, stamp) ==
    \A a \in (rec.pending \cap harness.live) \ seen :
       rec.since[a] > stamp \/ stamp < swapSeq

GathersMissNewer ==
    /\ pass.pc = "gathered" => MissedIsNewer(pass.seen, pass.stamp)
    /\ serve.pc = "gathered" => MissedIsNewer(serve.seen, serve.stamp)
    /\ cache.fresh => MissedIsNewer(cache.seen, cache.stamp)

AsksInv ==
    AskedBefore /\ EventsOrdered /\ NoResurrection /\ GatherIsOlder /\ GathersMissNewer

(* Nothing is about a turn that has not started. *)
TurnsStarted ==
    /\ {rec.turn, pass.turn, deadTurn} \subseteq 0..harness.turns
    /\ \A i \in DOMAIN wire : wire[i].turn <= harness.turns
    /\ \A i \in DOMAIN buffer : buffer[i].turn <= harness.turns

(* Once the hold of a dead turn is lifted without a word from the harness, *)
(* the store's BUSY is about a later turn; the same for a reseed that is   *)
(* about to lift it.                                                       *)
HoldLifted ==
    /\ deadTurn # 0 /\ ~rec.foldedDead /\ harness.list => harness.turns > deadTurn
    /\ deadTurn # 0 /\ ~rec.foldedDead /\ pass.busy /\ pass.pc \in {"evidence", "swept"}
       => pass.turn > deadTurn
    /\ deadTurn # 0 /\ ~pass.busy /\ pass.pc \in {"rsRead", "rsArmed", "rsSwept"}
          /\ harness.list
       => harness.turns > deadTurn

(* The pass holds evidence. *)
HasEvidence == pass.pc \in {"evidence", "swept", "rsRead", "rsArmed", "rsSwept"}

(* Evidence of no running turn: the turns up to its own are over, and a    *)
(* busy mark that is not newer than its stamp is of one of them.           *)
EvidenceHolds ==
    /\ HasEvidence /\ ~pass.liveBusy => pass.turn <= EndedTurns
    /\ HasEvidence /\ rec.busy /\ rec.lastBusySeq <= pass.stamp => rec.turn <= pass.turn
    /\ pass.pc \in {"stamped", "evidence", "swept"} /\ rec.busy /\ rec.old
       => rec.lastBusySeq <= pass.stamp
    /\ harness.running => harness.turns > 0

TurnsInv == TurnsStarted /\ HoldLifted /\ EvidenceHolds /\ DeadStaysDead

-----------------------------------------------------------------------------
(* Folding. *)

(* Numbers only grow, and so do the types. *)
LEMMA TypesGrow ==
    ASSUME NEW m \in Nat, NEW n \in Nat, m <= n
    PROVE  /\ Records(m) \subseteq Records(n) /\ Passes(m) \subseteq Passes(n)
           /\ Serves(m) \subseteq Serves(n) /\ Caches(m) \subseteq Caches(n)
<1>1. 0..m \subseteq 0..n
  OBVIOUS
<1>2. [Asks -> 0..m] \subseteq [Asks -> 0..n]
  BY <1>1
<1>3. Records(m) \subseteq Records(n)
  BY <1>1, <1>2 DEF Records
<1>4. Passes(m) \subseteq Passes(n) /\ Serves(m) \subseteq Serves(n) /\ Caches(m) \subseteq Caches(n)
  BY <1>1 DEF Passes, Serves, Caches
<1> QED BY <1>3, <1>4

(* A nonempty set of numbers has a least one. *)
LEMMA LeastNumber ==
    ASSUME NEW S \in SUBSET Nat, S # {}
    PROVE  \E n \in S : \A m \in S : n <= m
<1>1. PICK n \in S : \A m \in S : ~(<<m, n>> \in OpToRel(<, Nat))
  BY NatLessThanWellFounded, WFMin
<1>2. ASSUME NEW m \in S PROVE n <= m
  <2>1. m \in Nat /\ n \in Nat
    OBVIOUS
  <2>2. ~(m < n)
    BY <2>1, <1>1 DEF OpToRel
  <2> QED BY <2>1, <2>2
<1> QED BY <1>2

Unfolds(f, r, evs, n) ==
    /\ f[0] = r
    /\ \A i \in 1..Len(evs) : f[i] = Fold(f[i - 1], evs[i], n + i)
    /\ FoldAll(r, evs, n) = f[Len(evs)]

LEMMA FoldAllUnfolds ==
    ASSUME NEW r, NEW evs, NEW n \in Nat, Len(evs) \in Nat
    PROVE  \E f : Unfolds(f, r, evs, n)
<1> DEFINE L == Len(evs)
           Def(g) == [i \in 0..L |-> IF i = 0 THEN r ELSE Fold(g[i - 1], evs[i], n + i)]
           f == CHOOSE g : g = Def(g)
<1>1. FoldAll(r, evs, n) = f[L]
  BY DEF FoldAll
<1>2. \E g : g = Def(g)
  <2> DEFINE Upto(m, g) ==
               g = [i \in 0..m |-> IF i = 0 THEN r ELSE Fold(g[i - 1], evs[i], n + i)]
             S == {m \in 0..L : ~\E g : Upto(m, g)}
  <2> SUFFICES ASSUME S # {} PROVE FALSE
    <3>1. L \in 0..L
      OBVIOUS
    <3> QED BY <3>1
  <2>1. S \in SUBSET Nat
    OBVIOUS
  <2>2. PICK m \in S : \A k \in S : m <= k
    BY <2>1, LeastNumber
  <2>3. m \in 0..L /\ ~\E g : Upto(m, g)
    OBVIOUS
  <2>4. CASE m = 0
    <3> DEFINE h == [i \in 0..0 |-> r]
    <3>1. h = [i \in 0..0 |-> IF i = 0 THEN r ELSE Fold(h[i - 1], evs[i], n + i)]
      OBVIOUS
    <3> QED BY <3>1, <2>3, <2>4
  <2>5. CASE m # 0
    <3>1. m - 1 \in 0..L /\ m - 1 < m /\ m \in Nat /\ m >= 1
      BY <2>3, <2>5
    <3>2. m - 1 \notin S
      <4> HIDE DEF S
      <4> QED BY <2>2, <3>1
    <3>3. PICK g : Upto(m - 1, g)
      BY <3>1, <3>2
    <3> DEFINE h == [i \in 0..m |-> IF i = m THEN Fold(g[m - 1], evs[m], n + m) ELSE g[i]]
    <3>4. \A i \in 0..(m - 1) : i \in 0..m /\ i # m /\ h[i] = g[i]
      BY <3>1
    <3>5. ASSUME NEW i \in 0..m
          PROVE  h[i] = IF i = 0 THEN r ELSE Fold(h[i - 1], evs[i], n + i)
      <4>1. CASE i = m
        <5>1. m - 1 \in 0..(m - 1) /\ i # 0
          BY <3>1, <4>1
        <5>2. h[m] = Fold(g[m - 1], evs[m], n + m) /\ h[m - 1] = g[m - 1]
          BY <3>4, <4>1, <5>1
        <5> QED BY <4>1, <5>1, <5>2
      <4>2. CASE i # m
        <5>1. i \in 0..(m - 1) /\ (i # 0 => i - 1 \in 0..(m - 1))
          BY <3>1, <4>2
        <5>2. g[i] = IF i = 0 THEN r ELSE Fold(g[i - 1], evs[i], n + i)
          BY <3>3, <5>1
        <5>3. h[i] = g[i] /\ (i # 0 => h[i - 1] = g[i - 1])
          BY <3>4, <5>1
        <5> QED BY <5>2, <5>3
      <4> QED BY <4>1, <4>2
    <3>6. h = [i \in 0..m |-> h[i]]
      OBVIOUS
    <3> HIDE DEF h
    <3>7. Upto(m, h)
      BY <3>5, <3>6
    <3> QED BY <3>7, <2>3
  <2> QED BY <2>4, <2>5
<1>3. f = Def(f)
  BY <1>2
<1> HIDE DEF f
<1>4. f[0] = r
  BY <1>3
<1>5. ASSUME NEW i \in 1..L PROVE f[i] = Fold(f[i - 1], evs[i], n + i)
  <2>1. i \in 0..L /\ i # 0
    OBVIOUS
  <2> QED BY <1>3, <2>1
<1> QED BY <1>1, <1>4, <1>5 DEF Unfolds

(* Induction over the numbers up to a bound, in the form of a set. *)
LEMMA UptoInduction ==
    ASSUME NEW L \in Nat, NEW S, 0 \in S, \A i \in 1..L : i - 1 \in S => i \in S
    PROVE  \A i \in 0..L : i \in S
<1> DEFINE T == (0..L) \ S
<1> SUFFICES ASSUME T # {} PROVE FALSE
  OBVIOUS
<1>1. PICK m \in T : \A k \in T : m <= k
  <2>1. T \in SUBSET Nat
    OBVIOUS
  <2> QED BY <2>1, LeastNumber
<1>2. m \in 1..L /\ m - 1 \in 0..L /\ ~(m <= m - 1)
  OBVIOUS
<1>3. m - 1 \in S
  BY <1>1, <1>2
<1> QED BY <1>2, <1>3

(* What one event, numbered n, does to the record r. *)
FoldEffect(q, r, e, n) ==
    /\ q \in Records(n) /\ q.foldedDead = r.foldedDead
    /\ \A a \in Asks :
         /\ IF e.kind = "request" /\ e.ask = a
            THEN a \in q.pending /\ q.since[a] = n
            ELSE q.since[a] = r.since[a] /\ (a \in q.pending => a \in r.pending)
         /\ IF e.kind = "resolved" /\ e.ask = a
            THEN a \notin q.pending /\ q.resolved[a] = n
            ELSE q.resolved[a] = r.resolved[a] /\ (a \in r.pending => a \in q.pending)
    /\ IF e.kind \in {"busy", "part"}
       THEN q.busy /\ q.lastBusySeq = n /\ ~q.old /\ q.turn = e.turn
       ELSE /\ q.turn = r.turn /\ q.lastBusySeq = r.lastBusySeq /\ q.old = r.old
            /\ q.busy => r.busy

LEMMA FoldFacts ==
    ASSUME NEW m \in Nat, NEW n \in Nat, m <= n, NEW r \in Records(m), NEW e \in Ev
    PROVE  FoldEffect(Fold(r, e, n), r, e, n)
<1> DEFINE q == Fold(r, e, n)
<1> SUFFICES FoldEffect(q, r, e, n)
  OBVIOUS
<1>1. r \in Records(n) /\ n \in 0..n
  BY TypesGrow
<1>2. e.turn \in Nat /\ e.kind \in {"request", "resolved", "busy", "part", "partEnd", "error", "idle"}
  BY DEF Ev
<1>3. CASE e.kind = "request"
  <2>1. e.ask \in Asks /\ q = Request(r, {e.ask}, n)
    BY <1>3 DEF Ev, Fold
  <2> DEFINE g == [a \in Asks |-> IF a \in {e.ask} THEN n ELSE r.since[a]]
             p == r.pending \cup {e.ask}
  <2>2. g \in [Asks -> 0..n] /\ p \in SUBSET Asks
    BY <1>1, <2>1 DEF Records
  <2>3. q = [r EXCEPT !.pending = p, !.since = g]
    BY <2>1 DEF Request
  <2> HIDE DEF g, p
  <2>4. q \in Records(n) /\ q.foldedDead = r.foldedDead
        /\ q.pending = p /\ q.resolved = r.resolved /\ q.since = g
        /\ q.turn = r.turn /\ q.lastBusySeq = r.lastBusySeq /\ q.old = r.old
        /\ q.busy = r.busy
    BY <1>1, <2>2, <2>3 DEF Records
  <2> HIDE DEF q
  <2> QED BY <1>3, <2>1, <2>4 DEF FoldEffect, g, p
<1>4. CASE e.kind = "resolved"
  <2>1. e.ask \in Asks /\ q = Resolve(r, {e.ask}, n)
    BY <1>4 DEF Ev, Fold
  <2>2. [a \in Asks |-> IF a \in {e.ask} THEN n ELSE r.resolved[a]] \in [Asks -> 0..n]
    BY <1>1 DEF Records
  <2>3. q = [r EXCEPT !.pending = @ \ {e.ask},
                      !.resolved = [a \in Asks |-> IF a \in {e.ask} THEN n ELSE r.resolved[a]]]
    BY <2>1 DEF Resolve
  <2>4. q \in Records(n) /\ q.foldedDead = r.foldedDead
        /\ q.pending = r.pending \ {e.ask} /\ q.since = r.since
        /\ q.resolved = [a \in Asks |-> IF a \in {e.ask} THEN n ELSE r.resolved[a]]
        /\ q.turn = r.turn /\ q.lastBusySeq = r.lastBusySeq /\ q.old = r.old
        /\ q.busy = r.busy
    BY <1>1, <2>1, <2>2, <2>3 DEF Records
  <2> HIDE DEF q
  <2> QED BY <1>4, <2>1, <2>4 DEF FoldEffect
<1>5. CASE e.kind \in {"busy", "part"}
  <2>1. q = MarkBusy(r, n, e.turn) \/ q = [MarkBusy(r, n, e.turn) EXCEPT !.tool = TRUE]
    BY <1>5 DEF Fold
  <2>2. q \in Records(n) /\ q.foldedDead = r.foldedDead /\ q.pending = r.pending
        /\ q.since = r.since /\ q.resolved = r.resolved
        /\ q.busy /\ q.lastBusySeq = n /\ ~q.old /\ q.turn = e.turn
    BY <1>1, <1>2, <2>1, ZenonT(60) DEF Records, MarkBusy
  <2> HIDE DEF q
  <2> QED BY <1>5, <2>2 DEF FoldEffect
<1>6. CASE e.kind \in {"partEnd", "error", "idle"}
  <2>1. \/ q = [r EXCEPT !.tool = FALSE] \/ q = [r EXCEPT !.busy = FALSE]
        \/ q = [r EXCEPT !.busy = FALSE, !.tool = FALSE]
    BY <1>6 DEF Fold
  <2>2. q \in Records(n) /\ q.foldedDead = r.foldedDead /\ q.pending = r.pending
        /\ q.since = r.since /\ q.resolved = r.resolved
        /\ q.turn = r.turn /\ q.lastBusySeq = r.lastBusySeq /\ q.old = r.old
        /\ (q.busy => r.busy)
    BY <1>1, <2>1 DEF Records
  <2> HIDE DEF q
  <2> QED BY <1>6, <2>2 DEF FoldEffect
<1> QED BY <1>2, <1>3, <1>4, <1>5, <1>6

(* The record q, after the first i events of evs, numbered from n + 1, were *)
(* folded into r.                                                          *)
ResolvedBy(evs, i) == {a \in Asks : \E j \in 1..i : evs[j].kind = "resolved" /\ evs[j].ask = a}
RequestedBy(evs, i) == {a \in Asks : \E j \in 1..i : evs[j].kind = "request" /\ evs[j].ask = a}

FoldedSoFar(q, r, evs, i, n) ==
    /\ q \in Records(n + i) /\ q.foldedDead = r.foldedDead
    /\ q.turn = r.turn \/ \E j \in 1..i : q.turn = evs[j].turn
    /\ \A a \in Asks :
         /\ a \in q.pending => \/ a \in r.pending /\ q.since[a] = r.since[a]
                               \/ q.since[a] > n
         /\ a \in q.pending => a \in r.pending \cup RequestedBy(evs, i)
         /\ a \in r.pending \ q.pending => a \in ResolvedBy(evs, i)
         /\ IF a \in ResolvedBy(evs, i)
            THEN q.resolved[a] > n /\ (Ordered(evs) => a \notin q.pending)
            ELSE q.resolved[a] = r.resolved[a]

LEMMA FoldedStep ==
    ASSUME NEW n \in Nat, NEW r \in Records(n), NEW evs \in Seq(Ev), NEW i \in 1..Len(evs),
           NEW q, FoldedSoFar(q, r, evs, i - 1, n)
    PROVE  FoldedSoFar(Fold(q, evs[i], n + i), r, evs, i, n)
<1> DEFINE e == evs[i]
           p == Fold(q, e, n + i)
<1>1. e \in Ev /\ Len(evs) \in Nat /\ DOMAIN evs = 1..Len(evs)
  OBVIOUS
<1>2. i \in Nat /\ i - 1 \in Nat /\ n + i \in Nat /\ n + (i - 1) \in Nat
      /\ n + (i - 1) <= n + i /\ n + i > n
  BY <1>1
<1>3. q \in Records(n + (i - 1)) /\ q.foldedDead = r.foldedDead
  BY DEF FoldedSoFar
<1>4. \A j : j \in 1..i <=> j \in 1..(i - 1) \/ j = i
  BY <1>2
<1>5. \A a \in Asks :
         /\ a \in ResolvedBy(evs, i) <=> a \in ResolvedBy(evs, i - 1) \/ (e.kind = "resolved" /\ e.ask = a)
         /\ a \in RequestedBy(evs, i) <=> a \in RequestedBy(evs, i - 1) \/ (e.kind = "request" /\ e.ask = a)
  BY <1>4 DEF ResolvedBy, RequestedBy
<1> HIDE DEF p
<1>6. /\ p \in Records(n + i) /\ p.foldedDead = q.foldedDead
      /\ p.turn = q.turn \/ p.turn = e.turn
      /\ \A a \in Asks :
            /\ IF e.kind = "request" /\ e.ask = a
               THEN a \in p.pending /\ p.since[a] = n + i
               ELSE p.since[a] = q.since[a] /\ (a \in p.pending => a \in q.pending)
            /\ IF e.kind = "resolved" /\ e.ask = a
               THEN a \notin p.pending /\ p.resolved[a] = n + i
               ELSE p.resolved[a] = q.resolved[a] /\ (a \in q.pending => a \in p.pending)
  <2> DEFINE k == n + (i - 1)
             l == n + i
  <2>1. e \in Ev /\ k \in Nat /\ l \in Nat /\ k <= l /\ q \in Records(k)
    BY <1>1, <1>2, <1>3
  <2> HIDE DEF k, l, e
  <2>2. FoldEffect(Fold(q, e, l), q, e, l)
    BY <2>1, FoldFacts
  <2>3. p = Fold(q, e, l)
    BY DEF p, l, e
  <2> QED BY <2>2, <2>3 DEF FoldEffect, l
<1>7. p.turn = r.turn \/ \E j \in 1..i : p.turn = evs[j].turn
  <2>1. q.turn = r.turn \/ \E j \in 1..(i - 1) : q.turn = evs[j].turn
    BY DEF FoldedSoFar
  <2> QED BY <1>4, <1>6, <2>1
<1>8. ASSUME NEW a \in Asks
      PROVE  /\ a \in p.pending => \/ a \in r.pending /\ p.since[a] = r.since[a]
                                   \/ p.since[a] > n
             /\ a \in p.pending => a \in r.pending \cup RequestedBy(evs, i)
             /\ a \in r.pending \ p.pending => a \in ResolvedBy(evs, i)
             /\ IF a \in ResolvedBy(evs, i)
                THEN p.resolved[a] > n /\ (Ordered(evs) => a \notin p.pending)
                ELSE p.resolved[a] = r.resolved[a]
  <2>1. /\ a \in q.pending => \/ a \in r.pending /\ q.since[a] = r.since[a]
                              \/ q.since[a] > n
        /\ a \in q.pending => a \in r.pending \cup RequestedBy(evs, i - 1)
        /\ a \in r.pending \ q.pending => a \in ResolvedBy(evs, i - 1)
        /\ IF a \in ResolvedBy(evs, i - 1)
           THEN q.resolved[a] > n /\ (Ordered(evs) => a \notin q.pending)
           ELSE q.resolved[a] = r.resolved[a]
    BY DEF FoldedSoFar
  <2>2. /\ a \in ResolvedBy(evs, i) <=> a \in ResolvedBy(evs, i - 1) \/ (e.kind = "resolved" /\ e.ask = a)
        /\ a \in RequestedBy(evs, i) <=> a \in RequestedBy(evs, i - 1) \/ (e.kind = "request" /\ e.ask = a)
    BY <1>5
  <2>3. Ordered(evs) /\ a \in ResolvedBy(evs, i - 1) => ~(e.kind = "request" /\ e.ask = a)
    <3> SUFFICES ASSUME Ordered(evs), a \in ResolvedBy(evs, i - 1), e.kind = "request", e.ask = a
                 PROVE  FALSE
      OBVIOUS
    <3>1. PICK j \in 1..(i - 1) : evs[j].kind = "resolved" /\ evs[j].ask = a
      BY DEF ResolvedBy
    <3>2. j \in DOMAIN evs /\ i \in DOMAIN evs /\ j < i
      BY <1>1, <1>2
    <3> QED BY <3>1, <3>2 DEF Ordered
  <2>4. /\ IF e.kind = "request" /\ e.ask = a
           THEN a \in p.pending /\ p.since[a] = n + i
           ELSE p.since[a] = q.since[a] /\ (a \in p.pending => a \in q.pending)
        /\ IF e.kind = "resolved" /\ e.ask = a
           THEN a \notin p.pending /\ p.resolved[a] = n + i
           ELSE p.resolved[a] = q.resolved[a] /\ (a \in q.pending => a \in p.pending)
    BY <1>6
  <2> HIDE DEF e
  <2>5. CASE e.kind = "request" /\ e.ask = a
    BY <1>2, <2>1, <2>2, <2>3, <2>4, <2>5
  <2>6. CASE e.kind = "resolved" /\ e.ask = a
    BY <1>2, <2>1, <2>2, <2>4, <2>6
  <2>7. CASE ~(e.kind = "request" /\ e.ask = a) /\ ~(e.kind = "resolved" /\ e.ask = a)
    BY <2>1, <2>2, <2>4, <2>7
  <2> QED BY <2>5, <2>6, <2>7
<1> QED BY <1>3, <1>6, <1>7, <1>8 DEF FoldedSoFar, p

(* What a run of events does to the record. *)
LEMMA FoldAllFacts ==
    ASSUME NEW n \in Nat, NEW r \in Records(n), NEW evs \in Seq(Ev)
    PROVE  /\ FoldedSoFar(FoldAll(r, evs, n), r, evs, Len(evs), n)
           /\ evs = <<>> => FoldAll(r, evs, n) = r
<1> DEFINE L == Len(evs)
<1>1. L \in Nat
  OBVIOUS
<1>2. PICK f : /\ f[0] = r
               /\ \A i \in 1..L : f[i] = Fold(f[i - 1], evs[i], n + i)
               /\ FoldAll(r, evs, n) = f[L]
  <2>1. Len(evs) \in Nat
    OBVIOUS
  <2>2. \E f : Unfolds(f, r, evs, n)
    BY <2>1, FoldAllUnfolds
  <2> QED BY <2>2 DEF Unfolds
<1> DEFINE S == {i \in 0..L : FoldedSoFar(f[i], r, evs, i, n)}
<1>3. 0 \in S
  <2>1. r \in Records(n + 0)
    OBVIOUS
  <2>2. ResolvedBy(evs, 0) = {} /\ RequestedBy(evs, 0) = {}
    BY DEF ResolvedBy, RequestedBy
  <2>3. FoldedSoFar(r, r, evs, 0, n)
    BY <2>1, <2>2 DEF FoldedSoFar
  <2> QED BY <1>1, <1>2, <2>3
<1>4. ASSUME NEW i \in 1..L, i - 1 \in S PROVE i \in S
  <2>1. FoldedSoFar(f[i - 1], r, evs, i - 1, n) /\ i \in 0..L
    BY <1>1, <1>4
  <2>2. FoldedSoFar(Fold(f[i - 1], evs[i], n + i), r, evs, i, n)
    BY <2>1, FoldedStep
  <2> QED BY <1>2, <2>1, <2>2
<1> HIDE DEF S
<1>5. \A i \in 0..L : i \in S
  BY <1>1, <1>3, <1>4, UptoInduction
<1>6. FoldedSoFar(f[L], r, evs, L, n)
  BY <1>1, <1>5 DEF S
<1>7. evs = <<>> => L = 0
  OBVIOUS
<1> QED BY <1>2, <1>6, <1>7

(* The two ways to name the asks of a sequence. *)
LEMMA ByIsIn ==
    ASSUME NEW evs \in Seq(Ev)
    PROVE  /\ ResolvedBy(evs, Len(evs)) = ResolvedIn(evs)
           /\ RequestedBy(evs, Len(evs)) = RequestedIn(evs)
<1>1. DOMAIN evs = 1..Len(evs)
  OBVIOUS
<1>2. ASSUME NEW j \in 1..Len(evs), evs[j].kind \in {"resolved", "request"} PROVE evs[j].ask \in Asks
  <2>1. evs[j] \in Ev
    BY <1>1
  <2> QED BY <2>1, <1>2 DEF Ev
<1> QED BY <1>1, <1>2 DEF ResolvedBy, ResolvedIn, RequestedBy, RequestedIn

-----------------------------------------------------------------------------
(* What a diff does: it resolves the asks gone, requests the asks new, and  *)
(* the numbers it gives are above the ones before.                         *)
DiffEffect(q, m, r, n, gone, new) ==
    /\ m \in Nat /\ n <= m /\ (gone \cup new # {} => n < m)
    /\ q \in Records(m) /\ q.pending = (r.pending \ gone) \cup new
    /\ \A a \in Asks : /\ q.since[a] = IF a \in new THEN m ELSE r.since[a]
                       /\ q.resolved[a] = IF a \in gone THEN m ELSE r.resolved[a]
    /\ q.busy = r.busy /\ q.lastBusySeq = r.lastBusySeq /\ q.old = r.old
    /\ q.turn = r.turn /\ q.foldedDead = r.foldedDead

LEMMA ResolveRequest ==
    ASSUME NEW n \in Nat, NEW m \in Nat, n <= m, NEW r \in Records(n),
           NEW gone \in SUBSET Asks, NEW new \in SUBSET Asks, gone \cup new # {} => n < m
    PROVE  DiffEffect(Request(Resolve(r, gone, m), new, m), m, r, n, gone, new)
<1> DEFINE g == [a \in Asks |-> IF a \in gone THEN m ELSE r.resolved[a]]
           h == [a \in Asks |-> IF a \in new THEN m ELSE r.since[a]]
           q == Request(Resolve(r, gone, m), new, m)
<1>1. r \in Records(m) /\ m \in 0..m
  BY TypesGrow
<1>2. g \in [Asks -> 0..m] /\ h \in [Asks -> 0..m]
  BY <1>1 DEF Records
<1>3. r.pending \in SUBSET Asks
  BY DEF Records
<1>4. Resolve(r, gone, m) = [r EXCEPT !.pending = @ \ gone, !.resolved = g]
  BY DEF Resolve
<1>5. \A x : x = [r EXCEPT !.pending = @ \ gone, !.resolved = g]
             => x.since = r.since /\ x.pending = r.pending \ gone
  BY <1>1 DEF Records
<1>6. q = [Resolve(r, gone, m) EXCEPT !.pending = @ \cup new, !.since = h]
  BY <1>4, <1>5 DEF Request
<1>7. \A f, k : [[r EXCEPT !.pending = @ \ gone, !.resolved = f]
                    EXCEPT !.pending = @ \cup new, !.since = k]
                = [r EXCEPT !.pending = (@ \ gone) \cup new, !.resolved = f, !.since = k]
  BY <1>1 DEF Records
<1>8. q = [r EXCEPT !.pending = (@ \ gone) \cup new, !.resolved = g, !.since = h]
  BY <1>4, <1>6, <1>7
<1>9. \A a \in Asks : /\ h[a] = IF a \in new THEN m ELSE r.since[a]
                      /\ g[a] = IF a \in gone THEN m ELSE r.resolved[a]
  OBVIOUS
<1> SUFFICES DiffEffect(q, m, r, n, gone, new)
  OBVIOUS
<1> HIDE DEF g, h, q
<1>10. q \in Records(m) /\ q.pending = (r.pending \ gone) \cup new /\ q.since = h
       /\ q.resolved = g /\ q.busy = r.busy /\ q.lastBusySeq = r.lastBusySeq
       /\ q.old = r.old /\ q.turn = r.turn /\ q.foldedDead = r.foldedDead
  BY <1>1, <1>2, <1>3, <1>8 DEF Records
<1> QED BY <1>9, <1>10 DEF DiffEffect

LEMMA DiffFacts ==
    ASSUME LeaseTypes, NEW seen \in SUBSET Asks, NEW stamp \in Nat, NEW reused,
           DiffUnlessAdmitting(seen, stamp, reused)
    PROVE  \E gone \in SUBSET MissingAsks(rec, seen, stamp) :
           \E new \in SUBSET NewAsks(rec, seen, stamp) :
              /\ reused => new = {}
              /\ DiffEffect(rec', seq', rec, seq, gone, new)
<1>1. seq \in Nat /\ rec \in Records(seq) /\ IsFiniteSet(Asks)
  BY LeaseAssumption DEF LeaseTypes, TypeOK
<1>2. CASE admitting
  <2>1. seq' = seq /\ rec' = rec
    BY <1>2 DEF DiffUnlessAdmitting
  <2>2. DiffEffect(rec', seq', rec, seq, {}, {})
    <3>1. rec.pending = (rec.pending \ {}) \cup {}
      OBVIOUS
    <3> QED BY <1>1, <2>1, <3>1 DEF DiffEffect
  <2> QED BY <2>2
<1>3. CASE ~admitting
  <2> DEFINE gone == MissingAsks(rec, seen, stamp)
             new == IF reused THEN {} ELSE NewAsks(rec, seen, stamp)
             m == seq + Cardinality(gone) + Cardinality(new)
  <2>1. gone \in SUBSET Asks /\ new \in SUBSET Asks
    BY <1>1 DEF Records, MissingAsks, NewAsks
  <2>2. IsFiniteSet(gone) /\ IsFiniteSet(new)
    BY <1>1, <2>1, FS_Subset
  <2>3. seq' = m /\ rec' = Request(Resolve(rec, gone, m), new, m)
    BY <1>3 DEF DiffUnlessAdmitting, DiffSessionLease
  <2>4. new \subseteq NewAsks(rec, seen, stamp) /\ (reused => new = {})
    OBVIOUS
  <2> HIDE DEF gone, new
  <2>5. /\ Cardinality(gone) \in Nat /\ Cardinality(new) \in Nat
        /\ gone # {} => Cardinality(gone) # 0
        /\ new # {} => Cardinality(new) # 0
    BY <2>2, FS_CardinalityType, FS_EmptySet
  <2>6. m \in Nat /\ seq <= m /\ (gone \cup new # {} => seq < m)
    BY <1>1, <2>5
  <2> HIDE DEF m
  <2>7. DiffEffect(rec', seq', rec, seq, gone, new)
    BY <1>1, <2>1, <2>3, <2>6, ResolveRequest
  <2>8. gone \subseteq MissingAsks(rec, seen, stamp)
    BY DEF gone
  <2> QED BY <2>4, <2>7, <2>8
<1> QED BY <1>2, <1>3

(* What the busy sweep and the status re-derivation leave alone. *)
LEMMA ClearFacts ==
    ASSUME LeaseTypes, NEW q, q = Fold(rec, IdleStatus, seq + 1)
    PROVE  /\ seq + 1 \in Nat /\ q \in Records(seq + 1)
           /\ q.pending = rec.pending /\ q.since = rec.since /\ q.resolved = rec.resolved
           /\ ~q.busy /\ q.turn = rec.turn /\ q.foldedDead = rec.foldedDead
<1>1. seq \in Nat /\ seq + 1 \in Nat /\ seq <= seq + 1 /\ rec \in Records(seq)
  BY DEF LeaseTypes, TypeOK
<1>2. rec \in Records(seq + 1)
  BY <1>1, TypesGrow
<1>3. q = [rec EXCEPT !.busy = FALSE, !.tool = FALSE]
  BY DEF Fold, IdleStatus
<1> QED BY <1>1, <1>2, <1>3 DEF Records

LEMMA MarkFacts ==
    ASSUME LeaseTypes, NEW t \in Nat, NEW q, q = MarkBusy(rec, seq + 1, t)
    PROVE  /\ seq + 1 \in Nat /\ q \in Records(seq + 1)
           /\ q.pending = rec.pending /\ q.since = rec.since /\ q.resolved = rec.resolved
           /\ q.busy /\ q.turn = t /\ q.foldedDead = rec.foldedDead
           /\ q.lastBusySeq = seq + 1 /\ ~q.old
<1>1. seq \in Nat /\ seq + 1 \in Nat /\ seq + 1 \in 0..(seq + 1) /\ seq <= seq + 1 /\ rec \in Records(seq)
  BY DEF LeaseTypes, TypeOK
<1>2. rec \in Records(seq + 1)
  BY <1>1, TypesGrow
<1>3. q = [rec EXCEPT !.busy = TRUE, !.lastBusySeq = seq + 1, !.old = FALSE, !.turn = t]
  BY DEF MarkBusy
<1> QED BY <1>1, <1>2, <1>3 DEF Records

-----------------------------------------------------------------------------
(* Types. *)

(* While the numbers grow, what a step leaves alone keeps its type. *)
LEMMA TypesKept ==
    ASSUME LeaseTypes, seq' \in Nat, seq <= seq'
    PROVE  /\ rec \in Records(seq') /\ pass \in Passes(seq')
           /\ serve \in Serves(seq') /\ cache \in Caches(seq') /\ swapSeq \in 0..seq'
           /\ IdlePass \in Passes(seq') /\ IdleServe \in Serves(seq') /\ NoCache \in Caches(seq')
<1>1. seq \in Nat /\ rec \in Records(seq) /\ pass \in Passes(seq) /\ serve \in Serves(seq)
      /\ cache \in Caches(seq) /\ swapSeq \in 0..seq
  BY DEF LeaseTypes, TypeOK
<1>2. swapSeq \in 0..seq' /\ 0 \in 0..seq'
  BY <1>1
<1>3. IdlePass \in Passes(seq') /\ IdleServe \in Serves(seq') /\ NoCache \in Caches(seq')
  BY <1>2 DEF IdlePass, IdleServe, NoCache, Passes, Serves, Caches
<1> QED BY <1>1, <1>2, <1>3, TypesGrow

LEMMA InitTypes == Init => LeaseTypes
<1> SUFFICES ASSUME Init PROVE LeaseTypes
  OBVIOUS
<1>0. 0 \in 0..0 /\ 0 \in 0..1 /\ 1 \in 0..1 /\ 1 \in Nat /\ 0 \in Nat
  OBVIOUS
<1>1. NewRecord({}, FALSE) \in Records(0)
  BY <1>0 DEF NewRecord, Records
<1>2. NewRecord({}, FALSE) \in Records(1)
  BY <1>0 DEF NewRecord, Records
<1>3. MarkBusy(NewRecord({}, FALSE), 1, 1) \in Records(1)
  BY <1>0, <1>2 DEF MarkBusy, Records
<1>4. seq \in 0..1 /\ rec \in Records(seq) /\ harness \in Harnesses
  <2>1. CASE focus = "asks"
    <3>1. /\ seq = 1 /\ rec = MarkBusy(NewRecord({}, FALSE), 1, 1)
          /\ harness = [live |-> {}, asked |-> {}, running |-> TRUE, turns |-> 1, list |-> TRUE]
      BY <2>1 DEF Init
    <3>2. harness \in Harnesses
      BY <1>0, <3>1 DEF Harnesses
    <3> QED BY <1>0, <1>3, <3>1, <3>2
  <2>2. CASE focus # "asks"
    <3> DEFINE idle == 0 = 1
    <3>0. idle \in BOOLEAN
      OBVIOUS
    <3>1. /\ seq = 0 /\ rec = NewRecord({}, FALSE)
          /\ harness = [live |-> {}, asked |-> {}, running |-> idle, turns |-> 0, list |-> idle]
      BY <2>2 DEF Init
    <3> HIDE DEF idle
    <3>2. harness \in Harnesses
      BY <1>0, <3>0, <3>1 DEF Harnesses
    <3> QED BY <1>0, <1>1, <3>1, <3>2
  <2> QED BY <2>1, <2>2
<1>5. seq \in Nat /\ 0 \in 0..seq
  BY <1>4
<1>6. pass \in Passes(seq) /\ serve \in Serves(seq) /\ cache \in Caches(seq)
  BY <1>5 DEF Init, IdlePass, IdleServe, NoCache, Passes, Serves, Caches
<1>7. wire \in Seq(Ev) /\ buffer \in Seq(Ev) /\ inputs \in 0..MaxInputs /\ reseeds \in 0..MaxReseeds
      /\ swapSeq \in 0..seq /\ answer \in Asks \cup {"none"} /\ admitting \in BOOLEAN
      /\ settled \subseteq Asks /\ deadTurn \in Nat
  <2>1. 0 \in 0..MaxInputs /\ 0 \in 0..MaxReseeds /\ <<>> \in Seq(Ev)
    BY LeaseAssumption
  <2> QED BY <1>0, <1>5, <2>1 DEF Init
<1>8. BufferHeld
  BY DEF Init, IdlePass, BufferHeld
<1> QED BY <1>4, <1>5, <1>6, <1>7, <1>8 DEF LeaseTypes, TypeOK

(* The harness's events have their types. *)
LEMMA EventTypes ==
    ASSUME LeaseTypes
    PROVE  /\ \A a \in Asks : AskEvent("request", a) \in Ev /\ AskEvent("resolved", a) \in Ev
           /\ \A k \in {"busy", "part", "partEnd", "error", "idle"} : TurnEvent(k) \in Ev
           /\ [TurnEvent("busy") EXCEPT !.turn = @ + 1] \in Ev
           /\ [TurnEvent("busy") EXCEPT !.turn = @ + 1]
                = [kind |-> "busy", ask |-> "none", turn |-> harness.turns + 1]
<1>1. harness.turns \in Nat
  BY DEF LeaseTypes, TypeOK, Harnesses
<1> QED BY <1>1 DEF AskEvent, TurnEvent, Ev

(* A step of the harness leaves the authority alone. *)
LEMMA HarnessTypes ==
    ASSUME LeaseTypes, Input, harness' \in Harnesses, admitting' \in BOOLEAN,
           NEW e \in Ev, wire' \in {Append(wire, e), wire}
    PROVE  LeaseTypes'
<1> USE LeaseAssumption
<1>1. wire' \in Seq(Ev)
  BY DEF LeaseTypes, TypeOK
<1>2. inputs' \in 0..MaxInputs
  BY DEF LeaseTypes, TypeOK, Input
<1> QED BY <1>1, <1>2 DEF LeaseTypes, TypeOK, BufferHeld, Input, Authority, ghosts

LEMMA NextTypes == LeaseTypes /\ [Next]_vars => LeaseTypes'
<1> SUFFICES ASSUME LeaseTypes, [Next]_vars PROVE LeaseTypes'
  OBVIOUS
<1> USE LeaseAssumption
<1>t. /\ harness \in Harnesses
      /\ wire \in Seq(Ev) /\ buffer \in Seq(Ev)
      /\ inputs \in 0..MaxInputs /\ reseeds \in 0..MaxReseeds
      /\ seq \in Nat /\ swapSeq \in 0..seq
      /\ rec \in Records(seq) /\ pass \in Passes(seq)
      /\ serve \in Serves(seq) /\ cache \in Caches(seq)
      /\ answer \in Asks \cup {"none"} /\ admitting \in BOOLEAN
      /\ settled \subseteq Asks /\ deadTurn \in Nat
      /\ pass.buffering <=> pass.pc \in {"rsArmed", "rsSwept", "rsSwapped"}
      /\ ~pass.buffering => buffer = <<>>
  BY DEF LeaseTypes, TypeOK, BufferHeld
<1>h. harness.live \in SUBSET Asks /\ harness.turns \in Nat /\ harness.list \in BOOLEAN
      /\ harness.running \in BOOLEAN
  BY <1>t DEF Harnesses
<1>i. IdlePass \in Passes(seq) /\ seq <= seq /\ seq \in 0..seq /\ 0 \in 0..seq
  BY <1>t DEF IdlePass, Passes
<1>1. ASSUME NEW a \in Asks, Ask(a) PROVE LeaseTypes'
  <2>1. harness' \in Harnesses
    BY <1>t, <1>1 DEF Ask, Harnesses
  <2> QED BY <1>t, <1>1, <2>1, EventTypes, HarnessTypes DEF Ask, Emit
<1>2. ASSUME NEW a \in Asks, Answered(a) PROVE LeaseTypes'
  <2>1. harness' \in Harnesses
    BY <1>t, <1>2 DEF Answered, Harnesses
  <2> QED BY <1>t, <1>2, <2>1, EventTypes, HarnessTypes DEF Answered, Emit
<1>3. CASE StartTurn
  <2>1. harness' \in Harnesses
    <3>1. harness.turns + 1 \in Nat
      BY <1>h
    <3> QED BY <1>t, <1>3, <3>1 DEF StartTurn, Harnesses
  <2> QED BY <1>t, <1>3, <2>1, EventTypes, HarnessTypes DEF StartTurn
<1>4. CASE ToolEvent
  <2>1. PICK k \in {"part", "partEnd"} : Emit(TurnEvent(k))
    BY <1>4 DEF ToolEvent
  <2> QED BY <1>t, <1>4, <2>1, EventTypes, HarnessTypes DEF ToolEvent, Emit
<1>5. CASE EndTurn
  <2>1. harness' \in Harnesses
    BY <1>t, <1>5 DEF EndTurn, Harnesses
  <2>2. PICK k \in {"idle", "error"} : Emit(TurnEvent(k))
    BY <1>5 DEF EndTurn
  <2> QED BY <1>t, <1>5, <2>1, <2>2, EventTypes, HarnessTypes DEF EndTurn, Emit
<1>6. CASE Admit
  <2>1. inputs' \in 0..MaxInputs
    BY <1>t, <1>6 DEF Admit, Input
  <2> QED BY <1>t, <1>6, <2>1 DEF Admit, Input, Authority, ghosts, LeaseTypes, TypeOK, BufferHeld
<1>7. CASE AdmitEnd
  BY <1>t, <1>7 DEF AdmitEnd, env, Authority, ghosts, LeaseTypes, TypeOK, BufferHeld
<1>8. CASE Ingest
  <2> DEFINE e == Head(wire)
  <2>1. e \in Ev /\ wire' \in Seq(Ev) /\ Tail(wire) \in Seq(Ev)
    BY <1>t, <1>8, HeadTailProperties DEF Ingest
  <2>2. CASE pass.buffering
    <3>1. buffer' = Append(buffer, e) /\ UNCHANGED <<seq, rec, settled, deadTurn>>
      BY <1>8, <2>2 DEF Ingest
    <3>2. buffer' \in Seq(Ev)
      BY <1>t, <2>1, <3>1
    <3> QED BY <1>t, <1>8, <2>1, <2>2, <3>1, <3>2 DEF Ingest, LeaseTypes, TypeOK, BufferHeld
  <2>3. CASE ~pass.buffering
    <3> DEFINE r == [rec EXCEPT !.foldedDead = FALSE]
    <3>1. r \in Records(seq)
      BY <1>t DEF Records
    <3>2. seq + 1 \in Nat /\ seq <= seq + 1
      BY <1>t
    <3>3. /\ seq' = seq + 1 /\ rec' = Fold(r, e, seq + 1)
          /\ settled' = settled \cup ResolvedIn(<<e>>) /\ deadTurn' = 0 /\ UNCHANGED buffer
      BY <1>8, <2>3 DEF Ingest
    <3> HIDE DEF r, e
    <3>4. FoldEffect(rec', r, e, seq')
      BY <1>t, <2>1, <3>1, <3>2, <3>3, FoldFacts
    <3>5. settled' \subseteq Asks
      <4>1. <<e>> \in Seq(Ev)
        BY <2>1
      <4>2. ResolvedIn(<<e>>) \subseteq Asks
        BY <4>1, ByIsIn DEF ResolvedBy
      <4> QED BY <1>t, <3>3, <4>2
    <3>6. rec' \in Records(seq')
      BY <3>4 DEF FoldEffect
    <3> QED BY <1>t, <1>8, <2>1, <2>3, <3>2, <3>3, <3>5, <3>6, TypesKept
            DEF Ingest, LeaseTypes, TypeOK, BufferHeld
  <2> QED BY <2>2, <2>3
<1>9. ASSUME NEW a \in Asks, AnswerUnknown(a) PROVE LeaseTypes'
  <2>1. inputs' \in 0..MaxInputs
    BY <1>t, <1>9 DEF AnswerUnknown
  <2> QED BY <1>t, <1>9, <2>1 DEF AnswerUnknown, ghosts, LeaseTypes, TypeOK, BufferHeld
<1>10. CASE ResolveByAbsence
  <2>1. CASE answer \in rec.pending
    <3>1. seq' = seq + 1 /\ rec' = Resolve(rec, {answer}, seq + 1) /\ answer \in Asks
      BY <1>t, <1>10, <2>1 DEF ResolveByAbsence, Records
    <3>2. seq' \in Nat /\ seq <= seq' /\ seq' \in 0..seq'
      BY <1>t, <3>1
    <3>3. rec \in Records(seq')
      BY <3>2, TypesKept
    <3>4. [a \in Asks |-> IF a \in {answer} THEN seq' ELSE rec.resolved[a]] \in [Asks -> 0..seq']
      BY <3>2, <3>3 DEF Records
    <3>5. rec' = [rec EXCEPT !.pending = @ \ {answer},
                   !.resolved = [a \in Asks |-> IF a \in {answer} THEN seq' ELSE rec.resolved[a]]]
      BY <3>1 DEF Resolve
    <3>6. rec' \in Records(seq')
      BY <3>3, <3>4, <3>5 DEF Records
    <3> QED BY <1>t, <1>10, <3>2, <3>6, TypesKept
            DEF ResolveByAbsence, env, ghosts, LeaseTypes, TypeOK, BufferHeld
  <2>2. CASE answer \notin rec.pending
    BY <1>t, <1>10, <2>2 DEF ResolveByAbsence, env, ghosts, LeaseTypes, TypeOK, BufferHeld
  <2> QED BY <2>1, <2>2
<1>11. CASE EnforceDeclaredTimeouts
  <2>1. pass' \in Passes(seq) /\ pass'.pc = "enforced" /\ ~pass'.buffering /\ ~pass.buffering
    BY <1>t, <1>i, <1>11 DEF EnforceDeclaredTimeouts, PassStep, IdlePass, Passes
  <2>2. seq' = seq /\ rec' \in Records(seq) /\ deadTurn' \in Nat
    BY <1>t, <1>11, ZenonT(60) DEF EnforceDeclaredTimeouts, Records
  <2> QED BY <1>t, <1>11, <2>1, <2>2
          DEF EnforceDeclaredTimeouts, PassStep, env, LeaseTypes, TypeOK, BufferHeld
<1>12. CASE StampEvidence
  <2>1. pass' \in Passes(seq) /\ pass'.pc = "stamped" /\ ~pass'.buffering /\ ~pass.buffering
    BY <1>t, <1>i, <1>12 DEF StampEvidence, PassStep, Passes
  <2> QED BY <1>t, <1>12, <2>1 DEF StampEvidence, PassStep, env, LeaseTypes, TypeOK, BufferHeld
<1>13. ASSUME NEW p \in {"evidence", "rsRead"}, SessionStates(p), ~pass.buffering
       PROVE  LeaseTypes'
  <2> DEFINE read == [pass EXCEPT !.pc = p, !.busy = harness.list,
                             !.liveBusy = harness.running, !.seen = harness.live,
                             !.turn = harness.turns]
  <2>1. read \in Passes(seq) /\ read.pc = p /\ ~read.buffering
    BY <1>t, <1>h, <1>13 DEF Passes
  <2>2. /\ pass' \in {read, [read EXCEPT !.liveBusy = TRUE], [read EXCEPT !.seen = {}], IdlePass}
        /\ inputs' \in 0..MaxInputs
        /\ UNCHANGED <<focus, harness, wire, reseeds, seq, rec, buffer, serve, cache,
                       answer, admitting, ghosts>>
    BY <1>t, <1>13 DEF SessionStates
  <2> HIDE DEF read
  <2>3. pass' \in Passes(seq) /\ (pass'.pc = p \/ pass'.pc = "idle") /\ ~pass'.buffering
    BY <1>i, <2>1, <2>2, ZenonT(60) DEF Passes, IdlePass
  <2> QED BY <1>t, <1>13, <2>2, <2>3 DEF ghosts, LeaseTypes, TypeOK, BufferHeld
<1>14. CASE ReadEvidence
  BY <1>t, <1>13, <1>14 DEF ReadEvidence
<1>15. ASSUME NEW p \in {"swept", "rsSwept"}, NEW o \in {"evidence", "rsArmed"}, PassStep(o),
              p = "swept" <=> o = "evidence",
              ClearBusyFromEvidence, pass' = [pass EXCEPT !.pc = p], UNCHANGED deadTurn
       PROVE  LeaseTypes'
  <2>1. seq' \in Nat /\ seq <= seq' /\ rec' \in Records(seq')
    BY <1>t, <1>15, ClearFacts DEF ClearBusyFromEvidence
  <2>2. pass \in Passes(seq')
    BY <2>1, TypesKept
  <2>3. pass' \in Passes(seq') /\ pass'.pc = p /\ pass'.buffering = pass.buffering /\ pass.pc = o
    BY <1>15, <2>2 DEF Passes, PassStep
  <2>4. BufferHeld'
    BY <1>t, <1>15, <2>3 DEF PassStep, BufferHeld
  <2> QED BY <1>t, <1>15, <2>1, <2>3, <2>4, TypesKept DEF PassStep, env, LeaseTypes, TypeOK
<1>16. CASE Sweep
  BY <1>15, <1>16 DEF Sweep
<1>17. CASE RederiveStatus
  <2>1. seq' \in Nat /\ seq <= seq' /\ rec' \in Records(seq')
    <3>1. pass.turn \in Nat /\ seq + 1 \in Nat /\ seq <= seq + 1
      BY <1>t DEF Passes
    <3>2. \/ UNCHANGED <<seq, rec>>
          \/ seq' = seq + 1 /\ rec' = MarkBusy(rec, seq + 1, pass.turn)
          \/ seq' = seq + 1 /\ rec' = Fold(rec, IdleStatus, seq + 1)
      BY <1>17 DEF RederiveStatus
    <3> QED BY <1>t, <3>1, <3>2, ClearFacts, MarkFacts
  <2>2. pass' \in Passes(seq') /\ pass'.pc = "rederived" /\ ~pass'.buffering /\ ~pass.buffering
    BY <1>t, <1>17, <2>1, TypesKept DEF RederiveStatus, PassStep, Passes
  <2> QED BY <1>t, <1>17, <2>1, <2>2, TypesKept
          DEF RederiveStatus, PassStep, env, LeaseTypes, TypeOK, BufferHeld
<1>18. CASE StampGather
  <2>1. pass' \in Passes(seq) /\ pass'.pc = "gstamped" /\ ~pass'.buffering /\ ~pass.buffering
    BY <1>t, <1>i, <1>18 DEF StampGather, PassStep, Passes, IdlePass
  <2> QED BY <1>t, <1>18, <2>1 DEF StampGather, PassStep, env, LeaseTypes, TypeOK, BufferHeld
<1>19. CASE PendingInputs
  <2>0. inputs' \in 0..MaxInputs
    BY <1>t, <1>19 DEF PendingInputs
  <2>1. pass' \in Passes(seq) /\ pass'.pc \in {"idle", "gathered"} /\ ~pass'.buffering /\ ~pass.buffering
    <3>1. CASE pass' = IdlePass
      BY <1>t, <1>i, <1>19, <3>1 DEF PendingInputs, IdlePass
    <3>2. CASE pass' = [pass EXCEPT !.pc = "gathered", !.seen = harness.live]
      BY <1>t, <1>h, <1>19, <3>2 DEF PendingInputs, Passes
    <3> QED BY <1>19, <3>1, <3>2 DEF PendingInputs
  <2> QED BY <1>t, <1>19, <2>0, <2>1 DEF PendingInputs, ghosts, LeaseTypes, TypeOK, BufferHeld
<1>20. CASE DiffPendingLeases
  <2>1. pass.seen \in SUBSET Asks /\ pass.stamp \in Nat /\ ~pass.buffering
    BY <1>t, <1>20 DEF DiffPendingLeases, PassStep, Passes
  <2>2. seq' \in Nat /\ seq <= seq' /\ rec' \in Records(seq')
    BY <1>20, <2>1, DiffFacts DEF DiffPendingLeases, DiffEffect
  <2>3. pass' \in Passes(seq') /\ pass'.pc = "idle" /\ ~pass'.buffering
    BY <1>20, <2>2, TypesKept DEF DiffPendingLeases, IdlePass
  <2> QED BY <1>t, <1>20, <2>1, <2>2, <2>3, TypesKept
          DEF DiffPendingLeases, PassStep, env, LeaseTypes, TypeOK, BufferHeld
<1>21. CASE Age
  <2>1. rec' \in Records(seq)
    BY <1>t, <1>21 DEF Age, Records
  <2> QED BY <1>t, <1>21, <2>1 DEF Age, env, ghosts, LeaseTypes, TypeOK, BufferHeld
<1>22. CASE ReseedStamp
  <2>0. reseeds' \in 0..MaxReseeds
    BY <1>t, <1>22 DEF ReseedStamp
  <2>1. pass' \in Passes(seq) /\ pass'.pc = "rsStamped" /\ ~pass'.buffering /\ ~pass.buffering
    BY <1>t, <1>i, <1>22 DEF ReseedStamp, Passes, IdlePass
  <2> QED BY <1>t, <1>22, <2>0, <2>1 DEF ReseedStamp, ghosts, LeaseTypes, TypeOK, BufferHeld
<1>23. CASE ReseedRead
  BY <1>t, <1>13, <1>23 DEF ReseedRead
<1>24. CASE ReseedArm
  <2>1. pass' \in Passes(seq) /\ pass'.pc = "rsArmed" /\ pass'.buffering
    BY <1>t, <1>24 DEF ReseedArm, PassStep, Passes
  <2> QED BY <1>t, <1>24, <2>1 DEF ReseedArm, PassStep, env, LeaseTypes, TypeOK, BufferHeld
<1>25. CASE ReseedSweep
  BY <1>15, <1>25 DEF ReseedSweep
<1>26. CASE ReseedSwap
  <2>1. seq' = seq + 1 /\ seq' \in Nat /\ seq <= seq' /\ swapSeq' \in 0..seq'
    BY <1>t, <1>26 DEF ReseedSwap
  <2>2. rec' \in Records(seq')
    <3>1. pass.seen \in SUBSET Asks /\ pass.busy \in BOOLEAN /\ rec.foldedDead \in BOOLEAN
      BY <1>t DEF Passes, Records
    <3>2. PICK d \in BOOLEAN : d = (rec.foldedDead /\ pass.busy)
      BY <3>1
    <3>3. NewRecord(pass.seen, d) \in Records(seq')
      BY <2>1, <3>1 DEF NewRecord, Records
    <3> QED BY <1>26, <3>2, <3>3 DEF ReseedSwap
  <2>3. pass' \in Passes(seq') /\ pass'.pc = "rsSwapped" /\ pass'.buffering
    BY <1>t, <1>26, <2>1, TypesKept DEF ReseedSwap, Passes
  <2> QED BY <1>t, <1>26, <2>1, <2>2, <2>3, TypesKept
          DEF ReseedSwap, env, LeaseTypes, TypeOK, BufferHeld
<1>27. CASE ReseedFlush
  <2>1. Len(buffer) \in Nat /\ seq' = seq + Len(buffer) /\ rec' = FoldAll(rec, buffer, seq)
    BY <1>t, <1>27 DEF ReseedFlush
  <2>2. seq' \in Nat /\ seq <= seq'
    BY <1>t, <2>1
  <2>3. rec' \in Records(seq')
    BY <1>t, <2>1, FoldAllFacts DEF FoldedSoFar
  <2>4. settled' \subseteq Asks /\ deadTurn' \in Nat
    <3>1. ResolvedIn(buffer) \subseteq Asks
      BY <1>t, ByIsIn DEF ResolvedBy
    <3> QED BY <1>t, <1>27, <3>1 DEF ReseedFlush
  <2>5. pass' \in Passes(seq') /\ pass'.pc = "idle" /\ ~pass'.buffering /\ buffer' = <<>>
    BY <1>27, <2>2, TypesKept DEF ReseedFlush, IdlePass
  <2>6. buffer' \in Seq(Ev)
    BY <2>5
  <2> QED BY <1>t, <1>27, <2>2, <2>3, <2>4, <2>5, <2>6, TypesKept
          DEF ReseedFlush, env, LeaseTypes, TypeOK, BufferHeld
<1>28. CASE ServeCached
  <2>1. cache.seen \in SUBSET Asks /\ cache.stamp \in Nat
    BY <1>t DEF Caches
  <2>2. seq' \in Nat /\ seq <= seq' /\ rec' \in Records(seq')
    BY <1>28, <2>1, DiffFacts DEF ServeCached, DiffEffect
  <2> QED BY <1>t, <1>28, <2>2, TypesKept
          DEF ServeCached, env, ghosts, LeaseTypes, TypeOK, BufferHeld
<1>29. CASE ServeStamp
  <2>0. inputs' \in 0..MaxInputs
    BY <1>t, <1>29 DEF ServeStamp
  <2>1. serve' \in Serves(seq)
    BY <1>t, <1>i, <1>29 DEF ServeStamp, Serves
  <2> QED BY <1>t, <1>29, <2>0, <2>1 DEF ServeStamp, ghosts, LeaseTypes, TypeOK, BufferHeld
<1>30. CASE ServeRead
  <2>1. serve' \in Serves(seq) /\ cache' \in Caches(seq)
    <3>1. CASE serve' = IdleServe /\ UNCHANGED cache
      BY <1>t, <1>i, <3>1 DEF Serves, IdleServe
    <3>2. CASE /\ serve' = [serve EXCEPT !.pc = "gathered", !.seen = harness.live]
               /\ cache' = [fresh |-> TRUE, stamp |-> serve.stamp, seen |-> harness.live]
      BY <1>t, <1>h, <3>2 DEF Serves, Caches
    <3> QED BY <1>30, <3>1, <3>2 DEF ServeRead
  <2> QED BY <1>t, <1>30, <2>1 DEF ServeRead, env, ghosts, LeaseTypes, TypeOK, BufferHeld
<1>31. CASE ServeApply
  <2>1. serve.seen \in SUBSET Asks /\ serve.stamp \in Nat
    BY <1>t DEF Serves
  <2>2. seq' \in Nat /\ seq <= seq' /\ rec' \in Records(seq')
    BY <1>31, <2>1, DiffFacts DEF ServeApply, DiffEffect
  <2>3. serve' \in Serves(seq')
    BY <1>31, <2>2, TypesKept DEF ServeApply
  <2> QED BY <1>t, <1>31, <2>2, <2>3, TypesKept
          DEF ServeApply, env, ghosts, LeaseTypes, TypeOK, BufferHeld
<1>32. CASE CacheExpires
  <2>1. cache' \in Caches(seq)
    BY <1>t, <1>i, <1>32, TypesKept DEF CacheExpires, Caches, NoCache
  <2> QED BY <1>t, <1>32, <2>1 DEF CacheExpires, env, ghosts, LeaseTypes, TypeOK, BufferHeld
<1>33. CASE UNCHANGED vars
  BY <1>t, <1>33 DEF vars, LeaseTypes, TypeOK, BufferHeld
<1> QED
  BY <1>1, <1>2, <1>3, <1>4, <1>5, <1>6, <1>7, <1>8, <1>9, <1>10, <1>11, <1>12, <1>14,
     <1>16, <1>17, <1>18, <1>19, <1>20, <1>21, <1>22, <1>23, <1>24, <1>25, <1>26, <1>27,
     <1>28, <1>29, <1>30, <1>31, <1>32, <1>33
  DEF Next, Harness, Reconcile, Reseed, Serve

(* The projection's state, and the goroutines' around it, keep their       *)
(* types; numbers and stamps never exceed the sequence number, and events  *)
(* are held back exactly while a reseed buffers.                           *)
THEOREM LeaseTypesHold == Spec => []TypeOK
<1>1. Init => LeaseTypes
  BY InitTypes
<1>2. LeaseTypes /\ [Next]_vars => LeaseTypes'
  BY NextTypes
<1>3. LeaseTypes => TypeOK
  BY DEF LeaseTypes
<1> QED BY <1>1, <1>2, <1>3, PTL DEF Spec

-----------------------------------------------------------------------------
(* The asks. *)

(* The events of a sequence one shorter or one longer. *)
LEMMA AppendEvents ==
    ASSUME NEW s \in Seq(Ev), NEW e \in Ev
    PROVE  /\ ResolvedIn(Append(s, e)) = ResolvedIn(s) \cup ResolvedIn(<<e>>)
           /\ RequestedIn(Append(s, e)) = RequestedIn(s) \cup RequestedIn(<<e>>)
           /\ ResolvedIn(<<e>>) = {a \in Asks : e.kind = "resolved" /\ e.ask = a}
           /\ RequestedIn(<<e>>) = {a \in Asks : e.kind = "request" /\ e.ask = a}
           /\ Ordered(s) /\ ResolvedIn(s) \cap RequestedIn(<<e>>) = {} => Ordered(Append(s, e))
<1> DEFINE t == Append(s, e)
           L == Len(s)
<1>1. L \in Nat /\ t \in Seq(Ev) /\ Len(t) = L + 1 /\ DOMAIN s = 1..L /\ DOMAIN t = 1..(L + 1)
      /\ t[L + 1] = e /\ \A i \in 1..L : t[i] = s[i]
  OBVIOUS
<1>2. <<e>> \in Seq(Ev) /\ DOMAIN <<e>> = {1} /\ <<e>>[1] = e
  OBVIOUS
<1>3. e.kind \in {"resolved", "request"} => e.ask \in Asks
  BY DEF Ev
<1>4. ResolvedIn(<<e>>) = {a \in Asks : e.kind = "resolved" /\ e.ask = a}
      /\ RequestedIn(<<e>>) = {a \in Asks : e.kind = "request" /\ e.ask = a}
  BY <1>2, <1>3 DEF ResolvedIn, RequestedIn
<1>5. \A i : i \in DOMAIN t <=> i \in DOMAIN s \/ i = L + 1
  BY <1>1
<1>6. \A a : a \in ResolvedIn(t) <=> a \in ResolvedIn(s) \/ (e.kind = "resolved" /\ e.ask = a)
  <2> HIDE DEF t
  <2> QED BY <1>1, <1>5 DEF ResolvedIn
<1>7. \A a : a \in RequestedIn(t) <=> a \in RequestedIn(s) \/ (e.kind = "request" /\ e.ask = a)
  <2> HIDE DEF t
  <2> QED BY <1>1, <1>5 DEF RequestedIn
<1>8. ASSUME Ordered(s), ResolvedIn(s) \cap RequestedIn(<<e>>) = {}
      PROVE  Ordered(t)
  <2> SUFFICES ASSUME NEW i \in DOMAIN t, NEW j \in DOMAIN t, i < j,
                      t[i].kind = "resolved", t[j].kind = "request"
               PROVE  t[i].ask # t[j].ask
    BY DEF Ordered
  <2> HIDE DEF t
  <2>1. i \in 1..L /\ t[i] = s[i]
    BY <1>1
  <2>2. CASE j \in 1..L
    BY <1>1, <1>8, <2>1, <2>2 DEF Ordered
  <2>3. CASE j = L + 1
    <3>1. t[j] = e /\ e.kind = "request"
      BY <1>1, <2>3
    <3>2. s[i].ask \in ResolvedIn(s)
      BY <1>1, <2>1 DEF ResolvedIn
    <3>3. e.ask \in RequestedIn(<<e>>)
      BY <1>2, <3>1 DEF RequestedIn
    <3> QED BY <1>8, <2>1, <3>1, <3>2, <3>3
  <2> QED BY <1>1, <1>5, <2>2, <2>3
<1> QED BY <1>3, <1>4, <1>6, <1>7, <1>8

LEMMA HeadEvents ==
    ASSUME NEW s \in Seq(Ev), s # <<>>
    PROVE  /\ Head(s) \in Ev /\ Tail(s) \in Seq(Ev)
           /\ ResolvedIn(s) = ResolvedIn(Tail(s)) \cup ResolvedIn(<<Head(s)>>)
           /\ RequestedIn(s) = RequestedIn(Tail(s)) \cup RequestedIn(<<Head(s)>>)
           /\ Ordered(s) => /\ Ordered(Tail(s))
                            /\ ResolvedIn(<<Head(s)>>) \cap RequestedIn(Tail(s)) = {}
<1> DEFINE t == Tail(s)
           e == Head(s)
           L == Len(t)
<1>1. e \in Ev /\ t \in Seq(Ev) /\ L \in Nat /\ DOMAIN t = 1..L /\ DOMAIN s = 1..(L + 1)
      /\ s[1] = e /\ \A i \in 1..L : t[i] = s[i + 1]
  BY HeadTailProperties
<1> HIDE DEF t, e
<1>2. <<e>> \in Seq(Ev) /\ DOMAIN <<e>> = {1} /\ <<e>>[1] = e
  BY <1>1
<1>3. \A i \in 1..L : i + 1 \in DOMAIN s /\ i + 1 > 1
  BY <1>1
<1>4. \A i \in DOMAIN s : i = 1 \/ (i - 1 \in 1..L /\ s[i] = t[i - 1])
  BY <1>1
<1>5. \A a : a \in ResolvedIn(s) <=> a \in ResolvedIn(t) \/ (e.kind = "resolved" /\ e.ask = a)
  <2>1. ASSUME NEW a, a \in ResolvedIn(s)
        PROVE  a \in ResolvedIn(t) \/ (e.kind = "resolved" /\ e.ask = a)
    <3>1. PICK i \in DOMAIN s : s[i].kind = "resolved" /\ s[i].ask = a
      BY <2>1 DEF ResolvedIn
    <3> QED BY <1>1, <1>4, <3>1 DEF ResolvedIn
  <2>2. ASSUME NEW a, a \in ResolvedIn(t) PROVE a \in ResolvedIn(s)
    <3>1. PICK i \in 1..L : t[i].kind = "resolved" /\ t[i].ask = a
      BY <1>1, <2>2 DEF ResolvedIn
    <3>2. i + 1 \in DOMAIN s /\ s[i + 1] = t[i]
      BY <1>1, <1>3
    <3> QED BY <3>1, <3>2 DEF ResolvedIn
  <2>3. ASSUME e.kind = "resolved" PROVE e.ask \in ResolvedIn(s)
    <3>1. 1 \in DOMAIN s
      BY <1>1
    <3> QED BY <1>1, <2>3, <3>1 DEF ResolvedIn
  <2> QED BY <2>1, <2>2, <2>3
<1>6. \A a : a \in RequestedIn(s) <=> a \in RequestedIn(t) \/ (e.kind = "request" /\ e.ask = a)
  <2>1. ASSUME NEW a, a \in RequestedIn(s)
        PROVE  a \in RequestedIn(t) \/ (e.kind = "request" /\ e.ask = a)
    <3>1. PICK i \in DOMAIN s : s[i].kind = "request" /\ s[i].ask = a
      BY <2>1 DEF RequestedIn
    <3> QED BY <1>1, <1>4, <3>1 DEF RequestedIn
  <2>2. ASSUME NEW a, a \in RequestedIn(t) PROVE a \in RequestedIn(s)
    <3>1. PICK i \in 1..L : t[i].kind = "request" /\ t[i].ask = a
      BY <1>1, <2>2 DEF RequestedIn
    <3>2. i + 1 \in DOMAIN s /\ s[i + 1] = t[i]
      BY <1>1, <1>3
    <3> QED BY <3>1, <3>2 DEF RequestedIn
  <2>3. ASSUME e.kind = "request" PROVE e.ask \in RequestedIn(s)
    <3>1. 1 \in DOMAIN s
      BY <1>1
    <3> QED BY <1>1, <2>3, <3>1 DEF RequestedIn
  <2> QED BY <2>1, <2>2, <2>3
<1>7. \A a : /\ a \in ResolvedIn(<<e>>) <=> e.kind = "resolved" /\ e.ask = a
             /\ a \in RequestedIn(<<e>>) <=> e.kind = "request" /\ e.ask = a
  BY <1>2 DEF ResolvedIn, RequestedIn
<1>8. ASSUME Ordered(s) PROVE Ordered(t)
  <2> SUFFICES ASSUME NEW i \in 1..L, NEW j \in 1..L, i < j,
                      t[i].kind = "resolved", t[j].kind = "request"
               PROVE  t[i].ask # t[j].ask
    BY <1>1 DEF Ordered
  <2>1. i + 1 < j + 1
    BY <1>1
  <2> QED BY <1>1, <1>3, <1>8, <2>1 DEF Ordered
<1>9. ASSUME Ordered(s) PROVE ResolvedIn(<<e>>) \cap RequestedIn(t) = {}
  <2> SUFFICES ASSUME NEW a, e.kind = "resolved", e.ask = a, a \in RequestedIn(t) PROVE FALSE
    BY <1>7
  <2>1. PICK j \in 1..L : t[j].kind = "request" /\ t[j].ask = a
    BY <1>1 DEF RequestedIn
  <2>2. 1 \in DOMAIN s /\ j + 1 \in DOMAIN s /\ 1 < j + 1
    BY <1>1
  <2> QED BY <1>1, <1>9, <2>1, <2>2 DEF Ordered
<1> QED BY <1>1, <1>5, <1>6, <1>7, <1>8, <1>9 DEF e, t

(* Steps that fold nothing about asks: a gather is kept, dropped, or made  *)
(* from what is live now.                                                  *)
LEMMA AsksQuiet ==
    ASSUME LeaseTypes, AsksInv, UNCHANGED <<wire, buffer, settled, swapSeq>>,
           harness'.live = harness.live, harness'.asked = harness.asked,
           rec'.pending = rec.pending, rec'.since = rec.since, rec'.resolved = rec.resolved,
           pass'.seen \subseteq pass.seen \cup harness.live,
           pass'.pc = "gathered" => pass' = pass \/ pass'.seen = harness.live,
           serve'.seen \subseteq serve.seen \cup harness.live,
           serve'.pc = "gathered" => serve' = serve \/ serve'.seen = harness.live,
           cache'.seen \subseteq cache.seen \cup harness.live,
           cache'.fresh => cache' = cache \/ cache'.seen = harness.live,
           answer' # "none" => answer' \in harness.asked \ harness.live
    PROVE  AsksInv'
<1>1. AskedBefore'
  BY DEF AsksInv, AskedBefore
<1>2. EventsOrdered' /\ NoResurrection'
  BY DEF AsksInv, EventsOrdered, NoResurrection
<1>3. settled \cap harness.live = {}
  BY DEF AsksInv, AskedBefore
<1>4. GatherIsOlder'
  BY <1>3 DEF AsksInv, GatherIsOlder
<1>5. GathersMissNewer'
  BY DEF AsksInv, GathersMissNewer, MissedIsNewer
<1> QED BY <1>1, <1>2, <1>4, <1>5 DEF AsksInv

(* An event of the harness: a request is of a new ask, a resolution of one *)
(* that is not live any more.                                              *)
LEMMA HarnessAsks ==
    ASSUME LeaseTypes, AsksInv, UNCHANGED Authority,
           NEW e \in Ev, wire' \in {Append(wire, e), wire},
           harness'.live \in SUBSET Asks, harness'.asked \in SUBSET Asks,
           harness.asked \subseteq harness'.asked, harness'.live \subseteq harness'.asked,
           harness'.live \cap harness.asked \subseteq harness.live,
           e.kind = "request" => e.ask \in harness'.asked \ harness.asked,
           e.kind = "resolved" => e.ask \in harness'.asked \ harness'.live
    PROVE  AsksInv'
<1>1. wire \in Seq(Ev) /\ buffer \in Seq(Ev)
  BY DEF LeaseTypes, TypeOK
<1>2. UNCHANGED <<seq, rec, buffer, pass, serve, cache, answer, settled, swapSeq, deadTurn>>
  BY DEF Authority, ghosts
<1>3. /\ ResolvedIn(wire') \subseteq ResolvedIn(wire) \cup {a \in Asks : e.kind = "resolved" /\ e.ask = a}
      /\ RequestedIn(wire') \subseteq RequestedIn(wire) \cup {a \in Asks : e.kind = "request" /\ e.ask = a}
  <2>1. CASE wire' = wire
    BY <2>1
  <2>2. CASE wire' = Append(wire, e)
    <3>1. ResolvedIn(wire') = ResolvedIn(wire) \cup ResolvedIn(<<e>>)
          /\ RequestedIn(wire') = RequestedIn(wire) \cup RequestedIn(<<e>>)
      BY <1>1, <2>2, AppendEvents
    <3> QED BY <1>1, <3>1, AppendEvents
  <2> QED BY <2>1, <2>2
<1>4. Ordered(wire')
  <2>1. CASE wire' = wire
    BY <2>1 DEF AsksInv, EventsOrdered
  <2>2. CASE wire' = Append(wire, e)
    <3>1. ResolvedIn(wire) \cap RequestedIn(<<e>>) = {}
      BY <1>1, AppendEvents DEF AsksInv, AskedBefore
    <3> QED BY <1>1, <2>2, <3>1, AppendEvents DEF AsksInv, EventsOrdered
  <2> QED BY <2>1, <2>2
<1>5. AskedBefore'
  BY <1>2, <1>3 DEF AsksInv, AskedBefore
<1>6. EventsOrdered'
  BY <1>2, <1>3, <1>4 DEF AsksInv, AskedBefore, EventsOrdered
<1>7. NoResurrection' /\ GatherIsOlder'
  BY <1>2 DEF AsksInv, NoResurrection, GatherIsOlder
<1>8. (rec.pending \cap harness.live)' \subseteq rec.pending \cap harness.live
  BY <1>2 DEF AsksInv, AskedBefore
<1>9. GathersMissNewer'
  BY <1>2, <1>8 DEF AsksInv, GathersMissNewer, MissedIsNewer
<1> QED BY <1>5, <1>6, <1>7, <1>9 DEF AsksInv

(* Whatever is folded takes a number above every stamp. *)
LEMMA GathersKept ==
    ASSUME LeaseTypes, AsksInv, UNCHANGED <<harness, swapSeq, cache>>,
           pass'.pc = "gathered" => pass' = pass, serve'.pc = "gathered" => serve' = serve,
           settled' \subseteq Asks, rec'.pending \subseteq Asks,
           \A a \in Asks :
              /\ a \in rec'.pending => \/ a \in rec.pending /\ rec'.since[a] = rec.since[a]
                                       \/ rec'.since[a] > seq
              /\ a \in settled' => \/ a \in settled /\ rec'.resolved[a] = rec.resolved[a]
                                   \/ rec'.resolved[a] > seq,
           \A a \in Asks : rec'.since[a] \in Nat /\ rec'.resolved[a] \in Nat
    PROVE  GatherIsOlder' /\ GathersMissNewer'
<1>1. seq \in Nat /\ pass.stamp \in 0..seq /\ serve.stamp \in 0..seq /\ cache.stamp \in 0..seq
      /\ swapSeq \in 0..seq
  BY DEF LeaseTypes, TypeOK, Passes, Serves, Caches
<1>2. \A n \in Nat : n > seq => n > pass.stamp /\ n > serve.stamp /\ n > cache.stamp
  BY <1>1
<1>3. GatherIsOlder'
  <2>1. ASSUME pass'.pc = "gathered", NEW a \in settled' \cap pass'.seen
        PROVE  rec'.resolved[a] > pass'.stamp
    BY <1>2, <2>1 DEF AsksInv, GatherIsOlder
  <2>2. ASSUME serve'.pc = "gathered", NEW a \in settled' \cap serve'.seen
        PROVE  rec'.resolved[a] > serve'.stamp
    BY <1>2, <2>2 DEF AsksInv, GatherIsOlder
  <2> QED BY <2>1, <2>2 DEF GatherIsOlder
<1>4. ASSUME NEW seen, NEW stamp \in {pass.stamp, serve.stamp, cache.stamp},
             MissedIsNewer(seen, stamp),
             NEW a \in (rec'.pending \cap harness'.live) \ seen
      PROVE  rec'.since[a] > stamp \/ stamp < swapSeq'
  <2>1. a \in Asks
    OBVIOUS
  <2>2. CASE a \in rec.pending /\ rec'.since[a] = rec.since[a]
    BY <1>4, <2>2 DEF MissedIsNewer
  <2>3. CASE rec'.since[a] > seq
    BY <1>2, <2>1, <2>3
  <2> QED BY <2>1, <2>2, <2>3
<1>5. GathersMissNewer'
  <2>1. pass'.pc = "gathered" => MissedIsNewer(pass.seen, pass.stamp)'
    BY <1>4 DEF AsksInv, GathersMissNewer, MissedIsNewer
  <2>2. serve'.pc = "gathered" => MissedIsNewer(serve.seen, serve.stamp)'
    BY <1>4 DEF AsksInv, GathersMissNewer, MissedIsNewer
  <2>3. cache'.fresh => MissedIsNewer(cache.seen, cache.stamp)'
    BY <1>4 DEF AsksInv, GathersMissNewer, MissedIsNewer
  <2> QED BY <2>1, <2>2, <2>3 DEF GathersMissNewer, MissedIsNewer
<1> QED BY <1>3, <1>5

(* A diff: what it brings back is not settled. *)
LEMMA DiffAsks ==
    ASSUME LeaseTypes, AsksInv, NEW seen \in SUBSET Asks, NEW stamp \in Nat, NEW reused,
           DiffUnlessAdmitting(seen, stamp, reused),
           seen \subseteq harness.asked,
           ~reused => \A a \in settled \cap seen : rec.resolved[a] > stamp,
           pass' = pass \/ pass' = IdlePass, serve' = serve \/ serve' = IdleServe,
           UNCHANGED <<env, buffer, cache, answer, settled, swapSeq>>
    PROVE  AsksInv'
<1>1. PICK gone \in SUBSET MissingAsks(rec, seen, stamp), new \in SUBSET NewAsks(rec, seen, stamp) :
         (reused => new = {}) /\ DiffEffect(rec', seq', rec, seq, gone, new)
  BY DiffFacts
<1>2. UNCHANGED <<harness, wire>>
  BY DEF env
<1>3. /\ pass'.pc = "gathered" => pass' = pass
      /\ serve'.pc = "gathered" => serve' = serve
      /\ pass'.seen \subseteq pass.seen /\ serve'.seen \subseteq serve.seen
  BY DEF IdlePass, IdleServe
<1>4. new \subseteq seen /\ new \cap settled = {}
  BY <1>1 DEF NewAsks
<1>5. rec'.pending = (rec.pending \ gone) \cup new
  BY <1>1 DEF DiffEffect
<1>6. AskedBefore'
  BY <1>2, <1>3, <1>4, <1>5 DEF AsksInv, AskedBefore
<1>7. EventsOrdered' /\ NoResurrection'
  BY <1>2, <1>4, <1>5 DEF AsksInv, EventsOrdered, NoResurrection
<1>8. GatherIsOlder' /\ GathersMissNewer'
  <2>1. seq \in Nat /\ rec \in Records(seq) /\ settled \subseteq Asks
    BY DEF LeaseTypes, TypeOK
  <2>2. rec' \in Records(seq') /\ seq' \in Nat
    BY <1>1 DEF DiffEffect
  <2>3. rec'.pending \subseteq Asks /\ \A a \in Asks : rec'.since[a] \in Nat /\ rec'.resolved[a] \in Nat
    BY <2>2 DEF Records
  <2>4. ASSUME NEW a \in Asks
        PROVE  /\ a \in rec'.pending => \/ a \in rec.pending /\ rec'.since[a] = rec.since[a]
                                        \/ rec'.since[a] > seq
               /\ a \in settled' => \/ a \in settled /\ rec'.resolved[a] = rec.resolved[a]
                                    \/ rec'.resolved[a] > seq
    <3>1. gone \cup new # {} => seq' > seq
      BY <1>1, <2>1, <2>2 DEF DiffEffect
    <3>2. /\ rec'.since[a] = IF a \in new THEN seq' ELSE rec.since[a]
          /\ rec'.resolved[a] = IF a \in gone THEN seq' ELSE rec.resolved[a]
      BY <1>1 DEF DiffEffect
    <3> QED BY <1>5, <3>1, <3>2
  <2> QED BY <1>2, <1>3, <2>1, <2>3, <2>4, GathersKept
<1> QED BY <1>6, <1>7, <1>8 DEF AsksInv

LEMMA InitAsks == Init => AsksInv
<1> SUFFICES ASSUME Init PROVE AsksInv
  OBVIOUS
<1>1. ResolvedIn(<<>>) = {} /\ RequestedIn(<<>>) = {} /\ Ordered(<<>>)
  BY DEF ResolvedIn, RequestedIn, Ordered
<1>2. rec.pending = {} /\ harness.live = {} /\ harness.asked = {}
  BY DEF Init, MarkBusy, NewRecord
<1>3. wire = <<>> /\ buffer = <<>> /\ settled = {} /\ answer = "none" /\ ~cache.fresh
      /\ pass.pc = "idle" /\ serve.pc = "idle" /\ pass.seen = {} /\ serve.seen = {} /\ cache.seen = {}
  BY DEF Init, IdlePass, IdleServe, NoCache
<1> QED BY <1>1, <1>2, <1>3
        DEF AsksInv, AskedBefore, EventsOrdered, NoResurrection, GatherIsOlder, GathersMissNewer

LEMMA NextAsks == LeaseTypes /\ LeaseTypes' /\ AsksInv /\ [Next]_vars => AsksInv'
<1> SUFFICES ASSUME LeaseTypes, LeaseTypes', AsksInv, [Next]_vars PROVE AsksInv'
  OBVIOUS
<1>t. /\ harness \in Harnesses /\ wire \in Seq(Ev) /\ buffer \in Seq(Ev)
      /\ seq \in Nat /\ swapSeq \in 0..seq /\ rec \in Records(seq) /\ pass \in Passes(seq)
      /\ serve \in Serves(seq) /\ cache \in Caches(seq) /\ settled \subseteq Asks
  BY DEF LeaseTypes, TypeOK
<1>p. rec' \in Records(seq') /\ seq' \in Nat /\ settled' \subseteq Asks
  BY DEF LeaseTypes, TypeOK
<1>r. rec'.pending \subseteq Asks /\ \A a \in Asks : rec'.since[a] \in Nat /\ rec'.resolved[a] \in Nat
  BY <1>p DEF Records
<1>a. AskedBefore /\ EventsOrdered /\ NoResurrection
  BY DEF AsksInv
<1>q. answer # "none" => answer \in harness.asked \ harness.live
  BY <1>a DEF AskedBefore
<1>1. ASSUME NEW a \in Asks, Ask(a) PROVE AsksInv'
  <2>1. harness'.live = harness.live \cup {a} /\ harness'.asked = harness.asked \cup {a} /\ a \notin harness.asked
    BY <1>t, <1>1 DEF Ask, Harnesses
  <2>2. AskEvent("request", a) \in Ev /\ AskEvent("request", a).kind = "request"
        /\ AskEvent("request", a).ask = a
    BY EventTypes DEF AskEvent
  <2>3. harness.live \subseteq harness.asked /\ harness.live \subseteq Asks /\ harness.asked \subseteq Asks
    BY <1>t, <1>a DEF AskedBefore, Harnesses
  <2>4. UNCHANGED Authority /\ wire' \in {Append(wire, AskEvent("request", a)), wire}
    BY <1>1 DEF Ask, Input, Emit
  <2> QED BY <2>1, <2>2, <2>3, <2>4, HarnessAsks
<1>2. ASSUME NEW a \in Asks, Answered(a) PROVE AsksInv'
  <2>1. harness'.live = harness.live \ {a} /\ harness'.asked = harness.asked /\ a \in harness.live
    BY <1>t, <1>2 DEF Answered, Harnesses
  <2>2. AskEvent("resolved", a) \in Ev /\ AskEvent("resolved", a).kind = "resolved"
        /\ AskEvent("resolved", a).ask = a
    BY EventTypes DEF AskEvent
  <2>3. harness.live \subseteq harness.asked /\ harness.live \subseteq Asks /\ harness.asked \subseteq Asks
    BY <1>t, <1>a DEF AskedBefore, Harnesses
  <2>4. UNCHANGED Authority /\ wire' \in {Append(wire, AskEvent("resolved", a)), wire}
    BY <1>2 DEF Answered, Input, Emit
  <2> QED BY <2>1, <2>2, <2>3, <2>4, HarnessAsks
<1>3. ASSUME UNCHANGED Authority, NEW e \in Ev, wire' \in {Append(wire, e), wire},
             e.kind \notin {"request", "resolved"}, harness'.asked = harness.asked,
             harness'.live \subseteq harness.live
      PROVE  AsksInv'
  <2>1. harness.live \subseteq harness.asked /\ harness.live \subseteq Asks /\ harness.asked \subseteq Asks
    BY <1>t, <1>a DEF AskedBefore, Harnesses
  <2> QED BY <1>3, <2>1, HarnessAsks
<1>4. CASE StartTurn
  <2>1. harness'.live = harness.live /\ harness'.asked = harness.asked
    BY <1>t, <1>4 DEF StartTurn, Harnesses
  <2> DEFINE e == [TurnEvent("busy") EXCEPT !.turn = @ + 1]
  <2>2. e \in Ev /\ e.kind = "busy"
    BY EventTypes
  <2>3. UNCHANGED Authority /\ wire' \in {Append(wire, e), wire}
    BY <1>4 DEF StartTurn, Input
  <2> QED BY <1>3, <2>1, <2>2, <2>3
<1>5. CASE ToolEvent
  <2>1. PICK k \in {"part", "partEnd"} : Emit(TurnEvent(k))
    BY <1>5 DEF ToolEvent
  <2>2. TurnEvent(k) \in Ev /\ TurnEvent(k).kind = k
    BY EventTypes DEF TurnEvent
  <2>3. UNCHANGED Authority /\ harness' = harness
    BY <1>5 DEF ToolEvent, Input
  <2> QED BY <1>3, <2>1, <2>2, <2>3 DEF Emit
<1>6. CASE EndTurn
  <2>1. PICK k \in {"idle", "error"} : Emit(TurnEvent(k))
    BY <1>6 DEF EndTurn
  <2>2. TurnEvent(k) \in Ev /\ TurnEvent(k).kind = k
    BY EventTypes DEF TurnEvent
  <2>3. UNCHANGED Authority /\ harness'.live = {} /\ harness'.asked = harness.asked
    BY <1>t, <1>6 DEF EndTurn, Input, Harnesses
  <2> QED BY <1>3, <2>1, <2>2, <2>3 DEF Emit
<1>7. CASE Admit \/ AdmitEnd
  <2>1. UNCHANGED <<harness, wire, seq, rec, buffer, pass, serve, cache, answer, settled, swapSeq>>
    BY <1>7 DEF Admit, AdmitEnd, Input, env, Authority, ghosts
  <2> QED BY <1>q, <2>1, AsksQuiet
<1>8. CASE Ingest
  <2> DEFINE e == Head(wire)
  <2>1. /\ e \in Ev /\ wire' = Tail(wire) /\ wire # <<>> /\ wire' \in Seq(Ev)
        /\ UNCHANGED <<harness, pass, serve, cache, answer, swapSeq>>
    BY <1>t, <1>8, HeadEvents DEF Ingest
  <2>2. /\ ResolvedIn(wire) = ResolvedIn(wire') \cup ResolvedIn(<<e>>)
        /\ RequestedIn(wire) = RequestedIn(wire') \cup RequestedIn(<<e>>)
        /\ Ordered(wire') /\ ResolvedIn(<<e>>) \cap RequestedIn(wire') = {}
    BY <1>t, <1>a, <2>1, HeadEvents DEF EventsOrdered
  <2>3. CASE pass.buffering
    <3>1. buffer' = Append(buffer, e) /\ UNCHANGED <<seq, rec, settled, deadTurn>>
      BY <1>8, <2>3 DEF Ingest
    <3> HIDE DEF e
    <3>2. /\ ResolvedIn(buffer') = ResolvedIn(buffer) \cup ResolvedIn(<<e>>)
          /\ RequestedIn(buffer') = RequestedIn(buffer) \cup RequestedIn(<<e>>)
          /\ Ordered(buffer) /\ ResolvedIn(buffer) \cap RequestedIn(<<e>>) = {} => Ordered(buffer')
      BY <1>t, <2>1, <3>1, AppendEvents
    <3>3. Ordered(buffer')
      BY <1>a, <2>2, <3>2 DEF EventsOrdered
    <3>4. AskedBefore'
      BY <1>a, <2>1, <2>2, <3>1, <3>2 DEF AskedBefore
    <3>5. EventsOrdered'
      BY <1>a, <2>2, <3>1, <3>2, <3>3 DEF EventsOrdered
    <3>6. NoResurrection' /\ GatherIsOlder' /\ GathersMissNewer'
      BY <2>1, <3>1 DEF AsksInv, NoResurrection, GatherIsOlder, GathersMissNewer, MissedIsNewer
    <3> QED BY <3>4, <3>5, <3>6 DEF AsksInv
  <2>4. CASE ~pass.buffering
    <3> DEFINE r == [rec EXCEPT !.foldedDead = FALSE]
    <3>1. r \in Records(seq) /\ r.pending = rec.pending /\ r.since = rec.since /\ r.resolved = rec.resolved
      BY <1>t DEF Records
    <3>2. seq + 1 \in Nat /\ seq <= seq + 1 /\ seq + 1 > seq
      BY <1>t
    <3>3. /\ seq' = seq + 1 /\ rec' = Fold(r, e, seq + 1)
          /\ settled' = settled \cup ResolvedIn(<<e>>) /\ UNCHANGED buffer
      BY <1>8, <2>4 DEF Ingest
    <3> HIDE DEF r, e
    <3>4. FoldEffect(rec', r, e, seq')
      BY <1>t, <2>1, <3>1, <3>2, <3>3, FoldFacts
    <3>5. \A a \in Asks :
             /\ a \in ResolvedIn(<<e>>) <=> e.kind = "resolved" /\ e.ask = a
             /\ a \in RequestedIn(<<e>>) <=> e.kind = "request" /\ e.ask = a
      BY <1>t, <2>1, AppendEvents
    <3>6. ASSUME NEW a \in Asks
          PROVE  /\ a \in rec'.pending => \/ a \in rec.pending /\ rec'.since[a] = rec.since[a]
                                          \/ rec'.since[a] > seq
                 /\ a \in settled' => \/ a \in settled /\ rec'.resolved[a] = rec.resolved[a]
                                      \/ rec'.resolved[a] > seq
                 /\ a \in rec'.pending => a \in rec.pending \cup RequestedIn(<<e>>)
                 /\ a \in rec'.pending => a \notin ResolvedIn(<<e>>)
      <4>1. /\ IF e.kind = "request" /\ e.ask = a
               THEN a \in rec'.pending /\ rec'.since[a] = seq'
               ELSE rec'.since[a] = r.since[a] /\ (a \in rec'.pending => a \in r.pending)
            /\ IF e.kind = "resolved" /\ e.ask = a
               THEN a \notin rec'.pending /\ rec'.resolved[a] = seq'
               ELSE rec'.resolved[a] = r.resolved[a]
        BY <3>4 DEF FoldEffect
      <4> QED BY <3>1, <3>2, <3>3, <3>5, <4>1
    <3>7. rec'.pending \subseteq rec.pending \cup RequestedIn(<<e>>) /\ rec'.pending \cap ResolvedIn(<<e>>) = {}
      BY <1>r, <3>6
    <3>8. AskedBefore'
      BY <1>a, <2>1, <2>2, <3>3, <3>7 DEF AskedBefore
    <3>9. EventsOrdered' /\ NoResurrection'
      <4>1. RequestedIn(buffer) = {}
        BY <2>4 DEF LeaseTypes, BufferHeld, RequestedIn
      <4> QED BY <1>a, <2>2, <3>3, <3>7, <4>1 DEF EventsOrdered, NoResurrection
    <3>10. GatherIsOlder' /\ GathersMissNewer'
      BY <1>p, <1>r, <2>1, <3>6, GathersKept
    <3> QED BY <3>8, <3>9, <3>10 DEF AsksInv
  <2> QED BY <2>3, <2>4
<1>9. ASSUME NEW a \in Asks, AnswerUnknown(a) PROVE AsksInv'
  <2>1. UNCHANGED <<harness, wire, seq, rec, buffer, pass, serve, cache, settled, swapSeq>>
        /\ answer' = a /\ a \in harness.asked \ harness.live
    BY <1>9 DEF AnswerUnknown, ghosts
  <2> QED BY <2>1, AsksQuiet
<1>10. CASE ResolveByAbsence
  <2>1. UNCHANGED <<harness, wire, buffer, pass, serve, cache, settled, swapSeq>> /\ answer' = "none"
    BY <1>10 DEF ResolveByAbsence, env, ghosts
  <2>2. CASE answer \notin rec.pending
    <3>1. UNCHANGED <<seq, rec>>
      BY <1>10, <2>2 DEF ResolveByAbsence
    <3> QED BY <2>1, <3>1, AsksQuiet
  <2>3. CASE answer \in rec.pending
    <3>1. seq' = seq + 1 /\ rec' = Resolve(rec, {answer}, seq + 1) /\ seq + 1 > seq
      BY <1>t, <1>10, <2>3 DEF ResolveByAbsence
    <3> DEFINE g == [a \in Asks |-> IF a \in {answer} THEN seq + 1 ELSE rec.resolved[a]]
    <3>2. rec' = [rec EXCEPT !.pending = @ \ {answer}, !.resolved = g]
      BY <3>1 DEF Resolve
    <3>3. \A a \in Asks : g[a] = IF a = answer THEN seq + 1 ELSE rec.resolved[a]
      OBVIOUS
    <3> HIDE DEF g
    <3>4. rec'.pending = rec.pending \ {answer} /\ rec'.since = rec.since /\ rec'.resolved = g
      BY <1>t, <3>2 DEF Records
    <3>5. \A a \in Asks :
              /\ a \in rec'.pending => \/ a \in rec.pending /\ rec'.since[a] = rec.since[a]
                                       \/ rec'.since[a] > seq
              /\ a \in settled' => \/ a \in settled /\ rec'.resolved[a] = rec.resolved[a]
                                   \/ rec'.resolved[a] > seq
      BY <2>1, <3>1, <3>3, <3>4
    <3>6. GatherIsOlder' /\ GathersMissNewer'
      BY <1>p, <1>r, <2>1, <3>5, GathersKept
    <3>7. AskedBefore' /\ EventsOrdered' /\ NoResurrection'
      BY <1>a, <2>1, <3>4 DEF AskedBefore, EventsOrdered, NoResurrection
    <3> QED BY <3>6, <3>7 DEF AsksInv
  <2> QED BY <2>2, <2>3
<1>11. CASE EnforceDeclaredTimeouts
  <2>1. UNCHANGED <<harness, wire, buffer, serve, cache, answer, settled, swapSeq>>
        /\ pass'.pc = "enforced" /\ pass'.seen = {}
    BY <1>11 DEF EnforceDeclaredTimeouts, PassStep, IdlePass, env
  <2>2. rec'.pending = rec.pending /\ rec'.since = rec.since /\ rec'.resolved = rec.resolved
    BY <1>t, <1>11 DEF EnforceDeclaredTimeouts, Records
  <2> QED BY <1>q, <2>1, <2>2, AsksQuiet
<1>12. CASE StampEvidence \/ StampGather \/ ReseedArm
  <2>1. UNCHANGED <<harness, wire, buffer, seq, rec, serve, cache, answer, settled, swapSeq>>
        /\ pass'.pc # "gathered" /\ pass'.seen \subseteq pass.seen
    BY <1>t, <1>12 DEF StampEvidence, StampGather, ReseedArm, PassStep, IdlePass, env, Passes
  <2> QED BY <1>q, <2>1, AsksQuiet
<1>13. CASE ReadEvidence \/ ReseedRead
  <2>1. PICK p \in {"evidence", "rsRead"} : SessionStates(p)
    BY <1>13 DEF ReadEvidence, ReseedRead
  <2>2. UNCHANGED <<harness, wire, buffer, seq, rec, serve, cache, answer, settled, swapSeq>>
    BY <2>1 DEF SessionStates, ghosts
  <2> DEFINE read == [pass EXCEPT !.pc = p, !.busy = harness.list,
                             !.liveBusy = harness.running, !.seen = harness.live,
                             !.turn = harness.turns]
  <2>3. read.pc = p /\ read.seen = harness.live
        /\ [read EXCEPT !.liveBusy = TRUE].pc = p /\ [read EXCEPT !.liveBusy = TRUE].seen = harness.live
        /\ [read EXCEPT !.seen = {}].pc = p /\ [read EXCEPT !.seen = {}].seen = {}
    BY <1>t DEF Passes
  <2>4. pass' \in {read, [read EXCEPT !.liveBusy = TRUE], [read EXCEPT !.seen = {}], IdlePass}
    BY <2>1 DEF SessionStates
  <2> HIDE DEF read
  <2>5. pass'.pc # "gathered" /\ pass'.seen \subseteq harness.live
    <3>1. IdlePass.pc = "idle" /\ IdlePass.seen = {}
      BY DEF IdlePass
    <3>2. CASE pass' = read
      BY <2>3, <3>2
    <3>3. CASE pass' = [read EXCEPT !.liveBusy = TRUE]
      BY <2>3, <3>3
    <3>4. CASE pass' = [read EXCEPT !.seen = {}]
      BY <2>3, <3>4
    <3>5. CASE pass' = IdlePass
      BY <3>1, <3>5
    <3> QED BY <2>4, <3>2, <3>3, <3>4, <3>5
  <2> QED BY <1>q, <2>2, <2>5, AsksQuiet
<1>14. CASE Sweep \/ ReseedSweep
  <2>1. UNCHANGED <<harness, wire, buffer, serve, cache, answer, settled, swapSeq>>
        /\ pass'.pc # "gathered" /\ pass'.seen = pass.seen
    BY <1>t, <1>14 DEF Sweep, ReseedSweep, PassStep, env, Passes
  <2>2. rec'.pending = rec.pending /\ rec'.since = rec.since /\ rec'.resolved = rec.resolved
    BY <1>14, ClearFacts DEF Sweep, ReseedSweep, ClearBusyFromEvidence
  <2> QED BY <1>q, <2>1, <2>2, AsksQuiet
<1>15. CASE RederiveStatus
  <2>1. UNCHANGED <<harness, wire, buffer, serve, cache, answer, settled, swapSeq>>
        /\ pass'.pc # "gathered" /\ pass'.seen = pass.seen
    BY <1>t, <1>15 DEF RederiveStatus, PassStep, env, Passes
  <2>2. rec'.pending = rec.pending /\ rec'.since = rec.since /\ rec'.resolved = rec.resolved
    <3>1. \/ UNCHANGED <<seq, rec>>
          \/ rec' = MarkBusy(rec, seq + 1, pass.turn)
          \/ rec' = Fold(rec, IdleStatus, seq + 1)
      BY <1>15 DEF RederiveStatus
    <3>2. pass.turn \in Nat
      BY <1>t DEF Passes
    <3> QED BY <3>1, <3>2, ClearFacts, MarkFacts
  <2> QED BY <1>q, <2>1, <2>2, AsksQuiet
<1>16. CASE PendingInputs
  <2>1. UNCHANGED <<harness, wire, buffer, rec, serve, cache, answer, settled, swapSeq>>
    BY <1>16 DEF PendingInputs, ghosts
  <2>2. pass'.seen = harness.live \/ (pass'.pc = "idle" /\ pass'.seen = {})
    <3>1. CASE pass' = IdlePass
      BY <3>1 DEF IdlePass
    <3>2. CASE pass' = [pass EXCEPT !.pc = "gathered", !.seen = harness.live]
      BY <1>t, <3>2 DEF Passes
    <3> QED BY <1>16, <3>1, <3>2 DEF PendingInputs
  <2> QED BY <1>q, <2>1, <2>2, AsksQuiet
<1>17. CASE DiffPendingLeases
  <2>1. pass.seen \in SUBSET Asks /\ pass.stamp \in Nat /\ pass.pc = "gathered"
    BY <1>t, <1>17 DEF DiffPendingLeases, PassStep, Passes
  <2>2. pass.seen \subseteq harness.asked
    BY <1>a DEF AskedBefore
  <2>3. DiffUnlessAdmitting(pass.seen, pass.stamp, FALSE) /\ pass' = IdlePass
        /\ UNCHANGED <<env, buffer, serve, cache, answer, settled, swapSeq>>
    BY <1>17 DEF DiffPendingLeases, PassStep
  <2>4. \A a \in settled \cap pass.seen : rec.resolved[a] > pass.stamp
    BY <2>1 DEF AsksInv, GatherIsOlder
  <2> QED BY <2>1, <2>2, <2>3, <2>4, DiffAsks
<1>18. CASE Age
  <2>1. UNCHANGED <<harness, wire, buffer, pass, serve, cache, answer, settled, swapSeq>>
        /\ rec'.pending = rec.pending /\ rec'.since = rec.since /\ rec'.resolved = rec.resolved
    BY <1>t, <1>18 DEF Age, env, ghosts, Records
  <2> QED BY <1>q, <2>1, AsksQuiet
<1>19. CASE ReseedStamp
  <2>1. UNCHANGED <<harness, wire, buffer, rec, serve, cache, answer, settled, swapSeq>>
        /\ pass'.pc # "gathered" /\ pass'.seen = {}
    BY <1>19 DEF ReseedStamp, ghosts, IdlePass
  <2> QED BY <1>q, <2>1, AsksQuiet
<1>20. CASE ReseedSwap
  <2>1. /\ UNCHANGED <<harness, wire, buffer, serve, cache, answer>> /\ settled' = {}
        /\ swapSeq' = seq + 1 /\ rec'.pending = pass.seen
        /\ pass'.pc = "rsSwapped" /\ pass'.seen = pass.seen
    BY <1>t, <1>20 DEF ReseedSwap, env, NewRecord, Passes
  <2>2. serve.stamp < swapSeq' /\ cache.stamp < swapSeq'
    <3>1. serve.stamp \in 0..seq /\ cache.stamp \in 0..seq
      BY <1>t DEF Serves, Caches
    <3> QED BY <1>t, <2>1, <3>1
  <2>3. AskedBefore' /\ EventsOrdered' /\ NoResurrection'
    BY <1>a, <2>1 DEF AskedBefore, EventsOrdered, NoResurrection
  <2>4. GatherIsOlder' /\ GathersMissNewer'
    BY <2>1, <2>2 DEF GatherIsOlder, GathersMissNewer, MissedIsNewer
  <2> QED BY <2>3, <2>4 DEF AsksInv
<1>21. CASE ReseedFlush
  <2>1. /\ UNCHANGED <<harness, wire, serve, cache, answer, swapSeq>> /\ pass' = IdlePass
        /\ rec' = FoldAll(rec, buffer, seq) /\ settled' = settled \cup ResolvedIn(buffer)
        /\ buffer' = <<>>
    BY <1>21 DEF ReseedFlush, env
  <2>2. /\ ResolvedBy(buffer, Len(buffer)) = ResolvedIn(buffer)
        /\ RequestedBy(buffer, Len(buffer)) = RequestedIn(buffer)
    BY <1>t, ByIsIn
  <2>3. FoldedSoFar(rec', rec, buffer, Len(buffer), seq)
    BY <1>t, <2>1, FoldAllFacts
  <2>4. Ordered(buffer)
    BY <1>a DEF EventsOrdered
  <2>5. ASSUME NEW a \in Asks
        PROVE  /\ a \in rec'.pending => \/ a \in rec.pending /\ rec'.since[a] = rec.since[a]
                                        \/ rec'.since[a] > seq
               /\ a \in settled' => \/ a \in settled /\ rec'.resolved[a] = rec.resolved[a]
                                    \/ rec'.resolved[a] > seq
               /\ a \in rec'.pending => a \in rec.pending \cup RequestedIn(buffer)
               /\ a \in rec'.pending => a \notin ResolvedIn(buffer)
    <3>1. /\ a \in rec'.pending => \/ a \in rec.pending /\ rec'.since[a] = rec.since[a]
                                   \/ rec'.since[a] > seq
          /\ a \in rec'.pending => a \in rec.pending \cup RequestedIn(buffer)
          /\ IF a \in ResolvedIn(buffer)
             THEN rec'.resolved[a] > seq /\ (Ordered(buffer) => a \notin rec'.pending)
             ELSE rec'.resolved[a] = rec.resolved[a]
      BY <2>2, <2>3 DEF FoldedSoFar
    <3> QED BY <2>1, <2>4, <3>1
  <2>6. rec'.pending \subseteq rec.pending \cup RequestedIn(buffer) /\ rec'.pending \cap ResolvedIn(buffer) = {}
    BY <1>r, <2>5
  <2>7. ResolvedIn(<<>>) = {} /\ RequestedIn(<<>>) = {} /\ Ordered(<<>>)
    BY DEF ResolvedIn, RequestedIn, Ordered
  <2>8. pass'.seen = {} /\ pass'.pc = "idle"
    BY <2>1 DEF IdlePass
  <2>9. AskedBefore'
    BY <1>a, <2>1, <2>6, <2>7, <2>8 DEF AskedBefore
  <2>10. EventsOrdered' /\ NoResurrection'
    BY <1>a, <2>1, <2>6, <2>7 DEF EventsOrdered, NoResurrection
  <2>11. GatherIsOlder' /\ GathersMissNewer'
    BY <1>p, <1>r, <2>1, <2>5, <2>8, GathersKept
  <2> QED BY <2>9, <2>10, <2>11 DEF AsksInv
<1>22. CASE ServeCached
  <2>1. cache.seen \in SUBSET Asks /\ cache.stamp \in Nat
    BY <1>t DEF Caches
  <2>2. cache.seen \subseteq harness.asked
    BY <1>a DEF AskedBefore
  <2>3. DiffUnlessAdmitting(cache.seen, cache.stamp, TRUE)
        /\ UNCHANGED <<env, buffer, pass, serve, cache, answer, settled, swapSeq>>
    BY <1>22 DEF ServeCached, ghosts
  <2> QED BY <2>1, <2>2, <2>3, DiffAsks
<1>23. CASE ServeStamp
  <2>1. UNCHANGED <<harness, wire, buffer, rec, pass, cache, answer, settled, swapSeq>>
        /\ serve'.pc = "stamped" /\ serve'.seen = serve.seen
    BY <1>t, <1>23 DEF ServeStamp, ghosts, Serves
  <2> QED BY <1>q, <2>1, AsksQuiet
<1>24. CASE ServeRead
  <2>1. UNCHANGED <<harness, wire, buffer, rec, pass, answer, settled, swapSeq>>
    BY <1>24 DEF ServeRead, env, ghosts
  <2>2. \/ serve'.seen = harness.live /\ cache'.seen = harness.live
        \/ serve'.seen = {} /\ serve'.pc = "idle" /\ cache' = cache
    <3>1. CASE serve' = IdleServe /\ UNCHANGED cache
      BY <3>1 DEF IdleServe
    <3>2. CASE /\ serve' = [serve EXCEPT !.pc = "gathered", !.seen = harness.live]
               /\ cache' = [fresh |-> TRUE, stamp |-> serve.stamp, seen |-> harness.live]
      BY <1>t, <3>2 DEF Serves
    <3> QED BY <1>24, <3>1, <3>2 DEF ServeRead
  <2> QED BY <1>q, <2>1, <2>2, AsksQuiet
<1>25. CASE ServeApply
  <2>1. serve.seen \in SUBSET Asks /\ serve.stamp \in Nat /\ serve.pc = "gathered"
    BY <1>t, <1>25 DEF ServeApply, Serves
  <2>2. serve.seen \subseteq harness.asked
    BY <1>a DEF AskedBefore
  <2>3. DiffUnlessAdmitting(serve.seen, serve.stamp, FALSE) /\ serve' = IdleServe
        /\ UNCHANGED <<env, buffer, pass, cache, answer, settled, swapSeq>>
    BY <1>25 DEF ServeApply, ghosts
  <2>4. \A a \in settled \cap serve.seen : rec.resolved[a] > serve.stamp
    BY <2>1 DEF AsksInv, GatherIsOlder
  <2> QED BY <2>1, <2>2, <2>3, <2>4, DiffAsks
<1>26. CASE CacheExpires
  <2>1. UNCHANGED <<harness, wire, buffer, rec, pass, serve, answer, settled, swapSeq>>
        /\ ~cache'.fresh /\ cache'.seen = {}
    BY <1>26 DEF CacheExpires, NoCache, env, ghosts
  <2> QED BY <1>q, <2>1, AsksQuiet
<1>27. CASE UNCHANGED vars
  <2>1. UNCHANGED <<harness, wire, buffer, rec, pass, serve, cache, answer, settled, swapSeq>>
    BY <1>27 DEF vars
  <2> QED BY <1>q, <2>1, AsksQuiet
<1> QED
  BY <1>1, <1>2, <1>4, <1>5, <1>6, <1>7, <1>8, <1>9, <1>10, <1>11, <1>12, <1>13, <1>14,
     <1>15, <1>16, <1>17, <1>18, <1>19, <1>20, <1>21, <1>22, <1>23, <1>24, <1>25, <1>26, <1>27
  DEF Next, Harness, Reconcile, Reseed, Serve

(* A prompt whose resolution was folded is not shown again before the next *)
(* reseed, whatever gathers were under way.                                *)
THEOREM SettledStaysResolved == Spec => []NoResurrection
<1>1. Init => LeaseTypes /\ AsksInv
  BY InitTypes, InitAsks
<1>2. LeaseTypes /\ AsksInv /\ [Next]_vars => (LeaseTypes /\ AsksInv)'
  BY NextTypes, NextAsks
<1>3. AsksInv => NoResurrection
  BY DEF AsksInv
<1> QED BY <1>1, <1>2, <1>3, PTL DEF Spec

(* The asks that a step takes from the record: by their own resolution, by *)
(* a swap, or by a gather that did not see them.                           *)
LEMMA DiffTakes ==
    ASSUME LeaseTypes, NEW seen \in SUBSET Asks, NEW stamp \in Nat, NEW reused,
           DiffUnlessAdmitting(seen, stamp, reused), MissedIsNewer(seen, stamp),
           NEW a \in rec.pending \ rec'.pending, a \in harness.live
    PROVE  stamp < swapSeq
<1>1. PICK gone \in SUBSET MissingAsks(rec, seen, stamp), new \in SUBSET NewAsks(rec, seen, stamp) :
         DiffEffect(rec', seq', rec, seq, gone, new)
  BY DiffFacts
<1>2. a \in MissingAsks(rec, seen, stamp)
  BY <1>1 DEF DiffEffect
<1> QED BY <1>2 DEF MissingAsks, MissedIsNewer

LEMMA LiveAskKept ==
    ASSUME LeaseTypes, AsksInv, [Next]_vars,
           NEW a \in rec.pending \ rec'.pending, a \in harness.live
    PROVE  swapSeq' # swapSeq \/ StepStamp < swapSeq
<1>t. /\ wire \in Seq(Ev) /\ buffer \in Seq(Ev)
      /\ seq \in Nat /\ swapSeq \in 0..seq /\ rec \in Records(seq) /\ pass \in Passes(seq)
      /\ serve \in Serves(seq) /\ cache \in Caches(seq)
  BY DEF LeaseTypes, TypeOK
<1>a. /\ a \notin ResolvedIn(wire) /\ a \notin ResolvedIn(buffer)
      /\ answer # "none" => answer # a
  BY DEF AsksInv, AskedBefore
<1>b. a \in Asks
  BY <1>t DEF Records
<1>1. CASE rec'.pending = rec.pending
  BY <1>1
<1>2. CASE UNCHANGED rec
  BY <1>1, <1>2
<1>3. CASE Harness \/ AdmitEnd \/ UNCHANGED vars
  <2>1. UNCHANGED rec
    BY <1>3 DEF Harness, Ask, Answered, StartTurn, ToolEvent, EndTurn, Admit, AdmitEnd, Input,
                Authority, vars
  <2> QED BY <1>2, <2>1
<1>4. CASE Ingest
  <2> DEFINE e == Head(wire)
             r == [rec EXCEPT !.foldedDead = FALSE]
  <2>1. CASE pass.buffering
    BY <1>2, <1>4, <2>1 DEF Ingest
  <2>2. CASE ~pass.buffering
    <3>1. e \in Ev /\ ResolvedIn(<<e>>) \subseteq ResolvedIn(wire)
      BY <1>t, <1>4, HeadEvents DEF Ingest
    <3>2. ~(e.kind = "resolved" /\ e.ask = a)
      BY <1>t, <1>a, <1>b, <3>1, AppendEvents
    <3>3. r \in Records(seq) /\ r.pending = rec.pending
      BY <1>t DEF Records
    <3>6. seq + 1 \in Nat /\ seq <= seq + 1
      BY <1>t
    <3>4. rec' = Fold(r, e, seq + 1)
      BY <1>4, <2>2 DEF Ingest
    <3> HIDE DEF e, r
    <3>5. FoldEffect(rec', r, e, seq + 1)
      BY <1>t, <3>1, <3>3, <3>4, <3>6, FoldFacts
    <3> QED BY <1>b, <3>2, <3>3, <3>5 DEF FoldEffect
  <2> QED BY <2>1, <2>2
<1>5. ASSUME NEW x \in Asks, AnswerUnknown(x) PROVE swapSeq' # swapSeq \/ StepStamp < swapSeq
  BY <1>2, <1>5 DEF AnswerUnknown
<1>6. CASE ResolveByAbsence
  <2>1. CASE answer \in rec.pending
    <3>1. rec'.pending = rec.pending \ {answer}
      BY <1>t, <1>6, <2>1 DEF ResolveByAbsence, Resolve, Records
    <3>2. answer # "none"
      BY <1>6 DEF ResolveByAbsence
    <3> QED BY <1>a, <3>1, <3>2
  <2>2. CASE answer \notin rec.pending
    BY <1>2, <1>6, <2>2 DEF ResolveByAbsence
  <2> QED BY <2>1, <2>2
<1>7. CASE EnforceDeclaredTimeouts
  <2>1. rec'.pending = rec.pending
    BY <1>t, <1>7 DEF EnforceDeclaredTimeouts, Records
  <2> QED BY <1>1, <2>1
<1>8. CASE StampEvidence \/ ReadEvidence \/ StampGather \/ PendingInputs \/ ReseedStamp
           \/ ReseedRead \/ ReseedArm \/ ServeStamp \/ ServeRead \/ CacheExpires
  BY <1>2, <1>8 DEF StampEvidence, ReadEvidence, StampGather, PendingInputs, ReseedStamp,
                    ReseedRead, ReseedArm, ServeStamp, ServeRead, CacheExpires, SessionStates
<1>9. CASE Sweep \/ ReseedSweep
  <2>1. rec'.pending = rec.pending
    BY <1>9, ClearFacts DEF Sweep, ReseedSweep, ClearBusyFromEvidence
  <2> QED BY <1>1, <2>1
<1>10. CASE RederiveStatus
  <2>1. \/ UNCHANGED <<seq, rec>>
        \/ rec' = MarkBusy(rec, seq + 1, pass.turn)
        \/ rec' = Fold(rec, IdleStatus, seq + 1)
    BY <1>10 DEF RederiveStatus
  <2>2. pass.turn \in Nat
    BY <1>t DEF Passes
  <2>3. rec'.pending = rec.pending
    BY <2>1, <2>2, ClearFacts, MarkFacts
  <2> QED BY <1>1, <2>3
<1>11. CASE Age
  <2>1. rec'.pending = rec.pending
    BY <1>t, <1>11 DEF Age, Records
  <2> QED BY <1>1, <2>1
<1>12. CASE DiffPendingLeases
  <2>1. pass.pc = "gathered" /\ pass'.pc = "idle" /\ serve' = serve
        /\ DiffUnlessAdmitting(pass.seen, pass.stamp, FALSE)
    BY <1>12 DEF DiffPendingLeases, PassStep, IdlePass
  <2>2. StepStamp = pass.stamp
    <3>1. ~(serve.pc = "gathered" /\ serve'.pc = "idle")
      BY <2>1
    <3> QED BY <2>1, <3>1 DEF StepStamp
  <2>3. pass.seen \in SUBSET Asks /\ pass.stamp \in Nat
    BY <1>t DEF Passes
  <2>4. MissedIsNewer(pass.seen, pass.stamp)
    BY <2>1 DEF AsksInv, GathersMissNewer
  <2> QED BY <2>1, <2>2, <2>3, <2>4, DiffTakes
<1>13. CASE ServeApply
  <2>1. serve.pc = "gathered" /\ serve'.pc = "idle" /\ pass' = pass
        /\ DiffUnlessAdmitting(serve.seen, serve.stamp, FALSE)
    BY <1>13 DEF ServeApply, IdleServe
  <2>2. StepStamp = serve.stamp
    <3>1. ~(pass.pc = "gathered" /\ pass'.pc = "idle")
      BY <2>1
    <3> QED BY <2>1, <3>1 DEF StepStamp
  <2>3. serve.seen \in SUBSET Asks /\ serve.stamp \in Nat
    BY <1>t DEF Serves
  <2>4. MissedIsNewer(serve.seen, serve.stamp)
    BY <2>1 DEF AsksInv, GathersMissNewer
  <2> QED BY <2>1, <2>2, <2>3, <2>4, DiffTakes
<1>14. CASE ServeCached
  <2>1. cache.fresh /\ pass' = pass /\ serve' = serve
        /\ DiffUnlessAdmitting(cache.seen, cache.stamp, TRUE)
    BY <1>14 DEF ServeCached
  <2>2. StepStamp = cache.stamp
    <3>1. ~(pass.pc = "gathered" /\ pass'.pc = "idle") /\ ~(serve.pc = "gathered" /\ serve'.pc = "idle")
      BY <2>1
    <3> QED BY <3>1 DEF StepStamp
  <2>3. cache.seen \in SUBSET Asks /\ cache.stamp \in Nat
    BY <1>t DEF Caches
  <2>4. MissedIsNewer(cache.seen, cache.stamp)
    BY <2>1 DEF AsksInv, GathersMissNewer
  <2> QED BY <2>1, <2>2, <2>3, <2>4, DiffTakes
<1>15. CASE ReseedSwap
  BY <1>t, <1>15 DEF ReseedSwap
<1>16. CASE ReseedFlush
  <2>1. rec' = FoldAll(rec, buffer, seq)
    BY <1>16 DEF ReseedFlush
  <2>2. FoldedSoFar(rec', rec, buffer, Len(buffer), seq)
    BY <1>t, <2>1, FoldAllFacts
  <2>3. a \in ResolvedBy(buffer, Len(buffer))
    BY <1>b, <2>2 DEF FoldedSoFar
  <2> QED BY <1>t, <1>a, <2>3, ByIsIn
<1> QED
  BY <1>3, <1>4, <1>5, <1>6, <1>7, <1>8, <1>9, <1>10, <1>11, <1>12, <1>13, <1>14, <1>15, <1>16
  DEF Next, Reconcile, Reseed, Serve

(* A prompt that the harness waits on is taken from the record only by a   *)
(* reseed's swap or by a gather that began before one.                     *)
THEOREM LivePromptsStay == Spec => LiveAskStays
<1>1. Init => LeaseTypes /\ AsksInv
  BY InitTypes, InitAsks
<1>2. LeaseTypes /\ AsksInv /\ [Next]_vars => (LeaseTypes /\ AsksInv)'
  BY NextTypes, NextAsks
<1>3. LeaseTypes /\ AsksInv /\ [Next]_vars
      => [(\E a \in rec.pending \ rec'.pending : a \in harness.live)
          => swapSeq' # swapSeq \/ StepStamp < swapSeq]_vars
  BY LiveAskKept
<1> QED BY <1>1, <1>2, <1>3, PTL DEF Spec, LiveAskStays

-----------------------------------------------------------------------------
(* The turns. *)

(* A pass that holds no evidence and has not stamped any. *)
NoEvidence(p) ==
    p.pc \notin {"stamped", "evidence", "swept", "rsRead", "rsArmed", "rsSwept"}

(* What TurnsInv reads of the record. *)
SameBusy(q, r) ==
    /\ q.busy = r.busy /\ q.turn = r.turn /\ q.lastBusySeq = r.lastBusySeq /\ q.old = r.old
    /\ q.foldedDead = r.foldedDead

(* Steps that say nothing about turns. *)
LEMMA TurnsQuiet ==
    ASSUME LeaseTypes, TurnsInv, UNCHANGED <<buffer, deadTurn>>, SameBusy(rec', rec),
           harness'.turns = harness.turns, harness'.running = harness.running,
           harness'.list = harness.list,
           \A i \in DOMAIN wire' : wire'[i].turn <= harness.turns,
           pass' = pass \/ (NoEvidence(pass') /\ pass'.turn \in {0, pass.turn})
    PROVE  TurnsInv'
<1>1. harness.turns \in Nat /\ rec.turn \in 0..harness.turns /\ pass.turn \in 0..harness.turns
      /\ deadTurn \in 0..harness.turns
  BY DEF LeaseTypes, TypeOK, Harnesses, TurnsInv, TurnsStarted
<1>2. TurnsStarted'
  BY <1>1 DEF TurnsInv, TurnsStarted, SameBusy
<1>3. DeadStaysDead'
  BY DEF TurnsInv, DeadStaysDead, SameBusy
<1>4. CASE pass' = pass
  BY <1>2, <1>3, <1>4 DEF TurnsInv, HoldLifted, EvidenceHolds, EndedTurns, HasEvidence, SameBusy
<1>5. CASE NoEvidence(pass')
  BY <1>2, <1>3, <1>5 DEF TurnsInv, HoldLifted, EvidenceHolds, HasEvidence, SameBusy, NoEvidence
<1> QED BY <1>4, <1>5

(* The turns of a sequence one event longer. *)
LEMMA AppendTurns ==
    ASSUME NEW s \in Seq(Ev), NEW e \in Ev, NEW n \in Nat,
           \A i \in DOMAIN s : s[i].turn <= n, e.turn <= n
    PROVE  \A i \in DOMAIN Append(s, e) : Append(s, e)[i].turn <= n
<1>1. DOMAIN s = 1..Len(s) /\ DOMAIN Append(s, e) = 1..(Len(s) + 1) /\ Len(s) \in Nat
      /\ Append(s, e)[Len(s) + 1] = e /\ \A i \in 1..Len(s) : Append(s, e)[i] = s[i]
  OBVIOUS
<1>2. \A i \in 1..(Len(s) + 1) : i \in 1..Len(s) \/ i = Len(s) + 1
  BY <1>1
<1> QED BY <1>1, <1>2

LEMMA InitTurns == Init => TurnsInv
<1> SUFFICES ASSUME Init PROVE TurnsInv
  OBVIOUS
<1>1. wire = <<>> /\ buffer = <<>> /\ deadTurn = 0 /\ pass.turn = 0 /\ pass.pc = "idle"
  BY DEF Init, IdlePass
<1>2. harness.turns \in {0, 1} /\ rec.turn = harness.turns /\ (harness.running => harness.turns = 1)
  <2>1. CASE focus = "asks"
    BY <2>1 DEF Init, MarkBusy, NewRecord
  <2>2. CASE focus # "asks"
    BY <2>2 DEF Init, MarkBusy, NewRecord
  <2> QED BY <2>1, <2>2
<1>3. DOMAIN wire = {} /\ DOMAIN buffer = {}
  BY <1>1
<1> QED BY <1>1, <1>2, <1>3
        DEF TurnsInv, TurnsStarted, HoldLifted, EvidenceHolds, HasEvidence, DeadStaysDead

LEMMA NextTurns == LeaseTypes /\ LeaseTypes' /\ TurnsInv /\ [Next]_vars => TurnsInv'
<1> SUFFICES ASSUME LeaseTypes, LeaseTypes', TurnsInv, [Next]_vars PROVE TurnsInv'
  OBVIOUS
<1>t. /\ harness \in Harnesses /\ wire \in Seq(Ev) /\ buffer \in Seq(Ev)
      /\ seq \in Nat /\ rec \in Records(seq) /\ pass \in Passes(seq)
  BY DEF LeaseTypes, TypeOK
<1>n. /\ harness.turns \in Nat /\ rec.turn \in Nat /\ pass.turn \in Nat /\ deadTurn \in Nat
      /\ rec.lastBusySeq \in 0..seq /\ pass.stamp \in 0..seq
      /\ rec.turn <= harness.turns /\ pass.turn <= harness.turns /\ deadTurn <= harness.turns
      /\ \A i \in DOMAIN wire : wire[i].turn <= harness.turns
      /\ \A i \in DOMAIN buffer : buffer[i].turn <= harness.turns
  BY <1>t DEF LeaseTypes, TypeOK, Harnesses, Records, Passes, TurnsInv, TurnsStarted
<1>w. ASSUME NEW e \in Ev, wire' \in {Append(wire, e), wire}, NEW n \in Nat, harness.turns <= n, e.turn <= n
      PROVE  \A i \in DOMAIN wire' : wire'[i].turn <= n
  <2>1. \A i \in DOMAIN wire : wire[i].turn <= n
    <3> SUFFICES ASSUME NEW i \in DOMAIN wire PROVE wire[i].turn <= n
      OBVIOUS
    <3>1. wire[i] \in Ev
      BY <1>t
    <3>2. wire[i].turn \in Nat
      BY <3>1 DEF Ev
    <3> QED BY <1>n, <1>w, <3>2
  <2> QED BY <1>t, <1>w, <2>1, AppendTurns
<1>s. SameBusy(rec, rec)
  BY DEF SameBusy
<1>1. ASSUME NEW a \in Asks, Ask(a) \/ Answered(a) PROVE TurnsInv'
  <2>1. PICK k \in {"request", "resolved"} : wire' \in {Append(wire, AskEvent(k, a)), wire}
    BY <1>1 DEF Ask, Answered, Emit
  <2>2. AskEvent(k, a) \in Ev /\ AskEvent(k, a).turn = 0
    BY EventTypes DEF AskEvent
  <2>3. \A i \in DOMAIN wire' : wire'[i].turn <= harness.turns
    BY <1>n, <1>w, <2>1, <2>2
  <2>4. UNCHANGED <<rec, buffer, pass, deadTurn>>
    BY <1>1 DEF Ask, Answered, Input, Authority, ghosts
  <2>5. harness'.turns = harness.turns /\ harness'.running = harness.running /\ harness'.list = harness.list
    BY <1>t, <1>1 DEF Ask, Answered, Harnesses
  <2> QED BY <1>s, <2>3, <2>4, <2>5, TurnsQuiet
<1>2. CASE StartTurn
  <2> DEFINE e == [TurnEvent("busy") EXCEPT !.turn = @ + 1]
             n == harness.turns + 1
  <2>1. e \in Ev /\ e.turn = n /\ wire' \in {Append(wire, e), wire}
    BY <1>2, EventTypes DEF StartTurn
  <2>2. UNCHANGED <<rec, buffer, pass, deadTurn>> /\ ~harness.running
    BY <1>2 DEF StartTurn, Input, Authority, ghosts
  <2>3. harness'.turns = n /\ harness'.running
    BY <1>t, <1>2 DEF StartTurn, Harnesses
  <2>4. n \in Nat /\ harness.turns <= n /\ n > 0 /\ n - 1 = harness.turns
    BY <1>n
  <2>5. \A i \in DOMAIN wire' : wire'[i].turn <= n
    <3> HIDE DEF e, n
    <3>1. e.turn <= n
      BY <2>1, <2>4
    <3> QED BY <1>w, <2>1, <2>4, <3>1
  <2>6. \A i \in DOMAIN buffer : buffer[i].turn <= n
    <3> SUFFICES ASSUME NEW i \in DOMAIN buffer PROVE buffer[i].turn <= n
      OBVIOUS
    <3>1. buffer[i] \in Ev
      BY <1>t
    <3>2. buffer[i].turn \in Nat
      BY <3>1 DEF Ev
    <3> QED BY <1>n, <2>4, <3>2
  <2>7. TurnsStarted'
    BY <1>n, <2>2, <2>3, <2>5, <2>6 DEF TurnsStarted
  <2>8. n > deadTurn
    BY <1>n
  <2>9. HoldLifted' /\ DeadStaysDead'
    BY <2>2, <2>3, <2>8 DEF TurnsInv, HoldLifted, DeadStaysDead
  <2>10. EndedTurns' = harness.turns /\ EndedTurns = harness.turns
    BY <2>2, <2>3, <2>4 DEF EndedTurns
  <2>11. EvidenceHolds'
    BY <2>2, <2>3, <2>4, <2>10 DEF TurnsInv, EvidenceHolds, HasEvidence
  <2> QED BY <2>7, <2>9, <2>11 DEF TurnsInv
<1>3. CASE ToolEvent
  <2>1. PICK k \in {"part", "partEnd"} : Emit(TurnEvent(k))
    BY <1>3 DEF ToolEvent
  <2>2. TurnEvent(k) \in Ev /\ TurnEvent(k).turn = harness.turns
    BY EventTypes DEF TurnEvent
  <2>3. \A i \in DOMAIN wire' : wire'[i].turn <= harness.turns
    BY <1>n, <1>w, <2>1, <2>2 DEF Emit
  <2>4. UNCHANGED <<harness, rec, buffer, pass, deadTurn>>
    BY <1>3 DEF ToolEvent, Input, Authority, ghosts
  <2> QED BY <1>s, <2>3, <2>4, TurnsQuiet
<1>4. CASE EndTurn
  <2>1. PICK k \in {"idle", "error"} : Emit(TurnEvent(k))
    BY <1>4 DEF EndTurn
  <2>2. TurnEvent(k) \in Ev /\ TurnEvent(k).turn = harness.turns
    BY EventTypes DEF TurnEvent
  <2>3. \A i \in DOMAIN wire' : wire'[i].turn <= harness.turns
    BY <1>n, <1>w, <2>1, <2>2 DEF Emit
  <2>4. UNCHANGED <<rec, buffer, pass, deadTurn>>
    BY <1>4 DEF EndTurn, Input, Authority, ghosts
  <2>5. harness'.turns = harness.turns /\ ~harness'.running /\ ~harness'.list
    BY <1>t, <1>4 DEF EndTurn, Harnesses
  <2>6. TurnsStarted'
    BY <1>n, <2>3, <2>4, <2>5 DEF TurnsStarted
  <2>7. HoldLifted' /\ DeadStaysDead'
    BY <2>4, <2>5 DEF TurnsInv, HoldLifted, DeadStaysDead
  <2>8. EvidenceHolds'
    BY <1>n, <2>4, <2>5 DEF TurnsInv, EvidenceHolds, HasEvidence, EndedTurns
  <2> QED BY <2>6, <2>7, <2>8 DEF TurnsInv
<1>5. ASSUME UNCHANGED <<harness, wire, buffer, deadTurn>>, SameBusy(rec', rec),
             pass' = pass \/ (NoEvidence(pass') /\ pass'.turn \in {0, pass.turn})
      PROVE  TurnsInv'
  BY <1>n, <1>5, TurnsQuiet
<1>6. CASE Admit \/ AdmitEnd \/ ServeStamp \/ ServeRead \/ CacheExpires \/ UNCHANGED vars
  <2>1. UNCHANGED <<harness, wire, buffer, deadTurn, rec, pass>>
    BY <1>6 DEF Admit, AdmitEnd, ServeStamp, ServeRead, CacheExpires, vars, Input, env, Authority, ghosts
  <2> QED BY <1>5, <1>s, <2>1
<1>7. CASE Ingest
  <2> DEFINE e == Head(wire)
             r == [rec EXCEPT !.foldedDead = FALSE]
  <2>1. e \in Ev /\ wire' = Tail(wire) /\ wire # <<>> /\ UNCHANGED <<harness, pass>>
    BY <1>t, <1>7, HeadEvents DEF Ingest
  <2>2. e.turn <= harness.turns /\ \A i \in DOMAIN wire' : wire'[i].turn <= harness.turns
    <3>1. DOMAIN wire = 1..Len(wire) /\ Len(wire) \in Nat /\ Len(wire) >= 1 /\ wire[1] = e
          /\ DOMAIN wire' = 1..(Len(wire) - 1)
          /\ \A i \in 1..(Len(wire) - 1) : wire'[i] = wire[i + 1]
      BY <1>t, <2>1, HeadTailProperties
    <3>2. 1 \in DOMAIN wire /\ \A i \in DOMAIN wire' : i + 1 \in DOMAIN wire
      BY <3>1
    <3> QED BY <1>n, <3>1, <3>2
  <2>3. CASE pass.buffering
    <3>1. buffer' = Append(buffer, e) /\ UNCHANGED <<rec, deadTurn>>
      BY <1>7, <2>3 DEF Ingest
    <3> HIDE DEF e
    <3>2. \A i \in DOMAIN buffer' : buffer'[i].turn <= harness.turns
      BY <1>t, <1>n, <2>1, <2>2, <3>1, AppendTurns
    <3>3. TurnsStarted'
      BY <1>n, <2>1, <2>2, <3>1, <3>2 DEF TurnsStarted
    <3> QED BY <2>1, <3>1, <3>3 DEF TurnsInv, HoldLifted, EvidenceHolds, HasEvidence, EndedTurns, DeadStaysDead
  <2>4. CASE ~pass.buffering
    <3>1. r \in Records(seq) /\ r.turn = rec.turn /\ r.lastBusySeq = rec.lastBusySeq /\ r.busy = rec.busy
          /\ r.old = rec.old
      BY <1>t DEF Records
    <3>2. seq + 1 \in Nat /\ seq <= seq + 1 /\ ~(seq + 1 <= pass.stamp)
      BY <1>t, <1>n
    <3>3. rec' = Fold(r, e, seq + 1) /\ deadTurn' = 0 /\ UNCHANGED buffer
      BY <1>7, <2>4 DEF Ingest
    <3> HIDE DEF r, e
    <3>4. FoldEffect(rec', r, e, seq + 1)
      BY <1>t, <2>1, <3>1, <3>2, <3>3, FoldFacts
    <3>5. IF e.kind \in {"busy", "part"}
          THEN rec'.busy /\ rec'.lastBusySeq = seq + 1 /\ ~rec'.old /\ rec'.turn = e.turn
          ELSE /\ rec'.turn = rec.turn /\ rec'.lastBusySeq = rec.lastBusySeq /\ rec'.old = rec.old
               /\ rec'.busy => rec.busy
      BY <3>1, <3>4 DEF FoldEffect
    <3>6. e.turn \in Nat
      BY <2>1 DEF Ev
    <3>7. TurnsStarted'
      BY <1>n, <2>1, <2>2, <3>3, <3>5, <3>6 DEF TurnsStarted
    <3>8. HoldLifted' /\ DeadStaysDead'
      BY <3>3 DEF HoldLifted, DeadStaysDead
    <3>9. EvidenceHolds'
      BY <2>1, <3>2, <3>5 DEF TurnsInv, EvidenceHolds, HasEvidence, EndedTurns
    <3> QED BY <3>7, <3>8, <3>9 DEF TurnsInv
  <2> QED BY <2>3, <2>4
<1>8. ASSUME NEW a \in Asks, AnswerUnknown(a) PROVE TurnsInv'
  <2>1. UNCHANGED <<harness, wire, buffer, deadTurn, rec, pass>>
    BY <1>8 DEF AnswerUnknown, ghosts
  <2> QED BY <1>5, <1>s, <2>1
<1>9. CASE ResolveByAbsence
  <2>1. UNCHANGED <<harness, wire, buffer, deadTurn, pass>>
    BY <1>9 DEF ResolveByAbsence, env, ghosts
  <2>2. SameBusy(rec', rec)
    BY <1>t, <1>9 DEF ResolveByAbsence, Resolve, SameBusy, Records
  <2> QED BY <1>5, <2>1, <2>2
<1>10. CASE EnforceDeclaredTimeouts
  <2>1. UNCHANGED <<harness, wire, buffer>> /\ pass'.turn = 0 /\ pass'.pc = "enforced"
    BY <1>10 DEF EnforceDeclaredTimeouts, PassStep, IdlePass, env
  <2>2. CASE UNCHANGED <<rec, deadTurn>>
    BY <1>5, <1>s, <2>1, <2>2 DEF NoEvidence
  <2>3. CASE rec' = [rec EXCEPT !.busy = FALSE, !.tool = FALSE, !.foldedDead = TRUE] /\ deadTurn' = rec.turn
    <3>1. ~rec'.busy /\ rec'.foldedDead /\ rec'.turn = rec.turn
      BY <1>t, <2>3 DEF Records
    <3>2. TurnsStarted'
      BY <1>n, <2>1, <2>3, <3>1 DEF TurnsStarted
    <3> QED BY <2>1, <3>1, <3>2 DEF TurnsInv, HoldLifted, EvidenceHolds, HasEvidence, DeadStaysDead
  <2> QED BY <1>10, <2>2, <2>3 DEF EnforceDeclaredTimeouts
<1>11. CASE StampEvidence
  <2>1. UNCHANGED <<harness, wire, buffer, rec, deadTurn>> /\ pass'.turn = pass.turn
        /\ pass'.pc = "stamped" /\ pass'.stamp = seq
    BY <1>t, <1>11 DEF StampEvidence, PassStep, env, Passes
  <2>2. rec.lastBusySeq <= seq
    BY <1>n
  <2>3. TurnsStarted'
    BY <1>n, <2>1 DEF TurnsStarted
  <2> QED BY <2>1, <2>2, <2>3 DEF TurnsInv, HoldLifted, EvidenceHolds, HasEvidence, DeadStaysDead
<1>12. CASE ReadEvidence \/ ReseedRead
  <2>1. PICK p \in {"evidence", "rsRead"} : SessionStates(p) /\ (p = "evidence" => pass.pc = "stamped")
    BY <1>12 DEF ReadEvidence, ReseedRead
  <2>2. UNCHANGED <<harness, wire, buffer, rec, deadTurn>>
    BY <2>1 DEF SessionStates, ghosts
  <2> DEFINE read == [pass EXCEPT !.pc = p, !.busy = harness.list,
                             !.liveBusy = harness.running, !.seen = harness.live,
                             !.turn = harness.turns]
  <2>3. pass' \in {read, [read EXCEPT !.liveBusy = TRUE], [read EXCEPT !.seen = {}], IdlePass}
    BY <2>1 DEF SessionStates
  <2>4. CASE pass' = IdlePass
    BY <1>5, <1>s, <2>2, <2>4 DEF NoEvidence, IdlePass
  <2>5. CASE pass' # IdlePass
    <3>1. /\ pass'.pc = p /\ pass'.busy = harness.list /\ pass'.turn = harness.turns
          /\ pass'.stamp = pass.stamp /\ (~pass'.liveBusy => ~harness.running)
      BY <1>t, <2>3, <2>5 DEF Passes
    <3> HIDE DEF read
    <3>2. TurnsStarted'
      BY <1>n, <2>2, <3>1 DEF TurnsStarted
    <3>3. HoldLifted' /\ DeadStaysDead'
      BY <2>2, <3>1 DEF TurnsInv, HoldLifted, DeadStaysDead
    <3>4. EvidenceHolds'
      BY <1>n, <2>1, <2>2, <3>1 DEF TurnsInv, EvidenceHolds, HasEvidence, EndedTurns
    <3> QED BY <3>2, <3>3, <3>4 DEF TurnsInv
  <2> QED BY <2>4, <2>5
<1>13. CASE Sweep \/ ReseedSweep \/ ReseedArm
  <2>1. /\ UNCHANGED <<harness, wire, buffer, deadTurn>> /\ pass'.turn = pass.turn
        /\ pass'.busy = pass.busy /\ pass'.liveBusy = pass.liveBusy /\ pass'.stamp = pass.stamp
        /\ \/ pass.pc = "evidence" /\ pass'.pc = "swept"
           \/ pass.pc = "rsRead" /\ pass'.pc = "rsArmed"
           \/ pass.pc = "rsArmed" /\ pass'.pc = "rsSwept"
    BY <1>t, <1>13 DEF Sweep, ReseedSweep, ReseedArm, PassStep, env, Passes
  <2>2. rec' = rec \/ (~rec'.busy /\ rec'.turn = rec.turn /\ rec'.foldedDead = rec.foldedDead)
    BY <1>13, ClearFacts DEF Sweep, ReseedSweep, ReseedArm, ClearBusyFromEvidence
  <2>3. TurnsStarted'
    BY <1>n, <2>1, <2>2 DEF TurnsStarted
  <2>4. HoldLifted' /\ DeadStaysDead'
    BY <2>1, <2>2 DEF TurnsInv, HoldLifted, DeadStaysDead
  <2>5. EvidenceHolds'
    BY <2>1, <2>2 DEF TurnsInv, EvidenceHolds, HasEvidence, EndedTurns
  <2> QED BY <2>3, <2>4, <2>5 DEF TurnsInv
<1>14. CASE RederiveStatus
  <2>1. /\ UNCHANGED <<harness, wire, buffer, deadTurn>> /\ pass'.turn = pass.turn
        /\ pass.pc = "swept" /\ pass'.pc = "rederived"
    BY <1>t, <1>14 DEF RederiveStatus, PassStep, env, Passes
  <2>2. CASE rec' = rec
    BY <1>5, <1>s, <2>1, <2>2 DEF NoEvidence
  <2>3. CASE /\ rec' = MarkBusy(rec, seq + 1, pass.turn)
             /\ pass.busy /\ ~rec.foldedDead
    <3>1. rec'.turn = pass.turn /\ rec'.foldedDead = rec.foldedDead
      BY <1>n, <2>3, MarkFacts
    <3>2. deadTurn # 0 => pass.turn > deadTurn
      BY <2>1, <2>3 DEF TurnsInv, HoldLifted
    <3>3. TurnsStarted'
      BY <1>n, <2>1, <3>1 DEF TurnsStarted
    <3> QED BY <2>1, <3>1, <3>2, <3>3 DEF TurnsInv, HoldLifted, EvidenceHolds, HasEvidence, DeadStaysDead
  <2>4. CASE rec' = Fold(rec, IdleStatus, seq + 1)
    <3>1. rec'.turn = rec.turn /\ rec'.foldedDead = rec.foldedDead /\ ~rec'.busy
      BY <2>4, ClearFacts
    <3>3. TurnsStarted'
      BY <1>n, <2>1, <3>1 DEF TurnsStarted
    <3> QED BY <2>1, <3>1, <3>3 DEF TurnsInv, HoldLifted, EvidenceHolds, HasEvidence, DeadStaysDead
  <2> QED BY <1>14, <2>2, <2>3, <2>4 DEF RederiveStatus
<1>15. CASE StampGather \/ PendingInputs \/ ReseedStamp
  <2>1. UNCHANGED <<harness, wire, buffer, deadTurn, rec>>
    BY <1>15 DEF StampGather, PendingInputs, ReseedStamp, PassStep, env, ghosts
  <2>2. NoEvidence(pass') /\ pass'.turn \in {0, pass.turn}
    <3>1. CASE StampGather
      BY <3>1 DEF StampGather, IdlePass, NoEvidence
    <3>2. CASE ReseedStamp
      BY <3>2 DEF ReseedStamp, IdlePass, NoEvidence
    <3>3. CASE PendingInputs
      <4>1. CASE pass' = IdlePass
        BY <4>1 DEF IdlePass, NoEvidence
      <4>2. CASE pass' = [pass EXCEPT !.pc = "gathered", !.seen = harness.live]
        BY <1>t, <4>2 DEF Passes, NoEvidence
      <4> QED BY <3>3, <4>1, <4>2 DEF PendingInputs
    <3> QED BY <1>15, <3>1, <3>2, <3>3
  <2> QED BY <1>5, <1>s, <2>1, <2>2
<1>16. ASSUME NEW seen \in SUBSET Asks, NEW stamp \in Nat, NEW reused,
              DiffUnlessAdmitting(seen, stamp, reused), pass' = pass \/ pass' = IdlePass,
              UNCHANGED <<harness, wire, buffer, deadTurn>>
       PROVE  TurnsInv'
  <2>1. SameBusy(rec', rec)
    BY <1>16, DiffFacts DEF DiffEffect, SameBusy
  <2>2. NoEvidence(IdlePass) /\ IdlePass.turn = 0
    BY DEF NoEvidence, IdlePass
  <2> QED BY <1>5, <1>16, <2>1, <2>2
<1>17. CASE DiffPendingLeases
  <2>1. pass.seen \in SUBSET Asks /\ pass.stamp \in Nat
    BY <1>t DEF Passes
  <2> QED BY <1>16, <1>17, <2>1 DEF DiffPendingLeases, PassStep, env
<1>18. CASE ServeCached
  <2>1. cache.seen \in SUBSET Asks /\ cache.stamp \in Nat
    BY DEF LeaseTypes, TypeOK, Caches
  <2> QED BY <1>16, <1>18, <2>1 DEF ServeCached, env, ghosts
<1>19. CASE ServeApply
  <2>1. serve.seen \in SUBSET Asks /\ serve.stamp \in Nat
    BY DEF LeaseTypes, TypeOK, Serves
  <2> QED BY <1>16, <1>19, <2>1 DEF ServeApply, env, ghosts
<1>20. CASE Age
  <2>1. /\ UNCHANGED <<harness, wire, buffer, deadTurn, pass>>
        /\ pass.pc \in {"stamped", "evidence", "swept"} => rec.lastBusySeq <= pass.stamp
    BY <1>t, <1>n, <1>20 DEF Age, env, ghosts
  <2>2. rec'.busy = rec.busy /\ rec'.turn = rec.turn /\ rec'.lastBusySeq = rec.lastBusySeq
        /\ rec'.foldedDead = rec.foldedDead
    BY <1>t, <1>20 DEF Age, Records
  <2>3. TurnsStarted'
    BY <1>n, <2>1, <2>2 DEF TurnsStarted
  <2> QED BY <2>1, <2>2, <2>3 DEF TurnsInv, HoldLifted, EvidenceHolds, HasEvidence, EndedTurns, DeadStaysDead
<1>21. CASE ReseedSwap
  <2>1. /\ UNCHANGED <<harness, wire, buffer, deadTurn>> /\ pass'.turn = pass.turn
        /\ pass.pc = "rsSwept" /\ pass'.pc = "rsSwapped"
    BY <1>t, <1>21 DEF ReseedSwap, env, Passes
  <2>2. ~rec'.busy /\ rec'.turn = 0 /\ (rec'.foldedDead <=> rec.foldedDead /\ pass.busy)
    BY <1>21 DEF ReseedSwap, NewRecord
  <2>3. TurnsStarted'
    BY <1>n, <2>1, <2>2 DEF TurnsStarted
  <2> QED BY <2>1, <2>2, <2>3 DEF TurnsInv, HoldLifted, EvidenceHolds, HasEvidence, DeadStaysDead
<1>22. CASE ReseedFlush
  <2>1. /\ UNCHANGED <<harness, wire>> /\ pass'.turn = 0 /\ pass'.pc = "idle" /\ buffer' = <<>>
        /\ rec' = FoldAll(rec, buffer, seq)
        /\ deadTurn' = IF buffer = <<>> THEN deadTurn ELSE 0
    BY <1>22 DEF ReseedFlush, env, IdlePass
  <2>2. DOMAIN buffer' = {}
    BY <2>1
  <2>3. FoldedSoFar(rec', rec, buffer, Len(buffer), seq)
    BY <1>t, <2>1, FoldAllFacts
  <2>4. rec'.turn \in 0..harness.turns
    <3>1. CASE rec'.turn = rec.turn
      BY <1>n, <3>1
    <3>2. CASE rec'.turn # rec.turn
      <4>1. PICK j \in 1..Len(buffer) : rec'.turn = buffer[j].turn
        BY <2>3, <3>2 DEF FoldedSoFar
      <4>2. j \in DOMAIN buffer /\ buffer[j] \in Ev
        BY <1>t
      <4>3. buffer[j].turn \in Nat
        BY <4>2 DEF Ev
      <4> QED BY <1>n, <4>1, <4>2, <4>3
    <3> QED BY <3>1, <3>2
  <2>5. TurnsStarted'
    BY <1>n, <2>1, <2>2, <2>4 DEF TurnsStarted
  <2>6. CASE buffer = <<>>
    <3>1. rec' = rec
      BY <1>t, <2>1, <2>6, FoldAllFacts
    <3> QED BY <2>1, <2>5, <2>6, <3>1 DEF TurnsInv, HoldLifted, EvidenceHolds, HasEvidence, DeadStaysDead
  <2>7. CASE buffer # <<>>
    BY <2>1, <2>5, <2>7 DEF TurnsInv, HoldLifted, EvidenceHolds, HasEvidence, DeadStaysDead
  <2> QED BY <2>6, <2>7
<1> QED
  BY <1>1, <1>2, <1>3, <1>4, <1>6, <1>7, <1>8, <1>9, <1>10, <1>11, <1>12, <1>13, <1>14,
     <1>15, <1>17, <1>18, <1>19, <1>20, <1>21, <1>22
  DEF Next, Harness, Reconcile, Reseed, Serve

(* A turn that was folded dead is not shown busy again before the harness  *)
(* has spoken, across passes and reseeds.                                  *)
THEOREM DeadTurnsStayDead == Spec => []DeadStaysDead
<1>1. Init => LeaseTypes /\ TurnsInv
  BY InitTypes, InitTurns
<1>2. LeaseTypes /\ TurnsInv /\ [Next]_vars => (LeaseTypes /\ TurnsInv)'
  BY NextTypes, NextTurns
<1>3. TurnsInv => DeadStaysDead
  BY DEF TurnsInv
<1> QED BY <1>1, <1>2, <1>3, PTL DEF Spec

(* A step by which evidence clears busy: the sweeps and the re-derivation. *)
LEMMA EvidenceIsRight ==
    ASSUME LeaseTypes, TurnsInv, [Next]_vars, rec.busy, ~rec'.busy,
           pass.pc \in {"evidence", "swept", "rsArmed"}, pass'.pc # pass.pc
    PROVE  rec.turn <= EndedTurns
<1>n. /\ harness.turns \in Nat /\ rec.turn \in Nat /\ pass.turn \in Nat
      /\ rec.lastBusySeq \in Nat /\ pass.stamp \in Nat
  BY DEF LeaseTypes, TypeOK, Harnesses, Records, Passes
<1>1. EndedTurns \in Int
  BY <1>n DEF EndedTurns
<1>2. Sweep \/ RederiveStatus \/ ReseedSweep
  <2>1. pass' # pass
    OBVIOUS
  <2>2. ~(Harness \/ AdmitEnd \/ Ingest \/ (\E a \in Asks : AnswerUnknown(a)) \/ ResolveByAbsence
          \/ Age \/ Serve \/ UNCHANGED vars)
    BY <2>1 DEF Harness, Ask, Answered, StartTurn, ToolEvent, EndTurn, Admit, Input, Authority,
       AdmitEnd, Ingest, AnswerUnknown, ResolveByAbsence, Age, Serve, ServeCached, ServeStamp,
       ServeRead, ServeApply, CacheExpires, vars
  <2>3. ~(EnforceDeclaredTimeouts \/ StampEvidence \/ ReadEvidence \/ StampGather \/ PendingInputs
          \/ DiffPendingLeases \/ ReseedStamp \/ ReseedRead \/ ReseedArm \/ ReseedSwap \/ ReseedFlush)
    BY DEF EnforceDeclaredTimeouts, StampEvidence, ReadEvidence, StampGather, PendingInputs,
       DiffPendingLeases, ReseedStamp, ReseedRead, ReseedArm, ReseedSwap, ReseedFlush, PassStep
  <2> QED BY <2>2, <2>3 DEF Next, Reconcile, Reseed
<1>3. ~pass.liveBusy /\ rec.lastBusySeq <= pass.stamp
  <2>1. CASE Sweep \/ ReseedSweep
    BY <1>n, <2>1 DEF Sweep, ReseedSweep, ClearBusyFromEvidence
  <2>2. CASE RederiveStatus
    <3>1. rec' # rec /\ pass.pc = "swept"
      BY <2>2 DEF RederiveStatus, PassStep
    <3>2. ~pass.liveBusy /\ rec.old
      BY <2>2, <3>1 DEF RederiveStatus
    <3> QED BY <3>1, <3>2 DEF TurnsInv, EvidenceHolds
  <2> QED BY <1>2, <2>1, <2>2
<1>4. pass.turn <= EndedTurns /\ rec.turn <= pass.turn
  BY <1>3 DEF TurnsInv, EvidenceHolds, HasEvidence
<1> QED BY <1>1, <1>n, <1>4

(* Evidence reports a turn as over only when it is: a turn that starts     *)
(* while the evidence is read or applied is never cleared.                 *)
THEOREM EvidenceClearsOnlyEnded == Spec => EvidenceClearsEndedTurns
<1>1. Init => LeaseTypes /\ TurnsInv
  BY InitTypes, InitTurns
<1>2. LeaseTypes /\ TurnsInv /\ [Next]_vars => (LeaseTypes /\ TurnsInv)'
  BY NextTypes, NextTurns
<1>3. LeaseTypes /\ TurnsInv /\ [Next]_vars
      => [rec.busy /\ ~rec'.busy /\ pass.pc \in {"evidence", "swept", "rsArmed"}
              /\ pass'.pc # pass.pc
          => rec.turn <= EndedTurns]_vars
  BY EvidenceIsRight
<1> QED BY <1>1, <1>2, <1>3, PTL DEF Spec, EvidenceClearsEndedTurns

=============================================================================
