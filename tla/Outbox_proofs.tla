---------------------------- MODULE Outbox_proofs ----------------------------
(***************************************************************************)
(* Proofs about the outbox.                                                *)
(*                                                                         *)
(* For all constants, an entry is confirmed only if its message is stored, *)
(* and an entry leaves the lists unconfirmed only if it is dismissed, its  *)
(* own Accept takes it back or another withdraws its pivot.  When no       *)
(* replica dies, one copy at most is in flight and the hook fires once.    *)
(* When no message is posted twice, no entry is lost, whatever dies; one   *)
(* message posted twice by itself is answered truly.  These conditions are *)
(* needed: the outbox does not promise more.                               *)
(***************************************************************************)
EXTENDS Outbox, FiniteSetTheorems, SequenceTheorems, NaturalsInduction,
        WellFoundedInduction, TLAPS

-----------------------------------------------------------------------------
(* The inductive invariants. *)

(* Copies, without the bounds on their counters. *)
Records ==
    [id : Entries, status : {"pending", "delivering", "verifying", "error", "parked"},
     attempts : Nat, verify : Nat, transient : Nat, unverifiable : BOOLEAN,
     gated : BOOLEAN, sent : Nat]

Works == [idx : Nat, was : Seq(Records), new : Seq(Records), pivot : Seq(Records)]

Places == {"down", "idle", "staged", "send", "prior", "post", "poll",
           "insert", "drop", "fire", "verify"}

OutboxTypes ==
    /\ accept \in [Entries -> {"new", "checked", "pushed", "lost", "accepted", "duplicate", "capped"}]
    /\ marker \in [Messages -> Entries \cup {NoEntry}]
    /\ main \in Seq(Records) /\ staging \in Seq(Records)
    /\ lock \in Replicas \cup {Free, Stale}
    /\ pc \in [Replicas -> Places]
    /\ work \in [Replicas -> Works]
    /\ row \in [Entries \X (1..MaxRows) -> Contract!RowStates]
    /\ transcript \subseteq Entries
    /\ hooks \in [Entries -> Nat]
    /\ crashes \in 0..MaxCrashes

Sending == {"send", "prior", "post", "poll", "insert"}
Staged == Sending \cup {"staged", "drop"}
Busy == Staged \cup {"verify", "fire"}

(* A worker that is busy holds the lock and has an entry, of which it      *)
(* writes another copy.                                                    *)
WorkerHolds ==
    \A w \in Replicas :
       /\ pc[w] \in Busy => lock = w /\ work[w].idx > 0 /\ Len(work[w].was) = 1
       /\ pc[w] \in Sending \cup {"drop"} =>
             Len(work[w].new) = 1 /\ work[w].new[1].id = work[w].was[1].id
       /\ pc[w] = "insert" => work[w].pivot = <<>> \/ Len(work[w].pivot) = 1

DoneIsStored ==
    \A e \in Entries, a \in 1..MaxRows : row[<<e, a>>] = "done" => e \in transcript

WorkInv == OutboxTypes /\ WorkerHolds /\ DoneIsStored

(* While nobody dies, the lock is free or somebody is at work, and nothing *)
(* is staged but the entry at work.                                        *)
StagedIsWork ==
    /\ lock # Stale
    /\ lock \in Replicas => pc[lock] \in Busy
    /\ staging # <<>> => /\ lock \in Replicas /\ pc[lock] \in Staged
                         /\ staging = work[lock].was

UniqueIds(s) == \A i, j \in 1..Len(s) : s[i].id = s[j].id => i = j

(* The verified entry keeps its place: an Accept withdraws behind it only. *)
PlaceKept(w) ==
    /\ work[w].idx \in 1..Len(main) /\ main[work[w].idx] = work[w].was[1]
    /\ \A j \in 1..work[w].idx, e \in Entries : main[j] # Fresh(e)

(* An entry whose hook has yet to fire. *)
Unfired(e) == hooks[e] = 0 /\ accept[e] \notin {"new", "checked"}

(* What the hook waits for: the entries listed, each once, and the entries *)
(* not yet pushed ...                                                      *)
ListFires ==
    /\ UniqueIds(main)
    /\ \A e \in Ids(main) \cup Ids(staging) : Unfired(e)
    /\ \A e \in Entries : accept[e] \in {"new", "checked"} => hooks[e] = 0

(* ... and the entry at work, which the queue has no other copy of.        *)
WorkFires(w) ==
    /\ pc[w] \in Busy => Unfired(work[w].was[1].id)
    /\ pc[w] \in Sending \cup {"fire"} => work[w].was[1].id \notin Ids(main)
    /\ pc[w] = "staged" =>
          \A r \in ToSet(main) : r.id = work[w].was[1].id => r = work[w].was[1]
    /\ pc[w] = "verify" => PlaceKept(w)

FiresOnce == ListFires /\ (\A w \in Replicas : WorkFires(w)) /\ HookOnce

AloneInv == StagedIsWork /\ FiresOnce

(* Without a second post nothing is withdrawn. *)
MarkedOnce ==
    \A e \in Entries :
       /\ accept[e] # "lost"
       /\ marker[Message(e)] # NoEntry => accept[e] = "accepted"

(* What a worker is about to take from a list is in the other one.         *)
CopyKept(w) ==
    /\ pc[w] \in Staged => work[w].was[1] \in ToSet(staging)
    /\ pc[w] = "insert" /\ work[w].pivot # <<>> => work[w].pivot[1] \in ToSet(main)
    /\ pc[w] = "drop" => work[w].was[1].id \in Ids(main)
    /\ pc[w] = "verify" => work[w].idx \in 1..Len(main) /\ main[work[w].idx] = work[w].was[1]

CopiesKept == \A w \in Replicas : CopyKept(w)

KeepInv == MarkedOnce /\ CopiesKept /\ NeverLost

-----------------------------------------------------------------------------
(* Lists. *)

LEMMA LeastNumber ==
    ASSUME NEW S \in SUBSET Nat, S # {}
    PROVE  \E n \in S : \A m \in S : n <= m
<1>1. PICK n \in S : \A m \in S : ~(<<m, n>> \in OpToRel(<, Nat))
  BY NatLessThanWellFounded, WFMin
<1>2. ASSUME NEW m \in S PROVE n <= m
  <2>1. m \in Nat /\ n \in Nat
    OBVIOUS
  <2>2. ~(m < n)
    BY <2>1, <1>1 DEF OpToRel
  <2> QED BY <2>1, <2>2
<1> QED BY <1>2

LEMMA MinFacts ==
    ASSUME NEW S \in SUBSET Nat, S # {}
    PROVE  Min(S) \in S /\ \A m \in S : Min(S) <= m
BY LeastNumber DEF Min

LEMMA MemberFacts ==
    ASSUME NEW T, NEW s \in Seq(T)
    PROVE  /\ Len(s) \in Nat /\ DOMAIN s = 1..Len(s)
           /\ \A x : x \in ToSet(s) <=> \E i \in 1..Len(s) : s[i] = x
           /\ ToSet(s) \subseteq T
           /\ \A e : e \in Ids(s) <=> \E i \in 1..Len(s) : s[i].id = e
           /\ \A e : e \in Ids(s) <=> \E x \in ToSet(s) : x.id = e
<1>1. Len(s) \in Nat /\ DOMAIN s = 1..Len(s) /\ \A i \in 1..Len(s) : s[i] \in T
  OBVIOUS
<1>2. \A x : x \in ToSet(s) <=> \E i \in 1..Len(s) : s[i] = x
  BY <1>1 DEF ToSet
<1>3. \A e : e \in Ids(s) <=> \E x \in ToSet(s) : x.id = e
  BY DEF Ids
<1> QED BY <1>1, <1>2, <1>3

(* What is left of a list that loses the element at i. *)
LEMMA RemoveAtFacts ==
    ASSUME NEW T, NEW s \in Seq(T), NEW i \in 1..Len(s)
    PROVE  LET t == RemoveAt(s, i)
           IN  /\ t \in Seq(T) /\ Len(t) = Len(s) - 1
               /\ \A j \in 1..Len(t) : t[j] = IF j < i THEN s[j] ELSE s[j + 1]
               /\ ToSet(t) \subseteq ToSet(s)
               /\ \A k \in 1..Len(s) : k # i => s[k] \in ToSet(t)
               /\ UniqueIds(s) => UniqueIds(t)
<1> DEFINE a == SubSeq(s, 1, i - 1)
           b == SubSeq(s, i + 1, Len(s))
           t == RemoveAt(s, i)
<1>0. Len(s) \in Nat /\ i \in Nat /\ i >= 1 /\ i <= Len(s)
  OBVIOUS
<1>1. a \in Seq(T) /\ Len(a) = i - 1 /\ \A j \in 1..(i - 1) : a[j] = s[j]
  BY <1>0
<1>2. b \in Seq(T) /\ Len(b) = Len(s) - i /\ \A j \in 1..(Len(s) - i) : b[j] = s[i + j]
  BY <1>0
<1>3. t = a \o b
  BY DEF RemoveAt
<1> HIDE DEF a, b, t
<1>4. t \in Seq(T) /\ Len(t) = Len(s) - 1
  <2>1. t \in Seq(T) /\ Len(t) = Len(a) + Len(b)
    BY <1>1, <1>2, <1>3, ConcatProperties
  <2> QED BY <1>0, <1>1, <1>2, <2>1
<1>5. ASSUME NEW j \in 1..Len(t) PROVE t[j] = IF j < i THEN s[j] ELSE s[j + 1]
  <2>1. CASE j < i
    <3>1. j \in 1..(i - 1)
      BY <1>0, <1>4, <2>1
    <3>2. t[j] = a[j]
      BY <1>1, <1>2, <1>3, <3>1
    <3> QED BY <1>1, <2>1, <3>1, <3>2
  <2>2. CASE ~(j < i)
    <3>1. j - (i - 1) \in 1..(Len(s) - i) /\ i + (j - (i - 1)) = j + 1 /\ j > Len(a)
          /\ j \in 1..(Len(a) + Len(b))
      BY <1>0, <1>1, <1>2, <1>4, <2>2
    <3>2. ~(j <= Len(a)) /\ j - Len(a) = j - (i - 1)
      BY <1>0, <1>1, <1>4, <2>2
    <3>3. t[j] = b[j - Len(a)]
      BY <1>1, <1>2, <1>3, <3>1, <3>2, ConcatProperties
    <3> QED BY <1>2, <2>2, <3>1, <3>2, <3>3
  <2> QED BY <2>1, <2>2
<1>6. ToSet(t) \subseteq ToSet(s)
  <2>1. SUFFICES ASSUME NEW j \in 1..Len(t) PROVE t[j] \in ToSet(s)
    BY <1>4, MemberFacts
  <2>2. j \in 1..Len(s) /\ j + 1 \in 1..Len(s)
    BY <1>0, <1>4
  <2> QED BY <1>5, <2>2, MemberFacts
<1>7. ASSUME NEW k \in 1..Len(s), k # i PROVE s[k] \in ToSet(t)
  <2>1. CASE k < i
    <3>1. k \in 1..Len(t)
      BY <1>0, <1>4, <2>1
    <3> QED BY <1>4, <1>5, <2>1, <3>1, MemberFacts
  <2>2. CASE k > i
    <3>1. k - 1 \in 1..Len(t) /\ ~(k - 1 < i) /\ (k - 1) + 1 = k
      BY <1>0, <1>4, <2>2
    <3>2. t[k - 1] = s[k]
      BY <1>5, <3>1
    <3> QED BY <1>4, <3>1, <3>2, MemberFacts
  <2> QED BY <1>0, <1>7, <2>1, <2>2
<1>8. ASSUME UniqueIds(s) PROVE UniqueIds(t)
  <2>1. SUFFICES ASSUME NEW j \in 1..Len(t), NEW k \in 1..Len(t), t[j].id = t[k].id PROVE j = k
    BY DEF UniqueIds
  <2> DEFINE at(n) == IF n < i THEN n ELSE n + 1
  <2>2. \A n \in 1..Len(t) : at(n) \in 1..Len(s) /\ t[n] = s[at(n)]
    BY <1>0, <1>4, <1>5
  <2>3. at(j) = at(k)
    <3> HIDE DEF at
    <3> QED BY <1>8, <2>1, <2>2 DEF UniqueIds
  <2> QED BY <1>0, <1>4, <2>3
<1> QED BY <1>4, <1>5, <1>6, <1>7, <1>8 DEF t

(* LREM with a count of one. *)
LEMMA RemoveFirstFacts ==
    ASSUME NEW T, NEW s \in Seq(T), NEW e
    PROVE  LET t == RemoveFirst(s, e)
           IN  /\ t \in Seq(T)
               /\ \/ e \notin ToSet(s) /\ t = s
                  \/ \E i \in 1..Len(s) : s[i] = e /\ t = RemoveAt(s, i)
               /\ ToSet(t) \subseteq ToSet(s)
               /\ \A x \in ToSet(s) : x # e => x \in ToSet(t)
               /\ UniqueIds(s) => UniqueIds(t)
<1> DEFINE I == {i \in 1..Len(s) : s[i] = e}
<1>1. CASE \E i \in 1..Len(s) : s[i] = e
  <2>1. I # {} /\ I \in SUBSET Nat
    BY <1>1
  <2>2. RemoveFirst(s, e) = RemoveAt(s, Min(I))
    BY <1>1, <2>1 DEF RemoveFirst, SelectInSeq
  <2>3. Min(I) \in I
    <3> HIDE DEF I
    <3> QED BY <2>1, MinFacts
  <2>4. PICK k \in 1..Len(s) : s[k] = e /\ RemoveFirst(s, e) = RemoveAt(s, k)
    BY <2>2, <2>3
  <2> DEFINE t == RemoveFirst(s, e)
  <2>5. /\ t \in Seq(T) /\ ToSet(t) \subseteq ToSet(s)
        /\ \A j \in 1..Len(s) : j # k => s[j] \in ToSet(t)
        /\ UniqueIds(s) => UniqueIds(t)
    BY <2>4, RemoveAtFacts
  <2>6. \A x \in ToSet(s) : x # e => x \in ToSet(t)
    BY <2>4, <2>5, MemberFacts
  <2> QED BY <2>4, <2>5, <2>6
<1>2. CASE ~\E i \in 1..Len(s) : s[i] = e
  <2>1. RemoveFirst(s, e) = s /\ e \notin ToSet(s)
    BY <1>2, MemberFacts DEF RemoveFirst
  <2> QED BY <2>1
<1> QED BY <1>1, <1>2

(* The recursive function behind Without, one element after the other.     *)
Filters(f, s, S) ==
    /\ f[0] = <<>>
    /\ \A i \in 1..Len(s) : f[i] = IF s[i] \in S THEN f[i - 1] ELSE Append(f[i - 1], s[i])
    /\ Without(s, S) = f[Len(s)]

LEMMA WithoutUnfolds ==
    ASSUME NEW s, NEW S, Len(s) \in Nat
    PROVE  \E f : Filters(f, s, S)
<1> DEFINE L == Len(s)
           Step(x, i) == IF s[i] \in S THEN x ELSE Append(x, s[i])
           Def(g) == [n \in 0..L |-> IF n = 0 THEN <<>> ELSE
                                     IF s[n] \in S THEN g[n - 1] ELSE Append(g[n - 1], s[n])]
           f == CHOOSE g : g = Def(g)
<1>1. Without(s, S) = f[L]
  BY DEF Without
<1>2. \E g : g = Def(g)
  <2> DEFINE Upto(m, g) == g = [n \in 0..m |-> IF n = 0 THEN <<>> ELSE Step(g[n - 1], n)]
             Z == {m \in 0..L : ~\E g : Upto(m, g)}
  <2>0. SUFFICES ASSUME Z # {} PROVE FALSE
    <3>1. L \in 0..L
      OBVIOUS
    <3>2. \E g : Upto(L, g)
      BY <3>1
    <3> QED BY <3>2
  <2>1. Z \in SUBSET Nat
    OBVIOUS
  <2>2. PICK m \in Z : \A k \in Z : m <= k
    BY <2>0, <2>1, LeastNumber
  <2>3. m \in 0..L /\ ~\E g : Upto(m, g)
    OBVIOUS
  <2> HIDE DEF Step
  <2>4. CASE m = 0
    <3> DEFINE h == [n \in 0..0 |-> <<>>]
    <3>1. h = [n \in 0..0 |-> IF n = 0 THEN <<>> ELSE Step(h[n - 1], n)]
      OBVIOUS
    <3> QED BY <3>1, <2>3, <2>4
  <2>5. CASE m # 0
    <3>1. m - 1 \in 0..L /\ m - 1 < m /\ m \in Nat /\ m >= 1
      BY <2>3, <2>5
    <3>2. m - 1 \notin Z
      <4> HIDE DEF Z
      <4> QED BY <2>2, <3>1
    <3>3. PICK g : Upto(m - 1, g)
      BY <3>1, <3>2
    <3> DEFINE h == [n \in 0..m |-> IF n = m THEN Step(g[m - 1], m) ELSE g[n]]
    <3>4. \A i \in 0..(m - 1) : i \in 0..m /\ i # m /\ h[i] = g[i]
      BY <3>1
    <3>5. ASSUME NEW i \in 0..m
          PROVE  h[i] = IF i = 0 THEN <<>> ELSE Step(h[i - 1], i)
      <4>1. CASE i = m
        <5>1. m - 1 \in 0..(m - 1) /\ i # 0
          BY <3>1, <4>1
        <5>2. h[m] = Step(g[m - 1], m) /\ h[m - 1] = g[m - 1]
          BY <3>4, <4>1, <5>1
        <5> QED BY <4>1, <5>1, <5>2
      <4>2. CASE i # m
        <5>1. i \in 0..(m - 1) /\ (i # 0 => i - 1 \in 0..(m - 1))
          BY <3>1, <4>2
        <5>2. g[i] = IF i = 0 THEN <<>> ELSE Step(g[i - 1], i)
          BY <3>3, <5>1
        <5>3. h[i] = g[i] /\ (i # 0 => h[i - 1] = g[i - 1])
          BY <3>4, <5>1
        <5> QED BY <5>2, <5>3
      <4> QED BY <4>1, <4>2
    <3>6. h = [i \in 0..m |-> h[i]]
      OBVIOUS
    <3> HIDE DEF h
    <3>7. Upto(m, h)
      BY <3>5, <3>6, SMTT(30)
    <3> QED BY <3>7, <2>3
  <2> QED BY <2>4, <2>5
<1>3. f = Def(f)
  BY <1>2
<1> HIDE DEF f
<1>4. f[0] = <<>>
  BY <1>3
<1>5. ASSUME NEW i \in 1..L
      PROVE  f[i] = IF s[i] \in S THEN f[i - 1] ELSE Append(f[i - 1], s[i])
  <2>1. i \in 0..L /\ i # 0
    OBVIOUS
  <2> QED BY <1>3, <2>1
<1> QED BY <1>1, <1>4, <1>5 DEF Filters

LEMMA UptoInduction ==
    ASSUME NEW L \in Nat, NEW S, 0 \in S, \A i \in 1..L : i - 1 \in S => i \in S
    PROVE  \A i \in 0..L : i \in S
<1> DEFINE T == (0..L) \ S
<1> SUFFICES ASSUME T # {} PROVE FALSE
  OBVIOUS
<1>1. PICK m \in T : \A k \in T : m <= k
  <2>1. T \in SUBSET Nat
    OBVIOUS
  <2> QED BY <2>1, LeastNumber
<1>2. m \in 1..L /\ m - 1 \in 0..L /\ ~(m <= m - 1)
  OBVIOUS
<1>3. m - 1 \in S
  BY <1>1, <1>2
<1> QED BY <1>2, <1>3

LEMMA ConcatFacts ==
    ASSUME NEW T, NEW a \in Seq(T), NEW b \in Seq(T)
    PROVE  /\ a \o b \in Seq(T)
           /\ ToSet(a \o b) = ToSet(a) \cup ToSet(b)
           /\ Ids(a \o b) = Ids(a) \cup Ids(b)
           /\ UniqueIds(a \o b) <=> UniqueIds(a) /\ UniqueIds(b) /\ Ids(a) \cap Ids(b) = {}
<1> DEFINE s == a \o b
<1>1. /\ s \in Seq(T) /\ Len(s) = Len(a) + Len(b) /\ Len(a) \in Nat /\ Len(b) \in Nat
      /\ \A i \in 1..(Len(a) + Len(b)) : s[i] = IF i <= Len(a) THEN a[i] ELSE b[i - Len(a)]
  BY ConcatProperties
<1> HIDE DEF s
<1>2. ASSUME NEW i \in 1..Len(a) PROVE i \in 1..Len(s) /\ i <= Len(a) /\ s[i] = a[i]
  <2>1. i \in 1..(Len(a) + Len(b)) /\ i <= Len(a)
    BY <1>1
  <2> QED BY <1>1, <2>1
<1>3. ASSUME NEW i \in 1..Len(b)
      PROVE  i + Len(a) \in 1..Len(s) /\ ~(i + Len(a) <= Len(a)) /\ s[i + Len(a)] = b[i]
  <2>1. i + Len(a) \in 1..(Len(a) + Len(b)) /\ ~(i + Len(a) <= Len(a))
        /\ (i + Len(a)) - Len(a) = i
    BY <1>1
  <2> QED BY <1>1, <2>1
<1>4. ASSUME NEW i \in 1..Len(s)
      PROVE  \/ i \in 1..Len(a) /\ s[i] = a[i]
             \/ ~(i <= Len(a)) /\ i - Len(a) \in 1..Len(b) /\ s[i] = b[i - Len(a)]
  <2>1. i \in 1..(Len(a) + Len(b))
    BY <1>1
  <2>2. (i \in 1..Len(a) /\ i <= Len(a)) \/ (~(i <= Len(a)) /\ i - Len(a) \in 1..Len(b))
    BY <1>1, <2>1
  <2> QED BY <1>1, <2>1, <2>2
<1>5. ToSet(s) = ToSet(a) \cup ToSet(b)
  <2>1. \A x : x \in ToSet(s) => x \in ToSet(a) \cup ToSet(b)
    BY <1>1, <1>4, MemberFacts
  <2>2. \A x : x \in ToSet(a) => x \in ToSet(s)
    BY <1>1, <1>2, MemberFacts
  <2>3. ASSUME NEW x \in ToSet(b) PROVE x \in ToSet(s)
    <3>1. PICK i \in 1..Len(b) : b[i] = x
      BY MemberFacts
    <3>2. i + Len(a) \in 1..Len(s) /\ s[i + Len(a)] = x
      BY <1>3, <3>1
    <3> QED BY <1>1, <3>2, MemberFacts
  <2> QED BY <2>1, <2>2, <2>3
<1>6. Ids(s) = Ids(a) \cup Ids(b)
  BY <1>5 DEF Ids
<1>7. ASSUME UniqueIds(s) PROVE UniqueIds(a) /\ UniqueIds(b) /\ Ids(a) \cap Ids(b) = {}
  <2>1. UniqueIds(a)
    BY <1>2, <1>7 DEF UniqueIds
  <2>2. UniqueIds(b)
    <3>1. SUFFICES ASSUME NEW i \in 1..Len(b), NEW j \in 1..Len(b), b[i].id = b[j].id PROVE i = j
      BY DEF UniqueIds
    <3>2. i + Len(a) = j + Len(a)
      BY <1>3, <1>7, <3>1 DEF UniqueIds
    <3> QED BY <1>1, <3>2
  <2>3. ASSUME NEW e \in Ids(a), e \in Ids(b) PROVE FALSE
    <3>1. PICK i \in 1..Len(a) : a[i].id = e
      BY MemberFacts
    <3>2. PICK j \in 1..Len(b) : b[j].id = e
      BY <2>3, MemberFacts
    <3>3. /\ i \in 1..Len(s) /\ s[i].id = e
          /\ j + Len(a) \in 1..Len(s) /\ s[j + Len(a)].id = e
      BY <1>2, <1>3, <3>1, <3>2
    <3>4. i = j + Len(a)
      BY <1>7, <3>3 DEF UniqueIds
    <3> QED BY <1>2, <1>3, <3>4
  <2> QED BY <2>1, <2>2, <2>3
<1>8. ASSUME UniqueIds(a), UniqueIds(b), Ids(a) \cap Ids(b) = {} PROVE UniqueIds(s)
  <2>1. SUFFICES ASSUME NEW i \in 1..Len(s), NEW j \in 1..Len(s), s[i].id = s[j].id PROVE i = j
    BY DEF UniqueIds
  <2>2. CASE i \in 1..Len(a) /\ s[i] = a[i] /\ j \in 1..Len(a) /\ s[j] = a[j]
    BY <1>8, <2>1, <2>2 DEF UniqueIds
  <2>3. CASE /\ i - Len(a) \in 1..Len(b) /\ s[i] = b[i - Len(a)]
             /\ j - Len(a) \in 1..Len(b) /\ s[j] = b[j - Len(a)]
    <3>1. i - Len(a) = j - Len(a)
      BY <1>8, <2>1, <2>3 DEF UniqueIds
    <3> QED BY <1>1, <2>1, <3>1
  <2>4. CASE i \in 1..Len(a) /\ s[i] = a[i] /\ j - Len(a) \in 1..Len(b) /\ s[j] = b[j - Len(a)]
    <3>1. s[i].id \in Ids(a) /\ s[j].id \in Ids(b)
      BY <2>4, MemberFacts
    <3> QED BY <1>8, <2>1, <3>1
  <2>5. CASE j \in 1..Len(a) /\ s[j] = a[j] /\ i - Len(a) \in 1..Len(b) /\ s[i] = b[i - Len(a)]
    <3>1. s[j].id \in Ids(a) /\ s[i].id \in Ids(b)
      BY <2>5, MemberFacts
    <3> QED BY <1>8, <2>1, <3>1
  <2> QED BY <1>4, <2>2, <2>3, <2>4, <2>5
<1> QED BY <1>1, <1>5, <1>6, <1>7, <1>8 DEF s

LEMMA SingletonFacts ==
    ASSUME NEW T, NEW x \in T
    PROVE  <<x>> \in Seq(T) /\ Len(<<x>>) = 1 /\ ToSet(<<x>>) = {x} /\ Ids(<<x>>) = {x.id}
           /\ UniqueIds(<<x>>)
<1>1. <<x>> \in Seq(T) /\ Len(<<x>>) = 1 /\ \A i \in 1..1 : i = 1 /\ <<x>>[i] = x
  OBVIOUS
<1>2. ToSet(<<x>>) = {x}
  BY DEF ToSet
<1>3. Ids(<<x>>) = {x.id}
  BY <1>2 DEF Ids
<1> QED BY <1>1, <1>2, <1>3 DEF UniqueIds

LEMMA AppendFacts ==
    ASSUME NEW T, NEW s \in Seq(T), NEW x \in T
    PROVE  LET t == Append(s, x)
           IN  /\ t \in Seq(T) /\ Len(t) = Len(s) + 1
               /\ \A i \in 1..Len(s) : t[i] = s[i]
               /\ ToSet(t) = ToSet(s) \cup {x} /\ Ids(t) = Ids(s) \cup {x.id}
               /\ UniqueIds(s) /\ x.id \notin Ids(s) => UniqueIds(t)
<1>1. Append(s, x) = s \o <<x>>
  BY AppendIsConcat
<1>2. /\ Append(s, x) \in Seq(T) /\ Len(Append(s, x)) = Len(s) + 1
      /\ \A i \in 1..Len(s) : Append(s, x)[i] = s[i]
  BY AppendProperties
<1>3. <<x>> \in Seq(T) /\ ToSet(<<x>>) = {x} /\ Ids(<<x>>) = {x.id} /\ UniqueIds(<<x>>)
  BY SingletonFacts
<1>4. /\ ToSet(s \o <<x>>) = ToSet(s) \cup ToSet(<<x>>)
      /\ Ids(s \o <<x>>) = Ids(s) \cup Ids(<<x>>)
      /\ UniqueIds(s) /\ UniqueIds(<<x>>) /\ Ids(s) \cap Ids(<<x>>) = {} => UniqueIds(s \o <<x>>)
  BY <1>3, ConcatFacts
<1>5. UniqueIds(s) /\ x.id \notin Ids(s) => UniqueIds(Append(s, x))
  BY <1>1, <1>3, <1>4
<1> QED BY <1>1, <1>2, <1>3, <1>4, <1>5

(* A list whose elements were rewritten in place, IDs kept. *)
LEMMA SameIds ==
    ASSUME NEW T, NEW s \in Seq(T), NEW t \in Seq(T), Len(t) = Len(s),
           \A i \in 1..Len(s) : t[i].id = s[i].id
    PROVE  Ids(t) = Ids(s) /\ (UniqueIds(s) => UniqueIds(t))
<1>1. \A e : e \in Ids(t) <=> e \in Ids(s)
  BY MemberFacts
<1> QED BY <1>1 DEF UniqueIds

LEMMA ReplaceFacts ==
    ASSUME NEW T, NEW s \in Seq(T), NEW i \in 1..Len(s), NEW x \in T
    PROVE  LET t == [s EXCEPT ![i] = x]
           IN  /\ t \in Seq(T) /\ Len(t) = Len(s)
               /\ \A j \in 1..Len(s) : t[j] = IF j = i THEN x ELSE s[j]
               /\ x.id = s[i].id => Ids(t) = Ids(s) /\ (UniqueIds(s) => UniqueIds(t))
<1> DEFINE t == [s EXCEPT ![i] = x]
<1>1. t \in Seq(T) /\ Len(t) = Len(s) /\ \A j \in 1..Len(s) : t[j] = IF j = i THEN x ELSE s[j]
  OBVIOUS
<1>2. ASSUME x.id = s[i].id PROVE \A j \in 1..Len(s) : t[j].id = s[j].id
  BY <1>1, <1>2
<1> HIDE DEF t
<1>3. x.id = s[i].id => Ids(t) = Ids(s) /\ (UniqueIds(s) => UniqueIds(t))
  BY <1>1, <1>2, SameIds
<1> QED BY <1>1, <1>3 DEF t

LEMMA ReverseFacts ==
    ASSUME NEW T, NEW s \in Seq(T)
    PROVE  Reverse(s) \in Seq(T) /\ ToSet(Reverse(s)) = ToSet(s) /\ Ids(Reverse(s)) = Ids(s)
<1> DEFINE t == Reverse(s)
           L == Len(s)
<1>1. L \in Nat /\ \A i \in 1..L : (L - i) + 1 \in 1..L /\ (L - ((L - i) + 1)) + 1 = i
  OBVIOUS
<1>2. t = [i \in 1..L |-> s[(L - i) + 1]]
  BY DEF Reverse
<1> HIDE DEF t
<1>3. t \in Seq(T) /\ Len(t) = L /\ \A i \in 1..L : t[i] = s[(L - i) + 1]
  BY <1>1, <1>2
<1>4. ASSUME NEW x \in ToSet(s) PROVE x \in ToSet(t)
  <2>1. PICK i \in 1..L : s[i] = x
    BY MemberFacts
  <2>2. (L - i) + 1 \in 1..L /\ t[(L - i) + 1] = x
    BY <1>1, <1>3, <2>1
  <2> QED BY <1>3, <2>2, MemberFacts
<1>5. ASSUME NEW x \in ToSet(t) PROVE x \in ToSet(s)
  <2>1. PICK i \in 1..L : t[i] = x
    BY <1>3, MemberFacts
  <2>2. (L - i) + 1 \in 1..L /\ s[(L - i) + 1] = x
    BY <1>1, <1>3, <2>1
  <2> QED BY <2>2, MemberFacts
<1>6. ToSet(t) = ToSet(s)
  BY <1>4, <1>5
<1> QED BY <1>3, <1>6 DEF t, Ids

(* LINSERT: before the first copy of p, or nowhere. *)
LEMMA InsertBeforeFacts ==
    ASSUME NEW T, NEW s \in Seq(T), NEW p, NEW x \in T
    PROVE  LET t == InsertBefore(s, p, x)
           IN  /\ t \in Seq(T)
               /\ ToSet(s) \subseteq ToSet(t) /\ ToSet(t) \subseteq ToSet(s) \cup {x}
               /\ p \in ToSet(s) => x \in ToSet(t)
               /\ UniqueIds(s) /\ x.id \notin Ids(s) => UniqueIds(t)
<1> DEFINE I == {i \in 1..Len(s) : s[i] = p}
           at == SelectInSeq(s, LAMBDA y : y = p)
           t == InsertBefore(s, p, x)
<1>1. CASE I = {}
  <2>1. at = 0
    BY <1>1 DEF SelectInSeq
  <2>2. t = s
    BY <2>1 DEF InsertBefore
  <2>3. p \notin ToSet(s)
    BY <1>1, MemberFacts
  <2> QED BY <2>2, <2>3
<1>2. CASE I # {}
  <2>1. at = Min(I)
    BY <1>2 DEF SelectInSeq
  <2>2. Min(I) \in I
    <3>1. I \in SUBSET Nat
      OBVIOUS
    <3> HIDE DEF I
    <3> QED BY <1>2, <3>1, MinFacts
  <2>3. PICK i \in 1..Len(s) : at = i
    BY <2>1, <2>2
  <2> DEFINE a == SubSeq(s, 1, i - 1)
             b == SubSeq(s, i, Len(s))
  <2>4. t = (a \o <<x>>) \o b
    <3>1. at # 0
      BY <2>3
    <3> QED BY <2>3, <3>1 DEF InsertBefore, InsertAt
  <2>5. Len(s) \in Nat /\ i \in Nat /\ i >= 1 /\ i <= Len(s)
    OBVIOUS
  <2>6. a \in Seq(T) /\ Len(a) = i - 1 /\ \A j \in 1..(i - 1) : a[j] = s[j]
    BY <2>5
  <2>7. b \in Seq(T) /\ Len(b) = (Len(s) - i) + 1 /\ \A j \in 1..((Len(s) - i) + 1) : b[j] = s[(i + j) - 1]
    BY <2>5
  <2> HIDE DEF a, b, t, at
  <2>8. s = a \o b
    <3> DEFINE u == a \o b
    <3>1. /\ u \in Seq(T) /\ Len(u) = Len(a) + Len(b)
          /\ \A j \in 1..(Len(a) + Len(b)) : u[j] = IF j <= Len(a) THEN a[j] ELSE b[j - Len(a)]
      BY <2>6, <2>7, ConcatProperties
    <3> HIDE DEF u
    <3>2. Len(a) + Len(b) = Len(s)
      BY <2>5, <2>6, <2>7
    <3>3. ASSUME NEW j \in 1..Len(s) PROVE u[j] = s[j]
      <4>1. CASE j <= Len(a)
        <5>1. j \in 1..(i - 1)
          BY <2>5, <2>6, <4>1
        <5> QED BY <2>6, <3>1, <3>2, <4>1, <5>1
      <4>2. CASE ~(j <= Len(a))
        <5>1. j - Len(a) \in 1..((Len(s) - i) + 1) /\ (i + (j - Len(a))) - 1 = j
          BY <2>5, <2>6, <4>2
        <5>2. b[j - Len(a)] = s[j]
          BY <2>7, <5>1
        <5> QED BY <3>1, <3>2, <4>2, <5>2
      <4> QED BY <4>1, <4>2
    <3>4. u = s
      BY <3>1, <3>2, <3>3, SeqEqual
    <3> QED BY <3>4 DEF u
  <2>9. <<x>> \in Seq(T) /\ ToSet(<<x>>) = {x} /\ Ids(<<x>>) = {x.id} /\ UniqueIds(<<x>>)
    BY SingletonFacts
  <2> DEFINE c == a \o <<x>>
  <2>10. /\ c \in Seq(T) /\ ToSet(c) = ToSet(a) \cup {x} /\ Ids(c) = Ids(a) \cup {x.id}
         /\ UniqueIds(c) <=> UniqueIds(a) /\ UniqueIds(<<x>>) /\ Ids(a) \cap {x.id} = {}
    BY <2>6, <2>9, ConcatFacts
  <2>11. /\ ToSet(s) = ToSet(a) \cup ToSet(b) /\ Ids(s) = Ids(a) \cup Ids(b)
         /\ UniqueIds(s) <=> UniqueIds(a) /\ UniqueIds(b) /\ Ids(a) \cap Ids(b) = {}
    BY <2>6, <2>7, <2>8, ConcatFacts
  <2> HIDE DEF c
  <2>12. /\ t \in Seq(T) /\ ToSet(t) = ToSet(c) \cup ToSet(b)
         /\ UniqueIds(t) <=> UniqueIds(c) /\ UniqueIds(b) /\ Ids(c) \cap Ids(b) = {}
    BY <2>4, <2>7, <2>10, ConcatFacts, ZenonT(60) DEF c
  <2>13. ToSet(t) = ToSet(s) \cup {x}
    BY <2>10, <2>11, <2>12
  <2>14. ASSUME UniqueIds(s), x.id \notin Ids(s) PROVE UniqueIds(t)
    BY <2>9, <2>10, <2>11, <2>12, <2>14
  <2> QED BY <2>12, <2>13, <2>14 DEF t
<1> QED BY <1>1, <1>2

(* What the first n elements of a list leave. *)
LeftOf(t, s, S, T, n) ==
    /\ t \in Seq(T)
    /\ \A x : x \in ToSet(t) <=> x \notin S /\ \E i \in 1..n : s[i] = x
    /\ UniqueIds(s) => UniqueIds(t)

LEMMA WithoutFacts ==
    ASSUME NEW T, NEW s \in Seq(T), NEW S
    PROVE  LET t == Without(s, S)
           IN  /\ t \in Seq(T) /\ ToSet(t) = ToSet(s) \ S
               /\ UniqueIds(s) => UniqueIds(t)
<1> DEFINE L == Len(s)
<1>1. L \in Nat
  OBVIOUS
<1>2. PICK f : Filters(f, s, S)
  BY <1>1, WithoutUnfolds
<1> DEFINE G == {n \in 0..L : LeftOf(f[n], s, S, T, n)}
<1>3. 0 \in G
  <2>1. <<>> \in Seq(T) /\ Len(<<>>) = 0 /\ ToSet(<<>>) = {}
    BY DEF ToSet
  <2>2. LeftOf(<<>>, s, S, T, 0)
    BY <2>1 DEF LeftOf, UniqueIds
  <2> QED BY <1>1, <1>2, <2>2 DEF Filters
<1>4. ASSUME NEW n \in 1..L, n - 1 \in G PROVE n \in G
  <2> DEFINE t == f[n - 1]
             u == f[n]
  <2>0. n \in 0..L /\ n \in Nat /\ 1..n = (1..(n - 1)) \cup {n} /\ n \notin 1..(n - 1)
        /\ \A i \in 1..(n - 1) : i \in 1..L
    BY <1>1
  <2>1. LeftOf(t, s, S, T, n - 1)
    BY <1>4
  <2>2. u = IF s[n] \in S THEN t ELSE Append(t, s[n])
    BY <1>2 DEF Filters
  <2>3. s[n] \in T
    OBVIOUS
  <2> HIDE DEF t, u
  <2>4. CASE s[n] \in S
    <3>1. u = t
      BY <2>2, <2>4
    <3>2. \A x : (x \notin S /\ \E i \in 1..n : s[i] = x) <=> (x \notin S /\ \E i \in 1..(n - 1) : s[i] = x)
      BY <2>0, <2>4
    <3>3. LeftOf(u, s, S, T, n)
      BY <2>1, <3>1, <3>2 DEF LeftOf
    <3> QED BY <2>0, <3>3 DEF u
  <2>5. CASE s[n] \notin S
    <3>1. u = Append(t, s[n]) /\ t \in Seq(T)
      BY <2>1, <2>2, <2>5 DEF LeftOf
    <3>2. /\ u \in Seq(T) /\ ToSet(u) = ToSet(t) \cup {s[n]}
          /\ UniqueIds(t) /\ s[n].id \notin Ids(t) => UniqueIds(u)
      BY <2>3, <3>1, AppendFacts
    <3>3. ASSUME NEW x PROVE x \in ToSet(u) <=> x \notin S /\ \E i \in 1..n : s[i] = x
      <4>1. x \in ToSet(t) <=> x \notin S /\ \E i \in 1..(n - 1) : s[i] = x
        BY <2>1 DEF LeftOf
      <4> QED BY <2>0, <2>5, <3>2, <4>1
    <3>4. ASSUME UniqueIds(s) PROVE UniqueIds(u)
      <4>1. UniqueIds(t)
        BY <2>1, <3>4 DEF LeftOf
      <4>2. ASSUME s[n].id \in Ids(t) PROVE FALSE
        <5>1. PICK x \in ToSet(t) : x.id = s[n].id
          BY <3>1, <4>2, MemberFacts
        <5>2. PICK i \in 1..(n - 1) : s[i] = x
          BY <2>1, <5>1 DEF LeftOf
        <5>3. i = n
          BY <2>0, <3>4, <5>1, <5>2 DEF UniqueIds
        <5> QED BY <2>0, <5>3
      <4> QED BY <3>2, <4>1, <4>2
    <3>5. LeftOf(u, s, S, T, n)
      BY <3>2, <3>3, <3>4 DEF LeftOf
    <3> QED BY <2>0, <3>5 DEF u
  <2> QED BY <2>4, <2>5
<1>5. \A n \in 0..L : n \in G
  <2> HIDE DEF G, L
  <2> QED BY <1>1, <1>3, <1>4, UptoInduction
<1>6. LeftOf(f[L], s, S, T, L)
  BY <1>1, <1>5
<1>7. LeftOf(Without(s, S), s, S, T, L)
  BY <1>2, <1>6 DEF Filters
<1>8. \A x : x \in ToSet(Without(s, S)) <=> x \in ToSet(s) \ S
  BY <1>7, MemberFacts DEF LeftOf
<1> QED BY <1>7, <1>8 DEF LeftOf

-----------------------------------------------------------------------------
(* What the worker's steps come to. *)

LEMMA WorkerFacts ==
    ASSUME WorkInv, NEW w \in Replicas
    PROVE  /\ pc[w] \in Places /\ work[w] \in Works
           /\ pc[w] \in Busy =>
                 /\ lock = w /\ work[w].idx \in Nat /\ work[w].idx > 0
                 /\ work[w].was \in Seq(Records) /\ Len(work[w].was) = 1
                 /\ work[w].was[1] \in Records /\ work[w].was = <<work[w].was[1]>>
           /\ pc[w] \in Sending \cup {"drop"} =>
                 /\ work[w].new \in Seq(Records) /\ Len(work[w].new) = 1
                 /\ work[w].new[1] \in Records /\ work[w].new = <<work[w].new[1]>>
                 /\ work[w].new[1].id = work[w].was[1].id
<1>1. pc[w] \in Places /\ work[w] \in Works
  BY DEF WorkInv, OutboxTypes
<1>2. work[w].idx \in Nat /\ work[w].was \in Seq(Records) /\ work[w].new \in Seq(Records)
  BY <1>1 DEF Works
<1>3. \A s \in Seq(Records) : Len(s) = 1 => s[1] \in Records /\ s = <<s[1]>>
  OBVIOUS
<1>4. /\ pc[w] \in Busy => lock = w /\ work[w].idx > 0 /\ Len(work[w].was) = 1
      /\ pc[w] \in Sending \cup {"drop"} =>
            Len(work[w].new) = 1 /\ work[w].new[1].id = work[w].was[1].id
  BY DEF WorkInv, WorkerHolds
<1> QED BY <1>1, <1>2, <1>3, <1>4

LEMMA DoneRow ==
    ASSUME WorkInv, NEW e \in Entries, NEW a \in Nat, Row(e, a) = "done"
    PROVE  e \in transcript
BY DEF WorkInv, DoneIsStored, Row

LEMMA GuardCompletes ==
    ASSUME WorkInv, NEW r \in Records, GuardFinds(r, "completes")
    PROVE  r.id \in transcript
<1>1. r.id \in Entries /\ r.attempts \in Nat /\ r.attempts + 1 \in Nat
  BY DEF Records
<1>2. Row(r.id, r.attempts) = "done" \/ Row(r.id, r.attempts + 1) = "done"
  BY DEF GuardFinds
<1> QED BY <1>1, <1>2, DoneRow

Asking == {"send", "prior", "post", "poll"}

(* A worker that has asked the pod goes on asking, restores its entry,     *)
(* confirms it or, when it verifies, rewrites it.                          *)
GoesOn(w) == \E p \in Asking : Goto(w, p)
Restores(w) ==
    \E r \in Records : /\ r.id = work[w].was[1].id /\ (r.status = "pending" => r.gated)
                       /\ Restore(w, r)
Confirms(w) == work[w].was[1].id \in transcript /\ Complete(w)
Rewrites(w) == \E r \in Records : r.id = work[w].was[1].id /\ Rewrite(w, r)

Outcome(w) ==
    /\ \/ pc[w] \in Asking /\ (GoesOn(w) \/ Restores(w) \/ Confirms(w))
       \/ pc[w] = "verify" /\ (Confirms(w) \/ Rewrites(w))
    /\ row' \in [Entries \X (1..MaxRows) -> Contract!RowStates]
    /\ \A k \in Entries \X (1..MaxRows) :
          row'[k] = row[k] \/ (row[k] = "none" /\ row'[k] = "ledgered")
    /\ UNCHANGED <<acceptVars, archived, transcript, hooks, dismissed, crashes>>

LEMMA ParkOutcome ==
    ASSUME WorkInv, NEW w \in Replicas, NEW r \in Records, r.id = work[w].was[1].id,
           ParkOrKeep(w, r)
    PROVE  Restores(w) \/ Confirms(w)
<1>1. CASE GuardFinds(r, "completes") /\ Complete(w)
  BY <1>1, GuardCompletes DEF Confirms
<1>2. CASE Restore(w, [r EXCEPT !.status = "delivering", !.gated = TRUE])
  <2> DEFINE q == [r EXCEPT !.status = "delivering", !.gated = TRUE]
  <2>1. q \in Records /\ q.id = r.id /\ (q.status = "pending" => q.gated)
    BY DEF Records
  <2> HIDE DEF q
  <2> QED BY <1>2, <2>1 DEF Restores, q
<1>3. CASE Restore(w, [r EXCEPT !.status = "error"])
  <2> DEFINE q == [r EXCEPT !.status = "error"]
  <2>1. q \in Records /\ q.id = r.id /\ (q.status = "pending" => q.gated)
    BY DEF Records
  <2> HIDE DEF q
  <2> QED BY <1>3, <2>1 DEF Restores, q
<1> QED BY <1>1, <1>2, <1>3 DEF ParkOrKeep

LEMMA RetryOutcome ==
    ASSUME WorkInv, NEW w \in Replicas, NEW r \in Records, r.id = work[w].was[1].id,
           Restore(w, [r EXCEPT !.status = "pending", !.gated = TRUE])
    PROVE  Restores(w)
<1> DEFINE q == [r EXCEPT !.status = "pending", !.gated = TRUE]
<1>1. q \in Records /\ q.id = r.id /\ (q.status = "pending" => q.gated)
  BY DEF Records
<1> HIDE DEF q
<1> QED BY <1>1 DEF Restores, q

LEMMA TransientOutcome ==
    ASSUME WorkInv, NEW w \in Replicas, pc[w] \in Asking, Transient(w)
    PROVE  Restores(w) \/ Confirms(w)
<1> DEFINE n == work[w].new[1]
           c == Min({n.transient + 1, MaxTransientFailures})
           r == [n EXCEPT !.transient = c]
<1>1. n \in Records /\ n.id = work[w].was[1].id
  BY WorkerFacts DEF Asking, Sending
<1>2. c \in Nat
  <2>1. {n.transient + 1, MaxTransientFailures} \in SUBSET Nat
    BY <1>1, OutboxAssumption DEF Records
  <2> QED BY <2>1, MinFacts
<1> HIDE DEF c
<1>3. r \in Records /\ r.id = n.id
  BY <1>1, <1>2 DEF Records
<1>4. ParkOrKeep(w, r) \/ Restore(w, [r EXCEPT !.status = "pending", !.gated = TRUE])
  BY DEF Transient, c
<1> HIDE DEF r
<1> QED BY <1>1, <1>3, <1>4, ParkOutcome, RetryOutcome

LEMMA FailsOutcome ==
    ASSUME WorkInv, NEW w \in Replicas, pc[w] \in Asking, Fails(w)
    PROVE  Restores(w) \/ Confirms(w)
<1> DEFINE n == work[w].new[1]
           r == [n EXCEPT !.attempts = n.attempts + 1]
<1>1. n \in Records /\ n.id = work[w].was[1].id
  BY WorkerFacts DEF Asking, Sending
<1>2. r \in Records /\ r.id = n.id
  BY <1>1 DEF Records
<1>3. ParkOrKeep(w, r) \/ Restore(w, [r EXCEPT !.status = "pending", !.gated = TRUE])
  BY DEF Fails
<1> HIDE DEF r
<1> QED BY <1>1, <1>2, <1>3, ParkOutcome, RetryOutcome

LEMMA SendOutcome ==
    ASSUME WorkInv, NEW w \in Replicas, Send(w)
    PROVE  Outcome(w)
<1> DEFINE r == work[w].new[1]
<1>1. pc[w] \in Asking
  BY DEF Send, Asking
<1>2. r \in Records /\ r.id = work[w].was[1].id /\ r.id \in Entries /\ r.attempts \in Nat
  BY <1>1, WorkerFacts DEF Asking, Sending, Records
<1>3. /\ row' \in [Entries \X (1..MaxRows) -> Contract!RowStates] /\ row' = row
      /\ UNCHANGED <<acceptVars, archived, transcript, hooks, dismissed, crashes>>
  BY DEF Send, podVars, WorkInv, OutboxTypes
<1>4. GoesOn(w) \/ Restores(w) \/ Confirms(w)
  <2>1. CASE Terminal(w)
    <3> DEFINE q == [r EXCEPT !.status = "error"]
    <3>1. q \in Records /\ q.id = r.id /\ (q.status = "pending" => q.gated)
      BY <1>2 DEF Records
    <3>2. Restore(w, q)
      BY <2>1 DEF Terminal
    <3> HIDE DEF q
    <3> QED BY <1>2, <3>1, <3>2 DEF Restores
  <2>2. CASE Transient(w)
    BY <1>1, <2>2, TransientOutcome
  <2>3. CASE Row(r.id, r.attempts) = "done" /\ Complete(w)
    BY <1>2, <2>3, DoneRow DEF Confirms
  <2>4. CASE Goto(w, "prior") \/ Goto(w, "post")
    BY <2>4 DEF GoesOn, Asking
  <2> QED BY <2>1, <2>2, <2>3, <2>4 DEF Send
<1> QED BY <1>1, <1>3, <1>4 DEF Outcome

LEMMA PollPriorOutcome ==
    ASSUME WorkInv, NEW w \in Replicas, PollPrior(w)
    PROVE  Outcome(w)
<1> DEFINE r == work[w].new[1]
<1>1. pc[w] \in Asking
  BY DEF PollPrior, Asking
<1>2. r \in Records /\ r.id = work[w].was[1].id /\ r.id \in Entries /\ r.attempts \in Nat
  BY <1>1, WorkerFacts DEF Asking, Sending, Records
<1>3. /\ row' \in [Entries \X (1..MaxRows) -> Contract!RowStates] /\ row' = row
      /\ UNCHANGED <<acceptVars, archived, transcript, hooks, dismissed, crashes>>
  BY DEF PollPrior, podVars, WorkInv, OutboxTypes
<1>4. GoesOn(w) \/ Restores(w) \/ Confirms(w)
  <2>1. CASE PriorPending(w)
    <3> DEFINE q == [r EXCEPT !.status = "delivering", !.gated = TRUE]
    <3>1. q \in Records /\ q.id = r.id /\ (q.status = "pending" => q.gated)
      BY <1>2 DEF Records
    <3>2. Restore(w, q)
      BY <2>1 DEF PriorPending
    <3> HIDE DEF q
    <3> QED BY <1>2, <3>1, <3>2 DEF Restores
  <2>2. CASE Transient(w)
    BY <1>1, <2>2, TransientOutcome
  <2>3. CASE Row(r.id, r.attempts) = "done" /\ Complete(w)
    BY <1>2, <2>3, DoneRow DEF Confirms
  <2> QED BY <2>1, <2>2, <2>3 DEF PollPrior
<1> QED BY <1>1, <1>3, <1>4 DEF Outcome

LEMMA PostOutcome ==
    ASSUME WorkInv, NEW w \in Replicas, Post(w)
    PROVE  Outcome(w)
<1> DEFINE r == work[w].new[1]
           k == <<r.id, r.attempts + 1>>
<1>1. pc[w] \in Asking
  BY DEF Post, Asking
<1>2. r.id \in Entries /\ r.attempts \in Nat
  BY <1>1, WorkerFacts DEF Asking, Sending, Records
<1>3. k \in Entries \X (1..MaxRows) /\ row \in [Entries \X (1..MaxRows) -> Contract!RowStates]
  BY <1>2, OutboxAssumption, SMTT(30) DEF Post, WorkInv, OutboxTypes
<1>4. UNCHANGED <<acceptVars, archived, transcript, hooks, dismissed, crashes>>
  BY DEF Post
<1>5. row' = row \/ row' = [row EXCEPT ![k] = IF row[k] = "none" THEN "ledgered" ELSE row[k]]
  BY DEF Post
<1> HIDE DEF k
<1>6. /\ row' \in [Entries \X (1..MaxRows) -> Contract!RowStates]
      /\ \A j \in Entries \X (1..MaxRows) :
            row'[j] = row[j] \/ (row[j] = "none" /\ row'[j] = "ledgered")
  <2>1. CASE row' = row
    BY <1>3, <2>1
  <2>2. CASE row' = [row EXCEPT ![k] = IF row[k] = "none" THEN "ledgered" ELSE row[k]]
    BY <1>3, <2>2 DEF Contract!RowStates
  <2> QED BY <1>5, <2>1, <2>2
<1>7. GoesOn(w) \/ Restores(w) \/ Confirms(w)
  <2>1. CASE Goto(w, "poll")
    BY <2>1 DEF GoesOn, Asking
  <2>2. CASE Fails(w)
    BY <1>1, <2>2, FailsOutcome
  <2> QED BY <2>1, <2>2 DEF Post
<1> QED BY <1>1, <1>4, <1>6, <1>7 DEF Outcome

LEMMA PollOutcome ==
    ASSUME WorkInv, NEW w \in Replicas, Poll(w)
    PROVE  Outcome(w)
<1> DEFINE r == work[w].new[1]
<1>1. pc[w] \in Asking
  BY DEF Poll, Asking
<1>2. r.id = work[w].was[1].id /\ r.id \in Entries /\ r.attempts + 1 \in Nat
  BY <1>1, WorkerFacts DEF Asking, Sending, Records
<1>3. /\ row' \in [Entries \X (1..MaxRows) -> Contract!RowStates] /\ row' = row
      /\ UNCHANGED <<acceptVars, archived, transcript, hooks, dismissed, crashes>>
  BY DEF Poll, podVars, WorkInv, OutboxTypes
<1>4. GoesOn(w) \/ Restores(w) \/ Confirms(w)
  <2>1. CASE Fails(w)
    BY <1>1, <2>1, FailsOutcome
  <2>2. CASE completionFor(Row(r.id, r.attempts + 1)) /\ Complete(w)
    BY <1>2, <2>2, DoneRow DEF Confirms, completionFor
  <2> QED BY <2>1, <2>2 DEF Poll
<1> QED BY <1>1, <1>3, <1>4 DEF Outcome

LEMMA VerifyOutcome ==
    ASSUME WorkInv, NEW w \in Replicas, verifyOne(w)
    PROVE  Outcome(w)
<1> DEFINE r == work[w].was[1]
<1>1. pc[w] = "verify"
  BY DEF verifyOne
<1>2. r \in Records /\ r.attempts \in Nat /\ r.verify \in Nat
  BY <1>1, WorkerFacts DEF Busy, Records
<1>3. /\ row' \in [Entries \X (1..MaxRows) -> Contract!RowStates] /\ row' = row
      /\ UNCHANGED <<acceptVars, archived, transcript, hooks, dismissed, crashes>>
  BY DEF verifyOne, podVars, WorkInv, OutboxTypes
<1>4. Rewrites(w) \/ Confirms(w)
  <2>1. CASE r.id \in transcript /\ Complete(w)
    BY <2>1 DEF Confirms
  <2>2. CASE VerifyAbsent(w, r)
    <3> DEFINE n == r.attempts + 1
               st == IF n >= MaxAttempts THEN "error" ELSE "pending"
               q == [r EXCEPT !.attempts = n, !.verify = 0, !.unverifiable = FALSE,
                              !.status = st,
                              !.gated = IF n >= MaxAttempts THEN r.gated ELSE TRUE]
    <3>1. n \in Nat /\ st \in {"error", "pending"}
      BY <1>2
    <3>2. (IF n >= MaxAttempts THEN r.gated ELSE TRUE) \in BOOLEAN
      <4>1. r.gated \in BOOLEAN
        BY <1>2 DEF Records
      <4> HIDE DEF n
      <4> QED BY <4>1, Zenon
    <3>3. q \in Records /\ q.id = r.id
      <4> HIDE DEF n, st
      <4> QED BY <1>2, <3>1, <3>2 DEF Records
    <3>4. Rewrite(w, q)
      BY <2>2 DEF VerifyAbsent
    <3> HIDE DEF q
    <3> QED BY <3>3, <3>4 DEF Rewrites
  <2>3. CASE VerifyInconclusive(w, r)
    <3> DEFINE v == [r EXCEPT !.verify = r.verify + 1]
               q1 == [v EXCEPT !.gated = TRUE]
               q2 == [v EXCEPT !.status = "error", !.unverifiable = TRUE]
    <3>1. v \in Records /\ v.id = r.id
      BY <1>2 DEF Records
    <3>2. Rewrite(w, q1) \/ Rewrite(w, q2) \/ (GuardFinds(v, "completes") /\ Complete(w))
      BY <2>3 DEF VerifyInconclusive
    <3> HIDE DEF v
    <3>3. q1 \in Records /\ q1.id = r.id /\ q2 \in Records /\ q2.id = r.id
      BY <3>1 DEF Records
    <3> HIDE DEF q1, q2
    <3>4. CASE Rewrite(w, q1) \/ Rewrite(w, q2)
      BY <3>3, <3>4 DEF Rewrites
    <3>5. CASE GuardFinds(v, "completes") /\ Complete(w)
      BY <3>1, <3>5, GuardCompletes DEF Confirms
    <3> QED BY <3>2, <3>4, <3>5
  <2> QED BY <2>1, <2>2, <2>3 DEF verifyOne
<1> QED BY <1>1, <1>3, <1>4 DEF Outcome

(* The steps of the program, with the worker's steps in that form. *)
Changes ==
    \/ \E e \in Entries : AcceptCheck(e) \/ AcceptPush(e) \/ AcceptMark(e) \/ AcceptWithdraw(e)
    \/ \E w \in Replicas : \/ Pick(w) \/ Unqueue(w) \/ Outcome(w) \/ RestoreInsert(w)
                           \/ RestoreDrop(w) \/ Fire(w)
                           \/ Recover(w) \/ RecoverDies(w) \/ Crash(w)
    \/ LockExpires
    \/ \E e \in Entries : Dismiss(e) \/ Retry(e) \/ PodStores(e)
    \/ SweepWorkspaceUnverifiable \/ SweepParkedErrors
    \/ ParkWorkspace \/ UnparkWorkspace \/ Archive
    \/ \E k \in Entries \X (1..MaxRows) : PodAdmits(k) \/ PodFails(k) \/ PodForgets(k)

LEMMA NextChanges ==
    ASSUME WorkInv, Next
    PROVE  Changes
<1>1. ASSUME NEW w \in Replicas, Work(w)
      PROVE  Changes
  BY <1>1, SendOutcome, PollPriorOutcome, PostOutcome, PollOutcome, VerifyOutcome
     DEF Work, Changes
<1> QED BY <1>1 DEF Next, Changes

-----------------------------------------------------------------------------
(* What the steps do to the lists. *)

(* A list rewritten in place. *)
InPlace(s, t) == t \in Seq(Records) /\ Len(t) = Len(s) /\ \A i \in 1..Len(s) : t[i].id = s[i].id

LEMMA InPlaceFacts ==
    ASSUME NEW s \in Seq(Records), NEW t, InPlace(s, t)
    PROVE  t \in Seq(Records) /\ Ids(t) = Ids(s) /\ (UniqueIds(s) => UniqueIds(t))
BY SameIds DEF InPlace

LEMMA FreshRecord ==
    ASSUME NEW e \in Entries
    PROVE  Fresh(e) \in Records /\ Fresh(e).id = e
BY DEF Fresh, Records

LEMMA RewriteAllFacts ==
    ASSUME WorkInv, NEW old, NEW new,
           \A r \in old \cap Records : new[r] \in Records /\ new[r].id = r.id, RewriteAll(old, new)
    PROVE  InPlace(main, main')
<1>1. main \in Seq(Records) /\ Len(main) \in Nat /\ \A i \in 1..Len(main) : main[i] \in Records
  BY DEF WorkInv, OutboxTypes
<1> DEFINE x(i) == IF main[i] \in old THEN new[main[i]] ELSE main[i]
<1>2. \A i \in 1..Len(main) : x(i) \in Records /\ x(i).id = main[i].id
  BY <1>1
<1>3. main' = [i \in 1..Len(main) |-> x(i)]
  BY DEF RewriteAll
<1> HIDE DEF x
<1> QED BY <1>1, <1>2, <1>3 DEF InPlace

(* The sweeps and the parking of a workspace keep every entry's place.     *)
LEMMA WorkspaceRewrites ==
    ASSUME WorkInv, SweepWorkspaceUnverifiable \/ ParkWorkspace \/ UnparkWorkspace
    PROVE  InPlace(main, main')
<1>1. CASE SweepWorkspaceUnverifiable
  <2> DEFINE new == [r \in Unverifiable |->
                       [r EXCEPT !.status = "verifying", !.verify = 0, !.gated = FALSE]]
  <2>1. \A r \in Unverifiable \cap Records : new[r] \in Records /\ new[r].id = r.id
    BY DEF Records
  <2>2. RewriteAll(Unverifiable, new)
    BY <1>1 DEF SweepWorkspaceUnverifiable
  <2> HIDE DEF new
  <2> QED BY <2>1, <2>2, RewriteAllFacts
<1>2. CASE ParkWorkspace
  <2> DEFINE new == [r \in Parkable |->
                       [r EXCEPT !.status = "parked", !.unverifiable = FALSE, !.gated = FALSE]]
  <2>1. \A r \in Parkable \cap Records : new[r] \in Records /\ new[r].id = r.id
    BY DEF Records
  <2>2. RewriteAll(Parkable, new)
    BY <1>2 DEF ParkWorkspace
  <2> HIDE DEF new
  <2> QED BY <2>1, <2>2, RewriteAllFacts
<1>3. CASE UnparkWorkspace
  <2> DEFINE new == [r \in Parked |-> [r EXCEPT !.status = "pending", !.gated = FALSE]]
  <2>1. \A r \in Parked \cap Records : new[r] \in Records /\ new[r].id = r.id
    BY DEF Records
  <2>2. RewriteAll(Parked, new)
    BY <1>3 DEF UnparkWorkspace
  <2> HIDE DEF new
  <2> QED BY <2>1, <2>2, RewriteAllFacts
<1> QED BY <1>1, <1>2, <1>3

LEMMA DismissFacts ==
    ASSUME WorkInv, NEW e \in Entries, Dismiss(e)
    PROVE  \E i \in 1..Len(main) : main[i].id = e /\ main' = RemoveAt(main, i)
<1> DEFINE I == {i \in 1..Len(main) : main[i].id = e}
<1>1. main \in Seq(Records)
  BY DEF WorkInv, OutboxTypes
<1>2. I # {}
  BY <1>1, MemberFacts DEF Dismiss
<1>3. main' = RemoveAt(main, Min(I))
  BY <1>2 DEF Dismiss, SelectInSeq
<1>4. Min(I) \in I
  <2>1. I \in SUBSET Nat
    OBVIOUS
  <2> HIDE DEF I
  <2> QED BY <1>2, <2>1, MinFacts
<1> QED BY <1>3, <1>4

LEMMA RetryFacts ==
    ASSUME WorkInv, NEW e \in Entries, Retry(e)
    PROVE  InPlace(main, main')
<1> DEFINE I == {i \in 1..Len(main) : main[i].id = e /\ main[i].status = "error"}
           at == SelectInSeq(main, LAMBDA r : r.id = e /\ r.status = "error")
           x == [main[at] EXCEPT !.status = "pending", !.attempts = 0, !.verify = 0,
                                 !.transient = 0, !.unverifiable = FALSE, !.gated = FALSE]
<1>1. main \in Seq(Records)
  BY DEF WorkInv, OutboxTypes
<1>2. at # 0 /\ main' = [main EXCEPT ![at] = x]
  BY DEF Retry
<1>3. at = IF I # {} THEN Min(I) ELSE 0
  BY DEF SelectInSeq
<1>4. at \in 1..Len(main)
  <2>1. I \in SUBSET Nat
    OBVIOUS
  <2>2. I # {}
    BY <1>2, <1>3
  <2>3. Min(I) \in I
    <3> HIDE DEF I
    <3> QED BY <2>1, <2>2, MinFacts
  <2> QED BY <1>3, <2>2, <2>3
<1> HIDE DEF at
<1>5. main[at] \in Records
  BY <1>1, <1>4
<1>6. x \in Records /\ x.id = main[at].id
  BY <1>5 DEF Records
<1> HIDE DEF x
<1> QED BY <1>1, <1>2, <1>4, <1>6, ReplaceFacts DEF InPlace

(* The sweep of parked errors: the entries of done leave both lists, the   *)
(* others keep their order.                                                *)
SweptOf(done) ==
    /\ done \subseteq ToSet(main) /\ \A r \in done : Completes(r)
    /\ InPlace(Without(main, done), main')
    /\ staging' = Without(staging, done)
    /\ claimed' = claimed \cup {r.id : r \in done}
    /\ hooks' = [e \in Entries |-> hooks[e] + Cardinality({r \in done : r.id = e})]

LEMMA SweepFacts ==
    ASSUME WorkInv, SweepParkedErrors
    PROVE  \E done : SweptOf(done)
<1> DEFINE Swept(answered) == {r \in ToSet(main) : r.status = "error" /\ r.id \in answered}
           Done(answered) == {r \in Swept(answered) : Completes(r)}
           Rearmed(r) == [r EXCEPT !.status = "pending", !.transient = 0,
                                   !.attempts = Adopted(r),
                                   !.unverifiable = FALSE, !.gated = FALSE]
           x(left, answered, i) ==
               IF left[i] \in Swept(answered) /\ Rearms(left[i]) THEN Rearmed(left[i]) ELSE left[i]
<1>1. PICK answered \in SUBSET Ids(main) :
         /\ main' = [i \in 1..Len(Without(main, Done(answered))) |->
                        x(Without(main, Done(answered)), answered, i)]
         /\ staging' = Without(staging, Done(answered))
         /\ claimed' = claimed \cup {r.id : r \in Done(answered)}
         /\ hooks' = [e \in Entries |-> hooks[e] + Cardinality({r \in Done(answered) : r.id = e})]
  BY DEF SweepParkedErrors
<1> DEFINE done == Done(answered)
           left == Without(main, done)
<1>2. done \subseteq ToSet(main) /\ \A r \in done : Completes(r)
  OBVIOUS
<1>3. main \in Seq(Records)
  BY DEF WorkInv, OutboxTypes
<1>4. left \in Seq(Records)
  <2> HIDE DEF done
  <2> QED BY <1>3, WithoutFacts
<1>5. \A r \in Records : Rearmed(r) \in Records /\ Rearmed(r).id = r.id
  <2>1. \A r \in Records : Adopted(r) \in Nat
    BY DEF Adopted, Records
  <2> QED BY <2>1 DEF Records
<1>6. main' = [i \in 1..Len(left) |-> x(left, answered, i)]
  BY <1>1
<1> HIDE DEF left, Swept, Rearmed
<1>7. \A i \in 1..Len(left) : x(left, answered, i) \in Records /\ x(left, answered, i).id = left[i].id
  BY <1>4, <1>5
<1>8. InPlace(left, main')
  <2> HIDE DEF x
  <2> QED BY <1>4, <1>6, <1>7 DEF InPlace
<1>9. /\ staging' = Without(staging, done) /\ claimed' = claimed \cup {r.id : r \in done}
      /\ hooks' = [e \in Entries |-> hooks[e] + Cardinality({r \in done : r.id = e})]
  BY <1>1
<1> HIDE DEF done
<1> QED BY <1>2, <1>8, <1>9 DEF SweptOf, left

(* What Recover pushes: the entries of staging that the queue has not.     *)
LEMMA RequeuedFacts ==
    ASSUME WorkInv
    PROVE  /\ Requeued \in Seq(Records) /\ Ids(Requeued) = Ids(staging) \ Ids(main)
           /\ staging = <<>> => Requeued = <<>>
<1> DEFINE here == {r \in ToSet(staging) : r.id \in Ids(main)}
           lost == Without(staging, here)
           x(i) == [lost[i] EXCEPT !.status = "verifying", !.gated = FALSE]
<1>1. staging \in Seq(Records)
  BY DEF WorkInv, OutboxTypes
<1>2. lost \in Seq(Records) /\ ToSet(lost) = ToSet(staging) \ here
  <2> HIDE DEF here
  <2> QED BY <1>1, WithoutFacts
<1>3. Requeued = [i \in 1..Len(lost) |-> x(i)]
  BY DEF Requeued
<1> HIDE DEF lost
<1>4. Len(lost) \in Nat /\ \A i \in 1..Len(lost) : lost[i] \in Records
  BY <1>2
<1>5. \A i \in 1..Len(lost) : x(i) \in Records /\ x(i).id = lost[i].id
  BY <1>4 DEF Records
<1> HIDE DEF x
<1>6. InPlace(lost, Requeued)
  BY <1>3, <1>4, <1>5 DEF InPlace
<1>7. Ids(Requeued) = Ids(lost)
  BY <1>2, <1>6, InPlaceFacts
<1>8. Ids(lost) = Ids(staging) \ Ids(main)
  BY <1>2 DEF Ids
<1>9. ASSUME staging = <<>> PROVE Requeued = <<>>
  <2>1. ToSet(staging) = {}
    BY <1>9 DEF ToSet
  <2>2. ToSet(lost) = {}
    BY <1>2, <2>1
  <2>3. Len(lost) = 0
    BY <1>2, <1>4, <2>2, MemberFacts
  <2> QED BY <1>6, <2>3 DEF InPlace
<1> QED BY <1>6, <1>7, <1>8, <1>9 DEF InPlace

(* Every step leaves lists of copies. *)
LEMMA ListsTyped ==
    ASSUME WorkInv, Changes
    PROVE  main' \in Seq(Records) /\ staging' \in Seq(Records)
<1>0. main \in Seq(Records) /\ staging \in Seq(Records)
  BY DEF WorkInv, OutboxTypes
<1>1. CASE UNCHANGED queueVars
  BY <1>0, <1>1 DEF queueVars
<1>2. ASSUME NEW e \in Entries, AcceptPush(e) PROVE main' \in Seq(Records) /\ staging' \in Seq(Records)
  BY <1>0, <1>2, FreshRecord, AppendFacts DEF AcceptPush
<1>3. ASSUME NEW e \in Entries, AcceptWithdraw(e) PROVE main' \in Seq(Records) /\ staging' \in Seq(Records)
  BY <1>0, <1>3, RemoveFirstFacts DEF AcceptWithdraw
<1>4. ASSUME NEW w \in Replicas, Pick(w) PROVE main' \in Seq(Records) /\ staging' \in Seq(Records)
  <2>1. PICK i \in 1..Len(main) : staging' = staging \/ staging' = Append(staging, main[i])
    BY <1>4 DEF Pick
  <2>2. main[i] \in Records
    BY <1>0
  <2>3. Append(staging, main[i]) \in Seq(Records)
    BY <1>0, <2>2, AppendFacts
  <2> QED BY <1>0, <1>4, <2>1, <2>3 DEF Pick
<1>5. ASSUME NEW w \in Replicas, Unqueue(w) PROVE main' \in Seq(Records) /\ staging' \in Seq(Records)
  BY <1>0, <1>5, RemoveFirstFacts DEF Unqueue
<1>6. ASSUME NEW w \in Replicas, Outcome(w) PROVE main' \in Seq(Records) /\ staging' \in Seq(Records)
  <2>1. CASE GoesOn(w)
    BY <1>0, <2>1 DEF GoesOn, Goto, queueVars
  <2>2. CASE Restores(w)
    BY <1>0, <2>2 DEF Restores, Restore, queueVars
  <2>3. CASE Confirms(w)
    BY <1>0, <2>3, WithoutFacts DEF Confirms, Complete, claimDelivered
  <2>4. CASE pc[w] = "verify" /\ Rewrites(w)
    <3>1. PICK r \in Records : Rewrite(w, r)
      BY <2>4 DEF Rewrites
    <3>2. work[w].idx \in Nat /\ work[w].idx > 0
      BY <2>4, WorkerFacts DEF Busy
    <3>3. CASE work[w].idx > Len(main)
      BY <1>0, <3>1, <3>3 DEF Rewrite
    <3>4. CASE ~(work[w].idx > Len(main))
      <4>1. work[w].idx \in 1..Len(main)
        BY <1>0, <3>2, <3>4
      <4>2. main' = [main EXCEPT ![work[w].idx] = r] /\ staging' = staging
        BY <3>1, <3>4, SMTT(30) DEF Rewrite, ReplaceAt
      <4> QED BY <1>0, <4>1, <4>2, ReplaceFacts
    <3> QED BY <3>3, <3>4
  <2> QED BY <1>6, <2>1, <2>2, <2>3, <2>4 DEF Outcome
<1>7. ASSUME NEW w \in Replicas, RestoreInsert(w) PROVE main' \in Seq(Records) /\ staging' \in Seq(Records)
  <2>1. work[w].new[1] \in Records /\ work[w].new \in Seq(Records)
    BY <1>7, WorkerFacts DEF RestoreInsert, Sending
  <2>2. \/ main' = Append(main, work[w].new[1]) \/ main' = work[w].new \o main
        \/ main' = InsertBefore(main, work[w].pivot[1], work[w].new[1])
    BY <1>7 DEF RestoreInsert
  <2> QED BY <1>0, <1>7, <2>1, <2>2, AppendFacts, ConcatFacts, InsertBeforeFacts DEF RestoreInsert
<1>8. ASSUME NEW w \in Replicas, RestoreDrop(w) PROVE main' \in Seq(Records) /\ staging' \in Seq(Records)
  BY <1>0, <1>8, RemoveFirstFacts DEF RestoreDrop
<1>9. ASSUME NEW w \in Replicas, Recover(w) PROVE main' \in Seq(Records) /\ staging' \in Seq(Records)
  <2>1. Reverse(Requeued) \in Seq(Records)
    BY RequeuedFacts, ReverseFacts
  <2>2. Reverse(Requeued) \o main \in Seq(Records) /\ <<>> \in Seq(Records)
    BY <1>0, <2>1, ConcatFacts
  <2> QED BY <1>0, <1>9, <2>2 DEF Recover, queueVars
<1>10. ASSUME NEW w \in Replicas, RecoverDies(w) PROVE main' \in Seq(Records) /\ staging' \in Seq(Records)
  <2>1. PICK n \in 1..Len(Requeued) : main' = Reverse(SubSeq(Requeued, 1, n)) \o main
    BY <1>10 DEF RecoverDies
  <2>2. SubSeq(Requeued, 1, n) \in Seq(Records)
    BY RequeuedFacts
  <2>3. Reverse(SubSeq(Requeued, 1, n)) \in Seq(Records)
    BY <2>2, ReverseFacts
  <2> QED BY <1>0, <1>10, <2>1, <2>3, ConcatFacts DEF RecoverDies
<1>11. ASSUME NEW e \in Entries, Dismiss(e) PROVE main' \in Seq(Records) /\ staging' \in Seq(Records)
  <2>1. PICK i \in 1..Len(main) : main' = RemoveAt(main, i)
    BY <1>11, DismissFacts
  <2> QED BY <1>0, <1>11, <2>1, RemoveAtFacts DEF Dismiss
<1>12. ASSUME NEW e \in Entries, Retry(e) PROVE main' \in Seq(Records) /\ staging' \in Seq(Records)
  BY <1>0, <1>12, RetryFacts DEF Retry, InPlace
<1>13. CASE SweepWorkspaceUnverifiable \/ ParkWorkspace \/ UnparkWorkspace
  BY <1>0, <1>13, WorkspaceRewrites DEF InPlace, SweepWorkspaceUnverifiable, ParkWorkspace, UnparkWorkspace
<1>14. CASE SweepParkedErrors
  <2>1. PICK done : SweptOf(done)
    BY <1>14, SweepFacts
  <2>2. Without(staging, done) \in Seq(Records)
    BY <1>0, WithoutFacts
  <2> QED BY <2>1, <2>2 DEF SweptOf, InPlace
<1> QED
  BY <1>1, <1>2, <1>3, <1>4, <1>5, <1>6, <1>7, <1>8, <1>9, <1>10, <1>11, <1>12, <1>13, <1>14
     DEF Changes, AcceptCheck, AcceptMark, Fire, Crash, LockExpires, PodStores, PodAdmits, PodFails,
         PodForgets, Archive

-----------------------------------------------------------------------------
(* The workers keep to the lock. *)

WorkersFit(l, p, x) ==
    /\ l \in Replicas \cup {Free, Stale}
    /\ p \in [Replicas -> Places]
    /\ x \in [Replicas -> Works]
    /\ \A w \in Replicas :
          /\ p[w] \in Busy => l = w /\ x[w].idx > 0 /\ Len(x[w].was) = 1
          /\ p[w] \in Sending \cup {"drop"} =>
                Len(x[w].new) = 1 /\ x[w].new[1].id = x[w].was[1].id
          /\ p[w] = "insert" => x[w].pivot = <<>> \/ Len(x[w].pivot) = 1

(* One worker moves; no other is busy, or the lock stays. *)
LEMMA OneMoves ==
    ASSUME WorkersFit(lock, pc, work), NEW w \in Replicas, NEW l \in Replicas \cup {Free, Stale},
           NEW p \in Places, NEW x \in Works,
           (lock \in {Free, Stale, w}) \/ l = lock,
           p \in Busy => l = w /\ x.idx > 0 /\ Len(x.was) = 1,
           p \in Sending \cup {"drop"} => Len(x.new) = 1 /\ x.new[1].id = x.was[1].id,
           p = "insert" => x.pivot = <<>> \/ Len(x.pivot) = 1
    PROVE  WorkersFit(l, [pc EXCEPT ![w] = p], [work EXCEPT ![w] = x])
<1> DEFINE P == [pc EXCEPT ![w] = p]
           X == [work EXCEPT ![w] = x]
<1>1. P \in [Replicas -> Places] /\ X \in [Replicas -> Works]
  BY DEF WorkersFit
<1>2. ASSUME NEW u \in Replicas
      PROVE  /\ P[u] \in Busy => l = u /\ X[u].idx > 0 /\ Len(X[u].was) = 1
             /\ P[u] \in Sending \cup {"drop"} => Len(X[u].new) = 1 /\ X[u].new[1].id = X[u].was[1].id
             /\ P[u] = "insert" => X[u].pivot = <<>> \/ Len(X[u].pivot) = 1
  <2>1. CASE u = w
    <3>1. P[u] = p /\ X[u] = x
      BY <2>1 DEF WorkersFit
    <3> HIDE DEF P, X
    <3> QED BY <2>1, <3>1
  <2>2. CASE u # w
    <3>1. P[u] = pc[u] /\ X[u] = work[u]
      BY <2>2 DEF WorkersFit
    <3>2. pc[u] \in Busy => lock = u /\ l = lock
      <4>1. u # Free /\ u # Stale
        BY OutboxAssumption
      <4> QED BY <2>2, <4>1 DEF WorkersFit
    <3> HIDE DEF P, X
    <3> QED BY <3>1, <3>2 DEF WorkersFit
  <2> QED BY <2>1, <2>2
<1> QED BY <1>1, <1>2 DEF WorkersFit

LEMMA NoWorkFacts == NoWork \in Works
<1>1. <<>> \in Seq(Records)
  OBVIOUS
<1> QED BY <1>1 DEF NoWork, Works

LEMMA ReleaseFits ==
    ASSUME WorkersFit(lock, pc, work), NEW w \in Replicas, Release(w)
    PROVE  WorkersFit(lock', pc', work')
<1> DEFINE l == IF lock = w THEN Free ELSE lock
<1>1. lock' = l /\ pc' = [pc EXCEPT ![w] = "idle"] /\ work' = [work EXCEPT ![w] = NoWork]
  BY DEF Release
<1>2. l \in Replicas \cup {Free, Stale} /\ ((lock \in {Free, Stale, w}) \/ l = lock)
  BY DEF WorkersFit
<1>3. "idle" \in Places /\ "idle" \notin Busy /\ "idle" \notin Sending \cup {"drop"} /\ "idle" # "insert"
  BY DEF Places, Busy, Staged, Sending
<1> HIDE DEF l
<1> QED BY <1>1, <1>2, <1>3, NoWorkFacts, OneMoves

LEMMA FitIsInv == WorkInv => WorkersFit(lock, pc, work)
BY DEF WorkInv, OutboxTypes, WorkerHolds, WorkersFit

LEMMA WorkersTyped ==
    ASSUME WorkInv, Changes
    PROVE  WorkersFit(lock', pc', work')
<1>0. main \in Seq(Records) /\ WorkersFit(lock, pc, work)
  BY FitIsInv DEF WorkInv, OutboxTypes
<1>a. pc \in [Replicas -> Places] /\ work \in [Replicas -> Works]
      /\ lock \in Replicas \cup {Free, Stale}
  BY DEF WorkInv, OutboxTypes
<1>1. CASE UNCHANGED workVars
  BY <1>0, <1>1 DEF workVars
<1>2. ASSUME NEW w \in Replicas, Pick(w) PROVE WorkersFit(lock', pc', work')
  <2>1. PICK i \in 1..Len(main) :
           /\ work' = [work EXCEPT ![w] = [NoWork EXCEPT !.idx = i, !.was = <<main[i]>>]]
           /\ \/ pc' = [pc EXCEPT ![w] = "verify"]
              \/ pc' = [pc EXCEPT ![w] = "staged"]
    BY <1>2 DEF Pick
  <2> DEFINE x == [NoWork EXCEPT !.idx = i, !.was = <<main[i]>>]
  <2>2. x \in Works /\ x.idx > 0 /\ Len(x.was) = 1
    <3>1. <<main[i]>> \in Seq(Records) /\ Len(<<main[i]>>) = 1
      BY <1>0
    <3>2. <<>> \in Seq(Records) /\ i \in Nat /\ i > 0
      BY <1>0
    <3> QED BY <3>1, <3>2 DEF NoWork, Works
  <2>3. lock' = w /\ lock = Free
    BY <1>2 DEF Pick, LockFree
  <2>4. PICK p \in {"verify", "staged"} : pc' = [pc EXCEPT ![w] = p]
    BY <2>1
  <2>5. p \in Places /\ p \notin Sending \cup {"drop"} /\ p # "insert"
    BY DEF Places, Sending
  <2> HIDE DEF x
  <2> QED BY <1>0, <2>1, <2>2, <2>3, <2>4, <2>5, OneMoves DEF x
<1>3. ASSUME NEW w \in Replicas, Unqueue(w) PROVE WorkersFit(lock', pc', work')
  <2> DEFINE v == work[w].was[1]
             r == [v EXCEPT !.sent = (v.sent % Stamps) + 1]
             x == [work[w] EXCEPT !.new = <<r>>]
  <2>1. /\ lock = w /\ work[w] \in Works /\ work[w].idx > 0
        /\ Len(work[w].was) = 1 /\ v \in Records
    BY <1>3, WorkerFacts DEF Unqueue, Busy, Staged
  <2>2. r \in Records /\ r.id = v.id
    <3>1. v.sent \in Nat
      BY <2>1 DEF Records
    <3>2. (v.sent % Stamps) + 1 \in Nat
      BY <3>1, OutboxAssumption
    <3> QED BY <2>1, <3>2 DEF Records
  <2>3. lock' = lock /\ pc' = [pc EXCEPT ![w] = "send"] /\ work' = [work EXCEPT ![w] = x]
    BY <1>3 DEF Unqueue
  <2> HIDE DEF r, v
  <2>4. /\ x \in Works /\ x.idx = work[w].idx /\ x.was = work[w].was
        /\ Len(x.new) = 1 /\ x.new[1] = r
    <3>1. <<r>> \in Seq(Records) /\ Len(<<r>>) = 1 /\ <<r>>[1] = r
      BY <2>2
    <3> QED BY <2>1, <3>1 DEF Works
  <2> HIDE DEF x
  <2>5. "send" \in Places /\ "send" # "insert"
    BY DEF Places
  <2>6. x.new[1].id = x.was[1].id
    BY <2>2, <2>4 DEF v
  <2> QED BY <1>0, <1>a, <2>1, <2>3, <2>4, <2>5, <2>6, OneMoves
<1>4. ASSUME NEW w \in Replicas, Outcome(w) PROVE WorkersFit(lock', pc', work')
  <2>1. CASE pc[w] \in Asking /\ GoesOn(w)
    <3>1. PICK p \in Asking : Goto(w, p)
      BY <2>1 DEF GoesOn
    <3>2. lock' = lock /\ pc' = [pc EXCEPT ![w] = p] /\ work' = [work EXCEPT ![w] = work[w]]
      BY <1>a, <3>1 DEF Goto
    <3>3. pc[w] \in Busy /\ pc[w] \in Sending /\ p \in Places /\ p \in Busy /\ p \in Sending /\ p # "insert"
      BY <2>1 DEF Asking, Sending, Places, Busy, Staged
    <3>4. /\ work[w] \in Works /\ lock = w /\ work[w].idx > 0 /\ Len(work[w].was) = 1
          /\ Len(work[w].new) = 1 /\ work[w].new[1].id = work[w].was[1].id
      BY <3>3, WorkerFacts
    <3> QED BY <1>0, <1>a, <3>2, <3>3, <3>4, OneMoves
  <2>2. CASE pc[w] \in Asking /\ Restores(w)
    <3>1. PICK r \in Records : r.id = work[w].was[1].id /\ Restore(w, r)
      BY <2>2 DEF Restores
    <3>2. pc[w] \in Busy
      BY <2>2 DEF Asking, Sending, Busy, Staged
    <3>3. /\ work[w] \in Works /\ lock = w /\ work[w].idx \in Nat /\ work[w].idx > 0
          /\ Len(work[w].was) = 1
      BY <3>2, WorkerFacts
    <3> DEFINE pv == IF work[w].idx > Len(main) THEN <<>> ELSE <<main[work[w].idx]>>
               x == [work[w] EXCEPT !.new = <<r>>, !.pivot = pv]
    <3>4. pv \in Seq(Records) /\ (pv = <<>> \/ Len(pv) = 1)
      <4>1. CASE work[w].idx > Len(main)
        BY <4>1
      <4>2. CASE ~(work[w].idx > Len(main))
        <5>1. work[w].idx \in 1..Len(main)
          BY <1>0, <3>3, <4>2
        <5>2. main[work[w].idx] \in Records
          BY <1>0, <5>1
        <5> QED BY <4>2, <5>2
      <4> QED BY <4>1, <4>2
    <3>5. lock' = lock /\ pc' = [pc EXCEPT ![w] = "insert"] /\ work' = [work EXCEPT ![w] = x]
      BY <1>a, <3>1 DEF Restore
    <3> HIDE DEF pv
    <3>6. <<r>> \in Seq(Records) /\ Len(<<r>>) = 1 /\ <<r>>[1] = r
      OBVIOUS
    <3>7. /\ x \in Works /\ x.idx = work[w].idx /\ x.was = work[w].was
          /\ x.new = <<r>> /\ x.pivot = pv
      BY <3>3, <3>4, <3>6 DEF Works
    <3> HIDE DEF x
    <3>8. "insert" \in Places
      BY DEF Places
    <3> QED BY <1>0, <1>a, <3>1, <3>3, <3>4, <3>5, <3>6, <3>7, <3>8, OneMoves
  <2>3. CASE pc[w] \in Asking \cup {"verify"} /\ Confirms(w)
    <3>1. CASE Release(w)
      BY <1>0, <3>1, ReleaseFits
    <3>2. CASE pc' = [pc EXCEPT ![w] = "fire"] /\ UNCHANGED <<lock, work>>
      <4>1. pc[w] \in Busy /\ "fire" \in Places /\ "fire" \notin Sending \cup {"drop"} /\ "fire" # "insert"
        BY <2>3 DEF Asking, Sending, Busy, Staged, Places
      <4>2. work[w] \in Works /\ lock = w /\ work[w].idx > 0 /\ Len(work[w].was) = 1
        BY <4>1, WorkerFacts
      <4>3. lock' = lock /\ pc' = [pc EXCEPT ![w] = "fire"] /\ work' = [work EXCEPT ![w] = work[w]]
        BY <1>a, <3>2
      <4> QED BY <1>0, <1>a, <4>1, <4>2, <4>3, OneMoves
    <3> QED BY <2>3, <3>1, <3>2 DEF Confirms, Complete
  <2>4. CASE Rewrites(w)
    BY <1>0, <2>4, ReleaseFits DEF Rewrites, Rewrite
  <2> QED BY <1>4, <2>1, <2>2, <2>3, <2>4 DEF Outcome
<1>5. ASSUME NEW w \in Replicas, RestoreInsert(w) PROVE WorkersFit(lock', pc', work')
  <2>1. pc[w] \in Busy /\ pc[w] \in Sending /\ "drop" \in Places /\ "drop" # "insert"
    BY <1>5 DEF RestoreInsert, Sending, Busy, Staged, Places
  <2>2. /\ work[w] \in Works /\ lock = w /\ work[w].idx > 0 /\ Len(work[w].was) = 1
        /\ Len(work[w].new) = 1 /\ work[w].new[1].id = work[w].was[1].id
    BY <2>1, WorkerFacts
  <2>3. lock' = lock /\ pc' = [pc EXCEPT ![w] = "drop"] /\ work' = [work EXCEPT ![w] = work[w]]
    BY <1>5, <1>a DEF RestoreInsert
  <2> QED BY <1>0, <1>a, <2>1, <2>2, <2>3, OneMoves
<1>6. ASSUME NEW w \in Replicas, RestoreDrop(w) \/ Fire(w) PROVE WorkersFit(lock', pc', work')
  BY <1>0, <1>6, ReleaseFits DEF RestoreDrop, Fire
<1>7. ASSUME NEW w \in Replicas, Recover(w) PROVE WorkersFit(lock', pc', work')
  <2>1. "idle" \in Places /\ "idle" \notin Busy /\ "idle" \notin Sending \cup {"drop"} /\ "idle" # "insert"
    BY DEF Places, Busy, Staged, Sending
  <2>2. work[w] \in Works /\ lock' = lock /\ pc' = [pc EXCEPT ![w] = "idle"]
        /\ work' = [work EXCEPT ![w] = work[w]]
    BY <1>7, <1>a DEF Recover
  <2> QED BY <1>0, <1>a, <2>1, <2>2, OneMoves
<1>8. ASSUME NEW w \in Replicas, Crash(w) PROVE WorkersFit(lock', pc', work')
  <2> DEFINE l == IF lock = w THEN Stale ELSE lock
  <2>1. "down" \in Places /\ "down" \notin Busy /\ "down" \notin Sending \cup {"drop"} /\ "down" # "insert"
    BY DEF Places, Busy, Staged, Sending
  <2>2. lock' = l /\ pc' = [pc EXCEPT ![w] = "down"] /\ work' = [work EXCEPT ![w] = NoWork]
    BY <1>8 DEF Crash
  <2>3. l \in Replicas \cup {Free, Stale} /\ ((lock \in {Free, Stale, w}) \/ l = lock)
    BY <1>a
  <2> HIDE DEF l
  <2> QED BY <1>0, <2>1, <2>2, <2>3, NoWorkFacts, OneMoves
<1>9. CASE lock \in {Free, Stale} /\ lock' \in {Free, Stale} /\ UNCHANGED <<pc, work>>
  <2>1. \A u \in Replicas : pc[u] \notin Busy
    BY <1>0, <1>9, OutboxAssumption DEF WorkersFit
  <2> QED BY <1>0, <1>9, <2>1 DEF WorkersFit
<1>10. ASSUME NEW w \in Replicas, RecoverDies(w) PROVE WorkersFit(lock', pc', work')
  BY <1>9, <1>10 DEF RecoverDies, LockFree
<1>11. CASE LockExpires
  BY <1>9, <1>11 DEF LockExpires
<1> QED
  BY <1>1, <1>2, <1>3, <1>4, <1>5, <1>6, <1>7, <1>8, <1>10, <1>11
     DEF Changes, AcceptCheck, AcceptPush, AcceptMark, AcceptWithdraw, Dismiss, Retry, PodStores,
         PodAdmits, PodFails, PodForgets, SweepWorkspaceUnverifiable, SweepParkedErrors,
         ParkWorkspace, UnparkWorkspace, Archive

-----------------------------------------------------------------------------
LEMMA ElementsFinite ==
    ASSUME NEW s \in Seq(Records)
    PROVE  IsFiniteSet(ToSet(s))
<1>1. IsFiniteSet(1..Len(s)) /\ DOMAIN s = 1..Len(s)
  BY FS_Interval
<1>2. s \in Surjection(1..Len(s), ToSet(s))
  BY <1>1, SMTT(30) DEF Surjection, ToSet
<1> QED BY <1>1, <1>2, FS_Surjection

LEMMA HooksTyped ==
    ASSUME WorkInv, Changes
    PROVE  hooks' \in [Entries -> Nat]
<1>0. hooks \in [Entries -> Nat] /\ main \in Seq(Records)
  BY DEF WorkInv, OutboxTypes
<1>1. CASE UNCHANGED hooks
  BY <1>0, <1>1
<1>2. ASSUME NEW w \in Replicas, Fire(w) PROVE hooks' \in [Entries -> Nat]
  <2>1. work[w].was[1].id \in Entries
    BY <1>2, WorkerFacts DEF Fire, Busy, Records
  <2> QED BY <1>0, <1>2, <2>1 DEF Fire
<1>3. CASE SweepParkedErrors
  <2>1. PICK done : SweptOf(done)
    BY <1>3, SweepFacts
  <2>2. ASSUME NEW e \in Entries PROVE Cardinality({r \in done : r.id = e}) \in Nat
    <3>1. {r \in done : r.id = e} \subseteq ToSet(main)
      BY <2>1 DEF SweptOf
    <3>2. IsFiniteSet({r \in done : r.id = e})
      BY <1>0, <3>1, ElementsFinite, FS_Subset, SMTT(30)
    <3> QED BY <3>2, FS_CardinalityType
  <2> QED BY <1>0, <2>1, <2>2 DEF SweptOf
<1> QED
  BY <1>1, <1>2, <1>3
     DEF Changes, AcceptCheck, AcceptPush, AcceptMark, AcceptWithdraw, Pick, Unqueue, Outcome,
         RestoreInsert, RestoreDrop, Recover, RecoverDies, Crash, LockExpires, Dismiss, Retry,
         PodStores, PodAdmits, PodFails, PodForgets, SweepWorkspaceUnverifiable,
         ParkWorkspace, UnparkWorkspace, Archive, history

(* A row completes only after the harness stores the message, which stays  *)
(* stored.                                                                 *)
LEMMA PodTyped ==
    ASSUME WorkInv, Changes
    PROVE  /\ row' \in [Entries \X (1..MaxRows) -> Contract!RowStates]
           /\ transcript' \subseteq Entries /\ transcript \subseteq transcript'
           /\ DoneIsStored'
<1> DEFINE K == Entries \X (1..MaxRows)
<1>0. row \in [K -> Contract!RowStates] /\ transcript \subseteq Entries
      /\ \A k \in K : row[k] = "done" => k[1] \in transcript
  BY DEF WorkInv, OutboxTypes, DoneIsStored
<1>1. ASSUME row' \in [K -> Contract!RowStates], transcript' \subseteq Entries,
             transcript \subseteq transcript',
             \A k \in K : row'[k] = "done" => row[k] = "done" \/ k[1] \in transcript'
      PROVE  /\ row' \in [Entries \X (1..MaxRows) -> Contract!RowStates]
             /\ transcript' \subseteq Entries /\ transcript \subseteq transcript'
             /\ DoneIsStored'
  BY <1>0, <1>1 DEF DoneIsStored
<1>2. CASE UNCHANGED podVars
  BY <1>0, <1>1, <1>2 DEF podVars
<1>3. ASSUME NEW w \in Replicas, Outcome(w) PROVE row' \in [K -> Contract!RowStates] /\ transcript' \subseteq Entries
                 /\ transcript \subseteq transcript' /\ DoneIsStored'
  BY <1>0, <1>1, <1>3 DEF Outcome
<1>4. ASSUME NEW e \in Entries, PodStores(e) PROVE row' \in [K -> Contract!RowStates] /\ transcript' \subseteq Entries
                 /\ transcript \subseteq transcript' /\ DoneIsStored'
  BY <1>0, <1>1, <1>4 DEF PodStores
<1>5. ASSUME NEW k \in K, PodAdmits(k) \/ PodFails(k) \/ PodForgets(k) PROVE row' \in [K -> Contract!RowStates] /\ transcript' \subseteq Entries
                 /\ transcript \subseteq transcript' /\ DoneIsStored'
  <2>1. PICK s \in Contract!RowStates :
           row' = [row EXCEPT ![k] = s] /\ transcript' = transcript /\ (s = "done" => k[1] \in transcript)
    BY <1>5, SMTT(30) DEF PodAdmits, PodFails, PodForgets, Contract!RowStates
  <2> QED BY <1>0, <1>1, <2>1
<1> QED
  BY <1>2, <1>3, <1>4, <1>5
     DEF Changes, AcceptCheck, AcceptPush, AcceptMark, AcceptWithdraw, Pick, Unqueue, Fire,
         RestoreInsert, RestoreDrop, Recover, RecoverDies, Crash, LockExpires, Dismiss, Retry,
         SweepWorkspaceUnverifiable, SweepParkedErrors, ParkWorkspace, UnparkWorkspace, Archive

LEMMA AcceptTyped ==
    ASSUME WorkInv, Changes
    PROVE  /\ accept' \in [Entries -> {"new", "checked", "pushed", "lost", "accepted",
                                       "duplicate", "capped"}]
           /\ marker' \in [Messages -> Entries \cup {NoEntry}]
           /\ crashes' \in 0..MaxCrashes
<1> DEFINE A == {"new", "checked", "pushed", "lost", "accepted", "duplicate", "capped"}
<1>0. /\ accept \in [Entries -> A] /\ marker \in [Messages -> Entries \cup {NoEntry}]
      /\ crashes \in 0..MaxCrashes /\ MaxCrashes \in Nat
  BY OutboxAssumption DEF WorkInv, OutboxTypes
<1>1. CASE UNCHANGED <<acceptVars, crashes>>
  BY <1>0, <1>1 DEF acceptVars
<1>2. CASE UNCHANGED acceptVars /\ crashes < MaxCrashes /\ crashes' = crashes + 1
  BY <1>0, <1>2 DEF acceptVars
<1>3. ASSUME NEW e \in Entries,
             AcceptCheck(e) \/ AcceptPush(e) \/ AcceptMark(e) \/ AcceptWithdraw(e)
      PROVE  /\ accept' \in [Entries -> A] /\ marker' \in [Messages -> Entries \cup {NoEntry}]
             /\ crashes' \in 0..MaxCrashes
  <2>1. PICK a \in A : accept' = [accept EXCEPT ![e] = a]
    BY <1>3 DEF AcceptCheck, AcceptPush, AcceptMark, AcceptWithdraw
  <2>2. marker' = marker \/ marker' = [marker EXCEPT ![Message(e)] = e]
    BY <1>3 DEF AcceptCheck, AcceptPush, AcceptMark, AcceptWithdraw
  <2>3. crashes' = crashes
    BY <1>3 DEF AcceptCheck, AcceptPush, AcceptMark, AcceptWithdraw
  <2> QED BY <1>0, <2>1, <2>2, <2>3
<1> QED
  BY <1>1, <1>2, <1>3
     DEF Changes, Pick, Unqueue, Outcome, Fire,
         RestoreInsert, RestoreDrop, Recover, RecoverDies, Crash, LockExpires, Dismiss, Retry,
         PodStores, PodAdmits, PodFails, PodForgets, SweepWorkspaceUnverifiable,
         SweepParkedErrors, ParkWorkspace, UnparkWorkspace, Archive

LEMMA WorkInvStep ==
    ASSUME WorkInv, [Next]_vars
    PROVE  WorkInv'
<1>1. CASE Next
  <2>1. Changes
    BY <1>1, NextChanges
  <2>2. WorkersFit(lock', pc', work')
    BY <2>1, WorkersTyped
  <2>3. /\ lock' \in Replicas \cup {Free, Stale} /\ pc' \in [Replicas -> Places]
        /\ work' \in [Replicas -> Works] /\ WorkerHolds'
    BY <2>2 DEF WorkersFit, WorkerHolds
  <2> QED BY <2>1, <2>3, ListsTyped, HooksTyped, PodTyped, AcceptTyped DEF WorkInv, OutboxTypes
<1>2. CASE UNCHANGED vars
  BY <1>2 DEF vars, acceptVars, queueVars, workVars, podVars, history, WorkInv, OutboxTypes,
     WorkerHolds, DoneIsStored
<1> QED BY <1>1, <1>2

LEMMA WorkInvInit ==
    ASSUME Init
    PROVE  WorkInv
<1>1. <<>> \in Seq(Records) /\ NoWork \in Works
  BY NoWorkFacts
<1>2. "down" \in Places /\ "down" \notin Busy /\ "down" \notin Sending \cup {"drop"} /\ "down" # "insert"
  BY DEF Places, Busy, Staged, Sending
<1>3. OutboxTypes
  BY <1>1, <1>2, OutboxAssumption DEF Init, OutboxTypes, Contract!Init, Contract!RowStates
<1>4. WorkerHolds
  BY <1>2 DEF Init, WorkerHolds
<1>5. DoneIsStored
  BY DEF Init, DoneIsStored, Contract!Init
<1> QED BY <1>3, <1>4, <1>5 DEF WorkInv

(* Whoever claims an entry has seen its message stored. *)
LEMMA StoredStep ==
    ASSUME WorkInv, CompletedIsStored, [Next]_vars
    PROVE  CompletedIsStored'
<1>1. CASE Next
  <2>1. Changes
    BY <1>1, NextChanges
  <2>2. transcript \subseteq transcript'
    BY <2>1, PodTyped, SMTT(30)
  <2>3. claimed' \subseteq transcript
    <3>1. CASE UNCHANGED claimed
      BY <3>1 DEF CompletedIsStored
    <3>2. ASSUME NEW w \in Replicas, Outcome(w) PROVE claimed' \subseteq transcript
      <4>1. CASE GoesOn(w) \/ Restores(w) \/ Rewrites(w)
        BY <3>1, <4>1 DEF GoesOn, Restores, Rewrites, Goto, Restore, Rewrite
      <4>2. CASE Confirms(w)
        BY <4>2 DEF Confirms, Complete, CompletedIsStored
      <4> QED BY <3>2, <4>1, <4>2 DEF Outcome
    <3>3. CASE SweepParkedErrors
      <4>1. PICK done : SweptOf(done)
        BY <3>3, SweepFacts
      <4>2. ASSUME NEW r \in done PROVE r.id \in transcript
        <5>1. r \in Records
          <6>1. main \in Seq(Records)
            BY DEF WorkInv, OutboxTypes
          <6> QED BY <4>1, <6>1, MemberFacts DEF SweptOf
        <5>2. r.id \in Entries /\ r.attempts \in Nat /\ r.attempts + 1 \in Nat
          BY <5>1 DEF Records
        <5>3. Row(r.id, r.attempts) = "done" \/ Row(r.id, r.attempts + 1) = "done"
          BY <4>1, <4>2 DEF SweptOf, Completes
        <5> QED BY <5>2, <5>3, DoneRow
      <4> QED BY <4>1, <4>2 DEF SweptOf, CompletedIsStored
    <3> QED
      BY <2>1, <3>1, <3>2, <3>3
         DEF Changes, AcceptCheck, AcceptPush, AcceptMark, AcceptWithdraw, Pick, Unqueue, Fire,
             RestoreInsert, RestoreDrop, Recover, RecoverDies, Crash, LockExpires, Dismiss, Retry,
             PodStores, PodAdmits, PodFails, PodForgets, SweepWorkspaceUnverifiable,
             ParkWorkspace, UnparkWorkspace, Archive, history
  <2> QED BY <2>2, <2>3 DEF CompletedIsStored
<1>2. CASE UNCHANGED vars
  BY <1>2 DEF vars, podVars, history, CompletedIsStored
<1> QED BY <1>1, <1>2

(* At every moment the lists hold well-formed copies, a busy worker holds  *)
(* the session's lock with the entry it picked, and a completed row is one *)
(* whose message the harness stores.                                       *)
THEOREM OutboxTypesHold == Spec => []WorkInv
<1>1. Init => WorkInv
  BY WorkInvInit
<1>2. WorkInv /\ [Next]_vars => WorkInv'
  BY WorkInvStep
<1> QED BY <1>1, <1>2, PTL DEF Spec

(* Every entry that a claim removes as delivered, by whichever of the five *)
(* paths of deliverOne, verifyOne and the parked-error sweep, is one whose *)
(* message the harness stores.                                             *)
THEOREM ConfirmedIsStored == Spec => []CompletedIsStored
<1>1. Init => WorkInv /\ CompletedIsStored
  BY WorkInvInit DEF Init, CompletedIsStored
<1>2. (WorkInv /\ CompletedIsStored) /\ [Next]_vars => (WorkInv /\ CompletedIsStored)'
  BY WorkInvStep, StoredStep
<1> QED BY <1>1, <1>2, PTL DEF Spec

-----------------------------------------------------------------------------
(* While no replica dies. *)

LEMMA EmptyList ==
    ASSUME NEW T, NEW s \in Seq(T), ToSet(s) = {}
    PROVE  s = <<>>
<1>1. Len(s) \in Nat /\ \A i \in 1..Len(s) : FALSE
  BY MemberFacts
<1>2. Len(s) = 0
  BY <1>1
<1> QED BY <1>2

LEMMA OthersIdle ==
    ASSUME WorkInv, NEW u \in Replicas, lock # u
    PROVE  pc[u] \notin Busy
BY WorkerFacts

LEMMA NothingStaged ==
    ASSUME WorkInv, StagedIsWork, lock = Free
    PROVE  staging = <<>>
BY OutboxAssumption DEF StagedIsWork

(* What a worker that is not delivering leaves of the staging list.        *)
LEMMA StagedGone ==
    ASSUME WorkInv, StagedIsWork, NEW w \in Replicas, pc[w] \in Busy
    PROVE  /\ lock = w
           /\ staging = <<>> \/ (pc[w] \in Staged /\ staging = <<work[w].was[1]>>)
           /\ Without(staging, {work[w].was[1]}) = <<>>
           /\ RemoveFirst(staging, work[w].was[1]) = <<>>
<1> DEFINE v == work[w].was[1]
<1>1. lock = w /\ work[w].was = <<v>> /\ v \in Records
  BY WorkerFacts
<1>2. staging = <<>> \/ (pc[w] \in Staged /\ staging = <<v>>)
  BY <1>1 DEF StagedIsWork
<1> HIDE DEF v
<1>3. staging \in Seq(Records) /\ ToSet(staging) \subseteq {v}
  <2>1. CASE staging = <<>>
    BY <2>1 DEF ToSet
  <2>2. CASE staging = <<v>>
    BY <1>1, <2>2, SingletonFacts
  <2> QED BY <1>2, <2>1, <2>2
<1>4. Without(staging, {v}) = <<>>
  <2>1. Without(staging, {v}) \in Seq(Records) /\ ToSet(Without(staging, {v})) = {}
    BY <1>3, WithoutFacts
  <2> QED BY <2>1, EmptyList
<1>5. RemoveFirst(staging, v) = <<>>
  <2> DEFINE t == RemoveFirst(staging, v)
  <2>1. /\ t \in Seq(Records)
        /\ (v \notin ToSet(staging) /\ t = staging)
           \/ \E i \in 1..Len(staging) : t = RemoveAt(staging, i)
    BY <1>3, RemoveFirstFacts
  <2>2. CASE v \notin ToSet(staging) /\ t = staging
    <3>1. ToSet(t) = {}
      BY <1>3, <2>2
    <3> QED BY <2>1, <3>1, EmptyList
  <2>3. CASE \E i \in 1..Len(staging) : t = RemoveAt(staging, i)
    <3>1. PICK i \in 1..Len(staging) : t = RemoveAt(staging, i)
      BY <2>3
    <3>2. Len(t) = Len(staging) - 1
      BY <1>3, <3>1, RemoveAtFacts
    <3>3. Len(staging) = 1
      BY <1>2, <3>1
    <3> HIDE DEF t
    <3>4. Len(t) = 0
      BY <3>2, <3>3
    <3>5. t = <<>>
      BY <2>1, <3>4
    <3> QED BY <3>5 DEF t
  <2> QED BY <2>1, <2>2, <2>3
<1> QED BY <1>1, <1>2, <1>4, <1>5 DEF v

LEMMA StagedStep ==
    ASSUME WorkInv, StagedIsWork, MaxCrashes = 0, Changes
    PROVE  StagedIsWork'
<1>0. /\ pc \in [Replicas -> Places] /\ work \in [Replicas -> Works] /\ crashes = 0
      /\ Free \notin Replicas /\ Stale \notin Replicas /\ Free # Stale
  BY OutboxAssumption DEF WorkInv, OutboxTypes, Free, Stale
<1>1. CASE UNCHANGED <<staging, workVars>>
  BY <1>1 DEF workVars, StagedIsWork
<1>2. ASSUME NEW w \in Replicas, Pick(w) PROVE StagedIsWork'
  <2>1. staging = <<>> /\ lock' = w
    BY <1>2, NothingStaged DEF Pick, LockFree
  <2>2. PICK i \in 1..Len(main) :
           /\ work' = [work EXCEPT ![w] = [NoWork EXCEPT !.idx = i, !.was = <<main[i]>>]]
           /\ \/ pc' = [pc EXCEPT ![w] = "verify"] /\ staging' = staging
              \/ pc' = [pc EXCEPT ![w] = "staged"] /\ staging' = Append(staging, main[i])
    BY <1>2 DEF Pick
  <2>3. work'[w].was = <<main[i]>>
    BY <1>0, <2>2 DEF NoWork
  <2>4. \/ pc'[w] = "verify" /\ staging' = <<>>
        \/ pc'[w] = "staged" /\ staging' = <<main[i]>>
    BY <1>0, <2>1, <2>2
  <2> QED BY <1>0, <2>1, <2>3, <2>4 DEF StagedIsWork, Busy, Staged
<1>3. ASSUME NEW w \in Replicas, pc[w] \in Staged, pc'[w] \in Staged, lock' = lock,
             staging' = staging, work'[w].was = work[w].was
      PROVE  StagedIsWork'
  <2>1. lock = w
    BY <1>3, WorkerFacts DEF Busy
  <2> QED BY <1>0, <1>3, <2>1 DEF StagedIsWork, Busy
<1>4. ASSUME NEW w \in Replicas, Unqueue(w) PROVE StagedIsWork'
  <2>1. pc'[w] = "send" /\ work'[w].was = work[w].was
    BY <1>0, <1>4 DEF Unqueue, Works
  <2> QED BY <1>3, <1>4, <2>1 DEF Unqueue, Staged, Sending
<1>5. ASSUME NEW w \in Replicas, pc[w] \in Busy, Release(w), staging' = <<>> PROVE StagedIsWork'
  <2>1. lock' = Free
    BY <1>5, WorkerFacts DEF Release
  <2> QED BY <1>0, <1>5, <2>1 DEF StagedIsWork
<1>6. ASSUME NEW w \in Replicas, Outcome(w) PROVE StagedIsWork'
  <2>1. CASE pc[w] \in Asking /\ GoesOn(w)
    <3>1. pc'[w] \in Asking /\ lock' = lock /\ staging' = staging /\ work' = work
      BY <1>0, <2>1 DEF GoesOn, Goto, queueVars
    <3> QED BY <1>3, <2>1, <3>1 DEF Asking, Staged, Sending
  <2>2. CASE pc[w] \in Asking /\ Restores(w)
    <3>1. pc'[w] = "insert" /\ lock' = lock /\ staging' = staging /\ work'[w].was = work[w].was
      BY <1>0, <2>2 DEF Restores, Restore, queueVars, Works
    <3> QED BY <1>3, <2>2, <3>1 DEF Asking, Staged, Sending
  <2>3. CASE pc[w] \in Asking \cup {"verify"} /\ Confirms(w)
    <3>1. pc[w] \in Busy
      BY <2>3 DEF Asking, Busy, Staged, Sending
    <3>2. staging' = <<>> /\ lock = w
      BY <2>3, <3>1, StagedGone DEF Confirms, Complete, claimDelivered
    <3>3. CASE pc' = [pc EXCEPT ![w] = "fire"] /\ UNCHANGED <<lock, work>>
      <4>1. pc'[w] = "fire"
        BY <1>0, <3>3
      <4> QED BY <1>0, <3>2, <3>3, <4>1 DEF StagedIsWork, Busy
    <3>4. CASE Release(w)
      BY <1>5, <3>1, <3>2, <3>4
    <3> QED BY <2>3, <3>3, <3>4 DEF Confirms, Complete
  <2>4. CASE pc[w] = "verify" /\ Rewrites(w)
    <3>1. pc[w] \in Busy /\ pc[w] \notin Staged
      BY <2>4 DEF Busy, Staged, Sending
    <3>2. staging = <<>>
      BY <3>1, StagedGone
    <3> QED BY <1>5, <2>4, <3>1, <3>2 DEF Rewrites, Rewrite
  <2> QED BY <1>6, <2>1, <2>2, <2>3, <2>4 DEF Outcome
<1>7. ASSUME NEW w \in Replicas, RestoreInsert(w) PROVE StagedIsWork'
  <2>1. pc'[w] = "drop"
    BY <1>0, <1>7 DEF RestoreInsert
  <2> QED BY <1>3, <1>7, <2>1 DEF RestoreInsert, Staged, Sending
<1>8. ASSUME NEW w \in Replicas, RestoreDrop(w) PROVE StagedIsWork'
  <2>1. pc[w] \in Busy
    BY <1>8 DEF RestoreDrop, Busy, Staged
  <2> QED BY <1>5, <1>8, <2>1, StagedGone DEF RestoreDrop
<1>9. ASSUME NEW w \in Replicas, Fire(w) PROVE StagedIsWork'
  <2>1. pc[w] \in Busy /\ pc[w] \notin Staged
    BY <1>9 DEF Fire, Busy, Staged, Sending
  <2> QED BY <1>5, <1>9, <2>1, StagedGone DEF Fire, queueVars
<1>10. ASSUME NEW w \in Replicas, Recover(w) PROVE StagedIsWork'
  <2>1. pc[w] = "down" /\ pc' = [pc EXCEPT ![w] = "idle"] /\ lock' = lock /\ work' = work
    BY <1>10 DEF Recover
  <2>2. "down" \notin Busy /\ "down" \notin Staged
    BY DEF Busy, Staged, Sending
  <2>3. lock \in Replicas => lock # w /\ pc'[lock] = pc[lock]
    BY <1>0, <2>1, <2>2 DEF StagedIsWork
  <2>4. staging' = <<>> \/ staging' = staging
    BY <1>10 DEF Recover, queueVars
  <2> QED BY <2>1, <2>3, <2>4 DEF StagedIsWork
<1>11. CASE SweepParkedErrors
  <2>1. staging = <<>>
    BY <1>11, NothingStaged DEF SweepParkedErrors, LockFree
  <2>2. PICK done : SweptOf(done)
    BY <1>11, SweepFacts
  <2>3. Without(staging, done) \in Seq(Records) /\ ToSet(Without(staging, done)) = {}
    <3>1. staging \in Seq(Records) /\ ToSet(staging) = {}
      BY <2>1 DEF WorkInv, OutboxTypes, ToSet
    <3> QED BY <3>1, WithoutFacts
  <2>4. staging' = <<>>
    BY <2>2, <2>3, EmptyList DEF SweptOf
  <2> QED BY <1>1, <1>11, <2>1, <2>4 DEF SweepParkedErrors
<1>12. ASSUME NEW w \in Replicas, RecoverDies(w) \/ Crash(w) PROVE FALSE
  BY <1>0, <1>12 DEF RecoverDies, Crash
<1>13. CASE LockExpires
  BY <1>13 DEF LockExpires, StagedIsWork
<1> QED
  BY <1>1, <1>2, <1>4, <1>6, <1>7, <1>8, <1>9, <1>10, <1>11, <1>12, <1>13
     DEF Changes, AcceptCheck, AcceptPush, AcceptMark, AcceptWithdraw, Dismiss, Retry, PodStores,
         PodAdmits, PodFails, PodForgets, SweepWorkspaceUnverifiable,
         ParkWorkspace, UnparkWorkspace, Archive, queueVars

LEMMA AloneInFlight ==
    ASSUME WorkInv, StagedIsWork
    PROVE  OneInFlight
<1>1. CASE staging = <<>>
  BY <1>1 DEF OneInFlight, ToSet
<1>2. CASE staging # <<>>
  <2>1. lock \in Replicas /\ pc[lock] \in Busy /\ staging = work[lock].was
    BY <1>2 DEF StagedIsWork, Busy
  <2>2. work[lock].was = <<work[lock].was[1]>> /\ work[lock].was[1] \in Records
    BY <2>1, WorkerFacts
  <2>3. Len(staging) = 1 /\ ToSet(staging) = {work[lock].was[1]}
    BY <2>1, <2>2, SingletonFacts
  <2> QED BY <2>1, <2>2, <2>3 DEF OneInFlight
<1> QED BY <1>1, <1>2

(* While no replica dies, one copy at most is staged: the one the holder   *)
(* of the session's lock delivers.                                         *)
THEOREM AtMostOneInFlight ==
    ASSUME MaxCrashes = 0
    PROVE  Spec => []OneInFlight
<1>1. Init => WorkInv /\ StagedIsWork
  BY WorkInvInit, OutboxAssumption DEF Init, StagedIsWork, Free, Stale
<1>2. (WorkInv /\ StagedIsWork) /\ [Next]_vars => (WorkInv /\ StagedIsWork)'
  <2>1. ASSUME WorkInv, StagedIsWork, [Next]_vars PROVE StagedIsWork'
    <3>1. CASE Next
      BY <2>1, <3>1, NextChanges, StagedStep
    <3>2. CASE UNCHANGED vars
      BY <2>1, <3>2 DEF vars, queueVars, workVars, StagedIsWork
    <3> QED BY <2>1, <3>1, <3>2
  <2> QED BY <2>1, WorkInvStep
<1>3. WorkInv /\ StagedIsWork => OneInFlight
  BY AloneInFlight
<1> QED BY <1>1, <1>2, <1>3, PTL DEF Spec

-----------------------------------------------------------------------------
(* The hook fires once while no replica dies. *)

LEMMA OnlyCopy ==
    ASSUME NEW s \in Seq(Records), UniqueIds(s), NEW x \in ToSet(s), NEW y \in ToSet(s), x.id = y.id
    PROVE  x = y
<1>1. PICK i \in 1..Len(s) : s[i] = x
  BY MemberFacts
<1>2. PICK j \in 1..Len(s) : s[j] = y
  BY MemberFacts
<1> QED BY <1>1, <1>2 DEF UniqueIds

(* No other copy is left of an element that is removed. *)
LEMMA RemovedGone ==
    ASSUME NEW s \in Seq(Records), UniqueIds(s), NEW i \in 1..Len(s)
    PROVE  s[i].id \notin Ids(RemoveAt(s, i))
<1> DEFINE t == RemoveAt(s, i)
<1>1. /\ t \in Seq(Records) /\ Len(t) = Len(s) - 1 /\ Len(s) \in Nat
      /\ \A j \in 1..Len(t) : t[j] = IF j < i THEN s[j] ELSE s[j + 1]
  BY RemoveAtFacts
<1> HIDE DEF t
<1>2. ASSUME s[i].id \in Ids(t) PROVE FALSE
  <2>1. PICK j \in 1..Len(t) : t[j].id = s[i].id
    BY <1>1, <1>2, MemberFacts, SMTT(30)
  <2>2. PICK k \in 1..Len(s) : k # i /\ t[j] = s[k]
    <3>1. CASE j < i
      BY <1>1, <3>1
    <3>2. CASE ~(j < i)
      <4>1. j + 1 \in 1..Len(s) /\ j + 1 # i
        BY <1>1, <3>2
      <4> QED BY <1>1, <3>2, <4>1
    <3> QED BY <3>1, <3>2
  <2> QED BY <2>1, <2>2 DEF UniqueIds
<1> QED BY <1>2 DEF t

LEMMA IdsAreEntries ==
    ASSUME NEW s \in Seq(Records)
    PROVE  Ids(s) \subseteq Entries
<1>1. \A x \in ToSet(s) : x \in Records
  BY MemberFacts
<1>2. \A x \in Records : x.id \in Entries
  BY DEF Records
<1> QED BY <1>1, <1>2 DEF Ids

LEMMA IdleFires ==
    ASSUME NEW w \in Replicas, pc'[w] \notin Busy
    PROVE  WorkFires(w)'
BY DEF WorkFires, Busy, Staged

(* A step under the free lock leaves every worker idle. *)
LEMMA FreeFires ==
    ASSUME WorkInv, lock = Free, UNCHANGED workVars
    PROVE  \A w \in Replicas : WorkFires(w)'
<1>1. ASSUME NEW w \in Replicas PROVE pc'[w] \notin Busy
  BY OutboxAssumption, OthersIdle DEF workVars
<1> QED BY <1>1, IdleFires

(* A step of the holder concerns no other worker. *)
LEMMA HolderFires ==
    ASSUME WorkInv, NEW w \in Replicas, lock \in {w, Free}, WorkFires(w)',
           \A u \in Replicas : u # w => pc'[u] = pc[u]
    PROVE  \A u \in Replicas : WorkFires(u)'
<1>1. ASSUME NEW u \in Replicas, u # w PROVE pc'[u] \notin Busy
  BY <1>1, OutboxAssumption, OthersIdle
<1> QED BY <1>1, IdleFires

(* The place of an entry being verified: an Accept pushes and withdraws    *)
(* behind it.                                                              *)
LEMMA AcceptKeepsPlace ==
    ASSUME WorkInv, NEW w \in Replicas, pc[w] = "verify", PlaceKept(w), NEW e \in Entries,
           AcceptCheck(e) \/ AcceptPush(e) \/ AcceptMark(e) \/ AcceptWithdraw(e)
    PROVE  PlaceKept(w)'
<1>0. main \in Seq(Records) /\ Len(main) \in Nat /\ work[w].idx \in Nat /\ work' = work
  BY WorkerFacts DEF WorkInv, OutboxTypes, Busy, AcceptCheck, AcceptPush, AcceptMark,
     AcceptWithdraw, workVars
<1>1. CASE main' = main
  BY <1>0, <1>1 DEF PlaceKept
<1>2. CASE main' = Append(main, Fresh(e))
  <2>1. /\ Len(main') = Len(main) + 1
        /\ \A i \in 1..Len(main) : main'[i] = main[i]
    BY <1>0, <1>2, FreshRecord, AppendFacts
  <2>2. work[w].idx \in 1..Len(main') /\ \A j \in 1..work[w].idx : j \in 1..Len(main)
    BY <1>0, <2>1 DEF PlaceKept
  <2> QED BY <1>0, <2>1, <2>2 DEF PlaceKept
<1>3. CASE \E i \in 1..Len(main) : main[i] = Fresh(e) /\ main' = RemoveAt(main, i)
  <2>1. PICK i \in 1..Len(main) : main[i] = Fresh(e) /\ main' = RemoveAt(main, i)
    BY <1>3
  <2>2. /\ Len(main') = Len(main) - 1
        /\ \A j \in 1..Len(main') : main'[j] = IF j < i THEN main[j] ELSE main[j + 1]
    <3> DEFINE u == RemoveAt(main, i)
    <3>1. /\ Len(u) = Len(main) - 1
          /\ \A j \in 1..Len(u) : u[j] = IF j < i THEN main[j] ELSE main[j + 1]
      BY <1>0, RemoveAtFacts
    <3>2. main' = u
      BY <2>1
    <3> HIDE DEF u
    <3> QED BY <3>1, <3>2
  <2>3. i \notin 1..work[w].idx /\ work[w].idx \in 1..Len(main)
    BY <2>1 DEF PlaceKept
  <2>4. work[w].idx \in 1..Len(main') /\ \A j \in 1..work[w].idx : j \in 1..Len(main') /\ j < i
    BY <1>0, <2>2, <2>3
  <2>5. \A j \in 1..work[w].idx : main'[j] = main[j]
    BY <2>2, <2>4
  <2>6. work[w].idx \in 1..work[w].idx
    BY <2>3
  <2> QED BY <1>0, <2>4, <2>5, <2>6 DEF PlaceKept
<1>4. CASE AcceptWithdraw(e)
  <2>1. main' = RemoveFirst(main, Fresh(e))
    BY <1>4 DEF AcceptWithdraw
  <2>2. main' = main \/ \E i \in 1..Len(main) : main[i] = Fresh(e) /\ main' = RemoveAt(main, i)
    BY <1>0, <2>1, RemoveFirstFacts
  <2> QED BY <1>1, <1>3, <2>2
<1> QED BY <1>1, <1>2, <1>4 DEF AcceptCheck, AcceptPush, AcceptMark, queueVars

(* What comes before the entry that is picked is not due, so not fresh.    *)
LEMMA PickKeepsPlace ==
    ASSUME WorkInv, NEW w \in Replicas, Pick(w), pc'[w] = "verify"
    PROVE  PlaceKept(w)'
<1>0. /\ main \in Seq(Records) /\ main' = main
      /\ pc \in [Replicas -> Places] /\ work \in [Replicas -> Works]
  BY DEF WorkInv, OutboxTypes, Pick
<1>1. PICK i \in 1..Len(main) :
         /\ Due(i)
         /\ work' = [work EXCEPT ![w] = [NoWork EXCEPT !.idx = i, !.was = <<main[i]>>]]
         /\ main[i].status = "verifying" \/ pc' = [pc EXCEPT ![w] = "staged"]
  BY DEF Pick
<1>2. main[i].status = "verifying" /\ work'[w].was[1] = main[i] /\ work'[w].idx = i
  BY <1>0, <1>1 DEF NoWork
<1>3. ASSUME NEW j \in 1..i, NEW e \in Entries PROVE main[j] # Fresh(e)
  <2>1. Fresh(e).status = "pending" /\ Fresh(e).gated = FALSE /\ Runnable(Fresh(e))
    BY DEF Fresh, Runnable
  <2>2. CASE j = i
    BY <1>2, <2>1, <2>2
  <2>3. CASE j # i
    <3>1. j \in 1..(i - 1)
      BY <1>0, <2>3
    <3> QED BY <1>1, <2>1, <3>1 DEF Due
  <2> QED BY <2>2, <2>3
<1> QED BY <1>0, <1>1, <1>2, <1>3 DEF PlaceKept

LEMMA AcceptFires ==
    ASSUME WorkInv, FiresOnce, NEW e \in Entries,
           AcceptCheck(e) \/ AcceptPush(e) \/ AcceptMark(e) \/ AcceptWithdraw(e)
    PROVE  FiresOnce'
<1>0. /\ main \in Seq(Records) /\ staging \in Seq(Records)
      /\ accept \in [Entries -> {"new", "checked", "pushed", "lost", "accepted", "duplicate", "capped"}]
  BY DEF WorkInv, OutboxTypes
<1>1. UNCHANGED <<staging, lock, pc, work, hooks>>
  BY DEF AcceptCheck, AcceptPush, AcceptMark, AcceptWithdraw, queueVars, workVars, history
<1>2. \A f \in Entries : Unfired(f) => Unfired(f)'
  BY <1>0, <1>1 DEF AcceptCheck, AcceptPush, AcceptMark, AcceptWithdraw, Unfired
<1>3. \A f \in Entries : accept'[f] \in {"new", "checked"} => accept[f] \in {"new", "checked"}
  BY <1>0 DEF AcceptCheck, AcceptPush, AcceptMark, AcceptWithdraw
<1>4. HookOnce' /\ \A f \in Entries : accept'[f] \in {"new", "checked"} => hooks'[f] = 0
  BY <1>1, <1>3 DEF FiresOnce, ListFires, HookOnce
<1>5. Ids(main) \subseteq Entries /\ Ids(staging) \subseteq Entries
  BY <1>0, IdsAreEntries
<1>6. ASSUME NEW w \in Replicas, pc[w] \in Busy
      PROVE  work[w].was[1].id \in Entries /\ work[w].idx \in Nat
  BY <1>6, WorkerFacts DEF Records
<1>7. CASE UNCHANGED main
  <2>1. ListFires'
    BY <1>1, <1>2, <1>4, <1>5, <1>7 DEF FiresOnce, ListFires
  <2>2. ASSUME NEW w \in Replicas PROVE WorkFires(w)'
    <3>1. pc[w] \in Busy => Unfired(work[w].was[1].id)'
      BY <1>1, <1>2, <1>6 DEF FiresOnce, WorkFires
    <3> QED BY <1>1, <1>7, <3>1 DEF FiresOnce, WorkFires, PlaceKept
  <2> QED BY <1>4, <2>1, <2>2 DEF FiresOnce
<1>8. CASE AcceptPush(e) /\ main' = Append(main, Fresh(e))
  <2>1. (accept[e] = "checked" /\ hooks[e] = 0 /\ accept'[e] = "pushed") \/ main' = main
    BY <1>0, <1>8 DEF AcceptPush, FiresOnce, ListFires
  <2>2. CASE main' = main
    BY <1>7, <2>2
  <2>3. CASE accept[e] = "checked" /\ hooks[e] = 0 /\ accept'[e] = "pushed"
    <3>1. ~Unfired(e) /\ Unfired(e)'
      BY <1>1, <2>3 DEF Unfired
    <3>2. e \notin Ids(main)
      BY <3>1 DEF FiresOnce, ListFires
    <3>3. /\ main' \in Seq(Records) /\ Len(main') = Len(main) + 1 /\ Len(main) \in Nat
          /\ \A i \in 1..Len(main) : main'[i] = main[i]
          /\ ToSet(main') = ToSet(main) \cup {Fresh(e)} /\ Ids(main') = Ids(main) \cup {e}
          /\ UniqueIds(main')
      BY <1>0, <1>8, <3>2, FreshRecord, AppendFacts DEF FiresOnce, ListFires
    <3>4. ListFires'
      BY <1>1, <1>2, <1>4, <1>5, <3>1, <3>3 DEF FiresOnce, ListFires
    <3>5. ASSUME NEW w \in Replicas PROVE WorkFires(w)'
      <4>1. pc[w] \in Busy => Unfired(work[w].was[1].id)' /\ work[w].was[1].id # e
        BY <1>1, <1>2, <1>6, <3>1 DEF FiresOnce, WorkFires
      <4>2. pc[w] \in Sending \cup {"fire"} => work[w].was[1].id \notin Ids(main')
        BY <3>3, <4>1 DEF FiresOnce, WorkFires, Busy, Staged
      <4>3. pc[w] = "staged" =>
               \A r \in ToSet(main') : r.id = work[w].was[1].id => r = work[w].was[1]
        BY <3>3, <4>1, FreshRecord DEF FiresOnce, WorkFires, Busy, Staged
      <4>4. pc[w] = "verify" => PlaceKept(w)'
        BY AcceptKeepsPlace DEF FiresOnce, WorkFires
      <4> QED BY <1>1, <4>1, <4>2, <4>3, <4>4 DEF WorkFires
    <3> QED BY <1>4, <3>4, <3>5 DEF FiresOnce
  <2> QED BY <2>1, <2>2, <2>3
<1>9. CASE AcceptWithdraw(e)
  <2> DEFINE t == RemoveFirst(main, Fresh(e))
  <2>1. /\ main' = t /\ main' \in Seq(Records) /\ ToSet(main') \subseteq ToSet(main)
        /\ UniqueIds(main')
        /\ (main' = main \/ \E i \in 1..Len(main) : main[i] = Fresh(e) /\ main' = RemoveAt(main, i))
    BY <1>0, <1>9, RemoveFirstFacts DEF AcceptWithdraw, FiresOnce, ListFires
  <2>2. Ids(main') \subseteq Ids(main)
    BY <2>1 DEF Ids
  <2>3. ListFires'
    BY <1>1, <1>2, <1>4, <1>5, <2>1, <2>2 DEF FiresOnce, ListFires
  <2>4. ASSUME NEW w \in Replicas PROVE WorkFires(w)'
    <3>1. pc[w] \in Busy => Unfired(work[w].was[1].id)'
      BY <1>1, <1>2, <1>6 DEF FiresOnce, WorkFires
    <3>2. pc[w] = "verify" => PlaceKept(w)'
      BY AcceptKeepsPlace DEF FiresOnce, WorkFires
    <3> QED BY <1>1, <2>1, <2>2, <3>1, <3>2 DEF FiresOnce, WorkFires
  <2> QED BY <1>4, <2>3, <2>4 DEF FiresOnce
<1> QED BY <1>7, <1>8, <1>9 DEF AcceptCheck, AcceptPush, AcceptMark, queueVars

LEMMA PickFires ==
    ASSUME WorkInv, StagedIsWork, FiresOnce, NEW w \in Replicas, Pick(w)
    PROVE  FiresOnce'
<1>0. /\ main \in Seq(Records) /\ staging \in Seq(Records) /\ lock = Free
      /\ UNCHANGED <<main, accept, hooks>>
      /\ pc \in [Replicas -> Places] /\ work \in [Replicas -> Works]
  BY DEF WorkInv, OutboxTypes, Pick, LockFree, acceptVars, history
<1>1. PICK i \in 1..Len(main) :
         /\ Due(i)
         /\ work' = [work EXCEPT ![w] = [NoWork EXCEPT !.idx = i, !.was = <<main[i]>>]]
         /\ \/ /\ main[i].status = "verifying"
               /\ pc' = [pc EXCEPT ![w] = "verify"] /\ staging' = staging
            \/ pc' = [pc EXCEPT ![w] = "staged"] /\ staging' = Append(staging, main[i])
  BY DEF Pick
<1>2. main[i] \in Records /\ main[i] \in ToSet(main) /\ main[i].id \in Ids(main)
  BY <1>0, MemberFacts
<1>3. work'[w].was[1] = main[i] /\ work'[w].idx = i
  BY <1>0, <1>1 DEF NoWork
<1>4. Ids(staging') \subseteq Ids(staging) \cup {main[i].id}
  <2>1. Ids(Append(staging, main[i])) = Ids(staging) \cup {main[i].id}
    BY <1>0, <1>2, AppendFacts
  <2>2. staging' = staging \/ staging' = Append(staging, main[i])
    BY <1>1
  <2> QED BY <2>1, <2>2
<1>5. ListFires' /\ HookOnce'
  BY <1>0, <1>2, <1>4 DEF FiresOnce, ListFires, Unfired, HookOnce
<1>6. Unfired(main[i].id)'
  BY <1>0, <1>2 DEF FiresOnce, ListFires, Unfired
<1>7. CASE pc' = [pc EXCEPT ![w] = "staged"]
  <2>1. pc'[w] = "staged"
    BY <1>0, <1>7
  <2>2. \A r \in ToSet(main) : r.id = main[i].id => r = main[i]
    BY <1>0, <1>2, OnlyCopy DEF FiresOnce, ListFires
  <2>3. WorkFires(w)'
    BY <1>0, <1>3, <1>6, <2>1, <2>2 DEF WorkFires, Sending
  <2>4. \A u \in Replicas : WorkFires(u)'
    BY <1>0, <1>7, <2>3, HolderFires
  <2> QED BY <1>5, <2>4 DEF FiresOnce
<1>8. CASE main[i].status = "verifying" /\ pc' = [pc EXCEPT ![w] = "verify"]
  <2>1. pc'[w] = "verify"
    BY <1>0, <1>8
  <2>3. PlaceKept(w)'
    BY <2>1, PickKeepsPlace
  <2>4. WorkFires(w)'
    BY <1>0, <1>3, <1>6, <2>1, <2>3 DEF WorkFires, Sending, Unfired
  <2>5. \A u \in Replicas : WorkFires(u)'
    BY <1>0, <1>8, <2>4, HolderFires
  <2> QED BY <1>5, <2>5 DEF FiresOnce
<1> QED BY <1>1, <1>7, <1>8

LEMMA UnqueueFires ==
    ASSUME WorkInv, FiresOnce, NEW w \in Replicas, Unqueue(w)
    PROVE  FiresOnce'
<1> DEFINE v == work[w].was[1]
           t == RemoveFirst(main, v)
<1>0. /\ main \in Seq(Records) /\ pc[w] = "staged" /\ main' = t /\ UniqueIds(main)
      /\ UNCHANGED <<staging, accept, hooks, lock>>
      /\ pc \in [Replicas -> Places] /\ work \in [Replicas -> Works]
      /\ pc' = [pc EXCEPT ![w] = "send"]
  BY DEF WorkInv, OutboxTypes, Unqueue, acceptVars, history, FiresOnce, ListFires
<1>1. work'[w].was = work[w].was
  BY <1>0 DEF Unqueue, Works
<1>2. lock = w /\ Unfired(v.id) /\ \A r \in ToSet(main) : r.id = v.id => r = v
  BY <1>0, WorkerFacts DEF Busy, Staged, FiresOnce, WorkFires
<1> HIDE DEF v
<1>3. /\ t \in Seq(Records) /\ ToSet(t) \subseteq ToSet(main) /\ UniqueIds(t)
      /\ (v \notin ToSet(main) /\ t = main)
         \/ \E i \in 1..Len(main) : main[i] = v /\ t = RemoveAt(main, i)
  BY <1>0, RemoveFirstFacts
<1>4. Ids(t) \subseteq Ids(main)
  BY <1>3 DEF Ids
<1>5. v.id \notin Ids(t)
  <2>1. CASE v \notin ToSet(main) /\ t = main
    <3> HIDE DEF t
    <3> QED BY <1>0, <1>2, <2>1, MemberFacts
  <2>2. CASE \E i \in 1..Len(main) : main[i] = v /\ t = RemoveAt(main, i)
    BY <1>0, <2>2, RemovedGone
  <2> QED BY <1>3, <2>1, <2>2
<1> HIDE DEF t
<1>6. ListFires' /\ HookOnce'
  BY <1>0, <1>3, <1>4 DEF FiresOnce, ListFires, Unfired, HookOnce
<1>7. pc'[w] = "send" /\ work'[w].was[1] = v
  BY <1>0, <1>1 DEF v
<1>8. WorkFires(w)'
  BY <1>0, <1>2, <1>5, <1>7 DEF WorkFires, Unfired
<1>9. \A u \in Replicas : WorkFires(u)'
  BY <1>0, <1>2, <1>8, HolderFires
<1> QED BY <1>6, <1>9 DEF FiresOnce

LEMMA OutcomeFires ==
    ASSUME WorkInv, StagedIsWork, FiresOnce, NEW w \in Replicas, Outcome(w)
    PROVE  FiresOnce'
<1> DEFINE v == work[w].was[1]
<1>0. /\ main \in Seq(Records) /\ staging \in Seq(Records) /\ UniqueIds(main)
      /\ UNCHANGED <<accept, hooks>> /\ pc[w] \in Busy
      /\ pc \in [Replicas -> Places] /\ work \in [Replicas -> Works]
  BY DEF WorkInv, OutboxTypes, Outcome, acceptVars, FiresOnce, ListFires, Asking, Busy, Staged, Sending
<1>1. lock = w /\ v \in Records /\ Unfired(v.id) /\ work[w].idx \in Nat
  BY <1>0, WorkerFacts DEF FiresOnce, WorkFires
<1>2. ASSUME NEW s \in Seq(Records), NEW t \in Seq(Records), main' = s, staging' = t,
             UniqueIds(s), Ids(s) \subseteq Ids(main), Ids(t) \subseteq Ids(staging)
      PROVE  ListFires' /\ HookOnce'
  BY <1>0, <1>2 DEF FiresOnce, ListFires, Unfired, HookOnce
<1>3. ASSUME pc'[w] \notin Busy, \A u \in Replicas : u # w => pc'[u] = pc[u]
      PROVE  \A u \in Replicas : WorkFires(u)'
  BY <1>1, <1>3, IdleFires, HolderFires
<1>4. CASE pc[w] \in Asking /\ GoesOn(w)
  <2>1. PICK p \in Asking : pc' = [pc EXCEPT ![w] = p] /\ UNCHANGED <<main, staging, work>>
    BY <1>4 DEF GoesOn, Goto, queueVars
  <2>2. pc'[w] = p
    BY <1>0, <2>1
  <2>3. v.id \notin Ids(main)
    BY <1>4 DEF FiresOnce, WorkFires, Asking, Sending
  <2>4. WorkFires(w)'
    BY <1>0, <1>1, <2>1, <2>2, <2>3 DEF WorkFires, Unfired, Asking
  <2>5. \A u \in Replicas : WorkFires(u)'
    BY <1>0, <1>1, <2>1, <2>4, HolderFires
  <2> QED BY <1>0, <1>2, <2>1, <2>5 DEF FiresOnce
<1>5. CASE pc[w] \in Asking /\ Restores(w)
  <2>1. pc' = [pc EXCEPT ![w] = "insert"] /\ UNCHANGED <<main, staging>>
    BY <1>5 DEF Restores, Restore, queueVars
  <2>2. work'[w].was = work[w].was
    BY <1>0, <1>5 DEF Restores, Restore, Works
  <2>3. pc'[w] = "insert"
    BY <1>0, <2>1
  <2>4. v.id \notin Ids(main)
    BY <1>5 DEF FiresOnce, WorkFires, Asking, Sending
  <2>5. WorkFires(w)'
    BY <1>0, <1>1, <2>1, <2>2, <2>3, <2>4 DEF WorkFires, Unfired
  <2>6. \A u \in Replicas : WorkFires(u)'
    BY <1>0, <1>1, <2>1, <2>5, HolderFires
  <2> QED BY <1>0, <1>2, <2>1, <2>6 DEF FiresOnce
<1>6. CASE pc[w] \in Asking \cup {"verify"} /\ Confirms(w)
  <2> DEFINE s == Without(main, {v})
             t == Without(staging, {v})
  <2>1. main' = s /\ staging' = t
    BY <1>6 DEF Confirms, Complete, claimDelivered
  <2>2. s \in Seq(Records) /\ ToSet(s) = ToSet(main) \ {v} /\ UniqueIds(s)
    BY <1>0, WithoutFacts
  <2>3. t \in Seq(Records) /\ ToSet(t) = ToSet(staging) \ {v}
    BY <1>0, WithoutFacts
  <2> HIDE DEF s, t
  <2>4. Ids(s) \subseteq Ids(main) /\ Ids(t) \subseteq Ids(staging)
    BY <2>2, <2>3 DEF Ids
  <2>5. ListFires' /\ HookOnce'
    BY <1>2, <2>1, <2>2, <2>3, <2>4
  <2>6. v.id \notin Ids(s)
    <3>1. CASE pc[w] \in Asking
      BY <2>4, <3>1 DEF FiresOnce, WorkFires, Asking, Sending
    <3>2. CASE pc[w] = "verify"
      <4>1. v \in ToSet(main)
        BY <1>0, <3>2, MemberFacts DEF FiresOnce, WorkFires, PlaceKept
      <4>2. \A r \in ToSet(s) : r.id # v.id
        BY <1>0, <2>2, <4>1, OnlyCopy
      <4> QED BY <4>2 DEF Ids
    <3> QED BY <1>6, <3>1, <3>2
  <2>7. CASE pc' = [pc EXCEPT ![w] = "fire"] /\ UNCHANGED <<lock, work>>
    <3>1. pc'[w] = "fire"
      BY <1>0, <2>7
    <3>2. WorkFires(w)'
      BY <1>0, <1>1, <2>1, <2>6, <2>7, <3>1 DEF WorkFires, Unfired
    <3>3. \A u \in Replicas : WorkFires(u)'
      BY <1>0, <1>1, <2>7, <3>2, HolderFires
    <3> QED BY <2>5, <3>3 DEF FiresOnce
  <2>8. CASE Release(w)
    <3>1. pc'[w] = "idle" /\ \A u \in Replicas : u # w => pc'[u] = pc[u]
      BY <1>0, <2>8 DEF Release
    <3>2. \A u \in Replicas : WorkFires(u)'
      BY <1>3, <3>1 DEF Busy, Staged, Sending
    <3> QED BY <2>5, <3>2 DEF FiresOnce
  <2> QED BY <1>6, <2>7, <2>8 DEF Confirms, Complete
<1>7. CASE pc[w] = "verify" /\ Rewrites(w)
  <2>1. PICK r \in Records : r.id = v.id /\ Rewrite(w, r)
    BY <1>7 DEF Rewrites
  <2>2. work[w].idx \in 1..Len(main) /\ main[work[w].idx] = v
    BY <1>7 DEF FiresOnce, WorkFires, PlaceKept
  <2> DEFINE t == [main EXCEPT ![work[w].idx] = r]
  <2>3. main' = t /\ staging' = staging /\ Release(w)
    BY <1>0, <2>1, <2>2 DEF Rewrite, ReplaceAt
  <2>4. t \in Seq(Records) /\ Ids(t) = Ids(main) /\ UniqueIds(t)
    BY <1>0, <2>1, <2>2, ReplaceFacts, SMTT(30)
  <2> HIDE DEF t
  <2>5. ListFires' /\ HookOnce'
    BY <1>0, <1>2, <2>3, <2>4
  <2>6. pc'[w] = "idle" /\ \A u \in Replicas : u # w => pc'[u] = pc[u]
    BY <1>0, <2>3 DEF Release
  <2>7. \A u \in Replicas : WorkFires(u)'
    BY <1>3, <2>6 DEF Busy, Staged, Sending
  <2> QED BY <2>5, <2>7 DEF FiresOnce
<1> QED BY <1>4, <1>5, <1>6, <1>7 DEF Outcome

LEMMA RestoreInsertFires ==
    ASSUME WorkInv, FiresOnce, NEW w \in Replicas, RestoreInsert(w)
    PROVE  FiresOnce'
<1> DEFINE v == work[w].was[1]
           x == work[w].new[1]
<1>0. /\ main \in Seq(Records) /\ UniqueIds(main)
      /\ UNCHANGED <<staging, accept, hooks, lock, work>> /\ pc[w] = "insert"
      /\ pc \in [Replicas -> Places] /\ pc' = [pc EXCEPT ![w] = "drop"]
  BY DEF WorkInv, OutboxTypes, RestoreInsert, acceptVars, history, FiresOnce, ListFires
<1>1. /\ lock = w /\ x \in Records /\ x.id = v.id /\ Unfired(v.id) /\ v.id \notin Ids(main)
      /\ work[w].new = <<x>>
  BY <1>0, WorkerFacts, SMTT(30) DEF FiresOnce, WorkFires, Busy, Staged, Sending
<1>2. \/ main' = Append(main, x) \/ main' = <<x>> \o main
      \/ main' = InsertBefore(main, work[w].pivot[1], x)
  BY <1>1 DEF RestoreInsert
<1> HIDE DEF x, v
<1>3. UniqueIds(main') /\ Ids(main') \subseteq Ids(main) \cup {v.id}
  <2>1. CASE main' = Append(main, x)
    BY <1>0, <1>1, <2>1, AppendFacts
  <2>2. CASE main' = <<x>> \o main
    <3> DEFINE o == <<x>>
    <3>1. o \in Seq(Records) /\ Ids(o) = {x.id} /\ UniqueIds(o)
      BY <1>1, SingletonFacts
    <3>2. main' = o \o main
      BY <2>2
    <3> HIDE DEF o
    <3>3. /\ Ids(o \o main) = Ids(o) \cup Ids(main)
          /\ UniqueIds(o \o main) <=> UniqueIds(o) /\ UniqueIds(main) /\ Ids(o) \cap Ids(main) = {}
      BY <1>0, <3>1, ConcatFacts
    <3>4. Ids(o) \cap Ids(main) = {}
      BY <1>1, <3>1
    <3> QED BY <1>0, <1>1, <3>1, <3>2, <3>3, <3>4
  <2>3. CASE main' = InsertBefore(main, work[w].pivot[1], x)
    <3> DEFINE t == InsertBefore(main, work[w].pivot[1], x)
    <3>1. ToSet(t) \subseteq ToSet(main) \cup {x} /\ UniqueIds(t)
      BY <1>0, <1>1, InsertBeforeFacts
    <3> HIDE DEF t
    <3>2. Ids(t) \subseteq Ids(main) \cup {x.id}
      BY <3>1 DEF Ids
    <3> QED BY <1>1, <2>3, <3>1, <3>2 DEF t
  <2> QED BY <1>2, <2>1, <2>2, <2>3
<1>4. ListFires' /\ HookOnce'
  BY <1>0, <1>1, <1>3 DEF FiresOnce, ListFires, Unfired, HookOnce
<1>5. pc'[w] = "drop"
  BY <1>0
<1>6. WorkFires(w)'
  BY <1>0, <1>1, <1>5 DEF WorkFires, Unfired, Sending, v
<1>7. \A u \in Replicas : WorkFires(u)'
  BY <1>0, <1>1, <1>6, HolderFires
<1> QED BY <1>4, <1>7 DEF FiresOnce

LEMMA RestoreDropFires ==
    ASSUME WorkInv, StagedIsWork, FiresOnce, NEW w \in Replicas, RestoreDrop(w)
    PROVE  FiresOnce'
<1>0. /\ UNCHANGED <<main, accept, hooks>> /\ pc[w] \in Busy
      /\ pc \in [Replicas -> Places] /\ pc' = [pc EXCEPT ![w] = "idle"]
  BY DEF WorkInv, OutboxTypes, RestoreDrop, Release, acceptVars, history, Busy, Staged
<1>1. staging' = <<>> /\ lock = w
  BY <1>0, StagedGone DEF RestoreDrop
<1>2. Ids(staging') = {}
  BY <1>1 DEF Ids, ToSet
<1>3. ListFires' /\ HookOnce'
  BY <1>0, <1>2 DEF FiresOnce, ListFires, Unfired, HookOnce
<1>4. pc'[w] = "idle" /\ \A u \in Replicas : u # w => pc'[u] = pc[u]
  BY <1>0
<1>5. WorkFires(w)'
  BY <1>4, IdleFires DEF Busy, Staged, Sending
<1> QED BY <1>1, <1>3, <1>4, <1>5, HolderFires DEF FiresOnce

LEMMA FireFires ==
    ASSUME WorkInv, StagedIsWork, FiresOnce, NEW w \in Replicas, Fire(w)
    PROVE  FiresOnce'
<1> DEFINE e == work[w].was[1].id
<1>0. /\ UNCHANGED <<main, staging, accept>> /\ pc[w] = "fire" /\ hooks \in [Entries -> Nat]
      /\ main \in Seq(Records)
      /\ hooks' = [hooks EXCEPT ![e] = hooks[e] + 1]
      /\ pc \in [Replicas -> Places] /\ pc' = [pc EXCEPT ![w] = "idle"]
  BY DEF WorkInv, OutboxTypes, Fire, Release, acceptVars, queueVars
<1>1. pc[w] \in Busy /\ pc[w] \notin Staged
  BY <1>0 DEF Busy, Staged, Sending
<1>2. e \in Entries /\ Unfired(e) /\ e \notin Ids(main) /\ lock = w
  BY <1>0, <1>1, WorkerFacts DEF FiresOnce, WorkFires, Records
<1>3. Ids(staging) = {}
  <2>1. staging = <<>>
    BY <1>1, StagedGone
  <2> QED BY <2>1 DEF Ids, ToSet
<1> HIDE DEF e
<1>4. \A f \in Entries : hooks'[f] = IF f = e THEN 1 ELSE hooks[f]
  BY <1>0, <1>2 DEF Unfired
<1>5. Ids(main) \subseteq Entries
  BY <1>0, IdsAreEntries
<1>6. ListFires' /\ HookOnce'
  BY <1>0, <1>2, <1>3, <1>4, <1>5 DEF FiresOnce, ListFires, Unfired, HookOnce
<1>7. pc'[w] = "idle" /\ \A u \in Replicas : u # w => pc'[u] = pc[u]
  BY <1>0
<1>8. WorkFires(w)'
  BY <1>7, IdleFires DEF Busy, Staged, Sending
<1> QED BY <1>2, <1>6, <1>7, <1>8, HolderFires DEF FiresOnce

LEMMA RecoverFires ==
    ASSUME WorkInv, StagedIsWork, FiresOnce, NEW w \in Replicas, Recover(w)
    PROVE  FiresOnce'
<1>0. /\ UNCHANGED <<accept, hooks, work>> /\ main \in Seq(Records) /\ staging \in Seq(Records)
      /\ pc \in [Replicas -> Places] /\ pc' = [pc EXCEPT ![w] = "idle"]
  BY DEF WorkInv, OutboxTypes, Recover, acceptVars, history
<1>1. main' = main /\ staging' = staging
  <2>1. CASE LockFree /\ main' = Reverse(Requeued) \o main /\ staging' = <<>>
    <3>1. staging = <<>>
      BY <2>1, NothingStaged DEF LockFree
    <3>2. Requeued = <<>>
      BY <3>1, RequeuedFacts
    <3>3. Reverse(Requeued) \in Seq(Records) /\ ToSet(Reverse(Requeued)) = {}
      <4>1. ToSet(Requeued) = {}
        BY <3>2 DEF ToSet
      <4> QED BY <4>1, RequeuedFacts, ReverseFacts
    <3>4. Reverse(Requeued) = <<>>
      BY <3>3, EmptyList
    <3> QED BY <1>0, <2>1, <3>1, <3>4
  <2> QED BY <2>1 DEF Recover, queueVars
<1>2. ListFires' /\ HookOnce'
  BY <1>0, <1>1 DEF FiresOnce, ListFires, Unfired, HookOnce
<1>3. ASSUME NEW u \in Replicas PROVE WorkFires(u)'
  <2>1. CASE u = w
    <3>1. pc'[u] = "idle"
      BY <1>0, <2>1
    <3> QED BY <3>1, IdleFires DEF Busy, Staged, Sending
  <2>2. CASE u # w
    <3>1. pc'[u] = pc[u]
      BY <1>0, <2>2
    <3> QED BY <1>0, <1>1, <3>1 DEF FiresOnce, WorkFires, PlaceKept, Unfired
  <2> QED BY <2>1, <2>2
<1> QED BY <1>2, <1>3 DEF FiresOnce

(* The user and the operator, who take the lock. *)
LEMMA OthersFire ==
    ASSUME WorkInv, FiresOnce, lock = Free, UNCHANGED <<workVars, staging, accept, hooks>>,
           NEW t \in Seq(Records), main' = t, UniqueIds(t), Ids(t) \subseteq Ids(main)
    PROVE  FiresOnce'
<1>1. ListFires' /\ HookOnce'
  BY DEF FiresOnce, ListFires, Unfired, HookOnce
<1> QED BY <1>1, FreeFires DEF FiresOnce

LEMMA SweepFires ==
    ASSUME WorkInv, StagedIsWork, FiresOnce, SweepParkedErrors
    PROVE  FiresOnce'
<1>0. /\ main \in Seq(Records) /\ hooks \in [Entries -> Nat] /\ lock = Free /\ UniqueIds(main)
      /\ UNCHANGED <<accept, workVars>>
  BY DEF WorkInv, OutboxTypes, SweepParkedErrors, LockFree, acceptVars, FiresOnce, ListFires
<1>1. PICK done : SweptOf(done)
  BY SweepFacts
<1> DEFINE left == Without(main, done)
<1>2. left \in Seq(Records) /\ ToSet(left) = ToSet(main) \ done /\ UniqueIds(left)
  BY <1>0, WithoutFacts
<1>3. main' \in Seq(Records) /\ Ids(main') = Ids(left) /\ UniqueIds(main')
  BY <1>1, <1>2, InPlaceFacts DEF SweptOf
<1> HIDE DEF left
<1>4. Ids(staging') = {}
  <2>1. staging \in Seq(Records) /\ ToSet(staging) = {}
    BY <1>0, NothingStaged DEF WorkInv, OutboxTypes, ToSet
  <2>2. ToSet(Without(staging, done)) = {}
    BY <2>1, WithoutFacts
  <2> QED BY <1>1, <2>2 DEF SweptOf, Ids
<1>5. ASSUME NEW e \in Entries, \A r \in done : r.id # e PROVE hooks'[e] = hooks[e]
  <2>1. {r \in done : r.id = e} = {}
    BY <1>5
  <2>2. Cardinality({r \in done : r.id = e}) = 0
    BY <2>1, FS_EmptySet
  <2> QED BY <1>0, <1>1, <2>2 DEF SweptOf
<1>6. ASSUME NEW r \in done PROVE r.id \in Entries /\ r \in ToSet(main) /\ r.id \in Ids(main)
                                  /\ Unfired(r.id) /\ hooks'[r.id] = 1
  <2>1. r \in ToSet(main) /\ r.id \in Ids(main)
    BY <1>1 DEF SweptOf, Ids
  <2>2. r.id \in Entries /\ Unfired(r.id)
    BY <1>0, <2>1, IdsAreEntries DEF FiresOnce, ListFires
  <2>3. {q \in done : q.id = r.id} = {r}
    <3>1. ASSUME NEW q \in done, q.id = r.id PROVE q = r
      BY <1>0, <1>1, <2>1, <3>1, OnlyCopy DEF SweptOf
    <3> QED BY <3>1
  <2>4. Cardinality({q \in done : q.id = r.id}) = 1
    BY <2>3, FS_Singleton
  <2>5. hooks'[r.id] = hooks[r.id] + Cardinality({q \in done : q.id = r.id})
    BY <1>1, <2>2 DEF SweptOf
  <2> QED BY <2>1, <2>2, <2>4, <2>5 DEF Unfired
<1>7. ASSUME NEW e \in Ids(left) PROVE e \in Entries /\ e \in Ids(main) /\ \A r \in done : r.id # e
  <2>1. PICK x \in ToSet(left) : x.id = e
    BY <1>2, MemberFacts
  <2>2. x \in ToSet(main) /\ x \notin done
    BY <1>2, <2>1
  <2>3. e \in Ids(main) /\ e \in Entries
    BY <1>0, <2>1, <2>2, IdsAreEntries DEF Ids
  <2>4. ASSUME NEW r \in done, r.id = e PROVE FALSE
    <3>1. r = x
      BY <1>0, <1>6, <2>1, <2>2, <2>4, OnlyCopy
    <3> QED BY <2>2, <3>1
  <2> QED BY <2>3, <2>4
<1>8. \A e \in Ids(main') : Unfired(e)'
  BY <1>0, <1>3, <1>5, <1>7 DEF FiresOnce, ListFires, Unfired
<1>9. \A e \in Entries : accept'[e] \in {"new", "checked"} => hooks'[e] = 0
  <2>1. SUFFICES ASSUME NEW e \in Entries, accept[e] \in {"new", "checked"} PROVE hooks'[e] = 0
    BY <1>0
  <2>2. \A r \in done : r.id # e
    BY <1>6, <2>1 DEF Unfired
  <2> QED BY <1>5, <2>1, <2>2 DEF FiresOnce, ListFires
<1>10. HookOnce'
  <2>1. SUFFICES ASSUME NEW e \in Entries PROVE hooks'[e] <= 1
    BY DEF HookOnce
  <2>2. CASE \A r \in done : r.id # e
    BY <1>5, <2>2 DEF FiresOnce, HookOnce
  <2>3. CASE \E r \in done : r.id = e
    BY <1>6, <2>3
  <2> QED BY <2>2, <2>3
<1>11. ListFires'
  BY <1>3, <1>4, <1>8, <1>9 DEF ListFires
<1> QED BY <1>0, <1>10, <1>11, FreeFires DEF FiresOnce

LEMMA FiresStep ==
    ASSUME WorkInv, StagedIsWork, FiresOnce, MaxCrashes = 0, Changes
    PROVE  FiresOnce'
<1>0. main \in Seq(Records) /\ UniqueIds(main) /\ crashes = 0
  BY DEF WorkInv, OutboxTypes, FiresOnce, ListFires
<1>1. CASE UNCHANGED <<queueVars, workVars, accept, hooks>>
  BY <1>1 DEF queueVars, workVars, FiresOnce, ListFires, WorkFires, PlaceKept, Unfired, HookOnce
<1>2. ASSUME NEW e \in Entries, Dismiss(e) PROVE FiresOnce'
  <2>1. PICK i \in 1..Len(main) : main' = RemoveAt(main, i)
    BY <1>2, DismissFacts
  <2> DEFINE t == RemoveAt(main, i)
  <2>2. t \in Seq(Records) /\ ToSet(t) \subseteq ToSet(main) /\ UniqueIds(t)
    BY <1>0, RemoveAtFacts
  <2> HIDE DEF t
  <2>3. Ids(t) \subseteq Ids(main)
    BY <2>2 DEF Ids
  <2>4. lock = Free /\ UNCHANGED <<workVars, staging, accept, hooks>>
    BY <1>2 DEF Dismiss, LockFree, acceptVars
  <2> QED BY <2>1, <2>2, <2>3, <2>4, OthersFire DEF t
<1>3. ASSUME NEW e \in Entries, Retry(e) PROVE FiresOnce'
  <2>1. InPlace(main, main') /\ lock = Free /\ UNCHANGED <<workVars, staging, accept, hooks>>
    BY <1>3, RetryFacts DEF Retry, LockFree, acceptVars
  <2> QED BY <1>0, <2>1, InPlaceFacts, OthersFire, SMTT(30)
<1>4. CASE SweepWorkspaceUnverifiable \/ ParkWorkspace \/ UnparkWorkspace
  <2>1. InPlace(main, main') /\ lock = Free /\ UNCHANGED <<workVars, staging, accept, hooks>>
    BY <1>4, WorkspaceRewrites
       DEF SweepWorkspaceUnverifiable, ParkWorkspace, UnparkWorkspace, LockFree, acceptVars, history
  <2> QED BY <1>0, <2>1, InPlaceFacts, OthersFire
<1>5. ASSUME NEW w \in Replicas, RecoverDies(w) \/ Crash(w) PROVE FALSE
  BY <1>0, <1>5 DEF RecoverDies, Crash
<1>6. CASE LockExpires
  BY <1>6 DEF LockExpires, StagedIsWork
<1>7. ASSUME NEW w \in Replicas,
             \/ Pick(w) \/ Unqueue(w) \/ Outcome(w) \/ RestoreInsert(w) \/ RestoreDrop(w)
             \/ Fire(w) \/ Recover(w)
      PROVE  FiresOnce'
  BY <1>7, PickFires, UnqueueFires, OutcomeFires, RestoreInsertFires, RestoreDropFires, FireFires,
     RecoverFires
<1> QED
  BY <1>1, <1>2, <1>3, <1>4, <1>5, <1>6, <1>7, AcceptFires, SweepFires
     DEF Changes, PodStores, PodAdmits, PodFails, PodForgets, Archive, acceptVars, history

LEMMA AloneInit == Init => AloneInv
<1>1. ASSUME Init PROVE StagedIsWork
  BY <1>1, OutboxAssumption DEF Init, StagedIsWork, Free, Stale
<1>2. ASSUME Init PROVE FiresOnce
  <2>1. Ids(main) = {} /\ Ids(staging) = {} /\ UniqueIds(main)
    BY <1>2 DEF Init, Ids, ToSet, UniqueIds
  <2>2. ListFires /\ HookOnce
    BY <1>2, <2>1 DEF Init, ListFires, HookOnce
  <2>3. ASSUME NEW w \in Replicas PROVE WorkFires(w)
    <3>1. pc[w] = "down"
      BY <1>2 DEF Init
    <3> QED BY <3>1 DEF WorkFires, Busy, Staged, Sending
  <2> QED BY <2>2, <2>3 DEF FiresOnce
<1> QED BY <1>1, <1>2 DEF AloneInv

LEMMA AloneStep ==
    ASSUME WorkInv, AloneInv, MaxCrashes = 0, [Next]_vars
    PROVE  AloneInv'
<1>1. CASE Next
  BY <1>1, NextChanges, StagedStep, FiresStep DEF AloneInv
<1>2. CASE UNCHANGED vars
  BY <1>2
     DEF vars, acceptVars, queueVars, workVars, history, AloneInv, StagedIsWork, FiresOnce,
         ListFires, WorkFires, PlaceKept, Unfired, HookOnce
<1> QED BY <1>1, <1>2

(* While no replica dies, the delivered hook fires at most once for every  *)
(* entry, whatever the user, the operator, the sweeps and the pod do.      *)
THEOREM HookFiresOnce ==
    ASSUME MaxCrashes = 0
    PROVE  Spec => []HookOnce
<1> DEFINE Inv == WorkInv /\ AloneInv
<1>1. Init => Inv
  BY AloneInit, WorkInvInit
<1>2. Inv /\ [Next]_vars => Inv'
  BY AloneStep, WorkInvStep
<1>3. Inv => HookOnce
  BY DEF AloneInv, FiresOnce
<1> QED BY <1>1, <1>2, <1>3, PTL DEF Spec

-----------------------------------------------------------------------------
(* No entry is lost when no message is posted twice. *)

(* An entry that some list or some record of its end holds. *)
Kept(e) == e \in Ids(main) \cup Ids(staging) \cup claimed \cup dismissed

LEMMA IdleKeeps ==
    ASSUME NEW w \in Replicas, pc'[w] \notin Busy
    PROVE  CopyKept(w)'
BY DEF CopyKept, Busy, Staged, Sending

LEMMA FreeKeeps ==
    ASSUME WorkInv, lock \notin Replicas, UNCHANGED <<pc, work>>
    PROVE  CopiesKept'
<1>1. ASSUME NEW w \in Replicas PROVE CopyKept(w)'
  BY OthersIdle, IdleKeeps
<1> QED BY <1>1 DEF CopiesKept

LEMMA HolderKeeps ==
    ASSUME WorkInv, NEW w \in Replicas, lock \in {w, Free}, CopyKept(w)',
           \A u \in Replicas : u # w => pc'[u] = pc[u]
    PROVE  CopiesKept'
<1>1. ASSUME NEW u \in Replicas, u # w PROVE CopyKept(u)'
  <2>1. pc'[u] \notin Busy
    BY <1>1, OutboxAssumption, OthersIdle
  <2> QED BY <2>1, IdleKeeps
<1> QED BY <1>1 DEF CopiesKept

(* A step that lets nothing go keeps every entry. *)
LEMMA KeptStep ==
    ASSUME NeverLost, UNCHANGED <<accept, marker>>, \A e \in Entries : Kept(e) => Kept(e)'
    PROVE  NeverLost'
BY DEF NeverLost, Kept

LEMMA AcceptKeeps ==
    ASSUME WorkInv, KeepInv, Twice = {}, NEW e \in Entries,
           AcceptCheck(e) \/ AcceptPush(e) \/ AcceptMark(e) \/ AcceptWithdraw(e)
    PROVE  KeepInv'
<1>0. /\ main \in Seq(Records) /\ marker \in [Messages -> Entries \cup {NoEntry}]
      /\ accept \in [Entries -> {"new", "checked", "pushed", "lost", "accepted", "duplicate", "capped"}]
  BY DEF WorkInv, OutboxTypes
<1>1. \A f \in Entries : Message(f) \in Messages /\ f # NoEntry /\ (Message(f) = Message(e) => f = e)
  BY DEF Entries, Message, NoEntry
<1>2. UNCHANGED <<staging, lock, pc, work, claimed, dismissed>>
  BY DEF AcceptCheck, AcceptPush, AcceptMark, AcceptWithdraw, queueVars, workVars, history
<1>3. MarkedOnce /\ CopiesKept /\ NeverLost
  BY DEF KeepInv
<1>4. CASE AcceptPush(e) /\ main' = Append(main, Fresh(e)) /\ accept' = [accept EXCEPT ![e] = "pushed"]
  <2>1. /\ Len(main') = Len(main) + 1 /\ Len(main) \in Nat
        /\ \A i \in 1..Len(main) : main'[i] = main[i]
        /\ ToSet(main') = ToSet(main) \cup {Fresh(e)} /\ Ids(main') = Ids(main) \cup {e}
    BY <1>0, <1>4, FreshRecord, AppendFacts
  <2>2. marker' = marker /\ accept[e] = "checked"
    BY <1>4 DEF AcceptPush
  <2>3. MarkedOnce'
    BY <1>0, <1>3, <1>4, <2>2 DEF MarkedOnce
  <2>4. NeverLost'
    BY <1>0, <1>2, <1>3, <1>4, <2>1, <2>2 DEF NeverLost
  <2>5. ASSUME NEW w \in Replicas PROVE CopyKept(w)'
    <3>1. CopyKept(w)
      BY <1>3 DEF CopiesKept
    <3>2. \A i \in 1..Len(main) : i \in 1..Len(main')
      BY <2>1
    <3> QED BY <1>2, <2>1, <3>1, <3>2 DEF CopyKept
  <2> QED BY <2>3, <2>4, <2>5 DEF KeepInv, CopiesKept
<1>5. CASE UNCHANGED <<main, marker>> /\ accept' = [accept EXCEPT ![e] = "capped"] /\ accept[e] = "checked"
  <2>1. MarkedOnce' /\ NeverLost'
    BY <1>0, <1>2, <1>3, <1>5 DEF MarkedOnce, NeverLost
  <2> QED BY <1>2, <1>3, <1>5, <2>1 DEF KeepInv, CopiesKept, CopyKept
<1>6. CASE AcceptCheck(e)
  <2>1. marker[Message(e)] = NoEntry /\ accept' = [accept EXCEPT ![e] = "checked"]
    BY <1>3, <1>6 DEF AcceptCheck, MarkedOnce
  <2>2. UNCHANGED <<main, marker>> /\ accept[e] = "new"
    BY <1>6 DEF AcceptCheck, queueVars
  <2>3. MarkedOnce' /\ NeverLost'
    BY <1>0, <1>2, <1>3, <2>1, <2>2 DEF MarkedOnce, NeverLost
  <2> QED BY <1>2, <1>3, <2>2, <2>3 DEF KeepInv, CopiesKept, CopyKept
<1>7. CASE AcceptMark(e)
  <2>1. UNCHANGED main /\ accept[e] = "pushed"
    BY <1>7 DEF AcceptMark, queueVars
  <2>2. /\ accept' = [accept EXCEPT ![e] = "accepted"]
        /\ marker' = marker \/ marker' = [marker EXCEPT ![Message(e)] = e]
    BY <1>3, <1>7, <2>1 DEF AcceptMark, MarkedOnce
  <2>3. MarkedOnce'
    BY <1>0, <1>1, <1>3, <2>2 DEF MarkedOnce
  <2>4. NeverLost'
    BY <1>0, <1>1, <1>2, <1>3, <2>1, <2>2 DEF NeverLost
  <2> QED BY <1>2, <1>3, <2>1, <2>3, <2>4 DEF KeepInv, CopiesKept, CopyKept
<1>8. ~AcceptWithdraw(e)
  BY <1>3 DEF AcceptWithdraw, MarkedOnce
<1> QED BY <1>4, <1>5, <1>6, <1>7, <1>8 DEF AcceptPush

LEMMA PickKeeps ==
    ASSUME WorkInv, NeverLost, NEW w \in Replicas, Pick(w)
    PROVE  CopiesKept' /\ NeverLost'
<1>0. /\ main \in Seq(Records) /\ staging \in Seq(Records) /\ lock = Free
      /\ UNCHANGED <<main, accept, marker, claimed, dismissed>>
      /\ pc \in [Replicas -> Places] /\ work \in [Replicas -> Works]
  BY DEF WorkInv, OutboxTypes, Pick, LockFree, acceptVars, history
<1>1. PICK i \in 1..Len(main) :
         /\ work' = [work EXCEPT ![w] = [NoWork EXCEPT !.idx = i, !.was = <<main[i]>>]]
         /\ \/ pc' = [pc EXCEPT ![w] = "verify"] /\ staging' = staging
            \/ pc' = [pc EXCEPT ![w] = "staged"] /\ staging' = Append(staging, main[i])
  BY DEF Pick
<1>2. main[i] \in Records
  BY <1>0
<1>3. work'[w].was[1] = main[i] /\ work'[w].idx = i
  BY <1>0, <1>1 DEF NoWork
<1>4. LET t == Append(staging, main[i])
      IN  ToSet(t) = ToSet(staging) \cup {main[i]} /\ Ids(t) = Ids(staging) \cup {main[i].id}
  BY <1>0, <1>2, AppendFacts
<1>5. Ids(staging) \subseteq Ids(staging')
  BY <1>1, <1>4
<1>6. NeverLost'
  BY <1>0, <1>5 DEF NeverLost
<1>7. CopyKept(w)'
  <2>1. CASE pc' = [pc EXCEPT ![w] = "verify"]
    <3>1. pc'[w] = "verify"
      BY <1>0, <2>1
    <3> QED BY <1>0, <1>1, <1>3, <3>1 DEF CopyKept, Staged, Sending
  <2>2. CASE pc' = [pc EXCEPT ![w] = "staged"] /\ staging' = Append(staging, main[i])
    <3>1. pc'[w] = "staged"
      BY <1>0, <2>2
    <3>2. main[i] \in ToSet(staging')
      BY <1>4, <2>2
    <3> QED BY <1>3, <3>1, <3>2 DEF CopyKept
  <2> QED BY <1>1, <2>1, <2>2
<1>8. \A u \in Replicas : u # w => pc'[u] = pc[u]
  BY <1>0, <1>1
<1> QED BY <1>0, <1>6, <1>7, <1>8, HolderKeeps

LEMMA UnqueueKeeps ==
    ASSUME WorkInv, CopiesKept, NeverLost, NEW w \in Replicas, Unqueue(w)
    PROVE  CopiesKept' /\ NeverLost'
<1> DEFINE v == work[w].was[1]
           t == RemoveFirst(main, v)
<1>0. /\ main \in Seq(Records) /\ staging \in Seq(Records) /\ pc[w] = "staged" /\ main' = t
      /\ UNCHANGED <<staging, accept, marker, claimed, dismissed>>
      /\ pc \in [Replicas -> Places] /\ work \in [Replicas -> Works]
      /\ pc' = [pc EXCEPT ![w] = "send"]
  BY DEF WorkInv, OutboxTypes, Unqueue, acceptVars, history
<1>1. work'[w].was = work[w].was
  BY <1>0 DEF Unqueue, Works
<1>2. lock = w /\ v \in ToSet(staging)
  BY <1>0, WorkerFacts DEF Busy, Staged, CopiesKept, CopyKept
<1> HIDE DEF v
<1>3. \A x \in ToSet(main) : x # v => x \in ToSet(t)
  BY <1>0, RemoveFirstFacts
<1> HIDE DEF t
<1>4. Ids(main) \subseteq Ids(t) \cup Ids(staging)
  BY <1>2, <1>3 DEF Ids
<1>5. NeverLost'
  BY <1>0, <1>4 DEF NeverLost
<1>6. pc'[w] = "send" /\ work'[w].was[1] = v
  BY <1>0, <1>1 DEF v
<1>7. CopyKept(w)'
  BY <1>0, <1>2, <1>6 DEF CopyKept
<1>8. \A u \in Replicas : u # w => pc'[u] = pc[u]
  BY <1>0
<1> QED BY <1>2, <1>5, <1>7, <1>8, HolderKeeps

(* What a claim lets go it records. *)
LEMMA ConfirmsKeep ==
    ASSUME WorkInv, NeverLost, NEW w \in Replicas, Confirms(w),
           UNCHANGED <<accept, marker, dismissed>>
    PROVE  NeverLost'
<1> DEFINE v == work[w].was[1]
           s == Without(main, {v})
           t == Without(staging, {v})
<1>1. main \in Seq(Records) /\ staging \in Seq(Records)
  BY DEF WorkInv, OutboxTypes
<1>2. main' = s /\ staging' = t
  BY DEF Confirms, Complete, claimDelivered
<1>3. ToSet(s) = ToSet(main) \ {v} /\ ToSet(t) = ToSet(staging) \ {v}
  BY <1>1, WithoutFacts
<1>4. /\ claimed \subseteq claimed'
      /\ v \in ToSet(main) \cup ToSet(staging) => v.id \in claimed'
  BY DEF Confirms, Complete
<1> HIDE DEF s, t, v
<1>5. \A e : e \in Ids(main) => e \in Ids(s) \cup claimed'
  BY <1>3, <1>4 DEF Ids
<1>6. \A e : e \in Ids(staging) => e \in Ids(t) \cup claimed'
  BY <1>3, <1>4 DEF Ids
<1>7. \A e \in Entries : Kept(e) => Kept(e)'
  BY <1>2, <1>4, <1>5, <1>6 DEF Kept
<1> QED BY <1>7, KeptStep

LEMMA OutcomeKeeps ==
    ASSUME WorkInv, CopiesKept, NeverLost, NEW w \in Replicas, Outcome(w)
    PROVE  CopiesKept' /\ NeverLost'
<1> DEFINE v == work[w].was[1]
<1>0. /\ main \in Seq(Records) /\ staging \in Seq(Records) /\ pc[w] \in Busy
      /\ UNCHANGED <<accept, marker, dismissed>>
      /\ pc \in [Replicas -> Places] /\ work \in [Replicas -> Works]
  BY DEF WorkInv, OutboxTypes, Outcome, acceptVars, Asking, Busy, Staged, Sending
<1>1. lock = w /\ CopyKept(w) /\ work[w].idx \in Nat /\ work[w].idx > 0
  BY <1>0, WorkerFacts DEF CopiesKept
<1>2. ASSUME pc'[w] \notin Busy \/ pc'[w] = "fire", \A u \in Replicas : u # w => pc'[u] = pc[u]
      PROVE  CopiesKept'
  <2>1. CopyKept(w)'
    BY <1>2 DEF CopyKept, Busy, Staged, Sending
  <2> QED BY <1>1, <1>2, <2>1, HolderKeeps
<1>3. CASE pc[w] \in Asking /\ GoesOn(w)
  <2>1. PICK p \in Asking : pc' = [pc EXCEPT ![w] = p] /\ UNCHANGED <<main, staging, work, claimed>>
    BY <1>3 DEF GoesOn, Goto, queueVars
  <2>2. pc'[w] = p /\ \A u \in Replicas : u # w => pc'[u] = pc[u]
    BY <1>0, <2>1
  <2>3. CopyKept(w)'
    BY <1>1, <1>3, <2>1, <2>2 DEF CopyKept, Asking, Staged, Sending
  <2>4. NeverLost'
    BY <1>0, <2>1 DEF NeverLost
  <2> QED BY <1>1, <2>2, <2>3, <2>4, HolderKeeps
<1>4. CASE pc[w] \in Asking /\ Restores(w)
  <2>1. pc' = [pc EXCEPT ![w] = "insert"] /\ UNCHANGED <<main, staging, claimed>>
    BY <1>4 DEF Restores, Restore, queueVars
  <2>2. /\ work'[w].was = work[w].was
        /\ work'[w].pivot = IF work[w].idx > Len(main) THEN <<>> ELSE <<main[work[w].idx]>>
    BY <1>0, <1>4 DEF Restores, Restore, Works
  <2>3. pc'[w] = "insert" /\ \A u \in Replicas : u # w => pc'[u] = pc[u]
    BY <1>0, <2>1
  <2>4. v \in ToSet(staging)
    BY <1>1, <1>4 DEF CopyKept, Asking, Staged, Sending
  <2>5. ASSUME work'[w].pivot # <<>> PROVE work'[w].pivot[1] \in ToSet(main)
    <3>1. ~(work[w].idx > Len(main)) /\ work'[w].pivot[1] = main[work[w].idx]
      BY <2>2, <2>5
    <3>2. work[w].idx \in 1..Len(main)
      BY <1>0, <1>1, <3>1
    <3> QED BY <1>0, <3>1, <3>2, MemberFacts
  <2>6. CopyKept(w)'
    BY <2>1, <2>2, <2>3, <2>4, <2>5 DEF CopyKept
  <2>7. NeverLost'
    BY <1>0, <2>1 DEF NeverLost
  <2> QED BY <1>1, <2>3, <2>6, <2>7, HolderKeeps
<1>5. CASE Confirms(w)
  <2>1. NeverLost'
    BY <1>0, <1>5, ConfirmsKeep
  <2>2. pc' = [pc EXCEPT ![w] = "fire"] \/ pc' = [pc EXCEPT ![w] = "idle"]
    BY <1>5 DEF Confirms, Complete, Release
  <2>3. pc'[w] \in {"fire", "idle"} /\ \A u \in Replicas : u # w => pc'[u] = pc[u]
    BY <1>0, <2>2
  <2>4. CopiesKept'
    BY <1>2, <2>3 DEF Busy, Staged, Sending
  <2> QED BY <2>1, <2>4
<1>6. CASE pc[w] = "verify" /\ Rewrites(w)
  <2>1. PICK r \in Records : r.id = v.id /\ Rewrite(w, r)
    BY <1>6 DEF Rewrites
  <2>2. work[w].idx \in 1..Len(main) /\ main[work[w].idx] = v
    BY <1>1, <1>6 DEF CopyKept
  <2> DEFINE t == [main EXCEPT ![work[w].idx] = r]
  <2>3. main' = t /\ UNCHANGED <<staging, claimed>> /\ Release(w)
    BY <1>0, <2>1, <2>2 DEF Rewrite, ReplaceAt
  <2>4. Ids(t) = Ids(main)
    BY <1>0, <2>1, <2>2, ReplaceFacts
  <2> HIDE DEF t
  <2>5. NeverLost'
    BY <1>0, <2>3, <2>4 DEF NeverLost
  <2>6. pc'[w] = "idle" /\ \A u \in Replicas : u # w => pc'[u] = pc[u]
    BY <1>0, <2>3 DEF Release
  <2>7. CopiesKept'
    BY <1>2, <2>6 DEF Busy, Staged, Sending
  <2> QED BY <2>5, <2>7
<1> QED BY <1>3, <1>4, <1>5, <1>6 DEF Outcome

LEMMA RestoreInsertKeeps ==
    ASSUME WorkInv, CopiesKept, NeverLost, NEW w \in Replicas, RestoreInsert(w)
    PROVE  CopiesKept' /\ NeverLost'
<1> DEFINE x == work[w].new[1]
           q == work[w].pivot
<1>0. /\ main \in Seq(Records)
      /\ UNCHANGED <<staging, accept, marker, claimed, dismissed, lock, work>> /\ pc[w] = "insert"
      /\ pc \in [Replicas -> Places] /\ pc' = [pc EXCEPT ![w] = "drop"]
  BY DEF WorkInv, OutboxTypes, RestoreInsert, acceptVars, history
<1>1. /\ lock = w /\ x \in Records /\ x.id = work[w].was[1].id /\ work[w].new = <<x>>
      /\ work[w].was[1] \in ToSet(staging) /\ (q # <<>> => q[1] \in ToSet(main))
  BY <1>0, WorkerFacts, SMTT(30) DEF CopiesKept, CopyKept, Busy, Staged, Sending
<1>2. \/ main' = Append(main, x) \/ main' = <<x>> \o main
      \/ q # <<>> /\ main' = InsertBefore(main, q[1], x)
  BY <1>1 DEF RestoreInsert
<1> HIDE DEF x, q
<1>3. ToSet(main) \cup {x} \subseteq ToSet(main')
  <2>1. CASE main' = Append(main, x)
    BY <1>0, <1>1, <2>1, AppendFacts
  <2>2. CASE main' = <<x>> \o main
    <3> DEFINE o == <<x>>
    <3>1. o \in Seq(Records) /\ ToSet(o) = {x}
      BY <1>1, SingletonFacts
    <3>2. main' = o \o main
      BY <2>2
    <3> HIDE DEF o
    <3>3. ToSet(o \o main) = ToSet(o) \cup ToSet(main)
      BY <1>0, <3>1, ConcatFacts
    <3> QED BY <3>1, <3>2, <3>3
  <2>3. CASE q # <<>> /\ main' = InsertBefore(main, q[1], x)
    BY <1>0, <1>1, <2>3, InsertBeforeFacts
  <2> QED BY <1>2, <2>1, <2>2, <2>3
<1>4. Ids(main) \cup {x.id} \subseteq Ids(main')
  BY <1>3 DEF Ids
<1>5. NeverLost'
  BY <1>0, <1>4 DEF NeverLost
<1>6. pc'[w] = "drop" /\ \A u \in Replicas : u # w => pc'[u] = pc[u]
  BY <1>0
<1>7. CopyKept(w)'
  BY <1>0, <1>1, <1>4, <1>6 DEF CopyKept
<1> QED BY <1>1, <1>5, <1>6, <1>7, HolderKeeps

LEMMA RestoreDropKeeps ==
    ASSUME WorkInv, CopiesKept, NeverLost, NEW w \in Replicas, RestoreDrop(w)
    PROVE  CopiesKept' /\ NeverLost'
<1> DEFINE v == work[w].was[1]
           t == RemoveFirst(staging, v)
<1>0. /\ staging \in Seq(Records) /\ staging' = t /\ pc[w] = "drop"
      /\ UNCHANGED <<main, accept, marker, claimed, dismissed>>
      /\ pc \in [Replicas -> Places] /\ pc' = [pc EXCEPT ![w] = "idle"]
  BY DEF WorkInv, OutboxTypes, RestoreDrop, Release, acceptVars, history
<1>1. lock = w /\ v.id \in Ids(main)
  BY <1>0, WorkerFacts DEF CopiesKept, CopyKept, Busy, Staged
<1> HIDE DEF v
<1>2. \A x \in ToSet(staging) : x # v => x \in ToSet(t)
  BY <1>0, RemoveFirstFacts
<1> HIDE DEF t
<1>3. Ids(staging) \subseteq Ids(t) \cup Ids(main)
  BY <1>1, <1>2 DEF Ids
<1>4. NeverLost'
  BY <1>0, <1>3 DEF NeverLost
<1>5. pc'[w] = "idle" /\ \A u \in Replicas : u # w => pc'[u] = pc[u]
  BY <1>0
<1>6. CopyKept(w)'
  BY <1>5, IdleKeeps DEF Busy, Staged, Sending
<1> QED BY <1>1, <1>4, <1>5, <1>6, HolderKeeps

(* Recover pushes what only the staging list holds before it deletes that. *)
LEMMA RecoverKeeps ==
    ASSUME WorkInv, CopiesKept, NeverLost, NEW w \in Replicas, Recover(w)
    PROVE  CopiesKept' /\ NeverLost'
<1>0. /\ main \in Seq(Records) /\ UNCHANGED <<accept, marker, claimed, dismissed, work, lock>>
      /\ pc \in [Replicas -> Places] /\ pc' = [pc EXCEPT ![w] = "idle"] /\ pc[w] = "down"
  BY DEF WorkInv, OutboxTypes, Recover, acceptVars, history
<1>1. CASE LockFree /\ main' = Reverse(Requeued) \o main /\ staging' = <<>>
  <2> DEFINE a == Reverse(Requeued)
  <2>1. a \in Seq(Records) /\ Ids(a) = Ids(staging) \ Ids(main)
    BY RequeuedFacts, ReverseFacts
  <2>2. main' = a \o main
    BY <1>1
  <2> HIDE DEF a
  <2>3. Ids(a \o main) = Ids(a) \cup Ids(main)
    BY <1>0, <2>1, ConcatFacts
  <2>4. Ids(main') = Ids(staging) \cup Ids(main)
    BY <2>1, <2>2, <2>3
  <2>5. NeverLost'
    BY <1>0, <2>4 DEF NeverLost
  <2>6. ASSUME NEW u \in Replicas PROVE CopyKept(u)'
    <3>1. pc'[u] = pc[u] \/ pc'[u] = "idle"
      BY <1>0
    <3>2. pc[u] \notin Busy
      BY <1>1, OthersIdle, OutboxAssumption DEF LockFree
    <3>3. pc'[u] \notin Busy
      BY <3>1, <3>2 DEF Busy, Staged, Sending
    <3> QED BY <3>3, IdleKeeps
  <2> QED BY <2>5, <2>6 DEF CopiesKept
<1>2. CASE UNCHANGED queueVars
  <2>1. NeverLost'
    BY <1>0, <1>2 DEF NeverLost, queueVars
  <2>2. ASSUME NEW u \in Replicas PROVE CopyKept(u)'
    <3>1. CASE u = w
      <4>1. pc'[u] = "idle"
        BY <1>0, <3>1
      <4> QED BY <4>1, IdleKeeps DEF Busy, Staged, Sending
    <3>2. CASE u # w
      <4>1. pc'[u] = pc[u]
        BY <1>0, <3>2
      <4> QED BY <1>0, <1>2, <4>1 DEF CopiesKept, CopyKept, queueVars
    <3> QED BY <3>1, <3>2
  <2> QED BY <2>1, <2>2 DEF CopiesKept
<1> QED BY <1>1, <1>2 DEF Recover

LEMMA RecoverDiesKeeps ==
    ASSUME WorkInv, NeverLost, NEW w \in Replicas, RecoverDies(w)
    PROVE  CopiesKept' /\ NeverLost'
<1>0. /\ main \in Seq(Records) /\ UNCHANGED <<accept, marker, claimed, dismissed, staging, pc, work>>
      /\ lock \notin Replicas
  BY OutboxAssumption DEF WorkInv, OutboxTypes, RecoverDies, LockFree, acceptVars, history
<1>1. PICK n \in 1..Len(Requeued) : main' = Reverse(SubSeq(Requeued, 1, n)) \o main
  BY DEF RecoverDies
<1> DEFINE a == Reverse(SubSeq(Requeued, 1, n))
<1>2. a \in Seq(Records)
  <2>1. SubSeq(Requeued, 1, n) \in Seq(Records)
    BY RequeuedFacts
  <2> QED BY <2>1, ReverseFacts
<1>3. main' = a \o main
  BY <1>1
<1> HIDE DEF a
<1>4. Ids(a \o main) = Ids(a) \cup Ids(main)
  BY <1>0, <1>2, ConcatFacts
<1>5. NeverLost'
  BY <1>0, <1>3, <1>4 DEF NeverLost
<1> QED BY <1>0, <1>5, FreeKeeps

LEMMA CrashKeeps ==
    ASSUME WorkInv, CopiesKept, NeverLost, NEW w \in Replicas, Crash(w)
    PROVE  CopiesKept' /\ NeverLost'
<1>0. /\ UNCHANGED <<main, staging, accept, marker, claimed, dismissed>>
      /\ pc \in [Replicas -> Places] /\ pc' = [pc EXCEPT ![w] = "down"]
      /\ work \in [Replicas -> Works] /\ work' = [work EXCEPT ![w] = NoWork]
  BY DEF WorkInv, OutboxTypes, Crash, acceptVars, queueVars, history
<1>1. NeverLost'
  BY <1>0 DEF NeverLost
<1>2. ASSUME NEW u \in Replicas PROVE CopyKept(u)'
  <2>1. CASE u = w
    <3>1. pc'[u] = "down"
      BY <1>0, <2>1
    <3> QED BY <3>1, IdleKeeps DEF Busy, Staged, Sending
  <2>2. CASE u # w
    <3>1. pc'[u] = pc[u] /\ work'[u] = work[u]
      BY <1>0, <2>2
    <3> QED BY <1>0, <3>1 DEF CopiesKept, CopyKept
  <2> QED BY <2>1, <2>2
<1> QED BY <1>1, <1>2 DEF CopiesKept

LEMMA SweepKeeps ==
    ASSUME WorkInv, NeverLost, SweepParkedErrors
    PROVE  CopiesKept' /\ NeverLost'
<1>0. /\ main \in Seq(Records) /\ staging \in Seq(Records) /\ lock \notin Replicas
      /\ UNCHANGED <<accept, marker, dismissed, pc, work>>
  BY OutboxAssumption DEF WorkInv, OutboxTypes, SweepParkedErrors, LockFree, acceptVars, workVars
<1>1. PICK done : SweptOf(done)
  BY SweepFacts
<1> DEFINE s == Without(main, done)
           t == Without(staging, done)
<1>2. s \in Seq(Records) /\ ToSet(s) = ToSet(main) \ done
  BY <1>0, WithoutFacts
<1>3. ToSet(t) = ToSet(staging) \ done
  BY <1>0, WithoutFacts
<1>4. Ids(main') = Ids(s) /\ staging' = t /\ claimed' = claimed \cup {r.id : r \in done}
  BY <1>1, <1>2, InPlaceFacts DEF SweptOf
<1> HIDE DEF s, t
<1>5. \A e : e \in Ids(main) => e \in Ids(s) \cup claimed'
  BY <1>2, <1>4 DEF Ids
<1>6. \A e : e \in Ids(staging) => e \in Ids(t) \cup claimed'
  BY <1>3, <1>4 DEF Ids
<1>7. \A e \in Entries : Kept(e) => Kept(e)'
  BY <1>0, <1>4, <1>5, <1>6 DEF Kept
<1> QED BY <1>0, <1>7, KeptStep, FreeKeeps, SMTT(30)

LEMMA DismissKeeps ==
    ASSUME WorkInv, NeverLost, NEW e \in Entries, Dismiss(e)
    PROVE  CopiesKept' /\ NeverLost'
<1>0. /\ main \in Seq(Records) /\ lock \notin Replicas
      /\ UNCHANGED <<accept, marker, staging, claimed, pc, work>> /\ dismissed' = dismissed \cup {e}
  BY OutboxAssumption DEF WorkInv, OutboxTypes, Dismiss, LockFree, acceptVars, workVars
<1>1. PICK i \in 1..Len(main) : main[i].id = e /\ main' = RemoveAt(main, i)
  BY DismissFacts
<1> DEFINE t == RemoveAt(main, i)
<1>2. t \in Seq(Records) /\ \A k \in 1..Len(main) : k # i => main[k] \in ToSet(t)
  BY <1>0, RemoveAtFacts
<1>3. main' = t
  BY <1>1
<1> HIDE DEF t
<1>4. ASSUME NEW f \in Ids(main), f # e PROVE f \in Ids(t)
  <2>1. PICK k \in 1..Len(main) : main[k].id = f
    BY <1>0, MemberFacts
  <2>2. main[k] \in ToSet(t)
    BY <1>1, <1>2, <1>4, <2>1
  <2> QED BY <2>1, <2>2 DEF Ids
<1>5. \A f \in Entries : Kept(f) => Kept(f)'
  BY <1>0, <1>3, <1>4 DEF Kept
<1> QED BY <1>0, <1>5, KeptStep, FreeKeeps

LEMMA KeepStep ==
    ASSUME WorkInv, KeepInv, Twice = {}, Changes
    PROVE  KeepInv'
<1>0. main \in Seq(Records) /\ MarkedOnce /\ CopiesKept /\ NeverLost
  BY DEF WorkInv, OutboxTypes, KeepInv
<1>1. ASSUME UNCHANGED acceptVars, CopiesKept', NeverLost' PROVE KeepInv'
  BY <1>0, <1>1 DEF KeepInv, MarkedOnce, acceptVars
<1>2. CASE UNCHANGED <<acceptVars, queueVars, pc, work, claimed, dismissed>>
  BY <1>0, <1>1, <1>2 DEF acceptVars, queueVars, CopiesKept, CopyKept, NeverLost
<1>3. ASSUME NEW w \in Replicas, Fire(w) PROVE KeepInv'
  <2>1. /\ UNCHANGED <<acceptVars, main, staging, claimed, dismissed>> /\ pc[w] = "fire"
        /\ pc \in [Replicas -> Places] /\ pc' = [pc EXCEPT ![w] = "idle"]
    BY <1>3 DEF Fire, Release, queueVars, WorkInv, OutboxTypes
  <2>2. lock = w
    BY <2>1, WorkerFacts DEF Busy
  <2>3. pc'[w] = "idle" /\ \A u \in Replicas : u # w => pc'[u] = pc[u]
    BY <2>1
  <2>4. CopyKept(w)'
    BY <2>3, IdleKeeps DEF Busy, Staged, Sending
  <2>5. CopiesKept'
    BY <2>2, <2>3, <2>4, HolderKeeps
  <2>6. NeverLost'
    BY <1>0, <2>1 DEF NeverLost, acceptVars
  <2> QED BY <1>1, <2>1, <2>5, <2>6
<1>4. ASSUME InPlace(main, main'), lock = Free, UNCHANGED <<acceptVars, staging, workVars, claimed, dismissed>>
      PROVE  KeepInv'
  <2>1. Ids(main') = Ids(main)
    BY <1>0, <1>4, InPlaceFacts
  <2>2. NeverLost'
    BY <1>0, <1>4, <2>1 DEF NeverLost, acceptVars
  <2>3. CopiesKept'
    BY <1>4, FreeKeeps, OutboxAssumption, SMTT(30) DEF workVars
  <2> QED BY <1>1, <1>4, <2>2, <2>3
<1>5. ASSUME NEW e \in Entries, Retry(e) PROVE KeepInv'
  BY <1>4, <1>5, RetryFacts DEF Retry, LockFree
<1>6. CASE SweepWorkspaceUnverifiable \/ ParkWorkspace \/ UnparkWorkspace
  <2>1. InPlace(main, main')
    BY <1>6, WorkspaceRewrites
  <2> QED BY <1>4, <1>6, <2>1
       DEF SweepWorkspaceUnverifiable, ParkWorkspace, UnparkWorkspace, LockFree, history
<1>7. ASSUME NEW e \in Entries, Dismiss(e) PROVE KeepInv'
  BY <1>0, <1>1, <1>7, DismissKeeps DEF Dismiss
<1>8. CASE SweepParkedErrors
  BY <1>0, <1>1, <1>8, SweepKeeps DEF SweepParkedErrors
<1>9. ASSUME NEW w \in Replicas,
             \/ Pick(w) \/ Unqueue(w) \/ Outcome(w) \/ RestoreInsert(w) \/ RestoreDrop(w)
             \/ Recover(w) \/ RecoverDies(w) \/ Crash(w)
      PROVE  KeepInv'
  <2>1. UNCHANGED acceptVars
    BY <1>9 DEF Pick, Unqueue, Outcome, RestoreInsert, RestoreDrop, Recover, RecoverDies, Crash
  <2>2. CopiesKept' /\ NeverLost'
    BY <1>0, <1>9, PickKeeps, UnqueueKeeps, OutcomeKeeps, RestoreInsertKeeps, RestoreDropKeeps,
       RecoverKeeps, RecoverDiesKeeps, CrashKeeps
  <2> QED BY <1>1, <2>1, <2>2, SMTT(30)
<1> QED
  BY <1>2, <1>3, <1>5, <1>6, <1>7, <1>8, <1>9, AcceptKeeps
     DEF Changes, LockExpires, PodStores, PodAdmits, PodFails, PodForgets, Archive, workVars, history

(* When no message is posted twice, no accepted entry is lost: a list      *)
(* holds it until it is confirmed or dismissed, whichever replicas die, as *)
(* often as they may, between any two commands of deliverOne,              *)
(* restoreStaged and Recover.                                              *)
THEOREM AcceptedIsKept ==
    ASSUME Twice = {}
    PROVE  Spec => []NeverLost
<1> DEFINE Inv == WorkInv /\ KeepInv
<1>1. Init => Inv
  <2>1. ASSUME Init PROVE KeepInv
    <3>1. \A e \in Entries : Message(e) \in Messages /\ e # NoEntry
      BY DEF Entries, Message, NoEntry
    <3>2. MarkedOnce /\ NeverLost
      BY <2>1, <3>1 DEF Init, MarkedOnce, NeverLost
    <3>3. CopiesKept
      <4>1. SUFFICES ASSUME NEW w \in Replicas PROVE CopyKept(w)
        BY DEF CopiesKept
      <4>2. pc[w] = "down"
        BY <2>1 DEF Init
      <4> QED BY <4>2 DEF CopyKept, Staged, Sending
    <3> QED BY <3>2, <3>3 DEF KeepInv
  <2> QED BY <2>1, WorkInvInit
<1>2. Inv /\ [Next]_vars => Inv'
  <2>1. ASSUME WorkInv, KeepInv, [Next]_vars PROVE KeepInv'
    <3>1. CASE Next
      BY <2>1, <3>1, NextChanges, KeepStep
    <3>2. CASE UNCHANGED vars
      BY <2>1, <3>2
         DEF vars, acceptVars, queueVars, workVars, history, KeepInv, MarkedOnce, CopiesKept,
             CopyKept, NeverLost
    <3> QED BY <2>1, <3>1, <3>2
  <2> QED BY <2>1, WorkInvStep
<1>3. Inv => NeverLost
  BY DEF KeepInv
<1> QED BY <1>1, <1>2, <1>3, PTL DEF Spec

-----------------------------------------------------------------------------
(* The outbox and the pod's ledger. *)

LEMMA ContractStep ==
    ASSUME WorkInv, [Next]_vars
    PROVE  [Contract!Next]_<<row, transcript>>
<1> DEFINE K == Entries \X (1..MaxRows)
<1>1. CASE UNCHANGED podVars
  BY <1>1 DEF podVars
<1>2. CASE Next
  <2>1. Changes
    BY <1>2, NextChanges
  <2>2. /\ row' \in [K -> Contract!RowStates] /\ row \in [K -> Contract!RowStates]
        /\ transcript \subseteq transcript' /\ transcript' \subseteq Entries
        /\ \A k \in K : row'[k] = "done" => k[1] \in transcript'
    BY <2>1, PodTyped DEF WorkInv, OutboxTypes, DoneIsStored
  <2>3. ASSUME \A k \in K : row'[k] \in Contract!Moves(row[k]),
               \A e \in transcript' \ transcript : \E a \in 1..MaxRows : row[<<e, a>>] # "none"
        PROVE  Contract!Next
    BY <2>2, <2>3 DEF Contract!Next
  <2>4. \A s \in Contract!RowStates : s \in Contract!Moves(s)
    BY DEF Contract!RowStates, Contract!Moves
  <2>5. ASSUME NEW w \in Replicas, Outcome(w) PROVE Contract!Next
    <3>1. transcript' = transcript
      BY <2>5 DEF Outcome
    <3>2. ASSUME NEW k \in K PROVE row'[k] \in Contract!Moves(row[k])
      <4>1. row'[k] = row[k] \/ (row[k] = "none" /\ row'[k] = "ledgered")
        BY <2>5 DEF Outcome
      <4> QED BY <2>2, <2>4, <4>1 DEF Contract!Moves
    <3> QED BY <2>3, <3>1, <3>2
  <2>6. ASSUME NEW e \in Entries, PodStores(e) PROVE Contract!Next
    <3>1. row' = row /\ transcript' \ transcript \subseteq {e}
      BY <2>6 DEF PodStores
    <3>2. \E a \in 1..MaxRows : row[<<e, a>>] # "none"
      BY <2>6 DEF PodStores, Row
    <3> QED BY <2>2, <2>3, <2>4, <3>1, <3>2
  <2>7. ASSUME NEW k \in K, PodAdmits(k) \/ PodFails(k) \/ PodForgets(k) PROVE Contract!Next
    <3>1. PICK s \in Contract!Moves(row[k]) : row' = [row EXCEPT ![k] = s]
      BY <2>7 DEF PodAdmits, PodFails, PodForgets, Contract!Moves
    <3>2. transcript' = transcript
      BY <2>7 DEF PodAdmits, PodFails, PodForgets
    <3>3. ASSUME NEW j \in K PROVE row'[j] \in Contract!Moves(row[j])
      BY <2>2, <2>4, <3>1
    <3> QED BY <2>3, <3>2, <3>3
  <2> QED
    BY <1>1, <2>1, <2>5, <2>6, <2>7
       DEF Changes, AcceptCheck, AcceptPush, AcceptMark, AcceptWithdraw, Pick, Unqueue, Fire,
           RestoreInsert, RestoreDrop, Recover, RecoverDies, Crash, LockExpires, Dismiss, Retry,
           SweepWorkspaceUnverifiable, SweepParkedErrors, ParkWorkspace, UnparkWorkspace, Archive
<1>3. CASE UNCHANGED vars
  BY <1>1, <1>3 DEF vars
<1> QED BY <1>2, <1>3

(* Beside the outbox the pod's rows change only as the ledger's contract   *)
(* says: the outbox makes rows and resolves none, whatever it restores,    *)
(* requeues, retries or forgets.                                           *)
THEOREM PodWithinContract == Spec => Contract!Spec
<1>1. Init => Contract!Init
  BY DEF Init
<1>2. WorkInv /\ [Next]_vars => [Contract!Next]_<<row, transcript>>
  BY ContractStep
<1> QED BY <1>1, <1>2, OutboxTypesHold, PTL DEF Spec, Contract!Spec

-----------------------------------------------------------------------------
(* What can let an entry go, for all constants: with deaths and with       *)
(* messages posted twice.                                                  *)

Unfresh(r) == r.status = "pending" => r.gated

(* What a worker is about to take from the staging list is in the queue,   *)
(* unless the place for it was withdrawn; a copy that the worker writes is *)
(* none that an Accept withdraws, and verifyOne's index is still right.    *)
Found(w) ==
    /\ pc[w] \in Staged => work[w].was[1] \in ToSet(staging)
    /\ pc[w] = "insert" =>
          /\ Unfresh(work[w].new[1])
          /\ work[w].pivot # <<>> =>
                \/ work[w].pivot[1] \in ToSet(main)
                \/ accept[work[w].pivot[1].id] = "duplicate"
    /\ pc[w] = "drop" =>
          \/ Unfresh(work[w].new[1]) /\ work[w].new[1] \in ToSet(main)
          \/ PivotWithdrawn(w)
    /\ pc[w] = "verify" => PlaceKept(w)

AllFound == \A w \in Replicas : Found(w)

LetGo(e) ==
    \/ e \in claimed' \cup dismissed'
    \/ accept[e] = "lost"
    \/ \E w \in Replicas : PivotWithdrawn(w) /\ work[w].was[1].id = e

NoneStray == \A e \in Entries : Held(e) => Held(e)' \/ LetGo(e)

LEMMA IdleFound ==
    ASSUME NEW w \in Replicas, pc'[w] \notin Busy
    PROVE  Found(w)'
BY DEF Found, Busy, Staged, Sending

LEMMA FreeFound ==
    ASSUME WorkInv, lock \notin Replicas, UNCHANGED pc
    PROVE  AllFound'
<1>1. ASSUME NEW w \in Replicas PROVE Found(w)'
  BY OthersIdle, IdleFound
<1> QED BY <1>1 DEF AllFound

LEMMA HolderFound ==
    ASSUME WorkInv, NEW w \in Replicas, lock \in {w, Free}, Found(w)',
           \A u \in Replicas : u # w => pc'[u] = pc[u]
    PROVE  AllFound'
<1>1. ASSUME NEW u \in Replicas, u # w PROVE Found(u)'
  <2>1. pc'[u] \notin Busy
    BY <1>1, OutboxAssumption, OthersIdle
  <2> QED BY <2>1, IdleFound
<1> QED BY <1>1 DEF AllFound

LEMMA GrowingLists ==
    ASSUME Ids(main) \subseteq Ids(main'), Ids(staging) \subseteq Ids(staging')
    PROVE  NoneStray
BY DEF NoneStray, Held

LEMMA PivotEntry ==
    ASSUME WorkInv, NEW w \in Replicas, work[w].pivot # <<>>
    PROVE  work[w].pivot[1].id \in Entries
<1> DEFINE s == work[w].pivot
<1>1. s \in Seq(Records)
  BY DEF WorkInv, OutboxTypes, Works
<1> HIDE DEF s
<1>2. Len(s) \in Nat /\ Len(s) # 0
  BY <1>1, EmptySeq, LenProperties DEF s
<1>3. s[1] \in Records
  BY <1>1, <1>2, ElementOfSeq
<1> QED BY <1>3 DEF s, Records

(* A withdrawal takes a fresh copy and leaves the word "duplicate".        *)
LEMMA AcceptFound ==
    ASSUME WorkInv, AllFound, NEW e \in Entries,
           AcceptCheck(e) \/ AcceptPush(e) \/ AcceptMark(e) \/ AcceptWithdraw(e)
    PROVE  AllFound' /\ NoneStray
<1>0. /\ main \in Seq(Records)
      /\ accept \in [Entries -> {"new", "checked", "pushed", "lost", "accepted", "duplicate", "capped"}]
      /\ UNCHANGED <<staging, lock, pc, work, claimed, dismissed>>
  BY DEF WorkInv, OutboxTypes, AcceptCheck, AcceptPush, AcceptMark, AcceptWithdraw, queueVars,
         workVars, history
<1>1. /\ accept[e] # "duplicate"
      /\ \A f \in Entries : accept[f] = "duplicate" => accept'[f] = "duplicate"
  BY <1>0 DEF AcceptCheck, AcceptPush, AcceptMark, AcceptWithdraw
<1>2. ASSUME NEW w \in Replicas, PivotWithdrawn(w) PROVE PivotWithdrawn(w)'
  <2>1. work[w].pivot[1].id \in Entries
    BY <1>2, PivotEntry DEF PivotWithdrawn
  <2> QED BY <1>0, <1>1, <1>2, <2>1 DEF PivotWithdrawn
<1>3. ASSUME NEW w \in Replicas,
             \A r \in ToSet(main) : r \in ToSet(main') \/ (r = Fresh(e) /\ accept'[e] = "duplicate")
      PROVE  Found(w)'
  <2>1. Found(w)
    BY DEF AllFound
  <2>2. Fresh(e).id = e /\ ~Unfresh(Fresh(e))
    BY DEF Fresh, Unfresh
  <2>3. pc[w] \in Staged => work[w].was[1] \in ToSet(staging)
    BY <2>1 DEF Found
  <2>4. ASSUME pc[w] = "insert", work[w].pivot # <<>>
        PROVE  work[w].pivot[1] \in ToSet(main') \/ accept'[work[w].pivot[1].id] = "duplicate"
    <3>1. work[w].pivot[1].id \in Entries
      BY <2>4, PivotEntry
    <3> QED BY <1>1, <1>3, <2>1, <2>2, <2>4, <3>1 DEF Found
  <2>5. pc[w] = "insert" => Unfresh(work[w].new[1])
    BY <2>1 DEF Found
  <2>6. ASSUME pc[w] = "drop"
        PROVE  \/ Unfresh(work[w].new[1]) /\ work[w].new[1] \in ToSet(main')
               \/ PivotWithdrawn(w)'
    <3>1. CASE PivotWithdrawn(w)
      BY <1>2, <3>1
    <3>2. CASE Unfresh(work[w].new[1]) /\ work[w].new[1] \in ToSet(main)
      BY <1>3, <2>2, <3>2
    <3> QED BY <2>1, <2>6, <3>1, <3>2 DEF Found
  <2>7. pc[w] = "verify" => PlaceKept(w)'
    BY <2>1, AcceptKeepsPlace DEF Found
  <2> QED BY <1>0, <2>3, <2>4, <2>5, <2>6, <2>7 DEF Found, Unfresh
<1>4. CASE AcceptWithdraw(e)
  <2> DEFINE t == RemoveFirst(main, Fresh(e))
  <2>1. main' = t /\ accept' = [accept EXCEPT ![e] = "duplicate"] /\ accept[e] = "lost"
    BY <1>4 DEF AcceptWithdraw
  <2>2. \A x \in ToSet(main) : x # Fresh(e) => x \in ToSet(t)
    BY <1>0, RemoveFirstFacts
  <2> HIDE DEF t
  <2>3. AllFound'
    BY <1>0, <1>3, <2>1, <2>2 DEF AllFound
  <2>4. \A f \in Ids(main) : f = e \/ f \in Ids(main')
    BY <2>1, <2>2, FreshRecord DEF Ids
  <2>5. NoneStray
    BY <1>0, <2>1, <2>4 DEF NoneStray, Held, LetGo
  <2> QED BY <2>3, <2>5
<1>5. CASE ToSet(main) \subseteq ToSet(main')
  <2>1. AllFound'
    BY <1>3, <1>5 DEF AllFound
  <2>2. Ids(main) \subseteq Ids(main')
    BY <1>5 DEF Ids
  <2> QED BY <1>0, <2>1, <2>2, GrowingLists
<1>6. ~AcceptWithdraw(e) => main' = main \/ main' = Append(main, Fresh(e))
  BY DEF AcceptCheck, AcceptPush, AcceptMark, queueVars
<1>7. ToSet(Append(main, Fresh(e))) = ToSet(main) \cup {Fresh(e)}
  BY <1>0, FreshRecord, AppendFacts
<1>8. ~AcceptWithdraw(e) => ToSet(main) \subseteq ToSet(main')
  BY <1>6, <1>7
<1> QED BY <1>4, <1>5, <1>8

LEMMA PickFound ==
    ASSUME WorkInv, NEW w \in Replicas, Pick(w)
    PROVE  AllFound' /\ NoneStray
<1>0. /\ main \in Seq(Records) /\ staging \in Seq(Records) /\ lock = Free /\ main' = main
      /\ pc \in [Replicas -> Places] /\ work \in [Replicas -> Works]
  BY DEF WorkInv, OutboxTypes, Pick, LockFree
<1>1. PICK i \in 1..Len(main) :
         /\ work' = [work EXCEPT ![w] = [NoWork EXCEPT !.idx = i, !.was = <<main[i]>>]]
         /\ \/ pc' = [pc EXCEPT ![w] = "verify"] /\ staging' = staging
            \/ pc' = [pc EXCEPT ![w] = "staged"] /\ staging' = Append(staging, main[i])
  BY DEF Pick
<1>2. main[i] \in Records /\ work'[w].was[1] = main[i]
  BY <1>0, <1>1 DEF NoWork
<1>3. LET t == Append(staging, main[i])
      IN  ToSet(t) = ToSet(staging) \cup {main[i]} /\ Ids(t) = Ids(staging) \cup {main[i].id}
  BY <1>0, <1>2, AppendFacts
<1>4. NoneStray
  BY <1>0, <1>1, <1>3, GrowingLists
<1>5. Found(w)'
  <2>1. CASE pc' = [pc EXCEPT ![w] = "verify"]
    <3>1. pc'[w] = "verify"
      BY <1>0, <2>1
    <3>2. PlaceKept(w)'
      BY <3>1, PickKeepsPlace
    <3> QED BY <3>1, <3>2 DEF Found, Staged, Sending
  <2>2. CASE pc' = [pc EXCEPT ![w] = "staged"] /\ staging' = Append(staging, main[i])
    <3>1. pc'[w] = "staged"
      BY <1>0, <2>2
    <3>2. main[i] \in ToSet(staging')
      BY <1>3, <2>2
    <3> QED BY <1>2, <3>1, <3>2 DEF Found
  <2> QED BY <1>1, <2>1, <2>2
<1>6. \A u \in Replicas : u # w => pc'[u] = pc[u]
  BY <1>0, <1>1
<1> QED BY <1>0, <1>4, <1>5, <1>6, HolderFound

LEMMA UnqueueFound ==
    ASSUME WorkInv, AllFound, NEW w \in Replicas, Unqueue(w)
    PROVE  AllFound' /\ NoneStray
<1> DEFINE v == work[w].was[1]
           t == RemoveFirst(main, v)
<1>0. /\ main \in Seq(Records) /\ pc[w] = "staged" /\ main' = t /\ staging' = staging
      /\ pc \in [Replicas -> Places] /\ work \in [Replicas -> Works]
      /\ pc' = [pc EXCEPT ![w] = "send"]
  BY DEF WorkInv, OutboxTypes, Unqueue
<1>1. work'[w].was = work[w].was
  BY <1>0 DEF Unqueue, Works
<1>2. lock = w /\ v \in ToSet(staging)
  BY <1>0, WorkerFacts DEF Busy, Staged, AllFound, Found
<1> HIDE DEF v
<1>3. \A x \in ToSet(main) : x # v => x \in ToSet(t)
  BY <1>0, RemoveFirstFacts
<1> HIDE DEF t
<1>4. Ids(main) \subseteq Ids(t) \cup Ids(staging)
  BY <1>2, <1>3 DEF Ids
<1>5. NoneStray
  BY <1>0, <1>4 DEF NoneStray, Held
<1>6. pc'[w] = "send" /\ work'[w].was[1] = v
  BY <1>0, <1>1 DEF v
<1>7. Found(w)'
  BY <1>0, <1>2, <1>6 DEF Found
<1>8. \A u \in Replicas : u # w => pc'[u] = pc[u]
  BY <1>0
<1> QED BY <1>2, <1>5, <1>7, <1>8, HolderFound

LEMMA OutcomeFound ==
    ASSUME WorkInv, AllFound, NEW w \in Replicas, Outcome(w)
    PROVE  AllFound' /\ NoneStray
<1> DEFINE v == work[w].was[1]
<1>0. /\ main \in Seq(Records) /\ staging \in Seq(Records) /\ pc[w] \in Busy
      /\ pc \in [Replicas -> Places] /\ work \in [Replicas -> Works] /\ accept' = accept
  BY DEF WorkInv, OutboxTypes, Outcome, acceptVars, Asking, Busy, Staged, Sending
<1>1. lock = w /\ Found(w) /\ work[w].idx \in Nat /\ work[w].idx > 0
  BY <1>0, WorkerFacts DEF AllFound
<1>2. ASSUME pc'[w] \in {"fire", "idle"}, \A u \in Replicas : u # w => pc'[u] = pc[u]
      PROVE  AllFound'
  <2>1. Found(w)'
    BY <1>2 DEF Found, Staged, Sending
  <2> QED BY <1>1, <1>2, <2>1, HolderFound
<1>3. CASE pc[w] \in Asking /\ GoesOn(w)
  <2>1. PICK p \in Asking : pc' = [pc EXCEPT ![w] = p] /\ UNCHANGED <<main, staging, work>>
    BY <1>3 DEF GoesOn, Goto, queueVars
  <2>2. pc'[w] = p /\ \A u \in Replicas : u # w => pc'[u] = pc[u]
    BY <1>0, <2>1
  <2>3. Found(w)'
    BY <1>1, <1>3, <2>1, <2>2 DEF Found, Asking, Staged, Sending
  <2> QED BY <1>1, <2>1, <2>2, <2>3, HolderFound, GrowingLists
<1>4. CASE pc[w] \in Asking /\ Restores(w)
  <2>1. PICK r \in Records : r.id = v.id /\ (r.status = "pending" => r.gated) /\ Restore(w, r)
    BY <1>4 DEF Restores
  <2>2. pc' = [pc EXCEPT ![w] = "insert"] /\ UNCHANGED <<main, staging>>
    BY <2>1 DEF Restore, queueVars
  <2>3. /\ work'[w].was = work[w].was /\ work'[w].new = <<r>>
        /\ work'[w].pivot = IF work[w].idx > Len(main) THEN <<>> ELSE <<main[work[w].idx]>>
    BY <1>0, <2>1 DEF Restore, Works
  <2>4. pc'[w] = "insert" /\ \A u \in Replicas : u # w => pc'[u] = pc[u]
    BY <1>0, <2>2
  <2>5. v \in ToSet(staging)
    BY <1>1, <1>4 DEF Found, Asking, Staged, Sending
  <2>6. ASSUME work'[w].pivot # <<>> PROVE work'[w].pivot[1] \in ToSet(main)
    <3>1. ~(work[w].idx > Len(main)) /\ work'[w].pivot[1] = main[work[w].idx]
      BY <2>3, <2>6
    <3>2. work[w].idx \in 1..Len(main)
      BY <1>0, <1>1, <3>1
    <3> QED BY <1>0, <3>1, <3>2, MemberFacts
  <2>7. work'[w].new[1] = r /\ Unfresh(r)
    BY <2>1, <2>3 DEF Unfresh
  <2>8. Found(w)'
    BY <2>2, <2>3, <2>4, <2>5, <2>6, <2>7 DEF Found, Unfresh
  <2> QED BY <1>1, <2>2, <2>4, <2>8, HolderFound, GrowingLists
<1>5. CASE Confirms(w)
  <2> DEFINE s == Without(main, {v})
             t == Without(staging, {v})
  <2>1. main' = s /\ staging' = t
    BY <1>5 DEF Confirms, Complete, claimDelivered
  <2>2. ToSet(s) = ToSet(main) \ {v} /\ ToSet(t) = ToSet(staging) \ {v}
    BY <1>0, WithoutFacts
  <2>3. v \in ToSet(main) \cup ToSet(staging) => v.id \in claimed'
    BY <1>5 DEF Confirms, Complete
  <2>4. pc' = [pc EXCEPT ![w] = "fire"] \/ pc' = [pc EXCEPT ![w] = "idle"]
    BY <1>5 DEF Confirms, Complete, Release
  <2> HIDE DEF s, t, v
  <2>5. \A e \in Ids(main) : e \in Ids(s) \cup claimed'
    BY <2>2, <2>3 DEF Ids
  <2>6. \A e \in Ids(staging) : e \in Ids(t) \cup claimed'
    BY <2>2, <2>3 DEF Ids
  <2>7. NoneStray
    BY <2>1, <2>5, <2>6 DEF NoneStray, Held, LetGo
  <2>8. pc'[w] \in {"fire", "idle"} /\ \A u \in Replicas : u # w => pc'[u] = pc[u]
    BY <1>0, <2>4
  <2> QED BY <1>2, <2>7, <2>8
<1>6. CASE pc[w] = "verify" /\ Rewrites(w)
  <2>1. PICK r \in Records : r.id = v.id /\ Rewrite(w, r)
    BY <1>6 DEF Rewrites
  <2> DEFINE i == work[w].idx
             t == [main EXCEPT ![i] = r]
  <2>2. staging' = staging /\ Release(w) /\ main' = IF i > Len(main) THEN main ELSE t
    BY <1>0, <1>1, <2>1 DEF Rewrite, ReplaceAt
  <2>3. pc'[w] = "idle" /\ \A u \in Replicas : u # w => pc'[u] = pc[u]
    BY <1>0, <2>2 DEF Release
  <2>4. AllFound'
    BY <1>2, <2>3
  <2>5. i \in 1..Len(main) /\ r.id = main[i].id /\ Len(main) \in Nat
    BY <1>0, <1>1, <1>6, <2>1 DEF Found, PlaceKept
  <2>6. main' = t
    BY <2>2, <2>5
  <2> HIDE DEF i
  <2>7. Ids(t) = Ids(main)
    BY <1>0, <2>5, ReplaceFacts
  <2>8. NoneStray
    BY <2>2, <2>6, <2>7, GrowingLists
  <2> QED BY <2>4, <2>8
<1> QED BY <1>3, <1>4, <1>5, <1>6 DEF Outcome

LEMMA RestoreInsertFound ==
    ASSUME WorkInv, AllFound, NEW w \in Replicas, RestoreInsert(w)
    PROVE  AllFound' /\ NoneStray
<1> DEFINE x == work[w].new[1]
           q == work[w].pivot
<1>0. /\ main \in Seq(Records) /\ UNCHANGED <<staging, accept, lock, work>> /\ pc[w] = "insert"
      /\ pc \in [Replicas -> Places] /\ pc' = [pc EXCEPT ![w] = "drop"]
  BY DEF WorkInv, OutboxTypes, RestoreInsert, acceptVars
<1>1. /\ lock = w /\ x \in Records /\ work[w].new = <<x>> /\ work[w].idx > 0 /\ work[w].idx \in Nat
  BY <1>0, WorkerFacts DEF Busy, Staged, Sending
<1>2. /\ work[w].was[1] \in ToSet(staging) /\ Unfresh(x)
      /\ q # <<>> => q[1] \in ToSet(main) \/ accept[q[1].id] = "duplicate"
  BY <1>0 DEF AllFound, Found, Staged, Sending
<1>3. \/ main' = Append(main, x) \/ main' = <<x>> \o main
      \/ q # <<>> /\ work[w].idx > 1 /\ main' = InsertBefore(main, q[1], x)
  <2>1. work[w].idx = 1 \/ work[w].idx > 1
    BY <1>1
  <2>2. CASE q = <<>>
    BY <2>2 DEF RestoreInsert
  <2>3. CASE q # <<>> /\ work[w].idx = 1
    BY <1>1, <2>3 DEF RestoreInsert
  <2>4. CASE q # <<>> /\ work[w].idx > 1
    <3>1. work[w].idx # 1
      BY <1>1, <2>4
    <3> QED BY <2>4, <3>1 DEF RestoreInsert
  <2> QED BY <2>1, <2>2, <2>3, <2>4
<1>4. pc'[w] = "drop" /\ \A u \in Replicas : u # w => pc'[u] = pc[u]
  BY <1>0
<1> HIDE DEF x
<1>5. ToSet(main) \subseteq ToSet(main') /\ (x \in ToSet(main') \/ PivotWithdrawn(w)')
  <2>1. CASE main' = Append(main, x)
    BY <1>0, <1>1, <2>1, AppendFacts
  <2>2. CASE main' = <<x>> \o main
    <3> DEFINE o == <<x>>
    <3>1. o \in Seq(Records) /\ ToSet(o) = {x}
      BY <1>1, SingletonFacts
    <3>2. main' = o \o main
      BY <2>2
    <3> HIDE DEF o
    <3>3. ToSet(o \o main) = ToSet(o) \cup ToSet(main)
      BY <1>0, <3>1, ConcatFacts
    <3> QED BY <3>1, <3>2, <3>3
  <2>3. CASE q # <<>> /\ work[w].idx > 1 /\ main' = InsertBefore(main, q[1], x)
    <3>1. ToSet(main) \subseteq ToSet(main') /\ (q[1] \in ToSet(main) => x \in ToSet(main'))
      BY <1>0, <1>1, <2>3, InsertBeforeFacts
    <3>2. accept[q[1].id] = "duplicate" => PivotWithdrawn(w)'
      BY <1>0, <1>4, <2>3 DEF PivotWithdrawn
    <3> QED BY <1>2, <2>3, <3>1, <3>2
  <2> QED BY <1>3, <2>1, <2>2, <2>3
<1>6. Ids(main) \subseteq Ids(main')
  BY <1>5 DEF Ids
<1>7. Found(w)'
  BY <1>0, <1>2, <1>4, <1>5 DEF Found, Unfresh, x
<1> QED BY <1>0, <1>1, <1>4, <1>6, <1>7, HolderFound, GrowingLists

LEMMA RestoreDropFound ==
    ASSUME WorkInv, AllFound, NEW w \in Replicas, RestoreDrop(w)
    PROVE  AllFound' /\ NoneStray
<1> DEFINE v == work[w].was[1]
           t == RemoveFirst(staging, v)
<1>0. /\ staging \in Seq(Records) /\ staging' = t /\ pc[w] = "drop" /\ main' = main
      /\ pc \in [Replicas -> Places] /\ pc' = [pc EXCEPT ![w] = "idle"]
  BY DEF WorkInv, OutboxTypes, RestoreDrop, Release
<1>1. lock = w /\ work[w].new[1].id = v.id
  BY <1>0, WorkerFacts DEF Busy, Staged
<1>2. v.id \in Ids(main) \/ PivotWithdrawn(w)
  BY <1>0, <1>1 DEF AllFound, Found, Ids
<1>3. PivotWithdrawn(w) => \A e : e = v.id => LetGo(e)
  BY DEF LetGo
<1> HIDE DEF v
<1>4. \A x \in ToSet(staging) : x # v => x \in ToSet(t)
  BY <1>0, RemoveFirstFacts
<1> HIDE DEF t
<1>5. \A e \in Ids(staging) : e \in Ids(t) \/ e = v.id
  BY <1>4 DEF Ids
<1>6. NoneStray
  BY <1>0, <1>2, <1>3, <1>5 DEF NoneStray, Held
<1>7. pc'[w] = "idle" /\ \A u \in Replicas : u # w => pc'[u] = pc[u]
  BY <1>0
<1>8. Found(w)'
  BY <1>7, IdleFound DEF Busy, Staged, Sending
<1> QED BY <1>1, <1>6, <1>7, <1>8, HolderFound

LEMMA RecoverFound ==
    ASSUME WorkInv, AllFound, NEW w \in Replicas, Recover(w)
    PROVE  AllFound' /\ NoneStray
<1>0. /\ main \in Seq(Records) /\ UNCHANGED <<accept, work, lock>>
      /\ pc \in [Replicas -> Places] /\ pc' = [pc EXCEPT ![w] = "idle"] /\ pc[w] = "down"
  BY DEF WorkInv, OutboxTypes, Recover, acceptVars
<1>1. CASE LockFree /\ main' = Reverse(Requeued) \o main /\ staging' = <<>>
  <2> DEFINE a == Reverse(Requeued)
  <2>1. a \in Seq(Records) /\ Ids(a) = Ids(staging) \ Ids(main)
    BY RequeuedFacts, ReverseFacts
  <2>2. main' = a \o main
    BY <1>1
  <2> HIDE DEF a
  <2>3. Ids(a \o main) = Ids(a) \cup Ids(main)
    BY <1>0, <2>1, ConcatFacts
  <2>4. Ids(main') = Ids(staging) \cup Ids(main)
    BY <2>1, <2>2, <2>3
  <2>5. NoneStray
    BY <2>4 DEF NoneStray, Held
  <2>6. ASSUME NEW u \in Replicas PROVE Found(u)'
    <3>1. pc'[u] = pc[u] \/ pc'[u] = "idle"
      BY <1>0
    <3>2. pc[u] \notin Busy
      BY <1>1, OthersIdle, OutboxAssumption DEF LockFree
    <3>3. pc'[u] \notin Busy
      BY <3>1, <3>2 DEF Busy, Staged, Sending
    <3> QED BY <3>3, IdleFound
  <2> QED BY <2>5, <2>6 DEF AllFound
<1>2. CASE UNCHANGED queueVars
  <2>1. NoneStray
    BY <1>2, GrowingLists DEF queueVars
  <2>2. ASSUME NEW u \in Replicas PROVE Found(u)'
    <3>1. CASE u = w
      <4>1. pc'[u] = "idle"
        BY <1>0, <3>1
      <4> QED BY <4>1, IdleFound DEF Busy, Staged, Sending
    <3>2. CASE u # w
      <4>1. pc'[u] = pc[u]
        BY <1>0, <3>2
      <4> QED BY <1>0, <1>2, <4>1 DEF AllFound, Found, PivotWithdrawn, PlaceKept, queueVars
    <3> QED BY <3>1, <3>2
  <2> QED BY <2>1, <2>2 DEF AllFound
<1> QED BY <1>1, <1>2 DEF Recover

LEMMA RecoverDiesFound ==
    ASSUME WorkInv, NEW w \in Replicas, RecoverDies(w)
    PROVE  AllFound' /\ NoneStray
<1>0. /\ main \in Seq(Records) /\ UNCHANGED <<staging, pc>> /\ lock \notin Replicas
  BY OutboxAssumption DEF WorkInv, OutboxTypes, RecoverDies, LockFree
<1>1. PICK n \in 1..Len(Requeued) : main' = Reverse(SubSeq(Requeued, 1, n)) \o main
  BY DEF RecoverDies
<1> DEFINE a == Reverse(SubSeq(Requeued, 1, n))
<1>2. a \in Seq(Records)
  <2>1. SubSeq(Requeued, 1, n) \in Seq(Records)
    BY RequeuedFacts
  <2> QED BY <2>1, ReverseFacts
<1>3. main' = a \o main
  BY <1>1
<1> HIDE DEF a
<1>4. Ids(a \o main) = Ids(a) \cup Ids(main)
  BY <1>0, <1>2, ConcatFacts
<1> QED BY <1>0, <1>3, <1>4, FreeFound, GrowingLists

LEMMA CrashFound ==
    ASSUME WorkInv, AllFound, NEW w \in Replicas, Crash(w)
    PROVE  AllFound' /\ NoneStray
<1>0. /\ UNCHANGED <<main, staging, accept>>
      /\ pc \in [Replicas -> Places] /\ pc' = [pc EXCEPT ![w] = "down"]
      /\ work \in [Replicas -> Works] /\ work' = [work EXCEPT ![w] = NoWork]
  BY DEF WorkInv, OutboxTypes, Crash, acceptVars, queueVars
<1>1. ASSUME NEW u \in Replicas PROVE Found(u)'
  <2>1. CASE u = w
    <3>1. pc'[u] = "down"
      BY <1>0, <2>1
    <3> QED BY <3>1, IdleFound DEF Busy, Staged, Sending
  <2>2. CASE u # w
    <3>1. pc'[u] = pc[u] /\ work'[u] = work[u]
      BY <1>0, <2>2
    <3> QED BY <1>0, <3>1 DEF AllFound, Found, PivotWithdrawn, PlaceKept
  <2> QED BY <2>1, <2>2
<1> QED BY <1>0, <1>1, GrowingLists DEF AllFound

LEMMA SweepFound ==
    ASSUME WorkInv, SweepParkedErrors
    PROVE  AllFound' /\ NoneStray
<1>0. main \in Seq(Records) /\ staging \in Seq(Records) /\ lock \notin Replicas /\ pc' = pc
  BY OutboxAssumption DEF WorkInv, OutboxTypes, SweepParkedErrors, LockFree, workVars
<1>1. PICK done : SweptOf(done)
  BY SweepFacts
<1> DEFINE s == Without(main, done)
           t == Without(staging, done)
<1>2. s \in Seq(Records) /\ ToSet(s) = ToSet(main) \ done
  BY <1>0, WithoutFacts
<1>3. ToSet(t) = ToSet(staging) \ done
  BY <1>0, WithoutFacts
<1>4. Ids(main') = Ids(s) /\ staging' = t /\ claimed' = claimed \cup {r.id : r \in done}
  BY <1>1, <1>2, InPlaceFacts DEF SweptOf
<1> HIDE DEF s, t
<1>5. \A e \in Ids(main) : e \in Ids(s) \cup claimed'
  BY <1>2, <1>4 DEF Ids
<1>6. \A e \in Ids(staging) : e \in Ids(t) \cup claimed'
  BY <1>3, <1>4 DEF Ids
<1>7. NoneStray
  BY <1>4, <1>5, <1>6 DEF NoneStray, Held, LetGo
<1> QED BY <1>0, <1>7, FreeFound

LEMMA DismissFound ==
    ASSUME WorkInv, NEW e \in Entries, Dismiss(e)
    PROVE  AllFound' /\ NoneStray
<1>0. /\ main \in Seq(Records) /\ lock \notin Replicas
      /\ UNCHANGED <<staging, pc>> /\ dismissed' = dismissed \cup {e}
  BY OutboxAssumption DEF WorkInv, OutboxTypes, Dismiss, LockFree, workVars
<1>1. PICK i \in 1..Len(main) : main[i].id = e /\ main' = RemoveAt(main, i)
  BY DismissFacts
<1> DEFINE t == RemoveAt(main, i)
<1>2. t \in Seq(Records) /\ \A k \in 1..Len(main) : k # i => main[k] \in ToSet(t)
  BY <1>0, RemoveAtFacts
<1>3. main' = t
  BY <1>1
<1> HIDE DEF t
<1>4. ASSUME NEW f \in Ids(main), f # e PROVE f \in Ids(t)
  <2>1. PICK k \in 1..Len(main) : main[k].id = f
    BY <1>0, MemberFacts
  <2>2. main[k] \in ToSet(t)
    BY <1>1, <1>2, <1>4, <2>1
  <2> QED BY <2>1, <2>2 DEF Ids
<1>5. NoneStray
  BY <1>0, <1>3, <1>4 DEF NoneStray, Held, LetGo
<1> QED BY <1>0, <1>5, FreeFound

LEMMA FoundStep ==
    ASSUME WorkInv, AllFound, Changes
    PROVE  AllFound' /\ NoneStray
<1>0. main \in Seq(Records)
  BY DEF WorkInv, OutboxTypes
<1>1. CASE UNCHANGED <<accept, queueVars, pc, work>>
  BY <1>1, GrowingLists DEF queueVars, AllFound, Found, PivotWithdrawn, PlaceKept
<1>2. ASSUME NEW w \in Replicas, Fire(w) PROVE AllFound' /\ NoneStray
  <2>1. /\ UNCHANGED <<main, staging>> /\ pc[w] = "fire"
        /\ pc \in [Replicas -> Places] /\ pc' = [pc EXCEPT ![w] = "idle"]
    BY <1>2 DEF Fire, Release, queueVars, WorkInv, OutboxTypes
  <2>2. lock = w
    BY <2>1, WorkerFacts DEF Busy
  <2>3. pc'[w] = "idle" /\ \A u \in Replicas : u # w => pc'[u] = pc[u]
    BY <2>1
  <2>4. Found(w)'
    BY <2>3, IdleFound DEF Busy, Staged, Sending
  <2> QED BY <2>1, <2>2, <2>3, <2>4, HolderFound, GrowingLists
<1>3. ASSUME InPlace(main, main'), lock = Free, UNCHANGED <<staging, workVars>>
      PROVE  AllFound' /\ NoneStray
  <2>1. Ids(main') = Ids(main)
    BY <1>0, <1>3, InPlaceFacts
  <2>2. AllFound'
    BY <1>3, FreeFound, OutboxAssumption, SMTT(30) DEF workVars
  <2> QED BY <1>3, <2>1, <2>2, GrowingLists
<1>4. ASSUME NEW e \in Entries, Retry(e) PROVE AllFound' /\ NoneStray
  BY <1>3, <1>4, RetryFacts DEF Retry, LockFree
<1>5. CASE SweepWorkspaceUnverifiable \/ ParkWorkspace \/ UnparkWorkspace
  <2>1. InPlace(main, main')
    BY <1>5, WorkspaceRewrites
  <2> QED BY <1>3, <1>5, <2>1
       DEF SweepWorkspaceUnverifiable, ParkWorkspace, UnparkWorkspace, LockFree
<1>6. ASSUME NEW w \in Replicas,
             \/ Pick(w) \/ Unqueue(w) \/ Outcome(w) \/ RestoreInsert(w) \/ RestoreDrop(w)
             \/ Recover(w) \/ RecoverDies(w) \/ Crash(w)
      PROVE  AllFound' /\ NoneStray
  BY <1>6, PickFound, UnqueueFound, OutcomeFound, RestoreInsertFound, RestoreDropFound,
     RecoverFound, RecoverDiesFound, CrashFound, SMTT(30)
<1> QED
  BY <1>1, <1>2, <1>4, <1>5, <1>6, AcceptFound, DismissFound, SweepFound
     DEF Changes, LockExpires, PodStores, PodAdmits, PodFails, PodForgets, Archive, workVars,
         acceptVars

LEMMA FoundInit == Init => AllFound
<1>1. SUFFICES ASSUME Init, NEW w \in Replicas PROVE Found(w)
  BY DEF AllFound
<1>2. pc[w] = "down"
  BY <1>1 DEF Init
<1> QED BY <1>2 DEF Found, Staged, Sending

LEMMA FoundStays ==
    ASSUME WorkInv, AllFound, [Next]_vars
    PROVE  AllFound'
<1>1. CASE Next
  BY <1>1, NextChanges, FoundStep
<1>2. CASE UNCHANGED vars
  BY <1>2 DEF vars, acceptVars, queueVars, workVars, AllFound, Found, PivotWithdrawn, PlaceKept
<1> QED BY <1>1, <1>2

(* Whatever dies and however often a message is posted, an entry that a    *)
(* list holds leaves the lists only confirmed, dismissed or taken back by  *)
(* its own Accept, but for restoreStaged's LINSERT before a copy that a    *)
(* withdrawing Accept has taken out of the queue.                          *)
THEOREM NothingElseLoses == Spec => OnlyWithdrawnPivotLoses
<1> DEFINE Inv == WorkInv /\ AllFound
<1>1. Init => Inv
  BY FoundInit, WorkInvInit
<1>2. Inv /\ [Next]_vars => Inv'
  BY FoundStays, WorkInvStep
<1>3. Inv /\ [Next]_vars =>
         [\A e \in Entries : Held(e) /\ ~Held(e)' =>
             \/ e \in claimed' \cup dismissed'
             \/ accept[e] = "lost"
             \/ \E w \in Replicas : PivotWithdrawn(w) /\ work[w].was[1].id = e]_vars
  <2>1. ASSUME WorkInv, AllFound, Next, NEW e \in Entries, Held(e), ~Held(e)' PROVE LetGo(e)
    BY <2>1, NextChanges, FoundStep DEF NoneStray
  <2> QED BY <2>1 DEF LetGo
<1> QED BY <1>1, <1>2, <1>3, PTL DEF Spec, OnlyWithdrawnPivotLoses

-----------------------------------------------------------------------------
(* A duplicate post and the entry it was taken for. *)

(* The marker names an accepted entry, and an Accept gives way to another  *)
(* entry only, the one that is marked.                                     *)
Marked ==
    /\ \A m \in Messages : marker[m] # NoEntry =>
          Message(marker[m]) = m /\ accept[marker[m]] = "accepted"
    /\ \A e \in Entries : accept[e] \in {"lost", "duplicate"} =>
          marker[Message(e)] \notin {NoEntry, e}

LEMMA EntryFacts ==
    ASSUME NEW e \in Entries
    PROVE  Message(e) \in Messages /\ e # NoEntry
<1>1. Twice \subseteq Messages
  BY OutboxAssumption
<1>2. PICK m \in Messages, n \in {1, 2} : e = <<m, n>>
  BY <1>1 DEF Entries
<1> QED BY <1>2 DEF Message, NoEntry

LEMMA MarkedStep ==
    ASSUME WorkInv, Marked, Changes
    PROVE  Marked'
<1>0. /\ marker \in [Messages -> Entries \cup {NoEntry}]
      /\ accept \in [Entries -> {"new", "checked", "pushed", "lost", "accepted", "duplicate", "capped"}]
  BY DEF WorkInv, OutboxTypes
<1>1. \A e \in Entries : Message(e) \in Messages /\ e # NoEntry
  BY EntryFacts
<1>2. CASE UNCHANGED acceptVars
  BY <1>2 DEF acceptVars, Marked
<1>3. ASSUME NEW e \in Entries, AcceptCheck(e) PROVE Marked'
  <2>1. /\ UNCHANGED marker /\ accept[e] = "new"
        /\ accept' = [accept EXCEPT ![e] = IF marker[Message(e)] # NoEntry
                                           THEN "duplicate" ELSE "checked"]
    BY <1>3 DEF AcceptCheck
  <2>2. marker[Message(e)] # e
    BY <1>1, <2>1 DEF Marked
  <2> QED BY <1>0, <1>1, <2>1, <2>2 DEF Marked
<1>4. ASSUME NEW e \in Entries, AcceptPush(e) PROVE Marked'
  BY <1>0, <1>1, <1>4 DEF AcceptPush, Marked
<1>5. ASSUME NEW e \in Entries, AcceptMark(e) PROVE Marked'
  <2>1. accept[e] = "pushed"
    BY <1>5 DEF AcceptMark
  <2>2. marker[Message(e)] # e
    BY <1>1, <2>1 DEF Marked
  <2>3. CASE /\ marker[Message(e)] = NoEntry /\ marker' = [marker EXCEPT ![Message(e)] = e]
             /\ accept' = [accept EXCEPT ![e] = "accepted"]
    <3>1. \A f \in Entries : accept[f] \in {"lost", "duplicate"} => Message(f) # Message(e)
      BY <2>3 DEF Marked
    <3> QED BY <1>0, <1>1, <2>1, <2>3, <3>1 DEF Marked
  <2>4. CASE /\ marker[Message(e)] # NoEntry /\ UNCHANGED marker
             /\ accept' = [accept EXCEPT ![e] = "lost"]
    BY <1>0, <1>1, <2>1, <2>2, <2>4 DEF Marked
  <2>5. CASE UNCHANGED marker /\ accept' = [accept EXCEPT ![e] = "accepted"]
    BY <1>0, <1>1, <2>1, <2>5 DEF Marked
  <2> QED BY <1>5, <2>3, <2>4, <2>5 DEF AcceptMark
<1>6. ASSUME NEW e \in Entries, AcceptWithdraw(e) PROVE Marked'
  BY <1>0, <1>1, <1>6 DEF AcceptWithdraw, Marked
<1> QED
  BY <1>2, <1>3, <1>4, <1>5, <1>6
     DEF Changes, Pick, Unqueue, Outcome, RestoreInsert, RestoreDrop, Fire, Recover, RecoverDies,
         Crash, LockExpires, Dismiss, Retry, PodStores, SweepWorkspaceUnverifiable,
         SweepParkedErrors, ParkWorkspace, UnparkWorkspace, Archive, PodAdmits, PodFails, PodForgets

LEMMA MarkedInit == Init => Marked
BY EntryFacts DEF Init, Marked

(* While the marked entry is kept, a duplicate has an entry under way.     *)
LEMMA MarkedIsAnswer ==
    ASSUME WorkInv, Marked, NeverLost
    PROVE  DuplicateIsAccepted
<1>1. SUFFICES ASSUME NEW e \in Entries, accept[e] = "duplicate"
               PROVE  \E f \in Entries : Message(f) = Message(e) /\ f # e /\ Kept(f)
  BY DEF DuplicateIsAccepted, Kept
<1> DEFINE f == marker[Message(e)]
<1>2. Message(e) \in Messages
  BY EntryFacts
<1>3. f \in Entries /\ f # e /\ Message(f) = Message(e)
  BY <1>1, <1>2 DEF WorkInv, OutboxTypes, Marked
<1>4. Kept(f)
  BY <1>3 DEF NeverLost, Kept
<1> QED BY <1>3, <1>4

LEMMA HistoryGrows ==
    ASSUME WorkInv, Changes
    PROVE  claimed \subseteq claimed' /\ dismissed \subseteq dismissed'
<1>1. ASSUME NEW w \in Replicas, Outcome(w) PROVE claimed \subseteq claimed'
  BY <1>1 DEF Outcome, GoesOn, Goto, Restores, Restore, Confirms, Complete, Rewrites, Rewrite
<1>2. ASSUME SweepParkedErrors PROVE claimed \subseteq claimed' /\ UNCHANGED dismissed
  BY <1>2, SweepFacts DEF SweptOf, SweepParkedErrors
<1> QED
  BY <1>1, <1>2
     DEF Changes, AcceptCheck, AcceptPush, AcceptMark, AcceptWithdraw, Pick, Unqueue, Outcome,
         RestoreInsert, RestoreDrop, Fire, Recover, RecoverDies,
         Crash, LockExpires, Dismiss, Retry, PodStores, SweepWorkspaceUnverifiable,
         ParkWorkspace, UnparkWorkspace, Archive, PodAdmits, PodFails, PodForgets, history

(* Only a withdrawn pivot lets an accepted entry go. *)
LEMMA NeverLostStep ==
    ASSUME WorkInv, AllFound, Marked, NeverLost, Changes, \A w \in Replicas : ~PivotWithdrawn(w)
    PROVE  NeverLost'
<1>1. ASSUME NEW e \in Entries, Kept(e), accept[e] # "lost" PROVE Kept(e)'
  <2>1. Held(e) => Held(e)' \/ e \in claimed' \cup dismissed'
    BY <1>1, FoundStep DEF NoneStray, LetGo
  <2> QED BY <1>1, <2>1, HistoryGrows DEF Kept, Held
<1>2. ASSUME NEW e \in Entries, accept[e] \in {"pushed", "accepted"} \/ marker[Message(e)] = e
      PROVE  Kept(e)'
  <2>1. Kept(e)
    BY <1>2 DEF NeverLost, Kept
  <2>2. accept[e] # "lost"
    BY <1>2 DEF Marked
  <2> QED BY <1>1, <2>1, <2>2
<1>3. ASSUME NEW e \in Entries, accept'[e] \in {"pushed", "accepted"} \/ marker'[Message(e)] = e
      PROVE  Kept(e)'
  <2>0. /\ marker \in [Messages -> Entries \cup {NoEntry}] /\ main \in Seq(Records)
        /\ accept \in [Entries -> {"new", "checked", "pushed", "lost", "accepted", "duplicate", "capped"}]
        /\ Message(e) \in Messages
    BY EntryFacts DEF WorkInv, OutboxTypes
  <2>1. CASE UNCHANGED acceptVars
    BY <1>2, <1>3, <2>1 DEF acceptVars
  <2>2. ASSUME NEW f \in Entries, AcceptCheck(f) \/ AcceptMark(f) \/ AcceptWithdraw(f)
        PROVE  accept[e] \in {"pushed", "accepted"} \/ marker[Message(e)] = e
    BY <1>3, <2>0, <2>2 DEF AcceptCheck, AcceptMark, AcceptWithdraw, Entries, Message
  <2>3. ASSUME NEW f \in Entries, AcceptPush(f), f # e
        PROVE  accept[e] \in {"pushed", "accepted"} \/ marker[Message(e)] = e
    BY <1>3, <2>0, <2>3 DEF AcceptPush
  <2>4. CASE AcceptPush(e)
    <3>1. CASE main' = Append(main, Fresh(e))
      <4>1. e \in Ids(main')
        BY <2>0, <3>1, FreshRecord, AppendFacts
      <4> QED BY <4>1 DEF Kept
    <3>2. CASE accept' = [accept EXCEPT ![e] = "capped"]
      <4>1. marker[Message(e)] = e
        BY <1>3, <2>0, <2>4, <3>2 DEF AcceptPush
      <4> QED BY <1>2, <4>1
    <3> QED BY <2>4, <3>1, <3>2 DEF AcceptPush
  <2> QED
    BY <1>2, <2>1, <2>2, <2>3, <2>4
       DEF Changes, Pick, Unqueue, Outcome, RestoreInsert, RestoreDrop, Fire, Recover, RecoverDies,
           Crash, LockExpires, Dismiss, Retry, PodStores, SweepWorkspaceUnverifiable,
           SweepParkedErrors, ParkWorkspace, UnparkWorkspace, Archive, PodAdmits, PodFails, PodForgets
<1> QED BY <1>3 DEF NeverLost, Kept

(* With two entries at most the queue is too short for a pivot to be left  *)
(* to others: the entry goes back to the head or to the end.               *)
PivotFirst ==
    \A w \in Replicas : pc[w] \in {"insert", "drop"} => work[w].pivot = <<>> \/ work[w].idx = 1

LEMMA RestoresFirst ==
    ASSUME WorkInv, AloneInv, NEW m, Messages = {m}, NEW w \in Replicas, pc[w] \in Asking,
           work[w].idx <= Len(main)
    PROVE  work[w].idx = 1
<1> DEFINE e == work[w].was[1].id
<1>1. main \in Seq(Records) /\ Len(main) \in Nat /\ UniqueIds(main)
  BY LenProperties DEF WorkInv, OutboxTypes, AloneInv, FiresOnce, ListFires
<1>2. pc[w] \in Sending /\ pc[w] \in Busy
  BY DEF Asking, Sending, Busy, Staged
<1>3. work[w].idx \in Nat /\ work[w].idx > 0 /\ work[w].was[1] \in Records
  BY <1>2, WorkerFacts
<1>4. e \in Entries
  BY <1>3 DEF Records
<1>5. e \notin Ids(main)
  BY <1>2 DEF AloneInv, FiresOnce, WorkFires
<1> HIDE DEF e
<1>6. \A x \in Entries : x = <<m, 1>> \/ x = <<m, 2>>
  BY OutboxAssumption DEF Entries
<1>7. ASSUME work[w].idx # 1 PROVE FALSE
  <2>1. 1 \in 1..Len(main) /\ 2 \in 1..Len(main)
    BY <1>1, <1>3, <1>7
  <2>2. main[1] \in ToSet(main) /\ main[2] \in ToSet(main)
    BY <1>1, <2>1, MemberFacts
  <2>3. main[1].id \in Ids(main) /\ main[2].id \in Ids(main) /\ main[1].id # main[2].id
    BY <1>1, <2>1, <2>2 DEF Ids, UniqueIds
  <2>4. main[1].id \in Entries /\ main[2].id \in Entries
    BY <1>1, <2>3, IdsAreEntries
  <2> QED BY <1>4, <1>5, <1>6, <2>3, <2>4
<1> QED BY <1>7

LEMMA PivotFirstStep ==
    ASSUME WorkInv, AloneInv, PivotFirst, NEW m, Messages = {m}, Changes
    PROVE  PivotFirst'
<1>0. pc \in [Replicas -> Places] /\ work \in [Replicas -> Works]
  BY DEF WorkInv, OutboxTypes
<1>1. CASE UNCHANGED <<pc, work>>
  BY <1>1 DEF PivotFirst
<1>2. ASSUME NEW w \in Replicas, NEW p \in Places, pc' = [pc EXCEPT ![w] = p],
             \A u \in Replicas : u # w => work'[u] = work[u],
             p \in {"insert", "drop"} => work'[w].pivot = <<>> \/ work'[w].idx = 1
      PROVE  PivotFirst'
  BY <1>0, <1>2 DEF PivotFirst
<1>3. ASSUME NEW w \in Replicas, Pick(w) \/ Unqueue(w) \/ RestoreDrop(w) \/ Fire(w) \/ Recover(w) \/ Crash(w)
      PROVE  PivotFirst'
  <2>1. PICK p \in Places \ {"insert", "drop"} : pc' = [pc EXCEPT ![w] = p]
    BY <1>3 DEF Pick, Unqueue, RestoreDrop, Fire, Release, Recover, Crash, Places
  <2>2. \A u \in Replicas : u # w => work'[u] = work[u]
    BY <1>0, <1>3 DEF Pick, Unqueue, RestoreDrop, Fire, Release, Recover, Crash
  <2> QED BY <1>2, <2>1, <2>2
<1>4. ASSUME NEW w \in Replicas, RestoreInsert(w) PROVE PivotFirst'
  <2>1. pc' = [pc EXCEPT ![w] = "drop"] /\ pc[w] = "insert" /\ UNCHANGED work
    BY <1>4 DEF RestoreInsert
  <2>2. work[w].pivot = <<>> \/ work[w].idx = 1
    BY <2>1 DEF PivotFirst
  <2> QED BY <1>2, <2>1, <2>2 DEF Places
<1>5. ASSUME NEW w \in Replicas, Outcome(w) PROVE PivotFirst'
  <2>1. CASE GoesOn(w)
    <3>1. PICK p \in Asking : pc' = [pc EXCEPT ![w] = p] /\ UNCHANGED work
      BY <2>1 DEF GoesOn, Goto
    <3> QED BY <1>2, <3>1 DEF Asking, Places
  <2>2. CASE Confirms(w) \/ Rewrites(w)
    <3>1. /\ pc' = [pc EXCEPT ![w] = "fire"] \/ pc' = [pc EXCEPT ![w] = "idle"]
          /\ work' = work \/ work' = [work EXCEPT ![w] = NoWork]
      BY <2>2 DEF Confirms, Complete, Rewrites, Rewrite, Release
    <3>2. \A u \in Replicas : u # w => work'[u] = work[u]
      BY <1>0, <3>1
    <3> QED BY <1>2, <3>1, <3>2 DEF Places
  <2>3. CASE pc[w] \in Asking /\ Restores(w)
    <3>1. PICK r \in Records : Restore(w, r)
      BY <2>3 DEF Restores
    <3>2. /\ pc' = [pc EXCEPT ![w] = "insert"]
          /\ work' = [work EXCEPT ![w].new = <<r>>,
                                  ![w].pivot = IF work[w].idx > Len(main) THEN <<>>
                                               ELSE <<main[work[w].idx]>>]
      BY <3>1 DEF Restore
    <3>3. work[w] \in Works
      BY <1>0
    <3>4. /\ \A u \in Replicas : u # w => work'[u] = work[u]
          /\ work'[w].idx = work[w].idx
          /\ work[w].idx > Len(main) => work'[w].pivot = <<>>
      BY <1>0, <3>2, <3>3 DEF Works
    <3>5. work[w].idx \in Nat /\ Len(main) \in Nat
      BY <3>3, LenProperties DEF Works, WorkInv, OutboxTypes
    <3>6. work'[w].pivot = <<>> \/ work'[w].idx = 1
      BY <2>3, <3>4, <3>5, RestoresFirst
    <3> QED BY <1>2, <3>2, <3>4, <3>6 DEF Places
  <2> QED BY <1>5, <2>1, <2>2, <2>3 DEF Outcome, Asking
<1> QED
  BY <1>1, <1>3, <1>4, <1>5
     DEF Changes, AcceptCheck, AcceptPush, AcceptMark, AcceptWithdraw, RecoverDies,
         LockExpires, Dismiss, Retry, PodStores, SweepWorkspaceUnverifiable,
         SweepParkedErrors, ParkWorkspace, UnparkWorkspace, Archive, PodAdmits, PodFails, PodForgets,
         workVars

(* Whatever else happens, as long as no accepted entry is lost, a post     *)
(* that was answered "duplicate" has its message's other entry in a list   *)
(* or at its end: the marker names an entry that was accepted.             *)
THEOREM DuplicateHasEntry == Spec => [](NeverLost => DuplicateIsAccepted)
<1> DEFINE Inv == WorkInv /\ Marked
<1>1. Init => Inv
  BY MarkedInit, WorkInvInit
<1>2. Inv /\ [Next]_vars => Inv'
  <2>1. ASSUME WorkInv, Marked, [Next]_vars PROVE Marked'
    <3>1. CASE Next
      BY <2>1, <3>1, NextChanges, MarkedStep
    <3>2. CASE UNCHANGED vars
      BY <2>1, <3>2 DEF vars, acceptVars, Marked
    <3> QED BY <2>1, <3>1, <3>2
  <2> QED BY <2>1, WorkInvStep
<1>3. Inv => (NeverLost => DuplicateIsAccepted)
  BY MarkedIsAnswer
<1> QED BY <1>1, <1>2, <1>3, PTL DEF Spec

(* A message posted twice by itself, over every race of its two Accepts    *)
(* with the delivery, while no replica dies: neither entry is lost unless  *)
(* its own Accept takes it back, and a post answered "duplicate" has the   *)
(* other entry under way or finished.  With a second message the withdrawn *)
(* entry may be another's pivot, and the promise fails.                    *)
THEOREM DuplicateIsAnswered ==
    ASSUME NEW m, Messages = {m}, MaxCrashes = 0
    PROVE  Spec => [](NeverLost /\ DuplicateIsAccepted)
<1> DEFINE Inv == WorkInv /\ AloneInv /\ AllFound /\ Marked /\ PivotFirst /\ NeverLost
<1>1. Init => Inv
  <2>1. ASSUME Init PROVE PivotFirst
    BY <2>1 DEF Init, PivotFirst
  <2>2. ASSUME Init PROVE NeverLost
    BY <2>2, EntryFacts DEF Init, NeverLost
  <2> QED BY <2>1, <2>2, WorkInvInit, AloneInit, FoundInit, MarkedInit
<1>2. Inv /\ [Next]_vars => Inv'
  <2>1. ASSUME Inv, Next PROVE Marked' /\ PivotFirst' /\ NeverLost'
    <3>1. Changes
      BY <2>1, NextChanges
    <3>2. ASSUME NEW w \in Replicas PROVE ~PivotWithdrawn(w)
      BY <2>1 DEF PivotWithdrawn, PivotFirst
    <3> QED BY <2>1, <3>1, <3>2, MarkedStep, PivotFirstStep, NeverLostStep
  <2>2. ASSUME Inv, UNCHANGED vars PROVE Marked' /\ PivotFirst' /\ NeverLost'
    BY <2>2 DEF vars, acceptVars, queueVars, workVars, history, Marked, PivotFirst, NeverLost
  <2> QED BY <2>1, <2>2, WorkInvStep, AloneStep, FoundStays
<1>3. Inv => NeverLost /\ DuplicateIsAccepted
  BY MarkedIsAnswer
<1> QED BY <1>1, <1>2, <1>3, PTL DEF Spec
=============================================================================
