--------------------------- MODULE LiveSyncProofs ---------------------------
(***************************************************************************)
(* Proofs about LiveSync, for any levels, update histories, cuts into      *)
(* events, channel capacity, snapshot lag and number of faults: a          *)
(* streaming book is the exchange's, updates never rewind a level, and     *)
(* gaps mean loss.                                                         *)
(***************************************************************************)
EXTENDS LiveSync, FiniteSetTheorems, SequenceTheorems, TLAPS

-----------------------------------------------------------------------------
(* Numbers and finite sets of them.                                        *)

(* Every set of naturals that is not empty has a least element.            *)
LEMMA LeastNat == ASSUME NEW T, T \subseteq Nat, T # {}
                  PROVE  \E x \in T : \A y \in T : x <= y
<1>1. \E x \in T : \A y \in T : ~(<<y, x>> \in OpToRel(<, Nat))
  BY NatLessThanWellFounded, WFMin, Zenon
<1>2. \A x, y \in Nat : (<<y, x>> \in OpToRel(<, Nat)) <=> y < x
  BY DEF OpToRel
<1>3. \E x \in T : \A y \in T : ~(y < x)
  BY <1>1, <1>2, Zenon
<1>. QED BY <1>3, SMT

LEMMA LeastIs == ASSUME NEW T, T \subseteq Nat, T # {}
                 PROVE  Least(T) \in T /\ \A y \in T : Least(T) <= y
BY LeastNat DEF Least

LEMMA GreatestIs == ASSUME NEW n \in Nat, NEW T, T \subseteq 0..n, T # {}
                    PROVE  Greatest(T) \in T /\ \A y \in T : Greatest(T) >= y
<1>. DEFINE D == {n - x : x \in T}
<1>1. D \subseteq Nat /\ D # {}
  <2>1. \A x \in T : n - x \in Nat
    BY SMT
  <2>. QED BY <2>1, Zenon
<1>2. PICK d \in D : \A e \in D : d <= e
  BY <1>1, LeastNat
<1>3. PICK x \in T : d = n - x
  BY <1>2
<1>4. \A y \in T : n - x <= n - y
  BY <1>2, <1>3
<1>5. \A y \in T : x >= y
  BY <1>4, SMT
<1>. QED BY <1>5 DEF Greatest

-----------------------------------------------------------------------------
(* The exchange's book: it changes at a level only where an update writes  *)
(* it, and then to a newer update.                                         *)

Writers(n, k) == {0} \cup {i \in 1..n : log[i] = k}

(* A level's size is that of the last update that wrote it.                *)
LEMMA TruthIs ==
  ASSUME NEW n \in Nat, NEW k \in Keys
  PROVE  /\ TruthAt(n)[k] = Greatest(Writers(n, k))
         /\ TruthAt(n)[k] \in Writers(n, k) /\ TruthAt(n)[k] \in 0..n
         /\ \A i \in Writers(n, k) : TruthAt(n)[k] >= i
<1>1. Writers(n, k) \subseteq 0..n /\ Writers(n, k) # {}
  <2>1. 0 \in 0..n /\ \A i \in 1..n : i \in 0..n
    BY SMT
  <2>. QED BY <2>1 DEF Writers
<1>2. TruthAt(n)[k] = Greatest(Writers(n, k))
  BY DEF TruthAt, Writers
<1>3. Greatest(Writers(n, k)) \in Writers(n, k)
      /\ \A y \in Writers(n, k) : Greatest(Writers(n, k)) >= y
  BY <1>1, GreatestIs
<1>. QED BY <1>1, <1>2, <1>3

LEMMA TruthGrows ==
  ASSUME NEW a \in Nat, NEW b \in Nat, a <= b, NEW k \in Keys
  PROVE  TruthAt(a)[k] <= TruthAt(b)[k]
<1>1. TruthAt(a)[k] \in Writers(a, k) /\ TruthAt(a)[k] \in 0..a /\ TruthAt(b)[k] \in 0..b
  BY TruthIs
<1>2. TruthAt(a)[k] \in Writers(b, k)
  <2>1. \A i \in 1..a : i \in 1..b
    BY SMT
  <2>. QED BY <1>1, <2>1 DEF Writers
<1>3. TruthAt(b)[k] >= TruthAt(a)[k]
  BY <1>2, TruthIs
<1>. QED BY <1>1, <1>3, SMT

(* A level nobody writes keeps its size.                                   *)
LEMMA TruthStays ==
  ASSUME NEW a \in Nat, NEW b \in Nat, a <= b, NEW k \in Keys,
         \A i \in (a + 1)..b : log[i] # k
  PROVE  TruthAt(b)[k] = TruthAt(a)[k]
<1>1. TruthAt(b)[k] \in Writers(b, k) /\ TruthAt(b)[k] \in 0..b /\ TruthAt(a)[k] \in 0..a
  BY TruthIs
<1>2. TruthAt(b)[k] \in Writers(a, k)
  <2>1. CASE TruthAt(b)[k] = 0
    BY <2>1 DEF Writers
  <2>2. CASE TruthAt(b)[k] # 0
    <3>1. TruthAt(b)[k] \in 1..b /\ log[TruthAt(b)[k]] = k
      BY <1>1, <2>2 DEF Writers
    <3>2. TruthAt(b)[k] \notin (a + 1)..b
      BY <3>1
    <3>3. TruthAt(b)[k] \in 1..a
      BY <3>1, <3>2, SMT
    <3>. QED BY <3>1, <3>3 DEF Writers
  <2>. QED BY <2>1, <2>2
<1>3. TruthAt(a)[k] >= TruthAt(b)[k]
  BY <1>2, TruthIs
<1>4. TruthAt(a)[k] <= TruthAt(b)[k]
  BY TruthGrows
<1>. QED BY <1>1, <1>3, <1>4, SMT

LEMMA TruthZero == TruthAt(0) = [k \in Keys |-> 0]
<1>1. \A k \in Keys : TruthAt(0)[k] = 0
  <2>. SUFFICES ASSUME NEW k \in Keys PROVE TruthAt(0)[k] = 0
    OBVIOUS
  <2>1. TruthAt(0)[k] \in 0..0
    BY TruthIs
  <2>. QED BY <2>1, SMT
<1>. QED BY <1>1 DEF TruthAt

-----------------------------------------------------------------------------
(* The cut into events: they follow each other without overlap.            *)

LEMMA IdsFact == MaxId \in Nat /\ Ids = 1..MaxId /\ Keys \subseteq Nat /\ NoKey \notin Keys
BY LiveAssumption DEF Ids

(* The first update of an event: no other event ends in between.           *)
LEMMA FirstOfIs ==
  ASSUME ends \subseteq Ids, NEW u \in ends
  PROVE  /\ u \in Nat /\ u >= 1 /\ u <= MaxId
         /\ FirstOf(u) \in Nat /\ FirstOf(u) >= 1 /\ FirstOf(u) <= u
         /\ \A e \in ends : e >= FirstOf(u) => e >= u
         /\ FirstOf(u) - 1 \in ends \cup {0}
<1>. DEFINE B == {0} \cup {e \in ends : e < u}
<1>1. u \in Nat /\ u >= 1 /\ u <= MaxId /\ \A e \in ends : e \in Nat /\ e <= MaxId
  BY IdsFact, SMT
<1>2. B \subseteq 0..MaxId /\ B # {}
  <2>1. 0 \in 0..MaxId /\ \A e \in ends : e \in 0..MaxId
    BY <1>1, IdsFact, SMT
  <2>. QED BY <2>1
<1>3. Greatest(B) \in B /\ \A y \in B : Greatest(B) >= y
  BY <1>2, IdsFact, GreatestIs
<1>4. FirstOf(u) = Greatest(B) + 1
  BY DEF FirstOf
<1>. DEFINE g == Greatest(B)
<1>5. g \in Nat /\ g < u /\ g \in ends \cup {0} /\ \A e \in ends : e < u => e <= g
  <2>1. g \in B /\ \A e \in ends : e < u => e \in B
    BY <1>3
  <2>2. g = 0 \/ (g \in ends /\ g < u)
    BY <2>1
  <2>. HIDE DEF g
  <2>3. g \in Nat /\ g < u
    <3>1. CASE g = 0
      BY <1>1, <3>1, SMT
    <3>2. CASE g \in ends /\ g < u
      BY <1>1, <3>2
    <3>. QED BY <2>2, <3>1, <3>2
  <2>4. \A e \in ends : e < u => g >= e
    BY <1>3, <2>1 DEF g
  <2>. QED BY <1>1, <2>2, <2>3, <2>4, SMT
<1>. HIDE DEF g
<1>6. FirstOf(u) = g + 1
  BY <1>4 DEF g
<1>7. FirstOf(u) - 1 = g
  BY <1>5, <1>6, SMT
<1>. QED BY <1>1, <1>5, <1>6, <1>7, SMT

(* An event is known by its first update.                                  *)
LEMMA FirstOfInjective ==
  ASSUME ends \subseteq Ids, NEW u \in ends, NEW v \in ends, FirstOf(u) = FirstOf(v)
  PROVE  u = v
<1>1. u >= FirstOf(v) /\ v >= FirstOf(u) /\ u \in Nat /\ v \in Nat
  BY FirstOfIs, SMT
<1>2. u >= v /\ v >= u
  BY <1>1, FirstOfIs
<1>. QED BY <1>1, <1>2, SMT

(* The next event of a connection begins where the one before ended.       *)
LEMMA NextEvent ==
  ASSUME ends \subseteq Ids, NEW a \in ends \cup {0}, \E e \in ends : e > a
  PROVE  LET u == Least({e \in ends : e > a})
         IN u \in ends /\ u > a /\ FirstOf(u) = a + 1 /\ \A e \in ends : e > a => u <= e
<1>. DEFINE T == {e \in ends : e > a}
            u == Least(T)
<1>1. ends \subseteq Nat /\ a \in Nat
  BY IdsFact, SMT
<1>2. T \subseteq Nat /\ T # {}
  BY <1>1
<1>3. u \in T /\ \A e \in T : u <= e
  BY <1>2, LeastIs
<1>. HIDE DEF u
<1>4. u \in ends /\ u > a /\ \A e \in ends : e > a => u <= e
  BY <1>3
<1>5. FirstOf(u) = a + 1
  <2>1. /\ u \in Nat /\ FirstOf(u) \in Nat /\ FirstOf(u) >= 1 /\ FirstOf(u) <= u
        /\ \A e \in ends : e >= FirstOf(u) => e >= u
        /\ FirstOf(u) - 1 \in ends \cup {0}
    BY <1>4, FirstOfIs
  <2>2. FirstOf(u) - 1 <= a
    <3>1. CASE FirstOf(u) - 1 = 0
      BY <1>1, <3>1, SMT
    <3>2. CASE FirstOf(u) - 1 \in ends
      <4>1. ~(FirstOf(u) - 1 >= u)
        BY <2>1, SMT
      <4>2. ~(FirstOf(u) - 1 > a)
        <5>1. FirstOf(u) - 1 > a => u <= FirstOf(u) - 1
          BY <1>4, <3>2
        <5>. QED BY <2>1, <5>1, SMT
      <4>. QED BY <1>1, <2>1, <4>2, SMT
    <3>. QED BY <2>1, <3>1, <3>2
  <2>3. a < FirstOf(u)
    <3>1. CASE a = 0
      BY <2>1, <3>1, SMT
    <3>2. CASE a \in ends
      <4>1. a >= FirstOf(u) => a >= u
        BY <2>1, <3>2
      <4>. QED BY <1>1, <1>4, <2>1, <4>1, SMT
    <3>. QED BY <3>1, <3>2
  <2>. QED BY <1>1, <2>1, <2>2, <2>3, SMT
<1>. QED BY <1>4, <1>5 DEF u

-----------------------------------------------------------------------------
(* The messages of an event: its levels in order, each once.               *)

(* The levels of an event, put in order, are all there.                    *)
LEMMA InOrderIs ==
  ASSUME NEW K \in SUBSET Nat, IsFiniteSet(K)
  PROVE  /\ Cardinality(K) \in Nat
         /\ \A i \in 1..Cardinality(K) : InOrder(K)[i] \in K
         /\ \A k \in K : \E i \in 1..Cardinality(K) : InOrder(K)[i] = k
<1>. DEFINE n == Cardinality(K)
            Below(k) == {j \in K : j < k}
            rank == [k \in K |-> Cardinality(Below(k))]
<1>1. n \in Nat
  BY FS_CardinalityType
<1>2. ASSUME NEW k \in K
      PROVE  /\ IsFiniteSet(Below(k)) /\ rank[k] \in Nat /\ rank[k] < n
             /\ IsFiniteSet(Below(k) \cup {k}) /\ Cardinality(Below(k) \cup {k}) = rank[k] + 1
  <2>1. Below(k) \in SUBSET K /\ Below(k) \cup {k} \in SUBSET K
    OBVIOUS
  <2>2. k \notin Below(k)
    BY SMT
  <2>3. IsFiniteSet(Below(k))
    BY <2>1, FS_Subset
  <2>4. Cardinality(Below(k)) \in Nat
    BY <2>3, FS_CardinalityType
  <2>5. IsFiniteSet(Below(k) \cup {k}) /\ Cardinality(Below(k) \cup {k}) = Cardinality(Below(k)) + 1
    BY <2>2, <2>3, FS_AddElement
  <2>6. Cardinality(Below(k) \cup {k}) <= n
    BY <2>1, FS_Subset
  <2>7. rank[k] = Cardinality(Below(k))
    OBVIOUS
  <2>. HIDE DEF rank, Below, n
  <2>. QED BY <1>1, <2>3, <2>4, <2>5, <2>6, <2>7, SMT
<1>0. \A k \in K : rank[k] \in Nat /\ rank[k] < n
  BY <1>2
<1>3. ASSUME NEW k \in K, NEW l \in K, k < l PROVE rank[k] < rank[l]
  <2>0. \A j \in K : j < k => j < l
    BY <1>3, SMT
  <2>1. Below(k) \cup {k} \in SUBSET Below(l)
    BY <1>3, <2>0
  <2>2. Cardinality(Below(k) \cup {k}) <= Cardinality(Below(l))
    BY <1>2, <2>1, FS_Subset
  <2>3. rank[l] = Cardinality(Below(l))
    OBVIOUS
  <2>4. Cardinality(Below(k) \cup {k}) = rank[k] + 1
    BY <1>2
  <2>5. rank[k] + 1 <= rank[l] /\ rank[k] \in Nat /\ rank[l] \in Nat
    BY <1>0, <2>2, <2>3, <2>4
  <2>. HIDE DEF rank, Below
  <2>. QED BY <2>5, SMT
<1>. HIDE DEF n
<1>4. rank \in [K -> 0..(n - 1)]
  <2>1. \A k \in K : rank[k] \in 0..(n - 1)
    <3>. HIDE DEF rank, Below
    <3>. QED BY <1>0, <1>1, SMT
  <2>. QED BY <2>1
<1>5. \A k, l \in K : rank[k] = rank[l] => k = l
  <2>. HIDE DEF rank, Below
  <2>. SUFFICES ASSUME NEW k \in K, NEW l \in K, k # l PROVE rank[k] # rank[l]
    OBVIOUS
  <2>1. k < l \/ l < k
    BY SMT
  <2>2. rank[k] < rank[l] \/ rank[l] < rank[k]
    BY <1>3, <2>1
  <2>. QED BY <1>0, <2>2, SMT
<1>6. rank \in Surjection(K, 0..(n - 1))
  <2>1. rank \in Injection(K, 0..(n - 1))
    BY <1>4, <1>5 DEF Injection, IsInjective
  <2>2. IsFiniteSet(0..(n - 1)) /\ Cardinality(0..(n - 1)) = n
    <3>1. 0 \in Int /\ n - 1 \in Int
      BY <1>1, SMT
    <3>2. /\ IsFiniteSet(0..(n - 1))
          /\ Cardinality(0..(n - 1)) = IF 0 > n - 1 THEN 0 ELSE (n - 1) - 0 + 1
      BY <3>1, FS_Interval
    <3>. QED BY <1>1, <3>2, SMT
  <2>. QED BY <2>1, <2>2, FS_Injection DEF n
<1>7. \A i \in 0..(n - 1) : \E k \in K : rank[k] = i
  BY <1>6 DEF Surjection
<1>8. \A k \in K : rank[k] = Cardinality({j \in K : j < k})
  OBVIOUS
<1>. HIDE DEF rank, Below
<1>9. \A i \in 1..n : InOrder(K)[i] \in K /\ rank[InOrder(K)[i]] = i - 1
  <2>. SUFFICES ASSUME NEW i \in 1..n PROVE InOrder(K)[i] \in K /\ rank[InOrder(K)[i]] = i - 1
    OBVIOUS
  <2>1. i - 1 \in 0..(n - 1)
    BY <1>1, SMT
  <2>2. \E k \in K : Cardinality({j \in K : j < k}) = i - 1
    BY <1>7, <1>8, <2>1
  <2>3. InOrder(K)[i] = CHOOSE k \in K : Cardinality({j \in K : j < k}) = i - 1
    BY DEF InOrder, n
  <2>4. InOrder(K)[i] \in K /\ Cardinality({j \in K : j < InOrder(K)[i]}) = i - 1
    BY <2>2, <2>3
  <2>. QED BY <1>8, <2>4
<1>10. ASSUME NEW k \in K PROVE \E i \in 1..n : InOrder(K)[i] = k
  <2>1. rank[k] + 1 \in 1..n /\ (rank[k] + 1) - 1 = rank[k]
    BY <1>0, <1>1, SMT
  <2>2. InOrder(K)[rank[k] + 1] \in K /\ rank[InOrder(K)[rank[k] + 1]] = rank[k]
    BY <1>9, <2>1
  <2>. QED BY <1>5, <2>1, <2>2
<1>. QED BY <1>1, <1>9, <1>10 DEF n

LEMMA MessageIs ==
  ASSUME NEW u, NEW k
  PROVE  /\ Message(u, k).u = u /\ Message(u, k).key = k /\ Message(u, k).U = FirstOf(u)
         /\ k # NoKey => Message(u, k).val = TruthAt(u)[k]
BY DEF Message

LEMMA WrittenIs ==
  ASSUME log \in [Ids -> Keys \cup {NoKey}], ends \subseteq Ids, NEW u \in ends
  PROVE  /\ Written(u) \subseteq Keys /\ IsFiniteSet(Written(u))
         /\ \A i \in FirstOf(u)..u : log[i] \in Written(u) \cup {NoKey}
<1>1. /\ u \in Nat /\ u <= MaxId /\ FirstOf(u) \in Nat /\ FirstOf(u) >= 1
  BY FirstOfIs
<1>. DEFINE I == FirstOf(u)..u
            T == {log[i] : i \in I}
            f == [i \in I |-> log[i]]
<1>2. \A i \in I : i \in Ids
  BY <1>1, IdsFact, SMT
<1>3. \A i \in I : log[i] \in Keys \cup {NoKey}
  BY <1>2
<1>4. Written(u) = T \ {NoKey}
  BY DEF Written
<1>5. IsFiniteSet(I)
  BY <1>1, FS_Interval
<1>6. f \in Surjection(I, T)
  BY DEF Surjection
<1>7. IsFiniteSet(T)
  BY <1>5, <1>6, FS_Surjection
<1>8. IsFiniteSet(Written(u))
  BY <1>4, <1>7, FS_Subset
<1>. QED BY <1>3, <1>4, <1>8

(* The messages of an event: at least one, and one per level written.      *)
LEMMA MessagesAre ==
  ASSUME log \in [Ids -> Keys \cup {NoKey}], ends \subseteq Ids, NEW u \in ends
  PROVE  /\ Messages(u) \in Seq(AllMessages) /\ Len(Messages(u)) \in Nat /\ Len(Messages(u)) >= 1
         /\ \A i \in 1..Len(Messages(u)) : Messages(u)[i].u = u
         /\ \A k \in Written(u) : \E i \in 1..Len(Messages(u)) : Messages(u)[i].key = k
<1>. DEFINE K == Written(u)
            n == Cardinality(K)
<1>1. K \subseteq Keys /\ IsFiniteSet(K) /\ K \in SUBSET Nat
  BY WrittenIs, IdsFact
<1>. HIDE DEF K
<1>2. CASE K = {}
  <2>1. Messages(u) = <<Message(u, NoKey)>> /\ Message(u, NoKey) \in AllMessages
    BY <1>2 DEF Messages, AllMessages, K
  <2>2. /\ Messages(u) \in Seq(AllMessages) /\ Len(Messages(u)) = 1
        /\ Messages(u)[1] = Message(u, NoKey)
    <3>. HIDE DEF K
    <3>1. \A x \in AllMessages : <<x>> \in Seq(AllMessages) /\ Len(<<x>>) = 1 /\ <<x>>[1] = x
      OBVIOUS
    <3>. QED BY <2>1, <3>1
  <2>3. \A i \in 1..1 : i = 1
    BY SMT
  <2>. QED BY <1>2, <2>2, <2>3, MessageIs DEF K
<1>3. CASE K # {}
  <2>1. /\ n \in Nat
        /\ \A i \in 1..n : InOrder(K)[i] \in K
        /\ \A k \in K : \E i \in 1..n : InOrder(K)[i] = k
    BY <1>1, InOrderIs
  <2>2. n # 0
    BY <1>1, <1>3, FS_EmptySet
  <2>3. Messages(u) = [i \in 1..n |-> Message(u, InOrder(K)[i])]
    BY <1>3 DEF Messages, K
  <2>. HIDE DEF n
  <2>4. \A i \in 1..n : Message(u, InOrder(K)[i]) \in AllMessages
    BY <1>1, <2>1 DEF AllMessages
  <2>5. Messages(u) \in [1..n -> AllMessages]
    BY <2>3, <2>4
  <2>6. Messages(u) \in Seq(AllMessages) /\ Len(Messages(u)) = n
    BY <2>1, <2>5, SMT
  <2>7. n >= 1
    BY <2>1, <2>2, SMT
  <2>8. \A i \in 1..n : Messages(u)[i].u = u /\ Messages(u)[i].key = InOrder(K)[i]
    BY <2>3, MessageIs
  <2>9. \A k \in K : \E i \in 1..n : Messages(u)[i].key = k
    BY <2>1, <2>8
  <2>. QED BY <2>1, <2>6, <2>7, <2>8, <2>9 DEF K
<1>. QED BY <1>2, <1>3

-----------------------------------------------------------------------------
(* What is on its way, as the two ends work on it.  Taking the message at  *)
(* place p out leaves the others in their order.                           *)

Skip(p, i) == IF i < p THEN i ELSE i + 1

(* Pushing moves a message from pending to queue, and none overtakes.      *)
LEMMA FlightPushed ==
  ASSUME NEW A, NEW q \in Seq(A), NEW r \in Seq(A), r # <<>>
  PROVE  Append(q, Head(r)) \o Tail(r) = q \o r
<1>1. Head(r) \in A /\ Tail(r) \in Seq(A) /\ Len(r) \in Nat /\ Len(r) >= 1 /\ Len(q) \in Nat
      /\ Len(Tail(r)) = Len(r) - 1 /\ \A i \in 1..Len(Tail(r)) : Tail(r)[i] = r[i + 1]
      /\ Head(r) = r[1]
  BY SMT
<1>. DEFINE s == Append(q, Head(r))
<1>2. s \in Seq(A) /\ Len(s) = Len(q) + 1 /\ s[Len(q) + 1] = r[1]
      /\ \A i \in 1..Len(q) : s[i] = q[i]
  BY <1>1, SMT
<1>. HIDE DEF s
<1>3. /\ s \o Tail(r) \in Seq(A) /\ Len(s \o Tail(r)) = Len(s) + Len(Tail(r))
      /\ \A i \in 1..(Len(s) + Len(Tail(r))) :
           (s \o Tail(r))[i] = IF i <= Len(s) THEN s[i] ELSE Tail(r)[i - Len(s)]
  BY <1>1, <1>2, ConcatProperties, ZenonT(30)
<1>4. /\ q \o r \in Seq(A) /\ Len(q \o r) = Len(q) + Len(r)
      /\ \A i \in 1..(Len(q) + Len(r)) : (q \o r)[i] = IF i <= Len(q) THEN q[i] ELSE r[i - Len(q)]
  BY ConcatProperties
<1>5. Len(s \o Tail(r)) = Len(q \o r)
  BY <1>1, <1>2, <1>3, <1>4, SMT
<1>6. ASSUME NEW i \in 1..Len(s \o Tail(r)) PROVE (s \o Tail(r))[i] = (q \o r)[i]
  <2>1. /\ (s \o Tail(r))[i] = IF i <= Len(s) THEN s[i] ELSE Tail(r)[i - Len(s)]
        /\ (q \o r)[i] = IF i <= Len(q) THEN q[i] ELSE r[i - Len(q)]
    BY <1>3, <1>4, <1>5
  <2>2. CASE i <= Len(q)
    BY <1>1, <1>2, <2>1, <2>2, SMT
  <2>3. CASE i = Len(q) + 1
    BY <1>1, <1>2, <2>1, <2>3, SMT
  <2>4. CASE i > Len(q) + 1
    <3>1. i - Len(s) \in 1..Len(Tail(r)) /\ (i - Len(s)) + 1 = i - Len(q) /\ ~(i <= Len(s)) /\ ~(i <= Len(q))
      BY <1>1, <1>2, <1>3, <2>4, SMT
    <3>2. Tail(r)[i - Len(s)] = r[(i - Len(s)) + 1]
      BY <1>1, <3>1
    <3>. QED BY <2>1, <3>1, <3>2
  <2>5. i \in Nat
    BY <1>1, <1>2, <1>3, SMT
  <2>6. i <= Len(q) \/ i = Len(q) + 1 \/ i > Len(q) + 1
    BY <1>1, <2>5, SMT
  <2>. QED BY <2>2, <2>3, <2>4, <2>6
<1>7. s \o Tail(r) = q \o r
  BY <1>3, <1>4, <1>5, <1>6, SeqEqual
<1>. QED BY <1>7 DEF s

(* Losing the next pending message takes one from the middle.              *)
LEMMA FlightDropped ==
  ASSUME NEW A, NEW q \in Seq(A), NEW r \in Seq(A), r # <<>>
  PROVE  /\ Len(q) + 1 \in 1..Len(q \o r) /\ (q \o r)[Len(q) + 1] = Head(r)
         /\ Len(q \o Tail(r)) = Len(q \o r) - 1
         /\ \A i \in 1..Len(q \o Tail(r)) : (q \o Tail(r))[i] = (q \o r)[Skip(Len(q) + 1, i)]
<1>1. Tail(r) \in Seq(A) /\ Len(r) \in Nat /\ Len(r) >= 1 /\ Len(q) \in Nat
      /\ Len(Tail(r)) = Len(r) - 1 /\ \A i \in 1..Len(Tail(r)) : Tail(r)[i] = r[i + 1]
      /\ Head(r) = r[1]
  BY SMT
<1>2. /\ Len(q \o Tail(r)) = Len(q) + Len(Tail(r))
      /\ \A i \in 1..(Len(q) + Len(Tail(r))) :
           (q \o Tail(r))[i] = IF i <= Len(q) THEN q[i] ELSE Tail(r)[i - Len(q)]
  BY <1>1, ConcatProperties
<1>3. /\ Len(q \o r) = Len(q) + Len(r)
      /\ \A i \in 1..(Len(q) + Len(r)) : (q \o r)[i] = IF i <= Len(q) THEN q[i] ELSE r[i - Len(q)]
  BY ConcatProperties
<1>4. Len(q) + 1 \in 1..Len(q \o r) /\ (q \o r)[Len(q) + 1] = Head(r)
  <2>1. Len(q) + 1 \in 1..(Len(q) + Len(r)) /\ ~(Len(q) + 1 <= Len(q)) /\ (Len(q) + 1) - Len(q) = 1
    BY <1>1, SMT
  <2>. QED BY <1>1, <1>3, <2>1
<1>5. Len(q \o Tail(r)) = Len(q \o r) - 1
  BY <1>1, <1>2, <1>3, SMT
<1>6. ASSUME NEW i \in 1..Len(q \o Tail(r))
      PROVE  (q \o Tail(r))[i] = (q \o r)[Skip(Len(q) + 1, i)]
  <2>1. i \in Nat /\ i \in 1..(Len(q) + Len(Tail(r)))
    BY <1>1, <1>2, SMT
  <2>2. CASE i <= Len(q)
    <3>1. Skip(Len(q) + 1, i) = i /\ i \in 1..(Len(q) + Len(r))
      BY <1>1, <2>1, <2>2, SMT DEF Skip
    <3>. QED BY <1>2, <1>3, <2>1, <2>2, <3>1
  <2>3. CASE ~(i <= Len(q))
    <3>1. /\ Skip(Len(q) + 1, i) = i + 1 /\ i + 1 \in 1..(Len(q) + Len(r)) /\ ~(i + 1 <= Len(q))
          /\ i - Len(q) \in 1..Len(Tail(r)) /\ (i + 1) - Len(q) = (i - Len(q)) + 1
      BY <1>1, <2>1, <2>3, SMT DEF Skip
    <3>. QED BY <1>1, <1>2, <1>3, <2>1, <2>3, <3>1
  <2>. QED BY <2>2, <2>3
<1>. QED BY <1>4, <1>5, <1>6

(* Receiving takes the first message.                                      *)
LEMMA FlightReceived ==
  ASSUME NEW A, NEW q \in Seq(A), NEW r \in Seq(A), q # <<>>
  PROVE  /\ Len(q \o r) \in Nat /\ Len(q \o r) >= 1 /\ (q \o r)[1] = Head(q)
         /\ Len(Tail(q) \o r) = Len(q \o r) - 1
         /\ \A i \in 1..Len(Tail(q) \o r) : (Tail(q) \o r)[i] = (q \o r)[Skip(1, i)]
<1>1. Tail(q) \in Seq(A) /\ Len(q) \in Nat /\ Len(q) >= 1 /\ Len(r) \in Nat
      /\ Len(Tail(q)) = Len(q) - 1 /\ \A i \in 1..Len(Tail(q)) : Tail(q)[i] = q[i + 1]
      /\ Head(q) = q[1]
  BY SMT
<1>2. /\ Len(Tail(q) \o r) = Len(Tail(q)) + Len(r)
      /\ \A i \in 1..(Len(Tail(q)) + Len(r)) :
           (Tail(q) \o r)[i] = IF i <= Len(Tail(q)) THEN Tail(q)[i] ELSE r[i - Len(Tail(q))]
  BY <1>1, ConcatProperties
<1>3. /\ Len(q \o r) = Len(q) + Len(r)
      /\ \A i \in 1..(Len(q) + Len(r)) : (q \o r)[i] = IF i <= Len(q) THEN q[i] ELSE r[i - Len(q)]
  BY ConcatProperties
<1>4. Len(q \o r) \in Nat /\ Len(q \o r) >= 1 /\ (q \o r)[1] = Head(q)
  BY <1>1, <1>3, SMT
<1>5. Len(Tail(q) \o r) = Len(q \o r) - 1
  BY <1>1, <1>2, <1>3, SMT
<1>6. ASSUME NEW i \in 1..Len(Tail(q) \o r)
      PROVE  (Tail(q) \o r)[i] = (q \o r)[Skip(1, i)]
  <2>1. i \in Nat /\ i >= 1 /\ i \in 1..(Len(Tail(q)) + Len(r))
    BY <1>1, <1>2, SMT
  <2>2. Skip(1, i) = i + 1 /\ i + 1 \in 1..(Len(q) + Len(r))
    BY <1>1, <2>1, SMT DEF Skip
  <2>3. CASE i <= Len(Tail(q))
    <3>1. i + 1 <= Len(q) /\ i \in 1..Len(Tail(q))
      BY <1>1, <2>1, <2>3, SMT
    <3>. QED BY <1>1, <1>2, <1>3, <2>1, <2>2, <2>3, <3>1
  <2>4. CASE ~(i <= Len(Tail(q)))
    <3>1. ~(i + 1 <= Len(q)) /\ (i + 1) - Len(q) = i - Len(Tail(q))
      BY <1>1, <2>1, <2>4, SMT
    <3>. QED BY <1>2, <1>3, <2>1, <2>2, <2>4, <3>1
  <2>. QED BY <2>3, <2>4
<1>. QED BY <1>4, <1>5, <1>6

LEMMA FlightAdded ==
  ASSUME NEW A, NEW q \in Seq(A), NEW r \in Seq(A)
  PROVE  /\ Len(q) \in Nat /\ Len(r) \in Nat /\ q \o <<>> = q
         /\ Len(q \o r) = Len(q) + Len(r)
         /\ \A i \in 1..Len(q) : (q \o r)[i] = q[i]
         /\ \A i \in 1..Len(r) : (q \o r)[Len(q) + i] = r[i]
<1>1. Len(q) \in Nat /\ Len(r) \in Nat /\ q \o <<>> = q
  BY LenProperties, ConcatEmptySeq
<1>2. /\ Len(q \o r) = Len(q) + Len(r)
      /\ \A i \in 1..(Len(q) + Len(r)) : (q \o r)[i] = IF i <= Len(q) THEN q[i] ELSE r[i - Len(q)]
  BY ConcatProperties
<1>3. ASSUME NEW i \in 1..Len(q) PROVE (q \o r)[i] = q[i]
  <2>1. i \in 1..(Len(q) + Len(r)) /\ i <= Len(q)
    BY <1>1, SMT
  <2>. QED BY <1>2, <2>1
<1>4. ASSUME NEW i \in 1..Len(r) PROVE (q \o r)[Len(q) + i] = r[i]
  <2>1. Len(q) + i \in 1..(Len(q) + Len(r)) /\ ~(Len(q) + i <= Len(q)) /\ (Len(q) + i) - Len(q) = i
    BY <1>1, SMT
  <2>. QED BY <1>2, <2>1
<1>. QED BY <1>1, <1>2, <1>3, <1>4

-----------------------------------------------------------------------------
(* While the exchange's history does not change, neither does what is      *)
(* derived from it.                                                        *)
LEMMA SameHistory ==
  ASSUME log' = log, ends' = ends
  PROVE  /\ \A n : TruthAt(n)' = TruthAt(n)
         /\ \A u : FirstOf(u)' = FirstOf(u)
         /\ \A u : Written(u)' = Written(u)
         /\ \A u, k : Message(u, k)' = Message(u, k)
         /\ AllMessages' = AllMessages
<1>1. \A n : TruthAt(n)' = TruthAt(n)
  BY DEF TruthAt
<1>2. \A u : FirstOf(u)' = FirstOf(u)
  BY DEF FirstOf
<1>3. \A u : Written(u)' = Written(u)
  BY <1>2 DEF Written
<1>4. \A u, k : Message(u, k)' = Message(u, k)
  BY <1>1, <1>2 DEF Message
<1>5. AllMessages' = AllMessages
  BY <1>4 DEF AllMessages
<1>. QED BY <1>1, <1>2, <1>3, <1>4, <1>5

(* A message says which event it is of, and what it writes.                *)
LEMMA AllMessagesAre ==
  ASSUME ends \subseteq Ids, NEW x \in AllMessages
  PROVE  /\ x.u \in ends /\ x.u \in Nat /\ x.U = FirstOf(x.u)
         /\ x.key \in Keys \cup {NoKey} /\ x = Message(x.u, x.key)
         /\ x.key \in Keys => x.key # NoKey /\ x.val = TruthAt(x.u)[x.key]
<1>1. PICK u \in ends, k \in Keys \cup {NoKey} : x = Message(u, k)
  BY DEF AllMessages
<1>2. /\ x.u = u /\ x.key = k /\ x.U = FirstOf(u)
      /\ k # NoKey => x.val = TruthAt(u)[k]
  BY <1>1, MessageIs
<1>3. u \in Nat
  BY IdsFact, SMT
<1>. QED BY <1>1, <1>2, <1>3, IdsFact

(* What is in flight is messages of events.                                *)
LEMMA FlightIs ==
  ASSUME ends \subseteq Ids, queue \in Seq(AllMessages), pending \in Seq(AllMessages)
  PROVE  /\ Flight \in Seq(AllMessages) /\ Len(Flight) \in Nat
         /\ Len(Flight) = Len(queue) + Len(pending)
         /\ Len(queue) \in Nat /\ Len(pending) \in Nat
         /\ \A i \in 1..Len(Flight) : Flight[i] \in AllMessages /\ Flight[i].u \in ends
         /\ \A i \in 1..Len(queue \o pending) :
              LET x == (queue \o pending)[i]
              IN x.u \in ends /\ x \in {Message(x.u, k) : k \in Keys \cup {NoKey}}
<1>1. /\ Flight \in Seq(AllMessages) /\ Len(Flight) = Len(queue) + Len(pending)
  BY ConcatProperties DEF Flight
<1>2. Len(Flight) \in Nat /\ Len(queue) \in Nat /\ Len(pending) \in Nat
  BY <1>1, LenProperties
<1>3. \A i \in 1..Len(Flight) : Flight[i] \in AllMessages
  BY <1>1, ElementOfSeq
<1>4. \A i \in 1..Len(Flight) : /\ Flight[i].u \in ends /\ Flight[i].key \in Keys \cup {NoKey}
                                /\ Flight[i] = Message(Flight[i].u, Flight[i].key)
  BY <1>3, AllMessagesAre
<1>5. \A i \in 1..Len(Flight) : Flight[i] \in {Message(Flight[i].u, k) : k \in Keys \cup {NoKey}}
  BY <1>4
<1>6. \A i \in 1..Len(queue \o pending) :
         LET x == (queue \o pending)[i]
         IN x.u \in ends /\ x \in {Message(x.u, k) : k \in Keys \cup {NoKey}}
  BY <1>4, <1>5, Zenon DEF Flight
<1>. QED BY <1>1, <1>2, <1>3, <1>4, <1>6

-----------------------------------------------------------------------------
(* Taking a message out.                                                   *)

Takes(p) == /\ p \in 1..Len(Flight) /\ Len(Flight') = Len(Flight) - 1
            /\ \A i \in 1..Len(Flight') : Flight'[i] = Flight[Skip(p, i)]

(* The numbering before and after message p was taken.                     *)
LEMMA SkipIs ==
  ASSUME NEW n \in Nat, NEW p \in 1..n
  PROVE  /\ \A i \in 1..(n - 1) : Skip(p, i) \in 1..n /\ Skip(p, i) # p /\ Skip(p, i) >= i
         /\ \A i, j \in 1..(n - 1) : i <= j => Skip(p, i) <= Skip(p, j)
         /\ \A j \in 1..n : j # p => \E i \in 1..(n - 1) : Skip(p, i) = j
<1>1. \A i \in 1..(n - 1) : Skip(p, i) \in 1..n /\ Skip(p, i) # p /\ Skip(p, i) >= i
  BY SMT DEF Skip
<1>2. \A i, j \in 1..(n - 1) : i <= j => Skip(p, i) <= Skip(p, j)
  BY SMT DEF Skip
<1>3. ASSUME NEW j \in 1..n, j # p PROVE \E i \in 1..(n - 1) : Skip(p, i) = j
  <2>1. CASE j < p
    <3>1. j \in 1..(n - 1) /\ Skip(p, j) = j
      BY <2>1, SMT DEF Skip
    <3>. QED BY <3>1
  <2>2. CASE ~(j < p)
    <3>1. j - 1 \in 1..(n - 1) /\ Skip(p, j - 1) = j
      BY <1>3, <2>2, SMT DEF Skip
    <3>. QED BY <3>1
  <2>. QED BY <2>1, <2>2
<1>. QED BY <1>1, <1>2, <1>3

(* Taking a message out separates no two others of one event.              *)
LEMMA BesideTaken ==
  ASSUME Len(Flight) \in Nat, NEW p, Takes(p), NEW i \in 1..Len(Flight'), NEW j \in 1..Len(Flight')
  PROVE  /\ Beside(Skip(p, i), Skip(p, j)) => Beside(i, j)'
         /\ Beside(Skip(p, i), 1) => Beside(i, 1)'
<1>1. /\ p \in 1..Len(Flight) /\ Len(Flight') = Len(Flight) - 1
      /\ \A n \in 1..Len(Flight') : Flight'[n] = Flight[Skip(p, n)]
  BY DEF Takes
<1>2. /\ \A n \in 1..Len(Flight') : Skip(p, n) \in 1..Len(Flight) /\ Skip(p, n) >= n
      /\ \A a, b \in 1..Len(Flight') : a <= b => Skip(p, a) <= Skip(p, b)
  BY <1>1, SkipIs
<1>3. ASSUME Beside(Skip(p, i), Skip(p, j)) PROVE Beside(i, j)'
  <2>. SUFFICES ASSUME NEW n \in 1..Len(Flight'), (i <= n /\ n <= j) \/ (j <= n /\ n <= i)
                PROVE  Flight'[n].u = Flight'[i].u
    BY DEF Beside
  <2>1. \/ Skip(p, i) <= Skip(p, n) /\ Skip(p, n) <= Skip(p, j)
        \/ Skip(p, j) <= Skip(p, n) /\ Skip(p, n) <= Skip(p, i)
    BY <1>2
  <2>2. Flight[Skip(p, n)].u = Flight[Skip(p, i)].u
    BY <1>2, <1>3, <2>1 DEF Beside
  <2>. QED BY <1>1, <2>2
<1>4. ASSUME Beside(Skip(p, i), 1) PROVE Beside(i, 1)'
  <2>. SUFFICES ASSUME NEW n \in 1..Len(Flight'), (i <= n /\ n <= 1) \/ (1 <= n /\ n <= i)
                PROVE  Flight'[n].u = Flight'[i].u
    BY DEF Beside
  <2>1. n <= i \/ n = i
    BY <1>1, SMT
  <2>2. Skip(p, n) <= Skip(p, i) /\ Skip(p, n) \in 1..Len(Flight)
    <3>1. Skip(p, i) <= Skip(p, i)
      BY <1>1, <1>2, SMT
    <3>. QED BY <1>2, <2>1, <3>1
  <2>3. 1 <= Skip(p, n)
    BY <1>1, <2>2, SMT
  <2>4. Flight[Skip(p, n)].u = Flight[Skip(p, i)].u
    BY <1>4, <2>2, <2>3 DEF Beside
  <2>. QED BY <1>1, <2>4
<1>. QED BY <1>3, <1>4

(* A message may go if it is counted lost or the consumer has it.          *)
LEMMA CompleteTaken ==
  ASSUME log \in [Ids -> Keys \cup {NoKey}], ends \subseteq Ids, log' = log, ends' = ends,
         queue \in Seq(AllMessages), pending \in Seq(AllMessages),
         Complete, NEW p, Takes(p), lostOps \subseteq lostOps',
         \/ Flight[p].key \in Keys => <<Flight[p].u, Flight[p].key>> \in lostOps'
         \/ p = 1 /\ pc' = "receive" /\ have_event' /\ cur_U' = FirstOf(Flight[1].u),
         pc = "receive" /\ have_event /\ cur_U = FirstOf(Flight[1].u)
            => pc' = "receive" /\ have_event' /\ cur_U' = cur_U
  PROVE  Complete'
<1>1. /\ p \in 1..Len(Flight) /\ Len(Flight') = Len(Flight) - 1 /\ Len(Flight) \in Nat
      /\ \A n \in 1..Len(Flight') : Flight'[n] = Flight[Skip(p, n)]
      /\ \A n \in 1..Len(Flight) : Flight[n].u \in ends
  BY FlightIs DEF Takes
<1>2. /\ \A n \in 1..Len(Flight') : Skip(p, n) \in 1..Len(Flight)
      /\ \A j \in 1..Len(Flight) : j # p => \E n \in 1..Len(Flight') : Skip(p, n) = j
  <2>1. /\ \A n \in 1..(Len(Flight) - 1) : Skip(p, n) \in 1..Len(Flight)
        /\ \A j \in 1..Len(Flight) : j # p => \E n \in 1..(Len(Flight) - 1) : Skip(p, n) = j
    BY <1>1, SkipIs, Zenon
  <2>. QED BY <1>1, <2>1, Zenon
<1>. SUFFICES ASSUME NEW i \in 1..Len(Flight'), NEW k \in Written(Flight'[i].u)
              PROVE  \/ <<Flight'[i].u, k>> \in lostOps'
                     \/ \E j \in 1..Len(Flight') : Flight'[j].key = k /\ Beside(i, j)'
                     \/ /\ pc' = "receive" /\ have_event' /\ cur_U' = FirstOf(Flight'[i].u)
                        /\ Beside(i, 1)'
  BY SameHistory DEF Complete
<1>. DEFINE s == Skip(p, i)
<1>3. s \in 1..Len(Flight) /\ Flight'[i] = Flight[s] /\ Flight[s].u \in ends
  BY <1>1, <1>2
<1>4. k \in Keys /\ k \in Written(Flight[s].u)
  BY <1>3, WrittenIs
<1>5. 1 \in 1..Len(Flight)
  BY <1>1, SMT
<1>6. \A j \in 1..Len(Flight) : Beside(s, j) => Flight[j].u = Flight[s].u
  <2>1. \A j \in 1..Len(Flight) : (s <= j /\ j <= j) \/ (j <= j /\ j <= s)
    BY <1>1, <1>3, SMT
  <2>. QED BY <2>1 DEF Beside
<1>. HIDE DEF s
<1>7. CASE <<Flight[s].u, k>> \in lostOps
  BY <1>3, <1>7
<1>8. ASSUME NEW j \in 1..Len(Flight), Flight[j].key = k, Beside(s, j)
      PROVE  \/ <<Flight'[i].u, k>> \in lostOps'
             \/ \E n \in 1..Len(Flight') : Flight'[n].key = k /\ Beside(i, n)'
             \/ /\ pc' = "receive" /\ have_event' /\ cur_U' = FirstOf(Flight'[i].u)
                /\ Beside(i, 1)'
  <2>1. CASE j # p
    <3>1. PICK n \in 1..Len(Flight') : Skip(p, n) = j
      BY <1>2, <2>1
    <3>2. Flight'[n].key = k /\ Beside(i, n)'
      BY <1>1, <1>8, <3>1, BesideTaken DEF s
    <3>. QED BY <3>2
  <2>2. CASE j = p
    <3>1. Flight[p].u = Flight[s].u /\ Flight[p].key = k
      BY <1>6, <1>8, <2>2
    <3>2. CASE <<Flight[p].u, Flight[p].key>> \in lostOps'
      BY <1>3, <3>1, <3>2
    <3>3. CASE p = 1 /\ pc' = "receive" /\ have_event' /\ cur_U' = FirstOf(Flight[1].u)
      <4>1. Beside(i, 1)'
        BY <1>1, <1>8, <2>2, <3>3, BesideTaken DEF s
      <4>2. cur_U' = FirstOf(Flight'[i].u)
        BY <1>3, <3>1, <3>3
      <4>. QED BY <3>3, <4>1, <4>2
    <3>. QED BY <1>4, <3>1, <3>2, <3>3
  <2>. QED BY <2>1, <2>2
<1>9. CASE pc = "receive" /\ have_event /\ cur_U = FirstOf(Flight[s].u) /\ Beside(s, 1)
  <2>1. Flight[1].u = Flight[s].u
    BY <1>5, <1>6, <1>9
  <2>2. pc' = "receive" /\ have_event' /\ cur_U' = FirstOf(Flight'[i].u)
    BY <1>3, <1>9, <2>1
  <2>3. Beside(i, 1)'
    BY <1>1, <1>9, BesideTaken DEF s
  <2>. QED BY <2>2, <2>3
<1>10. \/ <<Flight[s].u, k>> \in lostOps
       \/ \E j \in 1..Len(Flight) : Flight[j].key = k /\ Beside(s, j)
       \/ pc = "receive" /\ have_event /\ cur_U = FirstOf(Flight[s].u) /\ Beside(s, 1)
  BY <1>3, <1>4 DEF Complete
<1>. QED BY <1>7, <1>8, <1>9, <1>10

(* What is left of the event being applied, but for the message taken.     *)
LEMMA RemainingTaken ==
  ASSUME Len(Flight) \in Nat, NEW p, Takes(p),
         have_event' = have_event, cur_apply' = cur_apply, prev_u' = prev_u,
         NEW k, Remaining(k)
  PROVE  Remaining(k)' \/ (Flight[p].key = k /\ Flight[p].u = prev_u)
<1>1. /\ p \in 1..Len(Flight) /\ Len(Flight') = Len(Flight) - 1
      /\ \A n \in 1..Len(Flight') : Flight'[n] = Flight[Skip(p, n)]
  BY DEF Takes
<1>2. \A j \in 1..Len(Flight) : j # p => \E n \in 1..Len(Flight') : Skip(p, n) = j
  <2>1. \A j \in 1..Len(Flight) : j # p => \E n \in 1..(Len(Flight) - 1) : Skip(p, n) = j
    BY <1>1, SkipIs, Zenon
  <2>. QED BY <1>1, <2>1, Zenon
<1>3. PICK i \in 1..Len(Flight) : Flight[i].u = prev_u /\ Flight[i].key = k /\ Beside(i, 1)
  BY DEF Remaining
<1>4. CASE i # p
  <2>1. PICK n \in 1..Len(Flight') : Skip(p, n) = i
    BY <1>2, <1>4
  <2>2. Flight'[n].u = prev_u' /\ Flight'[n].key = k /\ Beside(n, 1)'
    BY <1>1, <1>3, <2>1, BesideTaken
  <2>3. have_event' /\ cur_apply'
    BY DEF Remaining
  <2>. QED BY <2>2, <2>3 DEF Remaining
<1>. QED BY <1>3, <1>4

-----------------------------------------------------------------------------
(* The types of the primed state, whatever the step did.                   *)

(* Everything the type invariant says but for the messages on their way.   *)
Scalars ==
  /\ now \in 0..MaxId /\ sent \in ends \cup {0} /\ sent <= now
  /\ Len(queue) <= Capacity
  /\ pc \in {"bootstrap", "receive", "snapshot"}
  /\ mode \in {"Seeking", "Streaming"}
  /\ book \in [Keys -> 0..MaxId] /\ L \in 0..now /\ prev_u \in ends \cup {0}
  /\ have_event \in BOOLEAN /\ cur_apply \in BOOLEAN
  /\ dropped \in Nat /\ gaps \in 0..resyncs
  /\ (mode = "Streaming") <=> (prev_u > 0)
  /\ {reconnects, malformed, dropped, resyncs} \subseteq Nat

LEMMA InFlightTyped ==
  ASSUME ends \subseteq Ids, NEW q \in Seq(AllMessages), NEW r \in Seq(AllMessages)
  PROVE  /\ q \o r \in Seq(AllMessages) /\ Len(q \o r) \in Nat
         /\ \A i \in 1..Len(q \o r) :
              LET x == (q \o r)[i]
              IN x.u \in ends /\ x \in {Message(x.u, k) : k \in Keys \cup {NoKey}}
<1>1. q \o r \in Seq(AllMessages)
  BY ConcatProperties
<1>2. Len(q \o r) \in Nat
  BY <1>1, LenProperties
<1>3. \A i \in 1..Len(q \o r) : (q \o r)[i] \in AllMessages
  BY <1>1, ElementOfSeq
<1>4. \A i \in 1..Len(q \o r) : /\ (q \o r)[i].u \in ends /\ (q \o r)[i].key \in Keys \cup {NoKey}
                                /\ (q \o r)[i] = Message((q \o r)[i].u, (q \o r)[i].key)
  BY <1>3, AllMessagesAre
<1>5. \A i \in 1..Len(q \o r) : (q \o r)[i] \in {Message((q \o r)[i].u, k) : k \in Keys \cup {NoKey}}
  BY <1>4
<1>. QED BY <1>1, <1>2, <1>4, <1>5, Zenon

(* The invariant after a step that leaves the history alone.               *)
LEMMA InvByParts ==
  ASSUME log \in [Ids -> Keys \cup {NoKey}], ends \subseteq Ids, log' = log, ends' = ends,
         queue' \in Seq(AllMessages), pending' \in Seq(AllMessages), Scalars',
         Complete', EventInv', StreamInv', OrderInv'
  PROVE  SyncInv'
<1>1. AllMessages' = AllMessages /\ \A u, k : Message(u, k)' = Message(u, k)
  BY SameHistory
<1>2. \A i \in 1..Len(queue' \o pending') :
         LET x == (queue' \o pending')[i]
         IN x.u \in ends /\ x \in {Message(x.u, k) : k \in Keys \cup {NoKey}}
  BY InFlightTyped
<1>3. \A x : x \in {Message(x.u, k) : k \in Keys \cup {NoKey}}
                => x \in {Message(x.u, k)' : k \in Keys \cup {NoKey}}
  BY <1>1, Zenon
<1>0. (\A i \in 1..Len(queue \o pending) :
         LET x == (queue \o pending)[i]
         IN x.u \in ends /\ x \in {Message(x.u, k) : k \in Keys \cup {NoKey}})'
  BY <1>2, <1>3, Zenon
<1>4. TypeOK'
  BY <1>0 DEF TypeOK, Scalars
<1>5. (log \in [Ids -> Keys \cup {NoKey}] /\ ends \subseteq Ids)'
  BY DEF Ids
<1>6. (queue \in Seq(AllMessages) /\ pending \in Seq(AllMessages))'
  BY <1>1
<1>7. ({reconnects, malformed, dropped, resyncs} \subseteq Nat)'
  BY DEF Scalars
<1>. QED BY <1>4, <1>5, <1>6, <1>7 DEF SyncInv

(* What the invariant says, with the types the steps need.                 *)
LEMMA SyncFacts ==
  ASSUME SyncInv
  PROVE  /\ log \in [Ids -> Keys \cup {NoKey}] /\ ends \subseteq Ids
         /\ queue \in Seq(AllMessages) /\ pending \in Seq(AllMessages)
         /\ Scalars /\ Complete /\ EventInv /\ StreamInv /\ OrderInv
         /\ ends \cup {0} \subseteq Nat
<1>1. ends \cup {0} \subseteq Nat
  BY IdsFact, SMT DEF SyncInv
<1>. QED BY <1>1 DEF SyncInv, TypeOK, Scalars

(* A step that leaves what is on its way, the consumer and lostOps alone.  *)
LEMMA NothingMoves ==
  ASSUME SyncInv, log' = log, ends' = ends, Flight' = Flight,
         UNCHANGED <<pc, book, L, mode, prev_u, have_event, cur_U, cur_apply, lostOps>>
  PROVE  Complete' /\ EventInv' /\ StreamInv'
<1>1. \A i, j : Beside(i, j)' <=> Beside(i, j)
  BY DEF Beside
<1>2. Complete'
  <2>1. Complete
    BY SyncFacts
  <2>. QED BY <1>1, <2>1, SameHistory DEF Complete
<1>3. EventInv'
  BY SyncFacts, SameHistory DEF EventInv
<1>4. StreamInv'
  <2>1. \A k : Remaining(k)' <=> Remaining(k)
    BY <1>1 DEF Remaining
  <2>2. \A k : Torn(k)' <=> Torn(k)
    BY DEF Torn
  <2>. QED BY <2>1, <2>2, SyncFacts, SameHistory DEF StreamInv
<1>. QED BY <1>2, <1>3, <1>4

(* The steps that touch neither the consumer nor the order in flight.      *)
LEMMA UpdateKeeps == ASSUME SyncInv, Update PROVE SyncInv'
<1>. USE DEF Update, exchangeVars, streamVars, consumerVars
<1>1. Flight' = Flight
  BY DEF Flight
<1>2. Complete' /\ EventInv' /\ StreamInv'
  BY <1>1, NothingMoves
<1>3. OrderInv'
  BY <1>1, SyncFacts, SameHistory DEF OrderInv, Joins
<1>4. Scalars'
  BY SyncFacts, IdsFact, SMTT(30) DEF Scalars
<1>. QED BY <1>2, <1>3, <1>4, SyncFacts, InvByParts

LEMMA ReconnectKeeps == ASSUME SyncInv, Reconnect PROVE SyncInv'
<1>. USE DEF Reconnect, exchangeVars, streamVars, consumerVars
<1>1. Flight' = Flight
  BY DEF Flight
<1>2. Complete' /\ EventInv' /\ StreamInv'
  BY <1>1, NothingMoves
<1>3. OrderInv'
  BY SyncFacts DEF OrderInv, Scalars
<1>4. Scalars'
  BY SyncFacts, IdsFact, SMTT(30) DEF Scalars
<1>. QED BY <1>2, <1>3, <1>4, SyncFacts, InvByParts

LEMMA BootstrapFailsKeeps == ASSUME SyncInv, BootstrapFails PROVE SyncInv'
<1>. USE DEF BootstrapFails, exchangeVars, streamVars, consumerVars
<1>1. Flight' = Flight
  BY DEF Flight
<1>2. Complete' /\ EventInv' /\ StreamInv'
  BY <1>1, NothingMoves
<1>3. OrderInv'
  BY <1>1, SyncFacts, SameHistory DEF OrderInv, Joins
<1>4. Scalars'
  BY SyncFacts, IdsFact DEF Scalars
<1>. QED BY <1>2, <1>3, <1>4, SyncFacts, InvByParts

LEMMA PushOpKeeps == ASSUME SyncInv, PushOp PROVE SyncInv'
<1>. USE DEF PushOp, exchangeVars, consumerVars
<1>0. queue \in Seq(AllMessages) /\ pending \in Seq(AllMessages) /\ pending # <<>>
  BY SyncFacts
<1>1. Flight' = Flight
  BY <1>0, FlightPushed DEF Flight
<1>2. Complete' /\ EventInv' /\ StreamInv'
  BY <1>1, NothingMoves
<1>3. OrderInv'
  BY <1>1, SyncFacts, SameHistory DEF OrderInv, Joins
<1>4. queue' \in Seq(AllMessages) /\ pending' \in Seq(AllMessages) /\ Len(queue') = Len(queue) + 1
      /\ Len(queue) \in Nat
  BY <1>0, SMT
<1>5. Scalars'
  <2>1. Len(queue') <= Capacity
    BY <1>4, LiveAssumption, SMT
  <2>. QED BY <2>1, SyncFacts DEF Scalars
<1>. QED BY <1>2, <1>3, <1>4, <1>5, SyncFacts, InvByParts

-----------------------------------------------------------------------------
(* The order of the events where nothing was lost, of messages F that end  *)
(* at what the connection sent last, s, for a consumer in mode md at p.    *)

Orderly(F, s, md, p) ==
  /\ \A i \in 1..(Len(F) - 1) : Joins(F[i].u, F[i + 1].u)
  /\ \A i \in 1..Len(F) : F[i].u <= s
  /\ Len(F) > 0 => F[Len(F)].u = s
  /\ md = "Streaming" =>
       /\ p <= s
       /\ Len(F) = 0 => p = s
       /\ Len(F) > 0 => F[1].u <= p \/ FirstOf(F[1].u) = p + 1

(* OrderInv over what it depends on.                                       *)
LEMMA OrderByParts ==
  ASSUME log' = log, ends' = ends,
         reconnects' = 0 /\ malformed' = 0 /\ dropped' = 0
            => gaps' = 0 /\ Orderly(Flight', sent', mode', prev_u')
  PROVE  OrderInv'
<1>1. \A u : FirstOf(u)' = FirstOf(u)
  BY SameHistory
<1>2. \A u, v : Joins(u, v)' <=> Joins(u, v)
  BY <1>1 DEF Joins
<1>3. (OrderInv <=> (reconnects = 0 /\ malformed = 0 /\ dropped = 0
                      => gaps = 0 /\ Orderly(Flight, sent, mode, prev_u)))'
  BY DEF OrderInv, Orderly
<1>4. Orderly(Flight, sent, mode, prev_u)' <=> Orderly(Flight', sent', mode', prev_u')
  BY <1>1, <1>2 DEF Orderly
<1>. QED BY <1>3, <1>4

-----------------------------------------------------------------------------
(* The callback thread takes a new event, or loses a message.              *)

LEMMA OnMessageKeeps == ASSUME SyncInv, OnMessage PROVE SyncInv'
<1>. DEFINE q == queue
            r == Messages(sent')
            c == Len(queue)
            d == Len(Messages(sent'))
<1>0. /\ log \in [Ids -> Keys \cup {NoKey}] /\ ends \subseteq Ids
      /\ queue \in Seq(AllMessages) /\ Scalars /\ Complete /\ EventInv /\ StreamInv /\ OrderInv
      /\ ends \subseteq Nat /\ sent \in ends \cup {0} /\ sent \in Nat /\ now \in Nat
  BY SyncFacts, IdsFact, SMTT(30) DEF Scalars
<1>1. /\ pending = <<>> /\ pending' = r /\ queue' = queue /\ log' = log /\ ends' = ends /\ now' = now
      /\ UNCHANGED <<policy, dropped, reconnects, malformed, lostOps>> /\ UNCHANGED consumerVars
  BY DEF OnMessage, exchangeVars
<1>2. sent' \in ends /\ sent' > sent /\ FirstOf(sent') = sent + 1 /\ sent' <= now
  <2>1. PICK e \in ends : e > sent /\ e <= now
    BY DEF OnMessage
  <2>2. sent' = Least({x \in ends : x > sent})
    BY DEF OnMessage
  <2>3. /\ sent' \in ends /\ sent' > sent /\ FirstOf(sent') = sent + 1
        /\ \A x \in ends : x > sent => sent' <= x
    BY <1>0, <2>1, <2>2, NextEvent
  <2>4. sent' <= e /\ e \in Nat /\ sent' \in Nat
    BY <1>0, <2>1, <2>3
  <2>. QED BY <1>0, <2>1, <2>3, <2>4, SMT
<1>3. /\ r \in Seq(AllMessages) /\ d \in Nat /\ d >= 1
      /\ \A i \in 1..d : r[i].u = sent'
      /\ \A k \in Written(sent') : \E i \in 1..d : r[i].key = k
  BY <1>0, <1>2, MessagesAre
<1>. HIDE DEF r, d
<1>4. /\ c \in Nat /\ Flight = queue /\ Flight' = queue \o r /\ Len(Flight) = c
      /\ Len(Flight') = c + d
      /\ \A i \in 1..c : Flight'[i] = Flight[i]
      /\ \A i \in 1..d : Flight'[c + i] = r[i]
  <2>1. /\ Len(queue) \in Nat /\ queue \o <<>> = queue /\ Len(queue \o r) = Len(queue) + Len(r)
        /\ \A i \in 1..Len(queue) : (queue \o r)[i] = queue[i]
        /\ \A i \in 1..Len(r) : (queue \o r)[Len(queue) + i] = r[i]
    BY <1>0, <1>3, FlightAdded
  <2>2. Flight = queue /\ Flight' = queue \o r
    BY <1>1, <2>1 DEF Flight
  <2>. QED BY <2>1, <2>2 DEF d, r
<1>. HIDE DEF c
<1>5. \A i \in 1..c : Flight[i].u \in ends /\ Flight[i].u \in Nat
  <2>1. pending \in Seq(AllMessages)
    BY SyncFacts
  <2>. QED BY <1>0, <1>4, <2>1, FlightIs
<1>6. \A i \in 1..(c + d) : i \notin 1..c => Flight'[i].u = sent'
  <2>. SUFFICES ASSUME NEW i \in 1..(c + d), i \notin 1..c PROVE Flight'[i].u = sent'
    OBVIOUS
  <2>1. i - c \in 1..d /\ c + (i - c) = i
    BY <1>3, <1>4, SMT
  <2>. QED BY <1>3, <1>4, <2>1
<1>7. \A i, j \in 1..c : Beside(i, j) => Beside(i, j)'
  <2>. SUFFICES ASSUME NEW i \in 1..c, NEW j \in 1..c, Beside(i, j),
                       NEW n \in 1..(c + d), (i <= n /\ n <= j) \/ (j <= n /\ n <= i)
                PROVE  Flight'[n].u = Flight'[i].u
    BY <1>4 DEF Beside
  <2>1. n \in 1..c
    BY <1>3, <1>4, SMT
  <2>2. Flight[n].u = Flight[i].u
    BY <1>4, <2>1 DEF Beside
  <2>. QED BY <1>4, <2>1, <2>2
<1>8. \A i, j \in 1..(c + d) : i \notin 1..c /\ j \notin 1..c => Beside(i, j)'
  <2>. SUFFICES ASSUME NEW i \in 1..(c + d), NEW j \in 1..(c + d), i \notin 1..c, j \notin 1..c,
                       NEW n \in 1..(c + d), (i <= n /\ n <= j) \/ (j <= n /\ n <= i)
                PROVE  Flight'[n].u = Flight'[i].u
    BY <1>4 DEF Beside
  <2>1. n \notin 1..c
    BY <1>3, <1>4, SMT
  <2>. QED BY <1>6, <2>1
<1>9. 1..c \subseteq 1..(c + d) /\ (\A i \in 1..c : 1 \in 1..c)
  BY <1>3, <1>4, SMT
<1>10. Complete'
  <2>. SUFFICES ASSUME NEW i \in 1..(c + d), NEW k \in Written(Flight'[i].u)
                PROVE  \/ <<Flight'[i].u, k>> \in lostOps'
                       \/ \E j \in 1..(c + d) : Flight'[j].key = k /\ Beside(i, j)'
                       \/ /\ pc' = "receive" /\ have_event' /\ cur_U' = FirstOf(Flight'[i].u)
                          /\ Beside(i, 1)'
    BY <1>1, <1>4, SameHistory, SMTT(30) DEF Complete
  <2>1. CASE i \in 1..c
    <3>1. \/ <<Flight[i].u, k>> \in lostOps
          \/ \E j \in 1..c : Flight[j].key = k /\ Beside(i, j)
          \/ pc = "receive" /\ have_event /\ cur_U = FirstOf(Flight[i].u) /\ Beside(i, 1)
      BY <1>0, <1>4, <2>1 DEF Complete
    <3>2. ASSUME NEW j \in 1..c, Flight[j].key = k, Beside(i, j)
          PROVE  \E n \in 1..(c + d) : Flight'[n].key = k /\ Beside(i, n)'
      BY <1>4, <1>7, <1>9, <2>1, <3>2
    <3>3. ASSUME Beside(i, 1) PROVE Beside(i, 1)'
      BY <1>7, <1>9, <2>1, <3>3
    <3>. QED BY <1>1, <1>4, <2>1, <3>1, <3>2, <3>3 DEF consumerVars
  <2>2. CASE i \notin 1..c
    <3>1. Flight'[i].u = sent'
      BY <1>6, <2>2
    <3>2. PICK n \in 1..d : r[n].key = k
      BY <1>3, <3>1
    <3>3. c + n \in 1..(c + d) /\ c + n \notin 1..c
      BY <1>3, <1>4, SMT
    <3>4. Flight'[c + n].key = k
      BY <1>4, <3>2
    <3>. QED BY <1>8, <2>2, <3>3, <3>4
  <2>. QED BY <2>1, <2>2
<1>11. EventInv'
  BY <1>0, <1>1, SameHistory DEF EventInv, consumerVars
<1>12. StreamInv'
  <2>1. \A k : Remaining(k) => Remaining(k)'
    <3>. SUFFICES ASSUME NEW k, Remaining(k) PROVE Remaining(k)'
      OBVIOUS
    <3>1. PICK i \in 1..c : Flight[i].u = prev_u /\ Flight[i].key = k /\ Beside(i, 1)
      BY <1>4 DEF Remaining
    <3>2. i \in 1..Len(Flight') /\ Flight'[i].u = prev_u' /\ Flight'[i].key = k /\ Beside(i, 1)'
      BY <1>1, <1>4, <1>7, <1>9, <3>1 DEF consumerVars
    <3>3. have_event' /\ cur_apply'
      BY <1>1 DEF consumerVars, Remaining
    <3>. QED BY <3>2, <3>3 DEF Remaining
  <2>2. \A k : Torn(k)' <=> Torn(k)
    BY <1>1 DEF Torn, consumerVars
  <2>. QED BY <1>0, <1>1, <2>1, <2>2, SameHistory DEF StreamInv, consumerVars
<1>13. OrderInv'
  <2>0. UNCHANGED <<reconnects, malformed, dropped, gaps, mode, prev_u>>
    BY <1>1 DEF consumerVars
  <2>. SUFFICES ASSUME reconnects = 0, malformed = 0, dropped = 0
                PROVE  gaps = 0 /\ Orderly(Flight', sent', mode, prev_u)
    BY <1>1, <2>0, OrderByParts
  <2>1. /\ gaps = 0
        /\ \A i \in 1..(c - 1) : Joins(Flight[i].u, Flight[i + 1].u)
        /\ \A i \in 1..c : Flight[i].u <= sent
        /\ c > 0 => Flight[c].u = sent
        /\ mode = "Streaming" =>
             /\ prev_u <= sent
             /\ c = 0 => prev_u = sent
             /\ c > 0 => Flight[1].u <= prev_u \/ FirstOf(Flight[1].u) = prev_u + 1
    BY <1>0, <1>4 DEF OrderInv
  <2>2. prev_u \in Nat
    BY <1>0, SyncFacts DEF Scalars
  <2>3. ASSUME NEW i \in 1..(c + d - 1) PROVE Joins(Flight'[i].u, Flight'[i + 1].u)
    <3>1. CASE i \in 1..(c - 1)
      <4>1. i \in 1..c /\ i + 1 \in 1..c
        BY <1>4, <3>1, SMT
      <4>. QED BY <1>4, <2>1, <3>1, <4>1
    <3>2. CASE i = c /\ c > 0
      <4>1. c \in 1..c /\ c + 1 \in 1..(c + d) /\ c + 1 \notin 1..c
        BY <1>3, <1>4, <3>2, SMT
      <4>2. Flight'[c].u = sent /\ Flight'[c + 1].u = sent'
        BY <1>4, <1>6, <2>1, <3>2, <4>1
      <4>. QED BY <1>2, <3>2, <4>2 DEF Joins
    <3>3. CASE i > c
      <4>1. i \in 1..(c + d) /\ i + 1 \in 1..(c + d) /\ i \notin 1..c /\ i + 1 \notin 1..c
        BY <1>3, <1>4, <3>3, SMT
      <4>. QED BY <1>6, <4>1 DEF Joins
    <3>. QED BY <1>3, <1>4, <3>1, <3>2, <3>3, SMT
  <2>4. ASSUME NEW i \in 1..(c + d) PROVE Flight'[i].u <= sent'
    <3>1. CASE i \in 1..c
      <4>1. Flight'[i].u = Flight[i].u /\ Flight[i].u <= sent /\ Flight[i].u \in Nat
        BY <1>4, <1>5, <2>1, <3>1
      <4>. QED BY <1>0, <1>2, <4>1, SMT
    <3>2. CASE i \notin 1..c
      <4>1. Flight'[i].u = sent' /\ sent' \in Nat
        BY <1>0, <1>2, <1>6, <3>2
      <4>. QED BY <4>1, SMT
    <3>. QED BY <3>1, <3>2
  <2>5. c + d > 0 /\ Flight'[c + d].u = sent'
    <3>1. c + d \in 1..(c + d) /\ c + d \notin 1..c /\ c + d > 0
      BY <1>3, <1>4, SMT
    <3>. QED BY <1>6, <3>1
  <2>6. ASSUME mode = "Streaming"
        PROVE  prev_u <= sent' /\ (Flight'[1].u <= prev_u \/ FirstOf(Flight'[1].u) = prev_u + 1)
    <3>1. prev_u <= sent'
      BY <1>0, <1>2, <2>1, <2>2, <2>6, SMT
    <3>2. CASE c = 0
      <4>1. 1 \in 1..(c + d) /\ 1 \notin 1..c
        BY <1>3, <1>4, <3>2, SMT
      <4>2. Flight'[1].u = sent' /\ prev_u = sent
        BY <1>6, <2>1, <2>6, <3>2, <4>1
      <4>. QED BY <1>2, <3>1, <4>2
    <3>3. CASE c > 0
      <4>1. 1 \in 1..c
        BY <1>4, <3>3, SMT
      <4>. QED BY <1>4, <2>1, <2>6, <3>1, <3>3, <4>1
    <3>4. c = 0 \/ c > 0
      BY <1>4, SMT
    <3>. QED BY <3>2, <3>3, <3>4
  <2>7. c + d # 0
    BY <1>3, <1>4, SMT
  <2>8. Len(Flight') = c + d
    BY <1>4
  <2>9. gaps = 0
    BY <2>1
  <2>10. \A i \in 1..(Len(Flight') - 1) : Joins(Flight'[i].u, Flight'[i + 1].u)
    <3>. SUFFICES ASSUME NEW i \in 1..(Len(Flight') - 1)
                  PROVE  Joins(Flight'[i].u, Flight'[i + 1].u)
      OBVIOUS
    <3>1. i \in 1..(c + d - 1)
      BY <1>3, <1>4, <2>8, SMT
    <3>. QED BY <2>3, <3>1, Zenon
  <2>11. \A i \in 1..Len(Flight') : Flight'[i].u <= sent'
    BY <2>4, <2>8
  <2>12. Len(Flight') # 0 /\ Flight'[Len(Flight')].u = sent'
    BY <2>5, <2>7, <2>8
  <2>. QED BY <2>6, <2>9, <2>10, <2>11, <2>12, Zenon DEF Orderly
<1>14. Scalars'
  <2>1. sent' \in ends \cup {0} /\ sent' <= now
    BY <1>2
  <2>. QED BY <1>0, <1>1, <2>1 DEF Scalars, consumerVars
<1>. QED BY <1>0, <1>1, <1>3, <1>10, <1>11, <1>12, <1>13, <1>14, InvByParts DEF consumerVars

(* A message dropped or malformed on its way into the ring.                *)
LEMMA LossKeeps ==
  ASSUME SyncInv, pending # <<>>, pending' = Tail(pending), lostOps' = Lost(Head(pending)),
         log' = log, ends' = ends, sent' = sent, now' = now, queue' = queue,
         UNCHANGED consumerVars, dropped' \in Nat, malformed' \in Nat, reconnects' \in Nat,
         dropped' > 0 \/ malformed' > 0
  PROVE  SyncInv'
<1>. DEFINE p == Len(queue) + 1
<1>0. /\ log \in [Ids -> Keys \cup {NoKey}] /\ ends \subseteq Ids
      /\ queue \in Seq(AllMessages) /\ pending \in Seq(AllMessages)
      /\ Scalars /\ Complete /\ EventInv /\ StreamInv
  BY SyncFacts
<1>1. Flight[p] = Head(pending) /\ Takes(p)
  <2>1. /\ Len(queue) + 1 \in 1..Len(queue \o pending)
        /\ (queue \o pending)[Len(queue) + 1] = Head(pending)
        /\ Len(queue \o Tail(pending)) = Len(queue \o pending) - 1
        /\ \A i \in 1..Len(queue \o Tail(pending)) :
             (queue \o Tail(pending))[i] = (queue \o pending)[Skip(Len(queue) + 1, i)]
    BY <1>0, FlightDropped
  <2>2. Flight = queue \o pending /\ Flight' = queue \o Tail(pending)
    BY DEF Flight
  <2>. QED BY <2>1, <2>2 DEF Takes
<1>. HIDE DEF p
<1>2. /\ lostOps \subseteq lostOps'
      /\ \A k \in Keys : Flight[p].key = k => <<Flight[p].u, k>> \in lostOps'
  <2>1. \A k \in Keys : k # NoKey
    BY IdsFact
  <2>. QED BY <1>1, <2>1 DEF Lost
<1>3. Complete'
  BY <1>0, <1>1, <1>2, CompleteTaken DEF consumerVars
<1>4. EventInv'
  BY <1>0, SameHistory DEF EventInv, consumerVars
<1>5. StreamInv'
  <2>1. /\ have_event' = have_event /\ cur_apply' = cur_apply /\ prev_u' = prev_u
        /\ book' = book /\ L' = L /\ mode' = mode /\ \A n : TruthAt(n)' = TruthAt(n)
    BY SameHistory DEF consumerVars
  <2>2. \A k : Torn(k) => Torn(k)'
    BY <1>2, <2>1 DEF Torn
  <2>3. ASSUME NEW k \in Keys, mode = "Streaming", Remaining(k) PROVE Remaining(k)' \/ Torn(k)'
    <3>1. Len(Flight) \in Nat
      BY <1>0, FlightIs
    <3>2. Remaining(k)' \/ (Flight[p].key = k /\ Flight[p].u = prev_u)
      BY <1>1, <2>1, <2>3, <3>1, RemainingTaken
    <3>3. ASSUME Flight[p].key = k, Flight[p].u = prev_u PROVE Torn(k)'
      <4>1. <<prev_u, k>> \in lostOps'
        BY <1>2, <3>3
      <4>2. prev_u > L /\ prev_u \in Nat /\ L \in Nat
        BY <1>0, <2>3, SyncFacts, SMTT(30) DEF StreamInv, Scalars
      <4>3. prev_u \in (L + 1)..prev_u
        BY <4>2, SMT
      <4>. QED BY <2>1, <4>1, <4>3 DEF Torn
    <3>. QED BY <3>2, <3>3
  <2>4. mode = "Seeking" => book' = TruthAt(L)
    BY <1>0, <2>1 DEF StreamInv
  <2>5. mode = "Streaming" => /\ prev_u > L
                              /\ \A k \in Keys : /\ book[k] <= TruthAt(prev_u)[k]
                                                 /\ \/ Remaining(k) \/ Torn(k)
                                                    \/ book[k] = TruthAt(prev_u)[k]
    BY <1>0 DEF StreamInv
  <2>6. mode = "Streaming" =>
          \A k \in Keys : Remaining(k)' \/ Torn(k)' \/ book[k] = TruthAt(prev_u)[k]
    BY <2>2, <2>3, <2>5
  <2>. QED BY <2>1, <2>4, <2>5, <2>6 DEF StreamInv
<1>6. OrderInv'
  BY OrderByParts
<1>7. pending' \in Seq(AllMessages)
  BY <1>0, SMT
<1>8. Scalars'
  BY <1>0 DEF Scalars, consumerVars
<1>. QED BY <1>0, <1>3, <1>4, <1>5, <1>6, <1>7, <1>8, InvByParts

LEMMA PushDroppedKeeps == ASSUME SyncInv, PushDropped PROVE SyncInv'
<1>1. /\ dropped \in Nat /\ malformed \in Nat /\ reconnects \in Nat
  BY SyncFacts DEF Scalars
<1>. QED BY <1>1, LossKeeps DEF PushDropped, exchangeVars

LEMMA PushMalformedKeeps == ASSUME SyncInv, PushMalformed PROVE SyncInv'
<1>1. /\ dropped \in Nat /\ malformed \in Nat /\ reconnects \in Nat
  BY SyncFacts DEF Scalars
<1>. QED BY <1>1, LossKeeps DEF PushMalformed, exchangeVars

-----------------------------------------------------------------------------
(* The consumer thread outside its loop: snapshots, taken or failed.       *)

(* The messages stay where they are, and the consumer is in no event.      *)
LEMMA CompleteApart ==
  ASSUME Complete, log' = log, ends' = ends, Flight' = Flight, lostOps' = lostOps,
         pc # "receive"
  PROVE  Complete'
<1>1. \A i, j : Beside(i, j)' <=> Beside(i, j)
  BY DEF Beside
<1>. QED BY <1>1, SameHistory DEF Complete

LEMMA OrderNow ==
  ASSUME OrderInv, reconnects = 0, malformed = 0, dropped = 0
  PROVE  gaps = 0 /\ Orderly(Flight, sent, mode, prev_u)
BY DEF OrderInv, Orderly

(* A snapshot that was taken: at the start and after a gap.                *)
LEMMA PreloadKeeps ==
  ASSUME SyncInv, Preload, pc # "receive", UNCHANGED exchangeVars, UNCHANGED streamVars,
         UNCHANGED <<cur_U, cur_apply, gaps, resyncs, lostOps>>
  PROVE  SyncInv'
<1>. USE DEF Preload, exchangeVars, streamVars
<1>0. /\ log \in [Ids -> Keys \cup {NoKey}] /\ ends \subseteq Ids
      /\ queue \in Seq(AllMessages) /\ pending \in Seq(AllMessages)
      /\ Scalars /\ Complete /\ EventInv /\ StreamInv /\ OrderInv
  BY SyncFacts
<1>1. Flight' = Flight
  BY DEF Flight
<1>2. Complete'
  BY <1>0, <1>1, CompleteApart
<1>3. EventInv'
  BY DEF EventInv
<1>4. StreamInv'
  <2>1. mode' = "Seeking" /\ book' = TruthAt(L')
    OBVIOUS
  <2>2. book' = TruthAt(L)'
    BY <2>1, <1>0 DEF TruthAt
  <2>. QED BY <2>1, <2>2 DEF StreamInv
<1>5. OrderInv'
  <2>1. ASSUME reconnects' = 0, malformed' = 0, dropped' = 0
        PROVE  gaps' = 0 /\ Orderly(Flight', sent', mode', prev_u')
    <3>1. gaps = 0 /\ Orderly(Flight, sent, mode, prev_u)
      BY <1>0, <2>1, OrderNow
    <3>2. mode' = "Seeking" /\ sent' = sent /\ gaps' = gaps
      OBVIOUS
    <3>. QED BY <1>1, <3>1, <3>2 DEF Orderly
  <2>. QED BY <2>1, OrderByParts
<1>6. Scalars'
  <2>1. L' \in 0..now /\ now \in 0..MaxId /\ MaxId \in Nat
    BY <1>0, IdsFact DEF Scalars
  <2>2. L' \in Nat /\ L' <= MaxId
    BY <2>1, SMT
  <2>3. book' \in [Keys -> 0..MaxId]
    <3>1. \A k \in Keys : TruthAt(L')[k] \in 0..L'
      BY <2>2, TruthIs
    <3>2. \A k \in Keys : TruthAt(L')[k] \in 0..MaxId
      BY <2>1, <2>2, <3>1, SMT
    <3>3. book' = [k \in Keys |-> Greatest({0} \cup {i \in 1..L' : log[i] = k})]
      BY DEF TruthAt
    <3>4. \A k \in Keys : book'[k] = TruthAt(L')[k]
      OBVIOUS
    <3>. QED BY <3>2, <3>3, <3>4
  <2>4. ((mode = "Streaming") <=> (prev_u > 0))'
    BY SMT
  <2>5. (prev_u \in ends \cup {0} /\ mode \in {"Seeking", "Streaming"} /\ L \in 0..now)'
    BY <2>1
  <2>. QED BY <1>0, <2>3, <2>4, <2>5 DEF Scalars
<1>. QED BY <1>0, <1>2, <1>3, <1>4, <1>5, <1>6, InvByParts

LEMMA BootstrapKeeps == ASSUME SyncInv, Bootstrap PROVE SyncInv'
BY PreloadKeeps DEF Bootstrap

LEMMA ReSnapshotKeeps == ASSUME SyncInv, ReSnapshot PROVE SyncInv'
BY PreloadKeeps DEF ReSnapshot

LEMMA ReSnapshotFailsKeeps == ASSUME SyncInv, ReSnapshotFails PROVE SyncInv'
<1>. USE DEF ReSnapshotFails, exchangeVars, streamVars
<1>0. /\ log \in [Ids -> Keys \cup {NoKey}] /\ ends \subseteq Ids
      /\ queue \in Seq(AllMessages) /\ pending \in Seq(AllMessages)
      /\ Scalars /\ Complete /\ EventInv /\ StreamInv /\ OrderInv
  BY SyncFacts
<1>1. Flight' = Flight
  BY DEF Flight
<1>2. Complete'
  BY <1>0, <1>1, CompleteApart
<1>3. EventInv'
  BY DEF EventInv
<1>4. StreamInv'
  <2>1. \A k : ~Remaining(k)
    BY <1>0 DEF Remaining, EventInv
  <2>2. \A k : Torn(k)' <=> Torn(k)
    BY DEF Torn
  <2>. QED BY <1>0, <2>1, <2>2, SameHistory DEF StreamInv
<1>5. OrderInv'
  BY <1>0, <1>1, OrderNow, OrderByParts
<1>6. Scalars'
  BY <1>0 DEF Scalars
<1>. QED BY <1>0, <1>2, <1>3, <1>4, <1>5, <1>6, InvByParts

-----------------------------------------------------------------------------
(* The consumer loop receives the message at the head of the flight.       *)

(* What Receive takes is the first message in flight.                      *)
LEMMA ReceivedIs ==
  ASSUME SyncInv, Receive
  PROVE  /\ Takes(1) /\ Flight[1] = m /\ 1 \in 1..Len(Flight) /\ Len(Flight) \in Nat
         /\ \A i \in 1..Len(Flight) : Flight[i].u \in ends
         /\ m.u \in ends /\ m.u \in Nat /\ m.u >= 1 /\ m.u <= MaxId
         /\ m.U = FirstOf(m.u) /\ FirstOf(m.u) \in Nat /\ FirstOf(m.u) <= m.u
         /\ m.key \in Keys \cup {NoKey}
         /\ m.key \in Keys => m.key # NoKey /\ m.val = TruthAt(m.u)[m.key]
         /\ queue' \in Seq(AllMessages) /\ Len(queue') <= Capacity
<1>0. ends \subseteq Ids /\ queue \in Seq(AllMessages) /\ pending \in Seq(AllMessages)
      /\ queue # <<>> /\ queue' = Tail(queue) /\ pending' = pending /\ Len(queue) <= Capacity
  BY SyncFacts DEF Receive, Scalars
<1>1. /\ Len(queue \o pending) \in Nat /\ Len(queue \o pending) >= 1
      /\ (queue \o pending)[1] = Head(queue)
      /\ Len(Tail(queue) \o pending) = Len(queue \o pending) - 1
      /\ \A i \in 1..Len(Tail(queue) \o pending) :
           (Tail(queue) \o pending)[i] = (queue \o pending)[Skip(1, i)]
  <2>0. queue \in Seq(AllMessages) /\ pending \in Seq(AllMessages) /\ queue # <<>>
    BY <1>0
  <2>1. Len(queue \o pending) \in Nat /\ Len(queue \o pending) >= 1
    BY <2>0, FlightReceived
  <2>2. (queue \o pending)[1] = Head(queue)
    BY <2>0, FlightReceived
  <2>3. Len(Tail(queue) \o pending) = Len(queue \o pending) - 1
    BY <2>0, FlightReceived
  <2>4. \A i \in 1..Len(Tail(queue) \o pending) :
           (Tail(queue) \o pending)[i] = (queue \o pending)[Skip(1, i)]
    BY <2>0, FlightReceived DEF Skip
  <2>. QED BY <2>1, <2>2, <2>3, <2>4
<1>2. Flight = queue \o pending /\ Flight' = Tail(queue) \o pending
  BY <1>0 DEF Flight
<1>3. Takes(1) /\ Flight[1] = m /\ 1 \in 1..Len(Flight)
  <2>1. 1 \in 1..Len(queue \o pending)
    BY <1>1, SMT
  <2>. QED BY <1>1, <1>2, <2>1 DEF Takes, m
<1>4. Len(Flight) \in Nat /\ \A i \in 1..Len(Flight) : Flight[i] \in AllMessages /\ Flight[i].u \in ends
  BY <1>0, FlightIs
<1>5. m \in AllMessages
  BY <1>3, <1>4
<1>6. /\ m.u \in ends /\ m.u \in Nat /\ m.U = FirstOf(m.u) /\ m.key \in Keys \cup {NoKey}
      /\ m.key \in Keys => m.key # NoKey /\ m.val = TruthAt(m.u)[m.key]
  BY <1>0, <1>5, AllMessagesAre
<1>7. m.u >= 1 /\ m.u <= MaxId /\ FirstOf(m.u) \in Nat /\ FirstOf(m.u) <= m.u
  BY <1>0, <1>6, FirstOfIs
<1>8. queue' \in Seq(AllMessages) /\ Len(queue') <= Capacity
  BY <1>0, LiveAssumption, SMT
<1>. QED BY <1>3, <1>4, <1>6, <1>7, <1>8

(* Where an event begins, nothing remains of the one before.               *)
LEMMA NotInEvent ==
  ASSUME SyncInv, Receive, NewEvent
  PROVE  /\ \A k : ~Remaining(k)
         /\ ~(have_event /\ cur_U = FirstOf(Flight[1].u))
<1>1. Flight[1] = m /\ 1 \in 1..Len(Flight) /\ Len(Flight) \in Nat /\ m.U = FirstOf(m.u)
  BY ReceivedIs
<1>2. ~(have_event /\ cur_U = FirstOf(Flight[1].u))
  BY <1>1 DEF NewEvent
<1>3. ASSUME NEW k, Remaining(k) PROVE FALSE
  <2>1. have_event /\ cur_apply /\ EventInv
    BY <1>3, SyncFacts DEF Remaining
  <2>2. PICK i \in 1..Len(Flight) : Flight[i].u = prev_u /\ Beside(i, 1)
    BY <1>3 DEF Remaining
  <2>3. 1 <= 1 /\ 1 <= i
    BY <1>1, SMT
  <2>4. Flight[1].u = prev_u
    BY <1>1, <2>2, <2>3 DEF Beside
  <2>. QED BY <1>2, <2>1, <2>4 DEF EventInv
<1>. QED BY <1>2, <1>3

(* Applying a message brings its level up to the event.                    *)
LEMMA SetLevelIs ==
  ASSUME SyncInv, Receive, SetLevel
  PROVE  /\ book' \in [Keys -> 0..MaxId]
         /\ \A k \in Keys : book'[k] = IF k = m.key THEN TruthAt(m.u)[k] ELSE book[k]
<1>1. book \in [Keys -> 0..MaxId] /\ MaxId \in Nat
  BY SyncFacts, IdsFact DEF Scalars
<1>2. /\ m.key \in Keys \cup {NoKey} /\ m.u \in Nat /\ m.u <= MaxId
      /\ m.key \in Keys => m.key # NoKey /\ m.val = TruthAt(m.u)[m.key]
  BY ReceivedIs
<1>3. CASE m.key \in Keys
  <2>1. m.val = TruthAt(m.u)[m.key] /\ m.val \in 0..m.u
    BY <1>2, <1>3, TruthIs
  <2>2. m.val \in 0..MaxId
    BY <1>1, <1>2, <2>1, SMT
  <2>3. book' = [book EXCEPT ![m.key] = m.val]
    BY <1>2, <1>3 DEF SetLevel
  <2>. QED BY <1>1, <1>3, <2>1, <2>2, <2>3
<1>4. CASE m.key \notin Keys
  <2>1. m.key = NoKey
    BY <1>2, <1>4
  <2>2. book' = book
    BY <2>1 DEF SetLevel
  <2>. QED BY <1>1, <1>4, <2>2
<1>. QED BY <1>3, <1>4

(* The order after it, for a book that is at the message's event or later. *)
LEMMA OrderTaken ==
  ASSUME ends \subseteq Ids, Len(Flight) \in Nat, Takes(1), sent \in Nat,
         \A i \in 1..Len(Flight) : Flight[i].u \in ends,
         NEW md0, NEW p0, Orderly(Flight, sent, md0, p0),
         NEW md, NEW p, md = "Streaming" => p \in ends /\ Flight[1].u <= p /\ p <= sent
  PROVE  Orderly(Flight', sent, md, p)
<1>. DEFINE n == Len(Flight)
<1>1. /\ 1 \in 1..n /\ Len(Flight') = n - 1
      /\ \A i \in 1..(n - 1) : Flight'[i] = Flight[Skip(1, i)]
  BY DEF Takes
<1>2. n \in Nat
  OBVIOUS
<1>3. \A i \in 1..n : Flight[i].u \in ends
  OBVIOUS
<1>4. /\ \A i \in 1..(n - 1) : Joins(Flight[i].u, Flight[i + 1].u)
      /\ \A i \in 1..n : Flight[i].u <= sent
      /\ n > 0 => Flight[n].u = sent
  BY DEF Orderly
<1>. HIDE DEF n
<1>5. \A i \in 1..(n - 1) : Flight'[i] = Flight[i + 1] /\ i + 1 \in 1..n
  <2>1. \A i \in 1..(n - 1) : Skip(1, i) = i + 1 /\ i + 1 \in 1..n
    BY <1>2, SMT DEF Skip
  <2>. QED BY <1>1, <2>1
<1>6. ASSUME NEW i \in 1..((n - 1) - 1) PROVE Joins(Flight'[i].u, Flight'[i + 1].u)
  <2>1. i \in 1..(n - 1) /\ i + 1 \in 1..(n - 1)
    BY <1>2, SMT
  <2>2. Flight'[i] = Flight[i + 1] /\ Flight'[i + 1] = Flight[(i + 1) + 1]
    BY <1>5, <2>1
  <2>. QED BY <1>4, <2>1, <2>2
<1>7. \A i \in 1..(n - 1) : Flight'[i].u <= sent
  BY <1>4, <1>5
<1>8. n - 1 > 0 => Flight'[n - 1].u = sent
  <2>. SUFFICES ASSUME n - 1 > 0 PROVE Flight'[n - 1].u = sent
    OBVIOUS
  <2>1. n - 1 \in 1..(n - 1) /\ (n - 1) + 1 = n /\ n > 0
    BY <1>2, SMT
  <2>2. Flight'[n - 1] = Flight[(n - 1) + 1]
    BY <1>5, <2>1
  <2>. QED BY <1>4, <2>1, <2>2
<1>9. ASSUME md = "Streaming"
      PROVE  /\ p <= sent
             /\ n - 1 = 0 => p = sent
             /\ n - 1 > 0 => Flight'[1].u <= p \/ FirstOf(Flight'[1].u) = p + 1
  <2>1. p \in ends /\ Flight[1].u <= p /\ p <= sent /\ p \in Nat /\ Flight[1].u \in Nat
    BY <1>1, <1>3, <1>9, FirstOfIs
  <2>2. ASSUME n - 1 = 0 PROVE p = sent
    <3>1. n = 1 /\ n > 0
      BY <1>2, <2>2, SMT
    <3>2. Flight[1].u = sent
      BY <1>4, <3>1
    <3>. QED BY <2>1, <3>2, SMT
  <2>3. ASSUME n - 1 > 0 PROVE Flight'[1].u <= p \/ FirstOf(Flight'[1].u) = p + 1
    <3>. DEFINE v == Flight[1 + 1].u
    <3>1. 1 \in 1..(n - 1)
      BY <1>2, <2>3, SMT
    <3>2. Flight'[1].u = v /\ v \in ends /\ Joins(Flight[1].u, v)
      BY <1>3, <1>4, <1>5, <3>1
    <3>. HIDE DEF v
    <3>3. CASE Flight[1].u = v
      BY <2>1, <3>2, <3>3
    <3>4. CASE FirstOf(v) = Flight[1].u + 1
      <4>1. p >= FirstOf(v) => p >= v
        BY <2>1, <3>2, FirstOfIs
      <4>2. v \in Nat /\ FirstOf(v) \in Nat
        BY <3>2, FirstOfIs
      <4>3. v <= p \/ FirstOf(v) = p + 1
        BY <2>1, <3>4, <4>1, <4>2, SMT
      <4>. QED BY <3>2, <4>3
    <3>. QED BY <3>2, <3>3, <3>4 DEF Joins
  <2>. QED BY <2>1, <2>2, <2>3
<1>10. \A i \in 1..((n - 1) - 1) : Joins(Flight'[i].u, Flight'[i + 1].u)
  BY <1>6
<1>. QED BY <1>1, <1>7, <1>8, <1>9, <1>10, Zenon DEF Orderly

(* What every branch of the loop leaves to show.                           *)
LEMMA ReceiveKeeps ==
  ASSUME SyncInv, Receive, Complete', EventInv', StreamInv', OrderInv',
         pc' \in {"receive", "snapshot"}, mode' \in {"Seeking", "Streaming"},
         book' \in [Keys -> 0..MaxId], prev_u' \in ends \cup {0},
         have_event' \in BOOLEAN, cur_apply' \in BOOLEAN,
         resyncs' \in Nat, gaps' \in 0..resyncs', (mode' = "Streaming") <=> (prev_u' > 0)
  PROVE  SyncInv'
<1>1. /\ log \in [Ids -> Keys \cup {NoKey}] /\ ends \subseteq Ids /\ pending \in Seq(AllMessages)
      /\ queue' \in Seq(AllMessages) /\ Len(queue') <= Capacity /\ Scalars
  BY SyncFacts, ReceivedIs
<1>2. /\ log' = log /\ ends' = ends /\ now' = now /\ sent' = sent /\ pending' = pending
      /\ dropped' = dropped /\ reconnects' = reconnects /\ malformed' = malformed /\ L' = L
  BY DEF Receive, exchangeVars
<1>3. Scalars'
  BY <1>1, <1>2 DEF Scalars
<1>. QED BY <1>1, <1>2, <1>3, InvByParts

(* A further message of the event in hand.                                 *)
LEMMA SameEventKeeps == ASSUME SyncInv, SameEvent PROVE SyncInv'
<1>0. /\ log \in [Ids -> Keys \cup {NoKey}] /\ ends \subseteq Ids
      /\ queue \in Seq(AllMessages) /\ pending \in Seq(AllMessages)
      /\ Scalars /\ Complete /\ EventInv /\ StreamInv /\ OrderInv /\ ends \cup {0} \subseteq Nat
  BY SyncFacts
<1>1. Receive /\ have_event /\ m.U = cur_U /\ pc = "receive"
  BY DEF SameEvent, NewEvent, Receive
<1>2. /\ UNCHANGED <<pc, mode, prev_u, have_event, cur_U, cur_apply, gaps, resyncs, lostOps>>
      /\ log' = log /\ ends' = ends /\ sent' = sent /\ L' = L
      /\ dropped' = dropped /\ reconnects' = reconnects /\ malformed' = malformed
  BY <1>1 DEF SameEvent, Receive, exchangeVars
<1>3. /\ Takes(1) /\ Flight[1] = m /\ Len(Flight) \in Nat
      /\ \A i \in 1..Len(Flight) : Flight[i].u \in ends
      /\ m.u \in ends /\ m.u \in Nat /\ m.U = FirstOf(m.u)
  BY <1>1, ReceivedIs
<1>4. Complete'
  BY <1>0, <1>1, <1>2, <1>3, CompleteTaken
<1>5. EventInv'
  BY <1>0, <1>2, SameHistory DEF EventInv
<1>6. prev_u \in Nat /\ sent \in Nat /\ (mode = "Streaming" => prev_u \in ends)
  BY <1>0 DEF Scalars
<1>7. book' \in [Keys -> 0..MaxId] /\ StreamInv'
  <2>1. CASE ~cur_apply
    <3>1. book' = book
      BY <2>1 DEF SameEvent
    <3>2. \A k : ~Remaining(k)
      BY <2>1 DEF Remaining
    <3>3. \A k : Torn(k)' <=> Torn(k)
      BY <1>2 DEF Torn
    <3>4. StreamInv'
      BY <1>0, <1>2, <3>1, <3>2, <3>3, SameHistory DEF StreamInv
    <3>. QED BY <1>0, <3>1, <3>4 DEF Scalars
  <2>2. CASE cur_apply
    <3>1. SetLevel /\ mode = "Streaming" /\ cur_U = FirstOf(prev_u)
      BY <1>0, <1>1, <2>2 DEF SameEvent, EventInv
    <3>2. m.u = prev_u
      BY <1>0, <1>1, <1>3, <1>6, <3>1, FirstOfInjective
    <3>3. /\ book' \in [Keys -> 0..MaxId]
          /\ \A k \in Keys : book'[k] = IF k = m.key THEN TruthAt(prev_u)[k] ELSE book[k]
      BY <1>1, <3>1, <3>2, SetLevelIs
    <3>4. /\ prev_u > L
          /\ \A k \in Keys : /\ book[k] <= TruthAt(prev_u)[k]
                             /\ Remaining(k) \/ Torn(k) \/ book[k] = TruthAt(prev_u)[k]
      BY <1>0, <3>1 DEF StreamInv
    <3>5. ASSUME NEW k \in Keys
          PROVE  /\ book'[k] <= TruthAt(prev_u)[k]
                 /\ Remaining(k)' \/ Torn(k)' \/ book'[k] = TruthAt(prev_u)[k]
      <4>1. CASE k = m.key
        <5>1. book'[k] = TruthAt(prev_u)[k]
          BY <3>3, <4>1
        <5>2. TruthAt(prev_u)[k] \in 0..prev_u
          BY <1>6, TruthIs
        <5>. QED BY <1>6, <5>1, <5>2, SMT
      <4>2. CASE k # m.key
        <5>1. book'[k] = book[k]
          BY <3>3, <4>2
        <5>2. Remaining(k) => Remaining(k)'
          BY <1>2, <1>3, <4>2, RemainingTaken
        <5>3. Torn(k)' <=> Torn(k)
          BY <1>2 DEF Torn
        <5>. QED BY <3>4, <5>1, <5>2, <5>3
      <4>. QED BY <4>1, <4>2
    <3>6. mode' = "Streaming" /\ prev_u' = prev_u /\ L' = L /\ \A n : TruthAt(n)' = TruthAt(n)
      BY <1>2, <3>1, SameHistory
    <3>7. StreamInv'
      BY <3>4, <3>5, <3>6 DEF StreamInv
    <3>. QED BY <3>3, <3>7
  <2>. QED BY <2>1, <2>2
<1>8. OrderInv'
  <2>1. ASSUME reconnects = 0, malformed = 0, dropped = 0
        PROVE  gaps = 0 /\ Orderly(Flight', sent, mode, prev_u)
    <3>1. gaps = 0 /\ Orderly(Flight, sent, mode, prev_u)
      BY <1>0, <2>1, OrderNow
    <3>2. mode = "Streaming" => prev_u \in ends /\ Flight[1].u <= prev_u /\ prev_u <= sent
      <4>. SUFFICES ASSUME mode = "Streaming"
                    PROVE  prev_u \in ends /\ Flight[1].u <= prev_u /\ prev_u <= sent
        OBVIOUS
      <4>1. prev_u \in ends /\ FirstOf(m.u) <= prev_u
        BY <1>0, <1>1, <1>3, <1>6 DEF EventInv
      <4>2. FirstOf(m.u) \in Nat /\ (prev_u >= FirstOf(m.u) => prev_u >= m.u)
        BY <1>0, <1>3, <4>1, FirstOfIs
      <4>3. m.u <= prev_u
        BY <1>3, <1>6, <4>1, <4>2, SMT
      <4>4. prev_u <= sent
        BY <3>1 DEF Orderly
      <4>. QED BY <1>3, <4>1, <4>3, <4>4
    <3>. QED BY <1>0, <1>3, <1>6, <3>1, <3>2, OrderTaken
  <2>. QED BY <1>2, <2>1, OrderByParts
<1>. QED BY <1>0, <1>1, <1>2, <1>4, <1>5, <1>7, <1>8, ReceiveKeeps DEF Scalars

(* The branches that do not apply the event: an old one is skipped.        *)
LEMMA SkipKeeps ==
  ASSUME SyncInv, Receive, NewEvent, SkipEvent, mode = "Streaming" => m.u <= prev_u
  PROVE  SyncInv'
<1>0. /\ log \in [Ids -> Keys \cup {NoKey}] /\ ends \subseteq Ids
      /\ queue \in Seq(AllMessages) /\ pending \in Seq(AllMessages)
      /\ Scalars /\ Complete /\ EventInv /\ StreamInv /\ OrderInv /\ ends \cup {0} \subseteq Nat
  BY SyncFacts
<1>1. /\ UNCHANGED <<pc, book, mode, prev_u, gaps, resyncs, lostOps>> /\ pc = "receive"
      /\ have_event' = TRUE /\ cur_U' = m.U /\ cur_apply' = FALSE
      /\ log' = log /\ ends' = ends /\ sent' = sent /\ L' = L
      /\ dropped' = dropped /\ reconnects' = reconnects /\ malformed' = malformed
  BY DEF SkipEvent, Enter, Receive, exchangeVars
<1>2. /\ Takes(1) /\ Flight[1] = m /\ Len(Flight) \in Nat
      /\ \A i \in 1..Len(Flight) : Flight[i].u \in ends
      /\ m.u \in ends /\ m.u \in Nat /\ m.U = FirstOf(m.u)
      /\ FirstOf(m.u) \in Nat /\ FirstOf(m.u) <= m.u
  BY ReceivedIs
<1>3. (\A k : ~Remaining(k)) /\ ~(have_event /\ cur_U = FirstOf(Flight[1].u))
  BY NotInEvent
<1>4. prev_u \in Nat /\ sent \in Nat /\ (mode = "Streaming" => prev_u \in ends)
  BY <1>0 DEF Scalars
<1>5. Complete'
  BY <1>0, <1>1, <1>2, <1>3, CompleteTaken
<1>6. EventInv'
  <2>1. mode = "Streaming" => FirstOf(m.u) <= prev_u
    BY <1>2, <1>4, SMT
  <2>. QED BY <1>1, <1>2, <2>1 DEF EventInv
<1>7. StreamInv'
  <2>1. \A k : Torn(k)' <=> Torn(k)
    BY <1>1 DEF Torn
  <2>. QED BY <1>0, <1>1, <1>3, <2>1, SameHistory DEF StreamInv
<1>8. OrderInv'
  <2>1. ASSUME reconnects = 0, malformed = 0, dropped = 0
        PROVE  gaps = 0 /\ Orderly(Flight', sent, mode, prev_u)
    <3>1. gaps = 0 /\ Orderly(Flight, sent, mode, prev_u)
      BY <1>0, <2>1, OrderNow
    <3>2. mode = "Streaming" => prev_u \in ends /\ Flight[1].u <= prev_u /\ prev_u <= sent
      BY <1>2, <1>4, <3>1 DEF Orderly
    <3>. QED BY <1>0, <1>2, <1>4, <3>1, <3>2, OrderTaken
  <2>. QED BY <1>1, <2>1, OrderByParts
<1>. QED BY <1>0, <1>1, <1>5, <1>6, <1>7, <1>8, ReceiveKeeps DEF Scalars

LEMMA SeekingOldKeeps == ASSUME SyncInv, SeekingOld PROVE SyncInv'
BY SkipKeeps DEF SeekingOld, Seeking

LEMMA StreamingOldKeeps == ASSUME SyncInv, StreamingOld PROVE SyncInv'
BY SkipKeeps DEF StreamingOld, Streaming

(* After a gap the message in hand is lost, and a snapshot is due.  Where  *)
(* nothing was lost before, a streaming book meets no gap.                 *)
LEMMA ResyncKeeps ==
  ASSUME SyncInv, Receive, NewEvent, Resync, gaps' \in {gaps, gaps + 1},
         mode = "Seeking" => gaps' = gaps,
         mode = "Streaming" => m.u > prev_u /\ m.U # prev_u + 1
  PROVE  SyncInv'
<1>0. /\ log \in [Ids -> Keys \cup {NoKey}] /\ ends \subseteq Ids
      /\ queue \in Seq(AllMessages) /\ pending \in Seq(AllMessages)
      /\ Scalars /\ Complete /\ EventInv /\ StreamInv /\ OrderInv /\ ends \cup {0} \subseteq Nat
  BY SyncFacts
<1>1. /\ UNCHANGED <<book, mode, prev_u>> /\ pc = "receive" /\ pc' = "snapshot"
      /\ have_event' = TRUE /\ cur_U' = m.U /\ cur_apply' = FALSE
      /\ resyncs' = resyncs + 1 /\ lostOps' = Lost(m)
      /\ log' = log /\ ends' = ends /\ sent' = sent /\ L' = L
      /\ dropped' = dropped /\ reconnects' = reconnects /\ malformed' = malformed
  BY DEF Resync, Enter, Receive, exchangeVars
<1>2. /\ Takes(1) /\ Flight[1] = m /\ 1 \in 1..Len(Flight) /\ Len(Flight) \in Nat
      /\ \A i \in 1..Len(Flight) : Flight[i].u \in ends
      /\ m.u \in ends /\ m.u \in Nat /\ m.U = FirstOf(m.u)
  BY ReceivedIs
<1>3. (\A k : ~Remaining(k)) /\ ~(have_event /\ cur_U = FirstOf(Flight[1].u))
  BY NotInEvent
<1>4. prev_u \in Nat /\ sent \in Nat /\ mode \in {"Seeking", "Streaming"}
  BY <1>0 DEF Scalars
<1>5. /\ lostOps \subseteq lostOps'
      /\ m.key \in Keys => <<m.u, m.key>> \in lostOps'
  BY <1>1, IdsFact DEF Lost
<1>6. Complete'
  BY <1>0, <1>1, <1>2, <1>3, <1>5, CompleteTaken
<1>7. EventInv'
  BY <1>1 DEF EventInv
<1>8. StreamInv'
  <2>1. \A k : Torn(k) => Torn(k)'
    BY <1>1, <1>5 DEF Torn
  <2>. QED BY <1>0, <1>1, <1>3, <2>1, SameHistory DEF StreamInv
<1>9. OrderInv'
  <2>1. ASSUME reconnects = 0, malformed = 0, dropped = 0
        PROVE  gaps' = 0 /\ Orderly(Flight', sent, mode, prev_u)
    <3>1. gaps = 0 /\ Orderly(Flight, sent, mode, prev_u)
      BY <1>0, <2>1, OrderNow
    <3>2. mode # "Streaming"
      <4>. SUFFICES ASSUME mode = "Streaming" PROVE FALSE
        OBVIOUS
      <4>1. Len(Flight) > 0
        BY <1>2, SMT
      <4>2. m.u <= prev_u \/ FirstOf(m.u) = prev_u + 1
        BY <1>2, <3>1, <4>1 DEF Orderly
      <4>. QED BY <1>2, <1>4, <4>2, SMT
    <3>3. gaps' = 0
      BY <1>4, <3>1, <3>2
    <3>. QED BY <1>0, <1>2, <1>4, <3>1, <3>2, <3>3, OrderTaken
  <2>. QED BY <1>1, <2>1, OrderByParts
<1>10. resyncs' \in Nat /\ gaps' \in 0..resyncs'
  <2>1. resyncs \in Nat /\ gaps \in 0..resyncs
    BY <1>0 DEF Scalars
  <2>. QED BY <1>1, <2>1, SMT
<1>. QED BY <1>0, <1>1, <1>6, <1>7, <1>8, <1>9, <1>10, ReceiveKeeps DEF Scalars

LEMMA SeekingAheadKeeps == ASSUME SyncInv, SeekingAhead PROVE SyncInv'
BY ResyncKeeps DEF SeekingAhead, Seeking

LEMMA StreamingGapKeeps == ASSUME SyncInv, StreamingGap PROVE SyncInv'
BY ResyncKeeps DEF StreamingGap, Streaming

(* An event that is applied joins the book at some update b: the snapshot  *)
(* it straddles, or the end of the event before.                           *)
LEMMA AppliesFrom ==
  ASSUME SyncInv, SeekingStraddles \/ StreamingNext
  PROVE  /\ Receive /\ NewEvent /\ ApplyEvent /\ m.u > L
         /\ \E b \in Nat : /\ b < m.u /\ FirstOf(m.u) <= b + 1
                           /\ \A k \in Keys : /\ book[k] <= TruthAt(b)[k]
                                              /\ \/ \E u \in (L + 1)..b : <<u, k>> \in lostOps
                                                 \/ book[k] = TruthAt(b)[k]
<1>0. Receive /\ NewEvent /\ ApplyEvent
  BY DEF SeekingStraddles, StreamingNext, Seeking, Streaming
<1>1. StreamInv /\ L \in Nat /\ prev_u \in Nat
  BY SyncFacts DEF Scalars
<1>2. m.u \in Nat /\ m.U = FirstOf(m.u) /\ FirstOf(m.u) \in Nat
  BY <1>0, ReceivedIs
<1>3. CASE SeekingStraddles
  <2>1. mode = "Seeking" /\ m.u >= L + 1 /\ FirstOf(m.u) <= L + 1
    BY <1>2, <1>3 DEF SeekingStraddles, Seeking
  <2>2. book = TruthAt(L)
    BY <1>1, <2>1 DEF StreamInv
  <2>3. L < m.u
    BY <1>1, <1>2, <2>1, SMT
  <2>4. \A k \in Keys : book[k] <= TruthAt(L)[k] /\ book[k] = TruthAt(L)[k]
    <3>1. \A k \in Keys : TruthAt(L)[k] \in 0..L
      BY <1>1, TruthIs
    <3>2. \A k \in Keys : TruthAt(L)[k] <= TruthAt(L)[k]
      BY <1>1, <3>1, SMT
    <3>. QED BY <2>2, <3>2
  <2>5. m.u > L
    BY <1>1, <1>2, <2>3, SMT
  <2>. QED BY <1>0, <1>1, <2>1, <2>3, <2>4, <2>5
<1>4. CASE StreamingNext
  <2>1. mode = "Streaming" /\ m.u > prev_u /\ FirstOf(m.u) = prev_u + 1
    BY <1>2, <1>4 DEF StreamingNext, Streaming
  <2>2. \A k : ~Remaining(k)
    BY <1>0, NotInEvent
  <2>3. prev_u > L /\ \A k \in Keys : /\ book[k] <= TruthAt(prev_u)[k]
                                      /\ Torn(k) \/ book[k] = TruthAt(prev_u)[k]
    BY <1>1, <2>1, <2>2 DEF StreamInv
  <2>4. m.u > L /\ prev_u < m.u /\ FirstOf(m.u) <= prev_u + 1
    BY <1>1, <1>2, <2>1, <2>3, SMT
  <2>5. \A k \in Keys : /\ book[k] <= TruthAt(prev_u)[k]
                        /\ \/ \E u \in (L + 1)..prev_u : <<u, k>> \in lostOps
                           \/ book[k] = TruthAt(prev_u)[k]
    BY <2>3 DEF Torn
  <2>. QED BY <1>0, <1>1, <2>4, <2>5
<1>. QED BY <1>3, <1>4

(* The first message of an event that is applied.                          *)
LEMMA ApplyKeeps == ASSUME SyncInv, SeekingStraddles \/ StreamingNext PROVE SyncInv'
<1>. DEFINE From(b, k) == /\ book[k] <= TruthAt(b)[k]
                          /\ \/ \E u \in (L + 1)..b : <<u, k>> \in lostOps
                             \/ book[k] = TruthAt(b)[k]
<1>0. /\ log \in [Ids -> Keys \cup {NoKey}] /\ ends \subseteq Ids
      /\ queue \in Seq(AllMessages) /\ pending \in Seq(AllMessages)
      /\ Scalars /\ Complete /\ EventInv /\ StreamInv /\ OrderInv
      /\ L \in Nat /\ sent \in Nat
  BY SyncFacts DEF Scalars
<1>1. /\ Receive /\ NewEvent /\ ApplyEvent /\ SetLevel /\ m.u > L
      /\ \E b \in Nat : b < m.u /\ FirstOf(m.u) <= b + 1 /\ \A k \in Keys : From(b, k)
  BY AppliesFrom DEF ApplyEvent
<1>2. /\ UNCHANGED <<pc, gaps, resyncs, lostOps>> /\ pc = "receive"
      /\ have_event' = TRUE /\ cur_U' = m.U /\ cur_apply' = TRUE
      /\ mode' = "Streaming" /\ prev_u' = m.u
      /\ log' = log /\ ends' = ends /\ sent' = sent /\ L' = L
      /\ dropped' = dropped /\ reconnects' = reconnects /\ malformed' = malformed
  BY <1>1 DEF ApplyEvent, Enter, Receive, exchangeVars
<1>3. /\ Takes(1) /\ Flight[1] = m /\ 1 \in 1..Len(Flight) /\ Len(Flight) \in Nat
      /\ \A i \in 1..Len(Flight) : Flight[i].u \in ends
      /\ m.u \in ends /\ m.u \in Nat /\ m.u >= 1 /\ m.U = FirstOf(m.u)
      /\ FirstOf(m.u) \in Nat /\ FirstOf(m.u) <= m.u
  BY <1>1, ReceivedIs
<1>4. ~(have_event /\ cur_U = FirstOf(Flight[1].u))
  BY <1>1, NotInEvent
<1>5. Complete'
  BY <1>0, <1>2, <1>3, <1>4, CompleteTaken
<1>6. EventInv'
  <2>1. FirstOf(prev_u)' = FirstOf(m.u)
    BY <1>2 DEF FirstOf
  <2>. QED BY <1>2, <1>3, <2>1 DEF EventInv
<1>7. /\ book' \in [Keys -> 0..MaxId]
      /\ \A k \in Keys : book'[k] = IF k = m.key THEN TruthAt(m.u)[k] ELSE book[k]
  BY <1>1, SetLevelIs
<1>8. PICK b \in Nat : b < m.u /\ FirstOf(m.u) <= b + 1 /\ \A k \in Keys : From(b, k)
  BY <1>1
<1>9. ASSUME NEW k \in Keys
      PROVE  /\ book'[k] <= TruthAt(m.u)[k]
             /\ Remaining(k)' \/ Torn(k)' \/ book'[k] = TruthAt(m.u)[k]
  <2>1. TruthAt(m.u)[k] \in 0..m.u
    BY <1>3, TruthIs
  <2>2. CASE k = m.key
    <3>1. book'[k] = TruthAt(m.u)[k]
      BY <1>7, <2>2
    <3>. QED BY <1>3, <2>1, <3>1, SMT
  <2>3. CASE k # m.key
    <3>1. book'[k] = book[k] /\ From(b, k) /\ book[k] \in Nat
      <4>1. book \in [Keys -> 0..MaxId] /\ MaxId \in Nat
        BY <1>0, IdsFact DEF Scalars
      <4>2. \A x \in 0..MaxId : x \in Nat
        BY <4>1, SMT
      <4>3. book[k] \in Nat
        BY <4>1, <4>2
      <4>4. book'[k] = book[k]
        BY <1>7, <2>3
      <4>. QED BY <1>8, <4>3, <4>4
    <3>2. book'[k] <= TruthAt(m.u)[k]
      <4>1. b <= m.u
        BY <1>3, <1>8, SMT
      <4>2. TruthAt(b)[k] <= TruthAt(m.u)[k] /\ TruthAt(b)[k] \in 0..b
        BY <1>3, <4>1, TruthGrows, TruthIs
      <4>. QED BY <2>1, <3>1, <4>2, SMT
    <3>3. ASSUME NEW u \in (L + 1)..m.u, <<u, k>> \in lostOps PROVE Torn(k)'
      BY <1>2, <3>3 DEF Torn
    <3>4. CASE k \in Written(m.u)
      <4>1. \/ <<m.u, k>> \in lostOps
            \/ \E j \in 1..Len(Flight) : Flight[j].key = k /\ Beside(1, j)
        BY <1>0, <1>3, <1>4, <3>4 DEF Complete
      <4>2. m.u \in (L + 1)..m.u
        BY <1>0, <1>1, <1>3, SMT
      <4>3. ASSUME NEW j \in 1..Len(Flight), Flight[j].key = k, Beside(1, j)
            PROVE  Remaining(k)'
        <5>1. j # 1
          BY <1>3, <2>3, <4>3
        <5>2. /\ Len(Flight') = Len(Flight) - 1
              /\ \A i \in 1..Len(Flight') : Flight'[i] = Flight[Skip(1, i)]
          BY <1>3 DEF Takes
        <5>3. \A i \in 1..Len(Flight) : i # 1 => \E n \in 1..(Len(Flight) - 1) : Skip(1, n) = i
          <6>0. Len(Flight) \in Nat
            BY <1>3
          <6>1. \A c \in Nat : \A p, i \in 1..c : i # p => \E n \in 1..(c - 1) : Skip(p, n) = i
            BY SkipIs, Zenon
          <6>. QED BY <1>3, <6>0, <6>1, Zenon
        <5>4. PICK n \in 1..Len(Flight') : Skip(1, n) = j
          BY <5>1, <5>2, <5>3, Zenon
        <5>5. Flight[j].u = m.u /\ Beside(j, 1)
          <6>1. 1 <= j /\ j <= j
            BY <1>3, SMT
          <6>2. Flight[j].u = Flight[1].u
            BY <4>3, <6>1 DEF Beside
          <6>. QED BY <1>3, <4>3, <6>2 DEF Beside
        <5>6. Beside(n, 1)'
          BY <1>3, <5>4, <5>5, BesideTaken
        <5>7. Flight'[n].u = prev_u' /\ Flight'[n].key = k
          BY <1>2, <4>3, <5>2, <5>4, <5>5
        <5>. QED BY <1>2, <5>6, <5>7 DEF Remaining
      <4>. QED BY <3>2, <3>3, <4>1, <4>2, <4>3
    <3>5. CASE k \notin Written(m.u)
      <4>1. \A i \in FirstOf(m.u)..m.u : log[i] # k
        BY <1>0, <1>3, <3>5, WrittenIs, IdsFact
      <4>2. \A i \in (b + 1)..m.u : i \in FirstOf(m.u)..m.u
        BY <1>3, <1>8, SMT
      <4>3. b <= m.u
        BY <1>3, <1>8, SMT
      <4>4. TruthAt(m.u)[k] = TruthAt(b)[k]
        BY <1>3, <4>1, <4>2, <4>3, TruthStays, ZenonT(30)
      <4>5. \A u \in (L + 1)..b : u \in (L + 1)..m.u
        BY <1>0, <1>3, <4>3, SMT
      <4>. QED BY <3>1, <3>2, <3>3, <4>4, <4>5
    <3>. QED BY <3>4, <3>5
  <2>. QED BY <2>2, <2>3
<1>10. StreamInv'
  <2>1. \A n : TruthAt(n)' = TruthAt(n)
    BY <1>2, SameHistory
  <2>. QED BY <1>1, <1>2, <1>9, <2>1 DEF StreamInv
<1>11. OrderInv'
  <2>1. ASSUME reconnects = 0, malformed = 0, dropped = 0
        PROVE  gaps = 0 /\ Orderly(Flight', sent, "Streaming", m.u)
    <3>1. gaps = 0 /\ Orderly(Flight, sent, mode, prev_u)
      BY <1>0, <2>1, OrderNow
    <3>2. m.u <= sent
      BY <1>3, <3>1 DEF Orderly
    <3>3. m.u <= m.u
      BY <1>3, SMT
    <3>. QED BY <1>0, <1>3, <3>1, <3>2, <3>3, OrderTaken
  <2>. QED BY <1>2, <2>1, OrderByParts
<1>12. m.u > 0
  BY <1>3, SMT
<1>. QED BY <1>0, <1>1, <1>2, <1>3, <1>5, <1>6, <1>7, <1>10, <1>11, <1>12, ReceiveKeeps DEF Scalars

-----------------------------------------------------------------------------
LEMMA InitSync == ASSUME Init PROVE SyncInv
<1>1. log \in [Ids -> Keys \cup {NoKey}] /\ ends \subseteq Ids
  BY LiveAssumption DEF Init, Ids
<1>2. /\ now = 0 /\ sent = 0 /\ pending = <<>> /\ queue = <<>> /\ dropped = 0
      /\ pc = "bootstrap" /\ book = [k \in Keys |-> 0] /\ L = 0 /\ mode = "Seeking" /\ prev_u = 0
      /\ have_event = FALSE /\ cur_apply = FALSE /\ gaps = 0 /\ resyncs = 0
      /\ reconnects = 0 /\ malformed = 0
  BY DEF Init
<1>3. queue \in Seq(AllMessages) /\ pending \in Seq(AllMessages) /\ Len(queue) = 0
  BY <1>2
<1>4. Flight = <<>> /\ Len(Flight) = 0 /\ Len(queue \o pending) = 0
  <2>1. <<>> \o <<>> = <<>>
    OBVIOUS
  <2>. QED BY <1>2, <2>1 DEF Flight
<1>5. 1..0 = {}
  BY SMT
<1>6. TypeOK
  <2>1. MaxId \in Nat /\ Capacity \in Nat
    BY LiveAssumption
  <2>2. book \in [Keys -> 0..MaxId]
    <3>1. 0 \in 0..MaxId
      BY <2>1, SMT
    <3>. QED BY <1>2, <3>1
  <2>3. \A i \in 1..Len(queue \o pending) :
          LET x == (queue \o pending)[i]
          IN x.u \in ends /\ x \in {Message(x.u, k) : k \in Keys \cup {NoKey}}
    BY <1>4, <1>5, Zenon
  <2>4. /\ now \in 0..MaxId /\ sent <= now /\ Len(queue) <= Capacity /\ L \in 0..now
        /\ gaps \in 0..resyncs /\ ~(prev_u > 0)
    BY <1>2, <1>3, <2>1, SMT
  <2>. QED BY <1>2, <2>2, <2>3, <2>4 DEF TypeOK
<1>7. Complete
  BY <1>4, <1>5, Zenon DEF Complete
<1>8. EventInv
  BY <1>2 DEF EventInv
<1>9. StreamInv
  BY <1>2, TruthZero DEF StreamInv
<1>10. OrderInv
  <2>1. 1..(0 - 1) = {}
    BY SMT
  <2>. QED BY <1>2, <1>4, <1>5, <2>1 DEF OrderInv
<1>. QED BY <1>1, <1>2, <1>3, <1>6, <1>7, <1>8, <1>9, <1>10 DEF SyncInv

LEMMA NextSync == ASSUME SyncInv, [Next]_vars PROVE SyncInv'
<1>1. CASE Update
  BY <1>1, UpdateKeeps
<1>2. CASE OnMessage
  BY <1>2, OnMessageKeeps
<1>3. CASE Reconnect
  BY <1>3, ReconnectKeeps
<1>4. CASE Callback
  BY <1>4, PushOpKeeps, PushDroppedKeeps, PushMalformedKeeps DEF Callback
<1>5. CASE Bootstrap \/ BootstrapFails \/ ReSnapshot \/ ReSnapshotFails
  BY <1>5, BootstrapKeeps, BootstrapFailsKeeps, ReSnapshotKeeps, ReSnapshotFailsKeeps
<1>6. CASE SameEvent
  BY <1>6, SameEventKeeps
<1>7. CASE SeekingOld \/ StreamingOld
  BY <1>7, SeekingOldKeeps, StreamingOldKeeps
<1>8. CASE SeekingStraddles \/ StreamingNext
  BY <1>8, ApplyKeeps
<1>9. CASE SeekingAhead \/ StreamingGap
  BY <1>9, SeekingAheadKeeps, StreamingGapKeeps
<1>10. CASE UNCHANGED vars
  <2>. USE <1>10 DEF vars, exchangeVars, streamVars, consumerVars
  <2>1. Flight' = Flight
    BY DEF Flight
  <2>2. Complete' /\ EventInv' /\ StreamInv'
    BY <2>1, NothingMoves
  <2>3. OrderInv'
    BY <2>1, SyncFacts, OrderNow, OrderByParts
  <2>4. Scalars'
    BY SyncFacts DEF Scalars
  <2>. QED BY <2>2, <2>3, <2>4, SyncFacts, InvByParts
<1>. QED BY <1>1, <1>2, <1>3, <1>4, <1>5, <1>6, <1>7, <1>8, <1>9, <1>10 DEF Next, Consumer

(* The inductive invariant of the live feed: the callback, the connection  *)
(* and the consumer loop of live_feed.cpp keep it in every order of their  *)
(* steps.                                                                  *)
THEOREM SyncInvariance == Spec => []SyncInv
<1>1. Init => SyncInv
  BY InitSync
<1>2. SyncInv /\ [Next]_vars => SyncInv'
  BY NextSync
<1>. QED BY <1>1, <1>2, PTL DEF Spec

(* While streaming, the consumer's book is the exchange's as of prev_u at  *)
(* every level whose message is neither on its way nor lost, whatever the  *)
(* connection, the snapshots and the channel do.                           *)
THEOREM StreamingBookTracks == Spec => []BookTracksExchange
<1>1. SyncInv => BookTracksExchange
  <2>. SUFFICES ASSUME SyncInv PROVE BookTracksExchange
    OBVIOUS
  <2>1. TypeOK /\ StreamInv
    BY DEF SyncInv
  <2>2. \A k : Remaining(k) => InFlight(k)
    BY DEF Remaining, InFlight, Flight
  <2>. QED BY <2>1, <2>2 DEF BookTracksExchange, StreamInv
<1>. QED BY <1>1, SyncInvariance, PTL

(* The consumer counts a gap only if the connection broke, a level was     *)
(* malformed or the channel dropped a message.                             *)
THEOREM GapsNeedLoss == Spec => []GapsMeanLoss
<1>1. SyncInv => GapsMeanLoss
  <2>. SUFFICES ASSUME SyncInv PROVE GapsMeanLoss
    OBVIOUS
  <2>1. OrderInv /\ reconnects \in Nat /\ malformed \in Nat /\ dropped \in Nat
    BY SyncFacts DEF Scalars
  <2>2. gaps > 0 => gaps # 0
    BY SMT
  <2>. QED BY <2>1, <2>2, SMT DEF GapsMeanLoss, OrderInv
<1>. QED BY <1>1, SyncInvariance, PTL

(* No step of the consumer loop takes a level back to an older size.       *)
LEMMA LoopNeverRewinds ==
  ASSUME SyncInv, [Next]_vars, pc = "receive", NEW k \in Keys
  PROVE  book'[k] >= book[k]
<1>0. book[k] \in Nat /\ L \in Nat /\ prev_u \in Nat
  <2>1. book \in [Keys -> 0..MaxId] /\ MaxId \in Nat
    BY SyncFacts, IdsFact DEF Scalars
  <2>2. \A x \in 0..MaxId : x \in Nat
    BY <2>1, SMT
  <2>3. L \in Nat /\ prev_u \in Nat
    BY SyncFacts DEF Scalars
  <2>. QED BY <2>1, <2>2, <2>3
<1>1. CASE book' = book
  BY <1>0, <1>1, SMT
<1>2. ASSUME Receive, SetLevel, book[k] <= TruthAt(m.u)[k] PROVE book'[k] >= book[k]
  <2>1. book'[k] = IF k = m.key THEN TruthAt(m.u)[k] ELSE book[k]
    BY <1>2, SetLevelIs
  <2>2. TruthAt(m.u)[k] \in 0..m.u /\ m.u \in Nat
    BY <1>2, ReceivedIs, TruthIs
  <2>. QED BY <1>0, <1>2, <2>1, <2>2, SMT
<1>3. CASE SameEvent /\ cur_apply
  <2>1. Receive /\ SetLevel /\ have_event /\ m.U = cur_U
    BY <1>3 DEF SameEvent, NewEvent
  <2>2. EventInv /\ StreamInv /\ Scalars /\ ends \subseteq Ids
    BY SyncFacts
  <2>3. mode = "Streaming" /\ cur_U = FirstOf(prev_u)
    BY <1>3, <2>1, <2>2 DEF EventInv
  <2>4. prev_u \in ends
    BY <2>2, <2>3 DEF Scalars
  <2>5. m.u \in ends /\ m.U = FirstOf(m.u)
    BY <2>1, ReceivedIs
  <2>6. m.u = prev_u
    BY <2>1, <2>2, <2>3, <2>4, <2>5, FirstOfInjective
  <2>7. book[k] <= TruthAt(prev_u)[k]
    BY <2>2, <2>3 DEF StreamInv
  <2>. QED BY <1>2, <2>1, <2>6, <2>7
<1>4. CASE SeekingStraddles \/ StreamingNext
  <2>1. Receive /\ SetLevel
    BY <1>4, AppliesFrom DEF ApplyEvent
  <2>2. PICK b \in Nat : b < m.u /\ book[k] <= TruthAt(b)[k]
    BY <1>4, AppliesFrom
  <2>3. m.u \in Nat
    BY <2>1, ReceivedIs
  <2>4. b <= m.u
    BY <2>2, <2>3, SMT
  <2>5. TruthAt(b)[k] <= TruthAt(m.u)[k] /\ TruthAt(b)[k] \in 0..b /\ TruthAt(m.u)[k] \in 0..m.u
    BY <2>3, <2>4, TruthGrows, TruthIs
  <2>6. book[k] <= TruthAt(m.u)[k]
    BY <1>0, <2>2, <2>3, <2>5, SMT
  <2>. QED BY <1>2, <2>1, <2>6
<1>5. book' = book \/ (SameEvent /\ cur_apply) \/ SeekingStraddles \/ StreamingNext
  BY DEF Next, vars, exchangeVars, streamVars, consumerVars, Update, OnMessage, Reconnect,
         Callback, PushOp, PushDropped, PushMalformed, Consumer, Bootstrap, BootstrapFails,
         ReSnapshot, ReSnapshotFails, SameEvent, SeekingOld, SeekingAhead, StreamingOld,
         StreamingGap, SkipEvent, Resync
<1>. QED BY <1>1, <1>3, <1>4, <1>5

(* Applying events never rewinds a level; only a snapshot may.             *)
THEOREM UpdatesNeverRewind == Spec => NeverRewinds
<1>1. SyncInv /\ [Next]_vars => [pc = "receive" => \A k \in Keys : book'[k] >= book[k]]_vars
  BY LoopNeverRewinds
<1>. QED BY <1>1, SyncInvariance, PTL DEF Spec, NeverRewinds
=============================================================================
