---------------------------- MODULE Planning_proofs ----------------------------
(***************************************************************************)
(* Before a pipeline runs.  A document on its way through the stages that  *)
(* read it (Submission): compare_versions is the order of versions, every  *)
(* stage reads a constraint in its written meaning, and what was accepted  *)
(* keeps its limits, for any documents and versions.                       *)
(* And the graph that Submission's BuildGraph takes for granted, in detail *)
(* (SchedulerPlan): the search for cycles is exact, and an acyclic graph   *)
(* gets a plan that is greedy, for any number of jobs, any needs and any   *)
(* order.                                                                  *)
(***************************************************************************)
EXTENDS Submission, SchedulerPlan, TLAPS, SequenceTheorems, FiniteSetTheorems,
        WellFoundedInduction

-----------------------------------------------------------------------------
(* Least elements *)

\* "<" on Nat is well founded.
Less == OpToRel(<, Nat)

\* Every set of numbers has a least element, and Least chooses it.
LEMMA LeastIsLeast ==
  ASSUME NEW I \in SUBSET Nat, I # {}
  PROVE  Least(I) \in I /\ \A k \in I : Least(I) <= k
<1>1. \A a, b \in Nat : a < b => <<a, b>> \in Less
  BY DEF Less, OpToRel
<1>2. IsWellFoundedOn(Less, Nat)
  BY NatLessThanWellFounded, Zenon DEF Less
<1>3. PICK x \in I : \A y \in I : ~ (<<y, x>> \in Less)
  BY <1>2, WFMin
<1>4. ASSUME NEW y \in I, y < x PROVE FALSE
  <2>1. x \in Nat /\ y \in Nat
    OBVIOUS
  <2>2. <<y, x>> \in Less
    BY <1>1, <1>4, <2>1
  <2>3. QED
    BY <1>3, <2>2
<1>5. \A y \in I : x <= y
  BY <1>4
<1>6. QED
  BY <1>5 DEF Least

-----------------------------------------------------------------------------
(* The order of versions *)

Pairs == Nat \X Nat

\* Below on pairs.
LEMMA PairOrder ==
  ASSUME NEW p \in Pairs, NEW q \in Pairs
  PROVE  /\ TupleBelow(p, q) <=> p[1] < q[1] \/ (p[1] = q[1] /\ p[2] < q[2])
         /\ p = q <=> p[1] = q[1] /\ p[2] = q[2]
<1>1. PICK a, b \in Nat : p = <<a, b>>
  BY DEF Pairs
<1>2. PICK c, d \in Nat : q = <<c, d>>
  BY DEF Pairs
<1>3. DOMAIN p = {1, 2} /\ DOMAIN q = {1, 2} /\ Len(p) = 2 /\ Len(q) = 2
  BY <1>1, <1>2
<1>4. p[1] = a /\ p[2] = b /\ q[1] = c /\ q[2] = d
  BY <1>1, <1>2
<1>5. TupleBelow(p, q) <=> \E i \in {1, 2} : p[i] < q[i] /\ \A k \in 1..(i - 1) : p[k] = q[k]
  BY <1>3 DEF TupleBelow
<1>6. QED
  <2>1. 1..(1 - 1) = {} /\ 1..(2 - 1) = {1}
    OBVIOUS
  <2>2. (p[2] < q[2] /\ \A k \in 1..(2 - 1) : p[k] = q[k]) <=> p[1] = q[1] /\ p[2] < q[2]
    BY <2>1
  <2>3. (p[1] < q[1] /\ \A k \in 1..(1 - 1) : p[k] = q[k]) <=> p[1] < q[1]
    BY <2>1
  <2>4. TupleBelow(p, q) <=> p[1] < q[1] \/ (p[1] = q[1] /\ p[2] < q[2])
    BY <1>5, <2>2, <2>3
  <2>5. QED
    BY <1>1, <1>2, <1>4, <2>4

\* Sign tells negative, zero and positive apart.
LEMMA SignIs ==
  ASSUME NEW n \in Int
  PROVE  /\ Sign(n) \in {-1, 0, 1} /\ (Sign(n) = -1 <=> n < 0) /\ (Sign(n) = 1 <=> n > 0)
         /\ Sign(n) = 0 <=> n = 0
BY DEF Sign

\* The code compares identifiers as their weights are.
LEMMA IdentifierOrder ==
  ASSUME NEW x \in Identifiers, NEW y \in Identifiers
  PROVE  /\ IdentifierWeight(x) \in Pairs /\ IdentifierWeight(x)[1] \in {1, 2}
         /\ compare_identifiers(x, y) \in {-1, 0, 1}
         /\ compare_identifiers(x, y) = -1 <=> TupleBelow(IdentifierWeight(x), IdentifierWeight(y))
         /\ compare_identifiers(x, y) = 1 <=> TupleBelow(IdentifierWeight(y), IdentifierWeight(x))
         /\ compare_identifiers(x, y) = 0 <=> IdentifierWeight(x) = IdentifierWeight(y)
<1> DEFINE p == IdentifierWeight(x)
           q == IdentifierWeight(y)
           cmp == compare_identifiers(x, y)
<1>1. /\ x.numeric \in BOOLEAN /\ y.numeric \in BOOLEAN
      /\ x.int \in Nat /\ y.int \in Nat /\ x.text \in Nat /\ y.text \in Nat
  BY DEF Identifiers
<1>2. /\ p \in Pairs /\ q \in Pairs
      /\ p[1] = (IF x.numeric THEN 1 ELSE 2) /\ p[2] = (IF x.numeric THEN x.int ELSE x.text)
      /\ q[1] = (IF y.numeric THEN 1 ELSE 2) /\ q[2] = (IF y.numeric THEN y.int ELSE y.text)
  BY <1>1 DEF IdentifierWeight, Pairs
<1>3. /\ TupleBelow(p, q) <=> p[1] < q[1] \/ (p[1] = q[1] /\ p[2] < q[2])
      /\ TupleBelow(q, p) <=> q[1] < p[1] \/ (q[1] = p[1] /\ q[2] < p[2])
      /\ p = q <=> p[1] = q[1] /\ p[2] = q[2]
  BY <1>2, PairOrder
<1> HIDE DEF p, q
<1>4. CASE x.numeric /\ y.numeric
  <2>1. cmp = Sign(x.int - y.int)
    BY <1>4 DEF compare_identifiers
  <2>2. x.int - y.int \in Int
    BY <1>1
  <2>3. QED
    BY <1>1, <1>2, <1>3, <1>4, <2>1, <2>2, SignIs DEF p, q
<1>5. CASE x.numeric /\ ~ y.numeric
  BY <1>2, <1>3, <1>5 DEF compare_identifiers, p, q
<1>6. CASE ~ x.numeric /\ y.numeric
  BY <1>2, <1>3, <1>6 DEF compare_identifiers, p, q
<1>7. CASE ~ x.numeric /\ ~ y.numeric
  <2>1. cmp = Sign(x.text - y.text)
    BY <1>7 DEF compare_identifiers
  <2>2. x.text - y.text \in Int
    BY <1>1
  <2>3. QED
    BY <1>1, <1>2, <1>3, <1>7, <2>1, <2>2, SignIs DEF p, q
<1>8. QED
  BY <1>4, <1>5, <1>6, <1>7

\* The elements of one sequence after another.
LEMMA ConcatIs ==
  ASSUME NEW S, NEW s \in Seq(S), NEW t \in Seq(S)
  PROVE  /\ s \o t \in Seq(S) /\ Len(s \o t) = Len(s) + Len(t)
         /\ \A i \in 1..Len(s) : (s \o t)[i] = s[i]
         /\ \A i \in 1..Len(t) : (s \o t)[Len(s) + i] = t[i]
<1> DEFINE u == s \o t
<1>1. Len(s) \in Nat /\ Len(t) \in Nat
  OBVIOUS
<1>2. u \in Seq(S) /\ Len(u) = Len(s) + Len(t)
      /\ \A i \in 1..(Len(s) + Len(t)) : u[i] = IF i <= Len(s) THEN s[i] ELSE t[i - Len(s)]
  OBVIOUS
<1> HIDE DEF u
<1>3. ASSUME NEW i \in 1..Len(t) PROVE u[Len(s) + i] = t[i]
  <2>1. Len(s) + i \in 1..(Len(s) + Len(t)) /\ ~ (Len(s) + i <= Len(s)) /\ (Len(s) + i) - Len(s) = i
    BY <1>1
  <2>2. QED
    BY <1>2, <2>1
<1>4. \A i \in 1..Len(s) : u[i] = s[i]
  BY <1>1, <1>2
<1>5. QED
  BY <1>2, <1>3, <1>4 DEF u

\* The weights of a version one by one.
LEMMA WeightsAre ==
  ASSUME NEW v \in SemVers
  PROVE  /\ Weights(v) \in Seq(Pairs)
         /\ \A i \in 1..3 : v.core[i] \in Nat /\ Weights(v)[i] = <<0, v.core[i]>>
         /\ v.prerelease = <<>> => Len(Weights(v)) = 4 /\ Weights(v)[4] = <<3, 0>>
         /\ v.prerelease # <<>> =>
              /\ Len(v.prerelease) \in Nat \ {0} /\ Len(Weights(v)) = 4 + Len(v.prerelease)
              /\ Weights(v)[4 + Len(v.prerelease)] = <<0, 0>>
              /\ \A i \in 1..Len(v.prerelease) :
                   /\ v.prerelease[i] \in Identifiers
                   /\ Weights(v)[3 + i] = IdentifierWeight(v.prerelease[i])
<1> DEFINE head == [i \in 1..3 |-> <<0, v.core[i]>>]
           ids == [i \in DOMAIN v.prerelease |-> IdentifierWeight(v.prerelease[i])]
<1>1. v.core \in [1..3 -> Nat] /\ v.prerelease \in Seq(Identifiers)
  BY DEF SemVers
<1>2. head \in Seq(Pairs) /\ Len(head) = 3 /\ \A i \in 1..3 : head[i] = <<0, v.core[i]>>
  <2>1. \A i \in 1..3 : <<0, v.core[i]>> \in Pairs
    BY <1>1 DEF Pairs
  <2>2. QED
    BY <2>1
<1>3. <<0, 0>> \in Pairs /\ <<3, 0>> \in Pairs
  BY DEF Pairs
<1>4. \A i \in 1..3 : v.core[i] \in Nat
  BY <1>1
<1>5. ids \in Seq(Pairs) /\ Len(ids) = Len(v.prerelease)
      /\ \A i \in 1..Len(v.prerelease) : ids[i] = IdentifierWeight(v.prerelease[i])
  <2>1. DOMAIN v.prerelease = 1..Len(v.prerelease) /\ Len(v.prerelease) \in Nat
    BY <1>1
  <2>2. \A i \in DOMAIN v.prerelease : IdentifierWeight(v.prerelease[i]) \in Pairs
    BY <1>1, IdentifierOrder
  <2>3. QED
    BY <2>1, <2>2
<1> HIDE DEF head, ids
<1>6. CASE v.prerelease = <<>>
  <2>1. Weights(v) = head \o << <<3, 0>> >>
    BY <1>6 DEF Weights, head
  <2>2. << <<3, 0>> >> \in Seq(Pairs) /\ Len(<< <<3, 0>> >>) = 1 /\ << <<3, 0>> >>[1] = <<3, 0>>
    BY <1>3
  <2> DEFINE last == << <<3, 0>> >>
  <2> HIDE DEF last
  <2>3. Weights(v) = head \o last /\ last \in Seq(Pairs) /\ Len(last) = 1 /\ last[1] = <<3, 0>>
    BY <2>1, <2>2 DEF last
  <2>4. Weights(v) \in Seq(Pairs) /\ Len(Weights(v)) = 4 /\ Weights(v)[4] = <<3, 0>>
        /\ \A i \in 1..3 : Weights(v)[i] = head[i]
    <3>1. /\ Weights(v) \in Seq(Pairs) /\ Len(Weights(v)) = 3 + 1
          /\ \A i \in 1..3 : Weights(v)[i] = head[i]
          /\ \A i \in 1..1 : Weights(v)[3 + i] = last[i]
      <4>1. /\ head \o last \in Seq(Pairs) /\ Len(head \o last) = Len(head) + Len(last)
            /\ \A i \in 1..Len(head) : (head \o last)[i] = head[i]
            /\ \A i \in 1..Len(last) : (head \o last)[Len(head) + i] = last[i]
        <5>1. head \in Seq(Pairs) /\ last \in Seq(Pairs)
          BY <1>2, <2>3
        <5>2. QED
          BY <5>1, ConcatIs
      <4>2. QED
        BY <1>2, <2>3, <4>1
    <3>2. 3 + 1 = 4 /\ 1 \in 1..1
      OBVIOUS
    <3>3. QED
      BY <2>3, <3>1, <3>2
  <2>5. QED
    BY <1>2, <1>4, <1>6, <2>4
<1>7. CASE v.prerelease # <<>>
  <2> DEFINE last == << <<0, 0>> >>
             tail == ids \o last
             n == Len(v.prerelease)
  <2>1. Weights(v) = head \o tail
    BY <1>7 DEF Weights, head, ids
  <2>2. last \in Seq(Pairs) /\ Len(last) = 1 /\ last[1] = <<0, 0>>
    BY <1>3
  <2> HIDE DEF last
  <2>3. n \in Nat \ {0} /\ \A i \in 1..n : v.prerelease[i] \in Identifiers
    BY <1>1, <1>7
  <2>4. tail \in Seq(Pairs) /\ Len(tail) = n + 1 /\ tail[n + 1] = <<0, 0>>
        /\ \A i \in 1..n : tail[i] = ids[i]
    <3>1. Len(ids) = n /\ ids \in Seq(Pairs)
      BY <1>5
    <3> HIDE DEF n
    <3>2. /\ tail \in Seq(Pairs) /\ Len(tail) = n + 1
          /\ \A i \in 1..n : tail[i] = ids[i]
          /\ \A i \in 1..1 : tail[n + i] = last[i]
      <4>1. /\ tail \in Seq(Pairs) /\ Len(tail) = Len(ids) + Len(last)
            /\ \A i \in 1..Len(ids) : tail[i] = ids[i]
            /\ \A i \in 1..Len(last) : tail[Len(ids) + i] = last[i]
        <5>1. ids \in Seq(Pairs) /\ last \in Seq(Pairs)
          BY <2>2, <3>1
        <5> HIDE DEF ids
        <5>2. QED
          BY <5>1, ConcatIs
      <4> HIDE DEF tail, ids
      <4>2. QED
        BY <2>2, <3>1, <4>1
    <3>3. tail[n + 1] = last[1]
      <4>1. 1 \in 1..1
        OBVIOUS
      <4>2. QED
        BY <3>2, <4>1
    <3>4. QED
      BY <2>2, <3>2, <3>3
  <2> HIDE DEF tail, n
  <2>5. Weights(v) \in Seq(Pairs) /\ Len(Weights(v)) = 4 + n
        /\ (\A i \in 1..3 : Weights(v)[i] = head[i])
        /\ \A i \in 1..(n + 1) : Weights(v)[3 + i] = tail[i]
    <3>1. /\ Weights(v) \in Seq(Pairs) /\ Len(Weights(v)) = 3 + (n + 1)
          /\ \A i \in 1..3 : Weights(v)[i] = head[i]
          /\ \A i \in 1..(n + 1) : Weights(v)[3 + i] = tail[i]
      <4>1. /\ head \o tail \in Seq(Pairs) /\ Len(head \o tail) = Len(head) + Len(tail)
            /\ \A i \in 1..Len(head) : (head \o tail)[i] = head[i]
            /\ \A i \in 1..Len(tail) : (head \o tail)[Len(head) + i] = tail[i]
        <5>1. head \in Seq(Pairs) /\ tail \in Seq(Pairs)
          BY <1>2, <2>4
        <5>2. QED
          BY <5>1, ConcatIs
      <4>2. QED
        BY <1>2, <2>1, <2>4, <4>1
    <3>2. 3 + (n + 1) = 4 + n
      BY <2>3
    <3>3. QED
      BY <3>1, <3>2
  <2>6. Weights(v)[4 + n] = <<0, 0>>
    <3>1. 3 + (n + 1) = 4 + n /\ n + 1 \in 1..(n + 1)
      BY <2>3
    <3>2. QED
      BY <2>4, <2>5, <3>1
  <2>7. \A i \in 1..n : Weights(v)[3 + i] = IdentifierWeight(v.prerelease[i])
    <3>1. \A i \in 1..n : i \in 1..(n + 1)
      BY <2>3
    <3>2. \A i \in 1..n : ids[i] = IdentifierWeight(v.prerelease[i])
      BY <1>5 DEF n
    <3>3. QED
      BY <2>4, <2>5, <3>1, <3>2
  <2>8. QED
    BY <1>2, <1>4, <1>7, <2>3, <2>5, <2>6, <2>7 DEF n
<1>8. QED
  BY <1>6, <1>7

\* In particular those of its numbers.
LEMMA CoreWeights ==
  ASSUME NEW v \in SemVers
  PROVE  /\ Weights(v) \in Seq(Pairs) /\ Len(Weights(v)) \in Nat /\ Len(Weights(v)) >= 4
         /\ \A i \in 1..3 : v.core[i] \in Nat /\ Weights(v)[i] = <<0, v.core[i]>>
<1>1. Weights(v) \in Seq(Pairs)
      /\ \A i \in 1..3 : v.core[i] \in Nat /\ Weights(v)[i] = <<0, v.core[i]>>
  BY WeightsAre
<1>2. Len(Weights(v)) >= 4
  <2>1. CASE v.prerelease = <<>>
    BY <2>1, WeightsAre
  <2>2. CASE v.prerelease # <<>>
    <3> DEFINE n == Len(v.prerelease)
    <3>1. n \in Nat \ {0} /\ Len(Weights(v)) = 4 + n
      BY <2>2, WeightsAre
    <3> HIDE DEF n
    <3>2. QED
      BY <3>1
  <2>3. QED
    BY <2>1, <2>2
<1>3. QED
  BY <1>1, <1>2

\* Of two versions the first difference of their weights decides.
LEMMA FirstDifference ==
  ASSUME NEW a \in SemVers, NEW b \in SemVers,
         NEW i \in DOMAIN Weights(a) \cap DOMAIN Weights(b),
         Weights(a)[i] # Weights(b)[i],
         \A k \in 1..(i - 1) : Weights(a)[k] = Weights(b)[k]
  PROVE  Precedes(a, b) <=> TupleBelow(Weights(a)[i], Weights(b)[i])
<1> DEFINE s == Weights(a)
           t == Weights(b)
<1>1. s \in Seq(Pairs) /\ t \in Seq(Pairs)
  BY WeightsAre
<1> HIDE DEF s, t
<1>2. ASSUME NEW j \in DOMAIN s \cap DOMAIN t, TupleBelow(s[j], t[j]),
             \A k \in 1..(j - 1) : s[k] = t[k]
      PROVE  j = i
  <2>1. s[j] \in Pairs /\ t[j] \in Pairs /\ i \in Nat \ {0} /\ j \in Nat \ {0}
    BY <1>1, <1>2 DEF s, t
  <2>2. s[j] # t[j]
    BY <1>2, <2>1, PairOrder DEF Pairs
  <2>3. j < i => s[j] = t[j]
    BY <2>1 DEF s, t
  <2>4. i < j => s[i] = t[i]
    BY <1>2, <2>1
  <2>5. QED
    BY <2>1, <2>2, <2>3, <2>4 DEF s, t
<1>3. Precedes(a, b) <=>
        \E j \in DOMAIN s \cap DOMAIN t : TupleBelow(s[j], t[j]) /\ \A k \in 1..(j - 1) : s[k] = t[k]
  BY DEF Precedes, s, t
<1>4. QED
  BY <1>2, <1>3 DEF s, t

\* Without a difference neither comes first.
LEMMA NoDifference ==
  ASSUME NEW a \in SemVers, NEW b \in SemVers,
         \A k \in DOMAIN Weights(a) \cap DOMAIN Weights(b) : Weights(a)[k] = Weights(b)[k]
  PROVE  ~ Precedes(a, b)
<1> DEFINE s == Weights(a)
           t == Weights(b)
<1>1. s \in Seq(Pairs) /\ t \in Seq(Pairs)
  BY WeightsAre
<1> HIDE DEF s, t
<1>2. ASSUME NEW k \in DOMAIN s \cap DOMAIN t PROVE ~ TupleBelow(s[k], t[k])
  <2>1. s[k] \in Pairs /\ s[k] = t[k]
    BY <1>1 DEF s, t
  <2>2. QED
    BY <2>1, PairOrder DEF Pairs
<1>3. QED
  BY <1>2 DEF Precedes, s, t

\* FirstDifference, both ways.
LEMMA DifferenceDecides ==
  ASSUME NEW a \in SemVers, NEW b \in SemVers, NEW i \in Nat \ {0},
         i <= Len(Weights(a)), i <= Len(Weights(b)),
         Weights(a)[i] # Weights(b)[i],
         \A k \in 1..(i - 1) : Weights(a)[k] = Weights(b)[k]
  PROVE  /\ Precedes(a, b) <=> TupleBelow(Weights(a)[i], Weights(b)[i])
         /\ Precedes(b, a) <=> TupleBelow(Weights(b)[i], Weights(a)[i])
<1>1. Weights(a) \in Seq(Pairs) /\ Weights(b) \in Seq(Pairs)
  BY WeightsAre
<1>2. i \in DOMAIN Weights(a) \cap DOMAIN Weights(b)
  BY <1>1
<1>3. Precedes(a, b) <=> TupleBelow(Weights(a)[i], Weights(b)[i])
  BY <1>2, FirstDifference
<1>4. /\ i \in DOMAIN Weights(b) \cap DOMAIN Weights(a) /\ Weights(b)[i] # Weights(a)[i]
      /\ \A k \in 1..(i - 1) : Weights(b)[k] = Weights(a)[k]
  BY <1>2
<1>5. Precedes(b, a) <=> TupleBelow(Weights(b)[i], Weights(a)[i])
  BY <1>4, FirstDifference
<1>6. QED
  BY <1>3, <1>5

\* Two versions whose numbers differ.
LEMMA CoresDecide ==
  ASSUME NEW a \in SemVers, NEW b \in SemVers, NEW i \in 1..3,
         a.core[i] # b.core[i], \A k \in 1..(i - 1) : a.core[k] = b.core[k]
  PROVE  /\ Precedes(a, b) <=> a.core[i] < b.core[i]
         /\ Precedes(b, a) <=> b.core[i] < a.core[i]
<1> DEFINE s == Weights(a)
           t == Weights(b)
<1>1. /\ s \in Seq(Pairs) /\ t \in Seq(Pairs) /\ Len(s) >= 4 /\ Len(t) >= 4
      /\ \A k \in 1..3 : /\ s[k] = <<0, a.core[k]>> /\ t[k] = <<0, b.core[k]>>
                         /\ a.core[k] \in Nat /\ b.core[k] \in Nat
  BY CoreWeights
<1> HIDE DEF s, t
<1>2. /\ s[i] \in Pairs /\ t[i] \in Pairs
      /\ s[i][1] = 0 /\ t[i][1] = 0 /\ s[i][2] = a.core[i] /\ t[i][2] = b.core[i]
  <2>1. s[i] = <<0, a.core[i]>> /\ t[i] = <<0, b.core[i]>> /\ a.core[i] \in Nat /\ b.core[i] \in Nat
    BY <1>1
  <2>2. QED
    BY <2>1 DEF Pairs
<1>3. i \in Nat \ {0} /\ i <= Len(s) /\ i <= Len(t) /\ s[i] # t[i]
  BY <1>1, <1>2
<1>4. ASSUME NEW k \in 1..(i - 1) PROVE s[k] = t[k]
  <2>1. k \in 1..3 /\ a.core[k] = b.core[k]
    OBVIOUS
  <2>2. QED
    BY <1>1, <2>1
<1>5. /\ Precedes(a, b) <=> TupleBelow(s[i], t[i])
      /\ Precedes(b, a) <=> TupleBelow(t[i], s[i])
  BY <1>3, <1>4, DifferenceDecides DEF s, t
<1>6. QED
  BY <1>1, <1>2, <1>5, PairOrder

\* Two prereleases of the same numbers.
LEMMA PrereleaseSignIsOrder ==
  ASSUME NEW a \in SemVers, NEW b \in SemVers, a.core = b.core,
         a.prerelease # <<>>, b.prerelease # <<>>
  PROVE  /\ PrereleaseSign(a.prerelease, b.prerelease) \in {-1, 0, 1}
         /\ PrereleaseSign(a.prerelease, b.prerelease) = -1 <=> Precedes(a, b)
         /\ PrereleaseSign(a.prerelease, b.prerelease) = 1 <=> Precedes(b, a)
<1> DEFINE s == Weights(a)
           t == Weights(b)
           p == a.prerelease
           q == b.prerelease
           n == Len(p)
           m == Len(q)
           differ == {i \in DOMAIN p \cap DOMAIN q : compare_identifiers(p[i], q[i]) # 0}
<1>1. /\ s \in Seq(Pairs) /\ t \in Seq(Pairs) /\ n \in Nat \ {0} /\ m \in Nat \ {0}
      /\ Len(s) = 4 + n /\ Len(t) = 4 + m /\ s[4 + n] = <<0, 0>> /\ t[4 + m] = <<0, 0>>
      /\ \A i \in 1..n : p[i] \in Identifiers /\ s[3 + i] = IdentifierWeight(p[i])
      /\ \A i \in 1..m : q[i] \in Identifiers /\ t[3 + i] = IdentifierWeight(q[i])
      /\ \A k \in 1..3 : s[k] = t[k]
  BY WeightsAre
<1>2. DOMAIN p = 1..n /\ DOMAIN q = 1..m
  BY DEF SemVers
<1>3. PrereleaseSign(p, q) =
        IF differ # {} THEN compare_identifiers(p[Least(differ)], q[Least(differ)])
        ELSE Sign(n - m)
  BY DEF PrereleaseSign
<1> HIDE DEF s, t, p, q, n, m
<1>4. ASSUME NEW i \in 1..n, i \in 1..m
      PROVE  /\ s[3 + i] \in Pairs /\ t[3 + i] \in Pairs
             /\ compare_identifiers(p[i], q[i]) \in {-1, 0, 1}
             /\ compare_identifiers(p[i], q[i]) = -1 <=> TupleBelow(s[3 + i], t[3 + i])
             /\ compare_identifiers(p[i], q[i]) = 1 <=> TupleBelow(t[3 + i], s[3 + i])
             /\ compare_identifiers(p[i], q[i]) = 0 <=> s[3 + i] = t[3 + i]
  <2>1. p[i] \in Identifiers /\ q[i] \in Identifiers
        /\ s[3 + i] = IdentifierWeight(p[i]) /\ t[3 + i] = IdentifierWeight(q[i])
    BY <1>1, <1>4
  <2>2. QED
    BY <2>1, IdentifierOrder
\* Up to a place at which no earlier identifier differs the weights are equal.
<1>5. ASSUME NEW j \in Nat \ {0}, j - 1 <= n, j - 1 <= m,
             \A i \in 1..(j - 1) : i \notin differ
      PROVE  \A k \in 1..(3 + j - 1) : s[k] = t[k]
  <2>1. SUFFICES ASSUME NEW k \in 1..(3 + j - 1) PROVE s[k] = t[k]
    OBVIOUS
  <2>2. CASE k <= 3
    BY <1>1, <2>2
  <2>3. CASE ~ (k <= 3)
    <3> DEFINE i == k - 3
    <3>1. i \in 1..(j - 1) /\ i \in 1..n /\ i \in 1..m /\ k = 3 + i
      BY <1>1, <1>5, <2>3
    <3> HIDE DEF i
    <3>2. compare_identifiers(p[i], q[i]) = 0
      BY <1>2, <1>5, <3>1
    <3>3. s[3 + i] = t[3 + i]
      BY <1>4, <3>1, <3>2
    <3>4. QED
      BY <3>1, <3>3
  <2>4. QED
    BY <2>2, <2>3
<1>6. CASE differ # {}
  <2> DEFINE j == Least(differ)
  <2>1. differ \in SUBSET Nat
    BY <1>2
  <2>2. j \in differ /\ \A k \in differ : j <= k
    BY <1>6, <2>1, LeastIsLeast
  <2> HIDE DEF j
  <2>3. j \in 1..n /\ j \in 1..m /\ compare_identifiers(p[j], q[j]) # 0
    BY <1>2, <2>2
  <2>4. \A i \in 1..(j - 1) : i \notin differ
    BY <2>2, <2>3
  <2> HIDE DEF differ
  <2>5. \A k \in 1..(3 + j - 1) : s[k] = t[k]
    <3>1. j \in Nat \ {0} /\ j - 1 <= n /\ j - 1 <= m
      BY <1>1, <2>3
    <3>2. QED
      BY <1>5, <2>4, <3>1
  <2>6. PrereleaseSign(p, q) = compare_identifiers(p[j], q[j])
    BY <1>3, <1>6 DEF j, differ
  <2>7. /\ compare_identifiers(p[j], q[j]) \in {-1, 0, 1}
        /\ compare_identifiers(p[j], q[j]) = -1 <=> TupleBelow(s[3 + j], t[3 + j])
        /\ compare_identifiers(p[j], q[j]) = 1 <=> TupleBelow(t[3 + j], s[3 + j])
        /\ s[3 + j] # t[3 + j]
    BY <1>4, <2>3
  <2> DEFINE i == 3 + j
  <2>8. i \in Nat \ {0} /\ i <= Len(s) /\ i <= Len(t) /\ i = 3 + j
    BY <1>1, <2>3
  <2> HIDE DEF i
  <2>9. /\ Precedes(a, b) <=> TupleBelow(s[i], t[i])
        /\ Precedes(b, a) <=> TupleBelow(t[i], s[i])
    <3>1. s[i] # t[i] /\ \A k \in 1..(i - 1) : s[k] = t[k]
      <4>1. i - 1 = 3 + j - 1
        BY <2>3, <2>8
      <4>2. QED
        BY <2>5, <2>7, <2>8, <4>1
    <3>2. QED
      BY <2>8, <3>1, DifferenceDecides DEF s, t
  <2>10. QED
    BY <2>6, <2>7, <2>8, <2>9 DEF p, q
<1>7. CASE differ = {}
  <2>1. PrereleaseSign(p, q) = Sign(n - m)
    BY <1>3, <1>7
  <2>2. n - m \in Int
    BY <1>1
  <2>3. /\ Sign(n - m) \in {-1, 0, 1}
        /\ Sign(n - m) = -1 <=> n < m
        /\ Sign(n - m) = 1 <=> m < n
    BY <1>1, <2>2, SignIs
  <2>4. ASSUME NEW j \in Nat \ {0}, j - 1 <= n, j - 1 <= m
        PROVE  \A k \in 1..(3 + j - 1) : s[k] = t[k]
    BY <1>5, <1>7, <2>4
  <2>5. CASE n = m
    <3>1. \A k \in 1..(3 + n) : s[k] = t[k]
      <4> DEFINE j == n + 1
      <4>1. j \in Nat \ {0} /\ j - 1 <= n /\ j - 1 <= m /\ 3 + j - 1 = 3 + n
        BY <1>1, <2>5
      <4> HIDE DEF j
      <4>2. \A k \in 1..(3 + j - 1) : s[k] = t[k]
        BY <2>4, <4>1
      <4>3. QED
        BY <4>1, <4>2
    <3>2. s[4 + n] = t[4 + n]
      BY <1>1, <2>5
    <3>3. \A k \in DOMAIN s \cap DOMAIN t : s[k] = t[k]
      BY <1>1, <2>5, <3>1, <3>2
    <3>4. ~ Precedes(a, b) /\ ~ Precedes(b, a)
      BY <3>3, NoDifference DEF s, t
    <3>5. QED
      <4>1. PrereleaseSign(p, q) = 0
        <5>1. ~ (n < m) /\ ~ (m < n)
          BY <1>1, <2>5
        <5>2. QED
          BY <2>1, <2>3, <5>1
      <4>2. QED
        BY <3>4, <4>1 DEF p, q
  <2>6. ASSUME NEW j \in Nat \ {0}, j - 1 <= n, j - 1 <= m, j + 3 <= Len(s), j + 3 <= Len(t),
               s[3 + j] # t[3 + j]
        PROVE  /\ Precedes(a, b) <=> TupleBelow(s[3 + j], t[3 + j])
               /\ Precedes(b, a) <=> TupleBelow(t[3 + j], s[3 + j])
    <3> DEFINE i == 3 + j
    <3>1. i \in Nat \ {0} /\ i <= Len(s) /\ i <= Len(t) /\ s[i] # t[i]
          /\ \A k \in 1..(i - 1) : s[k] = t[k]
      <4>1. i \in Nat \ {0} /\ i <= Len(s) /\ i <= Len(t) /\ i - 1 = 3 + j - 1
        BY <1>1, <2>6
      <4>2. \A k \in 1..(3 + j - 1) : s[k] = t[k]
        BY <2>4, <2>6
      <4>3. QED
        BY <2>6, <4>1, <4>2
    <3> HIDE DEF i
    <3>2. /\ Precedes(a, b) <=> TupleBelow(s[i], t[i])
          /\ Precedes(b, a) <=> TupleBelow(t[i], s[i])
      BY <3>1, DifferenceDecides DEF s, t
    <3>3. QED
      BY <3>2 DEF i
\* The end of a prerelease is below every identifier.
  <2>7. ASSUME NEW x \in Identifiers
        PROVE  /\ <<0, 0>> # IdentifierWeight(x)
               /\ TupleBelow(<<0, 0>>, IdentifierWeight(x)) /\ ~ TupleBelow(IdentifierWeight(x), <<0, 0>>)
    <3> DEFINE w == IdentifierWeight(x)
               e == <<0, 0>>
    <3>1. w \in Pairs /\ w[1] \in {1, 2}
      BY IdentifierOrder
    <3>2. e \in Pairs /\ e[1] = 0
      BY DEF Pairs
    <3> HIDE DEF w, e
    <3>3. e # w /\ TupleBelow(e, w) /\ ~ TupleBelow(w, e)
      BY <3>1, <3>2, PairOrder
    <3>4. QED
      BY <3>3 DEF w, e
  <2>8. CASE n < m
    <3> DEFINE j == n + 1
    <3>1. j \in Nat \ {0} /\ j - 1 <= n /\ j - 1 <= m /\ j + 3 <= Len(s) /\ j + 3 <= Len(t)
          /\ j \in 1..m /\ 3 + j = 4 + n
      BY <1>1, <2>8
    <3> HIDE DEF j
    <3>2. s[3 + j] = <<0, 0>> /\ t[3 + j] = IdentifierWeight(q[j]) /\ q[j] \in Identifiers
      BY <1>1, <3>1
    <3>3. s[3 + j] # t[3 + j] /\ TupleBelow(s[3 + j], t[3 + j]) /\ ~ TupleBelow(t[3 + j], s[3 + j])
      BY <2>7, <3>2
    <3>4. Precedes(a, b) /\ ~ Precedes(b, a)
      BY <2>6, <3>1, <3>3
    <3>5. QED
      BY <1>1, <2>1, <2>3, <2>8, <3>4 DEF p, q
  <2>9. CASE m < n
    <3> DEFINE j == m + 1
    <3>1. j \in Nat \ {0} /\ j - 1 <= n /\ j - 1 <= m /\ j + 3 <= Len(s) /\ j + 3 <= Len(t)
          /\ j \in 1..n /\ 3 + j = 4 + m
      BY <1>1, <2>9
    <3> HIDE DEF j
    <3>2. t[3 + j] = <<0, 0>> /\ s[3 + j] = IdentifierWeight(p[j]) /\ p[j] \in Identifiers
      BY <1>1, <3>1
    <3>3. s[3 + j] # t[3 + j] /\ TupleBelow(t[3 + j], s[3 + j]) /\ ~ TupleBelow(s[3 + j], t[3 + j])
      BY <2>7, <3>2
    <3>4. Precedes(b, a) /\ ~ Precedes(a, b)
      BY <2>6, <3>1, <3>3
    <3>5. QED
      BY <1>1, <2>1, <2>3, <2>9, <3>4 DEF p, q
  <2>10. QED
    BY <1>1, <2>5, <2>8, <2>9
<1>8. QED
  BY <1>6, <1>7

\* compare_versions is the order of semver.org, for prereleases of any length.
THEOREM CompareIsOrder ==
  ASSUME NEW a \in SemVers, NEW b \in SemVers
  PROVE  /\ compare_versions(a, b) \in {-1, 0, 1}
         /\ compare_versions(a, b) = -1 <=> Precedes(a, b)
         /\ compare_versions(a, b) = 1 <=> Precedes(b, a)
<1> DEFINE differ == {i \in 1..3 : a.core[i] # b.core[i]}
           s == Weights(a)
           t == Weights(b)
<1>1. \A i \in 1..3 : a.core[i] \in Nat /\ b.core[i] \in Nat
  BY CoreWeights
<1>2. CASE differ # {}
  <2> DEFINE i == Least(differ)
  <2>1. i \in differ /\ \A k \in differ : i <= k
    BY <1>2, LeastIsLeast
  <2>2. compare_versions(a, b) = Sign(a.core[i] - b.core[i])
    BY <1>2 DEF compare_versions
  <2> HIDE DEF i
  <2>3. i \in 1..3 /\ a.core[i] # b.core[i] /\ \A k \in 1..(i - 1) : a.core[k] = b.core[k]
    BY <2>1
  <2>4. /\ Precedes(a, b) <=> a.core[i] < b.core[i]
        /\ Precedes(b, a) <=> b.core[i] < a.core[i]
    BY <2>3, CoresDecide
  <2> DEFINE x == a.core[i]
             y == b.core[i]
  <2>5. x \in Nat /\ y \in Nat
    BY <1>1, <2>3
  <2> HIDE DEF x, y
  <2>6. x - y \in Int /\ (x - y < 0 <=> x < y) /\ (x - y > 0 <=> y < x)
    BY <2>5
  <2>7. Sign(x - y) \in {-1, 0, 1} /\ (Sign(x - y) = -1 <=> x < y) /\ (Sign(x - y) = 1 <=> y < x)
    BY <2>6, SignIs
  <2>8. QED
    BY <2>2, <2>4, <2>7 DEF x, y
<1>3. ASSUME differ = {} PROVE a.core = b.core
  <2>1. a.core \in [1..3 -> Nat] /\ b.core \in [1..3 -> Nat]
    BY DEF SemVers
  <2>2. \A i \in 1..3 : a.core[i] = b.core[i]
    BY <1>3
  <2>3. QED
    BY <2>1, <2>2
<1>4. CASE differ = {} /\ a.prerelease = <<>> /\ b.prerelease = <<>>
  <2>1. compare_versions(a, b) = 0
    BY <1>4 DEF compare_versions
  <2>2. s \in Seq(Pairs) /\ t \in Seq(Pairs) /\ Len(s) = 4 /\ Len(t) = 4 /\ s[4] = t[4]
        /\ \A k \in 1..3 : s[k] = t[k]
    <3>1. s \in Seq(Pairs) /\ Len(s) = 4 /\ s[4] = <<3, 0>> /\ \A k \in 1..3 : s[k] = <<0, a.core[k]>>
      BY <1>4, WeightsAre
    <3>2. t \in Seq(Pairs) /\ Len(t) = 4 /\ t[4] = <<3, 0>> /\ \A k \in 1..3 : t[k] = <<0, b.core[k]>>
      BY <1>4, WeightsAre
    <3>3. a.core = b.core
      BY <1>3, <1>4
    <3> HIDE DEF s, t
    <3>4. QED
      BY <3>1, <3>2, <3>3
  <2> HIDE DEF s, t
  <2>3. \A k \in DOMAIN s \cap DOMAIN t : s[k] = t[k]
    BY <2>2
  <2>4. ~ Precedes(a, b) /\ ~ Precedes(b, a)
    BY <2>3, NoDifference DEF s, t
  <2>5. QED
    BY <2>1, <2>4
\* A release after every prerelease of the same numbers.
<1>5. ASSUME NEW u \in SemVers, NEW v \in SemVers, u.core = v.core,
             u.prerelease = <<>>, v.prerelease # <<>>
      PROVE  ~ Precedes(u, v) /\ Precedes(v, u)
  <2> DEFINE x == Weights(u)
             y == Weights(v)
             i == 4
  <2>1. Len(x) >= i /\ Len(y) >= i /\ Len(x) \in Nat /\ Len(y) \in Nat /\ \A k \in 1..3 : x[k] = y[k]
    BY <1>5, CoreWeights
  <2>2. x[4] = <<3, 0>>
    BY <1>5, WeightsAre
  <2>3. 1 \in 1..Len(v.prerelease) /\ v.prerelease[1] \in Identifiers
        /\ y[3 + 1] = IdentifierWeight(v.prerelease[1])
    BY <1>5, WeightsAre
  <2>4. y[4] \in Pairs /\ y[4][1] \in {1, 2}
    BY <2>3, IdentifierOrder
  <2>5. x[4] \in Pairs /\ x[4][1] = 3
    BY <2>2 DEF Pairs
  <2> HIDE DEF x, y
  <2>6. x[4] # y[4] /\ ~ TupleBelow(x[4], y[4]) /\ TupleBelow(y[4], x[4])
    BY <2>4, <2>5, PairOrder
  <2>7. i \in Nat \ {0} /\ i <= Len(x) /\ i <= Len(y) /\ x[i] # y[i] /\ \A k \in 1..(i - 1) : x[k] = y[k]
    BY <2>1, <2>6
  <2>8. /\ Precedes(u, v) <=> TupleBelow(x[i], y[i])
        /\ Precedes(v, u) <=> TupleBelow(y[i], x[i])
    BY <2>7, DifferenceDecides DEF x, y
  <2>9. QED
    BY <2>6, <2>8
<1>6. CASE differ = {} /\ a.prerelease = <<>> /\ b.prerelease # <<>>
  <2>1. compare_versions(a, b) = 1
    BY <1>6 DEF compare_versions
  <2>2. QED
    BY <1>3, <1>5, <1>6, <2>1
<1>7. CASE differ = {} /\ a.prerelease # <<>> /\ b.prerelease = <<>>
  <2>1. compare_versions(a, b) = -1
    BY <1>7 DEF compare_versions
  <2>2. QED
    BY <1>3, <1>5, <1>7, <2>1
<1>8. CASE differ = {} /\ a.prerelease # <<>> /\ b.prerelease # <<>>
  <2>1. compare_versions(a, b) = PrereleaseSign(a.prerelease, b.prerelease)
    BY <1>8 DEF compare_versions
  <2>2. QED
    BY <1>3, <1>8, <2>1, PrereleaseSignIsOrder
<1>9. QED
  BY <1>2, <1>4, <1>6, <1>7, <1>8

\* The order of three numbers.
CoreBelow(c, d) ==
  \/ c[1] < d[1]
  \/ c[1] = d[1] /\ c[2] < d[2]
  \/ c[1] = d[1] /\ c[2] = d[2] /\ c[3] < d[3]

\* What precedes a release: lower numbers, and its own prereleases.
LEMMA BelowRelease ==
  ASSUME NEW v \in SemVers, NEW u \in SemVers, u.prerelease = <<>>
  PROVE  Precedes(v, u) <=> CoreBelow(v.core, u.core) \/ (v.core = u.core /\ v.prerelease # <<>>)
<1> DEFINE differ == {i \in 1..3 : v.core[i] # u.core[i]}
<1>1. \A i \in 1..3 : v.core[i] \in Nat /\ u.core[i] \in Nat
  BY CoreWeights
<1>2. v.core = u.core <=> v.core[1] = u.core[1] /\ v.core[2] = u.core[2] /\ v.core[3] = u.core[3]
  <2>1. v.core \in [1..3 -> Nat] /\ u.core \in [1..3 -> Nat] /\ 1..3 = {1, 2, 3}
    BY DEF SemVers
  <2>2. QED
    BY <2>1
<1>3. CASE v.core = u.core
  <2>1. differ = {}
    BY <1>3
  <2>2. compare_versions(v, u) = IF v.prerelease = <<>> THEN 0 ELSE -1
    BY <2>1 DEF compare_versions
  <2>3. Precedes(v, u) <=> v.prerelease # <<>>
    BY <2>2, CompareIsOrder
  <2>4. ~ CoreBelow(v.core, u.core)
    BY <1>1, <1>3 DEF CoreBelow
  <2>5. QED
    BY <1>3, <2>3, <2>4
<1>4. CASE v.core # u.core
  <2>1. PICK i \in 1..3 : v.core[i] # u.core[i] /\ \A k \in 1..(i - 1) : v.core[k] = u.core[k]
    <3>1. CASE v.core[1] # u.core[1]
      BY <3>1
    <3>2. CASE v.core[1] = u.core[1] /\ v.core[2] # u.core[2]
      <4>1. 1..(2 - 1) = {1}
        OBVIOUS
      <4>2. QED
        BY <3>2, <4>1
    <3>3. CASE v.core[1] = u.core[1] /\ v.core[2] = u.core[2] /\ v.core[3] # u.core[3]
      <4>1. 1..(3 - 1) = {1, 2}
        OBVIOUS
      <4>2. QED
        BY <3>3, <4>1
    <3>4. QED
      BY <1>2, <1>4, <3>1, <3>2, <3>3
  <2>2. Precedes(v, u) <=> v.core[i] < u.core[i]
    BY <2>1, CoresDecide
  <2>3. v.core[i] < u.core[i] <=> CoreBelow(v.core, u.core)
    <3>1. CASE i = 1
      BY <1>1, <2>1, <3>1 DEF CoreBelow
    <3>2. CASE i = 2
      <4>1. v.core[1] = u.core[1]
        BY <2>1, <3>2
      <4>2. QED
        BY <1>1, <2>1, <3>2, <4>1 DEF CoreBelow
    <3>3. CASE i = 3
      <4>1. v.core[1] = u.core[1] /\ v.core[2] = u.core[2]
        BY <2>1, <3>3
      <4>2. QED
        BY <1>1, <2>1, <3>3, <4>1 DEF CoreBelow
    <3>4. QED
      BY <3>1, <3>2, <3>3
  <2>4. QED
    BY <1>4, <2>2, <2>3
<1>5. QED
  BY <1>3, <1>4

\* And whoever does not precede a version has no lower numbers.
LEMMA NotBelow ==
  ASSUME NEW v \in SemVers, NEW base \in SemVers, ~ Precedes(v, base)
  PROVE  ~ CoreBelow(v.core, base.core)
<1>1. \A i \in 1..3 : v.core[i] \in Nat /\ base.core[i] \in Nat
  BY CoreWeights
<1>2. SUFFICES ASSUME CoreBelow(v.core, base.core) PROVE FALSE
  OBVIOUS
<1>3. CASE v.core[1] < base.core[1]
  BY <1>1, <1>3, CoresDecide
<1>4. CASE v.core[1] = base.core[1] /\ v.core[2] < base.core[2]
  <2>1. 1..(2 - 1) = {1} /\ 2 \in 1..3
    OBVIOUS
  <2>2. v.core[2] # base.core[2] /\ \A k \in 1..(2 - 1) : v.core[k] = base.core[k]
    BY <1>1, <1>4, <2>1
  <2>3. QED
    BY <1>4, <2>1, <2>2, CoresDecide
<1>5. CASE v.core[1] = base.core[1] /\ v.core[2] = base.core[2] /\ v.core[3] < base.core[3]
  <2>1. 1..(3 - 1) = {1, 2} /\ 3 \in 1..3
    OBVIOUS
  <2>2. v.core[3] # base.core[3] /\ \A k \in 1..(3 - 1) : v.core[k] = base.core[k]
    BY <1>1, <1>5, <2>1
  <2>3. QED
    BY <1>5, <2>1, <2>2, CoresDecide
<1>6. QED
  BY <1>2, <1>3, <1>4, <1>5 DEF CoreBelow

-----------------------------------------------------------------------------
(* Constraints mean what is written *)

\* A release is a version without prerelease.
LEMMA ReleaseIs ==
  ASSUME NEW x \in Nat, NEW y \in Nat, NEW z \in Nat
  PROVE  /\ Release(x, y, z) \in SemVers /\ Release(x, y, z).prerelease = <<>>
         /\ Release(x, y, z).core = <<x, y, z>>
<1>1. <<x, y, z>> \in [1..3 -> Nat] /\ <<>> \in Seq(Identifiers)
  OBVIOUS
<1>2. QED
  BY <1>1 DEF Release, SemVers

\* What precedes a release: smaller numbers, or its own prereleases.
LEMMA BelowTuple ==
  ASSUME NEW v \in SemVers, NEW x \in Nat, NEW y \in Nat, NEW z \in Nat
  PROVE  Precedes(v, Release(x, y, z)) <=>
           \/ v.core[1] < x
           \/ v.core[1] = x /\ v.core[2] < y
           \/ v.core[1] = x /\ v.core[2] = y /\ v.core[3] < z
           \/ v.core[1] = x /\ v.core[2] = y /\ v.core[3] = z /\ v.prerelease # <<>>
<1> DEFINE u == Release(x, y, z)
<1>1. u \in SemVers /\ u.prerelease = <<>> /\ u.core = <<x, y, z>>
  BY ReleaseIs
<1> HIDE DEF u
<1>2. Precedes(v, u) <=> CoreBelow(v.core, u.core) \/ (v.core = u.core /\ v.prerelease # <<>>)
  BY <1>1, BelowRelease
<1>3. u.core[1] = x /\ u.core[2] = y /\ u.core[3] = z
  BY <1>1
<1>4. v.core = u.core <=> v.core[1] = x /\ v.core[2] = y /\ v.core[3] = z
  <2>1. v.core \in [1..3 -> Nat] /\ u.core \in [1..3 -> Nat] /\ 1..3 = {1, 2, 3}
    BY <1>1 DEF SemVers
  <2>2. QED
    BY <1>3, <2>1
<1>5. QED
  BY <1>2, <1>3, <1>4 DEF CoreBelow, u

\* Near, with its place as a number.
LEMMA NearIs ==
  ASSUME NEW v \in SemVers, NEW base \in SemVers
  PROVE  /\ Near(v, base, 1) <=>
              \/ v.core[1] = base.core[1]
              \/ /\ v.prerelease # <<>>
                 /\ v.core[1] = base.core[1] + 1 /\ v.core[2] = 0 /\ v.core[3] = 0
         /\ Near(v, base, 2) <=>
              \/ v.core[1] = base.core[1] /\ v.core[2] = base.core[2]
              \/ /\ v.prerelease # <<>>
                 /\ v.core[1] = base.core[1] /\ v.core[2] = base.core[2] + 1 /\ v.core[3] = 0
         /\ Near(v, base, 3) <=>
              \/ v.core[1] = base.core[1] /\ v.core[2] = base.core[2] /\ v.core[3] = base.core[3]
              \/ /\ v.prerelease # <<>>
                 /\ v.core[1] = base.core[1] /\ v.core[2] = base.core[2]
                 /\ v.core[3] = base.core[3] + 1
<1> DEFINE next(place) == [i \in 1..3 |-> IF i < place THEN base.core[i]
                                         ELSE IF i = place THEN base.core[i] + 1 ELSE 0]
<1>1. v.core \in [1..3 -> Nat] /\ 1..3 = {1, 2, 3}
  BY DEF SemVers
<1>2. ASSUME NEW place \in 1..3
      PROVE  v.core = next(place) <=> /\ v.core[1] = next(place)[1] /\ v.core[2] = next(place)[2]
                                      /\ v.core[3] = next(place)[3]
  BY <1>1
<1>3. v.core = next(1) <=>
        v.core[1] = base.core[1] + 1 /\ v.core[2] = 0 /\ v.core[3] = 0
  BY <1>2
<1>4. v.core = next(2) <=>
        v.core[1] = base.core[1] /\ v.core[2] = base.core[2] + 1 /\ v.core[3] = 0
  BY <1>2
<1>5. v.core = next(3) <=>
        v.core[1] = base.core[1] /\ v.core[2] = base.core[2] /\ v.core[3] = base.core[3] + 1
  BY <1>2
<1>6. 1..1 = {1} /\ 1..2 = {1, 2} /\ 1..3 = {1, 2, 3}
  OBVIOUS
<1>7. \A place : Near(v, base, place) <=>
         (\A i \in 1..place : v.core[i] = base.core[i]) \/ (v.prerelease # <<>> /\ v.core = next(place))
  BY DEF Near
<1> HIDE DEF next
<1>8. QED
  BY <1>3, <1>4, <1>5, <1>6, <1>7

\* The place that ^ keeps: the first number that is not 0, or the last one.
LEMMA FirstNonzeroIs ==
  ASSUME NEW base \in SemVers
  PROVE  FirstNonzero(base) = IF base.core[1] > 0 THEN 1 ELSE IF base.core[2] > 0 THEN 2 ELSE 3
<1> DEFINE I == {i \in 1..3 : base.core[i] # 0}
<1>1. base.core \in [1..3 -> Nat] /\ 1..3 = {1, 2, 3}
  BY DEF SemVers
<1>2. CASE base.core = <<0, 0, 0>>
  BY <1>2 DEF FirstNonzero
<1>3. CASE base.core # <<0, 0, 0>>
  <2>1. FirstNonzero(base) = Least(I)
    BY <1>3 DEF FirstNonzero
  <2>2. base.core[1] # 0 \/ base.core[2] # 0 \/ base.core[3] # 0
    <3>1. <<0, 0, 0>> \in [1..3 -> Nat] /\ \A i \in {1, 2, 3} : <<0, 0, 0>>[i] = 0
      OBVIOUS
    <3>2. QED
      BY <1>1, <1>3, <3>1
  <2>3. I # {} /\ I \in SUBSET Nat
    BY <1>1, <2>2
  <2>4. Least(I) \in I /\ \A k \in I : Least(I) <= k
    BY <2>3, LeastIsLeast
  <2> DEFINE l == Least(I)
  <2>5. l \in I /\ \A k \in I : l <= k
    BY <2>4
  <2> HIDE DEF l
  <2>6. l \in {1, 2, 3} /\ base.core[l] # 0 /\ \A k \in {1, 2, 3} : base.core[k] # 0 => l <= k
    BY <1>1, <2>5
  <2>7. base.core[1] \in Nat /\ base.core[2] \in Nat /\ base.core[3] \in Nat
    BY <1>1
  <2>8. QED
    BY <2>1, <2>6, <2>7 DEF l
<1>4. QED
  BY <1>2, <1>3

\* From the base on: below the upper bound of ^ and near are the same.
LEMMA CaretBound ==
  ASSUME NEW v \in SemVers, NEW base \in SemVers, ~ Precedes(v, base)
  PROVE  Precedes(v, caret_upper_bound(base)) <=> Near(v, base, FirstNonzero(base))
<1>1. /\ v.core[1] \in Nat /\ v.core[2] \in Nat /\ v.core[3] \in Nat
      /\ base.core[1] \in Nat /\ base.core[2] \in Nat /\ base.core[3] \in Nat
  BY CoreWeights
<1>2. ~ CoreBelow(v.core, base.core)
  BY NotBelow
<1>3. CASE base.core[1] > 0
  <2>1. FirstNonzero(base) = 1 /\ caret_upper_bound(base) = Release(base.core[1] + 1, 0, 0)
    BY <1>3, FirstNonzeroIs DEF caret_upper_bound
  <2>2. Precedes(v, Release(base.core[1] + 1, 0, 0)) <=>
          \/ v.core[1] < base.core[1] + 1
          \/ /\ v.core[1] = base.core[1] + 1 /\ v.core[2] = 0 /\ v.core[3] = 0
             /\ v.prerelease # <<>>
    <3> DEFINE x == base.core[1] + 1
               y == 0
               z == 0
    <3>1. x \in Nat /\ y \in Nat /\ z \in Nat
      BY <1>1
    <3> HIDE DEF x, y, z
    <3>2. Precedes(v, Release(x, y, z)) <=>
            \/ v.core[1] < x
            \/ v.core[1] = x /\ v.core[2] < y
            \/ v.core[1] = x /\ v.core[2] = y /\ v.core[3] < z
            \/ v.core[1] = x /\ v.core[2] = y /\ v.core[3] = z /\ v.prerelease # <<>>
      BY <3>1, BelowTuple
    <3>3. QED
      BY <1>1, <3>2 DEF x, y, z
  <2>3. QED
    BY <1>1, <1>2, <2>1, <2>2, NearIs DEF CoreBelow
<1>4. CASE base.core[1] = 0 /\ base.core[2] > 0
  <2>1. FirstNonzero(base) = 2 /\ caret_upper_bound(base) = Release(0, base.core[2] + 1, 0)
    BY <1>4, FirstNonzeroIs DEF caret_upper_bound
  <2>2. Precedes(v, Release(0, base.core[2] + 1, 0)) <=>
          \/ v.core[1] = 0 /\ v.core[2] < base.core[2] + 1
          \/ /\ v.core[1] = 0 /\ v.core[2] = base.core[2] + 1 /\ v.core[3] = 0
             /\ v.prerelease # <<>>
    <3> DEFINE x == 0
               y == base.core[2] + 1
               z == 0
    <3>1. x \in Nat /\ y \in Nat /\ z \in Nat
      BY <1>1
    <3> HIDE DEF x, y, z
    <3>2. Precedes(v, Release(x, y, z)) <=>
            \/ v.core[1] < x
            \/ v.core[1] = x /\ v.core[2] < y
            \/ v.core[1] = x /\ v.core[2] = y /\ v.core[3] < z
            \/ v.core[1] = x /\ v.core[2] = y /\ v.core[3] = z /\ v.prerelease # <<>>
      BY <3>1, BelowTuple
    <3>3. QED
      BY <1>1, <3>2 DEF x, y, z
  <2>3. QED
    BY <1>1, <1>2, <1>4, <2>1, <2>2, NearIs DEF CoreBelow
<1>5. CASE base.core[1] = 0 /\ base.core[2] = 0
  <2>1. FirstNonzero(base) = 3 /\ caret_upper_bound(base) = Release(0, 0, base.core[3] + 1)
    BY <1>5, FirstNonzeroIs DEF caret_upper_bound
  <2>2. Precedes(v, Release(0, 0, base.core[3] + 1)) <=>
          \/ v.core[1] = 0 /\ v.core[2] = 0 /\ v.core[3] < base.core[3] + 1
          \/ /\ v.core[1] = 0 /\ v.core[2] = 0 /\ v.core[3] = base.core[3] + 1
             /\ v.prerelease # <<>>
    <3> DEFINE x == 0
               y == 0
               z == base.core[3] + 1
    <3>1. x \in Nat /\ y \in Nat /\ z \in Nat
      BY <1>1
    <3> HIDE DEF x, y, z
    <3>2. Precedes(v, Release(x, y, z)) <=>
            \/ v.core[1] < x
            \/ v.core[1] = x /\ v.core[2] < y
            \/ v.core[1] = x /\ v.core[2] = y /\ v.core[3] < z
            \/ v.core[1] = x /\ v.core[2] = y /\ v.core[3] = z /\ v.prerelease # <<>>
      BY <3>1, BelowTuple
    <3>3. QED
      BY <1>1, <3>2 DEF x, y, z
  <2>3. QED
    BY <1>1, <1>2, <1>5, <2>1, <2>2, NearIs DEF CoreBelow
<1>6. QED
  BY <1>1, <1>3, <1>4, <1>5

\* The same for ~.
LEMMA TildeBound ==
  ASSUME NEW v \in SemVers, NEW base \in SemVers, ~ Precedes(v, base)
  PROVE  Precedes(v, tilde_upper_bound(base)) <=>
           Near(v, base, IF FirstNonzero(base) = 3 THEN 3 ELSE 2)
<1>1. /\ v.core[1] \in Nat /\ v.core[2] \in Nat /\ v.core[3] \in Nat
      /\ base.core[1] \in Nat /\ base.core[2] \in Nat /\ base.core[3] \in Nat
  BY CoreWeights
<1>2. ~ CoreBelow(v.core, base.core)
  BY NotBelow
<1>3. CASE base.core[1] > 0
  <2>1. FirstNonzero(base) = 1 /\ tilde_upper_bound(base) = Release(base.core[1], base.core[2] + 1, 0)
    BY <1>3, FirstNonzeroIs DEF tilde_upper_bound
  <2>2. Precedes(v, Release(base.core[1], base.core[2] + 1, 0)) <=>
          \/ v.core[1] < base.core[1]
          \/ v.core[1] = base.core[1] /\ v.core[2] < base.core[2] + 1
          \/ /\ v.core[1] = base.core[1] /\ v.core[2] = base.core[2] + 1 /\ v.core[3] = 0
             /\ v.prerelease # <<>>
    <3> DEFINE x == base.core[1]
               y == base.core[2] + 1
               z == 0
    <3>1. x \in Nat /\ y \in Nat /\ z \in Nat
      BY <1>1
    <3> HIDE DEF x, y, z
    <3>2. Precedes(v, Release(x, y, z)) <=>
            \/ v.core[1] < x
            \/ v.core[1] = x /\ v.core[2] < y
            \/ v.core[1] = x /\ v.core[2] = y /\ v.core[3] < z
            \/ v.core[1] = x /\ v.core[2] = y /\ v.core[3] = z /\ v.prerelease # <<>>
      BY <3>1, BelowTuple
    <3>3. QED
      BY <1>1, <3>2 DEF x, y, z
  <2>3. QED
    BY <1>1, <1>2, <2>1, <2>2, NearIs DEF CoreBelow
<1>4. CASE base.core[1] = 0 /\ base.core[2] > 0
  <2>1. FirstNonzero(base) = 2 /\ tilde_upper_bound(base) = Release(0, base.core[2] + 1, 0)
    BY <1>4, FirstNonzeroIs DEF tilde_upper_bound
  <2>2. Precedes(v, Release(0, base.core[2] + 1, 0)) <=>
          \/ v.core[1] = 0 /\ v.core[2] < base.core[2] + 1
          \/ /\ v.core[1] = 0 /\ v.core[2] = base.core[2] + 1 /\ v.core[3] = 0
             /\ v.prerelease # <<>>
    <3> DEFINE x == 0
               y == base.core[2] + 1
               z == 0
    <3>1. x \in Nat /\ y \in Nat /\ z \in Nat
      BY <1>1
    <3> HIDE DEF x, y, z
    <3>2. Precedes(v, Release(x, y, z)) <=>
            \/ v.core[1] < x
            \/ v.core[1] = x /\ v.core[2] < y
            \/ v.core[1] = x /\ v.core[2] = y /\ v.core[3] < z
            \/ v.core[1] = x /\ v.core[2] = y /\ v.core[3] = z /\ v.prerelease # <<>>
      BY <3>1, BelowTuple
    <3>3. QED
      BY <1>1, <3>2 DEF x, y, z
  <2>3. QED
    BY <1>1, <1>2, <1>4, <2>1, <2>2, NearIs DEF CoreBelow
<1>5. CASE base.core[1] = 0 /\ base.core[2] = 0
  <2>1. FirstNonzero(base) = 3 /\ tilde_upper_bound(base) = Release(0, 0, base.core[3] + 1)
    BY <1>5, FirstNonzeroIs DEF tilde_upper_bound
  <2>2. Precedes(v, Release(0, 0, base.core[3] + 1)) <=>
          \/ v.core[1] = 0 /\ v.core[2] = 0 /\ v.core[3] < base.core[3] + 1
          \/ /\ v.core[1] = 0 /\ v.core[2] = 0 /\ v.core[3] = base.core[3] + 1
             /\ v.prerelease # <<>>
    <3> DEFINE x == 0
               y == 0
               z == base.core[3] + 1
    <3>1. x \in Nat /\ y \in Nat /\ z \in Nat
      BY <1>1
    <3> HIDE DEF x, y, z
    <3>2. Precedes(v, Release(x, y, z)) <=>
            \/ v.core[1] < x
            \/ v.core[1] = x /\ v.core[2] < y
            \/ v.core[1] = x /\ v.core[2] = y /\ v.core[3] < z
            \/ v.core[1] = x /\ v.core[2] = y /\ v.core[3] = z /\ v.prerelease # <<>>
      BY <3>1, BelowTuple
    <3>3. QED
      BY <1>1, <3>2 DEF x, y, z
  <2>3. QED
    BY <1>1, <1>2, <1>5, <2>1, <2>2, NearIs DEF CoreBelow
<1>6. QED
  BY <1>1, <1>3, <1>4, <1>5

\* A comparator is satisfied by what its word means.
LEMMA ComparatorMeans ==
  ASSUME NEW op \in RangeOps \cup {"="}, NEW base \in SemVers, NEW v \in SemVers
  PROVE  ComparatorSatisfied(Comparator(op, base), v) <=> Means(op, base, v)
<1>1. /\ compare_versions(v, base) \in {-1, 0, 1}
      /\ compare_versions(v, base) = -1 <=> Precedes(v, base)
      /\ compare_versions(v, base) = 1 <=> Precedes(base, v)
  BY CompareIsOrder
<1>2. Comparator(op, base).op = op /\ Comparator(op, base).version = base
  BY DEF Comparator
<1>3. op \in {">=", "<=", ">", "<", "!=", "="}
  BY DEF RangeOps
<1> DEFINE cmp == compare_versions(v, base)
<1> HIDE DEF cmp
<1>4. ComparatorSatisfied(Comparator(op, base), v) <=>
        CASE op = ">=" -> cmp >= 0
          [] op = "<=" -> cmp <= 0
          [] op = ">"  -> cmp > 0
          [] op = "<"  -> cmp < 0
          [] op = "="  -> cmp = 0
          [] op = "!=" -> cmp # 0
  BY <1>2 DEF ComparatorSatisfied, cmp
<1>5. cmp \in {-1, 0, 1} /\ (cmp = -1 <=> Precedes(v, base)) /\ (cmp = 1 <=> Precedes(base, v))
  BY <1>1 DEF cmp
<1>6. CASE op = ">="
  BY <1>4, <1>5, <1>6 DEF Means
<1>7. CASE op = "<="
  BY <1>4, <1>5, <1>7 DEF Means
<1>8. CASE op = ">"
  BY <1>4, <1>5, <1>8 DEF Means
<1>9. CASE op = "<"
  BY <1>4, <1>5, <1>9 DEF Means
<1>10. CASE op = "="
  BY <1>4, <1>5, <1>10 DEF Means
<1>11. CASE op = "!="
  BY <1>4, <1>5, <1>11 DEF Means
<1>12. QED
  BY <1>3, <1>6, <1>7, <1>8, <1>9, <1>10, <1>11

\* The bounds that the code computes are versions.
LEMMA BoundsAreVersions ==
  ASSUME NEW base \in SemVers
  PROVE  caret_upper_bound(base) \in SemVers /\ tilde_upper_bound(base) \in SemVers
<1>1. base.core[1] \in Nat /\ base.core[2] \in Nat /\ base.core[3] \in Nat
  BY CoreWeights
<1>2. base.core[1] + 1 \in Nat /\ base.core[2] + 1 \in Nat /\ base.core[3] + 1 \in Nat /\ 0 \in Nat
  BY <1>1
<1>3. QED
  BY <1>1, <1>2, ReleaseIs DEF caret_upper_bound, tilde_upper_bound

\* A constraint of one version, with or without ^ or ~.
LEMMA SingleMeans ==
  ASSUME NEW text \in Seq(Words), Len(text) = 1, text[1].kind = "strict",
         text[1].op \in {"none", "^", "~"}, NEW v \in SemVers
  PROVE  Satisfied(text, v) <=> Meant(text, v)
<1> DEFINE op == text[1].op
           base == text[1].version
<1>1. DOMAIN text = {1} /\ text[1] \in Words
  <2>1. DOMAIN text = 1..1
    OBVIOUS
  <2>2. 1..1 = {1}
    OBVIOUS
  <2>3. text[1] \in Words
    <3>1. 1 \in 1..Len(text)
      OBVIOUS
    <3>2. QED
      BY <3>1, ElementOfSeq
  <2>4. QED
    BY <2>1, <2>2, <2>3
<1>2. base \in SemVers
  BY <1>1 DEF Words
<1>3. Meant(text, v) <=> Means(op, base, v)
  <2>1. \A i \in DOMAIN text : i = 1
    BY <1>1
  <2>2. Meant(text, v) <=>
          (text[1].kind # "none" =>
             Means(IF text[1].op = "none" /\ 1 > 1 THEN text[1 - 1].op ELSE text[1].op, text[1].version, v))
    BY <1>1 DEF Meant
  <2>3. (IF text[1].op = "none" /\ 1 > 1 THEN text[1 - 1].op ELSE text[1].op) = op
    OBVIOUS
  <2>4. text[1].kind # "none"
    OBVIOUS
  <2>5. QED
    BY <2>2, <2>3, <2>4
<1>4. CASE op = "none"
  <2>1. Comparators(text) = {Comparator("=", base)}
    BY <1>4 DEF Comparators
  <2>2. Satisfied(text, v) <=> ComparatorSatisfied(Comparator("=", base), v)
    BY <2>1 DEF Satisfied
  <2>3. Means("none", base, v) <=> Means("=", base, v)
    BY DEF Means
  <2>4. QED
    BY <1>2, <1>3, <1>4, <2>2, <2>3, ComparatorMeans
<1>5. ASSUME NEW upper \in SemVers
      PROVE  /\ ComparatorSatisfied(Comparator(">=", base), v) <=> ~ Precedes(v, base)
             /\ ComparatorSatisfied(Comparator("<", upper), v) <=> Precedes(v, upper)
  <2>1. ">=" \in RangeOps \cup {"="} /\ "<" \in RangeOps \cup {"="}
    BY DEF RangeOps
  <2>2. Means(">=", base, v) <=> ~ Precedes(v, base)
    BY DEF Means
  <2>3. Means("<", upper, v) <=> Precedes(v, upper)
    BY DEF Means
  <2>4. QED
    BY <1>2, <2>1, <2>2, <2>3, ComparatorMeans
<1>7. caret_upper_bound(base) \in SemVers /\ tilde_upper_bound(base) \in SemVers
  BY <1>2, BoundsAreVersions
<1>8. CASE op = "^"
  <2>1. Comparators(text) = {Comparator(">=", base), Comparator("<", caret_upper_bound(base))}
    BY <1>8 DEF Comparators
  <2>2. Satisfied(text, v) <=> /\ ComparatorSatisfied(Comparator(">=", base), v)
                               /\ ComparatorSatisfied(Comparator("<", caret_upper_bound(base)), v)
    BY <2>1 DEF Satisfied
  <2>3. Satisfied(text, v) <=> ~ Precedes(v, base) /\ Precedes(v, caret_upper_bound(base))
    BY <1>5, <1>7, <2>2
  <2>4. Means("^", base, v) <=> ~ Precedes(v, base) /\ Near(v, base, FirstNonzero(base))
    BY DEF Means
  <2>5. QED
    BY <1>2, <1>3, <1>8, <2>3, <2>4, CaretBound
<1>9. CASE op = "~"
  <2>1. Comparators(text) = {Comparator(">=", base), Comparator("<", tilde_upper_bound(base))}
    BY <1>9 DEF Comparators
  <2>2. Satisfied(text, v) <=> /\ ComparatorSatisfied(Comparator(">=", base), v)
                               /\ ComparatorSatisfied(Comparator("<", tilde_upper_bound(base)), v)
    BY <2>1 DEF Satisfied
  <2>3. Satisfied(text, v) <=> ~ Precedes(v, base) /\ Precedes(v, tilde_upper_bound(base))
    BY <1>5, <1>7, <2>2
  <2>4. Means("~", base, v) <=>
          ~ Precedes(v, base) /\ Near(v, base, IF FirstNonzero(base) = 3 THEN 3 ELSE 2)
    BY DEF Means
  <2>5. QED
    BY <1>2, <1>3, <1>9, <2>3, <2>4, TildeBound
<1>10. QED
  BY <1>4, <1>8, <1>9

\* A range: every word is an operator with its version, or one of the two with
\* the other beside it.
LEMMA RangeMeans ==
  ASSUME NEW text \in Seq(Words), text # <<>>, Tokens(text, {"strict"}), NEW v \in SemVers
  PROVE  Satisfied(text, v) <=> Meant(text, v)
<1> DEFINE version(i) == IF text[i].kind = "none" THEN text[i + 1].version ELSE text[i].version
           n == Len(text)
<1>1. n \in Nat \ {0} /\ DOMAIN text = 1..n
      /\ \A i \in 1..n : text[i].version \in SemVers
  <2>1. n \in Nat \ {0} /\ DOMAIN text = 1..n /\ \A i \in 1..n : text[i] \in Words
    OBVIOUS
  <2>2. QED
    BY <2>1 DEF Words
<1> HIDE DEF n
<1>2. ASSUME NEW i \in 1..n
      PROVE  \/ text[i].op \in RangeOps \cup {"="} /\ text[i].kind = "strict"
             \/ Bare(text[i]) /\ i + 1 \in 1..n /\ text[i + 1].op = "none"
             \/ text[i].op = "none" /\ text[i].kind = "strict" /\ i - 1 \in 1..n /\ Bare(text[i - 1])
  <2>1. \/ text[i].op \in RangeOps \cup {"="} /\ text[i].kind \in {"strict"}
        \/ Bare(text[i]) /\ i < n /\ text[i + 1].op = "none"
        \/ text[i].op = "none" /\ text[i].kind \in {"strict"} /\ i > 1 /\ Bare(text[i - 1])
    BY <1>1 DEF Tokens, n
  <2>2. (i < n => i + 1 \in 1..n) /\ (i > 1 => i - 1 \in 1..n)
    BY <1>1
  <2>3. QED
    BY <2>1, <2>2
<1>3. ASSUME NEW i \in 1..n, Bare(text[i]) PROVE text[i].op \in RangeOps /\ text[i].kind = "none"
  BY <1>3 DEF Bare
<1>4. "none" \notin RangeOps \cup {"=", "^", "~"} /\ "^" \notin RangeOps \cup {"="} /\ "~" \notin RangeOps \cup {"="}
  BY DEF RangeOps
<1>5. text[1].op \in RangeOps \cup {"="}
  <2>1. 1 \in 1..n /\ 1 - 1 \notin 1..n
    BY <1>1
  <2>2. QED
    BY <1>2, <1>3, <2>1
<1>6. Comparators(text) = {Comparator(text[i].op, version(i)) : i \in {k \in DOMAIN text : text[k].op # "none"}}
  <2>1. text[1].op # "^" /\ text[1].op # "~" /\ text[1].op # "none"
    BY <1>4, <1>5
  <2>2. QED
    BY <2>1 DEF Comparators
<1>7. Satisfied(text, v) <=>
        \A i \in 1..n : text[i].op # "none" => ComparatorSatisfied(Comparator(text[i].op, version(i)), v)
  BY <1>1, <1>6 DEF Satisfied
\* Every comparator is a word of its own or one with its neighbour.
<1>8. ASSUME NEW i \in 1..n, text[i].op # "none"
      PROVE  /\ text[i].op \in RangeOps \cup {"="} /\ version(i) \in SemVers
             /\ \/ text[i].kind = "strict" /\ version(i) = text[i].version
                \/ /\ text[i].kind = "none" /\ i + 1 \in 1..n /\ version(i) = text[i + 1].version
                   /\ text[i + 1].op = "none" /\ text[i + 1].kind = "strict"
  <2>1. CASE text[i].op \in RangeOps \cup {"="} /\ text[i].kind = "strict"
    BY <1>1, <2>1
  <2>2. CASE Bare(text[i]) /\ i + 1 \in 1..n /\ text[i + 1].op = "none"
    <3>1. text[i].op \in RangeOps /\ text[i].kind = "none"
      BY <1>3, <2>2
    <3>2. text[i + 1].kind = "strict"
      <4> DEFINE k == i + 1
      <4>1. k \in 1..n /\ text[k].op = "none"
        BY <2>2
      <4> HIDE DEF k
      <4>2. text[k].op \notin RangeOps \cup {"="} /\ ~ Bare(text[k])
        BY <1>3, <1>4, <4>1
      <4>3. text[k].kind = "strict"
        BY <1>2, <4>1, <4>2
      <4>4. QED
        BY <4>3 DEF k
    <3>3. QED
      BY <1>1, <2>2, <3>1, <3>2
  <2>3. QED
    BY <1>2, <1>8, <2>1, <2>2
<1>9. Satisfied(text, v) <=> \A i \in 1..n : text[i].op # "none" => Means(text[i].op, version(i), v)
  BY <1>7, <1>8, ComparatorMeans
<1>10. Meant(text, v) <=>
         \A i \in 1..n : text[i].kind # "none" =>
           Means(IF text[i].op = "none" /\ i > 1 THEN text[i - 1].op ELSE text[i].op, text[i].version, v)
  BY <1>1 DEF Meant
<1>11. ASSUME Satisfied(text, v), NEW i \in 1..n, text[i].kind # "none"
       PROVE  Means(IF text[i].op = "none" /\ i > 1 THEN text[i - 1].op ELSE text[i].op, text[i].version, v)
  <2>1. CASE text[i].op # "none"
    BY <1>9, <1>11, <2>1
  <2>2. CASE text[i].op = "none"
    <3> DEFINE k == i - 1
    <3>1. k \in 1..n /\ Bare(text[k]) /\ i > 1 /\ k + 1 = i
      <4>1. text[i].op \notin RangeOps \cup {"="} /\ ~ Bare(text[i])
        BY <1>3, <1>4, <2>2
      <4>2. i - 1 \in 1..n /\ Bare(text[i - 1])
        BY <1>2, <4>1
      <4>3. i > 1 /\ k + 1 = i
        BY <1>1, <4>2
      <4>4. QED
        BY <4>2, <4>3
    <3> HIDE DEF k
    <3>2. text[k].op # "none" /\ text[k].kind = "none"
      BY <1>3, <1>4, <3>1
    <3>3. Means(text[k].op, version(k), v) /\ version(k) = text[i].version
      BY <1>9, <1>11, <3>1, <3>2
    <3>4. k = i - 1
      BY DEF k
    <3>5. QED
      BY <2>2, <3>1, <3>3, <3>4
  <2>3. QED
    BY <2>1, <2>2
<1>12. ASSUME Meant(text, v), NEW i \in 1..n, text[i].op # "none" PROVE Means(text[i].op, version(i), v)
  <2>1. CASE text[i].kind = "strict" /\ version(i) = text[i].version
    BY <1>10, <1>12, <2>1
  <2>2. CASE /\ i + 1 \in 1..n /\ version(i) = text[i + 1].version
             /\ text[i + 1].op = "none" /\ text[i + 1].kind = "strict"
    <3> DEFINE k == i + 1
    <3>1. k \in 1..n /\ k > 1 /\ k - 1 = i /\ text[k].op = "none" /\ text[k].kind # "none"
          /\ version(i) = text[k].version
      <4>1. k \in 1..n /\ text[k].op = "none" /\ text[k].kind # "none"
        BY <2>2
      <4>2. k > 1 /\ k - 1 = i
        BY <1>1
      <4>3. version(i) = text[k].version
        BY <2>2
      <4>4. QED
        BY <4>1, <4>2, <4>3
    <3> HIDE DEF k, version
    <3>2. Means(text[k - 1].op, text[k].version, v)
      BY <1>10, <1>12, <3>1
    <3>3. QED
      BY <3>1, <3>2
  <2>3. QED
    BY <1>8, <1>12, <2>1, <2>2
<1>13. QED
  BY <1>9, <1>10, <1>11, <1>12

\* A constraint that the parser accepts and the resolver reads is satisfied by
\* exactly the versions that it means.
LEMMA SatisfiedIsMeant ==
  ASSUME NEW text \in Seq(Words), is_valid_semver_constraint(text), Readable(text),
         NEW v \in SemVers
  PROVE  Satisfied(text, v) <=> Meant(text, v)
<1>1. CASE HasOp(text, RangeOps \cup {"="})
  BY <1>1, RangeMeans DEF is_valid_semver_constraint
<1>2. CASE ~ HasOp(text, RangeOps \cup {"="})
  <2>1. Len(text) = 1 /\ text[1].kind = "strict"
    BY <1>2 DEF is_valid_semver_constraint
  <2>2. 1 \in 1..Len(text) /\ DOMAIN text = 1..Len(text)
    BY <2>1, LenProperties
  <2>3. text[1] \in Words /\ text[1].op \in {"none", "^", "~"}
    <3>1. text[1] \in Words
      BY <2>2, ElementOfSeq
    <3>2. QED
      BY <1>2, <2>2, <3>1 DEF HasOp, Words
  <2>4. QED
    BY <2>1, <2>3, SingleMeans
<1>3. QED
  BY <1>1, <1>2

-----------------------------------------------------------------------------
(* The order of the keys *)

\* s is below t since they differ at i, or since s ends before i.
BelowAt(s, t, i) ==
  /\ i \in 1..Len(t) /\ i <= Len(s) + 1
  /\ \A k \in 1..(i - 1) : s[k] = t[k]
  /\ i <= Len(s) => s[i] < t[i]

\* The two ways of being below are one.
LEMMA BelowSomewhere ==
  ASSUME NEW s \in Seq(Nat), NEW t \in Seq(Nat)
  PROVE  TupleBelow(s, t) <=> \E i \in Nat : BelowAt(s, t, i)
<1>1. /\ Len(s) \in Nat /\ Len(t) \in Nat
      /\ DOMAIN s = 1..Len(s) /\ DOMAIN t = 1..Len(t)
  BY LenProperties
<1>2. ASSUME NEW i \in DOMAIN s \cap DOMAIN t, s[i] < t[i], \A k \in 1..(i - 1) : s[k] = t[k]
      PROVE  \E j \in Nat : BelowAt(s, t, j)
  <2>1. i \in Nat /\ BelowAt(s, t, i)
    BY <1>1, <1>2 DEF BelowAt
  <2>2. QED
    BY <2>1
<1>3. ASSUME Len(s) < Len(t), \A i \in DOMAIN s : s[i] = t[i]
      PROVE  \E j \in Nat : BelowAt(s, t, j)
  <2> DEFINE m == Len(s) + 1
  <2>1. /\ m \in Nat /\ m \in 1..Len(t) /\ m <= Len(s) + 1 /\ ~ m <= Len(s)
        /\ 1..(m - 1) = DOMAIN s
    BY <1>1, <1>3
  <2> HIDE DEF m
  <2>2. BelowAt(s, t, m)
    BY <1>3, <2>1 DEF BelowAt
  <2>3. QED
    BY <2>1, <2>2
<1>4. ASSUME NEW i \in Nat, BelowAt(s, t, i) PROVE TupleBelow(s, t)
  <2>1. CASE i <= Len(s)
    <3>1. i \in DOMAIN s \cap DOMAIN t /\ s[i] < t[i] /\ \A k \in 1..(i - 1) : s[k] = t[k]
      BY <1>1, <1>4, <2>1 DEF BelowAt
    <3>2. QED
      BY <3>1 DEF TupleBelow
  <2>2. CASE ~ i <= Len(s)
    <3>1. i = Len(s) + 1 /\ i <= Len(t)
      BY <1>1, <1>4, <2>2 DEF BelowAt
    <3>2. 1..(i - 1) = DOMAIN s /\ Len(s) < Len(t)
      BY <1>1, <3>1
    <3>3. QED
      BY <1>4, <3>2 DEF TupleBelow, BelowAt
  <2>3. QED
    BY <2>1, <2>2
<1>5. QED
  BY <1>2, <1>3, <1>4 DEF TupleBelow

\* Tuples of numbers are in a strict and total order.
LEMMA TuplesAreOrdered ==
  ASSUME NEW s \in Seq(Nat), NEW t \in Seq(Nat), NEW u \in Seq(Nat)
  PROVE  /\ ~ TupleBelow(s, s)
         /\ TupleBelow(s, t) /\ TupleBelow(t, u) => TupleBelow(s, u)
         /\ s = t \/ TupleBelow(s, t) \/ TupleBelow(t, s)
<1>0. Len(s) \in Nat /\ Len(t) \in Nat /\ Len(u) \in Nat
  BY LenProperties
<1>1. /\ \A i \in 1..Len(s) : s[i] \in Nat
      /\ \A i \in 1..Len(t) : t[i] \in Nat
      /\ \A i \in 1..Len(u) : u[i] \in Nat
  BY ElementOfSeq
<1>2. ASSUME NEW i \in Nat, BelowAt(s, s, i) PROVE FALSE
  <2>1. i \in 1..Len(s) /\ i <= Len(s) /\ s[i] < s[i]
    BY <1>0, <1>2 DEF BelowAt
  <2>2. QED
    BY <1>1, <2>1
<1>3. ASSUME NEW i \in Nat, NEW j \in Nat, BelowAt(s, t, i), BelowAt(t, u, j)
      PROVE  \E m \in Nat : BelowAt(s, u, m)
  <2>1. /\ i \in 1..Len(t) /\ i <= Len(s) + 1
        /\ j \in 1..Len(u) /\ j <= Len(t) + 1
    BY <1>3 DEF BelowAt
  <2>2. \A k \in 1..(i - 1) : s[k] = t[k]
    BY <1>3 DEF BelowAt
  <2>3. \A k \in 1..(j - 1) : t[k] = u[k]
    BY <1>3 DEF BelowAt
  <2>4. (i <= Len(s) => s[i] < t[i]) /\ (j <= Len(t) => t[j] < u[j])
    BY <1>3 DEF BelowAt
  <2>5. CASE i < j
    <3>1. /\ i \in 1..Len(u) /\ i \in 1..(j - 1)
          /\ \A k \in 1..(i - 1) : k \in 1..(j - 1)
      <4>1. i \in Nat /\ j \in Nat /\ 1 <= i /\ j <= Len(u)
        BY <2>1
      <4>2. QED
        BY <1>0, <2>5, <4>1
    <3>2. t[i] = u[i] /\ \A k \in 1..(i - 1) : s[k] = u[k]
      BY <2>2, <2>3, <3>1
    <3>3. BelowAt(s, u, i)
      BY <2>1, <2>4, <3>1, <3>2 DEF BelowAt
    <3>4. QED
      BY <3>3
  <2>6. CASE i = j
    <3>1. i \in 1..Len(u) /\ i \in 1..Len(t) /\ i <= Len(t)
      BY <1>0, <2>1, <2>6
    <3>2. t[i] < u[i] /\ \A k \in 1..(i - 1) : s[k] = u[k]
      BY <2>2, <2>3, <2>4, <2>6, <3>1
    <3>3. ASSUME i <= Len(s) PROVE s[i] < u[i]
      <4>1. i \in 1..Len(s)
        BY <1>0, <3>1, <3>3
      <4>2. s[i] \in Nat /\ t[i] \in Nat /\ u[i] \in Nat
        BY <1>1, <3>1, <4>1
      <4>3. s[i] < t[i]
        BY <2>4, <3>3
      <4>4. QED
        BY <3>2, <4>2, <4>3
    <3>4. BelowAt(s, u, i)
      BY <2>1, <3>1, <3>2, <3>3 DEF BelowAt
    <3>5. QED
      BY <3>4
  <2>7. CASE j < i
    <3> DEFINE a == Len(s)
               b == Len(t)
               c == Len(u)
    <3>0. a \in Nat /\ b \in Nat /\ c \in Nat /\ i \in 1..b /\ i <= a + 1 /\ j \in 1..c
      BY <1>0, <2>1
    <3> HIDE DEF a, b, c
    <3>1. j \in 1..c /\ j <= a + 1 /\ j <= b /\ j \in 1..(i - 1)
      BY <2>7, <3>0
    <3>2. \A k \in 1..(j - 1) : k \in 1..(i - 1)
      BY <3>1
    <3>3. s[j] = t[j] /\ t[j] < u[j] /\ \A k \in 1..(j - 1) : s[k] = u[k]
      BY <2>2, <2>3, <2>4, <3>1, <3>2 DEF b
    <3>4. BelowAt(s, u, j)
      BY <3>1, <3>3 DEF BelowAt, a, c
    <3>5. QED
      BY <3>4
  <2>8. QED
    BY <2>5, <2>6, <2>7
<1>4. ASSUME s # t PROVE \E i \in Nat : BelowAt(s, t, i) \/ BelowAt(t, s, i)
  <2> DEFINE D == {i \in 1..Len(s) : i <= Len(t) /\ s[i] # t[i]}
  <2>1. CASE D # {}
    <3>1. PICK i \in D : \A k \in D : i <= k
      <4>1. D \in SUBSET Nat
        OBVIOUS
      <4>2. Least(D) \in D /\ \A k \in D : Least(D) <= k
        BY <2>1, <4>1, LeastIsLeast
      <4>3. QED
        BY <4>2
    <3>2. i \in 1..Len(s) /\ i \in 1..Len(t) /\ s[i] # t[i]
      BY <1>0
    <3>3. ASSUME NEW k \in 1..(i - 1) PROVE s[k] = t[k]
      <4>1. k \notin D
        BY <3>1, <3>2
      <4>2. k \in 1..Len(s) /\ k <= Len(t)
        BY <1>0, <1>1, <3>2
      <4>3. QED
        BY <4>1, <4>2
    <3>4. s[i] < t[i] \/ t[i] < s[i]
      BY <1>0, <1>1, <3>2
    <3>5. BelowAt(s, t, i) \/ BelowAt(t, s, i)
      BY <1>0, <1>1, <3>2, <3>3, <3>4 DEF BelowAt
    <3>6. QED
      BY <3>2, <3>5
  <2>2. CASE D = {}
    <3>1. \A i \in 1..Len(s) : i <= Len(t) => s[i] = t[i]
      BY <2>2
    <3>2. Len(s) # Len(t)
      BY <1>0, <1>1, <1>4, <3>1, SeqEqual
    <3>3. CASE Len(s) < Len(t)
      <4>1. Len(s) + 1 \in Nat /\ BelowAt(s, t, Len(s) + 1)
        BY <1>0, <1>1, <3>1, <3>3 DEF BelowAt
      <4>2. QED
        BY <4>1
    <3>4. CASE Len(t) < Len(s)
      <4>1. Len(t) + 1 \in Nat /\ BelowAt(t, s, Len(t) + 1)
        BY <1>0, <1>1, <3>1, <3>4 DEF BelowAt
      <4>2. QED
        BY <4>1
    <3>5. QED
      BY <1>0, <1>1, <3>2, <3>3, <3>4
  <2>3. QED
    BY <2>1, <2>2
<1>5. ~ TupleBelow(s, s)
  BY <1>2, BelowSomewhere
<1>6. TupleBelow(s, t) /\ TupleBelow(t, u) => TupleBelow(s, u)
  BY <1>3, BelowSomewhere
<1>7. s = t \/ TupleBelow(s, t) \/ TupleBelow(t, s)
  BY <1>4, BelowSomewhere
<1>8. QED
  BY <1>5, <1>6, <1>7

\* The prerelease in the key of a version.
Texts(v) == [i \in DOMAIN v.prerelease |-> v.prerelease[i].text]

SameKey(a, b) == a.core = b.core /\ Texts(a) = Texts(b) /\ a.build = b.build

\* The parts of a key are tuples of numbers and a number.
LEMMA KeyParts ==
  ASSUME NEW v \in SemVers
  PROVE  v.core \in Seq(Nat) /\ Texts(v) \in Seq(Nat) /\ v.build \in Nat
<1>1. v.core \in [1..3 -> Nat] /\ v.prerelease \in Seq(Identifiers) /\ v.build \in Nat
  BY DEF SemVers
<1>2. v.core \in Seq(Nat)
  <2> DEFINE c == [i \in 1..3 |-> v.core[i]]
  <2>1. c \in Seq(Nat)
    BY <1>1
  <2>2. v.core = c
    BY <1>1
  <2>3. QED
    BY <2>1, <2>2
<1>3. Texts(v) \in Seq(Nat)
  <2> DEFINE p == v.prerelease
             n == Len(p)
  <2>1. n \in Nat /\ DOMAIN p = 1..n /\ \A i \in 1..n : p[i].text \in Nat
    <3>1. n \in Nat /\ DOMAIN p = 1..n /\ \A i \in 1..n : p[i] \in Identifiers
      BY <1>1, LenProperties, ElementOfSeq
    <3>2. QED
      BY <3>1 DEF Identifiers
  <2> HIDE DEF p, n
  <2>2. [i \in 1..n |-> p[i].text] \in Seq(Nat)
    BY <2>1
  <2>3. QED
    BY <2>1, <2>2 DEF Texts, p
<1>4. QED
  BY <1>1, <1>2, <1>3

\* version_key puts the versions in a strict and total order, though not that of
\* precedence: whatever is listed can be sorted by it.
THEOREM KeysAreOrdered ==
  ASSUME NEW a \in SemVers, NEW b \in SemVers, NEW c \in SemVers
  PROVE  /\ ~ KeyBelow(a, a)
         /\ KeyBelow(a, b) /\ KeyBelow(b, c) => KeyBelow(a, c)
         /\ SameKey(a, b) \/ KeyBelow(a, b) \/ KeyBelow(b, a)
<1>1. \A v, w \in SemVers : KeyBelow(v, w) <=>
        \/ TupleBelow(v.core, w.core)
        \/ v.core = w.core /\ TupleBelow(Texts(v), Texts(w))
        \/ v.core = w.core /\ Texts(v) = Texts(w) /\ v.build < w.build
  BY DEF KeyBelow, Texts
<1>2. /\ a.core \in Seq(Nat) /\ b.core \in Seq(Nat) /\ c.core \in Seq(Nat)
      /\ Texts(a) \in Seq(Nat) /\ Texts(b) \in Seq(Nat) /\ Texts(c) \in Seq(Nat)
      /\ a.build \in Nat /\ b.build \in Nat /\ c.build \in Nat
  BY KeyParts
<1>3. /\ ~ TupleBelow(a.core, a.core)
      /\ TupleBelow(a.core, b.core) /\ TupleBelow(b.core, c.core) => TupleBelow(a.core, c.core)
      /\ a.core = b.core \/ TupleBelow(a.core, b.core) \/ TupleBelow(b.core, a.core)
  BY <1>2, TuplesAreOrdered
<1>4. /\ ~ TupleBelow(Texts(a), Texts(a))
      /\ TupleBelow(Texts(a), Texts(b)) /\ TupleBelow(Texts(b), Texts(c))
           => TupleBelow(Texts(a), Texts(c))
      /\ Texts(a) = Texts(b) \/ TupleBelow(Texts(a), Texts(b)) \/ TupleBelow(Texts(b), Texts(a))
  BY <1>2, TuplesAreOrdered
<1>5. /\ ~ a.build < a.build
      /\ a.build < b.build /\ b.build < c.build => a.build < c.build
      /\ a.build = b.build \/ a.build < b.build \/ b.build < a.build
  BY <1>2
<1>6. ~ KeyBelow(a, a)
  BY <1>1, <1>3, <1>4, <1>5
<1>7. KeyBelow(a, b) /\ KeyBelow(b, c) => KeyBelow(a, c)
  BY <1>1, <1>3, <1>4, <1>5
<1>8. SameKey(a, b) \/ KeyBelow(a, b) \/ KeyBelow(b, a)
  BY <1>1, <1>3, <1>4, <1>5 DEF SameKey
<1>9. QED
  BY <1>6, <1>7, <1>8

\* Whenever a version satisfies the constraint, exactly one is selected: the
\* head of the sorted candidates does not depend on the order they came in.
THEOREM OneIsChosen ==
  ASSUME NEW S \in SUBSET SemVers, IsFiniteSet(S), S # {},
         \A v, w \in S : SameKey(v, w) => v = w
  PROVE  /\ \E v \in S : IsChosen(v, S)
         /\ \A v, w \in S : IsChosen(v, S) /\ IsChosen(w, S) => v = w
<1> DEFINE Below(v) == {w \in S : KeyBelow(w, v)}
           size == Cardinality(S)
           rank == {size - Cardinality(Below(v)) : v \in S}
<1>1. \A v \in S : IsFiniteSet(Below(v)) /\ Cardinality(Below(v)) \in Nat /\ Cardinality(Below(v)) <= size
  <2>1. \A v \in S : Below(v) \in SUBSET S
    OBVIOUS
  <2> HIDE DEF Below
  <2>2. QED
    BY <2>1, FS_Subset, FS_CardinalityType
<1>2. size \in Nat
  BY FS_CardinalityType
<1>3. PICK v \in S : \A w \in S : Cardinality(Below(w)) <= Cardinality(Below(v))
  <2> HIDE DEF Below, size
  <2>1. rank \in SUBSET Nat /\ rank # {}
    BY <1>1, <1>2
  <2>2. Least(rank) \in rank /\ \A k \in rank : Least(rank) <= k
    BY <2>1, LeastIsLeast
  <2>3. PICK v \in S : Least(rank) = size - Cardinality(Below(v))
    BY <2>2
  <2>4. ASSUME NEW w \in S PROVE Cardinality(Below(w)) <= Cardinality(Below(v))
    <3>1. size - Cardinality(Below(v)) <= size - Cardinality(Below(w))
      BY <2>2, <2>3
    <3>2. QED
      BY <1>1, <1>2, <3>1
  <2>5. QED
    BY <2>4
<1>4. ASSUME NEW w \in S \ {v} PROVE KeyBelow(w, v)
  <2>1. SUFFICES ASSUME KeyBelow(v, w) PROVE FALSE
    BY KeysAreOrdered
  <2>2. Below(v) \in SUBSET Below(w)
    BY <2>1, KeysAreOrdered
  <2>3. v \in Below(w) /\ v \notin Below(v)
    BY <2>1, KeysAreOrdered
  <2> HIDE DEF Below
  <2>4. Cardinality(Below(v)) <= Cardinality(Below(w)) /\ Cardinality(Below(v)) # Cardinality(Below(w))
    BY <1>1, <2>2, <2>3, FS_Subset
  <2>5. QED
    BY <1>1, <1>3, <2>4
<1>5. ASSUME NEW x \in S, NEW y \in S, IsChosen(x, S), IsChosen(y, S), x # y PROVE FALSE
  <2>1. KeyBelow(x, y) /\ KeyBelow(y, x)
    BY <1>5 DEF IsChosen
  <2>2. QED
    BY <2>1, KeysAreOrdered
<1>6. QED
  BY <1>4, <1>5 DEF IsChosen

-----------------------------------------------------------------------------
(* The way of a document *)

Accepting == {"parse", "refused"}
Reading == Accepting \cup {"resolve", "unreadable"}
Stages ==
  Reading \cup {"no_version", "schedule", "run", "limits_unreadable", "publish",
               "found"}

TypeOK ==
  /\ doc \in Documents /\ pc \in Stages
  /\ available \in SUBSET Versions /\ chosen \in SUBSET Versions

\* What each stage knows of the document it has.
Checked ==
  /\ pc \notin Accepting => Accepted
  /\ pc \notin Reading => Readable(doc.constraint)
  /\ pc = "unreadable" => ~ Readable(doc.constraint)
  /\ pc = "limits_unreadable" => CpuRaises \/ MemoryRaises
  /\ pc \in Reading => chosen = {}
  /\ \A v \in chosen : IsChosen(v, Candidates(available))
  /\ limits # NoLimits =>
       limits = [quota |-> cpu_quota(doc.cpu), bytes |-> parse_memory(doc.memory)]
  /\ pc = "found" =>
       found = {<<i, LookedFor(i)>> : i \in {k \in DOMAIN doc.artifacts :
                                               LookedFor(k) \in Written}}

IInv == TypeOK /\ Checked

\* No stage changes the document, nor what it is said to be.
LEMMA SameDocument ==
  ASSUME doc' = doc
  PROVE  /\ Accepted' <=> Accepted
         /\ CpuRaises' <=> CpuRaises
         /\ MemoryRaises' <=> MemoryRaises
         /\ Written' = Written
         /\ \A i : LookedFor(i)' = LookedFor(i)
BY DEF Accepted, DependenciesAccepted, JobsAccepted, StepsAccepted, ArtifactsAccepted,
  CpuRaises, MemoryRaises, Written, LookedFor, File

\* A submitted document has come past no stage.
LEMMA InitInvariant == Init => IInv
<1> SUFFICES ASSUME Init PROVE IInv
  OBVIOUS
<1>1. TypeOK
  BY DEF Init, TypeOK, Stages, Reading, Accepting
<1>2. Checked
  BY DEF Init, Checked, Reading, Accepting
<1>3. QED
  BY <1>1, <1>2 DEF IInv

\* parse_and_validate: what it lets through is accepted.
LEMMA AcceptKeeps == ASSUME IInv, Accept PROVE IInv'
<1>1. /\ pc = "parse" /\ Accepted /\ pc' = "resolve"
      /\ UNCHANGED <<doc, available, chosen, limits, found>>
  BY DEF Accept
<1>2. TypeOK'
  BY <1>1 DEF IInv, TypeOK, Stages, Reading
<1>3. Checked'
  BY <1>1, SameDocument DEF IInv, Checked, Reading, Accepting, Candidates
<1>4. QED
  BY <1>2, <1>3 DEF IInv

\* parse_and_validate raises.
LEMMA RefuseKeeps == ASSUME IInv, Refuse PROVE IInv'
<1>1. /\ pc = "parse" /\ pc' = "refused"
      /\ UNCHANGED <<doc, available, chosen, limits, found>>
  BY DEF Refuse
<1>2. TypeOK'
  BY <1>1 DEF IInv, TypeOK, Stages, Reading, Accepting
<1>3. Checked'
  BY <1>1, SameDocument DEF IInv, Checked, Reading, Accepting, Candidates
<1>4. QED
  BY <1>2, <1>3 DEF IInv

\* The resolver's parse of the constraint raises.
LEMMA UnreadableKeeps == ASSUME IInv, Unreadable PROVE IInv'
<1>1. /\ pc = "resolve" /\ pc' = "unreadable" /\ ~ Readable(doc.constraint)
      /\ UNCHANGED <<doc, available, chosen, limits, found>>
  BY DEF Unreadable
<1>2. TypeOK'
  BY <1>1 DEF IInv, TypeOK, Stages, Reading, Accepting
<1>3. Checked'
  BY <1>1, SameDocument DEF IInv, Checked, Reading, Accepting, Candidates
<1>4. QED
  BY <1>2, <1>3 DEF IInv

\* The resolver chooses from what the registry lists.
LEMMA ResolveKeeps == ASSUME IInv, Resolve PROVE IInv'
<1>1. /\ pc = "resolve" /\ Readable(doc.constraint) /\ available' \in SUBSET Versions
      /\ UNCHANGED <<doc, limits, found>>
      /\ Candidates(available)' = Candidates(available')
  BY DEF Resolve, Candidates
<1>2. /\ pc' \in {"no_version", "schedule"} /\ chosen' \in SUBSET Versions
      /\ \A v \in chosen' : IsChosen(v, Candidates(available'))
  <2>1. chosen = {}
    BY <1>1 DEF IInv, Checked, Reading
  <2>2. CASE Candidates(available') = {} /\ pc' = "no_version" /\ UNCHANGED chosen
    BY <2>1, <2>2
  <2>3. CASE \E v \in available' :
               IsChosen(v, Candidates(available')) /\ chosen' = {v} /\ pc' = "schedule"
    BY <1>1, <2>3
  <2>4. QED
    BY <2>2, <2>3 DEF Resolve
<1>3. TypeOK'
  BY <1>1, <1>2 DEF IInv, TypeOK, Stages, Reading
<1>4. Checked'
  <2>1. Accepted' /\ Readable(doc.constraint)'
    BY <1>1, SameDocument DEF IInv, Checked, Accepting
  <2>2. /\ pc' \notin Reading /\ pc' # "unreadable" /\ pc' # "limits_unreadable"
        /\ pc' # "found"
    BY <1>2 DEF Reading, Accepting
  <2>3. \A v \in chosen' : IsChosen(v, Candidates(available)')
    BY <1>1, <1>2
  <2>4. (\A v \in chosen : IsChosen(v, Candidates(available)))'
    BY <2>3 DEF IsChosen
  <2>5. (limits # NoLimits =>
           limits = [quota |-> cpu_quota(doc.cpu), bytes |-> parse_memory(doc.memory)])'
    BY <1>1 DEF IInv, Checked
  <2>6. QED
    BY <2>1, <2>2, <2>4, <2>5 DEF Checked
<1>5. QED
  BY <1>3, <1>4 DEF IInv

\* The scheduler finds the plan.
LEMMA BuildGraphKeeps == ASSUME IInv, BuildGraph PROVE IInv'
<1>1. /\ pc = "schedule" /\ pc' = "run"
      /\ UNCHANGED <<doc, available, chosen, limits, found>>
  BY DEF BuildGraph
<1>2. TypeOK'
  BY <1>1 DEF IInv, TypeOK, Stages, Reading, Accepting
<1>3. Checked'
  BY <1>1, SameDocument DEF IInv, Checked, Reading, Accepting, Candidates
<1>4. QED
  BY <1>2, <1>3 DEF IInv

\* cpu_quota or parse_memory raises.
LEMMA LimitsRaiseKeeps == ASSUME IInv, LimitsRaise PROVE IInv'
<1>1. /\ pc = "run" /\ pc' = "limits_unreadable" /\ (CpuRaises \/ MemoryRaises)
      /\ UNCHANGED <<doc, available, chosen, limits, found>>
  BY DEF LimitsRaise
<1>2. TypeOK'
  BY <1>1 DEF IInv, TypeOK, Stages, Reading, Accepting
<1>3. Checked'
  BY <1>1, SameDocument DEF IInv, Checked, Reading, Accepting, Candidates
<1>4. QED
  BY <1>2, <1>3 DEF IInv

\* The container has the limits that both have read.
LEMMA CreateContainerKeeps == ASSUME IInv, CreateContainer PROVE IInv'
<1>1. /\ pc = "run" /\ pc' = "publish"
      /\ limits' = [quota |-> cpu_quota(doc.cpu), bytes |-> parse_memory(doc.memory)]
      /\ UNCHANGED <<doc, available, chosen, found>>
  BY DEF CreateContainer
<1>2. TypeOK'
  BY <1>1 DEF IInv, TypeOK, Stages, Reading, Accepting
<1>3. Checked'
  BY <1>1, SameDocument DEF IInv, Checked, Reading, Accepting, Candidates
<1>4. QED
  BY <1>2, <1>3 DEF IInv

\* The files of the artifacts have been looked for.
LEMMA FindArtifactsKeeps == ASSUME IInv, FindArtifacts PROVE IInv'
<1>1. /\ pc = "publish" /\ pc' = "found"
      /\ found' = {<<i, LookedFor(i)>> : i \in {k \in DOMAIN doc.artifacts :
                                                   LookedFor(k) \in Written}}
      /\ UNCHANGED <<doc, available, chosen, limits>>
  BY DEF FindArtifacts
<1>2. TypeOK'
  BY <1>1 DEF IInv, TypeOK, Stages, Reading, Accepting
<1>3. Checked'
  BY <1>1, SameDocument DEF IInv, Checked, Reading, Accepting, Candidates
<1>4. QED
  BY <1>2, <1>3 DEF IInv

-----------------------------------------------------------------------------
(* Theorems *)

\* IInv holds at every stage of every document.
THEOREM Invariance == Spec => []IInv
<1>1. ASSUME IInv, [Next]_vars PROVE IInv'
  <2>1. CASE Accept
    BY <1>1, <2>1, AcceptKeeps
  <2>2. CASE Refuse
    BY <1>1, <2>2, RefuseKeeps
  <2>3. CASE Unreadable
    BY <1>1, <2>3, UnreadableKeeps
  <2>4. CASE Resolve
    BY <1>1, <2>4, ResolveKeeps
  <2>5. CASE BuildGraph
    BY <1>1, <2>5, BuildGraphKeeps
  <2>6. CASE LimitsRaise
    BY <1>1, <2>6, LimitsRaiseKeeps
  <2>7. CASE CreateContainer
    BY <1>1, <2>7, CreateContainerKeeps
  <2>8. CASE FindArtifacts
    BY <1>1, <2>8, FindArtifactsKeeps
  <2>9. CASE UNCHANGED vars
    <3>1. UNCHANGED <<doc, pc, available, chosen, limits, found>>
      BY <2>9 DEF vars
    <3>2. TypeOK'
      BY <1>1, <3>1 DEF IInv, TypeOK
    <3>3. Checked'
      BY <1>1, <3>1, SameDocument DEF IInv, Checked, Reading, Accepting, Candidates
    <3>4. QED
      BY <3>2, <3>3 DEF IInv
  <2>10. QED
    BY <1>1, <2>1, <2>2, <2>3, <2>4, <2>5, <2>6, <2>7, <2>8, <2>9 DEF Next
<1>2. QED
  BY InitInvariant, <1>1, PTL DEF Spec

\* A version is a candidate exactly if the constraint, as it is written, means
\* it: the parser's reading, the resolver's and semver's agree for every
\* constraint that the parser accepts and the resolver reads.
THEOREM ConstraintsMeanIt == Spec => []CandidatesMeant
<1>1. ASSUME IInv PROVE CandidatesMeant
  <2>1. SUFFICES ASSUME pc \notin {"parse", "refused", "resolve", "unreadable"}
                 PROVE  Candidates(available) = {v \in available : Meant(doc.constraint, v)}
    BY DEF CandidatesMeant
  <2>2. Accepted /\ Readable(doc.constraint)
    BY <1>1, <2>1 DEF IInv, Checked, Reading, Accepting
  <2>3. is_valid_semver_constraint(doc.constraint)
    BY <2>2 DEF Accepted, DependenciesAccepted
  <2>4. doc.constraint \in Seq(Words) /\ available \subseteq SemVers
    BY <1>1, SubmissionAssumption DEF IInv, TypeOK
  <2>5. \A v \in available : Satisfied(doc.constraint, v) <=> Meant(doc.constraint, v)
    BY <2>2, <2>3, <2>4, SatisfiedIsMeant
  <2>6. QED
    BY <2>5 DEF Candidates
<1>2. QED
  BY Invariance, <1>1, PTL

\* A triple as a sequence.
LEMMA LengthOfTriple == ASSUME NEW c \in [1..3 -> Nat] PROVE Len(c) = 3
<1> DEFINE s == [i \in 1..3 |-> c[i]]
<1>1. c = s
  OBVIOUS
<1>2. Len(s) = 3
  OBVIOUS
<1> HIDE DEF s
<1>3. QED
  BY <1>1, <1>2

\* The order of triples is that of tuples.
LEMMA TripleOrder ==
  ASSUME NEW c \in [1..3 -> Nat], NEW d \in [1..3 -> Nat]
  PROVE  TupleBelow(c, d) <=> CoreBelow(c, d)
<1>1. DOMAIN c = {1, 2, 3} /\ DOMAIN d = {1, 2, 3} /\ Len(c) = 3 /\ Len(d) = 3
  <2>1. 1..3 = {1, 2, 3}
    OBVIOUS
  <2>2. QED
    BY <2>1, LengthOfTriple
<1>2. 1..(1 - 1) = {} /\ 1..(2 - 1) = {1} /\ 1..(3 - 1) = {1, 2}
  OBVIOUS
<1> DEFINE First(i) == c[i] < d[i] /\ \A k \in 1..(i - 1) : c[k] = d[k]
<1>3. TupleBelow(c, d) <=> \E i \in {1, 2, 3} : First(i)
  BY <1>1 DEF TupleBelow
<1>4. /\ First(1) <=> c[1] < d[1]
      /\ First(2) <=> (c[2] < d[2] /\ c[1] = d[1])
      /\ First(3) <=> (c[3] < d[3] /\ c[1] = d[1] /\ c[2] = d[2])
  BY <1>2
<1> HIDE DEF First
<1>5. (\E i \in {1, 2, 3} : First(i)) <=> (First(1) \/ First(2) \/ First(3))
  OBVIOUS
<1>6. QED
  BY <1>3, <1>4, <1>5 DEF CoreBelow

\* The version in the lockfile is the highest candidate by its numbers, and the
\* highest altogether unless a candidate is a prerelease.
THEOREM ChoosesHighest == Spec => []ChosenHighest
<1>1. ASSUME IInv PROVE ChosenHighest
  <2>1. SUFFICES ASSUME NEW v \in chosen, NEW w \in Candidates(available)
                 PROVE  /\ ~ TupleBelow(v.core, w.core)
                        /\ Precedes(v, w) => \E u \in Candidates(available) : u.prerelease # <<>>
    BY DEF ChosenHighest
  <2>2. v \in Candidates(available) /\ (w = v \/ KeyBelow(w, v))
    BY <1>1 DEF IInv, Checked, IsChosen
  <2>3. Candidates(available) \subseteq SemVers
    BY <1>1, SubmissionAssumption DEF IInv, TypeOK, Candidates
  <2>4. v \in SemVers /\ w \in SemVers /\ v.core \in [1..3 -> Nat] /\ w.core \in [1..3 -> Nat]
    BY <2>2, <2>3 DEF SemVers
  <2>5. v.core = w.core \/ CoreBelow(w.core, v.core)
    BY <2>2, <2>4, TripleOrder DEF KeyBelow
  <2>6. \A i \in {1, 2, 3} : v.core[i] \in Nat /\ w.core[i] \in Nat
    BY <2>4
  <2>7. ~ CoreBelow(v.core, w.core)
    BY <2>5, <2>6 DEF CoreBelow
  <2>8. ASSUME Precedes(v, w) PROVE v.prerelease # <<>> \/ w.prerelease # <<>>
    BY <2>4, <2>7, <2>8, BelowRelease
  <2>9. QED
    BY <2>2, <2>4, <2>7, <2>8, TripleOrder
<1>2. QED
  BY Invariance, <1>1, PTL

\* What the parser accepts the later stages read in the same sense, but for the
\* gaps that StagesAgree names.
THEOREM StagesReadAlike == Spec => []StagesAgree
<1>1. ASSUME IInv PROVE StagesAgree
  <2>1. ASSUME pc = "unreadable", NEW i \in DOMAIN doc.constraint PROVE doc.constraint[i].op = "="
    <3> DEFINE text == doc.constraint
    <3>1. is_valid_semver_constraint(text) /\ ~ Readable(text)
      BY <1>1, <2>1 DEF IInv, Checked, Accepting, Accepted, DependenciesAccepted
    <3>2. text \in Seq(Words) /\ i \in DOMAIN text
      BY <1>1, <2>1, SubmissionAssumption DEF IInv, TypeOK
    <3> HIDE DEF text
    <3>3. text # <<>> /\ DOMAIN text = 1..Len(text) /\ Len(text) \in Nat \ {0} /\ 1 \in DOMAIN text
      BY <3>1, <3>2 DEF is_valid_semver_constraint
    <3>4. CASE ~ HasOp(text, RangeOps \cup {"="})
      <4>1. Len(text) = 1 /\ text[1].kind = "strict"
        BY <3>1, <3>4 DEF is_valid_semver_constraint
      <4>2. text[1] \in Words
        BY <3>2, <3>3, ElementOfSeq
      <4>3. text[1].op \in {"none", "^", "~"}
        BY <3>3, <3>4, <4>2 DEF HasOp, Words
      <4>4. ~ HasOp(text, RangeOps)
        BY <3>4 DEF HasOp
      <4>5. Readable(text)
        BY <3>3, <4>1, <4>3, <4>4 DEF Readable, Parsed
      <4>6. QED
        BY <3>1, <4>5
    <3>5. CASE HasOp(text, RangeOps \cup {"="})
      <4>1. Tokens(text, {"strict"})
        BY <3>1, <3>5 DEF is_valid_semver_constraint
      <4>2. Tokens(text, Parsed)
        BY <4>1 DEF Tokens, Parsed
      <4>3. text[1].op \in RangeOps \cup {"="}
        <5>1. \/ text[1].op \in RangeOps \cup {"="}
              \/ Bare(text[1])
              \/ 1 > 1
          BY <3>3, <4>1 DEF Tokens
        <5>2. QED
          BY <5>1 DEF Bare
      <4>4. text[1].op \notin {"^", "~"}
        BY <4>3 DEF RangeOps
      <4>5. ~ HasOp(text, RangeOps)
        BY <3>1, <3>3, <4>2, <4>4 DEF Readable
      <4>6. \A k \in DOMAIN text : text[k].op \notin RangeOps /\ ~ Bare(text[k])
        BY <4>5 DEF HasOp, Bare
      <4>7. \/ text[i].op \in RangeOps \cup {"="}
            \/ Bare(text[i])
            \/ i > 1 /\ Bare(text[i - 1])
        BY <3>2, <4>1 DEF Tokens
      <4>8. i > 1 => i - 1 \in DOMAIN text
        BY <3>2, <3>3
      <4>9. text[i].op = "="
        BY <3>2, <4>6, <4>7, <4>8
      <4>10. QED
        BY <4>9 DEF text
    <3>6. QED
      BY <3>4, <3>5
  <2>2. ASSUME pc = "schedule", NEW j \in DOMAIN doc.needs
        PROVE  doc.needs[j] \subseteq DOMAIN doc.needs \ {j}
    BY <1>1, <2>2 DEF IInv, Checked, Accepting, Accepted, JobsAccepted, NeedsAccepted
  <2>3. ASSUME pc = "limits_unreadable"
        PROVE  doc.cpu.kind # "number" \/ (doc.memory.fraction /\ doc.memory.unit = 1)
    BY <1>1, <2>3 DEF IInv, Checked, CpuRaises, MemoryRaises
  <2>4. ASSUME pc = "found", NEW i \in DOMAIN doc.artifacts, doc.artifacts[i].path # "dotted"
        PROVE  {e[2] : e \in {x \in found : x[1] = i}} = {File(i)} \cap Written
    <3>1. found = {<<k, LookedFor(k)>> : k \in {n \in DOMAIN doc.artifacts :
                                                  LookedFor(n) \in Written}}
      BY <1>1, <2>4 DEF IInv, Checked
    <3>2. LookedFor(i) = File(i)
      <4>1. (doc.artifacts[i].path = "dotted") = FALSE
        BY <2>4
      <4>2. File(i) = [dotted |-> FALSE, name |-> doc.artifacts[i].name]
        BY <4>1 DEF File
      <4>3. QED
        BY <4>2 DEF LookedFor
    <3>3. \A x \in found : x[1] = i => x[2] = File(i) /\ x[2] \in Written
      BY <3>1, <3>2
    <3>4. File(i) \in Written => <<i, File(i)>> \in found
      BY <2>4, <3>1, <3>2
    <3>5. QED
      BY <3>3, <3>4
  <2>5. QED
    BY <2>1, <2>2, <2>3, <2>4 DEF StagesAgree
<1>2. QED
  BY Invariance, <1>1, PTL

\* A container's limits are those of the document, cut to whole units.
THEOREM LimitsAreWritten == Spec => []LimitsAsWritten
<1>1. ASSUME IInv PROVE LimitsAsWritten
  <2>1. SUFFICES ASSUME limits # NoLimits
                 PROVE  /\ 10 * limits.bytes <= doc.memory.tenths * doc.memory.unit
                        /\ 10 * limits.quota <= doc.cpu.micro
                        /\ limits.bytes = 0 => doc.memory.tenths * doc.memory.unit < 10
                        /\ limits.quota = 0 => doc.cpu.micro < 10
    BY DEF LimitsAsWritten
  <2> DEFINE x == doc.memory.tenths * doc.memory.unit
             y == doc.cpu.micro
  <2>2. y \in Nat /\ doc.memory.tenths \in Nat /\ doc.memory.unit \in Nat
    BY <1>1, SubmissionAssumption DEF IInv, TypeOK
  <2>3. x \in Nat
    BY <2>2
  <2>4. limits = [quota |-> cpu_quota(doc.cpu), bytes |-> parse_memory(doc.memory)]
    BY <1>1, <2>1 DEF IInv, Checked
  <2>5. limits.bytes = x \div 10 /\ limits.quota = y \div 10
    BY <2>4 DEF cpu_quota, parse_memory
  <2> HIDE DEF x, y
  <2>6. /\ 10 * (x \div 10) <= x /\ (x \div 10 = 0 => x < 10)
        /\ 10 * (y \div 10) <= y /\ (y \div 10 = 0 => y < 10)
    BY <2>2, <2>3
  <2>7. QED
    BY <2>5, <2>6 DEF x, y
<1>2. QED
  BY Invariance, <1>1, PTL

-----------------------------------------------------------------------------
(* The search for cycles: its invariant *)

Phases == {"dfs", "kahn", "plan"} \cup Final
Frames == [node : Jobs, next : Nat \ {0}]

PlanTypeOK ==
  /\ needs \in [Jobs -> Seq(Jobs)]
  /\ phase \in Phases
  /\ root \in 1..(N + 1)
  /\ stack \in Seq(Frames)
  /\ visiting \in SUBSET Jobs /\ visited \in SUBSET Jobs
  /\ cycles_found \in Seq(Seq(Jobs))

\* visiting holds the nodes of the active calls, each called once and none of
\* them visited; every call but the last is in the call of its latest need.
Calls ==
  /\ visiting = {stack[i].node : i \in DOMAIN stack}
  /\ \A i, k \in DOMAIN stack : stack[i].node = stack[k].node => i = k
  /\ visiting \cap visited = {}
  /\ \A i \in DOMAIN stack : stack[i].next <= Len(needs[stack[i].node]) + 1
  /\ \A i \in 1..(Len(stack) - 1) :
       /\ stack[i].next > 1
       /\ needs[stack[i].node][stack[i].next - 1] = stack[i + 1].node

\* As long as no cycle is found, whatever a call has come past is visited.
PastIsVisited ==
  cycles_found = <<>> =>
    \A i \in DOMAIN stack : \A k \in 1..(stack[i].next - 1) :
      \/ needs[stack[i].node][k] \in visited
      \/ i < Len(stack) /\ k = stack[i].next - 1

\* And the visited jobs need visited jobs only, without a cycle.
VisitedHasNoCycle ==
  cycles_found = <<>> =>
    /\ \A j \in visited : NeedsOf(j) \subseteq visited
    /\ \A S \in SUBSET visited : S # {} => \E j \in S : NeedsOf(j) \cap S = {}

\* No job before root is left out; the phases after the search.
Progress ==
  /\ 1..(root - 1) \subseteq visited \cup visiting
  /\ phase # "dfs" => stack = <<>> /\ root = N + 1
  /\ phase = "cycle_error" => cycles_found # <<>>
  /\ phase \notin {"dfs", "cycle_error"} => cycles_found = <<>>

IsCycle(c) ==
  /\ Len(c) > 1 /\ Head(c) = Last(c)
  /\ \A i \in 1..(Len(c) - 1) : c[i + 1] \in NeedsOf(c[i])

CyclesAreReal == \A c \in Range(cycles_found) : IsCycle(c)

PlanIInv ==
  /\ PlanTypeOK
  /\ Calls /\ PastIsVisited /\ VisitedHasNoCycle
  /\ Progress /\ CyclesAreReal

-----------------------------------------------------------------------------
(* Sequences: where a job stands on the path *)

\* Min chooses an element of a set of numbers.
LEMMA MinIn == ASSUME NEW I \in SUBSET Nat, I # {} PROVE Min(I) \in I
BY LeastIsLeast DEF Min, Least

\* A job that is being visited is on the path at the place the code finds.
LEMMA PlaceFound ==
  ASSUME PlanTypeOK, Calls, NEW dep \in visiting
  PROVE  PlaceOnPath(dep) \in 1..Len(stack) /\ stack[PlaceOnPath(dep)].node = dep
<1> DEFINE I == {i \in 1..Len(Path) : Path[i] = dep}
<1>1. Len(Path) = Len(stack) /\ \A i \in 1..Len(stack) : Path[i] = stack[i].node
  BY DEF PlanTypeOK, Path
<1>2. PICK i \in DOMAIN stack : dep = stack[i].node
  BY DEF Calls
<1>3. i \in I
  BY <1>1, <1>2 DEF PlanTypeOK
<1>4. I \in SUBSET Nat /\ I # {}
  BY <1>1, <1>3 DEF PlanTypeOK
<1>5. PlaceOnPath(dep) = Min(I)
  BY <1>4 DEF PlaceOnPath, SelectInSeq
<1>6. Min(I) \in I
  BY <1>4, MinIn
<1>7. QED
  BY <1>1, <1>5, <1>6

\* What the code appends to cycles_found is a cycle: from that place the path
\* leads along needs to the top call, which needs the job it began with.
LEMMA CycleAtIsReal ==
  ASSUME PlanTypeOK, Calls, stack # <<>>,
         NEW dep \in visiting, dep \in NeedsOf(Last(stack).node)
  PROVE  CycleAt(dep) \in Seq(Jobs) /\ IsCycle(CycleAt(dep))
<1> DEFINE p == PlaceOnPath(dep)
           m == Len(stack)
           c == CycleAt(dep)
<1>1. p \in 1..m /\ stack[p].node = dep
  BY PlaceFound
<1> HIDE DEF p
<1>2. m \in Nat \ {0} /\ stack \in Seq(Frames)
  BY DEF PlanTypeOK
<1>3. Path \in Seq(Jobs) /\ Len(Path) = m /\ \A i \in 1..m : Path[i] = stack[i].node
  <2>1. DOMAIN stack = 1..m /\ \A i \in 1..m : stack[i].node \in Jobs
    <3>1. DOMAIN stack = 1..m /\ \A i \in 1..m : stack[i] \in Frames
      BY <1>2
    <3>2. QED
      BY <3>1 DEF Frames
  <2>2. Path = [i \in 1..m |-> stack[i].node]
    BY <2>1 DEF Path
  <2>3. QED
    BY <1>2, <2>1, <2>2
<1>4. c = Append(SubSeq(Path, p, m), dep)
  BY <1>3 DEF CycleAt, p
<1>5. dep \in Jobs
  BY DEF PlanTypeOK
<1>6. /\ SubSeq(Path, p, m) \in Seq(Jobs) /\ Len(SubSeq(Path, p, m)) = m - p + 1
      /\ \A i \in 1..(m - p + 1) : SubSeq(Path, p, m)[i] = Path[p + i - 1]
  <2>1. Path \in Seq(Jobs) /\ Len(Path) = m /\ p \in 1..m
    BY <1>1, <1>2, <1>3
  <2> HIDE DEF m, p
  <2>2. QED
    BY <2>1, SubSeqProperties
<1>7. /\ c \in Seq(Jobs) /\ Len(c) = m - p + 2
      /\ \A i \in 1..(m - p + 1) : c[i] = stack[p + i - 1].node
      /\ c[m - p + 2] = dep
  <2> DEFINE q == SubSeq(Path, p, m)
  <2>1. /\ q \in Seq(Jobs) /\ Len(q) = m - p + 1
        /\ \A i \in 1..(m - p + 1) : q[i] = stack[p + i - 1].node
    BY <1>1, <1>2, <1>3, <1>6
  <2>2. c = Append(q, dep)
    BY <1>4
  <2> HIDE DEF q, c
  <2>3. /\ c \in Seq(Jobs) /\ Len(c) = Len(q) + 1 /\ c[Len(c)] = dep
        /\ \A i \in 1..Len(q) : c[i] = q[i]
    BY <1>5, <2>1, <2>2, AppendProperties
  <2>4. Len(q) + 1 = m - p + 2 /\ 1..Len(q) = 1..(m - p + 1)
    BY <1>1, <1>2, <2>1
  <2> HIDE DEF m, p
  <2>5. ASSUME NEW i \in 1..(m - p + 1) PROVE c[i] = stack[p + i - 1].node
    BY <2>1, <2>3, <2>4
  <2>6. Len(c) = m - p + 2
    BY <2>3, <2>4
  <2>7. c[m - p + 2] = dep
    BY <2>3, <2>6
  <2>8. QED
    BY <2>3, <2>5, <2>6, <2>7
<1> HIDE DEF c, m
<1>8. c[1] = dep
  BY <1>1, <1>2, <1>7
<1>9. Len(c) > 1 /\ Head(c) = Last(c)
  BY <1>1, <1>2, <1>7, <1>8 DEF Last
<1>10. ASSUME NEW i \in 1..(Len(c) - 1) PROVE c[i + 1] \in NeedsOf(c[i])
  <2>1. CASE i = m - p + 1
    <3>1. c[i] = Last(stack).node /\ c[i + 1] = dep
      BY <1>1, <1>2, <1>7, <2>1 DEF Last, m
    <3>2. QED
      BY <3>1
  <2>2. CASE i # m - p + 1
    <3> DEFINE k == p + i - 1
    <3>1. i \in 1..(m - p) /\ k \in 1..(m - 1)
      <4>1. p \in 1..m /\ m \in Nat /\ i \in 1..(m - p + 1)
        BY <1>1, <1>2, <1>7
      <4>2. QED
        BY <4>1, <2>2
    <3>2. c[i] = stack[k].node /\ c[i + 1] = stack[k + 1].node
      BY <1>1, <1>2, <1>7, <3>1
    <3> HIDE DEF k
    <3>3. stack[k].next > 1 /\ needs[stack[k].node][stack[k].next - 1] = stack[k + 1].node
      BY <3>1 DEF Calls, m
    <3>4. /\ needs[stack[k].node] \in Seq(Jobs)
          /\ stack[k].next - 1 \in 1..Len(needs[stack[k].node])
      <4>1. k \in DOMAIN stack /\ stack[k] \in Frames
        BY <1>2, <3>1 DEF m
      <4>2. stack[k].node \in Jobs /\ stack[k].next \in Nat
        BY <4>1 DEF Frames
      <4>3. needs[stack[k].node] \in Seq(Jobs)
        BY <4>2 DEF PlanTypeOK
      <4>4. stack[k].next <= Len(needs[stack[k].node]) + 1
        BY <4>1 DEF Calls
      <4>5. QED
        BY <3>3, <4>2, <4>3, <4>4
    <3>5. needs[stack[k].node][stack[k].next - 1] \in NeedsOf(stack[k].node)
      BY <3>4 DEF NeedsOf, Range
    <3>6. QED
      BY <3>2, <3>3, <3>5
  <2>3. QED
    BY <2>1, <2>2
<1>11. QED
  BY <1>7, <1>9, <1>10 DEF IsCycle, c

-----------------------------------------------------------------------------
(* The invariant holds at first and every step keeps it *)

\* The search has not begun.
LEMMA PlanInitInvariant == ASSUME PlanInit PROVE PlanIInv
<1>1. needs \in [Jobs -> Seq(Jobs)]
  <2>1. needs \in [Jobs -> UNION {NeedsLists(j) : j \in Jobs}]
    BY DEF PlanInit
  <2>2. ASSUME NEW j \in Jobs PROVE NeedsLists(j) \subseteq Seq(Jobs)
    BY DEF NeedsLists, SeqOf
  <2>3. QED
    BY <2>1, <2>2
<1>2. PlanTypeOK
  BY SizeAssumption, <1>1 DEF PlanInit, PlanTypeOK, Phases, Jobs
<1>3. stack = <<>> /\ visiting = {} /\ visited = {} /\ cycles_found = <<>> /\ root = 1
      /\ phase = "dfs"
  BY DEF PlanInit
<1>4. Calls /\ PastIsVisited
  BY <1>3 DEF Calls, PastIsVisited
<1>5. VisitedHasNoCycle /\ Progress /\ CyclesAreReal
  BY <1>3 DEF VisitedHasNoCycle, Progress, CyclesAreReal, Range
<1>6. QED
  BY <1>2, <1>4, <1>5 DEF PlanIInv

\* A call begins: the search from a new root.
LEMMA StartSearchKeeps == ASSUME PlanIInv, StartSearch PROVE PlanIInv'
<1> USE DEF PlanIInv
<1>1. /\ phase = "dfs" /\ stack = <<>> /\ root \in 1..N /\ root' = root + 1
      /\ UNCHANGED <<needs, phase, visited, cycles_found>>
  BY DEF StartSearch, Jobs
<1>2. visiting = {}
  BY <1>1 DEF Calls
<1>3. CASE root \in visited
  <2>1. UNCHANGED <<stack, visiting>>
    BY <1>3 DEF StartSearch
  <2>2. PlanTypeOK'
    BY SizeAssumption, <1>1, <2>1 DEF PlanTypeOK
  <2>3. Calls' /\ PastIsVisited' /\ VisitedHasNoCycle' /\ CyclesAreReal'
    BY <1>1, <2>1 DEF Calls, PastIsVisited, VisitedHasNoCycle, CyclesAreReal, IsCycle, NeedsOf
  <2>4. Progress'
    BY <1>1, <1>3, <2>1 DEF Progress
  <2>5. QED
    BY <2>2, <2>3, <2>4
<1>4. CASE root \notin visited
  <2>1. stack' = <<Frame(root)>> /\ visiting' = {root}
    BY <1>2, <1>4 DEF StartSearch
  <2>2. root \in Jobs /\ Frame(root) \in Frames /\ Frame(root).node = root /\ Frame(root).next = 1
    BY <1>1 DEF Frame, Frames, Jobs
  <2>3. stack' \in Seq(Frames) /\ DOMAIN stack' = {1} /\ Len(stack') = 1 /\ stack'[1] = Frame(root)
    BY <2>1, <2>2
  <2>4. PlanTypeOK'
    BY SizeAssumption, <1>1, <2>1, <2>2, <2>3 DEF PlanTypeOK
  <2>5. Calls'
    BY <1>1, <1>4, <2>1, <2>2, <2>3, <2>4 DEF Calls, PlanTypeOK
  <2>6. PastIsVisited'
    BY <2>2, <2>3 DEF PastIsVisited
  <2>7. VisitedHasNoCycle' /\ CyclesAreReal'
    BY <1>1 DEF VisitedHasNoCycle, CyclesAreReal, IsCycle, NeedsOf
  <2>8. Progress'
    BY <1>1, <1>2, <2>1 DEF Progress
  <2>9. QED
    BY <2>4, <2>5, <2>6, <2>7, <2>8
<1>5. QED
  BY <1>3, <1>4

\* The top call, number m, of node, looks at its next need, dep, and rest is
\* the stack that remembers it: the three outcomes of dfs(dep).
DescendsTo(m, node, next, dep, rest) ==
  /\ m = Len(stack) /\ Last(stack) = stack[m]
  /\ stack[m].node = node /\ stack[m].next = next
  /\ next <= Len(needs[node]) /\ needs[node][next] = dep /\ dep \in NeedsOf(node)
  /\ Len(rest) = m
  /\ \A i \in 1..m : /\ rest[i].node = stack[i].node
                     /\ rest[i].next = IF i = m THEN next + 1 ELSE stack[i].next
  /\ phase = "dfs" /\ UNCHANGED <<needs, phase, root, visited>>
  /\ \/ /\ dep \in visiting /\ stack' = rest /\ UNCHANGED visiting
        /\ cycles_found' = Append(cycles_found, CycleAt(dep))
     \/ /\ dep \in visited /\ stack' = rest
        /\ UNCHANGED <<visiting, cycles_found>>
     \/ /\ dep \notin visited \cup visiting
        /\ stack' = Append(rest, Frame(dep))
        /\ visiting' = visiting \cup {dep}
        /\ UNCHANGED cycles_found

\* Every step of Descend is such a look.
LEMMA DescendEffect ==
  ASSUME PlanIInv, Descend
  PROVE  \E m, next \in Nat \ {0}, node, dep \in Jobs, rest \in Seq(Frames) :
           DescendsTo(m, node, next, dep, rest)
<1> DEFINE m == Len(stack)
           top == Last(stack)
           rest == [stack EXCEPT ![Len(stack)].next = @ + 1]
           dep == needs[top.node][top.next]
<1>1. stack # <<>> /\ phase = "dfs" /\ UNCHANGED <<needs, phase, root, visited>>
      /\ top.next <= Len(needs[top.node])
  BY DEF Descend
<1>2. stack \in Seq(Frames) /\ m \in Nat \ {0} /\ DOMAIN stack = 1..m /\ top = stack[m]
      /\ \A i \in 1..m : stack[i] \in Frames
  BY <1>1 DEF PlanIInv, PlanTypeOK, Last
<1>3. top \in Frames /\ top.node \in Jobs /\ top.next \in Nat \ {0}
  BY <1>2 DEF Frames
<1>4. needs[top.node] \in Seq(Jobs)
  BY <1>3 DEF PlanIInv, PlanTypeOK
<1>5. dep \in Jobs /\ dep \in NeedsOf(top.node)
  BY <1>1, <1>3, <1>4 DEF NeedsOf, Range
<1>6. /\ rest \in Seq(Frames) /\ Len(rest) = m
      /\ \A i \in 1..m : /\ rest[i].node = stack[i].node
                         /\ rest[i].next = IF i = m THEN top.next + 1 ELSE stack[i].next
  <2>1. rest = [stack EXCEPT ![m] = [stack[m] EXCEPT !.next = stack[m].next + 1]]
    BY <1>2
  <2>2. [stack[m] EXCEPT !.next = stack[m].next + 1] \in Frames
    BY <1>2, <1>3 DEF Frames
  <2> DEFINE f == [stack[m] EXCEPT !.next = stack[m].next + 1]
  <2>3. f.node = stack[m].node /\ f.next = stack[m].next + 1
    BY <1>2 DEF Frames
  <2> HIDE DEF f
  <2>4. rest = [stack EXCEPT ![m] = f] /\ f \in Frames
    BY <2>1, <2>2 DEF f
  <2> HIDE DEF rest
  <2>5. rest \in Seq(Frames) /\ Len(rest) = m
        /\ \A i \in 1..m : rest[i] = IF i = m THEN f ELSE stack[i]
    BY <1>2, <2>4
  <2>6. QED
    BY <1>2, <2>3, <2>5
<1>7. \/ /\ dep \in visiting /\ stack' = rest /\ UNCHANGED visiting
         /\ cycles_found' = Append(cycles_found, CycleAt(dep))
      \/ /\ dep \in visited /\ stack' = rest
         /\ UNCHANGED <<visiting, cycles_found>>
      \/ /\ dep \notin visited \cup visiting
         /\ stack' = Append(rest, Frame(dep))
         /\ visiting' = visiting \cup {dep}
         /\ UNCHANGED cycles_found
  BY DEF Descend
<1> HIDE DEF dep, rest, top, m
<1>8. /\ m = Len(stack) /\ top = Last(stack) /\ dep = needs[top.node][top.next]
  BY DEF dep, top, m
<1> DEFINE node == top.node
           next == top.next
<1>9. /\ m = Len(stack) /\ Last(stack) = stack[m]
      /\ stack[m].node = node /\ stack[m].next = next
      /\ next <= Len(needs[node]) /\ needs[node][next] = dep /\ dep \in NeedsOf(node)
  BY <1>1, <1>2, <1>5, <1>8
<1>10. /\ Len(rest) = m
       /\ \A i \in 1..m : /\ rest[i].node = stack[i].node
                          /\ rest[i].next = IF i = m THEN next + 1 ELSE stack[i].next
  BY <1>6
<1>11. /\ m \in Nat \ {0} /\ node \in Jobs /\ next \in Nat \ {0} /\ dep \in Jobs
       /\ rest \in Seq(Frames)
  BY <1>2, <1>3, <1>5, <1>6
<1> HIDE DEF node, next
<1>12. DescendsTo(m, node, next, dep, rest)
  BY <1>1, <1>7, <1>9, <1>10 DEF DescendsTo
<1>13. QED
  BY <1>11, <1>12

\* A call looks at its next need: a cycle, a visited job, or a new call.
LEMMA DescendKeeps == ASSUME PlanIInv, Descend PROVE PlanIInv'
<1> USE DEF PlanIInv
<1>0. PICK m, next \in Nat \ {0}, node, dep \in Jobs, rest \in Seq(Frames) :
        DescendsTo(m, node, next, dep, rest)
  BY DescendEffect
<1>1. /\ m = Len(stack) /\ Last(stack) = stack[m]
      /\ stack[m].node = node /\ stack[m].next = next
      /\ next <= Len(needs[node]) /\ needs[node][next] = dep /\ dep \in NeedsOf(node)
      /\ Len(rest) = m
      /\ \A i \in 1..m : /\ rest[i].node = stack[i].node
                         /\ rest[i].next = IF i = m THEN next + 1 ELSE stack[i].next
      /\ phase = "dfs" /\ UNCHANGED <<needs, phase, root, visited>>
  BY <1>0 DEF DescendsTo
<1>2. /\ stack \in Seq(Frames) /\ DOMAIN stack = 1..m /\ DOMAIN rest = 1..m
      /\ \A i \in 1..m : stack[i].node \in Jobs /\ stack[i].next \in Nat \ {0}
  <2>1. stack \in Seq(Frames) /\ DOMAIN stack = 1..m /\ DOMAIN rest = 1..m
        /\ \A i \in 1..m : stack[i] \in Frames
    BY <1>1 DEF PlanTypeOK
  <2>2. QED
    BY <2>1 DEF Frames
\* What Calls and PastIsVisited say of the calls, of rest.
<1>3. /\ visiting = {rest[i].node : i \in 1..m}
      /\ \A i, k \in 1..m : rest[i].node = rest[k].node => i = k
      /\ visiting \cap visited = {}
      /\ \A i \in 1..m : rest[i].next <= Len(needs[rest[i].node]) + 1
      /\ \A i \in 1..(m - 1) : /\ rest[i].next > 1
                                /\ needs[rest[i].node][rest[i].next - 1] = rest[i + 1].node
  <2>1. visiting = {rest[i].node : i \in 1..m}
    <3>1. visiting = {stack[i].node : i \in 1..m}
      BY <1>2 DEF Calls
    <3>2. \A i \in 1..m : rest[i].node = stack[i].node
      BY <1>1
    <3>3. QED
      BY <3>1, <3>2
  <2>2. \A i, k \in 1..m : rest[i].node = rest[k].node => i = k
    BY <1>1, <1>2 DEF Calls
  <2>3. ASSUME NEW i \in 1..m PROVE rest[i].next <= Len(needs[rest[i].node]) + 1
    <3>1. needs[node] \in Seq(Jobs)
      BY DEF PlanTypeOK
    <3>2. CASE i = m
      BY <1>1, <3>1, <3>2
    <3>3. CASE i # m
      BY <1>1, <1>2, <3>3 DEF Calls
    <3>4. QED
      BY <3>2, <3>3
  <2>4. ASSUME NEW i \in 1..(m - 1)
        PROVE  rest[i].next > 1 /\ needs[rest[i].node][rest[i].next - 1] = rest[i + 1].node
    <3>1. i \in 1..m /\ i + 1 \in 1..m /\ i # m
      OBVIOUS
    <3>2. stack[i].next > 1 /\ needs[stack[i].node][stack[i].next - 1] = stack[i + 1].node
      BY <1>1 DEF Calls
    <3>3. QED
      BY <1>1, <3>1, <3>2
  <2>5. QED
    BY <2>1, <2>2, <2>3, <2>4 DEF Calls
<1>4. rest[m].next = next + 1 /\ rest[m].node = node /\ needs[rest[m].node][next] = dep
  <2>1. m \in 1..m
    OBVIOUS
  <2>2. rest[m].next = next + 1 /\ rest[m].node = node
    BY <1>1, <2>1
  <2>3. QED
    BY <1>1, <2>2
<1>5. cycles_found = <<>> =>
        \A i \in 1..m : \A k \in 1..(rest[i].next - 1) :
          \/ needs[rest[i].node][k] \in visited
          \/ i < m /\ k = rest[i].next - 1
          \/ i = m /\ k = next
  <2>1. SUFFICES ASSUME cycles_found = <<>>, NEW i \in 1..m, NEW k \in 1..(rest[i].next - 1)
                 PROVE  \/ needs[rest[i].node][k] \in visited
                        \/ i < m /\ k = rest[i].next - 1
                        \/ i = m /\ k = next
    OBVIOUS
  <2>2. CASE i = m
    <3>1. k \in 1..next
      BY <1>4, <2>2
    <3>2. k # next => k \in 1..(stack[m].next - 1)
      BY <1>1, <3>1
    <3>3. ASSUME k # next PROVE needs[node][k] \in visited
      <4>1. m \in DOMAIN stack /\ k \in 1..(stack[m].next - 1)
        BY <1>2, <3>2, <3>3
      <4>2. \/ needs[stack[m].node][k] \in visited
            \/ m < Len(stack) /\ k = stack[m].next - 1
        BY <2>1, <4>1 DEF PastIsVisited
      <4>3. m = Len(stack) /\ stack[m].node = node
        BY <1>1
      <4>4. QED
        BY <4>2, <4>3
    <3>4. QED
      BY <1>4, <2>2, <3>3
  <2>3. CASE i # m
    <3>1. i < m /\ k \in 1..(stack[i].next - 1)
      BY <1>1, <2>3
    <3>2. needs[stack[i].node][k] \in visited \/ k = stack[i].next - 1
      BY <1>1, <1>2, <2>1, <3>1 DEF PastIsVisited
    <3>3. QED
      BY <1>1, <2>3, <3>1, <3>2
  <2>4. QED
    BY <2>2, <2>3
<1>5a. stack' = rest /\ UNCHANGED visiting => Calls'
  <2>1. SUFFICES ASSUME stack' = rest, UNCHANGED visiting PROVE Calls'
    OBVIOUS
  <2>2. needs' = needs /\ visited' = visited /\ Len(rest) = m
    BY <1>1
  <2>3. QED
    <3> DEFINE s == stack'
    <3>1. s = rest /\ Len(s) = m /\ DOMAIN s = 1..m /\ visiting' = visiting
      BY <1>2, <2>1, <2>2
    <3> HIDE DEF s
    <3>2. /\ visiting' = {s[i].node : i \in 1..m} /\ visiting' \cap visited' = {}
          /\ \A i, k \in 1..m : s[i].node = s[k].node => i = k
      BY <1>3, <2>2, <3>1
    <3>3. /\ \A i \in 1..m : s[i].next <= Len(needs'[s[i].node]) + 1
          /\ \A i \in 1..(m - 1) : /\ s[i].next > 1
                                    /\ needs'[s[i].node][s[i].next - 1] = s[i + 1].node
      BY <1>3, <2>2, <3>1
    <3>4. QED
      BY <3>1, <3>2, <3>3 DEF Calls, s
<1>6. CASE dep \in visiting /\ stack' = rest /\ UNCHANGED visiting
           /\ cycles_found' = Append(cycles_found, CycleAt(dep))
  <2>1. stack # <<>>
    BY <1>1, <1>2
  <2>2. CycleAt(dep) \in Seq(Jobs) /\ IsCycle(CycleAt(dep))
    BY <1>1, <1>6, <2>1, CycleAtIsReal
  <2> DEFINE c == CycleAt(dep)
  <2> HIDE DEF c
  <2>3. c \in Seq(Jobs) /\ IsCycle(c) /\ cycles_found' = Append(cycles_found, c)
    BY <1>6, <2>2 DEF c
  <2>4. cycles_found \in Seq(Seq(Jobs))
    BY DEF PlanTypeOK
  <2>5. cycles_found' \in Seq(Seq(Jobs)) /\ cycles_found' # <<>>
        /\ Range(cycles_found') \subseteq Range(cycles_found) \cup {c}
    <3>1. /\ cycles_found' \in Seq(Seq(Jobs)) /\ Len(cycles_found') = Len(cycles_found) + 1
          /\ \A i \in 1..Len(cycles_found') :
               cycles_found'[i] = IF i = Len(cycles_found) + 1 THEN c ELSE cycles_found[i]
      BY <2>3, <2>4
    <3>2. /\ DOMAIN cycles_found' = 1..(Len(cycles_found) + 1)
          /\ DOMAIN cycles_found = 1..Len(cycles_found) /\ Len(cycles_found) \in Nat
      BY <2>4, <3>1
    <3>3. \A i \in DOMAIN cycles_found' :
            cycles_found'[i] = c \/ (i \in DOMAIN cycles_found /\ cycles_found'[i] = cycles_found[i])
      BY <3>1, <3>2
    <3>4. QED
      BY <3>1, <3>2, <3>3 DEF Range
  <2>6. PlanTypeOK'
    BY <1>1, <1>6, <2>5 DEF PlanTypeOK
  <2>7. Calls'
    BY <1>5a, <1>6
  <2>8. PastIsVisited' /\ VisitedHasNoCycle'
    BY <2>5 DEF PastIsVisited, VisitedHasNoCycle
  <2>9. Progress'
    BY <1>1, <1>6 DEF Progress
  <2>10. CyclesAreReal'
    BY <1>1, <2>3, <2>5 DEF CyclesAreReal, IsCycle, NeedsOf
  <2>11. QED
    BY <2>6, <2>7, <2>8, <2>9, <2>10
<1>7. CASE dep \in visited /\ stack' = rest /\ UNCHANGED <<visiting, cycles_found>>
  <2>1. PlanTypeOK'
    BY <1>1, <1>7 DEF PlanTypeOK
  <2>2. Calls'
    BY <1>5a, <1>7
  <2>3. PastIsVisited'
    BY <1>1, <1>2, <1>4, <1>5, <1>7 DEF PastIsVisited
  <2>4. VisitedHasNoCycle' /\ CyclesAreReal'
    BY <1>1, <1>7 DEF VisitedHasNoCycle, CyclesAreReal, IsCycle, NeedsOf
  <2>5. Progress'
    BY <1>1, <1>7 DEF Progress
  <2>6. QED
    BY <2>1, <2>2, <2>3, <2>4, <2>5
<1>8. CASE /\ dep \notin visited \cup visiting
           /\ stack' = Append(rest, Frame(dep))
           /\ visiting' = visiting \cup {dep} /\ UNCHANGED cycles_found
  <2> DEFINE s == stack'
  <2>1. Frame(dep) \in Frames /\ Frame(dep).node = dep /\ Frame(dep).next = 1
    BY DEF Frame, Frames
  <2>2. /\ s \in Seq(Frames) /\ Len(s) = m + 1 /\ DOMAIN s = 1..(m + 1)
        /\ s[m + 1] = Frame(dep) /\ \A i \in 1..m : s[i] = rest[i]
    BY <1>1, <1>2, <1>8, <2>1
  <2> HIDE DEF s
  <2>3. PlanTypeOK'
    BY <1>1, <1>8, <2>2 DEF PlanTypeOK, s
  <2>4. Calls'
    <3>1. visiting' = {s[i].node : i \in 1..(m + 1)}
      <4>1. visiting' = {rest[i].node : i \in 1..m} \cup {dep}
        BY <1>3, <1>8
      <4>2. QED
        BY <4>1, <2>1, <2>2
    <3>2. \A i, k \in 1..(m + 1) : s[i].node = s[k].node => i = k
      <4>1. \A i \in 1..m : rest[i].node # dep
        BY <1>3, <1>8
      <4>2. \A i \in 1..(m + 1) : i = m + 1 \/ i \in 1..m
        BY <1>1
      <4>3. s[m + 1].node = dep /\ \A i \in 1..m : s[i].node = rest[i].node
        BY <2>1, <2>2
      <4>4. \A i, k \in 1..m : rest[i].node = rest[k].node => i = k
        BY <1>3
      <4>5. QED
        BY <4>1, <4>2, <4>3, <4>4
    <3>3. visiting' \cap visited' = {}
      BY <1>1, <1>3, <1>8
    <3>4. ASSUME NEW i \in 1..(m + 1) PROVE s[i].next <= Len(needs[s[i].node]) + 1
      <4>1. CASE i = m + 1
        <5>1. needs[dep] \in Seq(Jobs)
          BY DEF PlanTypeOK
        <5>2. QED
          BY <2>1, <2>2, <4>1, <5>1
      <4>2. CASE i # m + 1
        <5>1. i \in 1..m /\ s[i] = rest[i]
          BY <2>2, <4>2
        <5>2. QED
          BY <1>3, <5>1
      <4>3. QED
        BY <4>1, <4>2
    <3>5. ASSUME NEW i \in 1..m
          PROVE  s[i].next > 1 /\ needs[s[i].node][s[i].next - 1] = s[i + 1].node
      <4>1. CASE i = m
        BY <1>1, <1>4, <2>1, <2>2, <4>1
      <4>2. CASE i # m
        <5>1. i \in 1..(m - 1) /\ i + 1 \in 1..m
          BY <4>2
        <5>2. s[i] = rest[i] /\ s[i + 1] = rest[i + 1]
          BY <2>2, <5>1
        <5>3. QED
          BY <1>3, <5>1, <5>2
      <4>3. QED
        BY <4>1, <4>2
    <3>6. Len(s) = m + 1 /\ DOMAIN s = 1..(m + 1) /\ Len(s) - 1 = m /\ needs' = needs
      BY <1>1, <2>2
    <3>7. /\ visiting' = {s[i].node : i \in DOMAIN s}
          /\ \A i, k \in DOMAIN s : s[i].node = s[k].node => i = k
          /\ \A i \in DOMAIN s : s[i].next <= Len(needs'[s[i].node]) + 1
          /\ \A i \in 1..(Len(s) - 1) :
               s[i].next > 1 /\ needs'[s[i].node][s[i].next - 1] = s[i + 1].node
      BY <3>1, <3>2, <3>4, <3>5, <3>6
    <3>8. QED
      BY <3>3, <3>7 DEF Calls, s
  <2>5. PastIsVisited'
    <3>1. SUFFICES ASSUME cycles_found = <<>>, NEW i \in 1..(m + 1), NEW k \in 1..(s[i].next - 1)
                   PROVE  needs[s[i].node][k] \in visited \/ (i < m + 1 /\ k = s[i].next - 1)
      <4>1. needs' = needs /\ visited' = visited /\ cycles_found' = cycles_found
        BY <1>1, <1>8
      <4>2. Len(s) = m + 1 /\ DOMAIN s = 1..(m + 1) /\ stack' = s
        BY <2>2 DEF s
      <4>3. QED
        BY <4>1, <4>2 DEF PastIsVisited
    <3>2. CASE i = m + 1
      BY <2>1, <2>2, <3>2
    <3>3. CASE i # m + 1
      <4>1. i \in 1..m /\ s[i] = rest[i] /\ k \in 1..(rest[i].next - 1)
        BY <2>2, <3>1, <3>3
      <4>2. \/ needs[rest[i].node][k] \in visited
            \/ i < m /\ k = rest[i].next - 1
            \/ i = m /\ k = next
        BY <1>5, <3>1, <4>1
      <4>3. i = m => rest[i].next - 1 = next
        BY <1>0, <1>4
      <4>4. QED
        BY <4>1, <4>2, <4>3
    <3>4. QED
      BY <3>2, <3>3
  <2>6. VisitedHasNoCycle' /\ CyclesAreReal'
    BY <1>1, <1>8 DEF VisitedHasNoCycle, CyclesAreReal, IsCycle, NeedsOf
  <2>7. Progress'
    BY <1>1, <1>8 DEF Progress
  <2>8. QED
    BY <2>3, <2>4, <2>5, <2>6, <2>7
<1>9. QED
  BY <1>0, <1>6, <1>7, <1>8 DEF DescendsTo

\* The top call returns: its job has become visited.
LEMMA ReturnFromNodeKeeps == ASSUME PlanIInv, ReturnFromNode PROVE PlanIInv'
<1> USE DEF PlanIInv
<1> DEFINE m == Len(stack)
           s == stack'
           n == stack[m].node
<1>1. /\ phase = "dfs" /\ stack # <<>> /\ Last(stack) = stack[m] /\ s = SubSeq(stack, 1, m - 1)
      /\ stack[m].next > Len(needs[n])
      /\ visiting' = visiting \ {n} /\ visited' = visited \cup {n}
      /\ UNCHANGED <<needs, phase, root, cycles_found>>
  BY DEF ReturnFromNode, Last, Front
<1>2. /\ stack \in Seq(Frames) /\ m \in Nat \ {0} /\ DOMAIN stack = 1..m
      /\ \A i \in 1..m : stack[i] \in Frames
  BY <1>1 DEF PlanTypeOK
<1>3. \A i \in 1..m : stack[i].node \in Jobs /\ stack[i].next \in Nat \ {0}
  BY <1>2 DEF Frames
<1> HIDE DEF m
<1>4. m \in 1..m /\ n \in Jobs /\ needs[n] \in Seq(Jobs)
  BY <1>2, <1>3 DEF PlanTypeOK
<1>5. s \in Seq(Frames) /\ Len(s) = m - 1 /\ DOMAIN s = 1..(m - 1)
      /\ \A i \in 1..(m - 1) : s[i] = stack[i]
  <2> DEFINE shorter == SubSeq(stack, 1, m - 1)
  <2>1. /\ shorter \in Seq(Frames) /\ Len(shorter) = m - 1
        /\ \A i \in 1..(m - 1) : shorter[i] = stack[i]
    BY <1>2 DEF m
  <2> HIDE DEF shorter
  <2>2. s = shorter
    BY <1>1 DEF shorter
  <2> HIDE DEF s
  <2>3. QED
    BY <2>1, <2>2
<1> HIDE DEF s
<1>6. n \in visiting /\ n \notin visited
  BY <1>2, <1>4 DEF Calls
<1>7. PlanTypeOK'
  BY <1>1, <1>4, <1>5 DEF PlanTypeOK, s
<1>8. Calls'
  <2>1. visiting' = {s[i].node : i \in 1..(m - 1)}
    <3>1. visiting = {stack[i].node : i \in 1..m}
      BY <1>2 DEF Calls
    <3>2. \A i \in 1..(m - 1) : stack[i].node # n /\ i \in 1..m
      BY <1>2, <1>4 DEF Calls
    <3>3. \A i \in 1..m : i = m \/ i \in 1..(m - 1)
      BY <1>2
    <3>4. QED
      BY <1>1, <1>5, <3>1, <3>2, <3>3
  <2>2. \A i, k \in 1..(m - 1) : s[i].node = s[k].node => i = k
    <3>1. \A i \in 1..(m - 1) : s[i] = stack[i] /\ i \in DOMAIN stack
      BY <1>2, <1>5
    <3>2. \A i, k \in DOMAIN stack : stack[i].node = stack[k].node => i = k
      BY DEF Calls
    <3>3. QED
      BY <3>1, <3>2
  <2>3. visiting' \cap visited' = {}
    BY <1>1 DEF Calls
  <2>4. \A i \in 1..(m - 1) : s[i].next <= Len(needs[s[i].node]) + 1
    BY <1>2, <1>5 DEF Calls
  <2>5. ASSUME NEW i \in 1..(m - 2)
        PROVE  s[i].next > 1 /\ needs[s[i].node][s[i].next - 1] = s[i + 1].node
    <3>1. i \in 1..(m - 1) /\ i + 1 \in 1..(m - 1)
      BY <1>2
    <3>2. stack[i].next > 1 /\ needs[stack[i].node][stack[i].next - 1] = stack[i + 1].node
      BY <3>1 DEF Calls, m
    <3>3. QED
      BY <1>5, <3>1, <3>2
  <2>6. (m - 1) - 1 = m - 2
    BY <1>2
  <2>7. QED
    BY <1>1, <1>5, <2>1, <2>2, <2>3, <2>4, <2>5, <2>6 DEF Calls, s
\* What the call that returns has come past is all it needs.
<1>9. cycles_found = <<>> => NeedsOf(n) \subseteq visited
  <2>1. SUFFICES ASSUME cycles_found = <<>>, NEW k \in DOMAIN needs[n] PROVE needs[n][k] \in visited
    BY DEF NeedsOf, Range
  <2>2. k \in 1..(stack[m].next - 1)
    BY <1>1, <1>3, <1>4
  <2>3. \/ needs[stack[m].node][k] \in visited
        \/ m < Len(stack) /\ k = stack[m].next - 1
    BY <1>2, <1>4, <2>1, <2>2 DEF PastIsVisited
  <2>4. QED
    BY <1>2, <2>3 DEF m
<1>10. PastIsVisited'
  <2>1. SUFFICES ASSUME cycles_found = <<>>, NEW i \in 1..(m - 1), NEW k \in 1..(s[i].next - 1)
                 PROVE  needs[s[i].node][k] \in visited' \/ (i < m - 1 /\ k = s[i].next - 1)
    <3>1. needs' = needs /\ cycles_found' = cycles_found /\ Len(s) = m - 1 /\ DOMAIN s = 1..(m - 1)
      BY <1>1, <1>5
    <3>2. QED
      BY <3>1 DEF PastIsVisited, s
  <2>2. i \in 1..m /\ s[i] = stack[i] /\ k \in 1..(stack[i].next - 1)
    BY <1>2, <1>5
  <2>3. needs[stack[i].node][k] \in visited \/ k = stack[i].next - 1
    BY <1>2, <2>1, <2>2 DEF PastIsVisited
  <2>4. CASE i = m - 1 /\ k = stack[i].next - 1
    <3>1. needs[stack[i].node][stack[i].next - 1] = stack[i + 1].node /\ i + 1 = m
      BY <1>2, <2>4 DEF Calls, m
    <3>2. QED
      BY <1>1, <2>2, <2>4, <3>1
  <2>5. QED
    BY <1>1, <1>2, <2>2, <2>3, <2>4
<1>11. VisitedHasNoCycle'
  <2>1. SUFFICES ASSUME cycles_found = <<>>
                 PROVE  /\ \A j \in visited' : NeedsOf(j) \subseteq visited'
                        /\ \A S \in SUBSET visited' :
                             S # {} => \E j \in S : NeedsOf(j) \cap S = {}
    BY <1>1 DEF VisitedHasNoCycle, NeedsOf
  <2>2. \A j \in visited : NeedsOf(j) \subseteq visited
    BY <2>1 DEF VisitedHasNoCycle
  <2>3. \A j \in visited' : NeedsOf(j) \subseteq visited
    BY <1>1, <1>9, <2>1, <2>2
  <2>4. ASSUME NEW S \in SUBSET visited', S # {} PROVE \E j \in S : NeedsOf(j) \cap S = {}
    <3> DEFINE R == S \ {n}
    <3>1. R \in SUBSET visited
      BY <1>1
    <3>2. CASE R = {}
      <4>1. S = {n} /\ n \in visited'
        BY <1>1, <2>4, <3>2
      <4>2. NeedsOf(n) \cap S = {}
        BY <1>6, <2>3, <4>1
      <4>3. QED
        BY <4>1, <4>2
    <3>3. CASE R # {}
      <4>1. PICK j \in R : NeedsOf(j) \cap R = {}
        BY <2>1, <3>1, <3>3 DEF VisitedHasNoCycle
      <4>2. n \notin NeedsOf(j)
        BY <1>6, <2>2, <3>1
      <4>3. QED
        BY <4>1, <4>2
    <3>4. QED
      BY <3>2, <3>3
  <2>5. QED
    BY <1>1, <2>3, <2>4
<1>12. Progress'
  BY <1>1, <1>6 DEF Progress
<1>13. CyclesAreReal'
  BY <1>1 DEF CyclesAreReal, IsCycle, NeedsOf
<1>14. QED
  BY <1>7, <1>8, <1>10, <1>11, <1>12, <1>13

\* What no step after the search touches.
Searched == <<needs, root, stack, visiting, visited, cycles_found>>

\* The search is over: the constructor raises if it has found a cycle.
LEMMA SearchDoneKeeps == ASSUME PlanIInv, SearchDone PROVE PlanIInv'
<1>1. /\ phase = "dfs" /\ stack = <<>> /\ root \notin Jobs /\ UNCHANGED Searched
      /\ phase' = IF cycles_found # <<>> THEN "cycle_error" ELSE "kahn"
  BY DEF SearchDone, Searched, dfs
<1>2. root = N + 1
  BY SizeAssumption, <1>1 DEF PlanIInv, PlanTypeOK, Jobs
<1>3. PlanTypeOK'
  BY <1>1 DEF PlanIInv, PlanTypeOK, Searched, Phases, Final
<1>4. Calls' /\ PastIsVisited' /\ VisitedHasNoCycle' /\ CyclesAreReal'
  BY <1>1 DEF PlanIInv, Calls, PastIsVisited, VisitedHasNoCycle, CyclesAreReal, IsCycle, NeedsOf,
    Searched
<1>5. Progress'
  BY <1>1, <1>2 DEF PlanIInv, Progress, Searched
<1>6. QED
  BY <1>3, <1>4, <1>5 DEF PlanIInv

\* Sorting and planning change nothing of it.
LEMMA LaterStepsKeep ==
  ASSUME PlanIInv, UNCHANGED Searched,
         \/ phase' = phase
         \/ /\ phase \in {"kahn", "plan"}
            /\ phase' \in {"plan", "sort_error", "deadlock_error", "ready"}
  PROVE  PlanIInv'
<1>1. PlanTypeOK'
  BY DEF PlanIInv, PlanTypeOK, Searched, Phases, Final
<1>2. Calls' /\ PastIsVisited' /\ VisitedHasNoCycle' /\ CyclesAreReal'
  BY DEF PlanIInv, Calls, PastIsVisited, VisitedHasNoCycle, CyclesAreReal, IsCycle, NeedsOf, Searched
<1>3. Progress'
  BY DEF PlanIInv, Progress, Searched
<1>4. QED
  BY <1>1, <1>2, <1>3 DEF PlanIInv

-----------------------------------------------------------------------------
(* Theorems *)

\* PlanIInv holds throughout the constructor and get_execution_plan.
THEOREM PlanInvariance ==
  PlanSpec => []PlanIInv
<1>1. ASSUME PlanIInv, [PlanNext]_planVars PROVE PlanIInv'
  <2>1. CASE StartSearch
    BY <1>1, <2>1, StartSearchKeeps
  <2>2. CASE Descend
    BY <1>1, <2>2, DescendKeeps
  <2>3. CASE ReturnFromNode
    BY <1>1, <2>3, ReturnFromNodeKeeps
  <2>4. CASE SearchDone
    BY <1>1, <2>4, SearchDoneKeeps
  <2>5. CASE SortNext
    BY <1>1, <2>5, LaterStepsKeep DEF SortNext, Searched, dfs
  <2>6. CASE SortDone
    BY <1>1, <2>6, LaterStepsKeep DEF SortDone, Searched, dfs
  <2>7. CASE NextLevel
    BY <1>1, <2>7, LaterStepsKeep DEF NextLevel, Searched, dfs
  <2>8. CASE PlanDone
    BY <1>1, <2>8, LaterStepsKeep DEF PlanDone, Searched, dfs
  <2>9. CASE UNCHANGED planVars
    BY <1>1, <2>9, LaterStepsKeep DEF planVars, Searched, dfs
  <2>10. QED
    BY <1>1, <2>1, <2>2, <2>3, <2>4, <2>5, <2>6, <2>7, <2>8, <2>9 DEF PlanNext, Step
<1>2. PlanInit => PlanIInv
  BY PlanInitInvariant
<1>3. QED
  BY <1>1, <1>2, PTL DEF PlanSpec

\* What the invariant says of the errors and of the graphs that pass.
LEMMA SearchIsExact == ASSUME PlanIInv PROVE RaisesExactlyOnCycles
<1>1. ASSUME phase = "cycle_error" PROVE ~ Acyclic
  <2>1. cycles_found # <<>> /\ cycles_found \in Seq(Seq(Jobs))
    BY <1>1 DEF PlanIInv, Progress, PlanTypeOK
  <2>2. cycles_found[1] \in Range(cycles_found) /\ cycles_found[1] \in Seq(Jobs)
    BY <2>1 DEF Range
  <2> DEFINE c == cycles_found[1]
             S == {c[i] : i \in 1..(Len(c) - 1)}
  <2>3. c \in Seq(Jobs) /\ IsCycle(c)
    BY <2>2 DEF PlanIInv, CyclesAreReal
  <2> HIDE DEF c
  <2>4. Len(c) \in Nat /\ Len(c) > 1 /\ c[1] = c[Len(c)]
        /\ \A i \in 1..(Len(c) - 1) : c[i] \in Jobs /\ c[i + 1] \in NeedsOf(c[i])
    BY <2>3 DEF IsCycle, Last
  <2>5. S \in SUBSET Jobs /\ c[1] \in S
    BY <2>4
  <2>6. ASSUME NEW i \in 1..(Len(c) - 1) PROVE c[i + 1] \in S
    <3>1. CASE i = Len(c) - 1
      BY <2>4, <2>5, <3>1
    <3>2. CASE i # Len(c) - 1
      BY <2>4, <3>2
    <3>3. QED
      BY <3>1, <3>2
  <2>7. \A j \in S : NeedsOf(j) \cap S # {}
    BY <2>4, <2>6
  <2>8. QED
    BY <2>5, <2>7 DEF Acyclic
<1>2. ASSUME phase \in {"kahn", "plan", "ready"} PROVE Acyclic
  <2>1. stack = <<>> /\ root = N + 1 /\ cycles_found = <<>>
    BY <1>2 DEF PlanIInv, Progress
  <2>2. visiting = {}
    BY <2>1 DEF PlanIInv, Calls
  <2>3. visited = Jobs
    <3>1. 1..N \subseteq visited \cup visiting
      <4>1. 1..(root - 1) \subseteq visited \cup visiting
        BY DEF PlanIInv, Progress
      <4>2. root - 1 = N
        BY SizeAssumption, <2>1
      <4>3. QED
        BY <4>1, <4>2
    <3>2. visited \subseteq 1..N
      BY DEF PlanIInv, PlanTypeOK, Jobs
    <3>3. QED
      BY <2>2, <3>1, <3>2 DEF Jobs
  <2>4. QED
    BY <2>1, <2>3 DEF PlanIInv, VisitedHasNoCycle, Acyclic
<1>3. QED
  BY <1>1, <1>2 DEF RaisesExactlyOnCycles, PlanIInv, CyclesAreReal, IsCycle

\* The constructor raises for exactly the pipelines with a cycle, and what its
\* message calls a cycle is one (_detect_cycles).
THEOREM CyclesFoundExactly ==
  PlanSpec => []RaisesExactlyOnCycles
<1>1. PlanIInv => RaisesExactlyOnCycles
  BY SearchIsExact
<1>2. QED
  BY PlanInvariance, <1>1, PTL

-----------------------------------------------------------------------------
(* The sort and the plan: their invariant *)

Sorted == Range(sorted_jobs)

\* The needs of j that are not sorted, by their places in its list.
Waiting(j) == {i \in DOMAIN needs[j] : needs[j][i] \notin Sorted}

Placed(k) == UNION {Range(levels[m]) : m \in 1..k}

LevelsTypeOK ==
  /\ in_degree \in [Jobs -> Int]
  /\ queue \in Seq(Jobs) /\ sorted_jobs \in Seq(Jobs)
  /\ levels \in Seq(Seq(Jobs)) /\ processed \in SUBSET Jobs

\* What each phase begins with; the two errors after the search do not happen.
Untouched ==
  /\ phase \in {"dfs", "cycle_error", "kahn", "plan", "ready"}
  /\ phase \in {"dfs", "cycle_error"} => sorted_jobs = <<>>
  /\ phase \in {"dfs", "cycle_error", "kahn"} => levels = <<>> /\ processed = {}

\* in_degree counts what a job waits for, no sorted job waits, and the queue
\* holds the other jobs that do not, each once.
QueueIsRight ==
  phase = "kahn" =>
    /\ IsInjective(sorted_jobs) /\ IsInjective(queue)
    /\ \A j \in Jobs : in_degree[j] = Cardinality(Waiting(j))
    /\ \A j \in Sorted : Waiting(j) = {}
    /\ Range(queue) = {j \in Jobs \ Sorted : Waiting(j) = {}}

AllSorted ==
  phase \in {"plan", "ready"} => Sorted = Jobs /\ IsInjective(sorted_jobs)

\* A job is in one level, at one place of it.
OnceInLevels ==
  \A k, m \in DOMAIN levels : \A i \in DOMAIN levels[k], l \in DOMAIN levels[m] :
    levels[k][i] = levels[m][l] => k = m /\ i = l

\* The levels so far are greedy, and no job was left out of one it fitted in.
LevelsAreGreedy ==
  /\ processed = Placed(Len(levels))
  /\ OnceInLevels
  /\ \A k \in 1..Len(levels) : \A j \in Range(levels[k]) :
       /\ NeedsOf(j) \subseteq Placed(k - 1)
       /\ k > 1 => NeedsOf(j) \cap Range(levels[k - 1]) # {}
  /\ levels # <<>> =>
       \A j \in Jobs \ processed : ~ NeedsOf(j) \subseteq Placed(Len(levels) - 1)
  /\ phase = "ready" => processed = Jobs

LevelsIInv ==
  /\ LevelsTypeOK /\ Untouched /\ QueueIsRight /\ AllSorted /\ LevelsAreGreedy

-----------------------------------------------------------------------------
(* Sequences: what is kept of them *)

UpTo(P, i) == {m \in P : m <= i}

\* Counting the places up to each one numbers them.
LEMMA PlacesAreNumbered ==
  ASSUME NEW n \in Nat, NEW P \in SUBSET (1..n)
  PROVE  /\ Cardinality(P) \in Nat
         /\ \A i \in P : Cardinality(UpTo(P, i)) \in 1..Cardinality(P)
         /\ \A k \in 1..Cardinality(P) : \E i \in P : Cardinality(UpTo(P, i)) = k
         /\ \A i, k \in P : Cardinality(UpTo(P, i)) = Cardinality(UpTo(P, k)) => i = k
<1> DEFINE c == Cardinality(P)
           f == [i \in P |-> Cardinality(UpTo(P, i))]
<1>1. IsFiniteSet(P) /\ c \in Nat
  <2>1. IsFiniteSet(1..n)
    BY FS_Interval
  <2>2. IsFiniteSet(P)
    BY <2>1, FS_Subset
  <2>3. QED
    BY <2>2, FS_CardinalityType
<1>2. ASSUME NEW i \in P
      PROVE  IsFiniteSet(UpTo(P, i)) /\ Cardinality(UpTo(P, i)) \in 1..c
  <2>1. UpTo(P, i) \in SUBSET P /\ i \in UpTo(P, i)
    BY DEF UpTo
  <2>2. IsFiniteSet(UpTo(P, i)) /\ Cardinality(UpTo(P, i)) <= c
    BY <1>1, <2>1, FS_Subset
  <2>3. Cardinality(UpTo(P, i)) \in Nat
    BY <2>2, FS_CardinalityType
  <2>4. Cardinality(UpTo(P, i)) # 0
    BY <2>1, <2>2, FS_EmptySet
  <2>5. QED
    BY <1>1, <2>2, <2>3, <2>4
<1>3. ASSUME NEW i \in P, NEW k \in P, i < k
      PROVE  Cardinality(UpTo(P, i)) # Cardinality(UpTo(P, k))
  <2>1. UpTo(P, i) \in SUBSET UpTo(P, k)
    <3>1. ASSUME NEW m \in P, m <= i PROVE m <= k
      <4>1. m \in Int /\ i \in Int /\ k \in Int
        OBVIOUS
      <4>2. QED
        BY <1>3, <3>1, <4>1
    <3>2. QED
      BY <3>1 DEF UpTo
  <2>2. k \in UpTo(P, k) /\ k \notin UpTo(P, i)
    BY <1>3 DEF UpTo
  <2>3. QED
    BY <1>2, <2>1, <2>2, FS_Subset
<1>4. f \in Injection(P, 1..c)
  <2>1. f \in [P -> 1..c]
    BY <1>2
  <2>2. ASSUME NEW i \in P, NEW k \in P, f[i] = f[k] PROVE i = k
    <3>1. ~ i < k /\ ~ k < i
      BY <1>3, <2>2
    <3>2. QED
      BY <3>1
  <2>3. QED
    BY <2>1, <2>2 DEF Injection, IsInjective
<1>5. IsFiniteSet(1..c) /\ Cardinality(1..c) = c
  BY <1>1, FS_Interval
<1>6. f \in Surjection(P, 1..c)
  BY <1>4, <1>5, FS_Injection
<1>7. \A k \in 1..c : \E i \in P : f[i] = k
  BY <1>6 DEF Surjection
<1>8. \A i, k \in P : f[i] = f[k] => i = k
  BY <1>4 DEF Injection, IsInjective
<1>9. QED
  BY <1>1, <1>2, <1>7, <1>8

\* Filter keeps the members it is asked for, as often as they were there.
LEMMA FilterIs ==
  ASSUME NEW S, NEW s \in Seq(S), NEW kept
  PROVE  /\ Filter(s, kept) \in Seq(S)
         /\ Range(Filter(s, kept)) = {x \in Range(s) : x \in kept}
         /\ IsInjective(s) => IsInjective(Filter(s, kept))
<1> DEFINE P == {i \in DOMAIN s : s[i] \in kept}
           c == Cardinality(P)
           At(k) == CHOOSE i \in P : Cardinality(UpTo(P, i)) = k
           r == Filter(s, kept)
<1>1. r = [k \in 1..c |-> s[At(k)]]
  BY DEF Filter, UpTo
<1>2. Len(s) \in Nat /\ P \in SUBSET (1..Len(s))
  BY LenProperties
<1>3. /\ c \in Nat
      /\ \A i \in P : Cardinality(UpTo(P, i)) \in 1..c
      /\ \A k \in 1..c : \E i \in P : Cardinality(UpTo(P, i)) = k
      /\ \A i, k \in P : Cardinality(UpTo(P, i)) = Cardinality(UpTo(P, k)) => i = k
  <2> HIDE DEF P
  <2>1. QED
    BY <1>2, PlacesAreNumbered
<1>4. \A k \in 1..c : At(k) \in P /\ Cardinality(UpTo(P, At(k))) = k
  BY <1>3
<1> HIDE DEF r, At
<1>5. \A i \in P : i \in DOMAIN s /\ s[i] \in S /\ s[i] \in kept
  BY <1>2
<1>6. \A i \in DOMAIN s : s[i] \in kept => i \in P
  OBVIOUS
<1> HIDE DEF c, P
<1>7. r \in Seq(S) /\ DOMAIN r = 1..c /\ \A k \in 1..c : r[k] = s[At(k)]
  <2>1. \A k \in 1..c : s[At(k)] \in S
    BY <1>4, <1>5
  <2>2. QED
    BY <1>1, <1>3, <2>1
<1>8. IsInjective(s) => IsInjective(r)
  <2>1. ASSUME IsInjective(s), NEW k \in 1..c, NEW m \in 1..c, r[k] = r[m] PROVE k = m
    <3>1. At(k) = At(m)
      BY <1>4, <1>5, <1>7, <2>1 DEF IsInjective
    <3>2. QED
      BY <1>4, <3>1
  <2>2. QED
    BY <1>7, <2>1 DEF IsInjective
<1>9. \A k \in 1..c : r[k] \in Range(s) /\ r[k] \in kept
  BY <1>4, <1>5, <1>7 DEF Range
<1>10. ASSUME NEW i \in P PROVE \E k \in 1..c : r[k] = s[i]
  <2> DEFINE k == Cardinality(UpTo(P, i))
  <2>1. k \in 1..c
    BY <1>3
  <2>2. At(k) \in P /\ Cardinality(UpTo(P, At(k))) = k
    BY <1>4, <2>1
  <2>3. At(k) = i
    BY <1>3, <2>2
  <2>4. QED
    BY <1>7, <2>1, <2>3
<1>11. Range(r) = {x \in Range(s) : x \in kept}
  <2>1. Range(r) \subseteq {x \in Range(s) : x \in kept}
    BY <1>7, <1>9 DEF Range
  <2>2. ASSUME NEW x \in Range(s), x \in kept PROVE x \in Range(r)
    <3>1. PICK i \in DOMAIN s : s[i] = x
      BY DEF Range
    <3>2. i \in P
      BY <1>6, <2>2, <3>1
    <3>3. QED
      BY <1>7, <1>10, <3>1, <3>2 DEF Range
  <2>3. QED
    BY <2>1, <2>2
<1>12. QED
  BY <1>7, <1>8, <1>11 DEF r

\* What an element added at the end changes.
LEMMA AppendRange ==
  ASSUME NEW S, NEW s \in Seq(S), NEW e \in S
  PROVE  /\ Append(s, e) \in Seq(S)
         /\ Range(Append(s, e)) = Range(s) \cup {e}
         /\ IsInjective(s) /\ e \notin Range(s) => IsInjective(Append(s, e))
<1> DEFINE n == Len(s)
           t == Append(s, e)
<1>1. n \in Nat /\ DOMAIN s = 1..n
  BY LenProperties
<1>2. t \in Seq(S) /\ Len(t) = n + 1 /\ t[n + 1] = e /\ \A i \in 1..n : t[i] = s[i]
  BY AppendProperties
<1> HIDE DEF n, t
<1>3. DOMAIN t = 1..(n + 1)
  BY <1>2, LenProperties
<1>4. \A i \in 1..(n + 1) : i = n + 1 \/ i \in 1..n
  BY <1>1
<1>5. n + 1 \in 1..(n + 1) /\ \A i \in 1..n : i \in 1..(n + 1)
  BY <1>1
<1>6. Range(t) = Range(s) \cup {e}
  BY <1>1, <1>2, <1>3, <1>4, <1>5 DEF Range
<1>7. ASSUME IsInjective(s), e \notin Range(s), NEW i \in 1..(n + 1), NEW k \in 1..(n + 1),
             t[i] = t[k]
      PROVE  i = k
  <2>1. \A m \in 1..n : t[m] # e
    BY <1>1, <1>2, <1>7 DEF Range
  <2>2. QED
    BY <1>1, <1>2, <1>4, <1>7, <2>1 DEF IsInjective
<1>8. IsInjective(s) /\ e \notin Range(s) => IsInjective(t)
  BY <1>3, <1>7 DEF IsInjective
<1>9. QED
  BY <1>2, <1>6, <1>8 DEF t

\* What the first element taken away changes.
LEMMA TailRange ==
  ASSUME NEW S, NEW s \in Seq(S), s # <<>>
  PROVE  /\ Head(s) \in S /\ Tail(s) \in Seq(S)
         /\ Range(s) = {Head(s)} \cup Range(Tail(s))
         /\ IsInjective(s) => IsInjective(Tail(s)) /\ Head(s) \notin Range(Tail(s))
<1> DEFINE n == Len(s)
           t == Tail(s)
           h == Head(s)
<1>1. n \in Nat \ {0} /\ DOMAIN s = 1..n
  BY LenProperties, EmptySeq
<1>2. h \in S /\ t \in Seq(S) /\ Len(t) = n - 1 /\ \A i \in 1..Len(t) : t[i] = s[i + 1]
  BY HeadTailProperties
<1>3. h = s[1]
  OBVIOUS
<1> HIDE DEF n, t, h
<1>4. DOMAIN t = 1..(n - 1) /\ \A i \in 1..(n - 1) : t[i] = s[i + 1]
  <2>1. DOMAIN t = 1..Len(t)
    BY <1>2, LenProperties
  <2>2. QED
    BY <1>2, <2>1
<1>5. /\ 1 \in 1..n /\ \A i \in 1..(n - 1) : i + 1 \in 1..n /\ i + 1 # 1
      /\ \A i \in 1..n : i = 1 \/ \E k \in 1..(n - 1) : i = k + 1
  <2>1. ASSUME NEW i \in 1..n, i # 1 PROVE \E k \in 1..(n - 1) : i = k + 1
    <3>1. i - 1 \in 1..(n - 1) /\ i = (i - 1) + 1
      BY <1>1, <2>1
    <3>2. QED
      BY <3>1
  <2>2. QED
    BY <1>1, <2>1
<1>6. Range(s) = {h} \cup Range(t)
  <2>1. Range(t) \subseteq Range(s) /\ h \in Range(s)
    BY <1>1, <1>3, <1>4, <1>5 DEF Range
  <2>2. ASSUME NEW i \in 1..n PROVE s[i] = h \/ s[i] \in Range(t)
    <3>1. CASE i = 1
      BY <1>3, <3>1
    <3>2. CASE i # 1
      <4>1. PICK k \in 1..(n - 1) : i = k + 1
        BY <1>5, <3>2
      <4>2. QED
        BY <1>4, <4>1 DEF Range
    <3>3. QED
      BY <3>1, <3>2
  <2>3. QED
    BY <1>1, <2>1, <2>2 DEF Range
<1>7. ASSUME IsInjective(s) PROVE IsInjective(t) /\ h \notin Range(t)
  <2>1. ASSUME NEW i \in 1..(n - 1), NEW k \in 1..(n - 1), t[i] = t[k] PROVE i = k
    <3>1. s[i + 1] = s[k + 1] /\ i + 1 \in 1..n /\ k + 1 \in 1..n
      BY <1>4, <1>5, <2>1
    <3>2. i + 1 = k + 1
      BY <1>1, <1>7, <3>1 DEF IsInjective
    <3>3. QED
      BY <3>2
  <2>2. ASSUME NEW i \in 1..(n - 1) PROVE t[i] # h
    <3>1. t[i] = s[i + 1] /\ i + 1 \in 1..n /\ i + 1 # 1 /\ 1 \in 1..n
      BY <1>4, <1>5
    <3>2. QED
      BY <1>1, <1>3, <1>7, <3>1 DEF IsInjective
  <2>3. QED
    BY <1>4, <2>1, <2>2 DEF IsInjective, Range
<1>8. QED
  BY <1>2, <1>6, <1>7 DEF t, h

\* One sequence after another that shares no element with it.
LEMMA ConcatInjective ==
  ASSUME NEW S, NEW s \in Seq(S), NEW t \in Seq(S),
         IsInjective(s), IsInjective(t), Range(s) \cap Range(t) = {}
  PROVE  IsInjective(s \o t)
<1> DEFINE u == s \o t
           n == Len(s)
           m == Len(t)
<1>1. n \in Nat /\ m \in Nat /\ DOMAIN s = 1..n /\ DOMAIN t = 1..m
  BY LenProperties
<1>2. /\ u \in Seq(S) /\ Len(u) = n + m
      /\ \A i \in 1..n : u[i] = s[i]
      /\ \A i \in 1..m : u[n + i] = t[i]
  BY ConcatIs
<1> HIDE DEF u, n, m
<1>3. DOMAIN u = 1..(n + m)
  BY <1>2, LenProperties
<1>4. ASSUME NEW i \in 1..(n + m), i \notin 1..n
      PROVE  i - n \in 1..m /\ u[i] = t[i - n] /\ u[i] \in Range(t)
  <2>1. i - n \in 1..m /\ n + (i - n) = i
    BY <1>1, <1>4
  <2>2. u[n + (i - n)] = t[i - n]
    BY <1>2, <2>1
  <2>3. QED
    BY <1>1, <2>1, <2>2 DEF Range
<1>5. ASSUME NEW i \in 1..(n + m), NEW k \in 1..(n + m), u[i] = u[k] PROVE i = k
  <2>1. \A j \in 1..n : u[j] = s[j] /\ u[j] \in Range(s)
    BY <1>1, <1>2 DEF Range
  <2>2. CASE i \in 1..n /\ k \in 1..n
    BY <1>1, <1>5, <2>1, <2>2 DEF IsInjective
  <2>3. CASE i \notin 1..n /\ k \notin 1..n
    <3>1. i - n = k - n
      BY <1>1, <1>4, <1>5, <2>3 DEF IsInjective
    <3>2. QED
      BY <1>1, <3>1
  <2>4. CASE ~ (i \in 1..n <=> k \in 1..n)
    BY <1>4, <1>5, <2>1, <2>4
  <2>5. QED
    BY <2>2, <2>3, <2>4
<1>6. QED
  BY <1>3, <1>5 DEF IsInjective, u

\* A sequence without repetition is as long as its range is large.
LEMMA InjectiveLength ==
  ASSUME NEW S, NEW s \in Seq(S), IsInjective(s)
  PROVE  IsFiniteSet(Range(s)) /\ Cardinality(Range(s)) = Len(s)
<1> DEFINE n == Len(s)
<1>1. n \in Nat /\ DOMAIN s = 1..n /\ s \in [1..n -> S]
  BY LenProperties
<1> HIDE DEF n
<1>2. s \in [1..n -> Range(s)] /\ s \in Surjection(1..n, Range(s))
  BY <1>1 DEF Surjection, Range
<1>3. s \in Injection(1..n, Range(s))
  BY <1>1, <1>2 DEF Injection, IsInjective
<1>4. IsFiniteSet(1..n) /\ Cardinality(1..n) = n
  BY <1>1, FS_Interval
<1>5. IsFiniteSet(Range(s)) /\ Cardinality(Range(s)) = Cardinality(1..n)
  BY <1>2, <1>3, <1>4, FS_Surjection
<1>6. QED
  BY <1>4, <1>5 DEF n

\* An empty sequence is one that holds nothing.
LEMMA EmptyRange ==
  ASSUME NEW S, NEW s \in Seq(S)
  PROVE  Range(s) = {} <=> s = <<>>
<1>1. CASE s = <<>>
  BY <1>1 DEF Range
<1>2. CASE s # <<>>
  <2>1. Len(s) \in Nat \ {0} /\ DOMAIN s = 1..Len(s)
    BY <1>2, LenProperties, EmptySeq
  <2>2. 1 \in DOMAIN s
    BY <2>1
  <2>3. QED
    BY <1>2, <2>2 DEF Range
<1>3. QED
  BY <1>1, <1>2

\* The jobs in the order of the mapping; and how many they are.
LEMMA JobsInOrder ==
  /\ [j \in Jobs |-> j] \in Seq(Jobs)
  /\ Range([j \in Jobs |-> j]) = Jobs
  /\ IsInjective([j \in Jobs |-> j])
  /\ IsFiniteSet(Jobs) /\ Cardinality(Jobs) = N
<1>1. N \in Nat \ {0} /\ Jobs = 1..N
  BY SizeAssumption DEF Jobs
<1>2. [j \in Jobs |-> j] \in Seq(Jobs)
  <2>1. [j \in 1..N |-> j] \in Seq(1..N)
    BY <1>1
  <2>2. QED
    BY <1>1, <2>1
<1>3. Range([j \in Jobs |-> j]) = Jobs /\ IsInjective([j \in Jobs |-> j])
  BY DEF Range, IsInjective
<1>4. IsFiniteSet(1..N) /\ Cardinality(1..N) = N
  BY <1>1, FS_Interval
<1>5. QED
  BY <1>1, <1>2, <1>3, <1>4

-----------------------------------------------------------------------------
(* The sort and the plan: the invariant holds at first and every step keeps it *)

\* The range of a Filter over all jobs, and its members each once.
LEMMA FilterJobs ==
  ASSUME NEW kept \in SUBSET Jobs
  PROVE  LET s == Filter([j \in Jobs |-> j], kept)
         IN  s \in Seq(Jobs) /\ Range(s) = kept /\ IsInjective(s)
<1> DEFINE all == [j \in Jobs |-> j]
<1>1. all \in Seq(Jobs) /\ Range(all) = Jobs /\ IsInjective(all)
  BY JobsInOrder
<1> HIDE DEF all
<1>2. /\ Filter(all, kept) \in Seq(Jobs) /\ IsInjective(Filter(all, kept))
      /\ Range(Filter(all, kept)) = {x \in Range(all) : x \in kept}
  BY <1>1, FilterIs
<1>3. QED
  BY <1>1, <1>2 DEF all

\* A set of needs that wait is finite: empty exactly when its size is zero.
LEMMA WaitingIsFinite ==
  ASSUME PlanTypeOK, NEW j \in Jobs
  PROVE  /\ IsFiniteSet(DOMAIN needs[j]) /\ IsFiniteSet(Waiting(j))
         /\ Cardinality(Waiting(j)) \in Nat
         /\ Cardinality(Waiting(j)) = 0 <=> Waiting(j) = {}
<1>1. needs[j] \in Seq(Jobs)
  BY DEF PlanTypeOK
<1>2. Len(needs[j]) \in Nat /\ DOMAIN needs[j] = 1..Len(needs[j])
  BY <1>1, LenProperties
<1>3. IsFiniteSet(DOMAIN needs[j])
  BY <1>2, FS_Interval
<1>4. Waiting(j) \in SUBSET (DOMAIN needs[j])
  BY DEF Waiting
<1>5. IsFiniteSet(Waiting(j))
  BY <1>3, <1>4, FS_Subset
<1>6. Cardinality(Waiting(j)) \in Nat
  BY <1>5, FS_CardinalityType
<1>7. Cardinality(Waiting(j)) = 0 <=> Waiting(j) = {}
  BY <1>5, FS_EmptySet
<1>8. QED
  BY <1>3, <1>5, <1>6, <1>7

\* A job that does not wait has all its needs sorted.
LEMMA NotWaiting ==
  ASSUME NEW j \in Jobs
  PROVE  /\ Waiting(j) = {} <=> NeedsOf(j) \subseteq Sorted
         /\ Waiting(j) # {} <=> \E d \in NeedsOf(j) : d \notin Sorted
BY DEF Waiting, NeedsOf, Range

\* Nothing is sorted before the search has come to an end.
LEMMA LevelsInitInvariant == ASSUME PlanInit PROVE LevelsIInv
<1>1. /\ phase = "dfs" /\ queue = <<>> /\ sorted_jobs = <<>> /\ levels = <<>> /\ processed = {}
      /\ in_degree = [j \in Jobs |-> 0]
  BY DEF PlanInit
<1>2. LevelsTypeOK
  BY <1>1 DEF LevelsTypeOK
<1>3. Untouched /\ QueueIsRight /\ AllSorted
  BY <1>1 DEF Untouched, QueueIsRight, AllSorted
<1>4. LevelsAreGreedy
  BY <1>1 DEF LevelsAreGreedy, OnceInLevels, Placed
<1>5. QED
  BY <1>2, <1>3, <1>4 DEF LevelsIInv

\* A step that adds no level.
LEMMA SameLevels ==
  ASSUME LevelsAreGreedy, UNCHANGED <<needs, levels, processed>>,
         phase' = "ready" => processed = Jobs
  PROVE  LevelsAreGreedy'
<1>1. \A k : Placed(k)' = Placed(k)
  BY DEF Placed
<1>2. \A j : NeedsOf(j)' = NeedsOf(j)
  BY DEF NeedsOf
<1>3. OnceInLevels'
  BY DEF LevelsAreGreedy, OnceInLevels
<1>4. processed' = Placed(Len(levels))'
  BY <1>1 DEF LevelsAreGreedy
<1>5. \A k \in 1..Len(levels') : \A j \in Range(levels'[k]) :
        /\ NeedsOf(j)' \subseteq Placed(k - 1)'
        /\ k > 1 => NeedsOf(j)' \cap Range(levels'[k - 1]) # {}
  BY <1>1, <1>2 DEF LevelsAreGreedy
<1>6. levels' # <<>> =>
        \A j \in Jobs \ processed' : ~ NeedsOf(j)' \subseteq Placed(Len(levels) - 1)'
  BY <1>1, <1>2 DEF LevelsAreGreedy
<1>7. QED
  BY <1>3, <1>4, <1>5, <1>6 DEF LevelsAreGreedy

\* The steps of the search leave all of it alone.
LEMMA SearchKeepsLevels ==
  ASSUME LevelsIInv, phase = "dfs", UNCHANGED <<needs, phase, kahn, plan>>
  PROVE  LevelsIInv'
<1>1. LevelsTypeOK' /\ Untouched' /\ QueueIsRight' /\ AllSorted'
  BY DEF LevelsIInv, LevelsTypeOK, Untouched, QueueIsRight, AllSorted, kahn, plan
<1>2. LevelsAreGreedy'
  BY SameLevels DEF LevelsIInv, plan
<1>3. QED
  BY <1>1, <1>2 DEF LevelsIInv

\* The sort begins with the jobs without needs (in_degree, queue).
LEMMA SearchDoneKeepsLevels ==
  ASSUME PlanIInv, LevelsIInv, SearchDone PROVE LevelsIInv'
<1>1. phase = "dfs" /\ UNCHANGED <<needs, levels, processed, sorted_jobs>>
  BY DEF SearchDone, kahn, plan
<1>2. sorted_jobs = <<>> /\ levels = <<>> /\ processed = {}
  BY <1>1 DEF LevelsIInv, Untouched
<1>3. LevelsAreGreedy' /\ AllSorted' /\ Untouched'
  <2>1. phase' \in {"cycle_error", "kahn"}
    BY DEF SearchDone
  <2>2. LevelsAreGreedy'
    BY <1>1, <2>1, SameLevels DEF LevelsIInv
  <2>3. QED
    BY <1>1, <1>2, <2>1, <2>2 DEF AllSorted, Untouched
<1>4. CASE cycles_found # <<>>
  <2>1. phase' = "cycle_error" /\ UNCHANGED kahn
    BY <1>4 DEF SearchDone
  <2>2. LevelsTypeOK' /\ QueueIsRight'
    BY <1>1, <2>1 DEF LevelsIInv, LevelsTypeOK, QueueIsRight, kahn
  <2>3. QED
    BY <1>3, <2>2 DEF LevelsIInv
<1>5. CASE cycles_found = <<>>
  <2> DEFINE kept == {j \in Jobs : InDegrees[j] = 0}
  <2>1. phase' = "kahn" /\ in_degree' = InDegrees /\ queue' = Filter([j \in Jobs |-> j], kept)
    BY <1>5 DEF SearchDone
  <2>2. queue' \in Seq(Jobs) /\ Range(queue') = kept /\ IsInjective(queue')
    <3>1. kept \in SUBSET Jobs
      OBVIOUS
    <3> HIDE DEF kept
    <3>2. QED
      BY <2>1, <3>1, FilterJobs
  <2>3. sorted_jobs' = <<>> /\ Sorted' = {} /\ IsInjective(sorted_jobs')
    BY <1>1, <1>2 DEF Sorted, Range, IsInjective
  <2>4. ASSUME NEW j \in Jobs
        PROVE  /\ Waiting(j)' = DOMAIN needs[j]
               /\ InDegrees[j] = Cardinality(Waiting(j)') /\ InDegrees[j] \in Nat
               /\ InDegrees[j] = 0 <=> Waiting(j)' = {}
    <3>1. Waiting(j)' = DOMAIN needs[j]
      BY <1>1, <2>3 DEF Waiting
    <3>2. needs[j] \in Seq(Jobs)
      BY DEF PlanIInv, PlanTypeOK
    <3>3. Len(needs[j]) \in Nat /\ DOMAIN needs[j] = 1..Len(needs[j])
      BY <3>2, LenProperties
    <3>4. Cardinality(1..Len(needs[j])) = Len(needs[j])
      BY <3>3, FS_Interval
    <3>5. InDegrees[j] = Len(needs[j])
      BY DEF InDegrees
    <3>6. Len(needs[j]) = 0 <=> 1..Len(needs[j]) = {}
      BY <3>3
    <3>7. QED
      BY <3>1, <3>3, <3>4, <3>5, <3>6
  <2>5. LevelsTypeOK'
    <3>1. InDegrees \in [Jobs -> Int]
      BY <2>4 DEF InDegrees
    <3>2. QED
      BY <1>1, <1>2, <2>1, <2>2, <3>1 DEF LevelsTypeOK
  <2>6. QueueIsRight'
    <3>1. Range(queue') = {j \in Jobs \ Sorted' : Waiting(j)' = {}}
      BY <2>2, <2>3, <2>4
    <3>2. \A j \in Jobs : in_degree'[j] = Cardinality(Waiting(j)')
      BY <2>1, <2>4
    <3>3. QED
      BY <2>2, <2>3, <3>1, <3>2 DEF QueueIsRight
  <2>7. QED
    BY <1>3, <2>5, <2>6 DEF LevelsIInv
<1>6. QED
  BY <1>4, <1>5

\* What sorting one more job changes for the jobs that wait for it.
LEMMA WaitsForOneLess ==
  ASSUME PlanTypeOK, needs' = needs, NEW job, job \notin Sorted, Sorted' = Sorted \cup {job},
         NEW j \in Jobs
  PROVE  /\ Waiting(j)' \subseteq Waiting(j)
         /\ Listed(j, job) \in Nat
         /\ Listed(j, job) > 0 => Waiting(j) # {}
         /\ Waiting(j)' = {} /\ Waiting(j) # {} => Listed(j, job) > 0
         /\ Cardinality(Waiting(j)') = Cardinality(Waiting(j)) - Listed(j, job)
         /\ Cardinality(Waiting(j)') \in Nat
         /\ Cardinality(Waiting(j)') = 0 <=> Waiting(j)' = {}
<1> DEFINE W == Waiting(j)
           V == Waiting(j)'
           L == {i \in DOMAIN needs[j] : needs[j][i] = job}
<1>1. L \subseteq W /\ V = W \ L
  BY DEF Waiting
<1>2. Listed(j, job) = Cardinality(L)
  BY DEF Listed
<1>3. IsFiniteSet(W)
  BY WaitingIsFinite
<1> HIDE DEF W, V, L
<1>4. IsFiniteSet(L)
  BY <1>1, <1>3, FS_Subset
<1>5. Cardinality(L) \in Nat /\ (Cardinality(L) = 0 <=> L = {})
  BY <1>4, FS_CardinalityType, FS_EmptySet
<1>6. IsFiniteSet(V) /\ Cardinality(V) = Cardinality(W) - Cardinality(L)
  <2>1. W \cap L = L
    BY <1>1
  <2>2. IsFiniteSet(W \ L) /\ Cardinality(W \ L) = Cardinality(W) - Cardinality(W \cap L)
    BY <1>3, FS_Difference
  <2>3. QED
    BY <1>1, <2>1, <2>2
<1>7. Cardinality(V) \in Nat /\ (Cardinality(V) = 0 <=> V = {})
  BY <1>6, FS_CardinalityType, FS_EmptySet
<1>8. V \subseteq W /\ (L # {} => W # {}) /\ (V = {} /\ W # {} => L # {})
  BY <1>1
<1>9. Cardinality(L) > 0 <=> L # {}
  BY <1>5
<1>10. QED
  BY <1>2, <1>5, <1>6, <1>7, <1>8, <1>9 DEF V, W

\* The first of the queue is sorted, and what waited for nothing else follows.
LEMMA SortNextKeepsLevels ==
  ASSUME PlanIInv, LevelsIInv, SortNext PROVE LevelsIInv'
<1> DEFINE job == Head(queue)
           rest == Tail(queue)
           lowered == [d \in Jobs |-> in_degree[d] - Listed(d, job)]
           kept == {d \in Jobs : Listed(d, job) > 0 /\ lowered[d] = 0}
           new == Filter([d \in Jobs |-> d], kept)
<1>1. /\ phase = "kahn" /\ phase' = "kahn" /\ queue # <<>>
      /\ UNCHANGED <<needs, levels, processed>>
      /\ sorted_jobs' = Append(sorted_jobs, job)
      /\ in_degree' = lowered /\ queue' = rest \o new
  BY DEF SortNext, plan
<1>2. /\ in_degree \in [Jobs -> Int] /\ queue \in Seq(Jobs) /\ sorted_jobs \in Seq(Jobs)
      /\ levels \in Seq(Seq(Jobs)) /\ processed \in SUBSET Jobs
      /\ PlanTypeOK
  BY DEF LevelsIInv, LevelsTypeOK, PlanIInv
<1>3. /\ IsInjective(sorted_jobs) /\ IsInjective(queue)
      /\ \A j \in Jobs : in_degree[j] = Cardinality(Waiting(j))
      /\ \A j \in Sorted : Waiting(j) = {}
      /\ Range(queue) = {j \in Jobs \ Sorted : Waiting(j) = {}}
  BY <1>1 DEF LevelsIInv, QueueIsRight
<1>4. /\ job \in Jobs /\ rest \in Seq(Jobs) /\ Range(queue) = {job} \cup Range(rest)
      /\ IsInjective(rest) /\ job \notin Range(rest)
  BY <1>1, <1>2, <1>3, TailRange
<1>5. kept \in SUBSET Jobs
  OBVIOUS
<1>6. new \in Seq(Jobs) /\ Range(new) = kept /\ IsInjective(new)
  <2> HIDE DEF kept
  <2>1. QED
    BY <1>5, FilterJobs
<1>7. job \notin Sorted /\ Waiting(job) = {}
  BY <1>3, <1>4
<1> HIDE DEF job, rest, new
<1>8. /\ sorted_jobs' \in Seq(Jobs) /\ Sorted' = Sorted \cup {job} /\ IsInjective(sorted_jobs')
  BY <1>1, <1>2, <1>3, <1>4, <1>7, AppendRange DEF Sorted
<1>9. ASSUME NEW j \in Jobs
      PROVE  /\ Waiting(j)' \subseteq Waiting(j)
             /\ Listed(j, job) \in Nat /\ lowered[j] \in Nat
             /\ Listed(j, job) > 0 => Waiting(j) # {}
             /\ Waiting(j)' = {} /\ Waiting(j) # {} => Listed(j, job) > 0
             /\ lowered[j] = Cardinality(Waiting(j)')
             /\ lowered[j] = 0 <=> Waiting(j)' = {}
  <2>1. lowered[j] = Cardinality(Waiting(j)) - Listed(j, job)
    BY <1>3
  <2> HIDE DEF lowered
  <2>2. needs' = needs
    BY <1>1
  <2>3. /\ Waiting(j)' \subseteq Waiting(j)
        /\ Listed(j, job) \in Nat
        /\ Listed(j, job) > 0 => Waiting(j) # {}
        /\ Waiting(j)' = {} /\ Waiting(j) # {} => Listed(j, job) > 0
        /\ Cardinality(Waiting(j)') = Cardinality(Waiting(j)) - Listed(j, job)
        /\ Cardinality(Waiting(j)') \in Nat
        /\ Cardinality(Waiting(j)') = 0 <=> Waiting(j)' = {}
    BY <1>2, <1>7, <1>8, <2>2, WaitsForOneLess
  <2>4. lowered[j] = Cardinality(Waiting(j)')
    BY <2>1, <2>3
  <2>5. QED
    BY <2>3, <2>4
<1>10. \A j \in Jobs : j \in kept <=> Waiting(j) # {} /\ Waiting(j)' = {}
  BY <1>9
<1>11. lowered \in [Jobs -> Int]
  BY <1>9
<1> HIDE DEF lowered, kept
<1>12. Range(rest) \cap Range(new) = {}
  BY <1>3, <1>4, <1>6, <1>10
<1>13. /\ queue' \in Seq(Jobs) /\ IsInjective(queue')
       /\ Range(queue') = Range(rest) \cup kept
  BY <1>1, <1>4, <1>6, <1>12, ConcatProperties, ConcatInjective, RangeConcatenation
<1>14. ASSUME NEW j \in Sorted' PROVE Waiting(j)' = {}
  <2>1. j \in Jobs
    BY <1>8, RangeOfSeq DEF Sorted
  <2>2. Waiting(j) = {}
    BY <1>3, <1>7, <1>8
  <2>3. QED
    BY <1>9, <2>1, <2>2
<1>15. Range(queue') = {j \in Jobs \ Sorted' : Waiting(j)' = {}}
  <2>1. ASSUME NEW j \in Range(queue') PROVE j \in Jobs \ Sorted' /\ Waiting(j)' = {}
    <3>1. CASE j \in Range(rest)
      <4>1. j \in Jobs /\ j \notin Sorted /\ Waiting(j) = {} /\ j # job
        BY <1>3, <1>4, <3>1
      <4>2. QED
        BY <1>8, <1>9, <4>1
    <3>2. CASE j \in kept
      <4>1. j \in Jobs /\ Waiting(j) # {} /\ Waiting(j)' = {}
        BY <1>5, <1>10, <3>2
      <4>2. j \notin Sorted /\ j # job
        BY <1>3, <1>7, <4>1
      <4>3. QED
        BY <1>8, <4>1, <4>2
    <3>3. QED
      BY <1>13, <2>1, <3>1, <3>2
  <2>2. ASSUME NEW j \in Jobs \ Sorted', Waiting(j)' = {} PROVE j \in Range(queue')
    <3>1. j \notin Sorted /\ j # job
      BY <1>8
    <3>2. CASE Waiting(j) = {}
      BY <1>3, <1>4, <1>13, <3>1, <3>2
    <3>3. CASE Waiting(j) # {}
      BY <1>10, <1>13, <2>2, <3>3
    <3>4. QED
      BY <3>2, <3>3
  <2>3. QED
    BY <2>1, <2>2
<1>16. LevelsTypeOK'
  BY <1>1, <1>2, <1>8, <1>11, <1>13 DEF LevelsTypeOK
<1>17. QueueIsRight'
  <2>1. \A j \in Jobs : in_degree'[j] = Cardinality(Waiting(j)')
    BY <1>1, <1>9
  <2>2. QED
    BY <1>8, <1>13, <1>14, <1>15, <2>1 DEF QueueIsRight
<1>18. Untouched' /\ AllSorted' /\ LevelsAreGreedy'
  BY <1>1, SameLevels DEF LevelsIInv, Untouched, AllSorted
<1>19. QED
  BY <1>16, <1>17, <1>18 DEF LevelsIInv

\* Nothing can be sorted any more: then everything is (scheduler.py:134).
LEMMA SortDoneKeepsLevels ==
  ASSUME PlanIInv, LevelsIInv, SortDone PROVE LevelsIInv'
<1>1. /\ phase = "kahn" /\ queue = <<>> /\ UNCHANGED <<needs, kahn, plan>>
      /\ phase' = IF Len(sorted_jobs) = N THEN "plan" ELSE "sort_error"
  BY DEF SortDone
<1>2. /\ IsInjective(sorted_jobs) /\ Range(queue) = {j \in Jobs \ Sorted : Waiting(j) = {}}
      /\ sorted_jobs \in Seq(Jobs) /\ queue \in Seq(Jobs)
  BY <1>1 DEF LevelsIInv, QueueIsRight, LevelsTypeOK
<1>3. Acyclic
  BY <1>1, SearchIsExact DEF RaisesExactlyOnCycles
<1>4. Sorted = Jobs
  <2> DEFINE R == Jobs \ Sorted
  <2>1. \A j \in R : Waiting(j) # {}
    BY <1>1, <1>2, EmptyRange
  <2>2. ASSUME NEW j \in R PROVE NeedsOf(j) \cap R # {}
    <3>1. PICK d \in NeedsOf(j) : d \notin Sorted
      BY <2>1, NotWaiting
    <3>2. needs[j] \in Seq(Jobs)
      BY DEF PlanIInv, PlanTypeOK
    <3>3. d \in Jobs
      BY <3>1, <3>2, RangeOfSeq DEF NeedsOf
    <3>4. QED
      BY <3>1, <3>3
  <2>3. R = {}
    BY <1>3, <2>2 DEF Acyclic
  <2>4. Sorted \subseteq Jobs
    BY <1>2, RangeOfSeq DEF Sorted
  <2>5. QED
    BY <2>3, <2>4
<1>5. Len(sorted_jobs) = N
  BY <1>2, <1>4, InjectiveLength, JobsInOrder DEF Sorted
<1>6. phase' = "plan"
  BY <1>1, <1>5
<1>7. LevelsTypeOK' /\ Untouched' /\ QueueIsRight' /\ AllSorted'
  BY <1>1, <1>2, <1>4, <1>6 DEF LevelsIInv, LevelsTypeOK, Untouched, QueueIsRight, AllSorted, Sorted,
    kahn, plan
<1>8. LevelsAreGreedy'
  BY <1>1, <1>6, SameLevels DEF LevelsIInv, plan
<1>9. QED
  BY <1>7, <1>8 DEF LevelsIInv

\* Below the last, the levels are what they were; the last is the one added.
LEMMA PlacedIs ==
  ASSUME NEW n, n = Len(levels), NEW new \in Seq(Jobs), levels \in Seq(Seq(Jobs)),
         levels' = Append(levels, new)
  PROVE  /\ n \in Nat /\ Len(levels') = n + 1
         /\ DOMAIN levels = 1..n /\ DOMAIN levels' = 1..(n + 1)
         /\ levels' \in Seq(Seq(Jobs))
         /\ levels'[n + 1] = new
         /\ \A k \in 1..n : levels'[k] = levels[k]
         /\ \A k \in 0..n : Placed(k)' = Placed(k)
         /\ Placed(n + 1)' = Placed(n) \cup Range(new)
<1>1. n \in Nat /\ DOMAIN levels = 1..n
  BY LenProperties
<1>2. /\ levels' \in Seq(Seq(Jobs)) /\ Len(levels') = n + 1 /\ levels'[n + 1] = new
      /\ \A k \in 1..n : levels'[k] = levels[k]
  BY AppendProperties
<1>3. DOMAIN levels' = 1..(n + 1)
  BY <1>2, LenProperties
<1>4. ASSUME NEW k \in 0..n PROVE Placed(k)' = Placed(k)
  <2>1. \A m \in 1..k : levels'[m] = levels[m]
    BY <1>1, <1>2
  <2>2. QED
    BY <2>1 DEF Placed
<1>5. Placed(n + 1)' = Placed(n) \cup Range(new)
  <2>1. 1..(n + 1) = 1..n \cup {n + 1}
    BY <1>1
  <2>2. Placed(n + 1)' = UNION {Range(levels'[m]) : m \in 1..n \cup {n + 1}}
    BY <2>1 DEF Placed
  <2>3. QED
    BY <1>2, <2>2 DEF Placed
<1>6. QED
  BY <1>1, <1>2, <1>3, <1>4, <1>5

\* One more level: everything that can run now, which is never nothing as long
\* as jobs are left (scheduler.py:165).
LEMMA NextLevelKeepsLevels == ASSUME PlanIInv, LevelsIInv, NextLevel PROVE LevelsIInv'
<1> DEFINE fits == {j \in Jobs \ processed : NeedsOf(j) \subseteq processed}
           new == CurrentLevel
<1> PICK n : n = Len(levels)
  OBVIOUS
<1>1. /\ phase = "plan" /\ Cardinality(processed) < N /\ UNCHANGED <<needs, kahn>>
      /\ IF new = <<>>
           THEN phase' = "deadlock_error" /\ UNCHANGED plan
           ELSE /\ levels' = Append(levels, new)
                /\ processed' = processed \cup Range(new)
                /\ UNCHANGED phase
  BY DEF NextLevel
<1>2. /\ sorted_jobs \in Seq(Jobs) /\ levels \in Seq(Seq(Jobs)) /\ processed \in SUBSET Jobs
      /\ Sorted = Jobs /\ IsInjective(sorted_jobs)
  BY <1>1 DEF LevelsIInv, LevelsTypeOK, AllSorted
<1>3. /\ processed = Placed(n) /\ OnceInLevels
      /\ \A k \in 1..n : \A j \in Range(levels[k]) :
           /\ NeedsOf(j) \subseteq Placed(k - 1)
           /\ k > 1 => NeedsOf(j) \cap Range(levels[k - 1]) # {}
      /\ levels # <<>> => \A j \in Jobs \ processed : ~ NeedsOf(j) \subseteq Placed(n - 1)
  BY DEF LevelsIInv, LevelsAreGreedy
<1>4. Acyclic
  BY <1>1, SearchIsExact DEF RaisesExactlyOnCycles
<1>5. new \in Seq(Jobs) /\ Range(new) = fits /\ IsInjective(new)
  <2> HIDE DEF fits
  <2>1. new = Filter(sorted_jobs, fits)
    BY DEF CurrentLevel, fits
  <2>2. /\ Filter(sorted_jobs, fits) \in Seq(Jobs) /\ IsInjective(Filter(sorted_jobs, fits))
        /\ Range(Filter(sorted_jobs, fits)) = {j \in Jobs : j \in fits}
    BY <1>2, FilterIs DEF Sorted
  <2>3. fits \subseteq Jobs
    BY DEF fits
  <2>4. QED
    BY <2>1, <2>2, <2>3
<1> HIDE DEF new
<1>6. processed # Jobs
  BY <1>1, JobsInOrder, SizeAssumption
<1>7. fits # {}
  <2> DEFINE R == Jobs \ processed
  <2>1. R # {} /\ R \in SUBSET Jobs
    BY <1>2, <1>6
  <2>2. PICK j \in R : NeedsOf(j) \cap R = {}
    BY <1>4, <2>1 DEF Acyclic
  <2>3. needs[j] \in Seq(Jobs)
    BY DEF PlanIInv, PlanTypeOK
  <2>4. NeedsOf(j) \subseteq Jobs
    BY <2>3, RangeOfSeq DEF NeedsOf
  <2>5. j \in fits
    BY <2>2, <2>4
  <2>6. QED
    BY <2>5
<1>8. new # <<>>
  BY <1>5, <1>7, EmptyRange
<1>9. levels' = Append(levels, new) /\ processed' = processed \cup fits /\ phase' = "plan"
  BY <1>1, <1>5, <1>8
<1>10. /\ n \in Nat /\ Len(levels') = n + 1
       /\ DOMAIN levels = 1..n /\ DOMAIN levels' = 1..(n + 1)
       /\ levels' \in Seq(Seq(Jobs)) /\ levels'[n + 1] = new
       /\ \A k \in 1..n : levels'[k] = levels[k]
       /\ \A k \in 0..n : Placed(k)' = Placed(k)
       /\ Placed(n + 1)' = Placed(n) \cup Range(new)
  BY <1>2, <1>5, <1>9, PlacedIs
<1>11. \A j : NeedsOf(j)' = NeedsOf(j)
  BY <1>1 DEF NeedsOf
<1>12. levels = <<>> <=> n = 0
  BY <1>2, EmptySeq
<1>13. \A k \in 1..n : \A i \in DOMAIN levels[k] : levels[k][i] \in processed
  BY <1>3 DEF Placed, Range
<1>14. \A i \in DOMAIN new : new[i] \in fits
  BY <1>5 DEF Range
<1>15. \A k \in 1..(n + 1) : k \in 1..n \/ k = n + 1
  BY <1>10
<1>16. OnceInLevels'
  <2>1. ASSUME NEW k \in 1..(n + 1), NEW m \in 1..(n + 1),
               NEW i \in DOMAIN levels'[k], NEW l \in DOMAIN levels'[m],
               levels'[k][i] = levels'[m][l]
        PROVE  k = m /\ i = l
    <3>1. CASE k \in 1..n /\ m \in 1..n
      <4>1. /\ levels'[k] = levels[k] /\ k \in DOMAIN levels
            /\ levels'[m] = levels[m] /\ m \in DOMAIN levels
        BY <1>10, <3>1
      <4>2. QED
        BY <1>3, <2>1, <4>1 DEF OnceInLevels
    <3>2. CASE k = n + 1 /\ m = n + 1
      BY <1>5, <1>10, <2>1, <3>2 DEF IsInjective
    <3>3. CASE k \in 1..n /\ m = n + 1
      BY <1>10, <1>13, <1>14, <2>1, <3>3
    <3>4. CASE k = n + 1 /\ m \in 1..n
      BY <1>10, <1>13, <1>14, <2>1, <3>4
    <3>5. QED
      BY <1>15, <3>1, <3>2, <3>3, <3>4
  <2>2. QED
    BY <1>10, <2>1 DEF OnceInLevels
<1>17. ASSUME NEW k \in 1..(n + 1), NEW j \in Range(levels'[k])
       PROVE  /\ NeedsOf(j) \subseteq Placed(k - 1)'
              /\ k > 1 => NeedsOf(j) \cap Range(levels'[k - 1]) # {}
  <2>1. CASE k \in 1..n
    <3>1. k - 1 \in 0..n /\ (k > 1 => k - 1 \in 1..n)
      BY <1>10, <2>1
    <3>2. Placed(k - 1)' = Placed(k - 1) /\ levels'[k] = levels[k]
          /\ (k > 1 => levels'[k - 1] = levels[k - 1])
      BY <1>10, <2>1, <3>1
    <3>3. QED
      BY <1>3, <1>17, <2>1, <3>2
  <2>2. CASE k = n + 1
    <3>1. k - 1 = n /\ n \in 0..n
      BY <1>10, <2>2
    <3>2. j \in fits
      BY <1>5, <1>10, <1>17, <2>2
    <3>3. NeedsOf(j) \subseteq Placed(k - 1)'
      BY <1>3, <1>10, <3>1, <3>2
    <3>4. ASSUME k > 1 PROVE NeedsOf(j) \cap Range(levels'[k - 1]) # {}
      <4>1. n \in 1..n /\ levels # <<>>
        BY <1>10, <1>12, <2>2, <3>4
      <4>2. PICK d \in NeedsOf(j) : d \notin Placed(n - 1)
        BY <1>3, <3>2, <4>1
      <4>3. d \in Placed(n)
        BY <1>3, <3>2, <4>2
      <4>4. PICK m \in 1..n : d \in Range(levels[m])
        BY <4>3 DEF Placed
      <4>5. m \notin 1..(n - 1)
        BY <4>2, <4>4 DEF Placed
      <4>6. m = n
        BY <1>10, <4>4, <4>5
      <4>7. levels'[k - 1] = levels[n]
        BY <1>10, <3>1, <4>1
      <4>8. QED
        BY <4>2, <4>4, <4>6, <4>7
    <3>5. QED
      BY <3>3, <3>4
  <2>3. QED
    BY <1>15, <2>1, <2>2
<1>18. ASSUME NEW j \in Jobs \ processed' PROVE ~ NeedsOf(j) \subseteq Placed(n)'
  <2>1. j \in Jobs \ processed /\ j \notin fits
    BY <1>9
  <2>2. Placed(n)' = processed
    BY <1>3, <1>10
  <2>3. QED
    BY <2>1, <2>2
<1>19. LevelsAreGreedy'
  <2>1. processed' = Placed(Len(levels))'
    BY <1>3, <1>5, <1>9, <1>10
  <2>2. \A k \in 1..Len(levels') : \A j \in Range(levels'[k]) :
          /\ NeedsOf(j)' \subseteq Placed(k - 1)'
          /\ k > 1 => NeedsOf(j)' \cap Range(levels'[k - 1]) # {}
    BY <1>10, <1>11, <1>17
  <2>3. Len(levels') - 1 = n
    BY <1>10
  <2>4. \A j \in Jobs \ processed' : ~ NeedsOf(j)' \subseteq Placed(Len(levels) - 1)'
    BY <1>11, <1>18, <2>3
  <2>5. phase' # "ready"
    BY <1>9
  <2>6. QED
    BY <1>16, <2>1, <2>2, <2>4, <2>5 DEF LevelsAreGreedy
<1>20. LevelsTypeOK'
  BY <1>1, <1>2, <1>9, <1>10 DEF LevelsIInv, LevelsTypeOK, kahn
<1>21. Untouched' /\ QueueIsRight' /\ AllSorted'
  BY <1>1, <1>2, <1>9 DEF LevelsIInv, Untouched, QueueIsRight, AllSorted, Sorted, kahn
<1>22. QED
  BY <1>19, <1>20, <1>21 DEF LevelsIInv

\* Every job is in a level.
LEMMA PlanDoneKeepsLevels ==
  ASSUME LevelsIInv, PlanDone PROVE LevelsIInv'
<1>1. /\ phase = "plan" /\ phase' = "ready" /\ Cardinality(processed) = N
      /\ UNCHANGED <<needs, kahn, plan>>
  BY DEF PlanDone
<1>2. processed = Jobs
  <2>1. processed \in SUBSET Jobs
    BY DEF LevelsIInv, LevelsTypeOK
  <2>2. QED
    BY <1>1, <2>1, JobsInOrder, FS_Subset
<1>3. LevelsTypeOK' /\ Untouched' /\ QueueIsRight' /\ AllSorted'
  BY <1>1 DEF LevelsIInv, LevelsTypeOK, Untouched, QueueIsRight, AllSorted, Sorted, kahn, plan
<1>4. LevelsAreGreedy'
  BY <1>1, <1>2, SameLevels DEF LevelsIInv, plan
<1>5. QED
  BY <1>3, <1>4 DEF LevelsIInv

\* LevelsIInv holds throughout the constructor and get_execution_plan.
THEOREM LevelsInvariance == PlanSpec => []LevelsIInv
<1>1. ASSUME PlanIInv, LevelsIInv, [PlanNext]_planVars PROVE LevelsIInv'
  <2>1. CASE StartSearch
    BY <1>1, <2>1, SearchKeepsLevels DEF StartSearch
  <2>2. CASE Descend
    BY <1>1, <2>2, SearchKeepsLevels DEF Descend
  <2>3. CASE ReturnFromNode
    BY <1>1, <2>3, SearchKeepsLevels DEF ReturnFromNode
  <2>4. CASE SearchDone
    BY <1>1, <2>4, SearchDoneKeepsLevels
  <2>5. CASE SortNext
    BY <1>1, <2>5, SortNextKeepsLevels
  <2>6. CASE SortDone
    BY <1>1, <2>6, SortDoneKeepsLevels
  <2>7. CASE NextLevel
    BY <1>1, <2>7, NextLevelKeepsLevels
  <2>8. CASE PlanDone
    BY <1>1, <2>8, PlanDoneKeepsLevels
  <2>9. CASE UNCHANGED planVars
    <3>1. UNCHANGED <<needs, phase, kahn, plan>>
      BY <2>9 DEF planVars
    <3>2. LevelsAreGreedy'
      BY <1>1, <3>1, SameLevels DEF LevelsIInv, LevelsAreGreedy, plan
    <3>3. QED
      BY <1>1, <3>1, <3>2 DEF LevelsIInv, LevelsTypeOK, Untouched, QueueIsRight, AllSorted, Sorted,
        Waiting, kahn, plan
  <2>10. QED
    BY <1>1, <2>1, <2>2, <2>3, <2>4, <2>5, <2>6, <2>7, <2>8, <2>9 DEF PlanNext, Step
<1>2. PlanInit => LevelsIInv
  BY LevelsInitInvariant
<1>3. QED
  BY <1>1, <1>2, PlanInvariance, PTL DEF PlanSpec

\* A pipeline without a cycle gets a plan, and the plan holds every job once
\* and as early as its needs allow (_topological_sort, get_execution_plan).
THEOREM PlansGreedily == PlanSpec => []PlanIsGreedy
<1>1. ASSUME LevelsIInv PROVE PlanIsGreedy
  <2>1. phase \notin {"sort_error", "deadlock_error"}
    BY <1>1 DEF LevelsIInv, Untouched
  <2>2. Len(levels) \in Nat /\ DOMAIN levels = 1..Len(levels)
    BY <1>1, LenProperties DEF LevelsIInv, LevelsTypeOK
  <2>3. ASSUME phase = "ready"
        PROVE  UNION {Range(levels[k]) : k \in DOMAIN levels} = Jobs
    BY <1>1, <2>2, <2>3 DEF LevelsIInv, LevelsAreGreedy, Placed
  <2>4. \A k \in DOMAIN levels : \A j \in Range(levels[k]) :
          /\ NeedsOf(j) \subseteq UNION {Range(levels[m]) : m \in 1..(k - 1)}
          /\ k > 1 => NeedsOf(j) \cap Range(levels[k - 1]) # {}
    BY <1>1, <2>2 DEF LevelsIInv, LevelsAreGreedy, Placed
  <2>5. OnceInLevels
    BY <1>1 DEF LevelsIInv, LevelsAreGreedy
  <2>6. QED
    BY <2>1, <2>3, <2>4, <2>5 DEF PlanIsGreedy, OnceInLevels
<1>2. QED
  BY LevelsInvariance, <1>1, PTL
=============================================================================
