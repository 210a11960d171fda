--------------------------- MODULE Gathering_proofs ---------------------------
(***************************************************************************)
(* For any collector, any capacity of the channel and any turns of the     *)
(* goroutines: a call answers as GatheringSpec says, in one step.          *)
(* The invariant says what the loop has made of the metrics it received:   *)
(* their hashes, whether there was a repeated one, and, as long as there   *)
(* was none, that it has kept them all.                                    *)
(* For any labels, too: sorting has one outcome, from which follow the     *)
(* types of an answer and that what is printed of it is of one source.     *)
(***************************************************************************)
EXTENDS Gathering, FiniteSetTheorems, WellFoundedInduction, TLAPS

-----------------------------------------------------------------------------
(* The order of labels and of metrics: sorting them has one outcome.       *)

(* A set of natural numbers has a least one.                               *)
LEMMA LeastOf ==
  ASSUME NEW T, T \subseteq Nat, T # {}
  PROVE  \E x \in T : \A y \in T : x <= y
<1>1. PICK x \in T : \A y \in T : <<y, x>> \notin OpToRel(<, Nat)
  <2>1. IsWellFoundedOn(OpToRel(<, Nat), Nat)
    BY NatLessThanWellFounded
  <2> QED BY <2>1, WFMin
<1>2. \A y \in T : ~(y < x)
  BY <1>1 DEF OpToRel
<1> QED BY <1>2

(* A finite set with a strict total order R has an enumeration in its      *)
(* order: each element has the place after those below it.                 *)
LEMMA EnumerationExists ==
  ASSUME NEW S, IsFiniteSet(S), NEW R,
         \A x \in S : <<x, x>> \notin R,
         \A x, y, z \in S : <<x, y>> \in R /\ <<y, z>> \in R => <<x, z>> \in R,
         \A x, y \in S : x # y => <<x, y>> \in R \/ <<y, x>> \in R
  PROVE  \E s \in [1 .. Cardinality(S) -> S] :
           /\ IsInjective(s)
           /\ \A i, j \in DOMAIN s : i < j => <<s[j], s[i]>> \notin R
<1> DEFINE below(x) == {y \in S : <<y, x>> \in R}
           places   == 1 .. Cardinality(S)
           place    == [x \in S |-> Cardinality(below(x)) + 1]
           s        == [i \in places |-> CHOOSE x \in S : place[x] = i]
<1>1. Cardinality(S) \in Nat /\ IsFiniteSet(places) /\ Cardinality(places) = Cardinality(S)
  BY FS_CardinalityType, FS_Interval
<1>2. ASSUME NEW x \in S
      PROVE  IsFiniteSet(below(x)) /\ Cardinality(below(x)) \in Nat /\ Cardinality(below(x)) < Cardinality(S)
  <2>1. below(x) \in SUBSET S /\ x \notin below(x)
    OBVIOUS
  <2>2. IsFiniteSet(below(x)) /\ Cardinality(below(x)) <= Cardinality(S)
        /\ Cardinality(below(x)) # Cardinality(S)
    BY <2>1, FS_Subset
  <2>3. Cardinality(below(x)) \in Nat
    BY <2>2, FS_CardinalityType
  <2> HIDE DEF below
  <2> QED BY <1>1, <2>2, <2>3
<1>3. ASSUME NEW x \in S, NEW y \in S, <<x, y>> \in R
      PROVE  Cardinality(below(x)) < Cardinality(below(y))
  <2>1. below(x) \in SUBSET below(y)
    BY <1>3
  <2>2. x \in below(y) /\ x \notin below(x)
    BY <1>3
  <2>3. Cardinality(below(x)) <= Cardinality(below(y)) /\ Cardinality(below(x)) # Cardinality(below(y))
    BY <1>2, <2>1, <2>2, FS_Subset
  <2> HIDE DEF below
  <2> QED BY <1>2, <2>3
<1> HIDE DEF below
<1>4. \A x \in S : place[x] \in places
  BY <1>1, <1>2
<1>5. \A x, y \in S : <<x, y>> \in R => place[x] < place[y]
  BY <1>2, <1>3
<1>6. place \in [S -> places]
  BY <1>4
<1> HIDE DEF place
<1>7. \A x, y \in S : place[x] = place[y] => x = y
  <2>1. \A x \in S : place[x] \in Int
    BY <1>1, <1>4
  <2>2. ASSUME NEW x \in S, NEW y \in S, x # y PROVE place[x] # place[y]
    <3>1. place[x] \in Int /\ place[y] \in Int
      BY <2>1
    <3>2. CASE <<x, y>> \in R
      <4>1. place[x] < place[y]
        BY <1>5, <3>2
      <4> QED BY <3>1, <4>1
    <3>3. CASE <<y, x>> \in R
      <4>1. place[y] < place[x]
        BY <1>5, <3>3
      <4> QED BY <3>1, <4>1
    <3> QED BY <2>2, <3>2, <3>3
  <2> QED BY <2>2
<1>8. place \in Injection(S, places)
  BY <1>6, <1>7 DEF Injection, IsInjective
<1>9. place \in Surjection(S, places)
  BY <1>1, <1>8, FS_Injection
<1>10. \A i \in places : s[i] \in S /\ place[s[i]] = i
  BY <1>9 DEF Surjection
<1>11. s \in [places -> S]
  BY <1>10
<1> HIDE DEF s
<1>12. IsInjective(s)
  BY <1>10, <1>11 DEF IsInjective
<1>13. \A i, j \in places : i < j => <<s[j], s[i]>> \notin R
  <2>1. ASSUME NEW i \in places, NEW j \in places, i < j, <<s[j], s[i]>> \in R PROVE FALSE
    <3>1. j < i
      BY <1>5, <1>10, <2>1
    <3> QED BY <1>1, <2>1, <3>1
  <2> HIDE DEF places
  <2> QED BY <2>1
<1>14. DOMAIN s = places
  BY <1>11
<1> QED BY <1>11, <1>12, <1>13, <1>14

(* f has the n elements of S in the order of their keys.                   *)
Enumerates(f, n, S, key) ==
  /\ f \in [1 .. n -> S]
  /\ \A x \in S : \E i \in 1 .. n : f[i] = x
  /\ \A i, j \in 1 .. n : i < j => key[f[i]] < key[f[j]]

(* A set is enumerated in one order only.                                  *)
LEMMA EnumerationUnique ==
  ASSUME NEW S, NEW n \in Nat, NEW key \in [S -> Int], NEW f, NEW g,
         Enumerates(f, n, S, key), Enumerates(g, n, S, key)
  PROVE  f = g
<1> USE DEF Enumerates
<1> SUFFICES ASSUME f # g PROVE FALSE
  OBVIOUS
<1> DEFINE T == {i \in 1 .. n : f[i] # g[i]}
<1>1. PICK d \in 1 .. n : f[d] # g[d]
  <2>1. f = [i \in 1 .. n |-> f[i]] /\ g = [i \in 1 .. n |-> g[i]]
    OBVIOUS
  <2> QED BY <2>1
<1>2. T \subseteq Nat /\ T # {}
  <2>1. d \in T
    BY <1>1
  <2>2. \A x \in T : x \in Nat
    OBVIOUS
  <2> HIDE DEF T
  <2> QED BY <2>1, <2>2
<1> HIDE DEF T
<1>10. PICK i \in T : \A j \in T : i <= j
  BY <1>2, LeastOf
<1>3. i \in 1 .. n /\ f[i] # g[i] /\ \A j \in 1 .. n : j < i => f[j] = g[j]
  <2>1. i \in 1 .. n /\ f[i] # g[i]
    BY DEF T
  <2>2. ASSUME NEW j \in 1 .. n, j < i, f[j] # g[j] PROVE FALSE
    <3>1. j \in T
      BY <2>2 DEF T
    <3>2. i <= j
      BY <1>10, <3>1
    <3> QED BY <2>1, <2>2, <3>2
  <2> QED BY <2>1, <2>2
<1>4. PICK j \in 1 .. n : g[j] = f[i]
  BY <1>3
<1>5. PICK k \in 1 .. n : f[k] = g[i]
  BY <1>3
<1>6. \A a, b \in 1 .. n : key[f[a]] \in Int /\ key[g[b]] \in Int
  OBVIOUS
<1>7. j > i
  <2>1. CASE j < i
    <3>1. f[j] = f[i] /\ key[f[j]] < key[f[i]]
      BY <1>3, <1>4, <2>1
    <3> QED BY <1>3, <1>6, <3>1
  <2>2. CASE j = i
    BY <1>3, <1>4, <2>2
  <2> QED BY <1>3, <2>1, <2>2
<1>8. k > i
  <2>1. CASE k < i
    <3>1. g[k] = g[i] /\ key[g[k]] < key[g[i]]
      BY <1>3, <1>5, <2>1
    <3> QED BY <1>3, <1>6, <3>1
  <2>2. CASE k = i
    BY <1>3, <1>5, <2>2
  <2> QED BY <1>3, <2>1, <2>2
<1>9. key[g[i]] < key[f[i]] /\ key[f[i]] < key[g[i]]
  BY <1>3, <1>4, <1>5, <1>7, <1>8
<1>11. key[g[i]] \in Int /\ key[f[i]] \in Int
  BY <1>3, <1>6
<1> QED BY ONLY <1>9, <1>11

(* Where the label that is added comes.                                    *)
Around(label, p) ==
  /\ p \in 0 .. Len(label)
  /\ \A i \in 1 .. p : label[i].name < Wrapping.name
  /\ \A i \in p + 1 .. Len(label) : Wrapping.name < label[i].name

Inserted(label, p) ==
  [i \in 1 .. Len(label) + 1 |->
     IF i <= p THEN label[i] ELSE IF i = p + 1 THEN Wrapping ELSE label[i - 1]]

LEMMA LabelType ==
  ASSUME NEW label \in Seq(LabelPair)
  PROVE  /\ Len(label) \in Nat /\ DOMAIN label = 1 .. Len(label)
         /\ \A i \in 1 .. Len(label) : /\ label[i] \in LabelPair
                                       /\ label[i].name \in Int /\ label[i].value \in Int
         /\ Wrapping \in LabelPair /\ Wrapping.name \in Int
<1>1. Len(label) \in Nat /\ DOMAIN label = 1 .. Len(label) /\ \A i \in 1 .. Len(label) : label[i] \in LabelPair
  OBVIOUS
<1>2. \A q \in LabelPair : q.name \in Int /\ q.value \in Int
  BY MetricsAssumption DEF LabelPair
<1> QED BY <1>1, <1>2, MetricsAssumption

LEMMA PlaceExists ==
  ASSUME NEW label \in Seq(LabelPair), Labelled(label)
  PROVE  \E p : Around(label, p)
<1> DEFINE n == Len(label)
           T == {k \in 0 .. n : \A i \in k + 1 .. n : Wrapping.name < label[i].name}
<1>1. n \in Nat /\ DOMAIN label = 1 .. n
  BY LabelType
<1>2. n \in T
  BY <1>1
<1>3. \A k \in T : k \in Nat
  BY <1>1
<1>4. PICK p \in T : \A k \in T : p <= k
  <2> HIDE DEF T
  <2> QED BY <1>2, <1>3, LeastOf
<1>5. p \in 0 .. n /\ \A i \in p + 1 .. n : Wrapping.name < label[i].name
  BY <1>4
<1>6. ASSUME NEW i \in 1 .. p
      PROVE  label[i].name < Wrapping.name
  <2>1. p \in 1 .. n /\ p - 1 \in 0 .. n /\ p - 1 \notin T
    <3>1. p \in 1 .. n /\ p - 1 \in 0 .. n /\ ~(p <= p - 1)
      BY <1>1, <1>5
    <3> HIDE DEF T
    <3> QED BY <1>4, <3>1
  <2>2. PICK j \in p .. n : ~(Wrapping.name < label[j].name)
    <3>1. (p - 1) + 1 = p
      BY <1>1, <2>1
    <3>2. ~(\A k \in p .. n : Wrapping.name < label[k].name)
      BY <2>1, <3>1
    <3> QED BY <3>2
  <2>3. j = p
    BY <1>1, <1>5, <2>1, <2>2
  <2>4. label[p].name < Wrapping.name
    BY <1>1, <2>1, <2>2, <2>3, LabelType DEF Labelled
  <2>5. i = p \/ label[i].name < label[p].name
    BY <1>1, <2>1 DEF Labelled
  <2>6. i \in 1 .. n
    BY <1>1, <2>1
  <2>7. label[i].name \in Int /\ label[p].name \in Int /\ Wrapping.name \in Int
    BY <2>1, <2>6, LabelType
  <2> QED BY <2>4, <2>5, <2>7
<1> QED BY <1>5, <1>6 DEF Around

LEMMA InsertedOrder ==
  ASSUME NEW label \in Seq(LabelPair), Labelled(label), NEW p, Around(label, p)
  PROVE  /\ Inserted(label, p) \in [1 .. Len(label) + 1 -> ToSet(label) \cup {Wrapping}]
         /\ \A x \in ToSet(label) \cup {Wrapping} :
              \E i \in 1 .. Len(label) + 1 : Inserted(label, p)[i] = x
         /\ \A i, j \in 1 .. Len(label) + 1 :
              i < j => Inserted(label, p)[i].name < Inserted(label, p)[j].name
<1> DEFINE n == Len(label)
           g == Inserted(label, p)
           S == ToSet(label) \cup {Wrapping}
<1>1. n \in Nat /\ DOMAIN label = 1 .. n /\ p \in 0 .. n
  BY LabelType DEF Around
<1>2. /\ g = [i \in 1 .. n + 1 |-> IF i <= p THEN label[i] ELSE IF i = p + 1 THEN Wrapping ELSE label[i - 1]]
      /\ S = {label[i] : i \in 1 .. n} \cup {Wrapping}
  BY <1>1 DEF Inserted, ToSet
<1> HIDE DEF g, S
<1>3. ASSUME NEW i \in 1 .. n + 1
      PROVE  /\ i <= p => i \in 1 .. n /\ g[i] = label[i]
             /\ i = p + 1 => g[i] = Wrapping
             /\ i > p + 1 => i - 1 \in p + 1 .. n /\ i - 1 \in 1 .. n /\ g[i] = label[i - 1]
  BY <1>1, <1>2
<1>4. ASSUME NEW i \in 1 .. n + 1
      PROVE  g[i] \in S
  <2>1. i <= p \/ i = p + 1 \/ i > p + 1
    BY <1>1
  <2> QED BY <1>2, <1>3, <2>1
<1>5. g \in [1 .. n + 1 -> S]
  BY <1>2, <1>4
<1>6. ASSUME NEW x \in S
      PROVE  \E i \in 1 .. n + 1 : g[i] = x
  <2>1. CASE x = Wrapping
    <3>1. p + 1 \in 1 .. n + 1
      BY <1>1
    <3> QED BY <1>3, <2>1, <3>1
  <2>2. ASSUME NEW k \in 1 .. n, x = label[k]
        PROVE  \E i \in 1 .. n + 1 : g[i] = x
    <3>1. CASE k <= p
      <4>1. k \in 1 .. n + 1
        BY <1>1
      <4> QED BY <1>3, <2>2, <3>1, <4>1
    <3>2. CASE k > p
      <4>1. k + 1 \in 1 .. n + 1 /\ k + 1 > p + 1 /\ (k + 1) - 1 = k
        BY <1>1, <3>2
      <4>2. g[k + 1] = label[k]
        BY <1>3, <4>1
      <4> QED BY <2>2, <4>1, <4>2
    <3> QED BY <1>1, <3>1, <3>2
  <2> QED BY <1>2, <2>1, <2>2
<1>7. ASSUME NEW i \in 1 .. n + 1, NEW j \in 1 .. n + 1, i < j
      PROVE  g[i].name < g[j].name
  <2>1. CASE j <= p
    <3>1. i <= p
      BY <1>1, <1>7, <2>1
    <3> QED BY <1>1, <1>3, <1>7, <2>1, <3>1 DEF Labelled
  <2>2. CASE j = p + 1
    <3>1. i <= p /\ i \in 1 .. p
      BY <1>1, <1>7, <2>2
    <3> QED BY <1>3, <2>2, <3>1 DEF Around
  <2>3. CASE j > p + 1
    <3>0. g[j] = label[j - 1] /\ j - 1 \in 1 .. n /\ j - 1 \in p + 1 .. n
      BY <1>3, <2>3
    <3>1. CASE i <= p
      <4>1. i < j - 1 /\ i \in 1 .. n /\ g[i] = label[i]
        BY <1>1, <1>3, <2>3, <3>1
      <4> QED BY <1>1, <3>0, <4>1 DEF Labelled
    <3>2. CASE i = p + 1
      BY <1>3, <3>0, <3>2 DEF Around
    <3>3. CASE i > p + 1
      <4>1. i - 1 < j - 1 /\ i - 1 \in 1 .. n /\ g[i] = label[i - 1]
        BY <1>1, <1>3, <1>7, <3>3
      <4> QED BY <1>1, <3>0, <4>1 DEF Labelled
    <3> QED BY <1>1, <3>1, <3>2, <3>3
  <2> QED BY <1>1, <2>1, <2>2, <2>3
<1> QED BY <1>5, <1>6, <1>7 DEF g, S

(* Sorting the labels with the added one among them puts it into its       *)
(* place and leaves the others as they were.                               *)
LEMMA WrittenLabel ==
  ASSUME NEW label \in Seq(LabelPair), Labelled(label), NEW p, Around(label, p)
  PROVE  Ordered(ToSet(label) \cup {Wrapping}, ByName) = Inserted(label, p)
<1> DEFINE n == Len(label) + 1
           g == Inserted(label, p)
           S == ToSet(label) \cup {Wrapping}
           R == {z \in S \X S : z[1].name < z[2].name}
           key == [x \in S |-> x.name]
           InOrder(s) == IsInjective(s) /\ \A i, j \in DOMAIN s : i < j => ~ByName(s[j], s[i])
           t == CHOOSE s \in [1 .. Cardinality(S) -> S] : InOrder(s)
<1>1. /\ g \in [1 .. n -> S]
      /\ \A x \in S : \E i \in 1 .. n : g[i] = x
      /\ \A i, j \in 1 .. n : i < j => g[i].name < g[j].name
  BY InsertedOrder
<1>2. n \in Nat
  BY LabelType
<1>3. \A x \in S : x.name \in Int
  <2>1. \A x \in ToSet(label) : x.name \in Int
    BY LabelType DEF ToSet
  <2>2. Wrapping.name \in Int
    BY LabelType
  <2> QED BY <2>1, <2>2
<1> HIDE DEF g, S, n
<1>4. ASSUME NEW i \in 1 .. n, NEW j \in 1 .. n, i # j
      PROVE  g[i] # g[j] /\ (g[i].name < g[j].name \/ g[j].name < g[i].name)
  <2>1. i < j \/ j < i
    BY <1>2, <1>4
  <2>2. g[i] \in S /\ g[j] \in S
    BY <1>1
  <2>3. g[i].name \in Int /\ g[j].name \in Int
    BY <1>3, <2>2
  <2> QED BY <1>1, <2>1, <2>3
<1>5. \A x, y \in S : x # y => x.name < y.name \/ y.name < x.name
  <2>1. ASSUME NEW x \in S, NEW y \in S, x # y PROVE x.name < y.name \/ y.name < x.name
    <3>1. PICK i \in 1 .. n : g[i] = x
      BY <1>1
    <3>2. PICK j \in 1 .. n : g[j] = y
      BY <1>1
    <3> QED BY <1>4, <2>1, <3>1, <3>2
  <2> QED BY <2>1
<1>6. IsFiniteSet(S) /\ Cardinality(S) = n
  <2>1. IsFiniteSet(1 .. n) /\ Cardinality(1 .. n) = n
    BY <1>2, FS_Interval
  <2>2. g \in Injection(1 .. n, S) /\ g \in Surjection(1 .. n, S)
    BY <1>1, <1>4 DEF Injection, Surjection, IsInjective
  <2> QED BY <2>1, <2>2, FS_Surjection
<1>7. \A x, y \in S : <<x, y>> \in R <=> x.name < y.name
  OBVIOUS
<1> HIDE DEF R
<1>8. /\ \A x \in S : <<x, x>> \notin R
      /\ \A x, y, z \in S : <<x, y>> \in R /\ <<y, z>> \in R => <<x, z>> \in R
      /\ \A x, y \in S : x # y => <<x, y>> \in R \/ <<y, x>> \in R
  <2>1. ASSUME NEW x \in S, NEW y \in S, NEW z \in S
        PROVE  x.name \in Int /\ y.name \in Int /\ z.name \in Int
    BY <1>3
  <2>2. \A x \in S : ~(x.name < x.name)
    BY <2>1
  <2>3. \A x, y, z \in S : x.name < y.name /\ y.name < z.name => x.name < z.name
    BY <2>1
  <2> QED BY <1>5, <1>7, <2>2, <2>3
<1>9. \E s \in [1 .. Cardinality(S) -> S] : InOrder(s)
  <2>1. PICK s \in [1 .. Cardinality(S) -> S] :
          IsInjective(s) /\ \A i, j \in DOMAIN s : i < j => <<s[j], s[i]>> \notin R
    BY <1>6, <1>8, EnumerationExists
  <2>2. InOrder(s)
    BY <1>7, <2>1 DEF ByName
  <2> QED BY <2>2
<1> HIDE DEF InOrder
<1>10. t \in [1 .. n -> S] /\ InOrder(t)
  BY <1>6, <1>9
<1>11. Ordered(S, ByName) = t
  BY DEF Ordered, InOrder
<1> HIDE DEF t
<1>12. t \in Injection(1 .. n, S)
  BY <1>10 DEF Injection, InOrder
<1>13. \A x \in S : \E i \in 1 .. n : t[i] = x
  <2>1. t \in Surjection(1 .. n, S)
    <3>1. Cardinality(1 .. n) = Cardinality(S)
      BY <1>2, <1>6, FS_Interval
    <3> QED BY <1>6, <1>12, <3>1, FS_Injection
  <2> QED BY <2>1 DEF Surjection
<1>14. \A i, j \in 1 .. n : i < j => t[i].name < t[j].name
  <2>1. ASSUME NEW i \in 1 .. n, NEW j \in 1 .. n, i < j PROVE t[i].name < t[j].name
    <3>1. t[i] # t[j]
      BY <1>10, <1>2, <2>1 DEF InOrder, IsInjective
    <3>2. t[i] \in S /\ t[j] \in S
      BY <1>10
    <3>3. ~(t[j].name < t[i].name)
      BY <1>10, <2>1 DEF InOrder, ByName
    <3> QED BY <1>5, <3>1, <3>2, <3>3
  <2> QED BY <2>1
<1>15. t = g
  <2>1. key \in [S -> Int] /\ \A x \in S : key[x] = x.name
    BY <1>3
  <2>2. \A i, j \in 1 .. n : i < j => key[t[i]] < key[t[j]] /\ key[g[i]] < key[g[j]]
    BY <1>1, <1>10, <1>14, <2>1
  <2> HIDE DEF key
  <2>3. Enumerates(t, n, S, key)
    BY <1>10, <1>13, <2>2 DEF Enumerates
  <2>4. Enumerates(g, n, S, key)
    BY <1>1, <2>2 DEF Enumerates
  <2> QED BY <1>2, <2>1, <2>3, <2>4, EnumerationUnique
<1> QED BY <1>11, <1>15 DEF g, S

(* A metric stays one when it is written.                                  *)
LEMMA WrittenType ==
  ASSUME NEW m \in ConstMetric, Labelled(m.metric.label)
  PROVE  Write(m) \in ConstMetric
<1> DEFINE label == m.metric.label
<1>1. m.name \in Names /\ label \in Seq(LabelPair) /\ m.metric.gauge \in Gauge
  BY DEF ConstMetric, Metric
<1>2. PICK p : Around(label, p)
  BY <1>1, PlaceExists
<1>3. Write(m) = [name |-> m.name, metric |-> [label |-> Inserted(label, p), gauge |-> m.metric.gauge]]
  BY <1>1, <1>2, WrittenLabel DEF Write
<1>4. Inserted(label, p) \in Seq(LabelPair)
  <2>1. Inserted(label, p) \in [1 .. Len(label) + 1 -> ToSet(label) \cup {Wrapping}]
    BY <1>1, <1>2, InsertedOrder
  <2>2. ToSet(label) \cup {Wrapping} \subseteq LabelPair /\ Len(label) + 1 \in Nat
    BY <1>1, LabelType DEF ToSet
  <2>3. Inserted(label, p) \in [1 .. Len(label) + 1 -> LabelPair]
    BY <2>1, <2>2
  <2> QED BY <2>2, <2>3
<1> QED BY <1>1, <1>3, <1>4 DEF ConstMetric, Metric

(* Two metrics of one family are in the order of what the collector gave   *)
(* them for labels.                                                        *)
LEMMA LessWritten ==
  ASSUME NEW x \in Seq(LabelPair), NEW y \in Seq(LabelPair), NEW p \in 0 .. Len(x),
         Len(x) = Len(y), NEW a \in 1 .. Len(x), x[a].value < y[a].value,
         \A b \in 1 .. a - 1 : x[b].value = y[b].value,
         NEW u, NEW v
  PROVE  Less([label |-> Inserted(x, p), gauge |-> u], [label |-> Inserted(y, p), gauge |-> v])
<1> DEFINE n == Len(x)
           X == Inserted(x, p)
           Y == Inserted(y, p)
           c == IF a <= p THEN a ELSE a + 1
<1>1. n \in Nat
  OBVIOUS
<1>2. /\ X = [i \in 1 .. n + 1 |-> IF i <= p THEN x[i] ELSE IF i = p + 1 THEN Wrapping ELSE x[i - 1]]
      /\ Y = [i \in 1 .. n + 1 |-> IF i <= p THEN y[i] ELSE IF i = p + 1 THEN Wrapping ELSE y[i - 1]]
  BY DEF Inserted
<1> HIDE DEF X, Y
<1>3. c \in 1 .. n + 1 /\ X[c] = x[a] /\ Y[c] = y[a]
  BY <1>1, <1>2
<1>4. ASSUME NEW b \in 1 .. c - 1 PROVE X[b].value = Y[b].value
  <2>1. b \in 1 .. n + 1
    BY <1>1
  <2>2. CASE b <= p
    <3>1. b \in 1 .. a - 1
      BY <1>1, <2>2
    <3> QED BY <1>2, <2>1, <2>2, <3>1
  <2>3. CASE b = p + 1
    BY <1>1, <1>2, <2>1, <2>3
  <2>4. CASE b > p + 1
    <3>1. b - 1 \in 1 .. a - 1 /\ ~(b <= p) /\ b # p + 1
      BY <1>1, <2>4
    <3> QED BY <1>2, <2>1, <3>1
  <2> QED BY <1>1, <2>2, <2>3, <2>4
<1>5. Len(X) = n + 1 /\ Len(Y) = n + 1 /\ DOMAIN X = 1 .. n + 1
  BY <1>1, <1>2
<1>6. X[c].value < Y[c].value
  BY <1>3
<1> QED BY <1>3, <1>4, <1>5, <1>6 DEF Less, X, Y

(* What a collector may send, metric by metric.                            *)
LEMMA Collected ==
  ASSUME NEW ms \in Collections
  PROVE  /\ Len(ms) \in Nat /\ DOMAIN ms = 1 .. Len(ms)
         /\ \A i \in DOMAIN ms : /\ ms[i] \in ConstMetric /\ ms[i].metric.label \in Seq(LabelPair)
                                 /\ Labelled(ms[i].metric.label) /\ Write(ms[i]) \in ConstMetric
                                 /\ Write(ms[i]).name = ms[i].name
<1>1. ms \in Seq(ConstMetric)
  BY MetricsAssumption
<1>2. /\ Len(ms) \in Nat /\ DOMAIN ms = 1 .. Len(ms)
      /\ \A i \in DOMAIN ms : ms[i] \in ConstMetric
  BY <1>1
<1>3. \A i \in DOMAIN ms : ms[i].metric.label \in Seq(LabelPair)
  BY <1>2 DEF ConstMetric, Metric
<1>4. \A i \in DOMAIN ms : Labelled(ms[i].metric.label)
  BY CollectAssumption
<1>5. \A i \in DOMAIN ms : Write(ms[i]) \in ConstMetric
  BY <1>2, <1>4, WrittenType
<1>6. \A i \in DOMAIN ms : Write(ms[i]).name = ms[i].name
  BY DEF Write
<1> QED BY <1>2, <1>3, <1>4, <1>5, <1>6

(* The label that is added has one place in a family.                      *)
LEMMA OnePlace ==
  ASSUME NEW ms \in Collections, NEW i \in DOMAIN ms, NEW j \in DOMAIN ms, ms[i].name = ms[j].name
  PROVE  /\ Len(ms[i].metric.label) = Len(ms[j].metric.label)
         /\ \A k \in 1 .. Len(ms[i].metric.label) :
              ms[i].metric.label[k].name = ms[j].metric.label[k].name
         /\ \E p \in 0 .. Len(ms[i].metric.label) :
              /\ Write(ms[i]).metric = [label |-> Inserted(ms[i].metric.label, p), gauge |-> ms[i].metric.gauge]
              /\ Write(ms[j]).metric = [label |-> Inserted(ms[j].metric.label, p), gauge |-> ms[j].metric.gauge]
<1> DEFINE x == ms[i].metric.label
           y == ms[j].metric.label
<1>1. /\ x \in Seq(LabelPair) /\ Labelled(x)
      /\ y \in Seq(LabelPair) /\ Labelled(y)
  BY Collected
<1>2. DOMAIN x = 1 .. Len(x) /\ DOMAIN y = 1 .. Len(y) /\ Len(x) \in Nat
  BY <1>1, LabelType
<1>3. Len(x) = Len(y) /\ \A k \in 1 .. Len(x) : x[k].name = y[k].name
  <2>1. SameDesc(ms[i], ms[j])
    BY CollectAssumption
  <2> QED BY <1>2, <2>1 DEF SameDesc
<1>4. PICK p : Around(x, p)
  BY <1>1, PlaceExists
<1>5. p \in 0 .. Len(x)
  BY <1>4 DEF Around
<1>6. Around(y, p)
  <2>1. 1 .. p \subseteq 1 .. Len(x) /\ p + 1 .. Len(x) \subseteq 1 .. Len(x)
    BY <1>2, <1>5
  <2> HIDE DEF x, y
  <2> QED BY <1>3, <1>4, <1>5, <2>1 DEF Around
<1>7. /\ Ordered(ToSet(x) \cup {Wrapping}, ByName) = Inserted(x, p)
      /\ Ordered(ToSet(y) \cup {Wrapping}, ByName) = Inserted(y, p)
  BY <1>1, <1>4, <1>6, WrittenLabel
<1>8. /\ Write(ms[i]).metric = [label |-> Inserted(x, p), gauge |-> ms[i].metric.gauge]
      /\ Write(ms[j]).metric = [label |-> Inserted(y, p), gauge |-> ms[j].metric.gauge]
  BY <1>7 DEF Write
<1> QED BY <1>3, <1>5, <1>8

LEMMA LessOfLabels ==
  ASSUME NEW ms \in Collections, NEW i \in DOMAIN ms, NEW j \in DOMAIN ms, ms[i].name = ms[j].name,
         NEW a \in 1 .. Len(ms[i].metric.label),
         ms[i].metric.label[a].value < ms[j].metric.label[a].value,
         \A b \in 1 .. a - 1 : ms[i].metric.label[b].value = ms[j].metric.label[b].value
  PROVE  Less(Write(ms[i]).metric, Write(ms[j]).metric)
<1> DEFINE x == ms[i].metric.label
           y == ms[j].metric.label
<1>1. x \in Seq(LabelPair) /\ y \in Seq(LabelPair)
  BY Collected
<1>2. PICK p \in 0 .. Len(x) :
        /\ Write(ms[i]).metric = [label |-> Inserted(x, p), gauge |-> ms[i].metric.gauge]
        /\ Write(ms[j]).metric = [label |-> Inserted(y, p), gauge |-> ms[j].metric.gauge]
  BY OnePlace
<1>3. Len(x) = Len(y)
  BY OnePlace
<1>4. a \in 1 .. Len(x) /\ x[a].value < y[a].value /\ \A b \in 1 .. a - 1 : x[b].value = y[b].value
  OBVIOUS
<1> HIDE DEF x, y
<1>5. \A u, v : Less([label |-> Inserted(x, p), gauge |-> u], [label |-> Inserted(y, p), gauge |-> v])
  BY <1>1, <1>3, <1>4, LessWritten
<1> QED BY <1>2, <1>5

(* Two different sequences of labels first differ somewhere.               *)
LEMMA FirstDifference ==
  ASSUME NEW x \in Seq(LabelPair), NEW y \in Seq(LabelPair), Len(x) = Len(y), x # y
  PROVE  \E a \in 1 .. Len(x) : x[a] # y[a] /\ \A b \in 1 .. a - 1 : x[b] = y[b]
<1> DEFINE n == Len(x)
           T == {a \in 1 .. n : x[a] # y[a]}
<1>0. PICK d \in 1 .. n : x[d] # y[d]
  OBVIOUS
<1>1. d \in T /\ \A a \in T : a \in Nat
  BY <1>0
<1>2. PICK a \in T : \A b \in T : a <= b
  <2> HIDE DEF T
  <2> QED BY <1>1, LeastOf
<1>3. a \in 1 .. n /\ x[a] # y[a]
  BY <1>2
<1>4. ASSUME NEW b \in 1 .. a - 1 PROVE x[b] = y[b]
  <2>1. b \in 1 .. n /\ ~(a <= b)
    BY <1>3
  <2> QED BY <1>2, <2>1
<1> QED BY <1>3, <1>4

(* The metrics of a family are in one order, if none is repeated.          *)
LEMMA FamilyOrder ==
  ASSUME NEW ms \in Collections, ~Repeated(ms), NEW n
  PROVE  LET S == MetricsOf(n, Written(ms))
         IN  /\ Cardinality(S) \in Nat /\ (S # {} => Cardinality(S) # 0)
             /\ S \subseteq Metric
             /\ Ordered(S, Less) \in [1 .. Cardinality(S) -> S]
             /\ \A x \in S : ~Less(x, Ordered(S, Less)[1])
<1> DEFINE D == {i \in DOMAIN ms : ms[i].name = n}
           S == MetricsOf(n, Written(ms))
           f == [i \in D |-> Write(ms[i]).metric]
           R == {z \in S \X S : Less(z[1], z[2])}
           InOrder(s) == IsInjective(s) /\ \A i, j \in DOMAIN s : i < j => ~Less(s[j], s[i])
           t == CHOOSE s \in [1 .. Cardinality(S) -> S] : InOrder(s)
<1>1. S = {f[i] : i \in D}
  <2>1. \A i \in DOMAIN ms : Write(ms[i]).name = ms[i].name
    BY Collected
  <2>2. \A x : x \in S <=> \E i \in DOMAIN ms : Write(ms[i]).name = n /\ x = Write(ms[i]).metric
    BY DEF MetricsOf, Written
  <2>3. \A i \in D : f[i] = Write(ms[i]).metric
    OBVIOUS
  <2>4. \A x : x \in S <=> \E i \in D : x = f[i]
    <3> HIDE DEF S, f
    <3> QED BY <2>1, <2>2, <2>3
  <2> HIDE DEF S, f, D
  <2> QED BY <2>4
<1>2. ASSUME NEW i \in D
      PROVE  /\ i \in DOMAIN ms /\ ms[i].name = n /\ f[i] = Write(ms[i]).metric
             /\ f[i] \in Metric
  <2>1. Write(ms[i]) \in ConstMetric
    BY Collected
  <2> QED BY <2>1 DEF ConstMetric
<1> HIDE DEF S, f
<1>3. IsFiniteSet(S)
  <2>1. IsFiniteSet(D)
    <3>1. Len(ms) \in Nat /\ D \in SUBSET (1 .. Len(ms))
      BY Collected
    <3>2. IsFiniteSet(1 .. Len(ms))
      BY <3>1, FS_Interval
    <3> QED BY <3>1, <3>2, FS_Subset
  <2>2. f \in [D -> S]
    BY <1>1 DEF f
  <2>3. f \in Surjection(D, S)
    BY <1>1, <2>2 DEF Surjection
  <2> QED BY <2>1, <2>3, FS_Surjection
<1>4. ASSUME NEW i \in D, NEW j \in D
      PROVE  /\ Len(f[i].label) = Len(f[j].label) /\ Len(f[i].label) \in Nat
             /\ DOMAIN f[i].label = 1 .. Len(f[i].label)
             /\ \A k \in 1 .. Len(f[i].label) : f[i].label[k].value \in Int
             /\ f[i] # f[j] => Less(f[i], f[j]) \/ Less(f[j], f[i])
  <2> DEFINE x == ms[i].metric.label
             y == ms[j].metric.label
  <2>0. i \in DOMAIN ms /\ j \in DOMAIN ms /\ ms[i].name = n /\ ms[j].name = n
    OBVIOUS
  <2>1. PICK p \in 0 .. Len(x) :
          /\ f[i] = [label |-> Inserted(x, p), gauge |-> ms[i].metric.gauge]
          /\ f[j] = [label |-> Inserted(y, p), gauge |-> ms[j].metric.gauge]
    BY <1>2, <2>0, OnePlace
  <2>2. Len(x) = Len(y) /\ \A k \in 1 .. Len(x) : x[k].name = y[k].name
    BY <2>0, OnePlace
  <2>3. Len(x) \in Nat /\ x \in Seq(LabelPair) /\ y \in Seq(LabelPair)
    BY <2>0, Collected, LabelType
  <2>4. Len(f[i].label) = Len(x) + 1 /\ Len(f[j].label) = Len(y) + 1
    BY <2>1, <2>2, <2>3 DEF Inserted
  <2>5. f[i].label \in Seq(LabelPair)
    BY <1>2 DEF Metric
  <2>6. ASSUME f[i] # f[j] PROVE Less(f[i], f[j]) \/ Less(f[j], f[i])
    <3>1. HashOf(Write(ms[i])) # HashOf(Write(ms[j]))
      <4>1. i # j /\ i \in Nat /\ j \in Nat
        BY <2>0, <2>6, Collected
      <4>2. i < j \/ j < i
        BY <4>1
      <4> QED BY <2>0, <4>2 DEF Repeated
    <3>2. f[i].label # f[j].label
      BY <1>2, <2>0, <3>1, Collected DEF HashOf
    <3>3. x # y
      BY <2>1, <3>2
    <3>5. PICK a \in 1 .. Len(x) : x[a] # y[a] /\ \A b \in 1 .. a - 1 : x[b] = y[b]
      <4> HIDE DEF x, y
      <4> QED BY <2>2, <2>3, <3>3, FirstDifference
    <3>6. x[a].value # y[a].value /\ x[a].value \in Int /\ y[a].value \in Int
      <4>1. x[a] \in LabelPair /\ y[a] \in LabelPair /\ x[a].name = y[a].name
        BY <2>2, <2>3
      <4>2. x[a].value \in Int /\ y[a].value \in Int
        BY <2>2, <2>3, LabelType
      <4> QED BY <3>5, <4>1, <4>2 DEF LabelPair
    <3>7. CASE x[a].value < y[a].value
      <4>1. Less(Write(ms[i]).metric, Write(ms[j]).metric)
        BY <2>0, <3>5, <3>7, LessOfLabels
      <4> QED BY <1>2, <4>1
    <3>8. CASE y[a].value < x[a].value
      <4>1. a \in 1 .. Len(y)
        BY <2>2
      <4>2. Less(Write(ms[j]).metric, Write(ms[i]).metric)
        BY <2>0, <3>5, <3>8, <4>1, LessOfLabels
      <4> QED BY <1>2, <4>2
    <3> QED BY <3>6, <3>7, <3>8
  <2>7. \A k \in 1 .. Len(f[i].label) : f[i].label[k].value \in Int
    BY <2>5, LabelType
  <2> QED BY <2>2, <2>3, <2>4, <2>5, <2>6, <2>7
<1> HIDE DEF D
<1>5. /\ \A x, y \in S : Len(x.label) = Len(y.label)
      /\ \A x \in S : /\ DOMAIN x.label = 1 .. Len(x.label) /\ Len(x.label) \in Nat
                      /\ \A k \in 1 .. Len(x.label) : x.label[k].value \in Int
      /\ \A x, y \in S : x # y => Less(x, y) \/ Less(y, x)
  BY <1>1, <1>4
<1>6. ASSUME NEW x \in S, NEW y \in S
      PROVE  Less(x, y) <=> \E k \in 1 .. Len(x.label) :
                              /\ x.label[k].value < y.label[k].value
                              /\ \A l \in 1 .. k - 1 : x.label[l].value = y.label[l].value
  BY <1>5 DEF Less
<1>7. ASSUME NEW x \in S PROVE ~Less(x, x)
  <2>1. \A k \in 1 .. Len(x.label) : ~(x.label[k].value < x.label[k].value)
    BY <1>5
  <2> QED BY <1>6, <2>1
<1>8. ASSUME NEW x \in S, NEW y \in S, NEW z \in S, Less(x, y), Less(y, z)
      PROVE  Less(x, z)
  <2>1. PICK k \in 1 .. Len(x.label) :
          x.label[k].value < y.label[k].value /\ \A l \in 1 .. k - 1 : x.label[l].value = y.label[l].value
    BY <1>6, <1>8
  <2>2. PICK m \in 1 .. Len(x.label) :
          y.label[m].value < z.label[m].value /\ \A l \in 1 .. m - 1 : y.label[l].value = z.label[l].value
    BY <1>5, <1>6, <1>8
  <2>3. /\ x.label[k].value \in Int /\ y.label[k].value \in Int /\ z.label[k].value \in Int
        /\ x.label[m].value \in Int /\ y.label[m].value \in Int /\ z.label[m].value \in Int
        /\ Len(x.label) \in Nat
    BY <1>5
  <2>4. CASE k <= m
    <3>1. x.label[k].value < z.label[k].value
      <4>1. k = m \/ k \in 1 .. m - 1
        BY <2>3, <2>4
      <4> QED BY <2>1, <2>2, <2>3, <4>1
    <3>2. \A l \in 1 .. k - 1 : x.label[l].value = z.label[l].value
      <4>1. \A l \in 1 .. k - 1 : l \in 1 .. m - 1
        BY <2>3, <2>4
      <4> QED BY <2>1, <2>2, <4>1
    <3> QED BY <1>6, <3>1, <3>2
  <2>5. CASE m < k
    <3>1. x.label[m].value < z.label[m].value
      <4>1. m \in 1 .. k - 1
        BY <2>3, <2>5
      <4> QED BY <2>1, <2>2, <2>3, <4>1
    <3>2. \A l \in 1 .. m - 1 : x.label[l].value = z.label[l].value
      <4>1. \A l \in 1 .. m - 1 : l \in 1 .. k - 1
        BY <2>3, <2>5
      <4> QED BY <2>1, <2>2, <4>1
    <3> QED BY <1>6, <3>1, <3>2
  <2> QED BY <2>3, <2>4, <2>5
<1>9. \A x, y \in S : <<x, y>> \in R <=> Less(x, y)
  BY DEF R
<1> HIDE DEF R
<1>10. /\ \A x \in S : <<x, x>> \notin R
       /\ \A x, y, z \in S : <<x, y>> \in R /\ <<y, z>> \in R => <<x, z>> \in R
       /\ \A x, y \in S : x # y => <<x, y>> \in R \/ <<y, x>> \in R
  BY <1>5, <1>7, <1>8, <1>9
<1>11. \E s \in [1 .. Cardinality(S) -> S] : InOrder(s)
  <2>1. PICK s \in [1 .. Cardinality(S) -> S] :
          IsInjective(s) /\ \A i, j \in DOMAIN s : i < j => <<s[j], s[i]>> \notin R
    BY <1>3, <1>10, EnumerationExists
  <2>2. InOrder(s)
    BY <1>9, <2>1
  <2> QED BY <2>2
<1> HIDE DEF InOrder
<1>12. t \in [1 .. Cardinality(S) -> S] /\ InOrder(t)
  BY <1>11
<1>13. Ordered(S, Less) = t
  BY DEF Ordered, InOrder
<1> HIDE DEF t
<1>14. Cardinality(S) \in Nat /\ (S # {} => Cardinality(S) # 0)
  BY <1>3, FS_CardinalityType, FS_EmptySet
<1>15. ASSUME NEW x \in S PROVE ~Less(x, t[1])
  <2>1. t \in Injection(1 .. Cardinality(S), S)
    BY <1>12 DEF Injection, InOrder
  <2>2. Cardinality(1 .. Cardinality(S)) = Cardinality(S)
    BY <1>14, FS_Interval
  <2>3. t \in Surjection(1 .. Cardinality(S), S)
    BY <1>3, <2>1, <2>2, FS_Injection
  <2>4. PICK k \in 1 .. Cardinality(S) : t[k] = x
    BY <2>3 DEF Surjection
  <2>5. DOMAIN t = 1 .. Cardinality(S) /\ 1 \in 1 .. Cardinality(S)
    BY <1>12, <1>14
  <2>6. CASE k = 1
    BY <1>7, <2>4, <2>6
  <2>7. CASE 1 < k
    BY <1>12, <2>4, <2>5, <2>7 DEF InOrder
  <2> QED BY <1>14, <2>6, <2>7
<1>16. S \subseteq Metric
  BY <1>1, <1>2 DEF D
<1> QED BY <1>12, <1>13, <1>14, <1>15, <1>16 DEF S

-----------------------------------------------------------------------------
(* The loop and the answer.                                                *)

Received == {Write(metrics[i]) : i \in 1 .. received}

Processed ==
  /\ {HashOf(k) : k \in kept} = {HashOf(m) : m \in Received}
  /\ errs => Repeated(metrics)
  /\ ~errs => /\ kept = Received
              /\ \A i, j \in 1 .. received : i < j => HashOf(Write(metrics[i])) # HashOf(Write(metrics[j]))

(* Where the call is tells how far the channel is.                         *)
Stages ==
  /\ pc = "idle" => NoCall
  /\ pc # "idle" /\ ~collecting => taken = Len(metrics)
  /\ pc # "idle" /\ ~wrapping => sent = Len(metrics)
  /\ pc # "replied" => reply = NoReply
  /\ pc = "convert" => /\ received = Len(metrics) /\ ~errs
                       /\ \A m \in kept : m.name \notin todo => m.metric.gauge.value # NaN

IInv == InFlight /\ Processed /\ Stages

LEMMA MetricsTyped ==
  ASSUME InFlight
  PROVE  /\ metrics \in Seq(ConstMetric)
         /\ Len(metrics) \in Nat /\ taken \in Nat /\ sent \in Nat /\ received \in Nat
         /\ DOMAIN metrics = 1 .. Len(metrics)
         /\ \A i \in 1 .. Len(metrics) : metrics[i] \in ConstMetric
<1>1. metrics \in Seq(ConstMetric)
  <2>1. CASE metrics \in Collections
    BY <2>1, MetricsAssumption
  <2>2. CASE metrics = <<>>
    BY <2>2
  <2> QED BY <2>1, <2>2 DEF InFlight
<1> QED BY <1>1 DEF InFlight

(* At first nothing was received.                                          *)
LEMMA InvInit == Init => IInv
<1> SUFFICES ASSUME Init PROVE IInv
  OBVIOUS
<1>1. /\ metrics = <<>> /\ taken = 0 /\ sent = 0 /\ received = 0 /\ kept = {} /\ errs = FALSE
      /\ todo = {} /\ collecting = FALSE /\ wrapping = FALSE /\ closed = FALSE /\ pc = "idle"
  BY DEF Init, NoCall
<1>2. Len(metrics) = 0
  BY <1>1
<1>3. InFlight
  <2>1. /\ taken \in 0 .. Len(metrics) /\ sent \in 0 .. taken /\ taken - sent <= 1
        /\ received \in 0 .. sent /\ sent - received <= Capacity
    BY <1>1, <1>2, CapacityAssumption
  <2>2. /\ collecting \in BOOLEAN /\ wrapping \in BOOLEAN
        /\ closed \in BOOLEAN /\ errs \in BOOLEAN
        /\ closed => ~wrapping /\ sent = Len(metrics)
    BY <1>1
  <2>3. /\ metrics \in Collections \cup {<<>>} /\ kept \subseteq Written(metrics) /\ todo \subseteq Names
        /\ pc \in {"idle", "gather", "convert", "replied"}
    BY <1>1
  <2> QED BY <2>1, <2>2, <2>3 DEF InFlight
<1>4. Received = {}
  BY <1>1 DEF Received
<1>5. Processed
  BY <1>1, <1>4 DEF Processed
<1>6. Stages
  BY <1>1 DEF Init, Stages
<1> QED BY <1>3, <1>5, <1>6 DEF IInv

(* A metric whose hash is new is kept; another one repeats a metric        *)
(* received before it.                                                     *)
LEMMA ReceiveStep == ASSUME IInv, Receive PROVE IInv'
<1> USE DEF IInv
<1> DEFINE m == Write(metrics[received + 1])
           Old == {HashOf(k) : k \in kept}
<1>0. /\ metrics' = metrics /\ received' = received + 1 /\ pc = "gather" /\ pc' = pc
      /\ received < sent /\ UNCHANGED <<taken, sent, collecting, wrapping, closed, todo, reply>>
  BY DEF Receive, channel
<1>1. /\ received \in Nat /\ sent \in Nat /\ sent <= Len(metrics) /\ Len(metrics) \in Nat
      /\ received + 1 \in 1 .. Len(metrics)
      /\ DOMAIN metrics = 1 .. Len(metrics) /\ m \in Written(metrics)
  <2>1. received + 1 \in 1 .. Len(metrics)
    BY <1>0, MetricsTyped DEF InFlight
  <2> QED BY <2>1, MetricsTyped DEF InFlight, Written
<1>2. 1 .. received' = (1 .. received) \cup {received + 1}
  BY <1>0, <1>1
<1>3. Received' = Received \cup {m}
  BY <1>0, <1>2 DEF Received
<1>4. InFlight'
  <2>1. kept' \subseteq Written(metrics') /\ errs' \in BOOLEAN
    BY <1>0, <1>1 DEF Receive, ProcessMetric, InFlight
  <2>2. received' \in 0 .. sent' /\ sent' - received' <= Capacity
    <3>1. sent - received <= Capacity
      BY DEF InFlight
    <3>2. received' = received + 1 /\ sent' = sent /\ received < sent
      BY <1>0
    <3>3. received \in Nat /\ sent \in Nat /\ Capacity \in Nat
      BY <1>1, CapacityAssumption
    <3> QED BY ONLY <3>1, <3>2, <3>3
  <2>3. /\ metrics \in Collections \cup {<<>>}
        /\ taken \in 0 .. Len(metrics) /\ sent \in 0 .. taken /\ taken - sent <= 1
        /\ collecting \in BOOLEAN /\ wrapping \in BOOLEAN /\ closed \in BOOLEAN
        /\ closed => ~wrapping /\ sent = Len(metrics)
        /\ pc \in {"idle", "gather", "convert", "replied"} /\ todo \subseteq Names
    BY DEF InFlight
  <2> QED BY <1>0, <2>1, <2>2, <2>3 DEF InFlight
<1>5. Stages'
  BY <1>0 DEF Stages
<1>6. Processed'
  <2>1. CASE HashOf(m) \in Old
    <3>1. errs' = TRUE /\ kept' = kept
      BY <2>1 DEF Receive, ProcessMetric
    <3>2. PICK i \in 1 .. received : HashOf(Write(metrics[i])) = HashOf(m)
      BY <2>1 DEF Processed, Received
    <3>3. i \in DOMAIN metrics /\ received + 1 \in DOMAIN metrics /\ i < received + 1
      BY <1>1
    <3>4. Repeated(metrics)
      BY <3>2, <3>3 DEF Repeated
    <3>5. {HashOf(x) : x \in Received'} = {HashOf(x) : x \in Received}
      BY <1>3, <2>1 DEF Processed
    <3> QED BY <1>0, <3>1, <3>4, <3>5 DEF Processed
  <2>2. CASE HashOf(m) \notin Old
    <3>1. kept' = kept \cup {m} /\ errs' = errs
      BY <2>2 DEF Receive, ProcessMetric
    <3>2. {HashOf(k) : k \in kept'} = {HashOf(x) : x \in Received'}
      BY <1>3, <3>1 DEF Processed
    <3>3. \A i \in 1 .. received : HashOf(Write(metrics[i])) # HashOf(m)
      BY <2>2 DEF Processed, Received
    <3>4. ASSUME ~errs, NEW i \in 1 .. received', NEW j \in 1 .. received', i < j
          PROVE  HashOf(Write(metrics[i])) # HashOf(Write(metrics[j]))
      <4>1. i \in 1 .. received
        BY <1>0, <1>1, <3>4
      <4>2. j \in 1 .. received \/ j = received + 1
        BY <1>2
      <4> QED BY <3>3, <3>4, <4>1, <4>2 DEF Processed
    <3> QED BY <1>0, <1>3, <3>1, <3>2, <3>4 DEF Processed
  <2> QED BY <2>1, <2>2
<1> QED BY <1>4, <1>5, <1>6

(* The other steps leave what was received alone, or forget it.            *)
LEMMA InvStep == IInv /\ [Next]_vars => IInv'
<1> SUFFICES ASSUME IInv, [Next]_vars PROVE IInv'
  OBVIOUS
<1> USE DEF IInv
<1>1. CASE Call
  <2>0. /\ pc = "idle" /\ NoCall /\ pc' = "gather" /\ metrics' \in Collections
        /\ collecting' = TRUE /\ wrapping' = TRUE /\ UNCHANGED <<taken, sent, closed, received, kept, errs, todo, reply>>
    BY <1>1 DEF Call, Stages
  <2>1. /\ taken' = 0 /\ sent' = 0 /\ received' = 0 /\ kept' = {} /\ errs' = FALSE /\ todo' = {}
        /\ closed' = FALSE
    BY <2>0 DEF NoCall
  <2>2. metrics' \in Seq(ConstMetric)
    BY <2>0, MetricsAssumption
  <2>3. InFlight'
    BY <2>0, <2>1, <2>2, CapacityAssumption DEF InFlight
  <2>4. Received' = {}
    BY <2>1 DEF Received
  <2>5. Processed'
    BY <2>1, <2>4 DEF Processed
  <2>6. Stages'
    BY <2>0 DEF Stages
  <2> QED BY <2>3, <2>5, <2>6
<1>2. CASE HandOver
  <2>0. /\ collecting /\ taken < Len(metrics) /\ taken = sent /\ taken' = taken + 1
        /\ UNCHANGED <<metrics, sent, collecting, wrapping, closed, received, kept, errs, pc, todo, reply>>
    BY <1>2 DEF HandOver, result
  <2>1. InFlight'
    BY <2>0, MetricsTyped DEF InFlight
  <2>2. Processed'
    BY <2>0 DEF Processed, Received
  <2>3. pc # "idle"
    BY <2>0 DEF Stages, NoCall
  <2>4. Stages'
    BY <2>0, <2>3 DEF Stages
  <2> QED BY <2>1, <2>2, <2>4
<1>3. CASE CollectReturns
  <2>0. /\ taken = Len(metrics) /\ collecting /\ collecting' = FALSE
        /\ UNCHANGED <<metrics, taken, sent, wrapping, closed, received, kept, errs, pc, todo, reply>>
    BY <1>3 DEF CollectReturns, result
  <2>1. InFlight'
    BY <2>0 DEF InFlight
  <2>2. Processed'
    BY <2>0 DEF Processed, Received
  <2>3. Stages'
    BY <2>0 DEF Stages, NoCall
  <2> QED BY <2>1, <2>2, <2>3
<1>11. CASE Send
  <2>0. /\ sent < taken /\ sent - received < Capacity /\ sent' = sent + 1
        /\ UNCHANGED <<metrics, taken, collecting, wrapping, closed, received, kept, errs, pc, todo, reply>>
    BY <1>11 DEF Send, result
  <2>1. InFlight'
    BY <2>0, MetricsTyped, CapacityAssumption DEF InFlight
  <2>2. Processed'
    BY <2>0 DEF Processed, Received
  <2>3. pc # "idle"
    BY <2>0 DEF Stages, NoCall
  <2>4. sent # Len(metrics)
    BY <2>0, MetricsTyped DEF InFlight
  <2>5. Stages'
    BY <2>0, <2>3, <2>4 DEF Stages
  <2> QED BY <2>1, <2>2, <2>5
<1>12. CASE WrapperReturns
  <2>0. /\ wrapping /\ ~collecting /\ sent = taken /\ wrapping' = FALSE
        /\ UNCHANGED <<metrics, taken, sent, collecting, closed, received, kept, errs, pc, todo, reply>>
    BY <1>12 DEF WrapperReturns, result
  <2>1. InFlight'
    BY <2>0 DEF InFlight
  <2>2. Processed'
    BY <2>0 DEF Processed, Received
  <2>3. Stages'
    BY <2>0 DEF Stages, NoCall
  <2> QED BY <2>1, <2>2, <2>3
<1>4. CASE Close
  <2>0. /\ pc = "gather" /\ ~wrapping /\ closed' = TRUE
        /\ UNCHANGED <<metrics, taken, sent, collecting, wrapping, received, kept, errs, pc, todo, reply>>
    BY <1>4 DEF Close, result
  <2>1. sent = Len(metrics)
    BY <2>0 DEF Stages
  <2>2. InFlight'
    BY <2>0, <2>1 DEF InFlight
  <2>3. Processed'
    BY <2>0 DEF Processed, Received
  <2>4. Stages'
    BY <2>0 DEF Stages
  <2> QED BY <2>2, <2>3, <2>4
<1>5. CASE Receive
  BY <1>5, ReceiveStep
<1>6. CASE Gathered
  <2>0. /\ pc = "gather" /\ closed /\ received = sent
        /\ UNCHANGED <<metrics, taken, sent, collecting, wrapping, closed, received, kept, errs>>
        /\ \/ errs /\ pc' = "replied" /\ todo' = todo
           \/ ~errs /\ pc' = "convert" /\ todo' = {m.name : m \in kept} /\ reply' = reply
    BY <1>6 DEF Gathered, Drained, channel, result
  <2>1. received = Len(metrics)
    BY <2>0 DEF InFlight
  <2>2. ASSUME NEW m \in kept PROVE m.name \in Names
    <3>1. PICK i \in DOMAIN metrics : m = Write(metrics[i])
      BY DEF InFlight, Written
    <3>2. metrics[i] \in ConstMetric
      BY MetricsTyped
    <3> QED BY <3>1, <3>2 DEF Write, ConstMetric
  <2>3. InFlight'
    BY <2>0, <2>2 DEF InFlight
  <2>4. Processed'
    BY <2>0 DEF Processed, Received
  <2>5. Stages'
    BY <2>0, <2>1 DEF Stages
  <2> QED BY <2>3, <2>4, <2>5
<1>7. ASSUME NEW n \in Names, Convert(n) PROVE IInv'
  <2>0. /\ pc = "convert" /\ n \in todo
        /\ UNCHANGED <<metrics, taken, sent, collecting, wrapping, closed, received, kept, errs>>
        /\ \/ /\ Encodable(MetricsToConvert(n))
              /\ todo' = todo \ {n} /\ pc' = pc /\ reply' = reply
           \/ todo' = {} /\ pc' = "replied"
    BY <1>7 DEF Convert, channel, result
  <2>1. InFlight'
    BY <2>0 DEF InFlight
  <2>2. Processed'
    BY <2>0 DEF Processed, Received
  <2>3. Stages'
    BY <2>0 DEF Stages, Encodable, MetricsToConvert
  <2> QED BY <2>1, <2>2, <2>3
<1>8. CASE Respond
  <2>0. /\ pc = "convert" /\ pc' = "replied"
        /\ UNCHANGED <<metrics, taken, sent, collecting, wrapping, closed, received, kept, errs, todo>>
    BY <1>8 DEF Respond, channel, result
  <2>1. InFlight'
    BY <2>0 DEF InFlight
  <2>2. Processed'
    BY <2>0 DEF Processed, Received
  <2>3. Stages'
    BY <2>0 DEF Stages
  <2> QED BY <2>1, <2>2, <2>3
<1>9. CASE Over
  <2>1. /\ metrics' = <<>> /\ taken' = 0 /\ sent' = 0 /\ received' = 0 /\ kept' = {} /\ errs' = FALSE
        /\ todo' = {} /\ collecting' = FALSE /\ wrapping' = FALSE /\ closed' = FALSE /\ pc' = "idle"
        /\ reply' = NoReply
    BY <1>9 DEF Over
  <2>2. InFlight'
    <3>1. /\ taken' \in 0 .. Len(metrics') /\ sent' \in 0 .. taken' /\ taken' - sent' <= 1
          /\ received' \in 0 .. sent' /\ sent' - received' <= Capacity
      BY <2>1, CapacityAssumption
    <3>2. /\ collecting' \in BOOLEAN /\ wrapping' \in BOOLEAN
          /\ closed' \in BOOLEAN /\ errs' \in BOOLEAN
          /\ closed' => ~wrapping' /\ sent' = Len(metrics')
      BY <2>1
    <3>3. /\ metrics' \in Collections \cup {<<>>} /\ kept' \subseteq Written(metrics')
          /\ todo' \subseteq Names /\ pc' \in {"idle", "gather", "convert", "replied"}
      BY <2>1
    <3> QED BY <3>1, <3>2, <3>3 DEF InFlight
  <2>3. Received' = {}
    BY <2>1 DEF Received
  <2>4. Processed'
    BY <2>1, <2>3 DEF Processed
  <2>5. Stages'
    BY <2>1 DEF Stages, NoCall
  <2> QED BY <2>2, <2>4, <2>5
<1>10. CASE UNCHANGED vars
  BY <1>10 DEF vars, InFlight, Processed, Received, Stages, NoCall
<1> QED BY <1>1, <1>2, <1>3, <1>4, <1>5, <1>6, <1>7, <1>8, <1>9, <1>10, <1>11, <1>12
    DEF Next, Collector, Wrapper, Gatherer

(* The channel holds at most its capacity and is closed only after the     *)
(* collector has returned, whatever the turns of the goroutines.           *)
THEOREM NoSendAfterClose == Spec => []InFlight
<1>1. IInv => InFlight
  BY DEF IInv
<1> QED BY <1>1, InvInit, InvStep, PTL DEF Spec

(* When the loop is left, what was received is what the collector sent.    *)
LEMMA AllReceived ==
  ASSUME IInv, received = Len(metrics)
  PROVE  /\ errs => Repeated(metrics)
         /\ ~errs => kept = Written(metrics) /\ ~Repeated(metrics)
<1>1. DOMAIN metrics = 1 .. received
  BY MetricsTyped DEF IInv
<1>2. Received = Written(metrics)
  BY <1>1 DEF Received, Written
<1> QED BY <1>1, <1>2 DEF IInv, Processed, Repeated

LEMMA AbstractInit == Init => Abstract!Init
<1> SUFFICES ASSUME Init PROVE Abstract!Init
  OBVIOUS
<1>1. pc = "idle" /\ metrics = <<>> /\ reply = NoReply
  BY DEF Init, NoCall
<1> QED BY <1>1 DEF Abstract!Init

(* An answer is given at the end of the gathering, if it has errors, with  *)
(* the first family that cannot be encoded, or with the last one; every    *)
(* other step of a call changes nothing that is seen of it.                *)
LEMMA AbstractStep == IInv /\ [Next]_vars => [Abstract!Next]_(Abstract!specVars)
<1> SUFFICES ASSUME IInv, [Next]_vars PROVE [Abstract!Next]_(Abstract!specVars)
  OBVIOUS
<1> USE DEF IInv
<1>1. CASE Call
  <2>1. /\ pc = "idle" /\ pc' = "gather" /\ metrics' \in Collections /\ reply' = reply
    BY <1>1 DEF Call
  <2>2. Abstract!Call
    BY <2>1 DEF Abstract!Call
  <2> QED BY <2>2 DEF Abstract!Next
<1>2. CASE HandOver \/ CollectReturns \/ Send \/ WrapperReturns \/ Close \/ Receive
  <2>1. UNCHANGED <<metrics, pc, reply>>
    BY <1>2 DEF HandOver, CollectReturns, Send, WrapperReturns, Close, Receive, channel
  <2> QED BY <2>1 DEF Abstract!specVars
<1>3. CASE Gathered
  <2>1. pc = "gather" /\ metrics' = metrics /\ closed /\ received = sent
    BY <1>3 DEF Gathered, Drained, channel
  <2>2. received = Len(metrics)
    BY <2>1 DEF InFlight
  <2>3. CASE errs
    <3>1. pc' = "replied" /\ reply' = Refused
      BY <1>3, <2>3 DEF Gathered
    <3>2. Repeated(metrics)
      BY <2>2, <2>3, AllReceived
    <3>3. Abstract!Answer
      BY <2>1, <3>1, <3>2 DEF Abstract!Answer, AnswerTo
    <3> QED BY <3>3 DEF Abstract!Next
  <2>4. CASE ~errs
    <3>1. pc' = "convert" /\ reply' = reply
      BY <1>3, <2>4 DEF Gathered
    <3> QED BY <2>1, <3>1 DEF Abstract!specVars
  <2> QED BY <2>3, <2>4
<1>4. ASSUME NEW n \in Names, Convert(n) PROVE [Abstract!Next]_(Abstract!specVars)
  <2>1. pc = "convert" /\ metrics' = metrics
    BY <1>4 DEF Convert, channel
  <2>2. CASE Encodable(MetricsToConvert(n))
    BY <1>4, <2>1, <2>2 DEF Convert, Abstract!specVars
  <2>3. CASE ~Encodable(MetricsToConvert(n))
    <3>1. pc' = "replied" /\ reply' = Refused
      BY <1>4, <2>3 DEF Convert
    <3>2. kept = Written(metrics)
      BY <2>1, AllReceived DEF Stages
    <3>3. ~Encodable(Written(metrics))
      BY <2>3, <3>2 DEF Encodable, MetricsToConvert
    <3>4. Abstract!Answer
      BY <2>1, <3>1, <3>3 DEF Abstract!Answer, AnswerTo
    <3> QED BY <3>4 DEF Abstract!Next
  <2> QED BY <2>2, <2>3
<1>5. CASE Respond
  <2>1. /\ pc = "convert" /\ pc' = "replied" /\ metrics' = metrics /\ todo = {}
        /\ reply' = [status |-> "ok", message |-> Message(kept)]
    BY <1>5 DEF Respond, channel
  <2>2. kept = Written(metrics) /\ ~Repeated(metrics)
    BY <2>1, AllReceived DEF Stages
  <2>3. Encodable(Written(metrics))
    BY <2>1, <2>2 DEF Stages, Encodable
  <2>4. Abstract!Answer
    BY <2>1, <2>2, <2>3 DEF Abstract!Answer, AnswerTo
  <2> QED BY <2>4 DEF Abstract!Next
<1>6. CASE Over
  <2>1. pc # "idle" /\ pc' = "idle" /\ metrics' = <<>> /\ reply' = NoReply
    BY <1>6 DEF Over
  <2>2. Abstract!Over
    BY <2>1 DEF Abstract!Over
  <2> QED BY <2>2 DEF Abstract!Next
<1>7. CASE UNCHANGED vars
  BY <1>7 DEF vars, Abstract!specVars
<1> QED BY <1>1, <1>2, <1>3, <1>4, <1>5, <1>6, <1>7 DEF Next, Collector, Wrapper, Gatherer

(* A call answers in one step from what the collector sent: nothing is     *)
(* lost, nothing is added, and an error is one of the whole.               *)
THEOREM GatherAnswersAtOnce == Spec => AnswersAtOnce
<1>1. Spec => []IInv
  BY InvInit, InvStep, PTL DEF Spec
<1> QED BY <1>1, AbstractInit, AbstractStep, PTL DEF Spec, AnswersAtOnce, Abstract!Spec

-----------------------------------------------------------------------------
(* What is answered, and that it makes sense to its reader.                *)

Answered == pc = "replied" => reply = AnswerTo(metrics)

(* No other step than the abstract one's makes an answer.                  *)
LEMMA AnsweredStep == IInv /\ Answered /\ [Next]_vars => Answered'
<1> SUFFICES ASSUME IInv, Answered, [Next]_vars, pc' = "replied"
             PROVE  reply' = AnswerTo(metrics')
  BY DEF Answered
<1> DEFINE seen == IF pc \in {"gather", "convert"} THEN "called" ELSE pc
<1>0. [Abstract!Next]_(Abstract!specVars)
  BY AbstractStep
<1>1. seen' = "replied"
  OBVIOUS
<1>2. CASE Abstract!Call
  BY <1>1, <1>2 DEF Abstract!Call
<1>3. CASE Abstract!Answer
  BY <1>3 DEF Abstract!Answer
<1>4. CASE Abstract!Over
  BY <1>1, <1>4 DEF Abstract!Over
<1>5. CASE UNCHANGED Abstract!specVars
  <2>1. seen' = seen /\ metrics' = metrics /\ reply' = reply
    BY <1>5 DEF Abstract!specVars
  <2>2. pc = "replied"
    BY <1>1, <2>1
  <2> QED BY <2>1, <2>2 DEF Answered
<1> QED BY <1>0, <1>2, <1>3, <1>4, <1>5 DEF Abstract!Next

LEMMA AnsweredAlways == Spec => [](IInv /\ Answered)
<1>1. Init => IInv /\ Answered
  BY InvInit DEF Init, Answered
<1> QED BY <1>1, InvStep, AnsweredStep, PTL DEF Spec

(* Every family of a message is of the type api.pb.go gives it.            *)
LEMMA MessageType ==
  ASSUME NEW ms \in Collections, ~Repeated(ms)
  PROVE  /\ DOMAIN Message(Written(ms)) \subseteq Names
         /\ \A n \in DOMAIN Message(Written(ms)) : Message(Written(ms))[n] \in MetricFamily
<1>1. DOMAIN Message(Written(ms)) = {m.name : m \in Written(ms)}
  BY DEF Message
<1>2. \A m \in Written(ms) : m.name \in Names
  <2>1. \A m \in Written(ms) : m \in ConstMetric
    BY Collected DEF Written
  <2> QED BY <2>1 DEF ConstMetric
<1>3. ASSUME NEW n \in DOMAIN Message(Written(ms))
      PROVE  Message(Written(ms))[n] \in MetricFamily
  <2> DEFINE S == MetricsOf(n, Written(ms))
  <2>1. Message(Written(ms))[n] = [name |-> n, type |-> MetricType.GAUGE, metric |-> Ordered(S, Less)]
    BY DEF Message, Family
  <2>2. Cardinality(S) \in Nat /\ S \subseteq Metric /\ Ordered(S, Less) \in [1 .. Cardinality(S) -> S]
    BY FamilyOrder
  <2> HIDE DEF S
  <2>3. Ordered(S, Less) \in [1 .. Cardinality(S) -> Metric]
    BY <2>2
  <2>4. Ordered(S, Less) \in Seq(Metric)
    BY <2>2, <2>3
  <2>5. n \in Names
    BY <1>1, <1>2
  <2> QED BY <2>1, <2>4, <2>5 DEF MetricFamily
<1> QED BY <1>1, <1>2, <1>3

LEMMA AnswerType ==
  ASSUME NEW ms \in Collections \cup {<<>>}
  PROVE  /\ AnswerTo(ms).status \in {"ok", "error"}
         /\ DOMAIN AnswerTo(ms).message \subseteq Names
         /\ \A n \in DOMAIN AnswerTo(ms).message : AnswerTo(ms).message[n] \in MetricFamily
<1>1. CASE AnswerTo(ms) = Refused
  <2>1. AnswerTo(ms).status = "error" /\ DOMAIN AnswerTo(ms).message = {}
    BY <1>1 DEF Refused, EmptyMessage
  <2> QED BY <2>1
<1>2. CASE AnswerTo(ms) # Refused
  <2>1. ~Repeated(ms) /\ AnswerTo(ms) = [status |-> "ok", message |-> Message(Written(ms))]
    BY <1>2 DEF AnswerTo
  <2>2. CASE ms \in Collections
    BY <2>1, <2>2, MessageType
  <2>3. CASE ms = <<>>
    <3>1. Written(ms) = {}
      BY <2>3 DEF Written
    <3>2. DOMAIN Message(Written(ms)) = {}
      BY <3>1 DEF Message
    <3> QED BY <2>1, <3>2
  <2> QED BY <2>2, <2>3
<1> QED BY <1>1, <1>2

(* For any collector, names and labels: every answer is an error without a *)
(* message or a message all of whose families are of the type the readers  *)
(* of api.pb.go expect.                                                    *)
THEOREM TypeCorrect == Spec => []TypeOK
<1>1. ASSUME IInv, Answered PROVE TypeOK
  <2>1. InFlight
    BY <1>1 DEF IInv
  <2>2. kept \subseteq ConstMetric
    <3>1. ASSUME NEW i \in DOMAIN metrics PROVE Write(metrics[i]) \in ConstMetric
      <4>1. metrics \in Collections
        BY <2>1 DEF InFlight
      <4> QED BY <4>1, Collected
    <3> QED BY <2>1, <3>1 DEF InFlight, Written
  <2>3. CASE pc = "replied"
    <3>1. reply = AnswerTo(metrics) /\ metrics \in Collections \cup {<<>>}
      BY <1>1, <2>1, <2>3 DEF Answered, InFlight
    <3> QED BY <2>1, <2>2, <3>1, AnswerType DEF TypeOK
  <2>4. CASE pc # "replied"
    <3>1. reply = NoReply
      BY <1>1, <2>4 DEF IInv, Stages
    <3>2. reply.status = "none" /\ DOMAIN reply.message = {}
      BY <3>1 DEF NoReply, EmptyMessage
    <3> QED BY <2>1, <2>2, <3>2 DEF TypeOK
  <2> QED BY <2>3, <2>4
<1> QED BY <1>1, AnsweredAlways, PTL

(* The first metric of a family is one of those the collector sent for it, *)
(* and none of them is before it.                                          *)
LEMMA FirstOfFamily ==
  ASSUME NEW ms \in Collections, ~Repeated(ms), NEW n \in DOMAIN Message(Written(ms))
  PROVE  \E j \in DOMAIN ms :
           /\ ms[j].name = n
           /\ Message(Written(ms))[n].metric[1] = Write(ms[j]).metric
           /\ \A k \in DOMAIN ms : ms[k].name = n => ~Less(Write(ms[k]).metric, Write(ms[j]).metric)
<1> DEFINE S == MetricsOf(n, Written(ms))
<1>1. Message(Written(ms))[n].metric = Ordered(S, Less)
  BY DEF Message, Family
<1>2. \A x : x \in S <=> \E j \in DOMAIN ms : ms[j].name = n /\ x = Write(ms[j]).metric
  <2>1. \A j \in DOMAIN ms : Write(ms[j]).name = ms[j].name
    BY Collected
  <2> QED BY <2>1 DEF MetricsOf, Written
<1>3. S # {}
  <2>1. PICK m \in Written(ms) : m.name = n
    BY DEF Message
  <2>2. m.metric \in S
    BY <2>1 DEF MetricsOf
  <2> QED BY <2>2
<1>4. /\ Cardinality(S) \in Nat /\ (S # {} => Cardinality(S) # 0)
      /\ Ordered(S, Less) \in [1 .. Cardinality(S) -> S]
      /\ \A x \in S : ~Less(x, Ordered(S, Less)[1])
  BY FamilyOrder
<1> HIDE DEF S
<1>5. 1 \in 1 .. Cardinality(S)
  BY <1>3, <1>4
<1>6. Ordered(S, Less)[1] \in S
  BY <1>4, <1>5
<1>7. PICK j \in DOMAIN ms : ms[j].name = n /\ Ordered(S, Less)[1] = Write(ms[j]).metric
  BY <1>2, <1>6
<1>8. \A k \in DOMAIN ms : ms[k].name = n => Write(ms[k]).metric \in S
  BY <1>2
<1> QED BY <1>1, <1>4, <1>7, <1>8

(* Were the first metrics of two families of two sources, one of the two   *)
(* sources would come first, and it has a metric in the other's family.    *)
LEMMA FirstsOfOneSource ==
  ASSUME NEW ms \in Collections, NEW i \in DOMAIN ms, NEW j \in DOMAIN ms,
         \A k \in DOMAIN ms : ms[k].name = ms[i].name => ~Less(Write(ms[k]).metric, Write(ms[i]).metric),
         \A k \in DOMAIN ms : ms[k].name = ms[j].name => ~Less(Write(ms[k]).metric, Write(ms[j]).metric)
  PROVE  SameSource(ms[j].metric.label, ms[i].metric.label)
<1> DEFINE x == ms[i].metric.label
           y == ms[j].metric.label
           T == {a \in DOMAIN x \cap DOMAIN y : x[a] # y[a]}
<1>1. /\ Len(x) \in Nat /\ DOMAIN x = 1 .. Len(x) /\ \A a \in DOMAIN x : x[a] \in LabelPair /\ x[a].value \in Int
      /\ Len(y) \in Nat /\ DOMAIN y = 1 .. Len(y) /\ \A a \in DOMAIN y : y[a] \in LabelPair /\ y[a].value \in Int
  BY Collected, LabelType
<1>2. \A a \in DOMAIN x \cap DOMAIN y : x[a].name = y[a].name
  <2>1. SameDesc(ms[i], ms[j])
    BY CollectAssumption
  <2> QED BY <2>1 DEF SameDesc
<1>3. SUFFICES ASSUME T # {} PROVE FALSE
  BY DEF SameSource
<1>4. PICK a \in T : \A b \in T : a <= b
  <2>1. T \subseteq Nat
    BY <1>1
  <2> HIDE DEF T
  <2> QED BY <1>3, <2>1, LeastOf
<1>5. a \in DOMAIN x /\ a \in DOMAIN y /\ x[a] # y[a]
  BY <1>4
<1>6. \A b \in 1 .. a - 1 : b \in DOMAIN x /\ b \in DOMAIN y /\ x[b] = y[b]
  <2>1. ASSUME NEW b \in 1 .. a - 1 PROVE b \in DOMAIN x /\ b \in DOMAIN y /\ x[b] = y[b]
    <3>1. b \in DOMAIN x /\ b \in DOMAIN y /\ ~(a <= b)
      BY <1>1, <1>5
    <3> QED BY <1>4, <3>1
  <2> QED BY <2>1
<1>7. x[a].value # y[a].value
  BY <1>1, <1>2, <1>5 DEF LabelPair
<1>8. EachOfEach(ms)
  BY CollectAssumption
<1>9. CASE x[a].value < y[a].value
  <2>1. PICK k \in DOMAIN ms : ms[k].name = ms[j].name /\ SameSource(ms[k].metric.label, x)
    BY <1>8 DEF EachOfEach
  <2> DEFINE z == ms[k].metric.label
  <2>2. DOMAIN z = 1 .. Len(z) /\ Len(z) = Len(y)
    BY <2>1, Collected, LabelType, OnePlace
  <2>3. \A b \in 1 .. a : z[b] = x[b]
    <3>1. \A b \in 1 .. a : b \in DOMAIN z /\ b \in DOMAIN x
      BY <1>1, <1>5, <2>2
    <3> QED BY <2>1, <3>1 DEF SameSource
  <2>4. a \in 1 .. Len(z) /\ a \in 1 .. a
    BY <1>1, <1>5, <2>2
  <2>5. z[a].value < y[a].value /\ \A b \in 1 .. a - 1 : z[b].value = y[b].value
    <3>1. \A b \in 1 .. a - 1 : b \in 1 .. a
      BY <1>1, <1>5
    <3> QED BY <1>6, <1>9, <2>3, <2>4, <3>1
  <2>6. Less(Write(ms[k]).metric, Write(ms[j]).metric)
    BY <2>1, <2>4, <2>5, LessOfLabels
  <2> QED BY <2>1, <2>6
<1>10. CASE y[a].value < x[a].value
  <2>1. PICK k \in DOMAIN ms : ms[k].name = ms[i].name /\ SameSource(ms[k].metric.label, y)
    BY <1>8 DEF EachOfEach
  <2> DEFINE z == ms[k].metric.label
  <2>2. DOMAIN z = 1 .. Len(z) /\ Len(z) = Len(x)
    BY <2>1, Collected, LabelType, OnePlace
  <2>3. \A b \in 1 .. a : z[b] = y[b]
    <3>1. \A b \in 1 .. a : b \in DOMAIN z /\ b \in DOMAIN y
      BY <1>1, <1>5, <2>2
    <3> QED BY <2>1, <3>1 DEF SameSource
  <2>4. a \in 1 .. Len(z) /\ a \in 1 .. a
    BY <1>1, <1>5, <2>2
  <2>5. z[a].value < x[a].value /\ \A b \in 1 .. a - 1 : z[b].value = x[b].value
    <3>1. \A b \in 1 .. a - 1 : b \in 1 .. a
      BY <1>1, <1>5
    <3> QED BY <1>6, <1>10, <2>3, <2>4, <3>1
  <2>6. Less(Write(ms[k]).metric, Write(ms[i]).metric)
    BY <2>1, <2>4, <2>5, LessOfLabels
  <2> QED BY <2>1, <2>6
<1> QED BY <1>1, <1>5, <1>7, <1>9, <1>10

(* What Work prints of a first metric is what the collector said with it:  *)
(* the label that is added comes before the version.                       *)
LEMMA ShownIsSaid ==
  ASSUME NEW ms \in Collections, NEW j \in DOMAIN ms, NEW message,
         message[ms[j].name].metric[1] = Write(ms[j]).metric
  PROVE  Shown(message, ms[j].name) = Said(ms[j])
<1> DEFINE x == ms[j].metric.label
           first == Write(ms[j]).metric
<1>1. CASE ms[j].name = DriverVersion
  <2>1. Len(x) = 3 /\ Wrapping.name < x[3].name
    <3>1. OfVersion(x)
      BY <1>1, CollectAssumption
    <3>2. x[3].name \in Int /\ Wrapping.name \in Int
      BY <3>1, Collected, LabelType DEF OfVersion
    <3> QED BY <3>1, <3>2 DEF OfVersion
  <2>2. x \in Seq(LabelPair) /\ Labelled(x)
    BY Collected
  <2>3. PICK p : Around(x, p)
    BY <2>2, PlaceExists
  <2>4. p \in 0 .. 2
    <3>1. p \in 0 .. 3 /\ \A i \in 1 .. p : x[i].name < Wrapping.name
      BY <2>1, <2>3 DEF Around
    <3>2. p # 3
      <4>1. x[3].name \in Int /\ Wrapping.name \in Int
        BY <2>1, <2>2, LabelType
      <4> QED BY <2>1, <3>1, <4>1
    <3> QED BY <3>1, <3>2
  <2>5. first.label = Inserted(x, p)
    BY <2>2, <2>3, WrittenLabel DEF Write
  <2>6. Inserted(x, p)[4] = x[3]
    BY <2>1, <2>4 DEF Inserted
  <2>7. Last(x) = x[3]
    BY <2>1 DEF Last
  <2> QED BY <1>1, <2>5, <2>6, <2>7 DEF Shown, Said
<1>2. CASE ms[j].name # DriverVersion
  <2>1. first.gauge = ms[j].metric.gauge
    BY DEF Write
  <2>2. first # NIL /\ first.gauge # NIL
    <3>1. first \in Metric
      BY Collected DEF ConstMetric
    <3> QED BY <3>1, MetricsAssumption DEF Metric
  <2>3. GetValue(GetGauge(first)) = ms[j].metric.gauge.value
    BY <2>1, <2>2 DEF GetGauge, GetValue
  <2> QED BY <1>2, <2>3 DEF Shown, Said
<1> QED BY <1>1, <1>2

(* For any number of GPUs or of pods, in whatever order they were sent:    *)
(* what Work prints as a node's is of one GPU, and its version the version.*)
THEOREM PrintedOfOneSource == Spec => []OneSource
<1>1. ASSUME IInv, Answered PROVE OneSource
  <2> SUFFICES ASSUME reply.status = "ok", metrics # <<>>
               PROVE  \E i \in DOMAIN metrics : \A n \in DOMAIN reply.message :
                        \E j \in DOMAIN metrics :
                          /\ metrics[j].name = n
                          /\ SameSource(metrics[j].metric.label, metrics[i].metric.label)
                          /\ Shown(reply.message, n) = Said(metrics[j])
    BY DEF OneSource
  <2>1. metrics \in Collections
    BY <1>1 DEF IInv, InFlight
  <2>2. reply = AnswerTo(metrics)
    <3>1. reply # NoReply
      BY DEF NoReply
    <3> QED BY <1>1, <3>1 DEF IInv, Stages, Answered
  <2>3. ~Repeated(metrics) /\ reply.message = Message(Written(metrics))
    BY <2>2 DEF AnswerTo, Refused
  <2> DEFINE First(j) ==
               /\ reply.message[metrics[j].name].metric[1] = Write(metrics[j]).metric
               /\ \A k \in DOMAIN metrics :
                    metrics[k].name = metrics[j].name =>
                      ~Less(Write(metrics[k]).metric, Write(metrics[j]).metric)
  <2>4. \A n \in DOMAIN reply.message : \E j \in DOMAIN metrics : metrics[j].name = n /\ First(j)
    BY <2>1, <2>3, FirstOfFamily
  <2>5. PICK i \in DOMAIN metrics : First(i)
    <3>1. 1 \in DOMAIN metrics
      BY <2>1, Collected
    <3>2. metrics[1].name \in DOMAIN reply.message
      BY <2>1, <2>3, <3>1, Collected DEF Message, Written
    <3> QED BY <2>4, <3>2
  <2>6. ASSUME NEW n \in DOMAIN reply.message
        PROVE  \E j \in DOMAIN metrics :
                 /\ metrics[j].name = n
                 /\ SameSource(metrics[j].metric.label, metrics[i].metric.label)
                 /\ Shown(reply.message, n) = Said(metrics[j])
    <3>1. PICK j \in DOMAIN metrics : metrics[j].name = n /\ First(j)
      BY <2>4
    <3>2. SameSource(metrics[j].metric.label, metrics[i].metric.label)
      BY <2>1, <2>5, <3>1, FirstsOfOneSource
    <3>3. Shown(reply.message, n) = Said(metrics[j])
      BY <2>1, <3>1, ShownIsSaid
    <3> QED BY <3>1, <3>2, <3>3
  <2> QED BY <2>6
<1> QED BY <1>1, AnsweredAlways, PTL
=============================================================================
