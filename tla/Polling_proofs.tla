---------------------------- MODULE Polling_proofs ----------------------------
(***************************************************************************)
(* For any nodes, times and turns of the processes: the collections of one *)
(* call in one agent begin a pause apart, so that their number is bounded, *)
(* and what is printed is as fresh as the call.                            *)
(* The invariant follows the time that is left: what the watcher still     *)
(* sleeps makes up for what is missing to a pause since it last asked.     *)
(* What a round has spent bounds in turn the time since a call was asked.  *)
(***************************************************************************)
EXTENDS Polling, SequenceTheorems, FiniteSetTheorems, TLAPS

(* Two ages are as many pauses apart as there are steps between them.      *)
Spaced(s) ==
  \A i, j \in DOMAIN s : i < j => s[i] + Pause * (j - i) <= s[j]

Running == \A p \in Served : Spaced(collections[p])

InTime == \A p \in Served : \A i \in DOMAIN collections[p] : collections[p][i] <= Longest

(* No call is made before a pause has passed since the last, whoever it    *)
(* came to then.                                                           *)
Apart ==
  \A p \in Served : \A i \in DOMAIN collections[p] :
    /\ pc \in {"starting", "pause"} => Pause <= collections[p][i] + timer
    /\ pc \in {"round", "wait"} /\ p[1] \in todo => Pause <= collections[p][i]
    /\ request = "sent" /\ p[1] = at => Pause <= collections[p][i]

(* The collection that is waited for began within the call's second.       *)
Own ==
  /\ pc = "wait" => timer <= Timeout /\ at \notin todo
  /\ request = "begun" => /\ <<at, server>> \in Served
                          /\ collections[<<at, server>>] # <<>>
                          /\ collections[<<at, server>>][1] + timer <= Timeout

IInv == TypeOK /\ Running /\ InTime /\ Apart /\ Own /\ ShownFresh

-----------------------------------------------------------------------------
(* The arithmetic of pauses.                                               *)
LEMMA PausesGrow ==
  ASSUME NEW k \in Int, NEW m \in Int, k <= m
  PROVE  Pause * k <= Pause * m
BY ConstantsAssumption

LEMMA OnePauseMore ==
  ASSUME NEW k \in Int
  PROVE  Pause * (k + 1) = Pause * k + Pause /\ Pause * k \in Int
BY ConstantsAssumption

(* A new collection has age 0 and comes first.                             *)
LEMMA NewFirst ==
  ASSUME NEW s \in Seq(Nat)
  PROVE  /\ <<0>> \o s \in Seq(Nat)
         /\ Len(<<0>> \o s) = Len(s) + 1
         /\ (<<0>> \o s)[1] = 0
         /\ \A i \in 2 .. Len(s) + 1 : (<<0>> \o s)[i] = s[i - 1]
OBVIOUS

LEMMA SpacedNew ==
  ASSUME NEW s \in Seq(Nat), Spaced(s), \A i \in DOMAIN s : Pause <= s[i]
  PROVE  Spaced(<<0>> \o s)
<1> DEFINE t == <<0>> \o s
<1>1. /\ t \in Seq(Nat) /\ Len(t) = Len(s) + 1 /\ t[1] = 0
      /\ \A i \in 2 .. Len(s) + 1 : t[i] = s[i - 1]
  BY NewFirst
<1>2. DOMAIN t = 1 .. Len(s) + 1 /\ DOMAIN s = 1 .. Len(s) /\ Len(s) \in Nat
  BY <1>1
<1> SUFFICES ASSUME NEW i \in DOMAIN t, NEW j \in DOMAIN t, i < j
             PROVE  t[i] + Pause * (j - i) <= t[j]
  BY DEF Spaced
<1> HIDE DEF t
<1>3. i \in Int /\ j \in 2 .. Len(s) + 1 /\ t[j] = s[j - 1] /\ j - 1 \in DOMAIN s
  <2>1. i \in Int /\ j \in 2 .. Len(s) + 1
    BY <1>2
  <2>2. j - 1 \in DOMAIN s
    BY <1>2, <2>1
  <2> QED BY <1>1, <2>1, <2>2
<1>4. CASE i = 1
  <2>1. t[i] = 0 /\ s[1] \in Nat /\ s[j - 1] \in Nat
    BY <1>1, <1>2, <1>3, <1>4
  <2>2. CASE j = 2
    <3>1. Pause * (j - i) = Pause
      BY <1>4, <2>2, ConstantsAssumption
    <3>2. Pause <= s[j - 1]
      BY <1>3
    <3> QED BY ONLY <1>3, <2>1, <3>1, <3>2, ConstantsAssumption
  <2>3. CASE j > 2
    <3> DEFINE steps == Pause * (j - 1 - 1)
    <3>1. 1 \in DOMAIN s /\ 1 < j - 1
      BY <1>2, <1>3, <2>3
    <3>2. s[1] + steps <= s[j - 1] /\ Pause <= s[1]
      BY <1>3, <3>1 DEF Spaced
    <3>3. Pause * (j - 1) = steps + Pause /\ steps \in Int
      <4>1. j - 1 - 1 \in Int /\ (j - 1 - 1) + 1 = j - 1
        BY <1>3
      <4> QED BY <4>1, OnePauseMore
    <3>4. Pause * (j - i) = Pause * (j - 1)
      BY <1>4
    <3> HIDE DEF steps
    <3>5. t[i] + Pause * (j - i) = steps + Pause
      BY ONLY <2>1, <3>3, <3>4, ConstantsAssumption
    <3>6. steps + Pause <= s[j - 1]
      BY ONLY <2>1, <3>2, <3>3, ConstantsAssumption
    <3> QED BY <1>3, <3>5, <3>6
  <2> QED BY <1>3, <2>2, <2>3
<1>5. CASE i # 1
  <2>0. i \in 2 .. Len(s) + 1 /\ i - 1 \in 1 .. Len(s) /\ i - 1 < j - 1
    BY ONLY <1>2, <1>3, <1>5, i \in DOMAIN t, i < j
  <2>1. t[i] = s[i - 1] /\ i - 1 \in DOMAIN s /\ i - 1 < j - 1
    BY <1>1, <1>2, <2>0
  <2>2. s[i - 1] + Pause * ((j - 1) - (i - 1)) <= s[j - 1]
    BY <1>3, <2>1 DEF Spaced
  <2>3. (j - 1) - (i - 1) = j - i
    BY <1>3
  <2> QED BY <1>3, <2>1, <2>2, <2>3
<1> QED BY <1>4, <1>5

(* A part of a sequence.                                                   *)
LEMMA Part ==
  ASSUME NEW s, NEW m \in Int, NEW n \in Int, \A i \in m .. n : s[i] \in Nat
  PROVE  /\ SubSeq(s, m, n) \in Seq(Nat)
         /\ Len(SubSeq(s, m, n)) = IF m <= n THEN n - m + 1 ELSE 0
         /\ \A i \in 1 .. n - m + 1 : SubSeq(s, m, n)[i] = s[m + i - 1]
<1>1. SubSeq(s, m, n) \in Seq(Nat)
  BY SubSeqProperties
<1>2. Len(SubSeq(s, m, n)) = IF m <= n THEN n - m + 1 ELSE 0
  BY SubSeqProperties
<1>3. \A i \in 1 .. n - m + 1 : SubSeq(s, m, n)[i] = s[m + i - 1]
  BY SubSeqProperties
<1> QED BY <1>1, <1>2, <1>3

(* Places in a sequence of n elements before and after the k-th is gone.   *)
LEMMA PlacesAfter ==
  ASSUME NEW n \in Nat, NEW k \in 1 .. n
  PROVE  /\ (IF k + 1 <= n THEN n - (k + 1) + 1 ELSE 0) = n - k
         /\ \A i \in 1 .. n - k : i \in 1 .. n - (k + 1) + 1 /\ k + 1 + i - 1 = i + k
OBVIOUS

LEMMA PlacesMoved ==
  ASSUME NEW n \in Nat, NEW k \in 1 .. n, NEW i \in 1 .. n - 1, ~(i < k)
  PROVE  /\ i - (k - 1) \in 1 .. n - k /\ i - (k - 1) + k = i + 1
         /\ ~(i <= k - 1) /\ i + 1 \in 1 .. n
OBVIOUS

(* What is left when one is taken out.                                     *)
LEMMA Removed ==
  ASSUME NEW s \in Seq(Nat), NEW k \in DOMAIN s
  PROVE  /\ RemoveAt(s, k) \in Seq(Nat)
         /\ Len(RemoveAt(s, k)) = Len(s) - 1
         /\ \A i \in DOMAIN RemoveAt(s, k) :
              IF i < k THEN i \in DOMAIN s /\ RemoveAt(s, k)[i] = s[i]
                       ELSE i + 1 \in DOMAIN s /\ RemoveAt(s, k)[i] = s[i + 1]
<1> DEFINE a == SubSeq(s, 1, k - 1)
           b == SubSeq(s, k + 1, Len(s))
<1>1. k \in 1 .. Len(s) /\ Len(s) \in Nat /\ DOMAIN s = 1 .. Len(s) /\ k \in Nat
  BY LenProperties
<1>2. a \in Seq(Nat) /\ Len(a) = k - 1 /\ \A i \in 1 .. k - 1 : a[i] = s[i]
  <2>1. \A i \in 1 .. k - 1 : s[i] \in Nat
    BY <1>1
  <2>2. /\ a \in Seq(Nat) /\ Len(a) = IF 1 <= k - 1 THEN k - 1 - 1 + 1 ELSE 0
        /\ \A i \in 1 .. k - 1 - 1 + 1 : a[i] = s[1 + i - 1]
    <3>1. 1 \in Int /\ k - 1 \in Int
      BY <1>1
    <3> QED BY ONLY <2>1, <3>1, Part
  <2>3. \A i \in 1 .. k - 1 : i \in 1 .. k - 1 - 1 + 1 /\ 1 + i - 1 = i
    BY <1>1
  <2> QED BY <1>1, <2>2, <2>3
<1>3. /\ b \in Seq(Nat) /\ Len(b) = Len(s) - k
      /\ \A i \in 1 .. Len(s) - k : b[i] = s[i + k]
  <2>1. \A i \in k + 1 .. Len(s) : s[i] \in Nat
    BY <1>1
  <2>2. /\ b \in Seq(Nat) /\ Len(b) = IF k + 1 <= Len(s) THEN Len(s) - (k + 1) + 1 ELSE 0
        /\ \A i \in 1 .. Len(s) - (k + 1) + 1 : b[i] = s[k + 1 + i - 1]
    <3>1. k + 1 \in Int /\ Len(s) \in Int
      BY <1>1
    <3> QED BY ONLY <2>1, <3>1, Part
  <2>3. /\ (IF k + 1 <= Len(s) THEN Len(s) - (k + 1) + 1 ELSE 0) = Len(s) - k
        /\ \A i \in 1 .. Len(s) - k : i \in 1 .. Len(s) - (k + 1) + 1 /\ k + 1 + i - 1 = i + k
    BY ONLY <1>1, PlacesAfter
  <2> HIDE DEF b
  <2>4. ASSUME NEW i \in 1 .. Len(s) - k PROVE b[i] = s[i + k]
    BY <2>2, <2>3
  <2> QED BY <2>2, <2>3, <2>4
<1>4. RemoveAt(s, k) = a \o b
  BY DEF RemoveAt
<1> HIDE DEF a, b
<1>5. /\ a \o b \in Seq(Nat) /\ Len(a \o b) = Len(s) - 1
      /\ \A i \in 1 .. Len(s) - 1 : (a \o b)[i] = IF i <= k - 1 THEN a[i] ELSE b[i - (k - 1)]
  <2>1. /\ a \o b \in Seq(Nat) /\ Len(a \o b) = Len(a) + Len(b)
        /\ \A i \in 1 .. Len(a) + Len(b) :
             (a \o b)[i] = IF i <= Len(a) THEN a[i] ELSE b[i - Len(a)]
    <3>1. a \in Seq(Nat) /\ b \in Seq(Nat)
      BY <1>2, <1>3
    <3>2. a \o b \in Seq(Nat)
      BY ONLY <3>1, ConcatProperties
    <3>3. Len(a \o b) = Len(a) + Len(b)
      BY ONLY <3>1, ConcatProperties
    <3>4. \A i \in 1 .. Len(a) + Len(b) :
            (a \o b)[i] = IF i <= Len(a) THEN a[i] ELSE b[i - Len(a)]
      BY ONLY <3>1, ConcatProperties
    <3> QED BY <3>2, <3>3, <3>4
  <2>2. Len(a) + Len(b) = Len(s) - 1
    BY <1>1, <1>2, <1>3
  <2> QED BY <1>2, <2>1, <2>2
<1>6. ASSUME NEW i \in DOMAIN (a \o b)
      PROVE  IF i < k THEN i \in DOMAIN s /\ (a \o b)[i] = s[i]
                      ELSE i + 1 \in DOMAIN s /\ (a \o b)[i] = s[i + 1]
  <2>1. i \in 1 .. Len(s) - 1
    BY <1>5
  <2>2. CASE i < k
    <3>1. i \in 1 .. k - 1 /\ i <= k - 1 /\ i \in DOMAIN s
      BY <1>1, <2>1, <2>2
    <3> QED BY <1>2, <1>5, <2>1, <2>2, <3>1
  <2>3. CASE ~(i < k)
    <3>1. /\ i - (k - 1) \in 1 .. Len(s) - k /\ i - (k - 1) + k = i + 1
          /\ ~(i <= k - 1) /\ i + 1 \in DOMAIN s
      <4>1. Len(s) \in Nat /\ k \in 1 .. Len(s) /\ i \in 1 .. Len(s) - 1 /\ ~(i < k)
        BY <1>1, <2>1, <2>3
      <4>2. /\ i - (k - 1) \in 1 .. Len(s) - k /\ i - (k - 1) + k = i + 1
            /\ ~(i <= k - 1) /\ i + 1 \in 1 .. Len(s)
        BY ONLY <4>1, PlacesMoved
      <4> QED BY <1>1, <4>2
    <3>2. (a \o b)[i] = b[i - (k - 1)]
      BY <1>5, <2>1, <3>1
    <3> QED BY <1>3, <2>3, <3>1, <3>2
  <2> QED BY <2>2, <2>3
<1> QED BY <1>4, <1>5, <1>6

LEMMA SpacedRemoved ==
  ASSUME NEW s \in Seq(Nat), NEW k \in DOMAIN s, Spaced(s)
  PROVE  Spaced(RemoveAt(s, k))
<1> DEFINE t == RemoveAt(s, k)
           old(i) == IF i < k THEN i ELSE i + 1
<1>1. t \in Seq(Nat) /\ k \in Nat /\ DOMAIN s \subseteq Nat
  BY Removed
<1>2. ASSUME NEW i \in DOMAIN t
      PROVE  i \in Nat /\ old(i) \in DOMAIN s /\ t[i] = s[old(i)]
  <2>1. i \in Nat
    BY <1>1
  <2>2. IF i < k THEN i \in DOMAIN s /\ t[i] = s[i]
                 ELSE i + 1 \in DOMAIN s /\ t[i] = s[i + 1]
    BY Removed
  <2> QED BY <2>1, <2>2
<1> SUFFICES ASSUME NEW i \in DOMAIN t, NEW j \in DOMAIN t, i < j
             PROVE  t[i] + Pause * (j - i) <= t[j]
  BY DEF Spaced
<1> HIDE DEF t
<1>3. /\ i \in Nat /\ j \in Nat /\ old(i) \in Nat /\ old(j) \in Nat
      /\ old(i) < old(j) /\ j - i <= old(j) - old(i)
  <2>1. i \in Nat /\ j \in Nat
    BY <1>2
  <2>2. k \in Nat
    BY <1>1
  <2>3. CASE i < k
    BY ONLY <2>1, <2>2, <2>3, i < j
  <2>4. CASE ~(i < k)
    BY ONLY <2>1, <2>2, <2>4, i < j
  <2> QED BY <2>3, <2>4
<1>4. /\ old(i) \in DOMAIN s /\ t[i] = s[old(i)]
      /\ old(j) \in DOMAIN s /\ t[j] = s[old(j)]
  BY <1>2
<1> HIDE DEF old
<1>8. s[old(i)] \in Nat /\ s[old(j)] \in Nat
  BY <1>4
<1>5. s[old(i)] + Pause * (old(j) - old(i)) <= s[old(j)]
  BY <1>3, <1>4 DEF Spaced
<1>6. j - i \in Int /\ old(j) - old(i) \in Int
  BY <1>3
<1>7. /\ Pause * (j - i) <= Pause * (old(j) - old(i))
      /\ Pause * (j - i) \in Int /\ Pause * (old(j) - old(i)) \in Int
  BY <1>3, <1>6, PausesGrow, OnePauseMore
<1> QED BY ONLY <1>4, <1>5, <1>7, <1>8

(* They all grow older together.                                           *)
LEMMA SpacedOlder ==
  ASSUME NEW s \in Seq(Nat), Spaced(s)
  PROVE  /\ [i \in DOMAIN s |-> s[i] + 1] \in Seq(Nat)
         /\ Spaced([i \in DOMAIN s |-> s[i] + 1])
<1> DEFINE t == [i \in DOMAIN s |-> s[i] + 1]
<1>1. t \in Seq(Nat)
  OBVIOUS
<1> SUFFICES ASSUME NEW i \in DOMAIN s, NEW j \in DOMAIN s, i < j
             PROVE  t[i] + Pause * (j - i) <= t[j]
  BY <1>1 DEF Spaced
<1>2. s[i] + Pause * (j - i) <= s[j]
  BY DEF Spaced
<1>3. s[i] \in Nat /\ s[j] \in Nat /\ j - i \in Int
  OBVIOUS
<1>4. Pause * (j - i) \in Int
  BY <1>3, OnePauseMore
<1> QED BY <1>2, <1>3, <1>4

LEMMA PausesWithin ==
  ASSUME NEW n \in Nat, NEW m \in Nat, n < Pause * (m + 1)
  PROVE  \A k \in Nat : Pause * (k - 1) <= n => k <= m + 1
<1> SUFFICES ASSUME NEW k \in Nat, Pause * (k - 1) <= n, k > m + 1 PROVE FALSE
  OBVIOUS
<1>1. Pause * (m + 1) <= Pause * (k - 1)
  BY PausesGrow
<1>2. Pause * (m + 1) \in Int /\ Pause * (k - 1) \in Int
  BY ConstantsAssumption
<1> QED BY ONLY <1>1, <1>2, Pause * (k - 1) <= n, n < Pause * (m + 1), n \in Nat

LEMMA PausesInLongest ==
  /\ Longest \div Pause \in Nat
  /\ Longest < Pause * (Longest \div Pause + 1)
BY ConstantsAssumption

LEMMA SpacedBound ==
  ASSUME NEW s \in Seq(Nat), Spaced(s), \A i \in DOMAIN s : s[i] <= Longest
  PROVE  DOMAIN s \subseteq 1 .. (Longest \div Pause + 1)
<1>1. Len(s) \in Nat /\ DOMAIN s = 1 .. Len(s)
  OBVIOUS
<1>2. CASE Len(s) <= 1
  BY <1>1, <1>2, PausesInLongest
<1>3. CASE Len(s) > 1
  <2>1. 1 \in DOMAIN s /\ Len(s) \in DOMAIN s /\ 1 < Len(s)
    BY <1>1, <1>3
  <2>2. s[1] + Pause * (Len(s) - 1) <= s[Len(s)]
    BY <2>1 DEF Spaced
  <2>3. s[1] \in Nat /\ s[Len(s)] \in Nat /\ s[Len(s)] <= Longest
    BY <2>1
  <2>4. Pause * (Len(s) - 1) \in Int /\ Longest \in Nat
    BY <1>1, OnePauseMore, ConstantsAssumption
  <2>5. Pause * (Len(s) - 1) <= Longest
    BY <2>2, <2>3, <2>4
  <2>6. Len(s) <= Longest \div Pause + 1
    BY <1>1, <2>4, <2>5, PausesInLongest, PausesWithin
  <2> QED BY <1>1, <2>6, PausesInLongest
<1> QED BY <1>1, <1>2, <1>3

-----------------------------------------------------------------------------
(* A call is made of the method it is of.                                  *)
LEMMA HandlerFound ==
  ASSUME NEW c \in Calls
  PROVE  <<c[1], Handler[c[2]]>> = c
BY DEF Calls, Handler

LEMMA NoCallIsNone == NoCall \notin Calls
BY DEF NoCall, Calls

LEMMA ServedType ==
  ASSUME NEW p \in Served
  PROVE  p = <<p[1], p[2]>> /\ p[1] \in Calls /\ p[2] \in Nodes
BY DEF Served

LEMMA InvInit == Init => IInv
<1> SUFFICES ASSUME Init PROVE IInv
  OBVIOUS
<1>1. TypeOK
  <2>1. <<>> \in Seq(Nat)
    OBVIOUS
  <2>2. collections \in [Served -> Seq(Nat)]
    BY <2>1, Zenon DEF Init
  <2>3. shown \in [Calls -> Nat] /\ asked \in [Calls -> Nat]
    BY DEF Init
  <2> QED BY <2>2, <2>3, ConstantsAssumption DEF Init, TypeOK
<1>2. \A p \in Served : DOMAIN collections[p] = {}
  <2>1. \A p \in Served : collections[p] = <<>>
    BY DEF Init
  <2>2. DOMAIN <<>> = {}
    OBVIOUS
  <2> QED BY <2>1, <2>2, Zenon
<1>3. Running /\ InTime /\ Apart
  BY <1>2 DEF Running, Spaced, InTime, Apart
<1>4. Own
  BY DEF Init, Own
<1>5. ShownFresh
  <2>1. \A c \in Calls : shown[c] = 0
    BY DEF Init
  <2> QED BY <2>1, ConstantsAssumption DEF ShownFresh
<1> QED BY <1>1, <1>3, <1>4, <1>5 DEF IInv

(* A sequence less one of its elements, in the terms of the invariant.     *)
LEMMA StepRemove ==
  ASSUME IInv, NEW p \in Served, NEW i \in DOMAIN collections[p],
         collections' = [collections EXCEPT ![p] = RemoveAt(@, i)]
  PROVE  /\ collections' \in [Served -> Seq(Nat)]
         /\ Running'
         /\ InTime'
         /\ \A q \in Served : \A k \in DOMAIN collections'[q] :
              \E l \in DOMAIN collections[q] : collections'[q][k] = collections[q][l]
<1>1. collections \in [Served -> Seq(Nat)] /\ collections[p] \in Seq(Nat)
  BY DEF IInv, TypeOK
<1>2. collections'[p] = RemoveAt(collections[p], i)
      /\ \A q \in Served \ {p} : collections'[q] = collections[q]
  BY <1>1
<1>3. collections' \in [Served -> Seq(Nat)]
  BY <1>1, <1>2, Removed
<1>4. Running'
  BY <1>1, <1>2, SpacedRemoved DEF IInv, Running
<1>5. \A q \in Served : \A k \in DOMAIN collections'[q] :
        \E l \in DOMAIN collections[q] : collections'[q][k] = collections[q][l]
  <2> TAKE q \in Served
  <2> TAKE k \in DOMAIN collections'[q]
  <2>1. CASE q = p
    <3>1. k \in DOMAIN RemoveAt(collections[p], i) /\ collections'[q] = RemoveAt(collections[p], i)
      BY <1>2, <2>1
    <3>2. IF k < i THEN k \in DOMAIN collections[p] /\ collections'[q][k] = collections[p][k]
                   ELSE k + 1 \in DOMAIN collections[p] /\ collections'[q][k] = collections[p][k + 1]
      BY <1>1, <3>1, Removed
    <3> QED BY <2>1, <3>2
  <2>2. CASE q # p
    BY <1>2, <2>2
  <2> QED BY <2>1, <2>2
<1>6. InTime'
  BY <1>5 DEF IInv, InTime
<1> QED BY <1>3, <1>4, <1>5, <1>6

(* The processes that end take their collections with them.                *)
LEMMA StepEnded ==
  ASSUME IInv, NEW n, collections' = Ended(n)
  PROVE  /\ collections' \in [Served -> Seq(Nat)]
         /\ Running'
         /\ InTime'
         /\ \A q \in Served : collections'[q] = <<>> \/ collections'[q] = collections[q]
         /\ \A q \in Served : q[2] # n => collections'[q] = collections[q]
<1>1. /\ collections' \in [Served -> Seq(Nat)]
      /\ \A q \in Served : collections'[q] = <<>> \/ collections'[q] = collections[q]
      /\ \A q \in Served : q[2] # n => collections'[q] = collections[q]
  BY DEF Ended, IInv, TypeOK
<1>2. Running'
  <2> SUFFICES ASSUME NEW q \in Served PROVE Spaced(collections'[q])
    BY DEF Running, Spaced
  <2>1. CASE collections'[q] = <<>>
    BY <2>1 DEF Spaced
  <2>2. CASE collections'[q] = collections[q]
    BY <2>2 DEF IInv, Running
  <2> QED BY <1>1, <2>1, <2>2
<1>3. InTime'
  <2> SUFFICES ASSUME NEW q \in Served, NEW k \in DOMAIN collections'[q]
               PROVE  collections'[q][k] <= Longest
    BY DEF InTime
  <2>1. collections'[q] = collections[q]
    BY <1>1
  <2> QED BY <2>1 DEF IInv, InTime
<1> QED BY <1>1, <1>2, <1>3

LEMMA AskStep ==
  ASSUME IInv, NEW c \in Calls, Ask(c)
  PROVE  IInv'
<1>1. /\ timer' = Timeout /\ Timeout \in Nat \ {0} /\ request' = "sent" /\ server' = server
      /\ c \in todo /\ todo \subseteq Calls /\ todo' = todo \ {c} /\ pc = "round" /\ pc' = "wait"
      /\ at' = c /\ shown' = shown /\ collections' = collections
      /\ listed' = listed /\ local' = local
  BY ConstantsAssumption DEF IInv, TypeOK, CallsFor, Ask, Ready, mapper
<1>2. TypeOK'
  <2>1. server = NoNode /\ todo' \subseteq CallsFor(listed)
    BY <1>1 DEF IInv, TypeOK
  <2>2. asked' \in [Calls -> Nat]
    BY DEF IInv, TypeOK, Ask
  <2> QED BY <1>1, <2>1, <2>2, NoCallIsNone DEF IInv, TypeOK, CallsFor
<1>3. Running' /\ InTime'
  BY <1>1 DEF IInv, Running, InTime, Spaced
<1>4. Own' /\ ShownFresh'
  BY <1>1 DEF IInv, Own, ShownFresh
<1>5. Apart'
  BY <1>1 DEF IInv, Apart
<1> QED BY <1>2, <1>3, <1>4, <1>5 DEF IInv

LEMMA InvokeStep ==
  ASSUME IInv, NEW c \in Calls, NEW n \in Nodes, Invoke(c, n)
  PROVE  IInv'
<1> DEFINE p == <<c, n>>
<1>1. /\ p \in Served /\ p[1] = c /\ p[2] = n
      /\ collections \in [Served -> Seq(Nat)] /\ collections[p] \in Seq(Nat)
      /\ pc = "wait" /\ at = c /\ request = "sent" /\ request' = "begun" /\ server' = n
      /\ Timeout \in Nat /\ Longest \in Nat /\ timer \in Nat
      /\ UNCHANGED <<pc, timer, listed, local, todo, at, shown, asked>>
  BY HandlerFound, ConstantsAssumption DEF IInv, TypeOK, Invoke, mapper
<1>2. collections' = [collections EXCEPT ![p] = <<0>> \o @]
  BY HandlerFound DEF Invoke
<1> HIDE DEF p
<1>3. collections'[p] = <<0>> \o collections[p]
      /\ \A q \in Served \ {p} : collections'[q] = collections[q]
  BY <1>1, <1>2
<1>4. /\ <<0>> \o collections[p] \in Seq(Nat)
      /\ Len(<<0>> \o collections[p]) = Len(collections[p]) + 1
      /\ (<<0>> \o collections[p])[1] = 0
      /\ \A i \in 2 .. Len(collections[p]) + 1 :
           (<<0>> \o collections[p])[i] = collections[p][i - 1]
  BY <1>1, NewFirst
<1>5. TypeOK'
  <2>1. collections' \in [Served -> Seq(Nat)]
    BY <1>1, <1>2, <1>4
  <2> QED BY <1>1, <2>1, NoCallIsNone, ConstantsAssumption DEF IInv, TypeOK
<1>6. Running'
  <2>1. \A i \in DOMAIN collections[p] : Pause <= collections[p][i]
    BY <1>1 DEF IInv, Apart
  <2>2. Spaced(collections[p]) /\ \A q \in Served : Spaced(collections[q])
    BY <1>1 DEF IInv, Running
  <2>3. Spaced(<<0>> \o collections[p])
    BY <1>1, <2>1, <2>2, SpacedNew
  <2> SUFFICES ASSUME NEW q \in Served PROVE Spaced(collections'[q])
    BY DEF Running, Spaced
  <2> QED BY <1>3, <2>2, <2>3
<1>7. InTime'
  <2> SUFFICES ASSUME NEW q \in Served, NEW k \in DOMAIN collections'[q]
               PROVE  collections'[q][k] <= Longest
    BY DEF InTime
  <2>1. CASE q # p
    BY <1>3, <2>1 DEF IInv, InTime
  <2>2. CASE q = p
    <3>1. k \in 1 .. Len(collections[p]) + 1 /\ DOMAIN collections[p] = 1 .. Len(collections[p])
          /\ Len(collections[p]) \in Nat
      BY <1>1, <1>3, <1>4, <2>2
    <3>2. CASE k = 1
      BY <1>1, <1>3, <1>4, <2>2, <3>2
    <3>3. CASE k # 1
      <4>1. k \in 2 .. Len(collections[p]) + 1 /\ k - 1 \in DOMAIN collections[p]
        BY <3>1, <3>3
      <4>2. collections'[q][k] = collections[p][k - 1]
        BY <1>3, <1>4, <2>2, <4>1
      <4> QED BY <1>1, <4>1, <4>2 DEF IInv, InTime
    <3> QED BY <3>2, <3>3
  <2> QED BY <2>1, <2>2
<1>8. Apart'
  <2> SUFFICES ASSUME NEW q \in Served, NEW k \in DOMAIN collections'[q], q[1] \in todo
               PROVE  Pause <= collections'[q][k]
    BY <1>1 DEF Apart
  <2>1. q # p
    BY <1>1 DEF IInv, Own
  <2>2. collections'[q] = collections[q]
    BY <1>3, <2>1
  <2> QED BY <1>1, <2>2 DEF IInv, Apart
<1>9. Own'
  <2>1. collections'[p] # <<>> /\ collections'[p][1] = 0
    BY <1>1, <1>3, <1>4
  <2>2. timer <= Timeout /\ at \notin todo
    BY <1>1 DEF IInv, Own
  <2>3. <<at', server'>> = p
    BY <1>1 DEF p
  <2>4. collections'[p][1] + timer' <= Timeout
    BY <1>1, <2>1, <2>2
  <2>5. /\ <<at', server'>> \in Served /\ collections'[<<at', server'>>] # <<>>
        /\ collections'[<<at', server'>>][1] + timer' <= Timeout
    BY <1>1, <2>1, <2>3, <2>4
  <2> QED BY <1>1, <2>2, <2>5 DEF Own
<1>10. ShownFresh'
  BY <1>1 DEF IInv, ShownFresh
<1> QED BY <1>5, <1>6, <1>7, <1>8, <1>9, <1>10 DEF IInv

LEMMA AnsweredStep ==
  ASSUME IInv, NEW p \in Served, NEW i \in DOMAIN collections[p], Answered(p, i)
  PROVE  IInv'
<1>1. /\ collections' = [collections EXCEPT ![p] = RemoveAt(@, i)]
      /\ pc = "wait" /\ p = <<at, server>> /\ i = 1
      /\ pc' = "round" /\ at' = NoCall /\ request' = "none" /\ server' = NoNode /\ timer' = 0
      /\ todo' = todo /\ asked' = asked /\ listed' = listed /\ local' = local
  BY DEF Answered, Awaited, Returned, mapper
<1>2. /\ collections' \in [Served -> Seq(Nat)]
      /\ Running'
      /\ InTime'
      /\ \A q \in Served : \A k \in DOMAIN collections'[q] :
           \E l \in DOMAIN collections[q] : collections'[q][k] = collections[q][l]
  BY <1>1, StepRemove
<1>3. request = "begun" /\ p[1] \in Calls
  <2>1. p[2] = server /\ p[2] \in Nodes /\ p[1] \in Calls
    BY <1>1, ServedType
  <2> QED BY <2>1, ConstantsAssumption DEF IInv, TypeOK
<1>4. collections[p][1] \in Nat /\ timer \in Nat /\ collections[p][1] + timer <= Timeout
  BY <1>1, <1>3 DEF IInv, TypeOK, Own
<1>5. shown' = [shown EXCEPT ![p[1]] = collections[p][1]] \/ shown' = shown
  BY <1>1 DEF Answered
<1>6. TypeOK'
  <2>1. shown' \in [Calls -> Nat]
    BY <1>3, <1>4, <1>5 DEF IInv, TypeOK
  <2>2. /\ pc' = "round" /\ at' = NoCall /\ request' = "none" /\ server' = NoNode /\ timer' = 0
        /\ UNCHANGED <<listed, local, todo, asked>> /\ collections' \in [Served -> Seq(Nat)]
    BY <1>1, <1>2
  <2>3. TypeOK
    BY DEF IInv
  <2> QED BY ONLY <2>1, <2>2, <2>3 DEF TypeOK, CallsFor
<1>7. Apart'
  <2>1. /\ pc = "wait" /\ pc' = "round" /\ request' = "none" /\ todo' = todo
    BY <1>1
  <2>2. Apart
    BY DEF IInv
  <2> QED BY ONLY <1>2, <2>1, <2>2 DEF Apart
<1>8. ShownFresh'
  <2>1. collections[p][1] <= Timeout
    BY <1>4, ConstantsAssumption
  <2> QED BY <1>3, <1>5, <2>1 DEF IInv, TypeOK, ShownFresh
<1> QED BY <1>1, <1>2, <1>6, <1>7, <1>8 DEF IInv, Own

LEMMA AnsweredTooLateStep ==
  ASSUME IInv, NEW p \in Served, NEW i \in DOMAIN collections[p], AnsweredTooLate(p, i)
  PROVE  IInv'
<1>1. /\ collections' = [collections EXCEPT ![p] = RemoveAt(@, i)]
      /\ ~(pc = "wait" /\ p = <<at, server>> /\ i = 1)
      /\ UNCHANGED <<pc, timer, listed, local, todo, at, request, server, shown, asked>>
  BY DEF AnsweredTooLate, Awaited, mapper
<1>2. /\ collections' \in [Served -> Seq(Nat)]
      /\ Running'
      /\ InTime'
      /\ \A q \in Served : \A k \in DOMAIN collections'[q] :
           \E l \in DOMAIN collections[q] : collections'[q][k] = collections[q][l]
  BY <1>1, StepRemove
<1>3. TypeOK' /\ ShownFresh'
  BY <1>1, <1>2 DEF IInv, TypeOK, ShownFresh
<1>4. Apart'
  BY <1>1, <1>2 DEF IInv, Apart
<1>5. Own'
  <2> DEFINE o == <<at, server>>
  <2> SUFFICES ASSUME request = "begun"
               PROVE  /\ o \in Served /\ collections'[o] # <<>>
                      /\ collections'[o][1] + timer <= Timeout
    BY <1>1 DEF IInv, Own
  <2>1. /\ o \in Served /\ pc = "wait" /\ collections \in [Served -> Seq(Nat)]
        /\ collections[o] # <<>> /\ collections[o][1] + timer <= Timeout
    BY DEF IInv, TypeOK, Own
  <2>2. ~(p = o /\ i = 1)
    BY <1>1, <2>1
  <2> HIDE DEF o
  <2>3. CASE p # o
    BY <1>1, <2>1, <2>3
  <2>4. CASE p = o
    <3>1. i # 1 /\ collections[p] \in Seq(Nat) /\ collections'[p] = RemoveAt(collections[p], i)
      BY <1>1, <2>1, <2>2, <2>4
    <3>2. /\ Len(collections'[p]) = Len(collections[p]) - 1 /\ collections'[p] \in Seq(Nat)
          /\ 1 \in DOMAIN collections'[p] /\ 1 < i => collections'[p][1] = collections[p][1]
      BY <3>1, Removed
    <3>3. 1 < i /\ Len(collections[p]) \in Nat /\ Len(collections[p]) - 1 >= 1
      BY <3>1
    <3>4. 1 \in DOMAIN collections'[p]
      BY <3>2, <3>3
    <3> QED BY <2>1, <2>4, <3>2, <3>3, <3>4
  <2> QED BY <2>3, <2>4
<1> QED BY <1>2, <1>3, <1>4, <1>5 DEF IInv

LEMMA TickStep ==
  ASSUME IInv, Tick
  PROVE  IInv'
<1>1. /\ pc # "round" /\ timer \in Nat /\ (timer > 0 \/ pc = "starting")
      /\ timer' = IF timer = 0 THEN 0 ELSE timer - 1
      /\ \A p \in Served : \A i \in DOMAIN collections[p] : collections[p][i] < Longest
      /\ collections' = [p \in Served |-> [i \in DOMAIN collections[p] |-> collections[p][i] + 1]]
      /\ pc' = pc /\ listed' = listed /\ local' = local /\ todo' = todo /\ at' = at
      /\ request' = request /\ server' = server /\ shown' = shown
  BY DEF Tick, NothingDue, mapper, IInv, TypeOK
<1>2. \A p \in Served : /\ collections[p] \in Seq(Nat)
                        /\ \A i \in DOMAIN collections[p] : collections[p][i] \in Nat
  BY DEF IInv, TypeOK
<1>3. \A p \in Served : /\ DOMAIN collections'[p] = DOMAIN collections[p]
                        /\ \A i \in DOMAIN collections[p] : collections'[p][i] = collections[p][i] + 1
  BY <1>1
<1>4. TypeOK'
  <2>1. collections' \in [Served -> Seq(Nat)]
    BY <1>1, <1>2, SpacedOlder DEF IInv, Running
  <2>2. asked' \in [Calls -> Nat]
    BY DEF Tick, IInv, TypeOK
  <2>3. timer' \in Nat
    BY <1>1
  <2> QED BY <1>1, <2>1, <2>2, <2>3 DEF IInv, TypeOK
<1>5. Running'
  <2> SUFFICES ASSUME NEW p \in Served PROVE Spaced(collections'[p])
    BY DEF Running, Spaced
  <2>1. Spaced([i \in DOMAIN collections[p] |-> collections[p][i] + 1])
    BY <1>2, SpacedOlder DEF IInv, Running
  <2> QED BY <1>1, <2>1
<1>6. InTime'
  BY <1>1, <1>2, <1>3, ConstantsAssumption DEF InTime
<1>7. Apart'
  <2> SUFFICES ASSUME NEW p \in Served, NEW i \in DOMAIN collections[p]
               PROVE  /\ pc \in {"starting", "pause"} => Pause <= collections[p][i] + 1 + timer'
                      /\ pc \in {"round", "wait"} /\ p[1] \in todo => Pause <= collections[p][i] + 1
                      /\ request = "sent" /\ p[1] = at => Pause <= collections[p][i] + 1
    BY <1>1, <1>3 DEF Apart
  <2>1. /\ pc \in {"starting", "pause"} => Pause <= collections[p][i] + timer
        /\ pc \in {"round", "wait"} /\ p[1] \in todo => Pause <= collections[p][i]
        /\ request = "sent" /\ p[1] = at => Pause <= collections[p][i]
    BY DEF IInv, Apart
  <2>2. collections[p][i] \in Nat /\ Pause \in Nat
    BY <1>2, ConstantsAssumption
  <2> QED BY <1>1, <2>1, <2>2
<1>8. Own'
  <2>0. pc = "wait" => timer' = timer - 1 /\ timer > 0
    BY <1>1
  <2>1. pc = "wait" => timer' <= Timeout /\ at \notin todo
    BY <1>1, <2>0, ConstantsAssumption DEF IInv, Own
  <2> DEFINE o == <<at, server>>
  <2> SUFFICES ASSUME request = "begun"
               PROVE  /\ o \in Served /\ collections'[o] # <<>>
                      /\ collections'[o][1] + timer' <= Timeout
    BY <1>1, <2>1 DEF Own
  <2>2. pc = "wait" /\ o \in Served /\ collections[o] # <<>> /\ collections[o][1] + timer <= Timeout
    BY DEF IInv, TypeOK, Own
  <2> HIDE DEF o
  <2>3. 1 \in DOMAIN collections[o] /\ collections[o][1] \in Nat
    BY <1>2, <2>2
  <2>4. collections'[o] # <<>> /\ collections'[o][1] = collections[o][1] + 1
    BY <1>3, <2>2, <2>3
  <2> QED BY <1>1, <2>0, <2>2, <2>3, <2>4
<1>9. ShownFresh'
  BY <1>1 DEF IInv, ShownFresh
<1> QED BY <1>4, <1>5, <1>6, <1>7, <1>8, <1>9 DEF IInv

LEMMA RoundBeginsStep ==
  ASSUME IInv, InitWatcher \/ RoundBegins
  PROVE  IInv'
<1>1. /\ pc \in {"starting", "pause"} /\ timer = 0 /\ pc' = "round" /\ timer' = timer
      /\ listed' \subseteq Nodes /\ local' \subseteq listed' \ {Master} /\ todo' = CallsFor(listed')
      /\ UNCHANGED <<at, request, server, collections, shown, asked>>
  BY DEF InitWatcher, RoundBegins, mapper, CallsFor, IInv, TypeOK
<1>2. TypeOK'
  BY <1>1 DEF IInv, TypeOK, CallsFor
<1>3. Running' /\ InTime' /\ ShownFresh'
  BY <1>1 DEF IInv, Running, Spaced, InTime, ShownFresh
<1>4. Apart'
  <2>1. request # "sent"
    BY <1>1 DEF IInv, TypeOK
  <2> SUFFICES ASSUME NEW p \in Served, NEW i \in DOMAIN collections[p]
               PROVE  Pause <= collections[p][i]
    BY <1>1, <2>1 DEF Apart
  <2>2. Pause <= collections[p][i] + 0 /\ collections[p][i] \in Nat
    BY <1>1 DEF IInv, TypeOK, Apart
  <2> QED BY <2>2
<1>5. Own'
  BY <1>1 DEF IInv, TypeOK, Own
<1> QED BY <1>2, <1>3, <1>4, <1>5 DEF IInv

LEMMA RoundEndsStep ==
  ASSUME IInv, RoundEnds
  PROVE  IInv'
<1>0. Pause \in Nat \ {0}
  BY ConstantsAssumption
<1>1. /\ pc = "round" /\ todo = {} /\ pc' = "pause" /\ timer' = Pause
      /\ UNCHANGED <<listed, local, todo, at, request, server, collections, shown, asked>>
  BY DEF RoundEnds, mapper
<1>2. TypeOK'
  BY <1>0, <1>1 DEF IInv, TypeOK, CallsFor
<1>3. Running' /\ InTime' /\ ShownFresh'
  BY <1>1 DEF IInv, Running, Spaced, InTime, ShownFresh
<1>4. Apart'
  <2>1. request # "sent"
    BY <1>1 DEF IInv, TypeOK
  <2> SUFFICES ASSUME NEW p \in Served, NEW i \in DOMAIN collections[p]
               PROVE  Pause <= collections[p][i] + Pause
    BY <1>1, <2>1 DEF Apart
  <2>2. collections[p][i] \in Nat
    BY DEF IInv, TypeOK
  <2> QED BY <1>0, <2>2
<1>5. Own'
  BY <1>1 DEF IInv, TypeOK, Own
<1> QED BY <1>2, <1>3, <1>4, <1>5 DEF IInv

LEMMA GivenUpStep ==
  ASSUME IInv, GivenUp
  PROVE  IInv'
<1>1. /\ pc = "wait" /\ pc' = "round" /\ at' = NoCall /\ request' = "none" /\ server' = NoNode
      /\ timer' = 0 /\ UNCHANGED <<listed, local, todo, collections, shown, asked>>
  BY DEF GivenUp, Returned, mapper
<1>2. TypeOK'
  BY <1>1 DEF IInv, TypeOK, CallsFor
<1>3. Running' /\ InTime' /\ ShownFresh' /\ Own'
  BY <1>1 DEF IInv, Running, Spaced, InTime, ShownFresh, Own
<1>4. Apart'
  BY <1>1 DEF IInv, Apart
<1> QED BY <1>2, <1>3, <1>4 DEF IInv

LEMMA MasterRestartsStep ==
  ASSUME IInv, MasterRestarts
  PROVE  IInv'
<1>0. Pause \in Nat \ {0} /\ StartUp \in Nat /\ Pause <= StartUp
  BY ConstantsAssumption
<1>1. /\ pc' = "starting" /\ timer' = StartUp /\ listed' = {} /\ local' = {} /\ todo' = {}
      /\ at' = NoCall /\ request' = "none" /\ server' = NoNode /\ shown' = shown
      /\ collections' = Ended(Master) /\ asked' = [c \in Calls |-> 0]
  BY DEF MasterRestarts, MasterEnds
<1>2. /\ collections' \in [Served -> Seq(Nat)] /\ Running' /\ InTime'
  BY <1>1, StepEnded
<1>3. TypeOK'
  BY <1>0, <1>1, <1>2, NoCallIsNone DEF IInv, TypeOK, CallsFor
<1>4. ShownFresh' /\ Own'
  BY <1>1 DEF IInv, ShownFresh, Own
<1>5. Apart'
  <2> SUFFICES ASSUME NEW p \in Served, NEW i \in DOMAIN collections'[p]
               PROVE  Pause <= collections'[p][i] + StartUp
    BY <1>1 DEF Apart
  <2>1. collections'[p][i] \in Nat
    BY <1>2
  <2> QED BY <1>0, <2>1
<1> QED BY <1>2, <1>3, <1>4, <1>5 DEF IInv

LEMMA AgentDiesStep ==
  ASSUME IInv, NEW n \in Nodes, AgentDies(n)
  PROVE  IInv'
<1>1. /\ collections' = Ended(n)
      /\ request' = IF server = n THEN "lost" ELSE request
      /\ server' = IF server = n THEN NoNode ELSE server
      /\ UNCHANGED <<pc, timer, listed, local, todo, at, shown, asked>>
  BY DEF AgentDies, mapper
<1>2. /\ collections' \in [Served -> Seq(Nat)] /\ Running' /\ InTime'
      /\ \A q \in Served : collections'[q] = <<>> \/ collections'[q] = collections[q]
      /\ \A q \in Served : q[2] # n => collections'[q] = collections[q]
  BY <1>1, StepEnded
<1>3. TypeOK'
  <2>1. server = n => request = "begun" /\ pc = "wait"
    BY ConstantsAssumption DEF IInv, TypeOK
  <2> QED BY <1>1, <1>2, <2>1, ConstantsAssumption DEF IInv, TypeOK
<1>4. ShownFresh'
  BY <1>1 DEF IInv, ShownFresh
<1>5. Apart'
  <2> SUFFICES ASSUME NEW p \in Served, NEW i \in DOMAIN collections'[p]
               PROVE  /\ pc \in {"starting", "pause"} => Pause <= collections'[p][i] + timer
                      /\ pc \in {"round", "wait"} /\ p[1] \in todo => Pause <= collections'[p][i]
                      /\ request = "sent" /\ p[1] = at => Pause <= collections'[p][i]
    BY <1>1 DEF Apart
  <2>1. collections'[p] = collections[p]
    BY <1>2
  <2> QED BY <2>1 DEF IInv, Apart
<1>6. Own'
  <2>1. pc = "wait" => timer <= Timeout /\ at \notin todo
    BY DEF IInv, Own
  <2> DEFINE o == <<at, server>>
  <2> SUFFICES ASSUME request' = "begun"
               PROVE  /\ server' = server /\ o \in Served /\ collections'[o] # <<>>
                      /\ collections'[o][1] + timer <= Timeout
    BY <1>1, <2>1 DEF Own
  <2>2. request = "begun" /\ server # n /\ server' = server
    BY <1>1
  <2>3. /\ o \in Served /\ o[2] = server /\ collections[o] # <<>>
        /\ collections[o][1] + timer <= Timeout
    BY <2>2 DEF IInv, Own
  <2>4. collections'[o] = collections[o]
    BY <1>2, <2>2, <2>3
  <2> QED BY <2>2, <2>3, <2>4
<1> QED BY <1>2, <1>3, <1>4, <1>5, <1>6 DEF IInv

LEMMA InvStep == IInv /\ [Next]_vars => IInv'
<1> SUFFICES ASSUME IInv, [Next]_vars PROVE IInv'
  OBVIOUS
<1>1. CASE InitWatcher \/ RoundBegins
  BY <1>1, RoundBeginsStep
<1>2. CASE RoundEnds
  BY <1>2, RoundEndsStep
<1>3. CASE GivenUp
  BY <1>3, GivenUpStep
<1>4. CASE MasterRestarts
  BY <1>4, MasterRestartsStep
<1>5. CASE Tick
  BY <1>5, TickStep
<1>6. ASSUME NEW c \in Calls, Ask(c) PROVE IInv'
  BY <1>6, AskStep
<1>7. ASSUME NEW p \in Served, NEW i \in DOMAIN collections[p], Answered(p, i) PROVE IInv'
  BY <1>7, AnsweredStep
<1>8. ASSUME NEW p \in Served, NEW i \in DOMAIN collections[p], AnsweredTooLate(p, i) PROVE IInv'
  BY <1>8, AnsweredTooLateStep
<1>9. ASSUME NEW n \in Nodes, AgentDies(n) PROVE IInv'
  BY <1>9, AgentDiesStep
<1>10. ASSUME NEW c \in Calls, NEW n \in Nodes, Invoke(c, n) PROVE IInv'
  BY <1>10, InvokeStep
<1>11. CASE UNCHANGED vars
  BY <1>11 DEF vars, IInv, TypeOK, Running, Spaced, InTime, Apart, Own, ShownFresh
<1> QED BY <1>1, <1>2, <1>3, <1>4, <1>5, <1>6, <1>7, <1>8, <1>9, <1>10, <1>11 DEF Next

-----------------------------------------------------------------------------
LEMMA Invariance == Spec => []IInv
BY InvInit, InvStep, PTL DEF Spec

(* The variables keep their types, for any nodes and times; the watcher    *)
(* has a call in hand exactly while it waits for one.                      *)
THEOREM TypeCorrect == Spec => []TypeOK
<1>1. IInv => TypeOK
  BY DEF IInv
<1> QED BY <1>1, Invariance, PTL

LEMMA CallsFinite == IsFiniteSet(Calls)
<1>1. IsFiniteSet(Nodes) /\ IsFiniteSet(GPUNodes)
  BY ConstantsAssumption, FS_Subset
<1>2. IsFiniteSet({"GetNode"}) /\ IsFiniteSet({"GetGPU"})
  BY FS_Singleton
<1>3. IsFiniteSet(Nodes \X {"GetNode"}) /\ IsFiniteSet(GPUNodes \X {"GetGPU"})
  BY <1>1, <1>2, FS_Product
<1> QED BY <1>3, FS_Union DEF Calls

LEMMA ServedFinite == IsFiniteSet(Served)
<1>1. IsFiniteSet(Calls \X Nodes)
  BY CallsFinite, ConstantsAssumption, FS_Product
<1>2. Served \in SUBSET (Calls \X Nodes)
  BY DEF Served
<1> QED BY <1>1, <1>2, FS_Subset

LEMMA InFlightBound ==
  ASSUME TypeOK, Running, InTime, NEW n, NEW k
  PROVE  Cardinality(InFlight(n, k)) <= Cardinality(From(n, k)) * (Longest \div Pause + 1)
<1> DEFINE m == Longest \div Pause + 1
           S == From(n, k)
<1>1. m \in Nat
  BY PausesInLongest
<1>2. IsFiniteSet(S)
  <2>1. S \in SUBSET Served
    BY DEF From
  <2> QED BY <2>1, ServedFinite, FS_Subset
<1>3. IsFiniteSet(1 .. m) /\ Cardinality(1 .. m) = m
  BY <1>1, FS_Interval
<1> HIDE DEF m
<1>4. IsFiniteSet(S \X (1 .. m)) /\ Cardinality(S \X (1 .. m)) = Cardinality(S) * m
  BY <1>2, <1>3, FS_Product
<1>5. ASSUME NEW p \in S PROVE DOMAIN collections[p] \subseteq 1 .. m
  <2>1. /\ collections[p] \in Seq(Nat) /\ Spaced(collections[p])
        /\ \A i \in DOMAIN collections[p] : collections[p][i] <= Longest
    BY DEF From, TypeOK, Running, InTime
  <2> QED BY <2>1, SpacedBound DEF m
<1>6. InFlight(n, k) \in SUBSET (S \X (1 .. m))
  BY <1>5 DEF InFlight
<1>7. Cardinality(InFlight(n, k)) <= Cardinality(S \X (1 .. m))
  BY <1>4, <1>6, FS_Subset
<1> QED BY <1>4, <1>7 DEF m

(* An agent has no more collections of a kind under way for each name it   *)
(* can be asked under than pauses begin in the longest one, although a     *)
(* call's end does not end its collection and whoever takes whose address. *)
THEOREM CollectionsBounded == Spec => []InFlightBounded
<1>1. IInv => InFlightBounded
  BY InFlightBound DEF IInv, InFlightBounded
<1> QED BY <1>1, Invariance, PTL

(* An answer that is late for its call is never printed for another one.   *)
THEOREM ShownInTime == Spec => []ShownFresh
<1>1. IInv => ShownFresh
  BY DEF IInv
<1> QED BY <1>1, Invariance, PTL

-----------------------------------------------------------------------------
(*--------------------------- the time of a round -------------------------*)

(* What the calls made so far in this round can have taken together.       *)
Round == Timeout * Cardinality(CallsFor(listed))
Spent == Timeout * (Cardinality(CallsFor(listed)) - Cardinality(todo))

(* The time since a call of a listed name was made, and the rest of the    *)
(* sleep or of the second under way: in a pause no more than the round     *)
(* before it and the pause; in a round what the round has spent if the     *)
(* call was made in it, and what there was at its begin as well if it is   *)
(* still to be made. Before the list is there none is counted.             *)
OnTime ==
  \A c \in Calls :
    LET due == asked[c] + timer
    IN  /\ c[1] \notin listed => asked[c] = 0
        /\ c[1] \in listed /\ pc = "pause" => due <= Pause + Round
        /\ c[1] \in listed /\ pc \in {"round", "wait"} =>
             IF c \in todo THEN due <= Pause + Round + Spent ELSE due <= Spent

LEMMA CallsForFinite ==
  ASSUME NEW names
  PROVE  IsFiniteSet(CallsFor(names)) /\ Cardinality(CallsFor(names)) \in Nat
<1>1. CallsFor(names) \in SUBSET Calls
  BY DEF CallsFor
<1> QED BY <1>1, CallsFinite, FS_Subset, FS_CardinalityType

(* A round has no more calls to make than there are.                       *)
LEMMA TodoFinite ==
  ASSUME TypeOK
  PROVE  /\ IsFiniteSet(todo) /\ Cardinality(todo) \in 0 .. Cardinality(CallsFor(listed))
         /\ todo # {} => Cardinality(todo) # 0
<1>1. todo \in SUBSET CallsFor(listed)
  BY DEF TypeOK
<1> QED BY <1>1, CallsForFinite, FS_Subset, FS_CardinalityType, FS_EmptySet

LEMMA TimesOfCalls ==
  /\ Timeout \in Nat \ {0} /\ Pause \in Nat
  /\ \A m \in Nat : Timeout * m \in Nat
  /\ \A m \in Int : Timeout * (m + 1) = Timeout * m + Timeout /\ Timeout * m \in Int
  /\ Timeout * 0 = 0
<1>1. Timeout \in Nat \ {0} /\ Pause \in Nat
  BY ConstantsAssumption
<1> QED BY <1>1

LEMMA RoundType ==
  ASSUME TypeOK
  PROVE  /\ Round \in Nat /\ Spent \in Nat /\ Spent <= Round
         /\ CallsFor(listed) # {} => Timeout <= Round
         /\ todo # {} => Spent + Timeout <= Round
         /\ todo = {} => Spent = Round
<1> DEFINE k == Cardinality(CallsFor(listed))
           n == Cardinality(todo)
<1>1. /\ k \in Nat /\ n \in 0 .. k /\ (todo # {} => n # 0) /\ (todo = {} => n = 0)
      /\ CallsFor(listed) # {} => k # 0
  BY CallsForFinite, TodoFinite, FS_EmptySet
<1>2. Timeout \in Nat \ {0}
  BY TimesOfCalls
<1>3. Round = Timeout * k /\ Spent = Timeout * (k - n)
  BY DEF Round, Spent
<1>4. \A a, b \in Nat : a <= b => Timeout * a <= Timeout * b
  BY <1>2
<1>5. Timeout * 1 = Timeout
  BY <1>2
<1> HIDE DEF k, n
<1>6. k \in Nat /\ k - n \in Nat /\ k - n <= k
  BY <1>1
<1>7. Round \in Nat /\ Spent \in Nat
  BY <1>3, <1>6, TimesOfCalls
<1>8. Spent <= Round
  BY <1>3, <1>4, <1>6
<1>9. ASSUME CallsFor(listed) # {} PROVE Timeout <= Round
  <2>1. 1 \in Nat /\ k \in Nat /\ 1 <= k
    BY <1>1, <1>9
  <2> QED BY <1>3, <1>4, <1>5, <2>1
<1>10. ASSUME todo # {} PROVE Spent + Timeout <= Round
  <2>1. k - n \in Nat /\ k - n + 1 \in Nat /\ k - n + 1 <= k
    BY <1>1, <1>10
  <2>2. Timeout * (k - n + 1) = Timeout * (k - n) + Timeout
    BY <2>1, TimesOfCalls
  <2>3. Timeout * (k - n + 1) <= Timeout * k
    BY <1>4, <1>6, <2>1
  <2> QED BY <1>3, <2>2, <2>3
<1>11. todo = {} => Spent = Round
  BY <1>1, <1>3
<1> QED BY <1>7, <1>8, <1>9, <1>10, <1>11

LEMMA OnTimeInit == Init => OnTime
BY DEF Init, OnTime

LEMMA OnTimeStep == TypeOK /\ TypeOK' /\ OnTime /\ [Next]_vars => OnTime'
<1> SUFFICES ASSUME TypeOK, TypeOK', OnTime, [Next]_vars, NEW c \in Calls
             PROVE  LET due == asked'[c] + timer'
                    IN  /\ c[1] \notin listed' => asked'[c] = 0
                        /\ c[1] \in listed' /\ pc' = "pause" => due <= Pause + Round'
                        /\ c[1] \in listed' /\ pc' \in {"round", "wait"} =>
                             IF c \in todo' THEN due <= Pause + Round' + Spent'
                                            ELSE due <= Spent'
  BY DEF OnTime
<1>0. /\ Pause \in Nat /\ Timeout \in Nat \ {0} /\ Round \in Nat /\ Spent \in Nat
      /\ asked[c] \in Nat /\ timer \in Nat
      /\ c[1] \notin listed => asked[c] = 0
      /\ c[1] \in listed /\ pc = "pause" => asked[c] + timer <= Pause + Round
      /\ c[1] \in listed /\ pc \in {"round", "wait"} =>
            IF c \in todo THEN asked[c] + timer <= Pause + Round + Spent
                          ELSE asked[c] + timer <= Spent
  BY TimesOfCalls, RoundType DEF TypeOK, OnTime
<1>1. CASE InitWatcher
  <2>1. /\ timer' = 0 /\ pc' = "round" /\ asked'[c] = 0 /\ todo' = CallsFor(listed')
    BY <1>0, <1>1 DEF InitWatcher, TypeOK
  <2>2. Round' \in Nat /\ Spent' \in Nat
    <3>1. Cardinality(CallsFor(listed')) \in Nat /\ Cardinality(todo') = Cardinality(CallsFor(listed'))
      BY <2>1, CallsForFinite
    <3>2. Cardinality(CallsFor(listed')) - Cardinality(todo') \in Nat
      BY <3>1
    <3> QED BY <3>1, <3>2, TimesOfCalls DEF Round, Spent
  <2>3. c[1] \in listed' => c \in todo'
    BY <2>1 DEF CallsFor
  <2>4. asked'[c] + timer' <= Pause + Round' + Spent'
    <3>1. asked'[c] = 0 /\ timer' = 0
      BY <2>1
    <3>2. \A r, t \in Nat : Pause + r + t \in Nat
      BY <1>0
    <3>3. Pause + Round' + Spent' \in Nat
      BY ONLY <2>2, <3>2
    <3>4. asked'[c] + timer' = 0
      BY ONLY <3>1
    <3> QED BY ONLY <3>3, <3>4
  <2> QED BY <2>1, <2>3, <2>4
<1>2. CASE RoundBegins
  <2>1. /\ pc = "pause" /\ timer = 0 /\ pc' = "round" /\ timer' = timer /\ asked' = asked
        /\ listed' = listed /\ todo' = CallsFor(listed)
    BY <1>2 DEF RoundBegins, mapper
  <2>2. Round' = Round /\ Spent' \in Nat
    <3>1. Cardinality(CallsFor(listed)) \in Nat /\ Cardinality(todo') = Cardinality(CallsFor(listed))
      BY <2>1, CallsForFinite
    <3>2. Cardinality(CallsFor(listed)) - Cardinality(todo') \in Nat
      BY <3>1
    <3> QED BY <2>1, <3>2, TimesOfCalls DEF Round, Spent
  <2>3. c[1] \in listed' => c \in todo'
    BY <2>1 DEF CallsFor
  <2> QED BY <1>0, <2>1, <2>2, <2>3
<1>3. CASE RoundEnds
  <2>1. /\ pc = "round" /\ todo = {} /\ pc' = "pause" /\ timer' = Pause /\ asked' = asked
        /\ listed' = listed
    BY <1>3 DEF RoundEnds, mapper
  <2>2. Spent = Round /\ Round' = Round
    BY <2>1, RoundType DEF Round
  <2> QED BY <1>0, <2>1, <2>2
<1>4. CASE GivenUp \/ \E p \in Served : \E i \in DOMAIN collections[p] : Answered(p, i)
  <2>1. /\ pc = "wait" /\ pc' = "round" /\ timer' = 0 /\ todo' = todo /\ asked' = asked
        /\ listed' = listed
    BY <1>4 DEF GivenUp, Answered, Awaited, Returned, mapper
  <2>2. Spent' = Spent /\ Round' = Round
    BY <2>1 DEF Spent, Round
  <2> QED BY <1>0, <2>1, <2>2
<1>5. ASSUME NEW d \in Calls, Ask(d)
      PROVE  /\ pc' = "wait"
             /\ c[1] \notin listed' => asked'[c] = 0
             /\ c[1] \in listed' =>
                  IF c \in todo' THEN asked'[c] + timer' <= Pause + Round' + Spent'
                                 ELSE asked'[c] + timer' <= Spent'
  <2>1. /\ pc = "round" /\ pc' = "wait" /\ d \in todo /\ todo' = todo \ {d} /\ timer' = Timeout
        /\ asked' = [asked EXCEPT ![d] = 0] /\ listed' = listed
    BY <1>5 DEF Ask, Ready, mapper
  <2>2. Spent' = Spent + Timeout /\ Round' = Round
    <3> DEFINE k == Cardinality(CallsFor(listed))
               n == Cardinality(todo)
    <3>1. IsFiniteSet(todo) /\ n \in Nat /\ k \in Nat
      BY TodoFinite, CallsForFinite
    <3>2. Cardinality(todo') = n - 1
      BY <2>1, <3>1, FS_RemoveElement
    <3>3. k - (n - 1) = (k - n) + 1 /\ k - n \in Int
      BY <3>1
    <3>4. Spent' = Timeout * (k - (n - 1)) /\ Spent = Timeout * (k - n) /\ Round' = Round
      BY <2>1, <3>2 DEF Spent, Round
    <3> HIDE DEF k, n
    <3>5. Timeout * (k - (n - 1)) = Timeout * (k - n) + Timeout
      BY <3>3, TimesOfCalls
    <3> QED BY <3>4, <3>5
  <2>3. CASE c = d
    BY <1>0, <2>1, <2>2, <2>3 DEF TypeOK
  <2>4. CASE c # d
    <3>1. asked'[c] = asked[c] /\ (c \in todo' <=> c \in todo)
      BY <2>1, <2>4 DEF TypeOK
    <3> QED BY <1>0, <2>1, <2>2, <3>1
  <2> QED BY <2>1, <2>3, <2>4
<1>6. CASE MasterRestarts
  BY <1>0, <1>6 DEF MasterRestarts, MasterEnds
<1>7. CASE Tick
  <2>1. /\ pc # "round" /\ (timer > 0 \/ pc = "starting")
        /\ timer' = IF timer = 0 THEN 0 ELSE timer - 1
        /\ asked'[c] = IF c[1] \in listed THEN asked[c] + 1 ELSE asked[c]
        /\ pc' = pc /\ todo' = todo /\ listed' = listed
    BY <1>7 DEF Tick, NothingDue, mapper
  <2>2. Spent' = Spent /\ Round' = Round
    BY <2>1 DEF Spent, Round
  <2>3. pc # "starting" /\ c[1] \in listed => asked'[c] + timer' = asked[c] + timer
    BY <1>0, <2>1
  <2>4. c[1] \notin listed => asked'[c] = 0
    BY <1>0, <2>1
  <2> QED BY <1>0, <2>1, <2>2, <2>3, <2>4
<1>8. CASE \/ UNCHANGED vars
           \/ \E n \in Nodes : AgentDies(n)
           \/ \E d \in Calls : \E n \in Nodes : Invoke(d, n)
           \/ \E p \in Served : \E i \in DOMAIN collections[p] : AnsweredTooLate(p, i)
  <2>1. UNCHANGED <<pc, timer, listed, todo, asked>>
    BY <1>8 DEF vars, AgentDies, Invoke, AnsweredTooLate, mapper
  <2>2. Spent' = Spent /\ Round' = Round
    BY <2>1 DEF Spent, Round
  <2> QED BY <1>0, <2>1, <2>2
<1> QED BY <1>1, <1>2, <1>3, <1>4, <1>5, <1>6, <1>7, <1>8 DEF Next

LEMMA OnTimeBounds == TypeOK /\ OnTime => AskedInTime
<1> SUFFICES ASSUME TypeOK, OnTime, NEW c \in CallsFor(listed)
             PROVE  asked[c] <= Pause + 2 * Round - Timeout
  BY DEF AskedInTime, Round
<1>1. /\ Pause \in Nat /\ Timeout \in Nat /\ c \in Calls /\ c[1] \in listed
      /\ asked[c] \in Nat /\ timer \in Nat /\ pc \in {"pause", "round", "wait"}
  BY TimesOfCalls DEF TypeOK, CallsFor
<1>2. /\ Round \in Nat /\ Spent \in Nat /\ Spent <= Round /\ Timeout <= Round
      /\ c \in todo => Spent + Timeout <= Round
  BY RoundType
<1>3. /\ pc = "pause" => asked[c] + timer <= Pause + Round
      /\ pc \in {"round", "wait"} =>
           IF c \in todo THEN asked[c] + timer <= Pause + Round + Spent
                         ELSE asked[c] + timer <= Spent
  BY <1>1 DEF OnTime
<1> QED BY <1>1, <1>2, <1>3

(* However many nodes there are and however they hang, from one question   *)
(* to the next it takes the pause and twice a round of calls that all time *)
(* out, less one call.                                                     *)
THEOREM AskedAgainInTime == Spec => []AskedInTime
<1>1. IInv => TypeOK
  BY DEF IInv
<1> QED BY <1>1, Invariance, OnTimeInit, OnTimeStep, OnTimeBounds, PTL DEF Spec
=============================================================================
