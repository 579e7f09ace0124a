-------------------------- MODULE DocumentsProofs --------------------------
(***************************************************************************)
(* Five of the documents' parts, for every limit: the provider's stream,   *)
(* the history of reports, the repository behind a snapshot and a screen,  *)
(* the directories of snapshots for any number of processes, and the       *)
(* context documents.  Each part has an inductive invariant of its own; a  *)
(* step of the documents is a step of one part and leaves the others       *)
(* alone, so the invariants hold of the whole.                             *)
(***************************************************************************)
EXTENDS Documents, TLAPS, SequenceTheorems, FiniteSetTheorems, WellFoundedInduction, NaturalsInduction

-----------------------------------------------------------------------------
(* Totals and flattened sequences, which the folds of the library compute.  *)

LessNat == {ss \in Nat \X Nat : ss[1] < ss[2]}

(* A set of natural numbers that is not empty has a least element.          *)
LEMMA Least ==
  ASSUME NEW T \in SUBSET Nat, T # {}
  PROVE  \E m \in T : \A k \in T : m <= k
<1>1. OpToRel(<, Nat) = LessNat
  BY Zenon DEF OpToRel, LessNat
<1>2. IsWellFoundedOn(LessNat, Nat)
  BY <1>1, NatLessThanWellFounded, Zenon DEF OpToRel, LessNat
<1>3. PICK m \in T : \A y \in T : ~ (<<y, m>> \in LessNat)
  BY <1>2, WFMin
<1>4. \A y \in T : ~ (y < m)
  BY <1>3 DEF LessNat
<1> QED BY <1>4

\* f gives the total of every prefix of s.
Totals(f, s) == f = [n \in 0 .. Len(s) |-> IF n = 0 THEN 0 ELSE f[n - 1] + s[n]]

(* There is such a function, up to every length.                            *)
LEMMA TotalsUpTo ==
  ASSUME NEW s \in Seq(Nat), NEW m \in 0 .. Len(s)
  PROVE  \E f \in [0 .. m -> Nat] : f[0] = 0 /\ \A n \in 1 .. m : f[n] = f[n - 1] + s[n]
<1> DEFINE Upto(k) == \E f \in [0 .. k -> Nat] : f[0] = 0 /\ \A n \in 1 .. k : f[n] = f[n - 1] + s[n]
           T == {k \in 0 .. Len(s) : ~ Upto(k)}
<1>1. SUFFICES ASSUME T # {} PROVE FALSE
  OBVIOUS
<1>2. PICK k \in T : \A j \in T : k <= j
  <2> T \subseteq Nat
    OBVIOUS
  <2> HIDE DEF T
  <2> QED BY <1>1, Least
<1>3. k # 0
  <2> DEFINE z == [n \in 0 .. 0 |-> 0]
  <2>1. z \in [0 .. 0 -> Nat] /\ z[0] = 0 /\ \A n \in 1 .. 0 : z[n] = z[n - 1] + s[n]
    OBVIOUS
  <2>2. Upto(0)
    BY <2>1
  <2> QED BY <2>2
<1>4. Upto(k - 1)
  <2>1. k \in Nat /\ k - 1 \in 0 .. Len(s)
    BY <1>2, <1>3
  <2>2. k - 1 \notin T
    <3> HIDE DEF T
    <3> QED BY <1>2, <2>1
  <2> QED BY <2>1, <2>2
<1>5. PICK f \in [0 .. k - 1 -> Nat] : f[0] = 0 /\ \A n \in 1 .. k - 1 : f[n] = f[n - 1] + s[n]
  BY <1>4
<1> DEFINE g == [n \in 0 .. k |-> IF n = k THEN f[k - 1] + s[k] ELSE f[n]]
<1>6. g \in [0 .. k -> Nat]
  BY <1>3
<1>7. g[0] = 0 /\ \A n \in 1 .. k : g[n] = g[n - 1] + s[n]
  BY <1>3, <1>5
<1>8. Upto(k)
  BY <1>6, <1>7
<1> QED BY <1>8

(* A total is the total before it and the number at its place.              *)
LEMMA TotalsStep ==
  ASSUME NEW s, NEW f, Totals(f, s), NEW k \in 0 .. Len(s), k # 0
  PROVE  f[k] = f[k - 1] + s[k]
<1>1. f = [n \in 0 .. Len(s) |-> IF n = 0 THEN 0 ELSE f[n - 1] + s[n]]
  BY DEF Totals
<1>2. f[k] = IF k = 0 THEN 0 ELSE f[k - 1] + s[k]
  BY ONLY <1>1, k \in 0 .. Len(s), Zenon
<1> QED BY <1>2

(* Every sequence of numbers has totals.                                    *)
LEMMA TotalsExist ==
  ASSUME NEW s \in Seq(Nat)
  PROVE  \E f : Totals(f, s)
<1>1. PICK f \in [0 .. Len(s) -> Nat] : f[0] = 0 /\ \A n \in 1 .. Len(s) : f[n] = f[n - 1] + s[n]
  BY TotalsUpTo
<1>2. f = [n \in 0 .. Len(s) |-> IF n = 0 THEN 0 ELSE f[n - 1] + s[n]]
  BY <1>1
<1> QED BY <1>2 DEF Totals

(* And no two of them.                                                      *)
LEMMA TotalsAgree ==
  ASSUME NEW s \in Seq(Nat), NEW t \in Seq(Nat), Len(s) <= Len(t), \A n \in 1 .. Len(s) : s[n] = t[n],
         NEW f, NEW g, Totals(f, s), Totals(g, t), NEW m \in 0 .. Len(s)
  PROVE  f[m] = g[m] /\ f[m] \in Nat
<1> DEFINE T == {k \in 0 .. Len(s) : ~(f[k] = g[k] /\ f[k] \in Nat)}
<1>1. SUFFICES ASSUME T # {} PROVE FALSE
  OBVIOUS
<1>2. PICK k \in T : \A j \in T : k <= j
  <2> T \subseteq Nat
    OBVIOUS
  <2> HIDE DEF T
  <2> QED BY <1>1, Least
<1>3. k # 0
  BY DEF Totals
<1>4. f[k - 1] = g[k - 1] /\ f[k - 1] \in Nat
  BY <1>2, <1>3
<1>5. k \in 0 .. Len(s) /\ k \in 0 .. Len(t) /\ s[k] \in Nat /\ s[k] = t[k]
  BY <1>2, <1>3
<1>6. f[k] = f[k - 1] + s[k]
  BY <1>3, <1>5, Totals(f, s), TotalsStep, Zenon
<1>7. g[k] = g[k - 1] + t[k]
  BY <1>3, <1>5, Totals(g, t), TotalsStep, Zenon
<1> QED BY <1>2, <1>4, <1>5, <1>6, <1>7, SMTT(40)

(* Total is the last of the totals.                                         *)
LEMMA TotalIs ==
  ASSUME NEW s \in Seq(Nat)
  PROVE  \E f : Totals(f, s) /\ Total(s) = f[Len(s)]
<1> DEFINE f == CHOOSE f : Totals(f, s)
<1>1. Totals(f, s)
  BY TotalsExist
<1>2. Total(s) = f[Len(s)]
  BY DEF Total, Totals
<1> QED BY <1>1, <1>2

(* The total of a sequence, when it is empty and when an element is added.  *)
LEMMA TotalEmpty == Total(<<>>) = 0
<1>1. PICK f : Totals(f, <<>>) /\ Total(<<>>) = f[0]
  <2>1. <<>> \in Seq(Nat) /\ Len(<<>>) = 0
    OBVIOUS
  <2> QED BY <2>1, TotalIs
<1> QED BY <1>1 DEF Totals

(* The total of natural numbers is one.                                     *)
LEMMA TotalNat == ASSUME NEW s \in Seq(Nat) PROVE Total(s) \in Nat
<1>1. PICK f : Totals(f, s) /\ Total(s) = f[Len(s)]
  BY TotalIs
<1> QED BY <1>1, TotalsAgree

(* One more number adds itself to the total.                                *)
LEMMA TotalAppend ==
  ASSUME NEW s \in Seq(Nat), NEW x \in Nat
  PROVE  Total(Append(s, x)) = Total(s) + x
<1>1. PICK f : Totals(f, s) /\ Total(s) = f[Len(s)]
  BY TotalIs
<1> DEFINE t == Append(s, x)
<1>2. t \in Seq(Nat) /\ Len(t) = Len(s) + 1 /\ t[Len(t)] = x /\ \A n \in 1 .. Len(s) : s[n] = t[n]
  OBVIOUS
<1>3. PICK g : Totals(g, t) /\ Total(t) = g[Len(t)]
  BY <1>2, TotalIs
<1>4. f[Len(s)] = g[Len(s)]
  <2>1. Len(s) \in 0 .. Len(s) /\ Len(s) <= Len(t)
    BY <1>2
  <2> HIDE DEF t
  <2> QED BY <2>1, <1>1, <1>2, <1>3, TotalsAgree, SMTT(40)
<1>5. g[Len(t)] = g[Len(t) - 1] + t[Len(t)]
  BY <1>2, <1>3 DEF Totals
<1> QED BY <1>1, <1>2, <1>3, <1>4, <1>5

(* The total of two sequences, one after the other.                         *)
LEMMA TotalConcat ==
  ASSUME NEW s \in Seq(Nat), NEW t \in Seq(Nat)
  PROVE  Total(s \o t) = Total(s) + Total(t)
<1> DEFINE T == {n \in 0 .. Len(t) : Total(s \o SubSeq(t, 1, n)) # Total(s) + Total(SubSeq(t, 1, n))}
<1>0. SubSeq(t, 1, Len(t)) = t /\ Len(t) \in 0 .. Len(t)
  OBVIOUS
<1>1. SUFFICES ASSUME T # {} PROVE FALSE
  BY <1>0
<1>2. PICK k \in T : \A j \in T : k <= j
  <2> T \subseteq Nat
    OBVIOUS
  <2> HIDE DEF T
  <2> QED BY <1>1, Least
<1>3. Total(s) \in Nat
  BY TotalNat
<1>4. ASSUME k = 0 PROVE FALSE
  <2>1. SubSeq(t, 1, 0) = <<>> /\ s \o <<>> = s
    OBVIOUS
  <2>2. Total(s \o SubSeq(t, 1, 0)) # Total(s) + Total(SubSeq(t, 1, 0))
    BY <1>2, <1>4
  <2>3. Total(s) # Total(s) + 0
    <3> HIDE DEF T
    <3> QED BY <2>1, <2>2, TotalEmpty
  <2> QED BY <1>3, <2>3
<1>5. k \in 1 .. Len(t) /\ k - 1 \in 0 .. Len(t) /\ k - 1 < k
  BY <1>2, <1>4
<1>6. Total(s \o SubSeq(t, 1, k - 1)) = Total(s) + Total(SubSeq(t, 1, k - 1))
  <2>1. k - 1 \notin T
    <3> HIDE DEF T
    <3> QED BY <1>2, <1>5
  <2> QED BY <1>5, <2>1
<1> DEFINE u == SubSeq(t, 1, k - 1)
           w == SubSeq(t, 1, k)
<1>7. u \in Seq(Nat) /\ Len(u) = k - 1 /\ w \in Seq(Nat) /\ Len(w) = k /\ t[k] \in Nat
  BY <1>5, SubSeqProperties
<1>8. w = Append(u, t[k])
  <2>1. \A i \in 1 .. k - 1 : w[i] = u[i]
    BY <1>5, SubSeqProperties
  <2>2. w[k] = t[k]
    BY <1>5, SubSeqProperties
  <2> HIDE DEF u, w
  <2> QED BY <1>5, <1>7, <2>1, <2>2, SMTT(40)
<1>9. s \o w = Append(s \o u, t[k])
  <2> HIDE DEF u, w
  <2> QED BY <1>7, <1>8, SMTT(40)
<1>10. s \o u \in Seq(Nat)
  <2> HIDE DEF u
  <2> QED BY <1>7
<1>11. Total(s \o w) = Total(s \o u) + t[k] /\ Total(w) = Total(u) + t[k]
  <2> HIDE DEF u, w
  <2> QED BY <1>7, <1>8, <1>9, <1>10, TotalAppend
<1>12. Total(u) \in Nat
  <2> HIDE DEF u
  <2> QED BY <1>7, TotalNat
<1>13. Total(s \o w) = Total(s) + Total(w)
  <2>1. Total(s \o u) = Total(s) + Total(u)
    BY <1>6
  <2> HIDE DEF u, w
  <2> QED BY <1>3, <1>7, <1>11, <1>12, <2>1
<1> QED BY <1>2, <1>13

(* Fewer numbers have no larger total.                                      *)
LEMMA TotalMore ==
  ASSUME NEW s \in Seq(Nat), NEW t \in Seq(Nat), Len(s) <= Len(t), \A n \in 1 .. Len(s) : s[n] = t[n]
  PROVE  Total(s) <= Total(t)
<1> DEFINE m == Len(t) - Len(s)
           w == [i \in 1 .. m |-> t[Len(s) + i]]
<1>1. m \in Nat /\ \A i \in 1 .. m : t[Len(s) + i] \in Nat
  OBVIOUS
<1>2. w \in Seq(Nat) /\ Len(w) = m /\ \A i \in 1 .. m : w[i] = t[Len(s) + i]
  <2>1. w \in Seq(Nat)
    <3> HIDE DEF m
    <3> QED BY <1>1, IsASeq
  <2>2. Len(w) = m
    <3> HIDE DEF m
    <3> QED BY <1>1, LenProperties, <2>1
  <2> QED BY <2>1, <2>2
<1> HIDE DEF w
<1>3. s \o w = t
  <2>1. s \o w \in Seq(Nat) /\ Len(s \o w) = Len(t)
    BY <1>2, ConcatProperties
  <2>2. \A i \in 1 .. Len(t) : (s \o w)[i] = t[i]
    <3> TAKE i \in 1 .. Len(t)
    <3>1. (s \o w)[i] = IF i <= Len(s) THEN s[i] ELSE w[i - Len(s)]
      BY <1>2, ConcatProperties
    <3>2. CASE i <= Len(s)
      BY <3>1, <3>2
    <3>3. CASE ~(i <= Len(s))
      <4>1. i - Len(s) \in 1 .. m /\ Len(s) + (i - Len(s)) = i
        BY <3>3
      <4> HIDE DEF m
      <4> QED BY <1>2, <3>1, <3>3, <4>1
    <3> QED BY <3>2, <3>3
  <2> QED BY <2>1, <2>2, SeqEqual
<1>4. Total(t) = Total(s) + Total(w) /\ Total(s) \in Nat /\ Total(w) \in Nat
  BY <1>2, <1>3, TotalConcat, TotalNat
<1> QED BY <1>4

-----------------------------------------------------------------------------
\* f flattens every prefix of ss.
Flattens(f, ss) == f = [i \in 1 .. Len(ss) |-> IF i = 1 THEN ss[i] ELSE f[i - 1] \o ss[i]]

(* The first m sequences can be put one after the other, piece by piece.    *)
LEMMA FlattensUpTo ==
  ASSUME NEW S, NEW ss \in Seq(Seq(S)), NEW m \in 1 .. Len(ss)
  PROVE  \E f \in [1 .. m -> Seq(S)] : f[1] = ss[1] /\ \A n \in 2 .. m : f[n] = f[n - 1] \o ss[n]
<1> DEFINE Upto(k) == \E f \in [1 .. k -> Seq(S)] : f[1] = ss[1] /\ \A n \in 2 .. k : f[n] = f[n - 1] \o ss[n]
           T == {k \in 1 .. Len(ss) : ~ Upto(k)}
<1>1. SUFFICES ASSUME T # {} PROVE FALSE
  OBVIOUS
<1>2. PICK k \in T : \A j \in T : k <= j
  <2> HIDE DEF Upto
  <2>1. T \subseteq Nat
    OBVIOUS
  <2> HIDE DEF T
  <2> QED BY <1>1, <2>1, Least
<1>3. k \in 1 .. Len(ss) /\ ss[k] \in Seq(S) /\ ss[1] \in Seq(S)
  BY <1>2
<1>4. k # 1
  <2> DEFINE z == [n \in 1 .. 1 |-> ss[1]]
  <2>1. z \in [1 .. 1 -> Seq(S)] /\ z[1] = ss[1] /\ \A n \in 2 .. 1 : z[n] = z[n - 1] \o ss[n]
    BY <1>3
  <2>2. Upto(1)
    BY <2>1
  <2> QED BY <2>2
<1>5. Upto(k - 1)
  <2>1. k \in Nat /\ k - 1 \in 1 .. Len(ss)
    BY <1>3, <1>4
  <2>2. k - 1 \notin T
    <3> HIDE DEF T
    <3> QED BY <1>2, <2>1
  <2> QED BY <2>1, <2>2
<1>6. PICK f \in [1 .. k - 1 -> Seq(S)] : f[1] = ss[1] /\ \A n \in 2 .. k - 1 : f[n] = f[n - 1] \o ss[n]
  BY <1>5
<1>7. f[k - 1] \in Seq(S)
  BY <1>3, <1>4
<1> DEFINE x == f[k - 1] \o ss[k]
           g == [n \in 1 .. k |-> IF n = k THEN x ELSE f[n]]
<1>8. x \in Seq(S)
  BY <1>3, <1>7
<1>9. g \in [1 .. k -> Seq(S)] /\ g[k] = x /\ \A n \in 1 .. k - 1 : g[n] = f[n]
  <2> HIDE DEF x
  <2> QED BY <1>3, <1>4, <1>8
<1>10. g[1] = ss[1] /\ \A n \in 2 .. k : g[n] = g[n - 1] \o ss[n]
  <2> HIDE DEF g
  <2>1. g[1] = ss[1]
    BY <1>3, <1>4, <1>6, <1>9
  <2>2. ASSUME NEW n \in 2 .. k PROVE g[n] = g[n - 1] \o ss[n]
    <3>1. CASE n = k
      <4>1. k - 1 \in 1 .. k - 1
        BY <1>3, <1>4
      <4>2. g[k] = f[k - 1] \o ss[k] /\ g[k - 1] = f[k - 1]
        BY <1>9, <4>1
      <4> QED BY <3>1, <4>2
    <3>2. CASE n # k
      <4>1. n \in 2 .. k - 1 /\ n - 1 \in 1 .. k - 1 /\ n \in 1 .. k - 1
        BY <1>3, <1>4, <3>2
      <4> QED BY <1>6, <1>9, <4>1
    <3> QED BY <3>1, <3>2
  <2> QED BY <2>1, <2>2
<1>11. Upto(k)
  <2> HIDE DEF g
  <2> QED BY <1>9, <1>10
<1> QED BY <1>11

(* A flattened prefix is the one before it and the sequence at its place.   *)
LEMMA FlattensStep ==
  ASSUME NEW ss, NEW f, Flattens(f, ss), NEW k \in 1 .. Len(ss)
  PROVE  f[k] = IF k = 1 THEN ss[k] ELSE f[k - 1] \o ss[k]
<1>1. f = [i \in 1 .. Len(ss) |-> IF i = 1 THEN ss[i] ELSE f[i - 1] \o ss[i]]
  BY DEF Flattens
<1> QED BY ONLY <1>1, k \in 1 .. Len(ss), Zenon

(* FlattenSeq is the last of the flattened prefixes.                        *)
LEMMA FlattenIs ==
  ASSUME NEW S, NEW ss \in Seq(Seq(S)), Len(ss) # 0
  PROVE  \E f : Flattens(f, ss) /\ FlattenSeq(ss) = f[Len(ss)]
<1>1. \E f : Flattens(f, ss)
  <2>0. Len(ss) \in 1 .. Len(ss) /\ 1 \in 1 .. Len(ss)
    OBVIOUS
  <2>1. PICK f \in [1 .. Len(ss) -> Seq(S)] : f[1] = ss[1] /\ \A n \in 2 .. Len(ss) : f[n] = f[n - 1] \o ss[n]
    BY <2>0, FlattensUpTo, ZenonT(40)
  <2> DEFINE g == [i \in 1 .. Len(ss) |-> IF i = 1 THEN ss[i] ELSE f[i - 1] \o ss[i]]
  <2>2. \A i \in 1 .. Len(ss) : f[i] = g[i]
    <3> TAKE i \in 1 .. Len(ss)
    <3>1. CASE i = 1
      BY <2>1, <3>1
    <3>2. CASE i # 1
      <4>1. i \in 2 .. Len(ss)
        BY <3>2
      <4>2. g[i] = f[i - 1] \o ss[i]
        BY <3>2, Zenon
      <4> QED BY <2>1, <4>1, <4>2
    <3> QED BY <3>1, <3>2
  <2>3. f = g
    <3>1. DOMAIN f = 1 .. Len(ss) /\ f = [i \in 1 .. Len(ss) |-> f[i]]
      OBVIOUS
    <3>2. g = [i \in 1 .. Len(ss) |-> g[i]]
      BY Zenon
    <3> HIDE DEF g
    <3> QED BY <2>2, <3>1, <3>2
  <2> QED BY <2>3, Zenon DEF Flattens
<1> DEFINE f == CHOOSE f : Flattens(f, ss)
<1>2. Flattens(f, ss)
  BY <1>1
<1>3. FlattenSeq(ss) = f[Len(ss)]
  BY Zenon DEF FlattenSeq, Flattens
<1> QED BY <1>2, <1>3

(* Sequences that agree flatten to the same.                                *)
LEMMA FlattensAgree ==
  ASSUME NEW S, NEW ss \in Seq(Seq(S)), NEW tt \in Seq(Seq(S)), Len(ss) <= Len(tt), \A n \in 1 .. Len(ss) : ss[n] = tt[n],
         NEW f, NEW g, Flattens(f, ss), Flattens(g, tt), NEW m \in 1 .. Len(ss)
  PROVE  f[m] = g[m] /\ f[m] \in Seq(S)
<1> DEFINE T == {k \in 1 .. Len(ss) : ~(f[k] = g[k] /\ f[k] \in Seq(S))}
<1>1. SUFFICES ASSUME T # {} PROVE FALSE
  OBVIOUS
<1>2. PICK k \in T : \A j \in T : k <= j
  <2> T \subseteq Nat
    OBVIOUS
  <2> HIDE DEF T
  <2> QED BY <1>1, Least
<1>3. k \in 1 .. Len(ss) /\ k \in 1 .. Len(tt) /\ ss[k] \in Seq(S) /\ ss[k] = tt[k]
  BY <1>2
<1>4. f[k] = IF k = 1 THEN ss[k] ELSE f[k - 1] \o ss[k]
  BY <1>3, Flattens(f, ss), FlattensStep, Zenon
<1>5. g[k] = IF k = 1 THEN tt[k] ELSE g[k - 1] \o tt[k]
  BY <1>3, Flattens(g, tt), FlattensStep, Zenon
<1>6. CASE k = 1
  BY <1>2, <1>3, <1>4, <1>5, <1>6
<1>7. CASE k # 1
  <2>1. k - 1 \in 1 .. Len(ss) /\ k - 1 \notin T
    <3>1. k - 1 \in 1 .. Len(ss) /\ ~(k <= k - 1)
      BY <1>3, <1>7
    <3> HIDE DEF T
    <3> QED BY <1>2, <3>1
  <2>2. f[k - 1] = g[k - 1] /\ f[k - 1] \in Seq(S)
    BY <2>1
  <2>3. f[k] = g[k]
    BY <1>3, <1>4, <1>5, <1>7, <2>2
  <2>4. f[k] \in Seq(S)
    BY <1>3, <1>4, <1>7, <2>2
  <2> QED BY <1>2, <2>3, <2>4
<1> QED BY <1>6, <1>7

(* Flattening: nothing, the type of the result, and one more sequence.      *)
LEMMA FlattenEmpty == FlattenSeq(<<>>) = <<>>
<1>1. Len(<<>>) = 0
  OBVIOUS
<1> QED BY <1>1, Zenon DEF FlattenSeq

(* Flattening keeps the elements.                                           *)
LEMMA FlattenTyped == ASSUME NEW S, NEW ss \in Seq(Seq(S)) PROVE FlattenSeq(ss) \in Seq(S)
<1>1. CASE Len(ss) = 0
  <2>1. ss = <<>>
    BY <1>1
  <2>2. <<>> \in Seq(S)
    BY EmptySeq
  <2> QED BY <2>1, <2>2, FlattenEmpty
<1>2. CASE Len(ss) # 0
  <2>1. PICK f : Flattens(f, ss) /\ FlattenSeq(ss) = f[Len(ss)]
    BY <1>2, FlattenIs
  <2>2. Len(ss) \in 1 .. Len(ss) /\ Len(ss) <= Len(ss)
    BY <1>2
  <2> QED BY <2>1, <2>2, FlattensAgree
<1> QED BY <1>1, <1>2

(* One more sequence is put after the flattened ones.                       *)
LEMMA FlattenAppend ==
  ASSUME NEW S, NEW ss \in Seq(Seq(S)), NEW x \in Seq(S)
  PROVE  FlattenSeq(Append(ss, x)) = FlattenSeq(ss) \o x
<1> DEFINE tt == Append(ss, x)
<1>1. /\ tt \in Seq(Seq(S)) /\ Len(tt) = Len(ss) + 1 /\ tt[Len(tt)] = x
      /\ Len(tt) # 0 /\ Len(tt) \in 1 .. Len(tt) /\ Len(tt) - 1 = Len(ss) /\ \A n \in 1 .. Len(ss) : ss[n] = tt[n]
  OBVIOUS
<1> HIDE DEF tt
<1>2. PICK g : Flattens(g, tt) /\ FlattenSeq(tt) = g[Len(tt)]
  BY <1>1, FlattenIs
<1>3. g[Len(tt)] = IF Len(tt) = 1 THEN tt[Len(tt)] ELSE g[Len(tt) - 1] \o tt[Len(tt)]
  BY <1>1, <1>2, FlattensStep, Zenon
<1>4. CASE Len(ss) = 0
  <2>1. ss = <<>> /\ Len(tt) = 1 /\ <<>> \o x = x
    BY <1>1, <1>4
  <2> QED BY <1>1, <1>2, <1>3, <2>1, FlattenEmpty DEF tt
<1>5. CASE Len(ss) # 0
  <2>1. PICK f : Flattens(f, ss) /\ FlattenSeq(ss) = f[Len(ss)]
    BY <1>5, FlattenIs
  <2>2. Len(ss) \in 1 .. Len(ss) /\ Len(ss) <= Len(tt) /\ Len(tt) # 1
    BY <1>1, <1>5
  <2>3. f[Len(ss)] = g[Len(ss)]
    <3>1. tt \in Seq(Seq(S)) /\ \A n \in 1 .. Len(ss) : ss[n] = tt[n]
      BY <1>1
    <3>2. Flattens(f, ss) /\ Flattens(g, tt)
      BY <1>2, <2>1
    <3>3. Len(ss) <= Len(tt) /\ Len(ss) \in 1 .. Len(ss)
      BY <2>2
    <3>4. \A m \in 1 .. Len(ss) : f[m] = g[m] /\ f[m] \in Seq(S)
      BY <3>1, <3>2, <3>3, FlattensAgree
    <3> QED BY <3>3, <3>4
  <2> QED BY <1>1, <1>2, <1>3, <2>1, <2>2, <2>3 DEF tt
<1> QED BY <1>4, <1>5

-----------------------------------------------------------------------------
(* The repository: the snapshot, the screen of evidence and the commands.   *)

Listed == {Entry("a", "blob", 1), Entry("A", "blob", 2), Entry("b", "blob", 3), Entry("m", "commit", 0), Entry("..", "blob", 1)}

RepoTypes ==
    /\ gitStage \in {"start", "batch", "grep", "poll", "done", "failed"}
    /\ tree \in Seq(Listed) /\ total \in Nat
    /\ source \in Seq(SourceLines) /\ grepped \in Nat /\ grepped <= Len(source)
    /\ pipe \in {0, 1} /\ wrote \in Nat /\ retained_out \in Nat

\* A stage belongs to a task; the child runs in no other stage than these.
StageInv ==
    /\ gitStage = "batch" => task = "clone"
    /\ gitStage = "grep" => task = "screen"
    /\ gitStage = "poll" => task = "command"
    /\ gitStage \in {"start", "done", "failed"} => child # "running"

\* What the reader kept and what is in the pipe is all that was written, as
\* long as that is within the limit.
PipeInv ==
    /\ wrote <= MaxRetained => retained_out + pipe = wrote
    /\ task = "command" /\ gitStage = "done" => pipe = 0 /\ wrote <= MaxRetained

\* The blobs before position n have been counted, and written if they fit.
SizesBefore(n) == [i \in 1 .. n |-> BlobSize(tree[i])]
CloneInv ==
    /\ gitStage = "start" => files = {} /\ total = 0
    /\ files # {} \/ gitStage = "batch" => \A i \in DOMAIN tree : validate_relative_path(tree[i].path)
    /\ gitStage = "batch" =>
          /\ total <= MaxSnapshot
          /\ \E n \in 0 .. Len(tree) :
                entries = {i \in Blobs(tree) : n < i} /\ total = Total(SizesBefore(n))
          /\ {f.content : f \in files} = {tree[i] : i \in {k \in Blobs(tree) \ entries : tree[k].size <= MaxBlob}}

\* The fields that the lines read so far share words with.
Found(n) == {f \in DOMAIN NarrativeFields :
                \E i \in 1 .. n : source[i].size <= MaxBlob /\ SharesWords(NarrativeFields[f], source[i].words)}
ScreenInv ==
    /\ gitStage = "start" => grepped = 0 /\ matched = {}
    /\ gitStage = "grep" => matched = Found(grepped)

RepoInv == RepoTypes /\ StageInv /\ PipeInv /\ CloneInv /\ ScreenInv
           /\ SnapshotFaithful /\ EvidenceStable /\ ScreeningExact

(* Sizes in a listed tree are natural numbers.                              *)
LEMMA ListedIs == \A e \in Listed : e.size \in Nat /\ BlobSize(e) \in Nat
BY DEF Listed, Entry, BlobSize

(* The source lines and the narrative fields are words by their lengths.    *)
LEMMA SourceIs ==
    /\ \A l \in SourceLines : l.size \in Nat /\ l.words \in Seq(Nat)
    /\ DOMAIN NarrativeFields = 1 .. 2 /\ \A f \in 1 .. 2 : NarrativeFields[f] \in Seq(Nat)
BY DEF SourceLines, Text, NarrativeFields

(* A window of three or four words of a line.                               *)
LEMMA WindowIs ==
  ASSUME NEW v \in Seq(Nat), NEW n \in 3 .. 4, NEW i \in 1 .. Len(v) - n + 1
  PROVE  /\ SubSeq(v, i, i + n - 1) \in Seq(Nat) /\ Len(SubSeq(v, i, i + n - 1)) = n
         /\ \A k \in 0 .. n - 1 : SubSeq(v, i, i + n - 1)[1 + k] = v[i + k]
<1>1. i \in 1 .. Len(v) + 1 /\ i + n - 1 \in i - 1 .. Len(v) /\ (i + n - 1) - i + 1 = n
  OBVIOUS
<1>2. /\ SubSeq(v, i, i + n - 1) \in Seq(Nat) /\ Len(SubSeq(v, i, i + n - 1)) = n
      /\ \A m \in 1 .. n : SubSeq(v, i, i + n - 1)[m] = v[i + m - 1]
  BY <1>1, SubSeqProperties
<1>3. ASSUME NEW k \in 0 .. n - 1 PROVE SubSeq(v, i, i + n - 1)[1 + k] = v[i + k]
  <2>1. 1 + k \in 1 .. n /\ i + (1 + k) - 1 = i + k
    OBVIOUS
  <2> QED BY <1>2, <2>1
<1> QED BY <1>2, <1>3

(* A fingerprint is the whole line or a window of three or four words.      *)
LEMMA FingerprintIs ==
  ASSUME NEW v \in Seq(Nat), NEW f
  PROVE  f \in each_fingerprint(v) <=>
            /\ Chars(f) >= 24
            /\ f = v \/ \E n \in 3 .. 4 : \E i \in 1 .. Len(v) - n + 1 : f = SubSeq(v, i, i + n - 1)
<1> DEFINE windows == {SubSeq(v, x[1] - x[2] + 1, x[1]) : x \in {y \in (DOMAIN v) \X (3 .. 4) : y[2] <= y[1]}}
<1>1. f \in each_fingerprint(v) <=> Chars(f) >= 24 /\ (f = v \/ f \in windows)
  BY Zenon DEF each_fingerprint
<1>2. f \in windows => \E n \in 3 .. 4 : \E i \in 1 .. Len(v) - n + 1 : f = SubSeq(v, i, i + n - 1)
  <2> SUFFICES ASSUME f \in windows PROVE \E n \in 3 .. 4 : \E i \in 1 .. Len(v) - n + 1 : f = SubSeq(v, i, i + n - 1)
    OBVIOUS
  <2>1. PICK j \in DOMAIN v, n \in 3 .. 4 : n <= j /\ f = SubSeq(v, j - n + 1, j)
    OBVIOUS
  <2>4. n <= j
    BY <2>1
  <2>5. j \in 1 .. Len(v) /\ Len(v) \in Nat
    BY SMTT(40)
  <2>3. Len(v) \in Nat /\ j \in Nat /\ 1 <= j /\ j <= Len(v) /\ n \in Nat /\ n <= j
    BY ONLY <2>4, <2>5, n \in 3 .. 4
  <2>2. j - n + 1 \in 1 .. Len(v) - n + 1 /\ (j - n + 1) + n - 1 = j
    BY ONLY <2>3, SMTT(40)
  <2> QED BY <2>1, <2>2
<1>3. ASSUME NEW n \in 3 .. 4, NEW i \in 1 .. Len(v) - n + 1, f = SubSeq(v, i, i + n - 1)
      PROVE  f \in windows
  <2> DEFINE y == <<i + n - 1, n>>
  <2>1. y \in (DOMAIN v) \X (3 .. 4) /\ y[2] <= y[1] /\ y[1] - y[2] + 1 = i /\ y[1] = i + n - 1
    OBVIOUS
  <2> HIDE DEF y
  <2> QED BY <2>1, <1>3
<1> QED BY <1>1, <1>2, <1>3

(* Two lines have a fingerprint in common when they share words in a row.   *)
LEMMA FingerprintsMeet ==
  ASSUME NEW v \in Seq(Nat), NEW w \in Seq(Nat)
  PROVE  each_fingerprint(w) \cap each_fingerprint(v) # {} <=> SharesWords(v, w)
<1>1. ASSUME NEW f \in each_fingerprint(w), f \in each_fingerprint(v) PROVE SharesWords(v, w)
  <2>1. Chars(f) >= 24 /\ (f = v \/ \E n \in 3 .. 4 : \E i \in 1 .. Len(v) - n + 1 : f = SubSeq(v, i, i + n - 1))
    BY <1>1, FingerprintIs
  <2>2. f = w \/ \E n \in 3 .. 4 : \E i \in 1 .. Len(w) - n + 1 : f = SubSeq(w, i, i + n - 1)
    BY <1>1, FingerprintIs
  <2>3. CASE f = v /\ f = w
    BY <2>1, <2>3 DEF SharesWords
  <2>4. CASE \E n \in 3 .. 4 : \E i \in 1 .. Len(v) - n + 1 : f = SubSeq(v, i, i + n - 1)
    <3>1. PICK n \in 3 .. 4 : \E i \in 1 .. Len(v) - n + 1 : f = SubSeq(v, i, i + n - 1)
      BY <2>4
    <3>2. PICK i \in 1 .. Len(v) - n + 1 : f = SubSeq(v, i, i + n - 1)
      BY <3>1
    <3>3. Len(f) = n /\ \A k \in 0 .. n - 1 : f[1 + k] = v[i + k]
      BY <3>2, WindowIs
    <3>4. \E j \in 1 .. Len(w) - n + 1 : \A k \in 0 .. n - 1 : f[1 + k] = w[j + k]
      <4>1. CASE f = w
        <5>1. 1 \in 1 .. Len(w) - n + 1
          BY <4>1, <3>3
        <5> QED BY <4>1, <5>1
      <4>2. CASE \E m \in 3 .. 4 : \E j \in 1 .. Len(w) - m + 1 : f = SubSeq(w, j, j + m - 1)
        <5>1. PICK m \in 3 .. 4 : \E j \in 1 .. Len(w) - m + 1 : f = SubSeq(w, j, j + m - 1)
          BY <4>2
        <5>2. PICK j \in 1 .. Len(w) - m + 1 : f = SubSeq(w, j, j + m - 1)
          BY <5>1
        <5>3. Len(f) = m /\ \A k \in 0 .. m - 1 : f[1 + k] = w[j + k]
          BY <5>2, WindowIs
        <5> QED BY <5>3, <3>3
      <4> QED BY <4>1, <4>2, <2>2
    <3>5. PICK j \in 1 .. Len(w) - n + 1 : \A k \in 0 .. n - 1 : f[1 + k] = w[j + k]
      BY <3>4
    <3>6. \A k \in 0 .. n - 1 : v[i + k] = w[j + k]
      BY <3>3, <3>5
    <3>7. Chars(SubSeq(v, i, i + n - 1)) >= 24
      BY <3>2, <2>1
    <3> QED BY <3>6, <3>7 DEF SharesWords
  <2>5. CASE f = v /\ \E n \in 3 .. 4 : \E i \in 1 .. Len(w) - n + 1 : f = SubSeq(w, i, i + n - 1)
    <3>1. PICK n \in 3 .. 4 : \E i \in 1 .. Len(w) - n + 1 : f = SubSeq(w, i, i + n - 1)
      BY <2>5
    <3>2. PICK j \in 1 .. Len(w) - n + 1 : f = SubSeq(w, j, j + n - 1)
      BY <3>1
    <3>3. Len(v) = n /\ \A k \in 0 .. n - 1 : v[1 + k] = w[j + k]
      <4>1. Len(f) = n /\ \A k \in 0 .. n - 1 : f[1 + k] = w[j + k]
        BY <3>2, WindowIs
      <4> QED BY <4>1, <2>5
    <3>4. 1 \in 1 .. Len(v) - n + 1 /\ SubSeq(v, 1, 1 + n - 1) = v
      BY <3>3
    <3>5. Chars(SubSeq(v, 1, 1 + n - 1)) >= 24
      BY <3>4, <2>5, <2>1
    <3>6. \E a \in 1 .. Len(v) - n + 1, b \in 1 .. Len(w) - n + 1 :
             (\A k \in 0 .. n - 1 : v[a + k] = w[b + k]) /\ Chars(SubSeq(v, a, a + n - 1)) >= 24
      BY <3>3, <3>4, <3>5
    <3> QED BY <3>6 DEF SharesWords
  <2> QED BY <2>1, <2>2, <2>3, <2>4, <2>5
<1>2. ASSUME SharesWords(v, w) PROVE \E f : f \in each_fingerprint(w) /\ f \in each_fingerprint(v)
  <2>1. CASE w = v /\ Chars(v) >= 24
    BY <2>1, FingerprintIs
  <2>2. ASSUME NEW n \in 3 .. 4, NEW i \in 1 .. Len(v) - n + 1, NEW j \in 1 .. Len(w) - n + 1,
               \A k \in 0 .. n - 1 : v[i + k] = w[j + k], Chars(SubSeq(v, i, i + n - 1)) >= 24
        PROVE  \E f : f \in each_fingerprint(w) /\ f \in each_fingerprint(v)
    <3> DEFINE a == SubSeq(v, i, i + n - 1)
               b == SubSeq(w, j, j + n - 1)
    <3>1. a = b
      <4>1. a \in Seq(Nat) /\ Len(a) = n /\ b \in Seq(Nat) /\ Len(b) = n
        BY WindowIs
      <4>2. \A k \in 0 .. n - 1 : a[1 + k] = v[i + k] /\ b[1 + k] = w[j + k]
        BY WindowIs
      <4>3. ASSUME NEW m \in 1 .. n PROVE a[m] = b[m]
        <5>1. m - 1 \in 0 .. n - 1 /\ 1 + (m - 1) = m
          OBVIOUS
        <5> HIDE DEF a, b
        <5> QED BY <2>2, <4>2, <5>1
      <4> HIDE DEF a, b
      <4> QED BY <4>1, <4>3
    <3> QED BY <3>1, <2>2, FingerprintIs
  <2> QED BY <1>2, <2>1, <2>2 DEF SharesWords
<1> QED BY <1>1, <1>2
(* Whatever is bound for a provider's citation is within the blob, no       *)
(* longer than the viewer shows, and verifies.                              *)
LEMMA EvidenceBound ==
  ASSUME NEW path \in {"readme", "README", "MAIN", "main", "gone", ".."}, NEW start \in Nat, NEW end \in Nat,
         NEW r, r = evidence(path, start, end), r # NoRef
  PROVE  /\ r.path \in DOMAIN LinesOf /\ (path \in DOMAIN LinesOf => r.path = path)
         /\ r.start = start /\ r.start <= r.end /\ r.end <= end
         /\ r.end <= LinesOf[r.path] /\ r.end - r.start < MaxEvidence
         /\ verify_evidence(r) /\ read_evidence(r) = r.excerpt
<1> DEFINE found == Resolved(path)
           p == CHOOSE x \in found : TRUE
           last == LastLine(p, start, end)
<1>1. path # ".." /\ start # 0 /\ ~(end < start) /\ found # {} /\ ~(start > LinesOf[p])
  BY DEF evidence
<1>2. r = [path |-> p, start |-> start, end |-> last, excerpt |-> {<<p, k>> : k \in start .. last}]
  BY <1>1 DEF evidence
<1>3. DOMAIN LinesOf = {"readme", "Readme", "main"} /\ \A x \in DOMAIN LinesOf : LinesOf[x] \in Nat
  BY DEF LinesOf
<1>4. found \subseteq DOMAIN LinesOf /\ (path \in DOMAIN LinesOf => found = {path})
  BY <1>3 DEF Resolved, SameButCase
<1>5. p \in DOMAIN LinesOf /\ (path \in DOMAIN LinesOf => p = path) /\ LinesOf[p] \in Nat
  BY <1>1, <1>3, <1>4
<1> HIDE DEF p, found
<1>6. last \in Nat /\ start <= last /\ last <= end /\ last <= LinesOf[p] /\ last - start < MaxEvidence
  BY <1>1, <1>5, RepositoryAssumption DEF LastLine
<1>7. Resolved(p) = {p}
  BY <1>5 DEF Resolved
<1>8. LastLine(p, start, last) = last
  BY <1>1, <1>5, <1>6, RepositoryAssumption DEF LastLine
<1> HIDE DEF last
<1>9. evidence(p, start, last) = r
  <2>1. p # ".."
    BY <1>3, <1>5
  <2>2. (CHOOSE x \in {p} : TRUE) = p
    OBVIOUS
  <2>3. {p} # {} /\ start # 0 /\ ~(last < start) /\ ~(start > LinesOf[p])
    BY <1>1, <1>6
  <2> QED BY <1>2, <1>7, <1>8, <2>1, <2>2, <2>3, Zenon DEF evidence
<1>10. r.path = p /\ r.start = start /\ r.end = last /\ r.excerpt = {<<p, k>> : k \in start .. last}
  BY <1>2
<1>11. verify_evidence(r)
  BY <1>9, <1>10 DEF verify_evidence
<1>12. read_evidence(r) = r.excerpt
  BY <1>10 DEF read_evidence
<1> QED BY <1>5, <1>6, <1>10, <1>11, <1>12

(* What an initial listing and an initial source are.                       *)
LEMMA RepoInit == RepositoryInit => RepoInv
<1> SUFFICES ASSUME RepositoryInit PROVE RepoInv
  OBVIOUS
<1>1. tree \in Seq(Listed)
  <2>1. CASE task = "clone"
    <3>1. tree \in {<<>>} \cup UNION {[1 .. n -> Listed] : n \in 1 .. 3}
      BY <2>1 DEF RepositoryInit, Listings, Trees, Listed
    <3>2. CASE tree = <<>>
      BY <3>2
    <3>3. CASE tree \in UNION {[1 .. n -> Listed] : n \in 1 .. 3}
      <4>1. PICK n \in 1 .. 3 : tree \in [1 .. n -> Listed]
        BY <3>3
      <4> QED BY <4>1
    <3> QED BY <3>1, <3>2, <3>3
  <2>2. CASE task # "clone"
    BY <2>2 DEF RepositoryInit
  <2> QED BY <2>1, <2>2
<1>2. source \in Seq(SourceLines)
  <2>1. source \in {<<>>} \cup UNION {[1 .. n -> SourceLines] : n \in 1 .. 3}
    BY DEF RepositoryInit, Sources
  <2>2. CASE source = <<>>
    BY <2>2
  <2>3. CASE source \in UNION {[1 .. n -> SourceLines] : n \in 1 .. 3}
    <3>1. PICK n \in 1 .. 3 : source \in [1 .. n -> SourceLines]
      BY <2>3
    <3> QED BY <3>1
  <2> QED BY <2>1, <2>2, <2>3
<1>3. RepoTypes
  BY <1>1, <1>2 DEF RepositoryInit, RepoTypes
<1>4. StageInv /\ PipeInv /\ CloneInv /\ ScreenInv
  BY RepositoryAssumption DEF RepositoryInit, StageInv, PipeInv, CloneInv, ScreenInv
<1>5. SnapshotFaithful /\ ScreeningExact
  BY DEF RepositoryInit, SnapshotFaithful, ScreeningExact
<1>6. EvidenceStable
  BY DEF RepositoryInit, EvidenceStable
<1> QED BY <1>3, <1>4, <1>5, <1>6 DEF RepoInv

-----------------------------------------------------------------------------
(* The total grows with each entry by the size of its blob, and an entry    *)
(* that is no blob adds nothing.                                            *)
LEMMA SizesGrow ==
  ASSUME RepoTypes, NEW n \in 1 .. Len(tree)
  PROVE  /\ Total(SizesBefore(n)) = Total(SizesBefore(n - 1)) + BlobSize(tree[n])
         /\ Total(SizesBefore(n - 1)) \in Nat
<1>1. \A i \in 1 .. Len(tree) : BlobSize(tree[i]) \in Nat
  BY ListedIs DEF RepoTypes
<1> DEFINE s == SizesBefore(n - 1)
<1>2. s \in Seq(Nat) /\ Len(s) = n - 1
  BY <1>1 DEF SizesBefore
<1>3. SizesBefore(n) = Append(s, BlobSize(tree[n]))
  <2>1. SizesBefore(n) \in Seq(Nat) /\ Len(SizesBefore(n)) = n
    BY <1>1 DEF SizesBefore
  <2>2. Append(s, BlobSize(tree[n])) \in Seq(Nat) /\ Len(Append(s, BlobSize(tree[n]))) = n
    BY <1>1, <1>2
  <2>3. ASSUME NEW k \in 1 .. n PROVE SizesBefore(n)[k] = Append(s, BlobSize(tree[n]))[k]
    BY <1>1, <1>2 DEF SizesBefore
  <2> HIDE DEF s
  <2> QED BY <2>1, <2>2, <2>3
<1> HIDE DEF s
<1>4. BlobSize(tree[n]) \in Nat
  BY <1>1
<1>5. Total(s) \in Nat /\ Total(Append(s, BlobSize(tree[n]))) = Total(s) + BlobSize(tree[n])
  BY <1>2, <1>4, TotalAppend, TotalNat
<1> QED BY <1>3, <1>5 DEF s

(* Entries that are no blobs add nothing.                                   *)
LEMMA SizesStay ==
  ASSUME RepoTypes, NEW n \in 0 .. Len(tree), NEW m \in n .. Len(tree),
         \A i \in n + 1 .. m : i \notin Blobs(tree)
  PROVE  Total(SizesBefore(m)) = Total(SizesBefore(n))
<1> DEFINE T == {k \in n .. m : Total(SizesBefore(k)) # Total(SizesBefore(n))}
<1>1. SUFFICES ASSUME T # {} PROVE FALSE
  OBVIOUS
<1>2. PICK k \in T : \A j \in T : k <= j
  <2> T \subseteq Nat
    OBVIOUS
  <2> HIDE DEF T
  <2> QED BY <1>1, Least
<1>3. k # n /\ k \in 1 .. Len(tree) /\ k \in n + 1 .. m /\ k - 1 \in n .. m
  OBVIOUS
<1>4. k - 1 \notin T
  <2> HIDE DEF T
  <2> QED BY <1>2, <1>3
<1>5. Total(SizesBefore(k - 1)) = Total(SizesBefore(n))
  BY <1>3, <1>4
<1>6. BlobSize(tree[k]) = 0
  <2>1. k \notin Blobs(tree) /\ k \in DOMAIN tree
    BY <1>3 DEF RepoTypes
  <2> QED BY <2>1 DEF Blobs, BlobSize
<1>7. Total(SizesBefore(k)) = Total(SizesBefore(k - 1)) + 0 /\ Total(SizesBefore(k - 1)) \in Nat
  BY <1>3, <1>6, SizesGrow
<1> QED BY <1>5, <1>7

(* All sizes are the sizes before the end.                                  *)
LEMMA SizesOfAll == [i \in DOMAIN tree |-> BlobSize(tree[i])] = SizesBefore(Len(tree)) \/ ~RepoTypes
BY DEF SizesBefore, RepoTypes

(* Nothing is counted before the first entry.                               *)
LEMMA NoSizes == Total(SizesBefore(0)) = 0
<1>1. SizesBefore(0) = <<>>
  BY DEF SizesBefore
<1> QED BY <1>1, TotalEmpty

-----------------------------------------------------------------------------
(* The listed tree is refused, or every blob of it is still to be counted.  *)
LEMMA ListTreeStep == ASSUME RepoInv, ListTree PROVE RepoInv'
<1> USE DEF RepoInv
<1>1. RepoTypes'
  BY DEF ListTree, RepoTypes, Fail, screenVars, pipeVars
<1>2. StageInv' /\ PipeInv' /\ ScreenInv' /\ ScreeningExact' /\ EvidenceStable'
  BY DEF ListTree, Fail, StageInv, PipeInv, ScreenInv, ScreeningExact, EvidenceStable, screenVars, pipeVars, Found
<1>3. \A i : ~(i \in Blobs(tree) /\ i < 1)
  BY DEF Blobs, RepoTypes
<1>4. CloneInv'
  <2>1. files = {} /\ total = 0 /\ files' = {} /\ total' = 0 /\ tree' = tree
    BY DEF ListTree, CloneInv
  <2>2. CASE gitStage' = "batch"
    <3>1. /\ \A i \in DOMAIN tree : validate_relative_path(tree[i].path)
          /\ entries' = Blobs(tree)
      BY <2>2 DEF ListTree, Fail
    <3>2. entries' = {i \in Blobs(tree) : 0 < i}
      BY <3>1, <1>3 DEF Blobs, RepoTypes
    <3>3. 0 \in 0 .. Len(tree) /\ total' = Total(SizesBefore(0))
      BY <2>1, NoSizes DEF RepoTypes
    <3>4. {f.content : f \in files'} = {tree[i] : i \in {k \in Blobs(tree) \ entries' : tree[k].size <= MaxBlob}}
      BY <2>1, <3>1
    <3>5. total' <= MaxSnapshot
      BY <2>1, RepositoryAssumption
    <3>6. gitStage' # "start"
      BY <2>2
    <3>7. Blobs(tree)' = Blobs(tree) /\ \A n : SizesBefore(n)' = SizesBefore(n)
      BY <2>1 DEF Blobs, SizesBefore, BlobSize
    <3> QED BY <2>1, <2>2, <3>1, <3>2, <3>3, <3>4, <3>5, <3>6, <3>7 DEF CloneInv, SizesBefore, Blobs
  <2>3. CASE gitStage' # "batch"
    BY <2>1, <2>3 DEF CloneInv
  <2> QED BY <2>2, <2>3
<1>5. SnapshotFaithful'
  <2>1. files = {} /\ files' = {} /\ tree' = tree
    BY DEF ListTree, CloneInv
  <2>2. CASE gitStage' = "done"
    <3>1. Blobs(tree) = {}
      BY <2>2 DEF ListTree, Fail
    <3>2. Total([i \in DOMAIN tree |-> BlobSize(tree[i])]) = 0
      <4>1. 0 \in 0 .. Len(tree) /\ Len(tree) \in 0 .. Len(tree) /\ \A i \in 1 .. Len(tree) : i \notin Blobs(tree)
        BY <3>1 DEF RepoTypes
      <4>2. Total(SizesBefore(Len(tree))) = Total(SizesBefore(0))
        BY <4>1, SizesStay
      <4> QED BY <4>2, NoSizes, SizesOfAll
    <3>3. Total([i \in DOMAIN tree |-> BlobSize(tree[i])]) <= MaxSnapshot
      BY <3>2, RepositoryAssumption
    <3>4. {tree[i] : i \in {k \in Blobs(tree) : tree[k].size <= MaxBlob}} = {}
      BY <3>1
    <3> QED BY <2>1, <3>3, <3>4 DEF SnapshotFaithful, Blobs
  <2>3. CASE gitStage' # "done"
    BY <2>1, <2>3 DEF SnapshotFaithful
  <2> QED BY <2>2, <2>3
<1> QED BY <1>1, <1>2, <1>4, <1>5

(* The next blob is the first of those to come; it is counted, and written  *)
(* if it fits, and only if no file is there.                                *)
LEMMA NextBlobStep == ASSUME RepoInv, NextBlob PROVE RepoInv'
<1> DEFINE first == CHOOSE i \in entries : \A j \in entries : i <= j
<1>1. gitStage = "batch" /\ task = "clone" /\ entries # {} /\ total <= MaxSnapshot
  BY DEF NextBlob, RepoInv, CloneInv, StageInv
<1>2. PICK n \in 0 .. Len(tree) : entries = {i \in Blobs(tree) : n < i} /\ total = Total(SizesBefore(n))
  BY <1>1 DEF RepoInv, CloneInv, SizesBefore
<1>3. first \in entries /\ \A j \in entries : first <= j
  <2>1. entries \subseteq Nat
    BY <1>2 DEF Blobs, RepoInv, RepoTypes
  <2>2. \E i \in entries : \A j \in entries : i <= j
    BY <1>1, <2>1, Least
  <2> QED BY <2>2
<1>10. PICK next : next = first
  OBVIOUS
<1>11. PICK e : e = tree[next]
  OBVIOUS
<1>12. next \in entries /\ \A j \in entries : next <= j
  BY <1>3, <1>10
<1> HIDE DEF first
<1>4. next \in Blobs(tree) /\ n < next /\ next \in 1 .. Len(tree) /\ e \in Listed /\ e.size \in Nat /\ BlobSize(e) = e.size
  <2>1. next \in Blobs(tree) /\ n < next
    BY <1>2, <1>12
  <2>2. next \in 1 .. Len(tree) /\ e.kind # "commit" /\ e \in Listed
    BY <2>1, <1>11 DEF Blobs, RepoInv, RepoTypes
  <2> QED BY <2>1, <2>2, ListedIs DEF BlobSize
<1>5. /\ UNCHANGED <<task, cited, folds, tree, screenVars, pipeVars>>
      /\ \/ gitStage' = "failed" /\ child' = "killed" /\ UNCHANGED <<entries, total, files>>
         \/ /\ total' = total + e.size /\ entries' = entries \ {next}
            /\ total + e.size <= MaxSnapshot
            /\ files' = files \cup (IF e.size <= MaxBlob THEN {[path |-> OnDisk(e.path), content |-> e]} ELSE {})
            /\ UNCHANGED <<gitStage, child>>
    <2>1. UNCHANGED <<task, cited, folds, tree, screenVars, pipeVars>>
    BY DEF NextBlob
  <2>4. next = CHOOSE i \in entries : \A j \in entries : i <= j
    BY <1>10 DEF first
  <2>2. CASE gitStage' = "failed" /\ child' = "killed" /\ UNCHANGED <<entries, total, files>>
    BY <2>1, <2>2
  <2>3. CASE ~(gitStage' = "failed" /\ child' = "killed" /\ UNCHANGED <<entries, total, files>>)
    <3>1. /\ total' = total + e.size /\ entries' = entries \ {next}
          /\ ~(total + e.size > MaxSnapshot)
          /\ files' = files \cup (IF e.size <= MaxBlob THEN {[path |-> OnDisk(e.path), content |-> e]} ELSE {})
          /\ UNCHANGED <<gitStage, child>>
      BY <2>3, <2>4, <1>11, Zenon DEF NextBlob, Fail, Counted
    <3>2. total \in Nat
      BY DEF RepoInv, RepoTypes
    <3>3. total + e.size <= MaxSnapshot
      BY <3>1, <3>2, <1>4, RepositoryAssumption
    <3> QED BY <2>1, <3>1, <3>3
  <2> QED BY <2>2, <2>3
<1>6. RepoTypes' /\ StageInv' /\ PipeInv' /\ ScreenInv' /\ EvidenceStable' /\ ScreeningExact'
  BY <1>1, <1>4, <1>5 DEF RepoInv, RepoTypes, StageInv, PipeInv, ScreenInv, EvidenceStable, ScreeningExact, screenVars, pipeVars, Found
<1>7. \A i \in DOMAIN tree : validate_relative_path(tree[i].path)
  BY <1>1 DEF RepoInv, CloneInv
<1>8. SnapshotFaithful'
  BY <1>1, <1>5, <1>7 DEF SnapshotFaithful
<1>9. CloneInv'
  <2>1. CASE gitStage' = "failed"
    BY <1>5, <1>7, <2>1 DEF CloneInv
  <2>2. CASE gitStage' # "failed"
    <3>1. /\ total' = total + e.size /\ entries' = entries \ {next} /\ total' <= MaxSnapshot /\ tree' = tree
          /\ files' = files \cup (IF e.size <= MaxBlob THEN {[path |-> OnDisk(e.path), content |-> e]} ELSE {})
          /\ gitStage' = "batch"
      BY <1>1, <1>5, <2>2
    <3>2. entries' = {i \in Blobs(tree) : next < i}
      <4>1. \A i \in Blobs(tree) : i \in Nat
        BY DEF Blobs, RepoInv, RepoTypes
      <4>2. ASSUME NEW i \in Blobs(tree) PROVE i \in entries' <=> next < i
        <5>1. i \in entries <=> n < i
          BY <1>2
        <5>2. i \in entries => next <= i
          BY <1>12
        <5>3. n \in Nat /\ next \in Nat /\ i \in Nat /\ n < next
          BY <1>2, <1>4, <4>1
        <5> QED BY <3>1, <5>1, <5>2, <5>3
      <4>3. entries' \subseteq Blobs(tree)
        BY <1>2, <3>1
      <4> QED BY <4>2, <4>3
    <3>3. total' = Total(SizesBefore(next))
      <4>1. RepoTypes /\ next - 1 \in n .. Len(tree) /\ next - 1 \in Nat
        BY <1>2, <1>4 DEF RepoInv, RepoTypes
      <4>2. \A i \in n + 1 .. next - 1 : i \notin Blobs(tree)
        <5>1. ASSUME NEW i \in n + 1 .. next - 1, i \in Blobs(tree) PROVE FALSE
          <6>1. i \in Nat /\ n < i /\ i < next
            BY <1>2, <1>4, <5>1
          <6>2. i \in entries
            BY <1>2, <5>1, <6>1
          <6> QED BY <1>12, <1>4, <6>1, <6>2
        <5> QED BY <5>1
      <4>3. Total(SizesBefore(next - 1)) = Total(SizesBefore(n))
        BY <4>1, <4>2, SizesStay
      <4>4. Total(SizesBefore(next)) = Total(SizesBefore(next - 1)) + BlobSize(tree[next])
        BY <1>4, <4>1, SizesGrow
      <4> QED BY <1>2, <1>4, <3>1, <4>3, <4>4, <1>11
    <3>4. {f.content : f \in files'} = {tree[i] : i \in {k \in Blobs(tree) \ entries' : tree[k].size <= MaxBlob}}
      <4>1. {f.content : f \in files} = {tree[i] : i \in {k \in Blobs(tree) \ entries : tree[k].size <= MaxBlob}}
        BY <1>1 DEF RepoInv, CloneInv
      <4>2. Blobs(tree) \ entries' = (Blobs(tree) \ entries) \cup {next}
        BY <1>4, <3>1
      <4>3. CASE e.size <= MaxBlob
        <5>1. {f.content : f \in files'} = {f.content : f \in files} \cup {tree[next]}
          <6>1. files' = files \cup {[path |-> OnDisk(e.path), content |-> e]}
            BY <3>1, <4>3
          <6>2. PICK g : g = [path |-> OnDisk(e.path), content |-> e]
            OBVIOUS
          <6>3. g.content = e /\ files' = files \cup {g}
            BY <6>1, <6>2
          <6> QED BY ONLY <6>3, <1>11
        <5>2. {k \in Blobs(tree) \ entries' : tree[k].size <= MaxBlob}
              = {k \in Blobs(tree) \ entries : tree[k].size <= MaxBlob} \cup {next}
          BY <4>2, <4>3, <1>11
        <5> QED BY <4>1, <5>1, <5>2
      <4>4. CASE ~(e.size <= MaxBlob)
        <5>1. files' = files
          BY <3>1, <4>4
        <5>2. {k \in Blobs(tree) \ entries' : tree[k].size <= MaxBlob}
              = {k \in Blobs(tree) \ entries : tree[k].size <= MaxBlob}
          BY <4>2, <4>4, <1>11
        <5> QED BY <4>1, <5>1, <5>2
      <4> QED BY <4>3, <4>4
    <3>5. \E m \in 0 .. Len(tree) : entries' = {i \in Blobs(tree) : m < i} /\ total' = Total(SizesBefore(m))
      <4>1. next \in 0 .. Len(tree)
        BY <1>4
      <4> QED BY <3>2, <3>3, <4>1
    <3> QED BY <1>7, <3>1, <3>4, <3>5 DEF CloneInv, SizesBefore, Blobs
  <2> QED BY <2>1, <2>2
<1> QED BY <1>6, <1>8, <1>9 DEF RepoInv

(* After the last blob everything that fits is on disk and all is counted.  *)
LEMMA EndBatchStep == ASSUME RepoInv, EndBatch PROVE RepoInv'
<1>1. /\ gitStage = "batch" /\ task = "clone" /\ entries = {} /\ child' = "exited" /\ gitStage' \in {"done", "failed"}
      /\ UNCHANGED <<task, total, cited, snapshotVars, screenVars, pipeVars>>
  BY DEF EndBatch, RepoInv, StageInv
<1>2. PICK n \in 0 .. Len(tree) : entries = {i \in Blobs(tree) : n < i} /\ total = Total(SizesBefore(n))
  BY <1>1 DEF RepoInv, CloneInv, SizesBefore
<1>3. \A i \in n + 1 .. Len(tree) : i \notin Blobs(tree)
  <2>1. ASSUME NEW i \in n + 1 .. Len(tree), i \in Blobs(tree) PROVE FALSE
    <3>1. n < i
      BY <1>2, <2>1
    <3>2. i \in entries
      BY <1>2, <2>1, <3>1
    <3> QED BY <1>1, <3>2
  <2> QED BY <2>1
<1>4. Total([i \in DOMAIN tree |-> BlobSize(tree[i])]) <= MaxSnapshot
  <2>1. Len(tree) \in n .. Len(tree) /\ RepoTypes
    BY <1>2 DEF RepoInv, RepoTypes
  <2>2. Total(SizesBefore(Len(tree))) = total
    BY <1>2, <1>3, <2>1, SizesStay
  <2> QED BY <1>1, <2>1, <2>2, SizesOfAll DEF RepoInv, CloneInv
<1>5. /\ {f.content : f \in files} = {tree[i] : i \in {k \in Blobs(tree) : tree[k].size <= MaxBlob}}
      /\ \A i \in DOMAIN tree : validate_relative_path(tree[i].path)
  BY <1>1 DEF RepoInv, CloneInv
<1>6. SnapshotFaithful'
  BY <1>1, <1>4, <1>5 DEF SnapshotFaithful, Blobs, snapshotVars
<1>7. RepoTypes' /\ StageInv' /\ PipeInv' /\ ScreenInv' /\ EvidenceStable' /\ ScreeningExact' /\ CloneInv'
  BY <1>1, <1>5 DEF RepoInv, RepoTypes, StageInv, PipeInv, CloneInv, ScreenInv, EvidenceStable, ScreeningExact, screenVars, pipeVars,
     snapshotVars, Found
<1> QED BY <1>6, <1>7 DEF RepoInv

(* What a provider cites is screened from the first line.                   *)
LEMMA CiteStep == ASSUME RepoInv, Cite PROVE RepoInv'
<1>1. /\ task = "cite" /\ gitStage = "start" /\ gitStage' = "done"
      /\ UNCHANGED <<task, total, child, snapshotVars, screenVars, pipeVars>>
  BY DEF Cite
<1>2. PICK path \in {"readme", "README", "MAIN", "main", "gone", ".."}, start \in 0 .. 6, end \in 0 .. 7 :
         cited' = [path |-> path, start |-> start, end |-> end, ref |-> evidence(path, start, end)]
  BY DEF Cite
<1>3. PICK r : r = evidence(path, start, end)
  OBVIOUS
<1>4. cited'.ref = r /\ cited'.path = path /\ cited'.start = start /\ cited'.end = end
  BY <1>2, <1>3
<1>5. start \in Nat /\ end \in Nat
  OBVIOUS
<1>6. r # NoRef =>
         /\ r.path \in DOMAIN LinesOf /\ (path \in DOMAIN LinesOf => r.path = path)
         /\ r.start = start /\ r.start <= r.end /\ r.end <= end
         /\ r.end <= LinesOf[r.path] /\ r.end - r.start < MaxEvidence
         /\ verify_evidence(r) /\ read_evidence(r) = r.excerpt
  BY <1>3, <1>5, EvidenceBound
<1>7. EvidenceStable'
  BY <1>4, <1>6 DEF EvidenceStable
<1>8. RepoTypes' /\ StageInv' /\ PipeInv' /\ ScreenInv' /\ SnapshotFaithful' /\ ScreeningExact' /\ CloneInv'
  BY <1>1 DEF RepoInv, RepoTypes, StageInv, PipeInv, CloneInv, ScreenInv, SnapshotFaithful, ScreeningExact, screenVars, pipeVars,
     snapshotVars
<1> QED BY <1>7, <1>8 DEF RepoInv

-----------------------------------------------------------------------------
(* One more line adds the fields that share words with it, so stopping when *)
(* all have matched loses none.                                             *)
LEMMA FoundGrows ==
  ASSUME NEW n \in Nat
  PROVE  Found(n + 1) = Found(n) \cup {f \in DOMAIN NarrativeFields :
             source[n + 1].size <= MaxBlob /\ SharesWords(NarrativeFields[f], source[n + 1].words)}
<1>1. \A i : i \in 1 .. n + 1 <=> i \in 1 .. n \/ i = n + 1
  OBVIOUS
<1> HIDE DEF NarrativeFields
<1> QED BY <1>1, Zenon DEF Found

(* A line adds the fields that share a fingerprint with it.                 *)
LEMMA GrepLineStep == ASSUME RepoInv, GrepLine PROVE RepoInv'
<1>1. /\ gitStage = "grep" /\ task = "screen" /\ grepped < Len(source) /\ grepped' = grepped + 1
      /\ UNCHANGED <<task, cited, snapshotVars, source, pipeVars>>
  BY DEF GrepLine, RepoInv, StageInv
<1>2. PICK line : line = source[grepped + 1]
  OBVIOUS
<1>3. line \in SourceLines /\ line.size \in Nat /\ line.words \in Seq(Nat) /\ grepped \in Nat /\ grepped + 1 \in 1 .. Len(source)
  BY <1>1, <1>2, SourceIs DEF RepoInv, RepoTypes
<1>4. PICK hits : hits = {i \in DOMAIN NarrativeFields : line.size <= MaxBlob /\ each_fingerprint(line.words) \cap field_fingerprints[i] # {}}
  OBVIOUS
<1>5. hits = {f \in DOMAIN NarrativeFields : line.size <= MaxBlob /\ SharesWords(NarrativeFields[f], line.words)}
  <2>1. ASSUME NEW f \in DOMAIN NarrativeFields
        PROVE  each_fingerprint(line.words) \cap field_fingerprints[f] # {} <=> SharesWords(NarrativeFields[f], line.words)
    <3>1. field_fingerprints[f] = each_fingerprint(NarrativeFields[f])
      BY DEF field_fingerprints
    <3>2. NarrativeFields[f] \in Seq(Nat)
      BY SourceIs
    <3> QED BY <1>3, <3>1, <3>2, FingerprintsMeet
  <2> QED BY <1>4, <2>1
<1>6. /\ total' = total + line.size
      /\ \/ gitStage' = "failed" /\ child' = "killed" /\ matched' = matched
         \/ /\ matched' = matched \cup hits /\ matched' = DOMAIN NarrativeFields
            /\ gitStage' = "done" /\ child' = "killed"
         \/ /\ matched' = matched \cup hits /\ UNCHANGED <<gitStage, child>>
  BY <1>2, <1>4, Zenon DEF GrepLine, Fail
<1>7. matched = Found(grepped)
  BY <1>1 DEF RepoInv, ScreenInv
<1>8. matched \cup hits = Found(grepped + 1)
  BY <1>2, <1>3, <1>5, <1>7, FoundGrows
<1>9. ScreenInv'
  <2>2. Found(grepped)' = Found(grepped + 1)
    BY <1>1 DEF Found
  <2> QED BY <1>1, <1>6, <1>8, <2>2 DEF ScreenInv
<1>10. ScreeningExact'
  <2> SUFFICES ASSUME gitStage' = "done" PROVE ScreeningExact'
    BY DEF ScreeningExact
  <2>1. matched' = Found(grepped + 1) /\ matched' = DOMAIN NarrativeFields
    BY <1>1, <1>6, <1>8
  <2>2. Found(grepped + 1) \subseteq Found(Len(source))
    <3>1. \A i \in 1 .. grepped + 1 : i \in 1 .. Len(source)
      BY <1>3
    <3> QED BY <3>1 DEF Found
  <2>3. matched' = Found(Len(source))
    BY <2>1, <2>2 DEF Found
  <2>4. DOMAIN source = 1 .. Len(source)
    BY DEF RepoInv, RepoTypes
  <2> QED BY <1>1, <2>3, <2>4 DEF ScreeningExact, Found
<1>11. RepoTypes'
  BY <1>1, <1>3, <1>6 DEF RepoInv, RepoTypes, snapshotVars, pipeVars
<1>12. StageInv' /\ PipeInv' /\ SnapshotFaithful' /\ EvidenceStable' /\ CloneInv'
  BY <1>1, <1>6 DEF RepoInv, StageInv, PipeInv, CloneInv, SnapshotFaithful, EvidenceStable, snapshotVars, pipeVars
<1> QED BY <1>9, <1>10, <1>11, <1>12 DEF RepoInv

(* The screen ends with the fields found in every line.                     *)
LEMMA GrepEndsStep == ASSUME RepoInv, GrepEnds PROVE RepoInv'
<1>1. /\ gitStage = "grep" /\ task = "screen" /\ grepped = Len(source) /\ child' = "exited" /\ gitStage' \in {"done", "failed"}
      /\ UNCHANGED <<task, total, cited, snapshotVars, screenVars, pipeVars>>
  BY DEF GrepEnds, RepoInv, StageInv
<1>2. matched = Found(Len(source)) /\ DOMAIN source = 1 .. Len(source)
  BY <1>1 DEF RepoInv, ScreenInv, RepoTypes
<1>3. ScreeningExact'
  BY <1>1, <1>2 DEF ScreeningExact, Found, screenVars
<1>4. RepoTypes' /\ StageInv' /\ PipeInv' /\ SnapshotFaithful' /\ EvidenceStable' /\ CloneInv' /\ ScreenInv'
  BY <1>1 DEF RepoInv, RepoTypes, StageInv, PipeInv, CloneInv, ScreenInv, SnapshotFaithful, EvidenceStable, snapshotVars, pipeVars, screenVars
<1> QED BY <1>3, <1>4 DEF RepoInv

-----------------------------------------------------------------------------
(* Commands: the listing, the source and the reference stay as they are.    *)
LEMMA CommandSteps ==
  ASSUME RepoInv, StartGrep \/ Command \/ GitWrites \/ GitExits \/ HelperEnds \/ Drain \/ DeadlinePasses \/ JoinReader
  PROVE  RepoInv'
<1> USE RepositoryAssumption DEF RepoInv
<1>1. UNCHANGED <<task, total, cited, snapshotVars, screenVars>>
  BY DEF StartGrep, Command, GitWrites, GitExits, HelperEnds, Drain, DeadlinePasses, JoinReader
<1>3. RepoTypes' /\ StageInv' /\ PipeInv'
  <2>1. CASE StartGrep
    BY <2>1 DEF StartGrep, RepoTypes, StageInv, PipeInv, snapshotVars, screenVars, pipeVars
  <2>2. CASE Command
    BY <2>2 DEF Command, RepoTypes, StageInv, PipeInv, snapshotVars, screenVars, pipeVars
  <2>3. CASE GitWrites
    BY <2>3 DEF GitWrites, RepoTypes, StageInv, PipeInv, snapshotVars, screenVars, pipeVars
  <2>4. CASE GitExits
    BY <2>4 DEF GitExits, RepoTypes, StageInv, PipeInv, snapshotVars, screenVars, pipeVars
  <2>5. CASE HelperEnds
    BY <2>5 DEF HelperEnds, RepoTypes, StageInv, PipeInv, snapshotVars, screenVars, pipeVars
  <2>6. CASE Drain
    BY <2>6 DEF Drain, RepoTypes, StageInv, PipeInv, snapshotVars, screenVars, pipeVars
  <2>7. CASE DeadlinePasses
    BY <2>7 DEF DeadlinePasses, Fail, RepoTypes, StageInv, PipeInv, snapshotVars, screenVars, pipeVars
  <2>8. CASE JoinReader
    BY <2>8 DEF JoinReader, RepoTypes, StageInv, PipeInv, snapshotVars, screenVars, pipeVars
  <2> QED BY <2>1, <2>2, <2>3, <2>4, <2>5, <2>6, <2>7, <2>8
<1>4. \/ gitStage' \in {gitStage, "failed"}
      \/ gitStage' = "grep" /\ gitStage = "start"
      \/ task = "command" /\ gitStage' \in {"poll", "done"}
  BY DEF StartGrep, Command, GitWrites, GitExits, HelperEnds, Drain, DeadlinePasses, JoinReader, Fail, StageInv
<1>5. CloneInv' /\ ScreenInv' /\ SnapshotFaithful' /\ EvidenceStable' /\ ScreeningExact'
  <2>1. EvidenceStable'
    BY <1>1 DEF EvidenceStable
  <2>2. CloneInv'
    BY <1>1, <1>3, <1>4 DEF CloneInv, SizesBefore, Blobs, snapshotVars, StageInv
  <2>6. SnapshotFaithful'
    BY <1>1, <1>3, <1>4 DEF SnapshotFaithful, snapshotVars, StageInv
  <2>3. Found(0) = {} /\ \A n : Found(n)' = Found(n)
    BY <1>1 DEF Found, screenVars
  <2>4. ScreenInv'
    BY <1>1, <1>4, <2>3, <1>3 DEF ScreenInv, screenVars, StageInv, Found
  <2>5. ScreeningExact'
    BY <1>1, <1>3, <1>4 DEF ScreeningExact, screenVars, StageInv
  <2> QED BY <2>1, <2>2, <2>4, <2>5, <2>6
<1> QED BY <1>3, <1>5

(* Every step of the repository keeps its invariant.                        *)
LEMMA RepoStep == ASSUME RepoInv, [RepositoryNext]_repositoryVars PROVE RepoInv'
<1>1. CASE UNCHANGED repositoryVars
  <2> USE <1>1 DEF repositoryVars, snapshotVars, screenVars, pipeVars, RepoInv
  <2>1. RepoTypes' /\ StageInv' /\ PipeInv'
    BY DEF RepoTypes, StageInv, PipeInv
  <2>2. CloneInv'
    BY DEF CloneInv, SizesBefore, Blobs
  <2>3. ScreenInv'
    BY DEF ScreenInv, Found
  <2>4. SnapshotFaithful'
    BY DEF SnapshotFaithful
  <2>5. EvidenceStable'
    BY DEF EvidenceStable
  <2>6. ScreeningExact'
    BY DEF ScreeningExact
  <2> QED BY <2>1, <2>2, <2>3, <2>4, <2>5, <2>6
<1> QED BY <1>1, ListTreeStep, NextBlobStep, EndBatchStep, CiteStep, GrepLineStep, GrepEndsStep, CommandSteps DEF RepositoryNext

(* The invariant gives RepositorySound.                                     *)
LEMMA RepoInvSound == RepoInv => RepositorySound
BY DEF RepoInv, RepoTypes, StageInv, PipeInv, RepositorySound, CommandsContained

-----------------------------------------------------------------------------
(* The provider's stream.                                                   *)

\* The paths that can be shown.
Shown == {<<>>, <<"repository-1", "a">>, <<"repository-1", "b">>}
Activities == {<<>>} \cup {<<"read", s>> : s \in Shown} \cup {<<"list", s>> : s \in Shown}

\* The fixed wordings.
ShownWords == {"", "starting", "finalizing", "context", "assembling", "text", "thinking", "tool_use",
             "list", "reading", "re-reading"}

StreamTypes ==
    /\ streamKind \in {"codex", "claude"}
    /\ lines \in Seq(EventsOf(streamKind)) /\ retained \in Seq(EventsOf(streamKind))
    /\ files_read \in Seq(Shown)
    /\ feed \in Seq([wording : ShownWords, path : Shown, ordinal : Nat])

\* A file is in the list once, and a message's ordinal is its place.
FeedInv ==
    /\ \A i, j \in DOMAIN files_read : files_read[i] = files_read[j] => i = j
    /\ \A i \in DOMAIN feed :
          /\ feed[i].ordinal <= Len(files_read)
          /\ feed[i].ordinal > 0 => files_read[feed[i].ordinal] = feed[i].path

\* What is kept: of Claude the last result, of Codex what said something
\* among the first lines.
RetainInv ==
    /\ streamKind = "claude" => retained = IF ResultLines = {} THEN <<>> ELSE <<LastResult>>
    /\ streamKind = "codex" =>
          /\ Len(retained) <= RetainLimit /\ Len(retained) <= Len(lines)
          /\ \A i \in DOMAIN lines : i <= RetainLimit /\ lines[i].says # {} =>
                \E k \in DOMAIN retained : retained[k] = lines[i]

StreamInv == StreamTypes /\ FeedInv /\ RetainInv /\ TerminalEventWins /\ FailureNamed

(* A set of numbers below a bound has a greatest element.                   *)
LEMMA Greatest ==
  ASSUME NEW n \in Nat, NEW T \in SUBSET (1 .. n), T # {}
  PROVE  \E m \in T : \A k \in T : k <= m
<1> DEFINE U == {u \in Nat : \A k \in T : k <= u}
<1>1. U \subseteq Nat /\ n \in U
  OBVIOUS
<1>2. \A u \in Nat : u \in U <=> \A k \in T : k <= u
  OBVIOUS
<1> HIDE DEF U
<1>3. PICK m \in U : \A u \in U : m <= u
  BY <1>1, Least
<1>4. ASSUME m \notin T PROVE FALSE
  <2>1. m \in Nat /\ \A k \in T : k <= m
    BY <1>1, <1>2
  <2>2. PICK k \in T : TRUE
    OBVIOUS
  <2>3. m - 1 \in Nat /\ \A j \in T : j <= m - 1
    BY <1>4, <2>1, <2>2
  <2>4. m - 1 \in U
    BY <1>2, <2>3
  <2> QED BY <1>3, <2>1, <2>4
<1> QED BY <1>1, <1>2, <1>3, <1>4

(* What is shown of a path that a provider names.                           *)
LEMMA SafePathShown == \A p \in Paths : SafePath(p) \in Shown
<1>1. SafePath(Path(TRUE, <<"tmp", "repository-1", "a">>)) = <<"repository-1", "a">>
  <2> DEFINE parts == <<"tmp", "repository-1", "a">>
             at == {i \in DOMAIN parts : IsRepository(parts[i])}
             least == CHOOSE i \in at : \A j \in at : i <= j
  <2>1. DOMAIN parts = {1, 2, 3} /\ parts[1] = "tmp" /\ parts[2] = "repository-1" /\ parts[3] = "a" /\ Len(parts) = 3
    OBVIOUS
  <2>2. at = {2}
    BY <2>1 DEF IsRepository
  <2>3. least = 2
    BY <2>2
  <2> DEFINE cut == SubSeq(parts, 2, 3)
  <2>4. cut = <<"repository-1", "a">>
    <3>1. Len(parts) = 3 /\ parts \in Seq({"tmp", "repository-1", "a"})
      OBVIOUS
    <3> HIDE DEF parts
    <3>2. cut \in Seq({"tmp", "repository-1", "a"}) /\ Len(cut) = 2 /\ cut[1] = parts[2] /\ cut[2] = parts[3]
      BY <3>1, SubSeqProperties
    <3> HIDE DEF cut
    <3> QED BY <2>1, <3>2
  <2>5. ~ \E i \in DOMAIN cut : cut[i] \in {".", ".."}
    BY <2>4
  <2>6. SafePath(Path(TRUE, parts)) = cut
    <3>1. Path(TRUE, parts).parts = parts /\ Path(TRUE, parts).absolute = TRUE
      BY DEF Path
    <3>2. at # {}
      BY <2>2
    <3> HIDE DEF parts, at, least
    <3>3. {i \in DOMAIN parts : IsRepository(parts[i])} = at
      BY DEF at
    <3>4. (CHOOSE i \in at : \A j \in at : i <= j) = 2
      BY <2>3 DEF least
    <3> QED BY <2>1, <2>5, <3>1, <3>2, <3>3, <3>4, ZenonT(40) DEF SafePath
  <2> QED BY <2>4, <2>6
<1>2. SafePath(Path(FALSE, <<"repository-1", "a">>)) = <<"repository-1", "a">>
  BY DEF SafePath, Path, IsRepository
<1>3. SafePath(Path(FALSE, <<".", "repository-1", "b">>)) = <<"repository-1", "b">>
  BY DEF SafePath, Path, IsRepository
<1>4. SafePath(Path(TRUE, <<"home", "secret">>)) = <<>>
  BY DEF SafePath, Path, IsRepository
<1>5. SafePath(Path(FALSE, <<"..", "secret">>)) = <<>>
  BY DEF SafePath, Path, IsRepository
<1>6. SafePath(Path(FALSE, <<"repository-1", "..", "home">>)) = <<>>
  BY DEF SafePath, Path, IsRepository
<1>7. SafePath(Path(FALSE, <<>>)) = <<>>
  BY DEF SafePath, Path, IsRepository
<1> QED BY <1>1, <1>2, <1>3, <1>4, <1>5, <1>6, <1>7 DEF Paths, Shown

(* A block names one of the paths.                                          *)
LEMMA BlockPaths == \A b \in Blocks : b.path \in Paths
<1> DEFINE NONE == Path(FALSE, <<>>)
<1>1. NONE \in Paths /\ Path(FALSE, <<".", "repository-1", "b">>) \in Paths /\ Path(TRUE, <<"home", "secret">>) \in Paths
  BY DEF Paths
<1> SUFFICES ASSUME NEW b \in Blocks PROVE b.path \in Paths
  OBVIOUS
<1>2. \A t, u, p : Block(t, u, p).path = p
  BY DEF Block
<1>3. \E t, u : \E p \in Paths : b = Block(t, u, p)
  <2> HIDE DEF NONE
  <2>1. \/ b \in {Block("text", "", NONE), Block("thinking", "", NONE), Block("tool_use", "other", NONE)}
        \/ b \in {Block("tool_use", "read", p) : p \in Paths}
        \/ b \in {Block("tool_use", "list", p) : p \in {Path(FALSE, <<".", "repository-1", "b">>), Path(TRUE, <<"home", "secret">>)}}
    BY DEF Blocks, NONE
  <2> QED BY <2>1, <1>1
<1> QED BY <1>2, <1>3

(* The activity of a block shows a safe path or none.                       *)
LEMMA ActivityIs == \A b \in Blocks : ActivityOf(b) \in Activities
BY SafePathShown, BlockPaths DEF ActivityOf, Activities

(* What holds of every event: its blocks are known ones, only errors say     *)
(* something, and each provider has its own ending.                         *)
Diagnostics == {"turns", "schema", "auth", "limit", "sandbox", "network"}
EventFits(k, type, blocks, says) ==
    /\ blocks \in Seq(Blocks) /\ Len(blocks) <= 2
    /\ says \in SUBSET Diagnostics
    /\ says = {} \/ type \in {"error", "turn.failed"}
    /\ k = "codex" => type # "result"
    /\ k = "claude" => type \notin {"error", "turn.failed"}
    /\ type \in {"assistant", "item.started"} => Len(blocks) > 0

(* An event has the fields it is made with.                                 *)
LEMMA EventFields ==
  ASSUME NEW k, NEW t, NEW b, NEW o, NEW s, EventFits(k, t, b, s),
         NEW e, e = Event(t, b, o, s)
  PROVE  EventFits(k, e.type, e.blocks, e.says)
<1>1. e.type = t
  BY DEF Event
<1>2. e.blocks = b
  BY DEF Event
<1>3. e.says = s
  BY DEF Event
<1> QED BY <1>1, <1>2, <1>3

(* An event without blocks.                                                 *)
LEMMA NoBlocks ==
  ASSUME NEW k, NEW t, k = "codex" => t # "result", k = "claude" => t \notin {"error", "turn.failed"},
         t \notin {"assistant", "item.started"}, NEW s \in SUBSET Diagnostics, s = {} \/ t \in {"error", "turn.failed"}
  PROVE  EventFits(k, t, <<>>, s)
<1>1. <<>> \in Seq(Blocks)
  OBVIOUS
<1>2. Len(<<>>) <= 2
  OBVIOUS
<1> QED BY <1>1, <1>2 DEF EventFits

(* An event with blocks.                                                    *)
LEMMA SomeBlocks ==
  ASSUME NEW k, NEW t, k = "codex" => t # "result", k = "claude" => t \notin {"error", "turn.failed"},
         NEW b \in Seq(Blocks), Len(b) <= 2, Len(b) > 0
  PROVE  EventFits(k, t, b, {})
<1>1. {} \in SUBSET Diagnostics
  OBVIOUS
<1> QED BY <1>1 DEF EventFits

(* Every event of a provider fits it.                                       *)
LEMMA EventIs ==
  ASSUME NEW k \in {"codex", "claude"}, NEW e \in EventsOf(k)
  PROVE  EventFits(k, e.type, e.blocks, e.says)
<1>1. CASE k = "codex"
  <2>1. e \in CodexEvents
    BY <1>1 DEF EventsOf
  <2>2. CASE e \in {Event("item.started", <<b>>, "", {}) : b \in Blocks}
    <3>1. PICK b \in Blocks : e = Event("item.started", <<b>>, "", {})
      BY <2>2
    <3>2. <<b>> \in Seq(Blocks) /\ Len(<<b>>) <= 2 /\ Len(<<b>>) > 0
      OBVIOUS
    <3>3. EventFits(k, "item.started", <<b>>, {})
      BY <1>1, <3>2, SomeBlocks
    <3> QED BY <3>1, <3>3, EventFields
  <2>3. CASE e \in {Event(t, <<>>, "", {}) : t \in {"turn.started", "turn.completed", "notJson"}}
    <3>1. PICK t \in {"turn.started", "turn.completed", "notJson"} : e = Event(t, <<>>, "", {})
      BY <2>3
    <3>2. EventFits(k, t, <<>>, {})
      BY <1>1, NoBlocks
    <3> QED BY <3>1, <3>2, EventFields
  <2>4. CASE e \in {Event("error", <<>>, "", s) : s \in Says} \cup {Event("turn.failed", <<>>, "", s) : s \in Says}
    <3>1. \A s \in Says : s \in SUBSET Diagnostics
      BY DEF Diagnostics, Says
    <3>2. PICK t \in {"error", "turn.failed"} : \E s \in Says : e = Event(t, <<>>, "", s)
      BY <2>4
    <3>3. PICK s \in Says : e = Event(t, <<>>, "", s)
      BY <3>2
    <3>4. EventFits(k, t, <<>>, s)
      BY <1>1, <3>1, NoBlocks
    <3> QED BY <3>3, <3>4, EventFields
  <2>5. \/ e \in {Event("item.started", <<b>>, "", {}) : b \in Blocks}
        \/ e \in {Event(t, <<>>, "", {}) : t \in {"turn.started", "turn.completed", "notJson"}}
        \/ e \in {Event("error", <<>>, "", s) : s \in Says} \cup {Event("turn.failed", <<>>, "", s) : s \in Says}
    BY ONLY <2>1, Zenon DEF CodexEvents
  <2> QED BY <2>2, <2>3, <2>4, <2>5
<1>2. CASE k = "claude"
  <2>1. e \in Messages
    BY <1>2 DEF EventsOf
  <2> DEFINE READ == Block("tool_use", "read", Path(FALSE, <<"repository-1", "a">>))
             TEXT == Block("text", "", Path(FALSE, <<>>))
  <2>2. READ \in Blocks /\ TEXT \in Blocks
    BY DEF Blocks, Paths
  <2>6. \/ e \in {Event("assistant", <<b>>, "", {}) : b \in Blocks}
        \/ e \in {Event("assistant", <<READ, TEXT>>, "", {}), Event("system", <<>>, "", {}), Event("notJson", <<>>, "", {})}
        \/ e \in {Event("result", <<>>, o, {}) : o \in {"json", "other json", "plain text", "null"}}
    BY ONLY <2>1, Zenon DEF Messages
  <2> HIDE DEF READ, TEXT
  <2>3. CASE e \in {Event("assistant", <<b>>, "", {}) : b \in Blocks}
    <3>1. PICK b \in Blocks : e = Event("assistant", <<b>>, "", {})
      BY <2>3
    <3>2. <<b>> \in Seq(Blocks) /\ Len(<<b>>) <= 2 /\ Len(<<b>>) > 0
      OBVIOUS
    <3>3. EventFits(k, "assistant", <<b>>, {})
      BY <1>2, <3>2, SomeBlocks
    <3> QED BY <3>1, <3>3, EventFields
  <2>4. CASE e \in {Event("assistant", <<READ, TEXT>>, "", {}), Event("system", <<>>, "", {}), Event("notJson", <<>>, "", {})}
    <3>1. <<READ, TEXT>> \in Seq(Blocks) /\ Len(<<READ, TEXT>>) <= 2 /\ Len(<<READ, TEXT>>) > 0
      BY <2>2
    <3>2. EventFits(k, "assistant", <<READ, TEXT>>, {})
      BY <1>2, <3>1, SomeBlocks
    <3>3. EventFits(k, "system", <<>>, {}) /\ EventFits(k, "notJson", <<>>, {})
      BY <1>2, NoBlocks
    <3>4. \/ e = Event("assistant", <<READ, TEXT>>, "", {})
          \/ e = Event("system", <<>>, "", {})
          \/ e = Event("notJson", <<>>, "", {})
      BY <2>4
    <3> QED BY <3>2, <3>3, <3>4, EventFields
  <2>5. CASE e \in {Event("result", <<>>, o, {}) : o \in {"json", "other json", "plain text", "null"}}
    <3>1. PICK o \in {"json", "other json", "plain text", "null"} : e = Event("result", <<>>, o, {})
      BY <2>5
    <3>2. EventFits(k, "result", <<>>, {})
      BY <1>2, NoBlocks
    <3> QED BY <3>1, <3>2, EventFields
  <2> QED BY <2>3, <2>4, <2>5, <2>6
<1> QED BY <1>1, <1>2

(* The activity of an event shows a safe path or none.                      *)
LEMMA EventActivity ==
  ASSUME NEW k \in {"codex", "claude"}, NEW e \in EventsOf(k)
  PROVE  RepositoryActivity(e) \in Activities
<1> DEFINE named == {i \in DOMAIN e.blocks : ActivityOf(e.blocks[i]) # <<>>}
           m == CHOOSE i \in named : \A j \in named : j <= i
<1>1. CASE e.type \notin {"assistant", "item.started"} \/ named = {}
  BY <1>1 DEF RepositoryActivity, Activities
<1>2. CASE ~(e.type \notin {"assistant", "item.started"} \/ named = {})
  <2>1. named \subseteq {1, 2} /\ DOMAIN e.blocks = 1 .. Len(e.blocks)
    BY EventIs DEF EventFits
  <2>2. \E i \in named : \A j \in named : j <= i
    BY <1>2, <2>1
  <2>3. m \in named
    BY <2>2
  <2>4. e.blocks[m] \in Blocks
    <3>1. m \in DOMAIN e.blocks /\ e.blocks \in Seq(Blocks)
      BY <2>3, EventIs DEF EventFits
    <3> HIDE DEF m
    <3> QED BY <3>1
  <2>5. RepositoryActivity(e) = ActivityOf(e.blocks[m])
    BY <1>2, Zenon DEF RepositoryActivity
  <2> QED BY <2>4, <2>5, ActivityIs
<1> QED BY <1>1, <1>2
(* No path that can be shown has a hidden or climbing part.                 *)
LEMMA PathsDistinct == \A p \in Shown : ToSet(p) \cap {"..", ".", "home", "secret", "tmp"} = {}
<1>1. ToSet(<<>>) = {}
  BY DEF ToSet
<1>2. ToSet(<<"repository-1", "a">>) = {"repository-1", "a"}
  BY DEF ToSet
<1>3. ToSet(<<"repository-1", "b">>) = {"repository-1", "b"}
  BY DEF ToSet
<1> QED BY <1>1, <1>2, <1>3 DEF Shown

(* Nothing is at any place of the empty sequence.                           *)
LEMMA NothingYet == Len(<<>>) = 0 /\ (1 .. 0) = {} /\ \A i : i \notin DOMAIN <<>>
<1>1. Len(<<>>) = 0
  OBVIOUS
<1>2. (1 .. 0) = {}
  OBVIOUS
<1>3. \A i : i \notin DOMAIN <<>>
  OBVIOUS
<1> QED BY <1>1, <1>2, <1>3

(* Nothing is read, kept or shown before the first line.                    *)
LEMMA StreamInitInv == StreamInit => StreamInv
<1> SUFFICES ASSUME StreamInit PROVE StreamInv
  OBVIOUS
<1>0. streamKind \in {"codex", "claude"} /\ lines = <<>> /\ retained = <<>> /\ files_read = <<>> /\ feed = <<>>
  BY DEF StreamInit
<1>1. StreamTypes
  BY <1>0, EmptySeq DEF StreamTypes
<1>2. FeedInv
  BY <1>0, NothingYet DEF FeedInv
<1>3. ResultLines = {}
  <2>1. \A i : i \notin ResultLines
    BY <1>0, NothingYet DEF ResultLines
  <2> QED BY <2>1
<1>4. RetainInv
  <2>1. Len(retained) <= RetainLimit /\ Len(retained) <= Len(lines)
    BY <1>0, NothingYet, StreamAssumption
  <2> QED BY <1>0, <1>3, <2>1, NothingYet DEF RetainInv
<1>5. TerminalEventWins
  <2>1. Len(retained) <= RetainLimit
    BY <1>0, NothingYet, StreamAssumption
  <2>2. streamEnd.result = NoResult
    BY DEF StreamInit
  <2> QED BY <1>3, <2>1, <2>2 DEF TerminalEventWins
<1>6. FailureNamed
  <2>1. streamEnd.reason = ""
    BY DEF StreamInit
  <2> QED BY <2>1 DEF FailureNamed
<1> QED BY <1>1, <1>2, <1>4, <1>5, <1>6 DEF StreamInv

(* A result line becomes the last result; another line leaves it.           *)
LEMMA LastAppended ==
  ASSUME StreamTypes, NEW e \in EventsOf(streamKind), lines' = Append(lines, e)
  PROVE  /\ e.type = "result" => ResultLines' # {} /\ LastResult' = e
         /\ e.type # "result" => ResultLines' = ResultLines /\ (ResultLines # {} => LastResult' = LastResult)
<1> DEFINE n == Len(lines) + 1
<1>0. lines \in Seq(EventsOf(streamKind)) /\ Len(lines) \in Nat
  BY DEF StreamTypes
<1>1. /\ DOMAIN lines = 1 .. Len(lines) /\ DOMAIN lines' = 1 .. n /\ lines'[n] = e
      /\ \A i \in DOMAIN lines : lines'[i] = lines[i]
  BY <1>0
<1>2. CASE e.type = "result"
  <2>1. n \in ResultLines' /\ \A j \in ResultLines' : j <= n
    BY <1>0, <1>1, <1>2 DEF ResultLines
  <2>2. \A i \in ResultLines' : (\A j \in ResultLines' : j <= i) => i = n
    <3>1. \A i \in ResultLines' : i \in Nat
      BY <1>0, <1>1 DEF ResultLines
    <3> HIDE DEF n
    <3>2. n \in Nat
      BY <1>0 DEF n
    <3> QED BY <2>1, <3>1, <3>2
  <2>3. LastResult' = lines'[CHOOSE i \in ResultLines' : \A j \in ResultLines' : j <= i]
    BY Zenon DEF LastResult
  <2>4. (CHOOSE i \in ResultLines' : \A j \in ResultLines' : j <= i) = n
    BY <2>1, <2>2
  <2> QED BY <1>1, <1>2, <2>1, <2>3, <2>4
<1>3. CASE e.type # "result"
  <2>1. ResultLines' = ResultLines
    BY <1>0, <1>1, <1>3 DEF ResultLines
  <2>2. ASSUME ResultLines # {} PROVE LastResult' = LastResult
    <3> DEFINE m == CHOOSE i \in ResultLines : \A j \in ResultLines : j <= i
    <3>1. \E i \in ResultLines : \A j \in ResultLines : j <= i
      <4>1. ResultLines \subseteq 1 .. Len(lines)
        BY <1>0 DEF ResultLines
      <4> HIDE DEF n
      <4> QED BY <1>0, <2>2, <4>1, Greatest
    <3>2. m \in DOMAIN lines
      BY <3>1 DEF ResultLines
    <3>3. LastResult' = lines'[m]
      BY <2>1, Zenon DEF LastResult
    <3>4. LastResult = lines[m]
      BY Zenon DEF LastResult
    <3> HIDE DEF m
    <3> QED BY <1>1, <3>2, <3>3, <3>4
  <2> QED BY <1>3, <2>1, <2>2
<1> QED BY <1>2, <1>3

\* What is shown of a line that names no path.
Fixed(e) == IF streamKind = "codex" THEN CodexMessage(e) ELSE FixedMessage(e)

(* The type of a block is a fixed wording.                                  *)
LEMMA BlockTypes == \A b \in Blocks : b.type \in ShownWords
<1> SUFFICES ASSUME NEW b \in Blocks PROVE b.type \in ShownWords
  OBVIOUS
<1>1. \E t \in {"text", "thinking", "tool_use"} : \E u, p : b = Block(t, u, p)
  <2>1. \/ b \in {Block("text", "", Path(FALSE, <<>>)), Block("thinking", "", Path(FALSE, <<>>)), Block("tool_use", "other", Path(FALSE, <<>>))}
        \/ b \in {Block("tool_use", "read", p) : p \in Paths}
        \/ b \in {Block("tool_use", "list", p) : p \in {Path(FALSE, <<".", "repository-1", "b">>), Path(TRUE, <<"home", "secret">>)}}
    BY Zenon DEF Blocks
  <2> QED BY <2>1
<1>2. \A t, u, p : Block(t, u, p).type = t
  BY DEF Block
<1>3. b.type \in {"text", "thinking", "tool_use"}
  BY <1>1, <1>2
<1> QED BY <1>3 DEF ShownWords

(* A line that names no path is shown with a fixed wording.                 *)
LEMMA FixedIs ==
  ASSUME streamKind \in {"codex", "claude"}, NEW e \in EventsOf(streamKind)
  PROVE  Fixed(e) \in ShownWords
<1>1. e.blocks \in Seq(Blocks) /\ (e.type \in {"assistant", "item.started"} => Len(e.blocks) > 0)
  BY EventIs DEF EventFits
<1>2. ASSUME e.type \in {"assistant", "item.started"}
      PROVE  e.blocks[1].type \in ShownWords /\ e.blocks[Len(e.blocks)].type \in ShownWords
  <2>1. 1 \in DOMAIN e.blocks /\ Len(e.blocks) \in DOMAIN e.blocks
    BY <1>1, <1>2
  <2>2. e.blocks[1] \in Blocks /\ e.blocks[Len(e.blocks)] \in Blocks
    BY <1>1, <2>1
  <2> QED BY <2>2, BlockTypes
<1>3. CodexMessage(e) \in ShownWords
  <2>1. "context" \in ShownWords /\ "assembling" \in ShownWords /\ "" \in ShownWords
    BY DEF ShownWords
  <2> QED BY <1>2, <2>1 DEF CodexMessage
<1>4. FixedMessage(e) \in ShownWords
  <2>1. "starting" \in ShownWords /\ "finalizing" \in ShownWords /\ "" \in ShownWords
    BY DEF ShownWords
  <2> QED BY <1>2, <2>1 DEF FixedMessage
<1> QED BY <1>3, <1>4 DEF Fixed

(* The effect of a line: what it adds to the feed and to the files.         *)
LEMMA LineEffect ==
  ASSUME StreamTypes, Line
  PROVE  \E e \in EventsOf(streamKind), a \in Activities :
            /\ lines' = Append(lines, e) /\ retained' = Retain(e)
            /\ \/ /\ \E p \in Shown : a = <<"read", p>>
                  /\ files_read' = WithFile(a[2])
                  /\ \E w \in ShownWords : feed' = Append(feed, Message(w, a[2], OrdinalOf(WithFile(a[2]), a[2])))
               \/ /\ files_read' = files_read
                  /\ \/ feed' = feed
                     \/ \E w \in ShownWords, p \in Shown : feed' = Append(feed, Message(w, p, 0))
<1>1. PICK e \in EventsOf(streamKind) :
        LET activity == RepositoryActivity(e)
            fixed == IF streamKind = "codex" THEN CodexMessage(e) ELSE FixedMessage(e)
            reads == activity # <<>> /\ activity[1] = "read"
        IN  /\ lines' = Append(lines, e)
            /\ retained' = Retain(e)
            /\ files_read' = IF reads THEN WithFile(activity[2]) ELSE files_read
            /\ feed' = CASE reads -> Append(feed, Message(
                                   IF activity[2] \in ToSet(files_read) THEN "re-reading" ELSE "reading",
                                   activity[2], OrdinalOf(WithFile(activity[2]), activity[2])))
                         [] ~reads /\ activity # <<>> -> Append(feed, Message("list", activity[2], 0))
                         [] activity = <<>> /\ fixed # "" -> Append(feed, Message(fixed, <<>>, 0))
                         [] OTHER -> feed
  BY Zenon DEF Line
<1>2. PICK a \in Activities : a = RepositoryActivity(e)
  BY EventActivity DEF StreamTypes
<1>3. PICK f \in ShownWords : f = Fixed(e)
  BY FixedIs DEF StreamTypes
<1>4. /\ lines' = Append(lines, e) /\ retained' = Retain(e)
      /\ files_read' = IF a # <<>> /\ a[1] = "read" THEN WithFile(a[2]) ELSE files_read
      /\ feed' = CASE a # <<>> /\ a[1] = "read" -> Append(feed, Message(
                             IF a[2] \in ToSet(files_read) THEN "re-reading" ELSE "reading",
                             a[2], OrdinalOf(WithFile(a[2]), a[2])))
                   [] ~(a # <<>> /\ a[1] = "read") /\ a # <<>> -> Append(feed, Message("list", a[2], 0))
                   [] a = <<>> /\ f # "" -> Append(feed, Message(f, <<>>, 0))
                   [] OTHER -> feed
  BY <1>1, <1>2, <1>3, Zenon DEF Fixed
<1>5. "list" \in ShownWords /\ "reading" \in ShownWords /\ "re-reading" \in ShownWords /\ <<>> \in Shown
  BY DEF ShownWords, Shown
<1>6. CASE \E p \in Shown : a = <<"read", p>>
  <2>1. a # <<>> /\ a[1] = "read"
    BY <1>6
  <2>2. PICK w \in ShownWords : w = IF a[2] \in ToSet(files_read) THEN "re-reading" ELSE "reading"
    BY <1>5
  <2>3. feed' = Append(feed, Message(w, a[2], OrdinalOf(WithFile(a[2]), a[2])))
    BY <1>4, <2>1, <2>2
  <2>4. files_read' = WithFile(a[2])
    BY <1>4, <2>1
  <2> QED BY <1>4, <1>6, <2>3, <2>4
<1>7. CASE \E p \in Shown : a = <<"list", p>>
  <2>1. PICK p \in Shown : a = <<"list", p>>
    BY <1>7
  <2>2. a # <<>> /\ a[1] = "list" /\ a[2] = p
    BY <2>1
  <2>3. files_read' = files_read /\ feed' = Append(feed, Message("list", p, 0))
    BY <1>4, <2>2
  <2> QED BY <1>4, <1>5, <2>3
<1>8. CASE a = <<>>
  <2>1. files_read' = files_read /\ (feed' = feed \/ feed' = Append(feed, Message(f, <<>>, 0)))
    BY <1>4, <1>8
  <2> QED BY <1>4, <1>5, <2>1
<1> QED BY <1>6, <1>7, <1>8 DEF Activities

(* What is kept after one more line is within the limit.                    *)
LEMMA RetainStep ==
  ASSUME StreamInv, NEW e \in EventsOf(streamKind), lines' = Append(lines, e), retained' = Retain(e),
         streamKind' = streamKind
  PROVE  /\ lines' \in Seq(EventsOf(streamKind)) /\ retained' \in Seq(EventsOf(streamKind))
         /\ RetainInv' /\ Len(retained') <= RetainLimit
<1>0. /\ lines \in Seq(EventsOf(streamKind)) /\ retained \in Seq(EventsOf(streamKind))
      /\ streamKind \in {"codex", "claude"}
      /\ RetainLimit \in Nat \ {0}
      /\ RetainInv /\ Len(retained) <= RetainLimit
  BY StreamAssumption DEF StreamInv, StreamTypes, TerminalEventWins
<1>1. lines' \in Seq(EventsOf(streamKind))
  BY <1>0
<1>2. retained' \in {retained, <<e>>, Append(retained, e)}
  BY DEF Retain
<1>3. retained' \in Seq(EventsOf(streamKind))
  <2>1. <<e>> \in Seq(EventsOf(streamKind))
    OBVIOUS
  <2>2. Append(retained, e) \in Seq(EventsOf(streamKind))
    BY <1>0
  <2> QED BY <1>0, <1>2, <2>1, <2>2
<1>4. CASE streamKind = "claude"
  <2>1. e.type \notin {"error", "turn.failed"}
    BY <1>4, EventIs DEF EventFits
  <2>2. retained' = IF e.type = "result" THEN <<e>> ELSE retained
    BY <1>4, <2>1 DEF Retain
  <2>3. retained' = IF ResultLines' = {} THEN <<>> ELSE <<LastResult'>>
    BY <1>0, <1>4, <2>2, LastAppended DEF RetainInv, StreamInv
  <2>4. Len(retained') <= RetainLimit
    <3>1. Len(<<e>>) = 1
      OBVIOUS
    <3> QED BY <1>0, <2>2, <3>1
  <2> QED BY <1>1, <1>3, <1>4, <2>3, <2>4 DEF RetainInv
<1>5. CASE streamKind = "codex"
  <2>1. e.type # "result" /\ (e.says = {} \/ e.type \in {"error", "turn.failed"})
    BY <1>5, EventIs DEF EventFits
  <2>2. retained' = IF e.type \in {"error", "turn.failed"} /\ Len(retained) < RetainLimit
                    THEN Append(retained, e) ELSE retained
    BY <1>5, <2>1 DEF Retain
  <2>3. /\ Len(retained) <= Len(lines)
        /\ \A i \in DOMAIN lines : i <= RetainLimit /\ lines[i].says # {} =>
              \E k \in DOMAIN retained : retained[k] = lines[i]
    BY <1>0, <1>5 DEF RetainInv
  <2>4. /\ Len(retained') <= RetainLimit /\ Len(retained') <= Len(lines')
        /\ DOMAIN lines' = 1 .. Len(lines) + 1 /\ DOMAIN lines = 1 .. Len(lines) /\ lines'[Len(lines) + 1] = e
        /\ \A i \in DOMAIN lines : lines'[i] = lines[i]
        /\ \A k \in DOMAIN retained : k \in DOMAIN retained' /\ retained'[k] = retained[k]
    BY <1>0, <2>2, <2>3
  <2>5. ASSUME NEW i \in DOMAIN lines', i <= RetainLimit, lines'[i].says # {}
        PROVE  \E k \in DOMAIN retained' : retained'[k] = lines'[i]
    <3>1. CASE i \in DOMAIN lines
      BY <2>3, <2>4, <2>5, <3>1
    <3>2. CASE i \notin DOMAIN lines
      <4>1. i = Len(lines) + 1 /\ lines'[i] = e
        BY <1>0, <2>4, <3>2
      <4>2. e.type \in {"error", "turn.failed"} /\ Len(retained) < RetainLimit
        BY <1>0, <2>1, <2>3, <2>5, <4>1
      <4>3. retained' = Append(retained, e)
        BY <2>2, <4>2
      <4>4. Len(retained) + 1 \in DOMAIN retained' /\ retained'[Len(retained) + 1] = e
        BY <1>0, <4>3
      <4> QED BY <4>1, <4>4
    <3> QED BY <3>1, <3>2
  <2> QED BY <1>1, <1>3, <1>5, <2>4, <2>5 DEF RetainInv
<1> QED BY <1>0, <1>4, <1>5

(* A file that is in the list keeps the place of its first reading.         *)
LEMMA WithFileIs ==
  ASSUME NEW p \in Shown, files_read \in Seq(Shown),
         \A i, j \in DOMAIN files_read : files_read[i] = files_read[j] => i = j
  PROVE  /\ WithFile(p) \in Seq(Shown) /\ Len(WithFile(p)) >= Len(files_read)
         /\ \A i \in DOMAIN files_read : WithFile(p)[i] = files_read[i]
         /\ \A i, j \in DOMAIN WithFile(p) : WithFile(p)[i] = WithFile(p)[j] => i = j
         /\ OrdinalOf(WithFile(p), p) \in DOMAIN WithFile(p) /\ WithFile(p)[OrdinalOf(WithFile(p), p)] = p
<1>1. CASE p \in ToSet(files_read)
  <2>1. WithFile(p) = files_read
    BY <1>1 DEF WithFile
  <2>2. \E i \in DOMAIN files_read : files_read[i] = p
    BY <1>1 DEF ToSet
  <2>3. OrdinalOf(files_read, p) \in DOMAIN files_read /\ files_read[OrdinalOf(files_read, p)] = p
    BY <2>2 DEF OrdinalOf
  <2> QED BY <2>1, <2>3
<1>2. CASE p \notin ToSet(files_read)
  <2> DEFINE w == Append(files_read, p)
  <2>1. WithFile(p) = w
    BY <1>2 DEF WithFile
  <2>2. /\ w \in Seq(Shown) /\ Len(w) = Len(files_read) + 1 /\ w[Len(files_read) + 1] = p
        /\ \A i \in DOMAIN files_read : w[i] = files_read[i]
        /\ DOMAIN w = DOMAIN files_read \cup {Len(files_read) + 1}
    OBVIOUS
  <2> HIDE DEF w
  <2>3. \A i \in DOMAIN files_read : files_read[i] # p
    BY <1>2 DEF ToSet
  <2>4. OrdinalOf(w, p) \in DOMAIN w /\ w[OrdinalOf(w, p)] = p
    BY <2>2 DEF OrdinalOf
  <2>5. \A i, j \in DOMAIN w : w[i] = w[j] => i = j
    BY <2>2, <2>3
  <2> QED BY <2>1, <2>2, <2>4, <2>5
<1> QED BY <1>1, <1>2

\* What a message adds to the feed.
FeedGains(p, n) ==
    \A i \in DOMAIN feed' : \/ i \in DOMAIN feed /\ feed'[i] = feed[i]
                            \/ feed'[i].path = p /\ feed'[i].ordinal = n

(* A message is put at the end of the feed.                                 *)
LEMMA FeedGrows ==
  ASSUME StreamTypes, NEW w \in ShownWords, NEW p \in Shown, NEW n \in Nat,
         feed' = Append(feed, Message(w, p, n))
  PROVE  /\ feed' \in Seq([wording : ShownWords, path : Shown, ordinal : Nat])
         /\ FeedGains(p, n)
<1> DEFINE S == [wording : ShownWords, path : Shown, ordinal : Nat]
           m == Message(w, p, n)
<1>1. m \in S /\ m.path = p /\ m.ordinal = n
  BY DEF Message
<1>2. feed \in Seq(S) /\ feed' = Append(feed, m)
  BY DEF StreamTypes
<1> HIDE DEF S, m
<1>3. /\ feed' \in Seq(S)
      /\ \A i \in DOMAIN feed' : (i \in DOMAIN feed /\ feed'[i] = feed[i]) \/ feed'[i] = m
  BY <1>1, <1>2
<1>4. \A i \in DOMAIN feed' : (i \in DOMAIN feed /\ feed'[i] = feed[i])
                                \/ (feed'[i].path = p /\ feed'[i].ordinal = n)
  BY <1>1, <1>3
<1>5. feed' \in Seq([wording : ShownWords, path : Shown, ordinal : Nat])
  BY <1>3 DEF S
<1> QED BY <1>4, <1>5 DEF FeedGains

(* What a message of the feed holds.                                        *)
LEMMA FeedTyped ==
  ASSUME feed \in Seq([wording : ShownWords, path : Shown, ordinal : Nat]), NEW i \in DOMAIN feed
  PROVE  feed[i].path \in Shown /\ feed[i].ordinal \in Nat
<1> DEFINE S == [wording : ShownWords, path : Shown, ordinal : Nat]
<1>1. \A m \in S : m.path \in Shown /\ m.ordinal \in Nat
  OBVIOUS
<1> HIDE DEF S
<1>2. feed[i] \in S
  <2>1. feed \in Seq(S)
    BY DEF S
  <2> QED BY ONLY <2>1, i \in DOMAIN feed
<1> QED BY <1>1, <1>2

(* A line read from the provider keeps the invariant.                       *)
LEMMA LineStep == StreamInv /\ Line => StreamInv'
<1> SUFFICES ASSUME StreamInv, Line PROVE StreamInv'
  OBVIOUS
<1>0. /\ StreamTypes /\ FeedInv /\ StreamAssumption
      /\ streamKind' = streamKind /\ streamEnd' = streamEnd
      /\ streamEnd.reason = "" /\ streamEnd.result = NoResult
  BY StreamAssumption DEF StreamInv, Line
<1>1. PICK e \in EventsOf(streamKind), a \in Activities :
            /\ lines' = Append(lines, e) /\ retained' = Retain(e)
            /\ \/ /\ \E p \in Shown : a = <<"read", p>>
                  /\ files_read' = WithFile(a[2])
                  /\ \E w \in ShownWords : feed' = Append(feed, Message(w, a[2], OrdinalOf(WithFile(a[2]), a[2])))
               \/ /\ files_read' = files_read
                  /\ \/ feed' = feed
                     \/ \E w \in ShownWords, p \in Shown : feed' = Append(feed, Message(w, p, 0))
  BY <1>0, LineEffect
<1>2. /\ lines' \in Seq(EventsOf(streamKind)) /\ retained' \in Seq(EventsOf(streamKind))
      /\ RetainInv' /\ Len(retained') <= RetainLimit
  BY <1>0, <1>1, RetainStep
<1>3. /\ files_read \in Seq(Shown)
      /\ \A i, j \in DOMAIN files_read : files_read[i] = files_read[j] => i = j
      /\ feed \in Seq([wording : ShownWords, path : Shown, ordinal : Nat])
      /\ \A i \in DOMAIN feed :
            /\ feed[i].ordinal \in Nat /\ feed[i].ordinal <= Len(files_read)
            /\ feed[i].ordinal > 0 => files_read[feed[i].ordinal] = feed[i].path
  <2>1. files_read \in Seq(Shown) /\ feed \in Seq([wording : ShownWords, path : Shown, ordinal : Nat])
    BY <1>0 DEF StreamTypes
  <2>2. \A i \in DOMAIN feed : feed[i].ordinal \in Nat
    BY <2>1, FeedTyped
  <2> QED BY <1>0, <2>1, <2>2 DEF FeedInv
<1>4. /\ files_read' \in Seq(Shown) /\ feed' \in Seq([wording : ShownWords, path : Shown, ordinal : Nat])
      /\ FeedInv'
  <2>1. CASE /\ \E p \in Shown : a = <<"read", p>>
             /\ files_read' = WithFile(a[2])
             /\ \E w \in ShownWords : feed' = Append(feed, Message(w, a[2], OrdinalOf(WithFile(a[2]), a[2])))
    <3>1. PICK p \in Shown : a = <<"read", p>>
      BY <2>1
    <3>2. a[2] = p
      BY <3>1
    <3>3. PICK n : n = OrdinalOf(WithFile(p), p)
      OBVIOUS
    <3>4. PICK w \in ShownWords : feed' = Append(feed, Message(w, p, n))
      BY <2>1, <3>2, <3>3
    <3>5. /\ files_read' \in Seq(Shown) /\ Len(files_read') >= Len(files_read)
          /\ \A i \in DOMAIN files_read : files_read'[i] = files_read[i]
          /\ \A i, j \in DOMAIN files_read' : files_read'[i] = files_read'[j] => i = j
          /\ n \in DOMAIN files_read' /\ files_read'[n] = p
      <4>1. files_read' = WithFile(p)
        BY <2>1, <3>2
      <4> QED BY <1>3, <3>3, <4>1, WithFileIs, ZenonT(40)
    <3>6. n \in Nat /\ n <= Len(files_read')
      BY <3>5
    <3>7. /\ feed' \in Seq([wording : ShownWords, path : Shown, ordinal : Nat])
          /\ FeedGains(p, n)
      <4>1. StreamTypes
        BY <1>0
      <4> QED BY ONLY <4>1, <3>4, <3>6, FeedGrows, Zenon
    <3>8. ASSUME NEW i \in DOMAIN feed'
          PROVE  /\ feed'[i].ordinal <= Len(files_read')
                 /\ feed'[i].ordinal > 0 => files_read'[feed'[i].ordinal] = feed'[i].path
      <4>1. CASE i \in DOMAIN feed /\ feed'[i] = feed[i]
        <5>1. /\ feed[i].ordinal \in Nat /\ feed[i].ordinal <= Len(files_read)
              /\ feed[i].ordinal > 0 => files_read[feed[i].ordinal] = feed[i].path
          BY <1>3, <4>1
        <5>2. feed[i].ordinal > 0 => feed[i].ordinal \in DOMAIN files_read
          BY <1>3, <5>1
        <5>3. feed[i].ordinal <= Len(files_read')
          BY <1>3, <3>5, <5>1
        <5> QED BY <3>5, <4>1, <5>1, <5>2, <5>3
      <4>2. CASE feed'[i].path = p /\ feed'[i].ordinal = n
        BY <3>5, <3>6, <4>2
      <4> QED BY <3>7, <4>1, <4>2 DEF FeedGains
    <3> QED BY <3>5, <3>7, <3>8 DEF FeedInv
  <2>2. CASE files_read' = files_read /\ feed' = feed
    <3>1. FeedInv'
      BY <1>0, <2>2 DEF FeedInv
    <3> QED BY <1>3, <2>2, <3>1
  <2>3. CASE files_read' = files_read /\ \E w \in ShownWords, p \in Shown : feed' = Append(feed, Message(w, p, 0))
    <3>1. PICK w \in ShownWords, p \in Shown : feed' = Append(feed, Message(w, p, 0))
      BY <2>3
    <3>2. /\ feed' \in Seq([wording : ShownWords, path : Shown, ordinal : Nat])
          /\ FeedGains(p, 0)
      <4>1. StreamTypes /\ 0 \in Nat
        BY <1>0
      <4> QED BY ONLY <4>1, <3>1, FeedGrows, Zenon
    <3>3. ASSUME NEW i \in DOMAIN feed'
          PROVE  /\ feed'[i].ordinal <= Len(files_read')
                 /\ feed'[i].ordinal > 0 => files_read'[feed'[i].ordinal] = feed'[i].path
      BY <1>3, <2>3, <3>2 DEF FeedGains
    <3> QED BY <1>3, <2>3, <3>2, <3>3 DEF FeedInv
  <2> QED BY <1>1, <2>1, <2>2, <2>3
<1>5. StreamTypes'
  BY <1>0, <1>2, <1>4 DEF StreamTypes
<1>6. TerminalEventWins'
  <2>1. streamKind = "claude" /\ ResultLines' # {} => retained' = <<LastResult'>>
    BY <1>0, <1>2 DEF RetainInv
  <2> QED BY <1>0, <1>2, <2>1 DEF TerminalEventWins
<1>7. FailureNamed'
  <2>1. streamEnd'.reason # "exited"
    BY <1>0
  <2> QED BY <2>1 DEF FailureNamed
<1> QED BY <1>2, <1>4, <1>5, <1>6, <1>7 DEF StreamInv

(* The exit of the provider decides by what was kept.                       *)
LEMMA ExitStep == StreamInv /\ Exit => StreamInv'
<1> SUFFICES ASSUME StreamInv, Exit PROVE StreamInv'
  OBVIOUS
<1>0. /\ StreamTypes /\ FeedInv /\ RetainInv /\ TerminalEventWins /\ StreamAssumption
      /\ UNCHANGED <<streamKind, lines, retained, files_read, feed>>
  BY StreamAssumption DEF StreamInv, Exit
<1>1. StreamTypes' /\ FeedInv'
  BY <1>0 DEF StreamTypes, FeedInv
<1>2. ResultLines' = ResultLines /\ LastResult' = LastResult
  <2>1. ResultLines' = ResultLines
    BY <1>0 DEF ResultLines
  <2> QED BY <1>0, <2>1, Zenon DEF LastResult
<1>3. RetainInv'
  BY <1>0, <1>2 DEF RetainInv
<1>4. \/ \E stderr \in SUBSET {"auth", "network"} :
            streamEnd' = [result |-> NoResult, reason |-> provider_failure_message(stderr)]
      \/ streamKind = "claude" /\ streamEnd' = [result |-> NoResult, reason |-> "no structured JSON"]
      \/ /\ streamKind = "claude" /\ extract_stream_result # NoResult
         /\ streamEnd' = [result |-> extract_stream_result, reason |-> ""]
      \/ streamKind = "codex" /\ \E f, r \in {NoResult, "json", "", "no result file"} :
            r # "exited" /\ streamEnd' = [result |-> f, reason |-> r]
  <2>1. streamKind \in {"codex", "claude"}
    BY <1>0 DEF StreamTypes
  <2>2. CASE \E stderr \in SUBSET {"auth", "network"} :
            streamEnd' = [result |-> NoResult, reason |-> provider_failure_message(stderr)]
    BY <2>2
  <2>3. CASE streamKind # "codex" /\ streamEnd' = IF extract_stream_result = NoResult
                          THEN [result |-> NoResult, reason |-> "no structured JSON"]
                          ELSE [result |-> extract_stream_result, reason |-> ""]
    BY <2>1, <2>3
  <2>4. CASE streamKind = "codex" /\ \E file \in {NoResult, "json"} :
                streamEnd' = [result |-> file, reason |-> IF file = NoResult THEN "no result file" ELSE ""]
    BY <2>4
  <2> QED BY <2>2, <2>3, <2>4, Zenon DEF Exit
<1>5. TerminalEventWins'
  <2>1. ASSUME streamEnd'.result # NoResult, streamKind = "claude"
        PROVE  streamEnd'.result = IF LastResult.output = "null" THEN "envelope" ELSE LastResult.output
    <3>1. streamEnd' = [result |-> extract_stream_result, reason |-> ""] /\ extract_stream_result # NoResult
      <4>1. \A r : streamEnd' # [result |-> NoResult, reason |-> r]
        BY <2>1
      <4> QED BY <1>4, <2>1, <4>1
    <3>2. retained # <<>>
      BY <3>1 DEF extract_stream_result
    <3>3. retained = <<LastResult>>
      BY <1>0, <2>1, <3>2 DEF RetainInv
    <3>4. retained[Len(retained)] = LastResult
      BY <3>3
    <3>5. extract_stream_result = CASE LastResult.output = "null" -> "envelope" [] OTHER -> LastResult.output
      BY <3>2, <3>4 DEF extract_stream_result
    <3> QED BY <3>1, <3>5
  <2> QED BY <1>0, <1>2, <2>1 DEF TerminalEventWins
<1>6. FailureNamed'
  <2>1. SUFFICES ASSUME streamEnd'.reason = "exited", streamKind = "codex",
                        NEW i \in 1 .. Len(lines), i <= RetainLimit
                 PROVE  lines[i].says = {}
    BY <1>0 DEF FailureNamed
  <2>2. PICK stderr \in SUBSET {"auth", "network"} : provider_failure_message(stderr) = "exited"
    <3>1. PICK stderr \in SUBSET {"auth", "network"} :
             streamEnd' = [result |-> NoResult, reason |-> provider_failure_message(stderr)]
      <4>1. \A x, r : streamEnd' = [result |-> x, reason |-> r] => r = "exited"
        BY <2>1
      <4>2. streamKind # "claude"
        BY <2>1
      <4> QED BY <1>4, <4>1, <4>2
    <3>2. streamEnd'.reason = provider_failure_message(stderr)
      BY <3>1
    <3> QED BY <2>1, <3>2
  <2> DEFINE said == stderr \cup (UNION {r.says : r \in ToSet(retained)})
             named == {j \in DOMAIN Reasons : Reasons[j] \in said}
             first == CHOOSE j \in named : \A k \in named : j <= k
  <2>3. provider_failure_message(stderr) = IF named = {} THEN "exited" ELSE Reasons[first]
    BY <2>1 DEF provider_failure_message
  <2>4. /\ DOMAIN Reasons = 1 .. 6
        /\ \A j \in 1 .. 6 : Reasons[j] # "exited"
        /\ \A d \in Diagnostics : \E j \in 1 .. 6 : Reasons[j] = d
    BY DEF Reasons, Diagnostics
  <2>5. named = {}
    <3>1. named \in SUBSET Nat
      BY <2>4
    <3> HIDE DEF named
    <3>2. ASSUME named # {} PROVE FALSE
      <4>1. \E j \in named : \A k \in named : j <= k
        BY <3>1, <3>2, Least
      <4>2. first \in named
        BY <4>1
      <4>3. first \in 1 .. 6
        BY <2>4, <4>2 DEF named
      <4> HIDE DEF first
      <4> QED BY <2>2, <2>3, <2>4, <3>2, <4>3
    <3> QED BY <3>2
  <2>6. \A d \in Diagnostics : d \notin said
    <3> HIDE DEF said
    <3> QED BY <2>4, <2>5
  <2>7. ASSUME lines[i].says # {} PROVE FALSE
    <3>0. lines \in Seq(EventsOf(streamKind)) /\ i \in DOMAIN lines
      BY <1>0 DEF StreamTypes
    <3>1. PICK k \in DOMAIN retained : retained[k] = lines[i]
      BY <1>0, <2>1, <2>7, <3>0 DEF RetainInv
    <3>2. lines[i] \in EventsOf(streamKind)
      BY <3>0
    <3>3. lines[i].says \in SUBSET Diagnostics
      BY <2>1, <3>2, EventIs DEF EventFits
    <3>4. PICK d \in lines[i].says : d \in Diagnostics
      BY <2>7, <3>3
    <3>5. retained[k] \in ToSet(retained)
      BY <3>1 DEF ToSet
    <3>6. d \in said
      BY <3>1, <3>4, <3>5
    <3> QED BY <2>6, <3>4, <3>6
  <2> QED BY <2>7
<1> QED BY <1>1, <1>3, <1>5, <1>6 DEF StreamInv

(* Every step of the stream keeps its invariant.                            *)
LEMMA StreamStep == StreamInv /\ [StreamNext]_streamVars => StreamInv'
<1>1. StreamInv /\ UNCHANGED streamVars => StreamInv'
  <2> SUFFICES ASSUME StreamInv, UNCHANGED streamVars PROVE StreamInv'
    OBVIOUS
  <2>0. UNCHANGED <<streamKind, lines, retained, files_read, feed, streamEnd>>
    BY DEF streamVars
  <2>1. ResultLines' = ResultLines
    BY <2>0 DEF ResultLines
  <2>2. LastResult' = LastResult
    BY <2>0, <2>1, Zenon DEF LastResult
  <2>3. StreamTypes' /\ FeedInv' /\ FailureNamed'
    BY <2>0 DEF StreamInv, StreamTypes, FeedInv, FailureNamed
  <2>4. RetainInv' /\ TerminalEventWins'
    BY <2>0, <2>1, <2>2 DEF StreamInv, RetainInv, TerminalEventWins
  <2> QED BY <2>3, <2>4 DEF StreamInv
<1> QED BY <1>1, LineStep, ExitStep DEF StreamNext

(* The invariant gives StreamSound.                                         *)
LEMMA StreamInvSound == StreamInv => StreamSound
<1> SUFFICES ASSUME StreamInv PROVE FeedSafe
  BY DEF StreamSound, StreamInv
<1>1. ASSUME NEW i \in DOMAIN feed PROVE feed[i].path \in Shown /\ feed[i].ordinal \in Nat
  <2>1. feed \in Seq([wording : ShownWords, path : Shown, ordinal : Nat])
    BY DEF StreamInv, StreamTypes
  <2> QED BY <2>1, FeedTyped
<1>2. files_read \in Seq(Shown) /\ FeedInv
  BY DEF StreamInv, StreamTypes
<1>3. ASSUME NEW i \in DOMAIN feed, NEW j \in DOMAIN feed, feed[i].ordinal > 0, feed[j].ordinal > 0
      PROVE  feed[i].path = feed[j].path <=> feed[i].ordinal = feed[j].ordinal
  <2>1. feed[i].ordinal \in DOMAIN files_read /\ feed[j].ordinal \in DOMAIN files_read
    BY <1>1, <1>2, <1>3 DEF FeedInv
  <2> QED BY <1>2, <1>3, <2>1 DEF FeedInv
<1>4. \A i \in DOMAIN feed : feed[i].ordinal <= Len(files_read)
  BY <1>2 DEF FeedInv
<1> QED BY <1>1, <1>3, <1>4, PathsDistinct DEF FeedSafe

-----------------------------------------------------------------------------
(* The history of reports: its pages and its heatmap.                       *)

\* What holds of the reports: each has its own event and number.
Told(rs) ==
    /\ IsFiniteSet(rs)
    /\ \A r \in rs : r.event \in Nat \ {0} /\ r.ordinal = r.event /\ r.at \in Nat
    /\ \A r, q \in rs : r.event = q.event => r = q

\* es has the reports rs from the first to the last.
Arranges(es, rs) ==
    /\ es \in [1 .. Cardinality(rs) -> rs] /\ ToSet(es) = rs
    /\ \A i, j \in DOMAIN es : i < j => Earlier(es[i], es[j])

(* Of two reports one is earlier.                                           *)
LEMMA EarlierIsOrder ==
  ASSUME NEW rs, Told(rs), NEW x \in rs, NEW y \in rs
  PROVE  /\ x # y => Earlier(x, y) \/ Earlier(y, x)
         /\ ~(Earlier(x, y) /\ Earlier(y, x)) /\ ~Earlier(x, x)
         /\ \A z \in rs : Earlier(x, y) /\ Earlier(y, z) => Earlier(x, z)
<1>1. \A r \in rs : r.at \in Nat /\ r.ordinal \in Nat /\ r.ordinal = r.event
  BY DEF Told
<1>2. x.ordinal = y.ordinal => x = y
  BY <1>1 DEF Told
<1> QED BY <1>1, <1>2 DEF Earlier

(* There is a latest one among reports.                                     *)
LEMMA LatestReport ==
  ASSUME NEW rs, Told(rs), rs # {}
  PROVE  \E m \in rs : \A r \in rs \ {m} : Earlier(r, m)
<1> DEFINE T == {Cardinality(S) : S \in {U \in SUBSET rs : U # {} /\ ~\E m \in U : \A r \in U \ {m} : Earlier(r, m)}}
<1>1. SUFFICES ASSUME T # {} PROVE FALSE
  OBVIOUS
<1>2. \A U \in SUBSET rs : IsFiniteSet(U) /\ Cardinality(U) \in Nat
  BY FS_Subset, FS_CardinalityType DEF Told
<1>3. PICK k \in T : \A j \in T : k <= j
  <2> T \subseteq Nat
    BY <1>2
  <2> HIDE DEF T
  <2> QED BY <1>1, Least
<1>4. PICK U \in SUBSET rs : /\ U # {} /\ k = Cardinality(U)
                             /\ ~\E m \in U : \A r \in U \ {m} : Earlier(r, m)
  OBVIOUS
<1>5. PICK x \in U : TRUE
  BY <1>4
<1>6. IsFiniteSet(U) /\ Cardinality(U) \in Nat /\ Cardinality(U \ {x}) = Cardinality(U) - 1 /\ U \ {x} \in SUBSET rs
  BY <1>2, FS_RemoveElement
<1>7. U \ {x} # {}
  BY <1>4, <1>5
<1>8. \E m \in U \ {x} : \A r \in (U \ {x}) \ {m} : Earlier(r, m)
  <2>1. Cardinality(U \ {x}) \notin T
    BY <1>3, <1>4, <1>6
  <2> QED BY <2>1, <1>6, <1>7
<1>9. PICK m \in U \ {x} : \A r \in (U \ {x}) \ {m} : Earlier(r, m)
  BY <1>8
<1>10. m \in rs /\ x \in rs /\ m # x
  BY <1>9
<1>11. CASE Earlier(x, m)
  <2>1. \A r \in U \ {m} : Earlier(r, m)
    BY <1>9, <1>11
  <2> QED BY <2>1, <1>4, <1>9
<1>12. CASE Earlier(m, x)
  <2>1. \A r \in U \ {x} : Earlier(r, x)
    BY <1>9, <1>10, <1>12, EarlierIsOrder
  <2> QED BY <2>1, <1>4, <1>5
<1> QED BY <1>10, <1>11, <1>12, EarlierIsOrder

(* Reports can be arranged.                                                 *)
LEMMA Arrangeable == ASSUME NEW rs, Told(rs) PROVE \E es : Arranges(es, rs)
<1> DEFINE T == {Cardinality(S) : S \in {U \in SUBSET rs : ~\E es : Arranges(es, U)}}
<1>1. SUFFICES ASSUME T # {} PROVE FALSE
  OBVIOUS
<1>2. \A U \in SUBSET rs : Told(U) /\ Cardinality(U) \in Nat
  BY FS_Subset, FS_CardinalityType DEF Told
<1>3. PICK k \in T : \A j \in T : k <= j
  <2> T \subseteq Nat
    BY <1>2
  <2> HIDE DEF T
  <2> QED BY <1>1, Least
<1>4. PICK U \in SUBSET rs : k = Cardinality(U) /\ ~\E es : Arranges(es, U)
  OBVIOUS
<1>5. U # {}
  <2>1. SUFFICES ASSUME U = {} PROVE FALSE
    OBVIOUS
  <2>2. Cardinality({}) = 0 /\ (1 .. 0) = {}
    BY FS_EmptySet
  <2>3. Arranges([i \in {} |-> i], {})
    BY <2>2 DEF Arranges, ToSet
  <2> QED BY <2>1, <2>3, <1>4
<1>6. PICK m \in U : \A r \in U \ {m} : Earlier(r, m)
  BY <1>2, <1>5, LatestReport
<1>7. Told(U) /\ Cardinality(U) \in Nat /\ Cardinality(U \ {m}) = Cardinality(U) - 1 /\ Cardinality(U \ {m}) \in Nat
      /\ U \ {m} \in SUBSET rs
  BY <1>2, <1>6, FS_RemoveElement DEF Told
<1>8. PICK es : Arranges(es, U \ {m})
  <2>1. Cardinality(U \ {m}) \notin T
    BY <1>3, <1>4, <1>7
  <2> QED BY <2>1, <1>7
<1>9. PICK n \in Nat : n = Cardinality(U \ {m}) /\ Cardinality(U) = n + 1
  BY <1>7
<1> DEFINE fs == [i \in 1 .. n + 1 |-> IF i = n + 1 THEN m ELSE es[i]]
<1>10. /\ DOMAIN es = 1 .. n /\ \A i \in 1 .. n : es[i] \in U \ {m}
       /\ \A u \in U \ {m} : \E i \in 1 .. n : es[i] = u
       /\ \A i, j \in 1 .. n : i < j => Earlier(es[i], es[j])
  BY <1>8, <1>9 DEF Arranges, ToSet
<1>a. /\ fs[n + 1] = m /\ \A i \in 1 .. n : fs[i] = es[i] /\ i \in 1 .. n + 1
      /\ DOMAIN fs = 1 .. n + 1 /\ n + 1 \in 1 .. n + 1
      /\ \A i \in 1 .. n + 1 : i = n + 1 \/ i \in 1 .. n
  <2>1. n \in Nat
    BY <1>9
  <2>2. n + 1 \in 1 .. n + 1 /\ \A i \in 1 .. n : i \in 1 .. n + 1 /\ i # n + 1
    BY <2>1
  <2>3. \A i \in 1 .. n + 1 : i = n + 1 \/ i \in 1 .. n
    BY <2>1
  <2>4. DOMAIN fs = 1 .. n + 1 /\ fs[n + 1] = m /\ \A i \in 1 .. n : fs[i] = es[i]
    BY <2>2
  <2> QED BY <2>2, <2>3, <2>4
<1>b. fs = [i \in 1 .. n + 1 |-> fs[i]]
  OBVIOUS
<1> HIDE DEF fs
<1>c. \A i \in 1 .. n + 1 : fs[i] \in U
  BY <1>6, <1>10, <1>a
<1>11. fs \in [1 .. n + 1 -> U]
  BY <1>b, <1>c
<1>12. ToSet(fs) = U
  <2>1. \A u \in U : \E i \in 1 .. n + 1 : fs[i] = u
    <3> SUFFICES ASSUME NEW u \in U PROVE \E i \in 1 .. n + 1 : fs[i] = u
      OBVIOUS
    <3>1. CASE u = m
      BY <3>1, <1>a
    <3>2. CASE u # m
      <4>1. PICK i \in 1 .. n : es[i] = u
        BY <3>2, <1>10
      <4> QED BY <4>1, <1>a
    <3> QED BY <3>1, <3>2
  <2> QED BY <2>1, <1>a, <1>c DEF ToSet
<1>13. \A i, j \in 1 .. n + 1 : i < j => Earlier(fs[i], fs[j])
  <2> SUFFICES ASSUME NEW i \in 1 .. n + 1, NEW j \in 1 .. n + 1, i < j PROVE Earlier(fs[i], fs[j])
    OBVIOUS
  <2>1. i \in 1 .. n
    BY <1>9
  <2>2. CASE j = n + 1
    BY <2>1, <2>2, <1>6, <1>10, <1>a
  <2>3. CASE j \in 1 .. n
    BY <2>1, <2>3, <1>10, <1>a
  <2> QED BY <2>2, <2>3, <1>a
<1>14. Arranges(fs, U)
  BY <1>9, <1>a, <1>11, <1>12, <1>13 DEF Arranges
<1> QED BY <1>4, <1>14

(* Entries arranges the reports.                                            *)
LEMMA EntriesArrange == ASSUME NEW rs, Told(rs) PROVE Arranges(Entries(rs), rs)
<1>1. \E es \in [1 .. Cardinality(rs) -> rs] : ToSet(es) = rs /\ \A i, j \in DOMAIN es : i < j => Earlier(es[i], es[j])
  BY Arrangeable DEF Arranges
<1> QED BY <1>1 DEF Arranges, Entries

Once(s) == \A i, j \in DOMAIN s : s[i] = s[j] => i = j

PageInv ==
    /\ recorded \in Nat /\ Told(reports) /\ \A r \in reports : r.event \in 1 .. recorded
    /\ shown \in Seq(Nat) /\ Once(shown) /\ ToSet(shown) \subseteq 1 .. recorded /\ atOpen \subseteq 1 .. recorded
    /\ pageState = "open" =>
          /\ cursor \in 1 .. recorded
          /\ \A c \in reports : c.event = cursor =>
                /\ \A r \in reports : r.event \in ToSet(shown) => ~Earlier(r, c)
                /\ \A r \in reports : r.event \in atOpen \ ToSet(shown) => Earlier(r, c)
    /\ pageState = "all" => \A r \in reports : r.event \in atOpen => r.event \in ToSet(shown)

(* A report is at one place among the entries, and earlier ones before it.  *)
LEMMA EntryIs ==
  ASSUME NEW rs, Told(rs), NEW es, Arranges(es, rs)
  PROVE  /\ Cardinality(rs) \in Nat /\ es \in Seq(rs) /\ Len(es) = Cardinality(rs) /\ DOMAIN es = 1 .. Len(es)
         /\ \A r \in rs : \E i \in 1 .. Len(es) : es[i] = r
         /\ \A i, j \in 1 .. Len(es) : es[i] \in rs /\ (Earlier(es[i], es[j]) <=> i < j)
         /\ \A i, j \in 1 .. Len(es) : es[i].event = es[j].event => i = j
<1>1. Cardinality(rs) \in Nat
  BY FS_CardinalityType DEF Told
<1>2. es \in Seq(rs) /\ Len(es) = Cardinality(rs) /\ DOMAIN es = 1 .. Len(es)
  BY <1>1 DEF Arranges
<1>3. \A r \in rs : \E i \in 1 .. Len(es) : es[i] = r
  BY <1>2 DEF Arranges, ToSet
<1>4. ASSUME NEW i \in 1 .. Len(es), NEW j \in 1 .. Len(es)
      PROVE  es[i] \in rs /\ (Earlier(es[i], es[j]) <=> i < j) /\ (es[i].event = es[j].event => i = j)
  <2>1. es[i] \in rs /\ es[j] \in rs
    BY <1>2
  <2>2. (i < j => Earlier(es[i], es[j])) /\ (j < i => Earlier(es[j], es[i]))
    BY <1>2 DEF Arranges
  <2>3. ~(Earlier(es[i], es[j]) /\ Earlier(es[j], es[i])) /\ ~Earlier(es[i], es[i])
    BY <2>1, EarlierIsOrder
  <2>4. i < j \/ j < i \/ i = j
    BY <1>1, <1>2
  <2>5. Earlier(es[i], es[j]) <=> i < j
    BY <2>2, <2>3, <2>4
  <2>6. es[i].event = es[j].event => es[i] = es[j]
    BY <2>1 DEF Told
  <2> QED BY <2>1, <2>2, <2>3, <2>4, <2>5, <2>6
<1> QED BY <1>1, <1>2, <1>3, <1>4

(* The page that ends at a place has the events from its start to there.    *)
LEMMA PageIs ==
  ASSUME NEW rs, Told(rs), NEW es, Arranges(es, rs), NEW end \in 0 .. Len(es)
  PROVE  /\ PageStart(end) \in 1 .. end + 1 /\ (end > 0 => PageStart(end) <= end)
         /\ Page(es, end) \in Seq(Nat) /\ Once(Page(es, end))
         /\ ToSet(Page(es, end)) = {es[i].event : i \in PageStart(end) .. end}
<1>1. PageSize \in Nat \ {0}
  BY HistoryAssumption
<1>2. es \in Seq(rs) /\ DOMAIN es = 1 .. Len(es) /\ Len(es) \in Nat
  BY EntryIs
<1>3. PICK s : s = PageStart(end)
  OBVIOUS
<1>4. s \in 1 .. end + 1 /\ (end > 0 => s <= end) /\ s \in Nat
  BY <1>1, <1>2, <1>3 DEF PageStart
<1>5. PICK ev : ev = Events(es)
  OBVIOUS
<1>6. \A i \in 1 .. Len(es) : es[i].event \in Nat
  BY <1>2, EntryIs DEF Told
<1>7. ev \in Seq(Nat) /\ Len(ev) = Len(es) /\ \A i \in 1 .. Len(es) : ev[i] = es[i].event
  <2>1. ev = [i \in 1 .. Len(es) |-> es[i].event]
    BY <1>2, <1>5 DEF Events
  <2>2. ev \in [1 .. Len(es) -> Nat] /\ \A i \in 1 .. Len(es) : ev[i] = es[i].event
    BY <2>1, <1>6
  <2> QED BY <1>2, <2>2
<1>8. PICK page : page = SubSeq(ev, s, end)
  OBVIOUS
<1>9. page = Page(es, end)
  BY <1>3, <1>5, <1>8 DEF Page
<1>10. page \in Seq(Nat) /\ Len(page) = end - s + 1 /\ \A k \in 1 .. end - s + 1 : page[k] = ev[s + k - 1]
  BY <1>2, <1>4, <1>7, <1>8, SubSeqProperties
<1>11. DOMAIN page = 1 .. end - s + 1
  BY <1>10
<1>12. \A k \in 1 .. end - s + 1 : s + k - 1 \in s .. end /\ s + k - 1 \in 1 .. Len(es) /\ page[k] = es[s + k - 1].event
  <2> SUFFICES ASSUME NEW k \in 1 .. end - s + 1
      PROVE  s + k - 1 \in s .. end /\ s + k - 1 \in 1 .. Len(es) /\ page[k] = es[s + k - 1].event
    OBVIOUS
  <2>1. PICK i : i = s + k - 1
    OBVIOUS
  <2>2. i \in s .. end /\ i \in 1 .. Len(es)
    BY <1>2, <1>4, <2>1
  <2>3. page[k] = ev[i]
    BY <1>10, <2>1
  <2>4. ev[i] = es[i].event
    BY <1>7, <2>2
  <2> QED BY <2>1, <2>2, <2>3, <2>4
<1>13. \A i \in s .. end : i - s + 1 \in 1 .. end - s + 1 /\ s + (i - s + 1) - 1 = i
  BY <1>2, <1>4
<1>14. Once(page)
  <2> SUFFICES ASSUME NEW i \in 1 .. end - s + 1, NEW j \in 1 .. end - s + 1, page[i] = page[j] PROVE i = j
    BY <1>11 DEF Once
  <2>0. \A a, b \in 1 .. Len(es) : es[a].event = es[b].event => a = b
    BY EntryIs
  <2>1. s + i - 1 = s + j - 1
    BY <1>12, <2>0
  <2> QED BY <2>1, <1>2, <1>4
<1>15. ToSet(page) = {es[i].event : i \in s .. end}
  <2>1. \A k \in DOMAIN page : page[k] \in {es[i].event : i \in s .. end}
    BY <1>11, <1>12
  <2>2. ASSUME NEW i \in s .. end PROVE \E k \in DOMAIN page : page[k] = es[i].event
    BY <1>11, <1>12, <1>13
  <2> QED BY <2>1, <2>2 DEF ToSet
<1> QED BY <1>3, <1>4, <1>9, <1>10, <1>14, <1>15

(* The cursor of the next page is the first report of this one, if there    *)
(* are older ones.                                                          *)
LEMMA NextBeforeIs ==
  ASSUME NEW rs, Told(rs), NEW es, Arranges(es, rs), NEW end \in 0 .. Len(es)
  PROVE  /\ PageStart(end) = 1 <=> NextBefore(es, end) = NoCursor
         /\ PageStart(end) # 1 => /\ PageStart(end) \in 1 .. Len(es) /\ PageStart(end) <= end
                                  /\ NextBefore(es, end) = es[PageStart(end)].event
<1>1. PageStart(end) \in 1 .. end + 1 /\ (end > 0 => PageStart(end) <= end) /\ Len(es) \in Nat
  BY PageIs, EntryIs
<1>2. CASE PageStart(end) = 1
  BY <1>2 DEF NextBefore
<1>3. CASE PageStart(end) # 1
  <2>1. PageStart(end) \in 1 .. Len(es) /\ PageStart(end) <= end
    BY <1>1, <1>3
  <2>2. es[PageStart(end)].event \in Nat
    BY <2>1, EntryIs DEF Told
  <2> QED BY <1>3, <2>1, <2>2, HistoryAssumption DEF NextBefore
<1> QED BY <1>2, <1>3

(* The history is opened: the newest page is shown.                         *)
LEMMA OpenHistoryStep == PageInv /\ OpenHistory => PageInv'
<1> SUFFICES ASSUME PageInv, OpenHistory PROVE PageInv'
  OBVIOUS
<1>1. PICK es : es = Entries(reports)
  OBVIOUS
<1>2. /\ shown' = Page(es, Len(es)) /\ cursor' = NextBefore(es, Len(es))
      /\ pageState' = IF NextBefore(es, Len(es)) = NoCursor THEN "all" ELSE "open"
      /\ atOpen' = ToSet(Events(es)) /\ UNCHANGED <<reports, recorded>>
  BY <1>1 DEF OpenHistory
<1>3. Told(reports) /\ Arranges(es, reports) /\ \A r \in reports : r.event \in 1 .. recorded
  BY <1>1, EntriesArrange DEF PageInv
<1>4. /\ es \in Seq(reports) /\ DOMAIN es = 1 .. Len(es) /\ Len(es) \in Nat
      /\ \A r \in reports : \E i \in 1 .. Len(es) : es[i] = r
      /\ \A i, j \in 1 .. Len(es) : es[i] \in reports /\ (Earlier(es[i], es[j]) <=> i < j)
      /\ \A i, j \in 1 .. Len(es) : es[i].event = es[j].event => i = j
  BY <1>3, EntryIs
<1>5. PICK s : s = PageStart(Len(es))
  OBVIOUS
<1>6. Len(es) \in 0 .. Len(es)
  BY <1>4
<1>7. /\ s \in 1 .. Len(es) + 1 /\ shown' \in Seq(Nat) /\ Once(shown)'
      /\ ToSet(shown') = {es[i].event : i \in s .. Len(es)}
  BY <1>2, <1>3, <1>5, <1>6, PageIs DEF Once
<1>8. s # 1 => s \in 1 .. Len(es) /\ cursor' = es[s].event
  BY <1>2, <1>3, <1>5, <1>6, NextBeforeIs
<1>9. (s = 1 => pageState' = "all") /\ (s # 1 => pageState' = "open")
  BY <1>2, <1>3, <1>5, <1>6, NextBeforeIs
<1>10. ToSet(shown') \subseteq 1 .. recorded
  BY <1>3, <1>4, <1>7
<1>11. atOpen' \subseteq 1 .. recorded
  BY <1>2, <1>3, <1>4 DEF Events, ToSet
<1>12. CASE s = 1
  <2>1. \A r \in reports : r.event \in ToSet(shown')
    BY <1>4, <1>7, <1>12
  <2> QED BY <1>2, <1>3, <1>7, <1>9, <1>10, <1>11, <1>12, <2>1 DEF PageInv
<1>13. CASE s # 1
  <2>1. ASSUME NEW c \in reports, c.event = cursor' PROVE c = es[s]
    BY <1>3, <1>4, <1>8, <1>13, <2>1 DEF Told
  <2>2. ASSUME NEW r \in reports PROVE r.event \in ToSet(shown') <=> ~Earlier(r, es[s])
    <3>1. PICK i \in 1 .. Len(es) : es[i] = r
      BY <1>4
    <3>2. s \in 1 .. Len(es)
      BY <1>8, <1>13
    <3>3. Earlier(r, es[s]) <=> i < s
      BY <1>4, <3>1, <3>2
    <3>4. r.event \in ToSet(shown') <=> i \in s .. Len(es)
      <4>1. \A j \in s .. Len(es) : j \in 1 .. Len(es)
        BY <3>2
      <4>2. i \in s .. Len(es) => r.event \in ToSet(shown')
        BY <1>7, <3>1
      <4>3. ASSUME r.event \in ToSet(shown') PROVE i \in s .. Len(es)
        <5>1. PICK j \in s .. Len(es) : es[j].event = r.event
          BY <1>7, <4>3
        <5>2. es[j].event = es[i].event /\ j \in 1 .. Len(es)
          BY <3>1, <4>1, <5>1
        <5>3. j = i
          BY <1>4, <5>2
        <5> QED BY <5>1, <5>3
      <4> QED BY <4>2, <4>3
    <3> QED BY <1>4, <3>2, <3>3, <3>4
  <2>3. \A c \in reports : c.event = cursor' =>
                /\ \A r \in reports : r.event \in ToSet(shown') => ~Earlier(r, c)
                /\ \A r \in reports : r.event \in atOpen' \ ToSet(shown') => Earlier(r, c)
    BY <2>1, <2>2
  <2>4. cursor' \in 1 .. recorded
    BY <1>3, <1>4, <1>8, <1>13
  <2>5. pageState' = "open"
    BY <1>9, <1>13
  <2> QED BY <1>2, <1>3, <1>7, <1>10, <1>11, <2>3, <2>4, <2>5 DEF PageInv
<1> QED BY <1>12, <1>13

(* The page before the cursor goes in front of those that are shown.        *)
LEMMA OlderPageStep == PageInv /\ OlderPage => PageInv'
<1> SUFFICES ASSUME PageInv, OlderPage PROVE PageInv'
  OBVIOUS
<1>1. PICK es : es = Entries(reports)
  OBVIOUS
<1>2. PICK at : at = {i \in DOMAIN es : es[i].event = cursor}
  OBVIOUS
<1>3. PICK k : k = CHOOSE i \in at : TRUE
  OBVIOUS
<1>4. /\ pageState = "open" /\ UNCHANGED <<reports, recorded, atOpen>>
      /\ IF at = {} THEN pageState' = "lost" /\ UNCHANGED <<shown, cursor>>
         ELSE /\ shown' = Page(es, k - 1) \o shown /\ cursor' = NextBefore(es, k - 1)
              /\ pageState' = IF NextBefore(es, k - 1) = NoCursor THEN "all" ELSE "open"
  BY <1>1, <1>2, <1>3 DEF OlderPage
<1>5. CASE at = {}
  BY <1>4, <1>5 DEF PageInv
<1>6. CASE at # {}
  <2>1. Told(reports) /\ Arranges(es, reports) /\ \A r \in reports : r.event \in 1 .. recorded
    BY <1>1, EntriesArrange DEF PageInv
  <2>2. /\ es \in Seq(reports) /\ DOMAIN es = 1 .. Len(es) /\ Len(es) \in Nat
        /\ \A r \in reports : \E i \in 1 .. Len(es) : es[i] = r
        /\ \A i, j \in 1 .. Len(es) : es[i] \in reports /\ (Earlier(es[i], es[j]) <=> i < j)
        /\ \A i, j \in 1 .. Len(es) : es[i].event = es[j].event => i = j
    BY <2>1, EntryIs
  <2>3. k \in 1 .. Len(es) /\ es[k].event = cursor /\ k - 1 \in 0 .. Len(es)
    BY <1>2, <1>3, <1>6, <2>2
  <2>4. /\ shown \in Seq(Nat) /\ Once(shown) /\ ToSet(shown) \subseteq 1 .. recorded /\ atOpen \subseteq 1 .. recorded
        /\ \A r \in reports : r.event \in ToSet(shown) => ~Earlier(r, es[k])
        /\ \A r \in reports : r.event \in atOpen \ ToSet(shown) => Earlier(r, es[k])
    <3>1. es[k] \in reports
      BY <2>2, <2>3
    <3> QED BY <1>4, <2>3, <3>1 DEF PageInv
  <2>5. PICK s : s = PageStart(k - 1)
    OBVIOUS
  <2>6. PICK page : page = Page(es, k - 1)
    OBVIOUS
  <2>7. /\ s \in 1 .. k /\ page \in Seq(Nat) /\ Once(page)
        /\ ToSet(page) = {es[i].event : i \in s .. k - 1}
    <3>1. PICK e : e = k - 1
      OBVIOUS
    <3>2. /\ PageStart(e) \in 1 .. e + 1 /\ Page(es, e) \in Seq(Nat) /\ Once(Page(es, e))
          /\ ToSet(Page(es, e)) = {es[i].event : i \in PageStart(e) .. e}
      <4>1. e \in 0 .. Len(es)
        BY <2>3, <3>1
      <4> QED BY <2>1, <4>1, PageIs, Zenon
    <3>3. s = PageStart(e) /\ page = Page(es, e) /\ e + 1 = k
      BY <2>3, <2>5, <2>6, <3>1
    <3> QED BY <3>1, <3>2, <3>3
  <2>8. s # 1 => s \in 1 .. Len(es) /\ s <= k - 1 /\ cursor' = es[s].event
    BY <1>4, <1>6, <2>1, <2>3, <2>5, NextBeforeIs
  <2>9. (s = 1 => pageState' = "all") /\ (s # 1 => pageState' = "open")
    BY <1>4, <1>6, <2>1, <2>3, <2>5, NextBeforeIs
  <2>10. \A j \in s .. k - 1 : j \in 1 .. Len(es) /\ j < k
    BY <2>2, <2>3, <2>7
  <2>11. ToSet(page) \cap ToSet(shown) = {}
    <3> SUFFICES ASSUME NEW j \in s .. k - 1, es[j].event \in ToSet(shown) PROVE FALSE
      BY <2>7
    <3>1. es[j] \in reports /\ Earlier(es[j], es[k])
      BY <2>2, <2>3, <2>10
    <3> QED BY <2>4, <3>1
  <2>12. shown' = page \o shown
    BY <1>4, <1>6, <2>6
  <2>13. /\ shown' \in Seq(Nat) /\ DOMAIN shown' = 1 .. Len(page) + Len(shown)
         /\ \A i \in 1 .. Len(page) : shown'[i] = page[i]
         /\ \A i \in Len(page) + 1 .. Len(page) + Len(shown) : shown'[i] = shown[i - Len(page)]
         /\ DOMAIN page = 1 .. Len(page) /\ DOMAIN shown = 1 .. Len(shown) /\ Len(page) \in Nat /\ Len(shown) \in Nat
    BY <2>4, <2>7, <2>12
  <2>14. \A i \in DOMAIN shown' : \/ i \in DOMAIN page /\ shown'[i] = page[i]
                                  \/ i - Len(page) \in DOMAIN shown /\ shown'[i] = shown[i - Len(page)]
    <3> SUFFICES ASSUME NEW i \in 1 .. Len(page) + Len(shown)
        PROVE  \/ i \in 1 .. Len(page) /\ shown'[i] = page[i]
               \/ i - Len(page) \in 1 .. Len(shown) /\ shown'[i] = shown[i - Len(page)]
      BY <2>13
    <3>1. CASE i <= Len(page)
      <4>1. i \in 1 .. Len(page)
        BY <2>13, <3>1
      <4> QED BY <2>13, <4>1
    <3>2. CASE ~(i <= Len(page))
      <4>1. i \in Len(page) + 1 .. Len(page) + Len(shown) /\ i - Len(page) \in 1 .. Len(shown)
        BY <2>13, <3>2
      <4> QED BY <2>13, <4>1
    <3> QED BY <3>1, <3>2
  <2>15. ToSet(shown') = ToSet(page) \cup ToSet(shown)
    <3>1. \A i \in DOMAIN page : i \in DOMAIN shown' /\ shown'[i] = page[i]
      BY <2>13
    <3>2. \A i \in DOMAIN shown : i + Len(page) \in DOMAIN shown' /\ shown'[i + Len(page)] = shown[i]
      <4> SUFFICES ASSUME NEW i \in DOMAIN shown PROVE i + Len(page) \in DOMAIN shown' /\ shown'[i + Len(page)] = shown[i]
        OBVIOUS
      <4>1. i + Len(page) \in Len(page) + 1 .. Len(page) + Len(shown) /\ (i + Len(page)) - Len(page) = i
        BY <2>13
      <4> QED BY <2>13, <4>1
    <3> QED BY <2>14, <3>1, <3>2 DEF ToSet
  <2>16. Once(shown)'
    <3> SUFFICES ASSUME NEW i \in DOMAIN shown', NEW j \in DOMAIN shown', shown'[i] = shown'[j] PROVE i = j
      BY DEF Once
    <3>1. i \in Nat /\ j \in Nat
      BY <2>13
    <3>2. CASE i \in DOMAIN page /\ shown'[i] = page[i] /\ j \in DOMAIN page /\ shown'[j] = page[j]
      BY <3>2, <2>7 DEF Once
    <3>3. CASE /\ i - Len(page) \in DOMAIN shown /\ shown'[i] = shown[i - Len(page)]
               /\ j - Len(page) \in DOMAIN shown /\ shown'[j] = shown[j - Len(page)]
      <4>1. i - Len(page) = j - Len(page)
        BY <3>3, <2>4 DEF Once
      <4> QED BY <3>1, <4>1, <2>13
    <3>4. CASE \/ /\ i \in DOMAIN page /\ shown'[i] = page[i]
                  /\ j - Len(page) \in DOMAIN shown /\ shown'[j] = shown[j - Len(page)]
               \/ /\ j \in DOMAIN page /\ shown'[j] = page[j]
                  /\ i - Len(page) \in DOMAIN shown /\ shown'[i] = shown[i - Len(page)]
      <4>1. \A a \in DOMAIN page, b \in DOMAIN shown : page[a] # shown[b]
        BY <2>11 DEF ToSet
      <4> QED BY <3>4, <4>1
    <3> QED BY <2>14, <3>2, <3>3, <3>4
  <2>17. ToSet(shown') \subseteq 1 .. recorded
    BY <2>1, <2>2, <2>4, <2>7, <2>10, <2>15
  <2>18. CASE s = 1
    <3>1. ASSUME NEW r \in reports, r.event \in atOpen PROVE r.event \in ToSet(shown')
      <4>1. PICK i \in 1 .. Len(es) : es[i] = r
        BY <2>2
      <4>2. CASE i < k
        <5>1. i \in s .. k - 1
          BY <2>2, <2>3, <2>18, <4>2
        <5> QED BY <2>7, <2>15, <4>1, <5>1
      <4>3. CASE ~(i < k)
        <5>1. ~Earlier(r, es[k])
          BY <2>2, <2>3, <4>1, <4>3
        <5> QED BY <2>4, <2>15, <3>1, <5>1
      <4> QED BY <4>2, <4>3
    <3>2. pageState' = "all"
      BY <2>9, <2>18
    <3> QED BY <1>4, <2>1, <2>4, <2>13, <2>16, <2>17, <3>1, <3>2 DEF PageInv
  <2>19. CASE s # 1
    <3>0. s \in 1 .. Len(es) /\ s <= k - 1
      BY <2>8, <2>19
    <3>1. ASSUME NEW c \in reports, c.event = cursor' PROVE c = es[s]
      BY <2>1, <2>2, <2>8, <2>19, <3>1 DEF Told
    <3>2. ASSUME NEW r \in reports, r.event \in ToSet(shown') PROVE ~Earlier(r, es[s])
      <4>1. PICK i \in 1 .. Len(es) : es[i] = r
        BY <2>2
      <4>2. CASE r.event \in ToSet(page)
        <5>1. PICK j \in s .. k - 1 : es[j].event = r.event
          BY <2>7, <4>2
        <5>2. i = j
          BY <2>2, <2>10, <4>1, <5>1
        <5> QED BY <2>2, <3>0, <4>1, <5>1, <5>2
      <4>3. CASE r.event \in ToSet(shown)
        <5>1. ~(i < k)
          BY <2>2, <2>3, <2>4, <4>1, <4>3
        <5>2. ~(i < s)
          BY <2>2, <2>3, <3>0, <5>1
        <5> QED BY <2>2, <3>0, <4>1, <5>2
      <4> QED BY <2>15, <3>2, <4>2, <4>3
    <3>3. ASSUME NEW r \in reports, r.event \in atOpen \ ToSet(shown') PROVE Earlier(r, es[s])
      <4>1. PICK i \in 1 .. Len(es) : es[i] = r
        BY <2>2
      <4>2. Earlier(r, es[k])
        BY <2>4, <2>15, <3>3
      <4>3. i < k
        BY <2>2, <2>3, <4>1, <4>2
      <4>4. i \notin s .. k - 1
        BY <2>7, <2>15, <3>3, <4>1
      <4>5. i < s
        BY <2>2, <2>3, <3>0, <4>3, <4>4
      <4> QED BY <2>2, <3>0, <4>1, <4>5
    <3>4. cursor' \in 1 .. recorded
      BY <2>1, <2>2, <2>8, <2>19
    <3>5. pageState' = "open"
      BY <2>9, <2>19
    <3>6. \A c \in reports : c.event = cursor' =>
                /\ \A r \in reports : r.event \in ToSet(shown') => ~Earlier(r, c)
                /\ \A r \in reports : r.event \in atOpen \ ToSet(shown') => Earlier(r, c)
      BY <3>1, <3>2, <3>3
    <3> QED BY <1>4, <2>1, <2>4, <2>13, <2>16, <2>17, <3>4, <3>5, <3>6 DEF PageInv
  <2> QED BY <2>18, <2>19
<1> QED BY <1>5, <1>6

(* Nothing is recorded or shown at first.                                   *)
LEMMA PageInitInv == HistoryInit => PageInv
<1> SUFFICES ASSUME HistoryInit PROVE PageInv
  OBVIOUS
<1>1. reports = {} /\ recorded = 0 /\ atOpen = {} /\ shown = <<>> /\ pageState = "closed"
  BY DEF HistoryInit
<1>2. Told({})
  BY FS_EmptySet DEF Told
<1>3. <<>> \in Seq(Nat) /\ DOMAIN <<>> = {} /\ ToSet(<<>>) = {}
  BY DEF ToSet
<1>4. Once(<<>>)
  BY <1>3 DEF Once
<1> QED BY <1>1, <1>2, <1>3, <1>4 DEF PageInv

(* A report that is recorded was not there when the history was opened.     *)
LEMMA RecordRunStep == PageInv /\ RecordRun => PageInv'
<1> SUFFICES ASSUME PageInv, RecordRun PROVE PageInv'
  OBVIOUS
<1>0. PICK at \in 0 .. MaxTime, res \in Results, gs \in {{"g1"}, DOMAIN approved} :
         reports' = reports \cup {[event |-> recorded + 1, ordinal |-> recorded + 1, at |-> at,
                                   versions |-> {approved[g] : g \in DOMAIN approved}, results |-> [g \in gs |-> res]]}
  BY Zenon DEF RecordRun
<1>1. PICK vs, results :
         reports' = reports \cup {[event |-> recorded + 1, ordinal |-> recorded + 1, at |-> at,
                                   versions |-> vs, results |-> results]}
  BY <1>0
<1>2. recorded' = recorded + 1 /\ UNCHANGED <<cursor, shown, pageState, atOpen>>
  BY DEF RecordRun
<1>3. PICK new : new = [event |-> recorded + 1, ordinal |-> recorded + 1, at |-> at, versions |-> vs, results |-> results]
  OBVIOUS
<1>4. reports' = reports \cup {new} /\ new.event = recorded + 1 /\ new.ordinal = recorded + 1 /\ new.at = at
  BY <1>1, <1>3
<1>5. recorded \in Nat /\ at \in Nat /\ Told(reports) /\ \A r \in reports : r.event \in 1 .. recorded
  BY <1>1, HistoryAssumption DEF PageInv
<1>6. Told(reports)'
  <2>1. IsFiniteSet(reports \cup {new})
    BY <1>5, FS_AddElement DEF Told
  <2>2. \A r \in reports \cup {new} : r.event \in Nat \ {0} /\ r.ordinal = r.event /\ r.at \in Nat
    BY <1>4, <1>5 DEF Told
  <2>3. \A r, q \in reports \cup {new} : r.event = q.event => r = q
    BY <1>4, <1>5 DEF Told
  <2> QED BY <1>4, <2>1, <2>2, <2>3 DEF Told
<1>7. recorded' \in Nat /\ (\A n \in 1 .. recorded : n \in 1 .. recorded' /\ n # recorded + 1) /\ recorded + 1 \in 1 .. recorded'
  BY <1>2, <1>5
<1>8. \A r \in reports' : r.event \in 1 .. recorded'
  BY <1>4, <1>5, <1>7
<1>9. new.event \notin atOpen /\ new.event \notin ToSet(shown)
  BY <1>4, <1>7 DEF PageInv
<1>10. pageState = "open" => cursor \in 1 .. recorded' /\ cursor # new.event
  BY <1>4, <1>7 DEF PageInv
<1> QED BY <1>2, <1>4, <1>6, <1>7, <1>8, <1>9, <1>10 DEF PageInv, Once

(* A report that is deleted is no longer asked about.                       *)
LEMMA DeleteRunStep == PageInv /\ DeleteRun => PageInv'
<1> SUFFICES ASSUME PageInv, DeleteRun PROVE PageInv'
  OBVIOUS
<1>1. PICK r \in reports : reports' = reports \ {r}
  BY DEF DeleteRun
<1>2. UNCHANGED <<recorded, cursor, shown, pageState, atOpen>>
  BY DEF DeleteRun
<1>3. Told(reports)'
  BY <1>1, FS_RemoveElement DEF PageInv, Told
<1> QED BY <1>1, <1>2, <1>3 DEF PageInv, Once

\* The versions have numbers of their own, and each goal's is among them;
\* only an added goal has no position.
GoalsInv ==
    /\ IsFiniteSet(versions) /\ \A v \in versions : v.id \in 1 .. Cardinality(versions)
    /\ \A v, w \in versions : v.id = w.id => v = w
    /\ \A v \in versions : v.goal \in {"g1", "g2"} /\ v.position \in Nat /\ (v.position = 0 <=> v.goal = "g2")
    /\ DOMAIN approved \in {{"g1"}, {"g1", "g2"}}
    /\ \A g \in DOMAIN approved : \E v \in versions : v.id = approved[g] /\ v.goal = g

(* There is one goal with one version at first.                             *)
LEMMA GoalsInitInv == HistoryInit => GoalsInv
<1> SUFFICES ASSUME HistoryInit PROVE GoalsInv
  OBVIOUS
<1>1. PICK v : v = [id |-> 1, goal |-> "g1", created |-> 0, position |-> 1]
  OBVIOUS
<1>2. versions = {v} /\ approved = [g \in {"g1"} |-> 1]
  BY <1>1 DEF HistoryInit
<1>3. v.id = 1 /\ v.goal = "g1" /\ v.position = 1
  BY <1>1
<1>4. IsFiniteSet(versions) /\ Cardinality(versions) = 1
  BY <1>2, FS_Singleton
<1>5. DOMAIN approved = {"g1"} /\ approved["g1"] = 1
  BY <1>2
<1> QED BY <1>2, <1>3, <1>4, <1>5 DEF GoalsInv

(* A new version has a number that none had.                                *)
LEMMA ChangeGoalsStep == GoalsInv /\ ChangeGoals => GoalsInv'
<1> SUFFICES ASSUME GoalsInv, ChangeGoals PROVE GoalsInv'
  OBVIOUS
<1>1. PICK id : id = Cardinality(versions) + 1
  OBVIOUS
<1>2. PICK g \in {"g1", "g2"} :
         /\ versions' = versions \cup {[id |-> id, goal |-> g, created |-> MaxTime, position |-> IF g = "g2" THEN 0 ELSE 2]}
         /\ approved' = [h \in DOMAIN approved \cup {g} |-> IF h = g THEN id ELSE approved[h]]
  BY <1>1 DEF ChangeGoals
<1>3. PICK new : new = [id |-> id, goal |-> g, created |-> MaxTime, position |-> IF g = "g2" THEN 0 ELSE 2]
  OBVIOUS
<1>4. versions' = versions \cup {new} /\ new.id = id /\ new.goal = g /\ new.position = IF g = "g2" THEN 0 ELSE 2
  BY <1>2, <1>3
<1>5. new.position \in Nat /\ (new.position = 0 <=> new.goal = "g2") /\ new.goal \in {"g1", "g2"}
  BY <1>2, <1>4
<1>6. IsFiniteSet(versions) /\ Cardinality(versions) \in Nat /\ \A v \in versions : v.id \in 1 .. Cardinality(versions)
  BY FS_CardinalityType DEF GoalsInv
<1>7. \A v \in versions : v.id # id
  BY <1>1, <1>6
<1>8. IsFiniteSet(versions') /\ Cardinality(versions') = id
  <2>1. new \notin versions
    BY <1>4, <1>7
  <2> QED BY <1>1, <1>4, <1>6, <2>1, FS_AddElement
<1>9. \A v \in versions' : v.id \in 1 .. id
  BY <1>1, <1>4, <1>6
<1>10. \A v, w \in versions' : v.id = w.id => v = w
  BY <1>4, <1>7 DEF GoalsInv
<1>11. DOMAIN approved' = DOMAIN approved \cup {g} /\ \A h \in DOMAIN approved' : approved'[h] = IF h = g THEN id ELSE approved[h]
  BY <1>2
<1>12. DOMAIN approved' \in {{"g1"}, {"g1", "g2"}}
  BY <1>2, <1>11 DEF GoalsInv
<1>13. \A h \in DOMAIN approved' : \E v \in versions' : v.id = approved'[h] /\ v.goal = h
  BY <1>4, <1>11 DEF GoalsInv
<1>14. \A v \in versions' : v.goal \in {"g1", "g2"} /\ v.position \in Nat /\ (v.position = 0 <=> v.goal = "g2")
  BY <1>4, <1>5 DEF GoalsInv
<1> QED BY <1>8, <1>9, <1>10, <1>12, <1>13, <1>14 DEF GoalsInv

(* The current goals are the approved ones.                                 *)
LEMMA CurrentGoalsAre == GoalsInv => ToSet(CurrentGoals) = DOMAIN approved
<1> SUFFICES ASSUME GoalsInv PROVE ToSet(CurrentGoals) = DOMAIN approved
  OBVIOUS
<1> DEFINE Fits(gs) == ToSet(gs) = DOMAIN approved /\ \A i, j \in DOMAIN gs : i < j => Above(gs[i], gs[j])
<1>1. SUFFICES \E gs \in [1 .. Cardinality(DOMAIN approved) -> DOMAIN approved] : Fits(gs)
  BY DEF CurrentGoals
<1>2. CASE DOMAIN approved = {"g1"}
  <2>1. Cardinality(DOMAIN approved) = 1
    BY <1>2, FS_Singleton
  <2> DEFINE gs == [i \in 1 .. 1 |-> "g1"]
  <2>2. gs \in [1 .. 1 -> DOMAIN approved] /\ DOMAIN gs = 1 .. 1 /\ gs[1] = "g1"
    BY <1>2
  <2> HIDE DEF gs
  <2>3. Fits(gs)
    BY <1>2, <2>2 DEF ToSet
  <2> QED BY <2>1, <2>2, <2>3
<1>3. CASE DOMAIN approved = {"g1", "g2"}
  <2>1. Cardinality(DOMAIN approved) = 2
    <3>1. {"g1", "g2"} = {"g1"} \cup {"g2"} /\ "g2" \notin {"g1"}
      OBVIOUS
    <3>2. IsFiniteSet({"g1"}) /\ Cardinality({"g1"}) = 1
      BY FS_Singleton
    <3>3. Cardinality({"g1"} \cup {"g2"}) = 1 + 1
      BY <3>1, <3>2, FS_AddElement
    <3> QED BY <1>3, <3>1, <3>3
  <2>2. \A g \in DOMAIN approved : Position(g) = 0 <=> g = "g2"
    <3> SUFFICES ASSUME NEW g \in DOMAIN approved PROVE Position(g) = 0 <=> g = "g2"
      OBVIOUS
    <3>1. PICK v \in versions : v.id = approved[g] /\ v.goal = g
      BY DEF GoalsInv
    <3>2. PICK w : w = CHOOSE x \in versions : x.id = approved[g]
      OBVIOUS
    <3>3. w \in versions /\ w.id = approved[g]
      BY <3>1, <3>2
    <3>4. w = v
      BY <3>1, <3>3 DEF GoalsInv
    <3> QED BY <3>1, <3>2, <3>4 DEF Position, GoalsInv
  <2>3. Above("g1", "g2")
    BY <1>3, <2>2 DEF Above
  <2> DEFINE gs == [i \in 1 .. 2 |-> IF i = 1 THEN "g1" ELSE "g2"]
  <2>4. gs \in [1 .. 2 -> DOMAIN approved] /\ DOMAIN gs = 1 .. 2 /\ gs[1] = "g1" /\ gs[2] = "g2"
    BY <1>3
  <2> HIDE DEF gs
  <2>5. ToSet(gs) = DOMAIN approved
    BY <1>3, <2>4 DEF ToSet
  <2>6. \A i, j \in DOMAIN gs : i < j => i = 1 /\ j = 2
    BY <2>4
  <2>7. Fits(gs)
    BY <2>3, <2>4, <2>5, <2>6
  <2> QED BY <2>1, <2>4, <2>7
<1> QED BY <1>2, <1>3 DEF GoalsInv

\* Two cells that the next one cannot tell apart.
Alike(p, q) ==
    /\ p.verdict = q.verdict /\ (p.criteria = <<>> <=> q.criteria = <<>>)
    /\ p.criteria # <<>> => \A c \in Criteria : /\ p.criteria[c].verdict = q.criteria[c].verdict
                                                /\ p.criteria[c].evidence = q.criteria[c].evidence

(* A cell has the fields it is made of.                                     *)
LEMMA CellIs ==
  ASSUME NEW r, NEW g, NEW p
  PROVE  /\ Cell(r, g, p).verdict = CellVerdict(r, g) /\ Cell(r, g, p).criteria = CellCriteria(r, g, p)
         /\ Cell(r, g, p).change = Change(p.verdict, CellVerdict(r, g))
BY DEF Cell

\* What a criterion of a cell is, when the report assesses the goal.
Judged(r, g, p, c) ==
    [verdict |-> r.results[g][c].verdict, evidence |-> SortedEvidence(r.results[g][c].evidence),
     change |-> Comparison(p.criteria # <<>>, IF p.criteria # <<>> THEN p.criteria[c] ELSE NoCell,
                           r.results[g][c].verdict, SortedEvidence(r.results[g][c].evidence))]

(* The criteria of a cell, by cases.                                        *)
LEMMA CriteriaAre ==
  ASSUME NEW r, NEW g, NEW p
  PROVE  CellCriteria(r, g, p) =
           IF Predates(r, g) THEN <<>>
           ELSE IF Assesses(r, g) THEN [c \in Criteria |-> Judged(r, g, p, c)]
           ELSE Blank("unverified")
<1>1. CASE Predates(r, g)
  BY <1>1, Zenon DEF CellCriteria
<1>2. CASE ~Predates(r, g) /\ Assesses(r, g)
  BY <1>2, Zenon DEF CellCriteria, Judged
<1>3. CASE ~Predates(r, g) /\ ~Assesses(r, g)
  BY <1>3, Zenon DEF CellCriteria
<1> QED BY <1>1, <1>2, <1>3

(* A comparison looks at no more than a verdict and evidence.               *)
LEMMA ComparisonSame ==
  ASSUME NEW had \in BOOLEAN, NEW p, NEW q, NEW v, NEW e, had => p.verdict = q.verdict /\ p.evidence = q.evidence
  PROVE  Comparison(had, p, v, e) = Comparison(had, q, v, e)
<1>1. CASE ~had
  BY <1>1 DEF Comparison
<1>2. CASE had
  BY <1>2 DEF Comparison
<1> QED BY <1>1, <1>2

(* The cells after two that are alike are the same.                         *)
LEMMA SameAfterAlike ==
  ASSUME NEW r, NEW g, NEW p, NEW q, Alike(p, q)
  PROVE  Cell(r, g, p) = Cell(r, g, q)
<1>1. CellCriteria(r, g, p) = CellCriteria(r, g, q)
  <2>1. ASSUME NEW c \in Criteria PROVE Judged(r, g, p, c) = Judged(r, g, q, c)
    <3>1. PICK had \in BOOLEAN : (had <=> p.criteria # <<>>) /\ (had <=> q.criteria # <<>>)
      BY DEF Alike
    <3> DEFINE pc == IF p.criteria # <<>> THEN p.criteria[c] ELSE NoCell
               qc == IF q.criteria # <<>> THEN q.criteria[c] ELSE NoCell
    <3>2. had => pc.verdict = qc.verdict /\ pc.evidence = qc.evidence
      BY <3>1 DEF Alike
    <3> HIDE DEF pc, qc
    <3>3. \A v, e : Comparison(had, pc, v, e) = Comparison(had, qc, v, e)
      BY <3>1, <3>2, ComparisonSame
    <3>4. had = (p.criteria # <<>>) /\ had = (q.criteria # <<>>)
      BY <3>1, Zenon
    <3> QED BY <3>3, <3>4, Zenon DEF Judged, pc, qc
  <2>2. [c \in Criteria |-> Judged(r, g, p, c)] = [c \in Criteria |-> Judged(r, g, q, c)]
    BY <2>1
  <2> QED BY <2>2, CriteriaAre
<1>2. p.verdict = q.verdict
  BY DEF Alike
<1> QED BY <1>1, <1>2 DEF Cell

(* What a cell is compared with leaves no trace that the next one sees.     *)
LEMMA CellsAlike == ASSUME NEW r, NEW g, NEW p, NEW q PROVE Alike(Cell(r, g, p), Cell(r, g, q))
<1>1. PICK a : a = CellCriteria(r, g, p)
  OBVIOUS
<1>2. PICK b : b = CellCriteria(r, g, q)
  OBVIOUS
<1>3. /\ a = <<>> <=> b = <<>>
      /\ a # <<>> => \A c \in Criteria : a[c].verdict = b[c].verdict /\ a[c].evidence = b[c].evidence
  <2>1. CASE Predates(r, g) \/ ~Assesses(r, g)
    <3>1. a = b
      BY <1>1, <1>2, <2>1, CriteriaAre, Zenon
    <3> QED BY <3>1
  <2>2. CASE ~Predates(r, g) /\ Assesses(r, g)
    <3>1. a = [c \in Criteria |-> Judged(r, g, p, c)] /\ b = [c \in Criteria |-> Judged(r, g, q, c)]
      BY <1>1, <1>2, <2>2, CriteriaAre, Zenon
    <3>2. DOMAIN a = Criteria /\ DOMAIN b = Criteria /\ Criteria # {}
      BY <3>1 DEF Criteria
    <3>3. DOMAIN <<>> = {}
      OBVIOUS
    <3>4. a # <<>> /\ b # <<>>
      BY <3>2, <3>3, Zenon
    <3>5. \A c \in Criteria : a[c] = Judged(r, g, p, c) /\ b[c] = Judged(r, g, q, c)
      BY <3>1
    <3>6. \A c : /\ Judged(r, g, p, c).verdict = Judged(r, g, q, c).verdict
                 /\ Judged(r, g, p, c).evidence = Judged(r, g, q, c).evidence
      BY DEF Judged
    <3> QED BY <3>4, <3>5, <3>6
  <2> QED BY <2>1, <2>2
<1>4. /\ Cell(r, g, p).verdict = Cell(r, g, q).verdict
      /\ Cell(r, g, p).criteria = a /\ Cell(r, g, q).criteria = b
  BY <1>1, <1>2, CellIs
<1> QED BY <1>3, <1>4 DEF Alike

(* So a cell depends on its own report and on the one before, and no more.  *)
LEMMA CellAgain ==
  ASSUME NEW r, NEW q, NEW g, NEW x, NEW y
  PROVE  Cell(r, g, Cell(q, g, x)) = Cell(r, g, Cell(q, g, y))
BY CellsAlike, SameAfterAlike

\* f has a row for each of the reports es, each compared with the one before.
HeatRows(f, es) ==
    f = [n \in 1 .. Len(es) |->
            Row(es[n], [g \in ToSet(CurrentGoals) |-> Cell(es[n], g, IF n = 1 THEN NoCell ELSE f[n - 1].cells[g])])]

(* There are such rows: each can be said from two reports alone.            *)
LEMMA RowsExist == ASSUME NEW es, Len(es) \in Nat PROVE \E f : HeatRows(f, es)
<1> DEFINE C(n, g) == Cell(es[n], g, IF n = 1 THEN NoCell ELSE Cell(es[n - 1], g, NoCell))
           f == [n \in 1 .. Len(es) |-> Row(es[n], [g \in ToSet(CurrentGoals) |-> C(n, g)])]
<1>1. ASSUME NEW n \in 1 .. Len(es), NEW g \in ToSet(CurrentGoals)
      PROVE  Cell(es[n], g, IF n = 1 THEN NoCell ELSE f[n - 1].cells[g]) = C(n, g)
  <2>1. CASE n = 1
    BY <2>1
  <2>2. CASE n # 1
    <3>1. n - 1 \in 1 .. Len(es)
      BY <2>2
    <3>2. f[n - 1] = Row(es[n - 1], [h \in ToSet(CurrentGoals) |-> C(n - 1, h)])
      BY <3>1
    <3>3. f[n - 1].cells[g] = C(n - 1, g)
      <4> HIDE DEF f, C
      <4>1. f[n - 1].cells = [h \in ToSet(CurrentGoals) |-> C(n - 1, h)]
        BY <3>2 DEF Row
      <4> QED BY <4>1
    <3>4. PICK x : C(n - 1, g) = Cell(es[n - 1], g, x)
      OBVIOUS
    <3>5. Cell(es[n], g, Cell(es[n - 1], g, x)) = Cell(es[n], g, Cell(es[n - 1], g, NoCell))
      BY CellAgain
    <3>6. f[n - 1].cells[g] = Cell(es[n - 1], g, x)
      BY <3>3, <3>4, Zenon
    <3>7. C(n, g) = Cell(es[n], g, Cell(es[n - 1], g, NoCell))
      BY <2>2
    <3> HIDE DEF f, C
    <3> QED BY <2>2, <3>5, <3>6, <3>7
  <2> QED BY <2>1, <2>2
<1>2. f = [n \in 1 .. Len(es) |-> Row(es[n], [g \in ToSet(CurrentGoals) |-> C(n, g)])]
  OBVIOUS
<1> HIDE DEF f, C
<1>3. \A n \in 1 .. Len(es) :
         [g \in ToSet(CurrentGoals) |-> Cell(es[n], g, IF n = 1 THEN NoCell ELSE f[n - 1].cells[g])]
           = [g \in ToSet(CurrentGoals) |-> C(n, g)]
  BY <1>1
<1>4. HeatRows(f, es)
  BY <1>2, <1>3 DEF HeatRows
<1> QED BY <1>4

(* The heatmap has them.                                                    *)
LEMMA HeatmapIs ==
  ASSUME NEW rs, NEW k, NEW es, es = Latest(Entries(rs), k), Len(es) \in Nat
  PROVE  HeatRows(Heatmap(rs, k), es)
<1> DEFINE f == CHOOSE f : HeatRows(f, es)
<1>1. HeatRows(f, es)
  BY RowsExist
<1>2. Heatmap(rs, k) = f
  BY Zenon DEF Heatmap, HeatRows
<1> QED BY <1>1, <1>2

(* A row and its cells.                                                     *)
LEMMA RowIs ==
  ASSUME GoalsInv, NEW f, NEW es, Len(es) \in Nat, HeatRows(f, es)
  PROVE  /\ DOMAIN f = 1 .. Len(es) /\ Len(f) = Len(es)
         /\ \A n \in 1 .. Len(es) :
               /\ f[n].event = es[n].event
               /\ \A g \in DOMAIN approved :
                     f[n].cells[g] = Cell(es[n], g, IF n = 1 THEN NoCell ELSE f[n - 1].cells[g])
<1>1. ToSet(CurrentGoals) = DOMAIN approved
  BY CurrentGoalsAre
<1> DEFINE B(n, g) == Cell(es[n], g, IF n = 1 THEN NoCell ELSE f[n - 1].cells[g])
<1>2. f = [n \in 1 .. Len(es) |-> Row(es[n], [g \in DOMAIN approved |-> B(n, g)])]
  BY <1>1, Zenon DEF HeatRows
<1> HIDE DEF B
<1>3. DOMAIN f = 1 .. Len(es) /\ \A n \in 1 .. Len(es) : f[n] = Row(es[n], [g \in DOMAIN approved |-> B(n, g)])
  BY <1>2
<1>4. Len(f) = Len(es)
  BY <1>2
<1>5. \A n \in 1 .. Len(es) : f[n].event = es[n].event /\ f[n].cells = [g \in DOMAIN approved |-> B(n, g)]
  BY <1>3 DEF Row
<1>6. \A n \in 1 .. Len(es) : \A g \in DOMAIN approved : f[n].cells[g] = B(n, g)
  BY <1>5
<1> QED BY <1>3, <1>4, <1>5, <1>6 DEF B

\* t is s without its first off elements, and without none if n suffice.
Leaves(t, s, n, off) ==
    /\ off \in 0 .. Len(s) /\ Len(t) = Len(s) - off /\ (Len(s) <= n => off = 0)
    /\ \A i \in 1 .. Len(s) - off : t[i] = s[off + i]

(* The latest of a sequence.                                                *)
LEMMA LatestIs ==
  ASSUME NEW S, NEW s \in Seq(S), NEW n \in Nat
  PROVE  \E off : Leaves(Latest(s, n), s, n, off)
<1>1. PICK off : off = IF Len(s) > n THEN Len(s) - n ELSE 0
  OBVIOUS
<1>2. off \in 0 .. Len(s) /\ Len(s) \in Nat /\ (Len(s) <= n => off = 0)
  BY <1>1
<1>3. Latest(s, n) = SubSeq(s, off + 1, Len(s))
  <2>1. (IF Len(s) > n THEN Len(s) - n + 1 ELSE 1) = off + 1
    BY <1>1
  <2> QED BY <2>1 DEF Latest
<1>4. PICK t : t = SubSeq(s, off + 1, Len(s))
  OBVIOUS
<1>5. t \in Seq(S) /\ Len(t) = Len(s) - off /\ \A i \in 1 .. Len(s) - off : t[i] = s[off + i]
  <2>1. off + 1 \in 1 .. Len(s) + 1 /\ Len(s) \in off .. Len(s) /\ Len(s) - (off + 1) + 1 = Len(s) - off
        /\ \A i \in 1 .. Len(s) - off : (off + 1) + i - 1 = off + i
    BY <1>2
  <2>2. PICK m : m = off + 1
    OBVIOUS
  <2>3. m \in 1 .. Len(s) + 1 /\ Len(s) \in m - 1 .. Len(s) /\ Len(s) - m + 1 = Len(s) - off /\ t = SubSeq(s, m, Len(s))
    BY <1>2, <1>4, <2>1, <2>2
  <2>4. t \in Seq(S) /\ Len(t) = Len(s) - m + 1 /\ \A i \in 1 .. Len(s) - m + 1 : t[i] = s[m + i - 1]
    BY <2>3, SubSeqProperties
  <2> QED BY <2>1, <2>2, <2>3, <2>4
<1> QED BY <1>2, <1>3, <1>4, <1>5 DEF Leaves

\* f has a row for each of the reports es but the first off ones.
RowsOf(f, es, k, off) ==
    /\ off \in 0 .. Len(es) /\ Len(es) \in Nat /\ (Len(es) <= k => off = 0)
    /\ DOMAIN f = 1 .. Len(es) - off /\ Len(f) = Len(es) - off
    /\ \A n \in 1 .. Len(es) - off :
          /\ f[n].event = es[off + n].event
          /\ \A g \in DOMAIN approved :
                f[n].cells[g] = Cell(es[off + n], g, IF n = 1 THEN NoCell ELSE f[n - 1].cells[g])

(* The rows of the heatmap are those of the latest entries.                 *)
LEMMA HeatmapOf ==
  ASSUME GoalsInv, NEW rs, Told(rs), NEW k \in Nat
  PROVE  \E off : RowsOf(Heatmap(rs, k), Entries(rs), k, off)
<1>0. PICK es, f : es = Entries(rs) /\ f = Heatmap(rs, k)
  OBVIOUS
<1>1. es \in Seq(rs) /\ Len(es) \in Nat
  BY <1>0, EntriesArrange, EntryIs
<1>2. PICK ls : ls = Latest(es, k)
  OBVIOUS
<1>3. PICK off : Leaves(ls, es, k, off)
  BY <1>1, <1>2, LatestIs
<1>4. Len(ls) \in Nat
  BY <1>1, <1>3 DEF Leaves
<1>5. HeatRows(f, ls)
  BY <1>0, <1>2, <1>4, HeatmapIs
<1>6. /\ DOMAIN f = 1 .. Len(ls) /\ Len(f) = Len(ls)
      /\ \A n \in 1 .. Len(ls) :
            /\ f[n].event = ls[n].event
            /\ \A g \in DOMAIN approved :
                  f[n].cells[g] = Cell(ls[n], g, IF n = 1 THEN NoCell ELSE f[n - 1].cells[g])
  BY <1>4, <1>5, RowIs
<1>7. Len(ls) = Len(es) - off /\ \A n \in 1 .. Len(es) - off : ls[n] = es[off + n]
  BY <1>3 DEF Leaves
<1>8. \A n \in 1 .. Len(es) - off :
          /\ f[n].event = es[off + n].event
          /\ \A g \in DOMAIN approved :
                f[n].cells[g] = Cell(es[off + n], g, IF n = 1 THEN NoCell ELSE f[n - 1].cells[g])
  <2> SUFFICES ASSUME NEW n \in 1 .. Len(es) - off
      PROVE  /\ f[n].event = es[off + n].event
             /\ \A g \in DOMAIN approved :
                   f[n].cells[g] = Cell(es[off + n], g, IF n = 1 THEN NoCell ELSE f[n - 1].cells[g])
    OBVIOUS
  <2>1. n \in 1 .. Len(ls) /\ ls[n] = es[off + n]
    BY <1>7
  <2>2. f[n].event = es[off + n].event
    BY <1>6, <2>1
  <2>3. ASSUME NEW g \in DOMAIN approved
        PROVE  f[n].cells[g] = Cell(es[off + n], g, IF n = 1 THEN NoCell ELSE f[n - 1].cells[g])
    <3>1. PICK prior : prior = IF n = 1 THEN NoCell ELSE f[n - 1].cells[g]
      OBVIOUS
    <3>2. f[n].cells[g] = Cell(ls[n], g, prior)
      BY <1>6, <2>1, <3>1
    <3>3. f[n].cells[g] = Cell(es[off + n], g, prior)
      BY <2>1, <3>2, Zenon
    <3> QED BY <3>1, <3>3, Zenon
  <2> QED BY <2>2, <2>3
<1>9. off \in 0 .. Len(es) /\ (Len(es) <= k => off = 0)
  BY <1>3 DEF Leaves
<1>10. DOMAIN f = 1 .. Len(es) - off /\ Len(f) = Len(es) - off
  BY <1>6, <1>7
<1>11. RowsOf(f, es, k, off)
  BY <1>1, <1>8, <1>9, <1>10, Zenon DEF RowsOf
<1> QED BY <1>0, <1>11

(* Two reports on their own, the one before the other.                      *)
LEMMA PairOf ==
  ASSUME NEW rs, Told(rs), NEW a \in rs, NEW b \in rs, Earlier(a, b)
  PROVE  Told({a, b}) /\ Len(Entries({a, b})) = 2 /\ Entries({a, b})[1] = a /\ Entries({a, b})[2] = b
<1>1. PICK ps : ps = Entries({a, b})
  OBVIOUS
<1>2. a # b
  BY EarlierIsOrder
<1>3. IsFiniteSet({a, b}) /\ Cardinality({a, b}) = 2
  <2>1. {a, b} = {a} \cup {b} /\ b \notin {a}
    BY <1>2
  <2>2. IsFiniteSet({a}) /\ Cardinality({a}) = 1
    BY FS_Singleton
  <2>3. IsFiniteSet({a} \cup {b}) /\ Cardinality({a} \cup {b}) = 1 + 1
    BY <2>1, <2>2, FS_AddElement
  <2> QED BY <2>1, <2>3
<1>4. Told({a, b})
  BY <1>3 DEF Told
<1>5. Arranges(ps, {a, b})
  BY <1>1, <1>4, EntriesArrange
<1>6. Len(ps) = 2 /\ ps[1] \in {a, b} /\ ps[2] \in {a, b} /\ Earlier(ps[1], ps[2])
  <2>1. Len(ps) = 2
    BY <1>3, <1>4, <1>5, EntryIs
  <2>2. 1 \in 1 .. Len(ps) /\ 2 \in 1 .. Len(ps) /\ 1 < 2
    BY <2>1
  <2> QED BY <1>4, <1>5, <2>1, <2>2, EntryIs
<1>7. ~Earlier(a, a) /\ ~Earlier(b, b) /\ ~Earlier(b, a)
  BY EarlierIsOrder
<1>8. ps[1] = a /\ ps[2] = b
  BY <1>6, <1>7
<1> QED BY <1>1, <1>4, <1>6, <1>8

(* One report on its own.                                                   *)
LEMMA SingleOf ==
  ASSUME NEW rs, Told(rs), NEW a \in rs
  PROVE  Told({a}) /\ Len(Entries({a})) = 1 /\ Entries({a})[1] = a
<1>1. PICK ps : ps = Entries({a})
  OBVIOUS
<1>2. IsFiniteSet({a}) /\ Cardinality({a}) = 1
  BY FS_Singleton
<1>3. Told({a})
  BY <1>2 DEF Told
<1>4. Arranges(ps, {a})
  BY <1>1, <1>3, EntriesArrange
<1>5. Len(ps) = 1
  BY <1>2, <1>3, <1>4, EntryIs
<1>6. 1 \in 1 .. Len(ps)
  BY <1>5
<1>7. ps[1] \in {a}
  BY <1>3, <1>4, <1>6, EntryIs
<1> QED BY <1>1, <1>3, <1>5, <1>7

(* A finding is about its report and the one before.                        *)
LEMMA FindingIs ==
  ASSUME GoalsInv, Told(reports), NEW es, es = Entries(reports), NEW at \in 1 .. Len(es), NEW g \in DOMAIN approved
  PROVE  Finding(es[at].event, g) = Cell(es[at], g, IF at = 1 THEN NoCell ELSE Cell(es[at - 1], g, NoCell))
<1>1. /\ DOMAIN es = 1 .. Len(es) /\ Len(es) \in Nat
      /\ \A i, j \in 1 .. Len(es) : es[i] \in reports /\ (Earlier(es[i], es[j]) <=> i < j)
      /\ \A i, j \in 1 .. Len(es) : es[i].event = es[j].event => i = j
  BY EntriesArrange, EntryIs, SMTT(40)
<1>2. at = CHOOSE i \in DOMAIN es : es[i].event = es[at].event
  BY <1>1
<1> DEFINE P == {es[i] : i \in {j \in DOMAIN es : j = at \/ j = at - 1}}
<1>3. PICK rows : rows = Heatmap(P, 2)
  OBVIOUS
<1>4. Finding(es[at].event, g) = rows[Len(rows)].cells[g]
  BY <1>2, <1>3, Zenon DEF Finding
<1>5. CASE at = 1
  <2>1. P = {es[1]} /\ es[1] \in reports
    BY <1>1, <1>5
  <2> HIDE DEF P
  <2>2. Told(P) /\ Len(Entries(P)) = 1 /\ Entries(P)[1] = es[1]
    BY <2>1, SingleOf
  <2>3. PICK ps : ps = Entries(P)
    OBVIOUS
  <2>4. PICK off : RowsOf(rows, ps, 2, off)
    BY <1>3, <2>2, <2>3, HeatmapOf
  <2>5. off = 0 /\ Len(ps) = 1 /\ ps[1] = es[1] /\ 1 \in 1 .. Len(ps) - off /\ off + 1 = 1 /\ Len(rows) = 1
    <3>1. Len(ps) = 1 /\ ps[1] = es[1]
      BY <2>2, <2>3
    <3>2. off = 0 /\ Len(rows) = Len(ps) - off
      BY <2>4, <3>1 DEF RowsOf
    <3> QED BY <3>1, <3>2
  <2>6. rows[1].cells[g] = Cell(es[1], g, NoCell)
    BY <2>4, <2>5 DEF RowsOf
  <2> QED BY <1>4, <1>5, <2>5, <2>6
<1>6. CASE at # 1
  <2>1. at - 1 \in 1 .. Len(es) /\ at - 1 < at
    BY <1>1, <1>6
  <2>2. P = {es[at - 1], es[at]}
    BY <1>1, <2>1
  <2> HIDE DEF P
  <2>3. es[at - 1] \in reports /\ es[at] \in reports /\ Earlier(es[at - 1], es[at])
    BY <1>1, <2>1
  <2>4. Told(P) /\ Len(Entries(P)) = 2 /\ Entries(P)[1] = es[at - 1] /\ Entries(P)[2] = es[at]
    <3>1. PICK a, b : a = es[at - 1] /\ b = es[at]
      OBVIOUS
    <3>2. a \in reports /\ b \in reports /\ Earlier(a, b) /\ P = {a, b}
      BY <2>2, <2>3, <3>1
    <3>3. Told({a, b}) /\ Len(Entries({a, b})) = 2 /\ Entries({a, b})[1] = a /\ Entries({a, b})[2] = b
      BY <3>2, PairOf
    <3> QED BY <3>1, <3>2, <3>3
  <2>5. PICK ps : ps = Entries(P)
    OBVIOUS
  <2>6. PICK off : RowsOf(rows, ps, 2, off)
    BY <1>3, <2>4, <2>5, HeatmapOf
  <2>7. /\ off = 0 /\ Len(ps) = 2 /\ ps[1] = es[at - 1] /\ ps[2] = es[at] /\ Len(rows) = 2
        /\ 1 \in 1 .. Len(ps) - off /\ 2 \in 1 .. Len(ps) - off /\ off + 1 = 1 /\ off + 2 = 2
    <3>1. Len(ps) = 2 /\ ps[1] = es[at - 1] /\ ps[2] = es[at]
      BY <2>4, <2>5
    <3>2. off = 0 /\ Len(rows) = Len(ps) - off
      BY <2>6, <3>1 DEF RowsOf
    <3> QED BY <3>1, <3>2
  <2>8. rows[1].cells[g] = Cell(es[at - 1], g, NoCell)
    BY <2>6, <2>7 DEF RowsOf
  <2>9. rows[2].cells[g] = Cell(es[at], g, rows[1].cells[g])
    BY <2>6, <2>7 DEF RowsOf
  <2> QED BY <1>4, <1>6, <2>7, <2>8, <2>9
<1> QED BY <1>5, <1>6

(* The heatmap and the finding tell the same of a report.                   *)
LEMMA FindingsAgree == GoalsInv /\ Told(reports) => FindingAgrees
<1> SUFFICES ASSUME GoalsInv, Told(reports) PROVE FindingAgrees
  OBVIOUS
<1>1. PICK rows : rows = Heatmap(reports, Window)
  OBVIOUS
<1>2. SUFFICES ASSUME NEW i \in DOMAIN rows, NEW g \in DOMAIN approved, i > 1 \/ Cardinality(reports) <= Window
      PROVE  Finding(rows[i].event, g) = rows[i].cells[g]
  BY <1>1, Zenon DEF FindingAgrees
<1>3. PICK es : es = Entries(reports)
  OBVIOUS
<1>4. Window \in Nat
  BY HistoryAssumption
<1>a. PICK off : RowsOf(rows, es, Window, off)
  BY <1>1, <1>3, <1>4, HeatmapOf
<1>5. /\ off \in 0 .. Len(es) /\ Len(es) \in Nat /\ (Len(es) <= Window => off = 0)
            /\ DOMAIN rows = 1 .. Len(es) - off
            /\ \A n \in 1 .. Len(es) - off :
                  /\ rows[n].event = es[off + n].event
                  /\ \A h \in DOMAIN approved :
                        rows[n].cells[h] = Cell(es[off + n], h, IF n = 1 THEN NoCell ELSE rows[n - 1].cells[h])
  BY <1>a DEF RowsOf
<1>6. Len(es) = Cardinality(reports)
  BY <1>3, EntriesArrange, EntryIs
<1>7. PICK at : at = off + i
  OBVIOUS
<1>8. at \in 1 .. Len(es) /\ i \in 1 .. Len(es) - off /\ i \in Nat
  BY <1>5, <1>7
<1>9. Finding(es[at].event, g) = Cell(es[at], g, IF at = 1 THEN NoCell ELSE Cell(es[at - 1], g, NoCell))
  BY <1>3, <1>8, FindingIs
<1>10. rows[i].event = es[at].event /\ rows[i].cells[g] = Cell(es[at], g, IF i = 1 THEN NoCell ELSE rows[i - 1].cells[g])
  BY <1>5, <1>7, <1>8
<1>11. CASE i = 1
  <2>1. at = 1
    BY <1>2, <1>5, <1>6, <1>7, <1>11
  <2> QED BY <1>9, <1>10, <1>11, <2>1
<1>12. CASE i # 1
  <2>1. i - 1 \in 1 .. Len(es) - off /\ at # 1 /\ off + (i - 1) = at - 1
    BY <1>5, <1>7, <1>8, <1>12
  <2>2. PICK x : rows[i - 1].cells[g] = Cell(es[at - 1], g, x)
    <3>1. rows[i - 1].cells[g] = Cell(es[off + (i - 1)], g, IF i - 1 = 1 THEN NoCell ELSE rows[(i - 1) - 1].cells[g])
      BY <1>5, <2>1
    <3> QED BY <2>1, <3>1
  <2>3. Cell(es[at], g, Cell(es[at - 1], g, x)) = Cell(es[at], g, Cell(es[at - 1], g, NoCell))
    BY CellAgain
  <2> QED BY <1>9, <1>10, <1>12, <2>1, <2>2, <2>3
<1> QED BY <1>11, <1>12

(* A change is told between two reports that could assess the goal.         *)
LEMMA ChangesAreTrue == GoalsInv /\ Told(reports) => ChangesTrue
<1> SUFFICES ASSUME GoalsInv, Told(reports) PROVE ChangesTrue
  OBVIOUS
<1>1. PICK rows : rows = Heatmap(reports, Window)
  OBVIOUS
<1>2. SUFFICES ASSUME NEW i \in DOMAIN rows, NEW g \in DOMAIN approved,
                      rows[i].cells[g].change \in {"improved", "declined", "unchanged"}
      PROVE  i > 1 /\ rows[i - 1].cells[g].verdict # "not_applicable"
  BY <1>1, Zenon DEF ChangesTrue
<1>3. PICK es : es = Entries(reports)
  OBVIOUS
<1>4. Window \in Nat
  BY HistoryAssumption
<1>a. PICK off : RowsOf(rows, es, Window, off)
  BY <1>1, <1>3, <1>4, HeatmapOf
<1>5. /\ off \in 0 .. Len(es) /\ Len(es) \in Nat /\ DOMAIN rows = 1 .. Len(es) - off
            /\ \A n \in 1 .. Len(es) - off :
                  \A h \in DOMAIN approved :
                        rows[n].cells[h] = Cell(es[off + n], h, IF n = 1 THEN NoCell ELSE rows[n - 1].cells[h])
  BY <1>a DEF RowsOf
<1>6. PICK p : p = IF i = 1 THEN NoCell ELSE rows[i - 1].cells[g]
  OBVIOUS
<1>7. rows[i].cells[g] = Cell(es[off + i], g, p)
  BY <1>5, <1>6
<1>8. Change(p.verdict, CellVerdict(es[off + i], g)) \in {"improved", "declined", "unchanged"}
  BY <1>2, <1>7, CellIs
<1>9. CategoryRank(p.verdict) # 5
  BY <1>8 DEF Change
<1>10. CategoryRank("none") = 5 /\ CategoryRank("not_applicable") = 5
  BY DEF CategoryRank
<1>11. NoCell.verdict = "none"
  BY DEF NoCell
<1>12. i # 1 /\ p.verdict # "not_applicable"
  BY <1>6, <1>9, <1>10, <1>11
<1>13. i > 1
  BY <1>5, <1>12
<1> QED BY <1>6, <1>12, <1>13

HistoryInv == PageInv /\ GoalsInv

(* Every step of the history keeps its invariant.                           *)
LEMMA HistoryStep == HistoryInv /\ [HistoryNext]_historyVars => HistoryInv'
<1> SUFFICES ASSUME PageInv, GoalsInv, [HistoryNext]_historyVars PROVE PageInv' /\ GoalsInv'
  BY DEF HistoryInv
<1>1. PageInv'
  <2>1. CASE ChangeGoals \/ UNCHANGED historyVars
    BY <2>1 DEF ChangeGoals, historyVars, PageInv, Told, Once
  <2> QED BY <2>1, OpenHistoryStep, OlderPageStep, RecordRunStep, DeleteRunStep DEF HistoryNext
<1>2. GoalsInv'
  <2>1. CASE ChangeGoals
    BY <2>1, ChangeGoalsStep
  <2>2. CASE UNCHANGED <<versions, approved>>
    BY <2>2 DEF GoalsInv
  <2>3. ChangeGoals \/ UNCHANGED <<versions, approved>>
    BY DEF HistoryNext, OpenHistory, OlderPage, RecordRun, DeleteRun, historyVars
  <2> QED BY <2>1, <2>2, <2>3
<1> QED BY <1>1, <1>2

(* The invariant gives HistorySound.                                        *)
LEMMA HistoryInvSound == HistoryInv => HistorySound
<1> SUFFICES ASSUME PageInv, GoalsInv PROVE HistorySound
  BY DEF HistoryInv
<1>1. FindingAgrees /\ ChangesTrue
  BY FindingsAgree, ChangesAreTrue DEF PageInv
<1>2. pageState = "all" => (atOpen \cap {r.event : r \in reports}) \subseteq ToSet(shown)
  BY DEF PageInv
<1>3. Cardinality(ToSet(shown)) = Len(shown)
  <2>1. shown \in Seq(Nat) /\ Once(shown) /\ DOMAIN shown = 1 .. Len(shown) /\ Len(shown) \in Nat
    BY DEF PageInv
  <2>2. IsFiniteSet(1 .. Len(shown)) /\ Cardinality(1 .. Len(shown)) = Len(shown)
    BY <2>1, FS_Interval, SMTT(40)
  <2>3. shown \in Surjection(1 .. Len(shown), ToSet(shown))
    BY <2>1 DEF Surjection, ToSet
  <2>4. shown \in Injection(1 .. Len(shown), ToSet(shown))
    BY <2>1, <2>3 DEF Surjection, Injection, IsInjective, Once
  <2> QED BY <2>2, <2>3, <2>4, FS_Surjection
<1> QED BY <1>1, <1>2, <1>3 DEF HistorySound, PagesWhole

-----------------------------------------------------------------------------
(* The context documents.                                                   *)

DocTypes == {"pdf", "pptx", "docx", "md"}
Names == {"deck", "note", "photo"}
UnitSet == [number : Nat, chars : Nat]
PartLists == {<<Part(1, 2)>>, <<Part(1, 3)>>, <<Part(2, 2), Part(1, 1), Part(3, 0)>>, <<Part(1, 1)>>}
RefSet == [path : Names, type : DocTypes, size : Nat, hash : Contents, units : Nat]

(* A content has a size, is no link and has one of the part lists.          *)
LEMMA ContentIs ==
  ASSUME NEW c \in Contents
  PROVE  c.size \in Nat \ {0} /\ c.link = FALSE /\ c.parts \in PartLists
<1>1. c.size \in Nat \ {0}
  BY DEF Contents, Bytes
<1>2. c.link = FALSE
  BY DEF Contents, Bytes
<1>3. c.parts \in PartLists
  <2>1. \E n, r : \E p \in PartLists : c = Bytes(n, r, p)
    BY DEF Contents, PartLists
  <2>2. \A n, r, p : Bytes(n, r, p).parts = p
    BY DEF Bytes
  <2> QED BY <2>1, <2>2
<1> QED BY <1>1, <1>2, <1>3

(* A part is a numbered unit.                                               *)
LEMMA PartIs == \A n, m \in Nat : Part(n, m) \in UnitSet /\ Part(n, m).number = n /\ Part(n, m).chars = m
BY DEF Part, UnitSet

(* A single part is in order.                                               *)
LEMMA SingleSorted ==
  ASSUME NEW q \in UnitSet
  PROVE  \E s \in [DOMAIN <<q>> -> ToSet(<<q>>)] : ToSet(s) = ToSet(<<q>>) /\ Increasing(s)
<1> DEFINE s == <<q>>
<1>1. s \in Seq({q}) /\ DOMAIN s = {1} /\ s[1] = q
  OBVIOUS
<1>2. ToSet(s) = {q}
  BY <1>1 DEF ToSet
<1>3. s \in [DOMAIN s -> ToSet(s)]
  <2>1. s = [i \in DOMAIN s |-> s[i]]
    BY <1>1
  <2> HIDE DEF s
  <2> QED BY <1>1, <1>2, <2>1
<1>4. Increasing(s)
  <2> HIDE DEF s
  <2> QED BY <1>1 DEF Increasing
<1> QED BY <1>3, <1>4

(* The slides that are out of order in the archive can be put in order.     *)
LEMMA DeckSorted ==
  \E s \in [DOMAIN <<Part(2, 2), Part(1, 1), Part(3, 0)>> -> ToSet(<<Part(2, 2), Part(1, 1), Part(3, 0)>>)] :
     ToSet(s) = ToSet(<<Part(2, 2), Part(1, 1), Part(3, 0)>>) /\ Increasing(s)
<1> DEFINE a == Part(1, 1)
           b == Part(2, 2)
           c == Part(3, 0)
           p == <<b, a, c>>
           s == <<a, b, c>>
<1>0. a.number = 1 /\ b.number = 2 /\ c.number = 3
  BY DEF Part
<1> HIDE DEF a, b, c
<1>1. DOMAIN s = {1, 2, 3} /\ s[1] = a /\ s[2] = b /\ s[3] = c
  OBVIOUS
<1>2. DOMAIN p = {1, 2, 3} /\ p[1] = b /\ p[2] = a /\ p[3] = c
  OBVIOUS
<1>3. ToSet(s) = {a, b, c}
  <2> HIDE DEF s
  <2> QED BY <1>1 DEF ToSet
<1>4. ToSet(p) = {a, b, c}
  <2> HIDE DEF p
  <2> QED BY <1>2 DEF ToSet
<1>5. s \in [DOMAIN p -> ToSet(p)]
  <2>1. s = [i \in DOMAIN s |-> s[i]]
    OBVIOUS
  <2> HIDE DEF s, p
  <2> QED BY <1>1, <1>2, <1>4, <2>1
<1>6. Increasing(s)
  <2> HIDE DEF s
  <2> QED BY <1>0, <1>1 DEF Increasing
<1> QED BY <1>3, <1>4, <1>5, <1>6 DEF a, b, c

(* Every part list can be put in order.                                     *)
LEMMA PartListIs ==
  ASSUME NEW p \in PartLists
  PROVE  /\ p \in Seq(UnitSet)
         /\ \E s \in [DOMAIN p -> ToSet(p)] : ToSet(s) = ToSet(p) /\ Increasing(s)
<1>0. /\ Part(1, 1) \in UnitSet /\ Part(1, 2) \in UnitSet /\ Part(1, 3) \in UnitSet
      /\ Part(2, 2) \in UnitSet /\ Part(3, 0) \in UnitSet
  BY PartIs
<1>1. CASE \E q \in UnitSet : p = <<q>>
  <2>1. PICK q \in UnitSet : p = <<q>>
    BY <1>1
  <2>2. <<q>> \in Seq(UnitSet)
    OBVIOUS
  <2> QED BY <2>1, <2>2, SingleSorted
<1>2. CASE p = <<Part(2, 2), Part(1, 1), Part(3, 0)>>
  <2>1. p \in Seq(UnitSet)
    BY <1>0, <1>2
  <2> QED BY <1>2, <2>1, DeckSorted
<1> QED BY <1>0, <1>1, <1>2 DEF PartLists

(* Sorted puts a part list in order.                                        *)
LEMMA SortedIs ==
  ASSUME NEW p \in PartLists
  PROVE  Sorted(p) \in Seq(UnitSet) /\ Increasing(Sorted(p))
<1>1. Sorted(p) \in [DOMAIN p -> ToSet(p)] /\ Increasing(Sorted(p))
  BY PartListIs DEF Sorted
<1>2. p \in Seq(UnitSet) /\ Len(p) \in Nat /\ DOMAIN p = 1 .. Len(p)
  BY PartListIs
<1>3. ToSet(p) \subseteq UnitSet
  BY <1>2 DEF ToSet
<1>4. \A i \in 1 .. Len(p) : Sorted(p)[i] \in UnitSet
  BY <1>1, <1>2, <1>3
<1>5. Sorted(p) = [i \in 1 .. Len(p) |-> Sorted(p)[i]]
  BY <1>1, <1>2
<1>6. [i \in 1 .. Len(p) |-> Sorted(p)[i]] \in Seq(UnitSet)
  BY <1>2, <1>4, IsASeq
<1> QED BY <1>1, <1>5, <1>6

(* The characters of units are natural numbers.                             *)
LEMMA CharsIs ==
  ASSUME NEW u \in Seq(UnitSet)
  PROVE  UnitChars(u) \in Seq(Nat) /\ Len(UnitChars(u)) = Len(u) /\ Letters(u) \in Nat
<1>1. Len(u) \in Nat /\ DOMAIN u = 1 .. Len(u)
  OBVIOUS
<1>2. \A i \in 1 .. Len(u) : u[i].chars \in Nat
  <2>1. \A i \in 1 .. Len(u) : u[i] \in UnitSet
    BY <1>1
  <2> QED BY <2>1 DEF UnitSet
<1>3. UnitChars(u) = [i \in 1 .. Len(u) |-> u[i].chars]
  BY <1>1 DEF UnitChars
<1>4. UnitChars(u) \in Seq(Nat)
  BY <1>1, <1>2, <1>3, IsASeq
<1>5. Len(UnitChars(u)) = Len(u)
  BY <1>1, <1>3, <1>4
<1> QED BY <1>4, <1>5, TotalNat DEF Letters

(* The units that any extractor finds are in order.                         *)
LEMMA UnitsIs ==
  ASSUME NEW type \in DocTypes, NEW c \in Contents
  PROVE  Units(type, c) \in Seq(UnitSet) /\ Increasing(Units(type, c))
<1>0. c.parts \in PartLists
  BY ContentIs
<1>1. CASE type \in {"pdf", "pptx"}
  <2>1. Units(type, c) = Sorted(c.parts)
    BY <1>1 DEF Units
  <2> QED BY <1>0, <2>1, SortedIs
<1>2. CASE type = "docx"
  <2> DEFINE parts == c.parts
             ss == [i \in DOMAIN parts |-> IF parts[i].chars > 0 THEN <<parts[i]>> ELSE <<>>]
             some == FlattenSeq(ss)
  <2>1. Units(type, c) = [i \in DOMAIN some |-> Part(i, some[i].chars)]
    BY <1>2, Zenon DEF Units
  <2>2. parts \in Seq(UnitSet)
    BY <1>0, PartListIs
  <2>3. ss \in Seq(Seq(UnitSet))
    <3> HIDE DEF parts
    <3>1. Len(parts) \in Nat /\ DOMAIN parts = 1 .. Len(parts)
      BY <2>2
    <3>2. \A i \in 1 .. Len(parts) : (IF parts[i].chars > 0 THEN <<parts[i]>> ELSE <<>>) \in Seq(UnitSet)
      <4> TAKE i \in 1 .. Len(parts)
      <4>1. parts[i] \in UnitSet
        BY <2>2, <3>1
      <4>2. <<parts[i]>> \in Seq(UnitSet) /\ <<>> \in Seq(UnitSet)
        BY <4>1, EmptySeq
      <4> QED BY <4>2
    <3> QED BY <3>1, <3>2, IsASeq
  <2> HIDE DEF ss
  <2>4. some \in Seq(UnitSet)
    BY <2>3, FlattenTyped
  <2> HIDE DEF some
  <2>5. Len(some) \in Nat /\ DOMAIN some = 1 .. Len(some) /\ \A i \in 1 .. Len(some) : some[i] \in UnitSet
    BY <2>4
  <2>6. \A i \in 1 .. Len(some) : Part(i, some[i].chars) \in UnitSet /\ Part(i, some[i].chars).number = i
    <3>1. \A i \in 1 .. Len(some) : some[i].chars \in Nat /\ i \in Nat
      BY <2>5 DEF UnitSet
    <3> QED BY <3>1, PartIs
  <2> DEFINE u == [i \in 1 .. Len(some) |-> Part(i, some[i].chars)]
  <2>7. u \in Seq(UnitSet)
    BY <2>5, <2>6, IsASeq
  <2>8. Increasing(u)
    <3>1. DOMAIN u = 1 .. Len(some) /\ \A i \in 1 .. Len(some) : u[i].number = i
      BY <2>6
    <3> HIDE DEF u
    <3> QED BY <3>1 DEF Increasing
  <2> QED BY <2>1, <2>5, <2>7, <2>8
<1>3. CASE type = "md"
  <2> DEFINE n == Total(UnitChars(c.parts))
  <2>1. Units(type, c) = <<Part(1, n)>>
    BY <1>3 DEF Units
  <2>2. n \in Nat
    BY <1>0, PartListIs, CharsIs, TotalNat
  <2> HIDE DEF n
  <2>3. Part(1, n) \in UnitSet
    BY <2>2, PartIs
  <2> DEFINE q == Part(1, n)
  <2> HIDE DEF q
  <2>4. <<q>> \in Seq(UnitSet) /\ DOMAIN <<q>> = {1}
    BY <2>3 DEF q
  <2>5. Increasing(<<q>>)
    BY <2>4 DEF Increasing
  <2> QED BY <2>1, <2>4, <2>5 DEF q
<1> QED BY <1>1, <1>2, <1>3 DEF DocTypes

(* A file is read as it is on the disk.                                     *)
LEMMA ReadIs ==
  ASSUME disk \in [Names -> Contents \cup {Gone, Link}], NEW f \in Names
  PROVE  /\ read(f) \in Contents \cup {Gone}
         /\ disk[f].size > 0 /\ ~disk[f].link => disk[f] \in Contents /\ read(f) = disk[f]
         /\ disk[f] \in Contents => read(f) = disk[f] /\ read(f) # Gone /\ IsFile(f)
<1>1. disk[f] \in Contents \cup {Gone, Link}
  OBVIOUS
<1>2. CASE disk[f] \in Contents
  <2>1. \E n, r, p : disk[f] = Bytes(n, r, p)
    BY <1>2 DEF Contents
  <2>2. read(f) = disk[f]
    <3>1. PICK n, r, p : disk[f] = Bytes(n, r, p)
      BY <2>1
    <3>2. disk[f].size = n /\ disk[f].readable = r /\ disk[f].parts = p
      BY <3>1 DEF Bytes
    <3> QED BY <3>1, <3>2 DEF read
  <2>3. disk[f].size \in Nat \ {0} /\ disk[f].link = FALSE
    BY <1>2, ContentIs
  <2>4. Gone.size = 0
    BY DEF Gone, Bytes
  <2> QED BY <1>2, <2>2, <2>3, <2>4 DEF IsFile
<1>3. CASE disk[f] = Gone
  <2>1. read(f) = Gone
    <3>1. Gone.size = 0 /\ Gone.readable = FALSE /\ Gone.parts = <<>>
      BY DEF Gone, Bytes
    <3> QED BY <1>3, <3>1 DEF read, Gone
  <2>2. Gone.size = 0
    BY DEF Gone, Bytes
  <2>3. Gone \notin Contents
    BY <2>2, ContentIs
  <2> QED BY <1>3, <2>1, <2>2, <2>3
<1>4. CASE disk[f] = Link
  <2>1. read(f) = Bytes(1, TRUE, <<Part(1, 2)>>)
    <3>1. Link.size = 1 /\ Link.readable = TRUE /\ Link.parts = <<Part(1, 2)>>
      BY DEF Link
    <3> QED BY <1>4, <3>1 DEF read
  <2>2. Bytes(1, TRUE, <<Part(1, 2)>>) \in Contents
    BY DEF Contents
  <2>3. Link.link = TRUE
    BY DEF Link, Bytes
  <2>4. Link \notin Contents
    BY <2>3, ContentIs
  <2> QED BY <1>4, <2>1, <2>2, <2>3, <2>4
<1> QED BY <1>1, <1>2, <1>3, <1>4

LettersOf(r) == Letters(Units(r.type, r.hash))
RefSizes(refs, n) == [k \in 1 .. n |-> refs[k].size]
RefLetters(refs, n) == [k \in 1 .. n |-> LettersOf(refs[k])]
Pieces(refs, n) == [k \in 1 .. n |-> SectionsOf(k, Units(refs[k].type, refs[k].hash))]
SectionSet == Nat \X Nat \X Nat
SectionChars(s) == [i \in DOMAIN s |-> s[i][3]]

(* The totals of the first n numbers.                                       *)
LEMMA FirstTotals ==
  ASSUME NEW a \in Seq(Nat), NEW n \in 0 .. Len(a)
  PROVE  /\ [k \in 1 .. n |-> a[k]] \in Seq(Nat)
         /\ Total([k \in 1 .. n |-> a[k]]) \in Nat
         /\ Total([k \in 1 .. n |-> a[k]]) <= Total(a)
         /\ n < Len(a) => Total([k \in 1 .. n + 1 |-> a[k]]) = Total([k \in 1 .. n |-> a[k]]) + a[n + 1]
<1> DEFINE p == [k \in 1 .. n |-> a[k]]
<1>1. p \in Seq(Nat)
  <2>1. n \in Nat /\ \A k \in 1 .. n : a[k] \in Nat
    OBVIOUS
  <2> QED BY <2>1, IsASeq
<1>2. Len(p) = n /\ \A k \in 1 .. n : p[k] = a[k]
  BY <1>1
<1>3. Total(p) \in Nat
  BY <1>1, TotalNat
<1>4. Total(p) <= Total(a)
  <2> HIDE DEF p
  <2> QED BY <1>1, <1>2, TotalMore
<1>5. ASSUME n < Len(a) PROVE Total([k \in 1 .. n + 1 |-> a[k]]) = Total(p) + a[n + 1]
  <2> DEFINE q == [k \in 1 .. n + 1 |-> a[k]]
  <2>1. q \in Seq(Nat)
    <3>1. n + 1 \in Nat /\ \A k \in 1 .. n + 1 : a[k] \in Nat
      BY <1>5
    <3> QED BY <3>1, IsASeq
  <2>2. Len(q) = n + 1 /\ \A k \in 1 .. n + 1 : q[k] = a[k]
    BY <2>1
  <2>3. a[n + 1] \in Nat
    BY <1>5
  <2>4. q = Append(p, a[n + 1])
    <3> HIDE DEF p, q
    <3>1. Append(p, a[n + 1]) \in Seq(Nat) /\ Len(Append(p, a[n + 1])) = n + 1
      BY <1>1, <1>2, <2>3
    <3>2. \A k \in 1 .. n + 1 : Append(p, a[n + 1])[k] = q[k]
      BY <1>1, <1>2, <2>2, <2>3
    <3> QED BY <2>1, <2>2, <3>1, <3>2, SeqEqual
  <2> HIDE DEF p, q
  <2> QED BY <1>1, <2>3, <2>4, TotalAppend DEF q
<1> QED BY <1>1, <1>3, <1>4, <1>5

(* What a reference holds.                                                  *)
LEMMA RefIs ==
  ASSUME NEW r \in RefSet
  PROVE  /\ r.size \in Nat /\ r.path \in Names /\ r.type \in DocTypes /\ r.hash \in Contents
         /\ LettersOf(r) \in Nat /\ Units(r.type, r.hash) \in Seq(UnitSet) /\ Increasing(Units(r.type, r.hash))
<1>1. r.size \in Nat /\ r.path \in Names /\ r.type \in DocTypes /\ r.hash \in Contents
  BY DEF RefSet
<1>2. Units(r.type, r.hash) \in Seq(UnitSet) /\ Increasing(Units(r.type, r.hash))
  BY <1>1, UnitsIs
<1>3. LettersOf(r) \in Nat
  BY <1>2, CharsIs DEF LettersOf
<1> QED BY <1>1, <1>2, <1>3

(* The sizes and the characters of the first n references.                  *)
LEMMA RefTotals ==
  ASSUME NEW refs \in Seq(RefSet), NEW n \in 0 .. Len(refs)
  PROVE  /\ Total(RefSizes(refs, n)) \in Nat
         /\ Total(RefSizes(refs, n)) <= Total(RefSizes(refs, Len(refs)))
         /\ n < Len(refs) => Total(RefSizes(refs, n + 1)) = Total(RefSizes(refs, n)) + refs[n + 1].size
         /\ Total(RefLetters(refs, n)) \in Nat
         /\ Total(RefLetters(refs, n)) <= Total(RefLetters(refs, Len(refs)))
         /\ n < Len(refs) => Total(RefLetters(refs, n + 1)) = Total(RefLetters(refs, n)) + LettersOf(refs[n + 1])
<1>0. Len(refs) \in Nat /\ \A k \in 1 .. Len(refs) : refs[k] \in RefSet
  OBVIOUS
<1> DEFINE a == RefSizes(refs, Len(refs))
           b == RefLetters(refs, Len(refs))
<1>1. \A k \in 1 .. Len(refs) : refs[k].size \in Nat /\ LettersOf(refs[k]) \in Nat
  BY <1>0, RefIs
<1>2. a \in Seq(Nat) /\ b \in Seq(Nat)
  BY <1>0, <1>1, IsASeq DEF RefSizes, RefLetters
<1>3. /\ Len(a) = Len(refs) /\ \A k \in 1 .. Len(refs) : a[k] = refs[k].size
      /\ Len(b) = Len(refs) /\ \A k \in 1 .. Len(refs) : b[k] = LettersOf(refs[k])
  BY <1>0, <1>2 DEF RefSizes, RefLetters
<1>4. \A m \in 0 .. Len(refs) : RefSizes(refs, m) = [k \in 1 .. m |-> a[k]] /\ RefLetters(refs, m) = [k \in 1 .. m |-> b[k]]
  <2> TAKE m \in 0 .. Len(refs)
  <2>1. \A k \in 1 .. m : k \in 1 .. Len(refs)
    BY <1>0
  <2> HIDE DEF a, b
  <2> QED BY <1>3, <2>1 DEF RefSizes, RefLetters
<1> HIDE DEF a, b
<1>5. n < Len(refs) => n + 1 \in 0 .. Len(refs) /\ n + 1 \in 1 .. Len(refs)
  BY <1>0
<1>6. /\ Total(RefSizes(refs, n)) \in Nat
      /\ Total(RefSizes(refs, n)) <= Total(a)
      /\ n < Len(refs) => Total(RefSizes(refs, n + 1)) = Total(RefSizes(refs, n)) + refs[n + 1].size
  <2>1. RefSizes(refs, n) = [k \in 1 .. n |-> a[k]]
    BY <1>4
  <2>2. n < Len(refs) => RefSizes(refs, n + 1) = [k \in 1 .. n + 1 |-> a[k]] /\ a[n + 1] = refs[n + 1].size
    BY <1>3, <1>4, <1>5
  <2>3. n \in 0 .. Len(a) /\ Len(a) = Len(refs) /\ a \in Seq(Nat)
    BY <1>2, <1>3
  <2>4. /\ Total([k \in 1 .. n |-> a[k]]) \in Nat
        /\ Total([k \in 1 .. n |-> a[k]]) <= Total(a)
        /\ n < Len(a) => Total([k \in 1 .. n + 1 |-> a[k]]) = Total([k \in 1 .. n |-> a[k]]) + a[n + 1]
    BY <2>3, FirstTotals
  <2> QED BY <2>1, <2>2, <2>3, <2>4
<1>7. /\ Total(RefLetters(refs, n)) \in Nat
      /\ Total(RefLetters(refs, n)) <= Total(b)
      /\ n < Len(refs) => Total(RefLetters(refs, n + 1)) = Total(RefLetters(refs, n)) + LettersOf(refs[n + 1])
  <2>1. RefLetters(refs, n) = [k \in 1 .. n |-> b[k]]
    BY <1>4
  <2>2. n < Len(refs) => RefLetters(refs, n + 1) = [k \in 1 .. n + 1 |-> b[k]] /\ b[n + 1] = LettersOf(refs[n + 1])
    BY <1>3, <1>4, <1>5
  <2>3. n \in 0 .. Len(b) /\ Len(b) = Len(refs) /\ b \in Seq(Nat)
    BY <1>2, <1>3
  <2>4. /\ Total([k \in 1 .. n |-> b[k]]) \in Nat
        /\ Total([k \in 1 .. n |-> b[k]]) <= Total(b)
        /\ n < Len(b) => Total([k \in 1 .. n + 1 |-> b[k]]) = Total([k \in 1 .. n |-> b[k]]) + b[n + 1]
    BY <2>3, FirstTotals
  <2> QED BY <2>1, <2>2, <2>3, <2>4
<1> QED BY <1>6, <1>7 DEF a, b

(* No reference, no total.                                                  *)
LEMMA NoRefs == Total(RefSizes(<<>>, 0)) = 0 /\ Total(RefLetters(<<>>, 0)) = 0
<1>1. <<>> \in Seq(Nat) /\ Len(<<>>) = 0
  OBVIOUS
<1>2. \A f : (1 .. 0) = {}
  OBVIOUS
<1>3. RefSizes(<<>>, 0) = <<>>
  BY DEF RefSizes
<1>4. RefLetters(<<>>, 0) = <<>>
  BY DEF RefLetters
<1> QED BY <1>3, <1>4, TotalEmpty

(* One more reference leaves the first ones as they were.                   *)
LEMMA RefAdded ==
  ASSUME NEW refs \in Seq(RefSet), NEW r \in RefSet
  PROVE  /\ Append(refs, r) \in Seq(RefSet) /\ Len(Append(refs, r)) = Len(refs) + 1
         /\ Total(RefSizes(Append(refs, r), Len(refs) + 1)) = Total(RefSizes(refs, Len(refs))) + r.size
         /\ Total(RefLetters(Append(refs, r), Len(refs) + 1)) = Total(RefLetters(refs, Len(refs))) + LettersOf(r)
<1> DEFINE q == Append(refs, r)
           n == Len(refs)
<1>1. q \in Seq(RefSet) /\ Len(q) = n + 1 /\ q[n + 1] = r /\ (\A k \in 1 .. n : q[k] = refs[k]) /\ n \in Nat
  OBVIOUS
<1> HIDE DEF q
<1>2. n \in 0 .. Len(q) /\ n < Len(q)
  BY <1>1
<1> HIDE DEF n
<1>3. RefSizes(q, n) = RefSizes(refs, n) /\ RefLetters(q, n) = RefLetters(refs, n)
  BY <1>1 DEF RefSizes, RefLetters
<1>4. /\ Total(RefSizes(q, n + 1)) = Total(RefSizes(q, n)) + q[n + 1].size
      /\ Total(RefLetters(q, n + 1)) = Total(RefLetters(q, n)) + LettersOf(q[n + 1])
  BY <1>1, <1>2, RefTotals
<1> QED BY <1>1, <1>3, <1>4 DEF q, n

-----------------------------------------------------------------------------
(* The sections of one file.                                                *)
LEMMA SectionsAre ==
  ASSUME NEW k \in Nat, NEW u \in Seq(UnitSet), Increasing(u)
  PROVE  /\ SectionsOf(k, u) \in Seq(SectionSet) /\ Len(SectionsOf(k, u)) = Len(u)
         /\ \A i \in 1 .. Len(u) : SectionsOf(k, u)[i][1] = k /\ SectionsOf(k, u)[i][3] = u[i].chars
         /\ \A i, j \in 1 .. Len(u) : i < j => SectionsOf(k, u)[i][2] < SectionsOf(k, u)[j][2]
         /\ SectionChars(SectionsOf(k, u)) = UnitChars(u)
<1> DEFINE s == SectionsOf(k, u)
<1>1. Len(u) \in Nat /\ DOMAIN u = 1 .. Len(u) /\ \A i \in 1 .. Len(u) : u[i] \in UnitSet
  OBVIOUS
<1>2. \A i \in 1 .. Len(u) : u[i].number \in Nat /\ u[i].chars \in Nat
  BY <1>1 DEF UnitSet
<1>3. s = [i \in 1 .. Len(u) |-> <<k, u[i].number, u[i].chars>>]
  BY <1>1 DEF SectionsOf
<1>4. \A i \in 1 .. Len(u) : <<k, u[i].number, u[i].chars>> \in SectionSet
  BY <1>2 DEF SectionSet
<1>5. s \in Seq(SectionSet)
  BY <1>1, <1>3, <1>4, IsASeq
<1>6. Len(s) = Len(u)
  BY <1>1, <1>3, <1>5
<1>7. \A i \in 1 .. Len(u) : s[i][1] = k /\ s[i][2] = u[i].number /\ s[i][3] = u[i].chars
  BY <1>3
<1>8. SectionChars(s) = UnitChars(u)
  <2>1. DOMAIN s = 1 .. Len(u)
    BY <1>3
  <2> HIDE DEF s
  <2> QED BY <1>1, <1>7, <2>1 DEF SectionChars, UnitChars
<1> HIDE DEF s
<1>9. \A i, j \in 1 .. Len(u) : i < j => s[i][2] < s[j][2]
  BY <1>1, <1>7 DEF Increasing
<1> QED BY <1>5, <1>6, <1>7, <1>8, <1>9 DEF s

(* The characters of sections, one by one.                                  *)
LEMMA SectionCharsIs ==
  ASSUME NEW s \in Seq(SectionSet)
  PROVE  SectionChars(s) \in Seq(Nat) /\ Len(SectionChars(s)) = Len(s) /\ \A i \in 1 .. Len(s) : SectionChars(s)[i] = s[i][3]
<1>1. Len(s) \in Nat /\ DOMAIN s = 1 .. Len(s) /\ \A i \in 1 .. Len(s) : s[i] \in SectionSet
  OBVIOUS
<1>2. \A i \in 1 .. Len(s) : s[i][3] \in Nat
  BY <1>1 DEF SectionSet
<1>3. SectionChars(s) = [i \in 1 .. Len(s) |-> s[i][3]]
  BY <1>1 DEF SectionChars
<1>4. SectionChars(s) \in Seq(Nat)
  BY <1>1, <1>2, <1>3, IsASeq
<1> QED BY <1>1, <1>3, <1>4

(* The characters of sections that are put after others.                    *)
LEMMA SectionCharsAdd ==
  ASSUME NEW s \in Seq(SectionSet), NEW t \in Seq(SectionSet)
  PROVE  Total(SectionChars(s \o t)) = Total(SectionChars(s)) + Total(SectionChars(t))
<1>1. s \o t \in Seq(SectionSet) /\ Len(s \o t) = Len(s) + Len(t)
  BY ConcatProperties
<1>2. /\ SectionChars(s) \in Seq(Nat) /\ Len(SectionChars(s)) = Len(s) /\ \A i \in 1 .. Len(s) : SectionChars(s)[i] = s[i][3]
      /\ SectionChars(t) \in Seq(Nat) /\ Len(SectionChars(t)) = Len(t) /\ \A i \in 1 .. Len(t) : SectionChars(t)[i] = t[i][3]
      /\ SectionChars(s \o t) \in Seq(Nat) /\ Len(SectionChars(s \o t)) = Len(s) + Len(t)
      /\ \A i \in 1 .. Len(s) + Len(t) : SectionChars(s \o t)[i] = (s \o t)[i][3]
  BY <1>1, SectionCharsIs
<1> DEFINE a == SectionChars(s)
           b == SectionChars(t)
           w == a \o b
<1> HIDE DEF a, b
<1>0. a \in Seq(Nat) /\ Len(a) = Len(s) /\ b \in Seq(Nat) /\ Len(b) = Len(t)
  BY <1>2 DEF a, b
<1>3. /\ w \in Seq(Nat) /\ Len(w) = Len(s) + Len(t)
      /\ \A i \in 1 .. Len(s) + Len(t) : w[i] = IF i <= Len(s) THEN a[i] ELSE b[i - Len(s)]
  <2>1. /\ w \in Seq(Nat) /\ Len(w) = Len(a) + Len(b)
        /\ \A i \in 1 .. Len(a) + Len(b) : w[i] = IF i <= Len(a) THEN a[i] ELSE b[i - Len(a)]
    BY <1>0, ConcatProperties
  <2> HIDE DEF w
  <2> QED BY <1>0, <2>1
<1> HIDE DEF w
<1>4. \A i \in 1 .. Len(s) + Len(t) : w[i] = SectionChars(s \o t)[i]
  <2> TAKE i \in 1 .. Len(s) + Len(t)
  <2>1. (s \o t)[i] = IF i <= Len(s) THEN s[i] ELSE t[i - Len(s)]
    BY ConcatProperties
  <2>2. w[i] = IF i <= Len(s) THEN SectionChars(s)[i] ELSE SectionChars(t)[i - Len(s)]
    BY <1>3 DEF a, b
  <2>3. CASE i <= Len(s)
    <3>1. i \in 1 .. Len(s)
      BY <2>3
    <3> QED BY <1>2, <2>1, <2>2, <2>3, <3>1
  <2>4. CASE ~(i <= Len(s))
    <3>1. i - Len(s) \in 1 .. Len(t)
      BY <2>4
    <3> QED BY <1>2, <2>1, <2>2, <2>4, <3>1
  <2> QED BY <2>3, <2>4
<1>5. SectionChars(s \o t) = w
  BY <1>2, <1>3, <1>4, SeqEqual
<1> QED BY <1>0, <1>5, TotalConcat DEF w, a, b

\* Sections in order, all of files before the n-th one.
Ordered(s, n) ==
    /\ \A i \in DOMAIN s : s[i][1] < n
    /\ \A i, j \in DOMAIN s : i < j => s[i][1] < s[j][1] \/ s[i][2] < s[j][2]

(* The next file's units, put after the sections, keep them in order.       *)
LEMMA OrderedAdd ==
  ASSUME NEW n \in Nat, NEW s \in Seq(SectionSet), Ordered(s, n), NEW u \in Seq(UnitSet), Increasing(u)
  PROVE  Ordered(s \o SectionsOf(n, u), n + 1)
<1> DEFINE t == SectionsOf(n, u)
           w == s \o t
<1>1. /\ t \in Seq(SectionSet) /\ Len(t) = Len(u)
      /\ \A i \in 1 .. Len(u) : t[i][1] = n
      /\ \A i, j \in 1 .. Len(u) : i < j => t[i][2] < t[j][2]
  BY SectionsAre
<1> HIDE DEF t
<1>2. /\ w \in Seq(SectionSet) /\ Len(w) = Len(s) + Len(u)
      /\ \A i \in 1 .. Len(s) + Len(u) : w[i] = IF i <= Len(s) THEN s[i] ELSE t[i - Len(s)]
  <2>1. /\ w \in Seq(SectionSet) /\ Len(w) = Len(s) + Len(t)
        /\ \A i \in 1 .. Len(s) + Len(t) : w[i] = IF i <= Len(s) THEN s[i] ELSE t[i - Len(s)]
    <3>1. t \in Seq(SectionSet) /\ s \in Seq(SectionSet)
      BY <1>1
    <3> HIDE DEF w
    <3>2. w = s \o t
      BY DEF w
    <3> QED BY <3>1, <3>2, ConcatProperties, Zenon
  <2> HIDE DEF w
  <2> QED BY <1>1, <2>1
<1> HIDE DEF w
<1>3. Len(s) \in Nat /\ Len(u) \in Nat /\ DOMAIN w = 1 .. Len(s) + Len(u) /\ DOMAIN s = 1 .. Len(s)
  BY <1>2
<1>4. \A i \in 1 .. Len(s) : s[i][1] \in Nat /\ s[i][1] < n
  <2>1. \A i \in 1 .. Len(s) : s[i] \in SectionSet
    OBVIOUS
  <2> QED BY <1>3, <2>1 DEF SectionSet, Ordered
<1>5. \A i \in DOMAIN w : w[i][1] < n + 1
  <2> TAKE i \in DOMAIN w
  <2>1. CASE i <= Len(s)
    BY <1>2, <1>3, <1>4, <2>1
  <2>2. CASE ~(i <= Len(s))
    <3>1. i - Len(s) \in 1 .. Len(u)
      BY <1>3, <2>2
    <3> QED BY <1>1, <1>2, <1>3, <2>2, <3>1
  <2> QED BY <2>1, <2>2
<1>6. ASSUME NEW i \in DOMAIN w, NEW j \in DOMAIN w, i < j
      PROVE  w[i][1] < w[j][1] \/ w[i][2] < w[j][2]
  <2>1. CASE j <= Len(s)
    <3>1. i \in DOMAIN s /\ j \in DOMAIN s /\ w[i] = s[i] /\ w[j] = s[j]
      BY <1>2, <1>3, <1>6, <2>1
    <3> QED BY <1>6, <3>1 DEF Ordered
  <2>2. CASE i <= Len(s) /\ ~(j <= Len(s))
    <3>1. w[i][1] < n
      BY <1>2, <1>3, <1>4, <2>2
    <3>2. j - Len(s) \in 1 .. Len(u) /\ w[j] = t[j - Len(s)]
      BY <1>2, <1>3, <2>2
    <3> QED BY <1>1, <3>1, <3>2
  <2>3. CASE ~(i <= Len(s)) /\ ~(j <= Len(s))
    <3>1. /\ j - Len(s) \in 1 .. Len(u) /\ w[j] = t[j - Len(s)]
          /\ i - Len(s) \in 1 .. Len(u) /\ w[i] = t[i - Len(s)]
          /\ i - Len(s) < j - Len(s)
      BY <1>2, <1>3, <1>6, <2>3
    <3> QED BY <1>1, <3>1
  <2> QED BY <1>3, <1>6, <2>1, <2>2, <2>3
<1> QED BY <1>5, <1>6 DEF Ordered, w, t

(* The pieces of one more file.                                             *)
LEMMA PiecesAdd ==
  ASSUME NEW refs \in Seq(RefSet), NEW n \in 0 .. Len(refs), n < Len(refs)
  PROVE  /\ FlattenSeq(Pieces(refs, n)) \in Seq(SectionSet)
         /\ FlattenSeq(Pieces(refs, n + 1)) =
              FlattenSeq(Pieces(refs, n)) \o SectionsOf(n + 1, Units(refs[n + 1].type, refs[n + 1].hash))
<1> DEFINE piece(k) == SectionsOf(k, Units(refs[k].type, refs[k].hash))
<1>1. \A k \in 1 .. Len(refs) : piece(k) \in Seq(SectionSet)
  <2> TAKE k \in 1 .. Len(refs)
  <2>1. refs[k] \in RefSet /\ k \in Nat
    OBVIOUS
  <2>2. Units(refs[k].type, refs[k].hash) \in Seq(UnitSet) /\ Increasing(Units(refs[k].type, refs[k].hash))
    BY <2>1, RefIs
  <2> QED BY <2>1, <2>2, SectionsAre
<1>2. Pieces(refs, n) = [k \in 1 .. n |-> piece(k)] /\ Pieces(refs, n + 1) = [k \in 1 .. n + 1 |-> piece(k)]
  BY DEF Pieces
<1> HIDE DEF piece
<1>3. n \in Nat /\ n + 1 \in Nat /\ n + 1 \in 1 .. Len(refs) /\ (\A k \in 1 .. n : k \in 1 .. Len(refs)) /\ \A k \in 1 .. n + 1 : k \in 1 .. Len(refs)
  OBVIOUS
<1> DEFINE p == [k \in 1 .. n |-> piece(k)]
           q == [k \in 1 .. n + 1 |-> piece(k)]
<1>4. p \in Seq(Seq(SectionSet)) /\ q \in Seq(Seq(SectionSet))
  BY <1>1, <1>3, IsASeq
<1>5. Len(p) = n /\ (\A k \in 1 .. n : p[k] = piece(k)) /\ Len(q) = n + 1 /\ \A k \in 1 .. n + 1 : q[k] = piece(k)
  BY <1>3, <1>4
<1> HIDE DEF p, q
<1>6. q = Append(p, piece(n + 1))
  <2>1. /\ Append(p, piece(n + 1)) \in Seq(Seq(SectionSet)) /\ Len(Append(p, piece(n + 1))) = n + 1
        /\ \A k \in 1 .. n + 1 : Append(p, piece(n + 1))[k] = q[k]
    BY <1>1, <1>3, <1>4, <1>5
  <2> QED BY <1>4, <1>5, <2>1, SeqEqual
<1>7. FlattenSeq(q) = FlattenSeq(p) \o piece(n + 1)
  BY <1>1, <1>3, <1>4, <1>6, FlattenAppend
<1>8. FlattenSeq(p) \in Seq(SectionSet)
  BY <1>4, FlattenTyped
<1> QED BY <1>2, <1>7, <1>8 DEF p, q, piece

ContextTypes ==
    /\ format \in {"pdf", "pptx", "docx"} /\ disk \in [Names -> Contents \cup {Gone, Link}]
    /\ paths \in Seq({"deck", "note", "./note", "photo"})
    /\ size \in Nat /\ bytes \in Nat /\ chars \in Nat /\ next_ref \in Nat
    /\ references \in Seq(RefSet) /\ sections \in Seq(SectionSet)

\* A reference fits what was inspected, and the disk unless it was touched.
RefsInv ==
    \A k \in DOMAIN references :
        /\ references[k].size > 0 /\ references[k].size <= MaxFile
        /\ references[k].units = Len(Units(references[k].type, references[k].hash))
        /\ extract_bytes(references[k].type, references[k].hash).ok
        /\ references[k].path \notin touched =>
              disk[references[k].path] = references[k].hash /\ references[k].size = references[k].hash.size
AllRefsInv ==
    /\ Total(RefSizes(references, Len(references))) <= MaxTotal
    /\ Total(RefLetters(references, Len(references))) <= MaxChars

\* The file in hand: looked at, not yet read.
InHand(file) ==
    /\ size <= MaxFile /\ file \in Names /\ Extension(file) \in DocTypes
    /\ \A k \in DOMAIN references : references[k].path # file
    /\ file \notin touched => disk[file].size = size /\ ~disk[file].link
InspectInv ==
    /\ reading \in {"idle", "attached"} => size = 0
    /\ reading = "idle" => references = <<>>
    /\ reading \in {"idle", "inspect"} =>
          /\ bytes = Total(RefSizes(references, Len(references))) + size /\ bytes <= MaxTotal
          /\ chars = Total(RefLetters(references, Len(references)))
    /\ reading = "inspect" /\ size # 0 => paths # <<>> /\ \A file : file = canonicalize(Head(paths)) => InHand(file)
    /\ reading \in {"idle", "inspect", "attached"} => next_ref = 0 /\ sections = <<>>

ExtractInv ==
    reading \in {"extract", "extracted"} =>
        /\ next_ref \in 1 .. Len(references) + 1
        /\ sections = FlattenSeq(Pieces(references, next_ref - 1))
        /\ Ordered(sections, next_ref)
        /\ chars = Total(SectionChars(sections)) /\ chars <= MaxChars
        /\ chars = Total(RefLetters(references, next_ref - 1))
        /\ bytes = Total(RefSizes(references, next_ref - 1)) + size
        /\ size # 0 => /\ next_ref <= Len(references)
                       /\ references[next_ref].path \notin touched => size = references[next_ref].size

ContextInv == ContextTypes /\ RefsInv /\ AllRefsInv /\ InspectInv /\ ExtractInv /\ NoFalseAlarm

(* Nothing is chosen, read or changed before the first inspection.          *)
LEMMA ContextInitInv == ContextInit => ContextInv
<1> SUFFICES ASSUME ContextInit PROVE ContextInv
  OBVIOUS
<1>0. /\ format \in {"pdf", "pptx", "docx"} /\ reading = "idle" /\ paths = <<>> /\ size = 0 /\ bytes = 0 /\ chars = 0
      /\ references = <<>> /\ next_ref = 0 /\ sections = <<>> /\ touched = {}
  BY DEF ContextInit
<1>1. disk \in [Names -> Contents \cup {Gone, Link}]
  <2>1. PICK deck \in Contents, note \in Contents :
          disk = [f \in {"deck", "note", "photo"} |-> IF f = "deck" THEN deck ELSE IF f = "note" THEN note ELSE Bytes(1, TRUE, <<Part(1, 2)>>)]
    BY DEF ContextInit
  <2>2. PICK photo \in Contents : photo = Bytes(1, TRUE, <<Part(1, 2)>>)
    BY DEF Contents
  <2>3. disk = [f \in Names |-> IF f = "deck" THEN deck ELSE IF f = "note" THEN note ELSE photo]
    BY <2>1, <2>2 DEF Names
  <2> QED BY <2>3
<1>2. Len(<<>>) = 0 /\ \A i : i \notin DOMAIN <<>>
  <2>1. Len(<<>>) = 0
    OBVIOUS
  <2>2. \A i : i \notin DOMAIN <<>>
    OBVIOUS
  <2> QED BY <2>1, <2>2
<1>3. ContextTypes
  BY <1>0, <1>1, EmptySeq DEF ContextTypes
<1>4. RefsInv
  BY <1>0, <1>2 DEF RefsInv
<1>5. {MaxTotal, MaxChars} \subseteq Nat
  BY ContextAssumption
<1>6. AllRefsInv
  BY <1>0, <1>2, <1>5, NoRefs DEF AllRefsInv
<1>7. InspectInv
  BY <1>0, <1>2, <1>5, NoRefs DEF InspectInv
<1>8. ExtractInv /\ NoFalseAlarm
  BY <1>0 DEF ExtractInv, NoFalseAlarm
<1> QED BY <1>3, <1>4, <1>6, <1>7, <1>8 DEF ContextInv

(* References stay good while they and the files stay.                      *)
LEMMA RefsKept ==
  ASSUME ContextInv, UNCHANGED <<references, disk, touched>>
  PROVE  RefsInv' /\ AllRefsInv'
BY DEF ContextInv, RefsInv, AllRefsInv

(* A refusal before goals are generated.                                    *)
LEMMA RefusedEarly ==
  ASSUME ContextInv, Refuse, next_ref = 0, UNCHANGED <<next_ref, references, disk, touched>>, ContextTypes'
  PROVE  ContextInv'
<1>1. reading' = "refused" /\ next_ref' = 0
  BY DEF Refuse
<1>2. InspectInv'
  BY <1>1 DEF InspectInv
<1>3. ExtractInv' /\ NoFalseAlarm'
  BY <1>1 DEF ExtractInv, NoFalseAlarm
<1> QED BY <1>2, <1>3, RefsKept DEF ContextInv

(* The chosen paths are refused, or inspected from nothing.                 *)
LEMMA InspectPathsStep == ContextInv /\ InspectPaths => ContextInv'
<1> SUFFICES ASSUME ContextInv, InspectPaths PROVE ContextInv'
  OBVIOUS
<1>0. /\ ContextTypes /\ InspectInv /\ reading = "idle"
      /\ UNCHANGED <<format, disk, bytes, chars, references, next_ref, sections, touched>>
  BY DEF ContextInv, InspectPaths
<1>1. size = 0 /\ next_ref = 0 /\ sections = <<>> /\ size' = 0
  BY <1>0 DEF InspectInv, InspectPaths, Refuse
<1>2. PICK ps \in Offers : IF Len(ps) > MaxFiles THEN Refuse /\ UNCHANGED paths
                           ELSE reading' = "inspect" /\ paths' = ps /\ size' = 0
  BY DEF InspectPaths
<1>3. ps \in Seq({"deck", "note", "./note", "photo"})
  <2> DEFINE P == {"deck", "note", "./note", "photo"}
  <2>1. \A a, b, c \in P : <<a>> \in Seq(P) /\ <<a, b>> \in Seq(P) /\ <<a, b, c>> \in Seq(P)
    <3> HIDE DEF P
    <3> QED OBVIOUS
  <2>2. "deck" \in P /\ "note" \in P /\ "./note" \in P /\ "photo" \in P
    OBVIOUS
  <2> HIDE DEF P
  <2>3. ps \in Seq(P)
    BY <2>1, <2>2 DEF Offers
  <2> QED BY <2>3 DEF P
<1>4. ContextTypes'
  BY <1>0, <1>1, <1>2, <1>3 DEF ContextTypes
<1>5. CASE Refuse
  BY <1>0, <1>1, <1>4, <1>5, RefusedEarly
<1>6. CASE reading' = "inspect" /\ size' = 0
  <2>1. InspectInv'
    BY <1>0, <1>1, <1>6 DEF InspectInv
  <2>2. ExtractInv' /\ NoFalseAlarm'
    BY <1>6 DEF ExtractInv, NoFalseAlarm
  <2> QED BY <1>0, <1>4, <2>1, <2>2, RefsKept DEF ContextInv
<1> QED BY <1>2, <1>5, <1>6

(* The file that a path names.                                              *)
LEMMA FileIs ==
  ASSUME ContextTypes, paths # <<>>
  PROVE  /\ canonicalize(Head(paths)) \in Names /\ Tail(paths) \in Seq({"deck", "note", "./note", "photo"})
         /\ \A f \in Names : Extension(f) = "png" \/ Extension(f) \in DocTypes
<1>1. Head(paths) \in {"deck", "note", "./note", "photo"}
  BY DEF ContextTypes
<1>2. Tail(paths) \in Seq({"deck", "note", "./note", "photo"})
  BY DEF ContextTypes
<1>3. canonicalize(Head(paths)) \in Names
  BY <1>1 DEF canonicalize, Names
<1>4. \A f \in Names : Extension(f) = "png" \/ Extension(f) \in DocTypes
  BY DEF ContextTypes, Names, Extension, DocTypes
<1> QED BY <1>2, <1>3, <1>4

(* The look at a file refuses it or notes its size.                         *)
LEMMA InspectSizeStep == ContextInv /\ InspectSize => ContextInv'
<1> SUFFICES ASSUME ContextInv, InspectSize PROVE ContextInv'
  OBVIOUS
<1>0. /\ ContextTypes /\ InspectInv /\ RefsInv /\ reading = "inspect" /\ paths # <<>> /\ size = 0
      /\ UNCHANGED <<format, disk, paths, chars, references, next_ref, sections>>
  BY DEF ContextInv, InspectSize
<1>1. PICK file : file = canonicalize(Head(paths))
  OBVIOUS
<1>2. file \in Names /\ (Extension(file) # "png" => Extension(file) \in DocTypes)
  BY <1>0, <1>1, FileIs
<1>3. \/ Refuse /\ UNCHANGED <<bytes, touched>>
      \/ /\ IsFile(file) /\ \A i \in DOMAIN references : references[i].path # file
         /\ ~(disk[file].size > MaxFile \/ bytes + disk[file].size > MaxTotal \/ Extension(file) = "png")
         /\ size' = disk[file].size /\ bytes' = bytes + disk[file].size
         /\ touched' = touched \ {file} /\ UNCHANGED reading
  BY <1>1 DEF InspectSize
<1>4. next_ref = 0 /\ sections = <<>>
  BY <1>0 DEF InspectInv
<1>5. CASE Refuse /\ UNCHANGED <<bytes, touched>>
  <2>1. ContextTypes'
    BY <1>0, <1>5 DEF ContextTypes, Refuse
  <2> QED BY <1>0, <1>4, <1>5, <2>1, RefusedEarly
<1>6. CASE /\ IsFile(file) /\ \A i \in DOMAIN references : references[i].path # file
           /\ ~(disk[file].size > MaxFile \/ bytes + disk[file].size > MaxTotal \/ Extension(file) = "png")
           /\ size' = disk[file].size /\ bytes' = bytes + disk[file].size
           /\ touched' = touched \ {file} /\ UNCHANGED reading
  <2>1. disk[file] \in Contents
    BY <1>0, <1>2, <1>6, ReadIs DEF ContextTypes, IsFile
  <2>2. disk[file].size \in Nat \ {0} /\ disk[file].link = FALSE
    BY <2>1, ContentIs
  <2>3. MaxFile \in Nat /\ MaxTotal \in Nat /\ bytes \in Nat
    BY <1>0, ContextAssumption DEF ContextTypes
  <2>4. size' <= MaxFile /\ bytes' <= MaxTotal /\ bytes' = bytes + size' /\ size' \in Nat /\ bytes' \in Nat
    BY <1>6, <2>2, <2>3
  <2>5. ContextTypes'
    BY <1>0, <2>4 DEF ContextTypes
  <2>6. RefsInv'
    <3>1. \A k \in DOMAIN references : references[k].path \notin touched' => references[k].path \notin touched
      BY <1>6
    <3> QED BY <1>0, <3>1 DEF RefsInv
  <2>7. AllRefsInv'
    BY <1>0 DEF ContextInv, AllRefsInv
  <2>8. InHand(file)'
    <3>1. Extension(file)' = Extension(file)
      BY <1>0 DEF Extension
    <3> QED BY <1>0, <1>2, <1>6, <2>2, <2>4, <3>1 DEF InHand
  <2>9. InspectInv'
    <3>1. reading' = "inspect" /\ canonicalize(Head(paths')) = file /\ paths' # <<>>
      BY <1>0, <1>1, <1>6
    <3>2. /\ bytes = Total(RefSizes(references, Len(references))) + 0
          /\ chars = Total(RefLetters(references, Len(references)))
      BY <1>0 DEF InspectInv
    <3>3. Total(RefSizes(references, Len(references))) \in Nat
      BY <1>0, RefTotals DEF ContextTypes
    <3>4. bytes' = Total(RefSizes(references, Len(references))) + size'
      BY <2>4, <3>2, <3>3
    <3>5. \A f : f = canonicalize(Head(paths')) => InHand(f)'
      BY <2>8, <3>1
    <3> QED BY <1>0, <1>4, <2>4, <3>1, <3>2, <3>4, <3>5 DEF InspectInv
  <2>10. ExtractInv' /\ NoFalseAlarm'
    BY <1>0, <1>6 DEF ExtractInv, NoFalseAlarm
  <2> QED BY <2>5, <2>6, <2>7, <2>9, <2>10 DEF ContextInv
<1> QED BY <1>3, <1>5, <1>6

(* The bytes of the file in hand are refused or make one more reference.    *)
LEMMA InspectBytesStep == ContextInv /\ InspectBytes => ContextInv'
<1> SUFFICES ASSUME ContextInv, InspectBytes PROVE ContextInv'
  OBVIOUS
<1>0. /\ ContextTypes /\ InspectInv /\ RefsInv /\ AllRefsInv /\ reading = "inspect" /\ paths # <<>> /\ size # 0
      /\ UNCHANGED <<format, disk, bytes, next_ref, sections, touched>>
  BY DEF ContextInv, InspectBytes
<1>1. PICK file : file = canonicalize(Head(paths))
  OBVIOUS
<1>2. PICK hash : hash = read(file)
  OBVIOUS
<1>3. PICK type : type = Extension(file)
  OBVIOUS
<1>4. next_ref = 0 /\ sections = <<>> /\ InHand(file)
  BY <1>0, <1>1 DEF InspectInv
<1>5. file \in Names /\ type \in DocTypes /\ size \in Nat \ {0} /\ size <= MaxFile /\ references \in Seq(RefSet) /\ chars \in Nat
  BY <1>0, <1>3, <1>4 DEF InHand, ContextTypes
<1>6. \/ Refuse /\ UNCHANGED <<paths, chars, references>>
      \/ /\ hash # Gone /\ extract_bytes(type, hash).ok
         /\ ~(chars + Letters(extract_bytes(type, hash).units) > MaxChars)
         /\ chars' = chars + Letters(extract_bytes(type, hash).units) /\ paths' = Tail(paths) /\ size' = 0
         /\ references' = Append(references,
                [path |-> file, type |-> type, size |-> size, hash |-> hash, units |-> Len(extract_bytes(type, hash).units)])
         /\ UNCHANGED reading
  BY <1>1, <1>2, <1>3, Zenon DEF InspectBytes
<1>7. CASE Refuse /\ UNCHANGED <<paths, chars, references>>
  <2>1. ContextTypes'
    BY <1>0, <1>7 DEF ContextTypes, Refuse
  <2> QED BY <1>0, <1>4, <1>7, <2>1, RefusedEarly
<1>8. CASE /\ hash # Gone /\ extract_bytes(type, hash).ok
           /\ ~(chars + Letters(extract_bytes(type, hash).units) > MaxChars)
           /\ chars' = chars + Letters(extract_bytes(type, hash).units) /\ paths' = Tail(paths) /\ size' = 0
           /\ references' = Append(references,
                  [path |-> file, type |-> type, size |-> size, hash |-> hash, units |-> Len(extract_bytes(type, hash).units)])
           /\ UNCHANGED reading
  <2>1. extract_bytes(type, hash).units = Units(type, hash)
    BY DEF extract_bytes
  <2>2. hash \in Contents
    BY <1>0, <1>2, <1>5, <1>8, ReadIs DEF ContextTypes
  <2>3. Units(type, hash) \in Seq(UnitSet) /\ Letters(Units(type, hash)) \in Nat /\ Len(Units(type, hash)) \in Nat
    <3>1. Units(type, hash) \in Seq(UnitSet)
      BY <1>5, <2>2, UnitsIs
    <3> QED BY <3>1, CharsIs
  <2> DEFINE r == [path |-> file, type |-> type, size |-> size, hash |-> hash, units |-> Len(Units(type, hash))]
  <2>4. r \in RefSet
    BY <1>5, <2>2, <2>3 DEF RefSet
  <2>5. r.path = file /\ r.type = type /\ r.size = size /\ r.hash = hash /\ r.units = Len(Units(type, hash))
    OBVIOUS
  <2>6. references' = Append(references, r)
    BY <1>8, <2>1
  <2> HIDE DEF r
  <2>7. LettersOf(r) = Letters(Units(type, hash))
    BY <2>5 DEF LettersOf
  <2>8. /\ references' \in Seq(RefSet) /\ Len(references') = Len(references) + 1
        /\ Total(RefSizes(references', Len(references) + 1)) = Total(RefSizes(references, Len(references))) + size
        /\ Total(RefLetters(references', Len(references) + 1)) = Total(RefLetters(references, Len(references))) + Letters(Units(type, hash))
    BY <1>5, <2>4, <2>5, <2>6, <2>7, RefAdded
  <2>9. /\ chars' = chars + Letters(Units(type, hash)) /\ chars' <= MaxChars /\ chars' \in Nat
    BY <1>5, <1>8, <2>1, <2>3, ContextAssumption
  <2>10. ContextTypes'
    BY <1>0, <1>8, <2>8, <2>9, FileIs DEF ContextTypes
  <2>11. /\ DOMAIN references' = 1 .. Len(references) + 1 /\ DOMAIN references = 1 .. Len(references)
         /\ references'[Len(references) + 1] = r /\ \A k \in DOMAIN references : references'[k] = references[k]
    BY <1>5, <2>4, <2>6
  <2>12. RefsInv'
    <3>1. ASSUME NEW k \in DOMAIN references'
          PROVE  /\ references'[k].size > 0 /\ references'[k].size <= MaxFile
                 /\ references'[k].units = Len(Units(references'[k].type, references'[k].hash))
                 /\ extract_bytes(references'[k].type, references'[k].hash).ok
                 /\ references'[k].path \notin touched =>
                       disk[references'[k].path] = references'[k].hash /\ references'[k].size = references'[k].hash.size
      <4>1. CASE k \in DOMAIN references
        <5>1. references'[k] = references[k]
          BY <2>11, <4>1
        <5> QED BY <1>0, <4>1, <5>1 DEF RefsInv
      <4>2. CASE k \notin DOMAIN references
        <5>1. references'[k] = r
          BY <1>5, <2>11, <4>2
        <5>2. size > 0 /\ size <= MaxFile
          BY <1>5
        <5>3. file \notin touched => disk[file] = hash /\ size = hash.size
          <6>1. ASSUME file \notin touched PROVE disk[file].size = size /\ ~disk[file].link
            BY <1>4, <6>1 DEF InHand
          <6>2. ASSUME file \notin touched PROVE disk[file].size > 0
            BY <5>2, <6>1, <6>2
          <6> QED BY <1>0, <1>2, <1>5, <6>1, <6>2, ReadIs DEF ContextTypes
        <5> QED BY <1>8, <2>5, <5>1, <5>2, <5>3
      <4> QED BY <4>1, <4>2
    <3> QED BY <1>0, <3>1 DEF RefsInv
  <2>13. /\ bytes = Total(RefSizes(references, Len(references))) + size /\ bytes <= MaxTotal
         /\ chars = Total(RefLetters(references, Len(references)))
    BY <1>0 DEF InspectInv
  <2>14. /\ bytes' = Total(RefSizes(references', Len(references'))) /\ bytes' <= MaxTotal
         /\ chars' = Total(RefLetters(references', Len(references'))) /\ bytes' \in Nat
    BY <1>0, <2>8, <2>9, <2>13 DEF ContextTypes
  <2>15. AllRefsInv'
    BY <2>9, <2>14 DEF AllRefsInv
  <2>16. InspectInv'
    <3>1. bytes' = Total(RefSizes(references', Len(references'))) + size'
      BY <1>8, <2>14
    <3> QED BY <1>0, <1>4, <1>8, <2>14, <3>1 DEF InspectInv
  <2>17. ExtractInv' /\ NoFalseAlarm'
    BY <1>0, <1>8 DEF ExtractInv, NoFalseAlarm
  <2> QED BY <2>10, <2>12, <2>15, <2>16, <2>17 DEF ContextInv
<1> QED BY <1>6, <1>7, <1>8

(* What was inspected is attached as it is.                                 *)
LEMMA AttachStep == ContextInv /\ Attach => ContextInv'
<1> SUFFICES ASSUME ContextInv, Attach PROVE ContextInv'
  OBVIOUS
<1>0. /\ ContextTypes /\ InspectInv /\ reading = "inspect" /\ paths = <<>> /\ reading' = "attached"
      /\ UNCHANGED <<format, disk, paths, size, bytes, chars, references, next_ref, sections, touched>>
  BY DEF ContextInv, Attach
<1>1. size = 0 /\ next_ref = 0 /\ sections = <<>>
  BY <1>0 DEF InspectInv
<1>2. ContextTypes'
  BY <1>0 DEF ContextTypes
<1>3. InspectInv'
  BY <1>0, <1>1 DEF InspectInv
<1>4. ExtractInv' /\ NoFalseAlarm'
  BY <1>0 DEF ExtractInv, NoFalseAlarm
<1> QED BY <1>0, <1>2, <1>3, <1>4, RefsKept DEF ContextInv

(* Before the first reference nothing is extracted.                         *)
LEMMA NothingExtracted ==
  ASSUME NEW refs \in Seq(RefSet)
  PROVE  /\ FlattenSeq(Pieces(refs, 0)) = <<>> /\ Total(SectionChars(<<>>)) = 0
         /\ Total(RefSizes(refs, 0)) = 0 /\ Total(RefLetters(refs, 0)) = 0
<1>1. Pieces(refs, 0) = <<>> /\ RefSizes(refs, 0) = <<>> /\ RefLetters(refs, 0) = <<>>
  <2>1. Pieces(refs, 0) = <<>>
    BY DEF Pieces
  <2>2. RefSizes(refs, 0) = <<>>
    BY DEF RefSizes
  <2>3. RefLetters(refs, 0) = <<>>
    BY DEF RefLetters
  <2> QED BY <2>1, <2>2, <2>3
<1>2. SectionChars(<<>>) = <<>>
  BY DEF SectionChars
<1> QED BY <1>1, <1>2, FlattenEmpty, TotalEmpty

(* The references are refused, or extracted from nothing.                   *)
LEMMA ExtractReferencesStep == ContextInv /\ ExtractReferences => ContextInv'
<1> SUFFICES ASSUME ContextInv, ExtractReferences PROVE ContextInv'
  OBVIOUS
<1>0. /\ ContextTypes /\ InspectInv /\ reading = "attached"
      /\ reading' = "extract" /\ bytes' = 0 /\ chars' = 0 /\ next_ref' = 1
      /\ UNCHANGED <<format, disk, paths, size, references, sections, touched>>
  BY DEF ContextInv, ExtractReferences
<1>1. size = 0 /\ sections = <<>> /\ references \in Seq(RefSet) /\ Len(references) \in Nat
  BY <1>0 DEF InspectInv, ContextTypes
<1>2. ContextTypes'
  BY <1>0 DEF ContextTypes
<1>3. InspectInv'
  BY <1>0, <1>1 DEF InspectInv
<1>4. ExtractInv'
  <2>1. next_ref' \in 1 .. Len(references') + 1 /\ next_ref' - 1 = 0
    BY <1>0, <1>1
  <2>2. Ordered(sections', next_ref')
    <3>1. \A i : i \notin DOMAIN <<>>
      OBVIOUS
    <3> QED BY <1>0, <1>1, <3>1 DEF Ordered
  <2>3. MaxChars \in Nat
    BY ContextAssumption
  <2>4. /\ sections' = FlattenSeq(Pieces(references', next_ref' - 1))
        /\ chars' = Total(SectionChars(sections')) /\ chars' <= MaxChars
        /\ chars' = Total(RefLetters(references', next_ref' - 1))
        /\ bytes' = Total(RefSizes(references', next_ref' - 1)) + size' /\ size' = 0
    BY <1>0, <1>1, <2>1, <2>3, NothingExtracted
  <2> QED BY <2>1, <2>2, <2>4 DEF ExtractInv
<1>5. NoFalseAlarm'
  BY <1>0 DEF NoFalseAlarm
<1> QED BY <1>0, <1>2, <1>3, <1>4, <1>5, RefsKept DEF ContextInv

(* A refusal while goals are generated, with a reason.                      *)
LEMMA RefusedLate ==
  ASSUME ContextInv, Refuse, \E k \in DOMAIN references : references[k].path \in touched,
         UNCHANGED <<references, disk, touched>>, ContextTypes'
  PROVE  ContextInv'
<1>1. reading' = "refused"
  BY DEF Refuse
<1>2. InspectInv'
  BY <1>1 DEF InspectInv
<1>3. ExtractInv' /\ NoFalseAlarm'
  BY <1>1 DEF ExtractInv, NoFalseAlarm
<1> QED BY <1>2, <1>3, RefsKept DEF ContextInv

(* The reference in hand: its size and its characters fit what is left.     *)
LEMMA RoomLeft ==
  ASSUME ContextInv, reading = "extract", next_ref <= Len(references), NEW r, r = references[next_ref]
  PROVE  /\ r \in RefSet /\ next_ref \in DOMAIN references
         /\ Total(RefSizes(references, next_ref - 1)) + r.size <= MaxTotal
         /\ chars + LettersOf(r) <= MaxChars /\ next_ref \in Nat \ {0}
         /\ Total(RefSizes(references, next_ref)) = Total(RefSizes(references, next_ref - 1)) + r.size
         /\ Total(RefLetters(references, next_ref)) = chars + LettersOf(r)
<1>0. /\ references \in Seq(RefSet) /\ next_ref \in 1 .. Len(references) /\ AllRefsInv
      /\ chars = Total(RefLetters(references, next_ref - 1))
  BY DEF ContextInv, ContextTypes, ExtractInv
<1>1. PICK n \in Nat : n = next_ref - 1
  BY <1>0
<1>2. n + 1 = next_ref /\ n \in 0 .. Len(references) /\ n + 1 \in 0 .. Len(references) /\ n < Len(references)
  BY <1>0, <1>1
<1>3. r \in RefSet /\ next_ref \in DOMAIN references
  BY <1>0
<1>4. /\ Total(RefSizes(references, n + 1)) = Total(RefSizes(references, n)) + r.size
      /\ Total(RefLetters(references, n + 1)) = Total(RefLetters(references, n)) + LettersOf(r)
  BY <1>0, <1>2, RefTotals
<1>5. /\ Total(RefSizes(references, n + 1)) <= Total(RefSizes(references, Len(references)))
      /\ Total(RefLetters(references, n + 1)) <= Total(RefLetters(references, Len(references)))
      /\ Total(RefSizes(references, n + 1)) \in Nat /\ Total(RefLetters(references, n + 1)) \in Nat
  BY <1>0, <1>2, RefTotals
<1>6. Total(RefSizes(references, Len(references))) \in Nat /\ Total(RefLetters(references, Len(references))) \in Nat
  <2>1. Len(references) \in 0 .. Len(references)
    BY <1>0
  <2> QED BY <1>0, <2>1, RefTotals
<1>7. MaxTotal \in Nat /\ MaxChars \in Nat
  BY ContextAssumption
<1>8. Total(RefSizes(references, n + 1)) <= MaxTotal /\ Total(RefLetters(references, n + 1)) <= MaxChars
  BY <1>0, <1>5, <1>6, <1>7 DEF AllRefsInv
<1> QED BY <1>0, <1>1, <1>2, <1>3, <1>4, <1>8

(* The second look at a file refuses only what was touched.                 *)
LEMMA ExtractSizeStep == ContextInv /\ ExtractSize => ContextInv'
<1> SUFFICES ASSUME ContextInv, ExtractSize PROVE ContextInv'
  OBVIOUS
<1>0. /\ ContextTypes /\ ExtractInv /\ RefsInv /\ reading = "extract" /\ next_ref <= Len(references) /\ size = 0
      /\ UNCHANGED <<format, disk, paths, chars, references, next_ref, sections, touched>>
  BY DEF ContextInv, ExtractSize
<1>1. PICK r : r = references[next_ref]
  OBVIOUS
<1>2. /\ r \in RefSet /\ next_ref \in DOMAIN references
      /\ Total(RefSizes(references, next_ref - 1)) + r.size <= MaxTotal
  BY <1>0, <1>1, RoomLeft
<1>3. r.path \in Names /\ r.size \in Nat /\ r.hash \in Contents
  BY <1>2, RefIs
<1>4. \/ /\ Refuse /\ UNCHANGED bytes
         /\ ~IsFile(r.path) \/ disk[r.path].size > MaxFile \/ bytes + disk[r.path].size > MaxTotal
      \/ /\ IsFile(r.path) /\ size' = disk[r.path].size /\ bytes' = bytes + disk[r.path].size /\ UNCHANGED reading
  BY <1>1, Zenon DEF ExtractSize
<1>5. r.path \notin touched => disk[r.path] = r.hash /\ r.size = r.hash.size /\ r.size <= MaxFile
  BY <1>0, <1>1, <1>2 DEF RefsInv
<1>6. bytes = Total(RefSizes(references, next_ref - 1)) /\ bytes \in Nat
  <2>1. bytes \in Nat /\ bytes = Total(RefSizes(references, next_ref - 1)) + size
    BY <1>0 DEF ExtractInv, ContextTypes
  <2>2. Total(RefSizes(references, next_ref - 1)) \in Nat
    <3>1. next_ref - 1 \in 0 .. Len(references) /\ references \in Seq(RefSet)
      BY <1>0, <1>2 DEF ContextTypes
    <3> QED BY <3>1, RefTotals
  <2> QED BY <1>0, <2>1, <2>2
<1>7. CASE /\ Refuse /\ UNCHANGED bytes
           /\ ~IsFile(r.path) \/ disk[r.path].size > MaxFile \/ bytes + disk[r.path].size > MaxTotal
  <2>1. ASSUME r.path \notin touched PROVE FALSE
    <3>1. disk[r.path] = r.hash /\ disk[r.path].size = r.size /\ r.size <= MaxFile /\ disk[r.path] \in Contents
      BY <1>3, <1>5, <2>1
    <3>2. IsFile(r.path)
      BY <1>0, <1>3, <3>1, ReadIs DEF ContextTypes
    <3>3. MaxFile \in Nat /\ MaxTotal \in Nat
      BY ContextAssumption
    <3>4. ~(disk[r.path].size > MaxFile) /\ ~(bytes + disk[r.path].size > MaxTotal)
      BY <1>2, <1>3, <1>6, <3>1, <3>3
    <3> QED BY <1>7, <3>2, <3>4
  <2>2. \E k \in DOMAIN references : references[k].path \in touched
    BY <1>1, <1>2, <2>1
  <2>3. ContextTypes'
    BY <1>0, <1>7 DEF ContextTypes, Refuse
  <2> QED BY <1>0, <1>7, <2>2, <2>3, RefusedLate
<1>8. CASE IsFile(r.path) /\ size' = disk[r.path].size /\ bytes' = bytes + disk[r.path].size /\ UNCHANGED reading
  <2>1. disk[r.path] \in Contents
    BY <1>0, <1>3, <1>8, ReadIs DEF ContextTypes, IsFile
  <2>2. size' \in Nat /\ bytes' = bytes + size' /\ bytes' \in Nat
    <3>1. PICK n : n = disk[r.path].size
      OBVIOUS
    <3>2. n \in Nat
      BY <2>1, <3>1, ContentIs
    <3>3. size' = n /\ bytes' = bytes + n
      BY <1>8, <3>1
    <3> QED BY <1>6, <3>2, <3>3
  <2>3. ContextTypes'
    BY <1>0, <2>2 DEF ContextTypes
  <2>4. InspectInv'
    BY <1>0, <1>8 DEF InspectInv
  <2>5. references[next_ref].path \notin touched => size' = references[next_ref].size
    BY <1>1, <1>5, <1>8
  <2>6. ExtractInv'
    BY <1>0, <1>6, <2>2, <2>5 DEF ExtractInv
  <2>7. NoFalseAlarm'
    BY <1>0, <1>8 DEF NoFalseAlarm
  <2> QED BY <1>0, <2>3, <2>4, <2>6, <2>7, RefsKept DEF ContextInv
<1> QED BY <1>4, <1>7, <1>8

(* The bytes that are read again are the attached ones, or the references   *)
(* are refused.                                                             *)
LEMMA ExtractBytesStep == ContextInv /\ ExtractBytes => ContextInv'
<1> SUFFICES ASSUME ContextInv, ExtractBytes PROVE ContextInv'
  OBVIOUS
<1>0. /\ ContextTypes /\ ExtractInv /\ RefsInv /\ reading = "extract" /\ next_ref <= Len(references) /\ size # 0
      /\ UNCHANGED <<format, disk, paths, bytes, references, touched>>
  BY DEF ContextInv, ExtractBytes
<1>1. PICK r : r = references[next_ref]
  OBVIOUS
<1>2. PICK hash : hash = read(r.path)
  OBVIOUS
<1>3. /\ r \in RefSet /\ next_ref \in DOMAIN references
      /\ chars + LettersOf(r) <= MaxChars /\ next_ref \in Nat \ {0}
      /\ Total(RefSizes(references, next_ref)) = Total(RefSizes(references, next_ref - 1)) + r.size
      /\ Total(RefLetters(references, next_ref)) = chars + LettersOf(r)
  BY <1>0, <1>1, RoomLeft
<1>4. /\ r.path \in Names /\ r.size \in Nat /\ r.hash \in Contents /\ r.type \in DocTypes /\ LettersOf(r) \in Nat
      /\ Units(r.type, r.hash) \in Seq(UnitSet) /\ Increasing(Units(r.type, r.hash))
  BY <1>3, RefIs
<1>5. extract_bytes(r.type, hash).units = Units(r.type, hash)
  BY DEF extract_bytes
<1>6. \/ /\ Refuse /\ UNCHANGED <<chars, next_ref, sections>>
         /\ \/ hash = Gone \/ ~Unchanged(r) \/ ~extract_bytes(r.type, hash).ok \/ Len(Units(r.type, hash)) # r.units
            \/ chars + Letters(Units(r.type, hash)) > MaxChars
      \/ /\ Unchanged(r) /\ ~(chars + Letters(Units(r.type, hash)) > MaxChars)
         /\ chars' = chars + Letters(Units(r.type, hash)) /\ next_ref' = next_ref + 1 /\ size' = 0
         /\ sections' = sections \o SectionsOf(next_ref, Units(r.type, hash))
         /\ UNCHANGED reading
  BY <1>1, <1>2, <1>5, Zenon DEF ExtractBytes
<1>7. /\ r.units = Len(Units(r.type, r.hash)) /\ extract_bytes(r.type, r.hash).ok
      /\ r.path \notin touched => disk[r.path] = r.hash
  BY <1>0, <1>1, <1>3 DEF RefsInv
<1>8. CASE /\ Refuse /\ UNCHANGED <<chars, next_ref, sections>>
           /\ \/ hash = Gone \/ ~Unchanged(r) \/ ~extract_bytes(r.type, hash).ok \/ Len(Units(r.type, hash)) # r.units
              \/ chars + Letters(Units(r.type, hash)) > MaxChars
  <2>1. ASSUME r.path \notin touched PROVE FALSE
    <3>1. hash = r.hash /\ hash # Gone
      BY <1>0, <1>2, <1>4, <1>7, <2>1, ReadIs DEF ContextTypes
    <3>2. size = r.size
      BY <1>0, <1>1, <2>1 DEF ExtractInv
    <3>3. Unchanged(r)
      BY <1>2, <3>1, <3>2 DEF Unchanged
    <3>4. chars \in Nat /\ MaxChars \in Nat
      BY <1>0, ContextAssumption DEF ContextTypes
    <3>5. ~(chars + Letters(Units(r.type, hash)) > MaxChars)
      BY <1>3, <1>4, <3>1, <3>4 DEF LettersOf
    <3> QED BY <1>7, <1>8, <3>1, <3>3, <3>5
  <2>2. \E k \in DOMAIN references : references[k].path \in touched
    BY <1>1, <1>3, <2>1
  <2>3. ContextTypes'
    BY <1>0, <1>8 DEF ContextTypes, Refuse
  <2> QED BY <1>0, <1>8, <2>2, <2>3, RefusedLate
<1>9. CASE /\ Unchanged(r) /\ ~(chars + Letters(Units(r.type, hash)) > MaxChars)
           /\ chars' = chars + Letters(Units(r.type, hash)) /\ next_ref' = next_ref + 1 /\ size' = 0
           /\ sections' = sections \o SectionsOf(next_ref, Units(r.type, hash))
           /\ UNCHANGED reading
  <2>1. hash = r.hash /\ size = r.size
    BY <1>2, <1>9 DEF Unchanged
  <2>2. PICK u \in Seq(UnitSet) : u = Units(r.type, r.hash) /\ Increasing(u)
    BY <1>4
  <2>3. /\ chars' = chars + LettersOf(r) /\ Letters(u) = LettersOf(r)
        /\ sections' = sections \o SectionsOf(next_ref, u)
    BY <1>9, <2>1, <2>2 DEF LettersOf
  <2>4. /\ chars \in Nat /\ chars' \in Nat /\ chars' <= MaxChars /\ sections \in Seq(SectionSet)
        /\ references \in Seq(RefSet) /\ next_ref \in 1 .. Len(references) /\ Len(references) \in Nat
    BY <1>0, <1>3, <1>4, <2>3 DEF ContextTypes
  <2>5. /\ sections = FlattenSeq(Pieces(references, next_ref - 1)) /\ Ordered(sections, next_ref)
        /\ chars = Total(SectionChars(sections))
        /\ bytes = Total(RefSizes(references, next_ref - 1)) + size
    BY <1>0 DEF ExtractInv
  <2>6. SectionsOf(next_ref, u) \in Seq(SectionSet) /\ SectionChars(SectionsOf(next_ref, u)) = UnitChars(u)
    BY <1>3, <2>2, SectionsAre
  <2>7. sections' \in Seq(SectionSet)
    BY <2>3, <2>4, <2>6, ConcatProperties
  <2>8. ContextTypes'
    BY <1>0, <1>3, <1>9, <2>4, <2>7 DEF ContextTypes
  <2>9. Ordered(sections', next_ref + 1)
    BY <1>3, <2>2, <2>3, <2>4, <2>5, OrderedAdd
  <2>10. chars' = Total(SectionChars(sections'))
    BY <2>3, <2>4, <2>5, <2>6, SectionCharsAdd DEF Letters
  <2>11. sections' = FlattenSeq(Pieces(references, next_ref))
    <3>1. PICK n \in 0 .. Len(references) : n = next_ref - 1 /\ n < Len(references) /\ n + 1 = next_ref
      BY <1>3, <2>4
    <3>2. FlattenSeq(Pieces(references, n + 1)) = FlattenSeq(Pieces(references, n)) \o SectionsOf(n + 1, Units(references[n + 1].type, references[n + 1].hash))
      BY <2>4, <3>1, PiecesAdd
    <3> QED BY <1>1, <2>2, <2>3, <2>5, <3>1, <3>2
  <2>12. ExtractInv'
    <3>1. next_ref' \in 1 .. Len(references') + 1 /\ next_ref' - 1 = next_ref /\ size' = 0 /\ references' = references /\ bytes' = bytes
      BY <1>0, <1>3, <1>9, <2>4
    <3>2. bytes = Total(RefSizes(references, next_ref)) + size'
      <4>1. Total(RefSizes(references, next_ref)) \in Nat
        <5>1. next_ref \in 0 .. Len(references)
          BY <2>4
        <5> QED BY <2>4, <5>1, RefTotals
      <4> QED BY <1>3, <2>1, <2>5, <3>1, <4>1
    <3>3. chars' = Total(RefLetters(references, next_ref))
      BY <1>3, <2>3
    <3>4. Ordered(sections', next_ref')
      BY <1>9, <2>9
    <3> QED BY <2>4, <2>10, <2>11, <3>1, <3>2, <3>3, <3>4 DEF ExtractInv
  <2>13. InspectInv' /\ NoFalseAlarm'
    BY <1>0, <1>9 DEF InspectInv, NoFalseAlarm
  <2> QED BY <1>0, <2>8, <2>12, <2>13, RefsKept DEF ContextInv
<1> QED BY <1>6, <1>8, <1>9

(* After the last reference everything is extracted.                        *)
LEMMA ExtractedStep == ContextInv /\ Extracted => ContextInv'
<1> SUFFICES ASSUME ContextInv, Extracted PROVE ContextInv'
  OBVIOUS
<1>0. /\ ContextTypes /\ ExtractInv /\ reading = "extract" /\ reading' = "extracted"
      /\ UNCHANGED <<format, disk, paths, size, bytes, chars, references, next_ref, sections, touched>>
  BY DEF ContextInv, Extracted
<1>1. ContextTypes'
  BY <1>0 DEF ContextTypes
<1>2. InspectInv' /\ NoFalseAlarm'
  BY <1>0 DEF InspectInv, NoFalseAlarm
<1>3. ExtractInv'
  BY <1>0 DEF ExtractInv
<1> QED BY <1>0, <1>1, <1>2, <1>3, RefsKept DEF ContextInv

(* A file that is changed under a reference is touched.                     *)
LEMMA EditFileStep == ContextInv /\ EditFile => ContextInv'
<1> SUFFICES ASSUME ContextInv, EditFile PROVE ContextInv'
  OBVIOUS
<1>0. /\ ContextTypes /\ RefsInv /\ AllRefsInv /\ InspectInv /\ ExtractInv /\ reading \notin {"extracted", "refused"}
      /\ UNCHANGED <<format, reading, paths, size, bytes, chars, references, next_ref, sections>>
  BY DEF ContextInv, EditFile
<1>1. PICK f \in {"deck", "note"}, to \in Contents \cup {Gone, Link} :
        disk' = [disk EXCEPT ![f] = to] /\ touched' = touched \cup {f}
  BY DEF EditFile
<1>2. /\ disk' \in [Names -> Contents \cup {Gone, Link}]
      /\ \A g \in Names : g \notin touched' => g \notin touched /\ disk'[g] = disk[g]
  BY <1>0, <1>1 DEF ContextTypes, Names
<1>3. ContextTypes'
  BY <1>0, <1>2 DEF ContextTypes
<1>4. \A k \in DOMAIN references : references[k].path \in Names
  <2>1. \A k \in DOMAIN references : references[k] \in RefSet
    BY <1>0 DEF ContextTypes
  <2> QED BY <2>1, RefIs
<1>5. RefsInv'
  BY <1>0, <1>2, <1>4 DEF RefsInv
<1>6. AllRefsInv'
  BY <1>0 DEF AllRefsInv
<1>7. InspectInv'
  <2>1. \A file : InHand(file) => InHand(file)'
    <3> TAKE file
    <3>1. Extension(file)' = Extension(file)
      BY <1>0 DEF Extension
    <3> QED BY <1>0, <1>2, <3>1 DEF InHand
  <2>2. reading = "inspect" /\ size # 0 => paths # <<>> /\ \A file : file = canonicalize(Head(paths)) => InHand(file)'
    BY <1>0, <2>1 DEF InspectInv
  <2>3. /\ reading \in {"idle", "attached"} => size = 0
        /\ reading = "idle" => references = <<>>
        /\ reading \in {"idle", "inspect"} =>
              /\ bytes = Total(RefSizes(references, Len(references))) + size /\ bytes <= MaxTotal
              /\ chars = Total(RefLetters(references, Len(references)))
        /\ reading \in {"idle", "inspect", "attached"} => next_ref = 0 /\ sections = <<>>
    BY <1>0 DEF InspectInv
  <2> QED BY <1>0, <2>2, <2>3 DEF InspectInv
<1>8. ExtractInv'
  <2>1. touched \subseteq touched'
    BY <1>1
  <2> QED BY <1>0, <2>1 DEF ExtractInv
<1>9. NoFalseAlarm'
  BY <1>0 DEF NoFalseAlarm
<1> QED BY <1>3, <1>5, <1>6, <1>7, <1>8, <1>9 DEF ContextInv

(* Every step of the context documents keeps their invariant.               *)
LEMMA ContextStep == ContextInv /\ [ContextNext]_contextVars => ContextInv'
<1>1. ContextInv /\ UNCHANGED contextVars => ContextInv'
  <2> SUFFICES ASSUME ContextInv, UNCHANGED contextVars PROVE ContextInv'
    OBVIOUS
  <2>0. UNCHANGED <<format, disk, reading, paths, size, bytes, chars, references, next_ref, sections, edits, touched>>
    BY DEF contextVars
  <2>1. ContextTypes' /\ ExtractInv' /\ NoFalseAlarm'
    BY <2>0 DEF ContextInv, ContextTypes, ExtractInv, NoFalseAlarm
  <2>2. InspectInv'
    <3>1. \A file : InHand(file) => InHand(file)'
      BY <2>0 DEF InHand, Extension
    <3> QED BY <2>0, <3>1 DEF ContextInv, InspectInv
  <2> QED BY <2>0, <2>1, <2>2, RefsKept DEF ContextInv
<1> QED BY <1>1, InspectPathsStep, InspectSizeStep, InspectBytesStep, AttachStep, ExtractReferencesStep,
           ExtractSizeStep, ExtractBytesStep, ExtractedStep, EditFileStep DEF ContextNext

(* The invariant gives ContextSound.                                        *)
LEMMA ContextInvSound == ContextInv => ContextSound
<1> SUFFICES ASSUME ContextInv PROVE TextAsAttached
  BY DEF ContextSound, ContextInv
<1>1. SUFFICES ASSUME reading \in {"extract", "extracted"}
               PROVE  /\ sections = FlattenSeq([k \in 1 .. next_ref - 1 |-> SectionsOf(k, Units(references[k].type, references[k].hash))])
                      /\ \A i, j \in DOMAIN sections : i < j => sections[i][1] < sections[j][1] \/ sections[i][2] < sections[j][2]
                      /\ \A k \in 1 .. next_ref - 1 : references[k].size <= MaxFile
                      /\ Total([k \in 1 .. next_ref - 1 |-> references[k].size]) <= MaxTotal
                      /\ Total([i \in DOMAIN sections |-> sections[i][3]]) <= MaxChars
  BY DEF TextAsAttached
<1>2. /\ references \in Seq(RefSet) /\ next_ref \in 1 .. Len(references) + 1 /\ Len(references) \in Nat
      /\ sections = FlattenSeq(Pieces(references, next_ref - 1)) /\ Ordered(sections, next_ref)
      /\ chars = Total(SectionChars(sections)) /\ chars <= MaxChars
      /\ RefsInv /\ AllRefsInv
  BY <1>1 DEF ContextInv, ExtractInv, ContextTypes
<1>3. \A k \in 1 .. next_ref - 1 : references[k].size <= MaxFile
  <2>1. \A k \in 1 .. next_ref - 1 : k \in DOMAIN references
    BY <1>2
  <2> QED BY <1>2, <2>1 DEF RefsInv
<1>4. Total(RefSizes(references, next_ref - 1)) <= MaxTotal
  <2>1. next_ref - 1 \in 0 .. Len(references) /\ Len(references) \in 0 .. Len(references)
    BY <1>2
  <2>2. /\ Total(RefSizes(references, next_ref - 1)) \in Nat
        /\ Total(RefSizes(references, next_ref - 1)) <= Total(RefSizes(references, Len(references)))
        /\ Total(RefSizes(references, Len(references))) \in Nat
    BY <1>2, <2>1, RefTotals
  <2> QED BY <1>2, <2>2, ContextAssumption DEF AllRefsInv
<1> QED BY <1>2, <1>3, <1>4 DEF Pieces, Ordered, RefSizes, SectionChars

-----------------------------------------------------------------------------
(* The directories of snapshots.                                            *)

RunStages == {"idle", "clean", "removing", "made", "leased", "undoing", "open", "using", "dropping",
           "done", "dead"}

WorkspaceTypes ==
    /\ folders \in SUBSET Procs /\ leases \in SUBSET Procs
    /\ held \in SUBSET Procs /\ sources \in SUBSET Procs
    /\ cleanup \in Procs \cup {Nobody}
    /\ runner \in [Procs -> RunStages]
    /\ todo \in [Procs -> SUBSET Procs]
    /\ target \in [Procs -> Procs \cup {Nobody}]
    /\ stale \in [Procs -> SUBSET Procs]

\* The stages between the acquisition and the release of the cleanup lock.
LockStages == {"clean", "removing", "made", "leased", "undoing"}
LockInv == \A p \in Procs : runner[p] \in LockStages => cleanup = p

\* What a process knows of its own directory, by its stage.
OwnInv == \A p \in Procs :
    /\ runner[p] \in {"idle", "clean", "removing"} => p \notin folders /\ p \notin leases /\ p \notin sources
    /\ runner[p] \in {"made", "leased", "open", "using"} => p \in folders
    /\ runner[p] \in {"leased", "open", "using"} => p \in leases
    /\ runner[p] \in {"made", "leased"} => p \notin sources
    /\ runner[p] = "made" => p \notin leases
    /\ runner[p] \in {"open", "using"} => p \in held
    /\ runner[p] = "using" => p \in sources
    /\ runner[p] = "dead" => p \notin held
    /\ p \in leases => p \in folders

\* What a process removes is its own, or that of a run that is over.
OverStages == {"dropping", "undoing", "done", "dead"}
TargetInv == \A p \in Procs :
    /\ runner[p] \in {"idle", "clean", "made", "leased", "open", "using"} => target[p] = Nobody
    /\ runner[p] \in {"dropping", "undoing"} => target[p] = p
    /\ runner[p] = "removing" => /\ target[p] \in Procs /\ target[p] \notin todo[p]
                                 /\ runner[target[p]] \in OverStages

\* What was stale when a process took the lock is still to be looked at, or is
\* being removed, or is gone.
Removed(d) == d \notin sources /\ d \notin folders /\ d \notin leases
LiveStages == {"clean", "removing", "made", "leased", "open", "using"}
DebrisInv == \A p \in Procs :
    /\ runner[p] \in {"made", "leased", "open", "using"} => todo[p] = {}
    /\ \A d \in stale[p] :
          /\ runner[d] = "dead"
          /\ runner[p] \in {"clean", "removing"} /\ d \in todo[p] => d \in leases
          /\ runner[p] \in LiveStages /\ d \notin todo[p] /\ ~(runner[p] = "removing" /\ target[p] = d)
             => Removed(d)

WorkspacesInv == WorkspaceTypes /\ LockInv /\ OwnInv /\ TargetInv /\ DebrisInv /\ LeaselessSource

-----------------------------------------------------------------------------
\* A step of one process.
RunActs(p) ==
    \/ LockCleanup(p) \/ Inspect(p) \/ CleanupFails(p) \/ RemoveEntry(p) \/ RemoveDirectory(p)
    \/ MakeDirectory(p) \/ MakeLease(p) \/ LockLease(p) \/ LeaseFails(p)
    \/ SnapshotRepository(p) \/ DropWorkspace(p) \/ Die(p)

(* Nothing is there, locked or being removed before the first run.          *)
LEMMA WorkspacesInitInv == WorkspacesInit => WorkspacesInv
<1> SUFFICES ASSUME WorkspacesInit PROVE WorkspacesInv
  OBVIOUS
<1> USE NobodyAssumption DEF WorkspacesInit
<1>1. WorkspaceTypes
  BY DEF WorkspaceTypes, RunStages
<1>2. LockInv /\ OwnInv /\ TargetInv
  BY DEF LockInv, OwnInv, TargetInv, LockStages
<1>3. DebrisInv /\ LeaselessSource
  BY DEF DebrisInv, LeaselessSource, LiveStages, Removed
<1> QED BY <1>1, <1>2, <1>3 DEF WorkspacesInv

(* What the process that removes a directory removes is the directory of a *)
(* run that is over.                                                       *)
LEMMA RemovedIsOver ==
  ASSUME WorkspacesInv, NEW p \in Procs, Removing(p)
  PROVE  target[p] \in Procs /\ runner[target[p]] \in OverStages
BY DEF WorkspacesInv, TargetInv, Removing, At, OverStages

(* Every action leaves values of the right kind.                            *)
LEMMA WorkspaceTypeStep == ASSUME WorkspacesInv, NEW p \in Procs, RunActs(p) PROVE WorkspaceTypes'
<1> USE NobodyAssumption DEF WorkspacesInv, WorkspaceTypes, RunStages, directories, At, Goes
<1>1. CASE LockCleanup(p)
  BY <1>1 DEF LockCleanup
<1>2. CASE Inspect(p)
  BY <1>2 DEF Inspect
<1>3. CASE CleanupFails(p)
  BY <1>3 DEF CleanupFails
<1>4. CASE RemoveEntry(p)
  BY <1>4, RemovedIsOver DEF RemoveEntry, Removing
<1>5. CASE RemoveDirectory(p)
  BY <1>5, RemovedIsOver DEF RemoveDirectory, Removing
<1>6. CASE MakeDirectory(p)
  BY <1>6 DEF MakeDirectory
<1>7. CASE MakeLease(p)
  BY <1>7 DEF MakeLease
<1>8. CASE LockLease(p)
  BY <1>8 DEF LockLease
<1>9. CASE LeaseFails(p)
  BY <1>9 DEF LeaseFails
<1>10. CASE SnapshotRepository(p)
  BY <1>10 DEF SnapshotRepository
<1>11. CASE DropWorkspace(p)
  BY <1>11 DEF DropWorkspace
<1>12. CASE Die(p)
  BY <1>12 DEF Die
<1> QED BY <1>1, <1>2, <1>3, <1>4, <1>5, <1>6, <1>7, <1>8, <1>9, <1>10, <1>11, <1>12 DEF RunActs

(* Only the holder of the cleanup lock is between its acquisition and its   *)
(* release.                                                                 *)
LEMMA CleanupLockStep == ASSUME WorkspacesInv, NEW p \in Procs, RunActs(p) PROVE LockInv'
<1> USE NobodyAssumption DEF WorkspacesInv, WorkspaceTypes, LockInv, LockStages, directories, At, Goes
<1>1. CASE LockCleanup(p)
  BY <1>1 DEF LockCleanup
<1>2. CASE Inspect(p)
  BY <1>2 DEF Inspect
<1>3. CASE CleanupFails(p)
  BY <1>3 DEF CleanupFails
<1>4. CASE RemoveEntry(p)
  BY <1>4, RemovedIsOver DEF RemoveEntry, Removing
<1>5. CASE RemoveDirectory(p)
  BY <1>5, RemovedIsOver DEF RemoveDirectory, Removing
<1>6. CASE MakeDirectory(p)
  BY <1>6 DEF MakeDirectory
<1>7. CASE MakeLease(p)
  BY <1>7 DEF MakeLease
<1>8. CASE LockLease(p)
  BY <1>8 DEF LockLease
<1>9. CASE LeaseFails(p)
  BY <1>9 DEF LeaseFails
<1>10. CASE SnapshotRepository(p)
  BY <1>10 DEF SnapshotRepository
<1>11. CASE DropWorkspace(p)
  BY <1>11 DEF DropWorkspace
<1>12. CASE Die(p)
  BY <1>12 DEF Die
<1> QED BY <1>1, <1>2, <1>3, <1>4, <1>5, <1>6, <1>7, <1>8, <1>9, <1>10, <1>11, <1>12 DEF RunActs

(* No step of another process touches what a run knows of its directory.    *)
LEMMA OwnStep == ASSUME WorkspacesInv, NEW p \in Procs, RunActs(p) PROVE OwnInv'
<1> USE NobodyAssumption DEF WorkspacesInv, WorkspaceTypes, OwnInv, directories, At, Goes
<1>1. CASE LockCleanup(p)
  BY <1>1 DEF LockCleanup
<1>2. CASE Inspect(p)
  BY <1>2 DEF Inspect
<1>3. CASE CleanupFails(p)
  BY <1>3 DEF CleanupFails
<1>4. CASE RemoveEntry(p)
  BY <1>4, RemovedIsOver DEF RemoveEntry, Removing, OverStages
<1>5. CASE RemoveDirectory(p)
  BY <1>5, RemovedIsOver DEF RemoveDirectory, Removing, OverStages
<1>6. CASE MakeDirectory(p)
  BY <1>6 DEF MakeDirectory
<1>7. CASE MakeLease(p)
  BY <1>7 DEF MakeLease
<1>8. CASE LockLease(p)
  BY <1>8 DEF LockLease
<1>9. CASE LeaseFails(p)
  BY <1>9 DEF LeaseFails
<1>10. CASE SnapshotRepository(p)
  BY <1>10 DEF SnapshotRepository
<1>11. CASE DropWorkspace(p)
  BY <1>11 DEF DropWorkspace
<1>12. CASE Die(p)
  BY <1>12 DEF Die
<1> QED BY <1>1, <1>2, <1>3, <1>4, <1>5, <1>6, <1>7, <1>8, <1>9, <1>10, <1>11, <1>12 DEF RunActs

(* The cleanup picks the directory of a run that is over, and a run that is *)
(* over stays so.                                                           *)
LEMMA TargetStep == ASSUME WorkspacesInv, NEW p \in Procs, RunActs(p) PROVE TargetInv'
<1> USE NobodyAssumption DEF WorkspacesInv, WorkspaceTypes, TargetInv, OverStages, directories, At, Goes
<1>1. CASE LockCleanup(p)
  BY <1>1 DEF LockCleanup
<1>2. CASE Inspect(p)
  BY <1>2 DEF Inspect, LockInv, LockStages, OwnInv, RunStages
<1>3. CASE CleanupFails(p)
  BY <1>3 DEF CleanupFails
<1>4. CASE RemoveEntry(p)
  BY <1>4, RemovedIsOver DEF RemoveEntry, Removing
<1>5. CASE RemoveDirectory(p)
  BY <1>5, RemovedIsOver DEF RemoveDirectory, Removing
<1>6. CASE MakeDirectory(p)
  BY <1>6 DEF MakeDirectory
<1>7. CASE MakeLease(p)
  BY <1>7 DEF MakeLease
<1>8. CASE LockLease(p)
  BY <1>8 DEF LockLease
<1>9. CASE LeaseFails(p)
  BY <1>9 DEF LeaseFails
<1>10. CASE SnapshotRepository(p)
  BY <1>10 DEF SnapshotRepository
<1>11. CASE DropWorkspace(p)
  BY <1>11 DEF DropWorkspace
<1>12. CASE Die(p)
  BY <1>12 DEF Die
<1> QED BY <1>1, <1>2, <1>3, <1>4, <1>5, <1>6, <1>7, <1>8, <1>9, <1>10, <1>11, <1>12 DEF RunActs

(* What was stale stays on the list, or is removed, or is gone.             *)
LEMMA DebrisStep == ASSUME WorkspacesInv, NEW p \in Procs, RunActs(p) PROVE DebrisInv'
<1> USE NobodyAssumption DEF WorkspacesInv, WorkspaceTypes, DebrisInv, LiveStages, Removed, directories, At, Goes
<1>1. CASE LockCleanup(p)
  BY <1>1 DEF LockCleanup, OwnInv
<1>2. CASE Inspect(p)
  BY <1>2 DEF Inspect, OwnInv, TargetInv
<1>3. CASE CleanupFails(p)
  BY <1>3 DEF CleanupFails, Removing
<1>4. CASE RemoveEntry(p)
  BY <1>4, RemovedIsOver DEF RemoveEntry, Removing, TargetInv, LockInv, LockStages
<1>5. CASE RemoveDirectory(p)
  BY <1>5, RemovedIsOver DEF RemoveDirectory, Removing, TargetInv, LockInv, LockStages
<1>6. CASE MakeDirectory(p)
  BY <1>6 DEF MakeDirectory
<1>7. CASE MakeLease(p)
  BY <1>7 DEF MakeLease
<1>8. CASE LockLease(p)
  BY <1>8 DEF LockLease
<1>9. CASE LeaseFails(p)
  BY <1>9 DEF LeaseFails
<1>10. CASE SnapshotRepository(p)
  BY <1>10 DEF SnapshotRepository
<1>11. CASE DropWorkspace(p)
  BY <1>11 DEF DropWorkspace
<1>12. CASE Die(p)
  BY <1>12 DEF Die
<1> QED BY <1>1, <1>2, <1>3, <1>4, <1>5, <1>6, <1>7, <1>8, <1>9, <1>10, <1>11, <1>12 DEF RunActs

(* A lease file is removed only by a process that has set out to remove the *)
(* directory, and source appears only next to a lease file.                 *)
LEMMA LeaselessStep == ASSUME WorkspacesInv, NEW p \in Procs, RunActs(p) PROVE LeaselessSource'
<1> USE NobodyAssumption DEF WorkspacesInv, WorkspaceTypes, LeaselessSource, TargetInv, directories, At, Goes
<1>1. CASE LockCleanup(p)
  BY <1>1 DEF LockCleanup
<1>2. CASE Inspect(p)
  BY <1>2 DEF Inspect
<1>3. CASE CleanupFails(p)
  BY <1>3 DEF CleanupFails
<1>4. CASE RemoveEntry(p)
  BY <1>4, RemovedIsOver DEF RemoveEntry, Removing
<1>5. CASE RemoveDirectory(p)
  BY <1>5, RemovedIsOver DEF RemoveDirectory, Removing
<1>6. CASE MakeDirectory(p)
  BY <1>6 DEF MakeDirectory
<1>7. CASE MakeLease(p)
  BY <1>7 DEF MakeLease
<1>8. CASE LockLease(p)
  BY <1>8 DEF LockLease
<1>9. CASE LeaseFails(p)
  BY <1>9 DEF LeaseFails
<1>10. CASE SnapshotRepository(p)
  BY <1>10 DEF SnapshotRepository, OwnInv
<1>11. CASE DropWorkspace(p)
  BY <1>11 DEF DropWorkspace
<1>12. CASE Die(p)
  BY <1>12 DEF Die
<1> QED BY <1>1, <1>2, <1>3, <1>4, <1>5, <1>6, <1>7, <1>8, <1>9, <1>10, <1>11, <1>12 DEF RunActs

-----------------------------------------------------------------------------
(* The inductive invariant gives the three parts of WorkspacesSound.        *)
LEMMA WorkspacesInvSound == WorkspacesInv => WorkspacesSound
<1> SUFFICES ASSUME WorkspacesInv PROVE WorkspacesSound
  OBVIOUS
<1>1. LiveSnapshotIntact
  BY DEF LiveSnapshotIntact, WorkspacesInv, OwnInv, At
<1>2. DebrisCleaned
  BY DEF DebrisCleaned, WorkspacesInv, WorkspaceTypes, DebrisInv, LiveStages, Removed, At
<1> QED BY <1>1, <1>2 DEF WorkspacesSound, WorkspacesInv

(* Every step of any process keeps the invariant.                           *)
LEMMA WorkspacesStep == WorkspacesInv /\ [WorkspacesNext]_workspaceVars => WorkspacesInv'
<1> SUFFICES ASSUME WorkspacesInv, [WorkspacesNext]_workspaceVars PROVE WorkspacesInv'
  OBVIOUS
<1>1. CASE WorkspacesNext
  <2>1. PICK p \in Procs : RunActs(p)
    BY <1>1 DEF WorkspacesNext, RunActs
  <2> QED BY <2>1, WorkspaceTypeStep, CleanupLockStep, OwnStep, TargetStep, DebrisStep, LeaselessStep DEF WorkspacesInv
<1>2. CASE UNCHANGED workspaceVars
  BY <1>2 DEF workspaceVars, directories, WorkspacesInv, WorkspaceTypes, LockInv, OwnInv, TargetInv, DebrisInv,
     Removed, LeaselessSource
<1> QED BY <1>1, <1>2

-----------------------------------------------------------------------------
(* The five parts together.                                                 *)

(* A step of the documents is a step of one part, and leaves the others.    *)
LEMMA PartSteps ==
  ASSUME [DocumentsNext]_<<subject, documentVars>>
  PROVE  /\ [StreamNext]_streamVars /\ [HistoryNext]_historyVars /\ [RepositoryNext]_repositoryVars
         /\ [WorkspacesNext]_workspaceVars /\ [ContextNext]_contextVars
<1>1. \/ StreamNext /\ UNCHANGED <<historyVars, repositoryVars, workspaceVars, contextVars>>
      \/ HistoryNext /\ UNCHANGED <<streamVars, repositoryVars, workspaceVars, contextVars>>
      \/ RepositoryNext /\ UNCHANGED <<streamVars, historyVars, workspaceVars, contextVars>>
      \/ WorkspacesNext /\ UNCHANGED <<streamVars, historyVars, repositoryVars, contextVars>>
      \/ ContextNext /\ UNCHANGED <<streamVars, historyVars, repositoryVars, workspaceVars>>
      \/ UNCHANGED <<streamVars, historyVars, repositoryVars, workspaceVars, contextVars>>
  BY DEF DocumentsNext, documentVars
<1> QED BY <1>1

(* The documents begin where each part does.                                *)
LEMMA PartInits ==
  DocumentsInit => StreamInit /\ HistoryInit /\ RepositoryInit /\ WorkspacesInit /\ ContextInit
BY DEF DocumentsInit

(* However many lines a provider writes and whatever the limit: what a      *)
(* Claude or Grok run returns is its last result, the feed shows no host    *)
(* path and no traversal and gives a file one ordinal, and a reason that    *)
(* Codex named in a line that is kept is never reported as a mere exit.     *)
THEOREM StreamIsSound == DocumentsSpec => []StreamSound
<1>1. DocumentsInit => StreamInv
  BY PartInits, StreamInitInv
<1>2. StreamInv /\ [DocumentsNext]_<<subject, documentVars>> => StreamInv'
  BY PartSteps, StreamStep
<1> QED BY <1>1, <1>2, StreamInvSound, PTL DEF DocumentsSpec

(* For every window and page size, and whatever is recorded, deleted or     *)
(* approved between two requests: a reader who pages to the end has seen    *)
(* every report that was there at the start and still is, none twice; the   *)
(* finding of a report says what its cell in the heatmap says; and a change *)
(* is only claimed between two reports that could assess the goal.          *)
THEOREM HistoryIsSound == DocumentsSpec => []HistorySound
<1>1. DocumentsInit => HistoryInv
  BY PartInits, PageInitInv, GoalsInitInv DEF HistoryInv
<1>2. HistoryInv /\ [DocumentsNext]_<<subject, documentVars>> => HistoryInv'
  BY PartSteps, HistoryStep
<1> QED BY <1>1, <1>2, HistoryInvSound, PTL DEF DocumentsSpec

(* For every limit: a snapshot that is handed out has the content of every  *)
(* blob that is not oversized and no more in all than is allowed, evidence  *)
(* names lines that exist and reads back as it was bound, the screen names  *)
(* exactly the fields that quote the source, no Git process outlives its    *)
(* command, and cut output is never passed off as whole.                    *)
THEOREM RepositoryIsSound == DocumentsSpec => []RepositorySound
<1>1. DocumentsInit => RepoInv
  BY PartInits, RepoInit
<1>2. RepoInv /\ [DocumentsNext]_<<subject, documentVars>> => RepoInv'
  BY PartSteps, RepoStep
<1> QED BY <1>1, <1>2, RepoInvSound, PTL DEF DocumentsSpec

(* repository.rs, new_in, the cleanup and Drop, for any number of processes *)
(* and deaths: no live run loses its snapshot, the next run has removed     *)
(* what a dead one left under its lease, and source without a lease is only *)
(* left by a process that set out to remove it.                             *)
THEOREM SnapshotsSound == DocumentsSpec => []WorkspacesSound
<1>1. DocumentsInit => WorkspacesInv
  BY PartInits, WorkspacesInitInv
<1>2. WorkspacesInv /\ [DocumentsNext]_<<subject, documentVars>> => WorkspacesInv'
  BY PartSteps, WorkspacesStep
<1> QED BY <1>1, <1>2, WorkspacesInvSound, PTL DEF DocumentsSpec

(* For every limit and any number of edits at any moment: the text that     *)
(* reaches a goal prompt is the text that was inspected, all of it, in      *)
(* order and within the limits, and a refusal that names a change is only   *)
(* given when an attached file was touched.                                 *)
THEOREM ContextIsSound == DocumentsSpec => []ContextSound
<1>1. DocumentsInit => ContextInv
  BY PartInits, ContextInitInv
<1>2. ContextInv /\ [DocumentsNext]_<<subject, documentVars>> => ContextInv'
  BY PartSteps, ContextStep
<1> QED BY <1>1, <1>2, ContextInvSound, PTL DEF DocumentsSpec
=============================================================================
