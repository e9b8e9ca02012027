--------------------------- MODULE SequenceLemmas ---------------------------
(***************************************************************************)
(* Facts about sequences that the proofs of several components cite.        *)
(*                                                                         *)
(* What FlattenSeq computes is proved by induction.  The induction theorems *)
(* of the library take the property as an operator; here a property is the  *)
(* set of its values, and induction is the fact that such a set is the      *)
(* whole of Nat, which follows from the well-foundedness of < on Nat.       *)
(***************************************************************************)
EXTENDS Naturals, Lists, WellFoundedInduction, TLAPS

(* A sequence is its head and its tail.                                    *)
LEMMA HeadTail ==
    ASSUME NEW A, NEW s \in Seq(A), s # <<>>
    PROVE  /\ Head(s) \in A /\ Tail(s) \in Seq(A)
           /\ s = <<Head(s)>> \o Tail(s)
  OBVIOUS

LEMMA AppendIsConcat ==
    ASSUME NEW A, NEW s \in Seq(A), NEW a \in A
    PROVE  Append(s, a) = s \o <<a>> /\ <<a>> \in Seq(A) /\ Append(s, a) \in Seq(A)
  OBVIOUS

LEMMA ConcatType ==
    ASSUME NEW A, NEW s \in Seq(A), NEW t \in Seq(A)
    PROVE  s \o t \in Seq(A) /\ Len(s \o t) = Len(s) + Len(t)
  OBVIOUS

LEMMA ConcatEmpty ==
    ASSUME NEW A, NEW s \in Seq(A)
    PROVE  s \o <<>> = s /\ <<>> \o s = s
  OBVIOUS

LEMMA ConcatAssociative ==
    ASSUME NEW A, NEW s \in Seq(A), NEW t \in Seq(A), NEW u \in Seq(A)
    PROVE  (s \o t) \o u = s \o (t \o u)
  OBVIOUS

LEMMA PrefixOfConcat ==
    ASSUME NEW A, NEW s \in Seq(A), NEW t \in Seq(A)
    PROVE  IsPrefix(s, s \o t)
  BY DEF IsPrefix

-----------------------------------------------------------------------------
(* Every set of numbers that is not empty has a least element.              *)
LEMMA Least == ASSUME NEW T \in SUBSET Nat, T # {} PROVE \E n \in T : \A k \in T : n <= k
<1> DEFINE R == OpToRel(<, Nat)
<1>1. IsWellFoundedOn(R, Nat)
  BY NatLessThanWellFounded, Zenon
<1>3. \A x, y \in Nat : <<y, x>> \in R <=> y < x
  BY DEF OpToRel
<1> HIDE DEF R
<1>4. PICK n \in T : \A k \in T : ~(<<k, n>> \in R)
  BY <1>1, WFMin
<1>5. ASSUME NEW k \in T PROVE n <= k
  <2>1. n \in Nat /\ k \in Nat
    OBVIOUS
  <2>2. ~(k < n)
    BY <1>3, <1>4, <2>1, Zenon
  <2> QED
    BY <2>1, <2>2
<1> QED
  BY <1>5

(* Induction, as a fact about sets: a set that has 0 and with each number    *)
(* the next one is Nat.                                                     *)
LEMMA Induction == ASSUME NEW S \in SUBSET Nat, 0 \in S, \A n \in S : n + 1 \in S PROVE S = Nat
<1> SUFFICES ASSUME Nat \ S # {} PROVE FALSE
  OBVIOUS
<1>1. PICK n \in Nat \ S : \A k \in Nat \ S : n <= k
  BY Least
<1>2. n # 0 /\ n - 1 \in Nat
  BY <1>1
<1>3. n - 1 \in S
  BY <1>1, <1>2
<1> QED
  BY <1>1, <1>2, <1>3

(* f[1], ..., f[n] are the steps of the recursion of FlattenSeq(ss).        *)
Steps(ss, f, n) == \A i \in 1 .. n : f[i] = IF i = 1 THEN ss[i] ELSE f[i - 1] \o ss[i]

(* There is a family with the steps of the recursion, by induction on its   *)
(* length.                                                                 *)
LEMMA StepsExist == ASSUME NEW A, NEW ss \in Seq(Seq(A)), Len(ss) # 0
   PROVE \E f \in [1 .. Len(ss) -> Seq(A)] : Steps(ss, f, Len(ss))
<1> DEFINE S == {n \in Nat : n < Len(ss) => \E f \in [1 .. n + 1 -> Seq(A)] : Steps(ss, f, n + 1)}
<1>0. \A i \in 1 .. Len(ss) : ss[i] \in Seq(A)
  OBVIOUS
<1>1. 0 \in S
  <2> DEFINE f == [i \in 1 .. 1 |-> ss[1]]
  <2>1. f \in [1 .. 0 + 1 -> Seq(A)] /\ Steps(ss, f, 0 + 1)
    BY <1>0 DEF Steps
  <2> QED
    BY <2>1
<1>2. ASSUME NEW n \in S PROVE n + 1 \in S
  <2> SUFFICES ASSUME n + 1 < Len(ss)
        PROVE \E f \in [1 .. (n + 1) + 1 -> Seq(A)] : Steps(ss, f, (n + 1) + 1)
    OBVIOUS
  <2>1. PICK f \in [1 .. n + 1 -> Seq(A)] : Steps(ss, f, n + 1)
    OBVIOUS
  <2>n. n \in Nat /\ n + 1 < Len(ss)
    OBVIOUS
  <2> HIDE DEF S
  <2> DEFINE g == [i \in 1 .. (n + 1) + 1 |-> IF i = n + 2 THEN f[n + 1] \o ss[n + 2] ELSE f[i]]
  <2>2. g \in [1 .. (n + 1) + 1 -> Seq(A)]
    <3>1. f[n + 1] \o ss[n + 2] \in Seq(A)
      BY <1>0, <2>n
    <3> QED
      BY <2>n, <3>1
  <2>3. Steps(ss, g, (n + 1) + 1)
    <3> SUFFICES ASSUME NEW i \in 1 .. (n + 1) + 1
          PROVE g[i] = IF i = 1 THEN ss[i] ELSE g[i - 1] \o ss[i]
      BY DEF Steps
    <3>1. CASE i = n + 2
      <4>1. g[i] = f[n + 1] \o ss[n + 2] /\ g[n + 1] = f[n + 1]
        <5>1. n + 1 \in 1 .. (n + 1) + 1 /\ n + 1 # n + 2
          BY <2>n
        <5>2. g[i] = f[n + 1] \o ss[n + 2]
          BY <3>1, Zenon
        <5>3. g[n + 1] = f[n + 1]
          BY <5>1
        <5> QED
          BY <5>2, <5>3
      <4>2. i # 1 /\ i - 1 = n + 1
        BY <2>n, <3>1
      <4>3. ss[i] = ss[n + 2] /\ g[i - 1] = f[n + 1]
        <5> HIDE DEF g
        <5> QED
          BY <3>1, <4>1, <4>2, Zenon
      <4> HIDE DEF g
      <4>4. g[i] = g[i - 1] \o ss[i]
        BY <4>1, <4>3, Zenon
      <4> QED
        BY <4>2, <4>4, Zenon
    <3>2. CASE i \in 1 .. n + 1
      <4>1. f[i] = IF i = 1 THEN ss[i] ELSE f[i - 1] \o ss[i]
        BY <2>1, <3>2 DEF Steps
      <4>2. g[i] = f[i] /\ (i # 1 => g[i - 1] = f[i - 1])
        <5>1. i \in 1 .. (n + 1) + 1 /\ i # n + 2
          BY <2>n, <3>2
        <5>2. i # 1 => i - 1 \in 1 .. (n + 1) + 1 /\ i - 1 # n + 2
          BY <2>n, <3>2
        <5> QED
          BY <5>1, <5>2
      <4> HIDE DEF g
      <4>3. CASE i = 1
        BY <4>1, <4>2, <4>3
      <4>4. CASE i # 1
        BY <4>1, <4>2, <4>4, Zenon
      <4> QED
        BY <4>3, <4>4
    <3> QED
      BY <2>n, <3>1, <3>2
  <2> QED
    BY <2>2, <2>3
<1>3. S = Nat
  <2> HIDE DEF S
  <2>1. S \in SUBSET Nat
    BY DEF S
  <2> QED
    BY <1>1, <1>2, <2>1, Induction
<1>4. Len(ss) - 1 \in S
  BY <1>3
<1> QED
  BY <1>4


(* Two families with the same steps agree.                                 *)
LEMMA StepsUnique == ASSUME NEW A, NEW ss \in Seq(Seq(A)), Len(ss) # 0,
        NEW f \in [1 .. Len(ss) -> Seq(A)], Steps(ss, f, Len(ss)), NEW g, Steps(ss, g, Len(ss))
   PROVE g[Len(ss)] = f[Len(ss)]
<1> DEFINE S == {n \in Nat : n < Len(ss) => g[n + 1] = f[n + 1]}
<1>1. S = Nat
  <2>1. 0 \in S
    <3>1. 1 \in 1 .. Len(ss)
      OBVIOUS
    <3>2. f[1] = ss[1] /\ g[1] = ss[1]
      BY <3>1 DEF Steps
    <3> QED
      BY <3>2
  <2>2. ASSUME NEW n \in S PROVE n + 1 \in S
    <3> SUFFICES ASSUME n + 1 < Len(ss) PROVE g[n + 2] = f[n + 2]
      OBVIOUS
    <3>1. n + 2 \in 1 .. Len(ss) /\ n + 2 # 1 /\ (n + 2) - 1 = n + 1
      OBVIOUS
    <3>2. f[n + 2] = f[n + 1] \o ss[n + 2] /\ g[n + 2] = g[n + 1] \o ss[n + 2]
      BY <3>1 DEF Steps
    <3>3. g[n + 1] = f[n + 1]
      OBVIOUS
    <3> QED
      BY <3>2, <3>3, Zenon
  <2>3. S \in SUBSET Nat
    OBVIOUS
  <2> HIDE DEF S
  <2> QED
    BY <2>1, <2>2, <2>3, Induction
<1>2. Len(ss) - 1 \in Nat /\ (Len(ss) - 1) + 1 = Len(ss)
  OBVIOUS
<1>3. Len(ss) - 1 \in S
  BY <1>1, <1>2
<1> QED
  BY <1>2, <1>3

(* FlattenSeq has the steps of its recursion.                              *)
LEMMA FlattenSteps == ASSUME NEW A, NEW ss \in Seq(Seq(A)), Len(ss) # 0
   PROVE \E f \in [1 .. Len(ss) -> Seq(A)] : Steps(ss, f, Len(ss)) /\ FlattenSeq(ss) = f[Len(ss)]
<1> DEFINE body(f) == [i \in 1 .. Len(ss) |-> IF i = 1 THEN ss[i] ELSE f[i - 1] \o ss[i]]
           flatten == CHOOSE f : f = body(f)
<1>1. PICK f \in [1 .. Len(ss) -> Seq(A)] : Steps(ss, f, Len(ss))
  BY StepsExist
<1>2. f = body(f)
  BY <1>1 DEF Steps
<1>3. flatten = body(flatten)
  BY <1>2
<1>4. FlattenSeq(ss) = flatten[Len(ss)]
  BY DEF FlattenSeq
<1> HIDE DEF flatten
<1>5. Steps(ss, flatten, Len(ss))
  BY <1>3 DEF Steps
<1>6. flatten[Len(ss)] = f[Len(ss)]
  BY <1>1, <1>5, StepsUnique
<1> QED
  BY <1>1, <1>4, <1>6

(* FlattenSeq yields a sequence of the elements, nothing for nothing, and   *)
(* the last sequence last.                                                 *)
LEMMA FlattenType == ASSUME NEW A, NEW ss \in Seq(Seq(A)) PROVE FlattenSeq(ss) \in Seq(A)
<1>1. CASE Len(ss) = 0
  BY <1>1 DEF FlattenSeq
<1>2. CASE Len(ss) # 0
  <2>1. PICK f \in [1 .. Len(ss) -> Seq(A)] : FlattenSeq(ss) = f[Len(ss)]
    BY <1>2, FlattenSteps, Zenon
  <2>2. Len(ss) \in 1 .. Len(ss)
    BY <1>2
  <2> QED
    BY <2>1, <2>2
<1> QED
  BY <1>1, <1>2

LEMMA FlattenEmpty == FlattenSeq(<<>>) = <<>>
  BY DEF FlattenSeq

LEMMA FlattenAppend == ASSUME NEW A, NEW ss \in Seq(Seq(A)), NEW t \in Seq(A)
    PROVE FlattenSeq(Append(ss, t)) = FlattenSeq(ss) \o t
<1> DEFINE tt == Append(ss, t)
<1>1. tt \in Seq(Seq(A)) /\ Len(tt) = Len(ss) + 1 /\ tt[Len(ss) + 1] = t
      /\ \A i \in 1 .. Len(ss) : tt[i] = ss[i]
  OBVIOUS
<1> HIDE DEF tt
<1>2. PICK g \in [1 .. Len(tt) -> Seq(A)] : Steps(tt, g, Len(tt)) /\ FlattenSeq(tt) = g[Len(tt)]
  BY <1>1, FlattenSteps
<1>3. CASE Len(ss) = 0
  <2>1. FlattenSeq(tt) = t
    BY <1>1, <1>2, <1>3 DEF Steps
  <2>2. FlattenSeq(ss) = <<>>
    BY <1>3 DEF FlattenSeq
  <2>3. t = <<>> \o t
    OBVIOUS
  <2> QED
    BY <2>1, <2>2, <2>3, Zenon DEF tt
<1>4. CASE Len(ss) # 0
  <2>1. PICK f \in [1 .. Len(ss) -> Seq(A)] : Steps(ss, f, Len(ss)) /\ FlattenSeq(ss) = f[Len(ss)]
    BY <1>4, FlattenSteps
  <2>2. Steps(ss, g, Len(ss))
    <3> SUFFICES ASSUME NEW i \in 1 .. Len(ss)
          PROVE g[i] = IF i = 1 THEN ss[i] ELSE g[i - 1] \o ss[i]
      BY DEF Steps
    <3>1. i \in 1 .. Len(tt)
      BY <1>1
    <3>2. g[i] = IF i = 1 THEN tt[i] ELSE g[i - 1] \o tt[i]
      BY <1>2, <3>1, Zenon DEF Steps
    <3>3. tt[i] = ss[i]
      BY <1>1
    <3> QED
      BY <3>2, <3>3, Zenon
  <2>3. g[Len(ss)] = f[Len(ss)]
    BY <1>4, <2>1, <2>2, StepsUnique
  <2>4. Len(tt) \in 1 .. Len(tt) /\ Len(tt) # 1 /\ Len(tt) - 1 = Len(ss)
    BY <1>1, <1>4
  <2>5. g[Len(tt)] = g[Len(ss)] \o t
    <3>1. g[Len(tt)] = g[Len(tt) - 1] \o tt[Len(tt)]
      BY <1>2, <2>4 DEF Steps
    <3>2. tt[Len(tt)] = t
      BY <1>1
    <3> QED
      BY <2>4, <3>1, <3>2, Zenon
  <2> QED
    BY <1>2, <2>1, <2>3, <2>5, Zenon DEF tt
<1> QED
  BY <1>3, <1>4

(* Sequences with the same elements are equal.                             *)
LEMMA SeqEqual == ASSUME NEW A, NEW s \in Seq(A), NEW t \in Seq(A), Len(s) = Len(t),
        \A i \in 1 .. Len(s) : s[i] = t[i]
    PROVE s = t
  OBVIOUS

(* A set of sequences that has the empty one and with each sequence every    *)
(* longer one by an element has them all.                                   *)
LEMMA SeqInduction == ASSUME NEW A, NEW S \in SUBSET Seq(A), <<>> \in S,
        \A s \in S : \A a \in A : Append(s, a) \in S
    PROVE S = Seq(A)
<1> DEFINE N == {n \in Nat : \A s \in Seq(A) : Len(s) = n => s \in S}
<1>1. 0 \in N
  <2>1. \A s \in Seq(A) : Len(s) = 0 => s = <<>>
    OBVIOUS
  <2> QED
    BY <2>1
<1>2. ASSUME NEW n \in N PROVE n + 1 \in N
  <2> SUFFICES ASSUME NEW s \in Seq(A), Len(s) = n + 1 PROVE s \in S
    OBVIOUS
  <2> DEFINE r == SubSeq(s, 1, n)
  <2>0. n \in Nat
    OBVIOUS
  <2>1. r \in Seq(A) /\ Len(r) = n
    BY <2>0
  <2>2. s[n + 1] \in A
    BY <2>0
  <2>3. s = Append(r, s[n + 1])
    <3>1. /\ Append(r, s[n + 1]) \in Seq(A) /\ Len(Append(r, s[n + 1])) = n + 1
          /\ Append(r, s[n + 1])[n + 1] = s[n + 1]
      BY <2>0, <2>1, <2>2
    <3>2. ASSUME NEW i \in 1 .. n PROVE Append(r, s[n + 1])[i] = s[i]
      <4>1. r[i] = s[i]
        <5>1. r = [j \in 1 .. n |-> s[j]]
          BY <2>0
        <5> QED
          BY <5>1
      <4> HIDE DEF r
      <4> QED
        BY <2>0, <2>1, <2>2, <4>1
    <3>3. \A i \in 1 .. n + 1 : i = n + 1 \/ i \in 1 .. n
      BY <2>0
    <3> HIDE DEF r
    <3>4. \A i \in 1 .. Len(s) : s[i] = Append(r, s[n + 1])[i]
      BY <3>1, <3>2, <3>3
    <3> QED
      BY <3>1, <3>4, SeqEqual
  <2>4. r \in S
    BY <2>1
  <2> HIDE DEF r
  <2> QED
    BY <2>2, <2>3, <2>4, Zenon
<1>3. N \in SUBSET Nat
  OBVIOUS
<1> HIDE DEF N
<1>4. N = Nat
  BY <1>1, <1>2, <1>3, Induction
<1>5. \A s \in Seq(A) : Len(s) \in N
  BY <1>4
<1> QED
  BY <1>5 DEF N

(* What is flattened in two parts.                                         *)
LEMMA FlattenConcat == ASSUME NEW A, NEW ss \in Seq(Seq(A)), NEW rr \in Seq(Seq(A))
    PROVE FlattenSeq(ss \o rr) = FlattenSeq(ss) \o FlattenSeq(rr)
<1> DEFINE S == {tt \in Seq(Seq(A)) : FlattenSeq(ss \o tt) = FlattenSeq(ss) \o FlattenSeq(tt)}
<1>1. <<>> \in S
  <2>1. ss \o <<>> = ss /\ FlattenSeq(ss) \o <<>> = FlattenSeq(ss)
    BY FlattenType
  <2>2. FlattenSeq(ss \o <<>>) = FlattenSeq(ss) \o FlattenSeq(<<>>)
    BY <2>1, FlattenEmpty, Zenon
  <2> QED
    BY <2>2
<1>2. ASSUME NEW tt \in S, NEW t \in Seq(A) PROVE Append(tt, t) \in S
  <2>0. tt \in Seq(Seq(A)) /\ ss \o tt \in Seq(Seq(A)) /\ Append(tt, t) \in Seq(Seq(A))
    OBVIOUS
  <2>1. ss \o Append(tt, t) = Append(ss \o tt, t)
    BY <2>0
  <2>2. FlattenSeq(Append(ss \o tt, t)) = FlattenSeq(ss \o tt) \o t
    BY <2>0, FlattenAppend
  <2>3. FlattenSeq(ss \o tt) = FlattenSeq(ss) \o FlattenSeq(tt)
    OBVIOUS
  <2>4. FlattenSeq(Append(tt, t)) = FlattenSeq(tt) \o t
    BY <2>0, FlattenAppend
  <2>5. PICK f \in Seq(A) : f = FlattenSeq(ss)
    BY FlattenType
  <2>6. PICK g \in Seq(A) : g = FlattenSeq(tt)
    BY <2>0, FlattenType
  <2>7. (f \o g) \o t = f \o (g \o t)
    OBVIOUS
  <2>8. (FlattenSeq(ss) \o FlattenSeq(tt)) \o t = FlattenSeq(ss) \o (FlattenSeq(tt) \o t)
    BY <2>5, <2>6, <2>7, Zenon
  <2>9. FlattenSeq(ss \o Append(tt, t)) = FlattenSeq(ss) \o FlattenSeq(Append(tt, t))
    BY <2>1, <2>2, <2>3, <2>4, <2>8, Zenon
  <2> QED
    BY <2>0, <2>9
<1>3. S \in SUBSET Seq(Seq(A))
  OBVIOUS
<1> HIDE DEF S
<1>4. S = Seq(Seq(A))
  BY <1>1, <1>2, <1>3, SeqInduction
<1>5. rr \in S
  BY <1>4
<1> QED
  BY <1>5 DEF S

(* What Kept flattens.                                                     *)
Pieces(s, P) == [i \in DOMAIN s |-> IF s[i] \in P THEN <<s[i]>> ELSE <<>>]

(* Kept: its type, which says that only elements of s in P are kept, and    *)
(* that the kept elements of s \o t are those of s followed by those of t.   *)
LEMMA PiecesType == ASSUME NEW A, NEW s \in Seq(A), NEW P
    PROVE Pieces(s, P) \in Seq(Seq(A \cap P)) /\ Len(Pieces(s, P)) = Len(s)
<1>1. DOMAIN s = 1 .. Len(s) /\ Len(s) \in Nat
  OBVIOUS
<1>2. \A i \in 1 .. Len(s) : (IF s[i] \in P THEN <<s[i]>> ELSE <<>>) \in Seq(A \cap P)
  <2> TAKE i \in 1 .. Len(s)
  <2>1. s[i] \in A
    OBVIOUS
  <2>2. s[i] \in P => <<s[i]>> \in Seq(A \cap P)
    BY <2>1
  <2>3. <<>> \in Seq(A \cap P)
    OBVIOUS
  <2> QED
    BY <2>2, <2>3
<1> QED
  BY <1>1, <1>2 DEF Pieces

LEMMA KeptType == ASSUME NEW A, NEW s \in Seq(A), NEW P PROVE Kept(s, P) \in Seq(A \cap P)
<1>1. Pieces(s, P) \in Seq(Seq(A \cap P))
  BY PiecesType
<1>2. Kept(s, P) = FlattenSeq(Pieces(s, P))
  BY DEF Kept, Pieces
<1> QED
  BY <1>1, <1>2, FlattenType

LEMMA KeptConcat == ASSUME NEW A, NEW s \in Seq(A), NEW t \in Seq(A), NEW P
    PROVE Kept(s \o t, P) = Kept(s, P) \o Kept(t, P)
<1>1. Pieces(s \o t, P) = Pieces(s, P) \o Pieces(t, P)
  <2>1. /\ Len(Pieces(s, P)) = Len(s) /\ Len(Pieces(t, P)) = Len(t)
        /\ Pieces(s, P) \in Seq(Seq(A \cap P)) /\ Pieces(t, P) \in Seq(Seq(A \cap P))
    BY PiecesType
  <2>2. s \o t \in Seq(A) /\ Len(s \o t) = Len(s) + Len(t)
    OBVIOUS
  <2>3. Pieces(s \o t, P) \in Seq(Seq(A \cap P)) /\ Len(Pieces(s \o t, P)) = Len(s) + Len(t)
    BY <2>2, PiecesType
  <2>4. ASSUME NEW i \in 1 .. Len(s) + Len(t)
        PROVE  Pieces(s \o t, P)[i] = (Pieces(s, P) \o Pieces(t, P))[i]
    <3>1. CASE i \in 1 .. Len(s)
      <4>1. (s \o t)[i] = s[i] /\ (Pieces(s, P) \o Pieces(t, P))[i] = Pieces(s, P)[i]
        BY <2>1, <3>1
      <4>2. Pieces(s, P)[i] = IF s[i] \in P THEN <<s[i]>> ELSE <<>>
        BY <3>1 DEF Pieces
      <4>3. Pieces(s \o t, P)[i] = IF (s \o t)[i] \in P THEN <<(s \o t)[i]>> ELSE <<>>
        BY <2>2 DEF Pieces
      <4> QED
        BY <4>1, <4>2, <4>3, Zenon
    <3>2. CASE i \in Len(s) + 1 .. Len(s) + Len(t)
      <4>1. (s \o t)[i] = t[i - Len(s)]
            /\ (Pieces(s, P) \o Pieces(t, P))[i] = Pieces(t, P)[i - Len(s)]
        BY <2>1, <3>2
      <4>0. i - Len(s) \in 1 .. Len(t)
        BY <3>2
      <4>2. Pieces(t, P)[i - Len(s)] = IF t[i - Len(s)] \in P THEN <<t[i - Len(s)]>> ELSE <<>>
        BY <4>0 DEF Pieces
      <4>3. Pieces(s \o t, P)[i] = IF (s \o t)[i] \in P THEN <<(s \o t)[i]>> ELSE <<>>
        BY <2>2 DEF Pieces
      <4> QED
        BY <4>1, <4>2, <4>3, Zenon
    <3>3. Len(s) \in Nat /\ Len(t) \in Nat
      OBVIOUS
    <3>4. i \in 1 .. Len(s) \/ i \in Len(s) + 1 .. Len(s) + Len(t)
      BY <3>3
    <3> QED
      BY <3>1, <3>2, <3>4, Zenon
  <2>5. Pieces(s, P) \o Pieces(t, P) \in Seq(Seq(A \cap P))
        /\ Len(Pieces(s, P) \o Pieces(t, P)) = Len(s) + Len(t)
    <3>1. PICK f \in Seq(Seq(A \cap P)) : f = Pieces(s, P)
      BY <2>1
    <3>2. PICK g \in Seq(Seq(A \cap P)) : g = Pieces(t, P)
      BY <2>1
    <3>3. f \o g \in Seq(Seq(A \cap P)) /\ Len(f \o g) = Len(f) + Len(g)
      OBVIOUS
    <3>4. Len(f) = Len(s) /\ Len(g) = Len(t)
      BY <2>1, <3>1, <3>2
    <3> QED
      BY <3>1, <3>2, <3>3, <3>4, Zenon
  <2> QED
    BY <2>3, <2>4, <2>5, SeqEqual
<1>2. Pieces(s, P) \in Seq(Seq(A \cap P)) /\ Pieces(t, P) \in Seq(Seq(A \cap P))
  BY PiecesType
<1>3. FlattenSeq(Pieces(s, P) \o Pieces(t, P)) = FlattenSeq(Pieces(s, P)) \o FlattenSeq(Pieces(t, P))
  BY <1>2, FlattenConcat
<1>4. /\ Kept(s \o t, P) = FlattenSeq(Pieces(s \o t, P))
      /\ Kept(s, P) = FlattenSeq(Pieces(s, P)) /\ Kept(t, P) = FlattenSeq(Pieces(t, P))
  BY DEF Kept, Pieces
<1> HIDE DEF Kept, Pieces
<1> QED
  BY <1>1, <1>3, <1>4, Zenon

LEMMA KeptEmpty == ASSUME NEW P PROVE Kept(<<>>, P) = <<>>
<1>1. [i \in DOMAIN <<>> |-> IF <<>>[i] \in P THEN <<<<>>[i]>> ELSE <<>>] = <<>>
  OBVIOUS
<1> QED
  BY <1>1, FlattenEmpty DEF Kept

LEMMA KeptOne == ASSUME NEW A, NEW a \in A, NEW P
    PROVE Kept(<<a>>, P) = IF a \in P THEN <<a>> ELSE <<>>
<1> DEFINE t == IF a \in P THEN <<a>> ELSE <<>>
<1>1. t \in Seq(A)
  OBVIOUS
<1>2. [i \in DOMAIN <<a>> |-> IF <<a>>[i] \in P THEN <<<<a>>[i]>> ELSE <<>>] = <<t>>
  OBVIOUS
<1>3. <<t>> = Append(<<>>, t) /\ <<>> \in Seq(Seq(A)) /\ <<>> \o t = t
  BY <1>1
<1> HIDE DEF t
<1>4. FlattenSeq(Append(<<>>, t)) = FlattenSeq(<<>>) \o t
  BY <1>1, <1>3, FlattenAppend
<1>5. FlattenSeq(<<t>>) = t
  BY <1>3, <1>4, FlattenEmpty, Zenon
<1>6. Kept(<<a>>, P) = FlattenSeq(<<t>>)
  BY <1>2, Zenon DEF Kept
<1> QED
  BY <1>5, <1>6 DEF t
-----------------------------------------------------------------------------
(* What a list of elements stands for when each stands for a list.         *)
Parts(s, R) == [i \in DOMAIN s |-> R[s[i]]]

Mapped(s, R) == FlattenSeq(Parts(s, R))

LEMMA PartsType == ASSUME NEW A, NEW V, NEW R \in [A -> Seq(V)]
    PROVE \A s \in Seq(A) : Parts(s, R) \in Seq(Seq(V))
<1> TAKE s \in Seq(A)
<1>1. DOMAIN s = 1 .. Len(s) /\ Len(s) \in Nat /\ \A i \in 1 .. Len(s) : R[s[i]] \in Seq(V)
  OBVIOUS
<1>2. [i \in 1 .. Len(s) |-> R[s[i]]] \in Seq(Seq(V))
  BY <1>1
<1>3. Parts(s, R) = [i \in 1 .. Len(s) |-> R[s[i]]]
  BY <1>1 DEF Parts
<1> QED
  BY <1>2, <1>3, Zenon

PartForEach(s, R) == Len(Parts(s, R)) = Len(s)

LEMMA PartsLength == ASSUME NEW A, NEW V, NEW R \in [A -> Seq(V)]
    PROVE \A s \in Seq(A) : PartForEach(s, R)
<1> TAKE s \in Seq(A)
<1>1. DOMAIN s = 1 .. Len(s) /\ Len(s) \in Nat /\ \A i \in 1 .. Len(s) : R[s[i]] \in Seq(V)
  OBVIOUS
<1>2. Len([i \in 1 .. Len(s) |-> R[s[i]]]) = Len(s)
  BY <1>1
<1>3. Parts(s, R) = [i \in 1 .. Len(s) |-> R[s[i]]]
  BY <1>1 DEF Parts
<1> QED
  BY <1>2, <1>3, Zenon DEF PartForEach

LEMMA MappedType == ASSUME NEW A, NEW V, NEW R \in [A -> Seq(V)]
    PROVE \A s \in Seq(A) : Mapped(s, R) \in Seq(V)
<1> TAKE s \in Seq(A)
<1>1. Parts(s, R) \in Seq(Seq(V))
  BY PartsType, Zenon
<1>2. PICK f \in Seq(Seq(V)) : f = Parts(s, R)
  BY <1>1, Zenon
<1>3. FlattenSeq(f) \in Seq(V)
  BY FlattenType
<1> QED
  BY <1>2, <1>3, Zenon DEF Mapped

LEMMA MappedEmpty == ASSUME NEW R PROVE Mapped(<<>>, R) = <<>>
<1>1. Parts(<<>>, R) = <<>>
  BY DEF Parts
<1> QED
  BY <1>1, FlattenEmpty, Zenon DEF Mapped

Alike(s, R, t, T) == DOMAIN s = DOMAIN t /\ \A i \in DOMAIN s : R[s[i]] = T[t[i]]

LEMMA MappedSame == ASSUME NEW s, NEW t, NEW R, NEW T, Alike(s, R, t, T)
    PROVE Mapped(s, R) = Mapped(t, T)
<1>1. Parts(s, R) = Parts(t, T)
  BY DEF Parts, Alike
<1> QED
  BY <1>1, Zenon DEF Mapped

LEMMA MappedAppend == ASSUME NEW A, NEW V, NEW R \in [A -> Seq(V)]
    PROVE \A s \in Seq(A) : \A a \in A : Mapped(Append(s, a), R) = Mapped(s, R) \o R[a]
<1> TAKE s \in Seq(A)
<1> TAKE a \in A
<1>0. Append(s, a) \in Seq(A)
  OBVIOUS
<1>1. PICK t \in Seq(A) : t = Append(s, a)
  BY <1>0, Zenon
<1>2. Len(t) = Len(s) + 1 /\ t[Len(s) + 1] = a /\ \A i \in 1 .. Len(s) : t[i] = s[i]
  BY <1>1
<1>3. R[a] \in Seq(V)
  OBVIOUS
<1>b. Parts(s, R) \in Seq(Seq(V)) /\ Parts(t, R) \in Seq(Seq(V))
  BY PartsType, Zenon
<1>c. PartForEach(s, R) /\ PartForEach(t, R)
  BY PartsLength, Zenon
<1>4. PICK f \in Seq(Seq(V)) : f = Parts(s, R)
  BY <1>b, Zenon
<1>5. PICK g \in Seq(Seq(V)) : g = Parts(t, R)
  BY <1>b, Zenon
<1>d. /\ Len(f) = Len(s) /\ \A i \in 1 .. Len(s) : f[i] = R[s[i]]
      /\ Len(g) = Len(t) /\ \A i \in 1 .. Len(t) : g[i] = R[t[i]]
  <2>1. Len(f) = Len(s) /\ Len(g) = Len(t)
    BY <1>c, <1>4, <1>5, Zenon DEF PartForEach
  <2>2. DOMAIN s = 1 .. Len(s) /\ DOMAIN t = 1 .. Len(t)
    OBVIOUS
  <2>3. /\ \A i \in DOMAIN s : f[i] = R[s[i]]
        /\ \A i \in DOMAIN t : g[i] = R[t[i]]
    BY <1>4, <1>5, Zenon DEF Parts
  <2> QED
    BY <2>1, <2>2, <2>3, Zenon
<1>a. Append(f, R[a]) \in Seq(Seq(V))
  BY <1>3
<1>6. PICK h \in Seq(Seq(V)) : h = Append(f, R[a])
  BY <1>a, Zenon
<1>7. Len(h) = Len(s) + 1 /\ h[Len(s) + 1] = R[a] /\ \A i \in 1 .. Len(s) : h[i] = f[i]
  BY <1>3, <1>d, <1>6
<1>8. g = h
  <2>1. ASSUME NEW i \in 1 .. Len(s) + 1 PROVE g[i] = h[i]
    <3>1. Len(s) \in Nat /\ i \in 1 .. Len(t)
      BY <1>2
    <3>2. i = Len(s) + 1 \/ i \in 1 .. Len(s)
      BY <3>1
    <3> QED
      BY <1>2, <1>d, <1>7, <3>1, <3>2
  <2> QED
    BY <1>2, <1>d, <1>7, <2>1, SeqEqual
<1>9. FlattenSeq(Append(f, R[a])) = FlattenSeq(f) \o R[a]
  BY <1>3, FlattenAppend
<1> QED
  BY <1>1, <1>4, <1>5, <1>6, <1>8, <1>9, Zenon DEF Mapped

LEMMA MappedOne == ASSUME NEW A, NEW V, NEW R \in [A -> Seq(V)]
    PROVE \A a \in A : Mapped(<<a>>, R) = R[a]
<1> TAKE a \in A
<1>0. <<>> \in Seq(A)
  OBVIOUS
<1>1. PICK u \in Seq(A) : u = <<>>
  BY <1>0, Zenon
<1>2. Append(u, a) = <<a>> /\ R[a] \in Seq(V)
  BY <1>1
<1>3. Mapped(Append(u, a), R) = Mapped(u, R) \o R[a]
  BY MappedAppend, Zenon
<1>4. Mapped(u, R) = <<>>
  BY <1>1, MappedEmpty, Zenon
<1>5. <<>> \o R[a] = R[a]
  BY <1>2
<1> QED
  BY <1>2, <1>3, <1>4, <1>5, Zenon

Associates(s, t, u) == (s \o t) \o u = s \o (t \o u)

LEMMA ConcatAssociates == ASSUME NEW A PROVE \A s, t, u \in Seq(A) : Associates(s, t, u)
  BY DEF Associates

Distributes(s, t, R) == Mapped(s \o t, R) = Mapped(s, R) \o Mapped(t, R)

LEMMA MappedConcat == ASSUME NEW A, NEW V, NEW R \in [A -> Seq(V)]
    PROVE \A s, t \in Seq(A) : Distributes(s, t, R)
<1> TAKE s \in Seq(A)
<1> DEFINE S == {u \in Seq(A) : Mapped(s \o u, R) = Mapped(s, R) \o Mapped(u, R)}
<1>0. Mapped(s, R) \in Seq(V)
  BY MappedType, Zenon
<1>1. <<>> \in S
  <2>0. <<>> \in Seq(A)
    OBVIOUS
  <2>1. PICK u \in Seq(A) : u = <<>>
    BY <2>0, Zenon
  <2>2. s \o u = s /\ Mapped(s, R) \o <<>> = Mapped(s, R)
    BY <2>1, <1>0
  <2>3. Mapped(u, R) = <<>>
    BY <2>1, MappedEmpty, Zenon
  <2>4. Mapped(s \o u, R) = Mapped(s, R) \o Mapped(u, R)
    BY <2>2, <2>3, Zenon
  <2>5. u \in S
    BY <2>4
  <2> QED
    BY <2>1, <2>5, Zenon
<1>2. ASSUME NEW u \in S, NEW a \in A PROVE Append(u, a) \in S
  <2>1. u \in Seq(A) /\ Mapped(s \o u, R) = Mapped(s, R) \o Mapped(u, R)
    OBVIOUS
  <2>v. s \o u \in Seq(A) /\ Append(u, a) \in Seq(A)
    BY <2>1
  <2>2. PICK v \in Seq(A) : v = s \o u
    BY <2>v, Zenon
  <2>3. PICK w \in Seq(A) : w = Append(u, a)
    BY <2>v, Zenon
  <2>4. s \o w = Append(v, a)
    BY <2>1, <2>2, <2>3
  <2>a. Mapped(Append(v, a), R) = Mapped(v, R) \o R[a]
    BY MappedAppend, Zenon
  <2>b. Mapped(Append(u, a), R) = Mapped(u, R) \o R[a]
    BY <2>1, MappedAppend, Zenon
  <2>c. R[a] \in Seq(V)
    OBVIOUS
  <2>d. Mapped(u, R) \in Seq(V)
    BY <2>1, MappedType, Zenon
  <2>7. (Mapped(s, R) \o Mapped(u, R)) \o R[a] = Mapped(s, R) \o (Mapped(u, R) \o R[a])
    <3>1. PICK m \in Seq(V) : m = Mapped(s, R)
      BY <1>0, Zenon
    <3>2. PICK n \in Seq(V) : n = Mapped(u, R)
      BY <2>d, Zenon
    <3>3. PICK r \in Seq(V) : r = R[a]
      BY <2>c, Zenon
    <3>4. Associates(m, n, r)
      BY ConcatAssociates, Zenon
    <3> QED
      BY <3>1, <3>2, <3>3, <3>4, Zenon DEF Associates
  <2>8. Mapped(s \o w, R) = Mapped(s, R) \o Mapped(w, R)
    BY <2>1, <2>2, <2>3, <2>4, <2>a, <2>b, <2>7, Zenon
  <2>9. w \in S
    BY <2>8
  <2> QED
    BY <2>3, <2>9, Zenon
<1> HIDE DEF S
<1>3. S \in SUBSET Seq(A)
  BY DEF S
<1>4. S = Seq(A)
  BY <1>1, <1>2, <1>3, SeqInduction
<1> QED
  BY <1>4, Zenon DEF S, Distributes

(* U is the map R followed by the map T.                                   *)
Composes(A, R, T, U) == \A a \in A : U[a] = Mapped(R[a], T)

Composed(s, R, T, U) == Mapped(Mapped(s, R), T) = Mapped(s, U)

LEMMA MappedTwice == ASSUME NEW A, NEW B, NEW V,
        NEW R \in [A -> Seq(B)], NEW T \in [B -> Seq(V)],
        NEW U \in [A -> Seq(V)], Composes(A, R, T, U)
    PROVE \A s \in Seq(A) : Composed(s, R, T, U)
<1> DEFINE S == {u \in Seq(A) : Mapped(Mapped(u, R), T) = Mapped(u, U)}
<1>1. \A v, x \in Seq(B) : Distributes(v, x, T)
  BY MappedConcat, Zenon
<1>2. <<>> \in S
  <2>0. <<>> \in Seq(A)
    OBVIOUS
  <2>1. PICK u \in Seq(A) : u = <<>>
    BY <2>0, Zenon
  <2>2. Mapped(u, R) = <<>> /\ Mapped(u, U) = <<>> /\ Mapped(<<>>, T) = <<>>
    BY <2>1, MappedEmpty, Zenon
  <2>3. Mapped(Mapped(u, R), T) = Mapped(u, U)
    BY <2>2, Zenon
  <2>4. u \in S
    BY <2>3
  <2> QED
    BY <2>1, <2>4, Zenon
<1>3. ASSUME NEW u \in S, NEW a \in A PROVE Append(u, a) \in S
  <2>1. u \in Seq(A) /\ Mapped(Mapped(u, R), T) = Mapped(u, U)
    OBVIOUS
  <2>a. Append(u, a) \in Seq(A)
    BY <2>1
  <2>2. PICK w \in Seq(A) : w = Append(u, a)
    BY <2>a, Zenon
  <2>c. Mapped(Append(u, a), R) = Mapped(u, R) \o R[a]
    BY <2>1, MappedAppend, Zenon
  <2>3. Mapped(w, R) = Mapped(u, R) \o R[a]
    BY <2>2, <2>c, Zenon
  <2>d. R[a] \in Seq(B)
    OBVIOUS
  <2>b. Mapped(u, R) \in Seq(B)
    BY <2>1, MappedType, Zenon
  <2>4. PICK v \in Seq(B) : v = Mapped(u, R)
    BY <2>b, Zenon
  <2>5. PICK x \in Seq(B) : x = R[a]
    BY <2>d, Zenon
  <2>6. Mapped(v \o x, T) = Mapped(v, T) \o Mapped(x, T)
    BY <1>1, Zenon DEF Distributes
  <2>e. Mapped(Append(u, a), U) = Mapped(u, U) \o U[a]
    BY <2>1, MappedAppend, Zenon
  <2>7. Mapped(w, U) = Mapped(u, U) \o U[a]
    BY <2>2, <2>e, Zenon
  <2>f. U[a] = Mapped(R[a], T)
    BY Zenon DEF Composes
  <2>8. Mapped(Mapped(w, R), T) = Mapped(w, U)
    BY <2>f, <2>1, <2>3, <2>4, <2>5, <2>6, <2>7, Zenon
  <2>9. w \in S
    BY <2>8
  <2> QED
    BY <2>2, <2>9, Zenon
<1> HIDE DEF S
<1>4. S \in SUBSET Seq(A)
  BY DEF S
<1>5. S = Seq(A)
  BY <1>2, <1>3, <1>4, SeqInduction
<1> QED
  BY <1>5, Zenon DEF S, Composed

(* A list of lists of one element each.                                    *)
LEMMA MappedSingles == ASSUME NEW A, NEW R \in [A -> Seq(A)], \A a \in A : R[a] = <<a>>
    PROVE \A s \in Seq(A) : Mapped(s, R) = s
<1> DEFINE S == {u \in Seq(A) : Mapped(u, R) = u}
<1>1. <<>> \in S
  <2>0. <<>> \in Seq(A)
    OBVIOUS
  <2>1. PICK u \in Seq(A) : u = <<>>
    BY <2>0, Zenon
  <2>2. Mapped(u, R) = u
    BY <2>1, MappedEmpty, Zenon
  <2> QED
    BY <2>1, <2>2
<1>2. ASSUME NEW u \in S, NEW a \in A PROVE Append(u, a) \in S
  <2>1. u \in Seq(A) /\ Mapped(u, R) = u
    OBVIOUS
  <2>a. Append(u, a) \in Seq(A) /\ Append(u, a) = u \o <<a>>
    BY <2>1, AppendIsConcat
  <2>2. PICK w \in Seq(A) : w = Append(u, a) /\ w = u \o <<a>>
    BY <2>a, Zenon
  <2>b. Mapped(Append(u, a), R) = Mapped(u, R) \o R[a]
    BY <2>1, MappedAppend, Zenon
  <2>3. Mapped(w, R) = Mapped(u, R) \o R[a]
    BY <2>2, <2>b, Zenon
  <2>4. Mapped(w, R) = w
    BY <2>1, <2>2, <2>3, Zenon
  <2> QED
    BY <2>2, <2>4
<1> HIDE DEF S
<1>3. S \in SUBSET Seq(A)
  BY DEF S
<1>4. S = Seq(A)
  BY <1>1, <1>2, <1>3, SeqInduction
<1> QED
  BY <1>4, Zenon DEF S

-----------------------------------------------------------------------------
(* What a list of operations does to a flag: those in P set it and those in *)
(* Q clear it.  Sets: the list leaves it set; Keeps: nothing clears it.     *)
Keeps(s, Q) == \A k \in DOMAIN s : s[k] \notin Q

Sets(s, P, Q) == \E k \in DOMAIN s : s[k] \in P /\ \A j \in DOMAIN s : j > k => s[j] \notin Q

After(b, s, P, Q) == Sets(s, P, Q) \/ (b /\ Keeps(s, Q))

LEMMA KeepsConcat == ASSUME NEW A, NEW s \in Seq(A), NEW t \in Seq(A), NEW Q
    PROVE Keeps(s \o t, Q) <=> Keeps(s, Q) /\ Keeps(t, Q)
<1>1. Len(s \o t) = Len(s) + Len(t) /\ Len(s) \in Nat /\ Len(t) \in Nat
  OBVIOUS
<1>2. /\ \A k \in 1 .. Len(s) : (s \o t)[k] = s[k]
      /\ \A k \in 1 .. Len(t) : (s \o t)[Len(s) + k] = t[k]
  OBVIOUS
<1>0. s \o t \in Seq(A)
  OBVIOUS
<1>3. PICK u \in Seq(A) : u = s \o t
  BY <1>0, Zenon
<1>4. /\ Len(u) = Len(s) + Len(t)
      /\ \A k \in 1 .. Len(s) : u[k] = s[k]
      /\ \A k \in 1 .. Len(t) : u[Len(s) + k] = t[k]
  BY <1>1, <1>2, <1>3, Zenon
<1>5. ASSUME Keeps(u, Q) PROVE Keeps(s, Q) /\ Keeps(t, Q)
  <2>1. \A k \in 1 .. Len(s) : s[k] \notin Q
    BY <1>1, <1>4, <1>5 DEF Keeps
  <2>2. ASSUME NEW k \in 1 .. Len(t) PROVE t[k] \notin Q
    <3>1. Len(s) + k \in DOMAIN u
      BY <1>1, <1>4
    <3> QED
      BY <1>4, <1>5, <3>1 DEF Keeps
  <2> QED
    BY <2>1, <2>2 DEF Keeps
<1>6. ASSUME Keeps(s, Q), Keeps(t, Q) PROVE Keeps(u, Q)
  <2>1. ASSUME NEW k \in DOMAIN u PROVE u[k] \notin Q
    <3>1. k \in 1 .. Len(s) \/ (k - Len(s) \in 1 .. Len(t) /\ k = Len(s) + (k - Len(s)))
      BY <1>1, <1>4
    <3>2. CASE k \in 1 .. Len(s)
      BY <3>2, <1>4, <1>6 DEF Keeps
    <3>3. CASE k - Len(s) \in 1 .. Len(t) /\ k = Len(s) + (k - Len(s))
      <4>1. u[k] = t[k - Len(s)]
        BY <3>3, <1>4
      <4> QED
        BY <3>3, <4>1, <1>6 DEF Keeps
    <3> QED
      BY <3>1, <3>2, <3>3
  <2> QED
    BY <2>1 DEF Keeps
<1> QED
  BY <1>3, <1>5, <1>6, Zenon

LEMMA SetsConcat == ASSUME NEW A, NEW s \in Seq(A), NEW t \in Seq(A), NEW P, NEW Q
    PROVE Sets(s \o t, P, Q) <=> Sets(t, P, Q) \/ (Sets(s, P, Q) /\ Keeps(t, Q))
<1>1. Len(s \o t) = Len(s) + Len(t) /\ Len(s) \in Nat /\ Len(t) \in Nat
  OBVIOUS
<1>2. /\ \A k \in 1 .. Len(s) : (s \o t)[k] = s[k]
      /\ \A k \in 1 .. Len(t) : (s \o t)[Len(s) + k] = t[k]
  OBVIOUS
<1>0. s \o t \in Seq(A)
  OBVIOUS
<1>3. PICK u \in Seq(A) : u = s \o t
  BY <1>0, Zenon
<1>4. /\ Len(u) = Len(s) + Len(t)
      /\ \A k \in 1 .. Len(s) : u[k] = s[k]
      /\ \A k \in 1 .. Len(t) : u[Len(s) + k] = t[k]
      /\ DOMAIN s = 1 .. Len(s) /\ DOMAIN t = 1 .. Len(t) /\ DOMAIN u = 1 .. Len(u)
  BY <1>1, <1>2, <1>3
<1>5. ASSUME NEW k \in DOMAIN u, u[k] \in P, \A j \in DOMAIN u : j > k => u[j] \notin Q
      PROVE Sets(t, P, Q) \/ (Sets(s, P, Q) /\ Keeps(t, Q))
  <2>1. k \in 1 .. Len(s) \/ (k - Len(s) \in 1 .. Len(t) /\ k = Len(s) + (k - Len(s)))
    BY <1>1, <1>4
  <2>2. CASE k \in 1 .. Len(s)
    <3>1. \A j \in 1 .. Len(s) : j > k => s[j] \notin Q
      BY <1>1, <1>4, <1>5, <2>2
    <3>2. ASSUME NEW j \in 1 .. Len(t) PROVE t[j] \notin Q
      <4>1. Len(s) + j \in DOMAIN u /\ Len(s) + j > k
        BY <1>1, <1>4, <2>2
      <4> QED
        BY <1>4, <1>5, <4>1
    <3>3. s[k] \in P
      BY <1>4, <1>5, <2>2
    <3> QED
      BY <1>4, <2>2, <3>1, <3>2, <3>3 DEF Sets, Keeps
  <2>3. CASE k - Len(s) \in 1 .. Len(t) /\ k = Len(s) + (k - Len(s))
    <3>1. t[k - Len(s)] \in P
      BY <1>4, <1>5, <2>3
    <3>2. ASSUME NEW j \in 1 .. Len(t), j > k - Len(s) PROVE t[j] \notin Q
      <4>1. Len(s) + j \in DOMAIN u /\ Len(s) + j > k
        BY <1>1, <1>4, <2>3, <3>2
      <4> QED
        BY <1>4, <1>5, <4>1
    <3> QED
      BY <1>4, <2>3, <3>1, <3>2 DEF Sets
  <2> QED
    BY <2>1, <2>2, <2>3
<1>6. ASSUME Sets(t, P, Q) PROVE Sets(u, P, Q)
  <2>1. PICK k \in 1 .. Len(t) : t[k] \in P /\ \A j \in 1 .. Len(t) : j > k => t[j] \notin Q
    BY <1>4, <1>6 DEF Sets
  <2>2. Len(s) + k \in DOMAIN u /\ u[Len(s) + k] \in P
    BY <1>1, <1>4, <2>1
  <2>3. ASSUME NEW j \in DOMAIN u, j > Len(s) + k PROVE u[j] \notin Q
    <3>1. j - Len(s) \in 1 .. Len(t) /\ j - Len(s) > k /\ j = Len(s) + (j - Len(s))
      BY <1>1, <1>4, <2>3
    <3> QED
      BY <1>4, <2>1, <3>1
  <2> QED
    BY <2>2, <2>3 DEF Sets
<1>7. ASSUME Sets(s, P, Q), Keeps(t, Q) PROVE Sets(u, P, Q)
  <2>1. PICK k \in 1 .. Len(s) : s[k] \in P /\ \A j \in 1 .. Len(s) : j > k => s[j] \notin Q
    BY <1>4, <1>7 DEF Sets
  <2>2. k \in DOMAIN u /\ u[k] \in P
    BY <1>1, <1>4, <2>1
  <2>3. ASSUME NEW j \in DOMAIN u, j > k PROVE u[j] \notin Q
    <3>1. j \in 1 .. Len(s) \/ (j - Len(s) \in 1 .. Len(t) /\ j = Len(s) + (j - Len(s)))
      BY <1>1, <1>4
    <3>2. CASE j \in 1 .. Len(s)
      BY <1>4, <2>1, <2>3, <3>2
    <3>3. CASE j - Len(s) \in 1 .. Len(t) /\ j = Len(s) + (j - Len(s))
      <4>1. u[j] = t[j - Len(s)]
        BY <1>4, <3>3
      <4> QED
        BY <1>4, <1>7, <3>3, <4>1 DEF Keeps
    <3> QED
      BY <3>1, <3>2, <3>3
  <2> QED
    BY <2>2, <2>3 DEF Sets
<1>8. Sets(u, P, Q) => Sets(t, P, Q) \/ (Sets(s, P, Q) /\ Keeps(t, Q))
  BY <1>5 DEF Sets
<1> QED
  BY <1>3, <1>6, <1>7, <1>8, Zenon

LEMMA AfterConcat == ASSUME NEW A, NEW s \in Seq(A), NEW t \in Seq(A), NEW P, NEW Q, NEW b
    PROVE After(b, s \o t, P, Q) <=> After(After(b, s, P, Q), t, P, Q)
<1>1. Keeps(s \o t, Q) <=> Keeps(s, Q) /\ Keeps(t, Q)
  BY KeepsConcat
<1>2. Sets(s \o t, P, Q) <=> Sets(t, P, Q) \/ (Sets(s, P, Q) /\ Keeps(t, Q))
  BY SetsConcat
<1> QED
  BY <1>1, <1>2, Zenon DEF After

LEMMA AfterEmpty == ASSUME NEW P, NEW Q, NEW b
    PROVE After(b, <<>>, P, Q) <=> b
<1>1. ~Sets(<<>>, P, Q) /\ Keeps(<<>>, Q)
  BY DEF Sets, Keeps
<1> QED
  BY <1>1, Zenon DEF After

LEMMA AfterOne == ASSUME NEW a, NEW P, NEW Q, NEW b
    PROVE After(b, <<a>>, P, Q) <=> a \in P \/ (b /\ a \notin Q)
<1>1. Sets(<<a>>, P, Q) <=> a \in P
  BY DEF Sets
<1>2. Keeps(<<a>>, Q) <=> a \notin Q
  BY DEF Keeps
<1> QED
  BY <1>1, <1>2, Zenon DEF After

LEMMA AfterTwo == ASSUME NEW a, NEW c, NEW P, NEW Q, NEW b
    PROVE After(b, <<a, c>>, P, Q) <=> c \in P \/ ((a \in P \/ (b /\ a \notin Q)) /\ c \notin Q)
<1>1. Sets(<<a, c>>, P, Q) <=> c \in P \/ (a \in P /\ c \notin Q)
  <2>1. DOMAIN <<a, c>> = {1, 2} /\ <<a, c>>[1] = a /\ <<a, c>>[2] = c
    OBVIOUS
  <2> QED
    BY <2>1 DEF Sets
<1>2. Keeps(<<a, c>>, Q) <=> a \notin Q /\ c \notin Q
  BY DEF Keeps
<1> QED
  BY <1>1, <1>2, Zenon DEF After

(* Operations that neither set nor clear the flag.                         *)
LEMMA AfterOthers == ASSUME NEW s, NEW P, NEW Q, NEW b, \A k \in DOMAIN s : s[k] \notin P /\ s[k] \notin Q
    PROVE After(b, s, P, Q) <=> b
<1>1. ~Sets(s, P, Q) /\ Keeps(s, Q)
  BY Zenon DEF Sets, Keeps
<1> QED
  BY <1>1, Zenon DEF After

LEMMA AfterMonotone == ASSUME NEW s, NEW P, NEW Q, NEW b, NEW c, b => c
    PROVE After(b, s, P, Q) => After(c, s, P, Q)
  BY Zenon DEF After

(* What holds for each part of a list holds for the whole.                 *)
Weaker(A, F, G, P, Q) ==
    \A a \in A : \A b \in BOOLEAN : After(b, F[a], P, Q) => After(b, G[a], P, Q)

Weakens(s, F, G, P, Q) ==
    \A b \in BOOLEAN : After(b, Mapped(s, F), P, Q) => After(b, Mapped(s, G), P, Q)

LEMMA AfterMapped == ASSUME NEW A, NEW V, NEW F \in [A -> Seq(V)], NEW G \in [A -> Seq(V)],
        NEW P, NEW Q, Weaker(A, F, G, P, Q)
    PROVE \A s \in Seq(A) : Weakens(s, F, G, P, Q)
<1>0. \A a \in A : \A b \in BOOLEAN : After(b, F[a], P, Q) => After(b, G[a], P, Q)
  BY DEF Weaker
<1> DEFINE S == {u \in Seq(A) : \A b \in BOOLEAN :
                    After(b, Mapped(u, F), P, Q) => After(b, Mapped(u, G), P, Q)}
<1>1. <<>> \in S
  <2>1. <<>> \in Seq(A)
    OBVIOUS
  <2>2. Mapped(<<>>, F) = <<>> /\ Mapped(<<>>, G) = <<>>
    BY MappedEmpty, Zenon
  <2>3. \A b \in BOOLEAN : After(b, Mapped(<<>>, F), P, Q) => After(b, Mapped(<<>>, G), P, Q)
    BY <2>2, Zenon
  <2> QED
    BY <2>1, <2>3, Zenon
<1>2. ASSUME NEW u \in S, NEW a \in A PROVE Append(u, a) \in S
  <2>1. u \in Seq(A) /\ \A b \in BOOLEAN :
                    After(b, Mapped(u, F), P, Q) => After(b, Mapped(u, G), P, Q)
    BY Zenon
  <2>2. Append(u, a) \in Seq(A)
    BY <2>1
  <2>3. Mapped(Append(u, a), F) = Mapped(u, F) \o F[a]
    BY <2>1, MappedAppend, Zenon
  <2>4. Mapped(Append(u, a), G) = Mapped(u, G) \o G[a]
    BY <2>1, MappedAppend, Zenon
  <2>5. Mapped(u, F) \in Seq(V) /\ Mapped(u, G) \in Seq(V)
    BY <2>1, MappedType, Zenon
  <2>6. F[a] \in Seq(V) /\ G[a] \in Seq(V)
    OBVIOUS
  <2>7. ASSUME NEW b \in BOOLEAN, After(b, Mapped(Append(u, a), F), P, Q)
        PROVE  After(b, Mapped(Append(u, a), G), P, Q)
    <3>1. After(After(b, Mapped(u, F), P, Q), F[a], P, Q)
      BY <2>3, <2>5, <2>6, <2>7, AfterConcat, Zenon
    <3>2. After(TRUE, F[a], P, Q) => After(TRUE, G[a], P, Q)
      BY <1>0, Zenon
    <3>3. After(FALSE, F[a], P, Q) => After(FALSE, G[a], P, Q)
      BY <1>0, Zenon
    <3>4. After(b, Mapped(u, F), P, Q) => After(b, Mapped(u, G), P, Q)
      BY <2>1, Zenon
    <3>5. After(After(b, Mapped(u, G), P, Q), G[a], P, Q)
      BY <3>1, <3>2, <3>3, <3>4, Zenon DEF After
    <3> QED
      BY <2>4, <2>5, <2>6, <3>5, AfterConcat, Zenon
  <2> QED
    BY <2>2, <2>7, Zenon
<1> HIDE DEF S
<1>3. S \in SUBSET Seq(A)
  BY DEF S
<1>4. S = Seq(A)
  BY <1>1, <1>2, <1>3, SeqInduction
<1> QED
  BY <1>4, Zenon DEF S, Weakens

(* Parts of which those in E clear the flag and the others leave it.       *)
Clears(A, F, P, Q, E) ==
    \A a \in A : \A b \in BOOLEAN : After(b, F[a], P, Q) <=> b /\ a \notin E

ClearsAll(s, F, P, Q, E) ==
    \A b \in BOOLEAN : After(b, Mapped(s, F), P, Q) <=> b /\ \A i \in DOMAIN s : s[i] \notin E

LEMMA AfterStops == ASSUME NEW A, NEW V, NEW F \in [A -> Seq(V)], NEW P, NEW Q, NEW E,
        Clears(A, F, P, Q, E)
    PROVE \A s \in Seq(A) : ClearsAll(s, F, P, Q, E)
<1>0. \A a \in A : \A b \in BOOLEAN : After(b, F[a], P, Q) <=> b /\ a \notin E
  BY DEF Clears
<1> DEFINE S == {u \in Seq(A) : \A b \in BOOLEAN :
                    After(b, Mapped(u, F), P, Q) <=> b /\ Keeps(u, E)}
<1>1. <<>> \in S
  <2>1. <<>> \in Seq(A)
    OBVIOUS
  <2>2. Mapped(<<>>, F) = <<>>
    BY MappedEmpty, Zenon
  <2>3. Keeps(<<>>, E)
    BY DEF Keeps
  <2>4. \A b \in BOOLEAN : After(b, <<>>, P, Q) <=> b
    BY AfterEmpty, Zenon
  <2>5. \A b \in BOOLEAN : After(b, Mapped(<<>>, F), P, Q) <=> b /\ Keeps(<<>>, E)
    BY <2>2, <2>3, <2>4, Zenon
  <2> QED
    BY <2>1, <2>5, Zenon
<1>2. ASSUME NEW u \in S, NEW a \in A PROVE Append(u, a) \in S
  <2>1. u \in Seq(A) /\ \A b \in BOOLEAN : After(b, Mapped(u, F), P, Q) <=> b /\ Keeps(u, E)
    BY Zenon
  <2>2. Append(u, a) \in Seq(A) /\ Append(u, a) = u \o <<a>> /\ <<a>> \in Seq(A)
    BY <2>1
  <2>3. Mapped(Append(u, a), F) = Mapped(u, F) \o F[a]
    BY <2>1, MappedAppend, Zenon
  <2>5. Mapped(u, F) \in Seq(V)
    BY <2>1, MappedType, Zenon
  <2>6. F[a] \in Seq(V)
    OBVIOUS
  <2>4. Keeps(<<a>>, E) <=> a \notin E
    BY DEF Keeps
  <2>8. Keeps(u \o <<a>>, E) <=> Keeps(u, E) /\ Keeps(<<a>>, E)
    BY <2>1, <2>2, KeepsConcat
  <2>7. ASSUME NEW b \in BOOLEAN
        PROVE  After(b, Mapped(Append(u, a), F), P, Q) <=> b /\ Keeps(Append(u, a), E)
    <3>1. After(b, Mapped(u, F) \o F[a], P, Q) <=> After(After(b, Mapped(u, F), P, Q), F[a], P, Q)
      BY <2>5, <2>6, AfterConcat, Zenon
    <3>2. After(TRUE, F[a], P, Q) <=> a \notin E
      BY <1>0, Zenon
    <3>3. ~After(FALSE, F[a], P, Q)
      BY <1>0, Zenon
    <3>4. After(b, Mapped(u, F), P, Q) <=> b /\ Keeps(u, E)
      BY <2>1, Zenon
    <3>5. After(After(b, Mapped(u, F), P, Q), F[a], P, Q) <=> b /\ Keeps(u, E) /\ a \notin E
      BY <3>2, <3>3, <3>4, Zenon DEF After
    <3> QED
      BY <2>2, <2>3, <2>4, <2>8, <3>1, <3>5, Zenon
  <2> QED
    BY <2>2, <2>7, Zenon
<1> HIDE DEF S
<1>3. S \in SUBSET Seq(A)
  BY DEF S
<1>4. S = Seq(A)
  BY <1>1, <1>2, <1>3, SeqInduction
<1> QED
  BY <1>4, Zenon DEF S, Keeps, ClearsAll
=============================================================================
