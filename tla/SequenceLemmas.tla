--------------------------- MODULE SequenceLemmas ---------------------------
(* Lemmas about numbers and sequences that several proofs rest on: least    *)
(* elements and induction over sets of naturals, and what concatenations    *)
(* and parts of sequences have.                                             *)
EXTENDS Integers, Sequences, FiniteSets, FiniteSetTheorems, WellFoundedInduction,
        SequenceTheorems, TLAPS

Has(s, x) == \E n \in DOMAIN s : s[n] = x

(* Some naturals have a least one, as the sets below them have one that no  *)
(* other is part of.                                                        *)
LEMMA LeastNatural ==
    ASSUME NEW some \in SUBSET Nat, some # {}
    PROVE  \E m \in some : \A k \in some : m <= k
<1> DEFINE below == {0..(n - 1) : n \in some}
           less == StrictSubsetOrdering(Nat)
<1>1. IsWellFoundedOn(less, FiniteSubsetsOf(Nat))
  BY FS_StrictSubsetOrderingWellFounded
<1>2. below \subseteq FiniteSubsetsOf(Nat)
  <2>1. \A n \in some : IsFiniteSet(0..(n - 1)) /\ 0..(n - 1) \in SUBSET Nat
    BY FS_Interval
  <2> QED
    BY <2>1 DEF FiniteSubsetsOf
<1>3. below # {}
  OBVIOUS
<1>4. PICK x \in below : \A y \in below : <<y, x>> \notin less
  <2> HIDE DEF below, less
  <2> QED
    BY <1>1, <1>2, <1>3, WFMin
<1>5. PICK m \in some : x = 0..(m - 1)
  OBVIOUS
<1>6. ASSUME NEW k \in some, k < m
      PROVE  FALSE
  <2>1. 0..(k - 1) \subseteq 0..(m - 1)
    BY <1>6
  <2>2. k \in 0..(m - 1) /\ k \notin 0..(k - 1)
    BY <1>6
  <2>3. 0..(k - 1) \in SUBSET Nat /\ 0..(m - 1) \in SUBSET Nat
    OBVIOUS
  <2>4. <<0..(k - 1), x>> \in less
    BY <1>5, <2>1, <2>2, <2>3 DEF StrictSubsetOrdering
  <2> QED
    BY <1>4, <2>4
<1> QED
  BY <1>6

(* There is a last one among some of the places of a sequence.              *)
LEMMA LastPlace ==
    ASSUME NEW n \in Nat, NEW places \in SUBSET (1..n), places # {}
    PROVE  \E m \in places : \A k \in places : k <= m
<1> DEFINE fromEnd == {n - k : k \in places}
<1>1. fromEnd \in SUBSET Nat
  OBVIOUS
<1>2. PICK k \in places : TRUE
  OBVIOUS
<1>3. n - k \in fromEnd
  BY <1>2
<1>4. PICK least \in fromEnd : \A d \in fromEnd : least <= d
  <2> HIDE DEF fromEnd
  <2> QED
    BY <1>1, <1>3, LeastNatural
<1>5. PICK m \in places : least = n - m
  BY <1>4
<1>6. \A j \in places : n - m <= n - j
  BY <1>4, <1>5
<1> QED
  BY <1>6

(* Induction, over a set of naturals.                                       *)
LEMMA Induction ==
    ASSUME NEW these \in SUBSET Nat, 0 \in these, \A n \in these : n + 1 \in these
    PROVE  these = Nat
<1> DEFINE others == Nat \ these
<1>1. ASSUME others # {} PROVE FALSE
  <2>1. PICK m \in others : \A k \in others : m <= k
    <3>1. others \in SUBSET Nat
      OBVIOUS
    <3> HIDE DEF others
    <3> QED
      BY <1>1, <3>1, LeastNatural
  <2>2. m # 0 /\ m \in Nat
    OBVIOUS
  <2>3. m - 1 \in Nat /\ m - 1 \in these
    BY <2>1, <2>2
  <2>4. (m - 1) + 1 \in these
    BY <2>3
  <2> QED
    BY <2>2, <2>4
<1> QED
  BY <1>1

(* A list with one more at its end.                                         *)
LEMMA OneMore ==
    ASSUME NEW S, NEW list \in Seq(S), NEW e \in S
    PROVE  LET more == Append(list, e)
           IN  /\ more \in Seq(S) /\ DOMAIN list = 1..Len(list) /\ Len(list) \in Nat
               /\ DOMAIN more = 1..(Len(list) + 1) /\ more[Len(list) + 1] = e
               /\ \A i \in DOMAIN list : more[i] = list[i]
               /\ \A i \in DOMAIN more : i \in DOMAIN list \/ i = Len(list) + 1
<1> DEFINE more == Append(list, e)
<1>1. /\ more \in Seq(S) /\ DOMAIN list = 1..Len(list) /\ Len(list) \in Nat
      /\ Len(more) = Len(list) + 1 /\ more[Len(list) + 1] = e
      /\ \A i \in 1..Len(list) : more[i] = list[i]
  BY AppendProperties, LenProperties
<1>2. DOMAIN more = 1..Len(more)
  BY <1>1, LenProperties
<1> HIDE DEF more
<1>3. \A i \in 1..(Len(list) + 1) : i \in 1..Len(list) \/ i = Len(list) + 1
  BY <1>1
<1> QED
  BY <1>1, <1>2, <1>3 DEF more

(* What a concatenation has.                                                *)
LEMMA HasConcat ==
    ASSUME NEW S, NEW s \in Seq(S), NEW t \in Seq(S)
    PROVE  /\ \A i \in DOMAIN (s \o t) : Has(s, (s \o t)[i]) \/ Has(t, (s \o t)[i])
           /\ \A x : Has(s, x) \/ Has(t, x) => Has(s \o t, x)
<1> DEFINE st == s \o t
<1>1. /\ DOMAIN s = 1..Len(s) /\ DOMAIN t = 1..Len(t) /\ DOMAIN st = 1..(Len(s) + Len(t))
      /\ Len(s) \in Nat /\ Len(t) \in Nat
      /\ \A i \in DOMAIN st : st[i] = IF i <= Len(s) THEN s[i] ELSE t[i - Len(s)]
  BY ConcatProperties
<1> HIDE DEF st
<1>2. ASSUME NEW i \in DOMAIN st PROVE Has(s, st[i]) \/ Has(t, st[i])
  <2>1. CASE i <= Len(s)
    BY <1>1, <2>1 DEF Has
  <2>2. CASE i > Len(s)
    <3>1. i - Len(s) \in DOMAIN t /\ st[i] = t[i - Len(s)]
      BY <1>1, <2>2
    <3> QED
      BY <3>1 DEF Has
  <2> QED
    BY <1>1, <2>1, <2>2
<1>3. ASSUME NEW x, Has(s, x) PROVE Has(st, x)
  BY <1>1, <1>3 DEF Has
<1>4. ASSUME NEW x, Has(t, x) PROVE Has(st, x)
  <2>1. PICK i \in DOMAIN t : t[i] = x
    BY <1>4 DEF Has
  <2>2. i + Len(s) \in DOMAIN st /\ st[i + Len(s)] = t[i]
    BY <1>1
  <2> QED
    BY <2>1, <2>2 DEF Has
<1> QED
  BY <1>2, <1>3, <1>4 DEF st

(* A sequence is cut into a batch and the rest.                             *)
LEMMA CutSequence ==
    ASSUME NEW S, NEW s \in Seq(S), NEW n \in 0..Len(s)
    PROVE  /\ SubSeq(s, 1, n) \in Seq(S) /\ Len(SubSeq(s, 1, n)) = n
           /\ \A i \in 1..n : SubSeq(s, 1, n)[i] = s[i]
           /\ SubSeq(s, n + 1, Len(s)) \in Seq(S) /\ Len(SubSeq(s, n + 1, Len(s))) = Len(s) - n
           /\ \A i \in 1..(Len(s) - n) : SubSeq(s, n + 1, Len(s))[i] = s[n + i]
           /\ \A x : Has(s, x) <=> Has(SubSeq(s, 1, n), x) \/ Has(SubSeq(s, n + 1, Len(s)), x)
<1> DEFINE batch == SubSeq(s, 1, n)
           rest == SubSeq(s, n + 1, Len(s))
<1>1. Len(s) \in Nat /\ n \in Nat /\ DOMAIN s = 1..Len(s) /\ n <= Len(s)
  BY LenProperties
<1>2. /\ batch \in Seq(S) /\ Len(batch) = n
      /\ \A i \in 1..n : batch[i] = s[i]
  BY <1>1, SubSeqProperties
<1>3. /\ rest \in Seq(S) /\ Len(rest) = Len(s) - n
      /\ \A i \in 1..(Len(s) - n) : rest[i] = s[n + i]
  <2>1. n + 1 \in 1..(Len(s) + 1) /\ Len(s) \in (n + 1 - 1)..Len(s)
    BY <1>1
  <2>2. /\ rest \in Seq(S)
        /\ Len(rest) = IF n + 1 <= Len(s) THEN Len(s) - (n + 1) + 1 ELSE 0
        /\ \A i \in 1..(Len(s) - (n + 1) + 1) : rest[i] = s[n + 1 + i - 1]
    BY <1>1, <2>1, SubSeqProperties
  <2> HIDE DEF rest
  <2>3. \A i \in 1..(Len(s) - n) : rest[i] = s[n + i]
    <3> SUFFICES ASSUME NEW i \in 1..(Len(s) - n) PROVE rest[i] = s[n + i]
      OBVIOUS
    <3>1. i \in 1..(Len(s) - (n + 1) + 1) /\ n + 1 + i - 1 = n + i
      BY <1>1
    <3> QED
      BY <2>2, <3>1
  <2>4. Len(rest) = Len(s) - n
    <3> DEFINE l == Len(s)
    <3>1. l \in Nat /\ n \in Nat /\ n <= l
      BY <1>1
    <3>2. Len(rest) = IF n + 1 <= l THEN l - (n + 1) + 1 ELSE 0
      BY <2>2
    <3> HIDE DEF l
    <3>3. Len(rest) = l - n
      BY <3>1, <3>2
    <3> QED
      BY <3>3 DEF l
  <2>5. rest \in Seq(S)
    BY <2>2
  <2> QED
    BY <2>3, <2>4, <2>5
<1> HIDE DEF batch, rest
<1>4. DOMAIN batch = 1..n /\ DOMAIN rest = 1..(Len(s) - n)
  BY <1>2, <1>3, LenProperties
<1>5. ASSUME NEW x, Has(s, x)
      PROVE  Has(batch, x) \/ Has(rest, x)
  <2>1. PICK i \in DOMAIN s : s[i] = x
    BY <1>5 DEF Has
  <2>2. CASE i <= n
    BY <1>1, <1>2, <1>4, <2>1, <2>2 DEF Has
  <2>3. CASE i > n
    <3>1. i - n \in 1..(Len(s) - n) /\ n + (i - n) = i
      BY <1>1, <2>3
    <3>2. rest[i - n] = s[i]
      BY <1>3, <3>1
    <3> QED
      BY <1>4, <2>1, <3>1, <3>2 DEF Has
  <2> QED
    BY <1>1, <2>2, <2>3
<1>6. ASSUME NEW x, Has(batch, x)
      PROVE  Has(s, x)
  BY <1>1, <1>2, <1>4, <1>6 DEF Has
<1>7. ASSUME NEW x, Has(rest, x)
      PROVE  Has(s, x)
  <2>1. PICK i \in 1..(Len(s) - n) : rest[i] = x
    BY <1>4, <1>7 DEF Has
  <2>2. n + i \in DOMAIN s /\ s[n + i] = x
    BY <1>1, <1>3, <2>1
  <2> QED
    BY <2>2 DEF Has
<1> QED
  BY <1>2, <1>3, <1>5, <1>6, <1>7 DEF batch, rest
=============================================================================
