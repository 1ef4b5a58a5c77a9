------------------------- MODULE SequenceLemmas -------------------------
(***************************************************************************)
(* Facts the proofs of several components share: induction over positions, *)
(* stated with a set instead of an operator, and what pieces and           *)
(* concatenations of sequences hold.                                       *)
(***************************************************************************)
EXTENDS Integers, Sequences, NaturalsInduction, SequenceTheorems,
        WellFoundedInduction, TLAPS

\* A set of numbers has a smallest one.
LEMMA Least ==
    ASSUME NEW ks, ks \subseteq Nat, ks # {}
    PROVE  \E i \in ks : \A j \in ks : i <= j
  <1>1. PICK k \in ks : \A j \in ks : ~(<<j, k>> \in OpToRel(<, Nat))
    BY NatLessThanWellFounded, WFMin
  <1>2. ASSUME NEW j \in ks
        PROVE  k <= j
    <2>1. j \in Nat /\ k \in Nat
      OBVIOUS
    <2>2. OpToRel(<, Nat) = {ss \in Nat \X Nat : ss[1] < ss[2]}
      BY DEF OpToRel
    <2>3. ~(j < k)
      BY <1>1, <2>1, <2>2
    <2> QED
      BY <2>1, <2>3
  <1> QED
    BY <1>2

\* From lo to hi, one position at a time.
LEMMA Induction ==
    ASSUME NEW lo \in Nat, NEW hi \in Nat, NEW holds, lo \in holds,
           \A k \in lo .. hi : k \in holds /\ k < hi => k + 1 \in holds
    PROVE  \A k \in lo .. hi : k \in holds
  <1> DEFINE bad == {k \in lo .. hi : k \notin holds}
  <1>1. bad \subseteq Nat
    OBVIOUS
  <1>2. bad = {}
    <2> SUFFICES ASSUME bad # {} PROVE FALSE
      OBVIOUS
    <2>1. \E i \in bad : \A j \in bad : i <= j
      <3> HIDE DEF bad
      <3> QED
        BY <1>1, Least
    <2>2. PICK i \in bad : \A j \in bad : i <= j
      BY <2>1
    <2>3. i \in lo .. hi /\ i \notin holds
      BY <2>2
    <2>4. i - 1 \in lo .. hi /\ i - 1 < hi /\ i - 1 < i
      BY <2>3
    <2>5. i - 1 \notin bad
      <3> HIDE DEF bad
      <3> QED
        BY <2>2, <2>3, <2>4
    <2>6. i - 1 \in holds
      BY <2>4, <2>5
    <2>7. (i - 1) + 1 \in holds
      BY <2>4, <2>6
    <2> QED
      BY <2>3, <2>7
  <1> QED
    BY <1>2

\* F takes b through n steps, one position at a time.
Steps(F, S, b, n, step) ==
    /\ F \in [0 .. n -> S]
    /\ F[0] = b
    /\ \A k \in 1 .. n : F[k] = step[k][F[k - 1]]

\* A function defined by recursion over the positions exists, and its values are
\* where each step keeps them.
LEMMA Recursion ==
    ASSUME NEW S, NEW b \in S, NEW n \in Nat, NEW step \in [1 .. n -> [S -> S]]
    PROVE  \E F : Steps(F, S, b, n, step)
  <1> DEFINE steps(F, m) == F[0] = b /\ \A k \in 1 .. m : F[k] = step[k][F[k - 1]]
             holds == {m \in 0 .. n : \E F \in [0 .. m -> S] : steps(F, m)}
  <1>1. 0 \in holds
    <2> DEFINE F == [k \in 0 .. 0 |-> b]
    <2>1. F \in [0 .. 0 -> S] /\ steps(F, 0)
      OBVIOUS
    <2> HIDE DEF F
    <2> QED
      BY <2>1
  <1>2. ASSUME NEW m \in 0 .. n, m \in holds, m < n
        PROVE  m + 1 \in holds
    <2>1. PICK F \in [0 .. m -> S] : steps(F, m)
      BY <1>2
    <2> DEFINE G == [k \in 0 .. m + 1 |-> IF k <= m THEN F[k] ELSE step[m + 1][F[m]]]
    <2>2. m + 1 \in 0 .. n /\ m + 1 \in 1 .. n /\ m \in 0 .. m
      BY <1>2
    <2>3. step[m + 1] \in [S -> S] /\ F[m] \in S
      BY <2>2
    <2>4. step[m + 1][F[m]] \in S
      BY <2>3
    <2>5. G \in [0 .. m + 1 -> S]
      BY <2>2, <2>4
    <2>6. /\ \A k \in 0 .. m : G[k] = F[k]
          /\ G[m + 1] = step[m + 1][F[m]]
      BY <2>2
    <2> HIDE DEF G
    <2>7. ASSUME NEW k \in 1 .. m + 1
          PROVE  G[k] = step[k][G[k - 1]]
      <3>1. CASE k = m + 1
        <4>1. G[m] = F[m] /\ k - 1 = m
          BY <2>2, <2>6, <3>1
        <4> QED
          BY <2>6, <3>1, <4>1
      <3>2. CASE k # m + 1
        <4>1. k \in 1 .. m /\ k \in 0 .. m /\ k - 1 \in 0 .. m
          BY <2>2, <3>2
        <4> QED
          BY <2>1, <2>6, <4>1
      <3> QED
        BY <3>1, <3>2
    <2>8. G[0] = b
      BY <2>1, <2>2, <2>6
    <2>9. steps(G, m + 1)
      BY <2>7, <2>8
    <2> HIDE DEF steps
    <2> QED
      BY <2>2, <2>5, <2>9
  <1> HIDE DEF holds
  <1>3. \A k \in 0 .. n : k \in holds
    BY <1>1, <1>2, Induction
  <1>4. n \in holds
    BY <1>3
  <1>5. PICK F \in [0 .. n -> S] : steps(F, n)
    BY <1>4 DEF holds
  <1>6. Steps(F, S, b, n, step)
    BY <1>5 DEF Steps
  <1> QED
    BY <1>6

-----------------------------------------------------------------------------
\* What is left of a sequence after its first m elements.
LEMMA Suffix ==
    ASSUME NEW S, NEW s \in Seq(S), NEW m \in Nat, m <= Len(s)
    PROVE  LET p == SubSeq(s, m + 1, Len(s)) IN
           /\ p \in Seq(S) /\ Len(p) = Len(s) - m
           /\ \A i \in 1 .. Len(p) : p[i] = s[i + m]
  <1> DEFINE p == SubSeq(s, m + 1, Len(s))
  <1>1. m + 1 \in Int /\ Len(s) \in Int /\ \A i \in m + 1 .. Len(s) : s[i] \in S
    OBVIOUS
  <1>2. /\ p \in Seq(S)
        /\ Len(p) = IF m + 1 <= Len(s) THEN Len(s) - (m + 1) + 1 ELSE 0
        /\ \A i \in 1 .. Len(s) - (m + 1) + 1 : p[i] = s[(m + 1) + i - 1]
    BY <1>1, SubSeqProperties
  <1> HIDE DEF p
  <1>3. Len(p) = Len(s) - m /\ Len(s) - (m + 1) + 1 = Len(s) - m
    BY <1>1, <1>2
  <1>4. \A i \in 1 .. Len(p) : (m + 1) + i - 1 = i + m
    BY <1>1, <1>3
  <1>5. \A i \in 1 .. Len(p) : p[i] = s[i + m]
    BY <1>2, <1>3, <1>4
  <1> QED
    BY <1>2, <1>3, <1>5 DEF p

\* The elements of two sequences, one after the other.
LEMMA Concat ==
    ASSUME NEW S, NEW s \in Seq(S), NEW t \in Seq(S)
    PROVE  /\ s \o t \in Seq(S) /\ Len(s \o t) = Len(s) + Len(t)
           /\ \A i \in 1 .. Len(s) : (s \o t)[i] = s[i]
           /\ \A i \in Len(s) + 1 .. Len(s \o t) : (s \o t)[i] = t[i - Len(s)]
  <1>1. Len(s) \in Nat /\ Len(t) \in Nat
    OBVIOUS
  <1>2. /\ s \o t \in Seq(S) /\ Len(s \o t) = Len(s) + Len(t)
        /\ \A i \in 1 .. Len(s) + Len(t) :
              (s \o t)[i] = IF i <= Len(s) THEN s[i] ELSE t[i - Len(s)]
    BY ConcatProperties
  <1> DEFINE c == s \o t
  <1> HIDE DEF c
  <1>3. /\ c \in Seq(S) /\ Len(c) = Len(s) + Len(t)
        /\ \A i \in 1 .. Len(s) + Len(t) : c[i] = IF i <= Len(s) THEN s[i] ELSE t[i - Len(s)]
    BY <1>2 DEF c
  <1>4. /\ \A i \in 1 .. Len(s) : c[i] = s[i]
        /\ \A i \in Len(s) + 1 .. Len(c) : c[i] = t[i - Len(s)]
    BY <1>1, <1>3
  <1> QED
    BY <1>3, <1>4 DEF c
=============================================================================
