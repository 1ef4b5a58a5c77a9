-------------------------- MODULE SessionIndex_proofs --------------------------
(***************************************************************************)
(* Proofs about SessionIndex, for any cap, any number of sessions, turns   *)
(* and crashes, with and without losses of index.json.                     *)
(*                                                                         *)
(* The invariant IndexIInv speaks of every state the disk still has to go  *)
(* through: each of them is sound by itself and keeps what the user may    *)
(* count on now (a crash stops at any of them), the last one also what the *)
(* answer will bring.  An operation of SessionStore gets one lemma: from a *)
(* store whose states are such to a store whose states are such.           *)
(***************************************************************************)
EXTENDS SessionIndex, SequenceLemmas, SequenceTheorems, TLAPS

-----------------------------------------------------------------------------
(* Lists of sessions, as the sets of their entries. *)

Entries(sessions) == {sessions[k] : k \in DOMAIN sessions}

Distinct(sessions) ==
    \A j, k \in DOMAIN sessions : sessions[j].id = sessions[k].id => j = k

\* What is listed are the ids of the entries.
LEMMA ListedAre ==
    ASSUME NEW s \in Seq(Meta)
    PROVE  /\ \A e \in Entries(s) : e \in Meta /\ e.id \in Listed(s)
           /\ \A id \in Listed(s) : \E e \in Entries(s) : e.id = id
           /\ s = <<>> <=> Entries(s) = {}
           /\ Listed(s) \subseteq Nat
  <1>1. \A k \in DOMAIN s : s[k] \in Meta
    OBVIOUS
  <1>2. \A k \in DOMAIN s : s[k].id \in Nat
    BY <1>1 DEF Meta
  <1>3. s = <<>> <=> Entries(s) = {}
    <2>1. CASE s = <<>>
      BY <2>1 DEF Entries
    <2>2. CASE s # <<>>
      <3>1. 1 \in DOMAIN s
        BY <2>2
      <3> QED
        BY <2>2, <3>1 DEF Entries
    <2> QED
      BY <2>1, <2>2
  <1> QED
    BY <1>1, <1>2, <1>3 DEF Entries, Listed

\* An entry more.
LEMMA AppendedList ==
    ASSUME NEW s \in Seq(Meta), NEW m \in Meta
    PROVE  /\ Append(s, m) \in Seq(Meta)
           /\ Entries(Append(s, m)) = Entries(s) \cup {m}
           /\ Distinct(s) /\ m.id \notin Listed(s) => Distinct(Append(s, m))
  <1> DEFINE t == Append(s, m)
  <1>1. /\ t \in Seq(Meta) /\ DOMAIN s = 1 .. Len(s) /\ DOMAIN t = 1 .. Len(s) + 1
        /\ Len(s) \in Nat
        /\ \A k \in 1 .. Len(s) : t[k] = s[k]
        /\ t[Len(s) + 1] = m
    OBVIOUS
  <1> HIDE DEF t
  <1>2. Entries(t) = Entries(s) \cup {m}
    <2>1. ASSUME NEW k \in DOMAIN t
          PROVE  t[k] \in Entries(s) \cup {m}
      <3>1. k \in 1 .. Len(s) \/ k = Len(s) + 1
        BY <1>1
      <3> QED
        BY <1>1, <3>1 DEF Entries
    <2>2. ASSUME NEW k \in DOMAIN s
          PROVE  s[k] \in Entries(t)
      <3>1. k \in DOMAIN t /\ t[k] = s[k]
        BY <1>1
      <3> QED
        BY <3>1 DEF Entries
    <2>3. m \in Entries(t)
      <3>1. Len(s) + 1 \in DOMAIN t
        BY <1>1
      <3> QED
        BY <1>1, <3>1 DEF Entries
    <2> QED
      BY <2>1, <2>2, <2>3 DEF Entries
  <1>3. ASSUME Distinct(s), m.id \notin Listed(s), NEW j \in DOMAIN t, NEW k \in DOMAIN t,
               t[j].id = t[k].id
        PROVE  j = k
    <2>1. /\ j \in 1 .. Len(s) \/ j = Len(s) + 1
          /\ k \in 1 .. Len(s) \/ k = Len(s) + 1
      BY <1>1
    <2>2. \A i \in 1 .. Len(s) : t[i].id # m.id
      BY <1>1, <1>3 DEF Listed
    <2> QED
      BY <1>1, <1>3, <2>1, <2>2 DEF Distinct
  <1> QED
    BY <1>1, <1>2, <1>3 DEF Distinct, t

\* The first entries of a list.
LEMMA FirstOfList ==
    ASSUME NEW s \in Seq(Meta), NEW n \in Nat, n <= Len(s)
    PROVE  LET t == SubSeq(s, 1, n) IN
           /\ t \in Seq(Meta) /\ Len(t) = n /\ \A k \in 1 .. n : t[k] = s[k]
           /\ Entries(t) \subseteq Entries(s)
           /\ Distinct(s) => Distinct(t)
  <1> DEFINE t == SubSeq(s, 1, n)
  <1>1. /\ t \in Seq(Meta) /\ Len(t) = n /\ \A k \in 1 .. n : t[k] = s[k]
        /\ DOMAIN s = 1 .. Len(s)
    OBVIOUS
  <1> HIDE DEF t
  <1>2. DOMAIN t = 1 .. n /\ 1 .. n \subseteq DOMAIN s
    BY <1>1
  <1> QED
    BY <1>1, <1>2 DEF Entries, Distinct, t

\* An entry goes in at one place, the others make room.
LEMMA InsertedAt ==
    ASSUME NEW s \in Seq(Meta), NEW m \in Meta
    PROVE  \E k \in 1 .. Len(s) + 1 :
              LET t == Inserted(s, m) IN
              /\ t \in Seq(Meta) /\ Len(t) = Len(s) + 1
              /\ \A i \in 1 .. k - 1 : t[i] = s[i]
              /\ t[k] = m
              /\ \A i \in k + 1 .. Len(s) + 1 : t[i] = s[i - 1]
  <1> DEFINE fits(k) == /\ \A j \in 1 .. k - 1 : s[j].updated >= m.updated
                        /\ k <= Len(s) => s[k].updated < m.updated
             older == {k \in 1 .. Len(s) : s[k].updated < m.updated}
             p == CHOOSE k \in 1 .. Len(s) + 1 : fits(k)
             t == Inserted(s, m)
  <1>0. /\ Len(s) \in Nat /\ m.updated \in Nat
        /\ \A k \in 1 .. Len(s) : s[k] \in Meta /\ s[k].updated \in Nat
    <2>1. Len(s) \in Nat /\ \A k \in 1 .. Len(s) : s[k] \in Meta
      OBVIOUS
    <2> QED
      BY <2>1 DEF Meta
  <1>1. \E k \in 1 .. Len(s) + 1 : fits(k)
    <2>1. CASE older = {}
      <3>1. fits(Len(s) + 1)
        BY <1>0, <2>1
      <3> QED
        BY <1>0, <3>1
    <2>2. CASE older # {}
      <3>1. older \subseteq Nat
        OBVIOUS
      <3>2. PICK k \in older : \A j \in older : k <= j
        <4> HIDE DEF older
        <4> QED
          BY <2>2, <3>1, Least
      <3>3. \A j \in 1 .. k - 1 : j \notin older /\ j \in 1 .. Len(s)
        BY <1>0, <3>2
      <3>4. fits(k)
        BY <1>0, <3>2, <3>3
      <3> QED
        BY <1>0, <3>2, <3>4
    <2> QED
      BY <2>1, <2>2
  <1>2. p \in 1 .. Len(s) + 1
    <2> HIDE DEF fits
    <2> QED
      BY <1>1
  <1>3. t = SubSeq(s, 1, p - 1) \o <<m>> \o SubSeq(s, p, Len(s))
    BY DEF Inserted
  <1> HIDE DEF p, t
  <1> DEFINE a == SubSeq(s, 1, p - 1)
             z == SubSeq(s, p, Len(s))
  <1>4. /\ a \in Seq(Meta) /\ Len(a) = p - 1 /\ \A i \in 1 .. p - 1 : a[i] = s[i]
    <2>1. p - 1 \in Nat /\ p - 1 <= Len(s)
      BY <1>0, <1>2
    <2> QED
      BY <2>1, FirstOfList
  <1>5. /\ z \in Seq(Meta) /\ Len(z) = Len(s) - (p - 1)
        /\ \A i \in 1 .. Len(z) : z[i] = s[i + (p - 1)]
    <2>1. p - 1 \in Nat /\ p - 1 <= Len(s) /\ (p - 1) + 1 = p
      BY <1>0, <1>2
    <2> QED
      BY SMTT(30), <2>1, Suffix
  <1>6. t = a \o <<m>> \o z
    BY <1>3
  <1> HIDE DEF a, z
  <1> DEFINE c == a \o <<m>>
  <1>7. /\ <<m>> \in Seq(Meta) /\ Len(<<m>>) = 1 /\ <<m>>[1] = m
    OBVIOUS
  <1>8. /\ c \in Seq(Meta) /\ Len(c) = p
        /\ \A i \in 1 .. p - 1 : c[i] = s[i]
        /\ c[p] = m
    <2> DEFINE one == <<m>>
    <2> HIDE DEF one
    <2>1. /\ one \in Seq(Meta) /\ Len(one) = 1 /\ one[1] = m
      BY <1>7 DEF one
    <2>2. /\ a \o one \in Seq(Meta) /\ Len(a \o one) = Len(a) + Len(one)
          /\ \A i \in 1 .. Len(a) : (a \o one)[i] = a[i]
          /\ \A i \in Len(a) + 1 .. Len(a \o one) : (a \o one)[i] = one[i - Len(a)]
      BY <1>4, <2>1, Concat
    <2>3. p \in Nat /\ p \in Len(a) + 1 .. Len(a \o one) /\ p - Len(a) = 1 /\ Len(a) + Len(one) = p
      BY <1>0, <1>2, <1>4, <2>1, <2>2
    <2> QED
      BY <1>4, <2>1, <2>2, <2>3 DEF one
  <1> HIDE DEF c
  <1>9. /\ c \o z \in Seq(Meta) /\ Len(c \o z) = Len(c) + Len(z)
        /\ \A i \in 1 .. Len(c) : (c \o z)[i] = c[i]
        /\ \A i \in Len(c) + 1 .. Len(c \o z) : (c \o z)[i] = z[i - Len(c)]
    BY <1>5, <1>8, Concat
  <1>10. t = c \o z
    BY <1>6 DEF c
  <1>11. /\ t \in Seq(Meta) /\ Len(t) = Len(s) + 1
         /\ \A i \in 1 .. p : t[i] = c[i]
         /\ \A i \in p + 1 .. Len(s) + 1 : t[i] = z[i - p]
    BY <1>0, <1>2, <1>5, <1>8, <1>9, <1>10
  <1>12. \A i \in p + 1 .. Len(s) + 1 :
            i - p \in 1 .. Len(z) /\ (i - p) + (p - 1) = i - 1
    BY <1>0, <1>2, <1>5
  <1>13. \A i \in p + 1 .. Len(s) + 1 : t[i] = s[i - 1]
    BY <1>5, <1>11, <1>12
  <1>14. /\ \A i \in 1 .. p - 1 : i \in 1 .. p
         /\ p \in 1 .. p
    BY <1>0, <1>2
  <1>15. (\A i \in 1 .. p - 1 : t[i] = s[i]) /\ t[p] = m
    BY <1>8, <1>11, <1>14
  <1> QED
    BY <1>2, <1>11, <1>13, <1>15 DEF t

\* The same, as a set.
LEMMA InsertedList ==
    ASSUME NEW s \in Seq(Meta), NEW m \in Meta
    PROVE  /\ Inserted(s, m) \in Seq(Meta)
           /\ Entries(Inserted(s, m)) = Entries(s) \cup {m}
           /\ Distinct(s) /\ m.id \notin Listed(s) => Distinct(Inserted(s, m))
  <1> DEFINE t == Inserted(s, m)
  <1>1. PICK p \in 1 .. Len(s) + 1 :
              /\ t \in Seq(Meta) /\ Len(t) = Len(s) + 1
              /\ \A i \in 1 .. p - 1 : t[i] = s[i]
              /\ t[p] = m
              /\ \A i \in p + 1 .. Len(s) + 1 : t[i] = s[i - 1]
    BY InsertedAt
  <1>2. Len(s) \in Nat /\ DOMAIN s = 1 .. Len(s)
    OBVIOUS
  <1> HIDE DEF t
  <1>3. DOMAIN t = 1 .. Len(s) + 1
    BY <1>1, <1>2
  <1> DEFINE from(i) == IF i < p THEN i ELSE i - 1
  <1>4. ASSUME NEW i \in DOMAIN t, i # p
        PROVE  from(i) \in DOMAIN s /\ t[i] = s[from(i)]
    BY <1>1, <1>2, <1>3, <1>4
  <1>5. ASSUME NEW j \in DOMAIN s
        PROVE  \E i \in DOMAIN t : t[i] = s[j]
    <2>1. CASE j < p
      <3>1. j \in DOMAIN t /\ j \in 1 .. p - 1
        BY <1>1, <1>2, <1>3, <2>1
      <3> QED
        BY <1>1, <3>1
    <2>2. CASE ~(j < p)
      <3>1. j + 1 \in DOMAIN t /\ j + 1 \in p + 1 .. Len(s) + 1 /\ (j + 1) - 1 = j
        BY <1>1, <1>2, <1>3, <2>2
      <3> QED
        BY <1>1, <3>1
    <2> QED
      BY <2>1, <2>2
  <1>6. Entries(t) = Entries(s) \cup {m}
    <2>1. ASSUME NEW i \in DOMAIN t
          PROVE  t[i] \in Entries(s) \cup {m}
      BY <1>1, <1>4 DEF Entries
    <2>2. ASSUME NEW j \in DOMAIN s
          PROVE  s[j] \in Entries(t)
      BY <1>5 DEF Entries
    <2>3. m \in Entries(t)
      BY <1>1, <1>3 DEF Entries
    <2> QED
      BY <2>1, <2>2, <2>3 DEF Entries
  <1>7. ASSUME Distinct(s), m.id \notin Listed(s), NEW j \in DOMAIN t, NEW k \in DOMAIN t,
               t[j].id = t[k].id
        PROVE  j = k
    <2>1. \A i \in DOMAIN s : s[i].id # m.id
      BY <1>7 DEF Listed
    <2>2. CASE j = p \/ k = p
      BY <1>1, <1>4, <1>7, <2>1, <2>2
    <2>3. CASE j # p /\ k # p
      <3>1. from(j) = from(k)
        BY <1>4, <1>7, <2>3 DEF Distinct
      <3> QED
        BY <1>1, <1>2, <1>3, <2>3, <3>1
    <2> QED
      BY <2>2, <2>3
  <1> QED
    BY <1>1, <1>6, <1>7 DEF Distinct, t

\* Sorting keeps the entries, each in one place.
LEMMA SortedList ==
    ASSUME NEW s \in Seq(Meta)
    PROVE  /\ NewestFirst(s) \in Seq(Meta)
           /\ Entries(NewestFirst(s)) = Entries(s)
           /\ Distinct(s) => Distinct(NewestFirst(s))
  <1> DEFINE S == Seq(Meta)
             n == Len(s)
             step == [k \in 1 .. n |-> [t \in S |-> Inserted(t, s[k])]]
             eq(F) == F = [k \in 0 .. n |-> IF k = 0 THEN <<>> ELSE Inserted(F[k - 1], s[k])]
             first(k) == {s[j] : j \in 1 .. k}
  <1>0. n \in Nat /\ DOMAIN s = 1 .. n /\ <<>> \in S /\ \A k \in 1 .. n : s[k] \in Meta
    OBVIOUS
  <1>1. step \in [1 .. n -> [S -> S]]
    BY <1>0, InsertedList
  <1>2. \A k \in 1 .. n : \A t \in S : step[k][t] = Inserted(t, s[k])
    OBVIOUS
  <1>3. \E F : eq(F)
    <2> HIDE DEF n, S, step
    <2> DEFINE b == <<>>
    <2>0. b \in S
      BY <1>0
    <2>00. n \in Nat
      BY <1>0
    <2> HIDE DEF b
    <2>01. PICK F : Steps(F, S, b, n, step)
      BY <1>1, <2>0, <2>00, Recursion
    <2>1. F \in [0 .. n -> S] /\ F[0] = b /\ \A k \in 1 .. n : F[k] = step[k][F[k - 1]]
      BY <2>01 DEF Steps
    <2> USE DEF b
    <2>2. ASSUME NEW k \in 0 .. n
          PROVE  F[k] = IF k = 0 THEN <<>> ELSE Inserted(F[k - 1], s[k])
      <3>1. CASE k = 0
        BY <2>1, <3>1
      <3>2. CASE k # 0
        <4>1. k \in 1 .. n /\ k - 1 \in 0 .. n
          BY <1>0, <3>2
        <4>2. F[k - 1] \in S
          BY <2>1, <4>1
        <4> QED
          BY <1>2, <2>1, <3>2, <4>1, <4>2
      <3> QED
        BY <3>1, <3>2
    <2>3. eq(F)
      BY <2>1, <2>2
    <2> QED
      BY <2>3
  <1>4. PICK F : eq(F) /\ NewestFirst(s) = F[n]
    BY <1>3 DEF NewestFirst
  <1> HIDE DEF S, n, step
  <1>5. /\ F[0] = <<>>
        /\ \A k \in 0 .. n : k < n => F[k + 1] = Inserted(F[k], s[k + 1]) /\ k + 1 \in 1 .. n
    <2>1. 0 \in 0 .. n /\ \A k \in 0 .. n : k < n => /\ k + 1 \in 0 .. n /\ k + 1 \in 1 .. n
                                                 /\ k + 1 # 0 /\ (k + 1) - 1 = k
      BY <1>0
    <2> QED
      BY <1>4, <2>1
  <1>51. /\ first(0) = {} /\ first(n) = Entries(s)
         /\ \A k \in 0 .. n : k < n => first(k + 1) = first(k) \cup {s[k + 1]}
         /\ \A k \in 0 .. n : \A e \in first(k) : \E j \in 1 .. k : e = s[j]
    <2>1. \A k \in 0 .. n : k < n => 1 .. k + 1 = (1 .. k) \cup {k + 1}
      BY <1>0
    <2>2. first(0) = {} /\ first(n) = Entries(s)
      BY <1>0 DEF Entries
    <2>3. ASSUME NEW k \in 0 .. n, k < n
          PROVE  first(k + 1) = first(k) \cup {s[k + 1]}
      BY <2>1, <2>3
    <2> QED
      BY <2>2, <2>3
  <1> HIDE DEF first
  <1> DEFINE holds == {k \in 0 .. n : /\ F[k] \in Seq(Meta)
                                      /\ Entries(F[k]) = first(k)
                                      /\ Distinct(s) => Distinct(F[k])}
  <1>6. 0 \in holds
    <2>1. Entries(F[0]) = {} /\ Distinct(F[0]) /\ F[0] \in Seq(Meta)
      BY <1>5 DEF Entries, Distinct
    <2>2. 0 \in 0 .. n
      BY <1>0
    <2>3. Entries(F[0]) = first(0)
      BY <1>51, <2>1
    <2> QED
      BY <2>1, <2>2, <2>3
  <1>7. ASSUME NEW k \in 0 .. n, k \in holds, k < n
        PROVE  k + 1 \in holds
    <2>1. F[k] \in Seq(Meta) /\ Entries(F[k]) = first(k) /\ (Distinct(s) => Distinct(F[k]))
      BY <1>7
    <2>2. F[k + 1] = Inserted(F[k], s[k + 1]) /\ k + 1 \in 1 .. n /\ s[k + 1] \in Meta
      BY <1>0, <1>5, <1>7
    <2>3. first(k + 1) = first(k) \cup {s[k + 1]}
      BY <1>51, <1>7
    <2>4. Distinct(s) => s[k + 1].id \notin Listed(F[k])
      <3> SUFFICES ASSUME Distinct(s), s[k + 1].id \in Listed(F[k]) PROVE FALSE
        OBVIOUS
      <3>1. PICK e \in Entries(F[k]) : e.id = s[k + 1].id
        BY <2>1, ListedAre
      <3>2. PICK j \in 1 .. k : s[j].id = s[k + 1].id
        BY <1>51, <2>1, <3>1
      <3>3. j \in DOMAIN s /\ k + 1 \in DOMAIN s /\ j # k + 1
        BY <1>0, <1>7
      <3> QED
        BY <3>2, <3>3 DEF Distinct
    <2> HIDE DEF holds
    <2>5. /\ F[k + 1] \in Seq(Meta)
          /\ Entries(F[k + 1]) = first(k + 1)
          /\ Distinct(s) => Distinct(F[k + 1])
      <3>1. /\ Inserted(F[k], s[k + 1]) \in Seq(Meta)
            /\ Entries(Inserted(F[k], s[k + 1])) = Entries(F[k]) \cup {s[k + 1]}
            /\ Distinct(F[k]) /\ s[k + 1].id \notin Listed(F[k])
                  => Distinct(Inserted(F[k], s[k + 1]))
        BY <2>1, <2>2, InsertedList
      <3> QED
        BY <2>1, <2>2, <2>3, <2>4, <3>1
    <2>6. k + 1 \in 0 .. n
      BY <2>2
    <2> QED
      BY <2>5, <2>6 DEF holds
  <1>8. \A k \in 0 .. n : k \in holds
    <2> HIDE DEF holds
    <2> QED
      BY <1>0, <1>6, <1>7, Induction
  <1>9. n \in holds
    BY <1>0, <1>8
  <1> QED
    BY <1>4, <1>51, <1>9

\* Erasing a session leaves the others.
LEMMA OtherList ==
    ASSUME NEW s \in Seq(Meta), NEW id
    PROVE  /\ Others(s, id) \in Seq(Meta)
           /\ Entries(Others(s, id)) = {e \in Entries(s) : e.id # id}
           /\ Distinct(s) => Distinct(Others(s, id))
  <1> DEFINE S == Seq(Meta)
             n == Len(s)
             next(t, k) == IF s[k].id # id THEN Append(t, s[k]) ELSE t
             step == [k \in 1 .. n |-> [t \in S |-> next(t, k)]]
             eq(F) == F = [k \in 0 .. n |-> IF k = 0 THEN <<>>
                                             ELSE IF s[k].id # id THEN Append(F[k - 1], s[k])
                                             ELSE F[k - 1]]
             first(k) == {s[j] : j \in {i \in 1 .. k : s[i].id # id}}
  <1>0. n \in Nat /\ DOMAIN s = 1 .. n /\ <<>> \in S /\ \A k \in 1 .. n : s[k] \in Meta
    OBVIOUS
  <1>1. step \in [1 .. n -> [S -> S]]
    BY <1>0, AppendedList
  <1>2. \A k \in 1 .. n : \A t \in S : step[k][t] = next(t, k)
    OBVIOUS
  <1>3. \E F : eq(F)
    <2> HIDE DEF n, S, step
    <2> DEFINE b == <<>>
    <2>0. b \in S
      BY <1>0
    <2>00. n \in Nat
      BY <1>0
    <2> HIDE DEF b
    <2>01. PICK F : Steps(F, S, b, n, step)
      BY <1>1, <2>0, <2>00, Recursion
    <2>1. F \in [0 .. n -> S] /\ F[0] = b /\ \A k \in 1 .. n : F[k] = step[k][F[k - 1]]
      BY <2>01 DEF Steps
    <2> USE DEF b
    <2>2. ASSUME NEW k \in 0 .. n
          PROVE  F[k] = IF k = 0 THEN <<>> ELSE next(F[k - 1], k)
      <3>1. CASE k = 0
        BY <2>1, <3>1
      <3>2. CASE k # 0
        <4>1. k \in 1 .. n /\ k - 1 \in 0 .. n
          BY <1>0, <3>2
        <4>2. F[k - 1] \in S
          BY <2>1, <4>1
        <4> HIDE DEF next
        <4> QED
          BY <1>2, <2>1, <3>2, <4>1, <4>2
      <3> HIDE DEF next
      <3> QED
        BY <3>1, <3>2
    <2>3. eq(F)
      BY <2>1, <2>2
    <2> QED
      BY <2>3
  <1>4. PICK F : eq(F) /\ Others(s, id) = F[n]
    BY <1>3 DEF Others
  <1> HIDE DEF S, n, step
  <1>5. /\ F[0] = <<>>
        /\ \A k \in 0 .. n : k < n => F[k + 1] = next(F[k], k + 1) /\ k + 1 \in 1 .. n
    <2>1. 0 \in 0 .. n /\ \A k \in 0 .. n : k < n => /\ k + 1 \in 0 .. n /\ k + 1 \in 1 .. n
                                                 /\ k + 1 # 0 /\ (k + 1) - 1 = k
      BY <1>0
    <2> QED
      BY ZenonT(40), <1>4, <2>1
  <1>51. /\ first(0) = {} /\ first(n) = {e \in Entries(s) : e.id # id}
         /\ \A k \in 0 .. n : k < n =>
               first(k + 1) = IF s[k + 1].id # id THEN first(k) \cup {s[k + 1]} ELSE first(k)
         /\ \A k \in 0 .. n : \A e \in first(k) : \E j \in 1 .. k : e = s[j]
    <2>1. \A k \in 0 .. n : k < n => 1 .. k + 1 = (1 .. k) \cup {k + 1}
      BY <1>0
    <2>2. first(0) = {} /\ first(n) = {e \in Entries(s) : e.id # id}
      BY <1>0 DEF Entries
    <2>3. ASSUME NEW k \in 0 .. n, k < n
          PROVE  first(k + 1) = IF s[k + 1].id # id THEN first(k) \cup {s[k + 1]} ELSE first(k)
      BY <2>1, <2>3
    <2> QED
      BY <2>2, <2>3
  <1> HIDE DEF first
  <1> DEFINE holds == {k \in 0 .. n : /\ F[k] \in Seq(Meta)
                                      /\ Entries(F[k]) = first(k)
                                      /\ Distinct(s) => Distinct(F[k])}
  <1>6. 0 \in holds
    <2>1. Entries(F[0]) = {} /\ Distinct(F[0]) /\ F[0] \in Seq(Meta)
      BY <1>5 DEF Entries, Distinct
    <2>2. 0 \in 0 .. n
      BY <1>0
    <2>3. Entries(F[0]) = first(0)
      BY <1>51, <2>1
    <2> QED
      BY <2>1, <2>2, <2>3
  <1>7. ASSUME NEW k \in 0 .. n, k \in holds, k < n
        PROVE  k + 1 \in holds
    <2>1. F[k] \in Seq(Meta) /\ Entries(F[k]) = first(k) /\ (Distinct(s) => Distinct(F[k]))
      BY <1>7
    <2>2. F[k + 1] = next(F[k], k + 1) /\ k + 1 \in 1 .. n /\ s[k + 1] \in Meta
      BY <1>0, <1>5, <1>7
    <2>3. k + 1 \in 0 .. n
      BY <1>0, <2>2
    <2>4. CASE s[k + 1].id = id
      <3>1. first(k + 1) = first(k) /\ F[k + 1] = F[k]
        BY <1>51, <1>7, <2>2, <2>4
      <3> QED
        BY <2>1, <2>3, <3>1
    <2>5. CASE s[k + 1].id # id
      <3>1. first(k + 1) = first(k) \cup {s[k + 1]} /\ F[k + 1] = Append(F[k], s[k + 1])
        BY <1>51, <1>7, <2>2, <2>5
      <3>2. Distinct(s) => s[k + 1].id \notin Listed(F[k])
        <4> SUFFICES ASSUME Distinct(s), s[k + 1].id \in Listed(F[k]) PROVE FALSE
          OBVIOUS
        <4>1. PICK e \in Entries(F[k]) : e.id = s[k + 1].id
          BY <2>1, ListedAre
        <4>2. PICK j \in 1 .. k : s[j].id = s[k + 1].id
          BY <1>51, <2>1, <4>1
        <4>3. j \in DOMAIN s /\ k + 1 \in DOMAIN s /\ j # k + 1
          BY <1>0, <1>7
        <4> QED
          BY <4>2, <4>3 DEF Distinct
      <3> HIDE DEF holds, next
      <3>3. /\ F[k + 1] \in Seq(Meta)
            /\ Entries(F[k + 1]) = first(k + 1)
            /\ Distinct(s) => Distinct(F[k + 1])
        BY ZenonT(40), <2>1, <2>2, <3>1, <3>2, AppendedList
      <3> QED
        BY <2>3, <3>3 DEF holds
    <2> QED
      BY <2>4, <2>5
  <1>8. \A k \in 0 .. n : k \in holds
    <2> HIDE DEF holds
    <2> QED
      BY <1>0, <1>6, <1>7, Induction
  <1>9. n \in holds
    BY <1>0, <1>8
  <1> QED
    BY <1>4, <1>51, <1>9

\* The entry load_index gives a directory it finds.
EntryOf(id, now) ==
    IF disk.metas[id] # NoMeta
    THEN disk.metas[id]
    ELSE [id |-> id, updated |-> now, title |-> "name"]

\* A rebuilt list has an entry for every directory.
LEMMA RebuiltList ==
    ASSUME SessionIndexAssumption, disk \in Disk, NEW now \in Nat,
           \A id \in Ids : disk.metas[id] # NoMeta => disk.metas[id].id = id
    PROVE  /\ Rebuilt(now) \in Seq(Meta)
           /\ Entries(Rebuilt(now)) = {EntryOf(id, now) : id \in disk.dirs}
           /\ \A id \in disk.dirs : EntryOf(id, now) \in Meta /\ EntryOf(id, now).id = id
           /\ Distinct(Rebuilt(now))
  <1> DEFINE S == Seq(Meta)
             n == MaxId
             next(t, k) == IF k \in disk.dirs THEN Append(t, EntryOf(k, now)) ELSE t
             step == [k \in 1 .. n |-> [t \in S |-> next(t, k)]]
             eq(F) == F = [k \in 0 .. n |-> IF k = 0 THEN <<>> ELSE next(F[k - 1], k)]
             first(k) == {EntryOf(i, now) : i \in disk.dirs \cap (1 .. k)}
  <1>0. n \in Nat /\ <<>> \in S /\ disk.dirs \subseteq 1 .. n
    BY DEF SessionIndexAssumption, Disk, Ids
  <1>00. \A id \in 1 .. n : EntryOf(id, now) \in Meta /\ EntryOf(id, now).id = id
    <2> TAKE id \in 1 .. n
    <2>1. disk.metas[id] \in Meta /\ id \in Nat /\ id \in Ids
      BY <1>0 DEF Disk, Ids
    <2> QED
      BY <2>1 DEF EntryOf, Meta
  <1>1. step \in [1 .. n -> [S -> S]]
    <2>1. ASSUME NEW k \in 1 .. n, NEW t \in S
          PROVE  next(t, k) \in S
      BY <1>00
    <2> HIDE DEF next
    <2> QED
      BY <2>1
  <1>2. \A k \in 1 .. n : \A t \in S : step[k][t] = next(t, k)
    OBVIOUS
  <1>3. \E F : eq(F)
    <2> HIDE DEF n, S, step
    <2> DEFINE b == <<>>
    <2>0. b \in S
      BY <1>0
    <2>00. n \in Nat
      BY <1>0
    <2> HIDE DEF b
    <2>01. PICK F : Steps(F, S, b, n, step)
      BY <1>1, <2>0, <2>00, Recursion
    <2>1. F \in [0 .. n -> S] /\ F[0] = b /\ \A k \in 1 .. n : F[k] = step[k][F[k - 1]]
      BY <2>01 DEF Steps
    <2> USE DEF b
    <2>2. ASSUME NEW k \in 0 .. n
          PROVE  F[k] = IF k = 0 THEN <<>> ELSE next(F[k - 1], k)
      <3>1. CASE k = 0
        BY <2>1, <3>1
      <3>2. CASE k # 0
        <4>1. k \in 1 .. n /\ k - 1 \in 0 .. n
          BY <1>0, <3>2
        <4>2. F[k - 1] \in S
          BY <2>1, <4>1
        <4> HIDE DEF next
        <4> QED
          BY <1>2, <2>1, <3>2, <4>1, <4>2
      <3> HIDE DEF next
      <3> QED
        BY <3>1, <3>2
    <2>3. eq(F)
      BY <2>1, <2>2
    <2> QED
      BY <2>3
  <1>4. PICK F : eq(F) /\ Rebuilt(now) = F[n]
    BY <1>3 DEF Rebuilt, EntryOf
  <1> HIDE DEF S, n, step
  <1>5. /\ F[0] = <<>>
        /\ \A k \in 0 .. n : k < n => F[k + 1] = next(F[k], k + 1) /\ k + 1 \in 1 .. n
    <2>1. 0 \in 0 .. n /\ \A k \in 0 .. n : k < n => /\ k + 1 \in 0 .. n /\ k + 1 \in 1 .. n
                                                 /\ k + 1 # 0 /\ (k + 1) - 1 = k
      BY <1>0
    <2> HIDE DEF next
    <2> QED
      BY <1>4, <2>1
  <1>51. /\ first(0) = {} /\ first(n) = {EntryOf(id, now) : id \in disk.dirs}
         /\ \A k \in 0 .. n : k < n =>
               first(k + 1) = IF k + 1 \in disk.dirs THEN first(k) \cup {EntryOf(k + 1, now)}
                                                     ELSE first(k)
         /\ \A k \in 0 .. n : \A e \in first(k) : \E j \in 1 .. k : j \in disk.dirs /\ e = EntryOf(j, now)
    <2>1. \A k \in 0 .. n : k < n => 1 .. k + 1 = (1 .. k) \cup {k + 1}
      BY <1>0
    <2>2. first(0) = {} /\ first(n) = {EntryOf(id, now) : id \in disk.dirs}
      <3>1. disk.dirs \cap (1 .. n) = disk.dirs /\ disk.dirs \cap (1 .. 0) = {}
        BY <1>0
      <3> QED
        BY <3>1
    <2>3. ASSUME NEW k \in 0 .. n, k < n
          PROVE  first(k + 1) = IF k + 1 \in disk.dirs THEN first(k) \cup {EntryOf(k + 1, now)}
                                                       ELSE first(k)
      <3>1. CASE k + 1 \in disk.dirs
        <4>1. disk.dirs \cap (1 .. k + 1) = (disk.dirs \cap (1 .. k)) \cup {k + 1}
          BY <2>1, <2>3, <3>1
        <4> QED
          BY <3>1, <4>1
      <3>2. CASE k + 1 \notin disk.dirs
        <4>1. disk.dirs \cap (1 .. k + 1) = disk.dirs \cap (1 .. k)
          BY <2>1, <2>3, <3>2
        <4> QED
          BY <3>2, <4>1
      <3> QED
        BY <3>1, <3>2
    <2> QED
      BY <2>2, <2>3
  <1> HIDE DEF first
  <1> DEFINE holds == {k \in 0 .. n : F[k] \in Seq(Meta) /\ Entries(F[k]) = first(k) /\ Distinct(F[k])}
  <1>6. 0 \in holds
    <2>1. Entries(F[0]) = {} /\ Distinct(F[0]) /\ F[0] \in Seq(Meta)
      BY <1>5 DEF Entries, Distinct
    <2>2. 0 \in 0 .. n
      BY <1>0
    <2>3. Entries(F[0]) = first(0)
      BY <1>51, <2>1
    <2> QED
      BY <2>1, <2>2, <2>3
  <1>7. ASSUME NEW k \in 0 .. n, k \in holds, k < n
        PROVE  k + 1 \in holds
    <2>1. F[k] \in Seq(Meta) /\ Entries(F[k]) = first(k) /\ Distinct(F[k])
      BY <1>7
    <2>2. F[k + 1] = next(F[k], k + 1) /\ k + 1 \in 1 .. n /\ EntryOf(k + 1, now) \in Meta
          /\ EntryOf(k + 1, now).id = k + 1
      BY <1>00, <1>5, <1>7
    <2>3. k + 1 \in 0 .. n
      BY <1>0, <2>2
    <2>4. CASE k + 1 \notin disk.dirs
      <3>1. first(k + 1) = first(k) /\ F[k + 1] = F[k]
        BY <1>51, <1>7, <2>2, <2>4
      <3> QED
        BY <2>1, <2>3, <3>1
    <2>5. CASE k + 1 \in disk.dirs
      <3> DEFINE m == EntryOf(k + 1, now)
      <3>1. first(k + 1) = first(k) \cup {m} /\ F[k + 1] = Append(F[k], m)
        BY <1>51, <1>7, <2>2, <2>5
      <3>2. m.id \notin Listed(F[k])
        <4> SUFFICES ASSUME m.id \in Listed(F[k]) PROVE FALSE
          OBVIOUS
        <4>1. PICK e \in Entries(F[k]) : e.id = m.id
          BY <2>1, ListedAre
        <4>2. PICK j \in 1 .. k : e = EntryOf(j, now)
          BY <1>51, <2>1, <4>1
        <4>3. j \in 1 .. n /\ j # k + 1
          BY <1>0, <1>7
        <4> QED
          BY <1>00, <2>2, <4>1, <4>2, <4>3
      <3>3. m \in Meta
        BY <2>2
      <3> HIDE DEF holds, next, m
      <3>4. /\ Append(F[k], m) \in Seq(Meta)
            /\ Entries(Append(F[k], m)) = Entries(F[k]) \cup {m}
            /\ Distinct(Append(F[k], m))
        BY <2>1, <3>2, <3>3, AppendedList
      <3> QED
        BY <2>1, <2>3, <3>1, <3>4 DEF holds
    <2> QED
      BY <2>4, <2>5
  <1>8. \A k \in 0 .. n : k \in holds
    <2> HIDE DEF holds
    <2> QED
      BY <1>0, <1>6, <1>7, Induction
  <1>9. n \in holds
    BY <1>0, <1>8
  <1>10. \A id \in disk.dirs : EntryOf(id, now) \in Meta /\ EntryOf(id, now).id = id
    BY <1>0, <1>00
  <1> QED
    BY <1>4, <1>51, <1>9, <1>10

\* An entry put to the front.
LEMMA FrontedList ==
    ASSUME NEW s \in Seq(Meta), NEW m \in Meta
    PROVE  LET t == <<m>> \o s IN
           /\ t \in Seq(Meta) /\ Len(t) = Len(s) + 1 /\ t[1] = m
           /\ \A k \in 2 .. Len(t) : t[k] = s[k - 1] /\ k - 1 \in DOMAIN s
           /\ Entries(t) = Entries(s) \cup {m}
           /\ Distinct(s) /\ m.id \notin Listed(s) => Distinct(t)
  <1> DEFINE one == <<m>>
             t == one \o s
  <1>1. one \in Seq(Meta) /\ Len(one) = 1 /\ one[1] = m /\ Len(s) \in Nat /\ DOMAIN s = 1 .. Len(s)
    OBVIOUS
  <1> HIDE DEF one
  <1>2. /\ t \in Seq(Meta) /\ Len(t) = Len(one) + Len(s)
        /\ \A i \in 1 .. Len(one) : t[i] = one[i]
        /\ \A i \in Len(one) + 1 .. Len(t) : t[i] = s[i - Len(one)]
    BY <1>1, Concat
  <1> HIDE DEF t
  <1>3. /\ Len(t) = Len(s) + 1 /\ t[1] = m /\ DOMAIN t = 1 .. Len(s) + 1
        /\ \A k \in 2 .. Len(t) : t[k] = s[k - 1] /\ k - 1 \in DOMAIN s
    BY <1>1, <1>2
  <1>4. \A k \in DOMAIN t : k = 1 \/ k \in 2 .. Len(t)
    BY <1>1, <1>3
  <1>5. Entries(t) = Entries(s) \cup {m}
    <2>1. ASSUME NEW k \in DOMAIN t
          PROVE  t[k] \in Entries(s) \cup {m}
      BY <1>3, <1>4 DEF Entries
    <2>2. ASSUME NEW k \in DOMAIN s
          PROVE  s[k] \in Entries(t)
      <3>1. k + 1 \in 2 .. Len(t) /\ (k + 1) - 1 = k /\ k + 1 \in DOMAIN t
        BY <1>1, <1>3
      <3>2. t[k + 1] = s[k]
        BY <1>3, <3>1
      <3> QED
        BY <3>1, <3>2 DEF Entries
    <2>3. m \in Entries(t)
      <3>1. 1 \in DOMAIN t
        BY <1>1, <1>3
      <3> QED
        BY <1>3, <3>1 DEF Entries
    <2> QED
      BY <2>1, <2>2, <2>3 DEF Entries
  <1>6. ASSUME Distinct(s), m.id \notin Listed(s), NEW j \in DOMAIN t, NEW k \in DOMAIN t,
               t[j].id = t[k].id
        PROVE  j = k
    <2>1. \A i \in DOMAIN s : s[i].id # m.id
      BY <1>6 DEF Listed
    <2>2. CASE j = 1 \/ k = 1
      BY <1>3, <1>4, <1>6, <2>1, <2>2
    <2>3. CASE j # 1 /\ k # 1
      <3>1. j \in 2 .. Len(t) /\ k \in 2 .. Len(t)
        BY <1>4, <2>3
      <3>2. j - 1 = k - 1
        BY <1>3, <1>6, <3>1 DEF Distinct
      <3> QED
        BY <1>1, <1>3, <3>1, <3>2
    <2> QED
      BY <2>2, <2>3
  <1> QED
    BY <1>2, <1>3, <1>5, <1>6 DEF Distinct, t, one

\* A list with the entry of one session replaced where it stands.
LEMMA ReplacedList ==
    ASSUME NEW s \in Seq(Meta), NEW m \in Meta
    PROVE  LET t == [k \in DOMAIN s |-> IF s[k].id = m.id THEN m ELSE s[k]] IN
           /\ t \in Seq(Meta)
           /\ Entries(t) \subseteq Entries(s) \cup {m}
           /\ \A e \in Entries(t) : e.id = m.id => e = m
           /\ Listed(t) = Listed(s)
           /\ Distinct(s) => Distinct(t)
  <1> DEFINE t == [k \in DOMAIN s |-> IF s[k].id = m.id THEN m ELSE s[k]]
  <1>1. /\ DOMAIN t = DOMAIN s /\ \A k \in DOMAIN s : t[k].id = s[k].id
        /\ \A k \in DOMAIN s : t[k] = m \/ (t[k] = s[k] /\ s[k].id # m.id)
    OBVIOUS
  <1>2. t \in Seq(Meta)
    <2>1. t \in [1 .. Len(s) -> Meta]
      OBVIOUS
    <2> HIDE DEF t
    <2>2. Len(s) \in Nat
      OBVIOUS
    <2> QED
      BY <2>1, <2>2, SeqDef
  <1> HIDE DEF t
  <1> QED
    BY <1>1, <1>2 DEF Entries, Listed, Distinct, t

-----------------------------------------------------------------------------
(* What the disk and the store promise.  P is a record of promises.          *)

\* The sessions that left something on the disk.
Used(d) == {id \in Ids : d.lines[id] # {} \/ d.metas[id] # NoMeta}

\* One entry per session, of an id that was given before next.
ListOK(sessions, next) ==
    /\ Distinct(sessions)
    /\ \A e \in Entries(sessions) : e.id \in Ids /\ e.id < next

\* No deleted session is listed, and a named one by its name.
ListKeeps(sessions, P) ==
    \A e \in Entries(sessions) :
        /\ e.id \notin P.deleted
        /\ e.id \in P.named => e.title = "user"

\* Files are in directories, and index.json knows every id that was used, or
\* lists nothing, so that it is rebuilt.
Sound(d) ==
    /\ Used(d) \subseteq d.dirs
    /\ \A id \in Ids : d.metas[id] # NoMeta => d.metas[id].id = id
    /\ d.index.sequence \in 0 .. MaxId + 1
    /\ ListOK(d.index.sessions, d.index.sequence)
    /\ d.index.sessions # <<>> => \A id \in Used(d) : id < d.index.sequence

\* A process that starts from d finds what P promises.
Keeps(d, P) ==
    /\ \A turn \in P.kept :
          /\ turn[2] \in d.lines[turn[1]]
          /\ d.index.sessions = <<>> \/ turn[1] \in Listed(d.index.sessions)
    /\ P.deleted \cap d.dirs = {}
    /\ ListKeeps(d.index.sessions, P)
    /\ \A id \in P.named : d.metas[id].title = "user"

\* The same of the list in memory.
Lists(s, P) ==
    /\ s.sequence \in 1 .. MaxId + 1
    /\ ListOK(s.index, s.sequence)
    /\ ListKeeps(s.index, P)
    /\ \A turn \in P.kept : turn[1] \in Listed(s.index)

\* The next id was never used, and index.json says the same if it lists anything.
Ahead(s) == \A id \in Used(Now(s)) : id < s.sequence
Even(s) == Now(s).index.sessions # <<>> => Now(s).index.sequence = s.sequence

\* The open session.
Opened(s, P) ==
    /\ s.meta.id \in 1 .. s.sequence - 1
    /\ s.meta.id \notin P.deleted
    /\ s.meta.id \in P.named => s.meta.title = "user"

Stores == [disks : Seq(Disk) \ {<<>>}, index : Seq(Meta), sequence : Nat, meta : Meta]

\* A store a request can make: a crash between any two of its file operations
\* leaves a disk that keeps P.
Based(s, P) ==
    /\ P \in Promises
    /\ s \in Stores
    /\ s.disks[1] = disk
    /\ \A k \in DOMAIN s.disks : Sound(s.disks[k]) /\ Keeps(s.disks[k], P)

\* What is in memory and the disk it is written to.
Memory == [disks |-> <<disk>> \o todo, index |-> index, sequence |-> sequence, meta |-> meta]

\* Every state the disk goes through keeps what the user may count on now, the last
\* one and the memory what the answer will bring.
IndexIInv ==
    /\ TypeOK
    /\ \A k \in DOMAIN Memory.disks : Sound(Memory.disks[k]) /\ Keeps(Memory.disks[k], promised)
    /\ Keeps(Now(Memory), promise)
    /\ up => /\ Lists(Memory, promise)
             /\ Ahead(Memory)
             /\ Even(Memory)
             /\ Opened(Memory, promise)
    /\ ~up => todo = <<>> /\ index = <<>> /\ sequence = 1
    /\ todo = <<>> => promised = promise

-----------------------------------------------------------------------------
(* File operations. *)

\* A store has a disk.
LEMMA NowIs ==
    ASSUME NEW s \in Stores
    PROVE  /\ Now(s) \in Disk /\ Len(s.disks) \in DOMAIN s.disks
           /\ s.disks \in Seq(Disk) /\ s.index \in Seq(Meta) /\ s.sequence \in Nat /\ s.meta \in Meta
  <1>1. /\ s.disks \in Seq(Disk) /\ s.disks # <<>>
        /\ s.index \in Seq(Meta) /\ s.sequence \in Nat /\ s.meta \in Meta
    BY DEF Stores
  <1>2. Len(s.disks) \in DOMAIN s.disks
    BY <1>1
  <1> QED
    BY <1>1, <1>2 DEF Now

\* A state more.
LEMMA WriteIs ==
    ASSUME NEW s \in Stores, NEW d \in Disk
    PROVE  LET t == Write(s, d) IN
           /\ t \in Stores /\ Now(t) = d
           /\ t.index = s.index /\ t.sequence = s.sequence /\ t.meta = s.meta
           /\ t.disks[1] = s.disks[1]
           /\ \A k \in DOMAIN t.disks : t.disks[k] = d \/ \E j \in DOMAIN s.disks : t.disks[k] = s.disks[j]
  <1> DEFINE t == Write(s, d)
             more == Append(s.disks, d)
  <1>1. /\ s.disks \in Seq(Disk) /\ s.disks # <<>> /\ Now(s) = s.disks[Len(s.disks)]
        /\ s.index \in Seq(Meta) /\ s.sequence \in Nat /\ s.meta \in Meta
    BY DEF Stores, Now
  <1>2. CASE d = Now(s)
    BY <1>2 DEF Write
  <1>3. CASE d # Now(s)
    <2>1. /\ more \in Seq(Disk) /\ more # <<>> /\ Len(more) = Len(s.disks) + 1
          /\ more[Len(more)] = d /\ more[1] = s.disks[1]
          /\ \A k \in DOMAIN more : more[k] = d \/ \E j \in DOMAIN s.disks : more[k] = s.disks[j]
      <3> DEFINE r == s.disks
      <3>1. r \in Seq(Disk) /\ r # <<>> /\ more = Append(r, d)
        BY <1>1
      <3> HIDE DEF r, more
      <3>2. /\ more \in Seq(Disk) /\ more # <<>> /\ Len(more) = Len(r) + 1
            /\ more[Len(more)] = d /\ Len(r) \in Nat /\ Len(r) >= 1
            /\ \A k \in 1 .. Len(r) : more[k] = r[k] /\ k \in DOMAIN r
            /\ DOMAIN more = 1 .. Len(r) + 1
        BY <3>1
      <3>3. \A k \in DOMAIN more : k \in 1 .. Len(r) \/ k = Len(more)
        BY <3>2
      <3>4. 1 \in 1 .. Len(r)
        BY <3>2
      <3> QED
        BY <3>2, <3>3, <3>4 DEF r
    <2> HIDE DEF more
    <2>2. t = [s EXCEPT !.disks = more]
      BY <1>3 DEF Write, more
    <2>3. /\ t.disks = more /\ t.index = s.index /\ t.sequence = s.sequence /\ t.meta = s.meta
          /\ t \in Stores
      BY <1>1, <2>1, <2>2 DEF Stores
    <2> QED
      BY <2>1, <2>3 DEF Now
  <1> QED
    BY <1>2, <1>3

\* What a store promises of the state of its disk.
LEMMA BasedNow ==
    ASSUME NEW P, NEW s, Based(s, P)
    PROVE  /\ P \in Promises /\ s \in Stores /\ Now(s) \in Disk
           /\ Sound(Now(s)) /\ Keeps(Now(s), P)
           /\ s.index \in Seq(Meta) /\ s.sequence \in Nat /\ s.meta \in Meta
  BY NowIs DEF Based, Now

\* A state that keeps the promises can follow.
LEMMA Written ==
    ASSUME NEW P, NEW s, Based(s, P), NEW d \in Disk, Sound(d), Keeps(d, P)
    PROVE  LET t == Write(s, d) IN
           /\ Based(t, P) /\ Now(t) = d
           /\ t.index = s.index /\ t.sequence = s.sequence /\ t.meta = s.meta
  <1> DEFINE t == Write(s, d)
  <1>1. s \in Stores
    BY DEF Based
  <1>2. /\ t \in Stores /\ Now(t) = d
        /\ t.index = s.index /\ t.sequence = s.sequence /\ t.meta = s.meta
        /\ t.disks[1] = s.disks[1]
        /\ \A k \in DOMAIN t.disks : t.disks[k] = d \/ \E j \in DOMAIN s.disks : t.disks[k] = s.disks[j]
    BY <1>1, WriteIs
  <1> HIDE DEF t
  <1>3. Based(t, P)
    BY <1>2 DEF Based
  <1> QED
    BY <1>2, <1>3 DEF t

\* Only the disk of a store decides whether it is based.
LEMMA BasedSame ==
    ASSUME NEW P, NEW s, Based(s, P), NEW t \in Stores, t.disks = s.disks
    PROVE  Based(t, P) /\ Now(t) = Now(s)
  BY DEF Based, Now

\* A directory for a session that is not deleted.
LEMMA DirectoryMade ==
    ASSUME NEW P, NEW s, Based(s, P), NEW id \in Ids, id \notin P.deleted
    PROVE  LET t == MakeDirectory(s, id) IN
           /\ Based(t, P)
           /\ t.index = s.index /\ t.sequence = s.sequence /\ t.meta = s.meta
           /\ Now(t).dirs = Now(s).dirs \cup {id} /\ Now(t).lines = Now(s).lines
           /\ Now(t).metas = Now(s).metas /\ Now(t).index = Now(s).index
  <1> DEFINE o == Now(s)
             d == [o EXCEPT !.dirs = @ \cup {id}]
  <1>1. o \in Disk /\ Sound(o) /\ Keeps(o, P)
    BY BasedNow
  <1> HIDE DEF o
  <1>2. /\ d \in Disk /\ d.dirs = o.dirs \cup {id} /\ d.lines = o.lines /\ d.metas = o.metas
        /\ d.index = o.index
    BY <1>1 DEF Disk
  <1> HIDE DEF d
  <1>3. Used(d) = Used(o)
    BY <1>2 DEF Used
  <1>4. Sound(d)
    BY <1>1, <1>2, <1>3 DEF Sound
  <1>5. Keeps(d, P)
    BY <1>1, <1>2 DEF Keeps
  <1>6. MakeDirectory(s, id) = Write(s, d)
    BY DEF MakeDirectory, d, o
  <1> QED
    BY <1>2, <1>4, <1>5, <1>6, Written DEF o

\* meta.json of a session index.json knows, under the name the user gave.
LEMMA MetaWritten ==
    ASSUME NEW P, NEW s, Based(s, P), NEW m \in Meta, m.id \in Ids,
           m.id \in P.named => m.title = "user",
           Now(s).index.sessions # <<>> => m.id < Now(s).index.sequence
    PROVE  LET t == WriteMeta(s, m) IN
           /\ Based(t, P)
           /\ t.index = s.index /\ t.sequence = s.sequence /\ t.meta = s.meta
           /\ Now(t).dirs = Now(s).dirs /\ Now(t).lines = Now(s).lines
           /\ Now(t).index = Now(s).index
           /\ Used(Now(t)) \subseteq Used(Now(s)) \cup {m.id}
           /\ m.id \in Now(s).dirs => Now(t).metas[m.id] = m
           /\ \A id \in Ids \ {m.id} : Now(t).metas[id] = Now(s).metas[id]
  <1> DEFINE o == Now(s)
             d == [o EXCEPT !.metas[m.id] = m]
  <1>1. o \in Disk /\ Sound(o) /\ Keeps(o, P) /\ P \in Promises
    BY BasedNow
  <1>2. CASE m.id \notin o.dirs
    <2>1. WriteMeta(s, m) = s
      BY <1>2 DEF WriteMeta
    <2> QED
      BY <1>2, <2>1
  <1>3. CASE m.id \in o.dirs
    <2>0. o.index.sessions # <<>> => m.id < o.index.sequence
      OBVIOUS
    <2> HIDE DEF o
    <2>1. /\ d \in Disk /\ d.dirs = o.dirs /\ d.lines = o.lines /\ d.index = o.index
          /\ d.metas[m.id] = m /\ \A id \in Ids \ {m.id} : d.metas[id] = o.metas[id]
      BY <1>1 DEF Disk
    <2> HIDE DEF d
    <2>2. Used(d) \subseteq Used(o) \cup {m.id}
      BY <2>1 DEF Used
    <2>3. Sound(d)
      <3>1. Used(d) \subseteq d.dirs
        BY <1>1, <1>3, <2>1, <2>2 DEF Sound
      <3>2. \A id \in Ids : d.metas[id] # NoMeta => d.metas[id].id = id
        BY <1>1, <2>1 DEF Sound
      <3>3. d.index.sessions # <<>> => \A id \in Used(d) : id < d.index.sequence
        BY <1>1, <2>0, <2>1, <2>2 DEF Sound
      <3> QED
        BY <1>1, <2>1, <3>1, <3>2, <3>3 DEF Sound
    <2>4. Keeps(d, P)
      <3>1. \A id \in P.named : d.metas[id].title = "user"
        BY <1>1, <2>1 DEF Keeps, Promises
      <3> QED
        BY <1>1, <2>1, <3>1 DEF Keeps
    <2>5. WriteMeta(s, m) = Write(s, d)
      BY <1>3 DEF WriteMeta, d, o
    <2> QED
      BY <2>1, <2>2, <2>4, <2>3, <2>5, Written DEF o
  <1> QED
    BY <1>2, <1>3

\* index.json with what is in memory.
LEMMA IndexWritten ==
    ASSUME NEW P, NEW s, Based(s, P), Lists(s, P), Ahead(s)
    PROVE  LET t == WriteIndex(s) IN
           /\ Based(t, P)
           /\ t.index = s.index /\ t.sequence = s.sequence /\ t.meta = s.meta
           /\ Now(t).dirs = Now(s).dirs /\ Now(t).lines = Now(s).lines
           /\ Now(t).metas = Now(s).metas
           /\ Now(t).index = [sequence |-> s.sequence, sessions |-> s.index]
  <1> DEFINE o == Now(s)
             i == [sequence |-> s.sequence, sessions |-> s.index]
             d == [o EXCEPT !.index = i]
  <1>1. o \in Disk /\ Sound(o) /\ Keeps(o, P) /\ P \in Promises
    BY BasedNow
  <1>2. /\ i.sequence = s.sequence /\ i.sessions = s.index
        /\ i \in [sequence : Nat, sessions : Seq(Meta)]
    BY BasedNow
  <1> HIDE DEF o, i
  <1>3. /\ d \in Disk /\ d.dirs = o.dirs /\ d.lines = o.lines /\ d.metas = o.metas
        /\ d.index = i
    BY <1>1, <1>2 DEF Disk
  <1> HIDE DEF d
  <1>4. Used(d) = Used(o)
    BY <1>3 DEF Used
  <1>5. \A id \in Used(d) : id < s.sequence
    BY <1>4 DEF Ahead, o
  <1>6. Sound(d)
    <2>1. d.index.sequence \in 0 .. MaxId + 1
      BY <1>2, <1>3 DEF Lists
    <2>2. ListOK(d.index.sessions, d.index.sequence)
      BY <1>2, <1>3 DEF Lists
    <2>3. \A id \in Used(d) : id < d.index.sequence
      BY <1>2, <1>3, <1>5
    <2> QED
      BY <1>1, <1>3, <1>4, <2>1, <2>2, <2>3 DEF Sound
  <1>7. Keeps(d, P)
    BY <1>1, <1>2, <1>3 DEF Keeps, Lists
  <1>8. WriteIndex(s) = Write(s, d)
    BY DEF WriteIndex, d, o, i
  <1> QED
    BY <1>3, <1>6, <1>7, <1>8, Written DEF o, i

\* A line in the transcript of a session that has a directory.
LEMMA LineAppended ==
    ASSUME NEW P, NEW s, Based(s, P), NEW id \in Ids, NEW turn \in Nat, id \in Now(s).dirs,
           Now(s).index.sessions # <<>> => id < Now(s).index.sequence
    PROVE  LET t == AppendLine(s, id, turn) IN
           /\ Based(t, P)
           /\ t.index = s.index /\ t.sequence = s.sequence /\ t.meta = s.meta
           /\ Now(t).dirs = Now(s).dirs /\ Now(t).metas = Now(s).metas
           /\ Now(t).index = Now(s).index
           /\ turn \in Now(t).lines[id]
           /\ Used(Now(t)) \subseteq Used(Now(s)) \cup {id}
  <1> DEFINE o == Now(s)
             d == [o EXCEPT !.lines[id] = @ \cup {turn}]
  <1>1. o \in Disk /\ Sound(o) /\ Keeps(o, P) /\ P \in Promises
    BY BasedNow
  <1>0. (o.index.sessions # <<>> => id < o.index.sequence) /\ id \in o.dirs
    OBVIOUS
  <1> HIDE DEF o
  <1>2. o.lines \in [Ids -> SUBSET Nat]
    BY <1>1 DEF Disk
  <1>3. [o.lines EXCEPT ![id] = @ \cup {turn}] \in [Ids -> SUBSET Nat]
    BY <1>2
  <1>4. d \in Disk
    BY <1>1, <1>3 DEF Disk
  <1>5. /\ d.dirs = o.dirs /\ d.metas = o.metas /\ d.index = o.index
        /\ d.lines[id] = o.lines[id] \cup {turn}
        /\ \A other \in Ids \ {id} : d.lines[other] = o.lines[other]
    BY <1>1, <1>2 DEF Disk
  <1> HIDE DEF d
  <1>6. Used(d) \subseteq Used(o) \cup {id}
    BY <1>5 DEF Used
  <1>7. Sound(d)
    <2>1. Used(d) \subseteq d.dirs
      BY <1>0, <1>1, <1>5, <1>6 DEF Sound
    <2>2. d.index.sessions # <<>> => \A other \in Used(d) : other < d.index.sequence
      BY <1>0, <1>1, <1>5, <1>6 DEF Sound
    <2> QED
      BY <1>1, <1>5, <2>1, <2>2 DEF Sound
  <1>8. Keeps(d, P)
    <2>1. ASSUME NEW kept \in P.kept
          PROVE  kept[2] \in d.lines[kept[1]]
      <3>1. kept[1] \in Ids /\ kept[2] \in o.lines[kept[1]]
        BY <1>1 DEF Keeps, Promises
      <3> QED
        BY <1>5, <3>1
    <2> QED
      BY <1>1, <1>5, <2>1 DEF Keeps
  <1>9. AppendLine(s, id, turn) = Write(s, d)
    BY DEF AppendLine, d, o
  <1>10. turn \in d.lines[id]
    BY <1>5
  <1> QED
    BY <1>4, <1>5, <1>6, <1>7, <1>8, <1>9, <1>10, Written DEF o

\* Nothing is owed to a session, and it has no name of the user's.
Free(id, P) == id \notin P.named /\ \A turn \in P.kept : turn[1] # id

\* The files of a session nothing is owed to.
LEMMA FilesRemoved ==
    ASSUME NEW P, NEW s, Based(s, P), NEW id \in Ids, Free(id, P)
    PROVE  LET t == RemoveFiles(s, id) IN
           /\ Based(t, P)
           /\ t.index = s.index /\ t.sequence = s.sequence /\ t.meta = s.meta
           /\ Now(t).dirs = Now(s).dirs /\ Now(t).index = Now(s).index
           /\ Used(Now(t)) \subseteq Used(Now(s)) /\ id \notin Used(Now(t))
  <1> DEFINE o == Now(s)
             d == [o EXCEPT !.metas[id] = NoMeta]
             u == Write(s, d)
             e == [d EXCEPT !.lines[id] = {}]
  <1>1. o \in Disk /\ Sound(o) /\ Keeps(o, P) /\ P \in Promises
    BY BasedNow
  <1> HIDE DEF o
  <1>2. /\ d \in Disk /\ d.dirs = o.dirs /\ d.lines = o.lines /\ d.index = o.index
        /\ d.metas[id] = NoMeta /\ \A other \in Ids \ {id} : d.metas[other] = o.metas[other]
    BY <1>1 DEF Disk, Meta, NoMeta
  <1>3. Sound(d)
    <2>1. Used(d) \subseteq Used(o)
      BY <1>2 DEF Used
    <2> HIDE DEF d
    <2>2. \A other \in Ids : d.metas[other] # NoMeta => d.metas[other].id = other
      BY <1>1, <1>2 DEF Sound
    <2> QED
      BY <1>1, <1>2, <2>1, <2>2 DEF Sound
  <1>4. Keeps(d, P)
    <2> HIDE DEF d
    <2>1. \A other \in P.named : d.metas[other].title = "user"
      BY <1>1, <1>2 DEF Keeps, Promises, Free
    <2> QED
      BY <1>1, <1>2, <2>1 DEF Keeps
  <1> HIDE DEF d
  <1>5. /\ Based(u, P) /\ Now(u) = d
        /\ u.index = s.index /\ u.sequence = s.sequence /\ u.meta = s.meta
    BY <1>2, <1>3, <1>4, Written
  <1>6. RemoveFiles(s, id) = Write(u, e)
    <2>1. RemoveFiles(s, id) = Write(u, [Now(u) EXCEPT !.lines[id] = {}])
      BY DEF RemoveFiles, u, d, o
    <2> QED
      BY <1>5, <2>1
  <1> HIDE DEF u
  <1>7. [d.lines EXCEPT ![id] = {}] \in [Ids -> SUBSET Nat]
    BY <1>2 DEF Disk
  <1>8. /\ e \in Disk /\ e.dirs = d.dirs /\ e.metas = d.metas /\ e.index = d.index
        /\ e.lines[id] = {} /\ \A other \in Ids \ {id} : e.lines[other] = d.lines[other]
    <2>1. d.lines \in [Ids -> SUBSET Nat]
      BY <1>2 DEF Disk
    <2> QED
      BY <1>2, <1>7, <2>1 DEF Disk
  <1> HIDE DEF e
  <1>9. Used(e) \subseteq Used(d) /\ Used(d) \subseteq Used(o) /\ id \notin Used(e)
    BY <1>2, <1>8 DEF Used
  <1>10. Sound(e)
    BY <1>3, <1>8, <1>9 DEF Sound
  <1>11. Keeps(e, P)
    <2>1. ASSUME NEW kept \in P.kept
          PROVE  kept[2] \in e.lines[kept[1]]
      <3>1. kept[1] \in Ids /\ kept[1] # id /\ kept[2] \in d.lines[kept[1]]
        BY <1>1, <1>4 DEF Keeps, Promises, Free
      <3> QED
        BY <1>8, <3>1
    <2> QED
      BY <1>4, <1>8, <2>1 DEF Keeps
  <1>12. /\ Based(Write(u, e), P) /\ Now(Write(u, e)) = e
         /\ Write(u, e).index = u.index /\ Write(u, e).sequence = u.sequence
         /\ Write(u, e).meta = u.meta
    BY <1>5, <1>8, <1>10, <1>11, Written
  <1> QED
    BY <1>2, <1>5, <1>6, <1>8, <1>9, <1>12 DEF o

\* Its directory as well.
LEMMA TreeRemoved ==
    ASSUME NEW P, NEW s, Based(s, P), NEW id \in Ids, Free(id, P)
    PROVE  LET t == RemoveTree(s, id) IN
           /\ Based(t, P)
           /\ t.index = s.index /\ t.sequence = s.sequence /\ t.meta = s.meta
           /\ Now(t).dirs = Now(s).dirs \ {id} /\ Now(t).index = Now(s).index
           /\ Used(Now(t)) \subseteq Used(Now(s))
  <1> DEFINE u == RemoveFiles(s, id)
             o == Now(u)
             d == [o EXCEPT !.dirs = @ \ {id}]
  <1>1. /\ Based(u, P)
        /\ u.index = s.index /\ u.sequence = s.sequence /\ u.meta = s.meta
        /\ o.dirs = Now(s).dirs /\ o.index = Now(s).index
        /\ Used(o) \subseteq Used(Now(s)) /\ id \notin Used(o)
    BY FilesRemoved
  <1>2. RemoveTree(s, id) = Write(u, d)
    BY DEF RemoveTree
  <1> HIDE DEF u
  <1>3. o \in Disk /\ Sound(o) /\ Keeps(o, P)
    BY <1>1, BasedNow
  <1> HIDE DEF o
  <1>4. /\ d \in Disk /\ d.dirs = o.dirs \ {id} /\ d.lines = o.lines /\ d.metas = o.metas
        /\ d.index = o.index
    BY <1>3 DEF Disk
  <1> HIDE DEF d
  <1>5. Used(d) = Used(o)
    BY <1>4 DEF Used
  <1>6. Sound(d)
    BY <1>1, <1>3, <1>4, <1>5 DEF Sound
  <1>7. Keeps(d, P)
    BY <1>3, <1>4 DEF Keeps
  <1>8. /\ Based(Write(u, d), P) /\ Now(Write(u, d)) = d
        /\ Write(u, d).index = u.index /\ Write(u, d).sequence = u.sequence
        /\ Write(u, d).meta = u.meta
    BY <1>1, <1>4, <1>6, <1>7, Written
  <1> QED
    BY <1>1, <1>2, <1>4, <1>5, <1>8

-----------------------------------------------------------------------------
(* Operations of the store. *)

\* A store with another list, sequence or open session is as good a store.
LEMMA StoreMade ==
    ASSUME NEW P, NEW s, Based(s, P), NEW i \in Seq(Meta), NEW n \in Nat, NEW m \in Meta
    PROVE  LET t == [disks |-> s.disks, index |-> i, sequence |-> n, meta |-> m] IN
           Based(t, P) /\ Now(t) = Now(s)
  <1> DEFINE t == [disks |-> s.disks, index |-> i, sequence |-> n, meta |-> m]
  <1>1. t \in Stores /\ t.disks = s.disks
    BY DEF Based, Stores
  <1> HIDE DEF t
  <1>2. Based(t, P) /\ Now(t) = Now(s)
    BY <1>1, BasedSame
  <1> QED
    BY <1>2 DEF t

\* A record of a store, field by field.
LEMMA StoreFields ==
    ASSUME NEW s \in Stores, NEW i, NEW m
    PROVE  LET D == s.disks IN
           /\ [s EXCEPT !.index = i]
                = [disks |-> D, index |-> i, sequence |-> s.sequence, meta |-> s.meta]
           /\ [s EXCEPT !.meta = m]
                = [disks |-> D, index |-> s.index, sequence |-> s.sequence, meta |-> m]
           /\ [s EXCEPT !.index = i, !.meta = m]
                = [disks |-> D, index |-> i, sequence |-> s.sequence, meta |-> m]
  <1> DEFINE D == s.disks
             I == s.index
             N == s.sequence
             M == s.meta
             si == [s EXCEPT !.index = i]
  <1>1. s = [disks |-> D, index |-> I, sequence |-> N, meta |-> M]
    BY DEF Stores
  <1> HIDE DEF D, I, N, M
  <1>2. si = [disks |-> D, index |-> i, sequence |-> N, meta |-> M]
    BY <1>1
  <1>3. [s EXCEPT !.meta = m] = [disks |-> D, index |-> I, sequence |-> N, meta |-> m]
    BY <1>1
  <1> HIDE DEF si
  <1>4. [si EXCEPT !.meta = m] = [disks |-> D, index |-> i, sequence |-> N, meta |-> m]
    BY <1>2
  <1> QED
    BY <1>2, <1>3, <1>4 DEF D, I, N, M, si

\* The same when the sequence changes too.
LEMMA StoreAnew ==
    ASSUME NEW s \in Stores, NEW i, NEW n, NEW m
    PROVE  /\ [s EXCEPT !.sequence = n, !.meta = m, !.index = i]
                = [disks |-> s.disks, index |-> i, sequence |-> n, meta |-> m]
           /\ [s EXCEPT !.index = i, !.sequence = n, !.meta = m]
                = [disks |-> s.disks, index |-> i, sequence |-> n, meta |-> m]
  <1> DEFINE D == s.disks
             I == s.index
             N == s.sequence
             M == s.meta
             si == [s EXCEPT !.index = i]
             sn == [s EXCEPT !.sequence = n]
             snm == [sn EXCEPT !.meta = m]
             sin == [si EXCEPT !.sequence = n]
  <1>1. s = [disks |-> D, index |-> I, sequence |-> N, meta |-> M]
    BY DEF Stores
  <1> HIDE DEF D, I, N, M
  <1>2. si = [disks |-> D, index |-> i, sequence |-> N, meta |-> M]
    BY <1>1
  <1>3. sn = [disks |-> D, index |-> I, sequence |-> n, meta |-> M]
    BY <1>1
  <1> HIDE DEF si, sn
  <1>4. snm = [disks |-> D, index |-> I, sequence |-> n, meta |-> m]
    BY <1>3
  <1>5. sin = [disks |-> D, index |-> i, sequence |-> n, meta |-> M]
    BY <1>2
  <1> HIDE DEF snm, sin
  <1>6. [snm EXCEPT !.index = i] = [disks |-> D, index |-> i, sequence |-> n, meta |-> m]
    BY <1>4
  <1>7. [sin EXCEPT !.meta = m] = [disks |-> D, index |-> i, sequence |-> n, meta |-> m]
    BY <1>5
  <1> QED
    BY <1>6, <1>7 DEF D, si, sn, snm, sin

\* persist_meta writes the open session into the list, its file and index.json.
LEMMA MetaPersisted ==
    ASSUME SessionIndexAssumption,
           NEW P, NEW s, Based(s, P), Lists(s, P), Ahead(s), Opened(s, P)
    PROVE  LET t == PersistMeta(s) IN
           /\ Based(t, P) /\ Lists(t, P) /\ Ahead(t) /\ Even(t) /\ Opened(t, P)
           /\ t.sequence = s.sequence /\ t.meta = s.meta
           /\ Listed(t.index) = Listed(s.index) \cup {s.meta.id}
           /\ Now(t).dirs = Now(s).dirs \cup {s.meta.id} /\ Now(t).lines = Now(s).lines
           /\ Now(t).index.sessions = t.index
  <1> DEFINE id == s.meta.id
             put == [k \in DOMAIN s.index |-> IF s.index[k].id = s.meta.id THEN s.meta ELSE s.index[k]]
             placed == IF id \in Listed(s.index) THEN put ELSE <<s.meta>> \o s.index
             made == MakeDirectory(s, id)
             sorted == NewestFirst(placed)
             a == [made EXCEPT !.index = sorted]
             b == WriteIndex(a)
             t == WriteMeta(b, s.meta)
  <1>0. /\ s \in Stores /\ s.index \in Seq(Meta) /\ s.sequence \in Nat /\ s.meta \in Meta
        /\ P \in Promises
    BY BasedNow
  <1>1. PersistMeta(s) = t
    <2>1. t = WriteMeta(WriteIndex([made EXCEPT !.index = NewestFirst(placed)]), s.meta)
      OBVIOUS
    <2> QED
      BY <2>1 DEF PersistMeta
  <1>2. id \in Ids /\ id < s.sequence /\ id \notin P.deleted /\ (id \in P.named => s.meta.title = "user")
    <2>1. /\ s.sequence \in 1 .. MaxId + 1 /\ id \in 1 .. s.sequence - 1 /\ id \notin P.deleted
          /\ id \in P.named => s.meta.title = "user"
      BY DEF Lists, Opened
    <2> HIDE DEF id
    <2> QED
      BY <1>0, <2>1 DEF Ids, SessionIndexAssumption
  <1>3. /\ placed \in Seq(Meta)
        /\ Entries(placed) \subseteq Entries(s.index) \cup {s.meta}
        /\ \A e \in Entries(placed) : e.id = id => e = s.meta
        /\ Listed(placed) = Listed(s.index) \cup {id}
        /\ Distinct(placed)
    <2>0. Distinct(s.index)
      BY DEF Lists, ListOK
    <2>1. CASE id \in Listed(s.index)
      <3> DEFINE r == s.index
                 m == s.meta
      <3>0. r \in Seq(Meta) /\ m \in Meta /\ Distinct(r)
        BY <1>0, <2>0
      <3>1. /\ put \in Seq(Meta)
            /\ Entries(put) \subseteq Entries(r) \cup {m}
            /\ \A e \in Entries(put) : e.id = m.id => e = m
            /\ Listed(put) = Listed(r)
            /\ Distinct(put)
        <4> DEFINE q == [k \in DOMAIN r |-> IF r[k].id = m.id THEN m ELSE r[k]]
        <4>1. put = q
          OBVIOUS
        <4> HIDE DEF r, m, put
        <4>2. /\ q \in Seq(Meta)
              /\ Entries(q) \subseteq Entries(r) \cup {m}
              /\ \A e \in Entries(q) : e.id = m.id => e = m
              /\ Listed(q) = Listed(r)
              /\ Distinct(r) => Distinct(q)
          BY <3>0, ReplacedList
        <4> HIDE DEF q
        <4> QED
          BY <3>0, <4>1, <4>2
      <3> HIDE DEF put
      <3> QED
        BY <2>1, <3>1
    <2>2. CASE id \notin Listed(s.index)
      <3> DEFINE front == <<s.meta>> \o s.index
      <3>1. /\ front \in Seq(Meta)
            /\ Entries(front) = Entries(s.index) \cup {s.meta}
            /\ Distinct(front)
        BY <1>0, <2>0, <2>2, FrontedList
      <3> HIDE DEF front
      <3>2. /\ \A e \in Entries(s.index) : e.id \in Listed(s.index)
            /\ \A i \in Listed(s.index) : \E e \in Entries(s.index) : e.id = i
            /\ \A e \in Entries(front) : e.id \in Listed(front)
            /\ \A i \in Listed(front) : \E e \in Entries(front) : e.id = i
        BY <1>0, <3>1, ListedAre
      <3>3. Listed(front) = Listed(s.index) \cup {id}
        <4>1. id \in Listed(front)
          BY <3>1, <3>2
        <4>2. Listed(s.index) \subseteq Listed(front)
          BY <3>1, <3>2
        <4>3. Listed(front) \subseteq Listed(s.index) \cup {id}
          BY <3>1, <3>2
        <4> QED
          BY <4>1, <4>2, <4>3
      <3>4. placed = front
        BY <2>2 DEF front
      <3> HIDE DEF placed
      <3> QED
        BY <2>2, <3>1, <3>2, <3>3, <3>4
    <2> QED
      BY <2>1, <2>2
  <1> HIDE DEF placed
  <1>4. sorted \in Seq(Meta) /\ Entries(sorted) = Entries(placed) /\ Distinct(sorted)
    BY <1>3, SortedList
  <1> HIDE DEF sorted
  <1>5. Listed(sorted) = Listed(s.index) \cup {id}
    <2>1. /\ \A e \in Entries(placed) : e.id \in Listed(placed)
          /\ \A i \in Listed(placed) : \E e \in Entries(placed) : e.id = i
          /\ \A e \in Entries(sorted) : e.id \in Listed(sorted)
          /\ \A i \in Listed(sorted) : \E e \in Entries(sorted) : e.id = i
      BY <1>3, <1>4, ListedAre
    <2>2. Listed(sorted) \subseteq Listed(placed)
      BY <1>4, <2>1
    <2>3. Listed(placed) \subseteq Listed(sorted)
      BY <1>4, <2>1
    <2> QED
      BY <1>3, <2>2, <2>3
  <1>6. /\ Based(made, P)
        /\ made.index = s.index /\ made.sequence = s.sequence /\ made.meta = s.meta
        /\ Now(made).dirs = Now(s).dirs \cup {id} /\ Now(made).lines = Now(s).lines
        /\ Now(made).metas = Now(s).metas /\ Now(made).index = Now(s).index
    BY <1>2, DirectoryMade
  <1> HIDE DEF made
  <1>7. a = [disks |-> made.disks, index |-> sorted, sequence |-> s.sequence, meta |-> s.meta]
    <2>1. made \in Stores
      BY <1>6, BasedNow
    <2> QED
      BY <1>6, <2>1, StoreFields
  <1> HIDE DEF a
  <1>8. /\ Based(a, P) /\ Now(a) = Now(made)
        /\ a.index = sorted /\ a.sequence = s.sequence /\ a.meta = s.meta
    BY <1>0, <1>4, <1>6, <1>7, StoreMade
  <1>9. Lists(a, P)
    <2>1. ListOK(sorted, s.sequence)
      <3>1. \A e \in Entries(s.index) : e.id \in Ids /\ e.id < s.sequence
        BY DEF Lists, ListOK
      <3> QED
        BY <1>2, <1>3, <1>4, <3>1 DEF ListOK
    <2>2. ListKeeps(sorted, P)
      <3>1. \A e \in Entries(s.index) : e.id \notin P.deleted /\ (e.id \in P.named => e.title = "user")
        BY DEF Lists, ListKeeps
      <3> QED
        BY <1>2, <1>3, <1>4, <3>1 DEF ListKeeps
    <2> QED
      BY <1>5, <1>8, <2>1, <2>2 DEF Lists
  <1>10. Used(Now(a)) = Used(Now(s))
    BY <1>6, <1>8 DEF Used
  <1>11. Ahead(a)
    BY <1>8, <1>10 DEF Ahead
  <1>12. /\ Based(b, P)
         /\ b.index = a.index /\ b.sequence = a.sequence /\ b.meta = a.meta
         /\ Now(b).dirs = Now(a).dirs /\ Now(b).lines = Now(a).lines
         /\ Now(b).metas = Now(a).metas
         /\ Now(b).index = [sequence |-> a.sequence, sessions |-> a.index]
    BY <1>8, <1>9, <1>11, IndexWritten
  <1> HIDE DEF b
  <1>13. /\ Based(t, P)
         /\ t.index = b.index /\ t.sequence = b.sequence /\ t.meta = b.meta
         /\ Now(t).dirs = Now(b).dirs /\ Now(t).lines = Now(b).lines
         /\ Now(t).index = Now(b).index
         /\ Used(Now(t)) \subseteq Used(Now(b)) \cup {id}
    <2>1. Now(b).index.sequence = s.sequence
      BY <1>8, <1>12
    <2> QED
      BY <1>0, <1>2, <1>12, <2>1, MetaWritten
  <1> HIDE DEF t
  <1>14. Used(Now(b)) = Used(Now(a))
    BY <1>12 DEF Used
  <1>15. Ahead(t)
    BY <1>2, <1>8, <1>10, <1>12, <1>13, <1>14 DEF Ahead
  <1>16. /\ t.index = sorted /\ t.sequence = s.sequence /\ t.meta = s.meta
         /\ Now(t).index.sessions = sorted /\ Now(t).index.sequence = s.sequence
    BY <1>8, <1>12, <1>13
  <1>17. Lists(t, P)
    BY <1>8, <1>9, <1>16 DEF Lists
  <1>18. Even(t) /\ Opened(t, P)
    BY <1>16 DEF Even, Opened
  <1>19. /\ Now(t).dirs = Now(s).dirs \cup {s.meta.id} /\ Now(t).lines = Now(s).lines
    BY <1>6, <1>8, <1>12, <1>13
  <1> HIDE DEF id
  <1>20. Listed(t.index) = Listed(s.index) \cup {s.meta.id}
    BY <1>5, <1>16 DEF id
  <1> QED
    BY <1>1, <1>13, <1>15, <1>16, <1>17, <1>18, <1>19, <1>20

\* Eviction leaves a store.
LEMMA EvictTyped ==
    ASSUME NEW s \in Stores, NEW entry \in Meta
    PROVE  LET t == Evict(s, entry) IN
           t \in Stores /\ t.index = s.index /\ t.sequence = s.sequence /\ t.meta = s.meta
  <1> DEFINE id == entry.id
             d == [Now(s) EXCEPT !.metas[id] = NoMeta]
             u == Write(s, d)
             e == [Now(u) EXCEPT !.lines[id] = {}]
  <1>1. Now(s) \in Disk
    BY NowIs
  <1>2. d \in Disk
    BY <1>1 DEF Disk, Meta, NoMeta
  <1>3. u \in Stores /\ u.index = s.index /\ u.sequence = s.sequence /\ u.meta = s.meta
    BY <1>2, WriteIs
  <1> HIDE DEF u
  <1>4. Now(u) \in Disk
    BY <1>3, NowIs
  <1>5. [Now(u).lines EXCEPT ![id] = {}] \in [Ids -> SUBSET Nat]
    BY <1>4 DEF Disk
  <1>6. e \in Disk
    BY <1>4, <1>5 DEF Disk
  <1> HIDE DEF e
  <1>7. /\ Write(u, e) \in Stores /\ Write(u, e).index = u.index
        /\ Write(u, e).sequence = u.sequence /\ Write(u, e).meta = u.meta
    BY <1>3, <1>6, WriteIs
  <1>8. RemoveFiles(s, id) = Write(u, e)
    BY DEF RemoveFiles, u, e
  <1> QED
    BY <1>3, <1>7, <1>8 DEF Evict

\* The number of entries beyond the cap.
Beyond(s) == IF Len(s.index) > MaxSessions THEN Len(s.index) - MaxSessions ELSE 0

\* Evictions one after the other, F[k] after k of them.
Evictions(F, s) ==
    /\ F \in [0 .. Beyond(s) -> Stores]
    /\ F[0] = s
    /\ \A k \in 1 .. Beyond(s) : F[k] = Evict(F[k - 1], s.index[Len(s.index) + 1 - k])

\* The cap drops as many entries as there are beyond it.
LEMMA BeyondIs ==
    ASSUME SessionIndexAssumption, NEW s \in Stores
    PROVE  /\ Beyond(s) \in Nat /\ Len(s.index) \in Nat /\ Beyond(s) <= Len(s.index)
           /\ Len(s.index) >= 1 => Beyond(s) < Len(s.index)
           /\ \A k \in 1 .. Beyond(s) : /\ Len(s.index) + 1 - k \in Len(s.index) - Beyond(s) + 1 .. Len(s.index)
                                        /\ s.index[Len(s.index) + 1 - k] \in Meta
  <1>1. s.index \in Seq(Meta) /\ Len(s.index) \in Nat /\ MaxSessions \in Nat /\ MaxSessions >= 1
    BY NowIs DEF SessionIndexAssumption
  <1>2. Beyond(s) \in Nat /\ Beyond(s) <= Len(s.index) /\ (Len(s.index) >= 1 => Beyond(s) < Len(s.index))
    BY <1>1 DEF Beyond
  <1>3. ASSUME NEW k \in 1 .. Beyond(s)
        PROVE  /\ Len(s.index) + 1 - k \in Len(s.index) - Beyond(s) + 1 .. Len(s.index)
               /\ Len(s.index) + 1 - k \in DOMAIN s.index
    BY <1>1, <1>2
  <1> QED
    BY <1>1, <1>2, <1>3

\* What Capped computes.
LEMMA CappedIs ==
    ASSUME SessionIndexAssumption, NEW s \in Stores
    PROVE  \E F : /\ Evictions(F, s)
                  /\ Capped(s) = [F[Beyond(s)] EXCEPT !.index = SubSeq(@, 1, Len(@) - Beyond(s))]
  <1> DEFINE n == Beyond(s)
             L == Len(s.index)
             S == Stores
             step == [k \in 1 .. n |-> [x \in S |-> Evict(x, s.index[L + 1 - k])]]
             eq(F) == F = [k \in 0 .. n |-> IF k = 0 THEN s ELSE Evict(F[k - 1], s.index[L + 1 - k])]
  <1>0. /\ n \in Nat /\ \A k \in 1 .. n : s.index[L + 1 - k] \in Meta
    BY BeyondIs
  <1>1. step \in [1 .. n -> [S -> S]]
    BY <1>0, EvictTyped
  <1>2. \A k \in 1 .. n : \A x \in S : step[k][x] = Evict(x, s.index[L + 1 - k])
    OBVIOUS
  <1>3. \E F : eq(F)
    <2>0. s \in S
      OBVIOUS
    <2> HIDE DEF n, S, step
    <2> DEFINE b == s
    <2>00. b \in S
      BY <2>0
    <2>02. n \in Nat
      BY <1>0
    <2> HIDE DEF b
    <2>01. PICK F : Steps(F, S, b, n, step)
      BY <1>1, <2>00, <2>02, Recursion
    <2>1. F \in [0 .. n -> S] /\ F[0] = b /\ \A k \in 1 .. n : F[k] = step[k][F[k - 1]]
      BY <2>01 DEF Steps
    <2> USE DEF b
    <2>2. ASSUME NEW k \in 0 .. n
          PROVE  F[k] = IF k = 0 THEN s ELSE Evict(F[k - 1], s.index[L + 1 - k])
      <3>1. CASE k = 0
        BY <2>1, <3>1
      <3>2. CASE k # 0
        <4>1. k \in 1 .. n /\ k - 1 \in 0 .. n
          BY <1>0, <3>2
        <4>2. F[k - 1] \in S
          BY <2>1, <4>1
        <4> QED
          BY <1>2, <2>1, <3>2, <4>1, <4>2
      <3> QED
        BY <3>1, <3>2
    <2>3. eq(F)
      BY <2>1, <2>2
    <2> QED
      BY <2>3
  <1>4. PICK F : eq(F) /\ Capped(s) = [F[n] EXCEPT !.index = SubSeq(@, 1, Len(@) - n)]
    BY <1>3 DEF Capped, Beyond
  <1>5. F[0] = s
    <2> HIDE DEF n
    <2> QED
      BY <1>0, <1>4
  <1>6. ASSUME NEW k \in 1 .. n
        PROVE  F[k] = Evict(F[k - 1], s.index[L + 1 - k])
    <2> HIDE DEF n
    <2>1. k \in 0 .. n /\ k # 0
      BY <1>0
    <2> QED
      BY <1>4, <2>1
  <1>7. F \in [0 .. n -> S]
    <2> DEFINE holds == {k \in 0 .. n : F[k] \in S}
    <2>1. 0 \in holds
      BY <1>0, <1>5
    <2>2. ASSUME NEW k \in 0 .. n, k \in holds, k < n
          PROVE  k + 1 \in holds
      <3> HIDE DEF n
      <3>1. F[k] \in S
        BY <2>2
      <3>2. k + 1 \in 1 .. n /\ (k + 1) - 1 = k /\ k + 1 \in 0 .. n
        BY <1>0, <2>2
      <3>3. F[k + 1] = Evict(F[k], s.index[L + 1 - (k + 1)]) /\ s.index[L + 1 - (k + 1)] \in Meta
        BY <1>0, <1>6, <3>2
      <3>4. F[k + 1] \in S
        BY <3>1, <3>3, EvictTyped
      <3> QED
        BY <3>2, <3>4
    <2>3. \A k \in 0 .. n : k \in holds
      <3> HIDE DEF n, holds
      <3> QED
        BY <1>0, <2>1, <2>2, Induction
    <2>4. DOMAIN F = 0 .. n
      <3> HIDE DEF n
      <3> QED
        BY <1>4
    <2>5. F = [k \in 0 .. n |-> F[k]]
      <3> HIDE DEF n
      <3> QED
        BY <1>4
    <2>6. \A k \in 0 .. n : F[k] \in S
      BY <2>3
    <2> HIDE DEF n, S
    <2> QED
      BY <2>5, <2>6
  <1> QED
    BY <1>4, <1>5, <1>6, <1>7 DEF Evictions

\* The sessions beyond the cap are emptied, as long as nothing is owed to them.
LEMMA CappedSafely ==
    ASSUME SessionIndexAssumption, NEW P, NEW s, Based(s, P),
           \A k \in Len(s.index) - Beyond(s) + 1 .. Len(s.index) :
               s.index[k].id \in Ids /\ Free(s.index[k].id, P)
    PROVE  LET t == Capped(s) IN
           /\ Based(t, P)
           /\ t.index = SubSeq(s.index, 1, Len(s.index) - Beyond(s))
           /\ t.sequence = s.sequence /\ t.meta = s.meta
           /\ Now(t).dirs = Now(s).dirs /\ Now(t).index = Now(s).index
           /\ Used(Now(t)) \subseteq Used(Now(s))
  <1> DEFINE n == Beyond(s)
             L == Len(s.index)
             t == Capped(s)
  <1>0. s \in Stores
    BY BasedNow
  <1>1. PICK F : /\ Evictions(F, s)
                 /\ Capped(s) = [F[Beyond(s)] EXCEPT !.index = SubSeq(@, 1, Len(@) - Beyond(s))]
    BY <1>0, CappedIs
  <1>2. /\ n \in Nat /\ L \in Nat /\ n <= L
        /\ \A k \in 1 .. n : L + 1 - k \in L - n + 1 .. L /\ s.index[L + 1 - k] \in Meta
    BY <1>0, BeyondIs
  <1>3. \A k \in 1 .. n : s.index[L + 1 - k].id \in Ids /\ Free(s.index[L + 1 - k].id, P)
    BY <1>2
  <1>4. /\ F[0] = s
        /\ \A k \in 1 .. n : F[k] = Evict(F[k - 1], s.index[L + 1 - k])
    BY <1>1 DEF Evictions
  <1> DEFINE good(x) == /\ Based(x, P)
                        /\ x.index = s.index /\ x.sequence = s.sequence /\ x.meta = s.meta
                        /\ Now(x).dirs = Now(s).dirs /\ Now(x).index = Now(s).index
                        /\ Used(Now(x)) \subseteq Used(Now(s))
             holds == {k \in 0 .. n : good(F[k])}
  <1>5. 0 \in holds
    <2>1. good(s)
      OBVIOUS
    <2> HIDE DEF good, n
    <2> QED
      BY <1>2, <1>4, <2>1
  <1>6. ASSUME NEW k \in 0 .. n, k \in holds, k < n
        PROVE  k + 1 \in holds
    <2> DEFINE e == s.index[L + 1 - (k + 1)]
               x == F[k]
    <2> HIDE DEF n, L
    <2>1. k + 1 \in 1 .. n /\ (k + 1) - 1 = k /\ k + 1 \in 0 .. n
      BY <1>2, <1>6
    <2>2. F[k + 1] = Evict(x, e) /\ e.id \in Ids /\ Free(e.id, P)
      BY <1>3, <1>4, <2>1
    <2>3. good(x)
      BY <1>6
    <2> HIDE DEF e, x
    <2>4. good(Evict(x, e))
      <3>1. CASE e.id \in Now(x).dirs
        <4>1. Evict(x, e) = RemoveFiles(x, e.id)
          BY <3>1 DEF Evict
        <4> DEFINE y == RemoveFiles(x, e.id)
        <4>2. /\ Based(y, P)
              /\ y.index = x.index /\ y.sequence = x.sequence /\ y.meta = x.meta
              /\ Now(y).dirs = Now(x).dirs /\ Now(y).index = Now(x).index
              /\ Used(Now(y)) \subseteq Used(Now(x))
          BY <2>2, <2>3, FilesRemoved
        <4> HIDE DEF y
        <4>3. good(y)
          BY <2>3, <4>2
        <4> QED
          BY <4>1, <4>3 DEF y
      <3>2. CASE e.id \notin Now(x).dirs
        <4>1. Evict(x, e) = x
          BY <3>2 DEF Evict
        <4> HIDE DEF good
        <4> QED
          BY <2>3, <4>1
      <3> QED
        BY <3>1, <3>2
    <2> HIDE DEF good
    <2> QED
      BY <2>1, <2>2, <2>4
  <1>7. good(F[n])
    <2>1. \A k \in 0 .. n : k \in holds
      <3> HIDE DEF holds, n
      <3> QED
        BY <1>2, <1>5, <1>6, Induction
    <2>2. n \in 0 .. n
      BY <1>2
    <2>3. n \in holds
      BY <2>1, <2>2
    <2> HIDE DEF good, n
    <2> QED
      BY <2>3
  <1> DEFINE f == F[n]
             i == SubSeq(s.index, 1, L - n)
  <1>8. t = [f EXCEPT !.index = SubSeq(@, 1, Len(@) - n)]
    BY <1>1
  <1>9. good(f)
    BY <1>7
  <1> HIDE DEF f
  <1>10. f \in Stores /\ f.index = s.index /\ s.index \in Seq(Meta) /\ s.sequence \in Nat /\ s.meta \in Meta
    BY <1>0, <1>9, BasedNow
  <1>11. [f EXCEPT !.index = SubSeq(@, 1, Len(@) - n)] = [f EXCEPT !.index = i]
    BY <1>10
  <1>12. i \in Seq(Meta)
    <2>1. L - n \in Nat /\ L - n <= L
      BY <1>2
    <2> QED
      BY <1>10, <2>1, FirstOfList
  <1> HIDE DEF i, t, n
  <1>13. t = [disks |-> f.disks, index |-> i, sequence |-> s.sequence, meta |-> s.meta]
    BY <1>8, <1>9, <1>10, <1>11, StoreFields
  <1>14. Based(t, P) /\ Now(t) = Now(f) /\ t.index = i /\ t.sequence = s.sequence /\ t.meta = s.meta
    BY <1>9, <1>10, <1>12, <1>13, StoreMade
  <1> QED
    BY <1>9, <1>14 DEF i, t, n

\* The entry create makes, and the list it keeps under the cap.
NewEntry(s, now) == [id |-> s.sequence, updated |-> now, title |-> "default"]

Remaining(s, now) ==
    LET all == <<NewEntry(s, now)>> \o s.index
    IN  SubSeq(all, 1, IF Len(all) > MaxSessions THEN MaxSessions ELSE Len(all))

\* From s to t no session but id gets an entry or a directory.
Grown(t, s, id) ==
    /\ Listed(t.index) \subseteq Listed(s.index) \cup {id}
    /\ Now(t).dirs \subseteq Now(s).dirs \cup {id}

\* create: a new entry, an empty directory, and nothing taken from a session
\* something is owed to.
LEMMA Created ==
    ASSUME SessionIndexAssumption,
           NEW P, NEW s, Based(s, P), NEW now \in Nat, s.sequence \in 1 .. MaxId,
           ListOK(s.index, s.sequence), ListKeeps(s.index, P), Ahead(s),
           s.sequence \notin P.deleted,
           \A turn \in P.kept : turn[1] \in Listed(Remaining(s, now)),
           \A e \in Entries(s.index) : e.id \in Listed(Remaining(s, now)) \/ Free(e.id, P)
    PROVE  LET t == Create(s, now) IN
           /\ Based(t, P) /\ Lists(t, P) /\ Ahead(t) /\ Even(t) /\ Opened(t, P)
           /\ t.sequence = s.sequence + 1 /\ t.meta.id = s.sequence
           /\ Listed(t.index) = Listed(Remaining(s, now))
           /\ Grown(t, s, s.sequence) /\ Now(t).index.sessions = t.index
  <1> DEFINE id == s.sequence
             m == NewEntry(s, now)
             all == <<m>> \o s.index
             rest == Remaining(s, now)
             a == [s EXCEPT !.sequence = @ + 1, !.meta = m, !.index = <<m>> \o @]
             b == MakeDirectory(a, m.id)
             c == Capped(b)
             w == WriteIndex(c)
             t == PersistMeta(w)
  <1>0. /\ s \in Stores /\ s.index \in Seq(Meta) /\ s.sequence \in Nat /\ s.meta \in Meta
        /\ P \in Promises /\ Sound(Now(s)) /\ Keeps(Now(s), P)
    BY BasedNow
  <1>1. Create(s, now) = t
    BY DEF Create, NewEntry
  <1>2. m \in Meta /\ m.id = id /\ m.title = "default"
    BY <1>0 DEF NewEntry, Meta
  <1>3. id \in Ids /\ id + 1 \in Nat /\ id + 1 \in 1 .. MaxId + 1 /\ id \in 1 .. id
    BY <1>0 DEF Ids, SessionIndexAssumption
  <1>4. id \notin P.named
    <2>1. ASSUME id \in P.named
          PROVE  id \in Used(Now(s))
      <3>1. Now(s).metas[id].title = "user"
        BY <1>0, <2>1 DEF Keeps
      <3>2. Now(s).metas[id] # NoMeta
        BY <3>1 DEF NoMeta
      <3> QED
        BY <1>3, <3>2 DEF Used
    <2>2. ~(id < id)
      BY <1>0
    <2> QED
      BY <2>1, <2>2 DEF Ahead
  <1> HIDE DEF m
  <1>5. /\ all \in Seq(Meta) /\ Len(all) = Len(s.index) + 1 /\ all[1] = m
        /\ \A k \in 2 .. Len(all) : all[k] = s.index[k - 1] /\ k - 1 \in DOMAIN s.index
        /\ Entries(all) = Entries(s.index) \cup {m}
        /\ Distinct(all)
    <2>1. m.id \notin Listed(s.index)
      <3> SUFFICES ASSUME m.id \in Listed(s.index) PROVE FALSE
        OBVIOUS
      <3>1. PICK e \in Entries(s.index) : e.id = m.id
        BY <1>0, ListedAre
      <3>2. e.id < id
        BY <3>1 DEF ListOK
      <3> QED
        BY <1>0, <1>2, <3>1, <3>2
    <2>2. Distinct(s.index)
      BY DEF ListOK
    <2> QED
      BY <1>0, <1>2, <2>1, <2>2, FrontedList
  <1>6. a = [disks |-> s.disks, index |-> all, sequence |-> id + 1, meta |-> m]
    <2>1. a = [s EXCEPT !.sequence = id + 1, !.meta = m, !.index = all]
      BY <1>0 DEF Stores
    <2> DEFINE n == id + 1
    <2>2. a = [s EXCEPT !.sequence = n, !.meta = m, !.index = all]
      BY <2>1
    <2> HIDE DEF a, all, n
    <2>3. [s EXCEPT !.sequence = n, !.meta = m, !.index = all]
            = [disks |-> s.disks, index |-> all, sequence |-> n, meta |-> m]
      BY ZenonT(40), <1>0, StoreAnew
    <2>4. a = [disks |-> s.disks, index |-> all, sequence |-> n, meta |-> m]
      BY <2>2, <2>3
    <2> QED
      BY <2>4 DEF n
  <1> HIDE DEF a, all
  <1>7. /\ Based(a, P) /\ Now(a) = Now(s)
        /\ a.index = all /\ a.sequence = id + 1 /\ a.meta = m
    BY <1>0, <1>2, <1>3, <1>5, <1>6, StoreMade
  <1>8. /\ Based(b, P)
        /\ b.index = all /\ b.sequence = id + 1 /\ b.meta = m
        /\ Now(b).dirs = Now(s).dirs \cup {id} /\ Now(b).lines = Now(s).lines
        /\ Now(b).metas = Now(s).metas /\ Now(b).index = Now(s).index
    BY <1>2, <1>3, <1>7, DirectoryMade
  <1> HIDE DEF b
  <1>9. b \in Stores
    BY <1>8, BasedNow
  <1>10. /\ Beyond(b) \in Nat /\ Len(all) \in Nat /\ Beyond(b) < Len(all) /\ Len(all) >= 1
         /\ rest = SubSeq(all, 1, Len(all) - Beyond(b))
    <2>1. Len(all) \in Nat /\ Len(all) >= 1
      BY <1>5
    <2>2. Beyond(b) \in Nat /\ Beyond(b) < Len(all)
      BY <1>8, <1>9, <2>1, BeyondIs
    <2>3. (IF Len(all) > MaxSessions THEN MaxSessions ELSE Len(all)) = Len(all) - Beyond(b)
      BY <1>8, <2>1 DEF Beyond, SessionIndexAssumption
    <2>4. rest = SubSeq(all, 1, IF Len(all) > MaxSessions THEN MaxSessions ELSE Len(all))
      BY DEF Remaining, all, m
    <2> QED
      BY <2>1, <2>2, <2>3, <2>4
  <1> DEFINE n == Len(all) - Beyond(b)
  <1>11. /\ rest \in Seq(Meta) /\ Len(rest) = n /\ \A k \in 1 .. n : rest[k] = all[k]
         /\ Entries(rest) \subseteq Entries(all) /\ Distinct(rest) /\ n \in Nat /\ n >= 1
    <2>1. n \in Nat /\ n >= 1 /\ n <= Len(all)
      BY <1>10
    <2> HIDE DEF n, rest
    <2>2. rest = SubSeq(all, 1, n)
      BY <1>10 DEF n
    <2> QED
      BY <1>5, <2>1, <2>2, FirstOfList
  <1> HIDE DEF rest
  <1>12. ASSUME NEW k \in n + 1 .. Len(all)
         PROVE  all[k].id \in Ids /\ Free(all[k].id, P)
    <2>1. k \in 2 .. Len(all) /\ k \in DOMAIN all
      BY SMTT(30), <1>5, <1>10, <1>11
    <2>2. all[k] = s.index[k - 1] /\ k - 1 \in DOMAIN s.index
      BY <1>5, <2>1
    <2> DEFINE e == all[k]
    <2>3. e \in Entries(s.index)
      BY <2>2 DEF Entries
    <2> HIDE DEF e
    <2>4. e.id \in Ids
      BY <2>3 DEF ListOK
    <2>5. e.id \notin Listed(rest)
      <3> SUFFICES ASSUME e.id \in Listed(rest) PROVE FALSE
        OBVIOUS
      <3>1. PICK j \in DOMAIN rest : rest[j].id = e.id
        BY DEF Listed
      <3>2. j \in 1 .. n
        BY <1>11
      <3>3. all[j].id = all[k].id
        BY <1>11, <3>1, <3>2 DEF e
      <3>4. j \in 1 .. Len(all) /\ j # k
        BY <1>10, <1>11, <3>2
      <3>5. j \in DOMAIN all
        BY <1>5, <3>4
      <3> QED
        BY <1>5, <2>1, <3>3, <3>4, <3>5 DEF Distinct
    <2>6. Free(e.id, P)
      BY <2>3, <2>5 DEF rest
    <2> QED
      BY <2>4, <2>6 DEF e
  <1>13. /\ Based(c, P)
         /\ c.index = rest /\ c.sequence = id + 1 /\ c.meta = m
         /\ Now(c).dirs = Now(b).dirs /\ Now(c).index = Now(b).index
         /\ Used(Now(c)) \subseteq Used(Now(b))
    <2>1. \A k \in Len(b.index) - Beyond(b) + 1 .. Len(b.index) :
               b.index[k].id \in Ids /\ Free(b.index[k].id, P)
      BY <1>8, <1>12
    <2>2. /\ Based(c, P)
          /\ c.index = SubSeq(b.index, 1, Len(b.index) - Beyond(b))
          /\ c.sequence = b.sequence /\ c.meta = b.meta
          /\ Now(c).dirs = Now(b).dirs /\ Now(c).index = Now(b).index
          /\ Used(Now(c)) \subseteq Used(Now(b))
      BY <1>8, <2>1, CappedSafely
    <2> QED
      BY <1>8, <1>10, <2>2 DEF rest
  <1> HIDE DEF c
  <1>14. Ahead(c) /\ \A k \in Used(Now(c)) : k < id
    <2>1. Used(Now(b)) = Used(Now(s))
      BY <1>8 DEF Used
    <2>2. \A k \in Used(Now(c)) : k < id /\ k \in Ids
      BY <1>13, <2>1 DEF Ahead, Used
    <2> QED
      BY <1>0, <1>13, <2>2 DEF Ahead, Ids
  <1>15. /\ m \in Entries(rest)
         /\ \A e \in Entries(rest) : e \in Entries(s.index) \/ e = m
    <2>1. 1 \in 1 .. n /\ 1 \in DOMAIN rest
      BY <1>11
    <2>2. rest[1] = m
      BY <1>5, <1>11, <2>1
    <2> QED
      BY <1>5, <1>11, <2>1, <2>2 DEF Entries
  <1>16. Lists(c, P)
    <2>1. ListOK(rest, id + 1)
      <3>1. \A e \in Entries(s.index) : e.id \in Ids /\ e.id < id
        BY DEF ListOK
      <3>2. \A e \in Entries(rest) : e.id \in Ids /\ e.id < id + 1
        BY <1>0, <1>2, <1>3, <1>15, <3>1 DEF Ids
      <3> QED
        BY <1>11, <3>2 DEF ListOK
    <2>2. ListKeeps(rest, P)
      BY <1>2, <1>4, <1>15 DEF ListKeeps
    <2>3. \A turn \in P.kept : turn[1] \in Listed(rest)
      BY DEF rest
    <2> QED
      BY <1>3, <1>13, <2>1, <2>2, <2>3 DEF Lists
  <1>17. /\ Based(w, P)
         /\ w.index = rest /\ w.sequence = id + 1 /\ w.meta = m
         /\ Now(w).dirs = Now(c).dirs /\ Now(w).lines = Now(c).lines
         /\ Now(w).metas = Now(c).metas
    BY <1>13, <1>14, <1>16, IndexWritten
  <1> HIDE DEF w
  <1>18. Lists(w, P)
    BY <1>13, <1>16, <1>17 DEF Lists
  <1>19. Ahead(w)
    <2>1. Used(Now(w)) = Used(Now(c))
      BY <1>17 DEF Used
    <2> QED
      BY <1>13, <1>14, <1>17, <2>1 DEF Ahead
  <1>20. Opened(w, P)
    <2>1. id + 1 - 1 = id
      BY <1>0
    <2> QED
      BY <1>2, <1>3, <1>4, <1>17, <2>1 DEF Opened
  <1>21. /\ Based(t, P) /\ Lists(t, P) /\ Ahead(t) /\ Even(t) /\ Opened(t, P)
         /\ t.sequence = w.sequence /\ t.meta = w.meta
         /\ Listed(t.index) = Listed(w.index) \cup {w.meta.id}
         /\ Now(t).dirs = Now(w).dirs \cup {w.meta.id}
         /\ Now(t).index.sessions = t.index
    BY <1>17, <1>18, <1>19, <1>20, MetaPersisted
  <1> HIDE DEF t
  <1>22. m.id \in Listed(rest) /\ Listed(rest) \subseteq Listed(s.index) \cup {id}
    <2>1. /\ \A e \in Entries(rest) : e.id \in Listed(rest)
          /\ \A i \in Listed(rest) : \E e \in Entries(rest) : e.id = i
          /\ \A e \in Entries(s.index) : e.id \in Listed(s.index)
      BY <1>0, <1>11, ListedAre
    <2> QED
      BY <1>2, <1>15, <2>1
  <1>23. Listed(t.index) = Listed(rest)
    BY <1>17, <1>21, <1>22
  <1>24. Now(t).dirs = Now(s).dirs \cup {id}
    BY <1>2, <1>8, <1>13, <1>17, <1>21
  <1>25. Grown(t, s, s.sequence)
    BY <1>22, <1>23, <1>24 DEF Grown
  <1>26. t.sequence = s.sequence + 1 /\ t.meta.id = s.sequence
    BY <1>2, <1>17, <1>21
  <1> QED
    BY <1>1, <1>21, <1>23, <1>25, <1>26 DEF rest, t

\* Whatever is owed, that is the list create leaves.
LEMMA CreatedList ==
    ASSUME SessionIndexAssumption,
           NEW P, NEW s, Based(s, P), NEW now \in Nat, s.sequence \in 1 .. MaxId,
           ListOK(s.index, s.sequence), Ahead(s)
    PROVE  /\ Listed(Create(s, now).index) = Listed(Remaining(s, now))
           /\ Create(s, now).sequence = s.sequence + 1
           /\ Create(s, now).meta.id = s.sequence
  <1> DEFINE Q == NoPromises
  <1>1. Q \in Promises /\ Q.kept = {} /\ Q.deleted = {} /\ Q.named = {}
    BY DEF NoPromises, Promises
  <1> HIDE DEF Q
  <1>2. Based(s, Q)
    <2>1. ASSUME NEW k \in DOMAIN s.disks
          PROVE  Sound(s.disks[k]) /\ Keeps(s.disks[k], Q)
      BY <1>1 DEF Based, Keeps, ListKeeps
    <2> QED
      BY <1>1, <2>1 DEF Based
  <1>3. ListKeeps(s.index, Q)
    BY <1>1 DEF ListKeeps
  <1>4. \A e \in Entries(s.index) : Free(e.id, Q)
    BY <1>1 DEF Free
  <1> QED
    BY <1>1, <1>2, <1>3, <1>4, Created

\* open takes what meta.json says, or makes the session.
LEMMA StoreOpened ==
    ASSUME SessionIndexAssumption,
           NEW P, NEW s, Based(s, P), NEW now \in Nat, Lists(s, P), Ahead(s), Even(s),
           NEW id \in Ids, id < s.sequence, id \notin P.deleted
    PROVE  LET t == OpenStore(s, id, now) IN
           /\ Based(t, P) /\ Lists(t, P) /\ Ahead(t) /\ Even(t) /\ Opened(t, P)
           /\ t.index = s.index /\ t.sequence = s.sequence /\ t.meta.id = id
           /\ Now(t).dirs \subseteq Now(s).dirs \cup {id} /\ Now(t).index = Now(s).index
  <1> DEFINE m == Now(s).metas[id]
             t == OpenStore(s, id, now)
  <1>0. /\ s \in Stores /\ s.index \in Seq(Meta) /\ s.sequence \in Nat /\ s.meta \in Meta
        /\ P \in Promises /\ Sound(Now(s)) /\ Keeps(Now(s), P) /\ Now(s) \in Disk
    BY BasedNow
  <1>1. m \in Meta /\ id \in 1 .. s.sequence - 1
    BY <1>0 DEF Disk, Ids
  <1> DEFINE good(x) == /\ Based(x, P) /\ x.index = s.index /\ x.sequence = s.sequence
                        /\ Now(x).index = Now(s).index /\ Used(Now(x)) = Used(Now(s))
                        /\ Now(x).dirs \subseteq Now(s).dirs \cup {id}
                        /\ x.meta.id = id /\ (id \in P.named => x.meta.title = "user")
  <1>2. good(t)
    <2>1. CASE m # NoMeta
      <3>1. m.id = id /\ (id \in P.named => m.title = "user")
        BY <1>0, <2>1 DEF Sound, Keeps
      <3>2. t = [s EXCEPT !.meta = m]
        BY <2>1 DEF OpenStore
      <3> HIDE DEF m, t
      <3>3. t = [disks |-> s.disks, index |-> s.index, sequence |-> s.sequence, meta |-> m]
        BY <1>0, <3>2, StoreFields
      <3>4. Based(t, P) /\ Now(t) = Now(s) /\ t.index = s.index /\ t.sequence = s.sequence /\ t.meta = m
        BY <1>0, <1>1, <3>3, StoreMade
      <3> QED
        BY <3>1, <3>4
    <2>2. CASE m = NoMeta
      <3> DEFINE b == MakeDirectory(s, id)
                 new == [id |-> id, updated |-> now, title |-> "name"]
      <3>1. id \notin P.named
        BY <1>0, <2>2 DEF Keeps, NoMeta
      <3>2. t = [b EXCEPT !.meta = new]
        BY <2>2 DEF OpenStore
      <3>3. new \in Meta /\ new.id = id
        BY DEF Meta, Ids
      <3>4. /\ Based(b, P)
            /\ b.index = s.index /\ b.sequence = s.sequence /\ b.meta = s.meta
            /\ Now(b).dirs = Now(s).dirs \cup {id} /\ Now(b).lines = Now(s).lines
            /\ Now(b).metas = Now(s).metas /\ Now(b).index = Now(s).index
        BY DirectoryMade
      <3> HIDE DEF b, t, new, m
      <3>5. b \in Stores
        BY <3>4, BasedNow
      <3>6. t = [disks |-> b.disks, index |-> b.index, sequence |-> b.sequence, meta |-> new]
        BY <3>2, <3>5, StoreFields
      <3>7. Based(t, P) /\ Now(t) = Now(b) /\ t.index = s.index /\ t.sequence = s.sequence /\ t.meta = new
        BY <1>0, <3>3, <3>4, <3>6, StoreMade
      <3>8. Used(Now(b)) = Used(Now(s))
        BY <3>4 DEF Used
      <3> QED
        BY <3>1, <3>3, <3>4, <3>7, <3>8
    <2> QED
      BY <2>1, <2>2
  <1> HIDE DEF t
  <1>3. Lists(t, P) /\ Ahead(t) /\ Even(t)
    BY <1>2 DEF Lists, Ahead, Even
  <1>4. Opened(t, P)
    BY <1>1, <1>2 DEF Opened
  <1> QED
    BY <1>2, <1>3, <1>4 DEF t

\* remove takes the directory, the entry and, if it was open, the open session.
LEMMA StoreRemoved ==
    ASSUME SessionIndexAssumption,
           NEW P, NEW s, Based(s, P), Lists(s, P), Ahead(s), NEW id \in Ids, Free(id, P)
    PROVE  LET t == RemoveStore(s, id) IN
           /\ Based(t, P) /\ Lists(t, P) /\ Ahead(t) /\ Even(t)
           /\ t.index = Others(s.index, id) /\ t.sequence = s.sequence
           /\ t.meta = IF s.meta.id = id THEN NoMeta ELSE s.meta
           /\ Now(t).dirs = Now(s).dirs \ {id} /\ Now(t).index.sessions = t.index
  <1> DEFINE u == RemoveTree(s, id)
             i == Others(s.index, id)
             m == IF s.meta.id = id THEN NoMeta ELSE s.meta
             a == [u EXCEPT !.index = i, !.meta = m]
             t == WriteIndex(a)
  <1>0. /\ s \in Stores /\ s.index \in Seq(Meta) /\ s.sequence \in Nat /\ s.meta \in Meta
        /\ P \in Promises
    BY BasedNow
  <1>1. /\ Based(u, P)
        /\ u.index = s.index /\ u.sequence = s.sequence /\ u.meta = s.meta
        /\ Now(u).dirs = Now(s).dirs \ {id} /\ Now(u).index = Now(s).index
        /\ Used(Now(u)) \subseteq Used(Now(s))
    BY TreeRemoved
  <1>2. RemoveStore(s, id) = t
    <2>1. u \in Stores /\ u.meta = s.meta
      BY <1>1, BasedNow
    <2>2. RemoveStore(s, id)
             = WriteIndex([u EXCEPT !.index = i, !.meta = IF @.id = id THEN NoMeta ELSE @])
      BY DEF RemoveStore
    <2> HIDE DEF u, i
    <2>3. [u EXCEPT !.index = i, !.meta = IF @.id = id THEN NoMeta ELSE @]
             = [u EXCEPT !.index = i, !.meta = m]
      BY <2>1 DEF Stores
    <2> QED
      BY <2>2, <2>3
  <1> HIDE DEF u
  <1>3. i \in Seq(Meta) /\ Entries(i) = {e \in Entries(s.index) : e.id # id} /\ (Distinct(s.index) => Distinct(i))
    BY <1>0, OtherList
  <1>4. m \in Meta
    BY <1>0 DEF Meta, NoMeta
  <1>5. a = [disks |-> u.disks, index |-> i, sequence |-> s.sequence, meta |-> m]
    <2>1. u \in Stores
      BY <1>1, BasedNow
    <2> HIDE DEF i, m
    <2>2. [u EXCEPT !.index = i, !.meta = m]
            = [disks |-> u.disks, index |-> i, sequence |-> u.sequence, meta |-> m]
      BY ZenonT(40), <2>1, StoreFields
    <2> QED
      BY <1>1, <2>2
  <1> HIDE DEF a, i, m
  <1>6. /\ Based(a, P) /\ Now(a) = Now(u)
        /\ a.index = i /\ a.sequence = s.sequence /\ a.meta = m
    BY <1>0, <1>1, <1>3, <1>4, <1>5, StoreMade
  <1>7. Lists(a, P)
    <2>1. ListOK(i, s.sequence)
      BY <1>3 DEF Lists, ListOK
    <2>2. ListKeeps(i, P)
      BY <1>3 DEF Lists, ListKeeps
    <2>3. ASSUME NEW turn \in P.kept
          PROVE  turn[1] \in Listed(i)
      <3>1. turn[1] \in Listed(s.index) /\ turn[1] # id
        BY DEF Lists, Free
      <3>2. PICK e \in Entries(s.index) : e.id = turn[1]
        BY <1>0, <3>1, ListedAre
      <3>3. e \in Entries(i)
        BY <1>3, <3>1, <3>2
      <3>4. e.id \in Listed(i)
        BY <1>3, <3>3, ListedAre
      <3> QED
        BY <3>2, <3>4
    <2> QED
      BY <1>6, <2>1, <2>2, <2>3 DEF Lists
  <1>8. Ahead(a)
    BY <1>1, <1>6 DEF Ahead
  <1>9. /\ Based(t, P)
        /\ t.index = i /\ t.sequence = s.sequence /\ t.meta = m
        /\ Now(t).dirs = Now(a).dirs /\ Now(t).lines = Now(a).lines
        /\ Now(t).metas = Now(a).metas
        /\ Now(t).index = [sequence |-> s.sequence, sessions |-> i]
    BY <1>6, <1>7, <1>8, IndexWritten
  <1> HIDE DEF t
  <1>10. Used(Now(t)) = Used(Now(a))
    BY <1>9 DEF Used
  <1>11. Lists(t, P) /\ Ahead(t)
    BY <1>6, <1>7, <1>8, <1>9, <1>10 DEF Lists, Ahead
  <1>12. Now(t).index.sequence = t.sequence /\ Now(t).index.sessions = t.index
    BY <1>9
  <1>13. Even(t)
    BY <1>12 DEF Even
  <1> QED
    BY <1>1, <1>2, <1>6, <1>9, <1>11, <1>12, <1>13 DEF i, m

\* One record of promises asks for no more than another.
AtMost(P, Q) ==
    /\ P \in Promises /\ Q \in Promises
    /\ P.kept \subseteq Q.kept /\ P.deleted \subseteq Q.deleted /\ P.named \subseteq Q.named

\* What keeps the more keeps the less.
LEMMA LessKept ==
    ASSUME NEW P, NEW Q, AtMost(P, Q)
    PROVE  /\ \A d : Keeps(d, Q) => Keeps(d, P)
           /\ \A sessions : ListKeeps(sessions, Q) => ListKeeps(sessions, P)
           /\ \A s : Lists(s, Q) => Lists(s, P)
           /\ \A s : Opened(s, Q) => Opened(s, P)
           /\ \A s : Based(s, Q) => Based(s, P)
  <1>1. \A sessions : ListKeeps(sessions, Q) => ListKeeps(sessions, P)
    BY DEF AtMost, ListKeeps
  <1>2. \A d : Keeps(d, Q) => Keeps(d, P)
    BY <1>1 DEF AtMost, Keeps
  <1>3. \A s : Lists(s, Q) => Lists(s, P)
    BY <1>1 DEF AtMost, Lists
  <1>4. \A s : Opened(s, Q) => Opened(s, P)
    BY DEF AtMost, Opened
  <1>5. \A s : Based(s, Q) => Based(s, P)
    BY <1>2 DEF AtMost, Based
  <1> QED
    BY <1>1, <1>2, <1>3, <1>4, <1>5

\* A removal leaves a store.
LEMMA RemovedTyped ==
    ASSUME NEW s \in Stores, NEW id
    PROVE  RemoveStore(s, id) \in Stores
  <1> DEFINE d == [Now(s) EXCEPT !.metas[id] = NoMeta]
             u == Write(s, d)
             e == [Now(u) EXCEPT !.lines[id] = {}]
             v == Write(u, e)
             f == [Now(v) EXCEPT !.dirs = @ \ {id}]
             w == Write(v, f)
             i == Others(s.index, id)
             m == IF w.meta.id = id THEN NoMeta ELSE w.meta
             a == [w EXCEPT !.index = i, !.meta = m]
             j == [sequence |-> a.sequence, sessions |-> a.index]
             g == [Now(a) EXCEPT !.index = j]
  <1>0. Now(s) \in Disk /\ i \in Seq(Meta)
    BY NowIs, OtherList
  <1> HIDE DEF i
  <1>1. d \in Disk
    BY <1>0 DEF Disk, Meta, NoMeta
  <1>2. u \in Stores
    BY <1>1, WriteIs
  <1>3. e \in Disk
    <2> HIDE DEF u
    <2>1. Now(u) \in Disk
      BY <1>2, NowIs
    <2>2. [Now(u).lines EXCEPT ![id] = {}] \in [Ids -> SUBSET Nat]
      BY <2>1 DEF Disk
    <2> QED
      BY <2>1, <2>2 DEF Disk
  <1>4. v \in Stores
    <2> HIDE DEF u, e
    <2> QED
      BY <1>2, <1>3, WriteIs
  <1>5. f \in Disk
    <2> HIDE DEF v
    <2>1. Now(v) \in Disk
      BY <1>4, NowIs
    <2> QED
      BY <2>1 DEF Disk
  <1>6. w \in Stores
    <2> HIDE DEF v, f
    <2> QED
      BY <1>4, <1>5, WriteIs
  <1>7. RemoveTree(s, id) = w
    BY DEF RemoveTree, RemoveFiles
  <1> HIDE DEF w
  <1>8. w.disks \in Seq(Disk) \ {<<>>} /\ w.sequence \in Nat /\ w.meta \in Meta
    BY <1>6 DEF Stores
  <1>9. m \in Meta
    BY <1>8 DEF Meta, NoMeta
  <1>10. RemoveStore(s, id) = WriteIndex([w EXCEPT !.index = i, !.meta = IF @.id = id THEN NoMeta ELSE @])
    BY <1>7 DEF RemoveStore, i
  <1>11. [w EXCEPT !.index = i, !.meta = IF @.id = id THEN NoMeta ELSE @] = a
    BY <1>6 DEF Stores
  <1> HIDE DEF m
  <1>12. a = [disks |-> w.disks, index |-> i, sequence |-> w.sequence, meta |-> m]
    <2>1. [w EXCEPT !.index = i, !.meta = m]
            = [disks |-> w.disks, index |-> i, sequence |-> w.sequence, meta |-> m]
      BY ZenonT(40), <1>6, StoreFields
    <2> QED
      BY <2>1
  <1> HIDE DEF a
  <1>13. a \in Stores
    BY <1>0, <1>8, <1>9, <1>12 DEF Stores
  <1>14. Now(a) \in Disk /\ a.sequence \in Nat /\ a.index \in Seq(Meta)
    BY <1>13, NowIs
  <1>15. j \in [sequence : Nat, sessions : Seq(Meta)]
    BY <1>14
  <1> HIDE DEF j
  <1>16. g \in Disk
    BY <1>14, <1>15 DEF Disk
  <1>17. WriteIndex(a) = Write(a, g)
    BY DEF WriteIndex, j
  <1> HIDE DEF g
  <1>18. Write(a, g) \in Stores
    BY <1>13, <1>16, WriteIs
  <1> QED
    BY <1>10, <1>11, <1>17, <1>18

\* Removals one after the other, F[k] after k of them.
Removals(F) ==
    /\ F \in [0 .. Len(index) -> Stores]
    /\ F[0] = Store
    /\ \A k \in 1 .. Len(index) : F[k] = RemoveStore(F[k - 1], index[k].id)

\* What AllRemoved computes.
LEMMA AllRemovedIs ==
    ASSUME Store \in Stores
    PROVE  \E F : Removals(F) /\ AllRemoved = F[Len(index)]
  <1> DEFINE n == Len(index)
             S == Stores
             b == Store
             step == [k \in 1 .. n |-> [x \in S |-> RemoveStore(x, index[k].id)]]
             eq(F) == F = [k \in 0 .. n |-> IF k = 0 THEN Store ELSE RemoveStore(F[k - 1], index[k].id)]
  <1>0. n \in Nat
    BY DEF Stores, Store
  <1>00. b \in S
    OBVIOUS
  <1>1. step \in [1 .. n -> [S -> S]]
    BY RemovedTyped
  <1>2. \A k \in 1 .. n : \A x \in S : step[k][x] = RemoveStore(x, index[k].id)
    OBVIOUS
  <1> HIDE DEF n, S, b, step
  <1>3. PICK F : Steps(F, S, b, n, step)
    BY <1>0, <1>00, <1>1, Recursion
  <1>4. F \in [0 .. n -> S] /\ F[0] = b /\ \A k \in 1 .. n : F[k] = step[k][F[k - 1]]
    BY <1>3 DEF Steps
  <1>5. \E G : eq(G)
    <2>2. ASSUME NEW k \in 0 .. n
          PROVE  F[k] = IF k = 0 THEN Store ELSE RemoveStore(F[k - 1], index[k].id)
      <3>1. CASE k = 0
        BY <1>4, <3>1 DEF b
      <3>2. CASE k # 0
        <4>1. k \in 1 .. n /\ k - 1 \in 0 .. n
          BY <1>0, <3>2
        <4>2. F[k - 1] \in S
          BY <1>4, <4>1
        <4> QED
          BY <1>2, <1>4, <3>2, <4>1, <4>2
      <3> QED
        BY <3>1, <3>2
    <2>3. eq(F)
      BY <1>4, <2>2
    <2> QED
      BY <2>3
  <1>6. PICK G : eq(G) /\ AllRemoved = G[n]
    BY <1>5 DEF AllRemoved, n
  <1>7. G[0] = Store
    BY <1>0, <1>6
  <1>8. ASSUME NEW k \in 1 .. n
        PROVE  G[k] = RemoveStore(G[k - 1], index[k].id)
    <2>1. k \in 0 .. n /\ k # 0
      BY <1>0
    <2> QED
      BY <1>6, <2>1
  <1>9. G \in [0 .. n -> Stores]
    <2> DEFINE holds == {k \in 0 .. n : G[k] \in Stores}
    <2>1. 0 \in holds
      BY <1>0, <1>7, <1>00 DEF S, b
    <2>2. ASSUME NEW k \in 0 .. n, k \in holds, k < n
          PROVE  k + 1 \in holds
      <3>1. G[k] \in Stores
        BY <2>2
      <3>2. k + 1 \in 1 .. n /\ (k + 1) - 1 = k /\ k + 1 \in 0 .. n
        BY <1>0, <2>2
      <3>3. G[k + 1] = RemoveStore(G[k], index[k + 1].id)
        BY <1>8, <3>2
      <3>4. G[k + 1] \in Stores
        BY <3>1, <3>3, RemovedTyped
      <3> QED
        BY <3>2, <3>4
    <2>3. \A k \in 0 .. n : k \in holds
      <3> HIDE DEF holds
      <3> QED
        BY <1>0, <2>1, <2>2, Induction
    <2>5. G = [k \in 0 .. n |-> G[k]]
      BY <1>6
    <2>6. \A k \in 0 .. n : G[k] \in Stores
      BY <2>3
    <2> QED
      BY <2>5, <2>6
  <1> QED
    BY <1>6, <1>7, <1>8, <1>9 DEF Removals, n

\* Deleting every listed session leaves no entry and none of their directories.
LEMMA AllRemovedSafely ==
    ASSUME SessionIndexAssumption, NEW P, Based(Store, P), Lists(Store, P), Ahead(Store),
           \A id \in Listed(index) : Free(id, P)
    PROVE  LET t == AllRemoved IN
           /\ Based(t, P) /\ Lists(t, P) /\ Ahead(t)
           /\ t.index = <<>> /\ t.sequence = sequence
           /\ Now(t).dirs \cap Listed(index) = {}
  <1> DEFINE n == Len(index)
             t == AllRemoved
             good(x, k) == /\ Based(x, P) /\ Lists(x, P) /\ Ahead(x)
                           /\ x.sequence = sequence
                           /\ Entries(x.index) \subseteq Entries(index)
                           /\ \A j \in 1 .. k : /\ index[j].id \notin Now(x).dirs
                                                /\ \A e \in Entries(x.index) : e.id # index[j].id
  <1>0. Store \in Stores /\ index \in Seq(Meta) /\ n \in Nat /\ DOMAIN index = 1 .. n
    <2>1. Store \in Stores /\ Store.index = index
      BY BasedNow DEF Store
    <2>2. index \in Seq(Meta)
      BY <2>1 DEF Stores
    <2> QED
      BY <2>1, <2>2
  <1>1. PICK F : Removals(F) /\ AllRemoved = F[n]
    BY <1>0, AllRemovedIs
  <1>2. F[0] = Store /\ \A k \in 1 .. n : F[k] = RemoveStore(F[k - 1], index[k].id)
    BY <1>1 DEF Removals
  <1>3. ASSUME NEW k \in 1 .. n
        PROVE  index[k].id \in Ids /\ Free(index[k].id, P)
    <2>1. index[k] \in Entries(index) /\ index[k].id \in Listed(index)
      BY <1>0 DEF Entries, Listed
    <2>2. Store.index = index
      BY DEF Store
    <2> QED
      BY <2>1, <2>2 DEF Lists, ListOK
  <1> DEFINE holds == {k \in 0 .. n : good(F[k], k)}
  <1>4. 0 \in holds
    <2>1. Store.sequence = sequence /\ Store.index = index
      BY DEF Store
    <2>2. good(Store, 0)
      BY <2>1
    <2> HIDE DEF good, n
    <2> QED
      BY <1>0, <1>2, <2>2
  <1>5. ASSUME NEW k \in 0 .. n, k \in holds, k < n
        PROVE  k + 1 \in holds
    <2> DEFINE x == F[k]
               y == F[k + 1]
               id == index[k + 1].id
    <2>1. k + 1 \in 1 .. n /\ (k + 1) - 1 = k /\ k + 1 \in 0 .. n
      BY <1>0, <1>5
    <2>2. y = RemoveStore(x, id) /\ id \in Ids /\ Free(id, P)
      BY <1>2, <1>3, <2>1
    <2>3. good(x, k)
      BY <1>5
    <2> HIDE DEF x, y
    <2>4. /\ Based(y, P) /\ Lists(y, P) /\ Ahead(y)
          /\ y.index = Others(x.index, id) /\ y.sequence = x.sequence
          /\ Now(y).dirs = Now(x).dirs \ {id}
      <3> HIDE DEF id
      <3> QED
        BY <2>2, <2>3, StoreRemoved
    <2>5. Entries(y.index) = {e \in Entries(x.index) : e.id # id}
      <3>1. x.index \in Seq(Meta)
        BY <2>3, BasedNow
      <3> HIDE DEF id
      <3> QED
        BY <2>4, <3>1, OtherList
    <2>6. ASSUME NEW j \in 1 .. k + 1
          PROVE  /\ index[j].id \notin Now(y).dirs
                 /\ \A e \in Entries(y.index) : e.id # index[j].id
      <3>1. CASE j = k + 1
        BY <2>4, <2>5, <3>1
      <3>2. CASE j # k + 1
        <4>1. j \in 1 .. k
          BY <3>2
        <4> HIDE DEF id
        <4> QED
          BY <2>3, <2>4, <2>5, <4>1
      <3> QED
        BY <3>1, <3>2
    <2> HIDE DEF id
    <2>7. good(y, k + 1)
      BY <2>3, <2>4, <2>5, <2>6
    <2> HIDE DEF good
    <2> QED
      BY <2>1, <2>7 DEF y
  <1>6. good(t, n)
    <2>1. \A k \in 0 .. n : k \in holds
      <3> HIDE DEF holds, n
      <3> QED
        BY <1>0, <1>4, <1>5, Induction
    <2>2. n \in holds
      BY <1>0, <2>1
    <2> HIDE DEF good, n
    <2> QED
      BY <1>1, <2>2
  <1> HIDE DEF t
  <1>7. t.index = <<>>
    <2>1. t.index \in Seq(Meta)
      BY <1>6, BasedNow
    <2>2. ASSUME NEW e \in Entries(t.index)
          PROVE  FALSE
      <3>1. e \in Entries(index)
        BY <1>6
      <3>2. PICK j \in 1 .. n : e = index[j]
        BY <1>0, <3>1 DEF Entries
      <3> QED
        BY <1>6, <3>2
    <2> QED
      BY <2>1, <2>2, ListedAre
  <1>8. ASSUME NEW id \in Now(t).dirs, id \in Listed(index)
        PROVE  FALSE
    <2>1. PICK j \in 1 .. n : id = index[j].id
      BY <1>0, <1>8 DEF Listed
    <2> QED
      BY <1>6, <1>8, <2>1
  <1>9. Now(t).dirs \cap Listed(index) = {}
    BY <1>8
  <1> QED
    BY <1>6, <1>7, <1>9 DEF t

\* rename writes the name into the entry, the open session, its file and index.json.
LEMMA StoreRenamed ==
    ASSUME SessionIndexAssumption,
           NEW P, NEW s, Based(s, P), NEW now \in Nat, Lists(s, P), Ahead(s), Even(s), Opened(s, P),
           NEW id \in Listed(s.index), NEW title \in {"user", "blank"},
           title = "user" \/ id \notin P.named
    PROVE  LET t == RenameStore(s, id, title, now) IN
           /\ Based(t, P) /\ Lists(t, P) /\ Ahead(t) /\ Even(t) /\ Opened(t, P)
           /\ \A e \in Entries(t.index) : e.id = id => e.title = title
           /\ t.meta.id = id => t.meta.title = title
           /\ id \in Now(s).dirs => Now(t).metas[id].title = title
           /\ Now(t).index.sessions = t.index
           /\ Now(t).dirs = Now(s).dirs
  <1> DEFINE k == CHOOSE k \in DOMAIN s.index : s.index[k].id = id
             entry == [s.index[k] EXCEPT !.title = title, !.updated = now]
             q == [s.index EXCEPT ![k] = entry]
             m == [s.meta EXCEPT !.title = IF s.meta.id = id THEN title ELSE @]
             a == [s EXCEPT !.index = q, !.meta = m]
             b == WriteMeta(a, entry)
             t == WriteIndex(b)
  <1>0. /\ s \in Stores /\ s.index \in Seq(Meta) /\ s.sequence \in Nat /\ s.meta \in Meta
        /\ P \in Promises /\ Keeps(Now(s), P)
    BY BasedNow
  <1>1. k \in DOMAIN s.index /\ s.index[k].id = id
    BY DEF Listed
  <1>2. RenameStore(s, id, title, now) = t
    <2> DEFINE named == [s EXCEPT !.index[k] = entry,
                                  !.meta.title = IF s.meta.id = id THEN title ELSE @]
    <2>1. RenameStore(s, id, title, now) = WriteIndex(WriteMeta(named, entry))
      BY DEF RenameStore
    <2> HIDE DEF entry, k
    <2>2. named = a
      BY <1>0 DEF Stores
    <2> QED
      BY <2>1, <2>2
  <1> HIDE DEF k
  <1>3. s.index[k] \in Meta
    BY <1>0, <1>1
  <1>4. entry \in Meta /\ entry.id = id /\ entry.title = title
    <2> DEFINE old == s.index[k]
    <2>1. old \in Meta /\ old.id = id
      BY <1>1, <1>3
    <2> HIDE DEF old
    <2>2. /\ [old EXCEPT !.title = title, !.updated = now] \in Meta
          /\ [old EXCEPT !.title = title, !.updated = now].id = id
          /\ [old EXCEPT !.title = title, !.updated = now].title = title
      BY <2>1 DEF Meta
    <2> QED
      BY <2>2 DEF old
  <1> HIDE DEF entry
  <1>5. s.index[k] \in Entries(s.index)
    BY <1>1 DEF Entries
  <1>6. id \in Ids /\ id < s.sequence /\ id \notin P.deleted
    BY <1>1, <1>5 DEF Lists, ListOK, ListKeeps
  <1>7. /\ q \in Seq(Meta) /\ DOMAIN q = DOMAIN s.index
        /\ q[k] = entry /\ \A j \in DOMAIN s.index : j # k => q[j] = s.index[j]
    BY <1>0, <1>1, <1>4
  <1> HIDE DEF q
  <1>8. \A j \in DOMAIN q : q[j].id = s.index[j].id
    BY <1>1, <1>4, <1>7
  <1>9. Distinct(q)
    <2>1. Distinct(s.index)
      BY DEF Lists, ListOK
    <2> QED
      BY <1>7, <1>8, <2>1 DEF Distinct
  <1>10. Listed(q) = Listed(s.index)
    BY <1>7, <1>8 DEF Listed
  <1>11. \A e \in Entries(q) : e = entry \/ (e \in Entries(s.index) /\ e.id # id)
    <2> SUFFICES ASSUME NEW e \in Entries(q), e # entry
                 PROVE  e \in Entries(s.index) /\ e.id # id
      OBVIOUS
    <2>1. PICK j \in DOMAIN q : e = q[j]
      BY DEF Entries
    <2>2. j # k /\ e = s.index[j] /\ j \in DOMAIN s.index
      BY <1>7, <2>1
    <2>3. e.id # id
      <3>1. Distinct(s.index)
        BY DEF Lists, ListOK
      <3> QED
        BY <1>1, <2>2, <3>1 DEF Distinct
    <2> QED
      BY <2>2, <2>3 DEF Entries
  <1>12. m \in Meta /\ m.id = s.meta.id /\ m.title = IF m.id = id THEN title ELSE s.meta.title
    BY <1>0 DEF Meta
  <1> HIDE DEF m
  <1>13. a = [disks |-> s.disks, index |-> q, sequence |-> s.sequence, meta |-> m]
    BY ZenonT(40), <1>0, StoreFields
  <1> HIDE DEF a
  <1>14. /\ Based(a, P) /\ Now(a) = Now(s)
         /\ a.index = q /\ a.sequence = s.sequence /\ a.meta = m
    BY <1>0, <1>7, <1>12, <1>13, StoreMade
  <1>15. Lists(a, P)
    <2>1. ListOK(q, s.sequence)
      <3>1. \A e \in Entries(s.index) : e.id \in Ids /\ e.id < s.sequence
        BY DEF Lists, ListOK
      <3> QED
        BY <1>4, <1>6, <1>9, <1>11, <3>1 DEF ListOK
    <2>2. ListKeeps(q, P)
      <3>1. \A e \in Entries(s.index) : e.id \notin P.deleted /\ (e.id \in P.named => e.title = "user")
        BY DEF Lists, ListKeeps
      <3> QED
        BY <1>4, <1>6, <1>11, <3>1 DEF ListKeeps
    <2> QED
      BY <1>10, <1>14, <2>1, <2>2 DEF Lists
  <1>16. Opened(a, P)
    <2>1. /\ s.meta.id \in 1 .. s.sequence - 1 /\ s.meta.id \notin P.deleted
          /\ s.meta.id \in P.named => s.meta.title = "user"
      BY DEF Opened
    <2>2. m.id \in P.named => m.title = "user"
      BY <1>12, <2>1
    <2> QED
      BY <1>12, <1>14, <2>1, <2>2 DEF Opened
  <1>17. /\ Based(b, P)
         /\ b.index = a.index /\ b.sequence = a.sequence /\ b.meta = a.meta
         /\ Now(b).dirs = Now(a).dirs /\ Now(b).lines = Now(a).lines
         /\ Now(b).index = Now(a).index
         /\ Used(Now(b)) \subseteq Used(Now(a)) \cup {id}
         /\ id \in Now(a).dirs => Now(b).metas[id] = entry
    <2>1. Now(a).index.sessions # <<>> => id < Now(a).index.sequence
      BY <1>6, <1>14 DEF Even
    <2> QED
      BY <1>4, <1>6, <1>14, <2>1, MetaWritten
  <1> HIDE DEF b
  <1>18. Lists(b, P)
    BY <1>15, <1>17 DEF Lists
  <1>19. Ahead(b)
    BY <1>6, <1>14, <1>17 DEF Ahead
  <1>20. /\ Based(t, P)
         /\ t.index = b.index /\ t.sequence = b.sequence /\ t.meta = b.meta
         /\ Now(t).dirs = Now(b).dirs /\ Now(t).lines = Now(b).lines
         /\ Now(t).metas = Now(b).metas
         /\ Now(t).index = [sequence |-> b.sequence, sessions |-> b.index]
    BY <1>17, <1>18, <1>19, IndexWritten
  <1> HIDE DEF t
  <1>21. Used(Now(t)) = Used(Now(b))
    BY <1>20 DEF Used
  <1>22. /\ Now(t).index.sequence = t.sequence /\ Now(t).index.sessions = t.index
         /\ t.index = q /\ t.meta = m /\ t.sequence = s.sequence
    BY <1>14, <1>17, <1>20
  <1>23. Lists(t, P) /\ Ahead(t) /\ Even(t) /\ Opened(t, P)
    BY <1>14, <1>16, <1>17, <1>18, <1>19, <1>20, <1>21, <1>22 DEF Lists, Ahead, Even, Opened
  <1>24. \A e \in Entries(t.index) : e.id = id => e.title = title
    BY <1>4, <1>11, <1>22
  <1>25. t.meta.id = id => t.meta.title = title
    BY <1>12, <1>22
  <1>26. id \in Now(s).dirs => Now(t).metas[id].title = title
    BY <1>4, <1>14, <1>17, <1>20
  <1>27. Now(t).dirs = Now(s).dirs
    BY <1>14, <1>17, <1>20
  <1> QED
    BY <1>2, <1>20, <1>22, <1>23, <1>24, <1>25, <1>26, <1>27

\* What is open after a deletion or a start: the session that was, the first of the
\* list, or a new one.
LEMMA SomethingOpened ==
    ASSUME SessionIndexAssumption,
           NEW P, NEW s, Based(s, P), NEW now \in Nat, Lists(s, P), Ahead(s), Even(s),
           s.meta.id # 0 => Opened(s, P),
           s.meta.id = 0 /\ s.index = <<>> => s.sequence \in 1 .. MaxId /\ s.sequence \notin P.deleted
    PROVE  LET t == OpenSomething(s, now) IN
           /\ Based(t, P) /\ Lists(t, P) /\ Ahead(t) /\ Even(t) /\ Opened(t, P)
           /\ t.meta.id = s.meta.id \/ t.meta.id \in Listed(s.index) \/ t.meta.id = s.sequence
           /\ Grown(t, s, t.meta.id)
           /\ Now(t).index.sessions = Now(s).index.sessions \/ Now(t).index.sessions = t.index
  <1>0. /\ s \in Stores /\ s.index \in Seq(Meta) /\ s.sequence \in Nat /\ s.meta \in Meta
        /\ P \in Promises
    BY BasedNow
  <1>1. CASE s.meta.id # 0
    <2>1. OpenSomething(s, now) = s
      BY <1>1 DEF OpenSomething
    <2>2. Grown(s, s, s.meta.id)
      BY DEF Grown
    <2> QED
      BY <1>1, <2>1, <2>2
  <1>2. CASE s.meta.id = 0 /\ s.index # <<>>
    <2> DEFINE id == s.index[1].id
               t == OpenStore(s, id, now)
    <2>1. OpenSomething(s, now) = t
      BY <1>2 DEF OpenSomething
    <2>2. 1 \in DOMAIN s.index /\ s.index[1] \in Entries(s.index)
      BY <1>0, <1>2 DEF Entries
    <2>3. id \in Listed(s.index)
      BY <2>2 DEF Listed
    <2>4. id \in Ids /\ id < s.sequence /\ id \notin P.deleted
      BY <2>2 DEF Lists, ListOK, ListKeeps
    <2> HIDE DEF id
    <2>5. /\ Based(t, P) /\ Lists(t, P) /\ Ahead(t) /\ Even(t) /\ Opened(t, P)
          /\ t.index = s.index /\ t.sequence = s.sequence /\ t.meta.id = id
          /\ Now(t).dirs \subseteq Now(s).dirs \cup {id} /\ Now(t).index = Now(s).index
      BY <2>4, StoreOpened
    <2> HIDE DEF t
    <2>6. Grown(t, s, t.meta.id)
      BY <2>5 DEF Grown
    <2> QED
      BY <2>1, <2>3, <2>5, <2>6
  <1>3. CASE s.meta.id = 0 /\ s.index = <<>>
    <2> DEFINE t == Create(s, now)
    <2>1. OpenSomething(s, now) = t
      BY <1>3 DEF OpenSomething
    <2>2. Entries(s.index) = {} /\ Listed(s.index) = {}
      BY <1>3 DEF Entries, Listed
    <2>3. \A turn \in P.kept : turn[1] \in Listed(Remaining(s, now))
      BY <2>2 DEF Lists
    <2>4. \A e \in Entries(s.index) : e.id \in Listed(Remaining(s, now)) \/ Free(e.id, P)
      BY <2>2
    <2>5. s.sequence \in 1 .. MaxId /\ s.sequence \notin P.deleted
      BY <1>3
    <2>6. ListOK(s.index, s.sequence) /\ ListKeeps(s.index, P)
      BY DEF Lists
    <2>7. /\ Based(t, P) /\ Lists(t, P) /\ Ahead(t) /\ Even(t) /\ Opened(t, P)
          /\ t.sequence = s.sequence + 1 /\ t.meta.id = s.sequence
          /\ Grown(t, s, s.sequence) /\ Now(t).index.sessions = t.index
      BY <2>3, <2>4, <2>5, <2>6, Created
    <2> HIDE DEF t
    <2> QED
      BY <2>1, <2>7
  <1> QED
    BY <1>1, <1>2, <1>3

\* The sequence is not below what was stored, and above every id that is listed.
LEMMA RaisedIs ==
    ASSUME SessionIndexAssumption, NEW from \in 1 .. MaxId + 1, NEW sessions,
           Listed(sessions) \subseteq Ids
    PROVE  LET n == RaisedOver(from, sessions) IN
           /\ n \in from .. MaxId + 1 /\ \A id \in Listed(sessions) : id < n
           /\ (\A id \in Listed(sessions) : id < from) => n = from
  <1> DEFINE above == {n \in from .. (MaxId + 1) : \A id \in Listed(sessions) : id < n}
             n == RaisedOver(from, sessions)
  <1>1. above \subseteq Nat /\ MaxId + 1 \in above
    BY DEF Ids, SessionIndexAssumption
  <1>2. \E i \in above : \A j \in above : i <= j
    <2> HIDE DEF above
    <2> QED
      BY <1>1, Least
  <1>3. n = CHOOSE i \in above : \A j \in above : i <= j
    BY DEF RaisedOver
  <1>4. n \in above /\ \A j \in above : n <= j
    <2> HIDE DEF above, n
    <2> QED
      BY <1>2, <1>3
  <1> HIDE DEF n
  <1>5. (\A id \in Listed(sessions) : id < from) => n = from
    <2> SUFFICES ASSUME \A id \in Listed(sessions) : id < from PROVE n = from
      OBVIOUS
    <2>1. from \in above
      BY DEF SessionIndexAssumption
    <2>2. n <= from /\ n >= from
      BY <1>4, <2>1 DEF SessionIndexAssumption
    <2> QED
      BY <1>4, <2>2 DEF SessionIndexAssumption
  <1> QED
    BY <1>4, <1>5 DEF n

\* load_index finds what the disk keeps, or rebuilds it.
LEMMA Loaded ==
    ASSUME SessionIndexAssumption,
           NEW P, Based(Store, P), todo = <<>>, NEW now \in Nat
    PROVE  LET t == Load(now) IN
           /\ Based(t, P) /\ Lists(t, P) /\ Ahead(t) /\ Even(t) /\ t.meta.id = 0
  <1> DEFINE file == disk.index.sessions
             sessions == IF file # <<>> THEN file ELSE Rebuilt(now)
             from == IF disk.index.sequence = 0 THEN 1 ELSE disk.index.sequence
             i == NewestFirst(sessions)
             n == RaisedOver(from, sessions)
             m == NoMeta
             t == Load(now)
  <1>0. /\ Store \in Stores /\ P \in Promises /\ Now(Store) = disk
        /\ disk \in Disk /\ Sound(disk) /\ Keeps(disk, P) /\ Store.disks = <<disk>>
    <2>1. Store.disks = <<disk>> /\ Now(Store) = disk
      BY DEF Store, Now
    <2> QED
      BY <2>1, BasedNow
  <1>1. file \in Seq(Meta) /\ disk.index.sequence \in 0 .. MaxId + 1 /\ MaxId \in Nat
    BY <1>0 DEF Disk, Sound, SessionIndexAssumption
  <1>2. from \in 1 .. MaxId + 1
    BY <1>1
  <1>3. m \in Meta /\ m.id = 0
    BY DEF Meta, NoMeta
  <1> DEFINE fine(l, q) == /\ l \in Seq(Meta) /\ ListOK(l, q) /\ ListKeeps(l, P)
                           /\ \A turn \in P.kept : turn[1] \in Listed(l)
                           /\ \A id \in Used(disk) : id < q
  <1>4. /\ fine(sessions, n) /\ n \in 1 .. MaxId + 1
        /\ file # <<>> => disk.index.sequence = n
    <2>1. CASE file # <<>>
      <3>1. sessions = file
        BY <2>1
      <3>2. ListOK(file, disk.index.sequence)
        BY <1>0 DEF Sound
      <3>3. Listed(file) \subseteq Ids /\ \A id \in Listed(file) : id < disk.index.sequence
        <4>1. \A id \in Listed(file) : \E e \in Entries(file) : e.id = id
          BY <1>1, ListedAre
        <4> HIDE DEF file
        <4> QED
          BY <3>2, <4>1 DEF ListOK
      <3>4. from = disk.index.sequence
        <4>1. 1 \in DOMAIN file /\ file[1].id \in Listed(file)
          BY <1>1, <2>1 DEF Listed
        <4>2. file[1].id \in Ids /\ file[1].id < disk.index.sequence
          BY <3>3, <4>1
        <4> QED
          BY <1>1, <4>2 DEF Ids
      <3>5. n = from
        <4> HIDE DEF from, sessions
        <4> QED
          BY <1>2, <3>1, <3>3, <3>4, RaisedIs
      <3>6. ListKeeps(file, P) /\ \A turn \in P.kept : turn[1] \in Listed(file)
        BY <1>0, <2>1 DEF Keeps
      <3>7. \A id \in Used(disk) : id < disk.index.sequence
        BY <1>0, <2>1 DEF Sound
      <3> HIDE DEF from, file, sessions, n
      <3> QED
        BY <1>1, <1>2, <3>1, <3>2, <3>4, <3>5, <3>6, <3>7
    <2>2. CASE file = <<>>
      <3> DEFINE l == Rebuilt(now)
      <3>1. sessions = l
        BY <2>2
      <3>2. \A id \in Ids : disk.metas[id] # NoMeta => disk.metas[id].id = id
        BY <1>0 DEF Sound
      <3>3. /\ l \in Seq(Meta) /\ Entries(l) = {EntryOf(id, now) : id \in disk.dirs}
            /\ \A id \in disk.dirs : EntryOf(id, now) \in Meta /\ EntryOf(id, now).id = id
            /\ Distinct(l)
        BY <1>0, <3>2, RebuiltList
      <3> HIDE DEF l
      <3>4. disk.dirs \subseteq Ids
        BY <1>0 DEF Disk
      <3>5. /\ \A e \in Entries(l) : e.id \in disk.dirs /\ e = EntryOf(e.id, now)
            /\ \A id \in disk.dirs : EntryOf(id, now) \in Entries(l)
        BY <3>3
      <3>6. Listed(l) = disk.dirs
        <4>1. /\ \A e \in Entries(l) : e.id \in Listed(l)
              /\ \A id \in Listed(l) : \E e \in Entries(l) : e.id = id
          BY <3>3, ListedAre
        <4>2. Listed(l) \subseteq disk.dirs
          BY <3>5, <4>1
        <4>3. disk.dirs \subseteq Listed(l)
          BY <3>3, <3>5, <4>1
        <4> QED
          BY <4>2, <4>3
      <3>7. n \in from .. MaxId + 1 /\ \A id \in disk.dirs : id < n
        <4> HIDE DEF from, sessions
        <4> QED
          BY <1>2, <3>1, <3>4, <3>6, RaisedIs
      <3> HIDE DEF n
      <3>8. n \in 1 .. MaxId + 1
        <4> HIDE DEF from
        <4> QED
          BY <1>1, <1>2, <3>7
      <3>9. Used(disk) \subseteq disk.dirs
        BY <1>0 DEF Sound
      <3>10. ListOK(l, n)
        BY <3>3, <3>4, <3>5, <3>7 DEF ListOK
      <3>11. ListKeeps(l, P)
        <4> SUFFICES ASSUME NEW e \in Entries(l)
                     PROVE  e.id \notin P.deleted /\ (e.id \in P.named => e.title = "user")
          BY DEF ListKeeps
        <4>1. e.id \in disk.dirs /\ e = EntryOf(e.id, now)
          BY <3>5
        <4>2. e.id \notin P.deleted
          BY <1>0, <4>1 DEF Keeps
        <4>3. ASSUME e.id \in P.named
              PROVE  e.title = "user"
          <5>1. disk.metas[e.id].title = "user"
            BY <1>0, <4>3 DEF Keeps
          <5>2. disk.metas[e.id] # NoMeta
            BY <5>1 DEF NoMeta
          <5>3. EntryOf(e.id, now) = disk.metas[e.id]
            BY <5>2 DEF EntryOf
          <5> QED
            BY <4>1, <5>1, <5>3
        <4> QED
          BY <4>2, <4>3
      <3>12. ASSUME NEW turn \in P.kept
             PROVE  turn[1] \in Listed(l)
        <4>1. turn[1] \in Ids /\ turn[2] \in disk.lines[turn[1]]
          BY <1>0 DEF Keeps, Promises
        <4>2. turn[1] \in Used(disk)
          BY <4>1 DEF Used
        <4> QED
          BY <3>6, <3>9, <4>2
      <3>13. fine(l, n)
        BY <3>3, <3>7, <3>9, <3>10, <3>11, <3>12
      <3> HIDE DEF fine, sessions
      <3> QED
        BY <2>2, <3>1, <3>8, <3>13
    <2> QED
      BY <2>1, <2>2
  <1> HIDE DEF sessions
  <1>5. fine(i, n)
    <2>1. i \in Seq(Meta) /\ Entries(i) = Entries(sessions) /\ Distinct(i)
      BY <1>4, SortedList DEF ListOK
    <2> HIDE DEF i, n
    <2>2. /\ ListOK(i, n)
          /\ ListKeeps(i, P)
      BY <1>4, <2>1 DEF ListOK, ListKeeps
    <2>3. Listed(sessions) \subseteq Listed(i)
      BY <1>4, <2>1, ListedAre
    <2> QED
      BY <1>4, <2>1, <2>2, <2>3
  <1>6. t = [Store EXCEPT !.index = i, !.sequence = n, !.meta = m]
    BY DEF Load, sessions
  <1> HIDE DEF i, n, m, t
  <1>7. t = [disks |-> Store.disks, index |-> i, sequence |-> n, meta |-> m]
    <2> DEFINE st == Store
    <2>1. st \in Stores /\ t = [st EXCEPT !.index = i, !.sequence = n, !.meta = m]
      BY <1>0, <1>6
    <2> HIDE DEF st
    <2>2. [st EXCEPT !.index = i, !.sequence = n, !.meta = m]
            = [disks |-> st.disks, index |-> i, sequence |-> n, meta |-> m]
      BY <2>1, StoreAnew
    <2>3. t = [disks |-> st.disks, index |-> i, sequence |-> n, meta |-> m]
      BY <2>1, <2>2
    <2> QED
      BY <2>3 DEF st
  <1>8. n \in Nat
    BY <1>1, <1>4
  <1>9. /\ Based(t, P) /\ Now(t) = disk
        /\ t.index = i /\ t.sequence = n /\ t.meta = m
    <2> DEFINE r == [disks |-> Store.disks, index |-> i, sequence |-> n, meta |-> m]
    <2>1. Based(r, P) /\ Now(r) = Now(Store)
      BY <1>3, <1>5, <1>8, StoreMade
    <2>2. r.index = i /\ r.sequence = n /\ r.meta = m
      OBVIOUS
    <2> HIDE DEF r
    <2> QED
      BY <1>0, <1>7, <2>1, <2>2 DEF r
  <1>10. Lists(t, P) /\ Ahead(t) /\ Even(t)
    BY <1>4, <1>5, <1>9 DEF Lists, Ahead, Even
  <1> QED
    BY <1>3, <1>9, <1>10 DEF t

-----------------------------------------------------------------------------
(* The inductive invariant. *)

\* Nothing is on the disk and no process runs.
LEMMA IndexInit ==
    ASSUME SessionIndexAssumption, Init
    PROVE  IndexIInv
  <1>1. /\ disk.dirs = {} /\ disk.lines = [id \in Ids |-> {}]
        /\ disk.metas = [id \in Ids |-> NoMeta] /\ disk.index = NoIndex
        /\ disk \in Disk
    BY DEF Init, Disk, NoMeta, NoIndex, Meta
  <1>2. TypeOK
    <2>1. todo = <<>> /\ index = <<>> /\ up = FALSE
      BY DEF Init
    <2>2. meta \in Meta
      BY DEF Init, NoMeta, Meta
    <2>3. promise \in Promises /\ promised \in Promises
      BY DEF Init, NoPromises, Promises
    <2>4. sequence \in Nat /\ clock \in Nat /\ crashes \in Nat
      BY DEF Init
    <2>5. todo \in Seq(Disk) /\ index \in Seq(Meta)
      BY <2>1
    <2>6. up \in BOOLEAN
      BY <2>1
    <2> QED
      BY <1>1, <2>2, <2>3, <2>4, <2>5, <2>6 DEF TypeOK
  <1>3. /\ Memory.disks = <<disk>> /\ Now(Memory) = disk
    <2>1. Memory = Store
      BY DEF Init, Memory, Store
    <2> QED
      BY <2>1 DEF Store, Now
  <1>4. promised = promise /\ promise.kept = {} /\ promise.deleted = {} /\ promise.named = {}
    BY DEF Init, NoPromises
  <1>5. NoIndex.sessions = <<>> /\ NoIndex.sequence = 0
    BY DEF NoIndex
  <1>6. Sound(disk)
    <2>1. Used(disk) = {}
      BY <1>1 DEF Used
    <2>2. ListOK(<<>>, 0)
      BY DEF ListOK, Distinct, Entries
    <2> QED
      BY <1>1, <1>5, <2>1, <2>2 DEF Sound, SessionIndexAssumption
  <1>7. Keeps(disk, promise)
    <2>1. ListKeeps(<<>>, promise)
      BY DEF ListKeeps, Entries
    <2> QED
      BY <1>1, <1>4, <1>5, <2>1 DEF Keeps
  <1>8. up = FALSE /\ todo = <<>> /\ index = <<>> /\ sequence = 1
    BY DEF Init
  <1>9. \A k \in DOMAIN Memory.disks : Memory.disks[k] = disk
    BY <1>3
  <1> QED
    BY <1>2, <1>3, <1>4, <1>6, <1>7, <1>8, <1>9 DEF IndexIInv

\* Between two requests the store is the memory, and nothing else is owed.
LEMMA IdleStore ==
    ASSUME IndexIInv, todo = <<>>
    PROVE  /\ Based(Store, promised) /\ promised = promise
           /\ Store.index = index /\ Store.sequence = sequence /\ Store.meta = meta
           /\ Now(Store) = disk /\ Memory.disks = <<disk>>
           /\ index \in Seq(Meta) /\ sequence \in Nat /\ meta \in Meta /\ disk \in Disk
           /\ clock \in Nat /\ promised \in Promises
           /\ up => /\ Lists(Store, promised) /\ Ahead(Store) /\ Even(Store)
                    /\ Opened(Store, promised)
  <1>1. /\ disk \in Disk /\ index \in Seq(Meta) /\ sequence \in Nat /\ meta \in Meta
        /\ promised \in Promises /\ clock \in Nat
    BY DEF IndexIInv, TypeOK
  <1>2. Memory = Store
    BY DEF Memory, Store
  <1>3. /\ Store.disks = <<disk>> /\ Store.index = index /\ Store.sequence = sequence
        /\ Store.meta = meta /\ Now(Store) = disk
    BY DEF Store, Now
  <1>4. Store \in Stores
    BY <1>1 DEF Store, Stores
  <1>5. promised = promise
    BY DEF IndexIInv
  <1>6. \A k \in DOMAIN Store.disks : Sound(Store.disks[k]) /\ Keeps(Store.disks[k], promised)
    BY <1>2 DEF IndexIInv
  <1>7. Based(Store, promised)
    BY <1>1, <1>3, <1>4, <1>6 DEF Based
  <1>8. up => /\ Lists(Store, promised) /\ Ahead(Store) /\ Even(Store)
              /\ Opened(Store, promised)
    BY <1>2, <1>5 DEF IndexIInv
  <1> QED
    BY <1>1, <1>2, <1>3, <1>5, <1>7, <1>8

\* A request that leaves a store as it should be keeps the invariant.
LEMMA Served ==
    ASSUME IndexIInv, NEW s, NEW now, NEW then, then \in Promises,
           Based(s, now), Keeps(Now(s), then), Lists(s, then), Ahead(s), Even(s), Opened(s, then),
           Serve(s, now, then), disk' = disk, up' = TRUE, clock' \in Nat, crashes' = crashes
    PROVE  IndexIInv'
  <1>1. /\ s \in Stores /\ now \in Promises /\ s.disks[1] = disk
        /\ \A k \in DOMAIN s.disks : Sound(s.disks[k]) /\ Keeps(s.disks[k], now)
        /\ s.disks \in Seq(Disk) /\ s.disks # <<>>
        /\ s.index \in Seq(Meta) /\ s.sequence \in Nat /\ s.meta \in Meta
    BY DEF Based, Stores
  <1>2. /\ todo' = Tail(s.disks) /\ index' = s.index /\ sequence' = s.sequence /\ meta' = s.meta
        /\ promise' = then /\ promised' = IF todo' = <<>> THEN then ELSE now
    BY DEF Serve
  <1>3. TypeOK'
    <2>1. todo' \in Seq(Disk)
      <3> DEFINE r == s.disks
      <3>1. r \in Seq(Disk) /\ r # <<>>
        BY <1>1
      <3> HIDE DEF r
      <3>2. Tail(r) \in Seq(Disk)
        BY <3>1
      <3> QED
        BY <1>2, <3>2 DEF r
    <2>2. promised' \in Promises
      BY <1>1, <1>2
    <2>3. crashes' \in Nat /\ disk' \in Disk
      BY DEF IndexIInv, TypeOK
    <2> QED
      BY <1>1, <1>2, <2>1, <2>2, <2>3 DEF TypeOK
  <1>4. /\ <<disk>> \o Tail(s.disks) = s.disks
        /\ Tail(s.disks) = <<>> => Len(s.disks) = 1
    <2> DEFINE r == s.disks
    <2>1. r \in Seq(Disk) /\ r # <<>> /\ r[1] = disk /\ disk \in Disk
      BY <1>1
    <2> HIDE DEF r
    <2> DEFINE one == <<disk>>
               rest == Tail(r)
    <2>2. /\ rest \in Seq(Disk) /\ Len(rest) = Len(r) - 1 /\ Len(r) \in Nat /\ Len(r) >= 1
          /\ \A k \in 1 .. Len(rest) : rest[k] = r[k + 1]
      BY <2>1
    <2>3. one \in Seq(Disk) /\ Len(one) = 1 /\ one[1] = disk
      BY <2>1
    <2> HIDE DEF one, rest
    <2>4. /\ one \o rest \in Seq(Disk) /\ Len(one \o rest) = Len(r)
          /\ \A k \in 1 .. 1 : (one \o rest)[k] = one[k]
          /\ \A k \in 2 .. Len(r) : (one \o rest)[k] = rest[k - 1]
      <3>1. /\ one \o rest \in Seq(Disk) /\ Len(one \o rest) = Len(one) + Len(rest)
            /\ \A i \in 1 .. Len(one) : (one \o rest)[i] = one[i]
            /\ \A i \in Len(one) + 1 .. Len(one \o rest) : (one \o rest)[i] = rest[i - Len(one)]
        <4>1. one \in Seq(Disk) /\ rest \in Seq(Disk)
          BY <2>2, <2>3
        <4> QED
          BY <4>1, Concat
      <3> DEFINE joined == one \o rest
      <3> HIDE DEF joined
      <3>2. joined \in Seq(Disk) /\ Len(joined) = Len(r)
        BY <2>2, <2>3, <3>1 DEF joined
      <3>3. /\ \A k \in 1 .. 1 : joined[k] = one[k]
            /\ \A k \in 2 .. Len(r) : joined[k] = rest[k - 1]
        BY <2>3, <3>1, <3>2 DEF joined
      <3> QED
        BY <3>2, <3>3 DEF joined
    <2>5. ASSUME NEW k \in 1 .. Len(r)
          PROVE  (one \o rest)[k] = r[k]
      <3>1. CASE k = 1
        BY <2>1, <2>3, <2>4, <3>1
      <3>2. CASE k # 1
        <4>1. k - 1 \in 1 .. Len(rest) /\ (k - 1) + 1 = k /\ k \in 2 .. Len(r)
          BY <2>2, <3>2
        <4>2. (one \o rest)[k] = rest[k - 1]
          BY <2>4, <4>1
        <4>3. rest[k - 1] = r[k]
          BY <2>2, <4>1
        <4> QED
          BY <4>2, <4>3
      <3> QED
        BY <3>1, <3>2
    <2>6. one \o rest = r
      <3> DEFINE joined == one \o rest
      <3>1. joined \in Seq(Disk) /\ Len(joined) = Len(r) /\ \A k \in 1 .. Len(r) : joined[k] = r[k]
        BY <2>4, <2>5
      <3> HIDE DEF joined
      <3>2. joined = r
        BY <2>1, <3>1, SeqEqual
      <3> QED
        BY <3>2 DEF joined
    <2>7. rest = <<>> => Len(r) = 1
      BY <2>2
    <2> QED
      BY <2>6, <2>7 DEF r, one, rest
  <1>5. Memory' = s
    <2>1. Memory' = [disks |-> <<disk>> \o Tail(s.disks), index |-> s.index,
                     sequence |-> s.sequence, meta |-> s.meta]
      BY <1>2 DEF Memory
    <2>2. s = [disks |-> s.disks, index |-> s.index, sequence |-> s.sequence, meta |-> s.meta]
      BY <1>1 DEF Stores
    <2> QED
      BY <1>4, <2>1, <2>2
  <1>6. \A k \in DOMAIN s.disks : Sound(s.disks[k]) /\ Keeps(s.disks[k], promised')
    <2>1. CASE todo' = <<>>
      <3>1. Len(s.disks) = 1 /\ promised' = then
        BY <1>2, <1>4, <2>1
      <3>2. \A k \in DOMAIN s.disks : k = 1
        BY <1>1, <3>1
      <3>3. Now(s) = s.disks[1]
        BY <3>1 DEF Now
      <3> QED
        BY <1>1, <3>1, <3>2, <3>3
    <2>2. CASE todo' # <<>>
      BY <1>1, <1>2, <2>2
    <2> QED
      BY <2>1, <2>2
  <1>7. todo' = <<>> => promised' = promise'
    BY <1>2
  <1> QED
    BY <1>2, <1>3, <1>5, <1>6, <1>7 DEF IndexIInv

\* What a request asks for is among the promises, and less than there were.
LEMMA AgainIs ==
    ASSUME NEW P \in Promises, NEW s
    PROVE  /\ AtMost(Again(P, s), P)
           /\ Again(P, s).kept = P.kept /\ Again(P, s).named = P.named
           /\ Again(P, s).deleted = P.deleted \ {s.meta.id}
  <1> DEFINE gone == P.deleted \ {s.meta.id}
             Q == [P EXCEPT !.deleted = gone]
  <1>1. gone \subseteq P.deleted
    OBVIOUS
  <1>2. Again(P, s) = Q
    BY DEF Again
  <1>3. gone = P.deleted \ {s.meta.id}
    OBVIOUS
  <1> HIDE DEF gone
  <1>4. Q \in Promises /\ Q.kept = P.kept /\ Q.named = P.named /\ Q.deleted = gone
    BY <1>1 DEF Promises
  <1> QED
    BY <1>1, <1>2, <1>3, <1>4 DEF AtMost

\* Nothing is owed to what is left out, and no more than before to the others.
LEMMA WithoutIs ==
    ASSUME NEW P \in Promises, NEW ids
    PROVE  LET Q == Without(P, ids) IN
           /\ AtMost(Q, P)
           /\ Q.deleted = P.deleted /\ Q.named = P.named \ ids
           /\ \A turn \in Q.kept : turn[1] \notin ids
           /\ \A id \in ids : Free(id, Q)
  <1> DEFINE kept == {turn \in P.kept : turn[1] \notin ids}
             named == P.named \ ids
             Q == [[P EXCEPT !.kept = kept] EXCEPT !.named = named]
             R == [P EXCEPT !.kept = kept]
  <1>1. kept \subseteq P.kept /\ named \subseteq P.named /\ \A turn \in kept : turn[1] \notin ids
    OBVIOUS
  <1>2. \A id \in ids : id \notin named
    OBVIOUS
  <1>3. named = P.named \ ids
    OBVIOUS
  <1>4. Without(P, ids) = Q
    BY DEF Without, Promises
  <1> HIDE DEF kept, named
  <1>5. R \in Promises /\ R.kept = kept /\ R.named = P.named /\ R.deleted = P.deleted
    BY <1>1 DEF Promises
  <1>6. Q = [R EXCEPT !.named = named]
    OBVIOUS
  <1> HIDE DEF R, Q
  <1>7. Q \in Promises /\ Q.kept = kept /\ Q.named = named /\ Q.deleted = P.deleted
    BY <1>1, <1>5, <1>6 DEF Promises
  <1>8. \A id \in ids : Free(id, Q)
    BY <1>1, <1>2, <1>7 DEF Free
  <1> QED
    BY <1>1, <1>3, <1>4, <1>7, <1>8 DEF AtMost

\* new_session: what is dropped by the cap is owed nothing any more.
LEMMA NewSessionKeeps ==
    ASSUME SessionIndexAssumption, IndexIInv, NewSession
    PROVE  IndexIInv'
  <1> DEFINE s == Create(Store, Stamp)
             before == Without(promised, Dropped(s))
             left == Again(before, s)
  <1>1. /\ Serve(s, left, left) /\ disk' = disk /\ up' = TRUE /\ crashes' = crashes
        /\ up = TRUE /\ todo = <<>> /\ sequence <= MaxId /\ clock' = Stamp
    BY DEF NewSession, Idle, Tick, IndexIInv, TypeOK
  <1>2. /\ Based(Store, promised) /\ Store.index = index /\ Store.sequence = sequence
        /\ clock \in Nat /\ promised \in Promises
        /\ Lists(Store, promised) /\ Ahead(Store)
    BY <1>1, IdleStore
  <1>3. clock' \in Nat /\ Stamp \in Nat
    BY <1>1, <1>2 DEF Stamp
  <1>4. sequence \in 1 .. MaxId /\ ListOK(index, sequence)
    BY <1>1, <1>2 DEF Lists, SessionIndexAssumption
  <1>5. Listed(s.index) = Listed(Remaining(Store, Stamp)) /\ s.meta.id = sequence
    BY <1>2, <1>3, <1>4, CreatedList
  <1>6. AtMost(before, promised) /\ (\A turn \in before.kept : turn[1] \notin Dropped(s))
        /\ \A id \in Dropped(s) : Free(id, before)
    BY <1>2, WithoutIs
  <1>7. /\ AtMost(left, before) /\ left.kept = before.kept /\ left.named = before.named
        /\ left.deleted = before.deleted \ {s.meta.id}
    <2>1. before \in Promises
      BY <1>6 DEF AtMost
    <2> HIDE DEF before, s
    <2> QED
      BY <2>1, AgainIs
  <1> HIDE DEF left, before
  <1>8. AtMost(left, promised)
    BY <1>6, <1>7 DEF AtMost
  <1>9. Based(Store, left) /\ Lists(Store, left)
    BY <1>2, <1>8, LessKept
  <1>10. ListKeeps(index, left) /\ \A turn \in left.kept : turn[1] \in Listed(index)
    BY <1>2, <1>9 DEF Lists
  <1> HIDE DEF s
  <1>11. \A turn \in left.kept : turn[1] \in Listed(Remaining(Store, Stamp))
    BY <1>5, <1>6, <1>7, <1>10 DEF Dropped
  <1>12. ASSUME NEW e \in Entries(index)
         PROVE  e.id \in Listed(Remaining(Store, Stamp)) \/ Free(e.id, left)
    <2>1. e.id \in Listed(index)
      BY DEF Entries, Listed
    <2>2. e.id \in Dropped(s) => Free(e.id, left)
      BY <1>6, <1>7 DEF Free
    <2> QED
      BY <1>5, <2>1, <2>2 DEF Dropped
  <1>13. sequence \notin left.deleted
    BY <1>5, <1>7
  <1>14. Based(s, left) /\ Lists(s, left) /\ Ahead(s) /\ Even(s) /\ Opened(s, left)
    BY <1>2, <1>3, <1>4, <1>9, <1>10, <1>11, <1>12, <1>13, Created DEF s
  <1>15. Keeps(Now(s), left) /\ left \in Promises
    BY <1>14, BasedNow
  <1> QED
    BY <1>1, <1>3, <1>14, <1>15, Served

\* Opening a session asks for its id again.
LEMMA OpenSessionKeeps ==
    ASSUME SessionIndexAssumption, IndexIInv, NEW id \in Ids, OpenSession(id)
    PROVE  IndexIInv'
  <1> DEFINE s == OpenStore(Store, id, Stamp)
             left == Again(promised, s)
             P == [promised EXCEPT !.deleted = @ \ {id}]
  <1>1. /\ Serve(s, left, left) /\ disk' = disk /\ up' = TRUE /\ crashes' = crashes
        /\ up = TRUE /\ todo = <<>> /\ id < sequence /\ clock' = Stamp
    BY DEF OpenSession, Idle, Tick, IndexIInv, TypeOK
  <1>2. /\ Based(Store, promised) /\ Store.sequence = sequence
        /\ clock \in Nat /\ promised \in Promises
        /\ Lists(Store, promised) /\ Ahead(Store) /\ Even(Store)
    BY <1>1, IdleStore
  <1>3. clock' \in Nat /\ Stamp \in Nat
    BY <1>1, <1>2 DEF Stamp
  <1>4. AtMost(P, promised) /\ id \notin P.deleted
    <2> DEFINE gone == promised.deleted \ {id}
    <2>1. gone \subseteq promised.deleted /\ id \notin gone
      OBVIOUS
    <2>2. P = [promised EXCEPT !.deleted = gone]
      BY <1>2 DEF Promises
    <2> HIDE DEF gone, P
    <2>3. P \in Promises /\ P.kept = promised.kept /\ P.named = promised.named /\ P.deleted = gone
      BY <1>2, <2>1, <2>2 DEF Promises
    <2> QED
      BY <1>2, <2>1, <2>3 DEF AtMost
  <1> HIDE DEF P
  <1>5. Based(Store, P) /\ Lists(Store, P)
    BY <1>2, <1>4, LessKept
  <1>6. /\ Based(s, P) /\ Lists(s, P) /\ Ahead(s) /\ Even(s) /\ Opened(s, P) /\ s.meta.id = id
    BY <1>1, <1>2, <1>3, <1>4, <1>5, StoreOpened
  <1> HIDE DEF s
  <1>7. left = P
    BY <1>2, <1>6 DEF P, Again
  <1>8. Keeps(Now(s), P) /\ P \in Promises
    BY <1>6, BasedNow
  <1> QED
    BY <1>1, <1>3, <1>6, <1>7, <1>8, Served

\* A compaction writes the open session back under its name.
LEMMA CompactKeeps ==
    ASSUME SessionIndexAssumption, IndexIInv, Compact
    PROVE  IndexIInv'
  <1> DEFINE m == [meta EXCEPT !.updated = Stamp]
             a == [Store EXCEPT !.meta = m]
             s == PersistMeta(a)
  <1>1. /\ disk' = disk /\ up' = TRUE /\ crashes' = crashes
        /\ up = TRUE /\ todo = <<>> /\ clock' = Stamp
        /\ Serve(PersistMeta([Store EXCEPT !.meta.updated = Stamp]), promised, promised)
    BY DEF Compact, Idle, Tick, IndexIInv, TypeOK
  <1>2. /\ Based(Store, promised) /\ Store.index = index /\ Store.sequence = sequence
        /\ Store.meta = meta /\ Now(Store) = disk
        /\ index \in Seq(Meta) /\ sequence \in Nat /\ meta \in Meta
        /\ clock \in Nat /\ promised \in Promises
        /\ Lists(Store, promised) /\ Ahead(Store) /\ Even(Store) /\ Opened(Store, promised)
    BY <1>1, IdleStore
  <1>3. clock' \in Nat /\ Stamp \in Nat
    BY <1>1, <1>2 DEF Stamp
  <1>4. m \in Meta /\ m.id = meta.id /\ m.title = meta.title
    BY <1>2, <1>3 DEF Meta
  <1>5. [Store EXCEPT !.meta.updated = Stamp] = a
    BY <1>2 DEF Store
  <1> HIDE DEF m
  <1>6. a = [disks |-> Store.disks, index |-> index, sequence |-> sequence, meta |-> m]
    BY DEF Store
  <1> HIDE DEF a
  <1>7. /\ Based(a, promised) /\ Now(a) = disk
        /\ a.index = index /\ a.sequence = sequence /\ a.meta = m
    BY <1>2, <1>4, <1>6, StoreMade
  <1>8. Lists(a, promised) /\ Ahead(a) /\ Opened(a, promised)
    BY <1>2, <1>4, <1>7 DEF Lists, Ahead, Opened
  <1>9. /\ Based(s, promised) /\ Lists(s, promised) /\ Ahead(s) /\ Even(s) /\ Opened(s, promised)
    BY <1>7, <1>8, MetaPersisted
  <1>10. Serve(s, promised, promised)
    BY <1>1, <1>5
  <1> HIDE DEF s
  <1>11. Keeps(Now(s), promised)
    BY <1>9, BasedNow
  <1> QED
    BY <1>1, <1>2, <1>3, <1>9, <1>10, <1>11, Served

\* One turn more is owed.
LEMMA OwedIs ==
    ASSUME NEW P \in Promises, NEW id \in Ids, NEW turn \in Nat
    PROVE  LET Q == [P EXCEPT !.kept = @ \cup {<<id, turn>>}] IN
           /\ Q \in Promises /\ Q.kept = P.kept \cup {<<id, turn>>}
           /\ Q.deleted = P.deleted /\ Q.named = P.named
  <1> DEFINE kept == P.kept \cup {<<id, turn>>}
             Q == [P EXCEPT !.kept = kept]
  <1>1. kept \subseteq Ids \X Nat
    BY DEF Promises
  <1>2. kept = P.kept \cup {<<id, turn>>}
    OBVIOUS
  <1> HIDE DEF kept
  <1>3. Q \in Promises /\ Q.kept = kept /\ Q.deleted = P.deleted /\ Q.named = P.named
    BY <1>1 DEF Promises
  <1> QED
    BY <1>2, <1>3

\* A turn: its line is on the disk, and its session in index.json, before the answer.
LEMMA TurnKeeps ==
    ASSUME SessionIndexAssumption, IndexIInv, NEW noted \in BOOLEAN, Turn(noted)
    PROVE  IndexIInv'
  <1> DEFINE P == promised
             m == [meta EXCEPT !.updated = Stamp,
                               !.title = IF @ \in {"default", "blank"} THEN "text" ELSE @]
             id == meta.id
             from == IF noted THEN PersistMeta(Store) ELSE Store
             made == MakeDirectory(from, m.id)
             app == AppendLine(made, m.id, Stamp)
             a == [app EXCEPT !.meta = m]
             s == PersistMeta(a)
             then == [P EXCEPT !.kept = @ \cup {<<m.id, Stamp>>}]
  <1>1. /\ disk' = disk /\ up' = TRUE /\ crashes' = crashes
        /\ up = TRUE /\ todo = <<>> /\ clock' = Stamp
        /\ Serve(s, P, then)
    BY DEF Turn, Idle, Tick, IndexIInv, TypeOK
  <1>2. /\ Based(Store, P) /\ Store.index = index /\ Store.sequence = sequence
        /\ Store.meta = meta /\ Now(Store) = disk
        /\ index \in Seq(Meta) /\ sequence \in Nat /\ meta \in Meta
        /\ clock \in Nat /\ P \in Promises
        /\ Lists(Store, P) /\ Ahead(Store) /\ Even(Store) /\ Opened(Store, P)
    BY <1>1, IdleStore
  <1>3. clock' \in Nat /\ Stamp \in Nat
    BY <1>1, <1>2 DEF Stamp
  <1>4. m \in Meta /\ m.id = id /\ (meta.title = "user" => m.title = "user")
    <2> DEFINE old == meta
               title == IF old.title \in {"default", "blank"} THEN "text" ELSE old.title
    <2>1. old \in Meta /\ title \in {"default", "text", "name", "user", "blank"}
      BY <1>2 DEF Meta
    <2>2. old.title = "user" => title = "user"
      OBVIOUS
    <2>3. m = [old EXCEPT !.updated = Stamp, !.title = title]
      BY <1>2 DEF Meta
    <2> HIDE DEF title, old, m
    <2>4. m \in Meta /\ m.id = old.id /\ m.title = title
      BY <1>3, <2>1, <2>3 DEF Meta
    <2> QED
      BY <2>2, <2>4 DEF old
  <1>5. id \in Ids /\ id < sequence /\ id \notin P.deleted /\ (id \in P.named => meta.title = "user")
    <2>1. /\ sequence \in 1 .. MaxId + 1 /\ id \in 1 .. sequence - 1 /\ id \notin P.deleted
          /\ id \in P.named => meta.title = "user"
      BY <1>2 DEF Lists, Opened
    <2> HIDE DEF id
    <2> QED
      BY <1>2, <2>1 DEF Ids, SessionIndexAssumption
  <1> HIDE DEF m, id, then, P
  <1>6. /\ Based(from, P) /\ Lists(from, P) /\ Ahead(from) /\ Even(from) /\ Opened(from, P)
        /\ from.sequence = sequence /\ from.meta = meta
    <2>1. CASE noted
      <3> DEFINE t == PersistMeta(Store)
      <3>1. /\ Based(t, P) /\ Lists(t, P) /\ Ahead(t) /\ Even(t) /\ Opened(t, P)
            /\ t.sequence = Store.sequence /\ t.meta = Store.meta
        BY <1>2, MetaPersisted
      <3>2. from = t
        BY <2>1
      <3> HIDE DEF from, t
      <3> QED
        BY <1>2, <3>1, <3>2
    <2>2. CASE ~noted
      <3>1. from = Store
        BY <2>2
      <3> HIDE DEF from
      <3> QED
        BY <1>2, <3>1
    <2> QED
      BY <2>1, <2>2
  <1> HIDE DEF from
  <1>7. /\ Based(made, P)
        /\ made.index = from.index /\ made.sequence = from.sequence /\ made.meta = from.meta
        /\ Now(made).dirs = Now(from).dirs \cup {id} /\ Now(made).lines = Now(from).lines
        /\ Now(made).metas = Now(from).metas /\ Now(made).index = Now(from).index
    BY <1>4, <1>5, <1>6, DirectoryMade
  <1> HIDE DEF made
  <1>8. Used(Now(made)) = Used(Now(from))
    BY <1>7 DEF Used
  <1>9. /\ Based(app, P)
        /\ app.index = made.index /\ app.sequence = made.sequence /\ app.meta = made.meta
        /\ Stamp \in Now(app).lines[id]
        /\ Used(Now(app)) \subseteq Used(Now(made)) \cup {id}
    <2>1. Now(made).index.sessions # <<>> => id < Now(made).index.sequence
      BY <1>5, <1>6, <1>7 DEF Even
    <2>2. id \in Now(made).dirs
      BY <1>7
    <2> QED
      BY <1>3, <1>4, <1>5, <1>7, <2>1, <2>2, LineAppended
  <1> HIDE DEF app
  <1>10. app \in Stores /\ app.index \in Seq(Meta) /\ app.sequence \in Nat
    BY <1>9, BasedNow
  <1>11. a = [disks |-> app.disks, index |-> app.index, sequence |-> app.sequence, meta |-> m]
    BY <1>10, StoreFields
  <1> HIDE DEF a
  <1>12. /\ Based(a, P) /\ Now(a) = Now(app)
         /\ a.index = from.index /\ a.sequence = sequence /\ a.meta = m
    <2>1. /\ Based(a, P) /\ Now(a) = Now(app)
          /\ a.index = app.index /\ a.sequence = app.sequence /\ a.meta = m
      BY <1>4, <1>9, <1>10, <1>11, StoreMade
    <2> QED
      BY <1>6, <1>7, <1>9, <2>1
  <1>13. Lists(a, P)
    BY <1>6, <1>12 DEF Lists
  <1>14. Ahead(a)
    BY <1>5, <1>6, <1>8, <1>9, <1>12 DEF Ahead
  <1>15. Opened(a, P)
    <2>1. meta.id \in 1 .. sequence - 1
      BY <1>2 DEF Opened
    <2> QED
      BY <1>4, <1>5, <1>12, <2>1 DEF Opened, id
  <1>16. /\ Based(s, P) /\ Lists(s, P) /\ Ahead(s) /\ Even(s) /\ Opened(s, P)
         /\ Listed(s.index) = Listed(a.index) \cup {a.meta.id}
         /\ Now(s).lines = Now(a).lines /\ Now(s).index.sessions = s.index
    BY <1>12, <1>13, <1>14, <1>15, MetaPersisted
  <1> HIDE DEF s
  <1>17. Stamp \in Now(s).lines[id] /\ id \in Listed(s.index)
    BY <1>4, <1>9, <1>12, <1>16
  <1>18. /\ then \in Promises /\ then.kept = P.kept \cup {<<id, Stamp>>}
         /\ then.deleted = P.deleted /\ then.named = P.named
    <2>1. P \in Promises
      BY <1>2 DEF P
    <2> QED
      BY <1>3, <1>4, <1>5, <2>1, OwedIs DEF then
  <1>19. Keeps(Now(s), P)
    BY <1>16, BasedNow
  <1>20. Keeps(Now(s), then) /\ Lists(s, then) /\ Opened(s, then)
    <2>1. ListKeeps(s.index, then)
      BY <1>16, <1>18 DEF Lists, ListKeeps
    <2>2. \A turn \in then.kept : turn[2] \in Now(s).lines[turn[1]] /\ turn[1] \in Listed(s.index)
      <3>1. \A turn \in P.kept : turn[2] \in Now(s).lines[turn[1]] /\ turn[1] \in Listed(s.index)
        BY <1>16, <1>19 DEF Keeps, Lists
      <3> QED
        BY <1>17, <1>18, <3>1
    <2>3. Keeps(Now(s), then)
      BY <1>16, <1>18, <1>19, <2>1, <2>2 DEF Keeps
    <2>4. Lists(s, then)
      BY <1>16, <2>1, <2>2 DEF Lists
    <2>5. Opened(s, then)
      BY <1>16, <1>18 DEF Opened
    <2> QED
      BY <2>3, <2>4, <2>5
  <1> QED
    BY <1>1, <1>3, <1>16, <1>18, <1>20, Served

\* What is owed while a session is renamed is owed before, and no name the new one
\* takes away.
LEMMA RenamingIs ==
    ASSUME promised \in Promises, NEW id \in Ids, NEW title
    PROVE  LET Q == Renaming(id, title) IN
           /\ AtMost(Q, promised)
           /\ title = "user" \/ id \notin Q.named
  <1> DEFINE named == promised.named \ {id}
             Q == [promised EXCEPT !.named = named]
  <1>1. named \subseteq promised.named /\ id \notin named
    OBVIOUS
  <1> HIDE DEF named
  <1>2. Q \in Promises /\ Q.kept = promised.kept /\ Q.deleted = promised.deleted /\ Q.named = named
    BY <1>1 DEF Promises
  <1> HIDE DEF Q
  <1>3. AtMost(Q, promised) /\ AtMost(promised, promised)
    BY <1>1, <1>2 DEF AtMost
  <1>4. Renaming(id, title) = IF title = "user" THEN promised ELSE Q
    BY DEF Renaming, Q, named
  <1> QED
    BY <1>1, <1>2, <1>3, <1>4

\* rename: the name is in the list, meta.json and the open session.
LEMMA RenameKeeps ==
    ASSUME SessionIndexAssumption, IndexIInv, NEW id \in Ids, NEW title \in {"user", "blank"},
           RenameSession(id, title)
    PROVE  IndexIInv'
  <1> DEFINE P == promised
             Q == Renaming(id, title)
             s == RenameStore(Store, id, title, Stamp)
             more == [P EXCEPT !.named = @ \cup {id}]
             then == Named(id, title)
  <1>1. /\ disk' = disk /\ up' = TRUE /\ crashes' = crashes
        /\ up = TRUE /\ todo = <<>> /\ clock' = Stamp /\ id \in Listed(index)
        /\ Serve(s, Q, then)
    BY DEF RenameSession, Idle, Tick, IndexIInv, TypeOK
  <1>2. /\ Based(Store, P) /\ Store.index = index /\ Now(Store) = disk
        /\ clock \in Nat /\ P \in Promises
        /\ Lists(Store, P) /\ Ahead(Store) /\ Even(Store) /\ Opened(Store, P)
    BY <1>1, IdleStore
  <1>3. clock' \in Nat /\ Stamp \in Nat
    BY <1>1, <1>2 DEF Stamp
  <1>4. /\ more \in Promises /\ more.kept = P.kept /\ more.deleted = P.deleted
        /\ more.named = P.named \cup {id}
    <2> DEFINE named == P.named \cup {id}
    <2>1. named \subseteq Ids
      BY <1>2 DEF Promises
    <2>2. more = [P EXCEPT !.named = named]
      BY <1>2 DEF Promises
    <2>3. named = P.named \cup {id}
      OBVIOUS
    <2> HIDE DEF named, more
    <2>4. /\ more \in Promises /\ more.kept = P.kept /\ more.deleted = P.deleted
          /\ more.named = named
      BY <1>2, <2>1, <2>2 DEF Promises
    <2> QED
      BY <2>3, <2>4
  <1>8. then = IF title = "user" /\ id \in disk.dirs THEN more ELSE Q
    BY DEF Named
  <1>9. AtMost(Q, P) /\ (title = "user" \/ id \notin Q.named) /\ (title = "user" => Q = P)
    BY <1>2, RenamingIs DEF Renaming
  <1> HIDE DEF P, Q, more, then
  <1>10. Based(Store, Q) /\ Lists(Store, Q) /\ Opened(Store, Q) /\ Q \in Promises
    BY <1>2, <1>9, LessKept DEF AtMost
  <1>5. /\ Based(s, Q) /\ Lists(s, Q) /\ Ahead(s) /\ Even(s) /\ Opened(s, Q)
        /\ \A e \in Entries(s.index) : e.id = id => e.title = title
        /\ s.meta.id = id => s.meta.title = title
        /\ id \in disk.dirs => Now(s).metas[id].title = title
        /\ Now(s).index.sessions = s.index
    BY <1>1, <1>2, <1>3, <1>9, <1>10, StoreRenamed
  <1> HIDE DEF s
  <1>6. Keeps(Now(s), Q)
    BY <1>5, BasedNow
  <1>7. then \in Promises /\ Keeps(Now(s), then) /\ Lists(s, then) /\ Opened(s, then)
    <2>1. CASE ~(title = "user" /\ id \in disk.dirs)
      BY <1>5, <1>6, <1>8, <1>10, <2>1
    <2>2. CASE title = "user" /\ id \in disk.dirs
      <3>1. then = more /\ Q = P
        BY <1>8, <1>9, <2>2
      <3>2. ListKeeps(s.index, more)
        BY <1>4, <1>5, <2>2, <3>1 DEF Lists, ListKeeps
      <3>3. Keeps(Now(s), more)
        <4>1. \A k \in more.named : Now(s).metas[k].title = "user"
          BY <1>4, <1>5, <1>6, <2>2, <3>1 DEF Keeps
        <4> QED
          BY <1>4, <1>5, <1>6, <3>1, <3>2, <4>1 DEF Keeps
      <3>4. Lists(s, more)
        BY <1>4, <1>5, <3>1, <3>2 DEF Lists
      <3>5. Opened(s, more)
        BY <1>4, <1>5, <2>2, <3>1 DEF Opened
      <3> QED
        BY <1>4, <3>1, <3>3, <3>4, <3>5
    <2> QED
      BY <2>1, <2>2
  <1> QED
    BY <1>1, <1>3, <1>5, <1>7, Served

\* More sessions are deleted.
LEMMA DeletedIs ==
    ASSUME NEW P \in Promises, NEW ids, ids \subseteq Ids
    PROVE  LET Q == [P EXCEPT !.deleted = @ \cup ids] IN
           /\ Q \in Promises /\ Q.deleted = P.deleted \cup ids
           /\ Q.kept = P.kept /\ Q.named = P.named
  <1> DEFINE gone == P.deleted \cup ids
             Q == [P EXCEPT !.deleted = gone]
  <1>1. gone \subseteq Ids
    BY DEF Promises
  <1>2. gone = P.deleted \cup ids
    OBVIOUS
  <1> HIDE DEF gone
  <1>3. Q \in Promises /\ Q.deleted = gone /\ Q.kept = P.kept /\ Q.named = P.named
    BY <1>1 DEF Promises
  <1> QED
    BY <1>2, <1>3

\* A store in which the deleted sessions have no directory and no entry, on the disk
\* or in memory, keeps that they are deleted.
LEMMA DeletionKept ==
    ASSUME NEW P, NEW s, Based(s, P), Lists(s, P), Opened(s, P), NEW ids, ids \subseteq Ids,
           Now(s).dirs \cap ids = {}, Listed(s.index) \cap ids = {}, s.meta.id \notin ids,
           NEW sessions \in Seq(Meta), Now(s).index.sessions = sessions,
           Listed(sessions) \cap ids = {}
    PROVE  LET Q == [P EXCEPT !.deleted = @ \cup ids] IN
           Q \in Promises /\ Keeps(Now(s), Q) /\ Lists(s, Q) /\ Opened(s, Q)
  <1> DEFINE Q == [P EXCEPT !.deleted = @ \cup ids]
  <1>1. P \in Promises /\ Keeps(Now(s), P) /\ s.index \in Seq(Meta)
    BY BasedNow
  <1>2. /\ Q \in Promises /\ Q.deleted = P.deleted \cup ids
        /\ Q.kept = P.kept /\ Q.named = P.named
    BY <1>1, DeletedIs
  <1> HIDE DEF Q
  <1>3. \A e \in Entries(s.index) : e.id \notin ids
    BY <1>1, ListedAre
  <1>4. \A e \in Entries(sessions) : e.id \notin ids
    BY ListedAre
  <1>5. ListKeeps(s.index, Q)
    BY <1>2, <1>3 DEF Lists, ListKeeps
  <1>6. ListKeeps(sessions, Q)
    BY <1>1, <1>2, <1>4 DEF Keeps, ListKeeps
  <1>7. Keeps(Now(s), Q)
    <2>1. Q.deleted \cap Now(s).dirs = {}
      BY <1>1, <1>2 DEF Keeps
    <2> QED
      BY <1>1, <1>2, <1>6, <2>1 DEF Keeps
  <1>8. Lists(s, Q) /\ Opened(s, Q)
    BY <1>2, <1>5 DEF Lists, Opened
  <1> QED
    BY <1>2, <1>7, <1>8 DEF Q

\* Deleting a session, then opening the first of the list or a new one.
LEMMA DeleteKeeps ==
    ASSUME SessionIndexAssumption, IndexIInv, NEW id \in Ids, DeleteSession(id)
    PROVE  IndexIInv'
  <1> DEFINE r == RemoveStore(Store, id)
             s == OpenSomething(r, Stamp)
             before == Without(promised, {id})
             left == IF s.sequence > sequence THEN Again(before, s) ELSE before
             gone == {id} \ Listed(s.index)
             then == [left EXCEPT !.deleted = @ \cup gone]
  <1>1. /\ disk' = disk /\ up' = TRUE /\ crashes' = crashes
        /\ up = TRUE /\ todo = <<>> /\ clock' = Stamp /\ id < sequence /\ sequence <= MaxId
        /\ Serve(s, left, then)
    BY DEF DeleteSession, Idle, Tick, IndexIInv, TypeOK
  <1>2. /\ Based(Store, promised) /\ Store.index = index /\ Store.sequence = sequence
        /\ Store.meta = meta /\ Now(Store) = disk
        /\ index \in Seq(Meta) /\ sequence \in Nat /\ meta \in Meta
        /\ clock \in Nat /\ promised \in Promises
        /\ Lists(Store, promised) /\ Ahead(Store) /\ Opened(Store, promised)
    BY <1>1, IdleStore
  <1>3. clock' \in Nat /\ Stamp \in Nat /\ sequence \in 1 .. MaxId
    BY <1>1, <1>2 DEF Lists, SessionIndexAssumption, Stamp
  <1>4. AtMost(before, promised) /\ Free(id, before)
    BY <1>2, WithoutIs
  <1> HIDE DEF before
  <1>5. AtMost(left, before) /\ left.kept = before.kept /\ left.named = before.named
    <2>1. before \in Promises
      BY <1>4 DEF AtMost
    <2> HIDE DEF s
    <2>2. AtMost(Again(before, s), before) /\ Again(before, s).kept = before.kept
          /\ Again(before, s).named = before.named
      BY <2>1, AgainIs
    <2>3. AtMost(before, before)
      BY <2>1 DEF AtMost
    <2> QED
      BY <2>2, <2>3
  <1>6. s.sequence > sequence => s.meta.id \notin left.deleted
    <2>1. before \in Promises
      BY <1>4 DEF AtMost
    <2> HIDE DEF s
    <2>2. Again(before, s).deleted = before.deleted \ {s.meta.id}
      BY <2>1, AgainIs
    <2> QED
      BY <2>2
  <1> HIDE DEF left
  <1>7. AtMost(left, promised) /\ Free(id, left)
    BY <1>4, <1>5 DEF AtMost, Free
  <1>8. Based(Store, left) /\ Lists(Store, left) /\ Opened(Store, left)
    BY <1>2, <1>7, LessKept
  <1>9. /\ Based(r, left) /\ Lists(r, left) /\ Ahead(r) /\ Even(r)
        /\ r.index = Others(index, id) /\ r.sequence = sequence
        /\ r.meta = IF meta.id = id THEN NoMeta ELSE meta
        /\ Now(r).dirs = disk.dirs \ {id} /\ Now(r).index.sessions = r.index
    <2>1. /\ Based(r, left) /\ Lists(r, left) /\ Ahead(r) /\ Even(r)
          /\ r.index = Others(Store.index, id) /\ r.sequence = Store.sequence
          /\ r.meta = IF Store.meta.id = id THEN NoMeta ELSE Store.meta
          /\ Now(r).dirs = Now(Store).dirs \ {id} /\ Now(r).index.sessions = r.index
      BY <1>2, <1>7, <1>8, StoreRemoved
    <2> HIDE DEF r
    <2> QED
      BY <1>2, <2>1
  <1> HIDE DEF r
  <1>10. r.meta.id # 0 => r.meta.id # id /\ Opened(r, left)
    <2>1. NoMeta.id = 0
      BY DEF NoMeta
    <2> QED
      BY <1>2, <1>8, <1>9, <2>1 DEF Opened
  <1>11. r.meta.id = 0 /\ r.index = <<>> => r.sequence \in 1 .. MaxId /\ r.sequence \notin left.deleted
    <2> SUFFICES ASSUME r.meta.id = 0, r.index = <<>>
                 PROVE  r.sequence \notin left.deleted
      BY <1>3, <1>9
    <2> DEFINE t == Create(r, Stamp)
    <2>1. s = t
      BY DEF OpenSomething
    <2>2. ListOK(r.index, r.sequence) /\ r.sequence \in 1 .. MaxId
      BY <1>3, <1>9 DEF Lists
    <2>3. t.sequence = r.sequence + 1 /\ t.meta.id = r.sequence
      BY <1>3, <1>9, <2>2, CreatedList
    <2> HIDE DEF t, s
    <2>4. s.sequence > sequence
      BY <1>2, <1>9, <2>1, <2>3
    <2> QED
      BY <1>6, <2>1, <2>3, <2>4
  <1>12. /\ Based(s, left) /\ Lists(s, left) /\ Ahead(s) /\ Even(s) /\ Opened(s, left)
         /\ s.meta.id = r.meta.id \/ s.meta.id \in Listed(r.index) \/ s.meta.id = r.sequence
         /\ Grown(s, r, s.meta.id)
         /\ Now(s).index.sessions = Now(r).index.sessions \/ Now(s).index.sessions = s.index
    <2>1. Based(r, left) /\ Lists(r, left) /\ Ahead(r) /\ Even(r) /\ Stamp \in Nat
      BY <1>3, <1>9
    <2>2. r.meta.id # 0 => Opened(r, left)
      BY <1>10
    <2> QED
      BY <1>11, <2>1, <2>2, SomethingOpened
  <1> HIDE DEF s
  <1>13. id \notin Listed(r.index) /\ r.index \in Seq(Meta)
    <2>1. /\ Entries(r.index) = {e \in Entries(index) : e.id # id} /\ r.index \in Seq(Meta)
      BY <1>2, <1>9, OtherList
    <2>2. \A k \in Listed(r.index) : \E e \in Entries(r.index) : e.id = k
      BY <2>1, ListedAre
    <2> QED
      BY <2>1, <2>2
  <1>14. s.meta.id # id
    <2>1. s.meta.id \in 1 .. s.sequence - 1
      BY <1>12 DEF Opened
    <2>2. s.meta.id # 0
      BY <2>1
    <2>3. id # sequence
      BY <1>1, <1>2 DEF Ids
    <2> QED
      BY <1>9, <1>10, <1>12, <1>13, <2>2, <2>3
  <1>15. Keeps(Now(s), left) /\ left \in Promises /\ s.index \in Seq(Meta)
    BY <1>12, BasedNow
  <1>16. then \in Promises /\ Keeps(Now(s), then) /\ Lists(s, then) /\ Opened(s, then)
    <2> DEFINE sessions == Now(s).index.sessions
    <2>1. gone \subseteq Ids /\ gone \subseteq {id}
      OBVIOUS
    <2>2. id \notin Now(s).dirs /\ id \notin Listed(s.index) /\ id \notin Listed(sessions)
      BY <1>9, <1>12, <1>13, <1>14 DEF Grown
    <2>3. sessions \in Seq(Meta)
      BY <1>9, <1>12, <1>13, <1>15
    <2> HIDE DEF gone
    <2>4. Now(s).dirs \cap gone = {} /\ Listed(s.index) \cap gone = {} /\ s.meta.id \notin gone
          /\ Listed(sessions) \cap gone = {}
      BY <1>14, <2>1, <2>2
    <2> QED
      BY <1>12, <2>1, <2>3, <2>4, DeletionKept
  <1> HIDE DEF then
  <1> QED
    BY <1>1, <1>3, <1>12, <1>16, Served

\* Deleting all of them, then a new one under an id that was never given.
LEMMA DeleteAllKeeps ==
    ASSUME SessionIndexAssumption, IndexIInv, DeleteAll
    PROVE  IndexIInv'
  <1> DEFINE r == AllRemoved
             s == Create(r, Stamp)
             gone == Listed(index)
             before == Without(promised, gone)
             left == Again(before, s)
             then == [left EXCEPT !.deleted = @ \cup gone]
  <1>1. /\ disk' = disk /\ up' = TRUE /\ crashes' = crashes
        /\ up = TRUE /\ todo = <<>> /\ clock' = Stamp /\ sequence <= MaxId
        /\ Serve(s, left, then)
    BY DEF DeleteAll, Idle, Tick, IndexIInv, TypeOK
  <1>2. /\ Based(Store, promised) /\ Store.index = index /\ Store.sequence = sequence
        /\ index \in Seq(Meta) /\ sequence \in Nat
        /\ clock \in Nat /\ promised \in Promises
        /\ Lists(Store, promised) /\ Ahead(Store)
    BY <1>1, IdleStore
  <1>3. clock' \in Nat /\ Stamp \in Nat /\ sequence \in 1 .. MaxId
    BY <1>1, <1>2 DEF Lists, SessionIndexAssumption, Stamp
  <1>4. gone \subseteq Ids /\ \A id \in gone : id < sequence
    <2>1. \A id \in Listed(index) : \E e \in Entries(index) : e.id = id
      BY <1>2, ListedAre
    <2>2. \A e \in Entries(index) : e.id \in Ids /\ e.id < sequence
      BY <1>2 DEF Lists, ListOK
    <2> QED
      BY <2>1, <2>2
  <1>5. AtMost(before, promised) /\ \A id \in gone : Free(id, before)
    <2> HIDE DEF gone
    <2> QED
      BY <1>2, WithoutIs
  <1> HIDE DEF before
  <1>6. /\ AtMost(left, before) /\ left.kept = before.kept /\ left.named = before.named
        /\ left.deleted = before.deleted \ {s.meta.id}
    <2>1. before \in Promises
      BY <1>5 DEF AtMost
    <2> HIDE DEF s
    <2> QED
      BY <2>1, AgainIs
  <1> HIDE DEF left
  <1>7. AtMost(left, promised) /\ \A id \in gone : Free(id, left)
    BY <1>5, <1>6 DEF AtMost, Free
  <1>8. Based(Store, left) /\ Lists(Store, left)
    BY <1>2, <1>7, LessKept
  <1>9. /\ Based(r, left) /\ Lists(r, left) /\ Ahead(r)
        /\ r.index = <<>> /\ r.sequence = sequence
        /\ Now(r).dirs \cap gone = {}
    BY <1>2, <1>7, <1>8, AllRemovedSafely
  <1> HIDE DEF r
  <1>10. /\ Entries(r.index) = {} /\ Listed(r.index) = {}
         /\ ListOK(r.index, r.sequence) /\ ListKeeps(r.index, left)
         /\ r.sequence \in 1 .. MaxId
    BY <1>3, <1>9 DEF Entries, Listed, Lists
  <1>11. s.meta.id = sequence
    BY <1>3, <1>9, <1>10, CreatedList
  <1>12. sequence \notin left.deleted
    BY <1>6, <1>11
  <1>13. /\ \A turn \in left.kept : turn[1] \in Listed(Remaining(r, Stamp))
         /\ \A e \in Entries(r.index) : e.id \in Listed(Remaining(r, Stamp)) \/ Free(e.id, left)
    BY <1>9, <1>10 DEF Lists
  <1>14. /\ Based(s, left) /\ Lists(s, left) /\ Ahead(s) /\ Even(s) /\ Opened(s, left)
         /\ Grown(s, r, r.sequence) /\ Now(s).index.sessions = s.index
    <2>1. Based(r, left) /\ Ahead(r) /\ Stamp \in Nat /\ r.sequence \in 1 .. MaxId
      BY <1>3, <1>9, <1>10
    <2>2. ListOK(r.index, r.sequence) /\ ListKeeps(r.index, left) /\ r.sequence \notin left.deleted
      BY <1>9, <1>10, <1>12
    <2> QED
      BY <1>13, <2>1, <2>2, Created
  <1> HIDE DEF s
  <1>15. s.index \in Seq(Meta)
    BY <1>14, BasedNow
  <1>16. sequence \notin gone
    BY <1>2, <1>4 DEF Ids
  <1>17. then \in Promises /\ Keeps(Now(s), then) /\ Lists(s, then) /\ Opened(s, then)
    <2> DEFINE sessions == s.index
    <2>1. Now(s).dirs \cap gone = {} /\ Listed(s.index) \cap gone = {} /\ s.meta.id \notin gone
      BY <1>9, <1>10, <1>11, <1>14, <1>16 DEF Grown
    <2> HIDE DEF gone
    <2>2. sessions \in Seq(Meta) /\ Now(s).index.sessions = sessions /\ Listed(sessions) \cap gone = {}
      BY <1>14, <1>15, <2>1
    <2> HIDE DEF sessions
    <2> QED
      BY <1>4, <1>14, <2>1, <2>2, DeletionKept
  <1> HIDE DEF then
  <1> QED
    BY <1>1, <1>3, <1>14, <1>17, Served

\* A start loads or rebuilds the list, then opens the first of it or a new one.
LEMMA StartKeeps ==
    ASSUME SessionIndexAssumption, IndexIInv, Start
    PROVE  IndexIInv'
  <1> DEFINE loaded == Load(Stamp)
             s == OpenSomething(loaded, Stamp)
             known == IF loaded.index = <<>> THEN Again(promised, s) ELSE promised
  <1>1. /\ disk' = disk /\ up' = TRUE /\ crashes' = crashes
        /\ todo = <<>> /\ clock' = Stamp
        /\ loaded.index = <<>> => loaded.sequence <= MaxId
        /\ Serve(s, known, known)
    BY DEF Start, Tick, IndexIInv, TypeOK
  <1>2. /\ Based(Store, promised) /\ clock \in Nat /\ promised \in Promises
    BY <1>1, IdleStore
  <1>3. clock' \in Nat /\ Stamp \in Nat
    BY <1>1, <1>2 DEF Stamp
  <1>4. AtMost(known, promised) /\ (loaded.index = <<>> => s.meta.id \notin known.deleted)
    <2> HIDE DEF s, loaded
    <2>1. /\ AtMost(Again(promised, s), promised)
          /\ Again(promised, s).deleted = promised.deleted \ {s.meta.id}
      BY <1>2, AgainIs
    <2>2. AtMost(promised, promised)
      BY <1>2 DEF AtMost
    <2> QED
      BY <2>1, <2>2
  <1> HIDE DEF known
  <1>5. Based(Store, known)
    BY <1>2, <1>4, LessKept
  <1>6. /\ Based(loaded, known) /\ Lists(loaded, known) /\ Ahead(loaded) /\ Even(loaded)
        /\ loaded.meta.id = 0
    BY <1>1, <1>3, <1>5, Loaded
  <1> HIDE DEF loaded
  <1>7. loaded.index = <<>> => loaded.sequence \in 1 .. MaxId /\ loaded.sequence \notin known.deleted
    <2> SUFFICES ASSUME loaded.index = <<>>
                 PROVE  loaded.sequence \in 1 .. MaxId /\ loaded.sequence \notin known.deleted
      OBVIOUS
    <2>1. loaded.sequence \in 1 .. MaxId /\ ListOK(loaded.index, loaded.sequence)
      BY <1>1, <1>6 DEF Lists, SessionIndexAssumption
    <2> DEFINE t == Create(loaded, Stamp)
    <2>2. s = t
      BY <1>6 DEF OpenSomething
    <2>3. t.meta.id = loaded.sequence
      BY <1>3, <1>6, <2>1, CreatedList
    <2> HIDE DEF t, s
    <2> QED
      BY <1>4, <2>1, <2>2, <2>3
  <1>8. Based(s, known) /\ Lists(s, known) /\ Ahead(s) /\ Even(s) /\ Opened(s, known)
    BY <1>3, <1>6, <1>7, SomethingOpened
  <1> HIDE DEF s
  <1>9. Keeps(Now(s), known) /\ known \in Promises
    BY <1>8, BasedNow
  <1> QED
    BY <1>1, <1>3, <1>8, <1>9, Served

\* The states of the disk of the memory: the disk, and what it still has to reach.
LEMMA MemoryIs ==
    ASSUME IndexIInv
    PROVE  /\ disk \in Disk /\ todo \in Seq(Disk)
           /\ Memory.disks \in Seq(Disk) /\ Len(Memory.disks) = Len(todo) + 1
           /\ Memory.disks[1] = disk
           /\ \A k \in 1 .. Len(todo) : Memory.disks[k + 1] = todo[k]
           /\ Sound(disk) /\ Keeps(disk, promised)
           /\ \A k \in 1 .. Len(todo) : Sound(todo[k]) /\ Keeps(todo[k], promised)
           /\ Now(Memory) = IF todo = <<>> THEN disk ELSE todo[Len(todo)]
           /\ Keeps(Now(Memory), promise)
  <1> DEFINE one == <<disk>>
             all == one \o todo
  <1>1. disk \in Disk /\ todo \in Seq(Disk) /\ Len(todo) \in Nat
    BY DEF IndexIInv, TypeOK
  <1>2. one \in Seq(Disk) /\ Len(one) = 1 /\ one[1] = disk
    BY <1>1
  <1>3. Memory.disks = all
    BY DEF Memory
  <1> HIDE DEF one
  <1>4. /\ all \in Seq(Disk) /\ Len(all) = Len(one) + Len(todo)
        /\ \A i \in 1 .. Len(one) : all[i] = one[i]
        /\ \A i \in Len(one) + 1 .. Len(all) : all[i] = todo[i - Len(one)]
    BY <1>1, <1>2, Concat
  <1> HIDE DEF all
  <1>5. Len(all) = Len(todo) + 1 /\ all[1] = disk /\ DOMAIN all = 1 .. Len(all)
    BY <1>1, <1>2, <1>4
  <1>6. ASSUME NEW k \in 1 .. Len(todo)
        PROVE  all[k + 1] = todo[k] /\ k + 1 \in DOMAIN all
    <2>1. k + 1 \in Len(one) + 1 .. Len(all) /\ (k + 1) - Len(one) = k
      BY <1>1, <1>2, <1>4
    <2>2. all[k + 1] = todo[k]
      BY <1>4, <2>1
    <2> QED
      BY <1>1, <1>5, <2>2
  <1>7. \A k \in DOMAIN all : Sound(all[k]) /\ Keeps(all[k], promised)
    BY <1>3 DEF IndexIInv
  <1>8. 1 \in DOMAIN all
    BY <1>1, <1>5
  <1>9. Sound(disk) /\ Keeps(disk, promised)
    BY <1>5, <1>7, <1>8
  <1>10. \A k \in 1 .. Len(todo) : Sound(todo[k]) /\ Keeps(todo[k], promised)
    BY <1>6, <1>7
  <1>11. Now(Memory) = all[Len(all)]
    BY <1>3 DEF Now
  <1>12. Now(Memory) = IF todo = <<>> THEN disk ELSE todo[Len(todo)]
    <2>1. CASE todo = <<>>
      <3>1. Len(all) = 1
        BY <1>5, <2>1
      <3> QED
        BY <1>5, <1>11, <2>1, <3>1
    <2>2. CASE todo # <<>>
      <3>1. Len(todo) \in 1 .. Len(todo)
        BY <1>1, <2>2
      <3>2. all[Len(todo) + 1] = todo[Len(todo)]
        BY <1>6, <3>1
      <3> QED
        BY <1>5, <1>11, <2>2, <3>2
    <2> QED
      BY <2>1, <2>2
  <1>13. Keeps(Now(Memory), promise)
    BY DEF IndexIInv
  <1> QED
    BY <1>1, <1>3, <1>4, <1>5, <1>6, <1>9, <1>10, <1>12, <1>13

\* A file operation brings the disk to the next of its states.
LEMMA FlushKeeps ==
    ASSUME IndexIInv, Flush
    PROVE  IndexIInv'
  <1> DEFINE rest == Tail(todo)
  <1>1. /\ up = TRUE /\ todo # <<>> /\ disk' = Head(todo) /\ todo' = rest
        /\ promised' = IF todo' = <<>> THEN promise ELSE promised
        /\ up' = up /\ index' = index /\ sequence' = sequence /\ meta' = meta
        /\ clock' = clock /\ crashes' = crashes /\ promise' = promise
    BY DEF Flush, IndexIInv, TypeOK
  <1>2. TypeOK
    BY DEF IndexIInv
  <1>3. todo \in Seq(Disk) /\ Len(todo) \in Nat /\ Len(todo) >= 1 /\ Head(todo) = todo[1]
    BY <1>1, <1>2 DEF TypeOK
  <1>4. /\ rest \in Seq(Disk) /\ Len(rest) = Len(todo) - 1
        /\ \A k \in 1 .. Len(rest) : rest[k] = todo[k + 1]
    BY <1>1, <1>3
  <1> HIDE DEF rest
  <1>5. todo[1] \in Disk
    BY <1>3
  <1>6. TypeOK'
    BY <1>1, <1>2, <1>3, <1>4, <1>5 DEF TypeOK
  <1> DEFINE one == <<todo[1]>>
             all == one \o rest
             P == promised'
  <1>7. one \in Seq(Disk) /\ Len(one) = 1 /\ one[1] = todo[1]
    BY <1>5
  <1>8. Memory' = [disks |-> all, index |-> index, sequence |-> sequence, meta |-> meta]
    BY <1>1, <1>3 DEF Memory
  <1> HIDE DEF one
  <1>9. /\ all \in Seq(Disk) /\ Len(all) = Len(one) + Len(rest)
        /\ \A i \in 1 .. Len(one) : all[i] = one[i]
        /\ \A i \in Len(one) + 1 .. Len(all) : all[i] = rest[i - Len(one)]
    <2>1. one \in Seq(Disk) /\ rest \in Seq(Disk)
      BY <1>4, <1>7
    <2> QED
      BY <2>1, Concat
  <1> HIDE DEF all, P
  <1>10. Len(all) = Len(todo) /\ DOMAIN all = 1 .. Len(todo)
    BY <1>3, <1>4, <1>7, <1>9
  <1>11. ASSUME NEW k \in 1 .. Len(todo)
         PROVE  all[k] = todo[k]
    <2>1. CASE k = 1
      BY <1>7, <1>9, <2>1
    <2>2. CASE k # 1
      <3>1. k - 1 \in 1 .. Len(rest) /\ k \in Len(one) + 1 .. Len(all) /\ k - Len(one) = k - 1
            /\ (k - 1) + 1 = k
        BY <1>3, <1>4, <1>7, <1>10, <2>2
      <3>2. all[k] = rest[k - 1]
        BY <1>9, <3>1
      <3> QED
        BY <1>4, <3>1, <3>2
    <2> QED
      BY <2>1, <2>2
  <1>12. /\ \A k \in 1 .. Len(todo) : Sound(todo[k]) /\ Keeps(todo[k], promised)
         /\ Now(Memory) = todo[Len(todo)] /\ Keeps(todo[Len(todo)], promise)
    BY <1>1, MemoryIs
  <1>13. \A k \in DOMAIN all : Sound(all[k]) /\ Keeps(all[k], P)
    <2>1. CASE rest = <<>>
      <3>1. Len(todo) = 1 /\ P = promise
        BY <1>1, <1>3, <1>4, <2>1 DEF P
      <3>2. \A k \in 1 .. Len(todo) : k = Len(todo)
        BY <3>1
      <3> QED
        BY <1>10, <1>11, <1>12, <3>1, <3>2
    <2>2. CASE rest # <<>>
      <3>1. P = promised
        BY <1>1, <2>2 DEF P
      <3> QED
        BY <1>10, <1>11, <1>12, <3>1
    <2> QED
      BY <2>1, <2>2
  <1> DEFINE s == Memory'
  <1>14. /\ s.disks = all /\ s.index = index /\ s.sequence = sequence /\ s.meta = meta
    BY <1>8
  <1>15. Memory.index = index /\ Memory.sequence = sequence /\ Memory.meta = meta
    BY DEF Memory
  <1>16. Now(s) = Now(Memory)
    <2>1. Len(todo) \in 1 .. Len(todo)
      BY <1>3
    <2>2. all[Len(all)] = todo[Len(todo)]
      BY <1>10, <1>11, <2>1
    <2> HIDE DEF s
    <2> QED
      BY <1>12, <1>14, <2>2 DEF Now
  <1>17. Lists(Memory, promise) /\ Ahead(Memory) /\ Even(Memory) /\ Opened(Memory, promise)
    BY <1>1 DEF IndexIInv
  <1> HIDE DEF s
  <1>18. Lists(s, promise) /\ Ahead(s) /\ Even(s) /\ Opened(s, promise)
    BY <1>14, <1>15, <1>16, <1>17 DEF Lists, Ahead, Even, Opened
  <1>19. Keeps(Now(s), promise)
    BY <1>12, <1>16
  <1>20. \A k \in DOMAIN s.disks : Sound(s.disks[k]) /\ Keeps(s.disks[k], P)
    BY <1>13, <1>14
  <1>21. todo' = <<>> => promised' = promise'
    BY <1>1
  <1> QED
    BY <1>1, <1>6, <1>18, <1>19, <1>20, <1>21 DEF IndexIInv, s, P

\* Without a process only the disk is left, and what held until the crash.
LEMMA DownKeeps ==
    ASSUME IndexIInv, TypeOK', up' = FALSE, todo' = <<>>, index' = <<>>,
           sequence' = 1, promise' = promised', Sound(disk'), Keeps(disk', promised')
    PROVE  IndexIInv'
  <1> DEFINE s == Memory'
             d == disk'
  <1>1. s.disks = <<d>>
    <2>1. Memory' = Store'
      BY DEF Memory, Store
    <2> QED
      BY <2>1 DEF Store
  <1>2. Now(s) = d
    <2> HIDE DEF s
    <2> QED
      BY <1>1 DEF Now
  <1>3. \A k \in DOMAIN s.disks : Sound(s.disks[k]) /\ Keeps(s.disks[k], promised')
    <2> HIDE DEF s
    <2>1. \A k \in DOMAIN s.disks : s.disks[k] = d
      BY <1>1
    <2> QED
      BY <2>1
  <1>4. Keeps(Now(s), promise')
    <2> HIDE DEF s
    <2> QED
      BY <1>2
  <1> QED
    BY <1>3, <1>4 DEF IndexIInv

\* A crash stops at a state of the disk that keeps what holds now.
LEMMA CrashKeeps ==
    ASSUME IndexIInv, Crash
    PROVE  IndexIInv'
  <1>1. /\ crashes' = crashes + 1 /\ up' = FALSE /\ todo' = <<>> /\ index' = <<>> /\ sequence' = 1
        /\ meta' = NoMeta /\ promise' = promised /\ disk' = disk /\ clock' = clock
        /\ promised' = promised
    BY DEF Crash
  <1>2. TypeOK'
    <2>1. TypeOK
      BY DEF IndexIInv
    <2>2. todo' \in Seq(Disk) /\ index' \in Seq(Meta)
      BY <1>1
    <2>3. meta' \in Meta
      BY <1>1 DEF NoMeta, Meta
    <2>4. sequence' \in Nat /\ clock' \in Nat /\ crashes' \in Nat
      BY <1>1, <2>1 DEF TypeOK
    <2>5. up' \in BOOLEAN
      BY <1>1
    <2>6. disk' \in Disk /\ promise' \in Promises /\ promised' \in Promises
      BY <1>1, <2>1 DEF TypeOK
    <2> QED
      BY <2>2, <2>3, <2>4, <2>5, <2>6 DEF TypeOK
  <1>3. Sound(disk') /\ Keeps(disk', promised')
    BY <1>1, MemoryIs
  <1> QED
    BY <1>1, <1>2, <1>3, DownKeeps

\* A list that is lost is rebuilt by the next start.
LEMMA LoseIndexKeeps ==
    ASSUME SessionIndexAssumption, IndexIInv, LoseIndex
    PROVE  IndexIInv'
  <1> DEFINE o == disk
             d == [o EXCEPT !.index = NoIndex]
  <1>1. /\ up = FALSE /\ disk' = d
        /\ todo' = todo /\ up' = up /\ index' = index /\ sequence' = sequence /\ meta' = meta
        /\ clock' = clock /\ crashes' = crashes /\ promise' = promise /\ promised' = promised
    BY DEF LoseIndex, IndexIInv, TypeOK
  <1>2. o \in Disk /\ Sound(o) /\ Keeps(o, promised)
    BY MemoryIs
  <1>3. /\ NoIndex \in [sequence : Nat, sessions : Seq(Meta)]
        /\ NoIndex.sessions = <<>> /\ NoIndex.sequence = 0
    BY DEF NoIndex
  <1> HIDE DEF o
  <1>4. /\ d \in Disk /\ d.dirs = o.dirs /\ d.lines = o.lines /\ d.metas = o.metas
        /\ d.index = NoIndex
    BY <1>2, <1>3 DEF Disk
  <1> HIDE DEF d
  <1>5. Sound(d)
    <2>1. Used(d) = Used(o)
      BY <1>4 DEF Used
    <2>2. ListOK(<<>>, 0)
      BY DEF ListOK, Distinct, Entries
    <2> QED
      BY <1>2, <1>3, <1>4, <2>1, <2>2 DEF Sound, SessionIndexAssumption
  <1>6. Keeps(d, promised)
    <2>1. ListKeeps(<<>>, promised)
      BY DEF ListKeeps, Entries
    <2> QED
      BY <1>2, <1>3, <1>4, <2>1 DEF Keeps
  <1>7. TypeOK' /\ todo = <<>> /\ index = <<>> /\ sequence = 1 /\ promise = promised
    <2>1. TypeOK /\ todo = <<>> /\ index = <<>> /\ sequence = 1 /\ promise = promised
      BY <1>1 DEF IndexIInv
    <2> QED
      BY <1>1, <1>4, <2>1 DEF TypeOK
  <1> QED
    BY <1>1, <1>5, <1>6, <1>7, DownKeeps

\* The invariant is inductive.
LEMMA IndexNext ==
    ASSUME SessionIndexAssumption, IndexIInv, [Next]_vars
    PROVE  IndexIInv'
  <1>1. ASSUME UNCHANGED vars
        PROVE  IndexIInv'
    BY <1>1 DEF vars, IndexIInv, TypeOK, Memory, Based
  <1>2. CASE Start
    BY <1>2, StartKeeps
  <1>3. CASE NewSession
    BY <1>3, NewSessionKeeps
  <1>4. ASSUME NEW id \in Ids, OpenSession(id)
        PROVE  IndexIInv'
    BY <1>4, OpenSessionKeeps
  <1>5. ASSUME NEW noted \in BOOLEAN, Turn(noted)
        PROVE  IndexIInv'
    BY <1>5, TurnKeeps
  <1>6. CASE Compact
    BY <1>6, CompactKeeps
  <1>7. ASSUME NEW id \in Ids, NEW title \in {"user", "blank"}, RenameSession(id, title)
        PROVE  IndexIInv'
    BY <1>7, RenameKeeps
  <1>8. ASSUME NEW id \in Ids, DeleteSession(id)
        PROVE  IndexIInv'
    BY <1>8, DeleteKeeps
  <1>9. CASE DeleteAll
    BY <1>9, DeleteAllKeeps
  <1>10. CASE Flush
    BY <1>10, FlushKeeps
  <1>11. CASE Crash
    BY <1>11, CrashKeeps
  <1>12. CASE LoseIndex
    BY <1>12, LoseIndexKeeps
  <1> QED
    BY <1>1, <1>2, <1>3, <1>4, <1>5, <1>6, <1>7, <1>8, <1>9, <1>10, <1>11, <1>12 DEF Next

-----------------------------------------------------------------------------
\* Of every state a process can reach, index.json, the directories and the memory
\* are as the invariant says.
THEOREM IndexInvariant == Spec => []IndexIInv
  <1>1. Init => IndexIInv
    BY SessionIndexAssumption, IndexInit
  <1>2. IndexIInv /\ [Next]_vars => IndexIInv'
    BY SessionIndexAssumption, IndexNext
  <1> QED
    BY <1>1, <1>2, PTL DEF Spec

\* A session is listed once, under an id that is never given again, and a process
\* has one open (agent_session.cpp: create, persist_meta, load_index).
THEOREM SessionsListedOnce == Spec => []SessionsInv
  <1>1. IndexIInv => SessionsInv
    <2> SUFFICES ASSUME IndexIInv PROVE SessionsInv
      OBVIOUS
    <2>1. TypeOK
      BY DEF IndexIInv
    <2>2. CASE up
      <3>1. Lists(Memory, promise) /\ Opened(Memory, promise)
        BY <2>2 DEF IndexIInv
      <3>2. Memory.index = index /\ Memory.sequence = sequence /\ Memory.meta = meta
        BY DEF Memory
      <3>3. ListOK(index, sequence) /\ meta.id \in 1 .. sequence - 1
        BY <3>1, <3>2 DEF Lists, Opened
      <3>4. \A j, k \in DOMAIN index : index[j].id = index[k].id => j = k
        BY <3>3 DEF ListOK, Distinct
      <3>5. \A id \in Listed(index) : id < sequence
        BY <3>3 DEF ListOK, Entries, Listed
      <3>6. meta.id # 0
        BY <2>1, <3>3 DEF TypeOK
      <3> QED
        BY <2>1, <3>4, <3>5, <3>6 DEF SessionsInv
    <2>3. CASE ~up
      <3>1. index = <<>>
        BY <2>3 DEF IndexIInv
      <3> QED
        BY <2>1, <2>3, <3>1 DEF SessionsInv
    <2> QED
      BY <2>2, <2>3
  <1> QED
    BY <1>1, IndexInvariant, PTL

\* No crash, no lost index and no stale id hides a turn that was announced as ended
\* (agent_session.cpp: load_index, append_turn).
THEOREM HistoryIsKept == Spec => []NothingHidden
  <1>1. IndexIInv => NothingHidden
    <2> SUFFICES ASSUME IndexIInv, NEW turn \in promised.kept
                 PROVE  /\ turn[2] \in disk.lines[turn[1]]
                        /\ Idle => turn[1] \in Listed(index)
      BY DEF NothingHidden
    <2>1. turn[2] \in disk.lines[turn[1]]
      BY MemoryIs DEF Keeps
    <2>2. ASSUME Idle
          PROVE  turn[1] \in Listed(index)
      <3>1. Lists(Store, promised) /\ Store.index = index
        BY <2>2, IdleStore DEF Idle
      <3> QED
        BY <3>1 DEF Lists
    <2> QED
      BY <2>1, <2>2
  <1> QED
    BY <1>1, IndexInvariant, PTL

\* A deleted session does not come back by a crash or a rebuilt list
\* (agent_session.cpp: remove takes the whole tree).
THEOREM DeletedStaysDeleted == Spec => []DeletedNotListed
  <1>1. IndexIInv => DeletedNotListed
    <2> SUFFICES ASSUME IndexIInv, Idle
                 PROVE  promised.deleted \cap Listed(index) = {}
      BY DEF DeletedNotListed
    <2>1. Lists(Store, promised) /\ Store.index = index
      BY IdleStore DEF Idle
    <2>2. \A e \in Entries(index) : e.id \notin promised.deleted
      BY <2>1 DEF Lists, ListKeeps
    <2>3. \A id \in Listed(index) : id \notin promised.deleted
      BY <2>2 DEF Entries, Listed
    <2> QED
      BY <2>3
  <1> QED
    BY <1>1, IndexInvariant, PTL

\* A name the user gave outlives the turns, compactions and crashes that follow
\* (agent_session.cpp: rename, persist_meta), unless it is nothing or "New session",
\* which append_turn takes for the default title.
THEOREM NamesAreKept == Spec => []NamesStick
  <1>1. IndexIInv => NamesStick
    <2> SUFFICES ASSUME IndexIInv, Idle, NEW id \in promised.named
                 PROVE  /\ \A k \in DOMAIN index : index[k].id = id => index[k].title = "user"
                        /\ meta.id = id => meta.title = "user"
      BY DEF NamesStick
    <2>1. /\ Lists(Store, promised) /\ Opened(Store, promised)
          /\ Store.index = index /\ Store.meta = meta
      BY IdleStore DEF Idle
    <2>2. \A e \in Entries(index) : e.id = id => e.title = "user"
      BY <2>1 DEF Lists, ListKeeps
    <2>3. \A k \in DOMAIN index : index[k] \in Entries(index)
      BY DEF Entries
    <2> QED
      BY <2>1, <2>2, <2>3 DEF Opened
  <1> QED
    BY <1>1, IndexInvariant, PTL

\* The id a new session gets has no transcript of an earlier one
\* (agent_session.cpp: create, write_index, load_index).
THEOREM NewIdIsFresh == Spec => FreshIsEmpty
  <1> DEFINE Step == Idle /\ sequence' > sequence => disk.lines[sequence] = {}
  <1>1. IndexIInv /\ [Next]_vars => [Step]_vars
    <2> SUFFICES ASSUME IndexIInv, [Next]_vars, Idle, sequence' > sequence
                 PROVE  disk.lines[sequence] = {}
      OBVIOUS
    <2>1. /\ Ahead(Store) /\ Store.sequence = sequence /\ Now(Store) = disk /\ sequence \in Nat
          /\ Lists(Store, promised) /\ disk \in Disk
      BY IdleStore DEF Idle
    <2>2. sequence \notin Used(disk)
      BY <2>1 DEF Ahead
    <2>3. sequence \in Ids
      <3>1. sequence \in 1 .. MaxId + 1
        BY <2>1 DEF Lists
      <3>2. IndexIInv'
        BY SessionIndexAssumption, IndexNext
      <3>3. up' => sequence' \in 1 .. MaxId + 1
        BY <3>2 DEF IndexIInv, Lists, Memory
      <3>4. ~up' => sequence' = 1
        BY <3>2 DEF IndexIInv
      <3>5. MaxId \in Nat /\ 1 \in 1 .. MaxId + 1
        BY SessionIndexAssumption DEF SessionIndexAssumption
      <3>6. sequence' \in 1 .. MaxId + 1
        BY <3>3, <3>4, <3>5
      <3> QED
        BY <3>1, <3>5, <3>6 DEF Ids
    <2> QED
      BY <2>2, <2>3 DEF Used
  <1> QED
    BY <1>1, IndexInvariant, PTL DEF Spec, FreshIsEmpty

================================================================================
