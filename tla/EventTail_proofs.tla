------------------------- MODULE EventTail_proofs -------------------------
(***************************************************************************)
(* Proofs about EventTail, for any number of lives of the runner, of lines *)
(* and of starts of the app.                                               *)
(***************************************************************************)
EXTENDS EventTail, SequenceLemmas, SequenceTheorems, TLAPS

-----------------------------------------------------------------------------
(* The lines of a log. *)

\* F is the function by which Lines is defined.
Counts(F, halves) ==
    F = [k \in 0 .. Len(halves) |->
            IF k = 0 THEN <<>>
            ELSE IF EndsLine(halves, k) THEN Append(F[k - 1], halves[k].event)
            ELSE F[k - 1]]

\* There is such a function for every log.
LEMMA LinesCounted ==
    ASSUME NEW halves \in Seq(Half)
    PROVE  \E F : Counts(F, halves) /\ Lines(halves) = F[Len(halves)]
  <1> DEFINE next(f, k) == IF EndsLine(halves, k) THEN Append(f, halves[k].event) ELSE f
             below(F, n) == F = [k \in 0 .. n |-> IF k = 0 THEN <<>> ELSE next(F[k - 1], k)]
             holds == {n \in Nat : \E F : below(F, n)}
  <1>1. 0 \in holds
    <2> DEFINE F == [k \in 0 .. 0 |-> <<>>]
    <2>1. below(F, 0)
      <3> HIDE DEF next
      <3> QED
        OBVIOUS
    <2> QED
      BY <2>1
  <1>2. ASSUME NEW n \in Nat, n \in holds
        PROVE  n + 1 \in holds
    <2> HIDE DEF next
    <2>1. PICK F : below(F, n)
      BY <1>2
    <2> DEFINE G == [k \in 0 .. n + 1 |-> IF k <= n THEN F[k] ELSE next(F[n], n + 1)]
    <2>2. DOMAIN G = 0 .. n + 1
      OBVIOUS
    <2>3. ASSUME NEW k \in 0 .. n + 1
          PROVE  G[k] = IF k = 0 THEN <<>> ELSE next(G[k - 1], k)
      <3>1. CASE k = 0
        BY <2>1, <3>1
      <3>2. CASE k # 0 /\ k <= n
        <4>1. G[k] = F[k] /\ G[k - 1] = F[k - 1]
          BY <3>2
        <4> QED
          BY <2>1, <3>2, <4>1
      <3>3. CASE k = n + 1
        <4>1. G[k] = next(F[n], n + 1) /\ G[n] = F[n]
          BY <3>3
        <4> QED
          BY <3>3, <4>1
      <3> QED
        BY <3>1, <3>2, <3>3
    <2>4. below(G, n + 1)
      BY <2>2, <2>3
    <2> HIDE DEF G
    <2>5. \E H : below(H, n + 1)
      BY <2>4
    <2> QED
      BY <2>5
  <1>3. \A k \in 0 .. Len(halves) : k \in holds
    <2> HIDE DEF holds
    <2> QED
      BY <1>1, <1>2, Induction
  <1>4. \E F : Counts(F, halves)
    BY <1>3 DEF Counts
  <1> QED
    BY <1>4 DEF Counts, Lines

\* One half of a line more.
LEMMA CountsNext ==
    ASSUME NEW halves \in Seq(Half), NEW F, Counts(F, halves),
           NEW n \in Nat, n < Len(halves)
    PROVE  /\ F[n + 1] = IF EndsLine(halves, n + 1) THEN Append(F[n], halves[n + 1].event)
                         ELSE F[n]
           /\ halves[n + 1] \in Half /\ halves[n + 1].event \in Event
  <1>1. n + 1 \in 0 .. Len(halves) /\ n + 1 # 0 /\ (n + 1) - 1 = n
    OBVIOUS
  <1>2. n + 1 \in DOMAIN halves
    OBVIOUS
  <1>3. halves[n + 1] \in Half
    BY <1>2
  <1> QED
    BY <1>1, <1>3 DEF Counts, Half

\* What was counted so far are events.
LEMMA CountsTyped ==
    ASSUME NEW halves \in Seq(Half), NEW F, Counts(F, halves)
    PROVE  \A k \in 0 .. Len(halves) : F[k] \in Seq(Event)
  <1> DEFINE holds == {n \in 0 .. Len(halves) : F[n] \in Seq(Event)}
  <1>0. Len(halves) \in Nat
    OBVIOUS
  <1>1. 0 \in holds
    BY DEF Counts
  <1>2. ASSUME NEW n \in 0 .. Len(halves), n \in holds, n < Len(halves)
        PROVE  n + 1 \in holds
    <2>0. n \in Nat /\ n + 1 \in 0 .. Len(halves)
      BY <1>0, <1>2
    <2>1. F[n] \in Seq(Event)
      BY <1>2
    <2> HIDE DEF holds
    <2>2. /\ F[n + 1] = IF EndsLine(halves, n + 1) THEN Append(F[n], halves[n + 1].event)
                         ELSE F[n]
          /\ halves[n + 1].event \in Event
      BY <1>2, <2>0, CountsNext
    <2>3. Append(F[n], halves[n + 1].event) \in Seq(Event)
      BY <2>1, <2>2, AppendProperties
    <2>4. F[n + 1] \in Seq(Event)
      BY <2>1, <2>2, <2>3
    <2> QED
      BY <2>0, <2>4 DEF holds
  <1> HIDE DEF holds
  <1>3. \A k \in 0 .. Len(halves) : k \in holds
    BY <1>0, <1>1, <1>2, Induction
  <1> QED
    BY <1>3 DEF holds

\* So are the lines of a whole log.
LEMMA LinesTyped ==
    ASSUME NEW halves \in Seq(Half)
    PROVE  Lines(halves) \in Seq(Event)
  BY LinesCounted, CountsTyped

\* A line holds the event of a half that was read.
LEMMA LinesOf ==
    ASSUME NEW halves \in Seq(Half), NEW l,
           \A k \in DOMAIN halves : halves[k].event.life = l
    PROVE  \A k \in DOMAIN Lines(halves) : Lines(halves)[k].life = l
  <1>1. PICK F : Counts(F, halves) /\ Lines(halves) = F[Len(halves)]
    BY LinesCounted
  <1>2. \A k \in 0 .. Len(halves) : F[k] \in Seq(Event)
    BY <1>1, CountsTyped
  <1> DEFINE holds == {n \in 0 .. Len(halves) : \A k \in DOMAIN F[n] : F[n][k].life = l}
  <1>3. 0 \in holds
    BY <1>1 DEF Counts
  <1>0. Len(halves) \in Nat
    OBVIOUS
  <1>4. ASSUME NEW n \in 0 .. Len(halves), n \in holds, n < Len(halves)
        PROVE  n + 1 \in holds
    <2>0. n \in Nat /\ n + 1 \in 0 .. Len(halves) /\ n + 1 \in DOMAIN halves
      BY <1>0, <1>4
    <2>1. \A k \in DOMAIN F[n] : F[n][k].life = l
      BY <1>4
    <2> HIDE DEF holds
    <2>2. F[n] \in Seq(Event) /\ halves[n + 1].event.life = l
      BY <1>2, <2>0
    <2>3. /\ F[n + 1] = IF EndsLine(halves, n + 1) THEN Append(F[n], halves[n + 1].event)
                         ELSE F[n]
          /\ halves[n + 1].event \in Event
      BY <1>1, <1>4, <2>0, CountsNext
    <2> DEFINE e == halves[n + 1].event
    <2>4. \A k \in DOMAIN Append(F[n], e) : Append(F[n], e)[k] = IF k <= Len(F[n]) THEN F[n][k] ELSE e
      BY <2>2, <2>3, AppendProperties
    <2>5. \A k \in DOMAIN F[n + 1] : F[n + 1][k].life = l
      BY <2>1, <2>2, <2>3, <2>4
    <2> QED
      BY <2>0, <2>5 DEF holds
  <1> HIDE DEF holds
  <1>5. \A k \in 0 .. Len(halves) : k \in holds
    BY <1>0, <1>3, <1>4, Induction
  <1> QED
    BY <1>1, <1>5 DEF holds

-----------------------------------------------------------------------------
(* A log read in two pieces. *)

\* The position of the last newline, 0 if there is none.
Cut(halves, c) ==
    /\ c \in 0 .. Len(halves)
    /\ c = 0 \/ halves[c].last
    /\ \A k \in c + 1 .. Len(halves) : ~halves[k].last

\* Unfinished cuts a log behind its last newline, wherever that is.
LEMMA CutExists ==
    ASSUME NEW halves \in Seq(Half)
    PROVE  \E c : Cut(halves, c) /\ Unfinished(halves) = SubSeq(halves, c + 1, Len(halves))
  <1> DEFINE ends == {k \in DOMAIN halves : halves[k].last}
             m == CHOOSE k \in ends : \A j \in ends : j <= k
  <1>0. Len(halves) \in Nat /\ DOMAIN halves = 1 .. Len(halves)
    OBVIOUS
  <1>1. CASE ends = {}
    <2>1. Cut(halves, 0)
      BY <1>0, <1>1 DEF Cut
    <2> QED
      BY <1>1, <2>1 DEF Unfinished
  <1>2. CASE ends # {}
    <2> DEFINE above == {Len(halves) - k : k \in ends}
    <2>1. above \subseteq Nat /\ above # {}
      BY <1>0, <1>2
    <2>2. PICK i \in above : \A j \in above : i <= j
      <3> HIDE DEF above
      <3> QED
        BY <2>1, Least
    <2>3. PICK k \in ends : i = Len(halves) - k
      BY <2>2
    <2>4. \A j \in ends : j <= k
      <3> TAKE j \in ends
      <3>1. Len(halves) - k <= Len(halves) - j
        BY <2>2, <2>3
      <3>2. j \in 1 .. Len(halves) /\ k \in 1 .. Len(halves)
        BY <1>0
      <3> QED
        BY <1>0, <3>1, <3>2
    <2>5. m \in ends /\ \A j \in ends : j <= m
      BY <2>4
    <2>6. Unfinished(halves) = SubSeq(halves, m + 1, Len(halves))
      BY <1>2 DEF Unfinished
    <2>7. m \in 1 .. Len(halves) /\ halves[m].last
      BY <1>0, <2>5
    <2>8. \A k_1 \in m + 1 .. Len(halves) : ~halves[k_1].last
      <3> TAKE k_1 \in m + 1 .. Len(halves)
      <3> HIDE DEF m
      <3>1. k_1 \in DOMAIN halves /\ ~(k_1 <= m)
        BY <1>0, <2>7
      <3> QED
        BY <2>5, <3>1
    <2> HIDE DEF m
    <2>9. Cut(halves, m)
      BY <2>7, <2>8 DEF Cut
    <2> QED
      BY <2>6, <2>9
  <1> QED
    BY <1>1, <1>2

\* There is only one such place.
LEMMA CutIs ==
    ASSUME NEW halves \in Seq(Half), NEW c, Cut(halves, c)
    PROVE  Unfinished(halves) = SubSeq(halves, c + 1, Len(halves))
  <1>1. PICK d : Cut(halves, d) /\ Unfinished(halves) = SubSeq(halves, d + 1, Len(halves))
    BY CutExists
  <1>2. Len(halves) \in Nat
    OBVIOUS
  <1>3. ~(c < d)
    BY <1>1, <1>2 DEF Cut
  <1>4. ~(d < c)
    BY <1>1, <1>2 DEF Cut
  <1>5. c = d
    BY <1>1, <1>2, <1>3, <1>4 DEF Cut
  <1> QED
    BY <1>1, <1>5

\* Beyond a newline the lines are those of the rest.
LEMMA RestEnds ==
    ASSUME NEW w \in Seq(Half), NEW z \in Seq(Half), NEW c \in Nat,
           Len(w) = Len(z) + c, c = 0 \/ w[c].last,
           \A j \in 1 .. Len(z) : z[j] = w[j + c]
    PROVE  \A j \in 1 .. Len(z) : EndsLine(w, j + c) <=> EndsLine(z, j)
  <1> TAKE j \in 1 .. Len(z)
  <1>0. /\ Len(z) \in Nat /\ Len(w) \in Nat /\ j \in Nat /\ j + c \in 1 .. Len(w)
        /\ z[j] = w[j + c] /\ z[j] \in Half
    OBVIOUS
  <1>1. CASE j = 1
    <2>1. ~EndsLine(z, j)
      BY <1>1 DEF EndsLine
    <2>2. CASE c = 0
      BY <1>0, <1>1, <2>2, <2>1 DEF EndsLine
    <2>3. CASE c # 0
      <3>1. w[c].last /\ [w[j + c] EXCEPT !.last = FALSE].last = FALSE
        BY <1>0, <2>3 DEF Half
      <3>2. (j + c) - 1 = c
        BY <1>1
      <3>3. w[c] # [w[j + c] EXCEPT !.last = FALSE]
        BY <3>1
      <3> QED
        BY <2>1, <3>2, <3>3 DEF EndsLine
    <2> QED
      BY <2>2, <2>3
  <1>2. CASE j > 1
    <2>1. /\ j - 1 \in 1 .. Len(z) /\ (j - 1) + c = (j + c) - 1
          /\ z[j - 1] = w[(j + c) - 1]
      <3>1. j - 1 \in 1 .. Len(z) /\ (j - 1) + c = (j + c) - 1
        BY <1>0, <1>2
      <3> QED
        BY <3>1
    <2>2. CASE j = 2
      <3>1. (j + c) - 2 = c /\ ~(j > 2) /\ (j + c > 2 => c # 0) /\ j + c > 1
        BY <1>0, <2>2
      <3> QED
        BY <1>0, <1>2, <2>1, <3>1 DEF EndsLine
    <2>3. CASE j > 2
      <3>1. j - 2 \in 1 .. Len(z) /\ (j - 2) + c = (j + c) - 2 /\ j + c > 2 /\ j + c > 1
        BY <1>0, <2>3
      <3>2. z[j - 2] = w[(j + c) - 2]
        BY <3>1
      <3> QED
        BY <1>0, <1>2, <2>1, <2>3, <3>1, <3>2 DEF EndsLine
    <2> QED
      BY <1>0, <1>2, <2>2, <2>3
  <1> QED
    BY <1>0, <1>1, <1>2

\* Appending to two joined sequences is appending to the second.
LEMMA AppendConcat ==
    \A s, t \in Seq(Event) : \A e \in Event : Append(s \o t, e) = s \o Append(t, e)
  <1> TAKE s, t \in Seq(Event)
  <1> TAKE e \in Event
  <1>1. s \o t \in Seq(Event) /\ <<e>> \in Seq(Event)
    BY Concat
  <1>2. Append(s \o t, e) = (s \o t) \o <<e>>
    BY <1>1, AppendIsConcat
  <1>3. Append(t, e) = t \o <<e>>
    BY AppendIsConcat
  <1>4. (s \o t) \o <<e>> = s \o (t \o <<e>>)
    BY ONLY <1>1, ConcatAssociative, s \in Seq(Event), t \in Seq(Event), <<e>> \in Seq(Event)
  <1> QED
    BY <1>2, <1>3, <1>4

\* The heart of TailExact: reading a log in two pieces, with the unfinished line
\* of the first put before the second, gives the lines of the whole log.
LEMMA LinesOnward ==
    ASSUME NEW x \in Seq(Half), NEW y \in Seq(Half)
    PROVE  /\ Unfinished(x) \in Seq(Half)
           /\ Lines(x \o y) = Lines(x) \o Lines(Unfinished(x) \o y)
           /\ Unfinished(x \o y) = Unfinished(Unfinished(x) \o y)
  <1> DEFINE u == Unfinished(x)
             w == x \o y
             z == u \o y
  <1>1. PICK c : Cut(x, c) /\ u = SubSeq(x, c + 1, Len(x))
    BY CutExists
  <1>2. c \in Nat /\ Len(x) \in Nat /\ Len(y) \in Nat /\ c <= Len(x)
    BY <1>1 DEF Cut
  <1>3. /\ u \in Seq(Half) /\ Len(u) = Len(x) - c
        /\ \A j \in 1 .. Len(u) : u[j] = x[j + c]
    BY <1>1, <1>2, Suffix
  <1> HIDE DEF u
  <1>4. /\ w \in Seq(Half) /\ Len(w) = Len(x) + Len(y)
        /\ \A k \in 1 .. Len(x) : w[k] = x[k]
        /\ \A k \in Len(x) + 1 .. Len(w) : w[k] = y[k - Len(x)]
    BY Concat
  <1>5. /\ z \in Seq(Half) /\ Len(z) = Len(u) + Len(y)
        /\ \A k \in 1 .. Len(u) : z[k] = u[k]
        /\ \A k \in Len(u) + 1 .. Len(z) : z[k] = y[k - Len(u)]
    BY <1>3, Concat
  <1> HIDE DEF w, z
  <1>6. /\ Len(w) = Len(z) + c /\ Len(w) \in Nat /\ Len(z) \in Nat
        /\ \A j \in 1 .. Len(z) : z[j] = w[j + c]
    <2>1. Len(w) = Len(z) + c /\ Len(w) \in Nat /\ Len(z) \in Nat /\ Len(u) \in Nat
      BY <1>2, <1>3, <1>4, <1>5
    <2>2. ASSUME NEW j \in 1 .. Len(z)
          PROVE  z[j] = w[j + c]
      <3>1. CASE j <= Len(u)
        <4>1. j \in 1 .. Len(u) /\ j + c \in 1 .. Len(x)
          BY <1>2, <1>3, <2>1, <3>1
        <4> QED
          BY <1>3, <1>4, <1>5, <4>1
      <3>2. CASE j > Len(u)
        <4>1. /\ j \in Len(u) + 1 .. Len(z) /\ j + c \in Len(x) + 1 .. Len(w)
              /\ (j + c) - Len(x) = j - Len(u)
          BY <1>2, <1>3, <2>1, <3>2
        <4> QED
          BY <1>4, <1>5, <4>1
      <3> QED
        BY <2>1, <3>1, <3>2
    <2> QED
      BY <2>1, <2>2
  <1>7. c = 0 \/ w[c].last
    BY <1>1, <1>2, <1>4 DEF Cut
  <1>8. Unfinished(w) = Unfinished(z)
    <2>1. PICK d : Cut(z, d) /\ Unfinished(z) = SubSeq(z, d + 1, Len(z))
      BY <1>5, CutExists
    <2>2. d \in Nat /\ d <= Len(z)
      BY <1>6, <2>1 DEF Cut
    <2>3. \A k \in c + d + 1 .. Len(w) : ~w[k].last
      <3> TAKE k \in c + d + 1 .. Len(w)
      <3>1. k - c \in d + 1 .. Len(z) /\ (k - c) + c = k /\ k - c \in 1 .. Len(z)
        BY <1>2, <1>6, <2>2
      <3>2. ~z[k - c].last
        BY <2>1, <3>1 DEF Cut
      <3>3. z[k - c] = w[(k - c) + c]
        BY <1>6, <3>1
      <3> QED
        BY <3>1, <3>2, <3>3
    <2>4. c + d = 0 \/ w[c + d].last
      <3>1. CASE d = 0
        BY <1>2, <1>7, <3>1
      <3>2. CASE d # 0
        <4>1. z[d].last /\ d \in 1 .. Len(z)
          BY <1>6, <2>1, <2>2, <3>2 DEF Cut
        <4>2. z[d] = w[d + c] /\ d + c = c + d
          BY <1>2, <1>6, <2>2, <4>1
        <4> QED
          BY <4>1, <4>2
      <3> QED
        BY <3>1, <3>2
    <2>5. Cut(w, c + d)
      BY <1>2, <1>6, <2>2, <2>3, <2>4 DEF Cut
    <2>6. Unfinished(w) = SubSeq(w, c + d + 1, Len(w))
      BY <1>4, <2>5, CutIs
    <2>7. SubSeq(w, c + d + 1, Len(w)) = SubSeq(z, d + 1, Len(z))
      <3> DEFINE p == SubSeq(w, c + d + 1, Len(w))
                 q == SubSeq(z, d + 1, Len(z))
      <3>1. /\ p \in Seq(Half) /\ Len(p) = Len(z) - d
            /\ \A k \in 1 .. Len(p) : p[k] = w[k + (c + d)]
        <4>1. c + d \in Nat /\ c + d <= Len(w) /\ Len(w) - (c + d) = Len(z) - d
          BY <1>2, <1>6, <2>2
        <4>2. w \in Seq(Half)
          BY <1>4
        <4>3. /\ p \in Seq(Half) /\ Len(p) = Len(w) - (c + d)
              /\ \A k \in 1 .. Len(p) : p[k] = w[k + (c + d)]
          BY <4>1, <4>2, Suffix
        <4> HIDE DEF p
        <4> QED
          BY <4>1, <4>3
      <3>2. /\ q \in Seq(Half) /\ Len(q) = Len(z) - d
            /\ \A k \in 1 .. Len(q) : q[k] = z[k + d]
        BY SMTT(30), <1>5, <2>2, Suffix
      <3> HIDE DEF p, q
      <3>3. ASSUME NEW k \in 1 .. Len(p)
            PROVE  p[k] = q[k]
        <4>1. k + d \in 1 .. Len(z) /\ (k + d) + c = k + (c + d) /\ k \in 1 .. Len(q)
          BY <1>2, <1>6, <2>2, <3>1, <3>2
        <4>2. z[k + d] = w[(k + d) + c]
          BY <1>6, <4>1
        <4> QED
          BY <3>1, <3>2, <4>1, <4>2
      <3>4. p = q
        BY <3>1, <3>2, <3>3, SeqEqual
      <3> QED
        BY <3>4 DEF p, q
    <2> QED
      BY <2>1, <2>6, <2>7
  <1>9. Lines(w) = Lines(x) \o Lines(z)
    <2>1. PICK F : Counts(F, x) /\ Lines(x) = F[Len(x)]
      BY LinesCounted
    <2>2. PICK G : Counts(G, z) /\ Lines(z) = G[Len(z)]
      BY <1>5, LinesCounted
    <2>3. PICK H : Counts(H, w) /\ Lines(w) = H[Len(w)]
      BY <1>4, LinesCounted
    <2>4. /\ \A k \in 0 .. Len(x) : F[k] \in Seq(Event)
          /\ \A k \in 0 .. Len(z) : G[k] \in Seq(Event)
          /\ \A k \in 0 .. Len(w) : H[k] \in Seq(Event)
      BY <1>4, <1>5, <2>1, <2>2, <2>3, CountsTyped
    <2>5. \A k \in 0 .. Len(x) : H[k] = F[k]
      <3> DEFINE holds == {k \in 0 .. Len(x) : H[k] = F[k]}
      <3>1. 0 \in holds
        BY <1>2, <1>6, <2>1, <2>3 DEF Counts
      <3>2. ASSUME NEW n \in 0 .. Len(x), n \in holds, n < Len(x)
            PROVE  n + 1 \in holds
        <4>0. n \in Nat /\ n + 1 \in 1 .. Len(x) /\ n < Len(w)
          BY <1>2, <1>4, <3>2
        <4>1. H[n] = F[n]
          BY <3>2
        <4> HIDE DEF holds
        <4>2. w[n + 1] = x[n + 1]
          BY <1>4, <4>0
        <4>3. EndsLine(w, n + 1) <=> EndsLine(x, n + 1)
          <5>1. n + 1 > 1 => n \in 1 .. Len(x) /\ (n + 1) - 1 = n
            BY <4>0
          <5>2. n + 1 > 2 => n - 1 \in 1 .. Len(x) /\ (n + 1) - 2 = n - 1
            BY <4>0
          <5>3. /\ n + 1 > 1 => w[(n + 1) - 1] = x[(n + 1) - 1]
                /\ n + 1 > 2 => w[(n + 1) - 2] = x[(n + 1) - 2]
            BY <1>4, <5>1, <5>2
          <5> QED
            BY <4>2, <5>3 DEF EndsLine
        <4>4. /\ F[n + 1] = IF EndsLine(x, n + 1) THEN Append(F[n], x[n + 1].event) ELSE F[n]
              /\ H[n + 1] = IF EndsLine(w, n + 1) THEN Append(H[n], w[n + 1].event) ELSE H[n]
          BY <1>4, <2>1, <2>3, <3>2, <4>0, CountsNext
        <4>5. H[n + 1] = F[n + 1]
          BY <4>1, <4>2, <4>3, <4>4
        <4> QED
          BY <4>0, <4>5 DEF holds
      <3> HIDE DEF holds
      <3>3. \A k \in 0 .. Len(x) : k \in holds
        BY <1>2, <3>1, <3>2, Induction
      <3> QED
        BY <3>3 DEF holds
    <2>6. F[c] = F[Len(x)]
      <3> DEFINE holds == {k \in c .. Len(x) : F[k] = F[c]}
      <3>1. c \in holds
        BY <1>2
      <3>2. ASSUME NEW n \in c .. Len(x), n \in holds, n < Len(x)
            PROVE  n + 1 \in holds
        <4>0. n \in Nat /\ n + 1 \in c + 1 .. Len(x) /\ n + 1 \in c .. Len(x)
          BY <1>2, <3>2
        <4>1. F[n] = F[c]
          BY <3>2
        <4> HIDE DEF holds
        <4>2. ~EndsLine(x, n + 1)
          BY <1>1, <4>0 DEF Cut, EndsLine
        <4>3. F[n + 1] = F[n]
          BY <2>1, <3>2, <4>0, <4>2, CountsNext
        <4> QED
          BY <4>0, <4>1, <4>3 DEF holds
      <3> HIDE DEF holds
      <3>3. \A k \in c .. Len(x) : k \in holds
        BY <1>2, <3>1, <3>2, Induction
      <3>4. Len(x) \in c .. Len(x)
        BY <1>2
      <3> QED
        BY <3>3, <3>4 DEF holds
    <2>7. \A k \in 0 .. Len(z) : H[k + c] = H[c] \o G[k]
      <3> DEFINE holds == {k \in 0 .. Len(z) : H[k + c] = H[c] \o G[k]}
      <3>0. H[c] \in Seq(Event) /\ c \in 0 .. Len(w)
        BY <1>2, <1>6, <2>4
      <3>1. 0 \in holds
        <4>1. G[0] = <<>> /\ 0 + c = c /\ 0 \in 0 .. Len(z)
          BY <1>2, <1>6, <2>2 DEF Counts
        <4>2. H[c] \o <<>> = H[c]
          BY <3>0
        <4> QED
          BY <4>1, <4>2
      <3>2. ASSUME NEW n \in 0 .. Len(z), n \in holds, n < Len(z)
            PROVE  n + 1 \in holds
        <4>0. /\ n \in Nat /\ n + 1 \in 1 .. Len(z) /\ n + 1 \in 0 .. Len(z)
              /\ n + c \in Nat /\ n + c < Len(w) /\ (n + c) + 1 = (n + 1) + c
          BY <1>2, <1>6, <3>2
        <4>1. H[n + c] = H[c] \o G[n]
          BY <3>2
        <4> HIDE DEF holds
        <4>2. G[n] \in Seq(Event)
          BY <2>4, <4>0
        <4>3. /\ z[n + 1] = w[(n + 1) + c]
              /\ EndsLine(w, (n + 1) + c) <=> EndsLine(z, n + 1)
          BY <1>2, <1>4, <1>5, <1>6, <1>7, <4>0, RestEnds
        <4>4. /\ G[n + 1] = IF EndsLine(z, n + 1) THEN Append(G[n], z[n + 1].event) ELSE G[n]
              /\ z[n + 1].event \in Event
          BY <1>5, <2>2, <3>2, <4>0, CountsNext
        <4>5. H[(n + c) + 1] = IF EndsLine(w, (n + c) + 1)
                               THEN Append(H[n + c], w[(n + c) + 1].event) ELSE H[n + c]
          BY <1>4, <2>3, <4>0, CountsNext
        <4>6. Append(H[c] \o G[n], z[n + 1].event) = H[c] \o Append(G[n], z[n + 1].event)
          <5> DEFINE e == z[n + 1].event
          <5>1. e \in Event
            BY <4>4
          <5> DEFINE h == H[c]
                     g == G[n]
          <5>2. h \in Seq(Event) /\ g \in Seq(Event)
            BY <3>0, <4>2
          <5> HIDE DEF e, h, g
          <5>3. Append(h \o g, e) = h \o Append(g, e)
            BY <5>1, <5>2, AppendConcat, Zenon
          <5> QED
            BY <5>3 DEF e, h, g
        <4>7. H[(n + 1) + c] = H[c] \o G[n + 1]
          BY <4>0, <4>1, <4>3, <4>4, <4>5, <4>6
        <4> QED
          BY <4>0, <4>7 DEF holds
      <3> HIDE DEF holds
      <3>3. \A k \in 0 .. Len(z) : k \in holds
        BY <1>6, <3>1, <3>2, Induction
      <3> QED
        BY <3>3 DEF holds
    <2>8. H[Len(z) + c] = H[c] \o G[Len(z)] /\ H[c] = F[c]
      <3>1. Len(z) \in 0 .. Len(z) /\ c \in 0 .. Len(x)
        BY <1>2, <1>6
      <3> QED
        BY <2>5, <2>7, <3>1
    <2> QED
      BY <1>6, <2>1, <2>2, <2>3, <2>6, <2>8
  <1> QED
    BY <1>3, <1>8, <1>9 DEF u, w, z
-----------------------------------------------------------------------------
(* The inductive invariant. *)

\* What the two invariants rest on.  The ready file names a runner whose log is
\* there; only a runner that was up can be the one the poller knows; and while
\* the poller follows it, what it has read is what it has handed over and the
\* start of a line.
Bridge ==
    /\ ready # 0 \/ runner = "hello" => log.exists
    /\ runner \in {"bare", "loading"} => log.halves = <<>>
    /\ log.halves # <<>> => emitted > 0
    /\ Alive \/ poller \in {"begin", "stamp", "length", "read"} => life > 0
    /\ life > 0 /\ known = life => runner \in {"up", "dead", "clearing", "bare"}

Following ==
    /\ poller = "begin" => base = offset
    /\ Polling /\ known = ready /\ ready # 0 =>
           /\ base <= offset
           /\ offset <= Len(log.halves) \/ base = offset
           /\ Since = Lines(Followed(offset))
           /\ pending = Unfinished(Followed(offset))

TailIInv == TailInv /\ Bridge /\ Following

\* Of nothing, nothing is read.
LEMMA LinesOfNone == Lines(<<>>) = <<>> /\ Unfinished(<<>>) = <<>>
  <1>1. <<>> \in Seq(Half) /\ Len(<<>>) = 0
    OBVIOUS
  <1>2. Lines(<<>>) = <<>>
    <2>1. PICK F : Counts(F, <<>>) /\ Lines(<<>>) = F[Len(<<>>)]
      BY <1>1, LinesCounted
    <2>2. F[0] = <<>>
      BY <1>1, <2>1 DEF Counts
    <2> QED
      BY <1>1, <2>1, <2>2
  <1>3. Cut(<<>>, 0)
    BY <1>1 DEF Cut
  <1>4. Unfinished(<<>>) = SubSeq(<<>>, 0 + 1, Len(<<>>))
    BY <1>1, <1>3, CutIs
  <1>5. SubSeq(<<>>, 0 + 1, Len(<<>>)) = <<>>
    BY <1>1, SubSeqEmpty
  <1> QED
    BY <1>2, <1>4, <1>5

\* What was read of a log is not changed by what is appended to it.
LEMMA ReadKept ==
    ASSUME NEW g \in Seq(Half), NEW h \in Seq(Half), Len(g) <= Len(h),
           \A k \in 1 .. Len(g) : h[k] = g[k],
           NEW b \in Nat, NEW o \in Nat, b <= o, o <= Len(g) \/ b = o
    PROVE  SubSeq(h, b + 1, o) = SubSeq(g, b + 1, o)
  <1>1. CASE b = o
    <2>1. SubSeq(h, b + 1, o) = <<>> /\ SubSeq(g, b + 1, o) = <<>>
      BY <1>1, SubSeqEmpty
    <2> QED
      BY <2>1
  <1>2. CASE b < o
    <2>0. Len(g) \in Nat /\ Len(h) \in Nat /\ o <= Len(g) /\ o <= Len(h)
      BY <1>2
    <2> DEFINE p == SubSeq(h, b + 1, o)
               q == SubSeq(g, b + 1, o)
    <2>1. /\ p \in Seq(Half) /\ Len(p) = o - b
          /\ \A k \in 1 .. o - b : p[k] = h[b + k]
      <3>1. b + 1 \in 1 .. Len(h) + 1 /\ o \in 0 .. Len(h) /\ \A i \in b + 1 .. o : h[i] \in Half
        BY <1>2, <2>0
      <3> QED
        BY <1>2, <3>1, <2>0
    <2>2. /\ q \in Seq(Half) /\ Len(q) = o - b
          /\ \A k \in 1 .. o - b : q[k] = g[b + k]
      <3>1. b + 1 \in 1 .. Len(g) + 1 /\ o \in 0 .. Len(g) /\ \A i \in b + 1 .. o : g[i] \in Half
        BY <1>2, <2>0
      <3> QED
        BY <1>2, <3>1, <2>0
    <2> HIDE DEF p, q
    <2>3. \A k \in 1 .. Len(p) : p[k] = q[k]
      BY <1>2, <2>0, <2>1, <2>2
    <2>4. p = q
      BY <2>1, <2>2, <2>3, SeqEqual
    <2> QED
      BY <2>4 DEF p, q
  <1> QED
    BY <1>1, <1>2

\* The bytes read next follow those that were.
LEMMA ReadOn ==
    ASSUME NEW h \in Seq(Half), NEW b \in Nat, NEW o \in Nat, b <= o,
           o <= Len(h) \/ b = o
    PROVE  LET x == SubSeq(h, b + 1, o)
               y == SubSeq(h, o + 1, Len(h))
               o_1 == IF Len(h) > o THEN Len(h) ELSE o
           IN  x \in Seq(Half) /\ y \in Seq(Half) /\ x \o y = SubSeq(h, b + 1, o_1)
  <1> DEFINE x == SubSeq(h, b + 1, o)
             y == SubSeq(h, o + 1, Len(h))
             o_1 == IF Len(h) > o THEN Len(h) ELSE o
             z == SubSeq(h, b + 1, o_1)
  <1> SUFFICES x \in Seq(Half) /\ y \in Seq(Half) /\ x \o y = z
    OBVIOUS
  <1>0. Len(h) \in Nat /\ <<>> \in Seq(Half)
    OBVIOUS
  <1>1. CASE o > Len(h)
    <2>1. x = <<>> /\ y = <<>> /\ z = <<>>
      BY <1>0, <1>1, SubSeqEmpty
    <2>2. <<>> \o <<>> = <<>>
      OBVIOUS
    <2> HIDE DEF x, y, z
    <2> QED
      BY <1>0, <2>1, <2>2
  <1>2. CASE o <= Len(h)
    <2>1. o_1 = Len(h) /\ b <= Len(h)
      BY <1>0, <1>2
    <2>2. /\ y \in Seq(Half) /\ Len(y) = Len(h) - o
          /\ \A i \in 1 .. Len(y) : y[i] = h[i + o]
      BY <1>2, Suffix
    <2>3. /\ z \in Seq(Half) /\ Len(z) = Len(h) - b
          /\ \A i \in 1 .. Len(z) : z[i] = h[i + b]
      BY <2>1, Suffix
    <2>4. /\ x \in Seq(Half) /\ Len(x) = o - b
          /\ \A i \in 1 .. o - b : x[i] = h[b + i]
      <3>1. CASE b = o
        BY <1>0, <3>1, SubSeqEmpty
      <3>2. CASE b < o
        <4>1. b + 1 \in 1 .. Len(h) + 1 /\ o \in 0 .. Len(h) /\ \A i \in b + 1 .. o : h[i] \in Half
          BY <1>0, <1>2, <3>2
        <4> QED
          BY <1>0, <1>2, <3>2, <4>1
      <3> QED
        BY <3>1, <3>2
    <2> HIDE DEF x, y, z
    <2>5. /\ x \o y \in Seq(Half) /\ Len(x \o y) = Len(x) + Len(y)
          /\ \A i \in 1 .. Len(x) : (x \o y)[i] = x[i]
          /\ \A i \in Len(x) + 1 .. Len(x \o y) : (x \o y)[i] = y[i - Len(x)]
      BY <2>2, <2>4, Concat
    <2> DEFINE w == x \o y
    <2> HIDE DEF w
    <2>6. /\ w \in Seq(Half) /\ Len(w) = Len(z)
          /\ \A i \in 1 .. Len(x) : w[i] = x[i]
          /\ \A i \in Len(x) + 1 .. Len(w) : w[i] = y[i - Len(x)]
      BY <1>0, <1>2, <2>1, <2>2, <2>3, <2>4, <2>5 DEF w
    <2>7. ASSUME NEW i \in 1 .. Len(w)
          PROVE  w[i] = z[i]
      <3>0. Len(w) = Len(h) - b /\ i \in Nat /\ z[i] = h[i + b]
        BY <1>0, <2>1, <2>3, <2>6
      <3>1. CASE i <= Len(x)
        <4>1. i \in 1 .. o - b /\ i \in 1 .. Len(x) /\ b + i = i + b
          BY <2>4, <3>0, <3>1
        <4> QED
          BY <2>4, <2>6, <3>0, <4>1
      <3>2. CASE i > Len(x)
        <4>1. /\ i \in Len(x) + 1 .. Len(w) /\ i - Len(x) \in 1 .. Len(y)
              /\ (i - Len(x)) + o = i + b
          BY <1>0, <1>2, <2>2, <2>4, <3>0, <3>2
        <4> QED
          BY <2>2, <2>6, <3>0, <4>1
      <3> QED
        BY <2>4, <3>0, <3>1, <3>2
    <2>8. w = z
      BY <2>3, <2>6, <2>7, SeqEqual
    <2> QED
      BY <2>2, <2>4, <2>8 DEF w
  <1> HIDE DEF x, y, z
  <1> QED
    BY <1>0, <1>1, <1>2

\* Every step keeps the types: a line is only ended that was begun.
LEMMA TypeStep ==
    ASSUME TailIInv, [Next]_vars
    PROVE  TypeOK'
  <1> USE DEF TailIInv, TailInv, Rewind
  <1>1. CASE StartRunner
    <2>1. ready' \in Nat /\ runner' \in {runner, "clearing"} /\ start' = FALSE
      BY <1>1 DEF StartRunner, TypeOK
    <2> QED
      BY <1>1, <2>1 DEF StartRunner, TypeOK, pollVars
  <1>2. CASE RemoveLog
    BY <1>2 DEF RemoveLog, TypeOK, logVars, pollVars, NoLog
  <1>3. CASE Launch
    <2>1. log' \in [exists : BOOLEAN, halves : Seq(Half)]
      BY <1>3 DEF Launch, TypeOK
    <2> QED
      BY <1>3, <2>1 DEF Launch, TypeOK, pollVars
  <1>4. CASE Prepare
    BY <1>4 DEF Prepare, TypeOK, logVars, pollVars, NoLog
  <1>5. CASE BeginLine
    <2>1. emitted \in Nat
      BY <1>5 DEF BeginLine, TypeOK, Bridge, MidLine
    <2>2. [event |-> [life |-> life, n |-> emitted], last |-> FALSE] \in Half
      BY <2>1 DEF TypeOK, Half, Event
    <2>3. log' \in [exists : BOOLEAN, halves : Seq(Half)]
      BY <1>5, <2>2, AppendProperties DEF BeginLine, Writes, TypeOK
    <2> QED
      BY <1>5, <2>1, <2>3 DEF BeginLine, TypeOK, pollVars
  <1>6. CASE EndLine
    <2>1. emitted - 1 \in Nat
      BY <1>6 DEF EndLine, TypeOK, Bridge, MidLine
    <2>2. [event |-> [life |-> life, n |-> emitted - 1], last |-> TRUE] \in Half
      BY <2>1 DEF TypeOK, Half, Event
    <2>3. log' \in [exists : BOOLEAN, halves : Seq(Half)]
      BY <1>6, <2>2, AppendProperties DEF EndLine, Writes, TypeOK
    <2> QED
      BY <1>6, <2>1, <2>3 DEF EndLine, TypeOK, pollVars
  <1>7. CASE WriteReady
    BY <1>7 DEF WriteReady, TypeOK, logVars, pollVars, NoLog
  <1>8. CASE Die
    BY <1>8 DEF Die, TypeOK, logVars, pollVars, NoLog
  <1>9. CASE Reap
    BY <1>9 DEF Reap, TypeOK, logVars, pollVars, NoLog
  <1>10. CASE StartApp
    BY <1>10 DEF StartApp, TypeOK, logVars, pollVars, NoLog
  <1>11. CASE StartPolling
    BY <1>11 DEF StartPolling, TypeOK, logVars, pollVars, NoLog
  <1>12. CASE ReadStamp
    BY <1>12 DEF ReadStamp, TypeOK, logVars, pollVars, NoLog
  <1>13. CASE CheckStamp
    <2>0. Len(got) \in Nat /\ <<>> \in Seq(Half)
      BY DEF TypeOK
    <2>1. /\ {offset', base', mark'} \subseteq Nat /\ pending' \in Seq(Half)
          /\ known' \in Nat /\ poller' = "length"
      <3>1. CASE ready # known
        BY <1>13, <3>1, <2>0 DEF CheckStamp, TypeOK
      <3>2. CASE ready = known
        BY <1>13, <3>2 DEF CheckStamp, TypeOK
      <3> QED
        BY <3>1, <3>2
    <2> QED
      BY <1>13, <2>1 DEF CheckStamp, TypeOK, logVars
  <1>14. CASE CheckLength
    <2>0. Len(got) \in Nat /\ <<>> \in Seq(Half)
      BY DEF TypeOK
    <2>1. {offset', base', mark'} \subseteq Nat /\ pending' \in Seq(Half)
      <3>1. CASE log.exists /\ Len(log.halves) < offset
        BY <1>14, <3>1, <2>0 DEF CheckLength, TypeOK
      <3>2. CASE ~(log.exists /\ Len(log.halves) < offset)
        BY <1>14, <3>2 DEF CheckLength, TypeOK
      <3> QED
        BY <3>1, <3>2
    <2>2. poller' \in {"read", "stamp"}
      BY <1>14 DEF CheckLength
    <2> QED
      BY <1>14, <2>1, <2>2 DEF CheckLength, TypeOK, logVars
  <1>15. CASE ReadLog
    <2>1. SubSeq(log.halves, offset + 1, Len(log.halves)) \in Seq(Half)
      BY SubSeqProperties DEF TypeOK
    <2> DEFINE bytes == pending \o SubSeq(log.halves, offset + 1, Len(log.halves))
    <2>2. bytes \in Seq(Half)
      BY <2>1, Concat DEF TypeOK
    <2> HIDE DEF bytes
    <2>3. Lines(bytes) \in Seq(Event) /\ Unfinished(bytes) \in Seq(Half)
      BY <2>2, LinesTyped, LinesOnward
    <2>4. got' = got \o Lines(bytes) /\ pending' = Unfinished(bytes)
      BY <1>15 DEF ReadLog, bytes
    <2>5. got' \in Seq(Event)
      BY <2>3, <2>4, Concat DEF TypeOK
    <2> QED
      BY <1>15, <2>3, <2>4, <2>5 DEF ReadLog, TypeOK, pollVars, logVars
  <1>16. CASE UNCHANGED vars
    BY <1>16 DEF vars, logVars, pollVars, TypeOK, logVars, pollVars, NoLog
  <1> QED
    BY <1>1, <1>2, <1>3, <1>4, <1>5, <1>6, <1>7, <1>8, <1>9, <1>10, <1>11, <1>12, <1>13, <1>14, <1>15, <1>16 DEF Next, Service, Poll

\* The ready file names a runner whose log is there.
LEMMA BridgeStep ==
    ASSUME TailIInv, TypeOK', [Next]_vars
    PROVE  Bridge'
  <1> USE DEF TailIInv
  <1>1. CASE StartRunner
    BY <1>1 DEF StartRunner, Bridge, TailInv, TypeOK, Alive, Polling, Rewind, Writes, MidLine, logVars, pollVars, NoLog
  <1>2. CASE RemoveLog
    BY <1>2 DEF RemoveLog, Bridge, TailInv, TypeOK, Alive, Polling, Rewind, Writes, MidLine, logVars, pollVars, NoLog
  <1>3. CASE Launch
    BY <1>3 DEF Launch, Bridge, TailInv, TypeOK, Alive, Polling, Rewind, Writes, MidLine, logVars, pollVars, NoLog
  <1>4. CASE Prepare
    BY <1>4 DEF Prepare, Bridge, TailInv, TypeOK, Alive, Polling, Rewind, Writes, MidLine, logVars, pollVars, NoLog
  <1>5. CASE BeginLine
    BY <1>5 DEF BeginLine, Bridge, TailInv, TypeOK, Alive, Polling, Rewind, Writes, MidLine, logVars, pollVars, NoLog
  <1>6. CASE EndLine
    BY <1>6 DEF EndLine, Bridge, TailInv, TypeOK, Alive, Polling, Rewind, Writes, MidLine, logVars, pollVars, NoLog
  <1>7. CASE WriteReady
    BY <1>7 DEF WriteReady, Bridge, TailInv, TypeOK, Alive, Polling, Rewind, Writes, MidLine, logVars, pollVars, NoLog
  <1>8. CASE Die
    BY <1>8 DEF Die, Bridge, TailInv, TypeOK, Alive, Polling, Rewind, Writes, MidLine, logVars, pollVars, NoLog
  <1>9. CASE Reap
    BY <1>9 DEF Reap, Bridge, TailInv, TypeOK, Alive, Polling, Rewind, Writes, MidLine, logVars, pollVars, NoLog
  <1>10. CASE StartApp
    BY <1>10 DEF StartApp, Bridge, TailInv, TypeOK, Alive, Polling, Rewind, Writes, MidLine, logVars, pollVars, NoLog
  <1>11. CASE StartPolling
    BY <1>11 DEF StartPolling, Bridge, TailInv, TypeOK, Alive, Polling, Rewind, Writes, MidLine, logVars, pollVars, NoLog
  <1>12. CASE ReadStamp
    BY <1>12 DEF ReadStamp, Bridge, TailInv, TypeOK, Alive, Polling, Rewind, Writes, MidLine, logVars, pollVars, NoLog
  <1>13. CASE CheckStamp
    BY <1>13 DEF CheckStamp, Bridge, TailInv, TypeOK, Alive, Polling, Rewind, Writes, MidLine, logVars, pollVars, NoLog
  <1>14. CASE CheckLength
    BY <1>14 DEF CheckLength, Bridge, TailInv, TypeOK, Alive, Polling, Rewind, Writes, MidLine, logVars, pollVars, NoLog
  <1>15. CASE ReadLog
    BY <1>15 DEF ReadLog, Bridge, TailInv, TypeOK, Alive, Polling, Rewind, Writes, MidLine, logVars, pollVars, NoLog
  <1>16. CASE UNCHANGED vars
    BY <1>16 DEF vars, logVars, pollVars, Bridge, TailInv, TypeOK, Alive, Polling, Rewind, Writes, MidLine, logVars, pollVars, NoLog
  <1> QED
    BY <1>1, <1>2, <1>3, <1>4, <1>5, <1>6, <1>7, <1>8, <1>9, <1>10, <1>11, <1>12, <1>13, <1>14, <1>15, <1>16 DEF Next, Service, Poll

\* Bytes of one runner, joined or cut, are bytes of that runner.
LEMMA Ours ==
    ASSUME NEW s \in Seq(Half), NEW t \in Seq(Half), NEW l,
           \A k \in DOMAIN s : s[k].event.life = l,
           \A k \in DOMAIN t : t[k].event.life = l
    PROVE  \A k \in DOMAIN (s \o t) : (s \o t)[k].event.life = l
  <1> DEFINE w == s \o t
  <1>1. /\ w \in Seq(Half) /\ Len(w) = Len(s) + Len(t)
        /\ \A i \in 1 .. Len(s) : w[i] = s[i]
        /\ \A i \in Len(s) + 1 .. Len(w) : w[i] = t[i - Len(s)]
    BY Concat
  <1> HIDE DEF w
  <1>2. /\ Len(s) \in Nat /\ Len(t) \in Nat /\ DOMAIN s = 1 .. Len(s)
        /\ DOMAIN t = 1 .. Len(t) /\ DOMAIN w = 1 .. Len(w)
    BY <1>1
  <1>3. ASSUME NEW k \in DOMAIN w
        PROVE  w[k].event.life = l
    <2>1. CASE k <= Len(s)
      BY <1>1, <1>2, <2>1
    <2>2. CASE k > Len(s)
      <3>1. k \in Len(s) + 1 .. Len(w) /\ k - Len(s) \in 1 .. Len(t)
        BY <1>1, <1>2, <2>2
      <3> QED
        BY <1>1, <1>2, <3>1
    <2> QED
      BY <1>2, <2>1, <2>2
  <1> QED
    BY <1>3 DEF w

\* So are those behind a given position.
LEMMA RestOfOurs ==
    ASSUME NEW halves \in Seq(Half), NEW c \in Nat
    PROVE  LET u == SubSeq(halves, c + 1, Len(halves)) IN
           /\ u \in Seq(Half)
           /\ \A l : (\A k \in DOMAIN halves : halves[k].event.life = l)
                       => \A k \in DOMAIN u : u[k].event.life = l
  <1> DEFINE u == SubSeq(halves, c + 1, Len(halves))
  <1>0. Len(halves) \in Nat /\ DOMAIN halves = 1 .. Len(halves)
    OBVIOUS
  <1>1. CASE c <= Len(halves)
    <2>1. /\ u \in Seq(Half) /\ Len(u) = Len(halves) - c
          /\ \A k \in 1 .. Len(u) : u[k] = halves[k + c]
      BY <1>1, Suffix
    <2> HIDE DEF u
    <2>2. ASSUME NEW k \in DOMAIN u
          PROVE  k + c \in DOMAIN halves /\ u[k] = halves[k + c]
      <3>1. Len(u) \in Nat /\ DOMAIN u = 1 .. Len(u) /\ Len(u) = Len(halves) - c
        BY <2>1
      <3>2. k \in 1 .. Len(u) /\ k \in Nat /\ k <= Len(halves) - c
        BY <3>1
      <3>3. u[k] = halves[k + c]
        BY <2>1, <3>2
      <3>4. k + c \in 1 .. Len(halves)
        BY <1>0, <3>2
      <3> QED
        BY <1>0, <3>3, <3>4
    <2> QED
      BY <2>1, <2>2 DEF u
  <1>2. CASE c > Len(halves)
    <2>1. u = <<>>
      BY <1>0, <1>2, SubSeqEmpty
    <2>2. <<>> \in Seq(Half) /\ DOMAIN <<>> = {}
      OBVIOUS
    <2> QED
      BY <2>1, <2>2
  <1> QED
    BY <1>0, <1>1, <1>2

\* So is what follows the last newline.
LEMMA UnfinishedOfOurs ==
    ASSUME NEW halves \in Seq(Half), NEW l,
           \A k \in DOMAIN halves : halves[k].event.life = l
    PROVE  /\ Unfinished(halves) \in Seq(Half)
           /\ \A k \in DOMAIN Unfinished(halves) : Unfinished(halves)[k].event.life = l
  <1>1. PICK c : Cut(halves, c) /\ Unfinished(halves) = SubSeq(halves, c + 1, Len(halves))
    BY CutExists
  <1>2. c \in Nat
    BY <1>1 DEF Cut
  <1> QED
    BY <1>1, <1>2, RestOfOurs

\* No byte and no event of another runner than the last one is kept.
LEMMA TailStep ==
    ASSUME TailIInv, TypeOK', [Next]_vars
    PROVE  TailInv'
  <1>0. TailInv /\ TypeOK /\ Bridge
    BY DEF TailIInv, TailInv
  <1> USE <1>0
  <1>1. CASE StartRunner
    BY <1>1 DEF StartRunner, TailInv, Bridge, TypeOK, Alive, Polling, Rewind, NoLog, logVars, pollVars
  <1>2. CASE RemoveLog
    BY <1>2 DEF RemoveLog, TailInv, Bridge, TypeOK, Alive, Polling, Rewind, NoLog, logVars, pollVars
  <1>3. CASE Launch
    BY <1>3 DEF Launch, TailInv, Bridge, TypeOK, Alive, Polling, Rewind, NoLog, logVars, pollVars
  <1>4. CASE Prepare
    BY <1>4 DEF Prepare, TailInv, Bridge, TypeOK, Alive, Polling, Rewind, NoLog, logVars, pollVars
  <1>5. CASE BeginLine
    <2>1. log.halves \in Seq(Half) /\ log'.halves = Append(log.halves, [event |-> [life |-> life, n |-> emitted], last |-> FALSE])
      BY <1>5 DEF BeginLine, Writes, TypeOK
    <2>2. \A k \in DOMAIN log'.halves : log'.halves[k].event.life = life
      BY <2>1 DEF TailInv
    <2> QED
      BY <1>5, <2>2 DEF BeginLine, TailInv, Polling, pollVars
  <1>6. CASE EndLine
    <2>1. log.halves \in Seq(Half) /\ log'.halves = Append(log.halves, [event |-> [life |-> life, n |-> emitted - 1], last |-> TRUE])
      BY <1>6 DEF EndLine, Writes, TypeOK
    <2>2. \A k \in DOMAIN log'.halves : log'.halves[k].event.life = life
      BY <2>1 DEF TailInv
    <2> QED
      BY <1>6, <2>2 DEF EndLine, TailInv, Polling, pollVars
  <1>7. CASE WriteReady
    BY <1>7 DEF WriteReady, TailInv, Bridge, TypeOK, Alive, Polling, Rewind, NoLog, logVars, pollVars
  <1>8. CASE Die
    BY <1>8 DEF Die, TailInv, Bridge, TypeOK, Alive, Polling, Rewind, NoLog, logVars, pollVars
  <1>9. CASE Reap
    BY <1>9 DEF Reap, TailInv, Bridge, TypeOK, Alive, Polling, Rewind, NoLog, logVars, pollVars
  <1>10. CASE StartApp
    BY <1>10 DEF StartApp, TailInv, Bridge, TypeOK, Alive, Polling, Rewind, NoLog, logVars, pollVars
  <1>11. CASE StartPolling
    BY <1>11 DEF StartPolling, TailInv, Bridge, TypeOK, Alive, Polling, Rewind, NoLog, logVars, pollVars
  <1>12. CASE ReadStamp
    BY <1>12 DEF ReadStamp, TailInv, Bridge, TypeOK, Alive, Polling, Rewind, NoLog, logVars, pollVars
  <1>13. CASE CheckStamp
    <2>1. /\ poller = "stamp" /\ poller' = "length" /\ known' = ready
          /\ UNCHANGED <<log, ready, runner, life, emitted, got>>
      BY <1>13 DEF CheckStamp, logVars
    <2>2. CASE ready # known
      <3>1. pending' = <<>> /\ mark' = Len(got)
        BY <1>13, <2>2 DEF CheckStamp, Rewind
      <3>2. Len(got) \in Nat /\ DOMAIN <<>> = {} /\ mark' + 1 .. Len(got) = {}
        BY SMTT(30), <3>1 DEF TypeOK
      <3> QED
        BY <2>1, <3>1, <3>2 DEF TailInv, TypeOK
    <2>3. CASE ready = known
      <3>1. UNCHANGED <<pending, mark>>
        BY <1>13, <2>3 DEF CheckStamp
      <3> QED
        BY <2>1, <2>3, <3>1 DEF TailInv, Polling
    <2> QED
      BY <2>2, <2>3
  <1>14. CASE CheckLength
    <2>1. /\ poller = "length" /\ Polling
          /\ UNCHANGED <<log, ready, runner, life, emitted, got, known>>
          /\ poller' \in {"stamp", "read"}
      BY <1>14 DEF CheckLength, logVars, Polling
    <2>2. CASE pending' = <<>> /\ mark' = Len(got)
      <3>1. Len(got) \in Nat /\ DOMAIN <<>> = {} /\ mark' + 1 .. Len(got) = {}
        BY SMTT(30), <2>2 DEF TypeOK
      <3> QED
        BY <2>1, <2>2, <3>1 DEF TailInv, TypeOK
    <2>3. CASE UNCHANGED <<pending, mark>>
      <3> QED
        BY <2>1, <2>3 DEF TailInv
    <2> QED
      BY <1>14, <2>2, <2>3 DEF CheckLength, Rewind
  <1>15. CASE ReadLog
    <2> DEFINE rest == SubSeq(log.halves, offset + 1, Len(log.halves))
               bytes == pending \o rest
    <2>0. log.halves \in Seq(Half) /\ pending \in Seq(Half) /\ Len(log.halves) \in Nat
      BY DEF TypeOK
    <2>01. known = life /\ Polling => \A k \in DOMAIN pending : pending[k].event.life = life
      BY DEF TailInv
    <2>1. /\ rest \in Seq(Half)
          /\ \A k \in DOMAIN rest : rest[k].event.life = life
      <3>1. offset \in Nat /\ \A k \in DOMAIN log.halves : log.halves[k].event.life = life
        BY DEF TailInv, TypeOK
      <3> QED
        BY <2>0, <3>1, RestOfOurs
    <2> HIDE DEF rest
    <2>2. /\ bytes \in Seq(Half)
          /\ known = life /\ Polling => \A k \in DOMAIN bytes : bytes[k].event.life = life
      BY <2>0, <2>1, <2>01, Ours
    <2> HIDE DEF bytes
    <2>3. /\ Lines(bytes) \in Seq(Event) /\ Unfinished(bytes) \in Seq(Half)
          /\ known = life /\ Polling =>
                 /\ \A k \in DOMAIN Lines(bytes) : Lines(bytes)[k].life = life
                 /\ \A k \in DOMAIN Unfinished(bytes) : Unfinished(bytes)[k].event.life = life
      <3>1. Lines(bytes) \in Seq(Event) /\ Unfinished(bytes) \in Seq(Half)
        BY <2>2, LinesTyped, LinesOnward
      <3>2. ASSUME known = life, Polling
            PROVE  /\ \A k \in DOMAIN Lines(bytes) : Lines(bytes)[k].life = life
                   /\ \A k \in DOMAIN Unfinished(bytes) : Unfinished(bytes)[k].event.life = life
        <4>1. \A k \in DOMAIN bytes : bytes[k].event.life = life
          BY <2>2, <3>2
        <4> QED
          BY <2>2, <4>1, LinesOf, UnfinishedOfOurs
      <3> QED
        BY <3>1, <3>2
    <2>4. got' = got \o Lines(bytes) /\ pending' = Unfinished(bytes)
      BY <1>15 DEF ReadLog, bytes, rest
    <2>5. /\ got \in Seq(Event) /\ Len(got) \in Nat /\ Len(got') = Len(got) + Len(Lines(bytes))
          /\ \A k \in 1 .. Len(got) : got'[k] = got[k]
          /\ \A k \in Len(got) + 1 .. Len(got') : got'[k] = Lines(bytes)[k - Len(got)]
      <3> DEFINE new == Lines(bytes)
      <3>1. got \in Seq(Event) /\ new \in Seq(Event) /\ got' = got \o new
        BY <2>3, <2>4 DEF TypeOK
      <3> HIDE DEF new
      <3>2. /\ Len(got \o new) = Len(got) + Len(new)
            /\ \A i \in 1 .. Len(got) : (got \o new)[i] = got[i]
            /\ \A i \in Len(got) + 1 .. Len(got \o new) : (got \o new)[i] = new[i - Len(got)]
        BY <3>1, Concat
      <3> QED
        BY <3>1, <3>2 DEF new
    <2>6. mark' = mark /\ Polling /\ mark \in Nat /\ mark <= Len(got)
      BY <1>15 DEF ReadLog, Polling, TailInv, TypeOK
    <2>7. ASSUME known = life, NEW k \in mark + 1 .. Len(got')
          PROVE  got'[k].life = life
      <3> DEFINE new == Lines(bytes)
      <3>0. Len(new) \in Nat /\ DOMAIN new = 1 .. Len(new)
        BY <2>3
      <3> HIDE DEF new
      <3>1. CASE k <= Len(got)
        <4>1. k \in mark + 1 .. Len(got) /\ k \in 1 .. Len(got)
          BY <2>5, <2>6, <3>1
        <4> QED
          BY <2>5, <2>6, <2>7, <4>1 DEF TailInv
      <3>2. CASE k > Len(got)
        <4>1. k \in Len(got) + 1 .. Len(got') /\ k - Len(got) \in 1 .. Len(new)
          BY <2>5, <2>6, <3>0, <3>2 DEF new
        <4> QED
          BY <2>3, <2>5, <2>6, <2>7, <3>0, <4>1 DEF new
      <3> QED
        BY <2>5, <2>6, <3>1, <3>2
    <2>8. mark' <= Len(got')
      BY <2>3, <2>5, <2>6
    <2>9. known = life => \A k \in DOMAIN pending' : pending'[k].event.life = life
      BY <2>3, <2>4, <2>6
    <2> QED
      BY <1>15, <2>7, <2>8, <2>9, <2>6 DEF ReadLog, TailInv, Polling, logVars
  <1>16. CASE UNCHANGED vars
    BY <1>16 DEF vars, logVars, pollVars, TailInv, Bridge, TypeOK, Alive, Polling, Rewind, NoLog, logVars, pollVars
  <1> QED
    BY <1>1, <1>2, <1>3, <1>4, <1>5, <1>6, <1>7, <1>8, <1>9, <1>10, <1>11, <1>12, <1>13, <1>14, <1>15, <1>16 DEF Next, Service, Poll

\* What was handed over since the reset, when more is handed over.
LEMMA SinceConcat ==
    ASSUME NEW s \in Seq(Event), NEW t \in Seq(Event), NEW m \in Nat, m <= Len(s)
    PROVE  SubSeq(s \o t, m + 1, Len(s \o t)) = SubSeq(s, m + 1, Len(s)) \o t
  <1> DEFINE w == s \o t
             p == SubSeq(s, m + 1, Len(s))
             q == SubSeq(w, m + 1, Len(w))
             v == p \o t
  <1>1. /\ w \in Seq(Event) /\ Len(w) = Len(s) + Len(t)
        /\ \A i \in 1 .. Len(s) : w[i] = s[i]
        /\ \A i \in Len(s) + 1 .. Len(w) : w[i] = t[i - Len(s)]
    BY Concat
  <1>2. Len(s) \in Nat /\ Len(t) \in Nat
    OBVIOUS
  <1>3. /\ p \in Seq(Event) /\ Len(p) = Len(s) - m
        /\ \A i \in 1 .. Len(p) : p[i] = s[i + m]
    BY Suffix
  <1> HIDE DEF w
  <1>4. /\ q \in Seq(Event) /\ Len(q) = Len(w) - m
        /\ \A i \in 1 .. Len(q) : q[i] = w[i + m]
    BY <1>1, <1>2, Suffix
  <1> HIDE DEF p, q
  <1>5. /\ v \in Seq(Event) /\ Len(v) = Len(p) + Len(t)
        /\ \A i \in 1 .. Len(p) : v[i] = p[i]
        /\ \A i \in Len(p) + 1 .. Len(v) : v[i] = t[i - Len(p)]
    BY <1>3, Concat
  <1> HIDE DEF v
  <1>6. ASSUME NEW i \in 1 .. Len(q)
        PROVE  q[i] = v[i]
    <2>1. CASE i <= Len(p)
      <3>1. i \in 1 .. Len(p) /\ i + m \in 1 .. Len(s)
        BY <1>1, <1>2, <1>3, <1>4, <2>1
      <3> QED
        BY <1>1, <1>3, <1>4, <1>5, <3>1
    <2>2. CASE i > Len(p)
      <3>1. /\ i \in Len(p) + 1 .. Len(v) /\ i + m \in Len(s) + 1 .. Len(w)
            /\ (i + m) - Len(s) = i - Len(p)
        BY <1>1, <1>2, <1>3, <1>4, <1>5, <2>2
      <3> QED
        BY <1>1, <1>4, <1>5, <3>1
    <2> QED
      BY <1>2, <1>3, <1>4, <2>1, <2>2
  <1>7. Len(q) = Len(v)
    BY <1>1, <1>2, <1>3, <1>4, <1>5
  <1>8. q = v
    BY <1>4, <1>5, <1>6, <1>7, SeqEqual
  <1> QED
    BY <1>8 DEF w, p, q, v

\* What the listener was given is what was read: an appended line, a new ready
\* file and each step of the poll thread keep it so.
LEMMA FollowingStep ==
    ASSUME TailIInv, TypeOK', [Next]_vars
    PROVE  Following'
  <1>0. TailInv /\ TypeOK /\ Bridge /\ Following
    BY DEF TailIInv, TailInv
  <1>00. /\ log.halves \in Seq(Half) /\ got \in Seq(Event) /\ pending \in Seq(Half)
         /\ base \in Nat /\ offset \in Nat /\ mark \in Nat /\ known \in Nat /\ ready \in Nat
         /\ ready # 0 => ready = life /\ runner \in {"up", "dead"}
    BY <1>0 DEF TypeOK, TailInv
  <1> USE <1>0, <1>00
  <1>1. CASE StartRunner
    BY <1>1 DEF StartRunner, Following, Polling, Since, Followed, NoLog, logVars, pollVars
  <1>2. CASE RemoveLog
    BY <1>2 DEF RemoveLog, Following, Polling, Since, Followed, NoLog, logVars, pollVars
  <1>3. CASE Launch
    BY <1>3 DEF Launch, Following, Polling, Since, Followed, NoLog, logVars, pollVars
  <1>4. CASE Prepare
    BY <1>4 DEF Prepare, Following, Polling, Since, Followed, NoLog, logVars, pollVars
  <1>5. CASE BeginLine
    <2>1. /\ log'.halves = Append(log.halves, [event |-> [life |-> life, n |-> emitted], last |-> FALSE])
          /\ log.halves \in Seq(Half) /\ log'.halves \in Seq(Half)
      BY <1>5 DEF BeginLine, Writes, TypeOK
    <2>2. /\ Len(log.halves) \in Nat /\ Len(log'.halves) = Len(log.halves) + 1
          /\ \A k \in 1 .. Len(log.halves) : log'.halves[k] = log.halves[k]
      BY <2>1
    <2>3. UNCHANGED <<ready, poller, offset, known, pending, base, got, mark>>
      BY <1>5 DEF BeginLine, pollVars
    <2>4. ASSUME Polling, known = ready, ready # 0
          PROVE  /\ offset <= Len(log'.halves) \/ base = offset
                 /\ SubSeq(log'.halves, base + 1, offset) = SubSeq(log.halves, base + 1, offset)
      <3>1. base <= offset /\ (offset <= Len(log.halves) \/ base = offset)
        BY <2>4 DEF Following
      <3> DEFINE g == log.halves
                 h == log'.halves
      <3>2. /\ g \in Seq(Half) /\ h \in Seq(Half) /\ Len(g) <= Len(h)
            /\ \A k \in 1 .. Len(g) : h[k] = g[k]
            /\ base \in Nat /\ offset \in Nat /\ base <= offset
            /\ offset <= Len(g) \/ base = offset
        BY <2>1, <2>2, <3>1
      <3>3. offset <= Len(h) \/ base = offset
        BY <2>1, <2>2, <3>1
      <3> HIDE DEF g, h
      <3>4. SubSeq(h, base + 1, offset) = SubSeq(g, base + 1, offset)
        BY <3>2, ReadKept
      <3> QED
        BY <3>3, <3>4 DEF g, h
    <2> QED
      BY <2>3, <2>4 DEF Following, Polling, Since, Followed
  <1>6. CASE EndLine
    <2>1. /\ log'.halves = Append(log.halves, [event |-> [life |-> life, n |-> emitted - 1], last |-> TRUE])
          /\ log.halves \in Seq(Half) /\ log'.halves \in Seq(Half)
      BY <1>6 DEF EndLine, Writes, TypeOK
    <2>2. /\ Len(log.halves) \in Nat /\ Len(log'.halves) = Len(log.halves) + 1
          /\ \A k \in 1 .. Len(log.halves) : log'.halves[k] = log.halves[k]
      BY <2>1
    <2>3. UNCHANGED <<ready, poller, offset, known, pending, base, got, mark>>
      BY <1>6 DEF EndLine, pollVars
    <2>4. ASSUME Polling, known = ready, ready # 0
          PROVE  /\ offset <= Len(log'.halves) \/ base = offset
                 /\ SubSeq(log'.halves, base + 1, offset) = SubSeq(log.halves, base + 1, offset)
      <3>1. base <= offset /\ (offset <= Len(log.halves) \/ base = offset)
        BY <2>4 DEF Following
      <3> DEFINE g == log.halves
                 h == log'.halves
      <3>2. /\ g \in Seq(Half) /\ h \in Seq(Half) /\ Len(g) <= Len(h)
            /\ \A k \in 1 .. Len(g) : h[k] = g[k]
            /\ base \in Nat /\ offset \in Nat /\ base <= offset
            /\ offset <= Len(g) \/ base = offset
        BY <2>1, <2>2, <3>1
      <3>3. offset <= Len(h) \/ base = offset
        BY <2>1, <2>2, <3>1
      <3> HIDE DEF g, h
      <3>4. SubSeq(h, base + 1, offset) = SubSeq(g, base + 1, offset)
        BY <3>2, ReadKept
      <3> QED
        BY <3>3, <3>4 DEF g, h
    <2> QED
      BY <2>3, <2>4 DEF Following, Polling, Since, Followed
  <1>7. CASE WriteReady
    <2>1. ready' = life /\ life > 0 /\ known # life /\ known' = known /\ poller' = poller
      BY <1>7 DEF WriteReady, Bridge, Alive, pollVars
    <2>2. base' = base /\ offset' = offset
      BY <1>7 DEF WriteReady, pollVars
    <2> QED
      BY <2>1, <2>2 DEF Following
  <1>8. CASE Die
    BY <1>8 DEF Die, Following, Polling, Since, Followed, NoLog, logVars, pollVars
  <1>9. CASE Reap
    BY <1>9 DEF Reap, Following, Polling, Since, Followed, NoLog, logVars, pollVars
  <1>10. CASE StartApp
    BY <1>10 DEF StartApp, Following, Polling, Since, Followed, NoLog, logVars, pollVars
  <1>11. CASE StartPolling
    BY <1>11 DEF StartPolling, Following, Polling, Since, Followed, NoLog, logVars, pollVars
  <1>12. CASE ReadStamp
    <2>1. got = <<>> /\ pending = <<>> /\ mark = 0 /\ base = offset
      BY <1>12 DEF ReadStamp, TailInv, Following
    <2>2. /\ UNCHANGED <<log, offset, pending, base, got, mark>>
          /\ poller' = "stamp"
      BY <1>12 DEF ReadStamp, logVars
    <2>3. SubSeq(log.halves, base + 1, offset) = <<>> /\ SubSeq(got, mark + 1, Len(got)) = <<>>
      BY <2>1, SubSeqEmpty
    <2>4. Since' = <<>> /\ Followed(offset)' = <<>> /\ pending' = <<>> /\ base' = offset'
      BY <2>1, <2>2, <2>3 DEF Since, Followed
    <2> QED
      BY <2>2, <2>4, LinesOfNone DEF Following
  <1>13. CASE CheckStamp
    <2>1. CASE ready # known
      <3>1. /\ UNCHANGED <<log, got>> /\ offset' = 0 /\ base' = 0 /\ pending' = <<>>
            /\ mark' = Len(got) /\ poller' # "begin"
        BY <1>13, <2>1 DEF CheckStamp, Rewind, logVars
      <3>2. SubSeq(log.halves, 0 + 1, 0) = <<>> /\ SubSeq(got, Len(got) + 1, Len(got)) = <<>>
        BY SubSeqEmpty
      <3>3. Since' = <<>> /\ Followed(offset)' = <<>>
        BY <3>1, <3>2 DEF Since, Followed
      <3> QED
        BY <3>1, <3>3, LinesOfNone DEF Following
    <2>2. CASE ~(ready # known)
      BY <1>13, <2>2 DEF CheckStamp, Following, Polling, Since, Followed, logVars
    <2> QED
      BY <2>1, <2>2
  <1>14. CASE CheckLength
    <2>1. CASE log.exists /\ Len(log.halves) < offset
      <3>1. /\ UNCHANGED <<log, got>> /\ offset' = 0 /\ base' = 0 /\ pending' = <<>>
            /\ mark' = Len(got) /\ poller' # "begin"
        BY <1>14, <2>1 DEF CheckLength, Rewind, logVars
      <3>2. SubSeq(log.halves, 0 + 1, 0) = <<>> /\ SubSeq(got, Len(got) + 1, Len(got)) = <<>>
        BY SubSeqEmpty
      <3>3. Since' = <<>> /\ Followed(offset)' = <<>>
        BY <3>1, <3>2 DEF Since, Followed
      <3> QED
        BY <3>1, <3>3, LinesOfNone DEF Following
    <2>2. CASE ~(log.exists /\ Len(log.halves) < offset)
      BY <1>14, <2>2 DEF CheckLength, Following, Polling, Since, Followed, logVars
    <2> QED
      BY <2>1, <2>2
  <1>15. CASE ReadLog
    <2> DEFINE x == SubSeq(log.halves, base + 1, offset)
               y == SubSeq(log.halves, offset + 1, Len(log.halves))
    <2>0. /\ UNCHANGED <<log, ready, known, base, mark>> /\ poller' = "stamp" /\ Polling
          /\ offset' = IF Len(log.halves) > offset THEN Len(log.halves) ELSE offset
      BY <1>15 DEF ReadLog, logVars, Polling
    <2>1. ASSUME known = ready, ready # 0
          PROVE  /\ base <= offset' /\ (offset' <= Len(log.halves) \/ base = offset')
                 /\ SubSeq(got', mark + 1, Len(got')) = Lines(SubSeq(log.halves, base + 1, offset'))
                 /\ pending' = Unfinished(SubSeq(log.halves, base + 1, offset'))
      <3>1. /\ base <= offset /\ (offset <= Len(log.halves) \/ base = offset)
            /\ SubSeq(got, mark + 1, Len(got)) = Lines(x) /\ pending = Unfinished(x)
        BY <2>0, <2>1 DEF Following, Since, Followed
      <3>2. /\ x \in Seq(Half) /\ y \in Seq(Half)
            /\ x \o y = SubSeq(log.halves, base + 1, offset')
        BY <2>0, <3>1, ReadOn
      <3>3. got' = got \o Lines(pending \o y) /\ pending' = Unfinished(pending \o y)
        BY <1>15 DEF ReadLog
      <3> HIDE DEF x, y
      <3>4. /\ Lines(x \o y) = Lines(x) \o Lines(Unfinished(x) \o y)
            /\ Unfinished(x \o y) = Unfinished(Unfinished(x) \o y)
            /\ Unfinished(x) \in Seq(Half)
        BY <3>2, LinesOnward
      <3>5. Lines(pending \o y) \in Seq(Event)
        <4>1. pending \o y \in Seq(Half)
          BY <3>1, <3>2, <3>4, Concat
        <4> QED
          BY <4>1, LinesTyped
      <3>6. SubSeq(got', mark + 1, Len(got'))
                = SubSeq(got, mark + 1, Len(got)) \o Lines(pending \o y)
        <4> DEFINE new == Lines(pending \o y)
        <4> HIDE DEF new
        <4>1. new \in Seq(Event) /\ got \in Seq(Event) /\ mark <= Len(got) /\ mark \in Nat
          BY <3>5 DEF new, TailInv, TypeOK
        <4>2. SubSeq(got \o new, mark + 1, Len(got \o new)) = SubSeq(got, mark + 1, Len(got)) \o new
          BY <4>1, SinceConcat
        <4> QED
          BY <3>3, <4>2 DEF new
      <3>7. base <= offset' /\ (offset' <= Len(log.halves) \/ base = offset')
        <4>1. Len(log.halves) \in Nat
          OBVIOUS
        <4> QED
          BY <2>0, <3>1, <4>1
      <3> QED
        BY <3>1, <3>2, <3>3, <3>4, <3>6, <3>7
    <2> QED
      BY <2>0, <2>1 DEF Following, Polling, Since, Followed
  <1>16. CASE UNCHANGED vars
    BY <1>16 DEF vars, logVars, pollVars, Following, Polling, Since, Followed, NoLog, logVars, pollVars
  <1> QED
    BY <1>1, <1>2, <1>3, <1>4, <1>5, <1>6, <1>7, <1>8, <1>9, <1>10, <1>11, <1>12, <1>13, <1>14, <1>15, <1>16 DEF Next, Service, Poll

\* Nothing is running and nothing was read.
LEMMA TailInitially == Init => TailIInv
  <1> SUFFICES ASSUME Init PROVE TailIInv
    OBVIOUS
  <1>1. TypeOK
    <2>1. <<>> \in Seq(Half) /\ <<>> \in Seq(Event)
      OBVIOUS
    <2>2. log \in [exists : BOOLEAN, halves : Seq(Half)]
      BY <2>1 DEF Init, NoLog
    <2>3. pending \in Seq(Half) /\ got \in Seq(Event)
      BY <2>1 DEF Init
    <2>4. 0 \in Nat /\ FALSE \in BOOLEAN
      OBVIOUS
    <2> QED
      BY <2>2, <2>3, <2>4 DEF Init, TypeOK
  <1> QED
    BY <1>1 DEF Init, TailIInv, TailInv, Bridge, Following, Alive, Polling, NoLog

\* The four lemmas together.
LEMMA TailInductive == TailIInv /\ [Next]_vars => TailIInv'
  BY TypeStep, BridgeStep, TailStep, FollowingStep DEF TailIInv

\* The log holds lines of the last runner only, and once the poll thread has seen
\* its stamp the listener holds none of an earlier one, for any number of restarts
\* of the runner and of the app.
THEOREM OneRunnersLines == Spec => []TailInv
  <1>1. TailIInv => TailInv
    BY DEF TailIInv
  <1> QED
    BY <1>1, TailInitially, TailInductive, PTL DEF Spec

\* While the app follows the runner that is up, the listener was given exactly the
\* complete lines of the bytes read so far, in order and each once.
THEOREM LinesInOrderOnce == Spec => []TailExact
  <1>1. TailIInv => TailExact
    BY DEF TailIInv, Following, TailExact
  <1> QED
    BY <1>1, TailInitially, TailInductive, PTL DEF Spec
=============================================================================
