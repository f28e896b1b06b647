------------------------- MODULE SurvivalLoopProofs -------------------------
(***************************************************************************)
(* What a client gets from SurvivalCoordinator.Run, for any number of      *)
(* retries and recoveries, any frames and any settings: one end where the  *)
(* bridges latch the gate, an end in every case, no place of the answer    *)
(* twice, and the whole answer with a success.                             *)
(*                                                                         *)
(* First come the laws of FlattenSeq and of the alignment of a replay with *)
(* the committed prefix.  Then the steps are put into a shape that proofs  *)
(* can use: a call of the gate is one of eight (GateStep), a step of Next  *)
(* belongs to the attempt, to the final flush or to the loop (LoopCases).  *)
(* Struct says how gate, plan and observed prefix fit together; each of    *)
(* the four properties has an invariant of its own on top of it.  None of  *)
(* them says anything of a client that is gone, to whom nothing is sent    *)
(* any more (GoneStill).                                                   *)
(***************************************************************************)
EXTENDS SurvivalLoop, WellFoundedInduction, TLAPS

-----------------------------------------------------------------------------
(* Flattening frames.  The library defines FlattenSeq by a recursive       *)
(* function; its laws are proved by the least counterexample.              *)

\* A nonempty set of naturals has a least element: the substitute for
\* induction in the lemmas on FlattenSeq.
LEMMA LeastNat == ASSUME NEW S, S \subseteq Nat, S # {} PROVE \E x \in S : \A y \in S : x <= y
  <1>1. PICK x \in S : \A y \in S : <<y, x>> \notin OpToRel(<, Nat)
    BY NatLessThanWellFounded, WFMin, Zenon
  <1>2. ASSUME NEW y \in S PROVE x <= y
    <2>1. <<y, x>> \in Nat \X Nat
      OBVIOUS
    <2>2. ~(y < x)
      BY <1>1, <2>1 DEF OpToRel
    <2> QED BY <2>2
  <1> QED BY <1>2

\* f[i] is the concatenation of the first i sequences.
Joins(f, seqs, n) == f = [i \in 1..n |-> IF i = 1 THEN seqs[i] ELSE f[i-1] \o seqs[i]]

LEMMA JoinsExists == ASSUME NEW seqs, NEW N \in Nat \ {0} PROVE \E f : Joins(f, seqs, N)
  <1> SUFFICES ASSUME ~\E f : Joins(f, seqs, N) PROVE FALSE
    OBVIOUS
  <1> DEFINE Bad == {n \in 1..N : ~\E f : Joins(f, seqs, n)}
  <1>1. N \in Bad /\ Bad \subseteq Nat
    OBVIOUS
  <1>2. PICK n \in Bad : \A y \in Bad : n <= y
    BY <1>1, LeastNat
  <1>3. n \in 1..N /\ ~\E f : Joins(f, seqs, n)
    OBVIOUS
  <1>4. CASE n = 1
    <2> DEFINE f == [i \in 1..1 |-> seqs[i]]
    <2>1. f = [i \in 1..1 |-> IF i = 1 THEN seqs[i] ELSE f[i-1] \o seqs[i]]
      OBVIOUS
    <2> QED BY <1>3, <1>4, <2>1 DEF Joins
  <1>5. CASE n # 1
    <2>1. n - 1 \in 1..N /\ n - 1 \notin Bad /\ n - 1 \in 1..n /\ n - 1 # n /\ n \in 1..n
      BY <1>2, <1>3, <1>5
    <2>2. PICK f : Joins(f, seqs, n - 1)
      BY <2>1
    <2> DEFINE g == [i \in 1..n |-> IF i = n THEN f[n-1] \o seqs[n] ELSE f[i]]
    <2>3. ASSUME NEW i \in 1..n PROVE g[i] = IF i = 1 THEN seqs[i] ELSE g[i-1] \o seqs[i]
      <3>1. CASE i = n
        <4>1. g[n] = f[n-1] \o seqs[n] /\ g[n-1] = f[n-1]
          BY <2>1
        <4> QED BY <1>5, <3>1, <4>1
      <3>2. CASE i # n
        <4>1. i \in 1..(n-1) /\ n \in Nat
          BY <1>3, <2>3, <3>2
        <4>2. f[i] = IF i = 1 THEN seqs[i] ELSE f[i-1] \o seqs[i]
          BY <2>2, <4>1 DEF Joins
        <4>3. i # 1 => i - 1 \in 1..n /\ i - 1 # n
          BY <4>1
        <4> QED BY <3>2, <4>2, <4>3
      <3> QED BY <3>1, <3>2
    <2>4. Joins(g, seqs, n)
      BY <2>3 DEF Joins
    <2> QED BY <1>3, <2>4
  <1> QED BY <1>4, <1>5

LEMMA FlattenIs == ASSUME NEW seqs, Len(seqs) \in Nat, Len(seqs) # 0
  PROVE \E f : Joins(f, seqs, Len(seqs)) /\ FlattenSeq(seqs) = f[Len(seqs)]
  <1> DEFINE n == Len(seqs)
             fl == CHOOSE f : f = [i \in 1..Len(seqs) |-> IF i = 1 THEN seqs[i] ELSE f[i-1] \o seqs[i]]
  <1>1. FlattenSeq(seqs) = fl[Len(seqs)]
    BY DEF FlattenSeq
  <1>2. PICK f : Joins(f, seqs, Len(seqs))
    BY JoinsExists
  <1>3. f = [i \in 1..Len(seqs) |-> IF i = 1 THEN seqs[i] ELSE f[i-1] \o seqs[i]]
    BY <1>2 DEF Joins
  <1>4. fl = [i \in 1..Len(seqs) |-> IF i = 1 THEN seqs[i] ELSE fl[i-1] \o seqs[i]]
    BY <1>3, Zenon
  <1>5. Joins(fl, seqs, Len(seqs))
    BY <1>4 DEF Joins
  <1> QED BY <1>1, <1>5

\* What comes behind the first n sequences does not change their concatenation.
LEMMA JoinsAgree ==
  ASSUME NEW f, NEW g, NEW s, NEW t, NEW n \in Nat, NEW m \in Nat,
         Joins(f, s, m) /\ Joins(g, t, n) /\ n <= m /\ \A i \in 1..n : s[i] = t[i]
  PROVE  \A i \in 1..n : f[i] = g[i]
  <1> SUFFICES ASSUME ~\A i \in 1..n : f[i] = g[i] PROVE FALSE
    OBVIOUS
  <1> DEFINE Bad == {i \in 1..n : f[i] # g[i]}
  <1>1. Bad \subseteq Nat /\ Bad # {}
    OBVIOUS
  <1>2. PICK i \in Bad : \A y \in Bad : i <= y
    BY <1>1, LeastNat
  <1>3. i \in 1..n /\ i \in 1..m
    BY <1>2
  <1>4. f[i] = (IF i = 1 THEN s[i] ELSE f[i-1] \o s[i]) /\ g[i] = (IF i = 1 THEN t[i] ELSE g[i-1] \o t[i])
    BY <1>3 DEF Joins
  <1>5. i # 1 => i - 1 \in 1..n /\ ~(i <= i - 1)
    BY <1>3
  <1>6. i # 1 => f[i-1] = g[i-1]
    BY <1>2, <1>5
  <1> QED BY <1>2, <1>3, <1>4, <1>6

LEMMA JoinsTyped ==
  ASSUME NEW f, NEW s, NEW n \in Nat, Joins(f, s, n), NEW S, \A i \in 1..n : s[i] \in Seq(S)
  PROVE \A i \in 1..n : f[i] \in Seq(S)
  <1> SUFFICES ASSUME ~\A i \in 1..n : f[i] \in Seq(S) PROVE FALSE
    OBVIOUS
  <1> DEFINE Bad == {i \in 1..n : f[i] \notin Seq(S)}
  <1>1. Bad \subseteq Nat /\ Bad # {}
    OBVIOUS
  <1>2. PICK i \in Bad : \A y \in Bad : i <= y
    BY <1>1, LeastNat
  <1>4. f[i] = (IF i = 1 THEN s[i] ELSE f[i-1] \o s[i])
    BY <1>2 DEF Joins
  <1>5. i # 1 => i - 1 \in 1..n /\ ~(i <= i - 1)
    BY <1>2
  <1>6. i # 1 => f[i-1] \in Seq(S)
    BY <1>2, <1>5
  <1>7. f[i] \in Seq(S)
    BY <1>2, <1>4, <1>6
  <1> QED BY <1>2, <1>7

LEMMA JoinsLast ==
  ASSUME NEW f, NEW s, NEW m \in Nat, Joins(f, s, m), NEW n \in Nat, m = n + 1
  PROVE  f[m] = IF n = 0 THEN s[1] ELSE f[n] \o s[m]
  <1>1. m \in 1..m /\ (m = 1 <=> n = 0) /\ m - 1 = n
    OBVIOUS
  <1>2. f[m] = IF m = 1 THEN s[m] ELSE f[m - 1] \o s[m]
    BY <1>1 DEF Joins
  <1> QED BY <1>1, <1>2

LEMMA FlattenEmpty == FlattenSeq(<<>>) = <<>>
  BY DEF FlattenSeq

LEMMA FlattenType ==
  ASSUME NEW S, NEW b \in Seq(Seq(S)) PROVE FlattenSeq(b) \in Seq(S)
  <1>1. CASE Len(b) = 0
    <2>1. FlattenSeq(b) = b
      BY <1>1 DEF FlattenSeq
    <2>2. b = <<>>
      BY <1>1
    <2> QED BY <2>1, <2>2
  <1>2. CASE Len(b) # 0
    <2>1. Len(b) \in Nat
      OBVIOUS
    <2>2. PICK f : Joins(f, b, Len(b)) /\ FlattenSeq(b) = f[Len(b)]
      BY <1>2, <2>1, FlattenIs
    <2>3. \A i \in 1..Len(b) : b[i] \in Seq(S)
      OBVIOUS
    <2>4. \A i \in 1..Len(b) : f[i] \in Seq(S)
      BY <2>1, <2>2, <2>3, JoinsTyped
    <2> QED BY <1>2, <2>1, <2>2, <2>4
  <1> QED BY <1>1, <1>2

LEMMA FlattenAppend ==
  ASSUME NEW S, NEW b \in Seq(Seq(S)), NEW us \in Seq(S)
  PROVE FlattenSeq(Append(b, us)) = FlattenSeq(b) \o us
  <1> DEFINE a == Append(b, us)
             n == Len(b)
  <1>1. n \in Nat /\ Len(a) = n + 1 /\ a[n + 1] = us /\ \A i \in 1..n : a[i] = b[i]
    OBVIOUS
  <1>2. Len(a) \in Nat /\ Len(a) # 0
    BY <1>1
  <1> HIDE DEF a
  <1>3. PICK f : Joins(f, a, Len(a)) /\ FlattenSeq(a) = f[Len(a)]
    BY <1>2, FlattenIs
  <1> DEFINE m == Len(a)
  <1>4. f[m] = IF n = 0 THEN a[1] ELSE f[n] \o a[m]
    <2>1. n \in Nat /\ m \in Nat /\ m = n + 1 /\ Joins(f, a, m)
      BY <1>1, <1>3
    <2> HIDE DEF n, m
    <2> QED BY <2>1, JoinsLast
  <1>5. CASE n = 0
    <2>1. b = <<>>
      BY <1>5
    <2>2. FlattenSeq(a) = us
      BY <1>1, <1>3, <1>4, <1>5
    <2> QED BY <2>1, <2>2, FlattenEmpty DEF a
  <1>6. CASE n # 0
    <2>1. PICK g : Joins(g, b, n) /\ FlattenSeq(b) = g[n]
      BY <1>1, <1>6, FlattenIs
    <2>2. \A i \in 1..n : f[i] = g[i]
      <3>1. n \in Nat /\ m \in Nat 
        BY <1>1
      <3>2. Joins(f, a, m) /\ Joins(g, b, n) /\ n <= m /\ \A i \in 1..n : a[i] = b[i]
        BY <1>1, <1>3, <2>1
      <3> HIDE DEF n, m
      <3> QED BY <3>1, <3>2, JoinsAgree, SMTT(40)
    <2>3. f[n] = g[n]
      BY <1>1, <1>6, <2>2
    <2>4. FlattenSeq(a) = f[n] \o us
      BY <1>1, <1>3, <1>4, <1>6, <2>3
    <2> QED BY <2>1, <2>3, <2>4 DEF a
  <1> QED BY <1>5, <1>6

\* The flattening of frames k to i + 1 adds frame i + 1 to that of k to i.
LEMMA FlattenGrows ==
  ASSUME NEW S, NEW s \in Seq(Seq(S)), NEW k \in Nat \ {0}, NEW i \in Nat, k <= i + 1, i < Len(s)
  PROVE  /\ FlattenSeq(SubSeq(s, k, i + 1)) = FlattenSeq(SubSeq(s, k, i)) \o s[i + 1]
         /\ FlattenSeq(SubSeq(s, k, i)) \in Seq(S)
         /\ s[i + 1] \in Seq(S)
  <1>1. SubSeq(s, k, i + 1) = Append(SubSeq(s, k, i), s[i + 1])
    OBVIOUS
  <1>2. SubSeq(s, k, i) \in Seq(Seq(S)) /\ s[i + 1] \in Seq(S)
    OBVIOUS
  <1>3. FlattenSeq(Append(SubSeq(s, k, i), s[i + 1])) = FlattenSeq(SubSeq(s, k, i)) \o s[i + 1]
    BY <1>2, FlattenAppend
  <1>4. FlattenSeq(SubSeq(s, k, i)) \in Seq(S)
    BY <1>2, FlattenType
  <1> QED BY <1>1, <1>2, <1>3, <1>4

\* Concatenation groups either way.
LEMMA Regroup ==
  ASSUME NEW S, NEW a \in Seq(S), NEW b \in Seq(S), NEW c \in Seq(S)
  PROVE  (a \o b) \o c = a \o (b \o c)
  BY SMTT(40)

\* Flattening a prefix and the rest is flattening the whole.
LEMMA FlattenSplit ==
  ASSUME NEW S, NEW s \in Seq(Seq(S)), NEW k \in Nat, k <= Len(s)
  PROVE  FlattenSeq(s) = FlattenSeq(SubSeq(s, 1, k)) \o FlattenSeq(SubSeq(s, k + 1, Len(s)))
  <1> DEFINE n == Len(s)
             Pre(j) == FlattenSeq(SubSeq(s, 1, j))
             Mid(j) == FlattenSeq(SubSeq(s, k + 1, j))
             Bad == {j \in k..n : Pre(j) # Pre(k) \o Mid(j)}
  <1>1. n \in Nat /\ k <= n /\ 1 \in Nat \ {0} /\ k + 1 \in Nat \ {0}
    OBVIOUS
  <1>2. \A i \in Nat : i < n => /\ Pre(i + 1) = Pre(i) \o s[i + 1]
                               /\ Pre(i) \in Seq(S) /\ s[i + 1] \in Seq(S)
    <2> SUFFICES ASSUME NEW i \in Nat, i < n
                 PROVE  Pre(i + 1) = Pre(i) \o s[i + 1] /\ Pre(i) \in Seq(S) /\ s[i + 1] \in Seq(S)
      OBVIOUS
    <2>1. 1 <= i + 1 /\ 1 \in Nat \ {0}
      OBVIOUS
    <2> QED BY <2>1, FlattenGrows, Zenon
  <1>3. \A i \in Nat : (k <= i /\ i < n) => Mid(i + 1) = Mid(i) \o s[i + 1] /\ Mid(i) \in Seq(S)
    <2> SUFFICES ASSUME NEW i \in Nat, k <= i, i < n
                 PROVE  Mid(i + 1) = Mid(i) \o s[i + 1] /\ Mid(i) \in Seq(S)
      OBVIOUS
    <2>1. k + 1 <= i + 1 /\ k + 1 \in Nat \ {0}
      OBVIOUS
    <2> QED BY <2>1, FlattenGrows, Zenon
  <1>4. Mid(k) = <<>>
    <2>1. SubSeq(s, k + 1, k) = <<>>
      OBVIOUS
    <2> QED BY <2>1, FlattenEmpty
  <1>5. Pre(k) \in Seq(S)
    <2>1. SubSeq(s, 1, k) \in Seq(Seq(S))
      OBVIOUS
    <2> QED BY <2>1, FlattenType
  <1>6. SubSeq(s, 1, n) = s
    OBVIOUS
  <1>7. Pre(n) = FlattenSeq(s)
    BY <1>6
  <1> HIDE DEF n, Pre, Mid
  <1>8. Bad = {}
    <2> SUFFICES ASSUME Bad # {} PROVE FALSE
      OBVIOUS
    <2>1. Bad \subseteq Nat
      BY <1>1
    <2>2. PICK j \in Bad : \A y \in Bad : j <= y
      BY <2>1, LeastNat
    <2>3. j \in k..n /\ Pre(j) # Pre(k) \o Mid(j)
      BY <2>2
    <2>4. CASE j = k
      BY <1>4, <1>5, <2>3, <2>4
    <2>5. CASE j # k
      <3>1. PICK i \in Nat : j = i + 1
        BY <1>1, <2>3, <2>5
      <3>2. i \in k..n /\ i < n /\ k <= i /\ ~(j <= i)
        BY <1>1, <2>3, <2>5, <3>1
      <3>3. Pre(i) = Pre(k) \o Mid(i)
        BY <2>2, <3>2
      <3>4. Pre(j) = Pre(i) \o s[j] /\ Mid(j) = Mid(i) \o s[j] /\ Mid(i) \in Seq(S) /\ s[j] \in Seq(S)
        BY <1>2, <1>3, <3>1, <3>2
      <3>5. (Pre(k) \o Mid(i)) \o s[j] = Pre(k) \o (Mid(i) \o s[j])
        <4>1. Pre(k) \in Seq(S) /\ Mid(i) \in Seq(S) /\ s[j] \in Seq(S)
          BY <1>5, <3>4
        <4>2. \A a, b, c \in Seq(S) : (a \o b) \o c = a \o (b \o c)
          BY Regroup, SMTT(40)
        <4> QED BY <4>1, <4>2, Zenon
      <3> QED BY <2>3, <3>3, <3>4, <3>5, Zenon
    <2> QED BY <2>4, <2>5
  <1>9. Pre(n) = Pre(k) \o Mid(n)
    <2>1. n \in k..n
      BY <1>1
    <2> QED BY <1>8, <2>1, Zenon
  <1> QED BY <1>7, <1>9 DEF Pre, Mid, n

-----------------------------------------------------------------------------
(* Alignment.                                                              *)

\* The common prefix of two sequences exists and is one.
LEMMA CommonPrefix ==
  ASSUME NEW a \in Seq(Int), NEW b \in Seq(Int)
  PROVE  /\ CommonPrefixLen(a, b) \in 0..Len(a) /\ CommonPrefixLen(a, b) <= Len(b)
         /\ \A i \in 1..CommonPrefixLen(a, b) : a[i] = b[i]
  <1> DEFINE Stop == {n \in Nat : n = Len(a) \/ n = Len(b) \/ a[n + 1] # b[n + 1]}
             P(n) == /\ n <= Len(b) /\ SubSeq(a, 1, n) = SubSeq(b, 1, n)
                     /\ n = Len(a) \/ n = Len(b) \/ a[n + 1] # b[n + 1]
  <1>1. Len(a) \in Stop /\ Len(b) \in Stop /\ Stop \subseteq Nat
    OBVIOUS
  <1>2. PICK n \in Stop : \A y \in Stop : n <= y
    BY <1>1, LeastNat
  <1>3. n \in 0..Len(a) /\ n <= Len(b)
    BY <1>1, <1>2
  <1>4. ASSUME NEW i \in 1..n PROVE a[i] = b[i]
    <2>1. PICK j \in Nat : i = j + 1
      BY <1>3
    <2>2. ~(n <= j)
      BY <1>3, <2>1
    <2> QED BY <1>2, <2>1, <2>2
  <1>5. SubSeq(a, 1, n) = SubSeq(b, 1, n)
    BY <1>3, <1>4
  <1>6. n \in 0..Len(a) /\ P(n)
    BY <1>2, <1>3, <1>5
  <1> DEFINE c == CommonPrefixLen(a, b)
  <1>7. c \in 0..Len(a) /\ P(c)
    <2>1. \E x \in 0..Len(a) : P(x)
      BY <1>6
    <2>2. c = CHOOSE x \in 0..Len(a) : P(x)
      BY DEF CommonPrefixLen
    <2> HIDE DEF P, c
    <2> QED BY <2>1, <2>2
  <1>8. ASSUME NEW i \in 1..c PROVE a[i] = b[i]
    <2>1. c \in 0..Len(a) /\ c <= Len(b) /\ SubSeq(a, 1, c) = SubSeq(b, 1, c)
      BY <1>7
    <2> HIDE DEF c
    <2>2. SubSeq(a, 1, c)[i] = a[i] /\ SubSeq(b, 1, c)[i] = b[i]
      BY <2>1
    <2> QED BY <2>1, <2>2
  <1> QED BY <1>7, <1>8

\* A score of 10000 basis points is the whole.
LEMMA FullScore ==
  ASSUME NEW c \in Nat, NEW l \in Nat \ {0}, c <= l, (c * 10000) \div l >= 10000
  PROVE  c = l
  OBVIOUS

\* What an aligned replay leaves out, the client has: the fresh stream equals
\* the prefix up to the offset, and the offset is its whole length when the
\* threshold asks for all of it.
LEMMA AlignedPrefix ==
  ASSUME NEW p \in Seq(Int), NEW fresh \in Seq(Int), p # <<>>, conf.window \in Nat \ {0},
         Len(fresh) >= Len(p), Align(p, fresh).aligned
  PROVE  /\ Align(p, fresh).offset \in 0..Len(p)
         /\ \A i \in 1..Align(p, fresh).offset : fresh[i] = p[i]
         /\ conf.threshold = 10000 => Align(p, fresh).offset = Len(p)
  <1>1. Len(p) \in Nat \ {0}
    OBVIOUS
  <1>2. CASE Len(p) <= conf.window
    <2> DEFINE c == CommonPrefixLen(p, fresh)
    <2>1. HeadOf(p) = p
      BY <1>1, <1>2 DEF HeadOf
    <2>2. Align(p, fresh) = [aligned |-> (c * 10000) \div Len(p) >= conf.threshold, offset |-> c]
      BY <1>2, <2>1 DEF Align
    <2>3. c \in 0..Len(p) /\ \A i \in 1..c : p[i] = fresh[i]
      BY CommonPrefix
    <2> HIDE DEF c
    <2> DEFINE enough == (c * 10000) \div Len(p) >= conf.threshold
    <2>a. Align(p, fresh) = [aligned |-> enough, offset |-> c]
      BY <2>2
    <2> HIDE DEF enough
    <2>c. Align(p, fresh).offset = c /\ Align(p, fresh).aligned = enough
      BY <2>a
    <2>b. Align(p, fresh).offset = c /\ enough
      BY <2>c, Zenon
    <2>4. Align(p, fresh).offset = c /\ (c * 10000) \div Len(p) >= conf.threshold
      BY <2>b DEF enough
    <2>5. conf.threshold = 10000 => c = Len(p)
      <3>1. c \in Nat /\ c <= Len(p)
        BY <1>1, <2>3
      <3> SUFFICES ASSUME conf.threshold = 10000 PROVE c = Len(p)
        OBVIOUS
      <3>2. (c * 10000) \div Len(p) >= 10000
        BY <2>4
      <3> QED BY <1>1, <3>1, <3>2, FullScore
    <2> QED BY <2>3, <2>4, <2>5
  <1>3. CASE ~(Len(p) <= conf.window)
    <2> DEFINE whole == Len(fresh) >= Len(p) /\ SubSeq(fresh, 1, Len(p)) = p
    <2>1. Align(p, fresh) = [aligned |-> whole, offset |-> Len(p)]
      BY <1>3 DEF Align
    <2> HIDE DEF whole
    <2>b. Align(p, fresh).aligned = whole /\ Align(p, fresh).offset = Len(p)
      BY <2>1
    <2>a. whole /\ Align(p, fresh).offset = Len(p)
      BY <2>b, Zenon
    <2>2. SubSeq(fresh, 1, Len(p)) = p /\ Align(p, fresh).offset = Len(p)
      BY <2>a DEF whole
    <2>3. \A i \in 1..Len(p) : SubSeq(fresh, 1, Len(p))[i] = fresh[i]
      BY <1>1
    <2> QED BY <1>1, <2>2, <2>3
  <1> QED BY <1>2, <1>3

\* What an aligned replay forwards: a tail of the fresh stream, from the offset
\* or later.
LEMMA SuffixTail ==
  ASSUME NEW frames \in Seq(Seq(Int)), NEW offset \in Nat
  PROVE  /\ Suffix(frames, offset) \in Seq(Int)
         /\ Suffix(frames, offset) # <<>> =>
              \E k \in Nat : /\ k >= offset /\ k + Len(Suffix(frames, offset)) = Len(FlattenSeq(frames))
                             /\ \A i \in 1..Len(Suffix(frames, offset)) :
                                  Suffix(frames, offset)[i] = FlattenSeq(frames)[k + i]
  <1> DEFINE past == {i \in 1..Len(frames) : StartOf(frames, i) >= offset}
  <1>1. CASE past = {}
    BY <1>1 DEF Suffix
  <1>2. CASE past # {}
    <2>1. past \subseteq Nat
      OBVIOUS
    <2>2. Min(past) \in past
      <3>1. \E x \in past : \A y \in past : x <= y
        BY <1>2, <2>1, LeastNat
      <3> HIDE DEF past
      <3> QED BY <3>1 DEF Min
    <2> DEFINE m == Min(past)
               k == m - 1
               head == FlattenSeq(SubSeq(frames, 1, k))
               tail == FlattenSeq(SubSeq(frames, m, Len(frames)))
    <2>3. Suffix(frames, offset) = tail
      BY <1>2 DEF Suffix
    <2>4. m \in 1..Len(frames) /\ Len(head) >= offset
      BY <2>2 DEF StartOf
    <2> HIDE DEF m
    <2>5. k \in Nat /\ k <= Len(frames) /\ k + 1 = m
      BY <2>4
    <2>6. SubSeq(frames, 1, k) \in Seq(Seq(Int)) /\ SubSeq(frames, m, Len(frames)) \in Seq(Seq(Int))
      BY <2>4, <2>5
    <2>7. head \in Seq(Int) /\ tail \in Seq(Int)
      BY <2>6, FlattenType
    <2> HIDE DEF k
    <2>8. FlattenSeq(frames) = head \o tail
      BY <2>5, FlattenSplit
    <2> HIDE DEF head, tail
    <2>9. /\ Len(head) \in Nat /\ Len(head) + Len(tail) = Len(FlattenSeq(frames))
          /\ \A i \in 1..Len(tail) : tail[i] = FlattenSeq(frames)[Len(head) + i]
      BY <2>7, <2>8
    <2> QED BY <2>3, <2>4, <2>7, <2>9
  <1> QED BY <1>1, <1>2

\* The frame that completes the alignment is left out only if it starts before
\* the offset.
LEMMA SuffixEmpty ==
  ASSUME NEW buf \in Seq(Seq(Int)), NEW us \in Seq(Int), us # <<>>, NEW offset \in Nat,
         Suffix(Append(buf, us), offset) = <<>>
  PROVE  Len(FlattenSeq(buf)) < offset
  <1> DEFINE frames == Append(buf, us)
             n == Len(buf)
             past == {i \in 1..Len(frames) : StartOf(frames, i) >= offset}
  <1>1. n \in Nat /\ Len(frames) = n + 1 /\ frames \in Seq(Seq(Int)) /\ frames[n + 1] = us
    OBVIOUS
  <1>2. SubSeq(frames, 1, n) = buf /\ n + 1 - 1 = n
    OBVIOUS
  <1>3. FlattenSeq(buf) \in Seq(Int)
    BY FlattenType
  <1> HIDE DEF frames, n
  <1>4. StartOf(frames, n + 1) = Len(FlattenSeq(buf))
    <2> DEFINE last == n + 1
    <2>1. last - 1 = n
      BY <1>1
    <2> HIDE DEF last
    <2>2. StartOf(frames, last) = Len(FlattenSeq(SubSeq(frames, 1, last - 1)))
      BY DEF StartOf
    <2>3. StartOf(frames, last) = Len(FlattenSeq(buf))
      BY <1>2, <2>1, <2>2
    <2> QED BY <2>3 DEF last
  <1>5. past = {}
    <2> SUFFICES ASSUME past # {} PROVE FALSE
      OBVIOUS
    <2>1. past \subseteq Nat
      OBVIOUS
    <2>2. Min(past) \in past
      <3>1. \E x \in past : \A y \in past : x <= y
        BY <2>1, LeastNat
      <3> HIDE DEF past
      <3> QED BY <3>1 DEF Min
    <2> DEFINE m == Min(past)
    <2>3. Suffix(frames, offset) = FlattenSeq(SubSeq(frames, m, Len(frames)))
      BY DEF Suffix
    <2>4. m \in Nat \ {0} /\ m <= n + 1
      BY <1>1, <2>2
    <2> HIDE DEF m
    <2>5. /\ FlattenSeq(SubSeq(frames, m, n + 1)) = FlattenSeq(SubSeq(frames, m, n)) \o us
          /\ FlattenSeq(SubSeq(frames, m, n)) \in Seq(Int)
      <3>1. n \in Nat /\ n < Len(frames) /\ m <= n + 1 /\ m \in Nat \ {0} /\ frames \in Seq(Seq(Int))
        BY <1>1, <2>4
      <3>2. /\ FlattenSeq(SubSeq(frames, m, n + 1)) = FlattenSeq(SubSeq(frames, m, n)) \o frames[n + 1]
            /\ FlattenSeq(SubSeq(frames, m, n)) \in Seq(Int)
        BY <3>1, FlattenGrows, Zenon
      <3> QED BY <1>1, <3>2
    <2>6. FlattenSeq(SubSeq(frames, m, n)) \o us # <<>>
      BY <2>5
    <2> QED BY <1>1, <2>3, <2>5, <2>6 DEF frames
  <1>6. ~(StartOf(frames, n + 1) >= offset)
    <2>1. n + 1 \in 1..Len(frames)
      BY <1>1
    <2> QED BY <1>5, <2>1, Zenon
  <1> QED BY <1>3, <1>4, <1>6

\* What a replay leaves out of the fresh stream, beyond the offset, is the rest
\* of one frame.
Skipped(frames, offset) == Len(FlattenSeq(frames)) - Len(Suffix(frames, offset))

LEMMA SuffixGap ==
  ASSUME NEW frames \in Seq(Seq(Int)), NEW offset \in Nat
  PROVE  \/ Skipped(frames, offset) <= offset
         \/ \E j \in 1..Len(frames) : Skipped(frames, offset) < offset + Len(frames[j])
  <1> DEFINE n == Len(frames)
             P(j) == Len(FlattenSeq(SubSeq(frames, 1, j)))
             past == {i \in 1..n : StartOf(frames, i) >= offset}
             total == Len(FlattenSeq(frames))
  <1>1. n \in Nat
    OBVIOUS
  <1>2. ASSUME NEW j \in Nat, j < n
        PROVE  P(j + 1) = P(j) + Len(frames[j + 1]) /\ P(j) \in Nat /\ Len(frames[j + 1]) \in Nat
    <2> DEFINE front == FlattenSeq(SubSeq(frames, 1, j))
               next == frames[j + 1]
               more == FlattenSeq(SubSeq(frames, 1, j + 1))
    <2>1. more = front \o next /\ front \in Seq(Int) /\ next \in Seq(Int)
      <3>1. 1 \in Nat \ {0} /\ 1 <= j + 1 /\ j < Len(frames) /\ frames \in Seq(Seq(Int))
        BY <1>2
      <3> QED BY <1>2, <3>1, FlattenGrows, Zenon
    <2> HIDE DEF front, next, more
    <2>2. Len(more) = Len(front) + Len(next) /\ Len(front) \in Nat /\ Len(next) \in Nat
      BY <2>1
    <2> QED BY <2>2 DEF front, next, more
  <1>3. P(0) = 0
    <2>1. SubSeq(frames, 1, 0) = <<>> /\ Len(<<>>) = 0
      OBVIOUS
    <2> QED BY <2>1, FlattenEmpty, Zenon
  <1>4. total = P(n) /\ total \in Nat
    <2>1. SubSeq(frames, 1, n) = frames
      OBVIOUS
    <2>2. total = P(n)
      BY <2>1, Zenon
    <2>3. FlattenSeq(frames) \in Seq(Int)
      BY FlattenType
    <2>4. total \in Nat
      BY <2>3
    <2> QED BY <2>2, <2>4
  <1>5. \A i \in 1..n : StartOf(frames, i) = P(i - 1)
    BY DEF StartOf
  <1> HIDE DEF P, total
  <1>6. ASSUME NEW i \in 1..n, i \notin past
        PROVE  P(i) < offset + Len(frames[i])
    <2> DEFINE j == i - 1
    <2>1. j \in Nat /\ j < n /\ j + 1 = i
      BY <1>1
    <2>2. ~(P(j) >= offset)
      BY <1>5, <1>6
    <2> HIDE DEF j
    <2>3. P(i) = P(j) + Len(frames[i]) /\ P(j) \in Nat /\ Len(frames[i]) \in Nat
      BY <1>2, <2>1
    <2> QED BY <2>2, <2>3
  <1>7. CASE past = {}
    <2>1. Suffix(frames, offset) = <<>>
      BY <1>7 DEF Suffix
    <2>2. Skipped(frames, offset) = P(n)
      BY <1>4, <2>1 DEF Skipped, total
    <2>3. CASE n = 0
      BY <1>3, <2>2, <2>3
    <2>4. CASE n # 0
      <3>1. n \in 1..n /\ n \notin past
        BY <1>1, <1>7, <2>4
      <3> QED BY <1>6, <2>2, <3>1
    <2> QED BY <2>3, <2>4
  <1>8. CASE past # {}
    <2>1. past \subseteq Nat
      OBVIOUS
    <2>2. Min(past) \in past /\ \A y \in past : Min(past) <= y
      <3>1. \E x \in past : \A y \in past : x <= y
        BY <1>8, <2>1, LeastNat
      <3> HIDE DEF past
      <3> QED BY <3>1 DEF Min
    <2> DEFINE m == Min(past)
               k == m - 1
               rest == FlattenSeq(SubSeq(frames, m, n))
    <2>3. Suffix(frames, offset) = rest
      BY <1>8 DEF Suffix
    <2>4. m \in 1..n /\ \A y \in past : m <= y
      BY <2>2
    <2> HIDE DEF m
    <2>5. k \in Nat /\ k <= n /\ k + 1 = m /\ k < m
      BY <1>1, <2>4
    <2>6. SubSeq(frames, 1, k) \in Seq(Seq(Int)) /\ SubSeq(frames, m, n) \in Seq(Seq(Int))
      BY <2>4, <2>5
    <2>7. FlattenSeq(SubSeq(frames, 1, k)) \in Seq(Int) /\ rest \in Seq(Int)
      BY <2>6, FlattenType
    <2> HIDE DEF k
    <2>8. FlattenSeq(frames) = FlattenSeq(SubSeq(frames, 1, k)) \o rest
      BY <2>5, FlattenSplit
    <2> HIDE DEF rest
    <2>9. total = P(k) + Len(rest) /\ P(k) \in Nat /\ Len(rest) \in Nat
      BY <2>7, <2>8 DEF total, P
    <2>10. Skipped(frames, offset) = P(k)
      <3>1. Skipped(frames, offset) = total - Len(rest)
        BY <2>3 DEF Skipped, total
      <3> QED BY <2>9, <3>1
    <2>11. CASE k = 0
      BY <1>3, <2>10, <2>11
    <2>12. CASE k # 0
      <3>1. k \in 1..n /\ k \notin past
        BY <1>1, <2>4, <2>5, <2>12
      <3> QED BY <1>6, <2>10, <3>1
    <2> QED BY <2>11, <2>12
  <1> QED BY <1>7, <1>8

-----------------------------------------------------------------------------
(* Steps.  What a call of the gate does, as one of eight effects, and the  *)
(* steps of an attempt in terms of them.                                   *)

Gates == [state : {0, Content, Terminal}, committed : BOOLEAN, failed : BOOLEAN, buf : Seq(Seq(Int)),
          held : Nat, replay : BOOLEAN, decided : BOOLEAN, aligned : BOOLEAN, rendered : BOOLEAN]

Types ==
  /\ conf \in Settings
  /\ phase \in {"top", "attempt", "judge", "wait", "done"}
  /\ gate \in Gates
  /\ stream \in [next : Nat \ {0}, diverged : BOOLEAN, over : BOOLEAN]
  /\ outcome \in Kinds \cup {"none", "ok"}
  /\ client \in Seq(Int) /\ observed \in Seq(Int) /\ plan \in Seq(Int)
  /\ succeed \in BOOLEAN /\ expired \in BOOLEAN /\ cancelled \in BOOLEAN /\ gone \in BOOLEAN

Quiet == UNCHANGED <<client, observed>>

\* The window keeps the frame.
HoldStep(us) ==
  /\ ~gate.replay /\ ~gate.committed /\ gate.held < conf.holdback /\ Quiet
  /\ gate' = [gate EXCEPT !.buf = Append(@, us), !.held = @ + 1]

\* The checkpoint fails.
StopStep(r) ==
  /\ conf.durable /\ r > gate.state /\ Quiet
  /\ gate' = [gate EXCEPT !.state = r, !.failed = TRUE]

\* The frame goes out behind the held ones.
SendStep(us) ==
  /\ gate.replay => gate.decided
  /\ Send(FlattenSeq(gate.buf) \o us)
  /\ gate' = [gate EXCEPT !.state = Higher(@, Rank(us)), !.committed = TRUE, !.buf = <<>>, !.failed = gone]

Fresh(us) == FlattenSeq(Append(gate.buf, us))

Beyond(us) == Suffix(Append(gate.buf, us), Align(plan, Fresh(us)).offset)

\* A replay: too short to tell, a miss, a failed checkpoint, a match.
ReplayHold(us) ==
  /\ gate.replay /\ ~gate.decided /\ Len(Fresh(us)) < Len(plan) /\ Quiet
  /\ gate' = [gate EXCEPT !.buf = Append(@, us)]

ReplayMiss ==
  /\ gate.replay /\ ~gate.decided /\ Quiet
  /\ gate' = [gate EXCEPT !.decided = TRUE, !.failed = TRUE]

ReplayStop ==
  /\ gate.replay /\ ~gate.decided /\ conf.durable /\ Quiet
  /\ gate' = [gate EXCEPT !.decided = TRUE, !.aligned = TRUE, !.failed = TRUE, !.state = Content]

ReplaySend(us) ==
  /\ gate.replay /\ ~gate.decided /\ Len(Fresh(us)) >= Len(plan) /\ Align(plan, Fresh(us)).aligned
  /\ Send(Beyond(us))
  /\ gate' = [gate EXCEPT !.decided = TRUE, !.aligned = TRUE, !.buf = <<>>,
                          !.state = IF End \in Range(Beyond(us)) THEN Terminal ELSE Content,
                          !.committed = Beyond(us) # <<>>, !.failed = gone /\ Beyond(us) # <<>>]

\* A match whose end of the stream fails its checkpoint.
ReplayCut(us) ==
  /\ gate.replay /\ ~gate.decided /\ Len(Fresh(us)) >= Len(plan) /\ Align(plan, Fresh(us)).aligned
  /\ conf.durable /\ Beyond(us) # <<>>
  /\ Send(Front(Beyond(us)))
  /\ gate' = [gate EXCEPT !.decided = TRUE, !.aligned = TRUE, !.buf = <<>>, !.state = Terminal,
                          !.committed = TRUE, !.failed = TRUE]

GateStep(us) ==
  \/ HoldStep(us) \/ StopStep(Rank(us)) \/ SendStep(us)
  \/ ReplayHold(us) \/ ReplayMiss \/ ReplayStop \/ ReplaySend(us) \/ ReplayCut(us)

LEMMA FrontType ==
  ASSUME NEW s \in Seq(Int), s # <<>>
  PROVE  /\ Front(s) \in Seq(Int) /\ Len(Front(s)) = Len(s) - 1
         /\ \A i \in 1..Len(s) - 1 : Front(s)[i] = s[i]
  <1>1. Len(s) \in Nat \ {0}
    OBVIOUS
  <1>2. Len(s) - 1 \in 0..Len(s)
    BY <1>1
  <1> DEFINE n == Len(s) - 1
  <1>3. \A k \in 0..Len(s) : SubSeq(s, 1, k) \in Seq(Int)
    OBVIOUS
  <1>4. \A k \in 0..Len(s) : Len(SubSeq(s, 1, k)) = k
    OBVIOUS
  <1>5. \A k \in 0..Len(s) : \A i \in 1..k : SubSeq(s, 1, k)[i] = s[i]
    OBVIOUS
  <1>6. n \in 0..Len(s) /\ Front(s) = SubSeq(s, 1, n)
    BY <1>2 DEF Front
  <1> HIDE DEF n
  <1>7. Front(s) \in Seq(Int) /\ Len(Front(s)) = n /\ \A i \in 1..n : Front(s)[i] = s[i]
    BY <1>3, <1>4, <1>5, <1>6
  <1> QED BY <1>7 DEF n

LEMMA Confs ==
  ASSUME Types
  PROVE  /\ conf.holdback \in Nat /\ conf.l2 \in BOOLEAN /\ conf.threshold \in 1..10000
         /\ conf.window \in Nat \ {0} /\ conf.durable \in BOOLEAN /\ conf.doneLatched \in BOOLEAN
         /\ conf.renders \subseteq {"none", "latched", "unlatched"} /\ conf.units \in Nat \ {0}
  <1>1. conf \in Settings
    BY Zenon DEF Types
  <1> QED BY <1>1, SurvivalAssumption

\* Only a durable request has checkpoints that fail.
LEMMA HookFails ==
  ASSUME NEW ok \in HookOk, ~ok PROVE conf.durable
  <1> SUFFICES ASSUME ~conf.durable PROVE FALSE
    OBVIOUS
  <1>1. HookOk = {TRUE}
    BY DEF HookOk
  <1>2. ok = TRUE
    BY <1>1, Zenon
  <1> QED BY <1>2, Zenon

LEMMA CommitCases ==
  ASSUME Types, NEW us, NEW ok \in HookOk, Commit(us, ok), gate.replay => gate.decided
  PROVE  StopStep(Rank(us)) \/ SendStep(us)
  <1>1. CASE Rank(us) > gate.state /\ ~ok
    <2>1. conf.durable
      BY <1>1, HookFails
    <2>2. Higher(gate.state, Rank(us)) = Rank(us)
      BY <1>1 DEF Higher, Rank, Content, Terminal, Types, Gates
    <2>3. Quiet /\ gate' = [gate EXCEPT !.state = Higher(@, Rank(us)), !.failed = TRUE]
      BY <1>1 DEF Commit, Blocked, Quiet
    <2>4. gate' = [gate EXCEPT !.state = Rank(us), !.failed = TRUE]
      BY <2>2, <2>3
    <2> QED BY <1>1, <2>1, <2>3, <2>4 DEF StopStep
  <1>2. CASE ~(Rank(us) > gate.state /\ ~ok)
    BY <1>2 DEF Commit, SendStep
  <1> QED BY <1>1, <1>2

LEMMA WriteCases ==
  ASSUME Types, NEW us, NEW elapsed \in BOOLEAN, NEW ok \in HookOk, Write(us, elapsed, ok)
  PROVE  GateStep(us)
  <1>1. CASE ~gate.replay
    <2>1. WriteFrame(us, elapsed, ok)
      BY <1>1 DEF Write
    <2>2. CASE Holds /\ ~elapsed
      BY <1>1, <2>1, <2>2 DEF WriteFrame, Holds, HoldStep, GateStep, Quiet
    <2>3. CASE ~(Holds /\ ~elapsed)
      BY <1>1, <2>1, <2>3, CommitCases DEF WriteFrame, GateStep
    <2> QED BY <2>2, <2>3
  <1>2. CASE gate.replay
    <2>1. WriteReplay(us, ok)
      BY <1>2 DEF Write
    <2>2. CASE gate.decided
      BY <2>1, <2>2, CommitCases DEF WriteReplay, GateStep
    <2>3. CASE ~gate.decided /\ Len(Fresh(us)) < Len(plan)
      BY <1>2, <2>1, <2>3 DEF WriteReplay, ReplayHold, GateStep, Quiet, Fresh
    <2>4. CASE ~gate.decided /\ ~(Len(Fresh(us)) < Len(plan)) /\ ~Align(plan, Fresh(us)).aligned
      BY <1>2, <2>1, <2>4 DEF WriteReplay, ReplayMiss, GateStep, Quiet, Fresh
    <2>5. CASE ~gate.decided /\ ~(Len(Fresh(us)) < Len(plan)) /\ Align(plan, Fresh(us)).aligned /\ ~ok
      <3>1. conf.durable
        BY <2>5, HookFails
      <3> QED BY <1>2, <2>1, <2>5, <3>1 DEF WriteReplay, ReplayStop, GateStep, Quiet, Fresh
    <2>6. CASE ~gate.decided /\ ~(Len(Fresh(us)) < Len(plan)) /\ Align(plan, Fresh(us)).aligned /\ ok
      <3> DEFINE b == Beyond(us)
      <3>1. PICK cut \in CutShort(b) :
              /\ Send(IF cut THEN Front(b) ELSE b)
              /\ gate' = [gate EXCEPT !.decided = TRUE, !.aligned = TRUE, !.buf = <<>>,
                                      !.state = IF End \in Range(b) THEN Terminal ELSE Content,
                                      !.committed = b # <<>>, !.failed = cut \/ (gone /\ b # <<>>)]
        BY <2>1, <2>6 DEF WriteReplay, Fresh, Beyond
      <3>2. gate \in Gates /\ Len(Fresh(us)) >= Len(plan)
        BY <2>6 DEF Types
      <3>3. CASE ~cut
        <4>1. (cut \/ (gone /\ b # <<>>)) = (gone /\ b # <<>>)
          BY <3>3, Zenon
        <4>2. Send(b)
          BY <3>1, <3>3
        <4> QED BY <1>2, <2>6, <3>1, <3>2, <4>1, <4>2 DEF ReplaySend, GateStep
      <3>4. CASE cut
        <4>1. conf.durable /\ End \in Range(b)
          BY <3>1, <3>4 DEF CutShort
        <4>2. b # <<>>
          BY <4>1 DEF Range
        <4>3. (b # <<>>) = TRUE /\ (cut \/ (gone /\ b # <<>>)) = TRUE
          BY <3>4, <4>2, Zenon
        <4>4. Send(Front(b))
          BY <3>1, <3>4
        <4> QED BY <1>2, <2>6, <3>1, <3>2, <4>1, <4>2, <4>3, <4>4 DEF ReplayCut, GateStep
      <3> QED BY <3>3, <3>4
    <2> QED BY <2>2, <2>3, <2>4, <2>5, <2>6
  <1> QED BY <1>1, <1>2

-----------------------------------------------------------------------------
(* The steps of an attempt.                                                *)

Writing == /\ phase = "attempt" /\ ~gate.failed /\ ~stream.over
           /\ UNCHANGED <<phase, loop, outcome, succeed, env>>

\* A frame of content: its units are the next places of the answer.
ContentFrame(us) ==
  /\ us \in Seq(Int) /\ Len(us) \in FrameSizes /\ Len(us) >= 1
  /\ \A i \in 1..Len(us) : us[i] # End /\ Place(us[i]) = stream.next + i - 1
  /\ stream' = [next |-> stream.next + Len(us), diverged |-> stream'.diverged, over |-> FALSE]
  /\ stream'.diverged \in BOOLEAN

LastFrame == ~conf.doneLatched /\ stream' = [stream EXCEPT !.over = TRUE]

\* The Responses bridge: flush of the window, and its own terminal.
Flushing ==
  /\ conf.doneLatched /\ ~gate.replay /\ ~gate.committed /\ gate.buf # <<>>
  /\ StopStep(Content) \/ SendStep(<<>>)
  /\ stream' = [stream EXCEPT !.over = gate'.failed]

OwnTerminal ==
  /\ conf.doneLatched /\ (~gate.replay => gate.buf = <<>>) /\ stream.next > 1
  /\ stream' = [stream EXCEPT !.over = TRUE]
  /\ \/ ~gate.committed /\ Quiet /\ gate' = gate
     \/ gate.committed /\ StopStep(Terminal)
     \/ /\ gate.committed /\ Send(<<End>>)
        /\ gate' = [gate EXCEPT !.state = Terminal, !.failed = gone, !.rendered = ~gone]

AttemptStep ==
  /\ Writing
  /\ \/ \E us : ContentFrame(us) /\ GateStep(us)
     \/ stream.next > 1 /\ LastFrame /\ GateStep(<<End>>)
     \/ Flushing
     \/ OwnTerminal

LEMMA FrameSteps ==
  ASSUME Types, NEW n \in FrameSizes, Frame(n)
  PROVE  AttemptStep
  <1>1. n \in Nat \ {0} /\ stream.next \in Nat \ {0}
    BY SurvivalAssumption DEF Types
  <1>2. PICK d \in BOOLEAN, elapsed \in BOOLEAN, ok \in HookOk :
          /\ Write([i \in 1..n |-> IF d THEN -(stream.next + i - 1) ELSE stream.next + i - 1], elapsed, ok)
          /\ stream' = [stream EXCEPT !.next = @ + n, !.diverged = d]
    BY DEF Frame
  <1> DEFINE us == [i \in 1..n |-> IF d THEN -(stream.next + i - 1) ELSE stream.next + i - 1]
  <1>3. us \in Seq(Int) /\ Len(us) = n
    BY <1>1
  <1>4. \A i \in 1..Len(us) : us[i] # End /\ Place(us[i]) = stream.next + i - 1
    BY <1>1, <1>3 DEF End, Place
  <1>5. GateStep(us)
    BY <1>2, WriteCases
  <1> HIDE DEF us
  <1>6. /\ stream' = [next |-> stream.next + Len(us), diverged |-> stream'.diverged, over |-> FALSE]
        /\ stream'.diverged \in BOOLEAN
    BY <1>2, <1>3 DEF Types, Frame
  <1>7. ContentFrame(us)
    BY <1>1, <1>3, <1>4, <1>6 DEF ContentFrame
  <1>8. Writing
    BY DEF Writing, Frame
  <1> QED BY <1>5, <1>7, <1>8 DEF AttemptStep

LEMMA FlushSteps ==
  ASSUME Types, FlushHeld
  PROVE  AttemptStep
  <1>1. PICK ok \in HookOk : Commit(<<>>, ok)
    BY DEF FlushHeld
  <1>2. Rank(<<>>) = Content
    BY DEF Rank
  <1>3. StopStep(Content) \/ SendStep(<<>>)
    BY <1>1, <1>2, CommitCases DEF FlushHeld
  <1>4. Flushing /\ Writing
    BY <1>3 DEF FlushHeld, Flushing, Writing
  <1> QED BY <1>4 DEF AttemptStep

LEMMA EndSteps ==
  ASSUME Types, EndFrame
  PROVE  AttemptStep
  <1>1. Writing /\ stream' = [stream EXCEPT !.over = TRUE] /\ stream.next > 1
    BY DEF EndFrame, Writing
  <1>2. PICK elapsed \in BOOLEAN, ok \in HookOk :
          IF ~conf.doneLatched THEN Write(<<End>>, elapsed, ok)
          ELSE IF ~gate.committed THEN UNCHANGED <<gate, client, observed>>
          ELSE IF Terminal > gate.state /\ ~ok THEN Blocked(Terminal)
          ELSE /\ Send(<<End>>)
               /\ gate' = [gate EXCEPT !.state = Terminal, !.failed = gone, !.rendered = ~gone]
    BY DEF EndFrame
  <1>3. CASE ~conf.doneLatched
    BY <1>1, <1>2, <1>3, WriteCases DEF AttemptStep, LastFrame
  <1>4. CASE conf.doneLatched
    <2>1. ~gate.replay => gate.buf = <<>>
      BY <1>4 DEF EndFrame
    <2>2. CASE ~gate.committed
      BY <1>1, <1>2, <1>4, <2>1, <2>2 DEF AttemptStep, OwnTerminal, Quiet
    <2>3. CASE gate.committed /\ Terminal > gate.state /\ ~ok
      <3>1. conf.durable
        BY <2>3, HookFails
      <3>2. Higher(gate.state, Terminal) = Terminal
        BY <2>3 DEF Higher, Terminal, Types, Gates, Content
      <3>3. StopStep(Terminal)
        BY <1>2, <1>4, <2>3, <3>1, <3>2 DEF StopStep, Blocked, Quiet
      <3> QED BY <1>1, <1>4, <2>1, <2>3, <3>3 DEF AttemptStep, OwnTerminal
    <2>4. CASE gate.committed /\ ~(Terminal > gate.state /\ ~ok)
      BY <1>1, <1>2, <1>4, <2>1, <2>4 DEF AttemptStep, OwnTerminal
    <2> QED BY <2>2, <2>3, <2>4
  <1> QED BY <1>3, <1>4

-----------------------------------------------------------------------------
(* Types.                                                                  *)

LEMMA SendTypes ==
  ASSUME Types, NEW us \in Seq(Int), Send(us)
  PROVE  client' \in Seq(Int) /\ observed' \in Seq(Int)
  <1>1. client' = client \/ client' = client \o us
    BY DEF Send
  <1>2. observed' = observed \/ observed' = observed \o us
    BY DEF Send
  <1>3. client \in Seq(Int) /\ observed \in Seq(Int)
    BY DEF Types
  <1>4. client \o us \in Seq(Int) /\ observed \o us \in Seq(Int)
    BY <1>3
  <1> QED BY <1>1, <1>2, <1>3, <1>4, Zenon

\* What a bridge writes, with what the gate holds, is a sequence of units.
LEMMA FreshType ==
  ASSUME Types, NEW us \in Seq(Int)
  PROVE  /\ FlattenSeq(gate.buf) \in Seq(Int) /\ Fresh(us) \in Seq(Int)
         /\ Append(gate.buf, us) \in Seq(Seq(Int))
         /\ Fresh(us) = FlattenSeq(gate.buf) \o us
  <1>1. gate.buf \in Seq(Seq(Int))
    BY DEF Types, Gates
  <1>2. Append(gate.buf, us) \in Seq(Seq(Int))
    BY <1>1
  <1> QED BY <1>1, <1>2, FlattenType, FlattenAppend DEF Fresh

\* What an aligned replay leaves out the client has; what it forwards is a tail
\* of the fresh stream behind that, and ends with the last frame unless that
\* frame begins in the prefix.
Splits(us, offset) ==
  /\ \A i \in 1..offset : Fresh(us)[i] = plan[i]
  /\ conf.threshold = 10000 => offset = Len(plan)
  /\ Beyond(us) # <<>> =>
       \E k \in Nat : /\ k >= offset /\ k + Len(Beyond(us)) = Len(Fresh(us))
                      /\ \A i \in 1..Len(Beyond(us)) : Beyond(us)[i] = Fresh(us)[k + i]
  /\ (Beyond(us) = <<>> /\ us # <<>>) => Len(FlattenSeq(gate.buf)) < offset
  /\ \/ Len(Fresh(us)) - Len(Beyond(us)) <= offset
     \/ \E j \in 1..Len(Append(gate.buf, us)) :
          Len(Fresh(us)) - Len(Beyond(us)) < offset + Len(Append(gate.buf, us)[j])

LEMMA BeyondIs ==
  ASSUME Types, NEW us \in Seq(Int), plan # <<>>, Len(Fresh(us)) >= Len(plan),
         Align(plan, Fresh(us)).aligned
  PROVE  /\ Beyond(us) \in Seq(Int)
         /\ \E offset \in 0..Len(plan) : Splits(us, offset)
  <1> DEFINE off == Align(plan, Fresh(us)).offset
             frames == Append(gate.buf, us)
  <1>1. /\ off \in 0..Len(plan) /\ \A i \in 1..off : Fresh(us)[i] = plan[i]
        /\ conf.threshold = 10000 => off = Len(plan)
    <2>1. plan \in Seq(Int) /\ conf.window \in Nat \ {0} /\ Fresh(us) \in Seq(Int)
      BY Confs, FreshType DEF Types
    <2> QED BY <2>1, AlignedPrefix
  <1>2. off \in Nat
    BY <1>1 DEF Types
  <1>3. frames \in Seq(Seq(Int)) /\ gate.buf \in Seq(Seq(Int))
    BY FreshType DEF Types, Gates
  <1>4. Beyond(us) = Suffix(frames, off) /\ Fresh(us) = FlattenSeq(frames)
    BY DEF Beyond, Fresh
  <1>5. (Beyond(us) = <<>> /\ us # <<>>) => Len(FlattenSeq(gate.buf)) < off
    <2> HIDE DEF off
    <2> QED BY <1>2, <1>3, <1>4, SuffixEmpty
  <1> HIDE DEF off, frames
  <1>6. /\ Suffix(frames, off) \in Seq(Int)
        /\ Suffix(frames, off) # <<>> =>
              \E k \in Nat : /\ k >= off /\ k + Len(Suffix(frames, off)) = Len(FlattenSeq(frames))
                             /\ \A i \in 1..Len(Suffix(frames, off)) :
                                  Suffix(frames, off)[i] = FlattenSeq(frames)[k + i]
    BY <1>2, <1>3, SuffixTail
  <1>7. Beyond(us) # <<>> =>
          \E k \in Nat : /\ k >= off /\ k + Len(Beyond(us)) = Len(Fresh(us))
                         /\ \A i \in 1..Len(Beyond(us)) : Beyond(us)[i] = Fresh(us)[k + i]
    BY <1>4, <1>6
  <1>8. Beyond(us) \in Seq(Int)
    BY <1>4, <1>6
  <1>9. off \in 0..Len(plan)
    BY <1>1
  <1>11. \/ Len(Fresh(us)) - Len(Beyond(us)) <= off
         \/ \E j \in 1..Len(frames) : Len(Fresh(us)) - Len(Beyond(us)) < off + Len(frames[j])
    BY <1>2, <1>3, <1>4, SuffixGap DEF Skipped
  <1>10. Splits(us, off)
    BY <1>1, <1>5, <1>7, <1>11 DEF Splits, frames
  <1> QED BY <1>8, <1>9, <1>10

LEMMA GateStepTypes ==
  ASSUME Types, NEW us \in Seq(Int), GateStep(us), gate.replay => plan # <<>>
  PROVE  gate' \in Gates /\ client' \in Seq(Int) /\ observed' \in Seq(Int)
  <1>1. gate \in Gates /\ Rank(us) \in {0, Content, Terminal} /\ gone \in BOOLEAN
    BY DEF Types, Rank
  <1>2. Quiet => client' \in Seq(Int) /\ observed' \in Seq(Int)
    BY DEF Quiet, Types
  <1>3. Append(gate.buf, us) \in Seq(Seq(Int))
    BY FreshType
  <1>11. <<>> \in Seq(Seq(Int))
    OBVIOUS
  <1>4. CASE HoldStep(us)
    <2>1. gate.held + 1 \in Nat
      BY <1>1 DEF Gates
    <2> QED BY <1>1, <1>2, <1>3, <1>4, <2>1 DEF HoldStep, Gates
  <1>5. CASE StopStep(Rank(us))
    BY <1>1, <1>2, <1>5 DEF StopStep, Gates
  <1>6. CASE SendStep(us)
    <2>1. FlattenSeq(gate.buf) \o us \in Seq(Int)
      BY FreshType
    <2>2. client' \in Seq(Int) /\ observed' \in Seq(Int)
      BY <1>6, <2>1, SendTypes DEF SendStep
    <2>3. Higher(gate.state, Rank(us)) \in {0, Content, Terminal}
      BY <1>1 DEF Higher, Gates, Content, Terminal
    <2>4. \A st \in {0, Content, Terminal}, f \in BOOLEAN, b \in Seq(Seq(Int)) :
            [gate EXCEPT !.state = st, !.committed = TRUE, !.buf = b, !.failed = f] \in Gates
      BY <1>1 DEF Gates
    <2>5. gate' \in Gates
      BY <1>1, <1>6, <1>11, <2>3, <2>4 DEF SendStep
    <2> QED BY <2>2, <2>5
  <1>7. CASE ReplayHold(us)
    BY <1>1, <1>2, <1>3, <1>7 DEF ReplayHold, Gates
  <1>8. CASE ReplayMiss
    BY <1>1, <1>2, <1>8 DEF ReplayMiss, Gates
  <1>9. CASE ReplayStop
    BY <1>1, <1>2, <1>9 DEF ReplayStop, Gates
  <1>10. CASE ReplaySend(us)
    <2>1. Beyond(us) \in Seq(Int)
      BY <1>10, BeyondIs DEF ReplaySend
    <2>2. client' \in Seq(Int) /\ observed' \in Seq(Int)
      BY <1>10, <2>1, SendTypes DEF ReplaySend
    <2> DEFINE st == IF End \in Range(Beyond(us)) THEN Terminal ELSE Content
               c == Beyond(us) # <<>>
               f == gone /\ Beyond(us) # <<>>
    <2>3. st \in {0, Content, Terminal} /\ c \in BOOLEAN /\ f \in BOOLEAN
      BY Zenon
    <2>4. gate' = [gate EXCEPT !.decided = TRUE, !.aligned = TRUE, !.buf = <<>>, !.state = st,
                              !.committed = c, !.failed = f]
      BY <1>10 DEF ReplaySend
    <2> HIDE DEF st, c, f
    <2>6. \A x \in {0, Content, Terminal}, y \in BOOLEAN, z \in BOOLEAN, b \in Seq(Seq(Int)) :
            [gate EXCEPT !.decided = TRUE, !.aligned = TRUE, !.buf = b, !.state = x,
                         !.committed = y, !.failed = z] \in Gates
      BY <1>1 DEF Gates
    <2>5. gate' \in Gates
      BY <1>11, <2>3, <2>4, <2>6
    <2> QED BY <2>2, <2>5
  <1>12. CASE ReplayCut(us)
    <2>1. Front(Beyond(us)) \in Seq(Int)
      BY <1>12, BeyondIs, FrontType DEF ReplayCut
    <2>2. client' \in Seq(Int) /\ observed' \in Seq(Int)
      BY <1>12, <2>1, SendTypes DEF ReplayCut
    <2>3. gate' \in Gates
      BY <1>1, <1>11, <1>12 DEF ReplayCut, Gates
    <2> QED BY <2>2, <2>3
  <1> QED BY <1>4, <1>5, <1>6, <1>7, <1>8, <1>9, <1>10, <1>12 DEF GateStep

-----------------------------------------------------------------------------
(* The shape of gate and plan: a gate replays what the plan says, a replay *)
(* that is not decided has sent nothing, and a bridge that rendered its    *)
(* terminal writes no more.                                                *)

Shape ==
  /\ gate.aligned => gate.decided
  /\ gate.decided => gate.replay
  /\ gate.replay => conf.l2
  /\ gate.replay /\ gate.committed => gate.decided
  /\ ~conf.l2 => observed = <<>> /\ plan = <<>>
  /\ phase = "attempt" => (gate.replay <=> plan # <<>>)
  /\ (phase = "attempt" /\ gate.replay /\ ~gate.decided) => plan = observed
  /\ phase = "top" => plan = <<>> \/ plan = observed
  /\ phase = "wait" => plan = <<>>
  /\ gate.rendered => gate.committed /\ (phase = "attempt" => stream.over)

Base == Types /\ Shape

LEMMA InitBase == Init => Base
  <1> SUFFICES ASSUME Init PROVE Base
    OBVIOUS
  <1>1. <<>> \in Seq(Seq(Int)) /\ <<>> \in Seq(Int)
    OBVIOUS
  <1>2. gate \in Gates
    BY <1>1 DEF Init, NewGate, Gates
  <1>3. stream \in [next : Nat \ {0}, diverged : BOOLEAN, over : BOOLEAN]
    BY DEF Init
  <1>4. Types
    BY <1>1, <1>2, <1>3 DEF Init, Types
  <1>5. ~gate.aligned /\ ~gate.decided /\ ~gate.replay /\ ~gate.rendered
    BY DEF Init, NewGate
  <1>6. Shape
    BY <1>5 DEF Init, Shape
  <1> QED BY <1>4, <1>6 DEF Base

\* Without L2 nothing is observed.
LEMMA SendObserved ==
  ASSUME NEW us, Send(us), ~conf.l2
  PROVE  observed' = observed
  BY DEF Send

LEMMA GateStepShape ==
  ASSUME Types, Shape, Writing, NEW us \in Seq(Int), GateStep(us), stream'.over \/ ~stream.over
  PROVE  Shape'
  <1>1. /\ conf' = conf /\ phase' = "attempt" /\ phase = "attempt" /\ plan' = plan
        /\ ~gate.rendered
    BY DEF Writing, env, loop, Shape
  <1>2. ~conf.l2 => observed' = observed
    BY SendObserved DEF GateStep, HoldStep, StopStep, SendStep, ReplayHold, ReplayMiss, ReplayStop,
       ReplaySend, ReplayCut, Quiet
  <1>3. /\ gate'.replay = gate.replay /\ gate'.rendered = gate.rendered
        /\ gate.decided => gate'.decided
        /\ (gate'.aligned => gate'.decided) /\ (gate'.decided => gate'.replay)
        /\ (gate'.replay /\ gate'.committed => gate'.decided)
        /\ (gate'.replay /\ ~gate'.decided) => observed' = observed
    <2>1. gate \in Gates
      BY DEF Types
    <2>2. CASE HoldStep(us)
      BY <2>1, <2>2 DEF HoldStep, Gates, Shape, Quiet
    <2>3. CASE StopStep(Rank(us))
      BY <2>1, <2>3 DEF StopStep, Gates, Shape, Quiet
    <2>4. CASE SendStep(us)
      BY <2>1, <2>4 DEF SendStep, Gates, Shape
    <2>5. CASE ReplayHold(us)
      BY <2>1, <2>5 DEF ReplayHold, Gates, Shape, Quiet
    <2>6. CASE ReplayMiss
      BY <2>1, <2>6 DEF ReplayMiss, Gates, Shape, Quiet
    <2>7. CASE ReplayStop
      BY <2>1, <2>7 DEF ReplayStop, Gates, Shape, Quiet
    <2>8. CASE ReplaySend(us)
      BY <2>1, <2>8 DEF ReplaySend, Gates, Shape
    <2>9. CASE ReplayCut(us)
      BY <2>1, <2>9 DEF ReplayCut, Gates, Shape
    <2> QED BY <2>2, <2>3, <2>4, <2>5, <2>6, <2>7, <2>8, <2>9 DEF GateStep
  <1> QED BY <1>1, <1>2, <1>3 DEF Shape

LEMMA AttemptBase ==
  ASSUME Base, AttemptStep
  PROVE  Base'
  <1>1. Types /\ Shape /\ Writing
    BY DEF Base, AttemptStep
  <1>2. (gate.replay => plan # <<>>) /\ phase = "attempt"
    BY <1>1 DEF Shape, Writing
  <1>3. ASSUME stream' \in [next : Nat \ {0}, diverged : BOOLEAN, over : BOOLEAN],
               gate' \in Gates, client' \in Seq(Int), observed' \in Seq(Int)
        PROVE  Types'
    BY <1>1, <1>3 DEF Types, Writing, env, loop
  <1>4. ASSUME NEW us, ContentFrame(us), GateStep(us)
        PROVE  Base'
    <2>1. us \in Seq(Int) /\ stream' \in [next : Nat \ {0}, diverged : BOOLEAN, over : BOOLEAN]
      <3>1. us \in Seq(Int) /\ stream.next \in Nat \ {0}
        BY <1>1, <1>4 DEF ContentFrame, Types
      <3>2. stream.next + Len(us) \in Nat \ {0}
        BY <3>1
      <3> DEFINE n == stream.next + Len(us)
                 d == stream'.diverged
      <3>3. stream' = [next |-> n, diverged |-> d, over |-> FALSE] /\ d \in BOOLEAN
        BY <1>4 DEF ContentFrame
      <3>4. n \in Nat \ {0}
        BY <3>2
      <3> HIDE DEF n, d
      <3> QED BY <3>1, <3>3, <3>4
    <2>2. ~stream.over
      BY <1>1 DEF Writing
    <2> QED BY <1>1, <1>2, <1>3, <1>4, <2>1, <2>2, GateStepTypes, GateStepShape DEF Base
  <1>5. CASE LastFrame /\ GateStep(<<End>>)
    <2>1. <<End>> \in Seq(Int) /\ stream' \in [next : Nat \ {0}, diverged : BOOLEAN, over : BOOLEAN]
      <3>1. <<End>> \in Seq(Int)
        BY DEF End
      <3>2. stream' \in [next : Nat \ {0}, diverged : BOOLEAN, over : BOOLEAN]
        BY <1>1, <1>5 DEF LastFrame, Types
      <3> QED BY <3>1, <3>2
    <2>2. ~stream.over
      BY <1>1 DEF Writing
    <2> QED BY <1>1, <1>2, <1>3, <1>5, <2>1, <2>2, GateStepTypes, GateStepShape DEF Base
  <1>6. CASE Flushing
    <2>1. <<>> \in Seq(Int) /\ Rank(<<>>) = Content
      BY DEF Rank
    <2>2. GateStep(<<>>)
      BY <1>6, <2>1 DEF Flushing, GateStep
    <2>3. gate' \in Gates /\ client' \in Seq(Int) /\ observed' \in Seq(Int)
      BY <1>1, <1>2, <2>1, <2>2, GateStepTypes
    <2>4. stream' \in [next : Nat \ {0}, diverged : BOOLEAN, over : BOOLEAN] /\ ~stream.over
      BY <1>1, <1>6, <2>3 DEF Flushing, Types, Gates, Writing
    <2> QED BY <1>1, <1>3, <2>1, <2>2, <2>3, <2>4, GateStepShape DEF Base
  <1>7. CASE OwnTerminal
    <2>1. stream' \in [next : Nat \ {0}, diverged : BOOLEAN, over : BOOLEAN] /\ stream'.over
      BY <1>1, <1>7 DEF OwnTerminal, Types
    <2>2. gate \in Gates /\ gone \in BOOLEAN
      BY <1>1 DEF Types
    <2>3. <<End>> \in Seq(Int)
      BY DEF End
    <2>4. client' \in Seq(Int) /\ observed' \in Seq(Int)
      BY <1>1, <1>7, <2>3, SendTypes DEF OwnTerminal, Quiet, StopStep, Types
    <2>5. /\ gate' \in Gates /\ gate'.replay = gate.replay /\ gate'.decided = gate.decided
          /\ gate'.aligned = gate.aligned /\ gate'.committed = gate.committed
          /\ gate'.rendered => gate.committed
      BY <1>1, <1>7, <2>2 DEF OwnTerminal, StopStep, Gates, Shape, Terminal
    <2>6. (~conf.l2 \/ ~gate.committed) => observed' = observed
      BY <1>7, SendObserved DEF OwnTerminal, Quiet, StopStep
    <2>7. Types'
      BY <1>3, <2>1, <2>4, <2>5
    <2>8. Shape'
      BY <1>1, <1>2, <2>1, <2>5, <2>6 DEF Shape, Writing, env, loop
    <2> QED BY <2>7, <2>8 DEF Base
  <1> QED BY <1>4, <1>5, <1>6, <1>7 DEF AttemptStep

LEMMA NextCases ==
  ASSUME Types, Next
  PROVE  \/ AttemptStep \/ Complete \/ (\E kind \in Kinds, r \in conf.renders : Interrupt(kind, r))
         \/ StartAttempt \/ JudgeLate \/ Succeed \/ CompressFails \/ Retry \/ Wake \/ Replay \/ GiveUp
         \/ Expire \/ Cancel \/ Disconnect
  <1>1. (\E n \in FrameSizes : Frame(n)) => AttemptStep
    BY FrameSteps
  <1>2. FlushHeld \/ EndFrame => AttemptStep
    BY FlushSteps, EndSteps
  <1> QED BY <1>1, <1>2 DEF Next, AttemptEnds, Decide

\* A finished attempt is flushed like any frame.
LEMMA SucceedSteps ==
  ASSUME Types, Shape, Succeed
  PROVE  /\ phase = "judge" /\ phase' = "done" /\ outcome = "ok" /\ UNCHANGED <<loop, stream, outcome, env>>
         /\ gate.replay => gate.aligned
         /\ \/ (gate.failed \/ gone) /\ UNCHANGED <<gate, client, observed, succeed>>
            \/ /\ ~gate.failed /\ ~gone /\ (gate.committed \/ gate.buf = <<>>)
               /\ succeed' /\ succeed' \in BOOLEAN /\ UNCHANGED <<gate, client, observed>>
            \/ /\ ~gate.failed /\ ~gone /\ ~gate.committed /\ gate.buf # <<>>
               /\ StopStep(Content) \/ SendStep(<<>>)
               /\ succeed' = ~gate'.failed
  <1>1. /\ phase = "judge" /\ phase' = "done" /\ UNCHANGED <<loop, stream, outcome, env>>
        /\ gate.replay => gate.aligned
    BY DEF Succeed, Judging, Missed
  <1>2. outcome = "ok"
    <2>1. Aggregate = "succeed"
      BY DEF Succeed
    <2> QED BY <2>1 DEF Aggregate
  <1>3. PICK ok \in HookOk :
          IF gate.failed \/ gone THEN UNCHANGED <<gate, client, observed, succeed>>
          ELSE IF ~Unflushed THEN succeed' = TRUE /\ UNCHANGED <<gate, client, observed>>
          ELSE Commit(<<>>, ok) /\ succeed' = ~gate'.failed
    BY DEF Succeed
  <1>4. CASE gate.failed \/ gone
    BY <1>1, <1>2, <1>3, <1>4
  <1>5. CASE ~(gate.failed \/ gone) /\ ~Unflushed
    BY <1>1, <1>2, <1>3, <1>5 DEF Unflushed
  <1>6. CASE ~(gate.failed \/ gone) /\ Unflushed
    <2>1. Commit(<<>>, ok) /\ succeed' = ~gate'.failed
      BY <1>3, <1>6
    <2>2. Rank(<<>>) = Content
      BY DEF Rank
    <2>3. StopStep(Content) \/ SendStep(<<>>)
      BY <1>1, <2>1, <2>2, CommitCases DEF Shape
    <2> QED BY <1>1, <1>2, <1>6, <2>1, <2>3 DEF Unflushed
  <1> QED BY <1>4, <1>5, <1>6

\* What the loop does to client and gate, besides starting an attempt.
LEMMA EndTypes ==
  ASSUME Types, NEW suppressed, renderTerminal(suppressed)
  PROVE  client' \in Seq(Int) /\ observed' = observed
  <1>1. client' = client \/ client' = Append(client, End)
    BY DEF renderTerminal
  <1>2. client \in Seq(Int) /\ Append(client, End) \in Seq(Int)
    BY DEF Types, End
  <1> QED BY <1>1, <1>2 DEF renderTerminal

LEMMA LoopBase ==
  ASSUME Base, Complete \/ (\E kind \in Kinds, r \in conf.renders : Interrupt(kind, r))
         \/ StartAttempt \/ JudgeLate \/ CompressFails \/ Retry \/ Wake \/ Replay \/ GiveUp
         \/ Expire \/ Cancel \/ Disconnect
  PROVE  Base'
  <1>1. Types /\ Shape /\ gate \in Gates /\ client \in Seq(Int)
    BY DEF Base, Types
  <1>2. <<>> \in Seq(Seq(Int)) /\ <<>> \in Seq(Int) /\ <<End>> \in Seq(Int)
    BY DEF End
  <1>3. CASE Complete
    BY <1>1, <1>3 DEF Complete, Base, Types, Shape, env
  <1>4. ASSUME NEW kind \in Kinds, NEW r \in conf.renders, Interrupt(kind, r) PROVE Base'
    <2>1. CASE r = "none"
      BY <1>1, <1>4, <2>1 DEF Interrupt, Base, Types, Shape, env
    <2>2. CASE r # "none"
      <3>1. /\ gate' = [gate EXCEPT !.state = Terminal, !.rendered = (r = "latched")]
            /\ Send(<<End>>) /\ gate.committed /\ phase' = "judge" /\ outcome' = kind
            /\ UNCHANGED <<stream, plan, recoveryNo, ctxRetried, succeed, env>>
        BY <1>4, <2>2 DEF Interrupt
      <3>2. gate' \in Gates
        <4> DEFINE b == (r = "latched")
        <4>1. b \in BOOLEAN /\ gate' = [gate EXCEPT !.state = Terminal, !.rendered = b]
          BY <3>1
        <4> HIDE DEF b
        <4> QED BY <1>1, <4>1 DEF Gates
      <3>3. client' \in Seq(Int) /\ observed' \in Seq(Int) /\ (~conf.l2 => observed' = observed)
        BY <1>1, <1>2, <3>1, SendTypes, SendObserved
      <3>4. /\ gate'.replay = gate.replay /\ gate'.decided = gate.decided
            /\ gate'.aligned = gate.aligned /\ gate'.committed = gate.committed
        BY <1>1, <3>1 DEF Gates
      <3> QED BY <1>1, <3>1, <3>2, <3>3, <3>4 DEF Base, Types, Shape, env
    <2> QED BY <2>1, <2>2
  <1>5. CASE StartAttempt
    <2>1. CASE Silent
      BY <1>1, <2>1 DEF Silent, Base, Types, Shape, env, loop
    <2>2. CASE Done(FALSE)
      BY <1>1, <2>2, EndTypes DEF Done, Base, Types, Shape, env, loop
    <2>3. CASE ~cancelled /\ ~expired /\ ~Silent /\ ~Done(FALSE)
      <3>1. /\ phase = "top" /\ phase' = "attempt" /\ gate' = NewGate(Armed)
            /\ stream' = [next |-> 1, diverged |-> FALSE, over |-> FALSE] /\ outcome' = "none"
            /\ UNCHANGED <<loop, client, observed, succeed, env>>
        BY <1>5, <2>3 DEF StartAttempt
      <3> DEFINE b == Armed
      <3>2. b \in BOOLEAN /\ (b <=> plan # <<>>)
        BY DEF Armed
      <3>a. gate' = NewGate(b)
        BY <3>1
      <3> HIDE DEF b
      <3>3. gate' \in Gates
        BY <1>2, <3>a, <3>2 DEF NewGate, Gates
      <3>4. /\ gate'.replay = b /\ ~gate'.decided /\ ~gate'.aligned /\ ~gate'.committed
            /\ ~gate'.rendered
        BY <3>a DEF NewGate
      <3>5. Types'
        BY <1>1, <3>1, <3>3 DEF Types, env, loop
      <3>6. Shape'
        BY <1>1, <3>1, <3>2, <3>4 DEF Shape, env, loop
      <3> QED BY <3>5, <3>6 DEF Base
    <2> QED BY <1>5, <2>1, <2>2, <2>3 DEF StartAttempt
  <1>6. CASE JudgeLate
    <2>1. CASE Silent
      BY <1>1, <2>1 DEF Silent, Base, Types, Shape, env, loop
    <2>2. CASE Done(Suppressed)
      BY <1>1, <2>2, EndTypes DEF Done, Base, Types, Shape, env, loop
    <2> QED BY <1>6, <2>1, <2>2 DEF JudgeLate
  <1>7. CASE CompressFails
    BY <1>1, <1>7, EndTypes DEF CompressFails, Base, Types, Shape, env
  <1>8. CASE Retry
    <2>1. /\ UNCHANGED <<attempts, calls, recoveryNo, stream, outcome, succeed, env>> /\ plan' = <<>>
          /\ phase' \in {"done", "wait"} /\ client' \in Seq(Int) /\ observed' = observed
          /\ gate' = gate \/ gate' = [gate EXCEPT !.buf = <<>>, !.state = 0]
      BY <1>1, <1>8, EndTypes DEF Retry
    <2>2. /\ gate' \in Gates /\ gate'.replay = gate.replay /\ gate'.decided = gate.decided
          /\ gate'.aligned = gate.aligned /\ gate'.committed = gate.committed
          /\ gate'.rendered = gate.rendered
      BY <1>1, <1>2, <2>1 DEF Gates
    <2> QED BY <1>1, <1>2, <2>1, <2>2 DEF Base, Types, Shape, env
  <1>9. CASE Wake
    <2>1. CASE Silent
      BY <1>1, <2>1 DEF Silent, Base, Types, Shape, env, loop
    <2>2. CASE Done(Suppressed)
      BY <1>1, <2>2, EndTypes DEF Done, Base, Types, Shape, env, loop
    <2>3. CASE ~Silent /\ ~Done(Suppressed)
      BY <1>1, <1>9, <2>3 DEF Wake, Base, Types, Shape, env, loop
    <2> QED BY <2>1, <2>2, <2>3
  <1>10. CASE Replay
    BY <1>1, <1>10 DEF Replay, Base, Types, Shape, env
  <1>11. CASE GiveUp
    BY <1>1, <1>11, EndTypes DEF GiveUp, Done, Base, Types, Shape, env, loop
  <1>12. CASE Expire \/ Cancel \/ Disconnect
    BY <1>1, <1>12 DEF Expire, Cancel, Disconnect, Base, Types, Shape, loop
  <1> QED BY <1>3, <1>4, <1>5, <1>6, <1>7, <1>8, <1>9, <1>10, <1>11, <1>12

LEMMA SucceedBase ==
  ASSUME Base, Succeed
  PROVE  Base'
  <1>1. Types /\ Shape /\ gate \in Gates /\ gone \in BOOLEAN
    BY DEF Base, Types
  <1>2. /\ phase = "judge" /\ phase' = "done" /\ UNCHANGED <<loop, stream, outcome, env>>
        /\ \/ UNCHANGED <<gate, client, observed, succeed>>
           \/ succeed' \in BOOLEAN /\ UNCHANGED <<gate, client, observed>>
           \/ (StopStep(Content) \/ SendStep(<<>>)) /\ succeed' = ~gate'.failed
    BY <1>1, SucceedSteps
  <1>3. /\ gate' \in Gates /\ client' \in Seq(Int) /\ observed' \in Seq(Int)
        /\ (~conf.l2 => observed' = observed)
        /\ gate'.replay = gate.replay /\ gate'.decided = gate.decided
        /\ gate'.aligned = gate.aligned /\ gate'.rendered = gate.rendered
        /\ (gate'.replay /\ gate'.committed => gate'.decided) /\ (gate.committed => gate'.committed)
    <2>1. CASE UNCHANGED <<gate, client, observed>>
      BY <1>1, <2>1 DEF Types, Shape
    <2>2. CASE StopStep(Content)
      BY <1>1, <2>2 DEF StopStep, Quiet, Types, Shape, Gates
    <2>3. CASE SendStep(<<>>)
      <3>1. <<>> \in Seq(Int) /\ <<>> \in Seq(Seq(Int))
        OBVIOUS
      <3>2. FlattenSeq(gate.buf) \o <<>> \in Seq(Int)
        BY <1>1, <3>1, FreshType
      <3>3. client' \in Seq(Int) /\ observed' \in Seq(Int) /\ (~conf.l2 => observed' = observed)
        BY <1>1, <2>3, <3>2, SendTypes, SendObserved DEF SendStep
      <3>4. Higher(gate.state, Rank(<<>>)) \in {0, Content, Terminal}
        BY <1>1 DEF Higher, Gates, Content, Terminal, Rank
      <3>5. \A st \in {0, Content, Terminal}, f \in BOOLEAN, b \in Seq(Seq(Int)) :
              [gate EXCEPT !.state = st, !.committed = TRUE, !.buf = b, !.failed = f] \in Gates
        BY <1>1 DEF Gates
      <3>6. gate' \in Gates
        BY <1>1, <2>3, <3>1, <3>4, <3>5 DEF SendStep
      <3>7. /\ gate'.replay = gate.replay /\ gate'.decided = gate.decided
            /\ gate'.aligned = gate.aligned /\ gate'.rendered = gate.rendered
            /\ gate'.committed /\ (gate.replay => gate.decided)
        BY <1>1, <2>3 DEF SendStep, Gates
      <3> QED BY <3>3, <3>6, <3>7
    <2> QED BY <1>2, <2>1, <2>2, <2>3
  <1>4. succeed' \in BOOLEAN
    BY <1>1, <1>2, <1>3 DEF Types
  <1>5. Types'
    BY <1>1, <1>2, <1>3, <1>4 DEF Types, env, loop
  <1>6. Shape'
    BY <1>1, <1>2, <1>3 DEF Shape, env, loop
  <1> QED BY <1>5, <1>6 DEF Base

LEMMA NextBase == Base /\ [Next]_vars => Base'
  <1> SUFFICES ASSUME Base, [Next]_vars PROVE Base'
    OBVIOUS
  <1>1. CASE Next
    BY <1>1, NextCases, AttemptBase, LoopBase, SucceedBase DEF Base
  <1>2. CASE UNCHANGED vars
    BY <1>2 DEF vars, Base, Types, Shape
  <1> QED BY <1>1, <1>2

-----------------------------------------------------------------------------
(* The steps of the loop, by what they do to the client and the gate.      *)

Completes ==
  /\ phase = "attempt" /\ phase' = "judge" /\ stream.over
  /\ UNCHANGED <<conf, gone, gate, stream, plan, client, observed>>

Breaks ==
  /\ phase = "attempt" /\ phase' = "judge" /\ outcome' # "ok"
  /\ UNCHANGED <<conf, gone, gate, stream, plan, client, observed>>

\* The bridge ends a stream that broke off.
Renders(r) ==
  /\ phase = "attempt" /\ phase' = "judge" /\ outcome' # "ok"
  /\ r \in conf.renders /\ r # "none"
  /\ gate.committed /\ ~gate.failed /\ ~gone /\ ~stream.over
  /\ Send(<<End>>)
  /\ gate' = [gate EXCEPT !.state = Terminal, !.rendered = (r = "latched")]
  /\ UNCHANGED <<conf, gone, stream, plan>>

Starts ==
  /\ phase = "top" /\ phase' = "attempt" /\ outcome' = "none"
  /\ gate' = NewGate(Armed)
  /\ stream' = [next |-> 1, diverged |-> FALSE, over |-> FALSE]
  /\ UNCHANGED <<conf, gone, plan, client, observed>>

\* Run returns with its envelope, unless the bridge has rendered one.
Closes ==
  /\ phase \in {"top", "judge", "wait"} /\ phase' = "done"
  /\ \/ client' = client /\ (gone \/ (phase # "top" /\ gate.rendered))
     \/ client' = Append(client, End) /\ ~gone /\ (phase = "top" \/ ~gate.rendered)
  /\ UNCHANGED <<conf, gone, gate, stream, observed>>

Leaves ==
  /\ phase' = "done" /\ (cancelled \/ gone)
  /\ UNCHANGED <<conf, gone, cancelled, gate, stream, client, observed>>

\* The attempt is discarded.
Waits ==
  /\ phase = "judge" /\ phase' = (IF gone THEN "done" ELSE "wait")
  /\ ~gate.committed /\ ~(gate.state >= Content) /\ ~Missed
  /\ gate' = [gate EXCEPT !.buf = <<>>, !.state = 0]
  /\ plan' = <<>>
  /\ UNCHANGED <<conf, gone, stream, client, observed>>

Wakes ==
  /\ phase = "wait" /\ phase' = "top"
  /\ UNCHANGED <<conf, gone, gate, stream, plan, client, observed>>

Replays ==
  /\ phase = "judge" /\ phase' = "top" /\ conf.l2
  /\ plan' = observed /\ observed # <<>>
  /\ UNCHANGED <<conf, gone, gate, stream, client, observed>>

Outside ==
  /\ UNCHANGED <<conf, phase, gate, stream, outcome, plan, client, observed>>
  /\ (gone => gone') /\ (cancelled => cancelled')

LoopStep ==
  /\ phase # "done" /\ succeed' = succeed
  /\ \/ Completes \/ Breaks \/ (\E r \in conf.renders : Renders(r)) \/ Starts \/ Closes \/ Leaves
     \/ Waits \/ Wakes \/ Replays \/ Outside

LEMMA DoneCloses ==
  ASSUME Types, phase \in {"judge", "wait"}, phase' = "done", renderTerminal(Suppressed),
         UNCHANGED <<conf, gone, gate, stream>>
  PROVE  Closes
  <1>1. CASE gate.rendered \/ gone
    BY <1>1 DEF renderTerminal, Suppressed, Closes
  <1>2. CASE ~(gate.rendered \/ gone)
    BY <1>2 DEF renderTerminal, Suppressed, Closes
  <1> QED BY <1>1, <1>2

LEMMA LoopCases ==
  ASSUME Types, Next
  PROVE  AttemptStep \/ Succeed \/ LoopStep
  <1>1. CASE Complete
    BY <1>1 DEF Complete, Completes, LoopStep, env
  <1>2. ASSUME NEW kind \in Kinds, NEW r \in conf.renders, Interrupt(kind, r) PROVE LoopStep
    <2>0. kind # "ok"
      BY DEF Kinds
    <2>1. CASE r = "none"
      BY <1>2, <2>0, <2>1 DEF Interrupt, Breaks, LoopStep, env
    <2>2. CASE r # "none"
      <3>1. Renders(r) /\ phase # "done" /\ succeed' = succeed
        BY <1>2, <2>0, <2>2 DEF Interrupt, Renders, env
      <3> QED BY <3>1 DEF LoopStep
    <2> QED BY <2>1, <2>2
  <1>3. CASE StartAttempt
    <2>1. CASE Silent /\ cancelled
      BY <1>3, <2>1 DEF StartAttempt, Silent, Leaves, LoopStep, env
    <2>2. CASE Done(FALSE)
      <3>1. phase = "top" /\ phase' = "done" /\ UNCHANGED <<conf, gone, gate, stream, observed, succeed>>
        BY <1>3, <2>2 DEF StartAttempt, Done, env, renderTerminal
      <3>2. (client' = client /\ gone) \/ (client' = Append(client, End) /\ ~gone)
        BY <2>2 DEF Done, renderTerminal
      <3> QED BY <3>1, <3>2 DEF Closes, LoopStep
    <2>3. CASE ~cancelled /\ ~expired
      BY <1>3, <2>3 DEF StartAttempt, Starts, LoopStep, env, loop
    <2> QED BY <1>3, <2>1, <2>2, <2>3 DEF StartAttempt
  <1>4. CASE JudgeLate
    <2>1. CASE Silent /\ cancelled
      BY <1>4, <2>1 DEF JudgeLate, Silent, Leaves, LoopStep, env
    <2>2. CASE Done(Suppressed)
      BY <1>4, <2>2, DoneCloses DEF JudgeLate, Done, LoopStep, env
    <2> QED BY <1>4, <2>1, <2>2 DEF JudgeLate
  <1>5. CASE CompressFails
    BY <1>5, DoneCloses DEF CompressFails, Judging, LoopStep, env
  <1>6. CASE Retry
    <2>1. CASE ~RetriesLeft \/ gate.committed \/ gate.state >= Content
      BY <1>6, <2>1, DoneCloses DEF Retry, Judging, LoopStep, env
    <2>2. CASE ~(~RetriesLeft \/ gate.committed \/ gate.state >= Content)
      BY <1>6, <2>2 DEF Retry, Judging, LoopStep, Waits, env
    <2> QED BY <2>1, <2>2
  <1>7. CASE Wake
    <2>1. CASE Silent /\ (cancelled \/ gone)
      BY <1>7, <2>1 DEF Wake, Silent, Leaves, LoopStep, env
    <2>2. CASE Done(Suppressed)
      BY <1>7, <2>2, DoneCloses DEF Wake, Done, LoopStep, env
    <2>3. CASE ~cancelled /\ ~expired /\ phase' = "top"
      BY <1>7, <2>3 DEF Wake, Silent, Wakes, LoopStep, env, loop
    <2> QED BY <1>7, <2>1, <2>2, <2>3 DEF Wake
  <1>8. CASE Replay
    BY <1>8 DEF Replay, Judging, MayReplay, Replays, LoopStep, env
  <1>9. CASE GiveUp
    BY <1>9, DoneCloses DEF GiveUp, Judging, Done, LoopStep, env
  <1>10. CASE Expire \/ Cancel \/ Disconnect
    BY <1>10 DEF Expire, Cancel, Disconnect, Outside, LoopStep, loop
  <1> QED BY <1>1, <1>2, <1>3, <1>4, <1>5, <1>6, <1>7, <1>8, <1>9, <1>10, NextCases

-----------------------------------------------------------------------------
(* A committed gate holds nothing back, and the prefix that a replay has   *)
(* to reproduce is a tail of what the client has.                          *)

Tidy ==
  /\ gate.committed => gate.buf = <<>>
  /\ gate.aligned => gate.state \in {Content, Terminal}
  /\ (gate.aligned /\ ~gate.failed) => gate.buf = <<>>

Follows(k, o, c) == k + Len(o) = Len(c) /\ \A i \in 1..Len(o) : o[i] = c[k + i]

Trails == phase # "done" => \E k \in Nat : Follows(k, observed, client)

Struct == Base /\ Tidy /\ Trails

LEMMA FollowsMore ==
  ASSUME NEW o \in Seq(Int), NEW c \in Seq(Int), NEW us \in Seq(Int), NEW k \in Nat, Follows(k, o, c)
  PROVE  Follows(k, o \o us, c \o us)
  <1> DEFINE m == Len(o)
             n == Len(c)
             l == Len(us)
  <1>1. m \in Nat /\ n \in Nat /\ l \in Nat /\ k + m = n
    BY DEF Follows
  <1>2. Len(o \o us) = m + l /\ Len(c \o us) = n + l
    OBVIOUS
  <1>8. \A i \in 1..m : (o \o us)[i] = o[i]
    OBVIOUS
  <1>9. \A i \in 1..m : o[i] = c[k + i]
    BY DEF Follows
  <1>3. \A i \in 1..m : (o \o us)[i] = o[i] /\ o[i] = c[k + i]
    BY <1>8, <1>9, Zenon
  <1>4. \A j \in 1..n : (c \o us)[j] = c[j]
    OBVIOUS
  <1>5. \A j \in 1..l : (o \o us)[m + j] = us[j] /\ (c \o us)[n + j] = us[j]
    OBVIOUS
  <1> HIDE DEF m, n, l
  <1>6. ASSUME NEW i \in 1..(m + l) PROVE (o \o us)[i] = (c \o us)[k + i]
    <2>1. CASE i <= m
      <3>1. i \in 1..m /\ k + i \in 1..n
        BY <1>1, <2>1
      <3> QED BY <1>3, <1>4, <3>1
    <2>2. CASE i > m
      <3> DEFINE j == i - m
      <3>1. j \in 1..l /\ m + j = i /\ n + j = k + i
        BY <1>1, <2>2
      <3> HIDE DEF j
      <3> QED BY <1>5, <3>1
    <2>3. i <= m \/ i > m
      BY <1>1
    <2> QED BY <2>1, <2>2, <2>3
  <1>7. k + (m + l) = n + l
    BY <1>1
  <1> QED BY <1>2, <1>6, <1>7 DEF Follows

LEMMA FollowsNothing == ASSUME NEW c \in Seq(Int) PROVE \E k \in Nat : Follows(k, <<>>, c)
  <1>1. Len(c) \in Nat /\ Follows(Len(c), <<>>, c)
    BY DEF Follows
  <1> QED BY <1>1

LEMMA SendTrails ==
  ASSUME Types, Shape, Trails, phase # "done", NEW us \in Seq(Int), Send(us)
  PROVE  \E k \in Nat : Follows(k, observed', client')
  <1>1. PICK k \in Nat : Follows(k, observed, client)
    BY DEF Trails
  <1>2. observed \in Seq(Int) /\ client \in Seq(Int) /\ client' \in Seq(Int)
    BY SendTypes DEF Types
  <1>3. CASE gone
    BY <1>1, <1>3 DEF Send
  <1>4. CASE ~gone /\ observed' = observed /\ (~conf.l2 \/ observed = <<>>)
    <2>1. observed' = <<>>
      BY <1>4 DEF Shape
    <2> QED BY <1>2, <2>1, FollowsNothing
  <1>5. CASE ~gone /\ observed' = observed \o us /\ client' = client \o us
    BY <1>1, <1>2, <1>5, FollowsMore
  <1> QED BY <1>3, <1>4, <1>5 DEF Send

LEMMA GateStepTidy ==
  ASSUME Types, Shape, Tidy, ~gate.failed, NEW us \in Seq(Int), GateStep(us)
  PROVE  Tidy'
  <1>1. gate \in Gates /\ Rank(us) \in {Content, Terminal}
    BY DEF Types, Rank
  <1>2. CASE HoldStep(us)
    <2>1. ~gate.aligned /\ ~gate'.committed /\ ~gate'.aligned
      BY <1>1, <1>2 DEF HoldStep, Gates, Shape
    <2> QED BY <2>1 DEF Tidy
  <1>3. CASE StopStep(Rank(us))
    BY <1>1, <1>3 DEF StopStep, Gates, Tidy
  <1>4. CASE SendStep(us)
    <2>1. Higher(gate.state, Rank(us)) \in {Content, Terminal}
      BY <1>1 DEF Higher, Gates, Content, Terminal
    <2>2. gate'.state = Higher(gate.state, Rank(us)) /\ gate'.buf = <<>>
      BY <1>1, <1>4 DEF SendStep, Gates
    <2> QED BY <2>1, <2>2 DEF Tidy
  <1>5. CASE ReplayHold(us)
    <2>1. ~gate.committed /\ ~gate.aligned
      BY <1>5 DEF ReplayHold, Shape
    <2>2. ~gate'.committed /\ ~gate'.aligned
      BY <1>1, <1>5, <2>1 DEF ReplayHold, Gates
    <2> QED BY <2>2 DEF Tidy
  <1>6. CASE ReplayMiss
    <2>1. ~gate.committed /\ ~gate.aligned
      BY <1>6 DEF ReplayMiss, Shape
    <2>2. ~gate'.committed /\ ~gate'.aligned
      BY <1>1, <1>6, <2>1 DEF ReplayMiss, Gates
    <2> QED BY <2>2 DEF Tidy
  <1>7. CASE ReplayStop
    <2>1. ~gate.committed
      BY <1>7 DEF ReplayStop, Shape
    <2>2. ~gate'.committed /\ gate'.failed /\ gate'.state = Content
      BY <1>1, <1>7, <2>1 DEF ReplayStop, Gates
    <2> QED BY <2>2 DEF Tidy
  <1>8. CASE ReplaySend(us)
    <2>1. gate'.buf = <<>> /\ gate'.state \in {Content, Terminal}
      BY <1>1, <1>8 DEF ReplaySend, Gates
    <2> QED BY <2>1 DEF Tidy
  <1>9. CASE ReplayCut(us)
    <2>1. gate'.buf = <<>> /\ gate'.state = Terminal
      BY <1>1, <1>9 DEF ReplayCut, Gates
    <2> QED BY <2>1 DEF Tidy
  <1> QED BY <1>2, <1>3, <1>4, <1>5, <1>6, <1>7, <1>8, <1>9 DEF GateStep

\* What a call of the gate sends.
LEMMA GateStepTrails ==
  ASSUME Types, Shape, Trails, phase # "done", NEW us \in Seq(Int), GateStep(us), gate.replay => plan # <<>>
  PROVE  \E k \in Nat : Follows(k, observed', client')
  <1>1. CASE Quiet
    BY <1>1 DEF Quiet, Trails
  <1>2. CASE SendStep(us)
    <2>1. FlattenSeq(gate.buf) \o us \in Seq(Int)
      BY FreshType
    <2> QED BY <1>2, <2>1, SendTrails DEF SendStep
  <1>3. CASE ReplaySend(us)
    <2>1. Beyond(us) \in Seq(Int)
      BY <1>3, BeyondIs DEF ReplaySend
    <2> QED BY <1>3, <2>1, SendTrails DEF ReplaySend
  <1>4. CASE ReplayCut(us)
    <2>1. Front(Beyond(us)) \in Seq(Int)
      BY <1>4, BeyondIs, FrontType DEF ReplayCut
    <2> QED BY <1>4, <2>1, SendTrails DEF ReplayCut
  <1> QED BY <1>1, <1>2, <1>3, <1>4 DEF GateStep, HoldStep, StopStep, ReplayHold, ReplayMiss, ReplayStop

LEMMA InitStruct == Init => Struct
  <1> SUFFICES ASSUME Init PROVE Struct
    OBVIOUS
  <1>1. Base
    BY InitBase
  <1>2. Tidy
    BY DEF Init, NewGate, Tidy
  <1>3. client \in Seq(Int) /\ observed = <<>>
    BY <1>1 DEF Base, Types, Init
  <1>4. Trails
    BY <1>3, FollowsNothing DEF Trails
  <1> QED BY <1>1, <1>2, <1>4 DEF Struct

LEMMA AttemptStruct ==
  ASSUME Struct, AttemptStep
  PROVE  Tidy' /\ \E k \in Nat : Follows(k, observed', client')
  <1>1. Types /\ Shape /\ Tidy /\ Trails /\ phase = "attempt" /\ ~gate.failed /\ gate \in Gates
    BY DEF Struct, Base, AttemptStep, Writing, Types
  <1>2. gate.replay => plan # <<>>
    BY <1>1 DEF Shape
  <1>3. ASSUME NEW us \in Seq(Int), GateStep(us)
        PROVE  Tidy' /\ \E k \in Nat : Follows(k, observed', client')
    BY <1>1, <1>2, <1>3, GateStepTidy, GateStepTrails
  <1>4. CASE Flushing
    <2>1. <<>> \in Seq(Int) /\ Rank(<<>>) = Content
      BY DEF Rank
    <2>2. GateStep(<<>>)
      BY <1>4, <2>1 DEF Flushing, GateStep
    <2> QED BY <1>3, <2>1, <2>2
  <1>5. CASE OwnTerminal
    <2>1. CASE Quiet /\ gate' = gate
      BY <1>1, <2>1 DEF Quiet, Tidy, Trails
    <2>2. CASE StopStep(Terminal)
      BY <1>1, <2>2 DEF StopStep, Quiet, Tidy, Trails, Gates
    <2>3. CASE /\ gate.committed /\ Send(<<End>>)
               /\ gate' = [gate EXCEPT !.state = Terminal, !.failed = gone, !.rendered = ~gone]
      <3>1. <<End>> \in Seq(Int)
        BY DEF End
      <3>2. gate'.buf = gate.buf /\ gate'.state = Terminal /\ gate.buf = <<>>
        BY <1>1, <2>3 DEF Gates, Tidy
      <3> QED BY <1>1, <2>3, <3>1, <3>2, SendTrails DEF Tidy
    <2> QED BY <1>5, <2>1, <2>2, <2>3 DEF OwnTerminal
  <1>6. <<End>> \in Seq(Int)
    BY DEF End
  <1>7. ASSUME NEW us, ContentFrame(us) PROVE us \in Seq(Int)
    BY <1>7 DEF ContentFrame
  <1> QED BY <1>3, <1>4, <1>5, <1>6, <1>7 DEF AttemptStep

LEMMA LoopStruct ==
  ASSUME Struct, LoopStep
  PROVE  Tidy' /\ Trails'
  <1>1. Types /\ Shape /\ Tidy /\ Trails /\ gate \in Gates
    BY DEF Struct, Base, Types
  <1>2. CASE Completes \/ Breaks \/ Wakes \/ Outside
    BY <1>1, <1>2 DEF Completes, Breaks, Wakes, Outside, Tidy, Trails
  <1>3. ASSUME NEW r \in conf.renders, Renders(r) PROVE Tidy' /\ Trails'
    <2>1. <<End>> \in Seq(Int)
      BY DEF End
    <2>2. /\ gate'.buf = gate.buf /\ gate'.state = Terminal /\ gate'.aligned = gate.aligned
          /\ gate'.committed = gate.committed /\ gate'.failed = gate.failed
      BY <1>1, <1>3 DEF Renders, Gates
    <2>3. \E k \in Nat : Follows(k, observed', client')
      BY <1>1, <1>3, <2>1, SendTrails DEF Renders
    <2> QED BY <1>1, <2>2, <2>3 DEF Tidy, Trails
  <1>4. CASE Starts
    BY <1>1, <1>4 DEF Starts, NewGate, Tidy, Trails
  <1>5. CASE Closes \/ Leaves
    BY <1>1, <1>5 DEF Closes, Leaves, Tidy, Trails
  <1>6. CASE Waits
    <2>1. ~gate.aligned /\ ~gate.committed
      BY <1>1, <1>6 DEF Waits, Tidy, Content, Terminal
    <2>2. ~gate'.aligned /\ ~gate'.committed
      BY <1>1, <1>6, <2>1 DEF Waits, Gates
    <2>3. Trails'
      BY <1>1, <1>6 DEF Waits, Trails
    <2> QED BY <2>2, <2>3 DEF Tidy
  <1>7. CASE Replays
    BY <1>1, <1>7 DEF Replays, Tidy, Trails
  <1> QED BY <1>2, <1>3, <1>4, <1>5, <1>6, <1>7 DEF LoopStep

LEMMA SucceedTidy ==
  ASSUME Struct, Succeed
  PROVE  Tidy' /\ Trails'
  <1>1. Types /\ Shape /\ Tidy /\ gate \in Gates
    BY DEF Struct, Base, Types
  <1>2. /\ phase' = "done"
        /\ \/ gate' = gate
           \/ ~gate.failed /\ (StopStep(Content) \/ SendStep(<<>>))
    BY <1>1, SucceedSteps
  <1>3. CASE gate' = gate
    BY <1>1, <1>2, <1>3 DEF Tidy, Trails
  <1>4. CASE ~gate.failed /\ (StopStep(Content) \/ SendStep(<<>>))
    <2>1. <<>> \in Seq(Int) /\ Rank(<<>>) = Content
      BY DEF Rank
    <2>2. GateStep(<<>>)
      BY <1>4, <2>1 DEF GateStep
    <2> QED BY <1>1, <1>2, <1>4, <2>1, <2>2, GateStepTidy DEF Trails
  <1> QED BY <1>2, <1>3, <1>4

LEMMA NextStruct == Struct /\ [Next]_vars => Struct'
  <1> SUFFICES ASSUME Struct, [Next]_vars PROVE Struct'
    OBVIOUS
  <1>1. Base' /\ Base /\ Types
    BY NextBase DEF Struct, Base
  <1>2. CASE Next
    BY <1>1, <1>2, LoopCases, AttemptStruct, LoopStruct, SucceedTidy DEF Struct, Trails
  <1>3. CASE UNCHANGED vars
    BY <1>1, <1>3 DEF vars, Struct, Tidy, Trails
  <1> QED BY <1>2, <1>3

-----------------------------------------------------------------------------
(* A client that is gone gets nothing more.                                *)

LEMMA GoneStill ==
  ASSUME Struct, Next, gone
  PROVE  gone' /\ client' = client
  <1>1. Types /\ Shape
    BY DEF Struct, Base
  <1>2. CASE AttemptStep
    <2>1. gone'
      BY <1>2 DEF AttemptStep, Writing, env
    <2>2. \A us : GateStep(us) => client' = client
      BY DEF GateStep, HoldStep, StopStep, SendStep, ReplayHold, ReplayMiss, ReplayStop, ReplaySend,
         ReplayCut, Send, Quiet
    <2>3. Flushing \/ OwnTerminal => client' = client
      BY DEF Flushing, OwnTerminal, StopStep, SendStep, Send, Quiet
    <2> QED BY <1>2, <2>1, <2>2, <2>3 DEF AttemptStep
  <1>3. CASE Succeed
    BY <1>1, <1>3, SucceedSteps DEF env
  <1>4. CASE LoopStep
    BY <1>4 DEF LoopStep, Completes, Breaks, Renders, Starts, Closes, Leaves, Waits, Wakes, Replays, Outside
  <1> QED BY <1>1, <1>2, <1>3, <1>4, LoopCases

\* The settings of a request never change.
LEMMA NextConf ==
  ASSUME Struct, Next
  PROVE  conf' = conf
  <1>1. Types /\ Shape
    BY DEF Struct, Base
  <1>2. AttemptStep => conf' = conf
    BY DEF AttemptStep, Writing, env
  <1>3. Succeed => conf' = conf
    BY DEF Succeed, env
  <1>4. LoopStep => conf' = conf
    BY DEF LoopStep, Completes, Breaks, Renders, Starts, Closes, Leaves, Waits, Wakes, Replays, Outside
  <1> QED BY <1>1, <1>2, <1>3, <1>4, LoopCases

-----------------------------------------------------------------------------
(* Ends of the stream.                                                     *)

NoEnd(s) == \A i \in 1..Len(s) : s[i] # End

LEMMA NoEndMore ==
  ASSUME NEW s \in Seq(Int), NEW t \in Seq(Int), NoEnd(s), NoEnd(t)
  PROVE  NoEnd(s \o t)
  <1> DEFINE m == Len(s)
             n == Len(t)
  <1>1. m \in Nat /\ n \in Nat /\ Len(s \o t) = m + n
    OBVIOUS
  <1>2. (\A i \in 1..m : (s \o t)[i] = s[i]) /\ (\A j \in 1..n : (s \o t)[m + j] = t[j])
    OBVIOUS
  <1>3. (\A i \in 1..m : s[i] # End) /\ (\A j \in 1..n : t[j] # End)
    BY DEF NoEnd
  <1> HIDE DEF m, n
  <1>4. ASSUME NEW i \in 1..(m + n) PROVE (s \o t)[i] # End
    <2>1. CASE i <= m
      <3>1. i \in 1..m
        BY <1>1, <2>1
      <3> QED BY <1>2, <1>3, <3>1
    <2>2. CASE i > m
      <3> DEFINE j == i - m
      <3>1. j \in 1..n /\ m + j = i
        BY <1>1, <2>2
      <3> HIDE DEF j
      <3> QED BY <1>2, <1>3, <3>1
    <2>3. i <= m \/ i > m
      BY <1>1
    <2> QED BY <2>1, <2>2, <2>3
  <1> QED BY <1>1, <1>4 DEF NoEnd

\* Every ending is latched, and no replay opens a new stream.
Latching == conf.doneLatched /\ "unlatched" \notin conf.renders /\ ~conf.l2

\* Until the gate is latched, neither the client nor the window has an end.
Unended ==
  /\ NoEnd(FlattenSeq(gate.buf))
  /\ phase \in {"top", "wait"} => NoEnd(client)
  /\ phase \in {"attempt", "judge"} => (NoEnd(client) \/ gate.rendered)

LatchInv == Latching => EndsOnce /\ (gone \/ Unended)

LEMMA NoEndOnce ==
  ASSUME client \in Seq(Int), NoEnd(client)
  PROVE  EndsOnce
  <1>1. Len(client) \in Nat
    OBVIOUS
  <1>2. \A i \in 1..Len(client) - 1 : i \in 1..Len(client)
    BY <1>1
  <1> QED BY <1>2 DEF NoEnd, EndsOnce

LEMMA AppendEndOnce ==
  ASSUME client \in Seq(Int), NoEnd(client), client' = Append(client, End)
  PROVE  EndsOnce'
  <1> DEFINE n == Len(client)
  <1>1. n \in Nat /\ Len(client') = n + 1 /\ \A i \in 1..n : client'[i] = client[i]
    OBVIOUS
  <1>2. \A i \in 1..n : client[i] # End
    BY DEF NoEnd
  <1> HIDE DEF n
  <1>3. \A i \in 1..(n + 1) - 1 : i \in 1..n
    BY <1>1
  <1> QED BY <1>1, <1>2, <1>3 DEF EndsOnce

LEMMA NoEndEmpty == NoEnd(<<>>) /\ NoEnd(FlattenSeq(<<>>))
  BY FlattenEmpty DEF NoEnd

LEMMA GateStepUnended ==
  ASSUME Struct, Latching, ~gone, NoEnd(client), NoEnd(FlattenSeq(gate.buf)),
         NEW us \in Seq(Int), NoEnd(us), GateStep(us)
  PROVE  NoEnd(client') /\ NoEnd(FlattenSeq(gate'.buf))
  <1>1. Types /\ gate \in Gates /\ ~gate.replay /\ client \in Seq(Int)
    BY DEF Struct, Base, Types, Shape, Latching
  <1>2. /\ FlattenSeq(gate.buf) \in Seq(Int)
        /\ FlattenSeq(Append(gate.buf, us)) = FlattenSeq(gate.buf) \o us
    BY <1>1, FreshType DEF Fresh
  <1>3. NoEnd(FlattenSeq(gate.buf) \o us)
    BY <1>2, NoEndMore
  <1>4. CASE HoldStep(us)
    <2>1. gate'.buf = Append(gate.buf, us) /\ client' = client
      BY <1>1, <1>4 DEF HoldStep, Quiet, Gates
    <2> QED BY <1>2, <1>3, <2>1
  <1>5. CASE StopStep(Rank(us))
    <2>1. gate'.buf = gate.buf /\ client' = client
      BY <1>1, <1>5 DEF StopStep, Quiet, Gates
    <2> QED BY <2>1
  <1>6. CASE SendStep(us)
    <2>1. gate'.buf = <<>> /\ client' = client \o (FlattenSeq(gate.buf) \o us)
      BY <1>1, <1>6 DEF SendStep, Send, Gates
    <2>2. FlattenSeq(gate.buf) \o us \in Seq(Int)
      BY <1>2
    <2> QED BY <1>1, <1>3, <2>1, <2>2, NoEndMore, NoEndEmpty
  <1> QED BY <1>1, <1>4, <1>5, <1>6 DEF GateStep, ReplayHold, ReplayMiss, ReplayStop, ReplaySend,
    ReplayCut

LEMMA AttemptLatch ==
  ASSUME Struct, Struct', Latching, ~gone, EndsOnce, Unended, AttemptStep
  PROVE  EndsOnce' /\ Unended'
  <1>1. /\ Types /\ gate \in Gates /\ client \in Seq(Int) /\ client' \in Seq(Int)
        /\ phase = "attempt" /\ phase' = "attempt" /\ ~gate.rendered
    BY DEF Struct, Base, Types, Shape, AttemptStep, Writing
  <1>2. NoEnd(client) /\ NoEnd(FlattenSeq(gate.buf))
    BY <1>1 DEF Unended
  <1>3. ASSUME NoEnd(client'), NoEnd(FlattenSeq(gate'.buf)) PROVE EndsOnce' /\ Unended'
    <2>1. EndsOnce'
      <3>1. \A i \in 1..Len(client') - 1 : i \in 1..Len(client')
        BY <1>1
      <3> QED BY <1>3, <3>1 DEF NoEnd, EndsOnce
    <2> QED BY <1>1, <1>3, <2>1 DEF Unended
  <1>4. ASSUME NEW us, ContentFrame(us), GateStep(us) PROVE EndsOnce' /\ Unended'
    <2>1. us \in Seq(Int) /\ NoEnd(us)
      BY <1>4 DEF ContentFrame, NoEnd
    <2> QED BY <1>2, <1>3, <1>4, <2>1, GateStepUnended
  <1>5. CASE Flushing
    <2>1. <<>> \in Seq(Int) /\ Rank(<<>>) = Content
      BY DEF Rank
    <2>2. GateStep(<<>>)
      BY <1>5, <2>1 DEF Flushing, GateStep
    <2> QED BY <1>2, <1>3, <2>1, <2>2, GateStepUnended, NoEndEmpty
  <1>6. CASE OwnTerminal
    <2>1. CASE Quiet /\ gate' = gate
      BY <1>2, <1>3, <2>1 DEF Quiet
    <2>2. CASE StopStep(Terminal)
      <3>1. gate'.buf = gate.buf /\ client' = client
        BY <1>1, <2>2 DEF StopStep, Quiet, Gates
      <3> QED BY <1>2, <1>3, <3>1
    <2>3. CASE /\ gate.committed /\ Send(<<End>>)
               /\ gate' = [gate EXCEPT !.state = Terminal, !.failed = gone, !.rendered = ~gone]
      <3>1. gate'.buf = gate.buf /\ gate'.rendered = ~gone
        BY <1>1, <2>3 DEF Gates
      <3>2. gate'.rendered
        BY <3>1, Zenon
      <3>3. client' = client \o <<End>>
        BY <2>3 DEF Send
      <3>4. client' = Append(client, End)
        BY <1>1, <3>3 DEF End
      <3>5. EndsOnce'
        BY <1>1, <1>2, <3>4, AppendEndOnce
      <3> QED BY <1>1, <1>2, <3>1, <3>2, <3>5 DEF Unended
    <2> QED BY <1>6, <2>1, <2>2, <2>3 DEF OwnTerminal
  <1> QED BY <1>4, <1>5, <1>6 DEF AttemptStep, LastFrame, Latching

LEMMA LoopLatch ==
  ASSUME Struct, Latching, ~gone, EndsOnce, Unended, LoopStep
  PROVE  EndsOnce' /\ Unended'
  <1>1. gate \in Gates /\ client \in Seq(Int) /\ (gate.rendered => gate.committed)
    BY DEF Struct, Base, Types, Shape
  <1>2. NoEnd(FlattenSeq(gate.buf))
    BY DEF Unended
  <1>3. CASE Completes \/ Breaks \/ Outside
    BY <1>3 DEF Completes, Breaks, Outside, Unended, EndsOnce
  <1>4. ASSUME NEW r \in conf.renders, Renders(r) PROVE EndsOnce' /\ Unended'
    <2>1. r = "latched"
      <3>1. conf.renders \subseteq {"none", "latched", "unlatched"}
        BY Confs DEF Struct, Base
      <3> QED BY <1>4, <3>1 DEF Renders, Latching
    <2>2. NoEnd(client)
      BY <1>4 DEF Unended, Renders, Struct, Base, Shape
    <2>3. client' = client \o <<End>>
      BY <1>4 DEF Renders, Send
    <2>4. client' = Append(client, End)
      BY <1>1, <2>3 DEF End
    <2>5. gate'.buf = gate.buf /\ gate'.rendered
      BY <1>1, <1>4, <2>1 DEF Renders, Gates
    <2>6. EndsOnce'
      BY <1>1, <2>2, <2>4, AppendEndOnce
    <2> QED BY <1>2, <1>4, <2>5, <2>6 DEF Unended, Renders
  <1>5. CASE Starts
    <2>1. gate'.buf = <<>>
      BY <1>5 DEF Starts, NewGate
    <2> QED BY <1>5, <2>1, NoEndEmpty DEF Starts, Unended, EndsOnce
  <1>6. CASE Closes
    <2>1. CASE client' = client
      BY <1>2, <1>6, <2>1 DEF Closes, Unended, EndsOnce
    <2>2. CASE client' = Append(client, End) /\ (phase = "top" \/ ~gate.rendered)
      <3>1. NoEnd(client)
        BY <1>6, <2>2 DEF Closes, Unended
      <3> QED BY <1>1, <1>2, <1>6, <2>2, <3>1, AppendEndOnce DEF Closes, Unended
    <2> QED BY <1>6, <2>1, <2>2 DEF Closes
  <1>7. CASE Leaves
    BY <1>2, <1>7 DEF Leaves, Unended, EndsOnce
  <1>8. CASE Waits
    <2>1. gate'.buf = <<>> /\ ~gate.rendered
      BY <1>1, <1>8 DEF Waits, Gates
    <2> QED BY <1>8, <2>1, NoEndEmpty DEF Waits, Unended, EndsOnce
  <1>9. CASE Wakes
    BY <1>9 DEF Wakes, Unended, EndsOnce
  <1>10. CASE Replays
    BY <1>10 DEF Replays, Latching
  <1> QED BY <1>3, <1>4, <1>5, <1>6, <1>7, <1>8, <1>9, <1>10 DEF LoopStep

LEMMA SucceedLatch ==
  ASSUME Struct, Struct', Latching, ~gone, EndsOnce, Unended, Succeed
  PROVE  EndsOnce' /\ Unended'
  <1>1. /\ Types /\ Shape /\ gate \in Gates /\ client \in Seq(Int) /\ client' \in Seq(Int)
        /\ (gate.rendered => gate.committed)
    BY DEF Struct, Base, Types, Shape
  <1>2. /\ phase = "judge" /\ phase' = "done"
        /\ \/ UNCHANGED <<gate, client>>
           \/ ~gate.committed /\ (StopStep(Content) \/ SendStep(<<>>))
    BY <1>1, SucceedSteps
  <1>3. CASE UNCHANGED <<gate, client>>
    BY <1>2, <1>3 DEF Unended, EndsOnce
  <1>4. CASE ~gate.committed /\ (StopStep(Content) \/ SendStep(<<>>))
    <2>1. <<>> \in Seq(Int) /\ Rank(<<>>) = Content
      BY DEF Rank
    <2>2. GateStep(<<>>)
      BY <1>4, <2>1 DEF GateStep
    <2>3. NoEnd(client) /\ NoEnd(FlattenSeq(gate.buf))
      BY <1>1, <1>2, <1>4 DEF Unended
    <2>4. NoEnd(client') /\ NoEnd(FlattenSeq(gate'.buf))
      BY <2>1, <2>2, <2>3, GateStepUnended, NoEndEmpty
    <2>5. \A i \in 1..Len(client') - 1 : i \in 1..Len(client')
      BY <1>1
    <2> QED BY <1>2, <2>4, <2>5 DEF NoEnd, EndsOnce, Unended
  <1> QED BY <1>2, <1>3, <1>4

LEMMA NextLatch == Struct /\ Struct' /\ LatchInv /\ [Next]_vars => LatchInv'
  <1> SUFFICES ASSUME Struct, Struct', LatchInv, [Next]_vars PROVE LatchInv'
    OBVIOUS
  <1>1. CASE UNCHANGED vars
    BY <1>1 DEF vars, LatchInv, Latching, Unended, EndsOnce
  <1>2. CASE Next
    <2>1. conf' = conf
      BY <1>2, NextConf
    <2> SUFFICES ASSUME Latching PROVE EndsOnce' /\ (gone' \/ Unended')
      BY <2>1 DEF LatchInv, Latching
    <2>2. EndsOnce /\ (gone \/ Unended)
      BY DEF LatchInv
    <2>3. CASE gone
      BY <1>2, <2>2, <2>3, GoneStill DEF EndsOnce
    <2>4. CASE ~gone
      <3>1. AttemptStep \/ Succeed \/ LoopStep
        BY <1>2, LoopCases DEF Struct, Base
      <3> QED BY <2>2, <2>4, <3>1, AttemptLatch, SucceedLatch, LoopLatch
    <2> QED BY <2>3, <2>4
  <1> QED BY <1>1, <1>2

LEMMA InitLatch == Init => LatchInv
  <1> SUFFICES ASSUME Init PROVE LatchInv
    OBVIOUS
  <1>1. client = <<>> /\ gate.buf = <<>>
    BY DEF Init, NewGate
  <1>2. NoEnd(client) /\ NoEnd(FlattenSeq(gate.buf)) /\ client \in Seq(Int)
    BY <1>1, NoEndEmpty
  <1> QED BY <1>2, NoEndOnce DEF LatchInv, Unended

\* Where every ending a bridge writes latches the gate and no replay opens a new
\* stream, no sequence of attempts, windows, failed checkpoints and deadlines
\* makes the bridge (MayWriteTerminal) and the coordinator (renderTerminal) both
\* end the client's stream, or anything be written behind its end.
THEOREM OneEnd == Spec => []LatchedEndsOnce
  <1>1. Struct /\ LatchInv => LatchedEndsOnce
    BY DEF LatchInv, Latching, LatchedEndsOnce
  <1>2. Init => Struct /\ LatchInv
    BY InitStruct, InitLatch
  <1>3. Struct /\ LatchInv /\ [Next]_vars => Struct' /\ LatchInv'
    BY NextStruct, NextLatch
  <1> QED BY <1>1, <1>2, <1>3, PTL DEF Spec

-----------------------------------------------------------------------------
(* The client is answered.                                                 *)

Ends(s) == s # <<>> /\ s[Len(s)] = End

LEMMA AppendNotEmpty == ASSUME NEW b \in Seq(Seq(Int)), NEW us \in Seq(Int) PROVE Append(b, us) # <<>>
  OBVIOUS

LEMMA EndsBehind ==
  ASSUME NEW s \in Seq(Int), NEW t \in Seq(Int), Ends(t)
  PROVE  Ends(s \o t)
  <1> DEFINE m == Len(s)
             n == Len(t)
  <1>1. m \in Nat /\ n \in Nat \ {0} /\ Len(s \o t) = m + n /\ \A j \in 1..n : (s \o t)[m + j] = t[j]
    BY DEF Ends
  <1>2. t[n] = End
    BY DEF Ends
  <1> HIDE DEF m, n
  <1>3. n \in 1..n /\ m + n # 0
    BY <1>1
  <1>4. (s \o t)[m + n] = End
    BY <1>1, <1>2, <1>3
  <1>5. s \o t # <<>>
    BY <1>1, <1>3
  <1> QED BY <1>1, <1>4, <1>5 DEF Ends

LEMMA EndsWithEnd ==
  ASSUME NEW s \in Seq(Int)
  PROVE  Ends(s \o <<End>>) /\ Ends(Append(s, End))
  <1>1. <<End>> \in Seq(Int) /\ Ends(<<End>>)
    BY DEF End, Ends
  <1>2. Append(s, End) = s \o <<End>>
    BY DEF End
  <1> QED BY <1>1, <1>2, EndsBehind

\* A bridge that needs a committed gate for its terminal never replays.
Reporting == ~(conf.doneLatched /\ conf.l2)

\* The end of the stream is with the client or in the window.
Whole == IF ~gate.committed /\ gate.buf # <<>> THEN Ends(FlattenSeq(gate.buf)) ELSE Ends(client)

Ending ==
  /\ gate.rendered => Ends(client)
  /\ gate.failed => (conf.durable \/ Missed)
  /\ (phase = "attempt" /\ ~gate.failed /\ ~gate.replay /\ ~gate.committed /\ stream.next > 1) => gate.buf # <<>>
  /\ (((phase = "attempt" /\ stream.over) \/ (phase = "judge" /\ outcome = "ok")) /\ ~gate.failed /\ ~Missed) => Whole

AnswerInv == Reporting => Answered /\ (gone \/ Ending)

\* What a call of the gate leaves, with the client there.
LEMMA GateStepEnding ==
  ASSUME Struct, ~gone, Writing, NEW us \in Seq(Int), GateStep(us)
  PROVE  /\ ~gate'.rendered /\ (gate'.failed => (conf.durable \/ Missed'))
         /\ (~gate'.failed /\ ~gate'.replay /\ ~gate'.committed) => gate'.buf # <<>>
  <1>1. gate \in Gates /\ ~gate.failed /\ ~gate.rendered /\ (gate.aligned => gate.decided)
    BY DEF Struct, Base, Types, Shape, Writing
  <1>2. CASE HoldStep(us)
    <2>1. gate' = [gate EXCEPT !.buf = Append(@, us), !.held = @ + 1]
      BY <1>2 DEF HoldStep
    <2>2. gate'.buf = Append(gate.buf, us) /\ gate'.failed = gate.failed /\ gate'.rendered = gate.rendered
      BY <1>1, <2>1 DEF Gates
    <2>3. Append(gate.buf, us) # <<>>
      <3>1. gate.buf \in Seq(Seq(Int))
        BY <1>1 DEF Gates
      <3> QED BY <3>1, AppendNotEmpty
    <2> QED BY <1>1, <2>2, <2>3
  <1>3. CASE SendStep(us)
    <2>1. gate'.committed /\ gate'.failed = gone /\ gate'.rendered = gate.rendered
      BY <1>1, <1>3 DEF SendStep, Gates
    <2> QED BY <1>1, <2>1
  <1>4. CASE ReplayHold(us)
    <2>1. gate'.replay /\ gate'.failed = gate.failed /\ gate'.rendered = gate.rendered
      BY <1>1, <1>4 DEF ReplayHold, Gates
    <2> QED BY <1>1, <2>1
  <1>5. CASE ReplayMiss
    <2>1. gate'.replay /\ ~gate'.aligned /\ gate'.rendered = gate.rendered
      BY <1>1, <1>5 DEF ReplayMiss, Gates
    <2> QED BY <1>1, <2>1 DEF Missed
  <1>6. CASE ReplaySend(us)
    <2> DEFINE st == IF End \in Range(Beyond(us)) THEN Terminal ELSE Content
               c == Beyond(us) # <<>>
               f == gone /\ Beyond(us) # <<>>
    <2>1. gate' = [gate EXCEPT !.decided = TRUE, !.aligned = TRUE, !.buf = <<>>, !.state = st,
                              !.committed = c, !.failed = f]
      BY <1>6 DEF ReplaySend
    <2>2. ~f
      OBVIOUS
    <2> HIDE DEF st, c, f
    <2>3. gate'.replay = gate.replay /\ gate'.failed = f /\ gate'.rendered = gate.rendered
      BY <1>1, <2>1 DEF Gates
    <2>4. gate'.replay
      BY <1>6, <2>3 DEF ReplaySend
    <2> QED BY <1>1, <2>2, <2>3, <2>4, Zenon
  <1>7. CASE StopStep(Rank(us)) \/ ReplayStop \/ ReplayCut(us)
    <2>1. gate'.failed /\ gate'.rendered = gate.rendered /\ conf.durable
      BY <1>1, <1>7 DEF StopStep, ReplayStop, ReplayCut, Gates
    <2> QED BY <1>1, <2>1
  <1> QED BY <1>2, <1>3, <1>4, <1>5, <1>6, <1>7 DEF GateStep

\* A replay that ends with the stream: its end goes to the client, or the
\* client has it already as the end of the prefix.
LEMMA ReplayEnds ==
  ASSUME Struct, ~gone, phase = "attempt", ReplaySend(<<End>>)
  PROVE  Ends(client')
  <1> DEFINE us == <<End>>
             held == FlattenSeq(gate.buf)
  <1>1. /\ Types /\ Shape /\ client \in Seq(Int) /\ plan \in Seq(Int) /\ plan # <<>> /\ plan = observed
        /\ gate.replay /\ ~gate.decided
    BY DEF Struct, Base, Types, Shape, ReplaySend
  <1>2. us \in Seq(Int) /\ us # <<>> /\ Len(us) = 1 /\ us[1] = End
    BY DEF End
  <1>3. Len(Fresh(us)) >= Len(plan) /\ Align(plan, Fresh(us)).aligned /\ client' = client \o Beyond(us)
    BY DEF ReplaySend, Send
  <1> HIDE DEF us
  <1>4. /\ Beyond(us) \in Seq(Int)
        /\ \E offset \in 0..Len(plan) : Splits(us, offset)
    BY <1>1, <1>2, <1>3, BeyondIs
  <1>5. held \in Seq(Int) /\ Fresh(us) \in Seq(Int) /\ Fresh(us) = held \o us
    BY <1>1, <1>2, FreshType
  <1> HIDE DEF held
  <1>6. Len(Fresh(us)) = Len(held) + 1 /\ Fresh(us)[Len(held) + 1] = End
    <2>1. 1 \in 1..Len(us) /\ Len(held) \in Nat
      BY <1>2, <1>5
    <2>2. Len(held \o us) = Len(held) + Len(us)
      <3>1. \A s, t \in Seq(Int) : Len(s \o t) = Len(s) + Len(t)
        OBVIOUS
      <3> QED BY <1>2, <1>5, <3>1, Zenon
    <2>3. \A j \in 1..Len(us) : (held \o us)[Len(held) + j] = us[j]
      BY <1>2, <1>5
    <2>4. (held \o us)[Len(held) + 1] = us[1]
      BY <2>1, <2>3
    <2> QED BY <1>2, <1>5, <2>2, <2>4
  <1>7. PICK offset \in 0..Len(plan) : Splits(us, offset)
    BY <1>4
  <1>8. CASE Beyond(us) # <<>>
    <2>1. PICK k \in Nat : /\ k >= offset /\ k + Len(Beyond(us)) = Len(Fresh(us))
                           /\ \A i \in 1..Len(Beyond(us)) : Beyond(us)[i] = Fresh(us)[k + i]
      BY <1>7, <1>8 DEF Splits
    <2>2. Len(Beyond(us)) \in 1..Len(Beyond(us))
      BY <1>4, <1>8
    <2>3. Beyond(us)[Len(Beyond(us))] = End
      BY <1>6, <2>1, <2>2
    <2> QED BY <1>1, <1>3, <1>4, <1>8, <2>3, EndsBehind DEF Ends
  <1>9. CASE Beyond(us) = <<>>
    <2>1. client' = client
      BY <1>1, <1>3, <1>9
    <2>2. Len(held) < offset /\ \A i \in 1..offset : Fresh(us)[i] = plan[i]
      BY <1>2, <1>7, <1>9 DEF Splits, held
    <2> DEFINE n == Len(plan)
               m == Len(held)
    <2>3. n \in Nat /\ m \in Nat /\ m < offset /\ offset <= n /\ n <= m + 1 /\ offset \in Nat
      BY <1>1, <1>3, <1>5, <1>6, <2>2
    <2>4. offset = n /\ m + 1 = n /\ n \in 1..offset
      BY <2>3
    <2>5. plan[n] = End
      BY <1>6, <2>2, <2>4
    <2>6. PICK k \in Nat : Follows(k, observed, client)
      BY DEF Struct, Trails
    <2>7. k + n = Len(client) /\ \A i \in 1..n : plan[i] = client[k + i]
      BY <1>1, <2>6 DEF Follows
    <2>8. client[Len(client)] = End
      BY <2>3, <2>4, <2>5, <2>7
    <2>9. client # <<>>
      <3>1. Len(client) >= 1
        BY <2>3, <2>4, <2>7
      <3> QED BY <3>1
    <2> QED BY <2>1, <2>8, <2>9 DEF Ends
  <1> QED BY <1>8, <1>9

\* The last frame of the stream leaves its end with the client or in the window.
LEMMA LastFrameWhole ==
  ASSUME Struct, ~gone, Writing, GateStep(<<End>>), ~gate'.failed, ~Missed'
  PROVE  Whole'
  <1>1. Types /\ gate \in Gates /\ client \in Seq(Int) /\ phase = "attempt"
    BY DEF Struct, Base, Types, Writing
  <1>2. gate.aligned => gate.decided
    BY DEF Struct, Base, Shape
  <1>3. <<End>> \in Seq(Int)
    BY DEF End
  <1>4. /\ FlattenSeq(gate.buf) \in Seq(Int)
        /\ FlattenSeq(Append(gate.buf, <<End>>)) = FlattenSeq(gate.buf) \o <<End>>
        /\ FlattenSeq(gate.buf) \o <<End>> \in Seq(Int)
    BY <1>1, <1>3, FreshType DEF Fresh
  <1>5. Ends(FlattenSeq(gate.buf) \o <<End>>)
    BY <1>4, EndsWithEnd
  <1>6. CASE HoldStep(<<End>>)
    <2>1. gate'.buf = Append(gate.buf, <<End>>) /\ ~gate'.committed
      BY <1>1, <1>6 DEF HoldStep, Gates
    <2>2. gate'.buf # <<>>
      <3>1. gate.buf \in Seq(Seq(Int))
        BY <1>1 DEF Gates
      <3> QED BY <1>3, <2>1, <3>1, AppendNotEmpty
    <2> QED BY <1>4, <1>5, <2>1, <2>2 DEF Whole
  <1>7. CASE SendStep(<<End>>)
    <2>1. gate'.committed /\ client' = client \o (FlattenSeq(gate.buf) \o <<End>>)
      BY <1>1, <1>7 DEF SendStep, Send, Gates
    <2> QED BY <1>1, <1>4, <1>5, <2>1, EndsBehind DEF Whole
  <1>8. CASE ReplayHold(<<End>>)
    <2>1. gate'.replay /\ ~gate'.aligned
      BY <1>1, <1>2, <1>8 DEF ReplayHold, Gates
    <2> QED BY <2>1 DEF Missed
  <1>9. CASE ReplayMiss
    <2>1. gate'.replay /\ ~gate'.aligned
      BY <1>1, <1>2, <1>9 DEF ReplayMiss, Gates
    <2> QED BY <2>1 DEF Missed
  <1>10. CASE ReplaySend(<<End>>)
    <2>1. gate'.buf = <<>>
      BY <1>1, <1>10 DEF ReplaySend, Gates
    <2> QED BY <1>1, <1>10, <2>1, ReplayEnds DEF Whole
  <1>11. CASE StopStep(Rank(<<End>>)) \/ ReplayStop \/ ReplayCut(<<End>>)
    BY <1>1, <1>11 DEF StopStep, ReplayStop, ReplayCut, Gates
  <1> QED BY <1>6, <1>7, <1>8, <1>9, <1>10, <1>11 DEF GateStep

LEMMA AttemptAnswer ==
  ASSUME Struct, Reporting, ~gone, Ending, AttemptStep
  PROVE  Ending'
  <1>1. /\ Types /\ gate \in Gates /\ client \in Seq(Int) /\ conf' = conf
        /\ phase = "attempt" /\ phase' = "attempt" /\ ~gate.rendered /\ ~gate.failed
        /\ stream.next \in Nat \ {0} /\ Writing
    BY DEF Struct, Base, Types, Shape, AttemptStep, Writing, env
  <1>2. ASSUME NEW us \in Seq(Int), GateStep(us), ~stream'.over \/ gate'.failed \/ (us = <<End>>)
        PROVE  Ending'
    <2>1. /\ ~gate'.rendered /\ (gate'.failed => (conf.durable \/ Missed'))
          /\ (~gate'.failed /\ ~gate'.replay /\ ~gate'.committed) => gate'.buf # <<>>
      BY <1>1, <1>2, GateStepEnding
    <2>2. (stream'.over /\ ~gate'.failed /\ ~Missed') => Whole'
      BY <1>1, <1>2, LastFrameWhole
    <2> QED BY <1>1, <2>1, <2>2 DEF Ending
  <1>3. ASSUME NEW us, ContentFrame(us), GateStep(us) PROVE Ending'
    <2>1. us \in Seq(Int) /\ ~stream'.over
      BY <1>3 DEF ContentFrame
    <2> QED BY <1>2, <1>3, <2>1
  <1>4. CASE GateStep(<<End>>)
    <2>1. <<End>> \in Seq(Int)
      BY DEF End
    <2> QED BY <1>2, <1>4, <2>1
  <1>5. CASE Flushing
    <2>1. <<>> \in Seq(Int) /\ Rank(<<>>) = Content
      BY DEF Rank
    <2>2. GateStep(<<>>)
      BY <1>5, <2>1 DEF Flushing, GateStep
    <2>3. stream'.over = gate'.failed
      BY <1>1, <1>5 DEF Flushing, Types
    <2>4. ~stream'.over \/ gate'.failed
      BY <2>3, Zenon
    <2> QED BY <1>2, <2>1, <2>2, <2>4
  <1>6. CASE OwnTerminal
    <2>1. ~gate.replay
      BY <1>6 DEF OwnTerminal, Reporting, Struct, Base, Shape
    <2>2. gate.committed
      BY <1>1, <1>6, <2>1 DEF OwnTerminal, Ending
    <2>3. CASE StopStep(Terminal)
      <3>1. conf.durable /\ gate'.failed /\ gate'.rendered = gate.rendered
        BY <1>1, <2>3 DEF StopStep, Gates
      <3> QED BY <1>1, <3>1 DEF Ending
    <2>4. CASE /\ Send(<<End>>)
               /\ gate' = [gate EXCEPT !.state = Terminal, !.failed = gone, !.rendered = ~gone]
      <3>1. client' = client \o <<End>> /\ gate'.committed = gate.committed /\ gate'.failed = gone
        BY <1>1, <2>4 DEF Gates, Send
      <3>2. Ends(client')
        BY <1>1, <3>1, EndsWithEnd
      <3>3. Whole' /\ ~gate'.failed /\ gate'.committed
        BY <2>2, <3>1, <3>2 DEF Whole
      <3> QED BY <3>2, <3>3 DEF Ending
    <2> QED BY <1>6, <2>2, <2>3, <2>4 DEF OwnTerminal
  <1> QED BY <1>3, <1>4, <1>5, <1>6 DEF AttemptStep

LEMMA LoopAnswer ==
  ASSUME Struct, Reporting, ~gone, Answered, Ending, LoopStep
  PROVE  Answered' /\ (gone' \/ Ending')
  <1>1. gate \in Gates /\ client \in Seq(Int)
    BY DEF Struct, Base, Types
  <1>2. CASE Completes \/ Breaks
    BY <1>2 DEF Completes, Breaks, Ending, Answered, Whole, Missed
  <1>3. ASSUME NEW r \in conf.renders, Renders(r) PROVE Answered' /\ Ending'
    <2>1. client' = client \o <<End>> /\ gate.committed /\ ~gate.failed
      BY <1>3 DEF Renders, Send
    <2>2. Ends(client')
      BY <1>1, <2>1, EndsWithEnd
    <2>3. gate'.committed = gate.committed /\ gate'.failed = gate.failed
      BY <1>1, <1>3 DEF Renders, Gates
    <2> QED BY <1>3, <2>1, <2>2, <2>3 DEF Renders, Ending, Answered
  <1>4. CASE Starts
    <2>1. ~gate'.rendered /\ ~gate'.failed /\ stream'.next = 1 /\ ~stream'.over /\ phase' = "attempt"
      BY <1>4 DEF Starts, NewGate
    <2> QED BY <2>1 DEF Ending, Answered
  <1>5. CASE Closes
    <2>1. Ends(client')
      <3>1. CASE client' = client /\ gate.rendered
        BY <3>1 DEF Ending
      <3>2. CASE client' = Append(client, End)
        BY <1>1, <3>2, EndsWithEnd
      <3> QED BY <1>5, <3>1, <3>2 DEF Closes
    <2> QED BY <1>5, <2>1 DEF Closes, Ends, Ending, Answered, Missed
  <1>6. CASE Leaves
    BY <1>6 DEF Leaves, Ending, Answered, Missed
  <1>7. CASE Waits
    <2>1. /\ gate'.rendered = gate.rendered /\ gate'.failed = gate.failed
          /\ gate'.replay = gate.replay /\ gate'.aligned = gate.aligned
      BY <1>1, <1>7 DEF Waits, Gates
    <2>2. phase' = "wait" /\ client' = client /\ conf' = conf
      BY <1>7 DEF Waits
    <2> QED BY <2>1, <2>2 DEF Ending, Answered, Missed
  <1>8. CASE Wakes \/ Replays
    BY <1>8 DEF Wakes, Replays, Ending, Answered, Missed
  <1>9. CASE Outside
    BY <1>9 DEF Outside, Ending, Answered, Whole, Missed
  <1> QED BY <1>2, <1>3, <1>4, <1>5, <1>6, <1>7, <1>8, <1>9 DEF LoopStep

LEMMA SucceedAnswer ==
  ASSUME Struct, Reporting, ~gone, Ending, Succeed
  PROVE  Answered' /\ Ending'
  <1>1. /\ Types /\ Shape /\ gate \in Gates /\ client \in Seq(Int)
        /\ (gate.rendered => gate.committed)
    BY DEF Struct, Base, Types, Shape
  <1>2. /\ phase = "judge" /\ phase' = "done" /\ outcome = "ok" /\ ~Missed /\ conf' = conf
        /\ \/ gate.failed /\ UNCHANGED <<gate, client>>
           \/ ~gate.failed /\ (gate.committed \/ gate.buf = <<>>) /\ UNCHANGED <<gate, client>>
           \/ ~gate.failed /\ ~gate.committed /\ gate.buf # <<>> /\ (StopStep(Content) \/ SendStep(<<>>))
    BY <1>1, SucceedSteps DEF Missed, env
  <1>3. ~gate.failed => Whole
    BY <1>2 DEF Ending
  <1>6. CASE gate.failed /\ UNCHANGED <<gate, client>>
    BY <1>2, <1>6 DEF Ending, Answered
  <1>7. CASE ~gate.committed /\ StopStep(Content)
    <2>1. conf.durable /\ gate'.failed /\ gate'.rendered = gate.rendered
      BY <1>1, <1>7 DEF StopStep, Gates
    <2> QED BY <1>1, <1>2, <1>7, <2>1 DEF Ending, Answered
  <1>4. CASE ~gate.failed /\ (gate.committed \/ gate.buf = <<>>) /\ UNCHANGED <<gate, client>>
    <2>1. Ends(client')
      BY <1>3, <1>4 DEF Whole
    <2> QED BY <1>2, <1>3, <1>4, <2>1 DEF Ends, Answered, Ending
  <1>5. CASE ~gate.failed /\ ~gate.committed /\ gate.buf # <<>> /\ SendStep(<<>>)
    <2>1. FlattenSeq(gate.buf) \in Seq(Int) /\ Ends(FlattenSeq(gate.buf))
      <3>1. <<>> \in Seq(Int)
        OBVIOUS
      <3> QED BY <1>1, <1>3, <1>5, <3>1, FreshType DEF Whole
    <2>2. FlattenSeq(gate.buf) \o <<>> = FlattenSeq(gate.buf)
      BY <2>1
    <2>3. client' = client \o FlattenSeq(gate.buf)
      BY <1>5, <2>2 DEF SendStep, Send
    <2>4. Ends(client')
      BY <1>1, <2>1, <2>3, EndsBehind
    <2>5. gate'.failed = gone /\ gate'.rendered = gate.rendered
      BY <1>1, <1>5 DEF SendStep, Gates
    <2>6. ~gate'.failed
      BY <2>5, Zenon
    <2> QED BY <1>2, <2>4, <2>6 DEF Ends, Answered, Ending
  <1> QED BY <1>2, <1>4, <1>5, <1>6, <1>7

LEMMA NextAnswer == Struct /\ AnswerInv /\ [Next]_vars => AnswerInv'
  <1> SUFFICES ASSUME Struct, AnswerInv, [Next]_vars PROVE AnswerInv'
    OBVIOUS
  <1>1. CASE UNCHANGED vars
    BY <1>1 DEF vars, AnswerInv, Reporting, Ending, Answered, Whole, Missed
  <1>2. CASE Next
    <2>1. conf' = conf
      BY <1>2, NextConf
    <2> SUFFICES ASSUME Reporting PROVE Answered' /\ (gone' \/ Ending')
      BY <2>1 DEF AnswerInv, Reporting
    <2>2. Answered /\ (gone \/ Ending)
      BY DEF AnswerInv
    <2>3. CASE gone
      BY <1>2, <2>3, GoneStill DEF Answered
    <2>4. CASE ~gone
      <3>1. AttemptStep \/ Succeed \/ LoopStep
        BY <1>2, LoopCases DEF Struct, Base
      <3>2. CASE AttemptStep
        <4>1. phase' # "done"
          BY <3>2 DEF AttemptStep, Writing
        <4> QED BY <2>2, <2>4, <3>2, <4>1, AttemptAnswer DEF Answered
      <3> QED BY <2>2, <2>4, <3>1, <3>2, SucceedAnswer, LoopAnswer
    <2> QED BY <2>3, <2>4
  <1> QED BY <1>1, <1>2

LEMMA InitAnswer == Init => AnswerInv
  BY DEF Init, NewGate, AnswerInv, Answered, Ending

\* A client that is still connected when Run returns has its end of the stream,
\* from a bridge (finishAttempt), from the window that GateWriter.Finish releases
\* or from renderTerminal: no mix of retries, windows, replays and deadlines lets
\* the loop return without one, where no checkpoint can fail and the bridge that
\* ends through a committed gate does not replay.
THEOREM ClientIsAnswered == Spec => []Answered
  <1>1. AnswerInv => Answered
    BY DEF AnswerInv, Reporting, Answered
  <1>2. Init => Struct /\ AnswerInv
    BY InitStruct, InitAnswer
  <1>3. Struct /\ AnswerInv /\ [Next]_vars => Struct' /\ AnswerInv'
    BY NextStruct, NextAnswer
  <1> QED BY <1>1, <1>2, <1>3, PTL DEF Spec

-----------------------------------------------------------------------------
(* Places of the answer.                                                   *)

Rising(s) ==
  \A i, j \in 1..Len(s) : (i < j /\ s[i] # End /\ s[j] # End) => Place(s[i]) < Place(s[j])

Below(s, n) == \A i \in 1..Len(s) : s[i] # End => Place(s[i]) < n

From(s, n) == \A i \in 1..Len(s) : s[i] # End => Place(s[i]) >= n

InPlace(s) == \A i \in 1..Len(s) : s[i] # End => Place(s[i]) = i

LEMMA PlaceNat == ASSUME NEW u \in Int PROVE Place(u) \in Nat
  BY DEF Place

LEMMA PlacesNat == ASSUME NEW s \in Seq(Int) PROVE \A i \in 1..Len(s) : Place(s[i]) \in Nat
  <1>1. \A i \in 1..Len(s) : s[i] \in Int
    OBVIOUS
  <1> QED BY <1>1, PlaceNat

LEMMA Concat ==
  ASSUME NEW s \in Seq(Int), NEW t \in Seq(Int)
  PROVE  /\ Len(s) \in Nat /\ Len(t) \in Nat /\ Len(s \o t) = Len(s) + Len(t) /\ s \o t \in Seq(Int)
         /\ \A i \in 1..Len(s) : (s \o t)[i] = s[i]
         /\ \A i \in 1..Len(t) : (s \o t)[Len(s) + i] = t[i]
  OBVIOUS

\* An index of s \o t is one of s, or lies in t.
LEMMA Halves ==
  ASSUME NEW m \in Nat, NEW n \in Nat, NEW i \in 1..(m + n)
  PROVE  i \in 1..m \/ (\E j \in 1..n : i = m + j)
  <1>1. CASE i <= m
    BY <1>1
  <1>2. CASE i > m
    <2>1. i - m \in 1..n /\ i = m + (i - m)
      BY <1>2
    <2> QED BY <2>1
  <1>3. i <= m \/ i > m
    OBVIOUS
  <1> QED BY <1>1, <1>2, <1>3

LEMMA RisingMore ==
  ASSUME NEW s \in Seq(Int), NEW t \in Seq(Int), NEW n \in Nat,
         Rising(s), Rising(t), Below(s, n), From(t, n)
  PROVE  Rising(s \o t)
  <1> DEFINE m == Len(s)
             l == Len(t)
             c == s \o t
  <1>1. /\ m \in Nat /\ l \in Nat /\ Len(c) = m + l
        /\ \A i \in 1..m : c[i] = s[i]
        /\ \A i \in 1..l : c[m + i] = t[i]
    BY Concat
  <1>a. (\A i \in 1..m : Place(s[i]) \in Nat) /\ (\A i \in 1..l : Place(t[i]) \in Nat)
    BY PlacesNat
  <1>2. /\ \A i \in 1..m : Place(s[i]) \in Nat /\ (s[i] # End => Place(s[i]) < n)
        /\ \A i \in 1..l : Place(t[i]) \in Nat /\ (t[i] # End => Place(t[i]) >= n)
    BY <1>a DEF Below, From
  <1>3. /\ \A i, j \in 1..m : (i < j /\ s[i] # End /\ s[j] # End) => Place(s[i]) < Place(s[j])
        /\ \A i, j \in 1..l : (i < j /\ t[i] # End /\ t[j] # End) => Place(t[i]) < Place(t[j])
    BY DEF Rising
  <1> HIDE DEF m, l, c
  <1>4. ASSUME NEW i \in 1..(m + l), NEW j \in 1..(m + l), i < j, c[i] # End, c[j] # End
        PROVE  Place(c[i]) < Place(c[j])
    <2>1. CASE i \in 1..m /\ j \in 1..m
      BY <1>1, <1>3, <1>4, <2>1
    <2>2. ASSUME i \in 1..m, NEW b \in 1..l, j = m + b PROVE Place(c[i]) < Place(c[j])
      <3>1. c[i] = s[i] /\ c[j] = t[b]
        BY <1>1, <2>2
      <3>2. Place(s[i]) \in Nat /\ Place(s[i]) < n /\ Place(t[b]) \in Nat /\ Place(t[b]) >= n
        BY <1>2, <1>4, <2>2, <3>1
      <3>3. Place(s[i]) < Place(t[b])
        BY <3>2
      <3> QED BY <3>1, <3>3
    <2>3. ASSUME NEW a \in 1..l, i = m + a, j \in 1..m PROVE FALSE
      BY <1>1, <1>4, <2>3
    <2>4. ASSUME NEW a \in 1..l, i = m + a, NEW b \in 1..l, j = m + b PROVE Place(c[i]) < Place(c[j])
      <3>1. c[i] = t[a] /\ c[j] = t[b] /\ a < b
        BY <1>1, <1>4, <2>4
      <3> QED BY <1>3, <1>4, <3>1
    <2>5. i \in 1..m \/ (\E a \in 1..l : i = m + a)
      BY <1>1, Halves
    <2>6. j \in 1..m \/ (\E b \in 1..l : j = m + b)
      BY <1>1, Halves
    <2> QED BY <2>1, <2>2, <2>3, <2>4, <2>5, <2>6
  <1>5. Rising(c)
    BY <1>1, <1>4 DEF Rising
  <1> QED BY <1>5 DEF c

LEMMA BelowMore ==
  ASSUME NEW s \in Seq(Int), NEW t \in Seq(Int), NEW n \in Nat, NEW k \in Nat, k <= n, Below(s, k), Below(t, n)
  PROVE  Below(s \o t, n)
  <1> DEFINE m == Len(s)
             l == Len(t)
             c == s \o t
  <1>1. /\ m \in Nat /\ l \in Nat /\ Len(c) = m + l
        /\ \A i \in 1..m : c[i] = s[i]
        /\ \A i \in 1..l : c[m + i] = t[i]
    BY Concat
  <1>a. \A i \in 1..m : Place(s[i]) \in Nat
    BY PlacesNat
  <1>2. /\ \A i \in 1..m : Place(s[i]) \in Nat /\ (s[i] # End => Place(s[i]) < k)
        /\ \A i \in 1..l : t[i] # End => Place(t[i]) < n
    BY <1>a DEF Below
  <1> HIDE DEF m, l, c
  <1>3. ASSUME NEW i \in 1..(m + l), c[i] # End PROVE Place(c[i]) < n
    <2>1. CASE i \in 1..m
      <3>1. Place(s[i]) \in Nat /\ Place(s[i]) < k /\ c[i] = s[i]
        BY <1>1, <1>2, <1>3, <2>1
      <3>2. Place(s[i]) < n
        BY <3>1
      <3> QED BY <3>1, <3>2
    <2>2. ASSUME NEW b \in 1..l, i = m + b PROVE Place(c[i]) < n
      BY <1>1, <1>2, <1>3, <2>2
    <2> QED BY <1>1, <2>1, <2>2, Halves
  <1>4. Below(c, n)
    BY <1>1, <1>3 DEF Below
  <1> QED BY <1>4 DEF c

LEMMA FromMore ==
  ASSUME NEW s \in Seq(Int), NEW t \in Seq(Int), NEW n \in Nat, From(s, n), From(t, n)
  PROVE  From(s \o t, n)
  <1> DEFINE m == Len(s)
             l == Len(t)
             c == s \o t
  <1>1. /\ m \in Nat /\ l \in Nat /\ Len(c) = m + l
        /\ \A i \in 1..m : c[i] = s[i]
        /\ \A i \in 1..l : c[m + i] = t[i]
    BY Concat
  <1>2. /\ \A i \in 1..m : s[i] # End => Place(s[i]) >= n
        /\ \A i \in 1..l : t[i] # End => Place(t[i]) >= n
    BY DEF From
  <1> HIDE DEF m, l, c
  <1>3. ASSUME NEW i \in 1..(m + l), c[i] # End PROVE Place(c[i]) >= n
    <2>1. CASE i \in 1..m
      BY <1>1, <1>2, <1>3, <2>1
    <2>2. ASSUME NEW b \in 1..l, i = m + b PROVE Place(c[i]) >= n
      BY <1>1, <1>2, <1>3, <2>2
    <2> QED BY <1>1, <2>1, <2>2, Halves
  <1>4. From(c, n)
    BY <1>1, <1>3 DEF From
  <1> QED BY <1>4 DEF c

\* A tail of a sequence whose units are in place.
LEMMA InPlaceTail ==
  ASSUME NEW s \in Seq(Int), InPlace(s), NEW k \in Nat, NEW t \in Seq(Int), k + Len(t) = Len(s),
         \A i \in 1..Len(t) : t[i] = s[k + i]
  PROVE  Rising(t) /\ From(t, k + 1) /\ Below(t, Len(s) + 1)
  <1> DEFINE m == Len(s)
             l == Len(t)
  <1>1. m \in Nat /\ l \in Nat /\ k + l = m
    OBVIOUS
  <1>2. \A i \in 1..m : s[i] # End => Place(s[i]) = i
    BY DEF InPlace
  <1>3. \A i \in 1..l : t[i] = s[k + i]
    OBVIOUS
  <1> HIDE DEF m, l
  <1>4. \A i \in 1..l : t[i] # End => Place(t[i]) = k + i
    <2> TAKE i \in 1..l
    <2>1. k + i \in 1..m
      BY <1>1
    <2> QED BY <1>2, <1>3, <2>1
  <1>5. \A i \in 1..l : t[i] # End => Place(t[i]) >= k + 1 /\ Place(t[i]) < m + 1
    BY <1>1, <1>4
  <1>6. \A i, j \in 1..l : (i < j /\ t[i] # End /\ t[j] # End) => Place(t[i]) < Place(t[j])
    BY <1>1, <1>4
  <1> QED BY <1>5, <1>6 DEF Rising, From, Below, m, l

LEMMA InPlaceAll ==
  ASSUME NEW s \in Seq(Int), InPlace(s)
  PROVE  Rising(s) /\ From(s, 1) /\ Below(s, Len(s) + 1)
  <1>1. Len(s) \in Nat /\ 0 + Len(s) = Len(s) /\ \A i \in 1..Len(s) : s[i] = s[0 + i]
    OBVIOUS
  <1>2. 0 \in Nat /\ 0 + 1 = 1
    OBVIOUS
  <1> QED BY <1>1, <1>2, InPlaceTail

\* A replay reproduces the whole prefix, or there is none.
Strict == ~conf.l2 \/ conf.threshold = 10000

\* What the gate holds starts at place 1, and so does what the client gets of an
\* attempt that is no replay.
Sorted ==
  /\ (~gate.replay /\ ~gate.committed) => client = <<>>
  /\ (~gate.committed /\ ~gate.decided) => InPlace(FlattenSeq(gate.buf))
  /\ (gate.decided /\ ~gate.aligned) => gate.failed

\* The next place is n: all before it are held, or the client has none from it on.
UpTo(n) ==
  /\ (~gate.committed /\ ~gate.decided) =>
       Len(FlattenSeq(gate.buf)) = n - 1 /\ NoEnd(FlattenSeq(gate.buf))
  /\ (gate.committed \/ gate.aligned) => Below(client, n)

Order ==
  /\ From(client, 1)
  /\ phase \in {"attempt", "judge"} => Sorted
  /\ (phase = "attempt" /\ ~stream.over /\ ~gate.failed) => UpTo(stream.next)
  /\ (phase = "wait" \/ (phase = "top" /\ plan = <<>>)) => client = <<>>

OrderInv == Strict => Rising(client) /\ (gone \/ Order)

\* A frame that goes on where the stream is.
Continues(us) ==
  /\ us \in Seq(Int)
  /\ \A i \in 1..Len(us) : us[i] # End => Place(us[i]) = stream.next + i - 1
  /\ NoEnd(us) \/ (us = <<End>> /\ stream.next > 1)

LEMMA FreshInPlace ==
  ASSUME Types, NEW us, Continues(us), InPlace(FlattenSeq(gate.buf)),
         Len(FlattenSeq(gate.buf)) = stream.next - 1, NoEnd(FlattenSeq(gate.buf))
  PROVE  /\ InPlace(Fresh(us)) /\ Len(Fresh(us)) = stream.next + Len(us) - 1
         /\ NoEnd(us) => NoEnd(Fresh(us))
         /\ Fresh(us) # <<>> => Fresh(us)[1] # End
  <1> DEFINE held == FlattenSeq(gate.buf)
             m == stream.next - 1
             l == Len(us)
             f == Fresh(us)
  <1>1. us \in Seq(Int) /\ stream.next \in Nat \ {0} /\ m \in Nat /\ stream.next = m + 1
    BY DEF Continues, Types
  <1>2. held \in Seq(Int) /\ f = held \o us /\ f \in Seq(Int)
    BY <1>1, FreshType
  <1>3. Len(held) = m /\ NoEnd(held) /\ InPlace(held)
    OBVIOUS
  <1> HIDE DEF held, f
  <1>4. /\ l \in Nat /\ Len(f) = m + l
        /\ \A i \in 1..m : f[i] = held[i]
        /\ \A i \in 1..l : f[m + i] = us[i]
    <2>1. /\ Len(us) \in Nat /\ Len(held \o us) = Len(held) + Len(us)
          /\ \A i \in 1..Len(held) : (held \o us)[i] = held[i]
          /\ \A i \in 1..Len(us) : (held \o us)[Len(held) + i] = us[i]
      BY <1>1, <1>2, Concat
    <2> QED BY <1>2, <1>3, <2>1
  <1>5. /\ \A i \in 1..m : held[i] # End /\ Place(held[i]) = i
        /\ \A i \in 1..l : us[i] # End => Place(us[i]) = stream.next + i - 1
    BY <1>3 DEF NoEnd, InPlace, Continues
  <1> HIDE DEF m, l
  <1>6. \A i \in 1..l : us[i] # End => Place(us[i]) = m + i
    <2> TAKE i \in 1..l
    <2>1. stream.next + i - 1 = m + i
      BY <1>1, <1>4
    <2> QED BY <1>5, <2>1
  <1>7. InPlace(f)
    <2>1. ASSUME NEW i \in 1..(m + l), f[i] # End PROVE Place(f[i]) = i
      <3>1. CASE i \in 1..m
        BY <1>4, <1>5, <3>1
      <3>2. ASSUME NEW j \in 1..l, i = m + j PROVE Place(f[i]) = i
        BY <1>4, <1>6, <2>1, <3>2
      <3> QED BY <1>1, <1>4, <3>1, <3>2, Halves
    <2> QED BY <1>4, <2>1 DEF InPlace
  <1>8. Len(f) = stream.next + l - 1
    BY <1>1, <1>4
  <1>9. NoEnd(us) => NoEnd(f)
    BY <1>1, <1>2, <1>3, NoEndMore
  <1>10. f # <<>> => f[1] # End
    <2> SUFFICES ASSUME f # <<>> PROVE f[1] # End
      OBVIOUS
    <2>1. CASE NoEnd(us)
      <3>1. NoEnd(f) /\ 1 \in 1..Len(f)
        BY <1>2, <1>9, <2>1
      <3> QED BY <3>1 DEF NoEnd
    <2>2. CASE us = <<End>> /\ stream.next > 1
      <3>1. 1 \in 1..m
        BY <1>1, <2>2
      <3> QED BY <1>4, <1>5, <3>1
    <2> QED BY <2>1, <2>2 DEF Continues
  <1> QED BY <1>7, <1>8, <1>9, <1>10 DEF f, l

\* The client of a replay that reproduced the whole prefix has its places and no
\* others: the prefix begins with place 1, and the client's places rise.
LEMMA PrefixIsAll ==
  ASSUME client \in Seq(Int), plan \in Seq(Int), plan # <<>>, NEW f \in Seq(Int), InPlace(f),
         Len(f) >= Len(plan), \A i \in 1..Len(plan) : f[i] = plan[i], f[1] # End,
         Rising(client), From(client, 1), NEW k \in Nat, Follows(k, plan, client)
  PROVE  Below(client, Len(plan) + 1)
  <1> DEFINE n == Len(plan)
             m == Len(client)
  <1>0. n \in Nat \ {0} /\ m \in Nat /\ Len(f) \in Nat
    OBVIOUS
  <1>1. n \in Nat \ {0} /\ m \in Nat /\ k + n = m /\ n <= Len(f) /\ Len(f) \in Nat
    BY <1>0 DEF Follows
  <1>2. \A i \in 1..n : client[k + i] = f[i]
    BY DEF Follows
  <1>3. \A i \in 1..n : f[i] # End => Place(f[i]) = i
    BY <1>1 DEF InPlace
  <1>4. \A i \in 1..m : Place(client[i]) \in Nat /\ (client[i] # End => Place(client[i]) >= 1)
    <2>1. \A i \in 1..m : Place(client[i]) \in Nat
      BY PlacesNat
    <2>2. \A i \in 1..m : client[i] # End => Place(client[i]) >= 1
      BY DEF From
    <2> QED BY <2>1, <2>2
  <1>5. \A i, j \in 1..m : (i < j /\ client[i] # End /\ client[j] # End) => Place(client[i]) < Place(client[j])
    BY DEF Rising
  <1> HIDE DEF n, m
  <1>6. ASSUME NEW j \in 1..m, client[j] # End PROVE Place(client[j]) < n + 1
    <2>1. CASE j <= k
      <3>1. 1 \in 1..n /\ k + 1 \in 1..m /\ j < k + 1
        BY <1>1, <2>1
      <3>2. client[k + 1] = f[1] /\ Place(f[1]) = 1 /\ f[1] # End
        BY <1>2, <1>3, <3>1
      <3>3. Place(client[j]) < Place(client[k + 1])
        BY <1>5, <1>6, <3>1, <3>2
      <3>4. Place(client[j]) < 1 /\ Place(client[j]) \in Nat /\ Place(client[j]) >= 1
        BY <1>4, <1>6, <3>2, <3>3
      <3> QED BY <3>4
    <2>2. CASE j > k
      <3> DEFINE i == j - k
      <3>1. i \in 1..n /\ k + i = j
        BY <1>1, <2>2
      <3> HIDE DEF i
      <3>2. Place(client[j]) = i
        BY <1>2, <1>3, <1>6, <3>1
      <3> QED BY <1>1, <3>1, <3>2
    <2>3. j <= k \/ j > k
      BY <1>1
    <2> QED BY <2>1, <2>2, <2>3
  <1> QED BY <1>6 DEF Below, n, m

\* What lies beyond the plan goes on behind what the client has.
LEMMA BeyondOrder ==
  ASSUME Struct, Strict, phase = "attempt", Rising(client), From(client, 1), NEW us \in Seq(Int),
         InPlace(Fresh(us)), Fresh(us) # <<>> => Fresh(us)[1] # End, gate.replay, ~gate.decided,
         Len(Fresh(us)) >= Len(plan), Align(plan, Fresh(us)).aligned
  PROVE  /\ client \in Seq(Int) /\ Beyond(us) \in Seq(Int)
         /\ Rising(client \o Beyond(us)) /\ From(client \o Beyond(us), 1)
         /\ Below(client \o Beyond(us), Len(Fresh(us)) + 1)
  <1> DEFINE f == Fresh(us)
             b == Beyond(us)
             n == Len(plan)
  <1>1. /\ Types /\ client \in Seq(Int) /\ plan \in Seq(Int) /\ plan # <<>> /\ plan = observed
        /\ gate.replay /\ ~gate.decided /\ conf.threshold = 10000
    BY DEF Struct, Base, Types, Shape, Strict
  <1>2. Len(f) >= n /\ Align(plan, f).aligned
    OBVIOUS
  <1>3. b \in Seq(Int) /\ \E offset \in 0..n : Splits(us, offset)
    BY <1>1, <1>2, BeyondIs
  <1>4. f \in Seq(Int) /\ n \in Nat \ {0} /\ Len(f) \in Nat
    <2>1. f \in Seq(Int)
      BY <1>1, FreshType
    <2> QED BY <1>1, <2>1
  <1>5. Splits(us, n)
    <2>1. PICK offset \in 0..n : Splits(us, offset)
      BY <1>3
    <2>2. offset = n
      BY <1>1, <2>1 DEF Splits
    <2> QED BY <2>1, <2>2
  <1>6. /\ \A i \in 1..n : f[i] = plan[i]
        /\ b # <<>> =>
             \E k \in Nat : /\ k >= n /\ k + Len(b) = Len(f)
                            /\ \A i \in 1..Len(b) : b[i] = f[k + i]
    BY <1>5 DEF Splits
  <1>7. f # <<>> /\ f[1] # End /\ InPlace(f)
    <2>1. f # <<>>
      BY <1>2, <1>4
    <2> QED BY <2>1
  <1> HIDE DEF f, b
  <1>8. Below(client, n + 1)
    <2>1. PICK k \in Nat : Follows(k, plan, client)
      BY <1>1 DEF Struct, Trails
    <2>2. /\ client \in Seq(Int) /\ plan \in Seq(Int) /\ plan # <<>> /\ f \in Seq(Int) /\ InPlace(f)
          /\ Len(f) >= Len(plan) /\ f[1] # End /\ Rising(client) /\ From(client, 1)
      BY <1>1, <1>2, <1>4, <1>7
    <2>3. \A i \in 1..Len(plan) : f[i] = plan[i]
      BY <1>6
    <2> QED BY <2>1, <2>2, <2>3, PrefixIsAll, Zenon
  <1>9. Rising(b) /\ From(b, n + 1) /\ Below(b, Len(f) + 1)
    <2>1. CASE b = <<>>
      BY <2>1 DEF Rising, From, Below
    <2>2. CASE b # <<>>
      <3>1. PICK k \in Nat : k >= n /\ k + Len(b) = Len(f) /\ \A i \in 1..Len(b) : b[i] = f[k + i]
        BY <1>6, <2>2
      <3>2. Rising(b) /\ From(b, k + 1) /\ Below(b, Len(f) + 1)
        BY <1>3, <1>4, <1>7, <3>1, InPlaceTail
      <3>3. From(b, n + 1)
        <4>1. \A i \in 1..Len(b) : Place(b[i]) \in Nat /\ (b[i] # End => Place(b[i]) >= k + 1)
          BY <1>3, <3>2, PlacesNat DEF From
        <4>2. \A p \in Nat : p >= k + 1 => p >= n + 1
          BY <1>4, <3>1
        <4> QED BY <4>1, <4>2 DEF From
      <3> QED BY <3>2, <3>3
    <2> QED BY <2>1, <2>2
  <1>10. n + 1 \in Nat /\ Len(f) + 1 \in Nat /\ n + 1 <= Len(f) + 1
    BY <1>2, <1>4
  <1>11. From(b, 1)
    <2>1. \A i \in 1..Len(b) : Place(b[i]) \in Nat /\ (b[i] # End => Place(b[i]) >= n + 1)
      BY <1>3, <1>9, PlacesNat DEF From
    <2>2. \A p \in Nat : p >= n + 1 => p >= 1
      BY <1>4
    <2> QED BY <2>1, <2>2 DEF From
  <1>12. Rising(client \o b)
    BY <1>1, <1>3, <1>8, <1>9, <1>10, RisingMore
  <1>13. From(client \o b, 1)
    BY <1>1, <1>3, <1>11, FromMore
  <1>14. Below(client \o b, Len(f) + 1)
    BY <1>1, <1>3, <1>8, <1>9, <1>10, BelowMore
  <1> QED BY <1>1, <1>3, <1>12, <1>13, <1>14 DEF f, b

\* What a matching replay sends goes on behind what the client has.
LEMMA ReplayOrder ==
  ASSUME Struct, Strict, ~gone, phase = "attempt", Rising(client), From(client, 1), NEW us \in Seq(Int),
         InPlace(Fresh(us)), Fresh(us) # <<>> => Fresh(us)[1] # End, ReplaySend(us)
  PROVE  Rising(client') /\ From(client', 1) /\ Below(client', Len(Fresh(us)) + 1)
  <1>1. client' = client \o Beyond(us)
    BY DEF ReplaySend, Send
  <1>2. /\ gate.replay /\ ~gate.decided /\ Len(Fresh(us)) >= Len(plan)
        /\ Align(plan, Fresh(us)).aligned
    BY DEF ReplaySend
  <1> QED BY <1>1, <1>2, BeyondOrder

\* So does a part of it.
LEMMA CutOrder ==
  ASSUME Struct, Strict, ~gone, phase = "attempt", Rising(client), From(client, 1), NEW us \in Seq(Int),
         InPlace(Fresh(us)), Fresh(us) # <<>> => Fresh(us)[1] # End, ReplayCut(us)
  PROVE  Rising(client') /\ From(client', 1)
  <1> DEFINE b == Beyond(us)
             all == client \o b
  <1>1. client' = client \o Front(b) /\ b # <<>>
    BY DEF ReplayCut, Send
  <1>2. /\ gate.replay /\ ~gate.decided /\ Len(Fresh(us)) >= Len(plan)
        /\ Align(plan, Fresh(us)).aligned
    BY DEF ReplayCut
  <1>3. client \in Seq(Int) /\ b \in Seq(Int) /\ Rising(all) /\ From(all, 1)
    BY <1>2, BeyondOrder
  <1> HIDE DEF b
  <1>4. Front(b) \in Seq(Int) /\ Len(Front(b)) = Len(b) - 1 /\ \A i \in 1..Len(b) - 1 : Front(b)[i] = b[i]
    BY <1>1, <1>3, FrontType
  <1>5. /\ Len(client') = Len(all) - 1
        /\ \A i \in 1..Len(client') : i \in 1..Len(all) /\ client'[i] = all[i]
    <2> DEFINE c == client
               t == Front(b)
    <2>1. \A x, y \in Seq(Int) : /\ Len(x \o y) = Len(x) + Len(y)
                                 /\ \A i \in 1..Len(x) : (x \o y)[i] = x[i]
                                 /\ \A i \in 1..Len(y) : (x \o y)[Len(x) + i] = y[i]
      OBVIOUS
    <2>2. Len(c \o t) = Len(c) + Len(t) /\ Len(c \o b) = Len(c) + Len(b)
      BY <1>3, <1>4, <2>1
    <2>3. Len(c) \in Nat /\ Len(b) \in Nat /\ Len(t) \in Nat
      BY <1>3, <1>4
    <2>4. \A i \in 1..Len(c) : (c \o t)[i] = c[i] /\ (c \o b)[i] = c[i]
      BY <1>3, <1>4, <2>1
    <2>5. \A j \in 1..Len(b) - 1 : (c \o t)[Len(c) + j] = b[j] /\ (c \o b)[Len(c) + j] = b[j]
      <3>1. \A j \in 1..Len(t) : (c \o t)[Len(c) + j] = t[j]
        BY <1>3, <1>4, <2>1
      <3>2. \A j \in 1..Len(b) : (c \o b)[Len(c) + j] = b[j]
        BY <1>3, <2>1
      <3>3. \A j \in 1..Len(b) - 1 : j \in 1..Len(b) /\ j \in 1..Len(t)
        BY <1>4, <2>3
      <3> QED BY <1>4, <3>1, <3>2, <3>3
    <2>6. \A i \in 1..Len(c) + Len(t) :
            i \in 1..Len(c) \/ (i - Len(c) \in 1..Len(b) - 1 /\ i = Len(c) + (i - Len(c)))
      BY <1>4, <2>3
    <2> HIDE DEF c, t
    <2>7. ASSUME NEW i \in 1..Len(c) + Len(t) PROVE (c \o t)[i] = (c \o b)[i]
      <3>1. CASE i \in 1..Len(c)
        BY <2>4, <3>1, Zenon
      <3>2. ASSUME NEW j \in 1..Len(b) - 1, i = Len(c) + j PROVE (c \o t)[i] = (c \o b)[i]
        BY <2>5, <3>2, Zenon
      <3> QED BY <2>6, <3>1, <3>2, Zenon
    <2>8. Len(c \o t) = Len(c \o b) - 1 /\ \A i \in 1..Len(c \o t) : i \in 1..Len(c \o b)
      <3>1. Len(t) = Len(b) - 1
        BY <1>4 DEF t
      <3> QED BY <2>2, <2>3, <3>1
    <2>9. client' = c \o t /\ all = c \o b
      BY <1>1 DEF c, t
    <2> HIDE DEF all
    <2> QED BY <2>2, <2>7, <2>8, <2>9, Zenon
  <1> HIDE DEF all
  <1> QED BY <1>3, <1>5 DEF Rising, From

\* A frame that goes on where the stream is, behind a client that has no place
\* from there on.
LEMMA FrameOrder ==
  ASSUME Types, NEW us, Continues(us)
  PROVE  /\ Rising(us) /\ From(us, stream.next) /\ From(us, 1) /\ Below(us, stream.next + Len(us))
         /\ stream.next \in Nat \ {0} /\ Len(us) \in Nat /\ us \in Seq(Int)
  <1> DEFINE n == stream.next
             l == Len(us)
  <1>1. n \in Nat \ {0} /\ us \in Seq(Int) /\ l \in Nat
    BY DEF Types, Continues
  <1>2. \A i \in 1..l : us[i] # End => Place(us[i]) = n + i - 1
    BY DEF Continues
  <1> HIDE DEF n, l
  <1>3. \A i \in 1..l : us[i] # End => Place(us[i]) >= n /\ Place(us[i]) >= 1 /\ Place(us[i]) < n + l
    BY <1>1, <1>2
  <1>4. \A i, j \in 1..l : (i < j /\ us[i] # End /\ us[j] # End) => Place(us[i]) < Place(us[j])
    BY <1>1, <1>2
  <1> QED BY <1>1, <1>3, <1>4 DEF Rising, From, Below, n, l

LEMMA PlacesEmpty == /\ Rising(<<>>) /\ From(<<>>, 1) /\ InPlace(FlattenSeq(<<>>))
                     /\ NoEnd(FlattenSeq(<<>>)) /\ Len(FlattenSeq(<<>>)) = 0
  BY FlattenEmpty DEF Rising, From, InPlace, NoEnd

LEMMA GateStepOrder ==
  ASSUME Struct, Strict, ~gone, Writing, Rising(client), Order, NEW us, Continues(us), GateStep(us),
         NEW N \in Nat, N = stream.next + Len(us)
  PROVE  /\ Rising(client') /\ From(client', 1) /\ Sorted'
         /\ (~gate'.failed /\ NoEnd(us)) => UpTo(N)'
  <1> DEFINE held == FlattenSeq(gate.buf)
  <1>1. /\ Types /\ Shape /\ Tidy /\ gate \in Gates /\ client \in Seq(Int) /\ us \in Seq(Int)
        /\ ~gate.failed /\ ~stream.over /\ phase = "attempt" /\ gate.buf \in Seq(Seq(Int))
    BY DEF Struct, Base, Types, Gates, Writing, Continues
  <1>2. From(client, 1) /\ Sorted /\ UpTo(stream.next)
    BY <1>1 DEF Order
  <1>3. /\ held \in Seq(Int) /\ Fresh(us) = held \o us /\ Fresh(us) \in Seq(Int)
        /\ FlattenSeq(Append(gate.buf, us)) = Fresh(us)
    BY <1>1, FreshType DEF Fresh
  <1>4. /\ Rising(us) /\ From(us, stream.next) /\ From(us, 1) /\ Below(us, N)
        /\ stream.next \in Nat \ {0} /\ Len(us) \in Nat
    BY <1>1, FrameOrder
  <1>5. N - 1 = stream.next + Len(us) - 1 /\ stream.next <= N
    BY <1>4
  <1>6. ASSUME ~gate.committed, ~gate.decided
        PROVE  /\ InPlace(Fresh(us)) /\ Len(Fresh(us)) = N - 1 /\ (NoEnd(us) => NoEnd(Fresh(us)))
               /\ Fresh(us) # <<>> => Fresh(us)[1] # End
               /\ Rising(Fresh(us)) /\ From(Fresh(us), 1) /\ Below(Fresh(us), N) /\ InPlace(held)
    <2>1. InPlace(held) /\ Len(held) = stream.next - 1 /\ NoEnd(held)
      BY <1>2, <1>6 DEF Sorted, UpTo
    <2>2. /\ InPlace(Fresh(us)) /\ Len(Fresh(us)) = N - 1 /\ (NoEnd(us) => NoEnd(Fresh(us)))
          /\ Fresh(us) # <<>> => Fresh(us)[1] # End
      BY <1>1, <1>5, <2>1, FreshInPlace
    <2>3. Rising(Fresh(us)) /\ From(Fresh(us), 1) /\ Below(Fresh(us), Len(Fresh(us)) + 1)
      BY <1>3, <2>2, InPlaceAll
    <2>4. Len(Fresh(us)) + 1 = N
      BY <2>2
    <2> QED BY <2>1, <2>2, <2>3, <2>4
  <1>7. CASE HoldStep(us)
    <2>1. ~gate.replay /\ ~gate.committed /\ ~gate.decided /\ client' = client /\ client = <<>>
      BY <1>1, <1>2, <1>7 DEF HoldStep, Quiet, Shape, Sorted
    <2>2. /\ gate'.buf = Append(gate.buf, us) /\ gate'.committed = gate.committed
          /\ gate'.decided = gate.decided /\ gate'.aligned = gate.aligned
      BY <1>1, <1>7 DEF HoldStep, Gates
    <2>3. ~gate'.committed /\ ~gate'.decided /\ ~gate'.aligned /\ FlattenSeq(gate'.buf) = Fresh(us)
      BY <1>1, <1>3, <2>1, <2>2 DEF Shape
    <2>4. Sorted'
      BY <1>6, <2>1, <2>3 DEF Sorted
    <2>5. NoEnd(us) => UpTo(N)'
      BY <1>6, <2>1, <2>3 DEF UpTo
    <2> QED BY <1>2, <2>1, <2>4, <2>5
  <1>8. CASE StopStep(Rank(us))
    <2>1. /\ gate'.failed /\ client' = client /\ gate'.buf = gate.buf /\ gate'.replay = gate.replay
          /\ gate'.committed = gate.committed /\ gate'.decided = gate.decided
      BY <1>1, <1>8 DEF StopStep, Quiet, Gates
    <2> QED BY <1>2, <2>1 DEF Sorted
  <1>9. CASE SendStep(us)
    <2>1. /\ gate'.committed /\ gate'.decided = gate.decided /\ gate'.aligned = gate.aligned
          /\ client' = client \o (held \o us)
      BY <1>1, <1>9 DEF SendStep, Send, Gates
    <2>2. Sorted'
      BY <1>1, <1>2, <2>1 DEF Sorted
    <2>3. Rising(client') /\ From(client', 1) /\ Below(client', N)
      <3>1. CASE ~gate.committed /\ ~gate.decided
        <4>1. client = <<>>
          BY <1>2, <1>9, <3>1 DEF SendStep, Sorted
        <4>2. client' = Fresh(us)
          BY <1>3, <2>1, <4>1
        <4> QED BY <1>6, <3>1, <4>2
      <3>2. CASE gate.committed \/ gate.decided
        <4>1. gate.committed \/ gate.aligned
          BY <1>1, <1>2, <3>2 DEF Sorted
        <4>2. held = <<>>
          BY <1>1, <4>1, FlattenEmpty DEF Tidy
        <4>3. client' = client \o us
          BY <1>1, <2>1, <4>2
        <4>4. Below(client, stream.next)
          BY <1>2, <4>1 DEF UpTo
        <4>5. Rising(client \o us)
          BY <1>1, <1>4, <4>4, RisingMore
        <4>6. From(client \o us, 1)
          BY <1>1, <1>2, <1>4, FromMore
        <4>7. Below(client \o us, N)
          BY <1>1, <1>4, <1>5, <4>4, BelowMore
        <4> QED BY <4>3, <4>5, <4>6, <4>7
      <3> QED BY <3>1, <3>2
    <2>4. UpTo(N)'
      BY <2>1, <2>3 DEF UpTo
    <2> QED BY <2>2, <2>3, <2>4
  <1>10. CASE ReplayHold(us)
    <2>1. gate.replay /\ ~gate.decided /\ ~gate.committed /\ ~gate.aligned /\ client' = client
      BY <1>1, <1>10 DEF ReplayHold, Quiet, Shape
    <2>2. /\ gate'.buf = Append(gate.buf, us) /\ gate'.committed = gate.committed
          /\ gate'.decided = gate.decided /\ gate'.aligned = gate.aligned /\ gate'.replay = gate.replay
      BY <1>1, <1>10 DEF ReplayHold, Gates
    <2>3. FlattenSeq(gate'.buf) = Fresh(us)
      BY <1>3, <2>2
    <2>4. Sorted'
      BY <1>6, <2>1, <2>2, <2>3 DEF Sorted
    <2>5. NoEnd(us) => UpTo(N)'
      BY <1>6, <2>1, <2>2, <2>3 DEF UpTo
    <2> QED BY <1>2, <2>1, <2>4, <2>5
  <1>11. CASE ReplayMiss \/ ReplayStop
    <2>1. gate'.failed /\ gate'.decided /\ gate'.replay /\ client' = client
      BY <1>1, <1>11 DEF ReplayMiss, ReplayStop, Quiet, Gates
    <2> QED BY <1>2, <2>1 DEF Sorted
  <1>12. CASE ReplaySend(us)
    <2>1. gate.replay /\ ~gate.decided /\ ~gate.committed
      BY <1>1, <1>12 DEF ReplaySend, Shape
    <2>2. gate'.decided /\ gate'.aligned /\ gate'.replay
      BY <1>1, <1>12, <2>1 DEF ReplaySend, Gates
    <2>3. Sorted'
      BY <2>2 DEF Sorted
    <2>4. Rising(client') /\ From(client', 1) /\ Below(client', Len(Fresh(us)) + 1)
      BY <1>1, <1>2, <1>6, <1>12, <2>1, ReplayOrder
    <2>5. Len(Fresh(us)) + 1 = N
      BY <1>6, <2>1
    <2>6. UpTo(N)'
      BY <2>2, <2>4, <2>5 DEF UpTo
    <2> QED BY <2>3, <2>4, <2>6
  <1>13. CASE ReplayCut(us)
    <2>1. gate.replay /\ ~gate.decided /\ ~gate.committed
      BY <1>1, <1>13 DEF ReplayCut, Shape
    <2>2. gate'.failed /\ gate'.decided /\ gate'.aligned /\ gate'.replay
      BY <1>1, <1>13, <2>1 DEF ReplayCut, Gates
    <2>3. Sorted'
      BY <2>2 DEF Sorted
    <2>4. Rising(client') /\ From(client', 1)
      BY <1>1, <1>2, <1>6, <1>13, <2>1, CutOrder
    <2> QED BY <2>2, <2>3, <2>4
  <1> QED BY <1>7, <1>8, <1>9, <1>10, <1>11, <1>12, <1>13 DEF GateStep

\* An end of the stream disturbs no place.
LEMMA EndOrder ==
  ASSUME client \in Seq(Int), Rising(client), From(client, 1),
         client' = client \o <<End>> \/ client' = Append(client, End)
  PROVE  Rising(client') /\ From(client', 1)
  <1> DEFINE m == Len(client)
  <1>1. client' = Append(client, End)
    BY DEF End
  <1>2. m \in Nat /\ Len(client') = m + 1 /\ (\A i \in 1..m : client'[i] = client[i]) /\ client'[m + 1] = End
    BY <1>1 DEF End
  <1>3. /\ \A i \in 1..m : client[i] # End => Place(client[i]) >= 1
        /\ \A i, j \in 1..m : (i < j /\ client[i] # End /\ client[j] # End) => Place(client[i]) < Place(client[j])
    BY DEF From, Rising
  <1> HIDE DEF m
  <1>4. \A i \in 1..(m + 1) : i \in 1..m \/ i = m + 1
    BY <1>2
  <1>5. \A i \in 1..(m + 1) : client'[i] # End => i \in 1..m /\ client'[i] = client[i]
    BY <1>2, <1>4
  <1> QED BY <1>2, <1>3, <1>5 DEF Rising, From

LEMMA AttemptOrder ==
  ASSUME Struct, Strict, ~gone, Rising(client), Order, AttemptStep
  PROVE  Rising(client') /\ Order'
  <1>1. /\ Types /\ Shape /\ gate \in Gates /\ client \in Seq(Int) /\ ~gate.failed /\ ~stream.over
        /\ phase = "attempt" /\ phase' = "attempt" /\ Writing /\ stream.next \in Nat \ {0}
    BY DEF Struct, Base, Types, AttemptStep, Writing
  <1>2. From(client, 1) /\ Sorted
    BY <1>1 DEF Order
  <1>3. ASSUME NEW us, Continues(us), GateStep(us),
               stream'.over \/ gate'.failed \/ (NoEnd(us) /\ stream'.next = stream.next + Len(us))
        PROVE  Rising(client') /\ Order'
    <2>1. Len(us) \in Nat
      BY <1>3 DEF Continues
    <2>2. PICK N \in Nat : N = stream.next + Len(us)
      BY <1>1, <2>1
    <2>3. /\ Rising(client') /\ From(client', 1) /\ Sorted'
          /\ (~gate'.failed /\ NoEnd(us)) => UpTo(N)'
      BY <1>1, <1>3, <2>2, GateStepOrder
    <2>4. (~stream'.over /\ ~gate'.failed) => UpTo(stream.next)'
      BY <1>3, <2>2, <2>3 DEF UpTo
    <2> QED BY <1>1, <2>3, <2>4 DEF Order
  <1>4. ASSUME NEW us, ContentFrame(us), GateStep(us) PROVE Rising(client') /\ Order'
    <2>1. Continues(us) /\ NoEnd(us) /\ stream'.next = stream.next + Len(us)
      BY <1>4 DEF ContentFrame, Continues, NoEnd
    <2> QED BY <1>3, <1>4, <2>1
  <1>5. CASE stream.next > 1 /\ LastFrame /\ GateStep(<<End>>)
    <2>1. <<End>> \in Seq(Int) /\ \A i \in 1..Len(<<End>>) : <<End>>[i] = End
      BY DEF End
    <2>2. Continues(<<End>>)
      BY <1>5, <2>1 DEF Continues
    <2>3. stream'.over
      BY <1>1, <1>5 DEF LastFrame, Types
    <2> QED BY <1>3, <1>5, <2>2, <2>3
  <1>6. CASE Flushing
    <2>1. <<>> \in Seq(Int) /\ Rank(<<>>) = Content /\ Len(<<>>) = 0 /\ NoEnd(<<>>)
      BY DEF Rank, NoEnd
    <2>2. GateStep(<<>>)
      BY <1>6, <2>1 DEF Flushing, GateStep
    <2>3. Continues(<<>>)
      BY <2>1 DEF Continues
    <2>4. stream'.next = stream.next /\ stream.next = stream.next + 0
      BY <1>1, <1>6 DEF Flushing, Types
    <2> QED BY <1>3, <2>1, <2>2, <2>3, <2>4
  <1>7. CASE OwnTerminal
    <2>1. stream'.over
      BY <1>1, <1>7 DEF OwnTerminal, Types
    <2>2. ASSUME Rising(client'), From(client', 1), Sorted' PROVE Rising(client') /\ Order'
      BY <1>1, <2>1, <2>2 DEF Order
    <2>3. CASE Quiet /\ gate' = gate
      BY <1>2, <2>2, <2>3 DEF Quiet, Sorted
    <2>4. CASE StopStep(Terminal)
      <3>1. /\ gate'.failed /\ client' = client /\ gate'.buf = gate.buf /\ gate'.replay = gate.replay
            /\ gate'.committed = gate.committed /\ gate'.decided = gate.decided
        BY <1>1, <2>4 DEF StopStep, Quiet, Gates
      <3> QED BY <1>2, <2>2, <3>1 DEF Sorted
    <2>5. CASE /\ gate.committed /\ Send(<<End>>)
               /\ gate' = [gate EXCEPT !.state = Terminal, !.failed = gone, !.rendered = ~gone]
      <3>1. gate'.committed = gate.committed /\ gate'.decided = gate.decided /\ gate'.aligned = gate.aligned
        BY <1>1, <2>5 DEF Gates
      <3>2. Sorted'
        BY <1>1, <1>2, <2>5, <3>1 DEF Sorted
      <3>3. Rising(client') /\ From(client', 1)
        BY <1>1, <1>2, <2>5, EndOrder DEF Send
      <3> QED BY <2>2, <3>2, <3>3
    <2> QED BY <1>7, <2>3, <2>4, <2>5 DEF OwnTerminal
  <1> QED BY <1>4, <1>5, <1>6, <1>7 DEF AttemptStep

LEMMA LoopOrder ==
  ASSUME Struct, ~gone, Rising(client), Order, LoopStep
  PROVE  Rising(client') /\ Order'
  <1>1. gate \in Gates /\ client \in Seq(Int) /\ Tidy
    BY DEF Struct, Base, Types
  <1>2. From(client, 1)
    BY DEF Order
  <1>3. CASE Completes \/ Breaks \/ Outside
    BY <1>3 DEF Completes, Breaks, Outside, Order, Sorted, UpTo
  <1>4. ASSUME NEW r \in conf.renders, Renders(r) PROVE Rising(client') /\ Order'
    <2>1. Sorted /\ gate.committed /\ ~gate.failed /\ phase' = "judge"
      BY <1>4 DEF Renders, Order
    <2>2. /\ gate'.committed = gate.committed /\ gate'.decided = gate.decided
          /\ gate'.aligned = gate.aligned
      BY <1>1, <1>4 DEF Renders, Gates
    <2>3. Sorted'
      BY <2>1, <2>2 DEF Sorted
    <2>4. Rising(client') /\ From(client', 1)
      BY <1>1, <1>2, <1>4, EndOrder DEF Renders, Send
    <2> QED BY <2>1, <2>3, <2>4 DEF Order
  <1>5. CASE Starts
    <2>1. /\ gate' = NewGate(Armed) /\ stream' = [next |-> 1, diverged |-> FALSE, over |-> FALSE]
          /\ phase = "top" /\ phase' = "attempt" /\ client' = client
      BY <1>5 DEF Starts
    <2>2. /\ gate'.buf = <<>> /\ ~gate'.committed /\ ~gate'.decided /\ ~gate'.aligned
          /\ (~gate'.replay => plan = <<>>) /\ stream'.next = 1
      BY <2>1 DEF NewGate, Armed
    <2>3. Sorted'
      BY <2>1, <2>2, PlacesEmpty DEF Sorted, Order
    <2>4. UpTo(stream.next)'
      BY <2>2, PlacesEmpty DEF UpTo
    <2> QED BY <1>2, <2>1, <2>3, <2>4 DEF Order
  <1>6. CASE Closes
    <2>1. Rising(client') /\ From(client', 1)
      BY <1>1, <1>2, <1>6, EndOrder DEF Closes
    <2> QED BY <1>6, <2>1 DEF Closes, Order
  <1>7. CASE Leaves
    BY <1>2, <1>7 DEF Leaves, Order
  <1>8. CASE Waits
    <2>1. ~gate.replay /\ ~gate.committed
      BY <1>1, <1>8 DEF Waits, Missed, Tidy, Content, Terminal
    <2>2. client = <<>> /\ client' = client /\ phase' = "wait"
      BY <1>8, <2>1 DEF Waits, Order, Sorted
    <2> QED BY <1>2, <2>2 DEF Order
  <1>9. CASE Wakes
    BY <1>9 DEF Wakes, Order
  <1>10. CASE Replays
    BY <1>10 DEF Replays, Order
  <1> QED BY <1>3, <1>4, <1>5, <1>6, <1>7, <1>8, <1>9, <1>10 DEF LoopStep

LEMMA SucceedOrder ==
  ASSUME Struct, ~gone, Rising(client), Order, Succeed
  PROVE  Rising(client') /\ Order'
  <1>1. /\ Types /\ Shape /\ Tidy /\ gate \in Gates /\ client \in Seq(Int)
        /\ From(client, 1)
    BY DEF Struct, Base, Types, Order
  <1>2. /\ phase = "judge" /\ phase' = "done" /\ (gate.replay => gate.aligned)
        /\ \/ client' = client
           \/ ~gate.failed /\ ~gate.committed /\ gate.buf # <<>> /\ SendStep(<<>>)
    BY <1>1, SucceedSteps DEF StopStep, Quiet
  <1>3. CASE client' = client
    BY <1>1, <1>2, <1>3 DEF Order
  <1>4. CASE ~gate.failed /\ ~gate.committed /\ gate.buf # <<>> /\ SendStep(<<>>)
    <2>1. ~gate.replay /\ ~gate.decided
      BY <1>1, <1>2, <1>4 DEF Tidy, Shape
    <2>2. client = <<>> /\ InPlace(FlattenSeq(gate.buf))
      BY <1>2, <1>4, <2>1 DEF Order, Sorted
    <2>3. FlattenSeq(gate.buf) \in Seq(Int)
      <3>1. <<>> \in Seq(Int)
        OBVIOUS
      <3> QED BY <1>1, <3>1, FreshType
    <2>4. <<>> \o (FlattenSeq(gate.buf) \o <<>>) = FlattenSeq(gate.buf)
      BY <2>3
    <2>5. client' = FlattenSeq(gate.buf)
      BY <1>4, <2>2, <2>4 DEF SendStep, Send
    <2>6. Rising(client') /\ From(client', 1)
      BY <2>2, <2>3, <2>5, InPlaceAll
    <2> QED BY <1>2, <2>6 DEF Order
  <1> QED BY <1>2, <1>3, <1>4

LEMMA NextOrder == Struct /\ OrderInv /\ [Next]_vars => OrderInv'
  <1> SUFFICES ASSUME Struct, OrderInv, [Next]_vars PROVE OrderInv'
    OBVIOUS
  <1>1. CASE UNCHANGED vars
    BY <1>1 DEF vars, OrderInv, Strict, Order, Sorted, UpTo
  <1>2. CASE Next
    <2>1. conf' = conf
      BY <1>2, NextConf
    <2> SUFFICES ASSUME Strict PROVE Rising(client') /\ (gone' \/ Order')
      BY <2>1 DEF OrderInv, Strict
    <2>2. Rising(client) /\ (gone \/ Order)
      BY DEF OrderInv
    <2>3. CASE gone
      BY <1>2, <2>2, <2>3, GoneStill
    <2>4. CASE ~gone
      <3>1. AttemptStep \/ Succeed \/ LoopStep
        BY <1>2, LoopCases DEF Struct, Base
      <3> QED BY <2>2, <2>4, <3>1, AttemptOrder, SucceedOrder, LoopOrder
    <2> QED BY <2>3, <2>4
  <1> QED BY <1>1, <1>2

LEMMA InitOrder == Init => OrderInv
  BY PlacesEmpty DEF Init, OrderInv, Order

\* The red line of the commit gate: over any number of attempts, discarded
\* windows and aligned replays the client gets no place of the answer twice and
\* none out of order, as long as a replay has to reproduce the whole of the
\* committed prefix (forwardReplaySuffixLocked starts behind it).
THEOREM NothingRepeats == Spec => []NoRepeat
  <1>1. OrderInv => NoRepeat
    BY DEF OrderInv, Strict, Rising, NoRepeat
  <1>2. Init => Struct /\ OrderInv
    BY InitStruct, InitOrder
  <1>3. Struct /\ OrderInv /\ [Next]_vars => Struct' /\ OrderInv'
    BY NextStruct, NextOrder
  <1> QED BY <1>1, <1>2, <1>3, PTL DEF Spec

-----------------------------------------------------------------------------
(* The whole answer.                                                       *)

LEMMA HasMore ==
  ASSUME NEW s \in Seq(Int), NEW t \in Seq(Int), NEW p
  PROVE  Has(s, p) \/ Has(t, p) => Has(s \o t, p)
  <1> DEFINE m == Len(s)
             l == Len(t)
             c == s \o t
  <1>1. /\ m \in Nat /\ l \in Nat /\ Len(c) = m + l
        /\ \A i \in 1..m : c[i] = s[i]
        /\ \A i \in 1..l : c[m + i] = t[i]
    BY Concat
  <1>2. ASSUME Has(s, p) PROVE Has(c, p)
    <2>1. PICK i \in 1..m : s[i] # End /\ Place(s[i]) = p
      BY <1>2 DEF Has
    <2> HIDE DEF m, l, c
    <2>2. i \in 1..Len(c) /\ c[i] = s[i]
      BY <1>1
    <2> QED BY <2>1, <2>2 DEF Has
  <1>3. ASSUME Has(t, p) PROVE Has(c, p)
    <2>1. PICK i \in 1..l : t[i] # End /\ Place(t[i]) = p
      BY <1>3 DEF Has
    <2> HIDE DEF m, l, c
    <2>2. m + i \in 1..Len(c) /\ c[m + i] = t[i]
      BY <1>1
    <2> QED BY <2>1, <2>2 DEF Has
  <1> QED BY <1>2, <1>3

\* s begins with the places before n, each where it belongs.
AllIn(s, n) == \A p \in 1..n - 1 : p \in 1..Len(s) /\ s[p] # End /\ Place(s[p]) = p

LEMMA AllInHas ==
  ASSUME NEW s, NEW n, AllIn(s, n), NEW p \in 1..n - 1
  PROVE  Has(s, p)
  BY DEF AllIn, Has

\* The client has the places before n, but for the rest of one frame.
Covered(n) ==
  \E a \in 0..n, g \in Straddling : \A p \in 1..n - 1 : Has(client, p) \/ (a < p /\ p < a + g)

Lengths == \A i \in 1..Len(gate.buf) : Len(gate.buf[i]) \in FrameSizes \cup {1}

Reaches(n) == IF gate.committed \/ gate.decided THEN Covered(n) ELSE AllIn(FlattenSeq(gate.buf), n)

Tracked(n) ==
  /\ Lengths
  /\ (gate.decided /\ ~gate.aligned) => gate.failed
  /\ ~gate.failed => Reaches(n)

HeldTo(n) == (~gate.failed /\ ~gate.committed /\ ~gate.decided) => Len(FlattenSeq(gate.buf)) = n - 1

Track ==
  /\ phase \in {"attempt", "judge"} => Tracked(stream.next)
  /\ (phase = "attempt" /\ ~stream.over) => HeldTo(stream.next)

WholeInv ==
  /\ succeed => phase = "done"
  /\ gone \/ Track
  /\ WholeAnswer

\* The next place after a frame.
After(us) == IF NoEnd(us) THEN stream.next + Len(us) ELSE stream.next

\* A client to which all places were sent lacks none.
LEMMA CoverAll ==
  ASSUME NEW n \in Nat, \A p \in 1..n - 1 : Has(client, p)
  PROVE  Covered(n)
  <1>1. 0 \in 0..n /\ 1 \in Straddling
    BY DEF Straddling
  <1>2. \A p \in 1..n - 1 : Has(client, p) \/ (0 < p /\ p < 0 + 1)
    OBVIOUS
  <1> QED BY <1>1, <1>2 DEF Covered

LEMMA FreshAll ==
  ASSUME Types, NEW us, Continues(us), AllIn(FlattenSeq(gate.buf), stream.next),
         Len(FlattenSeq(gate.buf)) = stream.next - 1
  PROVE  /\ AllIn(Fresh(us), After(us)) /\ InPlace(FlattenSeq(gate.buf)) /\ NoEnd(FlattenSeq(gate.buf))
         /\ Len(Fresh(us)) = stream.next + Len(us) - 1
         /\ After(us) \in Nat \ {0} /\ After(us) <= stream.next + Len(us) /\ stream.next <= After(us)
  <1> DEFINE held == FlattenSeq(gate.buf)
             f == Fresh(us)
             m == stream.next - 1
             l == Len(us)
  <1>1. us \in Seq(Int) /\ stream.next \in Nat \ {0} /\ l \in Nat /\ m \in Nat /\ stream.next = m + 1
    BY DEF Types, Continues
  <1>2. \A p \in 1..m : held[p] # End /\ Place(held[p]) = p
    BY DEF AllIn
  <1>3. InPlace(held) /\ NoEnd(held)
    BY <1>2 DEF InPlace, NoEnd
  <1>4. InPlace(f) /\ Len(f) = stream.next + l - 1 /\ (NoEnd(us) => NoEnd(f))
    BY <1>3, FreshInPlace
  <1>5. held \in Seq(Int) /\ f = held \o us /\ Len(held) = m
    BY <1>1, FreshType
  <1>6. \A i \in 1..m : f[i] = held[i]
    BY <1>1, <1>5, Concat
  <1>7. CASE NoEnd(us)
    <2>1. After(us) = stream.next + l
      BY <1>7 DEF After
    <2>2. \A p \in 1..Len(f) : f[p] # End /\ Place(f[p]) = p
      BY <1>4, <1>7 DEF InPlace, NoEnd
    <2> HIDE DEF f, l, m, held
    <2>3. After(us) - 1 = Len(f) /\ After(us) \in Nat \ {0} /\ After(us) <= stream.next + l /\ stream.next <= After(us)
      BY <1>1, <1>4, <2>1
    <2>4. AllIn(f, After(us))
      BY <2>2, <2>3 DEF AllIn
    <2> QED BY <1>3, <1>4, <2>3, <2>4 DEF f, l, held
  <1>8. CASE ~NoEnd(us)
    <2>1. After(us) = stream.next
      BY <1>8 DEF After
    <2> HIDE DEF f, l, m, held
    <2>2. After(us) - 1 = m /\ After(us) \in Nat \ {0} /\ After(us) <= stream.next + l /\ m <= Len(f)
      BY <1>1, <1>4, <2>1
    <2>3. \A p \in 1..m : p \in 1..Len(f) /\ f[p] # End /\ Place(f[p]) = p
      <3>1. Len(f) \in Nat
        BY <1>1, <1>4
      <3> QED BY <1>1, <1>2, <1>6, <2>2, <3>1
    <2>4. AllIn(f, After(us))
      BY <2>2, <2>3 DEF AllIn
    <2> QED BY <1>1, <1>3, <1>4, <2>1, <2>2, <2>4 DEF f, l, held
  <1> QED BY <1>7, <1>8

LEMMA SendTrack ==
  ASSUME Struct, ~gone, ~gate.failed, Tracked(stream.next), HeldTo(stream.next), NEW us, Continues(us),
         SendStep(us), NEW M, M = After(us)
  PROVE  Tracked(M)' /\ HeldTo(M)'
  <1> DEFINE held == FlattenSeq(gate.buf)
  <1>1. /\ Types /\ Tidy /\ gate \in Gates /\ client \in Seq(Int) /\ us \in Seq(Int)
        /\ stream.next \in Nat \ {0} /\ Len(us) \in Nat
    BY DEF Struct, Base, Types, Continues
  <1>2. held \in Seq(Int) /\ Fresh(us) \in Seq(Int) /\ Fresh(us) = held \o us
    BY <1>1, FreshType
  <1>3. /\ gate'.buf = <<>> /\ gate'.committed /\ gate'.decided = gate.decided
        /\ gate'.aligned = gate.aligned /\ gate'.replay = gate.replay
        /\ client' = client \o (held \o us)
    BY <1>1 DEF SendStep, Send, Gates
  <1>4. Lengths' /\ HeldTo(M)' /\ ~(gate'.decided /\ ~gate'.aligned)
    BY <1>3 DEF Lengths, HeldTo, Tracked
  <1>5. Straddling' = Straddling
    BY <1>3 DEF Straddling
  <1>6. M \in Nat \ {0} /\ stream.next <= M
    BY <1>1 DEF After
  <1>7. Covered(M)'
    <2>1. CASE ~gate.committed /\ ~gate.decided
      <3>1. AllIn(Fresh(us), M)
        BY <1>1, <2>1, FreshAll DEF Tracked, Reaches, HeldTo
      <3>2. \A p \in 1..M - 1 : Has(client', p)
        BY <1>1, <1>2, <1>3, <3>1, AllInHas, HasMore
      <3>3. 0 \in 0..M /\ 1 \in Straddling'
        BY <1>6 DEF Straddling
      <3> QED BY <3>2, <3>3 DEF Covered
    <2>2. CASE gate.committed \/ gate.decided
      <3>1. held = <<>>
        BY <1>1, <2>2, FlattenEmpty DEF Tidy, Tracked
      <3>2. client' = client \o us
        BY <1>1, <1>3, <3>1
      <3>3. PICK a \in 0..stream.next, g \in Straddling :
              \A p \in 1..stream.next - 1 : Has(client, p) \/ (a < p /\ p < a + g)
        BY <2>2 DEF Tracked, Reaches, Covered
      <3>4. ASSUME NEW p \in 1..M - 1 PROVE Has(client', p) \/ (a < p /\ p < a + g)
        <4>1. CASE p < stream.next
          <5>1. p \in 1..stream.next - 1
            BY <1>1, <1>6, <4>1
          <5> QED BY <1>1, <3>2, <3>3, <5>1, HasMore
        <4>2. CASE ~(p < stream.next)
          <5>1. NoEnd(us) /\ M = stream.next + Len(us)
            BY <1>1, <1>6, <4>2 DEF After
          <5> DEFINE i == p - stream.next + 1
          <5>2. i \in 1..Len(us) /\ stream.next + i - 1 = p
            BY <1>1, <1>6, <4>2, <5>1
          <5> HIDE DEF i
          <5>3. us[i] # End /\ Place(us[i]) = p
            BY <5>1, <5>2 DEF NoEnd, Continues
          <5>4. Has(us, p)
            BY <5>2, <5>3 DEF Has
          <5> QED BY <1>1, <3>2, <5>4, HasMore
        <4> QED BY <4>1, <4>2
      <3>5. a \in 0..M
        BY <1>1, <1>6
      <3> QED BY <1>5, <3>3, <3>4, <3>5 DEF Covered
    <2> QED BY <2>1, <2>2
  <1> QED BY <1>3, <1>4, <1>7 DEF Tracked, Reaches

\* A matching replay: the prefix is with the client, the suffix is sent, and
\* what lies between them is the rest of one frame.
LEMMA ReplayTrack ==
  ASSUME Struct, ~gone, phase = "attempt", ~gate.failed, Tracked(stream.next), HeldTo(stream.next),
         NEW us, Continues(us), Len(us) \in FrameSizes \cup {1}, ReplaySend(us), NEW M, M = After(us)
  PROVE  Covered(M)'
  <1> DEFINE f == Fresh(us)
             b == Beyond(us)
             n == Len(plan)
             frames == Append(gate.buf, us)
  <1>1. /\ Types /\ gate \in Gates /\ client \in Seq(Int) /\ plan \in Seq(Int) /\ plan # <<>> /\ plan = observed
        /\ gate.replay /\ ~gate.decided /\ ~gate.committed /\ us \in Seq(Int)
        /\ stream.next \in Nat \ {0} /\ Len(us) \in Nat
    BY DEF Struct, Base, Types, Shape, ReplaySend, Continues
  <1>2. Len(f) >= n /\ Align(plan, f).aligned /\ client' = client \o b
    BY DEF ReplaySend, Send
  <1>3. b \in Seq(Int) /\ \E offset \in 0..n : Splits(us, offset)
    BY <1>1, <1>2, BeyondIs
  <1>4. f \in Seq(Int)
    BY <1>1, FreshType
  <1>5. /\ AllIn(f, M) /\ Len(f) = stream.next + Len(us) - 1
        /\ M \in Nat \ {0} /\ M <= stream.next + Len(us) /\ stream.next <= M
    BY <1>1, FreshAll DEF Tracked, Reaches, HeldTo
  <1>6. PICK offset \in 0..n : Splits(us, offset)
    BY <1>3
  <1> DEFINE k == Len(f) - Len(b)
  <1>7. \E g \in FrameSizes \cup {1} : k < offset + g
    <2>1. CASE k <= offset
      <3>1. k < offset + 1
        BY <1>1, <1>3, <1>4, <2>1
      <3> QED BY <3>1
    <2>2. ASSUME NEW j \in 1..Len(frames), k < offset + Len(frames[j])
          PROVE  \E g \in FrameSizes \cup {1} : k < offset + g
      <3>1. Len(frames[j]) \in FrameSizes \cup {1}
        <4>1. gate.buf \in Seq(Seq(Int))
          BY <1>1 DEF Gates
        <4>2. Len(frames) = Len(gate.buf) + 1 /\ frames[Len(gate.buf) + 1] = us /\ Len(gate.buf) \in Nat
          BY <1>1, <4>1
        <4>3. \A i \in 1..Len(gate.buf) : frames[i] = gate.buf[i]
          BY <1>1, <4>1
        <4>4. j \in 1..Len(gate.buf) \/ j = Len(gate.buf) + 1
          BY <4>2
        <4> HIDE DEF frames
        <4> QED BY <4>2, <4>3, <4>4 DEF Tracked, Lengths
      <3> QED BY <2>2, <3>1
    <2>3. (k <= offset) \/ \E j \in 1..Len(frames) : k < offset + Len(frames[j])
      BY <1>6 DEF Splits
    <2> HIDE DEF k, frames
    <2> QED BY <2>1, <2>2, <2>3
  <1>8. PICK g \in FrameSizes \cup {1} : k < offset + g
    BY <1>7
  <1>9. g \in Straddling'
    <2>1. gate'.replay
      BY <1>1 DEF ReplaySend, Gates
    <2> QED BY <2>1 DEF Straddling
  <1>10. g \in Nat
    BY SurvivalAssumption
  <1>11. PICK c \in Nat : Follows(c, plan, client)
    BY <1>1 DEF Struct, Trails
  <1>12. /\ n \in Nat /\ Len(f) \in Nat /\ Len(b) \in Nat /\ Len(client) \in Nat /\ offset \in Nat /\ offset <= n
         /\ c + n = Len(client)
    BY <1>1, <1>3, <1>4, <1>11 DEF Follows
  <1>13. ASSUME NEW p \in 1..M - 1 PROVE Has(client', p) \/ (offset < p /\ p < offset + g)
    <2>1. p \in 1..Len(f) /\ f[p] # End /\ Place(f[p]) = p /\ p \in Nat
      BY <1>5 DEF AllIn
    <2>2. CASE p <= offset
      <3>1. p \in 1..offset /\ p \in 1..n /\ c + p \in 1..Len(client)
        BY <1>12, <2>1, <2>2
      <3>2. f[p] = plan[p] /\ plan[p] = client[c + p]
        BY <1>6, <1>11, <3>1 DEF Splits, Follows
      <3>3. Has(client, p)
        BY <2>1, <3>1, <3>2 DEF Has
      <3> QED BY <1>1, <1>2, <1>3, <3>3, HasMore
    <2>3. CASE p > offset /\ p <= k
      BY <1>8, <1>10, <1>12, <2>1, <2>3
    <2>4. CASE p > k
      <3>1. b # <<>>
        BY <1>12, <2>1, <2>4
      <3>2. PICK q \in Nat : /\ q + Len(b) = Len(f) /\ \A i \in 1..Len(b) : b[i] = f[q + i]
        BY <1>6, <3>1 DEF Splits
      <3> DEFINE i == p - q
      <3>3. i \in 1..Len(b) /\ q + i = p
        BY <1>12, <2>1, <2>4, <3>2
      <3> HIDE DEF i
      <3>4. Has(b, p)
        BY <2>1, <3>2, <3>3 DEF Has
      <3> QED BY <1>1, <1>2, <1>3, <3>4, HasMore
    <2>5. p <= offset \/ (p > offset /\ p <= k) \/ p > k
      BY <1>12, <2>1
    <2> QED BY <2>2, <2>3, <2>4, <2>5
  <1>14. offset \in 0..M
    <2>1. stream.next + Len(us) - 1 >= offset
      BY <1>2, <1>5, <1>12
    <2>2. CASE NoEnd(us)
      <3>1. M = stream.next + Len(us)
        BY <2>2 DEF After
      <3> DEFINE x == stream.next
                 l == Len(us)
      <3>2. x \in Nat /\ l \in Nat /\ offset \in Nat /\ M = x + l /\ x + l - 1 >= offset
        BY <1>1, <1>12, <2>1, <3>1
      <3> HIDE DEF x, l
      <3> QED BY <3>2
    <2>3. CASE ~NoEnd(us)
      <3>1. M = stream.next /\ Len(us) = 1
        BY <2>3 DEF After, Continues
      <3> QED BY <1>1, <1>12, <2>1, <3>1
    <2> QED BY <2>2, <2>3
  <1> HIDE DEF f, b, n, k
  <1> QED BY <1>9, <1>13, <1>14 DEF Covered

\* One more frame is held.
LEMMA HoldTrack ==
  ASSUME Struct, ~gate.committed, ~gate.decided, ~gate.failed, Tracked(stream.next), HeldTo(stream.next),
         NEW us, Continues(us), Len(us) \in FrameSizes \cup {1}, NEW M, M = After(us),
         gate'.buf = Append(gate.buf, us), ~gate'.committed, ~gate'.decided
  PROVE  Tracked(M)' /\ (NoEnd(us) => HeldTo(M)')
  <1>1. Types /\ gate.buf \in Seq(Seq(Int)) /\ us \in Seq(Int) /\ stream.next \in Nat /\ Len(us) \in Nat
    BY DEF Struct, Base, Types, Gates, Continues
  <1>2. AllIn(Fresh(us), M) /\ Len(Fresh(us)) = stream.next + Len(us) - 1
    BY <1>1, FreshAll DEF Tracked, Reaches, HeldTo
  <1>3. FlattenSeq(gate'.buf) = Fresh(us)
    BY DEF Fresh
  <1>4. Reaches(M)'
    BY <1>2, <1>3 DEF Reaches
  <1>5. NoEnd(us) => HeldTo(M)'
    <2>1. ASSUME NoEnd(us) PROVE Len(Fresh(us)) = M - 1
      <3>1. M = stream.next + Len(us)
        BY <2>1 DEF After
      <3> DEFINE x == stream.next
                 l == Len(us)
                 k == Len(Fresh(us))
      <3>2. x \in Nat /\ l \in Nat /\ M = x + l /\ k = x + l - 1
        BY <1>1, <1>2, <3>1
      <3> HIDE DEF x, l, k
      <3>3. k = M - 1
        BY <3>2
      <3> QED BY <3>3 DEF k
    <2> QED BY <1>3, <2>1 DEF HeldTo
  <1>6. Lengths'
    <2> DEFINE n == Len(gate.buf)
    <2>1. /\ n \in Nat /\ Len(gate'.buf) = n + 1 /\ gate'.buf[n + 1] = us
          /\ \A i \in 1..n : gate'.buf[i] = gate.buf[i]
      BY <1>1
    <2>2. \A i \in 1..n : Len(gate.buf[i]) \in FrameSizes \cup {1}
      BY DEF Tracked, Lengths
    <2> HIDE DEF n
    <2>3. \A i \in 1..(n + 1) : i \in 1..n \/ i = n + 1
      BY <2>1
    <2> QED BY <2>1, <2>2, <2>3 DEF Lengths
  <1> QED BY <1>4, <1>5, <1>6 DEF Tracked

\* A gate that has failed owes nothing.
LEMMA StopTrack ==
  ASSUME Lengths, gate'.buf = gate.buf, gate'.failed, NEW M
  PROVE  Tracked(M)' /\ HeldTo(M)'
  BY DEF Lengths, Tracked, HeldTo

LEMMA GateStepTrack ==
  ASSUME Struct, ~gone, Writing, Tracked(stream.next), HeldTo(stream.next), NEW us, Continues(us),
         Len(us) \in FrameSizes \cup {1}, GateStep(us), NEW M, M = After(us)
  PROVE  Tracked(M)' /\ (NoEnd(us) => HeldTo(M)')
  <1>1. /\ Types /\ Shape /\ gate \in Gates /\ ~gate.failed /\ phase = "attempt"
        /\ gate.buf \in Seq(Seq(Int)) /\ Lengths
    BY DEF Struct, Base, Types, Gates, Writing, Tracked
  <1>2. CASE HoldStep(us)
    <2>1. ~gate.committed /\ ~gate.decided
      BY <1>1, <1>2 DEF HoldStep, Shape
    <2>2. /\ gate'.buf = Append(gate.buf, us) /\ gate'.committed = gate.committed
          /\ gate'.decided = gate.decided
      BY <1>1, <1>2 DEF HoldStep, Gates
    <2> QED BY <1>1, <2>1, <2>2, HoldTrack
  <1>3. CASE SendStep(us)
    BY <1>1, <1>3, SendTrack
  <1>4. CASE ReplayHold(us)
    <2>1. ~gate.committed /\ ~gate.decided
      BY <1>1, <1>4 DEF ReplayHold, Shape
    <2>2. /\ gate'.buf = Append(gate.buf, us) /\ gate'.committed = gate.committed
          /\ gate'.decided = gate.decided
      BY <1>1, <1>4 DEF ReplayHold, Gates
    <2> QED BY <1>1, <2>1, <2>2, HoldTrack
  <1>5. CASE StopStep(Rank(us)) \/ ReplayMiss \/ ReplayStop
    <2>1. gate'.failed /\ gate'.buf = gate.buf
      BY <1>1, <1>5 DEF StopStep, ReplayMiss, ReplayStop, Gates
    <2> QED BY <1>1, <2>1, StopTrack
  <1>6. CASE ReplaySend(us)
    <2>1. Covered(M)'
      BY <1>1, <1>6, ReplayTrack
    <2>2. gate'.decided /\ gate'.aligned /\ gate'.buf = <<>>
      BY <1>1, <1>6 DEF ReplaySend, Gates
    <2> QED BY <2>1, <2>2 DEF Tracked, Reaches, HeldTo, Lengths
  <1>7. CASE ReplayCut(us)
    <2>1. gate'.failed /\ gate'.buf = <<>>
      BY <1>1, <1>7 DEF ReplayCut, Gates
    <2> QED BY <2>1 DEF Tracked, HeldTo, Lengths
  <1> QED BY <1>2, <1>3, <1>4, <1>5, <1>6, <1>7 DEF GateStep

\* An end of the stream takes no place away.
LEMMA EndTrack ==
  ASSUME client \in Seq(Int), NEW n, Covered(n), client' = client \o <<End>>, gate'.replay = gate.replay
  PROVE  Covered(n)'
  <1>1. <<End>> \in Seq(Int)
    BY DEF End
  <1>2. \A p : Has(client, p) => Has(client', p)
    BY <1>1, HasMore
  <1>3. Straddling' = Straddling
    BY DEF Straddling
  <1> QED BY <1>2, <1>3 DEF Covered

LEMMA AttemptTrack ==
  ASSUME Struct, ~gone, Track, AttemptStep
  PROVE  Track'
  <1>1. /\ Types /\ Shape /\ gate \in Gates /\ client \in Seq(Int) /\ ~gate.failed /\ ~stream.over
        /\ phase = "attempt" /\ phase' = "attempt" /\ Writing /\ stream.next \in Nat \ {0}
    BY DEF Struct, Base, Types, AttemptStep, Writing
  <1>2. Tracked(stream.next) /\ HeldTo(stream.next) /\ Lengths
    BY <1>1 DEF Track, Tracked
  <1>3. ASSUME NEW us, Continues(us), Len(us) \in FrameSizes \cup {1}, GateStep(us),
               stream'.next = After(us), stream'.over \/ NoEnd(us)
        PROVE  Track'
    <2>1. PICK M : M = After(us)
      OBVIOUS
    <2>2. Tracked(M)' /\ (NoEnd(us) => HeldTo(M)')
      BY <1>1, <1>2, <1>3, <2>1, GateStepTrack
    <2>3. Tracked(stream.next)' /\ (NoEnd(us) => HeldTo(stream.next)')
      <3>1. stream'.next = M
        BY <1>3, <2>1
      <3> QED BY <2>2, <3>1 DEF Tracked, HeldTo, Reaches, Covered
    <2> QED BY <1>1, <1>3, <2>3 DEF Track
  <1>4. ASSUME NEW us, ContentFrame(us), GateStep(us) PROVE Track'
    <2>1. Continues(us) /\ NoEnd(us) /\ stream'.next = stream.next + Len(us) /\ Len(us) \in FrameSizes
      BY <1>4 DEF ContentFrame, Continues, NoEnd
    <2> QED BY <1>3, <1>4, <2>1 DEF After
  <1>5. CASE stream.next > 1 /\ LastFrame /\ GateStep(<<End>>)
    <2>1. <<End>> \in Seq(Int) /\ (\A i \in 1..Len(<<End>>) : <<End>>[i] = End) /\ Len(<<End>>) = 1
      BY DEF End
    <2>2. Continues(<<End>>)
      BY <1>5, <2>1 DEF Continues
    <2>3. ~NoEnd(<<End>>)
      BY <2>1 DEF NoEnd
    <2>4. stream'.over /\ stream'.next = stream.next
      BY <1>1, <1>5 DEF LastFrame, Types
    <2> QED BY <1>3, <1>5, <2>1, <2>2, <2>3, <2>4 DEF After
  <1>6. CASE Flushing
    <2>1. stream'.next = stream.next
      BY <1>1, <1>6 DEF Flushing, Types
    <2>2. ASSUME Tracked(stream.next)', HeldTo(stream.next)' PROVE Track'
      BY <1>1, <2>2 DEF Track
    <2>3. CASE StopStep(Content)
      <3>1. gate'.failed /\ gate'.buf = gate.buf
        BY <1>1, <2>3 DEF StopStep, Gates
      <3>2. Tracked(stream.next)' /\ HeldTo(stream.next)'
        BY <1>2, <3>1 DEF Tracked, HeldTo, Lengths
      <3> QED BY <2>2, <3>2
    <2>4. CASE SendStep(<<>>)
      <3>1. <<>> \in Seq(Int) /\ Len(<<>>) = 0 /\ NoEnd(<<>>)
        BY DEF NoEnd
      <3>2. Continues(<<>>)
        BY <3>1 DEF Continues
      <3>3. PICK M : M = After(<<>>)
        OBVIOUS
      <3>4. M = stream'.next
        BY <1>1, <2>1, <3>1, <3>3 DEF After
      <3>5. Tracked(M)' /\ HeldTo(M)'
        BY <1>1, <1>2, <2>4, <3>2, <3>3, SendTrack
      <3>6. Tracked(stream.next)' /\ HeldTo(stream.next)'
        BY <3>4, <3>5 DEF Tracked, HeldTo, Reaches, Covered
      <3> QED BY <2>2, <3>6
    <2> QED BY <1>6, <2>3, <2>4 DEF Flushing
  <1>7. CASE OwnTerminal
    <2>1. stream'.over /\ stream'.next = stream.next
      BY <1>1, <1>7 DEF OwnTerminal, Types
    <2>2. ASSUME Tracked(stream.next)' PROVE Track'
      BY <1>1, <2>1, <2>2 DEF Track
    <2>3. CASE Quiet /\ gate' = gate
      <3>1. Tracked(stream.next)'
        BY <1>2, <2>1, <2>3 DEF Quiet, Tracked, Lengths, Reaches, Covered, Straddling
      <3> QED BY <2>2, <3>1
    <2>4. CASE StopStep(Terminal)
      <3>1. gate'.failed /\ gate'.buf = gate.buf
        BY <1>1, <2>4 DEF StopStep, Gates
      <3>2. Tracked(stream.next)'
        BY <1>2, <3>1 DEF Tracked, Lengths
      <3> QED BY <2>2, <3>2
    <2>5. CASE /\ gate.committed /\ Send(<<End>>)
               /\ gate' = [gate EXCEPT !.state = Terminal, !.failed = gone, !.rendered = ~gone]
      <3>1. /\ gate'.committed = gate.committed /\ gate'.decided = gate.decided /\ gate'.buf = gate.buf
            /\ gate'.aligned = gate.aligned /\ gate'.replay = gate.replay
        BY <1>1, <2>5 DEF Gates
      <3>2. client' = client \o <<End>>
        BY <2>5 DEF Send
      <3>3. PICK n : n = stream.next
        OBVIOUS
      <3>4. Covered(n)
        BY <1>1, <1>2, <2>5, <3>3 DEF Tracked, Reaches
      <3>5. Covered(n)'
        BY <1>1, <3>1, <3>2, <3>4, EndTrack
      <3>6. Covered(stream.next)'
        BY <2>1, <3>3, <3>5 DEF Covered
      <3>7. Tracked(stream.next)'
        BY <1>1, <1>2, <2>5, <3>1, <3>6 DEF Tracked, Lengths, Reaches
      <3> QED BY <2>2, <3>7
    <2> QED BY <1>7, <2>3, <2>4, <2>5 DEF OwnTerminal
  <1> QED BY <1>4, <1>5, <1>6, <1>7 DEF AttemptStep

LEMMA LoopTrack ==
  ASSUME Struct, ~gone, Track, LoopStep
  PROVE  Track'
  <1>1. gate \in Gates /\ client \in Seq(Int)
    BY DEF Struct, Base, Types
  <1>2. CASE Completes \/ Breaks \/ Outside
    <2>1. UNCHANGED <<gate, stream, client>> /\ (phase' = phase \/ (phase = "attempt" /\ phase' = "judge"))
      BY <1>2 DEF Completes, Breaks, Outside
    <2>2. phase' \in {"attempt", "judge"} => Tracked(stream.next)'
      BY <2>1 DEF Track, Tracked, Lengths, Reaches, Covered, Straddling
    <2>3. (phase' = "attempt" /\ ~stream'.over) => HeldTo(stream.next)'
      BY <2>1 DEF Track, HeldTo
    <2> QED BY <2>2, <2>3 DEF Track
  <1>3. ASSUME NEW r \in conf.renders, Renders(r) PROVE Track'
    <2>1. /\ gate.committed /\ ~gate.failed /\ phase = "attempt" /\ phase' = "judge"
          /\ client' = client \o <<End>> /\ stream' = stream
      BY <1>3 DEF Renders, Send
    <2>2. /\ gate'.committed = gate.committed /\ gate'.decided = gate.decided /\ gate'.buf = gate.buf
          /\ gate'.aligned = gate.aligned /\ gate'.replay = gate.replay
      BY <1>1, <1>3 DEF Renders, Gates
    <2>3. PICK n : n = stream.next
      OBVIOUS
    <2>4. Covered(n) /\ Lengths /\ ~(gate.decided /\ ~gate.aligned)
      BY <2>1, <2>3 DEF Track, Tracked, Reaches
    <2>5. Covered(n)'
      BY <1>1, <2>1, <2>2, <2>4, EndTrack
    <2>6. Covered(stream.next)'
      BY <2>1, <2>3, <2>5 DEF Covered
    <2>7. Tracked(stream.next)'
      BY <2>1, <2>2, <2>4, <2>6 DEF Tracked, Lengths, Reaches
    <2> QED BY <2>1, <2>7 DEF Track
  <1>4. CASE Starts
    <2>1. gate' = NewGate(Armed) /\ stream' = [next |-> 1, diverged |-> FALSE, over |-> FALSE]
      BY <1>4 DEF Starts
    <2>2. gate'.buf = <<>> /\ ~gate'.committed /\ ~gate'.decided /\ stream'.next = 1
      BY <2>1 DEF NewGate
    <2>3. AllIn(FlattenSeq(gate.buf), stream.next)'
      BY <2>2 DEF AllIn
    <2>4. Tracked(stream.next)'
      BY <2>2, <2>3 DEF Tracked, Reaches, Lengths
    <2>5. HeldTo(stream.next)'
      BY <2>2, PlacesEmpty DEF HeldTo
    <2> QED BY <2>4, <2>5 DEF Track
  <1>5. CASE Closes \/ Leaves \/ Waits \/ Wakes \/ Replays
    <2>1. phase' \notin {"attempt", "judge"}
      BY <1>5 DEF Closes, Leaves, Waits, Wakes, Replays
    <2> QED BY <2>1 DEF Track
  <1> QED BY <1>2, <1>3, <1>4, <1>5 DEF LoopStep

\* A success is reported with everything delivered.
LEMMA SucceedWhole ==
  ASSUME Struct, ~gone, Track, ~succeed, Reporting => Ending, Succeed
  PROVE  Track' /\ WholeAnswer' /\ (succeed' => phase' = "done")
  <1>1. /\ Types /\ Shape /\ Tidy /\ gate \in Gates /\ client \in Seq(Int) /\ stream.next \in Nat \ {0}
        /\ succeed \in BOOLEAN
    BY DEF Struct, Base, Types
  <1>2. /\ phase = "judge" /\ phase' = "done" /\ outcome = "ok" /\ (gate.replay => gate.aligned)
        /\ conf' = conf /\ gone' = gone /\ stream' = stream
        /\ \/ gate.failed /\ succeed' = succeed
           \/ ~gate.failed /\ (gate.committed \/ gate.buf = <<>>) /\ UNCHANGED <<gate, client>>
           \/ ~gate.failed /\ ~gate.committed /\ gate.buf # <<>>
              /\ (StopStep(Content) \/ SendStep(<<>>)) /\ succeed' = ~gate'.failed
    BY <1>1, SucceedSteps DEF env
  <1>3. Track' /\ (succeed' => phase' = "done")
    BY <1>2 DEF Track
  <1>4. Tracked(stream.next)
    BY <1>2 DEF Track
  <1>5. Reporting /\ ~gate.failed => Whole
    BY <1>2 DEF Ending, Missed
  <1>6. ASSUME Reporting => Ends(client'), Covered(stream.next)' PROVE WholeAnswer'
    BY <1>2, <1>6 DEF WholeAnswer, Reporting, Ends, Covered
  <1>7. CASE ~succeed'
    BY <1>3, <1>7 DEF WholeAnswer
  <1>8. CASE ~gate.failed /\ (gate.committed \/ gate.buf = <<>>) /\ UNCHANGED <<gate, client>>
    <2>1. Reporting => Ends(client')
      BY <1>5, <1>8 DEF Whole
    <2>2. Covered(stream.next)
      <3>1. CASE gate.committed \/ gate.decided
        BY <1>4, <1>8, <3>1 DEF Tracked, Reaches
      <3>2. CASE ~(gate.committed \/ gate.decided)
        <4>1. AllIn(<<>>, stream.next)
          BY <1>4, <1>8, <3>2, FlattenEmpty DEF Tracked, Reaches
        <4>2. \A p \in 1..stream.next - 1 : FALSE
          BY <4>1 DEF AllIn
        <4> QED BY <1>1, <4>2, CoverAll
      <3> QED BY <3>1, <3>2
    <2>3. Covered(stream.next)'
      BY <1>2, <1>8, <2>2 DEF Covered, Straddling
    <2> QED BY <1>3, <1>6, <2>1, <2>3
  <1>9. CASE ~gate.failed /\ ~gate.committed /\ gate.buf # <<>> /\ SendStep(<<>>)
    <2> DEFINE held == FlattenSeq(gate.buf)
    <2>1. held \in Seq(Int)
      <3>1. <<>> \in Seq(Int)
        OBVIOUS
      <3> QED BY <1>1, <3>1, FreshType
    <2>2. held \o <<>> = held
      BY <2>1
    <2>3. client' = client \o held
      BY <1>9, <2>2 DEF SendStep, Send
    <2>4. Reporting => Ends(client')
      BY <1>1, <1>5, <1>9, <2>1, <2>3, EndsBehind DEF Whole
    <2>5. ~gate.decided
      BY <1>1, <1>2, <1>9 DEF Tidy, Shape
    <2>6. AllIn(held, stream.next)
      BY <1>4, <1>9, <2>5 DEF Tracked, Reaches
    <2>7. \A p \in 1..stream.next - 1 : Has(client', p)
      BY <1>1, <2>1, <2>3, <2>6, AllInHas, HasMore
    <2>8. 0 \in 0..stream.next /\ 1 \in Straddling'
      BY <1>1 DEF Straddling
    <2>9. Covered(stream.next)'
      BY <1>2, <2>7, <2>8 DEF Covered
    <2> QED BY <1>3, <1>6, <2>4, <2>9
  <1>10. CASE StopStep(Content) /\ succeed' = ~gate'.failed
    <2>1. gate'.failed
      BY <1>1, <1>10 DEF StopStep, Gates
    <2> QED BY <1>7, <1>10, <2>1
  <1>11. CASE gate.failed /\ succeed' = succeed
    BY <1>7, <1>11
  <1> QED BY <1>2, <1>8, <1>9, <1>10, <1>11

LEMMA NextWhole == Struct /\ AnswerInv /\ WholeInv /\ [Next]_vars => WholeInv'
  <1> SUFFICES ASSUME Struct, AnswerInv, WholeInv, [Next]_vars PROVE WholeInv'
    OBVIOUS
  <1>1. CASE UNCHANGED vars
    <2>1. WholeAnswer'
      BY <1>1 DEF vars, WholeInv, WholeAnswer, Straddling
    <2>2. Track => Track'
      BY <1>1 DEF vars, Track, Tracked, Lengths, Reaches, Covered, Straddling, HeldTo
    <2> QED BY <1>1, <2>1, <2>2 DEF vars, WholeInv
  <1>2. CASE Next
    <2>1. AttemptStep \/ Succeed \/ LoopStep
      BY <1>2, LoopCases DEF Struct, Base
    <2>2. phase # "done"
      BY <2>1, SucceedSteps DEF AttemptStep, Writing, LoopStep, Struct, Base
    <2>3. ~succeed /\ (gone \/ Track) /\ (Reporting => gone \/ Ending)
      BY <2>2 DEF WholeInv, AnswerInv
    <2>4. CASE AttemptStep \/ LoopStep
      <3>1. ~succeed'
        BY <2>3, <2>4 DEF AttemptStep, Writing, LoopStep
      <3>2. gone' \/ Track'
        BY <1>2, <2>3, <2>4, AttemptTrack, LoopTrack, GoneStill
      <3> QED BY <3>1, <3>2 DEF WholeInv, WholeAnswer
    <2>5. CASE Succeed
      <3>1. CASE gone
        <4>1. gone' /\ phase' = "done"
          BY <1>2, <2>5, <3>1, GoneStill DEF Succeed
        <4> QED BY <4>1 DEF WholeInv, WholeAnswer
      <3>2. CASE ~gone
        BY <2>3, <2>5, <3>2, SucceedWhole DEF WholeInv
      <3> QED BY <3>1, <3>2
    <2> QED BY <2>1, <2>4, <2>5
  <1> QED BY <1>1, <1>2

LEMMA InitWhole == Init => WholeInv
  BY DEF Init, WholeInv, Track, WholeAnswer

\* A request that Run reports as a success has delivered its end and every place
\* of the answer: what GateWriter.Finish finds in the window is sent, a discarded
\* attempt leaves nothing out, and an aligned replay loses at most the rest of
\* the one frame that straddles the committed prefix (forwardReplaySuffixLocked
\* forwards whole frames).
THEOREM AnswerIsWhole == Spec => []WholeAnswer
  <1>1. WholeInv => WholeAnswer
    BY DEF WholeInv
  <1>2. Init => Struct /\ AnswerInv /\ WholeInv
    BY InitStruct, InitAnswer, InitWhole
  <1>3. Struct /\ AnswerInv /\ WholeInv /\ [Next]_vars => Struct' /\ AnswerInv' /\ WholeInv'
    BY NextStruct, NextAnswer, NextWhole
  <1> QED BY <1>1, <1>2, <1>3, PTL DEF Spec

=============================================================================
