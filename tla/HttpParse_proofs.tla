---------------------------- MODULE HttpParse_proofs ----------------------------
(***************************************************************************)
(* Theorems about HttpParse for all reads: where the parser stands, that   *)
(* nothing of a read outlives it, and that a request is understood as it   *)
(* was written.                                                            *)
(***************************************************************************)
EXTENDS HttpParse, SequenceTheorems, WellFoundedInduction, TLAPS

-------------------------------------------------------------------------------
(* Induction, and sequences that are put together *)

\* Induction up to n.  The library's theorems of induction have an operator as a
\* parameter; here the induction hypothesis is a set.
LEMMA UpTo ==
  ASSUME NEW n \in Nat, NEW S, 0 \in S, \A i \in 0 .. n - 1 : i \in S => i + 1 \in S
  PROVE  \A i \in 0 .. n : i \in S
<1> DEFINE bad == {i \in 0 .. n : i \notin S}
<1> SUFFICES ASSUME bad # {} PROVE FALSE
  OBVIOUS
<1>1. bad \subseteq Nat
  OBVIOUS
<1>2. \E i \in bad : \A m \in bad : ~(<<m, i>> \in OpToRel(<, Nat))
  <2> HIDE DEF bad
  <2> QED  BY <1>1, NatLessThanWellFounded, WFMin, Zenon
<1>3. \A m, i \in Nat : m < i => <<m, i>> \in OpToRel(<, Nat)
  BY DEF OpToRel
<1>4. PICK i \in bad : \A m \in bad : ~(m < i)
  <2> HIDE DEF bad
  <2> QED  BY <1>1, <1>2, <1>3, Zenon
<1>5. i \in 0 .. n /\ i # 0
  OBVIOUS
<1>6. i - 1 \in 0 .. n - 1 /\ i - 1 + 1 = i /\ i - 1 < i
  BY <1>5
<1>7. i - 1 \in S
  BY <1>4, <1>6
<1> QED  BY <1>6, <1>7

\* What FlattenSeq puts together, sequence by sequence.
Link(seqs, f) == [i \in 1 .. Len(seqs) |-> IF i = 1 THEN seqs[i] ELSE f[i - 1] \o seqs[i]]

LEMMA LinksExist ==
  ASSUME NEW seqs, Len(seqs) \in Nat
  PROVE  \E f : f = Link(seqs, f)
<1> DEFINE Upto(g, n) == g = [i \in 1 .. n |-> IF i = 1 THEN seqs[i] ELSE g[i - 1] \o seqs[i]]
           S == {n \in 0 .. Len(seqs) : \E g : Upto(g, n)}
<1>1. 0 \in S
  <2>1. Upto([i \in 1 .. 0 |-> <<>>], 0)
    OBVIOUS
  <2>2. 0 \in 0 .. Len(seqs)
    OBVIOUS
  <2> QED  BY <2>1, <2>2
<1>2. ASSUME NEW n \in 0 .. Len(seqs) - 1, n \in S PROVE n + 1 \in S
  <2>1. PICK g : Upto(g, n)
    BY <1>2
  <2> DEFINE h == [i \in 1 .. n + 1 |-> IF i = n + 1 THEN IF i = 1 THEN seqs[i] ELSE g[n] \o seqs[i]
                                         ELSE g[i]]
  <2>2. n \in Nat /\ n + 1 \in 0 .. Len(seqs)
    OBVIOUS
  <2>3. ASSUME NEW i \in 1 .. n + 1 PROVE h[i] = IF i = 1 THEN seqs[i] ELSE h[i - 1] \o seqs[i]
    <3>1. CASE i = n + 1
      <4>1. i # 1 => i - 1 \in 1 .. n + 1 /\ i - 1 = n /\ i - 1 # n + 1
        BY <2>2, <3>1
      <4>2. i # 1 => h[i - 1] = g[n]
        BY <4>1
      <4>3. h[i] = IF i = 1 THEN seqs[i] ELSE g[n] \o seqs[i]
        BY <3>1
      <4> HIDE DEF h
      <4> QED  BY <4>2, <4>3
    <3>2. CASE i # n + 1
      <4>1. i \in 1 .. n /\ (i # 1 => i - 1 \in 1 .. n + 1 /\ i - 1 # n + 1)
        BY <2>2, <3>2
      <4>2. h[i] = g[i] /\ (i # 1 => h[i - 1] = g[i - 1])
        BY <3>2, <4>1
      <4>3. g[i] = IF i = 1 THEN seqs[i] ELSE g[i - 1] \o seqs[i]
        BY <2>1, <4>1
      <4> HIDE DEF h, Upto
      <4> QED  BY <4>2, <4>3
    <3> QED  BY <3>1, <3>2
  <2>4. h = [i \in 1 .. n + 1 |-> h[i]]
    OBVIOUS
  <2>5. Upto(h, n + 1)
    <3> HIDE DEF h
    <3> QED  BY <2>3, <2>4
  <2> QED  BY <2>2, <2>5
<1>3. Len(seqs) \in S
  <2> HIDE DEF S
  <2>1. Len(seqs) \in 0 .. Len(seqs)
    OBVIOUS
  <2>2. \A i \in 0 .. Len(seqs) - 1 : i \in S => i + 1 \in S
    BY <1>2
  <2> QED  BY <1>1, <2>2, <2>1, UpTo, Zenon
<1> QED  BY <1>3 DEF Link

LEMMA Concat ==
  ASSUME NEW S, NEW s \in Seq(S), NEW t \in Seq(S), NEW u, u = s \o t
  PROVE  /\ u \in Seq(S) /\ Len(s) \in Nat /\ Len(t) \in Nat /\ Len(u) = Len(s) + Len(t)
         /\ \A k \in 1 .. Len(s) : u[k] = s[k]
         /\ \A k \in 1 .. Len(t) : u[Len(s) + k] = t[k]
<1>1. Len(s) \in Nat /\ Len(t) \in Nat
  OBVIOUS
<1>2. u \in Seq(S) /\ Len(u) = Len(s) + Len(t)
  BY ConcatProperties
<1>3. \A i \in 1 .. Len(s) + Len(t) : u[i] = IF i <= Len(s) THEN s[i] ELSE t[i - Len(s)]
  BY ConcatProperties
<1>4. ASSUME NEW k \in 1 .. Len(t) PROVE u[Len(s) + k] = t[k]
  <2>1. /\ Len(s) + k \in 1 .. Len(s) + Len(t) /\ ~(Len(s) + k <= Len(s))
        /\ Len(s) + k - Len(s) = k
    BY <1>1
  <2> QED  BY <1>3, <2>1
<1>5. ASSUME NEW k \in 1 .. Len(s) PROVE u[k] = s[k]
  BY <1>1, <1>3
<1> QED  BY <1>1, <1>2, <1>4, <1>5

LEMMA Flattened ==
  ASSUME NEW S, NEW seqs \in Seq(Seq(S))
  PROVE  \E p \in [0 .. Len(seqs) -> Seq(S)] :
           /\ p[0] = <<>>
           /\ \A i \in 0 .. Len(seqs) - 1 : p[i + 1] = p[i] \o seqs[i + 1]
           /\ FlattenSeq(seqs) = p[Len(seqs)]
<1>1. Len(seqs) \in Nat /\ \A i \in 1 .. Len(seqs) : seqs[i] \in Seq(S)
  OBVIOUS
<1>2. CASE Len(seqs) = 0
  <2> DEFINE p == [i \in 0 .. Len(seqs) |-> <<>>]
  <2>1. FlattenSeq(seqs) = <<>>
    BY <1>2 DEF FlattenSeq
  <2>2. p \in [0 .. Len(seqs) -> Seq(S)] /\ p[0] = <<>> /\ p[Len(seqs)] = <<>>
    BY <1>2
  <2> HIDE DEF p
  <2> QED  BY <1>2, <2>1, <2>2
<1>3. CASE Len(seqs) # 0
  <2> DEFINE c == CHOOSE f : f = Link(seqs, f)
             p == [i \in 0 .. Len(seqs) |-> IF i = 0 THEN <<>> ELSE c[i]]
  <2>1. c = Link(seqs, c)
    BY <1>1, LinksExist
  <2>2. FlattenSeq(seqs) = c[Len(seqs)]
    BY <1>3 DEF FlattenSeq, Link
  <2> HIDE DEF c
  <2>3. p[0] = <<>> /\ \A i \in 1 .. Len(seqs) : p[i] = c[i]
    BY <1>1
  <2>4. \A i \in 1 .. Len(seqs) : c[i] = IF i = 1 THEN seqs[i] ELSE c[i - 1] \o seqs[i]
    BY <2>1 DEF Link
  <2>5. Len(seqs) \in 1 .. Len(seqs)
    BY <1>1, <1>3
  <2>6. p = [i \in 0 .. Len(seqs) |-> p[i]]
    OBVIOUS
  <2> HIDE DEF p
  <2>7. ASSUME NEW i \in 0 .. Len(seqs) - 1 PROVE p[i + 1] = p[i] \o seqs[i + 1]
    <3>1. i + 1 \in 1 .. Len(seqs) /\ i + 1 - 1 = i /\ (i # 0 => i \in 1 .. Len(seqs))
      BY <1>1
    <3>2. p[i + 1] = c[i + 1] /\ seqs[i + 1] \in Seq(S)
      BY <1>1, <2>3, <3>1
    <3>3. CASE i = 0
      <4>1. p[i] = <<>> /\ i + 1 = 1
        BY <2>3, <3>3
      <4>2. c[i + 1] = seqs[i + 1]
        BY <2>4, <3>1, <4>1, Zenon
      <4>3. <<>> \o seqs[i + 1] = seqs[i + 1]
        BY <3>2, ConcatEmptySeq
      <4> QED  BY <3>2, <4>1, <4>2, <4>3, Zenon
    <3>4. CASE i # 0
      <4>1. p[i] = c[i] /\ i + 1 # 1
        BY <2>3, <3>1, <3>4
      <4>2. c[i + 1] = c[i] \o seqs[i + 1]
        <5> DEFINE j == i + 1
        <5>1. j \in 1 .. Len(seqs) /\ j # 1 /\ j - 1 = i
          BY <3>1, <4>1
        <5> HIDE DEF j
        <5>2. c[j] = c[j - 1] \o seqs[j]
          BY <2>4, <5>1, Zenon
        <5>3. c[j - 1] = c[i]
          BY <5>1, Zenon
        <5>4. c[j] = c[i] \o seqs[j]
          BY <5>2, <5>3, Zenon
        <5> QED  BY <5>4 DEF j
      <4> QED  BY <3>2, <4>1, <4>2, Zenon
    <3> QED  BY <3>3, <3>4
  <2> DEFINE T == {i \in 0 .. Len(seqs) : p[i] \in Seq(S)}
  <2>8. \A i \in 0 .. Len(seqs) : i \in T
    <3>1. 0 \in T
      <4>1. 0 \in 0 .. Len(seqs)
        BY <1>1
      <4> QED  BY <2>3, <4>1, EmptySeq
    <3>2. ASSUME NEW i \in 0 .. Len(seqs) - 1, i \in T PROVE i + 1 \in T
      <4>1. i + 1 \in 1 .. Len(seqs) /\ i + 1 \in 0 .. Len(seqs)
        BY <1>1
      <4>2. p[i] \in Seq(S) /\ seqs[i + 1] \in Seq(S)
        BY <1>1, <3>2, <4>1
      <4>3. p[i + 1] \in Seq(S)
        BY <2>7, <4>2, Concat
      <4> QED  BY <4>1, <4>3
    <3> HIDE DEF T
    <3> QED  BY <1>1, <3>1, <3>2, UpTo
  <2>9. p \in [0 .. Len(seqs) -> Seq(S)]
    BY <2>8, <2>6
  <2> QED  BY <2>2, <2>3, <2>5, <2>7, <2>9
<1> QED  BY <1>2, <1>3

\* Where each sequence ends in the whole, and that its elements are there.
Ends(seqs, e) ==
  /\ e \in [0 .. Len(seqs) -> Nat]
  /\ e[0] = 0 /\ e[Len(seqs)] = Len(FlattenSeq(seqs))
  /\ \A i \in 0 .. Len(seqs) - 1 :
       /\ e[i + 1] = e[i] + Len(seqs[i + 1]) /\ e[i + 1] <= Len(FlattenSeq(seqs))
       /\ \A k \in 1 .. Len(seqs[i + 1]) : FlattenSeq(seqs)[e[i] + k] = seqs[i + 1][k]

LEMMA EndsExist ==
  ASSUME NEW S, NEW seqs \in Seq(Seq(S))
  PROVE  FlattenSeq(seqs) \in Seq(S) /\ \E e : Ends(seqs, e)
<1>1. Len(seqs) \in Nat /\ \A i \in 1 .. Len(seqs) : seqs[i] \in Seq(S) /\ Len(seqs[i]) \in Nat
  OBVIOUS
<1>2. PICK p \in [0 .. Len(seqs) -> Seq(S)] :
           /\ p[0] = <<>>
           /\ \A i \in 0 .. Len(seqs) - 1 : p[i + 1] = p[i] \o seqs[i + 1]
           /\ FlattenSeq(seqs) = p[Len(seqs)]
  BY Flattened
<1> DEFINE n == Len(seqs)
           e == [i \in 0 .. n |-> Len(p[i])]
           Within(i, j) == Len(p[i]) <= Len(p[j]) /\ \A k \in 1 .. Len(p[i]) : p[j][k] = p[i][k]
           T == {j \in 0 .. n : \A i \in 0 .. j : Within(i, j)}
<1>3. \A i \in 0 .. n : p[i] \in Seq(S) /\ Len(p[i]) \in Nat
  <2>1. p \in [0 .. n -> Seq(S)]
    BY <1>2, Zenon
  <2> QED  BY <2>1
<1>4. ASSUME NEW i \in 0 .. n - 1
      PROVE  /\ Len(p[i + 1]) = Len(p[i]) + Len(seqs[i + 1])
             /\ \A k \in 1 .. Len(p[i]) : p[i + 1][k] = p[i][k]
             /\ \A k \in 1 .. Len(seqs[i + 1]) : p[i + 1][Len(p[i]) + k] = seqs[i + 1][k]
  <2>1. i \in 0 .. n /\ i + 1 \in 1 .. n
    BY <1>1
  <2>2. p[i] \in Seq(S) /\ seqs[i + 1] \in Seq(S)
    BY <1>1, <1>3, <2>1
  <2>3. p[i + 1] = p[i] \o seqs[i + 1]
    BY <1>2
  <2> DEFINE s == p[i]
             t == seqs[i + 1]
             u == p[i + 1]
  <2> HIDE DEF s, t, u
  <2>4. s \in Seq(S) /\ t \in Seq(S) /\ u = s \o t
    BY <2>2, <2>3 DEF s, t, u
  <2>5. /\ Len(u) = Len(s) + Len(t) /\ \A k \in 1 .. Len(s) : u[k] = s[k]
        /\ \A k \in 1 .. Len(t) : u[Len(s) + k] = t[k]
    BY <2>4, Concat
  <2> QED  BY <2>5 DEF s, t, u
<1>5. \A j \in 0 .. n : j \in T
  <2>1. 0 \in T
    BY <1>1, <1>3
  <2>2. ASSUME NEW j \in 0 .. n - 1, j \in T PROVE j + 1 \in T
    <3>1. j + 1 \in 0 .. n /\ j + 1 \in 1 .. n /\ j \in 0 .. n
      BY <1>1
    <3>2. Within(j, j + 1)
      <4>1. Len(p[j]) \in Nat /\ Len(seqs[j + 1]) \in Nat
        BY <1>1, <1>3, <3>1
      <4>2. Len(p[j + 1]) = Len(p[j]) + Len(seqs[j + 1]) /\ \A k \in 1 .. Len(p[j]) : p[j + 1][k] = p[j][k]
        BY <1>4, Zenon
      <4> QED  BY <1>1, <3>1, <4>1, <4>2
    <3>3. ASSUME NEW i \in 0 .. j + 1 PROVE Within(i, j + 1)
      <4>1. CASE i = j + 1
        BY <1>3, <3>1, <4>1
      <4>2. CASE i # j + 1
        <5>1. i \in 0 .. j /\ i \in 0 .. n /\ j + 1 \in 0 .. n
          BY <3>1, <4>2
        <5>2. Within(i, j)
          BY <2>2, <5>1
        <5>3. Len(p[i]) \in Nat /\ Len(p[j]) \in Nat /\ Len(p[j + 1]) \in Nat
          BY <1>3, <3>1, <5>1
        <5> QED  BY <3>2, <5>2, <5>3
      <4> QED  BY <4>1, <4>2
    <3> HIDE DEF Within
    <3> QED  BY <3>1, <3>3
  <2> HIDE DEF T
  <2> QED  BY <1>1, <2>1, <2>2, UpTo
<1>6. \A i \in 0 .. n : Within(i, n)
  <2>1. n \in 0 .. n
    BY <1>1
  <2>2. n \in T
    BY <1>5, <2>1
  <2> HIDE DEF Within
  <2> QED  BY <2>2
<1>7. e \in [0 .. n -> Nat] /\ e[0] = 0 /\ e[n] = Len(FlattenSeq(seqs))
  BY <1>1, <1>2, <1>3
<1>8. ASSUME NEW i \in 0 .. n - 1
      PROVE  /\ e[i + 1] = e[i] + Len(seqs[i + 1]) /\ e[i + 1] <= Len(FlattenSeq(seqs))
             /\ \A k \in 1 .. Len(seqs[i + 1]) : FlattenSeq(seqs)[e[i] + k] = seqs[i + 1][k]
  <2>1. /\ i \in 0 .. n /\ i + 1 \in 0 .. n /\ Len(p[i + 1]) \in Nat /\ Len(p[i]) \in Nat
        /\ Len(seqs[i + 1]) \in Nat
    <3>1. i \in 0 .. n /\ i + 1 \in 0 .. n /\ i + 1 \in 1 .. n
      BY <1>1
    <3> QED  BY <1>1, <1>3, <3>1
  <2>2. e[i + 1] = Len(p[i + 1]) /\ e[i] = Len(p[i]) /\ FlattenSeq(seqs) = p[n]
    BY <1>2, <2>1
  <2>3. Len(p[i + 1]) <= Len(p[n]) /\ \A k \in 1 .. Len(p[i + 1]) : p[n][k] = p[i + 1][k]
    BY <1>6, <2>1, Zenon
  <2>4. /\ Len(p[i + 1]) = Len(p[i]) + Len(seqs[i + 1])
        /\ \A k \in 1 .. Len(seqs[i + 1]) : p[i + 1][Len(p[i]) + k] = seqs[i + 1][k]
    BY <1>4, Zenon
  <2> HIDE DEF e
  <2>5. ASSUME NEW k \in 1 .. Len(seqs[i + 1]) PROVE p[n][Len(p[i]) + k] = seqs[i + 1][k]
    <3>1. Len(p[i]) + k \in 1 .. Len(p[i + 1])
      BY <2>1, <2>4
    <3> QED  BY <2>3, <2>4, <3>1, Zenon
  <2> QED  BY <2>2, <2>3, <2>4, <2>5, Zenon
<1> HIDE DEF e
<1>9. Ends(seqs, e)
  BY <1>7, <1>8 DEF Ends
<1>10. FlattenSeq(seqs) \in Seq(S)
  BY <1>1, <1>2
<1> QED  BY <1>9, <1>10

-------------------------------------------------------------------------------
(* unquote *)

\* What texts are made of.  (The provers do not know that a literal is a STRING.)
Byte == STRING \cup {SP, CR, LF, "HTTP", "?", "&", "=", "+", "%", "a", "0", "1", "2", "3", "6", "D"}

\* unquote, byte by byte.
Start == [nbyte |-> 0, high |-> "0", res |-> <<>>]

LEMMA DecodingExists ==
  ASSUME NEW bytes, Len(bytes) \in Nat
  PROVE  \E f : f = [n \in 0 .. Len(bytes) |-> IF n = 0 THEN Start ELSE Decode(f[n - 1], bytes[n])]
<1> DEFINE Upto(g, n) == g = [i \in 0 .. n |-> IF i = 0 THEN Start ELSE Decode(g[i - 1], bytes[i])]
           S == {n \in 0 .. Len(bytes) : \E g : Upto(g, n)}
<1>1. 0 \in S
  <2>1. Upto([i \in 0 .. 0 |-> Start], 0)
    OBVIOUS
  <2>2. 0 \in 0 .. Len(bytes)
    OBVIOUS
  <2> QED  BY <2>1, <2>2
<1>2. ASSUME NEW n \in 0 .. Len(bytes) - 1, n \in S PROVE n + 1 \in S
  <2>1. PICK g : Upto(g, n)
    BY <1>2
  <2> DEFINE h == [i \in 0 .. n + 1 |-> IF i = n + 1 THEN Decode(g[n], bytes[i]) ELSE g[i]]
  <2>2. n \in Nat /\ n + 1 \in 0 .. Len(bytes)
    OBVIOUS
  <2>3. ASSUME NEW i \in 0 .. n + 1 PROVE h[i] = IF i = 0 THEN Start ELSE Decode(h[i - 1], bytes[i])
    <3>1. CASE i = n + 1
      <4>1. i # 0 /\ i - 1 \in 0 .. n + 1 /\ i - 1 = n /\ i - 1 # n + 1
        BY <2>2, <3>1
      <4>2. h[i - 1] = g[n]
        BY <4>1
      <4>3. h[i] = Decode(g[n], bytes[i])
        BY <3>1
      <4> HIDE DEF h
      <4> QED  BY <4>1, <4>2, <4>3
    <3>2. CASE i # n + 1
      <4>1. i \in 0 .. n /\ (i # 0 => i - 1 \in 0 .. n + 1 /\ i - 1 # n + 1)
        BY <2>2, <3>2
      <4>2. h[i] = g[i] /\ (i # 0 => h[i - 1] = g[i - 1])
        BY <3>2, <4>1
      <4>3. g[i] = IF i = 0 THEN Start ELSE Decode(g[i - 1], bytes[i])
        BY <2>1, <4>1
      <4> HIDE DEF h, Upto
      <4> QED  BY <4>2, <4>3
    <3> QED  BY <3>1, <3>2
  <2>4. h = [i \in 0 .. n + 1 |-> h[i]]
    OBVIOUS
  <2>5. Upto(h, n + 1)
    <3> HIDE DEF h
    <3> QED  BY <2>3, <2>4
  <2> QED  BY <2>2, <2>5
<1>3. Len(bytes) \in S
  <2> HIDE DEF S
  <2>1. Len(bytes) \in 0 .. Len(bytes)
    OBVIOUS
  <2>2. \A i \in 0 .. Len(bytes) - 1 : i \in S => i + 1 \in S
    BY <1>2
  <2> QED  BY <1>1, <2>2, <2>1, UpTo, Zenon
<1> QED  BY <1>3

LEMMA DecodingSteps ==
  ASSUME NEW bytes, Len(bytes) \in Nat
  PROVE  /\ Decoding(bytes)[0] = Start
         /\ \A n \in 0 .. Len(bytes) - 1 : Decoding(bytes)[n + 1] = Decode(Decoding(bytes)[n], bytes[n + 1])
<1> DEFINE R(f) == [n \in 0 .. Len(bytes) |-> IF n = 0 THEN Start ELSE Decode(f[n - 1], bytes[n])]
           c == CHOOSE f : f = R(f)
<1>1. c = R(c)
  BY DecodingExists
<1>2. Decoding(bytes) = c
  BY DEF Decoding, Start
<1> HIDE DEF c
<1>3. c[0] = Start
  BY <1>1
<1>4. ASSUME NEW n \in 0 .. Len(bytes) - 1 PROVE c[n + 1] = Decode(c[n], bytes[n + 1])
  <2>1. n + 1 \in 0 .. Len(bytes) /\ n + 1 # 0 /\ n + 1 - 1 = n
    OBVIOUS
  <2> QED  BY <1>1, <2>1
<1> QED  BY <1>2, <1>3, <1>4

Acc(n, h, r) == [nbyte |-> n, high |-> h, res |-> r]

LEMMA AccParts ==
  ASSUME NEW n, NEW h, NEW r
  PROVE  /\ DOMAIN Acc(n, h, r) = {"nbyte", "high", "res"}
         /\ Acc(n, h, r).nbyte = n /\ Acc(n, h, r).high = h /\ Acc(n, h, r).res = r
         /\ Acc(n, h, r)["high"] = h /\ Acc(n, h, r)["res"] = r
BY DEF Acc

LEMMA DecodePercent ==
  ASSUME NEW h, NEW r
  PROVE  Decode(Acc(0, h, r), "%") = Acc(1, h, r)
<1>1. [Acc(0, h, r) EXCEPT !.nbyte = 1] = Acc(1, h, r)
  BY DEF Acc
<1> QED  BY <1>1 DEF Decode

LEMMA DecodeHigh ==
  ASSUME NEW h, NEW r, NEW byte, byte # "%"
  PROVE  Decode(Acc(1, h, r), byte) = Acc(2, byte, r)
<1> DEFINE acc == Acc(1, h, r)
<1>1. DOMAIN acc = {"nbyte", "high", "res"} /\ acc["res"] = r /\ acc.nbyte = 1
  BY AccParts
<1> HIDE DEF acc
<1>2. [acc EXCEPT !.nbyte = 2, !.high = byte]
        = [f \in {"nbyte", "high", "res"} |-> IF f = "high" THEN byte ELSE IF f = "nbyte" THEN 2 ELSE acc[f]]
  BY <1>1
<1>3. [acc EXCEPT !.nbyte = 2, !.high = byte] = Acc(2, byte, r)
  BY <1>1, <1>2 DEF Acc
<1>4. Decode(acc, byte) = [acc EXCEPT !.nbyte = 2, !.high = byte]
  BY <1>1 DEF Decode
<1> QED  BY <1>3, <1>4 DEF acc

LEMMA DecodeLow ==
  ASSUME NEW h, NEW r, NEW byte, byte # "%"
  PROVE  Decode(Acc(2, h, r), byte) = Acc(0, h, Append(r, Hex[<<h, byte>>]))
<1> DEFINE acc == Acc(2, h, r)
           x == Append(acc.res, Hex[<<acc.high, byte>>])
<1>1. DOMAIN acc = {"nbyte", "high", "res"} /\ acc["high"] = h /\ acc.res = r /\ acc.high = h /\ acc.nbyte = 2
  BY AccParts
<1>2. x = Append(r, Hex[<<h, byte>>])
  BY <1>1
<1>3. Decode(acc, byte) = [acc EXCEPT !.nbyte = 0, !.res = x]
  <2> HIDE DEF acc
  <2> QED  BY <1>1 DEF Decode
<1> HIDE DEF acc, x
<1>4. [acc EXCEPT !.nbyte = 0, !.res = x]
        = [f \in {"nbyte", "high", "res"} |-> IF f = "res" THEN x ELSE IF f = "nbyte" THEN 0 ELSE acc[f]]
  BY <1>1
<1>5. [acc EXCEPT !.nbyte = 0, !.res = x] = Acc(0, h, x)
  BY <1>1, <1>4 DEF Acc
<1> QED  BY <1>5, <1>3, <1>2 DEF acc

LEMMA DecodePlain ==
  ASSUME NEW h, NEW r, NEW byte, byte # "%", NEW x, x = IF byte = "+" THEN SP ELSE byte
  PROVE  Decode(Acc(0, h, r), byte) = Acc(0, h, Append(r, x))
<1> DEFINE acc == Acc(0, h, r)
<1>1. acc.nbyte = 0 /\ acc.res = r
  BY AccParts
<1>2. \A y : [acc EXCEPT !.res = Append(r, y)] = Acc(0, h, Append(r, y))
  BY DEF Acc
<1> HIDE DEF acc
<1>3. CASE byte = "+"
  <2>1. Decode(acc, byte) = [acc EXCEPT !.res = Append(r, SP)]
    BY <1>1, <1>3 DEF Decode
  <2> QED  BY <1>2, <1>3, <2>1 DEF acc
<1>4. CASE byte # "+"
  <2>1. Decode(acc, byte) = [acc EXCEPT !.res = Append(r, byte)]
    BY <1>1, <1>4 DEF Decode
  <2> QED  BY <1>2, <1>4, <2>1 DEF acc
<1> QED  BY <1>3, <1>4

LEMMA SpellTable ==
  ASSUME NEW s \in DOMAIN Spell
  PROVE  \/ Spell[s] = <<s>> /\ s \in {"a", "=", "+"} /\ Means[s] = IF s = "+" THEN SP ELSE s
         \/ \E x, y \in {"0", "1", "2", "3", "6", "D"} :
              s # "=" /\ Spell[s] = <<"%", x, y>> /\ Means[s] = Hex[<<x, y>>]
<1>1. CASE s = "a"
  BY <1>1 DEF Spell, Means
<1>2. CASE s = "="
  BY <1>2 DEF Spell, Means
<1>3. CASE s = "+"
  BY <1>3 DEF Spell, Means
<1>4. CASE s = "%20"
  <2>1. Spell[s] = <<"%", "2", "0">> /\ Means[s] = SP
    BY <1>4 DEF Spell, Means
  <2>2. Hex[<<"2", "0">>] = SP
    BY DEF Hex
  <2> QED  BY <1>4, <2>1, <2>2
<1>5. CASE s = "%26"
  <2>1. Spell[s] = <<"%", "2", "6">> /\ Means[s] = "&"
    BY <1>5 DEF Spell, Means
  <2>2. Hex[<<"2", "6">>] = "&"
    BY DEF Hex
  <2> QED  BY <1>5, <2>1, <2>2
<1>6. CASE s = "%3D"
  <2>1. Spell[s] = <<"%", "3", "D">> /\ Means[s] = "="
    BY <1>6 DEF Spell, Means
  <2>2. Hex[<<"3", "D">>] = "="
    BY DEF Hex
  <2> QED  BY <1>6, <2>1, <2>2
<1>7. CASE s = "%61"
  <2>1. Spell[s] = <<"%", "6", "1">> /\ Means[s] = "a"
    BY <1>7 DEF Spell, Means
  <2>2. Hex[<<"6", "1">>] = "a"
    BY DEF Hex
  <2> QED  BY <1>7, <2>1, <2>2
<1>8. DOMAIN Spell = {"a", "=", "+", "%20", "%26", "%3D", "%61"}
  BY DEF Spell
<1> QED  BY <1>1, <1>2, <1>3, <1>4, <1>5, <1>6, <1>7, <1>8

\* The bytes of a symbol stand for what it means.
LEMMA SymbolDecoded ==
  ASSUME NEW s \in DOMAIN Spell, NEW h, NEW r, NEW acc, acc = Acc(0, h, r),
         NEW last, last = IF Len(Spell[s]) = 1 THEN Decode(acc, Spell[s][1])
                          ELSE Decode(Decode(Decode(acc, Spell[s][1]), Spell[s][2]), Spell[s][3])
  PROVE  \E g : last = Acc(0, g, Append(r, Means[s]))
<1>1. CASE Spell[s] = <<s>> /\ s \in {"a", "=", "+"} /\ Means[s] = IF s = "+" THEN SP ELSE s
  <2>1. Len(Spell[s]) = 1 /\ Spell[s][1] = s /\ s # "%"
    BY <1>1
  <2>2. last = Decode(Acc(0, h, r), s)
    BY <2>1
  <2>3. last = Acc(0, h, Append(r, Means[s]))
    BY <1>1, <2>1, <2>2, DecodePlain
  <2> QED  BY <2>3
<1>2. ASSUME NEW x \in {"0", "1", "2", "3", "6", "D"}, NEW y \in {"0", "1", "2", "3", "6", "D"},
             Spell[s] = <<"%", x, y>>, Means[s] = Hex[<<x, y>>]
      PROVE  \E g : last = Acc(0, g, Append(r, Means[s]))
  <2>1. Len(Spell[s]) = 3 /\ Spell[s][1] = "%" /\ Spell[s][2] = x /\ Spell[s][3] = y /\ x # "%" /\ y # "%"
    BY <1>2
  <2>2. last = Decode(Decode(Decode(Acc(0, h, r), "%"), x), y)
    BY <2>1
  <2>3. Decode(Acc(0, h, r), "%") = Acc(1, h, r)
    BY DecodePercent
  <2>4. Decode(Acc(1, h, r), x) = Acc(2, x, r)
    BY <2>1, DecodeHigh
  <2>5. Decode(Acc(2, x, r), y) = Acc(0, x, Append(r, Hex[<<x, y>>]))
    BY <2>1, DecodeLow
  <2>6. last = Acc(0, x, Append(r, Hex[<<x, y>>]))
    BY <2>2, <2>3, <2>4, <2>5, Zenon
  <2> QED  BY <1>2, <2>6
<1> QED  BY <1>1, <1>2, SpellTable

\* Bytes that end no part of a query string, and those that a name has.
ValueByte == Byte \ {SP, CR, LF, "&"}
NameByte == ValueByte \ {"="}

LEMMA SpelledBytes ==
  ASSUME NEW s \in DOMAIN Spell
  PROVE  /\ Spell[s] \in Seq(Byte) /\ Len(Spell[s]) \in {1, 3}
         /\ Spell[s] \in Seq(ValueByte)
         /\ s # "=" => Spell[s] \in Seq(NameByte)
<1>1. CASE Spell[s] = <<s>> /\ s \in {"a", "=", "+"}
  <2>1. s \in Byte /\ s \in ValueByte /\ (s # "=" => s \in NameByte)
    BY <1>1 DEF Byte, ValueByte, NameByte, SP, CR, LF
  <2>2. \A S : s \in S => <<s>> \in Seq(S)
    OBVIOUS
  <2> QED  BY <1>1, <2>1, <2>2
<1>2. ASSUME NEW x \in {"0", "1", "2", "3", "6", "D"}, NEW y \in {"0", "1", "2", "3", "6", "D"},
             Spell[s] = <<"%", x, y>>
      PROVE  /\ Spell[s] \in Seq(Byte) /\ Len(Spell[s]) \in {1, 3}
             /\ Spell[s] \in Seq(ValueByte)
             /\ s # "=" => Spell[s] \in Seq(NameByte)
  <2>1. NameByte \subseteq ValueByte /\ NameByte \subseteq Byte
    BY DEF ValueByte, NameByte
  <2>2. "%" \in NameByte /\ x \in NameByte /\ y \in NameByte
    BY DEF Byte, ValueByte, NameByte, SP, CR, LF
  <2>3. \A S : "%" \in S /\ x \in S /\ y \in S => <<"%", x, y>> \in Seq(S)
    OBVIOUS
  <2> QED  BY <1>2, <2>1, <2>2, <2>3
<1>3. CASE \E x, y \in {"0", "1", "2", "3", "6", "D"} : Spell[s] = <<"%", x, y>>
  <2>1. PICK x \in {"0", "1", "2", "3", "6", "D"}, y \in {"0", "1", "2", "3", "6", "D"} : Spell[s] = <<"%", x, y>>
    BY <1>3
  <2> QED  BY <1>2, <2>1
<1>4. \/ Spell[s] = <<s>> /\ s \in {"a", "=", "+"}
      \/ \E x, y \in {"0", "1", "2", "3", "6", "D"} : Spell[s] = <<"%", x, y>>
  BY SpellTable
<1> QED  BY <1>1, <1>3, <1>4

LEMMA SpelledType ==
  ASSUME NEW D, D \subseteq DOMAIN Spell, NEW symbols \in Seq(D), NEW S, \A s \in D : Spell[s] \in Seq(S)
  PROVE  [i \in DOMAIN symbols |-> Spell[symbols[i]]] \in Seq(Seq(S))
<1>1. symbols \in [1 .. Len(symbols) -> D] /\ Len(symbols) \in Nat
  OBVIOUS
<1> QED  BY <1>1

\* What names and values are spelled with.
LEMMA SpelledText ==
  ASSUME NEW symbols
  PROVE  /\ symbols \in Seq(DOMAIN Spell) => Spelled(symbols) \in Seq(ValueByte)
         /\ symbols \in Seq(DOMAIN Spell \ {"="}) => Spelled(symbols) \in Seq(NameByte)
<1>1. ASSUME symbols \in Seq(DOMAIN Spell) PROVE Spelled(symbols) \in Seq(ValueByte)
  <2>1. \A s \in DOMAIN Spell : Spell[s] \in Seq(ValueByte)
    BY SpelledBytes
  <2> DEFINE seqs == [i \in DOMAIN symbols |-> Spell[symbols[i]]]
  <2>2. seqs \in Seq(Seq(ValueByte))
    BY <1>1, <2>1, SpelledType
  <2> HIDE DEF seqs
  <2>3. FlattenSeq(seqs) \in Seq(ValueByte)
    BY <2>2, EndsExist
  <2> QED  BY <2>3 DEF seqs, Spelled
<1>2. ASSUME symbols \in Seq(DOMAIN Spell \ {"="}) PROVE Spelled(symbols) \in Seq(NameByte)
  <2>1. \A s \in DOMAIN Spell \ {"="} : Spell[s] \in Seq(NameByte)
    BY SpelledBytes
  <2> DEFINE seqs == [i \in DOMAIN symbols |-> Spell[symbols[i]]]
  <2>2. DOMAIN Spell \ {"="} \subseteq DOMAIN Spell
    OBVIOUS
  <2>3. seqs \in Seq(Seq(NameByte))
    BY <1>2, <2>1, <2>2, SpelledType
  <2> HIDE DEF seqs
  <2>4. FlattenSeq(seqs) \in Seq(NameByte)
    BY <2>3, EndsExist
  <2> QED  BY <2>4 DEF seqs, Spelled
<1> QED  BY <1>1, <1>2

LEMMA AppendMeant ==
  ASSUME NEW symbols, NEW i \in Nat
  PROVE  Append([j \in 1 .. i |-> Means[symbols[j]]], Means[symbols[i + 1]])
           = [j \in 1 .. i + 1 |-> Means[symbols[j]]]
OBVIOUS

LEMMA Unquoted ==
  ASSUME NEW symbols \in Seq(DOMAIN Spell)
  PROVE  unquote(Spelled(symbols)) = Meant(symbols)
<1> DEFINE seqs == [i \in DOMAIN symbols |-> Spell[symbols[i]]]
           bytes == Spelled(symbols)
           n == Len(symbols)
<1>1. n \in Nat /\ DOMAIN symbols = 1 .. n /\ \A i \in 1 .. n : symbols[i] \in DOMAIN Spell
  OBVIOUS
<1>2. seqs \in Seq(Seq(Byte)) /\ Len(seqs) = n
  <2>1. seqs \in Seq(Seq(Byte))
    <3>1. \A s \in DOMAIN Spell : Spell[s] \in Seq(Byte)
      BY SpelledBytes
    <3> QED  BY <3>1, SpelledType
  <2>2. Len(seqs) = n
    BY <1>1
  <2> QED  BY <2>1, <2>2
<1>3. bytes = FlattenSeq(seqs)
  BY DEF Spelled
<1>4. \A i \in 1 .. n : seqs[i] = Spell[symbols[i]]
  BY <1>1
<1> HIDE DEF seqs, bytes
<1>5. bytes \in Seq(Byte) /\ Len(bytes) \in Nat
  BY <1>2, <1>3, EndsExist
<1>6. PICK e : Ends(seqs, e)
  BY <1>2, EndsExist
<1> DEFINE d == Decoding(bytes)
           Done(i) == \E g : d[e[i]] = Acc(0, g, [j \in 1 .. i |-> Means[symbols[j]]])
           T == {i \in 0 .. n : Done(i)}
<1>7. d[0] = Start /\ \A k \in 0 .. Len(bytes) - 1 : d[k + 1] = Decode(d[k], bytes[k + 1])
  BY <1>5, DecodingSteps
<1> HIDE DEF d
<1>8. 0 \in T
  <2>1. e[0] = 0
    BY <1>6 DEF Ends
  <2>2. [j \in 1 .. 0 |-> Means[symbols[j]]] = <<>>
    OBVIOUS
  <2>3. d[e[0]] = Acc(0, "0", <<>>)
    BY <1>7, <2>1 DEF Start, Acc
  <2>4. Done(0)
    BY <2>2, <2>3
  <2> HIDE DEF Done
  <2> QED  BY <1>1, <2>4
<1>9. ASSUME NEW i \in 0 .. n - 1, i \in T PROVE i + 1 \in T
  <2> DEFINE s == symbols[i + 1]
             k == e[i]
             r == [j \in 1 .. i |-> Means[symbols[j]]]
  <2>1. i + 1 \in 1 .. n /\ i \in Nat /\ i \in 0 .. n /\ i + 1 \in 0 .. n /\ i \in 0 .. Len(seqs) - 1
        /\ i \in 0 .. Len(seqs)
    BY <1>1, <1>2
  <2>2. s \in DOMAIN Spell /\ seqs[i + 1] = Spell[s]
    BY <1>1, <1>4, <2>1
  <2>3. PICK h : d[k] = Acc(0, h, r)
    BY <1>9
  <2>4. /\ k \in Nat /\ e[i + 1] = k + Len(Spell[s]) /\ e[i + 1] <= Len(bytes)
        /\ \A m \in 1 .. Len(Spell[s]) : bytes[k + m] = Spell[s][m]
    BY <1>3, <1>6, <2>1, <2>2 DEF Ends
  <2> HIDE DEF s, k, r
  <2>5. \E g : d[k + Len(Spell[s])] = Acc(0, g, Append(r, Means[s]))
    <3>1. Len(Spell[s]) \in {1, 3}
      BY <2>2, SpelledBytes
    <3>2. CASE Len(Spell[s]) = 1
      <4>1. k \in 0 .. Len(bytes) - 1
        BY <1>5, <2>4, <3>2
      <4>2. d[k + 1] = Decode(d[k], Spell[s][1])
        BY <1>7, <2>4, <3>2, <4>1
      <4> QED  BY <2>2, <2>3, <3>2, <4>2, SymbolDecoded
    <3>3. CASE Len(Spell[s]) = 3
      <4>1. k \in 0 .. Len(bytes) - 1 /\ k + 1 \in 0 .. Len(bytes) - 1 /\ k + 2 \in 0 .. Len(bytes) - 1
        BY <1>5, <2>4, <3>3
      <4>2. d[k + 1] = Decode(d[k], Spell[s][1])
        BY <1>7, <2>4, <3>3, <4>1
      <4>3. d[k + 2] = Decode(d[k + 1], Spell[s][2])
        <5>1. d[k + 1 + 1] = Decode(d[k + 1], bytes[k + 1 + 1])
          BY <1>7, <4>1
        <5>2. k + 1 + 1 = k + 2 /\ bytes[k + 2] = Spell[s][2]
          BY <2>4, <3>3
        <5> QED  BY <5>1, <5>2
      <4>4. d[k + 3] = Decode(d[k + 2], Spell[s][3])
        <5>1. d[k + 2 + 1] = Decode(d[k + 2], bytes[k + 2 + 1])
          BY <1>7, <4>1
        <5>2. k + 2 + 1 = k + 3 /\ bytes[k + 3] = Spell[s][3]
          BY <2>4, <3>3
        <5> QED  BY <5>1, <5>2
      <4>5. d[k + 3] = Decode(Decode(Decode(d[k], Spell[s][1]), Spell[s][2]), Spell[s][3])
        BY <4>2, <4>3, <4>4
      <4> QED  BY <2>2, <2>3, <3>3, <4>5, SymbolDecoded
    <3> QED  BY <3>1, <3>2, <3>3
  <2>6. Append(r, Means[s]) = [j \in 1 .. i + 1 |-> Means[symbols[j]]]
    BY <2>1, AppendMeant DEF r, s
  <2>7. Done(i + 1)
    BY <2>4, <2>5, <2>6
  <2> QED  BY <2>1, <2>7
<1>10. n \in T
  <2>1. n \in 0 .. n
    BY <1>1
  <2> HIDE DEF T
  <2> QED  BY <1>1, <1>8, <1>9, <2>1, UpTo
<1>11. d[e[n]].res = [j \in 1 .. n |-> Means[symbols[j]]]
  BY <1>10, AccParts
<1>12. e[n] = Len(bytes)
  BY <1>2, <1>3, <1>6 DEF Ends
<1>13. unquote(bytes) = d[Len(bytes)].res
  BY DEF unquote, d
<1>14. Meant(symbols) = [j \in 1 .. n |-> Means[symbols[j]]]
  BY <1>1 DEF Meant
<1> QED  BY <1>11, <1>12, <1>13, <1>14 DEF bytes

-------------------------------------------------------------------------------
(* parse_urlencoded *)

\* parse_urlencoded, byte by byte.
Found(ok, get, start, size, value) ==
  [ok |-> ok, get |-> get, name_start |-> start, name_size |-> size, value_start |-> value]

LEMMA FoundParts ==
  ASSUME NEW ok, NEW get, NEW start, NEW size, NEW value
  PROVE  /\ DOMAIN Found(ok, get, start, size, value) = {"ok", "get", "name_start", "name_size", "value_start"}
         /\ Found(ok, get, start, size, value).ok = ok
         /\ Found(ok, get, start, size, value).get = get
         /\ Found(ok, get, start, size, value).name_start = start
         /\ Found(ok, get, start, size, value).name_size = size
         /\ Found(ok, get, start, size, value).value_start = value
BY DEF Found

LEMMA FoundExcept ==
  \A ok, get, start, size, value, x :
    /\ [Found(ok, get, start, size, value) EXCEPT !.ok = x] = Found(x, get, start, size, value)
    /\ [Found(ok, get, start, size, value) EXCEPT !.get = x] = Found(ok, x, start, size, value)
    /\ [Found(ok, get, start, size, value) EXCEPT !.name_start = x] = Found(ok, get, x, size, value)
    /\ [Found(ok, get, start, size, value) EXCEPT !.name_size = x] = Found(ok, get, start, x, value)
    /\ [Found(ok, get, start, size, value) EXCEPT !.value_start = x] = Found(ok, get, start, size, x)
<1> TAKE ok, get, start, size, value, x
<1>1. [Found(ok, get, start, size, value) EXCEPT !.ok = x] = Found(x, get, start, size, value)
  BY DEF Found
<1>2. [Found(ok, get, start, size, value) EXCEPT !.get = x] = Found(ok, x, start, size, value)
  BY DEF Found
<1>3. [Found(ok, get, start, size, value) EXCEPT !.name_start = x] = Found(ok, get, x, size, value)
  BY DEF Found
<1>4. [Found(ok, get, start, size, value) EXCEPT !.name_size = x] = Found(ok, get, start, x, value)
  BY DEF Found
<1>5. [Found(ok, get, start, size, value) EXCEPT !.value_start = x] = Found(ok, get, start, size, x)
  BY DEF Found
<1> QED  BY <1>1, <1>2, <1>3, <1>4, <1>5

LEMMA ScanExists ==
  ASSUME NEW begin \in Nat, NEW end \in Nat, begin <= end
  PROVE  \E f : f = [i \in begin .. end |-> IF i = begin THEN Found(TRUE, m_get, begin, 0, 0)
                                            ELSE TakeByte(f[i - 1], i - 1, end)]
<1> DEFINE Upto(g, n) ==
             g = [i \in begin .. n |-> IF i = begin THEN Found(TRUE, m_get, begin, 0, 0)
                                       ELSE TakeByte(g[i - 1], i - 1, end)]
           S == {n \in 0 .. end - begin : \E g : Upto(g, begin + n)}
<1>1. 0 \in S
  <2>1. Upto([i \in begin .. begin |-> Found(TRUE, m_get, begin, 0, 0)], begin)
    OBVIOUS
  <2>2. 0 \in 0 .. end - begin /\ begin + 0 = begin
    OBVIOUS
  <2> HIDE DEF Upto
  <2> QED  BY <2>1, <2>2
<1>2. ASSUME NEW k \in 0 .. end - begin - 1, k \in S PROVE k + 1 \in S
  <2> DEFINE n == begin + k
  <2>1. PICK g : Upto(g, n)
    BY <1>2
  <2> DEFINE h == [i \in begin .. n + 1 |-> IF i = n + 1 THEN TakeByte(g[n], n, end) ELSE g[i]]
  <2>2. n \in begin .. end - 1 /\ k + 1 \in 0 .. end - begin /\ begin + (k + 1) = n + 1 /\ n \in Nat
    OBVIOUS
  <2> HIDE DEF n
  <2>3. ASSUME NEW i \in begin .. n + 1
        PROVE  h[i] = IF i = begin THEN Found(TRUE, m_get, begin, 0, 0) ELSE TakeByte(h[i - 1], i - 1, end)
    <3>1. CASE i = n + 1
      <4>1. i # begin /\ i - 1 \in begin .. n + 1 /\ i - 1 = n /\ i - 1 # n + 1
        BY <2>2, <3>1
      <4>2. h[i - 1] = g[n]
        BY <4>1
      <4>3. h[i] = TakeByte(g[n], n, end)
        BY <3>1
      <4> HIDE DEF h
      <4> QED  BY <4>1, <4>2, <4>3
    <3>2. CASE i # n + 1
      <4>1. i \in begin .. n /\ (i # begin => i - 1 \in begin .. n + 1 /\ i - 1 # n + 1)
        BY <2>2, <3>2
      <4>2. h[i] = g[i] /\ (i # begin => h[i - 1] = g[i - 1])
        BY <3>2, <4>1
      <4>3. g[i] = IF i = begin THEN Found(TRUE, m_get, begin, 0, 0) ELSE TakeByte(g[i - 1], i - 1, end)
        BY <2>1, <4>1
      <4> HIDE DEF h, Upto
      <4> QED  BY <4>2, <4>3
    <3> QED  BY <3>1, <3>2
  <2>4. h = [i \in begin .. n + 1 |-> h[i]]
    OBVIOUS
  <2>5. Upto(h, n + 1)
    <3> HIDE DEF h
    <3> QED  BY <2>3, <2>4
  <2> HIDE DEF Upto
  <2> QED  BY <2>2, <2>5
<1>3. end - begin \in S
  <2> HIDE DEF S
  <2>1. end - begin \in 0 .. end - begin /\ end - begin \in Nat
    OBVIOUS
  <2>2. \A i \in 0 .. end - begin - 1 : i \in S => i + 1 \in S
    BY <1>2
  <2> QED  BY <1>1, <2>2, <2>1, UpTo, Zenon
<1>4. begin + (end - begin) = end
  OBVIOUS
<1> QED  BY <1>3, <1>4

LEMMA ScanSteps ==
  ASSUME NEW begin \in Nat, NEW end \in Nat, begin <= end
  PROVE  /\ Scan(begin, end)[begin] = Found(TRUE, m_get, begin, 0, 0)
         /\ \A i \in begin .. end - 1 : Scan(begin, end)[i + 1] = TakeByte(Scan(begin, end)[i], i, end)
<1> DEFINE R(f) == [i \in begin .. end |-> IF i = begin THEN Found(TRUE, m_get, begin, 0, 0)
                                           ELSE TakeByte(f[i - 1], i - 1, end)]
           c == CHOOSE f : f = R(f)
<1>1. c = R(c)
  BY ScanExists
<1>2. Scan(begin, end) = c
  BY DEF Scan, Found
<1> HIDE DEF c
<1>3. c[begin] = Found(TRUE, m_get, begin, 0, 0)
  BY <1>1
<1>4. ASSUME NEW i \in begin .. end - 1 PROVE c[i + 1] = TakeByte(c[i], i, end)
  <2>1. i + 1 \in begin .. end /\ i + 1 # begin /\ i + 1 - 1 = i
    OBVIOUS
  <2> DEFINE j == i + 1
  <2>2. j \in begin .. end /\ j # begin
    BY <2>1
  <2> HIDE DEF j
  <2>3. c[j] = TakeByte(c[j - 1], j - 1, end)
    BY <1>1, <2>2
  <2>4. c[i + 1] = TakeByte(c[i + 1 - 1], i + 1 - 1, end)
    BY <2>3 DEF j
  <2> QED  BY <2>1, <2>4
<1> QED  BY <1>2, <1>3, <1>4

\* The pair is added unless there is one with the name.
Keep(get, name, value) ==
  IF name \in DOMAIN get THEN get
  ELSE [n \in DOMAIN get \cup {name} |-> IF n = name THEN value ELSE get[n]]

Open(get, start, size, value) == Found(TRUE, get, start, size, value)
Refused(get, start, size, value) == Found(FALSE, get, start, size, value)
IsOpen(acc, get) == \E start, size, value : acc = Open(get, start, size, value)
IsRefused(acc) == \E get, start, size, value : acc = Refused(get, start, size, value)
\* Before the first byte of a name.
AtName(acc, get, start) == \E size : acc = Open(get, start, size, 0)

LEMMA RefusedStays ==
  ASSUME NEW get, NEW start, NEW size, NEW value, NEW i, NEW end
  PROVE  TakeByte(Refused(get, start, size, value), i, end) = Refused(get, start, size, value)
<1> DEFINE acc == Refused(get, start, size, value)
<1>1. acc.ok = FALSE
  BY DEF Refused, Found
<1> HIDE DEF acc
<1>2. TakeByte(acc, i, end) = acc
  BY <1>1 DEF TakeByte
<1> QED  BY <1>2 DEF acc

LEMMA NameGoesOn ==
  ASSUME NEW get, NEW start, NEW size, NEW i, NEW end, m_raw[i + 1] # "="
  PROVE  TakeByte(Open(get, start, size, 0), i, end) = Open(get, start, size, 0)
<1> DEFINE acc == Open(get, start, size, 0)
<1>1. acc.ok = TRUE /\ acc.value_start = 0
  BY DEF Open, Found
<1> HIDE DEF acc
<1>2. TakeByte(acc, i, end) = acc
  BY <1>1 DEF TakeByte
<1> QED  BY <1>2 DEF acc

LEMMA NameEnds ==
  ASSUME NEW get, NEW start, NEW size, NEW i, NEW end, m_raw[i + 1] = "="
  PROVE  TakeByte(Open(get, start, size, 0), i, end) = Open(get, start, i - start, i + 1)
<1> DEFINE yes == TRUE
           acc == Found(yes, get, start, size, 0)
           sized == [acc EXCEPT !.name_size = i - start]
<1>1. acc.ok = TRUE /\ acc.name_start = start /\ acc.value_start = 0
  BY DEF Found
<1> HIDE DEF yes
<1>2. sized = Found(yes, get, start, i - start, 0)
  BY FoundExcept
<1>3. [sized EXCEPT !.value_start = i + 1] = Found(yes, get, start, i - start, i + 1)
  <2> HIDE DEF sized
  <2> QED  BY <1>2, FoundExcept
<1> HIDE DEF acc
<1>4. TakeByte(acc, i, end) = [acc EXCEPT !.name_size = i - start, !.value_start = i + 1]
  BY <1>1 DEF TakeByte
<1>5. \A x, y : [acc EXCEPT !.name_size = x, !.value_start = y]
                = [[acc EXCEPT !.name_size = x] EXCEPT !.value_start = y]
  OBVIOUS
<1> QED  BY <1>3, <1>4, <1>5 DEF Open, acc, yes

LEMMA ValueGoesOn ==
  ASSUME NEW get, NEW start, NEW size, NEW value, NEW i, NEW end,
         value # 0, m_raw[i + 1] # "&", i + 1 # end
  PROVE  TakeByte(Open(get, start, size, value), i, end) = Open(get, start, size, value)
<1> DEFINE acc == Open(get, start, size, value)
<1>1. acc.ok = TRUE /\ acc.value_start = value
  BY DEF Open, Found
<1> HIDE DEF acc
<1>2. TakeByte(acc, i, end) = acc
  BY <1>1 DEF TakeByte
<1> QED  BY <1>2 DEF acc

LEMMA ValueEnds ==
  ASSUME NEW get, NEW start, NEW size, NEW value, NEW i, NEW end, value # 0
  PROVE  /\ m_raw[i + 1] = "&" => TakeByte(Open(get, start, size, value), i, end)
                                    = AddPair(Open(get, start, size, value), i, i - value)
         /\ m_raw[i + 1] # "&" /\ i + 1 = end =>
              TakeByte(Open(get, start, size, value), i, end)
                = AddPair(Open(get, start, size, value), i, i - value + 1)
<1> DEFINE acc == Open(get, start, size, value)
<1>1. acc.ok = TRUE /\ acc.value_start = value
  BY DEF Open, Found
<1> HIDE DEF acc
<1>2. ASSUME m_raw[i + 1] = "&" PROVE TakeByte(acc, i, end) = AddPair(acc, i, i - value)
  BY <1>1, <1>2 DEF TakeByte
<1>3. ASSUME m_raw[i + 1] # "&", i + 1 = end PROVE TakeByte(acc, i, end) = AddPair(acc, i, i - value + 1)
  BY <1>1, <1>3 DEF TakeByte
<1> QED  BY <1>2, <1>3 DEF acc

LEMMA Adds ==
  ASSUME NEW get, NEW start, NEW size, NEW value, NEW i, NEW n,
         NEW name, name = unquote(Part(start, start + size)),
         NEW val, val = unquote(Part(value, value + n))
  PROVE  AddPair(Open( get, start, size, value), i, n)
           = IF name = <<>> THEN Refused( get, start, size, value)
             ELSE Open( Keep(get, name, val), i + 1, size, 0)
<1> DEFINE yes == TRUE
           no == FALSE
           acc == Found(yes, get, start, size, value)
<1>1. /\ acc.get = get /\ acc.name_start = start /\ acc.value_start = value /\ acc.name_size = size
  BY DEF Found
<1>2. CASE name = <<>>
  <2>1. AddPair(acc, i, n) = [acc EXCEPT !.ok = no]
    <3> HIDE DEF acc
    <3> QED  BY <1>1, <1>2 DEF AddPair
  <2> HIDE DEF yes, no
  <2>2. [acc EXCEPT !.ok = no] = Found(no, get, start, size, value)
    BY FoundExcept
  <2> QED  BY <1>2, <2>1, <2>2 DEF Open, Refused, yes, no
<1>3. CASE name # <<>>
  <2> DEFINE kept == Keep(get, name, val)
             new == [acc EXCEPT !.get = kept, !.name_start = i + 1, !.value_start = 0]
             first == [acc EXCEPT !.get = kept]
             second == [first EXCEPT !.name_start = i + 1]
  <2>1. AddPair(acc, i, n) = new
    <3> HIDE DEF acc
    <3> QED  BY <1>1, <1>3 DEF AddPair, Keep
  <2> HIDE DEF Open, kept, yes
  <2>2. first = Found(yes, kept, start, size, value)
    BY FoundExcept
  <2>3. second = Found(yes, kept, i + 1, size, value)
    <3> HIDE DEF first
    <3> QED  BY <2>2, FoundExcept
  <2>4. [second EXCEPT !.value_start = 0] = Found(yes, kept, i + 1, size, 0)
    <3> HIDE DEF second
    <3> QED  BY <2>3, FoundExcept
  <2>5. new = [second EXCEPT !.value_start = 0]
    <3> HIDE DEF acc
    <3> QED  OBVIOUS
  <2> HIDE DEF new, second
  <2> QED  BY <1>3, <2>1, <2>4, <2>5 DEF Open, kept, yes
<1> QED  BY <1>2, <1>3

\* f is what parse_urlencoded has found before each byte.
Scanned(f, begin, end) == \A i \in begin .. end - 1 : f[i + 1] = TakeByte(f[i], i, end)

\* A name of nl bytes from byte a, and a value of vl bytes.
PairAt(a, nl, vl) ==
  /\ \A k \in 1 .. nl : m_raw[a + k] # "="
  /\ m_raw[a + nl + 1] = "="
  /\ \A k \in 1 .. vl : m_raw[a + nl + 1 + k] # "&"

\* From the first byte of a pair to the last one of its value.
LEMMA PairScanned ==
  ASSUME NEW f, NEW begin \in Nat, NEW end \in Nat, Scanned(f, begin, end),
         NEW a \in Nat, begin <= a, NEW nl \in Nat, NEW vl \in Nat, a + nl + 1 + vl <= end,
         NEW get, NEW size, f[a] = Open(get, a, size, 0),
         PairAt(a, nl, vl)
  PROVE  /\ a + nl + 1 + vl # end \/ vl = 0 => f[a + nl + 1 + vl] = Open(get, a, nl, a + nl + 1)
         /\ a + nl + 1 + vl = end /\ vl # 0 =>
              f[a + nl + 1 + vl] = AddPair(Open(get, a, nl, a + nl + 1), end - 1, vl)
<1> DEFINE s == a + nl + 1
           pending == Open(get, a, nl, s)
<1>1. s \in Nat /\ s # 0 /\ s + vl \in Nat /\ s >= begin
  OBVIOUS
<1>2. /\ \A k \in 1 .. nl : m_raw[a + k] # "="
      /\ m_raw[a + nl + 1] = "="
      /\ \A k \in 1 .. vl : m_raw[a + nl + 1 + k] # "&"
  BY DEF PairAt
<1>3. \A j \in 0 .. nl : f[a + j] = Open(get, a, size, 0)
  <2> DEFINE S == {j \in Nat : f[a + j] = Open(get, a, size, 0)}
  <2>1. 0 \in S
    OBVIOUS
  <2>2. ASSUME NEW j \in 0 .. nl - 1, j \in S PROVE j + 1 \in S
    <3>1. a + j \in begin .. end - 1 /\ j + 1 \in 1 .. nl /\ a + (j + 1) = (a + j) + 1 /\ j + 1 \in Nat
      OBVIOUS
    <3>2. m_raw[(a + j) + 1] # "="
      BY <1>2, <3>1
    <3>3. f[(a + j) + 1] = TakeByte(f[a + j], a + j, end)
      BY <3>1 DEF Scanned
    <3>4. f[a + j] = Open(get, a, size, 0)
      BY <2>2
    <3>5. TakeByte(Open(get, a, size, 0), a + j, end) = Open(get, a, size, 0)
      BY <3>2, NameGoesOn
    <3> QED  BY <3>1, <3>3, <3>4, <3>5
  <2>3. \A j \in 0 .. nl : j \in S
    <3> HIDE DEF S
    <3>1. \A j \in 0 .. nl - 1 : j \in S => j + 1 \in S
      BY <2>2
    <3> QED  BY <2>1, <3>1, UpTo, Zenon
  <2> QED  BY <2>3
<1>4. f[s] = pending
  <2>1. f[a + nl] = Open(get, a, size, 0)
    BY <1>3
  <2>2. a + nl \in begin .. end - 1 /\ (a + nl) + 1 = s /\ (a + nl) - a = nl
    OBVIOUS
  <2>3. f[(a + nl) + 1] = TakeByte(f[a + nl], a + nl, end)
    BY <2>2 DEF Scanned
  <2>4. TakeByte(Open(get, a, size, 0), a + nl, end) = Open(get, a, (a + nl) - a, (a + nl) + 1)
    <3>1. m_raw[(a + nl) + 1] = "="
      BY <1>2, <2>2
    <3> QED  BY <3>1, NameEnds
  <2> QED  BY <2>1, <2>2, <2>3, <2>4
<1>5. \A j \in 0 .. vl : s + j # end \/ j = 0 => f[s + j] = pending
  <2> DEFINE S == {j \in Nat : s + j # end \/ j = 0 => f[s + j] = pending}
  <2>1. 0 \in S
    BY <1>1, <1>4
  <2>2. ASSUME NEW j \in 0 .. vl - 1, j \in S PROVE j + 1 \in S
    <3> SUFFICES ASSUME s + (j + 1) # end PROVE f[s + (j + 1)] = pending
      OBVIOUS
    <3>1. s + j \in begin .. end - 1 /\ j + 1 \in 1 .. vl /\ s + (j + 1) = (s + j) + 1 /\ (s + j) + 1 # end /\ s + j # end
      BY <1>1
    <3> HIDE DEF s, pending
    <3>2. m_raw[s + (j + 1)] # "&"
      BY <1>2, <3>1 DEF s
    <3>3. f[(s + j) + 1] = TakeByte(f[s + j], s + j, end)
      BY <3>1 DEF Scanned
    <3>4. f[s + j] = pending
      BY <2>2, <3>1
    <3>5. TakeByte(Open(get, a, nl, s), s + j, end) = Open(get, a, nl, s)
      <4>1. m_raw[(s + j) + 1] # "&"
        BY <3>1, <3>2
      <4> QED  BY <1>1, <3>1, <4>1, ValueGoesOn
    <3> QED  BY <3>1, <3>3, <3>4, <3>5 DEF pending
  <2>3. \A j \in 0 .. vl : j \in S
    <3> HIDE DEF S
    <3>1. \A j \in 0 .. vl - 1 : j \in S => j + 1 \in S
      BY <2>2
    <3> QED  BY <2>1, <3>1, UpTo, Zenon
  <2> QED  BY <2>3
<1>6. CASE s + vl # end \/ vl = 0
  BY <1>5, <1>6
<1>7. CASE s + vl = end /\ vl # 0
  <2>1. s + (vl - 1) \in begin .. end - 1 /\ (s + (vl - 1)) + 1 = end /\ vl - 1 \in 0 .. vl /\ s + (vl - 1) # end
        /\ (s + (vl - 1)) - s + 1 = vl /\ s + (vl - 1) = end - 1
    BY <1>1, <1>7
  <2>2. f[s + (vl - 1)] = pending
    BY <1>5, <2>1
  <2> HIDE DEF s, pending
  <2>3. m_raw[s + vl] # "&"
    BY <1>7, <1>2 DEF s
  <2>4. f[(s + (vl - 1)) + 1] = TakeByte(f[s + (vl - 1)], s + (vl - 1), end)
    BY <2>1 DEF Scanned
  <2>5. TakeByte(Open(get, a, nl, s), s + (vl - 1), end)
          = AddPair(Open(get, a, nl, s), s + (vl - 1), (s + (vl - 1)) - s + 1)
    <3>1. m_raw[(s + (vl - 1)) + 1] # "&"
      BY <1>7, <2>1, <2>3
    <3> QED  BY <1>1, <2>1, <3>1, ValueEnds
  <2>6. f[end] = AddPair(pending, end - 1, vl)
    BY <2>1, <2>2, <2>4, <2>5 DEF pending
  <2> QED  BY <1>7, <2>6 DEF s, pending
<1> QED  BY <1>6, <1>7

Pair == [name : Seq(DOMAIN Spell \ {"="}), value : Seq(DOMAIN Spell)]
PairText(p) == Spelled(p.name) \o <<"=">> \o Spelled(p.value)
NameLen(p) == Len(Spelled(p.name))
ValueLen(p) == Len(Spelled(p.value))
QueryByte == Byte \ {SP, CR, LF}

LEMMA ByteSets == /\ ValueByte \subseteq QueryByte /\ NameByte \subseteq ValueByte /\ QueryByte \subseteq Byte
                  /\ NameByte \subseteq QueryByte /\ "=" \in QueryByte /\ "&" \in QueryByte
BY DEF NameByte, ValueByte, QueryByte, Byte, SP, CR, LF

LEMMA SeqWider ==
  ASSUME NEW S, NEW T, S \subseteq T, NEW s \in Seq(S)
  PROVE  s \in Seq(T)
OBVIOUS

LEMMA PairBytes ==
  ASSUME NEW p \in Pair
  PROVE  /\ PairText(p) \in Seq(QueryByte)
         /\ NameLen(p) \in Nat /\ ValueLen(p) \in Nat /\ Len(PairText(p)) = NameLen(p) + 1 + ValueLen(p)
         /\ \A k \in 1 .. NameLen(p) : PairText(p)[k] = Spelled(p.name)[k] /\ Spelled(p.name)[k] \in NameByte
         /\ PairText(p)[NameLen(p) + 1] = "="
         /\ \A k \in 1 .. ValueLen(p) : PairText(p)[NameLen(p) + 1 + k] = Spelled(p.value)[k] /\ Spelled(p.value)[k] \in ValueByte
<1> DEFINE nl == NameLen(p)
           vl == ValueLen(p)
           a == Spelled(p.name)
           c == Spelled(p.value)
           ab == a \o <<"=">>
<1>1. a \in Seq(NameByte) /\ c \in Seq(ValueByte)
  BY SpelledText DEF Pair
<1>2. a \in Seq(QueryByte) /\ c \in Seq(QueryByte) /\ <<"=">> \in Seq(QueryByte)
  <2>1. a \in Seq(QueryByte)
    BY <1>1, SeqWider, ByteSets
  <2>2. c \in Seq(QueryByte)
    BY <1>1, SeqWider, ByteSets
  <2>3. \A S : "=" \in S => <<"=">> \in Seq(S)
    OBVIOUS
  <2> QED  BY <2>1, <2>2, <2>3, ByteSets
<1>3. PairText(p) = ab \o c
  BY DEF PairText
<1> HIDE DEF a, c, nl, vl
<1>4. /\ ab \in Seq(QueryByte) /\ Len(a) \in Nat /\ Len(ab) = Len(a) + Len(<<"=">>)
      /\ \A k \in 1 .. Len(a) : ab[k] = a[k]
      /\ \A k \in 1 .. Len(<<"=">>) : ab[Len(a) + k] = <<"=">>[k]
  BY <1>2, Concat
<1>5. Len(<<"=">>) = 1 /\ <<"=">>[1] = "="
  OBVIOUS
<1>6. ab[Len(a) + 1] = "=" /\ Len(ab) = Len(a) + 1
  BY <1>4, <1>5
<1> HIDE DEF ab
<1>7. /\ PairText(p) \in Seq(QueryByte) /\ Len(c) \in Nat /\ Len(PairText(p)) = Len(ab) + Len(c)
      /\ \A k \in 1 .. Len(ab) : PairText(p)[k] = ab[k]
      /\ \A k \in 1 .. Len(c) : PairText(p)[Len(ab) + k] = c[k]
  <2> DEFINE t == PairText(p)
  <2>1. t = ab \o c /\ ab \in Seq(QueryByte) /\ c \in Seq(QueryByte)
    BY <1>2, <1>3, <1>4
  <2> HIDE DEF t
  <2>2. /\ t \in Seq(QueryByte) /\ Len(c) \in Nat /\ Len(t) = Len(ab) + Len(c)
        /\ \A k \in 1 .. Len(ab) : t[k] = ab[k]
        /\ \A k \in 1 .. Len(c) : t[Len(ab) + k] = c[k]
    BY ONLY <2>1, Concat
  <2> QED  BY <2>2 DEF t
<1>8. /\ \A k \in 1 .. Len(a) : k \in 1 .. Len(ab) /\ a[k] \in NameByte
      /\ \A k \in 1 .. Len(c) : c[k] \in ValueByte
      /\ Len(a) + 1 \in 1 .. Len(ab)
  BY <1>1, <1>4, <1>6
<1>9. nl = Len(a) /\ vl = Len(c)
  BY DEF a, c, nl, vl, NameLen, ValueLen
<1>10. \A k \in 1 .. Len(c) : PairText(p)[nl + 1 + k] = c[k]
  BY <1>6, <1>7, <1>9
<1> QED  BY <1>4, <1>6, <1>7, <1>8, <1>9, <1>10 DEF a, c, nl, vl

LEMMA PairTextType ==
  ASSUME NEW p \in Pair
  PROVE  PairText(p) \in Seq(QueryByte) /\ Len(PairText(p)) \in Nat
<1>1. PairText(p) \in Seq(QueryByte)
  BY PairBytes
<1> QED  BY <1>1

\* Where the bytes of the pairs are.
PairsAt(all, text, at) ==
  /\ at \in [1 .. Len(all) + 1 -> Nat]
  /\ at[1] = 0 /\ (all # <<>> => at[Len(all) + 1] = Len(text) + 1)
  /\ \A i \in 1 .. Len(all) :
       /\ at[i + 1] = at[i] + Len(PairText(all[i])) + 1
       /\ at[i + 1] <= Len(text) + 1
       /\ \A k \in 1 .. Len(PairText(all[i])) : text[at[i] + k] = PairText(all[i])[k]
       /\ i # Len(all) => text[at[i + 1]] = "&"

LEMMA QueryBytes ==
  ASSUME NEW all \in Seq(Pair), NEW text, text = Joined(Pairs(all))
  PROVE  /\ text \in Seq(QueryByte) /\ Len(text) \in Nat /\ Len(all) \in Nat
         /\ all = <<>> => text = <<>>
         /\ \E at : PairsAt(all, text, at)
<1> DEFINE n == Len(all)
           segs == [i \in 1 .. n |-> IF i = 1 THEN PairText(all[i]) ELSE <<"&">> \o PairText(all[i])]
<1>1. n \in Nat /\ DOMAIN all = 1 .. n /\ \A i \in 1 .. n : all[i] \in Pair
  OBVIOUS
<1>2. text = FlattenSeq(segs)
  <2>1. DOMAIN Pairs(all) = 1 .. n /\ \A i \in 1 .. n : Pairs(all)[i] = PairText(all[i])
    BY <1>1 DEF Pairs, PairText
  <2>2. [i \in DOMAIN Pairs(all) |-> IF i = 1 THEN Pairs(all)[i] ELSE <<"&">> \o Pairs(all)[i]] = segs
    BY <2>1
  <2> QED  BY <2>2 DEF Joined
<1>3. ASSUME NEW i \in 1 .. n
      PROVE  /\ PairText(all[i]) \in Seq(QueryByte) /\ Len(PairText(all[i])) \in Nat
             /\ segs[i] \in Seq(QueryByte)
             /\ i = 1 => segs[i] = PairText(all[i])
             /\ i # 1 => /\ Len(segs[i]) = Len(PairText(all[i])) + 1
                         /\ segs[i][1] = "&"
                         /\ \A k \in 1 .. Len(PairText(all[i])) : segs[i][k + 1] = PairText(all[i])[k]
  <2>1. PairText(all[i]) \in Seq(QueryByte) /\ Len(PairText(all[i])) \in Nat
    BY <1>1, PairTextType
  <2> DEFINE t == PairText(all[i])
             u == <<"&">> \o t
  <2>2. <<"&">> \in Seq(QueryByte) /\ Len(<<"&">>) = 1 /\ <<"&">>[1] = "&"
    <3>1. \A S : "&" \in S => <<"&">> \in Seq(S)
      OBVIOUS
    <3> QED  BY <3>1, ByteSets
  <2> HIDE DEF t
  <2>3. /\ u \in Seq(QueryByte) /\ Len(t) \in Nat /\ Len(u) = Len(<<"&">>) + Len(t)
        /\ \A k \in 1 .. Len(<<"&">>) : u[k] = <<"&">>[k]
        /\ \A k \in 1 .. Len(t) : u[Len(<<"&">>) + k] = t[k]
    <3>1. t \in Seq(QueryByte)
      BY <2>1 DEF t
    <3> QED  BY <2>2, <3>1, Concat
  <2>4. Len(u) = Len(t) + 1 /\ u[1] = "&" /\ \A k \in 1 .. Len(t) : u[k + 1] = t[k]
    <3> HIDE DEF u
    <3>1. \A k \in 1 .. Len(t) : 1 + k = k + 1
      BY <2>3
    <3> QED  BY <2>2, <2>3, <3>1
  <2> HIDE DEF u
  <2>5. segs[i] = IF i = 1 THEN t ELSE u
    BY DEF t, u
  <2> HIDE DEF segs
  <2>6. segs[i] \in Seq(QueryByte)
    BY <2>1, <2>3, <2>5 DEF t
  <2> QED  BY <2>1, <2>4, <2>5, <2>6 DEF t
<1>4. Len(segs) = n /\ segs \in Seq(Seq(QueryByte))
  <2>1. segs \in [1 .. n -> Seq(QueryByte)] /\ Len(segs) = n
    <3>1. \A i \in 1 .. n : segs[i] \in Seq(QueryByte)
      BY <1>3
    <3> QED  BY <1>1, <3>1
  <2> HIDE DEF segs
  <2> QED  BY <1>1, <2>1
<1> HIDE DEF segs, n
<1>5. text \in Seq(QueryByte) /\ Len(text) \in Nat
  BY <1>2, <1>4, EndsExist
<1>6. PICK e : Ends(segs, e)
  BY <1>4, EndsExist
<1>7. /\ e \in [0 .. n -> Nat] /\ e[0] = 0 /\ e[n] = Len(text)
      /\ \A i \in 0 .. n - 1 : /\ e[i + 1] = e[i] + Len(segs[i + 1]) /\ e[i + 1] <= Len(text)
                               /\ \A k \in 1 .. Len(segs[i + 1]) : text[e[i] + k] = segs[i + 1][k]
  BY <1>2, <1>4, <1>6 DEF Ends
<1>8. all = <<>> => text = <<>>
  <2>1. all = <<>> => n = 0
    BY DEF n
  <2>2. n = 0 => Len(text) = 0
    BY <1>7
  <2> QED  BY <1>5, <2>1, <2>2
<1> DEFINE at == [i \in 1 .. n + 1 |-> IF i = 1 THEN 0 ELSE e[i - 1] + 1]
<1>9. at[1] = 0 /\ at \in [1 .. n + 1 -> Nat] /\ \A i \in 1 .. n : at[i + 1] = e[i] + 1
  BY <1>1, <1>7
<1> HIDE DEF at
<1>10. all # <<>> => at[n + 1] = Len(text) + 1
  <2>1. all # <<>> => n \in 1 .. n
    BY <1>1 DEF n
  <2> QED  BY <1>7, <1>9, <2>1
<1>11. ASSUME NEW i \in 1 .. n
       PROVE  /\ at[i + 1] = at[i] + Len(PairText(all[i])) + 1
              /\ at[i + 1] <= Len(text) + 1
              /\ \A k \in 1 .. Len(PairText(all[i])) : text[at[i] + k] = PairText(all[i])[k]
              /\ i # n => text[at[i + 1]] = "&"
  <2> DEFINE j == i - 1
             len == Len(PairText(all[i]))
  <2>1. j \in 0 .. n - 1 /\ i = j + 1
    BY <1>1
  <2>2. len \in Nat
    BY <1>3
  <2> HIDE DEF j, len
  <2>3. /\ e[i] = e[j] + Len(segs[i]) /\ e[i] <= Len(text) /\ e[j] \in Nat
        /\ \A k \in 1 .. Len(segs[i]) : text[e[j] + k] = segs[i][k]
    <3>1. /\ e[j + 1] = e[j] + Len(segs[j + 1]) /\ e[j + 1] <= Len(text)
          /\ \A k \in 1 .. Len(segs[j + 1]) : text[e[j] + k] = segs[j + 1][k]
      BY <1>7, <2>1
    <3>2. e[j] \in Nat
      <4>1. j \in 0 .. n
        BY <1>1, <2>1
      <4> QED  BY <1>7, <4>1
    <3> QED  BY <2>1, <3>1, <3>2
  <2>4. ASSUME i = 1 PROVE  /\ at[i + 1] = at[i] + len + 1 /\ at[i + 1] <= Len(text) + 1
                            /\ \A k \in 1 .. len : text[at[i] + k] = PairText(all[i])[k]
    <3>1. segs[i] = PairText(all[i]) /\ e[j] = 0 /\ at[i] = 0 /\ at[i + 1] = e[i] + 1
      BY <1>3, <1>7, <1>9, <2>1, <2>4
    <3>2. Len(segs[i]) = len
      BY <3>1 DEF len
    <3>3. \A k \in 1 .. len : text[at[i] + k] = PairText(all[i])[k]
      BY <2>3, <3>1, <3>2
    <3> QED  BY <1>5, <2>2, <2>3, <3>1, <3>2, <3>3
  <2>5. ASSUME i # 1 PROVE  /\ at[i + 1] = at[i] + len + 1 /\ at[i + 1] <= Len(text) + 1
                            /\ \A k \in 1 .. len : text[at[i] + k] = PairText(all[i])[k]
    <3>1. /\ Len(segs[i]) = len + 1 /\ segs[i][1] = "&"
          /\ \A k \in 1 .. len : segs[i][k + 1] = PairText(all[i])[k]
      BY <1>3, <2>5 DEF len
    <3>2. at[i + 1] = e[i] + 1 /\ j \in 1 .. n /\ at[i] = e[j] + 1
      <4>1. j \in 1 .. n
        BY <1>1, <2>1, <2>5
      <4>2. at[j + 1] = e[j] + 1 /\ at[i + 1] = e[i] + 1
        BY <1>9, <4>1
      <4> QED  BY <2>1, <4>1, <4>2
    <3>3. ASSUME NEW k \in 1 .. len PROVE text[at[i] + k] = PairText(all[i])[k]
      <4>1. k + 1 \in 1 .. Len(segs[i]) /\ e[j] + (k + 1) = at[i] + k
        <5> DEFINE x == Len(segs[i])
                   y == at[i]
                   z == e[j]
        <5>1. z \in Nat /\ y = z + 1 /\ x = len + 1
          BY <2>3, <3>1, <3>2
        <5> HIDE DEF x, y, z
        <5>2. k + 1 \in 1 .. x /\ z + (k + 1) = y + k
          BY <2>2, <5>1
        <5> QED  BY <5>2 DEF x, y, z
      <4> QED  BY <2>3, <3>1, <4>1
    <3>4. e[j] \in Nat /\ e[i] = e[j] + Len(segs[i]) /\ Len(segs[i]) = len + 1 /\ e[i] <= Len(text)
      BY <2>3, <3>1
    <3>5. at[i + 1] = e[i] + 1 /\ at[i] = e[j] + 1
      BY <3>2
    <3>6. at[i + 1] = at[i] + len + 1 /\ at[i + 1] <= Len(text) + 1
      <4>1. e[i] = e[j] + (len + 1)
        BY <3>4
      <4>2. \A a \in Nat : (a + (len + 1)) + 1 = (a + 1) + len + 1
        BY <2>2
      <4>3. at[i + 1] = at[i] + len + 1
        BY <3>4, <3>5, <4>1, <4>2
      <4>4. e[i] \in Nat /\ Len(text) \in Nat
        BY <1>5, <2>2, <3>4, <4>1
      <4> QED  BY <3>4, <3>5, <4>3, <4>4
    <3> QED  BY <3>3, <3>6
  <2>6. ASSUME i # n PROVE text[at[i + 1]] = "&"
    <3>1. i \in 0 .. n - 1 /\ i + 1 \in 1 .. n /\ i + 1 # 1
      BY <1>1, <2>6
    <3>2. segs[i + 1][1] = "&" /\ Len(segs[i + 1]) = Len(PairText(all[i + 1])) + 1 /\ Len(PairText(all[i + 1])) \in Nat
      BY <1>3, <3>1
    <3>3. 1 \in 1 .. Len(segs[i + 1])
      BY <3>2
    <3>4. text[e[i] + 1] = segs[i + 1][1]
      BY <1>7, <3>1, <3>3
    <3> QED  BY <1>9, <3>2, <3>4
  <2> QED  BY <2>4, <2>5, <2>6 DEF len
<1>12. PairsAt(all, text, at)
  BY <1>9, <1>10, <1>11 DEF n, PairsAt
<1> QED  BY <1>1, <1>5, <1>8, <1>12 DEF n

\* The read has a text from byte a on.
TextAt(a, text) == \A k \in 1 .. Len(text) : m_raw[a + k] = text[k]

\* A part of a read that is some text.
LEMMA PartIs ==
  ASSUME NEW S, m_raw \in Seq(S), NEW a \in Nat, NEW T, NEW text \in Seq(T), a + Len(text) <= Len(m_raw),
         \A k \in 1 .. Len(text) : m_raw[a + k] = text[k]
  PROVE  Part(a, a + Len(text)) = text
<1> DEFINE n == Len(text)
           raw == m_raw
           sub == SubSeq(raw, a + 1, a + n)
<1>1. n \in Nat /\ DOMAIN text = 1 .. n /\ text = [k \in 1 .. n |-> text[k]]
  OBVIOUS
<1> HIDE DEF n
<1>2. sub = [k \in 1 .. n |-> raw[a + k]]
  <2>1. a + 1 \in Int /\ a + n \in Int /\ Len(raw) \in Nat /\ raw \in Seq(S) /\ a + n <= Len(raw)
    BY <1>1 DEF n
  <2> HIDE DEF raw
  <2>2. \A i \in a + 1 .. a + n : raw[i] \in S
    BY <2>1
  <2>3. /\ sub \in Seq(S)
        /\ Len(sub) = IF a + 1 <= a + n THEN (a + n) - (a + 1) + 1 ELSE 0
        /\ \A i \in 1 .. (a + n) - (a + 1) + 1 : sub[i] = raw[(a + 1) + i - 1]
    BY <2>1, <2>2, SubSeqProperties
  <2>4. (a + n) - (a + 1) + 1 = n /\ \A k \in 1 .. n : (a + 1) + k - 1 = a + k
    BY <1>1
  <2> HIDE DEF sub
  <2>5. Len(sub) = n /\ \A k \in 1 .. n : sub[k] = raw[a + k]
    BY <1>1, <2>3, <2>4
  <2> QED  BY <2>3, <2>5
<1>3. \A k \in 1 .. n : raw[a + k] = text[k]
  BY DEF n
<1>4. sub = text
  <2> HIDE DEF raw, sub
  <2> QED  BY <1>1, <1>2, <1>3
<1> QED  BY <1>4 DEF Part, n

\* A pair's text decodes to the pair.
LEMMA PairDecoded ==
  ASSUME m_raw \in Seq(Byte), NEW p \in Pair, NEW a \in Nat,
         a + NameLen(p) + 1 + ValueLen(p) <= Len(m_raw),
         \A k \in 1 .. Len(PairText(p)) : m_raw[a + k] = PairText(p)[k]
  PROVE  /\ NameLen(p) \in Nat /\ ValueLen(p) \in Nat
         /\ \A k \in 1 .. NameLen(p) : m_raw[a + k] # "="
         /\ m_raw[a + NameLen(p) + 1] = "="
         /\ \A k \in 1 .. ValueLen(p) : m_raw[a + NameLen(p) + 1 + k] # "&"
         /\ unquote(Part(a, a + NameLen(p))) = Meant(p.name)
         /\ unquote(Part(a + NameLen(p) + 1, a + NameLen(p) + 1 + ValueLen(p))) = Meant(p.value)
<1> DEFINE nl == NameLen(p)
           vl == ValueLen(p)
           t == PairText(p)
           raw == m_raw
           na == Spelled(p.name)
           va == Spelled(p.value)
           s == a + nl + 1
<1>1. /\ nl \in Nat /\ vl \in Nat /\ Len(t) = nl + 1 + vl
      /\ \A k \in 1 .. nl : t[k] = na[k] /\ na[k] \in NameByte
      /\ t[nl + 1] = "="
      /\ \A k \in 1 .. vl : t[nl + 1 + k] = va[k] /\ va[k] \in ValueByte
  BY PairBytes
<1>2. \A k \in 1 .. nl + 1 + vl : raw[a + k] = t[k]
  BY <1>1
<1>3. na \in Seq(NameByte) /\ va \in Seq(ValueByte) /\ p.name \in Seq(DOMAIN Spell) /\ p.value \in Seq(DOMAIN Spell)
  <2>1. p.name \in Seq(DOMAIN Spell \ {"="}) /\ p.value \in Seq(DOMAIN Spell)
    BY DEF Pair
  <2>2. p.name \in Seq(DOMAIN Spell)
    BY <2>1
  <2> QED  BY <2>1, <2>2, SpelledText
<1>4. Len(na) = nl /\ Len(va) = vl /\ a + nl + 1 + vl <= Len(raw) /\ raw \in Seq(Byte) /\ Len(raw) \in Nat
  BY DEF NameLen, ValueLen
<1> HIDE DEF nl, vl, t, raw, na, va, s
<1>5. "=" \notin NameByte /\ "&" \notin ValueByte
  BY DEF NameByte, ValueByte
<1>6. \A k \in 1 .. nl : raw[a + k] = na[k] /\ na[k] # "="
  <2> TAKE k \in 1 .. nl
  <2>1. k \in 1 .. nl + 1 + vl
    BY <1>1
  <2> QED  BY <1>1, <1>2, <1>5, <2>1
<1>7. raw[s] = "="
  <2>1. nl \in Nat /\ vl \in Nat
    BY <1>1
  <2>2. nl + 1 \in 1 .. nl + 1 + vl /\ a + (nl + 1) = s
    BY ONLY a \in Nat, <2>1 DEF s
  <2>3. raw[a + (nl + 1)] = t[nl + 1]
    BY <1>2, <2>2
  <2> QED  BY <1>1, <2>2, <2>3
<1>8. \A k \in 1 .. vl : raw[s + k] = va[k] /\ va[k] # "&"
  <2> TAKE k \in 1 .. vl
  <2>1. nl \in Nat /\ vl \in Nat
    BY <1>1
  <2>2. nl + 1 + k \in 1 .. nl + 1 + vl /\ a + (nl + 1 + k) = s + k
    BY ONLY a \in Nat, k \in 1 .. vl, <2>1 DEF s
  <2>3. raw[a + (nl + 1 + k)] = t[nl + 1 + k]
    BY <1>2, <2>2
  <2> QED  BY <1>1, <1>5, <2>2, <2>3
<1>9. Part(a, a + nl) = na
  <2>1. a + Len(na) <= Len(m_raw) /\ \A k \in 1 .. Len(na) : m_raw[a + k] = na[k]
    BY <1>1, <1>4, <1>6 DEF raw
  <2>2. Part(a, a + Len(na)) = na
    BY <1>3, <2>1, PartIs
  <2> QED  BY <1>4, <2>2
<1>10. Part(s, s + vl) = va
  <2>1. s \in Nat /\ s + Len(va) <= Len(m_raw) /\ \A k \in 1 .. Len(va) : m_raw[s + k] = va[k]
    BY <1>1, <1>4, <1>8 DEF raw, s
  <2>2. Part(s, s + Len(va)) = va
    BY <1>3, <2>1, PartIs
  <2> QED  BY <1>4, <2>2
<1>11. unquote(na) = Meant(p.name) /\ unquote(va) = Meant(p.value)
  BY <1>3, Unquoted DEF na, va
<1> QED  BY <1>1, <1>6, <1>7, <1>8, <1>9, <1>10, <1>11 DEF nl, vl, raw, s

PairEnd(a, p) == a + Len(PairText(p))
Added(get, p) == Keep(get, Meant(p.name), Meant(p.value))

\* One pair: its end is seen at the "&" after it or, if it has a value, at its last byte.
LEMMA OnePair ==
  ASSUME m_raw \in Seq(Byte), NEW f, NEW begin \in Nat, NEW end \in Nat, end <= Len(m_raw), Scanned(f, begin, end),
         NEW p \in Pair, NEW a \in Nat, begin <= a, PairEnd(a, p) <= end,
         TextAt(a, PairText(p)),
         NEW get, AtName(f[a], get, a)
  PROVE  /\ PairEnd(a, p) \in Nat
         /\ PairEnd(a, p) # end /\ m_raw[PairEnd(a, p) + 1] = "&" =>
              IF Meant(p.name) = <<>> THEN IsRefused(f[PairEnd(a, p) + 1]) ELSE AtName(f[PairEnd(a, p) + 1], Added(get, p), PairEnd(a, p) + 1)
         /\ PairEnd(a, p) = end =>
              IF Spelled(p.value) = <<>> THEN IsOpen(f[end], get)
              ELSE IF Meant(p.name) = <<>> THEN IsRefused(f[end])
              ELSE IsOpen(f[end], Added(get, p))
<1> DEFINE last == PairEnd(a, p)
           kept == Added(get, p)
<1> HIDE DEF last, kept
<1> DEFINE nl == NameLen(p)
           vl == ValueLen(p)
           s == a + nl + 1
           pending == Open(get, a, nl, s)
<1>1. last = a + Len(PairText(p)) /\ last <= end /\ kept = Keep(get, Meant(p.name), Meant(p.value))
  BY DEF last, kept, PairEnd, Added
<1>2. nl \in Nat /\ vl \in Nat /\ Len(PairText(p)) = nl + 1 + vl
  BY PairBytes
<1>3. PICK size : f[a] = Open(get, a, size, 0)
  BY DEF AtName
<1> HIDE DEF nl, vl
<1>4. last = a + nl + 1 + vl /\ s \in Nat /\ s # 0 /\ last = s + vl /\ last \in Nat
  BY <1>2, <1>1
<1>5. last <= Len(m_raw)
  <2>1. Len(m_raw) \in Nat
    OBVIOUS
  <2> QED  BY <1>4, <1>1, <2>1
<1>6. /\ \A k \in 1 .. nl : m_raw[a + k] # "="
      /\ m_raw[a + nl + 1] = "="
      /\ \A k \in 1 .. vl : m_raw[a + nl + 1 + k] # "&"
      /\ unquote(Part(a, a + nl)) = Meant(p.name)
      /\ unquote(Part(s, s + vl)) = Meant(p.value)
  BY <1>4, <1>5, PairDecoded DEF nl, vl, TextAt
<1>7. f[s + vl] = IF s + vl # end \/ vl = 0 THEN pending ELSE AddPair(pending, end - 1, vl)
  <2>1. a + nl + 1 + vl <= end /\ nl \in Nat /\ vl \in Nat
    BY <1>2, <1>4, <1>1
  <2>2. PairAt(a, nl, vl)
    BY <1>6 DEF PairAt
  <2>3. /\ a + nl + 1 + vl # end \/ vl = 0 => f[a + nl + 1 + vl] = Open(get, a, nl, a + nl + 1)
        /\ a + nl + 1 + vl = end /\ vl # 0 =>
              f[a + nl + 1 + vl] = AddPair(Open(get, a, nl, a + nl + 1), end - 1, vl)
    BY <1>3, <2>1, <2>2, PairScanned
  <2> QED  BY <2>3
<1>8. \A i : AddPair(pending, i, vl) = IF Meant(p.name) = <<>> THEN Refused(get, a, nl, s)
                                       ELSE Open(kept, i + 1, nl, 0)
  BY <1>6, <1>1, Adds
<1> HIDE DEF s
<1>9. ASSUME last # end, m_raw[last + 1] = "&"
      PROVE  f[last + 1] = AddPair(pending, last, vl)
  <2>1. nl \in Nat /\ vl \in Nat /\ last = a + nl + 1 + vl /\ s = a + nl + 1 /\ last # end
    BY <1>2, <1>4, <1>9 DEF s
  <2>2. last \in begin .. end - 1 /\ last - s = vl
    <3>1. last <= end /\ begin <= a /\ a \in Nat /\ begin \in Nat /\ end \in Nat
      BY <1>1
    <3>2. last \in Nat /\ begin <= last /\ last <= end - 1
      BY ONLY <2>1, <3>1
    <3>3. last - s = vl
      BY ONLY <2>1, <3>1
    <3> QED  BY <3>1, <3>2, <3>3
  <2>3. f[last + 1] = TakeByte(f[last], last, end) /\ f[last] = pending
    BY <1>4, <1>7, <1>9, <2>2 DEF Scanned
  <2>4. TakeByte(Open(get, a, nl, s), last, end) = AddPair(Open(get, a, nl, s), last, last - s)
    BY <1>4, <1>9, ValueEnds
  <2> QED  BY <2>2, <2>3, <2>4
<1>10. Spelled(p.value) = <<>> <=> vl = 0
  <2>1. Spelled(p.value) \in Seq(ValueByte)
    BY SpelledText DEF Pair
  <2> QED  BY <2>1 DEF vl, ValueLen
<1>11. ASSUME last = end
      PROVE  f[end] = IF Spelled(p.value) = <<>> THEN pending ELSE AddPair(pending, end - 1, vl)
  BY <1>4, <1>7, <1>10, <1>11
<1> HIDE DEF pending
<1>12. ASSUME last # end, m_raw[last + 1] = "&"
       PROVE  IF Meant(p.name) = <<>> THEN IsRefused(f[last + 1]) ELSE AtName(f[last + 1], kept, last + 1)
  BY <1>8, <1>9, <1>12 DEF IsRefused, AtName
<1>13. ASSUME last = end
       PROVE  IF Spelled(p.value) = <<>> THEN IsOpen(f[end], get)
              ELSE IF Meant(p.name) = <<>> THEN IsRefused(f[end])
              ELSE IsOpen(f[end], kept)
  BY <1>8, <1>11, <1>13 DEF pending, IsOpen, IsRefused
<1> QED  BY <1>4, <1>12, <1>13 DEF last, kept

\* get has the first value of each name among the first m pairs.
Firsts(all, get, m) ==
  /\ get = [name \in DOMAIN get |-> get[name]]
  /\ DOMAIN get = {Meant(all[i].name) : i \in 1 .. m}
  /\ \A i \in 1 .. m : (\A j \in 1 .. i - 1 : Meant(all[j].name) # Meant(all[i].name))
                       => get[Meant(all[i].name)] = Meant(all[i].value)
Given(all, m) == \A i \in 1 .. m : Meant(all[i].name) # <<>>

LEMMA FirstsNone ==
  ASSUME NEW all
  PROVE  Firsts(all, <<>>, 0) /\ Given(all, 0)
<1>1. <<>> = [name \in DOMAIN <<>> |-> <<>>[name]] /\ DOMAIN <<>> = {}
  OBVIOUS
<1>2. 1 .. 0 = {}
  OBVIOUS
<1> QED  BY <1>1, <1>2 DEF Firsts, Given

LEMMA KeepFirsts ==
  ASSUME NEW all, NEW m \in Nat, NEW get, Firsts(all, get, m)
  PROVE  Firsts(all, Keep(get, Meant(all[m + 1].name), Meant(all[m + 1].value)), m + 1)
<1> DEFINE name == Meant(all[m + 1].name)
           value == Meant(all[m + 1].value)
           kept == Keep(get, name, value)
           Name(i) == Meant(all[i].name)
<1>1. 1 .. m + 1 = (1 .. m) \cup {m + 1} /\ m + 1 \notin 1 .. m
  OBVIOUS
<1>2. /\ get = [x \in DOMAIN get |-> get[x]]
      /\ DOMAIN get = {Name(i) : i \in 1 .. m}
      /\ \A i \in 1 .. m : (\A j \in 1 .. i - 1 : Name(j) # Name(i)) => get[Name(i)] = Meant(all[i].value)
  BY DEF Firsts
<1>3. {Name(i) : i \in 1 .. m + 1} = DOMAIN get \cup {name}
  BY <1>1, <1>2
<1>4. Name(m + 1) = name /\ Meant(all[m + 1].value) = value
  OBVIOUS
<1>5. \A i \in 1 .. m : i \in 1 .. (m + 1) - 1 /\ Name(i) \in DOMAIN get
  BY <1>2
<1> HIDE DEF Name, name, value
<1>6. /\ kept = [x \in DOMAIN kept |-> kept[x]] /\ DOMAIN kept = DOMAIN get \cup {name}
      /\ \A x \in DOMAIN get : kept[x] = get[x] \/ (x = name /\ name \notin DOMAIN get)
      /\ name \notin DOMAIN get => kept[name] = value
  <2>1. CASE name \in DOMAIN get
    <3>1. kept = get
      BY <2>1 DEF Keep
    <3> HIDE DEF kept
    <3>2. DOMAIN get \cup {name} = DOMAIN get
      BY <2>1
    <3>3. get = [x \in DOMAIN get |-> get[x]]
      BY <1>2
    <3>4. kept = [x \in DOMAIN kept |-> kept[x]] /\ DOMAIN kept = DOMAIN get \cup {name}
      BY ONLY <3>1, <3>2, <3>3
    <3> QED  BY <2>1, <3>1, <3>4
  <2>2. CASE name \notin DOMAIN get
    <3>1. kept = [x \in DOMAIN get \cup {name} |-> IF x = name THEN value ELSE get[x]]
      BY <2>2 DEF Keep
    <3> HIDE DEF kept
    <3>2. DOMAIN kept = DOMAIN get \cup {name} /\ kept = [x \in DOMAIN kept |-> kept[x]]
      BY <3>1
    <3>3. /\ \A x \in DOMAIN get : kept[x] = get[x]
          /\ kept[name] = value
      BY <2>2, <3>1
    <3> QED  BY <2>2, <3>2, <3>3
  <2> QED  BY <2>1, <2>2
<1> HIDE DEF kept
<1>7. ASSUME NEW i \in 1 .. m + 1, \A j \in 1 .. i - 1 : Name(j) # Name(i)
      PROVE  kept[Name(i)] = Meant(all[i].value)
  <2>1. CASE i = m + 1
    <3>1. \A j \in 1 .. m : Name(j) # name
      BY <1>4, <1>5, <1>7, <2>1
    <3>2. name \notin DOMAIN get
      BY <1>2, <3>1
    <3> QED  BY <1>4, <1>6, <2>1, <3>2
  <2>2. CASE i # m + 1
    <3>1. i \in 1 .. m
      BY <1>1, <2>2
    <3>2. get[Name(i)] = Meant(all[i].value)
      BY <1>2, <1>7, <3>1
    <3> QED  BY <1>5, <1>6, <3>1, <3>2
  <2> QED  BY <2>1, <2>2
<1>8. kept = [x \in DOMAIN kept |-> kept[x]] /\ DOMAIN kept = {Name(i) : i \in 1 .. m + 1}
  BY <1>3, <1>6
<1> QED  BY <1>7, <1>8 DEF Firsts, Name, kept, name, value

\* A spelling is empty only if there is nothing to spell.
LEMMA NothingSpelled ==
  ASSUME NEW symbols \in Seq(DOMAIN Spell)
  PROVE  /\ Spelled(symbols) = <<>> <=> symbols = <<>>
         /\ Meant(symbols) = <<>> <=> symbols = <<>>
<1> DEFINE seqs == [i \in DOMAIN symbols |-> Spell[symbols[i]]]
           n == Len(symbols)
<1>1. n \in Nat /\ DOMAIN symbols = 1 .. n /\ \A i \in 1 .. n : symbols[i] \in DOMAIN Spell
  OBVIOUS
<1>2. seqs \in Seq(Seq(Byte)) /\ Len(seqs) = n
  <2>1. \A i \in 1 .. n : seqs[i] \in Seq(Byte)
    <3>1. \A s \in DOMAIN Spell : Spell[s] \in Seq(Byte)
      BY SpelledBytes
    <3> QED  BY <1>1, <3>1
  <2>2. seqs \in [1 .. n -> Seq(Byte)]
    BY <1>1, <2>1
  <2> HIDE DEF seqs
  <2> QED  BY <1>1, <2>2
<1>3. Spelled(symbols) = FlattenSeq(seqs)
  BY DEF Spelled
<1>4. \A i \in 1 .. n : seqs[i] = Spell[symbols[i]]
  BY <1>1
<1>5. n = 0 <=> symbols = <<>>
  OBVIOUS
<1>6. Meant(symbols) = <<>> <=> n = 0
  <2>1. Meant(symbols) = [i \in 1 .. n |-> Means[symbols[i]]]
    BY <1>1 DEF Meant
  <2>2. \A s : Len([i \in 1 .. n |-> s[i]]) = n
    BY <1>1
  <2> DEFINE meant == Meant(symbols)
  <2>3. meant = [i \in 1 .. n |-> meant[i]]
    BY <2>1
  <2>4. meant \in Seq({meant[i] : i \in 1 .. n}) /\ Len(meant) = n
    <3> HIDE DEF meant
    <3> QED  BY <1>1, <2>3
  <2> HIDE DEF meant
  <2>5. meant = <<>> <=> n = 0
    BY <1>1, <2>4
  <2> QED  BY <2>5 DEF meant
<1> HIDE DEF seqs, n
<1>7. PICK e : Ends(seqs, e)
  BY <1>2, EndsExist
<1>8. Spelled(symbols) \in Seq(Byte)
  BY <1>2, <1>3, EndsExist
<1>9. e[0] = 0 /\ e[n] = Len(Spelled(symbols)) /\ \A i \in 0 .. n - 1 : e[i + 1] = e[i] + Len(seqs[i + 1]) /\ e[i + 1] <= Len(Spelled(symbols))
  BY <1>2, <1>3, <1>7 DEF Ends
<1>10. n # 0 => Len(Spelled(symbols)) # 0
  <2> SUFFICES ASSUME n # 0 PROVE Len(Spelled(symbols)) # 0
    OBVIOUS
  <2>1. 0 \in 0 .. n - 1 /\ 1 \in 1 .. n
    BY <1>1
  <2>2. Len(seqs[1]) \in {1, 3}
    BY <1>1, <1>4, <2>1, SpelledBytes
  <2>3. e[1] = 0 + Len(seqs[1]) /\ e[1] <= Len(Spelled(symbols))
    BY <1>9, <2>1
  <2>4. Len(Spelled(symbols)) \in Nat
    BY <1>8
  <2>5. \A l, w \in Nat : l # 0 /\ 0 + l <= w => w # 0
    OBVIOUS
  <2>6. Len(seqs[1]) \in Nat /\ Len(seqs[1]) # 0
    <3>1. \A l : l \in {1, 3} => l \in Nat /\ l # 0
      OBVIOUS
    <3> QED  BY ONLY <2>2, <3>1, Zenon
  <2>7. 0 + Len(seqs[1]) <= Len(Spelled(symbols))
    BY ONLY <2>3, Zenon
  <2> QED  BY ONLY <2>4, <2>5, <2>6, <2>7
<1>11. n = 0 => Len(Spelled(symbols)) = 0
  BY <1>9
<1>12. Len(Spelled(symbols)) = 0 <=> Spelled(symbols) = <<>>
  BY <1>8
<1> QED  BY <1>10, <1>11, <1>12, <1>5, <1>6

\* A name that is missing is never forgotten.
LEMMA RefusedToEnd ==
  ASSUME NEW f, NEW begin \in Nat, NEW end \in Nat, Scanned(f, begin, end),
         NEW p \in begin .. end, NEW q \in p .. end,
         IsRefused(f[p])
  PROVE  IsRefused(f[q])
<1> PICK get, start, size, value : f[p] = Refused(get, start, size, value)
  BY DEF IsRefused
<1> DEFINE x == Refused(get, start, size, value)
           S == {k \in Nat : f[p + k] = x}
           n == q - p
<1>1. n \in Nat /\ p + n = q /\ p + 0 = p
  OBVIOUS
<1>2. 0 \in S
  BY <1>1
<1>3. ASSUME NEW k \in 0 .. n - 1, k \in S PROVE k + 1 \in S
  <2>1. p + k \in begin .. end - 1 /\ p + (k + 1) = (p + k) + 1 /\ k + 1 \in Nat
    OBVIOUS
  <2>2. f[(p + k) + 1] = TakeByte(f[p + k], p + k, end)
    BY <2>1 DEF Scanned
  <2>3. f[p + k] = x
    BY <1>3
  <2> HIDE DEF x
  <2>4. TakeByte(x, p + k, end) = x
    BY RefusedStays DEF x
  <2> QED  BY <2>1, <2>2, <2>3, <2>4
<1>4. n \in S
  <2> HIDE DEF S, n
  <2>1. \A i \in 0 .. n - 1 : i \in S => i + 1 \in S
    BY <1>3
  <2>2. n \in 0 .. n
    BY <1>1
  <2> QED  BY <1>1, <1>2, <2>1, <2>2, UpTo, Zenon
<1>5. f[q] = x
  BY <1>1, <1>4
<1> QED  BY <1>5 DEF IsRefused

\* The pairs that the query string of a request gives: not a last one without a value.
Options(r) == IF r.options = <<>> THEN <<>> ELSE r.options[1]
SeenLen(all) == IF all # <<>> /\ all[Len(all)].value = <<>> THEN Len(all) - 1 ELSE Len(all)

LEMMA LeastIndex ==
  ASSUME NEW n \in Nat, NEW T, NEW k \in 1 .. n, k \in T
  PROVE  \E i \in 1 .. n : i \in T /\ \A j \in 1 .. i - 1 : j \notin T
<1> DEFINE First(m) == \E i \in 1 .. m : i \in T /\ \A j \in 1 .. i - 1 : j \notin T
           None(m) == \A j \in 1 .. m : j \notin T
           S == {m \in Nat : None(m) \/ First(m)}
<1>1. 0 \in S
  OBVIOUS
<1>2. ASSUME NEW m \in 0 .. n - 1, m \in S PROVE m + 1 \in S
  <2>1. m \in Nat /\ m + 1 \in 1 .. m + 1 /\ (m + 1) - 1 = m /\ \A j \in 1 .. m + 1 : j \in 1 .. m \/ j = m + 1
    OBVIOUS
  <2>2. CASE First(m)
    <3>1. \A i \in 1 .. m : i \in 1 .. m + 1
      BY <2>1
    <3>2. First(m + 1)
      BY <2>2, <3>1
    <3> QED  BY <2>1, <3>2
  <2>3. CASE None(m) /\ m + 1 \in T
    <3>1. First(m + 1)
      <4>1. \A j \in 1 .. (m + 1) - 1 : j \notin T
        BY <2>1, <2>3
      <4> QED  BY <2>1, <2>3, <4>1
    <3> QED  BY <2>1, <3>1
  <2>4. CASE None(m) /\ m + 1 \notin T
    <3>1. None(m + 1)
      BY <2>1, <2>4
    <3> QED  BY <2>1, <3>1
  <2> QED  BY <1>2, <2>2, <2>3, <2>4
<1>3. n \in S
  <2> HIDE DEF S
  <2>1. \A i \in 0 .. n - 1 : i \in S => i + 1 \in S
    BY <1>2
  <2>2. n \in 0 .. n
    OBVIOUS
  <2> QED  BY <1>1, <2>1, <2>2, UpTo, Zenon
<1> QED  BY <1>3

LEMMA SeenPairs ==
  ASSUME NEW all \in Seq(Pair), NEW seen,
         seen = IF all # <<>> /\ Last(all).value = <<>> THEN Front(all) ELSE all
  PROVE  /\ SeenLen(all) \in Nat /\ SeenLen(all) <= Len(all) /\ DOMAIN seen = 1 .. SeenLen(all)
         /\ \A i \in 1 .. SeenLen(all) : seen[i] = all[i]
<1>1. Len(all) \in Nat /\ DOMAIN all = 1 .. Len(all) /\ (all # <<>> => Len(all) # 0)
  OBVIOUS
<1>2. Last(all) = all[Len(all)]
  BY DEF Last
<1>3. CASE all # <<>> /\ all[Len(all)].value = <<>>
  <2>1. SeenLen(all) = Len(all) - 1 /\ seen = SubSeq(all, 1, Len(all) - 1)
    BY <1>2, <1>3 DEF SeenLen, Front
  <2>2. \A i \in 1 .. Len(all) - 1 : all[i] \in Pair
    BY <1>1
  <2>3. 1 \in Int /\ Len(all) - 1 \in Int
    BY <1>1
  <2>4. /\ SubSeq(all, 1, Len(all) - 1) \in Seq(Pair)
        /\ Len(SubSeq(all, 1, Len(all) - 1)) = IF 1 <= Len(all) - 1 THEN (Len(all) - 1) - 1 + 1 ELSE 0
        /\ \A i \in 1 .. (Len(all) - 1) - 1 + 1 : SubSeq(all, 1, Len(all) - 1)[i] = all[1 + i - 1]
    BY <2>2, <2>3, SubSeqProperties
  <2>5. (Len(all) - 1) - 1 + 1 = Len(all) - 1 /\ Len(all) - 1 \in Nat /\ \A i \in 1 .. Len(all) - 1 : 1 + i - 1 = i
    BY <1>1, <1>3
  <2> HIDE DEF Front
  <2>6. Len(seen) = Len(all) - 1 /\ \A i \in 1 .. Len(all) - 1 : seen[i] = all[i]
    <3> DEFINE d == Len(all) - 1
    <3>1. /\ d \in Nat /\ seen = SubSeq(all, 1, d) /\ Len(SubSeq(all, 1, d)) = IF 1 <= d THEN d - 1 + 1 ELSE 0
          /\ \A i \in 1 .. d - 1 + 1 : SubSeq(all, 1, d)[i] = all[1 + i - 1]
      BY <2>1, <2>4, <2>5
    <3> HIDE DEF d
    <3>2. d - 1 + 1 = d /\ (~(1 <= d) => d = 0) /\ \A i \in 1 .. d : 1 + i - 1 = i
      BY <3>1
    <3>3. Len(seen) = d
      BY <3>1, <3>2
    <3>4. \A i \in 1 .. d : seen[i] = all[i]
      BY <3>1, <3>2
    <3> QED  BY <3>3, <3>4 DEF d
  <2>7. DOMAIN seen = 1 .. Len(seen)
    BY <2>1, <2>4
  <2>8. Len(all) - 1 <= Len(all)
    BY <1>1
  <2> QED  BY <2>1, <2>5, <2>6, <2>7, <2>8
<1>4. CASE ~(all # <<>> /\ all[Len(all)].value = <<>>)
  BY <1>1, <1>2, <1>4 DEF SeenLen
<1> QED  BY <1>3, <1>4

LEMMA FirstsQuery ==
  ASSUME NEW r, NEW all \in Seq(Pair), all = Options(r)
  PROVE  /\ NamesGiven(r) <=> Given(all, SeenLen(all))
         /\ \A get : Firsts(all, get, SeenLen(all)) => get = Query(r)
<1> DEFINE seen == IF all # <<>> /\ Last(all).value = <<>> THEN Front(all) ELSE all
           n == SeenLen(all)
           First(name, i) == /\ i \in DOMAIN seen /\ Meant(seen[i].name) = name
                             /\ \A j \in 1 .. i - 1 : Meant(seen[j].name) # name
           FirstOf(name) == CHOOSE i : First(name, i)
           FirstIn(name) == CHOOSE i \in DOMAIN seen :
             /\ Meant(seen[i].name) = name
             /\ \A j \in 1 .. i - 1 : Meant(seen[j].name) # name
           names == {Meant(seen[i].name) : i \in DOMAIN seen}
<1>1. n \in Nat /\ DOMAIN seen = 1 .. n /\ \A i \in 1 .. n : seen[i] = all[i]
  BY SeenPairs
<1>2. Query(r) = [name \in names |-> Meant(seen[FirstIn(name)].value)]
  BY DEF Query, Options
<1> HIDE DEF seen, n
<1>3. names = {Meant(all[i].name) : i \in 1 .. n}
  BY <1>1
<1>4. NamesGiven(r) <=> Given(all, n)
  <2>1. DOMAIN Query(r) = names
    BY <1>2
  <2> HIDE DEF names
  <2>2. NamesGiven(r) <=> <<>> \notin names
    BY <2>1 DEF NamesGiven
  <2> QED  BY <1>3, <2>2 DEF Given
<1>5. ASSUME NEW get, Firsts(all, get, n) PROVE get = Query(r)
  <2>1. ASSUME NEW name \in names PROVE get[name] = Meant(seen[FirstIn(name)].value)
    <3> DEFINE c == FirstIn(name)
    <3>1. \E i \in DOMAIN seen : /\ Meant(seen[i].name) = name
                                 /\ \A j \in 1 .. i - 1 : Meant(seen[j].name) # name
      <4> DEFINE T == {i \in 1 .. n : Meant(seen[i].name) = name}
      <4>1. PICK k \in 1 .. n : k \in T
        BY <1>1
      <4>2. PICK i \in 1 .. n : i \in T /\ \A j \in 1 .. i - 1 : j \notin T
        <5> HIDE DEF T
        <5> QED  BY <1>1, <4>1, LeastIndex
      <4>3. \A j \in 1 .. i - 1 : j \in 1 .. n
        BY <1>1
      <4>4. \A j \in 1 .. i - 1 : Meant(seen[j].name) # name
        BY <4>2, <4>3
      <4> QED  BY <1>1, <4>2, <4>4
    <3>2. /\ c \in DOMAIN seen /\ Meant(seen[c].name) = name
          /\ \A j \in 1 .. c - 1 : Meant(seen[j].name) # name
      BY <3>1
    <3> HIDE DEF c
    <3>3. c \in 1 .. n /\ seen[c] = all[c]
      BY <1>1, <3>2
    <3>4. \A j \in 1 .. c - 1 : Meant(all[j].name) # Meant(all[c].name)
      <4>1. \A j \in 1 .. c - 1 : j \in 1 .. n
        BY <1>1, <3>3
      <4> QED  BY <1>1, <3>2, <3>3, <4>1
    <3>5. get[Meant(all[c].name)] = Meant(all[c].value)
      BY <1>5, <3>3, <3>4 DEF Firsts
    <3>6. get[name] = Meant(seen[c].value)
      BY <3>2, <3>3, <3>5
    <3> QED  BY <3>6 DEF c
  <2>2. get = [name \in DOMAIN get |-> get[name]] /\ DOMAIN get = names
    BY <1>3, <1>5 DEF Firsts
  <2> HIDE DEF names, FirstIn
  <2> QED  BY <1>2, <2>1, <2>2
<1> QED  BY <1>4, <1>5 DEF n

\* parse_urlencoded finds the pairs of a query string, or refuses it for a missing name.
LEMMA QueryParsed ==
  ASSUME m_raw \in Seq(Byte), m_get = <<>>, NEW all \in Seq(Pair), all # <<>>,
         NEW begin \in Nat, NEW end, end = begin + Len(Joined(Pairs(all))), end <= Len(m_raw),
         \A k \in 1 .. Len(Joined(Pairs(all))) : m_raw[begin + k] = Joined(Pairs(all))[k]
  PROVE  IF Given(all, SeenLen(all))
         THEN \E get : IsOpen(parse_urlencoded(begin, end), get) /\ Firsts(all, get, SeenLen(all))
         ELSE IsRefused(parse_urlencoded(begin, end))
<1> DEFINE text == Joined(Pairs(all))
           n == Len(all)
           f == Scan(begin, end)
           t(i) == PairText(all[i])
<1>1. text \in Seq(QueryByte) /\ Len(text) \in Nat /\ n \in Nat /\ \E at : PairsAt(all, text, at)
  BY QueryBytes
<1>2. PICK at \in [1 .. n + 1 -> Nat] :
              /\ at[1] = 0 /\ at[n + 1] = Len(text) + 1
              /\ \A i \in 1 .. n :
                   /\ at[i + 1] = at[i] + Len(t(i)) + 1
                   /\ at[i + 1] <= Len(text) + 1
                   /\ \A k \in 1 .. Len(t(i)) : text[at[i] + k] = t(i)[k]
                   /\ i # n => text[at[i + 1]] = "&"
  BY <1>1 DEF PairsAt
<1>3. end \in Nat /\ begin <= end /\ end = begin + Len(text) /\ \A k \in 1 .. Len(text) : m_raw[begin + k] = text[k]
  BY <1>1
<1>4. n # 0 /\ \A i \in 1 .. n : all[i] \in Pair /\ t(i) \in Seq(QueryByte) /\ Len(t(i)) \in Nat
  BY PairTextType
<1> HIDE DEF text, n, t
<1>5. Scanned(f, begin, end) /\ f[begin] = Found(TRUE, m_get, begin, 0, 0)
  BY <1>3, ScanSteps DEF Scanned
<1> HIDE DEF f
<1>6. AtName(f[begin], <<>>, begin)
  BY <1>5 DEF Open, AtName
<1>7. ASSUME NEW i \in 1 .. n
      PROVE  /\ at[i] \in Nat /\ at[i] + Len(t(i)) <= Len(text)
             /\ i # n => at[i] + Len(t(i)) # Len(text) /\ text[at[i] + Len(t(i)) + 1] = "&"
             /\ i = n => at[i] + Len(t(i)) = Len(text)
             /\ at[i + 1] = at[i] + Len(t(i)) + 1
  <2>1. i \in 1 .. n + 1 /\ i + 1 \in 1 .. n + 1
    BY <1>1
  <2>2. /\ at[i] \in Nat /\ at[i + 1] = at[i] + Len(t(i)) + 1 /\ at[i + 1] <= Len(text) + 1
        /\ i # n => text[at[i + 1]] = "&"
        /\ i = n => at[i + 1] = Len(text) + 1
    BY <1>2, <2>1
  <2>3. Len(t(i)) \in Nat /\ Len(text) \in Nat
    BY <1>1, <1>4
  <2> DEFINE l == Len(t(i))
             w == Len(text)
             a == at[i]
  <2>4. a \in Nat /\ l \in Nat /\ w \in Nat /\ a + l + 1 <= w + 1
    BY <2>2, <2>3
  <2> HIDE DEF l, w, a
  <2>5. a + l <= w /\ (a + l + 1 = w + 1 => a + l = w)
    BY <2>4
  <2>6. i # n => a + l # w
    <3> SUFFICES ASSUME i # n, a + l = w PROVE FALSE
      OBVIOUS
    <3>1. i + 1 \in 1 .. n /\ i + 1 \in 1 .. n + 1
      BY <1>1
    <3>2. /\ at[i + 1] = a + l + 1 /\ at[i + 1 + 1] = at[i + 1] + Len(t(i + 1)) + 1
          /\ at[i + 1 + 1] <= w + 1 /\ Len(t(i + 1)) \in Nat
      BY <1>2, <1>4, <2>2, <3>1 DEF a, l, w
    <3> DEFINE x == Len(t(i + 1))
    <3>3. x \in Nat /\ (a + l + 1) + x + 1 <= w + 1
      BY <3>2
    <3> HIDE DEF x
    <3> QED  BY <2>4, <3>3
  <2> QED  BY <2>2, <2>5, <2>6 DEF l, w, a
<1> DEFINE pos(i) == begin + at[i]
<1>8. ASSUME NEW i \in 1 .. n
      PROVE  /\ pos(i) \in Nat /\ begin <= pos(i) /\ pos(i) + Len(t(i)) <= end
             /\ i # n => /\ pos(i) + Len(t(i)) # end /\ m_raw[pos(i) + Len(t(i)) + 1] = "&"
                         /\ pos(i + 1) = pos(i) + Len(t(i)) + 1
             /\ i = n => pos(i) + Len(t(i)) = end
             /\ \A k \in 1 .. Len(t(i)) : m_raw[pos(i) + k] = t(i)[k]
  <2> DEFINE l == Len(t(i))
             w == Len(text)
             a == at[i]
  <2>1. /\ a \in Nat /\ l \in Nat /\ w \in Nat /\ a + l <= w
        /\ i # n => a + l # w /\ text[a + l + 1] = "&" /\ at[i + 1] = a + l + 1
        /\ i = n => a + l = w
        /\ end = begin + w
        /\ \A k \in 1 .. l : text[a + k] = t(i)[k]
    BY <1>1, <1>2, <1>3, <1>4, <1>7
  <2> HIDE DEF l, w, a
  <2>2. begin + a \in Nat /\ begin <= begin + a /\ (begin + a) + l <= begin + w
    BY <2>1
  <2>3. a + l # w => (begin + a) + l # begin + w /\ a + l + 1 \in 1 .. w
    BY <2>1
  <2>4. begin + (a + l + 1) = (begin + a) + l + 1
    BY <2>1
  <2>5. a + l = w => (begin + a) + l = begin + w
    BY <2>1
  <2>6. \A k \in 1 .. l : a + k \in 1 .. w /\ begin + (a + k) = (begin + a) + k
    BY <2>1
  <2>7. \A k \in 1 .. l : m_raw[(begin + a) + k] = t(i)[k]
    <3> TAKE k \in 1 .. l
    <3>1. m_raw[begin + (a + k)] = text[a + k]
      BY <1>3, <2>6 DEF w
    <3> QED  BY <2>1, <2>6, <3>1
  <2>8. i # n => m_raw[(begin + a) + l + 1] = "&"
    <3> SUFFICES ASSUME i # n PROVE m_raw[(begin + a) + l + 1] = "&"
      OBVIOUS
    <3>1. m_raw[begin + (a + l + 1)] = text[a + l + 1]
      BY <1>3, <2>1, <2>3 DEF w
    <3> QED  BY <2>1, <2>4, <3>1
  <2>9. /\ begin + a \in Nat /\ begin <= begin + a /\ (begin + a) + l <= end
        /\ i # n => (begin + a) + l # end /\ begin + at[i + 1] = (begin + a) + l + 1
        /\ i = n => (begin + a) + l = end
    BY <2>1, <2>2, <2>3, <2>4, <2>5
  <2> QED  BY <2>7, <2>8, <2>9 DEF l, a
<1> DEFINE Here(i) == \/ Given(all, i)
                         /\ \E get : AtName(f[pos(i + 1)], get, pos(i + 1)) /\ Firsts(all, get, i)
                      \/ ~Given(all, i) /\ IsRefused(f[pos(i + 1)])
           S == {i \in 0 .. n - 1 : Here(i)}
<1>9. 0 \in S
  <2>1. pos(0 + 1) = begin /\ 0 \in 0 .. n - 1
    BY <1>1, <1>2, <1>4
  <2>2. AtName(f[pos(0 + 1)], <<>>, pos(0 + 1))
    <3> HIDE DEF pos
    <3> QED  BY <1>6, <2>1
  <2>3. Firsts(all, <<>>, 0) /\ Given(all, 0)
    BY FirstsNone
  <2> HIDE DEF pos
  <2> QED  BY <2>1, <2>2, <2>3
<1>10. ASSUME NEW m \in Nat
       PROVE  Given(all, m + 1) <=> Given(all, m) /\ Meant(all[m + 1].name) # <<>>
  <2>1. \A i : i \in 1 .. m + 1 <=> i \in 1 .. m \/ i = m + 1
    OBVIOUS
  <2> QED  BY <2>1 DEF Given
<1>11. ASSUME NEW m \in 0 .. n - 1, Given(all, m), NEW get,
              AtName(f[pos(m + 1)], get, pos(m + 1)), Firsts(all, get, m)
       PROVE  /\ Firsts(all, Added(get, all[m + 1]), m + 1)
              /\ m + 1 # n =>
                   IF Meant(all[m + 1].name) = <<>> THEN IsRefused(f[pos(m + 1 + 1)])
                   ELSE AtName(f[pos(m + 1 + 1)], Added(get, all[m + 1]), pos(m + 1 + 1))
              /\ m + 1 = n =>
                   IF Spelled(all[m + 1].value) = <<>> THEN IsOpen(f[end], get)
                   ELSE IF Meant(all[m + 1].name) = <<>> THEN IsRefused(f[end])
                   ELSE IsOpen(f[end], Added(get, all[m + 1]))
  <2> DEFINE i == m + 1
             p == all[i]
             a == pos(i)
             last == PairEnd(a, p)
             kept == Added(get, p)
  <2>1. i \in 1 .. n /\ m \in Nat
    BY <1>1
  <2>2. Firsts(all, Added(get, all[m + 1]), m + 1)
    BY <1>11, <2>1, KeepFirsts DEF Added
  <2> HIDE DEF i, pos
  <2>3. /\ a \in Nat /\ begin <= a /\ last <= end
        /\ i # n => last # end /\ m_raw[last + 1] = "&" /\ pos(i + 1) = last + 1
        /\ i = n => last = end
        /\ TextAt(a, PairText(p))
    BY <1>8, <2>1 DEF t, TextAt, PairEnd
  <2>4. p \in Pair /\ AtName(f[a], get, a)
    BY <1>4, <1>11, <2>1 DEF i
  <2> HIDE DEF p, a, kept, last
  <2>5. /\ last # end /\ m_raw[last + 1] = "&" =>
              IF Meant(p.name) = <<>> THEN IsRefused(f[last + 1]) ELSE AtName(f[last + 1], kept, last + 1)
        /\ last = end =>
              IF Spelled(p.value) = <<>> THEN IsOpen(f[end], get)
              ELSE IF Meant(p.name) = <<>> THEN IsRefused(f[end])
              ELSE IsOpen(f[end], kept)
    <3>1. m_raw \in Seq(Byte) /\ begin \in Nat /\ end \in Nat /\ end <= Len(m_raw) /\ Scanned(f, begin, end)
      BY <1>3, <1>5
    <3> QED  BY <2>3, <2>4, <3>1, OnePair DEF last, kept
  <2>6. i # n => IF Meant(p.name) = <<>> THEN IsRefused(f[pos(i + 1)]) ELSE AtName(f[pos(i + 1)], kept, pos(i + 1))
    BY <2>3, <2>5
  <2>7. i = n => IF Spelled(p.value) = <<>> THEN IsOpen(f[end], get)
              ELSE IF Meant(p.name) = <<>> THEN IsRefused(f[end])
              ELSE IsOpen(f[end], kept)
    BY <2>3, <2>5
  <2> QED  BY <2>2, <2>6, <2>7 DEF i, p, kept
<1>12. ASSUME NEW m \in 0 .. n - 1, ~Given(all, m), IsRefused(f[pos(m + 1)])
       PROVE  /\ m + 1 # n => IsRefused(f[pos(m + 1 + 1)])
              /\ IsRefused(f[end])
  <2> DEFINE i == m + 1
             a == pos(i)
             l == Len(t(i))
  <2>1. i \in 1 .. n
    BY <1>1
  <2> HIDE DEF i
  <2>2. /\ a \in Nat /\ l \in Nat /\ begin <= a /\ a + l <= end
        /\ i # n => a + l # end /\ pos(i + 1) = a + l + 1
    BY <1>4, <1>8, <2>1
  <2>3. IsRefused(f[a])
    BY <1>12 DEF i
  <2> HIDE DEF a, l
  <2>4. a \in begin .. end /\ end \in a .. end
    BY <1>3, <2>2
  <2>5. IsRefused(f[end])
    BY <1>3, <1>5, <2>3, <2>4, RefusedToEnd
  <2>6. ASSUME i # n PROVE IsRefused(f[pos(i + 1)])
    <3>1. a + l + 1 \in a .. end
      BY <1>3, <2>2, <2>6
    <3>2. pos(i + 1) \in a .. end
      BY <2>2, <2>6, <3>1
    <3> HIDE DEF pos
    <3> QED  BY <1>3, <1>5, <2>3, <2>4, <3>2, RefusedToEnd
  <2> QED  BY <2>5, <2>6 DEF i
<1>13. ASSUME NEW m \in 0 .. n - 1 - 1, m \in S PROVE m + 1 \in S
  <2>1. m \in Nat /\ m \in 0 .. n - 1 /\ m + 1 \in 0 .. n - 1 /\ m + 1 # n
    BY <1>1
  <2>2. Given(all, m + 1) <=> Given(all, m) /\ Meant(all[m + 1].name) # <<>>
    BY <1>10, <2>1
  <2>3. ASSUME Given(all, m), NEW get, AtName(f[pos(m + 1)], get, pos(m + 1)), Firsts(all, get, m)
        PROVE  Here(m + 1)
    <3> DEFINE kept == Added(get, all[m + 1])
    <3> HIDE DEF kept, pos
    <3>1. /\ Firsts(all, kept, m + 1)
          /\ IF Meant(all[m + 1].name) = <<>>
             THEN IsRefused(f[pos(m + 1 + 1)]) ELSE AtName(f[pos(m + 1 + 1)], kept, pos(m + 1 + 1))
      BY <1>11, <2>1, <2>3 DEF kept
    <3> QED  BY <2>2, <2>3, <3>1
  <2>4. ASSUME ~Given(all, m), IsRefused(f[pos(m + 1)])
        PROVE  Here(m + 1)
    <3> HIDE DEF pos
    <3>1. IsRefused(f[pos(m + 1 + 1)])
      BY <1>12, <2>1, <2>4
    <3> QED  BY <2>2, <2>4, <3>1
  <2>5. Here(m)
    BY <1>13
  <2> HIDE DEF pos
  <2>6. Here(m + 1)
    <3>1. CASE Given(all, m) /\ \E get : AtName(f[pos(m + 1)], get, pos(m + 1)) /\ Firsts(all, get, m)
      <4> HIDE DEF Here
      <4> QED  BY <2>3, <3>1
    <3>2. CASE ~Given(all, m) /\ IsRefused(f[pos(m + 1)])
      <4> HIDE DEF Here
      <4> QED  BY <2>4, <3>2
    <3> QED  BY <2>5, <3>1, <3>2
  <2> HIDE DEF Here
  <2> QED  BY <2>1, <2>6
<1>14. Here(n - 1)
  <2>1. n - 1 \in Nat /\ n - 1 \in 0 .. n - 1
    BY <1>1, <1>4
  <2> HIDE DEF S
  <2>2. n - 1 \in S
    <3>1. \A i \in 0 .. n - 1 - 1 : i \in S => i + 1 \in S
      BY <1>13
    <3> QED  BY <1>9, <2>1, <3>1, UpTo, Zenon
  <2> QED  BY <2>2 DEF S
<1> DEFINE m == n - 1
<1>15. m \in 0 .. n - 1 /\ m \in Nat /\ m + 1 = n /\ n - 1 = m
  BY <1>1, <1>4
<1>16. /\ SeenLen(all) = IF all[n].value = <<>> THEN m ELSE n
       /\ Spelled(all[n].value) = <<>> <=> all[n].value = <<>>
  <2>1. n \in 1 .. n
    BY <1>1, <1>4
  <2>2. all[n].value \in Seq(DOMAIN Spell)
    BY <1>4, <2>1 DEF Pair
  <2>3. Spelled(all[n].value) = <<>> <=> all[n].value = <<>>
    BY <2>2, NothingSpelled
  <2> QED  BY <2>3 DEF SeenLen, n
<1>17. parse_urlencoded(begin, end) = f[end]
  BY DEF parse_urlencoded, f
<1> HIDE DEF m, pos
<1>18. Given(all, n) <=> Given(all, m) /\ Meant(all[n].name) # <<>>
  BY <1>10, <1>15
<1>19. ASSUME Given(all, m), NEW get, AtName(f[pos(n)], get, pos(n)), Firsts(all, get, m)
       PROVE  \/ Given(all, SeenLen(all))
                 /\ \E g : IsOpen(f[end], g) /\ Firsts(all, g, SeenLen(all))
              \/ ~Given(all, SeenLen(all)) /\ IsRefused(f[end])
  <2> DEFINE kept == Added(get, all[n])
  <2> HIDE DEF kept
  <2>1. /\ Firsts(all, kept, n)
        /\ IF Spelled(all[n].value) = <<>> THEN IsOpen(f[end], get)
           ELSE IF Meant(all[n].name) = <<>> THEN IsRefused(f[end])
           ELSE IsOpen(f[end], kept)
    BY <1>11, <1>15, <1>19 DEF kept
  <2>2. CASE all[n].value = <<>>
    <3>1. SeenLen(all) = m
      BY <1>16, <2>2
    <3>2. IsOpen(f[end], get)
      BY <1>16, <2>1, <2>2
    <3> QED  BY <1>19, <3>1, <3>2
  <2>3. CASE all[n].value # <<>>
    <3>1. SeenLen(all) = n /\ Spelled(all[n].value) # <<>>
      BY <1>16, <2>3
    <3> QED  BY <1>18, <1>19, <2>1, <3>1
  <2> QED  BY <2>2, <2>3
<1>20. ASSUME ~Given(all, m), IsRefused(f[pos(n)])
       PROVE  ~Given(all, SeenLen(all)) /\ IsRefused(f[end])
  <2>1. IsRefused(f[end])
    BY <1>12, <1>15, <1>20
  <2>2. ~Given(all, SeenLen(all))
    <3>1. SeenLen(all) \in {m, n}
      BY <1>16
    <3> QED  BY <1>18, <1>20, <3>1
  <2> QED  BY <2>1, <2>2
<1>21. \/ Given(all, m) /\ \E get : AtName(f[pos(n)], get, pos(n)) /\ Firsts(all, get, m)
       \/ ~Given(all, m) /\ IsRefused(f[pos(n)])
  <2>1. Here(m)
    BY <1>14 DEF m
  <2>2. m + 1 = n
    BY <1>15
  <2> QED  BY <2>1, <2>2
<1>22. \/ Given(all, SeenLen(all))
                 /\ \E g : IsOpen(f[end], g) /\ Firsts(all, g, SeenLen(all))
       \/ ~Given(all, SeenLen(all)) /\ IsRefused(f[end])
  <2>1. CASE Given(all, m) /\ \E get : AtName(f[pos(n)], get, pos(n)) /\ Firsts(all, get, m)
    BY <1>19, <2>1
  <2>2. CASE ~Given(all, m) /\ IsRefused(f[pos(n)])
    BY <1>20, <2>2
  <2> QED  BY <1>21, <2>1, <2>2
<1> QED  BY <1>17, <1>22

\* What parse_urlencoded makes of the query string of a request.
LEMMA OptionsParsed ==
  ASSUME m_raw \in Seq(Byte), m_get = <<>>, NEW r, Options(r) \in Seq(Pair), Options(r) # <<>>,
         NEW begin \in Nat, NEW end, end = begin + Len(Joined(Pairs(Options(r)))), end <= Len(m_raw),
         TextAt(begin, Joined(Pairs(Options(r))))
  PROVE  /\ parse_urlencoded(begin, end).ok = TRUE \/ parse_urlencoded(begin, end).ok = FALSE
         /\ parse_urlencoded(begin, end).ok = TRUE <=> NamesGiven(r)
         /\ parse_urlencoded(begin, end).ok = TRUE => parse_urlencoded(begin, end).get = Query(r)
<1> DEFINE all == Options(r)
           parsed == parse_urlencoded(begin, end)
<1>1. all = Options(r) /\ all \in Seq(Pair) /\ all # <<>>
  OBVIOUS
<1> HIDE DEF all
<1>2. IF Given(all, SeenLen(all))
      THEN \E get : IsOpen(parsed, get) /\ Firsts(all, get, SeenLen(all))
      ELSE IsRefused(parsed)
  BY <1>1, QueryParsed DEF TextAt
<1> HIDE DEF parsed
<1>3. /\ NamesGiven(r) <=> Given(all, SeenLen(all))
      /\ \A get : Firsts(all, get, SeenLen(all)) => get = Query(r)
  BY <1>1, FirstsQuery
<1>4. CASE NamesGiven(r)
  <2>1. PICK get : IsOpen(parsed, get) /\ get = Query(r)
    BY <1>2, <1>3, <1>4
  <2>2. PICK start, size, value : parsed = Open(get, start, size, value)
    BY <2>1 DEF IsOpen
  <2>3. parsed.ok = TRUE /\ parsed.get = get
    BY <2>2 DEF Open, Found
  <2> QED  BY <1>4, <2>1, <2>3 DEF parsed
<1>5. CASE ~NamesGiven(r)
  <2>1. IsRefused(parsed)
    BY <1>2, <1>3, <1>5
  <2>2. PICK get, start, size, value : parsed = Refused(get, start, size, value)
    BY <2>1 DEF IsRefused
  <2>3. parsed.ok = FALSE
    BY <2>2 DEF Refused, Found
  <2> QED  BY <1>5, <2>3 DEF parsed
<1> QED  BY <1>4, <1>5

LEMMA NoOptions ==
  ASSUME NEW r, Options(r) = <<>>
  PROVE  NamesGiven(r) /\ Query(r) = <<>>
<1> DEFINE all == Options(r)
<1>1. all \in Seq(Pair) /\ SeenLen(all) = 0
  BY DEF SeenLen
<1> HIDE DEF all
<1>2. all = Options(r)
  BY DEF all
<1>3. Firsts(all, <<>>, 0) /\ Given(all, 0)
  BY FirstsNone
<1> QED  BY <1>1, <1>2, <1>3, FirstsQuery

\* A text within a text.
TextIn(whole, a, text) == \A k \in 1 .. Len(text) : whole[a + k] = text[k]
Extends(whole, text) == Len(text) <= Len(whole) /\ \A k \in 1 .. Len(text) : whole[k] = text[k]

LEMMA ConcatParts ==
  ASSUME NEW S, NEW s \in Seq(S), NEW t \in Seq(S)
  PROVE  /\ s \o t \in Seq(S) /\ Len(s \o t) = Len(s) + Len(t) /\ Len(s) \in Nat /\ Len(t) \in Nat
         /\ Extends(s \o t, s) /\ TextIn(s \o t, Len(s), t)
<1>1. /\ s \o t \in Seq(S) /\ Len(s) \in Nat /\ Len(t) \in Nat /\ Len(s \o t) = Len(s) + Len(t)
      /\ \A k \in 1 .. Len(s) : (s \o t)[k] = s[k]
      /\ \A k \in 1 .. Len(t) : (s \o t)[Len(s) + k] = t[k]
  BY Concat
<1>2. Len(s) <= Len(s \o t)
  BY <1>1
<1> QED  BY <1>1, <1>2 DEF Extends, TextIn

LEMMA ExtendsFurther ==
  ASSUME NEW u, NEW v, NEW w, Len(u) \in Nat, Len(v) \in Nat, Len(w) \in Nat, Extends(w, v), Extends(v, u)
  PROVE  Extends(w, u)
<1>1. \A k \in 1 .. Len(u) : k \in 1 .. Len(v)
  BY DEF Extends
<1>2. \A k \in 1 .. Len(u) : w[k] = u[k]
  BY <1>1 DEF Extends
<1>3. Len(u) <= Len(w)
  BY DEF Extends
<1> QED  BY <1>2, <1>3 DEF Extends

LEMMA TextStays ==
  ASSUME NEW v, NEW w, Len(v) \in Nat, Len(w) \in Nat, Extends(w, v),
         NEW a \in Nat, NEW text, Len(text) \in Nat, a + Len(text) <= Len(v), TextIn(v, a, text)
  PROVE  TextIn(w, a, text)
<1>1. \A k \in 1 .. Len(text) : a + k \in 1 .. Len(v)
  OBVIOUS
<1> QED  BY <1>1 DEF Extends, TextIn

-------------------------------------------------------------------------------
(* The bytes of a request *)

\* Where the parts of a request end: its method, its path, its query string (or
\* its path), the word HTTP, its headers with the empty line.
QueryText(r) == Joined(Pairs(Options(r)))
MethodEnd(r) == Len(r.method)
PathEnd(r) == MethodEnd(r) + 1 + Len(r.path)
QueryEnd(r) == IF r.options = <<>> THEN PathEnd(r) ELSE PathEnd(r) + 1 + Len(QueryText(r))
VersionEnd(r) == QueryEnd(r) + 2
HeaderEnd(r) == VersionEnd(r) + 2 + Len(Lines(r.headers)) + 2

LEMMA RequestParts ==
  ASSUME NEW r, IsRequest(r)
  PROVE  /\ r.method \in Seq(Byte) /\ Len(r.method) \in Nat /\ Len(r.method) # 0
         /\ \A k \in 1 .. Len(r.method) : r.method[k] # SP
         /\ r.path \in Seq(Byte) /\ Len(r.path) \in Nat /\ Len(r.path) # 0 /\ r.path # <<>>
         /\ \A k \in 1 .. Len(r.path) : r.path[k] \notin {SP, "?"}
         /\ r.body \in Seq(Byte) /\ Len(r.body) \in Nat
         /\ Options(r) \in Seq(Pair)
<1>1. STRING \ {SP} \subseteq Byte /\ STRING \ {SP, "?"} \subseteq Byte /\ STRING \subseteq Byte
  BY DEF Byte
<1>2. r.method \in Seq(STRING \ {SP}) \ {<<>>}
  BY DEF IsRequest
<1>3. r.path \in Seq(STRING \ {SP, "?"}) \ {<<>>}
  BY DEF IsRequest
<1>4. r.body \in Seq(STRING)
  BY DEF IsRequest
<1>5. r.method \in Seq(Byte) /\ r.path \in Seq(Byte) /\ r.body \in Seq(Byte)
  BY <1>1, <1>2, <1>3, <1>4, SeqWider
<1>6. \A S : \A s \in Seq(S) \ {<<>>} : Len(s) \in Nat /\ Len(s) # 0 /\ \A k \in 1 .. Len(s) : s[k] \in S
  OBVIOUS
<1>7. Len(r.method) \in Nat /\ Len(r.method) # 0 /\ \A k \in 1 .. Len(r.method) : r.method[k] # SP
  BY <1>2, <1>6
<1>8. Len(r.path) \in Nat /\ Len(r.path) # 0 /\ \A k \in 1 .. Len(r.path) : r.path[k] \notin {SP, "?"}
  BY <1>3, <1>6
<1>9. Options(r) \in Seq(Pair)
  <2>1. CASE r.options = <<>>
    BY <2>1 DEF Options
  <2>2. CASE r.options # <<>>
    BY <2>2 DEF Options, IsRequest, Pair
  <2> QED  BY <2>1, <2>2
<1>10. Len(r.body) \in Nat /\ r.path # <<>>
  BY <1>3, <1>4
<1> QED  BY <1>5, <1>7, <1>8, <1>9, <1>10

\* A header and the line it is written in.
LineOf(header, line) ==
  /\ Len(header) \in Nat /\ Len(header) # 0 /\ Len(line) = Len(header) + 2
  /\ \A k \in 1 .. Len(header) : line[k] \notin NewLine
  /\ line[1] # ":"
  /\ line[Len(header) + 1] = CR /\ line[Len(header) + 2] = LF

LEMMA LineTexts ==
  ASSUME NEW r, IsRequest(r), NEW segs, segs = [i \in DOMAIN r.headers |-> r.headers[i] \o <<CR, LF>>]
  PROVE  /\ segs \in Seq(Seq(Byte)) /\ Len(segs) \in Nat
         /\ \A i \in 1 .. Len(segs) : LineOf(r.headers[i], segs[i])
<1> DEFINE n == Len(r.headers)
<1>1. r.headers \in Seq(Seq(STRING \ NewLine) \ {<<>>})
  BY DEF IsRequest
<1>2. n \in Nat /\ DOMAIN r.headers = 1 .. n /\ \A i \in 1 .. n : r.headers[i] \in Seq(STRING \ NewLine) \ {<<>>}
  BY <1>1
<1>3. <<CR, LF>> \in Seq(Byte) /\ Len(<<CR, LF>>) = 2 /\ <<CR, LF>>[1] = CR /\ <<CR, LF>>[2] = LF
  <2>1. \A S : CR \in S /\ LF \in S => <<CR, LF>> \in Seq(S)
    OBVIOUS
  <2> QED  BY <2>1 DEF Byte
<1> HIDE DEF n
<1>4. ASSUME NEW i \in 1 .. n
      PROVE  segs[i] = r.headers[i] \o <<CR, LF>> /\ segs[i] \in Seq(Byte) /\ LineOf(r.headers[i], segs[i])
  <2> DEFINE h == r.headers[i]
             t == <<CR, LF>>
  <2>1. h \in Seq(STRING \ NewLine) \ {<<>>} /\ segs[i] = h \o t
    BY <1>2
  <2>2. STRING \ NewLine \subseteq Byte
    BY DEF Byte
  <2>3. t \in Seq(Byte) /\ Len(t) = 2 /\ t[1] = CR /\ t[2] = LF
    BY <1>3
  <2> HIDE DEF h, t
  <2>4. h \in Seq(Byte)
    BY <2>1, <2>2, SeqWider
  <2> DEFINE T == STRING \ NewLine
  <2>5. h \in Seq(T) /\ h # <<>> /\ \A x \in T : x \notin NewLine
    BY <2>1
  <2> HIDE DEF T
  <2>6. Len(h) \in Nat /\ Len(h) # 0 /\ \A k \in 1 .. Len(h) : h[k] \notin NewLine
    <3>1. Len(h) \in Nat /\ Len(h) # 0
      BY <2>5
    <3>2. \A k \in 1 .. Len(h) : h[k] \in T
      BY <2>5
    <3> QED  BY <2>5, <3>1, <3>2
  <2> DEFINE u == h \o t
  <2>7. /\ u \in Seq(Byte) /\ Len(u) = Len(h) + 2
        /\ \A k \in 1 .. Len(h) : u[k] = h[k]
        /\ \A k \in 1 .. 2 : u[Len(h) + k] = t[k]
    <3>1. u = h \o t
      OBVIOUS
    <3> HIDE DEF u
    <3>2. /\ u \in Seq(Byte) /\ Len(u) = Len(h) + Len(t)
          /\ \A k \in 1 .. Len(h) : u[k] = h[k]
          /\ \A k \in 1 .. Len(t) : u[Len(h) + k] = t[k]
      <4>1. t \in Seq(Byte)
        BY <2>3
      <4> QED  BY ONLY <2>4, <3>1, <4>1, Concat
    <3> QED  BY <2>3, <3>2
  <2>8. u[Len(h) + 1] = CR /\ u[Len(h) + 2] = LF
    BY <2>3, <2>7
  <2> HIDE DEF u
  <2>9. segs[i] = u
    BY <2>1 DEF u
  <2>10. segs[i] \in Seq(Byte) /\ Len(segs[i]) = Len(h) + 2 /\ segs[i][Len(h) + 1] = CR /\ segs[i][Len(h) + 2] = LF
    BY <2>7, <2>8, <2>9
  <2>11. \A k \in 1 .. Len(h) : segs[i][k] \notin NewLine
    BY <2>6, <2>7, <2>9
  <2>12. segs[i][1] # ":"
    <3>1. 1 \in 1 .. Len(h)
      BY <2>6
    <3>2. h[1] # ":"
      BY <1>2 DEF IsRequest, h
    <3> QED  BY <2>7, <2>9, <3>1, <3>2
  <2>13. LineOf(h, segs[i])
    BY <2>6, <2>10, <2>11, <2>12 DEF LineOf
  <2> QED  BY <2>1, <2>10, <2>13 DEF h, t
<1>5. segs \in Seq(Seq(Byte)) /\ Len(segs) = n
  <2>1. segs \in [1 .. n -> Seq(Byte)] 
    BY <1>2, <1>4
  <2> QED  BY <1>2, <2>1
<1> QED  BY <1>2, <1>4, <1>5

\* Where a line feed, a carriage return or a colon may be in the lines of the headers.
InLine(text, k) ==
  text[k] \in {CR, LF, ":"} => k # 1 /\ IF text[k] = LF THEN text[k - 1] = CR ELSE text[k - 1] \notin NewLine

LEMMA LinesShape ==
  ASSUME NEW r, IsRequest(r), NEW text, text = Lines(r.headers)
  PROVE  /\ text \in Seq(Byte) /\ Len(text) \in Nat
         /\ \A k \in 1 .. Len(text) : InLine(text, k)
         /\ Len(text) # 0 => text[Len(text)] = LF
<1> DEFINE segs == [i \in DOMAIN r.headers |-> r.headers[i] \o <<CR, LF>>]
           n == Len(segs)
           h(i) == Len(r.headers[i])
<1>1. /\ segs \in Seq(Seq(Byte)) /\ n \in Nat
      /\ \A i \in 1 .. n :
              /\ h(i) \in Nat /\ h(i) # 0 /\ Len(segs[i]) = h(i) + 2
              /\ \A k \in 1 .. h(i) : segs[i][k] \notin NewLine
              /\ segs[i][1] # ":"
              /\ segs[i][h(i) + 1] = CR /\ segs[i][h(i) + 2] = LF
  <2> DEFINE s == segs
  <2>1. s = segs
    OBVIOUS
  <2> HIDE DEF s
  <2>2. s \in Seq(Seq(Byte)) /\ Len(s) \in Nat /\ \A i \in 1 .. Len(s) : LineOf(r.headers[i], s[i])
    BY <2>1, LineTexts
  <2>3. \A i \in 1 .. Len(s) :
              /\ h(i) \in Nat /\ h(i) # 0 /\ Len(s[i]) = h(i) + 2
              /\ \A k \in 1 .. h(i) : s[i][k] \notin NewLine
              /\ s[i][1] # ":"
              /\ s[i][h(i) + 1] = CR /\ s[i][h(i) + 2] = LF
    BY <2>2 DEF LineOf
  <2> QED  BY <2>2, <2>3 DEF s
<1>2. text = FlattenSeq(segs)
  BY DEF Lines
<1> HIDE DEF segs, h
<1>3. text \in Seq(Byte) /\ Len(text) \in Nat
  BY <1>1, <1>2, EndsExist
<1>4. PICK e : Ends(segs, e)
  BY <1>1, EndsExist
<1> HIDE DEF n
<1>5. /\ e \in [0 .. n -> Nat] /\ e[0] = 0 /\ e[n] = Len(text)
      /\ \A i \in 0 .. n - 1 : /\ e[i + 1] = e[i] + Len(segs[i + 1]) 
                               /\ \A k \in 1 .. Len(segs[i + 1]) : text[e[i] + k] = segs[i + 1][k]
  BY <1>2, <1>4 DEF Ends, n
<1> DEFINE S == {i \in 0 .. n : /\ \A k \in 1 .. e[i] : InLine(text, k)
                                /\ e[i] # 0 => text[e[i]] = LF}
<1>6. 0 \in S
  BY <1>1, <1>5 DEF n
<1>7. ASSUME NEW i \in 0 .. n - 1, i \in S PROVE i + 1 \in S
  <2> DEFINE a == e[i]
             l == h(i + 1)
             s == segs[i + 1]
  <2>1. i + 1 \in 1 .. n /\ i \in 0 .. n /\ i + 1 \in 0 .. n
    BY <1>1 DEF n
  <2>2. a \in Nat
    BY <1>5, <2>1
  <2>3. /\ l \in Nat /\ l # 0 /\ Len(s) = l + 2 /\ s[1] # ":" /\ s[l + 1] = CR /\ s[l + 2] = LF
        /\ \A k \in 1 .. l : s[k] \notin NewLine
    BY <1>1, <2>1 DEF n
  <2>4. e[i + 1] = a + (l + 2) /\ \A k \in 1 .. l + 2 : text[a + k] = s[k]
    BY <1>5, <2>3
  <2> HIDE DEF a, l, s
  <2>5. \A k \in 1 .. l : text[a + k] \notin NewLine
    <3>1. \A k \in 1 .. l : k \in 1 .. l + 2
      BY <2>3
    <3> QED  BY <2>3, <2>4, <3>1
  <2>6. text[a + 1] # ":" /\ text[a + (l + 1)] = CR /\ text[a + (l + 2)] = LF
    <3>1. 1 \in 1 .. l + 2 /\ l + 1 \in 1 .. l + 2 /\ l + 2 \in 1 .. l + 2
      BY <2>3
    <3> QED  BY <2>3, <2>4, <3>1
  <2>7. ASSUME NEW m \in 1 .. l PROVE InLine(text, a + m)
    <3>1. text[a + m] \notin {CR, LF}
      BY <2>5 DEF NewLine
    <3>2. CASE m = 1
      BY <2>6, <3>1, <3>2 DEF InLine
    <3>3. CASE m # 1
      <4>1. m - 1 \in 1 .. l /\ a + (m - 1) = (a + m) - 1 /\ a + m # 1
        BY <2>2, <2>3, <3>3
      <4>2. text[(a + m) - 1] \notin NewLine
        BY <2>5, <4>1
      <4> QED  BY <3>1, <4>1, <4>2 DEF InLine
    <3> QED  BY <3>2, <3>3
  <2>8. InLine(text, a + (l + 1))
    <3>1. a + (l + 1) # 1 /\ (a + (l + 1)) - 1 = a + l /\ l \in 1 .. l
      BY <2>2, <2>3
    <3>2. text[(a + (l + 1)) - 1] \notin NewLine /\ CR # LF
      BY <2>5, <3>1 DEF CR, LF
    <3> QED  BY <2>6, <3>1, <3>2 DEF InLine
  <2>9. InLine(text, a + (l + 2))
    <3>1. a + (l + 2) # 1 /\ (a + (l + 2)) - 1 = a + (l + 1)
      BY <2>2, <2>3
    <3> QED  BY <2>6, <3>1 DEF InLine
  <2>10. ASSUME NEW k \in 1 .. a + (l + 2) PROVE InLine(text, k)
    <3>1. CASE k \in 1 .. a
      BY <1>7, <3>1 DEF a
    <3>2. CASE k \notin 1 .. a
      <4> DEFINE m == k - a
      <4>1. k = a + m /\ m \in 1 .. l + 2 /\ (m \in 1 .. l \/ m = l + 1 \/ m = l + 2)
        BY <2>2, <2>3, <3>2
      <4> HIDE DEF m
      <4> QED  BY <2>7, <2>8, <2>9, <4>1
    <3> QED  BY <3>1, <3>2
  <2> QED  BY <2>1, <2>4, <2>6, <2>10
<1>8. n \in S
  <2> HIDE DEF S
  <2>1. n \in Nat /\ n \in 0 .. n
    BY <1>1 DEF n
  <2>2. \A i \in 0 .. n - 1 : i \in S => i + 1 \in S
    BY <1>7
  <2> QED  BY <1>6, <2>1, <2>2, UpTo, Zenon
<1> QED  BY <1>3, <1>5, <1>8

\* What lies between the path and the word HTTP.
OptionsText(r) == IF r.options = <<>> THEN <<>> ELSE <<"?">> \o QueryText(r)

LEMMA OptionsTextParts ==
  ASSUME NEW r, IsRequest(r)
  PROVE  /\ QueryText(r) \in Seq(QueryByte) /\ Len(QueryText(r)) \in Nat
         /\ OptionsText(r) \in Seq(Byte) /\ Len(OptionsText(r)) \in Nat
         /\ r.options = <<>> => Len(OptionsText(r)) = 0
         /\ r.options # <<>> => /\ Len(OptionsText(r)) = 1 + Len(QueryText(r)) /\ OptionsText(r)[1] = "?"
                                /\ \A k \in 1 .. Len(QueryText(r)) : OptionsText(r)[1 + k] = QueryText(r)[k]
<1> DEFINE q == QueryText(r)
           o == OptionsText(r)
<1>1. q \in Seq(QueryByte) /\ Len(q) \in Nat
  BY RequestParts, QueryBytes DEF QueryText
<1> HIDE DEF q
<1>2. CASE r.options = <<>>
  <2>1. o = <<>>
    BY <1>2 DEF OptionsText
  <2> HIDE DEF o
  <2> QED  BY <1>1, <1>2, <2>1 DEF o, q
<1>3. CASE r.options # <<>>
  <2> DEFINE m == <<"?">>
  <2>1. o = m \o q
    BY <1>3 DEF OptionsText, q
  <2>2. m \in Seq(Byte) /\ Len(m) = 1 /\ m[1] = "?"
    <3>1. \A S : "?" \in S => <<"?">> \in Seq(S)
      OBVIOUS
    <3> QED  BY <3>1 DEF Byte
  <2> HIDE DEF o, m
  <2>3. q \in Seq(Byte)
    BY <1>1, ByteSets, SeqWider
  <2>4. /\ o \in Seq(Byte) /\ Len(o) = Len(m) + Len(q)
        /\ \A k \in 1 .. Len(m) : o[k] = m[k]
        /\ \A k \in 1 .. Len(q) : o[Len(m) + k] = q[k]
    <3>1. m \in Seq(Byte)
      BY <2>2
    <3> QED  BY ONLY <2>1, <2>3, <3>1, Concat
  <2>5. Len(o) = 1 + Len(q) /\ o[1] = "?" /\ \A k \in 1 .. Len(q) : o[1 + k] = q[k] 
    BY <2>2, <2>4
  <2>6. Len(o) \in Nat
    BY <2>4
  <2> QED  BY <1>1, <1>3, <2>4, <2>5, <2>6 DEF o, q
<1> QED  BY <1>2, <1>3

\* The parts of a request and where they are in it.
LEMMA WrittenParts ==
  ASSUME NEW r, IsRequest(r), NEW w, w = Written(r)
  PROVE  /\ w \in Seq(Byte) /\ Len(w) \in Nat
         /\ Len(w) = HeaderEnd(r) + Len(r.body)
         /\ HeaderEnd(r) = VersionEnd(r) + 2 + Len(Lines(r.headers)) + 2
         /\ QueryEnd(r) = PathEnd(r) + Len(OptionsText(r))
         /\ TextIn(w, 0, r.method) /\ TextIn(w, MethodEnd(r), <<SP>>)
         /\ TextIn(w, MethodEnd(r) + 1, r.path) /\ TextIn(w, PathEnd(r), OptionsText(r))
         /\ TextIn(w, QueryEnd(r), <<SP, "HTTP", CR, LF>>)
         /\ TextIn(w, VersionEnd(r) + 2, Lines(r.headers))
         /\ TextIn(w, VersionEnd(r) + 2 + Len(Lines(r.headers)), <<CR, LF>>)
         /\ TextIn(w, HeaderEnd(r), r.body)
<1> DEFINE space == <<SP>>
           http == <<SP, "HTTP", CR, LF>>
           empty == <<CR, LF>>
           lines == Lines(r.headers)
           o == OptionsText(r)
           mt == r.method
           pt == r.path
           bt == r.body
           w1 == mt \o space
           w2 == w1 \o pt
           w3 == w2 \o o
           w4 == w3 \o http
           w5 == w4 \o lines
           w6 == w5 \o empty
           w7 == w6 \o bt
<1>1. space \in Seq(Byte) /\ http \in Seq(Byte) /\ empty \in Seq(Byte) /\ Len(space) = 1 /\ Len(http) = 4 /\ Len(empty) = 2
  <2>1. \A S, a, b1, c, d : a \in S /\ b1 \in S /\ c \in S /\ d \in S =>
          <<a>> \in Seq(S) /\ <<a, b1>> \in Seq(S) /\ <<a, b1, c, d>> \in Seq(S)
    OBVIOUS
  <2>2. SP \in Byte /\ "HTTP" \in Byte /\ CR \in Byte /\ LF \in Byte
    BY DEF Byte
  <2> HIDE DEF space, http, empty
  <2>3. space \in Seq(Byte) /\ http \in Seq(Byte) /\ empty \in Seq(Byte)
    BY <2>1, <2>2 DEF space, http, empty
  <2>4. Len(space) = 1 /\ Len(http) = 4 /\ Len(empty) = 2
    BY DEF space, http, empty
  <2> QED  BY <2>3, <2>4
<1>2. /\ mt \in Seq(Byte) /\ pt \in Seq(Byte) /\ bt \in Seq(Byte) /\ o \in Seq(Byte) /\ lines \in Seq(Byte)
      /\ Len(mt) \in Nat /\ Len(pt) \in Nat /\ Len(bt) \in Nat /\ Len(o) \in Nat /\ Len(lines) \in Nat
  <2>1. lines \in Seq(Byte) /\ Len(lines) \in Nat
    <3> HIDE DEF lines
    <3>1. lines = Lines(r.headers)
      BY DEF lines
    <3> QED  BY <3>1, LinesShape
  <2> QED  BY <2>1, RequestParts, OptionsTextParts
<1>3. w = w7
  BY DEF Written, OptionsText, QueryText, Options
<1> HIDE DEF space, http, empty, lines, o, mt, pt, bt
<1>4. /\ w1 \in Seq(Byte) /\ Len(w1) = Len(mt) + 1 /\ Extends(w1, mt) /\ TextIn(w1, Len(mt), space)
  BY <1>1, <1>2, ConcatParts
<1> HIDE DEF w1
<1>5. /\ w2 \in Seq(Byte) /\ Len(w2) = Len(w1) + Len(pt) /\ Extends(w2, w1) /\ TextIn(w2, Len(w1), pt)
  BY <1>2, <1>4, ConcatParts
<1> HIDE DEF w2
<1>6. /\ w3 \in Seq(Byte) /\ Len(w3) = Len(w2) + Len(o) /\ Extends(w3, w2) /\ TextIn(w3, Len(w2), o)
  BY <1>2, <1>5, ConcatParts
<1> HIDE DEF w3
<1>7. /\ w4 \in Seq(Byte) /\ Len(w4) = Len(w3) + 4 /\ Extends(w4, w3) /\ TextIn(w4, Len(w3), http)
  <2>1. w3 \in Seq(Byte) /\ http \in Seq(Byte)
    BY <1>1, <1>6
  <2>2. /\ w4 \in Seq(Byte) /\ Len(w4) = Len(w3) + Len(http) /\ Extends(w4, w3) /\ TextIn(w4, Len(w3), http)
    BY <2>1, ConcatParts
  <2> QED  BY <1>1, <2>2
<1> HIDE DEF w4
<1>8. /\ w5 \in Seq(Byte) /\ Len(w5) = Len(w4) + Len(lines) /\ Extends(w5, w4) /\ TextIn(w5, Len(w4), lines)
  BY <1>2, <1>7, ConcatParts
<1> HIDE DEF w5
<1>9. /\ w6 \in Seq(Byte) /\ Len(w6) = Len(w5) + 2 /\ Extends(w6, w5) /\ TextIn(w6, Len(w5), empty)
  <2>1. w5 \in Seq(Byte) /\ empty \in Seq(Byte)
    BY <1>1, <1>8
  <2>2. /\ w6 \in Seq(Byte) /\ Len(w6) = Len(w5) + Len(empty) /\ Extends(w6, w5) /\ TextIn(w6, Len(w5), empty)
    BY <2>1, ConcatParts
  <2> QED  BY <1>1, <2>2
<1> HIDE DEF w6
<1>10. /\ w7 \in Seq(Byte) /\ Len(w7) = Len(w6) + Len(bt) /\ Extends(w7, w6) /\ TextIn(w7, Len(w6), bt)
  BY <1>2, <1>9, ConcatParts
<1> HIDE DEF w7
<1>11. /\ Len(w1) \in Nat /\ Len(w2) \in Nat /\ Len(w3) \in Nat /\ Len(w4) \in Nat
       /\ Len(w5) \in Nat /\ Len(w6) \in Nat /\ Len(w7) \in Nat
  BY <1>4, <1>5, <1>6, <1>7, <1>8, <1>9, <1>10
<1>12. Extends(w7, w5) /\ Extends(w7, w4) /\ Extends(w7, w3) /\ Extends(w7, w2) /\ Extends(w7, w1) /\ Extends(w7, mt)
  <2>1. Extends(w7, w5)
    BY <1>9, <1>10, <1>11, ExtendsFurther
  <2>2. Extends(w7, w4)
    BY <1>8, <1>11, <2>1, ExtendsFurther
  <2>3. Extends(w7, w3)
    BY <1>7, <1>11, <2>2, ExtendsFurther
  <2>4. Extends(w7, w2)
    BY <1>6, <1>11, <2>3, ExtendsFurther
  <2>5. Extends(w7, w1)
    BY <1>5, <1>11, <2>4, ExtendsFurther
  <2>6. Extends(w7, mt)
    BY <1>2, <1>4, <1>11, <2>5, ExtendsFurther
  <2> QED  BY <2>1, <2>2, <2>3, <2>4, <2>5, <2>6
<1>13. TextIn(w7, 0, mt)
  BY <1>12 DEF Extends, TextIn
<1>14. TextIn(w7, Len(mt), space)
  <2>1. Len(mt) \in Nat /\ Len(space) \in Nat /\ Len(mt) + Len(space) <= Len(w1)
    BY <1>1, <1>2, <1>4, <1>11, <1>12
  <2>2. Len(w7) \in Nat /\ Len(w1) \in Nat /\ Extends(w7, w1) /\ TextIn(w1, Len(mt), space)
    BY <1>4, <1>7, <1>9, <1>10, <1>11, <1>12
  <2> QED  BY <2>1, <2>2, TextStays
<1>15. TextIn(w7, Len(w1), pt)
  BY <1>2, <1>5, <1>11, <1>12, TextStays
<1>16. TextIn(w7, Len(w2), o)
  BY <1>2, <1>6, <1>11, <1>12, TextStays
<1>17. TextIn(w7, Len(w3), http)
  <2>1. Len(w3) \in Nat /\ Len(http) \in Nat /\ Len(w3) + Len(http) <= Len(w4)
    BY <1>1, <1>7, <1>11, <1>12
  <2>2. Len(w7) \in Nat /\ Len(w4) \in Nat /\ Extends(w7, w4) /\ TextIn(w4, Len(w3), http)
    BY <1>4, <1>7, <1>9, <1>10, <1>11, <1>12
  <2> QED  BY <2>1, <2>2, TextStays
<1>18. TextIn(w7, Len(w4), lines)
  BY <1>2, <1>8, <1>11, <1>12, TextStays
<1>19. TextIn(w7, Len(w5), empty)
  <2>1. Len(w5) \in Nat /\ Len(empty) \in Nat /\ Len(w5) + Len(empty) <= Len(w6)
    BY <1>1, <1>9, <1>10, <1>11
  <2>2. Len(w7) \in Nat /\ Len(w6) \in Nat /\ Extends(w7, w6) /\ TextIn(w6, Len(w5), empty)
    BY <1>4, <1>7, <1>9, <1>10, <1>11, <1>12
  <2> QED  BY <2>1, <2>2, TextStays
<1>20. MethodEnd(r) = Len(mt) /\ PathEnd(r) = Len(w2) /\ Len(w1) = MethodEnd(r) + 1
  BY <1>4, <1>5 DEF MethodEnd, PathEnd, mt, pt
<1>21. QueryEnd(r) = PathEnd(r) + Len(o)
  <2>1. CASE r.options = <<>>
    <3>1. QueryEnd(r) = PathEnd(r) /\ Len(o) = 0
      BY <2>1, OptionsTextParts DEF QueryEnd, o
    <3> QED  BY <1>11, <1>20, <3>1
  <2>2. CASE r.options # <<>>
    <3>1. QueryEnd(r) = PathEnd(r) + 1 + Len(QueryText(r)) /\ Len(o) = 1 + Len(QueryText(r)) /\ Len(QueryText(r)) \in Nat
      BY <2>2, OptionsTextParts DEF QueryEnd, o
    <3>2. \A x, y \in Nat : x + 1 + y = x + (1 + y)
      OBVIOUS
    <3> QED  BY <1>11, <1>20, <3>1, <3>2
  <2> QED  BY <2>1, <2>2
<1>22. QueryEnd(r) = Len(w3)
  BY <1>6, <1>20, <1>21
<1>23. VersionEnd(r) + 2 = Len(w4)
  BY <1>7, <1>11, <1>22 DEF VersionEnd
<1>24. VersionEnd(r) + 2 + Len(lines) = Len(w5)
  BY <1>8, <1>23
<1>25. HeaderEnd(r) = Len(w6) /\ HeaderEnd(r) = VersionEnd(r) + 2 + Len(lines) + 2
  BY <1>9, <1>24 DEF HeaderEnd, lines
<1>26. Len(w) = HeaderEnd(r) + Len(bt) /\ TextIn(w, HeaderEnd(r), bt) /\ w \in Seq(Byte) /\ Len(w) \in Nat
  BY <1>3, <1>10, <1>11, <1>25
<1> QED  BY <1>3, <1>13, <1>14, <1>15, <1>16, <1>17, <1>18, <1>19, <1>20, <1>21, <1>22, <1>23, <1>24, <1>25, <1>26
            DEF mt, space, pt, o, http, lines, empty, bt

\* The bytes of a request that end a part of it, and those within the parts.
LEMMA WrittenBytes ==
  ASSUME NEW r, IsRequest(r), NEW w, w = Written(r)
  PROVE  /\ MethodEnd(r) \in Nat /\ MethodEnd(r) # 0 /\ PathEnd(r) \in Nat /\ MethodEnd(r) + 2 <= PathEnd(r)
         /\ QueryEnd(r) \in Nat /\ PathEnd(r) <= QueryEnd(r)
         /\ VersionEnd(r) = QueryEnd(r) + 2 /\ VersionEnd(r) \in Nat
         /\ HeaderEnd(r) \in Nat /\ VersionEnd(r) + 4 <= HeaderEnd(r) /\ HeaderEnd(r) <= Len(w)
         /\ \A k \in 1 .. MethodEnd(r) : w[k] # SP
         /\ w[MethodEnd(r) + 1] = SP
         /\ \A k \in MethodEnd(r) + 2 .. PathEnd(r) : w[k] \notin {SP, "?"}
         /\ r.options = <<>> => QueryEnd(r) = PathEnd(r)
         /\ r.options # <<>> => w[PathEnd(r) + 1] = "?" /\ QueryEnd(r) = PathEnd(r) + 1 + Len(QueryText(r))
         /\ r.options # <<>> => \A k \in PathEnd(r) + 2 .. QueryEnd(r) : w[k] \notin {SP, CR, LF}
         /\ w[QueryEnd(r) + 1] = SP /\ w[QueryEnd(r) + 2] = "HTTP" /\ w[VersionEnd(r) + 1] = CR /\ w[VersionEnd(r) + 2] = LF
<1> DEFINE m == MethodEnd(r)
           p == PathEnd(r)
           q == QueryEnd(r)
           v == VersionEnd(r)
<1>1. /\ Len(r.method) \in Nat /\ Len(r.method) # 0 /\ \A k \in 1 .. Len(r.method) : r.method[k] # SP
      /\ Len(r.path) \in Nat /\ Len(r.path) # 0 /\ \A k \in 1 .. Len(r.path) : r.path[k] \notin {SP, "?"}
      /\ Len(r.body) \in Nat
  BY RequestParts
<1>2. /\ QueryText(r) \in Seq(QueryByte) /\ Len(QueryText(r)) \in Nat /\ Len(OptionsText(r)) \in Nat
      /\ r.options = <<>> => Len(OptionsText(r)) = 0
      /\ r.options # <<>> => /\ Len(OptionsText(r)) = 1 + Len(QueryText(r)) /\ OptionsText(r)[1] = "?"
                             /\ \A k \in 1 .. Len(QueryText(r)) : OptionsText(r)[1 + k] = QueryText(r)[k]
  BY OptionsTextParts
<1>3. Len(Lines(r.headers)) \in Nat
  <2>1. \A text : text = Lines(r.headers) => Len(text) \in Nat
    BY LinesShape
  <2> QED  BY <2>1
<1>4. /\ Len(w) = HeaderEnd(r) + Len(r.body)
      /\ HeaderEnd(r) = v + 2 + Len(Lines(r.headers)) + 2
      /\ q = p + Len(OptionsText(r))
      /\ TextIn(w, 0, r.method) /\ TextIn(w, m, <<SP>>)
      /\ TextIn(w, m + 1, r.path) /\ TextIn(w, p, OptionsText(r))
      /\ TextIn(w, q, <<SP, "HTTP", CR, LF>>)
  BY WrittenParts
<1>5. m = Len(r.method) /\ p = m + 1 + Len(r.path) /\ v = q + 2
  BY DEF MethodEnd, PathEnd, VersionEnd
<1> HIDE DEF m, p, q, v
<1>6. m \in Nat /\ m # 0 /\ p \in Nat /\ m + 2 <= p
  <2> DEFINE x == Len(r.path)
  <2>1. x \in Nat /\ x # 0 /\ p = m + 1 + x /\ m \in Nat /\ m # 0
    BY <1>1, <1>5
  <2> HIDE DEF x
  <2> QED  BY ONLY <2>1
<1>7. q \in Nat /\ p <= q /\ v \in Nat
  <2> DEFINE x == Len(OptionsText(r))
  <2>1. x \in Nat /\ q = p + x /\ v = q + 2 /\ p \in Nat
    BY <1>2, <1>4, <1>5, <1>6
  <2> HIDE DEF x
  <2> QED  BY ONLY <2>1
<1>8. HeaderEnd(r) \in Nat /\ v + 4 <= HeaderEnd(r) /\ HeaderEnd(r) <= Len(w)
  <2> DEFINE l == Len(Lines(r.headers))
             h == HeaderEnd(r)
             d == Len(r.body)
  <2>1. l \in Nat /\ d \in Nat /\ h = v + 2 + l + 2 /\ Len(w) = h + d
    BY <1>1, <1>3, <1>4
  <2> HIDE DEF l, h, d
  <2>2. h \in Nat /\ v + 4 <= h /\ h <= h + d
    BY <1>7, <2>1
  <2> QED  BY <2>1, <2>2 DEF h
<1>9. \A k \in 1 .. m : w[k] # SP
  <2>1. \A k \in 1 .. m : w[0 + k] = r.method[k]
    BY <1>4, <1>5 DEF TextIn
  <2>2. \A k \in 1 .. m : 0 + k = k
    BY <1>6
  <2> QED  BY <1>1, <1>5, <2>1, <2>2
<1>10. w[m + 1] = SP
  BY <1>4 DEF TextIn
<1>11. \A k \in m + 2 .. p : w[k] \notin {SP, "?"}
  <2> TAKE k \in m + 2 .. p
  <2> DEFINE j == k - (m + 1)
  <2>1. j \in 1 .. Len(r.path) /\ (m + 1) + j = k
    <3> DEFINE x == Len(r.path)
    <3>1. x \in Nat /\ p = m + 1 + x /\ m \in Nat
      BY <1>1, <1>5, <1>6
    <3> HIDE DEF x
    <3>2. j \in 1 .. x /\ (m + 1) + j = k
      BY ONLY <3>1, k \in m + 2 .. p
    <3> QED  BY <3>2 DEF x
  <2> HIDE DEF j
  <2>2. w[(m + 1) + j] = r.path[j]
    BY <1>4, <2>1 DEF TextIn
  <2> QED  BY <1>1, <2>1, <2>2
<1>12. r.options = <<>> => q = p
  BY <1>2, <1>4, <1>6
<1>13. ASSUME r.options # <<>>
       PROVE  w[p + 1] = "?" /\ q = p + 1 + Len(QueryText(r)) /\ \A k \in p + 2 .. q : w[k] \notin {SP, CR, LF}
  <2> DEFINE o == OptionsText(r)
             t == QueryText(r)
  <2>1. /\ t \in Seq(QueryByte) /\ Len(t) \in Nat /\ Len(o) = 1 + Len(t) /\ o[1] = "?"
        /\ \A k \in 1 .. Len(t) : o[1 + k] = t[k]
    BY <1>2, <1>13
  <2>2. q = p + Len(o) /\ \A k \in 1 .. Len(o) : w[p + k] = o[k]
    BY <1>4 DEF TextIn
  <2> HIDE DEF o, t
  <2> DEFINE x == Len(t)
             y == Len(o)
  <2>3. x \in Nat /\ y = 1 + x /\ q = p + y
    BY <2>1, <2>2
  <2> HIDE DEF x, y
  <2>4. 1 \in 1 .. Len(o) /\ q = p + 1 + Len(t)
    <3>1. 1 \in 1 .. y /\ q = p + 1 + x
      BY <1>6, <2>3
    <3> QED  BY <3>1 DEF x, y
  <2>5. w[p + 1] = "?"
    BY <2>1, <2>2, <2>4
  <2>6. ASSUME NEW k \in p + 2 .. q PROVE w[k] \notin {SP, CR, LF}
    <3> DEFINE j == k - (p + 1)
    <3>1. j \in 1 .. x /\ p + (1 + j) = k /\ 1 + j \in 1 .. y
      <4>1. q = p + 1 + x
        BY <2>4 DEF x
      <4> QED  BY <1>6, <2>3, <4>1
    <3> HIDE DEF j
    <3>2. j \in 1 .. Len(t) /\ p + (1 + j) = k /\ 1 + j \in 1 .. Len(o)
      BY <3>1 DEF x, y
    <3>3. w[p + (1 + j)] = t[j] /\ t[j] \in QueryByte
      BY <2>1, <2>2, <3>2
    <3> QED  BY <3>2, <3>3 DEF QueryByte
  <2> QED  BY <2>4, <2>5, <2>6 DEF t
<1>14. w[q + 1] = SP /\ w[q + 2] = "HTTP" /\ w[v + 1] = CR /\ w[v + 2] = LF
  <2> DEFINE t == <<SP, "HTTP", CR, LF>>
  <2>1. Len(t) = 4 /\ t[1] = SP /\ t[2] = "HTTP" /\ t[3] = CR /\ t[4] = LF
    OBVIOUS
  <2> HIDE DEF t
  <2>2. \A k \in 1 .. 4 : w[q + k] = t[k]
    BY <1>4, <2>1 DEF t, TextIn
  <2>3. v + 1 = q + 3 /\ v + 2 = q + 4
    BY <1>5, <1>7
  <2> QED  BY <2>1, <2>2, <2>3
<1> QED  BY <1>5, <1>6, <1>7, <1>8, <1>9, <1>10, <1>11, <1>12, <1>13, <1>14 DEF m, p, q, v

\* Since a line feed, from byte a on, there have been only line breaks: what
\* m_flag_2n says.
AfterLF(w, a, c) == \E k \in a .. c : w[k] = LF /\ \A j \in k + 1 .. c : w[j] \in NewLine

LEMMA AfterByte ==
  ASSUME NEW w, NEW a \in Nat, NEW c \in Nat, a <= c + 1
  PROVE  AfterLF(w, a, c + 1) <=> w[c + 1] = LF \/ (w[c + 1] \in NewLine /\ AfterLF(w, a, c))
<1>1. ASSUME AfterLF(w, a, c + 1) PROVE w[c + 1] = LF \/ (w[c + 1] \in NewLine /\ AfterLF(w, a, c))
  <2>1. PICK k \in a .. c + 1 : w[k] = LF /\ \A j \in k + 1 .. c + 1 : w[j] \in NewLine
    BY <1>1 DEF AfterLF
  <2>2. CASE k = c + 1
    BY <2>1, <2>2
  <2>3. CASE k # c + 1
    <3>1. k \in a .. c /\ c + 1 \in k + 1 .. c + 1 /\ \A j \in k + 1 .. c : j \in k + 1 .. c + 1
      BY <2>3
    <3> QED  BY <2>1, <3>1 DEF AfterLF
  <2> QED  BY <2>2, <2>3
<1>2. ASSUME w[c + 1] = LF PROVE AfterLF(w, a, c + 1)
  <2>1. c + 1 \in a .. c + 1 /\ \A j \in c + 1 + 1 .. c + 1 : FALSE
    OBVIOUS
  <2> QED  BY <1>2, <2>1 DEF AfterLF
<1>3. ASSUME w[c + 1] \in NewLine, AfterLF(w, a, c) PROVE AfterLF(w, a, c + 1)
  <2>1. PICK k \in a .. c : w[k] = LF /\ \A j \in k + 1 .. c : w[j] \in NewLine
    BY <1>3 DEF AfterLF
  <2>2. k \in a .. c + 1 /\ \A j \in k + 1 .. c + 1 : j \in k + 1 .. c \/ j = c + 1
    OBVIOUS
  <2> QED  BY <1>3, <2>1, <2>2 DEF AfterLF
<1> QED  BY <1>1, <1>2, <1>3

\* Where the headers end.
LEMMA HeaderBytes ==
  ASSUME NEW r, IsRequest(r), NEW w, w = Written(r), NEW v, v = VersionEnd(r), NEW h, h = HeaderEnd(r)
  PROVE  \A k \in v + 2 .. h :
           /\ w[k] = LF => w[k - 1] = CR
           /\ w[k] = ":" => w[k - 1] \notin NewLine
           /\ w[k] = CR /\ k # h - 1 => w[k - 1] \notin NewLine
           /\ w[h] = LF /\ w[h - 1] = CR /\ w[h - 2] = LF
<1> DEFINE text == Lines(r.headers)
           l == Len(text)
           a == v + 2
<1>1. l \in Nat /\ (\A k \in 1 .. l : InLine(text, k)) /\ (l # 0 => text[l] = LF)
  <2>1. \A t : t = Lines(r.headers) => /\ Len(t) \in Nat /\ \A k \in 1 .. Len(t) : InLine(t, k)
                                       /\ Len(t) # 0 => t[Len(t)] = LF
    BY LinesShape
  <2> QED  BY <2>1
<1>2. v \in Nat /\ w[v + 1] = CR /\ w[v + 2] = LF
  BY WrittenBytes
<1>3. h = a + l + 2 /\ (\A k \in 1 .. l : w[a + k] = text[k]) /\ TextIn(w, a + l, <<CR, LF>>)
  BY WrittenParts DEF TextIn
<1> HIDE DEF text, l
<1>4. a \in Nat /\ h = a + l + 2 /\ h - 1 = a + l + 1 /\ h - 2 = a + l /\ w[a] = LF
  BY <1>1, <1>2, <1>3
<1>5. w[h - 1] = CR /\ w[h] = LF
  <2>1. <<CR, LF>>[1] = CR /\ <<CR, LF>>[2] = LF /\ Len(<<CR, LF>>) = 2
    OBVIOUS
  <2>2. \A k \in 1 .. 2 : w[(a + l) + k] = <<CR, LF>>[k]
    BY <1>3, <2>1 DEF TextIn
  <2>3. w[(a + l) + 1] = CR /\ w[(a + l) + 2] = LF
    BY <2>1, <2>2
  <2> QED  BY <1>4, <2>3
<1>6. w[h - 2] = LF
  <2>1. CASE l = 0
    BY <1>4, <2>1
  <2>2. CASE l # 0
    <3>1. l \in 1 .. l
      BY <1>1, <2>2
    <3>2. w[a + l] = text[l]
      BY <1>3, <3>1
    <3> QED  BY <1>1, <1>4, <2>2, <3>2
  <2> QED  BY <2>1, <2>2
<1>7. CR # LF /\ ":" \notin NewLine /\ CR \in NewLine /\ LF \in NewLine /\ CR # ":" /\ LF # ":"
  BY DEF CR, LF, NewLine
<1>8. ASSUME NEW k \in a .. h
      PROVE  /\ w[k] = LF => w[k - 1] = CR
             /\ w[k] = ":" => w[k - 1] \notin NewLine
             /\ w[k] = CR /\ k # h - 1 => w[k - 1] \notin NewLine
  <2>1. CASE k = a
    <3>1. k - 1 = v + 1
      BY <1>2, <2>1
    <3> QED  BY <1>2, <1>4, <1>7, <2>1, <3>1
  <2>2. CASE k = h - 1
    <3>1. w[k] = CR
      BY <1>5, <2>2
    <3> QED  BY <1>7, <2>2, <3>1
  <2>3. CASE k = h
    <3>1. w[k] = LF /\ w[k - 1] = CR
      BY <1>5, <2>3
    <3> QED  BY <1>7, <3>1
  <2>4. CASE k # a /\ k # h - 1 /\ k # h
    <3> DEFINE m == k - a
    <3>1. m \in 1 .. l /\ a + m = k
      BY <1>1, <1>4, <2>4
    <3>2. m # 1 => m - 1 \in 1 .. l /\ a + (m - 1) = k - 1
      BY <1>1, <1>4, <3>1
    <3> HIDE DEF m
    <3>3. w[k] = text[m] /\ (m # 1 => w[k - 1] = text[m - 1]) /\ InLine(text, m)
      BY <1>1, <1>3, <3>1, <3>2
    <3> QED  BY <1>7, <3>3 DEF InLine
  <2> QED  BY <2>1, <2>2, <2>3, <2>4
<1> QED  BY <1>5, <1>6, <1>8

LEMMA HeaderShape ==
  ASSUME NEW r, IsRequest(r), NEW w, w = Written(r), NEW v, v = VersionEnd(r), NEW h, h = HeaderEnd(r),
         NEW c \in v + 1 .. h - 1
  PROVE  /\ (w[c + 1] = LF /\ AfterLF(w, v + 1, c)) <=> c + 1 = h
         /\ w[c + 1] = ":" => ~AfterLF(w, v + 1, c)
         /\ c = v + 1 => ~AfterLF(w, v + 1, c)
<1>1. v \in Nat /\ h \in Nat /\ v + 4 <= h /\ w[v + 1] = CR /\ w[v + 2] = LF
  <2>1. v \in Nat /\ h \in Nat /\ v + 4 <= h
    BY WrittenBytes
  <2>2. w[v + 1] = CR /\ w[v + 2] = LF
    BY WrittenBytes
  <2> QED  BY <2>1, <2>2
<1>2. \A k \in v + 2 .. h :
           /\ w[k] = LF => w[k - 1] = CR
           /\ w[k] = ":" => w[k - 1] \notin NewLine
           /\ w[k] = CR /\ k # h - 1 => w[k - 1] \notin NewLine
           /\ w[h] = LF /\ w[h - 1] = CR /\ w[h - 2] = LF
  BY HeaderBytes
<1>3. CR # LF /\ CR \in NewLine /\ LF \in NewLine
  BY DEF CR, LF, NewLine
<1>4. c \in Nat /\ c + 1 \in v + 2 .. h /\ (c + 1) - 1 = c
  BY <1>1
<1>5. c = v + 1 => ~AfterLF(w, v + 1, c)
  <2> SUFFICES ASSUME c = v + 1, NEW k \in v + 1 .. c, w[k] = LF PROVE FALSE
    BY DEF AfterLF
  <2>1. k = v + 1
    BY <1>1
  <2> QED  BY <1>1, <1>3, <2>1
<1>6. AfterLF(w, v + 1, c) => w[c] \in NewLine
  <2> SUFFICES ASSUME NEW k \in v + 1 .. c, w[k] = LF, \A j \in k + 1 .. c : w[j] \in NewLine PROVE w[c] \in NewLine
    BY DEF AfterLF
  <2>1. CASE k = c
    BY <1>3, <2>1
  <2>2. CASE k # c
    <3>1. c \in k + 1 .. c
      BY <1>4, <2>2
    <3> QED  BY <3>1
  <2> QED  BY <2>1, <2>2
<1>7. w[c + 1] = ":" => ~AfterLF(w, v + 1, c)
  BY <1>2, <1>4, <1>6
<1>8. ASSUME w[c + 1] = LF, AfterLF(w, v + 1, c), c + 1 # h PROVE FALSE
  <2>1. w[c] = CR /\ c # v + 1
    BY <1>2, <1>4, <1>5, <1>8
  <2>2. c \in v + 2 .. h /\ c # h - 1
    BY <1>1, <1>8, <2>1
  <2>3. w[c - 1] \notin NewLine
    BY <1>2, <2>1, <2>2
  <2>4. PICK k \in v + 1 .. c : w[k] = LF /\ \A j \in k + 1 .. c : w[j] \in NewLine
    BY <1>8 DEF AfterLF
  <2>5. k # c /\ k # c - 1
    BY <1>3, <2>1, <2>3, <2>4
  <2>6. c - 1 \in k + 1 .. c
    BY <1>4, <2>5
  <2> QED  BY <2>3, <2>4, <2>6
<1>9. ASSUME c + 1 = h PROVE w[c + 1] = LF /\ AfterLF(w, v + 1, c)
  <2>1. w[h] = LF /\ w[h - 1] = CR /\ w[h - 2] = LF
    BY <1>2, <1>4
  <2>2. h - 2 \in v + 1 .. c /\ c = h - 1 /\ \A j \in (h - 2) + 1 .. c : j = h - 1
    BY <1>1, <1>4, <1>9
  <2> QED  BY <1>3, <1>9, <2>1, <2>2 DEF AfterLF
<1> QED  BY <1>5, <1>7, <1>8, <1>9

-------------------------------------------------------------------------------
(* Where the parser stands *)

USE ReadsAssumption

Empty == m_path = <<>> /\ m_get = <<>> /\ m_data = <<>>

\* The bytes i and j end the method and the path.
Split(i, j) ==
  /\ i < j /\ m_raw[i] = SP /\ m_raw[j] \in {SP, "?"}
  /\ \A k \in 1 .. i - 1 : m_raw[k] # SP
  /\ \A k \in i + 1 .. j - 1 : m_raw[k] \notin {SP, "?"}
  /\ m_method = Method(SubSeq(m_raw, 1, i - 1))
  /\ m_path = SubSeq(m_raw, i + 1, j - 1)

InMethod ==
  result = "running" /\ m_state = "METHOD" =>
    m_current = 0 /\ Empty /\ \A k \in 1 .. count : m_raw[k] # SP

InPath ==
  result = "running" /\ m_state = "PATH" =>
    /\ Empty
    /\ m_current \in 1 .. count /\ m_raw[m_current] = SP
    /\ \A k \in 1 .. m_current - 1 : m_raw[k] # SP
    /\ \A k \in m_current + 1 .. count : m_raw[k] \notin {SP, "?"}
    /\ m_method = Method(SubSeq(m_raw, 1, m_current - 1))

\* Parameters are there only behind a question mark, and a body only at the end.
Behind(i, j) ==
  /\ Split(i, j)
  /\ m_get # <<>> \/ m_state = "GETOPTIONS" => m_raw[j] = "?"
  /\ m_data = <<>>

BehindPath ==
  result = "running" /\ m_state \notin {"METHOD", "PATH"} =>
    \E i, j \in 1 .. count : Behind(i, j)

-------------------------------------------------------------------------------
(* Types *)

Flag == m_flag_2n \in BOOLEAN
Positions ==
  /\ read \in Reads \cup {NoRead}
  /\ result \in {"running", "true", "false"}
  /\ m_state \in {"METHOD", "PATH", "GETOPTIONS", "VERSION", "HEADER", "BODY"}
  /\ m_method \in {"GET", "POST", "UNKNOWN"}
  /\ m_cvalue \in Nat
  /\ read # NoRead => count \in 0 .. Len(m_raw) /\ m_current \in 0 .. count
  /\ result = "running" => read \in Reads /\ count \in 0 .. Len(m_raw) /\ m_current \in 0 .. count

LEMMA TypeParts == Positions /\ Flag => TypeOK
  BY DEF TypeOK, Flag, Positions

LEMMA InitType == Init => Positions /\ Flag
<1> SUFFICES ASSUME Init PROVE Positions /\ Flag
  OBVIOUS
<1>1. Positions
  BY DEF Init, Positions
<1>2. Flag
  BY ZenonT(20) DEF Init, Flag
<1> QED  BY <1>1, <1>2

LEMMA MethodType == \A text : Method(text) \in {"GET", "POST", "UNKNOWN"}
  BY DEF Method

LEMMA StepFlag == Flag /\ [Next]_vars => Flag'
  BY ZenonT(30) DEF Flag, Next, vars, local, Receive, ReadMethod, ReadPath, ReadOptions, ReadVersion,
     ReadHeader, ReadBody, EndOfData, NextByte, Return, Goto

\* What a step of parse does with the position.
LEMMA NextByteType ==
  ASSUME Positions, result = "running", count < Len(m_raw), NextByte,
         m_state' \in {"METHOD", "PATH", "GETOPTIONS", "VERSION", "HEADER", "BODY"},
         m_method' \in {"GET", "POST", "UNKNOWN"}, m_cvalue' \in Nat,
         m_current' \in {m_current, count + 1}
  PROVE  Positions'
<1>1. Len(m_raw) \in Nat
  BY DEF Positions, m_raw
<1> QED  BY <1>1 DEF Positions, NextByte, m_raw

LEMMA ReturnType ==
  ASSUME Positions, result = "running", NEW v \in {"true", "false"}, Return(v),
         m_method' \in {"GET", "POST", "UNKNOWN"}
  PROVE  Positions'
  BY DEF Positions, Return, local, m_raw

LEMMA StepPositions == Positions /\ [Next]_vars => Positions'
<1> SUFFICES ASSUME Positions, [Next]_vars PROVE Positions'
  OBVIOUS
<1>1. m_method \in {"GET", "POST", "UNKNOWN"} /\ m_cvalue \in Nat
      /\ m_state \in {"METHOD", "PATH", "GETOPTIONS", "VERSION", "HEADER", "BODY"}
      /\ (result = "running" => count \in Nat)
  BY DEF Positions
<1>2. ASSUME NEW r \in Reads, Receive(r) PROVE Positions'
  <2>1. Len(r.text) \in Nat
    OBVIOUS
  <2> QED  BY <1>2, <2>1 DEF Receive, Positions, m_raw
<1>3. CASE ReadMethod
  <2>1. CASE NextByte
    BY <1>1, <1>3, <2>1, MethodType, NextByteType DEF ReadMethod, At, Goto, local, object, Return
  <2>2. CASE Return("false")
    BY <1>1, <1>3, <2>2, MethodType, ReturnType DEF ReadMethod, At, object
  <2> QED  BY <1>3, <2>1, <2>2 DEF ReadMethod
<1>4. CASE ReadPath
  <2>1. CASE NextByte
    BY <1>1, <1>4, <2>1, NextByteType DEF ReadPath, At, Goto, local, object, Return
  <2>2. CASE Return("false")
    BY <1>1, <1>4, <2>2, ReturnType DEF ReadPath, At, object, NextByte
  <2> QED  BY <1>4, <2>1, <2>2 DEF ReadPath
<1>5. CASE ReadOptions
  <2>1. At("GETOPTIONS") /\ m_method' = m_method
    BY <1>5 DEF ReadOptions, object
  <2>2. CASE NextByte
    BY <1>1, <1>5, <2>1, <2>2, NextByteType DEF ReadOptions, At, Goto, local, Return
  <2>3. CASE Return("false") \/ Return("true")
    BY <1>1, <2>1, <2>3, ReturnType DEF At
  <2> QED  BY <1>5, <2>2, <2>3 DEF ReadOptions
<1>6. CASE ReadVersion
  <2>1. CASE NextByte
    BY <1>1, <1>6, <2>1, NextByteType DEF ReadVersion, At, Goto, local, object, Return
  <2>2. CASE Return("false")
    BY <1>1, <1>6, <2>2, ReturnType DEF ReadVersion, At, object
  <2> QED  BY <1>6, <2>1, <2>2 DEF ReadVersion
<1>7. CASE ReadHeader
  <2>1. At("HEADER") /\ m_method' = m_method
    BY <1>7 DEF ReadHeader, object
  <2>2. CASE NextByte
    <3>1. m_cvalue' \in {m_cvalue, count + 2, 0}
      BY <1>7, <2>2, ZenonT(20) DEF ReadHeader, Goto, Return, local
    <3>2. m_current' \in {m_current, count + 1} /\ m_state' \in {"HEADER", "BODY"}
      BY <1>7, <2>1, <2>2, ZenonT(20) DEF ReadHeader, Goto, At, Return, local
    <3>3. m_cvalue' \in Nat
      BY <1>1, <2>1, <3>1 DEF At
    <3> QED  BY <1>1, <2>1, <2>2, <3>2, <3>3, NextByteType DEF At
  <2>3. CASE Return("true")
    BY <1>1, <2>1, <2>3, ReturnType DEF At
  <2> QED  BY <1>7, <2>2, <2>3 DEF ReadHeader
<1>8. CASE ReadBody
  <2>1. At("BODY") /\ m_method' = m_method
    BY <1>8 DEF ReadBody, object
  <2>2. CASE NextByte
    BY <1>1, <1>8, <2>1, <2>2, NextByteType DEF ReadBody, At, Goto, Return, local
  <2>3. CASE Return("true")
    BY <1>1, <2>1, <2>3, ReturnType DEF At
  <2> QED  BY <1>8, <2>2, <2>3 DEF ReadBody
<1>9. CASE EndOfData
  BY <1>1, <1>9, ReturnType DEF EndOfData, object
<1>10. CASE UNCHANGED vars
  BY <1>10 DEF vars, local, object, Positions, m_raw
<1> QED  BY <1>2, <1>3, <1>4, <1>5, <1>6, <1>7, <1>8, <1>9, <1>10 DEF Next

-------------------------------------------------------------------------------
(* What is read *)

Inv == Positions /\ InMethod /\ InPath /\ BehindPath /\ NothingLeftOver

\* The rest of a text is a suffix of it.
LEMMA RestIsSuffix ==
  ASSUME NEW S, NEW s \in Seq(S), NEW n \in Nat, n <= Len(s)
  PROVE  IsSuffix(SubSeq(s, n + 1, Len(s)), s)
<1> DEFINE t == SubSeq(s, n + 1, Len(s))
<1>1. Len(s) \in Nat
  OBVIOUS
<1>2. t \in Seq(S) /\ Len(t) = Len(s) - n /\ \A i \in 1 .. Len(s) - n : t[i] = s[n + i]
  BY <1>1
<1> HIDE DEF t
<1>3. Len(Reverse(t)) = Len(t) /\ Reverse(t) \in Seq(S)
  BY <1>2 DEF Reverse
<1>4. Len(Reverse(s)) = Len(s) /\ Reverse(s) \in Seq(S)
  BY <1>1 DEF Reverse
<1>5. \A i \in 1 .. Len(t) : Reverse(t)[i] = Reverse(s)[i]
  BY <1>1, <1>2 DEF Reverse
<1>6. SubSeq(Reverse(t), 1, Len(t)) = SubSeq(Reverse(s), 1, Len(t))
  BY <1>1, <1>2, <1>3, <1>4, <1>5
<1> QED  BY <1>1, <1>2, <1>3, <1>4, <1>6 DEF IsSuffix, IsPrefix, t

\* A finished read of which the first line was seen.
LEMMA Finished ==
  ASSUME Positions, NEW i \in 1 .. Len(m_raw), NEW j \in 1 .. Len(m_raw), Split(i, j),
         m_get # <<>> => m_raw[j] = "?",
         m_data # <<>> => m_method = "POST" /\ IsSuffix(m_data, m_raw),
         read \in Reads
  PROVE  NothingLeftOver
<1>1. i \in DOMAIN m_raw /\ j \in DOMAIN m_raw
  BY DEF m_raw
<1> QED  BY <1>1 DEF NothingLeftOver, Split

\* What is known stays known while the parser goes on behind the path.
LEMMA BehindStays ==
  ASSUME Positions, BehindPath, result = "running", m_state \notin {"METHOD", "PATH"}, count < Len(m_raw),
         UNCHANGED <<read, m_method, m_path, m_data>>, result' = "running", count' = count + 1,
         m_get' = m_get \/ m_state = "GETOPTIONS", m_state' = "GETOPTIONS" => m_state = "GETOPTIONS",
         m_state' \notin {"METHOD", "PATH"}
  PROVE  InMethod' /\ InPath' /\ BehindPath' /\ NothingLeftOver'
<1>1. PICK i \in 1 .. count, j \in 1 .. count : Behind(i, j)
  BY DEF BehindPath
<1>2. m_raw' = m_raw /\ count \in Nat
  BY DEF m_raw, Positions
<1>3. (Behind(i, j))'
  BY <1>1, <1>2 DEF Behind, Split
<1>4. i \in 1 .. count + 1 /\ j \in 1 .. count + 1
  BY <1>2
<1> QED  BY <1>3, <1>4 DEF InMethod, InPath, BehindPath, NothingLeftOver, Parsed

BodyTaken == m_method = "POST" /\ IsSuffix(m_data, m_raw)

\* And when the read ends there.
LEMMA BehindEnds ==
  ASSUME Positions, BehindPath, result = "running", m_state \notin {"METHOD", "PATH"},
         read' = read, count' = count, m_method' = m_method, m_path' = m_path,
         result' \in {"true", "false"}, Positions',
         m_get' = m_get \/ m_state = "GETOPTIONS",
         m_data' = m_data \/ BodyTaken'
  PROVE  InMethod' /\ InPath' /\ BehindPath' /\ NothingLeftOver'
<1>1. PICK i \in 1 .. count, j \in 1 .. count : Behind(i, j)
  BY DEF BehindPath
<1>2. m_raw' = m_raw /\ count \in Nat /\ read \in Reads /\ count <= Len(m_raw) /\ Len(m_raw) \in Nat
  <2>1. read \in Reads /\ count \in 0 .. Len(m_raw) /\ m_raw' = m_raw
    BY DEF m_raw, Positions
  <2>2. Len(m_raw) \in Nat
    BY <2>1 DEF m_raw
  <2> QED  BY <2>1, <2>2
<1>3. (Split(i, j))'
  BY <1>1, <1>2 DEF Behind, Split
<1>4. i \in 1 .. Len(m_raw') /\ j \in 1 .. Len(m_raw')
  BY <1>2
<1>5. m_get' # <<>> => m_raw'[j] = "?"
  BY <1>1, <1>2 DEF Behind
<1>6. m_data' # <<>> => m_method' = "POST" /\ IsSuffix(m_data', m_raw')
  BY <1>1, <1>2 DEF Behind, BodyTaken
<1>7. i \in (DOMAIN m_raw)' /\ j \in (DOMAIN m_raw)'
  BY <1>2, <1>4 DEF m_raw
<1>8. NothingLeftOver'
  BY <1>3, <1>5, <1>6, <1>7 DEF NothingLeftOver, Split
<1> QED  BY <1>8 DEF InMethod, InPath, BehindPath

LEMMA ReceiveInv ==
  ASSUME NEW r \in Reads, Receive(r)
  PROVE  InMethod' /\ InPath' /\ BehindPath' /\ NothingLeftOver'
<1>1. result' = "running" /\ m_state' = "METHOD" /\ count' = 0 /\ m_current' = 0 /\ Empty'
  BY DEF Receive, Empty
<1> QED  BY <1>1 DEF InMethod, InPath, BehindPath, NothingLeftOver, Parsed

\* A read that ends before its path does leaves no path.
LEMMA NoPath ==
  ASSUME m_path' = <<>>, result' # "running"
  PROVE  InMethod' /\ InPath' /\ BehindPath' /\ NothingLeftOver'
  BY DEF InMethod, InPath, BehindPath, NothingLeftOver

LEMMA ReadMethodInv ==
  ASSUME Inv, ReadMethod
  PROVE  InMethod' /\ InPath' /\ BehindPath' /\ NothingLeftOver'
<1>1. /\ result = "running" /\ m_state = "METHOD" /\ m_current = 0 /\ Empty
      /\ count \in Nat /\ m_raw' = m_raw /\ \A k \in 1 .. count : m_raw[k] # SP
  <2>1. At("METHOD") /\ read' = read
    BY DEF ReadMethod, NextByte, Return
  <2>2. m_raw' = m_raw
    BY <2>1 DEF m_raw
  <2>3. result = "running" /\ m_state = "METHOD"
    BY <2>1 DEF At
  <2>4. count \in Nat
    BY <2>3 DEF Inv, Positions
  <2>5. m_current = 0 /\ Empty /\ \A k \in 1 .. count : m_raw[k] # SP
    BY <2>3 DEF Inv, InMethod
  <2> QED  BY <2>2, <2>3, <2>4, <2>5
<1>2. CASE b # SP /\ NextByte /\ UNCHANGED <<local, object>>
  <2>1. \A k \in 1 .. count + 1 : m_raw[k] # SP
    BY <1>1, <1>2 DEF b
  <2>2. /\ result' = "running" /\ m_state' = "METHOD" /\ m_current' = 0 /\ Empty'
        /\ count' = count + 1
    BY <1>1, <1>2 DEF NextByte, local, object, Empty
  <2> QED  BY <1>1, <2>1, <2>2 DEF InMethod, InPath, BehindPath, NothingLeftOver, Parsed
<1>3. CASE b = SP /\ count = m_current /\ Return("false") /\ UNCHANGED object
  BY <1>1, <1>3, NoPath DEF Return, object, Empty
<1>4. CASE /\ b = SP /\ count # m_current
           /\ m_method' = Method(Part(m_current, count))
           /\ Goto("PATH") /\ NextByte
           /\ UNCHANGED <<m_path, m_get, m_data>>
  <2>1. /\ result' = "running" /\ m_state' = "PATH" /\ m_current' = count + 1 /\ Empty'
        /\ count' = count + 1 /\ m_method' = Method(SubSeq(m_raw, 1, count))
    BY <1>1, <1>4 DEF NextByte, Goto, Empty, Part
  <2>2. m_raw[count + 1] = SP
    BY <1>4 DEF b
  <2>3. InPath'
    BY <1>1, <2>1, <2>2 DEF InPath
  <2> QED  BY <1>1, <2>1, <2>3 DEF InMethod, BehindPath, NothingLeftOver, Parsed
<1> QED  BY <1>2, <1>3, <1>4 DEF ReadMethod

LEMMA ReadPathInv ==
  ASSUME Inv, ReadPath
  PROVE  InMethod' /\ InPath' /\ BehindPath' /\ NothingLeftOver'
<1>1. /\ result = "running" /\ m_state = "PATH" /\ Empty /\ count \in Nat /\ m_raw' = m_raw
      /\ m_current \in 1 .. count /\ m_raw[m_current] = SP
      /\ \A k \in 1 .. m_current - 1 : m_raw[k] # SP
      /\ \A k \in m_current + 1 .. count : m_raw[k] \notin {SP, "?"}
      /\ m_method = Method(SubSeq(m_raw, 1, m_current - 1))
  BY DEF Inv, InPath, Positions, ReadPath, At, NextByte, Return, m_raw
<1>2. CASE b \notin {SP, "?"} /\ NextByte /\ UNCHANGED <<local, object>>
  <2>1. \A k \in m_current + 1 .. count + 1 : m_raw[k] \notin {SP, "?"}
    BY <1>1, <1>2 DEF b
  <2>2. /\ result' = "running" /\ m_state' = "PATH" /\ m_current' = m_current /\ Empty'
        /\ count' = count + 1 /\ m_method' = m_method
    BY <1>1, <1>2 DEF NextByte, local, object, Empty
  <2>3. InPath'
    BY <1>1, <2>1, <2>2 DEF InPath
  <2> QED  BY <2>2, <2>3 DEF InMethod, BehindPath, NothingLeftOver, Parsed
<1>3. CASE b \in {SP, "?"} /\ count = m_current /\ Return("false") /\ UNCHANGED object
  BY <1>1, <1>3, NoPath DEF Return, object, Empty
<1>4. CASE /\ b \in {SP, "?"} /\ count # m_current
           /\ m_path' = Part(m_current, count)
           /\ Goto(IF b = "?" THEN "GETOPTIONS" ELSE "VERSION") /\ NextByte
           /\ UNCHANGED <<m_method, m_get, m_data>>
  <2>1. /\ result' = "running" /\ m_state' = IF b = "?" THEN "GETOPTIONS" ELSE "VERSION"
        /\ count' = count + 1 /\ m_method' = m_method /\ m_get' = <<>> /\ m_data' = <<>>
        /\ m_path' = SubSeq(m_raw, m_current + 1, count)
    BY <1>1, <1>4 DEF NextByte, Goto, Empty, Part
  <2>2. m_raw[count + 1] = b
    BY DEF b
  <2> DEFINE i == m_current
             j == count + 1
  <2>3. /\ i < j /\ m_raw'[i] = SP /\ m_raw'[j] \in {SP, "?"}
        /\ \A k \in 1 .. i - 1 : m_raw'[k] # SP
        /\ \A k \in i + 1 .. j - 1 : m_raw'[k] \notin {SP, "?"}
        /\ m_method' = Method(SubSeq(m_raw', 1, i - 1))
        /\ m_path' = SubSeq(m_raw', i + 1, j - 1)
    BY <1>1, <1>4, <2>1, <2>2
  <2>4. m_get' # <<>> \/ m_state' = "GETOPTIONS" => m_raw'[j] = "?"
    BY <1>1, <2>1, <2>2
  <2>5. i \in 1 .. count' /\ j \in 1 .. count'
    BY <1>1, <2>1
  <2> HIDE DEF i, j
  <2>6. BehindPath'
    BY <2>1, <2>3, <2>4, <2>5 DEF BehindPath, Behind, Split
  <2> QED  BY <2>1, <2>6 DEF InMethod, InPath, NothingLeftOver, Parsed
<1> QED  BY <1>2, <1>3, <1>4 DEF ReadPath

LEMMA StepInv == Inv /\ [Next]_vars => Inv'
<1> SUFFICES ASSUME Inv, [Next]_vars PROVE InMethod' /\ InPath' /\ BehindPath' /\ NothingLeftOver'
  BY StepPositions DEF Inv
<1>1. Positions /\ Positions' /\ BehindPath
  BY StepPositions DEF Inv
<1>2. ASSUME NEW r \in Reads, Receive(r) PROVE InMethod' /\ InPath' /\ BehindPath' /\ NothingLeftOver'
  BY <1>2, ReceiveInv
<1>3. CASE ReadMethod
  BY <1>3, ReadMethodInv
<1>4. CASE ReadPath
  BY <1>4, ReadPathInv
<1>5. CASE ReadOptions
  <2>1. /\ At("GETOPTIONS") /\ UNCHANGED <<m_method, m_path, m_data>>
    BY <1>5 DEF ReadOptions, object
  <2>2. CASE NextByte
    <3>1. m_state' \in {"GETOPTIONS", "HEADER"}
      BY <1>5, <2>1, <2>2 DEF ReadOptions, Goto, At, local, NextByte, Return
    <3> QED  BY <1>1, <2>1, <2>2, <3>1, BehindStays DEF At, NextByte
  <2>3. CASE Return("false") \/ Return("true")
    <3>1. read' = read /\ count' = count /\ result' \in {"true", "false"}
      BY <2>3 DEF Return
    <3>2. result = "running" /\ m_state = "GETOPTIONS"
      BY <2>1 DEF At
    <3> QED  BY <1>1, <2>1, <3>1, <3>2, BehindEnds
  <2> QED  BY <1>5, <2>2, <2>3 DEF ReadOptions
<1>6. CASE ReadVersion
  <2>1. /\ At("VERSION") /\ UNCHANGED <<m_method, m_path, m_data, m_get>>
    BY <1>6 DEF ReadVersion, object
  <2>2. CASE NextByte
    <3>1. m_state' \in {"VERSION", "HEADER"}
      BY <1>6, <2>1, <2>2 DEF ReadVersion, Goto, At, local, NextByte, Return
    <3> QED  BY <1>1, <2>1, <2>2, <3>1, BehindStays DEF At, NextByte
  <2>3. CASE Return("false")
    <3>1. read' = read /\ count' = count /\ result' \in {"true", "false"}
      BY <2>3 DEF Return
    <3>2. result = "running" /\ m_state \notin {"METHOD", "PATH"}
      BY <2>1 DEF At
    <3> QED  BY <1>1, <2>1, <3>1, <3>2, BehindEnds
  <2> QED  BY <1>6, <2>2, <2>3 DEF ReadVersion
<1>7. CASE ReadHeader
  <2>1. /\ At("HEADER") /\ UNCHANGED <<m_method, m_path, m_data, m_get>>
    BY <1>7 DEF ReadHeader, object
  <2>2. CASE NextByte
    <3>1. m_state' \in {"HEADER", "BODY"}
      BY <1>7, <2>1, <2>2, ZenonT(20) DEF ReadHeader, Goto, At, local, Return
    <3> QED  BY <1>1, <2>1, <2>2, <3>1, BehindStays DEF At, NextByte
  <2>3. CASE Return("true")
    <3>1. read' = read /\ count' = count /\ result' \in {"true", "false"}
      BY <2>3 DEF Return
    <3>2. result = "running" /\ m_state \notin {"METHOD", "PATH"}
      BY <2>1 DEF At
    <3> QED  BY <1>1, <2>1, <3>1, <3>2, BehindEnds
  <2> QED  BY <1>7, <2>2, <2>3 DEF ReadHeader
<1>8. CASE ReadBody
  <2>1. /\ At("BODY") /\ UNCHANGED <<m_method, m_path, m_get>>
    BY <1>8 DEF ReadBody, object
  <2>2. CASE Goto("BODY") /\ NextByte /\ UNCHANGED object
    BY <1>1, <2>1, <2>2, BehindStays DEF At, NextByte, Goto, object
  <2>3. CASE /\ m_data' = IF m_method = "POST" THEN Part(m_current, Len(m_raw)) ELSE m_data
             /\ Return("true")
    <3>1. m_raw \in Seq(STRING) /\ m_current \in Nat /\ m_current <= Len(m_raw)
      <4>1. read \in Reads /\ count \in 0 .. Len(m_raw) /\ m_current \in 0 .. count
        BY <1>1, <2>1 DEF Positions, At
      <4>2. m_raw \in Seq(STRING) /\ Len(m_raw) \in Nat
        BY <4>1 DEF m_raw
      <4> QED  BY <4>1, <4>2
    <3>2. IsSuffix(Part(m_current, Len(m_raw)), m_raw)
      BY <3>1, RestIsSuffix DEF Part
    <3>3. read' = read /\ count' = count /\ result' \in {"true", "false"}
      BY <2>3 DEF Return
    <3>4. result = "running" /\ m_state \notin {"METHOD", "PATH"}
      BY <2>1 DEF At
    <3>5. m_data' = m_data \/ BodyTaken'
      <4>1. CASE m_method = "POST"
        <5>1. m_data' = Part(m_current, Len(m_raw)) /\ m_raw' = m_raw /\ m_method' = "POST"
          BY <2>1, <2>3, <3>3, <4>1 DEF m_raw
        <5>2. IsSuffix(m_data', m_raw')
          BY <3>2, <5>1
        <5> QED  BY <5>1, <5>2 DEF BodyTaken
      <4>2. CASE m_method # "POST"
        BY <2>3, <4>2
      <4> QED  BY <4>1, <4>2
    <3> QED  BY <1>1, <2>1, <3>3, <3>4, <3>5, BehindEnds
  <2> QED  BY <1>8, <2>2, <2>3 DEF ReadBody
<1>9. CASE EndOfData
  <2>1. /\ result = "running" /\ Return("true") /\ UNCHANGED <<m_method, m_path, m_data, m_get>>
    BY <1>9 DEF EndOfData, object
  <2>2. CASE m_state \in {"METHOD", "PATH"}
    <3>1. m_path = <<>>
      BY <2>1, <2>2 DEF Inv, InMethod, InPath, Empty
    <3> QED  BY <2>1, <3>1, NoPath DEF Return
  <2>3. CASE m_state \notin {"METHOD", "PATH"}
    <3>1. read' = read /\ count' = count /\ result' \in {"true", "false"}
      BY <2>1 DEF Return
    <3> QED  BY <1>1, <2>1, <2>3, <3>1, BehindEnds
  <2> QED  BY <2>2, <2>3
<1>10. CASE UNCHANGED vars
  <2>1. UNCHANGED <<read, result, count, m_state, m_current, m_method, m_path, m_get, m_data>>
    BY <1>10 DEF vars, local, object
  <2> QED  BY <2>1 DEF Inv, InMethod, InPath, BehindPath, NothingLeftOver, Empty, Behind, Split, Parsed, m_raw
<1> QED  BY <1>2, <1>3, <1>4, <1>5, <1>6, <1>7, <1>8, <1>9, <1>10 DEF Next

LEMMA InitInv == Init => Inv
<1> SUFFICES ASSUME Init PROVE Inv
  OBVIOUS
<1>1. Positions
  BY InitType
<1> QED  BY <1>1 DEF Init, Inv, InMethod, InPath, BehindPath, NothingLeftOver, Parsed

HIDE ReadsAssumption

-------------------------------------------------------------------------------
(* What is understood *)

\* A read that begins with the beginning of a request.
LEMMA BeginningRead ==
  ASSUME read \in Reads, read.from = 0, NEW r, r = read.of, NEW w, w = Written(r)
  PROVE  /\ IsRequest(r) /\ w \in Seq(Byte) /\ Len(w) \in Nat
         /\ m_raw \in Seq(Byte) /\ Len(m_raw) \in Nat /\ Len(m_raw) <= Len(w)
         /\ \A k \in 1 .. Len(m_raw) : m_raw[k] = w[k]
         /\ Whole => Len(m_raw) = Len(w)
<1>1. IsRequest(r) /\ m_raw = SubSeq(w, 1, Len(m_raw)) /\ m_raw \in Seq(STRING) /\ 0 \in 0 .. Len(w) - Len(m_raw)
  <2>1. /\ IsRequest(read.of)
        /\ read.from \in 0 .. Len(Written(read.of)) - Len(read.text)
        /\ read.text = SubSeq(Written(read.of), read.from + 1, read.from + Len(read.text))
    BY SentAssumption
  <2>2. read.text \in Seq(STRING)
    BY ReadsAssumption
  <2>3. Len(read.text) \in Nat
    BY <2>2
  <2>4. 0 + 1 = 1 /\ 0 + Len(read.text) = Len(read.text)
    BY <2>3
  <2> QED  BY <2>1, <2>2, <2>4 DEF m_raw
<1>2. w \in Seq(Byte) /\ Len(w) \in Nat
  BY <1>1, WrittenParts
<1>3. m_raw \in Seq(Byte) /\ Len(m_raw) \in Nat
  <2>1. STRING \subseteq Byte
    BY DEF Byte
  <2> DEFINE raw == m_raw
  <2>2. raw \in Seq(STRING)
    BY <1>1
  <2> HIDE DEF raw
  <2>3. raw \in Seq(Byte)
    BY <2>1, <2>2, SeqWider
  <2>4. Len(raw) \in Nat
    BY <2>2
  <2> QED  BY <2>3, <2>4 DEF raw
<1>4. Len(m_raw) <= Len(w)
  BY <1>1, <1>2, <1>3
<1> DEFINE n == Len(m_raw)
<1>5. \A k \in 1 .. n : m_raw[k] = w[k]
  <2>1. n \in Nat /\ n <= Len(w) /\ m_raw = SubSeq(w, 1, n)
    BY <1>1, <1>3, <1>4
  <2> HIDE DEF n
  <2>2. 1 \in Int /\ n \in Int /\ \A i \in 1 .. n : w[i] \in Byte
    BY <1>2, <2>1
  <2> DEFINE sub == SubSeq(w, 1, n)
  <2>3. \A i \in 1 .. n - 1 + 1 : sub[i] = w[1 + i - 1]
    BY <2>2, SubSeqProperties
  <2> HIDE DEF sub
  <2>4. ASSUME NEW i \in 1 .. n PROVE sub[i] = w[i]
    <3>1. i \in 1 .. n - 1 + 1 /\ 1 + i - 1 = i
      BY <2>1
    <3> QED  BY <2>3, <3>1
  <2> QED  BY <2>1, <2>4 DEF sub
<1>6. Whole => Len(m_raw) = Len(w)
  BY DEF Whole, m_raw
<1> QED  BY <1>1, <1>2, <1>3, <1>4, <1>5, <1>6

\* A body behind c line breaks.
LEMMA Unpads ==
  ASSUME NEW body \in Seq(Byte), NEW c \in 0 .. Len(body), \A k \in 1 .. c : body[k] \in NewLine
  PROVE  /\ c = Len(body) => Unpadded(body) = <<>>
         /\ c # Len(body) /\ body[c + 1] \notin NewLine => Unpadded(body) = SubSeq(body, c + 1, Len(body))
<1> DEFINE I == {i \in 1 .. Len(body) : body[i] \notin NewLine}
           first == IF I # {} THEN CHOOSE x \in I : \A y \in I : x =< y ELSE 0
<1>1. Unpadded(body) = IF first = 0 THEN <<>> ELSE SubSeq(body, first, Len(body))
  BY DEF Unpadded, SelectInSeq, Min
<1>2. Len(body) \in Nat
  OBVIOUS
<1>3. ASSUME c = Len(body) PROVE first = 0
  BY <1>3
<1>4. ASSUME c # Len(body), body[c + 1] \notin NewLine PROVE first = c + 1
  <2>1. c + 1 \in I /\ \A y \in I : c + 1 =< y
    <3>1. c + 1 \in 1 .. Len(body)
      BY <1>2, <1>4
    <3>2. \A y \in 1 .. Len(body) : ~(c + 1 =< y) => y \in 1 .. c
      BY <1>2
    <3> QED  BY <1>4, <3>1, <3>2
  <2> HIDE DEF I
  <2>2. first \in I /\ \A y \in I : first =< y
    BY <2>1
  <2>3. I \subseteq Int
    BY <1>2 DEF I
  <2> HIDE DEF first
  <2>4. first =< c + 1 /\ c + 1 =< first /\ first \in Int /\ c + 1 \in Int
    BY <2>1, <2>2, <2>3
  <2> QED  BY <2>4
<1>5. c + 1 # 0
  BY <1>2
<1> HIDE DEF first
<1> QED  BY <1>1, <1>3, <1>4, <1>5

LEMMA NothingIsPrefix ==
  ASSUME NEW body \in Seq(Byte)
  PROVE  IsPrefix(<<>>, Unpadded(body))
<1> DEFINE u == Unpadded(body)
           n == Len(body)
           T == {i \in 1 .. n : body[i] \notin NewLine}
<1>1. n \in Nat
  OBVIOUS
<1>2. u \in Seq(Byte)
  <2>1. CASE T = {}
    <3>1. n \in 0 .. n /\ \A k \in 1 .. n : body[k] \in NewLine
      BY <1>1, <2>1
    <3>2. u = <<>>
      BY <3>1, Unpads
    <3> QED  BY <3>2
  <2>2. CASE T # {}
    <3>1. PICK i \in 1 .. n : i \in T /\ \A j \in 1 .. i - 1 : j \notin T
      <4>1. PICK k \in 1 .. n : k \in T
        BY <2>2
      <4> HIDE DEF T
      <4> QED  BY <1>1, <4>1, LeastIndex
    <3> DEFINE c == i - 1
    <3>2. c \in 0 .. n /\ c # n /\ c + 1 = i /\ \A k \in 1 .. c : body[k] \in NewLine
      BY <1>1, <3>1
    <3> HIDE DEF c
    <3>3. body[c + 1] \notin NewLine
      BY <3>1, <3>2
    <3>4. u = SubSeq(body, c + 1, Len(body))
      <4> HIDE DEF u
      <4>1. u = Unpadded(body)
        BY DEF u
      <4> QED  BY <3>2, <3>3, <4>1, Unpads
    <3>5. \A x \in c + 1 .. Len(body) : body[x] \in Byte
      BY <3>2
    <3>6. c + 1 \in Int /\ Len(body) \in Int
      BY <1>1, <3>2
    <3>7. SubSeq(body, c + 1, Len(body)) \in Seq(Byte)
      BY <3>5, <3>6, SubSeqProperties
    <3> QED  BY <3>4, <3>7
  <2> QED  BY <2>1, <2>2
<1> HIDE DEF u
<1>3. Len(<<>>) = 0 /\ Len(u) \in Nat /\ SubSeq(<<>>, 1, 0) = <<>> /\ SubSeq(u, 1, 0) = <<>>
  BY <1>2
<1> QED  BY <1>3 DEF IsPrefix, u

\* What is left of a read, of what is left of a request.
LEMMA RestIsPrefix ==
  ASSUME NEW S, NEW s \in Seq(S), NEW t \in Seq(S), NEW a \in Nat, NEW c \in Nat,
         a <= Len(s), a + Len(t) >= Len(s) + c, c <= Len(t),
         \A k \in 1 .. Len(s) - a : s[a + k] = t[c + k]
  PROVE  /\ IsPrefix(SubSeq(s, a + 1, Len(s)), SubSeq(t, c + 1, Len(t)))
         /\ Len(s) - a = Len(t) - c => SubSeq(s, a + 1, Len(s)) = SubSeq(t, c + 1, Len(t))
<1> DEFINE n == Len(s) - a
           m == Len(t) - c
           x == SubSeq(s, a + 1, Len(s))
           y == SubSeq(t, c + 1, Len(t))
<1>1. n \in Nat /\ m \in Nat /\ n <= m /\ a + n = Len(s) /\ c + m = Len(t) /\ Len(s) \in Nat /\ Len(t) \in Nat
  OBVIOUS
<1> HIDE DEF n, m
<1>2. /\ x \in Seq(S) /\ Len(x) = n /\ \A k \in 1 .. n : x[k] = s[a + k]
  <2>1. a + 1 \in Int /\ Len(s) \in Int /\ \A i \in a + 1 .. Len(s) : s[i] \in S
    BY <1>1
  <2>2. /\ x \in Seq(S)
        /\ Len(x) = IF a + 1 <= Len(s) THEN Len(s) - (a + 1) + 1 ELSE 0
        /\ \A i \in 1 .. Len(s) - (a + 1) + 1 : x[i] = s[(a + 1) + i - 1]
    BY <2>1, SubSeqProperties
  <2>3. Len(s) - (a + 1) + 1 = n /\ (~(a + 1 <= Len(s)) => n = 0) /\ \A k \in 1 .. n : (a + 1) + k - 1 = a + k
    BY <1>1
  <2> HIDE DEF x
  <2> QED  BY <2>2, <2>3
<1>3. /\ y \in Seq(S) /\ Len(y) = m /\ \A k \in 1 .. m : y[k] = t[c + k]
  <2>1. c + 1 \in Int /\ Len(t) \in Int /\ \A i \in c + 1 .. Len(t) : t[i] \in S
    BY <1>1
  <2>2. /\ y \in Seq(S)
        /\ Len(y) = IF c + 1 <= Len(t) THEN Len(t) - (c + 1) + 1 ELSE 0
        /\ \A i \in 1 .. Len(t) - (c + 1) + 1 : y[i] = t[(c + 1) + i - 1]
    BY <2>1, SubSeqProperties
  <2>3. Len(t) - (c + 1) + 1 = m /\ (~(c + 1 <= Len(t)) => m = 0) /\ \A k \in 1 .. m : (c + 1) + k - 1 = c + k
    BY <1>1
  <2> HIDE DEF y
  <2> QED  BY <2>2, <2>3
<1> HIDE DEF x, y
<1>4. \A k \in 1 .. n : x[k] = y[k]
  <2>1. \A k \in 1 .. n : k \in 1 .. m
    BY <1>1
  <2> QED  BY <1>2, <1>3, <2>1 DEF n
<1>5. n = m => x = y
  BY <1>2, <1>3, <1>4
<1>6. IsPrefix(x, y)
  <2>1. SubSeq(x, 1, Len(x)) = [k \in 1 .. n |-> x[k]]
    BY <1>1, <1>2
  <2>2. SubSeq(y, 1, Len(x)) = [k \in 1 .. n |-> y[k]]
    BY <1>1, <1>2, <1>3
  <2>3. [k \in 1 .. n |-> x[k]] = [k \in 1 .. n |-> y[k]]
    BY <1>4
  <2> QED  BY <1>1, <1>2, <1>3, <2>1, <2>2, <2>3 DEF IsPrefix
<1> QED  BY <1>5, <1>6 DEF n, m, x, y

\* How far a read that begins with the request r has been parsed.
Nothing == m_get = <<>> /\ m_data = <<>> /\ m_flag_2n = FALSE
PathKnown(r) == m_method = Method(r.method) /\ m_path = r.path
AllKnown(r) == PathKnown(r) /\ NamesGiven(r) /\ m_get = Query(r) /\ m_data = <<>>

OnMethod(r) == m_state = "METHOD" /\ m_current = 0 /\ count <= MethodEnd(r) /\ m_path = <<>> /\ Nothing
OnPath(r) ==
  /\ m_state = "PATH" /\ m_current = MethodEnd(r) + 1 /\ m_current <= count /\ count <= PathEnd(r)
  /\ m_method = Method(r.method) /\ m_path = <<>> /\ Nothing
OnQuery(r) ==
  /\ r.options # <<>> /\ m_state = "GETOPTIONS"
  /\ m_current = PathEnd(r) + 1 /\ m_current <= count /\ count <= QueryEnd(r)
  /\ PathKnown(r) /\ Nothing
OnVersion(r) ==
  /\ m_state \in {"GETOPTIONS", "VERSION"}
  /\ m_current = QueryEnd(r) + 1 /\ m_current <= count /\ count <= VersionEnd(r)
  /\ m_flag_2n = FALSE /\ AllKnown(r)
OnHeaders(r) ==
  /\ m_state = "HEADER" /\ VersionEnd(r) + 1 <= count /\ count < HeaderEnd(r)
  /\ m_flag_2n <=> AfterLF(Written(r), VersionEnd(r) + 1, count)
  /\ AllKnown(r)
OnBody(r) ==
  /\ m_state = "BODY" /\ HeaderEnd(r) <= count /\ m_current = count
  /\ \A k \in HeaderEnd(r) + 1 .. count : Written(r)[k] \in NewLine
  /\ AllKnown(r)

Stage(r) == OnMethod(r) \/ OnPath(r) \/ OnQuery(r) \/ OnVersion(r) \/ OnHeaders(r) \/ OnBody(r)
Right == WholeRead /\ BeginningHonest
Answered == result # "running" /\ Right
Understood == read.from = 0 /\ result = "running" => Stage(read.of)

\* A step in a read that begins with the request r.
Follows(r) == read \in Reads /\ read.from = 0 /\ r = read.of /\ result = "running" /\ Positions

LEMMA Refuses ==
  ASSUME NEW r, r = read.of, read' = read, result' = "false", ~NamesGiven(r)
  PROVE  Answered'
<1>1. WholeRead'
  BY DEF WholeRead, Whole, Parsed
<1>2. BeginningHonest'
  BY DEF BeginningHonest
<1> QED  BY <1>1, <1>2 DEF Right, Answered

LEMMA Accepts ==
  ASSUME NEW r, r = read.of, read' = read, result' = "true", NamesGiven(r),
         m_method' = Method(r.method), m_path' = r.path, m_get' = Query(r),
         IsPrefix(m_data', Unpadded(r.body)),
         Whole => m_data' = IF m_method' = "POST" THEN Unpadded(r.body) ELSE <<>>
  PROVE  Answered'
<1>1. read.of' = r /\ Whole' = Whole
  BY DEF Whole
<1>2. WholeRead'
  BY <1>1 DEF WholeRead
<1>3. BeginningHonest'
  BY <1>1 DEF BeginningHonest
<1> QED  BY <1>2, <1>3 DEF Right, Answered

LEMMA Partly ==
  ASSUME NEW r, r = read.of, read' = read, result' = "true", ~Whole,
         \/ m_path' = <<>>
         \/ /\ m_method' = Method(r.method) /\ m_path' = r.path
            /\ m_get' = <<>> \/ m_get' = Query(r)
            /\ IsPrefix(m_data', Unpadded(r.body))
  PROVE  Answered'
<1>1. read.of' = r /\ Whole' = Whole
  BY DEF Whole
<1>2. WholeRead'
  BY <1>1 DEF WholeRead
<1>3. BeginningHonest'
  BY <1>1 DEF BeginningHonest
<1> QED  BY <1>2, <1>3 DEF Right, Answered

\* What the next byte may be.
LEMMA Bytes ==
  ASSUME NEW r, Follows(r), NEW w, w = Written(r)
  PROVE  /\ IsRequest(r) /\ m_raw \in Seq(Byte) /\ Len(m_raw) \in Nat /\ Len(m_raw) <= Len(w)
         /\ count \in Nat /\ count <= Len(m_raw) /\ m_current \in Nat
         /\ count < Len(m_raw) => b = w[count + 1]
         /\ \A k \in 1 .. Len(m_raw) : m_raw[k] = w[k]
<1>1. /\ IsRequest(r) /\ m_raw \in Seq(Byte) /\ Len(m_raw) \in Nat /\ Len(m_raw) <= Len(w)
      /\ \A k \in 1 .. Len(m_raw) : m_raw[k] = w[k]
  BY BeginningRead DEF Follows
<1>2. count \in 0 .. Len(m_raw) /\ m_current \in 0 .. count
  BY DEF Follows, Positions
<1>3. count < Len(m_raw) => count + 1 \in 1 .. Len(m_raw)
  BY <1>1, <1>2
<1> QED  BY <1>1, <1>2, <1>3 DEF b

LEMMA MethodStep ==
  ASSUME NEW r, Follows(r), Stage(r), ReadMethod
  PROVE  result' = "running" /\ Stage(r)'
<1> DEFINE w == Written(r)
           m == MethodEnd(r)
<1>1. OnMethod(r) /\ At("METHOD") /\ read' = read
  <2>1. At("METHOD") /\ read' = read
    BY DEF ReadMethod, NextByte, Return
  <2> QED  BY <2>1 DEF Stage, OnPath, OnQuery, OnVersion, OnHeaders, OnBody, At
<1>2. /\ IsRequest(r) /\ m_raw \in Seq(Byte) /\ Len(m_raw) \in Nat /\ count \in Nat /\ count < Len(m_raw) /\ b = w[count + 1]
      /\ \A k \in 1 .. Len(m_raw) : m_raw[k] = w[k]
  BY <1>1, Bytes DEF At
<1>3. m \in Nat /\ m # 0 /\ (\A k \in 1 .. m : w[k] # SP) /\ w[m + 1] = SP /\ m + 2 <= PathEnd(r)
  BY <1>2, WrittenBytes
<1>4. m = Len(r.method) /\ r.method \in Seq(Byte) /\ \A k \in 1 .. m : w[k] = r.method[k]
  <2>1. r.method \in Seq(Byte) /\ m = Len(r.method)
    BY <1>2, RequestParts DEF MethodEnd
  <2>2. TextIn(w, 0, r.method)
    BY <1>2, WrittenParts
  <2>3. \A k \in 1 .. m : w[0 + k] = r.method[k] /\ 0 + k = k
    BY <1>3, <2>1, <2>2 DEF TextIn
  <2> QED  BY <2>1, <2>3
<1>5. b = SP <=> count = m
  <2>1. count <= m
    BY <1>1 DEF OnMethod
  <2>2. count # m => count + 1 \in 1 .. m
    BY <1>2, <1>3, <2>1
  <2> QED  BY <1>2, <1>3, <2>2
<1> HIDE DEF w, m
<1>6. CASE b # SP /\ NextByte /\ UNCHANGED <<local, object>>
  <2>1. count' = count + 1 /\ result' = "running" /\ count' <= m
    BY <1>1, <1>2, <1>3, <1>5, <1>6 DEF NextByte, At, OnMethod, m
  <2>2. OnMethod(r)'
    BY <1>1, <1>6, <2>1 DEF OnMethod, Nothing, local, object, m
  <2> QED  BY <2>1, <2>2 DEF Stage
<1>7. CASE b = SP /\ count = m_current /\ Return("false") /\ UNCHANGED object
  BY <1>1, <1>3, <1>5, <1>7 DEF OnMethod
<1>8. CASE /\ b = SP /\ count # m_current
           /\ m_method' = Method(Part(m_current, count))
           /\ Goto("PATH") /\ NextByte
           /\ UNCHANGED <<m_path, m_get, m_data>>
  <2>1. count = m /\ m_current = 0 /\ m_path = <<>> /\ Nothing /\ m < Len(m_raw)
    BY <1>1, <1>2, <1>5, <1>8 DEF OnMethod
  <2>2. Part(m_current, count) = r.method
    <3>1. 0 + Len(r.method) <= Len(m_raw) /\ 0 + Len(r.method) = count
      BY <1>2, <1>3, <1>4, <2>1
    <3>2. \A k \in 1 .. Len(r.method) : m_raw[0 + k] = r.method[k]
      <4>1. \A k \in 1 .. Len(r.method) : k \in 1 .. Len(m_raw) /\ k \in 1 .. m /\ 0 + k = k
        BY <1>2, <1>3, <1>4, <2>1
      <4> QED  BY <1>2, <1>4, <4>1
    <3>3. Part(0, 0 + Len(r.method)) = r.method
      BY <1>2, <1>4, <3>1, <3>2, PartIs
    <3> QED  BY <2>1, <3>1, <3>3
  <2>3. m_method' = Method(r.method)
    BY <1>8, <2>2
  <2>4. result' = "running" /\ m_state' = "PATH" /\ m_current' = m + 1 /\ count' = m + 1 /\ m_flag_2n' = m_flag_2n
    BY <1>1, <1>8, <2>1 DEF At, Goto, NextByte
  <2>5. m_current' <= count' /\ count' <= PathEnd(r)
    <3>1. m + 1 <= PathEnd(r) /\ m + 1 <= m + 1
      <4>1. PathEnd(r) \in Nat
        BY <1>2, WrittenBytes
      <4> QED  BY <1>3, <4>1
    <3> QED  BY <2>4, <3>1
  <2>6. m_path' = <<>> /\ Nothing'
    BY <1>8, <2>1, <2>4 DEF Nothing
  <2>7. OnPath(r)'
    BY <2>3, <2>4, <2>5, <2>6 DEF OnPath, m
  <2> QED  BY <2>4, <2>7 DEF Stage
<1> QED  BY <1>6, <1>7, <1>8 DEF ReadMethod

\* Pairs are written with at least the sign between name and value.
LEMMA PairsFill ==
  ASSUME NEW all \in Seq(Pair), NEW text, text = Joined(Pairs(all))
  PROVE  Len(text) = 0 <=> all = <<>>
<1> DEFINE n == Len(all)
<1>1. PICK at : PairsAt(all, text, at)
  BY QueryBytes
<1>2. ASSUME all = <<>> PROVE text = <<>>
  BY <1>2, QueryBytes
<1>3. ASSUME all # <<>> PROVE Len(text) # 0
  <2>1. n \in Nat /\ n # 0 /\ 1 \in 1 .. n /\ all[1] \in Pair
    BY <1>3
  <2>2. at[1] = 0 /\ at[1 + 1] = at[1] + Len(PairText(all[1])) + 1 /\ at[1 + 1] <= Len(text) + 1
    BY <1>1, <2>1 DEF PairsAt
  <2>3. NameLen(all[1]) \in Nat /\ ValueLen(all[1]) \in Nat /\ Len(PairText(all[1])) = NameLen(all[1]) + 1 + ValueLen(all[1])
    BY <2>1, PairBytes
  <2>4. Len(PairText(all[1])) \in Nat /\ Len(PairText(all[1])) >= 1
    BY <2>3
  <2> QED  BY <2>2, <2>4
<1>4. text = <<>> => Len(text) = 0
  OBVIOUS
<1> QED  BY <1>2, <1>3, <1>4

LEMMA PairsWritten ==
  ASSUME NEW r, Options(r) \in Seq(Pair)
  PROVE  Len(QueryText(r)) = 0 <=> Options(r) = <<>>
BY PairsFill DEF QueryText

LEMMA PathStep ==
  ASSUME NEW r, Follows(r), Stage(r), ReadPath
  PROVE  result' = "running" /\ Stage(r)'
<1> DEFINE w == Written(r)
           m == MethodEnd(r)
           p == PathEnd(r)
           q == QueryEnd(r)
<1>1. OnPath(r) /\ At("PATH") /\ read' = read
  <2>1. At("PATH") /\ read' = read
    BY DEF ReadPath, NextByte, Return
  <2> QED  BY <2>1 DEF Stage, OnMethod, OnQuery, OnVersion, OnHeaders, OnBody, At
<1>2. /\ IsRequest(r) /\ m_raw \in Seq(Byte) /\ Len(m_raw) \in Nat /\ count \in Nat /\ count < Len(m_raw) /\ b = w[count + 1]
      /\ \A k \in 1 .. Len(m_raw) : m_raw[k] = w[k]
  BY <1>1, Bytes DEF At
<1>3. /\ m \in Nat /\ p \in Nat /\ m + 2 <= p /\ q \in Nat /\ p <= q
      /\ \A k \in m + 2 .. p : w[k] \notin {SP, "?"}
      /\ r.options = <<>> => q = p
      /\ r.options # <<>> => w[p + 1] = "?" /\ q = p + 1 + Len(QueryText(r))
      /\ w[q + 1] = SP
  BY <1>2, WrittenBytes
<1>4. /\ r.path \in Seq(Byte) /\ Len(r.path) \in Nat /\ p = m + 1 + Len(r.path)
      /\ \A k \in 1 .. Len(r.path) : w[(m + 1) + k] = r.path[k]
  <2>1. r.path \in Seq(Byte) /\ Len(r.path) \in Nat
    BY <1>2, RequestParts
  <2>2. TextIn(w, m + 1, r.path)
    BY <1>2, WrittenParts
  <2> QED  BY <2>1, <2>2 DEF TextIn, PathEnd
<1>5. m + 1 <= count /\ count <= p /\ m_current = m + 1
  BY <1>1 DEF OnPath
<1>6. /\ b \in {SP, "?"} <=> count = p
      /\ count = p => (b = "?" <=> r.options # <<>>)
  <2>1. count # p => count + 1 \in m + 2 .. p
    BY <1>2, <1>3, <1>5
  <2>2. count = p => b \in {SP, "?"} /\ (b = "?" <=> r.options # <<>>)
    <3>1. SP # "?"
      BY DEF SP
    <3> QED  BY <1>2, <1>3, <3>1
  <2> QED  BY <1>2, <1>3, <2>1, <2>2
<1>7. Len(QueryText(r)) \in Nat
  BY <1>2, OptionsTextParts
<1> HIDE DEF w, m, p, q
<1>8. CASE b \notin {SP, "?"} /\ NextByte /\ UNCHANGED <<local, object>>
  <2>1. count' = count + 1 /\ result' = "running" /\ m + 1 <= count' /\ count' <= p
    BY <1>1, <1>2, <1>3, <1>5, <1>6, <1>8 DEF NextByte, At
  <2>2. OnPath(r)'
    BY <1>1, <1>5, <1>8, <2>1 DEF OnPath, Nothing, local, object, m, p
  <2> QED  BY <2>1, <2>2 DEF Stage
<1>9. CASE b \in {SP, "?"} /\ count = m_current /\ Return("false") /\ UNCHANGED object
  BY <1>3, <1>5, <1>6, <1>9
<1>10. CASE /\ b \in {SP, "?"} /\ count # m_current
            /\ m_path' = Part(m_current, count)
            /\ Goto(IF b = "?" THEN "GETOPTIONS" ELSE "VERSION") /\ NextByte
            /\ UNCHANGED <<m_method, m_get, m_data>>
  <2>1. count = p /\ m_current = m + 1 /\ Nothing /\ p < Len(m_raw) /\ m_method = Method(r.method)
    BY <1>1, <1>2, <1>5, <1>6, <1>10 DEF OnPath
  <2>2. Part(m_current, count) = r.path
    <3> DEFINE x == Len(r.path)
               y == Len(m_raw)
    <3>1. count = m + 1 + x /\ m \in Nat /\ count < y /\ y \in Nat /\ x \in Nat
      BY <1>2, <1>3, <1>4, <2>1
    <3> HIDE DEF x, y
    <3>2. (m + 1) + x <= y /\ (m + 1) + x = count /\ m + 1 \in Nat
      BY ONLY <3>1
    <3>3. \A k \in 1 .. Len(r.path) : m_raw[(m + 1) + k] = r.path[k]
      <4>1. \A k \in 1 .. x : (m + 1) + k \in 1 .. y
        BY ONLY <3>1, <3>2
      <4> QED  BY <1>2, <1>4, <4>1 DEF x, y
    <3>4. Part(m + 1, (m + 1) + Len(r.path)) = r.path
      BY <1>2, <1>4, <3>2, <3>3, PartIs DEF x, y
    <3> QED  BY <2>1, <3>2, <3>4 DEF x
  <2>3. PathKnown(r)' /\ Nothing'
    <3>1. m_flag_2n' = m_flag_2n
      BY <1>10 DEF Goto
    <3> QED  BY <1>10, <2>1, <2>2, <3>1 DEF PathKnown, Nothing
  <2>4. result' = "running" /\ m_current' = p + 1 /\ count' = p + 1
    BY <1>1, <1>10, <2>1 DEF At, Goto, NextByte
  <2>5. CASE b = "?"
    <3>1. r.options # <<>> /\ m_state' = "GETOPTIONS"
      BY <1>6, <1>10, <2>1, <2>5 DEF Goto
    <3>2. m_current' <= count' /\ count' <= q
      BY <1>3, <1>7, <2>4, <3>1
    <3>3. OnQuery(r)'
      BY <2>3, <2>4, <3>1, <3>2 DEF OnQuery, p, q
    <3> QED  BY <2>4, <3>3 DEF Stage
  <2>6. CASE b # "?"
    <3>1. r.options = <<>> /\ m_state' = "VERSION"
      BY <1>6, <1>10, <2>1, <2>6 DEF Goto
    <3>2. q = p /\ NamesGiven(r) /\ Query(r) = <<>>
      BY <1>3, <3>1, NoOptions DEF Options
    <3>3. m_current' <= count' /\ count' <= VersionEnd(r)
      BY <1>3, <2>4, <3>2 DEF VersionEnd, q
    <3>4. AllKnown(r)' /\ m_flag_2n' = FALSE
      BY <2>3, <3>2 DEF AllKnown, Nothing
    <3>5. OnVersion(r)'
      BY <2>4, <3>1, <3>2, <3>3, <3>4 DEF OnVersion, q
    <3> QED  BY <2>4, <3>5 DEF Stage
  <2> QED  BY <2>5, <2>6
<1> QED  BY <1>8, <1>9, <1>10 DEF ReadPath

LEMMA QueryStep ==
  ASSUME NEW r, Follows(r), OnQuery(r), ReadOptions
  PROVE  (result' = "running" /\ Stage(r)') \/ Answered'
<1> DEFINE w == Written(r)
           p == PathEnd(r)
           q == QueryEnd(r)
           text == QueryText(r)
           n == Len(text)
<1>1. At("GETOPTIONS") /\ read' = read /\ read.of = r
  BY DEF ReadOptions, NextByte, Return, Follows
<1>2. /\ IsRequest(r) /\ m_raw \in Seq(Byte) /\ Len(m_raw) \in Nat /\ count \in Nat /\ count < Len(m_raw) /\ b = w[count + 1]
      /\ \A k \in 1 .. Len(m_raw) : m_raw[k] = w[k]
  BY <1>1, Bytes DEF At
<1>3. /\ p \in Nat /\ q \in Nat /\ q = p + 1 + n
      /\ \A k \in p + 2 .. q : w[k] \notin {SP, CR, LF}
      /\ w[q + 1] = SP
  <2>1. r.options # <<>>
    BY DEF OnQuery
  <2>2. p \in Nat /\ q \in Nat /\ w[q + 1] = SP
    BY <1>2, WrittenBytes
  <2>3. q = p + 1 + n
    BY <1>2, <2>1, WrittenBytes
  <2>4. \A k \in p + 2 .. q : w[k] \notin {SP, CR, LF}
    BY <1>2, <2>1, WrittenBytes
  <2> QED  BY <2>2, <2>3, <2>4
<1>4. n \in Nat /\ text = Joined(Pairs(Options(r))) /\ Options(r) \in Seq(Pair) /\ \A k \in 1 .. n : w[(p + 1) + k] = text[k]
  <2>1. n \in Nat
    BY <1>2, OptionsTextParts
  <2>2. TextIn(w, p, OptionsText(r))
    BY <1>2, WrittenParts
  <2>3. Len(OptionsText(r)) = 1 + n /\ \A k \in 1 .. n : OptionsText(r)[1 + k] = text[k]
    BY <1>2, OptionsTextParts DEF OnQuery
  <2>4. Options(r) \in Seq(Pair)
    BY <1>2, RequestParts
  <2>5. text = Joined(Pairs(Options(r)))
    BY DEF QueryText
  <2> DEFINE o == OptionsText(r)
  <2> HIDE DEF w, p, o, text, n
  <2>6. ASSUME NEW k \in 1 .. n PROVE w[(p + 1) + k] = text[k]
    <3>1. Len(o) = 1 + n /\ o[1 + k] = text[k] /\ \A j \in 1 .. Len(o) : w[p + j] = o[j]
      BY <2>2, <2>3 DEF TextIn, o
    <3>2. 1 + k \in 1 .. Len(o) /\ p + (1 + k) = (p + 1) + k
      BY <1>3, <2>1, <3>1
    <3>3. w[p + (1 + k)] = o[1 + k]
      BY <3>1, <3>2
    <3> QED  BY <3>1, <3>2, <3>3
  <2> QED  BY <2>1, <2>4, <2>5, <2>6
<1>5. p + 1 <= count /\ count <= q /\ m_current = p + 1
  BY DEF OnQuery
<1> HIDE DEF w, p, q, text, n
<1>6. (b \in NewLine \cup {SP} <=> count = q) /\ (count = q => b = SP)
  <2>1. count # q => count + 1 \in p + 2 .. q
    BY <1>2, <1>3, <1>5
  <2>2. NewLine = {CR, LF}
    BY DEF NewLine
  <2> QED  BY <1>2, <1>3, <2>1, <2>2
<1>7. NewLine = {CR, LF} /\ SP \notin NewLine
  BY DEF NewLine, SP, CR, LF
<1>8. CASE b \notin NewLine \cup {SP} /\ NextByte /\ UNCHANGED <<local, object>>
  <2>1. count' = count + 1 /\ result' = "running" /\ p + 1 <= count' /\ count' <= q
    BY <1>1, <1>2, <1>3, <1>5, <1>6, <1>8 DEF NextByte, At
  <2>2. OnQuery(r)'
    BY <1>5, <1>8, <2>1 DEF OnQuery, PathKnown, Nothing, local, object, p, q
  <2> QED  BY <2>1, <2>2 DEF Stage
<1>9. CASE b \in NewLine
  BY <1>6, <1>7, <1>9
<1>10. ASSUME Goto("GETOPTIONS"), NextByte, count = q, AllKnown(r)'
       PROVE  result' = "running" /\ Stage(r)'
  <2>1. result' = "running" /\ m_state' = "GETOPTIONS" /\ m_current' = q + 1 /\ count' = q + 1 /\ m_flag_2n' = FALSE
    BY <1>1, <1>10 DEF At, Goto, NextByte, OnQuery, Nothing
  <2>2. m_current' <= count' /\ count' <= VersionEnd(r)
    BY <1>3, <2>1 DEF VersionEnd, q
  <2>3. OnVersion(r)'
    BY <1>10, <2>1, <2>2 DEF OnVersion, q
  <2> QED  BY <2>1, <2>3 DEF Stage
<1>11. CASE b = SP /\ count = m_current /\ Goto("GETOPTIONS") /\ NextByte /\ UNCHANGED object
  <2>1. count = q /\ n = 0
    BY <1>3, <1>4, <1>5, <1>6, <1>11
  <2>2. Options(r) = <<>>
    BY <1>4, <2>1, PairsWritten DEF n, text
  <2>3. AllKnown(r)'
    BY <1>11, <2>2, NoOptions DEF OnQuery, PathKnown, Nothing, AllKnown, object
  <2> QED  BY <1>10, <1>11, <2>1, <2>3
<1>12. CASE /\ b = SP /\ count # m_current
            /\ m_get' = parse_urlencoded(m_current, count).get
            /\ IF ~parse_urlencoded(m_current, count).ok THEN Return("false")
               ELSE IF m_method = "GET" THEN Return("true")
               ELSE Goto("GETOPTIONS") /\ NextByte
            /\ UNCHANGED <<m_method, m_path, m_data>>
  <2> DEFINE parsed == parse_urlencoded(m_current, count)
  <2>1. count = q /\ m_current = p + 1 /\ n # 0 /\ p + 1 \in Nat /\ q \in Nat /\ q = (p + 1) + n /\ q <= Len(m_raw)
    BY <1>2, <1>3, <1>4, <1>5, <1>6, <1>12
  <2>2. Options(r) # <<>>
    BY <1>4, <2>1, PairsWritten DEF n, text
  <2>3. TextAt(p + 1, text)
    <3>1. \A k \in 1 .. n : (p + 1) + k \in 1 .. Len(m_raw)
      BY <1>2, <1>3, <1>4, <2>1
    <3>2. \A k \in 1 .. n : m_raw[(p + 1) + k] = text[k]
      BY <1>2, <1>4, <3>1
    <3> QED  BY <3>2 DEF TextAt, n
  <2>4. /\ parsed.ok = TRUE \/ parsed.ok = FALSE
        /\ parsed.ok = TRUE <=> NamesGiven(r)
        /\ parsed.ok = TRUE => parsed.get = Query(r)
    <3>1. m_get = <<>>
      BY DEF OnQuery, Nothing
    <3>2. q = (p + 1) + Len(Joined(Pairs(Options(r)))) /\ TextAt(p + 1, Joined(Pairs(Options(r))))
      BY <1>4, <2>1, <2>3 DEF n
    <3> HIDE DEF parsed
    <3>3. /\ parse_urlencoded(p + 1, q).ok = TRUE \/ parse_urlencoded(p + 1, q).ok = FALSE
          /\ parse_urlencoded(p + 1, q).ok = TRUE <=> NamesGiven(r)
          /\ parse_urlencoded(p + 1, q).ok = TRUE => parse_urlencoded(p + 1, q).get = Query(r)
      BY <1>2, <1>4, <2>1, <2>2, <3>1, <3>2, OptionsParsed
    <3>4. parsed = parse_urlencoded(p + 1, q)
      BY <2>1 DEF parsed
    <3> QED  BY <3>3, <3>4
  <2>5. PathKnown(r) /\ m_data = <<>> /\ m_get' = parsed.get /\ UNCHANGED <<m_method, m_path, m_data>>
    BY <1>12 DEF OnQuery, Nothing
  <2>6. IF ~parsed.ok THEN Return("false")
        ELSE IF m_method = "GET" THEN Return("true")
        ELSE Goto("GETOPTIONS") /\ NextByte
    BY <1>12
  <2> HIDE DEF parsed
  <2>7. CASE ~NamesGiven(r)
    <3>1. Return("false")
      BY <2>4, <2>6, <2>7
    <3>2. result' = "false"
      BY <3>1 DEF Return
    <3> QED  BY <1>1, <2>7, <3>2, Refuses
  <2>8. CASE NamesGiven(r) /\ m_method = "GET"
    <3>1. Return("true") /\ m_get' = Query(r)
      BY <2>4, <2>5, <2>6, <2>8
    <3>2. result' = "true"
      BY <3>1 DEF Return
    <3>3. m_method' = Method(r.method) /\ m_path' = r.path /\ m_data' = <<>> /\ m_method' = "GET"
      BY <2>5, <2>8 DEF PathKnown
    <3>4. IsPrefix(m_data', Unpadded(r.body))
      BY <1>2, <3>3, RequestParts, NothingIsPrefix
    <3>5. m_data' = IF m_method' = "POST" THEN Unpadded(r.body) ELSE <<>>
      BY <3>3
    <3> QED  BY <1>1, <2>8, <3>1, <3>2, <3>3, <3>4, <3>5, Accepts
  <2>9. CASE NamesGiven(r) /\ m_method # "GET"
    <3>1. Goto("GETOPTIONS") /\ NextByte /\ m_get' = Query(r)
      BY <2>4, <2>5, <2>6, <2>9
    <3>2. AllKnown(r)'
      BY <2>5, <2>9, <3>1 DEF AllKnown, PathKnown
    <3> QED  BY <1>10, <2>1, <3>1, <3>2
  <2> QED  BY <2>7, <2>8, <2>9
<1> QED  BY <1>8, <1>9, <1>11, <1>12 DEF ReadOptions

\* The word HTTP, whatever state expects it.
LEMMA WordStep ==
  ASSUME NEW r, Follows(r), OnVersion(r), ReadOptions \/ ReadVersion
  PROVE  result' = "running" /\ Stage(r)'
<1> DEFINE w == Written(r)
           q == QueryEnd(r)
           v == VersionEnd(r)
<1>1. result = "running" /\ count < Len(m_raw) /\ read' = read
  BY DEF ReadOptions, ReadVersion, NextByte, Return, At
<1>2. /\ IsRequest(r) /\ count \in Nat /\ b = w[count + 1]
  BY <1>1, Bytes
<1>3. /\ q \in Nat /\ v = q + 2 /\ v \in Nat /\ w[q + 2] = "HTTP" /\ w[v + 1] = CR /\ v + 4 <= HeaderEnd(r) /\ HeaderEnd(r) \in Nat
  BY <1>2, WrittenBytes
<1>4. q + 1 <= count /\ count <= v /\ m_current = q + 1 /\ m_flag_2n = FALSE /\ AllKnown(r) /\ m_state \in {"GETOPTIONS", "VERSION"}
  BY DEF OnVersion
<1>5. "HTTP" \notin NewLine /\ "HTTP" # SP /\ CR \in NewLine /\ CR # SP /\ SP \notin NewLine
  BY DEF NewLine, CR, LF, SP
<1> HIDE DEF w, q, v
<1>6. count = q + 1 \/ count = v
  BY <1>2, <1>3, <1>4
<1>7. CASE count = q + 1
  <2>1. b = "HTTP" /\ count = m_current /\ count # v
    <3>1. count + 1 = q + 2
      BY <1>3, <1>7
    <3> QED  BY <1>2, <1>3, <1>4, <1>7, <3>1
  <2>2. NextByte /\ UNCHANGED <<local, object>>
    BY <1>5, <2>1 DEF ReadOptions, ReadVersion
  <2>3. result' = "running" /\ count' = count + 1
    BY <1>1, <2>2 DEF NextByte
  <2>4. q + 1 <= count' /\ count' <= v
    BY <1>3, <1>7, <2>3
  <2>5. OnVersion(r)'
    BY <1>4, <2>2, <2>4 DEF OnVersion, AllKnown, PathKnown, local, object, q, v
  <2> QED  BY <2>3, <2>5 DEF Stage
<1>8. CASE count = v
  <2>1. b = CR /\ count # m_current
    BY <1>2, <1>3, <1>4, <1>8
  <2>2. Goto("HEADER") /\ NextByte /\ UNCHANGED object
    BY <1>5, <2>1 DEF ReadOptions, ReadVersion
  <2>3. result' = "running" /\ count' = v + 1 /\ m_state' = "HEADER" /\ m_flag_2n' = FALSE
    BY <1>1, <1>4, <1>8, <2>2 DEF NextByte, Goto
  <2>4. v + 1 <= count' /\ count' < HeaderEnd(r) /\ v + 1 \in v + 1 .. HeaderEnd(r) - 1
    BY <1>3, <2>3
  <2>5. ~AfterLF(w, v + 1, v + 1)
    BY <1>2, <2>4, HeaderShape DEF w, v
  <2>6. AllKnown(r)'
    BY <1>4, <2>2 DEF AllKnown, PathKnown, object
  <2>7. OnHeaders(r)'
    BY <2>3, <2>4, <2>5, <2>6 DEF OnHeaders, w, v
  <2> QED  BY <2>3, <2>7 DEF Stage
<1> QED  BY <1>6, <1>7, <1>8

LEMMA HeaderStep ==
  ASSUME NEW r, Follows(r), OnHeaders(r), ReadHeader
  PROVE  (result' = "running" /\ Stage(r)') \/ Answered'
<1> DEFINE w == Written(r)
           v == VersionEnd(r)
           h == HeaderEnd(r)
<1>1. At("HEADER") /\ read' = read /\ read.of = r /\ UNCHANGED object
  BY DEF ReadHeader, NextByte, Return, Follows
<1>2. /\ IsRequest(r) /\ count \in Nat /\ b = w[count + 1]
  BY <1>1, Bytes DEF At
<1>3. v \in Nat /\ h \in Nat /\ v + 4 <= h
  BY <1>2, WrittenBytes
<1>4. v + 1 <= count /\ count < h /\ (m_flag_2n <=> AfterLF(w, v + 1, count)) /\ AllKnown(r) /\ m_state = "HEADER"
  BY DEF OnHeaders
<1>5. count \in v + 1 .. h - 1
  BY <1>2, <1>3, <1>4
<1>6. /\ (b = LF /\ m_flag_2n) <=> count + 1 = h
      /\ b = ":" => ~m_flag_2n
  <2>1. /\ (w[count + 1] = LF /\ AfterLF(w, v + 1, count)) <=> count + 1 = h
        /\ w[count + 1] = ":" => ~AfterLF(w, v + 1, count)
    BY <1>2, <1>5, HeaderShape
  <2> HIDE DEF w, v, h
  <2> QED  BY <1>2, <1>4, <2>1
<1>7. AfterLF(w, v + 1, count + 1) <=> b = LF \/ (b \in NewLine /\ m_flag_2n)
  <2> HIDE DEF w, v, h
  <2>1. v + 1 \in Nat /\ v + 1 <= count + 1
    BY <1>2, <1>3, <1>4
  <2>2. AfterLF(w, v + 1, count + 1) <=> w[count + 1] = LF \/ (w[count + 1] \in NewLine /\ AfterLF(w, v + 1, count))
    BY <1>2, <2>1, AfterByte
  <2> QED  BY <1>2, <1>4, <2>2
<1> HIDE DEF w, v, h
<1>8. AllKnown(r)' /\ PathKnown(r)' /\ NamesGiven(r) /\ m_get' = Query(r) /\ m_data' = <<>>
  BY <1>1, <1>4 DEF AllKnown, PathKnown, object
<1>9. LF \in NewLine /\ ":" \notin NewLine
  BY DEF NewLine, LF, CR
<1>10. ASSUME NextByte, count + 1 # h, m_state' = m_state, m_flag_2n' <=> AfterLF(w, v + 1, count + 1)
       PROVE  result' = "running" /\ Stage(r)'
  <2>1. result' = "running" /\ count' = count + 1
    BY <1>1, <1>10 DEF NextByte, At
  <2>2. v + 1 <= count' /\ count' < h
    BY <1>2, <1>3, <1>4, <1>10, <2>1
  <2>3. m_flag_2n' <=> AfterLF(w, v + 1, count')
    BY <1>10, <2>1
  <2>4. OnHeaders(r)'
    BY <1>4, <1>8, <1>10, <2>2, <2>3 DEF OnHeaders, w, v, h
  <2> QED  BY <2>1, <2>4 DEF Stage
<1>11. CASE b = LF /\ m_flag_2n /\ IF m_method = "GET" THEN Return("true") ELSE Goto("BODY") /\ NextByte
  <2>1. count + 1 = h
    BY <1>6, <1>11
  <2>2. CASE m_method = "GET"
    <3>1. result' = "true" /\ m_method' = "GET"
      BY <1>1, <1>11, <2>2 DEF Return, object
    <3>2. IsPrefix(m_data', Unpadded(r.body))
      BY <1>2, <1>8, RequestParts, NothingIsPrefix
    <3>3. m_data' = IF m_method' = "POST" THEN Unpadded(r.body) ELSE <<>>
      BY <1>8, <3>1
    <3>4. m_method' = Method(r.method) /\ m_path' = r.path
      BY <1>8 DEF PathKnown
    <3> QED  BY <1>1, <1>8, <3>1, <3>2, <3>3, <3>4, Accepts
  <2>3. CASE m_method # "GET"
    <3>1. result' = "running" /\ count' = h /\ m_current' = h /\ m_state' = "BODY"
      BY <1>1, <1>11, <2>1, <2>3 DEF NextByte, Goto, At
    <3>2. h <= count' /\ \A k \in h + 1 .. count' : FALSE
      BY <1>3, <3>1
    <3>3. OnBody(r)'
      BY <1>8, <3>1, <3>2 DEF OnBody, h
    <3> QED  BY <3>1, <3>3 DEF Stage
  <2> QED  BY <2>2, <2>3
<1>12. CASE /\ b \in NewLine /\ ~(b = LF /\ m_flag_2n)
            /\ m_flag_2n' = (m_flag_2n \/ b = LF)
            /\ m_current' = count + 1
            /\ UNCHANGED <<m_state, m_cvalue>> /\ NextByte
  BY <1>6, <1>7, <1>10, <1>12
<1>13. CASE /\ b = ":" /\ m_cvalue < m_current
            /\ m_cvalue' = count + 2
            /\ UNCHANGED <<m_state, m_current, m_flag_2n>> /\ NextByte
  <2>1. ~m_flag_2n /\ b # LF /\ b \notin NewLine
    BY <1>6, <1>9, <1>13
  <2>2. m_flag_2n' = m_flag_2n
    BY <1>13
  <2> QED  BY <1>6, <1>7, <1>10, <1>13, <2>1, <2>2
<1>14. CASE /\ b \notin NewLine /\ ~(b = ":" /\ m_cvalue < m_current)
            /\ m_flag_2n' = FALSE
            /\ UNCHANGED <<m_state, m_current, m_cvalue>> /\ NextByte
  <2>1. b # LF
    BY <1>9, <1>14
  <2> QED  BY <1>6, <1>7, <1>10, <1>14, <2>1
<1> QED  BY <1>11, <1>12, <1>13, <1>14 DEF ReadHeader

\* The line breaks before a body, as far as they have been read.
LEMMA BodyRead ==
  ASSUME NEW r, Follows(r), OnBody(r)
  PROVE  /\ r.body \in Seq(Byte) /\ Len(r.body) \in Nat /\ HeaderEnd(r) \in Nat
         /\ count - HeaderEnd(r) \in 0 .. Len(r.body)
         /\ \A k \in 1 .. count - HeaderEnd(r) : r.body[k] \in NewLine
         /\ \A k \in 1 .. Len(r.body) : Written(r)[HeaderEnd(r) + k] = r.body[k]
         /\ Len(Written(r)) = HeaderEnd(r) + Len(r.body)
<1> DEFINE w == Written(r)
           h == HeaderEnd(r)
           n == Len(r.body)
<1>1. IsRequest(r) /\ count \in Nat /\ count <= Len(m_raw) /\ Len(m_raw) <= Len(w) /\ Len(m_raw) \in Nat
  BY Bytes
<1>2. r.body \in Seq(Byte) /\ n \in Nat
  BY <1>1, RequestParts
<1>3. h \in Nat
  BY <1>1, WrittenBytes
<1>4. Len(w) = h + n /\ TextIn(w, h, r.body)
  BY <1>1, WrittenParts
<1>5. h <= count /\ \A k \in h + 1 .. count : w[k] \in NewLine
  BY DEF OnBody
<1>6. \A k \in 1 .. n : w[h + k] = r.body[k]
  BY <1>4 DEF TextIn
<1> DEFINE raw == Len(m_raw)
           whole == Len(w)
<1>7. count \in Nat /\ count <= raw /\ raw <= whole /\ whole = h + n /\ raw \in Nat
  BY <1>1, <1>4
<1> HIDE DEF w, h, n, raw, whole
<1>8. count - h \in 0 .. n /\ \A k \in 1 .. count - h : k \in 1 .. n /\ h + k \in h + 1 .. count
  BY ONLY <1>2, <1>3, <1>5, <1>7
<1>9. \A k \in 1 .. count - h : r.body[k] \in NewLine
  BY <1>5, <1>6, <1>8
<1> QED  BY <1>2, <1>3, <1>4, <1>6, <1>8, <1>9 DEF w, h, n

LEMMA BodyStep ==
  ASSUME NEW r, Follows(r), OnBody(r), ReadBody
  PROVE  (result' = "running" /\ Stage(r)') \/ Answered'
<1> DEFINE w == Written(r)
           h == HeaderEnd(r)
           c == count - h
           body == r.body
           n == Len(body)
<1>1. At("BODY") /\ read' = read /\ read.of = r
  BY DEF ReadBody, NextByte, Return, Follows
<1>2. /\ m_raw \in Seq(Byte) /\ Len(m_raw) \in Nat /\ Len(m_raw) <= Len(w)
      /\ count \in Nat /\ count < Len(m_raw) /\ b = w[count + 1]
      /\ \A k \in 1 .. Len(m_raw) : m_raw[k] = w[k]
  BY <1>1, Bytes DEF At
<1>3. /\ body \in Seq(Byte) /\ n \in Nat /\ h \in Nat
      /\ c \in 0 .. n /\ \A k \in 1 .. c : body[k] \in NewLine
      /\ \A k \in 1 .. n : w[h + k] = body[k]
      /\ Len(w) = h + n
  BY BodyRead
<1>4. h <= count /\ m_current = count /\ (\A k \in h + 1 .. count : w[k] \in NewLine) /\ AllKnown(r)
  BY DEF OnBody
<1> HIDE DEF w, h, body, n
<1>5. CASE b \in NewLine /\ Goto("BODY") /\ NextByte /\ UNCHANGED object
  <2>1. result' = "running" /\ m_state' = "BODY" /\ count' = count + 1 /\ m_current' = count + 1
    BY <1>1, <1>5 DEF NextByte, Goto, At
  <2>2. h <= count' /\ \A k \in h + 1 .. count' : k \in h + 1 .. count \/ k = count + 1
    BY <1>2, <1>3, <1>4, <2>1
  <2>3. \A k \in h + 1 .. count' : w[k] \in NewLine
    BY <1>2, <1>4, <1>5, <2>2
  <2>4. AllKnown(r)'
    BY <1>4, <1>5 DEF AllKnown, PathKnown, object
  <2>5. OnBody(r)'
    BY <2>1, <2>2, <2>3, <2>4 DEF OnBody, w, h
  <2> QED  BY <2>1, <2>5 DEF Stage
<1>6. CASE /\ b \notin NewLine
           /\ m_data' = IF m_method = "POST" THEN Part(m_current, Len(m_raw)) ELSE m_data
           /\ Return("true")
           /\ UNCHANGED <<m_method, m_path, m_get>>
  <2> DEFINE raw == m_raw
             l == Len(raw)
             rest == SubSeq(raw, count + 1, l)
             left == SubSeq(body, c + 1, n)
  <2>1. raw \in Seq(Byte) /\ l \in Nat /\ l <= h + n /\ count < l /\ c \in Nat /\ h + c = count /\ c < n
    BY <1>2, <1>3, <1>4
  <2>2. body[c + 1] \notin NewLine
    <3>1. c + 1 \in 1 .. n /\ h + (c + 1) = count + 1
      BY <1>2, <1>3, <2>1
    <3> QED  BY <1>2, <1>3, <1>6, <3>1
  <2>3. Unpadded(body) = left
    <3>1. c # Len(body)
      BY <1>3, <2>1 DEF n
    <3> QED  BY <1>3, <2>2, <3>1, Unpads DEF n
  <2>4. IsPrefix(rest, left) /\ (l - count = n - c => rest = left)
    <3> HIDE DEF raw, l, c
    <3>1. \A k \in 1 .. l - count : count + k \in 1 .. l /\ c + k \in 1 .. n /\ h + (c + k) = count + k
      BY <1>2, <1>3, <2>1
    <3>2. \A k \in 1 .. l - count : raw[count + k] = w[count + k]
      BY <1>2, <3>1 DEF raw, l
    <3>3. \A k \in 1 .. l - count : w[h + (c + k)] = body[c + k]
      BY <1>3, <3>1
    <3>4. \A k \in 1 .. l - count : raw[count + k] = body[c + k]
      BY <3>1, <3>2, <3>3
    <3>5. count <= l /\ count + n >= l + c /\ c <= n
      BY <1>2, <1>3, <2>1
    <3>6. /\ IsPrefix(SubSeq(raw, count + 1, Len(raw)), SubSeq(body, c + 1, Len(body)))
          /\ Len(raw) - count = Len(body) - c => SubSeq(raw, count + 1, Len(raw)) = SubSeq(body, c + 1, Len(body))
      <4>1. raw \in Seq(Byte) /\ body \in Seq(Byte) /\ count \in Nat /\ c \in Nat
        BY <1>2, <1>3, <2>1
      <4>2. count <= Len(raw) /\ count + Len(body) >= Len(raw) + c /\ c <= Len(body)
        BY <3>5 DEF l, n
      <4>3. \A k \in 1 .. Len(raw) - count : raw[count + k] = body[c + k]
        BY <3>4 DEF l
      <4> QED  BY <4>1, <4>2, <4>3, RestIsPrefix
    <3> QED  BY <3>6 DEF l, n
  <2> HIDE DEF left, rest, c, raw, l
  <2>5. result' = "true" /\ m_method' = m_method /\ m_method' = Method(r.method) /\ m_path' = r.path
        /\ m_get' = Query(r) /\ NamesGiven(r) /\ m_data = <<>>
    BY <1>4, <1>6 DEF Return, AllKnown, PathKnown
  <2>6. m_data' = IF m_method = "POST" THEN rest ELSE <<>>
    <3>1. rest = Part(m_current, Len(m_raw))
      BY <1>4 DEF Part, rest, raw, l
    <3> QED  BY <1>6, <2>5, <3>1
  <2>7. IsPrefix(m_data', Unpadded(r.body))
    <3>1. IsPrefix(<<>>, Unpadded(body))
      BY <1>3, NothingIsPrefix
    <3> QED  BY <2>3, <2>4, <2>6, <3>1 DEF body
  <2>8. Whole => m_data' = IF m_method' = "POST" THEN Unpadded(r.body) ELSE <<>>
    <3>1. Whole => l = h + n
      <4>1. Whole => Len(m_raw) = Len(w)
        BY <1>1 DEF Whole, m_raw, w
      <4> QED  BY <1>3, <4>1 DEF l, raw
    <3>2. l = h + n => l - count = n - c
      BY <1>2, <1>3, <2>1
    <3>3. Whole => rest = Unpadded(r.body)
      BY <2>3, <2>4, <3>1, <3>2 DEF body
    <3> QED  BY <2>5, <2>6, <3>3
  <2> QED  BY <1>1, <2>5, <2>7, <2>8, Accepts
<1> QED  BY <1>5, <1>6 DEF ReadBody

\* The read ends before the parser returned.
LEMMA EndStep ==
  ASSUME NEW r, Follows(r), Stage(r), EndOfData
  PROVE  Answered'
<1> DEFINE w == Written(r)
           h == HeaderEnd(r)
<1>1. result' = "true" /\ read' = read /\ read.of = r /\ count = Len(m_raw) /\ UNCHANGED object
  BY DEF EndOfData, Return, Follows
<1>2. IsRequest(r) /\ count \in Nat /\ Len(m_raw) \in Nat
  BY Bytes
<1>3. Whole => count = Len(w)
  BY <1>1 DEF Whole, m_raw
<1>4. r.body \in Seq(Byte) /\ IsPrefix(<<>>, Unpadded(r.body))
  BY <1>2, RequestParts, NothingIsPrefix
<1>5. /\ MethodEnd(r) < Len(w) /\ PathEnd(r) < Len(w) /\ QueryEnd(r) < Len(w) /\ VersionEnd(r) < Len(w) /\ h <= Len(w)
      /\ MethodEnd(r) \in Nat /\ PathEnd(r) \in Nat /\ QueryEnd(r) \in Nat /\ VersionEnd(r) \in Nat /\ h \in Nat /\ Len(w) \in Nat
  <2> DEFINE m == MethodEnd(r)
             p == PathEnd(r)
             q == QueryEnd(r)
             v == VersionEnd(r)
             n == Len(w)
  <2>1. m \in Nat /\ p \in Nat /\ m + 2 <= p /\ q \in Nat /\ p <= q /\ v = q + 2 /\ h \in Nat /\ v + 4 <= h /\ h <= n
    BY <1>2, WrittenBytes
  <2>2. n \in Nat
    BY <1>2, WrittenParts
  <2> HIDE DEF m, p, q, v, h, n
  <2>3. m < n /\ p < n /\ q < n /\ v < n /\ v \in Nat
    BY <2>1, <2>2
  <2> QED  BY <2>1, <2>2, <2>3 DEF m, p, q, v, h, n
<1> HIDE DEF w, h
<1>6. CASE OnBody(r)
  <2>1. AllKnown(r) /\ m_data = <<>>
    BY <1>6 DEF OnBody, AllKnown
  <2>2. Whole => Unpadded(r.body) = <<>>
    <3>1. /\ r.body \in Seq(Byte) /\ Len(r.body) \in Nat /\ h \in Nat
          /\ count - h \in 0 .. Len(r.body)
          /\ \A k \in 1 .. count - h : r.body[k] \in NewLine
          /\ Len(w) = h + Len(r.body)
      BY <1>6, BodyRead DEF w, h
    <3>2. Whole => count - h = Len(r.body)
      BY <1>2, <1>3, <3>1
    <3> QED  BY <3>1, <3>2, Unpads
  <2>3. IsPrefix(m_data', Unpadded(r.body)) /\ m_data' = <<>>
    BY <1>1, <1>4, <2>1 DEF object
  <2>4. NamesGiven(r) /\ m_method' = Method(r.method) /\ m_path' = r.path /\ m_get' = Query(r)
    BY <1>1, <2>1 DEF AllKnown, PathKnown, object
  <2>5. Whole => m_data' = IF m_method' = "POST" THEN Unpadded(r.body) ELSE <<>>
    BY <2>2, <2>3
  <2> QED  BY <1>1, <2>3, <2>4, <2>5, Accepts
<1>7. CASE ~OnBody(r)
  <2>1. ~Whole
    <3>1. count # Len(w)
      BY <1>2, <1>5, <1>7 DEF Stage, OnMethod, OnPath, OnQuery, OnVersion, OnHeaders, h
    <3> QED  BY <1>3, <3>1
  <2>2. m_path = <<>> \/ (PathKnown(r) /\ (m_get = <<>> \/ m_get = Query(r)) /\ m_data = <<>>)
    BY <1>7 DEF Stage, OnMethod, OnPath, OnQuery, OnVersion, OnHeaders, AllKnown, Nothing
  <2>3. \/ m_path' = <<>>
        \/ /\ m_method' = Method(r.method) /\ m_path' = r.path
           /\ m_get' = <<>> \/ m_get' = Query(r)
           /\ IsPrefix(m_data', Unpadded(r.body))
    BY <1>1, <1>4, <2>2 DEF PathKnown, object
  <2> QED  BY <1>1, <2>1, <2>3, Partly
<1> QED  BY <1>6, <1>7

\* A read that is not the beginning of a request is not all of it.
LEMMA LaterIsPart ==
  ASSUME read \in Reads, read.from # 0
  PROVE  ~Whole
<1> DEFINE n == Len(read.text)
<1>1. read.from \in 0 .. Len(Written(read.of)) - n /\ read.text \in Seq(STRING)
  BY SentAssumption, ReadsAssumption
<1>2. n \in Nat
  BY <1>1
<1> SUFFICES ASSUME Whole PROVE FALSE
  OBVIOUS
<1>3. Len(Written(read.of)) = n
  BY DEF Whole
<1> HIDE DEF n
<1>4. n - n = 0
  BY <1>2
<1> QED  BY <1>1, <1>3, <1>4

LEMMA ParseStep ==
  ASSUME NEW r, Follows(r), Stage(r),
         ReadMethod \/ ReadPath \/ ReadOptions \/ ReadVersion \/ ReadHeader \/ ReadBody \/ EndOfData
  PROVE  (result' = "running" /\ Stage(r)') \/ Answered'
<1>1. CASE ReadMethod
  BY <1>1, MethodStep
<1>2. CASE ReadPath
  BY <1>2, PathStep
<1>3. CASE ReadOptions
  <2>1. OnQuery(r) \/ OnVersion(r)
    BY <1>3 DEF ReadOptions, At, Stage, OnMethod, OnPath, OnHeaders, OnBody
  <2> QED  BY <1>3, <2>1, QueryStep, WordStep
<1>4. CASE ReadVersion
  <2>1. OnVersion(r)
    BY <1>4 DEF ReadVersion, At, Stage, OnMethod, OnPath, OnQuery, OnHeaders, OnBody
  <2> QED  BY <1>4, <2>1, WordStep
<1>5. CASE ReadHeader
  <2>1. OnHeaders(r)
    BY <1>5 DEF ReadHeader, At, Stage, OnMethod, OnPath, OnQuery, OnVersion, OnBody
  <2> QED  BY <1>5, <2>1, HeaderStep
<1>6. CASE ReadBody
  <2>1. OnBody(r)
    BY <1>6 DEF ReadBody, At, Stage, OnMethod, OnPath, OnQuery, OnVersion, OnHeaders
  <2> QED  BY <1>6, <2>1, BodyStep
<1>7. CASE EndOfData
  BY <1>7, EndStep
<1> QED  BY <1>1, <1>2, <1>3, <1>4, <1>5, <1>6, <1>7

\* A new read begins at its first byte.
LEMMA ReceiveStep ==
  ASSUME NEW x \in Reads, Receive(x)
  PROVE  Understood' /\ Right'
<1>1. result' = "running" /\ read' = x
  BY DEF Receive
<1>2. Right'
  BY <1>1 DEF Right, WholeRead, BeginningHonest, Parsed
<1>3. ASSUME x.from = 0 PROVE Stage(x.of)'
  <2>1. MethodEnd(x.of) \in Nat
    <3>1. IsRequest(x.of)
      BY SentAssumption
    <3> QED  BY <3>1, WrittenBytes
  <2>2. 0 <= MethodEnd(x.of)
    BY <2>1
  <2>3. OnMethod(x.of)'
    BY <2>2 DEF Receive, OnMethod, Nothing
  <2> QED  BY <2>3 DEF Stage
<1>4. Understood'
  BY <1>1, <1>3 DEF Understood
<1> QED  BY <1>2, <1>4

LEMMA StepRight == Positions /\ Understood /\ Right /\ [Next]_vars => Understood' /\ Right'
<1> SUFFICES ASSUME Positions, Understood, Right, [Next]_vars
             PROVE  Understood' /\ Right'
  OBVIOUS
<1>1. ASSUME NEW x \in Reads, Receive(x)
      PROVE  Understood' /\ Right'
  BY <1>1, ReceiveStep
<1>2. ASSUME ReadMethod \/ ReadPath \/ ReadOptions \/ ReadVersion \/ ReadHeader \/ ReadBody \/ EndOfData
      PROVE  Understood' /\ Right'
  <2>1. result = "running" /\ read' = read
    BY <1>2 DEF ReadMethod, ReadPath, ReadOptions, ReadVersion, ReadHeader, ReadBody, EndOfData, At, NextByte, Return
  <2>2. read \in Reads
    BY <2>1 DEF Positions
  <2>3. CASE read.from = 0
    <3>1. PICK r : r = read.of
      OBVIOUS
    <3>2. Follows(r) /\ Stage(r)
      BY <2>1, <2>2, <2>3, <3>1 DEF Follows, Understood
    <3>3. (result' = "running" /\ Stage(r)') \/ Answered'
      BY <1>2, <3>2, ParseStep
    <3> QED  BY <2>1, <3>1, <3>3 DEF Understood, Right, Answered, WholeRead, BeginningHonest, Parsed
  <2>4. CASE read.from # 0
    <3>1. ~Whole' /\ read'.from # 0
      BY <2>1, <2>2, <2>4, LaterIsPart DEF Whole
    <3> QED  BY <3>1 DEF Understood, Right, WholeRead, BeginningHonest
  <2> QED  BY <2>3, <2>4
<1>3. CASE UNCHANGED vars
  <2>1. UNCHANGED <<read, result, count, m_state, m_current, m_cvalue, m_flag_2n, m_method, m_path, m_get, m_data>>
    BY <1>3 DEF vars, local, object
  <2>2. Right'
    BY <2>1 DEF Right, WholeRead, BeginningHonest, Parsed, Whole
  <2>3. \A r : Stage(r)' <=> Stage(r)
    BY <2>1 DEF Stage, OnMethod, OnPath, OnQuery, OnVersion, OnHeaders, OnBody, PathKnown, AllKnown, Nothing
  <2>4. Understood'
    BY <2>1, <2>3 DEF Understood
  <2> QED  BY <2>2, <2>4
<1> QED  BY <1>1, <1>2, <1>3 DEF Next

LEMMA InitRight == Init => Understood /\ Right
BY DEF Init, Understood, Right, WholeRead, BeginningHonest, Parsed

\* In every state the positions fit, and what has been parsed is right.
LEMMA AlwaysRight == Spec => []Right
<1>1. Init => Positions /\ Understood /\ Right
  BY InitType, InitRight
<1>2. Positions /\ Understood /\ Right /\ [Next]_vars => (Positions /\ Understood /\ Right)'
  BY StepPositions, StepRight
<1> QED  BY <1>1, <1>2, PTL DEF Spec

-------------------------------------------------------------------------------
(* The theorems *)

\* Whatever parts of requests the reads return, parse stands in one of its states
\* and the part it is collecting lies within the read.
THEOREM TypeCorrect == Spec => []TypeOK
<1>1. Positions /\ Flag /\ [Next]_vars => Positions' /\ Flag'
  BY StepPositions, StepFlag
<1> QED  BY InitType, TypeParts, <1>1, PTL DEF Spec

\* The method, the path, the kind of parameters and the body that parse leaves in the
\* request object are those of the read itself, whatever was read before.
THEOREM NothingStays == Spec => []NothingLeftOver
<1>1. Inv => NothingLeftOver
  BY DEF Inv
<1> QED  BY InitInv, StepInv, <1>1, PTL DEF Spec

\* A request that arrives in one read, its query string a list of name=value pairs,
\* is understood as it was written, or refused if a name is empty: parse, parse_urlencoded and unquote undo what the client wrote.
THEOREM WholeReads == Spec => []WholeRead
<1>1. Right => WholeRead
  BY DEF Right
<1> QED  BY <1>1, AlwaysRight, PTL

\* The beginning of a request is never taken for another request.
THEOREM BeginningsHonest == Spec => []BeginningHonest
<1>1. Right => BeginningHonest
  BY DEF Right
<1> QED  BY <1>1, AlwaysRight, PTL
===============================================================================
