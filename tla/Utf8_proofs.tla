------------------------------ MODULE Utf8_proofs ------------------------------
(***************************************************************************)
(* Theorems about Utf8 for all texts: which are measured, and how long     *)
(* they are.                                                               *)
(***************************************************************************)
EXTENDS Utf8, FiniteSetTheorems, TLAPS

USE TextAssumption, SizeAssumption

\* A character that mblen takes begins at byte i.
Taken(s, i) == IF encoding = "ASCII" THEN s[i] = 1 ELSE encoding = "8-bit" \/ Whole(s, i)
Width(s, i) == IF encoding = "UTF-8" THEN s[i] ELSE 1

Begun(s, n) == {i \in 1 .. n : s[i] # 0}

\* In a well-formed text the loop stands between two characters, and has counted
\* those before it.
Counting ==
  pc # "idle" /\ WellFormed(str) =>
    /\ offset <= Len(str) /\ length <= offset
    /\ pc = "done" => offset = Len(str)
    /\ offset < Len(str) => Taken(str, offset + 1)
    /\ IF encoding = "8-bit" THEN length = offset ELSE length = Cardinality(Begun(str, offset))

\* From a bad start the offset wraps to the largest number, and that is the end.
Failing ==
  pc # "idle" /\ BadStart(str) =>
    \/ pc = "loop" /\ offset = 0 /\ length = 0
    \/ offset = Size - 1 /\ length = 1

\* No character begins at byte k, and none that begins before it goes beyond it.
Barrier(s, k) ==
  /\ ~Taken(s, k)
  /\ \A i \in 1 .. k - 1 : Taken(s, i) => i + Width(s, i) <= k

\* In any other text the loop stays before such a byte.
Trapped ==
  pc # "idle" /\ ~WellFormed(str) /\ ~BadStart(str) =>
    /\ pc = "loop"
    /\ Taken(str, 1)
    /\ \E k \in 2 .. Len(str) : Barrier(str, k) /\ offset < k

Inv == TypeOK /\ Counting /\ Failing /\ Trapped

-------------------------------------------------------------------------------
(* Facts about texts *)

LEMMA TextType ==
  ASSUME TypeOK
  PROVE  str \in Seq(Nat) /\ Len(str) \in Nat /\ Len(str) < Size - 1
<1>1. CASE str \in Text
  <2>1. str \in Seq(Nat) /\ Len(str) < Size - 1
    BY <1>1
  <2> QED  BY <2>1
<1>2. CASE str = <<>>
  <2>1. Len(<<>>) = 0 /\ <<>> \in Seq(Nat)
    OBVIOUS
  <2> QED  BY <1>2, <2>1
<1> QED  BY <1>1, <1>2 DEF TypeOK

LEMMA MblenValue ==
  ASSUME TypeOK, NEW i \in 1 .. Len(str)
  PROVE  mblen(str, i) = IF Taken(str, i) THEN Width(str, i) ELSE Size - 1
  BY DEF TypeOK, mblen, Taken, Width

\* A text that is neither well-formed nor begins badly has a barrier.
LEMMA BarrierThere ==
  ASSUME TypeOK, NEW s \in Seq(Nat), ~WellFormed(s), ~BadStart(s)
  PROVE  Taken(s, 1) /\ \E k \in 2 .. Len(s) : Barrier(s, k)
<1>1. s # <<>> /\ Len(s) \in Nat /\ Len(s) >= 1
  <2>1. SUFFICES ASSUME s = <<>> PROVE FALSE
    OBVIOUS
  <2>2. DOMAIN s = {}
    BY <2>1
  <2>3. WellFormed(s)
    BY <2>1, <2>2 DEF WellFormed, TypeOK
  <2> QED  BY <2>3
<1>2. \A i \in 1 .. Len(s) : s[i] \in Nat
  OBVIOUS
<1>3. encoding \in {"UTF-8", "ASCII"}
  BY DEF TypeOK, WellFormed
<1>4. Taken(s, 1)
  BY <1>1, <1>3 DEF BadStart, Taken
<1>5. CASE encoding = "ASCII"
  <2>1. PICK k \in 1 .. Len(s) : s[k] # 1
    BY <1>5 DEF WellFormed
  <2>2. k # 1
    BY <1>4, <1>5, <2>1 DEF Taken
  <2>3. Barrier(s, k)
    BY <1>5, <2>1 DEF Barrier, Taken, Width
  <2> QED  BY <1>1, <1>4, <2>1, <2>2, <2>3
<1>6. CASE encoding = "UTF-8"
  <2>1. Whole(s, 1) /\ s[1] # 0
    BY <1>4, <1>6 DEF Taken, Whole
  <2>2. PICK i \in 1 .. Len(s) : s[i] # 0 /\ ~(Whole(s, i) /\ (i + s[i] <= Len(s) => s[i + s[i]] # 0))
    BY <1>1, <1>6, <2>1 DEF WellFormed
  <2>3. \A j \in 1 .. i - 1 : Whole(s, j) => j + s[j] <= i
    <3> SUFFICES ASSUME NEW j \in 1 .. i - 1, Whole(s, j), j + s[j] > i PROVE FALSE
      BY <1>1, <1>2
    <3> QED  BY <1>1, <1>2, <2>2 DEF Whole
  <2>4. CASE ~Whole(s, i)
    <3>1. i # 1
      BY <2>1, <2>4
    <3>2. Barrier(s, i)
      BY <1>6, <2>3, <2>4 DEF Barrier, Taken, Width
    <3> QED  BY <1>1, <1>4, <3>1, <3>2
  <2>5. CASE Whole(s, i)
    <3> DEFINE k == i + s[i]
    <3>1. k \in 2 .. Len(s) /\ s[k] = 0
      BY <1>1, <1>2, <2>2, <2>5
    <3>2. \A j \in 1 .. k - 1 : Whole(s, j) => j + s[j] <= k
      <4> SUFFICES ASSUME NEW j \in 1 .. k - 1, Whole(s, j) PROVE j + s[j] <= k
        OBVIOUS
      <4> HIDE DEF k
      <4>0. i \in Nat /\ j \in Nat /\ k \in Nat /\ s[i] \in Nat /\ k = i + s[i] /\ k <= Len(s)
        <5>1. k = i + s[i]
          BY DEF k
        <5>2. k \in Nat /\ k <= Len(s)
          BY <1>1, <3>1
        <5>3. i \in Nat /\ s[i] \in Nat
          BY <1>1, <1>2
        <5> QED  BY <5>1, <5>2, <5>3
      <4>1. CASE j < i
        <5>1. j \in 1 .. i - 1
          BY <4>0, <4>1
        <5>2. j + s[j] <= i
          BY <2>3, <5>1
        <5>3. s[j] \in Nat
          BY <1>2, <4>0, <5>1
        <5>4. i \in Nat /\ j \in Nat /\ k \in Nat /\ i <= k
          BY <4>0
        <5> QED  BY <5>2, <5>3, <5>4
      <4>2. CASE j > i
        <5>1. j \in i + 1 .. i + s[i] - 1
          BY <4>0, <4>2
        <5>2. s[j] = 0
          BY <2>5, <5>1 DEF Whole
        <5> QED  BY <5>2 DEF Whole
      <4>3. CASE j = i
        BY <4>0, <4>3
      <4> QED  BY <4>1, <4>2, <4>3
    <3>3. Barrier(s, k)
      BY <1>6, <3>1, <3>2 DEF Barrier, Taken, Width, Whole
    <3> QED  BY <1>4, <3>1, <3>3
  <2> QED  BY <2>4, <2>5
<1> QED  BY <1>3, <1>5, <1>6

\* The characters begun in a longer piece of a text.
LEMMA BegunNext ==
  ASSUME NEW s \in Seq(Nat), NEW n \in 0 .. Len(s) - 1, NEW w \in Nat \ {0}, n + w <= Len(s),
         s[n + 1] # 0, \A j \in n + 2 .. n + w : s[j] = 0
  PROVE  Cardinality(Begun(s, n + w)) = Cardinality(Begun(s, n)) + 1
<1>1. Begun(s, n + w) = Begun(s, n) \cup {n + 1}
  BY DEF Begun
<1>2. IsFiniteSet(Begun(s, n))
  <2>1. IsFiniteSet(1 .. n)
    BY FS_Interval
  <2> QED  BY <2>1, FS_Subset DEF Begun
<1>3. n + 1 \notin Begun(s, n)
  BY DEF Begun
<1> QED  BY <1>1, <1>2, <1>3, FS_AddElement

-------------------------------------------------------------------------------
(* The invariant *)

LEMMA InitInv == Init => Inv
<1> SUFFICES ASSUME Init PROVE Inv
  OBVIOUS
<1>1. TypeOK
  BY DEF Init, TypeOK
<1> QED  BY <1>1 DEF Init, Inv, Counting, Failing, Trapped

\* The two kinds of texts exclude each other.
LEMMA BadIsIll ==
  ASSUME TypeOK, NEW s \in Seq(Nat), BadStart(s)
  PROVE  ~WellFormed(s)
<1>1. 1 \in DOMAIN s /\ Len(s) \in Nat
  BY DEF BadStart
<1> QED  BY <1>1 DEF BadStart, WellFormed, TypeOK

LEMMA CallInv ==
  ASSUME Inv, NEW s \in Text, Call(s)
  PROVE  Inv'
<1>1. TypeOK'
  BY DEF Inv, TypeOK, Call
<1>2. s \in Seq(Nat) /\ Len(s) \in Nat /\ str' = s /\ TypeOK /\ encoding' = encoding
  BY DEF Inv, Call
<1>3. Counting'
  <2>1. Begun(s, 0) = {}
    BY DEF Begun
  <2>2. ASSUME WellFormed(s), 0 < Len(s) PROVE Taken(s, 1)
    <3>1. 1 \in DOMAIN s /\ s # <<>>
      BY <1>2, <2>2
    <3>2. CASE encoding = "UTF-8"
      BY <2>2, <3>1, <3>2 DEF WellFormed, Taken
    <3>3. CASE encoding = "ASCII"
      BY <2>2, <3>1, <3>3 DEF WellFormed, Taken
    <3>4. CASE encoding = "8-bit"
      BY <3>4 DEF Taken
    <3> QED  BY <1>2, <3>2, <3>3, <3>4 DEF TypeOK
  <2>3. (WellFormed(str))' <=> WellFormed(s)
    BY <1>2 DEF WellFormed, Whole
  <2>4. (Taken(str, offset + 1))' <=> Taken(s, 1)
    BY <1>2 DEF Taken, Whole, Call
  <2>5. (Begun(str, offset))' = Begun(s, 0)
    BY <1>2 DEF Begun, Call
  <2>6. Cardinality(Begun(s, 0)) = 0
    BY <2>1, FS_EmptySet
  <2>7. pc' = "loop" /\ offset' = 0 /\ length' = 0
    BY DEF Call
  <2>8. (Cardinality(Begun(str, offset)))' = 0
    BY <2>5, <2>6
  <2> QED  BY <1>2, <2>2, <2>3, <2>4, <2>7, <2>8 DEF Counting
<1>4. Failing'
  BY DEF Failing, Call
<1>5. Trapped'
  <2> SUFFICES ASSUME ~WellFormed(s), ~BadStart(s)
               PROVE  Taken(s, 1) /\ \E k \in 2 .. Len(s) : Barrier(s, k) /\ 0 < k
    BY <1>2 DEF Trapped, Call, WellFormed, BadStart, Taken, Barrier, Width, Whole
  <2>1. Taken(s, 1) /\ \E k \in 2 .. Len(s) : Barrier(s, k)
    BY <1>2, BarrierThere
  <2> QED  BY <2>1
<1> QED  BY <1>1, <1>3, <1>4, <1>5 DEF Inv

\* The step over a character of a well-formed text.
LEMMA CountingNext ==
  ASSUME Inv, Character, WellFormed(str)
  PROVE  Counting'
<1> DEFINE i == offset + 1
           w == Width(str, i)
<1>1. /\ str \in Seq(Nat) /\ Len(str) \in Nat /\ Len(str) < Size - 1
      /\ offset \in Nat /\ length \in Nat /\ Size \in Nat
  BY TextType DEF Inv, TypeOK
<1>2. /\ pc = "loop" /\ i \in 1 .. Len(str) /\ Taken(str, i) /\ length <= offset /\ TypeOK
      /\ IF encoding = "8-bit" THEN length = offset ELSE length = Cardinality(Begun(str, offset))
  BY <1>1 DEF Inv, Counting, Character
<1>3. \A j \in 1 .. Len(str) : str[j] \in Nat
  BY <1>1
<1>4. w \in Nat \ {0} /\ offset + w <= Len(str)
  BY <1>1, <1>2, <1>3 DEF Taken, Width, Whole, TypeOK
<1>5. offset' = offset + w /\ length' = length + 1
  <2>1. mblen(str, i) = w
    BY <1>2, MblenValue
  <2> QED  BY <1>1, <1>2, <1>4, <2>1 DEF Character, Plus
<1>6. str' = str /\ encoding' = encoding /\ pc' = "loop"
  BY <1>2 DEF Character
<1>7. offset + w < Len(str) => Taken(str, offset + w + 1)
  <2> SUFFICES ASSUME offset + w < Len(str) PROVE Taken(str, offset + w + 1)
    OBVIOUS
  <2> DEFINE n == i + w
  <2> HIDE DEF w
  <2>0. n \in 1 .. Len(str) /\ n = offset + w + 1
    BY <1>1, <1>4
  <2>1. CASE encoding = "UTF-8"
    <3>1. w = str[i] /\ str[i] # 0
      BY <1>2, <2>1 DEF w, Taken, Width, Whole
    <3>2. str[n] # 0
      BY <1>2, <2>0, <2>1, <3>1 DEF WellFormed
    <3> QED  BY <2>0, <2>1, <3>2 DEF WellFormed, Taken
  <2>2. CASE encoding = "ASCII"
    <3>1. n \in DOMAIN str
      BY <1>1, <2>0
    <3> QED  BY <2>0, <2>2, <3>1 DEF WellFormed, Taken
  <2>3. CASE encoding = "8-bit"
    BY <2>3 DEF Taken
  <2> QED  BY <1>2, <2>1, <2>2, <2>3 DEF TypeOK
<1>8. CASE encoding = "8-bit"
  BY <1>1, <1>2, <1>4, <1>5, <1>6, <1>7, <1>8 DEF Counting, Taken, Width, Whole
<1>9. CASE encoding # "8-bit"
  <2>1. str[offset + 1] # 0 /\ \A j \in offset + 2 .. offset + w : str[j] = 0
    BY <1>1, <1>2, <1>3, <1>9 DEF Taken, Width, Whole, TypeOK
  <2>2. Cardinality(Begun(str, offset + w)) = Cardinality(Begun(str, offset)) + 1
    <3> HIDE DEF w
    <3>1. offset \in 0 .. Len(str) - 1
      BY <1>1, <1>2
    <3> QED  BY <1>1, <1>4, <2>1, <3>1, BegunNext
  <2> HIDE DEF w
  <2>3. offset + w \in Nat /\ length' <= offset'
    BY <1>1, <1>2, <1>4, <1>5
  <2>4. length' = Cardinality(Begun(str, offset'))
    BY <1>2, <1>5, <1>9, <2>2
  <2>5. (Begun(str, offset))' = Begun(str, offset')
    BY <1>6 DEF Begun
  <2>6. offset' < Len(str) => (Taken(str, offset + 1))'
    BY <1>5, <1>6, <1>7 DEF Taken, Whole
  <2> QED  BY <1>4, <1>5, <1>6, <1>9, <2>3, <2>4, <2>5, <2>6 DEF Counting
<1> QED  BY <1>8, <1>9

\* From a bad start.
LEMMA FailingNext ==
  ASSUME Inv, Character, BadStart(str)
  PROVE  Failing'
<1>1. /\ str \in Seq(Nat) /\ Len(str) \in Nat /\ Len(str) < Size - 1
      /\ Size \in Nat /\ offset \in Nat /\ TypeOK
  BY TextType DEF Inv, TypeOK
<1>2. pc = "loop" /\ offset = 0 /\ length = 0 /\ 1 \in 1 .. Len(str)
  BY <1>1 DEF Inv, Failing, Character
<1>3. ~Taken(str, 1)
  BY <1>1 DEF BadStart, Taken, TypeOK
<1>4. mblen(str, 1) = Size - 1
  BY <1>1, <1>2, <1>3, MblenValue
<1>5. offset' = Size - 1 /\ length' = 1
  BY <1>1, <1>2, <1>4 DEF Character, Plus
<1> QED  BY <1>5 DEF Failing

\* Before a byte at which no character begins.
LEMMA TrappedNext ==
  ASSUME Inv, Character, ~WellFormed(str), ~BadStart(str)
  PROVE  Trapped'
<1>1. /\ str \in Seq(Nat) /\ Len(str) \in Nat /\ Len(str) < Size - 1
      /\ Size \in Nat /\ offset \in Nat /\ offset + 1 \in 1 .. Len(str) /\ TypeOK
  BY TextType DEF Inv, TypeOK, Character
<1>2. pc = "loop" /\ Taken(str, 1)
  BY DEF Inv, Trapped, Character
<1>3. PICK k \in 2 .. Len(str) : Barrier(str, k) /\ offset < k
  BY <1>2 DEF Inv, Trapped
<1>4. str' = str /\ encoding' = encoding /\ pc' = "loop"
  BY <1>2 DEF Character
<1>5. offset' \in Nat /\ offset' < k
  <2>1. CASE Taken(str, offset + 1)
    <3>1. Width(str, offset + 1) \in Nat
      BY <1>1 DEF Width
    <3>2. offset + 1 \in 1 .. k - 1
      BY <1>1, <1>3, <2>1 DEF Barrier
    <3>3. offset + 1 + Width(str, offset + 1) <= k
      BY <1>3, <2>1, <3>2 DEF Barrier
    <3>4. mblen(str, offset + 1) = Width(str, offset + 1)
      BY <1>1, <2>1, MblenValue
    <3> HIDE DEF Width
    <3>5. offset' = offset + Width(str, offset + 1)
      BY <1>1, <1>3, <3>1, <3>3, <3>4 DEF Character, Plus
    <3> QED  BY <1>1, <1>3, <3>1, <3>3, <3>5
  <2>2. CASE ~Taken(str, offset + 1)
    <3>1. mblen(str, offset + 1) = Size - 1
      BY <1>1, <2>2, MblenValue
    <3>2. offset # 0
      BY <1>2, <2>2
    <3>3. offset' = offset - 1
      BY <1>1, <3>1, <3>2 DEF Character, Plus
    <3> QED  BY <1>1, <1>3, <3>2, <3>3
  <2> QED  BY <2>1, <2>2
<1>6. (Taken(str, 1))' /\ (Barrier(str, k))'
  BY <1>2, <1>3, <1>4 DEF Taken, Barrier, Width, Whole
<1>7. \E j \in 2 .. Len(str') : (Barrier(str, j))' /\ offset' < j
  BY <1>3, <1>4, <1>5, <1>6
<1> QED  BY <1>4, <1>6, <1>7 DEF Trapped

LEMMA CharacterInv ==
  ASSUME Inv, Character
  PROVE  Inv'
<1>1. TypeOK /\ str \in Seq(Nat) /\ str' = str /\ encoding' = encoding /\ pc' = pc
  BY TextType DEF Inv, Character
<1>2. TypeOK'
  <2>1. /\ Size \in Nat /\ Size > 1 /\ offset \in 0 .. Size - 1 /\ length \in 0 .. Size - 1
        /\ offset + 1 \in 1 .. Len(str)
    BY TextType DEF Inv, TypeOK, Character
  <2>2. mblen(str, offset + 1) \in 0 .. Size - 1
    <3>1. mblen(str, offset + 1) = Width(str, offset + 1) \/ mblen(str, offset + 1) = Size - 1
      BY <1>1, <2>1, MblenValue
    <3>2. CASE encoding = "UTF-8" /\ Whole(str, offset + 1)
      <4>1. str[offset + 1] \in Nat /\ str[offset + 1] <= Len(str)
        BY <1>1, <2>1, <3>2 DEF Whole
      <4>2. mblen(str, offset + 1) = str[offset + 1]
        BY <3>2 DEF mblen
      <4> QED  BY <1>1, <2>1, <4>1, <4>2, TextType
    <3>3. CASE encoding = "UTF-8" /\ ~Whole(str, offset + 1)
      BY <2>1, <3>3 DEF mblen
    <3>4. CASE encoding # "UTF-8"
      BY <2>1, <3>1, <3>4 DEF Width
    <3> QED  BY <3>2, <3>3, <3>4
  <2>3. \A a, b \in 0 .. Size - 1 : Plus(a, b) \in 0 .. Size - 1
    BY <2>1 DEF Plus
  <2>4. offset' \in 0 .. Size - 1 /\ length' \in 0 .. Size - 1
    BY <2>1, <2>2, <2>3 DEF Character
  <2> QED  BY <1>1, <2>4 DEF TypeOK
<1>3. /\ (WellFormed(str))' <=> WellFormed(str)
      /\ (BadStart(str))' <=> BadStart(str)
  BY <1>1 DEF WellFormed, BadStart, Whole
<1>4. Counting'
  <2>1. CASE WellFormed(str)
    BY <2>1, CountingNext
  <2>2. CASE ~WellFormed(str)
    BY <1>3, <2>2 DEF Counting
  <2> QED  BY <2>1, <2>2
<1>5. Failing'
  <2>1. CASE BadStart(str)
    BY <2>1, FailingNext
  <2>2. CASE ~BadStart(str)
    BY <1>3, <2>2 DEF Failing
  <2> QED  BY <2>1, <2>2
<1>6. Trapped'
  <2>1. CASE ~WellFormed(str) /\ ~BadStart(str)
    BY <2>1, TrappedNext
  <2>2. CASE WellFormed(str) \/ BadStart(str)
    BY <1>3, <2>2 DEF Trapped
  <2> QED  BY <2>1, <2>2
<1> QED  BY <1>2, <1>4, <1>5, <1>6 DEF Inv

LEMMA ReturnInv ==
  ASSUME Inv, Return
  PROVE  Inv'
<1>1. /\ TypeOK /\ str \in Seq(Nat) /\ Len(str) \in Nat /\ Size \in Nat /\ offset \in Nat
      /\ Len(str) < Size - 1 /\ pc = "loop" /\ offset >= Len(str)
  BY TextType DEF Inv, TypeOK, Return
<1>2. /\ pc' = "done" /\ str' = str /\ encoding' = encoding
      /\ offset' = offset /\ length' = length
  BY DEF Return
<1>3. /\ (WellFormed(str))' <=> WellFormed(str)
      /\ (BadStart(str))' <=> BadStart(str)
  BY <1>2 DEF WellFormed, BadStart, Whole
<1>4. TypeOK'
  BY <1>1, <1>2 DEF TypeOK
<1>5. Counting'
  <2> SUFFICES ASSUME WellFormed(str) PROVE Counting'
    BY <1>3 DEF Counting
  <2>1. /\ offset = Len(str) /\ length <= offset
        /\ IF encoding = "8-bit" THEN length = offset ELSE length = Cardinality(Begun(str, offset))
    BY <1>1 DEF Inv, Counting
  <2>2. (Begun(str, offset))' = Begun(str, offset)
    BY <1>2 DEF Begun
  <2>3. (Cardinality(Begun(str, offset)))' = Cardinality(Begun(str, offset))
    BY <2>2
  <2> QED  BY <1>1, <1>2, <2>1, <2>3 DEF Counting
<1>6. Failing'
  <2> SUFFICES ASSUME BadStart(str) PROVE offset' = Size - 1 /\ length' = 1
    BY <1>3 DEF Failing
  <2>1. Len(str) # 0
    BY <1>1 DEF BadStart
  <2> QED  BY <1>1, <1>2, <2>1 DEF Inv, Failing
<1>7. WellFormed(str) \/ BadStart(str)
  BY <1>1 DEF Inv, Trapped
<1>8. Trapped'
  BY <1>3, <1>7 DEF Trapped
<1> QED  BY <1>4, <1>5, <1>6, <1>8 DEF Inv

LEMMA LeaveInv ==
  ASSUME Inv, Leave
  PROVE  Inv'
<1>1. TypeOK'
  BY DEF Inv, TypeOK, Leave
<1> QED  BY <1>1 DEF Inv, Counting, Failing, Trapped, Leave

LEMMA StepInv == Inv /\ [Next]_vars => Inv'
<1> SUFFICES ASSUME Inv, [Next]_vars PROVE Inv'
  OBVIOUS
<1>1. CASE \E s \in Text : Call(s)
  BY <1>1, CallInv
<1>2. CASE Character
  BY <1>2, CharacterInv
<1>3. CASE Return
  BY <1>3, ReturnInv
<1>4. CASE Leave
  BY <1>4, LeaveInv
<1>5. CASE UNCHANGED vars
  <2>1. TypeOK'
    BY <1>5 DEF vars, Inv, TypeOK
  <2>2. \A s, i : Taken(s, i)' = Taken(s, i) /\ Width(s, i)' = Width(s, i)
    BY <1>5 DEF vars, Taken, Whole, Width
  <2>3. \A s : WellFormed(s)' = WellFormed(s) /\ BadStart(s)' = BadStart(s)
    BY <1>5 DEF vars, WellFormed, BadStart, Whole
  <2>4. \A s, k : Barrier(s, k)' = Barrier(s, k)
    BY <2>2 DEF Barrier
  <2>5. Counting'
    BY <1>5, <2>2, <2>3 DEF vars, Inv, Counting
  <2>6. Failing' /\ Trapped'
    BY <1>5, <2>2, <2>3, <2>4 DEF vars, Inv, Failing, Trapped
  <2> QED  BY <2>1, <2>5, <2>6 DEF Inv
<1> QED  BY <1>1, <1>2, <1>3, <1>4, <1>5 DEF Next, length_utf8

LEMMA InvMeasures == Inv => LengthRight
<1> SUFFICES ASSUME Inv, pc = "done"
             PROVE  \/ WellFormed(str) /\ length = Characters(str)
                    \/ BadStart(str) /\ length = 1
  BY DEF LengthRight
<1>1. WellFormed(str) \/ BadStart(str)
  BY DEF Inv, Trapped
<1>2. CASE WellFormed(str)
  <2>1. str \in Seq(Nat) /\ DOMAIN str = 1 .. Len(str)
    BY TextType DEF Inv
  <2>2. Begun(str, Len(str)) = {i \in DOMAIN str : str[i] # 0}
    BY <2>1 DEF Begun
  <2> QED  BY <1>2, <2>2 DEF Inv, Counting, Characters
<1>3. CASE BadStart(str)
  BY <1>3 DEF Inv, Failing
<1> QED  BY <1>1, <1>2, <1>3

-------------------------------------------------------------------------------
(* The theorems *)

\* No variable of length_utf8 leaves its type, whatever the text: the offset wraps
\* at the width of size_tt and is used as an index only inside the text.
THEOREM TypeCorrect == Spec => []TypeOK
<1>1. Inv => TypeOK
  BY DEF Inv
<1> QED  BY <1>1, InitInv, StepInv, PTL DEF Spec

\* The length that length_utf8 returns is the number of characters of the text, or 1
\* for a text that does not begin with a character; of other texts it returns none.
THEOREM LengthsRight == Spec => []LengthRight
<1> QED  BY InitInv, StepInv, InvMeasures, PTL DEF Spec
===============================================================================
