------------------------------ MODULE Ages_proofs ------------------------------
(***************************************************************************)
(* Theorems about Numbers and Ages, for all types, texts, dates and ages:  *)
(* what is converted is what was written, and an age limit lets through    *)
(* those who are of the age.                                               *)
(***************************************************************************)
EXTENDS Ages, SequenceTheorems, WellFoundedInduction, TLAPS

-------------------------------------------------------------------------------
(* No conversion overflows *)

\* The number that the first i digits of test_str write.
Q(i) == IF i = 0 THEN 0 ELSE quots[i]

\* test_str is test in digits, as far as itoa has come.
Quotients ==
  /\ \A i \in 1 .. Len(quots) : quots[i] <= test
  /\ Len(quots) > 0 => quots[1] = arg * Base + test_str[1]
  /\ \A i \in 2 .. Len(quots) : quots[i] = quots[i - 1] * Base + test_str[i]
  /\ arg <= test
  /\ pc \in {"check", "digits"} => arg = 0

\* What is read so far is no more than the same number of digits of test_str
\* write, and the same only if the digits are.
ResultBelow ==
  pc = "digits" =>
    /\ Len(str) = Len(test_str)
    /\ ~Greater(str, test_str)
    /\ result \in 0 .. Q(it)
    /\ result = Q(it) => \A j \in 1 .. it : str[j] = test_str[j]

\* Before a loop runs its variables are as they were initialised.
Fresh ==
  /\ pc \in {"idle", "bits"} => quots = <<>> /\ arg = 0
  /\ pc \in {"idle", "bits", "itoa", "check"} => it = 0 /\ result = 0
  /\ pc = "idle" => temp = 1 /\ test = 0

NumInv == NumTypeOK /\ Quotients /\ ResultBelow /\ Fresh

-------------------------------------------------------------------------------

\* The size is divided by itself, and so it is even.
LEMMA SizeEven ==
  ASSUME NEW t \in Type
  PROVE  t.size \in Nat /\ t.size > 2 /\ t.size % 2 = 0 /\ t.signed \in BOOLEAN
<1>1. t.size \in Nat /\ t.size > 2 /\ t.signed \in BOOLEAN
  BY TypeAssumption
<1>2. 1 \in 1 .. t.size /\ t.size \in 1 .. t.size /\ 1 * t.size = t.size
  BY <1>1
<1>3. \A m, n \in 1 .. t.size : m * n = t.size /\ n > 1 => n % 2 = 0
  BY TypeAssumption
<1>4. t.size % 2 = 0
  BY <1>1, <1>2, <1>3
<1> QED  BY <1>1, <1>4

\* What is assigned to a variable is of its type, and what fits is not changed.
LEMMA WrapType ==
  ASSUME NEW t \in Type, NEW x \in Int
  PROVE  /\ Wrap(t, x) \in ValuesOf(t)
         /\ x \in 0 .. Largest(t) => Wrap(t, x) = x
<1>1. /\ t.size \in Nat /\ t.size > 2 /\ t.size % 2 = 0 /\ t.signed \in BOOLEAN
  BY SizeEven
<1> DEFINE n == t.size
<1>3. n = 2 * (n \div 2) /\ n \div 2 \in Nat
  BY <1>1
<1>4. x % n \in 0 .. n - 1
  BY <1>1
<1>5. /\ Least(t) \in Int /\ Largest(t) \in Nat /\ Least(t) <= 0
      /\ Largest(t) <= n - 1
      /\ \A u \in 0 .. n - 1 : u > Largest(t) => u - n \in ValuesOf(t)
  BY <1>1, <1>3 DEF Least, Largest, ValuesOf
<1>6. Wrap(t, x) \in ValuesOf(t)
  BY <1>4, <1>5 DEF Wrap, ValuesOf
<1> QED
  BY <1>5, <1>6 DEF Wrap, ValuesOf

LEMMA LargestType ==
  ASSUME NEW t \in Type
  PROVE  /\ Largest(t) \in Nat /\ 1 <= Largest(t) /\ Least(t) \in Int /\ Least(t) <= 0
         /\ ValuesOf(t) \subseteq Int
BY SizeEven DEF Largest, Least, ValuesOf

LEMMA InitInv == NumInit => NumInv
<1> SUFFICES ASSUME NumInit PROVE NumInv
  OBVIOUS
<1>1. 1 \in ValuesOf(T) /\ 0 \in ValuesOf(T) /\ 0 \in 0 .. Largest(T)
  BY LargestType DEF NumInit, ValuesOf
<1> QED
  BY <1>1 DEF NumInit, NumInv, NumTypeOK, Quotients, ResultBelow, Fresh

LEMMA CallInv ==
  ASSUME NumInv, NEW t \in Type, NEW s \in Text, Call(t, s)
  PROVE  NumInv'
<1> USE DEF NumInv, Call
<1>1. 1 \in ValuesOf(t) /\ 0 \in ValuesOf(t) /\ 0 \in 0 .. Largest(t)
  BY LargestType DEF ValuesOf
<1>2. s \in Seq(Int)
  BY TextAssumption
<1>3. NumTypeOK'
  BY <1>1, <1>2 DEF NumTypeOK, Fresh
<1> QED
  BY <1>3 DEF NumTypeOK, Quotients, ResultBelow, Fresh

LEMMA LeaveInv == NumInv /\ Leave => NumInv'
<1> SUFFICES ASSUME NumInv, Leave PROVE NumInv'
  OBVIOUS
<1> USE DEF NumInv, Leave
<1>1. 1 \in ValuesOf(T) /\ 0 \in ValuesOf(T) /\ 0 \in 0 .. Largest(T)
  BY LargestType DEF ValuesOf, NumTypeOK
<1>2. NumTypeOK'
  BY <1>1 DEF NumTypeOK
<1> QED
  BY <1>2 DEF NumTypeOK, Quotients, ResultBelow, Fresh

LEMMA AllBitsInv == NumInv /\ AllBits => NumInv'
<1> SUFFICES ASSUME NumInv, AllBits PROVE NumInv'
  OBVIOUS
<1> USE DEF NumInv, AllBits
<1>1. CASE temp # test /\ temp > 0
  <2>1. temp \in Int /\ temp \in 0 .. Largest(T)
    BY <1>1, LargestType DEF NumTypeOK, ValuesOf
  <2>2. Wrap(T, 2 * temp + 1) \in ValuesOf(T)
    BY <2>1, WrapType DEF NumTypeOK
  <2>3. NumTypeOK'
    BY <1>1, <2>1, <2>2 DEF NumTypeOK
  <2> QED
    BY <1>1, <2>1, <2>3 DEF NumTypeOK, Quotients, ResultBelow, Fresh
<1>2. CASE ~(temp # test /\ temp > 0)
  <2>1. NumTypeOK'
    BY <1>2 DEF NumTypeOK
  <2> QED
    BY <1>2, <2>1, LargestType DEF NumTypeOK, Quotients, ResultBelow, Fresh
<1> QED
  BY <1>1, <1>2

\* A digit put in front of the others, and its number in front of theirs.
LEMMA Prepend ==
  ASSUME NEW S, NEW x \in S, NEW s \in Seq(S)
  PROVE  /\ <<x>> \o s \in Seq(S)
         /\ Len(<<x>> \o s) = Len(s) + 1
         /\ (<<x>> \o s)[1] = x
         /\ \A i \in 1 .. Len(s) : (<<x>> \o s)[i + 1] = s[i]
         /\ \A i \in 2 .. Len(s) + 1 : (<<x>> \o s)[i] = s[i - 1]
OBVIOUS

LEMMA ItoaInv == NumInv /\ Itoa => NumInv'
<1> SUFFICES ASSUME NumInv, Itoa PROVE NumInv'
  OBVIOUS
<1> USE DEF NumInv, Itoa
<1>1. CASE arg # 0
  <2> DEFINE d == arg % Base
             a == arg \div Base
  <2>1. test \in Nat /\ arg \in Nat /\ test <= Largest(T) /\ Largest(T) \in Nat
    BY LargestType DEF NumTypeOK
  <2>2. d \in 0 .. Base - 1 /\ a \in Nat /\ a <= arg /\ arg = a * Base + d
    BY <2>1 DEF Base
  <2>3. test_str' = <<d>> \o test_str /\ quots' = <<arg>> \o quots /\ arg' = a
    BY <1>1
  <2> HIDE DEF d, a
  <2>4. /\ test_str' \in Seq(0 .. Base - 1) /\ Len(test_str') = Len(test_str) + 1
        /\ test_str'[1] = d /\ \A i \in 2 .. Len(test_str) + 1 : test_str'[i] = test_str[i - 1]
    BY <2>2, <2>3, Prepend DEF NumTypeOK
  <2>5. /\ quots' \in Seq(Nat) /\ Len(quots') = Len(quots) + 1
        /\ quots'[1] = arg /\ \A i \in 2 .. Len(quots) + 1 : quots'[i] = quots[i - 1]
    BY <2>1, <2>3, Prepend DEF NumTypeOK
  <2>6. NumTypeOK'
    BY <1>1, <2>1, <2>2, <2>3, <2>4, <2>5 DEF NumTypeOK
  <2>7. Len(quots) \in Nat
    BY DEF NumTypeOK
  <2>8. Quotients'
    <3> test' = test /\ arg <= test
      BY DEF Quotients
    <3>1. (\A i \in 1 .. Len(quots) : quots[i] <= test)'
      <4> SUFFICES ASSUME NEW i \in 1 .. Len(quots) + 1 PROVE quots'[i] <= test
        BY <2>5
      <4>1. CASE i = 1
        BY <2>5, <4>1
      <4>2. CASE i # 1
        <5>1. i \in 2 .. Len(quots) + 1 /\ i - 1 \in 1 .. Len(quots)
          BY <2>7, <4>2
        <5> QED  BY <2>5, <5>1 DEF Quotients
      <4> QED  BY <4>1, <4>2
    <3>2. (quots[1] = arg * Base + test_str[1])'
      BY <2>2, <2>3, <2>4, <2>5
    <3>3. ASSUME NEW i \in 2 .. Len(quots) + 1
          PROVE  quots'[i] = quots'[i - 1] * Base + test_str'[i]
      <4>1. CASE i = 2
        <5>1. quots'[2] = quots[1] /\ test_str'[2] = test_str[1] /\ Len(quots) > 0
          <6>1. Len(test_str) = Len(quots) /\ 2 \in 2 .. Len(quots) + 1 /\ Len(quots) > 0
            BY <2>7, <4>1 DEF NumTypeOK
          <6> QED  BY <2>4, <2>5, <6>1
        <5> QED  BY <2>5, <4>1, <5>1 DEF Quotients
      <4>2. CASE i > 2
        <5>1. i - 1 \in 2 .. Len(quots) /\ i \in 2 .. Len(quots) + 1 /\ Len(test_str) = Len(quots)
          BY <2>7, <4>2 DEF NumTypeOK
        <5>2. quots'[i] = quots[i - 1] /\ test_str'[i] = test_str[i - 1]
          BY <2>4, <2>5, <5>1
        <5>3. i - 1 \in 2 .. Len(quots) + 1
          BY <2>7, <5>1
        <5>4. quots'[i - 1] = quots[i - 1 - 1]
          BY <2>5, <5>3
        <5> QED  BY <5>1, <5>2, <5>4 DEF Quotients
      <4> QED  BY <4>1, <4>2, <2>7
    <3>4. arg' <= test' /\ pc' = "itoa"
      BY <1>1, <2>1, <2>2, <2>3
    <3> QED
      BY <2>5, <3>1, <3>2, <3>3, <3>4 DEF Quotients
  <2> QED
    BY <1>1, <2>6, <2>8 DEF ResultBelow, Fresh
<1>2. CASE arg = 0
  <2>1. NumTypeOK'
    BY <1>2 DEF NumTypeOK
  <2> QED
    BY <1>2, <2>1 DEF Quotients, ResultBelow, Fresh
<1> QED
  BY <1>1, <1>2

LEMMA CheckInv == NumInv /\ Check => NumInv'
<1> SUFFICES ASSUME NumInv, Check PROVE NumInv'
  OBVIOUS
<1> USE DEF NumInv, Check
<1> DEFINE padded == Padded(str, Len(test_str))
<1>1. Len(str) > Len(test_str) \/ (padded \in Seq(Int) /\ Len(padded) = Len(test_str))
  <2> SUFFICES ASSUME Len(str) <= Len(test_str)
               PROVE  padded \in Seq(Int) /\ Len(padded) = Len(test_str)
    BY DEF NumTypeOK
  <2>1. \A i \in 1 .. Len(test_str) : padded[i] \in Int
    BY DEF Padded, NumTypeOK
  <2> QED
    BY <2>1 DEF Padded, NumTypeOK
<1>2. CASE Len(str) <= Len(test_str) /\ ~Greater(padded, test_str)
  <2>1. pc' = "digits" /\ str' = padded
    BY <1>2
  <2> HIDE DEF padded
  <2>2. NumTypeOK'
    BY <1>1, <1>2, <2>1 DEF NumTypeOK, Fresh
  <2>3. ResultBelow'
    <3>1. ~Greater(str', test_str')
      BY <1>2, <2>1 DEF Greater
    <3> QED  BY <1>1, <1>2, <2>1, <3>1 DEF ResultBelow, Fresh, Q, NumTypeOK
  <2> QED
    BY <2>1, <2>2, <2>3 DEF Quotients, Fresh
<1>3. CASE ~(Len(str) <= Len(test_str) /\ ~Greater(padded, test_str))
  <2>1. pc' = "refused" /\ str' = str
    BY <1>3
  <2>2. NumTypeOK'
    BY <2>1 DEF NumTypeOK
  <2> QED
    BY <2>1, <2>2 DEF Quotients, ResultBelow, Fresh
<1> QED
  BY <1>2, <1>3

\* The value with one digit more is no more than test, and as large as the same
\* number of its digits only if all digits are the same.
LEMMA NextDigit ==
  ASSUME NumInv, pc = "digits", it < Len(str), IsDigit(str[it + 1])
  PROVE  /\ result * Base + str[it + 1] \in 0 .. Q(it + 1)
         /\ Q(it + 1) <= Largest(T)
         /\ result * Base + str[it + 1] = Q(it + 1) =>
              \A j \in 1 .. it + 1 : str[j] = test_str[j]
<1> USE DEF NumInv
<1> DEFINE c == str[it + 1]
           t == test_str[it + 1]
<1>1. /\ it \in Nat /\ it + 1 \in 1 .. Len(test_str) /\ Len(quots) = Len(test_str)
      /\ c \in 0 .. 9 /\ t \in 0 .. 9
  BY DEF NumTypeOK, ResultBelow, IsDigit, Base
<1>2. Q(it) \in Nat /\ Q(it + 1) = Q(it) * 10 + t
  <2>1. CASE it = 0
    BY <1>1, <2>1 DEF Quotients, Q, Base, NumTypeOK
  <2>2. CASE it # 0
    <3>1. it + 1 \in 2 .. Len(quots) /\ it \in 1 .. Len(quots) /\ it + 1 - 1 = it
      BY <1>1, <2>2
    <3>2. quots[it + 1] = quots[it + 1 - 1] * 10 + t
      BY <3>1 DEF Quotients, Base
    <3>3. Q(it) = quots[it] /\ Q(it + 1) = quots[it + 1]
      BY <1>1, <2>2 DEF Q
    <3>4. quots[it] \in Nat
      <4>1. quots \in Seq(Nat)
        BY DEF NumTypeOK
      <4> HIDE DEF NumInv
      <4> QED  BY <3>1, <4>1
    <3> HIDE DEF NumInv, t
    <3> QED  BY <3>1, <3>2, <3>3, <3>4
  <2> QED  BY <2>1, <2>2
<1>3. Q(it + 1) <= Largest(T)
  <2>1. Q(it + 1) <= test /\ test <= Largest(T) /\ test \in Nat
    BY <1>1, LargestType DEF Quotients, Q, NumTypeOK
  <2>2. T \in Type
    BY DEF NumTypeOK
  <2>3. Largest(T) \in Nat
    BY <2>2, LargestType
  <2> HIDE DEF NumInv, t
  <2>4. Q(it + 1) \in Int
    BY <1>1, <1>2
  <2> QED  BY <2>1, <2>3, <2>4
<1>4. result \in 0 .. Q(it) /\ (result = Q(it) => \A j \in 1 .. it : str[j] = test_str[j])
  BY DEF ResultBelow
<1>5. result = Q(it) => c <= t
  <2> SUFFICES ASSUME result = Q(it), c > t PROVE FALSE
    BY <1>1
  <2>1. it + 1 \in DOMAIN str /\ str[it + 1] > test_str[it + 1]
        /\ \A j \in 1 .. (it + 1) - 1 : str[j] = test_str[j]
    BY <1>1, <1>4 DEF NumTypeOK
  <2>2. Greater(str, test_str)
    BY <2>1 DEF Greater
  <2> QED  BY <2>2 DEF ResultBelow
<1> HIDE DEF c, t
<1>6. CASE result = Q(it)
  <2>1. result * 10 + c \in 0 .. Q(it + 1)
    BY <1>1, <1>2, <1>5, <1>6
  <2>2. result * 10 + c = Q(it + 1) => c = t
    BY <1>1, <1>2, <1>6
  <2>3. c = t => \A j \in 1 .. it + 1 : str[j] = test_str[j]
    BY <1>1, <1>4, <1>6 DEF c, t
  <2> QED  BY <1>3, <2>1, <2>2, <2>3 DEF Base, c
<1>7. CASE result # Q(it)
  <2>1. result + 1 <= Q(it) /\ result \in Nat
    BY <1>2, <1>4, <1>7
  <2>2. result * 10 + c \in 0 .. Q(it + 1) /\ result * 10 + c # Q(it + 1)
    BY <1>1, <1>2, <2>1
  <2> QED  BY <1>3, <2>2 DEF Base, c
<1> QED
  BY <1>6, <1>7

LEMMA DigitInv == NumInv /\ Digit => NumInv'
<1> SUFFICES ASSUME NumInv, Digit PROVE NumInv'
  OBVIOUS
<1>1. CASE IsDigit(str[it + 1])
  <2> DEFINE r == result * Base + str[it + 1]
  <2>1. /\ r \in 0 .. Q(it + 1) /\ Q(it + 1) <= Largest(T)
        /\ r = Q(it + 1) => \A j \in 1 .. it + 1 : str[j] = test_str[j]
    BY <1>1, NextDigit DEF Digit
  <2>2. Q(it + 1) \in Int /\ T \in Type /\ it \in Nat
    <3>1. it + 1 \in 1 .. Len(quots) /\ quots \in Seq(Nat) /\ it + 1 # 0 /\ it \in Nat
      BY DEF NumInv, NumTypeOK, ResultBelow, Digit
    <3> QED  BY <3>1 DEF Q, NumInv, NumTypeOK
  <2>3. r \in 0 .. Largest(T) /\ Largest(T) \in Nat /\ r \in Int
    BY <2>1, <2>2, LargestType
  <2>4. Wrap(T, r) = r /\ r \in ValuesOf(T)
    BY <2>2, <2>3, WrapType
  <2>5. it' = it + 1 /\ result' = r /\ pc' = pc
    BY <1>1, <2>4 DEF Digit
  <2> HIDE DEF r
  <2>6. NumTypeOK'
    BY <2>2, <2>4, <2>5 DEF Digit, NumInv, NumTypeOK
  <2>7. Q(it)' = Q(it + 1)
    BY <2>5 DEF Digit, Q
  <2>8. ResultBelow'
    BY <2>1, <2>5, <2>7 DEF Digit, NumInv, ResultBelow, Greater
  <2> QED
    BY <2>5, <2>6, <2>8 DEF Digit, NumInv, Quotients, Fresh
<1>2. CASE ~IsDigit(str[it + 1])
  <2>1. NumTypeOK'
    BY <1>2 DEF Digit, NumInv, NumTypeOK
  <2> QED
    BY <1>2, <2>1 DEF Digit, NumInv, Quotients, ResultBelow, Fresh
<1> QED
  BY <1>1, <1>2

LEMMA ReturnInv == NumInv /\ Return => NumInv'
BY DEF NumInv, Return, NumTypeOK, Quotients, ResultBelow, Fresh

LEMMA StepInv == NumInv /\ [NumNext]_numVars => NumInv'
<1> SUFFICES ASSUME NumInv, [NumNext]_numVars PROVE NumInv'
  OBVIOUS
<1>1. CASE \E t \in Type, s \in Text : Call(t, s)
  BY <1>1, CallInv
<1>2. CASE Atoi
  BY <1>2, AllBitsInv, ItoaInv, CheckInv, DigitInv, ReturnInv DEF Atoi
<1>3. CASE Leave
  BY <1>3, LeaveInv
<1>4. CASE UNCHANGED numVars
  BY <1>4 DEF numVars, NumInv, NumTypeOK, Quotients, ResultBelow, Fresh, Q, Greater
<1> QED
  BY <1>1, <1>2, <1>3, <1>4 DEF NumNext

-------------------------------------------------------------------------------

\* The types, and that test_str is made of digits.
THEOREM NumTypeCorrect == NumSpec => []NumTypeOK
<1>1. NumInv => NumTypeOK
  BY DEF NumInv
<1> QED
  BY <1>1, InitInv, StepInv, PTL DEF NumSpec

\* A text that is not greater than the largest value's digits stands for a value
\* that is not greater, whatever the type and the text, at each of its digits:
\* the multiplication never wraps round.
THEOREM NeverOverflows == NumSpec => []NoOverflow
<1>1. NumInv => NoOverflow
  <2> SUFFICES ASSUME NumInv, pc = "digits", it < Len(str), IsDigit(str[it + 1])
               PROVE  result * Base + str[it + 1] \in 0 .. Largest(T)
    BY DEF NoOverflow
  <2>1. Q(it + 1) \in Int /\ Largest(T) \in Nat
    <3>1. it + 1 \in 1 .. Len(quots) /\ quots \in Seq(Nat) /\ it + 1 # 0
      BY DEF NumInv, NumTypeOK, ResultBelow
    <3>2. Q(it + 1) = quots[it + 1]
      BY <3>1 DEF Q
    <3>3. Q(it + 1) \in Nat
      <4> HIDE DEF Q
      <4> QED  BY <3>1, <3>2, ElementOfSeq
    <3>4. Largest(T) \in Nat
      BY LargestType DEF NumInv, NumTypeOK
    <3> HIDE DEF Q
    <3> QED  BY <3>3, <3>4
  <2> QED  BY <2>1, NextDigit
<1> QED
  BY <1>1, InitInv, StepInv, PTL DEF NumSpec

-------------------------------------------------------------------------------
(* What digits write *)

\* Induction up to n.  The library's theorems of induction have an operator as a
\* parameter; here the induction hypothesis is a set.
LEMMA UpTo ==
  ASSUME NEW n \in Nat, NEW S, 0 \in S, \A i \in 0 .. n - 1 : i \in S => i + 1 \in S
  PROVE  \A i \in 0 .. n : i \in S
<1> DEFINE bad == {i \in 0 .. n : i \notin S}
<1> SUFFICES ASSUME bad # {} PROVE FALSE
  OBVIOUS
<1>1. bad \subseteq Nat
  OBVIOUS
<1>2. \E i \in bad : \A m \in bad : ~(<<m, i>> \in OpToRel(<, Nat))
  <2> HIDE DEF bad
  <2> QED  BY <1>1, NatLessThanWellFounded, WFMin, Zenon
<1>3. \A m, i \in Nat : m < i => <<m, i>> \in OpToRel(<, Nat)
  BY DEF OpToRel
<1>4. PICK i \in bad : \A m \in bad : ~(m < i)
  <2> HIDE DEF bad
  <2> QED  BY <1>1, <1>2, <1>3, Zenon
<1>5. i \in 0 .. n /\ i # 0
  OBVIOUS
<1>6. i - 1 \in 0 .. n - 1 /\ i - 1 + 1 = i /\ i - 1 < i
  BY <1>5
<1>7. i - 1 \in S
  BY <1>4, <1>6
<1> QED  BY <1>6, <1>7

\* v holds the values of all beginnings of s.
Values(v, s) ==
  /\ v \in [0 .. Len(s) -> Int]
  /\ v[0] = 0
  /\ \A i \in 1 .. Len(s) : v[i] = 10 * v[i - 1] + s[i]

\* There are such values.
LEMMA ValuesExist ==
  ASSUME NEW s \in Seq(Int)
  PROVE  \E v : Values(v, s)
<1> DEFINE Upto(g, n) == /\ g \in [0 .. n -> Int] /\ g[0] = 0
                         /\ \A i \in 1 .. n : g[i] = 10 * g[i - 1] + s[i]
           S == {n \in 0 .. Len(s) : \E g : Upto(g, n)}
<1>1. 0 \in S
  <2>1. Upto([i \in 0 .. 0 |-> 0], 0)
    OBVIOUS
  <2>2. 0 \in 0 .. Len(s)
    OBVIOUS
  <2> QED  BY <2>1, <2>2
<1>2. ASSUME NEW n \in 0 .. Len(s) - 1, n \in S PROVE n + 1 \in S
  <2>1. PICK g : Upto(g, n)
    BY <1>2
  <2> DEFINE h == [i \in 0 .. n + 1 |-> IF i = n + 1 THEN 10 * g[n] + s[n + 1] ELSE g[i]]
  <2>2. s[n + 1] \in Int /\ n \in Nat /\ n + 1 \in 0 .. Len(s)
    BY ElementOfSeq
  <2>3. h \in [0 .. n + 1 -> Int] /\ h[0] = 0
    BY <2>1, <2>2
  <2>4. ASSUME NEW i \in 1 .. n + 1 PROVE h[i] = 10 * h[i - 1] + s[i]
    <3>1. CASE i = n + 1
      BY <2>2, <3>1
    <3>2. CASE i # n + 1
      <4>1. i \in 1 .. n /\ i - 1 \in 0 .. n /\ i - 1 # n + 1
        BY <2>2, <3>2
      <4>2. h[i] = g[i] /\ h[i - 1] = g[i - 1]
        BY <2>2, <3>2, <4>1
      <4> QED  BY <2>1, <4>1, <4>2
    <3> QED  BY <3>1, <3>2
  <2>5. Upto(h, n + 1)
    <3> HIDE DEF h
    <3> QED  BY <2>3, <2>4
  <2> QED  BY <2>2, <2>5
<1>3. Len(s) \in S
  <2> HIDE DEF S
  <2>3. Len(s) \in 0 .. Len(s)
    OBVIOUS
  <2>1. Len(s) \in Nat
    OBVIOUS
  <2>2. \A i \in 0 .. Len(s) - 1 : i \in S => i + 1 \in S
    BY <1>2
  <2> QED  BY <1>1, <2>1, <2>2, <2>3, UpTo, Zenon
<1> QED  BY <1>3 DEF Values

\* The value with one digit more.
LEMMA ValuesNext ==
  ASSUME NEW s \in Seq(Int), NEW v, Values(v, s), NEW n \in 0 .. Len(s) - 1
  PROVE  v[n] \in Int /\ v[n + 1] \in Int /\ s[n + 1] \in Int /\ v[n + 1] = 10 * v[n] + s[n + 1]
<1>1. n + 1 \in 1 .. Len(s) /\ n + 1 - 1 = n /\ n \in 0 .. Len(s) /\ n + 1 \in 0 .. Len(s)
  OBVIOUS
<1>2. s[n + 1] \in Int
  BY <1>1, ElementOfSeq
<1>3. v \in [0 .. Len(s) -> Int] /\ v[n + 1] = 10 * v[n + 1 - 1] + s[n + 1]
  BY <1>1 DEF Values
<1>4. v[n] \in Int /\ v[n + 1] \in Int
  BY <1>1, <1>3
<1>5. v[n + 1] = 10 * v[n] + s[n + 1]
  BY <1>1, <1>3, Zenon
<1> QED  BY <1>2, <1>4, <1>5

\* There is one such function only.
LEMMA ValuesUnique ==
  ASSUME NEW s \in Seq(Int), NEW v, Values(v, s), NEW w, Values(w, s)
  PROVE  v = w
<1> DEFINE S == {i \in 0 .. Len(s) : v[i] = w[i]}
<1>1. 0 \in S
  BY DEF Values
<1>2. ASSUME NEW n \in 0 .. Len(s) - 1, n \in S PROVE n + 1 \in S
  <2>1. v[n + 1] = 10 * v[n] + s[n + 1] /\ w[n + 1] = 10 * w[n] + s[n + 1]
    BY ValuesNext
  <2> QED  BY <1>2, <2>1
<1>3. \A i \in 0 .. Len(s) : i \in S
  <2> HIDE DEF S
  <2>1. Len(s) \in Nat
    OBVIOUS
  <2>2. \A i \in 0 .. Len(s) - 1 : i \in S => i + 1 \in S
    BY <1>2
  <2> QED  BY <1>1, <2>1, <2>2, UpTo, Zenon
<1> QED  BY <1>3 DEF Values

\* Value is the last of them.
LEMMA ValueIs ==
  ASSUME NEW s \in Seq(Int), NEW v, Values(v, s)
  PROVE  Value(s) = v[Len(s)]
<1> DEFINE R(g) == [i \in 0 .. Len(s) |-> IF i = 0 THEN 0 ELSE 10 * g[i - 1] + s[i]]
           c == CHOOSE g : g = R(g)
<1>1. v = R(v)
  BY DEF Values
<1>2. c = R(c)
  BY <1>1
<1>3. Value(s) = c[Len(s)]
  BY DEF Value
<1> HIDE DEF c
<1> DEFINE S == {i \in 0 .. Len(s) : c[i] = v[i]}
<1>4. 0 \in S
  BY <1>1, <1>2
<1>5. ASSUME NEW n \in 0 .. Len(s) - 1, n \in S PROVE n + 1 \in S
  <2>1. n + 1 \in 0 .. Len(s) /\ n + 1 - 1 = n /\ n + 1 # 0
    OBVIOUS
  <2>2. c[n + 1] = 10 * c[n] + s[n + 1]
    BY <1>2, <2>1
  <2>3. v[n + 1] = 10 * v[n] + s[n + 1]
    BY <1>1, <2>1
  <2> QED  BY <1>5, <2>1, <2>2, <2>3
<1>6. \A i \in 0 .. Len(s) : i \in S
  <2> HIDE DEF S
  <2>1. Len(s) \in Nat
    OBVIOUS
  <2>2. \A i \in 0 .. Len(s) - 1 : i \in S => i + 1 \in S
    BY <1>5
  <2> QED  BY <1>4, <2>1, <2>2, UpTo, Zenon
<1> QED  BY <1>3, <1>6

\* What is written with digits is not negative.
LEMMA ValuesNat ==
  ASSUME NEW s \in Seq(0 .. 9), NEW v, Values(v, s)
  PROVE  \A i \in 0 .. Len(s) : v[i] \in Nat
<1> DEFINE S == {i \in 0 .. Len(s) : v[i] \in Nat}
<1>1. 0 \in S
  BY DEF Values
<1>2. ASSUME NEW n \in 0 .. Len(s) - 1, n \in S PROVE n + 1 \in S
  <2>1. n + 1 \in 1 .. Len(s) /\ n + 1 - 1 = n /\ s[n + 1] \in 0 .. 9
    OBVIOUS
  <2> QED  BY <1>2, <2>1 DEF Values
<1>3. \A i \in 0 .. Len(s) : i \in S
  <2> HIDE DEF S
  <2>1. Len(s) \in Nat
    OBVIOUS
  <2>2. \A i \in 0 .. Len(s) - 1 : i \in S => i + 1 \in S
    BY <1>2
  <2> QED  BY <1>1, <2>1, <2>2, UpTo, Zenon
<1> QED  BY <1>3

\* Of two numerals with as many digits, the greater text is the greater number.
LEMMA GreaterValue ==
  ASSUME NEW s \in Seq(0 .. 9), NEW t \in Seq(0 .. 9), Len(s) = Len(t), Greater(s, t)
  PROVE  Value(s) > Value(t)
<1>0. s \in Seq(Int) /\ t \in Seq(Int)
  OBVIOUS
<1>1. PICK v : Values(v, s)
  BY <1>0, ValuesExist
<1>2. PICK w : Values(w, t)
  BY <1>0, ValuesExist
<1>3. PICK k \in 1 .. Len(s) : s[k] > t[k] /\ \A j \in 1 .. k - 1 : s[j] = t[j]
  BY DEF Greater
<1> DEFINE S == {i \in 0 .. Len(s) : /\ i < k => v[i] = w[i]
                                     /\ i >= k => v[i] > w[i]}
<1>4. 0 \in S
  BY <1>1, <1>2 DEF Values
<1>5. ASSUME NEW n \in 0 .. Len(s) - 1, n \in S PROVE n + 1 \in S
  <2>1. n + 1 \in 1 .. Len(s) /\ n + 1 - 1 = n /\ s[n + 1] \in 0 .. 9 /\ t[n + 1] \in 0 .. 9
    OBVIOUS
  <2>2. v[n + 1] = 10 * v[n] + s[n + 1] /\ w[n + 1] = 10 * w[n] + t[n + 1]
        /\ v[n] \in Int /\ w[n] \in Int
    BY <1>0, <1>1, <1>2, ValuesNext
  <2>3. n + 1 < k => s[n + 1] = t[n + 1]
    BY <1>3
  <2>4. n + 1 = k => s[n + 1] > t[n + 1]
    BY <1>3
  <2>9. k \in Int /\ n \in Int
    OBVIOUS
  <2> HIDE DEF S
  <2>5. (n < k => v[n] = w[n]) /\ (n >= k => v[n] > w[n])
    BY <1>5 DEF S
  <2>10. \A a, c \in Int, x, y \in 0 .. 9 :
           (a = c /\ x > y) \/ a > c => 10 * a + x > 10 * c + y
    OBVIOUS
  <2>6. n + 1 < k => v[n + 1] = w[n + 1]
    BY <2>2, <2>3, <2>5
  <2>7. ASSUME n + 1 = k PROVE v[n + 1] > w[n + 1]
    <3>1. v[n] = w[n]
      BY <2>5, <2>7, <2>9
    <3>2. 10 * v[n] + s[n + 1] > 10 * w[n] + t[n + 1]
      BY <2>1, <2>2, <2>4, <2>7, <2>10, <3>1, Zenon
    <3> QED  BY <2>2, <3>2, Zenon
  <2>8. ASSUME n + 1 > k PROVE v[n + 1] > w[n + 1]
    <3>1. v[n] > w[n]
      BY <2>5, <2>8, <2>9
    <3>2. 10 * v[n] + s[n + 1] > 10 * w[n] + t[n + 1]
      BY <2>1, <2>2, <2>10, <3>1, Zenon
    <3> QED  BY <2>2, <3>2, Zenon
  <2> QED  BY <2>1, <2>6, <2>7, <2>8 DEF S
<1>6. Len(s) \in S
  <2> HIDE DEF S
  <2>3. Len(s) \in 0 .. Len(s)
    OBVIOUS
  <2>1. Len(s) \in Nat
    OBVIOUS
  <2>2. \A i \in 0 .. Len(s) - 1 : i \in S => i + 1 \in S
    BY <1>5
  <2> QED  BY <1>4, <2>1, <2>2, <2>3, UpTo, Zenon
<1>7. v[Len(s)] > w[Len(s)]
  BY <1>6
<1> QED  BY <1>0, <1>1, <1>2, <1>7, ValueIs

\* Zeros in front do not count.
LEMMA PaddedValue ==
  ASSUME NEW s \in Seq(Int), NEW n \in Nat, Len(s) <= n
  PROVE  Padded(s, n) \in Seq(Int) /\ Len(Padded(s, n)) = n /\ Value(Padded(s, n)) = Value(s)
<1> DEFINE p == Padded(s, n)
           d == n - Len(s)
<1>0. d \in Nat /\ n = Len(s) + d
  OBVIOUS
<1>1. \A i \in 1 .. n : p[i] = IF i <= d THEN 0 ELSE s[i - d]
  BY DEF Padded
<1>2. p \in Seq(Int) /\ Len(p) = n
  <2>1. \A i \in 1 .. n : p[i] \in Int
    BY <1>0, <1>1, ElementOfSeq
  <2> QED  BY <2>1 DEF Padded
<1> HIDE DEF p
<1>3. PICK v : Values(v, s)
  BY ValuesExist
<1>4. PICK w : Values(w, p)
  BY <1>2, ValuesExist
<1> DEFINE S == {i \in 0 .. n : w[i] = IF i <= d THEN 0 ELSE v[i - d]}
<1> HIDE DEF d
<1>5. 0 \in S
  BY <1>0, <1>4 DEF Values
<1>6. ASSUME NEW i \in 0 .. n - 1, i \in S PROVE i + 1 \in S
  <2>1. i + 1 \in 1 .. n /\ i + 1 - 1 = i
    OBVIOUS
  <2>2. w[i + 1] = 10 * w[i] + p[i + 1]
    BY <1>2, <1>4, <2>1 DEF Values
  <2>3. CASE i + 1 <= d
    <3>1. w[i] = 0 /\ p[i + 1] = 0
      BY <1>0, <1>1, <1>6, <2>1, <2>3
    <3> QED  BY <2>1, <2>2, <2>3, <3>1
  <2>4. CASE i + 1 > d
    <3>1. i - d \in 0 .. Len(s) - 1 /\ i - d + 1 \in 1 .. Len(s) /\ i + 1 - d = i - d + 1
      BY <1>0, <2>4
    <3>2. v[i - d + 1] = 10 * v[i - d] + s[i - d + 1] /\ v[0] = 0
      BY <1>3, <3>1, ValuesNext DEF Values
    <3>3. w[i] = v[i - d]
      <4>1. CASE i <= d
        <5>1. i - d = 0
          BY <1>0, <2>4, <4>1
        <5> QED  BY <1>6, <3>2, <4>1, <5>1
      <4>2. CASE i > d
        BY <1>0, <1>6, <4>2
      <4> QED  BY <4>1, <4>2, <1>0
    <3>4. p[i + 1] = s[i - d + 1]
      BY <1>0, <1>1, <2>1, <2>4, <3>1
    <3> QED  BY <1>0, <2>1, <2>2, <2>4, <3>1, <3>2, <3>3, <3>4
  <2> QED  BY <1>0, <2>3, <2>4
<1>7. n \in S
  <2> HIDE DEF S
  <2>1. n \in 0 .. n
    OBVIOUS
  <2>2. \A i \in 0 .. n - 1 : i \in S => i + 1 \in S
    BY <1>6
  <2> QED  BY <1>5, <2>1, <2>2, UpTo, Zenon
<1>8. w[n] = v[Len(s)]
  <2>1. CASE Len(s) = 0
    BY <1>0, <1>3, <1>7, <2>1 DEF Values
  <2>2. CASE Len(s) # 0
    BY <1>0, <1>7, <2>2
  <2> QED  BY <2>1, <2>2
<1> QED  BY <1>2, <1>3, <1>4, <1>8, ValueIs DEF p

-------------------------------------------------------------------------------
(* How many digits a number has *)

One(k) == [i \in 1 .. k |-> IF i = 1 THEN 1 ELSE 0]

LEMMA OneType ==
  ASSUME NEW k \in Nat
  PROVE  /\ One(k) \in Seq(Int) /\ Len(One(k)) = k
         /\ \A i \in 1 .. k : One(k)[i] = IF i = 1 THEN 1 ELSE 0
<1>1. \A i \in 1 .. k : One(k)[i] \in Int
  BY DEF One
<1> QED  BY <1>1 DEF One

\* The least number of one digit is 1, and a digit more makes it ten times as much.
LEMMA LeastOfNext ==
  ASSUME NEW k \in Nat \ {0}
  PROVE  LeastOf(1) = 1 /\ LeastOf(k) \in Int /\ LeastOf(k + 1) = 10 * LeastOf(k)
<1>1. ASSUME NEW m \in Nat PROVE LeastOf(m) = Value(One(m))
  BY DEF LeastOf, One
<1>2. One(k + 1) \in Seq(Int) /\ Len(One(k + 1)) = k + 1 /\ One(k + 1)[k + 1] = 0
      /\ One(k) \in Seq(Int) /\ Len(One(k)) = k
  BY OneType
<1>3. PICK v : Values(v, One(k + 1))
  BY <1>2, ValuesExist
<1>4. v[k] \in Int /\ v[k + 1] = 10 * v[k]
  <2>1. k \in 0 .. Len(One(k + 1)) - 1
    BY <1>2
  <2>2. v[k] \in Int /\ v[k + 1] = 10 * v[k] + 0
    BY <1>2, <1>3, <2>1, ValuesNext
  <2> QED  BY <2>2
<1>5. ASSUME NEW m \in 0 .. k PROVE LeastOf(m) = v[m]
  <2> DEFINE w == [i \in 0 .. m |-> v[i]]
  <2>1. One(m) \in Seq(Int) /\ Len(One(m)) = m
    BY OneType
  <2>2. \A i \in 1 .. m : One(m)[i] = One(k + 1)[i] /\ i \in 1 .. k + 1
    BY OneType
  <2>3. Values(w, One(m))
    <3>1. \A i \in 0 .. m : w[i] = v[i] /\ i \in 0 .. k + 1
      OBVIOUS
    <3>2. w \in [0 .. m -> Int] /\ w[0] = 0
      <4>1. v \in [0 .. k + 1 -> Int] /\ v[0] = 0
        BY <1>2, <1>3 DEF Values
      <4>2. \A i \in 0 .. m : v[i] \in Int
        <5> HIDE DEF w
        <5> QED  BY <3>1, <4>1
      <4>3. 0 \in 0 .. m
        OBVIOUS
      <4> QED  BY <4>1, <4>2, <4>3
    <3>3. ASSUME NEW i \in 1 .. m PROVE w[i] = 10 * w[i - 1] + One(m)[i]
      <4>1. i - 1 \in 0 .. m /\ i \in 0 .. m /\ i \in 1 .. k + 1
        OBVIOUS
      <4>2. v[i] = 10 * v[i - 1] + One(k + 1)[i]
        BY <1>2, <1>3, <4>1 DEF Values
      <4> HIDE DEF w
      <4> QED  BY <2>2, <3>1, <4>1, <4>2
    <3> HIDE DEF w
    <3> QED  BY <2>1, <3>2, <3>3 DEF Values
  <2>4. Value(One(m)) = w[m]
    BY <2>1, <2>3, ValueIs
  <2> QED  BY <1>1, <2>4
<1>6. LeastOf(k + 1) = v[k + 1]
  BY <1>1, <1>2, <1>3, ValueIs
<1>7. v[1] = 1
  <2>1. 0 \in 0 .. Len(One(k + 1)) - 1 /\ One(k + 1)[1] = 1
    <3>1. k + 1 \in Nat /\ 1 \in 1 .. k + 1 /\ 0 \in 0 .. k + 1 - 1
      OBVIOUS
    <3>2. One(k + 1)[1] = 1
      <4>1. \A i \in 1 .. k + 1 : One(k + 1)[i] = IF i = 1 THEN 1 ELSE 0
        BY <3>1, OneType
      <4> QED  BY <3>1, <4>1
    <3> QED  BY <1>2, <3>1, <3>2
  <2>2. v[0 + 1] = 10 * v[0] + 1
    BY <1>2, <1>3, <2>1, ValuesNext
  <2>3. v[0] = 0
    BY <1>3 DEF Values
  <2> QED  BY <2>2, <2>3
<1>8. LeastOf(k) = v[k] /\ LeastOf(1) = v[1]
  BY <1>5
<1> QED  BY <1>4, <1>6, <1>7, <1>8

\* The least numbers grow with their digits, and faster than the digits' number.
LEMMA LeastOfGrows ==
  ASSUME NEW n \in Nat, NEW m \in 1 .. n
  PROVE  LeastOf(m) \in Nat /\ LeastOf(n) \in Nat /\ m <= LeastOf(m) /\ LeastOf(m) <= LeastOf(n)
<1> DEFINE S == {k \in 0 .. n : /\ k >= 1 => LeastOf(k) \in Nat /\ k <= LeastOf(k)
                                /\ k >= m => LeastOf(m) <= LeastOf(k)}
<1>0. LeastOf(m) \in Int
  BY LeastOfNext
<1>1. 0 \in S
  OBVIOUS
<1>2. ASSUME NEW k \in 0 .. n - 1, k \in S PROVE k + 1 \in S
  <2>1. CASE k = 0
    <3>1. LeastOf(1) = 1
      BY LeastOfNext
    <3> QED  BY <2>1, <3>1
  <2>2. CASE k # 0
    <3>1. LeastOf(k + 1) = 10 * LeastOf(k) /\ LeastOf(k) \in Nat /\ k <= LeastOf(k)
      BY <1>2, <2>2, LeastOfNext
    <3>2. k + 1 \in 0 .. n /\ k \in Nat /\ m \in Nat
      OBVIOUS
    <3>3. LeastOf(k + 1) \in Nat /\ k + 1 <= LeastOf(k + 1) /\ LeastOf(k) <= LeastOf(k + 1)
      BY <2>2, <3>1, <3>2
    <3>4. k + 1 >= m => LeastOf(m) <= LeastOf(k + 1)
      <4>1. CASE k >= m
        <5>1. LeastOf(m) <= LeastOf(k) /\ LeastOf(m) \in Int
          BY <1>2, <1>0, <4>1
        <5> QED  BY <3>1, <3>3, <5>1
      <4>2. CASE k + 1 = m
        BY <3>3, <4>2
      <4> QED  BY <3>2, <4>1, <4>2
    <3> QED  BY <3>2, <3>3, <3>4
  <2> QED  BY <2>1, <2>2
<1>3. \A k \in 0 .. n : k \in S
  <2>1. \A k \in 0 .. n - 1 : k \in S => k + 1 \in S
    BY <1>2
  <2> HIDE DEF S
  <2> QED  BY <1>1, <2>1, UpTo, Zenon
<1>4. m \in S /\ n \in S /\ n >= 1
  <2>1. m \in 0 .. n /\ n \in 0 .. n /\ n >= 1
    OBVIOUS
  <2> HIDE DEF S
  <2> QED  BY <1>3, <2>1
<1> QED  BY <1>4

\* A numeral that does not begin with 0 has as many digits as its value.
LEMMA DigitsOfValue ==
  ASSUME NEW s \in Seq(0 .. 9), s # <<>>, s[1] # 0
  PROVE  DigitsOf(Value(s)) = Len(s)
<1> DEFINE n == Len(s)
           val == Value(s)
<1>0. s \in Seq(Int) /\ n \in Nat /\ n >= 1 /\ s[1] \in 1 .. 9
  OBVIOUS
<1>1. PICK v : Values(v, s)
  BY <1>0, ValuesExist
<1> DEFINE S == {i \in 0 .. n : i >= 1 => v[i] \in Int /\ LeastOf(i) <= v[i] /\ v[i] < LeastOf(i + 1)}
<1>2. 0 \in S
  BY <1>0
<1>3. ASSUME NEW i \in 0 .. n - 1, i \in S PROVE i + 1 \in S
  <2>1. v[i] \in Int /\ v[i + 1] = 10 * v[i] + s[i + 1]
    BY <1>0, <1>1, ValuesNext
  <2>2. LeastOf(i + 1) \in Int /\ LeastOf(i + 1 + 1) = 10 * LeastOf(i + 1) /\ LeastOf(1) = 1
    <3>1. i + 1 \in Nat \ {0}
      BY <1>0
    <3> QED  BY <3>1, LeastOfNext
  <2>3. i + 1 \in 1 .. n /\ s[i + 1] \in 0 .. 9
    BY <1>0
  <2> SUFFICES v[i + 1] \in Int /\ LeastOf(i + 1) <= v[i + 1] /\ v[i + 1] < LeastOf(i + 1 + 1)
    BY <2>3
  <2>4. CASE i = 0
    <3>1. v[0] = 0
      BY <1>1 DEF Values
    <3>2. v[i + 1] = s[1] /\ LeastOf(i + 1) = 1 /\ LeastOf(i + 1 + 1) = 10
      BY <2>1, <2>2, <2>4, <3>1, <1>0
    <3> QED  BY <1>0, <3>2
  <2>5. CASE i # 0
    <3>1. LeastOf(i + 1) = 10 * LeastOf(i) /\ LeastOf(i) \in Int
      <4>1. i \in Nat \ {0}
        BY <1>0, <2>5
      <4> QED  BY <4>1, LeastOfNext
    <3>2. LeastOf(i) <= v[i] /\ v[i] < LeastOf(i + 1)
      BY <1>3, <2>5
    <3> HIDE DEF S
    <3>3. \A a, c, x, d \in Int : (a <= x /\ x < c /\ d \in 0 .. 9) =>
            10 * x + d \in Int /\ 10 * a <= 10 * x + d /\ 10 * x + d < 10 * c
      OBVIOUS
    <3>4. s[i + 1] \in Int
      BY <2>3
    <3>5. /\ 10 * v[i] + s[i + 1] \in Int /\ 10 * LeastOf(i) <= 10 * v[i] + s[i + 1]
          /\ 10 * v[i] + s[i + 1] < 10 * LeastOf(i + 1)
      BY <2>1, <2>2, <2>3, <3>1, <3>2, <3>3, <3>4, Zenon
    <3> QED  BY <2>1, <2>2, <3>1, <3>5
  <2> QED  BY <2>4, <2>5
<1>4. n \in S
  <2>1. \A k \in 0 .. n - 1 : k \in S => k + 1 \in S
    BY <1>3
  <2>2. n \in Nat /\ n \in 0 .. n
    BY <1>0
  <2> HIDE DEF S, n
  <2> QED  BY <1>2, <2>1, <2>2, UpTo, Zenon
<1>5. val \in Int /\ LeastOf(n) <= val /\ val < LeastOf(n + 1)
  BY <1>0, <1>1, <1>4, ValueIs
<1> HIDE DEF n, val, S
<1>6. n \in 1 .. val
  BY <1>0, <1>5, LeastOfGrows
<1>7. ASSUME NEW k \in 1 .. val, LeastOf(k) <= val, val < LeastOf(k + 1), k # n PROVE FALSE
  <2>1. CASE k < n
    <3>1. k + 1 \in 1 .. n
      BY <1>0, <2>1
    <3>2. LeastOf(k + 1) <= LeastOf(n) /\ LeastOf(k + 1) \in Nat /\ LeastOf(n) \in Nat
      BY <1>0, <3>1, LeastOfGrows
    <3> QED  BY <1>5, <1>7, <3>2
  <2>2. CASE n < k
    <3>1. n + 1 \in 1 .. k /\ k \in Nat
      BY <1>0, <2>2
    <3>2. LeastOf(n + 1) <= LeastOf(k) /\ LeastOf(n + 1) \in Nat /\ LeastOf(k) \in Nat
      BY <1>0, <3>1, LeastOfGrows
    <3> QED  BY <1>5, <1>7, <3>2
  <2> QED  BY <1>0, <1>7, <2>1, <2>2
<1> QED  BY <1>5, <1>6, <1>7 DEF DigitsOf, n, val
-------------------------------------------------------------------------------
(* What is converted *)

\* set_all_bits doubles: the size is a multiple of the next power of two, until
\* the next value would be negative or the same.
Growing ==
  pc = "bits" =>
    \/ temp > 0 /\ temp # test /\ \E m \in 1 .. T.size : (temp + 1) * m = T.size
    \/ ~(temp # test /\ temp > 0) /\ test = Largest(T)

\* quots ends with the largest value, which is split off to nothing.
SplitOff ==
  pc \notin {"idle", "bits"} =>
    /\ test = Largest(T)
    /\ quots = <<>> => arg = test
    /\ quots # <<>> => quots[Len(quots)] = test
    /\ \A i \in 1 .. Len(quots) : quots[i] # 0
    /\ pc # "itoa" => arg = 0

Good(s, t) == Numeral(s) /\ Len(s) <= DigitsOf(Largest(t)) /\ Value(s) <= Largest(t)

\* The result is the value of what is read of the padded text.
Taken ==
  /\ pc \in {"bits", "itoa", "check"} => str = text
  /\ pc \in {"digits", "done"} =>
       /\ Len(text) <= Len(test_str) /\ str = Padded(text, Len(test_str))
       /\ \A j \in 1 .. it : str[j] \in 0 .. 9
       /\ \A v : Values(v, str) => result = v[it]
  /\ pc = "done" => it = Len(str)
  /\ pc = "refused" => ~Good(text, T)

Exact == Growing /\ SplitOff /\ Taken

\* A size that is greater than a value by a power of two and its half.
LEMMA Halves ==
  ASSUME NEW t \in Type, NEW x \in Nat, NEW m \in 1 .. t.size, (x + 1) * m = t.size, m # 1
  PROVE  \E q \in 1 .. t.size : m = 2 * q /\ (2 * x + 1 + 1) * q = t.size
<1>1. t.size \in Nat /\ m \in Nat
  BY TypeAssumption
<1>2. x + 1 \in 1 .. t.size
  <2>1. \A a, c \in Nat : a >= 1 /\ c >= 1 => a * c >= a
    OBVIOUS
  <2> QED  BY <1>1, <2>1
<1>3. m % 2 = 0
  <2>1. \A j, n \in 1 .. t.size : j * n = t.size /\ n > 1 => n % 2 = 0
    BY TypeAssumption
  <2>2. m > 1
    BY <1>1
  <2> QED  BY <1>2, <2>1, <2>2, Zenon
<1> DEFINE q == m \div 2
<1>4. q \in Nat /\ m = 2 * q
  BY <1>1, <1>3
<1> HIDE DEF q
<1>5. q \in 1 .. t.size
  BY <1>1, <1>4
<1>6. (2 * x + 1 + 1) * q = (x + 1) * (2 * q)
  BY <1>4
<1> QED  BY <1>4, <1>5, <1>6

\* The loop of set_all_bits leaves the largest value.
LEMMA AllBitsGrows ==
  ASSUME NumInv, Growing, AllBits
  PROVE  Growing' /\ (pc' = "itoa" => test' = Largest(T))
<1>1. CASE temp # test /\ temp > 0
  <2>1. T \in Type /\ temp \in ValuesOf(T) /\ temp \in Int
    BY LargestType DEF NumInv, NumTypeOK
  <2>2. PICK m \in 1 .. T.size : (temp + 1) * m = T.size
    BY <1>1 DEF Growing, AllBits
  <2>3. T.size \in Nat /\ T.size > 2 /\ T.size = 2 * (T.size \div 2) /\ T.signed \in BOOLEAN
    BY <2>1, SizeEven
  <2>4. test' = temp /\ temp' = Wrap(T, 2 * temp + 1) /\ T' = T /\ pc' = "bits"
    BY <1>1 DEF AllBits
  <2>5. CASE m = 1
    <3>1. temp = T.size - 1
      BY <2>1, <2>2, <2>3, <2>5
    <3>2. ~T.signed
      BY <2>1, <2>3, <3>1 DEF ValuesOf, Largest
    <3>3. Largest(T) = T.size - 1 /\ Least(T) = 0
      BY <3>2 DEF Largest, Least
    <3>4. (2 * temp + 1) % T.size = T.size - 1
      <4>1. 2 * temp + 1 = T.size + (T.size - 1)
        BY <2>3, <3>1
      <4> QED  BY <2>3, <4>1
    <3>5. Wrap(T, 2 * temp + 1) = T.size - 1
      BY <2>3, <3>1, <3>3, <3>4 DEF Wrap, ValuesOf
    <3> QED  BY <2>4, <3>1, <3>3, <3>5 DEF Growing
  <2>6. CASE m # 1
    <3>1. PICK q \in 1 .. T.size : m = 2 * q /\ (2 * temp + 1 + 1) * q = T.size
      BY <1>1, <2>1, <2>2, <2>6, Halves
    <3>2. CASE 2 * temp + 1 \in ValuesOf(T)
      <4>1. temp' = 2 * temp + 1
        BY <2>4, <3>2 DEF Wrap
      <4>2. temp' > 0 /\ temp' # test'
        BY <1>1, <2>1, <2>4, <4>1
      <4>3. (temp' + 1) * q = T.size
        BY <3>1, <4>1
      <4> QED  BY <2>4, <4>2, <4>3 DEF Growing
    <3>3. CASE 2 * temp + 1 \notin ValuesOf(T)
      <4>1. 2 * temp + 2 <= T.size
        <5>1. \A a, c \in Nat : c >= 1 => a * c >= a
          OBVIOUS
        <5> QED  BY <1>1, <2>1, <2>3, <3>1, <5>1
      <4>2. T.signed
        BY <1>1, <2>1, <2>3, <3>3, <4>1 DEF ValuesOf, Largest, Least
      <4>3. Largest(T) = T.size \div 2 - 1 /\ Least(T) <= 0 /\ Least(T) \in Int
        BY <2>3, <4>2 DEF Largest, Least
      <4>4. 2 * temp + 1 > T.size \div 2 - 1
        BY <1>1, <2>1, <2>3, <3>3, <4>3 DEF ValuesOf
      <4>5. q = 1
        <5>1. \A a, c \in Nat : c >= 2 => a * c >= 2 * a
          OBVIOUS
        <5>2. q >= 2 => T.size >= 2 * (2 * temp + 1 + 1)
          BY <1>1, <2>1, <3>1, <5>1
        <5> QED  BY <2>1, <2>3, <3>1, <4>4, <5>2
      <4>6. 2 * temp + 2 = T.size
        BY <2>1, <3>1, <4>5
      <4>7. temp = Largest(T) /\ 2 * temp + 1 = T.size - 1
        BY <2>1, <2>3, <4>3, <4>6
      <4>8. (2 * temp + 1) % T.size = T.size - 1
        BY <2>3, <4>7
      <4>9. temp' = -1
        BY <2>3, <2>4, <3>3, <4>3, <4>7, <4>8 DEF Wrap
      <4> QED  BY <2>4, <4>7, <4>9 DEF Growing
    <3> QED  BY <3>2, <3>3
  <2> QED  BY <2>5, <2>6
<1>2. CASE ~(temp # test /\ temp > 0)
  BY <1>2 DEF Growing, AllBits
<1> QED  BY <1>1, <1>2

\* The digits that itoa makes are those of the largest value.
LEMMA TestDigits ==
  ASSUME NumInv, SplitOff, pc \notin {"idle", "bits", "itoa"}
  PROVE  /\ test_str \in Seq(0 .. 9) /\ Value(test_str) = Largest(T)
         /\ DigitsOf(Largest(T)) = Len(test_str)
<1> DEFINE n == Len(test_str)
           v == [i \in 0 .. n |-> Q(i)]
<1>1. /\ test_str \in Seq(0 .. 9) /\ quots \in Seq(Nat) /\ Len(quots) = n /\ n \in Nat
      /\ T \in Type /\ test = Largest(T) /\ arg = 0 /\ test \in Nat
  <2>1. /\ test_str \in Seq(0 .. Base - 1) /\ quots \in Seq(Nat) /\ Len(quots) = Len(test_str)
        /\ T \in Type
    BY DEF NumInv, NumTypeOK
  <2>2. 0 .. Base - 1 = 0 .. 9
    BY DEF Base
  <2>3. test = Largest(T) /\ arg = 0
    BY DEF SplitOff
  <2>4. test \in Nat
    BY <2>1, <2>3, LargestType
  <2>5. Len(test_str) \in Nat
    BY <2>1
  <2>6. test_str \in Seq(0 .. 9)
    BY <2>1, <2>2, Zenon
  <2> QED  BY <2>1, <2>3, <2>4, <2>5, <2>6
<1>2. quots # <<>> /\ n >= 1
  BY <1>1, LargestType DEF SplitOff
<1>3. test_str \in Seq(Int)
  <2>1. test_str \in Seq(0 .. 9)
    BY <1>1
  <2> QED  BY ONLY <2>1
<1>4. test_str[1] \in 0 .. 9 /\ quots[1] = test_str[1] /\ quots[1] # 0
  <2>1. 1 \in 1 .. n
    BY <1>1, <1>2
  <2>2. test_str[1] \in 0 .. 9
    BY <1>1, <2>1
  <2>3. Len(quots) > 0
    BY <1>1, <1>2
  <2>4. quots[1] = arg * 10 + test_str[1]
    BY <2>3 DEF NumInv, Quotients, Base
  <2>5. quots[1] # 0
    BY <1>2 DEF SplitOff
  <2> QED  BY <1>1, <2>2, <2>4, <2>5
<1>5. Values(v, test_str)
  <2>1. \A i \in 1 .. n : quots[i] \in Nat
    BY <1>1
  <2>2. v \in [0 .. n -> Int] /\ v[0] = 0
    BY <1>1, <2>1 DEF Q
  <2>3. ASSUME NEW i \in 1 .. n PROVE v[i] = 10 * v[i - 1] + test_str[i]
    <3>1. CASE i = 1
      <4>1. v[1] = quots[1] /\ v[0] = 0
        BY <1>2 DEF Q
      <4> HIDE DEF v
      <4> QED  BY <1>4, <3>1, <4>1
    <3>2. CASE i # 1
      <4>1. i \in 2 .. Len(quots) /\ i - 1 \in 1 .. n /\ i - 1 \in 0 .. n /\ i \in 0 .. n
        BY <1>1, <3>2
      <4>2. v[i] = quots[i] /\ v[i - 1] = quots[i - 1]
        BY <4>1 DEF Q
      <4>3. quots[i] = quots[i - 1] * 10 + test_str[i]
        BY <4>1 DEF NumInv, Quotients, Base
      <4>4. quots[i - 1] \in Nat
        BY <2>1, <4>1
      <4> HIDE DEF v
      <4> QED  BY <4>2, <4>3, <4>4
    <3> QED  BY <3>1, <3>2
  <2> HIDE DEF v
  <2> QED  BY <2>2, <2>3 DEF Values
<1>6. Value(test_str) = test
  <2>1. Value(test_str) = v[n]
    <3> HIDE DEF v
    <3> QED  BY <1>3, <1>5, ValueIs
  <2>2. v[n] = quots[n]
    BY <1>2 DEF Q
  <2> QED  BY <1>1, <1>2, <2>1, <2>2 DEF SplitOff
<1>7. DigitsOf(Value(test_str)) = n
  BY <1>1, <1>2, <1>4, DigitsOfValue
<1> QED  BY <1>1, <1>6, <1>7

\* The quotient that is put in front leaves the last one where it was.
LEMMA ItoaSplits ==
  ASSUME NumInv, SplitOff, Itoa
  PROVE  SplitOff'
<1>1. CASE arg # 0
  <2>1. quots \in Seq(Nat) /\ arg \in Nat /\ Len(quots) \in Nat
    BY LargestType DEF NumInv, NumTypeOK
  <2>2. quots' = <<arg>> \o quots /\ test' = test /\ T' = T /\ pc' = "itoa" /\ pc = "itoa"
    BY <1>1 DEF Itoa
  <2>3. Len(quots') = Len(quots) + 1 /\ quots'[1] = arg
        /\ \A i \in 2 .. Len(quots) + 1 : quots'[i] = quots[i - 1]
    BY <2>1, <2>2, Prepend
  <2>4. quots'[Len(quots')] = test
    <3>1. CASE quots = <<>>
      BY <2>2, <2>3, <3>1 DEF SplitOff
    <3>2. CASE quots # <<>>
      <4>1. Len(quots) + 1 \in 2 .. Len(quots) + 1 /\ Len(quots) + 1 - 1 = Len(quots)
        BY <2>1, <3>2
      <4> QED  BY <2>2, <2>3, <3>2, <4>1 DEF SplitOff
    <3> QED  BY <3>1, <3>2
  <2>5. ASSUME NEW i \in 1 .. Len(quots') PROVE quots'[i] # 0
    <3>1. CASE i = 1
      BY <1>1, <2>3, <3>1
    <3>2. CASE i # 1
      <4>1. i \in 2 .. Len(quots) + 1 /\ i - 1 \in 1 .. Len(quots)
        BY <2>1, <2>3, <3>2
      <4> QED  BY <2>2, <2>3, <4>1 DEF SplitOff
    <3> QED  BY <3>1, <3>2
  <2>6. quots' # <<>>
    BY <2>1, <2>3
  <2> QED  BY <2>2, <2>4, <2>5, <2>6 DEF SplitOff
<1>2. CASE arg = 0
  BY <1>2 DEF Itoa, SplitOff
<1> QED  BY <1>1, <1>2

LEMMA NoDigitsRead ==
  ASSUME NEW s \in Seq(Int), NEW v, Values(v, s)
  PROVE  v[0] = 0
BY DEF Values

LEMMA SeqOfDigits ==
  ASSUME NEW s \in Seq(Int), \A i \in 1 .. Len(s) : s[i] \in 0 .. 9
  PROVE  s \in Seq(0 .. 9)
<1>1. Len(s) \in Nat /\ s = [i \in 1 .. Len(s) |-> s[i]]
  OBVIOUS
<1>2. s \in [1 .. Len(s) -> 0 .. 9]
  BY <1>1
<1>3. s \in UNION {[1 .. n -> 0 .. 9] : n \in Nat}
  <2> DEFINE k == Len(s)
  <2>1. k \in Nat /\ s \in [1 .. k -> 0 .. 9]
    BY <1>1, <1>2
  <2> HIDE DEF k
  <2> QED  BY <2>1
<1> QED  BY <1>3, SeqDef, Zenon

\* A refused text does not consist of digits, or is too long, or too large.
LEMMA CheckTakes ==
  ASSUME NumInv, Exact, Check
  PROVE  Taken'
<1> DEFINE padded == Padded(str, Len(test_str))
<1>1. /\ str = text /\ text \in Seq(Int) /\ it = 0 /\ result = 0 /\ T' = T /\ text' = text
      /\ test_str' = test_str /\ it' = it /\ result' = result
  BY DEF Exact, Taken, NumInv, NumTypeOK, Fresh, Check
<1>2. /\ test_str \in Seq(0 .. 9) /\ Value(test_str) = Largest(T)
      /\ DigitsOf(Largest(T)) = Len(test_str) /\ Len(test_str) \in Nat
  <2>1. pc \notin {"idle", "bits", "itoa"}
    BY DEF Check
  <2> QED  BY <2>1, TestDigits DEF Exact
<1>3. CASE Len(str) <= Len(test_str) /\ ~Greater(padded, test_str)
  <2>1. pc' = "digits" /\ str' = padded
    BY <1>3 DEF Check
  <2>2. padded \in Seq(Int)
    BY <1>1, <1>2, <1>3, PaddedValue
  <2>3. \A v : Values(v, padded) => 0 = v[0]
    <3> HIDE DEF padded
    <3> QED  BY <2>2, NoDigitsRead
  <2>4. padded = Padded(text, Len(test_str))
    BY <1>1
  <2> HIDE DEF padded
  <2> QED  BY <1>1, <1>3, <2>1, <2>3, <2>4 DEF Taken
<1>4. CASE ~(Len(str) <= Len(test_str) /\ ~Greater(padded, test_str))
  <2>1. pc' = "refused"
    BY <1>4 DEF Check
  <2>2. ASSUME Good(text, T) PROVE FALSE
    <3>1. Len(text) <= Len(test_str) /\ Greater(padded, test_str)
      BY <1>1, <1>2, <1>4, <2>2 DEF Good
    <3>2. padded \in Seq(Int) /\ Len(padded) = Len(test_str) /\ Value(padded) = Value(text)
      BY <1>1, <1>2, <3>1, PaddedValue
    <3>3. padded \in Seq(0 .. 9)
      <4>1. \A i \in 1 .. Len(test_str) : padded[i] \in 0 .. 9
        BY <1>1, <1>2, <2>2, <3>1 DEF Padded, Good, Numeral
      <4> HIDE DEF padded
      <4> QED  BY <3>2, <4>1, SeqOfDigits
    <3> HIDE DEF padded
    <3>4. Value(padded) > Value(test_str)
      BY <1>2, <3>1, <3>2, <3>3, GreaterValue
    <3>5. Value(text) <= Largest(T)
      BY <2>2 DEF Good
    <3>6. Largest(T) \in Int /\ Value(text) \in Int
      <4>1. T \in Type
        BY DEF NumInv, NumTypeOK
      <4>2. PICK v : Values(v, text)
        BY <1>1, ValuesExist
      <4>3. v[Len(text)] \in Int
        <5>1. v \in [0 .. Len(text) -> Int] /\ Len(text) \in 0 .. Len(text)
          BY <1>1, <4>2 DEF Values
        <5> QED  BY <5>1
      <4> QED  BY <1>1, <4>1, <4>2, <4>3, LargestType, ValueIs
    <3> QED  BY <1>2, <3>2, <3>4, <3>5, <3>6
  <2> QED  BY <1>1, <2>1, <2>2 DEF Taken
<1> QED  BY <1>3, <1>4

\* A digit is read as it was written; where another byte is, the text has it too.
LEMMA DigitTakes ==
  ASSUME NumInv, Exact, Digit
  PROVE  Taken'
<1>1. /\ text \in Seq(Int) /\ str \in Seq(Int) /\ it \in 0 .. Len(str) - 1 /\ pc = "digits"
      /\ Len(text) <= Len(test_str) /\ str = Padded(text, Len(test_str))
      /\ \A j \in 1 .. it : str[j] \in 0 .. 9
      /\ \A v : Values(v, str) => result = v[it]
  BY DEF Exact, Taken, NumInv, NumTypeOK, Digit
<1>2. str' = str /\ text' = text /\ T' = T /\ test_str' = test_str
  BY DEF Digit
<1>3. CASE IsDigit(str[it + 1])
  <2>1. pc' = "digits" /\ it' = it + 1 /\ result' = Wrap(T, result * Base + str[it + 1])
    BY <1>1, <1>3 DEF Digit
  <2>2. result' = 10 * result + str[it + 1]
    <3>1. result * Base + str[it + 1] \in 0 .. Q(it + 1) /\ Q(it + 1) <= Largest(T)
      BY <1>1, <1>3, NextDigit
    <3>2. Q(it + 1) \in Int /\ T \in Type
      <4>1. it + 1 \in 1 .. Len(quots) /\ quots \in Seq(Nat) /\ it + 1 # 0
        BY <1>1 DEF NumInv, NumTypeOK, ResultBelow
      <4> QED  BY <4>1, ElementOfSeq DEF Q, NumInv, NumTypeOK
    <3>3. result * Base + str[it + 1] \in 0 .. Largest(T) /\ result * Base + str[it + 1] \in Int
      BY <3>1, <3>2, LargestType
    <3>4. result' = result * Base + str[it + 1]
      BY <2>1, <3>2, <3>3, WrapType
    <3>5. result \in Int /\ str[it + 1] \in Int
      BY <1>1, LargestType DEF NumInv, NumTypeOK
    <3> QED  BY <3>4, <3>5 DEF Base
  <2>3. ASSUME NEW v, Values(v, str) PROVE result' = v[it + 1]
    <3>1. v[it + 1] = 10 * v[it] + str[it + 1]
      BY <1>1, <2>3, ValuesNext
    <3>2. result = v[it]
      BY <1>1, <2>3
    <3>3. result' = 10 * v[it] + str[it + 1]
      BY <2>2, <3>2
    <3> QED  BY <3>1, <3>3
  <2>4. ASSUME NEW j \in 1 .. it + 1 PROVE str[j] \in 0 .. 9
    <3>1. str[it + 1] \in 0 .. 9
      BY <1>3 DEF IsDigit, Base
    <3>2. it \in Int
      BY <1>1
    <3>3. j \in 1 .. it \/ j = it + 1
      BY <3>2
    <3> QED  BY <1>1, <3>1, <3>3
  <2> QED  BY <1>1, <1>2, <2>1, <2>3, <2>4 DEF Taken
<1>4. CASE ~IsDigit(str[it + 1])
  <2>1. pc' = "refused"
    BY <1>1, <1>4 DEF Digit
  <2>2. ~Numeral(text)
    <3> SUFFICES ASSUME Numeral(text) PROVE str[it + 1] \in 0 .. 9
      BY <1>4 DEF IsDigit, Base
    <3>1. Len(test_str) \in Nat /\ Len(str) = Len(test_str)
      BY <1>1 DEF NumInv, NumTypeOK, ResultBelow
    <3>2. it + 1 \in 1 .. Len(test_str)
      BY <1>1, <3>1
    <3> QED  BY <1>1, <3>1, <3>2 DEF Padded, Numeral
  <2> QED  BY <1>2, <2>1, <2>2 DEF Taken, Good
<1> QED  BY <1>3, <1>4

LEMMA InitExact == NumInit => Exact
BY DEF NumInit, Exact, Growing, SplitOff, Taken

LEMMA CallExact ==
  ASSUME NumInv, NEW t \in Type, NEW s \in Text, Call(t, s)
  PROVE  Exact'
<1>1. temp = 1 /\ test = 0 /\ quots = <<>>
  BY DEF NumInv, Fresh, Call
<1>2. t.size \in Nat /\ t.size > 2 /\ t.size % 2 = 0
  BY SizeEven
<1>3. t.size \div 2 \in 1 .. t.size /\ (1 + 1) * (t.size \div 2) = t.size
  BY <1>2
<1> QED  BY <1>1, <1>3 DEF Call, Exact, Growing, SplitOff, Taken

LEMMA StepExact == NumInv /\ Exact /\ [NumNext]_numVars => Exact'
<1> SUFFICES ASSUME NumInv, Exact, [NumNext]_numVars PROVE Exact'
  OBVIOUS
<1>1. CASE \E t \in Type, s \in Text : Call(t, s)
  BY <1>1, CallExact
<1>2. CASE AllBits
  <2>1. Growing' /\ (pc' = "itoa" => test' = Largest(T)) /\ T' = T
    BY <1>2, AllBitsGrows DEF Exact, AllBits
  <2>2. SplitOff'
    BY <1>2, <2>1 DEF AllBits, SplitOff, NumInv, Fresh
  <2>3. Taken'
    BY <1>2 DEF Exact, AllBits, Taken
  <2> QED  BY <2>1, <2>2, <2>3 DEF Exact
<1>3. CASE Itoa
  <2>1. Growing' /\ Taken'
    BY <1>3 DEF Itoa, Exact, Growing, Taken
  <2> QED  BY <1>3, <2>1, ItoaSplits DEF Exact
<1>4. CASE Check
  <2>1. Growing' /\ SplitOff'
    BY <1>4 DEF Check, Exact, Growing, SplitOff
  <2> QED  BY <1>4, <2>1, CheckTakes DEF Exact
<1>5. CASE Digit
  <2>1. Growing' /\ SplitOff'
    BY <1>5 DEF Digit, Exact, Growing, SplitOff
  <2> QED  BY <1>5, <2>1, DigitTakes DEF Exact
<1>6. CASE Return
  BY <1>6 DEF Return, Exact, Growing, SplitOff, Taken
<1>7. CASE Leave
  BY <1>7 DEF Leave, Exact, Growing, SplitOff, Taken
<1>8. CASE UNCHANGED numVars
  BY <1>8 DEF numVars, Exact, Growing, SplitOff, Taken
<1> QED  BY <1>1, <1>2, <1>3, <1>4, <1>5, <1>6, <1>7, <1>8 DEF NumNext, Atoi

LEMMA ExactConverted == NumInv /\ Exact => Converted
<1> SUFFICES ASSUME NumInv, Exact PROVE Converted
  OBVIOUS
<1>1. ASSUME pc = "done" PROVE Good(text, T) /\ result = Value(text)
  <2>1. /\ text \in Seq(Int) /\ str \in Seq(Int) /\ it = Len(str) /\ T \in Type
        /\ Len(text) <= Len(test_str) /\ str = Padded(text, Len(test_str))
        /\ \A j \in 1 .. it : str[j] \in 0 .. 9
        /\ \A v : Values(v, str) => result = v[it]
        /\ Len(test_str) \in Nat /\ result \in ValuesOf(T)
    BY <1>1 DEF Exact, Taken, NumInv, NumTypeOK
  <2>2. DigitsOf(Largest(T)) = Len(test_str)
    BY <1>1, TestDigits DEF Exact
  <2>3. Len(str) = Len(test_str) /\ Value(str) = Value(text)
    BY <2>1, PaddedValue
  <2>4. PICK v : Values(v, str)
    BY <2>1, ValuesExist
  <2>5. result = Value(text)
    BY <2>1, <2>3, <2>4, ValueIs
  <2>6. result <= Largest(T)
    BY <2>1, LargestType DEF ValuesOf
  <2>7. ASSUME NEW i \in DOMAIN text PROVE text[i] \in 0 .. 9
    <3> DEFINE j == i + (Len(test_str) - Len(text))
    <3>1. i \in 1 .. Len(text) /\ j \in 1 .. it /\ j \in 1 .. Len(test_str)
          /\ ~(j <= Len(test_str) - Len(text)) /\ j - (Len(test_str) - Len(text)) = i
      BY <2>1, <2>3
    <3> HIDE DEF j
    <3>2. str[j] = text[i]
      BY <2>1, <3>1 DEF Padded
    <3> QED  BY <2>1, <3>1, <3>2
  <2> QED  BY <2>1, <2>2, <2>5, <2>6, <2>7 DEF Good, Numeral
<1>2. pc = "refused" => ~Good(text, T)
  BY DEF Exact, Taken
<1> QED  BY <1>1, <1>2 DEF Converted, Good

\* Whatever the type and the text: a text is converted to the number it writes if
\* it has digits only, not too many, and a number that fits; otherwise it is
\* refused.
THEOREM ConvertedRight == NumSpec => []Converted
<1>1. NumInit => NumInv /\ Exact
  BY InitInv, InitExact
<1>2. NumInv /\ Exact /\ [NumNext]_numVars => (NumInv /\ Exact)'
  BY StepInv, StepExact
<1>3. NumInv /\ Exact => Converted
  BY ExactConverted
<1> QED
  BY <1>1, <1>2, <1>3, PTL DEF NumSpec

-------------------------------------------------------------------------------
(* Dates *)

\* The leap days before a year, and the days before a date in its year and at all.
LeapDays(y) == (y - 1) \div 4 - (y - 1) \div 100 + (y - 1) \div 400
LeapOf(y) == IF Leap(y) THEN 1 ELSE 0
InYear(d) == MonthStart[d.mon] + (IF Leap(1900 + d.year) /\ d.mon > 2 THEN 1 ELSE 0) + d.day
Days(d) == 365 * (1900 + d.year) + LeapDays(1900 + d.year) + InYear(d)

Precedes(a, b) == a.year < b.year \/ (a.year = b.year /\ Before(a, b))

\* A date that need not be one of the calendar.
DateLike == [year : Int, mon : 1 .. 12, day : 1 .. 31]

LEMMA SecondsOf ==
  ASSUME NEW d \in DateLike, NEW s \in Int
  PROVE  mktime(d, s) = Days(d) * DaySeconds + s
<1>1. d.year \in Int /\ d.day \in Int /\ MonthStart[d.mon] \in Int
  BY DEF DateLike, MonthStart
<1> HIDE DEF MonthStart
<1> QED  BY <1>1, DayAssumption DEF mktime, Days, LeapDays, InYear

\* A multiple of 4 begins a new one; so do 100 and 400.
LEMMA NextMultiple ==
  ASSUME NEW y \in Int, NEW k \in {4, 100, 400}
  PROVE  y \div k = (y - 1) \div k + (IF y % k = 0 THEN 1 ELSE 0)
<1>1. CASE k = 4
  BY <1>1
<1>2. CASE k = 100
  BY <1>2
<1>3. CASE k = 400
  BY <1>3
<1> QED  BY <1>1, <1>2, <1>3

LEMMA LeapYear ==
  ASSUME NEW y \in Int
  PROVE  LeapDays(y) \in Int /\ LeapDays(y + 1) = LeapDays(y) + LeapOf(y)
<1>1. /\ y \div 4 = (y - 1) \div 4 + (IF y % 4 = 0 THEN 1 ELSE 0)
      /\ y \div 100 = (y - 1) \div 100 + (IF y % 100 = 0 THEN 1 ELSE 0)
      /\ y \div 400 = (y - 1) \div 400 + (IF y % 400 = 0 THEN 1 ELSE 0)
  BY NextMultiple
<1>2. (y % 400 = 0 => y % 100 = 0) /\ (y % 100 = 0 => y % 4 = 0)
  OBVIOUS
<1>3. y + 1 - 1 = y
  OBVIOUS
<1> QED  BY <1>1, <1>2, <1>3 DEF LeapDays, LeapOf, Leap

\* More years have no fewer leap days.
LEMMA LeapDaysGrow ==
  ASSUME NEW x \in Int, NEW y \in Int, x <= y
  PROVE  LeapDays(x) <= LeapDays(y)
<1> DEFINE F(z) == z \div 4 - z \div 100 + z \div 400
<1>1. ASSUME NEW z \in Int, NEW w \in Int, z <= w PROVE F(z) <= F(w)
  <2>1. z \div 400 <= w \div 400 /\ z \div 400 \in Int /\ w \div 400 \in Int
    BY <1>1
  <2>2. z \div 4 - z \div 100 <= w \div 4 - w \div 100
    BY <1>1
  <2> QED  BY <2>1, <2>2
<1>2. x - 1 \in Int /\ y - 1 \in Int /\ x - 1 <= y - 1
  OBVIOUS
<1>3. LeapDays(x) = F(x - 1) /\ LeapDays(y) = F(y - 1)
  BY DEF LeapDays
<1> HIDE DEF F
<1> QED  BY <1>1, <1>2, <1>3

\* The days of a year are in the order of the calendar, and within the year.
LEMMA InYearOrder ==
  ASSUME NEW a, OnCalendar(a), NEW b, OnCalendar(b)
  PROVE  /\ InYear(a) \in 1 .. 365 + LeapOf(1900 + a.year)
         /\ a.year = b.year /\ Before(a, b) => InYear(a) < InYear(b)
<1>1. a.mon \in 1 .. 12 /\ a.day \in 1 .. 31 /\ b.mon \in 1 .. 12 /\ b.day \in 1 .. 31
  BY DEF OnCalendar
<1> DEFINE la == Leap(1900 + a.year)
           lb == Leap(1900 + b.year)
<1>2. a.day <= MonthDays[a.mon] + (IF a.mon = 2 /\ la THEN 1 ELSE 0)
  BY DEF OnCalendar
<1>3. /\ InYear(a) = MonthStart[a.mon] + (IF la /\ a.mon > 2 THEN 1 ELSE 0) + a.day
      /\ InYear(b) = MonthStart[b.mon] + (IF lb /\ b.mon > 2 THEN 1 ELSE 0) + b.day
  BY DEF InYear
<1>4. LeapOf(1900 + a.year) = IF la THEN 1 ELSE 0
  BY DEF LeapOf
<1>5. a.year = b.year => (la <=> lb)
  OBVIOUS
<1> HIDE DEF la, lb
<1>6. InYear(a) \in 1 .. 365 + LeapOf(1900 + a.year)
  BY <1>1, <1>2, <1>3, <1>4 DEF MonthStart, MonthDays
<1>7. ASSUME a.year = b.year, Before(a, b) PROVE InYear(a) < InYear(b)
  <2>1. CASE a.mon = b.mon
    <3>1. a.day < b.day
      BY <1>1, <1>7, <2>1 DEF Before
    <3>2. MonthStart[a.mon] \in Int /\ MonthStart[a.mon] = MonthStart[b.mon]
      BY <1>1, <2>1 DEF MonthStart
    <3> QED  BY <1>1, <1>3, <1>5, <1>7, <2>1, <3>1, <3>2
  <2>2. CASE a.mon < b.mon
    <3>1. MonthStart[a.mon] + MonthDays[a.mon] <= MonthStart[b.mon]
      BY <1>1, <2>2 DEF MonthStart, MonthDays
    <3>2. MonthStart[a.mon] \in Int /\ MonthStart[b.mon] \in Int /\ MonthDays[a.mon] \in Int
      BY <1>1 DEF MonthStart, MonthDays
    <3> DEFINE x == MonthStart[a.mon] + (IF la /\ a.mon > 2 THEN 1 ELSE 0)
               z == MonthStart[b.mon] + (IF lb /\ b.mon > 2 THEN 1 ELSE 0)
    <3>3. x \in Int /\ z \in Int /\ x + a.day <= z
      BY <1>1, <1>2, <1>5, <1>7, <2>2, <3>1, <3>2
    <3>4. InYear(a) = x + a.day /\ InYear(b) = z + b.day
      BY <1>3
    <3> HIDE DEF x, z
    <3> QED  BY <1>1, <3>3, <3>4
  <2> QED  BY <1>1, <1>7, <2>1, <2>2 DEF Before
<1> QED  BY <1>6, <1>7

LEMMA DaysType ==
  ASSUME NEW d \in DateLike
  PROVE  InYear(d) \in Int /\ InYear(d) >= 1 /\ Days(d) \in Int
<1>1. d.year \in Int /\ d.mon \in 1 .. 12 /\ d.day \in 1 .. 31
  BY DEF DateLike
<1>2. LeapDays(1900 + d.year) \in Int
  BY <1>1, LeapYear
<1>3. MonthStart[d.mon] \in Nat
  BY <1>1 DEF MonthStart
<1>4. InYear(d) \in Int /\ InYear(d) >= 1
  BY <1>1, <1>3 DEF InYear
<1> QED  BY <1>1, <1>2, <1>4 DEF Days

\* A date is before all dates of later years.
LEMMA LaterYear ==
  ASSUME NEW a, OnCalendar(a), NEW b \in DateLike, a.year < b.year
  PROVE  Days(a) < Days(b)
<1>1. a.year \in Int /\ b.year \in Int
  BY DEF OnCalendar, DateLike
<1>2. InYear(a) \in 1 .. 365 + LeapOf(1900 + a.year) /\ InYear(b) \in Int /\ InYear(b) >= 1
  BY InYearOrder, DaysType
<1>3. LeapOf(1900 + a.year) \in 0 .. 1
      /\ LeapDays(1900 + a.year) \in Int /\ LeapDays(1900 + b.year) \in Int
  BY <1>1, LeapYear DEF LeapOf
<1>4. LeapDays(1900 + a.year + 1) = LeapDays(1900 + a.year) + LeapOf(1900 + a.year)
  BY <1>1, LeapYear
<1>5. LeapDays(1900 + a.year + 1) <= LeapDays(1900 + b.year)
  BY <1>1, LeapDaysGrow
<1> QED  BY <1>1, <1>2, <1>3, <1>4, <1>5 DEF Days

\* The count of days is in the order of the calendar.
LEMMA DaysInOrder ==
  ASSUME NEW a, OnCalendar(a), NEW b, OnCalendar(b), Precedes(a, b)
  PROVE  Days(a) < Days(b)
<1>1. a \in DateLike /\ b \in DateLike /\ a.year \in Int /\ b.year \in Int
  BY DEF OnCalendar, DateLike
<1>2. CASE a.year = b.year
  <2>1. InYear(a) < InYear(b)
    BY <1>1, <1>2, InYearOrder DEF Precedes
  <2>2. InYear(a) \in Int /\ InYear(b) \in Int /\ LeapDays(1900 + a.year) \in Int
    BY <1>1, DaysType, LeapYear
  <2> QED  BY <1>1, <1>2, <2>1, <2>2 DEF Days
<1>3. CASE a.year < b.year
  BY <1>1, <1>3, LaterYear
<1> QED  BY <1>1, <1>2, <1>3 DEF Precedes

LEMMA DaysCompare ==
  ASSUME NEW a, OnCalendar(a), NEW b, OnCalendar(b)
  PROVE  Days(a) <= Days(b) <=> ~Precedes(b, a)
<1>0. Days(a) \in Int /\ Days(b) \in Int
  BY DaysType DEF OnCalendar, DateLike
<1>1. CASE Precedes(b, a)
  BY <1>0, <1>1, DaysInOrder
<1>2. CASE Precedes(a, b)
  <2>1. Days(a) < Days(b)
    BY <1>2, DaysInOrder
  <2>2. ~Precedes(b, a)
    BY <1>2 DEF Precedes, Before, OnCalendar
  <2> QED  BY <1>0, <2>1, <2>2
<1>3. CASE ~Precedes(b, a) /\ ~Precedes(a, b)
  <2>1. a.year = b.year /\ a.mon = b.mon /\ a.day = b.day
    BY <1>3 DEF Precedes, Before, OnCalendar
  <2>2. Days(a) = Days(b)
    BY <2>1 DEF Days, InYear
  <2> QED  BY <1>0, <1>3, <2>2
<1> QED  BY <1>1, <1>2, <1>3

\* The second after a day, and the one before it, tell a later day from others.
LEMMA DayLimits ==
  ASSUME NEW a \in Int, NEW c \in Int, NEW s \in 0 .. DaySeconds - 1
  PROVE  /\ a * DaySeconds + (DaySeconds - 1) + 1 <= c * DaySeconds + s <=> ~(c <= a)
         /\ a * DaySeconds + 0 - 1 >= c * DaySeconds + s <=> ~(a <= c)
<1> DEFINE D == DaySeconds
<1>1. D \in Nat /\ D >= 1 /\ s \in Int /\ 0 <= s /\ s <= D - 1
  BY DayAssumption
<1>2. \A k \in Nat : k * D \in Nat
  BY <1>1
<1>3. a * D \in Int /\ c * D \in Int
  BY <1>1
<1>4. ASSUME c <= a PROVE a * D >= c * D
  <2>1. (a - c) * D \in Nat /\ (a - c) * D = a * D - c * D
    BY <1>1, <1>2, <1>4
  <2> QED  BY <1>3, <2>1
<1>5. ASSUME a < c PROVE c * D >= a * D + D
  <2>1. (c - a - 1) * D \in Nat /\ (c - a - 1) * D = c * D - a * D - D
    BY <1>1, <1>2, <1>5
  <2> QED  BY <1>1, <1>3, <2>1
<1>6. ASSUME c < a PROVE a * D >= c * D + D
  <2>1. (a - c - 1) * D \in Nat /\ (a - c - 1) * D = a * D - c * D - D
    BY <1>1, <1>2, <1>6
  <2> QED  BY <1>1, <1>3, <2>1
<1>7. ASSUME a <= c PROVE c * D >= a * D
  <2>1. (c - a) * D \in Nat /\ (c - a) * D = c * D - a * D
    BY <1>1, <1>2, <1>7
  <2> QED  BY <1>3, <2>1
<1> DEFINE A == a * D
           C == c * D
<1>8. A \in Int /\ C \in Int /\ (c <= a => A >= C) /\ (a < c => C >= A + D)
      /\ (c < a => A >= C + D) /\ (a <= c => C >= A)
  BY <1>3, <1>4, <1>5, <1>6, <1>7
<1> HIDE DEF A, C, D
<1>9. /\ A + (D - 1) + 1 <= C + s <=> ~(c <= a)
      /\ A + 0 - 1 >= C + s <=> ~(a <= c)
  BY <1>1, <1>8
<1> QED  BY <1>9 DEF A, C, D

-------------------------------------------------------------------------------
(* The limits *)

\* The date that is as many years before the start-up.
Shifted(age) == [m_tm EXCEPT !.year = Wrap(SInt, @ - age)]

\* A limit is that of its age, whether it was looked up or computed.
LimitOfAge ==
  limit # NoLimit =>
    \E age \in 0 .. Largest(UInt) :
      limit = [age |-> age, from |-> generate_timestamp_from_age(m_tm, age).first,
               to |-> generate_timestamp_from_age(m_tm, age).second]

AgesInv ==
  /\ NumInv /\ Exact
  /\ m_tm \in Date /\ today \in Date
  /\ m_ages = initialize_ages(m_tm)
  /\ LimitOfAge

LEMMA InitAges == AgesInit => AgesInv
BY InitInv, InitExact DEF AgesInit, AgesInv, LimitOfAge

LEMMA AgesStepsNumbers == [AgesNext]_<<numVars, ageVars>> => [NumNext]_numVars
BY DEF AgesNext, Parameter, Convert, LookUp, Answer, NewDay, NumNext

LEMMA LookUpLimit ==
  ASSUME AgesInv, LookUp
  PROVE  LimitOfAge'
<1>1. result \in 0 .. Largest(UInt)
  <2>1. result \in ValuesOf(UInt)
    BY DEF AgesInv, LookUp, NumInv, NumTypeOK
  <2> QED  BY <2>1 DEF ValuesOf, Least, UInt
<1>2. result \in Int
  BY <1>1, UIntAssumption, LargestType
<1>3. ASSUME ~(result > 99) PROVE m_ages[result] = generate_timestamp_from_age(m_tm, result)
  <2>1. result \in 0 .. 99
    BY <1>1, <1>2, <1>3
  <2> QED  BY <2>1 DEF AgesInv, initialize_ages
<1>4. /\ get_timestamp_fromAge(result) = generate_timestamp_from_age(m_tm, result).first
      /\ get_timestamp_toAge(result) = generate_timestamp_from_age(m_tm, result).second
  BY <1>3 DEF get_timestamp_fromAge, get_timestamp_toAge
<1>5. /\ m_tm' = m_tm
      /\ limit' = [age |-> result, from |-> generate_timestamp_from_age(m_tm, result).first,
                   to |-> generate_timestamp_from_age(m_tm, result).second]
  BY <1>4 DEF LookUp
<1> QED  BY <1>1, <1>5 DEF LimitOfAge

LEMMA StepAges == AgesInv /\ [AgesNext]_<<numVars, ageVars>> => AgesInv'
<1> SUFFICES ASSUME AgesInv, [AgesNext]_<<numVars, ageVars>> PROVE AgesInv'
  OBVIOUS
<1>1. (NumInv /\ Exact)'
  BY AgesStepsNumbers, StepInv, StepExact DEF AgesInv
<1>2. m_tm' = m_tm /\ m_ages' = m_ages /\ today' \in Date
  BY DEF AgesInv, AgesNext, Parameter, Convert, LookUp, Answer, NewDay, ageVars
<1>3. LimitOfAge'
  <2>1. CASE LookUp
    BY <2>1, LookUpLimit
  <2>2. CASE limit' = NoLimit
    BY <2>2 DEF LimitOfAge, NoLimit
  <2>3. CASE limit' = limit
    BY <1>2, <2>3 DEF AgesInv, LimitOfAge, NoLimit
  <2> QED
    BY <2>1, <2>2, <2>3 DEF AgesNext, Parameter, Convert, Answer, NewDay, ageVars
<1> QED  BY <1>1, <1>2, <1>3 DEF AgesInv

LEMMA IntType ==
  /\ IntSize \in Nat /\ IntSize > 2 /\ IntSize = 2 * (IntSize \div 2) /\ IntSize \div 2 \in Nat
  /\ Least(SInt) = -(IntSize \div 2) /\ Largest(SInt) = IntSize \div 2 - 1
  /\ Largest(UInt) = IntSize - 1
  /\ SInt.size = IntSize
<1>1. UInt.size = IntSize
  BY DEF UInt
<1>2. IntSize \in Nat /\ IntSize > 2 /\ IntSize % 2 = 0
  BY <1>1, UIntAssumption, SizeEven
<1> QED  BY <1>2 DEF Least, Largest, SInt, UInt

LEMMA DateType ==
  ASSUME NEW d, OnCalendar(d)
  PROVE  d \in DateLike /\ d.year \in Int /\ d.mon \in Int /\ d.day \in Int
BY DEF OnCalendar, DateLike

\* The same day so many years ago, as far as an int holds the year.
LEMMA ShiftedType ==
  ASSUME m_tm \in Date, NEW age \in 0 .. Largest(UInt)
  PROVE  /\ Shifted(age) \in DateLike
         /\ Shifted(age).mon = m_tm.mon /\ Shifted(age).day = m_tm.day
         /\ m_tm.year - age >= Least(SInt) => Shifted(age).year = m_tm.year - age
         /\ m_tm.year - age < Least(SInt) => Shifted(age).year > m_tm.year
<1> DEFINE y == m_tm.year - age
           w == Wrap(SInt, y)
<1>1. /\ m_tm \in [year : Int, mon : 1 .. 12, day : 1 .. 31] /\ m_tm.year \in 0 .. Largest(SInt)
      /\ age \in 0 .. IntSize - 1 /\ y \in Int
  BY DatesAssumption, IntType DEF OnCalendar
<1>2. Shifted(age) = [m_tm EXCEPT !.year = w]
  BY DEF Shifted
<1> HIDE DEF w
<1>3. ASSUME y >= Least(SInt) PROVE w = y
  BY <1>1, <1>3, IntType DEF w, Wrap, ValuesOf
<1>4. ASSUME y < Least(SInt) PROVE w \in Int /\ w > m_tm.year
  <2>1. y + IntSize \in 0 .. IntSize - 1 /\ y \notin ValuesOf(SInt)
    BY <1>1, <1>4, IntType DEF ValuesOf
  <2>2. y % IntSize = y + IntSize
    BY <1>1, <2>1, IntType
  <2>3. ~(y + IntSize > Largest(SInt))
    BY <1>1, <1>4, IntType
  <2>4. w = y + IntSize
    BY <2>1, <2>2, <2>3, IntType DEF w, Wrap
  <2> QED  BY <1>1, <2>4, IntType
<1>5. w \in Int
  BY <1>1, <1>3, <1>4, IntType
<1> QED  BY <1>1, <1>2, <1>3, <1>4, <1>5 DEF DateLike

\* The comparisons with the limits are comparisons of days.
LEMMA Passing ==
  ASSUME AgesInv, limit # NoLimit, NEW birth \in BirthDate, NEW second \in 0 .. DaySeconds - 1
  PROVE  /\ limit.age \in 0 .. Largest(UInt)
         /\ FromPasses(mktime(birth, second)) <=> Days(birth) <= Days(Shifted(limit.age))
         /\ ToPasses(mktime(birth, second)) <=> Days(Shifted(limit.age)) <= Days(birth)
<1>1. PICK age \in 0 .. Largest(UInt) :
        limit = [age |-> age, from |-> generate_timestamp_from_age(m_tm, age).first,
                 to |-> generate_timestamp_from_age(m_tm, age).second]
  BY DEF AgesInv, LimitOfAge
<1> DEFINE s == Shifted(age)
<1>2. /\ limit.age = age /\ limit.from = mktime(s, DaySeconds - 1) + 1
      /\ limit.to = mktime(s, 0) - 1
  BY <1>1 DEF generate_timestamp_from_age, Shifted
<1>3. s \in DateLike
  BY ShiftedType DEF AgesInv
<1>4. birth \in DateLike
  BY DatesAssumption, DateType
<1>5. DaySeconds - 1 \in Int /\ 0 \in Int /\ second \in Int
  BY DayAssumption
<1> HIDE DEF s
<1>6. /\ mktime(s, DaySeconds - 1) = Days(s) * DaySeconds + (DaySeconds - 1)
      /\ mktime(s, 0) = Days(s) * DaySeconds + 0
      /\ mktime(birth, second) = Days(birth) * DaySeconds + second
  BY <1>3, <1>4, <1>5, SecondsOf
<1>7. Days(s) \in Int /\ Days(birth) \in Int
  BY <1>3, <1>4, DaysType
<1>8. /\ limit.from <= mktime(birth, second) <=> ~(Days(birth) <= Days(s))
      /\ limit.to >= mktime(birth, second) <=> ~(Days(s) <= Days(birth))
  <2>1. /\ Days(s) * DaySeconds + (DaySeconds - 1) + 1 <= Days(birth) * DaySeconds + second
             <=> ~(Days(birth) <= Days(s))
        /\ Days(s) * DaySeconds + 0 - 1 >= Days(birth) * DaySeconds + second
             <=> ~(Days(s) <= Days(birth))
    BY <1>7, DayLimits
  <2> DEFINE m == mktime(birth, second)
             f == Days(s) * DaySeconds + (DaySeconds - 1) + 1
             t == Days(s) * DaySeconds + 0 - 1
  <2>2. limit.from = f /\ limit.to = t
    <3>1. DaySeconds \in Int /\ Days(s) * DaySeconds \in Int
      BY <1>7, DayAssumption
    <3>2. mktime(s, DaySeconds - 1) + 1 = f /\ mktime(s, 0) - 1 = t
      BY <1>6, <3>1
    <3> HIDE DEF f, t
    <3> QED  BY <1>2, <3>2
  <2>3. /\ f <= m <=> ~(Days(birth) <= Days(s))
        /\ t >= m <=> ~(Days(s) <= Days(birth))
    BY <1>6, <2>1, Zenon
  <2> HIDE DEF m, f, t
  <2> QED  BY <2>2, <2>3 DEF m
<1> QED  BY <1>1, <1>2, <1>8 DEF FromPasses, ToPasses, s

\* Whole years are counted as dates are compared.
LEMMA AgesCompare ==
  ASSUME NEW b, OnCalendar(b), NEW d, OnCalendar(d), NEW s, OnCalendar(s),
         limit.age \in Int, s.year = d.year - limit.age, s.mon = d.mon, s.day = d.day
  PROVE  /\ OldEnough(b, d) <=> ~Precedes(s, b)
         /\ YoungEnough(b, d) <=> ~Precedes(b, s)
<1>1. /\ b.year \in Int /\ b.mon \in Int /\ b.day \in Int
      /\ d.year \in Int /\ d.mon \in Int /\ d.day \in Int
  BY DateType
<1>2. AgeOn(b, d) = d.year - b.year - (IF Before(d, b) THEN 1 ELSE 0)
  BY DEF AgeOn
<1>3. (Before(s, b) <=> Before(d, b)) /\ (Before(b, s) <=> Before(b, d))
  BY DEF Before
<1>4. /\ ~(Before(d, b) /\ Before(b, d)) /\ ~(Before(d, b) /\ Birthday(b, d))
      /\ ~(Before(b, d) /\ Birthday(b, d))
      /\ Before(d, b) \/ Before(b, d) \/ Birthday(b, d)
  BY <1>1 DEF Before, Birthday
<1>5. OldEnough(b, d) <=> ~Precedes(s, b)
  BY <1>1, <1>2, <1>3, <1>4 DEF OldEnough, Precedes
<1>6. YoungEnough(b, d) <=> ~Precedes(b, s)
  BY <1>1, <1>2, <1>3, <1>4 DEF YoungEnough, Precedes
<1> QED  BY <1>5, <1>6

LEMMA ShiftedOnCalendar ==
  ASSUME m_tm \in Date, limit.age \in 0 .. Largest(UInt), ~YearWraps, ~LeapDay
  PROVE  OnCalendar(Shifted(limit.age)) /\ Shifted(limit.age).year = m_tm.year - limit.age
<1> DEFINE s == Shifted(limit.age)
<1>1. OnCalendar(m_tm) /\ m_tm.year \in Int /\ limit.age \in Int
  BY DatesAssumption, IntType, DateType
<1>2. s \in DateLike /\ s.mon = m_tm.mon /\ s.day = m_tm.day
  BY ShiftedType
<1>3. s.year = m_tm.year - limit.age
  BY <1>1, ShiftedType, IntType DEF YearWraps
<1> HIDE DEF s
<1>4. 1900 + s.year = 1900 + m_tm.year - limit.age
  BY <1>1, <1>3
<1>5. s.day <= MonthDays[s.mon] + (IF s.mon = 2 /\ Leap(1900 + s.year) THEN 1 ELSE 0)
  <2>1. m_tm.mon \in 1 .. 12 /\ m_tm.day \in 1 .. 31
        /\ m_tm.day <= MonthDays[m_tm.mon] + (IF m_tm.mon = 2 /\ Leap(1900 + m_tm.year) THEN 1 ELSE 0)
    BY <1>1 DEF OnCalendar
  <2>2. ~(m_tm.mon = 2 /\ m_tm.day = 29 /\ ~Leap(1900 + s.year))
    BY <1>4 DEF LeapDay
  <2> QED  BY <1>2, <2>1, <2>2 DEF MonthDays
<1> QED  BY <1>2, <1>3, <1>5 DEF OnCalendar, DateLike, s

LEMMA AgesRight == AgesInv => LimitsRight
<1> SUFFICES ASSUME AgesInv, limit # NoLimit, NEW birth \in BirthDate,
                    NEW second \in 0 .. DaySeconds - 1
             PROVE  LET born == mktime(birth, second)
                    IN /\ YearWraps /\ mktime(birth, 0) <= mktime(m_tm, 0)
                            => FromPasses(born) /\ ~ToPasses(born)
                       /\ ~(YearWraps \/ LeapDay \/ OutOfDate(birth)) =>
                            /\ FromPasses(born) = OldEnough(birth, today)
                            /\ ToPasses(born) = YoungEnough(birth, today)
  BY DEF LimitsRight
<1> DEFINE born == mktime(birth, second)
           s == Shifted(limit.age)
<1>1. /\ limit.age \in 0 .. Largest(UInt) /\ limit.age \in Int
      /\ FromPasses(born) <=> Days(birth) <= Days(s)
      /\ ToPasses(born) <=> Days(s) <= Days(birth)
  BY Passing, IntType
<1>2. m_tm \in Date /\ OnCalendar(m_tm) /\ OnCalendar(birth) /\ m_tm \in DateLike /\ birth \in DateLike
  BY DatesAssumption, DateType DEF AgesInv
<1>3. s \in DateLike /\ s.mon = m_tm.mon /\ s.day = m_tm.day
  BY <1>1, <1>2, ShiftedType
<1>4. Days(s) \in Int /\ Days(birth) \in Int /\ Days(m_tm) \in Int
  BY <1>2, <1>3, DaysType
<1>5. ASSUME YearWraps, mktime(birth, 0) <= mktime(m_tm, 0)
      PROVE  FromPasses(born) /\ ~ToPasses(born)
  <2>1. s.year > m_tm.year
    BY <1>1, <1>2, <1>5, ShiftedType DEF YearWraps
  <2>2. Days(birth) <= Days(m_tm)
    <3>1. mktime(birth, 0) = Days(birth) * DaySeconds + 0
          /\ mktime(m_tm, 0) = Days(m_tm) * DaySeconds + 0
      BY <1>2, SecondsOf
    <3>2. 0 \in 0 .. DaySeconds - 1
      BY DayAssumption
    <3>3. Days(m_tm) * DaySeconds + 0 - 1 >= Days(birth) * DaySeconds + 0
             <=> ~(Days(m_tm) <= Days(birth))
      BY <1>4, <3>2, DayLimits
    <3>4. Days(m_tm) * DaySeconds + (DaySeconds - 1) + 1 <= Days(birth) * DaySeconds + 0
             <=> ~(Days(birth) <= Days(m_tm))
      BY <1>4, <3>2, DayLimits
    <3>5. Days(m_tm) * DaySeconds \in Int /\ Days(birth) * DaySeconds \in Int /\ DaySeconds \in Nat
          /\ DaySeconds >= 1
      BY <1>4, DayAssumption
    <3> QED  BY <1>5, <3>1, <3>4, <3>5
  <2>3. ~Precedes(m_tm, birth)
    BY <1>2, <2>2, DaysCompare
  <2>4. birth.year < s.year
    <3>1. birth.year \in Int /\ m_tm.year \in Int /\ s.year \in Int
      BY <1>2, <1>3, DateType DEF DateLike
    <3> QED  BY <2>1, <2>3, <3>1 DEF Precedes
  <2>5. Days(birth) < Days(s)
    BY <1>2, <1>3, <2>4, LaterYear
  <2> QED  BY <1>1, <1>4, <2>5
<1>6. ASSUME ~(YearWraps \/ LeapDay \/ OutOfDate(birth))
      PROVE  /\ FromPasses(born) = OldEnough(birth, today)
             /\ ToPasses(born) = YoungEnough(birth, today)
  <2>1. OnCalendar(s) /\ s.year = m_tm.year - limit.age
    BY <1>1, <1>2, <1>6, ShiftedOnCalendar
  <2>2. /\ OldEnough(birth, m_tm) <=> ~Precedes(s, birth)
        /\ YoungEnough(birth, m_tm) <=> ~Precedes(birth, s)
    BY <1>1, <1>2, <1>3, <2>1, AgesCompare
  <2>3. /\ Days(birth) <= Days(s) <=> ~Precedes(s, birth)
        /\ Days(s) <= Days(birth) <=> ~Precedes(birth, s)
    BY <1>2, <2>1, DaysCompare
  <2>4. /\ OldEnough(birth, m_tm) = OldEnough(birth, today)
        /\ YoungEnough(birth, m_tm) = YoungEnough(birth, today)
    BY <1>6 DEF OutOfDate
  <2>5. (FromPasses(born) <=> OldEnough(birth, m_tm)) /\ (ToPasses(born) <=> YoungEnough(birth, m_tm))
    BY <1>1, <2>2, <2>3
  <2>6. /\ FromPasses(born) \in BOOLEAN /\ ToPasses(born) \in BOOLEAN
        /\ OldEnough(birth, m_tm) \in BOOLEAN /\ YoungEnough(birth, m_tm) \in BOOLEAN
    BY DEF FromPasses, ToPasses, OldEnough, YoungEnough
  <2> QED  BY <2>4, <2>5, <2>6
<1> QED  BY <1>5, <1>6

\* The parameters of a query are converted by the loops of Numbers: nothing of
\* Ages disturbs them, and what holds of Numbers holds of every conversion.
THEOREM ConvertsAsNumbers == AgesSpec => NumSpec
<1>1. AgesInit => NumInit
  BY DEF AgesInit
<1> QED  BY <1>1, AgesStepsNumbers, PTL DEF AgesSpec, NumSpec

\* At every second of every day of birth of the calendar, whatever the age, the
\* limits let through those they should: those who are of age on the day of the
\* answer, if it is as the day of start-up, but for a start-up on 29 February and
\* for ages so large that the year wraps, whose answer is the opposite.
THEOREM LimitsAreRight == AgesSpec => []LimitsRight
<1> QED  BY InitAges, StepAges, AgesRight, PTL DEF AgesSpec
===============================================================================
