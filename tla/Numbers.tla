------------------------------- MODULE Numbers -------------------------------
(***************************************************************************)
(* util::atoi (util.h), which converts every number of a path or a query   *)
(* string, with itoa and set_all_bits, from which it learns the largest    *)
(* value of its type.  One action is one iteration of a loop.              *)
(*                                                                         *)
(* A type is the number of its values and whether it has a sign.  A byte   *)
(* is its place among the digits and what the code compares it with: 0..9  *)
(* for '0'..'9', less for the bytes below '0', more for those above '9'.   *)
(***************************************************************************)
EXTENDS Integers, Sequences

CONSTANTS Type,  \* the types that are converted to
          Text   \* the texts that are converted

\* A size is a power of two: whatever divides it, but for 1, is even.
ASSUME TypeAssumption ==
  \A t \in Type :
    /\ t.size \in Nat /\ t.size > 2 /\ t.signed \in BOOLEAN
    /\ \A m, n \in 1 .. t.size : m * n = t.size /\ n > 1 => n % 2 = 0
ASSUME TextAssumption == Text \subseteq Seq(Int)

\* The default of each base parameter; no caller passes another.
Base == 10

Least(t) == IF t.signed THEN -(t.size \div 2) ELSE 0
Largest(t) == IF t.signed THEN t.size \div 2 - 1 ELSE t.size - 1
ValuesOf(t) == Least(t) .. Largest(t)

\* What is left of x in a variable of type t.
Wrap(t, x) ==
  IF x \in ValuesOf(t) THEN x
  ELSE LET u == x % t.size IN IF u > Largest(t) THEN u - t.size ELSE u

VARIABLES
  pc,       \* the loop atoi is in
  T,        \* the type
  text,     \* history: the text as it was given
  str,      \* the text, padded once its length is accepted
  temp,     \* set_all_bits: the next value
  test,     \* its result, the largest value
  arg,      \* itoa: what is left of test
  test_str, \* test in digits
  quots,    \* history: arg when each digit of test_str was split off
  it,       \* digits of str that are converted
  result

numVars == <<pc, T, text, str, temp, test, arg, test_str, quots, it, result>>

Finished == pc \in {"done", "refused"}

Call(t, s) ==
  /\ pc = "idle"
  /\ pc' = "bits"
  /\ T' = t /\ text' = s /\ str' = s
  /\ UNCHANGED <<temp, test, arg, test_str, quots, it, result>>

\* The caller has the result, or the exception.
Leave ==
  /\ Finished
  /\ pc' = "idle"
  /\ text' = <<>> /\ str' = <<>>
  /\ temp' = 1 /\ test' = 0
  /\ test_str' = <<>> /\ quots' = <<>> /\ arg' = 0
  /\ it' = 0 /\ result' = 0
  /\ UNCHANGED T

\* Mutant: the loop does not notice that an unsigned value has stopped growing.
AllBits_NoFixpoint ==
  /\ pc = "bits"
  /\ IF temp > 0
     THEN test' = temp /\ temp' = Wrap(T, 2 * temp + 1) /\ UNCHANGED <<pc, arg>>
     ELSE pc' = "itoa" /\ arg' = test /\ UNCHANGED <<temp, test>>
  /\ UNCHANGED <<T, text, str, test_str, quots, it, result>>

\* Mutant: the loop's variable is wider than the type.
AllBits_Wider ==
  /\ pc = "bits"
  /\ IF temp # test /\ temp > 0
     THEN test' = temp /\ temp' = 2 * temp + 1 /\ UNCHANGED <<pc, arg>>
     ELSE pc' = "itoa" /\ arg' = test /\ UNCHANGED <<temp, test>>
  /\ UNCHANGED <<T, text, str, test_str, quots, it, result>>

AllBits ==
  /\ pc = "bits"
  /\ IF temp # test /\ temp > 0
     THEN test' = temp /\ temp' = Wrap(T, 2 * temp + 1) /\ UNCHANGED <<pc, arg>>
     ELSE pc' = "itoa" /\ arg' = test /\ UNCHANGED <<temp, test>>
  /\ UNCHANGED <<T, text, str, test_str, quots, it, result>>

\* The digits are appended and reversed at the end.
Itoa ==
  /\ pc = "itoa"
  /\ IF arg # 0
     THEN /\ test_str' = <<arg % Base>> \o test_str
          /\ quots' = <<arg>> \o quots
          /\ arg' = arg \div Base
          /\ UNCHANGED pc
     ELSE pc' = "check" /\ UNCHANGED <<test_str, quots, arg>>
  /\ UNCHANGED <<T, text, str, temp, test, it, result>>

Padded(s, n) == [i \in 1 .. n |-> IF i <= n - Len(s) THEN 0 ELSE s[i - (n - Len(s))]]

\* Mutant: only the first byte is compared.
Greater_FirstByte(s, t) == s # <<>> /\ s[1] > t[1]

\* operator> of two strings of the same length.
Greater(s, t) == \E k \in DOMAIN s : s[k] > t[k] /\ \A j \in 1 .. k - 1 : s[j] = t[j]

\* Too long a text and too large a number throw.
Check ==
  /\ pc = "check"
  /\ LET padded == Padded(str, Len(test_str))
     IN IF Len(str) <= Len(test_str) /\ ~Greater(padded, test_str)
        THEN pc' = "digits" /\ str' = padded
        ELSE pc' = "refused" /\ UNCHANGED str
  /\ UNCHANGED <<T, text, temp, test, arg, test_str, quots, it, result>>

\* Mutant: a byte above the digits is taken for a digit.
IsDigit_AnyAbove(c) == c >= 0

\* The byte's position in alph is below the base.
IsDigit(c) == c \in 0 .. Base - 1

Digit ==
  /\ pc = "digits" /\ it < Len(str)
  /\ IF IsDigit(str[it + 1])
     THEN it' = it + 1 /\ result' = Wrap(T, result * Base + str[it + 1]) /\ UNCHANGED pc
     ELSE pc' = "refused" /\ UNCHANGED <<it, result>>
  /\ UNCHANGED <<T, text, str, temp, test, arg, test_str, quots>>

Return ==
  /\ pc = "digits" /\ it = Len(str)
  /\ pc' = "done"
  /\ UNCHANGED <<T, text, str, temp, test, arg, test_str, quots, it, result>>

NumInit ==
  /\ pc = "idle"
  /\ T \in Type /\ text = <<>> /\ str = <<>>
  /\ temp = 1 /\ test = 0
  /\ test_str = <<>> /\ quots = <<>> /\ arg = 0
  /\ it = 0 /\ result = 0

Atoi == AllBits \/ Itoa \/ Check \/ Digit \/ Return

NumNext == (\E t \in Type, s \in Text : Call(t, s)) \/ Atoi \/ Leave
NumSpec == NumInit /\ [][NumNext]_numVars

-------------------------------------------------------------------------------
(* Properties *)

\* The types; test_str holds digits, and quots is as long.
NumTypeOK ==
  /\ pc \in {"idle", "bits", "itoa", "check", "digits", "done", "refused"}
  /\ T \in Type
  /\ text \in Seq(Int) /\ str \in Seq(Int)
  /\ temp \in ValuesOf(T) /\ test \in 0 .. Largest(T) /\ arg \in 0 .. Largest(T)
  /\ test_str \in Seq(0 .. Base - 1) /\ quots \in Seq(Nat) /\ Len(quots) = Len(test_str)
  /\ it \in 0 .. Len(str) /\ result \in ValuesOf(T)

\* The comparison of texts is enough: whatever text and whatever type, no step of
\* the multiplication leaves the type, so that nothing wraps round unseen.
NoOverflow ==
  pc = "digits" /\ it < Len(str) /\ IsDigit(str[it + 1])
    => result * Base + str[it + 1] \in 0 .. Largest(T)

\* The number that a text of digits writes.
Value(s) ==
  LET v[i \in 0 .. Len(s)] == IF i = 0 THEN 0 ELSE 10 * v[i - 1] + s[i]
  IN v[Len(s)]

Numeral(s) == \A i \in DOMAIN s : s[i] \in 0 .. 9

\* The least number that has k digits, and how many digits a number has.
LeastOf(k) == Value([i \in 1 .. k |-> IF i = 1 THEN 1 ELSE 0])
DigitsOf(n) == CHOOSE k \in 1 .. n : LeastOf(k) <= n /\ n < LeastOf(k + 1)

\* A text is converted to the number it writes if it consists of digits, no more
\* than the largest value has, and the number fits; it is refused otherwise.  An
\* empty text is 0; zeros in front count as digits; there is no minus sign.
Converted ==
  LET good == Numeral(text) /\ Len(text) <= DigitsOf(Largest(T)) /\ Value(text) <= Largest(T)
  IN /\ pc = "done" => good /\ result = Value(text)
     /\ pc = "refused" => ~good

\* Every conversion ends; set_all_bits stops where a signed value turns negative
\* and an unsigned one stops growing.
Ends == pc = "bits" ~> Finished
===============================================================================
