--------------------------------- MODULE Utf8 ---------------------------------
(***************************************************************************)
(* util::length_utf8 (util.cpp), which measures every text that            *)
(* deserializate limits: one action is one iteration of its loop.          *)
(*                                                                         *)
(* A byte is the number of bytes of the character that begins with it, or  *)
(* 0 if it continues one; 1 is a byte of ASCII.  Texts have no zero byte,  *)
(* as they are made from C strings.                                        *)
(***************************************************************************)
EXTENDS Naturals, Sequences, FiniteSets

CONSTANTS Text, \* the texts that are measured
          Size  \* bound: the number of values of size_tt

ASSUME TextAssumption == Text \subseteq Seq(Nat) /\ \A s \in Text : Len(s) < Size - 1
ASSUME SizeAssumption == Size \in Nat \ {0, 1}

\* The sum of two numbers of size_tt.
Plus(a, b) == IF a + b < Size THEN a + b ELSE a + b - Size

VARIABLES
  pc,
  encoding, \* of the locale that setlocale leaves in effect
  str,
  offset,
  length

vars == <<pc, encoding, str, offset, length>>

\* The character at byte i, whole or not.
Whole(s, i) ==
  s[i] # 0 /\ i + s[i] - 1 <= Len(s) /\ \A j \in i + 1 .. i + s[i] - 1 : s[j] = 0

\* mblen: the bytes of the character, -1 (in size_tt) if there is none.  Without
\* the locale ru_RU.UTF-8 that of C stays, which takes ASCII only or any byte.
mblen(s, i) ==
  CASE encoding = "UTF-8" -> IF Whole(s, i) THEN s[i] ELSE Size - 1
    [] encoding = "ASCII" -> IF s[i] = 1 THEN 1 ELSE Size - 1
    [] encoding = "8-bit" -> 1

Init ==
  /\ pc = "idle"
  /\ encoding \in {"UTF-8", "ASCII", "8-bit"}
  /\ str = <<>> /\ offset = 0 /\ length = 0

Call(s) ==
  /\ pc = "idle"
  /\ pc' = "loop" /\ str' = s /\ offset' = 0 /\ length' = 0
  /\ UNCHANGED encoding

\* Mutant: bytes are counted.
Character_Bytes ==
  /\ pc = "loop" /\ offset < Len(str)
  /\ offset' = Plus(offset, mblen(str, offset + 1))
  /\ length' = Plus(length, mblen(str, offset + 1))
  /\ UNCHANGED <<pc, encoding, str>>

\* Mutant: a character that is not there is not skipped.
Character_Guarded ==
  /\ pc = "loop" /\ offset < Len(str)
  /\ offset' = IF mblen(str, offset + 1) = Size - 1 THEN offset
               ELSE Plus(offset, mblen(str, offset + 1))
  /\ length' = Plus(length, 1)
  /\ UNCHANGED <<pc, encoding, str>>

Character ==
  /\ pc = "loop" /\ offset < Len(str)
  /\ offset' = Plus(offset, mblen(str, offset + 1))
  /\ length' = Plus(length, 1)
  /\ UNCHANGED <<pc, encoding, str>>

Return ==
  /\ pc = "loop" /\ offset >= Len(str)
  /\ pc' = "done"
  /\ UNCHANGED <<encoding, str, offset, length>>

\* The caller has the length.
Leave ==
  /\ pc = "done"
  /\ pc' = "idle" /\ str' = <<>> /\ offset' = 0 /\ length' = 0
  /\ UNCHANGED encoding

length_utf8 == Character \/ Return

Next == (\E s \in Text : Call(s)) \/ length_utf8 \/ Leave
Spec == Init /\ [][Next]_vars /\ WF_vars(length_utf8)

-------------------------------------------------------------------------------
(* Properties *)

\* The types: the counters are numbers of size_tt, however they wrap.
TypeOK ==
  /\ pc \in {"idle", "loop", "done"}
  /\ encoding \in {"UTF-8", "ASCII", "8-bit"}
  /\ str \in Text \cup {<<>>}
  /\ offset \in 0 .. Size - 1 /\ length \in 0 .. Size - 1

\* Every byte begins a whole character or belongs to the one that began last.
WellFormed(s) ==
  CASE encoding = "UTF-8" ->
         /\ s # <<>> => s[1] # 0
         /\ \A i \in DOMAIN s : s[i] # 0 =>
              Whole(s, i) /\ (i + s[i] <= Len(s) => s[i + s[i]] # 0)
    [] encoding = "ASCII" -> \A i \in DOMAIN s : s[i] = 1
    [] encoding = "8-bit" -> TRUE

Characters(s) ==
  IF encoding = "8-bit" THEN Len(s) ELSE Cardinality({i \in DOMAIN s : s[i] # 0})

BadStart(s) ==
  /\ s # <<>>
  /\ CASE encoding = "UTF-8" -> ~Whole(s, 1)
       [] encoding = "ASCII" -> s[1] # 1
       [] encoding = "8-bit" -> FALSE

\* A text that is well-formed in the encoding in effect is measured by its
\* characters; of others only those that begin badly are measured at all, as 1.
LengthRight ==
  pc = "done" => \/ WellFormed(str) /\ length = Characters(str)
                 \/ BadStart(str) /\ length = 1

\* And these are measured; on a text that begins well and goes on badly the loop
\* goes back and forth for ever over the character that is not there.
Measured == pc = "loop" /\ (WellFormed(str) \/ BadStart(str)) ~> pc = "done"
===============================================================================
