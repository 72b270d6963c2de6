-------------------------------- MODULE MCAges --------------------------------
(* An instance of Ages for TLC: 8-bit ints, so that years can wrap. *)
EXTENDS Ages

\* uint32_t, and a signed and an unsigned type of other widths.
MCTypes == {UInt, [size |-> 64, signed |-> TRUE], [size |-> 16, signed |-> FALSE],
            [size |-> 256, signed |-> TRUE]}

\* All texts of up to three bytes, one of them below and one above the digits.
Byte == {-1, 0, 1, 2, 5, 9, 10}
MCTexts == UNION {[1 .. n -> Byte] : n \in 0 .. 3} \cup {<<0, 0, 0, 7>>}

D(y, m, d) == [year |-> y - 1900, mon |-> m, day |-> d]

MCDates == {D(2017, 8, 24), D(2020, 2, 29), D(2020, 3, 1)}

MCBirths ==
  {D(y, m, d) : y \in {1916, 1930, 1999, 2000, 2016, 2020}, m \in {2, 3, 8}, d \in {1, 24, 25, 28}}
    \cup {D(y, 2, 29) : y \in {1916, 2000, 2016}} \cup {D(1999, 12, 31)}
===============================================================================
