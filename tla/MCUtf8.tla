-------------------------------- MODULE MCUtf8 --------------------------------
(* An instance of Utf8 for TLC. *)
EXTENDS Utf8

\* All texts of up to five bytes, with characters of up to three.
MCTexts == UNION {[1 .. n -> 0 .. 3] : n \in 0 .. 5}
===============================================================================
