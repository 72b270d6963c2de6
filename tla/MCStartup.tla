------------------------------ MODULE MCStartup ------------------------------
(* An instance of Startup for TLC. *)
EXTENDS Startup

With(effect, id, text) == [id |-> id, text |-> <<"{">> \o text \o <<"}">>, effect |-> effect]
Obj(id, text) == With("stored", id, text)
\* Plain ones, the second with the first one's id, some with braces in a string,
\* and those that base cannot take.
Objects == {Obj(1, <<"a">>), Obj(1, <<"b">>), Obj(2, <<"c">>), Obj(3, <<"x", "{", "y">>),
            Obj(4, <<"x", "}", "y">>), Obj(5, <<"}", "x", "{">>),
            With("endless", 7, <<"e">>), With("emptyKey", 0, <<"z">>)}

F(e, r, objects) == [entity |-> e, readable |-> r, objects |-> objects]
Lists == UNION {[1 .. n -> Objects] : n \in 0 .. 2}
Odd == {F(None, TRUE, <<>>), F("visits", FALSE, <<Obj(2, <<"c">>)>>), F("other", TRUE, <<Obj(2, <<"c">>)>>)}
Second == F("users", TRUE, <<Obj(1, <<"b">>), Obj(6, <<"d">>)>>)

MCLeftover == {F("visits", TRUE, <<Obj(1, <<"a">>), With("unlisted", 8, <<"u">>)>>)}
MCDataSet == {Odd} \cup {{F("users", TRUE, l), Second} : l \in Lists}
MCFile == Odd \cup {Second} \cup MCLeftover \cup {F("users", TRUE, l) : l \in Lists}
===============================================================================
