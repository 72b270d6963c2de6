------------------------------ MODULE MCHttpParse ------------------------------
(* Instances of HttpParse for TLC. *)
EXTENDS HttpParse

Get == <<"G", "ET">>
Post == <<"PO", "ST">>
Path == <<"/u", "/1">>

Names == {<<"a">>, <<"%61">>, <<>>}
Values == {<<>>, <<"a">>, <<"+", "%20">>, <<"=", "%26">>}
Pair == {[name |-> n, value |-> v] : n \in Names, v \in Values}
Options == {<<>>, <<<<>>>>} \cup {<<<<p>>>> : p \in Pair} \cup {<<<<p, q>>>> : p, q \in Pair}

Host == <<"Host", ":", " ", "a", ":", "1">>
Type == <<"Type", ":">>
Json == <<"{", "}">>

Plain == [method |-> Get, path |-> Path, options |-> <<>>, headers |-> <<Host>>, body |-> <<>>]

\* Query strings, in a GET that is read whole; single pairs in a POST too.
Queries ==
  {[Plain EXCEPT !.options = o] : o \in Options}
    \cup {[Plain EXCEPT !.method = Post, !.options = <<<<p>>>>, !.body = Json] : p \in Pair}

Variant(method, options, headers, body) ==
  [method |-> method, path |-> Path, options |-> options, headers |-> headers, body |-> body]

Usual == {<<>>, <<<<>>>>, <<<<[name |-> <<"a">>, value |-> <<"a">>]>>>>}

\* Bodies whose ends look like the beginnings of requests, each with a mistake.
Odd == {<<"{", " ", " ", "}">>, <<"{", " ", ":", " ", CR, "}">>, <<"{", " ", ":", "?", CR, LF, "}">>,
        <<"{", " ", ":", "?", "=", " ", "}">>, <<CR, LF, "{", LF, "}">>}

\* The rest of a request, in every part that a read may return.
Messages ==
  {Variant(Get, o, <<Host>>, <<>>) : o \in Usual}
    \cup {Variant(Post, o, <<Host>>, <<"{", CR, LF, CR, LF, "}">>) : o \in Usual}
    \cup {Variant(Post, <<>>, h, Json) : h \in {<<>>, <<Type, Host>>}}
    \cup {Variant(Post, <<>>, <<Host>>, body) : body \in Odd}
    \cup {Variant(<<"PUT">>, o, <<Host>>, Json) : o \in Usual}

AllOf(r) == [of |-> r, from |-> 0, text |-> Written(r)]
Beginnings(r) == {[of |-> r, from |-> 0, text |-> SubSeq(Written(r), 1, n)] : n \in 1 .. Len(Written(r))}
Ends(r) == {[of |-> r, from |-> n, text |-> SubSeq(Written(r), n + 1, Len(Written(r)))] :
              n \in 1 .. Len(Written(r)) - 1}

SomeReads ==
  {AllOf(r) : r \in Queries}
    \cup UNION {Beginnings(r) : r \in Messages}
    \cup UNION {Ends(r) : r \in {m \in Messages : m.method = Post /\ m.headers = <<Host>>}}
===============================================================================
