------------------------------- MODULE HttpParse -------------------------------
(***************************************************************************)
(* sp_http_proto: parse, its state machine over the bytes of one read, and *)
(* parse_urlencoded with unquote (sp_http_proto.cpp, http_proto.cpp).      *)
(*                                                                         *)
(* A text is a sequence of tokens; a token is one byte that means          *)
(* something to the parser, or some plain bytes.  The parser object of a   *)
(* thread reads one text after the other, each a part of a request.        *)
(***************************************************************************)
EXTENDS Integers, Sequences, SequencesExt, Functions

CONSTANT Reads  \* [of, from, text]: what one call of read returned, and of which request

ASSUME ReadsAssumption == \A r \in Reads : r.text \in Seq(STRING)

NoRead == <<>>
SP == " "
CR == "\r"
LF == "\n"
NewLine == {CR, LF}

\* What a pair of hexadecimal digits stands for, of those that are used.
Hex == [code \in {<<"2", "0">>, <<"2", "6">>, <<"3", "D">>, <<"6", "1">>} |->
          CASE code = <<"2", "0">> -> SP [] code = <<"2", "6">> -> "&"
            [] code = <<"3", "D">> -> "=" [] code = <<"6", "1">> -> "a"]

Method(text) == CASE text = <<"G", "ET">> -> "GET" [] text = <<"PO", "ST">> -> "POST"
                  [] OTHER -> "UNKNOWN"

-------------------------------------------------------------------------------
(* Requests as a client writes them *)

\* [method, path, options, headers, body]; options is <<>> or a sequence of a
\* sequence of [name, value], which are sequences of the symbols below.
Spell == [s \in {"a", "=", "+", "%20", "%26", "%3D", "%61"} |->
            CASE s = "%20" -> <<"%", "2", "0">> [] s = "%26" -> <<"%", "2", "6">>
              [] s = "%3D" -> <<"%", "3", "D">> [] s = "%61" -> <<"%", "6", "1">>
              [] OTHER -> <<s>>]
Means == [s \in DOMAIN Spell |->
            CASE s \in {"+", "%20"} -> SP [] s = "%26" -> "&" [] s = "%3D" -> "="
              [] s = "%61" -> "a" [] OTHER -> s]

Spelled(symbols) == FlattenSeq([i \in DOMAIN symbols |-> Spell[symbols[i]]])
Meant(symbols) == [i \in DOMAIN symbols |-> Means[symbols[i]]]

Lines(lines) == FlattenSeq([i \in DOMAIN lines |-> lines[i] \o <<CR, LF>>])
Pairs(ps) == [i \in DOMAIN ps |-> Spelled(ps[i].name) \o <<"=">> \o Spelled(ps[i].value)]
Joined(seqs) == FlattenSeq([i \in DOMAIN seqs |-> IF i = 1 THEN seqs[i] ELSE <<"&">> \o seqs[i]])

Written(r) ==
  r.method \o <<SP>> \o r.path
    \o (IF r.options = <<>> THEN <<>> ELSE <<"?">> \o Joined(Pairs(r.options[1])))
    \o <<SP, "HTTP", CR, LF>> \o Lines(r.headers) \o <<CR, LF>> \o r.body

\* No part is empty that must not be, and none has a byte that ends it; a header
\* begins with its name.  A query string is a list of name=value pairs: parameters
\* without a "=" are left out.
IsRequest(r) ==
  /\ r.method \in Seq(STRING \ {SP}) \ {<<>>}
  /\ r.path \in Seq(STRING \ {SP, "?"}) \ {<<>>}
  /\ r.options # <<>> =>
       /\ r.options = <<r.options[1]>>
       /\ r.options[1] \in Seq([name : Seq(DOMAIN Spell \ {"="}), value : Seq(DOMAIN Spell)])
  /\ r.headers \in Seq(Seq(STRING \ NewLine) \ {<<>>})
  /\ \A i \in DOMAIN r.headers : r.headers[i][1] # ":"
  /\ r.body \in Seq(STRING)

\* A read returns a part of what a client wrote.
ASSUME SentAssumption ==
  \A r \in Reads :
    /\ IsRequest(r.of)
    /\ r.from \in 0 .. Len(Written(r.of)) - Len(r.text)
    /\ r.text = SubSeq(Written(r.of), r.from + 1, r.from + Len(r.text))

-------------------------------------------------------------------------------
VARIABLES
  read,                             \* what the buffer holds, NoRead at first
  result,                           \* "running", or what parse returned
  count, m_state, m_current, m_cvalue, m_flag_2n,
  m_method, m_path, m_get, m_data   \* the request object, reused for every read

local == <<m_state, m_current, m_cvalue, m_flag_2n>>
object == <<m_method, m_path, m_get, m_data>>
vars == <<read, result, count, local, object>>

m_raw == read.text
Part(first, end) == SubSeq(m_raw, first + 1, end)  \* bytes first .. end - 1
b == m_raw[count + 1]

At(state) == result = "running" /\ count < Len(m_raw) /\ m_state = state
NextByte == count' = count + 1 /\ UNCHANGED <<read, result>>
Return(value) == result' = value /\ UNCHANGED <<read, count, local>>
Goto(state) == m_state' = state /\ m_current' = count + 1 /\ UNCHANGED <<m_cvalue, m_flag_2n>>

\* Mutant: the previous path is kept.
Receive_KeepsPath(r) ==
  /\ result # "running"
  /\ read' = r /\ result' = "running"
  /\ count' = 0 /\ m_state' = "METHOD" /\ m_current' = 0 /\ m_cvalue' = 0 /\ m_flag_2n' = FALSE
  /\ m_get' = <<>> /\ m_data' = <<>>
  /\ UNCHANGED <<m_path, m_method>>

\* Everything starts anew but m_method.
Receive(r) ==
  /\ result # "running"
  /\ read' = r /\ result' = "running"
  /\ count' = 0 /\ m_state' = "METHOD" /\ m_current' = 0 /\ m_cvalue' = 0 /\ m_flag_2n' = FALSE
  /\ m_get' = <<>> /\ m_path' = <<>> /\ m_data' = <<>>
  /\ UNCHANGED m_method

ReadMethod ==
  /\ At("METHOD")
  /\ \/ b # SP /\ NextByte /\ UNCHANGED <<local, object>>
     \/ b = SP /\ count = m_current /\ Return("false") /\ UNCHANGED object
     \/ /\ b = SP /\ count # m_current
        /\ m_method' = Method(Part(m_current, count))
        /\ Goto("PATH") /\ NextByte
        /\ UNCHANGED <<m_path, m_get, m_data>>

ReadPath ==
  /\ At("PATH")
  /\ \/ b \notin {SP, "?"} /\ NextByte /\ UNCHANGED <<local, object>>
     \/ b \in {SP, "?"} /\ count = m_current /\ Return("false") /\ UNCHANGED object
     \/ /\ b \in {SP, "?"} /\ count # m_current
        /\ m_path' = Part(m_current, count)
        /\ Goto(IF b = "?" THEN "GETOPTIONS" ELSE "VERSION") /\ NextByte
        /\ UNCHANGED <<m_method, m_get, m_data>>

\* unquote, one byte: nbyte counts those since the percent sign.
Decode(acc, byte) ==
  CASE byte = "%" -> [acc EXCEPT !.nbyte = 1]
    [] byte # "%" /\ acc.nbyte = 1 -> [acc EXCEPT !.nbyte = 2, !.high = byte]
    [] byte # "%" /\ acc.nbyte = 2 ->
         [acc EXCEPT !.nbyte = 0, !.res = Append(@, Hex[<<acc.high, byte>>])]
    [] byte = "+" /\ acc.nbyte = 0 -> [acc EXCEPT !.res = Append(@, SP)]
    [] OTHER -> [acc EXCEPT !.res = Append(@, byte)]

\* What unquote has made of the bytes up to each.
Decoding(bytes) ==
  LET after[n \in 0 .. Len(bytes)] ==
        IF n = 0 THEN [nbyte |-> 0, high |-> "0", res |-> <<>>] ELSE Decode(after[n - 1], bytes[n])
  IN after
unquote(bytes) == Decoding(bytes)[Len(bytes)].res

\* An empty name makes name->at throw; the first of two pairs with the same name
\* is kept.
AddPair(acc, i, size) ==
  LET name == unquote(Part(acc.name_start, acc.name_start + acc.name_size))
      value == unquote(Part(acc.value_start, acc.value_start + size))
  IN IF name = <<>> THEN [acc EXCEPT !.ok = FALSE]
     ELSE [acc EXCEPT !.get = IF name \in DOMAIN @ THEN @
                              ELSE [n \in DOMAIN @ \cup {name} |-> IF n = name THEN value ELSE @[n]],
                      !.name_start = i + 1, !.value_start = 0]

\* parse_urlencoded, one byte of those before end, none of which is a blank.
TakeByte(acc, i, end) ==
  CASE ~acc.ok -> acc
    [] acc.ok /\ m_raw[i + 1] = "=" /\ acc.value_start = 0 ->
         [acc EXCEPT !.name_size = i - acc.name_start, !.value_start = i + 1]
    [] acc.ok /\ acc.value_start # 0 /\ m_raw[i + 1] = "&" -> AddPair(acc, i, i - acc.value_start)
    [] acc.ok /\ acc.value_start # 0 /\ m_raw[i + 1] # "&" /\ i + 1 = end ->
         AddPair(acc, i, i - acc.value_start + 1)
    [] OTHER -> acc

\* What has been found before each position from begin to end.
Scan(begin, end) ==
  LET before[i \in begin .. end] ==
        IF i = begin
        THEN [ok |-> TRUE, get |-> m_get, name_start |-> begin, name_size |-> 0, value_start |-> 0]
        ELSE TakeByte(before[i - 1], i - 1, end)
  IN before
parse_urlencoded(begin, end) == Scan(begin, end)[end]

\* Mutant: a break at the end of case GETOPTIONS.
ReadOptions_Breaks ==
  LET parsed == parse_urlencoded(m_current, count)
  IN /\ At("GETOPTIONS")
     /\ \/ b # SP /\ NextByte /\ UNCHANGED <<local, object>>
        \/ b = SP /\ count = m_current /\ Goto("GETOPTIONS") /\ NextByte /\ UNCHANGED object
        \/ /\ b = SP /\ count # m_current
           /\ m_get' = parsed.get
           /\ IF ~parsed.ok THEN Return("false")
              ELSE IF m_method = "GET" THEN Return("true")
              ELSE Goto("GETOPTIONS") /\ NextByte
           /\ UNCHANGED <<m_method, m_path, m_data>>

\* Without a break at its end: it goes on with case VERSION.
ReadOptions ==
  LET parsed == parse_urlencoded(m_current, count)
  IN /\ At("GETOPTIONS")
     /\ \/ b \notin NewLine \cup {SP} /\ NextByte /\ UNCHANGED <<local, object>>
        \/ b = SP /\ count = m_current /\ Goto("GETOPTIONS") /\ NextByte /\ UNCHANGED object
        \/ /\ b = SP /\ count # m_current
           /\ m_get' = parsed.get
           /\ IF ~parsed.ok THEN Return("false")
              ELSE IF m_method = "GET" THEN Return("true")
              ELSE Goto("GETOPTIONS") /\ NextByte
           /\ UNCHANGED <<m_method, m_path, m_data>>
        \/ b \in NewLine /\ count = m_current /\ Return("false") /\ UNCHANGED object
        \/ b \in NewLine /\ count # m_current /\ Goto("HEADER") /\ NextByte /\ UNCHANGED object

ReadVersion ==
  /\ At("VERSION")
  /\ \/ b \notin NewLine /\ NextByte /\ UNCHANGED local
     \/ b \in NewLine /\ count = m_current /\ Return("false")
     \/ b \in NewLine /\ count # m_current /\ Goto("HEADER") /\ NextByte
  /\ UNCHANGED object

\* m_flag_2n: nothing but one line feed since the last header.
ReadHeader ==
  /\ At("HEADER")
  /\ \/ /\ b = LF /\ m_flag_2n
        /\ IF m_method = "GET" THEN Return("true") ELSE Goto("BODY") /\ NextByte
     \/ /\ b \in NewLine /\ ~(b = LF /\ m_flag_2n)
        /\ m_flag_2n' = (m_flag_2n \/ b = LF)
        /\ m_current' = count + 1
        /\ UNCHANGED <<m_state, m_cvalue>> /\ NextByte
     \/ /\ b = ":" /\ m_cvalue < m_current
        /\ m_cvalue' = count + 2
        /\ UNCHANGED <<m_state, m_current, m_flag_2n>> /\ NextByte
     \/ /\ b \notin NewLine /\ ~(b = ":" /\ m_cvalue < m_current)
        /\ m_flag_2n' = FALSE
        /\ UNCHANGED <<m_state, m_current, m_cvalue>> /\ NextByte
  /\ UNCHANGED object

\* The body is what is left of the read.
ReadBody ==
  /\ At("BODY")
  /\ \/ b \in NewLine /\ Goto("BODY") /\ NextByte /\ UNCHANGED object
     \/ /\ b \notin NewLine
        /\ m_data' = IF m_method = "POST" THEN Part(m_current, Len(m_raw)) ELSE m_data
        /\ Return("true")
        /\ UNCHANGED <<m_method, m_path, m_get>>

\* Mutant: a path that is not ended is taken for the path.
EndOfData_TakesPath ==
  /\ result = "running" /\ count = Len(m_raw)
  /\ Return("true")
  /\ m_path' = IF m_state = "PATH" THEN Part(m_current, count) ELSE m_path
  /\ UNCHANGED <<m_method, m_get, m_data>>

EndOfData ==
  /\ result = "running" /\ count = Len(m_raw)
  /\ Return("true")
  /\ UNCHANGED object

Init ==
  /\ read = NoRead
  /\ result = "false"
  /\ count = 0 /\ m_state = "METHOD" /\ m_current = 0 /\ m_cvalue = 0 /\ m_flag_2n = FALSE
  /\ m_method \in {"GET", "POST", "UNKNOWN"}  \* not initialized by the constructor
  /\ m_path = <<>> /\ m_get = <<>> /\ m_data = <<>>

Next ==
  \/ \E r \in Reads : Receive(r)
  \/ ReadMethod \/ ReadPath \/ ReadOptions \/ ReadVersion \/ ReadHeader \/ ReadBody
  \/ EndOfData

Spec == Init /\ [][Next]_vars

-------------------------------------------------------------------------------
(* Properties *)

\* The types.  The part that is being collected lies within the read.
TypeOK ==
  /\ read \in Reads \cup {NoRead}
  /\ result \in {"running", "true", "false"}
  /\ m_state \in {"METHOD", "PATH", "GETOPTIONS", "VERSION", "HEADER", "BODY"}
  /\ m_method \in {"GET", "POST", "UNKNOWN"}
  /\ m_flag_2n \in BOOLEAN
  /\ m_cvalue \in Nat
  /\ read # NoRead => count \in 0 .. Len(m_raw) /\ m_current \in 0 .. count

Parsed == read # NoRead /\ result # "running"
Whole == read.text = Written(read.of)

\* The query string as its writer means it: names and values decoded, the first
\* of equal names, and nothing of a last pair that has no value.
Query(r) ==
  LET all == IF r.options = <<>> THEN <<>> ELSE r.options[1]
      seen == IF all # <<>> /\ Last(all).value = <<>> THEN Front(all) ELSE all
      FirstOf(name) == CHOOSE i \in DOMAIN seen :
        /\ Meant(seen[i].name) = name
        /\ \A j \in 1 .. i - 1 : Meant(seen[j].name) # name
  IN [name \in {Meant(seen[i].name) : i \in DOMAIN seen} |-> Meant(seen[FirstOf(name)].value)]

NamesGiven(r) == <<>> \notin DOMAIN Query(r)

\* A body without the line breaks before it.
Unpadded(body) ==
  LET first == SelectInSeq(body, LAMBDA byte : byte \notin NewLine)
  IN IF first = 0 THEN <<>> ELSE SubSeq(body, first, Len(body))

\* A request that arrives in one read is understood as it was written: method,
\* path, name=value pairs, and for a POST the body; or refused, if a name is empty.
WholeRead ==
  Parsed /\ Whole =>
    LET r == read.of
    IN /\ result = IF NamesGiven(r) THEN "true" ELSE "false"
       /\ result = "true" =>
            /\ m_method = Method(r.method)
            /\ m_path = r.path
            /\ m_get = Query(r)
            /\ m_data = IF m_method = "POST" THEN Unpadded(r.body) ELSE <<>>

\* The beginning of a request is never taken for another request: it has no path
\* or its path, no parameters or its parameters, and a part of its body.
BeginningHonest ==
  Parsed /\ read.from = 0 /\ result = "true" /\ m_path # <<>> =>
    LET r == read.of
    IN /\ m_method = Method(r.method)
       /\ m_path = r.path
       /\ m_get = <<>> \/ m_get = Query(r)
       /\ IsPrefix(m_data, Unpadded(r.body))

\* One request object serves every connection of a thread.  What a read leaves in
\* it never depends on earlier reads, unless there is no path, which is answered
\* with 400 whatever the method.
NothingLeftOver ==
  Parsed /\ m_path # <<>> =>
    \E i, j \in DOMAIN m_raw :
      /\ i < j /\ m_raw[i] = SP /\ m_raw[j] \in {SP, "?"}
      /\ \A k \in 1 .. i - 1 : m_raw[k] # SP
      /\ \A k \in i + 1 .. j - 1 : m_raw[k] \notin {SP, "?"}
      /\ m_method = Method(SubSeq(m_raw, 1, i - 1))
      /\ m_path = SubSeq(m_raw, i + 1, j - 1)
      /\ m_get # <<>> => m_raw[j] = "?"
      /\ m_data # <<>> => m_method = "POST" /\ IsSuffix(m_data, m_raw)
===============================================================================
