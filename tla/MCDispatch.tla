------------------------------ MODULE MCDispatch ------------------------------
(* Instances of Dispatch for TLC. *)
EXTENDS Dispatch, TLC

NoBody == [kind |-> "none"]
NoParams == None
Get(path, params) == [method |-> "GET", path |-> path, params |-> params, body |-> NoBody]
Post(path, body) == [method |-> "POST", path |-> path, params |-> NoParams, body |-> body]

Names == Entity \cup {"other"}
IdTexts == {"0", "1", "6", "-1", "", "new"}

Full(e) ==
  CASE e = "users" -> [id |-> "1", email |-> "chars99", first_name |-> "word",
                       last_name |-> "chars49", gender |-> "m", birth_date |-> "-1"]
    [] e = "locations" -> [id |-> "1", place |-> "chars100", country |-> "word",
                           city |-> "chars49", distance |-> "3000000000"]
    [] e = "visits" -> [id |-> "1", location |-> "1", user |-> "1", visited_at |-> "1", mark |-> "1"]

Values == {"-1", "0", "6", "3000000000", "5000000000", "null", "f", "chars50", "chars100"}
Without(f, m) == [x \in DOMAIN f \ {m} |-> f[x]]

\* A full body, one with a member missing, one with a member replaced, one that
\* has a single member (of the entity or not), and an empty one.
Objects(e) ==
  {Full(e), None}
    \cup {Without(Full(e), m) : m \in DOMAIN Full(e)}
    \cup {[Full(e) EXCEPT ![m] = v] : m \in DOMAIN Full(e) \ {"id"}, v \in Values}
    \cup {[Full(e) EXCEPT !.id = v] : v \in {"-1", "0", "6", "5000000000", "null"}}
    \cup {m :> v : m \in {"id", "gender", "city"}, v \in {"null", "f", "6"}}
Bodies(e) ==
  {[kind |-> "object", members |-> o] : o \in Objects(e)}
    \cup {NoBody, [kind |-> "unparsable"], [kind |-> "value"]}

\* Everything that is decided about a path.
Paths ==
  {<<"">>, <<"", "users">>} \cup {<<"", n, i>> : n \in Names, i \in IdTexts}
    \cup {<<"", n, i, f>> : n \in Names, i \in {"1", "-1", "new"}, f \in {"", "visits", "avg"}}
    \cup {<<"", "users", "1", "visits", "">>}

ParamNames == {"fromDate", "toDate", "toDistance", "fromAge", "toAge", "gender", "country"}
Params == {NoParams} \cup {p :> v : p \in ParamNames, v \in {"1", "5000000000", "-1", "m", ""}}

RouteRequests ==
  {Get(p, NoParams) : p \in Paths}
    \cup {Get(<<"", n, "1", f>>, ps) : n \in Entity, f \in {"visits", "avg"}, ps \in Params}
    \cup {Post(p, b) : p \in Paths, b \in {NoBody, [kind |-> "unparsable"], [kind |-> "value"]}}
    \cup {Post(p, [kind |-> "object", members |-> Full(e)]) : p \in Paths, e \in {"users", "visits"}}
    \cup {[Get(p, NoParams) EXCEPT !.method = "OTHER"] : p \in {<<"", "users", "1">>, <<"">>}}

\* All bodies for one entity.
BodyRequests(e) ==
  {Post(<<"", e, i>>, b) : i \in {"new", "1"}, b \in Bodies(e)} \cup {Get(<<"", e, "1">>, NoParams)}

\* Few bodies, so that updates follow each other in every order.
Edit(m, v) == [kind |-> "object", members |-> m :> v]
Visits ==
  {[Full("visits") EXCEPT !.id = i] : i \in {"0", "1", "6"}} \cup {[Full("visits") EXCEPT !.user = "0"]}
VisitRequests ==
  {Post(<<"", "visits", "new">>, [kind |-> "object", members |-> v]) : v \in Visits}
    \cup {Post(<<"", "visits", i>>, Edit(m, v)) :
            i \in {"1", "6"}, m \in {"id", "user", "mark"}, v \in {"1", "6", "null"}}
    \cup {Post(<<"", "visits", "1">>, Edit("user", "0"))}
    \cup {Get(<<"", "visits", i>>, NoParams) : i \in {"1", "6"}}

-------------------------------------------------------------------------------
(* Three clients, so that bodies, routes and writes in a row do not multiply. *)

Sends == [routes |-> RouteRequests, bodies |-> BodyRequests("users") \cup BodyRequests("locations"),
          writes |-> VisitRequests]
AllRequests == UNION {Sends[c] : c \in DOMAIN Sends}

VARIABLE client

MCInit == Init /\ client \in DOMAIN Sends
MCNext ==
  /\ alive
  /\ (\E r \in Sends[client] : Receive(r)) \/ Handle \/ Finish \/ Serve
  /\ UNCHANGED client
MCSpec == MCInit /\ [][MCNext]_<<vars, client>>
===============================================================================
