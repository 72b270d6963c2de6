-------------------------------- MODULE MCQuery --------------------------------
(* An instance of Query for TLC, with two kinds of behaviours. *)
EXTENDS Query, TLC

CONSTANTS h1, h2, r1, r2, v1, v2, k1, k2, zero, none

OneHandler == {h1}
TwoReaders == {r1, r2}
TwoIds == {v1, v2}
TwoKeys == {k1, k2}

\* k2 is a user and no location.
UsersAndLocations == [f \in IndexField |-> IF f = "user" THEN {k1, k2} ELSE {k1}]

TwoTimes == {1, 2}
TwoMarks == {2, 5}

\* Two visits at different times, or two at the same time; each time has its mark.
Paired(v) == v["mark"] = (IF v["visited_at"] = 1 THEN 2 ELSE 5)

Query1(f, from, to, fits) == [field |-> f, key |-> k1, from |-> from, to |-> to, fits |-> fits]

\* The visits of a user before 2, and the average of those of a location after 1.
VisitRequests == {Query1("user", Absent, 2, TwoKeys)}
MarkRequests == {Query1("location", 1, Absent, TwoKeys)}

Requests == VisitRequests \cup MarkRequests

\* The keys are not alike: the queries ask for k1, and k2 is no location.
Symmetry == Permutations(TwoIds) \cup Permutations(TwoReaders)

\* "walk": one reader, while two visits are written one after the other.
\* "print": two readers that print averages, and one visit.
VARIABLE mode

Asking(readers, requests) ==
  Cardinality(Asked') <= readers /\ \A r \in Asked' : query'[r] \in requests

MCInit == QueryInit /\ mode \in {"walk", "print"}
MCNext ==
  /\ QueryNext
  /\ \A id \in Id : m_visits[id] = NoVisit /\ m_visits'[id] # NoVisit => Paired(m_visits'[id])
  /\ \A i \in DOMAIN m_tasks' : m_tasks'[i].update => Paired(m_tasks'[i].new)
  /\ mode = "walk" => Asking(1, Requests) /\ Outstanding' <= 1
  /\ mode = "print" => /\ Asking(2, MarkRequests)
                       /\ writes' <= 2 /\ \A r \in Reader : Len(met'[r]) <= 2
                       /\ Cardinality({id \in Id : m_visits'[id] # NoVisit}) <= 1
  /\ UNCHANGED mode
MCSpec == MCInit /\ [][MCNext]_<<qvars, mode>>
===============================================================================
