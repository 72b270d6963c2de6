---------------------------- MODULE MCVisitIndex ----------------------------
(* An instance of VisitIndex for TLC, with two kinds of behaviours. *)
EXTENDS VisitIndex, TLC

CONSTANTS h1, h2, v1, v2, a1, a2, k0, k1, k2, none

TwoHandlers == {h1, h2}
FourIds == {v1, v2, a1, a2}
ThreeKeys == {k0, k1, k2}
OneTime == {0}
OneMark == {1}

\* "loaded": a1 and a2 are listed first and stay, so that the lists of k1 and of
\* k2 never lose their last visit, and the process goes on.
\* "fresh": nothing is listed, one thread writes, and it may name the empty key.
VARIABLE mode

Anchors == a1 :> k1 @@ a2 :> k2
Anchored == \A a \in {a1, a2}, f \in IndexField : a \in index[f][Anchors[a]]

\* The visits that exist and those that tasks hold.
Named == {m_visits[id] : id \in Id} \cup {m_tasks[i].new : i \in DOMAIN m_tasks}
ChosenKeys(keys) == \A v \in Named' \ {NoVisit} : {v[f] : f \in IndexField} \subseteq keys

\* While a1 and a2 are being listed only h1 acts, and only on them.
Anchoring ==
  /\ hpc'[h2] = "idle"
  /\ hid'[h1] \in {a1, a2, NoVisit} /\ hpc'[h1] \in {"idle", "announce"}
  /\ \A a \in {a1, a2} : m_visits'[a] # NoVisit =>
       \A f \in IndexField : m_visits'[a][f] = Anchors[a]

MCInit == Init /\ mode \in {"loaded", "fresh"}
MCNext ==
  /\ Next
  /\ mode = "loaded" =>
       IF Anchored
       THEN ChosenKeys({k1, k2}) /\ \A h \in Handler : hid'[h] \in {v1, v2, NoVisit}
       ELSE Anchoring
  /\ mode = "fresh" =>
       hpc'[h2] = "idle" /\ \A h \in Handler : hid'[h] \in {v1, v2, NoVisit}
  /\ UNCHANGED mode
MCSpec == MCInit /\ [][MCNext]_<<vars, mode>> /\ Fairness
=============================================================================
