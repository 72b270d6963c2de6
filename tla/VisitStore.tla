------------------------------ MODULE VisitStore ------------------------------
(***************************************************************************)
(* What base promises about visits: an accepted write is a whole visit, it *)
(* takes effect in one step, and writes take effect in the order in which  *)
(* they were accepted.  An inserted visit is there at once; its entry in   *)
(* the log only puts it on the list of its user and of its location.       *)
(***************************************************************************)
EXTENDS Sequences

CONSTANTS Id,     \* identifiers of visits
          Visit,  \* what a visit holds
          NoVisit

VARIABLES store, \* the visits
          log    \* accepted writes that did not take effect yet, oldest first

vars == <<store, log>>

Write == [id : Id, update : BOOLEAN, new : Visit]

Init == store = [id \in Id |-> NoVisit] /\ log = <<>>

Insert(id, v) == /\ store[id] = NoVisit
                 /\ store' = [store EXCEPT ![id] = v]
                 /\ UNCHANGED log

Accept(w) == /\ store[w.id] # NoVisit
             /\ log' = Append(log, w)
             /\ UNCHANGED store

Apply == /\ log # <<>>
         /\ log' = Tail(log)
         /\ store' = IF Head(log).update THEN [store EXCEPT ![Head(log).id] = Head(log).new]
                                         ELSE store

Next == \/ Apply
        \/ \E id \in Id, v \in Visit : Insert(id, v)
        \/ \E w \in Write : Accept(w)

Spec == Init /\ [][Next]_vars
===============================================================================
