------------------------------ MODULE TaskQueue ------------------------------
(***************************************************************************)
(* What base promises about the work it hands to its background thread:   *)
(* for each kind of entity there is one FIFO of tasks, every task that was *)
(* handed over is served at most once, and tasks of one kind are served in *)
(* the order in which they were handed over.  There are no flags, no       *)
(* mutexes, no condition variable and no swapped-out batch here.           *)
(***************************************************************************)
EXTENDS Sequences

CONSTANTS Kind,  \* the three task queues of base
          Task   \* identities of the tasks that are ever handed over

VARIABLES fresh,   \* tasks not handed over yet
          pending, \* pending[k]: handed over, not yet served, oldest first
          done     \* done[k]: served, oldest first

vars == <<fresh, pending, done>>

Init == /\ fresh = Task
        /\ pending = [k \in Kind |-> <<>>]
        /\ done = [k \in Kind |-> <<>>]

Submit(k, t) == /\ t \in fresh
                /\ fresh' = fresh \ {t}
                /\ pending' = [pending EXCEPT ![k] = Append(@, t)]
                /\ UNCHANGED done

Serve(k) == /\ pending[k] # <<>>
            /\ done' = [done EXCEPT ![k] = Append(@, Head(pending[k]))]
            /\ pending' = [pending EXCEPT ![k] = Tail(@)]
            /\ UNCHANGED fresh

Next == \E k \in Kind : Serve(k) \/ \E t \in Task : Submit(k, t)

Spec == Init /\ [][Next]_vars
===============================================================================
