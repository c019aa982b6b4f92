----------------------------- MODULE JobService -----------------------------
(***************************************************************************)
(* What an executor of callbacks promises, with no thread, no lock, no     *)
(* condition variable and no call in progress.  A job that was accepted    *)
(* waits; the jobs that wait are started in the order in which they were   *)
(* accepted, at most Parallel of them at a time; each job gets one answer, *)
(* its own if it was started.  A job that is refused, or that waits when   *)
(* the service closes, is answered with that and never started.            *)
(***************************************************************************)
EXTENDS Integers, Sequences, FiniteSets

CONSTANTS
    Jobs,
    Capacity,    \* how many jobs may wait
    Parallel     \* how many may run at a time

VARIABLES
    waiting,     \* accepted jobs that were not started, the oldest first
    running,     \* started jobs without an answer
    condemned,   \* jobs that waited when the service closed
    outcome,     \* the answer of each job, "none" before
    closed

serviceVars == <<waiting, running, condemned, outcome, closed>>

Known == {waiting[i] : i \in DOMAIN waiting} \cup running \cup condemned
Unknown(j) == outcome[j] = "none" /\ j \notin Known

Init ==
    /\ waiting = << >>
    /\ running = {}
    /\ condemned = {}
    /\ outcome = [j \in Jobs |-> "none"]
    /\ closed = FALSE

Accept(j) ==
    /\ ~closed
    /\ Unknown(j)
    /\ Len(waiting) < Capacity
    /\ waiting' = Append(waiting, j)
    /\ UNCHANGED <<running, condemned, outcome, closed>>

Refuse(j) ==
    /\ Unknown(j)
    /\ outcome' = [outcome EXCEPT ![j] = "rejected"]
    /\ UNCHANGED <<waiting, running, condemned, closed>>

Start ==
    /\ waiting # << >>
    /\ Cardinality(running) < Parallel
    /\ running' = running \cup {Head(waiting)}
    /\ waiting' = Tail(waiting)
    /\ UNCHANGED <<condemned, outcome, closed>>

Answer(j, r) ==
    /\ j \in running
    /\ running' = running \ {j}
    /\ outcome' = [outcome EXCEPT ![j] = r]
    /\ UNCHANGED <<waiting, condemned, closed>>

Close ==
    /\ ~closed
    /\ closed' = TRUE
    /\ condemned' = {waiting[i] : i \in DOMAIN waiting}
    /\ waiting' = << >>
    /\ UNCHANGED <<running, outcome>>

Cancel(j) ==
    /\ j \in condemned
    /\ condemned' = condemned \ {j}
    /\ outcome' = [outcome EXCEPT ![j] = "cancelled"]
    /\ UNCHANGED <<waiting, running, closed>>

Next ==
    \/ Start \/ Close
    \/ \E j \in Jobs : \/ Accept(j) \/ Refuse(j) \/ Cancel(j)
                       \/ \E r \in {"value", "error"} : Answer(j, r)

Spec == Init /\ [][Next]_serviceVars
=============================================================================
