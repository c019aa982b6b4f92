----------------------------- MODULE LeasePool -----------------------------
(***************************************************************************)
(* What a connection pool promises, with no mutex, no counter, no wait and *)
(* no timeout: who owns each connection, and how many there may be.  Every *)
(* connection is idle, leased to one caller, or doomed (given up by a      *)
(* closed pool and not yet closed by the caller that must), and a slot is  *)
(* reserved before a connection is opened in it.                           *)
(***************************************************************************)
EXTENDS Integers, FiniteSets

CONSTANTS Callers, Conns, MaxConns, MinConns

VARIABLES
    idle,     \* connections anyone may take
    leased,   \* leased[t]: the connection t holds, as a set of at most one
    broken,   \* connections that are no longer open, known to the pool or not
    opening,  \* callers that reserved a slot and open a connection for it
    doomed,   \* doomed[t]: connections the pool gave up and t must close
    closed

poolVars == <<idle, leased, broken, opening, doomed, closed>>

InUse == UNION {leased[t] : t \in Callers}
Doomed == UNION {doomed[t] : t \in Callers}

(* The capacity in use, by counting and not by a counter. *)
Used == Cardinality(idle) + Cardinality(InUse) + Cardinality(opening)

Init ==
    /\ idle \in {S \in SUBSET Conns : Cardinality(S) = MinConns}
    /\ leased = [t \in Callers |-> {}]
    /\ broken = {}
    /\ opening = {}
    /\ doomed = [t \in Callers |-> {}]
    /\ closed = FALSE

Idling(t) == leased[t] = {} /\ t \notin opening

Take(t) ==
    /\ Idling(t)
    /\ ~closed
    /\ \E c \in idle :
          /\ idle' = idle \ {c}
          /\ leased' = [leased EXCEPT ![t] = {c}]
    /\ UNCHANGED <<broken, opening, doomed, closed>>

Reserve(t) ==
    /\ Idling(t)
    /\ ~closed
    /\ idle = {}
    /\ Used < MaxConns
    /\ opening' = opening \cup {t}
    /\ UNCHANGED <<idle, leased, broken, doomed, closed>>

Opened(t) ==
    /\ t \in opening
    /\ opening' = opening \ {t}
    /\ \E c \in Conns \ (idle \cup InUse \cup Doomed) :
          leased' = [leased EXCEPT ![t] = {c}]
    /\ UNCHANGED <<idle, broken, doomed, closed>>

OpenFailed(t) ==
    /\ t \in opening
    /\ opening' = opening \ {t}
    /\ UNCHANGED <<idle, leased, broken, doomed, closed>>

Break(t) ==
    /\ \E c \in idle \cup leased[t] : broken' = broken \cup {c}
    /\ UNCHANGED <<idle, leased, opening, doomed, closed>>

(* A healthy connection goes back to an open pool; nothing else does. *)
GiveBack(t) ==
    /\ leased' = [leased EXCEPT ![t] = {}]
    /\ broken' = broken \ leased[t]
    /\ idle' = IF closed THEN idle ELSE idle \cup (leased[t] \ broken)
    /\ doomed' = IF closed THEN [doomed EXCEPT ![t] = @ \cup (leased[t] \ broken)]
                 ELSE doomed
    /\ UNCHANGED <<opening, closed>>

Close(t) ==
    /\ ~closed
    /\ closed' = TRUE
    /\ idle' = {}
    /\ doomed' = [doomed EXCEPT ![t] = @ \cup idle]
    /\ UNCHANGED <<leased, broken, opening>>

Destroy(t) ==
    /\ \E c \in doomed[t] :
          /\ doomed' = [doomed EXCEPT ![t] = @ \ {c}]
          /\ broken' = broken \ {c}
    /\ UNCHANGED <<idle, leased, opening, closed>>

Next == \E t \in Callers :
    \/ Take(t) \/ Reserve(t) \/ Opened(t) \/ OpenFailed(t)
    \/ Break(t) \/ GiveBack(t) \/ Close(t) \/ Destroy(t)

Spec == Init /\ [][Next]_poolVars
=============================================================================
