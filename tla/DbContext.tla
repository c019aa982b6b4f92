----------------------------- MODULE DbContext -----------------------------
(***************************************************************************)
(* One application thread with a DbContext.  from() hands it builders, the *)
(* other members store entities; both go through one connection, one call  *)
(* at a time.  The two halves share no state but the connection, so a      *)
(* behaviour is about one of them.                                         *)
(***************************************************************************)
EXTENDS QueryBuilder, EntityCommands

VARIABLE doing
contextVars == <<doing, vars, callVars>>

ContextInit ==
    /\ Init /\ CallInit
    /\ doing \in {"queries", "entities"}
    /\ doing = "queries" => <<backend, table>> = CHOOSE c \in CallBackends \X Declarations : TRUE
ContextNext ==
    \/ doing = "queries" /\ Next /\ UNCHANGED <<doing, callVars>>
    \/ doing = "entities" /\ CallNext /\ UNCHANGED <<doing, vars>>
ContextSpec == ContextInit /\ [][ContextNext]_contextVars
=============================================================================
