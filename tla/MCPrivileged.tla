--------------------------- MODULE MCPrivileged ----------------------------
(***************************************************************************)
(* Privileged with two callers and two commands.  Callers differ in        *)
(* nothing but their names: of those that could begin the first is taken.  *)
(***************************************************************************)
EXTENDS Privileged

First == CHOOSE c \in Callers : TRUE

FirstCaller ==
    \A c \in Callers \ {First} :
        call[c] = Idle /\ call'[c] # Idle => call[First] # Idle \/ job[First] # NoJob

MCNext == Next /\ FirstCaller
MCSpec == Init /\ [][MCNext]_vars /\ Fairness
=============================================================================
