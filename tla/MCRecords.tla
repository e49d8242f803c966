----------------------------- MODULE MCRecords -----------------------------
(***************************************************************************)
(* Records of one gate and two question nodes, with two clients and two    *)
(* calls of ask_human.  Clients, calls and contents differ in nothing but  *)
(* their names: of those that could be next the first is taken.            *)
(***************************************************************************)
EXTENDS Records

First(S) == CHOOSE x \in S : TRUE

FirstCalls ==
    /\ \A c \in Clients \ {First(Clients)} :
         client[c] = Free /\ client'[c] # Free => client[First(Clients)] # Free
    /\ \A a \in Askers \ {First(Askers)} :
         asker[a].at = "idle" /\ asker'[a].at = "add" => asker[First(Askers)] # NotAsking
    /\ \A o \in GateOccs :
         gates[o] = <<>> /\ gates'[o] # <<>> => gates'[o][1].hash = First(Hashes)

MCNext == Next /\ FirstCalls
MCSpec == Init /\ [][MCNext]_vars /\ Fairness
=============================================================================
