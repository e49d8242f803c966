----------------------------- MODULE MCPublish -----------------------------
(***************************************************************************)
(* An instance of Publish and, in the same run, one of Server and one of   *)
(* Declared.  The three share nothing: a behaviour of the run is one of    *)
(* Publish or one of Server, or an input of Declared, with the others at   *)
(* their beginning.                                                        *)
(***************************************************************************)
EXTENDS Publish, Server, Declared

CONSTANT Depth    \* bound: the segments of a pattern, the names of a path

(***************************************************************************)
(* The inputs of Declared                                                  *)
(***************************************************************************)

SomePatterns == SeqOf({"a", "b", "*", "**"}, Depth) \ {<<>>}
SomeNames == SeqOf({"a", "b"}, Depth) \ {<<>>}

Paths == {<<"a">>, <<"b", "a">>, <<".git", "a">>, <<"b", ".git">>}
SomeTrees == {{[path |-> p, regular |-> state[p] # "link", ignored |-> state[p] # "tracked"]
                  : p \in {p \in Paths : state[p] # "absent"}}
                 : state \in [Paths -> {"absent", "ignored", "tracked", "link"}]}

SomeHosts == {<<"com">>, <<"a", "com">>}
AnyOfCom == <<"*", "com">>

Secrets(names, hosts) ==
    [name : names, mode : {"placeholder", "plaintext"}, hosts : hosts]
Command(secrets) ==
    [egress : SUBSET (SomeHosts \cup {AnyOfCom}), inputs : {FALSE}, secrets : secrets]
Settings ==
    [egress : {{}, {<<"com">>}}, envVars : {{}, {"s", "v"}},
     secrets : SeqOf(Secrets({"s", "t"}, {{}, {<<"com">>}}), 2),
     commands : [c1 : Command(SeqOf(Secrets({"s", "t", "u"}, {{<<"com">>}, {AnyOfCom}}), 1)),
                 c2 : {[egress |-> {<<"a", "com">>}, inputs |-> i, secrets |-> q] :
                          i \in BOOLEAN,
                          q \in {<<>>, <<[name |-> "u", mode |-> "placeholder", hosts |-> {<<"a", "com">>}]>>}}]]
SomeFiles == [settings : Settings, approved : {{<<"com">>}}, vars : {{"v"}}, secretsApproved : {{"t"}}]

(***************************************************************************)
(* The three                                                               *)
(***************************************************************************)

ServerWaits == at = [p \in Procs |-> "off"] /\ swaps = 0 /\ config = "socket" /\ service = "same"
PublishWaits == ws = "new" /\ ~work.on /\ tip = [p \in Places |-> NoTip]

MCInit ==
    /\ Init /\ ServerInit
    /\ \/ input = NoInput
       \/ ServerWaits /\ PublishWaits /\ input \in Inputs

\* bound: a second fault where no commit and no checkout of a person is there
Untouched == ~work.on /\ \A p \in Places : tip[p].own = 0
PublishStep ==
    /\ input = NoInput /\ ServerWaits
    /\ Next
    /\ faults' = 2 => Untouched'
    /\ UNCHANGED <<serverVars, input>>
ServerStep == input = NoInput /\ PublishWaits /\ ServerNext /\ UNCHANGED <<vars, input>>

MCNext == PublishStep \/ ServerStep

MCSpec == MCInit /\ [][MCNext]_<<vars, serverVars, input>>

Symmetry == Permutations(Procs)
=============================================================================
