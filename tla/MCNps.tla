------------------------------- MODULE MCNps --------------------------------
(***************************************************************************)
(* TLC: the parts of nps and npc around the sessions, each on a small      *)
(* instance.                                                               *)
(***************************************************************************)
EXTENDS Nps, TLC

CONSTANTS c1, c2, d1

Alike == Permutations({c1, c2})

OneLimit == [o \in Owners |-> 1]
TwoTargets == <<"a", "b">>
TwoStrings == [t |-> <<"a", "b">>, u |-> <<"b">>]
WithinBoth == [o \in Sharers |-> {"a", "b"}]

\* A task before another one, one with two ports, and a host.
TaskScripts ==
    LET Item(kind, pieces) == [kind |-> kind, pieces |-> pieces] IN
    {<<Item("secret", 1), Item("tcp", 1)>>, <<Item("tcp", 2), Item("tcp", 1)>>,
     <<Item("host", 1), Item("tcp", 1)>>}

=============================================================================
