-------------------------------- MODULE MCRpc --------------------------------
(***************************************************************************)
(* Instances of Rpc for TLC: clients and servers with what they send.      *)
(***************************************************************************)
EXTENDS RpcProperties, TLC

CONSTANTS c1, c2, s1, s2, w1, w2, m1, m2, g1

OneGroup == [c \in Conns |-> g1]

Servers == Conns \cap {s1, s2}
Auth == {<<"auth", Nobody>>}
RegisterServer == {<<"reg", GroupConnectionServer>>}
Results == {"result"} \X Tasks

\* Clients call, servers register and return results.
Routing ==
    [c \in Conns |-> IF c \in Servers THEN Auth \cup RegisterServer \cup Results
                     ELSE {"call"} \X Methods]
\* Servers are busy, or clients, too; clients have forgotten the task of a result.
Mixed ==
    [c \in Conns |->
        IF c \in Servers
        THEN Routing[c] \cup {<<"status", ClientStatusBusy>>, <<"reg", GroupConnectionClient>>}
        ELSE Routing[c] \cup {<<"result", Nobody>>}]
\* Servers call too, fail in their auth, ask for a status that is none, and exit.
Exiting ==
    [c \in Conns |->
        ({"call"} \X Methods) \cup
        IF c \in Servers THEN Auth \cup RegisterServer \cup ({"badauth", "status", "exit"} \X {Nobody})
        ELSE {}]
\* A connection sends anything that changes its own state, or leaves.
Anything ==
    [c \in Conns |-> ({"auth", "badauth", "exit"} \X {Nobody}) \cup ({"reg"} \X (1..4))]

ServersThree == [c \in Conns |-> IF c \in Servers THEN 3 ELSE 1]
Three == [c \in Conns |-> 3]
Two == [c \in Conns |-> 2]

WorkerSymmetry == Permutations(Workers)
=============================================================================
