----------------------------- MODULE MCRlServer -----------------------------
(***************************************************************************)
(* Instances of RlServer for TLC.                                          *)
(***************************************************************************)
EXTENDS RlServerProperties, TLC

CONSTANTS c1, c2, w1

\* c1 is a server, c2 a service that calls its method.
GroupOf == [c \in Conns |-> IF c = c1 THEN GroupClientServer ELSE GroupClientService]
ServerAndClient ==
    [c \in Conns |-> IF c = c1 THEN {<<"register", "ok">>}
                     ELSE {<<"call", "ok">>, <<"unknown", "ok">>}]
One == [c \in Conns |-> 1]
=============================================================================
