----------------------------- MODULE MCPipeline -----------------------------
(***************************************************************************)
(* Instances of Pipeline for TLC.                                          *)
(***************************************************************************)
EXTENDS PipelineProperties, TLC

CONSTANTS c1, c2, w1, w2, g1

\* All connections in one group, as the first 100 of the server are.
OneGroup == [c \in Conns |-> g1]

\* Commands per connection.
OneEach == [c \in Conns |-> 1]
ThreeAndOne == [c \in Conns |-> IF c = c1 THEN 3 ELSE 1]
TwoAndOne == [c \in Conns |-> IF c = c1 THEN 2 ELSE 1]

\* Kinds of them.
ThenPlain == [c \in Conns |-> IF c = c1 THEN {"state"} ELSE {"plain"}]
ThenExit == [c \in Conns |-> IF c = c1 THEN {"plain"} ELSE {"exit"}]

WorkerSymmetry == Permutations(Workers)
=============================================================================
