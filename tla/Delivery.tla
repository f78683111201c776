------------------------------ MODULE Delivery ------------------------------
(***************************************************************************)
(* What the command pipeline promises to a client: a command it accepted   *)
(* is handled once, and its answer is written once or lost for good.       *)
(* Nothing promises that it is answered, nor in which order.               *)
(***************************************************************************)
EXTENDS Naturals

CONSTANTS
    Conns,   \* connections
    MaxCmds  \* commands sent on each connection

VARIABLE phase  \* where each command is

Commands == UNION {{c} \X (1..MaxCmds[c]) : c \in Conns}

\* "new"      not accepted yet
\* "queued"   accepted, waiting for a worker
\* "working"  taken by a worker
\* "outgoing" the answer waits for, or is with, the writer of its connection
\* "answered" the answer is on the socket of the connection that asked
\* "lost"     the answer will never be written
Phases == {"new", "queued", "working", "outgoing", "answered", "lost"}

Init == phase = [m \in Commands |-> "new"]

\* A worker loses a command by dropping its answer, a writer by failing to write it.
Moves ==
    {<<"new", "queued">>, <<"queued", "working">>, <<"working", "outgoing">>,
     <<"working", "lost">>, <<"outgoing", "answered">>, <<"outgoing", "lost">>}

\* Commands of one connection are accepted in the order the client sent them.
Next == \E m \in Commands :
    /\ <<phase[m], phase'[m]>> \in Moves
    /\ phase[m] = "new" => \A n \in 1..(m[2] - 1) : phase[<<m[1], n>>] # "new"
    /\ phase' = [phase EXCEPT ![m] = phase'[m]]

Spec == Init /\ [][Next]_phase
=============================================================================
