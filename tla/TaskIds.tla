------------------------------- MODULE TaskIds -------------------------------
(***************************************************************************)
(* helpers.TaskIdGenerator, shared by the workers.  An id is its number:   *)
(* the random part before it may be the same for any two ids.              *)
(***************************************************************************)
EXTENDS Integers, Sequences

CONSTANT Callers \* goroutines that call CreateTaskId

VARIABLES
    counter, \* TaskIdGenerator.index
    call,    \* the call of each caller: open, and how many had returned when it began
    issued   \* history: [number, since] of the calls that returned, in that order

taskVars == <<counter, call, issued>>

NoCall == [open |-> FALSE, since |-> 0]

TaskInit ==
    /\ counter = 0 /\ call = [w \in Callers |-> NoCall] /\ issued = <<>>

MutAdded == \* the sum is stored by itself: two adds at once are one
    IF \E w \in Callers : call[w].open THEN counter ELSE counter + 1
Added == counter + 1

\* generator.add()
Add(w) ==
    /\ ~call[w].open
    /\ counter' = Added
    /\ call' = [call EXCEPT ![w] = [open |-> TRUE, since |-> Len(issued)]]
    /\ UNCHANGED issued

\* LoadUint64 after the random part, and the id.
Load(w) ==
    /\ call[w].open
    /\ issued' = Append(issued, [number |-> counter, since |-> call[w].since])
    /\ call' = [call EXCEPT ![w] = NoCall]
    /\ UNCHANGED counter
=============================================================================
