----------------------------- MODULE CallSupport -----------------------------
(***************************************************************************)
(* ConnectionSupport and TaskIds together: a worker that found a server    *)
(* not busy makes a task id for the call.                                  *)
(***************************************************************************)
EXTENDS ConnectionSupport, TaskIds

CONSTANT MaxTasks \* bound: calls that look for a server

ASSUME CallAssumption == Callers = Workers /\ IsFiniteSet(Workers) /\ MaxTasks \in Nat

VARIABLE asked \* looks for a server so far

vars == <<supportVars, taskVars, asked>>

Init == SupportInit /\ TaskInit /\ asked = 0

\* The candidates of ProcRouteRpc, one at a time.
AskBusy(w, c) ==
    /\ asked < MaxTasks
    /\ ClientBusy(w, c) /\ CheckFrame
    /\ asked' = asked + 1
    /\ UNCHANGED taskVars

CreateTaskId(w) ==
    /\ worker[w] = "call"
    /\ \/ Add(w) /\ UNCHANGED worker
       \/ Load(w) /\ worker' = [worker EXCEPT ![w] = "idle"]
    /\ UNCHANGED <<storage, target, halt, asked>> /\ CheckFrame

Next ==
    /\ halt = "no"
    /\ \/ (\E c \in Conns : ConnStep(c)) /\ UNCHANGED <<taskVars, asked>>
       \/ \E w \in Workers :
             \/ CheckStep(w) /\ UNCHANGED <<taskVars, asked>>
             \/ \E c \in Conns : AskBusy(w, c)
             \/ CreateTaskId(w)

Spec == Init /\ [][Next]_vars
=============================================================================
