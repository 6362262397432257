------------------------------- MODULE DagRun -------------------------------
(***************************************************************************)
(* What one run of the executor promises its caller (rtdag, exechandler):  *)
(* every vertex' function runs at most once, after the functions it        *)
(* depends on have returned, and the caller is told once how it went.      *)
(* A failed dependency does not keep its dependents from running: the      *)
(* executor passes every result on and leaves it to main to give up.       *)
(***************************************************************************)
CONSTANTS Vertex, Up

VARIABLES
    status,   \* per vertex: idle, running, ok or failed
    outcome   \* none, success or failure: what ExecPostRunFn was told

runVars == <<status, outcome>>

Ended(v) == status[v] \in {"ok", "failed"}

RunInit ==
    /\ status = [v \in Vertex |-> "idle"]
    /\ outcome = "none"

Start(v) ==
    /\ status[v] = "idle"
    /\ \A d \in Up[v] : Ended(d)
    /\ status' = [status EXCEPT ![v] = "running"]
    /\ UNCHANGED outcome

Return(v, result) ==
    /\ status[v] = "running"
    /\ status' = [status EXCEPT ![v] = result]
    /\ UNCHANGED outcome

\* Success is told when everything went well; failure may be told at any
\* time (a function failed, or the context was cancelled).
Conclude(result) ==
    /\ outcome = "none"
    /\ result = "success" => \A v \in Vertex : status[v] = "ok"
    /\ outcome' = result
    /\ UNCHANGED status

RunNext ==
    \/ \E v \in Vertex : Start(v)
    \/ \E v \in Vertex, result \in {"ok", "failed"} : Return(v, result)
    \/ \E result \in {"success", "failure"} : Conclude(result)

RunSpec == RunInit /\ [][RunNext]_runVars
=============================================================================
