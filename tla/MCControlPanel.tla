--------------------------- MODULE MCControlPanel ---------------------------
(***************************************************************************)
(* Both of the control plane's ways to run benchmarks under fairness: v1's *)
(* job queue and Harbor v2, which keeps its own table and has its own      *)
(* runner.  They share no state, so a behaviour uses one of them, and the  *)
(* fairness of the other asks nothing of it.                               *)
(***************************************************************************)
EXTENDS RunLifecycle, HarborV2

VARIABLE version

LiveInit == version \in {"v1", "v2"} /\ Init /\ HarborInit

V1Step == version = "v1" /\ Next /\ UNCHANGED <<version, harborvars>>

V2Step == version = "v2" /\ HarborNext /\ UNCHANGED <<version, vars>>

LiveSpec == LiveInit /\ [][V1Step \/ V2Step]_<<version, vars, harborvars>>
            /\ Fairness /\ HarborFairness
=============================================================================
