--------------------------- MODULE MCRunLifecycle ---------------------------
(* The instance of RunLifecycle that TLC checks. *)
EXTENDS RunLifecycle, TLC

(* Runs are created by rank, so permuting them permutes behaviours; the    *)
(* runners are interchangeable too.                                        *)
Symmetry == Permutations(Runs) \cup Permutations(Runners)

(* Bound: one run is explored with crashes and every attempt; two runs,    *)
(* where they compete for the capacity, with two runners in the first      *)
(* attempts of their launch jobs (a termination changes no run's state).   *)
Launching ==
    /\ crashes = 0
    /\ \A r \in Runs : job[Launch(r)].attempts <= 1 /\ job[Terminate(r)].attempts = 0

Within == Cardinality({r \in Runs : run[r] # "absent"}) <= 1 \/ Launching
=============================================================================
