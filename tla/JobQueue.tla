------------------------------ MODULE JobQueue ------------------------------
(***************************************************************************)
(* The table database_jobs and the operations of control_panel/job_queue.py *)
(* on it.  Every operation of that file is one SQL transaction, so each is *)
(* one atomic change of the variable job; the module RunLifecycle puts the *)
(* operations in the order in which jobs/runner.py calls them.             *)
(*                                                                         *)
(* A row is named by its dedupe key "launch:<run>" or "terminate:<run>",   *)
(* here the pair of the kind and the run.  Clocks are reduced to the two   *)
(* comparisons the code makes: expired is lease_expires_at < now, ready is *)
(* available_at <= now.                                                    *)
(***************************************************************************)
EXTENDS Naturals, FiniteSets

CONSTANTS
    Runs,         \* the rows of the table runs
    Runners,      \* job runner processes (lease owners)
    NoRunner,     \* lease_owner = NULL
    MaxAttempts   \* max_attempts of every job (5 in enqueue)

ASSUME QueueAssumption ==
    /\ IsFiniteSet(Runs)
    /\ NoRunner \notin Runners
    /\ MaxAttempts \in Nat \ {0}

VARIABLE job      \* job[j]: the row of j in database_jobs

Kinds == {"launch_run", "terminate_run"}
Jobs == Kinds \X Runs
Launch(r) == <<"launch_run", r>>
Terminate(r) == <<"terminate_run", r>>

JobStates == {"absent", "pending", "leased", "completed", "failed"}
Row == [state    : JobStates,
        attempts : 0 .. MaxAttempts,
        owner    : Runners \cup {NoRunner},
        expired  : BOOLEAN,
        ready    : BOOLEAN,
        created  : Nat]               \* rank of created_at

AbsentRow == [state |-> "absent", attempts |-> 0, owner |-> NoRunner,
              expired |-> FALSE, ready |-> FALSE, created |-> 0]

NewRow(rank) == [state |-> "pending", attempts |-> 0, owner |-> NoRunner,
                 expired |-> FALSE, ready |-> TRUE, created |-> rank]

JobTypeOK == job \in [Jobs -> Row]
JobInit == job = [j \in Jobs |-> AbsentRow]

Present == {j \in Jobs : job[j].state # "absent"}

-----------------------------------------------------------------------------
(* enqueue: a row whose dedupe key exists is left as it is.  Rows inserted *)
(* by one transaction share a rank: the code does not order them.          *)
Enqueue(S) ==
    job' = [j \in Jobs |->
              IF j \in S \ Present
              THEN NewRow(Cardinality(Present) + 1)
              ELSE job[j]]

(* Slips the properties must notice: claim without the bound on attempts,  *)
(* without the lapsed leases, or updates that check the state alone.       *)
ClaimableUnbounded(j) ==
    /\ job[j].ready
    /\ job[j].state = "pending" \/ (job[j].state = "leased" /\ job[j].expired)

ClaimablePendingOnly(j) ==
    job[j].ready /\ job[j].attempts < MaxAttempts /\ job[j].state = "pending"

HoldsAnyLease(w, j) == job[j].state = "leased"

(* The WHERE clause of claim. *)
Claimable(j) ==
    /\ job[j].ready
    /\ job[j].attempts < MaxAttempts
    /\ \/ job[j].state = "pending"
       \/ job[j].state = "leased" /\ job[j].expired

(* claim: ORDER BY created_at LIMIT 1. *)
Claim(w, j) ==
    /\ Claimable(j)
    /\ \A k \in Jobs : Claimable(k) => job[j].created <= job[k].created
    /\ job' = [job EXCEPT ![j] = [job[j] EXCEPT !.state = "leased", !.owner = w,
                                                !.expired = FALSE,
                                                !.attempts = @ + 1]]

(* The WHERE clause of complete, fail and defer. *)
HoldsLease(w, j) == job[j].state = "leased" /\ job[j].owner = w

(* An UPDATE of the row of j by w: no row matches once the lease is lost.  *)
Update(w, j, row) ==
    job' = IF HoldsLease(w, j) THEN [job EXCEPT ![j] = row] ELSE job

Complete(w, j) ==
    Update(w, j, [job[j] EXCEPT !.state = "completed", !.owner = NoRunner,
                                !.expired = FALSE])

(* terminal in fail and process_one: the attempts, whoever leases the row. *)
LastAttempt(j) == job[j].attempts >= MaxAttempts

(* fail, with the terminal of the row that process_one read before it. *)
Fail(w, j, terminal) ==
    Update(w, j, [job[j] EXCEPT !.state = IF terminal THEN "failed" ELSE "pending",
                                !.owner = NoRunner, !.expired = FALSE,
                                !.ready = FALSE])

(* defer: the attempt is given back. *)
Defer(w, j) ==
    Update(w, j, [job[j] EXCEPT !.state = "pending", !.attempts = @ - 1,
                                !.owner = NoRunner, !.expired = FALSE,
                                !.ready = FALSE])

-----------------------------------------------------------------------------
(* Time: job_lease_seconds pass without completion; a back-off ends. *)
LeaseExpires(j) ==
    /\ job[j].state = "leased" /\ ~job[j].expired
    /\ job' = [job EXCEPT ![j].expired = TRUE]

BackoffEnds(j) ==
    /\ job[j].state = "pending" /\ ~job[j].ready
    /\ job' = [job EXCEPT ![j].ready = TRUE]
=============================================================================
