---------------------------- MODULE RunLifecycle ----------------------------
(***************************************************************************)
(* The life of a v1 run: the API handlers and worker callbacks of          *)
(* control_panel/services.py, the job runner processes of jobs/runner.py,  *)
(* the EC2 provider they call and the crashes and clocks between them.     *)
(*                                                                         *)
(* A database transaction that starts with BEGIN IMMEDIATE is one action.  *)
(* What runs outside a transaction (the calls to EC2, the two statements   *)
(* of mark_job_exhausted) is an action of its own, so everything another   *)
(* process can do in between is explored.                                  *)
(***************************************************************************)
EXTENDS JobQueue

CONSTANTS
    MaxActiveRuns,   \* Settings.max_active_runs
    NoJob,           \* a runner between two jobs
    MaxCrashes       \* bound on runner crashes explored

ASSUME RunAssumption ==
    /\ MaxActiveRuns \in Nat \ {0}
    /\ MaxCrashes \in Nat
    /\ NoJob \notin Jobs

VARIABLES
    run,         \* run[r]: runs.state ("absent" before create_run)
    inst,        \* inst[r]: runs.instance_state
    recorded,    \* recorded[r]: runs.instance_id IS NOT NULL
    credential,  \* credential[r]: the worker_credentials row
    overdue,     \* overdue[r]: deadline_at <= now
    ec2,         \* ec2[r]: the instance whose ClientToken is r
    pc,          \* pc[w]: where runner w is in process_one
    work,        \* work[w]: the job of the current process_one
    loaded,      \* loaded[w]: instance_state in the runner's ORM session
    crashes      \* runner crashes so far

runVars == <<run, inst, recorded, credential, overdue>>
runnerVars == <<pc, work, loaded>>
vars == <<job, runVars, ec2, runnerVars, crashes>>

-----------------------------------------------------------------------------
ActiveStates == {"provisioning", "running", "terminating"}  \* no run is ever terminating
TerminalStates == {"succeeded", "failed", "timed_out", "cancelled"}
OpenStates == {"queued", "provisioning", "running"}
RunStates == {"absent"} \cup OpenStates \cup TerminalStates

InstanceStates == {"none", "pending", "running", "terminating", "terminated",
                   "launch_failed", "termination_failed"}

(* Where process_one can be.  The positions up to "completing" are inside  *)
(* its try block; "failing" and later are its except blocks.               *)
HandlerSteps == {"claimed", "launching", "recording", "terminating",
                 "confirming", "completing"}
Steps == {"down", "idle", "deferring", "failing", "retrying", "giving_up",
          "exhausting", "marking"} \cup HandlerSteps

TypeOK ==
    /\ JobTypeOK
    /\ run \in [Runs -> RunStates]
    /\ inst \in [Runs -> InstanceStates]
    /\ recorded \in [Runs -> BOOLEAN]
    /\ credential \in [Runs -> {"none", "issued", "claimed"}]
    /\ overdue \in [Runs -> BOOLEAN]
    /\ ec2 \in [Runs -> {"none", "alive", "gone"}]
    /\ pc \in [Runners -> Steps]
    /\ work \in [Runners -> Jobs \cup {NoJob}]
    /\ loaded \in [Runners -> InstanceStates]
    /\ crashes \in 0 .. MaxCrashes

Init ==
    /\ JobInit
    /\ run = [r \in Runs |-> "absent"]
    /\ inst = [r \in Runs |-> "none"]
    /\ recorded = [r \in Runs |-> FALSE]
    /\ credential = [r \in Runs |-> "none"]
    /\ overdue = [r \in Runs |-> FALSE]
    /\ ec2 = [r \in Runs |-> "none"]
    /\ pc = [w \in Runners |-> "idle"]
    /\ work = [w \in Runners |-> NoJob]
    /\ loaded = [w \in Runners |-> "none"]
    /\ crashes = 0

-----------------------------------------------------------------------------
(* The API process: administrators and workers.                            *)

(* create_run, create_manual_run and each run of create_manual_batch.      *)
CreateRun(r) ==
    /\ run[r] = "absent"
    /\ run' = [run EXCEPT ![r] = "queued"]
    /\ Enqueue({Launch(r)})
    /\ UNCHANGED <<inst, recorded, credential, overdue, ec2, runnerVars, crashes>>

(* Slip: the run ends, its termination is not queued. *)
EndWithoutJob(S, outcome) ==
    /\ run' = [r \in Runs |-> IF r \in S THEN outcome ELSE run[r]]
    /\ inst' = [r \in Runs |-> IF r \notin S THEN inst[r]
                               ELSE IF recorded[r] THEN "terminating"
                               ELSE "terminated"]
    /\ UNCHANGED <<job, recorded, credential, overdue, ec2, crashes>>

(* The end that complete_worker, cancel_run and reconcile give to runs: an *)
(* instance that was recorded is queued for termination, an unrecorded one *)
(* is taken not to exist.                                                  *)
End(S, outcome) ==
    /\ run' = [r \in Runs |-> IF r \in S THEN outcome ELSE run[r]]
    /\ inst' = [r \in Runs |-> IF r \notin S THEN inst[r]
                               ELSE IF recorded[r] THEN "terminating"
                               ELSE "terminated"]
    /\ Enqueue({Terminate(r) : r \in {s \in S : recorded[s]}})
    /\ UNCHANGED <<recorded, credential, overdue, ec2, crashes>>

CancelRun(r) ==
    /\ run[r] \in OpenStates
    /\ End({r}, "cancelled")
    /\ UNCHANGED runnerVars

(* Slip: the token is checked, the state of the run is not. *)
ClaimWorkerAnyState(r) ==
    /\ ec2[r] = "alive" /\ credential[r] = "issued"
    /\ credential' = [credential EXCEPT ![r] = "claimed"]
    /\ run' = [run EXCEPT ![r] = "running"]
    /\ inst' = [inst EXCEPT ![r] = "running"]
    /\ UNCHANGED <<job, recorded, overdue, ec2, runnerVars, crashes>>

(* The worker on the instance exchanges its bootstrap token, once. *)
ClaimWorker(r) ==
    /\ ec2[r] = "alive"
    /\ credential[r] = "issued"
    /\ run[r] = "provisioning"
    /\ credential' = [credential EXCEPT ![r] = "claimed"]
    /\ run' = [run EXCEPT ![r] = "running"]
    /\ inst' = [inst EXCEPT ![r] = "running"]
    /\ UNCHANGED <<job, recorded, overdue, ec2, runnerVars, crashes>>

CompleteWorker(r) ==
    /\ credential[r] = "claimed"
    /\ run[r] = "running"
    /\ \E outcome \in {"succeeded", "failed"} : End({r}, outcome)
    /\ UNCHANGED runnerVars

-----------------------------------------------------------------------------
(* A runner process.  work[w] = <<kind, run>>. *)
kindOf(w) == work[w][1]
runOf(w) == work[w][2]

Goto(w, step) == pc' = [pc EXCEPT ![w] = step]
Finish(w) == /\ pc' = [pc EXCEPT ![w] = "idle"]
             /\ work' = [work EXCEPT ![w] = NoJob]
             /\ loaded' = [loaded EXCEPT ![w] = "none"]
Load(w, value) == loaded' = [loaded EXCEPT ![w] = value]

(* A flush of the ORM session writes instance_state only when the value    *)
(* assigned differs from the one the session loaded: session.get returns   *)
(* the object of the first transaction (expire_on_commit=False).           *)
Flush(r, value, from) ==
    inst' = IF value = from THEN inst ELSE [inst EXCEPT ![r] = value]

ClaimJob(w, j) ==
    /\ pc[w] = "idle"
    /\ Claim(w, j)
    /\ work' = [work EXCEPT ![w] = j]
    /\ Goto(w, "claimed")
    /\ UNCHANGED <<runVars, ec2, loaded, crashes>>

(* Slips: the state of the run is not read again, one run too many fits. *)
LaunchUnlessRecorded(r) == ~recorded[r]

CapacityOffByOne(r) ==
    Cardinality({s \in Runs \ {r} : run[s] \in ActiveStates}) > MaxActiveRuns

(* handle_launch, first transaction. *)
LaunchWanted(r) == ~recorded[r] /\ run[r] \in {"queued", "provisioning"}

CapacityFull(r) ==
    Cardinality({s \in Runs \ {r} : run[s] \in ActiveStates}) >= MaxActiveRuns

LaunchNotWanted(w) ==
    /\ pc[w] = "claimed" /\ kindOf(w) = "launch_run"
    /\ ~LaunchWanted(runOf(w))
    /\ Goto(w, "completing")
    /\ UNCHANGED <<job, runVars, ec2, work, loaded, crashes>>

LaunchBlocked(w) ==
    /\ pc[w] = "claimed" /\ kindOf(w) = "launch_run"
    /\ LaunchWanted(runOf(w)) /\ CapacityFull(runOf(w))
    /\ Goto(w, "deferring")
    /\ UNCHANGED <<job, runVars, ec2, work, loaded, crashes>>

LaunchStart(w) ==
    LET r == runOf(w) IN
    /\ pc[w] = "claimed" /\ kindOf(w) = "launch_run"
    /\ LaunchWanted(r) /\ ~CapacityFull(r)
    /\ credential' = [credential EXCEPT ![r] = IF @ = "none" THEN "issued" ELSE @]
    /\ run' = [run EXCEPT ![r] = "provisioning"]
    /\ inst' = [inst EXCEPT ![r] = "pending"]
    /\ Load(w, "pending")
    /\ Goto(w, "launching")
    /\ UNCHANGED <<job, recorded, overdue, ec2, work, crashes>>

(* provider.launch: the ClientToken makes a second call return the first   *)
(* instance.  A call that fails before or after its effect is HandlerFails *)
(* before or after this step.                                              *)
LaunchCall(w) ==
    /\ pc[w] = "launching"
    /\ ec2' = [ec2 EXCEPT ![runOf(w)] = IF @ = "none" THEN "alive" ELSE @]
    /\ Goto(w, "recording")
    /\ UNCHANGED <<job, runVars, work, loaded, crashes>>

(* handle_launch, second transaction: no condition on the run's state. *)
LaunchRecord(w) ==
    /\ pc[w] = "recording"
    /\ recorded' = [recorded EXCEPT ![runOf(w)] = TRUE]
    /\ Flush(runOf(w), "pending", loaded[w])
    /\ Goto(w, "completing")
    /\ UNCHANGED <<job, run, credential, overdue, ec2, work, loaded, crashes>>

(* Slip: the instance is reported terminated without calling EC2. *)
TerminateUnasked(w) ==
    /\ pc[w] = "claimed" /\ kindOf(w) = "terminate_run"
    /\ Load(w, inst[runOf(w)])
    /\ Goto(w, "confirming")
    /\ UNCHANGED <<job, runVars, ec2, work, crashes>>

(* handle_terminate, first transaction. *)
TerminateStart(w) ==
    /\ pc[w] = "claimed" /\ kindOf(w) = "terminate_run"
    /\ Load(w, inst[runOf(w)])
    /\ Goto(w, IF recorded[runOf(w)] THEN "terminating" ELSE "confirming")
    /\ UNCHANGED <<job, runVars, ec2, work, crashes>>

TerminateCall(w) ==
    /\ pc[w] = "terminating"
    /\ ec2' = [ec2 EXCEPT ![runOf(w)] = IF @ = "none" THEN @ ELSE "gone"]
    /\ Goto(w, "confirming")
    /\ UNCHANGED <<job, runVars, work, loaded, crashes>>

(* handle_terminate, second transaction. *)
TerminateConfirm(w) ==
    /\ pc[w] = "confirming"
    /\ Flush(runOf(w), "terminated", loaded[w])
    /\ Goto(w, "completing")
    /\ UNCHANGED <<job, run, recorded, credential, overdue, ec2, work, loaded, crashes>>

CompleteJob(w) ==
    /\ pc[w] = "completing"
    /\ Complete(w, work[w])
    /\ Finish(w)
    /\ UNCHANGED <<runVars, ec2, crashes>>

DeferJob(w) ==
    /\ pc[w] = "deferring"
    /\ Defer(w, work[w])
    /\ Finish(w)
    /\ UNCHANGED <<runVars, ec2, crashes>>

(* Slip: an exception is logged and the job goes on to be completed. *)
HandlerFailureSwallowed(w) ==
    /\ pc[w] \in HandlerSteps
    /\ Goto(w, "completing")
    /\ UNCHANGED <<job, runVars, ec2, work, loaded, crashes>>

(* Any exception in the try block other than CapacityError: an EC2 error   *)
(* or a database error in one of the handler's transactions.               *)
HandlerFails(w) ==
    /\ pc[w] \in HandlerSteps
    /\ Goto(w, "failing")
    /\ UNCHANGED <<job, runVars, ec2, work, loaded, crashes>>

(* The except block: the row is read outside a write transaction ...       *)
FailRead(w) ==
    /\ pc[w] = "failing"
    /\ Goto(w, IF LastAttempt(work[w]) THEN "giving_up" ELSE "retrying")
    /\ UNCHANGED <<job, runVars, ec2, work, loaded, crashes>>

(* Slip: the last failure is not reported to the run. *)
FailSilently(w) ==
    /\ pc[w] \in {"giving_up", "retrying"}
    /\ Fail(w, work[w], pc[w] = "giving_up")
    /\ Finish(w)
    /\ UNCHANGED <<runVars, ec2, crashes>>

(* ... and then updated, or not if the lease was lost in between.  The     *)
(* event of record_job_attempt_failure is not modelled.                    *)
FailWrite(w) ==
    /\ pc[w] \in {"giving_up", "retrying"}
    /\ Fail(w, work[w], pc[w] = "giving_up")
    /\ IF pc[w] = "giving_up"
       THEN Goto(w, "exhausting") /\ UNCHANGED <<work, loaded>>
       ELSE Finish(w)
    /\ UNCHANGED <<runVars, ec2, crashes>>

(* mark_job_exhausted takes no write lock: it reads the run ...            *)
ExhaustRead(w) ==
    /\ pc[w] = "exhausting"
    /\ IF kindOf(w) = "terminate_run" \/ run[runOf(w)] \in {"queued", "provisioning"}
       THEN /\ Goto(w, "marking")
            /\ Load(w, inst[runOf(w)])
            /\ UNCHANGED work
       ELSE Finish(w)
    /\ UNCHANGED <<job, runVars, ec2, crashes>>

(* ... and writes what it decided from that read.                          *)
ExhaustWrite(w) ==
    LET launch == kindOf(w) = "launch_run" IN
    /\ pc[w] = "marking"
    /\ run' = IF launch THEN [run EXCEPT ![runOf(w)] = "failed"] ELSE run
    /\ Flush(runOf(w), IF launch THEN "launch_failed" ELSE "termination_failed",
             loaded[w])
    /\ Finish(w)
    /\ UNCHANGED <<job, recorded, credential, overdue, ec2, crashes>>

(* Slip: runs that never left provisioning are overlooked. *)
ExpiredButProvisioning == {r \in Runs : run[r] \in {"queued", "running"} /\ overdue[r]}

(* reconcile, called by the runner loop between two jobs.                  *)
Expired == {r \in Runs : run[r] \in OpenStates /\ overdue[r]}

Reconcile(w) ==
    /\ pc[w] = "idle"
    /\ Expired # {}
    /\ End(Expired, "timed_out")
    /\ UNCHANGED runnerVars

-----------------------------------------------------------------------------
(* The environment: clocks, and processes that die and are restarted.      *)
DeadlinePasses(r) ==
    /\ run[r] \in OpenStates /\ ~overdue[r]
    /\ overdue' = [overdue EXCEPT ![r] = TRUE]
    /\ UNCHANGED <<job, run, inst, recorded, credential, ec2, runnerVars, crashes>>

Tick(j) ==
    /\ LeaseExpires(j) \/ BackoffEnds(j)
    /\ UNCHANGED <<runVars, ec2, runnerVars, crashes>>

Crash(w) ==
    /\ pc[w] # "down"
    /\ crashes < MaxCrashes
    /\ crashes' = crashes + 1
    /\ pc' = [pc EXCEPT ![w] = "down"]
    /\ work' = [work EXCEPT ![w] = NoJob]
    /\ loaded' = [loaded EXCEPT ![w] = "none"]
    /\ UNCHANGED <<job, runVars, ec2>>

Restart(w) ==
    /\ pc[w] = "down"
    /\ Goto(w, "idle")
    /\ UNCHANGED <<job, runVars, ec2, work, loaded, crashes>>

-----------------------------------------------------------------------------
Api(r) == CreateRun(r) \/ CancelRun(r) \/ ClaimWorker(r) \/ CompleteWorker(r)

Handle(w) ==
    \/ LaunchNotWanted(w) \/ LaunchBlocked(w) \/ LaunchStart(w)
    \/ LaunchCall(w) \/ LaunchRecord(w)
    \/ TerminateStart(w) \/ TerminateCall(w) \/ TerminateConfirm(w)
    \/ CompleteJob(w) \/ DeferJob(w) \/ HandlerFails(w)
    \/ FailRead(w) \/ FailWrite(w) \/ ExhaustRead(w) \/ ExhaustWrite(w)

Next ==
    \/ \E r \in Runs : Api(r) \/ DeadlinePasses(r)
    \/ \E w \in Runners : Handle(w) \/ Reconcile(w) \/ Crash(w) \/ Restart(w)
    \/ \E w \in Runners, j \in Jobs : ClaimJob(w, j)
    \/ \E j \in Jobs : Tick(j)

Spec == Init /\ [][Next]_vars

(* A runner that is up keeps executing (its loop never returns), a dead    *)
(* one is restarted (Restart=on-failure in the service unit), the loop     *)
(* calls reconcile at least every 15 s and polls the queue, and clocks     *)
(* advance.  Administrators, workers and crashes are under no obligation.  *)
Fairness ==
    /\ \A w \in Runners : /\ WF_vars(Handle(w))
                          /\ WF_vars(Restart(w))
                          /\ WF_vars(\E j \in Jobs : ClaimJob(w, j))
                          /\ SF_vars(Reconcile(w))
    /\ \A r \in Runs : WF_vars(DeadlinePasses(r))
    /\ \A j \in Jobs : WF_vars(Tick(j))

FairSpec == Spec /\ Fairness

-----------------------------------------------------------------------------
(***************************************************************************)
(* Safety.                                                                 *)
(***************************************************************************)

(* At most max_active_runs runs are provisioning or running, whatever the  *)
(* runners do at once: the count and the transition of handle_launch share *)
(* a write lock.                                                           *)
CapacityRespected ==
    Cardinality({r \in Runs : run[r] \in ActiveStates}) <= MaxActiveRuns

(* A launch job is completed only when the run's instance is on record or  *)
(* the run no longer asks for one: no run waits for a machine that nobody  *)
(* is going to launch, even if a runner lost its lease half-way.           *)
LaunchDoneMeansLaunched ==
    \A r \in Runs : job[Launch(r)].state = "completed" => ~LaunchWanted(r)

(* A terminate job is completed only when EC2 has terminated the instance  *)
(* and the run no longer shows it as terminating.                          *)
TerminateDoneMeansGone ==
    \A r \in Runs : job[Terminate(r)].state = "completed" =>
                       ec2[r] = "gone" /\ inst[r] # "terminating"

(* A run shown as terminating has a terminate job that is still to do, or  *)
(* that the queue gave up: the dedupe key never swallows the only request. *)
TerminatingIsOwed ==
    \A r \in Runs : inst[r] = "terminating" =>
                       job[Terminate(r)].state \in {"pending", "leased", "failed"}

(* No machine is terminated under a run that has not ended, also by a      *)
(* runner that acts after losing its lease.                                *)
OpenRunKeepsMachine ==
    \A r \in Runs : ec2[r] = "gone" => run[r] \in TerminalStates

(* No step takes a run that has ended back to life: neither a late launch, *)
(* a late worker claim, nor a stale runner.                                *)
EndedRunsStayEnded ==
    [][\A r \in Runs : run[r] \in TerminalStates => run'[r] \in TerminalStates]_vars

(* The queue keeps the promise of LeasedWork with its real handlers: stale *)
(* runners, capacity deferrals and crashes included.                       *)
itemBar ==
    [j \in Jobs |->
        [status |-> CASE job[j].state = "pending"   -> "open"
                      [] job[j].state = "leased"    -> IF job[j].expired THEN "lapsed" ELSE "held"
                      [] job[j].state = "completed" -> "done"
                      [] job[j].state = "failed"    -> "dead"
                      [] OTHER                      -> "absent",
         tries  |-> job[j].attempts,
         holder |-> job[j].owner]]

LW == INSTANCE LeasedWork WITH Items <- Jobs, Holders <- Runners, Nobody <- NoRunner,
                               Limit <- MaxAttempts, item <- itemBar

QueueKeepsPromise == LW!Spec

(***************************************************************************)
(* Liveness, under FairSpec.                                               *)
(***************************************************************************)

(* Every run ends: reconcile catches what workers and runners abandon.     *)
EveryRunEnds ==
    \A r \in Runs : run[r] = "queued" ~> run[r] \in TerminalStates

(* A lease never outlives its holder for good while attempts remain.       *)
LeasesAreReclaimed ==
    \A j \in Jobs : (job[j].state = "leased" /\ job[j].attempts < MaxAttempts)
                      ~> ~(job[j].state = "leased" /\ job[j].attempts < MaxAttempts)

(* A job whose last attempt died with its runner: nothing claims it again. *)
Abandoned(j) ==
    /\ crashes > 0
    /\ job[j].state \in {"leased", "failed"}
    /\ job[j].attempts = MaxAttempts
    /\ \A w \in Runners : work[w] # j

(* A terminating instance is confirmed terminated, or reported as          *)
(* termination_failed, unless a runner died in the last attempt.           *)
TerminationResolves ==
    \A r \in Runs : inst[r] = "terminating" ~>
                       (inst[r] # "terminating" \/ Abandoned(Terminate(r)))

(***************************************************************************)
(* What the repository says of itself and the code does not ensure.        *)
(***************************************************************************)

(* Once a run is shown as terminated and its jobs are all completed, its   *)
(* instance is terminated (the end-to-end test asserts these together).    *)
TerminatedMeansGone ==
    \A r \in Runs :
        /\ inst[r] = "terminated"
        /\ \A k \in Kinds : job[<<k, r>>].state \in {"absent", "completed"}
        => ec2[r] # "alive"
=============================================================================
