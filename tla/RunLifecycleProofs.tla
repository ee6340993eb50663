------------------------- MODULE RunLifecycleProofs -------------------------
(***************************************************************************)
(* Proofs about RunLifecycle for any number of runs, runners, attempts and *)
(* crashes.  The order: typing of the queue's operations, the inductive    *)
(* invariant IInv with one lemma per action, the safety properties it      *)
(* carries, the capacity bound, that no run comes back to life, and that   *)
(* the queue implements LeasedWork.                                        *)
(***************************************************************************)
EXTENDS RunLifecycle, FiniteSetTheorems, TLAPS

-----------------------------------------------------------------------------
(* The names of jobs.                                                      *)

(* Job names: the two kinds never collide and a name determines its run. *)
LEMMA JobNames ==
    /\ \A r \in Runs : Launch(r) \in Jobs /\ Terminate(r) \in Jobs
    /\ \A r, s : Launch(r) # Terminate(s)
    /\ \A r, s : Launch(r) = Launch(s) => r = s
    /\ \A r, s : Terminate(r) = Terminate(s) => r = s
    /\ \A j \in Jobs : /\ j[2] \in Runs
                       /\ j[1] \in {"launch_run", "terminate_run"}
                       /\ j[1] = "launch_run" => j = Launch(j[2])
                       /\ j[1] = "terminate_run" => j = Terminate(j[2])
    /\ \A r : Launch(r)[1] = "launch_run" /\ Launch(r)[2] = r
    /\ \A r : Terminate(r)[1] = "terminate_run" /\ Terminate(r)[2] = r
BY DEF Jobs, Kinds, Launch, Terminate

(* The table has finitely many possible rows. *)
LEMMA JobsFinite == IsFiniteSet(Jobs)
<1>1. IsFiniteSet({"launch_run"} \cup {"terminate_run"})
  BY FS_Singleton, FS_AddElement
<1>2. Kinds = {"launch_run"} \cup {"terminate_run"}
  BY DEF Kinds
<1>3. IsFiniteSet(Kinds)
  BY <1>1, <1>2
<1>4. IsFiniteSet(Runs)
  BY QueueAssumption
<1>5. QED
  BY <1>3, <1>4, FS_Product DEF Jobs

-----------------------------------------------------------------------------
(* Typing of the queue's operations.                                       *)

(* enqueue inserts well-typed rows. *)
LEMMA EnqueueType ==
    ASSUME JobTypeOK, NEW S, Enqueue(S)
    PROVE  JobTypeOK'
<1>1. Cardinality(Present) \in Nat
  <2>1. Present \in SUBSET Jobs
    BY DEF Present
  <2>2. QED
    BY <2>1, JobsFinite, FS_Subset, FS_CardinalityType
<1>2. PICK n \in Nat : n = Cardinality(Present) + 1
  BY <1>1
<1>3. NewRow(n) \in Row
  BY <1>2, QueueAssumption DEF NewRow, Row, JobStates
<1>4. QED
  BY <1>2, <1>3 DEF JobTypeOK, Enqueue

(* claim never counts past max_attempts. *)
LEMMA ClaimType ==
    ASSUME JobTypeOK, NEW w \in Runners, NEW j \in Jobs, Claim(w, j)
    PROVE  JobTypeOK'
<1>1. job[j] \in Row /\ job[j].attempts + 1 \in 0 .. MaxAttempts
  BY QueueAssumption DEF JobTypeOK, Claim, Claimable, Row
<1>2. [job[j] EXCEPT !.state = "leased", !.owner = w, !.expired = FALSE,
                     !.attempts = @ + 1] \in Row
  BY <1>1 DEF Row, JobStates
<1>3. QED
  BY <1>2 DEF JobTypeOK, Claim

(* Clocks keep rows well-typed. *)
LEMMA TickType ==
    ASSUME JobTypeOK, NEW j \in Jobs, LeaseExpires(j) \/ BackoffEnds(j)
    PROVE  JobTypeOK'
<1>1. /\ [job[j] EXCEPT !.expired = TRUE] \in Row
      /\ [job[j] EXCEPT !.ready = TRUE] \in Row
  BY DEF JobTypeOK, Row
<1>2. QED
  BY <1>1 DEF JobTypeOK, LeaseExpires, BackoffEnds

(* A lease is held only after an attempt was counted. *)
LeasedHasAttempt == \A j \in Jobs : job[j].state = "leased" => job[j].attempts > 0

(* The updates that give a lease up, and all that settle one. *)
Returns(w, j) == Defer(w, j) \/ \E terminal \in BOOLEAN : Fail(w, j, terminal)

Settles(w, j) == Complete(w, j) \/ Returns(w, j)

(* complete, fail and defer keep rows well-typed: defer never goes below *)
(* zero.                                                                 *)
LEMMA SettleType ==
    ASSUME JobTypeOK, LeasedHasAttempt, NEW w \in Runners, NEW j \in Jobs,
           Settles(w, j)
    PROVE  JobTypeOK'
<1>1. job[j] \in Row
  BY DEF JobTypeOK
<1>2. CASE ~HoldsLease(w, j)
  BY <1>2 DEF Settles, Returns, Complete, Fail, Defer, Update, JobTypeOK
<1>3. CASE HoldsLease(w, j) /\ Complete(w, j)
  <2>1. [job[j] EXCEPT !.state = "completed", !.owner = NoRunner,
                       !.expired = FALSE] \in Row
    BY <1>1 DEF Row, JobStates
  <2>2. QED
    BY <1>3, <2>1 DEF Complete, Update, JobTypeOK
<1>4. ASSUME HoldsLease(w, j), NEW terminal \in BOOLEAN, Fail(w, j, terminal)
      PROVE  JobTypeOK'
  <2>1. [job[j] EXCEPT !.state = IF terminal THEN "failed" ELSE "pending",
                       !.owner = NoRunner, !.expired = FALSE, !.ready = FALSE] \in Row
    BY <1>1 DEF Row, JobStates
  <2>2. QED
    BY <1>4, <2>1 DEF Fail, Update, JobTypeOK
<1>5. CASE HoldsLease(w, j) /\ Defer(w, j)
  <2>1. job[j].attempts - 1 \in 0 .. MaxAttempts
    BY <1>1, <1>5, QueueAssumption DEF Row, LeasedHasAttempt, HoldsLease
  <2>2. [job[j] EXCEPT !.state = "pending", !.attempts = @ - 1, !.owner = NoRunner,
                       !.expired = FALSE, !.ready = FALSE] \in Row
    BY <1>1, <2>1 DEF Row, JobStates
  <2>3. QED
    BY <1>5, <2>2 DEF Defer, Update, JobTypeOK
<1>6. QED
  BY <1>2, <1>3, <1>4, <1>5 DEF Settles, Returns

-----------------------------------------------------------------------------
(* The inductive invariant.  The safety properties are not inductive: they *)
(* rest on what a runner may assume at each step of process_one, which is  *)
(* what WorkInv and RunnerInv say.                                         *)

(* Rows: nothing is kept of an absent row, a lease has counted its attempt. *)
RowInv ==
    /\ \A j \in Jobs : job[j].state = "absent" => job[j] = AbsentRow
    /\ LeasedHasAttempt

(* A busy runner has a job that is in the table, of the kind its step is for. *)
WorkInv ==
    \A w \in Runners :
        /\ pc[w] \notin {"idle", "down"} =>
              work[w] \in Jobs /\ job[work[w]].state # "absent"
        /\ pc[w] \in {"launching", "recording", "deferring"} => work[w][1] = "launch_run"
        /\ pc[w] \in {"terminating", "confirming"} => work[w][1] = "terminate_run"

(* A run in the table has been created; a terminate job is enqueued only   *)
(* for a run that has ended with an instance on record.                    *)
RunInv ==
    \A r \in Runs :
        /\ job[Launch(r)].state # "absent" => run[r] # "absent"
        /\ job[Terminate(r)].state # "absent" => run[r] \in TerminalStates /\ recorded[r]
        /\ recorded[r] => ec2[r] # "none"

(* What a runner has achieved when it reaches a step. *)
RunnerInv ==
    \A w \in Runners :
        /\ pc[w] = "recording" => ec2[work[w][2]] # "none"
        /\ pc[w] = "confirming" => ec2[work[w][2]] = "gone"
        /\ pc[w] \in {"terminating", "confirming"} /\ loaded[w] = "terminated"
              => inst[work[w][2]] # "terminating"
        /\ pc[w] = "completing" /\ work[w][1] = "launch_run" => ~LaunchWanted(work[w][2])
        /\ pc[w] = "completing" /\ work[w][1] = "terminate_run"
              => ec2[work[w][2]] = "gone" /\ inst[work[w][2]] # "terminating"

SafetyInv ==
    /\ LaunchDoneMeansLaunched
    /\ TerminateDoneMeansGone
    /\ TerminatingIsOwed
    /\ OpenRunKeepsMachine

IInv == TypeOK /\ RowInv /\ WorkInv /\ RunInv /\ RunnerInv /\ SafetyInv

(* Steps that change neither rows nor runs nor machines. *)
LEMMA Quiet ==
    ASSUME IInv, UNCHANGED <<job, run, inst, recorded, ec2>>
    PROVE  RowInv' /\ RunInv' /\ SafetyInv'
<1>1. RowInv' /\ RunInv'
  BY DEF IInv, RowInv, LeasedHasAttempt, RunInv
<1>2. SafetyInv'
  BY DEF IInv, SafetyInv, LaunchDoneMeansLaunched, TerminateDoneMeansGone,
     TerminatingIsOwed, OpenRunKeepsMachine, LaunchWanted
<1>3. QED
  BY <1>1, <1>2

(* A launch that finds its run launched or ended may be completed. *)
LEMMA LaunchNotWantedInv == ASSUME IInv, NEW w \in Runners, LaunchNotWanted(w) PROVE IInv'
<1>0. pc[w] \in Steps /\ work[w] \in Jobs /\ work[w][2] \in Runs
  BY JobNames DEF IInv, WorkInv, TypeOK, LaunchNotWanted
<1>1. TypeOK'
  BY <1>0 DEF IInv, TypeOK, JobTypeOK, LaunchNotWanted, Goto, runOf, kindOf,
     runVars, Steps, HandlerSteps, RunStates, OpenStates, InstanceStates
<1>2. RowInv' /\ RunInv' /\ SafetyInv'
  BY Quiet DEF LaunchNotWanted, runVars
<1>3. WorkInv'
  BY <1>0 DEF IInv, WorkInv, LaunchNotWanted, Goto, runVars, kindOf, Steps,
     HandlerSteps
<1>4. RunnerInv'
  BY <1>0, JobNames DEF IInv, WorkInv, RunnerInv, SafetyInv, OpenRunKeepsMachine,
     LaunchNotWanted, Goto, runVars, runOf, kindOf, LaunchWanted, TerminalStates,
     OpenStates, RunStates, Steps, HandlerSteps
<1>5. QED
  BY <1>1, <1>2, <1>3, <1>4 DEF IInv

(* A launch over capacity changes nothing. *)
LEMMA LaunchBlockedInv == ASSUME IInv, NEW w \in Runners, LaunchBlocked(w) PROVE IInv'
<1>0. pc[w] \in Steps /\ work[w] \in Jobs /\ work[w][2] \in Runs
  BY JobNames DEF IInv, WorkInv, TypeOK, LaunchBlocked
<1>1. TypeOK'
  BY <1>0 DEF IInv, TypeOK, JobTypeOK, LaunchBlocked, Goto, runOf, kindOf, runVars,
     Steps, HandlerSteps, RunStates, OpenStates, InstanceStates
<1>2. RowInv' /\ RunInv' /\ SafetyInv'
  BY Quiet DEF LaunchBlocked, runVars
<1>3. WorkInv'
  BY <1>0 DEF IInv, WorkInv, LaunchBlocked, Goto, runVars, kindOf, Steps,
     HandlerSteps
<1>4. RunnerInv'
  BY <1>0, JobNames DEF IInv, WorkInv, RunnerInv, SafetyInv, OpenRunKeepsMachine,
     LaunchBlocked, Goto, runVars, runOf, kindOf, LaunchWanted, TerminalStates,
     OpenStates, RunStates, Steps, HandlerSteps
<1>5. QED
  BY <1>1, <1>2, <1>3, <1>4 DEF IInv

(* The first transaction of handle_launch touches only runs without an *)
(* instance.                                                           *)
LEMMA LaunchStartInv == ASSUME IInv, NEW w \in Runners, LaunchStart(w) PROVE IInv'
<1>0. pc[w] \in Steps /\ work[w] \in Jobs /\ work[w][2] \in Runs
  BY JobNames DEF IInv, WorkInv, TypeOK, LaunchStart
<1>1. TypeOK'
  BY <1>0 DEF IInv, TypeOK, JobTypeOK, LaunchStart, Goto, Load, runOf, kindOf,
     Steps, HandlerSteps, RunStates, OpenStates, InstanceStates
<1>2. RowInv'
  BY DEF IInv, RowInv, LeasedHasAttempt, LaunchStart
<1>3. WorkInv'
  BY <1>0 DEF IInv, WorkInv, LaunchStart, Goto, kindOf, Steps, HandlerSteps
<1>4. RunInv'
  BY <1>0, JobNames DEF IInv, RunInv, LaunchStart, runOf, kindOf, LaunchWanted,
     TerminalStates, WorkInv, RunnerInv
<1>5. RunnerInv'
  BY <1>0, JobNames DEF IInv, WorkInv, RunnerInv, SafetyInv, OpenRunKeepsMachine,
     LaunchStart, Goto, Load, runOf, kindOf, LaunchWanted, TerminalStates,
     OpenStates, RunStates, Steps, HandlerSteps
<1>6. SafetyInv'
  BY <1>0, JobNames DEF IInv, WorkInv, RunnerInv, SafetyInv,
     LaunchDoneMeansLaunched, TerminateDoneMeansGone, TerminatingIsOwed,
     OpenRunKeepsMachine, LaunchStart, Goto, Load, runOf, kindOf, LaunchWanted,
     TerminalStates
<1>7. QED
  BY <1>1, <1>2, <1>3, <1>4, <1>5, <1>6 DEF IInv

(* provider.launch makes an instance for an open run's token or finds it. *)
LEMMA LaunchCallInv == ASSUME IInv, NEW w \in Runners, LaunchCall(w) PROVE IInv'
<1>0. pc[w] \in Steps /\ work[w] \in Jobs /\ work[w][2] \in Runs
  BY JobNames DEF IInv, WorkInv, TypeOK, LaunchCall
<1>1. TypeOK'
  BY <1>0 DEF IInv, TypeOK, JobTypeOK, LaunchCall, Goto, runOf, runVars, Steps,
     HandlerSteps, RunStates, OpenStates, InstanceStates
<1>2. RowInv'
  BY DEF IInv, RowInv, LeasedHasAttempt, LaunchCall, runVars
<1>3. WorkInv'
  BY <1>0 DEF IInv, WorkInv, LaunchCall, Goto, runVars, Steps, HandlerSteps
<1>4. RunInv'
  BY <1>0, JobNames DEF IInv, RunInv, LaunchCall, runVars, runOf, LaunchWanted,
     TerminalStates, WorkInv, RunnerInv
<1>5. RunnerInv'
  BY <1>0, JobNames DEF IInv, TypeOK, WorkInv, RunnerInv, SafetyInv,
     OpenRunKeepsMachine, LaunchCall, Goto, runVars, runOf, LaunchWanted,
     TerminalStates, OpenStates, RunStates, Steps, HandlerSteps
<1>6. SafetyInv'
  BY <1>0, JobNames DEF IInv, WorkInv, RunnerInv, SafetyInv,
     LaunchDoneMeansLaunched, TerminateDoneMeansGone, TerminatingIsOwed,
     OpenRunKeepsMachine, LaunchCall, Goto, runVars, runOf, LaunchWanted,
     TerminalStates
<1>7. QED
  BY <1>1, <1>2, <1>3, <1>4, <1>5, <1>6 DEF IInv

(* The second transaction records an instance that EC2 has. *)
LEMMA LaunchRecordInv == ASSUME IInv, NEW w \in Runners, LaunchRecord(w) PROVE IInv'
<1>0. pc[w] \in Steps /\ work[w] \in Jobs /\ work[w][2] \in Runs
  BY JobNames DEF IInv, WorkInv, TypeOK, LaunchRecord
<1>1. TypeOK'
  BY <1>0 DEF IInv, TypeOK, JobTypeOK, LaunchRecord, Goto, Flush, runOf, Steps,
     HandlerSteps, RunStates, OpenStates, InstanceStates
<1>2. RowInv'
  BY DEF IInv, RowInv, LeasedHasAttempt, LaunchRecord
<1>3. WorkInv'
  BY <1>0 DEF IInv, WorkInv, LaunchRecord, Goto, Steps, HandlerSteps
<1>4. RunInv'
  BY <1>0, JobNames DEF IInv, RunInv, LaunchRecord, runOf, LaunchWanted,
     TerminalStates, WorkInv, RunnerInv
<1>5. RunnerInv'
  BY <1>0, JobNames DEF IInv, TypeOK, WorkInv, RunnerInv, SafetyInv,
     OpenRunKeepsMachine, LaunchRecord, Goto, Flush, runOf, LaunchWanted,
     TerminalStates, OpenStates, RunStates, Steps, HandlerSteps
<1>6. SafetyInv'
  BY <1>0, JobNames DEF IInv, WorkInv, RunnerInv, SafetyInv,
     LaunchDoneMeansLaunched, TerminateDoneMeansGone, TerminatingIsOwed,
     OpenRunKeepsMachine, LaunchRecord, Goto, Flush, runOf, LaunchWanted,
     TerminalStates
<1>7. QED
  BY <1>1, <1>2, <1>3, <1>4, <1>5, <1>6 DEF IInv

(* handle_terminate reads a run whose instance is on record. *)
LEMMA TerminateStartInv == ASSUME IInv, NEW w \in Runners, TerminateStart(w) PROVE IInv'
<1>0. pc[w] \in Steps /\ work[w] \in Jobs /\ work[w][2] \in Runs
  BY JobNames DEF IInv, WorkInv, TypeOK, TerminateStart
<1>1. TypeOK'
  BY <1>0 DEF IInv, TypeOK, JobTypeOK, TerminateStart, Goto, Load, runOf, kindOf,
     runVars, Steps, HandlerSteps, RunStates, OpenStates, InstanceStates
<1>2. RowInv' /\ RunInv' /\ SafetyInv'
  BY Quiet DEF TerminateStart, runVars
<1>3. WorkInv'
  BY <1>0 DEF IInv, WorkInv, TerminateStart, Goto, runVars, kindOf, Steps,
     HandlerSteps
<1>4. RunnerInv'
  BY <1>0, JobNames DEF IInv, TypeOK, RunInv, WorkInv, RunnerInv, SafetyInv,
     OpenRunKeepsMachine, TerminateStart, Goto, Load, runVars, runOf, kindOf,
     LaunchWanted, TerminalStates, OpenStates, RunStates, Steps, HandlerSteps
<1>5. QED
  BY <1>1, <1>2, <1>3, <1>4 DEF IInv

(* EC2 terminates only machines of ended runs. *)
LEMMA TerminateCallInv == ASSUME IInv, NEW w \in Runners, TerminateCall(w) PROVE IInv'
<1>0. pc[w] \in Steps /\ work[w] \in Jobs /\ work[w][2] \in Runs
  BY JobNames DEF IInv, WorkInv, TypeOK, TerminateCall
<1>1. TypeOK'
  BY <1>0 DEF IInv, TypeOK, JobTypeOK, TerminateCall, Goto, runOf, runVars, Steps,
     HandlerSteps, RunStates, OpenStates, InstanceStates
<1>2. RowInv'
  BY DEF IInv, RowInv, LeasedHasAttempt, TerminateCall, runVars
<1>3. WorkInv'
  BY <1>0 DEF IInv, WorkInv, TerminateCall, Goto, runVars, Steps, HandlerSteps
<1>4. RunInv'
  BY <1>0, JobNames DEF IInv, RunInv, TerminateCall, runVars, runOf, LaunchWanted,
     TerminalStates, WorkInv, RunnerInv
<1>5. RunnerInv'
  BY <1>0, JobNames DEF IInv, TypeOK, RunInv, WorkInv, RunnerInv, SafetyInv,
     OpenRunKeepsMachine, TerminateCall, Goto, runVars, runOf, LaunchWanted,
     TerminalStates, OpenStates, RunStates, Steps, HandlerSteps
<1>6. SafetyInv'
  BY <1>0, JobNames DEF IInv, RunInv, WorkInv, RunnerInv, SafetyInv,
     LaunchDoneMeansLaunched, TerminateDoneMeansGone, TerminatingIsOwed,
     OpenRunKeepsMachine, TerminateCall, Goto, runVars, runOf, LaunchWanted,
     TerminalStates
<1>7. QED
  BY <1>1, <1>2, <1>3, <1>4, <1>5, <1>6 DEF IInv

(* The instance is reported terminated after EC2 was asked. *)
LEMMA TerminateConfirmInv == ASSUME IInv, NEW w \in Runners, TerminateConfirm(w) PROVE IInv'
<1>0. pc[w] \in Steps /\ work[w] \in Jobs /\ work[w][2] \in Runs
  BY JobNames DEF IInv, WorkInv, TypeOK, TerminateConfirm
<1>1. TypeOK'
  BY <1>0 DEF IInv, TypeOK, JobTypeOK, TerminateConfirm, Goto, Flush, runOf, Steps,
     HandlerSteps, RunStates, OpenStates, InstanceStates
<1>2. RowInv'
  BY DEF IInv, RowInv, LeasedHasAttempt, TerminateConfirm
<1>3. WorkInv'
  BY <1>0 DEF IInv, WorkInv, TerminateConfirm, Goto, Steps, HandlerSteps
<1>4. RunInv'
  BY <1>0, JobNames DEF IInv, RunInv, TerminateConfirm, runOf, LaunchWanted,
     TerminalStates, WorkInv, RunnerInv
<1>5. RunnerInv'
  BY <1>0, JobNames DEF IInv, TypeOK, WorkInv, RunnerInv, SafetyInv,
     OpenRunKeepsMachine, TerminateConfirm, Goto, Flush, runOf, LaunchWanted,
     TerminalStates, OpenStates, RunStates, Steps, HandlerSteps
<1>6. SafetyInv'
  BY <1>0, JobNames DEF IInv, WorkInv, RunnerInv, SafetyInv,
     LaunchDoneMeansLaunched, TerminateDoneMeansGone, TerminatingIsOwed,
     OpenRunKeepsMachine, TerminateConfirm, Goto, Flush, runOf, LaunchWanted,
     TerminalStates
<1>7. QED
  BY <1>1, <1>2, <1>3, <1>4, <1>5, <1>6 DEF IInv

-----------------------------------------------------------------------------
(* What the queue operations do to the rows, for the lemmas that follow.   *)

(* enqueue leaves present rows alone and adds pending ones. *)
LEMMA EnqueueEffect ==
    ASSUME JobTypeOK, NEW S, Enqueue(S)
    PROVE  \A k \in Jobs :
              /\ job[k].state # "absent" => job'[k] = job[k]
              /\ k \in S => job'[k].state # "absent"
              /\ k \notin S => job'[k] = job[k]
              /\ job'[k] = job[k] \/ job'[k].state = "pending"
BY DEF Enqueue, Present, NewRow

(* complete, fail and defer change at most the row named, and only a *)
(* leased one.                                                       *)
LEMMA SettleEffect ==
    ASSUME JobTypeOK, NEW w \in Runners, NEW j \in Jobs, Settles(w, j)
    PROVE  /\ \A k \in Jobs : k # j => job'[k] = job[k]
           /\ \/ job'[j] = job[j]
              \/ /\ job[j].state = "leased"
                 /\ job'[j].state \in {"completed", "failed", "pending"}
           /\ Returns(w, j) =>
                 job'[j] = job[j] \/ job'[j].state \in {"failed", "pending"}
<1>1. job[j] \in Row /\ job \in [Jobs -> Row]
  BY DEF JobTypeOK
<1>2. CASE ~HoldsLease(w, j)
  BY <1>2 DEF Settles, Returns, Complete, Fail, Defer, Update
<1>3. CASE HoldsLease(w, j)
  <2>1. ASSUME Complete(w, j)
        PROVE  /\ \A k \in Jobs : k # j => job'[k] = job[k]
               /\ job'[j].state = "completed"
    BY <1>1, <1>3, <2>1 DEF Complete, Update, Row
  <2>2. ASSUME NEW terminal \in BOOLEAN, Fail(w, j, terminal)
        PROVE  /\ \A k \in Jobs : k # j => job'[k] = job[k]
               /\ job'[j].state \in {"failed", "pending"}
    BY <1>1, <1>3, <2>2 DEF Fail, Update, Row
  <2>3. ASSUME Defer(w, j)
        PROVE  /\ \A k \in Jobs : k # j => job'[k] = job[k]
               /\ job'[j].state = "pending"
    BY <1>1, <1>3, <2>3 DEF Defer, Update, Row
  <2>4. QED
    BY <1>3, <2>1, <2>2, <2>3 DEF HoldsLease, Settles, Returns
<1>4. QED
  BY <1>2, <1>3

(* complete, fail and defer keep RowInv. *)
LEMMA RowInvSettle ==
    ASSUME JobTypeOK, RowInv, NEW w \in Runners, NEW j \in Jobs,
           Settles(w, j)
    PROVE  RowInv'
BY SettleEffect DEF RowInv, LeasedHasAttempt

(* enqueue keeps RowInv. *)
LEMMA RowInvEnqueue ==
    ASSUME JobTypeOK, RowInv, NEW S, Enqueue(S)
    PROVE  RowInv'
BY EnqueueEffect DEF RowInv, LeasedHasAttempt

(* A job is completed by a runner that did what the job asks, stale or *)
(* not.                                                                *)
LEMMA CompleteJobInv == ASSUME IInv, NEW w \in Runners, CompleteJob(w) PROVE IInv'
<1>0. /\ pc[w] \in Steps /\ work[w] \in Jobs /\ work[w][2] \in Runs
      /\ JobTypeOK /\ LeasedHasAttempt /\ Settles(w, work[w])
  BY JobNames DEF IInv, WorkInv, RowInv, TypeOK, CompleteJob, Settles
<1>a. JobTypeOK'
  BY <1>0, SettleType
<1>b. /\ \A k \in Jobs : job'[k].state # "absent" <=> job[k].state # "absent"
      /\ \A k \in Jobs : k # work[w] => job'[k] = job[k]
  BY <1>0, SettleEffect DEF IInv, TypeOK
<1>c. UNCHANGED <<run, inst, recorded, ec2>>
  BY DEF CompleteJob, runVars
<1>1. TypeOK'
  BY <1>0, <1>a, JobNames, SettleEffect DEF IInv, TypeOK, CompleteJob, runVars,
     Steps, HandlerSteps, RunStates, OpenStates, TerminalStates, InstanceStates,
     Finish
<1>2. RowInv'
  BY <1>0, RowInvSettle DEF IInv
<1>3. WorkInv'
  BY <1>0, <1>b DEF IInv, WorkInv, TypeOK, CompleteJob, Finish, Steps, HandlerSteps
<1>4. RunInv'
  BY <1>0, <1>a, JobNames, SettleEffect DEF IInv, RunInv, WorkInv, RunnerInv,
     SafetyInv, LaunchDoneMeansLaunched, TerminateDoneMeansGone, TerminatingIsOwed,
     OpenRunKeepsMachine, CompleteJob, Finish, runVars, LaunchWanted,
     TerminalStates, OpenStates, RunStates, InstanceStates, Steps, HandlerSteps
<1>5. RunnerInv'
  BY <1>0, <1>a, JobNames, SettleEffect DEF IInv, TypeOK, WorkInv, RunnerInv,
     SafetyInv, LaunchDoneMeansLaunched, TerminateDoneMeansGone, TerminatingIsOwed,
     OpenRunKeepsMachine, CompleteJob, Finish, runVars, LaunchWanted,
     TerminalStates, OpenStates, RunStates, InstanceStates, Steps, HandlerSteps
<1>6. SafetyInv'
  <2>1. LaunchDoneMeansLaunched'
    BY <1>0, <1>b, <1>c, JobNames DEF IInv, SafetyInv, LaunchDoneMeansLaunched,
       RunnerInv, LaunchWanted, CompleteJob
  <2>2. TerminateDoneMeansGone'
    BY <1>0, <1>b, <1>c, JobNames DEF IInv, SafetyInv, TerminateDoneMeansGone,
       RunnerInv, CompleteJob
  <2>3. TerminatingIsOwed'
    BY <1>0, <1>b, <1>c, JobNames, SettleEffect DEF IInv, SafetyInv,
       TerminatingIsOwed, RunnerInv, WorkInv, CompleteJob
  <2>4. OpenRunKeepsMachine'
    BY <1>c DEF IInv, SafetyInv, OpenRunKeepsMachine
  <2>5. QED
    BY <2>1, <2>2, <2>3, <2>4 DEF SafetyInv
<1>7. QED
  BY <1>1, <1>2, <1>3, <1>4, <1>5, <1>6 DEF IInv

(* A deferral returns the job to the queue. *)
LEMMA DeferJobInv == ASSUME IInv, NEW w \in Runners, DeferJob(w) PROVE IInv'
<1>0. /\ pc[w] \in Steps /\ work[w] \in Jobs /\ work[w][2] \in Runs
      /\ JobTypeOK /\ LeasedHasAttempt /\ Settles(w, work[w])
      /\ Returns(w, work[w])
  BY JobNames DEF IInv, WorkInv, RowInv, TypeOK, DeferJob, Settles, Returns
<1>a. JobTypeOK'
  BY <1>0, SettleType
<1>b. /\ \A k \in Jobs : job'[k].state # "absent" <=> job[k].state # "absent"
      /\ \A k \in Jobs : k # work[w] => job'[k] = job[k]
      /\ \A k \in Jobs : job'[k] = job[k] \/ job'[k].state \in {"failed", "pending"}
  BY <1>0, SettleEffect DEF IInv, TypeOK
<1>c. UNCHANGED <<run, inst, recorded, ec2>>
  BY DEF DeferJob, runVars
<1>1. TypeOK'
  BY <1>0, <1>a, JobNames, SettleEffect DEF IInv, TypeOK, DeferJob, runVars, Steps,
     HandlerSteps, RunStates, OpenStates, TerminalStates, InstanceStates, Finish
<1>2. RowInv'
  BY <1>0, RowInvSettle DEF IInv
<1>3. WorkInv'
  BY <1>0, <1>b DEF IInv, WorkInv, TypeOK, DeferJob, Finish, Steps, HandlerSteps
<1>4. RunInv'
  BY <1>0, <1>a, JobNames, SettleEffect, SMTT(60) DEF IInv, TypeOK, RunInv, WorkInv,
     RunnerInv, SafetyInv, LaunchDoneMeansLaunched, TerminateDoneMeansGone,
     TerminatingIsOwed, OpenRunKeepsMachine, DeferJob, Finish, runVars,
     LaunchWanted, TerminalStates, OpenStates, RunStates, InstanceStates, Steps,
     HandlerSteps
<1>5. RunnerInv'
  BY <1>0, <1>a, JobNames, SettleEffect DEF IInv, WorkInv, RunnerInv, SafetyInv,
     LaunchDoneMeansLaunched, TerminateDoneMeansGone, TerminatingIsOwed,
     OpenRunKeepsMachine, DeferJob, Finish, runVars, LaunchWanted, TerminalStates,
     OpenStates, RunStates, InstanceStates, Steps, HandlerSteps
<1>6. SafetyInv'
  <2>1. LaunchDoneMeansLaunched'
    BY <1>0, <1>b, <1>c, JobNames DEF IInv, SafetyInv, LaunchDoneMeansLaunched,
       RunnerInv, LaunchWanted, DeferJob
  <2>2. TerminateDoneMeansGone'
    BY <1>0, <1>b, <1>c, JobNames DEF IInv, SafetyInv, TerminateDoneMeansGone,
       RunnerInv, DeferJob
  <2>3. TerminatingIsOwed'
    BY <1>0, <1>b, <1>c, JobNames, SettleEffect DEF IInv, SafetyInv,
       TerminatingIsOwed, RunnerInv, WorkInv, DeferJob
  <2>4. OpenRunKeepsMachine'
    BY <1>c DEF IInv, SafetyInv, OpenRunKeepsMachine
  <2>5. QED
    BY <2>1, <2>2, <2>3, <2>4 DEF SafetyInv
<1>7. QED
  BY <1>1, <1>2, <1>3, <1>4, <1>5, <1>6 DEF IInv

(* A failure returns the job to the queue or buries it. *)
LEMMA FailWriteInv == ASSUME IInv, NEW w \in Runners, FailWrite(w) PROVE IInv'
<1>0. /\ pc[w] \in Steps /\ work[w] \in Jobs /\ work[w][2] \in Runs
      /\ JobTypeOK /\ LeasedHasAttempt /\ Settles(w, work[w])
      /\ Returns(w, work[w])
  BY JobNames DEF IInv, WorkInv, RowInv, TypeOK, FailWrite, Settles, Returns
<1>a. JobTypeOK'
  BY <1>0, SettleType
<1>b. /\ \A k \in Jobs : job'[k].state # "absent" <=> job[k].state # "absent"
      /\ \A k \in Jobs : k # work[w] => job'[k] = job[k]
      /\ \A k \in Jobs : job'[k] = job[k] \/ job'[k].state \in {"failed", "pending"}
  BY <1>0, SettleEffect DEF IInv, TypeOK
<1>c. UNCHANGED <<run, inst, recorded, ec2>>
  BY DEF FailWrite, runVars
<1>1. TypeOK'
  <2>1. pc' \in [Runners -> Steps]
    BY DEF IInv, TypeOK, FailWrite, Goto, Finish, Steps, HandlerSteps
  <2>2. work' \in [Runners -> Jobs \cup {NoJob}] /\ loaded' \in [Runners -> InstanceStates]
    BY <1>0 DEF IInv, TypeOK, FailWrite, Finish, InstanceStates
  <2>3. QED
    BY <1>a, <2>1, <2>2 DEF IInv, TypeOK, FailWrite, runVars
<1>2. RowInv'
  BY <1>0, RowInvSettle DEF IInv
<1>3. WorkInv'
  BY <1>0, <1>b DEF IInv, WorkInv, TypeOK, FailWrite, Goto, Finish, Steps,
     HandlerSteps
<1>4. RunInv'
  BY <1>0, <1>a, JobNames, SettleEffect DEF IInv, RunInv, WorkInv, RunnerInv,
     SafetyInv, LaunchDoneMeansLaunched, TerminateDoneMeansGone, TerminatingIsOwed,
     OpenRunKeepsMachine, FailWrite, Goto, Finish, runVars, LaunchWanted,
     TerminalStates, OpenStates, RunStates, InstanceStates, Steps, HandlerSteps
<1>5. RunnerInv'
  BY <1>0, <1>a, JobNames, SettleEffect DEF IInv, TypeOK, WorkInv, RunnerInv,
     SafetyInv, LaunchDoneMeansLaunched, TerminateDoneMeansGone, TerminatingIsOwed,
     OpenRunKeepsMachine, FailWrite, Goto, Finish, runVars, LaunchWanted,
     TerminalStates, OpenStates, RunStates, InstanceStates, Steps, HandlerSteps
<1>6. SafetyInv'
  <2>1. LaunchDoneMeansLaunched'
    BY <1>0, <1>b, <1>c, JobNames DEF IInv, SafetyInv, LaunchDoneMeansLaunched,
       RunnerInv, LaunchWanted, FailWrite
  <2>2. TerminateDoneMeansGone'
    BY <1>0, <1>b, <1>c, JobNames DEF IInv, SafetyInv, TerminateDoneMeansGone,
       RunnerInv, FailWrite
  <2>3. TerminatingIsOwed'
    BY <1>0, <1>b, <1>c, JobNames, SettleEffect DEF IInv, SafetyInv,
       TerminatingIsOwed, RunnerInv, WorkInv, FailWrite
  <2>4. OpenRunKeepsMachine'
    BY <1>c DEF IInv, SafetyInv, OpenRunKeepsMachine
  <2>5. QED
    BY <2>1, <2>2, <2>3, <2>4 DEF SafetyInv
<1>7. QED
  BY <1>1, <1>2, <1>3, <1>4, <1>5, <1>6 DEF IInv

(* An exception in a handler only moves the runner. *)
LEMMA HandlerFailsInv == ASSUME IInv, NEW w \in Runners, HandlerFails(w) PROVE IInv'
<1>0. pc[w] \in Steps /\ work[w] \in Jobs /\ work[w][2] \in Runs
  BY JobNames DEF IInv, WorkInv, TypeOK, HandlerFails, HandlerSteps
<1>a. JobTypeOK'
  BY DEF IInv, TypeOK, HandlerFails, JobTypeOK, runVars
<1>1. TypeOK'
  BY <1>0, <1>a, JobNames DEF IInv, TypeOK, HandlerFails, Goto, runVars, Steps,
     HandlerSteps, RunStates, OpenStates, TerminalStates, InstanceStates
<1>2. RowInv' /\ RunInv' /\ SafetyInv'
  BY Quiet DEF HandlerFails, runVars
<1>3. WorkInv'
  BY <1>0, <1>a, JobNames DEF IInv, WorkInv, RunnerInv, SafetyInv,
     LaunchDoneMeansLaunched, TerminateDoneMeansGone, TerminatingIsOwed,
     OpenRunKeepsMachine, HandlerFails, Goto, runVars, LaunchWanted, TerminalStates,
     OpenStates, RunStates, InstanceStates, Steps, HandlerSteps
<1>4. RunnerInv'
  BY <1>0, <1>a, JobNames DEF IInv, WorkInv, RunnerInv, SafetyInv,
     LaunchDoneMeansLaunched, TerminateDoneMeansGone, TerminatingIsOwed,
     OpenRunKeepsMachine, HandlerFails, Goto, runVars, LaunchWanted, TerminalStates,
     OpenStates, RunStates, InstanceStates, Steps, HandlerSteps
<1>5. QED
  BY <1>1, <1>2, <1>3, <1>4 DEF IInv

(* Reading the row in the except block only moves the runner. *)
LEMMA FailReadInv == ASSUME IInv, NEW w \in Runners, FailRead(w) PROVE IInv'
<1>0. pc[w] \in Steps /\ work[w] \in Jobs /\ work[w][2] \in Runs
  BY JobNames DEF IInv, WorkInv, TypeOK, FailRead
<1>a. JobTypeOK'
  BY DEF IInv, TypeOK, FailRead, JobTypeOK, runVars
<1>1. TypeOK'
  BY <1>0, <1>a, JobNames DEF IInv, TypeOK, FailRead, Goto, runVars, Steps,
     HandlerSteps, RunStates, OpenStates, TerminalStates, InstanceStates
<1>2. RowInv' /\ RunInv' /\ SafetyInv'
  BY Quiet DEF FailRead, runVars
<1>3. WorkInv'
  BY <1>0, <1>a, JobNames DEF IInv, WorkInv, RunnerInv, SafetyInv,
     LaunchDoneMeansLaunched, TerminateDoneMeansGone, TerminatingIsOwed,
     OpenRunKeepsMachine, FailRead, Goto, runVars, LaunchWanted, TerminalStates,
     OpenStates, RunStates, InstanceStates, Steps, HandlerSteps
<1>4. RunnerInv'
  BY <1>0, <1>a, JobNames DEF IInv, WorkInv, RunnerInv, SafetyInv,
     LaunchDoneMeansLaunched, TerminateDoneMeansGone, TerminatingIsOwed,
     OpenRunKeepsMachine, FailRead, Goto, runVars, LaunchWanted, TerminalStates,
     OpenStates, RunStates, InstanceStates, Steps, HandlerSteps
<1>5. QED
  BY <1>1, <1>2, <1>3, <1>4 DEF IInv

(* The read of mark_job_exhausted only moves the runner. *)
LEMMA ExhaustReadInv == ASSUME IInv, NEW w \in Runners, ExhaustRead(w) PROVE IInv'
<1>0. pc[w] \in Steps /\ work[w] \in Jobs /\ work[w][2] \in Runs
  BY JobNames DEF IInv, WorkInv, TypeOK, ExhaustRead
<1>a. JobTypeOK'
  BY DEF IInv, TypeOK, ExhaustRead, JobTypeOK, runVars
<1>1. TypeOK'
  <2>1. pc' \in [Runners -> Steps]
    BY DEF IInv, TypeOK, ExhaustRead, Goto, Finish, Steps, HandlerSteps
  <2>2. work' \in [Runners -> Jobs \cup {NoJob}] /\ loaded' \in [Runners -> InstanceStates]
    BY <1>0 DEF IInv, TypeOK, ExhaustRead, Finish, Load, runOf, InstanceStates
  <2>3. QED
    BY <1>a, <2>1, <2>2 DEF IInv, TypeOK, ExhaustRead, runVars
<1>2. RowInv' /\ RunInv' /\ SafetyInv'
  BY Quiet DEF ExhaustRead, runVars
<1>3. WorkInv'
  BY <1>0, <1>a, JobNames DEF IInv, TypeOK, WorkInv, RunnerInv, SafetyInv,
     LaunchDoneMeansLaunched, TerminateDoneMeansGone, TerminatingIsOwed,
     OpenRunKeepsMachine, ExhaustRead, Goto, Load, Finish, runVars, runOf, kindOf,
     LaunchWanted, TerminalStates, OpenStates, RunStates, InstanceStates, Steps,
     HandlerSteps
<1>4. RunnerInv'
  BY <1>0, <1>a, JobNames DEF IInv, TypeOK, WorkInv, RunnerInv, SafetyInv,
     LaunchDoneMeansLaunched, TerminateDoneMeansGone, TerminatingIsOwed,
     OpenRunKeepsMachine, ExhaustRead, Goto, Load, Finish, runVars, runOf, kindOf,
     LaunchWanted, TerminalStates, OpenStates, RunStates, InstanceStates, Steps,
     HandlerSteps
<1>5. QED
  BY <1>1, <1>2, <1>3, <1>4 DEF IInv

(* The write of mark_job_exhausted ends the run or reports its instance. *)
LEMMA ExhaustWriteInv == ASSUME IInv, NEW w \in Runners, ExhaustWrite(w) PROVE IInv'
<1>0. pc[w] \in Steps /\ work[w] \in Jobs /\ work[w][2] \in Runs
  BY JobNames DEF IInv, WorkInv, TypeOK, ExhaustWrite
<1>a. JobTypeOK'
  BY DEF IInv, TypeOK, ExhaustWrite, JobTypeOK
<1>1. TypeOK'
  BY <1>0, <1>a, JobNames DEF IInv, TypeOK, ExhaustWrite, Flush, runOf, kindOf,
     Steps, HandlerSteps, RunStates, OpenStates, TerminalStates, InstanceStates,
     Finish
<1>2. RowInv'
  BY DEF IInv, RowInv, LeasedHasAttempt, ExhaustWrite
<1>3. WorkInv'
  BY <1>0, <1>a, JobNames DEF IInv, TypeOK, WorkInv, RunnerInv, SafetyInv,
     LaunchDoneMeansLaunched, TerminateDoneMeansGone, TerminatingIsOwed,
     OpenRunKeepsMachine, ExhaustWrite, Flush, Finish, runOf, kindOf, LaunchWanted,
     TerminalStates, OpenStates, RunStates, InstanceStates, Steps, HandlerSteps
<1>4. RunInv'
  BY <1>0, <1>a, JobNames DEF IInv, RunInv, WorkInv, RunnerInv, SafetyInv,
     LaunchDoneMeansLaunched, TerminateDoneMeansGone, TerminatingIsOwed,
     OpenRunKeepsMachine, ExhaustWrite, Flush, Finish, runOf, kindOf, LaunchWanted,
     TerminalStates, OpenStates, RunStates, InstanceStates, Steps, HandlerSteps
<1>5. RunnerInv'
  BY <1>0, <1>a, JobNames DEF IInv, WorkInv, RunnerInv, SafetyInv,
     LaunchDoneMeansLaunched, TerminateDoneMeansGone, TerminatingIsOwed,
     OpenRunKeepsMachine, ExhaustWrite, Flush, Finish, runOf, kindOf, LaunchWanted,
     TerminalStates, OpenStates, RunStates, InstanceStates, Steps, HandlerSteps
<1>6. SafetyInv'
  BY <1>0, <1>a, JobNames DEF IInv, WorkInv, RunnerInv, SafetyInv,
     LaunchDoneMeansLaunched, TerminateDoneMeansGone, TerminatingIsOwed,
     OpenRunKeepsMachine, ExhaustWrite, Flush, Finish, runOf, kindOf, LaunchWanted,
     TerminalStates, OpenStates, RunStates, InstanceStates, Steps, HandlerSteps
<1>7. QED
  BY <1>1, <1>2, <1>3, <1>4, <1>5, <1>6 DEF IInv

(* A crash loses what the runner had in memory, nothing else. *)
LEMMA CrashInv == ASSUME IInv, NEW w \in Runners, Crash(w) PROVE IInv'
<1>a. JobTypeOK'
  BY DEF IInv, TypeOK, Crash, JobTypeOK, runVars
<1>1. TypeOK'
  BY <1>a, RunAssumption DEF IInv, TypeOK, Crash, runVars, Steps, HandlerSteps,
     RunStates, OpenStates, TerminalStates, InstanceStates
<1>2. RowInv' /\ RunInv' /\ SafetyInv'
  BY Quiet DEF Crash, runVars
<1>3. WorkInv'
  BY <1>a, RunAssumption DEF IInv, TypeOK, WorkInv, RunnerInv, SafetyInv,
     LaunchDoneMeansLaunched, TerminateDoneMeansGone, TerminatingIsOwed,
     OpenRunKeepsMachine, Crash, runVars, LaunchWanted, TerminalStates, OpenStates,
     RunStates, InstanceStates, Steps, HandlerSteps
<1>4. RunnerInv'
  BY <1>a, RunAssumption DEF IInv, TypeOK, WorkInv, RunnerInv, SafetyInv,
     LaunchDoneMeansLaunched, TerminateDoneMeansGone, TerminatingIsOwed,
     OpenRunKeepsMachine, Crash, runVars, LaunchWanted, TerminalStates, OpenStates,
     RunStates, InstanceStates, Steps, HandlerSteps
<1>5. QED
  BY <1>1, <1>2, <1>3, <1>4 DEF IInv

(* A restarted runner holds no job. *)
LEMMA RestartInv == ASSUME IInv, NEW w \in Runners, Restart(w) PROVE IInv'
<1>a. JobTypeOK'
  BY DEF IInv, TypeOK, Restart, JobTypeOK, runVars
<1>1. TypeOK'
  BY <1>a, RunAssumption DEF IInv, TypeOK, Restart, Goto, runVars, Steps,
     HandlerSteps, RunStates, OpenStates, TerminalStates, InstanceStates
<1>2. RowInv' /\ RunInv' /\ SafetyInv'
  BY Quiet DEF Restart, runVars
<1>3. WorkInv'
  BY <1>a, RunAssumption DEF IInv, WorkInv, RunnerInv, SafetyInv,
     LaunchDoneMeansLaunched, TerminateDoneMeansGone, TerminatingIsOwed,
     OpenRunKeepsMachine, Restart, Goto, runVars, LaunchWanted, TerminalStates,
     OpenStates, RunStates, InstanceStates, Steps, HandlerSteps
<1>4. RunnerInv'
  BY <1>a, RunAssumption DEF IInv, WorkInv, RunnerInv, SafetyInv,
     LaunchDoneMeansLaunched, TerminateDoneMeansGone, TerminatingIsOwed,
     OpenRunKeepsMachine, Restart, Goto, runVars, LaunchWanted, TerminalStates,
     OpenStates, RunStates, InstanceStates, Steps, HandlerSteps
<1>5. QED
  BY <1>1, <1>2, <1>3, <1>4 DEF IInv

(* A worker claim moves a provisioning run to running. *)
LEMMA ClaimWorkerInv == ASSUME IInv, NEW r \in Runs, ClaimWorker(r) PROVE IInv'
<1>a. JobTypeOK'
  BY DEF IInv, TypeOK, ClaimWorker, JobTypeOK
<1>1. TypeOK'
  BY <1>a, JobNames DEF IInv, TypeOK, ClaimWorker, runnerVars, Steps, HandlerSteps,
     RunStates, OpenStates, TerminalStates, InstanceStates
<1>2. RowInv'
  BY DEF IInv, RowInv, LeasedHasAttempt, ClaimWorker
<1>3. WorkInv'
  BY <1>a, JobNames DEF IInv, WorkInv, RunnerInv, SafetyInv,
     LaunchDoneMeansLaunched, TerminateDoneMeansGone, TerminatingIsOwed,
     OpenRunKeepsMachine, ClaimWorker, runnerVars, LaunchWanted, TerminalStates,
     OpenStates, RunStates, InstanceStates, Steps, HandlerSteps
<1>4. RunInv'
  BY <1>a, JobNames DEF IInv, RunInv, WorkInv, RunnerInv, SafetyInv,
     LaunchDoneMeansLaunched, TerminateDoneMeansGone, TerminatingIsOwed,
     OpenRunKeepsMachine, ClaimWorker, runnerVars, LaunchWanted, TerminalStates,
     OpenStates, RunStates, InstanceStates, Steps, HandlerSteps
<1>5. RunnerInv'
  BY <1>a, JobNames DEF IInv, WorkInv, RunnerInv, SafetyInv,
     LaunchDoneMeansLaunched, TerminateDoneMeansGone, TerminatingIsOwed,
     OpenRunKeepsMachine, ClaimWorker, runnerVars, LaunchWanted, TerminalStates,
     OpenStates, RunStates, InstanceStates, Steps, HandlerSteps
<1>6. SafetyInv'
  BY <1>a, JobNames DEF IInv, WorkInv, RunnerInv, SafetyInv,
     LaunchDoneMeansLaunched, TerminateDoneMeansGone, TerminatingIsOwed,
     OpenRunKeepsMachine, ClaimWorker, runnerVars, LaunchWanted, TerminalStates,
     OpenStates, RunStates, InstanceStates, Steps, HandlerSteps
<1>7. QED
  BY <1>1, <1>2, <1>3, <1>4, <1>5, <1>6 DEF IInv

(* A deadline passes. *)
LEMMA DeadlinePassesInv == ASSUME IInv, NEW r \in Runs, DeadlinePasses(r) PROVE IInv'
<1>a. JobTypeOK'
  BY DEF IInv, TypeOK, DeadlinePasses, JobTypeOK
<1>1. TypeOK'
  BY <1>a, JobNames DEF IInv, TypeOK, DeadlinePasses, runnerVars, Steps,
     HandlerSteps, RunStates, OpenStates, TerminalStates, InstanceStates
<1>2. RowInv' /\ RunInv' /\ SafetyInv'
  BY Quiet DEF DeadlinePasses
<1>3. WorkInv'
  BY <1>a, JobNames DEF IInv, WorkInv, RunnerInv, SafetyInv,
     LaunchDoneMeansLaunched, TerminateDoneMeansGone, TerminatingIsOwed,
     OpenRunKeepsMachine, DeadlinePasses, runnerVars, LaunchWanted, TerminalStates,
     OpenStates, RunStates, InstanceStates, Steps, HandlerSteps
<1>4. RunnerInv'
  BY <1>a, JobNames DEF IInv, WorkInv, RunnerInv, SafetyInv,
     LaunchDoneMeansLaunched, TerminateDoneMeansGone, TerminatingIsOwed,
     OpenRunKeepsMachine, DeadlinePasses, runnerVars, LaunchWanted, TerminalStates,
     OpenStates, RunStates, InstanceStates, Steps, HandlerSteps
<1>5. QED
  BY <1>1, <1>2, <1>3, <1>4 DEF IInv

-----------------------------------------------------------------------------
(* Creating and ending runs, claiming jobs, and time.                      *)

(* A new run comes with its launch job. *)
LEMMA CreateRunInv == ASSUME IInv, NEW r \in Runs, CreateRun(r) PROVE IInv'
<1>0. Enqueue({Launch(r)}) /\ JobTypeOK /\ RowInv
  BY DEF CreateRun, IInv, TypeOK
<1>a. JobTypeOK'
  BY <1>0, EnqueueType
<1>b. \A k \in Jobs :
         /\ job[k].state # "absent" => job'[k] = job[k]
         /\ k # Launch(r) => job'[k] = job[k]
         /\ job'[k] = job[k] \/ job'[k].state = "pending"
  BY <1>0, EnqueueEffect
<1>1. TypeOK'
  BY <1>a DEF IInv, TypeOK, CreateRun, RunStates, OpenStates, runnerVars
<1>2. RowInv'
  BY <1>0, RowInvEnqueue
<1>3. WorkInv'
  BY <1>b DEF IInv, WorkInv, CreateRun, runnerVars
<1>4. RunInv'
  BY <1>b, JobNames DEF IInv, TypeOK, RunInv, CreateRun, TerminalStates
<1>5. RunnerInv'
  BY JobNames DEF IInv, RunnerInv, WorkInv, RunInv, CreateRun, runnerVars,
     LaunchWanted, Steps, HandlerSteps
<1>6. SafetyInv'
  <2>0. run[r] = "absent" /\ run' = [run EXCEPT ![r] = "queued"]
        /\ UNCHANGED <<inst, recorded, ec2>>
    BY DEF CreateRun
  <2>1. LaunchDoneMeansLaunched'
    <3> SUFFICES ASSUME NEW s \in Runs, job'[Launch(s)].state = "completed"
                 PROVE  ~LaunchWanted(s)'
      BY DEF LaunchDoneMeansLaunched
    <3>1. job[Launch(s)].state = "completed" /\ job[Launch(s)].state # "absent"
      BY <1>b, JobNames
    <3>2. ~LaunchWanted(s) /\ run[s] # "absent"
      BY <3>1 DEF IInv, SafetyInv, LaunchDoneMeansLaunched, RunInv
    <3>3. QED
      BY <2>0, <3>2 DEF LaunchWanted, IInv, TypeOK
  <2>2. TerminateDoneMeansGone'
    BY <2>0, <1>b, JobNames DEF IInv, SafetyInv, TerminateDoneMeansGone
  <2>3. TerminatingIsOwed'
    BY <2>0, <1>b, JobNames DEF IInv, SafetyInv, TerminatingIsOwed
  <2>4. OpenRunKeepsMachine'
    BY <2>0 DEF IInv, TypeOK, SafetyInv, OpenRunKeepsMachine, TerminalStates
  <2>5. QED
    BY <2>1, <2>2, <2>3, <2>4 DEF SafetyInv
<1>7. QED
  BY <1>1, <1>2, <1>3, <1>4, <1>5, <1>6 DEF IInv

(* Ending runs queues the termination of the instances on record, at most *)
(* once per run.                                                          *)
LEMMA EndInv ==
    ASSUME IInv, NEW S \in SUBSET {r \in Runs : run[r] \in OpenStates},
           NEW outcome \in TerminalStates, End(S, outcome), UNCHANGED runnerVars
    PROVE  IInv'
<1> DEFINE T == {Terminate(r) : r \in {s \in S : recorded[s]}}
<1>0. Enqueue(T) /\ JobTypeOK /\ RowInv
  BY DEF End, IInv, TypeOK
<1>a. JobTypeOK'
  BY <1>0, EnqueueType
<1>b. /\ \A k \in Jobs : /\ job[k].state # "absent" => job'[k] = job[k]
                         /\ job'[k] = job[k] \/ job'[k].state = "pending"
      /\ \A r \in Runs : job'[Launch(r)] = job[Launch(r)]
      /\ \A r \in Runs : r \notin S \/ ~recorded[r] => job'[Terminate(r)] = job[Terminate(r)]
      /\ \A r \in S : recorded[r] => job'[Terminate(r)].state # "absent"
  <2>1. \A r \in Runs : Launch(r) \notin T
    BY JobNames
  <2>2. \A r \in Runs : r \notin S \/ ~recorded[r] => Terminate(r) \notin T
    BY JobNames
  <2>3. \A r \in S : recorded[r] => Terminate(r) \in T
    OBVIOUS
  <2>4. S \subseteq Runs
    OBVIOUS
  <2> HIDE DEF T
  <2>5. QED
    BY <1>0, <2>1, <2>2, <2>3, <2>4, EnqueueEffect, JobNames
<1>c. /\ run' = [r \in Runs |-> IF r \in S THEN outcome ELSE run[r]]
      /\ inst' = [r \in Runs |-> IF r \notin S THEN inst[r]
                                 ELSE IF recorded[r] THEN "terminating" ELSE "terminated"]
      /\ UNCHANGED <<recorded, credential, overdue, ec2, crashes, pc, work, loaded>>
      /\ \A r \in S : r \in Runs /\ run[r] \in OpenStates
  BY DEF End, runnerVars
<1>1. TypeOK'
  BY <1>a, <1>c DEF IInv, TypeOK, RunStates, InstanceStates
<1>2. RowInv'
  BY <1>0, RowInvEnqueue
<1>3. WorkInv'
  BY <1>b, <1>c DEF IInv, WorkInv
<1>4. RunInv'
  BY <1>b, <1>c, JobNames DEF IInv, RunInv, TerminalStates, OpenStates
<1>d. \A r \in Runs : /\ ~LaunchWanted(r) => ~LaunchWanted(r)'
                      /\ run[r] \in TerminalStates => inst'[r] = inst[r]
                      /\ run[r] \in TerminalStates => run'[r] \in TerminalStates
  BY <1>c DEF IInv, TypeOK, LaunchWanted, OpenStates, TerminalStates
<1>5. RunnerInv'
  <2> SUFFICES ASSUME NEW w \in Runners, pc[w] \notin {"idle", "down"}
               PROVE  /\ pc[w] = "recording" => ec2[work[w][2]] # "none"
                      /\ pc[w] = "confirming" => ec2[work[w][2]] = "gone"
                      /\ pc[w] \in {"terminating", "confirming"} /\ loaded[w] = "terminated"
                            => inst'[work[w][2]] # "terminating"
                      /\ pc[w] = "completing" /\ work[w][1] = "launch_run"
                            => ~LaunchWanted(work[w][2])'
                      /\ pc[w] = "completing" /\ work[w][1] = "terminate_run"
                            => ec2[work[w][2]] = "gone" /\ inst'[work[w][2]] # "terminating"
    BY <1>c DEF RunnerInv
  <2>1. work[w] \in Jobs /\ job[work[w]].state # "absent" /\ work[w][2] \in Runs
    BY JobNames DEF IInv, WorkInv
  <2>2. work[w][1] = "terminate_run" => run[work[w][2]] \in TerminalStates
    BY <2>1, JobNames DEF IInv, RunInv
  <2>3. pc[w] \in {"terminating", "confirming"} => work[w][1] = "terminate_run"
    BY DEF IInv, WorkInv
  <2>4. QED
    BY <1>c, <1>d, <2>1, <2>2, <2>3 DEF IInv, RunnerInv
<1>6. SafetyInv'
  <2>1. LaunchDoneMeansLaunched'
    BY <1>b, <1>d DEF IInv, SafetyInv, LaunchDoneMeansLaunched
  <2>2. TerminateDoneMeansGone'
    <3> SUFFICES ASSUME NEW r \in Runs, job'[Terminate(r)].state = "completed"
                 PROVE  ec2[r] = "gone" /\ inst'[r] # "terminating"
      BY <1>c DEF TerminateDoneMeansGone
    <3>1. job[Terminate(r)].state = "completed" /\ job[Terminate(r)].state # "absent"
      BY <1>b, JobNames
    <3>2. run[r] \in TerminalStates
      BY <3>1 DEF IInv, RunInv
    <3>3. QED
      BY <1>d, <3>1, <3>2 DEF IInv, SafetyInv, TerminateDoneMeansGone
  <2>3. TerminatingIsOwed'
    <3> SUFFICES ASSUME NEW r \in Runs, inst'[r] = "terminating"
                 PROVE  job'[Terminate(r)].state \in {"pending", "leased", "failed"}
      BY DEF TerminatingIsOwed
    <3>1. CASE r \in S
      <4>1. recorded[r] /\ run[r] \notin TerminalStates
        BY <1>c, <3>1 DEF OpenStates, TerminalStates
      <4>2. job[Terminate(r)].state = "absent" /\ job'[Terminate(r)].state # "absent"
        BY <1>b, <3>1, <4>1 DEF IInv, RunInv
      <4>3. QED
        BY <1>b, <4>2, JobNames
    <3>2. CASE r \notin S
      <4>1. inst[r] = "terminating"
        BY <1>c, <3>2
      <4>2. job'[Terminate(r)] = job[Terminate(r)]
        BY <1>b, <3>2
      <4>3. QED
        BY <4>1, <4>2 DEF IInv, SafetyInv, TerminatingIsOwed
    <3>3. QED
      BY <3>1, <3>2
  <2>4. OpenRunKeepsMachine'
    BY <1>c, <1>d DEF IInv, SafetyInv, OpenRunKeepsMachine
  <2>5. QED
    BY <2>1, <2>2, <2>3, <2>4 DEF SafetyInv
<1>7. QED
  BY <1>1, <1>2, <1>3, <1>4, <1>5, <1>6 DEF IInv

(* cancel_run is an end of one run. *)
LEMMA CancelRunInv == ASSUME IInv, NEW r \in Runs, CancelRun(r) PROVE IInv'
BY EndInv DEF CancelRun, TerminalStates

(* complete_worker is an end of one run. *)
LEMMA CompleteWorkerInv == ASSUME IInv, NEW r \in Runs, CompleteWorker(r) PROVE IInv'
BY EndInv DEF CompleteWorker, TerminalStates, OpenStates

(* reconcile is an end of the overdue runs. *)
LEMMA ReconcileInv == ASSUME IInv, NEW w \in Runners, Reconcile(w) PROVE IInv'
BY EndInv DEF Reconcile, Expired, TerminalStates

(* A claimed job was in the table. *)
LEMMA ClaimJobInv ==
    ASSUME IInv, NEW w \in Runners, NEW j \in Jobs, ClaimJob(w, j)
    PROVE  IInv'
<1>0. Claim(w, j) /\ JobTypeOK
  BY DEF ClaimJob, IInv, TypeOK
<1>a. JobTypeOK'
  BY <1>0, ClaimType
<1>b. /\ \A k \in Jobs : k # j => job'[k] = job[k]
      /\ job[j].state \in {"pending", "leased"}
      /\ job'[j].state = "leased" /\ job'[j].attempts = job[j].attempts + 1
      /\ job[j].attempts \in Nat
  BY <1>0 DEF Claim, Claimable, JobTypeOK, Row
<1>1. TypeOK'
  BY <1>a DEF IInv, TypeOK, ClaimJob, Goto, runVars, Steps, HandlerSteps
<1>2. RowInv'
  BY <1>b DEF IInv, RowInv, LeasedHasAttempt
<1>3. WorkInv'
  BY <1>b DEF IInv, TypeOK, WorkInv, ClaimJob, Goto
<1>4. RunInv'
  BY <1>b, JobNames DEF IInv, RunInv, ClaimJob, runVars
<1>5. RunnerInv'
  BY DEF IInv, RunnerInv, ClaimJob, Goto, runVars, LaunchWanted
<1>6. SafetyInv'
  BY <1>b, JobNames DEF IInv, SafetyInv, LaunchDoneMeansLaunched,
     TerminateDoneMeansGone, TerminatingIsOwed, OpenRunKeepsMachine, LaunchWanted,
     ClaimJob, runVars
<1>7. QED
  BY <1>1, <1>2, <1>3, <1>4, <1>5, <1>6 DEF IInv

(* Clocks keep the invariant. *)
LEMMA TickInv == ASSUME IInv, NEW j \in Jobs, Tick(j) PROVE IInv'
<1>0. JobTypeOK /\ (LeaseExpires(j) \/ BackoffEnds(j))
  BY DEF Tick, IInv, TypeOK
<1>a. JobTypeOK'
  BY <1>0, TickType
<1>b. /\ \A k \in Jobs : job'[k].state = job[k].state /\ job'[k].attempts = job[k].attempts
      /\ \A k \in Jobs : job[k].state = "absent" => job'[k] = job[k]
  BY <1>0 DEF LeaseExpires, BackoffEnds, JobTypeOK, Row
<1>c. UNCHANGED <<run, inst, recorded, credential, overdue, ec2, pc, work, loaded, crashes>>
  BY DEF Tick, runVars, runnerVars
<1>1. TypeOK'
  BY <1>a, <1>c DEF IInv, TypeOK
<1>2. RowInv'
  BY <1>b DEF IInv, RowInv, LeasedHasAttempt
<1>3. WorkInv'
  BY <1>b, <1>c DEF IInv, WorkInv
<1>4. RunInv'
  BY <1>b, <1>c, JobNames DEF IInv, RunInv
<1>5. RunnerInv'
  BY <1>c DEF IInv, RunnerInv, LaunchWanted
<1>6. SafetyInv'
  BY <1>b, <1>c, JobNames DEF IInv, SafetyInv, LaunchDoneMeansLaunched,
     TerminateDoneMeansGone, TerminatingIsOwed, OpenRunKeepsMachine, LaunchWanted
<1>7. QED
  BY <1>1, <1>2, <1>3, <1>4, <1>5, <1>6 DEF IInv

-----------------------------------------------------------------------------

(* An empty database satisfies the invariant. *)
LEMMA InitInv == Init => IInv
<1> SUFFICES ASSUME Init PROVE IInv
  OBVIOUS
<1>0. AbsentRow \in Row
  BY QueueAssumption DEF AbsentRow, Row, JobStates
<1>a. \A j \in Jobs : job[j] = AbsentRow /\ job[j].state = "absent"
  BY DEF Init, JobInit, AbsentRow
<1>1. TypeOK
  BY <1>0, RunAssumption DEF Init, JobInit, TypeOK, JobTypeOK, RunStates,
     InstanceStates, Steps, HandlerSteps
<1>2. RowInv
  BY <1>a DEF RowInv, LeasedHasAttempt
<1>3. WorkInv /\ RunnerInv
  BY DEF Init, WorkInv, RunnerInv
<1>4. RunInv /\ SafetyInv
  BY <1>a, JobNames DEF Init, RunInv, SafetyInv, LaunchDoneMeansLaunched,
     TerminateDoneMeansGone, TerminatingIsOwed, OpenRunKeepsMachine
<1>5. QED
  BY <1>1, <1>2, <1>3, <1>4 DEF IInv

(* Every step keeps the invariant. *)
LEMMA NextInv == IInv /\ [Next]_vars => IInv'
<1> SUFFICES ASSUME IInv, [Next]_vars PROVE IInv'
  OBVIOUS
<1>1. ASSUME NEW r \in Runs, Api(r) \/ DeadlinePasses(r) PROVE IInv'
  BY <1>1, CreateRunInv, CancelRunInv, ClaimWorkerInv, CompleteWorkerInv,
     DeadlinePassesInv DEF Api
<1>2. ASSUME NEW w \in Runners, Handle(w) PROVE IInv'
  BY <1>2, LaunchNotWantedInv, LaunchBlockedInv, LaunchStartInv, LaunchCallInv,
     LaunchRecordInv, TerminateStartInv, TerminateCallInv, TerminateConfirmInv,
     CompleteJobInv, DeferJobInv, HandlerFailsInv, FailReadInv, FailWriteInv,
     ExhaustReadInv, ExhaustWriteInv DEF Handle
<1>3. ASSUME NEW w \in Runners, Reconcile(w) \/ Crash(w) \/ Restart(w) PROVE IInv'
  BY <1>3, ReconcileInv, CrashInv, RestartInv
<1>4. ASSUME NEW w \in Runners, NEW j \in Jobs, ClaimJob(w, j) PROVE IInv'
  BY <1>4, ClaimJobInv
<1>5. ASSUME NEW j \in Jobs, Tick(j) PROVE IInv'
  BY <1>5, TickInv
<1>6. CASE UNCHANGED vars
  BY <1>6 DEF vars, runVars, runnerVars, IInv, TypeOK, JobTypeOK, RowInv,
     LeasedHasAttempt, WorkInv, RunInv, RunnerInv, SafetyInv,
     LaunchDoneMeansLaunched, TerminateDoneMeansGone, TerminatingIsOwed,
     OpenRunKeepsMachine, LaunchWanted
<1>7. QED
  BY <1>1, <1>2, <1>3, <1>4, <1>5, <1>6 DEF Next

(* The inductive invariant holds in every reachable state. *)
THEOREM Invariance == Spec => []IInv
<1>1. QED
  BY InitInv, NextInv, PTL DEF Spec

(* Every variable keeps its type. *)
THEOREM TypeOKHolds == Spec => []TypeOK
<1>1. IInv => TypeOK
  BY DEF IInv
<1>2. QED
  BY <1>1, Invariance, PTL

(* No run waits for a machine whose launch job is done: also with stale    *)
(* runners that complete a job they no longer lease.                       *)
THEOREM LaunchDoneHolds == Spec => []LaunchDoneMeansLaunched
<1>1. IInv => LaunchDoneMeansLaunched
  BY DEF IInv, SafetyInv
<1>2. QED
  BY <1>1, Invariance, PTL

(* A terminate job is done only when EC2 has terminated the instance.      *)
THEOREM TerminateDoneHolds == Spec => []TerminateDoneMeansGone
<1>1. IInv => TerminateDoneMeansGone
  BY DEF IInv, SafetyInv
<1>2. QED
  BY <1>1, Invariance, PTL

(* A terminating instance is always owed a terminate job or was given up. *)
THEOREM TerminatingIsOwedHolds == Spec => []TerminatingIsOwed
<1>1. IInv => TerminatingIsOwed
  BY DEF IInv, SafetyInv
<1>2. QED
  BY <1>1, Invariance, PTL

(* No machine is terminated under a run that is still open. *)
THEOREM OpenRunKeepsMachineHolds == Spec => []OpenRunKeepsMachine
<1>1. IInv => OpenRunKeepsMachine
  BY DEF IInv, SafetyInv
<1>2. QED
  BY <1>1, Invariance, PTL

-----------------------------------------------------------------------------
(* Capacity and finality follow from IInv without joining it.              *)

(* A step that activates no run keeps the bound. *)
LEMMA ActiveShrinks ==
    ASSUME CapacityRespected,
           \A r \in Runs : run'[r] \in ActiveStates => run[r] \in ActiveStates
    PROVE  CapacityRespected'
<1> DEFINE A == {r \in Runs : run[r] \in ActiveStates}
           B == {r \in Runs : run'[r] \in ActiveStates}
<1>1. IsFiniteSet(A)
  BY QueueAssumption, FS_Subset
<1>2. B \subseteq A
  OBVIOUS
<1>3. Cardinality(B) <= Cardinality(A) /\ Cardinality(A) \in Nat /\ Cardinality(B) \in Nat
  <2> HIDE DEF A, B
  <2>1. QED
    BY <1>1, <1>2, FS_Subset, FS_CardinalityType
<1>4. QED
  BY <1>3, RunAssumption DEF CapacityRespected

(* The launch that fits keeps the bound: it counts every active run but *)
(* its own.                                                             *)
LEMMA LaunchStartCapacity ==
    ASSUME TypeOK, NEW w \in Runners, work[w][2] \in Runs, LaunchStart(w)
    PROVE  CapacityRespected'
<1> DEFINE r == work[w][2]
           A == {s \in Runs \ {r} : run[s] \in ActiveStates}
           B == {s \in Runs : run'[s] \in ActiveStates}
<1>1. IsFiniteSet(A) /\ r \notin A
  BY QueueAssumption, FS_Subset
<1>2. Cardinality(A) < MaxActiveRuns
  <2>1. Cardinality(A) \in Nat
    BY <1>1, FS_CardinalityType
  <2>2. ~(Cardinality(A) >= MaxActiveRuns)
    BY DEF LaunchStart, CapacityFull, runOf
  <2> HIDE DEF A
  <2>3. QED
    BY <2>1, <2>2, RunAssumption
<1>3. B = A \cup {r}
  BY DEF LaunchStart, runOf, TypeOK, ActiveStates
<1>4. Cardinality(B) = Cardinality(A) + 1
  <2> HIDE DEF A, B, r
  <2>1. QED
    BY <1>1, <1>3, FS_AddElement
<1>5. Cardinality(A) \in Nat
  BY <1>1, FS_CardinalityType
<1>6. Cardinality(B) <= MaxActiveRuns
  <2> HIDE DEF A, B
  <2>1. QED
    BY <1>2, <1>4, <1>5, RunAssumption
<1>7. QED
  BY <1>6 DEF CapacityRespected

(* Every step keeps the bound. *)
LEMMA CapacityNext ==
    ASSUME IInv, CapacityRespected, [Next]_vars
    PROVE  CapacityRespected'
<1>1. ASSUME NEW r \in Runs, CreateRun(r) \/ ClaimWorker(r) \/ DeadlinePasses(r)
      PROVE  CapacityRespected'
  BY <1>1, ActiveShrinks DEF CreateRun, ClaimWorker, DeadlinePasses, ActiveStates, IInv, TypeOK
<1>2. ASSUME NEW S, NEW outcome \in TerminalStates, End(S, outcome)
      PROVE  CapacityRespected'
  BY <1>2, ActiveShrinks DEF End, ActiveStates, TerminalStates
<1>3. ASSUME NEW r \in Runs, CancelRun(r) \/ CompleteWorker(r)
      PROVE  CapacityRespected'
  BY <1>2, <1>3 DEF CancelRun, CompleteWorker, TerminalStates
<1>4. ASSUME NEW w \in Runners, LaunchStart(w)
      PROVE  CapacityRespected'
  BY <1>4, LaunchStartCapacity, JobNames DEF LaunchStart, IInv, WorkInv
<1>5. ASSUME NEW w \in Runners, ExhaustWrite(w)
      PROVE  CapacityRespected'
  BY <1>5, ActiveShrinks DEF ExhaustWrite, ActiveStates, IInv, TypeOK
<1>6. ASSUME run' = run
      PROVE  CapacityRespected'
  BY <1>6, ActiveShrinks
<1>7. ASSUME NEW w \in Runners, Reconcile(w)
      PROVE  CapacityRespected'
  BY <1>2, <1>7 DEF Reconcile, TerminalStates
<1>8. ASSUME NEW w \in Runners, Handle(w), ~LaunchStart(w), ~ExhaustWrite(w)
      PROVE  run' = run
  BY <1>8 DEF Handle, LaunchNotWanted, LaunchBlocked, LaunchCall, LaunchRecord,
     TerminateStart, TerminateCall, TerminateConfirm, CompleteJob, DeferJob,
     HandlerFails, FailRead, FailWrite, ExhaustRead, runVars
<1>9. ASSUME NEW w \in Runners, Crash(w) \/ Restart(w) \/ \E j \in Jobs : ClaimJob(w, j)
      PROVE  run' = run
  BY <1>9 DEF Crash, Restart, ClaimJob, runVars
<1>10. ASSUME NEW j \in Jobs, Tick(j)
       PROVE  run' = run
  BY <1>10 DEF Tick, runVars
<1>11. CASE UNCHANGED vars
  BY <1>6, <1>11 DEF vars, runVars
<1>12. QED
  BY <1>1, <1>3, <1>4, <1>5, <1>6, <1>7, <1>8, <1>9, <1>10, <1>11 DEF Next, Api

(* At most max_active_runs runs are active, for any number of runs and *)
(* runners.                                                            *)
THEOREM CapacityHolds == Spec => []CapacityRespected
<1>1. Init => CapacityRespected
  <2>1. ASSUME Init PROVE {r \in Runs : run[r] \in ActiveStates} = {}
    BY <2>1 DEF Init, ActiveStates
  <2>2. QED
    BY <2>1, FS_EmptySet, RunAssumption DEF CapacityRespected
<1>2. IInv /\ CapacityRespected /\ [Next]_vars => CapacityRespected'
  BY CapacityNext
<1>3. QED
  BY <1>1, <1>2, Invariance, PTL DEF Spec

(* No step of any process revives a run. *)
LEMMA EndedNext ==
    ASSUME TypeOK, [Next]_vars, NEW r \in Runs, run[r] \in TerminalStates
    PROVE  run'[r] \in TerminalStates
<1>1. ASSUME NEW s \in Runs, CreateRun(s) \/ ClaimWorker(s) \/ DeadlinePasses(s)
      PROVE  run'[r] \in TerminalStates
  BY <1>1 DEF CreateRun, ClaimWorker, DeadlinePasses, TerminalStates, TypeOK
<1>2. ASSUME NEW S, NEW outcome \in TerminalStates, End(S, outcome)
      PROVE  run'[r] \in TerminalStates
  BY <1>2 DEF End
<1>3. ASSUME NEW s \in Runs, CancelRun(s) \/ CompleteWorker(s)
      PROVE  run'[r] \in TerminalStates
  BY <1>2, <1>3 DEF CancelRun, CompleteWorker, TerminalStates
<1>4. ASSUME NEW w \in Runners, LaunchStart(w) \/ ExhaustWrite(w)
      PROVE  run'[r] \in TerminalStates
  BY <1>4 DEF LaunchStart, LaunchWanted, ExhaustWrite, TerminalStates, TypeOK
<1>5. ASSUME NEW w \in Runners, Handle(w), ~LaunchStart(w), ~ExhaustWrite(w)
      PROVE  run' = run
  BY <1>5 DEF Handle, LaunchNotWanted, LaunchBlocked, LaunchCall, LaunchRecord,
     TerminateStart, TerminateCall, TerminateConfirm, CompleteJob, DeferJob,
     HandlerFails, FailRead, FailWrite, ExhaustRead, runVars
<1>6. ASSUME NEW w \in Runners, Crash(w) \/ Restart(w) \/ \E j \in Jobs : ClaimJob(w, j)
      PROVE  run' = run
  BY <1>6 DEF Crash, Restart, ClaimJob, runVars
<1>7. ASSUME NEW w \in Runners, Reconcile(w)
      PROVE  run'[r] \in TerminalStates
  BY <1>2, <1>7 DEF Reconcile, TerminalStates
<1>8. ASSUME NEW j \in Jobs, Tick(j)
      PROVE  run' = run
  BY <1>8 DEF Tick, runVars
<1>9. CASE UNCHANGED vars
  BY <1>9 DEF vars, runVars
<1>10. QED
  BY <1>1, <1>3, <1>4, <1>5, <1>6, <1>7, <1>8, <1>9 DEF Next, Api

(* A run that has ended stays ended, whatever stale runners and late *)
(* workers do.                                                       *)
THEOREM EndedHolds == Spec => EndedRunsStayEnded
<1>1. IInv /\ [Next]_vars =>
        [\A r \in Runs : run[r] \in TerminalStates => run'[r] \in TerminalStates]_vars
  BY EndedNext DEF IInv
<1>2. QED
  BY <1>1, Invariance, PTL DEF Spec, EndedRunsStayEnded

-----------------------------------------------------------------------------
(***************************************************************************)
(* RunLifecycle implements LeasedWork: the queue, driven by its real       *)
(* runners, keeps the abstract promise for every value of the constants.   *)
(* Besides IInv the proof needs VerdictInv, because fail is given what the *)
(* runner read of its row in an earlier step.                              *)
(***************************************************************************)

(* The refinement mapping, field by field: what a row of job shows of an item. *)
statusOf(row) ==
    CASE row.state = "pending"   -> "open"
      [] row.state = "leased"    -> IF row.expired THEN "lapsed" ELSE "held"
      [] row.state = "completed" -> "done"
      [] row.state = "failed"    -> "dead"
      [] OTHER                   -> "absent"

(* The mapping, row by row, in a state and in the next. *)
LEMMA BarRow ==
    /\ itemBar = [j \in Jobs |-> [status |-> statusOf(job[j]), tries |-> job[j].attempts,
                                  holder |-> job[j].owner]]
    /\ itemBar' = [j \in Jobs |-> [status |-> statusOf(job'[j]), tries |-> job'[j].attempts,
                                   holder |-> job'[j].owner]]
BY DEF itemBar, statusOf

(* The states of a row and the statuses of an item correspond one to one. *)
LEMMA StatusOf ==
    ASSUME NEW row \in Row
    PROVE  /\ row.state = "absent" <=> statusOf(row) = "absent"
           /\ row.state = "pending" <=> statusOf(row) = "open"
           /\ row.state = "leased" /\ ~row.expired <=> statusOf(row) = "held"
           /\ row.state = "leased" /\ row.expired <=> statusOf(row) = "lapsed"
           /\ row.state = "completed" <=> statusOf(row) = "done"
           /\ row.state = "failed" <=> statusOf(row) = "dead"
BY DEF Row, JobStates, statusOf

(* enqueue submits the rows it inserts. *)
LEMMA EnqueueRefines ==
    ASSUME TypeOK, RowInv, NEW S, Enqueue(S)
    PROVE  LW!Submit
<1> DEFINE New == (S \cap Jobs) \ Present
           Bar(row) == [status |-> statusOf(row), tries |-> row.attempts,
                        holder |-> row.owner]
<1>0. JobTypeOK /\ JobTypeOK'
  BY EnqueueType DEF TypeOK
<1>1. New \in SUBSET {i \in Jobs : itemBar[i].status = "absent"}
  BY <1>0, BarRow, StatusOf DEF Present, JobTypeOK
<1>2. PICK n : n = Cardinality(Present) + 1
  OBVIOUS
<1>3. \A j \in New : job'[j] = NewRow(n)
  BY <1>2 DEF Enqueue
<1>4. \A j \in Jobs \ New : job'[j] = job[j]
  BY DEF Enqueue
<1>5. \A j \in New : job[j] = AbsentRow
  BY DEF RowInv, Present
<1>6. \A j \in New : Bar(job'[j]) = [Bar(job[j]) EXCEPT !.status = "open"]
  BY <1>3, <1>5 DEF NewRow, AbsentRow, statusOf
<1>7. itemBar' = [i \in Jobs |-> IF i \in New THEN [itemBar[i] EXCEPT !.status = "open"]
                                               ELSE itemBar[i]]
  BY <1>4, <1>6, BarRow
<1>8. QED
  BY <1>1, <1>7 DEF LW!Submit

(* An update of one row updates one item. *)
LEMMA BarUpdate ==
    ASSUME JobTypeOK, NEW j \in Jobs, NEW row \in Row, job' = [job EXCEPT ![j] = row]
    PROVE  itemBar' = [itemBar EXCEPT ![j] = [status |-> statusOf(row),
                                              tries |-> row.attempts, holder |-> row.owner]]
BY BarRow DEF JobTypeOK

(* claim takes a free or lapsed item with tries left. *)
LEMMA ClaimRefines ==
    ASSUME TypeOK, NEW w \in Runners, NEW j \in Jobs, Claim(w, j)
    PROVE  LW!Take(w, j)
<1> DEFINE row == [job[j] EXCEPT !.state = "leased", !.owner = w, !.expired = FALSE,
                                 !.attempts = @ + 1]
<1>0. JobTypeOK /\ JobTypeOK' /\ job[j] \in Row /\ job' = [job EXCEPT ![j] = row]
  BY ClaimType DEF TypeOK, JobTypeOK, Claim
<1>1. row \in Row
  BY <1>0 DEF JobTypeOK
<1>2. row.state = "leased" /\ ~row.expired /\ row.owner = w
      /\ row.attempts = job[j].attempts + 1
  BY <1>0 DEF Row
<1>3. itemBar' = [itemBar EXCEPT ![j] = [status |-> "held", tries |-> job[j].attempts + 1,
                                         holder |-> w]]
  <2> HIDE DEF row
  <2>1. statusOf(row) = "held"
    BY <1>1, <1>2, StatusOf
  <2>2. QED
    BY <1>0, <1>1, <1>2, <2>1, BarUpdate
<1>4. itemBar[j].status \in {"open", "lapsed"} /\ itemBar[j].tries = job[j].attempts
  BY <1>0, BarRow, StatusOf DEF Claim, Claimable
<1>5. QED
  BY <1>3, <1>4 DEF LW!Take, Claim, Claimable

(* A lease that expires lapses; the end of a back-off is not visible. *)
LEMMA TickRefines ==
    ASSUME TypeOK, NEW j \in Jobs, LeaseExpires(j) \/ BackoffEnds(j)
    PROVE  LW!Lapse(j) \/ UNCHANGED itemBar
<1>0. JobTypeOK /\ job[j] \in Row
  BY DEF TypeOK, JobTypeOK
<1>1. CASE LeaseExpires(j)
  <2> DEFINE row == [job[j] EXCEPT !.expired = TRUE]
  <2>1. row \in Row /\ row.state = "leased" /\ row.expired
        /\ row.attempts = job[j].attempts /\ row.owner = job[j].owner
        /\ job' = [job EXCEPT ![j] = row]
    BY <1>0, <1>1 DEF Row, LeaseExpires, JobTypeOK
  <2>2. itemBar' = [itemBar EXCEPT ![j] = [status |-> "lapsed", tries |-> job[j].attempts,
                                           holder |-> job[j].owner]]
    <3> HIDE DEF row
    <3>1. statusOf(row) = "lapsed"
      BY <2>1, StatusOf
    <3>2. QED
      BY <1>0, <2>1, <3>1, BarUpdate
  <2>3. itemBar[j] = [status |-> "held", tries |-> job[j].attempts, holder |-> job[j].owner]
    BY <1>0, <1>1, BarRow, StatusOf DEF LeaseExpires
  <2>4. QED
    BY <2>2, <2>3, BarRow DEF LW!Lapse
<1>2. CASE BackoffEnds(j)
  <2> DEFINE row == [job[j] EXCEPT !.ready = TRUE]
  <2>1. row \in Row /\ row.state = job[j].state /\ row.expired = job[j].expired
        /\ row.attempts = job[j].attempts /\ row.owner = job[j].owner
        /\ job' = [job EXCEPT ![j] = row]
    BY <1>0, <1>2 DEF Row, BackoffEnds, JobTypeOK
  <2>2. statusOf(row) = statusOf(job[j])
    BY <2>1 DEF statusOf
  <2>3. QED
    <3> HIDE DEF row
    <3>1. QED
      BY <1>0, <2>1, <2>2, BarUpdate, BarRow
<1>3. QED
  BY <1>1, <1>2

(* What a runner has read of its row in the except block stays true while  *)
(* it holds the lease: nobody else changes the attempts of that row.       *)
VerdictInv ==
    \A w \in Runners :
        pc[w] \in {"giving_up", "retrying"} /\ HoldsLease(w, work[w]) =>
            (pc[w] = "giving_up" <=> LastAttempt(work[w]))

(* While w holds the lease of j, nobody else changes its attempts. *)
LEMMA LeaseKept ==
    ASSUME JobTypeOK, NEW w \in Runners, NEW j \in Jobs, HoldsLease(w, j)',
           \/ job' = job
           \/ \E S : Enqueue(S)
           \/ \E u \in Runners, k \in Jobs : Settles(u, k)
           \/ \E u \in Runners \ {w}, k \in Jobs : Claim(u, k)
           \/ \E k \in Jobs : LeaseExpires(k) \/ BackoffEnds(k)
    PROVE  HoldsLease(w, j) /\ (LastAttempt(j)' <=> LastAttempt(j))
<1>1. CASE job' = job
  BY <1>1 DEF HoldsLease, LastAttempt
<1>2. ASSUME NEW S, Enqueue(S) PROVE job'[j] = job[j]
  BY <1>2, EnqueueEffect DEF HoldsLease
<1>3. ASSUME NEW u \in Runners, NEW k \in Jobs, Settles(u, k) PROVE job'[j] = job[j]
  BY <1>3, SettleEffect DEF HoldsLease
<1>4. ASSUME NEW u \in Runners \ {w}, NEW k \in Jobs, Claim(u, k)
      PROVE  job'[j] = job[j]
  BY <1>4 DEF Claim, HoldsLease, JobTypeOK, Row
<1>5. ASSUME NEW k \in Jobs, LeaseExpires(k) \/ BackoffEnds(k)
      PROVE  /\ job'[j].state = job[j].state /\ job'[j].owner = job[j].owner
             /\ job'[j].attempts = job[j].attempts
  BY <1>5 DEF LeaseExpires, BackoffEnds, JobTypeOK, Row
<1>6. QED
  BY <1>1, <1>2, <1>3, <1>4, <1>5 DEF HoldsLease, LastAttempt

(* Every step keeps VerdictInv. *)
LEMMA VerdictNext == IInv /\ VerdictInv /\ [Next]_vars => VerdictInv'
<1> SUFFICES ASSUME IInv, VerdictInv, [Next]_vars, NEW w \in Runners,
                    pc'[w] \in {"giving_up", "retrying"}, HoldsLease(w, work[w])'
             PROVE  pc'[w] = "giving_up" <=> LastAttempt(work[w])'
  BY DEF VerdictInv
<1>0. JobTypeOK /\ pc \in [Runners -> Steps]
  BY DEF IInv, TypeOK
<1>1. CASE FailRead(w)
  BY <1>0, <1>1 DEF FailRead, Goto, LastAttempt
<1>2. CASE ~FailRead(w)
  <2>1. pc'[w] = pc[w] /\ work'[w] = work[w]
    <3>1. ASSUME NEW r \in Runs, Api(r) \/ DeadlinePasses(r)
          PROVE  pc' = pc /\ work' = work
      BY <3>1 DEF Api, CreateRun, CancelRun, ClaimWorker, CompleteWorker, DeadlinePasses,
         runnerVars
    <3>2. ASSUME NEW u \in Runners, Handle(u) PROVE pc'[w] = pc[w] /\ work'[w] = work[w]
      <4>1. CASE u = w
        BY <1>0, <1>2, <3>2, <4>1 DEF Handle, LaunchNotWanted, LaunchBlocked, LaunchStart,
           LaunchCall, LaunchRecord, TerminateStart, TerminateCall, TerminateConfirm,
           CompleteJob, DeferJob, HandlerFails, FailWrite, ExhaustRead, ExhaustWrite,
           Goto, Finish
      <4>2. CASE u # w
        BY <1>0, <3>2, <4>2 DEF Handle, LaunchNotWanted, LaunchBlocked, LaunchStart,
           LaunchCall, LaunchRecord, TerminateStart, TerminateCall, TerminateConfirm,
           CompleteJob, DeferJob, HandlerFails, FailRead, FailWrite, ExhaustRead,
           ExhaustWrite, Goto, Finish, IInv, TypeOK
      <4>3. QED
        BY <4>1, <4>2
    <3>3. ASSUME NEW u \in Runners, Reconcile(u) \/ Crash(u) \/ Restart(u)
          PROVE  pc'[w] = pc[w] /\ work'[w] = work[w]
      BY <1>0, <3>3 DEF Reconcile, Crash, Restart, Goto, runnerVars, IInv, TypeOK
    <3>4. ASSUME NEW u \in Runners, NEW j \in Jobs, ClaimJob(u, j)
          PROVE  pc'[w] = pc[w] /\ work'[w] = work[w]
      BY <1>0, <3>4 DEF ClaimJob, Goto, IInv, TypeOK
    <3>5. ASSUME NEW j \in Jobs, Tick(j) PROVE pc' = pc /\ work' = work
      BY <3>5 DEF Tick, runnerVars
    <3>6. CASE UNCHANGED vars
      BY <3>6 DEF vars, runnerVars
    <3>7. QED
      BY <3>1, <3>2, <3>3, <3>4, <3>5, <3>6 DEF Next
  <2>2. work[w] \in Jobs
    BY <2>1 DEF IInv, WorkInv
  <2>3. HoldsLease(w, work[w])' /\ (LastAttempt(work[w])' <=> job'[work[w]].attempts >= MaxAttempts)
    BY <2>1 DEF LastAttempt
  <2>4. \/ job' = job
        \/ \E S : Enqueue(S)
        \/ \E u \in Runners, k \in Jobs : Settles(u, k)
        \/ \E u \in Runners \ {w}, k \in Jobs : Claim(u, k)
        \/ \E k \in Jobs : LeaseExpires(k) \/ BackoffEnds(k)
    <3>1. ASSUME NEW r \in Runs, Api(r) PROVE job' = job \/ \E S : Enqueue(S)
      BY <3>1 DEF Api, CreateRun, CancelRun, ClaimWorker, CompleteWorker, End
    <3>2. ASSUME NEW u \in Runners, Handle(u)
          PROVE  job' = job \/ \E k \in Jobs : Settles(u, k)
      <4>1. CASE CompleteJob(u) \/ DeferJob(u) \/ FailWrite(u)
        BY <4>1 DEF CompleteJob, DeferJob, FailWrite, Settles, Returns, IInv, WorkInv
      <4>2. CASE ~(CompleteJob(u) \/ DeferJob(u) \/ FailWrite(u))
        BY <3>2, <4>2 DEF Handle, LaunchNotWanted, LaunchBlocked, LaunchStart, LaunchCall,
           LaunchRecord, TerminateStart, TerminateCall, TerminateConfirm, HandlerFails,
           FailRead, ExhaustRead, ExhaustWrite
      <4>3. QED
        BY <4>1, <4>2
    <3>3. ASSUME NEW u \in Runners, Reconcile(u) \/ Crash(u) \/ Restart(u)
          PROVE  job' = job \/ \E S : Enqueue(S)
      BY <3>3 DEF Reconcile, End, Crash, Restart
    <3>4. ASSUME NEW u \in Runners, NEW j \in Jobs, ClaimJob(u, j)
          PROVE  u # w /\ Claim(u, j)
      BY <1>0, <2>1, <3>4 DEF ClaimJob, Goto
    <3>5. ASSUME NEW j \in Jobs, Tick(j) PROVE LeaseExpires(j) \/ BackoffEnds(j)
      BY <3>5 DEF Tick
    <3>6. ASSUME NEW r \in Runs, DeadlinePasses(r) PROVE job' = job
      BY <3>6 DEF DeadlinePasses
    <3>7. CASE UNCHANGED vars
      BY <3>7 DEF vars
    <3>8. QED
      BY <3>1, <3>2, <3>3, <3>4, <3>5, <3>6, <3>7 DEF Next
  <2>5. QED
    <3> DEFINE j == work[w]
    <3>1. j \in Jobs /\ job'[j].state = "leased" /\ job'[j].owner = w
      BY <2>1, <2>2, <2>3 DEF HoldsLease
    <3>2. QED
      BY <1>0, <2>1, <2>2, <2>3, <2>4, <3>1, LeaseKept DEF VerdictInv
<1>3. QED
  BY <1>1, <1>2

(* The attempts read in the except block are still those of the row at *)
(* the update that counts.                                             *)
THEOREM VerdictStands == Spec => []VerdictInv
<1>1. Init => VerdictInv
  BY DEF Init, VerdictInv
<1>2. QED
  BY <1>1, VerdictNext, Invariance, PTL DEF Spec

(* complete, defer and fail settle the item as its holder, or do nothing. *)
LEMMA SettleRefines ==
    ASSUME TypeOK, RowInv, NEW w \in Runners, NEW j \in Jobs,
           \/ Complete(w, j)
           \/ Defer(w, j)
           \/ \E terminal \in BOOLEAN :
                 /\ Fail(w, j, terminal)
                 /\ HoldsLease(w, j) => (terminal <=> LastAttempt(j))
    PROVE  LW!Next \/ UNCHANGED itemBar
<1>0. JobTypeOK /\ job[j] \in Row /\ MaxAttempts \in Nat
  BY QueueAssumption DEF TypeOK, JobTypeOK
<1>1. CASE ~HoldsLease(w, j)
  BY <1>1 DEF Complete, Fail, Defer, Update, itemBar
<1>2. CASE HoldsLease(w, j)
  <2>0. /\ LW!Holds(w, j) /\ itemBar[j].tries = job[j].attempts
        /\ job[j].attempts \in 1 .. MaxAttempts
    BY <1>0, <1>2, BarRow, StatusOf DEF HoldsLease, LW!Holds, RowInv, LeasedHasAttempt, Row
  <2>1. CASE Complete(w, j)
    <3> DEFINE row == [job[j] EXCEPT !.state = "completed", !.owner = NoRunner,
                                     !.expired = FALSE]
    <3>1. row \in Row /\ row.state = "completed" /\ row.owner = NoRunner
          /\ row.attempts = job[j].attempts /\ job' = [job EXCEPT ![j] = row]
      BY <1>0, <1>2, <2>1 DEF Row, JobStates, Complete, Update
    <3>2. LW!Done(w, j)
      <4> HIDE DEF row
      <4>1. statusOf(row) = "done"
        BY <3>1, StatusOf
      <4>2. QED
        BY <1>0, <2>0, <3>1, <4>1, BarUpdate, ZenonT(60) DEF LW!Done, LW!Settle
    <3>3. QED
      BY <3>2 DEF LW!Next
  <2>2. CASE Fail(w, j, TRUE) /\ LastAttempt(j)
    <3> DEFINE row == [job[j] EXCEPT !.state = "failed", !.owner = NoRunner,
                                     !.expired = FALSE, !.ready = FALSE]
    <3>1. row \in Row /\ row.state = "failed" /\ row.owner = NoRunner
          /\ row.attempts = job[j].attempts /\ job' = [job EXCEPT ![j] = row]
      BY <1>0, <1>2, <2>2 DEF Row, JobStates, Fail, Update
    <3>2. job[j].attempts = MaxAttempts
      BY <1>0, <2>0, <2>2 DEF LastAttempt
    <3>3. LW!Bury(w, j)
      <4> HIDE DEF row
      <4>1. statusOf(row) = "dead"
        BY <3>1, StatusOf
      <4>2. QED
        BY <1>0, <2>0, <3>1, <3>2, <4>1, BarUpdate, ZenonT(60) DEF LW!Bury, LW!Settle
    <3>4. QED
      BY <3>3 DEF LW!Next
  <2>3. CASE Fail(w, j, FALSE) /\ ~LastAttempt(j)
    <3> DEFINE row == [job[j] EXCEPT !.state = "pending", !.owner = NoRunner,
                                     !.expired = FALSE, !.ready = FALSE]
    <3>1. row \in Row /\ row.state = "pending" /\ row.owner = NoRunner
          /\ row.attempts = job[j].attempts /\ job' = [job EXCEPT ![j] = row]
      BY <1>0, <1>2, <2>3 DEF Row, JobStates, Fail, Update
    <3>2. job[j].attempts < MaxAttempts
      BY <1>0, <2>0, <2>3 DEF LastAttempt
    <3>3. LW!Retry(w, j)
      <4> HIDE DEF row
      <4>1. statusOf(row) = "open"
        BY <3>1, StatusOf
      <4>2. QED
        BY <1>0, <2>0, <3>1, <3>2, <4>1, BarUpdate, ZenonT(60) DEF LW!Retry, LW!Settle
    <3>4. QED
      BY <3>3 DEF LW!Next
  <2>4. CASE Defer(w, j)
    <3> DEFINE row == [job[j] EXCEPT !.state = "pending", !.attempts = @ - 1,
                                     !.owner = NoRunner, !.expired = FALSE,
                                     !.ready = FALSE]
    <3>1. row \in Row /\ row.state = "pending" /\ row.owner = NoRunner
          /\ row.attempts = job[j].attempts - 1 /\ job' = [job EXCEPT ![j] = row]
      <4>1. job[j].attempts - 1 \in 0 .. MaxAttempts
        BY <1>0, <2>0
      <4>2. QED
        BY <1>0, <1>2, <2>4, <4>1 DEF Row, JobStates, Defer, Update
    <3>2. LW!Return(w, j)
      <4> HIDE DEF row
      <4>1. statusOf(row) = "open"
        BY <3>1, StatusOf
      <4>2. itemBar[j].tries > 0
        BY <1>0, <2>0
      <4>3. itemBar' = [itemBar EXCEPT ![j] = [status |-> "open", holder |-> NoRunner,
                                               tries |-> job[j].attempts - 1]]
        BY <1>0, <3>1, <4>1, BarUpdate
      <4>4. QED
        BY <2>0, <4>2, <4>3 DEF LW!Return, LW!Settle
    <3>3. QED
      BY <3>2 DEF LW!Next
  <2>5. QED
    BY <1>2, <2>1, <2>2, <2>3, <2>4
<1>3. QED
  BY <1>1, <1>2

(* The empty table is the empty set of items. *)
LEMMA InitRefines == Init => LW!Init
<1> SUFFICES ASSUME Init PROVE LW!Init
  OBVIOUS
<1>1. \A j \in Jobs : job[j] = AbsentRow
  BY DEF Init, JobInit
<1>2. statusOf(AbsentRow) = "absent" /\ AbsentRow.attempts = 0 /\ AbsentRow.owner = NoRunner
  BY DEF statusOf, AbsentRow
<1>3. QED
  BY <1>1, <1>2, BarRow DEF LW!Init

(* Every step of the system is a step of LeasedWork or a stutter. *)
LEMMA NextRefines == IInv /\ VerdictInv /\ [Next]_vars => [LW!Next]_itemBar
<1> SUFFICES ASSUME IInv, VerdictInv, [Next]_vars PROVE LW!Next \/ UNCHANGED itemBar
  OBVIOUS
<1> USE DEF IInv
<1>0. job' = job => UNCHANGED itemBar
  BY DEF itemBar
<1>1. ASSUME NEW S, Enqueue(S) PROVE LW!Next
  BY <1>1, EnqueueRefines DEF LW!Next
<1>2. ASSUME NEW r \in Runs, Api(r) PROVE LW!Next \/ job' = job
  BY <1>1, <1>2 DEF Api, CreateRun, CancelRun, ClaimWorker, CompleteWorker, End
<1>3. ASSUME NEW w \in Runners, Handle(w) PROVE LW!Next \/ UNCHANGED itemBar
  <2>1. CASE CompleteJob(w) \/ DeferJob(w) \/ FailWrite(w)
    <3>1. work[w] \in Jobs
      BY <2>1 DEF WorkInv, CompleteJob, DeferJob, FailWrite
    <3>2. \/ Complete(w, work[w])
          \/ Defer(w, work[w])
          \/ \E terminal \in BOOLEAN :
                /\ Fail(w, work[w], terminal)
                /\ HoldsLease(w, work[w]) => (terminal <=> LastAttempt(work[w]))
      BY <2>1 DEF CompleteJob, DeferJob, FailWrite, VerdictInv
    <3>3. QED
      BY <3>1, <3>2, SettleRefines
  <2>2. CASE ~(CompleteJob(w) \/ DeferJob(w) \/ FailWrite(w))
    <3>1. job' = job
      BY <1>3, <2>2 DEF Handle, LaunchNotWanted, LaunchBlocked, LaunchStart, LaunchCall,
         LaunchRecord, TerminateStart, TerminateCall, TerminateConfirm, HandlerFails,
         FailRead, ExhaustRead, ExhaustWrite
    <3>2. QED
      BY <1>0, <3>1
  <2>3. QED
    BY <2>1, <2>2
<1>4. ASSUME NEW w \in Runners, Reconcile(w) \/ Crash(w) \/ Restart(w)
      PROVE  LW!Next \/ job' = job
  BY <1>1, <1>4 DEF Reconcile, End, Crash, Restart
<1>5. ASSUME NEW w \in Runners, NEW j \in Jobs, ClaimJob(w, j) PROVE LW!Next
  BY <1>5, ClaimRefines DEF ClaimJob, LW!Next
<1>6. ASSUME NEW j \in Jobs, Tick(j) PROVE LW!Next \/ UNCHANGED itemBar
  BY <1>6, TickRefines DEF Tick, LW!Next
<1>7. ASSUME NEW r \in Runs, DeadlinePasses(r) PROVE job' = job
  BY <1>7 DEF DeadlinePasses
<1>8. CASE UNCHANGED vars
  BY <1>0, <1>8 DEF vars
<1>9. QED
  BY <1>0, <1>2, <1>3, <1>4, <1>5, <1>6, <1>7, <1>8 DEF Next

(* The queue with its real handlers implements LeasedWork. *)
THEOREM QueueRefines == Spec => QueueKeepsPromise
<1>1. QED
  BY InitRefines, NextRefines, Invariance, VerdictStands, PTL DEF Spec, QueueKeepsPromise, LW!Spec
==============================================================================
