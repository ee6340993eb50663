------------------------------ MODULE HarborV2 ------------------------------
(***************************************************************************)
(* Harbor EC2 v2 (control_panel/v2): the API queues runs, and runner       *)
(* processes claim them one at a time under a lease, have the Harbor CLI   *)
(* run the task on EC2 and record what it reports.  A heartbeat renews the *)
(* lease meanwhile.  Only the claim takes the write lock: the heartbeat    *)
(* and the final write read the row, check its owner and write later.      *)
(* The inputs of a run and its Idempotency-Key are left out: a repeated    *)
(* request changes nothing.                                                *)
(***************************************************************************)
EXTENDS Naturals

CONSTANTS MaxV2Runs,     \* bound: runs queued, in the order of created_at
          V2Runners,     \* runner processes
          NoOwner,       \* the row has no owner
          Departed,      \* the owner was a process that is gone: a restart has a new name
          MaxV2Crashes   \* bound: crashes

ASSUME HarborAssumption == /\ MaxV2Runs \in Nat /\ MaxV2Crashes \in Nat
                           /\ NoOwner \notin V2Runners /\ Departed \notin V2Runners

V2Runs == 1..MaxV2Runs
Reported == {"succeeded", "failed"}
V2States == {"absent", "queued", "running", "interrupted"} \cup Reported
V2Row == [state: V2States, owner: V2Runners \cup {NoOwner, Departed},
          lease: {"none", "valid", "lapsed"}]
Busy == {"prepare", "harbor", "write", "writing"}
Task == [pc: {"idle", "down"} \cup Busy, run: 0..MaxV2Runs,
         outcome: Reported, renewing: BOOLEAN]

VARIABLES v2run,     \* harbor_v2_runs
          task,      \* where each runner process is
          machines,  \* EC2 instances Harbor has up for a run
          started,   \* Harbor invocations a run has had
          clean,     \* runs of which Harbor reported every trial complete
          v2crashes

harborvars == <<v2run, task, machines, started, clean, v2crashes>>

At(pc, r) == [pc |-> pc, run |-> r, outcome |-> "failed", renewing |-> FALSE]

Idle == At("idle", 0)

HarborTypeOK ==
  /\ v2run \in [V2Runs -> V2Row] /\ task \in [V2Runners -> Task]
  /\ machines \in [V2Runs -> Nat] /\ started \in [V2Runs -> Nat]
  /\ clean \subseteq V2Runs /\ v2crashes \in 0..MaxV2Crashes

HarborInit ==
  /\ v2run = [r \in V2Runs |-> [state |-> "absent", owner |-> NoOwner, lease |-> "none"]]
  /\ task = [w \in V2Runners |-> Idle]
  /\ machines = [r \in V2Runs |-> 0] /\ started = [r \in V2Runs |-> 0]
  /\ clean = {} /\ v2crashes = 0

-----------------------------------------------------------------------------
(* enqueue_run *)
EnqueueRun(r) ==
  /\ v2run[r].state = "absent" /\ \A q \in V2Runs: q < r => v2run[q].state # "absent"
  /\ v2run' = [v2run EXCEPT ![r].state = "queued"]
  /\ UNCHANGED <<task, machines, started, clean, v2crashes>>

(* Slip: the lease of somebody who died is waited for. *)
V2ExpiredUnowned(row) == row.state = "running" /\ row.lease = "lapsed" /\ row.owner = NoOwner

(* Slip: a run that has no lease any more counts as lapsed. *)
V2ExpiredUnleased(row) == row.state # "absent" /\ row.lease # "valid"

V2Expired(row) == row.state = "running" /\ row.lease = "lapsed"

Ended(state) == [state |-> state, owner |-> NoOwner, lease |-> "none"]

(* Slip: a run whose lease lapsed is queued again. *)
LapsedRequeued(row) == Ended("queued")

Lapsed(row) == Ended("interrupted")

Swept == [r \in V2Runs |-> IF V2Expired(v2run[r]) THEN Lapsed(v2run[r]) ELSE v2run[r]]

(* run_once, one transaction: every lapsed run is marked, the oldest queued *)
(* one is claimed.                                                          *)
SweepOnly(w) ==
  /\ task[w].pc = "idle" /\ \A r \in V2Runs: v2run[r].state # "queued"
  /\ v2run' = Swept
  /\ UNCHANGED <<task, machines, started, clean, v2crashes>>

ClaimRun(w, r) ==
  /\ task[w].pc = "idle" /\ v2run[r].state = "queued"
  /\ \A q \in V2Runs: q < r => v2run[q].state # "queued"
  /\ v2run' = [Swept EXCEPT ![r] = [state |-> "running", owner |-> w, lease |-> "valid"]]
  /\ task' = [task EXCEPT ![w] = At("prepare", r)]
  /\ UNCHANGED <<machines, started, clean, v2crashes>>

-----------------------------------------------------------------------------
(* _execute: the checkout, the CLI and its result, any of which may raise. *)
StartHarbor(w) ==
  LET r == task[w].run IN
  /\ task[w].pc = "prepare" /\ task' = [task EXCEPT ![w].pc = "harbor"]
  /\ machines' = [machines EXCEPT ![r] = @ + 1] /\ started' = [started EXCEPT ![r] = @ + 1]
  /\ UNCHANGED <<v2run, clean, v2crashes>>

(* The heartbeat ends with _execute's try block. *)
Outcome(w, state) ==
  task' = [task EXCEPT ![w].pc = "write", ![w].outcome = state, ![w].renewing = FALSE]

PrepareFails(w) ==
  /\ task[w].pc = "prepare" /\ Outcome(w, "failed")
  /\ UNCHANGED <<v2run, machines, started, clean, v2crashes>>

(* terminal_state: an exit code of 0 is not enough. *)
TerminalState(complete) == IF complete THEN "succeeded" ELSE "failed"

(* process.wait also returns when Harbor was killed, its machine still up. *)
HarborExits(w) ==
  LET r == task[w].run IN
  /\ task[w].pc = "harbor"
  /\ \E complete, gone \in BOOLEAN:
       /\ complete => gone
       /\ Outcome(w, TerminalState(complete))
       /\ machines' = IF gone THEN [machines EXCEPT ![r] = @ - 1] ELSE machines
       /\ clean' = IF complete THEN clean \cup {r} ELSE clean
  /\ UNCHANGED <<v2run, started, v2crashes>>

(* _renew: the owner is checked, and the lease is written afterwards.      *)
Owns(w) == v2run[task[w].run].state = "running" /\ v2run[task[w].run].owner = w

RenewRead(w) ==
  /\ task[w].pc \in {"prepare", "harbor"} /\ ~task[w].renewing /\ Owns(w)
  /\ task' = [task EXCEPT ![w].renewing = TRUE]
  /\ UNCHANGED <<v2run, machines, started, clean, v2crashes>>

RenewWrite(w) ==
  /\ task[w].renewing /\ task' = [task EXCEPT ![w].renewing = FALSE]
  /\ v2run' = [v2run EXCEPT ![task[w].run].lease = "valid"]
  /\ UNCHANGED <<machines, started, clean, v2crashes>>

(* The end of _execute: the owner is checked outside a transaction ...     *)
FinalRead(w) ==
  /\ task[w].pc = "write"
  /\ task' = IF Owns(w) THEN [task EXCEPT ![w].pc = "writing"] ELSE [task EXCEPT ![w] = Idle]
  /\ UNCHANGED <<v2run, machines, started, clean, v2crashes>>

(* ... and the result is written by id alone.                              *)
FinalWrite(w) ==
  /\ task[w].pc = "writing" /\ task' = [task EXCEPT ![w] = Idle]
  /\ v2run' = [v2run EXCEPT ![task[w].run] = Ended(task[w].outcome)]
  /\ UNCHANGED <<machines, started, clean, v2crashes>>

-----------------------------------------------------------------------------
(* A lease runs out: of a runner that died, or whose heartbeats fail.      *)
LeaseLapses(r) ==
  /\ v2run[r].state = "running" /\ v2run[r].lease = "valid"
  /\ v2run' = [v2run EXCEPT ![r].lease = "lapsed"]
  /\ UNCHANGED <<task, machines, started, clean, v2crashes>>

(* A runner dies, also of an exception outside the try block; what Harbor  *)
(* has up on EC2 stays.                                                    *)
CrashV2(w) ==
  /\ task[w].pc # "down" /\ v2crashes < MaxV2Crashes /\ v2crashes' = v2crashes + 1
  /\ task' = [task EXCEPT ![w] = At("down", 0)]
  /\ v2run' = [r \in V2Runs |-> IF v2run[r].owner = w THEN [v2run[r] EXCEPT !.owner = Departed]
                                ELSE v2run[r]]
  /\ UNCHANGED <<machines, started, clean>>

RestartV2(w) == /\ task[w].pc = "down" /\ task' = [task EXCEPT ![w] = Idle]
                /\ UNCHANGED <<v2run, machines, started, clean, v2crashes>>

RunOnce(w) == SweepOnly(w) \/ \E r \in V2Runs: ClaimRun(w, r)
Execute(w) == StartHarbor(w) \/ PrepareFails(w) \/ HarborExits(w) \/ FinalRead(w) \/ FinalWrite(w)
Heartbeat(w) == RenewRead(w) \/ RenewWrite(w)

HarborNext ==
  \/ \E r \in V2Runs: EnqueueRun(r) \/ LeaseLapses(r)
  \/ \E w \in V2Runners: RunOnce(w) \/ Execute(w) \/ Heartbeat(w) \/ CrashV2(w) \/ RestartV2(w)

HarborSpec == HarborInit /\ [][HarborNext]_harborvars

(* A runner process keeps going and is restarted (systemd), Harbor comes   *)
(* to an end, and the lease of a process that is gone runs out.            *)
HarborFairness ==
  /\ \A w \in V2Runners: /\ WF_harborvars(RunOnce(w)) /\ WF_harborvars(Execute(w))
                         /\ WF_harborvars(RestartV2(w))
  /\ \A r \in V2Runs: WF_harborvars(v2run[r].owner = Departed /\ LeaseLapses(r))

-----------------------------------------------------------------------------
(* A run has one Harbor invocation at most, whatever lapses, is renewed    *)
(* late or crashes ("does not automatically relaunch it, because an EC2    *)
(* instance may still be active", README.md of the backend), so it never   *)
(* has two machines; and a run reports "succeeded" only if Harbor reported *)
(* all of its trials complete, and then no machine is left.                *)
OneHarborPerRun ==
  \A r \in V2Runs: /\ started[r] <= 1 /\ machines[r] <= 1
                   /\ v2run[r].state = "succeeded" => r \in clean /\ machines[r] = 0

MovesOn(old, new) ==
  \/ new = old
  \/ old = "absent" /\ new = "queued"
  \/ old = "queued" /\ new = "running"
  \/ old = "running" /\ new \in Reported \cup {"interrupted"}
  \/ old = "interrupted" /\ new \in Reported

(* A result that was reported stands, whoever sweeps, renews or writes late *)
(* without the lock; a claimed run is never queued again; and the only way  *)
(* out of an interruption is the late result of the run's own runner        *)
(* (run_once, _renew and the end of _execute).                              *)
RunsMoveOn == [][\A r \in V2Runs: MovesOn(v2run[r].state, v2run'[r].state)]_harborvars

(* Every run that was queued ends: with what Harbor reported, or           *)
(* interrupted if its runner is gone (run_once of whichever runner).       *)
V2RunsEnd ==
  \A r \in V2Runs: v2run[r].state = "queued" ~> v2run[r].state \in Reported \cup {"interrupted"}
=============================================================================
