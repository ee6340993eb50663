---------------------------- MODULE TaskLaunches ----------------------------
(***************************************************************************)
(* From a task to a queued run: the registry of task revisions, execution  *)
(* plans and their approval, the three requests that queue runs under an   *)
(* Idempotency-Key, and the form of the dashboard that posts two of them.  *)
(* A request may be handled any number of times: its sender retries.  What *)
(* becomes of a queued run is RunLifecycle.                                *)
(* CPUs and memory are one size; a size of 0 means undeclared for a task   *)
(* and unknown for a machine.  Agents are "oracle" or another.             *)
(***************************************************************************)
EXTENDS Naturals, FiniteSets, Sequences

CONSTANTS TaskRevisions,
          NoTask,
          Machines,       \* ec2_allowed_instance_types in order, with ec2_instance_resources
          Configs,        \* the configurations asked for
          DefaultVolume,  \* ec2_root_volume_gb
          Declared,       \* [TaskRevisions -> Needs]: what each task.toml says
          Needs,          \* what revisions may be posted with
          MaxLaunches, MaxUpserts  \* bounds: requests, posted revisions

Automatic == "automatic"
Machine == [name: STRING, size: Nat, arm: BOOLEAN]
NeedsOf == [size: Nat, storage: Nat]
Asked == [oracle: BOOLEAN, machine: STRING, volume: Nat]  \* machine: a name or Automatic; volume 0: none given

(* What a machine has is looked up by its name.                            *)
ASSUME LaunchAssumption ==
  /\ IsFiniteSet(TaskRevisions) /\ NoTask \notin TaskRevisions
  /\ Machines \in Seq(Machine)
  /\ \A i, j \in DOMAIN Machines: Machines[i].name = Machines[j].name => Machines[i] = Machines[j]
  /\ Configs \subseteq Asked /\ DefaultVolume \in Nat \ {0}
  /\ Needs \subseteq NeedsOf /\ Declared \in [TaskRevisions -> NeedsOf]
  /\ MaxLaunches \in Nat /\ MaxUpserts \in Nat

VARIABLES revisions,  \* task_revisions: known, and the requirements
          upserts,    \* bound only
          planning,   \* create_plan has read the revision and not written the plan
          plans,      \* execution_plans; `needs`: what they were resolved for
          posted,     \* the requests, in order: the index is the Idempotency-Key
          runs,
          answers     \* the answers that list runs, history

launchvars == <<revisions, upserts, planning, plans, posted, runs, answers>>

Names == {Machines[i].name : i \in DOMAIN Machines}
Resolution == [machine: Names, volume: Nat]
PlanId == [by: 0..MaxLaunches, task: TaskRevisions]
Plan == [id: PlanId, state: {"draft", "approved"}, config: Resolution, needs: NeedsOf]
Run == [key: [by: 1..MaxLaunches, task: TaskRevisions \cup {NoTask}], plan: PlanId, config: Resolution]
Post == [kind: {"run", "manual", "batch"}, plan: 0..MaxLaunches,
         tasks: SUBSET TaskRevisions, config: Asked]

LaunchTypeOK ==
  /\ revisions \in [TaskRevisions -> [known: BOOLEAN, needs: NeedsOf]]
  /\ upserts \in 0..MaxUpserts /\ planning \in Seq(Plan) /\ Len(planning) <= 1
  /\ plans \subseteq Plan /\ posted \in Seq(Post) /\ Len(posted) <= MaxLaunches
  /\ runs \subseteq Run
  /\ answers \subseteq [by: 1..MaxLaunches, runs: SUBSET Run]

LaunchInit ==
  /\ revisions = [t \in TaskRevisions |-> [known |-> FALSE, needs |-> [size |-> 0, storage |-> 0]]]
  /\ upserts = 0 /\ planning = <<>> /\ plans = {} /\ posted = <<>> /\ runs = {} /\ answers = {}

-----------------------------------------------------------------------------
(* upsert_task_revision(s): a revision is found by repository, commit and  *)
(* path; its requirements follow what was posted or read.                  *)
Upsert(needs) ==
  revisions' = [t \in TaskRevisions |-> IF t \in DOMAIN needs THEN [known |-> TRUE, needs |-> needs[t]]
                                        ELSE revisions[t]]

PostRevision(t, needs) ==
  /\ upserts < MaxUpserts /\ upserts' = upserts + 1 /\ Upsert([u \in {t} |-> needs])
  /\ UNCHANGED <<planning, plans, posted, runs, answers>>

SyncRevision(t) == /\ Upsert([u \in {t} |-> Declared[u]])
                   /\ UNCHANGED <<upserts, planning, plans, posted, runs, answers>>

SyncRepository == /\ Upsert(Declared)
                  /\ UNCHANGED <<upserts, planning, plans, posted, runs, answers>>

-----------------------------------------------------------------------------
LargerOf(m, n) == IF m >= n THEN m ELSE n

(* resolve_instance_config without an instance type: the first machine of  *)
(* the list that is x86 and large enough.                                  *)
Candidates(needs) == {i \in DOMAIN Machines: ~Machines[i].arm /\ Machines[i].size >= needs.size}
FirstCandidate(needs) ==
  {Machines[i] : i \in {j \in Candidates(needs): \A k \in Candidates(needs): j <= k}}

(* With one: it must be allowlisted and, as far as is known, large enough. *)
AskedFor(config, needs) ==
  {m \in {Machines[i] : i \in DOMAIN Machines}: m.name = config.machine /\ (m.size = 0 \/ m.size >= needs.size)}

(* Slip: the volume that is asked for is taken. *)
ResolvedAsAsked(config, needs) ==
  {[machine |-> m.name, volume |-> IF config.volume = 0 THEN DefaultVolume ELSE config.volume]
   : m \in IF config.machine = Automatic THEN FirstCandidate(needs) ELSE AskedFor(config, needs)}

(* At most one configuration; none if the request is refused.              *)
Resolved(config, needs) ==
  {[machine |-> m.name,
    volume |-> LargerOf(IF config.volume = 0 THEN DefaultVolume ELSE config.volume, needs.storage)]
   : m \in IF config.machine = Automatic THEN FirstCandidate(needs) ELSE AskedFor(config, needs)}

NewPlan(by, t, state, config) ==
  {[id |-> [by |-> by, task |-> t], state |-> state, config |-> r, needs |-> revisions[t].needs]
   : r \in Resolved(config, revisions[t].needs)}

(* create_plan takes no lock: the revision is read before the plan is      *)
(* written.  One such plan is enough.                                      *)
PlanRead(t, config) ==
  /\ revisions[t].known /\ planning = <<>> /\ \A p \in plans: p.id.by # 0
  /\ \E p \in NewPlan(0, t, "draft", config): planning' = <<p>>
  /\ UNCHANGED <<revisions, upserts, plans, posted, runs, answers>>

PlanWrite == /\ planning # <<>> /\ plans' = plans \cup {planning[1]} /\ planning' = <<>>
             /\ UNCHANGED <<revisions, upserts, posted, runs, answers>>

(* approve_plan: a draft has lock_version 0 and nothing else changes it.   *)
ApprovePlan(p) == /\ p.state = "draft" /\ plans' = (plans \ {p}) \cup {[p EXCEPT !.state = "approved"]}
                  /\ UNCHANGED <<revisions, upserts, planning, posted, runs, answers>>

-----------------------------------------------------------------------------
PostRequest(q) == /\ Len(posted) < MaxLaunches /\ posted' = Append(posted, q)
                  /\ UNCHANGED <<revisions, upserts, planning, plans, runs, answers>>

(* A client asks to run a plan, which has its configuration.               *)
PostRun(p) ==
  PostRequest([kind |-> "run", plan |-> p.id.by, tasks |-> {p.id.task},
               config |-> [oracle |-> TRUE, machine |-> Automatic, volume |-> 0]])

(* The tasks the panel lists, which alone can be selected.                 *)
Listed == {t \in TaskRevisions: revisions[t].known}

(* launch: the selection stays after it, and another click is another      *)
(* request.                                                                *)
Launch(selected, config) ==
  /\ selected # {} /\ selected \subseteq Listed
  /\ PostRequest([kind |-> IF Cardinality(selected) = 1 THEN "manual" ELSE "batch", plan |-> 0,
                  tasks |-> selected, config |-> config])

Answer(i, listed) == answers' = answers \cup {[by |-> i, runs |-> listed]}

QueuedFor(i) == {run \in runs: run.key.by = i}

(* The run of an approved plan, with a snapshot of its configuration.      *)
RunOf(p, i, t) == [key |-> [by |-> i, task |-> t], plan |-> p.id, config |-> p.config]

(* create_run, create_manual_run: a key that was used answers its run.     *)
AnswerAgain(i) ==
  /\ posted[i].kind # "batch" /\ QueuedFor(i) # {} /\ Answer(i, QueuedFor(i))
  /\ UNCHANGED <<revisions, upserts, planning, plans, posted, runs>>

HandleRun(i) ==
  /\ posted[i].kind = "run" /\ QueuedFor(i) = {}
  /\ \E p \in plans:
       /\ p.state = "approved" /\ p.id.by = posted[i].plan /\ p.id.task \in posted[i].tasks
       /\ runs' = runs \cup {RunOf(p, i, NoTask)} /\ Answer(i, {RunOf(p, i, NoTask)})
  /\ UNCHANGED <<revisions, upserts, planning, plans, posted>>

HandleManual(i) ==
  /\ posted[i].kind = "manual" /\ QueuedFor(i) = {}
  /\ \E t \in posted[i].tasks: \E p \in NewPlan(i, t, "approved", posted[i].config):
       /\ plans' = plans \cup {p}
       /\ runs' = runs \cup {RunOf(p, i, NoTask)} /\ Answer(i, {RunOf(p, i, NoTask)})
  /\ UNCHANGED <<revisions, upserts, planning, posted>>

(* create_manual_batch: every task is resolved, also one that has its run  *)
(* already; one that cannot be resolved refuses the batch.                 *)
HandleBatch(i) ==
  LET q == posted[i]
      new == {t \in q.tasks: [by |-> i, task |-> t] \notin {run.key : run \in runs}}
      made == UNION {NewPlan(i, t, "approved", q.config) : t \in new}
      fresh == {RunOf(p, i, p.id.task) : p \in made}
  IN /\ q.kind = "batch" /\ q.config.oracle
     /\ \A t \in q.tasks: NewPlan(i, t, "approved", q.config) # {}
     /\ plans' = plans \cup made /\ runs' = runs \cup fresh /\ Answer(i, QueuedFor(i) \cup fresh)
     /\ UNCHANGED <<revisions, upserts, planning, posted>>

LaunchesNext ==
  \/ SyncRepository \/ PlanWrite
  \/ \E t \in TaskRevisions: SyncRevision(t)
  \/ \E t \in TaskRevisions, n \in Needs: PostRevision(t, n)
  \/ \E t \in TaskRevisions, c \in Configs: PlanRead(t, c)
  \/ \E p \in plans: ApprovePlan(p) \/ PostRun(p)
  \/ \E selected \in SUBSET TaskRevisions, c \in Configs: Launch(selected, c)
  \/ \E i \in DOMAIN posted: AnswerAgain(i) \/ HandleRun(i) \/ HandleManual(i) \/ HandleBatch(i)

LaunchSpec == LaunchInit /\ [][LaunchesNext]_launchvars

-----------------------------------------------------------------------------
(* However often a request is handled, and whatever happens to its tasks   *)
(* in between: every answer lists the same runs, one for each task it      *)
(* named, and a batch is queued as a whole or not at all (create_run,      *)
(* create_manual_run, create_manual_batch).                                *)
RunsAreQueuedOnce ==
  /\ \A a \in answers: /\ a.runs = QueuedFor(a.by) /\ {run.plan.task : run \in a.runs} = posted[a.by].tasks
                       /\ Cardinality(a.runs) = Cardinality(posted[a.by].tasks)
  /\ \A i \in DOMAIN posted: QueuedFor(i) # {} => \E a \in answers: a.by = i

(* A run is of an approved plan and keeps its configuration: an allowlisted *)
(* machine that is, as far as is known, large enough for what the task was *)
(* known to need when the plan was made, and a volume that holds it,       *)
(* whatever was asked for and whatever the task is said to need since.     *)
RunsFitTheirTask ==
  \A run \in runs: \E p \in plans:
    /\ p.id = run.plan /\ p.state = "approved" /\ p.config = run.config
    /\ run.config.volume >= p.needs.storage
    /\ \E i \in DOMAIN Machines: /\ Machines[i].name = run.config.machine
                                 /\ Machines[i].size \notin 1..(p.needs.size - 1)
=============================================================================
