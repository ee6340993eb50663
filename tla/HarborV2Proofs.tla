--------------------------- MODULE HarborV2Proofs ---------------------------
(***************************************************************************)
(* One Harbor invocation per run, for any number of runs, runner processes *)
(* and crashes.  A runner that acts on a run does so alone and for good:   *)
(* nobody claims it again, so whatever its lease does, the invocation, its *)
(* machine and the result that is written later are of that one runner.    *)
(***************************************************************************)
EXTENDS MCControlPanel, TLAPS

(* A run that was never claimed is untouched. *)
Untouched(r) == started[r] = 0 /\ machines[r] = 0

Waiting == \A r \in V2Runs: v2run[r].state \in {"absent", "queued"} => Untouched(r)

(* What a runner that is busy with a run may rely on. *)
Holds(w) ==
  LET r == task[w].run IN
  /\ r \in V2Runs /\ v2run[r].state \in {"running", "interrupted"}
  /\ task[w].pc = "prepare" => Untouched(r)
  /\ task[w].pc = "harbor" => started[r] = 1 /\ machines[r] = 1
  /\ task[w].pc \in {"write", "writing"} /\ task[w].outcome = "succeeded" =>
       r \in clean /\ machines[r] = 0

Holding == \A w \in V2Runners: task[w].pc \in Busy => Holds(w)

Renewing == \A w \in V2Runners: task[w].renewing => task[w].pc \in {"prepare", "harbor"}

Alone ==
  \A w, x \in V2Runners: task[w].pc \in Busy /\ task[x].pc \in Busy /\ task[w].run = task[x].run => w = x

HarborIInv == HarborTypeOK /\ Waiting /\ Holding /\ Renewing /\ Alone /\ OneHarborPerRun

(* The first states are good ones. *)
LEMMA HarborStarts == HarborInit => HarborIInv
<1> SUFFICES ASSUME HarborInit PROVE HarborIInv
  OBVIOUS
<1>1. HarborTypeOK
  BY HarborAssumption DEF HarborInit, HarborTypeOK, V2Row, V2States, Reported, Task, Idle, At, Busy, V2Runs
<1>2. Waiting /\ Holding /\ Renewing /\ Alone /\ OneHarborPerRun
  BY DEF HarborInit, Waiting, Untouched, Holding, Renewing, Alone, OneHarborPerRun, Idle, At, Busy, Reported
<1> QED
  BY <1>1, <1>2 DEF HarborIInv

(* What the step of one runner at its own run leaves to the others. *)
LEMMA OthersHold ==
  ASSUME HarborIInv, NEW w \in V2Runners, task[w].pc \in Busy,
         \A x \in V2Runners \ {w}: task'[x] = task[x],
         \A r \in V2Runs \ {task[w].run}:
           /\ v2run'[r].state = v2run[r].state
           /\ machines'[r] = machines[r] /\ started'[r] = started[r],
         clean \subseteq clean',
         \/ task'[w].pc \in Busy /\ task'[w].run = task[w].run
         \/ task'[w].pc \notin Busy
  PROVE  /\ \A x \in V2Runners \ {w}: task'[x].pc \in Busy => Holds(x)'
         /\ Alone'
<1>1. \A x \in V2Runners \ {w}: task[x].pc \in Busy => task[x].run \in V2Runs \ {task[w].run}
  BY DEF HarborIInv, Alone, Holding, Holds
<1>2. ASSUME NEW x \in V2Runners \ {w}, task'[x].pc \in Busy PROVE Holds(x)'
  <2>1. task'[x] = task[x] /\ Holds(x)
    BY <1>2 DEF HarborIInv, Holding
  <2>2. task[x].run \in V2Runs \ {task[w].run}
    BY <1>1, <1>2, <2>1
  <2> QED
    BY <2>1, <2>2 DEF Holds, Untouched
<1>3. Alone'
  BY DEF HarborIInv, Alone
<1> QED
  BY <1>2, <1>3

(* Every step keeps them good. *)
LEMMA HarborKeeps == HarborIInv /\ [HarborNext]_harborvars => HarborIInv'
<1> SUFFICES ASSUME HarborIInv, [HarborNext]_harborvars PROVE HarborIInv'
  OBVIOUS
<1> USE HarborAssumption
<1>0. HarborTypeOK /\ Waiting /\ Holding /\ Renewing /\ Alone /\ OneHarborPerRun
  BY DEF HarborIInv
<1>1. ASSUME NEW r \in V2Runs, EnqueueRun(r) PROVE HarborIInv'
  <2>1. HarborTypeOK'
    BY <1>0, <1>1 DEF EnqueueRun, HarborTypeOK, V2Row, V2States
  <2>2. \A q \in V2Runs: v2run'[q] = v2run[q] \/ (q = r /\ v2run[q].state = "absent" /\ v2run'[q].state = "queued")
    BY <1>0, <1>1 DEF EnqueueRun, HarborTypeOK, V2Row
  <2>3. Waiting' /\ Holding' /\ Renewing' /\ Alone' /\ OneHarborPerRun'
    BY <1>0, <1>1, <2>2 DEF EnqueueRun, Waiting, Untouched, Holding, Holds, Renewing, Alone, OneHarborPerRun, Reported
  <2> QED
    BY <2>1, <2>3 DEF HarborIInv
<1>2. ASSUME NEW r \in V2Runs, LeaseLapses(r) PROVE HarborIInv'
  <2>1. HarborTypeOK'
    BY <1>0, <1>2 DEF LeaseLapses, HarborTypeOK, V2Row
  <2>2. \A q \in V2Runs: v2run'[q].state = v2run[q].state
    BY <1>0, <1>2 DEF LeaseLapses, HarborTypeOK, V2Row
  <2>3. Waiting' /\ Holding' /\ Renewing' /\ Alone' /\ OneHarborPerRun'
    BY <1>0, <1>2, <2>2 DEF LeaseLapses, Waiting, Untouched, Holding, Holds, Renewing, Alone, OneHarborPerRun
  <2> QED
    BY <2>1, <2>3 DEF HarborIInv
<1> DEFINE Interrupts ==
      \A q \in V2Runs: \/ Swept[q] = v2run[q]
                       \/ v2run[q].state = "running" /\ Swept[q].state = "interrupted"
<1>s. Swept \in [V2Runs -> V2Row] /\ Interrupts
  <2>1. \A q \in V2Runs: v2run[q] \in V2Row /\ Lapsed(v2run[q]) \in V2Row
    BY <1>0 DEF HarborTypeOK, Lapsed, Ended, V2Row, V2States
  <2>2. Swept \in [V2Runs -> V2Row]
    BY <2>1 DEF Swept
  <2>3. Interrupts
    BY <2>1 DEF Swept, V2Expired, Lapsed, Ended
  <2> QED
    BY <2>2, <2>3
<1>3. ASSUME NEW w \in V2Runners, SweepOnly(w) PROVE HarborIInv'
  <2>1. HarborTypeOK'
    BY <1>0, <1>3, <1>s DEF SweepOnly, HarborTypeOK
  <2>2. Waiting' /\ Holding' /\ Renewing' /\ Alone' /\ OneHarborPerRun'
    BY <1>0, <1>3, <1>s DEF SweepOnly, Waiting, Untouched, Holding, Holds, Renewing, Alone, OneHarborPerRun, Reported
  <2> QED
    BY <2>1, <2>2 DEF HarborIInv
<1>4. ASSUME NEW w \in V2Runners, NEW r \in V2Runs, ClaimRun(w, r) PROVE HarborIInv'
  <2>1. HarborTypeOK'
    <3>1. [state |-> "running", owner |-> w, lease |-> "valid"] \in V2Row
      BY DEF V2Row, V2States
    <3>2. v2run' \in [V2Runs -> V2Row]
      BY <1>4, <1>s, <3>1 DEF ClaimRun
    <3>3. At("prepare", r) \in Task
      BY DEF At, Task, Busy, V2Runs, Reported
    <3>4. task' \in [V2Runners -> Task]
      BY <1>0, <1>4, <3>3 DEF ClaimRun, HarborTypeOK
    <3> QED
      BY <1>0, <1>4, <3>2, <3>4 DEF ClaimRun, HarborTypeOK
  <2>2. /\ v2run'[r].state = "running" /\ \A q \in V2Runs \ {r}: v2run'[q] = Swept[q]
        /\ task'[w].pc = "prepare" /\ task'[w].run = r /\ ~task'[w].renewing
        /\ \A x \in V2Runners \ {w}: task'[x] = task[x]
    BY <1>0, <1>4, <1>s DEF ClaimRun, HarborTypeOK, Task, Idle, At
  <2>3. Untouched(r) /\ \A x \in V2Runners: task[x].pc \in Busy => task[x].run # r
    BY <1>0, <1>4 DEF ClaimRun, Waiting, Holding, Holds
  <2>4. Waiting' /\ OneHarborPerRun' /\ Renewing' /\ Alone'
    BY <1>0, <1>4, <1>s, <2>2, <2>3 DEF ClaimRun, Waiting, Untouched, Renewing, Alone, OneHarborPerRun, Reported
  <2>5. Holding'
    BY <1>0, <1>4, <1>s, <2>2, <2>3 DEF ClaimRun, Holding, Holds, Untouched, Busy
  <2> QED
    BY <2>1, <2>4, <2>5 DEF HarborIInv
<1>5. ASSUME NEW w \in V2Runners, StartHarbor(w) PROVE HarborIInv'
  <2> DEFINE r == task[w].run
  <2>1. task[w].pc \in Busy /\ Holds(w) /\ Untouched(r) /\ r \in V2Runs
    BY <1>0, <1>5 DEF StartHarbor, Holding, Holds, Busy
  <2>2. /\ task'[w].pc = "harbor" /\ task'[w].run = r /\ \A x \in V2Runners \ {w}: task'[x] = task[x]
        /\ task'[w].renewing = task[w].renewing
        /\ machines'[r] = 1 /\ started'[r] = 1
        /\ \A q \in V2Runs \ {r}: machines'[q] = machines[q] /\ started'[q] = started[q]
    BY <1>0, <1>5, <2>1 DEF StartHarbor, HarborTypeOK, Task, Untouched
  <2>3. HarborTypeOK'
    <3>1. task' \in [V2Runners -> Task]
      BY <1>0, <1>5 DEF StartHarbor, HarborTypeOK, Task, Busy
    <3>2. machines' \in [V2Runs -> Nat] /\ started' \in [V2Runs -> Nat]
      BY <1>0, <1>5, <2>1 DEF StartHarbor, HarborTypeOK
    <3> QED
      BY <1>0, <1>5, <3>1, <3>2 DEF StartHarbor, HarborTypeOK
  <2>4. Waiting' /\ OneHarborPerRun' /\ Renewing'
    BY <1>0, <1>5, <2>1, <2>2 DEF StartHarbor, Waiting, Untouched, Renewing, OneHarborPerRun, Holds, Reported
  <2>5. Holding' /\ Alone'
    <3>1. /\ \A x \in V2Runners \ {w}: task'[x].pc \in Busy => Holds(x)'
          /\ Alone'
      BY <1>5, <2>1, <2>2, OthersHold DEF StartHarbor, Busy
    <3>2. Holds(w)'
      BY <1>5, <2>1, <2>2 DEF StartHarbor, Holds
    <3> QED
      BY <3>1, <3>2 DEF Holding
  <2> QED
    BY <2>3, <2>4, <2>5 DEF HarborIInv
<1>6. ASSUME NEW w \in V2Runners, PrepareFails(w) PROVE HarborIInv'
  <2> DEFINE r == task[w].run
  <2>1. task[w].pc \in Busy /\ Holds(w) /\ Untouched(r) /\ r \in V2Runs
    BY <1>0, <1>6 DEF PrepareFails, Holding, Holds, Busy
  <2>2. /\ task'[w].pc = "write" /\ task'[w].run = r /\ \A x \in V2Runners \ {w}: task'[x] = task[x]
        /\ ~task'[w].renewing /\ task'[w].outcome = "failed"
    BY <1>0, <1>6 DEF PrepareFails, Outcome, HarborTypeOK, Task
  <2>3. HarborTypeOK'
    <3>1. ASSUME NEW state \in Reported, Outcome(w, state) PROVE task' \in [V2Runners -> Task]
      <4>1. task' = [task EXCEPT ![w] = [task[w] EXCEPT !.pc = "write", !.outcome = state, !.renewing = FALSE]]
        BY <1>0, <3>1 DEF Outcome, HarborTypeOK, Task
      <4>2. [task[w] EXCEPT !.pc = "write", !.outcome = state, !.renewing = FALSE] \in Task
        BY <1>0 DEF HarborTypeOK, Task, Busy
      <4> QED
        BY <1>0, <4>1, <4>2 DEF HarborTypeOK
    <3>2. task' \in [V2Runners -> Task]
      BY <1>6, <3>1 DEF PrepareFails, Reported
    <3> QED
      BY <1>0, <1>6, <3>2 DEF PrepareFails, HarborTypeOK
  <2>4. Waiting' /\ OneHarborPerRun' /\ Renewing'
    BY <1>0, <1>6, <2>2 DEF PrepareFails, Waiting, Untouched, Renewing, OneHarborPerRun
  <2>5. Holding' /\ Alone'
    <3>1. /\ \A x \in V2Runners \ {w}: task'[x].pc \in Busy => Holds(x)'
          /\ Alone'
      BY <1>6, <2>1, <2>2, OthersHold DEF PrepareFails, Busy
    <3>2. Holds(w)'
      BY <1>6, <2>1, <2>2 DEF PrepareFails, Holds, Untouched
    <3> QED
      BY <3>1, <3>2 DEF Holding
  <2> QED
    BY <2>3, <2>4, <2>5 DEF HarborIInv
<1>7. ASSUME NEW w \in V2Runners, HarborExits(w) PROVE HarborIInv'
  <2> DEFINE r == task[w].run
  <2>0. PICK complete \in BOOLEAN, gone \in BOOLEAN:
            /\ complete => gone
            /\ Outcome(w, TerminalState(complete))
            /\ machines' = IF gone THEN [machines EXCEPT ![r] = @ - 1] ELSE machines
            /\ clean' = IF complete THEN clean \cup {r} ELSE clean
    BY <1>7 DEF HarborExits
  <2>1. /\ task[w].pc \in Busy /\ Holds(w) /\ r \in V2Runs
        /\ machines[r] = 1 /\ started[r] = 1 /\ v2run[r].state \in {"running", "interrupted"}
    BY <1>0, <1>7 DEF HarborExits, Holding, Holds, Busy
  <2>2. /\ task'[w].pc = "write" /\ task'[w].run = r /\ \A x \in V2Runners \ {w}: task'[x] = task[x]
        /\ ~task'[w].renewing /\ (task'[w].outcome = "succeeded" => r \in clean' /\ machines'[r] = 0)
        /\ machines'[r] \in {0, 1} /\ \A q \in V2Runs \ {r}: machines'[q] = machines[q]
        /\ clean \subseteq clean'
    BY <1>0, <1>7, <2>0, <2>1 DEF HarborExits, Outcome, HarborTypeOK, Task, TerminalState
  <2>3. HarborTypeOK'
    <3>1. TerminalState(complete) \in Reported
      BY DEF TerminalState, Reported
    <3>2. task' \in [V2Runners -> Task]
      BY <1>0, <2>0, <3>1, ZenonT(60) DEF Outcome, HarborTypeOK, Task, Busy
    <3>3. machines' \in [V2Runs -> Nat] /\ clean' \subseteq V2Runs
      <4>1. machines[r] - 1 \in Nat
        BY <2>1
      <4>2. machines' = [machines EXCEPT ![r] = machines[r] - 1] \/ machines' = machines
        BY <2>0
      <4> HIDE DEF r
      <4> QED
        BY <1>0, <2>0, <2>1, <4>1, <4>2 DEF HarborTypeOK
    <3> QED
      BY <1>0, <1>7, <3>2, <3>3 DEF HarborExits, HarborTypeOK
  <2>4. Waiting' /\ OneHarborPerRun' /\ Renewing'
    BY <1>0, <1>7, <2>1, <2>2 DEF HarborExits, Waiting, Untouched, Renewing, OneHarborPerRun, Reported
  <2>5. Holding' /\ Alone'
    <3>1. /\ \A x \in V2Runners \ {w}: task'[x].pc \in Busy => Holds(x)'
          /\ Alone'
      BY <1>7, <2>1, <2>2, OthersHold DEF HarborExits, Busy
    <3>2. Holds(w)'
      BY <1>7, <2>1, <2>2 DEF HarborExits, Holds
    <3> QED
      BY <3>1, <3>2 DEF Holding
  <2> QED
    BY <2>3, <2>4, <2>5 DEF HarborIInv
<1> DEFINE Renewed == /\ \A x \in V2Runners: /\ task'[x].pc = task[x].pc /\ task'[x].run = task[x].run
                                               /\ task'[x].outcome = task[x].outcome
                      /\ \A q \in V2Runs: v2run'[q].state = v2run[q].state
                      /\ UNCHANGED <<machines, started, clean>>
<1>8. ASSUME Renewed PROVE Waiting' /\ Holding' /\ Alone' /\ OneHarborPerRun'
  BY <1>0, <1>8 DEF Waiting, Untouched, Holding, Holds, Alone, OneHarborPerRun
<1>a. ASSUME NEW w \in V2Runners, RenewRead(w) PROVE HarborIInv'
  <2>1. Renewed
    BY <1>0, <1>a DEF RenewRead, HarborTypeOK, Task
  <2>2. HarborTypeOK'
    <3>1. task' \in [V2Runners -> Task]
      BY <1>0, <1>a DEF RenewRead, HarborTypeOK, Task
    <3> QED
      BY <1>0, <1>a, <3>1 DEF RenewRead, HarborTypeOK
  <2>3. Renewing'
    BY <1>0, <1>a DEF RenewRead, HarborTypeOK, Task, Renewing
  <2> QED
    BY <1>8, <2>1, <2>2, <2>3 DEF HarborIInv
<1>b. ASSUME NEW w \in V2Runners, RenewWrite(w) PROVE HarborIInv'
  <2>1. Renewed
    BY <1>0, <1>b DEF RenewWrite, HarborTypeOK, Task, V2Row
  <2>2. HarborTypeOK'
    <3>1. task' \in [V2Runners -> Task]
      BY <1>0, <1>b DEF RenewWrite, HarborTypeOK, Task
    <3>2. v2run' \in [V2Runs -> V2Row]
      BY <1>0, <1>b DEF RenewWrite, HarborTypeOK, V2Row
    <3> QED
      BY <1>0, <1>b, <3>1, <3>2 DEF RenewWrite, HarborTypeOK
  <2>3. Renewing'
    BY <1>0, <1>b DEF RenewWrite, HarborTypeOK, Task, Renewing
  <2> QED
    BY <1>8, <2>1, <2>2, <2>3 DEF HarborIInv
<1>9. ASSUME NEW w \in V2Runners, FinalRead(w) PROVE HarborIInv'
  <2>1. \/ task'[w].pc = "writing" /\ task'[w].run = task[w].run /\ task'[w].outcome = task[w].outcome
           /\ task'[w].renewing = task[w].renewing
        \/ task'[w] = Idle
    BY <1>0, <1>9 DEF FinalRead, HarborTypeOK, Task
  <2>2. \A x \in V2Runners \ {w}: task'[x] = task[x]
    BY <1>0, <1>9 DEF FinalRead, HarborTypeOK
  <2>3. HarborTypeOK'
    <3>1. Idle \in Task
      BY HarborAssumption DEF Idle, At, Task, V2Runs, Reported
    <3>2. [task EXCEPT ![w].pc = "writing"] \in [V2Runners -> Task]
      BY <1>0 DEF HarborTypeOK, Task, Busy
    <3>3. [task EXCEPT ![w] = Idle] \in [V2Runners -> Task]
      BY <1>0, <3>1 DEF HarborTypeOK
    <3> QED
      BY <1>0, <1>9, <3>2, <3>3 DEF FinalRead, HarborTypeOK
  <2>4. task[w].pc = "write" /\ task[w].pc \in Busy /\ Holds(w) /\ ~task[w].renewing
    BY <1>0, <1>9 DEF FinalRead, Holding, Busy, Renewing
  <2>5. Holding' /\ Alone'
    <3>1. /\ \A x \in V2Runners \ {w}: task'[x].pc \in Busy => Holds(x)'
          /\ Alone'
      BY <1>9, <2>1, <2>2, <2>4, OthersHold DEF FinalRead, Busy, Idle, At
    <3>2. task'[w].pc \in Busy => Holds(w)'
      BY <1>9, <2>1, <2>4 DEF FinalRead, Holds, Busy, Idle, At
    <3> QED
      BY <3>1, <3>2 DEF Holding
  <2>6. Waiting' /\ OneHarborPerRun'
    BY <1>0, <1>9 DEF FinalRead, Waiting, Untouched, OneHarborPerRun
  <2>7. Renewing'
    BY <1>0, <2>1, <2>2, <2>4 DEF Renewing, Idle, At
  <2> QED
    BY <2>3, <2>5, <2>6, <2>7 DEF HarborIInv
<1>10. ASSUME NEW w \in V2Runners, FinalWrite(w) PROVE HarborIInv'
  <2> DEFINE r == task[w].run
  <2>1. /\ task[w].pc = "writing" /\ task[w].pc \in Busy /\ Holds(w) /\ r \in V2Runs
        /\ task[w].outcome \in Reported
    BY <1>0, <1>10 DEF FinalWrite, Holding, Holds, Busy, HarborTypeOK, Task
  <2>2. /\ task'[w] = Idle /\ \A x \in V2Runners \ {w}: task'[x] = task[x]
        /\ v2run'[r].state = task[w].outcome /\ \A q \in V2Runs \ {r}: v2run'[q] = v2run[q]
    BY <1>0, <1>10, <2>1 DEF FinalWrite, HarborTypeOK, Ended
  <2>3. HarborTypeOK'
    <3>1. Ended(task[w].outcome) \in V2Row
      BY <2>1 DEF Ended, V2Row, V2States
    <3>2. Idle \in Task
      BY HarborAssumption DEF Idle, At, Task, V2Runs, Reported
    <3>3. v2run' \in [V2Runs -> V2Row] /\ task' \in [V2Runners -> Task]
      BY <1>0, <1>10, <3>1, <3>2 DEF FinalWrite, HarborTypeOK
    <3> QED
      BY <1>0, <1>10, <3>3 DEF FinalWrite, HarborTypeOK
  <2>4. Holding' /\ Alone'
    <3>1. /\ \A x \in V2Runners \ {w}: task'[x].pc \in Busy => Holds(x)'
          /\ Alone'
      BY <1>10, <2>1, <2>2, OthersHold DEF FinalWrite, Busy, Idle, At
    <3> QED
      BY <2>2, <3>1 DEF Holding, Idle, At, Busy
  <2>5. Waiting' /\ OneHarborPerRun'
    BY <1>0, <1>10, <2>1, <2>2 DEF FinalWrite, Waiting, Untouched, OneHarborPerRun, Holds, Reported
  <2>6. Renewing'
    BY <1>0, <2>2 DEF Renewing, Idle, At
  <2> QED
    BY <2>3, <2>4, <2>5, <2>6 DEF HarborIInv
<1>11. ASSUME NEW w \in V2Runners, CrashV2(w) PROVE HarborIInv'
  <2>1. /\ \A q \in V2Runs: v2run'[q].state = v2run[q].state
        /\ task'[w].pc = "down" /\ ~task'[w].renewing /\ \A x \in V2Runners \ {w}: task'[x] = task[x]
        /\ UNCHANGED <<machines, started, clean>>
    BY <1>0, <1>11 DEF CrashV2, HarborTypeOK, Idle, At, V2Row
  <2>2. HarborTypeOK'
    <3>1. At("down", 0) \in Task
      BY HarborAssumption DEF At, Task, Reported
    <3>2. task' \in [V2Runners -> Task]
      BY <1>0, <1>11, <3>1 DEF CrashV2, HarborTypeOK
    <3>3. v2run' \in [V2Runs -> V2Row]
      BY <1>0, <1>11 DEF CrashV2, HarborTypeOK, V2Row
    <3>4. v2crashes' \in 0..MaxV2Crashes
      BY <1>0, <1>11 DEF CrashV2, HarborTypeOK
    <3> QED
      BY <1>0, <1>11, <3>2, <3>3, <3>4 DEF CrashV2, HarborTypeOK
  <2>3. Waiting' /\ Holding' /\ Renewing' /\ Alone' /\ OneHarborPerRun'
    BY <1>0, <2>1 DEF Waiting, Untouched, Holding, Holds, Renewing, Alone, OneHarborPerRun, Busy
  <2> QED
    BY <2>2, <2>3 DEF HarborIInv
<1>12. ASSUME NEW w \in V2Runners, RestartV2(w) PROVE HarborIInv'
  <2>1. /\ task'[w] = Idle /\ \A x \in V2Runners \ {w}: task'[x] = task[x]
        /\ UNCHANGED <<v2run, machines, started, clean>>
    BY <1>0, <1>12 DEF RestartV2, HarborTypeOK
  <2>2. HarborTypeOK'
    BY <1>0, <1>12 DEF RestartV2, HarborTypeOK, Task, Idle, At, V2Runs, Reported
  <2>3. Waiting' /\ Holding' /\ Renewing' /\ Alone' /\ OneHarborPerRun'
    BY <1>0, <2>1 DEF Waiting, Untouched, Holding, Holds, Renewing, Alone, OneHarborPerRun, Busy, Idle, At
  <2> QED
    BY <2>2, <2>3 DEF HarborIInv
<1>13. CASE UNCHANGED harborvars
  BY <1>0, <1>13 DEF harborvars, HarborIInv, HarborTypeOK, Waiting, Untouched, Holding, Holds, Renewing, Alone,
     OneHarborPerRun
<1> QED
  BY <1>1, <1>2, <1>3, <1>4, <1>5, <1>6, <1>7, <1>a, <1>b, <1>9, <1>10, <1>11, <1>12, <1>13
  DEF HarborNext, RunOnce, Execute, Heartbeat

(* Whatever lapses, is renewed late or crashes, a v2 run has one Harbor     *)
(* invocation and one machine at most, and it says "succeeded" only of      *)
(* complete trials, with no machine left.                                   *)
THEOREM HarborRunsOnce == HarborSpec => []OneHarborPerRun
<1>1. HarborIInv => OneHarborPerRun
  BY DEF HarborIInv
<1> QED
  BY HarborStarts, HarborKeeps, <1>1, PTL DEF HarborSpec

(* What a step does to the state of a run.                                  *)
StatesMoveOn == \A r \in V2Runs: MovesOn(v2run[r].state, v2run'[r].state)

(* Only the write of a result decides from what was read before: that the   *)
(* run is still its runner's to end, and has no result yet, is Holding.     *)
LEMMA HarborMoves == HarborIInv /\ HarborNext => StatesMoveOn
<1> SUFFICES ASSUME HarborIInv, HarborNext PROVE StatesMoveOn
  OBVIOUS
<1>0. HarborTypeOK /\ Holding /\ Renewing
  BY DEF HarborIInv
<1>1. v2run \in [V2Runs -> V2Row]
  BY <1>0 DEF HarborTypeOK
<1>2. \A r \in V2Runs:
        Swept[r] = v2run[r] \/ (v2run[r].state = "running" /\ Swept[r].state = "interrupted")
  BY DEF Swept, V2Expired, Lapsed, Ended
<1>3. ASSUME \A r \in V2Runs: v2run'[r].state = v2run[r].state PROVE StatesMoveOn
  BY <1>3 DEF StatesMoveOn, MovesOn
<1>4. ASSUME NEW r \in V2Runs, EnqueueRun(r) PROVE StatesMoveOn
  BY <1>1, <1>4 DEF EnqueueRun, V2Row, StatesMoveOn, MovesOn
<1>5. ASSUME NEW r \in V2Runs, LeaseLapses(r) PROVE StatesMoveOn
  BY <1>1, <1>3, <1>5 DEF LeaseLapses, V2Row
<1>6. ASSUME NEW w \in V2Runners, RunOnce(w) PROVE StatesMoveOn
  <2>1. CASE SweepOnly(w)
    BY <1>2, <2>1 DEF SweepOnly, StatesMoveOn, MovesOn
  <2>2. ASSUME NEW r \in V2Runs, ClaimRun(w, r) PROVE StatesMoveOn
    <3>1. v2run[r].state = "queued" /\ v2run'[r].state = "running"
      BY <2>2 DEF ClaimRun, Swept
    <3>2. \A q \in V2Runs \ {r}: v2run'[q] = Swept[q]
      BY <2>2 DEF ClaimRun, Swept
    <3> QED
      BY <1>2, <3>1, <3>2 DEF StatesMoveOn, MovesOn
  <2> QED
    BY <1>6, <2>1, <2>2 DEF RunOnce
<1>7. ASSUME NEW w \in V2Runners, FinalWrite(w) PROVE StatesMoveOn
  <2>1. /\ task[w].run \in V2Runs /\ task[w].outcome \in Reported
        /\ v2run[task[w].run].state \in {"running", "interrupted"}
    BY <1>0, <1>7 DEF FinalWrite, HarborTypeOK, Task, Holding, Holds, Busy
  <2>2. v2run' = [v2run EXCEPT ![task[w].run] = Ended(task[w].outcome)]
    BY <1>7 DEF FinalWrite
  <2>3. \A q \in V2Runs \ {task[w].run}: v2run'[q] = v2run[q]
    BY <1>1, <2>2
  <2>4. v2run'[task[w].run].state = task[w].outcome
    BY <1>1, <2>1, <2>2 DEF Ended
  <2> QED
    BY <2>1, <2>3, <2>4 DEF StatesMoveOn, MovesOn
<1>8. ASSUME NEW w \in V2Runners, RenewWrite(w) PROVE StatesMoveOn
  BY <1>1, <1>3, <1>8 DEF RenewWrite, V2Row
<1>9. ASSUME NEW w \in V2Runners, CrashV2(w) PROVE StatesMoveOn
  BY <1>1, <1>3, <1>9 DEF CrashV2, V2Row
<1>10. CASE UNCHANGED v2run
  BY <1>3, <1>10
<1> QED
  BY <1>4, <1>5, <1>6, <1>7, <1>8, <1>9, <1>10
     DEF HarborNext, Execute, Heartbeat, StartHarbor, PrepareFails, HarborExits, FinalRead, RenewRead, RestartV2

(* A reported result stands and a claimed run is never queued again, for    *)
(* any number of runs, runners and crashes (run_once, _execute).            *)
THEOREM ResultsStand == HarborSpec => RunsMoveOn
<1>1. HarborIInv /\ [HarborNext]_harborvars => [StatesMoveOn]_harborvars
  BY HarborMoves
<1> QED
  BY <1>1, HarborStarts, HarborKeeps, PTL DEF HarborSpec, RunsMoveOn, StatesMoveOn

(* The control plane implements the specification of each of its ways to    *)
(* run benchmarks: what is proved of v1's job queue or of Harbor v2 holds   *)
(* of the composed system the liveness properties are checked on.           *)
THEOREM ControlPanelKeepsBoth == LiveSpec => Spec /\ HarborSpec
<1>1. LiveInit => Init /\ HarborInit
  BY DEF LiveInit
<1>2. [V1Step \/ V2Step]_<<version, vars, harborvars>> => [Next]_vars /\ [HarborNext]_harborvars
  BY DEF V1Step, V2Step
<1> QED
  BY <1>1, <1>2, PTL DEF LiveSpec, Spec, HarborSpec

(* In the composed system as well, a v2 run has one invocation and moves on.*)
THEOREM OneHarborInEither == LiveSpec => []OneHarborPerRun /\ RunsMoveOn
<1> QED
  BY ControlPanelKeepsBoth, HarborRunsOnce, ResultsStand, PTL
=============================================================================
