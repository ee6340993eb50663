------------------------------ MODULE TaskBoard ------------------------------
(***************************************************************************)
(* Where a task stands, as the site derives it from the control plane's    *)
(* record (website_dist/js/lifecycle.js), shows it in the timeline of the  *)
(* task page (timeline.js) and filters and counts it on the board          *)
(* (pages/tasks.js).  The record gains reviews, revisions, agent results   *)
(* and releases in whatever order reviewers and maintainers act.           *)
(***************************************************************************)
EXTENDS Naturals, Sequences, FiniteSets

CONSTANTS Tasks, BoardDomains

ASSUME BoardAssumption == IsFiniteSet(Tasks)

VARIABLES record,   \* the control plane's record of each task
          filters   \* the explorer's filters; "" is All

bvars == <<record, filters>>

Decisions == {"approved", "changes_requested", "rejected"}
RawStatuses == {"pending", "approved", "rejected"}
StatusOrder == <<"pending", "changes_requested", "approved", "rejected",
                 "implementation", "agent_testing", "released">>
Statuses == {StatusOrder[i] : i \in DOMAIN StatusOrder}
ProposalStageStatuses == {"pending", "changes_requested", "approved", "rejected"}

(* Columns of the proposal, of its latest review ("" is none) and of its   *)
(* latest revision.                                                        *)
Record == [status: RawStatuses, domains: SUBSET BoardDomains, decision: Decisions \cup {""},
           revision: BOOLEAN, results: BOOLEAN, release: BOOLEAN]
Filters == [stage: Statuses \cup {""}, domain: BoardDomains \cup {""}]

BoardTypeOK == record \in [Tasks -> Record] /\ filters \in Filters

BoardInit ==
  /\ record \in [Tasks -> [status: RawStatuses, domains: (SUBSET BoardDomains) \ {{}}, decision: {""},
                           revision: {FALSE}, results: {FALSE}, release: {FALSE}]]
  /\ filters = [stage |-> "", domain |-> ""]

(*----------------------------- lifecycle.js -----------------------------*)

(* Later evidence wins; the proposal's own status only without any.        *)
DisplayStatus(r) ==
  CASE r.release -> "released"
    [] ~r.release /\ r.results -> "agent_testing"
    [] ~r.release /\ ~r.results /\ r.revision -> "implementation"
    [] ~r.release /\ ~r.results /\ ~r.revision /\ r.decision # "" -> r.decision
    [] OTHER -> r.status

(* Slip: an approved proposal is still at its review. *)
ReviewedStageIndex(r) ==
  CASE DisplayStatus(r) = "released" -> 4
    [] DisplayStatus(r) = "agent_testing" -> 3
    [] DisplayStatus(r) = "implementation" -> 2
    [] OTHER -> 1

CurrentStageIndex(r) ==
  CASE DisplayStatus(r) = "released" -> 4
    [] DisplayStatus(r) = "agent_testing" -> 3
    [] DisplayStatus(r) \in {"implementation", "approved"} -> 2
    [] OTHER -> 1

IsApproved(r) == DisplayStatus(r) \in {"approved", "implementation", "agent_testing", "released"}

StageState(r, i) ==
  LET status == DisplayStatus(r)
      at == CurrentStageIndex(r)
  IN CASE status = "rejected" -> IF i = 0 THEN "done" ELSE IF i = 1 THEN "stopped" ELSE "upcoming"
       [] status # "rejected" /\ i < at -> "done"
       [] status # "rejected" /\ i > at -> "upcoming"
       [] i = at /\ status = "changes_requested" -> "attention"
       [] i = at /\ status = "released" -> "done"
       [] OTHER -> "current"

Lifecycle(r) == [i \in 0..4 |-> StageState(r, i)]

PublicStageCount == 2
PublicLifecycle(r) ==
  LET last == PublicStageCount - 1
  IN [i \in 0..last |->
       IF i = last /\ CurrentStageIndex(r) >= PublicStageCount /\ StageState(r, i) # "stopped"
       THEN "done" ELSE StageState(r, i)]

(*----------------------------- timeline.js ------------------------------*)

Now == {"current", "attention", "stopped"}

(* The stage named in the head of the timeline.                            *)
HeadStage(r) ==
  LET steps == PublicLifecycle(r)
      now == {i \in DOMAIN steps : steps[i] \in Now}
  IN IF now = {} THEN PublicStageCount ELSE (CHOOSE i \in now : \A j \in now : i <= j) + 1

(*---------------------------- pages/tasks.js ----------------------------*)

StageCount(v) == Cardinality({t \in Tasks : DisplayStatus(record[t]) = v})
StageOptions == {v \in Statuses : v \in ProposalStageStatuses \/ StageCount(v) > 0}
Disabled(v) == StageCount(v) = 0
DomainOptions == UNION {record[t].domains : t \in Tasks}

Matches(r, f) == /\ f.stage # "" => DisplayStatus(r) = f.stage
                 /\ f.domain # "" => f.domain \in r.domains

Visible(f) == {t \in Tasks : Matches(record[t], f)}
Stats == [proposals |-> Cardinality(Tasks), domains |-> Cardinality(DomainOptions),
          approved |-> Cardinality({t \in Tasks : IsApproved(record[t])}),
          pending |-> StageCount("pending")]

SelectStage(v) == /\ v = "" \/ (v \in StageOptions /\ ~Disabled(v))
                  /\ filters' = [filters EXCEPT !.stage = v] /\ UNCHANGED record
SelectDomain(d) == /\ d = "" \/ d \in DomainOptions
                   /\ filters' = [filters EXCEPT !.domain = d] /\ UNCHANGED record
ClearFilters == /\ filters # [stage |-> "", domain |-> ""]
                /\ filters' = [stage |-> "", domain |-> ""] /\ UNCHANGED record

(*------------------------- the control plane ----------------------------*)

(* A review is published: the latest one is on record.                     *)
Reviewed(t, d) == /\ record' = [record EXCEPT ![t].decision = d] /\ UNCHANGED filters

(* A revision is linked; results and releases belong to the latest one.    *)
RevisionLinked(t) ==
  /\ record' = [record EXCEPT ![t].revision = TRUE, ![t].results = FALSE, ![t].release = FALSE]
  /\ UNCHANGED filters
ResultsRecorded(t) == /\ record[t].revision /\ record' = [record EXCEPT ![t].results = TRUE]
                      /\ UNCHANGED filters
ReleasedWith(t) == /\ record[t].revision /\ record' = [record EXCEPT ![t].release = TRUE]
                   /\ UNCHANGED filters

BoardNext ==
  \/ ClearFilters
  \/ \E v \in Statuses \cup {""} : SelectStage(v)
  \/ \E d \in BoardDomains \cup {""} : SelectDomain(d)
  \/ \E t \in Tasks : \/ RevisionLinked(t) \/ ResultsRecorded(t) \/ ReleasedWith(t)
                      \/ \E d \in Decisions : Reviewed(t, d)

(***************************************************************************)
(* The timeline, its head and the badge tell one story: the steps before   *)
(* the one that is now are done and those after it are to come, the review *)
(* is stopped or waits for the author exactly when the badge says so, and  *)
(* the public part is all done exactly for a task that counts as approved, *)
(* in whatever order the evidence came.                                    *)
(***************************************************************************)
TimelineTellsStatus ==
  \A r \in {record[t] : t \in Tasks} :
    LET steps == PublicLifecycle(r)
    IN /\ \A i, j \in DOMAIN steps : i < j /\ steps[i] # "done" => steps[j] = "upcoming"
       /\ (\E i \in DOMAIN steps : steps[i] = "stopped") <=> DisplayStatus(r) = "rejected"
       /\ (\E i \in DOMAIN steps : steps[i] = "attention") <=> DisplayStatus(r) = "changes_requested"
       /\ (\A i \in DOMAIN steps : steps[i] = "done") <=> IsApproved(r)
       /\ steps[HeadStage(r) - 1] \in Now \/ (IsApproved(r) /\ HeadStage(r) = PublicStageCount)

(***************************************************************************)
(* The number beside a stage is what choosing it lists, the stages offered *)
(* cover every task once, and the figures above the board agree with them. *)
(***************************************************************************)
CountsAreWhatIsListed ==
  /\ \A v \in StageOptions : StageCount(v) = Cardinality(Visible([stage |-> v, domain |-> ""]))
  /\ \A t \in Tasks : Cardinality({v \in StageOptions : ~Disabled(v) /\ t \in Visible([stage |-> v, domain |-> ""])}) = 1
  /\ Stats.approved = StageCount("approved") + StageCount("implementation")
                        + StageCount("agent_testing") + StageCount("released")
  /\ Stats.pending = Cardinality(Visible([stage |-> "pending", domain |-> ""]))
=============================================================================
