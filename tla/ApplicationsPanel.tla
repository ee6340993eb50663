-------------------------- MODULE ApplicationsPanel --------------------------
(***************************************************************************)
(* The dashboard's panel of reviewer applications                          *)
(* (ReviewerApplicationsPanel and manageReviewer of App.tsx, the PATCH of  *)
(* admin_routes.py): a queue with a filter, one application open, and a    *)
(* draft of its details that an effect replaces when another application   *)
(* is shown, which reloads bring about as well as clicks.  GitHub login    *)
(* and notes are one text; a text is tagged with the application it was    *)
(* typed for.  What a decision does to proposals is ReviewerAssignment.    *)
(***************************************************************************)
EXTENDS Naturals, Sequences

CONSTANTS MaxApplicants, MaxDetails, MaxSaves, MaxFetches, MaxOthers  \* bounds: applications, texts,
          \* decisions, reloads, and changes by other administrators

ASSUME PanelAssumption == /\ MaxApplicants \in Nat /\ MaxDetails \in Nat /\ MaxSaves \in Nat
                          /\ MaxFetches \in Nat /\ MaxOthers \in Nat

VARIABLES dossiers,  \* reviewer_applications in the order of created_at
          queue,     \* the list last loaded
          lists,     \* lists read by loadOps and not arrived
          filter, picked,  \* the panel's filter and selectedId (0: null)
          draft,     \* github, notes
          op,        \* the operation in flight: sent, done at the server, or reloading
          tally      \* bounds only

panelvars == <<dossiers, queue, lists, filter, picked, draft, op, tally>>

Decisions == {"pending", "approved", "rejected"}
Details == [of: 0..MaxApplicants, n: 0..MaxDetails]
Dossier == [status: Decisions, details: Details]
Empty == [of |-> 0, n |-> 0]
NoOp == [phase |-> "none", app |-> 0, status |-> "same", details |-> Empty]

PanelTypeOK ==
  /\ dossiers \in Seq(Dossier) /\ Len(dossiers) <= MaxApplicants
  /\ queue \in Seq(Dossier) /\ lists \subseteq Seq(Dossier)
  /\ filter \in Decisions \cup {"all"} /\ picked \in 0..MaxApplicants /\ draft \in Details
  /\ op \in [phase: {"none", "sent", "done", "reloading"}, app: 0..MaxApplicants,
             status: Decisions \cup {"same"}, details: Details]
  /\ tally \in [saves: 0..MaxSaves, fetches: 0..MaxFetches, others: 0..MaxOthers]

PanelInit ==
  /\ dossiers = <<>> /\ queue = <<>> /\ lists = {} /\ filter = "all" /\ picked = 0
  /\ draft = Empty /\ op = NoOp /\ tally = [saves |-> 0, fetches |-> 0, others |-> 0]

-----------------------------------------------------------------------------
(* The queue shows the newest first.                                       *)
Filtered(list, f) == {i \in DOMAIN list: f = "all" \/ list[i].status = f}

(* `selected`: the one that was picked, else the first of the queue, or 0. *)
Open(list, f, pick) ==
  IF pick \in Filtered(list, f) THEN pick
  ELSE IF Filtered(list, f) = {} THEN 0
  ELSE CHOOSE i \in Filtered(list, f): \A j \in Filtered(list, f): j <= i

Selected == Open(queue, filter, picked)

DetailsOf(list, i) == IF i = 0 THEN Empty ELSE list[i].details

(* Slip: the effect depends on the texts alone. *)
OtherTexts(i, old, j, new) == old.n # new.n

(* The dependencies of the effect: another application, or other details.  *)
Differs(i, old, j, new) == i # j \/ old.n # new.n

Show(list, f, pick) ==
  LET j == Open(list, f, pick) IN
  /\ queue' = list /\ filter' = f /\ picked' = pick
  /\ draft' = IF Differs(Selected, DetailsOf(queue, Selected), j, DetailsOf(list, j))
              THEN DetailsOf(list, j) ELSE draft

SetFilter(f) == Show(queue, f, picked) /\ UNCHANGED <<dossiers, lists, op, tally>>

Pick(i) == /\ i \in Filtered(queue, filter) /\ Show(queue, filter, i)
           /\ UNCHANGED <<dossiers, lists, op, tally>>

(* The fields stay enabled while an operation is running.                  *)
TypeDetails(n) == /\ Selected # 0 /\ draft' = [of |-> Selected, n |-> n]
                  /\ UNCHANGED <<dossiers, queue, lists, filter, picked, op, tally>>

-----------------------------------------------------------------------------
(* loadOps: the list is read at the server and arrives later, or never.    *)
ReadList == /\ tally.fetches < MaxFetches /\ tally' = [tally EXCEPT !.fetches = @ + 1]
            /\ lists' = lists \cup {dossiers}
            /\ UNCHANGED <<dossiers, queue, filter, picked, draft, op>>

ListArrives(list) == /\ Show(list, filter, picked) /\ lists' = lists \ {list}
                     /\ UNCHANGED <<dossiers, op, tally>>

(* The four buttons (manageReviewer): disabled while one is at work;       *)
(* rejection needs notes, and only a decision can be returned to pending.  *)
Update(status) ==
  /\ Selected # 0 /\ op.phase = "none" /\ tally.saves < MaxSaves
  /\ status = "rejected" => draft.n # 0
  /\ status = "pending" => queue[Selected].status # "pending"
  /\ op' = [phase |-> "sent", app |-> Selected, status |-> status, details |-> draft]
  /\ tally' = [tally EXCEPT !.saves = @ + 1]
  /\ UNCHANGED <<dossiers, queue, lists, filter, picked, draft>>

(* update_reviewer_application: every posted field is written.             *)
Patched(app, status, details) ==
  [dossiers EXCEPT ![app] = [status |-> IF status = "same" THEN @.status ELSE status, details |-> details]]

ServerUpdates == /\ op.phase = "sent" /\ op' = [op EXCEPT !.phase = "done"]
                 /\ dossiers' = Patched(op.app, op.status, op.details)
                 /\ UNCHANGED <<queue, lists, filter, picked, draft, tally>>

(* The page waits for the reload before the buttons are enabled again.     *)
UpdateAnswers == /\ op.phase = "done" /\ tally.fetches < MaxFetches
                 /\ tally' = [tally EXCEPT !.fetches = @ + 1] /\ lists' = lists \cup {dossiers}
                 /\ op' = [op EXCEPT !.phase = "reloading"]
                 /\ UNCHANGED <<dossiers, queue, filter, picked, draft>>

UpdateReloaded == /\ op.phase = "reloading" /\ op' = NoOp
                  /\ \/ \E list \in lists: Show(list, filter, picked) /\ lists' = lists \ {list}
                     \/ UNCHANGED <<lists, queue, filter, picked, draft>>
                  /\ UNCHANGED <<dossiers, tally>>

UpdateFails == /\ op.phase \in {"sent", "done"} /\ op' = NoOp
               /\ UNCHANGED <<dossiers, queue, lists, filter, picked, draft, tally>>

-----------------------------------------------------------------------------
(* create_reviewer_application, and another administrator's panel.         *)
SomebodyApplies ==
  /\ Len(dossiers) < MaxApplicants
  /\ dossiers' = Append(dossiers, [status |-> "pending", details |-> Empty])
  /\ UNCHANGED <<queue, lists, filter, picked, draft, op, tally>>

OtherUpdates(i, status, n) ==
  /\ tally.others < MaxOthers /\ tally' = [tally EXCEPT !.others = @ + 1]
  /\ dossiers' = Patched(i, status, [of |-> i, n |-> n])
  /\ UNCHANGED <<queue, lists, filter, picked, draft, op>>

PanelNext ==
  \/ ReadList \/ ServerUpdates \/ UpdateAnswers \/ UpdateReloaded \/ UpdateFails \/ SomebodyApplies
  \/ \E f \in Decisions \cup {"all"}: SetFilter(f)
  \/ \E i \in DOMAIN queue: Pick(i)
  \/ \E n \in 0..MaxDetails: TypeDetails(n)
  \/ \E list \in lists: ListArrives(list)
  \/ \E s \in Decisions \cup {"same"}: Update(s)
  \/ \E i \in DOMAIN dossiers, s \in Decisions, n \in 1..MaxDetails: OtherUpdates(i, s, n)

PanelSpec == PanelInit /\ [][PanelNext]_panelvars

-----------------------------------------------------------------------------
(* What is saved with an application, on its way or in the draft beside it *)
(* was typed for that applicant, whichever application a reload, a filter  *)
(* or a decision has put into its place on the screen.                     *)
DecisionsAreForTheirApplicant ==
  /\ draft.of \in {0, Selected}
  /\ op.details.of \in {0, op.app}
  /\ \A i \in DOMAIN dossiers: dossiers[i].details.of \in {0, i}
==============================================================================
