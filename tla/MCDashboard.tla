----------------------------- MODULE MCDashboard -----------------------------
(***************************************************************************)
(* The dashboard with the handlers its panels call, one behaviour for the  *)
(* shell and one for each panel with state of its own: they share no       *)
(* state, so a behaviour uses one and the rest stays as it starts.         *)
(***************************************************************************)
EXTENDS DashboardShell, Invitations, MailComposer, TaskLaunches, ApplicationsPanel, TLC

(* Two tasks, one that fits every x86 machine and one that needs a large   *)
(* one and more volume than is asked for; an ARM machine comes first.      *)
CONSTANTS k1, k2
AllowedMachines == <<[name |-> "t4g", size |-> 3, arm |-> TRUE], [name |-> "small", size |-> 1, arm |-> FALSE],
                     [name |-> "large", size |-> 2, arm |-> FALSE]>>
AskedConfigs == {[oracle |-> TRUE, machine |-> Automatic, volume |-> 1], [oracle |-> TRUE, machine |-> "small", volume |-> 0],
                 [oracle |-> FALSE, machine |-> "t4g", volume |-> 0]}
DeclaredNeeds == k1 :> [size |-> 1, storage |-> 0] @@ k2 :> [size |-> 2, storage |-> 3]
PostedNeeds == {[size |-> 2, storage |-> 4]}

VARIABLE page

vars == <<page, shellvars, ivars, mvars, launchvars, panelvars>>

(* On the other pages, which do not look at addresses: one address for all. *)
NoInvitations ==
  /\ email = [u \in Users |-> CHOOSE e \in Emails: TRUE] /\ creds = [u \in Users |-> [k \in Kinds |-> <<>>]]
  /\ batches = {} /\ panel = NoPreview /\ keys = 0 /\ requests = {}

Init ==
  /\ page \in {"shell", "users", "mail", "tasks", "reviewers"}
  /\ ShellInit /\ (page = "shell" \/ (role = "out" /\ hash = "other"))
  /\ IF page = "users" THEN InvitationInit ELSE NoInvitations
  /\ MailInit /\ LaunchInit /\ PanelInit

ShellPage == page = "shell" /\ ShellNext /\ UNCHANGED <<page, ivars, mvars, launchvars, panelvars>>

UsersPage == page = "users" /\ InvitationNext /\ UNCHANGED <<page, shellvars, mvars, launchvars, panelvars>>

MailPage == page = "mail" /\ MailNext /\ UNCHANGED <<page, shellvars, ivars, launchvars, panelvars>>

TasksPage == page = "tasks" /\ LaunchesNext /\ UNCHANGED <<page, shellvars, ivars, mvars, panelvars>>

ReviewersPage == page = "reviewers" /\ PanelNext /\ UNCHANGED <<page, shellvars, ivars, mvars, launchvars>>

Next == ShellPage \/ UsersPage \/ MailPage \/ TasksPage \/ ReviewersPage

Spec == Init /\ [][Next]_vars

(* Users are told apart by name only.                                      *)
Symmetry == Permutations(Users)

(* A request that is sent again because its answer was lost acts once: a   *)
(* batch of invitations, a mail, and a run or a batch of runs (the three   *)
(* keys the dashboard and the API use).                                    *)
RetriesActOnce == BatchIsIssuedOnce /\ ResentMailIsQueuedOnce /\ RunsAreQueuedOnce
==============================================================================
