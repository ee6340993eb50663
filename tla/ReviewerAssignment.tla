-------------------------- MODULE ReviewerAssignment --------------------------
(***************************************************************************)
(* Reviewers of proposals: applications and their decisions, the manual    *)
(* assignment an administrator makes in the dashboard's dialog, and the    *)
(* reconciliation that clears an assignment when the proposal or the       *)
(* application changes (community/reviewer_assignment.py,                  *)
(* reviewer_selector.py, the handlers of routes.py and admin_routes.py,    *)
(* ProposalPanel of App.tsx).  An account is named by its own GitHub       *)
(* login; domains are single topics.  Applications are ordered by          *)
(* creation, and pending and rejected ones are not told apart.             *)
(*                                                                         *)
(* A handler that takes the write lock before it reads is one action: the  *)
(* assignment and the submission of an AI review begin IMMEDIATE, and an   *)
(* application is flushed, which takes the lock, before the assignments it *)
(* replaces are read.  A decision, an author's edit and a full sync read   *)
(* row by row without the lock and write what they changed when they       *)
(* commit (autoflush and expire_on_commit are off): each is a session, and *)
(* every read and the commit are steps of their own.  The queries of one   *)
(* reconciliation are one step.                                            *)
(***************************************************************************)
EXTENDS Naturals, Sequences, FiniteSets

CONSTANTS Accounts, NoLogin, Proposals, NoProposal, Topics,
          AppliedFor,                \* the topics people apply for
          Handlers,                  \* requests served at a time without the write lock
          MaxApplications, MaxAsks   \* bounds: applications, dialogs opened

ASSUME AssignmentAssumption ==
  /\ NoLogin \notin Accounts /\ NoProposal \notin Proposals
  /\ AppliedFor \subseteq Topics /\ {MaxApplications, MaxAsks} \subseteq Nat

VARIABLES apps,       \* reviewer_applications, oldest first
          proposals,  \* proposals: what the assignment depends on, and the assignment (0: none)
          shown,      \* assigned_reviewer of the proposal's AI review, if there is one
          sessions,   \* of each handler: the rows it loaded, and as it has changed them
          dialog, asks,  \* the assignment dialog; candidates asked for and not yet answered
          spent       \* dialogs opened so far

tables == <<apps, proposals, shown>>
client == <<dialog, asks, spent>>
avars == <<tables, sessions, client>>

Login == Accounts \cup {NoLogin}
AppId == 1..MaxApplications
Application == [user: Accounts, github: Login, topic: Topics, approved: BOOLEAN]
Proposal == [author: Login, topic: Topics, live: BOOLEAN, assigned: 0..MaxApplications, login: Login]
Shown == Login \cup {"unpublished"}

(* A session: copies of some rows as loaded and as held since, the          *)
(* application decided on while its proposals are still to be loaded, and   *)
(* the proposals still to be reconciled.                                   *)
Rows(Keys, Row) == UNION {[keys -> Row] : keys \in SUBSET Keys}
Copies == [apps: Rows(AppId, Application), proposals: Rows(Proposals, Proposal), shown: Rows(Proposals, Shown)]
Session == [loaded: Copies, held: Copies, decides: 0..MaxApplications, todo: SUBSET Proposals]

Dialog == [target: Proposals \cup {NoProposal}, was: 0..MaxApplications, selected: 0..MaxApplications,
           candidates: SUBSET AppId, loading: BOOLEAN, failed: BOOLEAN]

AssignmentTypeOK ==
  /\ apps \in Seq(Application) /\ Len(apps) <= MaxApplications
  /\ proposals \in [Proposals -> Proposal] /\ shown \in [Proposals -> Shown]
  /\ sessions \in [Handlers -> Session]
  /\ dialog \in Dialog /\ spent \in 0..MaxAsks
  /\ asks \subseteq [p: Proposals, found: BOOLEAN, answer: SUBSET AppId]

None == [k \in {} |-> 0]
Nothing == [apps |-> None, proposals |-> None, shown |-> None]
Idle == [loaded |-> Nothing, held |-> Nothing, decides |-> 0, todo |-> {}]

Closed == [target |-> NoProposal, was |-> 0, selected |-> 0, candidates |-> {},
           loading |-> FALSE, failed |-> FALSE]

(* Published proposals of an account or of nobody known, none assigned yet. *)
AssignmentInit ==
  /\ apps = <<>>
  /\ \E author \in [Proposals -> Login], t \in Topics:
       proposals = [p \in Proposals |-> [author |-> author[p], topic |-> t, live |-> TRUE,
                                         assigned |-> 0, login |-> NoLogin]]
  /\ shown = [p \in Proposals |-> "unpublished"]
  /\ sessions = [h \in Handlers |-> Idle]
  /\ dialog = Closed /\ asks = {} /\ spent = 0

(* reviewer_matches_proposal. *)
Matches(proposal, app) ==
  /\ app.approved /\ app.github # NoLogin
  /\ app.github # proposal.author /\ app.topic = proposal.topic

Newest(as, i) == \A j \in DOMAIN as: as[j].user = as[i].user => j <= i

(* reviewer_selector walks the applications from the newest: Seen are those *)
(* whose user and login count as seen, that is those that were not skipped. *)
Seen(as) ==
  LET counted[i \in 1..(Len(as) + 1)] ==
        IF i > Len(as) THEN {}
        ELSE LET later == counted[i + 1]
                 skipped == \E j \in later: \/ as[j].user = as[i].user
                                            \/ as[j].github = as[i].github /\ as[i].github # NoLogin
             IN later \cup (IF skipped THEN {} ELSE {i})
  IN counted[1]

Selectable(as, proposal) == {i \in DOMAIN as: i \in Seen(as) /\ Matches(proposal, as[i])}

(* reconcile_proposal_reviewer, of the proposal and its reviewer's          *)
(* application, as held, and whether that is the newest of its user.       *)
Unassigned(proposal) == [proposal EXCEPT !.assigned = 0, !.login = NoLogin]
Reconciled(proposal, app, newest) ==
  IF newest /\ Matches(proposal, app) THEN [proposal EXCEPT !.login = app.github]
                                      ELSE Unassigned(proposal)

(* Slip: a review keeps naming a reviewer whose assignment was cleared. *)
SyncedNew(name, login) == IF name = "unpublished" \/ login = NoLogin THEN name ELSE login

(* sync_ai_reviewer_comment: what a review that names somebody names next.  *)
Synced(name, login) == IF name = "unpublished" THEN name ELSE login

(* submit_ai_review records the current assignment of a proposal not deleted. *)
ReviewSubmitted(p) ==
  /\ shown' = [shown EXCEPT ![p] = IF proposals[p].live THEN proposals[p].login ELSE NoLogin]
  /\ UNCHANGED <<apps, proposals, sessions, client>>

(* create_reviewer_application. *)
Apply(u, topic) ==
  LET replaced == {p \in Proposals: proposals[p].assigned # 0 /\ apps[proposals[p].assigned].user = u}
  IN /\ Len(apps) < MaxApplications
     /\ apps' = Append(apps, [user |-> u, github |-> u, topic |-> topic, approved |-> FALSE])
     /\ proposals' = [p \in Proposals |->
          IF p \notin replaced THEN proposals[p]
          ELSE LET i == proposals[p].assigned IN Reconciled(proposals[p], apps[i], Newest(apps', i))]
     /\ shown' = [p \in Proposals |-> IF p \in replaced THEN Synced(shown[p], proposals'[p].login) ELSE shown[p]]
     /\ UNCHANGED <<sessions, client>>

-----------------------------------------------------------------------------
(* What a session does: it loads a row once, and answers from its copy.     *)
Loading(table, key, row) == [k \in DOMAIN table \cup {key} |-> IF k \in DOMAIN table THEN table[k] ELSE row]

Only(key, row) == Loading(None, key, row)

InSession(h, s) == sessions' = [sessions EXCEPT ![h] = s] /\ UNCHANGED <<tables, client>>

(* update_reviewer_application loads the application and sets the identity  *)
(* together with an optional decision, whatever the dashboard's list shows; *)
(* then it loads the proposals that are assigned to it.                     *)
DecideBegins(h, i, github, approved) ==
  /\ sessions[h] = Idle
  /\ InSession(h, [loaded |-> [Nothing EXCEPT !.apps = Only(i, apps[i])],
                   held |-> [Nothing EXCEPT !.apps = Only(i, [apps[i] EXCEPT !.github = github, !.approved = approved])],
                   decides |-> i, todo |-> {}])

DecideLoads(h) ==
  LET s == sessions[h]
      mine == {p \in Proposals: proposals[p].assigned = s.decides}
      rows == [p \in mine |-> proposals[p]]
  IN /\ s.decides # 0
     /\ InSession(h, [loaded |-> [s.loaded EXCEPT !.proposals = rows], held |-> [s.held EXCEPT !.proposals = rows],
                      decides |-> 0, todo |-> mine])

(* update_proposal, with the login of the author's account, which waits for *)
(* GitHub after it loaded the proposal; sync_proposal_discussions, for one  *)
(* Discussion, whose body can name any author and topic.                    *)
RewriteBegins(h, p, author, topic) ==
  /\ sessions[h] = Idle /\ proposals[p].live
  /\ InSession(h, [loaded |-> [Nothing EXCEPT !.proposals = Only(p, proposals[p])],
                   held |-> [Nothing EXCEPT !.proposals =
                               Only(p, [proposals[p] EXCEPT !.author = author, !.topic = topic])],
                   decides |-> 0, todo |-> IF proposals[p].assigned # 0 THEN {p} ELSE {}])

(* reconcile_proposal_reviewer in a session: the application is the one     *)
(* held if it was loaded before.                                            *)
Reconciles(h, p) ==
  LET s == sessions[h]
      i == s.held.proposals[p].assigned
      copies == Loading(s.held.apps, i, apps[i])
      row == Reconciled(s.held.proposals[p], copies[i], Newest(apps, i))
  IN /\ p \in s.todo
     /\ InSession(h, [loaded |-> [apps |-> Loading(s.loaded.apps, i, apps[i]), proposals |-> s.loaded.proposals,
                                  shown |-> Loading(s.loaded.shown, p, shown[p])],
                      held |-> [apps |-> copies, proposals |-> [s.held.proposals EXCEPT ![p] = row],
                                shown |-> Loading(s.held.shown, p, Synced(shown[p], row.login))],
                      decides |-> 0, todo |-> s.todo \ {p}])

(* The commit writes the columns that the session changed.                 *)
Written(loaded, held, now) == [column \in DOMAIN now |-> IF held[column] # loaded[column] THEN held[column]
                                                                                          ELSE now[column]]

Ready(s) == s # Idle /\ s.decides = 0 /\ s.todo = {}

Commits(h) ==
  LET s == sessions[h]
  IN /\ Ready(s)
     /\ apps' = [i \in DOMAIN apps |-> IF i \in DOMAIN s.held.apps
                                       THEN Written(s.loaded.apps[i], s.held.apps[i], apps[i]) ELSE apps[i]]
     /\ proposals' = [p \in Proposals |->
          IF p \in DOMAIN s.held.proposals
          THEN Written(s.loaded.proposals[p], s.held.proposals[p], proposals[p]) ELSE proposals[p]]
     /\ shown' = [p \in Proposals |-> IF p \in DOMAIN s.held.shown /\ s.held.shown[p] # s.loaded.shown[p]
                                      THEN s.held.shown[p] ELSE shown[p]]
     /\ sessions' = [sessions EXCEPT ![h] = Idle] /\ UNCHANGED client

(* GitHub refuses the edit, or the request is broken off.                  *)
Fails(h) == sessions[h] # Idle /\ InSession(h, Idle)

(* delete_proposal writes one column, whatever the others hold.             *)
Delete(p) == /\ proposals[p].live /\ proposals' = [proposals EXCEPT ![p].live = FALSE]
             /\ UNCHANGED <<apps, shown, sessions, client>>

-----------------------------------------------------------------------------
(* openAssignment; the dashboard's list of proposals may be stale.          *)
OpenDialog(p, was) ==
  /\ dialog.target = NoProposal /\ spent < MaxAsks /\ spent' = spent + 1
  /\ dialog' = [Closed EXCEPT !.target = p, !.was = was, !.selected = was, !.loading = TRUE]
  /\ asks' = asks \cup {[p |-> p, found |-> proposals[p].live,
                         answer |-> Selectable(apps, proposals[p])]}
  /\ UNCHANGED <<tables, sessions>>

(* The candidates arrive, even those asked for in a dialog closed since and *)
(* for another proposal.  A closed dialog keeps nothing that the next one   *)
(* does not reset.                                                          *)
InDialog(d) == dialog' = IF dialog.target = NoProposal THEN Closed ELSE d

CandidatesArrive(a) ==
  /\ a.found /\ asks' = asks \ {a}
  /\ InDialog([dialog EXCEPT !.candidates = a.answer, !.loading = FALSE])
  /\ UNCHANGED <<tables, sessions, spent>>

CandidatesFail(a) ==
  /\ asks' = asks \ {a}
  /\ InDialog([dialog EXCEPT !.loading = FALSE, !.failed = TRUE])
  /\ UNCHANGED <<tables, sessions, spent>>

Choose(i) == /\ dialog.target # NoProposal /\ i \in dialog.candidates \cup {0} /\ i # dialog.selected
             /\ i = 0 \/ ~dialog.loading
             /\ dialog' = [dialog EXCEPT !.selected = i, !.failed = FALSE]
             /\ UNCHANGED <<tables, sessions, asks, spent>>

CloseDialog == /\ dialog.target # NoProposal /\ dialog' = Closed
               /\ UNCHANGED <<tables, sessions, asks, spent>>

(* Slip: what the dialog offers is assigned without selecting again. *)
AllowedAsOffered(p, i) == proposals[p].live

(* saveAssignment calls assign_proposal_reviewer, which holds the write     *)
(* lock and selects again; a refusal leaves the dialog open.                *)
Allowed(p, i) == proposals[p].live /\ (i = 0 \/ i \in Selectable(apps, proposals[p]))

Assign(p, i) ==
  /\ proposals' = [proposals EXCEPT ![p] =
       IF i = 0 THEN Unassigned(@)
       ELSE IF @.assigned = i THEN @
       ELSE [@ EXCEPT !.assigned = i, !.login = apps[i].github]]
  /\ shown' = [shown EXCEPT ![p] = Synced(@, proposals'[p].login)]

SaveDialog ==
  LET p == dialog.target  i == dialog.selected
  IN /\ p # NoProposal /\ ~dialog.loading /\ ~dialog.failed /\ i # dialog.was
     /\ i \in dialog.candidates \cup {0}
     /\ IF Allowed(p, i)
        THEN Assign(p, i) /\ dialog' = Closed
        ELSE /\ dialog' = [dialog EXCEPT !.failed = TRUE]
             /\ UNCHANGED <<proposals, shown>>
     /\ UNCHANGED <<apps, sessions, asks, spent>>

AssignmentNext ==
  \/ \E p \in Proposals: ReviewSubmitted(p) \/ Delete(p)
  \/ \E u \in Accounts, t \in AppliedFor: Apply(u, t)
  \/ \E h \in Handlers:
       \/ \E i \in DOMAIN apps, g \in Login, a \in BOOLEAN: DecideBegins(h, i, g, a)
       \/ \E p \in Proposals, g \in Login, t \in Topics: RewriteBegins(h, p, g, t)
       \/ DecideLoads(h) \/ (\E p \in Proposals: Reconciles(h, p)) \/ Commits(h) \/ Fails(h)
  \/ \E p \in Proposals: OpenDialog(p, 0) \/ OpenDialog(p, proposals[p].assigned)
  \/ \E a \in asks: CandidatesArrive(a) \/ CandidatesFail(a)
  \/ CloseDialog \/ SaveDialog
  \/ \E i \in 0..Len(apps): Choose(i)

AssignmentSpec == AssignmentInit /\ [][AssignmentNext]_avars

-----------------------------------------------------------------------------
(* An assigned reviewer is approved, fits the proposal and is not its       *)
(* author, and is recorded under the login of the application.             *)
Eligible(p) ==
  proposals[p].assigned # 0 =>
    LET app == apps[proposals[p].assigned]
    IN Matches(proposals[p], app) /\ proposals[p].login = app.github

(* The AI review of a proposal not deleted names who is assigned to it, or  *)
(* nobody when nobody is.                                                  *)
Aligned(p) == proposals[p].live => shown[p] \in {"unpublished", proposals[p].login}

(* What the session of h is about to write for p was decided on rows that   *)
(* have been written since, or p was assigned to an application it changes  *)
(* after it had loaded the proposals assigned to that.                      *)
Overtaken(h, p) ==
  LET s == sessions[h]  i == proposals[p].assigned
  IN IF p \in DOMAIN s.loaded.proposals
     THEN \/ proposals[p] # s.loaded.proposals[p]
          \/ i \in DOMAIN s.loaded.apps /\ apps[i] # s.loaded.apps[i]
          \/ p \in DOMAIN s.loaded.shown /\ shown[p] # s.loaded.shown[p]
     ELSE i \in DOMAIN s.loaded.apps /\ s.held.apps[i] # s.loaded.apps[i]

OvertakenCommit(p) == \E h \in Handlers: Overtaken(h, p) /\ Commits(h)

(* Nothing but the commit of a session that was overtaken leaves a proposal *)
(* with a reviewer who is not eligible: neither an application, a deletion  *)
(* or the dialog at whatever moment, nor a decision, an edit or a sync      *)
(* whose rows are as it read them.  One of those that loaded the proposal   *)
(* and was not overtaken leaves it eligible even if it was not before.      *)
OnlyOvertakenMisassign ==
  [][\A p \in Proposals:
       Eligible(p) \/ (\E h \in Handlers: p \in DOMAIN sessions[h].loaded.proposals /\ Commits(h))
         => Eligible(p)' \/ OvertakenCommit(p)]_avars

(* Nothing but such a commit leaves an AI review with the name of anybody   *)
(* but the assigned reviewer, and one that loaded the review and was not    *)
(* overtaken leaves it right even if it was wrong before.                   *)
OnlyOvertakenMisname ==
  [][\A p \in Proposals:
       Aligned(p) \/ (\E h \in Handlers: p \in DOMAIN sessions[h].loaded.shown /\ Commits(h))
         => Aligned(p)' \/ OvertakenCommit(p)]_avars

(* "Clear assignments that no longer match a changed proposal or            *)
(* application" (reviewer_assignment.py:38): whatever is assigned matches.  *)
AssignmentsAreEligible == \A p \in Proposals: Eligible(p)

(* "Keep the existing AI review sticky comment aligned with the manual      *)
(* assignment" (reviewer_assignment.py:15).                                *)
ReviewNamesReviewer == \A p \in Proposals: Aligned(p)

(* "The newest application controls review access, even if it is pending or *)
(* rejected" (reviewer_selector.py:38): what the dialog may offer is the    *)
(* newest application of its user.                                          *)
OffersAreNewest ==
  \A p \in Proposals: \A i \in Selectable(apps, proposals[p]): Newest(apps, i)
=============================================================================
