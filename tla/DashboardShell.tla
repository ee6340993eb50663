---------------------------- MODULE DashboardShell ----------------------------
(***************************************************************************)
(* The dashboard's shell (App of App.tsx): who is signed in, the view and  *)
(* its URL hash kept in step by an effect and a listener, and the control  *)
(* plane's data, reloaded after every operation.  The data is the version  *)
(* of the database it was read at; the sections of a reload are one.  The  *)
(* operations differ in what offers them and in whether they take the      *)
(* page's `loading` lock.                                                  *)
(***************************************************************************)
EXTENDS Naturals, FiniteSets

CONSTANTS Views,                 \* the views that are told apart
          MaxChanges, MaxReloads \* bounds: operations posted, reloads begun

ASSUME ShellAssumption == /\ {"proposals", "overview", "runs"} \subseteq Views
                          /\ "" \notin Views /\ "other" \notin Views
                          /\ MaxChanges \in Nat /\ MaxReloads \in Nat

VARIABLES role,     \* whom the session cookie signs in at the server
          version,  \* the database
          account,  \* user, and checked: the first getCurrentUser has answered
          polling,  \* the sign-in popup is polled
          view, hash,
          due,      \* effects to run: the [checked, view] effect, the hashchange listener
          ops,      \* the data shown
          calls,    \* operations in flight
          reloads,  \* loadOps in flight
          begun,    \* how many reloads and operations were begun
          lock,     \* loading and refreshing
          own,      \* the version after the last of the administrator's operations that answered
          blurred,  \* since the first reload of a series one failed, or two overlapped
          entry     \* the hash the page was opened with, "" once the person navigates
           \* or turns out to be signed out

shellvars == <<role, version, account, polling, view, hash, due, ops, calls, reloads, begun,
               lock, own, blurred, entry>>
server == <<role, version>>
routing == <<view, hash, due, entry>>
loadingV == <<reloads, begun, lock, blurred>>

Roles == {"out", "member", "admin"}
Hash == Views \cup {"other"}
CallKinds == {"launch", "plain", "guarded"}
Failed == MaxChanges + 1
Unread == MaxChanges + 2
Call == [n: 1..MaxChanges, kind: CallKinds, at: 0..MaxChanges, admin: BOOLEAN]
Reload == [n: 1..MaxReloads, got: 0..Unread, unlocks: BOOLEAN]

ShellTypeOK ==
  /\ role \in Roles /\ version \in 0..MaxChanges
  /\ account \in [user: Roles, checked: BOOLEAN] /\ polling \in BOOLEAN
  /\ view \in Views /\ hash \in Hash /\ due \in [effect: BOOLEAN, listener: BOOLEAN]
  /\ ops \in 0..MaxChanges /\ calls \subseteq Call /\ reloads \subseteq Reload
  /\ begun \in [reloads: 0..MaxReloads, calls: 0..MaxChanges]
  /\ lock \in [loading: BOOLEAN, refreshing: BOOLEAN]
  /\ own \in 0..MaxChanges /\ blurred \in BOOLEAN /\ entry \in Hash \cup {""}

ShellInit ==
  /\ role \in Roles /\ version = 0 /\ account = [user |-> "out", checked |-> FALSE]
  /\ polling = FALSE /\ view = "proposals" /\ hash \in Hash
  /\ due = [effect |-> TRUE, listener |-> FALSE] /\ ops = 0 /\ calls = {} /\ reloads = {}
  /\ begun = [reloads |-> 0, calls |-> 0] /\ lock = [loading |-> FALSE, refreshing |-> FALSE]
  /\ own = 0 /\ blurred = FALSE /\ entry = hash

IsAdmin == account.user = "admin"

(* loadOps: its sections are asked for together, and refreshing ends with  *)
(* the first of them to come back when several overlap.                    *)
LoadOps(unlocks) ==
  /\ begun.reloads < MaxReloads
  /\ begun' = [begun EXCEPT !.reloads = @ + 1]
  /\ reloads' = reloads \cup {[n |-> begun.reloads + 1, got |-> Unread, unlocks |-> unlocks]}
  /\ lock' = [lock EXCEPT !.refreshing = TRUE]
  /\ blurred' = (reloads # {})

Refresh == /\ IsAdmin /\ ~lock.refreshing /\ LoadOps(FALSE)
           /\ UNCHANGED <<server, account, polling, routing, ops, calls, own>>

ServerReads(r) ==
  /\ r.got = Unread
  /\ \E got \in {Failed} \cup (IF role = "admin" THEN {version} ELSE {}):
       reloads' = (reloads \ {r}) \cup {[r EXCEPT !.got = got]}
  /\ UNCHANGED <<server, account, polling, routing, ops, calls, begun, lock, own, blurred>>

Reloaded(r) ==
  /\ r.got # Unread /\ reloads' = reloads \ {r}
  /\ ops' = IF r.got = Failed THEN ops ELSE r.got
  /\ blurred' = (blurred \/ r.got = Failed)
  /\ lock' = [loading |-> lock.loading /\ ~r.unlocks, refreshing |-> FALSE]
  /\ UNCHANGED <<server, account, polling, routing, calls, begun, own>>

-----------------------------------------------------------------------------
SetView(v) == view' = v /\ due' = [due EXCEPT !.effect = @ \/ v # view]

(* setUser: becoming an administrator loads the data.                      *)
SetUser(u) ==
  /\ account' = [user |-> u, checked |-> TRUE]
  /\ IF u = "admin" /\ ~IsAdmin THEN LoadOps(FALSE) ELSE UNCHANGED loadingV

(* The first effect: who am I, and which view does the URL ask for.  An    *)
(* answer that is lost counts as nobody.                                   *)
Requested(u) == IF hash \in Views THEN hash
                ELSE IF u = "admin" THEN "overview" ELSE "proposals"
CheckSession(u) ==
  /\ ~account.checked /\ u \in {role, "out"} /\ SetUser(u)
  /\ view' = IF u = "out" THEN view ELSE Requested(u)
  /\ due' = [due EXCEPT !.effect = TRUE] /\ entry' = IF u = "out" THEN "" ELSE entry
  /\ UNCHANGED <<server, polling, hash, ops, calls, own>>

(* Slip: the hash is written before the session is known. *)
WriteHashAtOnce ==
  /\ due.effect
  /\ hash' = view
  /\ due' = [effect |-> FALSE, listener |-> due.listener \/ hash' # hash]
  /\ UNCHANGED <<server, account, polling, view, entry, ops, calls, loadingV, own>>

(* The effect on [checked, view] writes the hash, which is heard later.    *)
WriteHash ==
  /\ due.effect
  /\ hash' = IF account.checked THEN view ELSE hash
  /\ due' = [effect |-> FALSE, listener |-> due.listener \/ hash' # hash]
  /\ UNCHANGED <<server, account, polling, view, entry, ops, calls, loadingV, own>>

(* onHashChange reads the hash as it is by then.                           *)
OnHashChange ==
  /\ due.listener
  /\ view' = IF hash \in Views THEN hash ELSE view
  /\ due' = [effect |-> due.effect \/ view' # view, listener |-> FALSE]
  /\ UNCHANGED <<server, account, polling, hash, entry, ops, calls, loadingV, own>>

(* The address bar, Back and Forward.                                      *)
Navigate(h) ==
  /\ h # hash /\ hash' = h /\ due' = [due EXCEPT !.listener = TRUE] /\ entry' = ""
  /\ UNCHANGED <<server, account, polling, view, ops, calls, loadingV, own>>

(* Sidebar and the brand button.                                           *)
SidebarViews == IF IsAdmin THEN Views ELSE {"proposals"}
ChooseView(v) == /\ v \in SidebarViews /\ SetView(v) /\ entry' = ""
                 /\ UNCHANGED <<server, account, polling, hash, ops, calls, loadingV, own>>

(* login opens a popup and polls until the server knows somebody.          *)
StartLogin == /\ account = [user |-> "out", checked |-> TRUE] /\ ~polling /\ polling' = TRUE
              /\ UNCHANGED <<server, account, routing, ops, calls, loadingV, own>>
SignsIn(r) == /\ polling /\ role = "out" /\ role' = r /\ r # "out"
              /\ UNCHANGED <<version, account, polling, routing, ops, calls, loadingV, own>>
PollAnswers == /\ polling /\ role # "out" /\ polling' = FALSE /\ SetUser(role)
               /\ UNCHANGED <<server, routing, ops, calls, own>>
PopupClosed == /\ polling /\ role = "out" /\ polling' = FALSE
               /\ UNCHANGED <<server, account, routing, ops, calls, loadingV, own>>

Logout ==
  /\ account.user # "out" /\ role' = "out" /\ account' = [account EXCEPT !.user = "out"]
  /\ SetView("proposals") /\ entry' = "" /\ ops' = 0 /\ own' = 0
  /\ UNCHANGED <<version, polling, hash, calls, loadingV>>

SessionEnds == /\ role # "out" /\ role' = "out"
               /\ UNCHANGED <<version, account, polling, routing, ops, calls, loadingV, own>>

-----------------------------------------------------------------------------
(* What each panel lets the person start.  The buttons of guarded           *)
(* operations are disabled while one is running, the forms are not; which   *)
(* rows a panel has, and what is typed into it, is left open.               *)
Guarded == IF lock.loading THEN {} ELSE {"guarded"}
ProposalPanel == IF account.user = "out" THEN {} ELSE {"plain"}  \* its table: ReviewerAssignment
FullSyncButton == Guarded
LaunchPanel == {"launch"}
TaskPanel == {"plain"} \cup LaunchPanel
RunsPanel == {"plain"}
CloudPanel == {"plain"}
DeliveriesPanel == Guarded
SnapshotsPanel == Guarded
ReviewersPanel == Guarded

(* AdminPanel, and ProposalPanel for everybody else.                        *)
Offers ==
  IF ~IsAdmin THEN ProposalPanel
  ELSE CASE view = "proposals"  -> ProposalPanel \cup FullSyncButton
         [] view = "tasks"      -> TaskPanel
         [] view \in {"overview", "runs"} -> RunsPanel
         [] view = "cloud"      -> CloudPanel
         [] view = "deliveries" -> DeliveriesPanel
         [] view = "snapshots"  -> SnapshotsPanel
         [] view = "reviewers"  -> ReviewersPanel
         [] OTHER -> {}  \* plans and jobs only show; the users' panel has state of its own

Operate(kind) ==
  /\ kind \in Offers /\ begun.calls < MaxChanges
  /\ begun' = [begun EXCEPT !.calls = @ + 1]
  /\ calls' = calls \cup {[n |-> begun.calls + 1, kind |-> kind, at |-> 0, admin |-> IsAdmin]}
  /\ lock' = [lock EXCEPT !.loading = @ \/ kind = "guarded"]
  /\ UNCHANGED <<server, account, polling, routing, ops, reloads, blurred, own>>

ServerDoes(c) ==
  /\ c.at = 0 /\ role # "out" /\ version' = version + 1
  /\ calls' = (calls \ {c}) \cup {[c EXCEPT !.at = version + 1]}
  /\ UNCHANGED <<role, account, polling, routing, ops, loadingV, own>>

(* Slip: the page does not reload after an operation that takes no lock. *)
AnsweredQuietly(c) ==
  /\ c.at # 0 /\ calls' = calls \ {c} /\ own' = IF c.admin /\ c.at > own THEN c.at ELSE own
  /\ IF c.kind = "launch" THEN SetView("runs") /\ entry' = "" ELSE UNCHANGED <<view, due, entry>>
  /\ IF c.admin /\ c.kind = "guarded" THEN LoadOps(TRUE) ELSE UNCHANGED loadingV
  /\ UNCHANGED <<server, account, polling, hash, ops>>

(* The operation has answered: a message, launch shows the runs, and an    *)
(* administrator's page reloads.                                           *)
Answered(c) ==
  /\ c.at # 0 /\ calls' = calls \ {c} /\ own' = IF c.admin /\ c.at > own THEN c.at ELSE own
  /\ IF c.kind = "launch" THEN SetView("runs") /\ entry' = "" ELSE UNCHANGED <<view, due, entry>>
  /\ IF c.admin THEN LoadOps(c.kind = "guarded") ELSE UNCHANGED loadingV
  /\ UNCHANGED <<server, account, polling, hash, ops>>

OperationFails(c) ==
  /\ calls' = calls \ {c} /\ lock' = [lock EXCEPT !.loading = @ /\ c.kind # "guarded"]
  /\ UNCHANGED <<server, account, polling, routing, ops, reloads, begun, blurred, own>>

ShellNext ==
  \/ Refresh \/ WriteHash \/ OnHashChange \/ StartLogin \/ PollAnswers \/ PopupClosed
  \/ Logout \/ SessionEnds
  \/ \E r \in reloads: ServerReads(r) \/ Reloaded(r)
  \/ \E h \in Hash: Navigate(h)
  \/ \E v \in Views: ChooseView(v)
  \/ \E r \in Roles: SignsIn(r) \/ CheckSession(r)
  \/ \E k \in CallKinds: Operate(k)
  \/ \E c \in calls: ServerDoes(c) \/ Answered(c) \/ OperationFails(c)

ShellSpec == ShellInit /\ [][ShellNext]_shellvars

-----------------------------------------------------------------------------
(* The URL and the view lead to each other (the two effects and the listener *)
(* of App): when nothing is left to run, the URL names the view on screen or *)
(* none; and a link to a view survives the loading of the page of somebody   *)
(* signed in: it is not overwritten before the session is known, and its     *)
(* view is shown until the person goes elsewhere.                            *)
UrlLeadsToView ==
  /\ account.checked /\ ~due.effect /\ ~due.listener => hash \in {view} \cup (Hash \ Views)
  /\ account.checked /\ entry \in Views => view = entry

(* Once the reload after an operation is through, the page shows what the   *)
(* operation did, unless reloads failed or overlapped (loadOps keeps no     *)
(* order among them).                                                       *)
OwnChangesAreShown == IsAdmin /\ reloads = {} /\ ~blurred => ops >= own
================================================================================
