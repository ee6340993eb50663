------------------------------ MODULE PanelProofs ------------------------------
(***************************************************************************)
(* The panels of the dashboard, for any number of accounts, proposals,     *)
(* applications, requests served at once, reloads and operations.          *)
(***************************************************************************)
EXTENDS ReviewerAssignment, ApplicationsPanel, DashboardShell, WellFoundedInduction, TLAPS

(* Sets of numbers have a least element, bounded ones a greatest.         *)
LEMMA LeastOf ==
  ASSUME NEW S, S \subseteq Nat, S # {} PROVE \E m \in S: \A s \in S: m <= s
  <1>. DEFINE R == OpToRel(<, Nat)
  <1>1. IsWellFoundedOn(R, Nat)
    BY NatLessThanWellFounded
  <1>2. \A a, b \in Nat: a < b => <<a, b>> \in R
    BY DEF OpToRel
  <1>. HIDE DEF R
  <1>3. PICK m \in S: \A s \in S: <<s, m>> \notin R
    BY <1>1, WFMin
  <1>4. m \in Nat /\ \A s \in S: s \in Nat /\ ~(s < m)
    BY <1>2, <1>3
  <1>5. \A s \in S: m <= s
    BY <1>4
  <1>. QED BY <1>5

LEMMA GreatestOf ==
  ASSUME NEW S, S \subseteq Nat, S # {}, NEW n \in Nat, \A s \in S: s <= n
  PROVE  \E m \in S: \A s \in S: s <= m
  <1>. DEFINE T == {n - s: s \in S}
  <1>5. \A s \in S: s \in Nat /\ n - s \in Nat
    OBVIOUS
  <1>1. T \subseteq Nat /\ T # {}
    BY <1>5
  <1>2. PICK t \in T: \A u \in T: t <= u
    BY <1>1, LeastOf
  <1>3. PICK m \in S: t = n - m
    BY <1>2
  <1>4. \A s \in S: n - m <= n - s
    BY <1>2, <1>3
  <1>. QED BY <1>4, <1>5

(***************************************************************************)
(*                     Reviewers assigned to proposals                     *)
(***************************************************************************)
(* What a session holds of one proposal: the assignment as loaded, until it *)
(* has been reconciled; then one that the application as held allows, and   *)
(* the name that goes with it.                                             *)
Tracked(s, p, n) ==
  LET was == s.loaded.proposals[p]
      is == s.held.proposals[p]
  IN /\ was.assigned <= n /\ is.live = was.live
     /\ p \in DOMAIN s.loaded.shown <=> was.assigned # 0 /\ p \notin s.todo
     /\ p \notin DOMAIN s.loaded.shown => is.assigned = was.assigned /\ is.login = was.login
     /\ p \in s.todo => was.assigned # 0
     /\ p \in DOMAIN s.loaded.shown =>
          /\ was.assigned \in DOMAIN s.held.apps
          /\ is.assigned \in {0, was.assigned}
          /\ is.assigned # 0 => Matches(is, s.held.apps[is.assigned]) /\ is.login = s.held.apps[is.assigned].github
          /\ s.held.shown[p] = Synced(s.loaded.shown[p], is.login)

(* What a session holds when there are n applications.                     *)
Knows(s, n) ==
  /\ s \in Session /\ s.decides <= n
  /\ DOMAIN s.held.apps = DOMAIN s.loaded.apps /\ DOMAIN s.loaded.apps \subseteq 1..n
  /\ DOMAIN s.held.proposals = DOMAIN s.loaded.proposals
  /\ DOMAIN s.held.shown = DOMAIN s.loaded.shown /\ DOMAIN s.loaded.shown \subseteq DOMAIN s.loaded.proposals
  /\ s.todo \subseteq DOMAIN s.loaded.proposals
  /\ s.decides # 0 => DOMAIN s.loaded.proposals = {}
  /\ \A p \in DOMAIN s.loaded.proposals: Tracked(s, p, n)

AssignmentInv ==
  /\ apps \in Seq(Application) /\ Len(apps) <= MaxApplications
  /\ proposals \in [Proposals -> Proposal] /\ shown \in [Proposals -> Shown]
  /\ \A p \in Proposals: proposals[p].assigned <= Len(apps)
  /\ \A h \in Handlers: Knows(sessions[h], Len(apps))
  /\ DOMAIN sessions = Handlers

LEMMA SomeConstants == MaxApplications \in Nat /\ 0 \in 0..MaxApplications /\ NoLogin \in Login /\ Login \subseteq Shown
  <1>1. MaxApplications \in Nat
    BY AssignmentAssumption
  <1>2. NoLogin \in Login /\ Login \subseteq Shown
    BY DEF Login, Shown
  <1>. QED BY <1>1, <1>2

LEMMA ElementOf == ASSUME NEW S, NEW s \in Seq(S), NEW i \in 1..Len(s) PROVE s[i] \in S
  OBVIOUS

LEMMA AssignedTo ==
  ASSUME NEW list \in Seq(Application), NEW x \in Proposal, x.assigned <= Len(list), x.assigned # 0
  PROVE  x.assigned \in 1..Len(list) /\ list[x.assigned] \in Application
  <1>1. Len(list) \in Nat
    OBVIOUS
  <1>2. x.assigned \in 0..MaxApplications
    BY DEF Proposal
  <1>3. x.assigned \in 1..Len(list)
    BY <1>1, <1>2, SomeConstants
  <1>. QED BY <1>3, ElementOf

(* Tables in a session.                                                    *)
LEMMA RowsIn == ASSUME NEW K, NEW R, NEW D \in SUBSET K, NEW f \in [D -> R] PROVE f \in Rows(K, R)
  BY DEF Rows

LEMMA RowsOut == ASSUME NEW K, NEW R, NEW f \in Rows(K, R) PROVE DOMAIN f \subseteq K /\ f \in [DOMAIN f -> R]
  BY DEF Rows

LEMMA LoadingIn ==
  ASSUME NEW K, NEW R, NEW f \in Rows(K, R), NEW k \in K, NEW row \in R
  PROVE  Loading(f, k, row) \in Rows(K, R)
  <1>. DEFINE g == Loading(f, k, row)
  <1>1. DOMAIN f \subseteq K /\ f \in [DOMAIN f -> R]
    BY RowsOut
  <1>2. g \in [DOMAIN f \cup {k} -> R]
    BY <1>1 DEF Loading
  <1>3. DOMAIN f \cup {k} \in SUBSET K
    BY <1>1
  <1>. HIDE DEF g
  <1>4. g \in Rows(K, R)
    BY <1>2, <1>3, RowsIn
  <1>. QED BY <1>4 DEF g

LEMMA NoneIs == ASSUME NEW K, NEW R PROVE None \in Rows(K, R) /\ DOMAIN None = {}
  <1>1. None \in [{} -> R] /\ {} \in SUBSET K
    BY DEF None
  <1>. QED BY <1>1, RowsIn DEF None

LEMMA OnlyIs ==
  ASSUME NEW K, NEW R, NEW k \in K, NEW row \in R
  PROVE  Only(k, row) \in Rows(K, R) /\ DOMAIN Only(k, row) = {k} /\ Only(k, row)[k] = row
  <1>1. DOMAIN Only(k, row) = {k} /\ Only(k, row)[k] = row
    BY DEF Only, Loading, None
  <1>2. Only(k, row) \in [{k} -> R]
    BY DEF Only, Loading, None
  <1>. QED BY <1>1, <1>2, RowsIn

LEMMA IdleKnows == ASSUME NEW n \in Nat PROVE Knows(Idle, n)
  <1>1. /\ Idle.loaded = Nothing /\ Idle.held = Nothing /\ Idle.decides = 0 /\ Idle.todo = {}
        /\ Nothing.apps = None /\ Nothing.proposals = None /\ Nothing.shown = None
    BY DEF Idle, Nothing
  <1>2. Nothing \in Copies
    BY NoneIs DEF Nothing, Copies
  <1>3. Idle \in Session
    BY <1>2, SomeConstants DEF Idle, Session
  <1>. QED BY <1>1, <1>3, NoneIs DEF Knows

LEMMA AssignmentStart == AssignmentInit => AssignmentInv
  <1>. SUFFICES ASSUME AssignmentInit PROVE AssignmentInv
    OBVIOUS
  <1>1. proposals \in [Proposals -> Proposal]
    BY AssignmentAssumption DEF AssignmentInit, Proposal, Login
  <1>2. \A p \in Proposals: proposals[p].assigned = 0
    BY DEF AssignmentInit
  <1>3. apps \in Seq(Application) /\ Len(apps) = 0
    BY DEF AssignmentInit
  <1>4. shown \in [Proposals -> Shown]
    BY DEF AssignmentInit, Shown
  <1>5. DOMAIN sessions = Handlers /\ \A h \in Handlers: Knows(sessions[h], 0)
    BY IdleKnows DEF AssignmentInit
  <1>. QED BY <1>1, <1>2, <1>3, <1>4, <1>5, SomeConstants DEF AssignmentInv

(* The facts of the invariant, for citing.                                 *)
LEMMA AssignmentFacts ==
  ASSUME AssignmentInv
  PROVE  /\ apps \in Seq(Application) /\ Len(apps) \in Nat /\ Len(apps) <= MaxApplications
         /\ proposals \in [Proposals -> Proposal] /\ shown \in [Proposals -> Shown]
         /\ \A p \in Proposals: proposals[p] \in Proposal /\ proposals[p].assigned <= Len(apps) /\ shown[p] \in Shown
         /\ \A i \in 1..Len(apps): apps[i] \in Application /\ i \in AppId
  <1>1. apps \in Seq(Application) /\ Len(apps) \in Nat /\ Len(apps) <= MaxApplications
    BY DEF AssignmentInv
  <1>2. \A i \in 1..Len(apps): apps[i] \in Application /\ i \in AppId
    BY <1>1, ElementOf, SomeConstants DEF AppId
  <1>. QED BY <1>1, <1>2 DEF AssignmentInv

LEMMA SessionFacts ==
  ASSUME NEW n, NEW s, Knows(s, n)
  PROVE  /\ s.loaded \in Copies /\ s.held \in Copies /\ s.decides \in 0..MaxApplications /\ s.todo \subseteq Proposals
         /\ s.loaded.apps \in Rows(AppId, Application) /\ s.held.apps \in Rows(AppId, Application)
         /\ s.loaded.proposals \in Rows(Proposals, Proposal) /\ s.held.proposals \in Rows(Proposals, Proposal)
         /\ s.loaded.shown \in Rows(Proposals, Shown) /\ s.held.shown \in Rows(Proposals, Shown)
         /\ \A i \in DOMAIN s.loaded.apps: s.loaded.apps[i] \in Application /\ s.held.apps[i] \in Application
         /\ \A p \in DOMAIN s.loaded.proposals: /\ p \in Proposals /\ s.loaded.proposals[p] \in Proposal
                                                /\ s.held.proposals[p] \in Proposal
         /\ \A p \in DOMAIN s.loaded.shown: s.loaded.shown[p] \in Shown /\ s.held.shown[p] \in Shown
  <1>1. s \in Session
    BY DEF Knows
  <1>2. /\ s.loaded \in Copies /\ s.held \in Copies /\ s.decides \in 0..MaxApplications /\ s.todo \subseteq Proposals
    BY <1>1 DEF Session
  <1>3. /\ s.loaded.apps \in Rows(AppId, Application) /\ s.held.apps \in Rows(AppId, Application)
        /\ s.loaded.proposals \in Rows(Proposals, Proposal) /\ s.held.proposals \in Rows(Proposals, Proposal)
        /\ s.loaded.shown \in Rows(Proposals, Shown) /\ s.held.shown \in Rows(Proposals, Shown)
    BY <1>2 DEF Copies
  <1>4. /\ DOMAIN s.held.apps = DOMAIN s.loaded.apps /\ DOMAIN s.held.proposals = DOMAIN s.loaded.proposals
        /\ DOMAIN s.held.shown = DOMAIN s.loaded.shown
    BY DEF Knows
  <1>5. \A i \in DOMAIN s.loaded.apps: s.loaded.apps[i] \in Application /\ s.held.apps[i] \in Application
    <2>1. s.loaded.apps \in [DOMAIN s.loaded.apps -> Application] /\ s.held.apps \in [DOMAIN s.held.apps -> Application]
      BY <1>3, RowsOut
    <2>. QED BY <2>1, <1>4
  <1>6. \A p \in DOMAIN s.loaded.proposals: p \in Proposals /\ s.loaded.proposals[p] \in Proposal /\ s.held.proposals[p] \in Proposal
    <2>1. /\ s.loaded.proposals \in [DOMAIN s.loaded.proposals -> Proposal] /\ DOMAIN s.loaded.proposals \subseteq Proposals
          /\ s.held.proposals \in [DOMAIN s.held.proposals -> Proposal]
      BY <1>3, RowsOut
    <2>. QED BY <2>1, <1>4
  <1>7. \A p \in DOMAIN s.loaded.shown: s.loaded.shown[p] \in Shown /\ s.held.shown[p] \in Shown
    <2>1. s.loaded.shown \in [DOMAIN s.loaded.shown -> Shown] /\ s.held.shown \in [DOMAIN s.held.shown -> Shown]
      BY <1>3, RowsOut
    <2>. QED BY <2>1, <1>4
  <1>. QED BY <1>2, <1>3, <1>5, <1>6, <1>7

(* Knowledge stays when applications arrive.                               *)
LEMMA KnowsMore ==
  ASSUME NEW n \in Nat, NEW m \in Nat, n <= m, NEW s, Knows(s, n)
  PROVE  Knows(s, m)
  <1>1. s.decides \in Nat /\ \A p \in DOMAIN s.loaded.proposals: s.loaded.proposals[p].assigned \in Nat
    BY SessionFacts, SomeConstants DEF Proposal
  <1>2. \A p \in DOMAIN s.loaded.proposals: Tracked(s, p, m)
    BY <1>1 DEF Knows, Tracked
  <1>3. 1..n \subseteq 1..m
    OBVIOUS
  <1>. QED BY <1>1, <1>2, <1>3 DEF Knows

(* reconcile_proposal_reviewer clears the assignment or confirms it.       *)
LEMMA ReconciledIs ==
  ASSUME NEW x \in Proposal, NEW app \in Application, NEW newest
  PROVE  /\ Reconciled(x, app, newest) \in Proposal
         /\ Reconciled(x, app, newest).assigned \in {0, x.assigned}
         /\ Reconciled(x, app, newest).live = x.live
         /\ Reconciled(x, app, newest).assigned # 0 =>
              /\ Matches(Reconciled(x, app, newest), app)
              /\ Reconciled(x, app, newest).login = app.github
  <1>2. CASE newest /\ Matches(x, app)
    <2>. DEFINE y == [x EXCEPT !.login = app.github]
    <2>1. Reconciled(x, app, newest) = y
      BY <1>2 DEF Reconciled
    <2>2. /\ y \in Proposal /\ y.assigned = x.assigned /\ y.author = x.author /\ y.topic = x.topic
          /\ y.live = x.live /\ y.login = app.github
      BY DEF Proposal, Application
    <2>3. Matches(y, app)
      BY <1>2, <2>2 DEF Matches
    <2>. HIDE DEF y
    <2>. QED BY <1>2, <2>1, <2>2, <2>3
  <1>3. CASE ~(newest /\ Matches(x, app))
    <2>1. Reconciled(x, app, newest) = Unassigned(x)
      BY <1>3 DEF Reconciled
    <2>2. Unassigned(x) \in Proposal
      BY SomeConstants DEF Unassigned, Proposal
    <2>3. Unassigned(x).assigned = 0 /\ Unassigned(x).live = x.live
      BY DEF Unassigned, Proposal
    <2>. QED BY <2>1, <2>2, <2>3
  <1>. QED BY <1>2, <1>3

LEMMA SyncedIs == ASSUME NEW name \in Shown, NEW login \in Login PROVE Synced(name, login) \in Shown
  BY DEF Synced, Shown

(* A step of one session, which writes nothing.                            *)
LEMMA InSessionKeeps ==
  ASSUME AssignmentInv, NEW h \in Handlers, NEW s, InSession(h, s), Knows(s, Len(apps))
  PROVE  AssignmentInv'
  <1>1. UNCHANGED <<apps, proposals, shown>>
    BY DEF InSession, tables
  <1>2. DOMAIN sessions' = Handlers /\ \A g \in Handlers: Knows(sessions'[g], Len(apps))
    BY DEF InSession, AssignmentInv
  <1>. QED BY <1>1, <1>2 DEF AssignmentInv

LEMMA DecideBeginsKeeps ==
  ASSUME AssignmentInv, NEW h \in Handlers, NEW i \in DOMAIN apps, NEW g \in Login, NEW a \in BOOLEAN,
         DecideBegins(h, i, g, a)
  PROVE  AssignmentInv'
  <1>. DEFINE app == [apps[i] EXCEPT !.github = g, !.approved = a]
              one == [Nothing EXCEPT !.apps = Only(i, apps[i])]
              two == [Nothing EXCEPT !.apps = Only(i, app)]
              s == [loaded |-> one, held |-> two, decides |-> i, todo |-> {}]
  <1>1. /\ Len(apps) \in Nat /\ i \in 1..Len(apps) /\ i \in AppId /\ apps[i] \in Application
    BY AssignmentFacts
  <1>2. app \in Application
    BY <1>1 DEF Application
  <1>. HIDE DEF app
  <1>3. /\ one.apps = Only(i, apps[i]) /\ two.apps = Only(i, app)
        /\ one.proposals = None /\ one.shown = None /\ two.proposals = None /\ two.shown = None
        /\ one = [apps |-> Only(i, apps[i]), proposals |-> None, shown |-> None]
        /\ two = [apps |-> Only(i, app), proposals |-> None, shown |-> None]
    BY DEF Nothing
  <1>4. /\ Only(i, apps[i]) \in Rows(AppId, Application) /\ DOMAIN Only(i, apps[i]) = {i}
        /\ Only(i, app) \in Rows(AppId, Application) /\ DOMAIN Only(i, app) = {i}
    BY <1>1, <1>2, OnlyIs
  <1>5. one \in Copies /\ two \in Copies
    BY <1>3, <1>4, NoneIs DEF Copies
  <1>6. InSession(h, s)
    BY DEF DecideBegins, app
  <1>7. s.loaded = one /\ s.held = two /\ s.decides = i /\ s.todo = {}
    OBVIOUS
  <1>. HIDE DEF one, two
  <1>8. s \in Session
    BY <1>1, <1>5 DEF Session, AppId
  <1>. HIDE DEF s
  <1>9. Knows(s, Len(apps))
    BY <1>1, <1>3, <1>4, <1>7, <1>8, NoneIs DEF Knows
  <1>. QED BY <1>6, <1>9, InSessionKeeps

LEMMA DecideLoadsKeeps ==
  ASSUME AssignmentInv, NEW h \in Handlers, DecideLoads(h)
  PROVE  AssignmentInv'
  <1>. DEFINE s == sessions[h]
              mine == {p \in Proposals: proposals[p].assigned = s.decides}
              rows == [p \in mine |-> proposals[p]]
              t == [loaded |-> [s.loaded EXCEPT !.proposals = rows], held |-> [s.held EXCEPT !.proposals = rows],
                    decides |-> 0, todo |-> mine]
  <1>1. Knows(s, Len(apps)) /\ s.decides # 0 /\ InSession(h, t)
    BY DEF DecideLoads, AssignmentInv
  <1>. HIDE DEF s
  <1>2. /\ s.loaded \in Copies /\ s.held \in Copies /\ s.decides \in 0..MaxApplications
        /\ DOMAIN s.held.apps = DOMAIN s.loaded.apps /\ DOMAIN s.loaded.apps \subseteq 1..Len(apps)
        /\ DOMAIN s.held.shown = DOMAIN s.loaded.shown /\ DOMAIN s.loaded.shown = {}
    <2>1. DOMAIN s.loaded.shown = {}
      BY <1>1 DEF Knows
    <2>. QED BY <1>1, <2>1, SessionFacts DEF Knows
  <1>3. mine \in SUBSET Proposals /\ rows \in [mine -> Proposal] /\ DOMAIN rows = mine
        /\ \A p \in mine: rows[p] = proposals[p] /\ proposals[p].assigned # 0 /\ proposals[p].assigned <= Len(apps)
    BY <1>1, AssignmentFacts
  <1>4. rows \in Rows(Proposals, Proposal)
    BY <1>3, RowsIn
  <1>. HIDE DEF mine, rows
  <1>5. /\ t.loaded.apps = s.loaded.apps /\ t.held.apps = s.held.apps /\ t.loaded.shown = s.loaded.shown
        /\ t.held.shown = s.held.shown /\ t.loaded.proposals = rows /\ t.held.proposals = rows
        /\ t.decides = 0 /\ t.todo = mine
    BY <1>2 DEF Copies
  <1>6. t \in Session
    <2>1. [s.loaded EXCEPT !.proposals = rows] \in Copies /\ [s.held EXCEPT !.proposals = rows] \in Copies
      BY <1>2, <1>4 DEF Copies
    <2>. QED BY <1>3, <2>1, SomeConstants DEF Session
  <1>. HIDE DEF t
  <1>7. \A p \in DOMAIN t.loaded.proposals: Tracked(t, p, Len(apps))
    BY <1>2, <1>3, <1>5 DEF Tracked
  <1>8. Knows(t, Len(apps))
    <2>1. Len(apps) \in Nat
      BY AssignmentFacts
    <2>2. t.todo \subseteq DOMAIN t.loaded.proposals /\ t.decides <= Len(apps)
      BY <2>1, <1>3, <1>5
    <2>. QED BY <2>2, <1>2, <1>3, <1>5, <1>6, <1>7 DEF Knows
  <1>. QED BY <1>1, <1>8, InSessionKeeps

LEMMA RewriteBeginsKeeps ==
  ASSUME AssignmentInv, NEW h \in Handlers, NEW p \in Proposals, NEW g \in Login, NEW t \in Topics,
         RewriteBegins(h, p, g, t)
  PROVE  AssignmentInv'
  <1>. DEFINE was == proposals[p]
              is == [was EXCEPT !.author = g, !.topic = t]
              one == [Nothing EXCEPT !.proposals = Only(p, was)]
              two == [Nothing EXCEPT !.proposals = Only(p, is)]
              todo == IF was.assigned # 0 THEN {p} ELSE {}
              s == [loaded |-> one, held |-> two, decides |-> 0, todo |-> todo]
  <1>1. was \in Proposal /\ was.assigned <= Len(apps) /\ Len(apps) \in Nat
    BY AssignmentFacts
  <1>2. is \in Proposal /\ is.assigned = was.assigned /\ is.login = was.login /\ is.live = was.live
    BY <1>1 DEF Proposal
  <1>6. InSession(h, s)
    BY DEF RewriteBegins
  <1>. HIDE DEF was, is
  <1>3. /\ one.apps = None /\ one.shown = None /\ two.apps = None /\ two.shown = None
        /\ one = [apps |-> None, proposals |-> Only(p, was), shown |-> None]
        /\ two = [apps |-> None, proposals |-> Only(p, is), shown |-> None]
        /\ one.proposals = Only(p, was) /\ two.proposals = Only(p, is)
    BY DEF Nothing
  <1>4. /\ Only(p, was) \in Rows(Proposals, Proposal) /\ DOMAIN Only(p, was) = {p} /\ Only(p, was)[p] = was
        /\ Only(p, is) \in Rows(Proposals, Proposal) /\ DOMAIN Only(p, is) = {p} /\ Only(p, is)[p] = is
    <2>1. was \in Proposal /\ is \in Proposal
      BY <1>1, <1>2
    <2>. QED BY <2>1, OnlyIs
  <1>5. one \in Copies /\ two \in Copies
    BY <1>3, <1>4, NoneIs DEF Copies
  <1>7. s.loaded = one /\ s.held = two /\ s.decides = 0 /\ s.todo = todo
    OBVIOUS
  <1>. HIDE DEF one, two
  <1>8. s \in Session
    BY <1>5, SomeConstants DEF Session
  <1>. HIDE DEF s
  <1>9. DOMAIN None = {}
    BY DEF None
  <1>10. Tracked(s, p, Len(apps))
    BY <1>1, <1>2, <1>3, <1>4, <1>7, <1>9 DEF Tracked
  <1>11. Knows(s, Len(apps))
    BY <1>1, <1>3, <1>4, <1>7, <1>8, <1>9, <1>10 DEF Knows
  <1>. QED BY <1>6, <1>11, InSessionKeeps

LEMMA ReconcilesKeeps ==
  ASSUME AssignmentInv, NEW h \in Handlers, NEW p \in Proposals, Reconciles(h, p)
  PROVE  AssignmentInv'
  <1>. DEFINE s == sessions[h]
              n == Len(apps)
              was == s.loaded.proposals[p]
              is == s.held.proposals[p]
              i == is.assigned
              copies == Loading(s.held.apps, i, apps[i])
              sources == Loading(s.loaded.apps, i, apps[i])
              row == Reconciled(is, copies[i], Newest(apps, i))
              before == Loading(s.loaded.shown, p, shown[p])
              after == Loading(s.held.shown, p, Synced(shown[p], row.login))
              rows == [s.held.proposals EXCEPT ![p] = row]
              one == [apps |-> sources, proposals |-> s.loaded.proposals, shown |-> before]
              t == [loaded |-> one, held |-> [apps |-> copies, proposals |-> rows, shown |-> after],
                    decides |-> 0, todo |-> s.todo \ {p}]
  <1>1. Knows(s, n) /\ p \in s.todo /\ InSession(h, t)
    BY DEF Reconciles, AssignmentInv
  <1>2. n \in Nat /\ n <= MaxApplications /\ shown[p] \in Shown /\ \A j \in 1..n : apps[j] \in Application /\ j \in AppId
    BY AssignmentFacts
  <1>. HIDE DEF s, n
  <1>3. /\ s.loaded \in Copies /\ s.held \in Copies /\ s.todo \subseteq Proposals
        /\ s.loaded.apps \in Rows(AppId, Application) /\ s.held.apps \in Rows(AppId, Application)
        /\ s.loaded.proposals \in Rows(Proposals, Proposal) /\ s.held.proposals \in Rows(Proposals, Proposal)
        /\ s.loaded.shown \in Rows(Proposals, Shown) /\ s.held.shown \in Rows(Proposals, Shown)
        /\ \A j \in DOMAIN s.loaded.apps: s.held.apps[j] \in Application
        /\ \A q \in DOMAIN s.loaded.proposals: /\ q \in Proposals /\ s.loaded.proposals[q] \in Proposal
                                               /\ s.held.proposals[q] \in Proposal
    BY <1>1, SessionFacts
  <1>4. /\ DOMAIN s.held.apps = DOMAIN s.loaded.apps /\ DOMAIN s.loaded.apps \subseteq 1..n
        /\ DOMAIN s.held.proposals = DOMAIN s.loaded.proposals /\ p \in DOMAIN s.loaded.proposals
        /\ DOMAIN s.held.shown = DOMAIN s.loaded.shown /\ DOMAIN s.loaded.shown \subseteq DOMAIN s.loaded.proposals
        /\ s.todo \subseteq DOMAIN s.loaded.proposals
        /\ \A q \in DOMAIN s.loaded.proposals: Tracked(s, q, n)
    BY <1>1 DEF Knows
  <1>5. was \in Proposal /\ is \in Proposal
    BY <1>3, <1>4
  <1>6. /\ was.assigned <= n /\ was.assigned # 0 /\ is.live = was.live /\ p \notin DOMAIN s.loaded.shown
        /\ i = was.assigned
    BY <1>1, <1>4 DEF Tracked
  <1>7. i \in 1..n /\ i \in AppId /\ apps[i] \in Application
    <2>1. i \in Nat
      BY <1>5, SomeConstants DEF Proposal
    <2>2. i \in 1..n
      BY <2>1, <1>2, <1>6
    <2>. QED BY <2>2, <1>2
  <1>. HIDE DEF was, is, i
  <1>8. /\ copies \in Rows(AppId, Application) /\ DOMAIN copies = DOMAIN s.held.apps \cup {i}
        /\ (\A j \in DOMAIN s.held.apps: copies[j] = s.held.apps[j])
        /\ i \notin DOMAIN s.held.apps => copies[i] = apps[i]
    <2>1. copies \in Rows(AppId, Application)
      BY <1>3, <1>7, LoadingIn
    <2>2. /\ DOMAIN copies = DOMAIN s.held.apps \cup {i}
          /\ (\A j \in DOMAIN s.held.apps: copies[j] = s.held.apps[j])
          /\ i \notin DOMAIN s.held.apps => copies[i] = apps[i]
      BY DEF Loading
    <2>. QED BY <2>1, <2>2
  <1>9. /\ sources \in Rows(AppId, Application) /\ DOMAIN sources = DOMAIN s.loaded.apps \cup {i}
    <2>1. sources \in Rows(AppId, Application)
      BY <1>3, <1>7, LoadingIn
    <2>. QED BY <2>1 DEF Loading
  <1>10. copies[i] \in Application
    BY <1>3, <1>4, <1>7, <1>8
  <1>. HIDE DEF copies, sources
  <1>11. /\ row \in Proposal /\ row.assigned \in {0, i} /\ row.live = is.live
         /\ row.assigned # 0 => Matches(row, copies[i]) /\ row.login = copies[i].github
    BY <1>5, <1>10, ReconciledIs DEF i
  <1>. HIDE DEF row
  <1>12. Synced(shown[p], row.login) \in Shown
    BY <1>2, <1>11, SyncedIs DEF Proposal
  <1>13. /\ before \in Rows(Proposals, Shown) /\ DOMAIN before = DOMAIN s.loaded.shown \cup {p}
         /\ (\A q \in DOMAIN s.loaded.shown: before[q] = s.loaded.shown[q])
         /\ before[p] = shown[p]
    <2>1. before \in Rows(Proposals, Shown)
      BY <1>2, <1>3, LoadingIn
    <2>2. /\ DOMAIN before = DOMAIN s.loaded.shown \cup {p}
          /\ (\A q \in DOMAIN s.loaded.shown: before[q] = s.loaded.shown[q])
          /\ p \notin DOMAIN s.loaded.shown => before[p] = shown[p]
      BY DEF Loading
    <2>. QED BY <2>1, <2>2, <1>6
  <1>14. /\ after \in Rows(Proposals, Shown) /\ DOMAIN after = DOMAIN s.held.shown \cup {p}
         /\ (\A q \in DOMAIN s.held.shown: after[q] = s.held.shown[q])
         /\ after[p] = Synced(shown[p], row.login)
    <2>1. p \notin DOMAIN s.held.shown
      BY <1>4, <1>6
    <2>2. after \in Rows(Proposals, Shown)
      BY <1>3, <1>12, LoadingIn
    <2>3. /\ DOMAIN after = DOMAIN s.held.shown \cup {p}
          /\ (\A q \in DOMAIN s.held.shown: after[q] = s.held.shown[q])
          /\ p \notin DOMAIN s.held.shown => after[p] = Synced(shown[p], row.login)
      BY DEF Loading
    <2>. QED BY <2>1, <2>2, <2>3
  <1>15. /\ DOMAIN rows = DOMAIN s.held.proposals /\ rows[p] = row
         /\ \A q \in DOMAIN s.held.proposals: q # p => rows[q] = s.held.proposals[q]
    BY <1>4
  <1>16. rows \in Rows(Proposals, Proposal)
    <2>1. DOMAIN s.held.proposals \in SUBSET Proposals /\ s.held.proposals \in [DOMAIN s.held.proposals -> Proposal]
      BY <1>3, RowsOut
    <2>2. rows \in [DOMAIN s.held.proposals -> Proposal]
      BY <2>1, <1>11
    <2>. HIDE DEF rows
    <2>. QED BY <2>1, <2>2, RowsIn
  <1>. HIDE DEF rows, after
  <1>17. one = [apps |-> sources, proposals |-> s.loaded.proposals, shown |-> before]
    OBVIOUS
  <1>. HIDE DEF one, before
  <1>18. /\ t.loaded.apps = sources /\ t.loaded.proposals = s.loaded.proposals /\ t.loaded.shown = before
         /\ t.held.apps = copies /\ t.held.proposals = rows /\ t.held.shown = after
         /\ t.decides = 0 /\ t.todo = s.todo \ {p} /\ t.loaded = one
    BY <1>17
  <1>19. t \in Session
    <2>1. one \in Copies
      BY <1>3, <1>9, <1>13, <1>17 DEF Copies
    <2>2. [apps |-> copies, proposals |-> rows, shown |-> after] \in Copies
      BY <1>8, <1>14, <1>16 DEF Copies
    <2>3. s.todo \ {p} \in SUBSET Proposals
      BY <1>3
    <2>. QED BY <2>1, <2>2, <2>3, SomeConstants DEF Session
  <1>. HIDE DEF t
  <1>20. Tracked(t, p, n)
    <2>1. p \in DOMAIN t.loaded.shown /\ p \notin t.todo /\ t.loaded.proposals[p] = was /\ t.held.proposals[p] = row
      BY <1>13, <1>15, <1>18 DEF was
    <2>2. t.held.shown[p] = Synced(t.loaded.shown[p], row.login) /\ was.assigned \in DOMAIN t.held.apps
      BY <1>6, <1>8, <1>13, <1>14, <1>18
    <2>. QED BY <2>1, <2>2, <1>6, <1>11, <1>18 DEF Tracked
  <1>21. ASSUME NEW q \in DOMAIN t.loaded.proposals, q # p PROVE Tracked(t, q, n)
    <2>1. Tracked(s, q, n) /\ q \in DOMAIN s.held.proposals
      BY <1>4, <1>18, <1>21
    <2>2. t.loaded.proposals[q] = s.loaded.proposals[q] /\ t.held.proposals[q] = s.held.proposals[q]
      BY <2>1, <1>15, <1>18, <1>21
    <2>3. (q \in DOMAIN t.loaded.shown <=> q \in DOMAIN s.loaded.shown) /\ (q \in t.todo <=> q \in s.todo)
      BY <1>13, <1>18, <1>21
    <2>4. q \in DOMAIN s.loaded.shown => /\ t.loaded.shown[q] = s.loaded.shown[q]
                                         /\ t.held.shown[q] = s.held.shown[q]
      BY <1>4, <1>13, <1>14, <1>18
    <2>5. \A j \in DOMAIN s.held.apps : j \in DOMAIN t.held.apps /\ t.held.apps[j] = s.held.apps[j]
      BY <1>8, <1>18
    <2>. QED BY <2>1, <2>2, <2>3, <2>4, <2>5 DEF Tracked
  <1>22. Knows(t, n)
    <2>1. DOMAIN t.held.apps = DOMAIN t.loaded.apps /\ DOMAIN t.loaded.apps \subseteq 1..n
      BY <1>4, <1>7, <1>8, <1>9, <1>18
    <2>2. /\ DOMAIN t.held.shown = DOMAIN t.loaded.shown /\ DOMAIN t.loaded.shown \subseteq DOMAIN t.loaded.proposals
          /\ DOMAIN t.held.proposals = DOMAIN t.loaded.proposals /\ t.todo \subseteq DOMAIN t.loaded.proposals
      BY <1>4, <1>13, <1>14, <1>15, <1>18
    <2>3. \A q \in DOMAIN t.loaded.proposals: Tracked(t, q, n)
      BY <1>20, <1>21
    <2>. QED BY <2>1, <2>2, <2>3, <1>2, <1>18, <1>19 DEF Knows
  <1>. QED BY <1>1, <1>22, InSessionKeeps DEF n

-----------------------------------------------------------------------------
(* A step that leaves the sessions alone, and what it keeps.               *)
Stays ==
  /\ AssignmentInv'
  /\ \A p \in Proposals: (Eligible(p) => Eligible(p)') /\ (Aligned(p) => Aligned(p)')

LEMMA TablesKeep ==
  ASSUME AssignmentInv, UNCHANGED sessions,
         apps' \in Seq(Application), Len(apps) <= Len(apps'), Len(apps') <= MaxApplications,
         proposals' \in [Proposals -> Proposal], shown' \in [Proposals -> Shown],
         \A p \in Proposals: proposals'[p].assigned <= Len(apps')
  PROVE  AssignmentInv'
  <1>1. \A h \in Handlers: Knows(sessions[h], Len(apps'))
    <2>1. Len(apps) \in Nat /\ Len(apps') \in Nat
      BY AssignmentFacts
    <2>. QED BY <2>1, KnowsMore DEF AssignmentInv
  <1>. QED BY <1>1 DEF AssignmentInv

LEMMA ApplyKeeps == ASSUME AssignmentInv, NEW u \in Accounts, NEW t \in AppliedFor, Apply(u, t) PROVE Stays
  <1>. DEFINE app == [user |-> u, github |-> u, topic |-> t, approved |-> FALSE]
              replaced == {p \in Proposals: proposals[p].assigned # 0 /\ apps[proposals[p].assigned].user = u}
  <1>1. /\ apps \in Seq(Application) /\ Len(apps) \in Nat /\ proposals \in [Proposals -> Proposal]
        /\ shown \in [Proposals -> Shown]
        /\ \A p \in Proposals: proposals[p] \in Proposal /\ proposals[p].assigned <= Len(apps) /\ shown[p] \in Shown
        /\ \A i \in 1..Len(apps): apps[i] \in Application
    BY AssignmentFacts
  <1>2. app \in Application
    BY AssignmentAssumption DEF Application, Login
  <1>3. apps' = Append(apps, app) /\ Len(apps) < MaxApplications /\ UNCHANGED sessions
    BY DEF Apply
  <1>. HIDE DEF app
  <1>4. /\ apps' \in Seq(Application) /\ Len(apps') = Len(apps) + 1
        /\ \A i \in 1..Len(apps): apps'[i] = apps[i]
    BY <1>1, <1>2, <1>3
  <1>5. \A p \in Proposals: /\ proposals[p].assigned \in Nat /\ proposals[p].login \in Login
                            /\ proposals[p].assigned # 0 => proposals[p].assigned \in 1..Len(apps)
    BY <1>1, SomeConstants DEF Proposal
  <1>6. \A p \in Proposals: proposals'[p] = IF p \notin replaced THEN proposals[p]
          ELSE Reconciled(proposals[p], apps[proposals[p].assigned], Newest(apps', proposals[p].assigned))
    BY DEF Apply
  <1>7. \A p \in Proposals: shown'[p] = IF p \in replaced THEN Synced(shown[p], proposals'[p].login) ELSE shown[p]
    BY DEF Apply
  <1>8. DOMAIN proposals' = Proposals /\ DOMAIN shown' = Proposals
        /\ proposals' = [p \in Proposals |-> proposals'[p]] /\ shown' = [p \in Proposals |-> shown'[p]]
    BY DEF Apply
  <1>9. ASSUME NEW p \in Proposals
        PROVE  /\ proposals'[p] \in Proposal /\ proposals'[p].assigned <= Len(apps') /\ shown'[p] \in Shown
               /\ (Eligible(p) => Eligible(p)') /\ (Aligned(p) => Aligned(p)')
    <2>1. CASE p \notin replaced
      <3>1. proposals'[p] = proposals[p] /\ shown'[p] = shown[p]
        BY <2>1, <1>6, <1>7
      <3>2. proposals[p].assigned <= Len(apps')
        BY <1>1, <1>4, <1>5
      <3>. QED BY <3>1, <3>2, <1>1, <1>4, <1>5 DEF Eligible, Aligned, Matches
    <2>2. CASE p \in replaced
      <3>. DEFINE i == proposals[p].assigned
                  row == Reconciled(proposals[p], apps[i], Newest(apps', i))
      <3>1. i \in 1..Len(apps) /\ apps[i] \in Application /\ proposals[p] \in Proposal
        BY <2>2, <1>1, <1>5
      <3>2. /\ row \in Proposal /\ row.assigned \in {0, i}
            /\ row.assigned # 0 => Matches(row, apps[i]) /\ row.login = apps[i].github
        BY <3>1, ReconciledIs
      <3>3. proposals'[p] = row /\ shown'[p] = Synced(shown[p], row.login)
        BY <2>2, <1>6, <1>7
      <3>. HIDE DEF row
      <3>4. shown'[p] \in Shown
        BY <3>2, <3>3, <1>1, SyncedIs DEF Proposal
      <3>5. row.assigned <= Len(apps')
        BY <3>1, <3>2, <1>1, <1>4
      <3>6. Eligible(p)'
        BY <3>1, <3>2, <3>3, <1>4 DEF Eligible
      <3>7. Aligned(p)'
        BY <3>3 DEF Aligned, Synced
      <3>. QED BY <3>2, <3>3, <3>4, <3>5, <3>6, <3>7
    <2>. QED BY <2>1, <2>2
  <1>10. proposals' \in [Proposals -> Proposal] /\ shown' \in [Proposals -> Shown]
    BY <1>8, <1>9
  <1>11. AssignmentInv'
    BY <1>1, <1>3, <1>4, <1>9, <1>10, SomeConstants, TablesKeep
  <1>. QED BY <1>9, <1>11 DEF Stays

LEMMA SubmittedKeeps == ASSUME AssignmentInv, NEW p \in Proposals, ReviewSubmitted(p) PROVE Stays
  <1>1. UNCHANGED <<apps, proposals, sessions>>
    BY DEF ReviewSubmitted
  <1>2. /\ apps \in Seq(Application) /\ Len(apps) \in Nat /\ Len(apps) <= MaxApplications
        /\ proposals \in [Proposals -> Proposal] /\ shown \in [Proposals -> Shown]
        /\ \A q \in Proposals: proposals[q] \in Proposal /\ proposals[q].assigned <= Len(apps)
    BY AssignmentFacts
  <1>3. proposals[p].login \in Shown /\ NoLogin \in Shown
    BY <1>2, SomeConstants DEF Proposal
  <1>4. /\ shown' \in [Proposals -> Shown]
        /\ \A q \in Proposals: shown'[q] = shown[q] \/ (q = p /\ (proposals[p].live => shown'[p] = proposals[p].login))
    BY <1>2, <1>3 DEF ReviewSubmitted
  <1>5. AssignmentInv'
    BY <1>1, <1>2, <1>4, TablesKeep
  <1>6. \A q \in Proposals: (Eligible(q) => Eligible(q)') /\ (Aligned(q) => Aligned(q)')
    BY <1>1, <1>4 DEF Eligible, Aligned, Matches
  <1>. QED BY <1>5, <1>6 DEF Stays

LEMMA DeleteKeeps == ASSUME AssignmentInv, NEW p \in Proposals, Delete(p) PROVE Stays
  <1>. DEFINE gone == [proposals[p] EXCEPT !.live = FALSE]
  <1>1. UNCHANGED <<apps, shown, sessions>>
    BY DEF Delete
  <1>2. /\ apps \in Seq(Application) /\ Len(apps) \in Nat /\ Len(apps) <= MaxApplications
        /\ proposals \in [Proposals -> Proposal] /\ shown \in [Proposals -> Shown]
        /\ \A q \in Proposals: proposals[q] \in Proposal /\ proposals[q].assigned <= Len(apps)
    BY AssignmentFacts
  <1>3. /\ gone \in Proposal /\ gone.author = proposals[p].author /\ gone.topic = proposals[p].topic /\ gone.live = FALSE
        /\ gone.assigned = proposals[p].assigned /\ gone.login = proposals[p].login
    BY <1>2 DEF Proposal
  <1>4. proposals' = [proposals EXCEPT ![p] = gone]
    BY <1>2 DEF Delete, Proposal
  <1>. HIDE DEF gone
  <1>5. /\ proposals' \in [Proposals -> Proposal]
        /\ \A q \in Proposals: /\ proposals'[q].assigned = proposals[q].assigned /\ proposals'[q].login = proposals[q].login
                               /\ proposals'[q].author = proposals[q].author /\ proposals'[q].topic = proposals[q].topic
                               /\ proposals'[q].live => proposals[q].live
    BY <1>2, <1>3, <1>4
  <1>6. AssignmentInv'
    BY <1>1, <1>2, <1>5, TablesKeep
  <1>7. \A q \in Proposals: (Eligible(q) => Eligible(q)') /\ (Aligned(q) => Aligned(q)')
    BY <1>1, <1>5 DEF Eligible, Aligned, Matches
  <1>. QED BY <1>6, <1>7 DEF Stays

(* assign_proposal_reviewer selects again under the lock.                  *)
LEMMA SaveKeeps == ASSUME AssignmentInv, SaveDialog PROVE Stays
  <1>. DEFINE p == dialog.target
              i == dialog.selected
  <1>1. UNCHANGED <<apps, sessions>>
    BY DEF SaveDialog
  <1>2. /\ apps \in Seq(Application) /\ Len(apps) \in Nat /\ Len(apps) <= MaxApplications
        /\ proposals \in [Proposals -> Proposal] /\ shown \in [Proposals -> Shown]
        /\ \A q \in Proposals: proposals[q] \in Proposal /\ proposals[q].assigned <= Len(apps) /\ shown[q] \in Shown
    BY AssignmentFacts
  <1>3. CASE UNCHANGED <<proposals, shown>>
    <2>1. AssignmentInv'
      BY <1>1, <1>2, <1>3, TablesKeep
    <2>. QED BY <2>1, <1>1, <1>3 DEF Stays, Eligible, Aligned, Matches
  <1>4. CASE Assign(p, i) /\ p \notin Proposals
    BY <1>2, <1>3, <1>4 DEF Assign
  <1>5. CASE Allowed(p, i) /\ Assign(p, i) /\ p \in Proposals
    <2>. DEFINE old == proposals[p]
                row == IF i = 0 THEN Unassigned(old) ELSE IF old.assigned = i THEN old
                       ELSE [old EXCEPT !.assigned = i, !.login = apps[i].github]
    <2>1. old \in Proposal /\ old.assigned <= Len(apps) /\ shown[p] \in Shown
      BY <1>2, <1>5
    <2>2. proposals' = [proposals EXCEPT ![p] = row] /\ shown' = [shown EXCEPT ![p] = Synced(shown[p], proposals'[p].login)]
      BY <1>5, <1>2 DEF Assign
    <2>3. /\ row \in Proposal /\ row.assigned <= Len(apps)
          /\ Eligible(p) /\ row.assigned # 0 =>
               Matches(row, apps[row.assigned]) /\ row.login = apps[row.assigned].github
      <3>1. CASE i = 0
        <4>1. row = Unassigned(old)
          BY <3>1
        <4>2. row \in Proposal
          BY <2>1, <4>1, SomeConstants DEF Unassigned, Proposal
        <4>3. row.assigned = 0
          BY <2>1, <4>1 DEF Unassigned, Proposal
        <4>. QED BY <4>2, <4>3, <1>2, SMTT(60)
      <3>2. CASE i # 0 /\ old.assigned = i
        <4>1. row = old
          BY <3>2
        <4>2. Eligible(p) /\ old.assigned # 0 =>
                Matches(old, apps[old.assigned]) /\ old.login = apps[old.assigned].github
          BY DEF Eligible
        <4>. HIDE DEF row, old
        <4>. QED BY <4>1, <4>2, <2>1
      <3>3. CASE i # 0 /\ old.assigned # i
        <4>1. i \in 1..Len(apps) /\ Matches(old, apps[i])
          BY <1>2, <1>5, <3>3 DEF Allowed, Selectable
        <4>2. apps[i] \in Application
          BY <1>2, <4>1, ElementOf
        <4>3. apps[i].github \in Login
          BY <4>2 DEF Application
        <4>4. row = [old EXCEPT !.assigned = i, !.login = apps[i].github]
          BY <3>3
        <4>5. i \in 0..MaxApplications
          BY <1>2, <4>1, SomeConstants
        <4>6. row \in Proposal
          BY <2>1, <4>3, <4>4, <4>5 DEF Proposal
        <4>7. row.assigned = i /\ row.login = apps[i].github /\ row.author = old.author /\ row.topic = old.topic
          BY <2>1, <4>4 DEF Proposal
        <4>8. Matches(row, apps[i])
          BY <4>1, <4>7 DEF Matches
        <4>9. i <= Len(apps)
          BY <4>1, <1>2
        <4>. QED BY <4>6, <4>7, <4>8, <4>9
      <3>. QED BY <3>1, <3>2, <3>3
    <2>. HIDE DEF row, p
    <2>4. /\ proposals' \in [Proposals -> Proposal] /\ proposals'[p] = row
          /\ \A q \in Proposals: q # p => proposals'[q] = proposals[q]
      BY <1>2, <1>5, <2>2, <2>3
    <2>5. Synced(shown[p], row.login) \in Shown
      BY <2>1, <2>3, SyncedIs DEF Proposal
    <2>6. /\ shown' \in [Proposals -> Shown] /\ shown'[p] = Synced(shown[p], row.login)
          /\ \A q \in Proposals: q # p => shown'[q] = shown[q]
      BY <1>2, <1>5, <2>2, <2>4, <2>5
    <2>7. AssignmentInv'
      BY <1>1, <1>2, <2>3, <2>4, <2>6, TablesKeep
    <2>8. ASSUME NEW q \in Proposals PROVE (Eligible(q) => Eligible(q)') /\ (Aligned(q) => Aligned(q)')
      <3>1. CASE q # p
        BY <3>1, <1>1, <2>4, <2>6 DEF Eligible, Aligned, Matches
      <3>2. CASE q = p
        <4>1. proposals'[q] = row /\ shown'[q] = Synced(shown[q], row.login)
          BY <3>2, <2>4, <2>6
        <4>2. Eligible(q) /\ row.assigned # 0 => Matches(row, apps[row.assigned]) /\ row.login = apps[row.assigned].github
          BY <3>2, <2>3
        <4>3. Eligible(q) => Eligible(q)'
          BY <1>1, <4>1, <4>2 DEF Eligible
        <4>4. Aligned(q)'
          BY <4>1 DEF Aligned, Synced
        <4>. QED BY <4>3, <4>4
      <3>. QED BY <3>1, <3>2
    <2>. QED BY <2>7, <2>8 DEF Stays
  <1>6. (Allowed(p, i) /\ Assign(p, i)) \/ UNCHANGED <<proposals, shown>>
    BY DEF SaveDialog
  <1>. QED BY <1>3, <1>4, <1>5, <1>6

(* What leaves the tables as they are keeps everything.                    *)
LEMMA SameTables == ASSUME AssignmentInv', UNCHANGED tables PROVE Stays
  BY DEF Stays, tables, Eligible, Aligned, Matches

LEMMA DialogKeeps == ASSUME AssignmentInv, UNCHANGED <<tables, sessions>> PROVE Stays
  <1>1. AssignmentInv'
    BY DEF AssignmentInv, tables
  <1>. QED BY <1>1, SameTables

-----------------------------------------------------------------------------
(* What a commit writes of a row: the columns that the session changed.    *)
LEMMA WrittenApplication ==
  ASSUME NEW x \in Application, NEW y \in Application, NEW z \in Application
  PROVE  /\ Written(x, y, z) \in Application
         /\ x = y => /\ Written(x, y, z).approved = z.approved /\ Written(x, y, z).github = z.github
                     /\ Written(x, y, z).topic = z.topic
         /\ x = z => /\ Written(x, y, z).approved = y.approved /\ Written(x, y, z).github = y.github
                     /\ Written(x, y, z).topic = y.topic
  <1>. DEFINE out == Written(x, y, z)
  <1>1. DOMAIN z = {"user", "github", "topic", "approved"}
    BY DEF Application
  <1>2. out = [user |-> IF y.user # x.user THEN y.user ELSE z.user,
               github |-> IF y.github # x.github THEN y.github ELSE z.github,
               topic |-> IF y.topic # x.topic THEN y.topic ELSE z.topic,
               approved |-> IF y.approved # x.approved THEN y.approved ELSE z.approved]
    BY <1>1 DEF Written
  <1>. HIDE DEF out
  <1>. QED BY <1>2 DEF Application, out

LEMMA WrittenProposal ==
  ASSUME NEW x \in Proposal, NEW y \in Proposal, NEW z \in Proposal
  PROVE  /\ Written(x, y, z) \in Proposal
         /\ Written(x, y, z).assigned \in {y.assigned, z.assigned}
         /\ x = z => /\ Written(x, y, z).author = y.author /\ Written(x, y, z).topic = y.topic
                     /\ Written(x, y, z).live = y.live /\ Written(x, y, z).login = y.login
                     /\ Written(x, y, z).assigned = y.assigned
  <1>. DEFINE out == Written(x, y, z)
  <1>1. DOMAIN z = {"author", "topic", "live", "assigned", "login"}
    BY DEF Proposal
  <1>2. out = [author |-> IF y.author # x.author THEN y.author ELSE z.author,
               topic |-> IF y.topic # x.topic THEN y.topic ELSE z.topic,
               live |-> IF y.live # x.live THEN y.live ELSE z.live,
               assigned |-> IF y.assigned # x.assigned THEN y.assigned ELSE z.assigned,
               login |-> IF y.login # x.login THEN y.login ELSE z.login]
    BY <1>1 DEF Written
  <1>. HIDE DEF out
  <1>. QED BY <1>2 DEF Proposal, out

(* The commit of a session, by row.                                        *)
LEMMA CommitIs ==
  ASSUME AssignmentInv, NEW h \in Handlers, Commits(h), NEW s, s = sessions[h]
  PROVE  /\ Knows(s, Len(apps)) /\ s.todo = {}
         /\ apps' \in Seq(Application) /\ Len(apps') = Len(apps)
         /\ \A i \in 1..Len(apps): /\ apps[i] \in Application
                                   /\ apps'[i] = IF i \in DOMAIN s.loaded.apps
                                                 THEN Written(s.loaded.apps[i], s.held.apps[i], apps[i]) ELSE apps[i]
         /\ \A p \in Proposals: /\ proposals[p] \in Proposal
                                /\ proposals'[p] = IF p \in DOMAIN s.loaded.proposals
                                     THEN Written(s.loaded.proposals[p], s.held.proposals[p], proposals[p]) ELSE proposals[p]
                                /\ shown'[p] = IF p \in DOMAIN s.loaded.shown /\ s.held.shown[p] # s.loaded.shown[p]
                                               THEN s.held.shown[p] ELSE shown[p]
         /\ proposals' \in [Proposals -> Proposal] /\ shown' \in [Proposals -> Shown]
         /\ \A p \in Proposals: proposals'[p].assigned <= Len(apps)
         /\ sessions' = [sessions EXCEPT ![h] = Idle]
  <1>. DEFINE n == Len(apps)
  <1>1. Knows(s, n) /\ s.todo = {}
    BY DEF AssignmentInv, Commits, Ready
  <1>2. /\ apps \in Seq(Application) /\ n \in Nat /\ DOMAIN apps = 1..n
        /\ proposals \in [Proposals -> Proposal] /\ shown \in [Proposals -> Shown]
        /\ \A p \in Proposals: proposals[p] \in Proposal /\ proposals[p].assigned <= n /\ shown[p] \in Shown
        /\ \A i \in 1..n: apps[i] \in Application
    BY AssignmentFacts
  <1>3. /\ \A i \in DOMAIN s.loaded.apps: s.loaded.apps[i] \in Application /\ s.held.apps[i] \in Application
        /\ \A p \in DOMAIN s.loaded.proposals: /\ p \in Proposals /\ s.loaded.proposals[p] \in Proposal
                                               /\ s.held.proposals[p] \in Proposal
        /\ \A p \in DOMAIN s.loaded.shown: s.loaded.shown[p] \in Shown /\ s.held.shown[p] \in Shown
    BY <1>1, SessionFacts
  <1>4. /\ DOMAIN s.held.apps = DOMAIN s.loaded.apps /\ DOMAIN s.held.proposals = DOMAIN s.loaded.proposals
        /\ DOMAIN s.held.shown = DOMAIN s.loaded.shown
        /\ \A p \in DOMAIN s.loaded.proposals: Tracked(s, p, n)
    BY <1>1 DEF Knows
  <1>. DEFINE app(i) == IF i \in DOMAIN s.loaded.apps
                        THEN Written(s.loaded.apps[i], s.held.apps[i], apps[i]) ELSE apps[i]
              row(p) == IF p \in DOMAIN s.loaded.proposals
                        THEN Written(s.loaded.proposals[p], s.held.proposals[p], proposals[p]) ELSE proposals[p]
              name(p) == IF p \in DOMAIN s.loaded.shown /\ s.held.shown[p] # s.loaded.shown[p]
                         THEN s.held.shown[p] ELSE shown[p]
  <1>5. /\ apps' = [i \in 1..n |-> app(i)] /\ proposals' = [p \in Proposals |-> row(p)]
        /\ shown' = [p \in Proposals |-> name(p)] /\ sessions' = [sessions EXCEPT ![h] = Idle]
    BY <1>2, <1>4 DEF Commits
  <1>6. \A i \in 1..n: app(i) \in Application
    BY <1>2, <1>3, WrittenApplication
  <1>7. \A p \in Proposals: row(p) \in Proposal
    BY <1>2, <1>3, WrittenProposal
  <1>8. \A p \in Proposals: row(p).assigned <= n
    <2>. SUFFICES ASSUME NEW p \in Proposals, p \in DOMAIN s.loaded.proposals PROVE row(p).assigned <= n
      BY <1>2
    <2>1. row(p).assigned \in {s.held.proposals[p].assigned, proposals[p].assigned}
      BY <1>2, <1>3, WrittenProposal
    <2>2. s.held.proposals[p].assigned <= n
      <3>1. s.held.proposals[p].assigned \in {0, s.loaded.proposals[p].assigned} /\ s.loaded.proposals[p].assigned <= n
        BY <1>4 DEF Tracked
      <3>. QED BY <3>1, <1>2
    <2>. QED BY <2>1, <2>2, <1>2
  <1>9. \A p \in Proposals: name(p) \in Shown
    BY <1>2, <1>3
  <1>. HIDE DEF app, row, name
  <1>10. apps' \in Seq(Application) /\ Len(apps') = n /\ \A i \in 1..n: apps'[i] = app(i)
    BY <1>2, <1>5, <1>6
  <1>11. /\ proposals' \in [Proposals -> Proposal] /\ shown' \in [Proposals -> Shown]
         /\ \A p \in Proposals: proposals'[p] = row(p) /\ shown'[p] = name(p)
    BY <1>5, <1>7, <1>9
  <1>. QED BY <1>1, <1>2, <1>5, <1>8, <1>10, <1>11 DEF app, row, name

LEMMA CommitsKeeps == ASSUME AssignmentInv, NEW h \in Handlers, Commits(h) PROVE AssignmentInv'
  <1>1. /\ apps' \in Seq(Application) /\ Len(apps') = Len(apps)
        /\ proposals' \in [Proposals -> Proposal] /\ shown' \in [Proposals -> Shown]
        /\ \A p \in Proposals: proposals'[p].assigned <= Len(apps)
        /\ sessions' = [sessions EXCEPT ![h] = Idle]
    BY CommitIs
  <1>2. Len(apps) \in Nat /\ Len(apps) <= MaxApplications
    BY AssignmentFacts
  <1>3. DOMAIN sessions' = Handlers /\ \A g \in Handlers: Knows(sessions'[g], Len(apps))
    BY <1>1, <1>2, IdleKnows DEF AssignmentInv
  <1>. QED BY <1>1, <1>2, <1>3 DEF AssignmentInv

(* A session that was not overtaken writes rows that belong together.      *)
LEMMA CommitEligible ==
  ASSUME AssignmentInv, NEW h \in Handlers, Commits(h), NEW p \in Proposals, ~ Overtaken(h, p),
         Eligible(p) \/ p \in DOMAIN sessions[h].loaded.proposals
  PROVE  Eligible(p)'
  <1>. DEFINE s == sessions[h]
              was == proposals[p]
              is == s.held.proposals[p]
              out == proposals'[p]
              i == was.assigned
  <1>1. /\ Knows(s, Len(apps)) /\ s.todo = {}
        /\ \A j \in 1..Len(apps): /\ apps[j] \in Application
                                  /\ apps'[j] = IF j \in DOMAIN s.loaded.apps
                                                THEN Written(s.loaded.apps[j], s.held.apps[j], apps[j]) ELSE apps[j]
        /\ was \in Proposal
        /\ out = IF p \in DOMAIN s.loaded.proposals THEN Written(s.loaded.proposals[p], is, was) ELSE was
    BY CommitIs
  <1>2. Len(apps) \in Nat /\ was.assigned <= Len(apps)
    BY AssignmentFacts
  <1>3. /\ \A j \in DOMAIN s.loaded.apps: s.loaded.apps[j] \in Application /\ s.held.apps[j] \in Application
        /\ p \in DOMAIN s.loaded.proposals => s.loaded.proposals[p] \in Proposal /\ is \in Proposal
    BY <1>1, SessionFacts
  <1>4. i # 0 => i \in 1..Len(apps)
    BY <1>1, <1>2, SomeConstants DEF Proposal
  <1>5. CASE p \in DOMAIN s.loaded.proposals
    <2>1. was = s.loaded.proposals[p] /\ (i \in DOMAIN s.loaded.apps => apps[i] = s.loaded.apps[i])
      BY <1>5 DEF Overtaken
    <2>2. Tracked(s, p, Len(apps)) /\ DOMAIN s.held.apps = DOMAIN s.loaded.apps
      BY <1>1, <1>5 DEF Knows
    <2>3. /\ out.author = is.author /\ out.topic = is.topic /\ out.assigned = is.assigned /\ out.login = is.login
      BY <1>1, <1>3, <1>5, <2>1, WrittenProposal
    <2>4. CASE i = 0
      <3>1. is.assigned = 0
        BY <2>1, <2>2, <2>4 DEF Tracked
      <3>. QED BY <3>1, <2>3 DEF Eligible
    <2>5. CASE i # 0 /\ is.assigned # 0
      <3>1. /\ i \in DOMAIN s.held.apps /\ is.assigned = i
            /\ Matches(is, s.held.apps[i]) /\ is.login = s.held.apps[i].github
        BY <1>1, <2>1, <2>2, <2>5 DEF Tracked
      <3>2. apps'[i] = Written(s.loaded.apps[i], s.held.apps[i], apps[i]) /\ apps[i] = s.loaded.apps[i]
        BY <1>1, <1>4, <2>1, <2>2, <2>5, <3>1
      <3>3. s.loaded.apps[i] \in Application /\ s.held.apps[i] \in Application
        BY <1>3, <2>2, <3>1
      <3>4. /\ apps'[i].approved = s.held.apps[i].approved /\ apps'[i].github = s.held.apps[i].github
            /\ apps'[i].topic = s.held.apps[i].topic
        BY <3>2, <3>3, WrittenApplication
      <3>. QED BY <2>3, <3>1, <3>4 DEF Eligible, Matches
    <2>6. CASE is.assigned = 0
      BY <2>3, <2>6 DEF Eligible
    <2>. QED BY <2>4, <2>5, <2>6
  <1>6. CASE p \notin DOMAIN s.loaded.proposals
    <2>1. out = was /\ Eligible(p) /\ (i \in DOMAIN s.loaded.apps => s.held.apps[i] = s.loaded.apps[i])
      BY <1>1, <1>6 DEF Overtaken
    <2>2. CASE i = 0
      BY <2>1, <2>2 DEF Eligible
    <2>3. CASE i # 0
      <3>1. /\ apps'[i].approved = apps[i].approved /\ apps'[i].github = apps[i].github /\ apps'[i].topic = apps[i].topic
        <4>1. CASE i \notin DOMAIN s.loaded.apps
          BY <4>1, <1>1, <1>4, <2>3
        <4>2. CASE i \in DOMAIN s.loaded.apps
          <5>1. apps'[i] = Written(s.loaded.apps[i], s.held.apps[i], apps[i]) /\ s.loaded.apps[i] = s.held.apps[i]
            BY <4>2, <1>1, <1>4, <2>1, <2>3
          <5>2. s.loaded.apps[i] \in Application /\ s.held.apps[i] \in Application /\ apps[i] \in Application
            BY <4>2, <1>1, <1>3, <1>4, <2>3
          <5>. QED BY <5>1, <5>2, WrittenApplication
        <4>. QED BY <4>1, <4>2
      <3>. QED BY <2>1, <3>1 DEF Eligible, Matches
    <2>. QED BY <2>2, <2>3
  <1>. QED BY <1>5, <1>6

LEMMA CommitAligned ==
  ASSUME AssignmentInv, NEW h \in Handlers, Commits(h), NEW p \in Proposals, ~ Overtaken(h, p),
         Aligned(p) \/ p \in DOMAIN sessions[h].loaded.shown
  PROVE  Aligned(p)'
  <1>. DEFINE s == sessions[h]
              was == proposals[p]
              is == s.held.proposals[p]
              out == proposals'[p]
  <1>1. /\ Knows(s, Len(apps)) /\ was \in Proposal
        /\ out = IF p \in DOMAIN s.loaded.proposals THEN Written(s.loaded.proposals[p], is, was) ELSE was
        /\ shown'[p] = IF p \in DOMAIN s.loaded.shown /\ s.held.shown[p] # s.loaded.shown[p]
                       THEN s.held.shown[p] ELSE shown[p]
    BY CommitIs
  <1>2. p \in DOMAIN s.loaded.proposals => s.loaded.proposals[p] \in Proposal /\ is \in Proposal
    BY <1>1, SessionFacts
  <1>3. CASE p \notin DOMAIN s.loaded.proposals
    <2>1. p \notin DOMAIN s.loaded.shown
      BY <1>1, <1>3 DEF Knows
    <2>. QED BY <2>1, <1>1, <1>3 DEF Aligned
  <1>4. CASE p \in DOMAIN s.loaded.proposals
    <2>1. was = s.loaded.proposals[p] /\ (p \in DOMAIN s.loaded.shown => shown[p] = s.loaded.shown[p])
      BY <1>4 DEF Overtaken
    <2>2. Tracked(s, p, Len(apps))
      BY <1>1, <1>4 DEF Knows
    <2>3. out.live = is.live /\ out.login = is.login
      BY <1>1, <1>2, <1>4, <2>1, WrittenProposal
    <2>4. CASE p \notin DOMAIN s.loaded.shown
      <3>1. is.login = was.login /\ is.live = was.live /\ shown'[p] = shown[p]
        BY <1>1, <2>1, <2>2, <2>4 DEF Tracked
      <3>. QED BY <3>1, <2>3, <2>4 DEF Aligned
    <2>5. CASE p \in DOMAIN s.loaded.shown
      <3>1. s.held.shown[p] = Synced(shown[p], is.login)
        BY <2>1, <2>2, <2>5 DEF Tracked
      <3>2. shown'[p] = s.held.shown[p]
        BY <1>1, <2>1, <2>5
      <3>. QED BY <3>1, <3>2, <2>3 DEF Aligned, Synced
    <2>. QED BY <2>4, <2>5
  <1>. QED BY <1>3, <1>4

(* The steps, as those of sessions, the others, and commits.               *)
LEMMA AssignmentSteps ==
  ASSUME AssignmentInv, [AssignmentNext]_avars
  PROVE  Stays \/ (AssignmentInv' /\ \E h \in Handlers: Commits(h))
  <1>1. CASE UNCHANGED avars
    BY <1>1, DialogKeeps DEF avars
  <1>2. CASE \E p \in Proposals: ReviewSubmitted(p) \/ Delete(p)
    BY <1>2, SubmittedKeeps, DeleteKeeps
  <1>3. CASE \E u \in Accounts, t \in AppliedFor: Apply(u, t)
    BY <1>3, ApplyKeeps
  <1>4. ASSUME NEW h \in Handlers,
               \/ \E i \in DOMAIN apps, g \in Login, a \in BOOLEAN: DecideBegins(h, i, g, a)
               \/ \E p \in Proposals, g \in Login, t \in Topics: RewriteBegins(h, p, g, t)
               \/ DecideLoads(h) \/ (\E p \in Proposals: Reconciles(h, p)) \/ Fails(h)
        PROVE  Stays
    <2>1. UNCHANGED tables
      BY <1>4 DEF DecideBegins, RewriteBegins, DecideLoads, Reconciles, Fails, InSession
    <2>2. Fails(h) => AssignmentInv'
      BY IdleKnows, InSessionKeeps, AssignmentFacts DEF Fails
    <2>3. AssignmentInv'
      BY <1>4, <2>2, DecideBeginsKeeps, RewriteBeginsKeeps, DecideLoadsKeeps, ReconcilesKeeps
    <2>. QED BY <2>1, <2>3, SameTables
  <1>5. CASE SaveDialog
    BY <1>5, SaveKeeps
  <1>6. CASE \/ \E p \in Proposals: OpenDialog(p, 0) \/ OpenDialog(p, proposals[p].assigned)
             \/ \E a \in asks: CandidatesArrive(a) \/ CandidatesFail(a)
             \/ CloseDialog \/ \E i \in 0..Len(apps): Choose(i)
    <2>1. UNCHANGED <<tables, sessions>>
      BY <1>6 DEF OpenDialog, CandidatesArrive, CandidatesFail, CloseDialog, Choose
    <2>. QED BY <2>1, DialogKeeps
  <1>7. CASE \E h \in Handlers: Commits(h)
    BY <1>7, CommitsKeeps
  <1>. QED BY <1>1, <1>2, <1>3, <1>4, <1>5, <1>6, <1>7 DEF AssignmentNext

LEMMA AssignmentInvariant == AssignmentSpec => []AssignmentInv
  <1>1. AssignmentInv /\ [AssignmentNext]_avars => AssignmentInv'
    BY AssignmentSteps DEF Stays
  <1>. QED BY <1>1, AssignmentStart, PTL DEF AssignmentSpec

LEMMA EligibleStep ==
  ASSUME AssignmentInv, [AssignmentNext]_avars, NEW p \in Proposals, ~ OvertakenCommit(p),
         Eligible(p) \/ \E h \in Handlers: p \in DOMAIN sessions[h].loaded.proposals /\ Commits(h)
  PROVE  Eligible(p)'
  <1>1. CASE \E h \in Handlers: p \in DOMAIN sessions[h].loaded.proposals /\ Commits(h)
    BY <1>1, CommitEligible DEF OvertakenCommit
  <1>2. CASE Eligible(p) /\ \E h \in Handlers: Commits(h)
    BY <1>2, CommitEligible DEF OvertakenCommit
  <1>3. CASE Eligible(p) /\ Stays
    BY <1>3 DEF Stays
  <1>. QED BY <1>1, <1>2, <1>3, AssignmentSteps

LEMMA AlignedStep ==
  ASSUME AssignmentInv, [AssignmentNext]_avars, NEW p \in Proposals, ~ OvertakenCommit(p),
         Aligned(p) \/ \E h \in Handlers: p \in DOMAIN sessions[h].loaded.shown /\ Commits(h)
  PROVE  Aligned(p)'
  <1>1. CASE \E h \in Handlers: p \in DOMAIN sessions[h].loaded.shown /\ Commits(h)
    BY <1>1, CommitAligned DEF OvertakenCommit
  <1>2. CASE Aligned(p) /\ \E h \in Handlers: Commits(h)
    BY <1>2, CommitAligned DEF OvertakenCommit
  <1>3. CASE Aligned(p) /\ Stays
    BY <1>3 DEF Stays
  <1>. QED BY <1>1, <1>2, <1>3, AssignmentSteps

(* However applications, decisions, edits, syncs, reviews and the dialog    *)
(* interleave, read by read and commit by commit, only the commit of a      *)
(* session that was overtaken leaves a reviewer who is not eligible         *)
(* (reviewer_assignment.py, admin_routes.py).                              *)
THEOREM MisassignedOnlyWhenOvertaken == AssignmentSpec => OnlyOvertakenMisassign
  <1>1. AssignmentInv /\ [AssignmentNext]_avars =>
          [\A p \in Proposals:
             Eligible(p) \/ (\E h \in Handlers: p \in DOMAIN sessions[h].loaded.proposals /\ Commits(h))
               => Eligible(p)' \/ OvertakenCommit(p)]_avars
    BY EligibleStep
  <1>. QED BY <1>1, AssignmentInvariant, PTL DEF AssignmentSpec, OnlyOvertakenMisassign

(* Only such a commit leaves an AI review with another name than that of    *)
(* the assigned reviewer (sync_ai_reviewer_comment, submit_ai_review).      *)
THEOREM MisnamedOnlyWhenOvertaken == AssignmentSpec => OnlyOvertakenMisname
  <1>1. AssignmentInv /\ [AssignmentNext]_avars =>
          [\A p \in Proposals:
             Aligned(p) \/ (\E h \in Handlers: p \in DOMAIN sessions[h].loaded.shown /\ Commits(h))
               => Aligned(p)' \/ OvertakenCommit(p)]_avars
    BY AlignedStep
  <1>. QED BY <1>1, AssignmentInvariant, PTL DEF AssignmentSpec, OnlyOvertakenMisname

(* If no session is overtaken, every assigned reviewer is eligible and      *)
(* every AI review names the assigned reviewer: what the two comments of    *)
(* reviewer_assignment.py promise fails for want of the write lock alone.   *)
NeverOvertaken == [][\A p \in Proposals: ~ OvertakenCommit(p)]_avars

THEOREM PromisesHoldUnlessOvertaken ==
  AssignmentSpec /\ NeverOvertaken => [](AssignmentsAreEligible /\ ReviewNamesReviewer)
  <1>1. AssignmentInit => AssignmentsAreEligible /\ ReviewNamesReviewer
    BY DEF AssignmentInit, AssignmentsAreEligible, ReviewNamesReviewer, Eligible, Aligned
  <1>2. AssignmentInv /\ AssignmentsAreEligible /\ ReviewNamesReviewer /\ [AssignmentNext]_avars
          /\ [\A p \in Proposals: ~ OvertakenCommit(p)]_avars
          => AssignmentsAreEligible' /\ ReviewNamesReviewer'
    <2>. SUFFICES ASSUME AssignmentInv, AssignmentsAreEligible, ReviewNamesReviewer, [AssignmentNext]_avars,
                         [\A p \in Proposals: ~ OvertakenCommit(p)]_avars
                  PROVE  \A p \in Proposals: Eligible(p)' /\ Aligned(p)'
      BY DEF AssignmentsAreEligible, ReviewNamesReviewer
    <2>1. \A p \in Proposals: Eligible(p) /\ Aligned(p)
      BY DEF AssignmentsAreEligible, ReviewNamesReviewer
    <2>2. CASE UNCHANGED avars
      <3>1. Stays
        BY <2>2, DialogKeeps DEF avars
      <3>. QED BY <2>1, <3>1 DEF Stays
    <2>3. CASE \A p \in Proposals: ~ OvertakenCommit(p)
      BY <2>1, <2>3, EligibleStep, AlignedStep
    <2>. QED BY <2>2, <2>3
  <1>. QED BY <1>1, <1>2, AssignmentInvariant, PTL DEF AssignmentSpec, NeverOvertaken

(***************************************************************************)
(*                    The panel of reviewer applications                   *)
(***************************************************************************)
DetailRow == [of: Nat, n: Nat]
DossierRow == [status: Decisions, details: DetailRow]

(* A list of applications in which every text is for its own applicant.    *)
OwnTexts(list) == list \in Seq(DossierRow) /\ \A i \in 1..Len(list): list[i].details.of \in {0, i}

PanelShape ==
  /\ draft \in DetailRow
  /\ op \in [phase: {"none", "sent", "done", "reloading"}, app: Nat, status: Decisions \cup {"same"}, details: DetailRow]

PanelInv ==
  /\ PanelShape
  /\ OwnTexts(dossiers) /\ OwnTexts(queue) /\ \A list \in lists: OwnTexts(list)
  /\ draft.of \in {0, Selected} /\ op.details.of \in {0, op.app}

LEMMA PanelImplies == PanelInv => DecisionsAreForTheirApplicant
  BY DEF PanelInv, OwnTexts, DecisionsAreForTheirApplicant

LEMMA PanelStart == PanelInit => PanelInv
  <1>. SUFFICES ASSUME PanelInit PROVE PanelInv
    OBVIOUS
  <1>1. PanelShape
    BY DEF PanelInit, PanelShape, Empty, NoOp, DetailRow
  <1>2. OwnTexts(dossiers) /\ OwnTexts(queue) /\ lists = {}
    BY DEF PanelInit, OwnTexts
  <1>3. draft.of = 0 /\ op.details.of = 0
    BY DEF PanelInit, Empty, NoOp
  <1>. QED BY <1>1, <1>2, <1>3 DEF PanelInv

(* The application that is open is one of the list, or none.               *)
LEMMA OpenIs == ASSUME NEW list \in Seq(DossierRow), NEW f, NEW pick PROVE Open(list, f, pick) \in 0..Len(list)
  <1>. DEFINE S == Filtered(list, f)
  <1>1. S \subseteq 1..Len(list) /\ Len(list) \in Nat
    BY DEF Filtered
  <1>2. CASE pick \in S
    BY <1>1, <1>2 DEF Open
  <1>3. CASE pick \notin S /\ S = {}
    BY <1>1, <1>3 DEF Open
  <1>4. CASE pick \notin S /\ S # {}
    <2>1. S \subseteq Nat /\ \A i \in S: i <= Len(list)
      BY <1>1
    <2>. HIDE DEF S
    <2>2. \E i \in S: \A j \in S: j <= i
      BY <1>1, <1>4, <2>1, GreatestOf
    <2>. DEFINE g == CHOOSE i \in S: \A j \in S: j <= i
    <2>3. g \in S
      BY <2>2
    <2>4. Open(list, f, pick) = g
      BY <1>4 DEF Open, S
    <2>. HIDE DEF g
    <2>. QED BY <1>1, <2>3, <2>4
  <1>. QED BY <1>2, <1>3, <1>4

LEMMA DetailsAreOwn ==
  ASSUME NEW list, OwnTexts(list), NEW i \in 0..Len(list)
  PROVE  DetailsOf(list, i) \in DetailRow /\ DetailsOf(list, i).of \in {0, i}
  <1>1. CASE i = 0
    BY <1>1 DEF DetailsOf, Empty, DetailRow
  <1>2. CASE i # 0
    <2>1. i \in 1..Len(list) /\ list \in Seq(DossierRow)
      BY <1>2 DEF OwnTexts
    <2>2. list[i] \in DossierRow
      BY <2>1, ElementOf
    <2>. QED BY <1>2, <2>1, <2>2 DEF DetailsOf, OwnTexts, DossierRow
  <1>. QED BY <1>1, <1>2

(* Whatever is shown next, the draft beside it is for it.                  *)
LEMMA ShowKeeps ==
  ASSUME PanelInv, NEW list, OwnTexts(list), NEW f, NEW pick, Show(list, f, pick), UNCHANGED <<dossiers, op>>,
         lists' \subseteq lists
  PROVE  PanelInv'
  <1>. DEFINE j == Open(list, f, pick)
  <1>1. queue' = list /\ Selected' = j
    BY DEF Show, Selected
  <1>2. j \in 0..Len(list)
    BY OpenIs DEF OwnTexts
  <1>3. DetailsOf(list, j) \in DetailRow /\ DetailsOf(list, j).of \in {0, j}
    BY <1>2, DetailsAreOwn
  <1>4. draft' \in DetailRow /\ draft'.of \in {0, j}
    <2>1. CASE draft' = DetailsOf(list, j)
      BY <2>1, <1>3
    <2>2. CASE draft' = draft /\ Selected = j
      BY <2>2 DEF PanelInv, PanelShape
    <2>. QED BY <2>1, <2>2 DEF Show, Differs
  <1>. HIDE DEF j
  <1>. QED BY <1>1, <1>4 DEF PanelInv, PanelShape

(* What is saved with an application is for that applicant.                *)
LEMMA PatchKeeps ==
  ASSUME OwnTexts(dossiers), NEW app, NEW status \in Decisions \cup {"same"}, NEW details \in DetailRow,
         details.of \in {0, app}
  PROVE  OwnTexts(Patched(app, status, details))
  <1>1. dossiers \in Seq(DossierRow)
    BY DEF OwnTexts
  <1>2. CASE app \notin 1..Len(dossiers)
    <2>1. Patched(app, status, details) = dossiers
      BY <1>1, <1>2 DEF Patched
    <2>. QED BY <2>1
  <1>3. CASE app \in 1..Len(dossiers)
    <2>. DEFINE row == [status |-> IF status = "same" THEN dossiers[app].status ELSE status, details |-> details]
    <2>1. dossiers[app] \in DossierRow
      BY <1>1, <1>3, ElementOf
    <2>2. row \in DossierRow /\ row.details = details
      BY <2>1 DEF DossierRow
    <2>3. Patched(app, status, details) = [dossiers EXCEPT ![app] = row]
      BY <1>1, <1>3 DEF Patched
    <2>. HIDE DEF row
    <2>4. /\ [dossiers EXCEPT ![app] = row] \in Seq(DossierRow) /\ Len([dossiers EXCEPT ![app] = row]) = Len(dossiers)
          /\ \A i \in 1..Len(dossiers): [dossiers EXCEPT ![app] = row][i] = IF i = app THEN row ELSE dossiers[i]
      BY <1>1, <1>3, <2>2
    <2>. QED BY <2>2, <2>3, <2>4 DEF OwnTexts
  <1>. QED BY <1>2, <1>3

LEMMA PanelQuiet ==
  ASSUME PanelInv, UNCHANGED <<queue, filter, picked, draft>>, OwnTexts(dossiers'),
         lists' \subseteq lists \cup {dossiers}, PanelShape', op'.details.of \in {0, op'.app}
  PROVE  PanelInv'
  BY DEF PanelInv, Selected

LEMMA PanelStep == PanelInv /\ [PanelNext]_panelvars => PanelInv'
  <1>. SUFFICES ASSUME PanelInv, [PanelNext]_panelvars PROVE PanelInv'
    OBVIOUS
  <1>0. /\ OwnTexts(dossiers) /\ OwnTexts(queue) /\ \A list \in lists: OwnTexts(list)
        /\ PanelShape /\ op.details.of \in {0, op.app} /\ Selected \in Nat
    BY OpenIs DEF PanelInv, OwnTexts, Selected
  <1>1. CASE UNCHANGED panelvars
    BY <1>0, <1>1, PanelQuiet DEF panelvars, PanelShape
  <1>2. CASE ReadList
    BY <1>0, <1>2, PanelQuiet DEF ReadList, PanelShape
  <1>3. CASE ServerUpdates
    <2>1. op' \in [phase: {"none", "sent", "done", "reloading"}, app: Nat, status: Decisions \cup {"same"}, details: DetailRow]
          /\ op'.details = op.details /\ op'.app = op.app
      BY <1>0, <1>3 DEF ServerUpdates, PanelShape
    <2>2. op.status \in Decisions \cup {"same"} /\ op.details \in DetailRow
      BY <1>0 DEF PanelShape
    <2>3. OwnTexts(Patched(op.app, op.status, op.details))
      BY <1>0, <2>2, PatchKeeps
    <2>4. OwnTexts(dossiers')
      BY <2>3, <1>3 DEF ServerUpdates
    <2>. QED BY <1>0, <1>3, <2>1, <2>4, PanelQuiet DEF ServerUpdates, PanelShape
  <1>4. CASE UpdateAnswers
    BY <1>0, <1>4, PanelQuiet DEF UpdateAnswers, PanelShape
  <1>5. NoOp \in [phase: {"none", "sent", "done", "reloading"}, app: Nat, status: Decisions \cup {"same"}, details: DetailRow]
        /\ NoOp.details.of = 0
    BY DEF NoOp, Empty, DetailRow
  <1>6. CASE UpdateReloaded
    <2>. DEFINE quiet == UNCHANGED <<lists, queue, filter, picked, draft>>
    <2>1. op' = NoOp /\ dossiers' = dossiers
      BY <1>6 DEF UpdateReloaded
    <2>2. CASE UNCHANGED <<lists, queue, filter, picked, draft>>
      BY <1>0, <1>5, <2>1, <2>2, PanelQuiet DEF PanelShape
    <2>3. ASSUME NEW list \in lists, Show(list, filter, picked), lists' = lists \ {list}
          PROVE  PanelInv'
      <3>. DEFINE j == Open(list, filter, picked)
      <3>1. OwnTexts(list) /\ queue' = list /\ Selected' = j
        BY <1>0, <2>3 DEF Show, Selected
      <3>2. DetailsOf(list, j) \in DetailRow /\ DetailsOf(list, j).of \in {0, j}
        BY <3>1, OpenIs, DetailsAreOwn DEF OwnTexts
      <3>3. draft' \in DetailRow /\ draft'.of \in {0, j}
        <4>1. CASE draft' = DetailsOf(list, j)
          BY <4>1, <3>2
        <4>2. CASE draft' = draft /\ Selected = j
          BY <4>2 DEF PanelInv, PanelShape
        <4>. QED BY <4>1, <4>2, <2>3 DEF Show, Differs
      <3>. HIDE DEF j
      <3>. QED BY <1>0, <1>5, <2>1, <2>3, <3>1, <3>3 DEF PanelInv, PanelShape
    <2>. QED BY <1>6, <2>2, <2>3 DEF UpdateReloaded
  <1>7. CASE UpdateFails
    BY <1>0, <1>5, <1>7, PanelQuiet DEF UpdateFails, PanelShape
  <1>8. CASE SomebodyApplies
    <2>. DEFINE new == [status |-> "pending", details |-> Empty]
    <2>1. new \in DossierRow /\ new.details.of = 0 /\ dossiers \in Seq(DossierRow)
      BY <1>0 DEF DossierRow, DetailRow, Empty, Decisions, OwnTexts
    <2>. HIDE DEF new
    <2>2. dossiers' = Append(dossiers, new)
      BY <1>8 DEF SomebodyApplies, new
    <2>3. OwnTexts(dossiers')
      BY <1>0, <2>1, <2>2 DEF OwnTexts
    <2>. QED BY <1>0, <1>8, <2>3, PanelQuiet DEF SomebodyApplies, PanelShape
  <1>9. ASSUME NEW f, SetFilter(f) PROVE PanelInv'
    BY <1>0, <1>9, ShowKeeps DEF SetFilter
  <1>10. ASSUME NEW i, Pick(i) PROVE PanelInv'
    BY <1>0, <1>10, ShowKeeps DEF Pick
  <1>11. ASSUME NEW n \in 0..MaxDetails, TypeDetails(n) PROVE PanelInv'
    <2>1. draft' = [of |-> Selected, n |-> n] /\ n \in Nat
      BY <1>11, PanelAssumption DEF TypeDetails
    <2>2. draft' \in DetailRow /\ draft'.of = Selected
      BY <1>0, <2>1 DEF DetailRow
    <2>. QED BY <1>11, <2>2 DEF TypeDetails, PanelInv, PanelShape, Selected
  <1>12. ASSUME NEW list \in lists, ListArrives(list) PROVE PanelInv'
    BY <1>0, <1>12, ShowKeeps DEF ListArrives
  <1>13. ASSUME NEW s \in Decisions \cup {"same"}, Update(s) PROVE PanelInv'
    <2>1. op' = [phase |-> "sent", app |-> Selected, status |-> s, details |-> draft]
      BY <1>13 DEF Update
    <2>2. draft \in DetailRow /\ draft.of \in {0, Selected}
      BY DEF PanelInv, PanelShape
    <2>3. op' \in [phase: {"none", "sent", "done", "reloading"}, app: Nat, status: Decisions \cup {"same"}, details: DetailRow]
          /\ op'.details = draft /\ op'.app = Selected
      BY <1>0, <2>1, <2>2
    <2>. QED BY <1>0, <1>13, <2>2, <2>3, PanelQuiet DEF Update, PanelShape
  <1>14. ASSUME NEW i, NEW s \in Decisions, NEW n \in 1..MaxDetails, i \in DOMAIN dossiers, OtherUpdates(i, s, n)
         PROVE  PanelInv'
    <2>. DEFINE d == [of |-> i, n |-> n]
    <2>1. i \in Nat /\ n \in Nat
      BY <1>0, <1>14, PanelAssumption DEF OwnTexts
    <2>2. d \in DetailRow /\ d.of = i
      BY <2>1 DEF DetailRow
    <2>. HIDE DEF d
    <2>3. OwnTexts(Patched(i, s, d))
      BY <1>0, <2>2, PatchKeeps
    <2>4. dossiers' = Patched(i, s, d)
      BY <1>14 DEF OtherUpdates, d
    <2>. QED BY <1>0, <1>14, <2>3, <2>4, PanelQuiet DEF OtherUpdates, PanelShape
  <1>. QED BY <1>1, <1>2, <1>3, <1>4, <1>6, <1>7, <1>8, <1>9, <1>10, <1>11, <1>12, <1>13, <1>14 DEF PanelNext

(* However reloads, filters, decisions and other administrators overtake    *)
(* each other, a decision is saved with the details typed for its own      *)
(* applicant (ReviewerApplicationsPanel and manageReviewer of App.tsx).    *)
THEOREM DecisionsStayTheirs == PanelSpec => []DecisionsAreForTheirApplicant
  <1>. QED BY PanelStart, PanelStep, PanelImplies, PTL DEF PanelSpec

(***************************************************************************)
(*                       The view, its URL and the data                    *)
(***************************************************************************)
Routing == <<account, polling, view, hash, due, entry>>

(* A link the page was opened with stays in the URL; nobody polls for a    *)
(* sign-in before the session was checked.                                 *)
UrlInv ==
  /\ account \in [user: Roles, checked: BOOLEAN] /\ due \in [effect: BOOLEAN, listener: BOOLEAN]
  /\ view \in Views /\ hash \in Hash
  /\ polling => account.checked
  /\ entry \in Views => hash = entry
  /\ UrlLeadsToView

LEMMA UrlStart == ShellInit => UrlInv
  <1>. SUFFICES ASSUME ShellInit PROVE UrlInv
    OBVIOUS
  <1>1. account = [user |-> "out", checked |-> FALSE] /\ due = [effect |-> TRUE, listener |-> FALSE]
        /\ view = "proposals" /\ hash \in Hash /\ entry = hash /\ polling = FALSE
    BY DEF ShellInit
  <1>2. "proposals" \in Views
    BY ShellAssumption
  <1>3. account \in [user: Roles, checked: BOOLEAN] /\ due \in [effect: BOOLEAN, listener: BOOLEAN]
        /\ ~account.checked
    BY <1>1 DEF Roles
  <1>. QED BY <1>1, <1>2, <1>3 DEF UrlInv, UrlLeadsToView

(* A view is chosen and the link is forgotten.                             *)
LEMMA ViewChosen ==
  ASSUME UrlInv, NEW v \in Views, SetView(v), entry' = "", hash' = hash, polling' => polling,
         account' \in [user: Roles, checked: BOOLEAN], account'.checked = account.checked
  PROVE  UrlInv'
  <1>1. due' \in [effect: BOOLEAN, listener: BOOLEAN] /\ view' = v
        /\ due'.listener = due.listener /\ (due'.effect <=> due.effect \/ v # view)
    BY DEF SetView, UrlInv
  <1>2. entry' \notin Views
    BY ShellAssumption
  <1>. QED BY <1>1, <1>2 DEF UrlInv, UrlLeadsToView

LEMMA UrlStays == ASSUME UrlInv, UNCHANGED Routing PROVE UrlInv'
  BY DEF UrlInv, UrlLeadsToView, Routing

LEMMA CheckKeepsUrl == ASSUME UrlInv, NEW u \in Roles, CheckSession(u) PROVE UrlInv'
  <1>1. account' = [user |-> u, checked |-> TRUE] /\ UNCHANGED <<polling, hash>> /\ ~account.checked
    BY DEF CheckSession, SetUser
  <1>2. due' \in [effect: BOOLEAN, listener: BOOLEAN] /\ due'.effect
    BY DEF CheckSession, UrlInv
  <1>3. CASE u = "out"
    BY <1>1, <1>2, <1>3, ShellAssumption DEF CheckSession, UrlInv, UrlLeadsToView
  <1>4. CASE u # "out"
    <2>1. view' = Requested(u) /\ entry' = entry
      BY <1>4 DEF CheckSession
    <2>2. view' \in Views /\ (hash \in Views => view' = hash)
      BY <2>1, ShellAssumption DEF Requested
    <2>. QED BY <1>1, <1>2, <2>1, <2>2 DEF UrlInv, UrlLeadsToView
  <1>. QED BY <1>3, <1>4

LEMMA HashKeepsUrl == ASSUME UrlInv, WriteHash \/ OnHashChange \/ (\E h \in Hash: Navigate(h)) PROVE UrlInv'
  <1>1. CASE WriteHash
    <2>1. due' = [effect |-> FALSE, listener |-> due.listener \/ hash' # hash]
      BY <1>1 DEF WriteHash
    <2>2. due' \in [effect: BOOLEAN, listener: BOOLEAN]
      BY <2>1 DEF UrlInv
    <2>3. hash' = (IF account.checked THEN view ELSE hash) /\ UNCHANGED <<account, polling, view, entry>>
      BY <1>1 DEF WriteHash
    <2>. QED BY <2>2, <2>3 DEF UrlInv, UrlLeadsToView, Hash
  <1>2. CASE OnHashChange
    <2>1. /\ view' = (IF hash \in Views THEN hash ELSE view) /\ UNCHANGED <<account, polling, hash, entry>>
          /\ due' = [effect |-> due.effect \/ view' # view, listener |-> FALSE]
      BY <1>2 DEF OnHashChange
    <2>2. due' \in [effect: BOOLEAN, listener: BOOLEAN]
      BY <2>1 DEF UrlInv
    <2>. QED BY <2>1, <2>2 DEF UrlInv, UrlLeadsToView, Hash
  <1>3. ASSUME NEW h \in Hash, Navigate(h) PROVE UrlInv'
    <2>1. due' \in [effect: BOOLEAN, listener: BOOLEAN] /\ due'.listener
      BY <1>3 DEF Navigate, UrlInv
    <2>2. hash' = h /\ entry' = "" /\ UNCHANGED <<account, polling, view>>
      BY <1>3 DEF Navigate
    <2>. QED BY <2>1, <2>2, ShellAssumption DEF UrlInv, UrlLeadsToView
  <1>. QED BY <1>1, <1>2, <1>3

LEMMA SignInKeepsUrl ==
  ASSUME UrlInv, role \in Roles, StartLogin \/ PollAnswers \/ PopupClosed \/ Logout
  PROVE  UrlInv'
  <1>1. CASE StartLogin
    BY <1>1 DEF StartLogin, UrlInv, UrlLeadsToView, routing
  <1>2. CASE PollAnswers
    <2>1. account' = [user |-> role, checked |-> TRUE] /\ polling /\ polling' = FALSE
      BY <1>2 DEF PollAnswers, SetUser
    <2>2. account' \in [user: Roles, checked: BOOLEAN] /\ account'.checked /\ account.checked
      BY <2>1 DEF UrlInv
    <2>3. UNCHANGED <<view, hash, due, entry>>
      BY <1>2 DEF PollAnswers, routing
    <2>. QED BY <2>1, <2>2, <2>3 DEF UrlInv, UrlLeadsToView
  <1>3. CASE PopupClosed
    BY <1>3 DEF PopupClosed, UrlInv, UrlLeadsToView, routing
  <1>4. CASE Logout
    <2>1. account' \in [user: Roles, checked: BOOLEAN] /\ account'.checked = account.checked
      BY <1>4 DEF Logout, UrlInv, Roles
    <2>. QED BY <1>4, <2>1, ViewChosen, ShellAssumption DEF Logout
  <1>. QED BY <1>1, <1>2, <1>3, <1>4

LEMMA UrlStep == UrlInv /\ role \in Roles /\ [ShellNext]_shellvars => UrlInv'
  <1>. SUFFICES ASSUME UrlInv, role \in Roles, [ShellNext]_shellvars PROVE UrlInv'
    OBVIOUS
  <1>1. CASE UNCHANGED shellvars
    BY <1>1, UrlStays DEF shellvars, Routing
  <1>2. CASE \/ Refresh \/ SessionEnds \/ \E r \in reloads: ServerReads(r) \/ Reloaded(r)
             \/ \E r \in Roles: SignsIn(r)
             \/ \E k \in CallKinds: Operate(k)
             \/ \E c \in calls: ServerDoes(c) \/ OperationFails(c)
    BY <1>2, UrlStays DEF Refresh, SessionEnds, ServerReads, Reloaded, SignsIn, Operate, ServerDoes, OperationFails,
       Routing, routing
  <1>3. CASE WriteHash \/ OnHashChange \/ \E h \in Hash: Navigate(h)
    BY <1>3, HashKeepsUrl
  <1>4. CASE StartLogin \/ PollAnswers \/ PopupClosed \/ Logout
    BY <1>4, SignInKeepsUrl
  <1>5. ASSUME NEW u \in Roles, CheckSession(u) PROVE UrlInv'
    BY <1>5, CheckKeepsUrl
  <1>6. ASSUME NEW v \in Views, ChooseView(v) PROVE UrlInv'
    <2>1. SetView(v) /\ entry' = "" /\ UNCHANGED <<account, polling, hash>>
      BY <1>6 DEF ChooseView
    <2>2. account' \in [user: Roles, checked: BOOLEAN] /\ account'.checked = account.checked
      BY <2>1 DEF UrlInv
    <2>. QED BY <2>1, <2>2, ViewChosen
  <1>7. ASSUME NEW c \in calls, Answered(c) PROVE UrlInv'
    <2>1. UNCHANGED <<account, polling, hash>>
      BY <1>7 DEF Answered
    <2>2. CASE c.kind = "launch"
      <3>1. SetView("runs") /\ entry' = "" /\ "runs" \in Views
        BY <1>7, <2>2, ShellAssumption DEF Answered
      <3>2. account' \in [user: Roles, checked: BOOLEAN] /\ account'.checked = account.checked
        BY <2>1 DEF UrlInv
      <3>. QED BY <2>1, <3>1, <3>2, ViewChosen
    <2>3. CASE c.kind # "launch"
      BY <1>7, <2>1, <2>3, UrlStays DEF Answered, Routing
    <2>. QED BY <2>2, <2>3
  <1>. QED BY <1>1, <1>2, <1>3, <1>4, <1>5, <1>6, <1>7 DEF ShellNext

LEMMA RoleIsKnown == role \in Roles /\ [ShellNext]_shellvars => role' \in Roles
  BY DEF ShellNext, shellvars, server, Refresh, SessionEnds, ServerReads, Reloaded, SignsIn, Operate, ServerDoes,
     OperationFails, WriteHash, OnHashChange, Navigate, StartLogin, PollAnswers, PopupClosed, Logout, CheckSession,
     ChooseView, Answered, Roles

(* Whatever the order of the effects, the listener, the answer to who is    *)
(* signed in and the person's clicks (the effects of App in App.tsx).      *)
THEOREM UrlAndViewAgree == ShellSpec => []UrlLeadsToView
  <1>1. ShellInit => UrlInv /\ role \in Roles
    BY UrlStart DEF ShellInit
  <1>2. UrlInv => UrlLeadsToView
    BY DEF UrlInv
  <1>3. (UrlInv /\ role \in Roles) /\ [ShellNext]_shellvars => (UrlInv /\ role \in Roles)'
    BY UrlStep, RoleIsKnown
  <1>. QED BY <1>1, <1>2, <1>3, PTL DEF ShellSpec

(* A reload that starts after an operation answered reads the database     *)
(* after it.  So as long as a series of reloads neither failed nor         *)
(* overlapped, either nothing is under way and the page shows all of its   *)
(* operations, or the one reload under way is still to be read, will fail, *)
(* or carries them.                                                        *)
Reads == [n: Nat, got: Nat, unlocks: BOOLEAN]
Settled == \/ reloads = {} /\ (IsAdmin => ops >= own)
           \/ \E r \in reloads: reloads = {r} /\ (r.got \in {Unread, Failed} \/ r.got >= own)
ShowInv ==
  /\ version \in Nat /\ own \in Nat /\ ops \in Nat /\ own <= version
  /\ begun.reloads \in Nat /\ reloads \subseteq Reads
  /\ \A c \in calls: c.at \in Nat /\ c.at <= version
  /\ blurred \/ Settled

LEMMA ChangesAreBounded == MaxChanges \in Nat
  BY ShellAssumption

LEMMA BoundsOfShell == Failed \in Nat /\ Unread \in Nat /\ Failed # Unread
  BY ChangesAreBounded DEF Failed, Unread

LEMMA ShowStart == ShellInit => ShowInv
  BY DEF ShellInit, ShowInv, Settled, IsAdmin, Reads

(* A series of reloads that begins with nothing under way is not blurred.   *)
LEMMA LoadSettles ==
  ASSUME ShowInv, NEW unlocks \in BOOLEAN, LoadOps(unlocks)
  PROVE  /\ begun'.reloads \in Nat /\ reloads' \subseteq Reads
         /\ blurred' \/ Settled'
  <1>. DEFINE new == [n |-> begun.reloads + 1, got |-> Unread, unlocks |-> unlocks]
  <1>1. new \in Reads /\ new.got = Unread
    BY BoundsOfShell DEF ShowInv, Reads
  <1>2. reloads' = reloads \cup {new} /\ blurred' = (reloads # {})
    BY DEF LoadOps
  <1>3. begun'.reloads \in Nat
    BY DEF LoadOps, ShowInv
  <1>. HIDE DEF new
  <1>4. CASE reloads = {}
    BY <1>1, <1>2, <1>3, <1>4 DEF Settled
  <1>5. CASE reloads # {}
    BY <1>1, <1>2, <1>3, <1>5 DEF ShowInv
  <1>. QED BY <1>4, <1>5

LEMMA ShowStays ==
  ASSUME ShowInv, UNCHANGED <<version, own, ops, reloads, blurred>>, begun'.reloads = begun.reloads,
         \A c \in calls': c.at \in Nat /\ c.at <= version, IsAdmin' => IsAdmin
  PROVE  ShowInv'
  BY DEF ShowInv, Settled, Reads, Failed, Unread

LEMMA UserKeepsShown ==
  ASSUME ShowInv, NEW u, SetUser(u), UNCHANGED <<version, own, ops, calls>>
  PROVE  ShowInv'
  <1>1. CASE u = "admin" /\ ~IsAdmin
    <2>1. LoadOps(FALSE)
      BY <1>1 DEF SetUser
    <2>. QED BY <2>1, LoadSettles DEF ShowInv
  <1>2. CASE ~(u = "admin" /\ ~IsAdmin)
    <2>1. UNCHANGED <<reloads, begun, blurred>> /\ account'.user = u
      BY <1>2 DEF SetUser, loadingV
    <2>. QED BY <1>2, <2>1, ShowStays DEF IsAdmin, ShowInv
  <1>. QED BY <1>1, <1>2

LEMMA ReadKeepsShown == ASSUME ShowInv, NEW r \in reloads, ServerReads(r) PROVE ShowInv'
  <1>1. PICK got \in {Failed} \cup (IF role = "admin" THEN {version} ELSE {}):
               reloads' = (reloads \ {r}) \cup {[r EXCEPT !.got = got]}
    BY DEF ServerReads
  <1>. DEFINE new == [r EXCEPT !.got = got]
  <1>2. got = Failed \/ got = version
    BY <1>1
  <1>3. r \in Reads /\ new \in Reads /\ new.got = got
    BY <1>2, BoundsOfShell DEF ShowInv, Reads
  <1>4. UNCHANGED <<version, account, own, ops, calls, begun, blurred>>
    BY DEF ServerReads, server
  <1>5. got = Failed \/ got >= own
    BY <1>2 DEF ShowInv
  <1>6. reloads' = (reloads \ {r}) \cup {new}
    BY <1>1
  <1>. HIDE DEF new
  <1>7. reloads' \subseteq Reads
    BY <1>3, <1>6 DEF ShowInv
  <1>8. blurred' \/ Settled'
    <2>1. SUFFICES ASSUME ~blurred PROVE Settled'
      BY <1>4
    <2>2. reloads = {r}
      BY <2>1 DEF ShowInv, Settled
    <2>3. reloads' = {new}
      BY <2>2, <1>6
    <2>. QED BY <2>3, <1>3, <1>4, <1>5 DEF Settled, Failed, Unread
  <1>. QED BY <1>4, <1>7, <1>8 DEF ShowInv

LEMMA ReloadKeepsShown == ASSUME ShowInv, NEW r \in reloads, Reloaded(r) PROVE ShowInv'
  <1>1. /\ r.got # Unread /\ reloads' = reloads \ {r}
        /\ ops' = IF r.got = Failed THEN ops ELSE r.got
        /\ blurred' = (blurred \/ r.got = Failed)
        /\ UNCHANGED <<version, account, own, calls, begun>>
    BY DEF Reloaded, server
  <1>2. ops' \in Nat /\ reloads' \subseteq Reads
    BY <1>1 DEF ShowInv, Reads
  <1>3. blurred' \/ Settled'
    <2>1. SUFFICES ASSUME ~blurred, r.got # Failed PROVE Settled'
      BY <1>1
    <2>2. reloads = {r} /\ r.got >= own
      BY <1>1, <2>1 DEF ShowInv, Settled
    <2>. QED BY <1>1, <2>1, <2>2 DEF Settled
  <1>. QED BY <1>1, <1>2, <1>3 DEF ShowInv

LEMMA AnswerKeepsShown == ASSUME ShowInv, NEW c \in calls, Answered(c) PROVE ShowInv'
  <1>1. /\ calls' = calls \ {c} /\ own' = IF c.admin /\ c.at > own THEN c.at ELSE own
        /\ UNCHANGED <<version, account, ops>>
    BY DEF Answered, server
  <1>2. own' \in Nat /\ own' <= version
    BY <1>1 DEF ShowInv
  <1>3. CASE c.admin
    <2>1. LoadOps(c.kind = "guarded") /\ (c.kind = "guarded") \in BOOLEAN
      BY <1>3 DEF Answered
    <2>2. /\ begun'.reloads \in Nat /\ reloads' \subseteq Reads
          /\ blurred' \/ Settled'
      BY <2>1, LoadSettles
    <2>. QED BY <1>1, <1>2, <2>2 DEF ShowInv
  <1>4. CASE ~c.admin
    <2>1. UNCHANGED <<reloads, begun, blurred>> /\ own' = own
      BY <1>1, <1>4 DEF Answered, loadingV
    <2>. QED BY <1>1, <2>1, ShowStays DEF ShowInv, IsAdmin
  <1>. QED BY <1>3, <1>4

LEMMA OperationKeepsShown ==
  ASSUME ShowInv, (\E k \in CallKinds: Operate(k)) \/ (\E c \in calls: ServerDoes(c) \/ OperationFails(c))
  PROVE  ShowInv'
  <1>1. ASSUME NEW k \in CallKinds, Operate(k) PROVE ShowInv'
    <2>. DEFINE new == [n |-> begun.calls + 1, kind |-> k, at |-> 0, admin |-> IsAdmin]
    <2>1. calls' = calls \cup {new} /\ new.at = 0
      BY <1>1 DEF Operate
    <2>2. UNCHANGED <<version, account, own, ops, reloads, blurred>> /\ begun'.reloads = begun.reloads
      BY <1>1 DEF Operate, server
    <2>. HIDE DEF new
    <2>3. \A c \in calls': c.at \in Nat /\ c.at <= version
      BY <2>1 DEF ShowInv
    <2>. QED BY <2>2, <2>3, ShowStays DEF IsAdmin
  <1>2. ASSUME NEW c \in calls, ServerDoes(c) PROVE ShowInv'
    <2>. DEFINE new == [c EXCEPT !.at = version + 1]
    <2>1. calls' = (calls \ {c}) \cup {new} /\ version' = version + 1
      BY <1>2 DEF ServerDoes
    <2>2. new.at = version + 1 \/ new.at = c.at
      OBVIOUS
    <2>3. UNCHANGED <<account, own, ops, reloads, begun, blurred>>
      BY <1>2 DEF ServerDoes, loadingV
    <2>. HIDE DEF new
    <2>4. \A x \in calls': x.at \in Nat /\ x.at <= version'
      BY <2>1, <2>2 DEF ShowInv
    <2>. QED BY <2>1, <2>3, <2>4 DEF ShowInv, Settled, IsAdmin, Failed, Unread
  <1>3. ASSUME NEW c \in calls, OperationFails(c) PROVE ShowInv'
    BY <1>3, ShowStays DEF OperationFails, server, IsAdmin, ShowInv
  <1>. QED BY <1>1, <1>2, <1>3

LEMMA ShowStep == ShowInv /\ [ShellNext]_shellvars => ShowInv'
  <1>. SUFFICES ASSUME ShowInv, [ShellNext]_shellvars PROVE ShowInv'
    OBVIOUS
  <1>1. CASE UNCHANGED shellvars
    BY <1>1, ShowStays DEF shellvars, ShowInv, IsAdmin
  <1>2. CASE \/ WriteHash \/ OnHashChange \/ StartLogin \/ PopupClosed \/ SessionEnds
             \/ \E h \in Hash: Navigate(h)
             \/ \E v \in Views: ChooseView(v)
             \/ \E u \in Roles: SignsIn(u)
    <2>1. UNCHANGED <<version, own, ops, reloads, blurred, begun, calls, account>>
      BY <1>2 DEF WriteHash, OnHashChange, StartLogin, PopupClosed, SessionEnds, Navigate, ChooseView, SignsIn,
         server, loadingV
    <2>. QED BY <2>1, ShowStays DEF ShowInv, IsAdmin
  <1>3. CASE Refresh
    <2>1. LoadOps(FALSE) /\ UNCHANGED <<version, own, ops, calls>>
      BY <1>3 DEF Refresh, server
    <2>. QED BY <2>1, LoadSettles DEF ShowInv
  <1>4. CASE Logout
    <2>1. UNCHANGED <<version, calls, reloads, begun, blurred>> /\ ops' = 0 /\ own' = 0
      BY <1>4 DEF Logout, loadingV
    <2>2. blurred' \/ Settled'
      BY <2>1 DEF ShowInv, Settled, Failed, Unread, Reads
    <2>. QED BY <2>1, <2>2 DEF ShowInv
  <1>5. CASE PollAnswers
    BY <1>5, UserKeepsShown DEF PollAnswers, server
  <1>6. ASSUME NEW u \in Roles, CheckSession(u) PROVE ShowInv'
    BY <1>6, UserKeepsShown DEF CheckSession, server
  <1>7. ASSUME NEW r \in reloads, ServerReads(r) \/ Reloaded(r) PROVE ShowInv'
    BY <1>7, ReadKeepsShown, ReloadKeepsShown
  <1>8. CASE (\E k \in CallKinds: Operate(k)) \/ (\E c \in calls: ServerDoes(c) \/ OperationFails(c))
    BY <1>8, OperationKeepsShown
  <1>9. ASSUME NEW c \in calls, Answered(c) PROVE ShowInv'
    BY <1>9, AnswerKeepsShown
  <1>. QED BY <1>1, <1>2, <1>3, <1>4, <1>5, <1>6, <1>7, <1>8, <1>9 DEF ShellNext

(* Once the reload after an operation is through, the page shows what the  *)
(* operation did, unless reloads failed or overlapped (perform and loadOps *)
(* of App.tsx).                                                            *)
THEOREM OperationsAreShown == ShellSpec => []OwnChangesAreShown
  <1>1. ShowInv => OwnChangesAreShown
    BY DEF ShowInv, Settled, OwnChangesAreShown
  <1>. QED BY <1>1, ShowStart, ShowStep, PTL DEF ShellSpec
==============================================================================
