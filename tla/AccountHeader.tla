---------------------------- MODULE AccountHeader ----------------------------
(***************************************************************************)
(* The account in the header of every page of the public site              *)
(* (website_dist/js/app.js): look-ups of the session, the header's own     *)
(* sign-in window with its polls, signing out, and accounts announced by   *)
(* other parts of the page.  A request carries the session cookie it was   *)
(* sent with; answers may be late, fail or overtake each other, and a poll *)
(* is sent every 800 ms whether or not the one before was answered.        *)
(***************************************************************************)
EXTENDS Naturals, FiniteSets

CONSTANTS Visitors, NoVisitor,
          MaxWindows, MaxSignOuts, MaxReloads   \* bounds: clicks

ASSUME HeaderAssumption == /\ {MaxWindows, MaxSignOuts, MaxReloads} \subseteq Nat
                           /\ NoVisitor \notin Visitors /\ "failed" \notin Visitors

VARIABLES session,    \* the account of the session cookie
          shown,      \* accountUser
          disabled,   \* accountButton.disabled
          leaving,    \* the menu's Sign out is disabled
          revision,   \* accountRevision
          window,     \* the sign-in window that is open: the click it opened at, 0 for none
          waits,      \* polling intervals: their click and their window
          fetches,    \* requests in flight
          clicks,     \* sign-ins, sign-outs and reloads begun (bound only)
          astray      \* history: the header was told something that is not so

avars == <<session, shown, disabled, leaving, revision, window, waits, fetches, clicks, astray>>

Who == Visitors \cup {NoVisitor}

(* n: the revision of a look-up, the click of a poll, sign-out or reload;   *)
(* place tells two polls of an interval apart; as: the cookie.             *)
Fetch == [kind: {"lookup", "poll", "logout", "check", "reload"}, n: Nat, place: {1, 2}, as: Who]
HeaderRequest(kind, n, who) == [kind |-> kind, n |-> n, place |-> 1, as |-> who]
Lookup(n) == HeaderRequest("lookup", n, session)

(* What currentUser answers: the account, 401, or any other failure.       *)
CurrentUser(f) == {f.as, "failed"} \cup (IF session = NoVisitor THEN {NoVisitor} ELSE {})

HeaderTypeOK ==
  /\ session \in Who /\ shown \in Who /\ disabled \in BOOLEAN /\ leaving \in BOOLEAN
  /\ revision \in Nat /\ window \in 0..MaxWindows /\ astray \in BOOLEAN
  /\ waits \subseteq [n: 1..MaxWindows, window: 1..MaxWindows] /\ fetches \subseteq Fetch
  /\ clicks \in [{"in", "out", "reload"} -> Nat]

(* The page is loaded and looks the account up.                            *)
HeaderInit ==
  /\ session \in Who /\ shown = NoVisitor /\ disabled = FALSE /\ leaving = FALSE
  /\ revision = 1 /\ fetches = {Lookup(1)} /\ window = 0 /\ waits = {}
  /\ clicks = [k \in {"in", "out", "reload"} |-> 0] /\ astray = FALSE

-----------------------------------------------------------------------------
(* renderAccount: both buttons are usable again.                           *)
RenderAccount(u) == shown' = u /\ disabled' = FALSE /\ leaving' = FALSE

(* The authchange listener: older look-ups no longer count.                *)
AuthAnnounced(u) == /\ RenderAccount(u) /\ revision' = revision + 1
                    /\ astray' = (u # session)

(* refreshAccount, after n revisions; f is the fetch just answered.        *)
RefreshAfter(n, f) == /\ revision' = revision + n + 1
                      /\ fetches' = (fetches \ {f}) \cup {Lookup(revision + n + 1)}

(* The account button while nobody is shown; the browser may block the     *)
(* window.                                                                 *)
SignInBlocked ==
  /\ shown = NoVisitor /\ ~disabled /\ clicks["in"] < MaxWindows
  /\ clicks' = [clicks EXCEPT !["in"] = @ + 1]
  /\ revision' = revision + 1 /\ fetches' = fetches \cup {Lookup(revision + 1)}
  /\ UNCHANGED <<session, shown, disabled, leaving, window, waits, astray>>

SignIn ==
  /\ shown = NoVisitor /\ ~disabled /\ clicks["in"] < MaxWindows
  /\ LET n == clicks["in"] + 1
     IN /\ clicks' = [clicks EXCEPT !["in"] = n]
        /\ window' = IF window = 0 THEN n ELSE window
        /\ waits' = waits \cup {[n |-> n, window |-> window']}
  /\ disabled' = TRUE
  /\ UNCHANGED <<session, shown, leaving, revision, fetches, astray>>

(* In the window: GitHub and the OAuth callback sign somebody in, or the   *)
(* window is closed.                                                       *)
SignedInAs(u) == /\ window # 0 /\ session' = u
                 /\ UNCHANGED <<shown, disabled, leaving, revision, window, waits, fetches, clicks, astray>>
CloseWindow == /\ window # 0 /\ window' = 0
               /\ UNCHANGED <<session, shown, disabled, leaving, revision, waits, fetches, clicks, astray>>

(* The logout button of the menu.                                          *)
SignOut ==
  /\ shown # NoVisitor /\ ~leaving /\ clicks["out"] < MaxSignOuts
  /\ clicks' = [clicks EXCEPT !["out"] = @ + 1]
  /\ leaving' = TRUE /\ fetches' = fetches \cup {HeaderRequest("logout", clicks["out"] + 1, session)}
  /\ UNCHANGED <<session, shown, disabled, revision, window, waits, astray>>

(* linkGitHub and reloadUser, which read the account and announce it.      *)
Reread ==
  /\ shown # NoVisitor /\ clicks["reload"] < MaxReloads
  /\ clicks' = [clicks EXCEPT !["reload"] = @ + 1]
  /\ fetches' = fetches \cup {HeaderRequest("reload", clicks["reload"] + 1, session)}
  /\ UNCHANGED <<session, shown, disabled, leaving, revision, window, waits, astray>>

(* The session expires, or is ended in another tab.                        *)
SessionEnds == /\ session # NoVisitor /\ session' = NoVisitor /\ astray' = TRUE
               /\ UNCHANGED <<shown, disabled, leaving, revision, window, waits, fetches, clicks>>

Poll(w, place) ==
  /\ \A f \in fetches : f.kind = "poll" /\ f.n = w.n => f.place # place
  /\ fetches' = fetches \cup {[HeaderRequest("poll", w.n, session) EXCEPT !.place = place]}
  /\ UNCHANGED <<session, shown, disabled, leaving, revision, window, waits, clicks, astray>>

-----------------------------------------------------------------------------
(* Slip: every answer counts. *)
AnyRevision(f) == TRUE

StillNewest(f) == f.n = revision

(* refreshAccount, its answer: any failure shows nobody.                   *)
LookupAnswered(f) ==
  /\ f.kind = "lookup" /\ fetches' = fetches \ {f}
  /\ IF StillNewest(f)
     THEN \E res \in CurrentUser(f) :
            /\ RenderAccount(IF res \in Visitors THEN res ELSE NoVisitor)
            /\ astray' = IF res = "failed" THEN session # NoVisitor ELSE astray /\ res # session
     ELSE UNCHANGED <<shown, disabled, leaving, astray>>
  /\ UNCHANGED <<session, revision, window, waits, clicks>>

(* signInWithGitHub: an interval's first account ends it, is announced and  *)
(* looked up again.                                                        *)
PollSucceeds(f, w) ==
  /\ f.kind = "poll" /\ w.n = f.n /\ f.as \in Visitors /\ waits' = waits \ {w}
  /\ window' = IF window = w.window THEN 0 ELSE window
  /\ RenderAccount(f.as) /\ RefreshAfter(1, f)
  /\ UNCHANGED <<session, clicks, astray>>

(* Nobody yet: once the window is closed, sign-in is cancelled.            *)
PollFails(f, w) ==
  /\ f.kind = "poll" /\ w.n = f.n
  /\ \/ /\ window # w.window /\ waits' = waits \ {w}
        /\ disabled' = FALSE /\ RefreshAfter(0, f)
     \/ /\ window = w.window
        /\ fetches' = fetches \ {f} /\ UNCHANGED <<disabled, revision, waits>>
  /\ UNCHANGED <<session, shown, leaving, window, clicks, astray>>

(* An account that comes after the end is announced all the same.          *)
PollStrays(f) ==
  /\ f.kind = "poll" /\ \A w \in waits : w.n # f.n
  /\ fetches' = fetches \ {f}
  /\ \/ f.as \in Visitors /\ AuthAnnounced(f.as)
     \/ UNCHANGED <<shown, disabled, leaving, revision, astray>>
  /\ UNCHANGED <<session, window, waits, clicks>>

(* The answer to logout deletes the cookie, and a look follows that must   *)
(* find nobody.                                                            *)
LogoutAnswered(f) ==
  /\ f.kind = "logout" /\ session' = NoVisitor
  /\ fetches' = (fetches \ {f}) \cup {HeaderRequest("check", f.n, NoVisitor)}
  /\ UNCHANGED <<shown, disabled, leaving, revision, window, waits, clicks, astray>>
LogoutFails(f) ==
  /\ f.kind = "logout" /\ fetches' = fetches \ {f} /\ leaving' = FALSE
  /\ UNCHANGED <<session, shown, disabled, revision, window, waits, clicks, astray>>

CheckAnswered(f) ==
  /\ f.kind = "check" /\ fetches' = fetches \ {f}
  /\ \/ AuthAnnounced(NoVisitor)
     \/ leaving' = FALSE /\ astray' = TRUE /\ UNCHANGED <<shown, disabled, revision>>
  /\ UNCHANGED <<session, window, waits, clicks>>

ReloadAnswered(f) ==
  /\ f.kind = "reload" /\ fetches' = fetches \ {f}
  /\ \/ f.as \in Visitors /\ AuthAnnounced(f.as)
     \/ UNCHANGED <<shown, disabled, leaving, revision, astray>>
  /\ UNCHANGED <<session, window, waits, clicks>>

HeaderNext ==
  \/ SignIn \/ SignInBlocked \/ CloseWindow \/ SignOut \/ Reread \/ SessionEnds
  \/ \E u \in Visitors : SignedInAs(u)
  \/ \E w \in waits, place \in {1, 2} : Poll(w, place)
  \/ \E f \in fetches : \/ LookupAnswered(f) \/ PollStrays(f) \/ LogoutAnswered(f) \/ LogoutFails(f)
                        \/ CheckAnswered(f) \/ ReloadAnswered(f)
                        \/ \E w \in waits : PollSucceeds(f, w) \/ PollFails(f, w)

HeaderSpec == HeaderInit /\ [][HeaderNext]_avars

(* Once every answer is in and no sign-in is awaited, the header shows the  *)
(* account of the session and its button works, in whatever order the      *)
(* answers came (accountRevision, and the look-up after every sign-in):    *)
(* unless the page was told something untrue and has not looked since.     *)
HeaderTellsSession ==
  fetches = {} /\ waits = {} => (astray \/ shown = session) /\ ~disabled
==============================================================================
