---------------------------- MODULE AccountProofs ----------------------------
(***************************************************************************)
(* The accounts of the site.  For any number of accounts, sign-ins,        *)
(* sign-outs and reloads, with any of their answers late, lost or          *)
(* overtaken, the header comes to show the account of the session; and for *)
(* any number of codes, attempts, forms and dialogs, whatever address      *)
(* enters the records was proven by the account that gave it.              *)
(***************************************************************************)
EXTENDS MCWebsite, TLAPS

Lookups == {f \in fetches : f.kind = "lookup"}
Checking == \E f \in fetches : f.kind = "check"

(* Look-ups are told apart by their revision, none is newer than the last; *)
(* an open window is one that some interval polls for, and the button      *)
(* waits for an interval only.                                             *)
Bookkeeping ==
  /\ revision \in Nat /\ session \in Who
  /\ \A f \in Lookups : f.n \in Nat /\ f.n <= revision
  /\ \A f, g \in Lookups : f.n = g.n => f = g
  /\ window # 0 => \E w \in waits : w.window = window
  /\ disabled => waits # {}

(* Nothing to come from a window or a sign-out: the newest look-up carries  *)
(* the cookie as it is, and without one the header is right.               *)
Settled ==
  \/ astray \/ waits # {} \/ Checking
  \/ /\ \A f \in Lookups : f.n = revision => f.as = session
     /\ shown = session \/ \E f \in Lookups : f.n = revision

HeaderInv == Bookkeeping /\ Settled

LEMMA HeaderImplies == HeaderInv => HeaderTellsSession
  BY DEF HeaderInv, Bookkeeping, Settled, HeaderTellsSession, Lookups, Checking

LEMMA RequestIs ==
  \A kind, n, who : LET q == HeaderRequest(kind, n, who) IN q.kind = kind /\ q.n = n /\ q.as = who
  BY DEF HeaderRequest

LEMMA HeaderStart == HeaderInit => HeaderInv
  <1>. SUFFICES ASSUME HeaderInit PROVE HeaderInv
    OBVIOUS
  <1>1. Lookup(1).kind = "lookup" /\ Lookup(1).n = 1 /\ Lookup(1).as = session
    BY RequestIs DEF Lookup
  <1>2. Lookups = {Lookup(1)}
    BY <1>1 DEF Lookups, HeaderInit
  <1>3. Bookkeeping
    BY <1>1, <1>2 DEF HeaderInit, Bookkeeping
  <1>4. Settled
    BY <1>1, <1>2 DEF HeaderInit, Settled
  <1>. QED BY <1>3, <1>4 DEF HeaderInv

-----------------------------------------------------------------------------
(* A step that asks for the account again, n revisions on: an interval may *)
(* end with it.                                                            *)
LEMMA Refreshed ==
  ASSUME HeaderInv, NEW n \in {0, 1}, NEW gone, NEW new,
         new = Lookup(revision + n + 1), revision' = revision + n + 1,
         fetches' = (fetches \ gone) \cup {new},
         UNCHANGED session,
         window' # 0 => \E w \in waits' : w.window = window',
         disabled' => waits' # {}
  PROVE  HeaderInv'
  <1>1. new.kind = "lookup" /\ new.n = revision + n + 1 /\ new.as = session
    BY RequestIs DEF Lookup
  <1>2. Lookups' \subseteq Lookups \cup {new} /\ new \in Lookups'
    BY <1>1 DEF Lookups
  <1>3. revision' \in Nat /\ revision < revision' /\ revision \in Nat /\ session' \in Who
    BY DEF HeaderInv, Bookkeeping
  <1>4. \A f \in Lookups : f.n \in Nat /\ f.n <= revision /\ f.n < revision'
    BY <1>3 DEF HeaderInv, Bookkeeping
  <1>5. \A f \in Lookups' : f.n \in Nat /\ f.n <= revision' /\ (f.n = revision' => f = new)
    BY <1>1, <1>2, <1>3, <1>4
  <1>6. \A f, g \in Lookups' : f.n = g.n => f = g
    BY <1>1, <1>2, <1>4, <1>5 DEF HeaderInv, Bookkeeping
  <1>7. Bookkeeping'
    BY <1>3, <1>5, <1>6 DEF Bookkeeping
  <1>8. Settled'
    BY <1>1, <1>2, <1>5 DEF Settled
  <1>. QED BY <1>7, <1>8 DEF HeaderInv

(* An account is announced: no look-up in flight counts any more.          *)
LEMMA Announced ==
  ASSUME HeaderInv, NEW u, AuthAnnounced(u), fetches' \subseteq fetches, UNCHANGED <<session, window, waits>>
  PROVE  HeaderInv'
  <1>1. revision' = revision + 1 /\ revision \in Nat /\ shown' = u /\ disabled' = FALSE /\ astray' = (u # session)
    BY DEF AuthAnnounced, RenderAccount, HeaderInv, Bookkeeping
  <1>2. Lookups' \subseteq Lookups
    BY DEF Lookups
  <1>3. \A f \in Lookups' : f.n \in Nat /\ f.n <= revision
    BY <1>2 DEF HeaderInv, Bookkeeping
  <1>4. \A f \in Lookups' : f.n <= revision' /\ f.n # revision'
    BY <1>1, <1>3
  <1>5. Bookkeeping'
    BY <1>1, <1>2, <1>3, <1>4 DEF HeaderInv, Bookkeeping
  <1>6. Settled'
    BY <1>1, <1>4 DEF Settled
  <1>. QED BY <1>5, <1>6 DEF HeaderInv

(* Anything that leaves look-ups and what is shown alone, and does not take *)
(* away what will put the header right.                                    *)
Owed == astray \/ waits # {} \/ Checking

LEMMA Untouched ==
  ASSUME HeaderInv, Lookups' = Lookups, UNCHANGED <<revision, shown>>, session' \in Who,
         window' # 0 => \E w \in waits' : w.window = window',
         disabled' => waits' # {},
         Owed => Owed', Owed' \/ session' = session
  PROVE  HeaderInv'
  <1>1. Bookkeeping'
    BY DEF HeaderInv, Bookkeeping
  <1>2. Settled'
    BY DEF HeaderInv, Settled, Owed
  <1>. QED BY <1>1, <1>2 DEF HeaderInv

LEMMA WindowPolled == HeaderInv => /\ window # 0 => \E w \in waits : w.window = window
                                   /\ disabled => waits # {}
                                   /\ session \in Who /\ revision \in Nat
  BY DEF HeaderInv, Bookkeeping

LEMMA LookupKeeps ==
  ASSUME HeaderInv, NEW f \in fetches, LookupAnswered(f) PROVE HeaderInv'
  <1>1. f \in Lookups /\ Lookups' = Lookups \ {f}
    BY DEF LookupAnswered, Lookups
  <1>2. UNCHANGED <<session, revision, window, waits>> /\ (Checking' <=> Checking)
    BY DEF LookupAnswered, Checking
  <1>3. disabled' => disabled
    BY DEF LookupAnswered, RenderAccount
  <1>4. Bookkeeping'
    BY <1>1, <1>2, <1>3 DEF HeaderInv, Bookkeeping
  <1>5. CASE f.n # revision
    <2>1. UNCHANGED <<shown, astray>>
      BY <1>5 DEF LookupAnswered, StillNewest
    <2>2. Settled'
      BY <2>1, <1>1, <1>2, <1>5 DEF HeaderInv, Settled
    <2>. QED BY <2>2, <1>4 DEF HeaderInv
  <1>6. CASE f.n = revision
    <2>1. \A g \in Lookups' : g.n # revision'
      BY <1>1, <1>2, <1>6 DEF HeaderInv, Bookkeeping
    <2>2. PICK res \in CurrentUser(f) :
            /\ RenderAccount(IF res \in Visitors THEN res ELSE NoVisitor)
            /\ astray' = IF res = "failed" THEN session # NoVisitor ELSE astray /\ res # session
      BY <1>6 DEF LookupAnswered, StillNewest
    <2>3. /\ session \in Who /\ NoVisitor \notin Visitors /\ "failed" \notin Visitors
          /\ shown' = IF res \in Visitors THEN res ELSE NoVisitor
      BY <2>2, HeaderAssumption, WindowPolled DEF RenderAccount
    <2>. SUFFICES Settled'
      BY <1>4 DEF HeaderInv
    <2>4. CASE res = "failed" /\ session = NoVisitor
      <3>1. shown' = session'
        BY <2>3, <2>4, <1>2
      <3>. QED BY <3>1, <2>1 DEF Settled
    <2>5. CASE res = "failed" /\ session # NoVisitor
      <3>1. astray'
        BY <2>2, <2>5
      <3>. QED BY <3>1 DEF Settled
    <2>6. CASE res # "failed" /\ res = session
      <3>1. shown' = session'
        BY <2>3, <2>6, <1>2 DEF Who
      <3>. QED BY <3>1, <2>1 DEF Settled
    <2>7. CASE res # "failed" /\ res # session
      <3>1. res = f.as \/ (res = NoVisitor /\ session = NoVisitor)
        BY <2>2, <2>7 DEF CurrentUser
      <3>2. f.as # session
        BY <3>1, <2>7
      <3>3. astray \/ waits # {} \/ Checking
        BY <3>2, <1>1, <1>6 DEF HeaderInv, Settled
      <3>4. astray => astray'
        BY <2>2, <2>7
      <3>. QED BY <3>3, <3>4, <1>2 DEF Settled
    <2>. QED BY <2>4, <2>5, <2>6, <2>7
  <1>. QED BY <1>4, <1>5, <1>6 DEF HeaderInv

LEMMA SignInKeeps == HeaderInv /\ SignIn => HeaderInv'
  <1>. SUFFICES ASSUME HeaderInv, SignIn PROVE HeaderInv'
    OBVIOUS
  <1>1. /\ Lookups' = Lookups /\ UNCHANGED <<revision, shown, session>>
    BY DEF SignIn, Lookups
  <1>2. PICK n : window' = (IF window = 0 THEN n ELSE window) /\ waits' = waits \cup {[n |-> n, window |-> window']}
    BY DEF SignIn
  <1>3. [n |-> n, window |-> window'] \in waits' /\ [n |-> n, window |-> window'].window = window'
    BY <1>2
  <1>. QED BY <1>1, <1>3, WindowPolled, Untouched DEF Owed

LEMMA BlockedKeeps == HeaderInv /\ SignInBlocked => HeaderInv'
  <1>. SUFFICES ASSUME HeaderInv, SignInBlocked PROVE HeaderInv'
    OBVIOUS
  <1>1. revision + 0 + 1 = revision + 1
    BY WindowPolled
  <1>2. fetches' = (fetches \ {}) \cup {Lookup(revision + 0 + 1)}
    BY <1>1 DEF SignInBlocked
  <1>. QED BY <1>1, <1>2, WindowPolled, Refreshed DEF SignInBlocked

(* What happens in the window, and the session that ends elsewhere.        *)
LEMMA SessionKeeps ==
  ASSUME HeaderInv,
         (\E u \in Visitors : SignedInAs(u)) \/ CloseWindow \/ SessionEnds
  PROVE  HeaderInv'
  <1>1. Lookups' = Lookups /\ UNCHANGED <<revision, shown, waits, disabled, fetches>> /\ (Checking' <=> Checking)
    BY DEF SignedInAs, CloseWindow, SessionEnds, Lookups, Checking
  <1>2. CASE \E u \in Visitors : SignedInAs(u)
    <2>1. session' \in Who /\ window # 0 /\ window' = window
      BY <1>2 DEF SignedInAs, Who
    <2>. QED BY <2>1, <1>1, WindowPolled, Untouched DEF Owed
  <1>3. CASE CloseWindow
    BY <1>3, <1>1, WindowPolled, Untouched DEF Owed, CloseWindow
  <1>4. CASE SessionEnds
    BY <1>4, <1>1, WindowPolled, Untouched DEF Owed, SessionEnds, Who
  <1>. QED BY <1>2, <1>3, <1>4

(* Requests that are sent: none of them is a look-up of the header.        *)
LEMMA AskingKeeps ==
  ASSUME HeaderInv, SignOut \/ Reread \/ (\E w \in waits, place \in {1, 2} : Poll(w, place))
  PROVE  HeaderInv'
  <1>1. PICK new : fetches' = fetches \cup {new} /\ new.kind # "lookup"
    <2>1. CASE SignOut
      <3>. DEFINE q == HeaderRequest("logout", clicks["out"] + 1, session)
      <3>1. q.kind = "logout"
        BY RequestIs
      <3>2. fetches' = fetches \cup {q}
        BY <2>1 DEF SignOut
      <3>. HIDE DEF q
      <3>. QED BY <3>1, <3>2
    <2>2. CASE Reread
      <3>. DEFINE q == HeaderRequest("reload", clicks["reload"] + 1, session)
      <3>1. q.kind = "reload"
        BY RequestIs
      <3>2. fetches' = fetches \cup {q}
        BY <2>2 DEF Reread
      <3>. HIDE DEF q
      <3>. QED BY <3>1, <3>2
    <2>3. ASSUME NEW w \in waits, NEW place \in {1, 2}, Poll(w, place)
          PROVE  \E new : fetches' = fetches \cup {new} /\ new.kind # "lookup"
      <3>. DEFINE q == [HeaderRequest("poll", w.n, session) EXCEPT !.place = place]
      <3>1. q.kind = "poll"
        BY DEF HeaderRequest
      <3>2. fetches' = fetches \cup {q}
        BY <2>3 DEF Poll
      <3>. HIDE DEF q
      <3>. QED BY <3>1, <3>2
    <2>. QED BY <2>1, <2>2, <2>3
  <1>2. Lookups' = Lookups /\ (Checking => Checking')
    BY <1>1 DEF Lookups, Checking
  <1>3. UNCHANGED <<session, shown, disabled, revision, window, waits, astray>>
    BY DEF SignOut, Reread, Poll
  <1>. QED BY <1>2, <1>3, WindowPolled, Untouched DEF Owed

LEMMA PollKeeps ==
  ASSUME HeaderInv, NEW f \in fetches, NEW w \in waits, PollSucceeds(f, w) \/ PollFails(f, w)
  PROVE  HeaderInv'
  <1>1. f.kind = "poll"
    BY DEF PollSucceeds, PollFails
  <1>2. CASE PollSucceeds(f, w)
    <2>1. window' # 0 => \E v \in waits' : v.window = window'
      BY <1>2, WindowPolled DEF PollSucceeds
    <2>2. disabled' = FALSE /\ session' = session
      BY <1>2 DEF PollSucceeds, RenderAccount
    <2>3. revision' = revision + 1 + 1 /\ fetches' = (fetches \ {f}) \cup {Lookup(revision + 1 + 1)}
      BY <1>2 DEF PollSucceeds, RefreshAfter
    <2>. QED BY <2>1, <2>2, <2>3, Refreshed
  <1>3. CASE PollFails(f, w) /\ window # w.window /\ waits' = waits \ {w} /\ disabled' = FALSE /\ RefreshAfter(0, f)
    <2>1. window' = window /\ session' = session
      BY <1>3 DEF PollFails
    <2>2. window' # 0 => \E v \in waits' : v.window = window'
      BY <1>3, <2>1, WindowPolled
    <2>3. revision' = revision + 0 + 1 /\ fetches' = (fetches \ {f}) \cup {Lookup(revision + 0 + 1)}
      BY <1>3 DEF RefreshAfter
    <2>. QED BY <2>1, <2>2, <2>3, <1>3, Refreshed
  <1>4. CASE PollFails(f, w) /\ fetches' = fetches \ {f} /\ UNCHANGED <<disabled, revision, waits>>
    <2>1. Lookups' = Lookups /\ (Checking => Checking')
      BY <1>1, <1>4 DEF Lookups, Checking
    <2>2. UNCHANGED <<session, shown, window, astray>>
      BY <1>4 DEF PollFails
    <2>. QED BY <2>1, <2>2, <1>4, WindowPolled, Untouched DEF Owed
  <1>. QED BY <1>2, <1>3, <1>4 DEF PollFails

(* The other answers: an account may be announced.                         *)
LEMMA AnswerKeeps ==
  ASSUME HeaderInv, NEW f \in fetches,
         PollStrays(f) \/ ReloadAnswered(f) \/ CheckAnswered(f) \/ LogoutAnswered(f) \/ LogoutFails(f)
  PROVE  HeaderInv'
  <1>1. CASE fetches' = fetches \ {f} /\ f.kind \in {"poll", "reload", "check"} /\ UNCHANGED <<session, window, waits>>
    <2>1. CASE \E u : AuthAnnounced(u)
      BY <1>1, <2>1, Announced
    <2>2. CASE UNCHANGED <<shown, disabled, revision>> /\ (astray' \/ (f.kind # "check" /\ astray' = astray))
      <3>1. Lookups' = Lookups /\ (f.kind # "check" /\ Checking => Checking')
        BY <1>1 DEF Lookups, Checking
      <3>. QED BY <1>1, <2>2, <3>1, WindowPolled, Untouched DEF Owed
    <2>. QED BY <1>1, <2>1, <2>2 DEF PollStrays, ReloadAnswered, CheckAnswered, LogoutAnswered, LogoutFails
  <1>2. CASE LogoutAnswered(f)
    <2>. DEFINE q == HeaderRequest("check", f.n, NoVisitor)
    <2>2. q.kind = "check" /\ f.kind = "logout" /\ fetches' = (fetches \ {f}) \cup {q}
      BY <1>2, RequestIs DEF LogoutAnswered
    <2>. HIDE DEF q
    <2>1. Lookups' = Lookups /\ Checking'
      BY <2>2 DEF Lookups, Checking
    <2>. QED BY <1>2, <2>1, WindowPolled, Untouched DEF LogoutAnswered, Owed, Who
  <1>3. CASE LogoutFails(f)
    <2>1. Lookups' = Lookups /\ (Checking => Checking')
      BY <1>3 DEF LogoutFails, Lookups, Checking
    <2>. QED BY <1>3, <2>1, WindowPolled, Untouched DEF LogoutFails, Owed
  <1>. QED BY <1>1, <1>2, <1>3 DEF PollStrays, ReloadAnswered, CheckAnswered

LEMMA HeaderStep == HeaderInv /\ [HeaderNext]_avars => HeaderInv'
  <1>. SUFFICES ASSUME HeaderInv, [HeaderNext]_avars PROVE HeaderInv'
    OBVIOUS
  <1>1. CASE UNCHANGED avars
    BY <1>1 DEF avars, HeaderInv, Bookkeeping, Settled, Lookups, Checking
  <1>2. CASE HeaderNext
    BY <1>2, SignInKeeps, BlockedKeeps, SessionKeeps, AskingKeeps, LookupKeeps, PollKeeps, AnswerKeeps DEF HeaderNext
  <1>. QED BY <1>1, <1>2

(* In every behaviour, whatever is late, lost or overtaken: once no request *)
(* and no sign-in window is outstanding, the header shows the account of   *)
(* the session, unless it was told otherwise since it last looked          *)
(* (refreshAccount, the authchange listener, signInWithGitHub, signOut).   *)
THEOREM HeaderComesRight == HeaderSpec => []HeaderTellsSession
  <1>. QED BY HeaderStart, HeaderStep, HeaderImplies, PTL DEF HeaderSpec

(***************************************************************************)
(*                            The email codes                              *)
(***************************************************************************)
CodeRow == [email: Address, purpose: Purposes, subject: Users,
            mail: {"sending", "issued", "failed"}, attempts: Nat,
            expired: BOOLEAN, verified: BOOLEAN, consumed: BOOLEAN]

Issued(c) == c \in 1..Len(codes) /\ codes[c].mail = "issued"

(* What a step of any page does to the codes: they stay in place, what they *)
(* are for does not change, and one that was mailed, or has served, stays   *)
(* so.                                                                      *)
Onward ==
  /\ codes' \in Seq(CodeRow) /\ Len(codes) <= Len(codes')
  /\ \A c \in 1..Len(codes) :
       /\ codes'[c].email = codes[c].email /\ codes'[c].purpose = codes[c].purpose
       /\ codes'[c].subject = codes[c].subject
       /\ codes[c].mail = "issued" => codes'[c].mail = "issued"
       /\ codes[c].verified /\ codes[c].consumed => codes'[c].verified /\ codes'[c].consumed

LEMMA IdleOnward == ASSUME codes \in Seq(CodeRow), UNCHANGED codes PROVE Onward
  BY DEF Onward

LEMMA IssueOnward ==
  ASSUME codes \in Seq(CodeRow), NEW e \in Address, NEW p \in Purposes, NEW u \in Users, Issue(e, p, u)
  PROVE  Onward /\ Len(codes') = Len(codes) + 1
  <1>. DEFINE row == [email |-> e, purpose |-> p, subject |-> u, mail |-> "sending", attempts |-> 0,
                      expired |-> FALSE, verified |-> FALSE, consumed |-> FALSE]
  <1>1. row \in CodeRow
    BY DEF CodeRow
  <1>2. codes' = Append(codes, row)
    BY DEF Issue
  <1>. HIDE DEF row
  <1>3. codes' \in Seq(CodeRow) /\ Len(codes') = Len(codes) + 1 /\ Len(codes) \in Nat
    BY <1>1, <1>2
  <1>4. \A c \in 1..Len(codes) : codes'[c] = codes[c]
    BY <1>1, <1>2
  <1>. QED BY <1>3, <1>4 DEF Onward

(* One row changes, for the same address, purpose and account.              *)
LEMMA RowOnward ==
  ASSUME codes \in Seq(CodeRow), NEW c \in 1..Len(codes), NEW row \in CodeRow, codes' = [codes EXCEPT ![c] = row],
         row.email = codes[c].email, row.purpose = codes[c].purpose, row.subject = codes[c].subject,
         codes[c].mail = "issued" => row.mail = "issued",
         codes[c].verified /\ codes[c].consumed => row.verified /\ row.consumed
  PROVE  Onward
  <1>1. codes' \in Seq(CodeRow) /\ Len(codes') = Len(codes) /\ Len(codes) \in Nat
    OBVIOUS
  <1>2. \A d \in 1..Len(codes) : codes'[d] = IF d = c THEN row ELSE codes[d]
    OBVIOUS
  <1>. QED BY <1>1, <1>2 DEF Onward

LEMMA RowTyped == ASSUME codes \in Seq(CodeRow), NEW c \in 1..Len(codes) PROVE codes[c] \in CodeRow
  OBVIOUS

LEMMA CodeStepOnward ==
  ASSUME codes \in Seq(CodeRow), NEW c \in 1..Len(codes),
         MailFails(c) \/ Expires(c) \/ (codes[c].verified /\ Consume(c))
  PROVE  Onward
  <1>1. codes[c] \in CodeRow
    BY RowTyped
  <1>2. CASE MailFails(c)
    <2>. DEFINE row == [codes[c] EXCEPT !.mail = "failed"]
    <2>1. codes' = [codes EXCEPT ![c] = row] /\ codes[c].mail = "sending"
      BY <1>1, <1>2 DEF MailFails, CodeRow
    <2>2. row \in CodeRow /\ row.email = codes[c].email /\ row.purpose = codes[c].purpose
          /\ row.subject = codes[c].subject /\ row.verified = codes[c].verified /\ row.consumed = codes[c].consumed
      BY <1>1 DEF CodeRow
    <2>. HIDE DEF row
    <2>. QED BY <2>1, <2>2, RowOnward
  <1>3. CASE Expires(c)
    <2>. DEFINE row == [codes[c] EXCEPT !.expired = TRUE]
    <2>1. codes' = [codes EXCEPT ![c] = row]
      BY <1>1, <1>3 DEF Expires, CodeRow
    <2>2. row \in CodeRow /\ row.email = codes[c].email /\ row.purpose = codes[c].purpose /\ row.mail = codes[c].mail
          /\ row.subject = codes[c].subject /\ row.verified = codes[c].verified /\ row.consumed = codes[c].consumed
      BY <1>1 DEF CodeRow
    <2>. HIDE DEF row
    <2>. QED BY <2>1, <2>2, RowOnward
  <1>4. CASE codes[c].verified /\ Consume(c)
    <2>. DEFINE row == [codes[c] EXCEPT !.consumed = TRUE]
    <2>1. codes' = [codes EXCEPT ![c] = row]
      BY <1>1, <1>4 DEF Consume, CodeRow
    <2>2. row \in CodeRow /\ row.email = codes[c].email /\ row.purpose = codes[c].purpose /\ row.mail = codes[c].mail
          /\ row.subject = codes[c].subject /\ row.verified = codes[c].verified /\ row.consumed
      BY <1>1 DEF CodeRow
    <2>. HIDE DEF row
    <2>. QED BY <2>1, <2>2, RowOnward
  <1>. QED BY <1>2, <1>3, <1>4

LEMMA VerifyOnward ==
  ASSUME codes \in Seq(CodeRow), NEW c, NEW e, NEW p, NEW u, NEW right \in BOOLEAN,
         Verifiable(c, e, p, u), Verify(c, right)
  PROVE  Onward /\ c \in 1..Len(codes)
  <1>1. c \in 1..Len(codes) /\ ~codes[c].consumed
    BY DEF Verifiable, Kept, CodeIds
  <1>2. codes[c] \in CodeRow
    BY <1>1, RowTyped
  <1>. DEFINE row == [codes[c] EXCEPT !.attempts = codes[c].attempts + 1, !.verified = right]
  <1>5. codes[c].attempts + 1 \in Nat
    BY <1>2 DEF CodeRow
  <1>3. codes' = [codes EXCEPT ![c] = row]
    BY <1>1, <1>2 DEF Verify, CodeRow
  <1>4. row \in CodeRow /\ row.email = codes[c].email /\ row.purpose = codes[c].purpose /\ row.mail = codes[c].mail
        /\ row.subject = codes[c].subject
    BY <1>2, <1>5 DEF CodeRow
  <1>. HIDE DEF row
  <1>. QED BY <1>1, <1>3, <1>4, RowOnward

(* A delivery voids the other codes of its scope.                           *)
LEMMA SupersedeOnward ==
  ASSUME codes \in Seq(CodeRow), NEW c, Supersede(c)
  PROVE  Onward /\ Len(codes') = Len(codes) /\ (c \in 1..Len(codes) => codes'[c].mail = "issued")
  <1>. DEFINE After(d) == IF d = c THEN [codes[c] EXCEPT !.mail = "issued"]
                        ELSE [codes[d] EXCEPT !.consumed = codes[d].consumed \/ (SameScope(c, d) /\ d \in Kept)]
  <1>1. codes' = [d \in 1..Len(codes) |-> After(d)] /\ codes[c].mail = "sending"
    BY DEF Supersede, CodeIds
  <1>2. ASSUME NEW d \in 1..Len(codes)
        PROVE  /\ After(d) \in CodeRow /\ After(d).email = codes[d].email /\ After(d).purpose = codes[d].purpose
               /\ After(d).subject = codes[d].subject /\ After(d).verified = codes[d].verified
               /\ codes[d].mail = "issued" => After(d).mail = "issued"
               /\ codes[d].consumed => After(d).consumed
               /\ d = c => After(d).mail = "issued"
    <2>1. codes[d] \in CodeRow
      BY RowTyped
    <2>2. CASE d = c
      BY <2>1, <2>2 DEF CodeRow
    <2>3. CASE d # c
      <3>. DEFINE b == codes[d].consumed \/ (SameScope(c, d) /\ d \in Kept)
      <3>1. After(d) = [codes[d] EXCEPT !.consumed = b] /\ b \in BOOLEAN
        BY <2>3
      <3>2. codes[d].consumed => b
        OBVIOUS
      <3>. HIDE DEF b, After
      <3>3. After(d).consumed = b /\ After(d) \in CodeRow
        BY <2>1, <3>1 DEF CodeRow
      <3>. QED BY <2>1, <2>3, <3>1, <3>2, <3>3 DEF CodeRow
    <2>. QED BY <2>2, <2>3
  <1>. HIDE DEF After
  <1>3. Len(codes) \in Nat
    OBVIOUS
  <1>4. codes' \in Seq(CodeRow) /\ Len(codes') = Len(codes)
    BY <1>1, <1>2, <1>3
  <1>5. \A d \in 1..Len(codes) : codes'[d] = After(d)
    BY <1>1
  <1>. QED BY <1>2, <1>3, <1>4, <1>5 DEF Onward

(***************************************************************************)
(*                     The reviewer application page                       *)
(***************************************************************************)
ProofRow == [challengeId: Nat, challengeEmail: Address, verificationToken: Nat, verifiedEmail: Address,
             verifyOpen: BOOLEAN]
FormRow == [email: Address, authUser: Users \cup {NoUser}, otpRequired: {"null", "on", "off"}, proof: ProofRow,
            codeBusy: BOOLEAN, submitBusy: BOOLEAN]
CallRow == [op: {"code", "verify", "apply"}, email: Address, user: Users, as: Users \cup {NoUser},
            code: Nat, right: BOOLEAN, res: {"sent", "mailing", "ok", "refused", "unauthorized"}]
ApplicationRow == [user: Users, email: Address, proof: Nat]

(* The form's challenge was mailed, and its token is of the address and for *)
(* the account that it shows.                                               *)
FormFits(f) ==
  /\ f.proof.challengeId = 0 \/ Issued(f.proof.challengeId)
  /\ f.proof.verificationToken # 0 =>
       /\ Issued(f.proof.verificationToken) /\ codes[f.proof.verificationToken].email = f.email
       /\ f.authUser # NoUser /\ f.proof.verifiedEmail = f.email

(* The codes that requests name were mailed; one that was verified is of    *)
(* the request's address.                                                   *)
CallFits(k) ==
  /\ k.op = "code" /\ k.res = "mailing" => k.code \in 1..Len(codes)
  /\ k.op = "code" /\ k.res = "ok" => Issued(k.code)
  /\ k.op # "code" => k.code = 0 \/ Issued(k.code)
  /\ k.op = "verify" /\ k.res = "ok" => Issued(k.code) /\ codes[k.code].email = k.email

ApplicationsFit ==
  RequireOtp =>
    \A i \in 1..Len(applications) :
      /\ Issued(applications[i].proof)
      /\ codes[applications[i].proof].verified /\ codes[applications[i].proof].consumed
      /\ codes[applications[i].proof].email = applications[i].email
      /\ codes[applications[i].proof].subject = applications[i].user
      /\ \A j \in 1..Len(applications) : applications[j].proof = applications[i].proof => j = i

ReviewerInv ==
  /\ form \in FormRow /\ FormFits(form)
  /\ calls \subseteq CallRow /\ \A k \in calls : CallFits(k)
  /\ cookie \in Users \cup {NoUser} /\ applications \in Seq(ApplicationRow) /\ ApplicationsFit

-----------------------------------------------------------------------------
LEMMA ReviewerImplies == ReviewerInv => ApplicationsAreProven /\ ProofIsForShownEmail
  <1>. SUFFICES ASSUME ReviewerInv PROVE ApplicationsAreProven /\ ProofIsForShownEmail
    OBVIOUS
  <1>1. DOMAIN applications = 1..Len(applications)
    BY DEF ReviewerInv
  <1>2. \A c : Issued(c) => c \in Kept
    BY DEF Issued, Kept, CodeIds
  <1>3. ApplicationsAreProven
    BY <1>1, <1>2 DEF ReviewerInv, ApplicationsFit, ApplicationsAreProven
  <1>4. ProofIsForShownEmail
    BY DEF ReviewerInv, FormFits, ProofIsForShownEmail, SignedIn
  <1>. QED BY <1>3, <1>4

LEMMA NoProofIs == NoProof \in ProofRow /\ NoProof.challengeId = 0 /\ NoProof.verificationToken = 0
  BY DEF NoProof, ProofRow, Address

LEMMA ReviewerStart == ReviewerInit => ReviewerInv
  <1>. SUFFICES ASSUME ReviewerInit PROVE ReviewerInv
    OBVIOUS
  <1>1. form = [email |-> NoEmail, authUser |-> NoUser, otpRequired |-> "null",
                proof |-> NoProof, codeBusy |-> FALSE, submitBusy |-> FALSE]
    BY DEF ReviewerInit
  <1>2. form \in FormRow /\ form.proof = NoProof
    BY <1>1, NoProofIs DEF FormRow, Address
  <1>3. FormFits(form)
    BY <1>2, NoProofIs DEF FormFits
  <1>. QED BY <1>2, <1>3 DEF ReviewerInit, ReviewerInv, ApplicationsFit

(* Whatever steps the codes take, what was known of them stays true.        *)
LEMMA KnownStays ==
  ASSUME ReviewerInv, Onward, codes \in Seq(CodeRow)
  PROVE  /\ \A c : Issued(c) => /\ Issued(c)' /\ codes'[c].email = codes[c].email
                                /\ codes'[c].subject = codes[c].subject
                                /\ codes[c].verified /\ codes[c].consumed => codes'[c].verified /\ codes'[c].consumed
         /\ \A k : CallFits(k) => CallFits(k)'
         /\ \A f : FormFits(f) => FormFits(f)'
  <1>1. Len(codes) \in Nat /\ Len(codes') \in Nat /\ Len(codes) <= Len(codes')
    BY DEF Onward
  <1>2. \A c : c \in 1..Len(codes) => c \in 1..Len(codes')
    BY <1>1
  <1>3. \A c : Issued(c) => /\ Issued(c)' /\ codes'[c].email = codes[c].email
                            /\ codes'[c].subject = codes[c].subject
                            /\ codes[c].verified /\ codes[c].consumed => codes'[c].verified /\ codes'[c].consumed
    BY <1>2 DEF Onward, Issued
  <1>4. \A k : CallFits(k) => CallFits(k)'
    BY <1>2, <1>3 DEF CallFits
  <1>5. \A f : FormFits(f) => FormFits(f)'
    BY <1>3 DEF FormFits
  <1>. QED BY <1>3, <1>4, <1>5

LEMMA ApplicationsStay ==
  ASSUME ReviewerInv, Onward, codes \in Seq(CodeRow), UNCHANGED applications PROVE ApplicationsFit'
  BY KnownStays DEF ReviewerInv, ApplicationsFit

(* A step of the codes, of one request and its answer.                      *)
LEMMA CallMoves ==
  ASSUME ReviewerInv, Onward, codes \in Seq(CodeRow), UNCHANGED <<form, cookie, applications>>,
         NEW q, q \in CallRow, CallFits(q)', calls' \subseteq calls \cup {q}
  PROVE  ReviewerInv'
  <1>1. \A k \in calls' : CallFits(k)'
    BY KnownStays DEF ReviewerInv
  <1>2. FormFits(form)'
    BY KnownStays DEF ReviewerInv
  <1>. QED BY <1>1, <1>2, ApplicationsStay DEF ReviewerInv

(* A step of the page.                                                      *)
LEMMA FormMoves ==
  ASSUME ReviewerInv, codes \in Seq(CodeRow), UNCHANGED <<codes, applications>>, cookie' \in Users \cup {NoUser},
         NEW f, form' = f, f \in FormRow, FormFits(f), calls' \subseteq CallRow,
         \A k \in calls' : CallFits(k)
  PROVE  ReviewerInv'
  <1>1. Onward
    BY IdleOnward
  <1>2. FormFits(f)' /\ \A k \in calls' : CallFits(k)'
    BY <1>1, KnownStays
  <1>3. FormFits(form)'
    BY <1>2 DEF FormFits
  <1>. QED BY <1>1, <1>2, <1>3, ApplicationsStay DEF ReviewerInv

-----------------------------------------------------------------------------
(* The forms that the page makes of a form.                                 *)
LEMMA SameProofFits ==
  ASSUME NEW f, NEW g, FormFits(f), g.proof = f.proof, g.email = f.email, g.authUser = f.authUser
  PROVE  FormFits(g)
  BY DEF FormFits

LEMMA ClearedFits ==
  ASSUME NEW f \in FormRow
  PROVE  ClearEmailProof(f) \in FormRow /\ FormFits(ClearEmailProof(f))
         /\ ClearEmailProof(f).email = f.email /\ ClearEmailProof(f).authUser = f.authUser
         /\ ClearEmailProof(f).proof = NoProof
  <1>1. ClearEmailProof(f) = [f EXCEPT !.proof = NoProof]
    BY DEF ClearEmailProof
  <1>2. ClearEmailProof(f) \in FormRow /\ ClearEmailProof(f).proof = NoProof
        /\ ClearEmailProof(f).email = f.email /\ ClearEmailProof(f).authUser = f.authUser
    BY <1>1, NoProofIs DEF FormRow
  <1>. QED BY <1>2, NoProofIs DEF FormFits

LEMMA AppliedFits ==
  ASSUME NEW f \in FormRow, FormFits(f), NEW u \in Users \cup {NoUser}
  PROVE  ApplyUser(f, u) \in FormRow /\ FormFits(ApplyUser(f, u))
  <1>. DEFINE g == IF f.authUser = u THEN f ELSE ClearEmailProof(f)
  <1>1. g \in FormRow /\ FormFits(g)
    BY ClearedFits
  <1>2. f.authUser # u => g.proof = NoProof
    BY ClearedFits
  <1>3. f.authUser = u => g.authUser = u
    OBVIOUS
  <1>4. ApplyUser(f, u) = [g EXCEPT !.authUser = u]
    BY DEF ApplyUser
  <1>. HIDE DEF g
  <1>5. [g EXCEPT !.authUser = u] \in FormRow /\ [g EXCEPT !.authUser = u].proof = g.proof
        /\ [g EXCEPT !.authUser = u].email = g.email /\ [g EXCEPT !.authUser = u].authUser = u
    BY <1>1 DEF FormRow
  <1>6. FormFits([g EXCEPT !.authUser = u])
    BY <1>1, <1>2, <1>3, <1>5, NoProofIs DEF FormFits
  <1>. QED BY <1>4, <1>5, <1>6

LEMMA FormIs == ASSUME ReviewerInv PROVE form \in FormRow /\ FormFits(form) /\ form.proof \in ProofRow
                                         /\ calls \subseteq CallRow /\ cookie \in Users \cup {NoUser}
                                         /\ \A k \in calls : CallFits(k)
  BY DEF ReviewerInv, FormRow

(* What the page does without a request.                                    *)
LEMMA PageMoves ==
  ASSUME ReviewerInv, codes \in Seq(CodeRow),
         \/ SettingsLoaded \/ UserLoaded \/ (\E u \in Users \cup {NoUser} : CookieChanges(u))
         \/ \E e \in Emails : TypeEmail(e)
  PROVE  ReviewerInv'
  <1>0. form \in FormRow /\ FormFits(form) /\ calls \subseteq CallRow /\ cookie \in Users \cup {NoUser}
        /\ \A k \in calls : CallFits(k)
    BY FormIs
  <1>1. CASE SettingsLoaded
    <2>1. PICK f : f = [form EXCEPT !.otpRequired = IF RequireOtp THEN "on" ELSE "off"]
      OBVIOUS
    <2>2. f \in FormRow /\ f.proof = form.proof /\ f.email = form.email /\ f.authUser = form.authUser
      BY <1>0, <2>1 DEF FormRow
    <2>3. FormFits(f)
      BY <1>0, <2>2, SameProofFits
    <2>. QED BY <1>0, <1>1, <2>1, <2>2, <2>3, FormMoves DEF SettingsLoaded
  <1>2. CASE UserLoaded
    <2>1. PICK f : f = ApplyUser(form, cookie)
      OBVIOUS
    <2>2. f \in FormRow /\ FormFits(f)
      BY <1>0, <2>1, AppliedFits
    <2>. QED BY <1>0, <1>2, <2>1, <2>2, FormMoves DEF UserLoaded
  <1>3. ASSUME NEW u \in Users \cup {NoUser}, CookieChanges(u) PROVE ReviewerInv'
    <2>1. PICK f : f = form
      OBVIOUS
    <2>. QED BY <1>0, <1>3, <2>1, FormMoves DEF CookieChanges
  <1>4. ASSUME NEW e \in Emails, TypeEmail(e) PROVE ReviewerInv'
    <2>1. PICK f : f = ClearEmailProof([form EXCEPT !.email = e])
      OBVIOUS
    <2>2. [form EXCEPT !.email = e] \in FormRow
      BY <1>0 DEF FormRow, Address
    <2>3. f \in FormRow /\ FormFits(f)
      BY <2>1, <2>2, ClearedFits
    <2>. QED BY <1>0, <1>4, <2>1, <2>3, FormMoves DEF TypeEmail
  <1>. QED BY <1>1, <1>2, <1>3, <1>4

(* A request names what the form holds.                                     *)
LEMMA RequestFits ==
  ASSUME ReviewerInv, SignedIn, NEW op \in {"code", "verify", "apply"}, NEW c \in Nat, NEW r \in BOOLEAN,
         op # "code" => c = 0 \/ Issued(c)
  PROVE  Request(op, c, r) \in CallRow /\ CallFits(Request(op, c, r))
  <1>1. form.email \in Address /\ form.authUser \in Users /\ cookie \in Users \cup {NoUser}
    BY FormIs DEF FormRow, SignedIn
  <1>2. Request(op, c, r) = [op |-> op, email |-> form.email, user |-> form.authUser, as |-> cookie,
                             code |-> c, right |-> r, res |-> "sent"]
    BY DEF Request
  <1>3. Request(op, c, r) \in CallRow
    BY <1>1, <1>2 DEF CallRow
  <1>4. Request(op, c, r).op = op /\ Request(op, c, r).res = "sent" /\ Request(op, c, r).code = c
    BY <1>2
  <1>. QED BY <1>3, <1>4 DEF CallFits

LEMMA RequestMoves ==
  ASSUME ReviewerInv, codes \in Seq(CodeRow), SendCode \/ (\E r \in BOOLEAN : VerifyCode(r)) \/ SubmitApplication
  PROVE  ReviewerInv'
  <1>0. form \in FormRow /\ FormFits(form) /\ calls \subseteq CallRow /\ cookie \in Users \cup {NoUser}
        /\ form.proof \in ProofRow /\ \A k \in calls : CallFits(k)
    BY FormIs
  <1>1. CASE SendCode
    <2>1. PICK f, q : f = ClearEmailProof([form EXCEPT !.codeBusy = TRUE]) /\ q = Request("code", 0, FALSE)
      OBVIOUS
    <2>2. [form EXCEPT !.codeBusy = TRUE] \in FormRow
      BY <1>0 DEF FormRow
    <2>3. f \in FormRow /\ FormFits(f)
      BY <2>1, <2>2, ClearedFits
    <2>4. q \in CallRow /\ CallFits(q)
      BY <1>1, <2>1, RequestFits DEF SendCode
    <2>. QED BY <1>0, <1>1, <2>1, <2>3, <2>4, FormMoves DEF SendCode
  <1>2. ASSUME NEW r \in BOOLEAN, VerifyCode(r) PROVE ReviewerInv'
    <2>1. PICK f, q, c : /\ f = [form EXCEPT !.proof = [form.proof EXCEPT !.verifyOpen = FALSE]]
                         /\ c = form.proof.challengeId /\ q = Request("verify", c, r)
      OBVIOUS
    <2>2. [form.proof EXCEPT !.verifyOpen = FALSE] \in ProofRow
          /\ [form.proof EXCEPT !.verifyOpen = FALSE].challengeId = form.proof.challengeId
          /\ [form.proof EXCEPT !.verifyOpen = FALSE].verificationToken = form.proof.verificationToken
          /\ [form.proof EXCEPT !.verifyOpen = FALSE].verifiedEmail = form.proof.verifiedEmail
      BY <1>0 DEF ProofRow
    <2>3. f \in FormRow /\ f.email = form.email /\ f.authUser = form.authUser
          /\ f.proof = [form.proof EXCEPT !.verifyOpen = FALSE]
      BY <1>0, <2>1, <2>2 DEF FormRow
    <2>4. FormFits(f)
      BY <1>0, <2>2, <2>3 DEF FormFits
    <2>5. c \in Nat /\ (c = 0 \/ Issued(c))
      BY <1>0, <2>1 DEF FormFits, ProofRow
    <2>6. q \in CallRow /\ CallFits(q)
      BY <1>2, <2>1, <2>5, RequestFits DEF VerifyCode
    <2>7. form' = f /\ calls' = calls \cup {q} /\ UNCHANGED <<codes, cookie, applications>>
      BY <1>0, <1>2, <2>1 DEF VerifyCode, FormRow
    <2>. QED BY <1>0, <2>3, <2>4, <2>6, <2>7, FormMoves
  <1>3. CASE SubmitApplication
    <2>1. PICK f, q, c : /\ f = [form EXCEPT !.submitBusy = TRUE]
                         /\ c = form.proof.verificationToken /\ q = Request("apply", c, FALSE)
      OBVIOUS
    <2>2. f \in FormRow /\ f.proof = form.proof /\ f.email = form.email /\ f.authUser = form.authUser
      BY <1>0, <2>1 DEF FormRow
    <2>3. FormFits(f)
      BY <1>0, <2>2, SameProofFits
    <2>4. c \in Nat /\ (c = 0 \/ Issued(c))
      BY <1>0, <2>1 DEF FormFits, ProofRow
    <2>5. q \in CallRow /\ CallFits(q)
      BY <1>3, <2>1, <2>4, RequestFits DEF SubmitApplication
    <2>. QED BY <1>0, <1>3, <2>1, <2>2, <2>3, <2>5, FormMoves DEF SubmitApplication
  <1>. QED BY <1>1, <1>2, <1>3

-----------------------------------------------------------------------------
(* The server's steps.  An answer is the request with its result.           *)
LEMMA AnswerIs ==
  ASSUME NEW k \in CallRow, NEW res \in {"sent", "mailing", "ok", "refused", "unauthorized"}
  PROVE  /\ [k EXCEPT !.res = res] \in CallRow /\ [k EXCEPT !.res = res].res = res
         /\ [k EXCEPT !.res = res].op = k.op /\ [k EXCEPT !.res = res].code = k.code
         /\ [k EXCEPT !.res = res].email = k.email
  BY DEF CallRow

LEMMA CallIs == ASSUME ReviewerInv, NEW k \in calls PROVE k \in CallRow /\ CallFits(k)
  BY DEF ReviewerInv

LEMMA IssueMoves ==
  ASSUME ReviewerInv, codes \in Seq(CodeRow), NEW k \in calls, IssueOtp(k) PROVE ReviewerInv' /\ Onward
  <1>0. k \in CallRow /\ CallFits(k) /\ k.op = "code"
    BY CallIs DEF IssueOtp
  <1>1. ASSUME NEW res \in {"refused", "unauthorized"}, Answered(k, res), UNCHANGED codes
        PROVE  ReviewerInv' /\ Onward
    <2>1. PICK q : q = [k EXCEPT !.res = res]
      OBVIOUS
    <2>5. res \in {"sent", "mailing", "ok", "refused", "unauthorized"}
      OBVIOUS
    <2>2. q \in CallRow /\ q.op = "code" /\ q.res = res
      BY <1>0, <2>1, <2>5, AnswerIs
    <2>3. CallFits(q)'
      BY <1>1, <2>2 DEF CallFits
    <2>4. Onward
      BY <1>1, IdleOnward
    <2>. QED BY <1>1, <2>1, <2>2, <2>3, <2>4, CallMoves DEF IssueOtp, Answered
  <1>2. ASSUME k.as # NoUser, Issue(k.email, "reviewer_form", k.as),
               calls' = (calls \ {k}) \cup {[k EXCEPT !.res = "mailing", !.code = Len(codes) + 1]}
        PROVE  ReviewerInv' /\ Onward
    <2>1. PICK q : q = [k EXCEPT !.res = "mailing", !.code = Len(codes) + 1]
      OBVIOUS
    <2>2. Len(codes) \in Nat /\ Len(codes) + 1 \in Nat
      OBVIOUS
    <2>3. q \in CallRow /\ q.op = "code" /\ q.res = "mailing" /\ q.code = Len(codes) + 1
      BY <1>0, <2>1, <2>2 DEF CallRow
    <2>4. k.email \in Address /\ k.as \in Users /\ "reviewer_form" \in Purposes
      BY <1>0, <1>2 DEF CallRow, Purposes
    <2>5. Onward /\ Len(codes') = Len(codes) + 1
      BY <1>2, <2>4, IssueOnward
    <2>6. CallFits(q)'
      BY <2>2, <2>3, <2>5 DEF CallFits
    <2>. QED BY <1>2, <2>1, <2>3, <2>5, <2>6, CallMoves DEF IssueOtp
  <1>. QED BY <1>1, <1>2 DEF IssueOtp

LEMMA MailMoves ==
  ASSUME ReviewerInv, codes \in Seq(CodeRow), NEW k \in calls, OtpMailed(k) PROVE ReviewerInv' /\ Onward
  <1>0. k \in CallRow /\ CallFits(k) /\ k.op = "code" /\ k.code \in 1..Len(codes)
    BY CallIs DEF OtpMailed, CallFits
  <1>1. CASE Supersede(k.code) /\ Answered(k, "ok")
    <2>1. PICK q : q = [k EXCEPT !.res = "ok"]
      OBVIOUS
    <2>2. q \in CallRow /\ q.op = "code" /\ q.res = "ok" /\ q.code = k.code
      BY <1>0, <2>1, AnswerIs
    <2>3. Onward /\ Len(codes') = Len(codes) /\ codes'[k.code].mail = "issued"
      BY <1>0, <1>1, SupersedeOnward
    <2>4. CallFits(q)'
      BY <1>0, <2>2, <2>3 DEF CallFits, Issued
    <2>. QED BY <1>1, <2>1, <2>2, <2>3, <2>4, CallMoves DEF OtpMailed, Answered
  <1>2. CASE MailFails(k.code) /\ Answered(k, "refused")
    <2>1. PICK q : q = [k EXCEPT !.res = "refused"]
      OBVIOUS
    <2>2. q \in CallRow /\ q.op = "code" /\ q.res = "refused"
      BY <1>0, <2>1, AnswerIs
    <2>3. Onward
      BY <1>0, <1>2, CodeStepOnward
    <2>4. CallFits(q)'
      BY <2>2 DEF CallFits
    <2>. QED BY <1>2, <2>1, <2>2, <2>3, <2>4, CallMoves DEF OtpMailed, Answered
  <1>. QED BY <1>1, <1>2 DEF OtpMailed

LEMMA VerifyMoves ==
  ASSUME ReviewerInv, codes \in Seq(CodeRow), NEW k \in calls, VerifyOtp(k) PROVE ReviewerInv' /\ Onward
  <1>0. k \in CallRow /\ CallFits(k) /\ k.op = "verify" /\ (k.code = 0 \/ Issued(k.code)) /\ k.right \in BOOLEAN
    BY CallIs DEF VerifyOtp, CallFits, CallRow
  <1>1. PICK res \in {"ok", "refused", "unauthorized"} :
          /\ Answered(k, res)
          /\ \/ res # "ok" /\ UNCHANGED codes
             \/ Verifiable(k.code, k.email, "reviewer_form", k.as) /\ Verify(k.code, k.right)
    BY DEF VerifyOtp
  <1>2. PICK q : q = [k EXCEPT !.res = res]
    OBVIOUS
  <1>8. res \in {"sent", "mailing", "ok", "refused", "unauthorized"}
    OBVIOUS
  <1>3. q \in CallRow /\ q.op = "verify" /\ q.res = res /\ q.code = k.code /\ q.email = k.email
    BY <1>0, <1>2, <1>8, AnswerIs
  <1>4. Onward
    BY <1>0, <1>1, IdleOnward, VerifyOnward
  <1>5. \A c : Issued(c) => Issued(c)' /\ codes'[c].email = codes[c].email
    BY <1>4, KnownStays
  <1>6. res = "ok" => Issued(k.code) /\ codes[k.code].email = k.email
    <2>1. Verifiable(k.code, k.email, "reviewer_form", k.as) =>
            k.code \in 1..Len(codes) /\ codes[k.code].email = k.email
      BY DEF Verifiable, Kept, CodeIds
    <2>2. 0 \notin 1..Len(codes)
      OBVIOUS
    <2>. QED BY <1>0, <1>1, <2>1, <2>2
  <1>7. CallFits(q)'
    BY <1>0, <1>3, <1>5, <1>6 DEF CallFits
  <1>. QED BY <1>1, <1>2, <1>3, <1>4, <1>7, CallMoves DEF VerifyOtp, Answered

(* An application joins those on record: its token had not served yet.      *)
LEMMA CreateMoves ==
  ASSUME ReviewerInv, codes \in Seq(CodeRow), NEW k \in calls, CreateApplication(k) PROVE ReviewerInv' /\ Onward
  <1>0. k \in CallRow /\ CallFits(k) /\ k.op = "apply" /\ (k.code = 0 \/ Issued(k.code))
    BY CallIs DEF CreateApplication, CallFits
  <1>1. PICK res \in {"ok", "refused", "unauthorized"} : Answered(k, res)
    BY DEF CreateApplication
  <1>2. PICK q : q = [k EXCEPT !.res = res]
    OBVIOUS
  <1>7. res \in {"sent", "mailing", "ok", "refused", "unauthorized"}
    OBVIOUS
  <1>3. q \in CallRow /\ q.op = "apply" /\ q.res = res /\ q.code = k.code
    BY <1>0, <1>2, <1>7, AnswerIs
  <1>4. ASSUME Onward PROVE CallFits(q)' /\ calls' \subseteq calls \cup {q}
    <2>1. q.code = 0 \/ Issued(q.code)'
      BY <1>0, <1>3, <1>4, KnownStays
    <2>. QED BY <1>1, <1>2, <1>3, <2>1 DEF CallFits, Answered
  <1>5. CASE UNCHANGED <<codes, applications>>
    <2>1. Onward
      BY <1>5, IdleOnward
    <2>. QED BY <1>3, <1>4, <1>5, <2>1, CallMoves DEF CreateApplication
  <1>6. CASE /\ k.as # NoUser /\ k.as = k.user
             /\ ~RequireOtp \/ Consumable(k.code, k.email, "reviewer_form", k.as)
             /\ IF RequireOtp THEN Consume(k.code) ELSE UNCHANGED codes
             /\ applications' = Append(applications, [user |-> k.as, email |-> k.email, proof |-> k.code])
    <2>. DEFINE new == [user |-> k.as, email |-> k.email, proof |-> k.code]
                c == k.code
    <2>1. new \in ApplicationRow /\ new.user = k.as /\ new.email = k.email /\ new.proof = c /\ c \in Nat
      BY <1>0, <1>6 DEF CallRow, ApplicationRow
    <2>2. RequireOtp => /\ c \in 1..Len(codes) /\ codes[c].email = k.email /\ codes[c].subject = k.as
                        /\ codes[c].verified /\ ~codes[c].consumed /\ Issued(c)
      <3>1. RequireOtp => /\ c \in 1..Len(codes) /\ codes[c].email = k.email /\ codes[c].subject = k.as
                          /\ codes[c].verified /\ ~codes[c].consumed
        BY <1>6 DEF Consumable, Kept, CodeIds
      <3>2. 0 \notin 1..Len(codes)
        OBVIOUS
      <3>. QED BY <1>0, <3>1, <3>2
    <2>3. Onward
      <3>1. CASE RequireOtp
        BY <1>6, <2>2, <3>1, CodeStepOnward
      <3>2. CASE ~RequireOtp
        BY <1>6, <3>2, IdleOnward
      <3>. QED BY <3>1, <3>2
    <2>4. RequireOtp => codes'[c].consumed
      <3>1. ASSUME RequireOtp PROVE codes'[c].consumed
        <4>1. codes[c] \in CodeRow /\ codes' = [codes EXCEPT ![c].consumed = TRUE]
          BY <1>6, <2>2, <3>1, RowTyped DEF Consume
        <4>. QED BY <2>2, <3>1, <4>1 DEF CodeRow
      <3>. QED BY <3>1
    <2>5. RequireOtp => Issued(c)' /\ codes'[c].email = k.email /\ codes'[c].subject = k.as /\ codes'[c].verified
      <3>1. ASSUME RequireOtp PROVE codes'[c].verified
        <4>1. codes[c] \in CodeRow /\ codes' = [codes EXCEPT ![c].consumed = TRUE]
          BY <1>6, <2>2, <3>1, RowTyped DEF Consume
        <4>. QED BY <2>2, <3>1, <4>1 DEF CodeRow
      <3>2. \A d : Issued(d) => Issued(d)' /\ codes'[d].email = codes[d].email /\ codes'[d].subject = codes[d].subject
        BY <2>3, KnownStays
      <3>. QED BY <2>2, <3>1, <3>2
    <2>6. applications \in Seq(ApplicationRow) /\ applications' = Append(applications, new)
      BY <1>6 DEF ReviewerInv
    <2>. HIDE DEF new, c
    <2>7. /\ applications' \in Seq(ApplicationRow) /\ Len(applications') = Len(applications) + 1
          /\ Len(applications) \in Nat
          /\ \A i \in 1..Len(applications') :
               applications'[i] = IF i = Len(applications) + 1 THEN new ELSE applications[i]
      BY <2>1, <2>6
    <2>8. ASSUME RequireOtp, NEW i \in 1..Len(applications)
          PROVE  /\ applications[i].proof \in 1..Len(codes') /\ applications[i].proof # c
                 /\ codes'[applications[i].proof].mail = "issued"
                 /\ codes'[applications[i].proof].verified /\ codes'[applications[i].proof].consumed
                 /\ codes'[applications[i].proof].email = applications[i].email
                 /\ codes'[applications[i].proof].subject = applications[i].user
      <3>1. /\ Issued(applications[i].proof)
            /\ codes[applications[i].proof].verified /\ codes[applications[i].proof].consumed
            /\ codes[applications[i].proof].email = applications[i].email
            /\ codes[applications[i].proof].subject = applications[i].user
        BY <2>8 DEF ReviewerInv, ApplicationsFit
      <3>2. \A d : Issued(d) => d \in 1..Len(codes') /\ codes'[d].mail = "issued" /\ codes'[d].email = codes[d].email
                                /\ codes'[d].subject = codes[d].subject
                                /\ (codes[d].verified /\ codes[d].consumed => codes'[d].verified /\ codes'[d].consumed)
        BY <2>3, KnownStays DEF Issued
      <3>. QED BY <2>2, <2>8, <3>1, <3>2
    <2>9. ApplicationsFit'
      <3>. SUFFICES ASSUME RequireOtp, NEW i \in 1..Len(applications')
                    PROVE  /\ applications'[i].proof \in 1..Len(codes') /\ codes'[applications'[i].proof].mail = "issued"
                           /\ codes'[applications'[i].proof].verified /\ codes'[applications'[i].proof].consumed
                           /\ codes'[applications'[i].proof].email = applications'[i].email
                           /\ codes'[applications'[i].proof].subject = applications'[i].user
                           /\ \A j \in 1..Len(applications') :
                                applications'[j].proof = applications'[i].proof => j = i
        BY DEF ApplicationsFit, Issued
      <3>1. CASE i = Len(applications) + 1
        <4>1. applications'[i] = new
          BY <2>7, <3>1
        <4>2. c \in 1..Len(codes') /\ codes'[c].mail = "issued" /\ codes'[c].consumed
              /\ codes'[c].email = k.email /\ codes'[c].subject = k.as /\ codes'[c].verified
          <5>1. \A d : Issued(d)' => d \in 1..Len(codes') /\ codes'[d].mail = "issued"
            BY DEF Issued
          <5>. QED BY <2>3, <2>2, <2>4, <2>5, <5>1, KnownStays DEF Issued
        <4>3. ASSUME NEW j \in 1..Len(applications'), applications'[j].proof = c PROVE j = i
          <5>1. j \in 1..Len(applications) => applications'[j] = applications[j] /\ applications[j].proof # c
            BY <2>7, <2>8
          <5>. QED BY <2>7, <3>1, <4>3, <5>1
        <4>. QED BY <2>1, <4>1, <4>2, <4>3
      <3>2. CASE i # Len(applications) + 1
        <4>1. i \in 1..Len(applications) /\ applications'[i] = applications[i]
          BY <2>7, <3>2
        <4>2. \A j \in 1..Len(applications) : applications[j].proof = applications[i].proof => j = i
          BY <4>1 DEF ReviewerInv, ApplicationsFit
        <4>3. ASSUME NEW j \in 1..Len(applications'), applications'[j].proof = applications'[i].proof PROVE j = i
          <5>1. j # Len(applications) + 1
            BY <2>1, <2>7, <2>8, <4>1, <4>3
          <5>2. j \in 1..Len(applications) /\ applications'[j] = applications[j]
            BY <2>7, <5>1
          <5>. QED BY <4>1, <4>2, <4>3, <5>2
        <4>. QED BY <2>8, <4>1, <4>3 DEF Issued
      <3>. QED BY <3>1, <3>2
    <2>10. \A x \in calls' : CallFits(x)'
      BY <1>4, <2>3, KnownStays, CallIs
    <2>11. calls' \subseteq CallRow
      BY <1>3, <1>4, <2>3, CallIs
    <2>12. UNCHANGED <<form, cookie>> /\ FormFits(form)'
      BY <2>3, KnownStays, FormIs DEF CreateApplication
    <2>. QED BY <2>3, <2>7, <2>9, <2>10, <2>11, <2>12, FormIs DEF ReviewerInv
  <1>. QED BY <1>5, <1>6 DEF CreateApplication

-----------------------------------------------------------------------------
(* The page acts on an answer as long as it is about what it shows.         *)
LEMMA CodeAnswerMoves ==
  ASSUME ReviewerInv, codes \in Seq(CodeRow), NEW k \in calls, CodeAnswer(k) PROVE ReviewerInv'
  <1>0. /\ form \in FormRow /\ FormFits(form) /\ calls \subseteq CallRow /\ cookie \in Users \cup {NoUser}
        /\ form.proof \in ProofRow /\ \A x \in calls : CallFits(x)
        /\ k \in CallRow /\ (k.res = "ok" => Issued(k.code))
    BY FormIs, CallIs DEF CodeAnswer, CallFits
  <1>. DEFINE taken == [form.proof EXCEPT !.challengeId = k.code, !.challengeEmail = k.email, !.verifyOpen = TRUE]
              g == IF k.res = "unauthorized" THEN ApplyUser(form, NoUser)
                   ELSE IF k.res = "ok" /\ StillShown(k) THEN [form EXCEPT !.proof = taken]
                   ELSE form
  <1>1. taken \in ProofRow /\ taken.challengeId = k.code /\ taken.verificationToken = form.proof.verificationToken
        /\ taken.verifiedEmail = form.proof.verifiedEmail
    BY <1>0 DEF ProofRow, CallRow
  <1>2. [form EXCEPT !.proof.challengeId = k.code, !.proof.challengeEmail = k.email, !.proof.verifyOpen = TRUE]
          = [form EXCEPT !.proof = taken]
    BY <1>0 DEF FormRow, ProofRow
  <1>3. PICK f : f = [g EXCEPT !.codeBusy = FALSE]
    OBVIOUS
  <1>4. form' = f
    BY <1>2, <1>3 DEF CodeAnswer
  <1>. HIDE DEF taken
  <1>5. g \in FormRow /\ FormFits(g)
    <2>1. CASE k.res = "unauthorized"
      BY <1>0, <2>1, AppliedFits
    <2>2. CASE k.res = "ok" /\ StillShown(k)
      <3>1. g = [form EXCEPT !.proof = taken]
        BY <2>2
      <3>2. g \in FormRow /\ g.proof = taken /\ g.email = form.email /\ g.authUser = form.authUser
        BY <1>0, <1>1, <3>1 DEF FormRow
      <3>. QED BY <1>0, <1>1, <2>2, <3>2 DEF FormFits
    <2>3. CASE g = form
      BY <1>0, <2>3
    <2>. QED BY <2>1, <2>2, <2>3
  <1>. HIDE DEF g
  <1>6. f \in FormRow /\ f.proof = g.proof /\ f.email = g.email /\ f.authUser = g.authUser
    BY <1>3, <1>5 DEF FormRow
  <1>7. FormFits(f)
    BY <1>5, <1>6, SameProofFits
  <1>. QED BY <1>0, <1>4, <1>6, <1>7, FormMoves DEF CodeAnswer

LEMMA VerifyAnswerMoves ==
  ASSUME ReviewerInv, codes \in Seq(CodeRow), NEW k \in calls, VerifyAnswer(k) PROVE ReviewerInv'
  <1>0. /\ form \in FormRow /\ FormFits(form) /\ calls \subseteq CallRow /\ cookie \in Users \cup {NoUser}
        /\ form.proof \in ProofRow /\ \A x \in calls : CallFits(x)
        /\ k \in CallRow /\ (k.res = "ok" => Issued(k.code) /\ codes[k.code].email = k.email)
    BY FormIs, CallIs DEF VerifyAnswer, CallFits
  <1>1. CASE k.res = "ok" /\ StillShown(k)
    <2>. DEFINE taken == [form.proof EXCEPT !.verificationToken = k.code, !.verifiedEmail = k.email]
    <2>1. taken \in ProofRow /\ taken.challengeId = form.proof.challengeId /\ taken.verificationToken = k.code
          /\ taken.verifiedEmail = k.email
      BY <1>0 DEF ProofRow, CallRow
    <2>2. form' = [form EXCEPT !.proof = taken]
      BY <1>0, <1>1 DEF VerifyAnswer, FormRow, ProofRow
    <2>. HIDE DEF taken
    <2>3. PICK f : f = [form EXCEPT !.proof = taken]
      OBVIOUS
    <2>4. f \in FormRow /\ f.proof = taken /\ f.email = form.email /\ f.authUser = form.authUser
      BY <1>0, <2>1, <2>3 DEF FormRow
    <2>5. form.authUser # NoUser /\ form.email = k.email
      BY <1>0, <1>1, CodesAssumption DEF StillShown, CallRow
    <2>6. FormFits(f)
      BY <1>0, <1>1, <2>1, <2>4, <2>5 DEF FormFits
    <2>. QED BY <1>0, <2>2, <2>3, <2>4, <2>6, FormMoves DEF VerifyAnswer
  <1>2. CASE k.res = "ok" /\ ~StillShown(k)
    <2>1. PICK f : f = form
      OBVIOUS
    <2>. QED BY <1>0, <1>2, <2>1, FormMoves DEF VerifyAnswer
  <1>3. CASE k.res = "unauthorized"
    <2>1. PICK f : f = ApplyUser(form, NoUser)
      OBVIOUS
    <2>2. f \in FormRow /\ FormFits(f)
      BY <1>0, <2>1, AppliedFits
    <2>. QED BY <1>0, <1>3, <2>1, <2>2, FormMoves DEF VerifyAnswer
  <1>4. CASE k.res = "refused"
    <2>. DEFINE shownAgain == [form.proof EXCEPT !.verifyOpen = SignedIn]
    <2>1. shownAgain \in ProofRow /\ shownAgain.challengeId = form.proof.challengeId
          /\ shownAgain.verificationToken = form.proof.verificationToken
          /\ shownAgain.verifiedEmail = form.proof.verifiedEmail
      BY <1>0 DEF ProofRow, SignedIn
    <2>2. form' = [form EXCEPT !.proof = shownAgain]
      BY <1>0, <1>4 DEF VerifyAnswer, FormRow, ProofRow
    <2>. HIDE DEF shownAgain
    <2>3. PICK f : f = [form EXCEPT !.proof = shownAgain]
      OBVIOUS
    <2>4. f \in FormRow /\ f.proof = shownAgain /\ f.email = form.email /\ f.authUser = form.authUser
      BY <1>0, <2>1, <2>3 DEF FormRow
    <2>5. FormFits(f)
      BY <1>0, <2>1, <2>4 DEF FormFits
    <2>. QED BY <1>0, <2>2, <2>3, <2>4, <2>5, FormMoves DEF VerifyAnswer
  <1>. QED BY <1>1, <1>2, <1>3, <1>4 DEF VerifyAnswer

LEMMA ApplyAnswerMoves ==
  ASSUME ReviewerInv, codes \in Seq(CodeRow), NEW k \in calls, ApplyAnswer(k) PROVE ReviewerInv'
  <1>0. /\ form \in FormRow /\ FormFits(form) /\ calls \subseteq CallRow /\ cookie \in Users \cup {NoUser}
        /\ \A x \in calls : CallFits(x)
    BY FormIs
  <1>1. [form EXCEPT !.email = NoEmail] \in FormRow /\ [form EXCEPT !.email = NoEmail].proof = form.proof
        /\ [form EXCEPT !.email = NoEmail].authUser = form.authUser
    BY <1>0 DEF FormRow, Address
  <1>2. PICK g : /\ form' = [g EXCEPT !.submitBusy = FALSE]
                 /\ \/ g = ClearEmailProof([form EXCEPT !.email = NoEmail])
                    \/ g = [form EXCEPT !.email = NoEmail] /\ ~SignedIn
                    \/ g = ApplyUser(form, NoUser)
                    \/ g = form
    <2>1. CASE k.res = "ok"
      BY <2>1 DEF ApplyAnswer
    <2>2. CASE k.res = "unauthorized"
      BY <2>2 DEF ApplyAnswer
    <2>3. CASE k.res = "refused"
      BY <2>3 DEF ApplyAnswer
    <2>. QED BY <2>1, <2>2, <2>3 DEF ApplyAnswer
  <1>3. g \in FormRow /\ FormFits(g)
    <2>1. CASE g = ClearEmailProof([form EXCEPT !.email = NoEmail])
      BY <1>1, <2>1, ClearedFits
    <2>2. CASE g = [form EXCEPT !.email = NoEmail] /\ ~SignedIn
      BY <1>0, <1>1, <2>2 DEF FormFits, SignedIn
    <2>3. CASE g = ApplyUser(form, NoUser)
      BY <1>0, <2>3, AppliedFits
    <2>4. CASE g = form
      BY <1>0, <2>4
    <2>. QED BY <1>2, <2>1, <2>2, <2>3, <2>4
  <1>4. PICK f : f = [g EXCEPT !.submitBusy = FALSE]
    OBVIOUS
  <1>5. f \in FormRow /\ f.proof = g.proof /\ f.email = g.email /\ f.authUser = g.authUser
    BY <1>3, <1>4 DEF FormRow
  <1>6. FormFits(f)
    BY <1>3, <1>5, SameProofFits
  <1>. QED BY <1>0, <1>2, <1>4, <1>5, <1>6, FormMoves DEF ApplyAnswer

LEMMA ExpiryMoves ==
  ASSUME ReviewerInv, codes \in Seq(CodeRow), CodesExpire PROVE ReviewerInv' /\ Onward
  <1>1. PICK c \in 1..Len(codes) : Expires(c)
    BY DEF CodesExpire, CodesTick, CodeIds
  <1>2. Onward
    BY <1>1, CodeStepOnward
  <1>3. FormFits(form)' /\ \A k \in calls : CallFits(k)'
    BY <1>2, KnownStays, FormIs DEF CodesExpire
  <1>. QED BY <1>2, <1>3, ApplicationsStay DEF CodesExpire, ReviewerInv

LEMMA ReviewerStep ==
  ASSUME ReviewerInv, codes \in Seq(CodeRow), ReviewerNext PROVE ReviewerInv' /\ Onward
  <1>1. CASE SettingsLoaded \/ UserLoaded \/ (\E u \in Users \cup {NoUser} : CookieChanges(u))
             \/ \E e \in Emails : TypeEmail(e)
    BY <1>1, PageMoves, IdleOnward DEF SettingsLoaded, UserLoaded, CookieChanges, TypeEmail
  <1>2. CASE SendCode \/ (\E r \in BOOLEAN : VerifyCode(r)) \/ SubmitApplication
    BY <1>2, RequestMoves, IdleOnward DEF SendCode, VerifyCode, SubmitApplication
  <1>3. CASE CodesExpire
    BY <1>3, ExpiryMoves
  <1>4. ASSUME NEW k \in calls, IssueOtp(k) \/ OtpMailed(k) \/ VerifyOtp(k) \/ CreateApplication(k)
        PROVE  ReviewerInv' /\ Onward
    BY <1>4, IssueMoves, MailMoves, VerifyMoves, CreateMoves
  <1>5. ASSUME NEW k \in calls, CodeAnswer(k) \/ VerifyAnswer(k) \/ ApplyAnswer(k)
        PROVE  ReviewerInv' /\ Onward
    BY <1>5, CodeAnswerMoves, VerifyAnswerMoves, ApplyAnswerMoves, IdleOnward DEF CodeAnswer, VerifyAnswer, ApplyAnswer
  <1>. QED BY <1>1, <1>2, <1>3, <1>4, <1>5 DEF ReviewerNext

(***************************************************************************)
(*                     The account and its email                           *)
(***************************************************************************)
DialogRow == [open: BOOLEAN, view: Nat, user: Signed \cup {SignedOut}, step: {"none", "github", "email"},
              input: Address, challenge: Nat, codeShown: BOOLEAN]
AskRow == [slot: {"save", "resend", "link"}, view: Nat, op: {"code", "verify", "choice", "reload", "link"},
           as: Users, email: Address, same: BOOLEAN, code: Nat, res: {"sent", "mailing", "ok", "refused"}]
ChoiceRow == [user: Users, before: Account, email: Address, proof: Nat]

ChoicesFit == \A c \in choices : c.proof # 0 => c.proof \in 1..Len(codes)

DialogInv ==
  /\ accounts \in [Users -> Account] /\ dialog \in DialogRow /\ asks \subseteq AskRow
  /\ choices \subseteq ChoiceRow /\ ChoicesFit /\ ChosenEmailsAreProven

EmailApart(row) == \A u, v \in Users : u # v => row[u].email = NoEmail \/ row[u].email # row[v].email

LEMMA ApartIs == Unique([u \in Users |-> accounts[u].email]) <=> EmailApart(accounts)
  BY DEF Unique, EmailApart

LEMMA ApartPrimed == Unique([u \in Users |-> accounts[u].email])' <=> EmailApart(accounts')
  BY DEF Unique, EmailApart

LEMMA DialogStart == AccountInit => DialogInv
  <1>. SUFFICES ASSUME AccountInit PROVE DialogInv
    OBVIOUS
  <1>1. NoDialog \in DialogRow
    BY DEF NoDialog, DialogRow, Address
  <1>. QED BY <1>1 DEF AccountInit, DialogInv, ChoicesFit, ChosenEmailsAreProven

(* Whatever steps the codes take, the choices made stay proven.             *)
LEMMA ProvenStay ==
  ASSUME DialogInv, Onward, codes \in Seq(CodeRow)
  PROVE  \A c \in choices :
           /\ c.email \in {c.before.email, c.before.github} \/ c.proof # 0
           /\ c.proof # 0 => /\ c.proof \in 1..Len(codes')
                             /\ codes'[c.proof].verified /\ codes'[c.proof].consumed
                             /\ codes'[c.proof].email = c.email /\ codes'[c.proof].subject = c.user
  <1>1. Len(codes) \in Nat /\ Len(codes') \in Nat /\ Len(codes) <= Len(codes')
    BY DEF Onward
  <1>2. \A c : c \in 1..Len(codes) => c \in 1..Len(codes')
    BY <1>1
  <1>. QED BY <1>2 DEF DialogInv, ChoicesFit, ChosenEmailsAreProven, Onward

(* A step that chooses no email, and leaves everyone's as it is.            *)
LEMMA DialogMoves ==
  ASSUME DialogInv, Onward, codes \in Seq(CodeRow), UNCHANGED choices,
         accounts' \in [Users -> Account], \A u \in Users : accounts'[u].email = accounts[u].email,
         dialog' \in DialogRow, asks' \subseteq AskRow
  PROVE  DialogInv'
  <1>1. EmailApart(accounts')
    BY ApartIs DEF DialogInv, ChosenEmailsAreProven, EmailApart
  <1>2. ChosenEmailsAreProven'
    BY <1>1, ApartPrimed, ProvenStay DEF DialogInv, ChosenEmailsAreProven
  <1>. QED BY <1>2, ProvenStay DEF DialogInv, ChoicesFit

LEMMA DialogIs ==
  ASSUME DialogInv
  PROVE  /\ accounts \in [Users -> Account] /\ asks \subseteq AskRow /\ dialog \in DialogRow
         /\ dialog.view \in Nat /\ dialog.input \in Address /\ dialog.challenge \in Nat
         /\ \A u \in Users : Me(u) \in Signed /\ Me(u).row = accounts[u] /\ accounts[u].github \in Address
  <1>1. \A u \in Users : accounts[u] \in Account
    BY DEF DialogInv
  <1>. QED BY <1>1 DEF DialogInv, DialogRow, Me, Signed, Account

LEMMA ClosedFits == ASSUME DialogInv, Closed PROVE dialog' \in DialogRow
  BY DEF DialogInv, DialogRow, Closed

LEMMA OpenedFits == ASSUME DialogInv, NEW who \in Signed, Opened(who) PROVE dialog' \in DialogRow
  <1>1. who.row.github \in Address /\ AccountCheckStep(who) \in {"none", "github", "email"}
    BY DEF Signed, Account, AccountCheckStep
  <1>2. dialog.view + 1 \in Nat
    BY DialogIs
  <1>. QED BY <1>1, <1>2 DEF Opened, DialogRow

LEMMA SentFits ==
  ASSUME DialogInv, tab \in Users, NEW slot \in {"save", "resend", "link"},
         NEW op \in {"code", "verify", "choice", "reload", "link"}, NEW same \in BOOLEAN, NEW c \in Nat
  PROVE  Sent(slot, op, same, c) \in AskRow
  <1>1. Sent(slot, op, same, c) = [slot |-> slot, view |-> dialog.view, op |-> op, as |-> tab,
                                   email |-> dialog.input, same |-> same, code |-> c, res |-> "sent"]
    BY DEF Sent
  <1>. QED BY <1>1, DialogIs DEF AskRow

(* What the dialog does without an answer.                                  *)
LEMMA DialogActs ==
  ASSUME DialogInv, codes \in Seq(CodeRow), tab \in Users,
         \/ OpenAccountCheck \/ MaybeLater \/ ConnectGitHub \/ UseThisEmail \/ Resend
         \/ (\E u \in Users : AccountSwitches(u)) \/ (\E e \in Emails : TypeAddress(e))
  PROVE  DialogInv' /\ tab' \in Users /\ Onward
  <1>1. UNCHANGED <<codes, accounts, choices>> /\ tab' \in Users
    BY DEF OpenAccountCheck, MaybeLater, ConnectGitHub, UseThisEmail, Resend, AccountSwitches, TypeAddress
  <1>2. Onward
    BY <1>1, IdleOnward
  <1>3. dialog' \in DialogRow /\ asks' \subseteq AskRow
    <2>0. dialog \in DialogRow /\ asks \subseteq AskRow /\ Me(tab) \in Signed /\ dialog.challenge \in Nat
      BY DialogIs
    <2>1. CASE OpenAccountCheck
      BY <2>0, <2>1, OpenedFits DEF OpenAccountCheck
    <2>2. CASE MaybeLater
      BY <2>0, <2>2, ClosedFits DEF MaybeLater
    <2>3. CASE ConnectGitHub
      BY <2>0, <2>3, SentFits DEF ConnectGitHub, Sends
    <2>4. CASE UseThisEmail
      <3>1. PICK op \in {"code", "verify", "choice"}, same \in BOOLEAN, c \in Nat : Sends("save", op, same, c)
        BY <2>0, <2>4 DEF UseThisEmail
      <3>2. op \in {"code", "verify", "choice", "reload", "link"}
        OBVIOUS
      <3>. QED BY <2>0, <2>4, <3>1, <3>2, SentFits DEF UseThisEmail, Sends
    <2>5. CASE Resend
      BY <2>0, <2>5, SentFits DEF Resend, Sends
    <2>6. ASSUME NEW u \in Users, AccountSwitches(u) PROVE dialog' \in DialogRow /\ asks' \subseteq AskRow
      BY <2>0, <2>6 DEF AccountSwitches
    <2>7. ASSUME NEW e \in Emails, TypeAddress(e) PROVE dialog' \in DialogRow /\ asks' \subseteq AskRow
      BY <2>0, <2>7 DEF TypeAddress, DialogRow, Address
    <2>. QED BY <2>1, <2>2, <2>3, <2>4, <2>5, <2>6, <2>7
  <1>. QED BY <1>1, <1>2, <1>3, DialogIs, DialogMoves

-----------------------------------------------------------------------------
LEMMA AskIs == ASSUME DialogInv, NEW k \in asks PROVE k \in AskRow
  BY DEF DialogInv

LEMMA ReplyFits ==
  ASSUME DialogInv, NEW k \in asks, NEW res \in {"sent", "mailing", "ok", "refused"}, Reply(k, res)
  PROVE  asks' \subseteq AskRow
  <1>1. [k EXCEPT !.res = res] \in AskRow
    BY AskIs DEF AskRow
  <1>. QED BY <1>1, AskIs DEF Reply, DialogInv

(* The service's steps that choose no email.                                *)
LEMMA LinkMoves ==
  ASSUME DialogInv, codes \in Seq(CodeRow), tab \in Users, NEW k \in asks, NEW e \in Emails, Associate(k, e)
  PROVE  DialogInv' /\ tab' \in Users /\ Onward
  <1>1. accounts[tab] \in Account /\ accounts \in [Users -> Account]
    BY DialogIs
  <1>2. [accounts[tab] EXCEPT !.github = e, !.pending = TRUE] \in Account
        /\ [accounts[tab] EXCEPT !.github = e, !.pending = TRUE].email = accounts[tab].email
    BY <1>1 DEF Account, Address
  <1>3. accounts' = [accounts EXCEPT ![tab] = [accounts[tab] EXCEPT !.github = e, !.pending = TRUE]]
    BY <1>1 DEF Associate, Account
  <1>4. accounts' \in [Users -> Account] /\ \A u \in Users : accounts'[u].email = accounts[u].email
    BY <1>1, <1>2, <1>3
  <1>. QED BY <1>4, IdleOnward, DialogIs, DialogMoves DEF Associate

LEMMA AskCodeMoves ==
  ASSUME DialogInv, codes \in Seq(CodeRow), tab \in Users, NEW k \in asks, RequestCode(k)
  PROVE  DialogInv' /\ tab' \in Users /\ Onward
  <1>1. UNCHANGED <<accounts, tab, dialog, choices>> /\ k \in AskRow
    BY AskIs DEF RequestCode
  <1>2. CASE Reply(k, "refused") /\ UNCHANGED codes
    BY <1>1, <1>2, IdleOnward, ReplyFits, DialogIs, DialogMoves
  <1>3. CASE /\ Issue(k.email, "change_email", k.as)
             /\ asks' = (asks \ {k}) \cup {[k EXCEPT !.res = "mailing", !.code = Len(codes) + 1]}
    <2>1. k.email \in Address /\ k.as \in Users /\ "change_email" \in Purposes
      BY <1>1 DEF AskRow, Purposes
    <2>2. Onward
      BY <1>3, <2>1, IssueOnward
    <2>3. Len(codes) + 1 \in Nat
      OBVIOUS
    <2>4. [k EXCEPT !.res = "mailing", !.code = Len(codes) + 1] \in AskRow
      BY <1>1, <2>3 DEF AskRow
    <2>5. asks' \subseteq AskRow
      BY <1>3, <2>4, DialogIs
    <2>. QED BY <1>1, <2>2, <2>5, DialogIs, DialogMoves
  <1>. QED BY <1>2, <1>3 DEF RequestCode

LEMMA AskMailMoves ==
  ASSUME DialogInv, codes \in Seq(CodeRow), tab \in Users, NEW k \in asks, CodeMailed(k)
  PROVE  DialogInv' /\ tab' \in Users /\ Onward
  <1>1. UNCHANGED <<accounts, tab, dialog, choices>>
    BY DEF CodeMailed
  <1>2. Onward
    BY SupersedeOnward DEF CodeMailed
  <1>3. asks' \subseteq AskRow
    BY ReplyFits DEF CodeMailed
  <1>. QED BY <1>1, <1>2, <1>3, DialogIs, DialogMoves

LEMMA AskVerifyMoves ==
  ASSUME DialogInv, codes \in Seq(CodeRow), tab \in Users, NEW k \in asks, VerifyAddress(k)
  PROVE  DialogInv' /\ tab' \in Users /\ Onward
  <1>1. UNCHANGED <<accounts, tab, dialog, choices>>
    BY DEF VerifyAddress
  <1>2. Onward
    BY IdleOnward, VerifyOnward DEF VerifyAddress
  <1>3. asks' \subseteq AskRow
    BY ReplyFits DEF VerifyAddress
  <1>. QED BY <1>1, <1>2, <1>3, DialogIs, DialogMoves

-----------------------------------------------------------------------------
(* An email is chosen: nobody else has it, and the token that proves a new  *)
(* one has not served before.                                               *)
LEMMA ChoiceMoves ==
  ASSUME DialogInv, codes \in Seq(CodeRow), tab \in Users, NEW k \in asks, ChooseEmail(k)
  PROVE  DialogInv' /\ tab' \in Users /\ Onward
  <1>0. UNCHANGED <<tab, dialog>> /\ k \in AskRow /\ k.as \in Users /\ k.email \in Address /\ k.same \in BOOLEAN
        /\ k.code \in Nat
    BY AskIs DEF ChooseEmail, AskRow
  <1>1. CASE Reply(k, "refused") /\ UNCHANGED <<codes, accounts, choices>>
    BY <1>0, <1>1, IdleOnward, ReplyFits, DialogIs, DialogMoves
  <1>2. CASE ~(Reply(k, "refused") /\ UNCHANGED <<codes, accounts, choices>>)
    <2>. DEFINE address == IF k.same THEN accounts[k.as].email ELSE k.email
                proof == IF ~k.same /\ NeedsProof(k) THEN k.code ELSE 0
                new == [user |-> k.as, before |-> accounts[k.as], email |-> address, proof |-> proof]
                row == [accounts[k.as] EXCEPT !.email = address, !.pending = FALSE]
    <2>1. /\ Pending(k.as)
          /\ k.same \/ Free(k.as, k.email)
          /\ IF proof = 0 THEN k.same \/ ~NeedsProof(k) ELSE Consumable(proof, k.email, "change_email", k.as)
          /\ IF proof = 0 THEN UNCHANGED codes ELSE Consume(proof)
          /\ accounts' = [accounts EXCEPT ![k.as].email = address, ![k.as].pending = FALSE]
          /\ choices' = choices \cup {new}
          /\ Reply(k, "ok") \/ Reply(k, "refused")
      BY <1>2 DEF ChooseEmail
    <2>2. accounts[k.as] \in Account /\ accounts \in [Users -> Account]
      BY <1>0, DialogIs
    <2>3. address \in Address /\ proof \in Nat /\ (proof # 0 => ~k.same /\ address = k.email)
      BY <1>0, <2>2 DEF Account
    <2>4. new \in ChoiceRow /\ new.user = k.as /\ new.before = accounts[k.as] /\ new.email = address /\ new.proof = proof
      BY <1>0, <2>2, <2>3 DEF ChoiceRow
    <2>5. row \in Account /\ row.email = address /\ accounts' = [accounts EXCEPT ![k.as] = row]
      BY <2>1, <2>2, <2>3 DEF Account
    <2>6. proof = 0 => address \in {accounts[k.as].email, accounts[k.as].github}
      BY <2>1 DEF NeedsProof
    <2>7. k.same => address = accounts[k.as].email
      OBVIOUS
    <2>8. ~k.same => address = k.email
      OBVIOUS
    <2>. HIDE DEF address, proof, new, row
    <2>9. proof # 0 => /\ proof \in 1..Len(codes) /\ codes[proof].verified /\ ~codes[proof].consumed
                       /\ codes[proof].email = address /\ codes[proof].subject = k.as
      BY <2>1, <2>3 DEF Consumable, Kept, CodeIds
    <2>10. Onward
      <3>1. CASE proof = 0
        BY <2>1, <3>1, IdleOnward
      <3>2. CASE proof # 0
        BY <2>1, <2>9, <3>2, CodeStepOnward
      <3>. QED BY <3>1, <3>2
    <2>11. proof # 0 => /\ proof \in 1..Len(codes') /\ codes'[proof].verified /\ codes'[proof].consumed
                        /\ codes'[proof].email = address /\ codes'[proof].subject = k.as
      <3>1. ASSUME proof # 0
            PROVE  codes'[proof].verified /\ codes'[proof].consumed
        <4>1. codes[proof] \in CodeRow /\ codes' = [codes EXCEPT ![proof].consumed = TRUE]
          BY <2>1, <2>9, <3>1, RowTyped DEF Consume
        <4>. QED BY <2>9, <3>1, <4>1 DEF CodeRow
      <3>2. Len(codes) \in Nat /\ Len(codes') \in Nat /\ Len(codes) <= Len(codes')
        BY <2>10 DEF Onward
      <3>3. proof # 0 => proof \in 1..Len(codes')
        BY <2>9, <3>2
      <3>. QED BY <2>9, <2>10, <3>1, <3>3 DEF Onward
    <2>12. accounts' \in [Users -> Account]
      BY <2>2, <2>5
    <2>13. EmailApart(accounts')
      <3>1. EmailApart(accounts)
        BY ApartIs DEF DialogInv, ChosenEmailsAreProven
      <3>2. \A v \in Users : v # k.as => address = NoEmail \/ accounts[v].email # address
        BY <1>0, <2>1, <2>7, <2>8, <3>1 DEF Free, EmailApart
      <3>3. \A v \in Users : accounts'[v] = IF v = k.as THEN row ELSE accounts[v]
        BY <2>2, <2>5
      <3>. QED BY <2>5, <3>1, <3>2, <3>3 DEF EmailApart
    <2>14. \A c \in choices : c.proof # 0 => c.proof # proof
      BY <2>9 DEF DialogInv, ChosenEmailsAreProven
    <2>15. \A c \in choices' :
             /\ c.email \in {c.before.email, c.before.github} \/ c.proof # 0
             /\ c.proof # 0 => /\ c.proof \in 1..Len(codes')
                               /\ codes'[c.proof].verified /\ codes'[c.proof].consumed
                               /\ codes'[c.proof].email = c.email /\ codes'[c.proof].subject = c.user
      BY <2>1, <2>4, <2>6, <2>10, <2>11, ProvenStay
    <2>16. \A c, d \in choices' : c.proof # 0 /\ d.proof = c.proof => d = c
      <3>1. \A c, d \in choices : c.proof # 0 /\ d.proof = c.proof => d = c
        BY DEF DialogInv, ChosenEmailsAreProven
      <3>. QED BY <2>1, <2>4, <2>14, <3>1
    <2>17. ChosenEmailsAreProven' /\ ChoicesFit'
      BY <2>13, <2>15, <2>16, ApartPrimed DEF ChosenEmailsAreProven, ChoicesFit
    <2>18. asks' \subseteq AskRow
      BY <2>1, ReplyFits
    <2>19. choices' \subseteq ChoiceRow
      BY <2>1, <2>4 DEF DialogInv
    <2>. QED BY <1>0, <2>10, <2>12, <2>17, <2>18, <2>19 DEF DialogInv
  <1>. QED BY <1>1, <1>2

(* The dialog takes an answer, of its own or of one that is gone.           *)
LEMMA AnswerMoves ==
  ASSUME DialogInv, codes \in Seq(CodeRow), tab \in Users, NEW k \in asks,
         LinkAnswer(k) \/ ChallengeAnswer(k) \/ ProofAnswer(k) \/ ChoiceAnswer(k) \/ Reload(k) \/ ShowFailure(k)
  PROVE  DialogInv' /\ tab' \in Users /\ Onward
  <1>0. /\ dialog \in DialogRow /\ asks \subseteq AskRow /\ Me(tab) \in Signed /\ k \in AskRow
        /\ Me(tab).row.github \in Address
    BY DialogIs, AskIs
  <1>1. UNCHANGED <<codes, accounts, tab, choices>>
    BY DEF LinkAnswer, ChallengeAnswer, ProofAnswer, ChoiceAnswer, Reload, ShowFailure
  <1>2. Onward
    BY <1>1, IdleOnward
  <1>3. asks' \subseteq AskRow
    <2>1. CASE asks' = asks \ {k}
      BY <1>0, <2>1
    <2>2. CASE ProofAnswer(k)
      <3>1. [k EXCEPT !.op = "choice", !.as = tab, !.res = "sent"] \in AskRow
        BY <1>0 DEF AskRow
      <3>. QED BY <1>0, <2>2, <3>1 DEF ProofAnswer
    <2>3. CASE ChoiceAnswer(k)
      <3>1. [k EXCEPT !.op = "reload", !.res = "sent"] \in AskRow
        BY <1>0 DEF AskRow
      <3>. QED BY <1>0, <2>3, <3>1 DEF ChoiceAnswer
    <2>. QED BY <2>1, <2>2, <2>3 DEF LinkAnswer, ChallengeAnswer, Reload, ShowFailure
  <1>4. dialog' \in DialogRow
    <2>1. CASE dialog' = dialog
      BY <1>0, <2>1
    <2>2. CASE Closed
      BY <2>2, ClosedFits
    <2>3. CASE Opened(Me(tab))
      BY <1>0, <2>3, OpenedFits
    <2>4. CASE dialog' = [dialog EXCEPT !.user = Me(tab), !.step = "email", !.input = Me(tab).row.github,
                                        !.challenge = 0, !.codeShown = FALSE]
      BY <1>0, <2>4 DEF DialogRow
    <2>5. CASE dialog' = [dialog EXCEPT !.challenge = k.code, !.codeShown = @ \/ k.slot = "save"]
      BY <1>0, <2>5 DEF DialogRow, AskRow
    <2>6. CASE LinkAnswer(k)
      BY <2>1, <2>2, <2>3, <2>4, <2>6 DEF LinkAnswer
    <2>7. CASE ChallengeAnswer(k)
      BY <2>1, <2>5, <2>7 DEF ChallengeAnswer
    <2>. QED BY <2>1, <2>2, <2>3, <2>6, <2>7 DEF ProofAnswer, ChoiceAnswer, Reload, ShowFailure
  <1>. QED BY <1>1, <1>2, <1>3, <1>4, DialogIs, DialogMoves

LEMMA DialogStep ==
  ASSUME DialogInv, codes \in Seq(CodeRow), tab \in Users, AccountNext
  PROVE  DialogInv' /\ tab' \in Users /\ Onward
  <1>1. CASE \/ OpenAccountCheck \/ MaybeLater \/ ConnectGitHub \/ UseThisEmail \/ Resend
             \/ (\E u \in Users : AccountSwitches(u)) \/ (\E e \in Emails : TypeAddress(e))
    BY <1>1, DialogActs
  <1>2. ASSUME NEW k \in asks, RequestCode(k) \/ CodeMailed(k) \/ VerifyAddress(k) \/ ChooseEmail(k)
                               \/ \E e \in Emails : Associate(k, e)
        PROVE  DialogInv' /\ tab' \in Users /\ Onward
    BY <1>2, AskCodeMoves, AskMailMoves, AskVerifyMoves, ChoiceMoves, LinkMoves
  <1>3. ASSUME NEW k \in asks, LinkAnswer(k) \/ ChallengeAnswer(k) \/ ProofAnswer(k) \/ ChoiceAnswer(k)
                               \/ Reload(k) \/ ShowFailure(k)
        PROVE  DialogInv' /\ tab' \in Users /\ Onward
    BY <1>3, AnswerMoves
  <1>. QED BY <1>1, <1>2, <1>3 DEF AccountNext

(***************************************************************************)
(*                          The pages together                             *)
(***************************************************************************)
EmailsInv ==
  /\ codes \in Seq(CodeRow) /\ ReviewerInv /\ DialogInv
  /\ page = "account" => tab \in Users

LEMMA EmailsStart == Init => EmailsInv
  <1>. SUFFICES ASSUME Init PROVE EmailsInv
    OBVIOUS
  <1>1. codes = <<>>
    BY DEF Init, AccountInit, CodesInit
  <1>2. page = "account" => tab \in Users
    BY DEF Init, AccountInit
  <1>. QED BY <1>1, <1>2, ReviewerStart, DialogStart DEF Init, EmailsInv

(* The page that is not open stays true to the codes all the same.          *)
LEMMA BesideReviewer ==
  ASSUME ReviewerInv, Onward, codes \in Seq(CodeRow), UNCHANGED <<form, cookie, calls, applications>>
  PROVE  ReviewerInv'
  <1>1. FormFits(form)' /\ \A k \in calls : CallFits(k)'
    BY KnownStays, FormIs
  <1>. QED BY <1>1, ApplicationsStay DEF ReviewerInv

LEMMA BesideDialog ==
  ASSUME DialogInv, Onward, codes \in Seq(CodeRow), UNCHANGED hvars
  PROVE  DialogInv'
  BY DialogMoves, DialogIs DEF hvars

LEMMA EmailsStep == EmailsInv /\ [Next]_vars => EmailsInv'
  <1>. SUFFICES ASSUME EmailsInv, [Next]_vars PROVE EmailsInv'
    OBVIOUS
  <1>0. codes \in Seq(CodeRow) /\ ReviewerInv /\ DialogInv
    BY DEF EmailsInv
  <1>1. CASE ReviewerPage
    <2>1. UNCHANGED <<page, hvars>> /\ ReviewerNext /\ UNCHANGED tab
      BY <1>1 DEF ReviewerPage, hvars
    <2>2. ReviewerInv' /\ Onward
      BY <1>0, <2>1, ReviewerStep
    <2>3. DialogInv' /\ codes' \in Seq(CodeRow)
      BY <1>0, <2>1, <2>2, BesideDialog DEF Onward
    <2>. QED BY <2>1, <2>2, <2>3 DEF EmailsInv
  <1>2. CASE AccountPage
    <2>1. UNCHANGED <<page, form, cookie, calls, applications>> /\ AccountNext /\ tab \in Users
      BY <1>2 DEF AccountPage, EmailsInv
    <2>2. DialogInv' /\ tab' \in Users /\ Onward
      BY <1>0, <2>1, DialogStep
    <2>3. ReviewerInv' /\ codes' \in Seq(CodeRow)
      BY <1>0, <2>1, <2>2, BesideReviewer DEF Onward
    <2>. QED BY <2>2, <2>3 DEF EmailsInv
  <1>3. CASE UNCHANGED <<page, rvars, hvars>>
    <2>1. UNCHANGED <<codes, form, cookie, calls, applications, tab, page, hvars>>
      BY <1>3 DEF rvars, hvars
    <2>2. Onward
      BY <1>0, <2>1, IdleOnward
    <2>. QED BY <1>0, <2>1, <2>2, BesideReviewer, BesideDialog DEF EmailsInv
  <1>4. [Next]_vars => ReviewerPage \/ AccountPage \/ UNCHANGED <<page, rvars, hvars>>
    BY DEF Next, vars, DrawerPage, EditorPage, SubmitPage, FormatPage, BoardPage, ThreadPage, ContributorsPage,
           CheckPage, HeaderPage
  <1>. QED BY <1>1, <1>2, <1>3, <1>4

(* In every behaviour of the site, whatever address is on record, in an     *)
(* application (routes.py, reviewer applications) or as the email an        *)
(* account chose (account_email.py), was proven by the account that gave    *)
(* it with a code that served once (verification.py), or was its own        *)
(* already; and no two accounts ever have the same email.                   *)
THEOREM AddressesAreProven == Spec => []EmailsAreProven
  <1>1. EmailsInv => EmailsAreProven
    BY ReviewerImplies DEF EmailsInv, DialogInv, EmailsAreProven
  <1>. QED BY <1>1, EmailsStart, EmailsStep, PTL DEF Spec

(* In every behaviour, whatever is typed, signed in or answered late: a     *)
(* token the reviewer form holds is of the address it shows, under the      *)
(* account it shows (reviewer.js).                                          *)
THEOREM FormKeepsItsProof == Spec => []ProofIsForShownEmail
  <1>1. EmailsInv => ProofIsForShownEmail
    BY ReviewerImplies DEF EmailsInv
  <1>. QED BY <1>1, EmailsStart, EmailsStep, PTL DEF Spec
=============================================================================
