---------------------------- MODULE AccountEmail ----------------------------
(***************************************************************************)
(* The account check of the public site: the dialog in which an account    *)
(* connects GitHub and chooses its email (account-verification.js), with   *)
(* its service (community/account_email.py).                               *)
(* The address stays editable while a code is on its way, Escape closes    *)
(* the dialog under a request, and the account may change in another tab.  *)
(***************************************************************************)
EXTENDS EmailCodes

CONSTANTS MaxDialogs,   \* bound: dialogs opened
          MaxAsks       \* bound: dialogs and requests in flight together

ASSUME AccountAssumption == MaxDialogs \in Nat /\ MaxAsks \in Nat

VARIABLES accounts,   \* the users' rows
          tab,        \* the account of the session cookie, NoUser where there is no dialog
          dialog, asks,
          choices     \* history: the emails chosen

hvars == <<accounts, tab, dialog, asks, choices>>
pvars == <<codes, hvars>>

Address == Emails \cup {NoEmail}

(* NoEmail: an address no one else types; github NoEmail: not linked.      *)
Account == [email: Address, github: Address, pending: BOOLEAN]

Signed == [id: Users, row: Account]
SignedOut == [id |-> NoUser, row |-> [email |-> NoEmail, github |-> NoEmail, pending |-> FALSE]]
Me(u) == [id |-> u, row |-> accounts[u]]

AccountCheckStep(who) == IF who.row.github = NoEmail THEN "github"
                         ELSE IF who.row.pending THEN "email" ELSE "none"

(* challenge 0: null; codeShown: the code's field and the resend button.   *)
NoDialog == [open |-> FALSE, view |-> 0, user |-> SignedOut, step |-> "none",
             input |-> NoEmail, challenge |-> 0, codeShown |-> FALSE]

(* slot: the button that waits; view: the dialog it is on; same: the choice *)
(* is to keep the email; code: the challenge or the token.                  *)
Ask == [slot: {"save", "resend", "link"}, view: 1..MaxDialogs,
        op: {"code", "verify", "choice", "reload", "link"}, as: Users, email: Address,
        same: BOOLEAN, code: 0..MaxCodes, res: {"sent", "mailing", "ok", "refused"}]

Unique(field) == \A u, v \in Users : u # v => field[u] = NoEmail \/ field[u] # field[v]

AccountInit ==
  /\ CodesInit
  /\ accounts \in {a \in [Users -> Account] : /\ Unique([u \in Users |-> a[u].email])
                                              /\ Unique([u \in Users |-> a[u].github])
                                              /\ \A u \in Users : a[u].pending = (a[u].github # NoEmail)}
  /\ tab \in Users \cup {NoUser}
  /\ dialog = NoDialog /\ asks = {} /\ choices = {}

-----------------------------------------------------------------------------
(* reviewAccount, one dialog at a time: by itself when the account is read, *)
(* or from the menu.                                                       *)
MayOpen == dialog.view < MaxDialogs
Opened(who) ==
  /\ ~dialog.open /\ AccountCheckStep(who) # "none" /\ MayOpen
  /\ dialog' = [open |-> TRUE, view |-> dialog.view + 1, user |-> who, step |-> AccountCheckStep(who),
                input |-> who.row.github, challenge |-> 0, codeShown |-> FALSE]

OpenAccountCheck == Opened(Me(tab)) /\ UNCHANGED <<codes, accounts, tab, asks, choices>>

(* In another tab another account signs in, as whom the dialog's requests   *)
(* then go (bound: while the dialog is the account's own).                 *)
AccountSwitches(u) ==
  /\ dialog.open /\ tab = dialog.user.id /\ u # tab /\ tab' = u
  /\ UNCHANGED <<codes, accounts, dialog, asks, choices>>

(* Maybe later, Escape, or a handler that is done, maybe of an earlier     *)
(* dialog.                                                                 *)
Closed == dialog' = [dialog EXCEPT !.open = FALSE]

MaybeLater == dialog.open /\ Closed /\ UNCHANGED <<codes, accounts, tab, asks, choices>>

-----------------------------------------------------------------------------
Waiting(slot) == \E k \in asks : k.slot = slot /\ k.view = dialog.view
Sent(slot, op, same, code) ==
  [slot |-> slot, view |-> dialog.view, op |-> op, as |-> tab, email |-> dialog.input,
   same |-> same, code |-> code, res |-> "sent"]
Sends(slot, op, same, code) ==
  /\ Cardinality(asks) + dialog.view <= MaxAsks /\ asks' = asks \cup {Sent(slot, op, same, code)}

ConnectGitHub ==
  /\ dialog.open /\ dialog.step = "github" /\ ~Waiting("link")
  /\ Sends("link", "link", FALSE, 0)
  /\ UNCHANGED <<codes, accounts, tab, dialog, choices>>

(* The popup, under the cookie: oauth_associate_callback.                  *)
Associate(k, e) ==
  /\ k.op = "link" /\ accounts[tab].github = NoEmail
  /\ \A v \in Users : accounts[v].github # e
  /\ accounts' = [accounts EXCEPT ![tab].github = e, ![tab].pending = TRUE]
  /\ UNCHANGED <<codes, tab, dialog, asks, choices>>

(* linkGitHub polls until the account is linked or the popup is closed;    *)
(* its authchange opens the next dialog, or finds one open, whose content   *)
(* the answer then replaces, also if it is not the one that asked.          *)
LinkAnswer(k) ==
  LET me == Me(tab) IN
  /\ k.op = "link" /\ asks' = asks \ {k}
  /\ \/ UNCHANGED dialog
     \/ me.row.github # NoEmail /\ Opened(me)
     \/ /\ dialog.open /\ AccountCheckStep(me) = "email"
        /\ dialog' = [dialog EXCEPT !.user = me, !.step = "email", !.input = me.row.github,
                                         !.challenge = 0, !.codeShown = FALSE]
     \/ me.row.github # NoEmail /\ AccountCheckStep(me) = "none" /\ Closed
  /\ UNCHANGED <<codes, accounts, tab, choices>>

TypeAddress(e) ==
  /\ dialog.open /\ dialog.step = "email" /\ dialog.input # e
  /\ dialog' = [dialog EXCEPT !.input = e, !.challenge = 0, !.codeShown = FALSE]
  /\ UNCHANGED <<codes, accounts, tab, asks, choices>>

(* submit: a code first, unless the address is the account's or GitHub's;  *)
(* the code of a field that is not shown is empty, and fits no challenge.  *)
UseThisEmail ==
  LET same == dialog.input = dialog.user.row.email
      known == same \/ dialog.input = dialog.user.row.github
  IN /\ dialog.open /\ dialog.step = "email" /\ ~Waiting("save")
     /\ \/ ~known /\ dialog.challenge = 0 /\ Sends("save", "code", FALSE, 0)
        \/ dialog.challenge # 0 /\ Sends("save", "verify", same, IF dialog.codeShown THEN dialog.challenge ELSE 0)
        \/ known /\ dialog.challenge = 0 /\ Sends("save", "choice", same, 0)
     /\ UNCHANGED <<codes, accounts, tab, dialog, choices>>

Resend == /\ dialog.open /\ dialog.codeShown /\ ~Waiting("resend")
          /\ Sends("resend", "code", FALSE, 0)
          /\ UNCHANGED <<codes, accounts, tab, dialog, choices>>

-----------------------------------------------------------------------------
Reply(k, res) == asks' = (asks \ {k}) \cup {[k EXCEPT !.res = res]}
Pending(u) == accounts[u].pending /\ accounts[u].github # NoEmail
(* Slip: an address somebody else has is offered a code too. *)
FreeAnyway(u, e) == TRUE

Free(u, e) == \A v \in Users \ {u} : accounts[v].email # e

(* A mail that fails takes its code back, and a code or token may expire:  *)
(* for the dialog both are a request refused.                              *)
RequestCode(k) ==
  /\ k.op = "code" /\ k.res = "sent"
  /\ \/ Reply(k, "refused") /\ UNCHANGED codes
     \/ /\ Pending(k.as) /\ k.email # accounts[k.as].github /\ Free(k.as, k.email)
        /\ Issue(k.email, "change_email", k.as)
        /\ asks' = (asks \ {k}) \cup {[k EXCEPT !.res = "mailing", !.code = Len(codes) + 1]}
  /\ UNCHANGED <<accounts, tab, dialog, choices>>

CodeMailed(k) ==
  /\ k.op = "code" /\ k.res = "mailing"
  /\ Supersede(k.code)
  /\ Reply(k, "ok") \/ Reply(k, "refused")
  /\ UNCHANGED <<accounts, tab, dialog, choices>>

VerifyAddress(k) ==
  /\ k.op = "verify" /\ k.res = "sent"
  /\ \/ Reply(k, "refused") /\ UNCHANGED codes
     \/ /\ Pending(k.as) /\ Verifiable(k.code, k.email, "change_email", k.as)
        /\ \E right \in BOOLEAN : /\ Verify(k.code, right)
                                  /\ Reply(k, "refused") \/ (right /\ Reply(k, "ok"))
  /\ UNCHANGED <<accounts, tab, dialog, choices>>

(* An address that is neither GitHub's nor the account's needs a token,    *)
(* consumed in the transaction that changes the email.                     *)
NeedsProof(k) == k.email # accounts[k.as].github /\ k.email # accounts[k.as].email
ChooseEmail(k) ==
  LET chosen == IF k.same THEN accounts[k.as].email ELSE k.email
      proof == IF ~k.same /\ NeedsProof(k) THEN k.code ELSE 0
  IN /\ k.op = "choice" /\ k.res = "sent"
     /\ \/ Reply(k, "refused") /\ UNCHANGED <<codes, accounts, choices>>
        \/ /\ Pending(k.as)
           /\ k.same \/ Free(k.as, k.email)
           /\ IF proof = 0 THEN k.same \/ ~NeedsProof(k) ELSE Consumable(proof, k.email, "change_email", k.as)
           /\ IF proof = 0 THEN UNCHANGED codes ELSE Consume(proof)
           /\ accounts' = [accounts EXCEPT ![k.as].email = chosen, ![k.as].pending = FALSE]
           /\ choices' = choices \cup {[user |-> k.as, before |-> accounts[k.as], email |-> chosen, proof |-> proof]}
           /\ Reply(k, "ok") \/ Reply(k, "refused")
     /\ UNCHANGED <<tab, dialog>>

-----------------------------------------------------------------------------
(* A failure only shows its message.                                       *)
ShowFailure(k) == /\ k.op # "link" /\ k.res = "refused" /\ asks' = asks \ {k}
                  /\ UNCHANGED <<codes, accounts, tab, dialog, choices>>

(* The challenge is taken, whatever address the dialog shows by now.       *)
ChallengeAnswer(k) ==
  /\ k.op = "code" /\ k.res = "ok" /\ asks' = asks \ {k}
  /\ dialog' = IF k.view = dialog.view
               THEN [dialog EXCEPT !.challenge = k.code, !.codeShown = @ \/ k.slot = "save"]
               ELSE dialog
  /\ UNCHANGED <<codes, accounts, tab, choices>>

(* The token is used at once, for the address the button was pressed with. *)
ProofAnswer(k) ==
  /\ k.op = "verify" /\ k.res = "ok"
  /\ asks' = (asks \ {k}) \cup {[k EXCEPT !.op = "choice", !.as = tab, !.res = "sent"]}
  /\ UNCHANGED <<codes, accounts, tab, dialog, choices>>

ChoiceAnswer(k) ==
  /\ k.op = "choice" /\ k.res = "ok" /\ Closed
  /\ asks' = (asks \ {k}) \cup {[k EXCEPT !.op = "reload", !.res = "sent"]}
  /\ UNCHANGED <<codes, accounts, tab, choices>>

Reload(k) ==
  /\ k.op = "reload" /\ asks' = asks \ {k}
  /\ \/ UNCHANGED dialog
     \/ Opened(Me(tab))
  /\ UNCHANGED <<codes, accounts, tab, choices>>

AccountNext ==
  \/ OpenAccountCheck \/ MaybeLater
  \/ ConnectGitHub \/ UseThisEmail \/ Resend
  \/ \E u \in Users : AccountSwitches(u)
  \/ \E e \in Emails : TypeAddress(e)
  \/ \E k \in asks : \/ RequestCode(k) \/ CodeMailed(k) \/ VerifyAddress(k) \/ ChooseEmail(k)
                      \/ LinkAnswer(k) \/ ChallengeAnswer(k) \/ ProofAnswer(k) \/ ChoiceAnswer(k)
                      \/ Reload(k) \/ ShowFailure(k)
                      \/ \E e \in Emails : Associate(k, e)

AccountTypeOK ==
  /\ CodesTypeOK /\ accounts \in [Users -> Account] /\ tab \in Users \cup {NoUser}
  /\ dialog \in [open: BOOLEAN, view: 0..MaxDialogs, user: Signed \cup {SignedOut},
                 step: {"none", "github", "email"}, input: Address, challenge: 0..MaxCodes,
                 codeShown: BOOLEAN]
  /\ asks \subseteq Ask
  /\ choices \subseteq [user: Users, before: Account, email: Address, proof: 0..MaxCodes]

(***************************************************************************)
(* An email an account chose is the one it had, its GitHub identity's, or  *)
(* one proven by a code that was mailed there for this account and served  *)
(* this choice only; and no two accounts ever have the same email.         *)
(***************************************************************************)
ChosenEmailsAreProven ==
  /\ Unique([u \in Users |-> accounts[u].email])
  /\ \A c \in choices :
       /\ c.email \in {c.before.email, c.before.github} \/ c.proof # 0
       /\ c.proof # 0 => /\ codes[c.proof].verified /\ codes[c.proof].consumed
                         /\ codes[c.proof].email = c.email /\ codes[c.proof].subject = c.user
       /\ \A d \in choices : c.proof # 0 /\ d.proof = c.proof => d = c
=============================================================================
