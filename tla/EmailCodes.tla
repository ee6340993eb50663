----------------------------- MODULE EmailCodes -----------------------------
(***************************************************************************)
(* One-time email codes (src/mailing/verification.py), shared by the       *)
(* reviewer application form and the account's choice of an email.  A code *)
(* is issued in a transaction, mailed outside of it, and a second          *)
(* transaction then voids the other codes of its scope.  A code may be     *)
(* refused at any time (cooldown, hourly limit, no mail server) and a mail *)
(* may take longer than the cooldown, which runs from the creation of the  *)
(* code.  Codes are numbered in the order of their creation, 0 is no code, *)
(* and a code's token has the code's number.                               *)
(***************************************************************************)
EXTENDS Naturals, Sequences, FiniteSets

CONSTANTS Emails,       \* addresses that can be typed
          Users,        \* accounts
          NoUser, NoEmail,
          MaxAttempts,  \* MAX_CODE_ATTEMPTS
          MaxCodes      \* bound: codes ever issued

ASSUME CodesAssumption == /\ NoUser \notin Users /\ NoEmail \notin Emails
                          /\ MaxAttempts \in Nat /\ MaxCodes \in Nat

VARIABLE codes          \* the challenges, in the order of their creation

Purposes == {"reviewer_form", "change_email"}

(* A row; mail: on its way, delivered and the others superseded, or failed  *)
(* (the row is deleted).                                                   *)
Code == [email: Emails, purpose: Purposes, subject: Users,
         mail: {"sending", "issued", "failed"}, attempts: 0..MaxAttempts,
         expired: BOOLEAN, verified: BOOLEAN, consumed: BOOLEAN]

CodeIds == 1..Len(codes)
Kept == {c \in CodeIds : codes[c].mail # "failed"}

CodesInit == codes = <<>>

SameScope(c, d) == /\ codes[c].email = codes[d].email
                   /\ codes[c].purpose = codes[d].purpose
                   /\ codes[c].subject = codes[d].subject

(* First transaction.                                                      *)
Issue(e, p, u) ==
  /\ Len(codes) < MaxCodes
  /\ codes' = Append(codes, [email |-> e, purpose |-> p, subject |-> u, mail |-> "sending",
                          attempts |-> 0, expired |-> FALSE,
                          verified |-> FALSE, consumed |-> FALSE])

MailFails(c) == /\ codes[c].mail = "sending"
                /\ codes' = [codes EXCEPT ![c].mail = "failed"]

(* Delivered; second transaction: the other open codes of the scope are    *)
(* void.                                                                   *)
Supersede(c) ==
  /\ codes[c].mail = "sending"
  /\ codes' = [d \in CodeIds |->
       IF d = c THEN [codes[c] EXCEPT !.mail = "issued"]
       ELSE [codes[d] EXCEPT !.consumed = @ \/ (SameScope(c, d) /\ d \in Kept)]]

Verifiable(c, e, p, u) ==
  /\ c \in Kept
  /\ codes[c].email = e /\ codes[c].purpose = p /\ codes[c].subject = u
  /\ ~codes[c].consumed /\ ~codes[c].verified /\ ~codes[c].expired
  /\ codes[c].attempts < MaxAttempts

(* A wrong code costs an attempt, the right one makes the token.           *)
Verify(c, right) == codes' = [codes EXCEPT ![c].attempts = @ + 1, ![c].verified = right]

Consumable(c, e, p, u) ==
  /\ c \in Kept
  /\ codes[c].email = e /\ codes[c].purpose = p /\ codes[c].subject = u
  /\ codes[c].verified /\ ~codes[c].consumed /\ ~codes[c].expired

Consume(c) == codes' = [codes EXCEPT ![c].consumed = TRUE]

(* Time: the code, or the token that replaced it, expires.                 *)
Expires(c) == codes[c].mail # "failed" /\ ~codes[c].expired /\ ~codes[c].consumed
              /\ codes' = [codes EXCEPT ![c].expired = TRUE]

CodesTick == \E c \in CodeIds : Expires(c)

CodesTypeOK == codes \in Seq(Code) /\ Len(codes) <= MaxCodes
=============================================================================
