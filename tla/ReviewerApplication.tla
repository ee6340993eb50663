------------------------ MODULE ReviewerApplication ------------------------
(***************************************************************************)
(* The reviewer application page (website_dist/js/pages/reviewer.js) with  *)
(* the service behind it.  Every request is three steps: the click, the    *)
(* server's transaction, and the answer the page acts on; between them the *)
(* person types, signs out, or changes account in another tab.             *)
(***************************************************************************)
EXTENDS EmailCodes

CONSTANTS RequireOtp,       \* settings.form_mail_require_otp
          MaxFormCodes,     \* bound: codes issued to the form
          MaxApplications,  \* bound: applications on record
          MaxCalls          \* bound: requests in flight

ASSUME ReviewerAssumption == RequireOtp \in BOOLEAN /\ MaxApplications \in Nat /\ MaxFormCodes \in Nat /\ MaxCalls \in Nat

VARIABLES form,          \* the page's module-level state
          cookie,        \* the account of the browser's session cookie
          calls,         \* requests in flight
          applications   \* reviewer_applications, newest last

rvars == <<codes, form, cookie, calls, applications>>

NoProof == [challengeId |-> 0, challengeEmail |-> NoEmail,
            verificationToken |-> 0, verifiedEmail |-> NoEmail, verifyOpen |-> FALSE]

(* otpRequired is null until /auth/config has answered.                    *)
FormState == [email: Emails \cup {NoEmail}, authUser: Users \cup {NoUser},
              otpRequired: {"null", "on", "off"}, proof: [challengeId: 0..MaxCodes,
              challengeEmail: Emails \cup {NoEmail}, verificationToken: 0..MaxCodes,
              verifiedEmail: Emails \cup {NoEmail}, verifyOpen: BOOLEAN],
              codeBusy: BOOLEAN, submitBusy: BOOLEAN]

(* as: the cookie the request carries; user: the account the page believed *)
(* in; code: the challenge or token it names; right: the code typed.       *)
Call == [op: {"code", "verify", "apply"}, email: Emails, user: Users, as: Users \cup {NoUser},
         code: 0..MaxCodes, right: BOOLEAN,
         res: {"sent", "mailing", "ok", "refused", "unauthorized"}]

Room == Cardinality(calls) < MaxCalls
Request(op, code, right) ==
  [op |-> op, email |-> form.email, user |-> form.authUser, as |-> cookie,
   code |-> code, right |-> right, res |-> "sent"]

Application == [user: Users, email: Emails, proof: 0..MaxCodes]

ReviewerInit ==
  /\ CodesInit
  /\ form = [email |-> NoEmail, authUser |-> NoUser, otpRequired |-> "null",
             proof |-> NoProof, codeBusy |-> FALSE, submitBusy |-> FALSE]
  /\ cookie \in Users \cup {NoUser} /\ calls = {} /\ applications = <<>>

SignedIn == form.authUser # NoUser
ClearEmailProof(f) == [f EXCEPT !.proof = NoProof]

(* applyUser: the proof belongs to one account.                            *)
ApplyUser(f, u) ==
  [(IF f.authUser = u THEN f ELSE ClearEmailProof(f)) EXCEPT !.authUser = u]

SettingsLoaded == /\ form.otpRequired = "null"
                  /\ form' = [form EXCEPT !.otpRequired = IF RequireOtp THEN "on" ELSE "off"]
                  /\ UNCHANGED <<codes, cookie, calls, applications>>

(* The answer of /auth/me at the start, an authchange event later.         *)
UserLoaded == /\ form.authUser # cookie
              /\ form' = ApplyUser(form, cookie)
              /\ UNCHANGED <<codes, cookie, calls, applications>>

(* Sign-in or sign-out, here or in another tab.                            *)
CookieChanges(u) == /\ cookie' = u /\ cookie # u
                    /\ UNCHANGED <<codes, form, calls, applications>>

TypeEmail(e) == /\ form.email # e
                /\ form' = ClearEmailProof([form EXCEPT !.email = e])
                /\ UNCHANGED <<codes, cookie, calls, applications>>

SendCode ==
  /\ Room /\ ~form.codeBusy /\ form.otpRequired = "on" /\ SignedIn /\ form.email # NoEmail
  /\ form' = ClearEmailProof([form EXCEPT !.codeBusy = TRUE])
  /\ calls' = calls \cup {Request("code", 0, FALSE)}
  /\ UNCHANGED <<codes, cookie, applications>>

VerifyCode(right) ==
  /\ Room /\ form.proof.verifyOpen /\ SignedIn
  /\ form.proof.challengeId # 0 /\ form.proof.challengeEmail = form.email
  /\ form' = [form EXCEPT !.proof.verifyOpen = FALSE]
  /\ calls' = calls \cup {Request("verify", form.proof.challengeId, right)}
  /\ UNCHANGED <<codes, cookie, applications>>

(* An application that validates; its token is read with its answers.      *)
SubmitApplication ==
  /\ Room /\ ~form.submitBusy /\ form.otpRequired # "null" /\ SignedIn /\ form.email # NoEmail
  /\ form.otpRequired = "on" => form.proof.verificationToken # 0 /\ form.proof.verifiedEmail = form.email
  /\ form' = [form EXCEPT !.submitBusy = TRUE]
  /\ calls' = calls \cup {Request("apply", form.proof.verificationToken, FALSE)}
  /\ UNCHANGED <<codes, cookie, applications>>

(* A lost answer is an error without a status: refused, as the page sees it. *)
Answered(k, res) == calls' = (calls \ {k}) \cup {[k EXCEPT !.res = res]}

(* POST /reviewers/email-otp; its answer waits for the mail.               *)
IssueOtp(k) ==
  /\ k.op = "code" /\ k.res = "sent"
  /\ \/ k.as = NoUser /\ Answered(k, "unauthorized") /\ UNCHANGED codes
     \/ k.as # NoUser /\ Answered(k, "refused") /\ UNCHANGED codes
     \/ /\ k.as # NoUser /\ Len(codes) < MaxFormCodes
        /\ Issue(k.email, "reviewer_form", k.as)
        /\ calls' = (calls \ {k}) \cup {[k EXCEPT !.res = "mailing", !.code = Len(codes) + 1]}
  /\ UNCHANGED <<form, cookie, applications>>

OtpMailed(k) ==
  /\ k.op = "code" /\ k.res = "mailing"
  /\ \/ Supersede(k.code) /\ Answered(k, "ok")
     \/ MailFails(k.code) /\ Answered(k, "refused")
  /\ UNCHANGED <<form, cookie, applications>>

VerifyOtp(k) ==
  /\ k.op = "verify" /\ k.res = "sent"
  /\ \/ k.as = NoUser /\ Answered(k, "unauthorized") /\ UNCHANGED codes
     \/ /\ k.as # NoUser /\ ~Verifiable(k.code, k.email, "reviewer_form", k.as)
        /\ Answered(k, "refused") /\ UNCHANGED codes
     \/ /\ k.as # NoUser /\ Verifiable(k.code, k.email, "reviewer_form", k.as)
        /\ Verify(k.code, k.right) /\ Answered(k, IF k.right THEN "ok" ELSE "refused")
  /\ UNCHANGED <<form, cookie, applications>>

(* POST /reviewers: the account must be the one the form names, and its    *)
(* token is consumed in the same transaction.                              *)
CreateApplication(k) ==
  LET proven == ~RequireOtp \/ Consumable(k.code, k.email, "reviewer_form", k.as)
  IN /\ k.op = "apply" /\ k.res = "sent"
     /\ \/ k.as = NoUser /\ Answered(k, "unauthorized") /\ UNCHANGED <<codes, applications>>
        \/ /\ k.as # NoUser /\ ~(k.as = k.user /\ proven)
           /\ Answered(k, "refused") /\ UNCHANGED <<codes, applications>>
        \/ /\ k.as # NoUser /\ k.as = k.user /\ proven /\ Len(applications) < MaxApplications
           /\ IF RequireOtp THEN Consume(k.code) ELSE UNCHANGED codes
           /\ applications' = Append(applications, [user |-> k.as, email |-> k.email, proof |-> k.code])
           /\ Answered(k, "ok") \/ Answered(k, "refused")
     /\ UNCHANGED <<form, cookie>>

(* Slip: an answer is taken whatever the form shows by then. *)
TakenAnyway(k) == SignedIn

(* What the page asked for is what it still shows.                         *)
StillShown(k) == form.authUser = k.user /\ form.email = k.email

CodeAnswer(k) ==
  /\ k.op = "code" /\ k.res \in {"ok", "refused", "unauthorized"}
  /\ form' = [(IF k.res = "unauthorized" THEN ApplyUser(form, NoUser)
               ELSE IF k.res = "ok" /\ StillShown(k)
               THEN [form EXCEPT !.proof.challengeId = k.code, !.proof.challengeEmail = k.email,
                                 !.proof.verifyOpen = TRUE]
               ELSE form) EXCEPT !.codeBusy = FALSE]
  /\ calls' = calls \ {k}
  /\ UNCHANGED <<codes, cookie, applications>>

VerifyAnswer(k) ==
  /\ k.op = "verify" /\ k.res \in {"ok", "refused", "unauthorized"}
  /\ form' = IF k.res = "ok"
             THEN IF StillShown(k)
                  THEN [form EXCEPT !.proof.verificationToken = k.code, !.proof.verifiedEmail = k.email]
                  ELSE form
             ELSE IF k.res = "unauthorized" THEN ApplyUser(form, NoUser)
             ELSE [form EXCEPT !.proof.verifyOpen = SignedIn]
  /\ calls' = calls \ {k}
  /\ UNCHANGED <<codes, cookie, applications>>

(* form.reset() empties the email without an input event, so the proof is  *)
(* cleared by hand; with the account gone, githubEl.value throws before it.*)
ApplyAnswer(k) ==
  /\ k.op = "apply" /\ k.res \in {"ok", "refused", "unauthorized"}
  /\ form' = [(CASE k.res = "ok" /\ SignedIn -> ClearEmailProof([form EXCEPT !.email = NoEmail])
                 [] k.res = "ok" /\ ~SignedIn -> [form EXCEPT !.email = NoEmail]
                 [] k.res = "unauthorized" -> ApplyUser(form, NoUser)
                 [] k.res = "refused" -> form) EXCEPT !.submitBusy = FALSE]
  /\ calls' = calls \ {k}
  /\ UNCHANGED <<codes, cookie, applications>>

CodesExpire == CodesTick /\ UNCHANGED <<form, cookie, calls, applications>>

ReviewerNext ==
  \/ SettingsLoaded \/ SendCode \/ SubmitApplication \/ UserLoaded \/ CodesExpire
  \/ \E u \in Users \cup {NoUser} : CookieChanges(u)
  \/ \E e \in Emails : TypeEmail(e)
  \/ \E right \in BOOLEAN : VerifyCode(right)
  \/ \E k \in calls : \/ IssueOtp(k) \/ OtpMailed(k) \/ VerifyOtp(k) \/ CreateApplication(k)
                      \/ CodeAnswer(k) \/ VerifyAnswer(k) \/ ApplyAnswer(k)

ReviewerTypeOK ==
  /\ CodesTypeOK /\ form \in FormState /\ cookie \in Users \cup {NoUser}
  /\ calls \subseteq Call /\ applications \in Seq(Application)

(***************************************************************************)
(* An application on record was sent by the account that proved its email, *)
(* and a proof serves one application, however its answer was lost, retried *)
(* or raced by a change of account.                                        *)
(***************************************************************************)
ApplicationsAreProven ==
  RequireOtp =>
    \A i \in DOMAIN applications :
      LET a == applications[i] IN
      /\ a.proof \in Kept /\ codes[a.proof].verified /\ codes[a.proof].consumed
      /\ codes[a.proof].email = a.email /\ codes[a.proof].subject = a.user
      /\ \A j \in DOMAIN applications : applications[j].proof = a.proof => j = i

(***************************************************************************)
(* The form never holds a proof of another address than the one it shows   *)
(* or while nobody is signed in: an answer that comes after the email or   *)
(* the account changed is dropped.                                         *)
(***************************************************************************)
ProofIsForShownEmail ==
  form.proof.verificationToken # 0 =>
    /\ SignedIn /\ form.proof.verifiedEmail = form.email
    /\ codes[form.proof.verificationToken].email = form.email
=============================================================================
