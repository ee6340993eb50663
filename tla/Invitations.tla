------------------------------ MODULE Invitations ------------------------------
(***************************************************************************)
(* Invitations and API tokens: the credentials of core/temporary_auth.py,  *)
(* the account's email they are bound to (community/account_email.py), and *)
(* the dashboard's UsersPanel, which previews a batch of invitations, keys *)
(* it, and sends it again under the same key when no answer came.  A user  *)
(* who is inactive or rejected, and mail that is switched off, are a       *)
(* refusal that can always happen.                                         *)
(***************************************************************************)
EXTENDS Naturals, Sequences, FiniteSets, FiniteSetsExt

CONSTANTS Users, Emails, MaxCredentials, MaxPreviews  \* bounds: credentials issued, previews keyed

ASSUME InvitationAssumption == {MaxCredentials, MaxPreviews} \subseteq Nat

VARIABLES email,     \* user.email
          creds,     \* temporary_credentials of each user and kind, oldest first; batch: the
                     \* idempotency key they were sent under, 0 if none
          batches,   \* invitation mails queued: their key and users
          panel,     \* UsersPanel: inviteIds, inviteKey, and whether an answer is awaited
          keys,      \* keys drawn so far
          requests   \* sends on their way to the server

ivars == <<email, creds, batches, panel, keys, requests>>

Key == 0..MaxPreviews
Kinds == {"invite", "api"}
Credential == [email: Emails, batch: Key, state: {"open", "used", "revoked", "expired"}]
Request == [key: Key, users: SUBSET Users]

NoPreview == [users |-> {}, key |-> 0, busy |-> FALSE]

(* Registered users with different addresses.                              *)
InvitationInit ==
  /\ email \in [Users -> Emails] /\ \A u, v \in Users: email[u] = email[v] => u = v
  /\ creds = [u \in Users |-> [k \in Kinds |-> <<>>]]
  /\ batches = {} /\ panel = NoPreview /\ keys = 0 /\ requests = {}

(* Slip: what was issued before stays as it is. *)
RevokedNone(cs) == cs

(* issue_credential: a new credential replaces those that are still open.  *)
IsOpen(c) == c.state \in {"open", "expired"}
Revoked(cs) == [i \in DOMAIN cs |-> IF IsOpen(cs[i]) THEN [cs[i] EXCEPT !.state = "revoked"] ELSE cs[i]]
Reissued(u, kind, key) ==
  Append(Revoked(creds[u][kind]), [email |-> email[u], batch |-> key, state |-> "open"])
Issued == MapThenSumSet(LAMBDA u: Len(creds[u].invite) + Len(creds[u].api), Users)
Room(n) == Issued + n <= MaxCredentials

InvitationTypeOK ==
  /\ email \in [Users -> Emails] /\ creds \in [Users -> [Kinds -> Seq(Credential)]] /\ Issued <= MaxCredentials
  /\ batches \subseteq Request /\ requests \subseteq Request /\ keys \in Key
  /\ panel \in [users: SUBSET Users, key: Key, busy: BOOLEAN]

(* issue_invite, issue_invites_batch for one user, and issue_api_token.    *)
Issue(u, kind) ==
  /\ Room(1) /\ creds' = [creds EXCEPT ![u][kind] = Reissued(u, kind, 0)]
  /\ UNCHANGED <<email, batches, panel, keys, requests>>

(* revoke_api_tokens.                                                      *)
RevokeTokens(u) ==
  /\ creds' = [creds EXCEPT ![u].api = Revoked(@)]
  /\ UNCHANGED <<email, batches, panel, keys, requests>>

Expire(u, kind) ==
  /\ \E i \in DOMAIN creds[u][kind]:
       creds[u][kind][i].state = "open" /\ creds' = [creds EXCEPT ![u][kind][i].state = "expired"]
  /\ UNCHANGED <<email, batches, panel, keys, requests>>

(* Slip: the link is good for the user, whatever address it was mailed to. *)
RedeemableAnywhere(u, c) == c.state = "open"

(* redeem_invite: the link signs the user in, once.                        *)
Redeemable(u, c) == c.state = "open" /\ c.email = email[u]
Redeem(u) ==
  /\ \E i \in DOMAIN creds[u].invite:
       /\ Redeemable(u, creds[u].invite[i])
       /\ creds' = [creds EXCEPT ![u].invite[i].state = "used"]
  /\ UNCHANGED <<email, batches, panel, keys, requests>>

(* choose_email, with a verified address nobody else has.                  *)
ChangeEmail(u, e) ==
  /\ \A v \in Users: email[v] # e
  /\ email' = [email EXCEPT ![u] = e] /\ UNCHANGED <<creds, batches, panel, keys, requests>>

-----------------------------------------------------------------------------
(* previewInvites: every preview draws a key; cancelling forgets it.       *)
PreviewInvites(us) ==
  /\ ~panel.busy /\ panel.users = {} /\ us # {} /\ keys < MaxPreviews
  /\ keys' = keys + 1 /\ panel' = [users |-> us, key |-> keys + 1, busy |-> FALSE]
  /\ UNCHANGED <<email, creds, batches, requests>>

CancelInvites == /\ ~panel.busy /\ panel.users # {} /\ panel' = NoPreview
                 /\ UNCHANGED <<email, creds, batches, keys, requests>>

(* sendInvites, again and again until an answer comes.                     *)
SendInvites == /\ ~panel.busy /\ panel.users # {}
               /\ panel' = [panel EXCEPT !.busy = TRUE]
               /\ requests' = requests \cup {[key |-> panel.key, users |-> panel.users]}
               /\ UNCHANGED <<email, creds, batches, keys>>

Waiting(r) == panel.busy /\ panel.key = r.key

(* Slip: a batch counts as sent only while its invitations are still open. *)
SentAndOpen(r) == \E b \in batches: b.key = r.key /\ \A u \in r.users:
                    \E i \in DOMAIN creds[u].invite: creds[u].invite[i].state = "open"

(* send_invites at the server; its answer may be lost.                     *)
AlreadySent(r) == \E b \in batches: b.key = r.key
HandleSend(r) ==
  /\ requests' = requests \ {r}
  /\ IF AlreadySent(r) THEN UNCHANGED <<creds, batches>>
     ELSE /\ Room(Cardinality(r.users))
          /\ creds' = [u \in Users |-> IF u \in r.users
                                       THEN [creds[u] EXCEPT !.invite = Reissued(u, "invite", r.key)]
                                       ELSE creds[u]]
          /\ batches' = batches \cup {r}
  /\ panel' \in IF Waiting(r) THEN {panel, NoPreview} ELSE {panel}
  /\ UNCHANGED <<email, keys>>

RefuseSend(r) == /\ requests' = requests \ {r}
                 /\ panel' = IF Waiting(r) THEN [panel EXCEPT !.busy = FALSE] ELSE panel
                 /\ UNCHANGED <<email, creds, batches, keys>>

(* The connection breaks: the request may still be on its way.             *)
AnswerLost == /\ panel.busy /\ panel' = [panel EXCEPT !.busy = FALSE]
              /\ UNCHANGED <<email, creds, batches, keys, requests>>

InvitationNext ==
  \/ \E u \in Users, k \in Kinds: Issue(u, k) \/ Expire(u, k)
  \/ \E u \in Users: RevokeTokens(u) \/ Redeem(u)
  \/ \E u \in Users, e \in Emails: ChangeEmail(u, e)
  \/ \E us \in SUBSET Users: PreviewInvites(us)
  \/ CancelInvites \/ SendInvites \/ AnswerLost
  \/ \E r \in requests: HandleSend(r) \/ RefuseSend(r)

InvitationSpec == InvitationInit /\ [][InvitationNext]_ivars

-----------------------------------------------------------------------------
(* Whatever is issued, lost, sent again or expired, a user never has two    *)
(* credentials of a kind that could be used: the last one issued is the     *)
(* only one (issue_credential).                                             *)
OnlyNewestIsOpen ==
  \A u \in Users, k \in Kinds: \A i \in DOMAIN creds[u][k]:
    creds[u][k][i].state = "open" => i = Len(creds[u][k])

GoodToSpend(u, i) == /\ i = Len(creds[u].invite) /\ creds[u].invite[i].state = "open"
                     /\ creds[u].invite[i].email = email[u]
SpentFresh == \A u \in Users: \A i \in DOMAIN creds[u].invite:
                creds'[u].invite[i].state = "used" => creds[u].invite[i].state = "used" \/ GoodToSpend(u, i)

(* An invitation signs somebody in only if it is the last one issued to the *)
(* user and was mailed to the address the account has now, and never twice  *)
(* (redeem_invite).                                                         *)
InvitesAreSpentFresh == [][SpentFresh]_ivars

(* A previewed batch that is sent again because its answer was lost issues  *)
(* no second invitation: the link in the mail already queued keeps working  *)
(* (send_invites and its Idempotency-Key).                                  *)
BatchIsIssuedOnce ==
  \A u \in Users: \A i, j \in DOMAIN creds[u].invite:
    creds[u].invite[i].batch = creds[u].invite[j].batch /\ creds[u].invite[i].batch # 0 => i = j
================================================================================
