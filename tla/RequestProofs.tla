---------------------------- MODULE RequestProofs ----------------------------
(***************************************************************************)
(* The dashboard's requests, for any number of users, credentials, mails,  *)
(* tasks and machines.  Only the newest credential of a kind is ever open, *)
(* and an invitation is spent once, when it is the newest and for the      *)
(* address the account has; a run fits its task; and a batch of            *)
(* invitations, a mail or a launch that is sent again acts once.           *)
(***************************************************************************)
EXTENDS MCDashboard, PanelProofs, FiniteSetTheorems, TLAPS

States == {"open", "used", "revoked", "expired"}
Cred == [email: Emails, batch: Nat, state: States]

(* The credentials of one user and kind: all but the last are closed.      *)
OnlyLastOpen(cs) == \A i \in 1..Len(cs) : cs[i].state = "open" => i = Len(cs)

InvShape ==
  /\ email \in [Users -> Emails] /\ creds \in [Users -> [Kinds -> Seq(Cred)]]
  /\ panel.key \in Nat /\ keys \in Nat /\ \A r \in requests : r.key \in Nat

InvitationInv == InvShape /\ \A u \in Users, k \in Kinds : OnlyLastOpen(creds[u][k])

LEMMA InvitationImplies == InvitationInv => OnlyNewestIsOpen
  <1>. SUFFICES ASSUME InvitationInv, NEW u \in Users, NEW k \in Kinds, NEW i \in DOMAIN creds[u][k],
                       creds[u][k][i].state = "open"
                PROVE  i = Len(creds[u][k])
    BY DEF OnlyNewestIsOpen
  <1>1. creds[u][k] \in Seq(Cred) /\ OnlyLastOpen(creds[u][k])
    BY DEF InvitationInv, InvShape
  <1>. QED BY <1>1 DEF OnlyLastOpen

LEMMA InvitationStart == InvitationInit => InvitationInv
  BY DEF InvitationInit, InvitationInv, InvShape, NoPreview, OnlyLastOpen

-----------------------------------------------------------------------------
(* issue_credential closes what is open and appends the new credential.    *)
LEMMA RevokedCloses ==
  ASSUME NEW cs \in Seq(Cred)
  PROVE  /\ Revoked(cs) \in Seq(Cred) /\ Len(Revoked(cs)) = Len(cs)
         /\ \A i \in 1..Len(cs) : /\ Revoked(cs)[i].state # "open"
                                  /\ Revoked(cs)[i].state = "used" => cs[i].state = "used"
  <1>. DEFINE f(i) == IF IsOpen(cs[i]) THEN [cs[i] EXCEPT !.state = "revoked"] ELSE cs[i]
  <1>1. \A i \in 1..Len(cs) : /\ f(i) \in Cred /\ f(i).state # "open"
                              /\ f(i).state = "used" => cs[i].state = "used"
    <2>. SUFFICES ASSUME NEW i \in 1..Len(cs)
                  PROVE  f(i) \in Cred /\ f(i).state # "open" /\ (f(i).state = "used" => cs[i].state = "used")
      OBVIOUS
    <2>1. cs[i] \in Cred
      OBVIOUS
    <2>. QED BY <2>1 DEF IsOpen, Cred, States
  <1>2. Revoked(cs) = [i \in 1..Len(cs) |-> f(i)]
    BY DEF Revoked
  <1>. HIDE DEF f
  <1>. QED BY <1>1, <1>2

LEMMA ReissuedIsOnly ==
  ASSUME InvitationInv, NEW u \in Users, NEW k \in Kinds, NEW key \in Nat
  PROVE  /\ Reissued(u, k, key) \in Seq(Cred) /\ OnlyLastOpen(Reissued(u, k, key))
         /\ \A i \in 1..Len(creds[u][k]) :
              Reissued(u, k, key)[i].state = "used" => creds[u][k][i].state = "used"
  <1>. DEFINE cs == creds[u][k]
              new == [email |-> email[u], batch |-> key, state |-> "open"]
  <1>1. cs \in Seq(Cred) /\ new \in Cred
    BY DEF InvitationInv, InvShape, Cred, States
  <1>2. Reissued(u, k, key) = Append(Revoked(cs), new)
    BY DEF Reissued
  <1>3. /\ Revoked(cs) \in Seq(Cred) /\ Len(Revoked(cs)) = Len(cs)
        /\ \A i \in 1..Len(cs) : /\ Revoked(cs)[i].state # "open"
                                 /\ Revoked(cs)[i].state = "used" => cs[i].state = "used"
    BY <1>1, RevokedCloses
  <1>. HIDE DEF new
  <1>. QED BY <1>1, <1>2, <1>3 DEF OnlyLastOpen

-----------------------------------------------------------------------------
(* One user's credentials of one kind change, the newest alone stays open. *)
LEMMA OneChanged ==
  ASSUME InvitationInv, NEW u \in Users, NEW k \in Kinds, NEW cs \in Seq(Cred), OnlyLastOpen(cs),
         creds' = [creds EXCEPT ![u][k] = cs], UNCHANGED <<email, panel, keys, requests>>
  PROVE  InvitationInv'
  <1>1. creds \in [Users -> [Kinds -> Seq(Cred)]]
    BY DEF InvitationInv, InvShape
  <1>2. creds' \in [Users -> [Kinds -> Seq(Cred)]]
    BY <1>1
  <1>3. \A v \in Users, j \in Kinds : creds'[v][j] = IF v = u /\ j = k THEN cs ELSE creds[v][j]
    BY <1>1
  <1>4. \A v \in Users, j \in Kinds : OnlyLastOpen(creds'[v][j])
    BY <1>3 DEF InvitationInv
  <1>. QED BY <1>2, <1>4 DEF InvitationInv, InvShape

(* A credential that is closed leaves the last one alone.                  *)
LEMMA ClosedOne ==
  ASSUME NEW cs \in Seq(Cred), OnlyLastOpen(cs), NEW i \in 1..Len(cs), NEW st \in {"used", "expired"}
  PROVE  LET ds == [cs EXCEPT ![i].state = st] IN ds \in Seq(Cred) /\ OnlyLastOpen(ds) /\ Len(ds) = Len(cs)
  <1>. DEFINE row == [cs[i] EXCEPT !.state = st]
              ds == [cs EXCEPT ![i] = row]
  <1>1. cs[i] \in Cred
    OBVIOUS
  <1>2. row \in Cred /\ row.state # "open"
    BY <1>1 DEF Cred, States
  <1>3. ds = [cs EXCEPT ![i].state = st]
    OBVIOUS
  <1>. HIDE DEF row
  <1>4. ds \in Seq(Cred) /\ Len(ds) = Len(cs) /\ \A j \in 1..Len(cs) : ds[j] = IF j = i THEN row ELSE cs[j]
    BY <1>2
  <1>. HIDE DEF ds
  <1>5. OnlyLastOpen(ds)
    BY <1>2, <1>4 DEF OnlyLastOpen
  <1>. QED BY <1>3, <1>4, <1>5

LEMMA CredsOf ==
  ASSUME InvitationInv, NEW u \in Users, NEW k \in Kinds
  PROVE  /\ creds[u][k] \in Seq(Cred) /\ OnlyLastOpen(creds[u][k])
         /\ creds \in [Users -> [Kinds -> Seq(Cred)]]
  BY DEF InvitationInv, InvShape

LEMMA IssueKeeps ==
  ASSUME NEW u \in Users, NEW k \in Kinds PROVE InvitationInv /\ Issue(u, k) => InvitationInv'
  <1>. SUFFICES ASSUME InvitationInv, Issue(u, k) PROVE InvitationInv'
    OBVIOUS
  <1>. DEFINE cs == Reissued(u, k, 0)
  <1>1. cs \in Seq(Cred) /\ OnlyLastOpen(cs)
    BY ReissuedIsOnly, 0 \in Nat
  <1>2. creds' = [creds EXCEPT ![u][k] = cs] /\ UNCHANGED <<email, panel, keys, requests>>
    BY DEF Issue
  <1>. HIDE DEF cs
  <1>. QED BY <1>1, <1>2, OneChanged

LEMMA RevokeKeeps ==
  ASSUME NEW u \in Users PROVE InvitationInv /\ RevokeTokens(u) => InvitationInv'
  <1>. SUFFICES ASSUME InvitationInv, RevokeTokens(u) PROVE InvitationInv'
    OBVIOUS
  <1>1. "api" \in Kinds /\ creds[u].api = creds[u]["api"]
    BY DEF Kinds
  <1>2. Revoked(creds[u].api) \in Seq(Cred) /\ OnlyLastOpen(Revoked(creds[u].api))
    BY <1>1, CredsOf, RevokedCloses DEF OnlyLastOpen
  <1>3. creds' = [creds EXCEPT ![u]["api"] = Revoked(creds[u].api)]
    BY <1>1, CredsOf DEF RevokeTokens
  <1>. QED BY <1>1, <1>2, <1>3, OneChanged DEF RevokeTokens

LEMMA ExpireKeeps ==
  ASSUME NEW u \in Users, NEW k \in Kinds PROVE InvitationInv /\ Expire(u, k) => InvitationInv'
  <1>. SUFFICES ASSUME InvitationInv, Expire(u, k) PROVE InvitationInv'
    OBVIOUS
  <1>1. creds[u][k] \in Seq(Cred) /\ OnlyLastOpen(creds[u][k]) /\ creds \in [Users -> [Kinds -> Seq(Cred)]]
    BY CredsOf
  <1>2. PICK i \in DOMAIN creds[u][k] : creds' = [creds EXCEPT ![u][k][i].state = "expired"]
    BY DEF Expire
  <1>5. i \in 1..Len(creds[u][k]) /\ UNCHANGED <<email, panel, keys, requests>>
    BY <1>1 DEF Expire
  <1>. DEFINE cs == [creds[u][k] EXCEPT ![i].state = "expired"]
  <1>3. cs \in Seq(Cred) /\ OnlyLastOpen(cs)
    BY <1>1, <1>5, ClosedOne
  <1>4. creds' = [creds EXCEPT ![u][k] = cs]
    BY <1>1, <1>2
  <1>. HIDE DEF cs
  <1>. QED BY <1>3, <1>4, <1>5, OneChanged

LEMMA RedeemKeeps ==
  ASSUME NEW u \in Users PROVE InvitationInv /\ Redeem(u) => InvitationInv'
  <1>. SUFFICES ASSUME InvitationInv, Redeem(u) PROVE InvitationInv'
    OBVIOUS
  <1>1. "invite" \in Kinds
    BY DEF Kinds
  <1>2. creds[u]["invite"] \in Seq(Cred) /\ OnlyLastOpen(creds[u]["invite"])
        /\ creds \in [Users -> [Kinds -> Seq(Cred)]]
    BY <1>1, CredsOf
  <1>3. PICK i \in DOMAIN creds[u].invite : creds' = [creds EXCEPT ![u].invite[i].state = "used"]
    BY DEF Redeem
  <1>6. creds[u].invite = creds[u]["invite"] /\ i \in 1..Len(creds[u]["invite"])
        /\ UNCHANGED <<email, panel, keys, requests>>
    BY <1>2 DEF Redeem
  <1>. DEFINE cs == [creds[u]["invite"] EXCEPT ![i].state = "used"]
  <1>4. cs \in Seq(Cred) /\ OnlyLastOpen(cs)
    BY <1>2, <1>6, ClosedOne
  <1>5. creds' = [creds EXCEPT ![u]["invite"] = cs]
    BY <1>1, <1>2, <1>3, <1>6
  <1>. HIDE DEF cs
  <1>. QED BY <1>1, <1>4, <1>5, <1>6, OneChanged

(* send_invites issues one invitation to every user of the batch.          *)
LEMMA SendKeeps ==
  ASSUME NEW r \in requests PROVE InvitationInv /\ (HandleSend(r) \/ RefuseSend(r)) => InvitationInv'
  <1>. SUFFICES ASSUME InvitationInv, HandleSend(r) \/ RefuseSend(r) PROVE InvitationInv'
    OBVIOUS
  <1>1. email' = email /\ keys' = keys /\ requests' = requests \ {r} /\ r.key \in Nat
    BY DEF HandleSend, RefuseSend, InvitationInv, InvShape
  <1>2. panel'.key \in Nat
    <2>1. panel' \in {panel, NoPreview} \/ panel' = [panel EXCEPT !.busy = FALSE]
      BY DEF HandleSend, RefuseSend
    <2>2. [panel EXCEPT !.busy = FALSE].key = panel.key /\ NoPreview.key = 0 /\ panel.key \in Nat
      BY DEF InvitationInv, InvShape, NoPreview
    <2>3. CASE panel' = panel
      BY <2>3, <2>2
    <2>4. CASE panel' = NoPreview
      BY <2>4, <2>2
    <2>5. CASE panel' = [panel EXCEPT !.busy = FALSE]
      BY <2>5, <2>2
    <2>. QED BY <2>1, <2>3, <2>4, <2>5
  <1>3. creds \in [Users -> [Kinds -> Seq(Cred)]] /\ "invite" \in Kinds
    BY DEF InvitationInv, InvShape, Kinds
  <1>4. creds' \in [Users -> [Kinds -> Seq(Cred)]]
        /\ \A u \in Users, k \in Kinds : OnlyLastOpen(creds'[u][k])
    <2>1. CASE creds' = creds
      BY <2>1, <1>3 DEF InvitationInv
    <2>2. CASE creds' = [u \in Users |-> IF u \in r.users
                                          THEN [creds[u] EXCEPT !.invite = Reissued(u, "invite", r.key)]
                                          ELSE creds[u]]
      <3>1. \A u \in Users : /\ Reissued(u, "invite", r.key) \in Seq(Cred)
                             /\ OnlyLastOpen(Reissued(u, "invite", r.key))
        BY <1>1, <1>3, ReissuedIsOnly
      <3>2. \A u \in Users : creds'[u] \in [Kinds -> Seq(Cred)]
        BY <2>2, <3>1, <1>3
      <3>3. \A u \in Users, k \in Kinds : OnlyLastOpen(creds'[u][k])
        BY <2>2, <3>1, <1>3 DEF InvitationInv
      <3>. QED BY <2>2, <3>2, <3>3
    <2>. QED BY <2>1, <2>2 DEF HandleSend, RefuseSend
  <1>. QED BY <1>1, <1>2, <1>3, <1>4 DEF InvitationInv, InvShape

(* The panel and the mailboxes do not touch credentials.                   *)
LEMMA PanelKeeps ==
  ASSUME InvitationInv, creds' = creds, email' \in [Users -> Emails],
         panel'.key \in Nat, keys' \in Nat, \A r \in requests' : r.key \in Nat
  PROVE  InvitationInv'
  BY DEF InvitationInv, InvShape

LEMMA InvitationStep == InvitationInv /\ [InvitationNext]_ivars => InvitationInv'
  <1>. SUFFICES ASSUME InvitationInv, [InvitationNext]_ivars PROVE InvitationInv'
    OBVIOUS
  <1>1. /\ email \in [Users -> Emails] /\ panel.key \in Nat /\ keys \in Nat
        /\ \A r \in requests : r.key \in Nat
    BY DEF InvitationInv, InvShape
  <1>2. CASE \E u \in Users, k \in Kinds : Issue(u, k) \/ Expire(u, k)
    BY <1>2, IssueKeeps, ExpireKeeps
  <1>3. CASE \E u \in Users : RevokeTokens(u) \/ Redeem(u)
    BY <1>3, RevokeKeeps, RedeemKeeps
  <1>4. CASE \E u \in Users, e \in Emails : ChangeEmail(u, e)
    BY <1>4, <1>1, PanelKeeps DEF ChangeEmail
  <1>5. CASE \E us \in SUBSET Users : PreviewInvites(us)
    BY <1>5, <1>1, PanelKeeps DEF PreviewInvites
  <1>6. CASE CancelInvites
    BY <1>6, <1>1, PanelKeeps DEF CancelInvites, NoPreview
  <1>7. CASE SendInvites
    <2>1. panel'.key \in Nat /\ \A r \in requests' : r.key \in Nat
      BY <1>7, <1>1 DEF SendInvites
    <2>. QED BY <2>1, <1>7, <1>1, PanelKeeps DEF SendInvites
  <1>8. CASE AnswerLost
    <2>1. panel'.key \in Nat
      BY <1>8, <1>1 DEF AnswerLost
    <2>. QED BY <2>1, <1>8, <1>1, PanelKeeps DEF AnswerLost
  <1>9. CASE \E r \in requests : HandleSend(r) \/ RefuseSend(r)
    BY <1>9, SendKeeps
  <1>10. CASE UNCHANGED ivars
    BY <1>10, <1>1, PanelKeeps DEF ivars
  <1>. QED BY <1>2, <1>3, <1>4, <1>5, <1>6, <1>7, <1>8, <1>9, <1>10 DEF InvitationNext

-----------------------------------------------------------------------------
(* In every behaviour, with any number of users, previews and lost answers, *)
(* only the newest credential of a kind is open (issue_credential).        *)
THEOREM NewestAloneIsOpen == InvitationSpec => []OnlyNewestIsOpen
  <1>. QED BY InvitationStart, InvitationStep, InvitationImplies, PTL DEF InvitationSpec

-----------------------------------------------------------------------------
(* One user's credentials change, and of the invitations only one that may *)
(* be spent becomes used.                                                  *)
LEMMA OneSpent ==
  ASSUME InvitationInv, NEW u \in Users, NEW k \in Kinds, NEW cs,
         creds' = [creds EXCEPT ![u][k] = cs],
         k = "invite" => \A i \in 1..Len(creds[u].invite) :
                           cs[i].state = "used" => creds[u].invite[i].state = "used" \/ GoodToSpend(u, i)
  PROVE  SpentFresh
  <1>. SUFFICES ASSUME NEW v \in Users, NEW i \in DOMAIN creds[v].invite, creds'[v].invite[i].state = "used"
                PROVE  creds[v].invite[i].state = "used" \/ GoodToSpend(v, i)
    BY DEF SpentFresh
  <1>1. creds \in [Users -> [Kinds -> Seq(Cred)]] /\ "invite" \in Kinds
    BY DEF InvitationInv, InvShape, Kinds
  <1>2. i \in 1..Len(creds[v].invite)
    BY <1>1
  <1>3. CASE v = u /\ k = "invite"
    <2>1. creds'[v].invite = cs
      BY <1>1, <1>3
    <2>. QED BY <2>1, <1>2, <1>3
  <1>4. CASE ~(v = u /\ k = "invite")
    <2>1. creds'[v].invite = creds[v].invite
      BY <1>1, <1>4
    <2>. QED BY <2>1
  <1>. QED BY <1>3, <1>4

LEMMA IssueSpends ==
  ASSUME InvitationInv, NEW u \in Users, NEW k \in Kinds, Issue(u, k) PROVE SpentFresh
  <1>. DEFINE cs == Reissued(u, k, 0)
  <1>1. \A i \in 1..Len(creds[u][k]) : cs[i].state = "used" => creds[u][k][i].state = "used"
    BY ReissuedIsOnly, 0 \in Nat
  <1>2. creds' = [creds EXCEPT ![u][k] = cs]
    BY DEF Issue
  <1>. HIDE DEF cs
  <1>3. k = "invite" => creds[u][k] = creds[u].invite
    OBVIOUS
  <1>. QED BY <1>1, <1>2, <1>3, OneSpent

LEMMA ExpireSpends ==
  ASSUME InvitationInv, NEW u \in Users, NEW k \in Kinds, Expire(u, k) PROVE SpentFresh
  <1>1. creds[u][k] \in Seq(Cred) /\ creds \in [Users -> [Kinds -> Seq(Cred)]]
    BY CredsOf
  <1>2. PICK i \in DOMAIN creds[u][k] : creds' = [creds EXCEPT ![u][k][i].state = "expired"]
    BY DEF Expire
  <1>. DEFINE cs == [creds[u][k] EXCEPT ![i].state = "expired"]
  <1>3. creds' = [creds EXCEPT ![u][k] = cs]
    BY <1>1, <1>2
  <1>4. \A j \in 1..Len(creds[u][k]) : cs[j].state = "used" => creds[u][k][j].state = "used"
    <2>1. creds[u][k][i] \in Cred
      BY <1>1
    <2>2. cs[i].state = "expired"
      BY <1>1, <2>1 DEF Cred
    <2>3. \A j \in 1..Len(creds[u][k]) : j # i => cs[j] = creds[u][k][j]
      BY <1>1
    <2>. QED BY <2>2, <2>3
  <1>. HIDE DEF cs
  <1>5. k = "invite" => creds[u][k] = creds[u].invite
    OBVIOUS
  <1>. QED BY <1>3, <1>4, <1>5, OneSpent

LEMMA RedeemSpends ==
  ASSUME InvitationInv, NEW u \in Users, Redeem(u) PROVE SpentFresh
  <1>1. "invite" \in Kinds /\ creds[u].invite = creds[u]["invite"]
    BY DEF Kinds
  <1>2. /\ creds[u].invite \in Seq(Cred) /\ OnlyLastOpen(creds[u].invite)
        /\ creds \in [Users -> [Kinds -> Seq(Cred)]]
    BY <1>1, CredsOf
  <1>3. PICK i \in DOMAIN creds[u].invite :
          Redeemable(u, creds[u].invite[i]) /\ creds' = [creds EXCEPT ![u].invite[i].state = "used"]
    BY DEF Redeem
  <1>4. GoodToSpend(u, i)
    <2>1. i \in 1..Len(creds[u].invite)
      BY <1>2
    <2>2. creds[u].invite[i].state = "open" /\ creds[u].invite[i].email = email[u]
      BY <1>3 DEF Redeemable
    <2>3. i = Len(creds[u].invite)
      BY <1>2, <2>1, <2>2 DEF OnlyLastOpen
    <2>. QED BY <2>2, <2>3 DEF GoodToSpend
  <1>. DEFINE cs == [creds[u].invite EXCEPT ![i].state = "used"]
  <1>5. creds' = [creds EXCEPT ![u]["invite"] = cs]
    BY <1>1, <1>2, <1>3
  <1>6. \A j \in 1..Len(creds[u].invite) : j # i => cs[j] = creds[u].invite[j]
    BY <1>2
  <1>. HIDE DEF cs
  <1>. QED BY <1>1, <1>4, <1>5, <1>6, OneSpent

LEMMA SendSpends ==
  ASSUME InvitationInv, NEW r \in requests, HandleSend(r) PROVE SpentFresh
  <1>1. creds \in [Users -> [Kinds -> Seq(Cred)]] /\ "invite" \in Kinds /\ r.key \in Nat
    BY DEF InvitationInv, InvShape, Kinds
  <1>2. CASE creds' = creds
    BY <1>2 DEF SpentFresh
  <1>3. CASE creds' = [u \in Users |-> IF u \in r.users
                                        THEN [creds[u] EXCEPT !.invite = Reissued(u, "invite", r.key)]
                                        ELSE creds[u]]
    <2>. SUFFICES ASSUME NEW u \in Users, NEW i \in DOMAIN creds[u].invite,
                         creds'[u].invite[i].state = "used"
                  PROVE  creds[u].invite[i].state = "used"
      BY DEF SpentFresh
    <2>1. i \in 1..Len(creds[u]["invite"]) /\ creds[u].invite = creds[u]["invite"]
      BY <1>1
    <2>2. CASE u \in r.users
      <3>1. creds'[u].invite = Reissued(u, "invite", r.key)
        BY <1>1, <1>3, <2>2
      <3>. QED BY <3>1, <2>1, <1>1, ReissuedIsOnly
    <2>3. CASE u \notin r.users
      BY <1>3, <2>3
    <2>. QED BY <2>2, <2>3
  <1>. QED BY <1>2, <1>3 DEF HandleSend

LEMMA SpentStep == InvitationInv /\ InvitationNext => SpentFresh
  <1>. SUFFICES ASSUME InvitationInv, InvitationNext PROVE SpentFresh
    OBVIOUS
  <1>1. creds' = creds => SpentFresh
    BY DEF SpentFresh
  <1>2. CASE \E u \in Users, k \in Kinds : Issue(u, k) \/ Expire(u, k)
    BY <1>2, IssueSpends, ExpireSpends
  <1>3. ASSUME NEW u \in Users, RevokeTokens(u) PROVE SpentFresh
    <2>1. "api" \in Kinds /\ "api" # "invite"
      BY DEF Kinds
    <2>2. creds' = [creds EXCEPT ![u]["api"] = Revoked(creds[u].api)]
      BY <2>1, <1>3, CredsOf DEF RevokeTokens
    <2>. QED BY <2>1, <2>2, OneSpent
  <1>4. CASE \E u \in Users : Redeem(u)
    BY <1>4, RedeemSpends
  <1>5. CASE \E r \in requests : HandleSend(r)
    BY <1>5, SendSpends
  <1>6. CASE \/ \E u \in Users, e \in Emails : ChangeEmail(u, e)
             \/ \E us \in SUBSET Users : PreviewInvites(us)
             \/ CancelInvites \/ SendInvites \/ AnswerLost
             \/ \E r \in requests : RefuseSend(r)
    BY <1>6, <1>1 DEF ChangeEmail, PreviewInvites, CancelInvites, SendInvites, AnswerLost, RefuseSend
  <1>. QED BY <1>2, <1>3, <1>4, <1>5, <1>6 DEF InvitationNext

(* In every behaviour an invitation is spent once, while it is the newest   *)
(* of its user and bears the address the account has (redeem_invite).      *)
THEOREM InvitesSpentOnce == InvitationSpec => InvitesAreSpentFresh
  <1>1. InvitationInv /\ [InvitationNext]_ivars => [SpentFresh]_ivars
    BY SpentStep
  <1>. QED BY <1>1, InvitationStart, InvitationStep, PTL DEF InvitationSpec, InvitesAreSpentFresh

-----------------------------------------------------------------------------
(* The keys in a user's invitations are keys of queued batches, and none    *)
(* is there twice.                                                          *)
KeysOnce(cs, bs) ==
  /\ \A i \in 1..Len(cs) : cs[i].batch # 0 => \E b \in bs : b.key = cs[i].batch
  /\ \A i, j \in 1..Len(cs) : cs[i].batch = cs[j].batch /\ cs[i].batch # 0 => i = j

BatchInv == InvitationInv /\ \A u \in Users : KeysOnce(creds[u]["invite"], batches)

LEMMA RevokedKeepsKeys ==
  ASSUME NEW cs \in Seq(Cred) PROVE \A i \in 1..Len(cs) : Revoked(cs)[i].batch = cs[i].batch
  <1>. SUFFICES ASSUME NEW i \in 1..Len(cs) PROVE Revoked(cs)[i].batch = cs[i].batch
    OBVIOUS
  <1>1. cs[i] \in Cred
    OBVIOUS
  <1>2. Revoked(cs)[i] = IF IsOpen(cs[i]) THEN [cs[i] EXCEPT !.state = "revoked"] ELSE cs[i]
    BY DEF Revoked
  <1>3. [cs[i] EXCEPT !.state = "revoked"].batch = cs[i].batch
    BY <1>1 DEF Cred
  <1>. QED BY <1>2, <1>3

(* Only a key that has no batch yet, or none at all, is given out.          *)
LEMMA ReissuedKeepsKeys ==
  ASSUME InvitationInv, NEW u \in Users, NEW bs, NEW ds, NEW key \in Nat,
         KeysOnce(creds[u]["invite"], bs), bs \subseteq ds,
         key # 0 => (\A b \in bs : b.key # key) /\ \E b \in ds : b.key = key
  PROVE  KeysOnce(Reissued(u, "invite", key), ds)
  <1>. DEFINE cs == creds[u]["invite"]
              new == [email |-> email[u], batch |-> key, state |-> "open"]
              all == Append(Revoked(cs), new)
  <1>1. cs \in Seq(Cred) /\ new \in Cred /\ new.batch = key /\ "invite" \in Kinds
    BY DEF InvitationInv, InvShape, Cred, States, Kinds
  <1>2. /\ Revoked(cs) \in Seq(Cred) /\ Len(Revoked(cs)) = Len(cs)
        /\ \A i \in 1..Len(cs) : Revoked(cs)[i].batch = cs[i].batch
    BY <1>1, RevokedCloses, RevokedKeepsKeys
  <1>3. Reissued(u, "invite", key) = all
    BY DEF Reissued
  <1>. HIDE DEF new
  <1>4. Len(all) = Len(cs) + 1 /\ all[Len(cs) + 1].batch = key
        /\ \A i \in 1..Len(cs) : all[i].batch = cs[i].batch
    BY <1>1, <1>2
  <1>5. Len(cs) \in Nat /\ \A i \in 1..Len(cs) : cs[i].batch # 0 => cs[i].batch # key \/ key = 0
    BY <1>1 DEF KeysOnce
  <1>. HIDE DEF cs, all
  <1>6. KeysOnce(cs, bs) /\ \A i \in 1..(Len(cs) + 1) : i \in 1..Len(cs) \/ i = Len(cs) + 1
    BY <1>5 DEF cs
  <1>7. ASSUME NEW i \in 1..Len(all), all[i].batch # 0 PROVE \E b \in ds : b.key = all[i].batch
    <2>1. CASE i \in 1..Len(cs)
      BY <1>4, <1>6, <1>7, <2>1 DEF KeysOnce
    <2>2. CASE i = Len(cs) + 1
      BY <1>4, <1>7, <2>2
    <2>. QED BY <1>4, <1>6, <2>1, <2>2
  <1>8. ASSUME NEW i \in 1..Len(all), NEW j \in 1..Len(all), all[i].batch = all[j].batch, all[i].batch # 0
        PROVE  i = j
    <2>1. CASE i \in 1..Len(cs) /\ j \in 1..Len(cs)
      BY <1>4, <1>6, <1>8, <2>1 DEF KeysOnce
    <2>2. CASE i = Len(cs) + 1 \/ j = Len(cs) + 1
      BY <1>4, <1>5, <1>6, <1>8, <2>2
    <2>. QED BY <1>4, <1>6, <2>1, <2>2
  <1>. QED BY <1>3, <1>7, <1>8 DEF KeysOnce

LEMMA OneInvited ==
  ASSUME BatchInv, InvitationInv', NEW u \in Users, NEW k \in Kinds, NEW cs, batches' = batches,
         creds' = [creds EXCEPT ![u][k] = cs], k = "invite" => KeysOnce(cs, batches)
  PROVE  BatchInv'
  <1>1. creds \in [Users -> [Kinds -> Seq(Cred)]]
    BY DEF BatchInv, InvitationInv, InvShape
  <1>2. \A v \in Users : creds'[v]["invite"] = IF v = u /\ k = "invite" THEN cs ELSE creds[v]["invite"]
    BY <1>1
  <1>3. \A v \in Users : KeysOnce(creds'[v]["invite"], batches)
    BY <1>2 DEF BatchInv
  <1>. QED BY <1>3 DEF BatchInv

(* A credential that is spent or expires keeps its key.                     *)
LEMMA ClosedKeepsKeys ==
  ASSUME NEW cs \in Seq(Cred), NEW i \in 1..Len(cs), NEW st, NEW bs, KeysOnce(cs, bs)
  PROVE  KeysOnce([cs EXCEPT ![i].state = st], bs)
  <1>. DEFINE row == [cs[i] EXCEPT !.state = st]
              ds == [cs EXCEPT ![i].state = st]
  <1>1. cs[i] \in Cred
    OBVIOUS
  <1>2. row.batch = cs[i].batch
    BY <1>1 DEF Cred
  <1>3. DOMAIN ds = DOMAIN cs /\ \A j \in 1..Len(cs) : ds[j] = IF j = i THEN row ELSE cs[j]
    OBVIOUS
  <1>. HIDE DEF row
  <1>4. Len(ds) = Len(cs) /\ \A j \in 1..Len(cs) : ds[j].batch = cs[j].batch
    BY <1>2, <1>3
  <1>. HIDE DEF ds
  <1>. QED BY <1>4 DEF KeysOnce

LEMMA IssueBatch ==
  ASSUME BatchInv, NEW u \in Users, NEW k \in Kinds, Issue(u, k) PROVE BatchInv'
  <1>1. InvitationInv /\ InvitationInv' /\ KeysOnce(creds[u]["invite"], batches)
    BY IssueKeeps DEF BatchInv
  <1>2. KeysOnce(Reissued(u, "invite", 0), batches)
    BY <1>1, ReissuedKeepsKeys, 0 \in Nat
  <1>3. creds' = [creds EXCEPT ![u][k] = Reissued(u, k, 0)] /\ batches' = batches
    BY DEF Issue
  <1>. QED BY <1>1, <1>2, <1>3, OneInvited

LEMMA ExpireBatch ==
  ASSUME BatchInv, NEW u \in Users, NEW k \in Kinds, Expire(u, k) PROVE BatchInv'
  <1>1. InvitationInv /\ InvitationInv' /\ KeysOnce(creds[u]["invite"], batches)
    BY ExpireKeeps DEF BatchInv
  <1>2. creds[u][k] \in Seq(Cred) /\ creds \in [Users -> [Kinds -> Seq(Cred)]]
    BY <1>1, CredsOf
  <1>3. PICK i \in DOMAIN creds[u][k] : creds' = [creds EXCEPT ![u][k][i].state = "expired"]
    BY DEF Expire
  <1>. DEFINE cs == [creds[u][k] EXCEPT ![i].state = "expired"]
  <1>6. batches' = batches /\ i \in 1..Len(creds[u][k])
    BY <1>2 DEF Expire
  <1>4. creds' = [creds EXCEPT ![u][k] = cs]
    BY <1>2, <1>3
  <1>5. k = "invite" => KeysOnce(cs, batches)
    BY <1>1, <1>2, <1>6, ClosedKeepsKeys
  <1>. HIDE DEF cs
  <1>. QED BY <1>1, <1>4, <1>5, <1>6, OneInvited

LEMMA RedeemBatch == ASSUME BatchInv, NEW u \in Users, Redeem(u) PROVE BatchInv'
  <1>1. InvitationInv /\ InvitationInv' /\ KeysOnce(creds[u]["invite"], batches) /\ "invite" \in Kinds
    BY RedeemKeeps DEF BatchInv, Kinds
  <1>2. creds[u]["invite"] \in Seq(Cred) /\ creds \in [Users -> [Kinds -> Seq(Cred)]]
    BY <1>1, CredsOf
  <1>3. PICK i \in DOMAIN creds[u].invite : creds' = [creds EXCEPT ![u].invite[i].state = "used"]
    BY DEF Redeem
  <1>4. creds[u].invite = creds[u]["invite"] /\ i \in 1..Len(creds[u]["invite"]) /\ batches' = batches
    BY <1>2 DEF Redeem
  <1>. DEFINE cs == [creds[u]["invite"] EXCEPT ![i].state = "used"]
  <1>5. creds' = [creds EXCEPT ![u]["invite"] = cs]
    BY <1>1, <1>2, <1>3, <1>4
  <1>6. KeysOnce(cs, batches)
    BY <1>1, <1>2, <1>4, ClosedKeepsKeys
  <1>. HIDE DEF cs
  <1>. QED BY <1>1, <1>4, <1>5, <1>6, OneInvited

(* A key whose batch is queued issues nothing again.                        *)
LEMMA SendBatch == ASSUME BatchInv, NEW r \in requests, HandleSend(r) PROVE BatchInv'
  <1>1. InvitationInv /\ InvitationInv'
    BY SendKeeps DEF BatchInv
  <1>2. creds \in [Users -> [Kinds -> Seq(Cred)]] /\ "invite" \in Kinds /\ r.key \in Nat
    BY <1>1 DEF InvitationInv, InvShape, Kinds
  <1>3. CASE creds' = creds /\ batches' = batches
    BY <1>1, <1>3 DEF BatchInv
  <1>4. CASE ~AlreadySent(r)
    <2>1. /\ creds' = [u \in Users |-> IF u \in r.users
                                       THEN [creds[u] EXCEPT !.invite = Reissued(u, "invite", r.key)]
                                       ELSE creds[u]]
          /\ batches' = batches \cup {r}
      BY <1>4 DEF HandleSend
    <2>2. \A b \in batches : b.key # r.key
      BY <1>4 DEF AlreadySent
    <2>3. ASSUME NEW u \in Users PROVE KeysOnce(creds'[u]["invite"], batches')
      <3>1. KeysOnce(creds[u]["invite"], batches)
        BY DEF BatchInv
      <3>2. CASE u \in r.users
        <4>1. creds'[u]["invite"] = Reissued(u, "invite", r.key)
          BY <1>2, <2>1, <3>2
        <4>2. batches \subseteq batches' /\ \E b \in batches' : b.key = r.key
          BY <2>1
        <4>3. KeysOnce(Reissued(u, "invite", r.key), batches')
          BY <1>1, <1>2, <2>2, <3>1, <4>2, ReissuedKeepsKeys
        <4>. QED BY <4>1, <4>3
      <3>3. CASE u \notin r.users
        BY <2>1, <3>1, <3>3 DEF KeysOnce
      <3>. QED BY <3>2, <3>3
    <2>. QED BY <1>1, <2>3 DEF BatchInv
  <1>. QED BY <1>3, <1>4 DEF HandleSend

LEMMA BatchStep == BatchInv /\ [InvitationNext]_ivars => BatchInv'
  <1>. SUFFICES ASSUME BatchInv, [InvitationNext]_ivars PROVE BatchInv'
    OBVIOUS
  <1>1. InvitationInv /\ InvitationInv'
    BY InvitationStep DEF BatchInv
  <1>2. CASE \E u \in Users, k \in Kinds : Issue(u, k) \/ Expire(u, k)
    BY <1>2, IssueBatch, ExpireBatch
  <1>3. ASSUME NEW u \in Users, RevokeTokens(u) PROVE BatchInv'
    <2>1. "api" \in Kinds /\ "api" # "invite"
      BY DEF Kinds
    <2>2. creds' = [creds EXCEPT ![u]["api"] = Revoked(creds[u].api)] /\ batches' = batches
      BY <1>1, <1>3, <2>1, CredsOf DEF RevokeTokens
    <2>. QED BY <1>1, <2>1, <2>2, OneInvited
  <1>4. CASE \E u \in Users : Redeem(u)
    BY <1>4, RedeemBatch
  <1>5. CASE \E r \in requests : HandleSend(r)
    BY <1>5, SendBatch
  <1>6. CASE creds' = creds /\ batches' = batches
    BY <1>1, <1>6 DEF BatchInv
  <1>. QED BY <1>2, <1>3, <1>4, <1>5, <1>6 DEF InvitationNext, ChangeEmail, PreviewInvites, CancelInvites,
       SendInvites, AnswerLost, RefuseSend, ivars

LEMMA BatchStart == InvitationInit => BatchInv
  BY InvitationStart DEF InvitationInit, BatchInv, KeysOnce, Kinds

LEMMA BatchImplies == BatchInv => BatchIsIssuedOnce
  <1>. SUFFICES ASSUME BatchInv, NEW u \in Users, NEW i \in DOMAIN creds[u].invite, NEW j \in DOMAIN creds[u].invite,
                       creds[u].invite[i].batch = creds[u].invite[j].batch, creds[u].invite[i].batch # 0
                PROVE  i = j
    BY DEF BatchIsIssuedOnce
  <1>1. creds[u]["invite"] \in Seq(Cred) /\ KeysOnce(creds[u]["invite"], batches)
    BY DEF BatchInv, InvitationInv, InvShape, Kinds
  <1>. QED BY <1>1 DEF KeysOnce

(* A batch of invitations that is sent again because its answer was lost    *)
(* issues no second invitation to anybody (send_invites).                   *)
THEOREM BatchesIssueOnce == InvitationSpec => []BatchIsIssuedOnce
  <1>. QED BY BatchStart, BatchStep, BatchImplies, PTL DEF InvitationSpec

(***************************************************************************)
(*                               Mail                                      *)
(***************************************************************************)
(* The composer on screen remembers the last send if it was its own, so     *)
(* the next send of the same content has its key; and a key has one batch. *)
Sends == [by: Nat, text: Nat, key: Nat]
ComposerRow == [open: BOOLEAN, text: Nat, confirming: BOOLEAN, busy: {"no", "preview", "send"},
                lastText: Nat, lastKey: Nat]
Remembers(c, s, n) ==
  c.open /\ Len(s) > 0 /\ s[Len(s)].by = n => c.lastText = s[Len(s)].text /\ c.lastKey = s[Len(s)].key

MailInv ==
  /\ opened \in Nat /\ composer \in ComposerRow /\ sent \in Seq(Sends)
  /\ \A i \in 1..Len(sent) : sent[i].by <= opened
  /\ \A i \in 2..Len(sent) : sent[i].by = sent[i - 1].by /\ sent[i].text = sent[i - 1].text
                               => sent[i].key = sent[i - 1].key
  /\ Remembers(composer, sent, opened)
  /\ \A b, c \in queued : b.key = c.key => b = c

LEMMA TextsAreNumbers == \A t \in Text : t \in Nat
  <1>1. MaxText \in Nat
    BY MailAssumption
  <1>. QED BY <1>1 DEF Text

LEMMA MailStart == MailInit => MailInv
  <1>. SUFFICES ASSUME MailInit PROVE MailInv
    OBVIOUS
  <1>1. composer \in ComposerRow
    BY DEF MailInit, Blank, ComposerRow
  <1>2. opened = 0 /\ sent = <<>> /\ queued = {}
    BY DEF MailInit
  <1>. QED BY <1>1, <1>2 DEF MailInv, Remembers

(* A step that sends nothing: the composer keeps its memory or is closed.   *)
LEMMA NothingSent ==
  ASSUME MailInv, UNCHANGED <<opened, sent>>, composer' \in ComposerRow,
         composer'.open => composer.open /\ composer'.lastText = composer.lastText
                           /\ composer'.lastKey = composer.lastKey,
         \A b, c \in queued' : b.key = c.key => b = c
  PROVE  MailInv'
  BY DEF MailInv, Remembers

LEMMA ComposerKeeps ==
  ASSUME MailInv,
         \/ Cancel \/ ShowPreview \/ PreviewArrives \/ PreviewFails \/ SendLost \/ MoveAddress
         \/ \E t \in Text : Edit(t)
  PROVE  MailInv'
  <1>1. composer \in ComposerRow /\ \A b, c \in queued : b.key = c.key => b = c
    BY DEF MailInv
  <1>2. UNCHANGED <<opened, sent, queued>>
    BY DEF Cancel, ShowPreview, PreviewArrives, PreviewFails, SendLost, MoveAddress, Edit
  <1>3. CASE Cancel
    <2>1. composer' = Blank /\ Blank \in ComposerRow /\ ~Blank.open
      BY <1>3 DEF Cancel, Blank, ComposerRow
    <2>. QED BY <1>1, <1>2, <2>1, NothingSent
  <1>4. ASSUME NEW t \in Text, Edit(t) PROVE MailInv'
    <2>1. composer' = [composer EXCEPT !.text = t, !.confirming = FALSE] /\ t \in Nat
      BY <1>4, TextsAreNumbers DEF Edit
    <2>2. composer' \in ComposerRow /\ composer'.open = composer.open /\ composer'.lastText = composer.lastText
          /\ composer'.lastKey = composer.lastKey
      BY <1>1, <2>1 DEF ComposerRow
    <2>. QED BY <1>1, <1>2, <2>2, NothingSent
  <1>5. CASE composer' = composer
    BY <1>1, <1>2, <1>5, NothingSent
  <1>6. CASE \/ composer' = [composer EXCEPT !.busy = "preview"] \/ composer' = [composer EXCEPT !.busy = "no"]
             \/ composer' = [composer EXCEPT !.busy = "no", !.confirming = TRUE]
    <2>1. composer' \in ComposerRow /\ composer'.open = composer.open /\ composer'.lastText = composer.lastText
          /\ composer'.lastKey = composer.lastKey
      BY <1>1, <1>6 DEF ComposerRow
    <2>. QED BY <1>1, <1>2, <2>1, NothingSent
  <1>. QED BY <1>3, <1>4, <1>5, <1>6 DEF ShowPreview, PreviewArrives, PreviewFails, SendLost, MoveAddress

LEMMA OpenKeeps == ASSUME MailInv, OpenComposer PROVE MailInv'
  <1>1. opened \in Nat /\ opened' = opened + 1 /\ UNCHANGED <<sent, queued>>
    BY DEF OpenComposer, MailInv
  <1>2. composer' \in ComposerRow
    BY DEF OpenComposer, Blank, ComposerRow
  <1>3. \A i \in 1..Len(sent) : sent[i].by <= opened
    BY DEF MailInv
  <1>4. \A i \in 1..Len(sent) : sent[i] \in Sends /\ Len(sent) \in Nat
    BY DEF MailInv
  <1>5. \A i \in 1..Len(sent) : sent[i].by # opened + 1 /\ sent[i].by <= opened + 1
    BY <1>1, <1>3, <1>4 DEF Sends
  <1>6. Len(sent) > 0 => Len(sent) \in 1..Len(sent)
    BY DEF MailInv
  <1>7. Remembers(composer', sent', opened')
    BY <1>1, <1>5, <1>6 DEF Remembers
  <1>. QED BY <1>1, <1>2, <1>5, <1>7 DEF MailInv

LEMMA SendMailKeeps == ASSUME MailInv, Send PROVE MailInv'
  <1>. DEFINE new == [by |-> opened, text |-> composer.text, key |-> SendKey]
  <1>1. composer \in ComposerRow /\ opened \in Nat /\ sent \in Seq(Sends) /\ composer.open
    BY DEF MailInv, Send
  <1>2. SendKey \in Nat
    BY <1>1 DEF SendKey, NewKey, ComposerRow
  <1>3. new \in Sends /\ new.by = opened /\ new.text = composer.text /\ new.key = SendKey
    BY <1>1, <1>2 DEF Sends, ComposerRow
  <1>4. composer' = [composer EXCEPT !.busy = "send", !.lastText = composer.text, !.lastKey = SendKey]
        /\ sent' = Append(sent, new) /\ UNCHANGED <<opened, queued>>
    BY DEF Send
  <1>5. composer' \in ComposerRow /\ composer'.lastText = new.text /\ composer'.lastKey = new.key
    BY <1>1, <1>2, <1>4 DEF ComposerRow
  <1>6. Len(sent) > 0 /\ sent[Len(sent)].by = opened /\ sent[Len(sent)].text = composer.text
          => new.key = sent[Len(sent)].key
    BY <1>1 DEF MailInv, Remembers, SendKey
  <1>. HIDE DEF new
  <1>7. sent' \in Seq(Sends) /\ Len(sent') = Len(sent) + 1 /\ sent'[Len(sent) + 1] = new
        /\ \A i \in 1..Len(sent) : sent'[i] = sent[i]
    BY <1>1, <1>3, <1>4
  <1>8. \A i \in 1..Len(sent') : sent'[i].by <= opened
    <2>. SUFFICES ASSUME NEW i \in 1..Len(sent') PROVE sent'[i].by <= opened
      OBVIOUS
    <2>1. CASE i \in 1..Len(sent)
      BY <2>1, <1>7 DEF MailInv
    <2>2. CASE i = Len(sent) + 1
      BY <2>2, <1>1, <1>3, <1>7
    <2>. QED BY <2>1, <2>2, <1>1, <1>7
  <1>9. \A i \in 2..Len(sent') : sent'[i].by = sent'[i - 1].by /\ sent'[i].text = sent'[i - 1].text
                                   => sent'[i].key = sent'[i - 1].key
    <2>. SUFFICES ASSUME NEW i \in 2..Len(sent'), sent'[i].by = sent'[i - 1].by, sent'[i].text = sent'[i - 1].text
                  PROVE  sent'[i].key = sent'[i - 1].key
      OBVIOUS
    <2>1. CASE i \in 2..Len(sent)
      <3>1. i \in 1..Len(sent) /\ i - 1 \in 1..Len(sent)
        BY <2>1, <1>1
      <3>. QED BY <2>1, <3>1, <1>7 DEF MailInv
    <2>2. CASE i = Len(sent) + 1
      <3>1. i - 1 = Len(sent) /\ Len(sent) \in 1..Len(sent) /\ Len(sent) > 0
        BY <2>2, <1>1, <1>7
      <3>. QED BY <2>2, <3>1, <1>3, <1>6, <1>7
    <2>. QED BY <2>1, <2>2, <1>1, <1>7
  <1>10. Remembers(composer', sent', opened)
    BY <1>1, <1>5, <1>7 DEF Remembers
  <1>. QED BY <1>1, <1>4, <1>5, <1>7, <1>8, <1>9, <1>10 DEF MailInv

(* The server queues a key once; a refusal queues nothing.                  *)
LEMMA HandleKeeps == ASSUME MailInv, NEW r \in posts, Handle(r) \/ Refuse(r) PROVE MailInv'
  <1>1. composer \in ComposerRow /\ UNCHANGED <<opened, sent>>
    BY DEF MailInv, Handle, Refuse
  <1>2. \A b, c \in queued' : b.key = c.key => b = c
    <2>1. queued' = queued \/ (SameKey(r) = {} /\ queued' = queued \cup {Batch(r)})
      BY DEF Handle, Refuse
    <2>2. SameKey(r) = {} => \A b \in queued : b.key # Batch(r).key
      BY DEF SameKey, Batch
    <2>. QED BY <2>1, <2>2 DEF MailInv
  <1>3. composer' \in {composer, Blank, [composer EXCEPT !.busy = "no"]}
    BY DEF Handle, Refuse
  <1>4. Blank \in ComposerRow /\ ~Blank.open
    BY DEF Blank, ComposerRow
  <1>5. [composer EXCEPT !.busy = "no"] \in ComposerRow
        /\ [composer EXCEPT !.busy = "no"].open = composer.open
        /\ [composer EXCEPT !.busy = "no"].lastText = composer.lastText
        /\ [composer EXCEPT !.busy = "no"].lastKey = composer.lastKey
    BY <1>1 DEF ComposerRow
  <1>. DEFINE freed == [composer EXCEPT !.busy = "no"]
  <1>. HIDE DEF freed
  <1>6. CASE composer' = composer
    BY <1>1, <1>2, <1>6, NothingSent
  <1>7. CASE composer' = Blank
    BY <1>1, <1>2, <1>4, <1>7, NothingSent
  <1>8. CASE composer' = freed
    BY <1>1, <1>2, <1>5, <1>8, NothingSent DEF freed
  <1>. QED BY <1>3, <1>6, <1>7, <1>8 DEF freed

LEMMA MailStep == MailInv /\ [MailNext]_mvars => MailInv'
  <1>. SUFFICES ASSUME MailInv, [MailNext]_mvars PROVE MailInv'
    OBVIOUS
  <1>1. CASE UNCHANGED mvars
    BY <1>1 DEF mvars, MailInv, Remembers
  <1>2. CASE \/ Cancel \/ ShowPreview \/ PreviewArrives \/ PreviewFails \/ SendLost \/ MoveAddress
             \/ \E t \in Text : Edit(t)
    BY <1>2, ComposerKeeps
  <1>3. CASE OpenComposer
    BY <1>3, OpenKeeps
  <1>4. CASE Send
    BY <1>4, SendMailKeeps
  <1>5. CASE \E r \in posts : Handle(r) \/ Refuse(r)
    BY <1>5, HandleKeeps
  <1>. QED BY <1>1, <1>2, <1>3, <1>4, <1>5 DEF MailNext

LEMMA MailImplies == MailInv => ResentMailIsQueuedOnce
  <1>. SUFFICES ASSUME MailInv, NEW i \in 2..Len(sent),
                       sent[i].by = sent[i - 1].by, sent[i].text = sent[i - 1].text
                PROVE  Cardinality({b \in queued : b.key \in {sent[i].key, sent[i - 1].key}}) <= 1
    BY DEF ResentMailIsQueuedOnce
  <1>. DEFINE B == {b \in queued : b.key \in {sent[i].key, sent[i - 1].key}}
  <1>1. \A b, c \in B : b = c
    BY DEF MailInv
  <1>. HIDE DEF B
  <1>2. B = {} \/ \E b \in B : B = {b}
    BY <1>1
  <1>3. Cardinality(B) <= 1
    <2>1. CASE B = {}
      BY <2>1, FS_EmptySet
    <2>2. ASSUME NEW b \in B, B = {b} PROVE Cardinality(B) <= 1
      <3>1. Cardinality({b}) = 1
        BY FS_Singleton
      <3>. QED BY <2>2, <3>1
    <2>. QED BY <1>2, <2>1, <2>2
  <1>. QED BY <1>3 DEF B

(***************************************************************************)
(*                                Runs                                     *)
(***************************************************************************)
Fits(p) ==
  /\ p.config.volume >= p.needs.storage
  /\ \E i \in DOMAIN Machines : /\ Machines[i].name = p.config.machine
                                /\ Machines[i].size \notin 1..(p.needs.size - 1)
PlanRow == [id: [by: Nat, task: TaskRevisions], state: {"draft", "approved"},
            config: [machine: STRING, volume: Nat], needs: NeedsOf]
FitPlans == {p \in PlanRow : Fits(p)}
AskedRow == [oracle: BOOLEAN, machine: STRING \cup {Automatic}, volume: Nat]
PostRow == [kind: {"run", "manual", "batch"}, plan: Nat, tasks: SUBSET TaskRevisions, config: AskedRow]

LaunchShape ==
  /\ revisions \in [TaskRevisions -> [known: BOOLEAN, needs: NeedsOf]]
  /\ plans \subseteq FitPlans /\ planning \in Seq(FitPlans)
  /\ posted \in Seq(PostRow)
  /\ \A i \in DOMAIN posted : posted[i].kind # "batch" => \E t \in TaskRevisions : posted[i].tasks = {t}

(* A run is for one task of its request, under the key that goes with the   *)
(* kind of the request, and of an approved plan.                           *)
KeyOf(i, t) == [by |-> i, task |-> IF posted[i].kind = "batch" THEN t ELSE NoTask]
OfApproved(run, ps) == \E p \in ps : p.id = run.plan /\ p.state = "approved" /\ p.config = run.config
RunsInv ==
  /\ \A run \in runs : /\ run.key.by \in DOMAIN posted /\ run.plan.task \in posted[run.key.by].tasks
                       /\ run.key = KeyOf(run.key.by, run.plan.task) /\ OfApproved(run, plans)
  /\ \A r, s \in runs : r.key.by = s.key.by /\ r.plan.task = s.plan.task => r = s

(* What was queued for a request was answered, and every answer is all of   *)
(* it: one run for each of its tasks.                                       *)
TasksOf(rs) == {run.plan.task : run \in rs}
AnswersInv ==
  /\ \A a \in answers : /\ a.by \in DOMAIN posted /\ a.runs = QueuedFor(a.by)
                        /\ TasksOf(a.runs) = posted[a.by].tasks
  /\ \A i \in DOMAIN posted : QueuedFor(i) # {} => /\ TasksOf(QueuedFor(i)) = posted[i].tasks
                                                  /\ \E a \in answers : a.by = i

LaunchInv == LaunchShape /\ RunsInv /\ AnswersInv

-----------------------------------------------------------------------------
LEMMA MachineAt == \A i \in DOMAIN Machines : Machines[i] \in Machine
  BY LaunchAssumption

LEMMA NamesTell ==
  \A m, n \in {Machines[i] : i \in DOMAIN Machines} : m.name = n.name => m = n
  BY LaunchAssumption

(* resolve_instance_config answers at most one configuration, for a machine *)
(* and a volume that fit; what a machine has is looked up by its name.      *)
LEMMA ResolvedFits ==
  ASSUME NEW config \in AskedRow, NEW needs \in NeedsOf, NEW r \in Resolved(config, needs)
  PROVE  /\ r \in [machine: STRING, volume: Nat] /\ r.volume >= needs.storage
         /\ \E i \in DOMAIN Machines : Machines[i].name = r.machine /\ Machines[i].size \notin 1..(needs.size - 1)
  <1>. DEFINE asked == IF config.volume = 0 THEN DefaultVolume ELSE config.volume
              larger == LargerOf(asked, needs.storage)
              from == IF config.machine = Automatic THEN FirstCandidate(needs) ELSE AskedFor(config, needs)
  <1>0. Resolved(config, needs) = {[machine |-> m.name, volume |-> larger] : m \in from}
    BY DEF Resolved
  <1>8. LargerOf(asked, needs.storage) = larger
    OBVIOUS
  <1>9. from \subseteq FirstCandidate(needs) \cup AskedFor(config, needs)
    OBVIOUS
  <1>. HIDE DEF larger, from
  <1>1. PICK m \in from : r = [machine |-> m.name, volume |-> larger]
    BY <1>0
  <1>2. asked \in Nat
    <2>1. DefaultVolume \in Nat
      BY LaunchAssumption
    <2>. QED BY <2>1 DEF AskedRow
  <1>3. needs.storage \in Nat /\ needs.size \in Nat
    BY DEF NeedsOf
  <1>. HIDE DEF asked
  <1>4. larger \in Nat /\ larger >= needs.storage
    BY <1>2, <1>3, <1>8 DEF LargerOf
  <1>5. PICK i \in DOMAIN Machines : m = Machines[i] /\ (m.size = 0 \/ m.size >= needs.size)
    <2>1. CASE m \in FirstCandidate(needs)
      BY <2>1 DEF FirstCandidate, Candidates
    <2>2. CASE m \in AskedFor(config, needs)
      BY <2>2 DEF AskedFor
    <2>. QED BY <2>1, <2>2, <1>1, <1>9
  <1>6. m.name \in STRING /\ m.size \in Nat
    BY <1>5, MachineAt DEF Machine
  <1>7. m.size \notin 1..(needs.size - 1)
    BY <1>3, <1>5, <1>6
  <1>. QED BY <1>1, <1>4, <1>5, <1>6, <1>7

LEMMA ResolvedOnce ==
  ASSUME NEW config, NEW needs, NEW r \in Resolved(config, needs), NEW s \in Resolved(config, needs)
  PROVE  r = s
  <1>1. \A m, n \in FirstCandidate(needs) : m = n
    <2>. SUFFICES ASSUME NEW m \in FirstCandidate(needs), NEW n \in FirstCandidate(needs) PROVE m = n
      OBVIOUS
    <2>1. PICK i \in Candidates(needs) : m = Machines[i] /\ \A k \in Candidates(needs) : i <= k
      BY DEF FirstCandidate
    <2>2. PICK j \in Candidates(needs) : n = Machines[j] /\ \A k \in Candidates(needs) : j <= k
      BY DEF FirstCandidate
    <2>3. i \in Nat /\ j \in Nat
      BY LaunchAssumption DEF Candidates
    <2>4. i <= j /\ j <= i
      BY <2>1, <2>2
    <2>5. i = j
      BY <2>3, <2>4
    <2>. QED BY <2>1, <2>2, <2>5
  <1>2. \A m, n \in AskedFor(config, needs) : m = n
    BY NamesTell DEF AskedFor
  <1>. QED BY <1>1, <1>2 DEF Resolved

LEMMA NewPlanFits ==
  ASSUME LaunchShape, NEW by \in Nat, NEW t \in TaskRevisions, NEW state \in {"draft", "approved"},
         NEW config \in AskedRow, NEW p \in NewPlan(by, t, state, config)
  PROVE  p \in FitPlans /\ p.id = [by |-> by, task |-> t] /\ p.state = state
  <1>1. PICK r \in Resolved(config, revisions[t].needs) :
          p = [id |-> [by |-> by, task |-> t], state |-> state, config |-> r, needs |-> revisions[t].needs]
    BY DEF NewPlan
  <1>2. revisions[t].needs \in NeedsOf
    BY DEF LaunchShape
  <1>3. /\ r \in [machine: STRING, volume: Nat] /\ r.volume >= revisions[t].needs.storage
        /\ \E i \in DOMAIN Machines : /\ Machines[i].name = r.machine
                                      /\ Machines[i].size \notin 1..(revisions[t].needs.size - 1)
    BY <1>2, ResolvedFits
  <1>4. p \in PlanRow
    BY <1>1, <1>2, <1>3 DEF PlanRow
  <1>5. Fits(p)
    BY <1>1, <1>3 DEF Fits
  <1>. QED BY <1>1, <1>4, <1>5 DEF FitPlans

LEMMA NewPlanOnce ==
  ASSUME NEW by, NEW t, NEW state, NEW config, NEW p \in NewPlan(by, t, state, config),
         NEW q \in NewPlan(by, t, state, config)
  PROVE  p = q
  BY ResolvedOnce DEF NewPlan

-----------------------------------------------------------------------------
(* Nothing is queued: what a run was queued for stays as it was, and        *)
(* approved plans stay.                                                     *)
LEMMA RunsStay ==
  ASSUME LaunchInv, LaunchShape', UNCHANGED <<runs, posted>>,
         \A p \in plans : p.state = "approved" => p \in plans'
  PROVE  RunsInv'
  BY DEF LaunchInv, RunsInv, KeyOf, OfApproved

LEMMA NothingQueued ==
  ASSUME LaunchInv, LaunchShape', UNCHANGED <<runs, posted, answers>>,
         \A p \in plans : p.state = "approved" => p \in plans'
  PROVE  LaunchInv'
  <1>1. RunsInv'
    BY RunsStay
  <1>2. AnswersInv'
    BY DEF LaunchInv, AnswersInv, QueuedFor, TasksOf
  <1>. QED BY <1>1, <1>2 DEF LaunchInv

LEMMA NeedsStayTyped ==
  ASSUME LaunchShape, NEW needs, \A t \in DOMAIN needs : needs[t] \in NeedsOf, Upsert(needs),
         UNCHANGED <<planning, plans, posted>>
  PROVE  LaunchShape'
  BY DEF LaunchShape, Upsert

LEMMA RegistryKeeps ==
  ASSUME LaunchInv,
         \/ SyncRepository \/ \E t \in TaskRevisions : SyncRevision(t)
         \/ \E t \in TaskRevisions, n \in Needs : PostRevision(t, n)
  PROVE  LaunchInv'
  <1>1. UNCHANGED <<planning, plans, posted, runs, answers>>
    BY DEF SyncRepository, SyncRevision, PostRevision
  <1>2. Declared \in [TaskRevisions -> NeedsOf] /\ Needs \subseteq NeedsOf
    BY LaunchAssumption
  <1>3. LaunchShape'
    <2>1. LaunchShape
      BY DEF LaunchInv
    <2>2. CASE SyncRepository
      <3>1. Upsert(Declared) /\ \A t \in DOMAIN Declared : Declared[t] \in NeedsOf
        BY <1>2, <2>2 DEF SyncRepository
      <3>. QED BY <1>1, <2>1, <3>1, NeedsStayTyped
    <2>3. ASSUME NEW t \in TaskRevisions, SyncRevision(t) PROVE LaunchShape'
      <3>. DEFINE needs == [u \in {t} |-> Declared[u]]
      <3>1. Upsert(needs) /\ \A u \in DOMAIN needs : needs[u] \in NeedsOf
        BY <1>2, <2>3 DEF SyncRevision
      <3>. HIDE DEF needs
      <3>. QED BY <1>1, <2>1, <3>1, NeedsStayTyped
    <2>4. ASSUME NEW t \in TaskRevisions, NEW n \in Needs, PostRevision(t, n) PROVE LaunchShape'
      <3>. DEFINE needs == [u \in {t} |-> n]
      <3>1. Upsert(needs) /\ \A u \in DOMAIN needs : needs[u] \in NeedsOf
        BY <1>2, <2>4 DEF PostRevision
      <3>. HIDE DEF needs
      <3>. QED BY <1>1, <2>1, <3>1, NeedsStayTyped
    <2>. QED BY <2>2, <2>3, <2>4
  <1>. QED BY <1>1, <1>3, NothingQueued

(* A plan is written, or approved, as it was resolved.                      *)
LEMMA PlansKeep ==
  ASSUME LaunchInv,
         \/ PlanWrite \/ \E t \in TaskRevisions, c \in Configs : PlanRead(t, c)
         \/ \E p \in plans : ApprovePlan(p)
  PROVE  LaunchInv'
  <1>1. LaunchShape /\ UNCHANGED <<revisions, posted, runs, answers>>
    BY DEF LaunchInv, PlanWrite, PlanRead, ApprovePlan
  <1>2. CASE PlanWrite
    <2>1. planning \in Seq(FitPlans) /\ planning # <<>> /\ planning' = <<>> /\ plans' = plans \cup {planning[1]}
      BY <1>2 DEF PlanWrite, LaunchInv, LaunchShape
    <2>2. planning[1] \in FitPlans
      BY <2>1
    <2>3. LaunchShape'
      BY <1>1, <2>1, <2>2 DEF LaunchShape
    <2>. QED BY <1>1, <2>1, <2>3, NothingQueued
  <1>3. ASSUME NEW t \in TaskRevisions, NEW c \in Configs, PlanRead(t, c) PROVE LaunchInv'
    <2>1. PICK p \in NewPlan(0, t, "draft", c) : planning' = <<p>>
      BY <1>3 DEF PlanRead
    <2>2. c \in AskedRow
      BY LaunchAssumption DEF Asked, AskedRow
    <2>3. p \in FitPlans
      BY <1>1, <2>2, NewPlanFits
    <2>4. LaunchShape' /\ plans' = plans
      BY <1>1, <1>3, <2>1, <2>3 DEF LaunchShape, PlanRead
    <2>. QED BY <1>1, <2>4, NothingQueued
  <1>4. ASSUME NEW p \in plans, ApprovePlan(p) PROVE LaunchInv'
    <2>. DEFINE q == [p EXCEPT !.state = "approved"]
    <2>1. p \in PlanRow /\ Fits(p)
      BY <1>1 DEF LaunchShape, FitPlans
    <2>2. q \in PlanRow /\ q.config = p.config /\ q.needs = p.needs
      BY <2>1 DEF PlanRow
    <2>3. p.state = "draft" /\ plans' = (plans \ {p}) \cup {q} /\ planning' = planning
      BY <1>4 DEF ApprovePlan
    <2>. HIDE DEF q
    <2>4. q \in FitPlans
      BY <2>1, <2>2 DEF FitPlans, Fits
    <2>5. LaunchShape'
      BY <1>1, <2>3, <2>4 DEF LaunchShape
    <2>6. \A o \in plans : o.state = "approved" => o \in plans'
      BY <2>3
    <2>. QED BY <1>1, <2>5, <2>6, NothingQueued
  <1>. QED BY <1>2, <1>3, <1>4

-----------------------------------------------------------------------------
(* A new request has no runs and no answers.                                *)
LEMMA PostKeeps ==
  ASSUME LaunchInv, NEW q \in PostRow, q.kind # "batch" => \E t \in TaskRevisions : q.tasks = {t}, PostRequest(q)
  PROVE  LaunchInv'
  <1>1. /\ posted' = Append(posted, q) /\ UNCHANGED <<revisions, plans, planning, runs, answers>>
        /\ posted \in Seq(PostRow)
    BY DEF PostRequest, LaunchInv, LaunchShape
  <1>2. /\ posted' \in Seq(PostRow) /\ DOMAIN posted' = (DOMAIN posted) \cup {Len(posted) + 1}
        /\ posted'[Len(posted) + 1] = q /\ \A i \in DOMAIN posted : posted'[i] = posted[i]
        /\ Len(posted) + 1 \notin DOMAIN posted
    BY <1>1
  <1>3. LaunchShape'
    BY <1>1, <1>2 DEF LaunchInv, LaunchShape
  <1>4. RunsInv'
    BY <1>1, <1>2, ZenonT(60) DEF LaunchInv, RunsInv, KeyOf, OfApproved
  <1>5. \A run \in runs : run.key.by \in DOMAIN posted
    BY DEF LaunchInv, RunsInv
  <1>6. \A i : QueuedFor(i)' = QueuedFor(i)
    BY <1>1 DEF QueuedFor
  <1>7. QueuedFor(Len(posted) + 1) = {}
    BY <1>2, <1>5 DEF QueuedFor
  <1>8. AnswersInv'
    BY <1>1, <1>2, <1>6, <1>7 DEF LaunchInv, AnswersInv, TasksOf
  <1>. QED BY <1>3, <1>4, <1>8 DEF LaunchInv

LEMMA AskKeeps ==
  ASSUME LaunchInv,
         \/ \E p \in plans : PostRun(p)
         \/ \E selected \in SUBSET TaskRevisions, c \in Configs : Launch(selected, c)
  PROVE  LaunchInv'
  <1>1. ASSUME NEW p \in plans, PostRun(p) PROVE LaunchInv'
    <2>. DEFINE q == [kind |-> "run", plan |-> p.id.by, tasks |-> {p.id.task},
                      config |-> [oracle |-> TRUE, machine |-> Automatic, volume |-> 0]]
    <2>1. p.id \in [by: Nat, task: TaskRevisions]
      BY DEF LaunchInv, LaunchShape, FitPlans, PlanRow
    <2>2. [oracle |-> TRUE, machine |-> Automatic, volume |-> 0] \in AskedRow
      BY DEF AskedRow
    <2>3. q \in PostRow /\ q.tasks = {p.id.task} /\ PostRequest(q) /\ p.id.task \in TaskRevisions
      BY <1>1, <2>1, <2>2 DEF PostRow, PostRun
    <2>. HIDE DEF q
    <2>. QED BY <2>3, PostKeeps
  <1>2. ASSUME NEW selected \in SUBSET TaskRevisions, NEW c \in Configs, Launch(selected, c) PROVE LaunchInv'
    <2>. DEFINE q == [kind |-> IF Cardinality(selected) = 1 THEN "manual" ELSE "batch", plan |-> 0,
                      tasks |-> selected, config |-> c]
    <2>1. c \in AskedRow
      BY LaunchAssumption DEF Asked, AskedRow
    <2>2. q \in PostRow
      BY <2>1 DEF PostRow
    <2>3. q.kind # "batch" => Cardinality(selected) = 1
      OBVIOUS
    <2>4. IsFiniteSet(selected)
      BY LaunchAssumption, FS_Subset
    <2>5. Cardinality(selected) = 1 => \E t \in TaskRevisions : selected = {t}
      BY <2>4, FS_Singleton
    <2>6. PostRequest(q) /\ q.tasks = selected
      BY <1>2 DEF Launch
    <2>. HIDE DEF q
    <2>. QED BY <2>2, <2>3, <2>5, <2>6, PostKeeps
  <1>. QED BY <1>1, <1>2

-----------------------------------------------------------------------------
(* A request that has no runs yet is handled: one run for each of its       *)
(* tasks, of a plan approved by now, and an answer that lists them.         *)
LEMMA QueueRuns ==
  ASSUME LaunchInv, NEW i \in DOMAIN posted, NEW ps \in SUBSET FitPlans, NEW fresh,
         QueuedFor(i) = {}, plans' = plans \cup ps, UNCHANGED <<revisions, planning, posted>>,
         \A r \in fresh : r.key = KeyOf(i, r.plan.task) /\ OfApproved(r, plans'),
         TasksOf(fresh) = posted[i].tasks, \A r, s \in fresh : r.plan.task = s.plan.task => r = s,
         runs' = runs \cup fresh, Answer(i, fresh)
  PROVE  LaunchInv'
  <1>1. LaunchShape'
    BY DEF LaunchInv, LaunchShape
  <1>2. \A r \in fresh : r.key.by = i /\ r.plan.task \in posted[i].tasks
    <2>. SUFFICES ASSUME NEW r \in fresh PROVE r.key.by = i /\ r.plan.task \in posted[i].tasks
      OBVIOUS
    <2>1. r.plan.task \in TasksOf(fresh)
      BY DEF TasksOf
    <2>2. KeyOf(i, r.plan.task).by = i
      BY DEF KeyOf
    <2>3. r.key = KeyOf(i, r.plan.task)
      OBVIOUS
    <2>. QED BY <2>1, <2>2, <2>3
  <1>3. \A r \in runs : r.key.by # i
    BY DEF QueuedFor
  <1>4. RunsInv'
    <2>1. ASSUME NEW r \in runs'
          PROVE  /\ r.key.by \in DOMAIN posted' /\ r.plan.task \in posted'[r.key.by].tasks
                 /\ r.key = KeyOf(r.key.by, r.plan.task)' /\ OfApproved(r, plans')
      <3>1. CASE r \in runs
        <4>1. /\ r.key.by \in DOMAIN posted /\ r.plan.task \in posted[r.key.by].tasks
              /\ r.key = KeyOf(r.key.by, r.plan.task) /\ OfApproved(r, plans)
          BY <3>1 DEF LaunchInv, RunsInv
        <4>. QED BY <4>1 DEF KeyOf, OfApproved
      <3>2. CASE r \in fresh
        BY <3>2, <1>2 DEF KeyOf
      <3>. QED BY <3>1, <3>2
    <2>2. \A r, s \in runs' : r.key.by = s.key.by /\ r.plan.task = s.plan.task => r = s
      BY <1>2, <1>3 DEF LaunchInv, RunsInv
    <2>. QED BY <2>1, <2>2 DEF RunsInv, OfApproved
  <1>5. QueuedFor(i)' = fresh /\ \A j : j # i => QueuedFor(j)' = QueuedFor(j)
    BY <1>2, <1>3 DEF QueuedFor
  <1>6. answers' = answers \cup {[by |-> i, runs |-> fresh]}
    BY DEF Answer
  <1>7. \A a \in answers : a.by = i => fresh = {} /\ a.runs = {}
    <2>. SUFFICES ASSUME NEW a \in answers, a.by = i PROVE fresh = {} /\ a.runs = {}
      OBVIOUS
    <2>1. a.runs = {} /\ TasksOf(a.runs) = posted[i].tasks
      BY DEF LaunchInv, AnswersInv
    <2>. QED BY <2>1 DEF TasksOf
  <1>8. \A a \in answers' : /\ a.by \in DOMAIN posted' /\ a.runs = QueuedFor(a.by)'
                            /\ TasksOf(a.runs) = posted'[a.by].tasks
    <2>. SUFFICES ASSUME NEW a \in answers'
                  PROVE  a.by \in DOMAIN posted /\ a.runs = QueuedFor(a.by)' /\ TasksOf(a.runs) = posted[a.by].tasks
      OBVIOUS
    <2>1. CASE a \in answers
      <3>1. a.by \in DOMAIN posted /\ a.runs = QueuedFor(a.by) /\ TasksOf(a.runs) = posted[a.by].tasks
        BY <2>1 DEF LaunchInv, AnswersInv
      <3>. QED BY <2>1, <3>1, <1>5, <1>7
    <2>2. CASE a = [by |-> i, runs |-> fresh]
      BY <2>2, <1>5
    <2>. QED BY <2>1, <2>2, <1>6
  <1>9. \A j \in DOMAIN posted' : QueuedFor(j)' # {} => /\ TasksOf(QueuedFor(j)') = posted'[j].tasks
                                                       /\ \E a \in answers' : a.by = j
    <2>. SUFFICES ASSUME NEW j \in DOMAIN posted, QueuedFor(j)' # {}
                  PROVE  TasksOf(QueuedFor(j)') = posted[j].tasks /\ \E a \in answers' : a.by = j
      OBVIOUS
    <2>1. CASE j = i
      <3>1. [by |-> i, runs |-> fresh] \in answers'
        BY <1>6
      <3>. QED BY <2>1, <3>1, <1>5
    <2>2. CASE j # i
      BY <2>2, <1>5, <1>6 DEF LaunchInv, AnswersInv
    <2>. QED BY <2>1, <2>2
  <1>10. AnswersInv'
    BY <1>8, <1>9 DEF AnswersInv, TasksOf
  <1>. QED BY <1>1, <1>4, <1>10 DEF LaunchInv

(* A request that has its runs answers them again.                          *)
LEMMA AnswersAgain ==
  ASSUME LaunchInv, NEW i \in DOMAIN posted, QueuedFor(i) # {}, Answer(i, QueuedFor(i)),
         UNCHANGED <<revisions, plans, planning, posted, runs>>
  PROVE  LaunchInv'
  <1>1. LaunchShape'
    BY DEF LaunchInv, LaunchShape
  <1>2. RunsInv'
    BY <1>1, RunsStay
  <1>3. \A j : QueuedFor(j)' = QueuedFor(j)
    BY DEF QueuedFor
  <1>4. TasksOf(QueuedFor(i)) = posted[i].tasks
    BY DEF LaunchInv, AnswersInv
  <1>5. answers' = answers \cup {[by |-> i, runs |-> QueuedFor(i)]}
    BY DEF Answer
  <1>6. \A a \in answers' : /\ a.by \in DOMAIN posted /\ a.runs = QueuedFor(a.by)
                            /\ TasksOf(a.runs) = posted[a.by].tasks
    BY <1>4, <1>5 DEF LaunchInv, AnswersInv
  <1>7. \A j \in DOMAIN posted : QueuedFor(j) # {} => /\ TasksOf(QueuedFor(j)) = posted[j].tasks
                                                      /\ \E a \in answers' : a.by = j
    BY <1>5 DEF LaunchInv, AnswersInv
  <1>8. AnswersInv'
    BY <1>3, <1>6, <1>7 DEF AnswersInv, TasksOf
  <1>. QED BY <1>1, <1>2, <1>8 DEF LaunchInv

LEMMA RequestIsTyped ==
  ASSUME LaunchInv, NEW i \in DOMAIN posted
  PROVE  /\ posted[i] \in PostRow /\ i \in Nat /\ LaunchShape
         /\ posted[i].kind # "batch" => \E t \in TaskRevisions : posted[i].tasks = {t}
  BY DEF LaunchInv, LaunchShape

(* create_run and create_manual_run queue the run of one plan.              *)
LEMMA OneRun ==
  ASSUME LaunchInv, NEW i \in DOMAIN posted, posted[i].kind # "batch", QueuedFor(i) = {},
         NEW ps \in SUBSET FitPlans, NEW p \in plans', p.state = "approved", p.id.task \in posted[i].tasks,
         plans' = plans \cup ps, UNCHANGED <<revisions, planning, posted>>,
         runs' = runs \cup {RunOf(p, i, NoTask)}, Answer(i, {RunOf(p, i, NoTask)})
  PROVE  LaunchInv'
  <1>. DEFINE run == RunOf(p, i, NoTask)
  <1>1. run.key = [by |-> i, task |-> NoTask] /\ run.plan = p.id /\ run.config = p.config
    BY DEF RunOf
  <1>. HIDE DEF run
  <1>2. run.key = KeyOf(i, run.plan.task) /\ OfApproved(run, plans')
    BY <1>1 DEF KeyOf, OfApproved
  <1>3. TasksOf({run}) = posted[i].tasks
    BY <1>1, RequestIsTyped DEF TasksOf
  <1>4. runs' = runs \cup {run} /\ Answer(i, {run})
    BY DEF run
  <1>. QED BY <1>2, <1>3, <1>4, QueueRuns

LEMMA SingleKeeps ==
  ASSUME LaunchInv, NEW i \in DOMAIN posted, AnswerAgain(i) \/ HandleRun(i) \/ HandleManual(i)
  PROVE  LaunchInv'
  <1>1. CASE AnswerAgain(i)
    BY <1>1, AnswersAgain DEF AnswerAgain
  <1>2. CASE HandleRun(i)
    <2>1. PICK p \in plans : /\ p.state = "approved" /\ p.id.task \in posted[i].tasks
                             /\ runs' = runs \cup {RunOf(p, i, NoTask)} /\ Answer(i, {RunOf(p, i, NoTask)})
      BY <1>2 DEF HandleRun
    <2>2. /\ posted[i].kind # "batch" /\ QueuedFor(i) = {} /\ plans' = plans \cup {} /\ p \in plans'
          /\ UNCHANGED <<revisions, planning, posted>>
      BY <1>2 DEF HandleRun
    <2>3. {} \in SUBSET FitPlans
      OBVIOUS
    <2>. QED BY <2>1, <2>2, <2>3, OneRun
  <1>3. CASE HandleManual(i)
    <2>0. PICK t \in posted[i].tasks : \E p \in NewPlan(i, t, "approved", posted[i].config) :
            /\ plans' = plans \cup {p}
            /\ runs' = runs \cup {RunOf(p, i, NoTask)} /\ Answer(i, {RunOf(p, i, NoTask)})
      BY <1>3 DEF HandleManual
    <2>1. PICK p \in NewPlan(i, t, "approved", posted[i].config) :
            /\ plans' = plans \cup {p}
            /\ runs' = runs \cup {RunOf(p, i, NoTask)} /\ Answer(i, {RunOf(p, i, NoTask)})
      BY <2>0
    <2>2. posted[i].kind # "batch" /\ QueuedFor(i) = {} /\ UNCHANGED <<revisions, planning, posted>>
      BY <1>3 DEF HandleManual
    <2>3. i \in Nat /\ t \in TaskRevisions /\ posted[i].config \in AskedRow /\ LaunchShape
      BY RequestIsTyped DEF PostRow
    <2>4. p \in FitPlans /\ p.id = [by |-> i, task |-> t] /\ p.state = "approved"
      BY <2>3, NewPlanFits
    <2>5. {p} \in SUBSET FitPlans /\ p \in plans' /\ p.id.task \in posted[i].tasks
      BY <2>1, <2>4
    <2>. QED BY <2>1, <2>2, <2>4, <2>5, OneRun
  <1>. QED BY <1>1, <1>2, <1>3

(* create_manual_batch queues every task of a batch at once; handled again, *)
(* it finds a run for each.                                                 *)
LEMMA BatchKeeps == ASSUME LaunchInv, NEW i \in DOMAIN posted, HandleBatch(i) PROVE LaunchInv'
  <1>. DEFINE q == posted[i]
              plan(t) == NewPlan(i, t, "approved", q.config)
              new == {t \in q.tasks : [by |-> i, task |-> t] \notin {run.key : run \in runs}}
              made == UNION {plan(t) : t \in new}
              fresh == {RunOf(p, i, p.id.task) : p \in made}
  <1>1. /\ q.kind = "batch" /\ \A t \in q.tasks : plan(t) # {}
        /\ plans' = plans \cup made /\ runs' = runs \cup fresh /\ Answer(i, QueuedFor(i) \cup fresh)
        /\ UNCHANGED <<revisions, planning, posted>>
    BY DEF HandleBatch
  <1>2. i \in Nat /\ q \in PostRow /\ q.config \in AskedRow /\ q.tasks \subseteq TaskRevisions /\ LaunchShape
    BY RequestIsTyped DEF PostRow
  <1>3. \A t \in q.tasks : \A p \in plan(t) :
          p \in FitPlans /\ p.id = [by |-> i, task |-> t] /\ p.id.task = t /\ p.state = "approved"
    <2>. SUFFICES ASSUME NEW t \in q.tasks, NEW p \in plan(t)
                  PROVE  p \in FitPlans /\ p.id = [by |-> i, task |-> t] /\ p.id.task = t /\ p.state = "approved"
      OBVIOUS
    <2>1. p \in FitPlans /\ p.id = [by |-> i, task |-> t] /\ p.state = "approved"
      BY <1>2, NewPlanFits
    <2>. QED BY <2>1
  <1>4. \A t \in q.tasks : \A p, o \in plan(t) : p = o
    BY NewPlanOnce
  <1>5. \A t : KeyOf(i, t) = [by |-> i, task |-> t]
    BY <1>1 DEF KeyOf
  <1>. HIDE DEF plan
  <1>6. CASE QueuedFor(i) # {}
    <2>1. TasksOf(QueuedFor(i)) = q.tasks
      BY <1>6 DEF LaunchInv, AnswersInv
    <2>2. ASSUME NEW t \in q.tasks PROVE t \notin new
      <3>1. PICK run \in QueuedFor(i) : run.plan.task = t
        BY <2>1 DEF TasksOf
      <3>2. run \in runs /\ run.key.by = i
        BY DEF QueuedFor
      <3>3. run.key = KeyOf(i, t)
        BY <3>1, <3>2 DEF LaunchInv, RunsInv
      <3>. QED BY <3>2, <3>3, <1>5
    <2>3. new = {}
      BY <2>2
    <2>. HIDE DEF new
    <2>4. made = {} /\ fresh = {}
      BY <2>3
    <2>5. plans' = plans /\ runs' = runs /\ Answer(i, QueuedFor(i))
      BY <1>1, <2>4
    <2>. QED BY <1>1, <1>6, <2>5, AnswersAgain
  <1>7. CASE QueuedFor(i) = {}
    <2>1. new = q.tasks
      <3>1. \A run \in runs : run.key.by # i
        BY <1>7 DEF QueuedFor
      <3>2. \A t : [by |-> i, task |-> t].by = i
        OBVIOUS
      <3>. QED BY <3>1, <3>2
    <2>. HIDE DEF new
    <2>2. \A p \in made : \E t \in q.tasks : p \in plan(t)
      BY <2>1
    <2>3. made \in SUBSET FitPlans
      BY <2>2, <1>3
    <2>4. \A t \in q.tasks : \E p \in made : p.id.task = t
      <3>. SUFFICES ASSUME NEW t \in q.tasks PROVE \E p \in made : p.id.task = t
        OBVIOUS
      <3>1. PICK p \in plan(t) : TRUE
        BY <1>1
      <3>2. p \in made
        BY <2>1
      <3>. QED BY <3>2, <1>3
    <2>5. \A p, o \in made : p.id.task = o.id.task => p = o
      <3>. SUFFICES ASSUME NEW p \in made, NEW o \in made, p.id.task = o.id.task PROVE p = o
        OBVIOUS
      <3>1. PICK t \in q.tasks : p \in plan(t)
        BY <2>2
      <3>2. PICK u \in q.tasks : o \in plan(u)
        BY <2>2
      <3>3. p.id.task = t /\ o.id.task = u
        BY <3>1, <3>2, <1>3
      <3>. QED BY <3>1, <3>2, <3>3, <1>4
    <2>6. \A p \in made : p.id.task \in q.tasks /\ p.state = "approved" /\ p \in plans'
      <3>. SUFFICES ASSUME NEW p \in made
                    PROVE  p.id.task \in q.tasks /\ p.state = "approved" /\ p \in plans'
        OBVIOUS
      <3>1. p \in plans'
        BY <1>1
      <3>2. PICK t \in q.tasks : p \in plan(t)
        BY <2>2
      <3>3. p.id.task = t /\ p.state = "approved"
        BY <3>2, <1>3
      <3>. QED BY <3>1, <3>3
    <2>. HIDE DEF made
    <2>7. \A p : RunOf(p, i, p.id.task).plan = p.id /\ RunOf(p, i, p.id.task).config = p.config
                 /\ RunOf(p, i, p.id.task).key = [by |-> i, task |-> p.id.task]
      BY DEF RunOf
    <2>8. \A r \in fresh : \E p \in made : r = RunOf(p, i, p.id.task)
      OBVIOUS
    <2>9. \A p \in made : RunOf(p, i, p.id.task) \in fresh
      OBVIOUS
    <2>. HIDE DEF fresh
    <2>10. \A r \in fresh : r.key = KeyOf(i, r.plan.task) /\ OfApproved(r, plans')
      <3>. SUFFICES ASSUME NEW r \in fresh PROVE r.key = KeyOf(i, r.plan.task) /\ OfApproved(r, plans')
        OBVIOUS
      <3>1. PICK p \in made : r = RunOf(p, i, p.id.task)
        BY <2>8
      <3>2. r.plan = p.id /\ r.config = p.config /\ r.key = [by |-> i, task |-> p.id.task]
        BY <3>1, <2>7
      <3>3. r.key = KeyOf(i, r.plan.task)
        BY <3>2, <1>5
      <3>4. OfApproved(r, plans')
        BY <3>2, <2>6 DEF OfApproved
      <3>. QED BY <3>3, <3>4
    <2>11. TasksOf(fresh) = q.tasks
      <3>1. \A r \in fresh : r.plan.task \in q.tasks
        BY <2>6, <2>7, <2>8
      <3>2. \A t \in q.tasks : \E r \in fresh : r.plan.task = t
        BY <2>4, <2>7, <2>9
      <3>. QED BY <3>1, <3>2 DEF TasksOf
    <2>12. \A r, s \in fresh : r.plan.task = s.plan.task => r = s
      BY <2>5, <2>7, <2>8
    <2>13. Answer(i, fresh)
      BY <1>1, <1>7
    <2>. QED BY <1>1, <1>7, <2>3, <2>10, <2>11, <2>12, <2>13, QueueRuns
  <1>. QED BY <1>6, <1>7

LEMMA LaunchStart == LaunchInit => LaunchInv
  BY DEF LaunchInit, LaunchInv, LaunchShape, RunsInv, AnswersInv, NeedsOf, QueuedFor

LEMMA LaunchStep == LaunchInv /\ [LaunchesNext]_launchvars => LaunchInv'
  <1>. SUFFICES ASSUME LaunchInv, [LaunchesNext]_launchvars PROVE LaunchInv'
    OBVIOUS
  <1>1. CASE UNCHANGED launchvars
    <2>1. LaunchShape'
      BY <1>1 DEF launchvars, LaunchInv, LaunchShape
    <2>. QED BY <1>1, <2>1, NothingQueued DEF launchvars
  <1>2. CASE \/ SyncRepository \/ \E t \in TaskRevisions : SyncRevision(t)
             \/ \E t \in TaskRevisions, n \in Needs : PostRevision(t, n)
    BY <1>2, RegistryKeeps
  <1>3. CASE \/ PlanWrite \/ \E t \in TaskRevisions, c \in Configs : PlanRead(t, c)
             \/ \E p \in plans : ApprovePlan(p)
    BY <1>3, PlansKeep
  <1>4. CASE \/ \E p \in plans : PostRun(p)
             \/ \E selected \in SUBSET TaskRevisions, c \in Configs : Launch(selected, c)
    BY <1>4, AskKeeps
  <1>5. ASSUME NEW i \in DOMAIN posted, AnswerAgain(i) \/ HandleRun(i) \/ HandleManual(i) PROVE LaunchInv'
    BY <1>5, SingleKeeps
  <1>6. ASSUME NEW i \in DOMAIN posted, HandleBatch(i) PROVE LaunchInv'
    BY <1>6, BatchKeeps
  <1>. QED BY <1>1, <1>2, <1>3, <1>4, <1>5, <1>6 DEF LaunchesNext

LEMMA LaunchFits == LaunchInv => RunsFitTheirTask
  <1>. SUFFICES ASSUME LaunchInv, NEW run \in runs
                PROVE  \E p \in plans :
                         /\ p.id = run.plan /\ p.state = "approved" /\ p.config = run.config
                         /\ run.config.volume >= p.needs.storage
                         /\ \E i \in DOMAIN Machines : /\ Machines[i].name = run.config.machine
                                                       /\ Machines[i].size \notin 1..(p.needs.size - 1)
    BY DEF RunsFitTheirTask
  <1>1. PICK p \in plans : p.id = run.plan /\ p.state = "approved" /\ p.config = run.config
    BY DEF LaunchInv, RunsInv, OfApproved
  <1>2. Fits(p)
    BY DEF LaunchInv, LaunchShape, FitPlans
  <1>. QED BY <1>1, <1>2 DEF Fits

(* One run for each task is as many runs as tasks.                          *)
LEMMA AsManyRuns ==
  ASSUME NEW rs, NEW tasks, IsFiniteSet(tasks), TasksOf(rs) = tasks,
         \A r, s \in rs : r.plan.task = s.plan.task => r = s
  PROVE  Cardinality(rs) = Cardinality(tasks)
  <1>. DEFINE f == [t \in tasks |-> CHOOSE r \in rs : r.plan.task = t]
  <1>1. \A t \in tasks : f[t] \in rs /\ f[t].plan.task = t
    BY DEF TasksOf
  <1>2. \A r \in rs : r.plan.task \in tasks /\ f[r.plan.task] = r
    BY <1>1 DEF TasksOf
  <1>3. f \in [tasks -> rs]
    BY <1>1
  <1>. HIDE DEF f
  <1>4. f \in Bijection(tasks, rs)
    BY <1>1, <1>2, <1>3 DEF Bijection, Injection, Surjection, IsInjective
  <1>5. ExistsBijection(tasks, rs)
    BY <1>4 DEF ExistsBijection
  <1>. QED BY <1>5, FS_Bijection

LEMMA LaunchOnce == LaunchInv => RunsAreQueuedOnce
  <1>. SUFFICES ASSUME LaunchInv PROVE RunsAreQueuedOnce
    OBVIOUS
  <1>1. ASSUME NEW a \in answers
        PROVE  /\ a.runs = QueuedFor(a.by) /\ TasksOf(a.runs) = posted[a.by].tasks
               /\ Cardinality(a.runs) = Cardinality(posted[a.by].tasks)
    <2>1. a.by \in DOMAIN posted /\ a.runs = QueuedFor(a.by) /\ TasksOf(a.runs) = posted[a.by].tasks
      BY DEF LaunchInv, AnswersInv
    <2>2. \A r, s \in a.runs : r.plan.task = s.plan.task => r = s
      BY <2>1 DEF LaunchInv, RunsInv, QueuedFor
    <2>3. IsFiniteSet(TaskRevisions)
      BY LaunchAssumption
    <2>4. posted[a.by].tasks \subseteq TaskRevisions
      BY <2>1, RequestIsTyped DEF PostRow
    <2>5. IsFiniteSet(posted[a.by].tasks)
      BY <2>3, <2>4, FS_Subset
    <2>. QED BY <2>1, <2>2, <2>5, AsManyRuns
  <1>. QED BY <1>1 DEF RunsAreQueuedOnce, TasksOf, LaunchInv, AnswersInv

(* For any tasks, machines, plans and requests, handled however often, and  *)
(* whatever the registry says in between: a run is of an approved plan,     *)
(* keeps its configuration and fits the task (resolve_instance_config).     *)
THEOREM RunsFit == LaunchSpec => []RunsFitTheirTask
  <1>. QED BY LaunchStart, LaunchStep, LaunchFits, PTL DEF LaunchSpec

(***************************************************************************)
(*                        The dashboard's requests                         *)
(***************************************************************************)
NothingIssued == creds = [u \in Users |-> [k \in Kinds |-> <<>>]]
RequestsInv ==
  /\ IF page = "users" THEN BatchInv ELSE NothingIssued
  /\ MailInv /\ LaunchInv

LEMMA RequestsStart == Init => RequestsInv
  BY BatchStart, MailStart, LaunchStart DEF Init, NoInvitations, RequestsInv, NothingIssued

LEMMA RequestsStep == RequestsInv /\ [Next]_vars => RequestsInv'
  <1>. SUFFICES ASSUME RequestsInv, [Next]_vars PROVE RequestsInv'
    OBVIOUS
  <1>1. /\ page' = page /\ [MailNext]_mvars /\ [LaunchesNext]_launchvars
        /\ IF page = "users" THEN [InvitationNext]_ivars ELSE UNCHANGED ivars
    BY DEF Next, vars, ShellPage, UsersPage, MailPage, TasksPage, ReviewersPage
  <1>2. MailInv' /\ LaunchInv'
    BY <1>1, MailStep, LaunchStep DEF RequestsInv
  <1>3. CASE page = "users"
    BY <1>1, <1>2, <1>3, BatchStep DEF RequestsInv
  <1>4. CASE page # "users"
    BY <1>1, <1>2, <1>4 DEF RequestsInv, NothingIssued, ivars
  <1>. QED BY <1>3, <1>4

(* A request that is sent again because its answer was lost acts once: a    *)
(* batch of invitations, a mail, and a run or a batch of runs, for any      *)
(* number of each (the three Idempotency-Keys of the dashboard).            *)
THEOREM RetriesAreHarmless == Spec => []RetriesActOnce
  <1>1. RequestsInv => RetriesActOnce
    <2>. SUFFICES ASSUME RequestsInv PROVE RetriesActOnce
      OBVIOUS
    <2>1. CASE page = "users"
      BY <2>1, BatchImplies, MailImplies, LaunchOnce DEF RequestsInv, RetriesActOnce
    <2>2. CASE NothingIssued
      <3>1. BatchIsIssuedOnce
        BY <2>2 DEF NothingIssued, BatchIsIssuedOnce, Kinds
      <3>. QED BY <3>1, MailImplies, LaunchOnce DEF RequestsInv, RetriesActOnce
    <2>. QED BY <2>1, <2>2 DEF RequestsInv
  <1>. QED BY <1>1, RequestsStart, RequestsStep, PTL DEF Spec

(***************************************************************************)
(*                          The whole dashboard                            *)
(***************************************************************************)
(* A step of the dashboard is a step of one panel and a stutter of the      *)
(* others; whoever is not on the page of the users touches no credential.   *)
LEMMA PanelsApart ==
  [Next]_vars => /\ page' = page
                 /\ [ShellNext]_shellvars /\ [PanelNext]_panelvars
                 /\ [LaunchesNext]_launchvars /\ [MailNext]_mvars
                 /\ (page = "users" /\ [InvitationNext]_ivars) \/ UNCHANGED ivars
  BY DEF Next, vars, ShellPage, UsersPage, MailPage, TasksPage, ReviewersPage

(* The dashboard implements the specification of each panel with state of   *)
(* its own (the mail composer has no name for its own): what is proved of a *)
(* panel holds of the dashboard.                                            *)
THEOREM DashboardKeepsPanels ==
  Spec => /\ ShellSpec /\ PanelSpec /\ LaunchSpec
          /\ MailInit /\ [][MailNext]_mvars
  <1>1. Init => ShellInit /\ PanelInit /\ LaunchInit /\ MailInit
    BY DEF Init
  <1>. QED BY <1>1, PanelsApart, PTL DEF Spec, ShellSpec, PanelSpec, LaunchSpec

(* On the page of the users the invariant of the credentials holds; on the  *)
(* others there is none.                                                    *)
LEMMA NewestOnThePage == RequestsInv => OnlyNewestIsOpen
  <1>. SUFFICES ASSUME RequestsInv PROVE OnlyNewestIsOpen
    OBVIOUS
  <1>1. CASE page = "users"
    BY <1>1, InvitationImplies DEF RequestsInv, BatchInv
  <1>2. CASE NothingIssued
    BY <1>2 DEF NothingIssued, OnlyNewestIsOpen
  <1>. QED BY <1>1, <1>2 DEF RequestsInv

LEMMA SpentOnThePage == RequestsInv /\ [Next]_vars => [SpentFresh]_ivars
  <1>. SUFFICES ASSUME RequestsInv, [Next]_vars, ~ UNCHANGED ivars PROVE SpentFresh
    OBVIOUS
  <1>1. page = "users" /\ InvitationNext
    BY PanelsApart
  <1>. QED BY <1>1, SpentStep DEF RequestsInv, BatchInv

(* Everything the run of the dashboard checks holds for every number of     *)
(* accounts, applications, credentials, mails, tasks, machines, operations  *)
(* and reloads, and whatever is sent twice.                                 *)
THEOREM DashboardIsRight ==
  Spec => /\ [](/\ UrlLeadsToView /\ OwnChangesAreShown
                /\ DecisionsAreForTheirApplicant /\ OnlyNewestIsOpen
                /\ RetriesActOnce /\ RunsFitTheirTask)
          /\ InvitesAreSpentFresh
  <1>1. Spec => []OnlyNewestIsOpen
    BY NewestOnThePage, RequestsStart, RequestsStep, PTL DEF Spec
  <1>2. Spec => InvitesAreSpentFresh
    BY SpentOnThePage, RequestsStart, RequestsStep, PTL DEF Spec, InvitesAreSpentFresh
  <1>. QED BY <1>1, <1>2, DashboardKeepsPanels, UrlAndViewAgree, OperationsAreShown,
              DecisionsStayTheirs, RetriesAreHarmless, RunsFit, PTL
=============================================================================
