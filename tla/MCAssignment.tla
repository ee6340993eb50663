----------------------------- MODULE MCAssignment -----------------------------
(***************************************************************************)
(* Reviewer assignment on a small instance.                                *)
(***************************************************************************)
EXTENDS ReviewerAssignment, TLC

(* Bound: two requests are served at once before a second application, and  *)
(* while one account and one topic are named.                              *)
NamesOnly(u, as, ps) ==
  /\ \A i \in DOMAIN as: as[i].user = u /\ as[i].github \in {u, NoLogin}
  /\ \A p \in DOMAIN ps: ps[p].author \in {u, NoLogin} /\ ps[p].topic \in AppliedFor

FewAtOnce ==
  \/ \E h \in Handlers: \A other \in Handlers \ {h}: sessions[other] = Idle
  \/ /\ Len(apps) <= 1
     /\ \E u \in Accounts:
          /\ NamesOnly(u, apps, proposals)
          /\ \A h \in Handlers: NamesOnly(u, sessions[h].held.apps, sessions[h].held.proposals)

(* Bound: a behaviour ends when the proposals are deleted and no dialog is open. *)
Over == dialog.target = NoProposal /\ \A p \in Proposals: ~proposals[p].live

Within == FewAtOnce /\ ~Over

(* Accounts, and handlers, are told apart by name only. *)
Symmetry == Permutations(Accounts) \cup Permutations(Handlers)
===============================================================================
