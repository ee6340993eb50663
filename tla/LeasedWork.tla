----------------------------- MODULE LeasedWork -----------------------------
(***************************************************************************)
(* What the job queue promises, without rows, clocks or runner steps: a    *)
(* piece of work is held by one runner at a time, only its holder settles  *)
(* it, somebody else takes it only after the hold has lapsed and only      *)
(* while tries are left, and it is settled for good, as done or, with all  *)
(* tries used, as dead.                                                    *)
(***************************************************************************)
EXTENDS Naturals

CONSTANTS Items, Holders, Nobody, Limit

VARIABLE item     \* item[i]: status, tries and holder of i

Status == {"absent", "open", "held", "lapsed", "done", "dead"}

Init == item = [i \in Items |-> [status |-> "absent", tries |-> 0, holder |-> Nobody]]

(* Several items may be submitted at once; one already known is kept. *)
Submit ==
    \E S \in SUBSET {i \in Items : item[i].status = "absent"} :
        item' = [i \in Items |-> IF i \in S THEN [item[i] EXCEPT !.status = "open"]
                                            ELSE item[i]]

Take(h, i) ==
    /\ item[i].status \in {"open", "lapsed"}
    /\ item[i].tries < Limit
    /\ item' = [item EXCEPT ![i] = [status |-> "held", tries |-> item[i].tries + 1,
                                    holder |-> h]]

Lapse(i) ==
    /\ item[i].status = "held"
    /\ item' = [item EXCEPT ![i].status = "lapsed"]

Holds(h, i) == item[i].status \in {"held", "lapsed"} /\ item[i].holder = h

Settle(i, status, tries) ==
    item' = [item EXCEPT ![i] = [status |-> status, tries |-> tries, holder |-> Nobody]]

Done(h, i)   == Holds(h, i) /\ Settle(i, "done", item[i].tries)
Retry(h, i)  == Holds(h, i) /\ item[i].tries < Limit /\ Settle(i, "open", item[i].tries)
Bury(h, i)   == Holds(h, i) /\ item[i].tries = Limit /\ Settle(i, "dead", Limit)
Return(h, i) == Holds(h, i) /\ item[i].tries > 0 /\ Settle(i, "open", item[i].tries - 1)

Next ==
    \/ Submit
    \/ \E i \in Items : Lapse(i)
    \/ \E h \in Holders, i \in Items :
          Take(h, i) \/ Done(h, i) \/ Retry(h, i) \/ Bury(h, i) \/ Return(h, i)

Spec == Init /\ [][Next]_item
=============================================================================
