----------------------- MODULE MCAIReviewPublication -----------------------
(* The instance of AIReviewPublication that TLC checks. *)
EXTENDS AIReviewPublication, TLC

(* The deliveries that MaxReviews reviews and MaxAssigns assignments can   *)
(* enqueue.                                                                *)
AllDeliveries ==
    ((1 .. MaxReviews) \X {"github", "discord"} \X {0})
    \cup ((1 .. MaxReviews) \X {"github"} \X (1 .. MaxAssigns))

Symmetry == Permutations(Runners)

(* Bound: one review is explored with every attempt, and with a crash and a *)
(* resend or recovery, both if one runner is at work at a time; a second   *)
(* review and an assignment where no delivery comes up for a second attempt *)
(* (a busy publication gives the attempt back).                            *)
OneAtWork == \E w \in Runners : \A other \in Runners \ {w} : pc[other] = "idle"

OneReview == latest <= 1 /\ assigned = 0 /\ (crashes + requests <= 1 \/ OneAtWork)

FirstTries ==
    /\ crashes = 0 /\ requests = 0
    /\ \A d \in Deliveries : out[d].attempts <= IF Candidate(d) THEN 0 ELSE 1

Within == OneReview \/ FirstTries
=============================================================================
