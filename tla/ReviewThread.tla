---------------------------- MODULE ReviewThread ----------------------------
(***************************************************************************)
(* The reviews of one proposal taken together (website_dist/js/reviews.js, *)
(* latestPerReviewer and aggregate) and the panels that show them          *)
(* (pages/task-reviews.js).  The list comes from GitHub with this tab's    *)
(* own reviews behind it, so it is in no particular order, and a login is  *)
(* spelled in whatever case it was typed.                                  *)
(***************************************************************************)
EXTENDS Naturals, Sequences, FiniteSets, SequencesExt

CONSTANTS Logins,     \* reviewers, as lower-case logins
          Arriving,   \* bound: the reviews that may arrive
          MaxReviews  \* bound: reviews in the thread

VARIABLES thread   \* the items, in the order of the list

Recommendations == {"approved", "changes_requested", "rejected"}
Verdicts == Recommendations \cup {"undecided"}  \* a legacy reply whose decision is not one of them
(* at: created_at; login and upper: the login as it is spelled, with or    *)
(* without capitals; score: one of the criteria, 0 is not scored.          *)
ArrivingReview == [login: Logins, upper: BOOLEAN, decision: Verdicts, score: {0, 2}]
ReviewItem == [login: Logins, upper: BOOLEAN, at: 1..MaxReviews, decision: Verdicts, score: {0, 2}]

ASSUME ThreadAssumption == MaxReviews \in Nat /\ Arriving \subseteq ArrivingReview

ThreadTypeOK == thread \in Seq(ReviewItem) /\ Len(thread) <= MaxReviews

ThreadInit == thread = <<>>

ReviewArrives(r, place) ==
  /\ Len(thread) < MaxReviews /\ place \in 1..(Len(thread) + 1)
  /\ thread' = InsertAt(thread, place, [login |-> r.login, upper |-> r.upper, at |-> Len(thread) + 1,
                                        decision |-> r.decision, score |-> r.score])

ThreadNext == \E r \in Arriving, place \in 1..MaxReviews : ReviewArrives(r, place)

(* The list sorted: every place in it once.                                *)
Orders == Bijection(DOMAIN thread, DOMAIN thread)

(* Slip: sorted oldest first. *)
OldestFirst == CHOOSE order \in Orders : \A m, n \in DOMAIN thread :
                 m < n => thread[order[m]].at < thread[order[n]].at

(* Sorted newest first.                                                    *)
NewestFirst == CHOOSE order \in Orders : \A m, n \in DOMAIN thread :
                 m < n => thread[order[m]].at > thread[order[n]].at

(* latestPerReviewer: the first of each login counts, the others are its   *)
(* history.  Both as places in the list.                                   *)
LoginKey(item) == item.login
SameReviewer(i, j) == LoginKey(thread[i]) = LoginKey(thread[j])

Current ==
  LET order == NewestFirst
  IN [k \in {n \in DOMAIN order : \A m \in 1..(n - 1) : ~SameReviewer(order[m], order[n])} |-> order[k]]
CurrentItems == {Current[k] : k \in DOMAIN Current}
History(i) == {j \in DOMAIN thread \ {i} : SameReviewer(i, j)}

OwnLatest(login) == {i \in CurrentItems : LoginKey(thread[i]) = login}

(* aggregate: one tally for each recommendation, none for the undecided.   *)
Tally(d) == Cardinality({i \in CurrentItems : thread[i].decision = d})
Scored == {i \in CurrentItems : thread[i].score # 0}
LowestScore == IF Scored = {} THEN 0
               ELSE thread[CHOOSE i \in Scored : \A j \in Scored : thread[i].score <= thread[j].score].score

(* The panel: its count, its tallies, and what its button says.            *)
Panel(me) == [count |-> Cardinality(CurrentItems), tally |-> [d \in Recommendations |-> Tally(d)],
              lowest |-> LowestScore, button |-> IF OwnLatest(me) # {} THEN "Update" ELSE "Write"]

(***************************************************************************)
(* Every reviewer counts once and with the newest review, however the list *)
(* was put together and the login spelled; the tallies are of those, and   *)
(* with the reviewers whose newest review has no decision they add up to   *)
(* the count; and no review is lost from the page.                         *)
(***************************************************************************)
NewestReviewCounts ==
  LET newest == {i \in DOMAIN thread : \A j \in DOMAIN thread :
                   thread[j].login = thread[i].login => thread[j].at <= thread[i].at}
      Saying(d) == Cardinality({i \in newest : thread[i].decision = d})
  IN /\ CurrentItems = newest
     /\ CurrentItems \cup UNION {History(i) : i \in CurrentItems} = DOMAIN thread
     /\ \A me \in Logins :
          LET p == Panel(me)
          IN /\ p.count = Cardinality({thread[i].login : i \in DOMAIN thread})
             /\ \A d \in Recommendations : p.tally[d] = Saying(d)
             /\ p.tally["approved"] + p.tally["changes_requested"] + p.tally["rejected"]
                  + Saying("undecided") = p.count
             /\ p.lowest \in {thread[i].score : i \in newest} \cup {0}
             /\ p.button = "Update" <=> \E i \in newest : thread[i].login = me
=============================================================================
