---------------------------- MODULE ReviewDrawer ----------------------------
(***************************************************************************)
(* Reviews on the page of one proposal: the review drawer with its drafts  *)
(* (website_dist/js/pages/task-reviews.js), the list of reviews read from  *)
(* the GitHub Discussion (discussion.js), and the page that repaints them  *)
(* (pages/task-detail.js).  A drawer that is closed leaves its autosave    *)
(* timer and its publication running: drawers are therefore kept, in the   *)
(* order they were opened, and `open` names the one on screen, 0 if none.  *)
(* A text is the number of the edit that produced it, 0 the blank form.    *)
(***************************************************************************)
EXTENDS Naturals, Sequences, FiniteSets

CONSTANTS Reviewers, Nobody,
          MaxTexts, MaxDrawers, MaxReplies,  \* bounds: edits, drawers opened, reviews published,
          MaxLoads                           \* reads of the Discussion in flight

ASSUME DrawerAssumption == /\ Nobody \notin Reviewers
                           /\ MaxTexts \in Nat /\ MaxDrawers \in Nat /\ MaxReplies \in Nat /\ MaxLoads \in Nat

VARIABLES reader,       \* ctx.user: an approved reviewer, or nobody
          typed,      \* the reviewer who typed each text
          drafts,     \* localStorage, one draft per reviewer
          drawers, open,
          replies,    \* the reviews on the Discussion, oldest first
          published,  \* sessionStorage: reviews this tab published
          cached,     \* sessionStorage: the last list read
          loaded,     \* the page's list: its status and its items
          loads,      \* reads of the Discussion in flight: how many replies each found
          latest      \* the task's latest review, as the page's copy has it

dvars == <<reader, typed, drafts, drawers, open, replies, published, cached,
           loaded, loads, latest>>
writing == <<typed, drafts, drawers, open>>
reading == <<published, cached, loaded, loads, latest>>

Text == 0..MaxTexts
Item == 1..MaxReplies
Drawer == [by: Reviewers, text: Text, sent: Text, timer: BOOLEAN, reply: 0..MaxReplies,
           phase: {"editing", "posting", "accepted", "refused", "done"}]
(* local: only what this tab published, kept until the first read answers. *)
List == [status: {"none", "local", "ready", "fallback"}, items: SUBSET Item]

DrawerTypeOK ==
  /\ reader \in Reviewers \cup {Nobody} /\ typed \in Seq(Reviewers) /\ Len(typed) <= MaxTexts
  /\ drafts \in [Reviewers -> Text] /\ drawers \in Seq(Drawer) /\ Len(drawers) <= MaxDrawers
  /\ open \in 0..Len(drawers) /\ replies \in Seq([by: Reviewers, text: Text])
  /\ published \subseteq Item /\ cached \in List
  /\ loaded \in List /\ loads \subseteq 0..MaxReplies /\ latest \in 0..MaxReplies

NothingLoaded == [status |-> "none", items |-> {}]

DrawerInit ==
  /\ reader \in Reviewers \cup {Nobody} /\ typed = <<>> /\ drafts = [r \in Reviewers |-> 0]
  /\ drawers = <<>> /\ open = 0 /\ replies = <<>> /\ published = {} /\ cached = NothingLoaded
  /\ loaded = NothingLoaded /\ loads = {} /\ latest = 0

(* openReviewDrawer: the stored draft, else a blank form; mounting fires an *)
(* input event, which starts the autosave timer.                           *)
OpenDrawer ==
  /\ loaded.status # "none" \/ loads # {}  \* the page has rendered
  /\ reader # Nobody /\ open = 0 /\ Len(drawers) < MaxDrawers
  /\ drawers' = Append(drawers, [by |-> reader, text |-> drafts[reader], sent |-> 0,
                                 timer |-> TRUE, reply |-> 0, phase |-> "editing"])
  /\ open' = Len(drawers) + 1
  /\ UNCHANGED <<reader, typed, drafts, replies, reading>>

Shown == open # 0 /\ drawers[open].phase # "done"
Edited(n) == drawers' = [drawers EXCEPT ![open].text = n, ![open].timer = TRUE]

(* The person types, clears the form, or starts from the previous review.  *)
TypeText == /\ Shown /\ Len(typed) < MaxTexts
            /\ typed' = Append(typed, drawers[open].by) /\ Edited(Len(typed) + 1)
            /\ UNCHANGED <<reader, drafts, open, replies, reading>>

ClearForm == /\ Shown /\ drawers[open].text # 0 /\ Edited(0)
             /\ UNCHANGED <<reader, typed, drafts, open, replies, reading>>

(* Discard draft, and Start over on a restored one.                        *)
Discard == /\ Shown /\ drawers[open].phase = "editing" /\ Edited(0)
           /\ drafts' = [drafts EXCEPT ![drawers[open].by] = 0]
           /\ UNCHANGED <<reader, typed, open, replies, reading>>

(* Slip: the draft is stored for whoever is signed in when the timer fires. *)
AutosaveForReader(d) ==
  /\ drawers[d].timer /\ \A e \in 1..(d - 1) : ~drawers[e].timer
  /\ drafts' = [drafts EXCEPT ![IF reader = Nobody THEN drawers[d].by ELSE reader] = drawers[d].text]
  /\ drawers' = [drawers EXCEPT ![d].timer = FALSE]
  /\ UNCHANGED <<reader, typed, open, replies, reading>>

(* Timers of 500 ms run out in the order of the drawers; a closed drawer's *)
(* form is still read.  A blank form clears the draft.                     *)
Autosave(d) ==
  /\ drawers[d].timer /\ \A e \in 1..(d - 1) : ~drawers[e].timer
  /\ drafts' = [drafts EXCEPT ![drawers[d].by] = drawers[d].text]
  /\ drawers' = [drawers EXCEPT ![d].timer = FALSE]
  /\ UNCHANGED <<reader, typed, open, replies, reading>>

(* closeReviewDrawer: the close button, Escape, or Done.                   *)
CloseDrawer == /\ open # 0 /\ open' = 0
               /\ UNCHANGED <<reader, typed, drafts, drawers, replies, reading>>

(* Submit of a form that validates.                                        *)
PublishReview ==
  /\ Shown /\ drawers[open].phase = "editing" /\ drawers[open].text # 0
  /\ drafts' = [drafts EXCEPT ![drawers[open].by] = drawers[open].text]
  /\ drawers' = [drawers EXCEPT ![open].phase = "posting", ![open].sent = drawers[open].text]
  /\ UNCHANGED <<reader, typed, open, replies, reading>>

(* The control plane posts the reply as the account the session cookie has  *)
(* when the request arrives, which another tab may have changed, or refuses; *)
(* a lost answer of an accepted review is a refusal to the page.           *)
Post(d) ==
  /\ drawers[d].phase = "posting"
  /\ \/ /\ Len(replies) < MaxReplies
        /\ \E u \in Reviewers : replies' = Append(replies, [by |-> u, text |-> drawers[d].sent])
        /\ \E p \in {"accepted", "refused"} :
             drawers' = [drawers EXCEPT ![d].phase = p, ![d].reply = IF p = "accepted" THEN Len(replies') ELSE 0]
     \/ drawers' = [drawers EXCEPT ![d].phase = "refused"] /\ UNCHANGED replies
  /\ UNCHANGED <<reader, typed, drafts, open, reading>>

(* addLocal and rememberPublished.                                         *)
AddLocal(i) ==
  /\ loaded' = [status |-> IF loaded.status = "none" THEN "local" ELSE loaded.status,
                items |-> loaded.items \cup {i}]
  /\ published' = published \cup {i}
  /\ cached' = IF cached.status = "none" THEN cached ELSE [cached EXCEPT !.items = @ \cup {i}]

(* The answer of an accepted review.  With the drawer closed meanwhile,    *)
(* showPublished reads drawerEl of nothing and throws before onPublished.  *)
PublishAnswered(d) ==
  /\ drawers[d].phase = "accepted"
  /\ drafts' = [drafts EXCEPT ![drawers[d].by] = 0]
  /\ AddLocal(drawers[d].reply) /\ latest' = drawers[d].reply
  /\ drawers' = [drawers EXCEPT ![d].phase = IF open = 0 THEN "editing" ELSE "done"]
  /\ UNCHANGED <<reader, typed, open, replies, loads>>

PublishRefused(d) == /\ drawers[d].phase = "refused"
                     /\ drawers' = [drawers EXCEPT ![d].phase = "editing"]
                     /\ UNCHANGED <<reader, typed, drafts, open, replies, reading>>

(* authchange: the drawer closes and the page renders for the new user.    *)
UserChanges(u) == /\ reader # u /\ reader' = u /\ open' = 0
                  /\ UNCHANGED <<typed, drafts, drawers, replies, reading>>

(* loadReviews.  Started while nothing is loaded or, by Try again, while   *)
(* the list is a fallback (then past the cache); GitHub answers from its   *)
(* own cache: some prefix of the replies.                                  *)
StartLoad ==
  /\ \/ /\ loaded.status = "none" /\ cached.status = "ready"
        /\ loaded' = cached /\ UNCHANGED loads
     \/ /\ loaded.status = "fallback" \/ (loaded.status = "none" /\ cached.status = "none")
        /\ Cardinality(loads) < MaxLoads
        /\ \E n \in 0..Len(replies) : loads' = loads \cup {n}
        /\ UNCHANGED loaded
  /\ UNCHANGED <<reader, writing, replies, published, cached, latest>>

(* Slip: the list is what GitHub answered. *)
MergedNothing(n) == 1..n

(* The list is what GitHub answered and what this tab published since.     *)
Merged(n) == (1..n) \cup published

LoadAnswered(n) ==
  /\ loads' = loads \ {n}
  /\ \/ /\ cached' = [status |-> "ready", items |-> Merged(n)]
        /\ loaded' = cached'
     \/ /\ loaded' = [status |-> "fallback", items |-> {latest} \ {0}]
        /\ UNCHANGED cached
  /\ UNCHANGED <<reader, writing, replies, published, latest>>

(* The cached list is older than two minutes; the page is loaded anew.     *)
CacheExpires == /\ cached.status = "ready" /\ cached' = NothingLoaded
                /\ UNCHANGED <<reader, writing, replies, published, loaded, loads, latest>>

ReloadPage == /\ loaded.status # "none" /\ open = 0
              /\ drawers' = <<>> /\ loaded' = NothingLoaded
              /\ loads' = {} /\ latest' = Len(replies)
              /\ UNCHANGED <<reader, typed, drafts, open, replies, published, cached>>

DrawerNext ==
  \/ OpenDrawer \/ TypeText \/ ClearForm \/ Discard \/ CloseDrawer \/ PublishReview
  \/ StartLoad \/ CacheExpires \/ ReloadPage
  \/ \E u \in Reviewers \cup {Nobody} : UserChanges(u)
  \/ \E d \in DOMAIN drawers : Autosave(d) \/ Post(d) \/ PublishAnswered(d) \/ PublishRefused(d)
  \/ \E n \in loads : LoadAnswered(n)

(***************************************************************************)
(* A review this tab published stays in every list read from the           *)
(* Discussion, however old GitHub's answer is and whenever it comes.       *)
(***************************************************************************)
OwnReviewsStayListed ==
  /\ loaded.status = "ready" => published \subseteq loaded.items
  /\ cached.status = "ready" => published \subseteq cached.items

(***************************************************************************)
(* Drafts are per reviewer: what is stored for a reviewer was typed by that *)
(* reviewer, although an autosave may fire after the account has changed.  *)
(***************************************************************************)
DraftsAreOwn == \A r \in Reviewers : drafts[r] # 0 => typed[drafts[r]] = r

DrawerSpec == DrawerInit /\ [][DrawerNext]_dvars
=============================================================================
