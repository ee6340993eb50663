------------------------------ MODULE PageProofs ------------------------------
(***************************************************************************)
(* What people write on the pages of the site, for any number of           *)
(* reviewers, texts, drawers, versions, edits, domains, tasks and pushes:  *)
(* drafts and published reviews are their author's own and stay listed,    *)
(* the editor of a proposal and the submission form lose nothing, a task   *)
(* is checked by the rules for what existed before its PR, every reviewer  *)
(* counts once, and the board tells one story.                             *)
(***************************************************************************)
EXTENDS MCWebsite, FiniteSetTheorems, WellFoundedInduction, TLAPS

(***************************************************************************)
(*                            The review drawer                            *)
(***************************************************************************)
(* The text is followed through the drawers: what a drawer shows was typed  *)
(* by the reviewer it was opened for, whoever is signed in by now.          *)
Phases == {"editing", "posting", "accepted", "refused", "done"}
DrawerRow == [by: Reviewers, text: Nat, sent: Nat, timer: BOOLEAN, reply: Nat, phase: Phases]
ReplyRow == [by: Reviewers, text: Nat]

Shape ==
  /\ reader \in Reviewers \cup {Nobody} /\ typed \in Seq(Reviewers)
  /\ drafts \in [Reviewers -> Nat] /\ drawers \in Seq(DrawerRow)
  /\ open \in 0..Len(drawers) /\ replies \in Seq(ReplyRow)

(* A text that was typed, by r.                                            *)
TypedBy(t, r) == t \in 1..Len(typed) /\ typed[t] = r

OwnDrafts == \A r \in Reviewers : drafts[r] # 0 => TypedBy(drafts[r], r)

OwnDrawers ==
  \A d \in 1..Len(drawers) : drawers[d].text # 0 => TypedBy(drawers[d].text, drawers[d].by)

DrawerInv == Shape /\ OwnDrafts /\ OwnDrawers

-----------------------------------------------------------------------------
(* The invariant implies the property the run checks.                      *)
LEMMA InvImpliesOwn == DrawerInv => DraftsAreOwn
  BY DEF DrawerInv, OwnDrafts, TypedBy, DraftsAreOwn

(* Nothing is typed, drafted or opened at the start.                       *)
LEMMA InitHasInv == DrawerInit => DrawerInv
  <1>. SUFFICES ASSUME DrawerInit PROVE DrawerInv
    OBVIOUS
  <1>1. Shape
    BY DEF DrawerInit, Shape
  <1>2. OwnDrafts
    BY DEF DrawerInit, OwnDrafts
  <1>3. Len(drawers) = 0
    BY DEF DrawerInit
  <1>4. OwnDrawers
    BY <1>3 DEF OwnDrawers
  <1>. QED BY <1>1, <1>2, <1>4 DEF DrawerInv

(* A drawer that keeps its text, and one that is changed at one place.     *)
LEMMA DrawerChanged ==
  ASSUME DrawerInv, NEW d \in 1..Len(drawers), NEW row \in DrawerRow,
         drawers' = [drawers EXCEPT ![d] = row], typed' = typed,
         row.by = drawers[d].by,
         row.text # 0 => TypedBy(row.text, row.by)
  PROVE  drawers' \in Seq(DrawerRow) /\ Len(drawers') = Len(drawers) /\ OwnDrawers'
  <1>1. drawers \in Seq(DrawerRow)
    BY DEF DrawerInv, Shape
  <1>2. drawers' \in Seq(DrawerRow) /\ Len(drawers') = Len(drawers)
    BY <1>1
  <1>3. \A e \in 1..Len(drawers) : drawers'[e] = IF e = d THEN row ELSE drawers[e]
    BY <1>1
  <1>4. OwnDrawers'
    BY <1>2, <1>3 DEF DrawerInv, OwnDrawers, TypedBy
  <1>. QED BY <1>2, <1>4

-----------------------------------------------------------------------------
LEMMA OpenKeeps == DrawerInv /\ OpenDrawer => DrawerInv'
  <1>. SUFFICES ASSUME DrawerInv, OpenDrawer PROVE DrawerInv'
    OBVIOUS
  <1>. DEFINE row == [by |-> reader, text |-> drafts[reader], sent |-> 0,
                      timer |-> TRUE, reply |-> 0, phase |-> "editing"]
  <1>1. reader \in Reviewers /\ drawers \in Seq(DrawerRow) /\ drafts \in [Reviewers -> Nat]
    BY DEF DrawerInv, Shape, OpenDrawer
  <1>2. row \in DrawerRow
    BY <1>1 DEF DrawerRow, Phases
  <1>3. drawers' = Append(drawers, row) /\ open' = Len(drawers) + 1
        /\ UNCHANGED <<reader, typed, drafts, replies>>
    BY DEF OpenDrawer, reading
  <1>4. drawers' \in Seq(DrawerRow) /\ Len(drawers') = Len(drawers) + 1
        /\ \A d \in 1..Len(drawers') : drawers'[d] = IF d = Len(drawers) + 1 THEN row ELSE drawers[d]
    BY <1>1, <1>2, <1>3
  <1>5. Shape'
    BY <1>3, <1>4 DEF DrawerInv, Shape
  <1>6. row.text # 0 => TypedBy(row.text, row.by)
    BY <1>1 DEF DrawerInv, OwnDrafts
  <1>. HIDE DEF row
  <1>8. OwnDrawers'
    <2>. SUFFICES ASSUME NEW d \in 1..Len(drawers')
                  PROVE  drawers'[d].text # 0 => TypedBy(drawers'[d].text, drawers'[d].by)
      BY <1>3 DEF OwnDrawers, TypedBy
    <2>1. CASE d = Len(drawers) + 1
      BY <2>1, <1>4, <1>6
    <2>2. CASE d # Len(drawers) + 1
      <3>1. d \in 1..Len(drawers) /\ drawers'[d] = drawers[d]
        BY <2>2, <1>1, <1>4
      <3>. QED BY <3>1 DEF DrawerInv, OwnDrawers
    <2>. QED BY <2>1, <2>2
  <1>9. OwnDrafts'
    BY <1>3 DEF DrawerInv, OwnDrafts, TypedBy
  <1>. QED BY <1>5, <1>8, <1>9 DEF DrawerInv

(* A drawer is a row of the invariant's shape.                              *)
LEMMA RowFields ==
  ASSUME DrawerInv, NEW d \in 1..Len(drawers)
  PROVE  drawers[d] \in DrawerRow
  BY DEF DrawerInv, Shape

LEMMA ShownIsOpen == DrawerInv /\ Shown => open \in 1..Len(drawers)
  BY DEF DrawerInv, Shape, Shown

LEMMA TypeKeeps == DrawerInv /\ TypeText => DrawerInv'
  <1>. SUFFICES ASSUME DrawerInv, TypeText PROVE DrawerInv'
    OBVIOUS
  <1>. DEFINE n == Len(typed) + 1
              row == [drawers[open] EXCEPT !.text = n, !.timer = TRUE]
              TypedNow(t, r) == t \in 1..Len(typed') /\ typed'[t] = r
  <1>1. open \in 1..Len(drawers) /\ drawers[open] \in DrawerRow
    BY ShownIsOpen, RowFields DEF TypeText
  <1>2. typed \in Seq(Reviewers) /\ drawers \in Seq(DrawerRow) /\ replies \in Seq(ReplyRow)
        /\ drafts \in [Reviewers -> Nat] /\ n \in Nat
    BY DEF DrawerInv, Shape
  <1>3. typed' = Append(typed, drawers[open].by) /\ UNCHANGED <<reader, drafts, open, replies>>
    BY DEF TypeText
  <1>4. drawers[open].by \in Reviewers
    BY <1>1 DEF DrawerRow
  <1>5. typed' \in Seq(Reviewers) /\ Len(typed') = n /\ typed'[n] = drawers[open].by
        /\ \A t \in 1..Len(typed) : typed'[t] = typed[t]
    BY <1>2, <1>3, <1>4
  <1>6. \A t, r : TypedBy(t, r) => TypedNow(t, r)
    BY <1>2, <1>5 DEF TypedBy
  <1>7. drawers' = [drawers EXCEPT ![open].text = n, ![open].timer = TRUE]
    BY DEF TypeText, Edited
  <1>. HIDE DEF n
  <1>8. drawers' = [drawers EXCEPT ![open] = row]
    BY <1>1, <1>2, <1>7 DEF DrawerRow
  <1>9. row \in DrawerRow /\ row.by = drawers[open].by /\ row.text = n
    BY <1>1, <1>2 DEF DrawerRow
  <1>. HIDE DEF row
  <1>10. drawers' \in Seq(DrawerRow) /\ Len(drawers') = Len(drawers)
         /\ \A d \in 1..Len(drawers) : drawers'[d] = IF d = open THEN row ELSE drawers[d]
    BY <1>1, <1>2, <1>8, <1>9
  <1>11. Shape'
    BY <1>2, <1>3, <1>5, <1>10 DEF DrawerInv, Shape
  <1>12. OwnDrafts'
    BY <1>3, <1>6 DEF DrawerInv, OwnDrafts, TypedBy
  <1>13. \A d \in 1..Len(drawers) :
           drawers'[d].text # 0 => TypedNow(drawers'[d].text, drawers'[d].by)
    <2>. SUFFICES ASSUME NEW d \in 1..Len(drawers)
                  PROVE  drawers'[d].text # 0 => TypedNow(drawers'[d].text, drawers'[d].by)
      OBVIOUS
    <2>1. drawers[d].text # 0 => TypedBy(drawers[d].text, drawers[d].by)
      BY DEF DrawerInv, OwnDrawers
    <2>2. CASE d = open
      <3>1. TypedNow(row.text, row.by)
        BY <1>2, <1>5, <1>9 DEF n
      <3>2. drawers'[d] = row
        BY <2>2, <1>10
      <3>. QED BY <3>1, <3>2
    <2>3. CASE d # open
      <3>1. drawers'[d] = drawers[d]
        BY <2>3, <1>10
      <3>. QED BY <3>1, <2>1, <1>6
    <2>. QED BY <2>2, <2>3
  <1>14. OwnDrawers'
    BY <1>10, <1>13 DEF OwnDrawers, TypedBy
  <1>. QED BY <1>11, <1>12, <1>14 DEF DrawerInv

(* One drawer gets a row with texts of the same reviewer, one draft a text *)
(* of its reviewer, and everything else stays.                             *)
LEMMA RowAndDraft ==
  ASSUME DrawerInv, NEW d \in 1..Len(drawers), NEW row \in DrawerRow, NEW t \in Nat,
         drawers' = [drawers EXCEPT ![d] = row], row.by = drawers[d].by,
         row.text # 0 => TypedBy(row.text, row.by),
         t # 0 => TypedBy(t, row.by),
         drafts' \in {drafts, [drafts EXCEPT ![row.by] = t]},
         UNCHANGED <<reader, typed, open, replies>>
  PROVE  DrawerInv'
  <1>1. drawers' \in Seq(DrawerRow) /\ Len(drawers') = Len(drawers) /\ OwnDrawers'
    BY DrawerChanged
  <1>2. drafts \in [Reviewers -> Nat] /\ row.by \in Reviewers
    BY DEF DrawerInv, Shape, DrawerRow
  <1>3. drafts' \in [Reviewers -> Nat]
    BY <1>2
  <1>4. Shape'
    BY <1>1, <1>3 DEF DrawerInv, Shape
  <1>5. OwnDrafts'
    BY <1>2 DEF DrawerInv, OwnDrafts, TypedBy
  <1>. QED BY <1>1, <1>4, <1>5 DEF DrawerInv

(* The texts of a drawer as the invariant has them.                        *)
LEMMA RowOwn ==
  ASSUME DrawerInv, NEW d \in 1..Len(drawers)
  PROVE  /\ drawers[d].text # 0 => TypedBy(drawers[d].text, drawers[d].by)
         /\ drawers[d] \in DrawerRow /\ drawers \in Seq(DrawerRow)
  BY DEF DrawerInv, OwnDrawers, Shape

LEMMA ClearKeeps == DrawerInv /\ (ClearForm \/ Discard) => DrawerInv'
  <1>. SUFFICES ASSUME DrawerInv, ClearForm \/ Discard PROVE DrawerInv'
    OBVIOUS
  <1>. DEFINE row == [drawers[open] EXCEPT !.text = 0, !.timer = TRUE]
  <1>1. open \in 1..Len(drawers)
    BY ShownIsOpen DEF ClearForm, Discard
  <1>2. drawers[open] \in DrawerRow /\ drawers \in Seq(DrawerRow)
    BY <1>1, RowOwn
  <1>3. drawers' = [drawers EXCEPT ![open] = row]
    BY <1>1, <1>2 DEF ClearForm, Discard, Edited, DrawerRow
  <1>4. row \in DrawerRow /\ row.by = drawers[open].by /\ row.text = 0
    BY <1>2 DEF DrawerRow
  <1>5. drafts' \in {drafts, [drafts EXCEPT ![row.by] = 0]} /\ UNCHANGED <<reader, typed, open, replies>>
    BY <1>4 DEF ClearForm, Discard, reading
  <1>. HIDE DEF row
  <1>. QED BY <1>1, <1>3, <1>4, <1>5, 0 \in Nat, RowAndDraft

LEMMA AutosaveKeeps == ASSUME NEW d \in 1..Len(drawers) PROVE DrawerInv /\ Autosave(d) => DrawerInv'
  <1>. SUFFICES ASSUME DrawerInv, Autosave(d) PROVE DrawerInv'
    OBVIOUS
  <1>. DEFINE row == [drawers[d] EXCEPT !.timer = FALSE]
  <1>1. /\ drawers[d] \in DrawerRow /\ drawers \in Seq(DrawerRow)
        /\ drawers[d].text # 0 => TypedBy(drawers[d].text, drawers[d].by)
    BY RowOwn
  <1>2. drawers' = [drawers EXCEPT ![d] = row]
    BY <1>1 DEF Autosave, DrawerRow
  <1>3. row \in DrawerRow /\ row.by = drawers[d].by /\ row.text = drawers[d].text
        /\ drawers[d].text \in Nat
    BY <1>1 DEF DrawerRow
  <1>4. drafts' \in {drafts, [drafts EXCEPT ![row.by] = drawers[d].text]} /\ UNCHANGED <<reader, typed, open, replies>>
    BY <1>3 DEF Autosave, reading
  <1>. HIDE DEF row
  <1>. QED BY <1>1, <1>2, <1>3, <1>4, RowAndDraft

LEMMA PublishKeeps == DrawerInv /\ PublishReview => DrawerInv'
  <1>. SUFFICES ASSUME DrawerInv, PublishReview PROVE DrawerInv'
    OBVIOUS
  <1>. DEFINE row == [drawers[open] EXCEPT !.phase = "posting", !.sent = drawers[open].text]
  <1>1. open \in 1..Len(drawers)
    BY ShownIsOpen DEF PublishReview
  <1>2. /\ drawers[open] \in DrawerRow /\ drawers \in Seq(DrawerRow)
        /\ TypedBy(drawers[open].text, drawers[open].by)
    BY <1>1, RowOwn DEF PublishReview
  <1>3. drawers' = [drawers EXCEPT ![open] = row]
    BY <1>1, <1>2 DEF PublishReview, DrawerRow
  <1>4. row \in DrawerRow /\ row.by = drawers[open].by /\ row.text = drawers[open].text
        /\ drawers[open].text \in Nat
    BY <1>2 DEF DrawerRow, Phases
  <1>5. drafts' \in {drafts, [drafts EXCEPT ![row.by] = drawers[open].text]} /\ UNCHANGED <<reader, typed, open, replies>>
    BY <1>4 DEF PublishReview, reading
  <1>. HIDE DEF row
  <1>. QED BY <1>1, <1>2, <1>3, <1>4, <1>5, RowAndDraft

(* A posted review leaves the drafts and the drawers' texts alone.         *)
LEMMA PostKeeps == ASSUME NEW d \in 1..Len(drawers) PROVE DrawerInv /\ Post(d) => DrawerInv'
  <1>. SUFFICES ASSUME DrawerInv, Post(d) PROVE DrawerInv'
    OBVIOUS
  <1>1. /\ drawers[d] \in DrawerRow /\ drawers \in Seq(DrawerRow) /\ replies \in Seq(ReplyRow)
        /\ drawers[d].text # 0 => TypedBy(drawers[d].text, drawers[d].by)
    BY RowOwn DEF DrawerInv, Shape
  <1>2. UNCHANGED <<reader, typed, drafts, open>>
    BY DEF Post
  <1>3. /\ replies' \in Seq(ReplyRow)
        /\ \E p \in {"accepted", "refused"}, i \in Nat :
             drawers' = [drawers EXCEPT ![d] = [drawers[d] EXCEPT !.phase = p, !.reply = i]]
    <2>1. CASE UNCHANGED replies /\ drawers' = [drawers EXCEPT ![d].phase = "refused"]
      <3>1. drawers' = [drawers EXCEPT ![d] = [drawers[d] EXCEPT !.phase = "refused", !.reply = drawers[d].reply]]
        BY <2>1, <1>1 DEF DrawerRow
      <3>2. drawers[d].reply \in Nat
        BY <1>1 DEF DrawerRow
      <3>. QED BY <2>1, <3>1, <3>2, <1>1
    <2>2. ASSUME NEW u \in Reviewers, replies' = Append(replies, [by |-> u, text |-> drawers[d].sent]),
                 NEW p \in {"accepted", "refused"},
                 drawers' = [drawers EXCEPT ![d].phase = p, ![d].reply = IF p = "accepted" THEN Len(replies') ELSE 0]
          PROVE  /\ replies' \in Seq(ReplyRow)
                 /\ \E i \in Nat : drawers' = [drawers EXCEPT ![d] = [drawers[d] EXCEPT !.phase = p, !.reply = i]]
      <3>1. [by |-> u, text |-> drawers[d].sent] \in ReplyRow
        BY <1>1 DEF DrawerRow, ReplyRow
      <3>2. replies' \in Seq(ReplyRow) /\ Len(replies') \in Nat
        BY <2>2, <1>1, <3>1
      <3>3. drawers' = [drawers EXCEPT ![d] = [drawers[d] EXCEPT !.phase = p,
                                    !.reply = IF p = "accepted" THEN Len(replies') ELSE 0]]
        BY <2>2, <1>1 DEF DrawerRow
      <3>. QED BY <3>2, <3>3
    <2>. QED BY <2>1, <2>2 DEF Post
  <1>4. PICK p \in {"accepted", "refused"}, i \in Nat :
          drawers' = [drawers EXCEPT ![d] = [drawers[d] EXCEPT !.phase = p, !.reply = i]]
    BY <1>3
  <1>. DEFINE row == [drawers[d] EXCEPT !.phase = p, !.reply = i]
  <1>5. row \in DrawerRow /\ row.by = drawers[d].by /\ row.text = drawers[d].text
    BY <1>1 DEF DrawerRow, Phases
  <1>6. drawers' = [drawers EXCEPT ![d] = row]
    BY <1>4
  <1>. HIDE DEF row
  <1>7. drawers' \in Seq(DrawerRow) /\ Len(drawers') = Len(drawers) /\ OwnDrawers'
    BY <1>1, <1>2, <1>5, <1>6, DrawerChanged
  <1>8. OwnDrafts' /\ Shape'
    BY <1>2, <1>3, <1>7 DEF DrawerInv, Shape, OwnDrafts, TypedBy
  <1>. QED BY <1>7, <1>8 DEF DrawerInv

LEMMA PublishAnswerKeeps ==
  ASSUME NEW d \in 1..Len(drawers) PROVE DrawerInv /\ (PublishAnswered(d) \/ PublishRefused(d)) => DrawerInv'
  <1>. SUFFICES ASSUME DrawerInv, PublishAnswered(d) \/ PublishRefused(d) PROVE DrawerInv'
    OBVIOUS
  <1>1. /\ drawers[d] \in DrawerRow /\ drawers \in Seq(DrawerRow)
        /\ drawers[d].text # 0 => TypedBy(drawers[d].text, drawers[d].by)
    BY RowOwn
  <1>2. PICK p \in {"editing", "done"} : drawers' = [drawers EXCEPT ![d] = [drawers[d] EXCEPT !.phase = p]]
    BY <1>1 DEF PublishAnswered, PublishRefused, DrawerRow
  <1>. DEFINE row == [drawers[d] EXCEPT !.phase = p]
  <1>3. row \in DrawerRow /\ row.by = drawers[d].by /\ row.text = drawers[d].text
    BY <1>1 DEF DrawerRow, Phases
  <1>4. drafts' \in {drafts, [drafts EXCEPT ![row.by] = 0]} /\ UNCHANGED <<reader, typed, open, replies>>
    BY <1>3 DEF PublishAnswered, PublishRefused, reading, AddLocal
  <1>. HIDE DEF row
  <1>. QED BY <1>1, <1>2, <1>3, <1>4, 0 \in Nat, RowAndDraft DEF row

(* The steps that leave the drawers and the texts alone, and a reload,     *)
(* which forgets the drawers.                                              *)
LEMMA OthersKeep ==
  ASSUME DrawerInv, UNCHANGED <<typed, drafts, replies>>, reader' \in Reviewers \cup {Nobody},
         \/ drawers' = drawers /\ open' \in {open, 0}
         \/ drawers' = <<>> /\ open' = 0
  PROVE  DrawerInv'
  <1>1. drawers' \in Seq(DrawerRow) /\ open' \in 0..Len(drawers')
    <2>1. drawers \in Seq(DrawerRow) /\ Len(drawers) \in Nat /\ open \in 0..Len(drawers)
      BY DEF DrawerInv, Shape
    <2>2. CASE drawers' = drawers /\ open' \in {open, 0}
      BY <2>1, <2>2
    <2>3. CASE drawers' = <<>> /\ open' = 0
      BY <2>3
    <2>. QED BY <2>2, <2>3
  <1>2. OwnDrawers'
    <2>1. CASE drawers' = drawers
      BY <2>1 DEF DrawerInv, OwnDrawers, TypedBy
    <2>2. CASE drawers' = <<>>
      BY <2>2 DEF OwnDrawers
    <2>. QED BY <2>1, <2>2
  <1>3. Shape' /\ OwnDrafts'
    BY <1>1 DEF DrawerInv, Shape, OwnDrafts, TypedBy
  <1>. QED BY <1>2, <1>3 DEF DrawerInv

LEMMA StepKeeps == DrawerInv /\ [DrawerNext]_dvars => DrawerInv'
  <1>. SUFFICES ASSUME DrawerInv, [DrawerNext]_dvars PROVE DrawerInv'
    OBVIOUS
  <1>1. reader \in Reviewers \cup {Nobody} /\ DOMAIN drawers = 1..Len(drawers)
    BY DEF DrawerInv, Shape
  <1>2. CASE OpenDrawer
    BY <1>2, OpenKeeps
  <1>3. CASE TypeText
    BY <1>3, TypeKeeps
  <1>4. CASE ClearForm \/ Discard
    BY <1>4, ClearKeeps
  <1>5. CASE CloseDrawer
    BY <1>5, <1>1, OthersKeep DEF CloseDrawer
  <1>6. CASE PublishReview
    BY <1>6, PublishKeeps
  <1>7. CASE StartLoad \/ CacheExpires
    BY <1>7, <1>1, OthersKeep DEF StartLoad, CacheExpires, writing
  <1>8. CASE ReloadPage
    BY <1>8, <1>1, OthersKeep DEF ReloadPage
  <1>9. CASE \E u \in Reviewers \cup {Nobody} : UserChanges(u)
    BY <1>9, OthersKeep DEF UserChanges
  <1>10. CASE \E d \in DOMAIN drawers : Autosave(d)
    BY <1>10, <1>1, AutosaveKeeps
  <1>11. CASE \E d \in DOMAIN drawers : Post(d)
    BY <1>11, <1>1, PostKeeps
  <1>12. CASE \E d \in DOMAIN drawers : PublishAnswered(d) \/ PublishRefused(d)
    BY <1>12, <1>1, PublishAnswerKeeps
  <1>13. CASE \E n \in loads : LoadAnswered(n)
    BY <1>13, <1>1, OthersKeep DEF LoadAnswered, writing
  <1>14. CASE UNCHANGED dvars
    BY <1>14, <1>1, OthersKeep DEF dvars
  <1>. QED BY <1>2, <1>3, <1>4, <1>5, <1>6, <1>7, <1>8, <1>9, <1>10, <1>11, <1>12, <1>13, <1>14 DEF DrawerNext

(***************************************************************************)
(* What is stored as a reviewer's draft was typed by that reviewer, for    *)
(* any number of reviewers, drawers and edits, and whoever is signed in    *)
(* when an autosave fires (task-reviews.js).                               *)
(***************************************************************************)
THEOREM DraftsStayOwn == DrawerSpec => []DraftsAreOwn
  <1>1. DrawerSpec => []DrawerInv
    BY InitHasInv, StepKeeps, PTL DEF DrawerSpec
  <1>. QED BY <1>1, InvImpliesOwn, PTL

-----------------------------------------------------------------------------
(* What this tab published is in every list that GitHub answered.           *)
ListRow == [status: {"none", "local", "ready", "fallback"}, items: SUBSET Nat]
ListsInv ==
  /\ published \subseteq Nat /\ cached \in ListRow /\ loaded \in ListRow
  /\ loads \subseteq Nat /\ latest \in Nat
  /\ OwnReviewsStayListed

LEMMA ListsStart == DrawerInit => ListsInv
  <1>. SUFFICES ASSUME DrawerInit PROVE ListsInv
    OBVIOUS
  <1>1. NothingLoaded \in ListRow /\ NothingLoaded.status = "none"
    BY DEF NothingLoaded, ListRow
  <1>. QED BY <1>1 DEF DrawerInit, ListsInv, OwnReviewsStayListed

LEMMA ListsStay ==
  ASSUME ListsInv, UNCHANGED <<published, cached, loaded, loads, latest>> PROVE ListsInv'
  BY DEF ListsInv, OwnReviewsStayListed

LEMMA LocalKeeps ==
  ASSUME ListsInv, NEW i \in Nat, AddLocal(i), latest' = i, loads' = loads PROVE ListsInv'
  <1>1. /\ loaded' = [status |-> IF loaded.status = "none" THEN "local" ELSE loaded.status,
                      items |-> loaded.items \cup {i}]
        /\ published' = published \cup {i}
        /\ cached' = IF cached.status = "none" THEN cached ELSE [cached EXCEPT !.items = @ \cup {i}]
    BY DEF AddLocal
  <1>2. cached \in ListRow /\ loaded \in ListRow
    BY DEF ListsInv
  <1>3. cached' \in ListRow /\ cached'.status = cached.status
        /\ (cached.status # "none" => cached'.items = cached.items \cup {i})
    BY <1>1, <1>2 DEF ListRow
  <1>4. loaded' \in ListRow /\ loaded'.items = loaded.items \cup {i}
        /\ (loaded'.status = "ready" => loaded.status = "ready")
    BY <1>1, <1>2 DEF ListRow
  <1>. QED BY <1>1, <1>3, <1>4 DEF ListsInv, OwnReviewsStayListed

LEMMA AnswerKeepsLists == ASSUME ListsInv, NEW n \in loads, LoadAnswered(n) PROVE ListsInv'
  <1>1. loads' = loads \ {n} /\ UNCHANGED <<published, latest>> /\ n \in Nat
    BY DEF LoadAnswered, ListsInv
  <1>. DEFINE l == [status |-> "ready", items |-> Merged(n)]
              fallback == [status |-> "fallback", items |-> {latest} \ {0}]
  <1>2. l \in ListRow /\ published \subseteq l.items /\ fallback \in ListRow /\ fallback.status # "ready"
    BY <1>1 DEF ListRow, Merged, ListsInv
  <1>3. (cached' = l /\ loaded' = l) \/ (loaded' = fallback /\ cached' = cached)
    BY DEF LoadAnswered
  <1>. HIDE DEF l, fallback
  <1>. QED BY <1>1, <1>2, <1>3 DEF ListsInv, OwnReviewsStayListed

LEMMA ListsStep == DrawerInv /\ ListsInv /\ [DrawerNext]_dvars => ListsInv'
  <1>. SUFFICES ASSUME DrawerInv, ListsInv, [DrawerNext]_dvars PROVE ListsInv'
    OBVIOUS
  <1>0. NothingLoaded \in ListRow /\ NothingLoaded.status = "none"
    BY DEF NothingLoaded, ListRow
  <1>1. CASE UNCHANGED <<published, cached, loaded, loads, latest>>
    BY <1>1, ListsStay
  <1>2. CASE StartLoad
    <2>1. UNCHANGED <<published, cached, latest>> /\ loaded' \in {cached, loaded}
      BY <1>2 DEF StartLoad
    <2>2. loads' \subseteq Nat
      <3>1. loads \subseteq Nat /\ \A n \in 0..Len(replies) : n \in Nat
        BY DEF ListsInv
      <3>2. loads' = loads \/ \E n \in 0..Len(replies) : loads' = loads \cup {n}
        BY <1>2 DEF StartLoad
      <3>. QED BY <3>1, <3>2
    <2>. QED BY <2>1, <2>2 DEF ListsInv, OwnReviewsStayListed
  <1>3. CASE CacheExpires
    BY <1>0, <1>3 DEF CacheExpires, ListsInv, OwnReviewsStayListed
  <1>4. CASE ReloadPage
    BY <1>0, <1>4 DEF ReloadPage, ListsInv, OwnReviewsStayListed, DrawerInv, Shape
  <1>5. ASSUME NEW d \in DOMAIN drawers, PublishAnswered(d) PROVE ListsInv'
    <2>1. d \in 1..Len(drawers)
      BY DEF DrawerInv, Shape
    <2>2. drawers[d].reply \in Nat
      BY <2>1, RowOwn DEF DrawerRow
    <2>. QED BY <1>5, <2>2, LocalKeeps DEF PublishAnswered
  <1>6. ASSUME NEW n \in loads, LoadAnswered(n) PROVE ListsInv'
    BY <1>6, AnswerKeepsLists
  <1>. QED BY <1>1, <1>2, <1>3, <1>4, <1>5, <1>6 DEF DrawerNext, OpenDrawer, TypeText, ClearForm, Discard, CloseDrawer,
       PublishReview, UserChanges, Autosave, Post, PublishRefused, reading, dvars

(* A review this tab published stays in every list read from the            *)
(* Discussion, however old the answer and whenever it comes, for any number *)
(* of reviews and reads (loadDiscussionReviews of discussion.js).                   *)
THEOREM OwnReviewsListed == DrawerSpec => []OwnReviewsStayListed
  <1>1. DrawerInit => DrawerInv /\ ListsInv
    BY InitHasInv, ListsStart
  <1>2. (DrawerInv /\ ListsInv) /\ [DrawerNext]_dvars => (DrawerInv /\ ListsInv)'
    BY StepKeeps, ListsStep
  <1>3. ListsInv => OwnReviewsStayListed
    BY DEF ListsInv
  <1>. QED BY <1>1, <1>2, <1>3, PTL DEF DrawerSpec

(***************************************************************************)
(*                        The editor of a proposal                         *)
(***************************************************************************)
(* What an open editor, or a save that runs, remembers: it began with a     *)
(* version that was stored, the check read what was stored or failed, and a *)
(* save goes on only from what the check has read.                          *)
KnowsItsBase(e) ==
  /\ e \in Editor
  /\ e.open \/ e.phase # "idle" => e.base \in Version
  /\ e.phase # "idle" => e.atCheck \in Version
  /\ e.phase = "checking" /\ e.read \in Version => e.read = e.atCheck
  /\ e.phase = "putting" /\ e.read \in Version => e.base = e.atCheck
  /\ e.confirming => e.warned = e.text

PageShape ==
  /\ stored \in Version /\ board \in [got: BOOLEAN, ver: 0..MaxVersions + 1]
  /\ method \in {"unknown", "PUT", "none"} /\ author \in BOOLEAN
  /\ renders \subseteq Page /\ painted \in Page /\ asideHidden \in BOOLEAN

SavesShape == saves \subseteq [replaced: Version, base: Version, atCheck: Version, knew: BOOLEAN]

EditorInv == PageShape /\ SavesShape /\ KnowsItsBase(editor) /\ SeenBeforeReplaced

(* Stored versions are versions, and a failed read is none.                 *)
LEMMA VersionFacts ==
  /\ MaxVersions \in Nat /\ 1 \in Version /\ Version \subseteq 0..MaxVersions
  /\ Version \subseteq 0..MaxVersions + 1 /\ Failed \in 0..MaxVersions + 1 /\ Failed \notin Version
  /\ 0 \in 0..MaxVersions /\ 0 \in 0..MaxVersions + 1 /\ 0 \in 0..MaxEdits
  BY EditorAssumption DEF Version, Failed

LEMMA EditorStarts == EditorInit => EditorInv
  <1>. SUFFICES ASSUME EditorInit PROVE EditorInv
    OBVIOUS
  <1>1. NoEditor \in Editor /\ ~NoEditor.open /\ NoEditor.phase = "idle" /\ ~NoEditor.confirming
    BY VersionFacts DEF NoEditor, Editor
  <1>2. KnowsItsBase(editor)
    BY <1>1 DEF EditorInit, KnowsItsBase
  <1>3. NoBoard \in [got: BOOLEAN, ver: 0..MaxVersions + 1] /\ NotPainted \in Page
    BY VersionFacts DEF NoBoard, NotPainted, Page
  <1>4. PageShape
    BY <1>3, VersionFacts DEF EditorInit, PageShape
  <1>. QED BY <1>2, <1>4 DEF EditorInit, EditorInv, SavesShape, SeenBeforeReplaced

(* A read of the board is a version that was stored, or a failure.          *)
LEMMA BoardTyped ==
  ASSUME PageShape, NEW b \in BoardReads \cup {[got |-> TRUE, ver |-> v] : v \in {stored, Failed}}
  PROVE  b \in [got: BOOLEAN, ver: 0..MaxVersions + 1]
  <1>1. stored \in 0..MaxVersions + 1 /\ Failed \in 0..MaxVersions + 1
    BY VersionFacts DEF PageShape
  <1>2. \A v \in {stored, Failed} : [got |-> TRUE, ver |-> v] \in [got: BOOLEAN, ver: 0..MaxVersions + 1]
    BY <1>1
  <1>. QED BY <1>2 DEF BoardReads, PageShape

LEMMA RenderTyped ==
  ASSUME PageShape, NEW b \in BoardReads \cup {[got |-> TRUE, ver |-> v] : v \in {stored, Failed}},
         NEW m \in {"PUT", "none"}, NEW a \in BOOLEAN, author' \in BOOLEAN,
         method' = m, board' = b, renders' = renders \cup {[ver |-> b.ver, author |-> a, edits |-> m = "PUT"]},
         UNCHANGED <<stored, painted>>, asideHidden' \in BOOLEAN
  PROVE  PageShape'
  <1>1. b \in [got: BOOLEAN, ver: 0..MaxVersions + 1]
    BY BoardTyped
  <1>2. [ver |-> b.ver, author |-> a, edits |-> m = "PUT"] \in Page
    BY <1>1 DEF Page
  <1>. QED BY <1>1, <1>2 DEF PageShape

LEMMA BeginsTyped ==
  ASSUME PageShape, NEW i \in BOOLEAN, RenderBegins(i), UNCHANGED <<stored, author, painted>>, asideHidden' \in BOOLEAN
  PROVE  PageShape'
  <1>. DEFINE S == IF i THEN {[got |-> TRUE, ver |-> v] : v \in {stored, Failed}} ELSE BoardReads
  <1>1. PICK b \in S, m \in {"PUT", "none"} :
          /\ method' = m /\ board' = b
          /\ renders' = renders \cup {[ver |-> b.ver, author |-> author, edits |-> m = "PUT"]}
    BY DEF RenderBegins
  <1>2. author \in BOOLEAN /\ author' \in BOOLEAN
    BY DEF PageShape
  <1>. QED BY <1>1, <1>2, RenderTyped

(* One step of the editor keeps what it knows.                              *)
LEMMA SaveKnows ==
  ASSUME EditorInv, Save PROVE KnowsItsBase(editor')
  <1>1. PICK v \in {stored, Failed} :
          editor' = [editor EXCEPT !.phase = "checking", !.atCheck = stored, !.read = v]
    BY DEF Save
  <1>2. editor \in Editor /\ stored \in Version /\ editor.open
    BY DEF EditorInv, KnowsItsBase, PageShape, Save
  <1>3. stored \in 0..MaxVersions /\ v \in 0..MaxVersions + 1 /\ (v \in Version => v = stored)
    BY <1>2, VersionFacts
  <1>4. editor' \in Editor
    BY <1>1, <1>2, <1>3 DEF Editor
  <1>5. /\ editor'.open = editor.open /\ editor'.base = editor.base /\ editor'.phase = "checking"
        /\ editor'.atCheck = stored /\ editor'.read = v /\ editor'.confirming = editor.confirming
        /\ editor'.warned = editor.warned /\ editor'.text = editor.text
    BY <1>1, <1>2 DEF Editor
  <1>6. editor.base \in Version /\ (editor.confirming => editor.warned = editor.text)
    BY <1>2 DEF EditorInv, KnowsItsBase
  <1>7. editor'.base \in Version /\ editor'.atCheck \in Version
        /\ (editor'.read \in Version => editor'.read = editor'.atCheck)
    BY <1>2, <1>3, <1>5, <1>6
  <1>. QED BY <1>4, <1>5, <1>6, <1>7 DEF KnowsItsBase

LEMMA PutSound ==
  ASSUME EditorInv, Put PROVE EditorInv'
  <1>1. editor \in Editor /\ editor.phase = "putting" /\ stored \in Version /\ KnowsItsBase(editor)
    BY DEF EditorInv, KnowsItsBase, PageShape, Put
  <1>. DEFINE s == [replaced |-> stored, base |-> editor.base, atCheck |-> editor.atCheck,
                    knew |-> editor.read \in Version]
  <1>10. stored \in Version /\ editor.base \in Version /\ editor.atCheck \in Version
         /\ (editor.read \in Version) \in BOOLEAN
    BY <1>1 DEF KnowsItsBase
  <1>11. s.knew => s.base = s.atCheck
    BY <1>1 DEF KnowsItsBase
  <1>2. s \in [replaced: Version, base: Version, atCheck: Version, knew: BOOLEAN]
    BY <1>10
  <1>3. saves' = saves \cup {s}
    BY DEF Put
  <1>4. SavesShape' /\ SeenBeforeReplaced'
    BY <1>2, <1>3, <1>11 DEF EditorInv, SavesShape, SeenBeforeReplaced
  <1>5. PICK p \in {"saved", "idle"} : editor' = [editor EXCEPT !.phase = p]
    BY DEF Put
  <1>6. editor' \in Editor
    BY <1>1, <1>5 DEF Editor
  <1>7. KnowsItsBase(editor')
    BY <1>1, <1>5, <1>6 DEF KnowsItsBase, Editor
  <1>8. stored' \in Version
    BY <1>1, EditorAssumption DEF Put, Version
  <1>9. PageShape'
    BY <1>8 DEF Put, EditorInv, PageShape
  <1>. QED BY <1>4, <1>7, <1>9 DEF EditorInv

(* The steps that only change the editor, each from what it knows.          *)
LEMMA EditorOnly ==
  ASSUME EditorInv, UNCHANGED saves, PageShape', KnowsItsBase(editor') PROVE EditorInv'
  BY DEF EditorInv, SavesShape, SeenBeforeReplaced, KnowsItsBase

LEMMA EditorStep == EditorInv /\ [EditorNext]_evars => EditorInv'
  <1>. SUFFICES ASSUME EditorInv, [EditorNext]_evars PROVE EditorInv'
    OBVIOUS
  <1>0. PageShape /\ KnowsItsBase(editor) /\ editor \in Editor
    BY DEF EditorInv, KnowsItsBase
  <1>1. CASE FirstRender
    BY <1>0, <1>1, BeginsTyped, EditorOnly DEF FirstRender, PageShape
  <1>2. CASE AuthChange
    <2>1. PICK b \in BoardReads, m \in {"PUT", "none"} :
            /\ method' = m /\ board' = b
            /\ renders' = renders \cup {[ver |-> b.ver, author |-> ~author, edits |-> m = "PUT"]}
      BY <1>2 DEF AuthChange
    <2>2. UNCHANGED <<stored, painted, editor, saves>> /\ author' = ~author /\ asideHidden' = asideHidden
      BY <1>2 DEF AuthChange
    <2>4. asideHidden' \in BOOLEAN
      BY <1>0, <2>2 DEF PageShape
    <2>5. (~author) \in BOOLEAN
      OBVIOUS
    <2>6. author' \in BOOLEAN
      BY <2>2, <2>5
    <2>3. PageShape'
      BY <1>0, <2>1, <2>2, <2>4, <2>5, <2>6, RenderTyped
    <2>. QED BY <1>0, <2>2, <2>3, EditorOnly
  <1>3. CASE OpenEditor
    <2>1. editor' = [NoEditor EXCEPT !.open = TRUE, !.base = painted.ver] /\ painted.ver \in Version
      BY <1>3 DEF OpenEditor
    <2>2. editor' = [open |-> TRUE, base |-> painted.ver, text |-> 0, dirty |-> FALSE, confirming |-> FALSE,
                     warned |-> 0, phase |-> "idle", atCheck |-> 0, read |-> 0]
      BY <2>1 DEF NoEditor
    <2>3. painted.ver \in 0..MaxVersions
      BY <2>1, VersionFacts
    <2>4. editor' \in Editor
      BY <2>2, <2>3, VersionFacts DEF Editor
    <2>7. editor'.phase = "idle" /\ editor'.base = painted.ver /\ ~editor'.confirming
      BY <2>2
    <2>5. KnowsItsBase(editor')
      BY <2>1, <2>4, <2>7 DEF KnowsItsBase
    <2>6. PageShape' /\ UNCHANGED saves
      BY <1>0, <1>3 DEF OpenEditor, PageShape
    <2>. QED BY <2>5, <2>6, EditorOnly
  <1>4. CASE Type
    <2>1. editor' = [editor EXCEPT !.dirty = TRUE, !.confirming = FALSE, !.text = editor.text + 1]
      BY <1>0, <1>4 DEF Type, MarkDirty, Editor
    <2>2. editor.text + 1 \in 0..MaxEdits
      BY <1>0, <1>4, EditorAssumption DEF Type, Editor
    <2>3. editor' \in Editor
      BY <1>0, <2>1, <2>2 DEF Editor
    <2>4. KnowsItsBase(editor')
      BY <1>0, <2>1, <2>3 DEF KnowsItsBase, Editor
    <2>5. PageShape' /\ UNCHANGED saves
      BY <1>0, <1>4 DEF Type, PageShape
    <2>. QED BY <2>4, <2>5, EditorOnly
  <1>5. CASE Cancel
    <2>1. CASE editor' = [editor EXCEPT !.confirming = TRUE, !.warned = editor.text]
               /\ UNCHANGED <<board, method, renders, asideHidden>>
      <3>1. editor' \in Editor
        BY <1>0, <2>1 DEF Editor
      <3>2. KnowsItsBase(editor')
        BY <1>0, <2>1, <3>1 DEF KnowsItsBase, Editor
      <3>3. PageShape' /\ UNCHANGED saves
        BY <1>0, <1>5, <2>1 DEF Cancel, PageShape
      <3>. QED BY <3>2, <3>3, EditorOnly
    <2>2. CASE editor' = [editor EXCEPT !.open = FALSE] /\ asideHidden' = FALSE /\ RenderBegins(FALSE)
      <3>1. editor' \in Editor
        BY <1>0, <2>2 DEF Editor
      <3>2. KnowsItsBase(editor')
        BY <1>0, <2>2, <3>1 DEF KnowsItsBase, Editor
      <3>3. PageShape' /\ UNCHANGED saves
        BY <1>0, <1>5, <2>2, BeginsTyped DEF Cancel
      <3>. QED BY <3>2, <3>3, EditorOnly
    <2>. QED BY <1>5, <2>1, <2>2 DEF Cancel
  <1>6. CASE Save
    <2>1. PageShape' /\ UNCHANGED saves
      <3>1. PICK v \in {stored, Failed} : board' = [got |-> TRUE, ver |-> v]
        BY <1>6 DEF Save
      <3>2. board' \in [got: BOOLEAN, ver: 0..MaxVersions + 1]
        BY <1>0, <3>1, BoardTyped
      <3>. QED BY <1>0, <1>6, <3>2 DEF Save, PageShape
    <2>. QED BY <1>6, <2>1, SaveKnows, EditorOnly
  <1>7. CASE Checked
    <2>1. editor.phase = "checking" /\ editor' = [editor EXCEPT !.phase =
                  IF editor.read \in Version /\ editor.read # editor.base THEN "idle" ELSE "putting"]
      BY <1>7 DEF Checked
    <2>2. editor' \in Editor
      BY <1>0, <2>1 DEF Editor
    <2>3. KnowsItsBase(editor')
      BY <1>0, <2>1, <2>2 DEF KnowsItsBase, Editor
    <2>4. PageShape' /\ UNCHANGED saves
      BY <1>0, <1>7 DEF Checked, PageShape
    <2>. QED BY <2>3, <2>4, EditorOnly
  <1>8. CASE Put
    BY <1>8, PutSound
  <1>9. CASE PutRefused
    <2>1. editor' = [editor EXCEPT !.phase = "idle"]
      BY <1>9 DEF PutRefused
    <2>2. editor' \in Editor
      BY <1>0, <2>1 DEF Editor
    <2>3. KnowsItsBase(editor')
      BY <1>0, <1>9, <2>1, <2>2 DEF PutRefused, KnowsItsBase, Editor
    <2>4. PageShape' /\ UNCHANGED saves
      BY <1>0, <1>9 DEF PutRefused, PageShape
    <2>. QED BY <2>3, <2>4, EditorOnly
  <1>10. CASE Saved
    <2>1. editor' = [editor EXCEPT !.phase = "idle", !.dirty = FALSE, !.open = FALSE]
      BY <1>10 DEF Saved
    <2>2. editor' \in Editor
      BY <1>0, <2>1 DEF Editor
    <2>3. KnowsItsBase(editor')
      BY <1>0, <2>1, <2>2 DEF KnowsItsBase, Editor
    <2>4. PageShape' /\ UNCHANGED saves
      BY <1>0, <1>10, BeginsTyped DEF Saved
    <2>. QED BY <2>3, <2>4, EditorOnly
  <1>11. CASE ChangedElsewhere
    <2>1. stored' \in Version
      BY <1>0, <1>11, EditorAssumption DEF ChangedElsewhere, PageShape, Version
    <2>2. PageShape' /\ UNCHANGED <<editor, saves>>
      BY <1>0, <1>11, <2>1 DEF ChangedElsewhere, PageShape
    <2>. QED BY <1>0, <2>2, EditorOnly
  <1>12. ASSUME NEW r \in renders, RenderEnds(r) PROVE EditorInv'
    <2>1. PageShape' /\ UNCHANGED saves
      BY <1>0, <1>12 DEF RenderEnds, PageShape
    <2>2. CASE editor' = editor
      BY <1>0, <2>1, <2>2, EditorOnly
    <2>3. CASE editor' = NoEditor
      <3>1. NoEditor \in Editor
        BY VersionFacts DEF NoEditor, Editor
      <3>2. KnowsItsBase(editor')
        BY <2>3, <3>1 DEF KnowsItsBase, NoEditor
      <3>. QED BY <2>1, <3>2, EditorOnly
    <2>4. CASE editor' = [editor EXCEPT !.open = FALSE]
      <3>1. editor' \in Editor
        BY <1>0, <2>4 DEF Editor
      <3>2. KnowsItsBase(editor')
        BY <1>0, <2>4, <3>1 DEF KnowsItsBase, Editor
      <3>. QED BY <2>1, <3>2, EditorOnly
    <2>. QED BY <1>12, <2>2, <2>3, <2>4 DEF RenderEnds
  <1>13. CASE UNCHANGED evars
    <2>1. PageShape' /\ UNCHANGED <<editor, saves>>
      BY <1>0, <1>13 DEF evars, PageShape
    <2>. QED BY <1>0, <2>1, EditorOnly
  <1>. QED BY <1>1, <1>2, <1>3, <1>4, <1>5, <1>6, <1>7, <1>8, <1>9, <1>10, <1>11, <1>12, <1>13 DEF EditorNext

(* No save replaces a version the author has not seen, unless the check     *)
(* failed or the change came during the save, and Cancel discards only the  *)
(* text it warned about (task-edit.js): for any number of versions, edits   *)
(* and renders.                                                             *)
THEOREM EditorLosesNothing == EditorSpec => []NothingUnseenIsLost
  <1>1. EditorInv => NothingUnseenIsLost
    BY DEF EditorInv, KnowsItsBase, NothingUnseenIsLost, CancelDiscardsWarnedText
  <1>. QED BY <1>1, EditorStarts, EditorStep, PTL DEF EditorSpec

(***************************************************************************)
(*                           The submission form                           *)
(***************************************************************************)
(* A list of domains has a first one unless it is empty.                    *)
GoodList(l) == l \in DomainList /\ IF l.all = {} THEN l.first = 0 ELSE l.first \in l.all

FormShape ==
  /\ edits \in Nat /\ created \in Nat /\ chips \subseteq Domains /\ wanted \subseteq Domains
  /\ chosen \in Domains \cup {0} /\ GoodList(draftDomains)
  /\ IF draft.kept THEN GoodList(draft.domains) ELSE draft = NoDraft
  /\ done => created > 0 /\ ~draft.kept

(* Once the list is there, what the person wants is ticked; until then it   *)
(* is what the page holds of the draft, and what the draft holds.           *)
AnswersTicked ==
  list = "ready" => wanted \subseteq chips /\ (chosen # 0 => chosen \in chips /\ primary = chosen)
AnswersHeld ==
  list # "ready" => /\ chips = {} /\ wanted \subseteq draftDomains.all
                    /\ chosen # 0 => draftDomains.first = chosen
                    /\ draft.kept => draft.domains = draftDomains

SubmitInv == FormShape /\ AnswersTicked /\ AnswersHeld /\ DraftKeepsAnswers

-----------------------------------------------------------------------------
(* Every set of domains that is not empty has a first one: its order is     *)
(* well founded.                                                            *)
LEMMA FirstExists ==
  ASSUME NEW S, S \subseteq Nat, S # {} PROVE \E m \in S : \A x \in S : m <= x
  <1>. DEFINE R == OpToRel(<, Nat)
  <1>1. IsWellFoundedOn(R, Nat)
    BY NatLessThanWellFounded
  <1>2. \A a, b \in Nat : a < b => <<a, b>> \in R
    BY DEF OpToRel
  <1>. HIDE DEF R
  <1>3. PICK m \in S : \A x \in S : <<x, m>> \notin R
    BY <1>1, WFMin
  <1>4. m \in Nat /\ \A x \in S : x \in Nat /\ ~(x < m)
    BY <1>2, <1>3
  <1>5. \A x \in S : m <= x
    BY <1>4
  <1>. QED BY <1>5

LEMMA FirstIsTicked ==
  ASSUME NEW ticked \in SUBSET Domains, NEW wish
  PROVE  /\ ticked # {} => FirstOf(ticked, wish) \in ticked
         /\ ticked = {} => FirstOf(ticked, wish) = 0
         /\ wish \in ticked => FirstOf(ticked, wish) = wish
  <1>1. CASE wish \in ticked \/ ticked = {}
    BY <1>1 DEF FirstOf
  <1>2. CASE wish \notin ticked /\ ticked # {}
    <2>. DEFINE c == CHOOSE d \in ticked : \A e \in ticked : d <= e
    <2>1. \E d \in ticked : \A e \in ticked : d <= e
      BY <1>2, SubmitAssumption, FirstExists
    <2>2. c \in ticked
      BY <2>1
    <2>3. FirstOf(ticked, wish) = c
      BY <1>2 DEF FirstOf
    <2>. HIDE DEF c
    <2>. QED BY <1>2, <2>2, <2>3
  <1>. QED BY <1>1, <1>2

(* The first of the first is the first, and a list is good with it.         *)
LEMMA PrimaryIsGood ==
  ASSUME NEW ticked \in SUBSET Domains, NEW wish
  PROVE  /\ GoodList(PrimaryFirst(ticked, wish))
         /\ PrimaryFirst(ticked, FirstOf(ticked, wish)) = PrimaryFirst(ticked, wish)
         /\ PrimaryFirst(ticked, wish).all = ticked
         /\ wish \in ticked => PrimaryFirst(ticked, wish).first = wish
  <1>. DEFINE f == FirstOf(ticked, wish)
  <1>1. (ticked # {} => f \in ticked) /\ (ticked = {} => f = 0) /\ (wish \in ticked => f = wish)
    BY FirstIsTicked
  <1>2. FirstOf(ticked, f) = f
    BY <1>1, FirstIsTicked
  <1>3. PrimaryFirst(ticked, wish) = [all |-> ticked, first |-> f]
    BY DEF PrimaryFirst
  <1>4. PrimaryFirst(ticked, f) = [all |-> ticked, first |-> f]
    BY <1>2 DEF PrimaryFirst
  <1>. HIDE DEF f
  <1>5. [all |-> ticked, first |-> f] \in DomainList
    BY <1>1 DEF DomainList
  <1>6. GoodList([all |-> ticked, first |-> f])
    BY <1>1, <1>5 DEF GoodList
  <1>. QED BY <1>1, <1>3, <1>4, <1>6 DEF f

(* A good list is the one its own chips and first domain give back.         *)
LEMMA GoodListIsKept ==
  ASSUME NEW l, GoodList(l)
  PROVE  /\ l.all \in SUBSET Domains /\ l = PrimaryFirst(l.all, FirstOf(l.all, l.first))
         /\ l.first # 0 => l.first \in l.all /\ FirstOf(l.all, l.first) = l.first
  <1>1. l \in DomainList /\ l = [all |-> l.all, first |-> l.first] /\ l.all \in SUBSET Domains
    BY DEF GoodList, DomainList
  <1>2. FirstOf(l.all, l.first) = l.first
    BY <1>1, FirstIsTicked DEF GoodList
  <1>3. PrimaryFirst(l.all, FirstOf(l.all, l.first)) = [all |-> l.all, first |-> l.first]
    BY <1>2 DEF PrimaryFirst
  <1>4. l.first # 0 => l.first \in l.all
    BY DEF GoodList
  <1>. QED BY <1>1, <1>2, <1>3, <1>4

LEMMA SubmitStarts == SubmitInit => SubmitInv
  <1>. SUFFICES ASSUME SubmitInit PROVE SubmitInv
    OBVIOUS
  <1>1. GoodList(NoDomains) /\ NoDomains.all = {} /\ NoDomains.first = 0
    BY DEF NoDomains, GoodList, DomainList
  <1>2. ~NoDraft.kept
    BY DEF NoDraft
  <1>3. FormShape
    BY <1>1, <1>2 DEF SubmitInit, FormShape
  <1>4. AnswersTicked /\ AnswersHeld /\ DraftKeepsAnswers
    BY <1>1, <1>2 DEF SubmitInit, AnswersTicked, AnswersHeld, DraftKeepsAnswers
  <1>. QED BY <1>3, <1>4 DEF SubmitInv

(* A step that leaves the answers and the draft alone.                      *)
LEMMA AnswersStay ==
  ASSUME SubmitInv, UNCHANGED <<answersV, created, done>> PROVE SubmitInv'
  BY DEF SubmitInv, FormShape, AnswersTicked, AnswersHeld, DraftKeepsAnswers, answersV, domainsV

(* What saveDraft keeps, of chips that the answers are among.               *)
LEMMA SavedIsGood ==
  ASSUME GoodList(draftDomains), NEW t, NEW ticked \in SUBSET Domains, NEW wish
  PROVE  /\ SavedDraft(t, ticked, wish).kept /\ SavedDraft(t, ticked, wish).text = t
         /\ GoodList(SavedDraft(t, ticked, wish).domains)
         /\ list = "ready" => SavedDraft(t, ticked, wish).domains = PrimaryFirst(ticked, wish)
         /\ list # "ready" => SavedDraft(t, ticked, wish).domains = draftDomains
  BY PrimaryIsGood DEF SavedDraft

LEMMA TypeAnswerKeeps == ASSUME SubmitInv, TypeAnswer PROVE SubmitInv'
  <1>1. /\ edits' = edits + 1 /\ text' = edits' /\ ~done /\ draft' = SavedDraft(text', chips, primary)
        /\ UNCHANGED <<chips, primary, wanted, chosen, list, draftDomains, created, done>>
    BY DEF TypeAnswer, domainsV, postsV
  <1>2. chips \in SUBSET Domains /\ GoodList(draftDomains) /\ edits \in Nat
    BY DEF SubmitInv, FormShape
  <1>3. /\ draft'.kept /\ draft'.text = text' /\ GoodList(draft'.domains)
        /\ list = "ready" => draft'.domains = PrimaryFirst(chips, primary)
        /\ list # "ready" => draft'.domains = draftDomains
    BY <1>1, <1>2, SavedIsGood
  <1>4. FormShape' /\ AnswersTicked' /\ AnswersHeld'
    BY <1>1, <1>2, <1>3 DEF SubmitInv, FormShape, AnswersTicked, AnswersHeld
  <1>5. DraftKeepsAnswers'
    <2>1. CASE list = "ready"
      BY <1>1, <1>2, <1>3, <2>1, PrimaryIsGood DEF SubmitInv, AnswersTicked, DraftKeepsAnswers
    <2>2. CASE list # "ready"
      BY <1>1, <1>3, <2>2 DEF SubmitInv, AnswersHeld, DraftKeepsAnswers
    <2>. QED BY <2>1, <2>2
  <1>. QED BY <1>4, <1>5 DEF SubmitInv

LEMMA TickKeeps == ASSUME SubmitInv, NEW d \in Domains, Tick(d) PROVE SubmitInv'
  <1>1. /\ ~done /\ list = "ready"
        /\ chips' = IF d \in chips THEN chips \ {d} ELSE chips \cup {d}
        /\ wanted' = IF d \in chips THEN wanted \ {d} ELSE wanted \cup {d}
        /\ draft' = SavedDraft(text, chips', primary) /\ primary' = FirstOf(chips', primary)
        /\ chosen' = IF chosen \in chips' THEN chosen ELSE 0
        /\ UNCHANGED <<text, edits, list, draftDomains, created, done>>
    BY DEF Tick, postsV
  <1>2. /\ chips \in SUBSET Domains /\ wanted \in SUBSET Domains /\ GoodList(draftDomains)
        /\ chosen \in Domains \cup {0}
    BY DEF SubmitInv, FormShape
  <1>3. wanted \subseteq chips /\ (chosen # 0 => chosen \in chips /\ primary = chosen)
    BY <1>1 DEF SubmitInv, AnswersTicked
  <1>4. chips' \in SUBSET Domains /\ wanted' \in SUBSET Domains /\ wanted' \subseteq chips'
    BY <1>1, <1>2, <1>3
  <1>. DEFINE c == chips'
  <1>5. c \in SUBSET Domains
    BY <1>4
  <1>. HIDE DEF c
  <1>6. /\ SavedDraft(text, c, primary).kept /\ SavedDraft(text, c, primary).text = text
        /\ GoodList(SavedDraft(text, c, primary).domains)
        /\ SavedDraft(text, c, primary).domains = PrimaryFirst(c, primary)
    BY <1>1, <1>2, <1>5, SavedIsGood
  <1>7. draft'.kept /\ draft'.text = text' /\ GoodList(draft'.domains) /\ draft'.domains = PrimaryFirst(c, primary)
    BY <1>1, <1>6 DEF c
  <1>8. /\ PrimaryFirst(c, FirstOf(c, primary)) = PrimaryFirst(c, primary) /\ PrimaryFirst(c, primary).all = c
        /\ primary \in c => PrimaryFirst(c, primary).first = primary /\ FirstOf(c, primary) = primary
    BY <1>5, PrimaryIsGood, FirstIsTicked
  <1>9. primary' = FirstOf(c, primary)
    BY <1>1 DEF c
  <1>10. chosen' # 0 => chosen' \in c /\ chosen' = chosen /\ primary = chosen /\ primary \in c /\ primary' = chosen'
    BY <1>1, <1>3, <1>8, <1>9 DEF c
  <1>11. chosen' \in Domains \cup {0}
    BY <1>1, <1>2
  <1>12. FormShape' /\ AnswersTicked' /\ AnswersHeld'
    BY <1>1, <1>4, <1>7, <1>10, <1>11 DEF SubmitInv, FormShape, AnswersTicked, AnswersHeld, c
  <1>13. DraftKeepsAnswers'
    BY <1>1, <1>4, <1>7, <1>8, <1>9, <1>10 DEF DraftKeepsAnswers, c
  <1>. QED BY <1>12, <1>13 DEF SubmitInv

LEMMA ChooseKeeps == ASSUME SubmitInv, NEW d \in Domains, ChoosePrimary(d) PROVE SubmitInv'
  <1>1. /\ ~done /\ d \in chips /\ primary' = d /\ chosen' = d /\ draft' = SavedDraft(text, chips, d)
        /\ UNCHANGED <<text, edits, chips, wanted, list, draftDomains, created, done>>
    BY DEF ChoosePrimary, postsV
  <1>2. chips \in SUBSET Domains /\ GoodList(draftDomains) /\ list = "ready" /\ wanted \subseteq chips
    BY <1>1 DEF SubmitInv, FormShape, AnswersHeld, AnswersTicked
  <1>3. draft'.kept /\ draft'.text = text' /\ GoodList(draft'.domains) /\ draft'.domains = PrimaryFirst(chips, d)
    BY <1>1, <1>2, SavedIsGood
  <1>4. PrimaryFirst(chips, d).all = chips /\ PrimaryFirst(chips, d).first = d
    BY <1>1, <1>2, PrimaryIsGood
  <1>5. FormShape' /\ AnswersTicked' /\ AnswersHeld'
    BY <1>1, <1>2, <1>3 DEF SubmitInv, FormShape, AnswersTicked, AnswersHeld
  <1>6. DraftKeepsAnswers'
    BY <1>1, <1>2, <1>3, <1>4 DEF DraftKeepsAnswers
  <1>. QED BY <1>5, <1>6 DEF SubmitInv

LEMMA ListArrivesKeeps == ASSUME SubmitInv, ListArrives PROVE SubmitInv'
  <1>1. /\ list = "loading" /\ list' = "ready" /\ chips' = draftDomains.all
        /\ primary' = FirstOf(draftDomains.all, draftDomains.first)
        /\ UNCHANGED <<text, edits, draftDomains, draft, created, done, wanted, chosen>>
    BY DEF ListArrives, postsV
  <1>2. /\ draftDomains.all \in SUBSET Domains
        /\ draftDomains = PrimaryFirst(draftDomains.all, FirstOf(draftDomains.all, draftDomains.first))
        /\ draftDomains.first # 0 =>
             draftDomains.first \in draftDomains.all
             /\ FirstOf(draftDomains.all, draftDomains.first) = draftDomains.first
    BY GoodListIsKept DEF SubmitInv, FormShape
  <1>3. /\ wanted \subseteq draftDomains.all /\ (chosen # 0 => draftDomains.first = chosen)
        /\ draft.kept => draft.domains = draftDomains
    BY <1>1 DEF SubmitInv, AnswersHeld
  <1>4. FormShape' /\ AnswersTicked' /\ AnswersHeld'
    BY <1>1, <1>2, <1>3 DEF SubmitInv, FormShape, AnswersTicked, AnswersHeld
  <1>5. draft.kept => draft.domains = PrimaryFirst(chips', primary')
    BY <1>1, <1>2, <1>3
  <1>6. DraftKeepsAnswers'
    BY <1>1, <1>5 DEF SubmitInv, DraftKeepsAnswers
  <1>. QED BY <1>4, <1>6 DEF SubmitInv

(* The form is emptied, or filled from the draft.                           *)
LEMMA FreshFormKeeps == ASSUME SubmitInv, Another \/ ReloadForm PROVE SubmitInv'
  <1>1. GoodList(NoDomains) /\ NoDomains.all = {} /\ NoDomains.first = 0 /\ NoDraft.domains = NoDomains
    BY DEF NoDomains, GoodList, DomainList, NoDraft
  <1>2. CASE Another
    <2>1. /\ done /\ ~done' /\ chips' = {} /\ draftDomains' = NoDomains /\ wanted' = {} /\ chosen' = 0
          /\ UNCHANGED <<edits, list, draft, created>>
      BY <1>2 DEF Another
    <2>2. created > 0 /\ created \in Nat /\ ~draft.kept
      BY <2>1 DEF SubmitInv, FormShape
    <2>3. FormShape' /\ AnswersTicked' /\ AnswersHeld'
      BY <1>1, <2>1, <2>2 DEF SubmitInv, FormShape, AnswersTicked, AnswersHeld
    <2>4. DraftKeepsAnswers'
      BY <2>1, <2>2 DEF DraftKeepsAnswers
    <2>. QED BY <2>3, <2>4 DEF SubmitInv
  <1>3. CASE ReloadForm
    <2>1. /\ ~done' /\ chips' = {} /\ draftDomains' = draft.domains /\ wanted' = draft.domains.all
          /\ text' = draft.text /\ list' = "loading" /\ chosen' = IF draft.kept THEN chosen ELSE 0
          /\ UNCHANGED <<edits, draft, created>>
      BY <1>3 DEF ReloadForm
    <2>2. GoodList(draft.domains) /\ (~draft.kept => draft.domains.all = {})
      BY <1>1 DEF SubmitInv, FormShape
    <2>3. draft.kept /\ chosen # 0 => draft.domains.first = chosen
      BY DEF SubmitInv, DraftKeepsAnswers
    <2>4. draft.domains.all \subseteq Domains
      BY <2>2, GoodListIsKept
    <2>5. FormShape' /\ AnswersTicked' /\ AnswersHeld'
      BY <2>1, <2>2, <2>3, <2>4 DEF SubmitInv, FormShape, AnswersTicked, AnswersHeld
    <2>6. DraftKeepsAnswers'
      BY <2>1, <2>2, <2>3 DEF SubmitInv, DraftKeepsAnswers
    <2>. QED BY <2>5, <2>6 DEF SubmitInv
  <1>. QED BY <1>2, <1>3

LEMMA SubmitStep == SubmitInv /\ [SubmitNext]_svars => SubmitInv'
  <1>. SUFFICES ASSUME SubmitInv, [SubmitNext]_svars PROVE SubmitInv'
    OBVIOUS
  <1>1. CASE TypeAnswer
    BY <1>1, TypeAnswerKeeps
  <1>2. CASE ListArrives
    BY <1>2, ListArrivesKeeps
  <1>3. CASE ListFails
    BY <1>3 DEF ListFails, SubmitInv, FormShape, AnswersTicked, AnswersHeld, DraftKeepsAnswers, domainsV, postsV
  <1>4. CASE Accepted
    <2>1. ~NoDraft.kept /\ created \in Nat
      BY DEF NoDraft, SubmitInv, FormShape
    <2>. QED BY <1>4, <2>1 DEF Accepted, SubmitInv, FormShape, AnswersTicked, AnswersHeld, DraftKeepsAnswers, domainsV
  <1>5. CASE Another \/ ReloadForm
    BY <1>5, FreshFormKeeps
  <1>6. ASSUME NEW d \in Domains, Tick(d) \/ ChoosePrimary(d) PROVE SubmitInv'
    BY <1>6, TickKeeps, ChooseKeeps
  <1>7. CASE NextStep \/ Unreachable \/ SignInFails \/ SubmitForm \/ Rejected
             \/ (\E i \in 0..ReviewStep : Jump(i)) \/ (\E u \in BOOLEAN : UserApplied(u))
    BY <1>7, AnswersStay DEF NextStep, Unreachable, SignInFails, SubmitForm, Rejected, Jump, UserApplied, SetService, postsV
  <1>8. CASE UNCHANGED svars
    BY <1>8, AnswersStay DEF svars, answersV, domainsV
  <1>. QED BY <1>1, <1>2, <1>3, <1>4, <1>5, <1>6, <1>7, <1>8 DEF SubmitNext

(* The draft keeps the text, every domain that was chosen and the primary   *)
(* one in front, whether the list of domains came early, late or never, and *)
(* over any number of reloads (submit.js: saveDraft and restoreDraft), for  *)
(* any domains.                                                             *)
THEOREM DraftLosesNoAnswer == SubmitSpec => []DraftKeepsAnswers
  <1>1. SubmitInv => DraftKeepsAnswers
    BY DEF SubmitInv
  <1>. QED BY <1>1, SubmitStarts, SubmitStep, PTL DEF SubmitSpec

(***************************************************************************)
(*                   The pre-flight check of a task PR                     *)
(***************************************************************************)
(* A check in flight.  Unless a push overtook it, it knows the head, and    *)
(* its list of files tells which tasks of that head existed before.         *)
Heads == [Paths -> Dir]
FileLists == [status: [Paths -> {"renamed", "added", "removed", "modified", "none"}],
              touched: SUBSET Paths, previous: SUBSET Paths]
ReadsFiles == [at: {"files"}, head: Heads, link: Links, moved: BOOLEAN]
ReadsTree == [at: {"tree"}, head: Heads, link: Links, moved: BOOLEAN, files: FileLists]

TellsBefore(h, f) ==
  /\ \A q \in Paths : q \in f.previous <=> HasToml(base[q]) /\ ~HasToml(h[q])
  /\ \A p \in f.touched :
       /\ HasToml(base[p]) => f.status[p] \notin {"added", "renamed"}
                              /\ (f.status[p] = "none" => HasToml(h[p]))
       /\ ~HasToml(base[p]) => f.status[p] \in {"added", "renamed"}
                               \/ (f.status[p] = "none" /\ ~HasToml(h[p]))

CheckKnows ==
  /\ check \in ReadsFiles /\ ~check.moved => check.head = head
  /\ check \in ReadsTree /\ ~check.moved => TellsBefore(check.head, check.files)

CheckInv ==
  /\ head \in Heads /\ check \in {NoCheck} \cup ReadsFiles \cup ReadsTree
  /\ CheckKnows /\ JudgedByWhatExisted

-----------------------------------------------------------------------------
(* A rule that fails is broken, and Verdict is "fail" for one that is.      *)
LEMMA VerdictFails ==
  ASSUME NEW levels PROVE Verdict(levels) = "fail" <=> "fail" \in levels
  BY DEF Verdict

(* Whatever GitHub lists as renames, its list tells what was there.         *)
LEMMA ListsTellBefore ==
  ASSUME NEW h, NEW m \in Renames(h) PROVE Listed(h, m) \in FileLists /\ TellsBefore(h, Listed(h, m))
  <1>. DEFINE new == {a[2] : a \in m}
              gone == {a[1] : a \in m}
              St(x) == CASE x \in new -> "renamed"
                         [] x \in Added(h) \ new -> "added"
                         [] x \in Gone(h) \ gone -> "removed"
                         [] HasToml(base[x]) /\ HasToml(h[x]) /\ base[x] # h[x] -> "modified"
                         [] OTHER -> "none"
              s == [x \in Paths |-> St(x)]
              t == {x \in Paths : h[x] # base[x] /\ x \notin gone}
  <1>1. Listed(h, m) = [status |-> s, touched |-> t, previous |-> Gone(h)]
    BY DEF Listed
  <1>2. new \subseteq Added(h)
    <2>1. \A a \in m : a \in Gone(h) \X Added(h)
      BY DEF Renames
    <2>. QED BY <2>1
  <1>3. \A x \in Paths : /\ x \in Added(h) <=> ~HasToml(base[x]) /\ HasToml(h[x])
                         /\ x \in Gone(h) <=> HasToml(base[x]) /\ ~HasToml(h[x])
    BY DEF Added, Gone
  <1>4. Gone(h) \subseteq Paths /\ t \subseteq Paths /\ \A x \in t : x \notin gone
    BY DEF Gone
  <1>. HIDE DEF new, gone
  <1>5. ASSUME NEW x \in Paths PROVE St(x) \in {"renamed", "added", "removed", "modified", "none"}
    OBVIOUS
  <1>6. ASSUME NEW x \in Paths, HasToml(base[x]), x \notin gone
        PROVE  St(x) \notin {"added", "renamed"} /\ (St(x) = "none" => HasToml(h[x]))
    <2>1. x \notin new /\ x \notin Added(h)
      BY <1>2, <1>3, <1>6
    <2>. QED BY <1>3, <1>6, <2>1
  <1>7. ASSUME NEW x \in Paths, ~HasToml(base[x])
        PROVE  St(x) \in {"added", "renamed"} \/ (St(x) = "none" /\ ~HasToml(h[x]))
    <2>1. x \notin Gone(h)
      BY <1>3, <1>7
    <2>2. CASE x \in Added(h)
      <3>1. St(x) = IF x \in new THEN "renamed" ELSE "added"
        BY <1>7, <2>1, <2>2
      <3>. HIDE DEF St
      <3>. QED BY <3>1
    <2>3. CASE x \notin Added(h)
      BY <1>2, <1>3, <1>7, <2>1, <2>3
    <2>. QED BY <2>2, <2>3
  <1>8. \A x \in Paths : s[x] = St(x)
    OBVIOUS
  <1>. HIDE DEF St, t
  <1>9. s \in [Paths -> {"renamed", "added", "removed", "modified", "none"}]
    BY <1>5
  <1>. HIDE DEF s
  <1>. QED BY <1>1, <1>3, <1>4, <1>6, <1>7, <1>8, <1>9 DEF FileLists, TellsBefore

(* A report is on a new task exactly when its task did not exist, as far as *)
(* names could be read.                                                     *)
LEMMA NewIsNew ==
  ASSUME NEW c, TellsBefore(c.head, c.files), c.files.previous \subseteq Paths,
         NEW p \in c.files.touched, p \in Paths,
         NEW tree \in BOOLEAN, NEW read \in BOOLEAN, NEW readBase \in BOOLEAN,
         NEW r, r.path = p, r.head = c.head
  PROVE  /\ ~Existed(r) => NewTask(p, c, tree, read, readBase)
         /\ Existed(r) /\ read /\ readBase => ~NewTask(p, c, tree, read, readBase)
  <1>. DEFINE h == c.head
              s == c.files.status[p]
  <1>1. /\ HasToml(base[p]) => s \notin {"added", "renamed"} /\ (s = "none" => HasToml(h[p]))
        /\ ~HasToml(base[p]) => s \in {"added", "renamed"} \/ (s = "none" /\ ~HasToml(h[p]))
    BY DEF TellsBefore
  <1>2. \A q : q \in c.files.previous <=> q \in Paths /\ HasToml(base[q]) /\ ~HasToml(h[q])
    BY DEF TellsBefore
  <1>3. Existed(r) <=>
          \/ HasToml(base[p])
          \/ \E q \in Paths : /\ q.slug = p.slug /\ HasToml(base[q]) /\ ~HasToml(h[q])
                              /\ HasToml(h[p]) /\ TaskName(h[p]) # "" /\ TaskName(base[q]) = TaskName(h[p])
    BY DEF Existed, TaskOf
  <1>4. Migrated(p, c, tree, read, readBase) => Existed(r)
    BY <1>2, <1>3 DEF Migrated
  <1>5. NewTask(p, c, tree, read, readBase) <=>
          /\ IF s # "none" THEN s \in {"added", "renamed"} ELSE ~HasToml(h[p])
          /\ ~Migrated(p, c, tree, read, readBase)
    BY DEF NewTask
  <1>6. ~Existed(r) => NewTask(p, c, tree, read, readBase)
    BY <1>1, <1>3, <1>4, <1>5
  <1>7. ASSUME Existed(r), read, readBase PROVE ~NewTask(p, c, tree, read, readBase)
    <2>1. CASE HasToml(base[p])
      BY <1>1, <1>5, <2>1
    <2>2. ASSUME NEW q \in Paths, q.slug = p.slug, HasToml(base[q]), ~HasToml(h[q]), HasToml(h[p]),
                 TaskName(h[p]) # "", TaskName(base[q]) = TaskName(h[p])
          PROVE  ~NewTask(p, c, tree, read, readBase)
      <3>1. q \in c.files.previous
        BY <1>2, <2>2
      <3>2. Migrated(p, c, tree, read, readBase)
        BY <1>7, <2>2, <3>1 DEF Migrated
      <3>. QED BY <1>5, <3>2
    <2>. QED BY <1>3, <1>7, <2>1, <2>2
  <1>. QED BY <1>6, <1>7

(* What it takes for a new task to pass, and what fails any other.          *)
LEMMA NewTaskRules ==
  ASSUME NEW d, NEW read, NEW p, NEW link, CheckTask(d, read, p, TRUE, link, TRUE) # "fail"
  PROVE  /\ link # "none" /\ d.toml /\ d.complete /\ p.folder \in NewFolders /\ p.slug \in KebabSlugs
         /\ read => d.metadata /\ d.domain /\ d.table /\ d.name = "slug" /\ d.description
  <1>1. "fail" \notin Required(d, read, p, TRUE, link, TRUE)
    BY VerdictFails DEF CheckTask
  <1>2. d.toml /\ d.complete
    BY <1>1 DEF Required, Rule
  <1>3. d # NoTask
    BY <1>2 DEF NoTask, Good
  <1>4. HasToml(d)
    BY <1>2, <1>3 DEF HasToml
  <1>5. link # "none" /\ p.folder \in NewFolders /\ p.slug \in KebabSlugs
    BY <1>1, <1>2 DEF Required, Rule
  <1>6. read => d.metadata /\ d.table
    BY <1>1, <1>4 DEF Required, Rule
  <1>7. read => d.domain /\ d.name = "slug" /\ d.description
    BY <1>1, <1>4, <1>6 DEF Required, Rule
  <1>. QED BY <1>2, <1>5, <1>6, <1>7

LEMMA RepairRules ==
  ASSUME NEW d, NEW read, NEW p, NEW link, CheckTask(d, read, p, TRUE, link, FALSE) = "fail"
  PROVE  \/ ~d.toml \/ ~d.complete \/ ~d.metadata
         \/ p.slug \notin KebabSlugs \/ (d.table /\ d.name \in BadNames)
  <1>1. "fail" \in Required(d, read, p, TRUE, link, FALSE) \cup Meta(d, read, TRUE) \cup Content(d)
    BY VerdictFails DEF CheckTask
  <1>2. "fail" \notin Meta(d, read, TRUE) /\ "fail" \notin Content(d)
    BY DEF Meta, Content, Rule
  <1>3. "fail" \in Required(d, read, p, TRUE, link, FALSE)
    BY <1>1, <1>2
  <1>. QED BY <1>3 DEF Required, Rule

-----------------------------------------------------------------------------
LEMMA CheckStarts == CheckInit => CheckInv
  <1>. SUFFICES ASSUME CheckInit PROVE CheckInv
    OBVIOUS
  <1>1. {Good, [Good EXCEPT !.name = "other"], NoTask} \subseteq Dir
    BY DEF Dir, Task
  <1>2. head \in Heads
    BY <1>1 DEF CheckInit, Heads
  <1>3. NoCheck \notin ReadsFiles /\ NoCheck \notin ReadsTree
    BY DEF NoCheck, ReadsFiles, ReadsTree
  <1>4. CheckKnows /\ JudgedByWhatExisted
    BY <1>3 DEF CheckInit, CheckKnows, JudgedByWhatExisted, NewTasksMeetTheRules, RepairsNeedNoProposal
  <1>. QED BY <1>2, <1>4 DEF CheckInit, CheckInv

LEMMA PushKeeps == ASSUME CheckInv, NEW h \in Heads, PushTo(h) PROVE CheckInv'
  <1>1. /\ head' = h /\ UNCHANGED <<base, reports>>
        /\ check' = IF check = NoCheck THEN check ELSE [check EXCEPT !.moved = TRUE]
    BY DEF PushTo
  <1>2. JudgedByWhatExisted'
    BY <1>1 DEF CheckInv, JudgedByWhatExisted, NewTasksMeetTheRules, RepairsNeedNoProposal, Existed, TaskOf
  <1>3. NoCheck \notin ReadsFiles /\ NoCheck \notin ReadsTree
    BY DEF NoCheck, ReadsFiles, ReadsTree
  <1>4. CASE check = NoCheck
    BY <1>1, <1>2, <1>3, <1>4 DEF CheckInv, CheckKnows
  <1>5. CASE check \in ReadsFiles
    <2>1. check' = [check EXCEPT !.moved = TRUE]
      BY <1>1, <1>3, <1>5
    <2>2. check' \in ReadsFiles /\ check'.moved
      BY <1>5, <2>1 DEF ReadsFiles
    <2>. QED BY <1>1, <1>2, <2>2 DEF CheckInv, CheckKnows
  <1>6. CASE check \in ReadsTree
    <2>1. check' = [check EXCEPT !.moved = TRUE]
      BY <1>1, <1>3, <1>6
    <2>2. check' \in ReadsTree /\ check'.moved
      BY <1>6, <2>1 DEF ReadsTree
    <2>. QED BY <1>1, <1>2, <2>2 DEF CheckInv, CheckKnows
  <1>. QED BY <1>4, <1>5, <1>6 DEF CheckInv

LEMMA ReadFilesKeeps == ASSUME CheckInv, ReadFiles PROVE CheckInv'
  <1>1. PICK m \in Renames(head) :
          check' = [at |-> "tree", head |-> check.head, link |-> check.link, moved |-> check.moved,
                    files |-> Listed(head, m)]
    BY DEF ReadFiles
  <1>2. check \in ReadsFiles /\ UNCHANGED <<base, head, reports>>
    BY DEF CheckInv, ReadFiles, ReadsTree
  <1>3. head \in Heads
    BY DEF CheckInv
  <1>4. Listed(head, m) \in FileLists /\ TellsBefore(head, Listed(head, m))
    BY ListsTellBefore
  <1>5. check' \in ReadsTree
    BY <1>1, <1>2, <1>4 DEF ReadsFiles, ReadsTree
  <1>6. ~check.moved => check.head = head
    BY <1>2 DEF CheckInv, CheckKnows
  <1>7. check' \notin ReadsFiles
    BY <1>5 DEF ReadsFiles, ReadsTree
  <1>. DEFINE c == check'
  <1>8. ~c.moved => TellsBefore(c.head, c.files)
    BY <1>1, <1>4, <1>6
  <1>9. CheckKnows'
    BY <1>2, <1>7, <1>8 DEF CheckKnows, TellsBefore
  <1>10. JudgedByWhatExisted'
    BY <1>2 DEF CheckInv, JudgedByWhatExisted, NewTasksMeetTheRules, RepairsNeedNoProposal, Existed, TaskOf
  <1>. QED BY <1>2, <1>3, <1>5, <1>9, <1>10 DEF CheckInv

(* The reports of a PR.                                                     *)
LEMMA ReadTreeKeeps ==
  ASSUME CheckInv, NEW tree \in BOOLEAN, NEW read \in BOOLEAN, NEW readBase \in BOOLEAN,
         ReadTree(tree, read, readBase)
  PROVE  CheckInv'
  <1>. DEFINE Report(p) ==
                [path |-> p, head |-> check.head, new |-> NewTask(p, check, tree, read, readBase),
                 read |-> read, readBase |-> readBase, moved |-> check.moved, link |-> check.link,
                 verdict |-> CheckTask(check.head[p], read, p, TRUE, check.link,
                                       NewTask(p, check, tree, read, readBase))]
  <1>1. check \in ReadsTree /\ check' = NoCheck /\ UNCHANGED <<base, head>>
    BY DEF CheckInv, ReadTree, ReadsFiles
  <1>2. \A r \in reports' : \E p \in check.files.touched : r = Report(p)
    BY DEF ReadTree
  <1>3. check.files.touched \subseteq Paths /\ check.files.previous \subseteq Paths
    BY <1>1 DEF ReadsTree, FileLists
  <1>4. \A q : NewTask(q, check, tree, read, readBase) \in BOOLEAN
    BY DEF NewTask
  <1>5. ASSUME NEW r \in reports', r.link # NoPR, ~r.moved
        PROVE  /\ ~Existed(r) =>
                    /\ r.new
                    /\ r.verdict # "fail" =>
                         /\ r.link # "none" /\ TaskOf(r).toml /\ TaskOf(r).complete
                         /\ r.path.folder \in NewFolders /\ r.path.slug \in KebabSlugs
                         /\ r.read => /\ TaskOf(r).metadata /\ TaskOf(r).domain /\ TaskOf(r).table
                                      /\ TaskOf(r).name = "slug" /\ TaskOf(r).description
               /\ r.read /\ r.readBase /\ Existed(r) /\ r.verdict = "fail" =>
                    \/ ~TaskOf(r).toml \/ ~TaskOf(r).complete \/ ~TaskOf(r).metadata
                    \/ r.path.slug \notin KebabSlugs \/ (TaskOf(r).table /\ TaskOf(r).name \in BadNames)
    <2>1. PICK p \in check.files.touched : r = Report(p)
      BY <1>2
    <2>. DEFINE new == NewTask(p, check, tree, read, readBase)
    <2>2. /\ r.path = p /\ r.head = check.head /\ r.new = new /\ r.read = read /\ r.readBase = readBase
          /\ r.moved = check.moved /\ r.link = check.link
          /\ r.verdict = CheckTask(check.head[p], read, p, TRUE, check.link, new)
      BY <2>1
    <2>3. TellsBefore(check.head, check.files)
      BY <1>1, <1>5, <2>2 DEF CheckInv, CheckKnows
    <2>4. (~Existed(r) => new) /\ (Existed(r) /\ read /\ readBase => ~new)
      BY <1>3, <2>2, <2>3, NewIsNew
    <2>5. new \in BOOLEAN /\ TaskOf(r) = check.head[p]
      BY <1>4, <2>2 DEF TaskOf
    <2>. HIDE DEF new
    <2>6. ASSUME ~Existed(r) PROVE new = TRUE
      BY <2>4, <2>5, <2>6
    <2>7. ASSUME Existed(r), r.read, r.readBase PROVE new = FALSE
      BY <2>2, <2>4, <2>5, <2>7
    <2>8. ASSUME ~Existed(r), r.verdict # "fail"
          PROVE  /\ r.link # "none" /\ TaskOf(r).toml /\ TaskOf(r).complete
                 /\ r.path.folder \in NewFolders /\ r.path.slug \in KebabSlugs
                 /\ r.read => /\ TaskOf(r).metadata /\ TaskOf(r).domain /\ TaskOf(r).table
                              /\ TaskOf(r).name = "slug" /\ TaskOf(r).description
      <3>1. CheckTask(check.head[p], read, p, TRUE, check.link, TRUE) # "fail"
        BY <2>2, <2>6, <2>8
      <3>. DEFINE d == check.head[p]
      <3>2. /\ check.link # "none" /\ d.toml /\ d.complete /\ p.folder \in NewFolders /\ p.slug \in KebabSlugs
            /\ read => d.metadata /\ d.domain /\ d.table /\ d.name = "slug" /\ d.description
        BY <3>1, NewTaskRules
      <3>. QED BY <2>2, <2>5, <3>2
    <2>9. ASSUME Existed(r), r.read, r.readBase, r.verdict = "fail"
          PROVE  \/ ~TaskOf(r).toml \/ ~TaskOf(r).complete \/ ~TaskOf(r).metadata
                 \/ r.path.slug \notin KebabSlugs \/ (TaskOf(r).table /\ TaskOf(r).name \in BadNames)
      <3>1. CheckTask(check.head[p], read, p, TRUE, check.link, FALSE) = "fail"
        BY <2>2, <2>7, <2>9
      <3>. QED BY <2>2, <2>5, <3>1, RepairRules
    <2>. QED BY <2>2, <2>4, <2>8, <2>9
  <1>6. \A r : Existed(r)' = Existed(r) /\ TaskOf(r)' = TaskOf(r)
    BY <1>1 DEF Existed, TaskOf
  <1>7. JudgedByWhatExisted'
    BY <1>1, <1>5 DEF JudgedByWhatExisted, NewTasksMeetTheRules, RepairsNeedNoProposal, Existed, TaskOf
  <1>8. CheckKnows'
    BY <1>1 DEF CheckKnows, NoCheck, ReadsFiles, ReadsTree
  <1>. QED BY <1>1, <1>7, <1>8 DEF CheckInv

(* Outside of a PR, every report says so.                                   *)
LEMMA AloneKeeps ==
  ASSUME CheckInv, UNCHANGED <<base, head, check>>, \A r \in reports' : r.link = NoPR PROVE CheckInv'
  <1>1. JudgedByWhatExisted'
    BY DEF JudgedByWhatExisted, NewTasksMeetTheRules, RepairsNeedNoProposal
  <1>2. CheckKnows'
    BY DEF CheckInv, CheckKnows, TellsBefore
  <1>. QED BY <1>1, <1>2 DEF CheckInv

LEMMA CheckStep == CheckInv /\ [CheckNext]_kvars => CheckInv'
  <1>. SUFFICES ASSUME CheckInv, [CheckNext]_kvars PROVE CheckInv'
    OBVIOUS
  <1>0. head \in Heads /\ NoTask \in Dir
    BY DEF CheckInv, Dir
  <1>1. CASE ReadFiles
    BY <1>1, ReadFilesKeeps
  <1>2. ASSUME NEW p \in Paths, NEW d \in Dir, Push(p, d) PROVE CheckInv'
    <2>1. [head EXCEPT ![p] = d] \in Heads
      BY <1>0 DEF Heads
    <2>. QED BY <1>2, <2>1, PushKeeps DEF Push
  <1>3. ASSUME NEW p \in Paths, NEW d \in Dir, NEW q \in Paths, MoveTask(p, q, d) PROVE CheckInv'
    <2>1. [head EXCEPT ![p] = NoTask, ![q] = d] \in Heads
      BY <1>0 DEF Heads
    <2>. QED BY <1>3, <2>1, PushKeeps DEF MoveTask
  <1>4. ASSUME NEW link \in Links, ReadPR(link) PROVE CheckInv'
    <2>1. /\ reports' = {} /\ UNCHANGED <<base, head>>
          /\ check' = [at |-> "files", head |-> head, link |-> link, moved |-> FALSE]
      BY <1>4 DEF ReadPR
    <2>2. check' \in ReadsFiles /\ check'.head = head
      BY <1>0, <2>1 DEF ReadsFiles
    <2>3. check' \notin ReadsTree
      BY <2>1 DEF ReadsTree
    <2>4. CheckKnows'
      BY <2>1, <2>2, <2>3 DEF CheckKnows
    <2>5. JudgedByWhatExisted'
      BY <2>1 DEF JudgedByWhatExisted, NewTasksMeetTheRules, RepairsNeedNoProposal
    <2>. QED BY <1>0, <2>1, <2>2, <2>4, <2>5 DEF CheckInv
  <1>5. ASSUME NEW tree \in BOOLEAN, NEW read \in BOOLEAN, NEW readBase \in BOOLEAN, ReadTree(tree, read, readBase)
        PROVE  CheckInv'
    BY <1>5, ReadTreeKeeps
  <1>6. ASSUME NEW known \in BOOLEAN, NEW read \in BOOLEAN, CheckFolder(known, read) \/ CheckListing(known, read)
        PROVE  CheckInv'
    <2>1. UNCHANGED <<base, head, check>>
      BY <1>6 DEF CheckFolder, CheckListing
    <2>2. \A p : Alone(p, known, read).link = NoPR /\ Alone(p, TRUE, read).link = NoPR
      BY DEF Alone
    <2>3. \/ reports' = {}
          \/ reports' = {Alone(p, known, read) : p \in Found}
          \/ reports' = {Alone(p, TRUE, read) : p \in Found}
      BY <1>6 DEF CheckFolder, CheckListing
    <2>4. ASSUME NEW r \in reports' PROVE r.link = NoPR
      <3>1. (\E p \in Found : r = Alone(p, known, read)) \/ (\E p \in Found : r = Alone(p, TRUE, read))
        BY <2>3
      <3>. QED BY <2>2, <3>1, Zenon
    <2>. QED BY <2>1, <2>4, AloneKeeps
  <1>7. CASE UNCHANGED kvars
    BY <1>7 DEF kvars, CheckInv, CheckKnows, TellsBefore, JudgedByWhatExisted,
       NewTasksMeetTheRules, RepairsNeedNoProposal, Existed, TaskOf
  <1>. QED BY <1>1, <1>2, <1>3, <1>4, <1>5, <1>6, <1>7 DEF CheckNext

(* A task that did not exist before the PR is judged by the rules for new   *)
(* tasks, and one that did by those for repairs, however GitHub names the   *)
(* changes and whatever could not be read (preflight.js, task-check.js):    *)
(* for any task directories, and any pushes while the page reads.           *)
THEOREM JudgedByHistory == CheckSpec => []JudgedByWhatExisted
  <1>1. CheckInv => JudgedByWhatExisted
    BY DEF CheckInv
  <1>. QED BY <1>1, CheckStarts, CheckStep, PTL DEF CheckSpec

(***************************************************************************)
(*                     The reviews of one proposal                         *)
(***************************************************************************)
ThreadRow == [login: Logins, upper: BOOLEAN, at: Nat, decision: Verdicts, score: {0, 2}]
Places == 1..Len(thread)

(* Wherever they stand in the list, the reviews were written one after the  *)
(* other.                                                                   *)
ThreadInv ==
  /\ thread \in Seq(ThreadRow)
  /\ \A i \in Places : thread[i].at \in Places
  /\ \A i, j \in Places : thread[i].at = thread[j].at => i = j
  /\ \A k \in Places : \E i \in Places : thread[i].at = k

LEMMA InsertIs ==
  ASSUME NEW S, NEW s \in Seq(S), NEW e \in S, NEW p \in 1..(Len(s) + 1), NEW t, t = InsertAt(s, p, e)
  PROVE  /\ t \in Seq(S) /\ Len(t) = Len(s) + 1 /\ Len(s) \in Nat
         /\ \A i \in 1..Len(t) : t[i] = IF i < p THEN s[i] ELSE IF i = p THEN e ELSE s[i - 1]
  <1>. DEFINE a == SubSeq(s, 1, p - 1)
              b == SubSeq(s, p, Len(s))
              c == a \o <<e>>
  <1>1. Len(s) \in Nat /\ p \in Nat /\ p >= 1 /\ p <= Len(s) + 1
    OBVIOUS
  <1>2. a \in Seq(S) /\ Len(a) = p - 1 /\ \A i \in 1..(p - 1) : a[i] = s[i]
    BY <1>1
  <1>3. b \in Seq(S) /\ Len(b) = Len(s) - p + 1 /\ \A i \in 1..(Len(s) - p + 1) : b[i] = s[p + i - 1]
    BY <1>1
  <1>4. t = c \o b
    BY DEF InsertAt
  <1>. HIDE DEF a, b
  <1>5. /\ c \in Seq(S) /\ Len(c) = p
        /\ \A i \in 1..p : c[i] = IF i = p THEN e ELSE s[i]
    BY <1>1, <1>2
  <1>. HIDE DEF c
  <1>6. t \in Seq(S) /\ Len(t) = Len(s) + 1
    <2>1. c \in Seq(S) /\ b \in Seq(S)
      BY <1>3, <1>5
    <2>2. t \in Seq(S) /\ Len(t) = Len(c) + Len(b)
      BY <1>4, <2>1
    <2>. QED BY <1>1, <1>3, <1>5, <2>2
  <1>7. ASSUME NEW i \in 1..Len(t) PROVE t[i] = IF i < p THEN s[i] ELSE IF i = p THEN e ELSE s[i - 1]
    <2>1. CASE i <= p
      BY <1>1, <1>3, <1>4, <1>5, <1>6, <2>1
    <2>2. CASE i > p
      <3>1. t[i] = b[i - p] /\ i - p \in 1..(Len(s) - p + 1)
        BY <1>1, <1>3, <1>4, <1>5, <1>6, <2>2
      <3>2. b[i - p] = s[p + (i - p) - 1] /\ p + (i - p) - 1 = i - 1
        BY <1>1, <1>3, <3>1
      <3>. QED BY <1>1, <2>2, <3>1, <3>2
    <2>. QED BY <1>1, <1>6, <2>1, <2>2
  <1>. QED BY <1>1, <1>6, <1>7

LEMMA ThreadStep == ThreadInv /\ [ThreadNext]_thread => ThreadInv'
  <1>. SUFFICES ASSUME ThreadInv, [ThreadNext]_thread PROVE ThreadInv'
    OBVIOUS
  <1>1. CASE UNCHANGED thread
    BY <1>1 DEF ThreadInv, Places
  <1>2. ASSUME NEW r \in Arriving, NEW place \in 1..MaxReviews, ReviewArrives(r, place)
        PROVE  ThreadInv'
    <2>. DEFINE n == Len(thread)
                new == [login |-> r.login, upper |-> r.upper, at |-> n + 1, decision |-> r.decision, score |-> r.score]
    <2>1. n \in Nat /\ thread \in Seq(ThreadRow)
      BY DEF ThreadInv
    <2>2. new \in ThreadRow /\ new.at = n + 1
      BY <2>1, ThreadAssumption DEF ThreadRow, ArrivingReview
    <2>3. place \in 1..(n + 1) /\ thread' = InsertAt(thread, place, new)
      BY <1>2 DEF ReviewArrives
    <2>. HIDE DEF new
    <2>4. /\ thread' \in Seq(ThreadRow) /\ Len(thread') = n + 1
          /\ \A i \in 1..Len(thread') :
               thread'[i] = IF i < place THEN thread[i] ELSE IF i = place THEN new ELSE thread[i - 1]
      BY <2>1, <2>2, <2>3, InsertIs
    <2>. HIDE DEF n
    <2>. DEFINE From(i) == IF i < place THEN i ELSE i - 1
                To(i) == IF i < place THEN i ELSE i + 1
    <2>5. \A i \in 1..(n + 1) : i # place => From(i) \in 1..n /\ thread'[i] = thread[From(i)]
      BY <2>1, <2>3, <2>4
    <2>6. \A i \in 1..n : To(i) \in 1..(n + 1) /\ To(i) # place /\ thread'[To(i)] = thread[i]
      <3>1. \A i \in 1..n : To(i) \in 1..(n + 1) /\ To(i) # place /\ From(To(i)) = i
        BY <2>1, <2>3
      <3>. HIDE DEF From, To
      <3>. QED BY <2>5, <3>1
    <2>7. \A i, j \in 1..(n + 1) : i # place /\ j # place /\ From(i) = From(j) => i = j
      BY <2>1, <2>3
    <2>8. thread'[place] = new
      BY <2>1, <2>3, <2>4
    <2>9. /\ \A i \in 1..n : thread[i].at \in 1..n
          /\ \A i, j \in 1..n : thread[i].at = thread[j].at => i = j
          /\ \A k \in 1..n : \E i \in 1..n : thread[i].at = k
      BY DEF ThreadInv, Places, n
    <2>. HIDE DEF From, To
    <2>10. \A i \in 1..(n + 1) : thread'[i].at \in 1..(n + 1) /\ (i # place => thread'[i].at \in 1..n)
      <3>1. ASSUME NEW i \in 1..(n + 1), i # place PROVE thread'[i].at \in 1..n
        BY <2>5, <2>9, <3>1
      <3>2. n + 1 \in 1..(n + 1) /\ \A k \in 1..n : k \in 1..(n + 1)
        BY <2>1
      <3>. QED BY <2>2, <2>8, <3>1, <3>2
    <2>11. \A i, j \in 1..(n + 1) : thread'[i].at = thread'[j].at => i = j
      <3>. SUFFICES ASSUME NEW i \in 1..(n + 1), NEW j \in 1..(n + 1), thread'[i].at = thread'[j].at PROVE i = j
        OBVIOUS
      <3>1. n + 1 \notin 1..n
        BY <2>1
      <3>2. CASE i = place \/ j = place
        BY <2>2, <2>8, <2>10, <3>1, <3>2
      <3>3. CASE i # place /\ j # place
        BY <2>5, <2>7, <2>9, <3>3
      <3>. QED BY <3>2, <3>3
    <2>12. \A k \in 1..(n + 1) : \E i \in 1..(n + 1) : thread'[i].at = k
      <3>. SUFFICES ASSUME NEW k \in 1..(n + 1) PROVE \E i \in 1..(n + 1) : thread'[i].at = k
        OBVIOUS
      <3>1. CASE k = n + 1
        BY <2>2, <2>3, <2>8, <3>1
      <3>2. CASE k # n + 1
        <4>1. k \in 1..n
          BY <2>1, <3>2
        <4>2. PICK i \in 1..n : thread[i].at = k
          BY <2>9, <4>1
        <4>. QED BY <2>6, <4>2
      <3>. QED BY <3>1, <3>2
    <2>. QED BY <2>4, <2>10, <2>11, <2>12 DEF ThreadInv, Places
  <1>. QED BY <1>1, <1>2 DEF ThreadNext

LEMMA ThreadStart == ThreadInit => ThreadInv
  BY DEF ThreadInit, ThreadInv, Places

LEMMA ItemIs ==
  ASSUME ThreadInv, NEW i \in Places
  PROVE  thread[i].at \in Nat /\ thread[i].decision \in Verdicts /\ thread[i].score \in {0, 2}
  <1>1. thread[i] \in ThreadRow
    BY DEF ThreadInv, Places
  <1>. QED BY <1>1 DEF ThreadRow

-----------------------------------------------------------------------------
(* There is a sorted list, so the one that is used is sorted.               *)
LEMMA SortedIs ==
  ASSUME ThreadInv
  PROVE  /\ Len(thread) \in Nat /\ DOMAIN thread = Places
         /\ NewestFirst \in [Places -> Places]
         /\ \A i \in Places : \E m \in Places : NewestFirst[m] = i
         /\ \A m, n \in Places : m < n => thread[NewestFirst[m]].at > thread[NewestFirst[n]].at
  <1>. DEFINE n == Len(thread)
              WrittenAs(k) == CHOOSE i \in Places : thread[i].at = k
              sorted == [m \in Places |-> WrittenAs(n + 1 - m)]
  <1>1. n \in Nat /\ DOMAIN thread = Places /\ Places = 1..n
    BY DEF ThreadInv, Places
  <1>2. \A m \in Places : n + 1 - m \in Places
    BY <1>1
  <1>3. \A k \in Places : WrittenAs(k) \in Places /\ thread[WrittenAs(k)].at = k
    BY DEF ThreadInv
  <1>. HIDE DEF WrittenAs
  <1>4. sorted \in [Places -> Places]
    BY <1>2, <1>3
  <1>5. \A m \in Places : sorted[m] \in Places /\ thread[sorted[m]].at = n + 1 - m
    BY <1>2, <1>3
  <1>. HIDE DEF sorted, n
  <1>6. ASSUME NEW l \in Places, NEW m \in Places, sorted[l] = sorted[m] PROVE l = m
    <2>1. n + 1 - l = n + 1 - m
      BY <1>5, <1>6
    <2>. QED BY <1>1, <2>1
  <1>7. ASSUME NEW i \in Places PROVE \E m \in Places : sorted[m] = i
    <2>1. thread[i].at \in Places
      BY DEF ThreadInv
    <2>2. n + 1 - thread[i].at \in Places /\ n + 1 - (n + 1 - thread[i].at) = thread[i].at
      BY <1>1, <1>2, <2>1
    <2>3. thread[sorted[n + 1 - thread[i].at]].at = thread[i].at /\ sorted[n + 1 - thread[i].at] \in Places
      BY <1>5, <2>2
    <2>4. sorted[n + 1 - thread[i].at] = i
      BY <2>3 DEF ThreadInv
    <2>. QED BY <2>2, <2>4
  <1>8. sorted \in Orders
    BY <1>1, <1>4, <1>6, <1>7 DEF Orders, Bijection, Injection, Surjection, IsInjective
  <1>9. \A l, m \in Places : l < m => thread[sorted[l]].at > thread[sorted[m]].at
    <2>1. \A l, m \in Places : l < m => n + 1 - l > n + 1 - m
      BY <1>1
    <2>. QED BY <1>5, <2>1
  <1>10. /\ NewestFirst \in Orders
         /\ \A l, m \in Places : l < m => thread[NewestFirst[l]].at > thread[NewestFirst[m]].at
    BY <1>1, <1>8, <1>9 DEF NewestFirst
  <1>. QED BY <1>1, <1>10 DEF Orders, Bijection, Injection, Surjection, n

(* The newest review of each login is the one that counts.                  *)
Newest == {i \in DOMAIN thread : \A j \in DOMAIN thread :
             thread[j].login = thread[i].login => thread[j].at <= thread[i].at}

LEMMA CurrentIsNewest == ASSUME ThreadInv PROVE CurrentItems = Newest
  <1>. DEFINE order == NewestFirst
              firsts == {n \in DOMAIN order : \A m \in 1..(n - 1) : ~SameReviewer(order[m], order[n])}
  <1>1. /\ Len(thread) \in Nat /\ DOMAIN thread = Places
        /\ order \in [Places -> Places]
        /\ \A i \in Places : \E m \in Places : order[m] = i
        /\ \A m, n \in Places : m < n => thread[order[m]].at > thread[order[n]].at
    BY SortedIs
  <1>2. Current = [k \in firsts |-> order[k]]
    BY DEF Current
  <1>3. CurrentItems = {order[k] : k \in firsts}
    BY <1>2 DEF CurrentItems
  <1>4. \A i \in Places : thread[i].at \in Nat
    BY ItemIs
  <1>5. \A n \in Places : \A m : m \in 1..(n - 1) <=> m \in Places /\ m < n
    BY <1>1 DEF Places
  <1>. HIDE DEF order
  <1>6. ASSUME NEW k \in firsts PROVE order[k] \in Newest
    <2>1. k \in Places /\ order[k] \in Places
      BY <1>1
    <2>2. ASSUME NEW j \in Places, thread[j].login = thread[order[k]].login PROVE thread[j].at <= thread[order[k]].at
      <3>1. PICK m \in Places : order[m] = j
        BY <1>1
      <3>2. ~(m \in 1..(k - 1))
        BY <2>2, <3>1 DEF SameReviewer, LoginKey
      <3>3. ~(m < k)
        BY <1>5, <2>1, <3>1, <3>2
      <3>4. m = k \/ k < m
        BY <1>1, <2>1, <3>1, <3>3 DEF Places
      <3>5. thread[j].at \in Nat /\ thread[order[k]].at \in Nat
        BY <1>4, <2>1
      <3>6. k < m => thread[order[k]].at > thread[j].at
        BY <1>1, <2>1, <3>1
      <3>7. m = k => thread[j].at = thread[order[k]].at
        BY <3>1
      <3>. HIDE DEF firsts
      <3>. QED BY <3>4, <3>5, <3>6, <3>7
    <2>. QED BY <1>1, <2>1, <2>2 DEF Newest
  <1>7. ASSUME NEW i \in Newest PROVE \E k \in firsts : order[k] = i
    <2>1. i \in Places /\ \A j \in Places : thread[j].login = thread[i].login => thread[j].at <= thread[i].at
      BY <1>1 DEF Newest
    <2>2. PICK k \in Places : order[k] = i
      BY <1>1, <2>1
    <2>3. ASSUME NEW m \in 1..(k - 1), SameReviewer(order[m], order[k]) PROVE FALSE
      <3>1. m \in Places /\ m < k /\ order[m] \in Places
        BY <1>1, <1>5, <2>2, <2>3
      <3>2. thread[order[m]].at > thread[i].at
        BY <1>1, <2>2, <3>1
      <3>3. thread[order[m]].at <= thread[i].at
        BY <2>1, <2>2, <2>3, <3>1 DEF SameReviewer, LoginKey
      <3>4. thread[order[m]].at \in Nat /\ thread[i].at \in Nat
        BY <1>4, <2>1, <3>1
      <3>. HIDE DEF firsts
      <3>. QED BY <3>2, <3>3, <3>4
    <2>. QED BY <1>1, <2>2, <2>3
  <1>. QED BY <1>3, <1>6, <1>7

(* Every login of the thread has a newest review.                           *)
LEMMA NewestExists ==
  ASSUME ThreadInv, NEW i \in Places
  PROVE  \E j \in Newest : thread[j].login = thread[i].login
  <1>. DEFINE n == Len(thread)
              S == {n - thread[j].at : j \in {k \in Places : thread[k].login = thread[i].login}}
  <1>1. n \in Nat /\ DOMAIN thread = Places /\ Places = 1..n /\ \A j \in Places : thread[j].at \in 1..n
    BY DEF ThreadInv, Places
  <1>2. S \subseteq Nat /\ S # {}
    BY <1>1
  <1>3. PICK x \in S : \A y \in S : x <= y
    BY <1>2, FirstExists
  <1>4. PICK j \in Places : x = n - thread[j].at /\ thread[j].login = thread[i].login
    BY <1>3
  <1>5. ASSUME NEW k \in Places, thread[k].login = thread[j].login PROVE thread[k].at <= thread[j].at
    <2>1. n - thread[k].at \in S
      BY <1>4, <1>5
    <2>2. x <= n - thread[k].at
      BY <1>3, <2>1
    <2>. QED BY <1>1, <1>4, <2>2
  <1>. QED BY <1>1, <1>4, <1>5 DEF Newest

LEMMA NewestCount ==
  ASSUME ThreadInv
  PROVE  /\ IsFiniteSet(Newest)
         /\ Cardinality(Newest) = Cardinality({thread[i].login : i \in DOMAIN thread})
  <1>. DEFINE logins == {thread[i].login : i \in DOMAIN thread}
              f == [i \in Newest |-> thread[i].login]
  <1>1. DOMAIN thread = Places /\ Newest \subseteq Places /\ Places = 1..Len(thread) /\ Len(thread) \in Nat
    BY DEF ThreadInv, Newest, Places
  <1>2. IsFiniteSet(Newest)
    <2>1. IsFiniteSet(Places)
      BY <1>1, FS_Interval
    <2>. QED BY <1>1, <2>1, FS_Subset
  <1>3. f \in [Newest -> logins]
    BY <1>1
  <1>4. \A i, j \in Newest : f[i] = f[j] => i = j
    <2>. SUFFICES ASSUME NEW i \in Newest, NEW j \in Newest, thread[i].login = thread[j].login PROVE i = j
      OBVIOUS
    <2>1. thread[i].at <= thread[j].at /\ thread[j].at <= thread[i].at
      BY <1>1 DEF Newest
    <2>2. thread[i].at \in Nat /\ thread[j].at \in Nat
      BY <1>1, ItemIs
    <2>3. thread[i].at = thread[j].at
      BY <2>1, <2>2
    <2>. QED BY <1>1, <2>3 DEF ThreadInv
  <1>5. \A l \in logins : \E i \in Newest : f[i] = l
    BY <1>1, NewestExists
  <1>. HIDE DEF f, logins
  <1>6. f \in Bijection(Newest, logins)
    BY <1>3, <1>4, <1>5 DEF Bijection, Injection, Surjection, IsInjective
  <1>7. Cardinality(logins) = Cardinality(Newest)
    BY <1>2, <1>6, FS_Bijection DEF ExistsBijection
  <1>. QED BY <1>2, <1>7 DEF logins

(* The reviews of a set that say d, counted; those with a decision and     *)
(* those without are all of them.                                          *)
Saying(S, d) == {i \in S : thread[i].decision = d}

LEMMA DisjointCount ==
  ASSUME NEW A, NEW B, IsFiniteSet(A), IsFiniteSet(B), A \cap B = {}
  PROVE  /\ IsFiniteSet(A \cup B) /\ Cardinality(A) \in Nat /\ Cardinality(B) \in Nat
         /\ Cardinality(A \cup B) = Cardinality(A) + Cardinality(B)
  <1>1. IsFiniteSet(A \cup B) /\ Cardinality(A \cup B) = Cardinality(A) + Cardinality(B) - Cardinality(A \cap B)
    BY FS_Union
  <1>2. Cardinality(A \cap B) = 0
    BY FS_EmptySet
  <1>3. Cardinality(A) \in Nat /\ Cardinality(B) \in Nat
    BY FS_CardinalityType
  <1>. QED BY <1>1, <1>2, <1>3

LEMMA TalliesAddUp ==
  ASSUME NEW S, IsFiniteSet(S), \A i \in S : thread[i].decision \in Verdicts
  PROVE  Cardinality(Saying(S, "approved")) + Cardinality(Saying(S, "changes_requested"))
           + Cardinality(Saying(S, "rejected")) + Cardinality(Saying(S, "undecided")) = Cardinality(S)
  <1>. DEFINE A == Saying(S, "approved")
              C == Saying(S, "changes_requested")
              R == Saying(S, "rejected")
              U == Saying(S, "undecided")
  <1>1. A \cap C = {} /\ (A \cup C) \cap R = {} /\ (A \cup C \cup R) \cap U = {}
    BY DEF Saying
  <1>2. A \cup C \cup R \cup U = S
    BY DEF Saying, Verdicts, Recommendations
  <1>3. A \subseteq S /\ C \subseteq S /\ R \subseteq S /\ U \subseteq S
    BY DEF Saying
  <1>. HIDE DEF A, C, R, U
  <1>4. IsFiniteSet(A) /\ IsFiniteSet(C) /\ IsFiniteSet(R) /\ IsFiniteSet(U)
    BY <1>3, FS_Subset
  <1>5. /\ IsFiniteSet(A \cup C) /\ Cardinality(A) \in Nat /\ Cardinality(C) \in Nat
        /\ Cardinality(A \cup C) = Cardinality(A) + Cardinality(C)
    BY <1>1, <1>4, DisjointCount
  <1>6. /\ IsFiniteSet(A \cup C \cup R) /\ Cardinality(R) \in Nat
        /\ Cardinality(A \cup C \cup R) = Cardinality(A \cup C) + Cardinality(R)
    BY <1>1, <1>4, <1>5, DisjointCount
  <1>7. /\ Cardinality(U) \in Nat
        /\ Cardinality(A \cup C \cup R \cup U) = Cardinality(A \cup C \cup R) + Cardinality(U)
    BY <1>1, <1>4, <1>6, DisjointCount
  <1>8. Cardinality(A) + Cardinality(C) + Cardinality(R) + Cardinality(U) = Cardinality(S)
    BY <1>2, <1>5, <1>6, <1>7
  <1>. QED BY <1>8 DEF A, C, R, U

LEMMA ThreadImplies == ThreadInv => NewestReviewCounts
  <1>. SUFFICES ASSUME ThreadInv PROVE NewestReviewCounts
    OBVIOUS
  <1>1. CurrentItems = Newest /\ IsFiniteSet(Newest) /\ DOMAIN thread = Places /\ Newest \subseteq Places
    <2>1. CurrentItems = Newest /\ IsFiniteSet(Newest)
      BY CurrentIsNewest, NewestCount
    <2>2. DOMAIN thread = Places
      BY DEF ThreadInv, Places
    <2>3. Newest \subseteq DOMAIN thread
      BY DEF Newest
    <2>. QED BY <2>1, <2>2, <2>3
  <1>2. CurrentItems \cup UNION {History(i) : i \in CurrentItems} = DOMAIN thread
    <2>1. \A j \in Places : \E i \in Newest : j = i \/ j \in History(i)
      BY <1>1, NewestExists DEF History, SameReviewer, LoginKey
    <2>2. \A i \in Newest : History(i) \subseteq Places
      BY <1>1 DEF History
    <2>. QED BY <1>1, <2>1, <2>2
  <1>3. Cardinality(Saying(Newest, "approved")) + Cardinality(Saying(Newest, "changes_requested"))
          + Cardinality(Saying(Newest, "rejected")) + Cardinality(Saying(Newest, "undecided")) = Cardinality(Newest)
    <2>1. \A i \in Newest : thread[i].decision \in Verdicts
      BY <1>1, ItemIs
    <2>. QED BY <1>1, <2>1, TalliesAddUp
  <1>7. \A d : Tally(d) = Cardinality(Saying(Newest, d))
    BY <1>1 DEF Tally, Saying
  <1>4. LowestScore \in {thread[i].score : i \in Newest} \cup {0}
    <2>1. \A i \in Scored : i \in Newest /\ thread[i].score = 2
      BY <1>1, ItemIs DEF Scored
    <2>2. \A i \in Scored : \A j \in Scored : thread[i].score <= thread[j].score
      BY <2>1
    <2>3. CASE Scored # {}
      <3>. DEFINE c == CHOOSE i \in Scored : \A j \in Scored : thread[i].score <= thread[j].score
      <3>1. c \in Scored
        BY <2>2, <2>3
      <3>2. LowestScore = thread[c].score
        BY <2>3 DEF LowestScore
      <3>. HIDE DEF c
      <3>. QED BY <2>1, <3>1, <3>2
    <2>. QED BY <2>3 DEF LowestScore
  <1>5. \A me \in Logins : OwnLatest(me) # {} <=> \E i \in Newest : thread[i].login = me
    BY <1>1 DEF OwnLatest, LoginKey
  <1>6. ASSUME NEW me \in Logins
        PROVE  /\ Panel(me).count = Cardinality({thread[i].login : i \in DOMAIN thread})
               /\ \A d \in Recommendations : Panel(me).tally[d] = Cardinality(Saying(Newest, d))
               /\ Panel(me).tally["approved"] + Panel(me).tally["changes_requested"] + Panel(me).tally["rejected"]
                    + Cardinality(Saying(Newest, "undecided")) = Panel(me).count
               /\ Panel(me).lowest \in {thread[i].score : i \in Newest} \cup {0}
               /\ Panel(me).button = "Update" <=> \E i \in Newest : thread[i].login = me
    <2>1. /\ Panel(me).count = Cardinality(CurrentItems) /\ Panel(me).tally = [d \in Recommendations |-> Tally(d)]
          /\ Panel(me).lowest = LowestScore
          /\ Panel(me).button = IF OwnLatest(me) # {} THEN "Update" ELSE "Write"
      BY DEF Panel
    <2>2. Panel(me).button = "Update" <=> OwnLatest(me) # {}
      BY <2>1
    <2>3. \A d \in Recommendations : Panel(me).tally[d] = Cardinality(Saying(Newest, d))
      BY <1>7, <2>1
    <2>4. "approved" \in Recommendations /\ "changes_requested" \in Recommendations /\ "rejected" \in Recommendations
      BY DEF Recommendations
    <2>5. Panel(me).count = Cardinality(Newest)
      BY <1>1, <2>1
    <2>6. Panel(me).tally["approved"] + Panel(me).tally["changes_requested"] + Panel(me).tally["rejected"]
            + Cardinality(Saying(Newest, "undecided")) = Panel(me).count
      BY <1>3, <2>3, <2>4, <2>5
    <2>. QED BY <1>4, <1>5, <2>1, <2>2, <2>3, <2>5, <2>6, NewestCount
  <1>8. Newest = {i \in DOMAIN thread : \A j \in DOMAIN thread :
                    thread[j].login = thread[i].login => thread[j].at <= thread[i].at}
    BY DEF Newest
  <1>. HIDE DEF Newest
  <1>. QED BY <1>1, <1>2, <1>6, <1>8 DEF NewestReviewCounts, Saying

(* In every behaviour, in whatever order reviews reach the list and however *)
(* a login is spelled: every reviewer counts once, with the newest review,  *)
(* the tallies are of those and, with the undecided, add up to the count,   *)
(* and no review is lost (reviews.js, latestPerReviewer and aggregate).     *)
THEOREM NewestReviewsCount == Spec => []NewestReviewCounts
  <1>1. Init => ThreadInv
    BY ThreadStart DEF Init
  <1>2. ThreadInv /\ [Next]_vars => ThreadInv'
    <2>1. [Next]_vars => [ThreadNext]_thread
      BY DEF Next, vars, ReviewerPage, DrawerPage, EditorPage, SubmitPage, FormatPage, BoardPage, ThreadPage,
             ContributorsPage, CheckPage, AccountPage, HeaderPage
    <2>. QED BY <2>1, ThreadStep
  <1>. QED BY <1>1, <1>2, ThreadImplies, PTL DEF Spec

(***************************************************************************)
(*                             The task board                              *)
(***************************************************************************)
BoardInv == record \in [Tasks -> Record]

LEMMA BoardStep == BoardInv /\ [BoardNext]_bvars => BoardInv'
  <1>. SUFFICES ASSUME BoardInv, [BoardNext]_bvars PROVE BoardInv'
    OBVIOUS
  <1>1. CASE UNCHANGED record
    BY <1>1 DEF BoardInv
  <1>2. ASSUME NEW t \in Tasks, NEW d \in Decisions,
               Reviewed(t, d) \/ RevisionLinked(t) \/ ResultsRecorded(t) \/ ReleasedWith(t)
        PROVE  BoardInv'
    <2>1. record[t] \in Record
      BY DEF BoardInv
    <2>2. PICK row \in Record : record' = [record EXCEPT ![t] = row]
      <3>1. CASE Reviewed(t, d)
        <4>1. [record[t] EXCEPT !.decision = d] \in Record
          BY <2>1 DEF Record
        <4>. QED BY <2>1, <3>1, <4>1 DEF Reviewed, BoardInv
      <3>2. CASE RevisionLinked(t)
        <4>1. [record[t] EXCEPT !.revision = TRUE, !.results = FALSE, !.release = FALSE] \in Record
          BY <2>1 DEF Record
        <4>. QED BY <2>1, <3>2, <4>1 DEF RevisionLinked, BoardInv
      <3>3. CASE ResultsRecorded(t)
        <4>1. [record[t] EXCEPT !.results = TRUE] \in Record
          BY <2>1 DEF Record
        <4>. QED BY <2>1, <3>3, <4>1 DEF ResultsRecorded, BoardInv
      <3>4. CASE ReleasedWith(t)
        <4>1. [record[t] EXCEPT !.release = TRUE] \in Record
          BY <2>1 DEF Record
        <4>. QED BY <2>1, <3>4, <4>1 DEF ReleasedWith, BoardInv
      <3>. QED BY <1>2, <3>1, <3>2, <3>3, <3>4
    <2>. QED BY <2>2 DEF BoardInv
  <1>3. "approved" \in Decisions
    BY DEF Decisions
  <1>4. BoardNext => UNCHANGED record \/ \E t \in Tasks, d \in Decisions :
                       Reviewed(t, d) \/ RevisionLinked(t) \/ ResultsRecorded(t) \/ ReleasedWith(t)
    BY <1>3 DEF BoardNext, ClearFilters, SelectStage, SelectDomain
  <1>. QED BY <1>1, <1>2, <1>4 DEF bvars

LEMMA BoardStart == BoardInit => BoardInv
  <1>1. [status: RawStatuses, domains: (SUBSET BoardDomains) \ {{}}, decision: {""},
         revision: {FALSE}, results: {FALSE}, release: {FALSE}] \subseteq Record
    BY DEF Record
  <1>. QED BY <1>1 DEF BoardInit, BoardInv

-----------------------------------------------------------------------------
StageNames == {"pending", "changes_requested", "approved", "rejected", "implementation", "agent_testing", "released"}

LEMMA StatusesAre == Statuses = StageNames
  <1>1. DOMAIN StatusOrder = 1..7
    BY DEF StatusOrder
  <1>2. /\ StatusOrder[1] = "pending" /\ StatusOrder[2] = "changes_requested" /\ StatusOrder[3] = "approved"
        /\ StatusOrder[4] = "rejected" /\ StatusOrder[5] = "implementation" /\ StatusOrder[6] = "agent_testing"
        /\ StatusOrder[7] = "released"
    BY DEF StatusOrder
  <1>3. 1..7 = {1, 2, 3, 4, 5, 6, 7}
    OBVIOUS
  <1>4. Statuses = {StatusOrder[i] : i \in {1, 2, 3, 4, 5, 6, 7}}
    BY <1>1, <1>3 DEF Statuses
  <1>. HIDE DEF StatusOrder
  <1>. QED BY <1>2, <1>4 DEF StageNames

LEMMA StatusIs == ASSUME NEW r \in Record PROVE DisplayStatus(r) \in StageNames
  <1>1. /\ r.status \in RawStatuses /\ r.decision \in Decisions \cup {""} /\ r.release \in BOOLEAN
        /\ r.results \in BOOLEAN /\ r.revision \in BOOLEAN
    BY DEF Record
  <1>. QED BY <1>1 DEF DisplayStatus, RawStatuses, Decisions, StageNames

(* The two public steps: the proposal is in, its review has come so far.    *)
StepsFit(s, steps) ==
  /\ DOMAIN steps = {0, 1} /\ steps[0] = "done"
  /\ s = "rejected" => steps[1] = "stopped"
  /\ s = "changes_requested" => steps[1] = "attention"
  /\ s = "pending" => steps[1] = "current"
  /\ s \in {"approved", "implementation", "agent_testing", "released"} => steps[1] = "done"

LEMMA StagesAre ==
  ASSUME NEW r, NEW s, s = DisplayStatus(r), s \in StageNames
  PROVE  /\ StageState(r, 0) = "done"
         /\ s = "rejected" => StageState(r, 1) = "stopped" /\ CurrentStageIndex(r) = 1
         /\ s = "changes_requested" => StageState(r, 1) = "attention" /\ CurrentStageIndex(r) = 1
         /\ s = "pending" => StageState(r, 1) = "current" /\ CurrentStageIndex(r) = 1
         /\ s \in {"approved", "implementation", "agent_testing", "released"} =>
              CurrentStageIndex(r) >= 2 /\ StageState(r, 1) = "done"
  <1>1. /\ s = "released" => CurrentStageIndex(r) = 4
        /\ s = "agent_testing" => CurrentStageIndex(r) = 3
        /\ s \in {"implementation", "approved"} => CurrentStageIndex(r) = 2
        /\ s \in {"pending", "changes_requested", "rejected"} => CurrentStageIndex(r) = 1
    BY DEF CurrentStageIndex
  <1>2. CurrentStageIndex(r) \in 1..4
    BY <1>1 DEF StageNames
  <1>3. ASSUME s = "rejected" PROVE StageState(r, 0) = "done" /\ StageState(r, 1) = "stopped"
    BY <1>3 DEF StageState
  <1>4. ASSUME s # "rejected" PROVE StageState(r, 0) = "done"
    BY <1>2, <1>4 DEF StageState
  <1>5. ASSUME s # "rejected", CurrentStageIndex(r) > 1 PROVE StageState(r, 1) = "done"
    BY <1>2, <1>5 DEF StageState
  <1>6. ASSUME s = "changes_requested" PROVE StageState(r, 1) = "attention"
    BY <1>1, <1>6 DEF StageState
  <1>7. ASSUME s = "pending" PROVE StageState(r, 1) = "current"
    BY <1>1, <1>7 DEF StageState
  <1>. QED BY <1>1, <1>3, <1>4, <1>5, <1>6, <1>7

LEMMA StepsAre == ASSUME NEW r, DisplayStatus(r) \in StageNames PROVE StepsFit(DisplayStatus(r), PublicLifecycle(r))
  <1>. DEFINE s == DisplayStatus(r)
              steps == PublicLifecycle(r)
  <1>1. 0..(PublicStageCount - 1) = {0, 1} /\ PublicStageCount - 1 = 1
    BY DEF PublicStageCount
  <1>2. steps = [i \in {0, 1} |->
                  IF i = 1 /\ CurrentStageIndex(r) >= 2 /\ StageState(r, i) # "stopped" THEN "done" ELSE StageState(r, i)]
    BY <1>1 DEF PublicLifecycle, PublicStageCount
  <1>3. /\ DOMAIN steps = {0, 1} /\ steps[0] = StageState(r, 0)
        /\ CurrentStageIndex(r) >= 2 /\ StageState(r, 1) # "stopped" => steps[1] = "done"
        /\ ~(CurrentStageIndex(r) >= 2) \/ StageState(r, 1) = "stopped" => steps[1] = StageState(r, 1)
    BY <1>2
  <1>. HIDE DEF steps, s
  <1>4. /\ StageState(r, 0) = "done"
        /\ s = "rejected" => StageState(r, 1) = "stopped" /\ CurrentStageIndex(r) = 1
        /\ s = "changes_requested" => StageState(r, 1) = "attention" /\ CurrentStageIndex(r) = 1
        /\ s = "pending" => StageState(r, 1) = "current" /\ CurrentStageIndex(r) = 1
        /\ s \in {"approved", "implementation", "agent_testing", "released"} =>
             CurrentStageIndex(r) >= 2 /\ StageState(r, 1) = "done"
    BY StagesAre DEF s
  <1>5. ~(1 >= 2)
    OBVIOUS
  <1>6. StepsFit(s, steps)
    BY <1>3, <1>4, <1>5 DEF StepsFit
  <1>. QED BY <1>6 DEF s, steps

LEMMA TimelineIs == BoardInv => TimelineTellsStatus
  <1>. SUFFICES ASSUME BoardInv, NEW t \in Tasks, NEW r, r = record[t], NEW steps, steps = PublicLifecycle(r)
                PROVE  /\ \A i, j \in DOMAIN steps : i < j /\ steps[i] # "done" => steps[j] = "upcoming"
                       /\ (\E i \in DOMAIN steps : steps[i] = "stopped") <=> DisplayStatus(r) = "rejected"
                       /\ (\E i \in DOMAIN steps : steps[i] = "attention") <=> DisplayStatus(r) = "changes_requested"
                       /\ (\A i \in DOMAIN steps : steps[i] = "done") <=> IsApproved(r)
                       /\ steps[HeadStage(r) - 1] \in Now \/ (IsApproved(r) /\ HeadStage(r) = PublicStageCount)
    BY DEF TimelineTellsStatus
  <1>. DEFINE s == DisplayStatus(r)
  <1>1. r \in Record
    BY DEF BoardInv
  <1>2. s \in StageNames
    BY <1>1, StatusIs
  <1>3. StepsFit(s, steps)
    BY <1>2, StepsAre
  <1>4. IsApproved(r) <=> s \in {"approved", "implementation", "agent_testing", "released"}
    BY DEF IsApproved
  <1>5. HeadStage(r) = IF {i \in DOMAIN steps : steps[i] \in Now} = {} THEN 2
                       ELSE (CHOOSE k \in {i \in DOMAIN steps : steps[i] \in Now} :
                               \A j \in {i \in DOMAIN steps : steps[i] \in Now} : k <= j) + 1
    BY DEF HeadStage, PublicStageCount
  <1>. HIDE DEF s
  <1>6. \A i, j \in DOMAIN steps : i < j /\ steps[i] # "done" => steps[j] = "upcoming"
    BY <1>3 DEF StepsFit
  <1>7. (\E i \in DOMAIN steps : steps[i] = "stopped") <=> s = "rejected"
    BY <1>2, <1>3 DEF StepsFit, StageNames
  <1>8. (\E i \in DOMAIN steps : steps[i] = "attention") <=> s = "changes_requested"
    BY <1>2, <1>3 DEF StepsFit, StageNames
  <1>9. (\A i \in DOMAIN steps : steps[i] = "done") <=> IsApproved(r)
    BY <1>2, <1>3, <1>4 DEF StepsFit, StageNames
  <1>10. steps[HeadStage(r) - 1] \in Now \/ (IsApproved(r) /\ HeadStage(r) = 2)
    <2>1. CASE IsApproved(r)
      <3>1. {i \in DOMAIN steps : steps[i] \in Now} = {}
        BY <1>3, <1>4, <2>1 DEF StepsFit, Now
      <3>. QED BY <1>5, <2>1, <3>1
    <2>2. CASE ~IsApproved(r)
      <3>1. steps[1] \in Now
        BY <1>2, <1>3, <1>4, <2>2 DEF StepsFit, StageNames, Now
      <3>2. {i \in DOMAIN steps : steps[i] \in Now} = {1}
        BY <1>3, <3>1 DEF StepsFit, Now
      <3>3. (CHOOSE i \in {1} : \A j \in {1} : i <= j) = 1
        OBVIOUS
      <3>4. HeadStage(r) - 1 = 1
        BY <1>5, <3>2, <3>3
      <3>. QED BY <3>1, <3>4
    <2>. QED BY <2>1, <2>2
  <1>. QED BY <1>6, <1>7, <1>8, <1>9, <1>10 DEF s, PublicStageCount

-----------------------------------------------------------------------------
At(v) == {t \in Tasks : DisplayStatus(record[t]) = v}

LEMMA AtIs == ASSUME NEW v
             PROVE  IsFiniteSet(At(v)) /\ Cardinality(At(v)) \in Nat /\ StageCount(v) = Cardinality(At(v))
  <1>1. IsFiniteSet(At(v))
    BY BoardAssumption, FS_Subset DEF At
  <1>. QED BY <1>1, FS_CardinalityType DEF StageCount, At

LEMMA VisibleIs == ASSUME NEW v, v # "" PROVE Visible([stage |-> v, domain |-> ""]) = At(v)
  BY DEF Visible, Matches, At

LEMMA Apart ==
  ASSUME NEW A, NEW B, IsFiniteSet(A), IsFiniteSet(B), A \cap B = {}
  PROVE  IsFiniteSet(A \cup B) /\ Cardinality(A \cup B) = Cardinality(A) + Cardinality(B)
  <1>1. Cardinality(A) \in Nat /\ Cardinality(B) \in Nat
    BY FS_CardinalityType
  <1>2. IsFiniteSet(A \cup B) /\ Cardinality(A \cup B) = Cardinality(A) + Cardinality(B) - Cardinality(A \cap B)
    BY FS_Union
  <1>. QED BY <1>1, <1>2, FS_EmptySet

LEMMA CountsAre == BoardInv => CountsAreWhatIsListed
  <1>. SUFFICES ASSUME BoardInv PROVE CountsAreWhatIsListed
    OBVIOUS
  <1>1. \A v \in StageOptions : v # "" /\ v \in StageNames
    BY StatusesAre DEF StageOptions, StageNames
  <1>2. \A v \in StageOptions : StageCount(v) = Cardinality(Visible([stage |-> v, domain |-> ""]))
    BY <1>1, AtIs, VisibleIs
  <1>3. ASSUME NEW t \in Tasks
        PROVE  Cardinality({v \in StageOptions : ~Disabled(v) /\ t \in Visible([stage |-> v, domain |-> ""])}) = 1
    <2>. DEFINE s == DisplayStatus(record[t])
    <2>1. s \in StageNames
      BY StatusIs DEF BoardInv
    <2>2. t \in At(s)
      BY DEF At
    <2>. HIDE DEF s
    <2>3. Cardinality(At(s)) # 0
      BY <2>2, AtIs, FS_EmptySet
    <2>4. StageCount(s) > 0 /\ ~Disabled(s)
      <3>1. StageCount(s) \in Nat /\ StageCount(s) # 0
        BY <2>3, AtIs
      <3>. QED BY <3>1 DEF Disabled
    <2>5. s \in StageOptions
      BY <2>1, <2>4, StatusesAre DEF StageOptions
    <2>6. {v \in StageOptions : ~Disabled(v) /\ t \in Visible([stage |-> v, domain |-> ""])} = {s}
      BY <1>1, <2>2, <2>4, <2>5, VisibleIs DEF At, s
    <2>. QED BY <2>6, FS_Singleton
  <1>4. Stats.approved = StageCount("approved") + StageCount("implementation")
                           + StageCount("agent_testing") + StageCount("released")
    <2>1. {t \in Tasks : IsApproved(record[t])}
            = ((At("approved") \cup At("implementation")) \cup At("agent_testing")) \cup At("released")
      BY DEF IsApproved, At
    <2>. DEFINE A == At("approved") \cup At("implementation")
                B == A \cup At("agent_testing")
    <2>2. IsFiniteSet(A) /\ Cardinality(A) = StageCount("approved") + StageCount("implementation")
      <3>1. At("approved") \cap At("implementation") = {}
        BY DEF At
      <3>2. IsFiniteSet(At("approved")) /\ IsFiniteSet(At("implementation"))
        BY AtIs
      <3>3. IsFiniteSet(A) /\ Cardinality(A) = Cardinality(At("approved")) + Cardinality(At("implementation"))
        BY <3>1, <3>2, Apart
      <3>. QED BY <3>3, AtIs
    <2>3. IsFiniteSet(B) /\ Cardinality(B) = Cardinality(A) + StageCount("agent_testing")
      <3>1. A \cap At("agent_testing") = {}
        BY DEF At
      <3>2. IsFiniteSet(At("agent_testing"))
        BY AtIs
      <3>. HIDE DEF A
      <3>3. IsFiniteSet(B) /\ Cardinality(B) = Cardinality(A) + Cardinality(At("agent_testing"))
        BY <2>2, <3>1, <3>2, Apart
      <3>. QED BY <3>3, AtIs
    <2>4. Cardinality(B \cup At("released")) = Cardinality(B) + StageCount("released")
      <3>1. B \cap At("released") = {}
        BY DEF At
      <3>2. IsFiniteSet(At("released"))
        BY AtIs
      <3>. HIDE DEF B
      <3>3. Cardinality(B \cup At("released")) = Cardinality(B) + Cardinality(At("released"))
        BY <2>3, <3>1, <3>2, Apart
      <3>. QED BY <3>3, AtIs
    <2>5. Stats.approved = Cardinality({t \in Tasks : IsApproved(record[t])})
      BY DEF Stats
    <2>. QED BY <2>1, <2>2, <2>3, <2>4, <2>5
  <1>5. Stats.pending = Cardinality(Visible([stage |-> "pending", domain |-> ""]))
    BY AtIs, VisibleIs DEF Stats
  <1>. QED BY <1>2, <1>3, <1>4, <1>5 DEF CountsAreWhatIsListed

(* In every behaviour, in whatever order reviews, revisions, results and    *)
(* releases come: the timeline, its head, the badge and the counts of the   *)
(* board tell one story (lifecycle.js, timeline.js, pages/tasks.js).        *)
THEOREM BoardTellsOneStory == Spec => []BoardTellsStatus
  <1>1. Init => BoardInv
    BY BoardStart DEF Init
  <1>2. BoardInv /\ [Next]_vars => BoardInv'
    <2>1. [Next]_vars => [BoardNext]_bvars
      BY DEF Next, vars, ReviewerPage, DrawerPage, EditorPage, SubmitPage, FormatPage, BoardPage, ThreadPage,
             ContributorsPage, CheckPage, AccountPage, HeaderPage
    <2>. QED BY <2>1, BoardStep
  <1>3. BoardInv => BoardTellsStatus
    BY TimelineIs, CountsAre DEF BoardTellsStatus
  <1>. QED BY <1>1, <1>2, <1>3, PTL DEF Spec
=============================================================================
