--------------------------- MODULE AIReviewProofs ---------------------------
(***************************************************************************)
(* Proofs about AIReviewPublication for any number of runners, reviews,    *)
(* assignments, attempts, requests and crashes: nothing is published       *)
(* twice, nothing is forgotten, and only the latest review is shown.       *)
(*                                                                         *)
(* The invariant ties each position of publish_ai_delivery to what the     *)
(* runner may rely on there: inside the timed block it holds the lease,    *)
(* works for the latest review, and its copy of the publication agrees     *)
(* with the table where the block depends on it.                           *)
(***************************************************************************)
EXTENDS AIReviewPublication, FiniteSetTheorems, SequenceTheorems, TLAPS

(* Rows are of reviews accepted so far, the latest has its two; runners    *)
(* and resend requests have rows that exist.                               *)
RowInv ==
    /\ \A d \in Enqueued : reviewOf(d) <= latest
    /\ latest # 0 => \A c \in Channels : <<latest, c, 0>> \in Enqueued
    /\ resend # <<>> => resend[1] \in Enqueued
    /\ recovery # NoOne => latest # 0
    /\ \A w \in Runners : pc[w] \notin {"down", "idle"} => work[w] \in Enqueued

(* In the timed block a runner holds the lease and publishes the latest    *)
(* review to the channel of its delivery.                                  *)
HolderInv ==
    \A w \in Runners :
        /\ pc[w] \in TimedSteps => lease = w /\ reviewOf(work[w]) = latest
        /\ pc[w] \in {"writing", "saving_comment", "decorating"} =>
              channelOf(work[w]) = "github"
        /\ pc[w] \in {"patching", "starting", "posting", "clearing", "saving_message"} =>
              channelOf(work[w]) = "discord"

(* GitHub: a comment is created only if there is none. *)
StickyInv ==
    /\ OneComment
    /\ \A w \in Runners :
          /\ pc[w] = "checking" => copy[w].comment <= Len(github)
          /\ pc[w] = "writing" => copy[w].comment = Len(github)
          /\ pc[w] = "saving_comment" => copy[w].comment = Len(github)

(* Discord: a message is created only if there is none, and under the mark *)
(* discord_create_started; a recovery knows what is there.                 *)
MessageInv ==
    /\ OneMessage
    /\ NoForgottenMessage
    /\ recovery # NoOne /\ lease = Admin => recovery = Len(discord)
    /\ \A w \in Runners :
          /\ pc[w] = "checking" => copy[w].message = message /\ copy[w].started = started
          /\ pc[w] \in {"starting", "posting", "clearing"} => discord = <<>>
          /\ pc[w] = "posting" => started
          /\ pc[w] \in {"patching", "saving_message"} =>
                copy[w].message = 1 /\ Len(discord) = 1

(* What is about to be completed is on display. *)
ShownInv ==
    /\ CompletedMeansShown
    /\ \A w \in Runners :
          pc[w] \in {"saving_comment", "decorating", "saving_message", "completing"}
          /\ reviewOf(work[w]) = latest => Shown(work[w])

IInv == TypeOK /\ RowInv /\ HolderInv /\ StickyInv /\ MessageInv /\ ShownInv

-----------------------------------------------------------------------------
(* The names of deliveries, and the operations on the table.               *)

(* A delivery names a review and a channel. *)
LEMMA DeliveryNames ==
    /\ \A d \in Deliveries : /\ reviewOf(d) \in 1 .. MaxReviews
                             /\ channelOf(d) \in Channels
    /\ \A r \in 1 .. MaxReviews, c \in Channels : <<r, c, 0>> \in Deliveries
    /\ \A r \in 1 .. MaxReviews, k \in 1 .. MaxAssigns : <<r, "github", k>> \in Deliveries
    /\ \A r, c, k : reviewOf(<<r, c, k>>) = r /\ channelOf(<<r, c, k>>) = c
BY PublicationAssumption DEF reviewOf, channelOf, Channels

(* What every operation but complete_delivery leaves of the table: it is   *)
(* well-typed, no row disappears and none becomes completed.               *)
OutSafe(S) ==
    /\ OutTypeOK'
    /\ Enqueued' = Enqueued \cup S
    /\ \A d \in Deliveries : out'[d].state = "completed" => out[d].state = "completed"

(* A change of one existing row. *)
LEMMA RowChange ==
    ASSUME OutTypeOK, NEW d \in Enqueued, NEW row \in DeliveryRow,
           row.state \notin {"absent", "completed"} \/ row.state = out[d].state,
           out' = [out EXCEPT ![d] = row]
    PROVE  OutSafe({})
<1>1. d \in Deliveries /\ out[d].state # "absent"
  BY DEF Enqueued
<1>2. \A e \in Deliveries : out'[e] = IF e = d THEN row ELSE out[e]
  BY <1>1 DEF OutTypeOK
<1>3. OutTypeOK'
  BY <1>1 DEF OutTypeOK
<1>4. Enqueued' = Enqueued
  <2>1. row.state # "absent"
    BY <1>1
  <2>2. QED
    BY <1>1, <1>2, <2>1 DEF Enqueued
<1>5. QED
  BY <1>1, <1>2, <1>3, <1>4 DEF OutSafe

(* Rows inserted by enqueue_delivery. *)
LEMMA EnqueueSafe ==
    ASSUME OutTypeOK, NEW S \in SUBSET Deliveries, EnqueueDeliveries(S)
    PROVE  OutSafe(S)
<1>1. PICK n \in Nat : n = Cardinality(Enqueued) + 1
  <2>1. Enqueued \in SUBSET Deliveries
    BY DEF Enqueued
  <2>2. Cardinality(Enqueued) \in Nat
    BY <2>1, DeliveryAssumption, FS_Subset, FS_CardinalityType
  <2>3. QED
    BY <2>2
<1> DEFINE new == [NoRow EXCEPT !.state = "pending", !.ready = TRUE, !.created = n]
<1>2. new \in DeliveryRow /\ new.state = "pending"
  BY DEF NoRow, DeliveryRow, DeliveryStates
<1>3. out' = [d \in Deliveries |-> IF d \in S \ Enqueued THEN new ELSE out[d]]
  BY <1>1 DEF EnqueueDeliveries
<1> HIDE DEF new
<1>4. OutTypeOK'
  BY <1>2, <1>3 DEF OutTypeOK
<1>5. Enqueued' = Enqueued \cup S
  BY <1>2, <1>3 DEF Enqueued
<1>6. QED
  BY <1>2, <1>3, <1>4, <1>5 DEF OutSafe

(* The UPDATE of claim_delivery. *)
LEMMA TakeSafe ==
    ASSUME OutTypeOK, NEW d \in Deliveries, TakeDelivery(d)
    PROVE  OutSafe({})
<1> DEFINE row == [out[d] EXCEPT !.state = "sending", !.stale = FALSE,
                                 !.attempts = @ + 1]
<1>0. out[d] \in DeliveryRow /\ out[d].attempts + 1 \in Nat
  BY DEF OutTypeOK, DeliveryRow
<1>1. row \in DeliveryRow /\ row.state = "sending"
  BY <1>0 DEF DeliveryRow, DeliveryStates
<1>2. d \in Enqueued
  BY DEF TakeDelivery, Claimable, Enqueued
<1>3. out' = [out EXCEPT ![d] = row]
  BY DEF TakeDelivery
<1> HIDE DEF row
<1>4. QED
  BY <1>1, <1>2, <1>3, RowChange

(* resend_delivery. *)
LEMMA ResendSafe ==
    ASSUME OutTypeOK, NEW d \in Enqueued, NEW row, Resend(d, row)
    PROVE  OutSafe({})
<1> DEFINE new == [out[d] EXCEPT !.state = IF row.state = "pending" THEN @ ELSE "pending",
                                 !.attempts = IF row.attempts = 0 THEN @ ELSE 0,
                                 !.ready = TRUE, !.stale = FALSE]
<1>1. d \in Deliveries
  BY DEF Enqueued
<1>2. /\ new \in DeliveryRow
      /\ new.state \notin {"absent", "completed"} \/ new.state = out[d].state
  BY <1>1 DEF OutTypeOK, DeliveryRow, DeliveryStates
<1>3. out' = [out EXCEPT ![d] = new]
  BY DEF Resend
<1> HIDE DEF new
<1>4. QED
  BY <1>2, <1>3, RowChange

(* complete_delivery: only d may become completed. *)
LEMMA CompleteEffect ==
    ASSUME OutTypeOK, NEW d \in Deliveries, CompleteDelivery(d)
    PROVE  /\ OutTypeOK'
           /\ Enqueued' = Enqueued
           /\ \A e \in Deliveries \ {d} : out'[e].state = out[e].state
<1>1. CASE out[d].state = "sending"
  <2> DEFINE row == [out[d] EXCEPT !.state = "completed", !.stale = FALSE]
  <2>1. row \in DeliveryRow /\ row.state = "completed"
    BY DEF OutTypeOK, DeliveryRow, DeliveryStates
  <2>2. out' = [out EXCEPT ![d] = row]
    BY <1>1 DEF CompleteDelivery, OutTypeOK, DeliveryRow
  <2> HIDE DEF row
  <2>3. QED
    BY <1>1, <2>1, <2>2 DEF OutTypeOK, Enqueued
<1>2. CASE out[d].state # "sending"
  BY <1>2 DEF CompleteDelivery, OutTypeOK, Enqueued
<1>3. QED
  BY <1>1, <1>2

-----------------------------------------------------------------------------
(* Steps outside the timed block.  The runners of W leave it or are out of *)
(* it, the publication keeps its columns but perhaps the lease, which can  *)
(* only go from a holder that is out of the block.                         *)
LEMMA Quiet ==
    ASSUME IInv, TypeOK', NEW W \in SUBSET Runners,
           UNCHANGED <<latest, comment, started, message, github, discord>>,
           lease' = lease \/ (/\ lease' # Admin
                              /\ \A v \in Runners : pc'[v] \in TimedSteps => lease # v),
           recovery' = recovery \/ recovery' = NoOne,
           \A v \in Runners \ W : pc'[v] = pc[v] /\ work'[v] = work[v] /\ copy'[v] = copy[v],
           \A v \in W : /\ pc'[v] \notin TimedSteps \cup {"completing"}
                        /\ pc'[v] \notin {"down", "idle"} => work'[v] \in Enqueued,
           Enqueued \subseteq Enqueued',
           \A d \in Enqueued' : reviewOf(d) <= latest,
           resend' # <<>> => resend'[1] \in Enqueued',
           \A d \in Deliveries : out'[d].state = "completed" =>
                                    out[d].state = "completed" \/ reviewOf(d) # latest
    PROVE  IInv'
<1>1. RowInv'
  BY DEF IInv, RowInv
<1>2. HolderInv'
  BY DEF IInv, HolderInv, TimedSteps
<1>3. StickyInv'
  BY DEF IInv, StickyInv, OneComment, TimedSteps
<1>4. MessageInv'
  BY DEF IInv, MessageInv, OneMessage, NoForgottenMessage, TimedSteps
<1>5. ShownInv'
  BY DEF IInv, ShownInv, CompletedMeansShown, Shown, TimedSteps
<1>6. QED
  BY <1>1, <1>2, <1>3, <1>4, <1>5 DEF IInv

(* A busy runner has a delivery, which is a row. *)
LEMMA Working ==
    ASSUME IInv, NEW w \in Runners, pc[w] \notin {"down", "idle"}
    PROVE  work[w] \in Deliveries /\ work[w] \in Enqueued /\ out[work[w]] \in DeliveryRow
BY DEF IInv, RowInv, Enqueued, TypeOK, OutTypeOK

(* Only the holder of the lease is in the timed block. *)
LEMMA Alone ==
    ASSUME IInv, NEW w \in Runners, pc[w] \in TimedSteps
    PROVE  /\ lease = w /\ lease # NoOne /\ lease # Admin
           /\ reviewOf(work[w]) = latest /\ work[w] \in Enqueued /\ work[w] \in Deliveries
           /\ \A v \in Runners \ {w} : pc[v] \notin TimedSteps
<1>1. lease = w /\ reviewOf(work[w]) = latest /\ \A v \in Runners \ {w} : pc[v] \notin TimedSteps
  BY DEF IInv, HolderInv
<1>2. work[w] \in Enqueued /\ work[w] \in Deliveries
  BY Working DEF TimedSteps
<1>3. lease # NoOne /\ lease # Admin
  BY <1>1, PublicationAssumption
<1>4. QED
  BY <1>1, <1>2, <1>3

(* One runner moves to a position outside the block; d, c and l are what   *)
(* its variables become.                                                   *)
LEMMA QuietRunner ==
    ASSUME IInv, NEW w \in Runners, NEW s \in Steps \ (TimedSteps \cup {"completing"}),
           NEW d \in Deliveries \cup {NoOne}, NEW c \in Copy, NEW l \in LoadedRow,
           s \notin {"down", "idle"} => d \in Enqueued,
           pc' = [pc EXCEPT ![w] = s], work' = [work EXCEPT ![w] = d],
           copy' = [copy EXCEPT ![w] = c], seen' = [seen EXCEPT ![w] = l],
           UNCHANGED <<latest, assigned, comment, started, message, channels, adminVars>>,
           lease' = lease \/ (lease = w /\ lease' \in {NoOne, Gone}),
           crashes' \in 0 .. MaxCrashes,
           OutTypeOK', Enqueued' = Enqueued,
           \A e \in Deliveries : out'[e].state = "completed" =>
                                    out[e].state = "completed" \/ reviewOf(e) # latest
    PROVE  IInv'
<1>1. TypeOK
  BY DEF IInv
<1>2. /\ pc' \in [Runners -> Steps]
      /\ work' \in [Runners -> Deliveries \cup {NoOne}]
      /\ copy' \in [Runners -> Copy]
      /\ seen' \in [Runners -> LoadedRow]
  BY <1>1 DEF TypeOK
<1>3. UNCHANGED <<latest, assigned, comment, started, message, github, discord,
                  resend, recovery, requests>>
  BY DEF channels, adminVars
<1>4. lease' \in Runners \cup {NoOne, Gone, Admin}
  BY <1>1 DEF TypeOK
<1>5. TypeOK'
  BY <1>1, <1>2, <1>3, <1>4 DEF TypeOK
<1>6. pc'[w] = s /\ work'[w] = d
  BY <1>1 DEF TypeOK
<1>7. \A v \in Runners \ {w} : pc'[v] = pc[v] /\ work'[v] = work[v] /\ copy'[v] = copy[v]
  BY <1>1 DEF TypeOK
<1>8. lease' = lease \/ (/\ lease' # Admin
                         /\ \A v \in Runners : pc'[v] \in TimedSteps => lease # v)
  <2>1. CASE lease' = lease
    BY <2>1
  <2>2. CASE lease = w /\ lease' \in {NoOne, Gone}
    BY <1>6, <2>2, PublicationAssumption
  <2>3. QED
    BY <2>1, <2>2
<1>9. /\ \A e \in Enqueued' : reviewOf(e) <= latest
      /\ resend' # <<>> => resend'[1] \in Enqueued'
  BY <1>3 DEF IInv, RowInv
<1>10. QED
  <2> DEFINE W == {w}
  <2>1. W \in SUBSET Runners
    OBVIOUS
  <2>2. \A v \in W : /\ pc'[v] \notin TimedSteps \cup {"completing"}
                     /\ pc'[v] \notin {"down", "idle"} => work'[v] \in Enqueued
    BY <1>6
  <2>3. \A v \in Runners \ W : pc'[v] = pc[v] /\ work'[v] = work[v] /\ copy'[v] = copy[v]
    BY <1>7
  <2> HIDE DEF W
  <2>4. QED
    BY <1>3, <1>5, <1>8, <1>9, <2>1, <2>2, <2>3, Quiet

(* What does not change is rewritten as itself. *)
LEMMA Same ==
    ASSUME IInv, NEW w \in Runners
    PROVE  /\ pc[w] \in Steps
           /\ work[w] \in Deliveries \cup {NoOne} /\ copy[w] \in Copy /\ seen[w] \in LoadedRow
           /\ work = [work EXCEPT ![w] = work[w]]
           /\ copy = [copy EXCEPT ![w] = copy[w]]
           /\ seen = [seen EXCEPT ![w] = seen[w]]
           /\ OutTypeOK /\ crashes \in 0 .. MaxCrashes
           /\ NoOne \in Deliveries \cup {NoOne} /\ NoCopy \in Copy
           /\ NothingLoaded \in LoadedRow
<1>1. NoCopy \in Copy /\ NothingLoaded \in LoadedRow
  BY PublicationAssumption DEF NoCopy, Copy, NothingLoaded, LoadedRow, DeliveryStates
<1>2. QED
  BY <1>1 DEF IInv, TypeOK

(* A refusal leaves the block; the row is still to be written. *)
LEMMA RefusedInv == ASSUME IInv, NEW w \in Runners, Refused(w) PROVE IInv'
<1>1. /\ pc' = [pc EXCEPT ![w] = "stopping"]
      /\ copy' = [copy EXCEPT ![w] = NoCopy]
      /\ work' = [work EXCEPT ![w] = work[w]] /\ seen' = [seen EXCEPT ![w] = seen[w]]
      /\ UNCHANGED <<out, lease, crashes>>
      /\ UNCHANGED <<latest, assigned, comment, started, message, channels, adminVars>>
  BY Same DEF Refused, Leave, Goto, publication
<1>2. work[w] \in Enqueued /\ work[w] \in Deliveries
  BY Working DEF Refused, TimedSteps
<1>3. "stopping" \in Steps \ (TimedSteps \cup {"completing"})
  BY DEF Steps, TimedSteps
<1>4. OutTypeOK' /\ Enqueued' = Enqueued
  BY <1>1, Same DEF OutTypeOK, Enqueued
<1>5. QED
  BY <1>1, <1>2, <1>3, <1>4, Same, QuietRunner

(* An error leaves the block. *)
LEMMA StepFailsInv == ASSUME IInv, NEW w \in Runners, StepFails(w) PROVE IInv'
<1>1. /\ pc' = [pc EXCEPT ![w] = "failing"]
      /\ copy' = [copy EXCEPT ![w] = NoCopy]
      /\ work' = [work EXCEPT ![w] = work[w]] /\ seen' = [seen EXCEPT ![w] = seen[w]]
      /\ UNCHANGED <<out, lease, crashes>>
      /\ UNCHANGED <<latest, assigned, comment, started, message, channels, adminVars>>
  BY Same DEF StepFails, Leave, Goto, publication
<1>2. work[w] \in Enqueued /\ work[w] \in Deliveries
  BY Working DEF StepFails, TimedSteps
<1>3. "failing" \in Steps \ (TimedSteps \cup {"completing"})
  BY DEF Steps, TimedSteps
<1>4. OutTypeOK' /\ Enqueued' = Enqueued
  BY <1>1, Same DEF OutTypeOK, Enqueued
<1>5. QED
  BY <1>1, <1>2, <1>3, <1>4, Same, QuietRunner

(* A busy publication: no lease was taken. *)
LEMMA PublicationBusyInv == ASSUME IInv, NEW w \in Runners, PublicationBusy(w) PROVE IInv'
<1>1. /\ pc' = [pc EXCEPT ![w] = "busy"]
      /\ copy' = [copy EXCEPT ![w] = copy[w]]
      /\ work' = [work EXCEPT ![w] = work[w]] /\ seen' = [seen EXCEPT ![w] = seen[w]]
      /\ UNCHANGED <<out, lease, crashes>>
      /\ UNCHANGED <<latest, assigned, comment, started, message, channels, adminVars>>
  BY Same DEF PublicationBusy, Goto, publication
<1>2. work[w] \in Enqueued /\ work[w] \in Deliveries
  BY Working DEF PublicationBusy, TimedSteps
<1>3. "busy" \in Steps \ (TimedSteps \cup {"completing"})
  BY DEF Steps, TimedSteps
<1>4. OutTypeOK' /\ Enqueued' = Enqueued
  BY <1>1, Same DEF OutTypeOK, Enqueued
<1>5. QED
  BY <1>1, <1>2, <1>3, <1>4, Same, QuietRunner

(* The SELECT of claim_delivery finds a row that exists. *)
LEMMA SelectDeliveryInv ==
    ASSUME IInv, NEW w \in Runners, NEW d \in Deliveries, SelectDelivery(w, d)
    PROVE  IInv'
<1>1. /\ pc' = [pc EXCEPT ![w] = "selected"] /\ work' = [work EXCEPT ![w] = d]
      /\ copy' = [copy EXCEPT ![w] = copy[w]] /\ seen' = [seen EXCEPT ![w] = seen[w]]
      /\ UNCHANGED <<out, lease, crashes>>
      /\ UNCHANGED <<latest, assigned, comment, started, message, channels, adminVars>>
  BY Same DEF SelectDelivery, Goto, publication
<1>2. d \in Enqueued
  BY DEF SelectDelivery, Oldest, Candidate, Claimable, Enqueued
<1>3. "selected" \in Steps \ (TimedSteps \cup {"completing"})
  BY DEF Steps, TimedSteps
<1>4. OutTypeOK' /\ Enqueued' = Enqueued
  BY <1>1, Same DEF OutTypeOK, Enqueued
<1>5. QED
  BY <1>1, <1>2, <1>3, <1>4, Same, QuietRunner

(* The runner is done with a delivery: its variables are reset. *)
LEMMA FinishInv ==
    ASSUME IInv, NEW w \in Runners, Finish(w),
           UNCHANGED <<latest, assigned, comment, started, message, channels, adminVars, crashes>>,
           lease' = lease \/ (lease = w /\ lease' \in {NoOne, Gone}),
           OutTypeOK', Enqueued' = Enqueued,
           \A e \in Deliveries : out'[e].state = "completed" =>
                                    out[e].state = "completed" \/ reviewOf(e) # latest
    PROVE  IInv'
<1>1. "idle" \in Steps \ (TimedSteps \cup {"completing"})
  BY DEF Steps, TimedSteps
<1>2. crashes' \in 0 .. MaxCrashes
  BY Same
<1>3. /\ pc' = [pc EXCEPT ![w] = "idle"] /\ work' = [work EXCEPT ![w] = NoOne]
      /\ copy' = [copy EXCEPT ![w] = NoCopy] /\ seen' = [seen EXCEPT ![w] = NothingLoaded]
  BY DEF Finish, Goto
<1>4. UNCHANGED <<latest, assigned, comment, started, message, channels, adminVars>>
  OBVIOUS
<1>5. QED
  BY <1>1, <1>2, <1>3, <1>4, Same, QuietRunner

(* The UPDATE of claim_delivery takes the row, or nothing. *)
LEMMA ClaimDeliveryInv == ASSUME IInv, NEW w \in Runners, ClaimDelivery(w) PROVE IInv'
<1>1. /\ UNCHANGED <<lease, crashes>>
      /\ UNCHANGED <<latest, assigned, comment, started, message, channels, adminVars>>
  BY DEF ClaimDelivery, publication
<1>2. work[w] \in Enqueued /\ work[w] \in Deliveries
  BY Working DEF ClaimDelivery, TimedSteps
<1>3. CASE TakeDelivery(work[w]) /\ Goto(w, "acquiring") /\ UNCHANGED <<work, copy, seen>>
  <2>1. OutSafe({})
    BY <1>2, <1>3, Same, TakeSafe
  <2>2. "acquiring" \in Steps \ (TimedSteps \cup {"completing"})
    BY DEF Steps, TimedSteps
  <2>3. /\ pc' = [pc EXCEPT ![w] = "acquiring"] /\ work' = [work EXCEPT ![w] = work[w]]
        /\ copy' = [copy EXCEPT ![w] = copy[w]] /\ seen' = [seen EXCEPT ![w] = seen[w]]
    BY <1>3, Same DEF Goto
  <2>4. /\ OutTypeOK' /\ Enqueued' = Enqueued
        /\ \A e \in Deliveries : out'[e].state = "completed" => out[e].state = "completed"
    BY <2>1 DEF OutSafe
  <2>5. QED
    BY <1>1, <1>2, <2>2, <2>3, <2>4, Same, QuietRunner
<1>4. CASE Finish(w) /\ UNCHANGED out
  <2>1. OutTypeOK' /\ Enqueued' = Enqueued
    BY <1>4, Same DEF OutTypeOK, Enqueued
  <2>2. QED
    BY <1>1, <1>4, <2>1, FinishInv
<1>5. QED
  BY <1>3, <1>4 DEF ClaimDelivery

(* A superseded delivery is completed: it is not of the latest review. *)
LEMMA SupersededInv == ASSUME IInv, NEW w \in Runners, Superseded(w) PROVE IInv'
<1>1. /\ UNCHANGED <<latest, assigned, comment, started, message, channels, adminVars, crashes>>
      /\ lease' = lease /\ Finish(w) /\ reviewOf(work[w]) # latest
      /\ CompleteDelivery(work[w])
  BY DEF Superseded, publication
<1>2. work[w] \in Deliveries
  BY Working DEF Superseded, TimedSteps
<1>3. /\ OutTypeOK' /\ Enqueued' = Enqueued
      /\ \A e \in Deliveries \ {work[w]} : out'[e].state = out[e].state
  BY <1>1, <1>2, Same, CompleteEffect
<1>4. QED
  BY <1>1, <1>3, FinishInv

(* The except blocks load the row. *)
LEMMA LoadRowInv == ASSUME IInv, NEW w \in Runners, LoadRow(w) PROVE IInv'
<1>1. work[w] \in Enqueued /\ work[w] \in Deliveries /\ out[work[w]] \in DeliveryRow
  BY Working DEF LoadRow
<1>2. PICK s \in {"returning", "fail_write", "stop_write"} : pc' = [pc EXCEPT ![w] = s]
  BY DEF LoadRow, Goto
<1>3. Loaded(work[w]) \in LoadedRow
  BY <1>1 DEF Loaded, LoadedRow, DeliveryRow
<1>4. /\ work' = [work EXCEPT ![w] = work[w]] /\ copy' = [copy EXCEPT ![w] = copy[w]]
      /\ seen' = [seen EXCEPT ![w] = Loaded(work[w])]
      /\ UNCHANGED <<out, lease, crashes>>
      /\ UNCHANGED <<latest, assigned, comment, started, message, channels, adminVars>>
  BY Same DEF LoadRow, publication
<1>5. s \in Steps \ (TimedSteps \cup {"completing"})
  BY DEF Steps, TimedSteps
<1>6. OutTypeOK' /\ Enqueued' = Enqueued
  BY <1>4, Same DEF OutTypeOK, Enqueued
<1>7. QED
  BY <1>1, <1>2, <1>3, <1>4, <1>5, <1>6, Same, QuietRunner

(* A busy publication returns the row to pending, whatever it was. *)
LEMMA ReturnDeliveryInv == ASSUME IInv, NEW w \in Runners, ReturnDelivery(w) PROVE IInv'
<1> DEFINE row == [out[work[w]] EXCEPT
                     !.state    = IF seen[w].state = "pending" THEN @ ELSE "pending",
                     !.attempts = IF seen[w].attempts = 0 THEN @ ELSE seen[w].attempts - 1,
                     !.ready = FALSE, !.stale = FALSE]
<1>1. /\ UNCHANGED <<latest, assigned, comment, started, message, channels, adminVars, crashes>>
      /\ lease' = lease /\ Finish(w) /\ out' = [out EXCEPT ![work[w]] = row]
  BY DEF ReturnDelivery, publication
<1>2. work[w] \in Enqueued /\ out[work[w]] \in DeliveryRow
  BY Working DEF ReturnDelivery
<1>3. /\ row \in DeliveryRow
      /\ row.state \notin {"absent", "completed"} \/ row.state = out[work[w]].state
  <2>1. IF seen[w].attempts = 0 THEN TRUE ELSE seen[w].attempts - 1 \in Nat
    BY Same DEF LoadedRow
  <2>2. QED
    BY <1>2, <2>1 DEF DeliveryRow, DeliveryStates
<1> HIDE DEF row
<1>4. OutSafe({})
  BY <1>1, <1>2, <1>3, Same, RowChange
<1>5. QED
  BY <1>1, <1>4, FinishInv DEF OutSafe

(* A failure reschedules or buries the row if it is still in sending. *)
LEMMA FailDeliveryInv == ASSUME IInv, NEW w \in Runners, FailDelivery(w) PROVE IInv'
<1> DEFINE stop == pc[w] = "stop_write"
           failed == Failed(out[work[w]], stop \/ seen[w].attempts >= MaxTries)
           row == IF stop /\ seen[w].attempts # MaxTries
                  THEN [failed EXCEPT !.attempts = MaxTries, !.stale = FALSE]
                  ELSE failed
<1>1. /\ UNCHANGED <<latest, assigned, comment, started, message, channels, adminVars>>
      /\ UNCHANGED <<lease, crashes>> /\ out' = [out EXCEPT ![work[w]] = row]
  BY DEF FailDelivery, publication
<1>2. work[w] \in Enqueued /\ work[w] \in Deliveries /\ out[work[w]] \in DeliveryRow
  BY Working DEF FailDelivery
<1>3. /\ failed \in DeliveryRow
      /\ failed.state \notin {"absent", "completed"} \/ failed.state = out[work[w]].state
  BY <1>2 DEF Failed, DeliveryRow, DeliveryStates
<1>4. /\ row \in DeliveryRow
      /\ row.state \notin {"absent", "completed"} \/ row.state = out[work[w]].state
  <2> HIDE DEF failed
  <2>1. QED
    BY <1>3, DeliveryAssumption DEF DeliveryRow, DeliveryStates
<1> HIDE DEF row
<1>5. OutSafe({})
  BY <1>1, <1>2, <1>4, Same, RowChange
<1>6. /\ pc' = [pc EXCEPT ![w] = "releasing"] /\ work' = [work EXCEPT ![w] = work[w]]
      /\ copy' = [copy EXCEPT ![w] = copy[w]] /\ seen' = [seen EXCEPT ![w] = seen[w]]
  BY Same DEF FailDelivery, Goto
<1>7. "releasing" \in Steps \ (TimedSteps \cup {"completing"})
  BY DEF Steps, TimedSteps
<1>8. /\ OutTypeOK' /\ Enqueued' = Enqueued
      /\ \A e \in Deliveries : out'[e].state = "completed" => out[e].state = "completed"
  BY <1>5 DEF OutSafe
<1>9. QED
  BY <1>1, <1>2, <1>6, <1>7, <1>8, Same, QuietRunner

(* The finally block releases the runner's own lease only. *)
LEMMA ReleaseInv == ASSUME IInv, NEW w \in Runners, Release(w) PROVE IInv'
<1>1. /\ UNCHANGED <<latest, assigned, comment, started, message, channels, adminVars, crashes>>
      /\ UNCHANGED out /\ Finish(w)
      /\ lease' = lease \/ (lease = w /\ lease' \in {NoOne, Gone})
  BY DEF Release
<1>2. OutTypeOK' /\ Enqueued' = Enqueued
  BY <1>1, Same DEF OutTypeOK, Enqueued
<1>3. QED
  BY <1>1, <1>2, FinishInv

(* A crash leaves the lease to nobody alive. *)
LEMMA CrashInv == ASSUME IInv, NEW w \in Runners, Crash(w) PROVE IInv'
<1>1. /\ pc' = [pc EXCEPT ![w] = "down"] /\ work' = [work EXCEPT ![w] = NoOne]
      /\ copy' = [copy EXCEPT ![w] = NoCopy] /\ seen' = [seen EXCEPT ![w] = NothingLoaded]
      /\ lease' = lease \/ (lease = w /\ lease' \in {NoOne, Gone})
      /\ UNCHANGED out
      /\ UNCHANGED <<latest, assigned, comment, started, message, channels, adminVars>>
  BY DEF Crash
<1>2. crashes' \in 0 .. MaxCrashes
  BY Same, PublicationAssumption DEF Crash
<1>3. "down" \in Steps \ (TimedSteps \cup {"completing"})
  BY DEF Steps, TimedSteps
<1>4. OutTypeOK' /\ Enqueued' = Enqueued
  BY <1>1, Same DEF OutTypeOK, Enqueued
<1>5. QED
  BY <1>1, <1>2, <1>3, <1>4, Same, QuietRunner

(* A restarted runner has nothing. *)
LEMMA RestartInv == ASSUME IInv, NEW w \in Runners, Restart(w) PROVE IInv'
<1>1. /\ pc' = [pc EXCEPT ![w] = "idle"] /\ work' = [work EXCEPT ![w] = work[w]]
      /\ copy' = [copy EXCEPT ![w] = copy[w]] /\ seen' = [seen EXCEPT ![w] = seen[w]]
      /\ UNCHANGED <<out, lease, crashes>>
      /\ UNCHANGED <<latest, assigned, comment, started, message, channels, adminVars>>
  BY Same DEF Restart, Goto, publication
<1>2. "idle" \in Steps \ (TimedSteps \cup {"completing"})
  BY DEF Steps, TimedSteps
<1>3. OutTypeOK' /\ Enqueued' = Enqueued
  BY <1>1, Same DEF OutTypeOK, Enqueued
<1>4. QED
  BY <1>1, <1>2, <1>3, Same, QuietRunner


-----------------------------------------------------------------------------
(* The API and the clocks, outside the block as well.                      *)

(* An assignment adds rows of the latest review at most. *)
LEMMA AssignReviewerInv == ASSUME IInv, AssignReviewer PROVE IInv'
<1>1. /\ UNCHANGED <<latest, comment, started, message, lease, github, discord>>
      /\ UNCHANGED <<pc, work, copy, seen, resend, recovery, requests, crashes>>
      /\ assigned' = assigned + 1 /\ assigned < MaxAssigns
  BY DEF AssignReviewer, channels, runnerVars, adminVars
<1>2. TypeOK /\ assigned \in 0 .. MaxAssigns /\ latest \in 0 .. MaxReviews
  BY DEF IInv, TypeOK
<1>3. assigned' \in 0 .. MaxAssigns /\ assigned' \in 1 .. MaxAssigns
  BY <1>1, <1>2, PublicationAssumption
<1>4. PICK S \in SUBSET Deliveries : OutSafe(S) /\ \A d \in S : reviewOf(d) <= latest
  <2>1. CASE latest # 0 /\ comment # 0
    <3> DEFINE d == <<latest, "github", assigned + 1>>
    <3>1. d \in Deliveries
      BY <1>1, <1>2, <1>3, <2>1, DeliveryNames, PublicationAssumption
    <3>2. EnqueueDeliveries({d})
      BY <2>1 DEF AssignReviewer
    <3>3. OutSafe({d})
      <4> HIDE DEF d
      <4>1. QED
        BY <1>2, <3>1, <3>2, EnqueueSafe DEF TypeOK
    <3>4. reviewOf(d) <= latest
      BY <1>2, PublicationAssumption DEF reviewOf
    <3> HIDE DEF d
    <3>5. {d} \in SUBSET Deliveries /\ \A e \in {d} : reviewOf(e) <= latest
      BY <3>1, <3>4
    <3>6. QED
      BY <3>3, <3>5
  <2>2. CASE ~(latest # 0 /\ comment # 0)
    <3>1. UNCHANGED out
      BY <2>2 DEF AssignReviewer
    <3>2. OutSafe({})
      BY <1>2, <3>1 DEF OutSafe, TypeOK, OutTypeOK, Enqueued
    <3>3. QED
      BY <3>2
  <2>3. QED
    BY <2>1, <2>2
<1>5. /\ OutTypeOK' /\ Enqueued \subseteq Enqueued'
      /\ \A d \in Enqueued' : reviewOf(d) <= latest
      /\ \A d \in Deliveries : out'[d].state = "completed" => out[d].state = "completed"
  BY <1>4 DEF OutSafe, IInv, RowInv
<1>6. TypeOK'
  BY <1>1, <1>2, <1>3, <1>5 DEF TypeOK
<1>7. resend' # <<>> => resend'[1] \in Enqueued'
  BY <1>1, <1>5 DEF IInv, RowInv
<1>8. QED
  <2> DEFINE W == {}
  <2>1. W \in SUBSET Runners /\ \A v \in W : FALSE
    OBVIOUS
  <2> HIDE DEF W
  <2>2. QED
    BY <1>1, <1>5, <1>6, <1>7, <2>1, Quiet

(* What touches neither the runners nor the channels nor the publication,  *)
(* but perhaps the lease of a holder who is out of the block.              *)
LEMMA QuietElsewhere ==
    ASSUME IInv, TypeOK',
           UNCHANGED <<latest, comment, started, message, channels, runnerVars>>,
           lease' = lease \/ (lease' = NoOne /\ ~(lease \in Runners /\ pc[lease] \in TimedSteps)),
           recovery' = recovery \/ recovery' = NoOne,
           OutSafe({}),
           resend' # <<>> => resend'[1] \in Enqueued
    PROVE  IInv'
<1>1. UNCHANGED <<latest, comment, started, message, github, discord, pc, work, copy>>
  BY DEF channels, runnerVars
<1>2. /\ Enqueued' = Enqueued
      /\ \A d \in Deliveries : out'[d].state = "completed" => out[d].state = "completed"
  BY DEF OutSafe
<1>3. lease' = lease \/ (/\ lease' # Admin
                         /\ \A v \in Runners : pc'[v] \in TimedSteps => lease # v)
  BY <1>1, PublicationAssumption
<1>4. /\ \A d \in Enqueued' : reviewOf(d) <= latest
      /\ Enqueued \subseteq Enqueued'
      /\ resend' # <<>> => resend'[1] \in Enqueued'
  BY <1>2 DEF IInv, RowInv
<1>5. QED
  <2> DEFINE W == {}
  <2>1. W \in SUBSET Runners /\ \A v \in W : FALSE
    OBVIOUS
  <2> HIDE DEF W
  <2>2. QED
    BY <1>1, <1>2, <1>3, <1>4, <2>1, Quiet

(* A step that leaves the table alone. *)
LEMMA Untouched == ASSUME IInv, UNCHANGED out PROVE OutSafe({})
BY DEF IInv, TypeOK, OutSafe, OutTypeOK, Enqueued

(* post_resend_outbound_delivery reads a row. *)
LEMMA ResendReadInv ==
    ASSUME IInv, NEW d \in Deliveries, ResendRead(d)
    PROVE  IInv'
<1>1. /\ UNCHANGED <<out, latest, assigned, comment, started, message, lease>>
      /\ UNCHANGED <<channels, runnerVars, recovery, crashes>>
      /\ resend' = <<d, Loaded(d)>> /\ requests' = requests + 1 /\ requests < MaxResends
  BY DEF ResendRead, publication
<1>2. d \in Enqueued
  BY DEF ResendRead, Enqueued
<1>3. requests' \in 0 .. MaxResends
  BY <1>1, PublicationAssumption DEF IInv, TypeOK
<1>4. Loaded(d) \in LoadedRow
  BY DEF IInv, TypeOK, OutTypeOK, Loaded, LoadedRow, DeliveryRow
<1>5. resend' \in Deliveries \X LoadedRow /\ resend'[1] = d
  BY <1>1, <1>4
<1>6. TypeOK'
  BY <1>1, <1>3, <1>5 DEF IInv, TypeOK, OutTypeOK, channels, runnerVars
<1>7. UNCHANGED <<latest, comment, started, message, channels, runnerVars>> /\ lease' = lease /\ OutSafe({})
  BY <1>1, Untouched
<1>8. resend' # <<>> => resend'[1] \in Enqueued
  BY <1>2, <1>5
<1>9. QED
  BY <1>1, <1>6, <1>7, <1>8, QuietElsewhere

(* It writes the row, in whatever state it is by then. *)
LEMMA ResendWriteInv == ASSUME IInv, ResendWrite PROVE IInv'
<1>1. /\ UNCHANGED <<latest, assigned, comment, started, message, lease>>
      /\ UNCHANGED <<channels, runnerVars, recovery, requests, crashes>>
      /\ resend # <<>> /\ resend' = <<>> /\ Resend(resend[1], resend[2])
  BY DEF ResendWrite, publication
<1>2. resend[1] \in Enqueued
  BY <1>1 DEF IInv, RowInv
<1>3. OutSafe({})
  BY <1>1, <1>2, ResendSafe DEF IInv, TypeOK
<1>4. TypeOK'
  BY <1>1, <1>3 DEF OutSafe, IInv, TypeOK, channels, runnerVars
<1>5. UNCHANGED <<latest, comment, started, message, channels, runnerVars>> /\ lease' = lease
      /\ recovery' = recovery /\ resend' = <<>>
  BY <1>1
<1>6. QED
  BY <1>3, <1>4, <1>5, QuietElsewhere

(* A retry comes due, or a delivery in sending counts as stale. *)
LEMMA TickInv == ASSUME IInv, NEW d \in Deliveries, Tick(d) PROVE IInv'
<1>1. /\ UNCHANGED <<latest, assigned, comment, started, message, lease, channels, runnerVars>>
      /\ UNCHANGED <<resend, recovery, requests, crashes>>
  BY DEF Tick, publication, adminVars
<1>2. PICK row \in DeliveryRow : /\ out' = [out EXCEPT ![d] = row]
                                 /\ row.state = out[d].state /\ d \in Enqueued
  <2>0. OutTypeOK /\ out[d] \in DeliveryRow
    BY DEF IInv, TypeOK, OutTypeOK
  <2>1. CASE RetryDue(d)
    <3>1. /\ [out[d] EXCEPT !.ready = TRUE] \in DeliveryRow
          /\ [out[d] EXCEPT !.ready = TRUE].state = out[d].state
      BY <2>0 DEF DeliveryRow
    <3>2. out' = [out EXCEPT ![d] = [out[d] EXCEPT !.ready = TRUE]] /\ d \in Enqueued
      BY <2>0, <2>1 DEF RetryDue, Enqueued
    <3>3. QED
      BY <3>1, <3>2
  <2>2. CASE GrowsStale(d)
    <3>1. /\ [out[d] EXCEPT !.stale = TRUE] \in DeliveryRow
          /\ [out[d] EXCEPT !.stale = TRUE].state = out[d].state
      BY <2>0 DEF DeliveryRow
    <3>2. out' = [out EXCEPT ![d] = [out[d] EXCEPT !.stale = TRUE]] /\ d \in Enqueued
      BY <2>0, <2>2 DEF GrowsStale, Enqueued
    <3>3. QED
      BY <3>1, <3>2
  <2>3. QED
    BY <2>1, <2>2 DEF Tick
<1>3. OutSafe({})
  BY <1>2, RowChange DEF IInv, TypeOK
<1>4. TypeOK'
  BY <1>1, <1>3 DEF OutSafe, IInv, TypeOK, channels, runnerVars
<1>5. resend' # <<>> => resend'[1] \in Enqueued
  BY <1>1 DEF IInv, RowInv
<1>6. UNCHANGED <<latest, comment, started, message, channels, runnerVars>> /\ lease' = lease
      /\ recovery' = recovery
  BY <1>1
<1>7. QED
  BY <1>3, <1>4, <1>5, <1>6, QuietElsewhere

(* A recovery gives up, releases its lease, or a lease lapses. *)
LEMMA LeaseEndsInv ==
    ASSUME IInv, RecoverFails \/ RecoverRelease \/ LeaseLapses
    PROVE  IInv'
<1>1. /\ UNCHANGED <<out, latest, assigned, comment, started, message, channels, runnerVars>>
      /\ UNCHANGED <<resend, requests, crashes>>
      /\ recovery' = recovery \/ recovery' = NoOne
  BY DEF RecoverFails, RecoverRelease, LeaseLapses, publication, adminVars
<1>2. lease' = lease \/ (lease' = NoOne /\ ~(lease \in Runners /\ pc[lease] \in TimedSteps))
  <2>1. CASE RecoverFails
    BY <2>1 DEF RecoverFails, publication
  <2>2. CASE RecoverRelease
    <3>1. Admin \notin Runners
      BY PublicationAssumption
    <3>2. QED
      BY <2>2, <3>1 DEF RecoverRelease
  <2>3. CASE LeaseLapses
    BY <2>3 DEF LeaseLapses
  <2>4. QED
    BY <2>1, <2>2, <2>3
<1>3. TypeOK'
  BY <1>1, <1>2 DEF IInv, TypeOK, OutTypeOK, channels, runnerVars
<1>4. resend' # <<>> => resend'[1] \in Enqueued
  BY <1>1 DEF IInv, RowInv
<1>5. QED
  BY <1>1, <1>2, <1>3, <1>4, Untouched, QuietElsewhere

-----------------------------------------------------------------------------
(* The timed block.  A step of the holder of the lease, after which its    *)
(* position is s and its publication object c: what is left to show is     *)
(* about the holder alone, since nobody else is in the block.              *)
GithubSteps == {"writing", "saving_comment", "decorating"}
DiscordSteps == {"patching", "starting", "posting", "clearing", "saving_message"}

HolderMoves(w, s, c) ==
    /\ pc' = [pc EXCEPT ![w] = s]
    /\ copy' = [copy EXCEPT ![w] = c]
    /\ UNCHANGED <<out, latest, assigned, lease, work, seen, adminVars, crashes>>

(* The columns and the channels after the step. *)
ChannelsKept ==
    /\ comment' \in 0 .. Len(github') /\ message' \in 0 .. Len(discord')
    /\ started' \in BOOLEAN
    /\ github' \in Seq([review : 1 .. MaxReviews, reviewer : 0 .. MaxAssigns])
    /\ discord' \in Seq(1 .. MaxReviews)
    /\ OneComment' /\ OneMessage' /\ NoForgottenMessage'
    /\ github' = github \/ (github' # <<>> /\ github'[1].review = latest)
    /\ discord' = discord \/ (discord' # <<>> /\ discord'[1] = latest)

(* What the runner relies on at its new position. *)
HolderKnows(w, s, c) ==
    /\ s \in GithubSteps => channelOf(work[w]) = "github"
    /\ s \in DiscordSteps => channelOf(work[w]) = "discord"
    /\ s \in {"writing", "saving_comment"} => c.comment = Len(github')
    /\ s \in {"starting", "posting", "clearing"} => discord' = <<>>
    /\ s = "posting" => started'
    /\ s \in {"patching", "saving_message"} => c.message = 1 /\ Len(discord') = 1
    /\ s \in {"saving_comment", "decorating", "saving_message", "completing"} =>
          Shown(work[w])'

(* The step preserves the invariant. *)
LEMMA HolderStep ==
    ASSUME IInv, NEW w \in Runners, pc[w] \in TimedSteps,
           NEW s \in Steps \ {"checking", "down", "idle"}, NEW c \in Copy,
           HolderMoves(w, s, c), ChannelsKept, HolderKnows(w, s, c)
    PROVE  IInv'
<1>1. /\ pc'[w] = s /\ work' = work /\ copy'[w] = c
      /\ \A v \in Runners \ {w} : pc'[v] = pc[v] /\ copy'[v] = copy[v]
  BY DEF HolderMoves, IInv, TypeOK
<1>2. /\ UNCHANGED <<out, latest, assigned, lease, work, seen>>
      /\ UNCHANGED <<resend, recovery, requests, crashes>>
  BY DEF HolderMoves, adminVars
<1>3. /\ lease = w /\ lease # Admin
      /\ reviewOf(work[w]) = latest /\ work[w] \in Enqueued
      /\ \A v \in Runners \ {w} : pc[v] \notin TimedSteps
  BY Alone
<1>4. TypeOK'
  BY <1>2 DEF HolderMoves, ChannelsKept, IInv, TypeOK, OutTypeOK
<1>5. RowInv'
  BY <1>1, <1>2, <1>3 DEF IInv, RowInv, Enqueued
<1>6. HolderInv'
  BY <1>1, <1>2, <1>3 DEF HolderKnows, GithubSteps, DiscordSteps, IInv, HolderInv, TimedSteps
<1>7. StickyInv'
  BY <1>1, <1>3 DEF HolderKnows, ChannelsKept, StickyInv, TimedSteps
<1>8. MessageInv'
  BY <1>1, <1>2, <1>3 DEF HolderKnows, ChannelsKept, MessageInv, TimedSteps
<1>9. ShownInv'
  <2>1. \A d : Shown(d) /\ reviewOf(d) = latest => Shown(d)'
    BY <1>2 DEF ChannelsKept, Shown
  <2>2. CompletedMeansShown'
    BY <1>2, <2>1 DEF IInv, ShownInv, CompletedMeansShown
  <2>3. \A v \in Runners :
           pc'[v] \in {"saving_comment", "decorating", "saving_message", "completing"}
           /\ reviewOf(work'[v]) = latest' => Shown(work[v])'
    <3> SUFFICES ASSUME NEW v \in Runners,
                        pc'[v] \in {"saving_comment", "decorating", "saving_message", "completing"},
                        reviewOf(work'[v]) = latest'
                 PROVE  Shown(work[v])'
      OBVIOUS
    <3>1. CASE v = w
      BY <1>1, <3>1 DEF HolderKnows
    <3>2. CASE v # w
      <4>1. pc[v] = "completing" /\ reviewOf(work[v]) = latest
        BY <1>1, <1>2, <1>3, <3>2 DEF TimedSteps
      <4>2. Shown(work[v])
        BY <4>1 DEF IInv, ShownInv
      <4>3. QED
        BY <1>1, <2>1, <4>1, <4>2 DEF Shown
    <3>3. QED
      BY <3>1, <3>2
  <2>4. QED
    BY <2>2, <2>3 DEF ShownInv
<1>10. QED
  BY <1>4, <1>5, <1>6, <1>7, <1>8, <1>9 DEF IInv

(* A step of the block that touches neither columns nor channels. *)
LEMMA NothingWritten ==
    ASSUME IInv, UNCHANGED <<comment, started, message, github, discord>>
    PROVE  ChannelsKept
<1>1. /\ comment \in 0 .. Len(github) /\ message \in 0 .. Len(discord)
      /\ started \in BOOLEAN
      /\ github \in Seq([review : 1 .. MaxReviews, reviewer : 0 .. MaxAssigns])
      /\ discord \in Seq(1 .. MaxReviews)
      /\ OneComment /\ OneMessage /\ NoForgottenMessage
  BY DEF IInv, TypeOK, StickyInv, MessageInv
<1>2. OneComment' /\ OneMessage' /\ NoForgottenMessage'
  BY <1>1 DEF OneComment, OneMessage, NoForgottenMessage
<1>3. QED
  BY <1>1, <1>2 DEF ChannelsKept

(* At most one of each: what is there is at position 1. *)
LEMMA FirstAndOnly ==
    ASSUME IInv
    PROVE  /\ github = <<>> => Len(github) = 0
           /\ github # <<>> => Len(github) = 1
           /\ discord = <<>> => Len(discord) = 0
           /\ discord # <<>> => Len(discord) = 1
<1>1. /\ github \in Seq([review : 1 .. MaxReviews, reviewer : 0 .. MaxAssigns])
      /\ discord \in Seq(1 .. MaxReviews)
      /\ Len(github) <= 1 /\ Len(discord) <= 1
  BY DEF IInv, TypeOK, StickyInv, MessageInv, OneComment, OneMessage
<1>2. /\ github # <<>> => Len(github) \in Nat \ {0}
      /\ discord # <<>> => Len(discord) \in Nat \ {0}
  BY <1>1, EmptySeq
<1>3. /\ github = <<>> => Len(github) = 0
      /\ discord = <<>> => Len(discord) = 0
  OBVIOUS
<1>4. \A n \in Nat \ {0} : n <= 1 => n = 1
  OBVIOUS
<1>5. Len(github) <= 1 /\ Len(discord) <= 1
  BY <1>1
<1>6. QED
  BY <1>2, <1>3, <1>4, <1>5

(* A comment or a message that is created, or written over the only one. *)
LEMMA Written ==
    ASSUME NEW S, NEW s \in Seq(S), NEW e \in S, Len(s) <= 1, NEW t,
           t = IF Len(s) = 0 THEN Append(s, e) ELSE [s EXCEPT ![1] = e]
    PROVE  t \in Seq(S) /\ Len(t) = 1 /\ t # <<>> /\ t[1] = e
<1>1. CASE Len(s) = 0
  BY <1>1, AppendProperties
<1>2. CASE Len(s) # 0
  <2>1. Len(s) \in Nat
    BY LenProperties
  <2>2. \A n \in Nat : n <= 1 /\ n # 0 => n = 1 /\ 1 \in 1 .. n
    OBVIOUS
  <2>3. Len(s) = 1 /\ 1 \in 1 .. Len(s)
    BY <1>2, <2>1, <2>2
  <2>4. /\ [s EXCEPT ![1] = e] \in Seq(S) /\ Len([s EXCEPT ![1] = e]) = Len(s)
        /\ [s EXCEPT ![1] = e][1] = e
    BY <2>3, ExceptSeq, SMTT(60)
  <2>5. t \in Seq(S) /\ Len(t) = 1 /\ t[1] = e
    BY <1>2, <2>3, <2>4
  <2>6. Len(<<>>) # 1
    OBVIOUS
  <2>7. QED
    BY <2>5, <2>6
<1>3. QED
  BY <1>1, <1>2

(* What the holder knows by the invariant. *)
LEMMA HolderHas ==
    ASSUME IInv, NEW w \in Runners, pc[w] \in TimedSteps
    PROVE  /\ work[w] \in Deliveries /\ reviewOf(work[w]) = latest
           /\ latest \in 1 .. MaxReviews
           /\ copy[w] \in Copy /\ NoCopy \in Copy
           /\ pc[w] \in GithubSteps => channelOf(work[w]) = "github"
           /\ pc[w] \in DiscordSteps => channelOf(work[w]) = "discord"
<1>1. work[w] \in Deliveries /\ reviewOf(work[w]) = latest
  BY Alone
<1>2. latest \in 1 .. MaxReviews
  BY <1>1, DeliveryNames
<1>3. QED
  BY <1>1, <1>2, Same DEF IInv, HolderInv, GithubSteps, DiscordSteps

(* find_sticky: a comment that is there is known when the runner writes. *)
LEMMA FindStickyInv == ASSUME IInv, NEW w \in Runners, FindSticky(w) PROVE IInv'
<1> DEFINE found == IF copy[w].comment = 0 /\ github # <<>> THEN 1 ELSE copy[w].comment
           c == [copy[w] EXCEPT !.comment = found]
<1>1. pc[w] \in TimedSteps
  BY DEF FindSticky, TimedSteps
<1>2. copy[w] \in Copy /\ copy[w].comment \in Nat /\ copy[w].comment <= Len(github)
  BY <1>1, HolderHas DEF FindSticky, Copy, IInv, StickyInv
<1>3. found = Len(github)
  BY <1>2, FirstAndOnly, SMTT(60)
<1>4. c \in Copy /\ c.comment = found
  BY <1>2 DEF Copy
<1>5. HolderMoves(w, "writing", c)
  BY DEF FindSticky, HolderMoves, Goto, publication, IInv, TypeOK
<1> HIDE DEF found, c
<1>6. ChannelsKept
  BY NothingWritten DEF FindSticky, publication, channels
<1>7. HolderKnows(w, "writing", c)
  BY <1>3, <1>4 DEF HolderKnows, FindSticky, channels, DiscordSteps
<1>8. "writing" \in Steps \ {"checking", "down", "idle"}
  BY DEF Steps, TimedSteps
<1>9. QED
  BY <1>1, <1>4, <1>5, <1>6, <1>7, <1>8, HolderStep

(* The comment is created only if none is known, and shows the latest review. *)
LEMMA PublishGithubInv == ASSUME IInv, NEW w \in Runners, PublishGithub(w) PROVE IInv'
<1> DEFINE n == copy[w].comment
           content == [review |-> reviewOf(work[w]), reviewer |-> copy[w].assigned]
<1>1. pc[w] \in TimedSteps /\ pc[w] \in GithubSteps
  BY DEF PublishGithub, TimedSteps, GithubSteps
<1>2. /\ latest \in 1 .. MaxReviews /\ reviewOf(work[w]) = latest
      /\ channelOf(work[w]) = "github" /\ copy[w] \in Copy /\ NoCopy \in Copy
  BY <1>1, HolderHas
<1>3. n = Len(github)
  BY DEF IInv, StickyInv, PublishGithub
<1>4. content \in [review : 1 .. MaxReviews, reviewer : 0 .. MaxAssigns] /\ content.review = latest
  BY <1>2 DEF Copy
<1>5. github' = IF n = 0 THEN Append(github, content) ELSE [github EXCEPT ![n] = content]
  BY DEF PublishGithub
<1> HIDE DEF n, content
<1>6. /\ github' \in Seq([review : 1 .. MaxReviews, reviewer : 0 .. MaxAssigns])
      /\ Len(github') = 1 /\ github' # <<>> /\ github'[1] = content
  <2>1. github \in Seq([review : 1 .. MaxReviews, reviewer : 0 .. MaxAssigns])
    BY DEF IInv, TypeOK
  <2>2. Len(github) <= 1
    BY DEF IInv, StickyInv, OneComment
  <2>3. github' = IF Len(github) = 0 THEN Append(github, content) ELSE [github EXCEPT ![1] = content]
    BY <1>3, <1>5, FirstAndOnly
  <2> DEFINE S == [review : 1 .. MaxReviews, reviewer : 0 .. MaxAssigns]
  <2>4. github \in Seq(S) /\ content \in S
    BY <1>4, <2>1
  <2> HIDE DEF S
  <2>5. github' \in Seq(S) /\ Len(github') = 1 /\ github' # <<>> /\ github'[1] = content
    BY <2>2, <2>3, <2>4, Written
  <2>6. QED
    BY <2>5 DEF S
<1>7. /\ UNCHANGED <<comment, started, message, discord>>
      /\ UNCHANGED <<out, latest, assigned, lease, work, seen, adminVars, crashes>>
  BY DEF PublishGithub, publication
<1>8. ChannelsKept
  <2>1. comment' \in 0 .. 1
    <3>1. comment \in 0 .. Len(github)
      BY DEF IInv, TypeOK
    <3>2. Len(github) \in 0 .. 1
      BY FirstAndOnly
    <3>3. \A k \in 0 .. 1 : \A x \in 0 .. k : x \in 0 .. 1
      OBVIOUS
    <3>4. comment \in 0 .. 1
      BY <3>1, <3>2, <3>3
    <3>5. QED
      BY <1>7, <3>4
  <2>2. OneComment' /\ OneMessage' /\ NoForgottenMessage'
    BY <1>6, <1>7 DEF OneComment, OneMessage, NoForgottenMessage, IInv, MessageInv
  <2>3. QED
    BY <1>4, <1>6, <1>7, <2>1, <2>2 DEF ChannelsKept, IInv, TypeOK
<1>9. CASE Leave(w, "failing")
  <2>1. HolderMoves(w, "failing", NoCopy)
    BY <1>7, <1>9 DEF HolderMoves, Leave, Goto
  <2>2. HolderKnows(w, "failing", NoCopy)
    BY DEF HolderKnows, GithubSteps, DiscordSteps
  <2>3. "failing" \in Steps \ {"checking", "down", "idle"}
    BY DEF Steps
  <2>4. QED
    BY <1>1, <1>2, <1>8, <2>1, <2>2, <2>3, HolderStep
<1>10. CASE ~Leave(w, "failing")
  <2> DEFINE c == [copy[w] EXCEPT !.comment = 1]
  <2>1. c \in Copy /\ c.comment = 1
    BY <1>2 DEF Copy
  <2>2. pc' = [pc EXCEPT ![w] = "saving_comment"]
    BY <1>10 DEF PublishGithub, Goto
  <2>3. copy' = [copy EXCEPT ![w] = c]
    <3>1. (IF n = 0 THEN Len(github) + 1 ELSE n) = 1
      BY <1>3, FirstAndOnly
    <3>2. copy' = [copy EXCEPT ![w].comment = IF n = 0 THEN Len(github) + 1 ELSE n]
      BY <1>10 DEF PublishGithub, n
    <3>3. QED
      BY <3>1, <3>2 DEF IInv, TypeOK
  <2> HIDE DEF c
  <2>4. HolderMoves(w, "saving_comment", c)
    BY <1>7, <2>2, <2>3 DEF HolderMoves
  <2>5. HolderKnows(w, "saving_comment", c)
    BY <1>2, <1>4, <1>6, <1>7, <2>1 DEF HolderKnows, DiscordSteps, Shown
  <2>6. "saving_comment" \in Steps \ {"checking", "down", "idle"}
    BY DEF Steps, TimedSteps
  <2>7. QED
    BY <1>1, <1>8, <2>1, <2>4, <2>5, <2>6, HolderStep
<1>11. QED
  BY <1>9, <1>10

(* save_publication of the comment id: it becomes the one on record. *)
LEMMA SaveCommentInv == ASSUME IInv, NEW w \in Runners, SaveComment(w) PROVE IInv'
<1>1. pc[w] = "saving_comment" /\ pc[w] \in TimedSteps /\ pc[w] \in GithubSteps
  BY DEF SaveComment, Save, TimedSteps, GithubSteps
<1>2. copy[w] \in Copy /\ channelOf(work[w]) = "github" /\ reviewOf(work[w]) = latest
  BY <1>1, HolderHas
<1>3. copy[w].comment = Len(github) /\ Shown(work[w])
  BY <1>1, <1>2 DEF IInv, StickyInv, ShownInv
<1>4. /\ UNCHANGED <<out, latest, assigned, lease, work, seen, adminVars, crashes>>
      /\ UNCHANGED <<started, message, github, discord>>
      /\ comment' = copy[w].comment /\ pc' = [pc EXCEPT ![w] = "decorating"]
      /\ copy' = [copy EXCEPT ![w] = copy[w]]
  BY Same DEF SaveComment, Goto, channels
<1>5. ChannelsKept
  <2>1. comment' \in 0 .. Len(github')
    <3>1. Len(github) \in 0 .. 1
      BY FirstAndOnly
    <3>2. \A n \in 0 .. 1 : n \in 0 .. n
      OBVIOUS
    <3>3. QED
      BY <1>3, <1>4, <3>1, <3>2
  <2>2. OneComment' /\ OneMessage' /\ NoForgottenMessage'
    BY <1>4 DEF IInv, StickyInv, MessageInv, OneComment, OneMessage, NoForgottenMessage
  <2>3. QED
    BY <1>4, <2>1, <2>2 DEF ChannelsKept, IInv, TypeOK
<1>6. HolderMoves(w, "decorating", copy[w])
  BY <1>4 DEF HolderMoves
<1>7. HolderKnows(w, "decorating", copy[w])
  BY <1>2, <1>3, <1>4 DEF HolderKnows, DiscordSteps, Shown
<1>8. "decorating" \in Steps \ {"checking", "down", "idle"}
  BY DEF Steps, TimedSteps
<1>9. QED
  BY <1>1, <1>2, <1>5, <1>6, <1>7, <1>8, HolderStep

(* The end of the block for GitHub: the review is on display. *)
LEMMA DecorateInv == ASSUME IInv, NEW w \in Runners, Decorate(w) PROVE IInv'
<1>1. pc[w] = "decorating" /\ pc[w] \in TimedSteps
  BY DEF Decorate, TimedSteps
<1>2. NoCopy \in Copy /\ reviewOf(work[w]) = latest
  BY <1>1, HolderHas
<1>3. Shown(work[w])
  BY <1>1, <1>2 DEF IInv, ShownInv
<1>4. /\ UNCHANGED <<out, latest, assigned, lease, work, seen, adminVars, crashes>>
      /\ UNCHANGED <<comment, started, message, github, discord>>
      /\ pc' = [pc EXCEPT ![w] = "completing"] /\ copy' = [copy EXCEPT ![w] = NoCopy]
  BY DEF Decorate, Leave, Goto, publication, channels
<1>5. ChannelsKept
  BY <1>4, NothingWritten
<1>6. HolderMoves(w, "completing", NoCopy)
  BY <1>4 DEF HolderMoves
<1>7. HolderKnows(w, "completing", NoCopy)
  BY <1>3, <1>4 DEF HolderKnows, GithubSteps, DiscordSteps, Shown
<1>8. "completing" \in Steps \ {"checking", "down", "idle"}
  BY DEF Steps
<1>9. QED
  BY <1>1, <1>2, <1>5, <1>6, <1>7, <1>8, HolderStep

(* A first send is begun only if there is no message and no mark. *)
LEMMA GuardDiscordInv == ASSUME IInv, NEW w \in Runners, GuardDiscord(w) PROVE IInv'
<1>1. pc[w] = "checking" /\ pc[w] \in TimedSteps /\ channelOf(work[w]) = "discord"
  BY DEF GuardDiscord, TimedSteps
<1>2. NoCopy \in Copy /\ copy[w] \in Copy
  BY <1>1, HolderHas
<1>3. /\ copy[w].message = message /\ copy[w].started = started
      /\ NoForgottenMessage /\ message \in 0 .. Len(discord)
  BY <1>1 DEF IInv, TypeOK, MessageInv
<1>4. /\ UNCHANGED <<out, latest, assigned, lease, work, seen, adminVars, crashes>>
      /\ UNCHANGED <<comment, started, message, github, discord>>
  BY DEF GuardDiscord, publication, channels
<1>5. ChannelsKept
  BY <1>4, NothingWritten
<1>6. {"patching", "stopping", "starting"} \subseteq Steps \ {"checking", "down", "idle"}
  BY DEF Steps, TimedSteps
<1>7. CASE copy[w].message # 0
  <2>1. HolderMoves(w, "patching", copy[w])
    BY <1>4, <1>7, Same DEF GuardDiscord, Goto, HolderMoves
  <2>2. copy[w].message = 1 /\ Len(discord) = 1
    <3>1. Len(discord) \in 0 .. 1
      BY FirstAndOnly
    <3>2. \A n \in 0 .. 1 : \A x \in 0 .. n : x # 0 => x = 1 /\ n = 1
      OBVIOUS
    <3>3. QED
      BY <1>3, <1>7, <3>1, <3>2
  <2>3. HolderKnows(w, "patching", copy[w])
    BY <1>1, <1>4, <2>2 DEF HolderKnows, GithubSteps
  <2>4. QED
    BY <1>1, <1>2, <1>5, <1>6, <2>1, <2>3, HolderStep
<1>8. CASE copy[w].message = 0 /\ copy[w].started
  <2>1. HolderMoves(w, "stopping", NoCopy)
    BY <1>4, <1>8 DEF GuardDiscord, Goto, Leave, HolderMoves
  <2>2. HolderKnows(w, "stopping", NoCopy)
    BY DEF HolderKnows, GithubSteps, DiscordSteps
  <2>3. QED
    BY <1>1, <1>2, <1>5, <1>6, <2>1, <2>2, HolderStep
<1>9. CASE copy[w].message = 0 /\ ~copy[w].started
  <2>1. HolderMoves(w, "starting", copy[w])
    BY <1>4, <1>9, Same DEF GuardDiscord, Goto, HolderMoves
  <2>2. discord = <<>>
    BY <1>3, <1>9 DEF NoForgottenMessage
  <2>3. HolderKnows(w, "starting", copy[w])
    BY <1>1, <1>4, <2>2 DEF HolderKnows, GithubSteps
  <2>4. QED
    BY <1>1, <1>2, <1>5, <1>6, <2>1, <2>3, HolderStep
<1>10. QED
  BY <1>7, <1>8, <1>9

(* The message is rewritten to show the latest review. *)
LEMMA PatchMessageInv == ASSUME IInv, NEW w \in Runners, PatchMessage(w) PROVE IInv'
<1>1. pc[w] = "patching" /\ pc[w] \in TimedSteps /\ pc[w] \in DiscordSteps
  BY DEF PatchMessage, TimedSteps, DiscordSteps
<1>2. /\ latest \in 1 .. MaxReviews /\ reviewOf(work[w]) = latest
      /\ channelOf(work[w]) = "discord" /\ copy[w] \in Copy /\ NoCopy \in Copy
  BY <1>1, HolderHas
<1>3. copy[w].message = 1 /\ Len(discord) = 1 /\ NoForgottenMessage
  BY <1>1 DEF IInv, MessageInv
<1>4. /\ UNCHANGED <<out, latest, assigned, lease, work, seen, adminVars, crashes>>
      /\ UNCHANGED <<comment, started, message, github>>
      /\ discord' = [discord EXCEPT ![1] = latest]
  BY <1>2, <1>3 DEF PatchMessage, publication
<1>5. discord \in Seq(1 .. MaxReviews)
  BY DEF IInv, TypeOK
<1>6. discord' \in Seq(1 .. MaxReviews) /\ Len(discord') = 1 /\ discord' # <<>> /\ discord'[1] = latest
  <2>1. discord' = IF Len(discord) = 0 THEN Append(discord, latest)
                   ELSE [discord EXCEPT ![1] = latest]
    BY <1>3, <1>4
  <2>2. Len(discord) <= 1
    BY <1>3
  <2> DEFINE S == 1 .. MaxReviews
  <2>3. discord \in Seq(S) /\ latest \in S
    BY <1>2, <1>5
  <2> HIDE DEF S
  <2>4. discord' \in Seq(S) /\ Len(discord') = 1 /\ discord' # <<>> /\ discord'[1] = latest
    BY <2>1, <2>2, <2>3, Written
  <2>5. QED
    BY <2>4 DEF S
<1>7. ChannelsKept
  <2>1. message' \in 0 .. Len(discord')
    <3>1. message \in 0 .. 1
      BY <1>3 DEF IInv, TypeOK
    <3>2. QED
      BY <1>4, <1>6, <3>1
  <2>2. OneComment' /\ OneMessage' /\ NoForgottenMessage'
    <3>1. message # 0 \/ started
      BY <1>3, FirstAndOnly DEF NoForgottenMessage
    <3>2. OneComment'
      BY <1>4 DEF IInv, StickyInv, OneComment
    <3>3. OneMessage'
      BY <1>6 DEF OneMessage
    <3>4. NoForgottenMessage'
      BY <1>4, <3>1 DEF NoForgottenMessage
    <3>5. QED
      BY <3>2, <3>3, <3>4
  <2>3. QED
    BY <1>4, <1>6, <2>1, <2>2 DEF ChannelsKept, IInv, TypeOK
<1>8. {"saving_message", "failing"} \subseteq Steps \ {"checking", "down", "idle"}
  BY DEF Steps, TimedSteps
<1>9. CASE Leave(w, "failing")
  <2>1. HolderMoves(w, "failing", NoCopy)
    BY <1>4, <1>9 DEF HolderMoves, Leave, Goto
  <2>2. HolderKnows(w, "failing", NoCopy)
    BY DEF HolderKnows, GithubSteps, DiscordSteps
  <2>3. QED
    BY <1>1, <1>2, <1>7, <1>8, <2>1, <2>2, HolderStep
<1>10. CASE Goto(w, "saving_message") /\ UNCHANGED copy
  <2>1. HolderMoves(w, "saving_message", copy[w])
    BY <1>4, <1>10, Same DEF HolderMoves, Goto
  <2>2. HolderKnows(w, "saving_message", copy[w])
    BY <1>2, <1>3, <1>4, <1>6 DEF HolderKnows, GithubSteps, Shown
  <2>3. QED
    BY <1>1, <1>2, <1>7, <1>8, <2>1, <2>2, HolderStep
<1>11. QED
  BY <1>9, <1>10 DEF PatchMessage

(* The mark is committed before the request. *)
LEMMA StartCreateInv == ASSUME IInv, NEW w \in Runners, StartCreate(w) PROVE IInv'
<1> DEFINE c == [copy[w] EXCEPT !.started = TRUE]
<1>1. pc[w] = "starting" /\ pc[w] \in TimedSteps /\ pc[w] \in DiscordSteps
  BY DEF StartCreate, Save, TimedSteps, DiscordSteps
<1>2. c \in Copy /\ channelOf(work[w]) = "discord" /\ discord = <<>>
  <2>1. copy[w] \in Copy /\ channelOf(work[w]) = "discord"
    BY <1>1, HolderHas
  <2>2. discord = <<>>
    BY <1>1 DEF IInv, MessageInv
  <2>3. QED
    BY <2>1, <2>2 DEF Copy
<1>3. /\ UNCHANGED <<out, latest, assigned, lease, work, seen, adminVars, crashes>>
      /\ UNCHANGED <<comment, message, github, discord>> /\ started' = TRUE
      /\ pc' = [pc EXCEPT ![w] = "posting"]
  BY DEF StartCreate, Goto, channels
<1>4. copy' = [copy EXCEPT ![w] = c]
  BY DEF StartCreate, IInv, TypeOK
<1> HIDE DEF c
<1>5. ChannelsKept
  <2>1. OneComment' /\ OneMessage' /\ NoForgottenMessage'
    BY <1>3 DEF IInv, StickyInv, MessageInv, OneComment, OneMessage, NoForgottenMessage
  <2>2. QED
    BY <1>3, <2>1 DEF ChannelsKept, IInv, TypeOK
<1>6. HolderMoves(w, "posting", c)
  BY <1>3, <1>4 DEF HolderMoves
<1>7. HolderKnows(w, "posting", c)
  BY <1>2, <1>3 DEF HolderKnows, GithubSteps
<1>8. "posting" \in Steps \ {"checking", "down", "idle"}
  BY DEF Steps, TimedSteps
<1>9. QED
  BY <1>1, <1>2, <1>5, <1>6, <1>7, <1>8, HolderStep

(* The first message, under the mark. *)
LEMMA FirstMessage ==
    ASSUME IInv, NEW w \in Runners, pc[w] = "posting",
           discord' = Append(discord, reviewOf(work[w])),
           UNCHANGED <<comment, started, message, github>>
    PROVE  /\ ChannelsKept
           /\ Len(discord) = 0 /\ Len(discord') = 1 /\ discord' # <<>> /\ discord'[1] = latest
<1>1. latest \in 1 .. MaxReviews /\ reviewOf(work[w]) = latest
  BY HolderHas DEF TimedSteps
<1>2. discord = <<>> /\ started
  BY DEF IInv, MessageInv
<1>3. Len(discord) = 0 /\ discord \in Seq(1 .. MaxReviews)
  BY <1>2, FirstAndOnly DEF IInv, TypeOK
<1>4. discord' = Append(discord, latest) /\ Len(discord) <= 1
  BY <1>1, <1>3
<1>5. discord' \in Seq(1 .. MaxReviews) /\ Len(discord') = 1 /\ discord' # <<>> /\ discord'[1] = latest
  BY <1>1, <1>3, <1>4, Written
<1>6. message' \in 0 .. Len(discord')
  <2>1. message \in 0 .. 0
    BY <1>3 DEF IInv, TypeOK
  <2>2. \A x \in 0 .. 0 : x \in 0 .. 1
    OBVIOUS
  <2>3. QED
    BY <1>5, <2>1, <2>2
<1>7. OneComment' /\ OneMessage' /\ NoForgottenMessage'
  BY <1>2, <1>5 DEF IInv, StickyInv, OneComment, OneMessage, NoForgottenMessage
<1>8. ChannelsKept
  BY <1>5, <1>6, <1>7 DEF ChannelsKept, IInv, TypeOK
<1>9. QED
  BY <1>3, <1>5, <1>8

(* The message is created and answered: the runner knows it. *)
LEMMA PostMessageInv == ASSUME IInv, NEW w \in Runners, PostMessage(w) PROVE IInv'
<1> DEFINE c == [copy[w] EXCEPT !.message = Len(discord) + 1]
<1>1. pc[w] = "posting" /\ pc[w] \in TimedSteps /\ pc[w] \in DiscordSteps
  BY DEF PostMessage, TimedSteps, DiscordSteps
<1>2. copy[w] \in Copy /\ channelOf(work[w]) = "discord" /\ reviewOf(work[w]) = latest
  BY <1>1, HolderHas
<1>3. /\ UNCHANGED <<out, latest, assigned, lease, work, seen, adminVars, crashes>>
      /\ UNCHANGED <<comment, started, message, github>>
      /\ discord' = Append(discord, reviewOf(work[w]))
      /\ pc' = [pc EXCEPT ![w] = "saving_message"]
  BY DEF PostMessage, Goto, publication
<1>4. copy' = [copy EXCEPT ![w] = c]
  BY DEF PostMessage, IInv, TypeOK
<1>5. /\ ChannelsKept
      /\ Len(discord) = 0 /\ Len(discord') = 1 /\ discord' # <<>> /\ discord'[1] = latest
  BY <1>1, <1>3, FirstMessage
<1>6. c \in Copy /\ c.message = 1
  BY <1>2, <1>5 DEF Copy
<1> HIDE DEF c
<1>7. HolderMoves(w, "saving_message", c)
  BY <1>3, <1>4 DEF HolderMoves
<1>8. HolderKnows(w, "saving_message", c)
  BY <1>2, <1>3, <1>5, <1>6 DEF HolderKnows, GithubSteps, Shown
<1>9. "saving_message" \in Steps \ {"checking", "down", "idle"}
  BY DEF Steps, TimedSteps
<1>10. QED
  BY <1>1, <1>5, <1>6, <1>7, <1>8, <1>9, HolderStep

(* Without an answer the mark stays. *)
LEMMA PostLostInv == ASSUME IInv, NEW w \in Runners, PostLost(w) PROVE IInv'
<1>1. pc[w] = "posting" /\ pc[w] \in TimedSteps
  BY DEF PostLost, TimedSteps
<1>2. /\ UNCHANGED <<out, latest, assigned, lease, work, seen, adminVars, crashes>>
      /\ UNCHANGED <<comment, started, message, github>>
      /\ copy' = [copy EXCEPT ![w] = NoCopy]
  BY DEF PostLost, Leave, publication
<1>3. ChannelsKept
  <2>1. CASE UNCHANGED discord
    BY <1>2, <2>1, NothingWritten
  <2>2. CASE discord' = Append(discord, reviewOf(work[w]))
    BY <1>1, <1>2, <2>2, FirstMessage
  <2>3. QED
    BY <2>1, <2>2 DEF PostLost
<1>4. PICK s \in {"stopping", "failing"} : pc' = [pc EXCEPT ![w] = s]
  BY DEF PostLost, Leave, Goto
<1>5. NoCopy \in Copy
  BY <1>1, HolderHas
<1>6. HolderMoves(w, s, NoCopy)
  BY <1>2, <1>4 DEF HolderMoves
<1>7. HolderKnows(w, s, NoCopy)
  BY DEF HolderKnows, GithubSteps, DiscordSteps
<1>8. s \in Steps \ {"checking", "down", "idle"}
  BY DEF Steps
<1>9. QED
  BY <1>1, <1>3, <1>5, <1>6, <1>7, <1>8, HolderStep

(* A rejected request created nothing ... *)
LEMMA PostRejectedInv == ASSUME IInv, NEW w \in Runners, PostRejected(w) PROVE IInv'
<1>1. pc[w] = "posting" /\ pc[w] \in TimedSteps /\ pc[w] \in DiscordSteps
  BY DEF PostRejected, TimedSteps, DiscordSteps
<1>2. copy[w] \in Copy /\ channelOf(work[w]) = "discord" /\ discord = <<>>
  BY <1>1, HolderHas DEF IInv, MessageInv
<1>3. /\ UNCHANGED <<out, latest, assigned, lease, work, seen, adminVars, crashes>>
      /\ UNCHANGED <<comment, started, message, github, discord>>
      /\ pc' = [pc EXCEPT ![w] = "clearing"] /\ copy' = [copy EXCEPT ![w] = copy[w]]
  BY Same DEF PostRejected, Goto, publication, channels
<1>4. ChannelsKept
  BY <1>3, NothingWritten
<1>5. HolderMoves(w, "clearing", copy[w])
  BY <1>3 DEF HolderMoves
<1>6. HolderKnows(w, "clearing", copy[w])
  BY <1>2, <1>3 DEF HolderKnows, GithubSteps
<1>7. "clearing" \in Steps \ {"checking", "down", "idle"}
  BY DEF Steps, TimedSteps
<1>8. QED
  BY <1>1, <1>2, <1>4, <1>5, <1>6, <1>7, HolderStep

(* ... and the mark is taken back. *)
LEMMA ClearStartedInv == ASSUME IInv, NEW w \in Runners, ClearStarted(w) PROVE IInv'
<1>1. pc[w] = "clearing" /\ pc[w] \in TimedSteps
  BY DEF ClearStarted, Save, TimedSteps
<1>2. discord = <<>> /\ NoCopy \in Copy
  BY <1>1, HolderHas DEF IInv, MessageInv
<1>3. /\ UNCHANGED <<out, latest, assigned, lease, work, seen, adminVars, crashes>>
      /\ UNCHANGED <<comment, message, github, discord>> /\ started' = FALSE
      /\ pc' = [pc EXCEPT ![w] = "failing"] /\ copy' = [copy EXCEPT ![w] = NoCopy]
  BY DEF ClearStarted, Leave, Goto, channels
<1>4. ChannelsKept
  <2>1. OneComment' /\ OneMessage' /\ NoForgottenMessage'
    BY <1>2, <1>3 DEF IInv, StickyInv, MessageInv, OneComment, OneMessage, NoForgottenMessage
  <2>2. QED
    BY <1>3, <2>1 DEF ChannelsKept, IInv, TypeOK
<1>5. HolderMoves(w, "failing", NoCopy)
  BY <1>3 DEF HolderMoves
<1>6. HolderKnows(w, "failing", NoCopy)
  BY DEF HolderKnows, GithubSteps, DiscordSteps
<1>7. "failing" \in Steps \ {"checking", "down", "idle"}
  BY DEF Steps
<1>8. QED
  BY <1>1, <1>2, <1>4, <1>5, <1>6, <1>7, HolderStep

(* The message is put on record and the mark goes, in one transaction. *)
LEMMA SaveMessageInv == ASSUME IInv, NEW w \in Runners, SaveMessage(w) PROVE IInv'
<1>1. pc[w] = "saving_message" /\ pc[w] \in TimedSteps
  BY DEF SaveMessage, Save, TimedSteps
<1>2. /\ copy[w].message = 1 /\ Len(discord) = 1
      /\ NoCopy \in Copy /\ reviewOf(work[w]) = latest
  BY <1>1, HolderHas DEF IInv, MessageInv
<1>3. Shown(work[w])
  BY <1>1, <1>2 DEF IInv, ShownInv
<1>4. /\ UNCHANGED <<out, latest, assigned, lease, work, seen, adminVars, crashes>>
      /\ UNCHANGED <<comment, github, discord>> /\ started' = FALSE /\ message' = 1
      /\ pc' = [pc EXCEPT ![w] = "completing"] /\ copy' = [copy EXCEPT ![w] = NoCopy]
  BY <1>2 DEF SaveMessage, Leave, Goto, channels
<1>5. ChannelsKept
  <2>1. OneComment' /\ OneMessage' /\ NoForgottenMessage'
    BY <1>4 DEF IInv, StickyInv, MessageInv, OneComment, OneMessage, NoForgottenMessage
  <2>2. 1 \in 0 .. Len(discord)
    BY <1>2
  <2>3. QED
    BY <1>4, <2>1, <2>2 DEF ChannelsKept, IInv, TypeOK
<1>6. HolderMoves(w, "completing", NoCopy)
  BY <1>4 DEF HolderMoves
<1>7. HolderKnows(w, "completing", NoCopy)
  BY <1>3, <1>4 DEF HolderKnows, GithubSteps, DiscordSteps, Shown
<1>8. "completing" \in Steps \ {"checking", "down", "idle"}
  BY DEF Steps
<1>9. QED
  BY <1>1, <1>2, <1>5, <1>6, <1>7, <1>8, HolderStep

-----------------------------------------------------------------------------
(* The lease is taken, by a runner or for a recovery: nobody is in the     *)
(* block, because nobody holds the lease.                                  *)
LEMMA NobodyInside ==
    ASSUME IInv, lease \notin Runners
    PROVE  \A v \in Runners : pc[v] \notin TimedSteps
BY DEF IInv, HolderInv

(* The copy of the publication is that of the table. *)
LEMMA AcquirePublicationInv ==
    ASSUME IInv, NEW w \in Runners, AcquirePublication(w)
    PROVE  IInv'
<1> DEFINE c == [comment |-> comment, started |-> started,
                 message |-> message, assigned |-> assigned]
<1>1. /\ UNCHANGED <<out, latest, assigned, comment, started, message, work, seen>>
      /\ UNCHANGED <<github, discord, resend, recovery, requests, crashes>>
      /\ pc[w] = "acquiring" /\ reviewOf(work[w]) = latest /\ lease = NoOne /\ lease' = w
      /\ pc' = [pc EXCEPT ![w] = "checking"] /\ copy' = [copy EXCEPT ![w] = c]
  BY DEF AcquirePublication, Goto, Leased, channels, adminVars
<1>2. TypeOK
  BY DEF IInv
<1>3. /\ c.comment = comment /\ c.started = started /\ c.message = message
      /\ c \in Copy /\ comment <= Len(github)
  <2>1. /\ Len(github) \in Nat /\ Len(discord) \in Nat
        /\ comment \in 0 .. Len(github) /\ message \in 0 .. Len(discord)
        /\ started \in BOOLEAN /\ assigned \in 0 .. MaxAssigns
    BY <1>2 DEF TypeOK
  <2>2. \A n \in Nat : \A x \in 0 .. n : x \in Nat /\ x <= n
    OBVIOUS
  <2>3. comment \in Nat /\ message \in Nat /\ comment <= Len(github)
    BY <2>1, <2>2
  <2>4. QED
    BY <2>1, <2>3 DEF Copy
<1> HIDE DEF c
<1>4. /\ pc'[w] = "checking" /\ copy'[w] = c
      /\ \A v \in Runners \ {w} : pc'[v] = pc[v] /\ copy'[v] = copy[v]
  BY <1>1, <1>2 DEF TypeOK
<1>5. \A v \in Runners : pc[v] \notin TimedSteps
  BY <1>1, NobodyInside, PublicationAssumption
<1>6. TypeOK'
  <2>1. "checking" \in Steps
    BY DEF Steps, TimedSteps
  <2>2. pc' \in [Runners -> Steps] /\ copy' \in [Runners -> Copy]
    BY <1>1, <1>2, <1>3, <2>1 DEF TypeOK
  <2>3. QED
    BY <1>1, <1>2, <2>2 DEF TypeOK, OutTypeOK
<1>7. RowInv'
  BY <1>1, <1>4 DEF IInv, RowInv, Enqueued
<1>8. HolderInv'
  BY <1>1, <1>4, <1>5 DEF HolderInv, TimedSteps
<1>9. StickyInv'
  BY <1>1, <1>3, <1>4, <1>5 DEF IInv, StickyInv, OneComment, TimedSteps
<1>10. MessageInv'
  <2>1. lease' # Admin
    BY <1>1, PublicationAssumption
  <2>2. QED
    BY <1>1, <1>3, <1>4, <1>5, <2>1
    DEF IInv, MessageInv, OneMessage, NoForgottenMessage, TimedSteps
<1>11. ShownInv'
  BY <1>1, <1>4, <1>5 DEF IInv, ShownInv, CompletedMeansShown, Shown, TimedSteps
<1>12. QED
  BY <1>6, <1>7, <1>8, <1>9, <1>10, <1>11 DEF IInv

(* What an administrator names is what is there. *)
LEMMA RecoverStartInv == ASSUME IInv, RecoverStart PROVE IInv'
<1>1. /\ UNCHANGED <<out, latest, assigned, comment, started, message, pc, work, copy, seen>>
      /\ UNCHANGED <<github, discord, resend, crashes>>
      /\ lease = NoOne /\ lease' = Admin /\ recovery' = Len(discord)
      /\ requests' = requests + 1 /\ requests < MaxResends
  BY DEF RecoverStart, Leased, channels, runnerVars
<1>2. \A v \in Runners : pc[v] \notin TimedSteps
  BY <1>1, NobodyInside, PublicationAssumption
<1>3. TypeOK'
  <2>1. TypeOK
    BY DEF IInv
  <2>2. requests' \in 0 .. MaxResends
    BY <1>1, <2>1, PublicationAssumption DEF TypeOK
  <2>3. recovery' \in Nat
    BY <1>1, <2>1 DEF TypeOK
  <2>4. QED
    BY <1>1, <2>1, <2>2, <2>3 DEF TypeOK, OutTypeOK
<1>4. RowInv'
  <2>1. latest # 0
    BY DEF RecoverStart
  <2>2. QED
    BY <1>1, <2>1 DEF IInv, RowInv, Enqueued
<1>5. HolderInv'
  BY <1>1, <1>2 DEF IInv, HolderInv, TimedSteps
<1>6. StickyInv'
  BY <1>1 DEF IInv, StickyInv, OneComment
<1>7. MessageInv'
  BY <1>1 DEF IInv, MessageInv, OneMessage, NoForgottenMessage
<1>8. ShownInv'
  BY <1>1 DEF IInv, ShownInv, CompletedMeansShown, Shown
<1>9. QED
  BY <1>3, <1>4, <1>5, <1>6, <1>7, <1>8 DEF IInv

(* It is put on record and the delivery is resent; nobody is in the block. *)
LEMMA RecoverFinishInv == ASSUME IInv, RecoverFinish PROVE IInv'
<1> DEFINE d == <<latest, "discord", 0>>
<1>1. /\ UNCHANGED <<latest, assigned, comment, lease, pc, work, copy, seen>>
      /\ UNCHANGED <<github, discord, resend, requests, crashes>>
      /\ lease = Admin /\ recovery # NoOne /\ recovery' = NoOne /\ started' = FALSE
      /\ message' = IF recovery # 0 THEN recovery ELSE message
      /\ Resend(d, Loaded(d))
  BY DEF RecoverFinish, channels, runnerVars
<1>2. recovery = Len(discord) /\ TypeOK
  BY <1>1 DEF IInv, MessageInv
<1>3. \A v \in Runners : pc[v] \notin TimedSteps
  BY <1>1, NobodyInside, PublicationAssumption
<1>4. d \in Enqueued
  <2>1. latest # 0
    BY <1>1 DEF IInv, RowInv
  <2>2. QED
    BY <2>1 DEF IInv, RowInv, Channels
<1> HIDE DEF d
<1>5. /\ OutTypeOK' /\ Enqueued' = Enqueued
      /\ \A e \in Deliveries : out'[e].state = "completed" => out[e].state = "completed"
  BY <1>1, <1>2, <1>4, ResendSafe DEF TypeOK, OutSafe
<1>6. message' \in 0 .. Len(discord) /\ (discord # <<>> => message' # 0)
  <2>1. message \in 0 .. Len(discord)
    BY <1>2 DEF TypeOK
  <2>2. CASE discord = <<>>
    BY <1>1, <1>2, <2>1, <2>2, FirstAndOnly
  <2>3. CASE discord # <<>>
    BY <1>1, <1>2, <2>3, FirstAndOnly
  <2>4. QED
    BY <2>2, <2>3
<1>7. TypeOK'
  BY <1>1, <1>2, <1>5, <1>6 DEF TypeOK
<1>8. RowInv'
  BY <1>1, <1>5 DEF IInv, RowInv
<1>9. HolderInv'
  BY <1>1 DEF IInv, HolderInv
<1>10. StickyInv'
  BY <1>1 DEF IInv, StickyInv, OneComment
<1>11. MessageInv'
  BY <1>1, <1>3, <1>6 DEF IInv, MessageInv, OneMessage, NoForgottenMessage, TimedSteps
<1>12. ShownInv'
  BY <1>1, <1>5 DEF IInv, ShownInv, CompletedMeansShown, Shown
<1>13. QED
  BY <1>7, <1>8, <1>9, <1>10, <1>11, <1>12 DEF IInv

(* A new review is accepted while nobody is in the block; its rows are new. *)
LEMMA SubmitReviewInv ==
    ASSUME IInv, NEW r \in 1 .. MaxReviews, SubmitReview(r)
    PROVE  IInv'
<1> DEFINE S == {<<r, c, 0>> : c \in Channels}
<1>1. /\ UNCHANGED <<assigned, comment, started, message, lease, pc, work, copy, seen>>
      /\ UNCHANGED <<github, discord, resend, recovery, requests, crashes>>
      /\ lease = NoOne /\ r > latest /\ latest' = r /\ EnqueueDeliveries(S)
  BY DEF SubmitReview, Leased, channels, runnerVars, adminVars
<1>2. TypeOK /\ latest \in Nat /\ r \in Nat
  BY PublicationAssumption DEF IInv, TypeOK
<1>3. \A v \in Runners : pc[v] \notin TimedSteps
  BY <1>1, NobodyInside, PublicationAssumption
<1>4. /\ S \in SUBSET Deliveries /\ \A d \in S : reviewOf(d) = r
      /\ \A c \in Channels : <<r, c, 0>> \in S
  BY DeliveryNames
<1> HIDE DEF S
<1>5. /\ OutTypeOK' /\ Enqueued' = Enqueued \cup S
      /\ \A d \in Deliveries : out'[d].state = "completed" => out[d].state = "completed"
  BY <1>1, <1>2, <1>4, EnqueueSafe DEF TypeOK, OutSafe
<1>6. \A d \in Enqueued : d \in Deliveries /\ reviewOf(d) \in Nat /\ reviewOf(d) <= latest
  BY DeliveryNames, PublicationAssumption DEF IInv, RowInv, Enqueued
<1>7. \A d \in Enqueued : reviewOf(d) < r
  BY <1>1, <1>2, <1>6
<1>8. TypeOK'
  <2>1. r \in 0 .. MaxReviews
    BY PublicationAssumption
  <2>2. QED
    BY <1>1, <1>2, <1>5, <2>1 DEF TypeOK
<1>9. RowInv'
  <2>1. \A d \in Enqueued' : reviewOf(d) <= latest'
    BY <1>1, <1>2, <1>4, <1>5, <1>6, <1>7
  <2>2. \A c \in Channels : <<latest', c, 0>> \in Enqueued'
    BY <1>1, <1>4, <1>5
  <2>3. latest' # 0
    BY <1>1
  <2>4. QED
    BY <1>1, <1>5, <2>1, <2>2, <2>3 DEF IInv, RowInv
<1>10. HolderInv'
  BY <1>1, <1>3 DEF IInv, HolderInv, TimedSteps
<1>11. StickyInv'
  BY <1>1 DEF IInv, StickyInv, OneComment
<1>12. MessageInv'
  BY <1>1 DEF IInv, MessageInv, OneMessage, NoForgottenMessage
<1>13. ShownInv'
  <2>1. \A d \in Deliveries : out'[d].state = "completed" => reviewOf(d) # latest'
    <3> SUFFICES ASSUME NEW d \in Deliveries, out'[d].state = "completed"
                 PROVE  reviewOf(d) # latest'
      OBVIOUS
    <3>1. d \in Enqueued
      BY <1>5 DEF Enqueued
    <3>2. QED
      BY <1>1, <1>2, <1>6, <1>7, <3>1
  <2>2. \A v \in Runners : pc'[v] = "completing" => reviewOf(work'[v]) # latest'
    <3> SUFFICES ASSUME NEW v \in Runners, pc'[v] = "completing"
                 PROVE  reviewOf(work'[v]) # latest'
      OBVIOUS
    <3>1. work[v] \in Enqueued
      BY <1>1 DEF IInv, RowInv
    <3>2. QED
      BY <1>1, <1>2, <1>6, <1>7, <3>1
  <2>3. QED
    BY <1>1, <1>3, <2>1, <2>2 DEF ShownInv, CompletedMeansShown, TimedSteps
<1>14. QED
  BY <1>8, <1>9, <1>10, <1>11, <1>12, <1>13 DEF IInv

(* complete_delivery, out of the block; what it completes is on display,   *)
(* or superseded.                                                          *)
LEMMA CompleteInv == ASSUME IInv, NEW w \in Runners, Complete(w) PROVE IInv'
<1>1. /\ UNCHANGED <<latest, assigned, comment, started, message, lease, work, copy, seen>>
      /\ UNCHANGED <<github, discord, resend, recovery, requests, crashes>>
      /\ pc[w] = "completing" /\ pc' = [pc EXCEPT ![w] = "releasing"]
      /\ CompleteDelivery(work[w])
  BY DEF Complete, Goto, publication, channels, adminVars
<1>2. work[w] \in Deliveries /\ TypeOK
  BY <1>1, Working DEF IInv
<1>3. /\ OutTypeOK' /\ Enqueued' = Enqueued
      /\ \A e \in Deliveries \ {work[w]} : out'[e].state = out[e].state
  BY <1>1, <1>2, CompleteEffect DEF TypeOK
<1>4. pc'[w] = "releasing" /\ \A v \in Runners \ {w} : pc'[v] = pc[v]
  BY <1>1, <1>2 DEF TypeOK
<1>5. TypeOK'
  <2>1. "releasing" \in Steps
    BY DEF Steps
  <2>2. pc' \in [Runners -> Steps]
    BY <1>1, <1>2, <2>1 DEF TypeOK
  <2>3. QED
    BY <1>1, <1>2, <1>3, <2>2 DEF TypeOK
<1>6. RowInv'
  BY <1>1, <1>3, <1>4 DEF IInv, RowInv
<1>7. HolderInv'
  BY <1>1, <1>4 DEF IInv, HolderInv, TimedSteps
<1>8. StickyInv'
  BY <1>1, <1>4 DEF IInv, StickyInv, OneComment
<1>9. MessageInv'
  BY <1>1, <1>4 DEF IInv, MessageInv, OneMessage, NoForgottenMessage
<1>10. ShownInv'
  <2>1. \A d : Shown(d) => Shown(d)'
    BY <1>1 DEF Shown
  <2>2. reviewOf(work[w]) = latest => Shown(work[w])
    BY <1>1 DEF IInv, ShownInv
  <2>3. CompletedMeansShown'
    BY <1>1, <1>3, <2>1, <2>2 DEF IInv, ShownInv, CompletedMeansShown
  <2>4. \A v \in Runners :
           pc'[v] \in {"saving_comment", "decorating", "saving_message", "completing"}
           /\ reviewOf(work'[v]) = latest' => Shown(work[v])'
    BY <1>1, <1>4 DEF IInv, ShownInv, Shown
  <2>5. QED
    BY <2>3, <2>4 DEF ShownInv
<1>11. QED
  BY <1>5, <1>6, <1>7, <1>8, <1>9, <1>10 DEF IInv

-----------------------------------------------------------------------------
(* The invariant holds initially and every step preserves it.              *)
LEMMA InitInv == ASSUME Init PROVE IInv
<1>1. OutTypeOK /\ Enqueued = {}
  BY DEF Init, OutInit, OutTypeOK, NoRow, DeliveryRow, DeliveryStates, Enqueued
<1>2. TypeOK
  <2>1. NoCopy \in Copy /\ NothingLoaded \in LoadedRow
    BY PublicationAssumption DEF NoCopy, Copy, NothingLoaded, LoadedRow, DeliveryStates
  <2>2. /\ <<>> \in Seq([review : 1 .. MaxReviews, reviewer : 0 .. MaxAssigns])
        /\ <<>> \in Seq(1 .. MaxReviews) /\ Len(<<>>) = 0
    OBVIOUS
  <2>3. 0 \in 0 .. MaxReviews /\ 0 \in 0 .. MaxAssigns /\ 0 \in 0 .. MaxResends /\ 0 \in 0 .. MaxCrashes
    BY PublicationAssumption
  <2>4. comment \in 0 .. Len(github) /\ message \in 0 .. Len(discord)
    <3>1. Len(<<>>) = 0 /\ 0 \in 0 .. 0
      OBVIOUS
    <3>2. QED
      BY <3>1 DEF Init
  <2>5. /\ pc \in [Runners -> Steps]
        /\ work \in [Runners -> Deliveries \cup {NoOne}]
        /\ copy \in [Runners -> Copy] /\ seen \in [Runners -> LoadedRow]
    BY <2>1 DEF Init, Steps
  <2>6. QED
    BY <1>1, <2>2, <2>3, <2>4, <2>5 DEF Init, TypeOK
<1>3. RowInv
  BY <1>1 DEF Init, RowInv
<1>4. HolderInv
  BY DEF Init, HolderInv, TimedSteps
<1>5. StickyInv
  BY DEF Init, StickyInv, OneComment
<1>6. MessageInv
  BY DEF Init, MessageInv, OneMessage, NoForgottenMessage
<1>7. ShownInv
  BY DEF Init, OutInit, NoRow, ShownInv, CompletedMeansShown
<1>8. QED
  BY <1>2, <1>3, <1>4, <1>5, <1>6, <1>7 DEF IInv

(* A step of one runner. *)
LEMMA RunnerInv ==
    ASSUME IInv, NEW w \in Runners, Handle(w) \/ Crash(w) \/ Restart(w)
    PROVE  IInv'
<1>1. CASE Publish(w)
  BY <1>1, FindStickyInv, PublishGithubInv, SaveCommentInv, DecorateInv, GuardDiscordInv,
     PatchMessageInv, StartCreateInv, PostMessageInv, PostLostInv, PostRejectedInv,
     ClearStartedInv, SaveMessageInv
  DEF Publish
<1>2. CASE Handle(w) /\ ~Publish(w)
  BY <1>2, ClaimDeliveryInv, SupersededInv, PublicationBusyInv, AcquirePublicationInv,
     RefusedInv, CompleteInv, StepFailsInv, LoadRowInv, ReturnDeliveryInv, FailDeliveryInv,
     ReleaseInv
  DEF Handle
<1>3. CASE Crash(w) \/ Restart(w)
  BY <1>3, CrashInv, RestartInv
<1>4. QED
  BY <1>1, <1>2, <1>3

(* A step of the system. *)
LEMMA NextInv == ASSUME IInv, [Next]_vars PROVE IInv'
<1>1. CASE \E r \in 1 .. MaxReviews : SubmitReview(r)
  BY <1>1, SubmitReviewInv
<1>2. CASE AssignReviewer
  BY <1>2, AssignReviewerInv
<1>3. CASE \E w \in Runners, d \in Deliveries : SelectDelivery(w, d)
  BY <1>3, SelectDeliveryInv
<1>4. CASE \E w \in Runners : Handle(w) \/ Crash(w) \/ Restart(w)
  BY <1>4, RunnerInv
<1>5. CASE \E d \in Deliveries : ResendRead(d) \/ Tick(d)
  BY <1>5, ResendReadInv, TickInv
<1>6. CASE ResendWrite
  BY <1>6, ResendWriteInv
<1>7. CASE RecoverStart \/ RecoverFinish
  BY <1>7, RecoverStartInv, RecoverFinishInv
<1>8. CASE RecoverFails \/ RecoverRelease \/ LeaseLapses
  BY <1>8, LeaseEndsInv
<1>9. CASE UNCHANGED vars
  <2>1. /\ UNCHANGED <<out, latest, assigned, comment, started, message, lease>>
        /\ UNCHANGED <<channels, runnerVars, resend, recovery, requests, crashes>>
    BY <1>9 DEF vars, publication, adminVars
  <2>2. TypeOK'
    BY <2>1 DEF IInv, TypeOK, OutTypeOK, channels, runnerVars
  <2>3. resend' # <<>> => resend'[1] \in Enqueued
    BY <2>1 DEF IInv, RowInv
  <2>4. UNCHANGED <<latest, comment, started, message, channels, runnerVars>>
        /\ lease' = lease /\ recovery' = recovery
    BY <2>1
  <2>5. OutSafe({})
    BY <2>1, Untouched
  <2>6. QED
    BY <2>2, <2>3, <2>4, <2>5, QuietElsewhere
<1>10. QED
  BY <1>1, <1>2, <1>3, <1>4, <1>5, <1>6, <1>7, <1>8, <1>9 DEF Next

(* The inductive invariant of AIReviewPublication: every reachable state   *)
(* satisfies it.                                                           *)
THEOREM Invariance == Spec => []IInv
<1>1. Init => IInv
  BY InitInv
<1>2. IInv /\ [Next]_vars => IInv'
  BY NextInv
<1>3. QED
  BY <1>1, <1>2, PTL DEF Spec

(* Every variable of the publication keeps its type. *)
THEOREM TypeCorrect == Spec => []TypeOK
<1>1. IInv => TypeOK
  BY DEF IInv
<1>2. QED
  BY <1>1, Invariance, PTL

(* Whatever fails, is retried, resent, superseded or crashes, the proposal *)
(* gets one sticky comment on GitHub.                                      *)
THEOREM CommentedOnce == Spec => []OneComment
<1>1. IInv => OneComment
  BY DEF IInv, StickyInv
<1>2. QED
  BY <1>1, Invariance, PTL

(* And one message in Discord.                                             *)
THEOREM PostedOnce == Spec => []OneMessage
<1>1. IInv => OneMessage
  BY DEF IInv, MessageInv
<1>2. QED
  BY <1>1, Invariance, PTL

(* A Discord message is on record or under the mark discord_create_started. *)
THEOREM NoneForgotten == Spec => []NoForgottenMessage
<1>1. IInv => NoForgottenMessage
  BY DEF IInv, MessageInv
<1>2. QED
  BY <1>1, Invariance, PTL

(* A delivery of the latest review that is completed is on display.        *)
THEOREM CompletedIsShown == Spec => []CompletedMeansShown
<1>1. IInv => CompletedMeansShown
  BY DEF IInv, ShownInv
<1>2. QED
  BY <1>1, Invariance, PTL

(* Of the actions, only the requests of the holder of the lease change a   *)
(* channel, and what they write is the latest review.                      *)
LatestWritten ==
    /\ github' # github => \E i \in DOMAIN github' : github'[i].review = latest'
    /\ discord' # discord => \E i \in DOMAIN discord' : discord'[i] = latest'

(* A request of the holder writes the latest review. *)
LEMMA RequestWritesLatest ==
    ASSUME IInv, NEW w \in Runners,
           PublishGithub(w) \/ PatchMessage(w) \/ PostMessage(w) \/ PostLost(w)
    PROVE  LatestWritten
<1>1. reviewOf(work[w]) = latest /\ latest' = latest
  <2>1. pc[w] \in TimedSteps
    BY DEF PublishGithub, PatchMessage, PostMessage, PostLost, TimedSteps
  <2>2. reviewOf(work[w]) = latest
    BY <2>1, Alone
  <2>3. latest' = latest
    BY DEF PublishGithub, PatchMessage, PostMessage, PostLost, publication
  <2>4. QED
    BY <2>2, <2>3
<1>2. /\ github \in Seq([review : 1 .. MaxReviews, reviewer : 0 .. MaxAssigns])
      /\ discord \in Seq(1 .. MaxReviews)
  BY DEF IInv, TypeOK
<1>3. CASE PublishGithub(w)
  <2> DEFINE n == copy[w].comment
             content == [review |-> reviewOf(work[w]), reviewer |-> copy[w].assigned]
  <2>1. /\ discord' = discord
        /\ github' = IF n = 0 THEN Append(github, content) ELSE [github EXCEPT ![n] = content]
    BY <1>3 DEF PublishGithub
  <2>2. n = Len(github) /\ content.review = latest
    BY <1>1, <1>3 DEF PublishGithub, IInv, StickyInv
  <2> HIDE DEF n, content
  <2>3. \E i \in DOMAIN github' : github'[i] = content
    <3>1. Len(github) = 0 \/ Len(github) = 1
      BY FirstAndOnly
    <3>2. CASE n = 0
      BY <1>2, <2>1, <2>2, <3>2
    <3>3. CASE n # 0
      <4>1. n = 1 /\ 1 \in DOMAIN github
        BY <1>2, <2>2, <3>1, <3>3
      <4>2. QED
        BY <1>2, <2>1, <3>3, <4>1
    <3>4. QED
      BY <3>2, <3>3
  <2>4. QED
    BY <1>1, <2>1, <2>2, <2>3 DEF LatestWritten
<1>4. CASE PatchMessage(w)
  <2>1. copy[w].message = 1 /\ Len(discord) = 1
    BY <1>4 DEF PatchMessage, IInv, MessageInv
  <2>2. github' = github /\ discord' = [discord EXCEPT ![1] = latest]
    BY <1>1, <1>4, <2>1 DEF PatchMessage
  <2>3. 1 \in DOMAIN discord
    BY <1>2, <2>1
  <2>4. 1 \in DOMAIN discord' /\ discord'[1] = latest
    BY <1>2, <2>2, <2>3
  <2>5. QED
    BY <1>1, <2>2, <2>4 DEF LatestWritten
<1>5. CASE PostMessage(w) \/ PostLost(w)
  <2>1. github' = github /\ (discord' = discord \/ discord' = Append(discord, latest))
    BY <1>1, <1>5 DEF PostMessage, PostLost
  <2>2. ASSUME discord' = Append(discord, latest)
        PROVE  1 \in DOMAIN discord' /\ discord'[1] = latest
    <3>1. discord = <<>>
      BY <1>5 DEF PostMessage, PostLost, IInv, MessageInv
    <3>2. QED
      BY <2>2, <3>1
  <2>3. QED
    BY <1>1, <2>1, <2>2 DEF LatestWritten
<1>6. QED
  BY <1>3, <1>4, <1>5

(* No action but a request touches a channel. *)
LEMMA StepWritesLatest == ASSUME IInv, [Next]_vars PROVE [LatestWritten]_vars
<1>1. ASSUME UNCHANGED channels PROVE LatestWritten
  BY <1>1 DEF channels, LatestWritten
<1>2. CASE \E w \in Runners : Handle(w)
  <2> SUFFICES ASSUME NEW w \in Runners, Handle(w) PROVE LatestWritten
    BY <1>2
  <2>1. CASE PublishGithub(w) \/ PatchMessage(w) \/ PostMessage(w) \/ PostLost(w)
    BY <2>1, RequestWritesLatest
  <2>2. CASE ~(PublishGithub(w) \/ PatchMessage(w) \/ PostMessage(w) \/ PostLost(w))
    <3>1. UNCHANGED channels
      BY <2>2 DEF Handle, Publish, ClaimDelivery, Superseded, PublicationBusy,
         AcquirePublication, Refused, Complete, StepFails, LoadRow, ReturnDelivery,
         FailDelivery, Release, FindSticky, SaveComment, Decorate, GuardDiscord,
         StartCreate, PostRejected, ClearStarted, SaveMessage
    <3>2. QED
      BY <1>1, <3>1
  <2>3. QED
    BY <2>1, <2>2
<1>3. CASE Next /\ ~(\E w \in Runners : Handle(w))
  <2>1. UNCHANGED channels
    BY <1>3 DEF Next, SubmitReview, AssignReviewer, SelectDelivery, Crash, Restart,
       ResendRead, Tick, ResendWrite, RecoverStart, RecoverFinish, RecoverFails,
       RecoverRelease, LeaseLapses
  <2>2. QED
    BY <1>1, <2>1
<1>4. QED
  BY <1>2, <1>3

(* A write to a channel shows the latest review accepted so far: an older  *)
(* one never replaces a newer one.                                         *)
THEOREM OlderNeverWritten == Spec => OnlyLatestIsWritten
<1>1. IInv /\ [Next]_vars => [LatestWritten]_vars
  BY StepWritesLatest
<1>2. Spec => [][LatestWritten]_vars
  BY <1>1, Invariance, PTL DEF Spec
<1>3. QED
  BY <1>2 DEF OnlyLatestIsWritten, LatestWritten
=============================================================================
