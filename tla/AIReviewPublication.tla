------------------------ MODULE AIReviewPublication ------------------------
(***************************************************************************)
(* The publication of AI reviews of one proposal (community/ai_reviews.py) *)
(* through the outbound deliveries: the reviews submitted for it, the      *)
(* runners that publish them to GitHub and Discord under the lease of the  *)
(* publication, the assignment of a human reviewer, which the GitHub       *)
(* comment shows, and the administrators who resend and recover.           *)
(*                                                                         *)
(* Transactions that begin with BEGIN IMMEDIATE and single UPDATEs are one *)
(* action.  A request to GitHub or Discord is one action, of which the     *)
(* response may be lost; a request takes effect, if ever, before its       *)
(* sender gives up on it.                                                  *)
(***************************************************************************)
EXTENDS OutboundDelivery, Sequences

CONSTANTS
    Runners,      \* job runner processes
    NoOne,        \* no lease, no delivery, no request
    Gone,         \* lease holder: a runner process that died
    Admin,        \* lease holder: recover_discord
    MaxReviews,   \* reviews are numbered by (run_id, run_attempt)
    MaxAssigns,   \* bound on reviewer assignments
    MaxResends,   \* bound on resend and recovery requests
    MaxCrashes    \* bound on runner crashes

Channels == {"github", "discord"}

ASSUME PublicationAssumption ==
    /\ {NoOne, Gone, Admin} \cap Runners = {}
    /\ NoOne # Gone /\ NoOne # Admin /\ Gone # Admin
    /\ {MaxReviews, MaxAssigns, MaxResends, MaxCrashes} \subseteq Nat
    \* <<review, channel, 0>> comes with a review, <<review, "github", k>>
    \* with the k-th assignment.
    /\ Deliveries = ((1 .. MaxReviews) \X Channels \X {0})
                    \cup ((1 .. MaxReviews) \X {"github"} \X (1 .. MaxAssigns))
    /\ NoOne \notin Deliveries

VARIABLES
    latest,     \* latest_review_id, 0 before the first review
    assigned,   \* assigned_reviewer: the k-th assigned, 0 for nobody
    comment,    \* github_comment_id, as a position in github, or 0
    started,    \* discord_create_started
    message,    \* discord_message_id, as a position in discord, or 0
    lease,      \* holder of lease_token while lease_until > now
    github,     \* the bot's comments on the Discussion: what each shows
    discord,    \* the messages of the webhook: the review each shows
    pc,         \* where each runner is in process_delivery_one
    work,       \* its delivery
    copy,       \* its publication object, as acquired
    seen,       \* the delivery row it loaded
    resend,     \* the unlocked resend request in progress: delivery, row
    recovery,   \* the recovery in progress: the message named (0: none), or NoOne
    requests,   \* resend and recovery requests so far
    crashes     \* runner crashes so far

publication == <<latest, assigned, comment, started, message, lease>>
channels == <<github, discord>>
runnerVars == <<pc, work, copy, seen>>
adminVars == <<resend, recovery, requests>>
vars == <<out, publication, channels, runnerVars, adminVars, crashes>>

-----------------------------------------------------------------------------
(* Inside asyncio.timeout(60) of publish_ai_delivery. *)
TimedSteps == {"checking", "writing", "saving_comment", "decorating", "patching",
               "starting", "posting", "clearing", "saving_message"}
Steps == {"down", "idle", "selected", "acquiring", "completing", "busy",
          "returning", "failing", "stopping", "fail_write", "stop_write",
          "releasing"} \cup TimedSteps

Copy == [comment : Nat, started : BOOLEAN, message : Nat, assigned : 0 .. MaxAssigns]
NoCopy == [comment |-> 0, started |-> FALSE, message |-> 0, assigned |-> 0]

TypeOK ==
    /\ OutTypeOK
    /\ latest \in 0 .. MaxReviews /\ assigned \in 0 .. MaxAssigns
    /\ comment \in 0 .. Len(github) /\ message \in 0 .. Len(discord)
    /\ started \in BOOLEAN
    /\ lease \in Runners \cup {NoOne, Gone, Admin}
    /\ github \in Seq([review : 1 .. MaxReviews, reviewer : 0 .. MaxAssigns])
    /\ discord \in Seq(1 .. MaxReviews)
    /\ pc \in [Runners -> Steps]
    /\ work \in [Runners -> Deliveries \cup {NoOne}]
    /\ copy \in [Runners -> Copy]
    /\ seen \in [Runners -> LoadedRow]
    /\ resend \in {<<>>} \cup (Deliveries \X LoadedRow)
    /\ recovery \in Nat \cup {NoOne}
    /\ requests \in 0 .. MaxResends /\ crashes \in 0 .. MaxCrashes

Init ==
    /\ OutInit
    /\ latest = 0 /\ assigned = 0 /\ comment = 0 /\ started = FALSE /\ message = 0
    /\ lease = NoOne
    /\ github = <<>> /\ discord = <<>>
    /\ pc = [w \in Runners |-> "idle"]
    /\ work = [w \in Runners |-> NoOne]
    /\ copy = [w \in Runners |-> NoCopy]
    /\ seen = [w \in Runners |-> NothingLoaded]
    /\ resend = <<>> /\ recovery = NoOne /\ requests = 0
    /\ crashes = 0

Leased == lease # NoOne
reviewOf(d) == d[1]
channelOf(d) == d[2]

-----------------------------------------------------------------------------
(* The API: reviews and assignments.                                       *)

(* Slip: the review is accepted while another one is being published. *)
SubmitReviewAnytime(r) ==
    /\ r > latest
    /\ latest' = r
    /\ EnqueueDeliveries({<<r, c, 0>> : c \in Channels})
    /\ UNCHANGED <<assigned, comment, started, message, lease, channels,
                   runnerVars, adminVars, crashes>>

(* submit_ai_review, second transaction; refused while a publication runs  *)
(* and for any review but a newer one.                                     *)
SubmitReview(r) ==
    /\ ~Leased
    /\ r > latest
    /\ latest' = r
    /\ EnqueueDeliveries({<<r, c, 0>> : c \in Channels})
    /\ UNCHANGED <<assigned, comment, started, message, lease, channels,
                   runnerVars, adminVars, crashes>>

(* assign_proposal_reviewer with sync_ai_reviewer_comment: publication and *)
(* proposal name the same reviewer, the update is queued only if the       *)
(* comment is on record.                                                   *)
AssignReviewer ==
    /\ assigned < MaxAssigns
    /\ assigned' = assigned + 1
    /\ IF latest # 0 /\ comment # 0
       THEN EnqueueDeliveries({<<latest, "github", assigned + 1>>})
       ELSE UNCHANGED out
    /\ UNCHANGED <<latest, comment, started, message, lease, channels,
                   runnerVars, adminVars, crashes>>

-----------------------------------------------------------------------------
(* A runner: claim_delivery.                                               *)
Goto(w, step) == pc' = [pc EXCEPT ![w] = step]

Finish(w) ==
    /\ Goto(w, "idle")
    /\ work' = [work EXCEPT ![w] = NoOne]
    /\ copy' = [copy EXCEPT ![w] = NoCopy]
    /\ seen' = [seen EXCEPT ![w] = NothingLoaded]

(* The timed block ends: the publication object is not read any more. *)
Leave(w, step) ==
    /\ Goto(w, step)
    /\ copy' = [copy EXCEPT ![w] = NoCopy]

SelectDelivery(w, d) ==
    /\ pc[w] = "idle"
    /\ Oldest(d)
    /\ work' = [work EXCEPT ![w] = d]
    /\ Goto(w, "selected")
    /\ UNCHANGED <<out, publication, channels, copy, seen, adminVars, crashes>>

ClaimDelivery(w) ==
    /\ pc[w] = "selected"
    /\ \/ TakeDelivery(work[w]) /\ Goto(w, "acquiring") /\ UNCHANGED <<work, copy, seen>>
       \/ ~Claimable(work[w]) /\ Finish(w) /\ UNCHANGED out
    /\ UNCHANGED <<publication, channels, adminVars, crashes>>

(* acquire_publication: a superseded review is completed without a lease,  *)
(* a leased publication is busy, a deleted proposal refuses.               *)
Superseded(w) ==
    /\ pc[w] = "acquiring"
    /\ reviewOf(work[w]) # latest
    /\ CompleteDelivery(work[w])
    /\ Finish(w)
    /\ UNCHANGED <<publication, channels, adminVars, crashes>>

PublicationBusy(w) ==
    /\ pc[w] = "acquiring"
    /\ reviewOf(work[w]) = latest /\ Leased
    /\ Goto(w, "busy")
    /\ UNCHANGED <<out, publication, channels, work, copy, seen, adminVars, crashes>>

AcquirePublication(w) ==
    /\ pc[w] = "acquiring"
    /\ reviewOf(work[w]) = latest /\ ~Leased
    /\ lease' = w
    /\ copy' = [copy EXCEPT ![w] = [comment |-> comment, started |-> started,
                                    message |-> message, assigned |-> assigned]]
    /\ Goto(w, "checking")
    /\ UNCHANGED <<out, latest, assigned, comment, started, message, channels,
                   work, seen, adminVars, crashes>>

-----------------------------------------------------------------------------
(* Publishing, with the lease.  Save(w) is the guard of save_publication.  *)
Save(w, step) == pc[w] = step /\ lease = w

(* The content of the Discussion was changed, the proposal deleted, the    *)
(* configuration changed: an error that is terminal.                       *)
Refused(w) ==
    /\ pc[w] \in {"acquiring", "checking"}
    /\ Leave(w, "stopping")
    /\ UNCHANGED <<out, publication, channels, work, seen, adminVars, crashes>>

(* Slip: a comment whose creation was not answered is not looked for. *)
FindStickyOnRecord(w) ==
    /\ pc[w] = "checking" /\ channelOf(work[w]) = "github"
    /\ Goto(w, "writing")
    /\ UNCHANGED <<out, publication, channels, work, copy, seen, adminVars, crashes>>

(* validate_discussion, then find_sticky if the comment is not on record. *)
FindSticky(w) ==
    /\ pc[w] = "checking" /\ channelOf(work[w]) = "github"
    /\ copy' = [copy EXCEPT ![w].comment =
                   IF @ = 0 /\ github # <<>> THEN 1 ELSE @]
    /\ Goto(w, "writing")
    /\ UNCHANGED <<out, publication, channels, work, seen, adminVars, crashes>>

(* Create or update the comment; the response arrives or is lost. *)
PublishGithub(w) ==
    LET c == copy[w].comment
        content == [review |-> reviewOf(work[w]), reviewer |-> copy[w].assigned]
    IN
    /\ pc[w] = "writing"
    /\ github' = IF c = 0 THEN Append(github, content) ELSE [github EXCEPT ![c] = content]
    /\ \/ /\ copy' = [copy EXCEPT ![w].comment = IF c = 0 THEN Len(github) + 1 ELSE c]
          /\ Goto(w, "saving_comment")
       \/ Leave(w, "failing")
    /\ UNCHANGED <<out, publication, discord, work, seen, adminVars, crashes>>

SaveComment(w) ==
    /\ Save(w, "saving_comment")
    /\ comment' = copy[w].comment
    /\ Goto(w, "decorating")
    /\ UNCHANGED <<out, latest, assigned, started, message, lease, channels,
                   work, copy, seen, adminVars, crashes>>

(* The reaction and the labels. *)
Decorate(w) ==
    /\ pc[w] = "decorating"
    /\ Leave(w, "completing")
    /\ UNCHANGED <<out, publication, channels, work, seen, adminVars, crashes>>

(* Slip: only a recorded message prevents a first send. *)
GuardRecordedOnly(w) ==
    /\ pc[w] = "checking" /\ channelOf(work[w]) = "discord"
    /\ Goto(w, IF copy[w].message # 0 THEN "patching" ELSE "starting")
    /\ UNCHANGED <<out, publication, channels, work, copy, seen, adminVars, crashes>>

(* A first send that may have happened is not repeated. *)
GuardDiscord(w) ==
    /\ pc[w] = "checking" /\ channelOf(work[w]) = "discord"
    /\ CASE copy[w].message # 0 -> Goto(w, "patching") /\ UNCHANGED copy
         [] copy[w].message = 0 /\ copy[w].started -> Leave(w, "stopping")
         [] OTHER -> Goto(w, "starting") /\ UNCHANGED copy
    /\ UNCHANGED <<out, publication, channels, work, seen, adminVars, crashes>>

PatchMessage(w) ==
    /\ pc[w] = "patching"
    /\ discord' = [discord EXCEPT ![copy[w].message] = reviewOf(work[w])]
    /\ \/ Goto(w, "saving_message") /\ UNCHANGED copy
       \/ Leave(w, "failing")
    /\ UNCHANGED <<out, publication, github, work, seen, adminVars, crashes>>

(* Slip: POST before the commit. *)
StartUncommitted(w) ==
    /\ Save(w, "starting")
    /\ Goto(w, "posting")
    /\ UNCHANGED <<out, publication, channels, work, copy, seen, adminVars, crashes>>

(* Commit before POST. *)
StartCreate(w) ==
    /\ Save(w, "starting")
    /\ started' = TRUE
    /\ copy' = [copy EXCEPT ![w].started = TRUE]
    /\ Goto(w, "posting")
    /\ UNCHANGED <<out, latest, assigned, comment, message, lease, channels,
                   work, seen, adminVars, crashes>>

PostMessage(w) ==
    /\ pc[w] = "posting"
    /\ discord' = Append(discord, reviewOf(work[w]))
    /\ copy' = [copy EXCEPT ![w].message = Len(discord) + 1]
    /\ Goto(w, "saving_message")
    /\ UNCHANGED <<out, publication, github, work, seen, adminVars, crashes>>

(* No response: the message was created or not, the error is terminal, or  *)
(* not if it is the 60 s that ran out.                                     *)
PostLost(w) ==
    /\ pc[w] = "posting"
    /\ \/ discord' = Append(discord, reviewOf(work[w]))
       \/ UNCHANGED discord
    /\ Leave(w, "stopping") \/ Leave(w, "failing")
    /\ UNCHANGED <<out, publication, github, work, seen, adminVars, crashes>>

(* A 4xx: nothing was created, the mark is taken back. *)
PostRejected(w) ==
    /\ pc[w] = "posting"
    /\ Goto(w, "clearing")
    /\ UNCHANGED <<out, publication, channels, work, copy, seen, adminVars, crashes>>

ClearStarted(w) ==
    /\ Save(w, "clearing")
    /\ started' = FALSE
    /\ Leave(w, "failing")
    /\ UNCHANGED <<out, latest, assigned, comment, message, lease, channels,
                   work, seen, adminVars, crashes>>

SaveMessage(w) ==
    /\ Save(w, "saving_message")
    /\ message' = copy[w].message
    /\ started' = FALSE
    /\ Leave(w, "completing")
    /\ UNCHANGED <<out, latest, assigned, comment, lease, channels,
                   work, seen, adminVars, crashes>>

Complete(w) ==
    /\ pc[w] = "completing"
    /\ CompleteDelivery(work[w])
    /\ Goto(w, "releasing")
    /\ UNCHANGED <<publication, channels, work, copy, seen, adminVars, crashes>>

-----------------------------------------------------------------------------
(* Slip: an error after which the delivery is completed all the same. *)
StepFailureIgnored(w) ==
    /\ pc[w] \in (TimedSteps \ {"posting"}) \cup {"acquiring", "completing"}
    /\ Leave(w, "completing")
    /\ UNCHANGED <<out, publication, channels, work, seen, adminVars, crashes>>

(* Any other error: a request that fails or times out without effect, the  *)
(* 60 s, a lost lease, the database.                                       *)
StepFails(w) ==
    /\ pc[w] \in (TimedSteps \ {"posting"}) \cup {"acquiring", "completing"}
    /\ Leave(w, "failing")
    /\ UNCHANGED <<out, publication, channels, work, seen, adminVars, crashes>>

(* The except blocks load the row without a lock ...                       *)
LoadRow(w) ==
    /\ pc[w] \in {"busy", "failing", "stopping"}
    /\ seen' = [seen EXCEPT ![w] = Loaded(work[w])]
    /\ Goto(w, CASE pc[w] = "busy"    -> "returning"
                 [] pc[w] = "failing" -> "fail_write"
                 [] OTHER             -> "stop_write")
    /\ UNCHANGED <<out, publication, channels, work, copy, adminVars, crashes>>

(* ... and write it: a busy publication gives the attempt back, whatever   *)
(* became of the row;                                                      *)
ReturnDelivery(w) ==
    /\ pc[w] = "returning"
    /\ out' = [out EXCEPT ![work[w]] =
                 [out[work[w]] EXCEPT
                    !.state    = IF seen[w].state = "pending" THEN @ ELSE "pending",
                    !.attempts = IF seen[w].attempts = 0 THEN @ ELSE seen[w].attempts - 1,
                    !.ready = FALSE, !.stale = FALSE]]
    /\ Finish(w)
    /\ UNCHANGED <<publication, channels, adminVars, crashes>>

(* an error fails the attempt through fail_delivery, and a terminal one    *)
(* uses up all attempts.                                                   *)
FailDelivery(w) ==
    LET stop == pc[w] = "stop_write"
        row  == Failed(out[work[w]], stop \/ seen[w].attempts >= MaxTries)
    IN
    /\ pc[w] \in {"fail_write", "stop_write"}
    /\ out' = [out EXCEPT ![work[w]] =
                 IF stop /\ seen[w].attempts # MaxTries
                 THEN [row EXCEPT !.attempts = MaxTries, !.stale = FALSE]
                 ELSE row]
    /\ Goto(w, "releasing")
    /\ UNCHANGED <<publication, channels, work, copy, seen, adminVars, crashes>>

(* The finally block. *)
Release(w) ==
    /\ pc[w] = "releasing"
    /\ lease' = IF lease = w THEN NoOne ELSE lease
    /\ Finish(w)
    /\ UNCHANGED <<out, latest, assigned, comment, started, message, channels,
                   adminVars, crashes>>

-----------------------------------------------------------------------------
(* Administrators.  post_resend_outbound_delivery takes no lock.           *)
ResendRead(d) ==
    /\ resend = <<>> /\ requests < MaxResends
    /\ out[d].state \notin {"absent", "sending"}
    /\ resend' = <<d, Loaded(d)>>
    /\ requests' = requests + 1
    /\ UNCHANGED <<out, publication, channels, runnerVars, recovery, crashes>>

ResendWrite ==
    /\ resend # <<>>
    /\ Resend(resend[1], resend[2])
    /\ resend' = <<>>
    /\ UNCHANGED <<publication, channels, runnerVars, recovery, requests, crashes>>

(* recover_discord: the administrator has inspected the channel and names  *)
(* the message that is there, or confirms that there is none (0).          *)
RecoverStart ==
    /\ recovery = NoOne /\ requests < MaxResends
    /\ latest # 0 /\ ~Leased /\ started /\ message = 0
    /\ lease' = Admin
    /\ recovery' = Len(discord)
    /\ requests' = requests + 1
    /\ UNCHANGED <<out, latest, assigned, comment, started, message, channels,
                   runnerVars, resend, crashes>>

RecoverFinish ==
    LET d == <<latest, "discord", 0>> IN
    /\ recovery # NoOne
    /\ lease = Admin
    /\ message' = IF recovery # 0 THEN recovery ELSE message
    /\ started' = FALSE
    /\ Resend(d, Loaded(d))
    /\ recovery' = NoOne
    /\ UNCHANGED <<latest, assigned, comment, lease, channels, runnerVars, resend,
                   requests, crashes>>

(* Discord does not answer, the lease lapsed, the API process died. *)
RecoverFails ==
    /\ recovery # NoOne
    /\ recovery' = NoOne
    /\ UNCHANGED <<out, publication, channels, runnerVars, resend, requests, crashes>>

(* The finally block. *)
RecoverRelease ==
    /\ recovery = NoOne /\ lease = Admin
    /\ lease' = NoOne
    /\ UNCHANGED <<out, latest, assigned, comment, started, message, channels,
                   runnerVars, adminVars, crashes>>

-----------------------------------------------------------------------------
(* Clocks and crashes.  A live runner is done with the timed block after   *)
(* 60 s, before its lease of 120 s ends, and with a delivery before the    *)
(* 5 minutes after which it counts as stale.                               *)
LeaseLapses ==
    /\ Leased
    /\ ~(lease \in Runners /\ pc[lease] \in TimedSteps)
    /\ lease' = NoOne
    /\ UNCHANGED <<out, latest, assigned, comment, started, message, channels,
                   runnerVars, adminVars, crashes>>

Tick(d) ==
    /\ \/ RetryDue(d)
       \/ GrowsStale(d) /\ \A w \in Runners : work[w] # d
    /\ UNCHANGED <<publication, channels, runnerVars, adminVars, crashes>>

(* An idle runner has nothing to lose. *)
Crash(w) ==
    /\ pc[w] \notin {"down", "idle"}
    /\ crashes < MaxCrashes
    /\ crashes' = crashes + 1
    /\ pc' = [pc EXCEPT ![w] = "down"]
    /\ work' = [work EXCEPT ![w] = NoOne]
    /\ copy' = [copy EXCEPT ![w] = NoCopy]
    /\ seen' = [seen EXCEPT ![w] = NothingLoaded]
    /\ lease' = IF lease = w THEN Gone ELSE lease
    /\ UNCHANGED <<out, latest, assigned, comment, started, message,
                   channels, adminVars>>

Restart(w) ==
    /\ pc[w] = "down"
    /\ Goto(w, "idle")
    /\ UNCHANGED <<out, publication, channels, work, copy, seen, adminVars, crashes>>

-----------------------------------------------------------------------------
Publish(w) ==
    \/ FindSticky(w) \/ PublishGithub(w) \/ SaveComment(w) \/ Decorate(w)
    \/ GuardDiscord(w) \/ PatchMessage(w) \/ StartCreate(w) \/ PostMessage(w)
    \/ PostLost(w) \/ PostRejected(w) \/ ClearStarted(w) \/ SaveMessage(w)

Handle(w) ==
    \/ ClaimDelivery(w)
    \/ Superseded(w) \/ PublicationBusy(w) \/ AcquirePublication(w)
    \/ Refused(w) \/ Publish(w) \/ Complete(w)
    \/ StepFails(w) \/ LoadRow(w) \/ ReturnDelivery(w) \/ FailDelivery(w) \/ Release(w)

Next ==
    \/ \E r \in 1 .. MaxReviews : SubmitReview(r)
    \/ AssignReviewer
    \/ \E w \in Runners, d \in Deliveries : SelectDelivery(w, d)
    \/ \E w \in Runners : Handle(w) \/ Crash(w) \/ Restart(w)
    \/ \E d \in Deliveries : ResendRead(d) \/ Tick(d)
    \/ ResendWrite \/ RecoverStart \/ RecoverFinish \/ RecoverFails
    \/ RecoverRelease \/ LeaseLapses

Spec == Init /\ [][Next]_vars

(* Runners keep executing and are restarted, clocks advance, an API        *)
(* request ends.  Nobody has to submit, assign, resend or crash.           *)
Fairness ==
    /\ \A w \in Runners : /\ WF_vars(Handle(w))
                          /\ WF_vars(Restart(w))
                          /\ WF_vars(\E d \in Deliveries : SelectDelivery(w, d))
    /\ \A d \in Deliveries : WF_vars(Tick(d))
    /\ WF_vars(LeaseLapses)
    /\ WF_vars(ResendWrite)
    /\ WF_vars(RecoverFinish \/ RecoverFails)

FairSpec == Spec /\ Fairness

-----------------------------------------------------------------------------
(***************************************************************************)
(* Safety.                                                                 *)
(***************************************************************************)

(* GitHub gets one sticky comment and Discord one message, whatever is     *)
(* lost, retried, resent or crashes.                                       *)
OneComment == Len(github) <= 1
OneMessage == Len(discord) <= 1

(* A message that exists is on record or under the mark that forbids to    *)
(* send another one.                                                       *)
NoForgottenMessage == discord # <<>> => message # 0 \/ started

(* What is written to a channel is the latest review accepted so far: an   *)
(* older one never overwrites a newer one.                                 *)
OnlyLatestIsWritten ==
    [][/\ github' # github => \E i \in DOMAIN github' : github'[i].review = latest'
       /\ discord' # discord => \E i \in DOMAIN discord' : discord'[i] = latest']_vars

(* A completed delivery of the latest review is on display in its channel. *)
Shown(d) ==
    IF channelOf(d) = "github"
    THEN github # <<>> /\ github[1].review = reviewOf(d)
    ELSE discord # <<>> /\ discord[1] = reviewOf(d)

CompletedMeansShown ==
    \A d \in Deliveries :
        out[d].state = "completed" /\ reviewOf(d) = latest => Shown(d)

(***************************************************************************)
(* Liveness, under FairSpec.                                               *)
(***************************************************************************)
(* No attempt is left and nobody is at work. *)
Abandoned(d) ==
    /\ out[d].attempts >= MaxTries
    /\ \A w \in Runners : work[w] # d

(* A delivery is completed or failed in the end, unless its attempts are   *)
(* used up and nobody works on it: a runner died in the last attempt, or a *)
(* terminal error was written over a recovery.                             *)
DeliveriesSettle ==
    \A d \in Deliveries :
        out[d].state = "pending" ~>
            out[d].state \in {"completed", "failed"}
            \/ (crashes + requests > 0 /\ Abandoned(d))

(***************************************************************************)
(* What the repository says of itself and the code does not ensure.        *)
(***************************************************************************)

(* A delivery that resend refuses as "currently being sent" is being sent, *)
(* or will be claimed again.                                               *)
SendingIsBeingSent ==
    \A d \in Deliveries : out[d].state = "sending" => ~Abandoned(d)

(* When every delivery is completed, the sticky comment on record shows    *)
(* the assigned reviewer.                                                  *)
StickyShowsReviewer ==
    comment # 0 /\ (\A d \in Enqueued : out[d].state = "completed") =>
        github[comment].reviewer = assigned
=============================================================================
