----------------------------- MODULE SubmitTask -----------------------------
(***************************************************************************)
(* The submission wizard (website_dist/js/pages/submit.js).  The answers   *)
(* are the text, as the number of its last edit (0: empty), on step 0 and  *)
(* the domains on step 1; step 2 is the review.  One of the domains is the *)
(* primary one (domains.js), stored first.  The domain chips exist only    *)
(* once the control plane's list has arrived; until then the draft's       *)
(* domains are held in draftDomains.                                       *)
(***************************************************************************)
EXTENDS Naturals, FiniteSets

CONSTANTS Domains,        \* as places in the control plane's list
          MaxAnswers,     \* bound: edits typed
          MaxCreated    \* bound: proposals created

ASSUME SubmitAssumption == Domains \subseteq Nat \ {0} /\ MaxAnswers \in Nat /\ MaxCreated \in Nat

VARIABLES text, edits,       \* the form's text; how many edits there have been
          chips, primary,    \* the ticked chips; the primary domain's select, 0 when empty
          list,              \* the domain list: loading, ready or failed
          draftDomains,
          draft,             \* localStorage
          current, visited,  \* the wizard's step
          user, serviceState,
          submitOpen,        \* submitBtn is enabled
          posts,             \* submissions in flight
          created,           \* history: proposals created
          done,              \* the success panel is shown
          wanted, chosen     \* history: the domains the person wants, and the one made primary

svars == <<text, edits, chips, primary, list, draftDomains, draft, current, visited, user,
           serviceState, submitOpen, posts, created, done, wanted, chosen>>
domainsV == <<chips, primary, wanted, chosen>>
answersV == <<text, edits, domainsV, list, draftDomains, draft>>
sessionV == <<user, serviceState>>
postsV == <<posts, created, done>>

DomainList == [all: SUBSET Domains, first: Domains \cup {0}]
NoDomains == [all |-> {}, first |-> 0]
Draft == [kept: BOOLEAN, text: 0..MaxAnswers, domains: DomainList]
NoDraft == [kept |-> FALSE, text |-> 0, domains |-> NoDomains]
ReviewStep == 2

SubmitTypeOK ==
  /\ text \in 0..MaxAnswers /\ edits \in 0..MaxAnswers /\ chips \subseteq Domains
  /\ list \in {"loading", "ready", "failed"} /\ draftDomains \in DomainList
  /\ draft \in Draft /\ current \in 0..ReviewStep /\ visited \subseteq 0..ReviewStep
  /\ user \in BOOLEAN /\ serviceState \in {"checking", "ready", "signed-out", "unreachable"}
  /\ submitOpen \in BOOLEAN /\ posts \in 0..2 /\ created \in 0..MaxCreated
  /\ done \in BOOLEAN /\ wanted \subseteq Domains
  /\ primary \in Domains \cup {0} /\ chosen \in Domains \cup {0}

SubmitInit ==
  /\ text = 0 /\ edits = 0 /\ chips = {} /\ list = "loading" /\ draftDomains = NoDomains
  /\ draft = NoDraft /\ current = 0 /\ visited = {0} /\ user = FALSE
  /\ serviceState = "checking" /\ submitOpen = FALSE /\ posts = 0 /\ created = 0
  /\ done = FALSE /\ wanted = {} /\ primary = 0 /\ chosen = 0

(* validateAnswers, per step.                                              *)
StepValid(i) == CASE i = 0 -> text # 0 [] i = 1 -> chips # {} [] i = 2 -> TRUE
AnswersValid == StepValid(0) /\ StepValid(1)

(* updateSubmitState: it does not know of a submission in flight.          *)
SubmitState(service, signedIn) == AnswersValid /\ service = "ready" /\ signedIn

(* primaryFirst and the select's refresh: the wish if it is ticked, else   *)
(* the first of the list.                                                  *)
FirstOf(ticked, wish) ==
  IF wish \in ticked THEN wish
  ELSE IF ticked = {} THEN 0 ELSE CHOOSE d \in ticked : \A e \in ticked : d <= e
PrimaryFirst(ticked, wish) == [all |-> ticked, first |-> FirstOf(ticked, wish)]

(* Slip: the draft is the chips that are ticked, also before there are any. *)
SavedDraftOfChips(t, ticked, wish) ==
  [kept |-> TRUE, text |-> t, domains |-> PrimaryFirst(ticked, wish)]

(* saveDraft: without chips, the draft's domains are kept.                 *)
SavedDraft(t, ticked, wish) ==
  [kept |-> TRUE, text |-> t,
   domains |-> IF list = "ready" THEN PrimaryFirst(ticked, wish) ELSE draftDomains]

TypeAnswer == /\ ~done /\ current = 0 /\ edits < MaxAnswers
              /\ edits' = edits + 1 /\ text' = edits' /\ draft' = SavedDraft(text', chips, primary)
              /\ UNCHANGED <<domainsV, list, draftDomains, current, visited, sessionV, submitOpen, postsV>>

(* The draft is saved on the input event, before the change event reaches  *)
(* the select.                                                             *)
Tick(d) == /\ ~done /\ current = 1 /\ list = "ready"
           /\ chips' = IF d \in chips THEN chips \ {d} ELSE chips \cup {d}
           /\ wanted' = IF d \in chips THEN wanted \ {d} ELSE wanted \cup {d}
           /\ draft' = SavedDraft(text, chips', primary)
           /\ primary' = FirstOf(chips', primary)
           /\ chosen' = IF chosen \in chips' THEN chosen ELSE 0
           /\ UNCHANGED <<text, edits, list, draftDomains, current, visited, sessionV, submitOpen, postsV>>

ChoosePrimary(d) == /\ ~done /\ current = 1 /\ d \in chips /\ d # primary
                    /\ primary' = d /\ chosen' = d /\ draft' = SavedDraft(text, chips, d)
                    /\ UNCHANGED <<text, edits, chips, wanted, list, draftDomains, current, visited,
                                   sessionV, submitOpen, postsV>>

(* The list arrives: the chips are made and the draft's domains ticked.    *)
ListArrives == /\ list = "loading" /\ list' = "ready" /\ chips' = draftDomains.all
               /\ primary' = FirstOf(chips', draftDomains.first)
               /\ UNCHANGED <<text, edits, draftDomains, draft, current, visited, sessionV,
                              submitOpen, postsV, wanted, chosen>>

ListFails == /\ list = "loading" /\ list' = "failed"
             /\ UNCHANGED <<text, edits, domainsV, draftDomains, draft, current, visited, sessionV,
                            submitOpen, postsV>>

(* goTo; arriving at the review sets the state of the submit button.       *)
GoTo(i) == /\ current' = i /\ visited' = visited \cup {i}
           /\ submitOpen' = IF i = ReviewStep THEN SubmitState(serviceState, user) ELSE submitOpen

NextStep == /\ ~done /\ current < ReviewStep /\ StepValid(current) /\ GoTo(current + 1)
            /\ UNCHANGED <<answersV, sessionV, postsV>>

Jump(i) == /\ ~done /\ i # current /\ GoTo(i)
           /\ UNCHANGED <<answersV, sessionV, postsV>>

(* applyUser, unreachable, and a sign-in that did not complete.            *)
SetService(u, service) == /\ user' = u /\ serviceState' = service
                          /\ submitOpen' = SubmitState(service, u)
                          /\ UNCHANGED <<answersV, current, visited, postsV>>

UserApplied(u) == /\ user # u \/ serviceState = "checking"
                  /\ SetService(u, IF u THEN "ready" ELSE "signed-out")
Unreachable == serviceState = "checking" /\ SetService(user, "unreachable")
SignInFails == serviceState = "signed-out" /\ SetService(user, "signed-out")

(* Submit: an invalid form goes back to its first invalid step.            *)
SubmitForm ==
  /\ ~done /\ current = ReviewStep /\ submitOpen
  /\ IF ~AnswersValid
     THEN /\ GoTo(IF StepValid(0) THEN 1 ELSE 0) /\ UNCHANGED posts
     ELSE /\ user /\ posts < 2 /\ posts' = posts + 1 /\ submitOpen' = FALSE
          /\ UNCHANGED <<current, visited>>
  /\ UNCHANGED <<answersV, sessionV, created, done>>

(* showSuccess clears the draft and hides the form.                        *)
Accepted == /\ posts > 0 /\ created < MaxCreated
            /\ posts' = posts - 1 /\ created' = created + 1 /\ done' = TRUE /\ draft' = NoDraft
            /\ UNCHANGED <<text, edits, domainsV, list, draftDomains, current, visited, sessionV,
                           submitOpen>>

Rejected == /\ posts > 0 /\ posts' = posts - 1 /\ submitOpen' = TRUE
            /\ UNCHANGED <<answersV, current, visited, sessionV, created, done>>

(* Submit another: an empty form, from the first step.                     *)
Another == /\ done /\ done' = FALSE /\ text' = 0 /\ chips' = {} /\ draftDomains' = NoDomains
           /\ primary' = 0 /\ wanted' = {} /\ chosen' = 0 /\ visited' = {0} /\ current' = 0
           /\ UNCHANGED <<edits, list, draft, sessionV, submitOpen, posts, created>>

(* The page is loaded again: restoreDraft, before the list arrives.        *)
ReloadForm == /\ posts = 0
              /\ text' = draft.text /\ chips' = {} /\ list' = "loading" /\ draftDomains' = draft.domains
              /\ primary' = 0 /\ wanted' = draft.domains.all
              /\ chosen' = (IF draft.kept THEN chosen ELSE 0) /\ current' = 0 /\ visited' = {0} /\ user' = FALSE
              /\ serviceState' = "checking" /\ submitOpen' = FALSE /\ done' = FALSE
              /\ UNCHANGED <<edits, draft, posts, created>>

SubmitNext ==
  \/ TypeAnswer \/ ListArrives \/ ListFails \/ NextStep \/ Unreachable \/ SignInFails
  \/ SubmitForm \/ Accepted \/ Rejected \/ Another \/ ReloadForm
  \/ \E d \in Domains : Tick(d) \/ ChoosePrimary(d)
  \/ \E i \in 0..ReviewStep : Jump(i)
  \/ \E u \in BOOLEAN : UserApplied(u)

(***************************************************************************)
(* The draft holds the text, every domain the person has chosen and, in    *)
(* front, the one made primary, from the first edit on, whether the domain *)
(* list came early, late or never, and over reloads; only an accepted      *)
(* submission removes it.                                                  *)
(***************************************************************************)
DraftKeepsAnswers ==
  /\ created = 0 /\ (edits > 0 \/ wanted # {}) => draft.kept
  /\ draft.kept => /\ draft.text = text
                   /\ wanted \subseteq draft.domains.all
                   /\ chosen # 0 => draft.domains.first = chosen
                   /\ list = "ready" => draft.domains = PrimaryFirst(chips, primary)

SubmitSpec == SubmitInit /\ [][SubmitNext]_svars
=============================================================================
