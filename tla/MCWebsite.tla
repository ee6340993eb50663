------------------------------ MODULE MCWebsite ------------------------------
(***************************************************************************)
(* The pages and rules of the public site, one behaviour for each: they    *)
(* share no state, so a behaviour opens one page and the rest stays as it  *)
(* starts.                                                                 *)
(***************************************************************************)
EXTENDS ReviewerApplication, ReviewDrawer, ProposalEditor, SubmitTask, ReviewFormat,
        TaskBoard, ReviewThread, Contributors, TaskCheck, AccountEmail, AccountHeader, TLC

(* A task that can be right, one outside the folders open to new tasks, and *)
(* one whose slug is not kebab-case.                                        *)
TaskPaths == [folder: {"physics"}, slug: {"s", "T_t"}] \cup [folder: {"misc"}, slug: {"s"}]

(* Reviews with every decision of two people, one of whom spells the login *)
(* in two ways and scores, except in a legacy reply without a decision.    *)
ArrivingReviews ==
  {r \in ArrivingReview : /\ r.upper <=> (r.login = "ada" /\ r.decision # "approved")
                          /\ r.score # 0 => (r.login = "ada" /\ r.decision # "undecided")}

(* Two accounts whose addresses meet: one of the four is outside the model. *)
ManyAddresses == Cardinality({u \in Users: accounts[u].email # NoEmail})
                 + Cardinality({u \in Users: accounts[u].github # NoEmail}) = 3

VARIABLE page

vars == <<page, rvars, dvars, evars, svars, fvars, bvars, thread, rows, kvars, hvars, avars>>

Pages == {"reviewer", "drawer", "editor", "submit", "format", "board", "thread", "contributors", "check", "account", "header"}

(* A page that is not open starts in one way only.                         *)
Init ==
  /\ page \in Pages
  /\ ReviewerInit /\ (page = "reviewer" \/ cookie = NoUser)
  /\ DrawerInit /\ (page = "drawer" \/ reader = Nobody)
  /\ EditorInit /\ (page = "editor" \/ ~author)
  /\ BoardInit
  /\ page = "board" \/ \A t \in Tasks: record[t].status = "pending" /\ record[t].domains = BoardDomains
  /\ CheckInit /\ (page = "check" \/ \A p \in Paths: base[p] = Good)
  /\ AccountInit
  /\ IF page = "account" THEN tab # NoUser /\ ManyAddresses
     ELSE tab = NoUser /\ \A u \in Users: accounts[u].github = NoEmail /\ accounts[u].email = NoEmail
  /\ HeaderInit /\ (page = "header" \/ session = NoVisitor)
  /\ SubmitInit /\ FormatInit /\ ThreadInit /\ ContributorsInit

ReviewerPage == /\ page = "reviewer" /\ ReviewerNext
                /\ UNCHANGED <<page, dvars, evars, svars, fvars, bvars, thread, rows, kvars, hvars, avars>>

DrawerPage == /\ page = "drawer" /\ DrawerNext
              /\ UNCHANGED <<page, rvars, evars, svars, fvars, bvars, thread, rows, kvars, hvars, avars>>

EditorPage == /\ page = "editor" /\ EditorNext
              /\ UNCHANGED <<page, rvars, dvars, svars, fvars, bvars, thread, rows, kvars, hvars, avars>>

SubmitPage == /\ page = "submit" /\ SubmitNext
              /\ UNCHANGED <<page, rvars, dvars, evars, fvars, bvars, thread, rows, kvars, hvars, avars>>

FormatPage == /\ page = "format" /\ FormatNext
              /\ UNCHANGED <<page, rvars, dvars, evars, svars, bvars, thread, rows, kvars, hvars, avars>>

BoardPage == /\ page = "board" /\ BoardNext
             /\ UNCHANGED <<page, rvars, dvars, evars, svars, fvars, thread, rows, kvars, hvars, avars>>

ThreadPage == /\ page = "thread" /\ ThreadNext
              /\ UNCHANGED <<page, rvars, dvars, evars, svars, fvars, bvars, rows, kvars, hvars, avars>>

ContributorsPage == /\ page = "contributors" /\ ContributorsNext
                    /\ UNCHANGED <<page, rvars, dvars, evars, svars, fvars, bvars, thread, kvars, hvars, avars>>

CheckPage == /\ page = "check" /\ CheckNext
             /\ UNCHANGED <<page, rvars, dvars, evars, svars, fvars, bvars, thread, rows, hvars, avars>>

AccountPage == /\ page = "account" /\ AccountNext
               /\ UNCHANGED <<page, form, cookie, calls, applications, dvars, evars, svars, fvars, bvars, thread, rows, kvars, avars>>

HeaderPage == /\ page = "header" /\ HeaderNext
              /\ UNCHANGED <<page, rvars, dvars, evars, svars, fvars, bvars, thread, rows, kvars, hvars>>

Next == \/ ReviewerPage \/ DrawerPage \/ EditorPage \/ SubmitPage \/ FormatPage
        \/ BoardPage \/ ThreadPage \/ ContributorsPage \/ CheckPage \/ AccountPage \/ HeaderPage

(***************************************************************************)
(* Whatever address enters the records of the site, in an application or   *)
(* as an account's email, belongs to the account that gave it: every code  *)
(* serves once, for the address and the account it was mailed for.         *)
(***************************************************************************)
EmailsAreProven == ApplicationsAreProven /\ ChosenEmailsAreProven

(***************************************************************************)
(* What the board shows is one story: the timeline of a task, its badge    *)
(* and its stage agree in whatever order the evidence came, and the counts *)
(* beside the filters are what choosing them lists.  (The other pages      *)
(* leave the board as it starts.)                                          *)
(***************************************************************************)
BoardTellsStatus == page = "board" => TimelineTellsStatus /\ CountsAreWhatIsListed

Spec == Init /\ [][Next]_vars

(* Accounts, addresses, reviewers and tasks are told apart by name only.   *)
Symmetry == Permutations(Users) \cup Permutations(Emails) \cup Permutations(Reviewers)
            \cup Permutations(Tasks)

(* What is written reads back: a review from its comment (reviews.js), and  *)
(* the contributors from the stored strings (people.js).  (The other pages  *)
(* leave both as they start.)                                               *)
WrittenReadsBack == /\ page = "format" => ReadsBackExactly
                    /\ page = "contributors" => PeopleComeBack
==============================================================================
