------------------------------ MODULE TaskCheck ------------------------------
(***************************************************************************)
(* The pre-flight check of a task PR (website_dist/js/task-check.js and    *)
(* pages/preflight.js).  An author pushes to the PR's branch; the page     *)
(* reads the PR, then the list of its files, then the tree of the head it  *)
(* read first, and reports on every task directory the PR touches.  The    *)
(* rules for a new task are stricter than those for a repair, so what      *)
(* matters is which tasks existed before the PR, at this path or another.  *)
(* A PR of at most 300 files (three pages) and 12 tasks is assumed.        *)
(***************************************************************************)
EXTENDS Naturals, FiniteSets

CONSTANTS Paths,      \* task directories, [folder, slug]
          NewFolders, \* NEW_TASK_DOMAINS
          KebabSlugs, \* the slugs that are lower-case kebab-case
          MaxPushes,  \* bound: pushes to the branch
          MaxChecks   \* bound: checks of the PR; the pushes after the last one do not matter

ASSUME CheckAssumption == /\ \A p \in Paths : DOMAIN p = {"folder", "slug"}
                          /\ MaxPushes \in Nat /\ MaxChecks \in Nat

VARIABLES base, head,  \* the directories before the PR and on its branch
          pushes, checks,
          check,       \* the check in flight
          reports      \* the reports shown

kvars == <<base, head, pushes, checks, check, reports>>

(* A task directory.  name: [task].name, as ai4sbench/<slug>, another      *)
(* org/name, some other text, or none; the other fields: a rule it keeps.  *)
BadNames == {"malformed", "missing"}
Good == [toml |-> TRUE, complete |-> TRUE, metadata |-> TRUE, domain |-> TRUE, table |-> TRUE,
         name |-> "slug", description |-> TRUE, limits |-> TRUE, scripts |-> TRUE]
Task == {Good} \cup {[Good EXCEPT ![f] = FALSE] : f \in DOMAIN Good \ {"name"}}
               \cup {[Good EXCEPT !.name = n] : n \in {"other"} \cup BadNames}
NoTask == [Good EXCEPT !.toml = FALSE, !.complete = FALSE, !.name = "gone"]
Dir == Task \cup {NoTask}
HasToml(d) == d # NoTask /\ d.toml
TaskName(d) == IF d.table /\ d.name # "missing" THEN d.name ELSE ""

(* What the PR's description links: nothing, or a proposal in some state.  *)
Links == {"none", "approved", "unapproved"}
NoPR == "no PR"
Levels == {"fail", "warn", "ok"}
NoCheck == [at |-> "idle"]

(*---------------------------- task-check.js -----------------------------*)

Rule(broken, level) == IF broken THEN level ELSE "ok"

(* Group 1, required by the PR check.  at: the directory's place in the    *)
(* repository, if it is known (m); pr: what the PR links, if there is one. *)
Required(d, read, at, known, pr, new) ==
  LET parsed == HasToml(d) /\ read
  IN {Rule(~d.toml \/ ~d.complete, "fail"),
      Rule(parsed /\ ~d.metadata, "fail"),
      Rule(d.toml /\ new /\ known /\ at.folder \notin NewFolders, "fail"),
      Rule(parsed /\ new /\ known /\ d.metadata /\ ~d.domain, "fail"),
      Rule(parsed /\ new /\ ~d.table, "fail"),
      Rule(parsed /\ d.table /\ d.name \in BadNames, "fail"),
      Rule(parsed /\ d.table /\ new /\ known /\ d.name # "slug", "fail"),
      Rule(parsed /\ d.table /\ new /\ ~d.description, "fail"),
      Rule(known /\ at.slug \notin KebabSlugs, "fail"),
      Rule(pr = "none" /\ new, "fail"),
      Rule(pr = "unapproved", "warn")}

(* Groups 3 and 4: what a reviewer would ask for.                          *)
Meta(d, read, known) ==
  {Rule(HasToml(d) /\ read /\ known /\ d.metadata /\ ~d.domain, "warn"),
   Rule(HasToml(d) /\ read /\ ~d.limits, "warn")}
Content(d) == {Rule(~d.scripts, "warn")}

Verdict(levels) == IF "fail" \in levels THEN "fail" ELSE IF "warn" \in levels THEN "warn" ELSE "pass"

CheckTask(d, read, at, known, pr, new) ==
  Verdict(Required(d, read, at, known, pr, new) \cup Meta(d, read, known) \cup Content(d))

(*---------------------------- preflight.js ------------------------------*)

(* GitHub's list of the files a PR changes, as far as task.toml goes: a    *)
(* file gone and one added may be listed as a rename, from -> to.          *)
Gone(h) == {q \in Paths : HasToml(base[q]) /\ ~HasToml(h[q])}
Added(h) == {p \in Paths : ~HasToml(base[p]) /\ HasToml(h[p])}
Renames(h) == {m \in SUBSET (Gone(h) \X Added(h)) :
                 \A a, b \in m : (a[1] = b[1] <=> a[2] = b[2])}
Listed(h, m) ==
  [status |-> [p \in Paths |->
     CASE p \in {a[2] : a \in m} -> "renamed"
       [] p \in Added(h) \ {a[2] : a \in m} -> "added"
       [] p \in Gone(h) \ {a[1] : a \in m} -> "removed"
       [] HasToml(base[p]) /\ HasToml(h[p]) /\ base[p] # h[p] -> "modified"
       [] OTHER -> "none"],
   touched |-> {p \in Paths : h[p] # base[p] /\ p \notin {a[1] : a \in m}},
   previous |-> Gone(h)]

(* Slip: a task that is gone and one that is new are one if they share the slug. *)
MigratedBySlug(p, c, tree, read, readBase) ==
  /\ read /\ HasToml(c.head[p])
  /\ \E q \in c.files.previous :
       q.slug = p.slug /\ (tree => c.head[q] = NoTask \/ ~HasToml(c.head[q]))

(* A task is new when its task.toml did not exist before the PR; one moved *)
(* with its slug and its name is not.  tree: the listing was complete.     *)
Migrated(p, c, tree, read, readBase) ==
  /\ read /\ HasToml(c.head[p]) /\ TaskName(c.head[p]) # ""
  /\ \E q \in c.files.previous :
       /\ q.slug = p.slug /\ (tree => c.head[q] = NoTask \/ ~HasToml(c.head[q]))
       /\ readBase /\ HasToml(base[q]) /\ TaskName(base[q]) = TaskName(c.head[p])

NewTask(p, c, tree, read, readBase) ==
  /\ IF c.files.status[p] # "none" THEN c.files.status[p] \in {"added", "renamed"}
     ELSE ~HasToml(c.head[p])
  /\ ~Migrated(p, c, tree, read, readBase)

CheckInit ==
  /\ base \in [Paths -> {Good, [Good EXCEPT !.name = "other"], NoTask}]
  /\ head = base /\ pushes = 0 /\ checks = 0 /\ check = NoCheck /\ reports = {}

(* The author, at any time.                                                *)
PushTo(h) == /\ pushes < MaxPushes /\ (checks < MaxChecks \/ check # NoCheck)
             /\ pushes' = pushes + 1 /\ head' = h /\ head # h
             /\ check' = IF check = NoCheck THEN check ELSE [check EXCEPT !.moved = TRUE]
             /\ UNCHANGED <<base, checks, reports>>
Push(p, d) == PushTo([head EXCEPT ![p] = d])
(* A directory is moved, and may be edited on the way.                     *)
MoveTask(p, q, d) == /\ head[p] # NoTask /\ p # q /\ PushTo([head EXCEPT ![p] = NoTask, ![q] = d])

(* checkPullRequest: the PR, its description and the head it is at.        *)
ReadPR(link) ==
  /\ check = NoCheck /\ checks < MaxChecks /\ checks' = checks + 1 /\ reports' = {}
  /\ check' = [at |-> "files", head |-> head, link |-> link, moved |-> FALSE]
  /\ UNCHANGED <<base, head, pushes>>

ReadFiles ==
  /\ check # NoCheck /\ check.at = "files"
  /\ \E m \in Renames(head) :
       check' = [at |-> "tree", head |-> check.head, link |-> check.link, moved |-> check.moved,
                 files |-> Listed(head, m)]
  /\ UNCHANGED <<base, head, pushes, checks, reports>>

(* Without the tree (truncated), a directory that is gone is an error and  *)
(* nothing is reported.  A file too large, or not served, is not read.     *)
ReadTree(tree, read, readBase) ==
  /\ check # NoCheck /\ check.at = "tree"
  /\ LET roots == {p \in check.files.touched : tree => check.head[p] # NoTask}
         Report(p) ==
           LET new == NewTask(p, check, tree, read, readBase)
           IN [path |-> p, head |-> check.head, new |-> new, read |-> read, readBase |-> readBase,
               moved |-> check.moved, link |-> check.link,
               verdict |-> CheckTask(check.head[p], read, p, TRUE, check.link, new)]
     IN reports' = IF \E p \in roots : check.head[p] = NoTask THEN {} ELSE {Report(p) : p \in roots}
  /\ check' = NoCheck
  /\ UNCHANGED <<base, head, pushes, checks>>

(* A directory outside of a PR: whatever is there counts as a new task.    *)
Alone(p, known, read) ==
  [path |-> p, head |-> head, new |-> TRUE, read |-> read, readBase |-> FALSE, moved |-> FALSE,
   link |-> NoPR, verdict |-> CheckTask(head[p], read, p, known, NoPR, TRUE)]
Found == {q \in Paths : HasToml(head[q])}

(* checkFolder: a folder on this computer, whose place in the repository   *)
(* may not be known.  Without a task.toml in it nothing is reported.       *)
CheckFolder(known, read) ==
  /\ check = NoCheck /\ checks < MaxChecks /\ checks' = checks + 1
  /\ reports' = {Alone(p, known, read) : p \in Found}
  /\ UNCHANGED <<base, head, pushes, check>>

(* checkTree, checkRepo: a branch or a folder of it; its tree must not be  *)
(* truncated.                                                              *)
CheckListing(tree, read) ==
  /\ check = NoCheck /\ checks < MaxChecks /\ checks' = checks + 1
  /\ reports' = IF tree THEN {Alone(p, TRUE, read) : p \in Found} ELSE {}
  /\ UNCHANGED <<base, head, pushes, check>>

CheckNext ==
  \/ ReadFiles
  \/ \E p \in Paths, d \in Dir : Push(p, d) \/ \E q \in Paths : MoveTask(p, q, d)
  \/ \E link \in Links : ReadPR(link)
  \/ \E tree, read, readBase \in BOOLEAN : ReadTree(tree, read, readBase)
  \/ \E known, read \in BOOLEAN : CheckFolder(known, read)
  \/ \E tree, read \in BOOLEAN : CheckListing(tree, read)

CheckTypeOK ==
  /\ base \in [Paths -> Dir] /\ head \in [Paths -> Dir] /\ pushes \in 0..MaxPushes
  /\ checks \in 0..MaxChecks
  /\ check = NoCheck \/ (check.at \in {"files", "tree"} /\ check.head \in [Paths -> Dir])
  /\ \A r \in reports : r.path \in Paths /\ r.verdict \in {"pass", "warn", "fail"}

TaskOf(r) == r.head[r.path]

(* The task existed before the PR: at its path, or moved here by the PR    *)
(* with its slug and its name.                                             *)
Existed(r) ==
  \/ HasToml(base[r.path])
  \/ \E q \in Paths :
       /\ q.slug = r.path.slug /\ HasToml(base[q]) /\ ~HasToml(r.head[q])
       /\ HasToml(TaskOf(r)) /\ TaskName(TaskOf(r)) # "" /\ TaskName(base[q]) = TaskName(TaskOf(r))

(***************************************************************************)
(* The page never takes a new task for a repair: whatever GitHub calls a   *)
(* rename, and whatever could not be read, a report on a task that did not *)
(* exist before is one on a new task, and is a fail unless it links a      *)
(* proposal and keeps the rules that could be checked.  (For a branch that *)
(* did not move while it was read.)                                        *)
(***************************************************************************)
NewTasksMeetTheRules ==
  \A r \in reports :
    (r.link # NoPR /\ ~r.moved /\ ~Existed(r)) =>
      /\ r.new
      /\ r.verdict # "fail" =>
           /\ r.link # "none" /\ TaskOf(r).toml /\ TaskOf(r).complete
           /\ r.path.folder \in NewFolders /\ r.path.slug \in KebabSlugs
           /\ r.read => /\ TaskOf(r).metadata /\ TaskOf(r).domain /\ TaskOf(r).table
                        /\ TaskOf(r).name = "slug" /\ TaskOf(r).description

(***************************************************************************)
(* A repair, or a task moved with its name, is not asked for a proposal:   *)
(* it fails only for what every task must have.                            *)
(***************************************************************************)
RepairsNeedNoProposal ==
  \A r \in reports :
    (r.link # NoPR /\ ~r.moved /\ r.read /\ r.readBase /\ Existed(r) /\ r.verdict = "fail") =>
      \/ ~TaskOf(r).toml \/ ~TaskOf(r).complete \/ ~TaskOf(r).metadata
      \/ r.path.slug \notin KebabSlugs \/ (TaskOf(r).table /\ TaskOf(r).name \in BadNames)

(***************************************************************************)
(* Both ways round: which rules a report applies follows from what the     *)
(* repository held before (pages/preflight.js), not from what GitHub calls *)
(* the change.                                                             *)
(***************************************************************************)
JudgedByWhatExisted == NewTasksMeetTheRules /\ RepairsNeedNoProposal

CheckSpec == CheckInit /\ [][CheckNext]_kvars
=============================================================================
