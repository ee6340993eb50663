--------------------------- MODULE ProposalEditor ---------------------------
(***************************************************************************)
(* The proposal page as its author sees it: rendering from the cached task *)
(* board (website_dist/js/data.js, pages/task-detail.js) and the on-site   *)
(* editor (pages/task-edit.js).  A text is identified by the version of    *)
(* the proposal that first held it; versions stand for updated_at.         *)
(***************************************************************************)
EXTENDS Naturals, Sequences, FiniteSets

CONSTANTS MaxVersions,  \* bound: versions of the proposal ever stored
          MaxEdits,     \* bound: edits typed
          MaxRenders    \* bound: renders in flight

ASSUME EditorAssumption == MaxVersions \in Nat \ {0} /\ MaxEdits \in Nat /\ MaxRenders \in Nat

VARIABLES stored,    \* the control plane's version of the proposal
          board,     \* the cached promise of the task board: its version, "failed", or "none"
          method,    \* the memoised probe of the update route: "unknown", "PUT" or "none"
          author,    \* whether the signed-in account is the author's
          renders,   \* renders in flight: the task and the account each will show
          painted,   \* what the page shows
          asideHidden,
          editor,    \* the editor, if the page holds one
          saves      \* history: what each save replaced and what it knew

evars == <<stored, board, method, author, renders, painted, asideHidden, editor, saves>>

Version == 1..MaxVersions
Failed == MaxVersions + 1
NoBoard == [got |-> FALSE, ver |-> 0]

(* One getTask: the cached answer, or a read that is cached from then on;  *)
(* a failed read is cached too.  Each outcome is <<cache, version>>.       *)
BoardReads ==
  IF board.got THEN {board}
  ELSE {[got |-> TRUE, ver |-> v] : v \in {stored, Failed}}

Page == [ver: 0..MaxVersions + 1, author: BOOLEAN, edits: BOOLEAN]
NotPainted == [ver |-> 0, author |-> FALSE, edits |-> FALSE]

(* base: the version the editor opened with; atCheck: the version stored   *)
(* when its freshness check began; knows: whether the check could tell.    *)
Editor == [open: BOOLEAN, base: 0..MaxVersions, text: 0..MaxEdits, dirty: BOOLEAN,
           confirming: BOOLEAN, warned: 0..MaxEdits,
           phase: {"idle", "checking", "putting", "saved"},
           atCheck: 0..MaxVersions, read: 0..MaxVersions + 1]
NoEditor == [open |-> FALSE, base |-> 0, text |-> 0, dirty |-> FALSE, confirming |-> FALSE,
             warned |-> 0, phase |-> "idle", atCheck |-> 0, read |-> 0]

EditorTypeOK ==
  /\ stored \in Version /\ board \in [got: BOOLEAN, ver: 0..MaxVersions + 1]
  /\ method \in {"unknown", "PUT", "none"} /\ author \in BOOLEAN
  /\ renders \subseteq Page /\ painted \in Page /\ asideHidden \in BOOLEAN /\ editor \in Editor
  /\ saves \subseteq [replaced: Version, base: Version, atCheck: Version, knew: BOOLEAN]

EditorInit ==
  /\ stored = 1 /\ board = NoBoard /\ method = "unknown" /\ author \in BOOLEAN
  /\ renders = {} /\ painted = NotPainted /\ asideHidden = FALSE
  /\ editor = NoEditor /\ saves = {}

(* editMethod: asked once, and whatever the answer was, it stays.          *)
Probed(m) == IF method = "unknown" THEN m \in {"PUT", "none"} ELSE m = method

(* A render begins: the board, the account and the probe, together.        *)
RenderBegins(invalidate) ==
  \E b \in (IF invalidate THEN {[got |-> TRUE, ver |-> v] : v \in {stored, Failed}} ELSE BoardReads),
     m \in {"PUT", "none"} :
       /\ Probed(m) /\ method' = m /\ board' = b
       /\ Cardinality(renders) < MaxRenders
       /\ renders' = renders \cup {[ver |-> b.ver, author |-> author, edits |-> m = "PUT"]}

FirstRender == /\ painted = NotPainted /\ renders = {} /\ RenderBegins(FALSE)
               /\ UNCHANGED <<stored, author, painted, asideHidden, editor, saves>>

(* authchange: sign-in or sign-out, and the page renders again.            *)
AuthChange == /\ author' = ~author
              /\ \E b \in BoardReads, m \in {"PUT", "none"} :
                   /\ Probed(m) /\ method' = m /\ board' = b
                   /\ Cardinality(renders) < MaxRenders
                   /\ renders' = renders \cup {[ver |-> b.ver, author |-> ~author, edits |-> m = "PUT"]}
              /\ UNCHANGED <<stored, painted, asideHidden, editor, saves>>

(* A render ends, in any order: the main column is replaced, and an editor *)
(* in it with it; a save already running goes on.  A failed board leaves   *)
(* the page as it was.                                                     *)
RenderEnds(r) ==
  /\ renders' = renders \ {r}
  /\ IF r.ver = Failed THEN UNCHANGED <<painted, editor>>
     ELSE /\ painted' = r
          /\ editor' = IF editor.phase = "idle" THEN NoEditor ELSE [editor EXCEPT !.open = FALSE]
  /\ UNCHANGED <<stored, board, method, author, asideHidden, saves>>

CanEdit == painted.author /\ painted.edits

(* openEditor on the painted task; bound: not while an earlier editor's    *)
(* save is running.                                                        *)
OpenEditor == /\ painted.ver \in Version /\ CanEdit /\ ~editor.open /\ editor.phase = "idle"
              /\ editor' = [NoEditor EXCEPT !.open = TRUE, !.base = painted.ver]
              /\ asideHidden' = TRUE
              /\ UNCHANGED <<stored, board, method, author, renders, painted, saves>>

(* Typing revokes a pending "click Cancel again".                          *)
MarkDirty(e) == [e EXCEPT !.dirty = TRUE, !.confirming = FALSE]

Type == /\ editor.open /\ editor.text < MaxEdits
        /\ editor' = [MarkDirty(editor) EXCEPT !.text = @ + 1]
        /\ UNCHANGED <<stored, board, method, author, renders, painted, asideHidden, saves>>

(* Cancel: a second click discards unsaved text.                           *)
Cancel ==
  /\ editor.open
  /\ IF editor.dirty /\ ~editor.confirming
     THEN /\ editor' = [editor EXCEPT !.confirming = TRUE, !.warned = editor.text]
          /\ UNCHANGED <<board, method, renders, asideHidden>>
     ELSE /\ editor' = [editor EXCEPT !.open = FALSE] /\ asideHidden' = FALSE
          /\ RenderBegins(FALSE)
  /\ UNCHANGED <<stored, author, painted, saves>>

(* Slip: the freshness check reads the board that is cached. *)
SaveOnCachedBoard ==
  /\ editor.open /\ editor.phase = "idle"
  /\ \E b \in BoardReads :
       /\ board' = b
       /\ editor' = [editor EXCEPT !.phase = "checking", !.atCheck = stored, !.read = b.ver]
  /\ UNCHANGED <<stored, method, author, renders, painted, asideHidden, saves>>

(* Submit of answers that validate: the board is read afresh.              *)
Save ==
  /\ editor.open /\ editor.phase = "idle"
  /\ \E v \in {stored, Failed} :
       /\ board' = [got |-> TRUE, ver |-> v]
       /\ editor' = [editor EXCEPT !.phase = "checking", !.atCheck = stored, !.read = v]
  /\ UNCHANGED <<stored, method, author, renders, painted, asideHidden, saves>>

(* hasChangedUpstream: a failed check does not block the save.             *)
Checked ==
  /\ editor.phase = "checking"
  /\ editor' = [editor EXCEPT !.phase =
                  IF editor.read \in Version /\ editor.read # editor.base THEN "idle" ELSE "putting"]
  /\ UNCHANGED <<stored, board, method, author, renders, painted, asideHidden, saves>>

(* The full replacement lands; its answer comes later, or is lost: then    *)
(* the page takes the save for refused.                                    *)
Put ==
  /\ editor.phase = "putting" /\ stored < MaxVersions
  /\ saves' = saves \cup {[replaced |-> stored, base |-> editor.base, atCheck |-> editor.atCheck,
                           knew |-> editor.read \in Version]}
  /\ stored' = stored + 1
  /\ \E p \in {"saved", "idle"} : editor' = [editor EXCEPT !.phase = p]
  /\ UNCHANGED <<board, method, author, renders, painted, asideHidden>>

(* A refused save keeps the text (405 and 501 point to GitHub instead).    *)
PutRefused == /\ editor.phase = "putting"
              /\ editor' = [editor EXCEPT !.phase = "idle"]
              /\ UNCHANGED <<stored, board, method, author, renders, painted, asideHidden, saves>>

(* The answer of a save: onSaved renders the page from a fresh board, even *)
(* when the editor was cancelled meanwhile.                                *)
Saved == /\ editor.phase = "saved"
         /\ editor' = [editor EXCEPT !.phase = "idle", !.dirty = FALSE, !.open = FALSE]
         /\ asideHidden' = FALSE /\ RenderBegins(TRUE)
         /\ UNCHANGED <<stored, author, painted, saves>>

(* A sync run, or the author in another tab, stores a new version.         *)
ChangedElsewhere == /\ stored < MaxVersions /\ stored' = stored + 1
                    /\ UNCHANGED <<board, method, author, renders, painted, asideHidden, editor, saves>>

EditorNext ==
  \/ FirstRender \/ AuthChange \/ OpenEditor \/ Type \/ Cancel \/ Save \/ Checked \/ Put
  \/ PutRefused \/ Saved \/ ChangedElsewhere \/ \E r \in renders : RenderEnds(r)

(***************************************************************************)
(* A save never replaces a version that was stored when its freshness      *)
(* check began and that the author has not seen, unless the check itself   *)
(* failed: only a change that lands during the save can be overwritten.    *)
(***************************************************************************)
SeenBeforeReplaced == \A s \in saves : s.knew => s.base = s.atCheck

(***************************************************************************)
(* Cancel discards exactly the text it warned about: what is typed after   *)
(* the warning needs a warning of its own.                                 *)
(***************************************************************************)
CancelDiscardsWarnedText == editor.confirming => editor.warned = editor.text

(***************************************************************************)
(* Nothing is lost unseen: neither a version of the proposal by a save nor *)
(* a text of the editor by Cancel (task-edit.js).                          *)
(***************************************************************************)
NothingUnseenIsLost == SeenBeforeReplaced /\ CancelDiscardsWarnedText

EditorSpec == EditorInit /\ [][EditorNext]_evars
=============================================================================
