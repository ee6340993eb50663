---------------------------- MODULE ReviewFormat ----------------------------
(***************************************************************************)
(* A review on its way to the Discussion and back: the form's answers are  *)
(* mapped onto the v1 schema (website_dist/js/reviews.js, toV1Payload),    *)
(* rendered as a reply (community/schemas.py, render_comment) and read     *)
(* again (parseReviewComment).  A text is a sequence of paragraphs, a      *)
(* paragraph one of the forms the conversions tell apart; blank lines and  *)
(* limits of length are left out.                                          *)
(***************************************************************************)
EXTENDS Naturals, Sequences, FiniteSets, SequencesExt, Subsequences

CONSTANTS Typed,         \* the paragraphs a reviewer may type
          MaxParagraphs  \* bound: paragraphs of one text

(* Paragraphs typed: ordinary, under 20 characters, a "### " heading, a    *)
(* "Decision:" line, the same with a backslash, one of the form's own bold *)
(* labels, its padding sentence, a line like one of its scores, a          *)
(* placeholder, and a "Runtime estimate:" line.                            *)
Paragraphs == {"plain", "short", "### Other", "Decision: other", "\\### Other",
               "\\Decision: other", "**Scores**", "padding", "Verifiability: 5/5",
               "Not rated", "Runtime estimate: other"}

(* What toV1Payload and the parser use for themselves.                     *)
Reserved == {"\\### Other", "\\Decision: other", "**Scores**", "padding",
             "Verifiability: 5/5", "Not rated", "Runtime estimate: other"}

ASSUME FormatAssumption == Typed \subseteq Paragraphs /\ MaxParagraphs \in Nat

VARIABLES review,   \* the form
          comment   \* the reply it was published as, <<>> before

fvars == <<review, comment>>

Texts == {"general", "environment", "evaluation"}
(* verifiability stands for the scored criteria, 0 is not scored; runtime  *)
(* for the two verdicts, "" is none.                                       *)
FormDecisions == {"approved", "changes_requested", "rejected"}
Review == [decision: {""} \cup FormDecisions, verifiability: {0, 5},
           runtime: {"", "too_long"}, text: [Texts -> UNION {[1..n -> Typed] : n \in 0..MaxParagraphs}]]

EmptyReview == [decision |-> "", verifiability |-> 0, runtime |-> "", text |-> [t \in Texts |-> <<>>]]

(* validateReview: a short general comment is under ten characters.        *)
ValidReview == review.decision # "" /\ \E i \in DOMAIN review.text["general"] :
                                          review.text["general"][i] # "short"

(* Slip: free text goes into the reply as it was typed. *)
TextAsTyped(text) == text

SafeText(text) ==
  [i \in DOMAIN text |-> CASE text[i] = "### Other" -> "\\### Other"
                           [] text[i] = "Decision: other" -> "\\Decision: other"
                           [] OTHER -> text[i]]

Unescaped(text) ==
  [i \in DOMAIN text |-> CASE text[i] = "\\### Other" -> "### Other"
                           [] text[i] = "\\Decision: other" -> "Decision: other"
                           [] OTHER -> text[i]]

(* The marker carries what is not free text.                               *)
Marker(r) == [decision |-> r.decision, verifiability |-> r.verifiability, runtime |-> r.runtime]

(* A line of a reply: its text, or the marker.                             *)
Lines(text) == [i \in DOMAIN text |-> [line |-> text[i], marker |-> Marker(EmptyReview)]]
OneLine(l) == Lines(<<l>>)

Verification(r) ==
  LET said == (IF r.verifiability # 0 THEN <<"Verifiability: 5/5">> ELSE <<>>)
                \o SafeText(r.text["evaluation"])
  IN CASE said = <<>> -> <<"Not rated">>
       [] said # <<>> /\ \A i \in DOMAIN said : said[i] = "short" -> Append(said, "padding")
       [] OTHER -> said

Notes(r) ==
  (IF r.verifiability # 0 THEN Lines(<<"**Scores**", "table">>) ELSE <<>>)
    \o OneLine("**General comments**") \o Lines(SafeText(r.text["general"]))
    \o (IF r.text["environment"] # <<>> \/ r.runtime # ""
        THEN OneLine("**Environment and resources**")
               \o (IF r.runtime # "" THEN OneLine("Runtime estimate: too_long") ELSE <<>>)
               \o Lines(SafeText(r.text["environment"]))
        ELSE <<>>)
    \o <<[line |-> "marker", marker |-> Marker(r)]>>

DecisionLine == [approved |-> "Decision: approved", rejected |-> "Decision: rejected",
                 changes_requested |-> "Decision: changes_requested"]

(* render_comment of the payload; the sections the parser does not read    *)
(* back are left out.                                                      *)
ToComment(r) ==
  OneLine(DecisionLine[r.decision]) \o OneLine("### Verification Method") \o Lines(Verification(r))
    \o OneLine("### Review Notes") \o Notes(r)

Headings == {"### Verification Method", "### Review Notes", "### Other"}
Labels == {"**Scores**", "**General comments**", "**Environment and resources**", "marker"}

(* The lines after the first one called start, up to one in stop.          *)
Between(lines, start, stop) ==
  LET starts == {i \in DOMAIN lines : lines[i].line = start}
      first == CHOOSE i \in starts : \A j \in starts : i <= j
      rest == SubSeq(lines, first + 1, Len(lines))
      stops == {i \in DOMAIN rest : rest[i].line \in stop}
  IN IF starts = {} THEN <<>>
     ELSE IF stops = {} THEN rest
     ELSE SubSeq(rest, 1, (CHOOSE i \in stops : \A j \in stops : i <= j) - 1)

Section(lines, heading) == Between(lines, heading, Headings)
Block(notes, label) == Between(notes, label, Labels)
TextOf(lines) == [i \in DOMAIN lines |-> lines[i].line]

RuntimeLines == {"Runtime estimate: too_long", "Runtime estimate: other"}
WithoutRuntime(text) ==
  LET at == {i \in DOMAIN text : text[i] \in RuntimeLines}
  IN IF at = {} THEN text ELSE RemoveAt(text, CHOOSE i \in at : \A j \in at : i <= j)

EvaluationOf(text) ==
  IF text # <<>> /\ text[1] = "Not rated" THEN <<>>
  ELSE KeptAt(text, {i \in DOMAIN text : text[i] \notin {"padding", "Verifiability: 5/5"}})

(* parseReviewComment on a reply with a v2 marker in its notes; decision   *)
(* is the reply's first Decision line.                                     *)
ParsedReview(lines) ==
  LET notes == Section(lines, "### Review Notes")
      marks == {i \in DOMAIN lines : lines[i].line = "marker"}
      data == lines[CHOOSE i \in marks : \A j \in marks : i <= j].marker
      said == TextOf(Section(lines, "### Verification Method"))
  IN IF marks = {} THEN [found |-> FALSE, review |-> EmptyReview]
     ELSE [found |-> TRUE, review |->
       [decision |-> CHOOSE d \in FormDecisions : lines[1].line = DecisionLine[d],
        verifiability |-> data.verifiability, runtime |-> data.runtime,
        text |-> [general |-> Unescaped(TextOf(Block(notes, "**General comments**"))),
                  environment |-> Unescaped(WithoutRuntime(TextOf(Block(notes, "**Environment and resources**")))),
                  evaluation |-> Unescaped(EvaluationOf(said))]]]

FormatInit == review = EmptyReview /\ comment = <<>>

Filling == comment = <<>> /\ UNCHANGED comment
Decide(d) == Filling /\ review' = [review EXCEPT !.decision = d]
Score(n) == Filling /\ review' = [review EXCEPT !.verifiability = n]
JudgeRuntime(v) == Filling /\ review' = [review EXCEPT !.runtime = v]

Write(t, p) == /\ Filling /\ Len(review.text[t]) < MaxParagraphs
               /\ review' = [review EXCEPT !.text[t] = Append(@, p)]

PublishForm == /\ comment = <<>> /\ ValidReview
               /\ comment' = ToComment(review) /\ UNCHANGED review

(* Every review starts from the empty form.                                *)
NewForm == /\ comment # <<>> /\ comment' = <<>> /\ review' = EmptyReview

FormatNext ==
  \/ \E d \in FormDecisions : Decide(d)
  \/ \E n \in {0, 5} : Score(n)
  \/ \E v \in {"", "too_long"} : JudgeRuntime(v)
  \/ \E t \in Texts, p \in Typed : Write(t, p)
  \/ PublishForm \/ NewForm

FormatTypeOK == review \in Review /\ (comment # <<>> => ParsedReview(comment).review \in Review)

(***************************************************************************)
(* The site reads a review back exactly (reviews.js:15), scores and text,  *)
(* as long as the reviewer types none of the form's own markers.           *)
(***************************************************************************)
ReadsBackExactly ==
  (comment # <<>> /\ \A t \in Texts : \A i \in DOMAIN review.text[t] : review.text[t][i] \notin Reserved)
    => ParsedReview(comment) = [found |-> TRUE, review |-> review]
=============================================================================
