---------------------------- MODULE Contributors ----------------------------
(***************************************************************************)
(* The contributors of a proposal: the form's rows                         *)
(* (website_dist/js/contributor-fields.js) and the two strings they are    *)
(* stored as (people.js).  A name is the sequence of its parts between     *)
(* what the free-form splitter takes for a separator (a comma, "&",        *)
(* "and"): a plain name has one part.  The stored name is the sequence     *)
(* that ";" separates, the stored affiliation likewise.                    *)
(***************************************************************************)
EXTENDS Naturals, Sequences, FiniteSets, SequencesExt, Subsequences

CONSTANTS NameParts, Affiliations,
          MaxRows   \* bound: rows of the form

(* Somebody who types the dash, or "none", has no affiliation.             *)
ASSUME ContributorsAssumption == MaxRows \in Nat \ {0} /\ "none" \notin Affiliations

VARIABLE rows      \* the form

None == "none"     \* the dash of an empty slot; read back as no affiliation
Blank == ""
BlankRow == [name |-> <<>>, affiliation |-> Blank]
Names == {<<>>} \cup {<<p>> : p \in NameParts} \cup {<<p, q>> : p, q \in NameParts}
Row == [name: Names, affiliation: Affiliations \cup {Blank}]

(* parseNames: one name without ";" is taken apart.                        *)
ParseNames(names) ==
  IF Len(names) = 1 THEN [k \in DOMAIN names[1] |-> <<names[1][k]>>] ELSE names

(* parseAffiliations: the empty string is one empty affiliation.           *)
ParseAffiliations(affs) ==
  IF affs = <<>> THEN <<Blank>> ELSE [k \in DOMAIN affs |-> IF affs[k] = None THEN Blank ELSE affs[k]]

NonBlank(affs) == KeptAt(affs, {i \in DOMAIN affs : affs[i] # Blank})

(* splitContributors.  An affiliation shown is a sequence: the slots that  *)
(* could not be paired are shown together.                                 *)
SplitContributors(stored) ==
  LET names == ParseNames(stored.name)
      affs == ParseAffiliations(stored.affiliation)
      given == NonBlank(affs)
      Shown(i) ==
        CASE given = <<>> -> <<>>
          [] given # <<>> /\ Len(affs) = Len(names) -> NonBlank(<<affs[i]>>)
          [] given # <<>> /\ Len(affs) # Len(names) /\ Len(affs) = 1 -> affs
          [] given # <<>> /\ Len(affs) # Len(names) /\ Len(affs) > 1 /\ Len(names) = 1 -> affs
          [] OTHER -> IF i = 1 THEN given ELSE <<>>
  IN [i \in DOMAIN names |-> [name |-> names[i], affiliation |-> Shown(i)]]

(* joinContributors: rows without a name are dropped; one affiliation      *)
(* stands for everyone, several are aligned with the names.                *)
Named(people) == KeptAt(people, {i \in DOMAIN people : people[i].name # <<>>})

JoinContributors(people) ==
  LET named == Named(people)
      distinct == {named[i].affiliation : i \in DOMAIN named} \ {Blank}
  IN [name |-> [i \in DOMAIN named |-> named[i].name],
      affiliation |->
        CASE distinct = {} -> <<>>
          [] Cardinality(distinct) = 1 -> SetToSeq(distinct)
          [] OTHER -> [i \in DOMAIN named |->
                        IF named[i].affiliation = Blank THEN None ELSE named[i].affiliation]]

ContributorsTypeOK == /\ rows \in Seq(Row) /\ Len(rows) \in 1..MaxRows

ContributorsInit == rows = <<BlankRow>>

AddRow == /\ Len(rows) < MaxRows /\ rows' = Append(rows, BlankRow)

(* The first row, the submitter's, has no button.                          *)
RemoveRow(i) == /\ i \in 2..Len(rows) /\ rows' = RemoveAt(rows, i)

TypeRow(i, row) == /\ i \in DOMAIN rows /\ row # rows[i]
                   /\ rows' = [rows EXCEPT ![i] = row]

(* The joined value is saved and the editor opened on it, or an older      *)
(* proposal's free-form string is: the form has at least one row.          *)
AsRow(person) == [name |-> person.name,
                  affiliation |-> IF Len(person.affiliation) = 1 THEN person.affiliation[1] ELSE Blank]
SaveAndEdit ==
  /\ Named(rows) # <<>>
  /\ LET people == SplitContributors(JoinContributors(rows))
     IN Len(people) <= MaxRows /\ rows' = [i \in DOMAIN people |-> AsRow(people[i])]

ContributorsNext ==
  \/ AddRow \/ SaveAndEdit
  \/ \E i \in 1..MaxRows : RemoveRow(i) \/ \E row \in Row : TypeRow(i, row)

(***************************************************************************)
(* Reading back what was stored gives the people that were entered, in     *)
(* order and each with the affiliation typed, also after an empty slot or  *)
(* a row removed in the middle: only someone left without one shares the   *)
(* one affiliation that was given.  Saving what was read back changes      *)
(* nothing.  A single person whose own name holds a separator is the       *)
(* exception: a list of one has no ";" to tell it from a free-form list.   *)
(***************************************************************************)
PeopleComeBack ==
  LET named == Named(rows)
      back == SplitContributors(JoinContributors(rows))
      typed == {named[i].affiliation : i \in DOMAIN named} \ {Blank}
  IN (Len(named) = 1 => Len(named[1].name) = 1) =>
       /\ [i \in DOMAIN back |-> back[i].name] = [i \in DOMAIN named |-> named[i].name]
       /\ \A i \in DOMAIN named :
            \/ back[i].affiliation = NonBlank(<<named[i].affiliation>>)
            \/ named[i].affiliation = Blank /\ Cardinality(typed) = 1 /\ ToSet(back[i].affiliation) = typed
       /\ JoinContributors([i \in DOMAIN back |-> AsRow(back[i])]) = JoinContributors(rows)
=============================================================================
