----------------------------- MODULE MailComposer -----------------------------
(***************************************************************************)
(* An administrator's mail to selected users: the dashboard's composer     *)
(* (MailComposer.tsx) with its preview, its confirmation and the key it    *)
(* keeps for sending the same content again, and create_bulk_mail, which   *)
(* queues a batch once per key and content (mailing/admin_routes.py).  A   *)
(* text stands for subject, body and signature; 0 is an incomplete one.    *)
(* The recipients' addresses are one version number.                       *)
(***************************************************************************)
EXTENDS Naturals, Sequences, FiniteSets

CONSTANTS MaxText, MaxComposers, MaxSends, MaxMoves  \* bounds: texts, composers opened, sends,
                                                     \* changes of an address

ASSUME MailAssumption == {MaxText, MaxComposers, MaxSends, MaxMoves} \subseteq Nat

VARIABLES composer,   \* the composer on screen and its state
          opened,     \* composers opened so far
          sent,       \* the sends of all composers: composer, text, key
          posts,      \* sends on their way: text and key
          queued,     \* batches in outbound_deliveries: key, text and address version
          address

mvars == <<composer, opened, sent, posts, queued, address>>

Text == 0..MaxText
MailKey == 0..MaxSends
Composer == [open: BOOLEAN, text: Text, confirming: BOOLEAN, busy: {"no", "preview", "send"},
             lastText: Text, lastKey: MailKey]

MailTypeOK ==
  /\ composer \in Composer /\ opened \in 0..MaxComposers
  /\ sent \in Seq([by: 1..MaxComposers, text: Text, key: MailKey])
  /\ posts \subseteq [text: Text, key: MailKey]
  /\ queued \subseteq [text: Text, key: MailKey, address: 0..MaxMoves] /\ address \in 0..MaxMoves

Blank == [open |-> FALSE, text |-> 0, confirming |-> FALSE, busy |-> "no",
          lastText |-> 0, lastKey |-> 0]

MailInit == /\ composer = Blank /\ opened = 0 /\ sent = <<>> /\ posts = {} /\ queued = {}
            /\ address = 0

OpenComposer == /\ ~composer.open /\ opened < MaxComposers /\ opened' = opened + 1
                /\ composer' = [Blank EXCEPT !.open = TRUE]
                /\ UNCHANGED <<sent, posts, queued, address>>

Cancel == /\ composer.open /\ composer.busy = "no" /\ composer' = Blank
          /\ UNCHANGED <<opened, sent, posts, queued, address>>

(* The fields stay open while a preview or a send is on its way; an edit   *)
(* takes the preview back.                                                 *)
Edit(t) ==
  /\ composer.open /\ t # composer.text
  /\ composer' = [composer EXCEPT !.text = t, !.confirming = FALSE]
  /\ UNCHANGED <<opened, sent, posts, queued, address>>

(* showPreview: the answer puts its preview up whatever was typed since.   *)
ShowPreview ==
  /\ composer.open /\ composer.text # 0 /\ ~composer.confirming /\ composer.busy = "no"
  /\ composer' = [composer EXCEPT !.busy = "preview"]
  /\ UNCHANGED <<opened, sent, posts, queued, address>>

PreviewArrives ==
  /\ composer.busy = "preview"
  /\ composer' = [composer EXCEPT !.busy = "no", !.confirming = TRUE]
  /\ UNCHANGED <<opened, sent, posts, queued, address>>

PreviewFails == /\ composer.busy = "preview"
                /\ composer' = [composer EXCEPT !.busy = "no"]
                /\ UNCHANGED <<opened, sent, posts, queued, address>>

(* send: the same content goes out under the key of the last attempt.      *)
NewKey == Len(sent) + 1
SendKey == IF composer.lastText = composer.text THEN composer.lastKey ELSE NewKey

Send ==
  /\ composer.open /\ composer.text # 0 /\ composer.confirming /\ composer.busy = "no"
  /\ Len(sent) < MaxSends
  /\ composer' = [composer EXCEPT !.busy = "send", !.lastText = composer.text, !.lastKey = SendKey]
  /\ posts' = posts \cup {[text |-> composer.text, key |-> SendKey]}
  /\ sent' = Append(sent, [by |-> opened, text |-> composer.text, key |-> SendKey])
  /\ UNCHANGED <<opened, queued, address>>

Awaiting(r) == composer.busy = "send" /\ composer.lastKey = r.key

(* create_bulk_mail: a key is good for one content, addresses included.    *)
SameKey(r) == {b \in queued: b.key = r.key}
Batch(r) == [text |-> r.text, key |-> r.key, address |-> address]
Handle(r) ==
  /\ posts' = posts \ {r}
  /\ queued' = IF SameKey(r) = {} THEN queued \cup {Batch(r)} ELSE queued
  /\ composer' \in IF ~Awaiting(r) THEN {composer}
                   ELSE {composer, IF SameKey(r) \subseteq {Batch(r)}
                                   THEN Blank ELSE [composer EXCEPT !.busy = "no"]}
  /\ UNCHANGED <<opened, sent, address>>

Refuse(r) == /\ posts' = posts \ {r}
             /\ composer' = IF Awaiting(r) THEN [composer EXCEPT !.busy = "no"] ELSE composer
             /\ UNCHANGED <<opened, sent, queued, address>>

SendLost == /\ composer.busy = "send" /\ composer' = [composer EXCEPT !.busy = "no"]
            /\ UNCHANGED <<opened, sent, posts, queued, address>>

MoveAddress == /\ address < MaxMoves /\ address' = address + 1
               /\ UNCHANGED <<composer, opened, sent, posts, queued>>

MailNext == \/ OpenComposer \/ Cancel \/ ShowPreview \/ PreviewArrives \/ PreviewFails \/ Send
            \/ SendLost \/ MoveAddress
            \/ \E t \in Text: Edit(t)
            \/ \E r \in posts: Handle(r) \/ Refuse(r)

-----------------------------------------------------------------------------
(* A mail that is sent again because no answer came is queued once: two     *)
(* sends of one composer that follow each other with the same content leave *)
(* at most one batch, even if an address changed in between.                *)
ResentMailIsQueuedOnce ==
  \A i \in 2..Len(sent):
    sent[i].by = sent[i - 1].by /\ sent[i].text = sent[i - 1].text =>
      Cardinality({b \in queued: b.key \in {sent[i].key, sent[i - 1].key}}) <= 1
================================================================================
