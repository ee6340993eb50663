-------------------------- MODULE OutboundDelivery --------------------------
(***************************************************************************)
(* The table outbound_deliveries and the operations of                     *)
(* community/deliveries.py on it.  Unlike the job queue, a row has no      *)
(* owner: whoever finds it in "sending" may settle it, and a row that has  *)
(* been in "sending" for five minutes may be claimed again.                *)
(*                                                                         *)
(* Clocks are reduced to the two comparisons of claim_delivery: ready is   *)
(* available_at <= now, stale is updated_at < now - 5 minutes.             *)
(***************************************************************************)
EXTENDS Naturals, FiniteSets

CONSTANTS
    Deliveries,   \* dedupe keys of the rows that may be enqueued
    MaxTries      \* max_attempts of every delivery (5)

ASSUME DeliveryAssumption ==
    /\ IsFiniteSet(Deliveries)
    /\ MaxTries \in Nat \ {0}

VARIABLE out      \* out[d]: the row of d

DeliveryStates == {"absent", "pending", "sending", "completed", "failed"}
DeliveryRow == [state    : DeliveryStates,
                attempts : Nat,            \* may pass MaxTries: see TakeDelivery
                ready    : BOOLEAN,
                stale    : BOOLEAN,
                created  : Nat]            \* rank of created_at

NoRow == [state |-> "absent", attempts |-> 0, ready |-> FALSE, stale |-> FALSE,
          created |-> 0]

(* What an ORM session remembers of a row it loaded.                       *)
LoadedRow == [state : DeliveryStates, attempts : Nat]
Loaded(d) == [state |-> out[d].state, attempts |-> out[d].attempts]
NothingLoaded == [state |-> "absent", attempts |-> 0]

OutTypeOK == out \in [Deliveries -> DeliveryRow]
OutInit == out = [d \in Deliveries |-> NoRow]

Enqueued == {d \in Deliveries : out[d].state # "absent"}

-----------------------------------------------------------------------------
(* enqueue_delivery of each member of S, in one transaction. *)
EnqueueDeliveries(S) ==
    out' = [d \in Deliveries |->
              IF d \in S \ Enqueued
              THEN [NoRow EXCEPT !.state = "pending", !.ready = TRUE,
                                 !.created = Cardinality(Enqueued) + 1]
              ELSE out[d]]

(* Slip: deliveries whose sender died are left alone. *)
ClaimablePending(d) == out[d].state = "pending"

Claimable(d) ==
    \/ out[d].state = "pending"
    \/ out[d].state = "sending" /\ out[d].stale

(* claim_delivery, the SELECT: the oldest candidate ... *)
Candidate(d) == out[d].ready /\ out[d].attempts < MaxTries /\ Claimable(d)
Oldest(d) == Candidate(d) /\ \A e \in Deliveries : Candidate(e) => out[d].created <= out[e].created

(* ... and the UPDATE, which checks the state again but not the rest.      *)
TakeDelivery(d) ==
    /\ Claimable(d)
    /\ out' = [out EXCEPT ![d] = [out[d] EXCEPT !.state = "sending", !.stale = FALSE,
                                                !.attempts = @ + 1]]

CompleteDelivery(d) ==
    out' = IF out[d].state = "sending"
           THEN [out EXCEPT ![d].state = "completed", ![d].stale = FALSE]
           ELSE out

(* Failed(row, terminal): row after the UPDATE of fail_delivery, which     *)
(* matches rows in "sending" only.                                         *)
Failed(row, terminal) ==
    IF row.state = "sending"
    THEN [row EXCEPT !.state = IF terminal THEN "failed" ELSE "pending",
                     !.ready = FALSE, !.stale = FALSE]
    ELSE row

(* resend_delivery through the ORM: a column is written only if its value  *)
(* differs from the one in row, the row as the session loaded it.          *)
Resend(d, row) ==
    out' = [out EXCEPT ![d] =
              [out[d] EXCEPT
                        !.state    = IF row.state = "pending" THEN @ ELSE "pending",
                        !.attempts = IF row.attempts = 0 THEN @ ELSE 0,
                        !.ready = TRUE, !.stale = FALSE]]

-----------------------------------------------------------------------------
GrowsStale(d) ==
    /\ out[d].state = "sending" /\ ~out[d].stale
    /\ out' = [out EXCEPT ![d].stale = TRUE]

RetryDue(d) ==
    /\ out[d].state \in {"pending", "sending"} /\ ~out[d].ready
    /\ out' = [out EXCEPT ![d].ready = TRUE]
=============================================================================
