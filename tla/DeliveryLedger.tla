---------------------------- MODULE DeliveryLedger ----------------------------
(***************************************************************************)
(* What the Event Platform promises its producers and consumers, without   *)
(* workers, leases or batches: at-least-once delivery with a bounded       *)
(* number of attempts.  EventDelivery implements it.                       *)
(***************************************************************************)
EXTENDS Integers

CONSTANTS Events, Consumers, Wants, WiredEverywhere

VARIABLES
  accepted,   \* events the outbox has taken
  ran,        \* (consumer, event) -> how often the handler ran to its end
  confirmed,  \* (consumer, event) pairs on record as processed
  outcome,    \* event -> "open", "delivered" or "dead_lettered"
  spent       \* events whose attempts are used up

ledger == <<accepted, ran, confirmed, outcome, spent>>

Init ==
  /\ accepted = {}
  /\ ran = [d \in Consumers \X Events |-> 0]
  /\ confirmed = {}
  /\ outcome = [e \in Events |-> "open"]
  /\ spent = {}

Accept(e) ==
  /\ accepted' = accepted \cup {e}
  /\ UNCHANGED <<ran, confirmed, outcome, spent>>

\* A handler may run again for the same event, dead-lettered ones included,
\* but only for an accepted one.
Run(c, e) ==
  /\ e \in accepted
  /\ ran' = [ran EXCEPT ![<<c, e>>] = @ + 1]
  /\ UNCHANGED <<accepted, confirmed, outcome, spent>>

\* A consumer is confirmed only after its handler ran, and for good.
Confirm(c, e) ==
  /\ ran[<<c, e>>] > 0
  /\ confirmed' = confirmed \cup {<<c, e>>}
  /\ UNCHANGED <<accepted, ran, outcome, spent>>

\* Delivered: every consumer that all processes wire at their start and that
\* wants it is confirmed.  A late success may come after the event was given up.
Deliver(e) ==
  /\ e \in accepted
  /\ \A c \in WiredEverywhere : e \in Wants[c] => <<c, e>> \in confirmed
  /\ outcome' = [outcome EXCEPT ![e] = "delivered"]
  /\ UNCHANGED <<accepted, ran, confirmed, spent>>

\* A settled event may be opened to be claimed again (a late worker reports a
\* failure); one whose attempts are used up never is.
Reopen(e) ==
  /\ e \in accepted \ spent
  /\ outcome' = [outcome EXCEPT ![e] = "open"]
  /\ UNCHANGED <<accepted, ran, confirmed, spent>>

\* Given up: the attempts are used up.
Abandon(e) ==
  /\ e \in accepted
  /\ outcome' = [outcome EXCEPT ![e] = "dead_lettered"]
  /\ spent' = spent \cup {e}
  /\ UNCHANGED <<accepted, ran, confirmed>>

Next ==
  \/ \E e \in Events : Accept(e) \/ Deliver(e) \/ Reopen(e) \/ Abandon(e)
  \/ \E c \in Consumers, e \in Events : Run(c, e) \/ Confirm(c, e)

Spec == Init /\ [][Next]_ledger
=============================================================================
