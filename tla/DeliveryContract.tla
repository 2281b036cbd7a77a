--------------------------- MODULE DeliveryContract ---------------------------
(***************************************************************************)
(* What publishEvent and registerConsumer promise together, without saying *)
(* how: an event whose publish returned is in the consumer's queue, or has *)
(* been handled, or is in the dead-letter queue; it may be handled several *)
(* times.  The one exception is an event accepted before the consumer ever *)
(* declared its queue.                                                     *)
(***************************************************************************)
EXTENDS Naturals

CONSTANTS Events,
          Runs       \* failed handler runs a dead letter stands for

VARIABLES bound,     \* the consumer's queue exists
          open,      \* copies the broker holds and has not settled, by event
          acked,     \* copies settled by an ack
          buried,    \* copies moved to the dead-letter queue
          handled,   \* times the handler's effect took place
          failed,    \* times a run of the handler failed
          missed,    \* events accepted before the queue existed
          promised   \* events whose publishEvent returned

vars == <<bound, open, acked, buried, handled, failed, missed, promised>>

Counters == [Events -> Nat]
Zero == [e \in Events |-> 0]
TypeOK ==
  /\ bound \in BOOLEAN
  /\ open \in Counters /\ acked \in Counters /\ buried \in Counters
  /\ handled \in Counters /\ failed \in Counters
  /\ missed \subseteq Events /\ promised \subseteq Events

Init ==
  /\ bound = FALSE
  /\ open = Zero /\ acked = Zero /\ buried = Zero
  /\ handled = Zero /\ failed = Zero
  /\ missed = {} /\ promised = {}

Accepted(e) == open[e] + acked[e] + buried[e] > 0

Bind ==
  /\ bound' = TRUE
  /\ UNCHANGED <<open, acked, buried, handled, failed, missed, promised>>

Accept(e) ==
  /\ bound
  /\ open' = [open EXCEPT ![e] = @ + 1]
  /\ UNCHANGED <<bound, acked, buried, handled, failed, missed, promised>>
Miss(e) ==
  /\ ~bound
  /\ missed' = missed \cup {e}
  /\ UNCHANGED <<bound, open, acked, buried, handled, failed, promised>>
Promise(e) ==
  /\ Accepted(e) \/ e \in missed
  /\ promised' = promised \cup {e}
  /\ UNCHANGED <<bound, open, acked, buried, handled, failed, missed>>

\* A run takes effect, or fails; some runs do both.
Handle(e) ==
  /\ Accepted(e)
  /\ handled' = [handled EXCEPT ![e] = @ + 1]
  /\ UNCHANGED <<bound, open, acked, buried, failed, missed, promised>>
FailRun(e) ==
  /\ Accepted(e)
  /\ failed' = [failed EXCEPT ![e] = @ + 1]
  /\ UNCHANGED <<bound, open, acked, buried, handled, missed, promised>>

\* Each ack is paid for by an effect, each dead letter by Runs failed runs.
Settle(e) ==
  /\ open[e] > 0 /\ handled[e] > acked[e]
  /\ open' = [open EXCEPT ![e] = @ - 1]
  /\ acked' = [acked EXCEPT ![e] = @ + 1]
  /\ UNCHANGED <<bound, buried, handled, failed, missed, promised>>
Bury(e) ==
  /\ open[e] > 0 /\ failed[e] >= Runs * (buried[e] + 1)
  /\ open' = [open EXCEPT ![e] = @ - 1]
  /\ buried' = [buried EXCEPT ![e] = @ + 1]
  /\ UNCHANGED <<bound, acked, handled, failed, missed, promised>>

Next ==
  \/ Bind
  \/ \E e \in Events : \/ Accept(e) \/ Miss(e) \/ Promise(e) \/ Handle(e)
                       \/ FailRun(e) \/ Settle(e) \/ Bury(e)
Spec == Init /\ [][Next]_vars
=============================================================================
