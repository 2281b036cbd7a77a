------------------------------- MODULE EventBus -------------------------------
(***************************************************************************)
(* One consumer queue of the event bus: services that publish events onto  *)
(* it with publishEvent, the broker, and the one process that consumes it  *)
(* with registerConsumer, over a connection that can be lost.              *)
(*                                                                         *)
(* The broker keeps no order worth a property: prefetch lets handlers of   *)
(* later messages overtake earlier ones, and a requeue changes places, so  *)
(* the queue is a bag.  publishEvent writes JSON only, so the dead-letter  *)
(* path of an unparseable message is never taken.                          *)
(***************************************************************************)
EXTENDS Naturals, FiniteSets

CONSTANTS Events,      \* publishEvent calls; each carries an event of its own
          Retries,     \* publishEvent's retries
          MaxRetries,  \* registerConsumer's maxRetries
          Runners,     \* places for unsettled deliveries: as many as prefetch
                       \* allows, each with its run of the consume callback
          MaxBreaks,   \* bound: connection losses and crashes of the consumer
          None

ASSUME BusAssumption ==
  /\ Retries \in Nat /\ MaxRetries \in Nat /\ MaxBreaks \in Nat
  /\ IsFiniteSet(Runners)

VARIABLES declared,  \* the queue exists and is bound; durable, so for good
          pub,       \* progress of each publishEvent call
          ready,     \* copies in the queue waiting for delivery
          acked,     \* history: copies the broker removed on an ack
          dead,      \* copies in the dead-letter queue
          missed,    \* history: events the broker accepted without a queue
          consumer,  \* where the consumer process and its connection are
          runner,    \* the runs of the consume callback
          handled,   \* history: times the handler's effect took place
          failed,    \* history: times a run of the handler failed
          breaks,    \* history: connection losses and crashes so far
          troubled   \* history: events that met a failure of any kind

vars == <<declared, pub, ready, acked, dead, missed, consumer, runner,
          handled, failed, breaks, troubled>>
-----------------------------------------------------------------------------
\* "cut": connection lost, the 5 s timer runs.  "deaf": reconnected, but only
\* bootstrap registers consumers.  "stranded": the one reconnect failed.
Consumer == {"down", "consuming", "cut", "deaf", "stranded"}
PubState == [pc : {"new", "try", "accepted", "backoff", "confirmed"},
             attempt : 0 .. Retries]
            \cup [pc : {"failed"}, attempt : 0 .. Retries + 1]
\* "acted": the handler took effect and has not returned; "acking" and
\* "rejecting": the callback is over, its answer on the way to the broker.
\* live: the channel the message came from is open.
Run == [pc : {"run", "acted", "backoff", "acking", "rejecting"},
        event : Events, attempt : 0 .. MaxRetries, live : BOOLEAN]
Counters == [Events -> Nat]

ASSUME NoRunAssumption == None \notin Run

TypeOK ==
  /\ declared \in BOOLEAN
  /\ pub \in [Events -> PubState]
  /\ ready \in Counters /\ acked \in Counters /\ dead \in Counters
  /\ missed \subseteq Events
  /\ consumer \in Consumer
  /\ runner \in [Runners -> Run \cup {None}]
  /\ handled \in Counters /\ failed \in Counters
  /\ breaks \in 0 .. MaxBreaks
  /\ troubled \subseteq Events

Busy(k) == runner[k] # None
Live(k) == Busy(k) /\ runner[k].live
LiveOn(e) == {k \in Runners : Live(k) /\ runner[k].event = e}
Open(e) == ready[e] + Cardinality(LiveOn(e))
-----------------------------------------------------------------------------
(* publishEvent *)

Publish(e) ==
  /\ pub[e].pc = "new"
  /\ pub' = [pub EXCEPT ![e].pc = "try"]
  /\ UNCHANGED <<declared, ready, acked, dead, missed, consumer, runner,
                 handled, failed, breaks, troubled>>

\* The exchange routes a copy to the queue, if it is there; without a queue the
\* broker confirms all the same (mandatory is not set).
BrokerAccepts(e) ==
  /\ pub[e].pc = "try"
  /\ pub' = [pub EXCEPT ![e].pc = "accepted"]
  /\ IF declared
     THEN ready' = [ready EXCEPT ![e] = @ + 1] /\ UNCHANGED missed
     ELSE missed' = missed \cup {e} /\ UNCHANGED ready
  /\ UNCHANGED <<declared, acked, dead, consumer, runner, handled, failed,
                 breaks, troubled>>

Confirm(e) ==
  /\ pub[e].pc = "accepted"
  /\ pub' = [pub EXCEPT ![e].pc = "confirmed"]
  /\ UNCHANGED <<declared, ready, acked, dead, missed, consumer, runner,
                 handled, failed, breaks, troubled>>

\* Mutant of PublishFails: the last attempt returns instead of throwing.
PublishGivesUpQuietly(e) ==
  /\ pub[e].pc \in {"try", "accepted"}
  /\ LET attempt == pub[e].attempt + 1 IN
     pub' = [pub EXCEPT ![e] = [pc |-> IF attempt > Retries THEN "confirmed" ELSE "backoff",
                                attempt |-> attempt]]
  /\ troubled' = troubled \cup {e}
  /\ UNCHANGED <<declared, ready, acked, dead, missed, consumer, runner,
                 handled, failed, breaks>>

\* No channel, a nack, or the channel closes before the message or after it:
\* what the broker took stays in the queue, and a retry sends it again.
PublishFails(e) ==
  /\ pub[e].pc \in {"try", "accepted"}
  /\ LET attempt == pub[e].attempt + 1 IN
     pub' = [pub EXCEPT ![e] = [pc |-> IF attempt > Retries THEN "failed" ELSE "backoff",
                                attempt |-> attempt]]
  /\ troubled' = troubled \cup {e}
  /\ UNCHANGED <<declared, ready, acked, dead, missed, consumer, runner,
                 handled, failed, breaks>>

PublishRetries(e) ==
  /\ pub[e].pc = "backoff"
  /\ pub' = [pub EXCEPT ![e].pc = "try"]
  /\ UNCHANGED <<declared, ready, acked, dead, missed, consumer, runner,
                 handled, failed, breaks, troubled>>

\* The publishing process dies, or the publisher's confirm never comes.
PublisherDies(e) ==
  /\ pub[e].pc \in {"try", "accepted", "backoff"}
  /\ pub' = [pub EXCEPT ![e].pc = "failed"]
  /\ troubled' = troubled \cup {e}
  /\ UNCHANGED <<declared, ready, acked, dead, missed, consumer, runner,
                 handled, failed, breaks>>
-----------------------------------------------------------------------------
(* The consumer process and its connection *)

\* bootstrap: connect, registerConsumers.  When that throws the process exits
\* and is started again.
Start ==
  /\ consumer = "down"
  /\ consumer' = "consuming"
  /\ declared' = TRUE
  /\ UNCHANGED <<pub, ready, acked, dead, missed, runner, handled, failed,
                 breaks, troubled>>

\* The broker takes back every delivery of the channel it has not settled.
Requeue ==
  /\ ready' = [e \in Events |-> Open(e)]
  /\ troubled' = troubled \cup {e \in Events : LiveOn(e) # {}}

\* Callbacks in progress go on, on a closed channel; an ack or a reject that
\* has not reached the broker is lost with it.
ConnectionLost ==
  /\ consumer \in {"consuming", "deaf"}
  /\ breaks < MaxBreaks
  /\ breaks' = breaks + 1
  /\ consumer' = "cut"
  /\ Requeue
  /\ runner' = [k \in Runners |->
                  IF ~Busy(k) \/ runner[k].pc \in {"acking", "rejecting"} THEN None
                  ELSE [runner[k] EXCEPT !.live = FALSE]]
  /\ UNCHANGED <<declared, pub, acked, dead, missed, handled, failed>>

\* The timer calls connect once; a failure is logged and that is all.
Reconnect ==
  /\ consumer = "cut"
  /\ consumer' \in {"deaf", "stranded"}
  /\ UNCHANGED <<declared, pub, ready, acked, dead, missed, runner, handled,
                 failed, breaks, troubled>>

Die ==
  /\ consumer' = "down"
  /\ Requeue
  /\ runner' = [k \in Runners |-> None]

Crash ==
  /\ consumer # "down"
  /\ breaks < MaxBreaks
  /\ breaks' = breaks + 1
  /\ Die
  /\ UNCHANGED <<declared, pub, acked, dead, missed, handled, failed>>
-----------------------------------------------------------------------------
(* The consume callback *)

Deliver(k, e) ==
  /\ consumer = "consuming"
  /\ ready[e] > 0
  /\ ~Busy(k)
  /\ ready' = [ready EXCEPT ![e] = @ - 1]
  /\ runner' = [runner EXCEPT ![k] = [pc |-> "run", event |-> e, attempt |-> 0,
                                      live |-> TRUE]]
  /\ UNCHANGED <<declared, pub, acked, dead, missed, consumer, handled, failed,
                 breaks, troubled>>

\* await handler(...): its effect ...
HandlerActs(k) ==
  /\ Busy(k) /\ runner[k].pc = "run"
  /\ runner' = [runner EXCEPT ![k].pc = "acted"]
  /\ handled' = [handled EXCEPT ![runner[k].event] = @ + 1]
  /\ UNCHANGED <<declared, pub, ready, acked, dead, missed, consumer, failed,
                 breaks, troubled>>

\* Mutant of HandlerReturns: the handler is not awaited.
AckWithoutAwait(k) ==
  /\ Live(k) /\ runner[k].pc \in {"run", "acted"}
  /\ runner' = [runner EXCEPT ![k].pc = "acking"]
  /\ UNCHANGED <<declared, pub, ready, acked, dead, missed, consumer, handled,
                 failed, breaks, troubled>>

\* Mutant of HandlerReturns: no return after the ack, the loop goes round.
AckThenLoop(k) ==
  /\ Live(k) /\ runner[k].pc = "acted"
  /\ runner' = [runner EXCEPT ![k].pc = "run"]
  /\ UNCHANGED <<declared, pub, ready, acked, dead, missed, consumer, handled,
                 failed, breaks, troubled>>

\* ... its return, and the ack.
HandlerReturns(k) ==
  /\ Live(k) /\ runner[k].pc = "acted"
  /\ runner' = [runner EXCEPT ![k].pc = "acking"]
  /\ UNCHANGED <<declared, pub, ready, acked, dead, missed, consumer, handled,
                 failed, breaks, troubled>>

\* Mutant of Catch: one retry too many.
CatchOffByOne(k) ==
  /\ Busy(k) /\ runner[k].pc \in {"run", "acted"}
  /\ runner[k].attempt <= MaxRetries
  /\ failed' = [failed EXCEPT ![runner[k].event] = @ + 1]
  /\ runner' = [runner EXCEPT ![k].pc = "backoff", ![k].attempt = @ + 1]
  /\ troubled' = troubled \cup {runner[k].event}
  /\ UNCHANGED <<declared, pub, ready, acked, dead, missed, consumer, handled, breaks>>

\* Mutant of Catch: the last failure returns and answers nothing.
CatchForgetsReject(k) ==
  /\ Busy(k) /\ runner[k].pc \in {"run", "acted"}
  /\ failed' = [failed EXCEPT ![runner[k].event] = @ + 1]
  /\ runner' = [runner EXCEPT
       ![k].pc = IF runner[k].attempt < MaxRetries THEN "backoff" ELSE "returned",
       ![k].attempt = @ + 1]
  /\ troubled' = troubled \cup {runner[k].event}
  /\ UNCHANGED <<declared, pub, ready, acked, dead, missed, consumer, handled, breaks>>

\* The catch block.  It is reached when the handler throws, before or after its
\* effect, and when ack throws since the channel has closed.  Once the retries
\* are used up the message is rejected; on a closed channel reject throws too,
\* out of the callback, and the unhandled rejection ends the process.
Catch(k) ==
  /\ Busy(k) /\ runner[k].pc \in {"run", "acted"}
  /\ failed' = [failed EXCEPT ![runner[k].event] = @ + 1]
  /\ IF runner[k].attempt < MaxRetries
     THEN /\ runner' = [runner EXCEPT ![k].pc = "backoff", ![k].attempt = @ + 1]
          /\ troubled' = troubled \cup {runner[k].event}
          /\ UNCHANGED <<consumer, ready>>
     ELSE IF Live(k)
     THEN /\ runner' = [runner EXCEPT ![k].pc = "rejecting"]
          /\ troubled' = troubled \cup {runner[k].event}
          /\ UNCHANGED <<consumer, ready>>
     ELSE Die
  /\ UNCHANGED <<declared, pub, acked, dead, missed, handled, breaks>>

BackoffEnds(k) ==
  /\ Busy(k) /\ runner[k].pc = "backoff"
  /\ runner' = [runner EXCEPT ![k].pc = "run"]
  /\ UNCHANGED <<declared, pub, ready, acked, dead, missed, consumer, handled,
                 failed, breaks, troubled>>

\* The ack or the reject reaches the broker.
BrokerSettles(k) ==
  /\ Live(k) /\ runner[k].pc \in {"acking", "rejecting"}
  /\ LET e == runner[k].event IN
     IF runner[k].pc = "acking"
     THEN acked' = [acked EXCEPT ![e] = @ + 1] /\ UNCHANGED dead
     ELSE dead' = [dead EXCEPT ![e] = @ + 1] /\ UNCHANGED acked
  /\ runner' = [runner EXCEPT ![k] = None]
  /\ UNCHANGED <<declared, pub, ready, missed, consumer, handled, failed,
                 breaks, troubled>>
-----------------------------------------------------------------------------
Init ==
  /\ declared = FALSE
  /\ pub = [e \in Events |-> [pc |-> "new", attempt |-> 0]]
  /\ ready = [e \in Events |-> 0]
  /\ acked = [e \in Events |-> 0] /\ dead = [e \in Events |-> 0]
  /\ missed = {}
  /\ consumer = "down"
  /\ runner = [k \in Runners |-> None]
  /\ handled = [e \in Events |-> 0] /\ failed = [e \in Events |-> 0]
  /\ breaks = 0 /\ troubled = {}

RunnerStep(k) ==
  \/ HandlerActs(k) \/ HandlerReturns(k) \/ Catch(k)
  \/ BackoffEnds(k) \/ BrokerSettles(k)

Next ==
  \/ \E e \in Events : \/ Publish(e) \/ BrokerAccepts(e) \/ Confirm(e)
                       \/ PublishFails(e) \/ PublishRetries(e) \/ PublisherDies(e)
  \/ Start \/ ConnectionLost \/ Reconnect \/ Crash
  \/ \E k \in Runners : \/ \E e \in Events : Deliver(k, e)
                        \/ RunnerStep(k)

Spec == Init /\ [][Next]_vars

\* A container that exits is restarted (restart: unless-stopped), the timer
\* fires, handlers end one way or the other, the broker delivers to a consumer
\* with room and processes what reaches it.  Publishing is not fair.
FairSpec ==
  /\ Spec
  /\ WF_vars(Start) /\ WF_vars(Reconnect)
  /\ \A k \in Runners : WF_vars(RunnerStep(k))
  /\ \A e \in Events : WF_vars(\E k \in Runners : Deliver(k, e))
-----------------------------------------------------------------------------
(* Implements the contract. *)

Contract == INSTANCE DeliveryContract WITH
  bound <- declared,
  open <- [e \in Events |-> Open(e)],
  buried <- dead,
  promised <- {e \in Events : pub[e].pc = "confirmed"},
  Runs <- MaxRetries + 1

\* Every step of publishers, broker and consumer is a step the contract allows
\* or none of its business: copies are made by the broker only and settled one
\* at a time, each ack paid for by an effect, each dead letter by all the runs.
KeepsContract == Contract!Spec

\* An event whose publishEvent returned has a copy in the queue or with a live
\* channel, or was acked or dead-lettered, unless no queue was there for it
\* (publisher.ts: waits for the confirm, retries; consumer.ts: acks last).
NoConfirmedEventLost ==
  \A e \in Events :
    (pub[e].pc = "confirmed" /\ e \notin missed) =>
      \/ ready[e] > 0 \/ (\E k \in Runners : Live(k) /\ runner[k].event = e)
      \/ acked[e] > 0 \/ dead[e] > 0

\* Handlers need to be idempotent for troubled events only: no publish failed,
\* no handler run failed and no unsettled delivery was cut off, so the effect
\* took place once at most and nothing was dead-lettered.
OnceWithoutTrouble ==
  \A e \in Events \ troubled : handled[e] <= 1 /\ dead[e] = 0 /\ acked[e] <= handled[e]

\* As long as the consumer keeps its connection, whatever it can do to an event
\* that reached its queue ends in an ack or in the dead-letter queue.
Settled(e) == acked[e] > 0 \/ dead[e] > 0
ConnectedConsumerSettles ==
  <>[](consumer = "consuming") =>
    \A e \in Events : ready[e] > 0 ~> Settled(e)

\* What events.md says of a message that keeps failing: "After the final
\* attempt it lands in the DLQ for inspection/replay."  Once an event has failed
\* as many runs as a delivery is given, it is settled, there or by a later ack.
FailedLandsInDLQ == \A e \in Events : failed[e] > MaxRetries ~> Settled(e)
=============================================================================
