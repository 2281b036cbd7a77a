---------------------------- MODULE EventBus_proofs ----------------------------
(***************************************************************************)
(* For any number of events, retries, prefetch places and connection       *)
(* losses: the state keeps its type; no event whose publish returned is    *)
(* lost while its queue exists; an event that met no trouble has its       *)
(* effect once; and the bus implements DeliveryContract.                   *)
(***************************************************************************)
EXTENDS EventBus, FiniteSetTheorems, TLAPS

\* The broker holds a copy of e, or has settled one.
Held(e) ==
  \/ ready[e] > 0 \/ (\E k \in Runners : Live(k) /\ runner[k].event = e)
  \/ acked[e] > 0 \/ dead[e] > 0

\* What makes NoConfirmedEventLost inductive: the broker has its copy from the
\* moment it accepts the event, before the confirm, and copies only ever change
\* hands.
KeptInv ==
  \A e \in Events :
    (pub[e].pc \in {"accepted", "confirmed"} /\ e \notin missed) => Held(e)

ProofInv == TypeOK /\ KeptInv

USE BusAssumption, NoRunAssumption

\* The number of live deliveries of an event is a natural number, and not 0
\* when there is one.
LEMMA LiveCount ==
  ASSUME NEW e \in Events
  PROVE  /\ Cardinality(LiveOn(e)) \in Nat
         /\ LiveOn(e) # {} => Cardinality(LiveOn(e)) > 0
<1>1. IsFiniteSet(LiveOn(e))
  BY FS_Subset DEF LiveOn
<1>. QED BY <1>1, FS_CardinalityType, FS_EmptySet

\* Taking unsettled deliveries back leaves counters in the queue and loses no
\* copy: what was with a live channel is ready again.
LEMMA RequeueFacts ==
  ASSUME TypeOK, Requeue
  PROVE  /\ ready' \in Counters
         /\ troubled' \subseteq Events
         /\ \A e \in Events :
              (ready[e] > 0 \/ (\E k \in Runners : Live(k) /\ runner[k].event = e))
                => ready'[e] > 0
<1>1. \A e \in Events : ready[e] \in Nat
  BY DEF TypeOK, Counters
<1>2. ready' \in Counters
  BY <1>1, LiveCount DEF Requeue, Open, Counters
<1>3. ASSUME NEW e \in Events,
             ready[e] > 0 \/ (\E k \in Runners : Live(k) /\ runner[k].event = e)
      PROVE  ready'[e] > 0
  <2>1. ready'[e] = ready[e] + Cardinality(LiveOn(e))
    BY DEF Requeue, Open
  <2>2. ready[e] > 0 \/ LiveOn(e) # {}
    BY <1>3 DEF LiveOn
  <2>. QED BY <2>1, <2>2, <1>1, LiveCount
<1>. QED BY <1>2, <1>3 DEF Requeue, TypeOK

\* A runner that is busy holds a record of its type.
LEMMA BusyRun ==
  ASSUME TypeOK, NEW k \in Runners, Busy(k)
  PROVE  runner[k] \in Run
BY DEF TypeOK, Busy

-----------------------------------------------------------------------------
\* Publishing keeps the types.
LEMMA PublishTypes ==
  ASSUME TypeOK, NEW e \in Events,
         \/ Publish(e) \/ BrokerAccepts(e) \/ Confirm(e)
         \/ PublishFails(e) \/ PublishRetries(e) \/ PublisherDies(e)
  PROVE  TypeOK'
<1>1. pub[e] \in PubState
  BY DEF TypeOK
<1>2. CASE Publish(e)
  BY <1>1, <1>2 DEF Publish, TypeOK, PubState
<1>3. CASE BrokerAccepts(e)
  BY <1>1, <1>3 DEF BrokerAccepts, TypeOK, PubState, Counters
<1>4. CASE Confirm(e)
  BY <1>1, <1>4 DEF Confirm, TypeOK, PubState
<1>5. CASE PublishFails(e)
  <2>1. pub[e].attempt \in 0 .. Retries
    BY <1>1, <1>5 DEF PubState, PublishFails
  <2>2. PICK s \in PubState : pub' = [pub EXCEPT ![e] = s]
    <3>1. CASE pub[e].attempt + 1 > Retries
      <4>1. [pc |-> "failed", attempt |-> pub[e].attempt + 1] \in PubState
        BY <2>1 DEF PubState
      <4>. QED BY <4>1, <3>1, <1>5 DEF PublishFails
    <3>2. CASE ~(pub[e].attempt + 1 > Retries)
      <4>1. [pc |-> "backoff", attempt |-> pub[e].attempt + 1] \in PubState
        BY <2>1, <3>2 DEF PubState
      <4>. QED BY <4>1, <3>2, <1>5 DEF PublishFails
    <3>. QED BY <3>1, <3>2
  <2>3. pub' \in [Events -> PubState]
    BY <2>2 DEF TypeOK
  <2>. QED BY <1>5, <2>3 DEF PublishFails, TypeOK
<1>6. CASE PublishRetries(e)
  BY <1>1, <1>6 DEF PublishRetries, TypeOK, PubState
<1>7. CASE PublisherDies(e)
  BY <1>1, <1>7 DEF PublisherDies, TypeOK, PubState
<1>. QED BY <1>2, <1>3, <1>4, <1>5, <1>6, <1>7

\* So do the consumer process and its connection.
LEMMA ConsumerTypes ==
  ASSUME TypeOK, Start \/ ConnectionLost \/ Reconnect \/ Crash
  PROVE  TypeOK'
<1>1. CASE Start
  BY <1>1 DEF Start, TypeOK, Consumer
<1>2. CASE ConnectionLost
  <2>1. runner' \in [Runners -> Run \cup {None}]
    <3>1. ASSUME NEW k \in Runners, Busy(k)
          PROVE  [runner[k] EXCEPT !.live = FALSE] \in Run
      <4>1. runner[k] \in Run
        BY <3>1, BusyRun
      <4>. QED BY <4>1 DEF Run
    <3>. QED BY <1>2, <3>1 DEF ConnectionLost
  <2>2. breaks' \in 0 .. MaxBreaks
    BY <1>2 DEF ConnectionLost, TypeOK
  <2>3. ready' \in Counters /\ troubled' \subseteq Events
    BY <1>2, RequeueFacts DEF ConnectionLost
  <2>. QED BY <1>2, <2>1, <2>2, <2>3 DEF ConnectionLost, TypeOK, Consumer
<1>3. CASE Reconnect
  BY <1>3 DEF Reconnect, TypeOK, Consumer
<1>4. CASE Crash
  <2>1. ready' \in Counters /\ troubled' \subseteq Events
    BY <1>4, RequeueFacts DEF Crash, Die
  <2>2. runner' \in [Runners -> Run \cup {None}]
    BY <1>4 DEF Crash, Die
  <2>3. breaks' \in 0 .. MaxBreaks
    BY <1>4 DEF Crash, TypeOK
  <2>. QED BY <1>4, <2>1, <2>2, <2>3 DEF Crash, Die, TypeOK, Consumer
<1>. QED BY <1>1, <1>2, <1>3, <1>4

\* So does the consume callback.
LEMMA RunnerTypes ==
  ASSUME TypeOK, NEW k \in Runners, RunnerStep(k)
  PROVE  TypeOK'
<1>1. runner[k] \in Run
  BY BusyRun DEF RunnerStep, HandlerActs, HandlerReturns, Catch, BackoffEnds,
                 BrokerSettles, Live
<1>2. PICK e \in Events, n \in 0 .. MaxRetries :
        runner[k].event = e /\ runner[k].attempt = n
  BY <1>1 DEF Run
<1>3. CASE HandlerActs(k)
  <2>1. [runner[k] EXCEPT !.pc = "acted"] \in Run
    BY <1>1 DEF Run
  <2>2. handled' \in Counters
    BY <1>2, <1>3 DEF HandlerActs, TypeOK, Counters
  <2>. QED BY <1>3, <2>1, <2>2 DEF HandlerActs, TypeOK
<1>4. CASE HandlerReturns(k)
  <2>1. [runner[k] EXCEPT !.pc = "acking"] \in Run
    BY <1>1 DEF Run
  <2>. QED BY <1>4, <2>1 DEF HandlerReturns, TypeOK
<1>5. CASE Catch(k)
  <2>1. failed' \in Counters
    BY <1>2, <1>5 DEF Catch, TypeOK, Counters
  <2>2. CASE runner[k].attempt < MaxRetries
    <3>1. [runner[k] EXCEPT !.pc = "backoff", !.attempt = @ + 1] \in Run
      <4>1. n + 1 \in 0 .. MaxRetries
        BY <1>2, <2>2
      <4>2. [runner[k] EXCEPT !.pc = "backoff", !.attempt = n + 1] \in Run
        BY <1>1, <4>1 DEF Run
      <4>. QED BY <1>2, <4>2
    <3>2. runner' \in [Runners -> Run \cup {None}] /\ troubled' \subseteq Events
      BY <1>2, <1>5, <2>2, <3>1 DEF Catch, TypeOK
    <3>. QED BY <1>5, <2>1, <2>2, <3>2 DEF Catch, TypeOK
  <2>3. CASE ~(runner[k].attempt < MaxRetries) /\ Live(k)
    <3>1. [runner[k] EXCEPT !.pc = "rejecting"] \in Run
      BY <1>1 DEF Run
    <3>. QED BY <1>2, <1>5, <2>1, <2>3, <3>1 DEF Catch, TypeOK
  <2>4. CASE ~(runner[k].attempt < MaxRetries) /\ ~Live(k)
    <3>1. Die
      BY <1>5, <2>4 DEF Catch
    <3>2. ready' \in Counters /\ troubled' \subseteq Events
      BY <3>1, RequeueFacts DEF Die
    <3>3. runner' \in [Runners -> Run \cup {None}] /\ consumer' \in Consumer
      BY <3>1 DEF Die, Consumer
    <3>. QED BY <1>5, <2>1, <3>2, <3>3 DEF Catch, TypeOK
  <2>. QED BY <2>2, <2>3, <2>4
<1>6. CASE BackoffEnds(k)
  <2>1. [runner[k] EXCEPT !.pc = "run"] \in Run
    BY <1>1 DEF Run
  <2>. QED BY <1>6, <2>1 DEF BackoffEnds, TypeOK
<1>7. CASE BrokerSettles(k)
  <2>1. acked' \in Counters /\ dead' \in Counters
    BY <1>2, <1>7 DEF BrokerSettles, TypeOK, Counters
  <2>2. runner' \in [Runners -> Run \cup {None}]
    BY <1>7 DEF BrokerSettles, TypeOK
  <2>. QED BY <1>7, <2>1, <2>2 DEF BrokerSettles, TypeOK
<1>. QED BY <1>3, <1>4, <1>5, <1>6, <1>7 DEF RunnerStep

\* And the delivery of a message.
LEMMA DeliverTypes ==
  ASSUME TypeOK, NEW k \in Runners, NEW e \in Events, Deliver(k, e)
  PROVE  TypeOK'
<1>1. [pc |-> "run", event |-> e, attempt |-> 0, live |-> TRUE] \in Run
  BY DEF Run
<1>2. ready' \in Counters
  BY DEF Deliver, TypeOK, Counters
<1>. QED BY <1>1, <1>2 DEF Deliver, TypeOK

\* The state of publishers, broker and consumer keeps its type (TypeOK).
THEOREM TypeCorrect == Spec => []TypeOK
<1>1. Init => TypeOK
  <2>1. [pc |-> "new", attempt |-> 0] \in PubState
    BY DEF PubState
  <2>2. ASSUME Init PROVE pub \in [Events -> PubState]
    BY <2>1, <2>2 DEF Init
  <2>3. ASSUME Init
        PROVE  ready \in Counters /\ acked \in Counters /\ dead \in Counters
               /\ handled \in Counters /\ failed \in Counters
    BY <2>3 DEF Init, Counters
  <2>4. ASSUME Init
        PROVE  /\ declared \in BOOLEAN /\ missed \subseteq Events
               /\ consumer \in Consumer /\ troubled \subseteq Events
    BY <2>4 DEF Init, Consumer
  <2>5. ASSUME Init PROVE breaks \in 0 .. MaxBreaks
    BY <2>5 DEF Init
  <2>6. ASSUME Init PROVE runner \in [Runners -> Run \cup {None}]
    BY <2>6, Zenon DEF Init
  <2>. QED BY <2>2, <2>3, <2>4, <2>5, <2>6 DEF TypeOK
<1>2. TypeOK /\ [Next]_vars => TypeOK'
  <2>1. ASSUME TypeOK, Next PROVE TypeOK'
    BY <2>1, PublishTypes, ConsumerTypes, RunnerTypes, DeliverTypes DEF Next
  <2>2. ASSUME TypeOK, UNCHANGED vars PROVE TypeOK'
    BY <2>2 DEF TypeOK, vars
  <2>. QED BY <2>1, <2>2
<1>. QED BY <1>1, <1>2, PTL DEF Spec
-----------------------------------------------------------------------------
\* No step of a publisher loses a copy; acceptance makes one, or finds no queue.
LEMMA PublishKeeps ==
  ASSUME TypeOK, KeptInv, NEW e \in Events,
         \/ Publish(e) \/ BrokerAccepts(e) \/ Confirm(e)
         \/ PublishFails(e) \/ PublishRetries(e) \/ PublisherDies(e)
  PROVE  KeptInv'
<1>1. \A f \in Events : pub[f] \in PubState /\ ready[f] \in Nat
  BY DEF TypeOK, Counters
<1>2. ASSUME NEW f \in Events, f # e
      PROVE  pub'[f] = pub[f]
  BY <1>2 DEF TypeOK, Publish, BrokerAccepts, Confirm, PublishFails,
              PublishRetries, PublisherDies
<1>3. missed \subseteq missed'
  BY DEF Publish, BrokerAccepts, Confirm, PublishFails, PublishRetries, PublisherDies
<1>4. ASSUME NEW f \in Events, Held(f)
      PROVE  Held(f)'
  <2>1. UNCHANGED <<acked, dead, runner>>
    BY DEF Publish, BrokerAccepts, Confirm, PublishFails, PublishRetries, PublisherDies
  <2>2. ready[f] > 0 => ready'[f] > 0
    BY <1>1 DEF Publish, BrokerAccepts, Confirm, PublishFails, PublishRetries,
                PublisherDies, TypeOK, Counters
  <2>. QED BY <1>4, <2>1, <2>2 DEF Held, Live, Busy
<1>5. ASSUME pub'[e].pc \in {"accepted", "confirmed"}, e \notin missed'
      PROVE  Held(e)'
  <2>1. CASE BrokerAccepts(e)
    BY <1>1, <1>5, <2>1 DEF BrokerAccepts, Held, TypeOK, Counters
  <2>2. CASE Confirm(e)
    BY <1>3, <1>4, <1>5, <2>2 DEF Confirm, KeptInv
  <2>3. CASE Publish(e) \/ PublishFails(e) \/ PublishRetries(e) \/ PublisherDies(e)
    <3>1. pub'[e].pc \in {"try", "backoff", "failed"}
      BY <1>1, <2>3 DEF Publish, PublishFails, PublishRetries, PublisherDies,
                        TypeOK, PubState
    <3>. QED BY <1>5, <3>1
  <2>. QED BY <2>1, <2>2, <2>3
<1>6. ASSUME NEW f \in Events, f # e,
             pub'[f].pc \in {"accepted", "confirmed"}, f \notin missed'
      PROVE  Held(f)'
  BY <1>2, <1>3, <1>4, <1>6 DEF KeptInv
<1>. QED BY <1>5, <1>6 DEF KeptInv

\* A step that leaves the publishers alone keeps the invariant when it lets no
\* event go that was held.
LEMMA HeldIsEnough ==
  ASSUME KeptInv, UNCHANGED <<pub, missed>>,
         \A e \in Events : Held(e) => Held(e)'
  PROVE  KeptInv'
BY DEF KeptInv

\* When every delivery is requeued no event is let go.
LEMMA RequeueHolds ==
  ASSUME TypeOK, Requeue, UNCHANGED <<acked, dead>>, NEW e \in Events, Held(e)
  PROVE  Held(e)'
<1>1. \/ ready'[e] > 0 \/ acked'[e] > 0 \/ dead'[e] > 0
  BY RequeueFacts DEF Held
<1>. QED BY <1>1 DEF Held

\* A runner that changes its own progress only, and keeps message and channel,
\* lets no event go.
LEMMA RunnerHolds ==
  ASSUME TypeOK, NEW k \in Runners, Busy(k), NEW s \in Run,
         s.event = runner[k].event, s.live = runner[k].live,
         runner' = [runner EXCEPT ![k] = s],
         UNCHANGED <<ready, acked, dead>>, NEW e \in Events, Held(e)
  PROVE  Held(e)'
<1>1. UNCHANGED Live(k)
  BY DEF Live, Busy, TypeOK
<1>2. \A j \in Runners : Live(j) => Live(j)' /\ runner'[j].event = runner[j].event
  BY <1>1 DEF Live, Busy, TypeOK
<1>. QED BY <1>2 DEF Held

\* Neither does any step of the callback: the broker settles the copy it holds,
\* and the death of the process requeues it.
LEMMA RunnerStepHolds ==
  ASSUME TypeOK, NEW k \in Runners, RunnerStep(k), NEW e \in Events, Held(e)
  PROVE  Held(e)'
<1>1. Busy(k) /\ runner[k] \in Run
  BY BusyRun DEF RunnerStep, HandlerActs, HandlerReturns, Catch, BackoffEnds,
                 BrokerSettles, Live
<1>2. CASE HandlerActs(k)
  <2>1. PICK s \in Run : s = [runner[k] EXCEPT !.pc = "acted"]
    BY <1>1 DEF Run
  <2>2. s.event = runner[k].event /\ s.live = runner[k].live
    BY <2>1, <1>1 DEF Run
  <2>3. runner' = [runner EXCEPT ![k] = s] /\ UNCHANGED <<ready, acked, dead>>
    BY <2>1, <1>2 DEF HandlerActs
  <2>. QED BY <1>1, <2>2, <2>3, RunnerHolds
<1>3. CASE HandlerReturns(k)
  <2>1. PICK s \in Run : s = [runner[k] EXCEPT !.pc = "acking"]
    BY <1>1 DEF Run
  <2>2. s.event = runner[k].event /\ s.live = runner[k].live
    BY <2>1, <1>1 DEF Run
  <2>3. runner' = [runner EXCEPT ![k] = s] /\ UNCHANGED <<ready, acked, dead>>
    BY <2>1, <1>3 DEF HandlerReturns
  <2>. QED BY <1>1, <2>2, <2>3, RunnerHolds
<1>4. CASE Catch(k)
  <2>1. CASE runner[k].attempt < MaxRetries
    <3>1. PICK s \in Run :
            s = [runner[k] EXCEPT !.pc = "backoff", !.attempt = runner[k].attempt + 1]
      <4>1. runner[k].attempt + 1 \in 0 .. MaxRetries
        BY <1>1, <2>1 DEF Run
      <4>. QED BY <1>1, <4>1 DEF Run
    <3>2. s.event = runner[k].event /\ s.live = runner[k].live
      BY <3>1, <1>1 DEF Run
    <3>3. runner' = [runner EXCEPT ![k] = s] /\ UNCHANGED <<ready, acked, dead>>
      BY <3>1, <1>4, <2>1 DEF Catch
    <3>. QED BY <1>1, <3>2, <3>3, RunnerHolds
  <2>2. CASE ~(runner[k].attempt < MaxRetries) /\ Live(k)
    <3>1. PICK s \in Run : s = [runner[k] EXCEPT !.pc = "rejecting"]
      BY <1>1 DEF Run
    <3>2. s.event = runner[k].event /\ s.live = runner[k].live
      BY <3>1, <1>1 DEF Run
    <3>3. runner' = [runner EXCEPT ![k] = s] /\ UNCHANGED <<ready, acked, dead>>
      BY <3>1, <1>4, <2>2 DEF Catch
    <3>. QED BY <1>1, <3>2, <3>3, RunnerHolds
  <2>3. CASE ~(runner[k].attempt < MaxRetries) /\ ~Live(k)
    <3>1. Requeue /\ UNCHANGED <<acked, dead>>
      BY <1>4, <2>3 DEF Catch, Die
    <3>. QED BY <3>1, RequeueHolds
  <2>. QED BY <2>1, <2>2, <2>3
<1>5. CASE BackoffEnds(k)
  <2>1. PICK s \in Run : s = [runner[k] EXCEPT !.pc = "run"]
    BY <1>1 DEF Run
  <2>2. s.event = runner[k].event /\ s.live = runner[k].live
    BY <2>1, <1>1 DEF Run
  <2>3. runner' = [runner EXCEPT ![k] = s] /\ UNCHANGED <<ready, acked, dead>>
    BY <2>1, <1>5 DEF BackoffEnds
  <2>. QED BY <1>1, <2>2, <2>3, RunnerHolds
<1>6. CASE BrokerSettles(k)
  <2>1. acked[e] \in Nat /\ dead[e] \in Nat /\ runner[k].event \in Events
    BY <1>1 DEF TypeOK, Counters, Run
  <2>2. /\ acked[e] > 0 => acked'[e] > 0
        /\ dead[e] > 0 => dead'[e] > 0
        /\ ready' = ready
    BY <1>6, <2>1 DEF BrokerSettles, TypeOK, Counters
  <2>3. CASE runner[k].event = e
    <3>1. acked'[e] > 0 \/ dead'[e] > 0
      BY <1>6, <2>1, <2>3 DEF BrokerSettles, TypeOK, Counters
    <3>. QED BY <3>1 DEF Held
  <2>4. CASE runner[k].event # e
    <3>1. \A j \in Runners \ {k} : runner'[j] = runner[j]
      BY <1>6 DEF BrokerSettles, TypeOK
    <3>2. \A j \in Runners :
            (Live(j) /\ runner[j].event = e)
              => (Live(j) /\ runner[j].event = e)'
      BY <2>4, <3>1 DEF Live, Busy
    <3>. QED BY <2>2, <3>2 DEF Held
  <2>. QED BY <2>3, <2>4
<1>. QED BY <1>2, <1>3, <1>4, <1>5, <1>6 DEF RunnerStep

\* A delivery moves a copy from the queue to a live channel.
LEMMA DeliverHolds ==
  ASSUME TypeOK, NEW k \in Runners, NEW f \in Events, Deliver(k, f),
         NEW e \in Events, Held(e)
  PROVE  Held(e)'
<1>1. /\ ~Busy(k)
      /\ runner' = [runner EXCEPT ![k] = [pc |-> "run", event |-> f, attempt |-> 0,
                                          live |-> TRUE]]
      /\ ready' = [ready EXCEPT ![f] = @ - 1]
      /\ UNCHANGED <<acked, dead>>
  BY DEF Deliver
<1>2. CASE e = f
  <2>1. [pc |-> "run", event |-> f, attempt |-> 0, live |-> TRUE] \in Run
    BY DEF Run
  <2>2. runner'[k] \in Run /\ runner'[k].live /\ runner'[k].event = e
    BY <1>1, <1>2, <2>1 DEF TypeOK
  <2>3. (Live(k) /\ runner[k].event = e)'
    BY <2>2 DEF Live, Busy
  <2>. QED BY <2>3 DEF Held
<1>3. CASE e # f
  <2>1. ready'[e] = ready[e]
    BY <1>1, <1>3 DEF TypeOK, Counters
  <2>2. \A j \in Runners :
          (Live(j) /\ runner[j].event = e) => (Live(j) /\ runner[j].event = e)'
    BY <1>1 DEF Live, Busy, TypeOK
  <2>. QED BY <1>1, <2>1, <2>2 DEF Held
<1>. QED BY <1>2, <1>3

\* The invariant is inductive.
LEMMA KeptInvInductive == ProofInv /\ [Next]_vars => KeptInv'
<1>. SUFFICES ASSUME TypeOK, KeptInv, [Next]_vars PROVE KeptInv'
  BY DEF ProofInv
<1>1. ASSUME NEW e \in Events,
             \/ Publish(e) \/ BrokerAccepts(e) \/ Confirm(e)
             \/ PublishFails(e) \/ PublishRetries(e) \/ PublisherDies(e)
      PROVE  KeptInv'
  BY <1>1, PublishKeeps
<1>2. CASE Start \/ Reconnect \/ UNCHANGED vars
  <2>1. UNCHANGED <<pub, missed, ready, runner, acked, dead>>
    BY <1>2 DEF Start, Reconnect, vars
  <2>. QED BY <2>1, HeldIsEnough DEF Held, Live, Busy
<1>3. CASE ConnectionLost \/ Crash
  <2>1. Requeue /\ UNCHANGED <<pub, missed, acked, dead>>
    BY <1>3 DEF ConnectionLost, Crash, Die
  <2>. QED BY <2>1, RequeueHolds, HeldIsEnough
<1>4. ASSUME NEW k \in Runners, RunnerStep(k)
      PROVE  KeptInv'
  <2>1. UNCHANGED <<pub, missed>>
    BY <1>4 DEF RunnerStep, HandlerActs, HandlerReturns, Catch, BackoffEnds, BrokerSettles
  <2>. QED BY <1>4, <2>1, RunnerStepHolds, HeldIsEnough
<1>5. ASSUME NEW k \in Runners, NEW e \in Events, Deliver(k, e)
      PROVE  KeptInv'
  <2>1. UNCHANGED <<pub, missed>>
    BY <1>5 DEF Deliver
  <2>. QED BY <1>5, <2>1, DeliverHolds, HeldIsEnough
<1>. QED BY <1>1, <1>2, <1>3, <1>4, <1>5 DEF Next

\* However many events, retries, connection losses and crashes: an event whose
\* publishEvent returned, with the queue there, is in the queue, with a live
\* channel, acked or dead-lettered (NoConfirmedEventLost).
THEOREM ConfirmedEventsAreKept == Spec => []NoConfirmedEventLost
<1>1. Init => KeptInv
  BY DEF Init, KeptInv
<1>2. ProofInv => NoConfirmedEventLost
  BY DEF ProofInv, KeptInv, NoConfirmedEventLost, Held
<1>3. TypeOK /\ KeptInv /\ [Next]_vars => KeptInv'
  BY KeptInvInductive DEF ProofInv
<1>4. TypeOK /\ KeptInv => NoConfirmedEventLost
  BY <1>2 DEF ProofInv
<1>. QED BY <1>1, <1>3, <1>4, TypeCorrect, PTL DEF Spec
-----------------------------------------------------------------------------
(* Effects of an event that met no trouble *)

RunsOn(e) == {k \in Runners : Busy(k) /\ runner[k].event = e}

\* The one copy of an untroubled event: not there yet, or gone where no queue was;
\* in the queue; with a run of the callback, which has acted once or not yet; acked.
Untouched(e) == ready[e] = 0 /\ RunsOn(e) = {} /\ acked[e] = 0 /\ handled[e] = 0
Queued(e) == ready[e] = 1 /\ RunsOn(e) = {} /\ acked[e] = 0 /\ handled[e] = 0
Running(e) ==
  /\ ready[e] = 0 /\ acked[e] = 0
  /\ \E k \in Runners :
       /\ RunsOn(e) = {k}
       /\ runner[k].live /\ runner[k].pc \in {"run", "acted", "acking"}
       /\ handled[e] = IF runner[k].pc = "run" THEN 0 ELSE 1
Done(e) == ready[e] = 0 /\ RunsOn(e) = {} /\ acked[e] = 1 /\ handled[e] = 1

OnceHeld(e) ==
  e \notin troubled =>
    /\ dead[e] = 0
    /\ \/ pub[e].pc \in {"new", "try"} /\ Untouched(e)
       \/ /\ pub[e].pc \in {"accepted", "confirmed"}
          /\ Untouched(e) \/ Queued(e) \/ Running(e) \/ Done(e)
OnceInv == \A e \in Events : OnceHeld(e)

\* A step that leaves the copies of an event alone.
LEMMA OnceElsewhere ==
  ASSUME NEW e \in Events, OnceHeld(e), troubled \subseteq troubled',
         ready'[e] = ready[e], acked'[e] = acked[e], dead'[e] = dead[e],
         handled'[e] = handled[e], pub'[e] = pub[e],
         \A k \in Runners : runner'[k] = runner[k] \/
           /\ Busy(k) => runner[k].event # e
           /\ runner'[k] # None => runner'[k].event # e
  PROVE  OnceHeld(e)'
<1>1. RunsOn(e)' = RunsOn(e) /\ \A k \in RunsOn(e) : runner'[k] = runner[k]
  BY DEF RunsOn, Busy
<1>2. /\ Untouched(e)' <=> Untouched(e)
      /\ Queued(e)' <=> Queued(e)
      /\ Done(e)' <=> Done(e)
  BY <1>1 DEF Untouched, Queued, Done
<1>3. Running(e) => Running(e)'
  BY <1>1 DEF Running
<1>. QED BY <1>2, <1>3 DEF OnceHeld

\* The publishers: the one copy is made when the broker accepts the event.
LEMMA OncePublish ==
  ASSUME TypeOK, OnceInv, NEW e \in Events,
         \/ Publish(e) \/ BrokerAccepts(e) \/ Confirm(e)
         \/ PublishFails(e) \/ PublishRetries(e) \/ PublisherDies(e)
  PROVE  OnceInv'
<1>1. /\ UNCHANGED <<acked, dead, handled, runner>> /\ troubled \subseteq troubled'
      /\ \A f \in Events \ {e} : pub'[f] = pub[f] /\ ready'[f] = ready[f]
  BY DEF TypeOK, Counters, Publish, BrokerAccepts, Confirm, PublishFails, PublishRetries,
         PublisherDies
<1>2. \A f \in Events \ {e} : OnceHeld(f)'
  BY <1>1, OnceElsewhere DEF OnceInv
<1>3. OnceHeld(e)'
  <2>1. RunsOn(e)' = RunsOn(e)
    BY <1>1 DEF RunsOn, Busy
  <2>2. pub[e] \in PubState /\ ready \in Counters /\ pub \in [Events -> PubState]
    BY DEF TypeOK
  <2>3. CASE Publish(e) \/ BrokerAccepts(e)
    <3>1. /\ troubled' = troubled /\ ready'[e] \in {0 + ready[e], 1 + ready[e]}
          /\ pub[e].pc \in {"new", "try"}
          /\ \/ pub'[e].pc = "try" /\ ready'[e] = ready[e]
             \/ pub'[e].pc = "accepted"
      BY <2>2, <2>3 DEF Publish, BrokerAccepts, PubState, Counters
    <3>2. ASSUME e \notin troubled PROVE dead[e] = 0 /\ Untouched(e)
      BY <3>1, <3>2 DEF OnceInv, OnceHeld
    <3>3. e \notin troubled => (ready'[e] = 0 => Untouched(e)') /\ (ready'[e] = 1 => Queued(e)')
      BY <1>1, <2>1, <3>2 DEF Untouched, Queued
    <3>. QED BY <1>1, <3>1, <3>2, <3>3 DEF OnceHeld, Untouched
  <2>4. CASE Confirm(e)
    <3>1. /\ UNCHANGED <<troubled, ready>> /\ pub[e].pc = "accepted" /\ pub'[e].pc = "confirmed"
      BY <2>2, <2>4 DEF Confirm, PubState
    <3>2. /\ Untouched(e)' = Untouched(e) /\ Queued(e)' = Queued(e)
          /\ Running(e)' = Running(e) /\ Done(e)' = Done(e)
      BY <1>1, <2>1, <3>1 DEF Untouched, Queued, Running, Done
    <3>. QED BY <1>1, <3>1, <3>2 DEF OnceInv, OnceHeld
  <2>5. CASE PublishFails(e) \/ PublisherDies(e)
    BY <2>5 DEF PublishFails, PublisherDies, OnceHeld
  <2>6. CASE PublishRetries(e)
    <3>1. e \in troubled
      BY <2>6 DEF PublishRetries, OnceInv, OnceHeld
    <3>. QED BY <1>1, <3>1 DEF OnceHeld
  <2>. QED BY <2>3, <2>4, <2>5, <2>6
<1>. QED BY <1>2, <1>3 DEF OnceInv

\* Deliveries taken back: an event with none of them stands as it did.
LEMMA OnceRequeue ==
  ASSUME TypeOK, OnceInv, Requeue, UNCHANGED <<pub, acked, dead, handled>>,
         \A k \in Runners : runner'[k] # None => Busy(k) /\ runner'[k].event = runner[k].event
  PROVE  OnceInv'
<1>. SUFFICES ASSUME NEW e \in Events, e \notin troubled' PROVE OnceHeld(e)'
  BY DEF OnceInv, OnceHeld
<1>1. e \notin troubled /\ LiveOn(e) = {} /\ ready'[e] = Open(e)
  BY DEF Requeue
<1>2. ready[e] \in Nat /\ ready'[e] = ready[e]
  BY <1>1, FS_EmptySet DEF Open, TypeOK, Counters
<1>3. ~Running(e)
  BY <1>1 DEF Running, LiveOn, Live, RunsOn
<1>4. RunsOn(e) = {} => RunsOn(e)' = {}
  BY DEF RunsOn, Busy
<1>5. Untouched(e) => Untouched(e)'
  BY <1>2, <1>4 DEF Untouched
<1>6. Queued(e) => Queued(e)'
  BY <1>2, <1>4 DEF Queued
<1>7. Done(e) => Done(e)'
  BY <1>2, <1>4 DEF Done
<1>8. OnceHeld(e) /\ dead'[e] = dead[e] /\ pub'[e] = pub[e]
  BY DEF OnceInv
<1>. QED BY <1>1, <1>3, <1>5, <1>6, <1>7, <1>8 DEF OnceHeld

\* A delivery hands the one copy to a run.
LEMMA OnceDeliver ==
  ASSUME TypeOK, OnceInv, NEW k \in Runners, NEW e \in Events, Deliver(k, e)
  PROVE  OnceInv'
<1>0. [pc |-> "run", event |-> e, attempt |-> 0, live |-> TRUE] \in Run
  BY DEF Run
<1>. PICK s \in Run : s = [pc |-> "run", event |-> e, attempt |-> 0, live |-> TRUE]
  BY <1>0
<1>1. s.pc = "run" /\ s.event = e /\ s.live /\ s # None
  OBVIOUS
<1>2. /\ ~Busy(k) /\ ready[e] > 0 /\ ready' = [ready EXCEPT ![e] = @ - 1]
      /\ runner' = [runner EXCEPT ![k] = s]
      /\ UNCHANGED <<pub, acked, dead, handled, troubled>>
  BY DEF Deliver
<1>3. /\ ready'[e] = ready[e] - 1 /\ ready[e] \in Nat
      /\ \A f \in Events \ {e} : ready'[f] = ready[f]
      /\ runner'[k] = s /\ \A j \in Runners \ {k} : runner'[j] = runner[j]
  BY <1>2 DEF TypeOK, Counters
<1>4. \A f \in Events \ {e} : OnceHeld(f)'
  BY <1>1, <1>2, <1>3, OnceElsewhere DEF OnceInv
<1>5. OnceHeld(e)'
  <2>. SUFFICES ASSUME e \notin troubled
                PROVE  dead[e] = 0 /\ pub[e].pc \in {"accepted", "confirmed"} /\ Running(e)'
    BY <1>2 DEF OnceHeld
  <2>1. dead[e] = 0 /\ pub[e].pc \in {"accepted", "confirmed"} /\ Queued(e)
    BY <1>2 DEF OnceInv, OnceHeld, Untouched, Running, Done
  <2>2. RunsOn(e)' = {k}
    <3>1. RunsOn(e) = {}
      BY <2>1 DEF Queued
    <3>2. k \in RunsOn(e)'
      BY <1>1, <1>3 DEF RunsOn, Busy
    <3>. QED BY <1>3, <3>1, <3>2 DEF RunsOn, Busy
  <2>. QED BY <1>1, <1>2, <1>3, <2>1, <2>2 DEF Queued, Running
<1>. QED BY <1>4, <1>5 DEF OnceInv

\* A run that moves on, with the message and the channel it has.
LEMMA OnceRun ==
  ASSUME TypeOK, OnceInv, NEW k \in Runners, Busy(k), NEW e \in Events, NEW s \in Run,
         e = runner[k].event, s.event = e, s.live = runner[k].live,
         runner' = [runner EXCEPT ![k] = s],
         UNCHANGED <<pub, ready, acked, dead>>, troubled \subseteq troubled',
         \A f \in Events \ {e} : handled'[f] = handled[f],
         e \notin troubled' =>
           \/ /\ s.pc \in {"acted", "acking"} /\ handled'[e] = handled[e] + 1
              /\ runner[k].pc = "run"
           \/ /\ s.pc \in {"acted", "acking"} /\ handled'[e] = handled[e]
              /\ runner[k].pc # "run"
  PROVE  OnceInv'
<1>1. /\ runner'[k] = s /\ s # None /\ \A j \in Runners \ {k} : runner'[j] = runner[j]
  BY DEF TypeOK
<1>2. \A f \in Events \ {e} : OnceHeld(f)'
  BY <1>1, OnceElsewhere DEF OnceInv
<1>3. OnceHeld(e)'
  <2>. SUFFICES ASSUME e \notin troubled'
                PROVE  /\ dead'[e] = 0 /\ pub'[e].pc \in {"accepted", "confirmed"}
                       /\ Running(e)'
    BY DEF OnceHeld
  <2>1. k \in RunsOn(e)
    BY DEF RunsOn
  <2>2. dead[e] = 0 /\ pub[e].pc \in {"accepted", "confirmed"} /\ Running(e)
    BY <2>1 DEF OnceInv, OnceHeld, Untouched, Queued, Done
  <2>3. RunsOn(e)' = RunsOn(e)
    BY <1>1 DEF RunsOn, Busy
  <2>4. /\ RunsOn(e) = {k} /\ runner[k].live /\ ready[e] = 0 /\ acked[e] = 0
        /\ handled[e] = IF runner[k].pc = "run" THEN 0 ELSE 1
    BY <2>1, <2>2 DEF Running
  <2>5. handled'[e] = 1 /\ s.pc \in {"acted", "acking"} /\ s.live
    BY <2>4
  <2>. QED BY <1>1, <2>2, <2>3, <2>4, <2>5 DEF Running
<1>. QED BY <1>2, <1>3 DEF OnceInv

\* The consume callback: one run, one effect, one ack.
LEMMA OnceStep ==
  ASSUME TypeOK, OnceInv, NEW k \in Runners, RunnerStep(k)
  PROVE  OnceInv'
<1>1. Busy(k) /\ runner[k] \in Run
  BY BusyRun DEF RunnerStep, HandlerActs, HandlerReturns, Catch, BackoffEnds,
                 BrokerSettles, Live
<1>2. PICK e \in Events, n \in 0 .. MaxRetries : runner[k].event = e /\ runner[k].attempt = n
  BY <1>1 DEF Run
<1>3. k \in RunsOn(e)
  BY <1>1, <1>2 DEF RunsOn
<1>4. CASE HandlerActs(k)
  <2>. PICK s \in Run : s = [runner[k] EXCEPT !.pc = "acted"]
    BY <1>1 DEF Run
  <2>1. s.event = e /\ s.live = runner[k].live /\ s.pc = "acted"
    BY <1>1, <1>2 DEF Run
  <2>2. runner' = [runner EXCEPT ![k] = s]
    BY <1>4 DEF HandlerActs
  <2>3. /\ runner[k].pc = "run" /\ UNCHANGED <<pub, ready, acked, dead, troubled>>
        /\ handled'[e] = handled[e] + 1
        /\ \A f \in Events \ {e} : handled'[f] = handled[f]
    BY <1>2, <1>4 DEF HandlerActs, TypeOK, Counters
  <2>. QED BY <1>1, <1>2, <2>1, <2>2, <2>3, OnceRun
<1>5. CASE HandlerReturns(k)
  <2>. PICK s \in Run : s = [runner[k] EXCEPT !.pc = "acking"]
    BY <1>1 DEF Run
  <2>1. s.event = e /\ s.live = runner[k].live /\ s.pc = "acking"
    BY <1>1, <1>2 DEF Run
  <2>2. /\ runner' = [runner EXCEPT ![k] = s] /\ runner[k].pc = "acted"
        /\ UNCHANGED <<pub, ready, acked, dead, troubled, handled>>
    BY <1>5 DEF HandlerReturns
  <2>. QED BY <1>1, <1>2, <2>1, <2>2, OnceRun
<1>6. CASE Catch(k) /\ (runner[k].attempt < MaxRetries \/ Live(k))
  <2>. PICK s \in Run : s.event = e /\ s.live = runner[k].live
                          /\ runner' = [runner EXCEPT ![k] = s]
    <3>1. CASE runner[k].attempt < MaxRetries
      <4>0. n + 1 \in 0 .. MaxRetries
        BY <1>2, <3>1
      <4>. PICK s \in Run : s = [runner[k] EXCEPT !.pc = "backoff", !.attempt = n + 1]
        BY <1>1, <4>0 DEF Run
      <4>1. s.event = e /\ s.live = runner[k].live
        BY <1>1, <1>2 DEF Run
      <4>2. runner' = [runner EXCEPT ![k] = s]
        BY <1>2, <1>6, <3>1 DEF Catch
      <4>. QED BY <4>1, <4>2
    <3>2. CASE ~(runner[k].attempt < MaxRetries)
      <4>. PICK s \in Run : s = [runner[k] EXCEPT !.pc = "rejecting"]
        BY <1>1 DEF Run
      <4>1. s.event = e /\ s.live = runner[k].live
        BY <1>1, <1>2 DEF Run
      <4>2. runner' = [runner EXCEPT ![k] = s]
        BY <1>6, <3>2 DEF Catch
      <4>. QED BY <4>1, <4>2
    <3>. QED BY <3>1, <3>2
  <2>1. /\ troubled' = troubled \cup {e} /\ UNCHANGED <<pub, ready, acked, dead, handled>>
    BY <1>2, <1>6 DEF Catch
  <2>. QED BY <1>1, <1>2, <2>1, OnceRun
<1>7. CASE Catch(k) /\ ~(runner[k].attempt < MaxRetries \/ Live(k))
  <2>1. Die /\ UNCHANGED <<pub, acked, dead, handled>>
    BY <1>7 DEF Catch
  <2>. QED BY <2>1, OnceRequeue DEF Die
<1>8. CASE BackoffEnds(k)
  <2>. PICK s \in Run : s = [runner[k] EXCEPT !.pc = "run"]
    BY <1>1 DEF Run
  <2>1. s.event = e /\ s.live = runner[k].live
    BY <1>1, <1>2 DEF Run
  <2>2. /\ runner' = [runner EXCEPT ![k] = s] /\ runner[k].pc = "backoff"
        /\ UNCHANGED <<pub, ready, acked, dead, troubled, handled>>
    BY <1>8 DEF BackoffEnds
  <2>3. e \in troubled
    BY <1>3, <2>2 DEF OnceInv, OnceHeld, Untouched, Queued, Running, Done
  <2>. QED BY <1>1, <1>2, <2>1, <2>2, <2>3, OnceRun
<1>9. CASE BrokerSettles(k)
  <2>1. /\ runner'[k] = None /\ \A j \in Runners \ {k} : runner'[j] = runner[j]
        /\ UNCHANGED <<pub, ready, handled, troubled>>
        /\ \A f \in Events \ {e} : acked'[f] = acked[f] /\ dead'[f] = dead[f]
    BY <1>2, <1>9 DEF BrokerSettles, TypeOK, Counters
  <2>2. \A f \in Events \ {e} : OnceHeld(f)'
    BY <1>2, <2>1, OnceElsewhere DEF OnceInv
  <2>3. ASSUME e \notin troubled PROVE OnceHeld(e)'
    <3>1. dead[e] = 0 /\ pub[e].pc \in {"accepted", "confirmed"} /\ Running(e)
      BY <1>3, <2>3 DEF OnceInv, OnceHeld, Untouched, Queued, Done
    <3>2. /\ RunsOn(e) = {k} /\ ready[e] = 0 /\ acked[e] = 0
          /\ runner[k].pc \in {"run", "acted", "acking"}
          /\ handled[e] = IF runner[k].pc = "run" THEN 0 ELSE 1
      BY <1>3, <3>1 DEF Running
    <3>3. runner[k].pc = "acking" /\ acked'[e] = 1 /\ UNCHANGED dead
      BY <1>2, <1>9, <3>2 DEF BrokerSettles, TypeOK, Counters
    <3>4. RunsOn(e)' = {}
      BY <2>1, <3>2 DEF RunsOn, Busy
    <3>5. Done(e)'
      BY <2>1, <3>2, <3>3, <3>4 DEF Done
    <3>. QED BY <2>1, <3>1, <3>3, <3>5 DEF OnceHeld
  <2>4. OnceHeld(e)'
    BY <2>1, <2>3 DEF OnceHeld
  <2>. QED BY <2>2, <2>4 DEF OnceInv
<1>. QED BY <1>4, <1>5, <1>6, <1>7, <1>8, <1>9 DEF RunnerStep

\* An event that met no failure has its effect once at most, is never
\* dead-lettered, and is acked for its effect (consumer.ts: acks last).
THEOREM UntroubledOnce == Spec => []OnceWithoutTrouble
<1>1. Init => OnceInv
  BY DEF Init, OnceInv, OnceHeld, Untouched, RunsOn, Busy
<1>2. ASSUME TypeOK, OnceInv, [Next]_vars PROVE OnceInv'
  <2>1. CASE Start \/ Reconnect \/ UNCHANGED vars
    <3>1. UNCHANGED <<pub, ready, acked, dead, handled, runner, troubled>>
      BY <2>1 DEF Start, Reconnect, vars
    <3>. QED BY <1>2, <3>1, OnceElsewhere DEF OnceInv
  <2>2. CASE ConnectionLost
    <3>1. \A k \in Runners : runner'[k] # None => Busy(k) /\ runner'[k].event = runner[k].event
      <4>1. \A k \in Runners : Busy(k) => runner[k] \in Run
        BY <1>2, BusyRun
      <4>. QED BY <2>2, <4>1 DEF ConnectionLost, Run
    <3>. QED BY <1>2, <2>2, <3>1, OnceRequeue DEF ConnectionLost
  <2>3. CASE Crash
    BY <1>2, <2>3, OnceRequeue DEF Crash, Die
  <2>. QED BY <1>2, <2>1, <2>2, <2>3, OncePublish, OnceDeliver, OnceStep DEF Next
<1>3. OnceInv => OnceWithoutTrouble
  BY DEF OnceInv, OnceHeld, OnceWithoutTrouble, Untouched, Queued, Running, Done
<1>. QED BY <1>1, <1>2, <1>3, TypeCorrect, PTL DEF Spec
-----------------------------------------------------------------------------
(* The contract *)

\* Runs that have an effect to ack with; runs and the failures each has had.
Paid(e) == {k \in RunsOn(e) : runner[k].pc \in {"acted", "acking"}}
Tried(run) == IF run.pc = "rejecting" THEN MaxRetries + 1 ELSE run.attempt
Tries(e) == {t \in Runners \X (1 .. MaxRetries + 1) :
               t[1] \in RunsOn(e) /\ t[2] <= Tried(runner[t[1]])}

\* Why a step of the bus is one the contract allows: the broker has a copy of what
\* a run works on; every ack and every run that will ack has an effect of its own;
\* every dead letter has all its failed runs and every run the failures it counts.
CopyKept == \A e \in Events : RunsOn(e) # {} => Held(e)
AcksPaid == \A e \in Events : acked[e] + Cardinality(Paid(e)) <= handled[e]
BurialsPaid ==
  \A e \in Events : (MaxRetries + 1) * dead[e] + Cardinality(Tries(e)) <= failed[e]
ContractInv == KeptInv /\ CopyKept /\ AcksPaid /\ BurialsPaid

\* Both accounts are finite, before and after a step.
LEMMA AccountsFinite ==
  ASSUME NEW e \in Events
  PROVE  /\ IsFiniteSet(Paid(e)) /\ Cardinality(Paid(e)) \in Nat
         /\ IsFiniteSet(Tries(e)) /\ Cardinality(Tries(e)) \in Nat
         /\ Cardinality(Paid(e))' \in Nat /\ Cardinality(Tries(e))' \in Nat
<1>1. IsFiniteSet(Runners \X (1 .. MaxRetries + 1))
  <2>1. 1 \in Int /\ MaxRetries + 1 \in Int
    OBVIOUS
  <2>2. IsFiniteSet(1 .. MaxRetries + 1)
    BY <2>1, FS_Interval
  <2>. QED BY <2>2, FS_Product
<1>2. Paid(e) \subseteq Runners /\ Paid(e)' \subseteq Runners
  BY DEF Paid, RunsOn
<1>3. /\ Tries(e) \subseteq Runners \X (1 .. MaxRetries + 1)
      /\ Tries(e)' \subseteq Runners \X (1 .. MaxRetries + 1)
  BY DEF Tries
<1>4. IsFiniteSet(Paid(e)) /\ IsFiniteSet(Paid(e)')
  BY <1>2, FS_Subset
<1>5. IsFiniteSet(Tries(e)) /\ IsFiniteSet(Tries(e)')
  BY <1>1, <1>3, FS_Subset
<1>. QED BY <1>4, <1>5, FS_CardinalityType

\* A run that will reject counts a failure for each of its attempts.
LEMMA RunTries ==
  ASSUME NEW k
  PROVE  Cardinality({k} \X (1 .. MaxRetries + 1)) = MaxRetries + 1
<1>1. 1 \in Int /\ MaxRetries + 1 \in Int
  OBVIOUS
<1>2. /\ IsFiniteSet(1 .. MaxRetries + 1)
      /\ Cardinality(1 .. MaxRetries + 1) = MaxRetries + 1
  BY <1>1, FS_Interval
<1>3. IsFiniteSet({k}) /\ Cardinality({k}) = 1
  BY FS_Singleton
<1>4. \A T : IsFiniteSet(T) => Cardinality({k} \X T) = Cardinality({k}) * Cardinality(T)
  BY <1>3, FS_Product
<1>5. Cardinality({k} \X (1 .. MaxRetries + 1)) = 1 * (MaxRetries + 1)
  BY <1>2, <1>3, <1>4
<1>. QED BY <1>5

\* A step that leaves the runs of an event alone leaves its accounts alone.
LEMMA SameAccounts ==
  ASSUME NEW e \in Events,
         \A j \in Runners : runner'[j] = runner[j] \/
           /\ Busy(j) => runner[j].event # e
           /\ runner'[j] # None => runner'[j].event # e
  PROVE  RunsOn(e)' = RunsOn(e) /\ Paid(e)' = Paid(e) /\ Tries(e)' = Tries(e)
<1>1. RunsOn(e)' = RunsOn(e) /\ \A j \in RunsOn(e) : runner'[j] = runner[j]
  BY DEF RunsOn, Busy
<1>. QED BY <1>1 DEF Paid, Tries

\* Runs that end, and none that changes otherwise.
LEMMA FewerAccounts ==
  ASSUME NEW e \in Events,
         \A j \in Runners : runner'[j] # None =>
           /\ Busy(j) /\ runner'[j].event = runner[j].event
           /\ runner'[j].pc = runner[j].pc /\ runner'[j].attempt = runner[j].attempt
  PROVE  /\ RunsOn(e)' \subseteq RunsOn(e)
         /\ Cardinality(Paid(e))' <= Cardinality(Paid(e))
         /\ Cardinality(Tries(e))' <= Cardinality(Tries(e))
<1>1. RunsOn(e)' \subseteq RunsOn(e)
  BY DEF RunsOn, Busy
<1>2. \A j \in RunsOn(e)' : runner'[j].pc = runner[j].pc /\ runner'[j].attempt = runner[j].attempt
  BY DEF RunsOn, Busy
<1>3. Paid(e)' \subseteq Paid(e)
  BY <1>1, <1>2 DEF Paid
<1>4. Tries(e)' \subseteq Tries(e)
  BY <1>1, <1>2 DEF Tries, Tried
<1>. QED BY <1>1, <1>3, <1>4, AccountsFinite, FS_Subset

\* A run that moves on: what it can ack with, and the failures it counts.
LEMMA MovedAccounts ==
  ASSUME TypeOK, NEW k \in Runners, Busy(k), NEW e \in Events, e = runner[k].event,
         NEW s \in Run, s.event = e, runner' = [runner EXCEPT ![k] = s]
  PROVE  /\ \A f \in Events : RunsOn(f)' = RunsOn(f)
         /\ \A f \in Events \ {e} : Paid(f)' = Paid(f) /\ Tries(f)' = Tries(f)
         /\ Paid(e)' = IF s.pc \in {"acted", "acking"} THEN Paid(e) \cup {k} ELSE Paid(e) \ {k}
         /\ Tried(s) = Tried(runner[k]) => Tries(e)' = Tries(e)
         /\ Tried(s) = Tried(runner[k]) + 1 =>
              Cardinality(Tries(e))' = Cardinality(Tries(e)) + 1
<1>1. /\ runner'[k] = s /\ s # None /\ \A j \in Runners \ {k} : runner'[j] = runner[j]
  BY DEF TypeOK
<1>2. \A f \in Events \ {e} : RunsOn(f)' = RunsOn(f) /\ Paid(f)' = Paid(f) /\ Tries(f)' = Tries(f)
  BY <1>1, SameAccounts
<1>3. RunsOn(e)' = RunsOn(e) /\ k \in RunsOn(e)
  BY <1>1 DEF RunsOn, Busy
<1>4. Paid(e)' = IF s.pc \in {"acted", "acking"} THEN Paid(e) \cup {k} ELSE Paid(e) \ {k}
  BY <1>1, <1>3 DEF Paid
<1>5. Tried(s) = Tried(runner[k]) => Tries(e)' = Tries(e)
  BY <1>1, <1>3 DEF Tries
<1>6. ASSUME Tried(s) = Tried(runner[k]) + 1
      PROVE  Cardinality(Tries(e))' = Cardinality(Tries(e)) + 1
  <2>. DEFINE t == <<k, Tried(s)>>
  <2>1. runner[k] \in Run
    BY BusyRun
  <2>2. Tried(s) \in 1 .. MaxRetries + 1 /\ Tried(runner[k]) \in Nat
    BY <1>6, <2>1 DEF Tried, Run
  <2>3. t \notin Tries(e)
    BY <1>6, <2>2 DEF Tries
  <2>4. Tries(e)' = Tries(e) \cup {t}
    <3>1. ASSUME NEW j \in Runners, NEW n \in 1 .. MaxRetries + 1
          PROVE  <<j, n>> \in Tries(e)' <=> <<j, n>> \in Tries(e) \/ <<j, n>> = t
      <4>1. CASE j # k
        BY <1>1, <1>3, <4>1 DEF Tries
      <4>2. CASE j = k
        BY <1>1, <1>3, <1>6, <2>2, <4>2 DEF Tries
      <4>. QED BY <4>1, <4>2
    <3>2. /\ Tries(e)' \subseteq Runners \X (1 .. MaxRetries + 1)
          /\ Tries(e) \subseteq Runners \X (1 .. MaxRetries + 1)
          /\ t \in Runners \X (1 .. MaxRetries + 1)
      BY <2>2 DEF Tries
    <3>. QED BY <3>1, <3>2
  <2>. HIDE DEF t
  <2>5. Cardinality(Tries(e) \cup {t}) = Cardinality(Tries(e)) + 1
    BY <2>3, AccountsFinite, FS_AddElement
  <2>. QED BY <2>4, <2>5
<1>. QED BY <1>2, <1>3, <1>4, <1>5, <1>6

\* What a step of the callback does to its run: it moves on with its message, or
\* the broker settles it, or the process dies of it.
LEMMA RunMoves ==
  ASSUME TypeOK, NEW k \in Runners, RunnerStep(k)
  PROVE  /\ Busy(k)
         /\ \E e \in Events : e = runner[k].event /\
              \/ \E s \in Run :
                   /\ s.event = e /\ s.live = runner[k].live
                   /\ runner' = [runner EXCEPT ![k] = s]
                   /\ UNCHANGED <<ready, acked, dead>>
                   /\ \/ /\ HandlerActs(k) /\ Tried(s) = Tried(runner[k])
                         /\ runner[k].pc = "run" /\ s.pc = "acted"
                         /\ handled'[e] = handled[e] + 1 /\ UNCHANGED failed
                         /\ \A f \in Events \ {e} : handled'[f] = handled[f]
                      \/ /\ HandlerReturns(k) /\ Tried(s) = Tried(runner[k])
                         /\ runner[k].pc = "acted" /\ s.pc = "acking"
                         /\ UNCHANGED <<handled, failed>>
                      \/ /\ BackoffEnds(k) /\ Tried(s) = Tried(runner[k])
                         /\ runner[k].pc = "backoff" /\ s.pc = "run"
                         /\ UNCHANGED <<handled, failed>>
                      \/ /\ Catch(k) /\ Tried(s) = Tried(runner[k]) + 1
                         /\ s.pc \in {"backoff", "rejecting"}
                         /\ failed'[e] = failed[e] + 1 /\ UNCHANGED handled
                         /\ \A f \in Events \ {e} : failed'[f] = failed[f]
              \/ BrokerSettles(k)
              \/ /\ Catch(k) /\ Die
                 /\ failed'[e] = failed[e] + 1 /\ UNCHANGED <<handled, acked, dead>>
                 /\ \A f \in Events \ {e} : failed'[f] = failed[f]
         /\ UNCHANGED <<declared, pub, missed>>
<1>1. Busy(k) /\ runner[k] \in Run
  BY BusyRun DEF RunnerStep, HandlerActs, HandlerReturns, Catch, BackoffEnds,
                 BrokerSettles, Live
<1>2. UNCHANGED <<declared, pub, missed>>
  BY DEF RunnerStep, HandlerActs, HandlerReturns, Catch, BackoffEnds, BrokerSettles
<1>. PICK e \in Events, n \in 0 .. MaxRetries : e = runner[k].event /\ n = runner[k].attempt
  BY <1>1 DEF Run
<1>3. CASE HandlerActs(k)
  <2>1. PICK s \in Run : s = [runner[k] EXCEPT !.pc = "acted"]
    BY <1>1 DEF Run
  <2>2. /\ s.event = e /\ s.live = runner[k].live /\ s.pc = "acted" /\ s.attempt = n
    BY <1>1, <2>1 DEF Run
  <2>3. /\ runner' = [runner EXCEPT ![k] = s] /\ runner[k].pc = "run"
        /\ UNCHANGED <<ready, acked, dead, failed>>
    BY <1>3, <2>1 DEF HandlerActs
  <2>4. handled'[e] = handled[e] + 1 /\ \A f \in Events \ {e} : handled'[f] = handled[f]
    BY <1>3 DEF HandlerActs, TypeOK, Counters
  <2>5. Tried(s) = Tried(runner[k])
    BY <2>2, <2>3 DEF Tried
  <2>. QED BY <1>1, <1>2, <1>3, <2>2, <2>3, <2>4, <2>5
<1>4. CASE HandlerReturns(k)
  <2>1. PICK s \in Run : s = [runner[k] EXCEPT !.pc = "acking"]
    BY <1>1 DEF Run
  <2>2. /\ s.event = e /\ s.live = runner[k].live /\ s.pc = "acking" /\ s.attempt = n
    BY <1>1, <2>1 DEF Run
  <2>3. /\ runner' = [runner EXCEPT ![k] = s] /\ runner[k].pc = "acted"
        /\ UNCHANGED <<ready, acked, dead, failed, handled>>
    BY <1>4, <2>1 DEF HandlerReturns
  <2>4. Tried(s) = Tried(runner[k])
    BY <2>2, <2>3 DEF Tried
  <2>. QED BY <1>1, <1>2, <1>4, <2>2, <2>3, <2>4
<1>5. CASE BackoffEnds(k)
  <2>1. PICK s \in Run : s = [runner[k] EXCEPT !.pc = "run"]
    BY <1>1 DEF Run
  <2>2. /\ s.event = e /\ s.live = runner[k].live /\ s.pc = "run" /\ s.attempt = n
    BY <1>1, <2>1 DEF Run
  <2>3. /\ runner' = [runner EXCEPT ![k] = s] /\ runner[k].pc = "backoff"
        /\ UNCHANGED <<ready, acked, dead, failed, handled>>
    BY <1>5, <2>1 DEF BackoffEnds
  <2>4. Tried(s) = Tried(runner[k])
    BY <2>2, <2>3 DEF Tried
  <2>. QED BY <1>1, <1>2, <1>5, <2>2, <2>3, <2>4
<1>6. CASE Catch(k)
  <2>1. /\ failed'[e] = failed[e] + 1 /\ UNCHANGED <<acked, dead, handled>>
        /\ \A f \in Events \ {e} : failed'[f] = failed[f]
        /\ runner[k].pc \in {"run", "acted"}
    BY <1>6 DEF Catch, TypeOK, Counters
  <2>2. CASE runner[k].attempt < MaxRetries
    <3>0. n + 1 \in 0 .. MaxRetries
      BY <2>2
    <3>1. PICK s \in Run : s = [runner[k] EXCEPT !.pc = "backoff", !.attempt = n + 1]
      BY <1>1, <3>0 DEF Run
    <3>2. /\ s.event = e /\ s.live = runner[k].live /\ s.pc = "backoff" /\ s.attempt = n + 1
      BY <1>1, <3>1 DEF Run
    <3>3. runner' = [runner EXCEPT ![k] = s] /\ UNCHANGED ready
      BY <1>6, <2>2, <3>1 DEF Catch
    <3>4. Tried(s) = Tried(runner[k]) + 1
      BY <2>1, <3>2 DEF Tried
    <3>. QED BY <1>1, <1>2, <1>6, <2>1, <3>2, <3>3, <3>4
  <2>3. CASE ~(runner[k].attempt < MaxRetries) /\ Live(k)
    <3>1. PICK s \in Run : s = [runner[k] EXCEPT !.pc = "rejecting"]
      BY <1>1 DEF Run
    <3>2. /\ s.event = e /\ s.live = runner[k].live /\ s.pc = "rejecting"
      BY <1>1, <3>1 DEF Run
    <3>3. runner' = [runner EXCEPT ![k] = s] /\ UNCHANGED ready
      BY <1>6, <2>3, <3>1 DEF Catch
    <3>4. Tried(s) = Tried(runner[k]) + 1
      BY <2>1, <2>3, <3>2 DEF Tried
    <3>. QED BY <1>1, <1>2, <1>6, <2>1, <3>2, <3>3, <3>4
  <2>4. CASE ~(runner[k].attempt < MaxRetries) /\ ~Live(k)
    <3>1. Die
      BY <1>6, <2>4 DEF Catch
    <3>. QED BY <1>1, <1>2, <1>6, <2>1, <3>1
  <2>. QED BY <2>2, <2>3, <2>4
<1>7. CASE BrokerSettles(k)
  BY <1>1, <1>2, <1>7
<1>. QED BY <1>3, <1>4, <1>5, <1>6, <1>7 DEF RunnerStep

\* A step of the callback keeps both accounts.
LEMMA RunPays ==
  ASSUME TypeOK, TypeOK', ContractInv, NEW k \in Runners, RunnerStep(k)
  PROVE  AcksPaid' /\ BurialsPaid'
<1>0. Busy(k) /\ runner[k] \in Run
  BY RunMoves, BusyRun
<1>. PICK e \in Events : e = runner[k].event
  BY <1>0 DEF Run
<1>1. \A f \in Events :
        /\ Cardinality(Paid(f)) \in Nat /\ Cardinality(Tries(f)) \in Nat
        /\ IsFiniteSet(Paid(f)) /\ IsFiniteSet(Tries(f))
        /\ Cardinality(Paid(f))' \in Nat /\ Cardinality(Tries(f))' \in Nat
        /\ acked[f] \in Nat /\ handled[f] \in Nat /\ failed[f] \in Nat /\ dead[f] \in Nat
        /\ (MaxRetries + 1) * dead[f] \in Nat
        /\ acked[f] + Cardinality(Paid(f)) <= handled[f]
        /\ (MaxRetries + 1) * dead[f] + Cardinality(Tries(f)) <= failed[f]
  BY AccountsFinite DEF ContractInv, AcksPaid, BurialsPaid, TypeOK, Counters
<1>2. ASSUME NEW s \in Run, s.event = e, runner' = [runner EXCEPT ![k] = s],
             UNCHANGED <<ready, acked, dead>>,
             \/ /\ Tried(s) = Tried(runner[k])
                /\ runner[k].pc = "run" /\ s.pc = "acted"
                /\ handled'[e] = handled[e] + 1 /\ UNCHANGED failed
                /\ \A f \in Events \ {e} : handled'[f] = handled[f]
             \/ /\ Tried(s) = Tried(runner[k])
                /\ runner[k].pc = "acted" /\ s.pc = "acking"
                /\ UNCHANGED <<handled, failed>>
             \/ /\ Tried(s) = Tried(runner[k])
                /\ runner[k].pc = "backoff" /\ s.pc = "run"
                /\ UNCHANGED <<handled, failed>>
             \/ /\ Tried(s) = Tried(runner[k]) + 1
                /\ s.pc \in {"backoff", "rejecting"}
                /\ failed'[e] = failed[e] + 1 /\ UNCHANGED handled
                /\ \A f \in Events \ {e} : failed'[f] = failed[f]
      PROVE  AcksPaid' /\ BurialsPaid'
  <2>1. /\ \A f \in Events \ {e} : Paid(f)' = Paid(f) /\ Tries(f)' = Tries(f)
        /\ Paid(e)' = IF s.pc \in {"acted", "acking"} THEN Paid(e) \cup {k} ELSE Paid(e) \ {k}
        /\ Tried(s) = Tried(runner[k]) => Tries(e)' = Tries(e)
        /\ Tried(s) = Tried(runner[k]) + 1 =>
             Cardinality(Tries(e))' = Cardinality(Tries(e)) + 1
    BY <1>0, <1>2, MovedAccounts
  <2>2. Cardinality(Paid(e) \cup {k}) = IF k \in Paid(e) THEN Cardinality(Paid(e))
                                                        ELSE Cardinality(Paid(e)) + 1
    BY <1>1, FS_AddElement
  <2>3. Cardinality(Paid(e) \ {k}) <= Cardinality(Paid(e))
    BY <1>1, FS_Subset
  <2>4. k \in Paid(e) <=> runner[k].pc \in {"acted", "acking"}
    BY <1>0 DEF Paid, RunsOn
  <2>5. acked'[e] + Cardinality(Paid(e))' <= handled'[e]
    <3>1. CASE s.pc \in {"acted", "acking"}
      <4>1. Cardinality(Paid(e))' = Cardinality(Paid(e) \cup {k})
        BY <2>1, <3>1
      <4>2. \/ handled'[e] = handled[e] + 1
            \/ handled'[e] = handled[e] /\ k \in Paid(e)
        BY <1>2, <2>4, <3>1
      <4>. QED BY <1>1, <1>2, <2>2, <4>1, <4>2
    <3>2. CASE s.pc \notin {"acted", "acking"}
      <4>1. Cardinality(Paid(e))' = Cardinality(Paid(e) \ {k})
        BY <2>1, <3>2
      <4>2. handled'[e] = handled[e]
        BY <1>2, <3>2
      <4>. QED BY <1>1, <1>2, <2>3, <4>1, <4>2
    <3>. QED BY <3>1, <3>2
  <2>6. (MaxRetries + 1) * dead'[e] + Cardinality(Tries(e))' <= failed'[e]
    <3>1. CASE Tried(s) = Tried(runner[k]) /\ failed' = failed
      BY <1>1, <1>2, <2>1, <3>1
    <3>2. CASE Tried(s) = Tried(runner[k]) + 1 /\ failed'[e] = failed[e] + 1
      BY <1>1, <1>2, <2>1, <3>2
    <3>. QED BY <1>2, <3>1, <3>2
  <2>7. \A f \in Events \ {e} : handled'[f] = handled[f] /\ failed'[f] = failed[f]
    BY <1>2
  <2>8. \A f \in Events \ {e} : /\ acked'[f] + Cardinality(Paid(f))' <= handled'[f]
                               /\ (MaxRetries + 1) * dead'[f] + Cardinality(Tries(f))' <= failed'[f]
    BY <1>1, <1>2, <2>1, <2>7
  <2>. QED BY <2>5, <2>6, <2>8 DEF AcksPaid, BurialsPaid
<1>3. CASE BrokerSettles(k)
  <2>1. /\ runner'[k] = None /\ \A j \in Runners \ {k} : runner'[j] = runner[j]
        /\ UNCHANGED <<handled, failed>> /\ runner[k].pc \in {"acking", "rejecting"}
        /\ \A f \in Events \ {e} : acked'[f] = acked[f] /\ dead'[f] = dead[f]
        /\ runner[k].pc = "acking" => acked'[e] = acked[e] + 1 /\ dead'[e] = dead[e]
        /\ runner[k].pc = "rejecting" => dead'[e] = dead[e] + 1 /\ acked'[e] = acked[e]
    BY <1>3 DEF BrokerSettles, TypeOK, Counters
  <2>2. \A f \in Events : /\ Cardinality(Paid(f))' <= Cardinality(Paid(f))
                          /\ Cardinality(Tries(f))' <= Cardinality(Tries(f))
    BY <2>1, FewerAccounts DEF Busy
  <2>3. k \in RunsOn(e)
    BY <1>0 DEF RunsOn
  <2>4. RunsOn(e)' = RunsOn(e) \ {k}
    BY <2>1 DEF RunsOn, Busy
  <2>5. acked'[e] + Cardinality(Paid(e))' <= handled'[e]
    <3>1. CASE runner[k].pc = "acking"
      <4>0. k \in Paid(e)
        BY <2>3, <3>1 DEF Paid
      <4>1. Paid(e)' = Paid(e) \ {k}
        <5>1. \A j \in RunsOn(e) \ {k} : runner'[j] = runner[j]
          BY <2>1 DEF RunsOn
        <5>2. Paid(e)' = {j \in RunsOn(e) \ {k} : runner'[j].pc \in {"acted", "acking"}}
          BY <2>4 DEF Paid
        <5>. QED BY <5>1, <5>2 DEF Paid
      <4>2. Cardinality(Paid(e) \ {k}) = Cardinality(Paid(e)) - 1
        BY <1>1, <4>0, FS_RemoveElement
      <4>. QED BY <1>1, <2>1, <3>1, <4>1, <4>2
    <3>2. CASE runner[k].pc = "rejecting"
      BY <1>1, <2>1, <2>2, <3>2
    <3>. QED BY <2>1, <3>1, <3>2
  <2>6. (MaxRetries + 1) * dead'[e] + Cardinality(Tries(e))' <= failed'[e]
    <3>1. CASE runner[k].pc = "acking"
      BY <1>1, <2>1, <2>2, <3>1
    <3>2. CASE runner[k].pc = "rejecting"
      <4>. DEFINE mine == {k} \X (1 .. MaxRetries + 1)
      <4>1. mine \subseteq Tries(e)
        BY <2>3, <3>2 DEF Tries, Tried
      <4>2. Tries(e)' = Tries(e) \ mine
        BY <2>1, <2>4 DEF Tries
      <4>3. Cardinality(mine) = MaxRetries + 1
        BY RunTries
      <4>. HIDE DEF mine
      <4>4. Tries(e) \cap mine = mine
        BY <4>1
      <4>5. \A T : Cardinality(Tries(e) \ T) =
                     Cardinality(Tries(e)) - Cardinality(Tries(e) \cap T)
        BY <1>1, FS_Difference
      <4>6. Cardinality(Tries(e))' = Cardinality(Tries(e)) - (MaxRetries + 1)
        BY <4>2, <4>3, <4>4, <4>5
      <4>7. (MaxRetries + 1) * dead'[e] = (MaxRetries + 1) * dead[e] + (MaxRetries + 1)
        BY <1>1, <2>1, <3>2
      <4>. QED BY <1>1, <2>1, <4>6, <4>7
    <3>. QED BY <2>1, <3>1, <3>2
  <2>7. \A f \in Events \ {e} : /\ acked'[f] + Cardinality(Paid(f))' <= handled'[f]
                               /\ (MaxRetries + 1) * dead'[f] + Cardinality(Tries(f))' <= failed'[f]
    BY <1>1, <2>1, <2>2
  <2>. QED BY <2>5, <2>6, <2>7 DEF AcksPaid, BurialsPaid
<1>4. CASE /\ Die /\ UNCHANGED <<handled, acked, dead>>
           /\ \A f \in Events : failed'[f] \in {failed[f], failed[f] + 1}
  <2>1. \A f \in Events : /\ Cardinality(Paid(f))' <= Cardinality(Paid(f))
                          /\ Cardinality(Tries(f))' <= Cardinality(Tries(f))
    BY <1>4, FewerAccounts DEF Die
  <2>2. ASSUME NEW f \in Events
        PROVE  /\ acked'[f] + Cardinality(Paid(f))' <= handled'[f]
               /\ (MaxRetries + 1) * dead'[f] + Cardinality(Tries(f))' <= failed'[f]
    <3>1. failed[f] <= failed'[f] /\ failed'[f] \in Nat
      BY <1>1, <1>4
    <3>. QED BY <1>1, <1>4, <2>1, <3>1
  <2>. QED BY <2>2 DEF AcksPaid, BurialsPaid
<1>. QED BY <1>2, <1>3, <1>4, RunMoves

\* A step of a publisher touches no run and only ever adds a copy.
LEMMA PublishLeavesRuns ==
  ASSUME TypeOK, NEW e \in Events,
         \/ Publish(e) \/ BrokerAccepts(e) \/ Confirm(e)
         \/ PublishFails(e) \/ PublishRetries(e) \/ PublisherDies(e)
  PROVE  /\ UNCHANGED <<declared, runner, acked, dead, handled, failed>>
         /\ \A f \in Events : ready'[f] >= ready[f]
<1>1. UNCHANGED <<declared, runner, acked, dead, handled, failed>>
  BY DEF Publish, BrokerAccepts, Confirm, PublishFails, PublishRetries, PublisherDies
<1>2. ready' = ready \/ ready' = [ready EXCEPT ![e] = @ + 1]
  BY DEF Publish, BrokerAccepts, Confirm, PublishFails, PublishRetries, PublisherDies
<1>3. \A f \in Events : ready[f] \in Nat
  BY DEF TypeOK, Counters
<1>. QED BY <1>1, <1>2, <1>3 DEF TypeOK, Counters

\* The loss of the connection and a crash end runs, and change no other.
LEMMA BreakEndsRuns ==
  ASSUME TypeOK, ConnectionLost \/ Crash
  PROVE  /\ Requeue /\ UNCHANGED <<declared, pub, missed, acked, dead, handled, failed>>
         /\ \A j \in Runners : runner'[j] # None =>
              /\ Busy(j) /\ runner'[j].event = runner[j].event
              /\ runner'[j].pc = runner[j].pc /\ runner'[j].attempt = runner[j].attempt
              /\ runner'[j].live = FALSE
<1>1. Requeue /\ UNCHANGED <<declared, pub, missed, acked, dead, handled, failed>>
  BY DEF ConnectionLost, Crash, Die
<1>2. ASSUME NEW j \in Runners, runner'[j] # None
      PROVE  /\ Busy(j) /\ runner'[j].event = runner[j].event
             /\ runner'[j].pc = runner[j].pc /\ runner'[j].attempt = runner[j].attempt
             /\ runner'[j].live = FALSE
  <2>1. ConnectionLost
    BY <1>2 DEF Crash, Die
  <2>2. Busy(j) /\ runner'[j] = [runner[j] EXCEPT !.live = FALSE]
    BY <1>2, <2>1 DEF ConnectionLost
  <2>3. runner[j] \in Run
    BY <2>2, BusyRun
  <2>. QED BY <2>2, <2>3 DEF Run
<1>. QED BY <1>1, <1>2

\* The broker lets no event go: what it holds stays held, or settled.
LEMMA HeldStays ==
  ASSUME TypeOK, Next, NEW f \in Events, Held(f)
  PROVE  Held(f)'
<1>1. ASSUME NEW e \in Events,
             \/ Publish(e) \/ BrokerAccepts(e) \/ Confirm(e)
             \/ PublishFails(e) \/ PublishRetries(e) \/ PublisherDies(e)
      PROVE  Held(f)'
  <2>1. UNCHANGED <<runner, acked, dead>> /\ ready'[f] >= ready[f] /\ ready[f] \in Nat
    BY <1>1, PublishLeavesRuns DEF TypeOK, Counters
  <2>2. ready[f] > 0 => ready'[f] > 0
    <3>1. ready'[f] \in Nat
      BY <1>1, PublishTypes DEF TypeOK, Counters
    <3>. QED BY <2>1, <3>1
  <2>. QED BY <2>1, <2>2 DEF Held, Live, Busy
<1>2. CASE Start \/ Reconnect
  <2>1. UNCHANGED <<ready, runner, acked, dead>>
    BY <1>2 DEF Start, Reconnect
  <2>. QED BY <2>1 DEF Held, Live, Busy
<1>3. CASE ConnectionLost \/ Crash
  BY <1>3, BreakEndsRuns, RequeueHolds
<1>. QED BY <1>1, <1>2, <1>3, RunnerStepHolds, DeliverHolds DEF Next

\* A delivery starts a run, and touches no other.
LEMMA DeliverStartsRun ==
  ASSUME TypeOK, NEW k \in Runners, NEW e \in Events, Deliver(k, e)
  PROVE  /\ \E s \in Run :
              /\ runner'[k] = s /\ s.event = e /\ s.live /\ s.pc = "run" /\ s.attempt = 0
         /\ runner'[k] # None /\ ~Busy(k)
         /\ \A j \in Runners \ {k} : runner'[j] = runner[j]
         /\ UNCHANGED <<declared, pub, missed, acked, dead, handled, failed>>
<1>1. [pc |-> "run", event |-> e, attempt |-> 0, live |-> TRUE] \in Run
  BY DEF Run
<1>2. PICK s \in Run : s = [pc |-> "run", event |-> e, attempt |-> 0, live |-> TRUE]
  BY <1>1
<1>3. s.event = e /\ s.live /\ s.pc = "run" /\ s.attempt = 0
  BY <1>2
<1>4. /\ runner' = [runner EXCEPT ![k] = s] /\ ~Busy(k)
      /\ UNCHANGED <<declared, pub, missed, acked, dead, handled, failed>>
  BY <1>2 DEF Deliver
<1>. QED BY <1>3, <1>4 DEF TypeOK

\* A run gets its message from the broker, which has it until it is settled.
LEMMA CopyStays ==
  ASSUME TypeOK, CopyKept, Next
  PROVE  CopyKept'
<1>. SUFFICES ASSUME NEW f \in Events, RunsOn(f)' # {} PROVE Held(f)'
  BY DEF CopyKept
<1>1. CASE RunsOn(f) # {}
  BY <1>1, HeldStays DEF CopyKept
<1>2. CASE RunsOn(f) = {}
  <2>1. ASSUME NEW e \in Events,
               \/ Publish(e) \/ BrokerAccepts(e) \/ Confirm(e)
               \/ PublishFails(e) \/ PublishRetries(e) \/ PublisherDies(e)
        PROVE  FALSE
    BY <1>2, <2>1, PublishLeavesRuns DEF RunsOn, Busy
  <2>2. ~(Start \/ Reconnect)
    BY <1>2 DEF Start, Reconnect, RunsOn, Busy
  <2>3. ~(ConnectionLost \/ Crash)
    BY <1>2, BreakEndsRuns DEF RunsOn, Busy
  <2>4. ASSUME NEW k \in Runners, RunnerStep(k)
        PROVE  FALSE
    <3>1. Busy(k) /\ runner[k].event # f
      BY <1>2, <2>4, RunMoves DEF RunsOn
    <3>2. \A j \in Runners : runner'[j] # None =>
             Busy(j) /\ runner'[j].event = runner[j].event
      <4>1. CASE BrokerSettles(k)
        BY <4>1 DEF BrokerSettles, TypeOK, Busy
      <4>2. CASE Die
        BY <4>2 DEF Die
      <4>3. ASSUME NEW s \in Run, s.event = runner[k].event,
                   runner' = [runner EXCEPT ![k] = s]
            PROVE  \A j \in Runners : runner'[j] # None =>
                      Busy(j) /\ runner'[j].event = runner[j].event
        BY <3>1, <4>3 DEF TypeOK, Busy
      <4>. QED BY <2>4, <4>1, <4>2, <4>3, RunMoves
    <3>. QED BY <1>2, <3>2 DEF RunsOn, Busy
  <2>5. ASSUME NEW k \in Runners, NEW e \in Events, Deliver(k, e)
        PROVE  Held(f)'
    <3>1. /\ runner'[k] # None /\ runner'[k].event = e /\ runner'[k].live
          /\ \A j \in Runners \ {k} : runner'[j] = runner[j]
      BY <2>5, DeliverStartsRun
    <3>2. e = f
      BY <1>2, <3>1 DEF RunsOn, Busy
    <3>. QED BY <3>1, <3>2 DEF Held, Live, Busy
  <2>. QED BY <2>1, <2>2, <2>3, <2>4, <2>5 DEF Next
<1>. QED BY <1>1, <1>2

\* Both accounts stay paid whatever happens.
LEMMA AccountsStay ==
  ASSUME TypeOK, TypeOK', ContractInv, Next
  PROVE  AcksPaid' /\ BurialsPaid'
<1>1. \A f \in Events :
        /\ Cardinality(Paid(f)) \in Nat /\ Cardinality(Tries(f)) \in Nat
        /\ Cardinality(Paid(f))' \in Nat /\ Cardinality(Tries(f))' \in Nat
        /\ acked[f] \in Nat /\ handled[f] \in Nat /\ failed[f] \in Nat /\ dead[f] \in Nat
        /\ (MaxRetries + 1) * dead[f] \in Nat
        /\ acked[f] + Cardinality(Paid(f)) <= handled[f]
        /\ (MaxRetries + 1) * dead[f] + Cardinality(Tries(f)) <= failed[f]
  BY AccountsFinite DEF ContractInv, AcksPaid, BurialsPaid, TypeOK, Counters
<1>2. ASSUME UNCHANGED <<acked, dead, handled, failed>>,
             \A f \in Events : /\ Cardinality(Paid(f))' <= Cardinality(Paid(f))
                               /\ Cardinality(Tries(f))' <= Cardinality(Tries(f))
      PROVE  AcksPaid' /\ BurialsPaid'
  <2>1. ASSUME NEW f \in Events
        PROVE  /\ acked'[f] + Cardinality(Paid(f))' <= handled'[f]
               /\ (MaxRetries + 1) * dead'[f] + Cardinality(Tries(f))' <= failed'[f]
    BY <1>1, <1>2
  <2>. QED BY <2>1 DEF AcksPaid, BurialsPaid
<1>3. ASSUME UNCHANGED <<acked, dead, handled, failed>>, UNCHANGED runner
      PROVE  AcksPaid' /\ BurialsPaid'
  <2>1. \A f \in Events : Paid(f)' = Paid(f) /\ Tries(f)' = Tries(f)
    BY <1>3, SameAccounts
  <2>2. \A f \in Events : /\ Cardinality(Paid(f))' <= Cardinality(Paid(f))
                          /\ Cardinality(Tries(f))' <= Cardinality(Tries(f))
    BY <1>1, <2>1
  <2>. QED BY <1>2, <1>3, <2>2
<1>4. ASSUME NEW e \in Events,
             \/ Publish(e) \/ BrokerAccepts(e) \/ Confirm(e)
             \/ PublishFails(e) \/ PublishRetries(e) \/ PublisherDies(e)
      PROVE  AcksPaid' /\ BurialsPaid'
  BY <1>3, <1>4, PublishLeavesRuns
<1>5. CASE Start \/ Reconnect
  BY <1>3, <1>5 DEF Start, Reconnect
<1>6. CASE ConnectionLost \/ Crash
  <2>1. \A f \in Events : /\ Cardinality(Paid(f))' <= Cardinality(Paid(f))
                          /\ Cardinality(Tries(f))' <= Cardinality(Tries(f))
    BY <1>6, BreakEndsRuns, FewerAccounts
  <2>. QED BY <1>2, <1>6, <2>1, BreakEndsRuns
<1>7. ASSUME NEW k \in Runners, NEW e \in Events, Deliver(k, e)
      PROVE  AcksPaid' /\ BurialsPaid'
  <2>2. /\ runner'[k] # None /\ runner'[k].event = e
        /\ runner'[k].pc = "run" /\ runner'[k].attempt = 0
        /\ \A j \in Runners \ {k} : runner'[j] = runner[j]
        /\ ~Busy(k) /\ UNCHANGED <<acked, dead, handled, failed>>
    BY <1>7, DeliverStartsRun
  <2>3. \A f \in Events \ {e} : Paid(f)' = Paid(f) /\ Tries(f)' = Tries(f)
    BY <2>2, SameAccounts
  <2>4. RunsOn(e)' = RunsOn(e) \cup {k} /\ k \notin RunsOn(e)
    BY <2>2 DEF RunsOn, Busy
  <2>5. Paid(e)' \subseteq Paid(e)
    <3>1. ASSUME NEW j \in RunsOn(e)', runner'[j].pc \in {"acted", "acking"}
          PROVE  j \in RunsOn(e) /\ runner'[j] = runner[j]
      <4>1. j # k
        BY <2>2, <3>1
      <4>. QED BY <2>2, <2>4, <4>1 DEF RunsOn
    <3>. QED BY <3>1 DEF Paid
  <2>6. Tries(e)' \subseteq Tries(e)
    BY <2>2, <2>4 DEF Tries, Tried
  <2>7. \A f \in Events : Paid(f)' \subseteq Paid(f) /\ Tries(f)' \subseteq Tries(f)
    BY <2>3, <2>5, <2>6
  <2>8. \A f \in Events : /\ Cardinality(Paid(f))' <= Cardinality(Paid(f))
                          /\ Cardinality(Tries(f))' <= Cardinality(Tries(f))
    BY <2>7, AccountsFinite, FS_Subset
  <2>. QED BY <1>2, <2>2, <2>8
<1>. QED BY <1>4, <1>5, <1>6, <1>7, RunPays DEF Next

\* The invariant is inductive.
LEMMA ContractInvInductive ==
  TypeOK /\ TypeOK' /\ ContractInv /\ [Next]_vars => ContractInv'
<1>1. CASE UNCHANGED vars
  BY <1>1, SameAccounts DEF ContractInv, KeptInv, CopyKept, AcksPaid, BurialsPaid, Held, Live,
                            Busy, RunsOn, vars
<1>2. CASE Next
  BY <1>2, KeptInvInductive, CopyStays, AccountsStay DEF ContractInv, ProofInv
<1>. QED BY <1>1, <1>2
-----------------------------------------------------------------------------
(* The bus takes the contract's steps *)

\* What the contract sees of a step.
LEMMA NothingOfContract ==
  ASSUME UNCHANGED <<declared, acked, dead, handled, failed, missed>>,
         \A e \in Events : Open(e)' = Open(e),
         \A e \in Events : pub'[e].pc = "confirmed" <=> pub[e].pc = "confirmed"
  PROVE  UNCHANGED Contract!vars
<1>1. [e \in Events |-> Open(e)]' = [e \in Events |-> Open(e)]
  OBVIOUS
<1>2. {e \in Events : pub[e].pc = "confirmed"}' = {e \in Events : pub[e].pc = "confirmed"}
  OBVIOUS
<1>. QED BY <1>1, <1>2 DEF Contract!vars

\* Copies are counted, and an event the broker holds is accepted.
LEMMA OpenCounts ==
  ASSUME TypeOK, NEW e \in Events
  PROVE  /\ Open(e) \in Nat
         /\ ready[e] > 0 \/ LiveOn(e) # {} => Open(e) > 0
         /\ Held(e) => Contract!Accepted(e)
<1>1. /\ ready[e] \in Nat /\ acked[e] \in Nat /\ dead[e] \in Nat
      /\ Cardinality(LiveOn(e)) \in Nat
      /\ LiveOn(e) # {} => Cardinality(LiveOn(e)) > 0
  BY LiveCount DEF TypeOK, Counters
<1>2. Open(e) \in Nat /\ (ready[e] > 0 \/ LiveOn(e) # {} => Open(e) > 0)
  BY <1>1 DEF Open
<1>3. ASSUME Held(e) PROVE Contract!Accepted(e)
  <2>1. Open(e) > 0 \/ acked[e] > 0 \/ dead[e] > 0
    BY <1>2, <1>3 DEF Held, LiveOn
  <2>2. Open(e) + acked[e] + dead[e] > 0
    BY <1>1, <1>2, <2>1
  <2>. QED BY <2>2 DEF Contract!Accepted
<1>. QED BY <1>2, <1>3

\* With the runs left alone a copy is in the queue or with the run that had it.
LEMMA OpenFollowsQueue ==
  ASSUME NEW e \in Events,
         \A j \in Runners : runner'[j] = runner[j] \/
           /\ Busy(j) => runner[j].event # e
           /\ runner'[j] # None => runner'[j].event # e
  PROVE  /\ LiveOn(e)' = LiveOn(e)
         /\ ready'[e] = ready[e] => Open(e)' = Open(e)
<1>1. LiveOn(e)' = LiveOn(e)
  BY DEF LiveOn, Live, Busy
<1>. QED BY <1>1 DEF Open

\* Taking deliveries back moves copies and makes none.
LEMMA RequeueKeepsOpen ==
  ASSUME TypeOK, Requeue, \A j \in Runners : runner'[j] # None => runner'[j].live = FALSE,
         NEW e \in Events
  PROVE  Open(e)' = Open(e)
<1>1. LiveOn(e)' = {}
  BY DEF LiveOn, Live, Busy
<1>2. Cardinality(LiveOn(e)') = 0
  BY <1>1, FS_EmptySet
<1>3. ready'[e] = Open(e) /\ Open(e) \in Nat
  BY OpenCounts DEF Requeue
<1>. QED BY <1>2, <1>3 DEF Open

\* A publisher has its message accepted, or missed, and promises an event the broker
\* has; its failures and its retries are none of the contract's business.
LEMMA PublishImplements ==
  ASSUME TypeOK, ContractInv, NEW e \in Events,
         \/ Publish(e) \/ BrokerAccepts(e) \/ Confirm(e)
         \/ PublishFails(e) \/ PublishRetries(e) \/ PublisherDies(e)
  PROVE  Contract!Next \/ UNCHANGED Contract!vars
<1>1. /\ UNCHANGED <<declared, runner, acked, dead, handled, failed>>
      /\ \A f \in Events : ready'[f] = ready[f] => Open(f)' = Open(f)
  BY PublishLeavesRuns, OpenFollowsQueue
<1>2. /\ pub[e] \in PubState /\ ready[e] \in Nat
      /\ \A f \in Events \ {e} : pub'[f] = pub[f]
  BY DEF TypeOK, Counters, Publish, BrokerAccepts, Confirm, PublishFails,
         PublishRetries, PublisherDies
<1>3. CASE Publish(e) \/ PublishFails(e) \/ PublishRetries(e) \/ PublisherDies(e)
  <2>1. UNCHANGED <<ready, missed>>
    BY <1>3 DEF Publish, PublishFails, PublishRetries, PublisherDies
  <2>2. pub'[e].pc # "confirmed" /\ pub[e].pc # "confirmed"
    BY <1>2, <1>3 DEF Publish, PublishFails, PublishRetries, PublisherDies, TypeOK, PubState
  <2>3. \A f \in Events : pub'[f].pc = "confirmed" <=> pub[f].pc = "confirmed"
    BY <1>2, <2>2
  <2>. QED BY <1>1, <2>1, <2>3, NothingOfContract
<1>4. CASE BrokerAccepts(e)
  <2>1. pub'[e].pc # "confirmed" /\ pub[e].pc # "confirmed"
    BY <1>2, <1>4 DEF BrokerAccepts, TypeOK, PubState
  <2>2. {f \in Events : pub[f].pc = "confirmed"}' = {f \in Events : pub[f].pc = "confirmed"}
    BY <1>2, <2>1
  <2>3. CASE declared
    <3>1. ready' = [ready EXCEPT ![e] = @ + 1] /\ UNCHANGED missed
      BY <1>4, <2>3 DEF BrokerAccepts
    <3>2. /\ ready'[e] = ready[e] + 1 /\ \A f \in Events \ {e} : ready'[f] = ready[f]
      BY <3>1 DEF TypeOK, Counters
    <3>3. LiveOn(e)' = LiveOn(e) /\ Cardinality(LiveOn(e)) \in Nat
      BY <1>1, LiveCount, OpenFollowsQueue
    <3>4. Open(e)' = Open(e) + 1
      BY <1>2, <3>2, <3>3 DEF Open
    <3>5. [f \in Events |-> Open(f)]' =
            [[f \in Events |-> Open(f)] EXCEPT ![e] = @ + 1]
      BY <1>1, <3>2, <3>4
    <3>6. Contract!Accept(e)
      BY <1>1, <2>2, <2>3, <3>1, <3>5 DEF Contract!Accept
    <3>. QED BY <3>6 DEF Contract!Next
  <2>4. CASE ~declared
    <3>1. missed' = missed \cup {e} /\ UNCHANGED ready
      BY <1>4, <2>4 DEF BrokerAccepts
    <3>2. [f \in Events |-> Open(f)]' = [f \in Events |-> Open(f)]
      BY <1>1, <3>1
    <3>3. Contract!Miss(e)
      BY <1>1, <2>2, <2>4, <3>1, <3>2 DEF Contract!Miss
    <3>. QED BY <3>3 DEF Contract!Next
  <2>. QED BY <2>3, <2>4
<1>5. CASE Confirm(e)
  <2>1. /\ pub[e].pc = "accepted" /\ pub'[e].pc = "confirmed" /\ UNCHANGED <<ready, missed>>
    BY <1>2, <1>5 DEF Confirm, TypeOK, PubState
  <2>2. {f \in Events : pub[f].pc = "confirmed"}' =
          {f \in Events : pub[f].pc = "confirmed"} \cup {e}
    BY <1>2, <2>1
  <2>3. Contract!Accepted(e) \/ e \in missed
    BY <2>1, OpenCounts DEF ContractInv, KeptInv
  <2>4. [f \in Events |-> Open(f)]' = [f \in Events |-> Open(f)]
    BY <1>1, <2>1
  <2>5. Contract!Promise(e)
    BY <1>1, <2>1, <2>2, <2>3, <2>4 DEF Contract!Promise
  <2>. QED BY <2>5 DEF Contract!Next
<1>. QED BY <1>3, <1>4, <1>5

\* A run that moves on takes its copy with it.
LEMMA MovedOpen ==
  ASSUME TypeOK, NEW k \in Runners, Busy(k), NEW s \in Run,
         s.event = runner[k].event, s.live = runner[k].live,
         runner' = [runner EXCEPT ![k] = s], UNCHANGED ready, NEW f \in Events
  PROVE  Open(f)' = Open(f)
<1>1. /\ runner'[k] = s /\ s # None /\ \A j \in Runners \ {k} : runner'[j] = runner[j]
  BY DEF TypeOK
<1>2. LiveOn(f)' = LiveOn(f)
  BY <1>1 DEF LiveOn, Live, Busy
<1>. QED BY <1>2 DEF Open

\* What reaches the broker settles one copy, with an effect or with all its failures.
LEMMA SettleImplements ==
  ASSUME TypeOK, ContractInv, NEW k \in Runners, BrokerSettles(k)
  PROVE  Contract!Next
<1>1. Busy(k) /\ runner[k] \in Run /\ runner[k].live
  BY BusyRun DEF BrokerSettles, Live
<1>. PICK e \in Events : e = runner[k].event
  BY <1>1 DEF Run
<1>2. /\ runner'[k] = None /\ \A j \in Runners \ {k} : runner'[j] = runner[j]
      /\ UNCHANGED <<declared, pub, ready, missed, handled, failed>>
  BY DEF BrokerSettles, TypeOK
<1>3. /\ acked[e] \in Nat /\ dead[e] \in Nat /\ handled[e] \in Nat /\ failed[e] \in Nat
      /\ ready[e] \in Nat /\ (MaxRetries + 1) * dead[e] \in Nat
  BY DEF TypeOK, Counters
<1>4. k \in LiveOn(e) /\ LiveOn(e)' = LiveOn(e) \ {k}
  BY <1>1, <1>2 DEF LiveOn, Live, Busy
<1>5. IsFiniteSet(LiveOn(e))
  BY FS_Subset DEF LiveOn
<1>6. Cardinality(LiveOn(e) \ {k}) = Cardinality(LiveOn(e)) - 1
  BY <1>4, <1>5, FS_RemoveElement
<1>7. Cardinality(LiveOn(e)) \in Nat /\ Open(e) > 0
  BY <1>4, LiveCount, OpenCounts
<1>8. Open(e)' = Open(e) - 1
  BY <1>2, <1>3, <1>4, <1>6, <1>7 DEF Open
<1>9. \A f \in Events \ {e} : Open(f)' = Open(f)
  BY <1>2, OpenFollowsQueue
<1>10. [f \in Events |-> Open(f)]' = [[f \in Events |-> Open(f)] EXCEPT ![e] = @ - 1]
  BY <1>8, <1>9
<1>11. {f \in Events : pub[f].pc = "confirmed"}' = {f \in Events : pub[f].pc = "confirmed"}
  BY <1>2
<1>12. k \in RunsOn(e)
  BY <1>1 DEF RunsOn
<1>13. CASE runner[k].pc = "acking"
  <2>1. acked' = [acked EXCEPT ![e] = @ + 1] /\ UNCHANGED dead
    BY <1>13 DEF BrokerSettles
  <2>2. k \in Paid(e)
    BY <1>12, <1>13 DEF Paid
  <2>3. Cardinality(Paid(e)) > 0 /\ Cardinality(Paid(e)) \in Nat
    BY <2>2, AccountsFinite, FS_EmptySet
  <2>4. handled[e] > acked[e]
    BY <1>3, <2>3 DEF ContractInv, AcksPaid
  <2>5. Contract!Settle(e)
    BY <1>2, <1>7, <1>10, <1>11, <2>1, <2>4 DEF Contract!Settle
  <2>. QED BY <2>5 DEF Contract!Next
<1>14. CASE runner[k].pc = "rejecting"
  <2>1. dead' = [dead EXCEPT ![e] = @ + 1] /\ UNCHANGED acked
    BY <1>14 DEF BrokerSettles
  <2>2. {k} \X (1 .. MaxRetries + 1) \subseteq Tries(e)
    BY <1>12, <1>14 DEF Tries, Tried
  <2>3. Cardinality({k} \X (1 .. MaxRetries + 1)) = MaxRetries + 1
    BY RunTries
  <2>4. Cardinality({k} \X (1 .. MaxRetries + 1)) <= Cardinality(Tries(e))
    BY <2>2, AccountsFinite, FS_Subset
  <2>5. Cardinality(Tries(e)) \in Nat
    BY AccountsFinite
  <2>6. (MaxRetries + 1) * dead[e] + Cardinality(Tries(e)) <= failed[e]
    BY DEF ContractInv, BurialsPaid
  <2>7. (MaxRetries + 1) * dead[e] + (MaxRetries + 1) <= failed[e]
    BY <1>3, <2>3, <2>4, <2>5, <2>6
  <2>8. (MaxRetries + 1) * (dead[e] + 1) = (MaxRetries + 1) * dead[e] + (MaxRetries + 1)
    BY <1>3
  <2>9. failed[e] >= (MaxRetries + 1) * (dead[e] + 1)
    BY <1>3, <2>7, <2>8
  <2>10. Contract!Bury(e)
    BY <1>2, <1>7, <1>10, <1>11, <2>1, <2>9 DEF Contract!Bury
  <2>. QED BY <2>10 DEF Contract!Next
<1>. QED BY <1>13, <1>14 DEF BrokerSettles

\* A run of the callback takes effect, fails, or does what the contract cannot see;
\* the broker settles what it answers.
LEMMA RunImplements ==
  ASSUME TypeOK, ContractInv, NEW k \in Runners, RunnerStep(k)
  PROVE  Contract!Next \/ UNCHANGED Contract!vars
<1>1. Busy(k) /\ runner[k] \in Run /\ UNCHANGED <<declared, pub, missed>>
  BY RunMoves, BusyRun
<1>. PICK e \in Events : e = runner[k].event
  BY <1>1 DEF Run
<1>2. Contract!Accepted(e)
  <2>1. k \in RunsOn(e)
    BY <1>1 DEF RunsOn
  <2>. QED BY <2>1, OpenCounts DEF ContractInv, CopyKept
<1>3. {f \in Events : pub[f].pc = "confirmed"}' = {f \in Events : pub[f].pc = "confirmed"}
  BY <1>1
<1>4. ASSUME UNCHANGED <<acked, dead, failed>>, \A f \in Events : Open(f)' = Open(f),
             handled'[e] = handled[e] + 1,
             \A f \in Events \ {e} : handled'[f] = handled[f], TypeOK'
      PROVE  Contract!Next
  <2>1. handled' = [handled EXCEPT ![e] = @ + 1]
    BY <1>4 DEF TypeOK, Counters
  <2>2. [f \in Events |-> Open(f)]' = [f \in Events |-> Open(f)]
    BY <1>4
  <2>3. Contract!Handle(e)
    BY <1>1, <1>2, <1>3, <1>4, <2>1, <2>2 DEF Contract!Handle
  <2>. QED BY <2>3 DEF Contract!Next
<1>5. ASSUME UNCHANGED <<acked, dead, handled>>, \A f \in Events : Open(f)' = Open(f),
             failed'[e] = failed[e] + 1,
             \A f \in Events \ {e} : failed'[f] = failed[f], TypeOK'
      PROVE  Contract!Next
  <2>1. failed' = [failed EXCEPT ![e] = @ + 1]
    BY <1>5 DEF TypeOK, Counters
  <2>2. [f \in Events |-> Open(f)]' = [f \in Events |-> Open(f)]
    BY <1>5
  <2>3. Contract!FailRun(e)
    BY <1>1, <1>2, <1>3, <1>5, <2>1, <2>2 DEF Contract!FailRun
  <2>. QED BY <2>3 DEF Contract!Next
<1>6. TypeOK'
  BY RunnerTypes
<1>7. ASSUME NEW s \in Run, s.event = e, s.live = runner[k].live,
             runner' = [runner EXCEPT ![k] = s], UNCHANGED <<ready, acked, dead>>,
             \/ /\ handled'[e] = handled[e] + 1 /\ UNCHANGED failed
                /\ \A f \in Events \ {e} : handled'[f] = handled[f]
             \/ UNCHANGED <<handled, failed>>
             \/ /\ failed'[e] = failed[e] + 1 /\ UNCHANGED handled
                /\ \A f \in Events \ {e} : failed'[f] = failed[f]
      PROVE  Contract!Next \/ UNCHANGED Contract!vars
  <2>1. \A f \in Events : Open(f)' = Open(f)
    BY <1>1, <1>7, MovedOpen
  <2>2. CASE UNCHANGED <<handled, failed>>
    BY <1>1, <1>7, <2>1, <2>2, NothingOfContract
  <2>. QED BY <1>4, <1>5, <1>6, <1>7, <2>1, <2>2
<1>8. CASE BrokerSettles(k)
  BY <1>8, SettleImplements
<1>9. CASE /\ Die /\ failed'[e] = failed[e] + 1 /\ UNCHANGED <<handled, acked, dead>>
           /\ \A f \in Events \ {e} : failed'[f] = failed[f]
  <2>1. \A f \in Events : Open(f)' = Open(f)
    BY <1>9, RequeueKeepsOpen DEF Die
  <2>. QED BY <1>5, <1>6, <1>9, <2>1
<1>. QED BY <1>7, <1>8, <1>9, RunMoves

\* Starting binds the queue; the connection's other troubles, and a crash, move
\* copies about.
LEMMA ConsumerImplements ==
  ASSUME TypeOK, Start \/ ConnectionLost \/ Reconnect \/ Crash
  PROVE  Contract!Next \/ UNCHANGED Contract!vars
<1>1. CASE Start
  <2>1. declared' = TRUE /\ UNCHANGED <<pub, ready, acked, dead, missed, runner, handled, failed>>
    BY <1>1 DEF Start
  <2>2. \A f \in Events : Open(f)' = Open(f)
    BY <2>1, OpenFollowsQueue
  <2>3. [f \in Events |-> Open(f)]' = [f \in Events |-> Open(f)]
    BY <2>2
  <2>4. {f \in Events : pub[f].pc = "confirmed"}' = {f \in Events : pub[f].pc = "confirmed"}
    BY <2>1
  <2>5. Contract!Bind
    BY <2>1, <2>3, <2>4 DEF Contract!Bind
  <2>. QED BY <2>5 DEF Contract!Next
<1>2. CASE Reconnect
  <2>1. UNCHANGED <<declared, pub, ready, acked, dead, missed, runner, handled, failed>>
    BY <1>2 DEF Reconnect
  <2>2. \A f \in Events : Open(f)' = Open(f)
    BY <2>1, OpenFollowsQueue
  <2>. QED BY <2>1, <2>2, NothingOfContract
<1>3. CASE ConnectionLost \/ Crash
  <2>1. /\ Requeue /\ UNCHANGED <<declared, pub, missed, acked, dead, handled, failed>>
        /\ \A j \in Runners : runner'[j] # None => runner'[j].live = FALSE
    BY <1>3, BreakEndsRuns
  <2>2. \A f \in Events : Open(f)' = Open(f)
    BY <2>1, RequeueKeepsOpen
  <2>. QED BY <2>1, <2>2, NothingOfContract
<1>. QED BY <1>1, <1>2, <1>3

\* A delivery moves a copy from the queue to a run: the broker still holds it.
LEMMA DeliverImplements ==
  ASSUME TypeOK, NEW k \in Runners, NEW e \in Events, Deliver(k, e)
  PROVE  UNCHANGED Contract!vars
<1>1. /\ runner'[k] # None /\ runner'[k].event = e /\ runner'[k].live /\ ~Busy(k)
      /\ \A j \in Runners \ {k} : runner'[j] = runner[j]
      /\ UNCHANGED <<declared, pub, missed, acked, dead, handled, failed>>
  BY DeliverStartsRun
<1>2. /\ ready[e] > 0 /\ ready[e] \in Nat /\ ready'[e] = ready[e] - 1
      /\ \A f \in Events \ {e} : ready'[f] = ready[f]
  BY DEF Deliver, TypeOK, Counters
<1>3. LiveOn(e)' = LiveOn(e) \cup {k} /\ k \notin LiveOn(e)
  BY <1>1 DEF LiveOn, Live, Busy
<1>4. IsFiniteSet(LiveOn(e))
  BY FS_Subset DEF LiveOn
<1>5. Cardinality(LiveOn(e) \cup {k}) = Cardinality(LiveOn(e)) + 1
  BY <1>3, <1>4, FS_AddElement
<1>6. Open(e)' = Open(e)
  BY <1>2, <1>3, <1>5, LiveCount DEF Open
<1>7. \A f \in Events \ {e} : Open(f)' = Open(f)
  BY <1>1, <1>2, OpenFollowsQueue
<1>8. \A f \in Events : Open(f)' = Open(f)
  BY <1>6, <1>7
<1>. QED BY <1>1, <1>8, NothingOfContract

\* publishEvent and registerConsumer keep the contract: an event whose publish
\* returned is in the queue, handled or dead-lettered, every ack is paid for by an
\* effect and every dead letter by all the runs it stands for (KeepsContract),
\* for any number of events, retries, prefetch places and connection losses.
THEOREM BusKeepsContract == Spec => KeepsContract
<1>1. Init => Contract!Init
  <2>. SUFFICES ASSUME Init PROVE Contract!Init
    OBVIOUS
  <2>1. \A e \in Events : LiveOn(e) = {} /\ ready[e] = 0
    BY DEF Init, LiveOn, Live, Busy
  <2>2. \A e \in Events : Open(e) = 0
    BY <2>1, FS_EmptySet DEF Open
  <2>3. {e \in Events : pub[e].pc = "confirmed"} = {}
    BY DEF Init
  <2>. QED BY <2>2, <2>3 DEF Init, Contract!Init, Contract!Zero
<1>2. Init => ContractInv
  <2>. SUFFICES ASSUME Init PROVE ContractInv
    OBVIOUS
  <2>1. \A e \in Events : RunsOn(e) = {}
    BY DEF Init, RunsOn, Busy
  <2>2. \A e \in Events : Paid(e) = {} /\ Tries(e) = {}
    BY <2>1 DEF Paid, Tries
  <2>3. \A e \in Events : /\ acked[e] = 0 /\ dead[e] = 0 /\ handled[e] = 0 /\ failed[e] = 0
                          /\ pub[e].pc = "new"
    BY DEF Init
  <2>4. KeptInv /\ CopyKept
    BY <2>1, <2>3 DEF KeptInv, CopyKept
  <2>5. Cardinality({}) = 0
    BY FS_EmptySet
  <2>6. (MaxRetries + 1) * 0 = 0
    OBVIOUS
  <2>7. ASSUME NEW e \in Events
        PROVE  /\ acked[e] + Cardinality(Paid(e)) = 0
               /\ (MaxRetries + 1) * dead[e] + Cardinality(Tries(e)) = 0
    <3>1. Cardinality(Paid(e)) = 0 /\ Cardinality(Tries(e)) = 0
      BY <2>2, <2>5
    <3>2. (MaxRetries + 1) * dead[e] = 0
      BY <2>3, <2>6
    <3>. QED BY <2>3, <3>1, <3>2
  <2>8. AcksPaid /\ BurialsPaid
    BY <2>3, <2>7 DEF AcksPaid, BurialsPaid
  <2>. QED BY <2>4, <2>8 DEF ContractInv
<1>3. TypeOK /\ TypeOK' /\ ContractInv /\ [Next]_vars => ContractInv'
  BY ContractInvInductive
<1>4. TypeOK /\ ContractInv /\ [Next]_vars => [Contract!Next]_(Contract!vars)
  <2>1. ASSUME TypeOK, ContractInv, Next
        PROVE  Contract!Next \/ UNCHANGED Contract!vars
    BY <2>1, PublishImplements, ConsumerImplements, DeliverImplements, RunImplements DEF Next
  <2>2. ASSUME UNCHANGED vars
        PROVE  UNCHANGED Contract!vars
    <3>1. \A f \in Events : Open(f)' = Open(f)
      BY <2>2, OpenFollowsQueue DEF vars
    <3>. QED BY <2>2, <3>1, NothingOfContract DEF vars
  <2>. QED BY <2>1, <2>2
<1>. QED BY <1>1, <1>2, <1>3, <1>4, TypeCorrect, PTL DEF Spec, KeepsContract, Contract!Spec
=============================================================================
