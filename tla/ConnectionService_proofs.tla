----------------------- MODULE ConnectionService_proofs -----------------------
(***************************************************************************)
(* Proofs about the social graph, for any users, handlers and row ids.     *)
(* Every step touches one handler's local state (TouchesOnly), changes a   *)
(* row only within its pair or creates one nobody addresses (RowStep), and *)
(* only adds to consent; these three facts frame the other handlers.       *)
(***************************************************************************)
EXTENDS ConnectionService, TLAPS

TouchesOnly(h) ==
  /\ handler' \in [Handlers -> HandlerState]
  /\ \A k \in Handlers \ {h} : handler'[k] = handler[k]

\* Row i keeps its pair, disappears, or is new under a key no handler holds.
RowStep ==
  \A i \in RowIds :
    row'[i] # None =>
      \/ row[i] # None /\ IsBetween(row'[i], row[i].requester, row[i].addressee)
      \/ Fresh(i)

\* What a step has to establish for the handler it belongs to and for the rows.
StepFacts(h) ==
  /\ TouchesOnly(h)
  /\ RowStep
  /\ consent \subseteq consent'
  /\ row' \in [RowIds -> Row \cup {None}]
  /\ (AddressesItsPair(h) /\ AnswersARequest(h))'
  /\ \A i \in RowIds : Consented(i)'
  /\ \A e \in accepted' : e \in consent' /\ <<e[2], e[1]>> \in consent'

\* A handler that is not running is a handler state.
LEMMA IdleType == Idle \in HandlerState
BY DEF Idle, HandlerState, PCs

\* The handlers a step does not touch keep their part of the invariant.
LEMMA Framing ==
  ASSUME ConsentInv, NEW h \in Handlers, TouchesOnly(h), RowStep, consent \subseteq consent'
  PROVE  \A k \in Handlers \ {h} : (AddressesItsPair(k) /\ AnswersARequest(k))'
<1> SUFFICES ASSUME NEW k \in Handlers \ {h}
             PROVE  (AddressesItsPair(k) /\ AnswersARequest(k))'
  OBVIOUS
<1>0. handler'[k] = handler[k] /\ AddressesItsPair(k) /\ AnswersARequest(k)
  BY DEF TouchesOnly, ConsentInv
<1>1. AnswersARequest(k)'
  BY <1>0 DEF AnswersARequest
<1>2. ASSUME handler[k].pc \in HoldsRow, row'[handler[k].id] # None
      PROVE  IsBetween(row'[handler[k].id], handler[k].me, handler[k].other)
  <2>1. handler[k].id \in RowIds /\ ~Fresh(handler[k].id)
    BY <1>0, <1>2 DEF AddressesItsPair, Fresh
  <2>2. /\ row[handler[k].id] # None
        /\ IsBetween(row'[handler[k].id], row[handler[k].id].requester,
                                          row[handler[k].id].addressee)
    BY <1>2, <2>1 DEF RowStep
  <2>3. IsBetween(row[handler[k].id], handler[k].me, handler[k].other)
    BY <1>0, <1>2, <2>2 DEF AddressesItsPair
  <2> QED
    BY <2>2, <2>3 DEF IsBetween
<1>3. AddressesItsPair(k)'
  BY <1>0, <1>2 DEF AddressesItsPair
<1> QED
  BY <1>1, <1>3

\* Starting a handler on known users touches that handler only.
LEMMA StartFacts ==
  ASSUME ConsentInv, NEW h \in Handlers, NEW st \in HandlerState, Start(h, st)
  PROVE  TouchesOnly(h) /\ handler'[h] = st
BY DEF Start, TouchesOnly, ConsentInv, TypeOK

\* A handler that moves on keeps what it loaded, and no other is touched.
LEMMA ContinueFacts ==
  ASSUME ConsentInv, NEW h \in Handlers, NEW pc \in PCs, Continue(h, pc)
  PROVE  /\ TouchesOnly(h)
         /\ handler'[h] = [handler[h] EXCEPT !.pc = pc]
         /\ handler[h] \in HandlerState
BY DEF Continue, TouchesOnly, ConsentInv, TypeOK, HandlerState

\* An idle handler satisfies its part of the invariant.
LEMMA IdleFacts ==
  ASSUME ConsentInv, NEW h \in Handlers, handler' = [handler EXCEPT ![h] = Idle]
  PROVE  TouchesOnly(h) /\ (AddressesItsPair(h) /\ AnswersARequest(h))'
<1>1. handler'[h] = Idle
  BY DEF ConsentInv, TypeOK
<1>2. TouchesOnly(h)
  BY IdleType DEF TouchesOnly, ConsentInv, TypeOK
<1>3. (AddressesItsPair(h) /\ AnswersARequest(h))'
  BY <1>1 DEF AddressesItsPair, AnswersARequest, Idle, HoldsRow
<1> QED
  BY <1>2, <1>3

\* What stays true of the rows when none of them changes.
LEMMA SameRows ==
  ASSUME ConsentInv, row' = row, consent \subseteq consent'
  PROVE  /\ RowStep
         /\ row' \in [RowIds -> Row \cup {None}]
         /\ \A i \in RowIds : Consented(i)'
<1>1. RowStep
  BY DEF RowStep, IsBetween
<1>2. \A i \in RowIds : Consented(i)'
  BY DEF ConsentInv, Consented
<1> QED
  BY <1>1, <1>2 DEF ConsentInv, TypeOK

\* A status written by id keeps the rows' pairs; only ACCEPTED needs consent.
LEMMA SetStatusFacts ==
  ASSUME ConsentInv, NEW id \in RowIds, NEW st \in Status, SetStatus(id, st),
         consent \subseteq consent',
         (st = "ACCEPTED" /\ row[id] # None) =>
            <<row[id].addressee, row[id].requester>> \in consent'
  PROVE  /\ RowStep
         /\ row' \in [RowIds -> Row \cup {None}]
         /\ \A i \in RowIds : Consented(i)'
<1>0. row \in [RowIds -> Row \cup {None}] /\ \A i \in RowIds : Consented(i)
  BY DEF ConsentInv, TypeOK
<1>1. CASE row[id] = None
  <2>1. row' = row
    BY <1>1 DEF SetStatus
  <2> QED
    BY <2>1, SameRows
<1>2. CASE row[id] # None
  <2>1. row[id] \in Row
    BY <1>0, <1>2
  <2>2. /\ row' = [row EXCEPT ![id] = [row[id] EXCEPT !.status = st]]
        /\ [row[id] EXCEPT !.status = st] \in Row
    BY <1>0, <1>2, <2>1 DEF SetStatus, Row
  <2>3. \A i \in RowIds \ {id} : row'[i] = row[i]
    BY <1>0, <2>2
  <2>4. /\ row'[id].requester = row[id].requester
        /\ row'[id].addressee = row[id].addressee
        /\ row'[id].status = st
    BY <1>0, <2>1, <2>2 DEF Row
  <2>5. RowStep
    <3> SUFFICES ASSUME NEW i \in RowIds, row'[i] # None
                 PROVE  row[i] # None /\ IsBetween(row'[i], row[i].requester, row[i].addressee)
      BY DEF RowStep
    <3> QED
      BY <1>2, <2>3, <2>4 DEF IsBetween
  <2>6. \A i \in RowIds : Consented(i)'
    BY <1>0, <1>2, <2>3, <2>4 DEF Consented
  <2>7. row' \in [RowIds -> Row \cup {None}]
    BY <1>0, <2>2
  <2> QED
    BY <2>5, <2>6, <2>7
<1> QED
  BY <1>1, <1>2

\* DELETE by id.
LEMMA DeleteFacts ==
  ASSUME ConsentInv, NEW id \in RowIds, row' = [row EXCEPT ![id] = None],
         consent \subseteq consent'
  PROVE  /\ RowStep
         /\ row' \in [RowIds -> Row \cup {None}]
         /\ \A i \in RowIds : Consented(i)'
<1>0. row \in [RowIds -> Row \cup {None}] /\ \A i \in RowIds : Consented(i)
  BY DEF ConsentInv, TypeOK
<1>1. \A i \in RowIds : row'[i] = IF i = id THEN None ELSE row[i]
  BY <1>0
<1>2. RowStep
  BY <1>1 DEF RowStep, IsBetween
<1>3. \A i \in RowIds : Consented(i)'
  BY <1>0, <1>1 DEF Consented
<1>4. row' \in [RowIds -> Row \cup {None}]
  BY <1>0
<1> QED
  BY <1>2, <1>3, <1>4

\* The accepted events stay truthful when none is added.
LEMMA SameEvents ==
  ASSUME ConsentInv, accepted' = accepted, consent \subseteq consent'
  PROVE  \A e \in accepted' : e \in consent' /\ <<e[2], e[1]>> \in consent'
BY DEF ConsentInv, AcceptedEventsTruthful

\* Handlers that begin: they read, and leave rows, events and consent alone.
LEMMA BeginStep ==
  ASSUME ConsentInv, NEW h \in Handlers, Begin(h)
  PROVE  StepFacts(h)
<1>0. UNCHANGED <<row, accepted, consent>>
  BY DEF Begin, RequestCheckBlock, BlockCreate, FollowCheckBlock, AcceptLoad, RejectLoad,
     WithdrawLoad
<1>1. CASE \E u, v \in Users : \/ RequestCheckBlock(h, u, v)
                                \/ BlockCreate(h, u, v)
                                \/ FollowCheckBlock(h, u, v)
  <2>1. PICK u \in Users, v \in Users,
             pc \in {"request.find", "block.follows1", "follow.create"} :
               Start(h, [Idle EXCEPT !.pc = pc, !.me = u, !.other = v])
    BY <1>1 DEF RequestCheckBlock, BlockCreate, FollowCheckBlock
  <2> DEFINE st == [Idle EXCEPT !.pc = pc, !.me = u, !.other = v]
  <2>2. /\ st \in HandlerState
        /\ st.pc = pc /\ st.me = u /\ st.other = v
    BY DEF Idle, HandlerState, PCs, RequestPCs, BlockPCs
  <2>3. TouchesOnly(h) /\ handler'[h] = st
    BY <2>1, <2>2, StartFacts
  <2>4. (AddressesItsPair(h) /\ AnswersARequest(h))'
    BY <2>2, <2>3 DEF AddressesItsPair, AnswersARequest, HoldsRow
  <2> QED
    BY <1>0, <2>3, <2>4, SameRows, SameEvents DEF StepFacts
<1>2. CASE \E u \in Users, i \in RowIds : \/ AcceptLoad(h, u, i)
                                          \/ RejectLoad(h, u, i)
                                          \/ WithdrawLoad(h, u, i)
  <2>1. PICK u \in Users, i \in RowIds, pc \in AnswerPCs :
               /\ row[i] # None
               /\ u \in {row[i].requester, row[i].addressee}
               /\ pc \in {"accept.write", "accept.publish"} => row[i].addressee = u
               /\ pc # "accept.publish"
               /\ Load(h, u, i, pc)
    BY <1>2 DEF AcceptLoad, RejectLoad, WithdrawLoad, AnswerPCs
  <2>2. row[i] \in Row /\ Consented(i)
    BY <2>1 DEF ConsentInv, TypeOK
  <2> DEFINE other == IF row[i].requester = u THEN row[i].addressee ELSE row[i].requester
             st == [pc |-> pc, me |-> u, other |-> other, id |-> i, loaded |-> row[i]]
  <2>3. st \in HandlerState /\ Start(h, st)
    BY <2>1, <2>2 DEF Load, HandlerState, PCs, Row
  <2>4. TouchesOnly(h) /\ handler'[h] = st
    BY <2>3, StartFacts
  <2>5. IsBetween(row[i], u, other)
    BY <2>1 DEF IsBetween
  <2>6. u \in Users /\ other \in Users
    BY <2>2 DEF Row
  <2>7. AddressesItsPair(h)'
    BY <1>0, <2>4, <2>5, <2>6 DEF AddressesItsPair, AnswerPCs
  <2>8. AnswersARequest(h)'
    BY <1>0, <2>1, <2>2, <2>4 DEF AnswersARequest, Consented
  <2> QED
    BY <1>0, <2>4, <2>7, <2>8, SameRows, SameEvents DEF StepFacts
<1> QED
  BY <1>1, <1>2 DEF Begin

\* Steps that only move the program counter to one that holds no new fact.
LEMMA MoveOn ==
  ASSUME ConsentInv, NEW h \in Handlers, NEW pc \in PCs, Continue(h, pc),
         handler[h].pc # "idle", pc \notin HoldsRow,
         UNCHANGED <<row, accepted>>, consent \subseteq consent'
  PROVE  StepFacts(h)
<1>1. TouchesOnly(h) /\ handler'[h] = [handler[h] EXCEPT !.pc = pc]
      /\ handler[h] \in HandlerState
  BY ContinueFacts
<1>2. handler'[h].pc = pc /\ handler'[h].me = handler[h].me
      /\ handler'[h].other = handler[h].other
  BY <1>1 DEF HandlerState
<1>3. (AddressesItsPair(h) /\ AnswersARequest(h))'
  BY <1>2 DEF ConsentInv, AddressesItsPair, AnswersARequest, HoldsRow
<1> QED
  BY <1>1, <1>3, SameRows, SameEvents DEF StepFacts

\* Steps that end the handler and leave rows and events alone.
LEMMA EndQuietly ==
  ASSUME ConsentInv, NEW h \in Handlers, handler' = [handler EXCEPT ![h] = Idle],
         UNCHANGED <<row, accepted, consent>>
  PROVE  StepFacts(h)
BY IdleFacts, SameRows, SameEvents DEF StepFacts

\* request, after the block check.
LEMMA RequestStep ==
  ASSUME ConsentInv, NEW h \in Handlers,
         RequestFind(h) \/ RequestRevive(h) \/ RequestCreate(h) \/ RequestPublish(h)
  PROVE  StepFacts(h)
<1>0. /\ handler[h] \in HandlerState /\ handler \in [Handlers -> HandlerState]
      /\ AddressesItsPair(h) /\ AnswersARequest(h)
      /\ row \in [RowIds -> Row \cup {None}]
      /\ \A i \in RowIds : Consented(i)
  BY DEF ConsentInv, TypeOK
<1> DEFINE s == handler[h]
<1>1. CASE RequestFind(h)
  <2>1. CASE Continue(h, "request.create")
    BY <1>1, <2>1, MoveOn DEF RequestFind, At, HoldsRow, PCs, RequestPCs
  <2>2. CASE Finish(h)
    BY <1>1, <2>2, EndQuietly DEF RequestFind, Finish
  <2>3. CASE \E i \in RowsBetween(s.me, s.other) :
               handler' = [handler EXCEPT ![h].pc = "request.revive",
                                          ![h].id = i, ![h].loaded = row[i]]
    <3>1. PICK i \in RowsBetween(s.me, s.other) :
               handler' = [handler EXCEPT ![h].pc = "request.revive",
                                          ![h].id = i, ![h].loaded = row[i]]
      BY <2>3
    <3>2. i \in RowIds /\ row[i] # None /\ row[i] \in Row /\ IsBetween(row[i], s.me, s.other)
      BY <1>0, <3>1 DEF RowsBetween, IsBetween
    <3>3. /\ handler'[h].pc = "request.revive"
          /\ handler'[h].id = i /\ handler'[h].loaded = row[i]
          /\ handler'[h].me = s.me /\ handler'[h].other = s.other
          /\ TouchesOnly(h)
      BY <1>0, <3>1, <3>2 DEF HandlerState, TouchesOnly, PCs, RequestPCs
    <3>4. UNCHANGED <<row, accepted, consent>> /\ s.pc = "request.find"
      BY <1>1 DEF RequestFind, At
    <3>5. (AddressesItsPair(h) /\ AnswersARequest(h))'
      BY <1>0, <3>2, <3>3, <3>4 DEF AddressesItsPair, AnswersARequest
    <3> QED
      BY <3>3, <3>4, <3>5, SameRows, SameEvents DEF StepFacts
  <2> QED
    BY <1>1, <2>1, <2>2, <2>3 DEF RequestFind
<1>2. CASE RequestRevive(h)
  <2> DEFINE swap == s.loaded.requester # s.me
  <2>0. s.pc = "request.revive" /\ accepted' = accepted
    BY <1>2 DEF RequestRevive, At
  <2>1. CASE Finish(h) /\ UNCHANGED <<row, consent>>
    BY <2>0, <2>1, EndQuietly DEF Finish
  <2>2. CASE /\ row' = IF row[s.id] = None THEN row
                        ELSE [row EXCEPT ![s.id] =
                               [requester |-> IF swap THEN s.me ELSE @.requester,
                                addressee |-> IF swap THEN s.other ELSE @.addressee,
                                status |-> "PENDING"]]
             /\ consent' = consent \cup {<<s.me, s.other>>}
             /\ Continue(h, "request.publish")
    <3>1. /\ s.id \in RowIds /\ s.me \in Users /\ s.other \in Users
          /\ row[s.id] # None => IsBetween(row[s.id], s.me, s.other)
      BY <1>0, <2>0 DEF AddressesItsPair, HoldsRow
    <3>2. TouchesOnly(h) /\ handler'[h] = [s EXCEPT !.pc = "request.publish"]
      BY <2>2, ContinueFacts DEF PCs, RequestPCs
    <3>3. (AddressesItsPair(h) /\ AnswersARequest(h))'
      BY <1>0, <3>1, <3>2 DEF AddressesItsPair, AnswersARequest, HoldsRow, HandlerState
    <3>4. CASE row[s.id] = None
      BY <2>0, <2>2, <3>2, <3>3, <3>4, SameRows, SameEvents DEF StepFacts
    <3>5. CASE row[s.id] # None
      <4> DEFINE new == [requester |-> IF swap THEN s.me ELSE row[s.id].requester,
                         addressee |-> IF swap THEN s.other ELSE row[s.id].addressee,
                         status |-> "PENDING"]
      <4>1. row[s.id] \in Row /\ Consented(s.id)
        BY <1>0, <3>1, <3>5
      <4>2. row' = [row EXCEPT ![s.id] = new] /\ new \in Row
        BY <2>2, <3>1, <3>5, <4>1 DEF Row, Status
      <4>3. new # None => IsBetween(new, row[s.id].requester, row[s.id].addressee)
        <5>1. /\ new.requester = IF swap THEN s.me ELSE row[s.id].requester
              /\ new.addressee = IF swap THEN s.other ELSE row[s.id].addressee
          OBVIOUS
        <5> QED
          BY <3>1, <3>5, <5>1 DEF IsBetween
      <4>4. <<new.requester, new.addressee>> \in consent'
        BY <2>2, <3>5, <4>1 DEF Consented
      <4>5. \A i \in RowIds : row'[i] = IF i = s.id THEN new ELSE row[i]
        BY <1>0, <4>2
      <4>6. RowStep
        <5> SUFFICES ASSUME NEW i \in RowIds, row'[i] # None
                     PROVE  row[i] # None /\ IsBetween(row'[i], row[i].requester, row[i].addressee)
          BY DEF RowStep
        <5>1. CASE i = s.id
          BY <3>5, <4>3, <4>5, <5>1
        <5>2. CASE i # s.id
          BY <4>5, <5>2 DEF IsBetween
        <5> QED
          BY <5>1, <5>2
      <4>7. \A i \in RowIds : Consented(i)'
        <5> SUFFICES ASSUME NEW i \in RowIds PROVE Consented(i)'
          OBVIOUS
        <5>1. CASE i = s.id
          BY <4>4, <4>5, <5>1 DEF Consented
        <5>2. CASE i # s.id
          BY <1>0, <2>2, <4>5, <5>2 DEF Consented
        <5> QED
          BY <5>1, <5>2
      <4>8. row' \in [RowIds -> Row \cup {None}]
        BY <1>0, <4>2
      <4> QED
        BY <2>0, <2>2, <3>2, <3>3, <4>6, <4>7, <4>8, SameEvents DEF StepFacts
    <3> QED
      BY <3>4, <3>5
  <2> QED
    BY <1>2, <2>1, <2>2 DEF RequestRevive
<1>3. CASE RequestCreate(h)
  <2>0. s.pc = "request.create" /\ accepted' = accepted
    BY <1>3 DEF RequestCreate, At
  <2>1. CASE Finish(h) /\ UNCHANGED <<row, consent>>
    BY <2>0, <2>1, EndQuietly DEF Finish
  <2>2. CASE /\ \E i \in RowIds :
                   /\ Fresh(i)
                   /\ row' = [row EXCEPT ![i] = [requester |-> s.me, addressee |-> s.other,
                                                 status |-> "PENDING"]]
             /\ consent' = consent \cup {<<s.me, s.other>>}
             /\ Continue(h, "request.publish")
    <3>1. PICK i \in RowIds :
               /\ Fresh(i)
               /\ row' = [row EXCEPT ![i] = [requester |-> s.me, addressee |-> s.other,
                                             status |-> "PENDING"]]
      BY <2>2
    <3>2. s.me \in Users /\ s.other \in Users
      BY <1>0, <2>0 DEF AddressesItsPair
    <3>3. TouchesOnly(h) /\ handler'[h] = [s EXCEPT !.pc = "request.publish"]
      BY <2>2, ContinueFacts DEF PCs, RequestPCs
    <3>4. (AddressesItsPair(h) /\ AnswersARequest(h))'
      BY <1>0, <3>2, <3>3 DEF AddressesItsPair, AnswersARequest, HoldsRow, HandlerState
    <3>5. \A k \in RowIds \ {i} : row'[k] = row[k]
      BY <1>0, <3>1
    <3>6. RowStep
      BY <3>1, <3>5 DEF RowStep, IsBetween
    <3>7. \A k \in RowIds : Consented(k)'
      BY <1>0, <2>2, <3>1, <3>5 DEF Consented
    <3>8. row' \in [RowIds -> Row \cup {None}]
      BY <1>0, <3>1, <3>2 DEF Row, Status
    <3> QED
      BY <2>0, <2>2, <3>3, <3>4, <3>6, <3>7, <3>8, SameEvents DEF StepFacts
  <2> QED
    BY <1>3, <2>1, <2>2 DEF RequestCreate
<1>4. CASE RequestPublish(h)
  BY <1>4, EndQuietly DEF RequestPublish, Finish
<1> QED
  BY <1>1, <1>2, <1>3, <1>4

\* accept, after the row was loaded.
LEMMA AcceptStep ==
  ASSUME ConsentInv, NEW h \in Handlers, AcceptWrite(h) \/ AcceptPublish(h)
  PROVE  StepFacts(h)
<1>0. /\ handler[h] \in HandlerState
      /\ AddressesItsPair(h) /\ AnswersARequest(h)
      /\ row \in [RowIds -> Row \cup {None}]
      /\ \A i \in RowIds : Consented(i)
      /\ AcceptedEventsTruthful
  BY DEF ConsentInv, TypeOK
<1> DEFINE s == handler[h]
<1>1. CASE AcceptWrite(h)
  <2>1. /\ s.pc = "accept.write" /\ accepted' = accepted
        /\ SetStatus(s.id, "ACCEPTED")
        /\ consent' = consent \cup {<<s.me, s.other>>}
        /\ Continue(h, "accept.publish")
    BY <1>1 DEF AcceptWrite, At
  <2>2. /\ s.id \in RowIds
        /\ row[s.id] # None => IsBetween(row[s.id], s.me, s.other)
        /\ <<s.other, s.me>> \in consent
    BY <1>0, <2>1 DEF AddressesItsPair, AnswersARequest, HoldsRow
  <2>3. row[s.id] # None => <<row[s.id].addressee, row[s.id].requester>> \in consent'
    BY <2>1, <2>2 DEF IsBetween
  <2>4. /\ RowStep /\ row' \in [RowIds -> Row \cup {None}]
        /\ \A i \in RowIds : Consented(i)'
    BY <2>1, <2>2, <2>3, SetStatusFacts DEF Status
  <2>5. TouchesOnly(h) /\ handler'[h] = [s EXCEPT !.pc = "accept.publish"]
    BY <2>1, ContinueFacts DEF PCs, AnswerPCs
  <2>6. /\ handler'[h].pc = "accept.publish" /\ handler'[h].id = s.id
        /\ handler'[h].me = s.me /\ handler'[h].other = s.other
        /\ handler'[h].loaded = s.loaded
    BY <1>0, <2>5 DEF HandlerState
  <2>7. row'[s.id] # None => IsBetween(row'[s.id], s.me, s.other)
    <3> SUFFICES ASSUME row'[s.id] # None PROVE IsBetween(row'[s.id], s.me, s.other)
      OBVIOUS
    <3>1. ~Fresh(s.id)
      BY DEF Fresh
    <3>2. /\ row[s.id] # None
          /\ IsBetween(row'[s.id], row[s.id].requester, row[s.id].addressee)
      BY <2>2, <2>4, <3>1 DEF RowStep
    <3> QED
      BY <2>2, <3>2 DEF IsBetween
  <2>8. (AddressesItsPair(h) /\ AnswersARequest(h))'
    BY <1>0, <2>1, <2>2, <2>6, <2>7 DEF AddressesItsPair, AnswersARequest
  <2> QED
    BY <2>1, <2>4, <2>5, <2>8, SameEvents DEF StepFacts
<1>2. CASE AcceptPublish(h)
  <2>1. /\ s.pc = "accept.publish"
        /\ accepted' = accepted \cup {<<s.loaded.requester, s.loaded.addressee>>}
        /\ handler' = [handler EXCEPT ![h] = Idle]
        /\ UNCHANGED <<row, consent>>
    BY <1>2 DEF AcceptPublish, At, Finish
  <2>2. /\ s.loaded.requester = s.other /\ s.loaded.addressee = s.me
        /\ <<s.other, s.me>> \in consent /\ <<s.me, s.other>> \in consent
    BY <1>0, <2>1 DEF AnswersARequest
  <2>3. \A e \in accepted' : e \in consent' /\ <<e[2], e[1]>> \in consent'
    <3> SUFFICES ASSUME NEW e \in accepted'
                 PROVE  e \in consent /\ <<e[2], e[1]>> \in consent
      BY <2>1
    <3>1. CASE e \in accepted
      BY <1>0, <3>1 DEF AcceptedEventsTruthful
    <3>2. CASE e = <<s.other, s.me>>
      BY <2>2, <3>2
    <3> QED
      BY <2>1, <2>2, <3>1, <3>2
  <2> QED
    BY <2>1, <2>3, IdleFacts, SameRows DEF StepFacts
<1> QED
  BY <1>1, <1>2

\* The handlers that write a row by id, or delete it, and end.
LEMMA WriteAndEndStep ==
  ASSUME ConsentInv, NEW h \in Handlers,
         RejectWrite(h) \/ WithdrawWrite(h) \/ WithdrawDelete(h) \/ BlockDelete(h)
  PROVE  StepFacts(h)
<1>1. /\ handler[h].pc \in HoldsRow
      /\ handler' = [handler EXCEPT ![h] = Idle]
      /\ UNCHANGED <<accepted, consent>>
      /\ \/ \E st \in {"REJECTED", "WITHDRAWN"} : SetStatus(handler[h].id, st)
         \/ row' = [row EXCEPT ![handler[h].id] = None]
  BY DEF RejectWrite, WithdrawWrite, WithdrawDelete, BlockDelete, At, Finish, FinishBlock,
     HoldsRow
<1>2. handler[h].id \in RowIds
  BY <1>1 DEF ConsentInv, AddressesItsPair
<1>3. /\ RowStep /\ row' \in [RowIds -> Row \cup {None}]
      /\ \A i \in RowIds : Consented(i)'
  BY <1>1, <1>2, SetStatusFacts, DeleteFacts DEF Status
<1> QED
  BY <1>1, <1>3, IdleFacts, SameEvents DEF StepFacts

\* block before its delete, follow, and a failure at any point.
LEMMA OtherStep ==
  ASSUME ConsentInv, NEW h \in Handlers,
         BlockDropFollows(h) \/ BlockFind(h) \/ FollowCreate(h) \/ Fail(h)
  PROVE  StepFacts(h)
<1>0. UNCHANGED <<row, accepted, consent>>
  BY DEF BlockDropFollows, BlockFind, FollowCreate, Fail
<1>1. CASE BlockDropFollows(h)
  <2>1. PICK pc \in {"block.follows2", "block.find"} :
             Continue(h, pc) /\ handler[h].pc # "idle"
    BY <1>1 DEF BlockDropFollows, At
  <2> QED
    BY <1>0, <2>1, MoveOn DEF PCs, BlockPCs, HoldsRow
<1>2. CASE BlockFind(h)
  <2>1. CASE FinishBlock(h)
    BY <1>0, <2>1, EndQuietly DEF FinishBlock
  <2>2. CASE \E i \in RowsBetween(handler[h].me, handler[h].other) :
               handler' = [handler EXCEPT ![h].pc = "block.delete", ![h].id = i]
    <3>1. PICK i \in RowsBetween(handler[h].me, handler[h].other) :
               handler' = [handler EXCEPT ![h].pc = "block.delete", ![h].id = i]
      BY <2>2
    <3>2. i \in RowIds /\ IsBetween(row[i], handler[h].me, handler[h].other)
      BY <3>1 DEF RowsBetween
    <3>3. /\ handler'[h].pc = "block.delete" /\ handler'[h].id = i
          /\ handler'[h].me = handler[h].me /\ handler'[h].other = handler[h].other
          /\ TouchesOnly(h)
      <4>1. handler \in [Handlers -> HandlerState]
        BY DEF ConsentInv, TypeOK
      <4> QED
        BY <3>1, <3>2, <4>1 DEF HandlerState, TouchesOnly, PCs, BlockPCs
    <3>4. handler[h].me \in Users /\ handler[h].other \in Users
      BY <1>2 DEF BlockFind, At, ConsentInv, AddressesItsPair
    <3>5. (AddressesItsPair(h) /\ AnswersARequest(h))'
      BY <1>0, <3>2, <3>3, <3>4 DEF AddressesItsPair, AnswersARequest
    <3> QED
      BY <1>0, <3>3, <3>5, SameRows, SameEvents DEF StepFacts
  <2> QED
    BY <1>2, <2>1, <2>2 DEF BlockFind
<1>3. CASE FollowCreate(h) \/ Fail(h)
  BY <1>0, <1>3, EndQuietly DEF FollowCreate, Fail, Finish
<1> QED
  BY <1>1, <1>2, <1>3

\* Every step of a handler establishes the facts above.
LEMMA HandlerStep ==
  ASSUME ConsentInv, NEW h \in Handlers, Begin(h) \/ Proceed(h)
  PROVE  StepFacts(h)
BY BeginStep, RequestStep, AcceptStep, WriteAndEndStep, OtherStep DEF Proceed

\* The tables and histories that the argument about consent does not mention.
LEMMA OtherTypes ==
  ASSUME ConsentInv, NEW h \in Handlers, Begin(h) \/ Proceed(h)
  PROVE  /\ follows' \subseteq Users \X Users
         /\ blocks' \subseteq Users \X Users
         /\ accepted' \subseteq Users \X Users
         /\ consent' \subseteq Users \X Users
         /\ raced' \subseteq SUBSET Users /\ halfDone' \subseteq SUBSET Users
<1>0. TypeOK /\ AddressesItsPair(h) /\ AnswersARequest(h)
  BY DEF ConsentInv
<1>1. CASE Begin(h)
  <2>1. /\ UNCHANGED <<follows, accepted, consent, halfDone>>
        /\ \/ blocks' = blocks
           \/ \E u, v \in Users : blocks' = blocks \cup {<<u, v>>}
    <3>1. UNCHANGED <<follows, accepted, consent>> /\ \E st : Start(h, st)
      BY <1>1, ZenonT(30) DEF Begin, RequestCheckBlock, BlockCreate, FollowCheckBlock, AcceptLoad,
         RejectLoad, WithdrawLoad, Load
    <3>3. UNCHANGED halfDone
      BY <3>1 DEF Start
    <3>2. blocks' = blocks \/ \E u, v \in Users : BlockCreate(h, u, v)
      BY <1>1 DEF Begin, RequestCheckBlock, FollowCheckBlock, AcceptLoad, RejectLoad,
         WithdrawLoad
    <3> QED
      BY <3>1, <3>2, <3>3 DEF BlockCreate
  <2>2. \E u, v \in Users : raced' \in {raced, raced \cup {Pair(u, v)}}
    <3>1. CASE \E u, v \in Users : \/ RequestCheckBlock(h, u, v)
                                    \/ BlockCreate(h, u, v)
                                    \/ FollowCheckBlock(h, u, v)
      <4>1. PICK u \in Users, v \in Users, pc \in PCs :
                   Start(h, [Idle EXCEPT !.pc = pc, !.me = u, !.other = v])
        BY <3>1 DEF RequestCheckBlock, BlockCreate, FollowCheckBlock, PCs, RequestPCs, BlockPCs
      <4> DEFINE st == [Idle EXCEPT !.pc = pc, !.me = u, !.other = v]
      <4>2. st.me = u /\ st.other = v
        BY DEF Idle
      <4>3. raced' \in {raced, raced \cup {Pair(st.me, st.other)}}
        BY <4>1 DEF Start
      <4> QED
        BY <4>2, <4>3
    <3>2. CASE \E u \in Users, i \in RowIds : \/ AcceptLoad(h, u, i)
                                              \/ RejectLoad(h, u, i)
                                              \/ WithdrawLoad(h, u, i)
      <4>1. PICK u \in Users, i \in RowIds, pc \in AnswerPCs :
                   row[i] # None /\ Load(h, u, i, pc)
        BY <3>2 DEF AcceptLoad, RejectLoad, WithdrawLoad, AnswerPCs
      <4>2. row[i].requester \in Users /\ row[i].addressee \in Users
        BY <1>0, <4>1 DEF TypeOK, Row
      <4> QED
        BY <4>1, <4>2 DEF Load, Start
    <3> QED
      BY <1>1, <3>1, <3>2 DEF Begin
  <2> QED
    BY <1>0, <2>1, <2>2 DEF TypeOK, Pair
<1>2. CASE Proceed(h)
  <2>1. raced' = raced /\ blocks' = blocks
    BY <1>2, ZenonT(30) DEF Proceed, RequestFind, RequestRevive, RequestCreate, RequestPublish,
       AcceptWrite, AcceptPublish, RejectWrite, WithdrawWrite, WithdrawDelete,
       BlockDropFollows, BlockFind, BlockDelete, FollowCreate, Fail, Continue, Finish,
       FinishBlock
  <2>2. handler[h].pc # "idle" /\ handler[h].me \in Users /\ handler[h].other \in Users
    BY <1>0, <1>2, ZenonT(30) DEF Proceed, RequestFind, RequestRevive, RequestCreate, RequestPublish,
       AcceptWrite, AcceptPublish, RejectWrite, WithdrawWrite, WithdrawDelete,
       BlockDropFollows, BlockFind, BlockDelete, FollowCreate, Fail, At, AddressesItsPair
  <2> DEFINE me == handler[h].me
             other == handler[h].other
  <2>3. halfDone' \in {halfDone, halfDone \ {Pair(me, other)}, halfDone \cup {Pair(me, other)}}
    BY <1>2, ZenonT(30) DEF Proceed, RequestFind, RequestRevive, RequestCreate, RequestPublish,
       AcceptWrite, AcceptPublish, RejectWrite, WithdrawWrite, WithdrawDelete,
       BlockDropFollows, BlockFind, BlockDelete, FollowCreate, Fail, Continue, Finish,
       FinishBlock
  <2>4. follows' \in {follows, follows \cup {<<me, other>>}, follows \ {<<me, other>>},
                      follows \ {<<other, me>>}}
    BY <1>2, ZenonT(30) DEF Proceed, RequestFind, RequestRevive, RequestCreate, RequestPublish,
       AcceptWrite, AcceptPublish, RejectWrite, WithdrawWrite, WithdrawDelete,
       BlockDropFollows, BlockFind, BlockDelete, FollowCreate, Fail
  <2>5. consent' \in {consent, consent \cup {<<me, other>>}}
    BY <1>2, ZenonT(30) DEF Proceed, RequestFind, RequestRevive, RequestCreate, RequestPublish,
       AcceptWrite, AcceptPublish, RejectWrite, WithdrawWrite, WithdrawDelete,
       BlockDropFollows, BlockFind, BlockDelete, FollowCreate, Fail
  <2>6. accepted' \in {accepted, accepted \cup {<<other, me>>}}
    BY <1>0, <1>2 DEF Proceed, RequestFind, RequestRevive, RequestCreate, RequestPublish,
       AcceptWrite, AcceptPublish, RejectWrite, WithdrawWrite, WithdrawDelete,
       BlockDropFollows, BlockFind, BlockDelete, FollowCreate, Fail, At, AnswersARequest
  <2>7. /\ follows' \subseteq Users \X Users
        /\ consent' \subseteq Users \X Users
        /\ accepted' \subseteq Users \X Users
    BY <1>0, <2>2, <2>4, <2>5, <2>6 DEF TypeOK
  <2>8. halfDone' \subseteq SUBSET Users
    BY <1>0, <2>2, <2>3 DEF TypeOK, Pair
  <2> QED
    BY <1>0, <2>1, <2>7, <2>8, SMTT(30) DEF TypeOK
<1> QED
  BY <1>1, <1>2

\* The inductive invariant: types, handlers that address their own pair, and
\* recorded consent.
LEMMA ConsentInvInductive == ConsentInv /\ [Next]_vars => ConsentInv'
<1> SUFFICES ASSUME ConsentInv, [Next]_vars PROVE ConsentInv'
  OBVIOUS
<1>1. ASSUME NEW h \in Handlers, Begin(h) \/ Proceed(h) PROVE ConsentInv'
  <2>1. StepFacts(h)
    BY <1>1, HandlerStep
  <2>2. TypeOK'
    BY <1>1, <2>1, OtherTypes DEF TypeOK, StepFacts, TouchesOnly
  <2>3. \A k \in Handlers : (AddressesItsPair(k) /\ AnswersARequest(k))'
    BY <2>1, Framing DEF StepFacts
  <2> QED
    BY <2>1, <2>2, <2>3 DEF ConsentInv, StepFacts, AcceptedEventsTruthful
<1>2. ASSUME NEW u \in Users, NEW v \in Users, Unblock(u, v) \/ Unfollow(u, v)
      PROVE  ConsentInv'
  BY <1>2 DEF Unblock, Unfollow, ConsentInv, TypeOK, AddressesItsPair, AnswersARequest,
     Consented, AcceptedEventsTruthful
<1>3. CASE UNCHANGED vars
  BY <1>3 DEF vars, ConsentInv, TypeOK, AddressesItsPair, AnswersARequest, Consented,
     AcceptedEventsTruthful
<1> QED
  BY <1>1, <1>2, <1>3 DEF Next

\* With no rows and no handlers running there is nothing to consent to.
LEMMA ConsentInvInitially == Init => ConsentInv
<1> SUFFICES ASSUME Init PROVE ConsentInv
  OBVIOUS
<1>1. TypeOK
  BY IdleType DEF Init, TypeOK
<1>2. \A h \in Handlers : AddressesItsPair(h) /\ AnswersARequest(h)
  BY DEF Init, AddressesItsPair, AnswersARequest, Idle, HoldsRow
<1> QED
  BY <1>1, <1>2 DEF Init, ConsentInv, Consented, AcceptedEventsTruthful

\* The invariant of consent holds in every reachable state.
LEMMA ConsentInvAlways == Spec => []ConsentInv
BY ConsentInvInitially, ConsentInvInductive, PTL DEF Spec

\* The tables, handlers and histories keep their types.
THEOREM TypeCorrect == Spec => []TypeOK
BY ConsentInvAlways, PTL DEF ConsentInv

\* No interleaving of stale handlers connects two users one of whom neither
\* asked nor accepted.
THEOREM ConnectionsAreMutual == Spec => []MutualConsent
<1>1. ConsentInv => MutualConsent
  BY DEF ConsentInv, Consented, MutualConsent
<1> QED
  BY <1>1, ConsentInvAlways, PTL

\* connection.accepted is only published for a request made and accepted.
THEOREM AcceptedEventsAreTrue == Spec => []AcceptedEventsTruthful
BY ConsentInvAlways, PTL DEF ConsentInv

\* No update moves a connection row to another pair of users.
THEOREM RowsKeepTheirPair == Spec => RowKeepsItsPair
<1> DEFINE Keeps == \A i \in RowIds :
                      (row[i] # None /\ row'[i] # None) =>
                        IsBetween(row'[i], row[i].requester, row[i].addressee)
<1>1. ConsentInv /\ [Next]_vars => [Keeps]_row
  <2> SUFFICES ASSUME ConsentInv, Next PROVE Keeps \/ row' = row
    BY DEF vars
  <2>1. ASSUME NEW h \in Handlers, Begin(h) \/ Proceed(h) PROVE Keeps
    BY <2>1, HandlerStep DEF StepFacts, RowStep, Fresh
  <2> QED
    BY <2>1 DEF Next, Unblock, Unfollow
<1> QED
  BY <1>1, ConsentInvAlways, PTL DEF Spec, RowKeepsItsPair
-----------------------------------------------------------------------------
(* Pairs nobody raced on *)

Busy(h) == handler[h].pc # "idle"
TornDown(u, v) ==
  RowsBetween(u, v) = {} /\ <<u, v>> \notin follows /\ <<v, u>> \notin follows

\* What a request that is alone with its pair may rely on: findBetween is still true
\* when the row is created, a block's deletions last, and whoever is not a block
\* works on a pair without one.
Undisturbed(h) ==
  /\ handler[h].pc = "request.create" => RowsBetween(handler[h].me, handler[h].other) = {}
  /\ handler[h].pc \in {"block.follows2", "block.find", "block.delete"} =>
       <<handler[h].me, handler[h].other>> \notin follows
  /\ handler[h].pc \in {"block.find", "block.delete"} =>
       <<handler[h].other, handler[h].me>> \notin follows
  /\ handler[h].pc = "block.delete" =>
       RowsBetween(handler[h].me, handler[h].other) \subseteq {handler[h].id}
  /\ (handler[h].pc \notin BlockPCs /\ Pair(handler[h].me, handler[h].other) \notin halfDone) =>
       ~Blocked(handler[h].me, handler[h].other)

\* A pair nobody raced on has one request at most, one row at most, and is torn down
\* when it is blocked, but while a block is at it or after one that died.
PairHeld(u, v) ==
  Pair(u, v) \notin raced =>
    /\ \A g, h \in InFlight(u, v) : g = h
    /\ \A i, j \in RowsBetween(u, v) : i = j
    /\ \A h \in InFlight(u, v) : Undisturbed(h)
    /\ (Blocked(u, v) /\ Pair(u, v) \notin halfDone) =>
          TornDown(u, v) \/ \E h \in InFlight(u, v) : handler[h].pc \in BlockPCs
PairInv == \A u, v \in Users : PairHeld(u, v)

\* A step for the pair m, o leaves the rows, edges and marks of other pairs alone.
Within(m, o) ==
  /\ \A i \in RowIds : \/ row'[i] = row[i]
                       \/ /\ row[i] # None => IsBetween(row[i], m, o)
                          /\ row'[i] # None => IsBetween(row'[i], m, o)
  /\ \A u, v \in Users : Pair(u, v) # Pair(m, o) =>
       /\ <<u, v>> \in follows' <=> <<u, v>> \in follows
       /\ <<u, v>> \in blocks' <=> <<u, v>> \in blocks
  /\ raced \subseteq raced' /\ raced' \subseteq raced \cup {Pair(m, o)}
  /\ \A P : P # Pair(m, o) => (P \in halfDone' <=> P \in halfDone)

\* Two users make one pair.
LEMMA SamePair ==
  ASSUME NEW u, NEW v, NEW m, NEW o
  PROVE  Pair(u, v) = Pair(m, o) <=> (u = m /\ v = o) \/ (u = o /\ v = m)
BY DEF Pair

\* What is held of a pair does not depend on who is named first.
LEMMA PairHeldTurned ==
  ASSUME NEW u, NEW v, PairHeld(u, v)
  PROVE  PairHeld(v, u)
<1>1. Pair(u, v) = Pair(v, u)
  BY SamePair
<1>2. InFlight(u, v) = InFlight(v, u)
  BY <1>1 DEF InFlight
<1>3. RowsBetween(u, v) = RowsBetween(v, u)
  BY DEF RowsBetween, IsBetween
<1>. QED BY <1>1, <1>2, <1>3 DEF PairHeld, Blocked, TornDown

\* A step for one pair keeps what is held of the others.
LEMMA OtherPairs ==
  ASSUME NEW h \in Handlers, TouchesOnly(h), NEW m, NEW o, Within(m, o),
         Busy(h) => handler[h].me = m /\ handler[h].other = o,
         Busy(h)' => handler'[h].me = m /\ handler'[h].other = o,
         \A g \in Handlers : Busy(g) => handler[g].me \in Users /\ handler[g].other \in Users,
         NEW u \in Users, NEW v \in Users, Pair(u, v) # Pair(m, o), PairHeld(u, v)
  PROVE  PairHeld(u, v)'
<1>1. InFlight(u, v)' = InFlight(u, v) /\ h \notin InFlight(u, v)
  BY DEF InFlight, TouchesOnly, Busy
<1>2. ASSUME NEW a \in Users, NEW b \in Users, Pair(a, b) = Pair(u, v)
      PROVE  /\ RowsBetween(a, b)' = RowsBetween(a, b)
             /\ <<a, b>> \in follows' <=> <<a, b>> \in follows
             /\ <<a, b>> \in blocks' <=> <<a, b>> \in blocks
  <2>1. ASSUME NEW i \in RowIds
        PROVE  IsBetween(row'[i], a, b) <=> IsBetween(row[i], a, b)
    <3>1. CASE row'[i] = row[i]
      BY <3>1
    <3>2. CASE /\ row[i] # None => IsBetween(row[i], m, o)
               /\ row'[i] # None => IsBetween(row'[i], m, o)
      <4>1. ASSUME NEW r, IsBetween(r, m, o), IsBetween(r, a, b) PROVE FALSE
        BY <1>2, <4>1, SamePair DEF IsBetween
      <4>. QED BY <3>2, <4>1 DEF IsBetween
    <3>. QED BY <3>1, <3>2 DEF Within
  <2>. QED BY <1>2, <2>1 DEF RowsBetween, Within
<1>3. Pair(v, u) = Pair(u, v) /\ (Pair(u, v) \in raced' <=> Pair(u, v) \in raced)
      /\ (Pair(u, v) \in halfDone' <=> Pair(u, v) \in halfDone)
  BY SamePair DEF Within
<1>4. /\ RowsBetween(u, v)' = RowsBetween(u, v)
      /\ Blocked(u, v)' <=> Blocked(u, v)
      /\ TornDown(u, v)' <=> TornDown(u, v)
  BY <1>2, <1>3 DEF Blocked, TornDown
<1>5. ASSUME NEW g \in InFlight(u, v), Undisturbed(g) PROVE Undisturbed(g)'
  <2>1. /\ g \in Handlers /\ handler'[g] = handler[g]
        /\ handler[g].me \in Users /\ handler[g].other \in Users
        /\ Pair(handler[g].me, handler[g].other) = Pair(u, v)
    BY <1>1 DEF InFlight, TouchesOnly, Busy
  <2>2. Pair(handler[g].other, handler[g].me) = Pair(u, v)
    BY <2>1, SamePair
  <2> DEFINE a == handler[g].me
             b == handler[g].other
  <2>3. /\ RowsBetween(a, b)' = RowsBetween(a, b)
        /\ <<a, b>> \in follows' <=> <<a, b>> \in follows
        /\ <<b, a>> \in follows' <=> <<b, a>> \in follows
        /\ Blocked(a, b)' <=> Blocked(a, b)
    <3>1. ASSUME NEW c, c = a, NEW d, d = b
          PROVE  /\ RowsBetween(c, d)' = RowsBetween(c, d)
                 /\ <<c, d>> \in follows' <=> <<c, d>> \in follows
                 /\ <<d, c>> \in follows' <=> <<d, c>> \in follows
                 /\ Blocked(c, d)' <=> Blocked(c, d)
      BY <1>2, <2>1, <2>2, <3>1 DEF Blocked
    <3>. QED BY <2>1, <3>1
  <2>. QED BY <1>3, <1>5, <2>1, <2>3 DEF Undisturbed
<1>6. \A g \in InFlight(u, v) : handler'[g] = handler[g]
  BY <1>1 DEF InFlight, TouchesOnly
<1>. QED BY <1>1, <1>3, <1>4, <1>5, <1>6 DEF PairHeld

\* A step of one request keeps PairInv if it establishes it for its own pair, with
\* nobody else at work there unless the pair is raced.
LEMMA PairStep ==
  ASSUME ConsentInv, PairInv, NEW h \in Handlers, TouchesOnly(h),
         NEW m \in Users, NEW o \in Users, Within(m, o),
         Busy(h) => handler[h].me = m /\ handler[h].other = o,
         Busy(h)' => handler'[h].me = m /\ handler'[h].other = o,
         Pair(m, o) \notin raced' => InFlight(m, o) \subseteq {h},
         Pair(m, o) \notin raced' =>
           /\ \A i, j \in RowsBetween(m, o)' : i = j
           /\ Busy(h)' => Undisturbed(h)'
           /\ (Blocked(m, o)' /\ Pair(m, o) \notin halfDone') =>
                TornDown(m, o)' \/ (Busy(h)' /\ handler'[h].pc \in BlockPCs)
  PROVE  PairInv'
<1>1. PairHeld(m, o)'
  <2>. SUFFICES ASSUME Pair(m, o) \notin raced' PROVE PairHeld(m, o)'
    BY DEF PairHeld
  <2>1. InFlight(m, o)' = IF Busy(h)' THEN {h} ELSE {}
    BY DEF InFlight, TouchesOnly, Busy
  <2>. QED BY <2>1 DEF PairHeld
<1>2. ASSUME NEW u \in Users, NEW v \in Users PROVE PairHeld(u, v)'
  <2>1. CASE Pair(u, v) = Pair(m, o)
    <3>1. (u = m /\ v = o) \/ (u = o /\ v = m)
      BY <2>1, SamePair
    <3>2. PairHeld(m, o)' => PairHeld(o, m)'
      <4>1. (Pair(m, o) = Pair(o, m))
        BY SamePair
      <4>2. InFlight(m, o)' = InFlight(o, m)'
        BY <4>1 DEF InFlight
      <4>3. RowsBetween(m, o)' = RowsBetween(o, m)'
        BY DEF RowsBetween, IsBetween
      <4>. QED BY <4>1, <4>2, <4>3 DEF PairHeld, Blocked, TornDown
    <3>. QED BY <1>1, <3>1, <3>2
  <2>2. CASE Pair(u, v) # Pair(m, o)
    <3>1. \A g \in Handlers : Busy(g) => handler[g].me \in Users /\ handler[g].other \in Users
      BY DEF ConsentInv, AddressesItsPair, Busy
    <3>2. PairHeld(u, v)
      BY DEF PairInv
    <3>. QED BY <2>2, <3>1, <3>2, OtherPairs
  <2>. QED BY <2>1, <2>2
<1>. QED BY <1>2 DEF PairInv

\* A request at work is alone with its pair, and has what it relies on, unless raced.
LEMMA AloneAtWork ==
  ASSUME ConsentInv, PairInv, NEW h \in Handlers, Busy(h),
         NEW m, m = handler[h].me, NEW o, o = handler[h].other
  PROVE  /\ m \in Users /\ o \in Users /\ h \in InFlight(m, o)
         /\ Pair(m, o) \notin raced =>
              /\ InFlight(m, o) \subseteq {h} /\ Undisturbed(h)
              /\ \A i, j \in RowsBetween(m, o) : i = j
              /\ (Blocked(m, o) /\ Pair(m, o) \notin halfDone) =>
                   TornDown(m, o) \/ handler[h].pc \in BlockPCs
<1>1. m \in Users /\ o \in Users
  BY DEF ConsentInv, AddressesItsPair, Busy
<1>2. h \in InFlight(m, o) /\ PairHeld(m, o)
  BY <1>1 DEF InFlight, PairInv, Busy
<1>. QED BY <1>1, <1>2 DEF PairHeld

\* A request that moves on with its users, or ends.
LEMMA MoverStays ==
  ASSUME ConsentInv, NEW h \in Handlers, Proceed(h)
  PROVE  /\ Busy(h)
         /\ Busy(h)' => handler'[h].me = handler[h].me /\ handler'[h].other = handler[h].other
         /\ raced' = raced /\ blocks' = blocks
<1>1. handler \in [Handlers -> HandlerState]
  BY DEF ConsentInv, TypeOK
<1>2. Busy(h) /\ raced' = raced /\ blocks' = blocks
  BY DEF Busy, Proceed, RequestFind, RequestRevive, RequestCreate, RequestPublish,
       AcceptWrite, AcceptPublish, RejectWrite, WithdrawWrite, WithdrawDelete,
       BlockDropFollows, BlockFind, BlockDelete, FollowCreate, Fail, Continue, Finish,
       FinishBlock, At
<1>3. \/ handler' = [handler EXCEPT ![h] = Idle]
      \/ \E pc : handler' = [handler EXCEPT ![h].pc = pc]
      \/ \E pc, i : handler' = [handler EXCEPT ![h].pc = pc, ![h].id = i]
      \/ \E pc, i, r : handler' = [handler EXCEPT ![h].pc = pc, ![h].id = i, ![h].loaded = r]
  <2>1. CASE RequestFind(h)
    <3>1. ASSUME NEW i, handler' = [handler EXCEPT ![h].pc = "request.revive",
                                                   ![h].id = i, ![h].loaded = row[i]]
          PROVE  \E pc, k, r : handler' = [handler EXCEPT ![h].pc = pc, ![h].id = k,
                                                          ![h].loaded = r]
      BY <3>1
    <3>2. CASE Finish(h) \/ Continue(h, "request.create")
      BY <3>2 DEF Finish, Continue
    <3>. QED BY <2>1, <3>1, <3>2 DEF RequestFind
  <2>2. CASE BlockFind(h)
    BY <2>2 DEF BlockFind, FinishBlock
  <2>3. CASE Finish(h) \/ FinishBlock(h) \/ Fail(h)
    BY <2>3 DEF Finish, FinishBlock, Fail
  <2>4. CASE \E pc : Continue(h, pc)
    BY <2>4 DEF Continue
  <2>. QED BY <2>1, <2>2, <2>3, <2>4
           DEF Proceed, RequestRevive, RequestCreate, RequestPublish,
               AcceptWrite, AcceptPublish, RejectWrite, WithdrawWrite, WithdrawDelete,
               BlockDropFollows, BlockDelete, FollowCreate
<1>4. CASE handler' = [handler EXCEPT ![h] = Idle]
  BY <1>1, <1>2, <1>4 DEF Busy, Idle
<1>5. CASE handler' # [handler EXCEPT ![h] = Idle]
  <2>1. handler[h] \in HandlerState
    BY <1>1
  <2>2. CASE \E pc : handler' = [handler EXCEPT ![h].pc = pc]
    BY <1>1, <1>2, <2>1, <2>2 DEF HandlerState
  <2>3. CASE \E pc, i : handler' = [handler EXCEPT ![h].pc = pc, ![h].id = i]
    BY <1>1, <1>2, <2>1, <2>3 DEF HandlerState
  <2>4. CASE \E pc, i, r :
               handler' = [handler EXCEPT ![h].pc = pc, ![h].id = i, ![h].loaded = r]
    BY <1>1, <1>2, <2>1, <2>4 DEF HandlerState
  <2>. QED BY <1>3, <1>5, <2>2, <2>3, <2>4
<1>. QED BY <1>4, <1>5

\* A statement of a request: what it has to establish for its pair.
LEMMA ProceedPair ==
  ASSUME ConsentInv, PairInv, NEW h \in Handlers, Proceed(h),
         NEW m, m = handler[h].me, NEW o, o = handler[h].other, Within(m, o),
         Pair(m, o) \notin raced =>
           /\ \A i, j \in RowsBetween(m, o)' : i = j
           /\ Busy(h)' => Undisturbed(h)'
           /\ (Blocked(m, o) /\ Pair(m, o) \notin halfDone') =>
                TornDown(m, o)' \/ (Busy(h)' /\ handler'[h].pc \in BlockPCs)
  PROVE  PairInv'
<1>1. TouchesOnly(h)
  BY HandlerStep DEF StepFacts
<1>2. /\ Busy(h)
      /\ Busy(h)' => handler'[h].me = m /\ handler'[h].other = o
      /\ raced' = raced /\ blocks' = blocks
  BY MoverStays
<1>3. Blocked(m, o)' <=> Blocked(m, o)
  BY <1>2 DEF Blocked
<1>4. /\ m \in Users /\ o \in Users
      /\ Pair(m, o) \notin raced => InFlight(m, o) \subseteq {h}
  BY <1>2, AloneAtWork
<1>. QED BY <1>1, <1>2, <1>3, <1>4, PairStep

\* Statements that write no table and no mark, and do not end a block.
LEMMA QuietPair ==
  ASSUME ConsentInv, PairInv, NEW h \in Handlers, Proceed(h),
         UNCHANGED <<row, follows, halfDone>>,
         handler[h].pc \in BlockPCs => Busy(h)' /\ handler'[h].pc \in BlockPCs,
         (Busy(h)' /\ Undisturbed(h) /\ Pair(handler[h].me, handler[h].other) \notin raced)
            => Undisturbed(h)'
  PROVE  PairInv'
<1>1. PICK m, o : m = handler[h].me /\ o = handler[h].other
  OBVIOUS
<1>2. Busy(h) /\ raced' = raced /\ blocks' = blocks
  BY MoverStays
<1>3. Within(m, o)
  BY <1>2 DEF Within
<1>4. /\ RowsBetween(m, o)' = RowsBetween(m, o)
      /\ TornDown(m, o)' <=> TornDown(m, o)
  BY DEF TornDown, RowsBetween
<1>5. Pair(m, o) \notin raced =>
        /\ Undisturbed(h)
        /\ \A i, j \in RowsBetween(m, o) : i = j
        /\ (Blocked(m, o) /\ Pair(m, o) \notin halfDone) =>
             TornDown(m, o) \/ handler[h].pc \in BlockPCs
  BY <1>1, <1>2, AloneAtWork
<1>. QED BY <1>1, <1>3, <1>4, <1>5, ProceedPair

\* A status written by id, or a row deleted, leaves the pair no more rows.
LEMMA RowsOnlyGo ==
  ASSUME ConsentInv, NEW h \in Handlers, handler[h].pc \in HoldsRow,
         NEW m, m = handler[h].me, NEW o, o = handler[h].other,
         \/ \E st \in Status : SetStatus(handler[h].id, st)
         \/ row' = [row EXCEPT ![handler[h].id] = None]
  PROVE  /\ RowsBetween(m, o)' \subseteq RowsBetween(m, o)
         /\ \A i \in RowIds : \/ row'[i] = row[i]
                              \/ /\ row[i] # None => IsBetween(row[i], m, o)
                                 /\ row'[i] # None => IsBetween(row'[i], m, o)
<1> DEFINE id == handler[h].id
<1>1. /\ row \in [RowIds -> Row \cup {None}] /\ id \in RowIds
      /\ row[id] # None => IsBetween(row[id], m, o)
  BY DEF ConsentInv, TypeOK, AddressesItsPair
<1>2. \A i \in RowIds \ {id} : row'[i] = row[i]
  BY <1>1 DEF SetStatus
<1>3. row'[id] # None => row[id] # None /\ IsBetween(row'[id], m, o)
  <2>1. CASE row' = [row EXCEPT ![id] = None]
    BY <1>1, <2>1
  <2>2. ASSUME NEW st \in Status, SetStatus(id, st)
        PROVE  row'[id] # None => row[id] # None /\ IsBetween(row'[id], m, o)
    <3>1. CASE row[id] = None
      BY <2>2, <3>1 DEF SetStatus
    <3>2. CASE row[id] # None
      <4>1. row[id] \in Row
        BY <1>1, <3>2
      <4>2. row' = [row EXCEPT ![id].status = st]
        BY <2>2, <3>2 DEF SetStatus
      <4>3. row'[id].requester = row[id].requester /\ row'[id].addressee = row[id].addressee
        BY <1>1, <4>1, <4>2 DEF Row
      <4>. QED BY <1>1, <3>2, <4>3 DEF IsBetween
    <3>. QED BY <3>1, <3>2
  <2>. QED BY <2>1, <2>2
<1>4. ASSUME NEW i \in RowIds, IsBetween(row'[i], m, o) PROVE IsBetween(row[i], m, o)
  BY <1>1, <1>2, <1>3, <1>4 DEF IsBetween
<1>. QED BY <1>1, <1>2, <1>3, <1>4 DEF RowsBetween

\* Statements of a request that is no block, after which its pair has no more rows.
LEMMA FewerRows ==
  ASSUME ConsentInv, PairInv, NEW h \in Handlers, Proceed(h), UNCHANGED <<follows, halfDone>>,
         NEW m, m = handler[h].me, NEW o, o = handler[h].other,
         RowsBetween(m, o)' \subseteq RowsBetween(m, o),
         \A i \in RowIds : \/ row'[i] = row[i]
                           \/ /\ row[i] # None => IsBetween(row[i], m, o)
                              /\ row'[i] # None => IsBetween(row'[i], m, o),
         handler[h].pc \notin BlockPCs,
         Busy(h)' => handler'[h].pc \notin {"request.create"} \cup BlockPCs
  PROVE  PairInv'
<1>1. /\ Busy(h) /\ raced' = raced /\ blocks' = blocks
      /\ Busy(h)' => handler'[h].me = m /\ handler'[h].other = o
  BY MoverStays
<1>2. Within(m, o)
  BY <1>1 DEF Within
<1>3. Pair(m, o) \notin raced =>
        /\ Undisturbed(h)
        /\ \A i, j \in RowsBetween(m, o) : i = j
        /\ (Blocked(m, o) /\ Pair(m, o) \notin halfDone) => TornDown(m, o)
  BY <1>1, AloneAtWork
<1>4. TornDown(m, o) => TornDown(m, o)'
  BY DEF TornDown
<1>5. (Busy(h)' /\ Undisturbed(h)) => Undisturbed(h)'
  BY <1>1 DEF Undisturbed, BlockPCs, Blocked
<1>. QED BY <1>2, <1>3, <1>4, <1>5, ProceedPair

LEMMA RequestPair ==
  ASSUME ConsentInv, PairInv, NEW h \in Handlers, Proceed(h),
         RequestFind(h) \/ RequestRevive(h) \/ RequestCreate(h) \/ RequestPublish(h)
  PROVE  PairInv'
<1> DEFINE s == handler[h]
<1>0. PICK m, o : m = s.me /\ o = s.other
  OBVIOUS
<1>1. /\ handler \in [Handlers -> HandlerState] /\ s \in HandlerState
      /\ row \in [RowIds -> Row \cup {None}]
      /\ Busy(h) /\ raced' = raced /\ blocks' = blocks
      /\ Busy(h)' => handler'[h].me = m /\ handler'[h].other = o
      /\ m \in Users /\ o \in Users
  BY <1>0, MoverStays, AloneAtWork DEF ConsentInv, TypeOK
<1>2. ASSUME handler' = [handler EXCEPT ![h] = Idle] PROVE ~Busy(h)'
  BY <1>1, <1>2 DEF Busy, Idle
<1>3. ASSUME NEW pc, Continue(h, pc) PROVE handler'[h].pc = pc
  BY <1>1, <1>3 DEF Continue, HandlerState
<1>4. ASSUME Finish(h), UNCHANGED <<row, follows>>, s.pc \in RequestPCs PROVE PairInv'
  <2>1. UNCHANGED halfDone /\ s.pc \notin BlockPCs
    BY <1>4 DEF Finish, RequestPCs, BlockPCs
  <2>. QED BY <1>2, <1>4, <2>1, QuietPair DEF Finish
<1>5. CASE RequestFind(h)
  <2>1. /\ s.pc = "request.find" /\ s.pc \notin BlockPCs
        /\ UNCHANGED <<row, follows, halfDone>>
    BY <1>5 DEF RequestFind, At, BlockPCs, Continue, Finish
  <2>2. CASE RowsBetween(s.me, s.other) = {} /\ Continue(h, "request.create")
    <3>1. Undisturbed(h) => Undisturbed(h)'
      <4>1. handler'[h].pc = "request.create"
        BY <1>3, <2>2
      <4>2. handler'[h].me = m /\ handler'[h].other = o
        BY <1>1, <4>1 DEF Busy
      <4>3. RowsBetween(m, o)' = {}
        BY <1>0, <2>1, <2>2 DEF RowsBetween
      <4>. QED BY <1>0, <1>1, <2>1, <4>1, <4>2, <4>3 DEF Undisturbed, Blocked, BlockPCs
    <3>. QED BY <2>1, <3>1, QuietPair
  <2>3. CASE \E i, r : handler' = [handler EXCEPT ![h].pc = "request.revive",
                                                  ![h].id = i, ![h].loaded = r]
    <3>1. handler'[h].pc = "request.revive"
      BY <1>1, <2>3 DEF HandlerState
    <3>2. handler'[h].me = m /\ handler'[h].other = o
      BY <1>1, <3>1 DEF Busy
    <3>3. Undisturbed(h) => Undisturbed(h)'
      BY <1>0, <1>1, <2>1, <3>1, <3>2 DEF Undisturbed, Blocked, BlockPCs
    <3>. QED BY <2>1, <3>3, QuietPair
  <2>4. CASE Finish(h)
    BY <1>4, <2>1, <2>4 DEF RequestPCs
  <2>. QED BY <1>5, <2>2, <2>3, <2>4 DEF RequestFind
<1>6. CASE RequestRevive(h)
  <2>1. /\ s.pc = "request.revive" /\ follows' = follows
        /\ s.pc \notin BlockPCs /\ s.pc \in HoldsRow
    BY <1>6 DEF RequestRevive, At, BlockPCs, HoldsRow
  <2>2. CASE Finish(h) /\ row' = row
    BY <1>4, <2>1, <2>2 DEF RequestPCs
  <2>3. CASE Continue(h, "request.publish")
    <3>1. /\ s.id \in RowIds
          /\ row[s.id] # None => IsBetween(row[s.id], m, o)
      BY <1>0, <2>1 DEF ConsentInv, AddressesItsPair
    <3>2. \A i \in RowIds \ {s.id} : row'[i] = row[i]
      BY <1>1, <1>6 DEF RequestRevive
    <3>3. row'[s.id] # None => row[s.id] # None
      BY <1>6 DEF RequestRevive
    <3>4. row'[s.id] # None => IsBetween(row'[s.id], m, o)
      BY <3>1, <3>3, HandlerStep, <1>6 DEF StepFacts, RowStep, Fresh, IsBetween
    <3>5. RowsBetween(m, o)' \subseteq RowsBetween(m, o)
      BY <3>1, <3>2, <3>3, <3>4 DEF RowsBetween, IsBetween
    <3>6. /\ UNCHANGED halfDone
          /\ handler'[h].pc \notin {"request.create"} \cup BlockPCs
      BY <1>3, <2>3 DEF Continue, BlockPCs
    <3>. QED BY <1>0, <2>1, <3>1, <3>2, <3>3, <3>4, <3>5, <3>6, FewerRows
  <2>. QED BY <1>6, <2>2, <2>3 DEF RequestRevive
<1>7. CASE RequestCreate(h)
  <2>1. s.pc = "request.create" /\ follows' = follows /\ s.pc \notin BlockPCs
    BY <1>7 DEF RequestCreate, At, BlockPCs
  <2>2. CASE Finish(h) /\ row' = row
    BY <1>4, <2>1, <2>2 DEF RequestPCs
  <2>3. CASE /\ Continue(h, "request.publish")
             /\ \E i \in RowIds :
                  /\ Fresh(i)
                  /\ row' = [row EXCEPT ![i] = [requester |-> s.me, addressee |-> s.other,
                                                status |-> "PENDING"]]
    <3>1. PICK i \in RowIds :
               /\ Fresh(i)
               /\ row' = [row EXCEPT ![i] = [requester |-> s.me, addressee |-> s.other,
                                             status |-> "PENDING"]]
      BY <2>3
    <3>2. /\ \A k \in RowIds \ {i} : row'[k] = row[k]
          /\ row'[i].requester = m /\ row'[i].addressee = o
          /\ row[i] = None
      BY <1>0, <1>1, <3>1 DEF Fresh
    <3>3. RowsBetween(m, o)' \subseteq RowsBetween(m, o) \cup {i}
      BY <3>2 DEF RowsBetween
    <3>4. /\ UNCHANGED halfDone /\ handler'[h].pc = "request.publish"
          /\ handler'[h].pc \notin BlockPCs
      BY <1>3, <2>3 DEF Continue, BlockPCs
    <3>5. handler'[h].me = m /\ handler'[h].other = o
      BY <1>1, <3>4 DEF Busy
    <3>6. Within(m, o)
      BY <1>1, <2>1, <3>2, <3>4 DEF Within, IsBetween
    <3>7. Pair(m, o) \notin raced =>
            Undisturbed(h) /\ RowsBetween(m, o) = {}
              /\ ~(Blocked(m, o) /\ Pair(m, o) \notin halfDone)
      <4>1. Pair(m, o) \notin raced => Undisturbed(h)
        BY <1>0, <1>1, AloneAtWork
      <4>. QED BY <1>0, <2>1, <4>1 DEF Undisturbed
    <3>8. Undisturbed(h) => Undisturbed(h)'
      BY <1>0, <1>1, <2>1, <3>4, <3>5 DEF Undisturbed, Blocked
    <3>. QED BY <1>0, <3>3, <3>4, <3>6, <3>7, <3>8, ProceedPair
  <2>. QED BY <1>7, <2>2, <2>3 DEF RequestCreate
<1>8. CASE RequestPublish(h)
  BY <1>4, <1>8 DEF RequestPublish, At, RequestPCs
<1>. QED BY <1>5, <1>6, <1>7, <1>8

LEMMA AnswerPair ==
  ASSUME ConsentInv, PairInv, NEW h \in Handlers, Proceed(h),
         \/ AcceptWrite(h) \/ AcceptPublish(h) \/ RejectWrite(h)
         \/ WithdrawWrite(h) \/ WithdrawDelete(h)
  PROVE  PairInv'
<1>0. PICK m, o : m = handler[h].me /\ o = handler[h].other
  OBVIOUS
<1>1. /\ handler \in [Handlers -> HandlerState]
      /\ handler[h].pc \notin BlockPCs /\ UNCHANGED <<follows, halfDone>>
  BY DEF ConsentInv, TypeOK, AcceptWrite, AcceptPublish, RejectWrite, WithdrawWrite,
         WithdrawDelete, At, BlockPCs, Continue, Finish
<1>2. Busy(h)' => handler'[h].pc \notin {"request.create"} \cup BlockPCs
  <2>1. CASE AcceptWrite(h)
    <3>1. handler'[h].pc = "accept.publish"
      BY <1>1, <2>1 DEF AcceptWrite, Continue, HandlerState
    <3>. QED BY <3>1 DEF BlockPCs
  <2>2. CASE Finish(h)
    BY <1>1, <2>2 DEF Finish, Busy, Idle
  <2>. QED BY <2>1, <2>2 DEF AcceptPublish, RejectWrite, WithdrawWrite, WithdrawDelete
<1>3. CASE AcceptPublish(h)
  <2>1. row' = row
    BY <1>3 DEF AcceptPublish
  <2>. QED BY <1>0, <1>1, <1>2, <2>1, FewerRows DEF RowsBetween
<1>4. CASE ~AcceptPublish(h)
  <2>1. /\ handler[h].pc \in HoldsRow
        /\ \/ \E st \in Status : SetStatus(handler[h].id, st)
           \/ row' = [row EXCEPT ![handler[h].id] = None]
    BY <1>4 DEF AcceptWrite, RejectWrite, WithdrawWrite, WithdrawDelete, At, HoldsRow, Status
  <2>2. /\ RowsBetween(m, o)' \subseteq RowsBetween(m, o)
        /\ \A i \in RowIds : \/ row'[i] = row[i]
                             \/ /\ row[i] # None => IsBetween(row[i], m, o)
                                /\ row'[i] # None => IsBetween(row'[i], m, o)
    BY <1>0, <2>1, RowsOnlyGo
  <2>. QED BY <1>0, <1>1, <1>2, <2>2, FewerRows
<1>. QED BY <1>3, <1>4

\* block, statement by statement, and follow.
LEMMA BlockPair ==
  ASSUME ConsentInv, PairInv, NEW h \in Handlers, Proceed(h),
         BlockDropFollows(h) \/ BlockFind(h) \/ BlockDelete(h) \/ FollowCreate(h)
  PROVE  PairInv'
<1>0. PICK m, o : m = handler[h].me /\ o = handler[h].other
  OBVIOUS
<1>1. /\ handler \in [Handlers -> HandlerState] /\ handler[h] \in HandlerState
      /\ row \in [RowIds -> Row \cup {None}]
      /\ Busy(h) /\ raced' = raced /\ blocks' = blocks
      /\ Busy(h)' => handler'[h].me = m /\ handler'[h].other = o
      /\ m \in Users /\ o \in Users
      /\ Pair(m, o) \notin raced =>
           /\ Undisturbed(h)
           /\ \A i, j \in RowsBetween(m, o) : i = j
           /\ (Blocked(m, o) /\ Pair(m, o) \notin halfDone) =>
                TornDown(m, o) \/ handler[h].pc \in BlockPCs
  <2>1. /\ handler \in [Handlers -> HandlerState] /\ handler[h] \in HandlerState
        /\ row \in [RowIds -> Row \cup {None}]
    BY DEF ConsentInv, TypeOK
  <2>2. /\ Busy(h) /\ raced' = raced /\ blocks' = blocks
        /\ Busy(h)' => handler'[h].me = m /\ handler'[h].other = o
    BY <1>0, MoverStays
  <2>. QED BY <1>0, <2>1, <2>2, AloneAtWork
<1>2. ASSUME handler' = [handler EXCEPT ![h] = Idle] PROVE ~Busy(h)'
  BY <1>1, <1>2 DEF Busy, Idle
<1>3. \A u, v \in Users : Pair(u, v) # Pair(m, o) =>
        <<u, v>> \notin {<<m, o>>, <<o, m>>}
  BY SamePair
<1>4. CASE BlockDropFollows(h)
  <2>1. /\ UNCHANGED <<row, halfDone>> /\ follows' \subseteq follows
        /\ follows \subseteq follows' \cup {<<m, o>>, <<o, m>>}
    BY <1>0, <1>4 DEF BlockDropFollows, Continue
  <2>2. /\ handler'[h].pc \in BlockPCs /\ Busy(h)'
        /\ handler'[h].pc \in {"block.follows2", "block.find"}
        /\ <<m, o>> \notin follows' \/ handler[h].pc = "block.follows2"
        /\ handler'[h].pc = "block.find" =>
             <<o, m>> \notin follows' /\ handler[h].pc = "block.follows2"
    BY <1>0, <1>1, <1>4 DEF BlockDropFollows, Continue, At, HandlerState, BlockPCs, Busy
  <2>3. Within(m, o)
    BY <1>1, <1>3, <2>1 DEF Within
  <2>4. Undisturbed(h) => Undisturbed(h)'
    <3>1. SUFFICES ASSUME Undisturbed(h) PROVE Undisturbed(h)'
      OBVIOUS
    <3>2. handler[h].pc = "block.follows2" => <<m, o>> \notin follows
      BY <1>0, <3>1 DEF Undisturbed
    <3>3. <<m, o>> \notin follows'
      BY <2>1, <2>2, <3>2
    <3>. QED BY <1>1, <2>2, <3>3 DEF Undisturbed
  <2>5. RowsBetween(m, o)' = RowsBetween(m, o)
    BY <2>1 DEF RowsBetween
  <2>. QED BY <1>0, <1>1, <2>2, <2>3, <2>4, <2>5, ProceedPair
<1>5. CASE BlockFind(h)
  <2>1. UNCHANGED <<row, follows>> /\ handler[h].pc = "block.find"
    BY <1>5 DEF BlockFind, At
  <2>2. CASE RowsBetween(m, o) = {} /\ FinishBlock(h)
    <3>1. ~Busy(h)' /\ halfDone' = halfDone \ {Pair(m, o)}
      BY <1>0, <1>2, <2>2 DEF FinishBlock
    <3>2. Within(m, o)
      BY <1>1, <2>1, <3>1 DEF Within
    <3>3. RowsBetween(m, o)' = {}
      BY <2>1, <2>2 DEF RowsBetween
    <3>4. Pair(m, o) \notin raced => TornDown(m, o)'
      BY <1>0, <1>1, <2>1, <3>3 DEF TornDown, Undisturbed
    <3>. QED BY <1>0, <3>1, <3>2, <3>3, <3>4, ProceedPair
  <2>3. CASE /\ \E i \in RowsBetween(m, o) :
                  handler' = [handler EXCEPT ![h].pc = "block.delete", ![h].id = i]
             /\ UNCHANGED halfDone
    <3>1. PICK i \in RowsBetween(m, o) :
               handler' = [handler EXCEPT ![h].pc = "block.delete", ![h].id = i]
      BY <2>3
    <3>2. /\ handler'[h].pc = "block.delete" /\ handler'[h].id = i
          /\ Busy(h)' /\ handler'[h].pc \in BlockPCs
      BY <1>1, <3>1 DEF HandlerState, Busy, BlockPCs
    <3>3. RowsBetween(m, o)' = RowsBetween(m, o)
      BY <2>1 DEF RowsBetween
    <3>4. (Undisturbed(h) /\ Pair(m, o) \notin raced) => Undisturbed(h)'
      <4>1. SUFFICES ASSUME Undisturbed(h), Pair(m, o) \notin raced PROVE Undisturbed(h)'
        OBVIOUS
      <4>2. RowsBetween(m, o)' \subseteq {i}
        BY <1>1, <3>3, <4>1
      <4>. QED BY <1>0, <1>1, <2>1, <3>2, <4>1, <4>2 DEF Undisturbed
    <3>. QED BY <1>0, <2>1, <2>3, <3>2, <3>4, QuietPair
  <2>. QED BY <1>0, <1>5, <2>2, <2>3 DEF BlockFind
<1>6. CASE BlockDelete(h)
  <2>1. /\ follows' = follows /\ handler[h].pc = "block.delete" /\ handler[h].pc \in HoldsRow
        /\ row' = [row EXCEPT ![handler[h].id] = None]
    BY <1>6 DEF BlockDelete, At, HoldsRow
  <2>2. ~Busy(h)' /\ halfDone' = halfDone \ {Pair(m, o)}
    BY <1>0, <1>2, <1>6 DEF BlockDelete, FinishBlock
  <2>3. /\ RowsBetween(m, o)' \subseteq RowsBetween(m, o)
        /\ \A i \in RowIds : \/ row'[i] = row[i]
                             \/ /\ row[i] # None => IsBetween(row[i], m, o)
                                /\ row'[i] # None => IsBetween(row'[i], m, o)
    BY <1>0, <2>1, RowsOnlyGo
  <2>4. Within(m, o)
    BY <1>1, <2>1, <2>2, <2>3 DEF Within
  <2>5. Pair(m, o) \notin raced => TornDown(m, o)'
    <3>1. handler[h].id \notin RowsBetween(m, o)'
      BY <1>1, <2>1 DEF RowsBetween, IsBetween
    <3>. QED BY <1>0, <1>1, <2>1, <2>3, <3>1 DEF TornDown, Undisturbed
  <2>. QED BY <1>0, <1>1, <2>2, <2>3, <2>4, <2>5, ProceedPair
<1>7. CASE FollowCreate(h)
  <2>1. /\ UNCHANGED <<row, halfDone>> /\ follows' = follows \cup {<<m, o>>}
        /\ ~Busy(h)' /\ handler[h].pc \notin BlockPCs
    BY <1>0, <1>2, <1>7 DEF FollowCreate, Finish, At, BlockPCs
  <2>2. Within(m, o)
    BY <1>1, <1>3, <2>1 DEF Within
  <2>3. RowsBetween(m, o)' = RowsBetween(m, o)
    BY <2>1 DEF RowsBetween
  <2>4. Pair(m, o) \notin raced => ~(Blocked(m, o) /\ Pair(m, o) \notin halfDone)
    BY <1>0, <1>1, <2>1 DEF Undisturbed
  <2>. QED BY <1>0, <1>1, <2>1, <2>2, <2>3, <2>4, ProceedPair
<1>. QED BY <1>4, <1>5, <1>6, <1>7

\* A request that dies; a block that dies half way is marked.
LEMMA FailPair ==
  ASSUME ConsentInv, PairInv, NEW h \in Handlers, Proceed(h), Fail(h)
  PROVE  PairInv'
<1>0. PICK m, o : m = handler[h].me /\ o = handler[h].other
  OBVIOUS
<1>1. /\ ~Busy(h)' /\ UNCHANGED <<row, follows, blocks, raced>>
  BY DEF Fail, Busy, Idle, ConsentInv, TypeOK
<1>2. CASE handler[h].pc \in BlockPCs
  <2>1. halfDone' = halfDone \cup {Pair(m, o)}
    BY <1>0, <1>2 DEF Fail
  <2>2. Within(m, o)
    BY <1>1, <2>1 DEF Within
  <2>3. RowsBetween(m, o)' = RowsBetween(m, o)
    BY <1>1 DEF RowsBetween
  <2>4. Busy(h)
    BY MoverStays
  <2>. QED BY <1>0, <1>1, <2>1, <2>2, <2>3, <2>4, ProceedPair, AloneAtWork
<1>3. CASE handler[h].pc \notin BlockPCs
  <2>1. halfDone' = halfDone
    BY <1>3 DEF Fail
  <2>. QED BY <1>1, <1>3, <2>1, QuietPair
<1>. QED BY <1>2, <1>3

\* A request begins alone with its pair or marks it; what is not a block finds none.
LEMMA BeginPair ==
  ASSUME ConsentInv, PairInv, NEW h \in Handlers, Begin(h)
  PROVE  PairInv'
<1>1. /\ handler \in [Handlers -> HandlerState]
      /\ row \in [RowIds -> Row \cup {None}]
  BY DEF ConsentInv, TypeOK
<1>2. ASSUME NEW st, Start(h, st), st.pc # "idle",
             NEW m \in Users, m = st.me, NEW o \in Users, o = st.other,
             UNCHANGED <<row, follows>>,
             blocks' = blocks \/ (st.pc = "block.follows1" /\ blocks' = blocks \cup {<<m, o>>}),
             st.pc \in {"request.find", "block.follows1", "follow.create", "accept.write",
                        "reject.write", "withdraw.write", "withdraw.delete"},
             st.pc \in {"request.find", "follow.create"} => ~Blocked(m, o),
             st.pc \in AnswerPCs => RowsBetween(m, o) # {}
      PROVE  PairInv'
  <2>1. TouchesOnly(h)
    BY HandlerStep DEF StepFacts
  <2>2. ~Busy(h) /\ handler'[h] = st /\ halfDone' = halfDone
        /\ raced' = IF InFlight(m, o) = {} THEN raced ELSE raced \cup {Pair(m, o)}
    BY <1>1, <1>2 DEF Start, Busy, Idle
  <2>3. \A u, v \in Users : Pair(u, v) # Pair(m, o) => <<u, v>> # <<m, o>>
    BY SamePair
  <2>4. Within(m, o)
    BY <1>2, <2>2, <2>3 DEF Within
  <2>5. PairHeld(m, o)
    BY DEF PairInv
  <2>6. /\ RowsBetween(m, o)' = RowsBetween(m, o)
        /\ st.pc # "block.follows1" => (Blocked(m, o)' <=> Blocked(m, o))
    BY <1>2 DEF RowsBetween, Blocked
  <2>7. (Pair(m, o) \notin raced' /\ Pair(m, o) \notin halfDone /\ st.pc # "block.follows1")
          => ~Blocked(m, o)'
    BY <1>2, <2>2, <2>5, <2>6 DEF PairHeld, TornDown, AnswerPCs
  <2>8. Pair(m, o) \notin raced' => Undisturbed(h)'
    BY <1>2, <2>2, <2>7 DEF Undisturbed, BlockPCs
  <2>9. Pair(m, o) \notin raced' =>
          /\ InFlight(m, o) \subseteq {h}
          /\ \A i, j \in RowsBetween(m, o)' : i = j
          /\ (Blocked(m, o)' /\ Pair(m, o) \notin halfDone') =>
               Busy(h)' /\ handler'[h].pc \in BlockPCs
    BY <1>2, <2>2, <2>5, <2>6, <2>7 DEF PairHeld, Busy, BlockPCs
  <2>. QED BY <1>2, <2>1, <2>2, <2>4, <2>8, <2>9, PairStep
<1>3. CASE \E u, v \in Users : \/ RequestCheckBlock(h, u, v)
                               \/ BlockCreate(h, u, v)
                               \/ FollowCheckBlock(h, u, v)
  <2>1. PICK u \in Users, v \in Users, pc \in {"request.find", "block.follows1", "follow.create"} :
          /\ Start(h, [Idle EXCEPT !.pc = pc, !.me = u, !.other = v])
          /\ UNCHANGED <<row, follows>>
          /\ blocks' = blocks \/ (pc = "block.follows1" /\ blocks' = blocks \cup {<<u, v>>})
          /\ pc \in {"request.find", "follow.create"} => ~Blocked(u, v)
    BY <1>3 DEF RequestCheckBlock, BlockCreate, FollowCheckBlock
  <2> DEFINE st == [Idle EXCEPT !.pc = pc, !.me = u, !.other = v]
  <2>2. st.pc = pc /\ st.me = u /\ st.other = v /\ pc # "idle" /\ pc \notin AnswerPCs
    BY DEF Idle, AnswerPCs
  <2>3. Start(h, st)
    BY <2>1
  <2> HIDE DEF st
  <2>. QED BY <1>2, <2>1, <2>2, <2>3
<1>4. CASE \E u \in Users, i \in RowIds : \/ AcceptLoad(h, u, i)
                                          \/ RejectLoad(h, u, i)
                                          \/ WithdrawLoad(h, u, i)
  <2>1. PICK u \in Users, i \in RowIds, pc \in AnswerPCs :
          /\ row[i] # None /\ u \in {row[i].requester, row[i].addressee}
          /\ pc \in {"accept.write", "reject.write", "withdraw.write", "withdraw.delete"}
          /\ Load(h, u, i, pc)
          /\ UNCHANGED <<row, follows, blocks>>
    BY <1>4 DEF AcceptLoad, RejectLoad, WithdrawLoad, AnswerPCs
  <2> DEFINE other == IF row[i].requester = u THEN row[i].addressee ELSE row[i].requester
             st == [pc |-> pc, me |-> u, other |-> other, id |-> i, loaded |-> row[i]]
  <2>2. row[i] \in Row
    BY <1>1, <2>1
  <2>3. /\ other \in Users /\ i \in RowsBetween(u, other) /\ st.pc = pc /\ st.me = u
        /\ st.other = other /\ pc # "idle"
    BY <2>1, <2>2 DEF Row, RowsBetween, IsBetween
  <2>4. Start(h, st)
    BY <2>1 DEF Load
  <2> HIDE DEF st, other
  <2>. QED BY <1>2, <2>1, <2>3, <2>4
<1>. QED BY <1>3, <1>4 DEF Begin

\* Lifting a block or a follow disturbs no pair.
LEMMA LiftPair ==
  ASSUME PairInv, NEW u \in Users, NEW v \in Users, Unblock(u, v) \/ Unfollow(u, v)
  PROVE  PairInv'
<1>1. /\ UNCHANGED <<row, handler, raced, halfDone>>
      /\ follows' \subseteq follows /\ blocks' \subseteq blocks
  BY DEF Unblock, Unfollow
<1>2. ASSUME NEW a, NEW b
      PROVE  /\ Blocked(a, b)' => Blocked(a, b)
             /\ TornDown(a, b) => TornDown(a, b)'
             /\ RowsBetween(a, b)' = RowsBetween(a, b)
             /\ InFlight(a, b)' = InFlight(a, b)
  BY <1>1 DEF Blocked, TornDown, RowsBetween, InFlight
<1>3. ASSUME NEW h, Undisturbed(h) PROVE Undisturbed(h)'
  <2>1. PICK m, o : m = handler[h].me /\ o = handler[h].other
    OBVIOUS
  <2>. QED BY <1>1, <1>2, <1>3, <2>1 DEF Undisturbed
<1>. QED BY <1>1, <1>2, <1>3 DEF PairInv, PairHeld

\* A pair nobody raced on has one row, and a block that ran to its end leaves it
\* neither row nor follow (connection.service.ts request, block.service.ts).
THEOREM PairsStayUndisturbed == Spec => []UndisturbedPairs
<1>1. Init => PairInv
  BY DEF Init, PairInv, PairHeld, InFlight, RowsBetween, IsBetween, Blocked, Idle
<1>2. ConsentInv /\ PairInv /\ [Next]_vars => PairInv'
  <2>. SUFFICES ASSUME ConsentInv, PairInv, [Next]_vars PROVE PairInv'
    OBVIOUS
  <2>1. ASSUME NEW h \in Handlers, Begin(h) \/ Proceed(h) PROVE PairInv'
    <3>1. CASE Proceed(h)
      BY <3>1, RequestPair, AnswerPair, BlockPair, FailPair DEF Proceed
    <3>. QED BY <2>1, <3>1, BeginPair
  <2>2. CASE UNCHANGED vars
    BY <2>2 DEF vars, PairInv, PairHeld, InFlight, RowsBetween, Blocked, TornDown, Undisturbed
  <2>. QED BY <2>1, <2>2, LiftPair DEF Next
<1>3. PairInv => UndisturbedPairs
  BY DEF PairInv, PairHeld, UndisturbedPairs, TornDown
<1>. QED BY <1>1, <1>2, <1>3, ConsentInvAlways, PTL DEF Spec
=============================================================================
