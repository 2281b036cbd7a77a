--------------------------- MODULE UserService_proofs ---------------------------
(***************************************************************************)
(* For any number of users, endorsers, requests and events: the tables and *)
(* messages keep their types, a profile is made once and only asked fields *)
(* of it change, and the counter of a skill agrees with its endorsements.  *)
(***************************************************************************)
EXTENDS UserService, FiniteSetTheorems, TLAPS

USE SearchAssumption, UserAssumption

\* What a request holds when its next statement uses it.
Loaded(h) ==
  LET s == handler[h] IN
  /\ s.pc # "idle" => s.user \in Users
  /\ s.pc \in {"register.emit", "update.write", "update.emit"} => s.copy \in Row
  /\ s.pc = "update.write" => s.field \in Fields /\ s.value \in Values
                              /\ profile[s.user] # None
  /\ s.pc \in EndorsePCs => s.by \in Endorsers
LoadedInv == \A h \in Handlers : Loaded(h)

TypeInv == TypeOK /\ LoadedInv

\* No step takes a profile away.
ProfilesStay == \A u \in Users : profile[u] # None => profile'[u] # None
-----------------------------------------------------------------------------
(* Types *)

\* What is announced about a user is a document.
LEMMA BlankIsRow == Blank \in Row /\ Row \subseteq Docs /\ Registration \in Docs
BY DEF Blank, Row

\* A message that is sent keeps the types of the index and its queue.
LEMMA SendTypes ==
  ASSUME SearchTypeOK, NEW id \in Ids, NEW doc \in Docs \cup {None}, Send(id, doc)
  PROVE  SearchTypeOK'
<1>1. sent[id] + 1 \in 1 .. MaxSent /\ sent' \in [Ids -> 0 .. MaxSent]
  BY DEF SearchTypeOK, Send
<1>2. [id |-> id, doc |-> doc, number |-> sent[id] + 1, handled |-> FALSE] \in Message
  BY <1>1 DEF Message
<1>. QED BY <1>1, <1>2 DEF SearchTypeOK, Send

\* So does every step of the consumer.
LEMMA ConsumeTypes ==
  ASSUME SearchTypeOK, Consume
  PROVE  SearchTypeOK'
<1>1. PICK m \in mail : Handle(m) \/ Ack(m) \/ Bury(m)
  BY DEF Consume
<1>2. m \in Message /\ [m EXCEPT !.handled = TRUE] \in Message
  BY DEF SearchTypeOK, Message
<1>. QED BY <1>1, <1>2 DEF SearchTypeOK, Handle, Ack, Bury, Message

\* Only the request that moves changes.
LEMMA OthersLoaded ==
  ASSUME TypeInv, NEW h \in Handlers, NEW state \in HandlerState,
         handler' = [handler EXCEPT ![h] = state], Loaded(h)', ProfilesStay
  PROVE  handler' \in [Handlers -> HandlerState] /\ LoadedInv'
<1>1. handler' \in [Handlers -> HandlerState]
  BY DEF TypeInv, TypeOK
<1>2. \A g \in Handlers : g # h => handler'[g] = handler[g]
  BY DEF TypeInv, TypeOK
<1>. QED BY <1>1, <1>2 DEF TypeInv, LoadedInv, Loaded, ProfilesStay

\* A request that ends keeps the types and what the other requests have loaded.
LEMMA FinishTypes ==
  ASSUME TypeInv, NEW h \in Handlers, Finish(h), ProfilesStay
  PROVE  handler' \in [Handlers -> HandlerState] /\ LoadedInv'
<1>1. Idle \in HandlerState
  BY DEF Idle, HandlerState, PCs
<1>2. handler'[h] = Idle
  BY <1>1 DEF Finish, TypeInv, TypeOK
<1>3. Loaded(h)'
  BY <1>2 DEF Loaded, Idle, EndorsePCs
<1>. QED BY <1>1, <1>3, OthersLoaded DEF Finish

\* Beginning a request keeps the types.
LEMMA BeginTypes ==
  ASSUME TypeInv, NEW h \in Handlers, Begin(h)
  PROVE  TypeInv'
<1>1. ASSUME NEW u \in Users, RegisterFind(h, u)
      PROVE  TypeInv'
  <2>. DEFINE state == [Idle EXCEPT !.user = u, !.pc = IF profile[u] = None
                                                       THEN "register.create" ELSE "register.ack"]
  <2>1. state \in HandlerState /\ handler' = [handler EXCEPT ![h] = state]
    BY <1>1 DEF RegisterFind, Start, Idle, HandlerState, PCs, ProfilePCs
  <2>2. handler'[h] = state
    BY <2>1 DEF TypeInv, TypeOK
  <2>3. Loaded(h)'
    BY <2>2 DEF Loaded, Idle, EndorsePCs
  <2>4. handler' \in [Handlers -> HandlerState] /\ LoadedInv'
    BY <1>1, <2>1, <2>3, OthersLoaded DEF RegisterFind, ProfilesStay
  <2>. QED BY <1>1, <2>4 DEF RegisterFind, TypeInv, TypeOK, SearchTypeOK, Skills, Histories, searchVars
<1>2. ASSUME NEW u \in Users, NEW f \in Fields, NEW v \in Values, UpdateFind(h, u, f, v)
      PROVE  TypeInv'
  <2>. DEFINE state == [Idle EXCEPT !.pc = "update.write", !.user = u, !.field = f, !.value = v,
                                    !.copy = profile[u]]
  <2>1. profile[u] \in Row
    BY <1>2 DEF UpdateFind, TypeInv, TypeOK
  <2>2. state \in HandlerState /\ handler' = [handler EXCEPT ![h] = state]
    BY <1>2, <2>1 DEF UpdateFind, Start, Idle, HandlerState, PCs, ProfilePCs
  <2>3. handler'[h] = state
    BY <2>2 DEF TypeInv, TypeOK
  <2>4. Loaded(h)'
    BY <1>2, <2>1, <2>3 DEF Loaded, Idle, EndorsePCs, UpdateFind
  <2>5. handler' \in [Handlers -> HandlerState] /\ LoadedInv'
    BY <1>2, <2>2, <2>4, OthersLoaded DEF UpdateFind, ProfilesStay
  <2>6. overlapped' \subseteq Users
    BY <1>2 DEF UpdateFind, TypeInv, TypeOK
  <2>. QED BY <1>2, <2>5, <2>6 DEF UpdateFind, TypeInv, TypeOK, SearchTypeOK, Skills, searchVars
<1>3. ASSUME NEW u \in Users, NEW e \in Endorsers, EndorseFind(h, u, e)
      PROVE  TypeInv'
  <2>. DEFINE state == [Idle EXCEPT !.pc = "endorse.insert", !.user = u, !.by = e]
  <2>1. state \in HandlerState /\ handler' = [handler EXCEPT ![h] = state]
    BY <1>3 DEF EndorseFind, Start, Idle, HandlerState, PCs, EndorsePCs
  <2>2. handler'[h] = state
    BY <2>1 DEF TypeInv, TypeOK
  <2>3. Loaded(h)'
    BY <2>2 DEF Loaded, Idle
  <2>4. handler' \in [Handlers -> HandlerState] /\ LoadedInv'
    BY <1>3, <2>1, <2>3, OthersLoaded DEF EndorseFind, ProfilesStay
  <2>. QED BY <1>3, <2>4 DEF EndorseFind, TypeInv, TypeOK, SearchTypeOK, Skills, Histories, searchVars
<1>. QED BY <1>1, <1>2, <1>3 DEF Begin

\* The steps of a registration keep the types.
LEMMA RegisterTypes ==
  ASSUME TypeInv, NEW h \in Handlers,
         RegisterCreate(h) \/ RegisterEmit(h) \/ RegisterAck(h)
  PROVE  TypeInv'
<1>. DEFINE s == handler[h]
<1>1. s \in HandlerState /\ Loaded(h) /\ s.user \in Users
  BY DEF TypeInv, TypeOK, LoadedInv, Loaded, RegisterCreate, RegisterEmit, RegisterAck, At
<1>2. CASE RegisterCreate(h)
  <2>1. profile' \in [Users -> Row \cup {None}]
    BY <1>1, <1>2, BlankIsRow DEF RegisterCreate, TypeInv, TypeOK
  <2>0. ProfilesStay
    BY <1>1, <1>2, BlankIsRow DEF RegisterCreate, ProfilesStay, TypeInv, TypeOK
  <2>2. handler' \in [Handlers -> HandlerState] /\ LoadedInv'
    <3>1. CASE Finish(h)
      BY <2>0, <3>1, FinishTypes
    <3>2. CASE handler' = [handler EXCEPT ![h].pc = "register.emit", ![h].copy = Blank]
      <4>. DEFINE state == [s EXCEPT !.pc = "register.emit", !.copy = Blank]
      <4>1. state \in HandlerState /\ handler' = [handler EXCEPT ![h] = state]
        BY <1>1, <3>2, BlankIsRow DEF HandlerState, PCs, ProfilePCs, TypeInv, TypeOK
      <4>2. handler'[h] = state
        BY <4>1 DEF TypeInv, TypeOK
      <4>3. Loaded(h)'
        BY <1>1, <4>2, BlankIsRow DEF Loaded, HandlerState, EndorsePCs
      <4>. QED BY <2>0, <4>1, <4>3, OthersLoaded
    <3>. QED BY <1>2, <3>1, <3>2 DEF RegisterCreate
  <2>. QED BY <1>2, <2>1, <2>2 DEF RegisterCreate, TypeInv, TypeOK, SearchTypeOK, Skills, Histories, searchVars
<1>3. CASE RegisterEmit(h)
  <2>. DEFINE state == [s EXCEPT !.pc = "register.ack", !.copy = None]
  <2>1. state \in HandlerState /\ handler' = [handler EXCEPT ![h] = state]
    BY <1>1, <1>3 DEF RegisterEmit, HandlerState, PCs, ProfilePCs, TypeInv, TypeOK
  <2>2. handler'[h] = state
    BY <2>1 DEF TypeInv, TypeOK
  <2>3. Loaded(h)'
    BY <1>1, <2>2 DEF Loaded, HandlerState, EndorsePCs
  <2>4. handler' \in [Handlers -> HandlerState] /\ LoadedInv'
    BY <1>3, <2>1, <2>3, OthersLoaded DEF RegisterEmit, ProfilesStay
  <2>5. s.copy \in Docs
    BY <1>1, <1>3, BlankIsRow DEF RegisterEmit, Loaded, At
  <2>6. SearchTypeOK'
    BY <1>1, <1>3, <2>5, SendTypes DEF RegisterEmit, TypeInv, TypeOK
  <2>. QED BY <1>3, <2>4, <2>6 DEF RegisterEmit, TypeInv, TypeOK, Skills, Histories
<1>4. CASE RegisterAck(h)
  <2>1. handler' \in [Handlers -> HandlerState] /\ LoadedInv'
    BY <1>4, FinishTypes DEF RegisterAck, ProfilesStay
  <2>. QED BY <1>1, <1>4, <2>1 DEF RegisterAck, TypeInv, TypeOK, SearchTypeOK, Skills, Histories, searchVars
<1>. QED BY <1>2, <1>3, <1>4

\* The steps of an update keep the types.
LEMMA UpdateTypes ==
  ASSUME TypeInv, NEW h \in Handlers, UpdateWrite(h) \/ UpdateEmit(h)
  PROVE  TypeInv'
<1>. DEFINE s == handler[h]
<1>1. s \in HandlerState /\ Loaded(h) /\ s.user \in Users /\ s.copy \in Row
  BY DEF TypeInv, TypeOK, LoadedInv, Loaded, UpdateWrite, UpdateEmit, At
<1>2. CASE UpdateWrite(h)
  <2>. DEFINE state == [s EXCEPT !.pc = "update.emit", !.copy = [@ EXCEPT ![s.field] = s.value]]
  <2>1. s.pc = "update.write" /\ s.field \in Fields /\ s.value \in Values
    BY <1>1, <1>2 DEF UpdateWrite, At, Loaded
  <2>2. [s.copy EXCEPT ![s.field] = s.value] \in Row
    BY <1>1, <2>1 DEF Row
  <2>3. state \in HandlerState /\ handler' = [handler EXCEPT ![h] = state]
    BY <1>1, <1>2, <2>2 DEF UpdateWrite, HandlerState, PCs, ProfilePCs, TypeInv, TypeOK
  <2>4. handler'[h] = state
    BY <2>3 DEF TypeInv, TypeOK
  <2>5. Loaded(h)'
    BY <1>1, <2>1, <2>2, <2>4 DEF Loaded, HandlerState, EndorsePCs
  <2>6. /\ profile' \in [Users -> Row \cup {None}]
        /\ ProfilesStay
    <3>1. profile[s.user] \in Row
      BY <1>1, <1>2 DEF UpdateWrite, At, Loaded, TypeInv, TypeOK
    <3>2. [profile[s.user] EXCEPT ![s.field] = s.value] \in Row
      BY <2>1, <3>1 DEF Row
    <3>. QED BY <1>1, <1>2, <3>2 DEF UpdateWrite, ProfilesStay, TypeInv, TypeOK
  <2>7. handler' \in [Handlers -> HandlerState] /\ LoadedInv'
    BY <2>3, <2>5, <2>6, OthersLoaded
  <2>. QED BY <1>2, <2>6, <2>7 DEF UpdateWrite, TypeInv, TypeOK, SearchTypeOK, Skills, Histories, searchVars
<1>3. CASE UpdateEmit(h)
  <2>1. handler' \in [Handlers -> HandlerState] /\ LoadedInv'
    BY <1>3, FinishTypes DEF UpdateEmit, ProfilesStay
  <2>2. SearchTypeOK'
    BY <1>1, <1>3, BlankIsRow, SendTypes DEF UpdateEmit, TypeInv, TypeOK
  <2>. QED BY <1>3, <2>1, <2>2 DEF UpdateEmit, TypeInv, TypeOK, Skills, Histories
<1>. QED BY <1>2, <1>3

\* The steps of an endorsement, and a failure, keep the types.
LEMMA EndorseTypes ==
  ASSUME TypeInv, NEW h \in Handlers, EndorseInsert(h) \/ EndorseCommit(h) \/ Fail(h)
  PROVE  TypeInv'
<1>. DEFINE s == handler[h]
<1>1. s \in HandlerState /\ Loaded(h) /\ s.user \in Users
  BY DEF TypeInv, TypeOK, LoadedInv, Loaded, EndorseInsert, EndorseCommit, Fail, At
<1>2. ProfilesStay
  BY DEF EndorseInsert, EndorseCommit, Fail, ProfilesStay
<1>3. CASE EndorseInsert(h)
  <2>1. handler' \in [Handlers -> HandlerState] /\ LoadedInv'
    <3>1. CASE Finish(h)
      BY <1>2, <3>1, FinishTypes
    <3>2. CASE handler' = [handler EXCEPT ![h].pc = "endorse.count"]
      <4>. DEFINE state == [s EXCEPT !.pc = "endorse.count"]
      <4>1. state \in HandlerState /\ handler' = [handler EXCEPT ![h] = state]
        BY <1>1, <3>2 DEF HandlerState, PCs, EndorsePCs, TypeInv, TypeOK
      <4>2. handler'[h] = state
        BY <4>1 DEF TypeInv, TypeOK
      <4>3. Loaded(h)'
        BY <1>1, <1>3, <4>2 DEF Loaded, HandlerState, EndorsePCs, EndorseInsert, At
      <4>. QED BY <1>2, <4>1, <4>3, OthersLoaded
    <3>. QED BY <1>3, <3>1, <3>2 DEF EndorseInsert
  <2>. QED BY <1>3, <2>1 DEF EndorseInsert, TypeInv, TypeOK, SearchTypeOK, Skills, Histories, searchVars
<1>4. CASE EndorseCommit(h)
  <2>1. handler' \in [Handlers -> HandlerState] /\ LoadedInv'
    BY <1>2, <1>4, FinishTypes DEF EndorseCommit
  <2>2. s.by \in Endorsers
    BY <1>1, <1>4 DEF EndorseCommit, At, Loaded, EndorsePCs
  <2>3. skill' \in [Users -> Nat \cup {None}] /\ endorsed' \in [Users -> SUBSET Endorsers]
    <3>1. CASE skill[s.user] = None
      BY <1>4, <3>1 DEF EndorseCommit, Skills, TypeInv, TypeOK
    <3>2. CASE skill[s.user] # None
      <4>1. skill[s.user] \in Nat
        BY <1>1, <3>2 DEF TypeInv, TypeOK
      <4>. QED BY <1>1, <1>4, <2>2, <3>2, <4>1 DEF EndorseCommit, TypeInv, TypeOK
    <3>. QED BY <3>1, <3>2
  <2>. QED BY <1>4, <2>1, <2>3 DEF EndorseCommit, TypeInv, TypeOK, SearchTypeOK, Histories, searchVars
<1>5. CASE Fail(h)
  <2>1. handler' \in [Handlers -> HandlerState] /\ LoadedInv'
    BY <1>2, <1>5, FinishTypes DEF Fail
  <2>2. failed' \subseteq Users
    BY <1>1, <1>5 DEF Fail, TypeInv, TypeOK
  <2>. QED BY <1>5, <2>1, <2>2 DEF Fail, TypeInv, TypeOK, SearchTypeOK, Skills, searchVars
<1>. QED BY <1>3, <1>4, <1>5

\* The steps outside requests keep the types.
LEMMA OtherTypes ==
  ASSUME TypeInv, Other
  PROVE  TypeInv'
<1>1. CASE Consume /\ UNCHANGED userVars
  <2>1. SearchTypeOK'
    BY <1>1, ConsumeTypes DEF TypeInv, TypeOK
  <2>. QED BY <1>1, <2>1 DEF userVars, TypeInv, TypeOK, LoadedInv, Loaded
<1>2. ASSUME NEW u \in Users, Register(u)
      PROVE  TypeInv'
  <2>1. SearchTypeOK'
    BY <1>2, BlankIsRow, SendTypes DEF Register, TypeInv, TypeOK
  <2>. QED BY <1>2, <2>1 DEF Register, TypeInv, TypeOK, LoadedInv, Loaded, Skills, Histories
<1>3. ASSUME NEW u \in Users, RegisterBury(u)
      PROVE  TypeInv'
  BY <1>3 DEF RegisterBury, TypeInv, TypeOK, SearchTypeOK, searchVars, LoadedInv, Loaded, Skills
<1>4. ASSUME NEW u \in Users, SkillAdd(u)
      PROVE  TypeInv'
  BY <1>4 DEF SkillAdd, TypeInv, TypeOK, SearchTypeOK, searchVars, LoadedInv, Loaded, Histories
<1>5. ASSUME NEW u \in Users, SkillRemove(u)
      PROVE  TypeInv'
  BY <1>5 DEF SkillRemove, TypeInv, TypeOK, SearchTypeOK, searchVars, LoadedInv, Loaded
<1>. QED BY <1>1, <1>2, <1>3, <1>4, <1>5 DEF Other

\* Every step keeps the types and what requests have loaded.
LEMMA TypesInductive ==
  ASSUME TypeInv, [Next]_vars
  PROVE  TypeInv'
<1>1. CASE UNCHANGED vars
  BY <1>1 DEF vars, searchVars, userVars, TypeInv, TypeOK, SearchTypeOK, LoadedInv, Loaded
<1>2. CASE Next
  BY <1>2, BeginTypes, RegisterTypes, UpdateTypes, EndorseTypes, OtherTypes DEF Next, Proceed
<1>. QED BY <1>1, <1>2

\* They hold when the service starts.
LEMMA InitTypes == Init => TypeInv
<1>. SUFFICES ASSUME Init PROVE TypeInv
  OBVIOUS
<1>1. Idle \in HandlerState
  BY DEF Idle, HandlerState, PCs
<1>2. SearchTypeOK
  BY DEF Init, SearchInit, SearchTypeOK
<1>3. TypeOK
  BY <1>1, <1>2 DEF Init, TypeOK
<1>4. LoadedInv
  BY DEF Init, LoadedInv, Loaded, Idle, EndorsePCs
<1>. QED BY <1>3, <1>4 DEF TypeInv

\* Tables, messages and requests keep their types, and a request holds what its
\* next statement writes: a profile that is updated exists.
THEOREM TypeCorrect == Spec => [](TypeOK /\ LoadedInv)
BY InitTypes, TypesInductive, PTL DEF Spec, TypeInv
-----------------------------------------------------------------------------
(* Profiles *)

\* Only two steps write the profiles table.
LEMMA ProfilesWritten ==
  ASSUME [Next]_vars, \A h \in Handlers : ~RegisterCreate(h) /\ ~UpdateWrite(h)
  PROVE  UNCHANGED profile
BY DEF vars, userVars, Next, Other, Begin, Proceed, Register, RegisterBury, SkillAdd, SkillRemove,
       RegisterFind, UpdateFind, EndorseFind, RegisterEmit, RegisterAck, UpdateEmit,
       EndorseInsert, EndorseCommit, Fail

\* A profile that exists stays, and a column of it changes only by a request
\* that asked for it.
THEOREM ProfilesAreKept == Spec => OnlyAskedFieldsChange
<1>. DEFINE Step == \A u \in Users :
       profile[u] # None =>
         /\ profile'[u] # None
         /\ \A f \in Fields :
              profile'[u][f] # profile[u][f] =>
                \E h \in On(u, {"update.write"}) : handler[h].field = f
<1>1. TypeInv /\ [Next]_vars => Step
  <2>. SUFFICES ASSUME TypeInv, [Next]_vars, NEW u \in Users, profile[u] # None
                PROVE  /\ profile'[u] # None
                       /\ \A f \in Fields :
                            profile'[u][f] # profile[u][f] =>
                              \E h \in On(u, {"update.write"}) : handler[h].field = f
    OBVIOUS
  <2>1. ASSUME NEW h \in Handlers, RegisterCreate(h)
        PROVE  profile'[u] = profile[u]
    <3>1. handler[h].user \in Users
      BY <2>1 DEF RegisterCreate, At, TypeInv, LoadedInv, Loaded
    <3>. QED BY <2>1, <3>1 DEF RegisterCreate, TypeInv, TypeOK
  <2>2. ASSUME NEW h \in Handlers, UpdateWrite(h)
        PROVE  /\ profile'[u] # None
               /\ \A f \in Fields :
                    profile'[u][f] # profile[u][f] => h \in On(u, {"update.write"})
                                                       /\ handler[h].field = f
    <3>1. profile[u] \in Row /\ handler[h].pc = "update.write" /\ handler[h].user \in Users
          /\ handler[h].field \in Fields /\ handler[h].value \in Values
      BY <2>2 DEF UpdateWrite, At, TypeInv, TypeOK, LoadedInv, Loaded
    <3>2. CASE handler[h].user = u
      <4>1. \/ profile'[u] = profile[u]
            \/ profile'[u] = [profile[u] EXCEPT ![handler[h].field] = handler[h].value]
        BY <2>2, <3>2 DEF UpdateWrite, TypeInv, TypeOK
      <4>2. [profile[u] EXCEPT ![handler[h].field] = handler[h].value] \in Row
        BY <3>1 DEF Row
      <4>. QED BY <3>1, <3>2, <4>1, <4>2 DEF Row, On
    <3>3. CASE handler[h].user # u
      <4>1. profile'[u] = profile[u]
        BY <2>2, <3>3 DEF UpdateWrite, TypeInv, TypeOK
      <4>. QED BY <3>1, <4>1
    <3>. QED BY <3>2, <3>3
  <2>. QED BY <2>1, <2>2, ProfilesWritten
<1>. QED BY <1>1, TypeCorrect, PTL DEF Spec, TypeInv, OnlyAskedFieldsChange
-----------------------------------------------------------------------------
(* Endorsements *)

\* An endorsement not yet committed is a new one, of nobody else's request.
PendingIsNew ==
  \A h \in Handlers :
    handler[h].pc = "endorse.count" =>
      /\ handler[h].by \notin endorsed[handler[h].user]
      /\ SameKey(h) = {h}

\* A skill that was never removed counts every endorsement; before it is first
\* added there are none.
CountInv ==
  \A u \in Users :
    /\ skill[u] # None => skill[u] <= Cardinality(endorsed[u])
    /\ u \notin unlinked =>
         Cardinality(endorsed[u]) = IF skill[u] = None THEN 0 ELSE skill[u]

EndorseInv == PendingIsNew /\ CountInv

\* Steps that leave the skills and the transactions alone.
LEMMA EndorseQuiet ==
  ASSUME TypeInv, EndorseInv, UNCHANGED <<skill, endorsed, unlinked>>,
         \A h \in Handlers : handler'[h].pc = "endorse.count" => handler'[h] = handler[h]
  PROVE  EndorseInv'
<1>1. PendingIsNew'
  <2>. SUFFICES ASSUME NEW h \in Handlers, handler'[h].pc = "endorse.count"
                PROVE  /\ handler'[h].by \notin endorsed'[handler'[h].user]
                       /\ SameKey(h)' = {h}
    BY DEF PendingIsNew
  <2>1. handler'[h] = handler[h]
    OBVIOUS
  <2>2. handler[h].by \notin endorsed[handler[h].user] /\ SameKey(h) = {h}
    BY <2>1 DEF EndorseInv, PendingIsNew
  <2>3. SameKey(h)' \subseteq SameKey(h) /\ h \in SameKey(h)'
    BY <2>1 DEF SameKey, On
  <2>. QED BY <2>1, <2>2, <2>3
<1>2. CountInv'
  BY DEF EndorseInv, CountInv
<1>. QED BY <1>1, <1>2 DEF EndorseInv

\* An insert that goes through is the only uncommitted one of its key.
LEMMA InsertPends ==
  ASSUME TypeInv, EndorseInv, NEW h \in Handlers, EndorseInsert(h)
  PROVE  EndorseInv'
<1>. DEFINE s == handler[h]
<1>1. s \in HandlerState /\ s.pc = "endorse.insert" /\ UNCHANGED <<skill, endorsed, unlinked>>
      /\ SameKey(h) = {} /\ handler \in [Handlers -> HandlerState]
  BY DEF EndorseInsert, At, Skills, Histories, TypeInv, TypeOK
<1>2. CASE Finish(h)
  <2>1. \A g \in Handlers : handler'[g].pc = "endorse.count" => handler'[g] = handler[g]
    BY <1>1, <1>2 DEF Finish, Idle
  <2>. QED BY <1>1, <2>1, EndorseQuiet
<1>3. CASE s.by \notin endorsed[s.user] /\ handler' = [handler EXCEPT ![h].pc = "endorse.count"]
  <2>1. /\ handler'[h].pc = "endorse.count" /\ handler'[h].user = s.user /\ handler'[h].by = s.by
        /\ \A g \in Handlers : g # h => handler'[g] = handler[g]
    BY <1>1, <1>3 DEF HandlerState
  <2>2. SameKey(h)' = {h}
    BY <1>1, <2>1 DEF SameKey, On
  <2>3. ASSUME NEW g \in Handlers, g # h, handler'[g].pc = "endorse.count"
        PROVE  handler'[g].by \notin endorsed'[handler'[g].user] /\ SameKey(g)' = {g}
    <3>1. handler[g].by \notin endorsed[handler[g].user] /\ SameKey(g) = {g}
          /\ handler'[g] = handler[g]
      BY <2>1, <2>3 DEF EndorseInv, PendingIsNew
    <3>2. ~(handler[g].user = s.user /\ handler[g].by = s.by)
      BY <1>1, <2>3, <3>1 DEF SameKey, On
    <3>3. SameKey(g)' = SameKey(g)
      BY <1>1, <2>1, <3>1, <3>2 DEF SameKey, On
    <3>. QED BY <1>1, <3>1, <3>3
  <2>4. PendingIsNew'
    BY <1>1, <1>3, <2>1, <2>2, <2>3 DEF PendingIsNew
  <2>5. CountInv'
    BY <1>1 DEF EndorseInv, CountInv
  <2>. QED BY <2>4, <2>5 DEF EndorseInv
<1>. QED BY <1>2, <1>3 DEF EndorseInsert

\* A commit adds one row and one to the counter, or neither.
LEMMA CommitCounts ==
  ASSUME TypeInv, EndorseInv, NEW h \in Handlers, EndorseCommit(h)
  PROVE  EndorseInv'
<1>. DEFINE u == handler[h].user
            e == handler[h].by
<1>1. /\ handler[h].pc = "endorse.count" /\ u \in Users /\ e \in Endorsers
      /\ e \notin endorsed[u] /\ SameKey(h) = {h} /\ unlinked' = unlinked
      /\ handler \in [Handlers -> HandlerState]
  BY DEF EndorseCommit, At, Histories, TypeInv, TypeOK, LoadedInv, Loaded, EndorsePCs,
         EndorseInv, PendingIsNew
<1>2. /\ handler'[h] = Idle
      /\ \A g \in Handlers : g # h => handler'[g] = handler[g]
  BY <1>1 DEF EndorseCommit, Finish
<1>3. CASE skill[u] = None
  <2>1. UNCHANGED <<skill, endorsed>>
    BY <1>3 DEF EndorseCommit, Skills
  <2>. QED BY <1>1, <1>2, <2>1, EndorseQuiet DEF Idle
<1>4. CASE skill[u] # None
  <2>1. /\ skill' = [skill EXCEPT ![u] = @ + 1]
        /\ endorsed' = [endorsed EXCEPT ![u] = @ \cup {e}]
        /\ skill[u] \in Nat
    BY <1>1, <1>4 DEF EndorseCommit, TypeInv, TypeOK
  <2>2. /\ skill'[u] = skill[u] + 1 /\ endorsed'[u] = endorsed[u] \cup {e}
        /\ \A v \in Users : v # u => skill'[v] = skill[v] /\ endorsed'[v] = endorsed[v]
    BY <1>1, <2>1 DEF TypeInv, TypeOK
  <2>3. IsFiniteSet(endorsed[u])
    BY <1>1, FS_Subset DEF TypeInv, TypeOK
  <2>4. Cardinality(endorsed'[u]) = Cardinality(endorsed[u]) + 1
        /\ Cardinality(endorsed[u]) \in Nat
    <3>. DEFINE rows == endorsed[u]
    <3>1. IsFiniteSet(rows) /\ e \notin rows
      BY <1>1, <2>3
    <3>. HIDE DEF rows
    <3>2. Cardinality(rows \cup {e}) = Cardinality(rows) + 1 /\ Cardinality(rows) \in Nat
      BY <3>1, FS_AddElement, FS_CardinalityType
    <3>. QED BY <2>2, <3>2 DEF rows
  <2>5. ASSUME NEW g \in Handlers, handler'[g].pc = "endorse.count"
        PROVE  handler'[g].by \notin endorsed'[handler'[g].user] /\ SameKey(g)' = {g}
    <3>1. g # h /\ handler'[g] = handler[g] /\ handler[g].user \in Users
      BY <1>2, <2>5 DEF Idle, TypeInv, LoadedInv, Loaded
    <3>2. handler[g].by \notin endorsed[handler[g].user] /\ SameKey(g) = {g}
      BY <2>5, <3>1 DEF EndorseInv, PendingIsNew
    <3>3. ~(handler[g].user = u /\ handler[g].by = e)
      BY <1>1, <2>5, <3>1 DEF SameKey, On
    <3>4. SameKey(g)' = {g}
      BY <1>2, <2>5, <3>1, <3>2 DEF SameKey, On, Idle
    <3>. QED BY <2>2, <3>1, <3>2, <3>3, <3>4
  <2>6. CountInv'
    <3>. SUFFICES ASSUME NEW v \in Users
                  PROVE  /\ skill'[v] # None => skill'[v] <= Cardinality(endorsed'[v])
                         /\ v \notin unlinked' => Cardinality(endorsed'[v]) =
                              IF skill'[v] = None THEN 0 ELSE skill'[v]
      BY DEF CountInv
    <3>1. /\ skill[v] # None => skill[v] <= Cardinality(endorsed[v])
          /\ v \notin unlinked => Cardinality(endorsed[v]) =
               IF skill[v] = None THEN 0 ELSE skill[v]
      BY DEF EndorseInv, CountInv
    <3>2. CASE v = u
      <4>1. skill'[u] # None
        BY <2>1, <2>2
      <4>. QED BY <1>1, <1>4, <2>1, <2>2, <2>4, <3>1, <3>2, <4>1
    <3>3. CASE v # u
      BY <1>1, <2>2, <3>1, <3>3
    <3>. QED BY <3>2, <3>3
  <2>. QED BY <2>5, <2>6 DEF EndorseInv, PendingIsNew
<1>. QED BY <1>3, <1>4

\* Adding and removing the skill.
LEMMA LinkCounts ==
  ASSUME TypeInv, EndorseInv, NEW u \in Users, SkillAdd(u) \/ SkillRemove(u)
  PROVE  EndorseInv'
<1>1. UNCHANGED <<handler, endorsed>>
  BY DEF SkillAdd, SkillRemove
<1>2. PendingIsNew'
  BY <1>1 DEF EndorseInv, PendingIsNew, SameKey, On
<1>3. \A v \in Users : Cardinality(endorsed[v]) \in Nat /\ endorsed'[v] = endorsed[v]
  BY <1>1, FS_Subset, FS_CardinalityType DEF TypeInv, TypeOK
<1>4. CASE SkillAdd(u)
  <2>1. /\ skill' = [skill EXCEPT ![u] = IF @ = None THEN 0 ELSE @]
        /\ unlinked' = unlinked
    BY <1>4 DEF SkillAdd, Histories
  <2>2. CountInv'
    BY <1>3, <2>1 DEF EndorseInv, CountInv, TypeInv, TypeOK
  <2>. QED BY <1>2, <2>2 DEF EndorseInv
<1>5. CASE SkillRemove(u)
  <2>1. skill' = [skill EXCEPT ![u] = None] /\ unlinked' = unlinked \cup {u}
    BY <1>5 DEF SkillRemove
  <2>2. CountInv'
    BY <1>3, <2>1 DEF EndorseInv, CountInv, TypeInv, TypeOK
  <2>. QED BY <1>2, <2>2 DEF EndorseInv
<1>. QED BY <1>4, <1>5

\* Every step keeps the account of the endorsements.
LEMMA EndorseInductive ==
  ASSUME TypeInv, EndorseInv, [Next]_vars
  PROVE  EndorseInv'
<1>1. CASE UNCHANGED vars
  BY <1>1, EndorseQuiet DEF vars, userVars
<1>2. CASE Other
  <2>1. CASE \E u \in Users : SkillAdd(u) \/ SkillRemove(u)
    BY <2>1, LinkCounts
  <2>2. CASE \A u \in Users : ~SkillAdd(u) /\ ~SkillRemove(u)
    <3>1. UNCHANGED <<skill, endorsed, unlinked, handler>>
      BY <1>2, <2>2 DEF Other, userVars, Register, RegisterBury, Skills, Histories
    <3>. QED BY <3>1, EndorseQuiet
  <2>. QED BY <2>1, <2>2
<1>3. ASSUME NEW h \in Handlers, Begin(h) \/ Proceed(h)
      PROVE  EndorseInv'
  <2>1. CASE EndorseInsert(h) \/ EndorseCommit(h)
    BY <2>1, InsertPends, CommitCounts
  <2>2. CASE ~EndorseInsert(h) /\ ~EndorseCommit(h)
    <3>1. UNCHANGED <<skill, endorsed, unlinked>>
      BY <1>3, <2>2 DEF Begin, Proceed, RegisterFind, UpdateFind, EndorseFind, RegisterCreate,
             RegisterEmit, RegisterAck, UpdateWrite, UpdateEmit, Fail, Skills, Histories
    <3>2. \A g \in Handlers : handler'[g].pc = "endorse.count" => handler'[g] = handler[g]
      <4>1. handler \in [Handlers -> HandlerState] /\ handler[h] \in HandlerState
        BY DEF TypeInv, TypeOK
      <4>2. /\ \A g \in Handlers : g # h => handler'[g] = handler[g]
            /\ handler'[h].pc # "endorse.count"
        <5>1. CASE Begin(h)
          <6>1. ASSUME NEW u \in Users, RegisterFind(h, u)
                PROVE  /\ \A g \in Handlers : g # h => handler'[g] = handler[g]
                       /\ handler'[h].pc # "endorse.count"
            BY <4>1, <6>1 DEF RegisterFind, Start, Idle
          <6>2. ASSUME NEW u \in Users, NEW f \in Fields, NEW v \in Values, UpdateFind(h, u, f, v)
                PROVE  /\ \A g \in Handlers : g # h => handler'[g] = handler[g]
                       /\ handler'[h].pc # "endorse.count"
            BY <4>1, <6>2 DEF UpdateFind, Start, Idle
          <6>3. ASSUME NEW u \in Users, NEW e \in Endorsers, EndorseFind(h, u, e)
                PROVE  /\ \A g \in Handlers : g # h => handler'[g] = handler[g]
                       /\ handler'[h].pc # "endorse.count"
            BY <4>1, <6>3 DEF EndorseFind, Start, Idle
          <6>. QED BY <5>1, <6>1, <6>2, <6>3 DEF Begin
        <5>2. CASE RegisterAck(h) \/ UpdateEmit(h) \/ Fail(h)
          BY <4>1, <5>2 DEF RegisterAck, UpdateEmit, Fail, Finish, Idle
        <5>3. CASE RegisterCreate(h) \/ RegisterEmit(h)
          BY <4>1, <5>3 DEF RegisterCreate, RegisterEmit, Finish, Idle, HandlerState
        <5>4. CASE UpdateWrite(h)
          BY <4>1, <5>4 DEF UpdateWrite, HandlerState
        <5>. QED BY <1>3, <2>2, <5>1, <5>2, <5>3, <5>4 DEF Proceed
      <4>. QED BY <4>2
    <3>. QED BY <3>1, <3>2, EndorseQuiet
  <2>. QED BY <2>1, <2>2
<1>. QED BY <1>1, <1>2, <1>3 DEF Next

\* The counter of a skill never exceeds the endorsements on record and equals
\* them unless the skill was once removed.
THEOREM EndorsementsAreCounted == Spec => []EndorsementsCounted
<1>1. Init => EndorseInv
  <2>. SUFFICES ASSUME Init PROVE EndorseInv
    OBVIOUS
  <2>1. PendingIsNew
    BY DEF Init, PendingIsNew, Idle
  <2>2. CountInv
    BY FS_EmptySet DEF Init, CountInv
  <2>. QED BY <2>1, <2>2 DEF EndorseInv
<1>2. TypeInv /\ EndorseInv /\ [Next]_vars => EndorseInv'
  BY EndorseInductive
<1>3. EndorseInv => EndorsementsCounted
  BY DEF EndorseInv, CountInv, EndorsementsCounted
<1>. QED BY <1>1, <1>2, <1>3, TypeCorrect, PTL DEF Spec, TypeInv
-----------------------------------------------------------------------------
(* The index *)

\* What an index comes to: unless the history excuses the id, every message
\* about it carries doc, one that was handled has put doc there, and doc is there
\* if none is left.
LastIs(id, doc) ==
  id \notin crowded \cup buried =>
    /\ \A m \in Pending(id) : m.doc = doc /\ (m.handled => index[id] = doc)
    /\ Pending(id) = {} => index[id] = doc

\* What was sent last is what the index comes to.
LEMMA SendLeads ==
  ASSUME NEW id \in Ids, NEW doc, Send(id, doc)
  PROVE  LastIs(id, doc)'
<1>. SUFFICES ASSUME Pending(id) = {}
              PROVE  LastIs(id, doc)'
  BY DEF LastIs, Send
<1>. DEFINE new == [id |-> id, doc |-> doc, number |-> sent[id] + 1, handled |-> FALSE]
<1>1. mail' = mail \cup {new} /\ new.id = id /\ new.doc = doc /\ ~new.handled
  BY DEF Send
<1>. HIDE DEF new
<1>2. Pending(id)' = {new}
  BY <1>1 DEF Pending
<1>. QED BY <1>1, <1>2 DEF LastIs

\* The consumer does not change what the index comes to, in whatever order and
\* however often it handles the messages.
LEMMA ConsumeLeads ==
  ASSUME SearchTypeOK, Consume, NEW id \in Ids, NEW doc, LastIs(id, doc)
  PROVE  LastIs(id, doc)'
<1>1. PICK m \in mail : Handle(m) \/ Ack(m) \/ Bury(m)
  BY DEF Consume
<1>2. m \in Message
  BY <1>1 DEF SearchTypeOK
<1>3. CASE Handle(m)
  <2>. DEFINE done == [m EXCEPT !.handled = TRUE]
  <2>1. /\ index' = [index EXCEPT ![m.id] = m.doc] /\ mail' = (mail \ {m}) \cup {done}
        /\ UNCHANGED <<crowded, buried>>
    BY <1>3 DEF Handle
  <2>2. done.id = m.id /\ done.doc = m.doc /\ m.id \in Ids
    BY <1>2 DEF Message
  <2>3. CASE m.id = id
    BY <1>1, <2>1, <2>2, <2>3 DEF LastIs, Pending, SearchTypeOK
  <2>4. CASE m.id # id
    <3>1. Pending(id)' = Pending(id) /\ index'[id] = index[id]
      BY <2>1, <2>2, <2>4 DEF Pending, SearchTypeOK
    <3>. QED BY <2>1, <3>1 DEF LastIs
  <2>. QED BY <2>3, <2>4
<1>4. CASE Ack(m)
  BY <1>1, <1>4 DEF Ack, LastIs, Pending
<1>5. CASE Bury(m)
  BY <1>1, <1>5 DEF Bury, LastIs, Pending
<1>. QED BY <1>1, <1>3, <1>4, <1>5

\* Neither does an event about somebody else.
LEMMA SendElsewhere ==
  ASSUME NEW id \in Ids, NEW other \in Ids, other # id, NEW sentDoc, Send(other, sentDoc),
         NEW doc, LastIs(id, doc)
  PROVE  LastIs(id, doc)'
<1>1. Pending(id)' = Pending(id)
  BY DEF Send, Pending
<1>2. index' = index /\ buried' = buried /\ (id \in crowded' <=> id \in crowded)
  BY DEF Send
<1>. QED BY <1>1, <1>2 DEF LastIs

WritePCs == {"register.emit", "update.write", "update.emit"}
EmitPCs == {"register.emit", "update.emit"}

\* A registration that is not queued has no profile yet; one that is done left a
\* profile behind, or failed.
RegistrationInv ==
  \A u \in Users :
    /\ registered[u] = "no" => profile[u] = None
    /\ registered[u] = "done" => profile[u] # None \/ u \in failed

\* A request about a profile that is not just being made finds it there.
ProfileFound ==
  \A h \in Handlers :
    /\ handler[h].pc = "register.create" => registered[handler[h].user] # "no"
    /\ handler[h].pc \in ProfilePCs \ {"register.create"} => profile[handler[h].user] # None

\* Unless updates overlapped, one request at a time is about to write a profile
\* or to announce it, and its copy is the profile.
CopyIsProfile ==
  \A g, h \in Handlers :
    (/\ handler[g].pc \in WritePCs /\ handler[h].pc \in WritePCs
     /\ handler[g].user = handler[h].user /\ handler[h].user \notin overlapped) =>
      g = h /\ handler[h].copy = profile[handler[h].user]

\* With nothing about to be announced, the profile is what the index comes to.
IndexLeads ==
  \A u \in Users :
    (profile[u] # None /\ On(u, EmitPCs) = {} /\ u \notin failed \cup overlapped) =>
      LastIs(u, profile[u])

IndexInv == RegistrationInv /\ ProfileFound /\ CopyIsProfile /\ IndexLeads

\* Steps that move no request that writes or announces a profile.
LEMMA IndexQuiet ==
  ASSUME IndexInv, UNCHANGED <<index, mail, crowded, buried, registered, profile, failed, overlapped>>,
         \A g \in Handlers :
           handler[g].pc \in EmitPCs \/ handler'[g].pc \in ProfilePCs => handler'[g] = handler[g]
  PROVE  IndexInv'
<1>1. RegistrationInv'
  BY DEF IndexInv, RegistrationInv
<1>2. ProfileFound'
  BY DEF IndexInv, ProfileFound, ProfilePCs
<1>3. CopyIsProfile'
  BY DEF IndexInv, CopyIsProfile, WritePCs, ProfilePCs
<1>4. IndexLeads'
  <2>. SUFFICES ASSUME NEW u \in Users, profile[u] # None, On(u, EmitPCs)' = {},
                       u \notin failed \cup overlapped
                PROVE  LastIs(u, profile[u])'
    BY DEF IndexLeads
  <2>1. On(u, EmitPCs) = {}
    BY DEF On
  <2>2. LastIs(u, profile[u])
    BY <2>1 DEF IndexInv, IndexLeads
  <2>. QED BY <2>2 DEF LastIs, Pending
<1>. QED BY <1>1, <1>2, <1>3, <1>4 DEF IndexInv

\* A request that begins on a profile, or ends, changes no table.
LEMMA IndexFound ==
  ASSUME TypeInv, IndexInv, NEW h \in Handlers, NEW u \in Users,
         \/ RegisterFind(h, u)
         \/ \E f \in Fields, v \in Values : UpdateFind(h, u, f, v)
  PROVE  IndexInv'
<1>1. /\ UNCHANGED <<index, mail, crowded, buried, registered, profile, failed>>
      /\ handler[h] = Idle /\ \A g \in Handlers : g # h => handler'[g] = handler[g]
      /\ handler'[h].user = u
  <2>1. CASE RegisterFind(h, u)
    BY <2>1 DEF RegisterFind, Start, Histories, searchVars, Idle, TypeInv, TypeOK
  <2>2. ASSUME NEW f \in Fields, NEW v \in Values, UpdateFind(h, u, f, v)
        PROVE  /\ UNCHANGED <<index, mail, crowded, buried, registered, profile, failed>>
               /\ handler[h] = Idle /\ \A g \in Handlers : g # h => handler'[g] = handler[g]
               /\ handler'[h].user = u
    BY <2>2 DEF UpdateFind, Start, searchVars, Idle, TypeInv, TypeOK
  <2>. QED BY <2>1, <2>2
<1>2. CASE RegisterFind(h, u)
  <2>1. /\ handler'[h].pc = IF profile[u] = None THEN "register.create" ELSE "register.ack"
        /\ registered[u] # "no" /\ overlapped' = overlapped
    BY <1>2 DEF RegisterFind, Start, Histories, Idle, TypeInv, TypeOK
  <2>2. RegistrationInv' /\ ProfileFound'
    BY <1>1, <2>1 DEF IndexInv, RegistrationInv, ProfileFound, ProfilePCs
  <2>3. CopyIsProfile'
    BY <1>1, <2>1 DEF IndexInv, CopyIsProfile, WritePCs
  <2>4. \A v \in Users : On(v, EmitPCs) \subseteq On(v, EmitPCs)'
    BY <1>1 DEF On, EmitPCs, Idle
  <2>5. IndexLeads'
    <3>. SUFFICES ASSUME NEW w \in Users, profile[w] # None, On(w, EmitPCs)' = {},
                         w \notin failed \cup overlapped
                  PROVE  LastIs(w, profile[w])'
      BY <1>1, <2>1 DEF IndexLeads
    <3>1. LastIs(w, profile[w])
      BY <2>4 DEF IndexInv, IndexLeads
    <3>. QED BY <1>1, <3>1 DEF LastIs, Pending
  <2>. QED BY <2>2, <2>3, <2>5 DEF IndexInv
<1>3. ASSUME NEW f \in Fields, NEW v \in Values, UpdateFind(h, u, f, v)
      PROVE  IndexInv'
  <2>1. /\ handler'[h].pc = "update.write" /\ handler'[h].copy = profile[u] /\ profile[u] # None
        /\ overlapped' = IF On(u, WritePCs) # {} THEN overlapped \cup {u} ELSE overlapped
    BY <1>3 DEF UpdateFind, Start, Idle, WritePCs, TypeInv, TypeOK
  <2>2. RegistrationInv' /\ ProfileFound'
    BY <1>1, <2>1 DEF IndexInv, RegistrationInv, ProfileFound, ProfilePCs
  <2>3. CopyIsProfile'
    <3>. SUFFICES ASSUME NEW g \in Handlers, NEW k \in Handlers,
                         handler'[g].pc \in WritePCs, handler'[k].pc \in WritePCs,
                         handler'[g].user = handler'[k].user, handler'[k].user \notin overlapped'
                  PROVE  g = k /\ handler'[k].copy = profile[handler'[k].user]
      BY <1>1 DEF CopyIsProfile
    <3>1. CASE g # h /\ k # h
      BY <1>1, <2>1, <3>1 DEF IndexInv, CopyIsProfile
    <3>2. CASE g = h /\ k = h
      BY <1>1, <2>1, <3>2
    <3>3. CASE (g = h) # (k = h)
      BY <1>1, <2>1, <3>3 DEF On
    <3>. QED BY <3>1, <3>2, <3>3
  <2>4. \A w \in Users : On(w, EmitPCs) \subseteq On(w, EmitPCs)'
    BY <1>1 DEF On, EmitPCs, Idle
  <2>5. IndexLeads'
    <3>. SUFFICES ASSUME NEW w \in Users, profile[w] # None, On(w, EmitPCs)' = {},
                         w \notin failed \cup overlapped
                  PROVE  LastIs(w, profile[w])'
      BY <1>1, <2>1 DEF IndexLeads
    <3>1. LastIs(w, profile[w])
      BY <2>4 DEF IndexInv, IndexLeads
    <3>. QED BY <1>1, <3>1 DEF LastIs, Pending
  <2>. QED BY <2>2, <2>3, <2>5 DEF IndexInv
<1>. QED BY <1>2, <1>3

\* A new profile is announced as it was made, and nobody else is at it.
LEMMA IndexCreated ==
  ASSUME TypeInv, IndexInv, NEW h \in Handlers, RegisterCreate(h)
  PROVE  IndexInv'
<1>. DEFINE u == handler[h].user
<1>1. /\ UNCHANGED <<index, mail, crowded, buried, registered, failed, overlapped>>
      /\ handler[h].pc = "register.create" /\ u \in Users /\ registered[u] # "no"
      /\ handler[h] \in HandlerState /\ handler \in [Handlers -> HandlerState]
  BY DEF RegisterCreate, At, Histories, searchVars, TypeInv, TypeOK, LoadedInv, Loaded,
         IndexInv, ProfileFound
<1>2. CASE profile[u] # None
  <2>1. Finish(h) /\ profile' = profile
    BY <1>2 DEF RegisterCreate
  <2>2. \A g \in Handlers :
          handler[g].pc \in EmitPCs \/ handler'[g].pc \in ProfilePCs => handler'[g] = handler[g]
    BY <1>1, <2>1 DEF Finish, Idle, EmitPCs, ProfilePCs
  <2>. QED BY <1>1, <2>1, <2>2, IndexQuiet
<1>3. CASE profile[u] = None
  <2>1. /\ profile' = [profile EXCEPT ![u] = Blank]
        /\ handler' = [handler EXCEPT ![h].pc = "register.emit", ![h].copy = Blank]
    BY <1>3 DEF RegisterCreate
  <2>2. /\ profile'[u] = Blank /\ \A v \in Users : v # u => profile'[v] = profile[v]
        /\ handler'[h].pc = "register.emit" /\ handler'[h].copy = Blank /\ handler'[h].user = u
        /\ \A g \in Handlers : g # h => handler'[g] = handler[g]
    BY <1>1, <2>1 DEF HandlerState, TypeInv, TypeOK
  <2>3. Blank # None
    BY BlankIsRow
  <2>4. \A g \in Handlers : handler[g].pc \in WritePCs => handler[g].user # u
    BY <1>3 DEF IndexInv, ProfileFound, WritePCs, ProfilePCs
  <2>5. \A g \in Handlers : handler[g].pc \in ProfilePCs => handler[g].user \in Users
    BY DEF TypeInv, LoadedInv, Loaded, ProfilePCs
  <2>6. RegistrationInv'
    BY <1>1, <2>2, <2>3 DEF IndexInv, RegistrationInv
  <2>7. ProfileFound'
    BY <1>1, <2>2, <2>3, <2>5 DEF IndexInv, ProfileFound, ProfilePCs
  <2>8. CopyIsProfile'
    <3>. SUFFICES ASSUME NEW g \in Handlers, NEW k \in Handlers,
                         handler'[g].pc \in WritePCs, handler'[k].pc \in WritePCs,
                         handler'[g].user = handler'[k].user, handler'[k].user \notin overlapped
                  PROVE  g = k /\ handler'[k].copy = profile'[handler'[k].user]
      BY <1>1 DEF CopyIsProfile
    <3>1. CASE g # h /\ k # h
      <4>1. profile'[handler[k].user] = profile[handler[k].user]
        BY <2>2, <2>4, <2>5, <3>1 DEF WritePCs, ProfilePCs
      <4>. QED BY <2>2, <3>1, <4>1 DEF IndexInv, CopyIsProfile
    <3>2. CASE g = h \/ k = h
      BY <2>2, <2>4, <3>2
    <3>. QED BY <3>1, <3>2
  <2>9. IndexLeads'
    <3>. SUFFICES ASSUME NEW v \in Users, profile'[v] # None, On(v, EmitPCs)' = {},
                         v \notin failed \cup overlapped
                  PROVE  LastIs(v, profile[v])'
      BY <1>1 DEF IndexLeads
    <3>1. v # u
      BY <2>2 DEF On, EmitPCs
    <3>2. profile'[v] = profile[v] /\ On(v, EmitPCs) = {}
      BY <1>1, <2>2, <3>1 DEF On
    <3>. QED BY <1>1, <3>2 DEF IndexInv, IndexLeads, LastIs, Pending
  <2>. QED BY <2>6, <2>7, <2>8, <2>9 DEF IndexInv
<1>. QED BY <1>2, <1>3

\* What is announced about a profile is the profile, unless updates overlapped.
LEMMA IndexAnnounced ==
  ASSUME TypeInv, IndexInv, NEW h \in Handlers, RegisterEmit(h) \/ UpdateEmit(h)
  PROVE  IndexInv'
<1>. DEFINE u == handler[h].user
            doc == handler[h].copy
<1>1. /\ UNCHANGED <<registered, profile, failed, overlapped>>
      /\ handler[h].pc \in EmitPCs /\ u \in Users /\ u \in Ids /\ doc \in Docs
      /\ Send(u, doc)
      /\ handler[h] \in HandlerState /\ handler \in [Handlers -> HandlerState]
  <2>1. handler[h].pc \in EmitPCs /\ Send(u, doc)
        /\ UNCHANGED <<registered, profile, failed, overlapped>>
    BY DEF RegisterEmit, UpdateEmit, At, EmitPCs, Histories
  <2>. QED BY <2>1, BlankIsRow DEF EmitPCs, TypeInv, TypeOK, LoadedInv, Loaded
<1>2. /\ \A g \in Handlers : g # h => handler'[g] = handler[g]
      /\ \/ handler'[h] = Idle
         \/ handler'[h].pc = "register.ack" /\ handler'[h].user = u
  BY <1>1 DEF RegisterEmit, UpdateEmit, Finish, HandlerState
<1>3. RegistrationInv'
  BY <1>1 DEF IndexInv, RegistrationInv
<1>4. ProfileFound'
  <2>1. profile[u] # None
    BY <1>1 DEF IndexInv, ProfileFound, EmitPCs, ProfilePCs
  <2>. QED BY <1>1, <1>2, <2>1 DEF IndexInv, ProfileFound, ProfilePCs, Idle
<1>5. CopyIsProfile'
  <2>1. \A g \in Handlers : handler'[g].pc \in WritePCs => handler'[g] = handler[g]
    BY <1>2 DEF WritePCs, Idle
  <2>. QED BY <1>1, <2>1 DEF IndexInv, CopyIsProfile
<1>6. IndexLeads'
  <2>. SUFFICES ASSUME NEW v \in Users, profile[v] # None, On(v, EmitPCs)' = {},
                       v \notin failed \cup overlapped
                PROVE  LastIs(v, profile[v])'
    BY <1>1 DEF IndexLeads
  <2>1. CASE v = u
    <3>1. doc = profile[u]
      BY <1>1, <2>1 DEF IndexInv, CopyIsProfile, EmitPCs, WritePCs
    <3>2. Send(v, profile[v]) /\ v \in Ids
      BY <1>1, <2>1, <3>1
    <3>3. ASSUME NEW row, row = profile[v] PROVE LastIs(v, row)'
      BY <3>2, <3>3, SendLeads
    <3>. QED BY <1>1, <3>3 DEF LastIs
  <2>2. CASE v # u
    <3>1. On(v, EmitPCs) = {}
      BY <1>2, <2>2 DEF On
    <3>2. LastIs(v, profile[v]) /\ v \in Ids
      BY <3>1 DEF IndexInv, IndexLeads
    <3>. HIDE DEF u, doc
    <3>3. ASSUME NEW row, row = profile[v] PROVE LastIs(v, row)'
      BY <1>1, <2>2, <3>2, <3>3, SendElsewhere
    <3>. QED BY <1>1, <3>3 DEF LastIs
  <2>. QED BY <2>1, <2>2
<1>. QED BY <1>3, <1>4, <1>5, <1>6 DEF IndexInv

\* A column is written to the profile and to the copy.
LEMMA IndexWritten ==
  ASSUME TypeInv, IndexInv, NEW h \in Handlers, UpdateWrite(h)
  PROVE  IndexInv'
<1>. DEFINE s == handler[h]
            u == s.user
            row == [s.copy EXCEPT ![s.field] = s.value]
<1>1. /\ UNCHANGED <<index, mail, crowded, buried, registered, failed, overlapped>>
      /\ s.pc = "update.write" /\ u \in Users /\ profile[u] \in Row /\ s.copy \in Row
      /\ s.field \in Fields /\ s.value \in Values /\ s \in HandlerState
      /\ handler \in [Handlers -> HandlerState]
  BY DEF UpdateWrite, At, Histories, searchVars, TypeInv, TypeOK, LoadedInv, Loaded
<1>2. /\ handler'[h].pc = "update.emit" /\ handler'[h].user = u /\ handler'[h].copy = row
      /\ \A g \in Handlers : g # h => handler'[g] = handler[g]
  BY <1>1 DEF UpdateWrite, HandlerState
<1>3. profile'[u] # None /\ \A v \in Users : v # u => profile'[v] = profile[v]
  <2>1. [profile[u] EXCEPT ![s.field] = s.value] \in Row
    BY <1>1 DEF Row
  <2>. QED BY <1>1, <2>1 DEF UpdateWrite, TypeInv, TypeOK
<1>4. s.copy = profile[u] => profile'[u] = row
  <2>1. CASE s.copy[s.field] = s.value
    <3>1. row = s.copy
      BY <1>1, <2>1 DEF Row
    <3>2. profile' = profile
      BY <2>1 DEF UpdateWrite
    <3>. QED BY <3>1, <3>2
  <2>2. CASE s.copy[s.field] # s.value
    <3>1. profile' = [profile EXCEPT ![u] = [@ EXCEPT ![s.field] = s.value]]
      BY <2>2 DEF UpdateWrite
    <3>. QED BY <1>1, <3>1 DEF TypeInv, TypeOK
  <2>. QED BY <2>1, <2>2
<1>. HIDE DEF row
<1>5. \A g \in Handlers : handler[g].pc \in ProfilePCs => handler[g].user \in Users
  BY DEF TypeInv, LoadedInv, Loaded, ProfilePCs
<1>6. RegistrationInv'
  BY <1>1, <1>3 DEF IndexInv, RegistrationInv
<1>7. ProfileFound'
  BY <1>1, <1>2, <1>3, <1>5 DEF IndexInv, ProfileFound, ProfilePCs
<1>8. CopyIsProfile'
  <2>. SUFFICES ASSUME NEW g \in Handlers, NEW k \in Handlers,
                       handler'[g].pc \in WritePCs, handler'[k].pc \in WritePCs,
                       handler'[g].user = handler'[k].user, handler'[k].user \notin overlapped
                PROVE  g = k /\ handler'[k].copy = profile'[handler'[k].user]
    BY <1>1 DEF CopyIsProfile
  <2>1. /\ handler[g].pc \in WritePCs /\ handler[g].user = handler'[g].user
        /\ handler[k].pc \in WritePCs /\ handler[k].user = handler'[k].user
    BY <1>1, <1>2 DEF WritePCs
  <2>2. g = k /\ handler[k].copy = profile[handler[k].user]
    BY <2>1 DEF IndexInv, CopyIsProfile
  <2>3. CASE k = h
    BY <1>2, <1>4, <2>2, <2>3
  <2>4. CASE k # h
    <3>1. handler[k].user # u
      BY <1>1, <2>1, <2>4 DEF IndexInv, CopyIsProfile, WritePCs
    <3>2. handler[k].user \in Users
      BY <1>5, <2>1 DEF WritePCs, ProfilePCs
    <3>. QED BY <1>2, <1>3, <2>2, <2>4, <3>1, <3>2
  <2>. QED BY <2>3, <2>4
<1>9. IndexLeads'
  <2>. SUFFICES ASSUME NEW v \in Users, profile'[v] # None, On(v, EmitPCs)' = {},
                       v \notin failed \cup overlapped
                PROVE  LastIs(v, profile[v])'
    BY <1>1 DEF IndexLeads
  <2>1. v # u
    BY <1>2 DEF On, EmitPCs
  <2>2. On(v, EmitPCs) = {} /\ profile'[v] = profile[v]
    BY <1>2, <1>3, <2>1 DEF On
  <2>. QED BY <1>1, <2>2 DEF IndexInv, IndexLeads, LastIs, Pending
<1>. QED BY <1>6, <1>7, <1>8, <1>9 DEF IndexInv

\* A request that ends: an announcement that is not made fails the profile.
LEMMA IndexEnded ==
  ASSUME TypeInv, IndexInv, NEW h \in Handlers, RegisterAck(h) \/ Fail(h)
  PROVE  IndexInv'
<1>. DEFINE u == handler[h].user
<1>1. /\ UNCHANGED <<index, mail, crowded, buried, profile, overlapped>>
      /\ Finish(h) /\ handler[h].pc # "idle" /\ u \in Users
      /\ handler \in [Handlers -> HandlerState]
  BY DEF RegisterAck, Fail, At, Histories, searchVars, TypeInv, TypeOK, LoadedInv, Loaded
<1>2. handler'[h] = Idle /\ \A g \in Handlers : g # h => handler'[g] = handler[g]
  BY <1>1 DEF Finish
<1>3. \/ handler[h].pc \in EmitPCs /\ failed' = failed \cup {u} /\ registered' = registered
      \/ handler[h].pc = "register.ack" /\ failed' = failed
         /\ registered' = [registered EXCEPT ![u] = "done"]
      \/ handler[h].pc \notin EmitPCs /\ failed' = failed /\ registered' = registered
  BY DEF RegisterAck, Fail, At, EmitPCs, Histories
<1>4. RegistrationInv'
  BY <1>1, <1>3 DEF IndexInv, RegistrationInv, ProfileFound, ProfilePCs, TypeInv, TypeOK
<1>5. ProfileFound'
  BY <1>1, <1>2, <1>3 DEF IndexInv, ProfileFound, ProfilePCs, Idle, TypeInv, TypeOK,
                          LoadedInv, Loaded
<1>6. CopyIsProfile'
  BY <1>1, <1>2 DEF IndexInv, CopyIsProfile, WritePCs, Idle
<1>7. IndexLeads'
  <2>. SUFFICES ASSUME NEW v \in Users, profile[v] # None, On(v, EmitPCs)' = {},
                       v \notin failed' \cup overlapped
                PROVE  LastIs(v, profile[v])'
    BY <1>1 DEF IndexLeads
  <2>1. On(v, EmitPCs) = {} /\ v \notin failed
    BY <1>2, <1>3 DEF On, EmitPCs
  <2>. QED BY <1>1, <2>1 DEF IndexInv, IndexLeads, LastIs, Pending
<1>. QED BY <1>4, <1>5, <1>6, <1>7 DEF IndexInv

\* The steps outside requests: the consumer's, registrations and skills.
LEMMA IndexOther ==
  ASSUME TypeInv, IndexInv, Other
  PROVE  IndexInv'
<1>1. CASE Consume /\ UNCHANGED userVars
  <2>1. UNCHANGED <<registered, profile, handler, failed, overlapped>>
    BY <1>1 DEF userVars
  <2>2. IndexLeads'
    <3>. SUFFICES ASSUME NEW v \in Users, profile[v] # None, On(v, EmitPCs) = {},
                         v \notin failed \cup overlapped
                  PROVE  LastIs(v, profile[v])'
      BY <2>1 DEF IndexLeads, On
    <3>1. LastIs(v, profile[v]) /\ v \in Ids /\ SearchTypeOK
      BY DEF IndexInv, IndexLeads, TypeInv, TypeOK
    <3>2. ASSUME NEW row, row = profile[v] PROVE LastIs(v, row)'
      BY <1>1, <3>1, <3>2, ConsumeLeads
    <3>. QED BY <2>1, <3>2 DEF LastIs
  <2>. QED BY <2>1, <2>2 DEF IndexInv, RegistrationInv, ProfileFound, CopyIsProfile
<1>2. ASSUME NEW u \in Users, Register(u)
      PROVE  IndexInv'
  <2>1. /\ UNCHANGED <<profile, handler, failed, overlapped>>
        /\ registered' = [registered EXCEPT ![u] = "queued"] /\ registered[u] = "no"
        /\ Send(u, Registration) /\ u \in Ids
    BY <1>2 DEF Register, Histories
  <2>2. RegistrationInv' /\ ProfileFound' /\ CopyIsProfile'
    BY <2>1 DEF IndexInv, RegistrationInv, ProfileFound, CopyIsProfile, TypeInv, TypeOK,
                LoadedInv, Loaded
  <2>3. IndexLeads'
    <3>. SUFFICES ASSUME NEW v \in Users, profile[v] # None, On(v, EmitPCs) = {},
                         v \notin failed \cup overlapped
                  PROVE  LastIs(v, profile[v])'
      BY <2>1 DEF IndexLeads, On
    <3>1. LastIs(v, profile[v]) /\ v \in Ids /\ v # u
      BY <2>1 DEF IndexInv, IndexLeads, RegistrationInv
    <3>2. ASSUME NEW row, row = profile[v] PROVE LastIs(v, row)'
      BY <2>1, <3>1, <3>2, SendElsewhere
    <3>. QED BY <2>1, <3>2 DEF LastIs
  <2>. QED BY <2>2, <2>3 DEF IndexInv
<1>3. ASSUME NEW u \in Users, RegisterBury(u)
      PROVE  IndexInv'
  <2>1. /\ UNCHANGED <<index, mail, crowded, buried, profile, handler, overlapped>>
        /\ registered' = [registered EXCEPT ![u] = "done"] /\ failed' = failed \cup {u}
    BY <1>3 DEF RegisterBury, searchVars
  <2>2. RegistrationInv' /\ ProfileFound' /\ CopyIsProfile'
    BY <2>1 DEF IndexInv, RegistrationInv, ProfileFound, CopyIsProfile, TypeInv, TypeOK
  <2>3. IndexLeads'
    BY <2>1 DEF IndexInv, IndexLeads, LastIs, Pending, On
  <2>. QED BY <2>2, <2>3 DEF IndexInv
<1>4. ASSUME NEW u \in Users, SkillAdd(u) \/ SkillRemove(u)
      PROVE  IndexInv'
  BY <1>4, IndexQuiet DEF SkillAdd, SkillRemove, searchVars, Histories
<1>. QED BY <1>1, <1>2, <1>3, <1>4 DEF Other

\* Every step keeps the account of the index.
LEMMA IndexInductive ==
  ASSUME TypeInv, IndexInv, [Next]_vars
  PROVE  IndexInv'
<1>1. CASE UNCHANGED vars
  BY <1>1, IndexQuiet DEF vars, searchVars, userVars
<1>2. ASSUME NEW h \in Handlers,
             (\E u \in Users, e \in Endorsers : EndorseFind(h, u, e))
             \/ EndorseInsert(h) \/ EndorseCommit(h)
      PROVE  IndexInv'
  <2>1. handler \in [Handlers -> HandlerState] /\ handler[h] \in HandlerState
    BY DEF TypeInv, TypeOK
  <2>2. UNCHANGED <<index, mail, crowded, buried, registered, profile, failed, overlapped>>
    BY <1>2 DEF EndorseFind, EndorseInsert, EndorseCommit, searchVars, Histories
  <2>3. /\ \A g \in Handlers : g # h => handler'[g] = handler[g]
        /\ handler[h].pc \notin EmitPCs /\ handler'[h].pc \notin ProfilePCs
    <3>1. ASSUME NEW u \in Users, NEW e \in Endorsers, EndorseFind(h, u, e)
          PROVE  /\ \A g \in Handlers : g # h => handler'[g] = handler[g]
                 /\ handler[h].pc \notin EmitPCs /\ handler'[h].pc \notin ProfilePCs
      BY <2>1, <3>1 DEF EndorseFind, Start, Idle, EmitPCs, ProfilePCs
    <3>2. CASE EndorseInsert(h) \/ EndorseCommit(h)
      BY <2>1, <3>2 DEF EndorseInsert, EndorseCommit, Finish, At, Idle, EmitPCs, ProfilePCs,
                        HandlerState
    <3>. QED BY <1>2, <3>1, <3>2
  <2>. QED BY <2>2, <2>3, IndexQuiet
<1>. QED BY <1>1, <1>2, IndexFound, IndexCreated, IndexAnnounced, IndexWritten, IndexEnded,
            IndexOther DEF Next, Begin, Proceed

\* Once a registration is processed, with nothing on its way and no request
\* between a write and its event, the index has the profile as it is, unless the
\* history excuses it.
THEOREM IndexIsFollowing == Spec => []IndexFollowsProfile
<1>1. Init => IndexInv
  <2>. SUFFICES ASSUME Init PROVE IndexInv
    OBVIOUS
  <2>1. RegistrationInv /\ IndexLeads
    BY DEF Init, RegistrationInv, IndexLeads
  <2>2. ProfileFound /\ CopyIsProfile
    BY DEF Init, ProfileFound, CopyIsProfile, Idle, ProfilePCs, WritePCs
  <2>. QED BY <2>1, <2>2 DEF IndexInv
<1>2. TypeInv /\ IndexInv /\ [Next]_vars => IndexInv'
  BY IndexInductive
<1>3. IndexInv => IndexFollowsProfile
  BY DEF IndexInv, RegistrationInv, IndexLeads, IndexFollowsProfile, LastIs, InStep, EmitPCs
<1>. QED BY <1>1, <1>2, <1>3, TypeCorrect, PTL DEF Spec, TypeInv
=============================================================================
