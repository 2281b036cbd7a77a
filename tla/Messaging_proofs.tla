--------------------------- MODULE Messaging_proofs ---------------------------
(***************************************************************************)
(* Conversations, messages and notifications, for any number of users,     *)
(* requests, deliveries and events, both services running beside each      *)
(* other: a message changes by its sender only and is announced to the     *)
(* others in its conversation, two people have one direct conversation,    *)
(* recipients are notified as they prefer, and the cached number of unread *)
(* notifications is right unless the history excuses it.                   *)
(***************************************************************************)
EXTENDS MCMessaging, FiniteSetTheorems, TLAPS

\* A delivery is of an event that is there, and in the midst of its recipients;
\* there are no more of an event than copies of it.
DeliveryHolds(k) ==
  /\ event[consumer[k].event] # None
  /\ consumer[k].pc \in {"create", "invalidate"} =>
       consumer[k].at <= Len(event[consumer[k].event].recipients)
CopiesHold(e) == IsFiniteSet(Handling(e)) /\ Cardinality(Handling(e)) <= event[e].copies
DeliveriesGoOn ==
  /\ \A k \in Consumers : consumer[k] # None => DeliveryHolds(k)
  /\ \A e \in Events : event[e] # None => CopiesHold(e)

\* What a request is about to write is there, and is its user's.
ReaderHolds(r) ==
  /\ reader[r].pc = "mark" => /\ notification[reader[r].note] # None
                              /\ notification[reader[r].note].recipient = reader[r].user
  /\ reader[r].pc = "preference.write" => preference[reader[r].user] # None
ReadersHold == \A r \in Readers : reader[r] # None => ReaderHolds(r)

Stored == {n \in Notes : notification[n] # None}

NoticeInv == NoticeTypeOK /\ DeliveriesGoOn /\ ReadersHold /\ IsFiniteSet(Stored)
-----------------------------------------------------------------------------
(* NotificationService: types *)

\* What a request of each kind is made of.
LEMMA ReaderFields ==
  \A s \in ReaderState :
    /\ s.user \in Users
    /\ s.pc \in {"count", "invalidate", "set", "mark", "preference.create", "preference.write"}
    /\ s.pc = "set" => s.count \in Nat /\ s.missed \in BOOLEAN
    /\ s.pc = "mark" => s.note \in Notes
    /\ s.pc \in {"preference.create", "preference.write"} => s.changes \in FlagChanges
    /\ s.pc = "preference.write" => s.copy \in PreferenceFlags
BY DEF ReaderState

\* A request that was missed by an invalidation.
LEMMA Missed ==
  ASSUME NEW s \in ReaderState, s.pc = "set"
  PROVE  LET t == [s EXCEPT !.missed = TRUE]
         IN  t \in ReaderState /\ t.pc = "set" /\ t.user = s.user /\ t.count = s.count /\ t.missed
<1>1. s \in [pc : {"set"}, user : Users, count : Nat, missed : BOOLEAN]
  BY DEF ReaderState
<1>2. [s EXCEPT !.missed = TRUE] \in [pc : {"set"}, user : Users, count : Nat, missed : BOOLEAN]
  BY <1>1
<1>. QED BY <1>1, <1>2 DEF ReaderState

\* Of the rows there are, finitely many are unread.
LEMMA UnreadIsNumber ==
  ASSUME IsFiniteSet(Stored)
  PROVE  \A u : CountUnread(u) \in Nat
<1>1. \A u : {n \in Notes : /\ notification[n] # None /\ notification[n].recipient = u
                            /\ ~notification[n].isRead} \subseteq Stored
  BY DEF Stored
<1>. QED BY <1>1, FS_Subset, FS_CardinalityType DEF CountUnread

\* What a request of the others becomes by an invalidation.
Noticed(r, state) ==
  \/ reader'[r] = state
  \/ state # None /\ state.pc = "set" /\ reader'[r] = [state EXCEPT !.missed = TRUE]

LEMMA InvalidateTypes ==
  ASSUME NoticeInv, NEW u \in Users, NEW done \in BOOLEAN,
         NEW rest \in [Readers -> ReaderState \cup {None}], InvalidateUnread(u, done, rest)
  PROVE  /\ reader' \in [Readers -> ReaderState \cup {None}]
         /\ unread' \in [Users -> Nat \cup {None}] /\ outdated' \subseteq Users
         /\ \A r \in Readers : Noticed(r, rest[r])
<1>1. \A r \in Readers : reader'[r] = rest[r] \/ (rest[r] # None /\ rest[r].pc = "set" /\
                                                  reader'[r] = [rest[r] EXCEPT !.missed = TRUE])
  BY DEF InvalidateUnread
<1>2. ASSUME NEW r \in Readers PROVE reader'[r] \in ReaderState \cup {None}
  BY <1>1, Missed
<1>3. reader' = [r \in Readers |-> reader'[r]]
  BY DEF InvalidateUnread
<1>4. reader' \in [Readers -> ReaderState \cup {None}]
  BY <1>2, <1>3
<1>5. unread' \in [Users -> Nat \cup {None}] /\ outdated' \subseteq Users
  BY DEF InvalidateUnread, NoticeInv, NoticeTypeOK
<1>. QED BY <1>1, <1>4, <1>5 DEF Noticed

\* A step of one request, or an invalidation beside it, keeps what the others hold.
LEMMA ReadersStay ==
  ASSUME NoticeInv, reader' \in [Readers -> ReaderState \cup {None}],
         NEW moved \in SUBSET Readers,
         \A r \in Readers \ moved : Noticed(r, reader[r]),
         \A r \in moved : reader'[r] # None => ReaderHolds(r)',
         \A n \in Notes : notification[n] # None =>
           notification'[n] # None /\ notification'[n].recipient = notification[n].recipient,
         \A u \in Users : preference[u] # None => preference'[u] # None
  PROVE  ReadersHold'
<1>. SUFFICES ASSUME NEW r \in Readers \ moved, reader'[r] # None
              PROVE  ReaderHolds(r)'
  BY DEF ReadersHold
<1>1. CASE reader'[r] = reader[r]
  <2>1. reader[r] \in ReaderState /\ ReaderHolds(r)
    BY <1>1 DEF NoticeInv, NoticeTypeOK, ReadersHold
  <2>. QED BY <1>1, <2>1, ReaderFields DEF ReaderHolds
<1>2. CASE reader[r] # None /\ reader[r].pc = "set" /\ reader'[r] = [reader[r] EXCEPT !.missed = TRUE]
  <2>1. reader[r] \in ReaderState
    BY <1>2 DEF NoticeInv, NoticeTypeOK
  <2>2. reader'[r].pc = "set"
    BY <1>2, <2>1, Missed
  <2>. QED BY <2>2 DEF ReaderHolds
<1>. QED BY <1>1, <1>2 DEF Noticed

\* An event as it is sent.
LEMMA NoticeTypes ==
  ASSUME NoticeTypeOK, NEW category \in PreferenceCategory, NEW recipients \in Seq(Users),
         NEW copies \in 1..MaxCopies
  PROVE  LET sent == [Notice(category, recipients) EXCEPT !.copies = copies]
         IN  /\ sent \in EventRecord
             /\ sent.category = category /\ sent.recipients = recipients
             /\ sent.copies = copies /\ ~sent.acked /\ sent.runs = 0 /\ sent.wavered = {}
             /\ sent.entitled = {u \in {recipients[i] : i \in DOMAIN recipients} :
                                   AllowsInApp(preference, u, category)}
<1>. DEFINE entitled == {u \in {recipients[i] : i \in DOMAIN recipients} :
                           AllowsInApp(preference, u, category)}
            notice == Notice(category, recipients)
<1>1. entitled \in SUBSET Users
  OBVIOUS
<1>2. 1 \in 0..MaxCopies /\ copies \in 0..MaxCopies /\ 0 \in 0..MaxRuns
  BY NotificationAssumption
<1>3. notice = [category |-> category, recipients |-> recipients, copies |-> 1, acked |-> FALSE,
                runs |-> 0, entitled |-> entitled, wavered |-> {}]
  BY DEF Notice
<1>. HIDE DEF entitled, notice
<1>4. /\ notice \in EventRecord
      /\ notice.category = category /\ notice.recipients = recipients
      /\ ~notice.acked /\ notice.runs = 0 /\ notice.wavered = {} /\ notice.entitled = entitled
  BY <1>1, <1>2, <1>3 DEF EventRecord
<1>5. [notice EXCEPT !.copies = copies] \in EventRecord
  BY <1>2, <1>4 DEF EventRecord
<1>6. LET sent == [notice EXCEPT !.copies = copies]
      IN  /\ sent.category = category /\ sent.recipients = recipients
          /\ sent.copies = copies /\ ~sent.acked /\ sent.runs = 0 /\ sent.wavered = {}
          /\ sent.entitled = entitled
  BY <1>2, <1>4 DEF EventRecord
<1>. QED BY <1>5, <1>6 DEF notice, entitled

\* What stays of an event whatever happens to it.
EventStays(e) ==
  /\ event'[e] # None
  /\ event'[e].recipients = event[e].recipients
  /\ event'[e].category = event[e].category
  /\ event'[e].entitled = event[e].entitled

LEMMA ConsumersStay ==
  ASSUME NoticeInv, UNCHANGED consumer,
         \A e \in Events : event[e] # None => EventStays(e) /\ event'[e].copies = event[e].copies,
         \A e \in Events : event[e] = None /\ event'[e] # None => event'[e].copies \in Nat
  PROVE  DeliveriesGoOn'
<1>1. \A k \in Consumers : consumer[k] # None => consumer[k].event \in Events
  BY DEF NoticeInv, NoticeTypeOK, Delivery
<1>2. ASSUME NEW k \in Consumers, consumer'[k] # None
      PROVE  DeliveryHolds(k)'
  BY <1>1, <1>2 DEF NoticeInv, DeliveriesGoOn, DeliveryHolds, EventStays
<1>3. ASSUME NEW e \in Events, event'[e] # None
      PROVE  CopiesHold(e)'
  <2>1. CASE event[e] # None
    BY <2>1 DEF NoticeInv, DeliveriesGoOn, CopiesHold, Handling
  <2>2. CASE event[e] = None
    <3>1. Handling(e)' = {}
      BY <2>2 DEF NoticeInv, DeliveriesGoOn, DeliveryHolds, Handling
    <3>. QED BY <3>1, <1>3, <2>2, FS_EmptySet DEF CopiesHold
  <2>. QED BY <2>1, <2>2
<1>. QED BY <1>2, <1>3 DEF DeliveriesGoOn

LEMMA DeliveryMoves ==
  ASSUME NoticeInv, UNCHANGED event, NEW k \in Consumers, consumer[k] # None,
         NEW d \in Delivery, d.event = consumer[k].event,
         consumer' = [consumer EXCEPT ![k] = d],
         d.pc \in {"create", "invalidate"} => d.at <= Len(event[d.event].recipients)
  PROVE  DeliveriesGoOn' /\ consumer' \in [Consumers -> Delivery \cup {None}]
<1>1. consumer \in [Consumers -> Delivery \cup {None}]
  BY DEF NoticeInv, NoticeTypeOK
<1>2. \A j \in Consumers : consumer'[j] = IF j = k THEN d ELSE consumer[j]
  BY <1>1
<1>3. d # None
  BY NoticeRowAssumption
<1>4. ASSUME NEW j \in Consumers, consumer'[j] # None
      PROVE  DeliveryHolds(j)'
  BY <1>2, <1>4 DEF NoticeInv, DeliveriesGoOn, DeliveryHolds
<1>5. \A e \in Events : Handling(e)' = Handling(e)
  BY <1>2, <1>3 DEF Handling
<1>6. ASSUME NEW e \in Events, event'[e] # None
      PROVE  CopiesHold(e)'
  BY <1>5, <1>6 DEF NoticeInv, DeliveriesGoOn, CopiesHold
<1>. QED BY <1>1, <1>4, <1>6 DEF DeliveriesGoOn

LEMMA DeliveryEnds ==
  ASSUME NoticeInv, NEW k \in Consumers, consumer[k] # None,
         consumer' = [consumer EXCEPT ![k] = None],
         \A e \in Events : event[e] # None <=> event'[e] # None,
         \A e \in Events : event[e] # None =>
           /\ EventStays(e)
           /\ event'[e].copies = event[e].copies \/
              (e = consumer[k].event /\ event'[e].copies = event[e].copies - 1)
  PROVE  DeliveriesGoOn' /\ consumer' \in [Consumers -> Delivery \cup {None}]
<1>1. consumer \in [Consumers -> Delivery \cup {None}] /\ event \in [Events -> EventRecord \cup {None}]
  BY DEF NoticeInv, NoticeTypeOK
<1>2. \A j \in Consumers : consumer'[j] = IF j = k THEN None ELSE consumer[j]
  BY <1>1
<1>3. \A j \in Consumers : consumer[j] # None => consumer[j].event \in Events
  BY <1>1 DEF Delivery
<1>4. ASSUME NEW j \in Consumers, consumer'[j] # None
      PROVE  DeliveryHolds(j)'
  <2>1. consumer'[j] = consumer[j] /\ consumer[j] # None
    BY <1>2, <1>4
  <2>2. DeliveryHolds(j) /\ EventStays(consumer[j].event)
    BY <2>1, <1>3 DEF NoticeInv, DeliveriesGoOn, DeliveryHolds
  <2>. QED BY <2>1, <2>2 DEF DeliveryHolds, EventStays
<1>5. ASSUME NEW e \in Events, event'[e] # None
      PROVE  CopiesHold(e)'
  <2>1. event[e] # None /\ CopiesHold(e)
    BY <1>5 DEF NoticeInv, DeliveriesGoOn
  <2>2. event[e].copies \in Nat
    BY <2>1, <1>1 DEF EventRecord
  <2>3. Cardinality(Handling(e)) \in Nat
    BY <2>1, FS_CardinalityType DEF CopiesHold
  <2>4. CASE e = consumer[k].event
    <3>1. k \in Handling(e) /\ Handling(e)' = Handling(e) \ {k}
      BY <2>4, <1>2 DEF Handling
    <3>2. IsFiniteSet(Handling(e) \ {k}) /\ Cardinality(Handling(e) \ {k}) = Cardinality(Handling(e)) - 1
      BY <3>1, <2>1, FS_RemoveElement DEF CopiesHold
    <3>. QED BY <3>1, <3>2, <2>1, <2>2, <2>3 DEF CopiesHold
  <2>5. CASE e # consumer[k].event
    <3>1. Handling(e)' = Handling(e)
      BY <2>5, <1>2 DEF Handling
    <3>. QED BY <3>1, <2>1, <2>5 DEF CopiesHold
  <2>. QED BY <2>4, <2>5
<1>. QED BY <1>1, <1>4, <1>5 DEF DeliveriesGoOn

LEMMA DeliveryStarts ==
  ASSUME NoticeInv, NEW k \in Consumers, NEW e \in Events, Deliver(k, e)
  PROVE  NoticeInv'
<1>1. consumer \in [Consumers -> Delivery \cup {None}] /\ event \in [Events -> EventRecord \cup {None}]
  BY DEF NoticeInv, NoticeTypeOK
<1>. DEFINE d == [pc |-> "ask", event |-> e, at |-> 1]
<1>2. d \in Delivery /\ d # None
  BY NoticeRowAssumption DEF Delivery
<1>3. event[e] \in EventRecord /\ [event[e] EXCEPT !.runs = @ + 1] \in EventRecord
  BY <1>1, NotificationAssumption DEF EventRecord, Deliver
<1>4. /\ \A j \in Consumers : consumer'[j] = IF j = k THEN d ELSE consumer[j]
      /\ \A f \in Events : event'[f] = IF f = e THEN [event[e] EXCEPT !.runs = @ + 1] ELSE event[f]
      /\ consumer[k] = None /\ Cardinality(Handling(e)) < event[e].copies
  BY <1>1 DEF Deliver
<1>5. \A f \in Events : (event[f] # None <=> event'[f] # None)
  BY <1>4, <1>3, NoticeRowAssumption
<1>6. \A f \in Events : event[f] # None =>
        event'[f].recipients = event[f].recipients /\ event'[f].copies = event[f].copies
  BY <1>4, <1>3 DEF EventRecord
<1>7. \A j \in Consumers : consumer[j] # None => consumer[j].event \in Events
  BY <1>1 DEF Delivery
<1>8. ASSUME NEW j \in Consumers, consumer'[j] # None
      PROVE  DeliveryHolds(j)'
  <2>1. CASE j = k
    BY <2>1, <1>4, <1>5 DEF DeliveryHolds, Deliver
  <2>2. CASE j # k
    <3>1. consumer'[j] = consumer[j] /\ consumer[j] # None /\ consumer[j].event \in Events
      BY <1>4, <1>8, <2>2, <1>7
    <3>2. DeliveryHolds(j)
      BY <3>1 DEF NoticeInv, DeliveriesGoOn
    <3>. QED BY <3>1, <3>2, <1>5, <1>6 DEF DeliveryHolds
  <2>. QED BY <2>1, <2>2
<1>9. ASSUME NEW f \in Events, event'[f] # None
      PROVE  CopiesHold(f)'
  <2>1. event[f] # None /\ CopiesHold(f)
    BY <1>9, <1>5 DEF NoticeInv, DeliveriesGoOn
  <2>2. CASE f = e
    <3>1. k \notin Handling(e) /\ Handling(e)' = Handling(e) \cup {k}
      BY <1>2, <1>4 DEF Handling
    <3>2. IsFiniteSet(Handling(e)') /\ Cardinality(Handling(e)') = Cardinality(Handling(e)) + 1
      BY <3>1, <2>1, <2>2, FS_AddElement DEF CopiesHold
    <3>3. Cardinality(Handling(e)) \in Nat /\ event[e].copies \in Nat
      BY <2>1, <2>2, <1>3, FS_CardinalityType DEF CopiesHold, EventRecord
    <3>. QED BY <3>2, <3>3, <1>4, <1>6, <2>1, <2>2 DEF CopiesHold
  <2>3. CASE f # e
    <3>1. Handling(f)' = Handling(f)
      BY <2>3, <1>4 DEF Handling
    <3>. QED BY <3>1, <2>1, <1>6 DEF CopiesHold
  <2>. QED BY <2>2, <2>3
<1>10. DeliveriesGoOn'
  BY <1>8, <1>9 DEF DeliveriesGoOn
<1>11. NoticeTypeOK'
  BY <1>1, <1>2, <1>3 DEF NoticeInv, NoticeTypeOK, Deliver
<1>12. ReadersHold' /\ IsFiniteSet(Stored')
  BY DEF NoticeInv, ReadersHold, ReaderHolds, Stored, Deliver
<1>. QED BY <1>10, <1>11, <1>12 DEF NoticeInv

\* A step of a request is a matter of what it writes and what it holds after it.
LEMMA ReaderSteps ==
  ASSUME NoticeInv, NEW r \in Readers, UNCHANGED consumer,
         reader' \in [Readers -> ReaderState \cup {None}],
         \A s \in Readers \ {r} : Noticed(s, reader[s]),
         reader'[r] # None => ReaderHolds(r)',
         unread' \in [Users -> Nat \cup {None}], outdated' \subseteq Users,
         preference' \in PreferenceTable,
         \A u \in Users : preference[u] # None => preference'[u] # None,
         event' \in [Events -> EventRecord \cup {None}],
         \A e \in Events : event[e] = None => event'[e] = None,
         \A e \in Events : event[e] # None => EventStays(e) /\ event'[e].copies = event[e].copies,
         notification' \in [Notes -> NotificationRow \cup {None}],
         \A n \in Notes : notification[n] # None =>
           notification'[n] # None /\ notification'[n].recipient = notification[n].recipient,
         Stored' = Stored
  PROVE  NoticeInv'
<1>1. DeliveriesGoOn'
  BY ConsumersStay
<1>2. ReadersHold'
  <2>. DEFINE moved == {r}
  <2>1. moved \in SUBSET Readers /\ \A s \in moved : s = r
    OBVIOUS
  <2>2. \A s \in Readers \ moved : s \in Readers \ {r}
    OBVIOUS
  <2>. HIDE DEF moved
  <2>3. \A s \in Readers \ moved : Noticed(s, reader[s])
    BY <2>2
  <2>4. \A s \in moved : reader'[s] # None => ReaderHolds(s)'
    BY <2>1
  <2>. QED BY <2>1, <2>3, <2>4, ReadersStay
<1>3. NoticeTypeOK' /\ IsFiniteSet(Stored')
  BY DEF NoticeInv, NoticeTypeOK
<1>. QED BY <1>1, <1>2, <1>3 DEF NoticeInv

\* So is one that writes no table.
LEMMA ReaderOnly ==
  ASSUME NoticeInv, NEW r \in Readers, Otherwise,
         reader' \in [Readers -> ReaderState \cup {None}],
         \A s \in Readers \ {r} : Noticed(s, reader[s]),
         reader'[r] # None => ReaderHolds(r)',
         unread' \in [Users -> Nat \cup {None}], outdated' \subseteq Users
  PROVE  NoticeInv'
<1>. USE DEF Otherwise
<1>1. \A e \in Events : event[e] # None => EventStays(e) /\ event'[e].copies = event[e].copies
  BY DEF EventStays
<1>2. Stored' = Stored
  BY DEF Stored
<1>3. /\ preference' \in PreferenceTable /\ event' \in [Events -> EventRecord \cup {None}]
      /\ notification' \in [Notes -> NotificationRow \cup {None}]
  BY DEF NoticeInv, NoticeTypeOK
<1>4. \A e \in Events : event[e] = None => event'[e] = None
  OBVIOUS
<1>5. \A u \in Users : preference[u] # None => preference'[u] # None
  OBVIOUS
<1>6. \A n \in Notes : notification[n] # None =>
        notification'[n] # None /\ notification'[n].recipient = notification[n].recipient
  OBVIOUS
<1>7. UNCHANGED consumer
  OBVIOUS
<1>. QED BY <1>1, <1>2, <1>3, <1>4, <1>5, <1>6, <1>7, ReaderSteps

\* A request goes on by itself.
LEMMA OneReader ==
  ASSUME NoticeInv, NEW r \in Readers, NEW state \in ReaderState \cup {None},
         reader' = [reader EXCEPT ![r] = state]
  PROVE  /\ reader' \in [Readers -> ReaderState \cup {None}] /\ reader'[r] = state
         /\ \A s \in Readers \ {r} : Noticed(s, reader[s])
<1>1. reader \in [Readers -> ReaderState \cup {None}]
  BY DEF NoticeInv, NoticeTypeOK
<1>. QED BY <1>1 DEF Noticed

LEMMA RoutesKeep ==
  ASSUME NoticeInv, NEW r \in Readers, NotificationRoutes(r)
  PROVE  NoticeInv'
<1>1. /\ unread \in [Users -> Nat \cup {None}] /\ outdated \subseteq Users
      /\ preference \in PreferenceTable
      /\ notification \in [Notes -> NotificationRow \cup {None}]
  BY DEF NoticeInv, NoticeTypeOK
<1>2. ASSUME NEW u \in Users, UnreadGet(r, u) PROVE NoticeInv'
  <2>. DEFINE state == [pc |-> "count", user |-> u]
  <2>1. state \in ReaderState /\ reader' = [reader EXCEPT ![r] = state]
    BY <1>2 DEF UnreadGet, StartReader, ReaderState
  <2>. HIDE DEF state
  <2>2. /\ reader' \in [Readers -> ReaderState \cup {None}] /\ reader'[r] = state
        /\ \A s \in Readers \ {r} : Noticed(s, reader[s])
    BY <2>1, OneReader
  <2>3. ReaderHolds(r)'
    BY <2>2 DEF ReaderHolds, state
  <2>. QED BY <1>1, <1>2, <2>2, <2>3, ReaderOnly DEF UnreadGet
<1>3. ASSUME NEW u \in Users, NEW n \in Notes, MarkFind(r, u, n) PROVE NoticeInv'
  <2>. DEFINE state == [pc |-> "mark", user |-> u, note |-> n]
  <2>1. state \in ReaderState /\ reader' = [reader EXCEPT ![r] = state]
    BY <1>3 DEF MarkFind, StartReader, ReaderState
  <2>. HIDE DEF state
  <2>2. /\ reader' \in [Readers -> ReaderState \cup {None}] /\ reader'[r] = state
        /\ \A s \in Readers \ {r} : Noticed(s, reader[s])
    BY <2>1, OneReader
  <2>3. ReaderHolds(r)'
    BY <2>2, <1>3 DEF ReaderHolds, state, MarkFind, Otherwise
  <2>. QED BY <1>1, <1>3, <2>2, <2>3, ReaderOnly DEF MarkFind
<1>4. ASSUME NEW u \in Users, NEW changes \in Asked, PreferenceFind(r, u, changes) PROVE NoticeInv'
  <2>. DEFINE state == IF preference[u] = None
                       THEN [pc |-> "preference.create", user |-> u, changes |-> changes]
                       ELSE [pc |-> "preference.write", user |-> u, copy |-> preference[u],
                             changes |-> changes]
  <2>1. changes \in FlagChanges /\ preference[u] \in PreferenceFlags \cup {None}
    BY <1>1, NotificationAssumption DEF PreferenceTable
  <2>2. state \in ReaderState /\ reader' = [reader EXCEPT ![r] = state]
    BY <2>1, <1>4 DEF PreferenceFind, StartReader, ReaderState
  <2>3. state.user = u /\ state.pc # "mark" /\ (state.pc = "preference.write" => preference[u] # None)
    OBVIOUS
  <2>. HIDE DEF state
  <2>4. /\ reader' \in [Readers -> ReaderState \cup {None}] /\ reader'[r] = state
        /\ \A s \in Readers \ {r} : Noticed(s, reader[s])
    BY <2>2, OneReader
  <2>5. ReaderHolds(r)'
    BY <2>3, <2>4, <1>4 DEF ReaderHolds, PreferenceFind, Otherwise
  <2>. QED BY <1>1, <1>4, <2>4, <2>5, ReaderOnly DEF PreferenceFind
<1>5. ASSUME NEW u \in Users, MarkAllRead(r, u) PROVE NoticeInv'
  <2>. DEFINE state == [pc |-> "invalidate", user |-> u]
  <2>1. state \in ReaderState /\ reader' = [reader EXCEPT ![r] = state]
    BY <1>5 DEF MarkAllRead, StartReader, ReaderState
  <2>. HIDE DEF state
  <2>2. /\ reader' \in [Readers -> ReaderState \cup {None}] /\ reader'[r] = state
        /\ \A s \in Readers \ {r} : Noticed(s, reader[s])
    BY <2>1, OneReader
  <2>3. ReaderHolds(r)'
    BY <2>2 DEF ReaderHolds, state
  <2>4. ASSUME NEW n \in Notes
        PROVE  /\ notification'[n] \in NotificationRow \cup {None}
               /\ notification'[n] # None <=> notification[n] # None
               /\ notification[n] # None => notification'[n].recipient = notification[n].recipient
    BY <1>1, <1>5, NoticeRowAssumption DEF MarkAllRead, NotificationRow
  <2>5. Stored' = Stored
    BY <2>4 DEF Stored
  <2>6. notification' \in [Notes -> NotificationRow \cup {None}]
    <3>1. notification' = [n \in Notes |-> notification'[n]]
      BY <1>5 DEF MarkAllRead
    <3>. QED BY <3>1, <2>4
  <2>7. \A e \in Events : event[e] # None => EventStays(e) /\ event'[e].copies = event[e].copies
    BY <1>5 DEF EventStays, MarkAllRead
  <2>8. /\ event' = event /\ preference' = preference /\ unread' = unread /\ outdated' = outdated
        /\ consumer' = consumer /\ event \in [Events -> EventRecord \cup {None}]
    BY <1>5 DEF MarkAllRead, NoticeInv, NoticeTypeOK
  <2>9. \A n \in Notes : notification[n] # None =>
          notification'[n] # None /\ notification'[n].recipient = notification[n].recipient
    BY <2>4
  <2>. QED BY <1>1, <2>2, <2>3, <2>5, <2>6, <2>7, <2>8, <2>9, ReaderSteps
<1>. QED BY <1>2, <1>3, <1>4, <1>5 DEF NotificationRoutes

LEMMA ProceedsKeep ==
  ASSUME NoticeInv, NEW r \in Readers, ReaderProceeds(r)
  PROVE  NoticeInv'
<1>1. /\ unread \in [Users -> Nat \cup {None}] /\ outdated \subseteq Users
      /\ preference \in PreferenceTable
      /\ notification \in [Notes -> NotificationRow \cup {None}]
      /\ event \in [Events -> EventRecord \cup {None}]
      /\ reader \in [Readers -> ReaderState \cup {None}]
  BY DEF NoticeInv, NoticeTypeOK
<1>2. reader[r] # None
  BY DEF ReaderProceeds, ReaderAt, UnreadCount, UnreadSet, MarkWrite, ReaderInvalidates,
         PreferenceCreate, PreferenceWrite, ReaderFail
<1>3. reader[r] \in ReaderState /\ ReaderHolds(r) /\ reader[r].user \in Users
  BY <1>1, <1>2, ReaderFields DEF NoticeInv, ReadersHold
<1>4. CASE UnreadCount(r)
  <2>. DEFINE u == reader[r].user
              state == [pc |-> "set", user |-> u, count |-> CountUnread(u), missed |-> FALSE]
  <2>1. CountUnread(u) \in Nat
    BY UnreadIsNumber DEF NoticeInv
  <2>2. state \in ReaderState /\ reader' = [reader EXCEPT ![r] = state]
    BY <2>1, <1>3, <1>4 DEF UnreadCount, ReaderState
  <2>3. state.pc = "set"
    OBVIOUS
  <2>. HIDE DEF state
  <2>4. /\ reader' \in [Readers -> ReaderState \cup {None}] /\ reader'[r] = state
        /\ \A s \in Readers \ {r} : Noticed(s, reader[s])
    BY <2>2, OneReader
  <2>5. ReaderHolds(r)'
    BY <2>3, <2>4 DEF ReaderHolds
  <2>. QED BY <1>1, <1>4, <2>4, <2>5, ReaderOnly DEF UnreadCount
<1>5. CASE UnreadSet(r)
  <2>1. /\ reader' \in [Readers -> ReaderState \cup {None}] /\ reader'[r] = None
        /\ \A s \in Readers \ {r} : Noticed(s, reader[s])
    BY <1>5, OneReader DEF UnreadSet, EndReader
  <2>2. reader[r].count \in Nat
    BY <1>3, <1>5, ReaderFields DEF UnreadSet, ReaderAt
  <2>3. unread' \in [Users -> Nat \cup {None}] /\ outdated' \subseteq Users
    BY <2>2, <1>1, <1>3, <1>5 DEF UnreadSet
  <2>. QED BY <2>1, <2>3, <1>5, ReaderOnly DEF UnreadSet
<1>6. CASE MarkWrite(r)
  <2>. DEFINE state == [pc |-> "invalidate", user |-> reader[r].user]
              m == reader[r].note
  <2>1. state \in ReaderState /\ reader' = [reader EXCEPT ![r] = state] /\ state.pc = "invalidate"
    BY <1>3, <1>6 DEF MarkWrite, ReaderState
  <2>2. m \in Notes /\ notification[m] \in NotificationRow
    BY <1>1, <1>3, <1>6, ReaderFields DEF MarkWrite, ReaderAt, ReaderHolds
  <2>. HIDE DEF state
  <2>3. /\ reader' \in [Readers -> ReaderState \cup {None}] /\ reader'[r] = state
        /\ \A s \in Readers \ {r} : Noticed(s, reader[s])
    BY <2>1, OneReader
  <2>4. ReaderHolds(r)'
    BY <2>1, <2>3 DEF ReaderHolds
  <2>5. /\ [notification[m] EXCEPT !.isRead = TRUE] \in NotificationRow
        /\ [notification[m] EXCEPT !.isRead = TRUE].recipient = notification[m].recipient
    BY <2>2 DEF NotificationRow
  <2>6. \A n \in Notes : notification'[n] =
          IF n = m THEN [notification[m] EXCEPT !.isRead = TRUE] ELSE notification[n]
    BY <1>1, <1>6 DEF MarkWrite
  <2>7. \A n \in Notes :
          /\ notification'[n] # None <=> notification[n] # None
          /\ notification[n] # None => notification'[n].recipient = notification[n].recipient
    BY <2>2, <2>5, <2>6, NoticeRowAssumption
  <2>8. Stored' = Stored
    BY <2>7 DEF Stored
  <2>9. notification' \in [Notes -> NotificationRow \cup {None}]
    BY <1>1, <1>6, <2>2, <2>5 DEF MarkWrite
  <2>10. \A e \in Events : event[e] # None => EventStays(e) /\ event'[e].copies = event[e].copies
    BY <1>6 DEF EventStays, MarkWrite
  <2>11. /\ event' = event /\ preference' = preference /\ unread' = unread
         /\ outdated' = outdated /\ consumer' = consumer
    BY <1>6 DEF MarkWrite
  <2>12. \A n \in Notes : notification[n] # None =>
           notification'[n] # None /\ notification'[n].recipient = notification[n].recipient
    BY <2>7
  <2>. QED BY <1>1, <2>3, <2>4, <2>8, <2>9, <2>10, <2>11, <2>12, ReaderSteps
<1>7. ASSUME NEW done \in BOOLEAN, Otherwise,
             InvalidateUnread(reader[r].user, done, [reader EXCEPT ![r] = None])
      PROVE  NoticeInv'
  <2>. DEFINE rest == [reader EXCEPT ![r] = None]
  <2>1. /\ rest \in [Readers -> ReaderState \cup {None}]
        /\ rest[r] = None /\ \A s \in Readers \ {r} : rest[s] = reader[s]
    BY <1>1
  <2>. HIDE DEF rest
  <2>2. InvalidateUnread(reader[r].user, done, rest)
    BY <1>7 DEF rest
  <2>3. /\ reader' \in [Readers -> ReaderState \cup {None}]
        /\ unread' \in [Users -> Nat \cup {None}] /\ outdated' \subseteq Users
        /\ \A s \in Readers : Noticed(s, rest[s])
    BY <1>3, <2>1, <2>2, InvalidateTypes
  <2>4. reader'[r] = None /\ \A s \in Readers \ {r} : Noticed(s, reader[s])
    BY <2>1, <2>3 DEF Noticed
  <2>. QED BY <1>7, <2>3, <2>4, ReaderOnly
<1>8. CASE ReaderInvalidates(r)
  BY <1>7, <1>8 DEF ReaderInvalidates
<1>9. CASE ReaderFail(r)
  <2>1. CASE ReaderAt(r, "invalidate")
    BY <1>7, <1>9, <2>1 DEF ReaderFail
  <2>2. CASE ~ReaderAt(r, "invalidate")
    <3>1. /\ reader' \in [Readers -> ReaderState \cup {None}] /\ reader'[r] = None
          /\ \A s \in Readers \ {r} : Noticed(s, reader[s])
      BY <1>9, <2>2, OneReader DEF ReaderFail
    <3>. QED BY <1>1, <1>9, <2>2, <3>1, ReaderOnly DEF ReaderFail
  <2>. QED BY <2>1, <2>2
<1>10. ASSUME NEW state \in ReaderState \cup {None}, reader' = [reader EXCEPT ![r] = state],
              state # None => state.pc = "preference.write" /\ state.user = reader[r].user,
              NEW flags \in PreferenceFlags,
              preference' = [preference EXCEPT ![reader[r].user] = flags] \/
              (preference' = preference /\ preference[reader[r].user] # None),
              event' \in [Events -> EventRecord \cup {None}],
              \A e \in Events : event[e] = None => event'[e] = None,
              \A e \in Events : event[e] # None => EventStays(e) /\ event'[e].copies = event[e].copies,
              UNCHANGED <<notification, unread, consumer, outdated>>
       PROVE  NoticeInv'
  <2>1. /\ reader' \in [Readers -> ReaderState \cup {None}] /\ reader'[r] = state
        /\ \A s \in Readers \ {r} : Noticed(s, reader[s])
    BY <1>10, OneReader
  <2>2. preference' \in PreferenceTable /\ \A u \in Users :
          preference[u] # None \/ u = reader[r].user => preference'[u] # None
    BY <1>1, <1>3, <1>10, NotificationAssumption DEF PreferenceTable
  <2>3. reader'[r] # None => ReaderHolds(r)'
    BY <1>3, <1>10, <2>1, <2>2 DEF ReaderHolds
  <2>4. Stored' = Stored
    BY <1>10 DEF Stored
  <2>. QED BY <1>1, <1>10, <2>1, <2>2, <2>3, <2>4, ReaderSteps
<1>11. CASE PreferenceCreate(r)
  <2>1. /\ \A e \in Events : event[e] # None => EventStays(e) /\ event'[e].copies = event[e].copies
        /\ \A e \in Events : event[e] = None => event'[e] = None
        /\ event' \in [Events -> EventRecord \cup {None}]
        /\ UNCHANGED <<notification, unread, consumer, outdated>>
    BY <1>1, <1>11 DEF EventStays, PreferenceCreate
  <2>2. DefaultFlags \in PreferenceFlags
    BY DEF DefaultFlags, PreferenceFlags
  <2>3. CASE preference[reader[r].user] # None
    <3>1. None \in ReaderState \cup {None} /\ reader' = [reader EXCEPT ![r] = None] /\ preference' = preference
      BY <1>11, <2>3 DEF PreferenceCreate, EndReader
    <3>. QED BY <2>1, <2>2, <2>3, <3>1, <1>10
  <2>4. CASE preference[reader[r].user] = None
    <3>. DEFINE state == [pc |-> "preference.write", user |-> reader[r].user,
                          copy |-> DefaultFlags, changes |-> reader[r].changes]
    <3>1. reader[r].changes \in FlagChanges
      BY <1>3, <1>11, ReaderFields DEF PreferenceCreate, ReaderAt
    <3>2. state \in ReaderState
      BY <2>2, <1>3, <3>1 DEF ReaderState
    <3>3. /\ reader' = [reader EXCEPT ![r] = state]
          /\ preference' = [preference EXCEPT ![reader[r].user] = DefaultFlags]
      BY <1>11, <2>4 DEF PreferenceCreate
    <3>4. state.pc = "preference.write" /\ state.user = reader[r].user
      OBVIOUS
    <3>. HIDE DEF state
    <3>. QED BY <2>1, <2>2, <3>2, <3>3, <3>4, <1>10
  <2>. QED BY <2>3, <2>4
<1>12. CASE PreferenceWrite(r)
  <2>. DEFINE u == reader[r].user
              flags == Switched(preference[u], reader[r].copy, reader[r].changes)
  <2>1. /\ preference[u] \in PreferenceFlags /\ reader[r].changes \in FlagChanges
    BY <1>1, <1>3, <1>12, ReaderFields DEF PreferenceWrite, ReaderAt, ReaderHolds, PreferenceTable
  <2>2. \A f \in DOMAIN reader[r].changes : reader[r].changes[f] \in BOOLEAN
    BY <2>1 DEF FlagChanges
  <2>3. flags \in PreferenceFlags
    BY <2>1, <2>2 DEF Switched, PreferenceFlags
  <2>4. /\ reader' = [reader EXCEPT ![r] = None] /\ preference' = [preference EXCEPT ![u] = flags]
        /\ UNCHANGED <<notification, unread, consumer, outdated>>
    BY <1>12 DEF PreferenceWrite, EndReader
  <2>5. event' = [e \in Events |->
              IF event[e] # None /\ event[e].copies > 0 /\ u \in RecipientsOf(e)
                 /\ flags # preference[u]
              THEN [event[e] EXCEPT !.wavered = @ \cup {u}] ELSE event[e]]
    BY <1>12 DEF PreferenceWrite
  <2>. HIDE DEF flags
  <2>6. ASSUME NEW e \in Events
        PROVE  /\ event'[e] \in EventRecord \cup {None}
               /\ event[e] = None => event'[e] = None
               /\ event[e] # None => EventStays(e) /\ event'[e].copies = event[e].copies
    <3>1. event'[e] = event[e] \/
          (event[e] # None /\ event'[e] = [event[e] EXCEPT !.wavered = @ \cup {u}])
      BY <2>5
    <3>2. ASSUME event[e] # None, event'[e] = [event[e] EXCEPT !.wavered = @ \cup {u}]
          PROVE  event'[e] \in EventRecord /\ EventStays(e) /\ event'[e].copies = event[e].copies
      <4>1. event[e] \in EventRecord
        BY <1>1, <3>2
      <4>2. /\ [event[e] EXCEPT !.wavered = @ \cup {u}] \in EventRecord
            /\ [event[e] EXCEPT !.wavered = @ \cup {u}].recipients = event[e].recipients
            /\ [event[e] EXCEPT !.wavered = @ \cup {u}].category = event[e].category
            /\ [event[e] EXCEPT !.wavered = @ \cup {u}].entitled = event[e].entitled
            /\ [event[e] EXCEPT !.wavered = @ \cup {u}].copies = event[e].copies
        BY <1>3, <4>1 DEF EventRecord
      <4>. QED BY <3>2, <4>2, NoticeRowAssumption DEF EventStays
    <3>. QED BY <1>1, <3>1, <3>2 DEF EventStays
  <2>7. event' \in [Events -> EventRecord \cup {None}]
    <3>1. event' = [e \in Events |-> event'[e]]
      BY <2>5
    <3>. QED BY <3>1, <2>6
  <2>8. None \in ReaderState \cup {None}
    OBVIOUS
  <2>. QED BY <2>3, <2>4, <2>6, <2>7, <2>8, <1>10
<1>. QED BY <1>4, <1>5, <1>6, <1>8, <1>9, <1>11, <1>12 DEF ReaderProceeds

LEMMA ConsumersKeep ==
  ASSUME NoticeInv, NEW k \in Consumers, RegisterConsumers(k)
  PROVE  NoticeInv'
<1>1. /\ consumer \in [Consumers -> Delivery \cup {None}] /\ event \in [Events -> EventRecord \cup {None}]
      /\ notification \in [Notes -> NotificationRow \cup {None}]
      /\ reader \in [Readers -> ReaderState \cup {None}]
  BY DEF NoticeInv, NoticeTypeOK
<1>2. ASSUME NEW e \in Events, Deliver(k, e) PROVE NoticeInv'
  BY <1>2, DeliveryStarts
<1>3. ASSUME consumer[k] # None
      PROVE  /\ consumer[k] \in Delivery /\ consumer[k].event \in Events /\ consumer[k].at \in Nat \ {0}
             /\ consumer[k].pc \in {"ask", "create", "invalidate"}
             /\ event[consumer[k].event] \in EventRecord
             /\ event[consumer[k].event].recipients \in Seq(Users)
             /\ DeliveryHolds(k) /\ CopiesHold(consumer[k].event)
             /\ (consumer[k].at <= Len(event[consumer[k].event].recipients) => Recipient(k) \in Users)
             /\ NextRecipient(consumer[k]) \in Delivery /\ NextRecipient(consumer[k]).pc = "ask"
             /\ NextRecipient(consumer[k]).event = consumer[k].event
  <2>1. consumer[k] \in Delivery
    BY <1>1, <1>3
  <2>2. /\ consumer[k].event \in Events /\ consumer[k].at \in Nat \ {0}
        /\ consumer[k].pc \in {"ask", "create", "invalidate"}
    BY <2>1 DEF Delivery
  <2>3. DeliveryHolds(k) /\ event[consumer[k].event] \in EventRecord
    BY <1>1, <1>3, <2>2 DEF NoticeInv, DeliveriesGoOn, DeliveryHolds
  <2>4. event[consumer[k].event].recipients \in Seq(Users)
    BY <2>3 DEF EventRecord
  <2>5. consumer[k].at <= Len(event[consumer[k].event].recipients) => Recipient(k) \in Users
    BY <2>2, <2>4 DEF Recipient
  <2>6. CopiesHold(consumer[k].event)
    BY <2>2, <2>3 DEF NoticeInv, DeliveriesGoOn, DeliveryHolds
  <2>7. /\ NextRecipient(consumer[k]) \in Delivery /\ NextRecipient(consumer[k]).pc = "ask"
        /\ NextRecipient(consumer[k]).event = consumer[k].event
    <3>1. consumer[k].at + 1 \in Nat \ {0}
      BY <2>2
    <3>2. NextRecipient(consumer[k]) =
            [consumer[k] EXCEPT !.pc = "ask", !.at = consumer[k].at + 1]
      BY DEF NextRecipient
    <3>. QED BY <2>1, <3>1, <3>2 DEF Delivery
  <2>. QED BY <2>1, <2>2, <2>3, <2>4, <2>5, <2>6, <2>7
<1>4. ASSUME UNCHANGED <<notification, preference, reader>>
      PROVE  ReadersHold' /\ IsFiniteSet(Stored')
  BY <1>4 DEF NoticeInv, ReadersHold, ReaderHolds, Stored
<1>5. CASE NoticeAsk(k)
  <2>. DEFINE d == IF AllowsInApp(preference, Recipient(k), event[consumer[k].event].category)
                   THEN [consumer[k] EXCEPT !.pc = "create"] ELSE NextRecipient(consumer[k])
              asked == [consumer[k] EXCEPT !.pc = "create"]
  <2>1. consumer[k] # None /\ ~AllAsked(k)
    BY <1>5 DEF NoticeAsk, ConsumerAt
  <2>2. asked \in Delivery /\ asked.event = consumer[k].event /\ asked.at = consumer[k].at
    BY <1>3, <2>1 DEF Delivery
  <2>3. consumer[k].at <= Len(event[consumer[k].event].recipients)
    BY <1>3, <2>1 DEF AllAsked
  <2>4. /\ d \in Delivery /\ d.event = consumer[k].event
        /\ d.pc \in {"create", "invalidate"} => d.at <= Len(event[d.event].recipients)
    BY <1>3, <2>1, <2>2, <2>3
  <2>5. consumer' = [consumer EXCEPT ![k] = d]
    BY <1>1, <1>5 DEF NoticeAsk
  <2>. HIDE DEF d
  <2>6. UNCHANGED event /\ UNCHANGED <<notification, preference, unread, reader, outdated>>
    BY <1>5 DEF NoticeAsk
  <2>7. DeliveriesGoOn' /\ consumer' \in [Consumers -> Delivery \cup {None}]
    BY <2>1, <2>4, <2>5, <2>6, DeliveryMoves
  <2>. QED BY <1>4, <2>6, <2>7 DEF NoticeInv, NoticeTypeOK
<1>6. ASSUME NEW n \in Notes, NoticeCreate(k, n) PROVE NoticeInv'
  <2>. DEFINE d == [consumer[k] EXCEPT !.pc = "invalidate"]
              row == NewNotification(Recipient(k), consumer[k].event)
  <2>1. consumer[k] # None /\ consumer[k].pc = "create" /\ notification[n] = None
    BY <1>6 DEF NoticeCreate, ConsumerAt
  <2>2. d \in Delivery /\ d.event = consumer[k].event /\ d.at = consumer[k].at
    BY <1>3, <2>1 DEF Delivery
  <2>3. d.at <= Len(event[d.event].recipients)
    BY <1>3, <2>1, <2>2 DEF DeliveryHolds
  <2>4. /\ consumer' = [consumer EXCEPT ![k] = d] /\ notification' = [notification EXCEPT ![n] = row]
        /\ UNCHANGED <<event, preference, unread, reader, outdated>>
    BY <1>6 DEF NoticeCreate
  <2>5. row \in NotificationRow
    BY <1>3, <2>1, <2>2, <2>3 DEF NewNotification, NotificationRow
  <2>. HIDE DEF d, row
  <2>6. DeliveriesGoOn' /\ consumer' \in [Consumers -> Delivery \cup {None}]
    BY <2>1, <2>2, <2>3, <2>4, DeliveryMoves
  <2>7. Stored' = Stored \cup {n}
    BY <1>1, <2>4, <2>5, NoticeRowAssumption DEF Stored
  <2>8. IsFiniteSet(Stored')
    BY <2>7, FS_AddElement DEF NoticeInv
  <2>9. ASSUME NEW r \in Readers, reader'[r] # None PROVE ReaderHolds(r)'
    <3>1. ReaderHolds(r) /\ reader[r] \in ReaderState
      BY <1>1, <2>4, <2>9 DEF NoticeInv, ReadersHold
    <3>2. reader[r].pc = "mark" => reader[r].note \in Notes /\ reader[r].note # n
      BY <3>1, <2>1, ReaderFields DEF ReaderHolds
    <3>. QED BY <1>1, <2>4, <3>1, <3>2 DEF ReaderHolds
  <2>10. NoticeTypeOK'
    BY <1>1, <2>4, <2>5, <2>6 DEF NoticeInv, NoticeTypeOK
  <2>. QED BY <2>6, <2>8, <2>9, <2>10 DEF NoticeInv, ReadersHold
<1>7. ASSUME NEW u \in Users, NEW done \in BOOLEAN, InvalidateUnread(u, done, reader),
             DeliveriesGoOn', consumer' \in [Consumers -> Delivery \cup {None}],
             event' \in [Events -> EventRecord \cup {None}], UNCHANGED <<notification, preference>>
      PROVE  NoticeInv'
  <2>1. /\ reader' \in [Readers -> ReaderState \cup {None}]
        /\ unread' \in [Users -> Nat \cup {None}] /\ outdated' \subseteq Users
        /\ \A s \in Readers : Noticed(s, reader[s])
    BY <1>1, <1>7, InvalidateTypes
  <2>2. ReadersHold'
    <3>. DEFINE moved == {r \in Readers : FALSE}
    <3>1. moved \in SUBSET Readers /\ \A s \in moved : FALSE
      OBVIOUS
    <3>. HIDE DEF moved
    <3>. QED BY <1>7, <2>1, <3>1, ReadersStay
  <2>3. NoticeTypeOK' /\ IsFiniteSet(Stored')
    BY <1>7, <2>1 DEF NoticeInv, NoticeTypeOK, Stored
  <2>. QED BY <1>7, <2>2, <2>3 DEF NoticeInv
<1>8. CASE NoticeInvalidate(k)
  <2>1. consumer[k] # None /\ consumer[k].pc = "invalidate"
    BY <1>8 DEF NoticeInvalidate, ConsumerAt
  <2>. DEFINE d == NextRecipient(consumer[k])
  <2>2. /\ consumer' = [consumer EXCEPT ![k] = d]
        /\ UNCHANGED <<event, notification, preference>>
    BY <1>8 DEF NoticeInvalidate
  <2>3. d \in Delivery /\ d.event = consumer[k].event /\ d.pc = "ask"
    BY <1>3, <2>1
  <2>. HIDE DEF d
  <2>4. DeliveriesGoOn' /\ consumer' \in [Consumers -> Delivery \cup {None}]
    BY <2>1, <2>2, <2>3, DeliveryMoves
  <2>5. Recipient(k) \in Users
    BY <1>3, <2>1 DEF DeliveryHolds
  <2>6. PICK done \in BOOLEAN : InvalidateUnread(Recipient(k), done, reader)
    BY <1>8 DEF NoticeInvalidate
  <2>. QED BY <1>1, <1>7, <2>2, <2>4, <2>5, <2>6
<1>9. ASSUME consumer[k] # None, consumer' = [consumer EXCEPT ![k] = None],
             NEW acked \in BOOLEAN,
             NEW e \in Events, e = consumer[k].event,
             event' = event \/ event' = [event EXCEPT ![e].copies = @ - 1] \/
             event' = [event EXCEPT ![e].acked = TRUE, ![e].copies = @ - 1]
      PROVE  /\ DeliveriesGoOn' /\ consumer' \in [Consumers -> Delivery \cup {None}]
             /\ event' \in [Events -> EventRecord \cup {None}]
  <2>1. event[e] \in EventRecord /\ CopiesHold(e)
    BY <1>3, <1>9
  <2>2. event[e].copies - 1 \in 0..MaxCopies
    <3>1. k \in Handling(e)
      BY <1>9 DEF Handling
    <3>2. Cardinality(Handling(e)) \in Nat /\ Cardinality(Handling(e)) # 0
      BY <2>1, <3>1, FS_CardinalityType, FS_EmptySet DEF CopiesHold
    <3>. QED BY <2>1, <3>2, NotificationAssumption DEF CopiesHold, EventRecord
  <2>. DEFINE lost == [event[e] EXCEPT !.copies = @ - 1]
              done == [event[e] EXCEPT !.acked = TRUE, !.copies = @ - 1]
  <2>3. /\ lost \in EventRecord /\ lost.recipients = event[e].recipients
        /\ lost.category = event[e].category /\ lost.entitled = event[e].entitled
        /\ lost.copies = event[e].copies - 1
    BY <2>1, <2>2 DEF EventRecord
  <2>4. /\ done \in EventRecord /\ done.recipients = event[e].recipients
        /\ done.category = event[e].category /\ done.entitled = event[e].entitled
        /\ done.copies = event[e].copies - 1
    BY <2>1, <2>2 DEF EventRecord
  <2>5. event' = event \/ event' = [event EXCEPT ![e] = lost] \/ event' = [event EXCEPT ![e] = done]
    <3>1. CASE event' = event
      BY <3>1
    <3>2. CASE event' = [event EXCEPT ![e].copies = @ - 1]
      BY <3>2
    <3>3. CASE event' = [event EXCEPT ![e].acked = TRUE, ![e].copies = @ - 1]
      BY <1>1, <2>1, <3>3 DEF EventRecord
    <3>. QED BY <1>9, <3>1, <3>2, <3>3
  <2>. HIDE DEF lost, done
  <2>6. event' \in [Events -> EventRecord \cup {None}]
    BY <1>1, <2>3, <2>4, <2>5
  <2>7. \A f \in Events : event'[f] = event[f] \/ (f = e /\ event'[f] \in {lost, done})
    BY <1>1, <2>5
  <2>8. \A f \in Events : event[f] # None <=> event'[f] # None
    BY <2>1, <2>3, <2>4, <2>7, NoticeRowAssumption
  <2>9. \A f \in Events : event[f] # None =>
          /\ EventStays(f)
          /\ event'[f].copies = event[f].copies \/
             (f = consumer[k].event /\ event'[f].copies = event[f].copies - 1)
    BY <1>9, <2>3, <2>4, <2>7, <2>8 DEF EventStays
  <2>. QED BY <1>9, <2>6, <2>8, <2>9, DeliveryEnds
<1>10. CASE NoticeAck(k)
  <2>1. /\ consumer[k] # None /\ consumer' = [consumer EXCEPT ![k] = None]
        /\ event' = [event EXCEPT ![consumer[k].event].acked = TRUE, ![consumer[k].event].copies = @ - 1]
        /\ UNCHANGED <<notification, preference, unread, reader, outdated>>
    BY <1>10 DEF NoticeAck, ConsumerAt
  <2>2. /\ DeliveriesGoOn' /\ consumer' \in [Consumers -> Delivery \cup {None}]
        /\ event' \in [Events -> EventRecord \cup {None}]
    BY <1>3, <1>9, <2>1
  <2>. QED BY <1>4, <2>1, <2>2 DEF NoticeInv, NoticeTypeOK
<1>11. CASE NoticeFail(k)
  <2>1. /\ consumer[k] # None /\ consumer' = [consumer EXCEPT ![k] = None]
        /\ event' = event \/ event' = [event EXCEPT ![consumer[k].event].copies = @ - 1]
        /\ UNCHANGED <<notification, preference>>
    BY <1>11 DEF NoticeFail
  <2>2. /\ DeliveriesGoOn' /\ consumer' \in [Consumers -> Delivery \cup {None}]
        /\ event' \in [Events -> EventRecord \cup {None}]
    BY <1>3, <1>9, <2>1
  <2>3. CASE ConsumerAt(k, "invalidate")
    <3>1. InvalidateUnread(Recipient(k), FALSE, reader)
      BY <1>11, <2>3 DEF NoticeFail
    <3>2. Recipient(k) \in Users
      BY <1>3, <2>3 DEF DeliveryHolds, ConsumerAt
    <3>. QED BY <1>7, <2>1, <2>2, <3>1, <3>2
  <2>4. CASE ~ConsumerAt(k, "invalidate")
    BY <1>4, <1>11, <2>1, <2>2, <2>4 DEF NoticeInv, NoticeTypeOK, NoticeFail
  <2>. QED BY <2>3, <2>4
<1>. QED BY <1>2, <1>5, <1>6, <1>8, <1>10, <1>11 DEF RegisterConsumers

LEMMA NoticeNextKeeps ==
  ASSUME NoticeInv, NoticeNext
  PROVE  NoticeInv'
<1>1. ASSUME NEW u \in Users, UnreadExpires(u) PROVE NoticeInv'
  <2>1. DeliveriesGoOn'
    BY <1>1 DEF UnreadExpires, Otherwise, NoticeInv, DeliveriesGoOn, DeliveryHolds, CopiesHold, Handling
  <2>2. ReadersHold' /\ IsFiniteSet(Stored')
    BY <1>1 DEF UnreadExpires, Otherwise, NoticeInv, ReadersHold, ReaderHolds, Stored
  <2>3. NoticeTypeOK'
    BY <1>1 DEF UnreadExpires, Otherwise, NoticeInv, NoticeTypeOK
  <2>. QED BY <2>1, <2>2, <2>3 DEF NoticeInv
<1>. QED BY <1>1, RoutesKeep, ProceedsKeep, ConsumersKeep DEF NoticeNext

\* An event enters the queue.
LEMMA EnqueueKeeps ==
  ASSUME NoticeInv, NEW e \in Events, NEW category \in PreferenceCategory,
         NEW recipients \in Seq(Users), Enqueue(e, Notice(category, recipients)),
         UNCHANGED <<notification, preference, unread, consumer, reader, outdated>>
  PROVE  /\ NoticeInv' /\ event'[e] # None
         /\ event'[e].category = category /\ event'[e].recipients = recipients
         /\ ~event'[e].acked /\ event'[e].runs = 0 /\ event'[e].wavered = {}
         /\ event'[e].entitled = {u \in {recipients[i] : i \in DOMAIN recipients} :
                                   AllowsInApp(preference, u, category)}
         /\ \A f \in Events \ {e} : event'[f] = event[f]
<1>1. event \in [Events -> EventRecord \cup {None}] /\ event[e] = None
  BY DEF NoticeInv, NoticeTypeOK, Enqueue
<1>2. PICK n \in 1..MaxCopies :
        event' = [event EXCEPT ![e] = [Notice(category, recipients) EXCEPT !.copies = n]]
  BY DEF Enqueue
<1>. DEFINE sent == [Notice(category, recipients) EXCEPT !.copies = n]
<1>3. /\ sent \in EventRecord
      /\ sent.category = category /\ sent.recipients = recipients
      /\ sent.copies = n /\ ~sent.acked /\ sent.runs = 0 /\ sent.wavered = {}
      /\ sent.entitled = {u \in {recipients[i] : i \in DOMAIN recipients} :
                            AllowsInApp(preference, u, category)}
  BY NoticeTypes DEF NoticeInv
<1>4. event' = [event EXCEPT ![e] = sent]
  BY <1>2
<1>. HIDE DEF sent
<1>5. event'[e] = sent /\ \A f \in Events \ {e} : event'[f] = event[f]
  BY <1>1, <1>4
<1>6. sent # None /\ n \in Nat
  BY <1>3, NoticeRowAssumption
<1>7. DeliveriesGoOn'
  <2>1. \A f \in Events : event[f] # None => EventStays(f) /\ event'[f].copies = event[f].copies
    BY <1>1, <1>5 DEF EventStays
  <2>2. \A f \in Events : event[f] = None /\ event'[f] # None => event'[f].copies \in Nat
    BY <1>1, <1>3, <1>5, <1>6
  <2>. QED BY <2>1, <2>2, ConsumersStay
<1>8. NoticeTypeOK'
  BY <1>1, <1>3, <1>4 DEF NoticeInv, NoticeTypeOK
<1>9. ReadersHold' /\ IsFiniteSet(Stored')
  BY DEF NoticeInv, ReadersHold, ReaderHolds, Stored
<1>. QED BY <1>3, <1>5, <1>6, <1>7, <1>8, <1>9 DEF NoticeInv

\* What other services send has one recipient.
LEMMA OtherServicesSend ==
  ASSUME NEW e \in Events, OtherServices(e)
  PROVE  \E u \in Users, category \in PreferenceCategory : Enqueue(e, Notice(category, <<u>>))
BY DEF OtherServices, ConnectionRequested, ConnectionAccepted, PostReacted, PostCommented,
       JobApplied, PreferenceCategory
-----------------------------------------------------------------------------
(* Messaging: types *)

SendPCs == {"send.bump", "send.publish"}

\* What a request goes by is there: the conversation it fills is empty, the one it
\* sends to is filled, the message it writes is its user's.
Held(h) ==
  /\ chat[h].pc = "create.join" =>
       /\ conversation[chat[h].id] # None /\ participants[chat[h].id] = {}
       /\ conversation[chat[h].id].isGroup = chat[h].isGroup
  /\ chat[h].pc \in {"send.insert"} \cup SendPCs => participants[chat[h].id] # {}
  /\ chat[h].pc \in SendPCs =>
       /\ message[chat[h].message] # None
       /\ message[chat[h].message].sender = chat[h].user
       /\ message[chat[h].message].conversation = chat[h].id
  /\ chat[h].pc = "message.write" =>
       /\ message[chat[h].message] # None
       /\ message[chat[h].message].sender = chat[h].user
       /\ chat[h].changes.deleted \/ chat[h].changes.content # None
\* Two requests fill two conversations.
Apart(g, h) == ChatAt(g, "create.join") /\ ChatAt(h, "create.join") => chat[g].id # chat[h].id

ChatsHeld ==
  /\ \A h \in Chats : chat[h] # None => Held(h)
  /\ \A g, h \in Chats : g # h => Apart(g, h)
Filled ==
  /\ \A c \in Conversations : participants[c] # {} => conversation[c] # None
  /\ \A m \in Messages : message[m] # None => participants[message[m].conversation] # {}
Sent == {m \in Messages : message[m] # None}

ChatInv == ChatTypeOK /\ ChatsHeld /\ Filled /\ IsFiniteSet(Sent)

\* What a request of each kind is made of.
LEMMA ChatFields ==
  \A s \in ChatState :
    /\ s.pc \in {"create.insert", "create.join", "send.insert", "send.bump", "send.publish",
                 "message.write", "read.write"}
    /\ s.pc \in {"create.insert", "create.join"} => s.members \in SUBSET Users /\ s.isGroup \in BOOLEAN
    /\ s.pc \in {"create.join", "read.write", "send.insert"} \cup SendPCs => s.id \in Conversations
    /\ s.pc \in {"read.write", "send.insert", "message.write"} \cup SendPCs => s.user \in Users
    /\ s.pc = "send.insert" => s.content \in Contents
    /\ s.pc \in {"message.write"} \cup SendPCs => s.message \in Messages
    /\ s.pc = "message.write" =>
         /\ s.copy \in MessageRow
         /\ s.changes \in [content : Contents \cup {None}, deleted : BOOLEAN]
BY DEF ChatState, SendPCs

\* Rows of the tables that stay what they are to the requests.
ConversationsStay ==
  \A c \in Conversations :
    /\ conversation[c] # None =>
         conversation'[c] # None /\ conversation'[c].isGroup = conversation[c].isGroup
    /\ participants[c] # {} => participants'[c] = participants[c]
MessagesStay ==
  \A m \in Messages : message[m] # None =>
    /\ message'[m] # None /\ message'[m].sender = message[m].sender
    /\ message'[m].conversation = message[m].conversation

LEMMA ChatsStay ==
  ASSUME ChatInv, NEW h \in Chats, NEW s \in ChatState \cup {None},
         chat' = [chat EXCEPT ![h] = s], s # None => Held(h)',
         ConversationsStay, MessagesStay,
         \A g \in Chats \ {h} : ChatAt(g, "create.join") => participants'[chat[g].id] = {},
         s # None /\ s.pc = "create.join" =>
           \A g \in Chats \ {h} : ChatAt(g, "create.join") => chat[g].id # s.id
  PROVE  ChatsHeld' /\ chat' \in [Chats -> ChatState \cup {None}]
<1>1. chat \in [Chats -> ChatState \cup {None}] /\ message \in [Messages -> MessageRow \cup {None}]
  BY DEF ChatInv, ChatTypeOK
<1>2. chat'[h] = s /\ \A g \in Chats \ {h} : chat'[g] = chat[g]
  BY <1>1
<1>3. ASSUME NEW g \in Chats \ {h}, chat'[g] # None PROVE Held(g)'
  <2>1. Held(g) /\ chat[g] \in ChatState /\ chat'[g] = chat[g]
    BY <1>1, <1>2, <1>3 DEF ChatInv, ChatsHeld
  <2>2. ASSUME chat[g].pc = "create.join"
        PROVE  /\ conversation'[chat[g].id] # None /\ participants'[chat[g].id] = {}
               /\ conversation'[chat[g].id].isGroup = chat[g].isGroup
    <3>1. chat[g].id \in Conversations
      BY <2>1, <2>2, ChatFields
    <3>. QED BY <1>2, <1>3, <2>1, <2>2, <3>1 DEF Held, ConversationsStay, ChatAt
  <2>3. ASSUME chat[g].pc \in {"send.insert"} \cup SendPCs
        PROVE  participants'[chat[g].id] # {}
    <3>1. chat[g].id \in Conversations
      BY <2>1, <2>3, ChatFields
    <3>. QED BY <2>1, <2>3, <3>1 DEF Held, ConversationsStay
  <2>4. ASSUME chat[g].pc \in SendPCs
        PROVE  /\ message'[chat[g].message] # None
               /\ message'[chat[g].message].sender = chat[g].user
               /\ message'[chat[g].message].conversation = chat[g].id
    <3>1. chat[g].message \in Messages
      BY <2>1, <2>4, ChatFields
    <3>. QED BY <2>1, <2>4, <3>1 DEF Held, MessagesStay
  <2>5. ASSUME chat[g].pc = "message.write"
        PROVE  /\ message'[chat[g].message] # None
               /\ message'[chat[g].message].sender = chat[g].user
               /\ chat[g].changes.deleted \/ chat[g].changes.content # None
    <3>1. chat[g].message \in Messages
      BY <2>1, <2>5, ChatFields
    <3>. QED BY <2>1, <2>5, <3>1 DEF Held, MessagesStay
  <2>. QED BY <2>1, <2>2, <2>3, <2>4, <2>5 DEF Held
<1>4. ASSUME NEW f \in Chats, NEW g \in Chats, f # g PROVE Apart(f, g)'
  BY <1>2, <1>4 DEF Apart, ChatAt, ChatInv, ChatsHeld
<1>5. \A g \in Chats : chat'[g] # None => Held(g)'
  BY <1>2, <1>3
<1>. QED BY <1>1, <1>4, <1>5 DEF ChatsHeld

\* Nothing but a request or what it answered changes.
LEMMA TablesStay ==
  ASSUME ChatInv, UNCHANGED <<conversation, participants, message>>
  PROVE  /\ ConversationsStay /\ MessagesStay /\ Filled' /\ IsFiniteSet(Sent')
         /\ \A h \in Chats : ChatAt(h, "create.join") => participants'[chat[h].id] = {}
         /\ conversation' \in [Conversations -> ConversationRow \cup {None}]
         /\ participants' \in ParticipantTable
         /\ message' \in [Messages -> MessageRow \cup {None}]
BY DEF ChatInv, ChatTypeOK, ConversationsStay, MessagesStay, Filled, Sent, ChatsHeld, Held, ChatAt

LEMMA ConversationRoutesKeep ==
  ASSUME ChatInv, NEW h \in Chats, ConversationRoutes(h)
  PROVE  ChatInv'
<1>1. ASSUME NEW c \in Conversations, NEW u \in Users, MarkReadFind(h, c, u) PROVE ChatInv'
  <2>. DEFINE s == [pc |-> "read.write", user |-> u, id |-> c]
  <2>1. /\ chat' = [chat EXCEPT ![h] = s]
        /\ UNCHANGED <<conversation, participants, lastReadAt, message, opened, crossed, unsent>>
    BY <1>1 DEF MarkReadFind, StartChat
  <2>2. s \in ChatState /\ s.pc = "read.write"
    BY DEF ChatState
  <2>. HIDE DEF s
  <2>3. chat'[h] = s
    BY <2>1 DEF ChatInv, ChatTypeOK
  <2>4. Held(h)'
    BY <2>2, <2>3 DEF Held, SendPCs
  <2>5. /\ ConversationsStay /\ MessagesStay /\ Filled' /\ IsFiniteSet(Sent')
        /\ \A g \in Chats : ChatAt(g, "create.join") => participants'[chat[g].id] = {}
    BY <2>1, TablesStay
  <2>6. ChatsHeld' /\ chat' \in [Chats -> ChatState \cup {None}]
    BY <2>1, <2>2, <2>4, <2>5, ChatsStay
  <2>. QED BY <2>1, <2>5, <2>6 DEF ChatInv, ChatTypeOK
<1>2. ASSUME NEW members \in SUBSET Users \ {{}}, NEW asked \in BOOLEAN \cup {None},
             CreateLookup(h, members, asked)
      PROVE  ChatInv'
  <2>. DEFINE isGroup == IF asked = None THEN Cardinality(members) > 2 ELSE asked
              found == IF Direct(members, isGroup) THEN DirectConversations(members) ELSE {}
              s == [pc |-> "create.insert", members |-> members, isGroup |-> isGroup]
  <2>1. /\ UNCHANGED <<conversation, participants, lastReadAt, message, unsent>>
        /\ chat[h] = None
    BY <1>2 DEF CreateLookup
  <2>2. /\ ConversationsStay /\ MessagesStay /\ Filled' /\ IsFiniteSet(Sent')
        /\ \A g \in Chats : ChatAt(g, "create.join") => participants'[chat[g].id] = {}
    BY <2>1, TablesStay
  <2>3. isGroup \in BOOLEAN
    <3>1. (Cardinality(members) > 2) \in BOOLEAN
      OBVIOUS
    <3>. QED BY <3>1, Zenon
  <2>4. Direct(members, isGroup) => members \in Pairs
    BY DEF Direct, Pairs
  <2>5. CASE found # {}
    <3>1. PICK c \in found : opened' = opened \cup {<<members, c>>}
      BY <1>2, <2>5 DEF CreateLookup
    <3>2. Direct(members, isGroup) /\ c \in Conversations
      BY <3>1 DEF DirectConversations
    <3>3. opened' \subseteq Pairs \X Conversations
      BY <3>1, <3>2, <2>4 DEF ChatInv, ChatTypeOK
    <3>4. UNCHANGED <<chat, crossed>>
      BY <1>2, <2>5 DEF CreateLookup
    <3>. QED BY <2>1, <3>3, <3>4 DEF ChatInv, ChatTypeOK, ChatsHeld, Held, Apart, ChatAt, Filled, Sent
  <2>6. CASE found = {}
    <3>1. /\ chat' = [chat EXCEPT ![h] = s] /\ UNCHANGED opened
          /\ crossed' = IF Direct(members, isGroup) /\ Opening(members) # {}
                        THEN crossed \cup {members} ELSE crossed
      BY <1>2, <2>6 DEF CreateLookup, StartChat
    <3>2. s \in ChatState /\ s.pc = "create.insert"
      BY <2>3 DEF ChatState
    <3>3. crossed' \subseteq Pairs
      BY <3>1, <2>4 DEF ChatInv, ChatTypeOK
    <3>. HIDE DEF s, isGroup, found
    <3>4. chat'[h] = s
      BY <3>1 DEF ChatInv, ChatTypeOK
    <3>5. Held(h)'
      BY <3>2, <3>4 DEF Held, SendPCs
    <3>6. ChatsHeld' /\ chat' \in [Chats -> ChatState \cup {None}]
      BY <2>2, <3>1, <3>2, <3>5, ChatsStay
    <3>. QED BY <2>1, <2>2, <3>1, <3>3, <3>6 DEF ChatInv, ChatTypeOK
  <2>. QED BY <2>5, <2>6
<1>. QED BY <1>1, <1>2 DEF ConversationRoutes

LEMMA MessageRoutesKeep ==
  ASSUME ChatInv, NEW h \in Chats, MessageRoutes(h)
  PROVE  ChatInv'
<1>1. /\ UNCHANGED <<conversation, participants, lastReadAt, message, opened, crossed, unsent>>
      /\ chat[h] = None
  BY DEF MessageRoutes, SendStart, MessageFind, StartChat
<1>2. /\ ConversationsStay /\ MessagesStay /\ Filled' /\ IsFiniteSet(Sent')
      /\ \A g \in Chats : ChatAt(g, "create.join") => participants'[chat[g].id] = {}
  BY <1>1, TablesStay
<1>3. ASSUME NEW s \in ChatState, chat' = [chat EXCEPT ![h] = s], Held(h)', s.pc # "create.join"
      PROVE  ChatInv'
  <2>1. ChatsHeld' /\ chat' \in [Chats -> ChatState \cup {None}]
    BY <1>2, <1>3, ChatsStay
  <2>. QED BY <1>1, <1>2, <2>1 DEF ChatInv, ChatTypeOK
<1>4. \A s : chat' = [chat EXCEPT ![h] = s] => chat'[h] = s
  BY DEF ChatInv, ChatTypeOK
<1>5. ASSUME NEW u \in Users, NEW c \in Conversations, NEW content \in Contents,
             SendStart(h, u, c, content)
      PROVE  ChatInv'
  <2>. DEFINE s == [pc |-> "send.insert", user |-> u, id |-> c, content |-> content]
  <2>1. s \in ChatState /\ chat' = [chat EXCEPT ![h] = s]
    BY <1>5 DEF ChatState, SendStart, StartChat
  <2>2. s.pc = "send.insert" /\ s.id = c
    OBVIOUS
  <2>. HIDE DEF s
  <2>3. Held(h)'
    BY <1>1, <1>4, <1>5, <2>1, <2>2 DEF Held, SendPCs, SendStart, IsParticipant
  <2>. QED BY <1>3, <2>1, <2>2, <2>3
<1>6. ASSUME NEW u \in Users, NEW m \in Messages,
             NEW changes \in [content : Contents \cup {None}, deleted : BOOLEAN],
             changes.deleted \/ changes.content # None, MessageFind(h, u, m, changes)
      PROVE  ChatInv'
  <2>. DEFINE s == [pc |-> "message.write", user |-> u, message |-> m, copy |-> message[m],
                    changes |-> changes]
  <2>1. message[m] \in MessageRow
    BY <1>6 DEF MessageFind, ChatInv, ChatTypeOK
  <2>2. s \in ChatState /\ chat' = [chat EXCEPT ![h] = s]
    <3>1. s \in [pc : {"message.write"}, user : Users, message : Messages, copy : MessageRow,
                  changes : [content : Contents \cup {None}, deleted : BOOLEAN]]
      BY <2>1
    <3>2. s \in ChatState
      BY ONLY <3>1 DEF ChatState
    <3>. QED BY <1>6, <3>2 DEF MessageFind, StartChat
  <2>3. s.pc = "message.write" /\ s.message = m /\ s.user = u /\ s.changes = changes
    OBVIOUS
  <2>. HIDE DEF s
  <2>4. Held(h)'
    BY <1>1, <1>4, <1>6, <2>2, <2>3 DEF Held, SendPCs, MessageFind
  <2>. QED BY <1>3, <2>2, <2>3, <2>4
<1>7. ASSUME NEW content \in Contents
      PROVE  LET changes == [content |-> content, deleted |-> FALSE]
             IN  /\ changes \in [content : Contents \cup {None}, deleted : BOOLEAN]
                 /\ changes.content # None
  BY MessagingAssumption
<1>8. LET changes == [content |-> None, deleted |-> TRUE]
      IN  changes \in [content : Contents \cup {None}, deleted : BOOLEAN] /\ changes.deleted
  OBVIOUS
<1>. QED BY <1>5, <1>6, <1>7, <1>8 DEF MessageRoutes

\* What a write makes of a message.
LEMMA WrittenRow ==
  ASSUME NEW row \in MessageRow, NEW copy, NEW changes,
         changes.deleted \in BOOLEAN, changes.content \in Contents \cup {None},
         changes.deleted \/ changes.content # None
  PROVE  /\ Written(row, copy, changes) \in MessageRow
         /\ Written(row, copy, changes).sender = row.sender
         /\ Written(row, copy, changes).conversation = row.conversation
         /\ (row.deleted => Written(row, copy, changes).deleted)
<1>1. CASE changes.deleted
  BY <1>1 DEF Written, MessageRow
<1>2. CASE ~changes.deleted
  <2>. DEFINE content == IF changes.content = copy.content THEN row.content ELSE changes.content
  <2>1. content \in Contents
    BY <1>2 DEF MessageRow
  <2>2. Written(row, copy, changes) = [row EXCEPT !.isEdited = TRUE, !.content = content]
    BY <1>2 DEF Written
  <2>. HIDE DEF content
  <2>. QED BY <2>1, <2>2 DEF MessageRow
<1>. QED BY <1>1, <1>2

LEMMA ChatProceedsKeep ==
  ASSUME ChatInv, NEW h \in Chats, ChatProceeds(h)
  PROVE  ChatInv' /\ ConversationsStay /\ MessagesStay
<1>1. /\ chat \in [Chats -> ChatState \cup {None}]
      /\ conversation \in [Conversations -> ConversationRow \cup {None}]
      /\ participants \in ParticipantTable /\ lastReadAt \in ReadMarks
      /\ message \in [Messages -> MessageRow \cup {None}]
      /\ opened \subseteq Pairs \X Conversations /\ crossed \subseteq Pairs
      /\ unsent \subseteq Messages
  BY DEF ChatInv, ChatTypeOK
<1>2. chat[h] # None
  BY DEF ChatProceeds, CreateInsert, SendInsert, CreateJoin, MarkReadWrite, SendBump, SendPublish,
         MessageWrite, ChatFail, ChatAt
<1>3. chat[h] \in ChatState /\ Held(h)
  BY <1>1, <1>2 DEF ChatInv, ChatsHeld
<1>4. \A s \in ChatState \cup {None} : chat' = [chat EXCEPT ![h] = s] => chat'[h] = s
  BY <1>1
<1>5. ASSUME NEW c \in Conversations, CreateInsert(h, c)
      PROVE  ChatInv' /\ ConversationsStay /\ MessagesStay
  <2>. DEFINE s == [pc |-> "create.join", members |-> chat[h].members,
                    isGroup |-> chat[h].isGroup, id |-> c]
              row == NewConversation(chat[h].isGroup)
  <2>1. chat[h].members \in SUBSET Users /\ chat[h].isGroup \in BOOLEAN
    BY <1>3, <1>5, ChatFields DEF CreateInsert, ChatAt
  <2>2. s \in ChatState /\ row \in ConversationRow /\ row.isGroup = chat[h].isGroup
    BY <2>1 DEF ChatState, NewConversation, ConversationRow
  <2>3. /\ chat' = [chat EXCEPT ![h] = s] /\ conversation' = [conversation EXCEPT ![c] = row]
        /\ conversation[c] = None
        /\ UNCHANGED <<participants, lastReadAt, message, opened, crossed, unsent>>
    BY <1>5 DEF CreateInsert
  <2>4. s.pc = "create.join" /\ s.id = c /\ s.isGroup = chat[h].isGroup
    OBVIOUS
  <2>. HIDE DEF s, row
  <2>5. /\ conversation'[c] = row /\ row # None
        /\ \A d \in Conversations \ {c} : conversation'[d] = conversation[d]
    BY <1>1, <2>2, <2>3, ChatRowAssumption
  <2>6. participants'[c] = {}
    BY <2>3 DEF ChatInv, Filled
  <2>7. Held(h)'
    BY <1>4, <2>2, <2>3, <2>4, <2>5, <2>6 DEF Held, SendPCs
  <2>8. ConversationsStay /\ MessagesStay
    BY <2>3, <2>5 DEF ConversationsStay, MessagesStay
  <2>9. \A g \in Chats \ {h} : ChatAt(g, "create.join") =>
          participants'[chat[g].id] = {} /\ chat[g].id # c
    BY <2>3 DEF ChatInv, ChatsHeld, Held, ChatAt
  <2>10. ChatsHeld' /\ chat' \in [Chats -> ChatState \cup {None}]
    BY <2>2, <2>3, <2>4, <2>7, <2>8, <2>9, ChatsStay
  <2>11. Filled' /\ IsFiniteSet(Sent')
    BY <2>3, <2>5 DEF ChatInv, Filled, Sent
  <2>12. conversation' \in [Conversations -> ConversationRow \cup {None}]
    BY <1>1, <2>2, <2>3
  <2>. QED BY <1>1, <2>3, <2>8, <2>10, <2>11, <2>12 DEF ChatInv, ChatTypeOK
<1>6. ASSUME NEW s \in ChatState \cup {None}, chat' = [chat EXCEPT ![h] = s],
             s # None => s.pc # "create.join", s # None => Held(h)',
             ConversationsStay, MessagesStay,
             UNCHANGED <<participants, lastReadAt, opened, crossed>>,
             unsent' \subseteq Messages,
             conversation' \in [Conversations -> ConversationRow \cup {None}],
             message' \in [Messages -> MessageRow \cup {None}],
             NEW m \in Messages, Sent' \subseteq Sent \cup {m},
             message'[m] # None => participants[message'[m].conversation] # {}
      PROVE  ChatInv' /\ ConversationsStay /\ MessagesStay
  <2>1. \A g \in Chats \ {h} : ChatAt(g, "create.join") => participants'[chat[g].id] = {}
    BY <1>6 DEF ChatInv, ChatsHeld, Held, ChatAt
  <2>2. ChatsHeld' /\ chat' \in [Chats -> ChatState \cup {None}]
    BY <1>6, <2>1, ChatsStay
  <2>3. IsFiniteSet(Sent')
    BY <1>6, FS_AddElement, FS_Subset DEF ChatInv
  <2>4. ASSUME NEW n \in Messages, message'[n] # None
        PROVE  participants[message'[n].conversation] # {}
    <3>1. n \in Sent'
      BY <2>4 DEF Sent
    <3>2. CASE n = m
      BY <1>6, <2>4, <3>2
    <3>3. CASE n # m
      <4>1. n \in Sent
        BY <1>6, <3>1, <3>3
      <4>. QED BY <1>6, <4>1 DEF Sent, MessagesStay, ChatInv, Filled
    <3>. QED BY <3>2, <3>3
  <2>5. Filled'
    BY <1>6, <2>4 DEF Filled, ConversationsStay, ChatInv
  <2>. QED BY <1>1, <1>6, <2>2, <2>3, <2>5 DEF ChatInv, ChatTypeOK
<1>7. ASSUME NEW m \in Messages, SendInsert(h, m)
      PROVE  ChatInv' /\ ConversationsStay /\ MessagesStay
  <2>. DEFINE s == [pc |-> "send.bump", user |-> chat[h].user, id |-> chat[h].id, message |-> m]
              row == NewMessage(chat[h].user, chat[h].id, chat[h].content)
  <2>1. /\ chat[h].user \in Users /\ chat[h].id \in Conversations /\ chat[h].content \in Contents
        /\ chat[h].pc = "send.insert" /\ participants[chat[h].id] # {}
    BY <1>3, <1>7, ChatFields DEF SendInsert, ChatAt, Held
  <2>2. s \in ChatState /\ row \in MessageRow
    BY <2>1 DEF ChatState, NewMessage, MessageRow
  <2>3. /\ chat' = [chat EXCEPT ![h] = s] /\ message' = [message EXCEPT ![m] = row]
        /\ message[m] = None
        /\ UNCHANGED <<conversation, participants, lastReadAt, opened, crossed, unsent>>
    BY <1>7 DEF SendInsert
  <2>4. /\ s.pc = "send.bump" /\ s.id = chat[h].id /\ s.user = chat[h].user /\ s.message = m
        /\ row.sender = chat[h].user /\ row.conversation = chat[h].id
    BY DEF NewMessage
  <2>. HIDE DEF s, row
  <2>5. /\ message'[m] = row /\ row # None
        /\ \A n \in Messages \ {m} : message'[n] = message[n]
    BY <1>1, <2>2, <2>3, ChatRowAssumption
  <2>6. Held(h)'
    BY <1>4, <2>1, <2>2, <2>3, <2>4, <2>5 DEF Held, SendPCs
  <2>7. ConversationsStay /\ MessagesStay
    BY <2>3, <2>5 DEF ConversationsStay, MessagesStay
  <2>8. Sent' \subseteq Sent \cup {m}
    BY <2>5 DEF Sent
  <2>9. message' \in [Messages -> MessageRow \cup {None}]
    BY <1>1, <2>2, <2>3
  <2>10. s.pc # "create.join" /\ participants[message'[m].conversation] # {}
    BY <2>1, <2>4, <2>5
  <2>. QED BY <1>1, <1>6, <2>2, <2>3, <2>6, <2>7, <2>8, <2>9, <2>10
<1>8. ASSUME NEW s \in ChatState \cup {None}, chat' = [chat EXCEPT ![h] = s],
             s # None => s.pc # "create.join", s # None => Held(h)', ConversationsStay,
             conversation' \in [Conversations -> ConversationRow \cup {None}],
             UNCHANGED <<participants, lastReadAt, message, opened, crossed>>,
             unsent' \subseteq Messages, NEW m \in Messages
      PROVE  ChatInv' /\ ConversationsStay /\ MessagesStay
  <2>1. /\ MessagesStay /\ Sent' \subseteq Sent \cup {m}
        /\ message' \in [Messages -> MessageRow \cup {None}]
        /\ message'[m] # None => participants[message'[m].conversation] # {}
    BY <1>1, <1>8 DEF MessagesStay, Sent, ChatInv, Filled
  <2>. QED BY <1>6, <1>8, <2>1
<1>9. CASE CreateJoin(h)
  <2>1. /\ chat' = [chat EXCEPT ![h] = None]
        /\ participants' = [participants EXCEPT ![chat[h].id] = chat[h].members]
        /\ UNCHANGED <<conversation, lastReadAt, message, crossed, unsent>>
        /\ chat[h].pc = "create.join"
    BY <1>9 DEF CreateJoin, EndChat, ChatAt
  <2>2. /\ chat[h].members \in SUBSET Users /\ chat[h].id \in Conversations
        /\ participants[chat[h].id] = {} /\ conversation[chat[h].id] # None
    BY <1>3, <2>1, ChatFields DEF Held
  <2>3. participants' \in ParticipantTable /\ \A c \in Conversations \ {chat[h].id} :
          participants'[c] = participants[c]
    BY <1>1, <2>1, <2>2 DEF ParticipantTable
  <2>4. opened' \subseteq Pairs \X Conversations
    BY <1>1, <1>9, <2>2 DEF CreateJoin, Direct, Pairs
  <2>5. ConversationsStay /\ MessagesStay
    BY <2>1, <2>2, <2>3 DEF ConversationsStay, MessagesStay
  <2>6. ASSUME NEW g \in Chats \ {h}, ChatAt(g, "create.join")
        PROVE  participants'[chat[g].id] = {}
    <3>1. chat[g] \in ChatState /\ Held(g) /\ Apart(g, h)
      BY <1>1, <2>6 DEF ChatInv, ChatsHeld, ChatAt
    <3>2. chat[g].id \in Conversations /\ chat[g].id # chat[h].id /\ participants[chat[g].id] = {}
      BY <1>2, <2>1, <2>6, <3>1, ChatFields DEF Held, Apart, ChatAt
    <3>. QED BY <2>3, <3>2
  <2>7. None \in ChatState \cup {None}
    OBVIOUS
  <2>8. ChatsHeld' /\ chat' \in [Chats -> ChatState \cup {None}]
    BY <2>1, <2>5, <2>6, <2>7, ChatsStay
  <2>9. Filled' /\ IsFiniteSet(Sent')
    <3>1. ASSUME NEW m \in Messages, message[m] # None
          PROVE  message[m].conversation \in Conversations
      BY <1>1, <3>1 DEF MessageRow
    <3>. QED BY <2>1, <2>2, <2>3, <3>1 DEF ChatInv, Filled, Sent
  <2>. QED BY <1>1, <2>1, <2>3, <2>4, <2>5, <2>8, <2>9 DEF ChatInv, ChatTypeOK
<1>10. CASE SendBump(h)
  <2>. DEFINE s == [chat[h] EXCEPT !.pc = "send.publish"]
              c == chat[h].id
              row == [conversation[c] EXCEPT !.lastMessageAt = Now]
  <2>1. /\ chat' = [chat EXCEPT ![h] = s] /\ chat[h].pc = "send.bump"
        /\ conversation' = [conversation EXCEPT ![c] = row]
        /\ UNCHANGED <<participants, lastReadAt, message, opened, crossed, unsent>>
    BY <1>1, <1>10 DEF SendBump, MoveChat, ChatAt
  <2>2. c \in Conversations /\ chat[h].message \in Messages /\ participants[c] # {}
    BY <1>3, <2>1, ChatFields DEF Held, SendPCs
  <2>3. /\ s \in ChatState /\ s.pc = "send.publish" /\ s.id = c /\ s.user = chat[h].user
        /\ s.message = chat[h].message
    <3>1. chat[h] \in [pc : {"send.bump", "send.publish"}, user : Users, id : Conversations,
                       message : Messages]
      BY <1>3, <2>1 DEF ChatState
    <3>. QED BY <3>1 DEF ChatState
  <2>4. conversation[c] \in ConversationRow
    BY <1>1, <2>2 DEF ChatInv, Filled
  <2>5. Now \in Nat
    BY FS_CardinalityType DEF ChatInv, Now, Sent
  <2>6. row \in ConversationRow /\ row.isGroup = conversation[c].isGroup
    BY <2>4, <2>5 DEF ConversationRow
  <2>. HIDE DEF s, row
  <2>7. /\ conversation'[c] = row /\ row # None
        /\ \A d \in Conversations \ {c} : conversation'[d] = conversation[d]
    BY <1>1, <2>1, <2>2, <2>6, ChatRowAssumption
  <2>8. ConversationsStay
    BY <2>1, <2>6, <2>7 DEF ConversationsStay
  <2>9. conversation' \in [Conversations -> ConversationRow \cup {None}]
    BY <1>1, <2>1, <2>6
  <2>10. Held(h)'
    BY <1>3, <1>4, <2>1, <2>3 DEF Held, SendPCs
  <2>11. s.pc # "create.join" /\ unsent' \subseteq Messages
    BY <1>1, <2>1, <2>3
  <2>. QED BY <1>8, <2>1, <2>2, <2>3, <2>8, <2>9, <2>10, <2>11
<1>11. CASE SendPublish(h)
  <2>1. /\ chat' = [chat EXCEPT ![h] = None] /\ chat[h].pc = "send.publish"
        /\ UNCHANGED <<conversation, participants, lastReadAt, message, opened, crossed, unsent>>
    BY <1>11 DEF SendPublish, EndChat, ChatAt
  <2>2. chat[h].message \in Messages
    BY <1>3, <2>1, ChatFields DEF SendPCs
  <2>3. ConversationsStay /\ conversation' \in [Conversations -> ConversationRow \cup {None}]
    BY <1>1, <2>1 DEF ConversationsStay
  <2>4. None \in ChatState \cup {None} /\ unsent' \subseteq Messages
    BY <1>1, <2>1
  <2>. QED BY <1>8, <2>1, <2>2, <2>3, <2>4
<1>12. CASE MessageWrite(h)
  <2>. DEFINE m == chat[h].message
              row == Written(message[m], chat[h].copy, chat[h].changes)
  <2>1. /\ chat' = [chat EXCEPT ![h] = None] /\ chat[h].pc = "message.write"
        /\ message' = [message EXCEPT ![m] = row]
        /\ UNCHANGED <<conversation, participants, lastReadAt, opened, crossed, unsent>>
    BY <1>12 DEF MessageWrite, EndChat, ChatAt
  <2>2. m \in Messages /\ message[m] # None
    BY <1>3, <2>1, ChatFields DEF Held
  <2>3. message[m] \in MessageRow
    BY <1>1, <2>2
  <2>4. /\ chat[h].changes.deleted \in BOOLEAN /\ chat[h].changes.content \in Contents \cup {None}
        /\ chat[h].changes.deleted \/ chat[h].changes.content # None
    BY <1>3, <2>1, ChatFields DEF Held
  <2>5. row \in MessageRow /\ row.sender = message[m].sender /\ row.conversation = message[m].conversation
    BY <2>3, <2>4, WrittenRow
  <2>. HIDE DEF row
  <2>6. /\ message'[m] = row /\ row # None
        /\ \A n \in Messages \ {m} : message'[n] = message[n]
    BY <1>1, <2>1, <2>2, <2>5, ChatRowAssumption
  <2>7. MessagesStay /\ Sent' \subseteq Sent \cup {m}
    BY <2>2, <2>5, <2>6 DEF MessagesStay, Sent
  <2>8. /\ ConversationsStay /\ conversation' \in [Conversations -> ConversationRow \cup {None}]
        /\ message' \in [Messages -> MessageRow \cup {None}] /\ unsent' \subseteq Messages
    BY <1>1, <2>1, <2>2, <2>5 DEF ConversationsStay
  <2>9. participants[message'[m].conversation] # {}
    BY <2>2, <2>5, <2>6 DEF ChatInv, Filled
  <2>10. None \in ChatState \cup {None}
    OBVIOUS
  <2>. QED BY <1>6, <2>1, <2>2, <2>7, <2>8, <2>9, <2>10
<1>13. CASE ChatFail(h)
  <2>1. /\ chat' = [chat EXCEPT ![h] = None]
        /\ UNCHANGED <<conversation, participants, lastReadAt, message, opened, crossed>>
        /\ unsent' = IF chat[h].pc \in {"send.bump", "send.publish"}
                     THEN unsent \cup {chat[h].message} ELSE unsent
    BY <1>13 DEF ChatFail, EndChat
  <2>2. unsent' \subseteq Messages
    BY <1>1, <1>3, <2>1, ChatFields DEF SendPCs
  <2>3. /\ ConversationsStay /\ MessagesStay /\ Filled' /\ IsFiniteSet(Sent')
        /\ \A g \in Chats : ChatAt(g, "create.join") => participants'[chat[g].id] = {}
    BY <2>1, TablesStay
  <2>4. None \in ChatState \cup {None}
    OBVIOUS
  <2>5. ChatsHeld' /\ chat' \in [Chats -> ChatState \cup {None}]
    BY <2>1, <2>3, <2>4, ChatsStay
  <2>. QED BY <1>1, <2>1, <2>2, <2>3, <2>5 DEF ChatInv, ChatTypeOK
<1>14. CASE MarkReadWrite(h)
  <2>1. /\ chat' = [chat EXCEPT ![h] = None] /\ chat[h].pc = "read.write"
        /\ lastReadAt' = [lastReadAt EXCEPT ![chat[h].id][chat[h].user] = Now]
        /\ UNCHANGED <<conversation, participants, message, opened, crossed, unsent>>
    BY <1>14 DEF MarkReadWrite, EndChat, ChatAt
  <2>2. chat[h].id \in Conversations /\ chat[h].user \in Users
    BY <1>3, <2>1, ChatFields
  <2>3. Now \in Nat
    BY FS_CardinalityType DEF ChatInv, Now, Sent
  <2>4. lastReadAt' \in ReadMarks
    BY <1>1, <2>1, <2>2, <2>3 DEF ReadMarks
  <2>5. /\ ConversationsStay /\ MessagesStay /\ Filled' /\ IsFiniteSet(Sent')
        /\ \A g \in Chats : ChatAt(g, "create.join") => participants'[chat[g].id] = {}
    BY <2>1, TablesStay
  <2>6. None \in ChatState \cup {None}
    OBVIOUS
  <2>7. ChatsHeld' /\ chat' \in [Chats -> ChatState \cup {None}]
    BY <2>1, <2>5, <2>6, ChatsStay
  <2>. QED BY <1>1, <2>1, <2>4, <2>5, <2>7 DEF ChatInv, ChatTypeOK
<1>. QED BY <1>5, <1>7, <1>9, <1>10, <1>11, <1>12, <1>13, <1>14 DEF ChatProceeds
-----------------------------------------------------------------------------
(* Both services *)

\* An order of a set's members has each of them once.
Once(sequence) ==
  \A i, j \in DOMAIN sequence : i # j => sequence[i] # sequence[j]

LEMMA Orders ==
  ASSUME NEW S, IsFiniteSet(S), NEW order \in SetToSeqs(S)
  PROVE  /\ order \in Seq(S) /\ Once(order)
         /\ {order[i] : i \in DOMAIN order} = S
<1>. DEFINE n == Cardinality(S)
            D == 1..n
<1>1. n \in Nat /\ IsFiniteSet(D) /\ Cardinality(D) = n
  BY FS_CardinalityType, FS_Interval
<1>2. order \in [D -> S] /\ \A i, j \in D : i # j => order[i] # order[j]
  BY DEF SetToSeqs
<1>. HIDE DEF n
<1>3. order \in Seq(S) /\ Once(order)
  BY <1>1, <1>2 DEF Once
<1>4. order \in Injection(D, S)
  BY <1>2 DEF Injection, IsInjective
<1>5. order \in Surjection(D, S)
  BY <1>1, <1>4, FS_Injection DEF n
<1>6. {order[i] : i \in DOMAIN order} = S
  BY <1>2, <1>5 DEF Surjection
<1>. QED BY <1>3, <1>6

\* What a step is to the notification-service: a step of its own, an event sent to
\* it, or nothing.
Sends(e, category, recipients) ==
  /\ Enqueue(e, Notice(category, recipients))
  /\ UNCHANGED <<notification, preference, unread, consumer, reader, outdated>>
OnceEach == {recipients \in Seq(Users) : Once(recipients)}
NoticeStep ==
  \/ NoticeNext
  \/ UNCHANGED noticeVars
  \/ \E e \in Events, category \in PreferenceCategory, recipients \in OnceEach :
       Sends(e, category, recipients)

BothInv == NoticeInv /\ ChatInv

LEMMA Publish ==
  ASSUME BothInv, NEW h \in Chats, SendPublish(h)
  PROVE  /\ chat[h].message \in Messages /\ chat[h].id \in Conversations /\ Held(h)
         /\ chat[h].pc = "send.publish"
         /\ \E order \in OnceEach :
              /\ Sends(chat[h].message, "messages", order)
              /\ {order[i] : i \in DOMAIN order} = participants[chat[h].id] \ {chat[h].user}
<1>1. /\ chat[h] # None /\ chat[h] \in ChatState /\ chat[h].pc = "send.publish" /\ Held(h)
  BY DEF BothInv, ChatInv, ChatTypeOK, ChatsHeld, SendPublish, ChatAt
<1>2. chat[h].message \in Messages /\ chat[h].id \in Conversations
  BY <1>1, ChatFields DEF SendPCs
<1>. DEFINE others == participants[chat[h].id] \ {chat[h].user}
<1>3. participants[chat[h].id] \in SUBSET Users
  BY <1>2 DEF BothInv, ChatInv, ChatTypeOK, ParticipantTable
<1>4. IsFiniteSet(others) /\ others \subseteq Users
  BY <1>3, MessagingAssumption, FS_Subset
<1>5. PICK order \in SetToSeqs(others) : Enqueue(chat[h].message, MessageSent(order))
  BY DEF SendPublish
<1>. HIDE DEF others
<1>6. order \in OnceEach /\ {order[i] : i \in DOMAIN order} = others
  BY <1>4, <1>5, Orders DEF OnceEach
<1>7. Sends(chat[h].message, "messages", order)
  BY <1>5 DEF Sends, MessageSent, SendPublish
<1>. QED BY <1>1, <1>2, <1>6, <1>7 DEF others

LEMMA NoticeSteps ==
  ASSUME BothInv, [MessagingNext]_<<noticeVars, chatVars>>
  PROVE  NoticeStep
<1>1. ASSUME NEW h \in Chats, ConversationRoutes(h) \/ MessageRoutes(h)
      PROVE  UNCHANGED noticeVars
  BY <1>1 DEF ConversationRoutes, MessageRoutes, CreateLookup, MarkReadFind, SendStart,
       MessageFind
<1>2. ASSUME NEW h \in Chats, ChatProceeds(h)
      PROVE  NoticeStep
  <2>1. CASE SendPublish(h)
    <3>1. "messages" \in PreferenceCategory /\ chat[h].message \in Events
      BY <2>1, Publish, MessagingAssumption DEF PreferenceCategory
    <3>2. \E order \in OnceEach : Sends(chat[h].message, "messages", order)
      BY <2>1, Publish
    <3>. QED BY <3>1, <3>2 DEF NoticeStep
  <2>2. CASE ~SendPublish(h)
    BY <1>2, <2>2 DEF ChatProceeds, CreateInsert, SendInsert, CreateJoin, MarkReadWrite, SendBump,
         MessageWrite, ChatFail, NoticeStep
  <2>. QED BY <2>1, <2>2
<1>3. ASSUME NEW e \in Events \ Messages, OtherServices(e)
      PROVE  NoticeStep
  <2>1. PICK u \in Users, category \in PreferenceCategory : Enqueue(e, Notice(category, <<u>>))
    BY <1>3, OtherServicesSend
  <2>2. <<u>> \in OnceEach
    BY DEF OnceEach, Once
  <2>3. Sends(e, category, <<u>>)
    BY <1>3, <2>1 DEF Sends, OtherServices
  <2>. QED BY <2>2, <2>3 DEF NoticeStep
<1>4. CASE ChatNext
  BY <1>1, <1>2, <1>4 DEF ChatNext, NoticeStep
<1>. QED BY <1>3, <1>4 DEF MessagingNext, NoticeStep

LEMMA NoticeStepKeeps ==
  ASSUME NoticeInv, NoticeStep
  PROVE  NoticeInv'
<1>1. CASE NoticeNext
  BY <1>1, NoticeNextKeeps
<1>2. CASE UNCHANGED noticeVars
  BY <1>2 DEF noticeVars, NoticeInv, NoticeTypeOK, DeliveriesGoOn, DeliveryHolds, CopiesHold,
       Handling, ReadersHold, ReaderHolds, Stored
<1>3. ASSUME NEW e \in Events, NEW category \in PreferenceCategory, NEW recipients \in OnceEach,
             Sends(e, category, recipients)
      PROVE  NoticeInv'
  BY <1>3, EnqueueKeeps DEF Sends, OnceEach
<1>. QED BY <1>1, <1>2, <1>3 DEF NoticeStep

LEMMA ChatUnchanged ==
  ASSUME ChatInv, UNCHANGED chatVars
  PROVE  ChatInv' /\ ConversationsStay /\ MessagesStay
BY DEF chatVars, ChatInv, ChatTypeOK, ChatsHeld, Held, Apart, ChatAt, Filled, Sent,
       ConversationsStay, MessagesStay

LEMMA ChatStepKeeps ==
  ASSUME ChatInv, [MessagingNext]_<<noticeVars, chatVars>>
  PROVE  ChatInv' /\ ConversationsStay /\ MessagesStay
<1>1. CASE UNCHANGED chatVars
  BY <1>1, ChatUnchanged
<1>2. ASSUME NEW h \in Chats, ConversationRoutes(h) \/ MessageRoutes(h)
      PROVE  ChatInv' /\ ConversationsStay /\ MessagesStay
  <2>1. UNCHANGED <<conversation, participants, message>>
    BY <1>2 DEF ConversationRoutes, MessageRoutes, CreateLookup, MarkReadFind, SendStart,
         MessageFind
  <2>. QED BY <1>2, <2>1, TablesStay, ConversationRoutesKeep, MessageRoutesKeep
<1>3. CASE ChatNext
  BY <1>2, <1>3, ChatProceedsKeep DEF ChatNext
<1>. QED BY <1>1, <1>3 DEF MessagingNext

LEMMA BothInit ==
  ASSUME MessagingInit
  PROVE  BothInv
<1>. USE DEF MessagingInit, NoticeInit, ChatInit
<1>1. NoticeTypeOK
  BY DEF NoticeTypeOK, PreferenceTable
<1>2. DeliveriesGoOn /\ ReadersHold
  BY DEF DeliveriesGoOn, ReadersHold
<1>3. Stored = {} /\ Sent = {}
  BY DEF Stored, Sent
<1>4. ChatTypeOK
  BY DEF ChatTypeOK, ParticipantTable, ReadMarks
<1>5. ChatsHeld /\ Filled
  BY DEF ChatsHeld, Filled, Apart, ChatAt
<1>. QED BY <1>1, <1>2, <1>3, <1>4, <1>5, FS_EmptySet DEF BothInv, NoticeInv, ChatInv

\* Users, conversations, messages, notifications and what is in progress have their
\* types; what a request or a delivery is about is there, and its user's.
LEMMA BothCorrect == MessagingSpec => []BothInv
<1>1. BothInv /\ [MessagingNext]_<<noticeVars, chatVars>> => BothInv'
  BY NoticeSteps, NoticeStepKeeps, ChatStepKeeps DEF BothInv
<1>. QED BY BothInit, <1>1, PTL DEF MessagingSpec

\* Tables, messages and requests of messaging-service and notification-service have
\* their types (conversation.service.ts, message.service.ts, consumers.ts).
THEOREM MessagingTypeCorrect == MessagingSpec => []MessagingTypes
<1>1. BothInv => MessagingTypes
  BY DEF BothInv, NoticeInv, ChatInv, MessagingTypes
<1>. QED BY BothCorrect, <1>1, PTL

\* MCSpec only takes turns among the steps: what holds under MessagingSpec holds under it.
THEOREM TurnsAreSteps == MCSpec => MessagingSpec
<1>1. MCNext => MessagingNext
  BY DEF MCNext, MessagingNext
<1>. QED BY <1>1, PTL DEF MCSpec, MessagingSpec
-----------------------------------------------------------------------------
(* Messaging: messages and conversations *)

\* Messages of a step: one is stored, or one is written as its sender asked, or none changes.
LEMMA MessageSteps ==
  ASSUME ChatInv, [MessagingNext]_<<noticeVars, chatVars>>
  PROVE  \/ UNCHANGED message
         \/ \E h \in Chats, m \in Messages : SendInsert(h, m)
         \/ \E h \in Chats : MessageWrite(h)
<1>1. ASSUME NEW h \in Chats, ConversationRoutes(h) \/ MessageRoutes(h)
      PROVE  UNCHANGED message
  BY <1>1 DEF ConversationRoutes, MessageRoutes, CreateLookup, MarkReadFind, SendStart,
       MessageFind
<1>2. ASSUME NEW h \in Chats, ChatProceeds(h),
             ~\E m \in Messages : SendInsert(h, m), ~MessageWrite(h)
      PROVE  UNCHANGED message
  BY <1>2 DEF ChatProceeds, CreateInsert, CreateJoin, MarkReadWrite, SendBump, SendPublish, ChatFail
<1>. QED BY <1>1, <1>2 DEF MessagingNext, ChatNext, chatVars

\* A message changes only by a request of its sender, stays in its conversation, and
\* once deleted stays deleted (message.service.ts: the sender's check of edit and
\* remove, made when the row was loaded).
THEOREM SendersKeepTheirMessages == MessagingSpec => MessagesBelongToTheirSender
<1>. DEFINE Belongs ==
       \A m \in Messages : message[m] # None =>
         /\ message'[m].sender = message[m].sender
         /\ message'[m].conversation = message[m].conversation
         /\ message[m].deleted => message'[m].deleted
         /\ message'[m] # message[m] =>
              \E h \in Chats : /\ ChatAt(h, "message.write")
                               /\ chat[h].message = m /\ chat[h].user = message[m].sender
<1>1. BothInv /\ [MessagingNext]_<<noticeVars, chatVars>> => Belongs
  <2>. SUFFICES ASSUME BothInv, [MessagingNext]_<<noticeVars, chatVars>>,
                       NEW m \in Messages, message[m] # None
                PROVE  /\ message'[m].sender = message[m].sender
                       /\ message'[m].conversation = message[m].conversation
                       /\ message[m].deleted => message'[m].deleted
                       /\ message'[m] # message[m] =>
                            \E h \in Chats : /\ ChatAt(h, "message.write") /\ chat[h].message = m
                                             /\ chat[h].user = message[m].sender
    OBVIOUS
  <2>1. ChatInv /\ message \in [Messages -> MessageRow \cup {None}]
    BY DEF BothInv, ChatInv, ChatTypeOK
  <2>2. CASE UNCHANGED message
    BY <2>2
  <2>3. ASSUME NEW h \in Chats, NEW n \in Messages, SendInsert(h, n)
        PROVE  message'[m] = message[m]
    BY <2>1, <2>3 DEF SendInsert
  <2>4. ASSUME NEW h \in Chats, MessageWrite(h)
        PROVE  \/ message'[m] = message[m]
               \/ /\ ChatAt(h, "message.write") /\ chat[h].message = m
                  /\ chat[h].user = message[m].sender
                  /\ message'[m] = Written(message[m], chat[h].copy, chat[h].changes)
                  /\ chat[h].changes.deleted \in BOOLEAN
                  /\ chat[h].changes.content \in Contents \cup {None}
                  /\ chat[h].changes.deleted \/ chat[h].changes.content # None
    <3>1. chat[h] # None /\ chat[h].pc = "message.write" /\ chat[h] \in ChatState /\ Held(h)
      BY <2>1, <2>4 DEF MessageWrite, ChatAt, ChatInv, ChatTypeOK, ChatsHeld
    <3>2. /\ chat[h].changes.deleted \in BOOLEAN /\ chat[h].message \in Messages
          /\ chat[h].changes.content \in Contents \cup {None}
          /\ chat[h].changes.deleted \/ chat[h].changes.content # None
          /\ message[chat[h].message].sender = chat[h].user
      BY <3>1, ChatFields DEF Held
    <3>3. message' = [message EXCEPT ![chat[h].message] =
                        Written(message[chat[h].message], chat[h].copy, chat[h].changes)]
      BY <2>4 DEF MessageWrite
    <3>. QED BY <2>1, <3>1, <3>2, <3>3 DEF ChatAt
  <2>. QED BY <2>1, <2>2, <2>3, <2>4, MessageSteps, WrittenRow
<1>. QED BY BothCorrect, <1>1, PTL DEF MessagesBelongToTheirSender, MessagingSpec

\* A filled conversation keeps its participants, so that an answer stays right.
OpenedPairs == \A o \in opened : participants[o[2]] = o[1]

\* Two people that no two requests opened a conversation for at once have at most one,
\* and none while a request is creating it.
NonGroups(p) == {c \in DirectConversations(p) : ~conversation[c].isGroup}
OneEach(p) ==
  /\ \A g, h \in Opening(p) : g = h
  /\ Opening(p) # {} => NonGroups(p) = {}
  /\ \A c, d \in NonGroups(p) : c = d
PairInv == OpenedPairs /\ \A p \in Pairs \ crossed : OneEach(p)

LEMMA PairsHaveTwo ==
  \A p \in Pairs : p # {} /\ p \subseteq Users
BY FS_EmptySet DEF Pairs

LEMMA PairsStep ==
  ASSUME ChatInv, PairInv, [MessagingNext]_<<noticeVars, chatVars>>
  PROVE  PairInv'
<1>1. /\ chat \in [Chats -> ChatState \cup {None}]
      /\ conversation \in [Conversations -> ConversationRow \cup {None}]
      /\ participants \in ParticipantTable
      /\ opened \subseteq Pairs \X Conversations /\ crossed \subseteq Pairs
  BY DEF ChatInv, ChatTypeOK
<1>2. ChatInv' /\ ConversationsStay
  BY ChatStepKeeps
<1>3. \A o \in opened : o[1] \in Pairs /\ o[2] \in Conversations /\ participants'[o[2]] = o[1]
  BY <1>1, <1>2, PairsHaveTwo DEF ConversationsStay, PairInv, OpenedPairs
\* The requests for a pair that are under way become no more, and neither do its
\* conversations.
<1>4. ASSUME UNCHANGED opened, crossed \subseteq crossed',
             \A p \in Pairs \ crossed' : Opening(p)' \subseteq Opening(p),
             \A p \in Pairs \ crossed' : NonGroups(p)' = NonGroups(p)
      PROVE  PairInv'
  <2>1. OpenedPairs'
    BY <1>3, <1>4 DEF OpenedPairs
  <2>2. ASSUME NEW p \in Pairs \ crossed' PROVE OneEach(p)'
    <3>1. OneEach(p) /\ Opening(p)' \subseteq Opening(p) /\ NonGroups(p)' = NonGroups(p)
      BY <1>4 DEF PairInv
    <3>. QED BY <3>1 DEF OneEach
  <2>. QED BY <2>1, <2>2 DEF PairInv
<1>5. ASSUME UNCHANGED <<conversation, participants>>
      PROVE  \A p : NonGroups(p)' = NonGroups(p) /\ DirectConversations(p)' = DirectConversations(p)
  BY <1>5 DEF NonGroups, DirectConversations
<1>6. ASSUME NEW h \in Chats, NEW s \in ChatState \cup {None}, chat' = [chat EXCEPT ![h] = s],
             s # None => s.pc \notin {"create.insert", "create.join"}
      PROVE  \A p : Opening(p)' \subseteq Opening(p)
  BY <1>1, <1>6 DEF Opening
<1>7. CASE UNCHANGED chatVars
  BY <1>4, <1>5, <1>7 DEF chatVars, Opening
<1>8. ASSUME NEW h \in Chats, NEW members \in SUBSET Users \ {{}}, NEW asked \in BOOLEAN \cup {None},
             CreateLookup(h, members, asked)
      PROVE  PairInv'
  <2>. DEFINE isGroup == IF asked = None THEN Cardinality(members) > 2 ELSE asked
              found == IF Direct(members, isGroup) THEN DirectConversations(members) ELSE {}
              s == [pc |-> "create.insert", members |-> members, isGroup |-> isGroup]
  <2>1. UNCHANGED <<conversation, participants>> /\ chat[h] = None
    BY <1>8 DEF CreateLookup
  <2>2. CASE found # {}
    <3>1. PICK c \in found : opened' = opened \cup {<<members, c>>}
      BY <1>8, <2>2 DEF CreateLookup
    <3>2. participants[c] = members /\ UNCHANGED <<chat, crossed>>
      BY <1>8, <2>2, <3>1 DEF CreateLookup, DirectConversations
    <3>3. OpenedPairs'
      BY <1>3, <2>1, <3>1, <3>2 DEF OpenedPairs
    <3>4. \A p : Opening(p)' = Opening(p)
      BY <3>2 DEF Opening
    <3>5. \A p \in Pairs \ crossed' : OneEach(p)'
      BY <1>5, <2>1, <3>2, <3>4 DEF OneEach, PairInv
    <3>. QED BY <3>3, <3>5 DEF PairInv
  <2>3. CASE found = {}
    <3>1. /\ chat' = [chat EXCEPT ![h] = s] /\ UNCHANGED opened
          /\ crossed' = IF Direct(members, isGroup) /\ Opening(members) # {}
                        THEN crossed \cup {members} ELSE crossed
      BY <1>8, <2>3 DEF CreateLookup, StartChat
    <3>2. OpenedPairs'
      BY <1>3, <2>1, <3>1 DEF OpenedPairs
    <3>3. ASSUME NEW p \in Pairs \ crossed' PROVE OneEach(p)'
      <4>1. OneEach(p) /\ p \notin crossed /\ NonGroups(p)' = NonGroups(p)
        BY <1>5, <2>1, <3>1, <3>3 DEF PairInv
      <4>2. CASE p = members /\ ~isGroup
        <5>1. Direct(members, isGroup)
          BY <4>2 DEF Pairs, Direct
        <5>2. Opening(p) = {} /\ DirectConversations(p) = {}
          BY <2>3, <3>1, <3>3, <4>2, <5>1
        <5>3. Opening(p)' \subseteq {h} /\ NonGroups(p) = {}
          BY <1>1, <3>1, <5>2 DEF Opening, NonGroups
        <5>. QED BY <4>1, <5>3 DEF OneEach
      <4>3. CASE ~(p = members /\ ~isGroup)
        <5>1. s.members = members /\ s.isGroup = isGroup
          OBVIOUS
        <5>. HIDE DEF s, isGroup, found
        <5>2. \A g \in Chats : chat'[g] = IF g = h THEN s ELSE chat[g]
          BY <1>1, <3>1
        <5>3. Opening(p)' \subseteq Opening(p)
          BY <4>3, <5>1, <5>2 DEF Opening
        <5>. QED BY <4>1, <5>3 DEF OneEach
      <4>. QED BY <4>2, <4>3
    <3>. QED BY <3>2, <3>3 DEF PairInv
  <2>. QED BY <2>2, <2>3
<1>9. ASSUME NEW h \in Chats, NEW c \in Conversations, CreateInsert(h, c)
      PROVE  PairInv'
  <2>. DEFINE s == [pc |-> "create.join", members |-> chat[h].members,
                    isGroup |-> chat[h].isGroup, id |-> c]
  <2>1. /\ chat' = [chat EXCEPT ![h] = s] /\ chat[h] # None /\ chat[h].pc = "create.insert"
        /\ conversation' = [conversation EXCEPT ![c] = NewConversation(chat[h].isGroup)]
        /\ conversation[c] = None /\ UNCHANGED <<participants, opened, crossed>>
    BY <1>9 DEF CreateInsert, ChatAt
  <2>2. participants[c] = {}
    BY <2>1 DEF ChatInv, Filled
  <2>3. \A p \in Pairs : NonGroups(p)' = NonGroups(p)
    BY <1>1, <2>1, <2>2, PairsHaveTwo DEF NonGroups, DirectConversations
  <2>4. s.members = chat[h].members /\ s.isGroup = chat[h].isGroup
    OBVIOUS
  <2>. HIDE DEF s
  <2>5. \A g \in Chats : chat'[g] = IF g = h THEN s ELSE chat[g]
    BY <1>1, <2>1
  <2>6. \A p : Opening(p)' \subseteq Opening(p)
    BY <2>1, <2>4, <2>5 DEF Opening
  <2>. QED BY <1>4, <2>1, <2>3, <2>6
<1>10. ASSUME NEW h \in Chats, CreateJoin(h)
       PROVE  PairInv'
  <2>. DEFINE c == chat[h].id
              members == chat[h].members
  <2>1. /\ chat' = [chat EXCEPT ![h] = None] /\ chat[h] # None /\ chat[h].pc = "create.join"
        /\ participants' = [participants EXCEPT ![c] = members]
        /\ UNCHANGED <<conversation, crossed>>
        /\ opened' = IF Direct(members, chat[h].isGroup) THEN opened \cup {<<members, c>>} ELSE opened
    BY <1>10 DEF CreateJoin, EndChat, ChatAt
  <2>2. /\ c \in Conversations /\ participants[c] = {} /\ conversation[c].isGroup = chat[h].isGroup
        /\ chat[h] \in ChatState
    BY <1>1, <2>1, ChatFields DEF ChatInv, ChatsHeld, Held
  <2>3. participants'[c] = members /\ \A d \in Conversations \ {c} : participants'[d] = participants[d]
    BY <1>1, <2>1, <2>2 DEF ParticipantTable
  <2>4. OpenedPairs'
    BY <1>3, <2>1, <2>3 DEF OpenedPairs
  <2>5. \A g \in Chats : chat'[g] = IF g = h THEN None ELSE chat[g]
    BY <1>1, <2>1
  <2>6. ASSUME NEW p \in Pairs \ crossed' PROVE OneEach(p)'
    <3>1. OneEach(p) /\ p # {}
      BY <2>1, PairsHaveTwo DEF PairInv
    <3>2. Opening(p)' = Opening(p) \ {h}
      BY <2>5 DEF Opening
    <3>3. CASE p = members /\ ~chat[h].isGroup
      <4>1. h \in Opening(p)
        BY <2>1, <3>3 DEF Opening
      <4>2. Opening(p)' = {} /\ NonGroups(p) = {}
        BY <3>1, <3>2, <4>1 DEF OneEach
      <4>3. NonGroups(p)' \subseteq {c}
        BY <2>1, <2>3, <4>2 DEF NonGroups, DirectConversations
      <4>. QED BY <4>2, <4>3 DEF OneEach
    <3>4. CASE ~(p = members /\ ~chat[h].isGroup)
      <4>1. NonGroups(p)' \subseteq NonGroups(p)
        BY <2>1, <2>2, <2>3, <3>4 DEF NonGroups, DirectConversations
      <4>. QED BY <3>1, <3>2, <4>1 DEF OneEach
    <3>. QED BY <3>3, <3>4
  <2>. QED BY <2>4, <2>6 DEF PairInv
<1>11. ASSUME NEW h \in Chats, MessageRoutes(h) \/ \E m \in Messages : SendInsert(h, m)
       PROVE  PairInv'
  <2>1. UNCHANGED <<conversation, participants, opened, crossed>>
    BY <1>11 DEF MessageRoutes, SendStart, MessageFind, SendInsert
  <2>2. chat[h] = None \/ chat[h].pc = "send.insert"
    BY <1>11 DEF MessageRoutes, SendStart, MessageFind, SendInsert, StartChat, ChatAt
  <2>3. \E s : chat' = [chat EXCEPT ![h] = s] /\ s.pc \notin {"create.insert", "create.join"}
    <3>1. ASSUME NEW s, s.pc \notin {"create.insert", "create.join"}, chat' = [chat EXCEPT ![h] = s]
          PROVE  \E t : chat' = [chat EXCEPT ![h] = t] /\ t.pc \notin {"create.insert", "create.join"}
      BY <3>1
    <3>2. ASSUME NEW u \in Users, NEW c \in Conversations, NEW content \in Contents,
                 SendStart(h, u, c, content)
          PROVE  \E t : chat' = [chat EXCEPT ![h] = t] /\ t.pc \notin {"create.insert", "create.join"}
      <4>. DEFINE s == [pc |-> "send.insert", user |-> u, id |-> c, content |-> content]
      <4>1. chat' = [chat EXCEPT ![h] = s] /\ s.pc = "send.insert"
        BY <3>2 DEF SendStart, StartChat
      <4>. HIDE DEF s
      <4>. QED BY <3>1, <4>1
    <3>3. ASSUME NEW u \in Users, NEW m \in Messages, NEW changes, MessageFind(h, u, m, changes)
          PROVE  \E t : chat' = [chat EXCEPT ![h] = t] /\ t.pc \notin {"create.insert", "create.join"}
      <4>. DEFINE s == [pc |-> "message.write", user |-> u, message |-> m, copy |-> message[m],
                        changes |-> changes]
      <4>1. chat' = [chat EXCEPT ![h] = s] /\ s.pc = "message.write"
        BY <3>3 DEF MessageFind, StartChat
      <4>. HIDE DEF s
      <4>. QED BY <3>1, <4>1
    <3>4. ASSUME NEW m \in Messages, SendInsert(h, m)
          PROVE  \E t : chat' = [chat EXCEPT ![h] = t] /\ t.pc \notin {"create.insert", "create.join"}
      <4>. DEFINE s == [pc |-> "send.bump", user |-> chat[h].user, id |-> chat[h].id, message |-> m]
      <4>1. chat' = [chat EXCEPT ![h] = s] /\ s.pc = "send.bump"
        BY <3>4 DEF SendInsert
      <4>. HIDE DEF s
      <4>. QED BY <3>1, <4>1
    <3>. QED BY <1>11, <3>2, <3>3, <3>4 DEF MessageRoutes
  <2>4. \A p : Opening(p)' \subseteq Opening(p)
    BY <1>1, <2>3 DEF Opening
  <2>. QED BY <1>4, <1>5, <2>1, <2>4
<1>12. ASSUME NEW h \in Chats, MarkReadWrite(h) \/ SendPublish(h) \/ MessageWrite(h) \/ ChatFail(h)
       PROVE  PairInv'
  <2>1. UNCHANGED <<conversation, participants, opened, crossed>> /\ chat' = [chat EXCEPT ![h] = None]
    BY <1>12 DEF MarkReadWrite, SendPublish, MessageWrite, ChatFail, EndChat
  <2>2. \A p : Opening(p)' \subseteq Opening(p)
    BY <1>1, <2>1 DEF Opening
  <2>. QED BY <1>4, <1>5, <2>1, <2>2
<1>13. ASSUME NEW h \in Chats, SendBump(h)
       PROVE  PairInv'
  <2>1. /\ UNCHANGED <<participants, opened, crossed>> /\ chat[h].pc = "send.bump" /\ chat[h] # None
        /\ chat' = [chat EXCEPT ![h].pc = "send.publish"]
        /\ conversation' = [conversation EXCEPT ![chat[h].id].lastMessageAt = Now]
    BY <1>13 DEF SendBump, MoveChat, ChatAt
  <2>2. chat[h] \in ChatState /\ chat[h].id \in Conversations /\ participants[chat[h].id] # {}
    BY <1>1, <2>1, ChatFields DEF ChatInv, ChatsHeld, Held, SendPCs
  <2>3. [chat[h] EXCEPT !.pc = "send.publish"].pc = "send.publish"
    BY <2>1, <2>2 DEF ChatState
  <2>4. \A p : Opening(p)' \subseteq Opening(p)
    BY <1>1, <2>1, <2>3 DEF Opening
  <2>5. conversation[chat[h].id] \in ConversationRow
    BY <1>1, <2>2 DEF ChatInv, Filled
  <2>6. [conversation[chat[h].id] EXCEPT !.lastMessageAt = Now].isGroup = conversation[chat[h].id].isGroup
    BY <2>5 DEF ConversationRow
  <2>7. \A c \in Conversations : conversation'[c].isGroup = conversation[c].isGroup
    BY <1>1, <2>1, <2>2, <2>6
  <2>8. \A p : NonGroups(p)' = NonGroups(p)
    BY <2>1, <2>7 DEF NonGroups, DirectConversations
  <2>. QED BY <1>4, <2>1, <2>4, <2>8
<1>14. ASSUME NEW h \in Chats, NEW c \in Conversations, NEW u \in Users, MarkReadFind(h, c, u)
       PROVE  PairInv'
  <2>. DEFINE s == [pc |-> "read.write", user |-> u, id |-> c]
  <2>1. /\ UNCHANGED <<conversation, participants, opened, crossed>>
        /\ chat' = [chat EXCEPT ![h] = s]
    BY <1>14 DEF MarkReadFind, StartChat
  <2>2. s \in ChatState /\ s.pc = "read.write"
    BY DEF ChatState
  <2>. HIDE DEF s
  <2>3. \A p : Opening(p)' \subseteq Opening(p)
    BY <1>6, <2>1, <2>2
  <2>. QED BY <1>4, <1>5, <2>1, <2>3
<1>15. ASSUME NEW h \in Chats, ConversationRoutes(h) \/ MessageRoutes(h) \/ ChatProceeds(h)
       PROVE  PairInv'
  BY <1>8, <1>9, <1>10, <1>11, <1>12, <1>13, <1>14, <1>15 DEF ConversationRoutes, ChatProceeds
<1>. QED BY <1>7, <1>15 DEF MessagingNext, ChatNext

\* A request for a direct conversation is answered with one whose participants are the
\* two and nobody else, and two people have one such conversation unless two requests
\* crossed (conversation.service.ts create, participant.repository.ts
\* findDirectConversationId).
THEOREM PairsKeepOneConversation == MessagingSpec => []DirectConversationsAreKept
<1>1. MessagingInit => PairInv
  BY PairsHaveTwo DEF MessagingInit, ChatInit, PairInv, OpenedPairs, OneEach, Opening, NonGroups,
       DirectConversations
<1>2. BothInv /\ PairInv /\ [MessagingNext]_<<noticeVars, chatVars>> => PairInv'
  BY PairsStep DEF BothInv
<1>3. PairInv => DirectConversationsAreKept
  <2>. SUFFICES ASSUME PairInv, NEW p \in Pairs \ crossed
                PROVE  Cardinality({c \in DirectConversations(p) : ~conversation[c].isGroup}) <= 1
    BY DEF PairInv, OpenedPairs, DirectConversationsAreKept
  <2>1. \A c, d \in NonGroups(p) : c = d
    BY DEF PairInv, OneEach
  <2>2. NonGroups(p) = {} \/ \E c : NonGroups(p) = {c}
    BY <2>1
  <2>3. CASE NonGroups(p) = {}
    BY <2>3, FS_EmptySet DEF NonGroups
  <2>4. ASSUME NEW c, NonGroups(p) = {c} PROVE Cardinality(NonGroups(p)) <= 1
    <3>1. Cardinality(NonGroups(p)) = 1
      BY <2>4, FS_Singleton
    <3>. QED BY <3>1
  <2>. QED BY <2>2, <2>3, <2>4 DEF NonGroups
<1>. QED BY <1>1, <1>2, <1>3, BothCorrect, PTL DEF MessagingSpec
-----------------------------------------------------------------------------
(* NotificationService: who is notified of what *)

\* Recipients a delivery has still to serve, by their place among the recipients.
Ahead(d, i) == \/ d.pc \in {"ask", "create"} /\ d.at <= i
               \/ d.pc = "invalidate" /\ d.at < i
ToCome(e, i) == {k \in Handling(e) : Ahead(consumer[k], i)}

\* A recipient has a row for each run of the handler at most, those that are still to
\* come to it included.
Bounded(e) ==
  \A i \in DOMAIN event[e].recipients :
    Cardinality(Rows(e, event[e].recipients[i])) + Cardinality(ToCome(e, i)) <= event[e].runs
\* While copies of the event are left, who has not changed its mind wants what it
\* wanted; nobody else has a row or is about to have one.
Wanted(e) ==
  /\ event[e].entitled \cup event[e].wavered \subseteq RecipientsOf(e)
  /\ event[e].copies > 0 => \A u \in RecipientsOf(e) \ event[e].wavered :
       AllowsInApp(preference, u, event[e].category) <=> u \in event[e].entitled
  /\ \A u \in Users \ (event[e].entitled \cup event[e].wavered) : Rows(e, u) = {}
  /\ \A k \in Handling(e) : consumer[k].pc = "create" =>
       Recipient(k) \in event[e].entitled \cup event[e].wavered
\* Who wanted it has a row once a delivery has passed it, and once the event is acked.
Served(e) ==
  \A i \in DOMAIN event[e].recipients :
    (event[e].acked \/ \E k \in Handling(e) : ~Ahead(consumer[k], i)) =>
      (event[e].recipients[i] \in event[e].entitled \ event[e].wavered =>
         Rows(e, event[e].recipients[i]) # {})
Announces(e) ==
  IF event[e] = None THEN \A u \in Users : Rows(e, u) = {}
  ELSE Once(event[e].recipients) /\ Bounded(e) /\ Wanted(e) /\ Served(e)

\* What stays of an event while requests read, mark and prefer.
EventHeld(e) ==
  /\ EventStays(e)
  /\ event'[e].copies = event[e].copies /\ event'[e].acked = event[e].acked
  /\ event'[e].runs = event[e].runs /\ event[e].wavered \subseteq event'[e].wavered
  /\ event'[e].wavered \subseteq event[e].wavered \cup RecipientsOf(e)
  /\ event[e].copies > 0 => \A u \in RecipientsOf(e) \ event'[e].wavered :
       AllowsInApp(preference', u, event[e].category) <=> AllowsInApp(preference, u, event[e].category)

LEMMA RowsOfKept ==
  ASSUME \A n \in Notes :
           /\ notification'[n] # None <=> notification[n] # None
           /\ notification[n] # None => /\ notification'[n].event = notification[n].event
                                        /\ notification'[n].recipient = notification[n].recipient
  PROVE  \A e, u : Rows(e, u)' = Rows(e, u)
BY DEF Rows

LEMMA ReadersLeave ==
  ASSUME NoticeInv,
         \/ \E r \in Readers : NotificationRoutes(r) \/ ReaderProceeds(r)
         \/ \E u \in Users : UnreadExpires(u)
  PROVE  /\ UNCHANGED consumer /\ \A e, u : Rows(e, u)' = Rows(e, u)
         /\ \A e \in Events : IF event[e] = None THEN event'[e] = None ELSE EventHeld(e)
<1>1. /\ event \in [Events -> EventRecord \cup {None}] /\ preference \in PreferenceTable
      /\ reader \in [Readers -> ReaderState \cup {None}]
      /\ notification \in [Notes -> NotificationRow \cup {None}]
  BY DEF NoticeInv, NoticeTypeOK
<1>2. CASE Otherwise
  <2>1. \A e, u : Rows(e, u)' = Rows(e, u)
    BY <1>2 DEF Otherwise, Rows
  <2>. QED BY <1>2, <2>1 DEF Otherwise, EventHeld, EventStays
<1>3. ASSUME UNCHANGED <<event, preference, consumer>>, NEW u \in Users, NEW Marked \in SUBSET Notes,
             notification' = [n \in Notes |-> IF n \in Marked
                                              THEN [notification[n] EXCEPT !.isRead = TRUE]
                                              ELSE notification[n]],
             \A n \in Marked : notification[n] # None
      PROVE  /\ \A e, v : Rows(e, v)' = Rows(e, v)
             /\ \A e \in Events : IF event[e] = None THEN event'[e] = None ELSE EventHeld(e)
  <2>1. ASSUME NEW n \in Notes
        PROVE  /\ notification'[n] # None <=> notification[n] # None
               /\ notification[n] # None => /\ notification'[n].event = notification[n].event
                                            /\ notification'[n].recipient = notification[n].recipient
    <3>1. ASSUME notification[n] \in NotificationRow
          PROVE  LET row == [notification[n] EXCEPT !.isRead = TRUE]
                 IN  /\ row \in NotificationRow /\ row.event = notification[n].event
                     /\ row.recipient = notification[n].recipient
      BY <3>1 DEF NotificationRow
    <3>. QED BY <1>1, <1>3, <3>1, NoticeRowAssumption
  <2>2. \A e, v : Rows(e, v)' = Rows(e, v)
    BY <2>1, RowsOfKept
  <2>. QED BY <1>3, <2>2 DEF EventHeld, EventStays
<1>4. ASSUME NEW r \in Readers, NEW u \in Users, MarkAllRead(r, u)
      PROVE  /\ UNCHANGED consumer /\ \A e, v : Rows(e, v)' = Rows(e, v)
             /\ \A e \in Events : IF event[e] = None THEN event'[e] = None ELSE EventHeld(e)
  <2>. DEFINE Marked == {n \in Notes : notification[n] # None /\ notification[n].recipient = u}
  <2>1. notification' = [n \in Notes |-> IF n \in Marked THEN [notification[n] EXCEPT !.isRead = TRUE]
                                         ELSE notification[n]]
    BY <1>4 DEF MarkAllRead
  <2>2. Marked \in SUBSET Notes /\ \A n \in Marked : notification[n] # None
    OBVIOUS
  <2>3. UNCHANGED <<event, preference, consumer>>
    BY <1>4 DEF MarkAllRead
  <2>. HIDE DEF Marked
  <2>. QED BY <1>3, <2>1, <2>2, <2>3
<1>5. ASSUME NEW r \in Readers, MarkWrite(r)
      PROVE  /\ UNCHANGED consumer /\ \A e, v : Rows(e, v)' = Rows(e, v)
             /\ \A e \in Events : IF event[e] = None THEN event'[e] = None ELSE EventHeld(e)
  <2>. DEFINE Marked == {reader[r].note}
  <2>1. /\ reader[r].note \in Notes /\ notification[reader[r].note] # None
        /\ reader[r].user \in Users
    BY <1>1, <1>5, ReaderFields DEF MarkWrite, ReaderAt, NoticeInv, ReadersHold, ReaderHolds
  <2>2. notification' = [notification EXCEPT ![reader[r].note] =
                          [notification[reader[r].note] EXCEPT !.isRead = TRUE]]
    BY <1>5 DEF MarkWrite
  <2>3. notification' = [n \in Notes |-> IF n \in Marked THEN [notification[n] EXCEPT !.isRead = TRUE]
                                         ELSE notification[n]]
    BY <1>1, <2>1, <2>2
  <2>4. Marked \in SUBSET Notes /\ \A n \in Marked : notification[n] # None
    BY <2>1
  <2>5. UNCHANGED <<event, preference, consumer>>
    BY <1>5 DEF MarkWrite
  <2>. HIDE DEF Marked
  <2>. QED BY <1>3, <2>1, <2>3, <2>4, <2>5
<1>6. ASSUME NEW r \in Readers, PreferenceCreate(r)
      PROVE  /\ UNCHANGED consumer /\ \A e, v : Rows(e, v)' = Rows(e, v)
             /\ \A e \in Events : IF event[e] = None THEN event'[e] = None ELSE EventHeld(e)
  <2>1. UNCHANGED <<event, notification, consumer>>
    BY <1>6 DEF PreferenceCreate
  <2>2. preference' = preference \/ (preference[reader[r].user] = None /\
          preference' = [preference EXCEPT ![reader[r].user] = DefaultFlags])
    BY <1>6 DEF PreferenceCreate
  <2>3. \A f \in Flags : DefaultFlags[f]
    BY DEF DefaultFlags
  <2>4. DefaultFlags # None
    BY NotificationAssumption DEF DefaultFlags, PreferenceFlags
  <2>5. \A v \in Users, category \in PreferenceCategory :
          AllowsInApp(preference', v, category) <=> AllowsInApp(preference, v, category)
    BY <1>1, <2>2, <2>3, <2>4 DEF AllowsInApp, PreferenceTable, Flags
  <2>6. \A e, v : Rows(e, v)' = Rows(e, v)
    BY <2>1 DEF Rows
  <2>7. ASSUME NEW e \in Events, event[e] # None
        PROVE  RecipientsOf(e) \subseteq Users /\ event[e].category \in PreferenceCategory
    BY <1>1, <2>7 DEF RecipientsOf, EventRecord
  <2>. QED BY <2>1, <2>5, <2>6, <2>7 DEF EventHeld, EventStays
<1>7. ASSUME NEW r \in Readers, PreferenceWrite(r)
      PROVE  /\ UNCHANGED consumer /\ \A e, v : Rows(e, v)' = Rows(e, v)
             /\ \A e \in Events : IF event[e] = None THEN event'[e] = None ELSE EventHeld(e)
  <2>. DEFINE u == reader[r].user
              flags == Switched(preference[u], reader[r].copy, reader[r].changes)
  <2>1. UNCHANGED <<notification, consumer>> /\ preference' = [preference EXCEPT ![u] = flags]
    BY <1>7 DEF PreferenceWrite
  <2>2. event' = [e \in Events |->
              IF event[e] # None /\ event[e].copies > 0 /\ u \in RecipientsOf(e)
                 /\ flags # preference[u]
              THEN [event[e] EXCEPT !.wavered = @ \cup {u}] ELSE event[e]]
    BY <1>7 DEF PreferenceWrite
  <2>. HIDE DEF flags
  <2>3. \A e, v : Rows(e, v)' = Rows(e, v)
    BY <2>1 DEF Rows
  <2>4. ASSUME NEW e \in Events, event[e] # None
        PROVE  EventHeld(e)
    <3>1. event[e] \in EventRecord /\ RecipientsOf(e) \subseteq Users
      BY <1>1, <2>4 DEF RecipientsOf, EventRecord
    <3>2. CASE event[e].copies > 0 /\ u \in RecipientsOf(e) /\ flags # preference[u]
      <4>1. event'[e] = [event[e] EXCEPT !.wavered = event[e].wavered \cup {u}]
        BY <2>2, <2>4, <3>2
      <4>2. /\ event'[e].recipients = event[e].recipients /\ event'[e].category = event[e].category
            /\ event'[e].entitled = event[e].entitled /\ event'[e].copies = event[e].copies
            /\ event'[e].acked = event[e].acked /\ event'[e].runs = event[e].runs
            /\ event'[e].wavered = event[e].wavered \cup {u} /\ event'[e] \in EventRecord
        BY <3>1, <3>2, <4>1 DEF EventRecord
      <4>3. \A v \in Users \ {u} : preference'[v] = preference[v]
        BY <1>1, <2>1 DEF PreferenceTable
      <4>. QED BY <3>1, <3>2, <4>2, <4>3, NoticeRowAssumption DEF EventHeld, EventStays, AllowsInApp
    <3>3. CASE ~(event[e].copies > 0 /\ u \in RecipientsOf(e) /\ flags # preference[u])
      <4>1. event'[e] = event[e]
        BY <2>2, <3>3
      <4>2. event[e].copies > 0 => \A v \in RecipientsOf(e) : preference'[v] = preference[v]
        BY <1>1, <2>1, <3>1, <3>3 DEF PreferenceTable
      <4>. QED BY <2>4, <4>1, <4>2 DEF EventHeld, EventStays, AllowsInApp
    <3>. QED BY <3>2, <3>3
  <2>5. \A e \in Events : event[e] = None => event'[e] = None
    BY <2>2
  <2>. QED BY <2>1, <2>3, <2>4, <2>5
<1>8. ASSUME NEW r \in Readers, NotificationRoutes(r) \/ ReaderProceeds(r)
      PROVE  /\ UNCHANGED consumer /\ \A e, v : Rows(e, v)' = Rows(e, v)
             /\ \A e \in Events : IF event[e] = None THEN event'[e] = None ELSE EventHeld(e)
  <2>1. CASE ~Otherwise
    <3>1. \/ MarkWrite(r) \/ PreferenceCreate(r) \/ PreferenceWrite(r)
          \/ \E u \in Users : MarkAllRead(r, u)
      BY <1>8, <2>1 DEF NotificationRoutes, ReaderProceeds, UnreadGet, UnreadCount, UnreadSet,
           MarkFind, PreferenceFind, ReaderInvalidates, ReaderFail
    <3>. QED BY <1>4, <1>5, <1>6, <1>7, <3>1
  <2>. QED BY <1>2, <2>1 DEF Otherwise
<1>9. ASSUME NEW u \in Users, UnreadExpires(u)
      PROVE  Otherwise
  BY <1>9 DEF UnreadExpires
<1>. QED BY <1>2, <1>8, <1>9 DEF Otherwise

\* The places a delivery is in, and how it gets on.
LEMMA DeliveryFields ==
  ASSUME NoticeInv, NEW k \in Consumers, consumer[k] # None
  PROVE  /\ consumer[k] \in Delivery /\ consumer[k].event \in Events /\ consumer[k].at \in Nat \ {0}
         /\ consumer[k].pc \in {"ask", "create", "invalidate"}
         /\ event[consumer[k].event] # None /\ event[consumer[k].event] \in EventRecord
         /\ event[consumer[k].event].recipients \in Seq(Users)
         /\ k \in Handling(consumer[k].event) /\ event[consumer[k].event].copies > 0
         /\ ~AllAsked(k) => /\ consumer[k].at \in DOMAIN event[consumer[k].event].recipients
                            /\ Recipient(k) \in RecipientsOf(consumer[k].event)
                            /\ Recipient(k) \in Users
         /\ consumer[k].pc \in {"create", "invalidate"} => ~AllAsked(k)
<1>1. consumer[k] \in Delivery
  BY DEF NoticeInv, NoticeTypeOK
<1>2. /\ consumer[k].event \in Events /\ consumer[k].at \in Nat \ {0}
      /\ consumer[k].pc \in {"ask", "create", "invalidate"}
  BY <1>1 DEF Delivery
<1>3. DeliveryHolds(k)
  BY DEF NoticeInv, DeliveriesGoOn
<1>4. event[consumer[k].event] # None /\ event[consumer[k].event] \in EventRecord
  BY <1>2, <1>3 DEF NoticeInv, NoticeTypeOK, DeliveryHolds
<1>5. event[consumer[k].event].recipients \in Seq(Users) /\ event[consumer[k].event].copies \in Nat
  BY <1>4 DEF EventRecord
<1>6. k \in Handling(consumer[k].event)
  BY DEF Handling
<1>7. event[consumer[k].event].copies > 0
  <2>1. CopiesHold(consumer[k].event)
    BY <1>2, <1>4 DEF NoticeInv, DeliveriesGoOn
  <2>2. Cardinality(Handling(consumer[k].event)) \in Nat /\ Cardinality(Handling(consumer[k].event)) # 0
    BY <1>6, <2>1, FS_CardinalityType, FS_EmptySet DEF CopiesHold
  <2>. QED BY <1>5, <2>1, <2>2 DEF CopiesHold
<1>8. ~AllAsked(k) => consumer[k].at \in DOMAIN event[consumer[k].event].recipients
  BY <1>2, <1>5 DEF AllAsked
<1>9. ~AllAsked(k) => Recipient(k) \in RecipientsOf(consumer[k].event) /\ Recipient(k) \in Users
  BY <1>5, <1>8 DEF Recipient, RecipientsOf
<1>10. consumer[k].pc \in {"create", "invalidate"} => ~AllAsked(k)
  BY <1>2, <1>3, <1>5 DEF DeliveryHolds, AllAsked
<1>. QED BY <1>1, <1>2, <1>4, <1>5, <1>6, <1>7, <1>8, <1>9, <1>10

\* A delivery goes on with the same event, past recipients it served or who want no
\* notification.
Advances(k, d) ==
  /\ consumer[k] # None /\ d \in Delivery /\ d.event = consumer[k].event
  /\ consumer' = [consumer EXCEPT ![k] = d]
  /\ UNCHANGED <<event, preference, notification>>
  /\ d.pc = "create" => /\ d.at = consumer[k].at /\ ~AllAsked(k)
                        /\ AllowsInApp(preference, Recipient(k), event[d.event].category)
  /\ \A i \in Nat :
       /\ Ahead(d, i) => Ahead(consumer[k], i)
       /\ ~Ahead(d, i) /\ Ahead(consumer[k], i) =>
            /\ i = consumer[k].at /\ ~AllAsked(k)
            /\ ~AllowsInApp(preference, Recipient(k), event[d.event].category)
Ends(k) ==
  /\ consumer[k] # None /\ consumer' = [consumer EXCEPT ![k] = None]
  /\ UNCHANGED <<preference, notification>>
  /\ LET e == consumer[k].event
     IN  \/ UNCHANGED event
         \/ event' = [event EXCEPT ![e].copies = @ - 1]
         \/ /\ event' = [event EXCEPT ![e].acked = TRUE, ![e].copies = @ - 1]
            /\ consumer[k].pc = "ask" /\ AllAsked(k)

LEMMA Turns ==
  ASSUME NoticeInv, NEW k \in Consumers, RegisterConsumers(k)
  PROVE  \/ \E e \in Events : Deliver(k, e)
         \/ \E n \in Notes : NoticeCreate(k, n)
         \/ \E d \in Delivery : Advances(k, d)
         \/ Ends(k)
<1>1. CASE NoticeAsk(k)
  <2>. DEFINE allowed == AllowsInApp(preference, Recipient(k), event[consumer[k].event].category)
              asked == [consumer[k] EXCEPT !.pc = "create"]
              next == [consumer[k] EXCEPT !.pc = "ask", !.at = consumer[k].at + 1]
  <2>1. /\ consumer[k] # None /\ consumer[k].pc = "ask" /\ ~AllAsked(k)
        /\ UNCHANGED <<event, notification, preference>>
        /\ consumer' = [consumer EXCEPT ![k] = IF allowed THEN asked ELSE next]
    BY <1>1 DEF NoticeAsk, ConsumerAt, NextRecipient
  <2>2. consumer[k] \in Delivery /\ consumer[k].at \in Nat \ {0} /\ consumer[k].at + 1 \in Nat \ {0}
    BY <2>1, DeliveryFields
  <2>3. /\ asked \in Delivery /\ asked.pc = "create" /\ asked.event = consumer[k].event
        /\ asked.at = consumer[k].at
    BY <2>2 DEF Delivery
  <2>4. /\ next \in Delivery /\ next.pc = "ask" /\ next.event = consumer[k].event
        /\ next.at = consumer[k].at + 1
    BY <2>2 DEF Delivery
  <2>. HIDE DEF asked, next
  <2>5. CASE allowed
    <3>1. \A i \in Nat : Ahead(asked, i) <=> Ahead(consumer[k], i)
      BY <2>1, <2>3 DEF Ahead
    <3>. QED BY <2>1, <2>3, <2>5, <3>1 DEF Advances
  <2>6. CASE ~allowed
    <3>1. \A i \in Nat : /\ Ahead(next, i) => Ahead(consumer[k], i)
                         /\ ~Ahead(next, i) /\ Ahead(consumer[k], i) => i = consumer[k].at
      BY <2>1, <2>2, <2>4 DEF Ahead
    <3>. QED BY <2>1, <2>4, <2>6, <3>1 DEF Advances
  <2>. QED BY <2>5, <2>6
<1>2. CASE NoticeInvalidate(k)
  <2>. DEFINE next == [consumer[k] EXCEPT !.pc = "ask", !.at = consumer[k].at + 1]
  <2>1. /\ consumer[k] # None /\ consumer[k].pc = "invalidate"
        /\ UNCHANGED <<event, notification, preference>>
        /\ consumer' = [consumer EXCEPT ![k] = next]
    BY <1>2 DEF NoticeInvalidate, ConsumerAt, NextRecipient
  <2>2. consumer[k] \in Delivery /\ consumer[k].at \in Nat \ {0} /\ consumer[k].at + 1 \in Nat \ {0}
    BY <2>1, DeliveryFields
  <2>3. /\ next \in Delivery /\ next.pc = "ask" /\ next.event = consumer[k].event
        /\ next.at = consumer[k].at + 1
    BY <2>2 DEF Delivery
  <2>. HIDE DEF next
  <2>4. \A i \in Nat : Ahead(next, i) <=> Ahead(consumer[k], i)
    BY <2>1, <2>2, <2>3 DEF Ahead
  <2>. QED BY <2>1, <2>3, <2>4 DEF Advances
<1>3. CASE NoticeAck(k)
  BY <1>3 DEF NoticeAck, ConsumerAt, Ends
<1>4. CASE NoticeFail(k)
  BY <1>4 DEF NoticeFail, Ends
<1>. QED BY <1>1, <1>2, <1>3, <1>4 DEF RegisterConsumers

\* What is counted for an event is finite.
LEMMA CountsAreNumbers ==
  ASSUME NoticeInv, NEW e \in Events
  PROVE  /\ \A u : IsFiniteSet(Rows(e, u)) /\ Cardinality(Rows(e, u)) \in Nat
         /\ event[e] # None => \A i : IsFiniteSet(ToCome(e, i)) /\ Cardinality(ToCome(e, i)) \in Nat
<1>1. \A u : Rows(e, u) \subseteq Stored
  BY DEF Rows, Stored
<1>2. \A i : ToCome(e, i) \subseteq Handling(e)
  BY DEF ToCome
<1>3. event[e] # None => IsFiniteSet(Handling(e))
  BY DEF NoticeInv, DeliveriesGoOn, CopiesHold
<1>. QED BY <1>1, <1>2, <1>3, FS_Subset, FS_CardinalityType DEF NoticeInv

\* An event that is left alone, or whose deliveries end, keeps what was true of it.
LEMMA AnnouncesStays ==
  ASSUME NoticeInv, NEW e \in Events, event[e] # None, Announces(e), EventHeld(e),
         \A u : Rows(e, u)' = Rows(e, u),
         Handling(e)' \subseteq Handling(e),
         \A k \in Consumers : k \in Handling(e)' => consumer'[k] = consumer[k]
  PROVE  Announces(e)'
<1>1. /\ event'[e] # None /\ event'[e].recipients = event[e].recipients
      /\ event'[e].runs = event[e].runs /\ event'[e].category = event[e].category
      /\ event'[e].entitled = event[e].entitled /\ event'[e].copies = event[e].copies
      /\ event'[e].acked = event[e].acked /\ event[e].wavered \subseteq event'[e].wavered
      /\ event'[e].wavered \subseteq event[e].wavered \cup RecipientsOf(e)
      /\ RecipientsOf(e)' = RecipientsOf(e)
  BY DEF EventHeld, EventStays, RecipientsOf
<1>2. \A i \in Nat : ToCome(e, i)' \subseteq ToCome(e, i)
  BY DEF ToCome, Handling
<1>3. Bounded(e)'
  <2>1. event[e].recipients \in Seq(Users) /\ event[e].runs \in Nat
    BY DEF NoticeInv, NoticeTypeOK, EventRecord
  <2>2. ASSUME NEW i \in DOMAIN event[e].recipients, NEW u, u = event[e].recipients[i]
        PROVE  Cardinality(Rows(e, u)') + Cardinality(ToCome(e, i)') <= event[e].runs
    <3>1. /\ IsFiniteSet(ToCome(e, i)) /\ Cardinality(ToCome(e, i)) \in Nat
          /\ Cardinality(Rows(e, u)) \in Nat
      BY CountsAreNumbers
    <3>2. Cardinality(ToCome(e, i)') <= Cardinality(ToCome(e, i)) /\ Cardinality(ToCome(e, i)') \in Nat
      <4>1. ToCome(e, i)' \subseteq ToCome(e, i)
        BY <1>2, <2>1
      <4>. QED BY <3>1, <4>1, FS_Subset, FS_CardinalityType
    <3>3. Cardinality(Rows(e, u)) + Cardinality(ToCome(e, i)) <= event[e].runs
      BY <2>2 DEF Announces, Bounded
    <3>. QED BY <2>1, <3>1, <3>2, <3>3
  <2>. QED BY <1>1, <2>2 DEF Bounded
<1>4. Wanted(e)'
  BY <1>1 DEF Announces, Wanted, EventHeld, Recipient, Handling
<1>5. Served(e)'
  BY <1>1 DEF Announces, Served, Handling
<1>. QED BY <1>1, <1>3, <1>4, <1>5 DEF Announces

\* An event no delivery of which moves, and that stays what it is.
LEMMA AnnouncesElsewhere ==
  ASSUME NoticeInv, NEW e \in Events, Announces(e), event'[e] = event[e], UNCHANGED preference,
         NEW k \in Consumers, consumer[k] # None => consumer[k].event # e,
         consumer'[k] # None => consumer'[k].event # e,
         \A j \in Consumers \ {k} : consumer'[j] = consumer[j],
         \A u : Rows(e, u)' = Rows(e, u)
  PROVE  Announces(e)'
<1>1. Handling(e)' = Handling(e) /\ \A j \in Handling(e) : consumer'[j] = consumer[j]
  BY DEF Handling
<1>2. CASE event[e] = None
  BY <1>2 DEF Announces
<1>3. CASE event[e] # None
  <2>1. EventHeld(e)
    BY <1>3 DEF EventHeld, EventStays
  <2>2. \A j \in Consumers : j \in Handling(e)' => consumer'[j] = consumer[j]
    BY <1>1
  <2>. QED BY <1>1, <1>3, <2>1, <2>2, AnnouncesStays
<1>. QED BY <1>2, <1>3

LEMMA AnnouncesDelivered ==
  ASSUME NoticeInv, NEW k \in Consumers, NEW e \in Events, Deliver(k, e), Announces(e)
  PROVE  Announces(e)'
<1>. DEFINE d == [pc |-> "ask", event |-> e, at |-> 1]
            next == [event[e] EXCEPT !.runs = event[e].runs + 1]
<1>1. /\ event[e] \in EventRecord /\ event[e] # None /\ consumer[k] = None
      /\ event \in [Events -> EventRecord \cup {None}]
      /\ consumer \in [Consumers -> Delivery \cup {None}]
      /\ consumer' = [consumer EXCEPT ![k] = d] /\ event' = [event EXCEPT ![e] = next]
      /\ UNCHANGED <<notification, preference>>
  BY DEF Deliver, NoticeInv, NoticeTypeOK
<1>2. /\ next.recipients = event[e].recipients /\ next.category = event[e].category
      /\ next.entitled = event[e].entitled /\ next.wavered = event[e].wavered
      /\ next.copies = event[e].copies /\ next.acked = event[e].acked
      /\ next.runs = event[e].runs + 1 /\ event[e].runs \in Nat
      /\ event[e].runs + 1 \in 0..MaxRuns
  BY <1>1, NotificationAssumption DEF EventRecord, Deliver
<1>3. next \in EventRecord
  BY <1>1, <1>2 DEF EventRecord
<1>4. d.pc = "ask" /\ d.event = e /\ d.at = 1 /\ d \in Delivery
  BY DEF Delivery
<1>. HIDE DEF d, next
<1>5. next # None /\ d # None
  BY <1>3, <1>4, NoticeRowAssumption
<1>6. /\ event'[e] = next /\ RecipientsOf(e)' = RecipientsOf(e)
      /\ \A j \in Consumers : consumer'[j] = IF j = k THEN d ELSE consumer[j]
  BY <1>1, <1>2 DEF RecipientsOf
<1>7. Handling(e)' = Handling(e) \cup {k} /\ k \notin Handling(e)
  BY <1>1, <1>4, <1>5, <1>6 DEF Handling
<1>8. \A i \in Nat \ {0} : Ahead(d, i)
  BY <1>4 DEF Ahead
<1>9. \A u : Rows(e, u)' = Rows(e, u)
  BY <1>1 DEF Rows
<1>10. DOMAIN event[e].recipients \subseteq Nat \ {0}
  BY <1>1 DEF EventRecord
<1>11. Bounded(e)'
  <2>1. ASSUME NEW i \in DOMAIN event[e].recipients, NEW u, u = event[e].recipients[i]
        PROVE  Cardinality(Rows(e, u)') + Cardinality(ToCome(e, i)') <= event[e].runs + 1
    <3>1. ToCome(e, i)' = ToCome(e, i) \cup {k} /\ k \notin ToCome(e, i)
      <4>1. i \in Nat \ {0}
        BY <1>10, <2>1
      <4>2. \A j \in Handling(e) : j \in Consumers /\ consumer'[j] = consumer[j]
        BY <1>6, <1>7 DEF Handling
      <4>3. Ahead(d, i) /\ consumer'[k] = d
        BY <1>6, <1>8, <4>1
      <4>. QED BY <1>7, <4>2, <4>3 DEF ToCome
    <3>2. /\ IsFiniteSet(ToCome(e, i)) /\ Cardinality(ToCome(e, i)) \in Nat
          /\ Cardinality(Rows(e, u)) \in Nat
      BY <1>1, CountsAreNumbers
    <3>3. Cardinality(ToCome(e, i)') = Cardinality(ToCome(e, i)) + 1
      BY <3>1, <3>2, FS_AddElement
    <3>4. Cardinality(Rows(e, u)) + Cardinality(ToCome(e, i)) <= event[e].runs
      BY <1>1, <2>1 DEF Announces, Bounded
    <3>. QED BY <1>2, <1>9, <3>2, <3>3, <3>4
  <2>. QED BY <1>2, <1>6, <2>1 DEF Bounded
<1>12. Wanted(e)'
  BY <1>1, <1>2, <1>4, <1>6, <1>7, <1>9 DEF Announces, Wanted, Recipient
<1>13. Served(e)'
  BY <1>1, <1>2, <1>6, <1>7, <1>8, <1>9, <1>10 DEF Announces, Served
<1>. QED BY <1>1, <1>2, <1>5, <1>6, <1>11, <1>12, <1>13 DEF Announces

LEMMA AnnouncesAdvanced ==
  ASSUME NoticeInv, NEW k \in Consumers, NEW d \in Delivery, Advances(k, d),
         NEW e \in Events, e = consumer[k].event, Announces(e)
  PROVE  Announces(e)'
<1>1. /\ event[e] \in EventRecord /\ event[e] # None /\ event[e].copies > 0
      /\ k \in Handling(e) /\ consumer[k] # None
      /\ consumer \in [Consumers -> Delivery \cup {None}]
      /\ UNCHANGED <<event, preference, notification>> /\ d.event = e /\ d # None
  BY DeliveryFields, NoticeRowAssumption DEF Advances, NoticeInv, NoticeTypeOK
<1>2. \A j \in Consumers : consumer'[j] = IF j = k THEN d ELSE consumer[j]
  BY <1>1 DEF Advances
<1>3. Handling(e)' = Handling(e)
  BY <1>1, <1>2 DEF Handling
<1>4. \A u : Rows(e, u)' = Rows(e, u)
  BY <1>1 DEF Rows
<1>5. DOMAIN event[e].recipients \subseteq Nat
  BY <1>1 DEF EventRecord
<1>6. ~AllAsked(k) => /\ Recipient(k) \in RecipientsOf(e)
                      /\ Recipient(k) = event[e].recipients[consumer[k].at]
  BY <1>1, DeliveryFields DEF Recipient
<1>7. Bounded(e)'
  <2>1. ASSUME NEW i \in DOMAIN event[e].recipients, NEW u, u = event[e].recipients[i]
        PROVE  Cardinality(Rows(e, u)') + Cardinality(ToCome(e, i)') <= event[e].runs
    <3>1. ToCome(e, i)' \subseteq ToCome(e, i)
      BY <1>2, <1>3, <1>5 DEF ToCome, Advances
    <3>2. /\ IsFiniteSet(ToCome(e, i)) /\ Cardinality(ToCome(e, i)) \in Nat
          /\ Cardinality(Rows(e, u)) \in Nat
      BY <1>1, CountsAreNumbers
    <3>3. Cardinality(ToCome(e, i)') <= Cardinality(ToCome(e, i)) /\ Cardinality(ToCome(e, i)') \in Nat
      BY <3>1, <3>2, FS_Subset, FS_CardinalityType
    <3>4. Cardinality(Rows(e, u)) + Cardinality(ToCome(e, i)) <= event[e].runs
      BY <1>1, <2>1 DEF Announces, Bounded
    <3>5. event[e].runs \in Nat
      BY <1>1, SMTT(30) DEF EventRecord
    <3>. QED BY <1>4, <3>2, <3>3, <3>4, <3>5
  <2>. QED BY <1>1, <2>1 DEF Bounded
<1>8. Wanted(e)'
  <2>1. Wanted(e)
    BY <1>1 DEF Announces
  <2>2. d.pc = "create" => Recipient(k) \in event[e].entitled \cup event[e].wavered
    BY <1>1, <1>6, <2>1 DEF Wanted, Advances
  <2>3. ASSUME NEW j \in Handling(e), consumer'[j].pc = "create"
        PROVE  event[e].recipients[consumer'[j].at] \in event[e].entitled \cup event[e].wavered
    <3>1. CASE j = k
      BY <1>1, <1>2, <1>6, <2>2, <2>3, <3>1 DEF Advances
    <3>2. CASE j # k
      BY <1>2, <2>1, <2>3, <3>2 DEF Wanted, Recipient, Handling
    <3>. QED BY <3>1, <3>2
  <2>4. \A j \in Handling(e)' : consumer'[j].event = e
    BY DEF Handling
  <2>5. UNCHANGED RecipientsOf(e)
    BY <1>1 DEF RecipientsOf
  <2>. QED BY <1>1, <1>3, <1>4, <2>1, <2>3, <2>4, <2>5 DEF Wanted, Recipient
<1>9. Served(e)'
  <2>1. Wanted(e) /\ Served(e)
    BY <1>1 DEF Announces
  <2>2. ASSUME NEW i \in DOMAIN event[e].recipients, NEW u, u = event[e].recipients[i],
               u \in event[e].entitled \ event[e].wavered,
               event[e].acked \/ \E j \in Handling(e) : ~Ahead(consumer'[j], i)
        PROVE  Rows(e, u) # {}
    <3>1. CASE event[e].acked \/ \E j \in Handling(e) : ~Ahead(consumer[j], i)
      BY <2>1, <2>2, <3>1 DEF Served
    <3>2. CASE ~(event[e].acked \/ \E j \in Handling(e) : ~Ahead(consumer[j], i))
      <4>1. ~Ahead(d, i) /\ Ahead(consumer[k], i)
        BY <1>1, <1>2, <2>2, <3>2 DEF Handling
      <4>2. i = consumer[k].at /\ ~AllAsked(k) /\
            ~AllowsInApp(preference, Recipient(k), event[e].category)
        BY <1>1, <1>5, <4>1 DEF Advances
      <4>3. u = Recipient(k) /\ u \in RecipientsOf(e)
        BY <1>6, <2>2, <4>2
      <4>4. u \notin event[e].entitled \/ u \in event[e].wavered
        BY <1>1, <2>1, <4>2, <4>3 DEF Wanted
      <4>. QED BY <2>2, <4>4
    <3>. QED BY <3>1, <3>2
  <2>. QED BY <1>1, <1>3, <1>4, <2>2 DEF Served
<1>. QED BY <1>1, <1>7, <1>8, <1>9 DEF Announces

LEMMA AnnouncesCreated ==
  ASSUME NoticeInv, NEW k \in Consumers, NEW n \in Notes, NoticeCreate(k, n),
         NEW e \in Events, e = consumer[k].event, Announces(e)
  PROVE  /\ Announces(e)'
         /\ \A f \in Events \ {e} : \A u : Rows(f, u)' = Rows(f, u)
<1>. DEFINE d == [consumer[k] EXCEPT !.pc = "invalidate"]
            row == NewNotification(Recipient(k), e)
            at == consumer[k].at
<1>1. /\ event[e] \in EventRecord /\ event[e] # None /\ k \in Handling(e)
      /\ consumer[k] # None /\ consumer[k].pc = "create" /\ ~AllAsked(k)
      /\ at \in DOMAIN event[e].recipients /\ Recipient(k) \in Users
      /\ Recipient(k) = event[e].recipients[at] /\ consumer[k] \in Delivery
      /\ consumer \in [Consumers -> Delivery \cup {None}]
      /\ notification \in [Notes -> NotificationRow \cup {None}]
  BY DeliveryFields DEF NoticeCreate, ConsumerAt, NoticeInv, NoticeTypeOK, Recipient
<1>2. /\ notification[n] = None /\ notification' = [notification EXCEPT ![n] = row]
      /\ consumer' = [consumer EXCEPT ![k] = d] /\ UNCHANGED <<event, preference>>
  BY DEF NoticeCreate
<1>3. d \in Delivery /\ d.pc = "invalidate" /\ d.event = e /\ d.at = at
  BY <1>1 DEF Delivery
<1>4. row \in NotificationRow /\ row.event = e /\ row.recipient = Recipient(k)
  BY <1>1 DEF NewNotification, NotificationRow
<1>. HIDE DEF d, row
<1>5. d # None /\ row # None
  BY <1>3, <1>4, NoticeRowAssumption
<1>6. \A j \in Consumers : consumer'[j] = IF j = k THEN d ELSE consumer[j]
  BY <1>1, <1>2
<1>7. \A m \in Notes : notification'[m] = IF m = n THEN row ELSE notification[m]
  BY <1>1, <1>2
<1>8. Handling(e)' = Handling(e)
  BY <1>1, <1>3, <1>5, <1>6 DEF Handling
<1>9. \A f \in Events \ {e} : \A u : Rows(f, u)' = Rows(f, u)
  BY <1>2, <1>4, <1>7 DEF Rows
<1>10. /\ \A u : u # Recipient(k) => Rows(e, u)' = Rows(e, u)
       /\ \A u : u = Recipient(k) => Rows(e, u)' = Rows(e, u) \cup {n} /\ n \notin Rows(e, u)
  BY <1>2, <1>4, <1>5, <1>7 DEF Rows
<1>11. DOMAIN event[e].recipients \subseteq Nat /\ event[e].runs \in Nat /\ at \in Nat
  BY <1>1 DEF EventRecord
<1>12. \A i \in Nat : Ahead(d, i) <=> Ahead(consumer[k], i) /\ i # at
  BY <1>1, <1>3, <1>11 DEF Ahead
<1>13. Bounded(e)'
  <2>1. ASSUME NEW i \in DOMAIN event[e].recipients, NEW u, u = event[e].recipients[i]
        PROVE  Cardinality(Rows(e, u)') + Cardinality(ToCome(e, i)') <= event[e].runs
    <3>1. /\ IsFiniteSet(ToCome(e, i)) /\ Cardinality(ToCome(e, i)) \in Nat
          /\ IsFiniteSet(Rows(e, u)) /\ Cardinality(Rows(e, u)) \in Nat
      BY <1>1, CountsAreNumbers
    <3>2. Cardinality(Rows(e, u)) + Cardinality(ToCome(e, i)) <= event[e].runs
      BY <1>1, <2>1 DEF Announces, Bounded
    <3>3. \A j \in Handling(e) : j \in Consumers
      BY DEF Handling
    <3>4. CASE i = at
      <4>1. ToCome(e, i)' = ToCome(e, i) \ {k} /\ k \in ToCome(e, i)
        <5>1. ~Ahead(d, i) /\ consumer'[k] = d
          BY <1>6, <1>11, <1>12, <3>4
        <5>2. Ahead(consumer[k], i)
          BY <1>1, <1>11, <3>4 DEF Ahead
        <5>3. \A j \in Handling(e) \ {k} : consumer'[j] = consumer[j]
          BY <1>6, <3>3
        <5>. QED BY <1>1, <1>8, <5>1, <5>2, <5>3 DEF ToCome
      <4>2. Cardinality(ToCome(e, i)') = Cardinality(ToCome(e, i)) - 1
        BY <3>1, <4>1, FS_RemoveElement, ZenonT(60)
      <4>3. Cardinality(Rows(e, u)') = Cardinality(Rows(e, u)) + 1
        <5>1. u = Recipient(k)
          BY <1>1, <2>1, <3>4
        <5>2. Rows(e, u)' = Rows(e, u) \cup {n} /\ n \notin Rows(e, u)
          BY <1>10, <5>1
        <5>. QED BY <3>1, <5>2, FS_AddElement
      <4>. QED BY <3>1, <3>2, <4>2, <4>3, <1>11
    <3>5. CASE i # at
      <4>1. u # Recipient(k)
        BY <1>1, <2>1, <3>5 DEF Announces, Once
      <4>2. ToCome(e, i)' = ToCome(e, i)
        <5>1. Ahead(d, i) <=> Ahead(consumer[k], i)
          BY <1>11, <1>12, <3>5
        <5>2. consumer'[k] = d /\ \A j \in Handling(e) \ {k} : consumer'[j] = consumer[j]
          BY <1>6, <3>3
        <5>. QED BY <1>1, <1>8, <5>1, <5>2 DEF ToCome
      <4>. QED BY <1>10, <3>2, <4>1, <4>2
    <3>. QED BY <3>4, <3>5
  <2>. QED BY <1>2, <2>1 DEF Bounded
<1>14. Wanted(e) /\ Served(e)
  BY <1>1 DEF Announces
<1>15. Recipient(k) \in event[e].entitled \cup event[e].wavered
  BY <1>1, <1>14 DEF Wanted
<1>16. UNCHANGED RecipientsOf(e)
  BY <1>2 DEF RecipientsOf
<1>17. Wanted(e)'
  <2>1. ASSUME NEW u \in Users \ (event[e].entitled \cup event[e].wavered)
        PROVE  Rows(e, u)' = {}
    <3>1. u # Recipient(k) /\ Rows(e, u) = {}
      BY <1>14, <1>15 DEF Wanted
    <3>. QED BY <1>10, <3>1
  <2>2. ASSUME NEW j \in Handling(e), consumer'[j].pc = "create"
        PROVE  event[e].recipients[consumer'[j].at] \in event[e].entitled \cup event[e].wavered
    BY <1>3, <1>6, <1>14, <2>2 DEF Wanted, Recipient, Handling
  <2>3. \A j \in Handling(e)' : consumer'[j].event = e
    BY DEF Handling
  <2>. QED BY <1>2, <1>8, <1>14, <1>16, <2>1, <2>2, <2>3, ZenonT(30) DEF Wanted, Recipient
<1>18. Served(e)'
  <2>1. ASSUME NEW i \in DOMAIN event[e].recipients, NEW u, u = event[e].recipients[i],
               u \in event[e].entitled \ event[e].wavered,
               event[e].acked \/ \E j \in Handling(e) : ~Ahead(consumer'[j], i)
        PROVE  Rows(e, u)' # {}
    <3>1. CASE u = Recipient(k)
      BY <1>10, <3>1
    <3>2. CASE u # Recipient(k)
      <4>1. i # at
        BY <1>1, <2>1, <3>2
      <4>2. event[e].acked \/ \E j \in Handling(e) : ~Ahead(consumer[j], i)
        BY <1>1, <1>6, <1>11, <1>12, <2>1, <4>1 DEF Handling
      <4>3. Rows(e, u) # {}
        BY <1>14, <2>1, <4>2 DEF Served
      <4>. QED BY <1>10, <3>2, <4>3
    <3>. QED BY <3>1, <3>2
  <2>. QED BY <1>2, <1>8, <2>1 DEF Served
<1>. QED BY <1>1, <1>2, <1>9, <1>13, <1>17, <1>18 DEF Announces

LEMMA AnnouncesEnded ==
  ASSUME NoticeInv, NEW k \in Consumers, Ends(k), NEW e \in Events, e = consumer[k].event,
         Announces(e)
  PROVE  /\ Announces(e)'
         /\ \A f \in Events \ {e} : event'[f] = event[f]
<1>1. /\ event[e] \in EventRecord /\ event[e] # None /\ k \in Handling(e)
      /\ consumer[k] # None /\ event[e].copies > 0
      /\ consumer \in [Consumers -> Delivery \cup {None}]
      /\ event \in [Events -> EventRecord \cup {None}]
      /\ event[e].recipients \in Seq(Users) /\ consumer[k].at \in Nat \ {0}
      /\ event[e].copies - 1 \in 0..MaxCopies
  <2>1. consumer[k] # None
    BY DEF Ends
  <2>2. /\ event[e] \in EventRecord /\ event[e] # None /\ k \in Handling(e)
        /\ event[e].copies > 0 /\ event[e].recipients \in Seq(Users) /\ consumer[k].at \in Nat \ {0}
    BY <2>1, DeliveryFields
  <2>3. event[e].copies \in 0..MaxCopies
    BY <2>2 DEF EventRecord
  <2>4. event[e].copies - 1 \in 0..MaxCopies
    BY <2>2, <2>3, NotificationAssumption
  <2>. QED BY <2>1, <2>2, <2>4 DEF NoticeInv, NoticeTypeOK
<1>. DEFINE lost == [event[e] EXCEPT !.copies = @ - 1]
            done == [event[e] EXCEPT !.acked = TRUE, !.copies = @ - 1]
<1>2. /\ \A j \in Consumers : consumer'[j] = IF j = k THEN None ELSE consumer[j]
      /\ UNCHANGED <<preference, notification>>
      /\ \/ event' = event
         \/ event' = [event EXCEPT ![e] = lost]
         \/ event' = [event EXCEPT ![e] = done] /\ consumer[k].pc = "ask" /\ AllAsked(k)
  BY <1>1 DEF Ends
<1>3. /\ lost \in EventRecord /\ lost.recipients = event[e].recipients
      /\ lost.category = event[e].category /\ lost.entitled = event[e].entitled
      /\ lost.wavered = event[e].wavered /\ lost.runs = event[e].runs
      /\ lost.acked = event[e].acked /\ lost.copies = event[e].copies - 1
  BY <1>1 DEF EventRecord
<1>4. /\ done \in EventRecord /\ done.recipients = event[e].recipients
      /\ done.category = event[e].category /\ done.entitled = event[e].entitled
      /\ done.wavered = event[e].wavered /\ done.runs = event[e].runs
      /\ done.copies = event[e].copies - 1
  BY <1>1 DEF EventRecord
<1>. HIDE DEF lost, done
<1>5. /\ event'[e] # None /\ event'[e].recipients = event[e].recipients
      /\ event'[e].category = event[e].category /\ event'[e].entitled = event[e].entitled
      /\ event'[e].wavered = event[e].wavered /\ event'[e].runs = event[e].runs
      /\ event'[e].acked => event[e].acked \/ (consumer[k].pc = "ask" /\ AllAsked(k))
      /\ RecipientsOf(e)' = RecipientsOf(e)
  BY <1>1, <1>2, <1>3, <1>4, NoticeRowAssumption DEF RecipientsOf
<1>6. \A f \in Events \ {e} : event'[f] = event[f]
  BY <1>1, <1>2
<1>7. Handling(e)' = Handling(e) \ {k} /\ \A u : Rows(e, u)' = Rows(e, u)
  BY <1>1, <1>2 DEF Handling, Rows
<1>8. \A j \in Handling(e) \ {k} : j \in Consumers /\ consumer'[j] = consumer[j]
  BY <1>2 DEF Handling
<1>9. Bounded(e)'
  <2>1. ASSUME NEW i \in DOMAIN event[e].recipients, NEW u, u = event[e].recipients[i]
        PROVE  Cardinality(Rows(e, u)') + Cardinality(ToCome(e, i)') <= event[e].runs
    <3>1. ToCome(e, i)' \subseteq ToCome(e, i)
      BY <1>7, <1>8 DEF ToCome
    <3>2. /\ IsFiniteSet(ToCome(e, i)) /\ Cardinality(ToCome(e, i)) \in Nat
          /\ Cardinality(Rows(e, u)) \in Nat
      BY <1>1, CountsAreNumbers
    <3>3. Cardinality(ToCome(e, i)') <= Cardinality(ToCome(e, i)) /\ Cardinality(ToCome(e, i)') \in Nat
      BY <3>1, <3>2, FS_Subset, FS_CardinalityType
    <3>4. Cardinality(Rows(e, u)) + Cardinality(ToCome(e, i)) <= event[e].runs
      BY <1>1, <2>1 DEF Announces, Bounded
    <3>5. event[e].runs \in Nat
      BY <1>1 DEF EventRecord
    <3>. QED BY <1>7, <3>2, <3>3, <3>4, <3>5
  <2>. QED BY <1>5, <2>1 DEF Bounded
<1>10. Wanted(e) /\ Served(e)
  BY <1>1 DEF Announces
<1>11. Wanted(e)'
  <2>1. ASSUME NEW j \in Handling(e) \ {k}, consumer'[j].pc = "create"
        PROVE  event[e].recipients[consumer'[j].at] \in event[e].entitled \cup event[e].wavered
    BY <1>8, <1>10, <2>1 DEF Wanted, Recipient, Handling
  <2>2. \A j \in Handling(e)' : consumer'[j].event = e
    BY DEF Handling
  <2>3. event'[e].copies > 0 => event[e].copies > 0
    BY <1>1
  <2>4. \A j \in Handling(e)' : consumer'[j].pc = "create" =>
          event'[e].recipients[consumer'[j].at] \in event'[e].entitled \cup event'[e].wavered
    BY <1>5, <1>7, <2>1, ZenonT(30)
  <2>5. \A j \in Handling(e)' : consumer'[j].pc = "create" =>
          Recipient(j)' \in event'[e].entitled \cup event'[e].wavered
    BY <2>2, <2>4, SMTT(30) DEF Recipient
  <2>6. event'[e].copies > 0 => \A u \in RecipientsOf(e)' \ event'[e].wavered :
          AllowsInApp(preference', u, event'[e].category) <=> u \in event'[e].entitled
    BY <1>2, <1>5, <1>10, <2>3 DEF Wanted, AllowsInApp
  <2>7. /\ event'[e].entitled \cup event'[e].wavered \subseteq RecipientsOf(e)'
        /\ \A u \in Users \ (event'[e].entitled \cup event'[e].wavered) : Rows(e, u)' = {}
    BY <1>5, <1>7, <1>10 DEF Wanted
  <2>. QED BY <2>5, <2>6, <2>7 DEF Wanted, AllowsInApp
<1>12. Served(e)'
  <2>1. ASSUME NEW i \in DOMAIN event[e].recipients, NEW u, u = event[e].recipients[i],
               u \in event[e].entitled \ event[e].wavered,
               event'[e].acked \/ \E j \in Handling(e) \ {k} : ~Ahead(consumer'[j], i)
        PROVE  Rows(e, u) # {}
    <3>1. CASE event[e].acked \/ \E j \in Handling(e) : ~Ahead(consumer[j], i)
      BY <1>10, <2>1, <3>1 DEF Served
    <3>2. CASE consumer[k].pc = "ask" /\ AllAsked(k)
      <4>1. consumer[k].at > i
        BY <1>1, <2>1, <3>2 DEF AllAsked
      <4>2. ~Ahead(consumer[k], i)
        BY <1>1, <3>2, <4>1 DEF Ahead
      <4>. QED BY <1>1, <1>10, <2>1, <4>2 DEF Served
    <3>. QED BY <1>5, <1>8, <2>1, <3>1, <3>2
  <2>. QED BY <1>5, <1>7, <2>1 DEF Served
<1>. QED BY <1>5, <1>6, <1>1, <1>9, <1>11, <1>12 DEF Announces

LEMMA AnnouncesSent ==
  ASSUME NoticeInv, NEW e \in Events, NEW category \in PreferenceCategory,
         NEW recipients \in OnceEach, Sends(e, category, recipients), Announces(e)
  PROVE  /\ Announces(e)' /\ \A f \in Events \ {e} : event'[f] = event[f]
         /\ RecipientsOf(e)' = {recipients[i] : i \in DOMAIN recipients}
         /\ event'[e] # None
<1>1. /\ event'[e] # None /\ event'[e].category = category /\ event'[e].recipients = recipients
      /\ ~event'[e].acked /\ event'[e].runs = 0 /\ event'[e].wavered = {}
      /\ event'[e].entitled = {u \in {recipients[i] : i \in DOMAIN recipients} :
                                AllowsInApp(preference, u, category)}
      /\ \A f \in Events \ {e} : event'[f] = event[f]
  BY EnqueueKeeps DEF Sends, OnceEach
<1>2. /\ event[e] = None /\ recipients \in Seq(Users) /\ Once(recipients)
      /\ UNCHANGED <<notification, preference, consumer>>
  BY DEF Sends, Enqueue, OnceEach
<1>3. \A u \in Users : Rows(e, u)' = {}
  BY <1>2 DEF Announces, Rows
<1>4. Handling(e)' = {}
  BY <1>2 DEF NoticeInv, DeliveriesGoOn, DeliveryHolds, Handling
<1>5. RecipientsOf(e)' = {recipients[i] : i \in DOMAIN recipients}
  BY <1>1 DEF RecipientsOf
<1>6. Bounded(e)'
  <2>1. ASSUME NEW i \in DOMAIN recipients, NEW u, u = recipients[i]
        PROVE  Cardinality(Rows(e, u)') + Cardinality(ToCome(e, i)') <= 0
    <3>1. Rows(e, u)' = {} /\ ToCome(e, i)' = {}
      BY <1>2, <1>3, <1>4, <2>1 DEF ToCome
    <3>2. Cardinality(Rows(e, u)') = 0 /\ Cardinality(ToCome(e, i)') = 0
      BY <3>1, FS_EmptySet
    <3>. QED BY <3>2
  <2>. QED BY <1>1, <2>1 DEF Bounded
<1>7. Wanted(e)'
  BY <1>1, <1>2, <1>3, <1>4, <1>5 DEF Wanted
<1>8. Served(e)'
  BY <1>1, <1>4 DEF Served
<1>. QED BY <1>1, <1>2, <1>5, <1>6, <1>7, <1>8 DEF Announces

LEMMA AnnouncesKeep ==
  ASSUME NoticeInv, \A e \in Events : Announces(e), NoticeStep
  PROVE  \A e \in Events : Announces(e)'
<1>. SUFFICES ASSUME NEW e \in Events PROVE Announces(e)'
  OBVIOUS
<1>1. /\ consumer \in [Consumers -> Delivery \cup {None}]
      /\ event \in [Events -> EventRecord \cup {None}]
  BY DEF NoticeInv, NoticeTypeOK
<1>2. CASE \/ \E r \in Readers : NotificationRoutes(r) \/ ReaderProceeds(r)
           \/ \E u \in Users : UnreadExpires(u)
  <2>1. /\ UNCHANGED consumer /\ \A u : Rows(e, u)' = Rows(e, u)
        /\ IF event[e] = None THEN event'[e] = None ELSE EventHeld(e)
    BY <1>2, ReadersLeave
  <2>2. CASE event[e] = None
    BY <2>1, <2>2 DEF Announces
  <2>3. CASE event[e] # None
    BY <2>1, <2>3, AnnouncesStays DEF Handling
  <2>. QED BY <2>2, <2>3
<1>3. CASE UNCHANGED noticeVars
  <2>1. /\ UNCHANGED <<event, preference, consumer>> /\ \A u : Rows(e, u)' = Rows(e, u)
    BY <1>3 DEF noticeVars, Rows
  <2>2. CASE event[e] = None
    BY <2>1, <2>2 DEF Announces
  <2>3. CASE event[e] # None
    BY <2>1, <2>3, AnnouncesStays DEF Handling, EventHeld, EventStays
  <2>. QED BY <2>2, <2>3
<1>4. ASSUME NEW f \in Events, NEW category \in PreferenceCategory, NEW recipients \in OnceEach,
             Sends(f, category, recipients)
      PROVE  Announces(e)'
  <2>1. CASE e = f
    BY <1>4, <2>1, AnnouncesSent
  <2>2. CASE e # f
    <3>1. /\ UNCHANGED <<preference, consumer>> /\ \A u : Rows(e, u)' = Rows(e, u)
          /\ event'[e] = event[e]
      BY <1>4, <2>2, AnnouncesSent DEF Sends, Rows
    <3>2. CASE event[e] = None
      BY <3>1, <3>2 DEF Announces
    <3>3. CASE event[e] # None
      BY <3>1, <3>3, AnnouncesStays DEF Handling, EventHeld, EventStays
    <3>. QED BY <3>2, <3>3
  <2>. QED BY <2>1, <2>2
<1>5. ASSUME NEW k \in Consumers, NEW f \in Events, Deliver(k, f)
      PROVE  Announces(e)'
  <2>1. CASE e = f
    BY <1>5, <2>1, AnnouncesDelivered
  <2>2. CASE e # f
    <3>1. /\ event'[e] = event[e] /\ UNCHANGED <<preference, notification>> /\ consumer[k] = None
          /\ consumer'[k].event # e /\ \A j \in Consumers \ {k} : consumer'[j] = consumer[j]
      BY <1>1, <1>5, <2>2 DEF Deliver
    <3>2. \A u : Rows(e, u)' = Rows(e, u)
      BY <3>1 DEF Rows
    <3>. QED BY <3>1, <3>2, AnnouncesElsewhere
  <2>. QED BY <2>1, <2>2
<1>6. ASSUME NEW k \in Consumers, NEW n \in Notes, NoticeCreate(k, n)
      PROVE  Announces(e)'
  <2>1. consumer[k] # None /\ consumer[k].event \in Events
    BY <1>6, DeliveryFields DEF NoticeCreate, ConsumerAt
  <2>2. CASE e = consumer[k].event
    BY <1>6, <2>2, AnnouncesCreated
  <2>3. CASE e # consumer[k].event
    <3>1. \A u : Rows(e, u)' = Rows(e, u)
      BY <1>6, <2>1, <2>3, AnnouncesCreated
    <3>2. consumer[k] \in Delivery /\ consumer' = [consumer EXCEPT ![k] = [consumer[k] EXCEPT !.pc = "invalidate"]]
      BY <1>6, <2>1, DeliveryFields DEF NoticeCreate
    <3>3. [consumer[k] EXCEPT !.pc = "invalidate"].event = consumer[k].event
      BY <3>2 DEF Delivery
    <3>4. /\ event'[e] = event[e] /\ UNCHANGED preference
          /\ consumer'[k].event # e /\ \A j \in Consumers \ {k} : consumer'[j] = consumer[j]
      BY <1>1, <1>6, <2>3, <3>2, <3>3 DEF NoticeCreate
    <3>. QED BY <2>3, <3>1, <3>4, AnnouncesElsewhere
  <2>. QED BY <2>2, <2>3
<1>7. ASSUME NEW k \in Consumers, NEW d \in Delivery, Advances(k, d)
      PROVE  Announces(e)'
  <2>1. CASE e = consumer[k].event
    BY <1>7, <2>1, AnnouncesAdvanced
  <2>2. CASE e # consumer[k].event
    <3>1. /\ event'[e] = event[e] /\ UNCHANGED <<preference, notification>>
          /\ consumer'[k].event # e /\ \A j \in Consumers \ {k} : consumer'[j] = consumer[j]
      BY <1>1, <1>7, <2>2 DEF Advances
    <3>2. \A u : Rows(e, u)' = Rows(e, u)
      BY <3>1 DEF Rows
    <3>. QED BY <2>2, <3>1, <3>2, AnnouncesElsewhere
  <2>. QED BY <2>1, <2>2
<1>8. ASSUME NEW k \in Consumers, Ends(k)
      PROVE  Announces(e)'
  <2>1. consumer[k] # None /\ consumer[k].event \in Events
    BY <1>8, DeliveryFields DEF Ends
  <2>2. CASE e = consumer[k].event
    BY <1>8, <2>2, AnnouncesEnded
  <2>3. CASE e # consumer[k].event
    <3>1. event'[e] = event[e]
      BY <1>8, <2>1, <2>3, AnnouncesEnded
    <3>2. /\ UNCHANGED <<preference, notification>>
          /\ consumer'[k] = None /\ \A j \in Consumers \ {k} : consumer'[j] = consumer[j]
      BY <1>1, <1>8 DEF Ends
    <3>3. \A u : Rows(e, u)' = Rows(e, u)
      BY <3>2 DEF Rows
    <3>. QED BY <2>3, <3>1, <3>2, <3>3, AnnouncesElsewhere
  <2>. QED BY <2>2, <2>3
<1>. QED BY <1>2, <1>3, <1>4, <1>5, <1>6, <1>7, <1>8, Turns DEF NoticeStep, NoticeNext

\* Once an event is acked each recipient has been notified unless it did not want to
\* be; a second notification comes of a second run, and nobody else has any
\* (consumers.ts: one recipient after the other, the row, then the cached number).
THEOREM NotifiedAsWanted == MessagingSpec => []RecipientsAreNotified
<1>1. MessagingInit => \A e \in Events : Announces(e)
  BY DEF MessagingInit, NoticeInit, Announces, Rows
<1>2. BothInv /\ (\A e \in Events : Announces(e)) /\ [MessagingNext]_<<noticeVars, chatVars>>
        => (\A e \in Events : Announces(e))'
  BY NoticeSteps, AnnouncesKeep DEF BothInv
<1>3. BothInv /\ (\A e \in Events : Announces(e)) => RecipientsAreNotified
  <2>. SUFFICES ASSUME NoticeInv, NEW e \in Events, Announces(e), NEW u \in Users
                PROVE  IF event[e] = None THEN Rows(e, u) = {}
                       ELSE /\ Cardinality(Rows(e, u)) <= IF u \in RecipientsOf(e) THEN event[e].runs ELSE 0
                            /\ (u \notin event[e].entitled \cup event[e].wavered) => Rows(e, u) = {}
                            /\ (event[e].acked /\ u \in event[e].entitled \ event[e].wavered) =>
                                 Rows(e, u) # {}
    BY DEF BothInv, RecipientsAreNotified
  <2>1. CASE event[e] = None
    BY <2>1 DEF Announces
  <2>2. CASE event[e] # None
    <3>1. Bounded(e) /\ Wanted(e) /\ Served(e) /\ event[e].runs \in Nat
      BY <2>2 DEF Announces, NoticeInv, NoticeTypeOK, EventRecord
    <3>2. CASE u \in RecipientsOf(e)
      <4>1. PICK i \in DOMAIN event[e].recipients : u = event[e].recipients[i]
        BY <3>2 DEF RecipientsOf
      <4>2. Cardinality(Rows(e, u)) + Cardinality(ToCome(e, i)) <= event[e].runs
        BY <3>1, <4>1 DEF Bounded
      <4>3. Cardinality(Rows(e, u)) \in Nat /\ Cardinality(ToCome(e, i)) \in Nat
        BY <2>2, CountsAreNumbers
      <4>. QED BY <2>2, <3>1, <3>2, <4>1, <4>2, <4>3 DEF Wanted, Served
    <3>3. CASE u \notin RecipientsOf(e)
      <4>1. u \notin event[e].entitled \cup event[e].wavered
        BY <3>1, <3>3 DEF Wanted
      <4>2. Rows(e, u) = {}
        BY <3>1, <4>1 DEF Wanted
      <4>3. Cardinality(Rows(e, u)) = 0
        BY <4>2, FS_EmptySet
      <4>. QED BY <2>2, <3>3, <4>1, <4>2, <4>3
    <3>. QED BY <3>2, <3>3
  <2>. QED BY <2>1, <2>2
<1>. QED BY <1>1, <1>2, <1>3, BothCorrect, PTL DEF MessagingSpec
-----------------------------------------------------------------------------
(* What is announced of a message *)

\* The events that are there, and whom they are for, are the senders' doing alone.
EventsStay ==
  \A e \in Events :
    /\ event'[e] = None <=> event[e] = None
    /\ event[e] # None => event'[e].recipients = event[e].recipients

LEMMA NoticesLeaveEvents ==
  ASSUME NoticeInv, NoticeNext
  PROVE  EventsStay
<1>1. event \in [Events -> EventRecord \cup {None}]
  BY DEF NoticeInv, NoticeTypeOK
<1>2. ASSUME NEW e \in Events, NEW row \in EventRecord, event[e] # None,
             row.recipients = event[e].recipients, event' = [event EXCEPT ![e] = row]
      PROVE  EventsStay
  <2>1. row # None
    BY <1>2, NoticeRowAssumption
  <2>2. \A f \in Events : event'[f] = IF f = e THEN row ELSE event[f]
    BY <1>1, <1>2
  <2>. QED BY <1>2, <2>1, <2>2 DEF EventsStay
<1>3. CASE UNCHANGED event
  BY <1>3 DEF EventsStay
<1>4. CASE \/ \E r \in Readers : NotificationRoutes(r) \/ ReaderProceeds(r)
           \/ \E u \in Users : UnreadExpires(u)
  <2>1. \A e \in Events : IF event[e] = None THEN event'[e] = None ELSE EventHeld(e)
    BY <1>4, ReadersLeave
  <2>. QED BY <2>1 DEF EventsStay, EventHeld, EventStays
<1>5. ASSUME NEW k \in Consumers, NEW e \in Events, Deliver(k, e)
      PROVE  EventsStay
  <2>. DEFINE row == [event[e] EXCEPT !.runs = event[e].runs + 1]
  <2>1. event[e] \in EventRecord /\ event[e] # None /\ event' = [event EXCEPT ![e] = row]
    BY <1>1, <1>5 DEF Deliver
  <2>2. event[e].runs + 1 \in 0..MaxRuns
    BY <1>5, <2>1, NotificationAssumption DEF Deliver, EventRecord
  <2>3. row \in EventRecord /\ row.recipients = event[e].recipients
    BY <2>1, <2>2 DEF EventRecord
  <2>. HIDE DEF row
  <2>. QED BY <1>2, <2>1, <2>3
<1>6. ASSUME NEW k \in Consumers, Ends(k)
      PROVE  EventsStay
  <2>. DEFINE e == consumer[k].event
              lost == [event[e] EXCEPT !.copies = @ - 1]
              done == [event[e] EXCEPT !.acked = TRUE, !.copies = @ - 1]
  <2>1. consumer[k] # None
    BY <1>6 DEF Ends
  <2>2. e \in Events /\ event[e] \in EventRecord /\ event[e] # None /\ event[e].copies > 0
    BY <2>1, DeliveryFields
  <2>3. event[e].copies - 1 \in 0..MaxCopies
    BY <2>2, NotificationAssumption DEF EventRecord
  <2>4. /\ lost \in EventRecord /\ lost.recipients = event[e].recipients
        /\ done \in EventRecord /\ done.recipients = event[e].recipients
    BY <2>2, <2>3 DEF EventRecord
  <2>5. event' = event \/ event' = [event EXCEPT ![e] = lost] \/ event' = [event EXCEPT ![e] = done]
    BY <1>1, <1>6, <2>2 DEF Ends
  <2>. HIDE DEF lost, done, e
  <2>. QED BY <1>2, <1>3, <2>2, <2>4, <2>5
<1>7. ASSUME NEW k \in Consumers, RegisterConsumers(k)
      PROVE  EventsStay
  <2>1. \A n \in Notes : NoticeCreate(k, n) => UNCHANGED event
    BY DEF NoticeCreate
  <2>2. \A d \in Delivery : Advances(k, d) => UNCHANGED event
    BY DEF Advances
  <2>. QED BY <1>3, <1>5, <1>6, <1>7, <2>1, <2>2, Turns
<1>. QED BY <1>4, <1>7 DEF NoticeNext

\* Requests that are about to announce a message.
Announcers(m) == {h \in Chats : chat[h] # None /\ chat[h].pc \in SendPCs /\ chat[h].message = m}
Announced(m) ==
  /\ message[m] = None => event[m] = None
  /\ (message[m] # None /\ m \notin unsent /\ event[m] = None) => Announcers(m) # {}
  /\ event[m] # None =>
       RecipientsOf(m) = participants[message[m].conversation] \ {message[m].sender}

LEMMA AnnouncedKeeps ==
  ASSUME BothInv, \A m \in Messages : Announced(m), [MessagingNext]_<<noticeVars, chatVars>>
  PROVE  \A m \in Messages : Announced(m)'
<1>. SUFFICES ASSUME NEW m \in Messages PROVE Announced(m)'
  OBVIOUS
<1>1. /\ chat \in [Chats -> ChatState \cup {None}] /\ m \in Events /\ Announced(m)
      /\ message \in [Messages -> MessageRow \cup {None}]
      /\ message[m] # None => message[m].conversation \in Conversations
  BY MessagingAssumption DEF BothInv, ChatInv, ChatTypeOK, MessageRow
<1>2. ConversationsStay /\ MessagesStay
  BY ChatStepKeeps DEF BothInv
\* What is said of the event stays said of it.
<1>3. ASSUME event'[m] = None <=> event[m] = None,
             event[m] # None => RecipientsOf(m)' = RecipientsOf(m),
             message'[m] # None /\ m \notin unsent' /\ event'[m] = None => Announcers(m)' # {}
      PROVE  Announced(m)'
  <2>1. message[m] # None => participants[message[m].conversation] # {}
    BY DEF BothInv, ChatInv, Filled
  <2>2. event[m] # None => /\ message[m] # None /\ message'[m] # None
                           /\ message'[m].sender = message[m].sender
                           /\ message'[m].conversation = message[m].conversation
                           /\ participants'[message[m].conversation] = participants[message[m].conversation]
    BY <1>1, <1>2, <2>1 DEF Announced, ConversationsStay, MessagesStay
  <2>. QED BY <1>1, <1>3, <2>2 DEF Announced
<1>4. ASSUME UNCHANGED event
      PROVE  (event'[m] = None <=> event[m] = None) /\ RecipientsOf(m)' = RecipientsOf(m)
  BY <1>4 DEF RecipientsOf
<1>5. ASSUME UNCHANGED chatVars, event'[m] = None <=> event[m] = None,
             event[m] # None => RecipientsOf(m)' = RecipientsOf(m)
      PROVE  Announced(m)'
  <2>1. Announcers(m)' = Announcers(m) /\ UNCHANGED <<message, unsent>>
    BY <1>5 DEF chatVars, Announcers
  <2>. QED BY <1>1, <1>3, <1>5, <2>1 DEF Announced
<1>6. CASE UNCHANGED <<noticeVars, chatVars>>
  BY <1>4, <1>5, <1>6 DEF noticeVars
<1>7. CASE NoticeNext /\ UNCHANGED chatVars
  BY <1>1, <1>5, <1>7, NoticesLeaveEvents DEF BothInv, EventsStay, RecipientsOf
<1>8. ASSUME NEW e \in Events \ Messages, OtherServices(e), UNCHANGED chatVars
      PROVE  Announced(m)'
  <2>1. PICK u \in Users, category \in PreferenceCategory : Enqueue(e, Notice(category, <<u>>))
    BY <1>8, OtherServicesSend
  <2>2. event'[m] = event[m]
    BY <1>1, <2>1 DEF Enqueue, BothInv, NoticeInv, NoticeTypeOK
  <2>. QED BY <1>5, <1>8, <2>2 DEF RecipientsOf
<1>9. ASSUME NEW h \in Chats, NEW s, chat' = [chat EXCEPT ![h] = s],
             UNCHANGED event, \/ message' = message
                              \/ message[m] # None
                              \/ s # None /\ s.pc \in SendPCs /\ s.message = m,
             unsent \subseteq unsent',
             (chat[h] # None /\ chat[h].pc \in SendPCs /\ chat[h].message = m) =>
               \/ s # None /\ s.pc \in SendPCs /\ s.message = m
               \/ m \in unsent'
      PROVE  Announced(m)'
  <2>1. \A g \in Chats : chat'[g] = IF g = h THEN s ELSE chat[g]
    BY <1>1, <1>9
  <2>2. ASSUME message'[m] # None, m \notin unsent', event'[m] = None
        PROVE  Announcers(m)' # {}
    <3>1. CASE message[m] # None
      <4>1. PICK g \in Chats : chat[g] # None /\ chat[g].pc \in SendPCs /\ chat[g].message = m
        BY <1>1, <1>9, <2>2, <3>1 DEF Announced, Announcers
      <4>2. chat'[g] # None /\ chat'[g].pc \in SendPCs /\ chat'[g].message = m
        BY <1>9, <2>1, <2>2, <4>1
      <4>. QED BY <4>2 DEF Announcers
    <3>2. CASE message[m] = None
      <4>1. chat'[h] # None /\ chat'[h].pc \in SendPCs /\ chat'[h].message = m
        BY <1>9, <2>1, <2>2, <3>2
      <4>. QED BY <4>1 DEF Announcers
    <3>. QED BY <3>1, <3>2
  <2>. QED BY <1>3, <1>4, <1>9, <2>2
<1>10. ASSUME NEW h \in Chats, ConversationRoutes(h)
       PROVE  Announced(m)'
  <2>1. UNCHANGED <<event, message, unsent>>
    BY <1>10 DEF ConversationRoutes, CreateLookup, MarkReadFind, noticeVars
  <2>2. CASE UNCHANGED chat
    <3>1. Announcers(m)' = Announcers(m)
      BY <2>2 DEF Announcers
    <3>. QED BY <1>1, <1>3, <1>4, <2>1, <3>1 DEF Announced
  <2>3. CASE ~UNCHANGED chat
    <3>1. chat[h] = None /\ \E s : chat' = [chat EXCEPT ![h] = s]
      BY <1>10, <2>3 DEF ConversationRoutes, CreateLookup, MarkReadFind, StartChat
    <3>. QED BY <1>9, <2>1, <3>1
  <2>. QED BY <2>2, <2>3
<1>11. ASSUME NEW h \in Chats, MessageRoutes(h)
       PROVE  Announced(m)'
  <2>1. UNCHANGED <<event, message, unsent>>
    BY <1>11 DEF MessageRoutes, SendStart, MessageFind, noticeVars
  <2>2. chat[h] = None /\ \E s : chat' = [chat EXCEPT ![h] = s]
    BY <1>11 DEF MessageRoutes, SendStart, MessageFind, StartChat
  <2>. QED BY <1>9, <2>1, <2>2
<1>12. ASSUME NEW h \in Chats, ChatProceeds(h), ~SendPublish(h)
       PROVE  Announced(m)'
  <2>1. UNCHANGED event
    BY <1>12 DEF ChatProceeds, CreateInsert, SendInsert, CreateJoin, MarkReadWrite, SendBump,
         MessageWrite, ChatFail, noticeVars
  <2>2. CASE (\E c \in Conversations : CreateInsert(h, c)) \/ CreateJoin(h) \/ MarkReadWrite(h)
    <3>1. /\ \E s : chat' = [chat EXCEPT ![h] = s] /\ UNCHANGED <<message, unsent>>
          /\ chat[h].pc \notin SendPCs
      BY <2>2 DEF CreateInsert, CreateJoin, MarkReadWrite, EndChat, ChatAt, SendPCs
    <3>. QED BY <1>9, <2>1, <3>1
  <2>3. ASSUME NEW n \in Messages, SendInsert(h, n)
        PROVE  Announced(m)'
    <3>. DEFINE s == [pc |-> "send.bump", user |-> chat[h].user, id |-> chat[h].id, message |-> n]
    <3>1. /\ chat' = [chat EXCEPT ![h] = s] /\ UNCHANGED unsent /\ chat[h].pc \notin SendPCs
          /\ message' = [message EXCEPT ![n] = NewMessage(chat[h].user, chat[h].id, chat[h].content)]
      BY <2>3 DEF SendInsert, ChatAt, SendPCs
    <3>2. s.pc \in SendPCs /\ s.message = n
      BY DEF SendPCs
    <3>3. s \in ChatState
      BY <2>3, ChatFields DEF SendInsert, ChatAt, ChatState, BothInv, ChatInv, ChatTypeOK
    <3>4. s # None
      BY <3>3, ChatRowAssumption
    <3>. HIDE DEF s
    <3>5. CASE n = m
      BY <1>9, <2>1, <3>1, <3>2, <3>4, <3>5
    <3>6. CASE n # m
      <4>1. message'[m] = message[m]
        BY <1>1, <3>1, <3>6
      <4>2. \A g \in Chats : chat'[g] = IF g = h THEN s ELSE chat[g]
        BY <1>1, <3>1
      <4>3. Announcers(m) \subseteq Announcers(m)'
        BY <3>1, <4>2 DEF Announcers
      <4>. QED BY <1>1, <1>3, <1>4, <2>1, <3>1, <4>1, <4>3 DEF Announced
    <3>. QED BY <3>5, <3>6
  <2>4. CASE SendBump(h)
    <3>. DEFINE s == [chat[h] EXCEPT !.pc = "send.publish"]
    <3>1. /\ chat' = [chat EXCEPT ![h] = s] /\ UNCHANGED <<message, unsent>>
          /\ chat[h] # None /\ chat[h].pc = "send.bump" /\ chat[h] \in ChatState
      BY <1>1, <2>4 DEF SendBump, MoveChat, ChatAt
    <3>2. chat[h] \in [pc : {"send.bump", "send.publish"}, user : Users, id : Conversations,
                       message : Messages]
      BY <3>1 DEF ChatState
    <3>3. s.pc \in SendPCs /\ s.message = chat[h].message /\ s \in ChatState
      BY <3>2 DEF SendPCs, ChatState
    <3>4. s # None
      BY <3>3, ChatRowAssumption
    <3>. HIDE DEF s
    <3>. QED BY <1>9, <2>1, <3>1, <3>3, <3>4
  <2>5. CASE MessageWrite(h)
    <3>1. /\ chat' = [chat EXCEPT ![h] = None] /\ UNCHANGED unsent
          /\ chat[h] # None /\ chat[h].pc = "message.write" /\ Held(h) /\ chat[h] \in ChatState
          /\ message' = [message EXCEPT ![chat[h].message] =
                           Written(message[chat[h].message], chat[h].copy, chat[h].changes)]
      BY <1>1, <2>5 DEF MessageWrite, EndChat, ChatAt, BothInv, ChatInv, ChatsHeld
    <3>2. message[chat[h].message] # None /\ chat[h].message \in Messages
      BY <3>1, ChatFields DEF Held
    <3>3. CASE chat[h].message = m
      BY <1>9, <2>1, <3>1, <3>2, <3>3 DEF SendPCs
    <3>4. CASE chat[h].message # m
      <4>1. message'[m] = message[m]
        BY <1>1, <3>1, <3>4
      <4>2. \A g \in Chats : chat'[g] = IF g = h THEN None ELSE chat[g]
        BY <1>1, <3>1
      <4>3. Announcers(m) \subseteq Announcers(m)'
        BY <3>1, <4>2 DEF Announcers, SendPCs
      <4>. QED BY <1>1, <1>3, <1>4, <2>1, <3>1, <4>1, <4>3 DEF Announced
    <3>. QED BY <3>3, <3>4
  <2>6. CASE ChatFail(h)
    <3>1. /\ chat' = [chat EXCEPT ![h] = None] /\ UNCHANGED message
          /\ unsent' = IF chat[h].pc \in SendPCs THEN unsent \cup {chat[h].message} ELSE unsent
      BY <2>6 DEF ChatFail, EndChat, SendPCs
    <3>. QED BY <1>9, <2>1, <3>1
  <2>. QED BY <1>12, <2>2, <2>3, <2>4, <2>5, <2>6 DEF ChatProceeds
<1>13. ASSUME NEW h \in Chats, SendPublish(h)
       PROVE  Announced(m)'
  <2>1. /\ chat[h].message \in Messages /\ chat[h].pc = "send.publish" /\ Held(h)
        /\ UNCHANGED <<message, participants, unsent>> /\ chat' = [chat EXCEPT ![h] = None]
    BY <1>13, Publish DEF SendPublish, EndChat
  <2>2. PICK order \in OnceEach :
          /\ Sends(chat[h].message, "messages", order)
          /\ {order[i] : i \in DOMAIN order} = participants[chat[h].id] \ {chat[h].user}
    BY <1>13, Publish
  <2>3. /\ \A f \in Events \ {chat[h].message} : event'[f] = event[f]
        /\ event'[chat[h].message] # None
        /\ event'[chat[h].message].recipients = order
    <3>. DEFINE e == chat[h].message
    <3>1. e \in Events /\ "messages" \in PreferenceCategory
      BY <2>1, MessagingAssumption DEF PreferenceCategory
    <3>2. /\ event'[e] # None /\ event'[e].recipients = order
          /\ \A f \in Events \ {e} : event'[f] = event[f]
      BY <2>2, <3>1, EnqueueKeeps DEF Sends, OnceEach, BothInv
    <3>. QED BY <3>2
  <2>4. CASE chat[h].message = m
    <3>1. /\ message[m] # None /\ message[m].sender = chat[h].user
          /\ message[m].conversation = chat[h].id
      BY <2>1, <2>4 DEF Held, SendPCs
    <3>. QED BY <2>1, <2>2, <2>3, <2>4, <3>1 DEF Announced, RecipientsOf
  <2>5. CASE chat[h].message # m
    <3>1. \A g \in Chats : chat'[g] = IF g = h THEN None ELSE chat[g]
      BY <1>1, <2>1
    <3>2. Announcers(m) \subseteq Announcers(m)'
      BY <2>5, <3>1 DEF Announcers
    <3>3. event'[m] = event[m]
      BY <1>1, <2>3, <2>5
    <3>. QED BY <1>1, <1>3, <2>1, <3>2, <3>3 DEF Announced, RecipientsOf
  <2>. QED BY <2>4, <2>5
<1>14. CASE ChatNext
  BY <1>10, <1>11, <1>12, <1>13, <1>14 DEF ChatNext
<1>. QED BY <1>6, <1>7, <1>8, <1>14 DEF MessagingNext

\* message.sent names the participants but the sender, so that those and nobody else
\* are notified; what was stored was announced or is about to be, unless a statement
\* or the publish failed (message.service.ts send, publishSent).
THEOREM MessagesReachTheOthers == MessagingSpec => []MessagesAreAnnounced
<1>1. MessagingInit => (\A e \in Events : Announces(e)) /\ (\A m \in Messages : Announced(m))
  BY MessagingAssumption DEF MessagingInit, NoticeInit, ChatInit, Announces, Rows, Announced
<1>2. BothInv /\ (\A e \in Events : Announces(e)) /\ [MessagingNext]_<<noticeVars, chatVars>>
        => (\A e \in Events : Announces(e))'
  BY NoticeSteps, AnnouncesKeep DEF BothInv
<1>3. BothInv /\ (\A m \in Messages : Announced(m)) /\ [MessagingNext]_<<noticeVars, chatVars>>
        => (\A m \in Messages : Announced(m))'
  BY AnnouncedKeeps
<1>4. (\A e \in Events : Announces(e)) /\ (\A m \in Messages : Announced(m)) => MessagesAreAnnounced
  <2>. SUFFICES ASSUME NEW m \in Messages, Announces(m), Announced(m)
                PROVE  /\ message[m] = None => event[m] = None
                       /\ (message[m] # None /\ Announcers(m) = {} /\ m \notin unsent) => event[m] # None
                       /\ event[m] # None =>
                            /\ RecipientsOf(m) = participants[message[m].conversation] \ {message[m].sender}
                            /\ \A u \in Users \ RecipientsOf(m) : Rows(m, u) = {}
    BY MessagingAssumption DEF MessagesAreAnnounced, Announcers, SendPCs
  <2>. QED BY DEF Announced, Announces, Wanted
<1>. QED BY <1>1, <1>2, <1>3, <1>4, BothCorrect, PTL DEF MessagingSpec
-----------------------------------------------------------------------------
(* NotificationService: the number of unread notifications in Redis *)

\* Invalidations of a user's number that are due.
Due(r, u) == ReaderAt(r, "invalidate") /\ reader[r].user = u
DueBy(k, u) == ConsumerAt(k, "invalidate") /\ Recipient(k) = u
\* A number in Redis, or about to be put there, is right unless the history says otherwise.
Follows(u) ==
  /\ unread[u] # None /\ u \notin outdated => unread[u] = CountUnread(u)
  /\ \A r \in Readers : ReaderAt(r, "set") /\ reader[r].user = u /\ ~reader[r].missed =>
       reader[r].count = CountUnread(u)
UnreadInv == \A u \in Users : AboutToInvalidate(u) \/ Follows(u)

\* A step that leaves a user's rows alone, and invalidations of its number due, and
\* puts a number there only if it is the right one.
LEMMA NumberStays ==
  ASSUME NEW u \in Users, AboutToInvalidate(u) \/ Follows(u),
         CountUnread(u)' = CountUnread(u),
         \A r \in Readers : Due(r, u) => Due(r, u)',
         \A k \in Consumers : DueBy(k, u) => DueBy(k, u)',
         \/ unread'[u] = unread[u] /\ (u \notin outdated' => u \notin outdated)
         \/ unread'[u] = None \/ u \in outdated'
         \/ Follows(u) => unread'[u] = CountUnread(u),
         \A r \in Readers : \/ reader'[r] = reader[r]
                            \/ reader'[r] = None \/ reader'[r].pc # "set" \/ reader'[r].missed
                            \/ reader'[r].user # u \/ reader'[r].count = CountUnread(u)
  PROVE  AboutToInvalidate(u)' \/ Follows(u)'
<1>1. CASE AboutToInvalidate(u)
  BY <1>1 DEF AboutToInvalidate, Due, DueBy
<1>2. CASE Follows(u)
  BY <1>2 DEF Follows, ReaderAt
<1>. QED BY <1>1, <1>2

\* Deliveries due to invalidate stay so while no delivery moves.
LEMMA DueByStays ==
  ASSUME NoticeInv, UNCHANGED consumer,
         \A e \in Events : event[e] # None => event'[e].recipients = event[e].recipients
  PROVE  \A k \in Consumers : \A u : DueBy(k, u) => DueBy(k, u)'
<1>. SUFFICES ASSUME NEW k \in Consumers, consumer[k] # None, NEW u, DueBy(k, u)
              PROVE  DueBy(k, u)'
  BY DEF DueBy, ConsumerAt
<1>1. consumer[k].event \in Events /\ event[consumer[k].event] # None
  BY DeliveryFields
<1>. QED BY <1>1 DEF DueBy, ConsumerAt, Recipient

\* One delivery moves, which was not due to invalidate this user's number.
LEMMA DueByMoves ==
  ASSUME NoticeInv, NEW k \in Consumers, NEW u, ~DueBy(k, u),
         \A j \in Consumers \ {k} : consumer'[j] = consumer[j],
         \A e \in Events : event[e] # None => event'[e].recipients = event[e].recipients
  PROVE  \A j \in Consumers : DueBy(j, u) => DueBy(j, u)'
<1>. SUFFICES ASSUME NEW j \in Consumers \ {k}, consumer[j] # None, DueBy(j, u)
              PROVE  DueBy(j, u)'
  BY DEF DueBy, ConsumerAt
<1>1. consumer[j].event \in Events /\ event[consumer[j].event] # None
  BY DeliveryFields
<1>. QED BY <1>1 DEF DueBy, ConsumerAt, Recipient

\* One request moves, which was not due to invalidate, and no table changes that counts.
LEMMA NumberBeside ==
  ASSUME NoticeInv, UnreadInv, NEW r \in Readers, ~ReaderAt(r, "invalidate"),
         NEW s \in ReaderState \cup {None}, reader' = [reader EXCEPT ![r] = s],
         UNCHANGED <<notification, consumer, unread, outdated>>,
         \A e \in Events : event[e] # None => event'[e].recipients = event[e].recipients,
         s = None \/ s.pc # "set" \/ s.count = CountUnread(s.user)
  PROVE  UnreadInv'
<1>1. \A q \in Readers : reader'[q] = IF q = r THEN s ELSE reader[q]
  BY DEF NoticeInv, NoticeTypeOK
<1>2. ASSUME NEW u \in Users PROVE AboutToInvalidate(u)' \/ Follows(u)'
  <2>1. CountUnread(u)' = CountUnread(u)
    BY DEF CountUnread
  <2>2. \A q \in Readers : Due(q, u) => Due(q, u)'
    BY <1>1 DEF Due, ReaderAt
  <2>3. \A k \in Consumers : DueBy(k, u) => DueBy(k, u)'
    BY DueByStays
  <2>4. \A q \in Readers : \/ reader'[q] = reader[q]
                           \/ reader'[q] = None \/ reader'[q].pc # "set" \/ reader'[q].missed
                           \/ reader'[q].user # u \/ reader'[q].count = CountUnread(u)
    BY <1>1
  <2>5. unread'[u] = unread[u] /\ (u \notin outdated' => u \notin outdated)
    OBVIOUS
  <2>6. AboutToInvalidate(u) \/ Follows(u)
    BY DEF UnreadInv
  <2>. QED BY <2>1, <2>2, <2>3, <2>4, <2>5, <2>6, NumberStays
<1>. QED BY <1>2 DEF UnreadInv

\* An invalidation puts the number of its user right, or says that it did not, and
\* leaves the others'.
LEMMA NumberInvalidated ==
  ASSUME NoticeInv, UnreadInv, NEW v \in Users, NEW done \in BOOLEAN,
         NEW rest \in [Readers -> ReaderState \cup {None}], InvalidateUnread(v, done, rest),
         \A r \in Readers : rest[r] = reader[r] \/ rest[r] = None,
         \A r \in Readers : \A u \in Users \ {v} : Due(r, u) => rest[r] = reader[r],
         \A k \in Consumers : \A u \in Users \ {v} : DueBy(k, u) => DueBy(k, u)',
         UNCHANGED notification
  PROVE  UnreadInv'
<1>. SUFFICES ASSUME NEW u \in Users PROVE AboutToInvalidate(u)' \/ Follows(u)'
  BY DEF UnreadInv
<1>1. unread \in [Users -> Nat \cup {None}]
  BY DEF NoticeInv, NoticeTypeOK
<1>2. CountUnread(u)' = CountUnread(u)
  BY DEF CountUnread
<1>3. \A r \in Readers :
        reader'[r] = IF rest[r] # None /\ rest[r].pc = "set" /\ rest[r].user = v
                          /\ rest[r].count # CountUnread(v)
                     THEN [rest[r] EXCEPT !.missed = TRUE] ELSE rest[r]
  BY DEF InvalidateUnread
<1>4. ASSUME NEW r \in Readers, rest[r] # None, rest[r].pc = "set"
      PROVE  [rest[r] EXCEPT !.missed = TRUE].missed /\
             [rest[r] EXCEPT !.missed = TRUE].pc = "set"
  BY <1>4, Missed
<1>5. CASE u = v
  <2>1. unread'[u] # None => u \in outdated'
    BY <1>1, <1>5 DEF InvalidateUnread
  <2>2. \A r \in Readers : reader'[r] # None /\ reader'[r].pc = "set" /\ reader'[r].user = u
                             /\ ~reader'[r].missed => reader'[r].count = CountUnread(u)
    BY <1>3, <1>4, <1>5
  <2>. QED BY <1>2, <2>1, <2>2 DEF Follows, ReaderAt
<1>6. CASE u # v
  <2>1. unread'[u] = unread[u] /\ (u \notin outdated' => u \notin outdated)
    BY <1>1, <1>6 DEF InvalidateUnread
  <2>2. \A r \in Readers : Due(r, u) => Due(r, u)'
    BY <1>3, <1>6 DEF Due, ReaderAt
  <2>3. \A k \in Consumers : DueBy(k, u) => DueBy(k, u)'
    BY <1>6
  <2>4. \A r \in Readers : \/ reader'[r] = reader[r]
                           \/ reader'[r] = None \/ reader'[r].pc # "set" \/ reader'[r].missed
                           \/ reader'[r].user # u \/ reader'[r].count = CountUnread(u)
    BY <1>3, <1>4
  <2>5. AboutToInvalidate(u) \/ Follows(u)
    BY DEF UnreadInv
  <2>. QED BY <1>2, <2>1, <2>2, <2>3, <2>4, <2>5, NumberStays
<1>. QED BY <1>5, <1>6

\* A request writes rows of its user, and is due to invalidate after it.
LEMMA NumberMarked ==
  ASSUME NoticeInv, UnreadInv, NEW r \in Readers, NEW v \in Users, ~ReaderAt(r, "invalidate"),
         reader' = [reader EXCEPT ![r] = [pc |-> "invalidate", user |-> v]],
         UNCHANGED <<event, consumer, unread, outdated>>,
         \A n \in Notes : \/ notification'[n] = notification[n]
                          \/ /\ notification[n] # None /\ notification[n].recipient = v
                             /\ notification'[n] # None /\ notification'[n].recipient = v
  PROVE  UnreadInv'
<1>. DEFINE s == [pc |-> "invalidate", user |-> v]
<1>1. s \in ReaderState /\ s.pc = "invalidate" /\ s.user = v
  BY DEF ReaderState
<1>2. s # None
  BY <1>1, NoticeRowAssumption
<1>. HIDE DEF s
<1>3. \A q \in Readers : reader'[q] = IF q = r THEN s ELSE reader[q]
  BY DEF NoticeInv, NoticeTypeOK, s
<1>4. ASSUME NEW u \in Users PROVE AboutToInvalidate(u)' \/ Follows(u)'
  <2>1. CASE u = v
    <3>1. Due(r, u)'
      BY <1>1, <1>2, <1>3, <2>1 DEF Due, ReaderAt
    <3>. QED BY <3>1 DEF AboutToInvalidate, Due
  <2>2. CASE u # v
    <3>1. CountUnread(u)' = CountUnread(u)
      <4>1. {n \in Notes : notification'[n] # None /\ notification'[n].recipient = u /\ ~notification'[n].isRead}
              = {n \in Notes : notification[n] # None /\ notification[n].recipient = u /\ ~notification[n].isRead}
        BY <2>2
      <4>. QED BY <4>1 DEF CountUnread
    <3>2. \A q \in Readers : Due(q, u) => Due(q, u)'
      BY <1>3 DEF Due, ReaderAt
    <3>3. \A k \in Consumers : DueBy(k, u) => DueBy(k, u)'
      BY DueByStays
    <3>4. \A q \in Readers : \/ reader'[q] = reader[q]
                             \/ reader'[q] = None \/ reader'[q].pc # "set" \/ reader'[q].missed
                             \/ reader'[q].user # u \/ reader'[q].count = CountUnread(u)
      BY <1>1, <1>3
    <3>5. unread'[u] = unread[u] /\ (u \notin outdated' => u \notin outdated)
      OBVIOUS
    <3>6. AboutToInvalidate(u) \/ Follows(u)
      BY DEF UnreadInv
    <3>. QED BY <3>1, <3>2, <3>3, <3>4, <3>5, <3>6, NumberStays
  <2>. QED BY <2>1, <2>2
<1>. QED BY <1>4 DEF UnreadInv

LEMMA RequestsFollow ==
  ASSUME NoticeInv, UnreadInv, NEW r \in Readers, NotificationRoutes(r) \/ ReaderProceeds(r)
  PROVE  UnreadInv'
<1>1. /\ reader \in [Readers -> ReaderState \cup {None}] /\ unread \in [Users -> Nat \cup {None}]
      /\ notification \in [Notes -> NotificationRow \cup {None}]
      /\ event \in [Events -> EventRecord \cup {None}]
  BY DEF NoticeInv, NoticeTypeOK
<1>2. \A e \in Events : event[e] # None => event'[e].recipients = event[e].recipients
  <2>1. \A e \in Events : event[e] # None => EventHeld(e)
    BY ReadersLeave
  <2>. QED BY <2>1 DEF EventHeld, EventStays
<1>3. reader[r] # None => reader[r] \in ReaderState /\ ReaderHolds(r) /\ reader[r].user \in Users
  BY <1>1, ReaderFields DEF NoticeInv, ReadersHold
<1>4. ASSUME NEW u \in Users, UnreadGet(r, u) PROVE UnreadInv'
  <2>. DEFINE s == [pc |-> "count", user |-> u]
  <2>1. s \in ReaderState /\ s.pc # "set" /\ reader' = [reader EXCEPT ![r] = s] /\ reader[r] = None
    BY <1>4 DEF ReaderState, UnreadGet, StartReader
  <2>. HIDE DEF s
  <2>. QED BY <1>2, <1>4, <2>1, NumberBeside DEF UnreadGet, Otherwise, ReaderAt
<1>5. ASSUME NEW u \in Users, NEW n \in Notes, MarkFind(r, u, n) PROVE UnreadInv'
  <2>. DEFINE s == [pc |-> "mark", user |-> u, note |-> n]
  <2>1. s \in ReaderState /\ s.pc # "set" /\ reader' = [reader EXCEPT ![r] = s] /\ reader[r] = None
    BY <1>5 DEF ReaderState, MarkFind, StartReader
  <2>. HIDE DEF s
  <2>. QED BY <1>2, <1>5, <2>1, NumberBeside DEF MarkFind, Otherwise, ReaderAt
<1>6. ASSUME NEW u \in Users, NEW changes \in Asked, PreferenceFind(r, u, changes) PROVE UnreadInv'
  <2>. DEFINE s == IF preference[u] = None
                   THEN [pc |-> "preference.create", user |-> u, changes |-> changes]
                   ELSE [pc |-> "preference.write", user |-> u, copy |-> preference[u],
                         changes |-> changes]
  <2>1. changes \in FlagChanges /\ preference[u] \in PreferenceFlags \cup {None}
    BY NotificationAssumption DEF PreferenceTable, NoticeInv, NoticeTypeOK
  <2>2. s \in ReaderState /\ s.pc # "set" /\ reader' = [reader EXCEPT ![r] = s] /\ reader[r] = None
    BY <1>6, <2>1 DEF ReaderState, PreferenceFind, StartReader
  <2>. HIDE DEF s
  <2>. QED BY <1>2, <1>6, <2>2, NumberBeside DEF PreferenceFind, Otherwise, ReaderAt
<1>7. ASSUME NEW u \in Users, MarkAllRead(r, u) PROVE UnreadInv'
  <2>1. ASSUME NEW n \in Notes
        PROVE  \/ notification'[n] = notification[n]
               \/ /\ notification[n] # None /\ notification[n].recipient = u
                  /\ notification'[n] # None /\ notification'[n].recipient = u
    <3>1. ASSUME notification[n] \in NotificationRow
          PROVE  LET row == [notification[n] EXCEPT !.isRead = TRUE]
                 IN  row \in NotificationRow /\ row.recipient = notification[n].recipient
      BY <3>1 DEF NotificationRow
    <3>. QED BY <1>1, <1>7, <3>1, NoticeRowAssumption DEF MarkAllRead
  <2>2. /\ reader' = [reader EXCEPT ![r] = [pc |-> "invalidate", user |-> u]] /\ reader[r] = None
        /\ UNCHANGED <<event, consumer, unread, outdated>>
    BY <1>7 DEF MarkAllRead, StartReader
  <2>. QED BY <2>1, <2>2, NumberMarked DEF ReaderAt
<1>8. CASE MarkWrite(r)
  <2>. DEFINE m == reader[r].note
              v == reader[r].user
  <2>1. /\ reader[r] # None /\ reader[r].pc = "mark"
        /\ notification' = [notification EXCEPT ![m] = [notification[m] EXCEPT !.isRead = TRUE]]
        /\ reader' = [reader EXCEPT ![r] = [pc |-> "invalidate", user |-> v]]
        /\ UNCHANGED <<event, consumer, unread, outdated>>
    BY <1>8 DEF MarkWrite, ReaderAt
  <2>2. m \in Notes /\ notification[m] \in NotificationRow /\ notification[m].recipient = v /\ v \in Users
    BY <1>1, <1>3, <2>1, ReaderFields DEF ReaderHolds
  <2>3. LET row == [notification[m] EXCEPT !.isRead = TRUE]
        IN  row \in NotificationRow /\ row.recipient = v /\ row # None
    BY <2>2, NoticeRowAssumption DEF NotificationRow
  <2>4. \A n \in Notes : \/ notification'[n] = notification[n]
                         \/ /\ notification[n] # None /\ notification[n].recipient = v
                            /\ notification'[n] # None /\ notification'[n].recipient = v
    BY <1>1, <2>1, <2>2, <2>3, NoticeRowAssumption
  <2>. QED BY <2>1, <2>2, <2>4, NumberMarked DEF ReaderAt
<1>9. CASE UnreadCount(r)
  <2>. DEFINE u == reader[r].user
              s == [pc |-> "set", user |-> u, count |-> CountUnread(u), missed |-> FALSE]
  <2>1. reader[r] # None /\ reader[r].pc = "count" /\ reader' = [reader EXCEPT ![r] = s]
    BY <1>9 DEF UnreadCount, ReaderAt
  <2>2. CountUnread(u) \in Nat
    BY UnreadIsNumber DEF NoticeInv
  <2>3. s \in ReaderState /\ s.count = CountUnread(s.user)
    BY <1>3, <2>1, <2>2 DEF ReaderState
  <2>. HIDE DEF s
  <2>. QED BY <1>2, <1>9, <2>1, <2>3, NumberBeside DEF UnreadCount, Otherwise, ReaderAt
<1>10. CASE UnreadSet(r)
  <2>. DEFINE v == reader[r].user
  <2>1. /\ reader[r] # None /\ reader[r].pc = "set" /\ v \in Users
        /\ reader' = [reader EXCEPT ![r] = None]
        /\ unread' = [unread EXCEPT ![v] = reader[r].count]
        /\ outdated' = IF reader[r].missed THEN outdated \cup {v} ELSE outdated \ {v}
        /\ UNCHANGED <<event, notification, preference, consumer>>
    BY <1>3, <1>10 DEF UnreadSet, ReaderAt, EndReader, Otherwise
  <2>2. \A q \in Readers : reader'[q] = IF q = r THEN None ELSE reader[q]
    BY <1>1, <2>1
  <2>3. ASSUME NEW u \in Users PROVE AboutToInvalidate(u)' \/ Follows(u)'
    <3>1. CountUnread(u)' = CountUnread(u)
      BY <2>1 DEF CountUnread
    <3>2. \A q \in Readers : Due(q, u) => Due(q, u)'
      BY <2>1, <2>2 DEF Due, ReaderAt
    <3>3. \A k \in Consumers : DueBy(k, u) => DueBy(k, u)'
      BY <1>2, <2>1, DueByStays
    <3>4. \A q \in Readers : \/ reader'[q] = reader[q]
                             \/ reader'[q] = None \/ reader'[q].pc # "set" \/ reader'[q].missed
                             \/ reader'[q].user # u \/ reader'[q].count = CountUnread(u)
      BY <2>2
    <3>5. \/ unread'[u] = unread[u] /\ (u \notin outdated' => u \notin outdated)
          \/ u \in outdated' \/ (Follows(u) => unread'[u] = CountUnread(u))
      BY <1>1, <2>1 DEF Follows, ReaderAt
    <3>6. AboutToInvalidate(u) \/ Follows(u)
      BY DEF UnreadInv
    <3>. QED BY <3>1, <3>2, <3>3, <3>4, <3>5, <3>6, NumberStays
  <2>. QED BY <2>3 DEF UnreadInv
<1>11. ASSUME reader[r] # None, NEW done \in BOOLEAN, Otherwise,
              InvalidateUnread(reader[r].user, done, [reader EXCEPT ![r] = None])
       PROVE  UnreadInv'
  <2>. DEFINE rest == [reader EXCEPT ![r] = None]
              v == reader[r].user
  <2>1. /\ rest \in [Readers -> ReaderState \cup {None}]
        /\ \A q \in Readers : rest[q] = IF q = r THEN None ELSE reader[q]
    BY <1>1
  <2>. HIDE DEF rest
  <2>2. InvalidateUnread(v, done, rest)
    BY <1>11 DEF rest
  <2>3. /\ \A q \in Readers : rest[q] = reader[q] \/ rest[q] = None
        /\ \A q \in Readers : \A u \in Users \ {v} : Due(q, u) => rest[q] = reader[q]
    BY <2>1 DEF Due
  <2>4. \A k \in Consumers : \A u \in Users \ {v} : DueBy(k, u) => DueBy(k, u)'
    BY <1>2, <1>11, DueByStays DEF Otherwise
  <2>5. v \in Users /\ UNCHANGED notification
    BY <1>3, <1>11 DEF Otherwise
  <2>. HIDE DEF v
  <2>. QED BY <2>1, <2>2, <2>3, <2>4, <2>5, NumberInvalidated
<1>12. CASE ReaderInvalidates(r)
  BY <1>11, <1>12 DEF ReaderInvalidates, ReaderAt
<1>13. CASE ReaderFail(r)
  <2>1. CASE ReaderAt(r, "invalidate")
    BY <1>11, <1>13, <2>1 DEF ReaderFail
  <2>2. CASE ~ReaderAt(r, "invalidate")
    <3>1. /\ reader' = [reader EXCEPT ![r] = None] /\ None \in ReaderState \cup {None}
          /\ UNCHANGED <<notification, consumer, unread, outdated>>
      BY <1>13, <2>2 DEF ReaderFail, Otherwise
    <3>. QED BY <1>2, <2>2, <3>1, NumberBeside
  <2>. QED BY <2>1, <2>2
<1>14. CASE PreferenceCreate(r)
  <2>1. /\ reader[r] # None /\ reader[r].pc = "preference.create"
        /\ UNCHANGED <<notification, consumer, unread, outdated>>
    BY <1>14 DEF PreferenceCreate, ReaderAt
  <2>2. reader[r].changes \in FlagChanges /\ DefaultFlags \in PreferenceFlags
    BY <1>3, <2>1, ReaderFields DEF DefaultFlags, PreferenceFlags
  <2>. DEFINE s == [pc |-> "preference.write", user |-> reader[r].user,
                    copy |-> DefaultFlags, changes |-> reader[r].changes]
  <2>3. s \in ReaderState /\ s.pc # "set"
    BY <1>3, <2>1, <2>2 DEF ReaderState
  <2>4. reader' = [reader EXCEPT ![r] = None] \/ reader' = [reader EXCEPT ![r] = s]
    BY <1>14 DEF PreferenceCreate, EndReader
  <2>. HIDE DEF s
  <2>5. None \in ReaderState \cup {None} /\ ~ReaderAt(r, "invalidate")
    BY <2>1 DEF ReaderAt
  <2>. QED BY <1>2, <2>1, <2>3, <2>4, <2>5, NumberBeside
<1>15. CASE PreferenceWrite(r)
  <2>1. /\ ~ReaderAt(r, "invalidate") /\ reader' = [reader EXCEPT ![r] = None]
        /\ UNCHANGED <<notification, consumer, unread, outdated>> /\ None \in ReaderState \cup {None}
    BY <1>15 DEF PreferenceWrite, ReaderAt, EndReader
  <2>. QED BY <1>2, <2>1, NumberBeside
<1>. QED BY <1>4, <1>5, <1>6, <1>7, <1>8, <1>9, <1>10, <1>12, <1>13, <1>14, <1>15
     DEF NotificationRoutes, ReaderProceeds

LEMMA DeliveriesFollow ==
  ASSUME NoticeInv, UnreadInv, NEW k \in Consumers, RegisterConsumers(k)
  PROVE  UnreadInv'
<1>1. /\ consumer \in [Consumers -> Delivery \cup {None}] /\ reader \in [Readers -> ReaderState \cup {None}]
      /\ notification \in [Notes -> NotificationRow \cup {None}]
  BY DEF NoticeInv, NoticeTypeOK
<1>2. \A e \in Events : event[e] # None => event'[e].recipients = event[e].recipients
  BY NoticesLeaveEvents DEF NoticeNext, EventsStay
<1>3. \A j \in Consumers \ {k} : consumer'[j] = consumer[j]
  BY <1>1 DEF RegisterConsumers, Deliver, NoticeAsk, NoticeCreate, NoticeInvalidate, NoticeAck,
     NoticeFail
<1>4. ASSUME ~ConsumerAt(k, "invalidate"), UNCHANGED <<notification, reader, unread, outdated>>
      PROVE  UnreadInv'
  <2>1. ASSUME NEW u \in Users PROVE AboutToInvalidate(u)' \/ Follows(u)'
    <3>1. CountUnread(u)' = CountUnread(u)
      BY <1>4 DEF CountUnread
    <3>2. \A r \in Readers : Due(r, u) => Due(r, u)'
      BY <1>4 DEF Due, ReaderAt
    <3>3. \A j \in Consumers : DueBy(j, u) => DueBy(j, u)'
      <4>1. ~DueBy(k, u)
        BY <1>4 DEF DueBy
      <4>. QED BY <1>2, <1>3, <4>1, DueByMoves
    <3>4. /\ unread'[u] = unread[u] /\ (u \notin outdated' => u \notin outdated)
          /\ \A r \in Readers : reader'[r] = reader[r]
      BY <1>4
    <3>5. AboutToInvalidate(u) \/ Follows(u)
      BY DEF UnreadInv
    <3>. QED BY <3>1, <3>2, <3>3, <3>4, <3>5, NumberStays
  <2>. QED BY <2>1 DEF UnreadInv
<1>5. ASSUME ConsumerAt(k, "invalidate"), NEW done \in BOOLEAN,
             InvalidateUnread(Recipient(k), done, reader), UNCHANGED notification
      PROVE  UnreadInv'
  <2>. DEFINE v == Recipient(k)
  <2>1. v \in Users
    BY <1>5, DeliveryFields DEF ConsumerAt
  <2>2. ASSUME NEW u \in Users \ {v} PROVE \A j \in Consumers : DueBy(j, u) => DueBy(j, u)'
    <3>1. ~DueBy(k, u)
      BY <2>2 DEF DueBy
    <3>. QED BY <1>2, <1>3, <3>1, DueByMoves
  <2>. HIDE DEF v
  <2>3. InvalidateUnread(v, done, reader)
    BY <1>5 DEF v
  <2>. QED BY <1>1, <1>5, <2>1, <2>2, <2>3, NumberInvalidated
<1>6. ASSUME NEW e \in Events, Deliver(k, e) PROVE UnreadInv'
  BY <1>4, <1>6 DEF Deliver, ConsumerAt
<1>7. CASE NoticeAsk(k)
  BY <1>4, <1>7 DEF NoticeAsk, ConsumerAt
<1>8. CASE NoticeAck(k)
  BY <1>4, <1>8 DEF NoticeAck, ConsumerAt
<1>9. CASE NoticeInvalidate(k)
  BY <1>5, <1>9 DEF NoticeInvalidate
<1>10. CASE NoticeFail(k)
  <2>1. CASE ConsumerAt(k, "invalidate")
    BY <1>5, <1>10, <2>1 DEF NoticeFail
  <2>2. CASE ~ConsumerAt(k, "invalidate")
    BY <1>4, <1>10, <2>2 DEF NoticeFail
  <2>. QED BY <2>1, <2>2
<1>11. ASSUME NEW n \in Notes, NoticeCreate(k, n) PROVE UnreadInv'
  <2>. DEFINE d == [consumer[k] EXCEPT !.pc = "invalidate"]
              v == Recipient(k)
              row == NewNotification(v, consumer[k].event)
  <2>1. /\ consumer[k] # None /\ consumer[k].pc = "create" /\ consumer[k] \in Delivery /\ v \in Users
        /\ consumer' = [consumer EXCEPT ![k] = d]
        /\ notification' = [notification EXCEPT ![n] = row] /\ notification[n] = None
        /\ UNCHANGED <<event, preference, unread, reader, outdated>>
    BY <1>11, DeliveryFields DEF NoticeCreate, ConsumerAt
  <2>2. d \in Delivery /\ d.pc = "invalidate" /\ d.event = consumer[k].event /\ d.at = consumer[k].at
    BY <2>1 DEF Delivery
  <2>3. row.recipient = v
    BY DEF NewNotification
  <2>4. d # None
    BY <2>2, NoticeRowAssumption
  <2>. HIDE DEF d, row
  <2>5. consumer'[k] = d /\ \A m \in Notes : notification'[m] = IF m = n THEN row ELSE notification[m]
    BY <1>1, <2>1
  <2>6. ASSUME NEW u \in Users PROVE AboutToInvalidate(u)' \/ Follows(u)'
    <3>1. CASE u = v
      <4>1. DueBy(k, u)'
        BY <2>1, <2>2, <2>4, <2>5, <3>1 DEF DueBy, ConsumerAt, Recipient
      <4>. QED BY <4>1 DEF AboutToInvalidate, DueBy
    <3>2. CASE u # v
      <4>1. CountUnread(u)' = CountUnread(u)
        <5>1. {m \in Notes : notification'[m] # None /\ notification'[m].recipient = u /\ ~notification'[m].isRead}
                = {m \in Notes : notification[m] # None /\ notification[m].recipient = u /\ ~notification[m].isRead}
          BY <2>1, <2>3, <2>5, <3>2
        <5>. QED BY <5>1 DEF CountUnread
      <4>2. \A r \in Readers : Due(r, u) => Due(r, u)'
        BY <2>1 DEF Due, ReaderAt
      <4>3. \A j \in Consumers : DueBy(j, u) => DueBy(j, u)'
        <5>1. ~DueBy(k, u)
          BY <2>1 DEF DueBy, ConsumerAt
        <5>. QED BY <1>2, <1>3, <5>1, DueByMoves
      <4>4. /\ unread'[u] = unread[u] /\ (u \notin outdated' => u \notin outdated)
            /\ \A r \in Readers : reader'[r] = reader[r]
        BY <2>1
      <4>5. AboutToInvalidate(u) \/ Follows(u)
        BY DEF UnreadInv
      <4>. QED BY <4>1, <4>2, <4>3, <4>4, <4>5, NumberStays
    <3>. QED BY <3>1, <3>2
  <2>. QED BY <2>6 DEF UnreadInv
<1>. QED BY <1>6, <1>7, <1>8, <1>9, <1>10, <1>11 DEF RegisterConsumers

LEMMA UnreadKeeps ==
  ASSUME NoticeInv, UnreadInv, NoticeStep
  PROVE  UnreadInv'
<1>1. ASSUME UNCHANGED <<notification, consumer, reader>>,
             \A e \in Events : event[e] # None => event'[e].recipients = event[e].recipients,
             \A u \in Users : \/ unread'[u] = None
                              \/ unread'[u] = unread[u] /\ (u \notin outdated' => u \notin outdated)
      PROVE  UnreadInv'
  <2>1. ASSUME NEW u \in Users PROVE AboutToInvalidate(u)' \/ Follows(u)'
    <3>1. CountUnread(u)' = CountUnread(u)
      BY <1>1 DEF CountUnread
    <3>2. \A r \in Readers : Due(r, u) => Due(r, u)'
      BY <1>1 DEF Due, ReaderAt
    <3>3. \A j \in Consumers : DueBy(j, u) => DueBy(j, u)'
      BY <1>1, DueByStays
    <3>4. \A r \in Readers : reader'[r] = reader[r]
      BY <1>1
    <3>5. AboutToInvalidate(u) \/ Follows(u)
      BY DEF UnreadInv
    <3>. QED BY <1>1, <3>1, <3>2, <3>3, <3>4, <3>5, NumberStays
  <2>. QED BY <2>1 DEF UnreadInv
<1>2. ASSUME NEW v \in Users, UnreadExpires(v) PROVE UnreadInv'
  <2>1. \A u \in Users : \/ unread'[u] = None
                         \/ unread'[u] = unread[u] /\ (u \notin outdated' => u \notin outdated)
    BY <1>2 DEF UnreadExpires, NoticeInv, NoticeTypeOK
  <2>2. UNCHANGED <<notification, consumer, reader, event>>
    BY <1>2 DEF UnreadExpires, Otherwise
  <2>. QED BY <1>1, <2>1, <2>2
<1>3. CASE UNCHANGED noticeVars
  BY <1>1, <1>3 DEF noticeVars
<1>4. ASSUME NEW e \in Events, NEW category \in PreferenceCategory, NEW recipients \in OnceEach,
             Sends(e, category, recipients)
      PROVE  UnreadInv'
  <2>1. event[e] = None /\ \A f \in Events \ {e} : event'[f] = event[f]
    BY <1>4, EnqueueKeeps DEF Sends, OnceEach, Enqueue
  <2>2. UNCHANGED <<notification, consumer, reader, unread, outdated>>
    BY <1>4 DEF Sends
  <2>. QED BY <1>1, <2>1, <2>2
<1>. QED BY <1>2, <1>3, <1>4, RequestsFollow, DeliveriesFollow DEF NoticeStep, NoticeNext

\* The number in Redis is the number of unread rows except while an invalidation is
\* due, and after one that failed or missed a reader, until the entry expires
\* (notification.service.ts unreadCount, invalidateUnread).
THEOREM UnreadIsRight == MessagingSpec => []UnreadCountFollows
<1>1. MessagingInit => UnreadInv
  BY DEF MessagingInit, NoticeInit, UnreadInv, Follows, ReaderAt
<1>2. BothInv /\ UnreadInv /\ [MessagingNext]_<<noticeVars, chatVars>> => UnreadInv'
  BY NoticeSteps, UnreadKeeps DEF BothInv
<1>3. UnreadInv => UnreadCountFollows
  BY DEF UnreadInv, Follows, UnreadCountFollows
<1>. QED BY <1>1, <1>2, <1>3, BothCorrect, PTL DEF MessagingSpec
=============================================================================
