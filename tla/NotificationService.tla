-------------------------- MODULE NotificationService --------------------------
(***************************************************************************)
(* notification-service: the consumers that turn events into rows of       *)
(* notifications, the preferences they respect, the requests that read and *)
(* mark rows, and the number of unread rows kept in Redis for 30 seconds.  *)
(*                                                                         *)
(* Of the bus it relies on DeliveryContract: an event stays open until it  *)
(* is acked or dead-lettered, and while it is open its handler may run     *)
(* again.  Every Redis and SQL call is a step of its own.                  *)
(***************************************************************************)
EXTENDS Naturals, Sequences, FiniteSets

CONSTANTS Users,
          Events,       \* keys of events
          Notes,        \* keys of notifications
          Consumers,    \* deliveries in progress, at most the prefetch
          Readers,      \* requests in progress
          Asked,        \* bound: the preference updates requests ask for
          MaxCopies,    \* bound: copies of an event, more than one if a confirm was lost
          MaxRuns,      \* bound: runs of the handler for one event
          None

\* The flags a consumer looks at.
PreferenceCategory == {"connections", "messages", "posts", "jobs"}
Flags == {"inApp"} \cup PreferenceCategory
PreferenceFlags == [Flags -> BOOLEAN]
\* A body of PUT /preferences: any of the flags.
FlagChanges == UNION {[named -> BOOLEAN] : named \in SUBSET Flags}

ASSUME NotificationAssumption ==
  /\ Asked \subseteq FlagChanges
  /\ MaxCopies \in Nat \ {0} /\ MaxRuns \in Nat
  /\ None \notin Users \cup Events \cup Notes \cup PreferenceFlags

VARIABLES event,         \* events that reached the notify queues
          notification,  \* the notifications table
          preference,    \* the notification_preferences table, by user_id
          unread,        \* Redis: unread:<user>
          consumer, reader,
          outdated       \* history: users whose cached number an invalidation missed

noticeVars == <<event, notification, preference, unread, consumer, reader, outdated>>
-----------------------------------------------------------------------------
NotificationRow == [recipient : Users, event : Events, isRead : BOOLEAN]
PreferenceTable == [Users -> PreferenceFlags \cup {None}]
\* copies: those neither acked nor dead-lettered.
\* entitled: the recipients who wanted such notifications when the event was sent,
\* wavered: those who changed their preferences while it was open (both histories).
EventRecord == [category : PreferenceCategory, recipients : Seq(Users),
                copies : 0..MaxCopies, acked : BOOLEAN, runs : 0..MaxRuns,
                entitled : SUBSET Users, wavered : SUBSET Users]
Delivery == [pc : {"ask", "create", "invalidate"}, event : Events, at : Nat \ {0}]
ReaderState ==
  [pc : {"count", "invalidate"}, user : Users]
  \cup [pc : {"set"}, user : Users, count : Nat, missed : BOOLEAN]
  \cup [pc : {"mark"}, user : Users, note : Notes]
  \cup [pc : {"preference.create"}, user : Users, changes : FlagChanges]
  \cup [pc : {"preference.write"}, user : Users, copy : PreferenceFlags, changes : FlagChanges]

ASSUME NoticeRowAssumption ==
  None \notin EventRecord \cup NotificationRow \cup Delivery \cup ReaderState

NoticeTypeOK ==
  /\ event \in [Events -> EventRecord \cup {None}]
  /\ notification \in [Notes -> NotificationRow \cup {None}]
  /\ preference \in PreferenceTable
  /\ unread \in [Users -> Nat \cup {None}]
  /\ consumer \in [Consumers -> Delivery \cup {None}]
  /\ reader \in [Readers -> ReaderState \cup {None}]
  /\ outdated \subseteq Users

Rows(e, u) == {n \in Notes : /\ notification[n] # None
                             /\ notification[n].event = e /\ notification[n].recipient = u}
CountUnread(u) == Cardinality({n \in Notes : /\ notification[n] # None
                                             /\ notification[n].recipient = u
                                             /\ ~notification[n].isRead})
RecipientsOf(e) == {event[e].recipients[i] : i \in DOMAIN event[e].recipients}
DefaultFlags == [f \in Flags |-> TRUE]

\* allowsInApp: everything is allowed until a preferences row says otherwise.
AllowsInApp(table, u, category) == table[u] = None \/ (table[u]["inApp"] /\ table[u][category])
-----------------------------------------------------------------------------
(* What the other services send. *)

Notice(category, recipients) ==
  [category |-> category, recipients |-> recipients,
   copies |-> 1, acked |-> FALSE, runs |-> 0,
   entitled |-> {u \in {recipients[i] : i \in DOMAIN recipients} :
                   AllowsInApp(preference, u, category)},
   wavered |-> {}]

ConnectionRequested(addressee) == Notice("connections", <<addressee>>)
ConnectionAccepted(requester) == Notice("connections", <<requester>>)
\* The consumers drop an author's own reaction and comment, but they look for the
\* actor under a name the event does not use, so that they drop nothing.
PostReacted(author) == Notice("posts", <<author>>)
PostCommented(author) == Notice("posts", <<author>>)
MessageSent(recipients) == Notice("messages", recipients)
JobApplied(poster) == Notice("jobs", <<poster>>)

\* An event reaches the queue, more than once if publishEvent saw no confirm.  One that
\* was published before the queue was bound never does, and is none of Events.
Enqueue(e, notice) ==
  /\ event[e] = None
  /\ \E n \in 1..MaxCopies : event' = [event EXCEPT ![e] = [notice EXCEPT !.copies = n]]

OtherServices(e) ==
  /\ \E u \in Users : Enqueue(e, ConnectionRequested(u)) \/ Enqueue(e, ConnectionAccepted(u))
                      \/ Enqueue(e, PostReacted(u)) \/ Enqueue(e, PostCommented(u))
                      \/ Enqueue(e, JobApplied(u))
  /\ UNCHANGED <<notification, preference, unread, consumer, reader, outdated>>
-----------------------------------------------------------------------------
(* The number of unread notifications in Redis. *)

ReaderAt(r, pc) == reader[r] # None /\ reader[r].pc = pc
StartReader(r, state) == reader[r] = None /\ reader' = [reader EXCEPT ![r] = state]
EndReader(r) == reader' = [reader EXCEPT ![r] = None]
Otherwise == UNCHANGED <<event, notification, preference, consumer>>

\* invalidateUnread, which leaves the entry where it is if Redis does not answer.
\* Who is about to store a number that is wrong by now is missed by it.
InvalidateUnread(u, done, rest) ==
  /\ unread' = IF done THEN [unread EXCEPT ![u] = None] ELSE unread
  /\ outdated' = IF done THEN outdated \ {u}
                 ELSE outdated \cup {v \in {u} : unread[v] # None}
  /\ reader' = [r \in Readers |->
       IF rest[r] # None /\ rest[r].pc = "set" /\ rest[r].user = u /\ rest[r].count # CountUnread(u)
       THEN [rest[r] EXCEPT !.missed = TRUE] ELSE rest[r]]

\* unreadCount: answered from Redis, or counted and stored.
UnreadGet(r, u) ==
  /\ unread[u] = None                                      \* else answered
  /\ StartReader(r, [pc |-> "count", user |-> u])
  /\ UNCHANGED <<unread, outdated>> /\ Otherwise

UnreadCount(r) ==
  /\ ReaderAt(r, "count")
  /\ LET u == reader[r].user IN
     reader' = [reader EXCEPT ![r] = [pc |-> "set", user |-> u, count |-> CountUnread(u),
                                      missed |-> FALSE]]
  /\ UNCHANGED <<unread, outdated>> /\ Otherwise

UnreadSet(r) ==
  /\ ReaderAt(r, "set")
  /\ LET u == reader[r].user IN
     /\ unread' = [unread EXCEPT ![u] = reader[r].count]
     /\ outdated' = IF reader[r].missed THEN outdated \cup {u} ELSE outdated \ {u}
  /\ EndReader(r) /\ Otherwise

\* 30 seconds later.
UnreadExpires(u) ==
  /\ unread[u] # None
  /\ unread' = [unread EXCEPT ![u] = None]
  /\ outdated' = outdated \ {u}
  /\ UNCHANGED reader /\ Otherwise
-----------------------------------------------------------------------------
(* markRead and markAllRead *)

MarkFind(r, u, n) ==
  /\ notification[n] # None                                \* else 404
  /\ notification[n].recipient = u                         \* else 403
  /\ ~notification[n].isRead                               \* else answered
  /\ StartReader(r, [pc |-> "mark", user |-> u, note |-> n])
  /\ UNCHANGED <<unread, outdated>> /\ Otherwise

MarkWrite(r) ==
  /\ ReaderAt(r, "mark")
  /\ notification' = [notification EXCEPT ![reader[r].note].isRead = TRUE]
  /\ reader' = [reader EXCEPT ![r] = [pc |-> "invalidate", user |-> reader[r].user]]
  /\ UNCHANGED <<event, preference, unread, consumer, outdated>>

\* Mutant of MarkAllRead: the cached number is left to expire.
MarkAllQuietly(r, u) ==
  /\ reader[r] = None
  /\ notification' = [n \in Notes |->
       IF notification[n] # None /\ notification[n].recipient = u
       THEN [notification[n] EXCEPT !.isRead = TRUE] ELSE notification[n]]
  /\ UNCHANGED <<event, preference, unread, consumer, reader, outdated>>

MarkAllRead(r, u) ==
  /\ StartReader(r, [pc |-> "invalidate", user |-> u])
  /\ notification' = [n \in Notes |->
       IF notification[n] # None /\ notification[n].recipient = u
       THEN [notification[n] EXCEPT !.isRead = TRUE] ELSE notification[n]]
  /\ UNCHANGED <<event, preference, unread, consumer, outdated>>

ReaderInvalidates(r) ==
  /\ ReaderAt(r, "invalidate")
  /\ \E done \in BOOLEAN : InvalidateUnread(reader[r].user, done, [reader EXCEPT ![r] = None])
  /\ Otherwise
-----------------------------------------------------------------------------
(* preference.service.ts.  getOrCreate is an update that names no flag. *)

PreferenceFind(r, u, changes) ==
  /\ StartReader(r, IF preference[u] = None
                    THEN [pc |-> "preference.create", user |-> u, changes |-> changes]
                    ELSE [pc |-> "preference.write", user |-> u, copy |-> preference[u],
                          changes |-> changes])
  /\ UNCHANGED <<unread, outdated>> /\ Otherwise

\* The unique constraint refuses a second row of a user.
PreferenceCreate(r) ==
  /\ ReaderAt(r, "preference.create")
  /\ LET u == reader[r].user IN
     IF preference[u] # None THEN EndReader(r) /\ UNCHANGED preference
     ELSE /\ preference' = [preference EXCEPT ![u] = DefaultFlags]
          /\ reader' = [reader EXCEPT ![r] = [pc |-> "preference.write", user |-> u,
                          copy |-> DefaultFlags, changes |-> reader[r].changes]]
  /\ UNCHANGED <<event, notification, unread, consumer, outdated>>

\* Mutant of Switched: a flag the body does not name is written as null.
SwitchedToNull(flags, copy, changes) ==
  [f \in Flags |-> IF f \in DOMAIN changes THEN changes[f] ELSE None]

\* row.update writes the flags that differ from the loaded copy.
Switched(flags, copy, changes) ==
  [f \in Flags |-> IF f \in DOMAIN changes /\ changes[f] # copy[f] THEN changes[f] ELSE flags[f]]

PreferenceWrite(r) ==
  /\ ReaderAt(r, "preference.write")
  /\ LET u == reader[r].user
         flags == Switched(preference[u], reader[r].copy, reader[r].changes)
     IN  /\ preference' = [preference EXCEPT ![u] = flags]
         /\ event' = [e \in Events |->
              IF event[e] # None /\ event[e].copies > 0 /\ u \in RecipientsOf(e)
                 /\ flags # preference[u]
              THEN [event[e] EXCEPT !.wavered = @ \cup {u}] ELSE event[e]]
  /\ EndReader(r)
  /\ UNCHANGED <<notification, unread, consumer, outdated>>
-----------------------------------------------------------------------------
(* consumers.ts: one recipient after the other. *)

Handling(e) == {k \in Consumers : consumer[k] # None /\ consumer[k].event = e}
ConsumerAt(k, pc) == consumer[k] # None /\ consumer[k].pc = pc
AllAsked(k) == consumer[k].at > Len(event[consumer[k].event].recipients)
Recipient(k) == event[consumer[k].event].recipients[consumer[k].at]
NextRecipient(d) == [d EXCEPT !.pc = "ask", !.at = @ + 1]

\* The handler runs, for the first time or again.
Deliver(k, e) ==
  /\ consumer[k] = None
  /\ event[e] # None /\ event[e].runs < MaxRuns
  /\ Cardinality(Handling(e)) < event[e].copies
  /\ consumer' = [consumer EXCEPT ![k] = [pc |-> "ask", event |-> e, at |-> 1]]
  /\ event' = [event EXCEPT ![e].runs = @ + 1]
  /\ UNCHANGED <<notification, preference, unread, reader, outdated>>

NoticeAsk(k) ==
  /\ ConsumerAt(k, "ask") /\ ~AllAsked(k)
  /\ consumer' = [consumer EXCEPT ![k] =
       IF AllowsInApp(preference, Recipient(k), event[consumer[k].event].category)
       THEN [@ EXCEPT !.pc = "create"] ELSE NextRecipient(@)]
  /\ UNCHANGED <<event, notification, preference, unread, reader, outdated>>

NewNotification(u, e) == [recipient |-> u, event |-> e, isRead |-> FALSE]

NoticeCreate(k, n) ==
  /\ ConsumerAt(k, "create")
  /\ notification[n] = None
  /\ notification' = [notification EXCEPT ![n] = NewNotification(Recipient(k), consumer[k].event)]
  /\ consumer' = [consumer EXCEPT ![k].pc = "invalidate"]
  /\ UNCHANGED <<event, preference, unread, reader, outdated>>

\* Mutant of NoticeInvalidate: the loop ends with the first who is notified.
NoticeFirstOnly(k) ==
  /\ ConsumerAt(k, "invalidate")
  /\ \E done \in BOOLEAN : InvalidateUnread(Recipient(k), done, reader)
  /\ consumer' = [consumer EXCEPT ![k].pc = "ask",
                    ![k].at = Len(event[consumer[k].event].recipients) + 1]
  /\ UNCHANGED <<event, notification, preference>>

NoticeInvalidate(k) ==
  /\ ConsumerAt(k, "invalidate")
  /\ \E done \in BOOLEAN : InvalidateUnread(Recipient(k), done, reader)
  /\ consumer' = [consumer EXCEPT ![k] = NextRecipient(@)]
  /\ UNCHANGED <<event, notification, preference>>

NoticeAck(k) ==
  /\ ConsumerAt(k, "ask") /\ AllAsked(k)
  /\ event' = [event EXCEPT ![consumer[k].event].acked = TRUE,
                             ![consumer[k].event].copies = @ - 1]
  /\ consumer' = [consumer EXCEPT ![k] = None]
  /\ UNCHANGED <<notification, preference, unread, reader, outdated>>

\* A statement fails or the process dies: the event waits for another run, or is
\* dead-lettered.  An invalidation that was due is not made up for.
NoticeFail(k) ==
  /\ consumer[k] # None
  /\ event' \in {event, [event EXCEPT ![consumer[k].event].copies = @ - 1]}
  /\ consumer' = [consumer EXCEPT ![k] = None]
  /\ IF ConsumerAt(k, "invalidate") THEN InvalidateUnread(Recipient(k), FALSE, reader)
     ELSE UNCHANGED <<unread, outdated, reader>>
  /\ UNCHANGED <<notification, preference>>

ReaderFail(r) ==
  /\ reader[r] # None
  /\ LET rest == [reader EXCEPT ![r] = None] IN
     IF ReaderAt(r, "invalidate") THEN InvalidateUnread(reader[r].user, FALSE, rest)
     ELSE reader' = rest /\ UNCHANGED <<unread, outdated>>
  /\ Otherwise
-----------------------------------------------------------------------------
\* The tables start empty.
NoticeInit ==
  /\ event = [e \in Events |-> None]
  /\ notification = [n \in Notes |-> None]
  /\ preference = [u \in Users |-> None]
  /\ unread = [u \in Users |-> None]
  /\ consumer = [k \in Consumers |-> None]
  /\ reader = [r \in Readers |-> None]
  /\ outdated = {}

\* The API the gateway forwards to.
NotificationRoutes(r) ==
  \E u \in Users :
    \/ UnreadGet(r, u) \/ MarkAllRead(r, u)
    \/ \E n \in Notes : MarkFind(r, u, n)
    \/ \E changes \in Asked : PreferenceFind(r, u, changes)
ReaderProceeds(r) ==
  \/ UnreadCount(r) \/ UnreadSet(r) \/ MarkWrite(r) \/ ReaderInvalidates(r)
  \/ PreferenceCreate(r) \/ PreferenceWrite(r) \/ ReaderFail(r)
RegisterConsumers(k) ==
  \/ \E e \in Events : Deliver(k, e)
  \/ NoticeAsk(k) \/ NoticeInvalidate(k) \/ NoticeAck(k) \/ NoticeFail(k)
  \/ \E n \in Notes : NoticeCreate(k, n)

NoticeNext ==
  \/ \E r \in Readers : NotificationRoutes(r) \/ ReaderProceeds(r)
  \/ \E k \in Consumers : RegisterConsumers(k)
  \/ \E u \in Users : UnreadExpires(u)
-----------------------------------------------------------------------------
AboutToInvalidate(u) ==
  \/ \E r \in Readers : ReaderAt(r, "invalidate") /\ reader[r].user = u
  \/ \E k \in Consumers : ConsumerAt(k, "invalidate") /\ Recipient(k) = u

\* The number in Redis is the number of unread rows, whoever creates, reads and
\* counts at the same time, except while an invalidation is due, and after one
\* that failed or that passed while a reader held a number already wrong; and
\* that lasts until the entry expires.
UnreadCountFollows ==
  \A u \in Users :
    (unread[u] # None /\ u \notin outdated /\ ~AboutToInvalidate(u)) =>
      unread[u] = CountUnread(u)

\* Once an event is acked each recipient has been notified, unless it did not want
\* to be; whoever changed its mind meanwhile may or may not be.  A recipient has
\* a second notification only if the handler ran again, and nobody else has any.
RecipientsAreNotified ==
  \A e \in Events : \A u \in Users :
    IF event[e] = None THEN Rows(e, u) = {}
    ELSE /\ Cardinality(Rows(e, u)) <= IF u \in RecipientsOf(e) THEN event[e].runs ELSE 0
         /\ (u \notin event[e].entitled \cup event[e].wavered) => Rows(e, u) = {}
         /\ (event[e].acked /\ u \in event[e].entitled \ event[e].wavered) =>
              Rows(e, u) # {}
=============================================================================
