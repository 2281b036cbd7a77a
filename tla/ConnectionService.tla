-------------------------- MODULE ConnectionService --------------------------
(***************************************************************************)
(* The social graph of connection-service: connection rows, follow edges   *)
(* and blocks.  Every HTTP handler is a sequence of SQL statements and     *)
(* broker calls separated by awaits; no transaction spans two of them, so  *)
(* each statement is one step here and any two handlers interleave between *)
(* statements.  A handler works on the row it loaded, and an UPDATE names  *)
(* only the row's id and the columns that differ from the loaded copy.     *)
(***************************************************************************)
EXTENDS Naturals, FiniteSets

CONSTANTS Users,     \* user ids
          Handlers,  \* HTTP requests that can be in progress at once
          RowIds,    \* primary keys of the connections table
          None       \* absent row, user or id

ASSUME NoneAssumption == None \notin Users /\ None \notin RowIds

VARIABLES row,        \* the connections table, by primary key
          follows,    \* the follows table: <<follower, following>>
          blocks,     \* the blocks table: <<blocker, blocked>>
          accepted,   \* <<requester, addressee>> of the connection.accepted events
                      \* confirmed; of connection.requested only the step is kept
          handler,    \* local state of the requests in progress
          consent,    \* history: <<u, v>> when u asked for, or accepted, v
          raced,      \* history: pairs two handlers worked on at once
          halfDone    \* history: pairs whose last block call died half way

vars == <<row, follows, blocks, accepted, handler, consent, raced, halfDone>>
-----------------------------------------------------------------------------
Status == {"PENDING", "ACCEPTED", "REJECTED", "WITHDRAWN"}
Row == [requester : Users, addressee : Users, status : Status]

RequestPCs == {"request.find", "request.revive", "request.create", "request.publish"}
BlockPCs == {"block.follows1", "block.follows2", "block.find", "block.delete"}
AnswerPCs == {"accept.write", "accept.publish", "reject.write",
              "withdraw.write", "withdraw.delete"}
PCs == {"idle", "follow.create"} \cup RequestPCs \cup BlockPCs \cup AnswerPCs

\* me: x-user-id of the caller; other: the counterpart; id and loaded: the row read.
HandlerState == [pc : PCs, me : Users \cup {None}, other : Users \cup {None},
                 id : RowIds \cup {None}, loaded : Row \cup {None}]
Idle == [pc |-> "idle", me |-> None, other |-> None, id |-> None, loaded |-> None]

TypeOK ==
  /\ row \in [RowIds -> Row \cup {None}]
  /\ follows \subseteq Users \X Users
  /\ blocks \subseteq Users \X Users
  /\ accepted \subseteq Users \X Users
  /\ handler \in [Handlers -> HandlerState]
  /\ consent \subseteq Users \X Users
  /\ raced \subseteq SUBSET Users /\ halfDone \subseteq SUBSET Users
-----------------------------------------------------------------------------
Pair(u, v) == {u, v}
IsBetween(r, u, v) ==
  r # None /\ (\/ r.requester = u /\ r.addressee = v
               \/ r.requester = v /\ r.addressee = u)

\* blockRepository.existsBetween
Blocked(u, v) == <<u, v>> \in blocks \/ <<v, u>> \in blocks
\* The ids findBetween may answer: findOne has no ORDER BY, so any match.
RowsBetween(u, v) == {i \in RowIds : IsBetween(row[i], u, v)}

\* The unique index on (requester_id, addressee_id): directional.
DirectionFree(requester, addressee, except) ==
  \A i \in RowIds \ {except} :
    row[i] # None => ~(row[i].requester = requester /\ row[i].addressee = addressee)

\* A primary key nobody holds: a deleted row's key is reused only when no
\* handler can still address it, which no one can tell from a new uuid.
Fresh(i) == row[i] = None /\ \A h \in Handlers : handler[h].id # i

InFlight(u, v) == {h \in Handlers : /\ handler[h].pc # "idle"
                                    /\ Pair(handler[h].me, handler[h].other) = Pair(u, v)}

Start(h, state) ==
  /\ handler[h] = Idle
  /\ handler' = [handler EXCEPT ![h] = state]
  /\ raced' = IF InFlight(state.me, state.other) = {}
              THEN raced
              ELSE raced \cup {Pair(state.me, state.other)}
  /\ UNCHANGED halfDone
Continue(h, pc) ==
  /\ handler' = [handler EXCEPT ![h].pc = pc]
  /\ UNCHANGED <<raced, halfDone>>
Finish(h) ==
  /\ handler' = [handler EXCEPT ![h] = Idle]
  /\ UNCHANGED <<raced, halfDone>>
\* A block call that runs to its end has torn down what it found.
FinishBlock(h) ==
  /\ handler' = [handler EXCEPT ![h] = Idle]
  /\ halfDone' = halfDone \ {Pair(handler[h].me, handler[h].other)}
  /\ UNCHANGED raced
At(h, pc) == handler[h].pc = pc

\* UPDATE ... WHERE id: no row is touched when it was deleted meanwhile.
SetStatus(id, status) ==
  row' = IF row[id] = None THEN row ELSE [row EXCEPT ![id].status = status]
-----------------------------------------------------------------------------
(* POST /connections: request(requesterId, addresseeId) *)

RequestCheckBlock(h, u, v) ==
  /\ u # v                          \* else 400
  /\ ~Blocked(u, v)                 \* else 403
  /\ Start(h, [Idle EXCEPT !.pc = "request.find", !.me = u, !.other = v])
  /\ UNCHANGED <<row, follows, blocks, accepted, consent>>

RequestFind(h) ==
  /\ At(h, "request.find")
  /\ LET found == RowsBetween(handler[h].me, handler[h].other) IN
     \/ /\ found = {}
        /\ Continue(h, "request.create")
     \/ \E i \in found :
          \/ /\ row[i].status \in {"ACCEPTED", "PENDING"}      \* 409
             /\ Finish(h)
          \/ /\ row[i].status \in {"REJECTED", "WITHDRAWN"}
             /\ handler' = [handler EXCEPT ![h].pc = "request.revive",
                                           ![h].id = i, ![h].loaded = row[i]]
             /\ UNCHANGED <<raced, halfDone>>
  /\ UNCHANGED <<row, follows, blocks, accepted, consent>>

\* Mutant of RequestRevive: the addressee column is left out of the update.
RequestReviveKeepsAddressee(h) ==
  /\ At(h, "request.revive")
  /\ row[handler[h].id] # None
  /\ row' = [row EXCEPT ![handler[h].id].requester = handler[h].me,
                        ![handler[h].id].status = "PENDING"]
  /\ consent' = consent \cup {<<handler[h].me, handler[h].other>>}
  /\ Continue(h, "request.publish")
  /\ UNCHANGED <<follows, blocks, accepted>>

\* row.update writes the two user columns only when the caller is the other
\* side of the loaded row; the directional index may refuse the swap (500).
RequestRevive(h) ==
  /\ At(h, "request.revive")
  /\ LET s == handler[h]
         swap == s.loaded.requester # s.me
     IN
     IF row[s.id] # None /\ swap /\ ~DirectionFree(s.me, s.other, s.id)
     THEN Finish(h) /\ UNCHANGED <<row, consent>>
     ELSE /\ row' = IF row[s.id] = None THEN row
                    ELSE [row EXCEPT ![s.id] =
                           [requester |-> IF swap THEN s.me ELSE @.requester,
                            addressee |-> IF swap THEN s.other ELSE @.addressee,
                            status |-> "PENDING"]]
          /\ consent' = consent \cup {<<s.me, s.other>>}
          /\ Continue(h, "request.publish")
  /\ UNCHANGED <<follows, blocks, accepted>>

RequestCreate(h) ==
  /\ At(h, "request.create")
  /\ LET s == handler[h] IN
     \/ /\ DirectionFree(s.me, s.other, None)
        /\ \E i \in RowIds :
             /\ Fresh(i)
             /\ row' = [row EXCEPT ![i] = [requester |-> s.me, addressee |-> s.other,
                                           status |-> "PENDING"]]
        /\ consent' = consent \cup {<<s.me, s.other>>}
        /\ Continue(h, "request.publish")
     \/ /\ ~DirectionFree(s.me, s.other, None)          \* unique violation: 500
        /\ Finish(h)
        /\ UNCHANGED <<row, consent>>
  /\ UNCHANGED <<follows, blocks, accepted>>

RequestPublish(h) ==
  /\ At(h, "request.publish")
  /\ Finish(h)
  /\ UNCHANGED <<row, follows, blocks, accepted, consent>>
-----------------------------------------------------------------------------
(* accept, reject, withdraw: load the row, test it, write by id *)

Load(h, u, i, pc) ==
  Start(h, [pc |-> pc, me |-> u,
            other |-> IF row[i].requester = u THEN row[i].addressee ELSE row[i].requester,
            id |-> i, loaded |-> row[i]])

\* Mutant of AcceptLoad: any participant of the row may accept.
AcceptLoadByEither(h, u, i) ==
  /\ row[i] # None
  /\ u \in {row[i].requester, row[i].addressee}
  /\ row[i].status = "PENDING"
  /\ Load(h, u, i, "accept.write")
  /\ UNCHANGED <<row, follows, blocks, accepted, consent>>

AcceptLoad(h, u, i) ==
  /\ row[i] # None                                       \* else 404
  /\ row[i].addressee = u                                \* else 403
  /\ row[i].status = "PENDING"                           \* else 409
  /\ Load(h, u, i, "accept.write")
  /\ UNCHANGED <<row, follows, blocks, accepted, consent>>

AcceptWrite(h) ==
  /\ At(h, "accept.write")
  /\ SetStatus(handler[h].id, "ACCEPTED")
  /\ consent' = consent \cup {<<handler[h].me, handler[h].other>>}
  /\ Continue(h, "accept.publish")
  /\ UNCHANGED <<follows, blocks, accepted>>

\* The event carries the users of the loaded row, not of the stored one.
AcceptPublish(h) ==
  /\ At(h, "accept.publish")
  /\ accepted' = accepted \cup
       {<<handler[h].loaded.requester, handler[h].loaded.addressee>>}
  /\ Finish(h)
  /\ UNCHANGED <<row, follows, blocks, consent>>

RejectLoad(h, u, i) ==
  /\ row[i] # None
  /\ row[i].addressee = u
  /\ row[i].status = "PENDING"
  /\ Load(h, u, i, "reject.write")
  /\ UNCHANGED <<row, follows, blocks, accepted, consent>>

\* Mutant of RejectWrite: it goes on to publish connection.accepted.
RejectWriteThenPublish(h) ==
  /\ At(h, "reject.write")
  /\ SetStatus(handler[h].id, "REJECTED")
  /\ Continue(h, "accept.publish")
  /\ UNCHANGED <<follows, blocks, accepted, consent>>

RejectWrite(h) ==
  /\ At(h, "reject.write")
  /\ SetStatus(handler[h].id, "REJECTED")
  /\ Finish(h)
  /\ UNCHANGED <<follows, blocks, accepted, consent>>

\* The requester withdraws a pending request, either side removes an accepted one.
WithdrawLoad(h, u, i) ==
  /\ row[i] # None
  /\ u \in {row[i].requester, row[i].addressee}          \* else 403
  /\ \/ /\ row[i].status = "PENDING" /\ row[i].requester = u
        /\ Load(h, u, i, "withdraw.write")
     \/ /\ row[i].status = "ACCEPTED"
        /\ Load(h, u, i, "withdraw.delete")
  /\ UNCHANGED <<row, follows, blocks, accepted, consent>>

WithdrawWrite(h) ==
  /\ At(h, "withdraw.write")
  /\ SetStatus(handler[h].id, "WITHDRAWN")
  /\ Finish(h)
  /\ UNCHANGED <<follows, blocks, accepted, consent>>

\* Mutant of WithdrawDelete: a removal is recorded as a status of its own.
WithdrawMarksRemoved(h) ==
  /\ At(h, "withdraw.delete")
  /\ SetStatus(handler[h].id, "REMOVED")
  /\ Finish(h)
  /\ UNCHANGED <<follows, blocks, accepted, consent>>

WithdrawDelete(h) ==
  /\ At(h, "withdraw.delete")
  /\ row' = [row EXCEPT ![handler[h].id] = None]
  /\ Finish(h)
  /\ UNCHANGED <<follows, blocks, accepted, consent>>
-----------------------------------------------------------------------------
(* POST /blocks: block(blockerId, blockedId), and unblock *)

BlockCreate(h, u, v) ==
  /\ u # v
  /\ blocks' = blocks \cup {<<u, v>>}                    \* findOrCreate
  /\ Start(h, [Idle EXCEPT !.pc = "block.follows1", !.me = u, !.other = v])
  /\ UNCHANGED <<row, follows, accepted, consent>>

\* Mutant of BlockDropFollows: only the blocker's own follow is removed.
BlockDropsOwnFollow(h) ==
  /\ At(h, "block.follows1")
  /\ follows' = follows \ {<<handler[h].me, handler[h].other>>}
  /\ Continue(h, "block.find")
  /\ UNCHANGED <<row, blocks, accepted, consent>>

\* deleteBothDirections is two DELETE statements.
BlockDropFollows(h) ==
  /\ \/ /\ At(h, "block.follows1")
        /\ follows' = follows \ {<<handler[h].me, handler[h].other>>}
        /\ Continue(h, "block.follows2")
     \/ /\ At(h, "block.follows2")
        /\ follows' = follows \ {<<handler[h].other, handler[h].me>>}
        /\ Continue(h, "block.find")
  /\ UNCHANGED <<row, blocks, accepted, consent>>

BlockFind(h) ==
  /\ At(h, "block.find")
  /\ LET found == RowsBetween(handler[h].me, handler[h].other) IN
     \/ found = {} /\ FinishBlock(h)
     \/ \E i \in found :
          /\ handler' = [handler EXCEPT ![h].pc = "block.delete", ![h].id = i]
          /\ UNCHANGED <<raced, halfDone>>
  /\ UNCHANGED <<row, follows, blocks, accepted, consent>>

BlockDelete(h) ==
  /\ At(h, "block.delete")
  /\ row' = [row EXCEPT ![handler[h].id] = None]
  /\ FinishBlock(h)
  /\ UNCHANGED <<follows, blocks, accepted, consent>>

Unblock(u, v) ==
  /\ <<u, v>> \in blocks
  /\ blocks' = blocks \ {<<u, v>>}
  /\ UNCHANGED <<row, follows, accepted, handler, consent, raced, halfDone>>
-----------------------------------------------------------------------------
(* POST /follows: follow(followerId, followingId), and unfollow *)

FollowCheckBlock(h, u, v) ==
  /\ u # v
  /\ ~Blocked(u, v)
  /\ Start(h, [Idle EXCEPT !.pc = "follow.create", !.me = u, !.other = v])
  /\ UNCHANGED <<row, follows, blocks, accepted, consent>>

FollowCreate(h) ==
  /\ At(h, "follow.create")
  /\ follows' = follows \cup {<<handler[h].me, handler[h].other>>}
  /\ Finish(h)
  /\ UNCHANGED <<row, blocks, accepted, consent>>

Unfollow(u, v) ==
  /\ <<u, v>> \in follows
  /\ follows' = follows \ {<<u, v>>}
  /\ UNCHANGED <<row, blocks, accepted, handler, consent, raced, halfDone>>

\* A statement or a publish fails, or the process dies: the handler ends and
\* what it already wrote stays.
Fail(h) ==
  /\ handler[h].pc # "idle"
  /\ handler' = [handler EXCEPT ![h] = Idle]
  /\ halfDone' = IF handler[h].pc \in BlockPCs
                 THEN halfDone \cup {Pair(handler[h].me, handler[h].other)}
                 ELSE halfDone
  /\ UNCHANGED raced
  /\ UNCHANGED <<row, follows, blocks, accepted, consent>>
-----------------------------------------------------------------------------
Init ==
  /\ row = [i \in RowIds |-> None]
  /\ follows = {} /\ blocks = {} /\ accepted = {}
  /\ handler = [h \in Handlers |-> Idle]
  /\ consent = {} /\ raced = {} /\ halfDone = {}

Begin(h) ==
  \/ \E u, v \in Users : \/ RequestCheckBlock(h, u, v)
                         \/ BlockCreate(h, u, v)
                         \/ FollowCheckBlock(h, u, v)
  \/ \E u \in Users, i \in RowIds : \/ AcceptLoad(h, u, i)
                                    \/ RejectLoad(h, u, i)
                                    \/ WithdrawLoad(h, u, i)
Proceed(h) ==
  \/ RequestFind(h) \/ RequestRevive(h) \/ RequestCreate(h) \/ RequestPublish(h)
  \/ AcceptWrite(h) \/ AcceptPublish(h) \/ RejectWrite(h)
  \/ WithdrawWrite(h) \/ WithdrawDelete(h)
  \/ BlockDropFollows(h) \/ BlockFind(h) \/ BlockDelete(h)
  \/ FollowCreate(h)
  \/ Fail(h)

Next ==
  \/ \E h \in Handlers : Begin(h) \/ Proceed(h)
  \/ \E u, v \in Users : Unblock(u, v) \/ Unfollow(u, v)

Spec == Init /\ [][Next]_vars
-----------------------------------------------------------------------------
\* Nobody is connected against their will: whatever stale rows the handlers
\* write back, an accepted row joins two users who each asked for, or
\* accepted, the other (connection.service.ts request and accept).
MutualConsent ==
  \A i \in RowIds :
    (row[i] # None /\ row[i].status = "ACCEPTED") =>
      /\ <<row[i].requester, row[i].addressee>> \in consent
      /\ <<row[i].addressee, row[i].requester>> \in consent

\* connection.accepted is about a request its requester made and its addressee
\* accepted, although the event is built from the copy loaded before the write.
AcceptedEventsTruthful ==
  \A e \in accepted : e \in consent /\ <<e[2], e[1]>> \in consent

\* A pair no two handlers worked on at once has one connection row at most
\* (findBetween before create); when no handler is at work on it and its last
\* block call ran to the end, were it the retry of one that died half way, a
\* block leaves neither a row nor a follow edge (block.service.ts).
UndisturbedPairs ==
  \A u, v \in Users :
    Pair(u, v) \notin raced \cup halfDone =>
      /\ \A i, j \in RowsBetween(u, v) : i = j
      /\ (Blocked(u, v) /\ InFlight(u, v) = {}) =>
            RowsBetween(u, v) = {} /\ <<u, v>> \notin follows /\ <<v, u>> \notin follows

\* A row is about the same two users for life: reviving it from either side,
\* from a stale copy, with another revival under way, may turn it round but
\* never joins a third user or a user to themself.
RowKeepsItsPair ==
  [][\A i \in RowIds :
       (row[i] # None /\ row'[i] # None) =>
         IsBetween(row'[i], row[i].requester, row[i].addressee)]_row

\* What block.service.ts says of block: "any follows (both directions) and any
\* connection between the two are torn down".  Once every handler is done, and
\* the block call answered with success, a blocked pair has no follow edge and
\* no connection.
BlockTearsDown ==
  (\A h \in Handlers : handler[h].pc = "idle") =>
    \A u, v \in Users :
      (Blocked(u, v) /\ Pair(u, v) \notin halfDone) =>
        RowsBetween(u, v) = {} /\ <<u, v>> \notin follows
-----------------------------------------------------------------------------
(* The inductive invariant behind MutualConsent and RowKeepsItsPair. *)

HoldsRow == {"request.revive", "accept.write", "accept.publish", "reject.write",
             "withdraw.write", "withdraw.delete", "block.delete"}

\* A handler that will write by id still addresses a row of its own pair: keys
\* are not reused under it and rows keep their pairs.
AddressesItsPair(h) ==
  /\ handler[h].pc # "idle" => handler[h].me \in Users /\ handler[h].other \in Users
  /\ handler[h].pc \in HoldsRow =>
       /\ handler[h].id \in RowIds
       /\ row[handler[h].id] # None =>
            IsBetween(row[handler[h].id], handler[h].me, handler[h].other)
  /\ handler[h].pc = "request.revive" =>
       IsBetween(handler[h].loaded, handler[h].me, handler[h].other)

\* An accepting handler answers the requester of the copy it loaded, who asked.
AnswersARequest(h) ==
  handler[h].pc \in {"accept.write", "accept.publish"} =>
    /\ handler[h].loaded # None
    /\ handler[h].loaded.requester = handler[h].other
    /\ handler[h].loaded.addressee = handler[h].me
    /\ <<handler[h].other, handler[h].me>> \in consent
    /\ handler[h].pc = "accept.publish" =>
         <<handler[h].me, handler[h].other>> \in consent

\* The requester of a row asked for it, and its addressee accepted if it is.
Consented(i) ==
  row[i] # None =>
    /\ <<row[i].requester, row[i].addressee>> \in consent
    /\ row[i].status = "ACCEPTED" => <<row[i].addressee, row[i].requester>> \in consent

ConsentInv ==
  /\ TypeOK
  /\ \A h \in Handlers : AddressesItsPair(h) /\ AnswersARequest(h)
  /\ \A i \in RowIds : Consented(i)
  /\ AcceptedEventsTruthful
=============================================================================
