------------------------------ MODULE UserService ------------------------------
(***************************************************************************)
(* user-service: profiles made from user.registered, their updates, and    *)
(* the endorsements of a skill; with the users index of search-service,    *)
(* which is fed by user.registered and user.updated.                       *)
(*                                                                         *)
(* Left out: the view counter and the banner (written by one statement     *)
(* each and read by no other operation here) and the profile cache         *)
(* (invalidated but never filled).  A profile has one skill here, and its  *)
(* other sections are in ProfileSections.                                  *)
(***************************************************************************)
EXTENDS SearchIndex

CONSTANTS Users, Endorsers, Handlers,
          Fields, Values,  \* the columns a document is made of
          Registration     \* the document made of a user.registered event

Row == [Fields -> Values \cup {None}]
Blank == [f \in Fields |-> None]

ASSUME UserAssumption ==
  /\ IsFiniteSet(Endorsers)
  /\ Users \subseteq Ids /\ Row \cup {Registration} \subseteq Docs
  /\ Registration \notin Row
  /\ None \notin Nat \cup Row \cup Users \cup Values \cup Fields \cup Endorsers

VARIABLES registered,  \* the queue of user.registered: its copy for each user
          profile,     \* the profiles table
          skill,       \* profile_skills.endorsements; None without a row
          endorsed,    \* skill_endorsements, committed
          handler,     \* requests and event handlers in progress
          failed,      \* history: users with a profile handler that died
          overlapped,  \* history: users with a profile written during an update
          unlinked     \* history: users who removed the skill

userVars == <<registered, profile, skill, endorsed, handler, failed, overlapped, unlinked>>
vars == <<searchVars, userVars>>
-----------------------------------------------------------------------------
ProfilePCs == {"register.create", "register.emit", "register.ack",
               "update.write", "update.emit"}
EndorsePCs == {"endorse.insert", "endorse.count"}
PCs == {"idle"} \cup ProfilePCs \cup EndorsePCs

HandlerState == [pc : PCs, user : Users \cup {None}, by : Endorsers \cup {None},
                 field : Fields \cup {None}, value : Values \cup {None},
                 copy : Row \cup {None}]
Idle == [pc |-> "idle", user |-> None, by |-> None,
         field |-> None, value |-> None, copy |-> None]

TypeOK ==
  /\ SearchTypeOK
  /\ registered \in [Users -> {"no", "queued", "done"}]
  /\ profile \in [Users -> Row \cup {None}]
  /\ skill \in [Users -> Nat \cup {None}]
  /\ endorsed \in [Users -> SUBSET Endorsers]
  /\ handler \in [Handlers -> HandlerState]
  /\ failed \subseteq Users /\ overlapped \subseteq Users /\ unlinked \subseteq Users

At(h, pc) == handler[h].pc = pc
On(u, pcs) == {h \in Handlers : handler[h].user = u /\ handler[h].pc \in pcs}
Start(h, state) ==
  /\ handler[h] = Idle
  /\ handler' = [handler EXCEPT ![h] = state]
Finish(h) == handler' = [handler EXCEPT ![h] = Idle]

Histories == <<failed, overlapped, unlinked>>
Skills == <<skill, endorsed>>
-----------------------------------------------------------------------------
(* user.registered, by auth-service: a copy for user-service, one for search *)

Register(u) ==
  /\ registered[u] = "no"
  /\ registered' = [registered EXCEPT ![u] = "queued"]
  /\ Send(u, Registration)
  /\ UNCHANGED <<profile, Skills, handler, Histories>>

(* profile.service.ts: createFromRegistration, again for each redelivery *)

RegisterFind(h, u) ==
  /\ registered[u] = "queued"
  /\ Start(h, [Idle EXCEPT !.user = u, !.pc = IF profile[u] = None THEN "register.create"
                                                                  ELSE "register.ack"])
  /\ UNCHANGED <<searchVars, registered, profile, Skills, Histories>>

\* Mutant of RegisterCreate: the event itself is announced, not the profile.
RegisterForwards(h) ==
  /\ At(h, "register.create")
  /\ IF profile[handler[h].user] = None
     THEN /\ profile' = [profile EXCEPT ![handler[h].user] = Blank]
          /\ handler' = [handler EXCEPT ![h].pc = "register.emit", ![h].copy = Registration]
     ELSE Finish(h) /\ UNCHANGED profile
  /\ UNCHANGED <<searchVars, registered, Skills, Histories>>

\* A profile that exists by now breaks the primary key: the handler throws and
\* the event comes again.
RegisterCreate(h) ==
  /\ At(h, "register.create")
  /\ IF profile[handler[h].user] = None
     THEN /\ profile' = [profile EXCEPT ![handler[h].user] = Blank]
          /\ handler' = [handler EXCEPT ![h].pc = "register.emit", ![h].copy = Blank]
     ELSE Finish(h) /\ UNCHANGED profile
  /\ UNCHANGED <<searchVars, registered, Skills, Histories>>

RegisterEmit(h) ==
  /\ At(h, "register.emit")
  /\ Send(handler[h].user, handler[h].copy)
  /\ handler' = [handler EXCEPT ![h].pc = "register.ack", ![h].copy = None]
  /\ UNCHANGED <<registered, profile, Skills, Histories>>

RegisterAck(h) ==
  /\ At(h, "register.ack")
  /\ registered' = [registered EXCEPT ![handler[h].user] = "done"]
  /\ Finish(h)
  /\ UNCHANGED <<searchVars, profile, Skills, Histories>>

\* The event failed too often and is in the dead-letter queue.
RegisterBury(u) ==
  /\ registered[u] = "queued"
  /\ registered' = [registered EXCEPT ![u] = "done"]
  /\ failed' = failed \cup {u}
  /\ UNCHANGED <<searchVars, profile, Skills, handler, overlapped, unlinked>>
-----------------------------------------------------------------------------
(* profile.service.ts: update and setAvatar, one field each *)

UpdateFind(h, u, f, v) ==
  /\ profile[u] # None                                    \* else 404
  /\ Start(h, [Idle EXCEPT !.pc = "update.write", !.user = u, !.field = f, !.value = v,
                           !.copy = profile[u]])
  /\ overlapped' = IF On(u, {"register.emit", "update.write", "update.emit"}) # {}
                   THEN overlapped \cup {u} ELSE overlapped
  /\ UNCHANGED <<searchVars, registered, profile, Skills, failed, unlinked>>

\* Mutant of UpdateWrite: every column of the loaded row is written.
UpdateSaveAll(h) ==
  /\ At(h, "update.write")
  /\ LET row == [handler[h].copy EXCEPT ![handler[h].field] = handler[h].value] IN
     /\ profile' = [profile EXCEPT ![handler[h].user] = row]
     /\ handler' = [handler EXCEPT ![h].pc = "update.emit", ![h].copy = row]
  /\ UNCHANGED <<searchVars, registered, Skills, Histories>>

\* row.update writes the column if it differs from the loaded copy, which then
\* has the new value too.
UpdateWrite(h) ==
  /\ At(h, "update.write")
  /\ LET u == handler[h].user
         f == handler[h].field
         v == handler[h].value
     IN  /\ profile' = IF handler[h].copy[f] = v THEN profile
                       ELSE [profile EXCEPT ![u] = [@ EXCEPT ![f] = v]]
         /\ handler' = [handler EXCEPT ![h].pc = "update.emit",
                                       ![h].copy = [@ EXCEPT ![f] = v]]
  /\ UNCHANGED <<searchVars, registered, Skills, Histories>>

\* The document is the copy, not the row as it is now.
UpdateEmit(h) ==
  /\ At(h, "update.emit")
  /\ Send(handler[h].user, handler[h].copy)
  /\ Finish(h)
  /\ UNCHANGED <<registered, profile, Skills, Histories>>
-----------------------------------------------------------------------------
(* skill.service.ts and skill.repository.ts *)

SkillAdd(u) ==
  /\ profile[u] # None                                    \* foreign key
  /\ skill' = [skill EXCEPT ![u] = IF @ = None THEN 0 ELSE @]
  /\ UNCHANGED <<searchVars, registered, profile, endorsed, handler, Histories>>

\* The endorsement rows stay.
SkillRemove(u) ==
  /\ skill[u] # None                                      \* else 404
  /\ skill' = [skill EXCEPT ![u] = None]
  /\ unlinked' = unlinked \cup {u}
  /\ UNCHANGED <<searchVars, registered, profile, endorsed, handler, failed, overlapped>>

\* endorse checks the profile, opens a transaction and reads the link.
EndorseFind(h, u, e) ==
  /\ e # u                                                \* else 400
  /\ profile[u] # None /\ skill[u] # None                 \* else 404
  /\ Start(h, [Idle EXCEPT !.pc = "endorse.insert", !.user = u, !.by = e])
  /\ UNCHANGED <<searchVars, registered, profile, Skills, Histories>>

\* Holders of an uncommitted row with the same key.
SameKey(h) == {g \in On(handler[h].user, {"endorse.count"}) : handler[g].by = handler[h].by}

\* Mutant of EndorseInsert: no unique constraint.
EndorseInsertTwice(h) ==
  /\ At(h, "endorse.insert")
  /\ handler' = [handler EXCEPT ![h].pc = "endorse.count"]
  /\ UNCHANGED <<searchVars, registered, profile, Skills, Histories>>

\* The unique constraint waits for an uncommitted row with the same key, and
\* refuses a committed one (409).
EndorseInsert(h) ==
  /\ At(h, "endorse.insert")
  /\ SameKey(h) = {}
  /\ IF handler[h].by \in endorsed[handler[h].user]
     THEN Finish(h)
     ELSE handler' = [handler EXCEPT ![h].pc = "endorse.count"]
  /\ UNCHANGED <<searchVars, registered, profile, Skills, Histories>>

\* Increment, reload and commit; if the link has gone, reload throws and the
\* insert is rolled back.
EndorseCommit(h) ==
  /\ At(h, "endorse.count")
  /\ LET u == handler[h].user IN
     IF skill[u] = None THEN UNCHANGED Skills
     ELSE /\ skill' = [skill EXCEPT ![u] = @ + 1]
          /\ endorsed' = [endorsed EXCEPT ![u] = @ \cup {handler[h].by}]
  /\ Finish(h)
  /\ UNCHANGED <<searchVars, registered, profile, Histories>>

\* A statement or publish fails, or the process dies; a transaction rolls back.
Fail(h) ==
  /\ ~At(h, "idle")
  /\ Finish(h)
  /\ failed' = IF handler[h].pc \in {"register.emit", "update.emit"}
               THEN failed \cup {handler[h].user} ELSE failed
  /\ UNCHANGED <<searchVars, registered, profile, Skills, overlapped, unlinked>>
-----------------------------------------------------------------------------
Init ==
  /\ SearchInit
  /\ registered = [u \in Users |-> "no"]
  /\ profile = [u \in Users |-> None]
  /\ skill = [u \in Users |-> None]
  /\ endorsed = [u \in Users |-> {}]
  /\ handler = [h \in Handlers |-> Idle]
  /\ failed = {} /\ overlapped = {} /\ unlinked = {}

Begin(h) ==
  \E u \in Users :
    \/ RegisterFind(h, u)
    \/ \E f \in Fields, v \in Values : UpdateFind(h, u, f, v)
    \/ \E e \in Endorsers : EndorseFind(h, u, e)
Proceed(h) ==
  \/ RegisterCreate(h) \/ RegisterEmit(h) \/ RegisterAck(h)
  \/ UpdateWrite(h) \/ UpdateEmit(h)
  \/ EndorseInsert(h) \/ EndorseCommit(h)
  \/ Fail(h)
Other ==
  \/ Consume /\ UNCHANGED userVars
  \/ \E u \in Users : Register(u) \/ RegisterBury(u) \/ SkillAdd(u) \/ SkillRemove(u)

Next == Other \/ \E h \in Handlers : Begin(h) \/ Proceed(h)
Spec == Init /\ [][Next]_vars
-----------------------------------------------------------------------------
\* Once a registration is processed, nothing is on its way and no request is
\* between a write and its event, the index has the profile as it is; unless a
\* handler died in between, an event was dead-lettered, two updates overlapped,
\* or an event was sent before the last one was settled
\* (profile.service.ts emitUpdated: so that search-service can re-index).
IndexFollowsProfile ==
  \A u \in Users :
    (/\ registered[u] = "done" /\ On(u, {"register.emit", "update.emit"}) = {}
     /\ InStep(u) /\ u \notin failed \cup overlapped) =>
      profile[u] # None /\ index[u] = profile[u]

\* A profile is made once, whatever is redelivered, and a column changes only
\* by a request for that column, however old the copy of another request is.
OnlyAskedFieldsChange ==
  [][\A u \in Users :
       profile[u] # None =>
         /\ profile'[u] # None
         /\ \A f \in Fields :
              profile'[u][f] # profile[u][f] =>
                \E h \in On(u, {"update.write"}) : handler[h].field = f]_vars

\* The counter of a skill never exceeds the endorsements on record, and equals
\* them as long as the skill was never removed (skill.repository.ts endorse: a
\* duplicate does not bump the counter).
EndorsementsCounted ==
  \A u \in Users :
    skill[u] # None =>
      /\ skill[u] <= Cardinality(endorsed[u])
      /\ u \notin unlinked => skill[u] = Cardinality(endorsed[u])
=============================================================================
