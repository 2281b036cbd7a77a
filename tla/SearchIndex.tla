------------------------------ MODULE SearchIndex ------------------------------
(***************************************************************************)
(* One index of search-service and the queue that feeds it.  The consumer  *)
(* works on up to ten messages at once and may handle one again (see       *)
(* DeliveryContract), so messages take effect in any order and more than   *)
(* once until they are settled.  A document replaces the one before it.    *)
(* The services that publish the events extend this module.                *)
(***************************************************************************)
EXTENDS Naturals, FiniteSets

CONSTANTS Ids,      \* what is indexed: users, posts
          Docs,     \* documents the publishers send
          MaxSent,  \* bound: events per id, at most the consumer's prefetch
          None

ASSUME SearchAssumption == MaxSent \in Nat /\ None \notin Docs

VARIABLES index,    \* the Elasticsearch index, by id
          mail,     \* messages in the queue or being handled
          sent,     \* history: events sent about each id
          crowded,  \* history: ids with an event sent before the last was settled
          buried    \* history: ids with a message in the dead-letter queue

searchVars == <<index, mail, sent, crowded, buried>>
-----------------------------------------------------------------------------
\* An event without a document is a deletion.
Message == [id : Ids, doc : Docs \cup {None}, number : 1 .. MaxSent, handled : BOOLEAN]

SearchTypeOK ==
  /\ index \in [Ids -> Docs \cup {None}]
  /\ mail \subseteq Message
  /\ sent \in [Ids -> 0 .. MaxSent]
  /\ crowded \subseteq Ids /\ buried \subseteq Ids

Pending(id) == {m \in mail : m.id = id}

SearchInit ==
  /\ index = [id \in Ids |-> None]
  /\ mail = {} /\ sent = [id \in Ids |-> 0]
  /\ crowded = {} /\ buried = {}

\* A publish that reached the queue.
Send(id, doc) ==
  /\ sent[id] < MaxSent
  /\ sent' = [sent EXCEPT ![id] = @ + 1]
  /\ mail' = mail \cup {[id |-> id, doc |-> doc, number |-> sent[id] + 1, handled |-> FALSE]}
  /\ crowded' = IF Pending(id) # {} THEN crowded \cup {id} ELSE crowded
  /\ UNCHANGED <<index, buried>>

\* Mutant of Handle: an index call that keeps a document it already has.
HandleOnce(m) ==
  /\ index' = [index EXCEPT ![m.id] = IF @ = None THEN m.doc ELSE @]
  /\ mail' = (mail \ {m}) \cup {[m EXCEPT !.handled = TRUE]}
  /\ UNCHANGED <<sent, crowded, buried>>

\* The handler of a message takes effect; deleting what is not there is no error.
Handle(m) ==
  /\ index' = [index EXCEPT ![m.id] = m.doc]
  /\ mail' = (mail \ {m}) \cup {[m EXCEPT !.handled = TRUE]}
  /\ UNCHANGED <<sent, crowded, buried>>

Ack(m) ==
  /\ m.handled
  /\ mail' = mail \ {m}
  /\ UNCHANGED <<index, sent, crowded, buried>>

\* Every attempt failed, after its effect or before it.
Bury(m) ==
  /\ mail' = mail \ {m}
  /\ buried' = buried \cup {m.id}
  /\ UNCHANGED <<index, sent, crowded>>

Consume == \E m \in mail : Handle(m) \/ Ack(m) \/ Bury(m)

\* Nothing about an id is on its way or was lost, and each event about it was
\* settled before the next was sent.
InStep(id) == Pending(id) = {} /\ id \notin crowded \cup buried
=============================================================================
