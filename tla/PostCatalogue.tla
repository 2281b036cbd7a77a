----------------------------- MODULE PostCatalogue -----------------------------
(***************************************************************************)
(* post-service: posts, their texts and the hashtags linked to them; with  *)
(* the posts index of search-service, which is fed by post.created and     *)
(* post.deleted.                                                           *)
(*                                                                         *)
(* Left out: media, visibility and type of a post, who may edit it (a step *)
(* stands for its author's request), and the names of hashtags, whose rows *)
(* findOrCreate makes on demand.  Counters are in PostEngagement.          *)
(***************************************************************************)
EXTENDS SearchIndex

CONSTANTS Posts, Texts, Editors, Hashtags,
          TagsOf          \* extract: the hashtags in a text

ASSUME CatalogueAssumption ==
  /\ Posts \subseteq Ids /\ Texts \subseteq Docs
  /\ TagsOf \in [Texts -> SUBSET Hashtags]
  /\ None \notin Posts

VARIABLES text,       \* posts.content; None before the post exists
          deleted,    \* posts with deleted_at set
          links,      \* post_hashtags
          edit,    \* requests in progress
          edited,     \* history: posts whose text changed
          broken,     \* history: posts with a writer that died half way
          retagged,   \* history: posts updated while their hashtags were written
          crossed     \* history: posts removed while they were being created

postVars == <<text, deleted, links, edit, edited, broken, retagged, crossed>>
-----------------------------------------------------------------------------
TagPCs == {"create.unlink", "create.link", "update.unlink", "update.link"}
PostPCs == {"idle", "create.publish", "update.write", "remove.write", "remove.publish"} \cup TagPCs

\* text: what the request writes; copy: what it loaded.
Edit == [pc : PostPCs, post : Posts \cup {None}, text : Texts \cup {None},
                 copy : Texts \cup {None}]
NoEdit == [pc |-> "idle", post |-> None, text |-> None, copy |-> None]

PostTypeOK ==
  /\ SearchTypeOK
  /\ text \in [Posts -> Texts \cup {None}]
  /\ links \in [Posts -> SUBSET Hashtags]
  /\ edit \in [Editors -> Edit]
  /\ deleted \subseteq Posts /\ edited \subseteq Posts
  /\ broken \subseteq Posts /\ retagged \subseteq Posts /\ crossed \subseteq Posts

EditAt(h, pcs) == edit[h].pc \in pcs
EditsOf(p, pcs) == {h \in Editors : edit[h].post = p /\ edit[h].pc \in pcs}
StartEdit(h, state) ==
  /\ edit[h] = NoEdit
  /\ edit' = [edit EXCEPT ![h] = state]
MoveOn(h, pc) == edit' = [edit EXCEPT ![h].pc = pc]
EndEdit(h) == edit' = [edit EXCEPT ![h] = NoEdit]

PostHistories == <<edited, broken, retagged, crossed>>
\* Requests that write, or are about to write, the text and hashtags of a post.
Writers(p) == EditsOf(p, {"create.publish", "update.write"} \cup TagPCs)
-----------------------------------------------------------------------------
(* hashtag.service.ts: syncForPost, as the middle of create and of update *)

AfterTags(h) == IF EditAt(h, {"create.unlink", "create.link"})
                THEN MoveOn(h, "create.publish") ELSE EndEdit(h)

\* Mutant of SyncUnlink: links that are already there are taken for current.
SyncUnlinkIfAny(h) ==
  /\ EditAt(h, {"create.unlink", "update.unlink"})
  /\ LET s == edit[h] IN
     /\ links' = links
     /\ IF TagsOf[s.text] = {} THEN AfterTags(h)
        ELSE MoveOn(h, IF s.pc = "create.unlink" THEN "create.link" ELSE "update.link")
  /\ UNCHANGED <<searchVars, text, deleted, PostHistories>>

SyncUnlink(h) ==
  /\ EditAt(h, {"create.unlink", "update.unlink"})
  /\ LET s == edit[h] IN
     /\ links' = [links EXCEPT ![s.post] = {}]
     /\ IF TagsOf[s.text] = {} THEN AfterTags(h)
        ELSE MoveOn(h, IF s.pc = "create.unlink" THEN "create.link" ELSE "update.link")
  /\ UNCHANGED <<searchVars, text, deleted, PostHistories>>

\* Links that are there already are ignored.
SyncLink(h) ==
  /\ EditAt(h, {"create.link", "update.link"})
  /\ links' = [links EXCEPT ![edit[h].post] = @ \cup TagsOf[edit[h].text]]
  /\ AfterTags(h)
  /\ UNCHANGED <<searchVars, text, deleted, PostHistories>>
-----------------------------------------------------------------------------
(* post.service.ts *)

Create(h, p, t) ==
  /\ text[p] = None
  /\ text' = [text EXCEPT ![p] = t]
  /\ StartEdit(h, [pc |-> "create.unlink", post |-> p, text |-> t, copy |-> t])
  /\ UNCHANGED <<searchVars, deleted, links, PostHistories>>

\* Mutant of CreatePublish: the event only says which post it is.
CreatePublishId(h) ==
  /\ EditAt(h, {"create.publish"})
  /\ Send(edit[h].post, edit[h].post)
  /\ EndEdit(h)
  /\ UNCHANGED <<text, deleted, links, PostHistories>>

CreatePublish(h) ==
  /\ EditAt(h, {"create.publish"})
  /\ Send(edit[h].post, edit[h].text)
  /\ EndEdit(h)
  /\ UNCHANGED <<text, deleted, links, PostHistories>>

PostUpdateFind(h, p, t) ==
  /\ text[p] # None /\ p \notin deleted                   \* else 404
  /\ StartEdit(h, [pc |-> "update.write", post |-> p, text |-> t, copy |-> text[p]])
  /\ retagged' = IF Writers(p) # {} THEN retagged \cup {p} ELSE retagged
  /\ UNCHANGED <<searchVars, text, deleted, links, edited, broken, crossed>>

\* Mutant of PostUpdateWrite: the whole loaded row is saved, deleted_at too.
UpdateSaveRow(h) ==
  /\ EditAt(h, {"update.write"})
  /\ LET s == edit[h] IN
     /\ text' = [text EXCEPT ![s.post] = s.text]
     /\ edited' = edited \cup {s.post}
     /\ deleted' = deleted \ {s.post}
  /\ MoveOn(h, "update.unlink")
  /\ UNCHANGED <<searchVars, links, broken, retagged, crossed>>

\* Only what differs from the loaded row is written; no event is sent.
PostUpdateWrite(h) ==
  /\ EditAt(h, {"update.write"})
  /\ LET s == edit[h] IN
     IF s.text = s.copy THEN UNCHANGED <<text, edited>>
     ELSE /\ text' = [text EXCEPT ![s.post] = s.text]
          /\ edited' = edited \cup {s.post}
  /\ MoveOn(h, "update.unlink")
  /\ UNCHANGED <<searchVars, deleted, links, broken, retagged, crossed>>

RemoveFind(h, p) ==
  /\ text[p] # None /\ p \notin deleted                   \* else 404
  /\ StartEdit(h, [NoEdit EXCEPT !.pc = "remove.write", !.post = p])
  /\ crossed' = IF EditsOf(p, {"create.unlink", "create.link", "create.publish"}) # {}
                THEN crossed \cup {p} ELSE crossed
  /\ UNCHANGED <<searchVars, text, deleted, links, edited, broken, retagged>>

\* The hashtags stay linked.
RemoveWrite(h) ==
  /\ EditAt(h, {"remove.write"})
  /\ deleted' = deleted \cup {edit[h].post}
  /\ MoveOn(h, "remove.publish")
  /\ UNCHANGED <<searchVars, text, links, PostHistories>>

RemovePublish(h) ==
  /\ EditAt(h, {"remove.publish"})
  /\ Send(edit[h].post, None)
  /\ EndEdit(h)
  /\ UNCHANGED <<text, deleted, links, PostHistories>>

\* A statement or publish fails, or the process dies.
PostFail(h) ==
  /\ ~EditAt(h, {"idle"})
  /\ EndEdit(h)
  /\ broken' = IF EditAt(h, {"update.write", "remove.write"}) THEN broken
               ELSE broken \cup {edit[h].post}
  /\ UNCHANGED <<searchVars, text, deleted, links, edited, retagged, crossed>>
-----------------------------------------------------------------------------
PostInit ==
  /\ text = [p \in Posts |-> None]
  /\ links = [p \in Posts |-> {}]
  /\ edit = [h \in Editors |-> NoEdit]
  /\ deleted = {} /\ edited = {} /\ broken = {} /\ retagged = {} /\ crossed = {}

PostBegin(h) ==
  \E p \in Posts :
    \/ \E t \in Texts : Create(h, p, t) \/ PostUpdateFind(h, p, t)
    \/ RemoveFind(h, p)
PostProceed(h) ==
  \/ SyncUnlink(h) \/ SyncLink(h) \/ CreatePublish(h)
  \/ PostUpdateWrite(h) \/ RemoveWrite(h) \/ RemovePublish(h)
  \/ PostFail(h)

PostNext ==
  \/ Consume /\ UNCHANGED postVars
  \/ \E h \in Editors : PostBegin(h) \/ PostProceed(h)
PostSpec == SearchInit /\ PostInit /\ [][PostNext]_<<searchVars, postVars>>
-----------------------------------------------------------------------------
\* The hashtags of a post are those of its text, whatever removals run beside,
\* once its writers are done; unless one died or was overtaken by another update
\* (hashtag.service.ts syncForPost).
HashtagsFollowText ==
  \A p \in Posts :
    (text[p] # None /\ Writers(p) = {} /\ p \notin broken \cup retagged) =>
      links[p] = TagsOf[text[p]]

\* Once nothing is on its way, a post is in the index exactly if it was not
\* removed, with its text if that never changed: updates are not announced.
\* Excepted are posts removed while being created, writers that died, dead
\* letters, and events sent before the last one was settled.
IndexFollowsPost ==
  \A p \in Posts :
    (/\ text[p] # None /\ EditsOf(p, PostPCs \ {"update.write", "update.unlink", "update.link"}) = {}
     /\ InStep(p) /\ p \notin broken \cup crossed) =>
      IF p \in deleted THEN index[p] = None
      ELSE index[p] # None /\ (p \notin edited => index[p] = text[p])
=============================================================================
