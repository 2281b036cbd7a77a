-------------------------- MODULE Catalogue_proofs --------------------------
(***************************************************************************)
(* Posts and jobs, for any number of them, of people, requests and events: *)
(* the hashtags of a post follow its text, applications are counted, a     *)
(* posting changes as it is asked, and the indexes of search-service end   *)
(* up with what the tables have.  The account of an index is that of       *)
(* UserService_proofs: what was sent last is what it comes to (LastIs).    *)
(***************************************************************************)
EXTENDS UserService_proofs, MCSearch

USE CatalogueAssumption

\* What a request holds when its next statement uses it.
EditLoaded(h) ==
  LET s == edit[h] IN
  /\ s.pc # "idle" => s.post \in Posts /\ text[s.post] # None
  /\ s.pc \notin {"idle", "remove.write", "remove.publish"} => s.text \in Texts
EditsLoaded == \A h \in Editors : EditLoaded(h)

PostTypeInv == PostTypeOK /\ EditsLoaded

CreatePCs == {"create.unlink", "create.link", "create.publish"}
-----------------------------------------------------------------------------
(* PostCatalogue: types *)

\* No step takes the text of a post away.
TextsStay == \A p \in Posts : text[p] # None => text'[p] # None

\* Only the request that moves changes.
LEMMA OtherEditsLoaded ==
  ASSUME PostTypeInv, NEW h \in Editors, NEW state \in Edit,
         edit' = [edit EXCEPT ![h] = state], EditLoaded(h)', TextsStay
  PROVE  edit' \in [Editors -> Edit] /\ EditsLoaded'
<1>1. edit' \in [Editors -> Edit]
  BY DEF PostTypeInv, PostTypeOK
<1>2. \A g \in Editors : g # h => edit'[g] = edit[g]
  BY DEF PostTypeInv, PostTypeOK
<1>3. ASSUME NEW g \in Editors PROVE EditLoaded(g)'
  <2>1. CASE g = h
    BY <2>1
  <2>2. CASE g # h
    BY <1>2, <2>2 DEF PostTypeInv, EditsLoaded, EditLoaded, TextsStay
  <2>. QED BY <2>1, <2>2
<1>. QED BY <1>1, <1>3 DEF EditsLoaded

\* A request that moves on in its own work keeps the types, and itself.
LEMMA MoveOnTypes ==
  ASSUME PostTypeInv, NEW h \in Editors, NEW pc \in PostPCs, MoveOn(h, pc), TextsStay,
         edit[h].pc # "idle", edit[h].text \in Texts \/ pc = "remove.publish"
  PROVE  /\ edit' \in [Editors -> Edit] /\ EditsLoaded'
         /\ edit'[h] = [edit[h] EXCEPT !.pc = pc]
         /\ \A g \in Editors : g # h => edit'[g] = edit[g]
<1>. DEFINE state == [edit[h] EXCEPT !.pc = pc]
<1>1. edit \in [Editors -> Edit] /\ edit[h] \in Edit /\ EditLoaded(h)
  BY DEF PostTypeInv, PostTypeOK, EditsLoaded
<1>2. state \in Edit /\ edit' = [edit EXCEPT ![h] = state]
  BY <1>1 DEF MoveOn, Edit
<1>3. edit'[h] = state /\ \A g \in Editors : g # h => edit'[g] = edit[g]
  BY <1>1, <1>2
<1>4. state.pc = pc /\ state.post = edit[h].post /\ state.text = edit[h].text
  BY <1>1 DEF Edit
<1>. HIDE DEF state
<1>5. EditLoaded(h)'
  BY <1>1, <1>3, <1>4 DEF EditLoaded, TextsStay
<1>6. edit' \in [Editors -> Edit] /\ EditsLoaded'
  BY <1>2, <1>5, OtherEditsLoaded
<1>. QED BY <1>3, <1>6 DEF state

\* So does one that ends.
LEMMA EndEditTypes ==
  ASSUME PostTypeInv, NEW h \in Editors, EndEdit(h), TextsStay
  PROVE  /\ edit' \in [Editors -> Edit] /\ EditsLoaded'
         /\ edit'[h] = NoEdit
         /\ \A g \in Editors : g # h => edit'[g] = edit[g]
<1>1. NoEdit \in Edit
  BY DEF NoEdit, Edit, PostPCs
<1>2. edit'[h] = NoEdit /\ \A g \in Editors : g # h => edit'[g] = edit[g]
  BY DEF EndEdit, PostTypeInv, PostTypeOK
<1>3. EditLoaded(h)'
  BY <1>2 DEF EditLoaded, NoEdit
<1>. QED BY <1>1, <1>2, <1>3, OtherEditsLoaded DEF EndEdit

\* And one that begins, on a post that is there.
LEMMA StartEditTypes ==
  ASSUME PostTypeInv, NEW h \in Editors, NEW state \in Edit, StartEdit(h, state), TextsStay,
         state.post \in Posts, text'[state.post] # None,
         state.text \in Texts \/ state.pc = "remove.write"
  PROVE  /\ edit' \in [Editors -> Edit] /\ EditsLoaded'
         /\ edit[h] = NoEdit /\ edit'[h] = state
         /\ \A g \in Editors : g # h => edit'[g] = edit[g]
<1>1. /\ edit' = [edit EXCEPT ![h] = state] /\ edit[h] = NoEdit
      /\ edit'[h] = state /\ \A g \in Editors : g # h => edit'[g] = edit[g]
  BY DEF StartEdit, PostTypeInv, PostTypeOK
<1>2. EditLoaded(h)'
  BY <1>1 DEF EditLoaded
<1>. QED BY <1>1, <1>2, OtherEditsLoaded

\* After its hashtags a request goes on to announce the post, or ends.
LEMMA AfterTagsTypes ==
  ASSUME PostTypeInv, NEW h \in Editors, AfterTags(h), TextsStay, edit[h].pc \in TagPCs
  PROVE  /\ edit' \in [Editors -> Edit] /\ EditsLoaded'
         /\ \/ edit[h].pc \in CreatePCs /\ edit'[h] = [edit[h] EXCEPT !.pc = "create.publish"]
            \/ edit[h].pc \notin CreatePCs /\ edit'[h] = NoEdit
         /\ \A g \in Editors : g # h => edit'[g] = edit[g]
<1>1. edit[h].pc # "idle" /\ edit[h].text \in Texts
  BY DEF TagPCs, PostTypeInv, EditsLoaded, EditLoaded
<1>2. CASE edit[h].pc \in {"create.unlink", "create.link"}
  <2>1. MoveOn(h, "create.publish") /\ edit[h].pc \in CreatePCs
    BY <1>2 DEF AfterTags, EditAt, CreatePCs
  <2>. QED BY <1>1, <2>1, MoveOnTypes DEF PostPCs
<1>3. CASE edit[h].pc \notin {"create.unlink", "create.link"}
  <2>1. EndEdit(h) /\ edit[h].pc \notin CreatePCs
    BY <1>3 DEF AfterTags, EditAt, CreatePCs, TagPCs
  <2>. QED BY <2>1, EndEditTypes
<1>. QED BY <1>2, <1>3

\* The steps of the hashtags keep the types.
LEMMA SyncTypes ==
  ASSUME PostTypeInv, NEW h \in Editors, SyncUnlink(h) \/ SyncLink(h)
  PROVE  PostTypeInv'
<1>1. /\ UNCHANGED <<searchVars, text, deleted, PostHistories>> /\ edit[h].pc \in TagPCs
      /\ edit[h].post \in Posts /\ edit[h].text \in Texts
  BY DEF SyncUnlink, SyncLink, EditAt, TagPCs, PostTypeInv, EditsLoaded, EditLoaded
<1>2. TextsStay
  BY <1>1 DEF TextsStay
<1>3. links' \in [Posts -> SUBSET Hashtags]
  BY <1>1 DEF SyncUnlink, SyncLink, PostTypeInv, PostTypeOK
<1>4. edit' \in [Editors -> Edit] /\ EditsLoaded'
  <2>1. CASE AfterTags(h)
    BY <1>1, <1>2, <2>1, AfterTagsTypes
  <2>2. ASSUME NEW pc \in {"create.link", "update.link"}, MoveOn(h, pc)
        PROVE  edit' \in [Editors -> Edit] /\ EditsLoaded'
    <3>1. pc \in PostPCs /\ edit[h].pc # "idle"
      BY <1>1 DEF PostPCs, TagPCs
    <3>. QED BY <1>1, <1>2, <2>2, <3>1, MoveOnTypes
  <2>. QED BY <2>1, <2>2 DEF SyncUnlink, SyncLink
<1>. QED BY <1>1, <1>3, <1>4 DEF PostTypeInv, PostTypeOK, SearchTypeOK, searchVars, PostHistories

\* So do the requests that begin.
LEMMA PostBeginTypes ==
  ASSUME PostTypeInv, NEW h \in Editors, PostBegin(h)
  PROVE  PostTypeInv'
<1>1. ASSUME NEW p \in Posts, NEW t \in Texts, Create(h, p, t)
      PROVE  PostTypeInv'
  <2>. DEFINE state == [pc |-> "create.unlink", post |-> p, text |-> t, copy |-> t]
  <2>1. /\ UNCHANGED <<searchVars, deleted, links, PostHistories>>
        /\ text' = [text EXCEPT ![p] = t] /\ StartEdit(h, state)
    BY <1>1 DEF Create
  <2>2. state \in Edit /\ state.post = p /\ state.text = t
    BY DEF Edit, PostPCs, TagPCs
  <2>3. t # None
    BY SearchAssumption
  <2>4. TextsStay /\ text'[p] # None /\ text' \in [Posts -> Texts \cup {None}]
    BY <2>1, <2>3 DEF TextsStay, PostTypeInv, PostTypeOK
  <2>. HIDE DEF state
  <2>5. edit' \in [Editors -> Edit] /\ EditsLoaded'
    BY <2>1, <2>2, <2>4, StartEditTypes
  <2>. QED BY <2>1, <2>4, <2>5
           DEF PostTypeInv, PostTypeOK, SearchTypeOK, searchVars, PostHistories
<1>2. ASSUME NEW p \in Posts, NEW t \in Texts, PostUpdateFind(h, p, t)
      PROVE  PostTypeInv'
  <2>. DEFINE state == [pc |-> "update.write", post |-> p, text |-> t, copy |-> text[p]]
  <2>1. /\ UNCHANGED <<searchVars, text, deleted, links, edited, broken, crossed>>
        /\ text[p] # None /\ StartEdit(h, state)
        /\ retagged' \subseteq retagged \cup {p}
    BY <1>2 DEF PostUpdateFind
  <2>2. state \in Edit /\ state.post = p /\ state.text = t
    BY DEF Edit, PostPCs, PostTypeInv, PostTypeOK
  <2>3. TextsStay
    BY <2>1 DEF TextsStay
  <2>. HIDE DEF state
  <2>4. edit' \in [Editors -> Edit] /\ EditsLoaded'
    BY <2>1, <2>2, <2>3, StartEditTypes
  <2>. QED BY <2>1, <2>4 DEF PostTypeInv, PostTypeOK, SearchTypeOK, searchVars
<1>3. ASSUME NEW p \in Posts, RemoveFind(h, p)
      PROVE  PostTypeInv'
  <2>. DEFINE state == [NoEdit EXCEPT !.pc = "remove.write", !.post = p]
  <2>1. /\ UNCHANGED <<searchVars, text, deleted, links, edited, broken, retagged>>
        /\ text[p] # None /\ StartEdit(h, state)
        /\ crossed' \subseteq crossed \cup {p}
    BY <1>3 DEF RemoveFind
  <2>2. state \in Edit /\ state.post = p /\ state.pc = "remove.write"
    BY DEF Edit, PostPCs, NoEdit
  <2>3. TextsStay
    BY <2>1 DEF TextsStay
  <2>. HIDE DEF state
  <2>4. edit' \in [Editors -> Edit] /\ EditsLoaded'
    BY <2>1, <2>2, <2>3, StartEditTypes
  <2>. QED BY <2>1, <2>4 DEF PostTypeInv, PostTypeOK, SearchTypeOK, searchVars
<1>. QED BY <1>1, <1>2, <1>3 DEF PostBegin

\* And the steps that write a post, announce it, or fail.
LEMMA PostWriteTypes ==
  ASSUME PostTypeInv, NEW h \in Editors,
         PostUpdateWrite(h) \/ RemoveWrite(h) \/ CreatePublish(h) \/ RemovePublish(h) \/ PostFail(h)
  PROVE  PostTypeInv'
<1>. DEFINE s == edit[h]
<1>1. s.pc # "idle" /\ s.post \in Posts /\ s.post \in Ids
      /\ (s.pc \in {"create.publish", "update.write"} => s.text \in Texts /\ s.text \in Docs)
  <2>1. EditLoaded(h)
    BY DEF PostTypeInv, EditsLoaded
  <2>. QED BY <2>1 DEF EditLoaded, PostUpdateWrite, RemoveWrite, CreatePublish, RemovePublish,
                       PostFail, EditAt
<1>2. CASE PostUpdateWrite(h)
  <2>1. /\ UNCHANGED <<searchVars, deleted, links, broken, retagged, crossed>>
        /\ s.pc = "update.write" /\ s.text \in Texts /\ MoveOn(h, "update.unlink")
    BY <1>1, <1>2 DEF PostUpdateWrite, EditAt
  <2>2. TextsStay /\ text' \in [Posts -> Texts \cup {None}] /\ edited' \subseteq Posts
    BY <1>1, <1>2, <2>1, SearchAssumption DEF PostUpdateWrite, TextsStay, PostTypeInv, PostTypeOK
  <2>3. edit' \in [Editors -> Edit] /\ EditsLoaded'
    BY <1>1, <2>1, <2>2, MoveOnTypes DEF PostPCs, TagPCs
  <2>. QED BY <2>1, <2>2, <2>3 DEF PostTypeInv, PostTypeOK, SearchTypeOK, searchVars
<1>3. CASE RemoveWrite(h)
  <2>1. /\ UNCHANGED <<searchVars, text, links, PostHistories>>
        /\ deleted' = deleted \cup {s.post} /\ MoveOn(h, "remove.publish")
    BY <1>3 DEF RemoveWrite
  <2>2. TextsStay
    BY <2>1 DEF TextsStay
  <2>3. edit' \in [Editors -> Edit] /\ EditsLoaded'
    BY <1>1, <2>1, <2>2, MoveOnTypes DEF PostPCs
  <2>. QED BY <1>1, <2>1, <2>3 DEF PostTypeInv, PostTypeOK, SearchTypeOK, searchVars, PostHistories
<1>4. CASE CreatePublish(h) \/ RemovePublish(h)
  <2>1. UNCHANGED <<text, deleted, links, PostHistories>> /\ EndEdit(h)
    BY <1>4 DEF CreatePublish, RemovePublish
  <2>2. TextsStay
    BY <2>1 DEF TextsStay
  <2>3. edit' \in [Editors -> Edit] /\ EditsLoaded'
    BY <2>1, <2>2, EndEditTypes
  <2>4. SearchTypeOK'
    <3>1. PICK doc \in Docs \cup {None} : Send(s.post, doc)
      BY <1>1, <1>4 DEF CreatePublish, RemovePublish, EditAt
    <3>. QED BY <1>1, <3>1, SendTypes DEF PostTypeInv, PostTypeOK
  <2>. QED BY <2>1, <2>3, <2>4 DEF PostTypeInv, PostTypeOK, PostHistories
<1>5. CASE PostFail(h)
  <2>1. /\ UNCHANGED <<searchVars, text, deleted, links, edited, retagged, crossed>>
        /\ EndEdit(h) /\ broken' \subseteq broken \cup {s.post}
    BY <1>5 DEF PostFail
  <2>2. TextsStay
    BY <2>1 DEF TextsStay
  <2>3. edit' \in [Editors -> Edit] /\ EditsLoaded'
    BY <2>1, <2>2, EndEditTypes
  <2>. QED BY <1>1, <2>1, <2>3 DEF PostTypeInv, PostTypeOK, SearchTypeOK, searchVars
<1>. QED BY <1>2, <1>3, <1>4, <1>5

\* Every step keeps the types and what requests have loaded.
LEMMA PostTypesInductive ==
  PostTypeInv /\ [PostNext]_<<searchVars, postVars>> => PostTypeInv'
<1>. SUFFICES ASSUME PostTypeInv, [PostNext]_<<searchVars, postVars>> PROVE PostTypeInv'
  OBVIOUS
<1>1. ASSUME SearchTypeOK', UNCHANGED postVars
      PROVE  PostTypeInv'
  BY <1>1 DEF postVars, PostTypeInv, PostTypeOK, EditsLoaded, EditLoaded
<1>2. CASE UNCHANGED <<searchVars, postVars>>
  BY <1>1, <1>2 DEF searchVars, PostTypeInv, PostTypeOK, SearchTypeOK
<1>3. CASE Consume /\ UNCHANGED postVars
  BY <1>1, <1>3, ConsumeTypes DEF PostTypeInv, PostTypeOK
<1>. QED BY <1>2, <1>3, SyncTypes, PostBeginTypes, PostWriteTypes DEF PostNext, PostProceed

\* They hold when the service starts.
LEMMA PostInitTypes == SearchInit /\ PostInit => PostTypeInv
<1>1. NoEdit \in Edit
  BY DEF NoEdit, Edit, PostPCs
<1>2. SearchInit => SearchTypeOK
  BY SearchAssumption DEF SearchInit, SearchTypeOK
<1>. QED BY <1>1, <1>2 DEF PostInit, PostTypeInv, PostTypeOK, EditsLoaded, EditLoaded, NoEdit

\* Posts, links, messages and requests keep their types, and a request works on a
\* post that is there, with the text it writes.
THEOREM PostTypeCorrect == PostSpec => [](PostTypeOK /\ EditsLoaded)
BY PostInitTypes, PostTypesInductive, PTL DEF PostSpec, PostTypeInv
-----------------------------------------------------------------------------
(* PostCatalogue: hashtags *)

\* One writer at a time, where the history excuses nothing: between its two steps
\* the links are gone, before and after them they are those of the text.
TagsAt(p) ==
  /\ Writers(p) = {} => links[p] = TagsOf[text[p]]
  /\ \A h \in Writers(p) :
       /\ Writers(p) = {h}
       /\ edit[h].pc \in TagPCs => edit[h].text = text[p]
       /\ edit[h].pc = "update.write" => edit[h].copy = text[p]
       /\ edit[h].pc \in {"create.publish", "update.write"} => links[p] = TagsOf[text[p]]
       /\ edit[h].pc \in {"create.link", "update.link"} => links[p] = {}
TagsInv == \A p \in Posts \ (broken \cup retagged) : text[p] # None => TagsAt(p)

\* A step that leaves a post and its writers alone.
LEMMA TagsElsewhere ==
  ASSUME NEW p, TagsAt(p), text'[p] = text[p], links'[p] = links[p],
         \A g \in Editors : g \in Writers(p) \/ g \in Writers(p)' => edit'[g] = edit[g]
  PROVE  TagsAt(p)'
<1>1. Writers(p)' = Writers(p)
  BY DEF Writers, EditsOf
<1>2. \A g \in Writers(p) : edit'[g] = edit[g]
  BY DEF Writers, EditsOf
<1>. QED BY <1>1, <1>2 DEF TagsAt

\* A writer that goes on or ends.
LEMMA TagsOfWriter ==
  ASSUME NEW p \in Posts, TagsAt(p), NEW h \in Writers(p),
         \A g \in Editors : g # h => edit'[g] = edit[g],
         h \notin Writers(p)' => links'[p] = TagsOf[text'[p]],
         edit'[h].pc \in TagPCs => edit'[h].text = text'[p],
         edit'[h].pc # "update.write",
         edit'[h].pc = "create.publish" => links'[p] = TagsOf[text'[p]],
         edit'[h].pc \in {"create.link", "update.link"} => links'[p] = {}
  PROVE  TagsAt(p)'
<1>1. Writers(p) = {h}
  BY DEF TagsAt
<1>2. Writers(p)' \subseteq {h}
  BY <1>1 DEF Writers, EditsOf
<1>. QED BY <1>2 DEF TagsAt

\* What a post's writers hold is what the invariant says of one at its step.
LEMMA WriterHolds ==
  ASSUME PostTypeInv, TagsInv, NEW h \in Editors,
         edit[h].pc \in {"create.publish", "update.write"} \cup TagPCs,
         edit[h].post \notin broken \cup retagged
  PROVE  /\ edit[h].post \in Posts /\ text[edit[h].post] # None
         /\ h \in Writers(edit[h].post) /\ TagsAt(edit[h].post)
BY DEF PostTypeInv, EditsLoaded, EditLoaded, TagPCs, TagsInv, Writers, EditsOf

\* The steps of the hashtags.
LEMMA TagsSync ==
  ASSUME PostTypeInv, TagsInv, NEW h \in Editors, SyncUnlink(h) \/ SyncLink(h)
  PROVE  TagsInv'
<1>. DEFINE s == edit[h]
            tags == TagsOf[s.text]
<1>1. /\ UNCHANGED <<text, broken, retagged>> /\ s.pc \in TagPCs
      /\ s.post \in Posts /\ s.text \in Texts /\ s \in Edit /\ TextsStay
      /\ links \in [Posts -> SUBSET Hashtags]
  BY DEF SyncUnlink, SyncLink, EditAt, TagPCs, PostHistories, TextsStay,
         PostTypeInv, PostTypeOK, EditsLoaded, EditLoaded
<1>2. \/ s.pc \in {"create.unlink", "update.unlink"} /\ links' = [links EXCEPT ![s.post] = {}]
      \/ s.pc \in {"create.link", "update.link"}
         /\ links' = [links EXCEPT ![s.post] = @ \cup tags]
  BY DEF SyncUnlink, SyncLink, EditAt
<1>3. \/ /\ SyncLink(h) \/ tags = {}
         /\ AfterTags(h)
      \/ /\ SyncUnlink(h)
         /\ MoveOn(h, IF s.pc = "create.unlink" THEN "create.link" ELSE "update.link")
  BY DEF SyncUnlink, SyncLink
<1>4. \/ /\ SyncLink(h) \/ tags = {}
         /\ edit'[h] = NoEdit \/ edit'[h] = [s EXCEPT !.pc = "create.publish"]
      \/ /\ SyncUnlink(h)
         /\ \/ edit'[h] = [s EXCEPT !.pc = "create.link"]
            \/ edit'[h] = [s EXCEPT !.pc = "update.link"]
  <2>1. CASE AfterTags(h) /\ (SyncLink(h) \/ tags = {})
    BY <1>1, <2>1, AfterTagsTypes
  <2>2. ASSUME SyncUnlink(h), NEW pc \in {"create.link", "update.link"}, MoveOn(h, pc)
        PROVE  edit'[h] = [s EXCEPT !.pc = pc]
    BY <2>2, <1>1 DEF MoveOn, PostTypeInv, PostTypeOK
  <2>. QED BY <1>3, <2>1, <2>2
<1>5. \A g \in Editors : g # h => edit'[g] = edit[g]
  BY <1>3 DEF AfterTags, MoveOn, EndEdit, PostTypeInv, PostTypeOK
<1>. SUFFICES ASSUME NEW p \in Posts \ (broken \cup retagged), text[p] # None
              PROVE  TagsAt(p)'
  BY <1>1 DEF TagsInv
<1>6. TagsAt(p)
  BY DEF TagsInv
<1>7. CASE p # s.post
  <2>1. links'[p] = links[p]
    BY <1>1, <1>2, <1>7
  <2>2. edit'[h].post \in {s.post, None} /\ None \notin Posts
    BY <1>1, <1>4, CatalogueAssumption DEF NoEdit, Edit
  <2>3. h \notin Writers(p) /\ h \notin Writers(p)'
    BY <1>7, <2>2 DEF Writers, EditsOf
  <2>. QED BY <1>1, <1>5, <1>6, <2>1, <2>3, TagsElsewhere
<1>8. CASE p = s.post
  <2>1. h \in Writers(p) /\ s.text = text[p]
    BY <1>1, <1>6, <1>8 DEF TagsAt, Writers, EditsOf
  <2>2. s.pc \in {"create.link", "update.link"} => links[p] = {}
    BY <1>6, <1>8, <2>1 DEF TagsAt
  <2>3. SyncLink(h) \/ tags = {} => links'[p] = tags
    BY <1>1, <1>2, <1>8, <2>2, ZenonT(30) DEF SyncLink, EditAt
  <2>4. SyncUnlink(h) => links'[p] = {}
    BY <1>1, <1>2, <1>8 DEF SyncUnlink, EditAt
  <2>5. CASE (SyncLink(h) \/ tags = {}) /\ edit'[h] = NoEdit
    <3>1. edit'[h].pc = "idle"
      BY <2>5 DEF NoEdit
    <3>. QED BY <1>1, <1>5, <1>6, <2>1, <2>3, <2>5, <3>1, TagsOfWriter DEF TagPCs
  <2>6. CASE (SyncLink(h) \/ tags = {}) /\ edit'[h] = [s EXCEPT !.pc = "create.publish"]
    <3>1. edit'[h].pc = "create.publish"
      BY <1>1, <2>6 DEF Edit
    <3>. QED BY <1>1, <1>5, <1>6, <2>1, <2>3, <2>6, <3>1, TagsOfWriter DEF TagPCs
  <2>7. ASSUME SyncUnlink(h), NEW pc \in {"create.link", "update.link"},
               edit'[h] = [s EXCEPT !.pc = pc]
        PROVE  TagsAt(p)'
    <3>1. edit'[h].pc = pc /\ edit'[h].text = text'[p] /\ edit'[h].post = p
      BY <1>1, <1>8, <2>1, <2>7 DEF Edit
    <3>2. h \in Writers(p)'
      BY <3>1 DEF Writers, EditsOf, TagPCs
    <3>. QED BY <1>5, <1>6, <2>1, <2>4, <2>7, <3>1, <3>2, TagsOfWriter
  <2>. QED BY <1>4, <2>5, <2>6, <2>7
<1>. QED BY <1>7, <1>8

\* A writer begins alone, or the post is remembered as retagged.
LEMMA TagsBegin ==
  ASSUME PostTypeInv, TagsInv, NEW h \in Editors, NEW p \in Posts, NEW t \in Texts,
         Create(h, p, t) \/ PostUpdateFind(h, p, t)
  PROVE  TagsInv'
<1>1. /\ \A g \in Editors : g # h => edit'[g] = edit[g]
      /\ edit[h] = NoEdit /\ edit'[h].post = p /\ edit'[h].text = t
      /\ links' = links /\ broken' = broken /\ retagged \subseteq retagged'
  <2>1. CASE Create(h, p, t)
    BY <2>1 DEF Create, StartEdit, PostHistories, PostTypeInv, PostTypeOK
  <2>2. CASE PostUpdateFind(h, p, t)
    BY <2>2 DEF PostUpdateFind, StartEdit, PostTypeInv, PostTypeOK
  <2>. QED BY <2>1, <2>2
<1>2. edit[h].pc = "idle"
  BY <1>1 DEF NoEdit
<1>. SUFFICES ASSUME NEW q \in Posts \ (broken \cup retagged'), text'[q] # None
              PROVE  TagsAt(q)'
  BY <1>1 DEF TagsInv
<1>3. q \in Posts \ (broken \cup retagged)
  BY <1>1
<1>4. CASE q # p
  <2>1. text'[q] = text[q]
    BY <1>4 DEF Create, PostUpdateFind, PostTypeInv, PostTypeOK
  <2>2. TagsAt(q)
    BY <1>3, <2>1 DEF TagsInv
  <2>3. h \notin Writers(q) /\ h \notin Writers(q)'
    BY <1>1, <1>2, <1>4 DEF Writers, EditsOf, TagPCs
  <2>. QED BY <1>1, <2>1, <2>2, <2>3, TagsElsewhere
<1>5. CASE q = p
  <2>1. CASE Create(h, p, t)
    <3>1. text[p] = None /\ text'[p] = t /\ edit'[h].pc = "create.unlink"
      BY <2>1 DEF Create, StartEdit, PostTypeInv, PostTypeOK
    <3>2. Writers(p)' = {h}
      BY <1>1, <3>1 DEF Writers, EditsOf, TagPCs, PostTypeInv, EditsLoaded, EditLoaded
    <3>. QED BY <1>1, <1>5, <3>1, <3>2 DEF TagsAt
  <2>2. CASE PostUpdateFind(h, p, t)
    <3>1. /\ text' = text /\ text[p] # None /\ edit'[h].pc = "update.write"
          /\ edit'[h].copy = text[p] /\ (Writers(p) # {} => p \in retagged')
      BY <2>2 DEF PostUpdateFind, StartEdit, PostTypeInv, PostTypeOK
    <3>2. Writers(p) = {}
      BY <1>5, <3>1
    <3>3. Writers(p)' = {h}
      BY <1>1, <3>1, <3>2 DEF Writers, EditsOf
    <3>4. links[p] = TagsOf[text[p]]
      BY <1>3, <1>5, <3>1, <3>2 DEF TagsInv, TagsAt
    <3>. QED BY <1>1, <1>5, <3>1, <3>3, <3>4 DEF TagsAt, TagPCs
  <2>. QED BY <2>1, <2>2
<1>. QED BY <1>4, <1>5

\* The text a writer writes is the one its hashtags are made of.
LEMMA TagsWrite ==
  ASSUME PostTypeInv, TagsInv, NEW h \in Editors, PostUpdateWrite(h)
  PROVE  TagsInv'
<1>. DEFINE s == edit[h]
<1>1. /\ UNCHANGED <<links, broken, retagged>> /\ s.pc = "update.write" /\ s.post \in Posts
      /\ s \in Edit /\ text \in [Posts -> Texts \cup {None}] /\ text[s.post] # None
      /\ IF s.text = s.copy THEN text' = text ELSE text' = [text EXCEPT ![s.post] = s.text]
      /\ MoveOn(h, "update.unlink")
  BY DEF PostUpdateWrite, EditAt, PostTypeInv, PostTypeOK, EditsLoaded, EditLoaded
<1>2. /\ edit'[h] = [s EXCEPT !.pc = "update.unlink"]
      /\ \A g \in Editors : g # h => edit'[g] = edit[g]
  BY <1>1 DEF MoveOn, PostTypeInv, PostTypeOK
<1>3. edit'[h].pc = "update.unlink" /\ edit'[h].post = s.post /\ edit'[h].text = s.text
  BY <1>1, <1>2 DEF Edit
<1>. SUFFICES ASSUME NEW q \in Posts \ (broken \cup retagged), text'[q] # None
              PROVE  TagsAt(q)'
  BY <1>1 DEF TagsInv
<1>4. CASE q # s.post
  <2>1. text'[q] = text[q]
    BY <1>1, <1>4
  <2>2. h \notin Writers(q) /\ h \notin Writers(q)'
    BY <1>3, <1>4 DEF Writers, EditsOf
  <2>3. TagsAt(q)
    BY <2>1 DEF TagsInv
  <2>. QED BY <1>1, <1>2, <2>1, <2>2, <2>3, TagsElsewhere
<1>5. CASE q = s.post
  <2>1. TagsAt(q) /\ h \in Writers(q)
    BY <1>1, <1>5 DEF TagsInv, Writers, EditsOf
  <2>2. s.copy = text[q]
    BY <1>1, <2>1 DEF TagsAt
  <2>3. text'[q] = s.text
    BY <1>1, <1>5, <2>2
  <2>4. h \in Writers(q)'
    BY <1>3, <1>5 DEF Writers, EditsOf, TagPCs
  <2>. QED BY <1>2, <1>3, <2>1, <2>3, <2>4, TagsOfWriter
<1>. QED BY <1>4, <1>5

\* A request that ends was no writer, or had made the links, or is remembered.
LEMMA TagsEnd ==
  ASSUME PostTypeInv, TagsInv, NEW h \in Editors,
         CreatePublish(h) \/ RemovePublish(h) \/ PostFail(h)
  PROVE  TagsInv'
<1>. DEFINE s == edit[h]
<1>1. /\ UNCHANGED <<text, links, retagged>> /\ EndEdit(h) /\ broken \subseteq broken'
      /\ s.pc \in TagPCs => s.post \in broken'
  BY DEF CreatePublish, RemovePublish, PostFail, EditAt, PostHistories, TagPCs
<1>2. edit'[h] = NoEdit /\ \A g \in Editors : g # h => edit'[g] = edit[g]
  BY <1>1 DEF EndEdit, PostTypeInv, PostTypeOK
<1>3. edit'[h].pc = "idle"
  BY <1>2 DEF NoEdit
<1>. SUFFICES ASSUME NEW q \in Posts \ (broken' \cup retagged), text[q] # None
              PROVE  TagsAt(q)'
  BY <1>1 DEF TagsInv
<1>4. TagsAt(q) /\ h \notin Writers(q)'
  BY <1>1, <1>3 DEF TagsInv, Writers, EditsOf, TagPCs
<1>5. CASE h \notin Writers(q)
  BY <1>1, <1>2, <1>4, <1>5, TagsElsewhere
<1>6. CASE h \in Writers(q)
  <2>1. s.pc \in {"create.publish", "update.write"}
    BY <1>1, <1>6 DEF Writers, EditsOf
  <2>2. links[q] = TagsOf[text[q]]
    BY <1>4, <1>6, <2>1 DEF TagsAt
  <2>. QED BY <1>1, <1>2, <1>3, <1>4, <1>6, <2>2, TagsOfWriter DEF TagPCs
<1>. QED BY <1>5, <1>6

\* Removals and the consumer leave texts, links and their writers alone.
LEMMA TagsQuiet ==
  ASSUME PostTypeInv, TagsInv,
         \/ UNCHANGED postVars
         \/ \E h \in Editors : RemoveWrite(h) \/ \E p \in Posts : RemoveFind(h, p)
  PROVE  TagsInv'
<1>1. UNCHANGED <<text, links, broken, retagged>>
  BY DEF postVars, RemoveWrite, RemoveFind, PostHistories
<1>2. ASSUME NEW p \in Posts, NEW g \in Editors, g \in Writers(p) \/ g \in Writers(p)'
      PROVE  edit'[g] = edit[g]
  <2>1. ASSUME NEW h \in Editors, RemoveWrite(h)
        PROVE  edit'[g] = edit[g]
    <3>1. /\ edit[h].pc = "remove.write" /\ edit[h] \in Edit
          /\ edit'[h] = [edit[h] EXCEPT !.pc = "remove.publish"]
          /\ g # h => edit'[g] = edit[g]
      BY <2>1 DEF RemoveWrite, MoveOn, EditAt, PostTypeInv, PostTypeOK
    <3>2. edit'[h].pc = "remove.publish"
      BY <3>1 DEF Edit
    <3>3. h \notin Writers(p) /\ h \notin Writers(p)'
      BY <3>1, <3>2 DEF Writers, EditsOf, TagPCs
    <3>. QED BY <1>2, <3>1, <3>3
  <2>2. ASSUME NEW h \in Editors, NEW q \in Posts, RemoveFind(h, q)
        PROVE  edit'[g] = edit[g]
    <3>0. /\ edit[h] = NoEdit /\ edit'[h] = [NoEdit EXCEPT !.pc = "remove.write", !.post = q]
          /\ g # h => edit'[g] = edit[g]
      BY <2>2 DEF RemoveFind, StartEdit, PostTypeInv, PostTypeOK
    <3>1. edit[h].pc = "idle" /\ edit'[h].pc = "remove.write"
      BY <3>0 DEF NoEdit
    <3>2. h \notin Writers(p) /\ h \notin Writers(p)'
      BY <3>1 DEF Writers, EditsOf, TagPCs
    <3>. QED BY <1>2, <3>0, <3>2
  <2>. QED BY <2>1, <2>2 DEF postVars
<1>3. ASSUME NEW p \in Posts \ (broken \cup retagged), text[p] # None
      PROVE  TagsAt(p)'
  BY <1>1, <1>2, <1>3, TagsElsewhere DEF TagsInv
<1>. QED BY <1>1, <1>3 DEF TagsInv

\* The hashtags of a post are those of its text once its writers are done, unless
\* one died or was overtaken.
THEOREM HashtagsAreFollowing == PostSpec => []HashtagsFollowText
<1>1. SearchInit /\ PostInit => TagsInv
  BY DEF PostInit, TagsInv
<1>2. PostTypeInv /\ TagsInv /\ [PostNext]_<<searchVars, postVars>> => TagsInv'
  BY TagsSync, TagsBegin, TagsWrite, TagsEnd, TagsQuiet DEF PostNext, PostBegin, PostProceed
<1>3. TagsInv => HashtagsFollowText
  BY DEF TagsInv, TagsAt, HashtagsFollowText
<1>. QED BY <1>1, <1>2, <1>3, PostTypeCorrect, PTL DEF PostSpec, PostTypeInv
-----------------------------------------------------------------------------
(* PostCatalogue: the posts index *)

RemovePCs == {"remove.write", "remove.publish"}

\* Only posts that exist are removed, before their removal is announced; one that
\* is removed, or about to be, while it is being created is known to be.
Removals ==
  /\ \A p \in deleted : text[p] # None
  /\ \A h \in Editors : edit[h].pc = "remove.publish" => edit[h].post \in deleted
  /\ \A p \in Posts \ crossed : EditsOf(p, CreatePCs) # {} =>
       p \notin deleted /\ EditsOf(p, RemovePCs) = {}

\* What creates a post holds its text, until that is edited.
CreatorsHoldText ==
  \A h \in Editors : edit[h].pc \in CreatePCs /\ edit[h].post \notin edited =>
    edit[h].text = text[edit[h].post]

\* With nothing about to be announced, the index comes to the text a post was
\* created with, or to nothing once it is removed.
LeadsTo(p) ==
  IF p \in deleted THEN EditsOf(p, {"remove.publish"}) = {} => LastIs(p, None)
  ELSE \E doc \in Texts : LastIs(p, doc) /\ (p \notin edited => doc = text[p])
PostIndexLeads ==
  \A p \in Posts \ (broken \cup crossed) :
    text[p] # None /\ EditsOf(p, CreatePCs) = {} => LeadsTo(p)

PostIndexInv == Removals /\ CreatorsHoldText /\ PostIndexLeads

\* Steps that announce nothing: a text that changes is remembered as edited, and
\* whoever creates or removes a post still does.
LEMMA PostIndexQuiet ==
  ASSUME PostTypeInv, PostIndexInv, UNCHANGED <<index, mail, crowded, buried, deleted>>,
         edited \subseteq edited', broken \subseteq broken', crossed \subseteq crossed',
         TextsStay,
         \A p \in Posts : text'[p] = text[p] \/ (text[p] # None /\ p \in edited'),
         \A g \in Editors :
           /\ edit'[g].pc = edit[g].pc \/ (edit'[g].pc \notin RemovePCs /\ edit[g].pc \notin RemovePCs)
           /\ edit'[g].pc \in CreatePCs <=> edit[g].pc \in CreatePCs
           /\ edit[g].pc \in CreatePCs \cup RemovePCs =>
                edit'[g].post = edit[g].post /\ edit'[g].text = edit[g].text
  PROVE  PostIndexInv'
<1>1. \A p \in Posts : /\ EditsOf(p, CreatePCs)' = EditsOf(p, CreatePCs)
                       /\ EditsOf(p, RemovePCs)' = EditsOf(p, RemovePCs)
                       /\ EditsOf(p, {"remove.publish"})' = EditsOf(p, {"remove.publish"})
  BY DEF EditsOf, RemovePCs
<1>2. deleted \subseteq Posts /\ \A h \in Editors : edit[h].pc # "idle" => edit[h].post \in Posts
  BY DEF PostTypeInv, PostTypeOK, EditsLoaded, EditLoaded
<1>3. Removals'
  BY <1>1, <1>2 DEF PostIndexInv, Removals, TextsStay, RemovePCs
<1>4. CreatorsHoldText'
  BY <1>2 DEF PostIndexInv, CreatorsHoldText, CreatePCs
<1>5. PostIndexLeads'
  <2>. SUFFICES ASSUME NEW p \in Posts \ (broken' \cup crossed'), text'[p] # None,
                       EditsOf(p, CreatePCs) = {}
                PROVE  LeadsTo(p)'
    BY <1>1 DEF PostIndexLeads
  <2>1. LeadsTo(p)
    BY DEF PostIndexInv, PostIndexLeads
  <2>2. \A doc : LastIs(p, doc) => LastIs(p, doc)'
    BY DEF LastIs, Pending
  <2>. QED BY <1>1, <2>1, <2>2 DEF LeadsTo
<1>. QED BY <1>3, <1>4, <1>5 DEF PostIndexInv

\* A request that writes a post's hashtags goes on creating it, or never did.
LEMMA PostIndexSync ==
  ASSUME PostTypeInv, PostIndexInv, NEW h \in Editors, SyncUnlink(h) \/ SyncLink(h)
  PROVE  PostIndexInv'
<1>. DEFINE s == edit[h]
<1>1. /\ UNCHANGED <<searchVars, text, deleted, PostHistories>> /\ s.pc \in TagPCs /\ s \in Edit
      /\ TextsStay
  BY DEF SyncUnlink, SyncLink, EditAt, TagPCs, TextsStay, PostTypeInv, PostTypeOK
<1>2. /\ \A g \in Editors : g # h => edit'[g] = edit[g]
      /\ \/ /\ s.pc \notin CreatePCs
            /\ edit'[h] = NoEdit \/ edit'[h] = [s EXCEPT !.pc = "update.link"]
         \/ /\ s.pc \in CreatePCs
            /\ \/ edit'[h] = [s EXCEPT !.pc = "create.publish"]
               \/ edit'[h] = [s EXCEPT !.pc = "create.link"]
  <2>1. CASE AfterTags(h)
    BY <1>1, <2>1, AfterTagsTypes
  <2>2. CASE SyncUnlink(h) /\ ~AfterTags(h)
    <3>1. s.pc \in {"create.unlink", "update.unlink"}
          /\ MoveOn(h, IF s.pc = "create.unlink" THEN "create.link" ELSE "update.link")
      BY <2>2 DEF SyncUnlink, EditAt
    <3>. QED BY <3>1 DEF MoveOn, PostTypeInv, PostTypeOK, CreatePCs
  <2>. QED BY <2>1, <2>2 DEF SyncLink
<1>3. /\ edit'[h].pc \notin RemovePCs /\ s.pc \notin RemovePCs
      /\ edit'[h].pc \in CreatePCs <=> s.pc \in CreatePCs
      /\ s.pc \in CreatePCs => edit'[h].post = s.post /\ edit'[h].text = s.text
  <2>1. CASE s.pc \notin CreatePCs /\ edit'[h] = NoEdit
    BY <1>1, <1>2, <2>1 DEF NoEdit, RemovePCs, CreatePCs, TagPCs, Edit
  <2>2. ASSUME NEW pc \in {"update.link", "create.publish", "create.link"},
               edit'[h] = [s EXCEPT !.pc = pc], pc = "update.link" <=> s.pc \notin CreatePCs
        PROVE  /\ edit'[h].pc \notin RemovePCs /\ s.pc \notin RemovePCs
               /\ edit'[h].pc \in CreatePCs <=> s.pc \in CreatePCs
               /\ s.pc \in CreatePCs => edit'[h].post = s.post /\ edit'[h].text = s.text
    <3>1. edit'[h].pc = pc /\ edit'[h].post = s.post /\ edit'[h].text = s.text
      BY <1>1, <2>2 DEF Edit
    <3>. QED BY <1>1, <2>2, <3>1 DEF RemovePCs, CreatePCs, TagPCs
  <2>3. CASE s.pc \notin CreatePCs /\ edit'[h] = [s EXCEPT !.pc = "update.link"]
    BY <2>2, <2>3
  <2>4. CASE s.pc \in CreatePCs /\ edit'[h] = [s EXCEPT !.pc = "create.publish"]
    BY <2>2, <2>4
  <2>5. CASE s.pc \in CreatePCs /\ edit'[h] = [s EXCEPT !.pc = "create.link"]
    BY <2>2, <2>5
  <2>. QED BY <1>2, <2>1, <2>3, <2>4, <2>5
<1>4. \A g \in Editors :
        /\ edit'[g].pc = edit[g].pc \/ (edit'[g].pc \notin RemovePCs /\ edit[g].pc \notin RemovePCs)
        /\ edit'[g].pc \in CreatePCs <=> edit[g].pc \in CreatePCs
        /\ edit[g].pc \in CreatePCs \cup RemovePCs =>
             edit'[g].post = edit[g].post /\ edit'[g].text = edit[g].text
  BY <1>2, <1>3
<1>5. /\ UNCHANGED <<index, mail, crowded, buried, deleted, edited, broken, crossed>>
      /\ \A p \in Posts : text'[p] = text[p]
  BY <1>1 DEF searchVars, PostHistories
<1>. QED BY <1>1, <1>4, <1>5, PostIndexQuiet

\* An update is not announced, and marks the post as edited if its text changes.
LEMMA PostIndexUpdate ==
  ASSUME PostTypeInv, PostIndexInv, NEW h \in Editors,
         \/ PostUpdateWrite(h)
         \/ \E p \in Posts, t \in Texts : PostUpdateFind(h, p, t)
  PROVE  PostIndexInv'
<1>1. CASE PostUpdateWrite(h)
  <2>. DEFINE s == edit[h]
  <2>1. /\ UNCHANGED <<searchVars, deleted, broken, crossed>>
        /\ s.pc = "update.write" /\ s \in Edit /\ s.post \in Posts /\ s.text \in Texts
        /\ text[s.post] # None
        /\ IF s.text = s.copy THEN UNCHANGED <<text, edited>>
           ELSE text' = [text EXCEPT ![s.post] = s.text] /\ edited' = edited \cup {s.post}
        /\ edit'[h] = [s EXCEPT !.pc = "update.unlink"]
        /\ \A g \in Editors : g # h => edit'[g] = edit[g]
    BY <1>1 DEF PostUpdateWrite, EditAt, MoveOn, PostTypeInv, PostTypeOK, EditsLoaded, EditLoaded
  <2>2. TextsStay /\ edited \subseteq edited'
        /\ \A p \in Posts : text'[p] = text[p] \/ (text[p] # None /\ p \in edited')
    BY <2>1, SearchAssumption DEF TextsStay, PostTypeInv, PostTypeOK
  <2>3. edit'[h].pc = "update.unlink"
    BY <2>1 DEF Edit
  <2>. QED BY <2>1, <2>2, <2>3, PostIndexQuiet DEF searchVars, RemovePCs, CreatePCs
<1>2. ASSUME NEW p \in Posts, NEW t \in Texts, PostUpdateFind(h, p, t)
      PROVE  PostIndexInv'
  <2>1. /\ UNCHANGED <<searchVars, text, deleted, edited, broken, crossed>>
        /\ edit[h] = NoEdit /\ edit'[h].pc = "update.write"
        /\ \A g \in Editors : g # h => edit'[g] = edit[g]
    BY <1>2 DEF PostUpdateFind, StartEdit, PostTypeInv, PostTypeOK
  <2>. QED BY <2>1, PostIndexQuiet DEF searchVars, TextsStay, NoEdit, RemovePCs, CreatePCs
<1>. QED BY <1>1, <1>2

\* A post that is created is announced by nobody else and not removed.
LEMMA PostIndexCreate ==
  ASSUME PostTypeInv, PostIndexInv, NEW h \in Editors, NEW p \in Posts, NEW t \in Texts,
         Create(h, p, t)
  PROVE  PostIndexInv'
<1>1. /\ UNCHANGED <<searchVars, deleted, edited, broken, crossed>>
      /\ text[p] = None /\ text'[p] = t /\ t # None
      /\ \A q \in Posts : q # p => text'[q] = text[q]
      /\ edit'[h].pc = "create.unlink" /\ edit'[h].post = p /\ edit'[h].text = t
      /\ edit[h] = NoEdit /\ \A g \in Editors : g # h => edit'[g] = edit[g]
  BY SearchAssumption DEF Create, StartEdit, PostHistories, PostTypeInv, PostTypeOK
<1>2. /\ deleted \subseteq Posts /\ p \notin deleted
      /\ \A g \in Editors : edit[g].pc # "idle" => edit[g].post \in Posts /\ edit[g].post # p
  BY <1>1 DEF PostTypeInv, PostTypeOK, EditsLoaded, EditLoaded, PostIndexInv, Removals
<1>3. \A q \in Posts : q # p =>
        /\ EditsOf(q, CreatePCs)' = EditsOf(q, CreatePCs)
        /\ EditsOf(q, RemovePCs)' = EditsOf(q, RemovePCs)
        /\ EditsOf(q, {"remove.publish"})' = EditsOf(q, {"remove.publish"})
  BY <1>1 DEF EditsOf, NoEdit, CreatePCs, RemovePCs
<1>4. h \in EditsOf(p, CreatePCs)' /\ EditsOf(p, RemovePCs)' = {}
  BY <1>1, <1>2 DEF EditsOf, CreatePCs, RemovePCs
<1>5. Removals'
  BY <1>1, <1>2, <1>3, <1>4 DEF PostIndexInv, Removals
<1>6. CreatorsHoldText'
  BY <1>1, <1>2 DEF PostIndexInv, CreatorsHoldText, CreatePCs
<1>7. PostIndexLeads'
  <2>. SUFFICES ASSUME NEW q \in Posts \ (broken \cup crossed), text'[q] # None,
                       EditsOf(q, CreatePCs)' = {}
                PROVE  LeadsTo(q)'
    BY <1>1 DEF PostIndexLeads
  <2>1. q # p
    BY <1>4
  <2>2. LeadsTo(q)
    BY <1>1, <1>3, <2>1 DEF PostIndexInv, PostIndexLeads
  <2>3. \A doc : LastIs(q, doc) => LastIs(q, doc)'
    BY <1>1 DEF LastIs, Pending, searchVars
  <2>. QED BY <1>1, <1>3, <2>1, <2>2, <2>3 DEF LeadsTo
<1>. QED BY <1>5, <1>6, <1>7 DEF PostIndexInv

\* What a step leaves the index to come to, for posts that it does not touch.
LEMMA LeadsElsewhere ==
  ASSUME NEW p \in Posts, LeadsTo(p), text'[p] = text[p],
         p \in deleted' <=> p \in deleted, p \in edited' <=> p \in edited,
         EditsOf(p, {"remove.publish"})' = EditsOf(p, {"remove.publish"}),
         \A doc \in Docs \cup {None} : LastIs(p, doc) => LastIs(p, doc)'
  PROVE  LeadsTo(p)'
<1>1. Texts \subseteq Docs
  BY CatalogueAssumption
<1>. QED BY <1>1 DEF LeadsTo

\* Nor does a request move between stages it is not counted in.
LEMMA StagesElsewhere ==
  ASSUME NEW q, NEW pcs, NEW h \in Editors,
         \A g \in Editors : g # h => edit'[g] = edit[g],
         (edit[h].post = q /\ edit[h].pc \in pcs) <=> (edit'[h].post = q /\ edit'[h].pc \in pcs)
  PROVE  EditsOf(q, pcs)' = EditsOf(q, pcs)
BY DEF EditsOf

\* A post about to be removed while it is being created is crossed, and what is
\* removed leads to nothing once that is announced.
LEMMA PostIndexRemove ==
  ASSUME PostTypeInv, PostIndexInv, NEW h \in Editors,
         RemoveWrite(h) \/ \E p \in Posts : RemoveFind(h, p)
  PROVE  PostIndexInv'
<1>0. \A q \in Posts, doc \in Docs \cup {None} :
        UNCHANGED <<index, mail, crowded, buried>> /\ LastIs(q, doc) => LastIs(q, doc)'
  BY DEF LastIs, Pending
<1>1. ASSUME NEW p \in Posts, RemoveFind(h, p)
      PROVE  PostIndexInv'
  <2>1. /\ UNCHANGED <<index, mail, crowded, buried, text, deleted, edited, broken>>
        /\ edit[h] = NoEdit /\ edit'[h] = [NoEdit EXCEPT !.pc = "remove.write", !.post = p]
        /\ \A g \in Editors : g # h => edit'[g] = edit[g]
        /\ crossed \subseteq crossed' /\ (EditsOf(p, CreatePCs) # {} => p \in crossed')
        /\ p \notin deleted
    BY <1>1 DEF RemoveFind, StartEdit, searchVars, CreatePCs, PostTypeInv, PostTypeOK
  <2>2. edit[h].pc = "idle" /\ edit'[h].pc = "remove.write" /\ edit'[h].post = p
    BY <2>1 DEF NoEdit
  <2>3. \A q \in Posts : /\ EditsOf(q, CreatePCs)' = EditsOf(q, CreatePCs)
                         /\ EditsOf(q, {"remove.publish"})' = EditsOf(q, {"remove.publish"})
                         /\ q # p => EditsOf(q, RemovePCs)' = EditsOf(q, RemovePCs)
    <3>. SUFFICES ASSUME NEW q \in Posts
                  PROVE  /\ EditsOf(q, CreatePCs)' = EditsOf(q, CreatePCs)
                         /\ EditsOf(q, {"remove.publish"})' = EditsOf(q, {"remove.publish"})
                         /\ q # p => EditsOf(q, RemovePCs)' = EditsOf(q, RemovePCs)
      OBVIOUS
    <3>1. EditsOf(q, CreatePCs)' = EditsOf(q, CreatePCs)
      <4>1. edit[h].pc \notin CreatePCs /\ edit'[h].pc \notin CreatePCs
        BY <2>2 DEF CreatePCs
      <4>. QED BY <2>1, <4>1, StagesElsewhere
    <3>2. EditsOf(q, {"remove.publish"})' = EditsOf(q, {"remove.publish"})
      <4>1. edit[h].pc # "remove.publish" /\ edit'[h].pc # "remove.publish"
        BY <2>2
      <4>. QED BY <2>1, <4>1 DEF EditsOf
    <3>3. q # p => EditsOf(q, RemovePCs)' = EditsOf(q, RemovePCs)
      <4>1. edit[h].pc \notin RemovePCs
        BY <2>2 DEF RemovePCs
      <4>. SUFFICES ASSUME q # p PROVE EditsOf(q, RemovePCs)' = EditsOf(q, RemovePCs)
        OBVIOUS
      <4>2. edit'[h].post # q
        BY <2>2
      <4>. QED BY <2>1, <4>1, <4>2, StagesElsewhere
    <3>. QED BY <3>1, <3>2, <3>3
  <2>4. Removals'
    BY <2>1, <2>2, <2>3 DEF PostIndexInv, Removals
  <2>5. CreatorsHoldText'
    BY <2>1, <2>2 DEF PostIndexInv, CreatorsHoldText, CreatePCs
  <2>6. PostIndexLeads'
    BY <1>0, <2>1, <2>3, LeadsElsewhere DEF PostIndexInv, PostIndexLeads
  <2>. QED BY <2>4, <2>5, <2>6 DEF PostIndexInv
<1>2. CASE RemoveWrite(h)
  <2>. DEFINE p == edit[h].post
  <2>1. /\ UNCHANGED <<index, mail, crowded, buried, text, edited, broken, crossed>>
        /\ edit[h].pc = "remove.write" /\ edit[h] \in Edit /\ p \in Posts /\ text[p] # None
        /\ deleted' = deleted \cup {p} /\ edit'[h] = [edit[h] EXCEPT !.pc = "remove.publish"]
        /\ \A g \in Editors : g # h => edit'[g] = edit[g]
    BY <1>2 DEF RemoveWrite, EditAt, MoveOn, searchVars, PostHistories, PostTypeInv, PostTypeOK,
                EditsLoaded, EditLoaded
  <2>2. edit'[h].pc = "remove.publish" /\ edit'[h].post = p
    BY <2>1 DEF Edit
  <2>3. \A q \in Posts : /\ EditsOf(q, CreatePCs)' = EditsOf(q, CreatePCs)
                         /\ EditsOf(q, RemovePCs)' = EditsOf(q, RemovePCs)
                         /\ q # p => EditsOf(q, {"remove.publish"})' = EditsOf(q, {"remove.publish"})
    <3>. SUFFICES ASSUME NEW q \in Posts
                  PROVE  /\ EditsOf(q, CreatePCs)' = EditsOf(q, CreatePCs)
                         /\ EditsOf(q, RemovePCs)' = EditsOf(q, RemovePCs)
                         /\ q # p =>
                              EditsOf(q, {"remove.publish"})' = EditsOf(q, {"remove.publish"})
      OBVIOUS
    <3>1. EditsOf(q, CreatePCs)' = EditsOf(q, CreatePCs)
      <4>1. edit[h].pc \notin CreatePCs /\ edit'[h].pc \notin CreatePCs
        BY <2>1, <2>2 DEF CreatePCs
      <4>. QED BY <2>1, <4>1, StagesElsewhere
    <3>2. EditsOf(q, RemovePCs)' = EditsOf(q, RemovePCs)
      <4>1. edit[h].pc \in RemovePCs /\ edit'[h].pc \in RemovePCs
        BY <2>1, <2>2 DEF RemovePCs
      <4>2. edit'[h].post = q <=> edit[h].post = q
        BY <2>2
      <4>. QED BY <2>1, <4>1, <4>2, StagesElsewhere, ZenonT(30)
    <3>3. q # p => EditsOf(q, {"remove.publish"})' = EditsOf(q, {"remove.publish"})
      <4>. SUFFICES ASSUME q # p
                    PROVE  EditsOf(q, {"remove.publish"})' = EditsOf(q, {"remove.publish"})
        OBVIOUS
      <4>1. edit'[h].post # q /\ edit[h].post # q
        BY <2>2
      <4>. QED BY <2>1, <4>1, StagesElsewhere, ZenonT(30)
    <3>. QED BY <3>1, <3>2, <3>3
  <2>4. \A q \in Posts : q = p =>
          h \in EditsOf(q, RemovePCs) /\ h \in EditsOf(q, {"remove.publish"})'
    BY <2>1, <2>2 DEF EditsOf, RemovePCs
  <2>. HIDE DEF p
  <2>5. Removals'
    BY <2>1, <2>2, <2>3, <2>4 DEF PostIndexInv, Removals
  <2>6. CreatorsHoldText'
    BY <2>1, <2>2 DEF PostIndexInv, CreatorsHoldText, CreatePCs
  <2>7. PostIndexLeads'
    <3>. SUFFICES ASSUME NEW q \in Posts \ (broken \cup crossed), text[q] # None,
                         EditsOf(q, CreatePCs) = {}
                  PROVE  LeadsTo(q)'
      BY <2>1, <2>3 DEF PostIndexLeads
    <3>1. CASE q = p
      <4>1. q \in deleted' /\ EditsOf(q, {"remove.publish"})' # {}
        BY <2>1, <2>4, <3>1
      <4>. QED BY <4>1 DEF LeadsTo
    <3>2. CASE q # p
      BY <1>0, <2>1, <2>3, <3>2, LeadsElsewhere DEF PostIndexInv, PostIndexLeads
    <3>. QED BY <3>1, <3>2
  <2>. QED BY <2>5, <2>6, <2>7 DEF PostIndexInv
<1>. QED BY <1>1, <1>2

\* What is announced of a post is what it is: its first text, or that it is gone.
LEMMA PostIndexPublish ==
  ASSUME PostTypeInv, PostIndexInv, NEW h \in Editors, CreatePublish(h) \/ RemovePublish(h)
  PROVE  PostIndexInv'
<1>. DEFINE p == edit[h].post
<1>1. /\ UNCHANGED <<text, deleted, edited, broken, crossed>> /\ EndEdit(h) /\ p \in Posts
      /\ edit[h].pc \in {"create.publish", "remove.publish"} /\ SearchTypeOK
  BY DEF CreatePublish, RemovePublish, EditAt, PostHistories, PostTypeInv, PostTypeOK,
         EditsLoaded, EditLoaded
<1>2. edit'[h] = NoEdit /\ edit'[h].pc = "idle"
      /\ \A g \in Editors : g # h => edit'[g] = edit[g]
  BY <1>1 DEF EndEdit, NoEdit, PostTypeInv, PostTypeOK
<1>3. /\ p \in Ids /\ (edit[h].pc = "remove.publish" => p \in deleted)
      /\ edit[h].pc = "create.publish" =>
           /\ edit[h].text \in Texts /\ (p \notin edited => edit[h].text = text[p])
           /\ p \notin crossed => p \notin deleted
  BY <1>1 DEF PostTypeInv, EditsLoaded, EditLoaded, PostIndexInv, Removals, CreatorsHoldText,
              CreatePCs, EditsOf
<1>4. \A q \in Posts : q # p =>
        /\ EditsOf(q, CreatePCs)' = EditsOf(q, CreatePCs)
        /\ EditsOf(q, {"remove.publish"})' = EditsOf(q, {"remove.publish"})
  BY <1>1, <1>2 DEF EditsOf, CreatePCs
<1>5. Removals'
  BY <1>1, <1>2 DEF PostIndexInv, Removals, EditsOf, CreatePCs, RemovePCs
<1>6. CreatorsHoldText'
  BY <1>1, <1>2 DEF PostIndexInv, CreatorsHoldText, CreatePCs
<1>7. PostIndexLeads'
  <2>. SUFFICES ASSUME NEW q \in Posts \ (broken \cup crossed), text[q] # None,
                       EditsOf(q, CreatePCs)' = {}
                PROVE  LeadsTo(q)'
    BY <1>1 DEF PostIndexLeads
  <2>1. CASE q = p
    <3>1. CASE CreatePublish(h)
      <4>1. edit[h].pc = "create.publish" /\ Send(q, edit[h].text)
        BY <2>1, <3>1 DEF CreatePublish, EditAt
      <4>2. ASSUME NEW doc, doc = edit[h].text
            PROVE  LastIs(q, doc)'
        BY <1>3, <2>1, <4>1, <4>2, SendLeads
      <4>. QED BY <1>1, <1>3, <2>1, <4>1, <4>2 DEF LeadsTo
    <3>2. CASE RemovePublish(h)
      <4>1. edit[h].pc = "remove.publish" /\ Send(q, None)
        BY <2>1, <3>2 DEF RemovePublish, EditAt
      <4>2. LastIs(q, None)'
        BY <1>3, <2>1, <4>1, SendLeads
      <4>. QED BY <1>1, <1>3, <2>1, <4>1, <4>2 DEF LeadsTo
    <3>. QED BY <3>1, <3>2
  <2>2. CASE q # p
    <3>1. PICK other, sentDoc : other \in Ids /\ other # q /\ Send(other, sentDoc)
      BY <1>3, <2>2 DEF CreatePublish, RemovePublish
    <3>2. \A doc \in Docs \cup {None} : LastIs(q, doc) => LastIs(q, doc)'
      BY <3>1, SendElsewhere, CatalogueAssumption
    <3>. QED BY <1>1, <1>4, <2>2, <3>2, LeadsElsewhere DEF PostIndexInv, PostIndexLeads
  <2>. QED BY <2>1, <2>2
<1>. QED BY <1>5, <1>6, <1>7 DEF PostIndexInv

\* A request that fails before its announcement is remembered.
LEMMA PostIndexFail ==
  ASSUME PostTypeInv, PostIndexInv, NEW h \in Editors, PostFail(h)
  PROVE  PostIndexInv'
<1>1. /\ UNCHANGED <<index, mail, crowded, buried, text, deleted, edited, crossed>>
      /\ EndEdit(h) /\ broken \subseteq broken'
      /\ edit[h].pc \in CreatePCs \cup {"remove.publish"} => edit[h].post \in broken'
  BY DEF PostFail, EditAt, searchVars, CreatePCs
<1>2. edit'[h].pc = "idle" /\ \A g \in Editors : g # h => edit'[g] = edit[g]
  BY <1>1 DEF EndEdit, NoEdit, PostTypeInv, PostTypeOK
<1>3. Removals'
  BY <1>1, <1>2 DEF PostIndexInv, Removals, EditsOf, CreatePCs, RemovePCs
<1>4. CreatorsHoldText'
  BY <1>1, <1>2 DEF PostIndexInv, CreatorsHoldText, CreatePCs
<1>5. PostIndexLeads'
  <2>. SUFFICES ASSUME NEW q \in Posts \ (broken' \cup crossed), text[q] # None,
                       EditsOf(q, CreatePCs)' = {}
                PROVE  LeadsTo(q)'
    BY <1>1 DEF PostIndexLeads
  <2>1. /\ EditsOf(q, CreatePCs)' = EditsOf(q, CreatePCs)
        /\ EditsOf(q, {"remove.publish"})' = EditsOf(q, {"remove.publish"})
    BY <1>1, <1>2 DEF EditsOf, CreatePCs
  <2>2. LeadsTo(q)
    BY <1>1, <2>1 DEF PostIndexInv, PostIndexLeads
  <2>3. \A doc \in Docs \cup {None} : LastIs(q, doc) => LastIs(q, doc)'
    BY <1>1 DEF LastIs, Pending
  <2>. QED BY <1>1, <2>1, <2>2, <2>3, LeadsElsewhere
<1>. QED BY <1>3, <1>4, <1>5 DEF PostIndexInv

\* So does every other step keep the account of the index.
LEMMA PostIndexInductive ==
  PostTypeInv /\ PostIndexInv /\ [PostNext]_<<searchVars, postVars>> => PostIndexInv'
<1>. SUFFICES ASSUME PostTypeInv, PostIndexInv, [PostNext]_<<searchVars, postVars>>
              PROVE  PostIndexInv'
  OBVIOUS
<1>1. CASE UNCHANGED <<searchVars, postVars>>
  BY <1>1, PostIndexQuiet DEF searchVars, postVars, TextsStay
<1>2. CASE Consume /\ UNCHANGED postVars
  <2>1. UNCHANGED <<text, deleted, edit, edited, broken, crossed>>
    BY <1>2 DEF postVars
  <2>2. \A q \in Posts, doc \in Docs \cup {None} : LastIs(q, doc) => LastIs(q, doc)'
    BY <1>2, ConsumeLeads, CatalogueAssumption DEF PostTypeInv, PostTypeOK
  <2>3. \A q \in Posts : \A pcs : EditsOf(q, pcs)' = EditsOf(q, pcs)
    BY <2>1 DEF EditsOf
  <2>4. PostIndexLeads'
    BY <2>1, <2>2, <2>3, LeadsElsewhere DEF PostIndexInv, PostIndexLeads
  <2>. QED BY <2>1, <2>3, <2>4 DEF PostIndexInv, Removals, CreatorsHoldText
<1>. QED BY <1>1, <1>2, PostIndexSync, PostIndexUpdate, PostIndexCreate, PostIndexRemove,
            PostIndexPublish, PostIndexFail DEF PostNext, PostBegin, PostProceed

\* Once nothing is on its way, a post is in the index exactly if it was not removed,
\* with its text if that never changed, unless the history excuses it.
THEOREM PostIndexIsFollowing == PostSpec => []IndexFollowsPost
<1>1. SearchInit /\ PostInit => PostIndexInv
  BY DEF PostInit, PostIndexInv, Removals, CreatorsHoldText, PostIndexLeads, NoEdit,
         CreatePCs, EditsOf
<1>2. PostIndexInv => IndexFollowsPost
  <2>. SUFFICES ASSUME PostIndexInv, NEW p \in Posts, text[p] # None, InStep(p),
                       EditsOf(p, PostPCs \ {"update.write", "update.unlink", "update.link"}) = {},
                       p \notin broken \cup crossed
                PROVE  IF p \in deleted THEN index[p] = None
                       ELSE index[p] # None /\ (p \notin edited => index[p] = text[p])
    BY DEF IndexFollowsPost
  <2>1. EditsOf(p, CreatePCs) = {} /\ EditsOf(p, {"remove.publish"}) = {}
    BY DEF EditsOf, PostPCs, TagPCs, CreatePCs
  <2>2. LeadsTo(p)
    BY <2>1 DEF PostIndexInv, PostIndexLeads
  <2>3. \A doc : LastIs(p, doc) => index[p] = doc
    BY DEF LastIs, InStep
  <2>. QED BY <2>1, <2>2, <2>3, CatalogueAssumption, SearchAssumption DEF LeadsTo
<1>. QED BY <1>1, <1>2, PostIndexInductive, PostTypeCorrect, PTL DEF PostSpec, PostTypeInv
-----------------------------------------------------------------------------
(* JobService: requests *)

Applying == {"apply.find", "apply.insert", "apply.count", "apply.publish"}
Reading == {"job.write", "apply.find", "apply.insert"}

\* What a request of each kind is made of.
LEMMA RequestFields ==
  \A r \in Request :
    /\ r.pc \in {"company.insert", "job.insert", "job.publish", "job.write", "status.write"}
                \cup Applying
    /\ r.pc = "company.insert" => r.company \in Companies /\ r.row \in CompanyRow
    /\ r.pc \in {"job.insert", "job.publish"} => r.job \in Jobs /\ r.row \in JobRow
    /\ r.pc = "job.write" => /\ r.job \in Jobs /\ r.user \in People /\ r.copy \in JobRow
                             /\ r.changes \in JobChanges /\ r.fresh \in BOOLEAN
    /\ r.pc \in Applying => r.job \in Jobs /\ r.user \in People /\ r.fresh \in BOOLEAN
    /\ r.pc = "status.write" => /\ r.job \in Jobs /\ r.user \in People /\ r.applicant \in People
                                /\ r.copy \in ApplicationStatus /\ r.status \in ApplicationStatus
BY DEF Request, Applying

\* A new posting goes on to be announced.
LEMMA InsertGoesOn ==
  ASSUME NEW r \in Request, r.pc = "job.insert"
  PROVE  LET s == [r EXCEPT !.pc = "job.publish"]
         IN  s \in Request /\ s.pc = "job.publish" /\ s.job = r.job /\ s.row = r.row
<1>1. r \in [pc : {"job.insert"}, job : Jobs, row : JobRow]
  BY DEF Request
<1>. QED BY <1>1 DEF Request

\* An application goes on through its steps.
LEMMA ApplyGoesOn ==
  ASSUME NEW r \in Request, r.pc \in Applying, NEW pc \in Applying
  PROVE  LET s == [r EXCEPT !.pc = pc]
         IN  s \in Request /\ s.pc = pc /\ s.job = r.job /\ s.user = r.user /\ s.fresh = r.fresh
<1>1. r \in [pc : Applying, job : Jobs, user : People, fresh : BOOLEAN]
  BY DEF Request, Applying
<1>2. [r EXCEPT !.pc = pc] \in [pc : Applying, job : Jobs, user : People, fresh : BOOLEAN]
  BY <1>1
<1>. QED BY <1>1, <1>2 DEF Request, Applying

\* What a request has read is outdated.
LEMMA Outdated ==
  ASSUME NEW r \in Request, r.pc \in Reading
  PROVE  LET s == [r EXCEPT !.fresh = FALSE]
         IN  /\ s \in Request /\ s.pc = r.pc /\ s.job = r.job /\ s.user = r.user /\ s.fresh = FALSE
             /\ s.pc = "job.write" => s.copy = r.copy /\ s.changes = r.changes
<1>1. CASE r.pc = "job.write"
  <2>1. r \in [pc : {"job.write"}, job : Jobs, user : People, copy : JobRow, changes : JobChanges,
               fresh : BOOLEAN]
    BY <1>1 DEF Request
  <2>2. [r EXCEPT !.fresh = FALSE] \in
          [pc : {"job.write"}, job : Jobs, user : People, copy : JobRow, changes : JobChanges,
           fresh : BOOLEAN]
    BY <2>1
  <2>. QED BY <1>1, <2>1, <2>2 DEF Request
<1>2. CASE r.pc # "job.write"
  <2>1. r \in [pc : Applying, job : Jobs, user : People, fresh : BOOLEAN]
    BY <1>2 DEF Request, Applying, Reading
  <2>2. [r EXCEPT !.fresh = FALSE] \in [pc : Applying, job : Jobs, user : People, fresh : BOOLEAN]
    BY <2>1
  <2>. QED BY <1>2, <2>1, <2>2 DEF Request, Applying
<1>. QED BY <1>1, <1>2

\* What a request found, or left unwritten, holds until its next statement: keys
\* it is to insert are free, rows it works on are there, its user may write them,
\* and what it read is still so if it met no change since.
Holds(c) ==
  LET r == request[c] IN
  /\ r.pc = "company.insert" => company[r.company] = None
  /\ r.pc = "job.insert" => /\ job[r.job] = None /\ company[r.row.company] # None
                            /\ r.row.applicantsCount = 0
  /\ r.pc \notin {"company.insert", "job.insert"} => Exists(r.job)
  /\ r.pc = "job.write" =>
       /\ CanManage(job[r.job], r.user)
       /\ r.fresh => r.copy.advert = job[r.job].advert /\ r.copy.isActive = job[r.job].isActive
  /\ r.pc \in {"apply.find", "apply.insert"} /\ r.fresh => job[r.job].isActive
  /\ r.pc = "status.write" => application[r.job][r.applicant] # None
RequestsHold == \A c \in Clerks : request[c] # None => Holds(c)

\* No two requests are to insert the same row.
Apart(c, d) ==
  /\ Doing(c, "company.insert") /\ Doing(d, "company.insert") =>
       request[c].company # request[d].company
  /\ Doing(c, "job.insert") /\ Doing(d, "job.insert") => request[c].job # request[d].job
InsertsAlone == \A c, d \in Clerks : c # d => Apart(c, d)

\* A posting is a company's.
CompaniesThere == \A j \in Jobs : Exists(j) => company[job[j].company] # None

JobTypeInv == JobTypeOK /\ RequestsHold /\ InsertsAlone /\ CompaniesThere

\* No row goes, and neither who owns it nor who may manage it changes.
TablesGrow ==
  /\ \A k \in Companies : company[k] # None =>
       company'[k] # None /\ company'[k].adminIds = company[k].adminIds
  /\ \A j \in Jobs : Exists(j) =>
       Exists(j)' /\ job'[j].company = job[j].company /\ job'[j].poster = job[j].poster
  /\ \A j \in Jobs, u \in People : application[j][u] # None => application'[j][u] # None

\* The other requests stay where they are; at most what they read is outdated.
OthersStay(c) ==
  \A d \in Clerks \ {c} :
    \/ request'[d] = request[d]
    \/ /\ request[d] # None /\ request[d].pc \in Reading
       /\ request'[d] = [request[d] EXCEPT !.fresh = FALSE]

\* The rows the other requests insert are still free, and postings they know to be
\* as they read them are so.
RowsStay(c) ==
  \A d \in Clerks \ {c} : request[d] # None =>
    /\ request[d].pc = "company.insert" =>
         company'[request[d].company] = company[request[d].company]
    /\ request[d].pc = "job.insert" => job'[request[d].job] = job[request[d].job]
    /\ request[d].pc \in Reading /\ request'[d].fresh =>
         /\ job'[request[d].job].advert = job[request[d].job].advert
         /\ job'[request[d].job].isActive = job[request[d].job].isActive

\* What another request is about does not change.
LEMMA OtherRequest ==
  ASSUME JobTypeInv, NEW c, OthersStay(c), NEW d \in Clerks \ {c}
  PROVE  /\ request'[d] \in Request \cup {None} /\ (request'[d] = None <=> request[d] = None)
         /\ request[d] # None =>
              LET r == request[d]
                  s == request'[d]
              IN  /\ r \in Request /\ s.pc = r.pc
                  /\ r.pc = "company.insert" => s.company = r.company
                  /\ r.pc # "company.insert" => s.job = r.job
                  /\ r.pc \in {"job.insert", "job.publish"} => s.row = r.row
                  /\ r.pc \in Applying \cup {"job.write", "status.write"} => s.user = r.user
                  /\ r.pc = "job.write" => s.copy = r.copy /\ s.changes = r.changes
                  /\ r.pc = "status.write" => s.applicant = r.applicant
                  /\ r.pc \in Reading => (s.fresh => r.fresh)
<1>1. request[d] \in Request \cup {None} /\ None \notin Request
  BY JobRowAssumption DEF JobTypeInv, JobTypeOK
<1>2. CASE request'[d] = request[d]
  BY <1>1, <1>2
<1>3. CASE /\ request[d] # None /\ request[d].pc \in Reading
           /\ request'[d] = [request[d] EXCEPT !.fresh = FALSE]
  <2>. DEFINE r == request[d]
              s == [r EXCEPT !.fresh = FALSE]
  <2>1. r \in Request /\ r.pc \in Reading /\ request'[d] = s
    BY <1>1, <1>3
  <2>2. /\ s \in Request /\ s.pc = r.pc /\ s.job = r.job /\ s.user = r.user /\ s.fresh = FALSE
        /\ s.pc = "job.write" => s.copy = r.copy /\ s.changes = r.changes
    BY <2>1, Outdated
  <2>. QED BY <1>1, <2>1, <2>2 DEF Reading
<1>. QED BY <1>2, <1>3 DEF OthersStay

\* What another request holds it keeps, if its rows stay.
LEMMA OtherHolds ==
  ASSUME JobTypeInv, TablesGrow, NEW c, OthersStay(c), RowsStay(c), NEW d \in Clerks \ {c},
         request[d] # None
  PROVE  Holds(d)'
<1>. DEFINE r == request[d]
            s == request'[d]
<1>1. /\ r \in Request /\ s.pc = r.pc /\ Holds(d)
      /\ r.pc = "company.insert" => s.company = r.company
      /\ r.pc # "company.insert" => s.job = r.job
      /\ r.pc \in {"job.insert", "job.publish"} => s.row = r.row
      /\ r.pc \in Applying \cup {"job.write", "status.write"} => s.user = r.user
      /\ r.pc = "job.write" => s.copy = r.copy /\ s.changes = r.changes
      /\ r.pc = "status.write" => s.applicant = r.applicant
      /\ r.pc \in Reading => (s.fresh => r.fresh)
  BY OtherRequest DEF JobTypeInv, RequestsHold
<1>2. CASE r.pc = "company.insert"
  BY <1>1, <1>2 DEF Holds, RowsStay
<1>3. CASE r.pc = "job.insert"
  <2>1. r.row.company \in Companies
    BY <1>1, <1>3, RequestFields DEF JobRow
  <2>. QED BY <1>1, <1>3, <2>1 DEF Holds, RowsStay, TablesGrow
<1>4. CASE r.pc \notin {"company.insert", "job.insert"}
  <2>1. r.job \in Jobs /\ Exists(r.job)
    BY <1>1, <1>4, RequestFields DEF Holds
  <2>2. job'[s.job] # None
    BY <1>1, <1>4, <2>1 DEF TablesGrow, Exists
  <2>3. r.pc = "job.write" =>
          \/ Role[s.user] = "ADMIN" \/ job'[s.job].poster = s.user
          \/ s.user \in company'[job'[s.job].company].adminIds
    <3>. SUFFICES ASSUME r.pc = "job.write"
                  PROVE  \/ Role[s.user] = "ADMIN" \/ job'[s.job].poster = s.user
                         \/ s.user \in company'[job'[s.job].company].adminIds
      OBVIOUS
    <3>1. job[r.job].company \in Companies /\ company[job[r.job].company] # None
      BY <2>1 DEF JobTypeInv, JobTypeOK, JobTable, JobRow, CompaniesThere, Exists
    <3>2. s.job = r.job /\ s.user = r.user /\ CanManage(job[r.job], r.user)
      BY <1>1 DEF Holds
    <3>3. job'[r.job].company = job[r.job].company /\ job'[r.job].poster = job[r.job].poster
      BY <2>1 DEF TablesGrow
    <3>4. company'[job[r.job].company].adminIds = company[job[r.job].company].adminIds
      BY <3>1 DEF TablesGrow
    <3>. QED BY <3>2, <3>3, <3>4 DEF CanManage
  <2>4. r.pc = "job.write" /\ s.fresh =>
          s.copy.advert = job'[s.job].advert /\ s.copy.isActive = job'[s.job].isActive
    BY <1>1 DEF Holds, RowsStay, Reading
  <2>5. r.pc \in {"apply.find", "apply.insert"} /\ s.fresh => job'[s.job].isActive
    BY <1>1 DEF Holds, RowsStay, Reading
  <2>6. r.pc = "status.write" => application'[s.job][s.applicant] # None
    BY <1>1, <2>1, RequestFields DEF Holds, TablesGrow
  <2>. QED BY <1>1, <1>4, <2>2, <2>3, <2>4, <2>5, <2>6 DEF Holds, Exists, CanManage
<1>. QED BY <1>2, <1>3, <1>4

\* So a step keeps what requests hold if the request that moves does.
LEMMA RequestsKeep ==
  ASSUME JobTypeInv, TablesGrow, NEW c \in Clerks, OthersStay(c), RowsStay(c),
         DOMAIN request' = Clerks, request' = [d \in Clerks |-> request'[d]],
         request'[c] # None => request'[c] \in Request /\ Holds(c)',
         \A d \in Clerks : d # c => Apart(c, d)' /\ Apart(d, c)'
  PROVE  request' \in [Clerks -> Request \cup {None}] /\ RequestsHold' /\ InsertsAlone'
<1>1. \A d \in Clerks \ {c} : request'[d] \in Request \cup {None}
  BY OtherRequest
<1>2. request' \in [Clerks -> Request \cup {None}]
  BY <1>1
<1>3. RequestsHold'
  BY OtherRequest, OtherHolds DEF RequestsHold
<1>4. ASSUME NEW d \in Clerks, NEW e \in Clerks, d # e PROVE Apart(d, e)'
  <2>1. CASE d = c \/ e = c
    BY <1>4, <2>1
  <2>2. CASE d # c /\ e # c
    <3>1. /\ Doing(d, "company.insert")' => Doing(d, "company.insert") /\ request'[d].company = request[d].company
          /\ Doing(d, "job.insert")' => Doing(d, "job.insert") /\ request'[d].job = request[d].job
          /\ Doing(e, "company.insert")' => Doing(e, "company.insert") /\ request'[e].company = request[e].company
          /\ Doing(e, "job.insert")' => Doing(e, "job.insert") /\ request'[e].job = request[e].job
      BY <2>2, OtherRequest DEF Doing
    <3>. QED BY <1>4, <3>1 DEF JobTypeInv, InsertsAlone, Apart
  <2>. QED BY <2>1, <2>2
<1>. QED BY <1>2, <1>3, <1>4 DEF InsertsAlone

\* A step of one request leaves the others alone.
LEMMA OneMoves ==
  ASSUME JobTypeInv, NEW c \in Clerks, NEW s, request' = [request EXCEPT ![c] = s]
  PROVE  /\ request'[c] = s /\ OthersStay(c)
         /\ \A d \in Clerks \ {c} : request'[d] = request[d]
         /\ DOMAIN request' = Clerks /\ request' = [d \in Clerks |-> request'[d]]
BY DEF JobTypeInv, JobTypeOK, OthersStay

\* A request that begins with what it holds.
LEMMA BeginKeeps ==
  ASSUME JobTypeInv, NEW c \in Clerks, NEW s \in Request, Take(c, s),
         UNCHANGED <<company, job, application>>, Holds(c)',
         \A d \in Clerks : d # c => Apart(c, d)' /\ Apart(d, c)'
  PROVE  /\ request' \in [Clerks -> Request \cup {None}] /\ RequestsHold' /\ InsertsAlone'
         /\ CompaniesThere' /\ company' \in CompanyTable /\ job' \in JobTable
         /\ application' \in ApplicationTable
<1>1. request' = [request EXCEPT ![c] = s]
  BY DEF Take
<1>2. /\ request'[c] = s /\ OthersStay(c) /\ \A d \in Clerks \ {c} : request'[d] = request[d]
      /\ DOMAIN request' = Clerks /\ request' = [d \in Clerks |-> request'[d]]
  BY <1>1, OneMoves
<1>3. TablesGrow /\ RowsStay(c)
  BY DEF TablesGrow, RowsStay, Exists
<1>4. request' \in [Clerks -> Request \cup {None}] /\ RequestsHold' /\ InsertsAlone'
  BY <1>2, <1>3, RequestsKeep
<1>. QED BY <1>4 DEF JobTypeInv, JobTypeOK, CompaniesThere, Exists

\* A request that inserts nothing meets nobody.
LEMMA NothingToInsert ==
  ASSUME NEW c, NEW d, NEW s, request'[c] = s,
         s # None => s.pc \notin {"company.insert", "job.insert"}
  PROVE  Apart(c, d)' /\ Apart(d, c)'
BY DEF Apart, Doing

\* What has the types of the tables goes on having them.
JobRestTypes ==
  /\ SearchTypeOK' /\ saved' \in SavedTable /\ told' \in [Jobs -> SUBSET People]
  /\ uncounted' \in [Jobs -> Nat] /\ untold' \subseteq Jobs /\ reworded' \subseteq Jobs

LEMMA RestUnchanged ==
  ASSUME JobTypeInv, UNCHANGED <<searchVars, saved, told, uncounted, untold, reworded>>
  PROVE  JobRestTypes
BY DEF JobTypeInv, JobTypeOK, SearchTypeOK, searchVars, JobRestTypes

LEMMA JobBeginTypes ==
  ASSUME JobTypeInv, NEW c \in Clerks, NEW u \in People,
         \/ \E k \in Companies, page \in Pages, name \in Names : CompanyStart(c, k, u, name, page)
         \/ \E j \in Jobs :
              \/ \E k \in Companies, advert \in Adverts : JobStart(c, j, k, u, advert)
              \/ \E changes \in JobChanges : JobFind(c, j, u, changes)
              \/ ApplyStart(c, j, u)
              \/ \E a \in People, status \in Verdicts : StatusFind(c, j, u, a, status)
  PROVE  JobTypeInv'
<1>0. /\ UNCHANGED <<searchVars, company, job, application, saved, told, uncounted, untold, reworded>>
      /\ request[c] = None
  BY DEF CompanyStart, JobStart, JobFind, ApplyStart, StatusFind, Take, Hiring, JobHistories
<1>1. JobRestTypes
  BY <1>0, RestUnchanged
<1>2. SUFFICES
        \E s \in Request : /\ Take(c, s) /\ Holds(c)'
                           /\ \A d \in Clerks : d # c => Apart(c, d)' /\ Apart(d, c)'
  <2>1. PICK s \in Request : /\ Take(c, s) /\ Holds(c)'
                             /\ \A d \in Clerks : d # c => Apart(c, d)' /\ Apart(d, c)'
    BY <1>2
  <2>2. /\ request' \in [Clerks -> Request \cup {None}] /\ RequestsHold' /\ InsertsAlone'
        /\ CompaniesThere' /\ company' \in CompanyTable /\ job' \in JobTable
        /\ application' \in ApplicationTable
    BY <1>0, <2>1, BeginKeeps
  <2>. QED BY <1>1, <2>2 DEF JobTypeInv, JobTypeOK, JobRestTypes
<1>3. ASSUME NEW k \in Companies, NEW page \in Pages, NEW name \in Names,
             CompanyStart(c, k, u, name, page)
      PROVE  \E s \in Request : /\ Take(c, s) /\ Holds(c)'
                                /\ \A d \in Clerks : d # c => Apart(c, d)' /\ Apart(d, c)'
  <2>1. PICK slug \in ResolvedSlugs(name) :
          Take(c, [pc |-> "company.insert", company |-> k, row |-> NewCompany(u, slug, page)])
    BY <1>3 DEF CompanyStart
  <2>. DEFINE s == [pc |-> "company.insert", company |-> k, row |-> NewCompany(u, slug, page)]
  <2>2. slug \in Slugs
    BY <2>1 DEF ResolvedSlugs, Slugs
  <2>3. s \in Request /\ Take(c, s) /\ s.pc = "company.insert" /\ s.company = k
    BY <2>1, <2>2 DEF NewCompany, CompanyRow, Request
  <2>4. s # None /\ request'[c] = s /\ \A d \in Clerks \ {c} : request'[d] = request[d]
    BY <2>3, JobRowAssumption DEF Take, JobTypeInv, JobTypeOK
  <2>5. Holds(c)'
    BY <1>0, <1>3, <2>3, <2>4 DEF Holds, CompanyStart
  <2>6. \A d \in Clerks : d # c => Apart(c, d)' /\ Apart(d, c)'
    BY <1>3, <2>3, <2>4 DEF Apart, Doing, CompanyStart
  <2>. QED BY <2>3, <2>5, <2>6
<1>4. ASSUME NEW j \in Jobs, NEW k \in Companies, NEW advert \in Adverts, JobStart(c, j, k, u, advert)
      PROVE  \E s \in Request : /\ Take(c, s) /\ Holds(c)'
                                /\ \A d \in Clerks : d # c => Apart(c, d)' /\ Apart(d, c)'
  <2>. DEFINE s == [pc |-> "job.insert", job |-> j, row |-> NewJob(k, u, advert)]
  <2>1. /\ s \in Request /\ Take(c, s) /\ s.pc = "job.insert" /\ s.job = j
        /\ s.row.company = k /\ s.row.applicantsCount = 0
    BY <1>4 DEF JobStart, NewJob, JobRow, Request
  <2>2. s # None /\ request'[c] = s /\ \A d \in Clerks \ {c} : request'[d] = request[d]
    BY <2>1, JobRowAssumption DEF Take, JobTypeInv, JobTypeOK
  <2>3. job[j] = None /\ company[k] # None /\ OnJob(j, {"job.insert"}) = {}
    BY <1>4 DEF JobStart
  <2>. HIDE DEF s
  <2>4. Holds(c)'
    BY <1>0, <2>1, <2>2, <2>3 DEF Holds
  <2>5. \A d \in Clerks : d # c => Apart(c, d)' /\ Apart(d, c)'
    BY <2>1, <2>2, <2>3 DEF Apart, Doing, OnJob
  <2>. QED BY <2>1, <2>4, <2>5
<1>5. ASSUME NEW j \in Jobs, NEW changes \in JobChanges, JobFind(c, j, u, changes)
      PROVE  \E s \in Request : /\ Take(c, s) /\ Holds(c)'
                                /\ \A d \in Clerks : d # c => Apart(c, d)' /\ Apart(d, c)'
  <2>. DEFINE s == [pc |-> "job.write", job |-> j, user |-> u, copy |-> job[j],
                    changes |-> changes, fresh |-> TRUE]
  <2>1. Exists(j) /\ CanManage(job[j], u) /\ job[j] \in JobRow
    BY <1>5 DEF JobFind, JobTypeInv, JobTypeOK, JobTable, Exists
  <2>2. /\ s \in Request /\ Take(c, s) /\ s.pc = "job.write" /\ s.job = j /\ s.user = u
        /\ s.copy = job[j]
    BY <1>5, <2>1 DEF JobFind, Request
  <2>3. s # None /\ request'[c] = s
    BY <2>2, JobRowAssumption DEF Take, JobTypeInv, JobTypeOK
  <2>. HIDE DEF s
  <2>4. Holds(c)'
    BY <1>0, <2>1, <2>2, <2>3 DEF Holds, CanManage, Exists
  <2>. QED BY <2>2, <2>3, <2>4, NothingToInsert
<1>6. ASSUME NEW j \in Jobs, ApplyStart(c, j, u)
      PROVE  \E s \in Request : /\ Take(c, s) /\ Holds(c)'
                                /\ \A d \in Clerks : d # c => Apart(c, d)' /\ Apart(d, c)'
  <2>. DEFINE s == [pc |-> "apply.find", job |-> j, user |-> u, fresh |-> TRUE]
  <2>1. s \in Request /\ Take(c, s) /\ s.pc = "apply.find" /\ s.job = j /\ Exists(j) /\ job[j].isActive
    BY <1>6 DEF ApplyStart, Request
  <2>2. s # None /\ request'[c] = s
    BY <2>1, JobRowAssumption DEF Take, JobTypeInv, JobTypeOK
  <2>. HIDE DEF s
  <2>3. Holds(c)'
    BY <1>0, <2>1, <2>2 DEF Holds, Exists
  <2>. QED BY <2>1, <2>2, <2>3, NothingToInsert
<1>7. ASSUME NEW j \in Jobs, NEW a \in People, NEW status \in Verdicts,
             StatusFind(c, j, u, a, status)
      PROVE  \E s \in Request : /\ Take(c, s) /\ Holds(c)'
                                /\ \A d \in Clerks : d # c => Apart(c, d)' /\ Apart(d, c)'
  <2>. DEFINE s == [pc |-> "status.write", job |-> j, user |-> u, applicant |-> a,
                    copy |-> application[j][a], status |-> status]
  <2>1. Exists(j) /\ application[j][a] # None /\ application[j][a] \in ApplicationStatus
    BY <1>7 DEF StatusFind, JobTypeInv, JobTypeOK, ApplicationTable
  <2>2. /\ s \in Request /\ Take(c, s) /\ s.pc = "status.write" /\ s.job = j /\ s.applicant = a
    BY <1>7, <2>1, JobAssumption DEF StatusFind, Request
  <2>3. s # None /\ request'[c] = s
    BY <2>2, JobRowAssumption DEF Take, JobTypeInv, JobTypeOK
  <2>. HIDE DEF s
  <2>4. Holds(c)'
    BY <1>0, <2>1, <2>2, <2>3 DEF Holds, Exists
  <2>. QED BY <2>2, <2>3, <2>4, NothingToInsert
<1>. QED BY <1>3, <1>4, <1>5, <1>6, <1>7

\* A request that is answered keeps the rest, if its step did.
LEMMA AnswerKeeps ==
  ASSUME JobTypeInv, NEW c \in Clerks, Reply(c), TablesGrow, RowsStay(c)
  PROVE  request' \in [Clerks -> Request \cup {None}] /\ RequestsHold' /\ InsertsAlone'
<1>1. request' = [request EXCEPT ![c] = None]
  BY DEF Reply
<1>2. /\ request'[c] = None /\ OthersStay(c)
      /\ DOMAIN request' = Clerks /\ request' = [d \in Clerks |-> request'[d]]
  BY <1>1, OneMoves
<1>3. \A d \in Clerks : d # c => Apart(c, d)' /\ Apart(d, c)'
  BY <1>2 DEF Apart, Doing
<1>. QED BY <1>2, <1>3, RequestsKeep

\* So does one that goes on with what it holds, and inserts nothing more.
LEMMA GoOnKeeps ==
  ASSUME JobTypeInv, NEW c \in Clerks, NEW s \in Request, request' = [request EXCEPT ![c] = s],
         s.pc \notin {"company.insert", "job.insert"}, Holds(c)', TablesGrow, RowsStay(c)
  PROVE  request' \in [Clerks -> Request \cup {None}] /\ RequestsHold' /\ InsertsAlone'
<1>1. /\ request'[c] = s /\ OthersStay(c)
      /\ DOMAIN request' = Clerks /\ request' = [d \in Clerks |-> request'[d]]
  BY OneMoves
<1>2. \A d \in Clerks : d # c => Apart(c, d)' /\ Apart(d, c)'
  BY <1>1, NothingToInsert
<1>. QED BY <1>1, <1>2, RequestsKeep

\* What a request at a statement is.
LEMMA AtStatement ==
  ASSUME JobTypeInv, NEW c \in Clerks, request[c] # None
  PROVE  request[c] \in Request /\ Holds(c)
BY DEF JobTypeInv, JobTypeOK, RequestsHold

\* Rows that no step touches stay.
LEMMA NothingTouched ==
  ASSUME JobTypeInv, NEW c, UNCHANGED <<company, job, application>>
  PROVE  /\ TablesGrow /\ CompaniesThere' /\ company' \in CompanyTable /\ job' \in JobTable
         /\ application' \in ApplicationTable
         /\ (\A d \in Clerks \ {c} : request'[d] = request[d]) => RowsStay(c)
BY DEF TablesGrow, RowsStay, CompaniesThere, Exists, JobTypeInv, JobTypeOK

LEMMA CompanyInsertTypes ==
  ASSUME JobTypeInv, NEW c \in Clerks, CompanyInsert(c)
  PROVE  JobTypeInv'
<1>. DEFINE r == request[c]
<1>1. /\ r \in Request /\ r.pc = "company.insert" /\ r.company \in Companies
      /\ r.row \in CompanyRow /\ company[r.company] = None
  BY AtStatement, RequestFields DEF CompanyInsert, Doing, Holds
<1>2. JobRestTypes /\ UNCHANGED <<job, application>> /\ Reply(c)
  BY RestUnchanged DEF CompanyInsert, Hiring, JobHistories
<1>3. company \in CompanyTable /\ (company' = company \/ company' = [company EXCEPT ![r.company] = r.row])
  BY DEF JobTypeInv, JobTypeOK, CompanyInsert
<1>4. company' \in CompanyTable /\ \A k \in Companies \ {r.company} : company'[k] = company[k]
  BY <1>1, <1>3 DEF CompanyTable
<1>5. TablesGrow
  BY <1>1, <1>2, <1>4 DEF TablesGrow, Exists
<1>6. RowsStay(c)
  <2>1. \A d \in Clerks \ {c} : request[d] # None /\ request[d].pc = "company.insert" =>
          request[d].company \in Companies \ {r.company}
    BY <1>1, AtStatement, RequestFields, JobRowAssumption
       DEF JobTypeInv, InsertsAlone, Apart, Doing
  <2>. QED BY <1>2, <1>4, <2>1 DEF RowsStay
<1>7. CompaniesThere'
  <2>1. \A j \in Jobs : Exists(j) => job[j].company \in Companies /\ company[job[j].company] # None
    BY DEF JobTypeInv, JobTypeOK, JobTable, JobRow, CompaniesThere, Exists
  <2>. QED BY <1>2, <1>5, <2>1 DEF CompaniesThere, TablesGrow, Exists
<1>8. request' \in [Clerks -> Request \cup {None}] /\ RequestsHold' /\ InsertsAlone'
  BY <1>2, <1>5, <1>6, AnswerKeeps
<1>9. job' \in JobTable /\ application' \in ApplicationTable
  BY <1>2 DEF JobTypeInv, JobTypeOK
<1>. QED BY <1>2, <1>4, <1>7, <1>8, <1>9 DEF JobTypeInv, JobTypeOK, JobRestTypes

LEMMA JobInsertTypes ==
  ASSUME JobTypeInv, NEW c \in Clerks, JobInsert(c)
  PROVE  JobTypeInv'
<1>. DEFINE r == request[c]
            s == [r EXCEPT !.pc = "job.publish"]
<1>1. /\ r \in Request /\ r # None /\ r.pc = "job.insert" /\ r.job \in Jobs /\ r.row \in JobRow
      /\ job[r.job] = None /\ company[r.row.company] # None
  BY AtStatement, RequestFields DEF JobInsert, Doing, Holds
<1>2. JobRestTypes /\ UNCHANGED <<company, application>>
  BY RestUnchanged DEF JobInsert, Hiring, JobHistories
<1>3. job' \in JobTable /\ job'[r.job] = r.row /\ \A j \in Jobs \ {r.job} : job'[j] = job[j]
  BY <1>1 DEF JobInsert, JobTypeInv, JobTypeOK, JobTable
<1>4. s \in Request /\ s.pc = "job.publish" /\ s.job = r.job /\ request' = [request EXCEPT ![c] = s]
  BY <1>1, InsertGoesOn DEF JobInsert, MoveTo, JobTypeInv, JobTypeOK
<1>. HIDE DEF s
<1>5. TablesGrow
  BY <1>1, <1>2, <1>3 DEF TablesGrow, Exists
<1>6. request'[c] = s /\ \A d \in Clerks \ {c} : request'[d] = request[d]
  BY <1>4, OneMoves
<1>7. RowsStay(c)
  <2>1. \A d \in Clerks \ {c} : request[d] # None /\ request[d].pc = "job.insert" =>
          request[d].job \in Jobs \ {r.job}
    BY <1>1, AtStatement, RequestFields DEF JobTypeInv, InsertsAlone, Apart, Doing
  <2>2. \A d \in Clerks \ {c} : request[d] # None /\ request[d].pc \in Reading =>
          request[d].job \in Jobs \ {r.job}
    BY <1>1, AtStatement, RequestFields DEF Holds, Reading, Applying, Exists
  <2>. QED BY <1>2, <1>3, <2>1, <2>2 DEF RowsStay
<1>8. Holds(c)'
  BY <1>1, <1>3, <1>4, <1>6, JobRowAssumption DEF Holds, Exists
<1>9. request' \in [Clerks -> Request \cup {None}] /\ RequestsHold' /\ InsertsAlone'
  BY <1>4, <1>5, <1>7, <1>8, GoOnKeeps
<1>10. CompaniesThere'
  BY <1>1, <1>2, <1>3 DEF CompaniesThere, JobTypeInv, Exists
<1>11. company' \in CompanyTable /\ application' \in ApplicationTable
  BY <1>2 DEF JobTypeInv, JobTypeOK
<1>. QED BY <1>2, <1>3, <1>9, <1>10, <1>11 DEF JobTypeInv, JobTypeOK, JobRestTypes

LEMMA JobPublishTypes ==
  ASSUME JobTypeInv, NEW c \in Clerks, JobPublish(c)
  PROVE  JobTypeInv'
<1>. DEFINE r == request[c]
<1>1. r \in Request /\ r.pc = "job.publish" /\ r.job \in Ids /\ r.row.advert \in Docs
  BY AtStatement, RequestFields, JobAssumption DEF JobPublish, Doing, JobRow
<1>2. /\ SearchTypeOK' /\ Reply(c)
      /\ UNCHANGED <<company, job, application, saved, told, uncounted, untold, reworded>>
  BY <1>1, SendTypes DEF JobPublish, Hiring, JobHistories, JobTypeInv, JobTypeOK
<1>3. \A d \in Clerks \ {c} : request'[d] = request[d]
  BY <1>2 DEF Reply, JobTypeInv, JobTypeOK
<1>4. request' \in [Clerks -> Request \cup {None}] /\ RequestsHold' /\ InsertsAlone'
  BY <1>2, <1>3, NothingTouched, AnswerKeeps
<1>. QED BY <1>2, <1>4, NothingTouched DEF JobTypeInv, JobTypeOK

\* The types of a posting that changes in the columns a body names.
LEMMA ChangedTypes ==
  ASSUME NEW row \in JobRow, NEW changes \in JobChanges
  PROVE  /\ Changed(row, changes) \in JobRow
         /\ Changed(row, changes).company = row.company
         /\ Changed(row, changes).poster = row.poster
         /\ Changed(row, changes).applicantsCount = row.applicantsCount
         /\ Changed(row, changes).advert = IF changes.advert = None THEN row.advert
                                           ELSE changes.advert
         /\ Changed(row, changes).isActive = IF changes.isActive = None THEN row.isActive
                                             ELSE changes.isActive
<1>. DEFINE advert == IF changes.advert = None THEN row.advert ELSE changes.advert
            isActive == IF changes.isActive = None THEN row.isActive ELSE changes.isActive
<1>1. advert \in Adverts /\ isActive \in BOOLEAN
  BY DEF JobChanges, JobRow
<1>2. Changed(row, changes) = [row EXCEPT !.advert = advert, !.isActive = isActive]
  BY DEF Changed, JobRow
<1>. HIDE DEF advert, isActive
<1>3. /\ Changed(row, changes) \in JobRow
      /\ Changed(row, changes).company = row.company /\ Changed(row, changes).poster = row.poster
      /\ Changed(row, changes).applicantsCount = row.applicantsCount
      /\ Changed(row, changes).advert = advert /\ Changed(row, changes).isActive = isActive
  BY <1>1, <1>2 DEF JobRow
<1>. QED BY <1>3 DEF advert, isActive

LEMMA DifferingTypes ==
  ASSUME NEW copy \in JobRow, NEW changes \in JobChanges
  PROVE  /\ Differing(copy, changes) \in JobChanges
         /\ Differing(copy, changes).advert \in {changes.advert, None}
         /\ Differing(copy, changes).isActive \in {changes.isActive, None}
         /\ Differing(copy, changes).advert = IF changes.advert = copy.advert THEN None
                                              ELSE changes.advert
         /\ Differing(copy, changes).isActive = IF changes.isActive = copy.isActive THEN None
                                                ELSE changes.isActive
BY DEF Differing, JobChanges

\* What an update does, of the posting and of the requests that have read it.
LEMMA WriteEffect ==
  ASSUME JobTypeInv, NEW c \in Clerks, JobWrite(c)
  PROVE  LET r == request[c]
         IN  /\ r \in Request /\ r.pc = "job.write" /\ r.job \in Jobs /\ Exists(r.job) /\ Holds(c)
             /\ r.copy \in JobRow /\ r.changes \in JobChanges /\ r.user \in People
             /\ job \in JobTable /\ job[r.job] \in JobRow
             /\ job' \in JobTable /\ \A j \in Jobs \ {r.job} : job'[j] = job[j]
             /\ job'[r.job] = Changed(job[r.job], Differing(r.copy, r.changes))
             /\ request'[c] = None /\ OthersStay(c) /\ RowsStay(c)
             /\ DOMAIN request' = Clerks /\ request' = [d \in Clerks |-> request'[d]]
<1>. DEFINE r == request[c]
            new == Changed(job[r.job], Differing(r.copy, r.changes))
<1>1. /\ r \in Request /\ r.pc = "job.write" /\ r.job \in Jobs /\ Exists(r.job) /\ Holds(c)
      /\ r.copy \in JobRow /\ r.changes \in JobChanges /\ r.user \in People
  BY AtStatement, RequestFields DEF JobWrite, Doing, Holds
<1>2. job \in JobTable /\ job[r.job] \in JobRow
  BY <1>1 DEF JobTypeInv, JobTypeOK, JobTable, Exists
<1>3. new \in JobRow
  BY <1>1, <1>2, ChangedTypes, DifferingTypes
<1>4. job' = [job EXCEPT ![r.job] = new] /\ Outdate(c, Readers(c, r.job))
      /\ UNCHANGED <<company, application>>
  BY DEF JobWrite, Hiring
<1>. HIDE DEF new
<1>5. job' \in JobTable /\ job'[r.job] = new /\ \A j \in Jobs \ {r.job} : job'[j] = job[j]
  BY <1>1, <1>2, <1>3, <1>4 DEF JobTable
<1>6. /\ request'[c] = None /\ DOMAIN request' = Clerks
      /\ request' = [d \in Clerks |-> request'[d]]
      /\ \A d \in Clerks \ {c} :
           request'[d] = IF d \in Readers(c, r.job) THEN [request[d] EXCEPT !.fresh = FALSE]
                         ELSE request[d]
  BY <1>4 DEF Outdate
<1>7. \A d \in Readers(c, r.job) : d \in Clerks \ {c} /\ request[d] # None /\ request[d].pc \in Reading
  BY DEF Readers, OnJob, Reading
<1>8. OthersStay(c)
  BY <1>6, <1>7 DEF OthersStay
<1>9. RowsStay(c)
  <2>. SUFFICES ASSUME NEW d \in Clerks \ {c}, request[d] # None
                PROVE  /\ request[d].pc = "job.insert" => job'[request[d].job] = job[request[d].job]
                       /\ request[d].pc \in Reading /\ request'[d].fresh =>
                            job'[request[d].job] = job[request[d].job]
    BY <1>4 DEF RowsStay
  <2>1. request[d] \in Request /\ Holds(d)
    BY AtStatement
  <2>2. request[d].pc = "job.insert" => request[d].job \in Jobs \ {r.job}
    BY <1>1, <2>1, RequestFields DEF Holds, Exists
  <2>3. ASSUME request[d].pc \in Reading, request[d].job = r.job, job'[r.job] # job[r.job]
        PROVE  request'[d].fresh = FALSE
    <3>1. d \in Readers(c, r.job)
      BY <2>3 DEF Readers, OnJob, Reading
    <3>2. request'[d] = [request[d] EXCEPT !.fresh = FALSE]
      BY <1>6, <3>1
    <3>. QED BY <2>1, <2>3, <3>2, Outdated
  <2>4. request[d].pc \in Reading => request[d].job \in Jobs
    BY <2>1, RequestFields DEF Reading, Applying
  <2>. QED BY <1>5, <2>2, <2>3, <2>4
<1>. QED BY <1>1, <1>2, <1>4, <1>5, <1>6, <1>8, <1>9 DEF new

LEMMA JobWriteTypes ==
  ASSUME JobTypeInv, NEW c \in Clerks, JobWrite(c)
  PROVE  JobTypeInv'
<1>. DEFINE r == request[c]
<1>1. /\ r.job \in Jobs /\ Exists(r.job) /\ r.copy \in JobRow /\ r.changes \in JobChanges
      /\ job[r.job] \in JobRow /\ job \in JobTable
      /\ job' \in JobTable /\ \A j \in Jobs \ {r.job} : job'[j] = job[j]
      /\ job'[r.job] = Changed(job[r.job], Differing(r.copy, r.changes))
      /\ request'[c] = None /\ OthersStay(c) /\ RowsStay(c)
      /\ DOMAIN request' = Clerks /\ request' = [d \in Clerks |-> request'[d]]
  BY WriteEffect
<1>2. job'[r.job] \in JobRow /\ job'[r.job].company = job[r.job].company
      /\ job'[r.job].poster = job[r.job].poster
  <2>1. Differing(r.copy, r.changes) \in JobChanges
    BY <1>1, DifferingTypes
  <2>. QED BY <1>1, <2>1, ChangedTypes
<1>3. UNCHANGED <<searchVars, company, application, saved, told, uncounted, untold>>
      /\ reworded' \subseteq Jobs
  BY <1>1 DEF JobWrite, Hiring, JobTypeInv, JobTypeOK
<1>4. TablesGrow
  BY <1>1, <1>2, <1>3, JobRowAssumption DEF TablesGrow, Exists
<1>5. \A d \in Clerks : d # c => Apart(c, d)' /\ Apart(d, c)'
  BY <1>1 DEF Apart, Doing
<1>6. request' \in [Clerks -> Request \cup {None}] /\ RequestsHold' /\ InsertsAlone'
  BY <1>1, <1>4, <1>5, RequestsKeep
<1>7. CompaniesThere'
  <2>1. \A j \in Jobs : Exists(j)' => Exists(j) /\ job'[j].company = job[j].company
    BY <1>1, <1>2 DEF Exists
  <2>. QED BY <1>3, <2>1 DEF JobTypeInv, CompaniesThere, Exists
<1>8. company' \in CompanyTable /\ application' \in ApplicationTable /\ JobRestTypes
  BY <1>3 DEF JobTypeInv, JobTypeOK, SearchTypeOK, searchVars, JobRestTypes
<1>. QED BY <1>1, <1>6, <1>7, <1>8 DEF JobTypeInv, JobTypeOK, JobRestTypes

\* An application that goes on, by one step of its own.
LEMMA ApplyMove ==
  ASSUME JobTypeInv, NEW c \in Clerks, request[c] # None, request[c].pc \in Applying,
         NEW pc \in Applying, MoveTo(c, pc)
  PROVE  LET s == request'[c]
         IN  /\ s \in Request /\ s.pc = pc /\ s.job = request[c].job /\ s.user = request[c].user
             /\ s.fresh = request[c].fresh /\ request' = [request EXCEPT ![c] = s]
             /\ \A d \in Clerks \ {c} : request'[d] = request[d]
<1>. DEFINE t == [request[c] EXCEPT !.pc = pc]
<1>1. request' = [request EXCEPT ![c] = t]
  BY DEF MoveTo, JobTypeInv, JobTypeOK
<1>2. request'[c] = t /\ \A d \in Clerks \ {c} : request'[d] = request[d]
  BY <1>1, OneMoves
<1>3. /\ t \in Request /\ t.pc = pc /\ t.job = request[c].job /\ t.user = request[c].user
      /\ t.fresh = request[c].fresh
  BY AtStatement, ApplyGoesOn
<1>. QED BY <1>1, <1>2, <1>3

LEMMA ApplyTypes ==
  ASSUME JobTypeInv, NEW c \in Clerks, ApplyFind(c) \/ ApplyInsert(c)
  PROVE  JobTypeInv'
<1>. DEFINE r == request[c]
<1>1. /\ r \in Request /\ r # None /\ r.pc \in {"apply.find", "apply.insert"} /\ r.job \in Jobs
      /\ r.user \in People /\ Exists(r.job) /\ r.pc \in Applying
  BY AtStatement, RequestFields DEF ApplyFind, ApplyInsert, Doing, Holds, Applying
<1>2. JobRestTypes /\ UNCHANGED <<company, job>>
  BY RestUnchanged DEF ApplyFind, ApplyInsert, Hiring, JobHistories
<1>. DEFINE status == NewApplication
<1>0. /\ application \in ApplicationTable /\ status \in ApplicationStatus
      /\ application' = application \/ application' = [application EXCEPT ![r.job][r.user] = status]
  BY DEF ApplyFind, ApplyInsert, Hiring, NewApplication, ApplicationStatus, JobTypeInv, JobTypeOK
<1>. HIDE DEF status
<1>3. /\ application' \in ApplicationTable
      /\ \A j \in Jobs, u \in People : application[j][u] # None => application'[j][u] # None
  BY <1>0, <1>1, JobRowAssumption DEF ApplicationTable
<1>4. TablesGrow
  BY <1>2, <1>3 DEF TablesGrow, Exists
<1>5. CASE Reply(c)
  <2>1. RowsStay(c)
    BY <1>2, <1>5 DEF Reply, RowsStay, JobTypeInv, JobTypeOK
  <2>2. request' \in [Clerks -> Request \cup {None}] /\ RequestsHold' /\ InsertsAlone'
    BY <1>4, <1>5, <2>1, AnswerKeeps
  <2>. QED BY <1>2, <1>3, <2>2 DEF JobTypeInv, JobTypeOK, JobRestTypes, CompaniesThere, Exists
<1>6. CASE MoveTo(c, "apply.insert") \/ MoveTo(c, "apply.count")
  <2>1. PICK pc \in {"apply.insert", "apply.count"} : MoveTo(c, pc)
    BY <1>6
  <2>. DEFINE s == request'[c]
  <2>2. pc \in Applying
    BY DEF Applying
  <2>3. /\ s \in Request /\ s.pc = pc /\ s.job = r.job /\ s.fresh = r.fresh
        /\ request' = [request EXCEPT ![c] = s] /\ \A d \in Clerks \ {c} : request'[d] = request[d]
    BY <1>1, <2>1, <2>2, ApplyMove
  <2>4. Holds(c)'
    BY <1>1, <1>2, <2>3, AtStatement DEF Holds, Exists
  <2>5. RowsStay(c)
    BY <1>2, <2>3 DEF RowsStay
  <2>6. request' \in [Clerks -> Request \cup {None}] /\ RequestsHold' /\ InsertsAlone'
    BY <1>4, <2>3, <2>4, <2>5, GoOnKeeps
  <2>. QED BY <1>2, <1>3, <2>6 DEF JobTypeInv, JobTypeOK, JobRestTypes, CompaniesThere, Exists
<1>. QED BY <1>5, <1>6 DEF ApplyFind, ApplyInsert

LEMMA ApplyCountTypes ==
  ASSUME JobTypeInv, NEW c \in Clerks, ApplyCount(c)
  PROVE  JobTypeInv'
<1>. DEFINE r == request[c]
            s == request'[c]
<1>1. /\ r \in Request /\ r # None /\ r.pc = "apply.count" /\ r.job \in Jobs /\ Exists(r.job)
      /\ r.pc \in Applying
  BY AtStatement, RequestFields DEF ApplyCount, Doing, Holds, Applying
<1>2. JobRestTypes /\ UNCHANGED <<company, application>>
  BY RestUnchanged DEF ApplyCount, Hiring, JobHistories
<1>3. /\ s \in Request /\ s.pc = "apply.publish" /\ s.job = r.job
      /\ request' = [request EXCEPT ![c] = s] /\ \A d \in Clerks \ {c} : request'[d] = request[d]
  BY <1>1, ApplyMove DEF ApplyCount, Applying
<1>4. job \in JobTable /\ job[r.job] \in JobRow
  BY <1>1 DEF JobTypeInv, JobTypeOK, JobTable, Exists
<1>5. /\ \A j \in Jobs \ {r.job} : job'[j] = job[j]
      /\ job'[r.job] = [job[r.job] EXCEPT !.applicantsCount = @ + 1]
  BY <1>1, <1>4 DEF ApplyCount, JobTable
<1>6. /\ job'[r.job] \in JobRow /\ job'[r.job].company = job[r.job].company
      /\ job'[r.job].poster = job[r.job].poster /\ job'[r.job].advert = job[r.job].advert
      /\ job'[r.job].isActive = job[r.job].isActive
  BY <1>4, <1>5 DEF JobRow
<1>7. job' \in JobTable
  BY <1>4, <1>5, <1>6 DEF ApplyCount, JobTable
<1>8. TablesGrow
  BY <1>2, <1>5, <1>6, JobRowAssumption DEF TablesGrow, Exists
<1>9. RowsStay(c)
  <2>1. \A d \in Clerks \ {c} : request[d] # None /\ request[d].pc = "job.insert" =>
          request[d].job \in Jobs \ {r.job}
    BY <1>1, AtStatement, RequestFields DEF Holds, Exists
  <2>2. \A d \in Clerks \ {c} : request[d] # None /\ request[d].pc \in Reading =>
          request[d].job \in Jobs
    BY <1>1, AtStatement, RequestFields DEF Reading, Applying
  <2>. QED BY <1>2, <1>5, <1>6, <2>1, <2>2 DEF RowsStay
<1>10. Holds(c)'
  BY <1>1, <1>3, <1>6, JobRowAssumption DEF Holds, Exists
<1>11. request' \in [Clerks -> Request \cup {None}] /\ RequestsHold' /\ InsertsAlone'
  BY <1>3, <1>8, <1>9, <1>10, GoOnKeeps
<1>12. CompaniesThere'
  <2>1. \A j \in Jobs : Exists(j)' => Exists(j) /\ job'[j].company = job[j].company
    BY <1>1, <1>5, <1>6 DEF Exists
  <2>. QED BY <1>2, <2>1 DEF JobTypeInv, CompaniesThere, Exists
<1>13. company' \in CompanyTable /\ application' \in ApplicationTable
  BY <1>2 DEF JobTypeInv, JobTypeOK
<1>. QED BY <1>2, <1>7, <1>11, <1>12, <1>13 DEF JobTypeInv, JobTypeOK, JobRestTypes

LEMMA StatusWriteTypes ==
  ASSUME JobTypeInv, NEW c \in Clerks, StatusWrite(c)
  PROVE  JobTypeInv'
<1>. DEFINE r == request[c]
<1>1. /\ r \in Request /\ r.job \in Jobs /\ r.applicant \in People /\ r.status \in ApplicationStatus
  BY AtStatement, RequestFields DEF StatusWrite, Doing
<1>2. JobRestTypes /\ UNCHANGED <<company, job>> /\ Reply(c)
  BY RestUnchanged DEF StatusWrite, JobHistories
<1>3. application \in ApplicationTable /\
      (application' = application \/ application' = [application EXCEPT ![r.job][r.applicant] = r.status])
  BY DEF StatusWrite, JobTypeInv, JobTypeOK
<1>4. /\ application' \in ApplicationTable
      /\ \A j \in Jobs, u \in People : application[j][u] # None => application'[j][u] # None
  BY <1>1, <1>3, JobRowAssumption DEF ApplicationTable
<1>5. TablesGrow
  BY <1>2, <1>4 DEF TablesGrow, Exists
<1>6. RowsStay(c)
  BY <1>2 DEF Reply, RowsStay, JobTypeInv, JobTypeOK
<1>7. request' \in [Clerks -> Request \cup {None}] /\ RequestsHold' /\ InsertsAlone'
  BY <1>2, <1>5, <1>6, AnswerKeeps
<1>. QED BY <1>2, <1>4, <1>7 DEF JobTypeInv, JobTypeOK, JobRestTypes, CompaniesThere, Exists

LEMMA AnsweredTypes ==
  ASSUME JobTypeInv, NEW c \in Clerks, ApplyPublish(c) \/ JobFail(c)
  PROVE  JobTypeInv'
<1>. DEFINE r == request[c]
<1>1. r \in Request /\ r.pc \notin {"company.insert", "job.insert"} =>
        r.job \in Jobs /\ (r.pc \in Applying => r.user \in People)
  BY RequestFields
<1>2. UNCHANGED <<searchVars, company, job, application, saved, reworded>> /\ Reply(c) /\ r \in Request
  BY AtStatement DEF ApplyPublish, JobFail, Hiring, JobHistories, Doing
<1>3. /\ told' \in [Jobs -> SUBSET People] /\ uncounted' \in [Jobs -> Nat] /\ untold' \subseteq Jobs
  <2>1. CASE ApplyPublish(c)
    BY <1>1, <1>2, <2>1
       DEF ApplyPublish, Announce, Doing, Applying, JobHistories, JobTypeInv, JobTypeOK
  <2>2. CASE JobFail(c)
    BY <1>1, <1>2, <2>2 DEF JobFail, Hiring, JobTypeInv, JobTypeOK
  <2>. QED BY <2>1, <2>2
<1>4. \A d \in Clerks \ {c} : request'[d] = request[d]
  BY <1>2 DEF Reply, JobTypeInv, JobTypeOK
<1>5. request' \in [Clerks -> Request \cup {None}] /\ RequestsHold' /\ InsertsAlone'
  BY <1>2, <1>4, NothingTouched, AnswerKeeps
<1>6. SearchTypeOK' /\ saved' \in SavedTable /\ reworded' \subseteq Jobs
  BY <1>2 DEF JobTypeInv, JobTypeOK, SearchTypeOK, searchVars
<1>. QED BY <1>2, <1>3, <1>5, <1>6, NothingTouched DEF JobTypeInv, JobTypeOK

\* Steps that are no part of a request's course.
LEMMA AsideTypes ==
  ASSUME JobTypeInv,
         \/ UNCHANGED <<searchVars, jobVars>>
         \/ Consume /\ UNCHANGED jobVars
         \/ \E j \in Jobs, u \in People : Save(j, u) \/ Unsave(j, u)
         \/ \E k \in Companies, u \in People, page \in Pages : CompanyUpdate(k, u, page)
  PROVE  JobTypeInv'
<1>1. CASE UNCHANGED <<job, application, told, request, uncounted, untold, reworded>> /\ SearchTypeOK'
           /\ saved' \in SavedTable /\ company' \in CompanyTable
           /\ \A k \in Companies : company'[k] = company[k] \/ (company[k] # None /\ company'[k] # None
                                    /\ company'[k].adminIds = company[k].adminIds)
  <2>1. RequestsHold'
    <3>. SUFFICES ASSUME NEW c \in Clerks, request[c] # None PROVE Holds(c)'
      BY <1>1 DEF RequestsHold
    <3>1. request[c] \in Request /\ Holds(c)
      BY AtStatement
    <3>2. request[c].pc = "company.insert" => company'[request[c].company] = None
      BY <1>1, <3>1, RequestFields DEF Holds
    <3>3. request[c].pc = "job.insert" => company'[request[c].row.company] # None
      BY <1>1, <3>1, RequestFields DEF Holds, JobRow
    <3>4. request[c].pc = "job.write" => CanManage(job[request[c].job], request[c].user)'
      <4>. SUFFICES ASSUME request[c].pc = "job.write"
                    PROVE  CanManage(job[request[c].job], request[c].user)'
        OBVIOUS
      <4>1. request[c].job \in Jobs /\ Exists(request[c].job) /\ CanManage(job[request[c].job], request[c].user)
        BY <3>1, RequestFields DEF Holds
      <4>2. job[request[c].job].company \in Companies /\ company[job[request[c].job].company] # None
        BY <4>1 DEF JobTypeInv, JobTypeOK, JobTable, JobRow, CompaniesThere, Exists
      <4>. QED BY <1>1, <4>1, <4>2 DEF CanManage
    <3>. QED BY <1>1, <3>1, <3>2, <3>3, <3>4 DEF Holds, Exists
  <2>2. CompaniesThere'
    BY <1>1 DEF JobTypeInv, JobTypeOK, JobTable, JobRow, CompaniesThere, Exists
  <2>3. InsertsAlone'
    BY <1>1 DEF JobTypeInv, InsertsAlone, Apart, Doing
  <2>. QED BY <1>1, <2>1, <2>2, <2>3 DEF JobTypeInv, JobTypeOK
<1>2. CASE UNCHANGED <<searchVars, jobVars>> \/ (Consume /\ UNCHANGED jobVars)
  <2>1. SearchTypeOK'
    BY <1>2, ConsumeTypes DEF JobTypeInv, JobTypeOK, SearchTypeOK, searchVars
  <2>. QED BY <1>1, <1>2, <2>1 DEF JobTypeInv, JobTypeOK, jobVars
<1>3. CASE \E j \in Jobs, u \in People : Save(j, u) \/ Unsave(j, u)
  BY <1>1, <1>3 DEF Save, Unsave, JobHistories, JobTypeInv, JobTypeOK, SearchTypeOK, searchVars, SavedTable
<1>4. CASE \E k \in Companies, u \in People, page \in Pages : CompanyUpdate(k, u, page)
  <2>1. PICK k \in Companies, u \in People, page \in Pages : CompanyUpdate(k, u, page)
    BY <1>4
  <2>2. company \in CompanyTable /\ company[k] \in CompanyRow
    BY <2>1 DEF JobTypeInv, JobTypeOK, CompanyTable, CompanyUpdate
  <2>3. company' = [company EXCEPT ![k] = [company[k] EXCEPT !.page = page]]
    BY <2>1, <2>2 DEF CompanyUpdate, CompanyTable
  <2>4. LET new == [company[k] EXCEPT !.page = page]
        IN  new \in CompanyRow /\ new.adminIds = company[k].adminIds
    BY <2>2 DEF CompanyRow
  <2>5. /\ company' \in CompanyTable /\ company'[k] # None /\ company[k] # None
        /\ company'[k].adminIds = company[k].adminIds
        /\ \A l \in Companies \ {k} : company'[l] = company[l]
    BY <2>2, <2>3, <2>4, JobRowAssumption DEF CompanyTable
  <2>6. /\ UNCHANGED <<job, application, told, request, uncounted, untold, reworded>> /\ SearchTypeOK'
        /\ saved' \in SavedTable
    BY <2>1 DEF CompanyUpdate, Hiring, JobHistories, JobTypeInv, JobTypeOK, SearchTypeOK, searchVars
  <2>. QED BY <1>1, <2>5, <2>6
<1>. QED BY <1>2, <1>3, <1>4

\* So every step keeps the types, and what the requests hold.
LEMMA JobTypesInductive ==
  JobTypeInv /\ [JobNext]_<<searchVars, jobVars>> => JobTypeInv'
<1>. SUFFICES ASSUME JobTypeInv, [JobNext]_<<searchVars, jobVars>>
              PROVE  JobTypeInv'
  OBVIOUS
<1>1. CASE UNCHANGED <<searchVars, jobVars>>
  BY <1>1, AsideTypes
<1>2. CASE Consume /\ UNCHANGED jobVars
  BY <1>2, AsideTypes
<1>3. ASSUME NEW c \in Clerks, CompanyRoutes(c)
      PROVE  JobTypeInv'
  BY <1>3, JobBeginTypes, AsideTypes DEF CompanyRoutes
<1>4. ASSUME NEW c \in Clerks, JobRoutes(c) \/ ApplicationRoutes(c)
      PROVE  JobTypeInv'
  <2>1. Close \in JobChanges /\ Bodies \subseteq JobChanges
    BY JobAssumption DEF Close, JobChanges
  <2>. QED BY <1>4, <2>1, JobBeginTypes, AsideTypes DEF JobRoutes, ApplicationRoutes
<1>5. ASSUME NEW c \in Clerks, JobProceed(c)
      PROVE  JobTypeInv'
  BY <1>5, CompanyInsertTypes, JobInsertTypes, JobPublishTypes, JobWriteTypes, ApplyTypes,
     ApplyCountTypes, StatusWriteTypes, AnsweredTypes DEF JobProceed
<1>. QED BY <1>1, <1>2, <1>3, <1>4, <1>5 DEF JobNext

LEMMA JobStartsTyped ==
  SearchInit /\ JobInit => JobTypeInv
BY SearchAssumption
   DEF SearchInit, JobInit, JobTypeInv, JobTypeOK, SearchTypeOK, CompanyTable, JobTable,
       ApplicationTable, SavedTable, RequestsHold, InsertsAlone, Apart, Doing,
       CompaniesThere, Exists

\* Companies, postings, applications, requests and what is remembered of them have
\* their types; rows that requests are to insert are free, and what a request found
\* or was allowed still is when its statement comes.
THEOREM JobTypeCorrect == JobSpec => [](JobTypeOK /\ RequestsHold /\ InsertsAlone)
<1>1. JobTypeInv => JobTypeOK /\ RequestsHold /\ InsertsAlone
  BY DEF JobTypeInv
<1>. QED BY <1>1, JobStartsTyped, JobTypesInductive, PTL DEF JobSpec
-----------------------------------------------------------------------------
(* JobService: postings change as asked *)

\* An update writes what was asked: of the columns it names, those that differ
\* from what it has read; and all of them, if that is still so.
LEMMA WriteAsAsked ==
  ASSUME JobTypeInv, NEW c \in Clerks, JobWrite(c)
  PROVE  LET r == request[c]
             j == r.job
         IN  /\ c \in OnJob(j, {"job.write"}) /\ CanManage(job[j], r.user)
             /\ job'[j].company = job[j].company /\ job'[j].poster = job[j].poster
             /\ job'[j].isActive \in {job[j].isActive, r.changes.isActive}
             /\ job'[j].advert \in {job[j].advert, r.changes.advert}
             /\ r.fresh => job'[j] = Changed(job[j], r.changes)
<1>. DEFINE r == request[c]
            j == r.job
            diff == Differing(r.copy, r.changes)
<1>1. /\ r.pc = "job.write" /\ j \in Jobs /\ Holds(c) /\ r # None
      /\ r.copy \in JobRow /\ r.changes \in JobChanges /\ job[j] \in JobRow
      /\ job'[j] = Changed(job[j], diff)
  BY WriteEffect DEF JobWrite, Doing
<1>2. diff \in JobChanges
      /\ diff.advert = (IF r.changes.advert = r.copy.advert THEN None ELSE r.changes.advert)
      /\ diff.isActive = (IF r.changes.isActive = r.copy.isActive THEN None ELSE r.changes.isActive)
  BY <1>1, DifferingTypes
<1>. HIDE DEF diff
<1>3. /\ job'[j].company = job[j].company /\ job'[j].poster = job[j].poster
      /\ job'[j].advert = IF diff.advert = None THEN job[j].advert ELSE diff.advert
      /\ job'[j].isActive = IF diff.isActive = None THEN job[j].isActive ELSE diff.isActive
  BY <1>1, <1>2, ChangedTypes
<1>4. r.fresh => job'[j] = Changed(job[j], r.changes)
  <2>. SUFFICES ASSUME r.fresh PROVE Changed(job[j], diff) = Changed(job[j], r.changes)
    BY <1>1
  <2>1. r.copy.advert = job[j].advert /\ r.copy.isActive = job[j].isActive
    BY <1>1 DEF Holds
  <2>. DEFINE advert(changes) == IF changes.advert = None THEN job[j].advert ELSE changes.advert
              isActive(changes) == IF changes.isActive = None THEN job[j].isActive
                                   ELSE changes.isActive
  <2>2. advert(diff) = advert(r.changes)
    BY <1>2, <2>1
  <2>3. isActive(diff) = isActive(r.changes)
    BY <1>2, <2>1
  <2>4. ASSUME NEW changes \in JobChanges
        PROVE  Changed(job[j], changes) = [job[j] EXCEPT !.advert = advert(changes),
                                                         !.isActive = isActive(changes)]
    BY <1>1, <2>4 DEF Changed, JobRow
  <2>. HIDE DEF advert, isActive
  <2>. QED BY <1>1, <1>2, <2>2, <2>3, <2>4
<1>5. c \in OnJob(j, {"job.write"}) /\ CanManage(job[j], r.user)
  BY <1>1 DEF OnJob, Holds
<1>. QED BY <1>2, <1>3, <1>4, <1>5

\* A posting changes only by a request of someone who may manage it, in columns that
\* request named, as it asked if it met no other change; and a closed posting gets an
\* application only from a request that had found it open.
THEOREM JobsAreAsked == JobSpec => JobsChangeAsAsked
<1>. DEFINE Asked(j) ==
       /\ job'[j].company = job[j].company /\ job'[j].poster = job[j].poster
       /\ \/ job'[j].isActive = job[j].isActive /\ job'[j].advert = job[j].advert
          \/ \E c \in OnJob(j, {"job.write"}) :
               /\ CanManage(job[j], request[c].user)
               /\ job'[j].isActive \in {job[j].isActive, request[c].changes.isActive}
               /\ job'[j].advert \in {job[j].advert, request[c].changes.advert}
               /\ request[c].fresh => job'[j] = Changed(job[j], request[c].changes)
       /\ \A u \in People : (application[j][u] = None /\ application'[j][u] # None) =>
            \E c \in OnJob(j, {"apply.insert"}) :
              request[c].user = u /\ (job[j].isActive \/ ~request[c].fresh)
<1>1. JobTypeInv /\ [JobNext]_<<searchVars, jobVars>>
        => [\A j \in Jobs : Exists(j) => Asked(j)]_<<searchVars, jobVars>>
  <2>. SUFFICES ASSUME JobTypeInv, JobNext, NEW j \in Jobs, Exists(j)
                PROVE  Asked(j)
    OBVIOUS
  <2>1. CASE UNCHANGED <<job, application>>
    BY <2>1
  <2>2. ASSUME NEW c \in Clerks, JobInsert(c)
        PROVE  Asked(j)
    <3>1. application' = application /\ job[request[c].job] = None
      BY <2>2, AtStatement DEF JobInsert, Hiring, Doing, Holds
    <3>2. job'[j] = job[j]
      BY <2>2, <3>1 DEF JobInsert, JobTypeInv, JobTypeOK, JobTable, Exists
    <3>. QED BY <3>1, <3>2
  <2>3. ASSUME NEW c \in Clerks, JobWrite(c)
        PROVE  Asked(j)
    <3>1. application' = application
      BY <2>3 DEF JobWrite, Hiring
    <3>2. CASE j # request[c].job
      <4>1. job'[j] = job[j]
        BY <2>3, <3>2, WriteEffect
      <4>. QED BY <3>1, <4>1
    <3>3. CASE j = request[c].job
      BY <2>3, <3>1, <3>3, WriteAsAsked
    <3>. QED BY <3>2, <3>3
  <2>4. ASSUME NEW c \in Clerks, ApplyInsert(c)
        PROVE  Asked(j)
    <3>1. /\ job' = job /\ request[c] \in Request /\ request[c] # None
          /\ request[c].pc = "apply.insert" /\ Holds(c) /\ request[c].job \in Jobs
          /\ request[c].user \in People
      BY <2>4, AtStatement, RequestFields DEF ApplyInsert, Doing, Applying
    <3>2. ASSUME NEW u \in People, application[j][u] = None, application'[j][u] # None
          PROVE  j = request[c].job /\ u = request[c].user
      BY <2>4, <3>1, <3>2 DEF ApplyInsert, JobTypeInv, JobTypeOK, ApplicationTable
    <3>3. request[c].fresh => job[request[c].job].isActive
      BY <3>1 DEF Holds
    <3>4. c \in OnJob(request[c].job, {"apply.insert"})
      BY <3>1 DEF OnJob
    <3>. QED BY <3>1, <3>2, <3>3, <3>4
  <2>5. ASSUME NEW c \in Clerks, StatusWrite(c)
        PROVE  Asked(j)
    <3>1. /\ job' = job /\ request[c].job \in Jobs /\ request[c].applicant \in People
          /\ application[request[c].job][request[c].applicant] # None
      BY <2>5, AtStatement, RequestFields DEF StatusWrite, Doing, Holds
    <3>2. \A u \in People : application[j][u] = None => application'[j][u] = None
      BY <2>5, <3>1 DEF StatusWrite, JobTypeInv, JobTypeOK, ApplicationTable
    <3>. QED BY <3>1, <3>2
  <2>6. ASSUME NEW c \in Clerks, ApplyCount(c)
        PROVE  Asked(j)
    <3>1. job \in JobTable /\ job[j] \in JobRow /\ application' = application
      BY <2>6 DEF ApplyCount, Hiring, JobTypeInv, JobTypeOK, JobTable, Exists
    <3>2. job'[j] \in {job[j], [job[j] EXCEPT !.applicantsCount = @ + 1]}
      BY <2>6, <3>1 DEF ApplyCount, JobTable
    <3>3. /\ job'[j].company = job[j].company /\ job'[j].poster = job[j].poster
          /\ job'[j].isActive = job[j].isActive /\ job'[j].advert = job[j].advert
      BY <3>1, <3>2 DEF JobRow
    <3>. QED BY <3>1, <3>3
  <2>7. ASSUME NEW c \in Clerks, CompanyRoutes(c) \/ JobRoutes(c) \/ ApplicationRoutes(c)
        PROVE  UNCHANGED <<job, application>>
    BY <2>7 DEF CompanyRoutes, JobRoutes, ApplicationRoutes, CompanyStart, CompanyUpdate, JobStart,
                JobFind, ApplyStart, Save, Unsave, StatusFind, Hiring
  <2>8. ASSUME NEW c \in Clerks,
               CompanyInsert(c) \/ JobPublish(c) \/ ApplyFind(c) \/ ApplyPublish(c) \/ JobFail(c)
        PROVE  UNCHANGED <<job, application>>
    BY <2>8 DEF CompanyInsert, JobPublish, ApplyFind, ApplyPublish, JobFail, Hiring
  <2>9. CASE Consume /\ UNCHANGED jobVars
    BY <2>1, <2>9 DEF jobVars
  <2>. HIDE DEF Asked
  <2>. QED BY <2>1, <2>2, <2>3, <2>4, <2>5, <2>6, <2>7, <2>8, <2>9 DEF JobNext, JobProceed
<1>. QED BY <1>1, JobStartsTyped, JobTypesInductive, PTL DEF JobSpec, JobsChangeAsAsked
-----------------------------------------------------------------------------
(* JobService: applications are counted and announced *)

Counting(j) == OnJob(j, {"apply.count"})
Telling(j) == OnJob(j, {"apply.count", "apply.publish"})
CountOf(j) == IF Exists(j) THEN job[j].applicantsCount ELSE 0

\* Every application is counted, about to be, or known to be lost; none is there
\* before the posting is.
CountsAgree ==
  \A j \in Jobs :
    /\ IsFiniteSet(Counting(j))
    /\ CountOf(j) + uncounted[j] + Cardinality(Counting(j)) = Cardinality(Applicants(j))

\* Who is about to be announced has applied.
TellersApplied ==
  \A j \in Jobs : \A c \in Telling(j) : request[c].user \in Applicants(j)

\* A poster is told of applications only; of each, or somebody is about to.
ToldApplied ==
  \A j \in Jobs :
    /\ told[j] \subseteq Applicants(j)
    /\ j \notin untold => \A u \in Applicants(j) :
         u \in told[j] \/ \E c \in Telling(j) : request[c].user = u

ApplicantsInv == CountsAgree /\ TellersApplied /\ ToldApplied

\* Requests other than the one that moves stay at their work.
LEMMA WorkStays ==
  ASSUME JobTypeInv, NEW c, OthersStay(c), NEW d \in Clerks \ {c}, NEW j, NEW pcs,
         "company.insert" \notin pcs
  PROVE  /\ d \in OnJob(j, pcs)' <=> d \in OnJob(j, pcs)
         /\ d \in OnJob(j, pcs) /\ pcs \subseteq Applying => request'[d].user = request[d].user
<1>1. request'[d] = None <=> request[d] = None
  BY OtherRequest
<1>2. request[d] # None => /\ request'[d].pc = request[d].pc
                           /\ request[d].pc # "company.insert" => request'[d].job = request[d].job
                           /\ request[d].pc \in Applying => request'[d].user = request[d].user
  BY OtherRequest
<1>. QED BY <1>1, <1>2 DEF OnJob

\* The applicants of a posting are finitely many.
LEMMA ApplicantsFinite ==
  \A j : IsFiniteSet(Applicants(j)) /\ Cardinality(Applicants(j)) \in Nat
<1>1. \A j : Applicants(j) \subseteq People
  BY DEF Applicants
<1>. QED BY <1>1, FS_Subset, FS_CardinalityType, JobAssumption

\* Steps of requests that neither count nor announce.
LEMMA CountQuiet ==
  ASSUME JobTypeInv, ApplicantsInv, NEW c, OthersStay(c),
         c \in Clerks => \A j \in Jobs : c \notin Telling(j) /\ c \notin Telling(j)',
         \A j \in Jobs : CountOf(j)' = CountOf(j) /\ Applicants(j)' = Applicants(j),
         told' = told, uncounted' = uncounted, untold \subseteq untold'
  PROVE  ApplicantsInv'
<1>1. \A j \in Jobs, d \in Clerks \ {c} :
        /\ d \in Telling(j)' <=> d \in Telling(j)
        /\ d \in Counting(j)' <=> d \in Counting(j)
        /\ d \in Telling(j) => request'[d].user = request[d].user
  BY WorkStays DEF Telling, Counting, Applying
<1>2. \A j \in Jobs : /\ Telling(j) \subseteq Clerks /\ Telling(j)' \subseteq Clerks
                      /\ Counting(j) \subseteq Telling(j) /\ Counting(j)' \subseteq Telling(j)'
  BY DEF Telling, Counting, OnJob
<1>3. \A j \in Jobs : /\ Telling(j)' = Telling(j) /\ Counting(j)' = Counting(j)
                      /\ \A d \in Telling(j) : d \in Clerks \ {c}
  BY <1>1, <1>2
<1>4. CountsAgree'
  BY <1>3 DEF ApplicantsInv, CountsAgree
<1>5. TellersApplied'
  BY <1>1, <1>3 DEF ApplicantsInv, TellersApplied
<1>6. ToldApplied'
  BY <1>1, <1>3 DEF ApplicantsInv, ToldApplied
<1>. QED BY <1>4, <1>5, <1>6 DEF ApplicantsInv

\* The work on a posting after a step of a request.
LEMMA WorkMoves ==
  ASSUME JobTypeInv, NEW c \in Clerks, OthersStay(c), NEW j, NEW pcs \in SUBSET Applying
  PROVE  OnJob(j, pcs)' =
           (OnJob(j, pcs) \ {c})
             \cup (IF request'[c] # None /\ request'[c].pc \in pcs /\ request'[c].job = j
                   THEN {c} ELSE {})
<1>1. \A d \in Clerks \ {c} : d \in OnJob(j, pcs)' <=> d \in OnJob(j, pcs)
  BY WorkStays DEF Applying
<1>2. OnJob(j, pcs)' \subseteq Clerks /\ OnJob(j, pcs) \subseteq Clerks
  BY DEF OnJob
<1>3. c \in OnJob(j, pcs)' <=> request'[c] # None /\ request'[c].pc \in pcs /\ request'[c].job = j
  BY DEF OnJob
<1>. QED BY <1>1, <1>2, <1>3

\* A new application is about to be counted.
LEMMA CountInsert ==
  ASSUME JobTypeInv, ApplicantsInv, NEW c \in Clerks, ApplyInsert(c), ~Applied(c)
  PROVE  ApplicantsInv'
<1>. DEFINE r == request[c]
            i == r.job
            v == r.user
            s == request'[c]
<1>1. /\ r \in Request /\ r # None /\ r.pc = "apply.insert" /\ i \in Jobs /\ v \in People
      /\ r.pc \in Applying
  BY AtStatement, RequestFields DEF ApplyInsert, Doing, Applying
<1>2. /\ s \in Request /\ s.pc = "apply.count" /\ s.job = i /\ s.user = v
      /\ \A d \in Clerks \ {c} : request'[d] = request[d]
  BY <1>1, ApplyMove DEF ApplyInsert, Applying
<1>3. s # None /\ OthersStay(c)
  BY <1>2, JobRowAssumption DEF OthersStay
<1>4. /\ UNCHANGED <<job, told, uncounted, untold>> /\ application \in ApplicationTable
      /\ application' = [application EXCEPT ![i][v] = NewApplication]
      /\ application[i][v] = None /\ NewApplication # None
  BY JobRowAssumption DEF ApplyInsert, Applied, JobHistories, JobTypeInv, JobTypeOK, NewApplication,
                          ApplicationStatus
<1>5. \A j \in Jobs : Applicants(j)' = IF j = i THEN Applicants(i) \cup {v} ELSE Applicants(j)
  BY <1>1, <1>4 DEF Applicants, ApplicationTable
<1>6. v \notin Applicants(i)
  BY <1>4 DEF Applicants
<1>7. {"apply.count"} \in SUBSET Applying /\ {"apply.count", "apply.publish"} \in SUBSET Applying
  BY DEF Applying
<1>8. \A j \in Jobs : /\ c \notin Counting(j) /\ c \notin Telling(j)
                      /\ Counting(j)' = IF j = i THEN Counting(j) \cup {c} ELSE Counting(j)
                      /\ Telling(j)' = IF j = i THEN Telling(j) \cup {c} ELSE Telling(j)
  <2>. SUFFICES ASSUME NEW j \in Jobs
                PROVE  /\ c \notin Counting(j) /\ c \notin Telling(j)
                       /\ Counting(j)' = IF j = i THEN Counting(j) \cup {c} ELSE Counting(j)
                       /\ Telling(j)' = IF j = i THEN Telling(j) \cup {c} ELSE Telling(j)
    OBVIOUS
  <2>1. c \notin Counting(j) /\ c \notin Telling(j)
    BY <1>1 DEF Counting, Telling, OnJob
  <2>. DEFINE moved(pcs) == IF s # None /\ s.pc \in pcs /\ s.job = j THEN {c} ELSE {}
  <2>2. /\ Counting(j)' = (Counting(j) \ {c}) \cup moved({"apply.count"})
        /\ Telling(j)' = (Telling(j) \ {c}) \cup moved({"apply.count", "apply.publish"})
    BY <1>3, <1>7, WorkMoves DEF Counting, Telling
  <2>3. \A pcs \in SUBSET Applying : "apply.count" \in pcs => moved(pcs) = IF j = i THEN {c} ELSE {}
    BY <1>2, <1>3
  <2>. HIDE DEF moved
  <2>. QED BY <1>7, <2>1, <2>2, <2>3
<1>9. \A j \in Jobs : \A d \in Telling(j) : d \in Clerks \ {c}
  BY <1>8 DEF Telling, OnJob
<1>. HIDE DEF r, i, v, s
<1>10. CountsAgree'
  <2>. SUFFICES ASSUME NEW j \in Jobs
                PROVE  /\ IsFiniteSet(Counting(j)')
                       /\ CountOf(j)' + uncounted[j] + Cardinality(Counting(j)') = Cardinality(Applicants(j)')
    BY <1>4 DEF CountsAgree
  <2>1. /\ IsFiniteSet(Counting(j)) /\ Cardinality(Counting(j)) \in Nat
        /\ CountOf(j) + uncounted[j] + Cardinality(Counting(j)) = Cardinality(Applicants(j))
    BY FS_CardinalityType DEF ApplicantsInv, CountsAgree
  <2>2. IsFiniteSet(Applicants(j)) /\ Cardinality(Applicants(j)) \in Nat
    BY ApplicantsFinite
  <2>3. CountOf(j)' = CountOf(j) /\ CountOf(j) \in Nat /\ uncounted[j] \in Nat
    BY <1>4 DEF CountOf, Exists, JobTypeInv, JobTypeOK, JobTable, JobRow
  <2>4. CASE j = i
    <3>1. IsFiniteSet(Counting(j)') /\ Cardinality(Counting(j)') = Cardinality(Counting(j)) + 1
      BY <1>8, <2>1, <2>4, FS_AddElement
    <3>2. Cardinality(Applicants(j)') = Cardinality(Applicants(j)) + 1
      BY <1>5, <1>6, <2>2, <2>4, FS_AddElement
    <3>. QED BY <2>1, <2>2, <2>3, <3>1, <3>2
  <2>5. CASE j # i
    BY <1>5, <1>8, <2>1, <2>3, <2>5
  <2>. QED BY <2>4, <2>5
<1>11. TellersApplied'
  BY <1>2, <1>5, <1>8, <1>9 DEF ApplicantsInv, TellersApplied, s
<1>12. ToldApplied'
  BY <1>2, <1>4, <1>5, <1>8, <1>9 DEF ApplicantsInv, ToldApplied, s
<1>. QED BY <1>10, <1>11, <1>12 DEF ApplicantsInv

\* Counting moves an application from those about to be counted to the count.
LEMMA CountCount ==
  ASSUME JobTypeInv, ApplicantsInv, NEW c \in Clerks, ApplyCount(c)
  PROVE  ApplicantsInv'
<1>. DEFINE r == request[c]
            i == r.job
            s == request'[c]
<1>1. /\ r \in Request /\ r # None /\ r.pc = "apply.count" /\ i \in Jobs /\ Exists(i)
      /\ r.pc \in Applying
  BY AtStatement, RequestFields DEF ApplyCount, Doing, Applying, Holds
<1>2. /\ s \in Request /\ s.pc = "apply.publish" /\ s.job = i /\ s.user = r.user
      /\ \A d \in Clerks \ {c} : request'[d] = request[d]
  BY <1>1, ApplyMove DEF ApplyCount, Applying
<1>3. s # None /\ OthersStay(c)
  BY <1>2, JobRowAssumption DEF OthersStay
<1>4. /\ UNCHANGED <<application, told, uncounted, untold>> /\ job \in JobTable
      /\ job' = [job EXCEPT ![i].applicantsCount = @ + 1]
  BY DEF ApplyCount, Hiring, JobHistories, JobTypeInv, JobTypeOK
<1>5. \A j \in Jobs : Applicants(j)' = Applicants(j)
  BY <1>4 DEF Applicants
<1>6. \A j \in Jobs : CountOf(j)' = (IF j = i THEN CountOf(j) + 1 ELSE CountOf(j)) /\ CountOf(j) \in Nat
  <2>1. job[i] \in JobRow
    BY <1>1, <1>4 DEF Exists, JobTable
  <2>2. /\ [job[i] EXCEPT !.applicantsCount = @ + 1] \in JobRow
        /\ [job[i] EXCEPT !.applicantsCount = @ + 1].applicantsCount = job[i].applicantsCount + 1
    BY <2>1 DEF JobRow
  <2>3. \A j \in Jobs : job'[j] = IF j = i THEN [job[i] EXCEPT !.applicantsCount = @ + 1] ELSE job[j]
    BY <1>1, <1>4 DEF JobTable
  <2>4. \A j \in Jobs : CountOf(j) \in Nat
    BY <1>4 DEF CountOf, Exists, JobTable, JobRow
  <2>. QED BY <1>1, <2>1, <2>2, <2>3, <2>4, JobRowAssumption DEF CountOf, Exists
<1>7. {"apply.count"} \in SUBSET Applying /\ {"apply.count", "apply.publish"} \in SUBSET Applying
  BY DEF Applying
<1>8. \A j \in Jobs : /\ c \in Counting(j) <=> j = i
                      /\ Counting(j)' = Counting(j) \ {c}
                      /\ Telling(j)' = Telling(j)
  <2>. SUFFICES ASSUME NEW j \in Jobs
                PROVE  /\ c \in Counting(j) <=> j = i
                       /\ Counting(j)' = Counting(j) \ {c}
                       /\ Telling(j)' = Telling(j)
    OBVIOUS
  <2>1. (c \in Counting(j) <=> j = i) /\ (c \in Telling(j) <=> j = i)
    BY <1>1 DEF Counting, Telling, OnJob
  <2>2. Counting(j)' = Counting(j) \ {c}
    BY <1>2, <1>3, <1>7, WorkMoves DEF Counting
  <2>3. Telling(j)' = (Telling(j) \ {c}) \cup (IF i = j THEN {c} ELSE {})
    BY <1>2, <1>3, <1>7, WorkMoves DEF Telling
  <2>. QED BY <2>1, <2>2, <2>3
<1>9. \A j \in Jobs : \A d \in Telling(j) : d \in Clerks /\ request'[d].user = request[d].user
  BY <1>2 DEF Telling, OnJob
<1>. HIDE DEF r, i, s
<1>10. CountsAgree'
  <2>. SUFFICES ASSUME NEW j \in Jobs
                PROVE  /\ IsFiniteSet(Counting(j)')
                       /\ CountOf(j)' + uncounted[j] + Cardinality(Counting(j)') = Cardinality(Applicants(j))
    BY <1>4, <1>5 DEF CountsAgree
  <2>1. /\ IsFiniteSet(Counting(j)) /\ Cardinality(Counting(j)) \in Nat /\ uncounted[j] \in Nat
        /\ CountOf(j) + uncounted[j] + Cardinality(Counting(j)) = Cardinality(Applicants(j))
    BY FS_CardinalityType DEF ApplicantsInv, CountsAgree, JobTypeInv, JobTypeOK
  <2>2. /\ IsFiniteSet(Counting(j)')
        /\ Cardinality(Counting(j)') = IF j = i THEN Cardinality(Counting(j)) - 1 ELSE Cardinality(Counting(j))
    BY <1>8, <2>1, FS_RemoveElement
  <2>. QED BY <1>6, <2>1, <2>2
<1>11. TellersApplied'
  BY <1>5, <1>8, <1>9 DEF ApplicantsInv, TellersApplied
<1>12. ToldApplied'
  BY <1>4, <1>5, <1>8, <1>9 DEF ApplicantsInv, ToldApplied
<1>. QED BY <1>10, <1>11, <1>12 DEF ApplicantsInv

\* Whoever is announced is told of; a request that ends without is remembered.
LEMMA CountEnd ==
  ASSUME JobTypeInv, ApplicantsInv, NEW c \in Clerks, ApplyPublish(c) \/ JobFail(c)
  PROVE  ApplicantsInv'
<1>. DEFINE r == request[c]
            i == r.job
<1>1. /\ r \in Request /\ r # None /\ (r.pc \in Applying => i \in Jobs /\ r.user \in People)
      /\ request'[c] = None /\ \A d \in Clerks \ {c} : request'[d] = request[d]
      /\ UNCHANGED <<application, job>>
  BY AtStatement, RequestFields DEF ApplyPublish, JobFail, Doing, Reply, Hiring, JobHistories,
     JobTypeInv, JobTypeOK
<1>2. OthersStay(c)
  BY <1>1 DEF OthersStay
<1>3. \A j \in Jobs : Applicants(j)' = Applicants(j) /\ CountOf(j)' = CountOf(j) /\ CountOf(j) \in Nat
  BY <1>1 DEF Applicants, CountOf, Exists, JobTypeInv, JobTypeOK, JobTable, JobRow
<1>4. {"apply.count"} \in SUBSET Applying /\ {"apply.count", "apply.publish"} \in SUBSET Applying
  BY DEF Applying
<1>5. \A j \in Jobs : /\ c \in Counting(j) <=> r.pc = "apply.count" /\ j = i
                      /\ c \in Telling(j) <=> r.pc \in {"apply.count", "apply.publish"} /\ j = i
                      /\ Counting(j)' = Counting(j) \ {c} /\ Telling(j)' = Telling(j) \ {c}
  <2>. SUFFICES ASSUME NEW j \in Jobs
                PROVE  /\ c \in Counting(j) <=> r.pc = "apply.count" /\ j = i
                       /\ c \in Telling(j) <=> r.pc \in {"apply.count", "apply.publish"} /\ j = i
                       /\ Counting(j)' = Counting(j) \ {c} /\ Telling(j)' = Telling(j) \ {c}
    OBVIOUS
  <2>1. /\ c \in Counting(j) <=> r.pc = "apply.count" /\ j = i
        /\ c \in Telling(j) <=> r.pc \in {"apply.count", "apply.publish"} /\ j = i
    BY <1>1 DEF Counting, Telling, OnJob
  <2>. QED BY <1>1, <1>2, <1>4, <2>1, WorkMoves DEF Counting, Telling
<1>6. \A j \in Jobs : \A d \in Telling(j) : d \in Clerks /\ (d # c => request'[d].user = request[d].user)
  BY <1>1 DEF Telling, OnJob
<1>7. /\ \A j \in Jobs : uncounted'[j] = IF r.pc = "apply.count" /\ j = i THEN uncounted[j] + 1
                                         ELSE uncounted[j]
      /\ untold \subseteq untold' /\ uncounted \in [Jobs -> Nat] /\ told \in [Jobs -> SUBSET People]
  BY <1>1 DEF ApplyPublish, JobFail, Doing, JobHistories, JobTypeInv, JobTypeOK, Applying
<1>8. \/ r.pc = "apply.publish" /\ told' = [told EXCEPT ![i] = @ \cup {r.user}]
      \/ told' = told /\ (r.pc \in {"apply.count", "apply.publish"} => i \in untold')
  BY <1>1 DEF ApplyPublish, Announce, Doing, JobFail, Hiring
<1>9. c \in Telling(i) /\ i \in Jobs => r.user \in Applicants(i)
  BY DEF ApplicantsInv, TellersApplied
<1>. HIDE DEF r, i
<1>10. CountsAgree'
  <2>. SUFFICES ASSUME NEW j \in Jobs
                PROVE  /\ IsFiniteSet(Counting(j)')
                       /\ CountOf(j) + uncounted'[j] + Cardinality(Counting(j)') = Cardinality(Applicants(j))
    BY <1>3 DEF CountsAgree
  <2>1. /\ IsFiniteSet(Counting(j)) /\ Cardinality(Counting(j)) \in Nat /\ uncounted[j] \in Nat
        /\ CountOf(j) + uncounted[j] + Cardinality(Counting(j)) = Cardinality(Applicants(j))
    BY <1>7, FS_CardinalityType DEF ApplicantsInv, CountsAgree
  <2>2. /\ IsFiniteSet(Counting(j)')
        /\ Cardinality(Counting(j)') =
             IF r.pc = "apply.count" /\ j = i THEN Cardinality(Counting(j)) - 1 ELSE Cardinality(Counting(j))
    BY <1>5, <2>1, FS_RemoveElement
  <2>. QED BY <1>3, <1>7, <2>1, <2>2
<1>11. TellersApplied'
  BY <1>3, <1>5, <1>6 DEF ApplicantsInv, TellersApplied
<1>12. ToldApplied'
  <2>. SUFFICES ASSUME NEW j \in Jobs
                PROVE  /\ told'[j] \subseteq Applicants(j)
                       /\ j \notin untold' => \A u \in Applicants(j) :
                            u \in told'[j] \/ \E d \in Telling(j)' : request'[d].user = u
    BY <1>3 DEF ToldApplied
  <2>1. /\ told[j] \subseteq Applicants(j) /\ told[j] \subseteq told'[j]
        /\ told'[j] \subseteq told[j] \cup Applicants(j)
        /\ j \notin untold' /\ c \in Telling(j) => r.user \in told'[j]
    BY <1>1, <1>5, <1>7, <1>8, <1>9 DEF ApplicantsInv, ToldApplied, Applying
  <2>2. ASSUME NEW u \in Applicants(j), j \notin untold'
        PROVE  u \in told'[j] \/ \E d \in Telling(j)' : request'[d].user = u
    <3>1. u \in told[j] \/ \E d \in Telling(j) : request[d].user = u
      BY <1>7, <2>2 DEF ApplicantsInv, ToldApplied
    <3>. QED BY <1>5, <1>6, <2>1, <2>2, <3>1 DEF r
  <2>. QED BY <2>1, <2>2
<1>. QED BY <1>10, <1>11, <1>12 DEF ApplicantsInv

\* A request that begins has nothing to count yet.
LEMMA CountBegin ==
  ASSUME JobTypeInv, ApplicantsInv, NEW c \in Clerks, NEW s, Take(c, s),
         s.pc \notin {"apply.count", "apply.publish"},
         UNCHANGED <<job, application, told, uncounted, untold>>
  PROVE  ApplicantsInv'
<1>1. /\ request[c] = None /\ request'[c] = s /\ \A d \in Clerks \ {c} : request'[d] = request[d]
  BY DEF Take, JobTypeInv, JobTypeOK
<1>2. OthersStay(c)
  BY <1>1 DEF OthersStay
<1>3. \A j \in Jobs : c \notin Telling(j) /\ c \notin Telling(j)'
  BY <1>1 DEF Telling, OnJob
<1>4. \A j \in Jobs : CountOf(j)' = CountOf(j) /\ Applicants(j)' = Applicants(j)
  BY DEF CountOf, Applicants, Exists
<1>. QED BY <1>2, <1>3, <1>4, CountQuiet

\* Neither has one that inserts or announces a row, updates it, or decides on an
\* application.
LEMMA CountElsewhere ==
  ASSUME JobTypeInv, ApplicantsInv, NEW c \in Clerks,
         \/ CompanyInsert(c) \/ JobInsert(c) \/ JobPublish(c) \/ JobWrite(c) \/ ApplyFind(c)
         \/ StatusWrite(c) \/ (ApplyInsert(c) /\ Applied(c))
  PROVE  ApplicantsInv'
<1>. DEFINE r == request[c]
<1>1. /\ r \in Request /\ r # None /\ Holds(c) /\ r.pc \notin {"apply.count", "apply.publish"}
      /\ UNCHANGED <<told, uncounted, untold>>
  BY AtStatement
     DEF CompanyInsert, JobInsert, JobPublish, JobWrite, ApplyFind, StatusWrite, ApplyInsert, Doing,
         Hiring, JobHistories
<1>2. CASE JobWrite(c)
  <2>1. /\ r.job \in Jobs /\ Exists(r.job) /\ r.copy \in JobRow /\ r.changes \in JobChanges
        /\ job[r.job] \in JobRow /\ \A j \in Jobs \ {r.job} : job'[j] = job[j]
        /\ job'[r.job] = Changed(job[r.job], Differing(r.copy, r.changes))
        /\ request'[c] = None /\ OthersStay(c)
    BY <1>2, WriteEffect
  <2>2. Differing(r.copy, r.changes) \in JobChanges
    BY <2>1, DifferingTypes
  <2>3. job'[r.job] \in JobRow /\ job'[r.job].applicantsCount = job[r.job].applicantsCount
    BY <2>1, <2>2, ChangedTypes
  <2>4. \A j \in Jobs : CountOf(j)' = CountOf(j)
    BY <2>1, <2>3, JobRowAssumption DEF CountOf, Exists
  <2>5. \A j \in Jobs : Applicants(j)' = Applicants(j)
    BY <1>2 DEF JobWrite, Hiring, Applicants
  <2>6. \A j \in Jobs : c \notin Telling(j) /\ c \notin Telling(j)'
    BY <1>1, <2>1 DEF Telling, OnJob
  <2>. QED BY <1>1, <2>1, <2>4, <2>5, <2>6, CountQuiet
<1>3. CASE JobInsert(c)
  <2>1. /\ r.pc = "job.insert" /\ r.job \in Jobs /\ r.row \in JobRow /\ r.row.applicantsCount = 0
        /\ job[r.job] = None /\ request' = [request EXCEPT ![c] = [r EXCEPT !.pc = "job.publish"]]
        /\ job' = [job EXCEPT ![r.job] = r.row] /\ application' = application
    BY <1>1, <1>3, RequestFields
       DEF JobInsert, Doing, Holds, MoveTo, Hiring, JobTypeInv, JobTypeOK
  <2>2. request'[c].pc = "job.publish"
    BY <1>1, <2>1, OneMoves, InsertGoesOn
  <2>3. OthersStay(c)
    BY <2>1, OneMoves
  <2>4. \A j \in Jobs : CountOf(j)' = CountOf(j) /\ Applicants(j)' = Applicants(j)
    BY <2>1, JobRowAssumption DEF CountOf, Exists, Applicants, JobTypeInv, JobTypeOK, JobTable
  <2>5. \A j \in Jobs : c \notin Telling(j) /\ c \notin Telling(j)'
    BY <1>1, <2>2 DEF Telling, OnJob
  <2>. QED BY <1>1, <2>3, <2>4, <2>5, CountQuiet
<1>4. CASE \/ CompanyInsert(c) \/ JobPublish(c) \/ ApplyFind(c) \/ StatusWrite(c)
           \/ (ApplyInsert(c) /\ Applied(c))
  <2>1. job' = job /\ (Reply(c) \/ (ApplyFind(c) /\ MoveTo(c, "apply.insert")))
    BY <1>4 DEF CompanyInsert, JobPublish, ApplyFind, StatusWrite, ApplyInsert
  <2>2. OthersStay(c) /\ (request'[c] = None \/ request'[c].pc = "apply.insert")
    <3>1. CASE Reply(c)
      BY <3>1, OneMoves DEF Reply
    <3>2. CASE ApplyFind(c) /\ MoveTo(c, "apply.insert")
      <4>1. r.pc \in Applying /\ "apply.insert" \in Applying
        BY <3>2 DEF ApplyFind, Doing, Applying
      <4>2. /\ request'[c].pc = "apply.insert"
            /\ \A d \in Clerks \ {c} : request'[d] = request[d]
        BY <1>1, <3>2, <4>1, ApplyMove
      <4>. QED BY <4>2 DEF OthersStay
    <3>. QED BY <2>1, <3>1, <3>2
  <2>3. \A j \in Jobs : Applicants(j)' = Applicants(j)
    <3>1. CASE StatusWrite(c)
      <4>1. /\ r.job \in Jobs /\ r.applicant \in People /\ r.status \in ApplicationStatus
            /\ application[r.job][r.applicant] # None /\ application \in ApplicationTable
        BY <1>1, <3>1, RequestFields DEF StatusWrite, Doing, Holds, JobTypeInv, JobTypeOK
      <4>2. application' = application \/ application' = [application EXCEPT ![r.job][r.applicant] = r.status]
        BY <3>1 DEF StatusWrite
      <4>3. \A j \in Jobs, u \in People : application'[j][u] = None <=> application[j][u] = None
        BY <4>1, <4>2, JobRowAssumption DEF ApplicationTable
      <4>. QED BY <4>3 DEF Applicants
    <3>2. CASE application' = application
      BY <3>2 DEF Applicants
    <3>. QED BY <1>4, <3>1, <3>2 DEF CompanyInsert, JobPublish, ApplyFind, ApplyInsert, Hiring
  <2>4. \A j \in Jobs : CountOf(j)' = CountOf(j) /\ c \notin Telling(j) /\ c \notin Telling(j)'
    BY <1>1, <2>1, <2>2 DEF CountOf, Exists, Telling, OnJob
  <2>. QED BY <1>1, <2>2, <2>3, <2>4, CountQuiet
<1>. QED BY <1>2, <1>3, <1>4

LEMMA CountAside ==
  ASSUME JobTypeInv, ApplicantsInv, UNCHANGED <<job, application, told, uncounted, untold, request>>
  PROVE  ApplicantsInv'
<1>1. \A j : /\ CountOf(j)' = CountOf(j) /\ Applicants(j)' = Applicants(j)
             /\ Telling(j)' = Telling(j) /\ Counting(j)' = Counting(j)
  BY DEF CountOf, Applicants, Telling, Counting, OnJob, Exists
<1>2. CountsAgree'
  BY <1>1 DEF ApplicantsInv, CountsAgree
<1>3. TellersApplied' /\ ToldApplied'
  BY <1>1 DEF ApplicantsInv, TellersApplied, ToldApplied
<1>. QED BY <1>2, <1>3 DEF ApplicantsInv

\* A request that begins is at none of its later statements; requests to companies
\* and of saved jobs that are done at once have none.
Begins(c) == \E s : Take(c, s) /\ s.pc \notin {"apply.count", "apply.publish", "job.publish"}

LEMMA BeginsOrAside ==
  ASSUME NEW c \in Clerks, CompanyRoutes(c) \/ JobRoutes(c) \/ ApplicationRoutes(c)
  PROVE  /\ UNCHANGED <<searchVars, job, application, told, uncounted, untold, reworded>>
         /\ request' = request \/ Begins(c)
<1>1. ASSUME NEW k, NEW u, NEW name, NEW page, CompanyStart(c, k, u, name, page) PROVE Begins(c)
  <2>1. PICK slug : Take(c, [pc |-> "company.insert", company |-> k,
                             row |-> NewCompany(u, slug, page)])
    BY <1>1 DEF CompanyStart
  <2>. QED BY <2>1 DEF Begins
<1>2. ASSUME NEW j, NEW k, NEW u, NEW advert, JobStart(c, j, k, u, advert) PROVE Begins(c)
  <2>1. Take(c, [pc |-> "job.insert", job |-> j, row |-> NewJob(k, u, advert)])
    BY <1>2 DEF JobStart
  <2>. QED BY <2>1 DEF Begins
<1>3. ASSUME NEW j, NEW u, NEW changes, JobFind(c, j, u, changes) PROVE Begins(c)
  <2>1. Take(c, [pc |-> "job.write", job |-> j, user |-> u, copy |-> job[j],
                 changes |-> changes, fresh |-> TRUE])
    BY <1>3 DEF JobFind
  <2>. QED BY <2>1 DEF Begins
<1>4. ASSUME NEW j, NEW u, ApplyStart(c, j, u) PROVE Begins(c)
  <2>1. Take(c, [pc |-> "apply.find", job |-> j, user |-> u, fresh |-> TRUE])
    BY <1>4 DEF ApplyStart
  <2>. QED BY <2>1 DEF Begins
<1>5. ASSUME NEW j, NEW u, NEW a, NEW status, StatusFind(c, j, u, a, status) PROVE Begins(c)
  <2>1. Take(c, [pc |-> "status.write", job |-> j, user |-> u, applicant |-> a,
                 copy |-> application[j][a], status |-> status])
    BY <1>5 DEF StatusFind
  <2>. QED BY <2>1 DEF Begins
<1>6. \A k, u, page : CompanyUpdate(k, u, page) => request' = request
  BY DEF CompanyUpdate
<1>7. \A j, u : Save(j, u) \/ Unsave(j, u) => request' = request
  BY DEF Save, Unsave
<1>8. request' = request \/ Begins(c)
  BY <1>1, <1>2, <1>3, <1>4, <1>5, <1>6, <1>7 DEF CompanyRoutes, JobRoutes, ApplicationRoutes
<1>9. UNCHANGED <<searchVars, job, application, told, uncounted, untold, reworded>>
  BY DEF CompanyRoutes, JobRoutes, ApplicationRoutes, CompanyStart, CompanyUpdate, JobStart,
         JobFind, ApplyStart, Save, Unsave, StatusFind, Hiring, JobHistories
<1>. QED BY <1>8, <1>9

LEMMA CountInductive ==
  JobTypeInv /\ ApplicantsInv /\ [JobNext]_<<searchVars, jobVars>> => ApplicantsInv'
<1>. SUFFICES ASSUME JobTypeInv, ApplicantsInv, [JobNext]_<<searchVars, jobVars>>
              PROVE  ApplicantsInv'
  OBVIOUS
<1>1. CASE UNCHANGED jobVars
  BY <1>1, CountAside DEF jobVars
<1>2. ASSUME NEW c \in Clerks, CompanyRoutes(c) \/ JobRoutes(c) \/ ApplicationRoutes(c)
      PROVE  ApplicantsInv'
  <2>1. /\ UNCHANGED <<job, application, told, uncounted, untold>>
        /\ request' = request \/ Begins(c)
    BY <1>2, BeginsOrAside
  <2>. QED BY <2>1, CountBegin, CountAside DEF Begins
<1>3. ASSUME NEW c \in Clerks, JobProceed(c)
      PROVE  ApplicantsInv'
  BY <1>3, CountElsewhere, CountInsert, CountCount, CountEnd DEF JobProceed
<1>. QED BY <1>1, <1>2, <1>3 DEF JobNext, jobVars

\* The count of applicants of a posting is the number of its applications, less those
\* about to be counted and those whose counting failed, however updates of the posting
\* interleave; a poster is told of applications that exist, and of all of them if
\* nothing failed and nothing is on its way.
THEOREM ApplicantsAreCounted == JobSpec => []ApplicantsCounted
<1>1. SearchInit /\ JobInit => ApplicantsInv
  <2>. SUFFICES ASSUME JobInit PROVE ApplicantsInv
    OBVIOUS
  <2>1. \A j \in Jobs : /\ CountOf(j) = 0 /\ uncounted[j] = 0 /\ told[j] = {}
                        /\ Counting(j) = {} /\ Telling(j) = {} /\ Applicants(j) = {}
    BY DEF JobInit, CountOf, Exists, Counting, Telling, OnJob, Applicants
  <2>2. CountsAgree
    BY <2>1, FS_EmptySet DEF CountsAgree
  <2>. QED BY <2>1, <2>2 DEF ApplicantsInv, TellersApplied, ToldApplied
<1>2. JobTypeInv /\ ApplicantsInv => ApplicantsCounted
  <2>. SUFFICES ASSUME ApplicantsInv, NEW j \in Jobs, Exists(j)
                PROVE  /\ job[j].applicantsCount + uncounted[j] + Cardinality(Counting(j))
                            = Cardinality(Applicants(j))
                       /\ told[j] \subseteq Applicants(j)
                       /\ j \notin untold /\ Telling(j) = {} => told[j] = Applicants(j)
    BY DEF ApplicantsCounted, Counting, Telling
  <2>. QED BY DEF ApplicantsInv, CountsAgree, ToldApplied, CountOf
<1>. QED BY <1>1, <1>2, JobStartsTyped, JobTypesInductive, CountInductive, PTL DEF JobSpec
-----------------------------------------------------------------------------
(* JobService: the index *)

Announcers(j) == OnJob(j, {"job.publish"})

\* A posting is announced as it was inserted.
AnnouncersHoldRow ==
  \A j \in Jobs : \A c \in Announcers(j) :
    j \notin reworded => request[c].row.advert = job[j].advert

\* Once its announcement is made, the index comes to the advert of a posting.
JobLeadsTo(j) == \E doc \in Adverts : LastIs(j, doc) /\ (j \notin reworded => doc = job[j].advert)
JobIndexLeads == \A j \in Jobs \ untold : Exists(j) /\ Announcers(j) = {} => JobLeadsTo(j)

JobIndexInv == AnnouncersHoldRow /\ JobIndexLeads

\* A step that neither sends nor handles an event, and inserts no posting.
LEMMA JobIndexQuiet ==
  ASSUME JobTypeInv, JobIndexInv, UNCHANGED <<index, mail, crowded, buried>>,
         \A j \in Jobs : Announcers(j)' \subseteq Announcers(j)
                         /\ (Announcers(j)' = Announcers(j) \/ j \in untold'),
         \A j \in Jobs : \A c \in Announcers(j)' : request'[c].row = request[c].row,
         \A j \in Jobs : Exists(j)' \/ Announcers(j)' # {} =>
           Exists(j) /\ (j \notin reworded' => job'[j].advert = job[j].advert),
         reworded \subseteq reworded', untold \subseteq untold'
  PROVE  JobIndexInv'
<1>1. AnnouncersHoldRow'
  BY DEF JobIndexInv, AnnouncersHoldRow
<1>2. \A j, doc : LastIs(j, doc) => LastIs(j, doc)'
  BY DEF LastIs, Pending
<1>3. JobIndexLeads'
  BY <1>2 DEF JobIndexInv, JobIndexLeads, JobLeadsTo
<1>. QED BY <1>1, <1>3 DEF JobIndexInv

\* What the step of one request does to the announcers of a posting.
LEMMA AnnouncersMove ==
  ASSUME JobTypeInv, NEW c \in Clerks, OthersStay(c), NEW j
  PROVE  /\ Announcers(j)' = (Announcers(j) \ {c})
              \cup (IF request'[c] # None /\ request'[c].pc = "job.publish" /\ request'[c].job = j
                    THEN {c} ELSE {})
         /\ \A d \in Announcers(j) \ {c} : request'[d].row = request[d].row
<1>1. \A d \in Clerks \ {c} : d \in Announcers(j)' <=> d \in Announcers(j)
  BY WorkStays DEF Announcers
<1>2. Announcers(j)' \subseteq Clerks /\ Announcers(j) \subseteq Clerks
  BY DEF Announcers, OnJob
<1>3. c \in Announcers(j)' <=> request'[c] # None /\ request'[c].pc = "job.publish" /\ request'[c].job = j
  BY DEF Announcers, OnJob
<1>4. \A d \in Clerks \ {c} : d \in Announcers(j) => request'[d].row = request[d].row
  BY OtherRequest DEF Announcers, OnJob
<1>. QED BY <1>1, <1>2, <1>3, <1>4

\* A posting is inserted with its announcement to follow.
LEMMA JobIndexInsert ==
  ASSUME JobTypeInv, JobIndexInv, NEW c \in Clerks, JobInsert(c)
  PROVE  JobIndexInv'
<1>. DEFINE r == request[c]
            i == r.job
            s == [r EXCEPT !.pc = "job.publish"]
<1>1. /\ r \in Request /\ r # None /\ r.pc = "job.insert" /\ i \in Jobs /\ r.row \in JobRow
      /\ job[i] = None
  BY AtStatement, RequestFields DEF JobInsert, Doing, Holds
<1>2. /\ UNCHANGED <<index, mail, crowded, buried, untold, reworded>>
      /\ job'[i] = r.row /\ \A j \in Jobs \ {i} : job'[j] = job[j]
  BY <1>1 DEF JobInsert, JobHistories, searchVars, JobTypeInv, JobTypeOK, JobTable
<1>3. /\ s \in Request /\ s.pc = "job.publish" /\ s.job = i /\ s.row = r.row
      /\ request' = [request EXCEPT ![c] = s]
  BY <1>1, InsertGoesOn DEF JobInsert, MoveTo, JobTypeInv, JobTypeOK
<1>4. s # None
  BY <1>3, JobRowAssumption
<1>. HIDE DEF s
<1>5. request'[c] = s /\ OthersStay(c)
  BY <1>3, OneMoves
<1>6. \A j \in Jobs : \A d \in Announcers(j) : Exists(j) /\ d # c
  BY <1>1, AtStatement DEF Announcers, OnJob, Holds
<1>7. \A j \in Jobs : /\ Announcers(j)' = IF j = i THEN {c} ELSE Announcers(j)
                      /\ \A d \in Announcers(j) : request'[d].row = request[d].row
  <2>. SUFFICES ASSUME NEW j \in Jobs
                PROVE  /\ Announcers(j)' = IF j = i THEN {c} ELSE Announcers(j)
                       /\ \A d \in Announcers(j) : request'[d].row = request[d].row
    OBVIOUS
  <2>1. c \notin Announcers(j) /\ (j = i => Announcers(j) = {})
    BY <1>1, <1>6 DEF Exists
  <2>2. /\ Announcers(j)' = (Announcers(j) \ {c}) \cup (IF s.job = j THEN {c} ELSE {})
        /\ \A d \in Announcers(j) \ {c} : request'[d].row = request[d].row
    BY <1>3, <1>4, <1>5, AnnouncersMove
  <2>. QED BY <1>3, <2>1, <2>2
<1>. HIDE DEF i, r
<1>8. AnnouncersHoldRow'
  BY <1>2, <1>3, <1>5, <1>7 DEF JobIndexInv, AnnouncersHoldRow
<1>9. \A j, doc : LastIs(j, doc) => LastIs(j, doc)'
  BY <1>2 DEF LastIs, Pending
<1>10. JobIndexLeads'
  BY <1>2, <1>7, <1>9 DEF JobIndexInv, JobIndexLeads, JobLeadsTo, Exists
<1>. QED BY <1>8, <1>10 DEF JobIndexInv

\* What is announced is what the index comes to.
LEMMA JobIndexPublish ==
  ASSUME JobTypeInv, JobIndexInv, NEW c \in Clerks, JobPublish(c)
  PROVE  JobIndexInv'
<1>. DEFINE r == request[c]
            i == r.job
<1>1. /\ r \in Request /\ r # None /\ r.pc = "job.publish" /\ i \in Jobs /\ i \in Ids
      /\ r.row.advert \in Adverts
  BY AtStatement, RequestFields, JobAssumption DEF JobPublish, Doing, JobRow
<1>2. Send(i, r.row.advert) /\ UNCHANGED <<job, untold, reworded>>
      /\ request' = [request EXCEPT ![c] = None]
  BY DEF JobPublish, Reply, JobHistories
<1>3. request'[c] = None /\ OthersStay(c)
  BY <1>2, OneMoves
<1>4. \A j \in Jobs : /\ Announcers(j)' = Announcers(j) \ {c}
                      /\ \A d \in Announcers(j) \ {c} : request'[d].row = request[d].row
                      /\ c \in Announcers(j) <=> j = i
  <2>. SUFFICES ASSUME NEW j \in Jobs
                PROVE  /\ Announcers(j)' = Announcers(j) \ {c}
                       /\ \A d \in Announcers(j) \ {c} : request'[d].row = request[d].row
                       /\ c \in Announcers(j) <=> j = i
    OBVIOUS
  <2>1. c \in Announcers(j) <=> j = i
    BY <1>1 DEF Announcers, OnJob
  <2>. QED BY <1>3, <2>1, AnnouncersMove
<1>5. AnnouncersHoldRow'
  BY <1>2, <1>4 DEF JobIndexInv, AnnouncersHoldRow
<1>6. JobIndexLeads'
  <2>. SUFFICES ASSUME NEW j \in Jobs \ untold, Exists(j), Announcers(j)' = {}
                PROVE  JobLeadsTo(j)'
    BY <1>2 DEF JobIndexLeads, Exists
  <2>1. CASE j = i
    <3>1. ASSUME NEW doc, doc = r.row.advert
          PROVE  LastIs(j, doc)'
      BY <1>1, <1>2, <2>1, <3>1, SendLeads
    <3>2. j \notin reworded => r.row.advert = job[j].advert
      BY <1>4, <2>1 DEF JobIndexInv, AnnouncersHoldRow
    <3>. QED BY <1>1, <1>2, <3>1, <3>2 DEF JobLeadsTo
  <2>2. CASE j # i
    <3>1. j \in Ids /\ JobLeadsTo(j)
      BY <1>4, <2>2, JobAssumption DEF JobIndexInv, JobIndexLeads
    <3>2. PICK other, sentDoc : other \in Ids /\ other # j /\ Send(other, sentDoc)
      BY <1>1, <1>2, <2>2
    <3>3. \A doc \in Adverts : LastIs(j, doc) => LastIs(j, doc)'
      BY <3>1, <3>2, SendElsewhere
    <3>. QED BY <1>2, <3>1, <3>3 DEF JobLeadsTo
  <2>. QED BY <2>1, <2>2
<1>. QED BY <1>5, <1>6 DEF JobIndexInv

\* An update is not announced; if it rewords a posting, that is remembered.
LEMMA JobIndexWrite ==
  ASSUME JobTypeInv, JobIndexInv, NEW c \in Clerks, JobWrite(c)
  PROVE  JobIndexInv'
<1>. DEFINE r == request[c]
            diff == Differing(r.copy, r.changes)
<1>1. /\ r.job \in Jobs /\ Exists(r.job) /\ r.copy \in JobRow /\ r.changes \in JobChanges
      /\ job[r.job] \in JobRow /\ \A j \in Jobs \ {r.job} : job'[j] = job[j]
      /\ job'[r.job] = Changed(job[r.job], diff) /\ r.pc = "job.write"
      /\ request'[c] = None /\ OthersStay(c)
  BY WriteEffect
<1>2. /\ UNCHANGED <<index, mail, crowded, buried, untold>>
      /\ reworded' = IF r.changes.advert = None THEN reworded ELSE reworded \cup {r.job}
  BY DEF JobWrite, searchVars
<1>3. diff \in JobChanges /\ (r.changes.advert = None => diff.advert = None)
  BY <1>1, DifferingTypes
<1>. HIDE DEF diff
<1>4. /\ job'[r.job] \in JobRow
      /\ job'[r.job].advert = IF diff.advert = None THEN job[r.job].advert ELSE diff.advert
  BY <1>1, <1>3, ChangedTypes
<1>5. \A j \in Jobs : Exists(j)' => Exists(j) /\ (j \notin reworded' => job'[j].advert = job[j].advert)
  BY <1>1, <1>2, <1>3, <1>4 DEF Exists
<1>6. \A j \in Jobs : /\ c \notin Announcers(j) /\ Announcers(j)' = Announcers(j)
                      /\ \A d \in Announcers(j) : request'[d].row = request[d].row
  <2>. SUFFICES ASSUME NEW j \in Jobs
                PROVE  /\ c \notin Announcers(j) /\ Announcers(j)' = Announcers(j)
                       /\ \A d \in Announcers(j) : request'[d].row = request[d].row
    OBVIOUS
  <2>1. c \notin Announcers(j)
    BY <1>1 DEF Announcers, OnJob
  <2>2. /\ Announcers(j)' = (Announcers(j) \ {c}) \cup {}
        /\ \A d \in Announcers(j) \ {c} : request'[d].row = request[d].row
    BY <1>1, AnnouncersMove
  <2>. QED BY <2>1, <2>2
<1>7. \A j \in Jobs : Announcers(j) # {} => Exists(j)
  BY AtStatement DEF Announcers, OnJob, Holds
<1>8. \A j \in Jobs : Announcers(j)' # {} =>
        Exists(j) /\ (j \notin reworded' => job'[j].advert = job[j].advert)
  <2>1. \A j \in Jobs : Exists(j) => Exists(j)'
    BY <1>1, <1>4, JobRowAssumption DEF Exists
  <2>. QED BY <1>5, <1>6, <1>7, <2>1
<1>. QED BY <1>2, <1>5, <1>6, <1>8, JobIndexQuiet

\* Any other step of a request: it announces nothing, and leaves the adverts.
LEMMA JobIndexElsewhere ==
  ASSUME JobTypeInv, JobIndexInv, NEW c \in Clerks, OthersStay(c),
         request'[c] # None => request'[c].pc # "job.publish",
         \A j \in Jobs : c \in Announcers(j) => j \in untold',
         UNCHANGED <<index, mail, crowded, buried, reworded>>, untold \subseteq untold',
         \A j \in Jobs : /\ Exists(j)' <=> Exists(j)
                         /\ Exists(j) => job'[j].advert = job[j].advert
  PROVE  JobIndexInv'
<1>1. \A j \in Jobs : /\ Announcers(j)' = Announcers(j) \ {c}
                      /\ \A d \in Announcers(j) \ {c} : request'[d].row = request[d].row
  BY AnnouncersMove
<1>2. \A j \in Jobs : Announcers(j) # {} => Exists(j)
  BY AtStatement DEF Announcers, OnJob, Holds
<1>. QED BY <1>1, <1>2, JobIndexQuiet

LEMMA JobIndexInductive ==
  JobTypeInv /\ JobIndexInv /\ [JobNext]_<<searchVars, jobVars>> => JobIndexInv'
<1>. SUFFICES ASSUME JobTypeInv, JobIndexInv, [JobNext]_<<searchVars, jobVars>>
              PROVE  JobIndexInv'
  OBVIOUS
<1>1. CASE UNCHANGED jobVars /\ \A j \in Jobs : \A doc : LastIs(j, doc) => LastIs(j, doc)'
  <2>1. UNCHANGED <<job, request, untold, reworded>>
    BY <1>1 DEF jobVars
  <2>2. \A j : Announcers(j)' = Announcers(j)
    BY <2>1 DEF Announcers, OnJob
  <2>3. AnnouncersHoldRow'
    BY <2>1, <2>2 DEF JobIndexInv, AnnouncersHoldRow
  <2>4. JobIndexLeads'
    BY <1>1, <2>1, <2>2 DEF JobIndexInv, JobIndexLeads, JobLeadsTo, Exists
  <2>. QED BY <2>3, <2>4 DEF JobIndexInv
<1>2. CASE UNCHANGED <<searchVars, jobVars>>
  <2>1. \A j \in Jobs : \A doc : LastIs(j, doc) => LastIs(j, doc)'
    BY <1>2 DEF searchVars, LastIs, Pending
  <2>. QED BY <1>1, <1>2, <2>1
<1>3. CASE Consume /\ UNCHANGED jobVars
  <2>1. \A j \in Jobs : \A doc : LastIs(j, doc) => LastIs(j, doc)'
    BY <1>3, ConsumeLeads, JobAssumption DEF JobTypeInv, JobTypeOK
  <2>. QED BY <1>1, <1>3, <2>1
<1>4. ASSUME NEW c \in Clerks, CompanyRoutes(c) \/ JobRoutes(c) \/ ApplicationRoutes(c)
      PROVE  JobIndexInv'
  <2>1. /\ UNCHANGED <<index, mail, crowded, buried, job, untold, reworded>>
        /\ request' = request \/ Begins(c)
    BY <1>4, BeginsOrAside DEF searchVars
  <2>2. CASE request' = request
    <3>1. \A j : Announcers(j)' = Announcers(j)
      BY <2>2 DEF Announcers, OnJob
    <3>2. \A j \in Jobs : Announcers(j) # {} => Exists(j)
      BY AtStatement DEF Announcers, OnJob, Holds
    <3>. QED BY <2>1, <2>2, <3>1, <3>2, JobIndexQuiet DEF Exists
  <2>3. CASE Begins(c)
    <3>1. PICK s : Take(c, s) /\ s.pc \notin {"apply.count", "apply.publish", "job.publish"}
      BY <2>3 DEF Begins
    <3>2. request[c] = None /\ request'[c] = s /\ OthersStay(c)
      BY <3>1, OneMoves DEF Take
    <3>3. \A j \in Jobs : c \notin Announcers(j)
      BY <3>2 DEF Announcers, OnJob
    <3>. QED BY <2>1, <3>1, <3>2, <3>3, JobIndexElsewhere DEF Exists
  <2>. QED BY <2>1, <2>2, <2>3
<1>5. ASSUME NEW c \in Clerks,
             \/ CompanyInsert(c) \/ ApplyFind(c) \/ ApplyInsert(c) \/ ApplyCount(c)
             \/ ApplyPublish(c) \/ StatusWrite(c) \/ JobFail(c)
      PROVE  JobIndexInv'
  <2>. DEFINE r == request[c]
  <2>1. /\ UNCHANGED <<index, mail, crowded, buried, reworded>> /\ untold \subseteq untold'
        /\ r \in Request /\ r # None /\ (~JobFail(c) => r.pc # "job.publish")
    BY <1>5, AtStatement
       DEF CompanyInsert, ApplyFind, ApplyInsert, ApplyCount, ApplyPublish, StatusWrite, JobFail, Doing,
           Hiring, JobHistories, searchVars
  <2>2. \A j \in Jobs : c \in Announcers(j) => j \in untold'
    BY <1>5, <2>1 DEF JobFail, Announcers, OnJob
  <2>3. OthersStay(c) /\ (request'[c] # None => request'[c].pc # "job.publish")
    <3>1. CASE Reply(c)
      BY <3>1, OneMoves DEF Reply
    <3>2. CASE r.pc \in Applying /\ \E pc \in Applying : MoveTo(c, pc)
      <4>1. PICK pc \in Applying : MoveTo(c, pc)
        BY <3>2
      <4>2. request'[c].pc = pc /\ \A d \in Clerks \ {c} : request'[d] = request[d]
        BY <2>1, <3>2, <4>1, ApplyMove
      <4>. QED BY <4>2 DEF OthersStay, Applying
    <3>. QED BY <1>5, <3>1, <3>2
             DEF CompanyInsert, ApplyFind, ApplyInsert, ApplyCount, ApplyPublish, StatusWrite, JobFail,
                 Doing, Applying
  <2>4. \A j \in Jobs : /\ Exists(j)' <=> Exists(j)
                        /\ Exists(j) => job'[j].advert = job[j].advert
    <3>1. CASE job' = job
      BY <3>1 DEF Exists
    <3>2. CASE ApplyCount(c)
      <4>1. /\ job \in JobTable /\ r.job \in Jobs /\ job[r.job] \in JobRow
            /\ job' = [job EXCEPT ![r.job].applicantsCount = @ + 1]
        BY <2>1, <3>2, AtStatement, RequestFields
           DEF ApplyCount, Doing, Holds, Exists, Applying, JobTypeInv, JobTypeOK, JobTable
      <4>2. LET new == [job[r.job] EXCEPT !.applicantsCount = @ + 1]
            IN  new \in JobRow /\ new.advert = job[r.job].advert
        BY <4>1 DEF JobRow
      <4>. QED BY <4>1, <4>2, JobRowAssumption DEF Exists, JobTable
    <3>. QED BY <1>5, <3>1, <3>2
             DEF CompanyInsert, ApplyFind, ApplyInsert, ApplyPublish, StatusWrite, JobFail, Hiring
  <2>. QED BY <2>1, <2>2, <2>3, <2>4, JobIndexElsewhere
<1>. QED BY <1>2, <1>3, <1>4, <1>5, JobIndexInsert, JobIndexPublish, JobIndexWrite
         DEF JobNext, JobProceed

\* Once nothing is on its way, a posting is in the index, closed or not, with its
\* advert if that never changed, unless its job.created failed or was dead-lettered.
THEOREM JobIndexIsFollowing == JobSpec => []IndexFollowsJob
<1>1. SearchInit /\ JobInit => JobIndexInv
  BY DEF JobInit, JobIndexInv, AnnouncersHoldRow, JobIndexLeads, Announcers, OnJob, Exists
<1>2. JobIndexInv => IndexFollowsJob
  <2>. SUFFICES ASSUME JobIndexInv, NEW j \in Jobs, Exists(j), Announcers(j) = {}, InStep(j),
                       j \notin untold
                PROVE  index[j] # None /\ (j \notin reworded => index[j] = job[j].advert)
    BY DEF IndexFollowsJob, Announcers
  <2>1. PICK doc \in Adverts : LastIs(j, doc) /\ (j \notin reworded => doc = job[j].advert)
    BY DEF JobIndexInv, JobIndexLeads, JobLeadsTo
  <2>2. index[j] = doc
    BY <2>1 DEF LastIs, InStep
  <2>. QED BY <2>1, <2>2, JobAssumption
<1>. QED BY <1>1, <1>2, JobStartsTyped, JobTypesInductive, JobIndexInductive, PTL DEF JobSpec
-----------------------------------------------------------------------------
(* search-service with the services that publish to it *)

\* What the three services share are the types of the index and its queue.
LEMMA TypesBeside ==
  ASSUME TypeInv, PostTypeInv, JobTypeInv, SearchTypeOK'
  PROVE  /\ UNCHANGED userVars => TypeInv'
         /\ UNCHANGED postVars => PostTypeInv'
         /\ UNCHANGED jobVars => JobTypeInv'
<1>1. UNCHANGED userVars => TypeInv'
  BY DEF userVars, TypeInv, TypeOK, LoadedInv, Loaded
<1>2. UNCHANGED postVars => PostTypeInv'
  BY DEF postVars, PostTypeInv, PostTypeOK, EditsLoaded, EditLoaded
<1>3. UNCHANGED jobVars => JobTypeInv'
  <2>. SUFFICES ASSUME UNCHANGED jobVars PROVE JobTypeInv'
    OBVIOUS
  <2>1. JobTypeOK'
    BY DEF jobVars, JobTypeInv, JobTypeOK
  <2>2. RequestsHold' /\ InsertsAlone' /\ CompaniesThere'
    BY DEF jobVars, JobTypeInv, RequestsHold, Holds, InsertsAlone, Apart, Doing, CompaniesThere,
           Exists, CanManage
  <2>. QED BY <2>1, <2>2 DEF JobTypeInv
<1>. QED BY <1>1, <1>2, <1>3

\* Beside each other, too, the services keep the types of their tables and requests
\* and of what they send.
THEOREM SearchTypeCorrect == SearchSpec => []SearchTypes
<1>. DEFINE Inv == TypeInv /\ PostTypeInv /\ JobTypeInv
<1>1. SearchServices => Inv
  BY InitTypes, PostInitTypes, JobStartsTyped DEF SearchServices
<1>2. Inv /\ [SearchNext]_<<searchVars, userVars, postVars, jobVars>> => Inv'
  <2>. SUFFICES ASSUME Inv, [SearchNext]_<<searchVars, userVars, postVars, jobVars>>
                PROVE  Inv'
    OBVIOUS
  <2>1. CASE UNCHANGED <<searchVars, userVars, postVars, jobVars>>
    BY <2>1, TypesBeside DEF TypeInv, TypeOK, SearchTypeOK, searchVars
  <2>2. CASE Next /\ UNCHANGED <<postVars, jobVars>>
    BY <2>2, TypesInductive, TypesBeside DEF TypeInv, TypeOK
  <2>3. CASE PostNext /\ UNCHANGED <<userVars, jobVars>>
    BY <2>3, PostTypesInductive, TypesBeside DEF PostTypeInv, PostTypeOK
  <2>4. CASE JobNext /\ UNCHANGED <<userVars, postVars>>
    BY <2>4, JobTypesInductive, TypesBeside DEF JobTypeInv, JobTypeOK
  <2>. QED BY <2>1, <2>2, <2>3, <2>4 DEF SearchNext
<1>3. Inv => SearchTypes
  BY DEF TypeInv, PostTypeInv, JobTypeInv, SearchTypes
<1>. QED BY <1>1, <1>2, <1>3, PTL DEF SearchSpec
=============================================================================
