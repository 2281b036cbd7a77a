------------------------- MODULE PostEngagement_proofs -------------------------
(***************************************************************************)
(* For any number of users, posts, comments and requests: the tables keep  *)
(* their types, a reply and its parent stay together, the counter of       *)
(* reactions drifts by the handlers that died and nothing else, the        *)
(* counter of comments is exact where nothing excuses it, and the author   *)
(* of a post hears of every reaction and comment of another user.          *)
(***************************************************************************)
EXTENDS PostEngagement, FiniteSetTheorems, TLAPS

USE EngagementAssumption, NoCommentAssumption

\* What a request has loaded: its user and post; the comment it replies to,
\* stores or removes, which is on the post of the request if it still exists.
Loaded(h) ==
  LET s == handler[h] IN
  /\ s.pc # "idle" => s.user \in Users /\ s.post \in Posts
  /\ s.pc \in CommentPCs \ {"comment.create"} => s.comment \in used
  /\ s.pc = "comment.create" /\ s.comment # None =>
       /\ s.comment \in used
       /\ comment[s.comment] # None => comment[s.comment].post = s.post
LoadedInv == \A h \in Handlers : Loaded(h)

\* Only keys that were given out have a row, and only finitely many were.
KeysUsed == IsFiniteSet(used) /\ \A c \in Comments : comment[c] # None => c \in used

TypeInv == TypeOK /\ LoadedInv /\ KeysUsed

\* A row of the comments table stays as it is or goes; a new one takes a new key.
RowsStay ==
  \A c \in Comments : comment'[c] # None => comment'[c] = comment[c] \/ c \notin used
-----------------------------------------------------------------------------
(* Types *)

\* A request that begins is the only one touched.
LEMMA StartFacts ==
  ASSUME TypeOK, NEW h \in Handlers, NEW pc \in PCs, NEW u \in Users, NEW p \in Posts,
         NEW c \in Comments \cup {None}, Start(h, pc, u, p, c)
  PROVE  /\ handler' \in [Handlers -> HandlerState]
         /\ handler'[h] = [pc |-> pc, user |-> u, post |-> p, comment |-> c, removed |-> 0]
         /\ \A g \in Handlers : g # h => handler'[g] = handler[g]
<1>1. [pc |-> pc, user |-> u, post |-> p, comment |-> c, removed |-> 0] \in HandlerState
  BY DEF HandlerState
<1>. QED BY <1>1 DEF Start, TypeOK

\* A request that moves on or ends is the only one touched, and keeps the rest.
LEMMA MoveFacts ==
  ASSUME TypeOK, NEW h \in Handlers, NEW pc \in PCs, Continue(h, pc) \/ Finish(h)
  PROVE  /\ handler' \in [Handlers -> HandlerState]
         /\ \/ Finish(h) /\ handler'[h] = Idle
            \/ handler'[h] = [handler[h] EXCEPT !.pc = pc]
         /\ \A g \in Handlers : g # h => handler'[g] = handler[g]
<1>1. Idle \in HandlerState /\ [handler[h] EXCEPT !.pc = pc] \in HandlerState
  BY DEF HandlerState, Idle, PCs, TypeOK
<1>. QED BY <1>1 DEF Continue, Finish, TypeOK

\* What the other requests have loaded stays true while keys stay used and rows
\* stay what they are.
LEMMA OthersLoaded ==
  ASSUME TypeOK, LoadedInv, KeysUsed, NEW h \in Handlers, Loaded(h)',
         \A g \in Handlers : g # h => handler'[g] = handler[g],
         used \subseteq used', RowsStay
  PROVE  LoadedInv'
<1>. SUFFICES ASSUME NEW g \in Handlers, g # h PROVE Loaded(g)'
  BY DEF LoadedInv
<1>1. handler'[g] = handler[g] /\ Loaded(g)
  BY DEF LoadedInv
<1>2. ASSUME handler[g].pc = "comment.create", handler[g].comment # None,
             comment'[handler[g].comment] # None
      PROVE  comment'[handler[g].comment].post = handler[g].post
  <2>1. handler[g].comment \in used
    BY <1>1, <1>2 DEF Loaded
  <2>2. comment'[handler[g].comment] = comment[handler[g].comment]
    BY <1>2, <2>1 DEF RowsStay, TypeOK
  <2>. QED BY <1>1, <1>2, <2>2 DEF Loaded
<1>. QED BY <1>1, <1>2 DEF Loaded

\* Where a step that leaves the comments alone leads.
LEMMA QuietTypes ==
  ASSUME TypeInv, NEW h \in Handlers, Loaded(h)',
         handler' \in [Handlers -> HandlerState],
         \A g \in Handlers : g # h => handler'[g] = handler[g],
         UNCHANGED <<comment, used>>
  PROVE  LoadedInv' /\ KeysUsed'
BY OthersLoaded DEF TypeInv, RowsStay, KeysUsed

\* Beginning a request keeps the types.
LEMMA BeginTypes ==
  ASSUME TypeInv, NEW h \in Handlers, Begin(h)
  PROVE  TypeInv'
<1>. USE DEF TypeInv
<1>1. ASSUME NEW u \in Users, NEW p \in Posts, ReactFindPost(h, u, p) \/ UnreactFindPost(h, u, p)
      PROVE  TypeInv'
  <2>1. PICK pc \in {"react.find", "unreact.delete"} : Start(h, pc, u, p, None)
    BY <1>1 DEF ReactFindPost, UnreactFindPost
  <2>2. pc \in PCs
    BY DEF PCs, ReactPCs
  <2>3. Loaded(h)'
    <3>1. handler'[h] = [pc |-> pc, user |-> u, post |-> p, comment |-> None, removed |-> 0]
      BY <2>1, <2>2, StartFacts
    <3>. QED BY <2>1, <3>1 DEF Loaded, CommentPCs
  <2>4. /\ handler' \in [Handlers -> HandlerState]
        /\ \A g \in Handlers : g # h => handler'[g] = handler[g]
    BY <2>1, <2>2, StartFacts
  <2>5. LoadedInv' /\ KeysUsed'
    BY <1>1, <2>3, <2>4, QuietTypes DEF ReactFindPost, UnreactFindPost, Histories
  <2>. QED BY <1>1, <2>4, <2>5 DEF ReactFindPost, UnreactFindPost, Histories, TypeOK
<1>2. ASSUME NEW u \in Users, NEW p \in Posts, NEW c \in used \cup {None},
             CommentFindPost(h, u, p, c)
      PROVE  TypeInv'
  <2>1. c \in Comments \cup {None} /\ (c # None => c \in used)
    BY DEF TypeOK
  <2>2. PICK pc \in {"comment.create", "comment.parent"} :
          Start(h, pc, u, p, c) /\ (pc = "comment.create" <=> c = None)
    BY <1>2 DEF CommentFindPost
  <2>3. pc \in PCs
    BY DEF PCs, CommentPCs
  <2>4. UNCHANGED <<comment, used>> /\ overlapped' \subseteq Posts
    BY <1>2 DEF CommentFindPost, NoteOverlap, TypeOK
  <2>5. Loaded(h)'
    <3>1. handler'[h] = [pc |-> pc, user |-> u, post |-> p, comment |-> c, removed |-> 0]
      BY <2>1, <2>2, <2>3, StartFacts
    <3>. QED BY <2>1, <2>2, <2>4, <3>1 DEF Loaded
  <2>6. /\ handler' \in [Handlers -> HandlerState]
        /\ \A g \in Handlers : g # h => handler'[g] = handler[g]
    BY <2>1, <2>2, <2>3, StartFacts
  <2>7. LoadedInv' /\ KeysUsed'
    BY <2>4, <2>5, <2>6, QuietTypes
  <2>. QED BY <1>2, <2>4, <2>6, <2>7 DEF CommentFindPost, TypeOK
<1>3. ASSUME NEW u \in Users, NEW c \in Comments, RemoveFind(h, u, c)
      PROVE  TypeInv'
  <2>1. comment[c].post \in Posts /\ c \in used
    BY <1>3 DEF RemoveFind, TypeOK, CommentRow, KeysUsed
  <2>2. Start(h, "remove.tally", u, comment[c].post, c) /\ "remove.tally" \in PCs
    BY <1>3 DEF RemoveFind, PCs, CommentPCs
  <2>3. UNCHANGED <<comment, used>> /\ overlapped' \subseteq Posts
    BY <1>3, <2>1 DEF RemoveFind, NoteOverlap, TypeOK
  <2>4. Loaded(h)'
    <3>1. handler'[h] = [pc |-> "remove.tally", user |-> u, post |-> comment[c].post, comment |-> c, removed |-> 0]
      BY <2>1, <2>2, StartFacts
    <3>. QED BY <2>1, <2>3, <3>1 DEF Loaded
  <2>5. /\ handler' \in [Handlers -> HandlerState]
        /\ \A g \in Handlers : g # h => handler'[g] = handler[g]
    BY <2>1, <2>2, StartFacts
  <2>6. LoadedInv' /\ KeysUsed'
    BY <2>3, <2>4, <2>5, QuietTypes
  <2>. QED BY <1>3, <2>3, <2>5, <2>6 DEF RemoveFind, TypeOK
<1>4. ASSUME NEW p \in Posts, PostRemoveFind(h, p)
      PROVE  TypeInv'
  <2>1. Start(h, "post.delete", Author[p], p, None) /\ "post.delete" \in PCs
        /\ Author[p] \in Users
    BY <1>4 DEF PostRemoveFind, PCs
  <2>2. Loaded(h)'
    <3>1. handler'[h] = [pc |-> "post.delete", user |-> Author[p], post |-> p, comment |-> None, removed |-> 0]
      BY <2>1, StartFacts
    <3>. QED BY <2>1, <3>1 DEF Loaded, CommentPCs
  <2>3. /\ handler' \in [Handlers -> HandlerState]
        /\ \A g \in Handlers : g # h => handler'[g] = handler[g]
    BY <2>1, StartFacts
  <2>4. LoadedInv' /\ KeysUsed'
    BY <1>4, <2>2, <2>3, QuietTypes DEF PostRemoveFind, Histories
  <2>. QED BY <1>4, <2>3, <2>4 DEF PostRemoveFind, Histories, TypeOK
<1>. QED BY <1>1, <1>2, <1>3, <1>4 DEF Begin

\* A request that moves on without touching the comments keeps what was loaded.
LEMMA QuietMove ==
  ASSUME TypeInv, NEW h \in Handlers, NEW pc \in PCs,
         handler[h].pc # "idle",
         pc \in CommentPCs \ {"comment.create"} => handler[h].comment \in used,
         pc = "comment.create" => Loaded(h) /\ At(h, "comment.parent")
           /\ (comment[handler[h].comment] # None
                 => comment[handler[h].comment].post = handler[h].post),
         Continue(h, pc) \/ Finish(h),
         UNCHANGED <<comment, used>>
  PROVE  handler' \in [Handlers -> HandlerState] /\ LoadedInv' /\ KeysUsed'
<1>. USE DEF TypeInv
<1>1. handler[h] \in HandlerState /\ Loaded(h)
  BY DEF TypeOK, LoadedInv
<1>2. CASE Finish(h) /\ handler'[h] = Idle
  <2>1. Loaded(h)'
    BY <1>2 DEF Loaded, Idle, CommentPCs
  <2>. QED BY <2>1, MoveFacts, QuietTypes
<1>3. CASE handler'[h] = [handler[h] EXCEPT !.pc = pc]
  <2>1. /\ handler'[h].pc = pc /\ handler'[h].user = handler[h].user
        /\ handler'[h].post = handler[h].post /\ handler'[h].comment = handler[h].comment
    BY <1>1, <1>3 DEF HandlerState
  <2>2. Loaded(h)'
    BY <1>1, <2>1 DEF Loaded, At, CommentPCs
  <2>. QED BY <2>2, MoveFacts, QuietTypes
<1>. QED BY <1>2, <1>3, MoveFacts

\* The steps of a reaction keep the types.
LEMMA ReactTypes ==
  ASSUME TypeInv, NEW h \in Handlers,
         \/ ReactFind(h) \/ ReactCreate(h) \/ ReactCount(h) \/ ReactPublish(h)
         \/ UnreactDelete(h) \/ UnreactCount(h) \/ PostRemoveWrite(h)
  PROVE  TypeInv'
<1>. USE DEF TypeInv
<1>. DEFINE s == handler[h]
<1>1. PICK pc \in ReactPCs : Continue(h, pc) \/ Finish(h)
  BY DEF ReactFind, ReactCreate, ReactCount, ReactPublish, UnreactDelete, UnreactCount,
         PostRemoveWrite, NotifyNext, ReactPCs
<1>2. s.pc # "idle" /\ UNCHANGED <<comment, used>>
  BY DEF ReactFind, ReactCreate, ReactCount, ReactPublish, UnreactDelete, UnreactCount,
         PostRemoveWrite, At, Histories
<1>3. pc \in PCs /\ pc \notin CommentPCs
  BY DEF PCs, ReactPCs, CommentPCs
<1>4. handler' \in [Handlers -> HandlerState] /\ LoadedInv' /\ KeysUsed'
  BY <1>1, <1>2, <1>3, QuietMove DEF CommentPCs
<1>5. s.user \in Users /\ s.post \in Posts
  BY <1>2 DEF LoadedInv, Loaded
<1>6. reactors' \in [Posts -> SUBSET Users] /\ likes' \in [Posts -> Int]
  BY <1>5 DEF ReactFind, ReactCreate, ReactCount, ReactPublish, UnreactDelete, UnreactCount,
              PostRemoveWrite, TypeOK
<1>7. deleted' \subseteq Posts /\ told' \subseteq (Posts \X Users) \cup Comments
  BY <1>5 DEF ReactFind, ReactCreate, ReactCount, ReactPublish, UnreactDelete, UnreactCount,
              PostRemoveWrite, TypeOK
<1>8. UNCHANGED <<commentsCount, failures, deep, overlapped>>
  BY DEF ReactFind, ReactCreate, ReactCount, ReactPublish, UnreactDelete, UnreactCount,
         PostRemoveWrite, Histories
<1>. QED BY <1>2, <1>4, <1>6, <1>7, <1>8 DEF TypeOK

\* Storing a comment keeps the types: its key is new.
LEMMA CreateTypes ==
  ASSUME TypeInv, NEW h \in Handlers, CommentCreate(h)
  PROVE  TypeInv'
<1>. USE DEF TypeInv
<1>. DEFINE s == handler[h]
<1>1. s \in HandlerState /\ Loaded(h) /\ s.pc = "comment.create"
  BY DEF TypeOK, LoadedInv, CommentCreate, At
<1>2. s.user \in Users /\ s.post \in Posts
  BY <1>1 DEF Loaded
<1>3. CASE Finish(h) /\ UNCHANGED <<comment, used, deep>>
  <2>1. handler' \in [Handlers -> HandlerState] /\ LoadedInv' /\ KeysUsed'
    BY <1>1, <1>3, QuietMove, "idle" \in PCs DEF PCs, CommentPCs
  <2>. QED BY <1>3, <2>1 DEF CommentCreate, TypeOK
<1>4. ASSUME NEW c \in Comments \ used,
             comment' = [comment EXCEPT ![c] = [post |-> s.post, author |-> s.user,
                                                parent |-> s.comment]],
             used' = used \cup {c},
             handler' = [handler EXCEPT ![h].pc = "comment.count", ![h].comment = c],
             deep' \in {deep, deep \cup {s.post}}
      PROVE  TypeInv'
  <2>1. [post |-> s.post, author |-> s.user, parent |-> s.comment] \in CommentRow
    BY <1>1, <1>2 DEF CommentRow, HandlerState
  <2>2. comment' \in [Comments -> CommentRow \cup {None}] /\ RowsStay
    BY <1>4, <2>1 DEF RowsStay, TypeOK
  <2>3. /\ handler'[h] = [s EXCEPT !.pc = "comment.count", !.comment = c]
        /\ \A g \in Handlers : g # h => handler'[g] = handler[g]
        /\ handler' \in [Handlers -> HandlerState]
    <3>1. [s EXCEPT !.pc = "comment.count", !.comment = c] \in HandlerState
      BY <1>1 DEF HandlerState, PCs, CommentPCs
    <3>2. handler' = [handler EXCEPT ![h] = [s EXCEPT !.pc = "comment.count", !.comment = c]]
      BY <1>1, <1>4 DEF TypeOK, HandlerState
    <3>. QED BY <3>1, <3>2 DEF TypeOK
  <2>4. /\ handler'[h].pc = "comment.count" /\ handler'[h].comment = c
        /\ handler'[h].user = s.user /\ handler'[h].post = s.post
    BY <1>1, <2>3 DEF HandlerState
  <2>5. Loaded(h)'
    BY <1>2, <1>4, <2>4 DEF Loaded
  <2>6. LoadedInv'
    BY <1>4, <2>2, <2>3, <2>5, OthersLoaded
  <2>7. IsFiniteSet(used')
    BY <1>4, FS_AddElement DEF KeysUsed
  <2>8. KeysUsed'
    BY <1>4, <2>7 DEF KeysUsed, TypeOK
  <2>. QED BY <1>2, <1>4, <2>2, <2>3, <2>6, <2>8 DEF CommentCreate, TypeOK
<1>. QED BY <1>3, <1>4 DEF CommentCreate

\* The other steps of a comment keep the types.
LEMMA CommentTypes ==
  ASSUME TypeInv, NEW h \in Handlers,
         CommentFindParent(h) \/ CommentCount(h) \/ CommentPublish(h)
         \/ RemoveCount(h) \/ Fail(h)
  PROVE  TypeInv'
<1>. USE DEF TypeInv
<1>. DEFINE s == handler[h]
<1>0. s \in HandlerState /\ Loaded(h) /\ s.pc # "idle"
  BY DEF TypeOK, LoadedInv, CommentFindParent, CommentCount, CommentPublish, RemoveCount,
         Fail, At
<1>1. s.user \in Users /\ s.post \in Posts
  BY <1>0 DEF Loaded
<1>2. CASE CommentFindParent(h)
  <2>1. s.comment \in used
    BY <1>0, <1>2 DEF CommentFindParent, At, Loaded, CommentPCs
  <2>2. Finish(h) \/ (Continue(h, "comment.create") /\ s.comment \in CommentsOf(s.post))
    BY <1>2 DEF CommentFindParent
  <2>3. CASE Finish(h)
    <3>1. handler' \in [Handlers -> HandlerState] /\ LoadedInv' /\ KeysUsed'
      BY <1>0, <1>2, <2>3, QuietMove, "idle" \in PCs
         DEF CommentFindParent, Histories, PCs, CommentPCs
    <3>. QED BY <1>2, <3>1 DEF CommentFindParent, Histories, TypeOK
  <2>4. CASE Continue(h, "comment.create") /\ s.comment \in CommentsOf(s.post)
    <3>1. "comment.create" \in PCs
      BY DEF PCs, CommentPCs
    <3>2. handler' \in [Handlers -> HandlerState] /\ LoadedInv' /\ KeysUsed'
      BY <1>0, <1>2, <2>4, <3>1, QuietMove DEF CommentFindParent, Histories, CommentsOf
    <3>. QED BY <1>2, <3>2 DEF CommentFindParent, Histories, TypeOK
  <2>. QED BY <2>2, <2>3, <2>4
<1>3. CASE CommentCount(h) \/ CommentPublish(h) \/ RemoveCount(h)
  <2>1. s.comment \in used /\ UNCHANGED <<comment, used>>
    BY <1>0, <1>3 DEF CommentCount, CommentPublish, RemoveCount, At, Loaded, CommentPCs,
                      Histories
  <2>2. Finish(h) \/ Continue(h, "comment.publish")
    BY <1>3 DEF CommentCount, CommentPublish, RemoveCount, NotifyNext
  <2>3. "comment.publish" \in PCs
    BY DEF PCs, CommentPCs
  <2>4. handler' \in [Handlers -> HandlerState] /\ LoadedInv' /\ KeysUsed'
    BY <1>0, <2>1, <2>2, <2>3, QuietMove
  <2>5. commentsCount' \in [Posts -> Int]
    BY <1>0, <1>1, <1>3 DEF CommentCount, CommentPublish, RemoveCount, HandlerState, TypeOK
  <2>6. told' \subseteq (Posts \X Users) \cup Comments
    BY <1>3, <2>1 DEF CommentCount, CommentPublish, RemoveCount, TypeOK
  <2>. QED BY <1>3, <2>1, <2>4, <2>5, <2>6
           DEF CommentCount, CommentPublish, RemoveCount, Histories, TypeOK
<1>4. CASE Fail(h)
  <2>1. handler' \in [Handlers -> HandlerState] /\ LoadedInv' /\ KeysUsed'
    BY <1>0, <1>4, QuietMove, "idle" \in PCs DEF Fail, PCs, CommentPCs
  <2>2. failures' \in [Posts -> 0 .. MaxFailures]
    BY <1>1, <1>4 DEF Fail, TypeOK
  <2>. QED BY <1>4, <2>1, <2>2 DEF Fail, TypeOK
<1>. QED BY <1>2, <1>3, <1>4

\* Reading the replies and deleting a thread keep the types.
LEMMA RemoveTypes ==
  ASSUME TypeInv, NEW h \in Handlers, RemoveTally(h) \/ RemoveDelete(h)
  PROVE  TypeInv'
<1>. USE DEF TypeInv
<1>. DEFINE s == handler[h]
<1>1. s \in HandlerState /\ Loaded(h) /\ s.pc \in {"remove.tally", "remove.delete"}
  BY DEF TypeOK, LoadedInv, RemoveTally, RemoveDelete, At
<1>2. s.user \in Users /\ s.post \in Posts /\ s.comment \in used
  BY <1>1 DEF Loaded, CommentPCs
<1>3. \A pc \in {"remove.delete", "remove.count"} : pc \in PCs /\ pc \in CommentPCs
  BY DEF PCs, CommentPCs
<1>4. CASE RemoveTally(h)
  <2>. DEFINE n == Cardinality(Replies(s.comment)) + 1
  <2>1. n \in Nat
    <3>1. Replies(s.comment) \subseteq used
      BY DEF Replies, KeysUsed
    <3>. QED BY <3>1, FS_Subset, FS_CardinalityType DEF KeysUsed
  <2>2. [s EXCEPT !.pc = "remove.delete", !.removed = n] \in HandlerState
    BY <1>1, <1>3, <2>1 DEF HandlerState
  <2>3. handler' = [handler EXCEPT ![h] = [s EXCEPT !.pc = "remove.delete", !.removed = n]]
    BY <1>1, <1>4 DEF RemoveTally, TypeOK, HandlerState
  <2>4. /\ handler' \in [Handlers -> HandlerState]
        /\ handler'[h] = [s EXCEPT !.pc = "remove.delete", !.removed = n]
        /\ \A g \in Handlers : g # h => handler'[g] = handler[g]
    BY <2>2, <2>3 DEF TypeOK
  <2>5. /\ handler'[h].pc = "remove.delete" /\ handler'[h].user = s.user
        /\ handler'[h].post = s.post /\ handler'[h].comment = s.comment
    BY <1>1, <2>4 DEF HandlerState
  <2>6. UNCHANGED <<comment, used>>
    BY <1>4 DEF RemoveTally, Histories
  <2>7. Loaded(h)'
    BY <1>2, <2>5, <2>6 DEF Loaded
  <2>8. LoadedInv' /\ KeysUsed'
    BY <2>4, <2>6, <2>7, QuietTypes
  <2>. QED BY <1>4, <2>4, <2>8 DEF RemoveTally, Histories, TypeOK
<1>5. CASE RemoveDelete(h)
  <2>1. /\ comment' \in [Comments -> CommentRow \cup {None}]
        /\ \A c \in Comments : comment'[c] \in {comment[c], None}
        /\ UNCHANGED used
    BY <1>5 DEF RemoveDelete, Histories, TypeOK
  <2>2. RowsStay
    BY <2>1 DEF RowsStay
  <2>3. /\ handler' \in [Handlers -> HandlerState]
        /\ \A g \in Handlers : g # h => handler'[g] = handler[g]
        /\ handler'[h] = [s EXCEPT !.pc = "remove.count"] \/ handler'[h] = Idle
    BY <1>3, <1>5, MoveFacts DEF RemoveDelete
  <2>4. \/ handler'[h].pc = "idle"
        \/ /\ handler'[h].pc = "remove.count" /\ handler'[h].user = s.user
           /\ handler'[h].post = s.post /\ handler'[h].comment = s.comment
    BY <1>1, <2>3 DEF HandlerState, Idle
  <2>5. Loaded(h)'
    BY <1>2, <2>1, <2>4 DEF Loaded, CommentPCs
  <2>6. LoadedInv'
    BY <2>1, <2>2, <2>3, <2>5, OthersLoaded
  <2>7. KeysUsed'
    BY <2>1 DEF KeysUsed
  <2>. QED BY <1>5, <2>1, <2>3, <2>6, <2>7 DEF RemoveDelete, Histories, TypeOK
<1>. QED BY <1>4, <1>5

\* Every step keeps the types and what requests have loaded.
LEMMA TypesInductive ==
  ASSUME TypeInv, [Next]_vars
  PROVE  TypeInv'
<1>1. CASE UNCHANGED vars
  BY <1>1 DEF vars, TypeInv, TypeOK, LoadedInv, Loaded, KeysUsed
<1>2. CASE Next
  BY <1>2, BeginTypes, ReactTypes, CreateTypes, CommentTypes, RemoveTypes DEF Next, Proceed
<1>. QED BY <1>1, <1>2

\* They hold when the service starts.
LEMMA InitTypes == Init => TypeInv
<1>. SUFFICES ASSUME Init PROVE TypeInv
  OBVIOUS
<1>1. Idle \in HandlerState
  BY DEF Idle, HandlerState, PCs
<1>2. TypeOK
  BY <1>1 DEF Init, TypeOK
<1>3. LoadedInv
  BY DEF Init, LoadedInv, Loaded, Idle, CommentPCs
<1>4. KeysUsed
  BY FS_EmptySet DEF Init, KeysUsed
<1>. QED BY <1>2, <1>3, <1>4 DEF TypeInv

\* Tables, counters and requests keep their types, keys are given out once, and
\* a request holds what its next statement writes.
THEOREM TypeCorrect == Spec => [](TypeOK /\ LoadedInv /\ KeysUsed)
BY InitTypes, TypesInductive, PTL DEF Spec, TypeInv

-----------------------------------------------------------------------------
(* Replies *)

\* Only two steps write the comments table.
LEMMA CommentsWritten ==
  ASSUME [Next]_vars, \A h \in Handlers : ~CommentCreate(h) /\ ~RemoveDelete(h)
  PROVE  UNCHANGED comment
BY DEF vars, Next, Begin, Proceed, ReactFindPost, UnreactFindPost, CommentFindPost,
       RemoveFind, PostRemoveFind, ReactFind, ReactCreate, ReactCount, ReactPublish,
       UnreactDelete, UnreactCount, CommentFindParent, CommentCount, CommentPublish,
       RemoveTally, RemoveCount, PostRemoveWrite, Fail

\* The cascade takes every reply to a comment it takes.
LEMMA SubtreeClosed ==
  ASSUME NEW c \in Comments, NEW d \in Subtree(c), NEW e \in Replies(d)
  PROVE  e \in Subtree(c)
BY DEF Subtree, Replies

\* A reply and its parent are comments of one post, both there: the foreign key
\* refuses a parent that went since it was read, and removes replies with it
\* (comment.service.ts create, remove).
THEOREM RepliesKeepTheirParent == Spec => []RepliesHaveTheirParent
<1>1. Init => RepliesHaveTheirParent
  BY DEF Init, RepliesHaveTheirParent
<1>2. ASSUME TypeInv, RepliesHaveTheirParent, [Next]_vars
      PROVE  RepliesHaveTheirParent'
  <2>1. CASE UNCHANGED comment
    BY <1>2, <2>1 DEF RepliesHaveTheirParent
  <2>2. ASSUME NEW h \in Handlers, CommentCreate(h), ~UNCHANGED comment
        PROVE  RepliesHaveTheirParent'
    <3>. DEFINE s == handler[h]
                row == [post |-> s.post, author |-> s.user, parent |-> s.comment]
    <3>1. PICK k \in Comments \ used : comment' = [comment EXCEPT ![k] = row]
      BY <2>2 DEF CommentCreate
    <3>2. s.comment # None =>
            /\ s.comment \in Comments /\ comment[s.comment] # None
            /\ comment[s.comment].post = s.post
      BY <1>2, <2>2 DEF CommentCreate, At, TypeInv, TypeOK, LoadedInv, Loaded
    <3>3. comment[k] = None
      BY <1>2 DEF TypeInv, KeysUsed
    <3>4. ASSUME NEW c \in Comments, comment'[c] # None, comment'[c].parent # None
          PROVE  /\ comment'[comment'[c].parent] # None
                 /\ comment'[comment'[c].parent].post = comment'[c].post
      <4>1. CASE c = k
        <5>1. comment'[k] = row
          BY <1>2, <3>1 DEF TypeInv, TypeOK
        <5>2. s.comment # k
          BY <3>2, <3>3, <4>1, <3>4, <5>1
        <5>. QED BY <1>2, <3>1, <3>2, <3>4, <4>1, <5>1, <5>2 DEF TypeInv, TypeOK
      <4>2. CASE c # k
        <5>1. comment'[c] = comment[c]
          BY <1>2, <3>1, <4>2 DEF TypeInv, TypeOK
        <5>2. comment[comment[c].parent] # None /\ comment[c].parent \in Comments
          BY <1>2, <3>4, <5>1 DEF RepliesHaveTheirParent, TypeInv, TypeOK, CommentRow
        <5>3. comment'[comment[c].parent] = comment[comment[c].parent]
          BY <1>2, <3>1, <3>3, <5>2 DEF TypeInv, TypeOK
        <5>. QED BY <1>2, <3>4, <5>1, <5>2, <5>3 DEF RepliesHaveTheirParent
      <4>. QED BY <4>1, <4>2
    <3>. QED BY <3>4 DEF RepliesHaveTheirParent
  <2>3. ASSUME NEW h \in Handlers, RemoveDelete(h)
        PROVE  RepliesHaveTheirParent'
    <3>. DEFINE gone == Subtree(handler[h].comment)
    <3>1. handler[h].comment \in Comments
      BY <1>2, <2>3 DEF RemoveDelete, At, TypeInv, TypeOK, LoadedInv, Loaded, CommentPCs
    <3>2. comment' = [c \in Comments |-> IF c \in gone THEN None ELSE comment[c]]
      BY <2>3 DEF RemoveDelete
    <3>3. ASSUME NEW c \in Comments, comment'[c] # None, comment'[c].parent # None
          PROVE  /\ comment'[comment'[c].parent] # None
                 /\ comment'[comment'[c].parent].post = comment'[c].post
      <4>1. c \notin gone /\ comment'[c] = comment[c]
        BY <3>2, <3>3
      <4>2. /\ comment[c].parent \in Comments /\ comment[comment[c].parent] # None
            /\ comment[comment[c].parent].post = comment[c].post
        BY <1>2, <3>3, <4>1 DEF RepliesHaveTheirParent, TypeInv, TypeOK, CommentRow
      <4>3. c \in Replies(comment[c].parent)
        BY <3>3, <4>1 DEF Replies
      <4>4. comment[c].parent \notin gone
        BY <3>1, <4>1, <4>3, SubtreeClosed
      <4>. QED BY <3>2, <4>1, <4>2, <4>4
    <3>. QED BY <3>3 DEF RepliesHaveTheirParent
  <2>. QED BY <1>2, <2>1, <2>2, <2>3, CommentsWritten
<1>. QED BY <1>1, <1>2, TypeCorrect, PTL DEF Spec, TypeInv
-----------------------------------------------------------------------------
(* The counter of reactions *)

\* Requests of a post that are at one statement; whether one request is.
Waiting(p, pc) == Cardinality(On(p, {pc}))
Counts(state, p, pc) == IF state.post = p /\ state.pc = pc THEN 1 ELSE 0
CountPCs == {"react.count", "unreact.count"}

\* The counter, once the requests that owe it a step have taken it, is the
\* number of reactions but for the requests that died.
Drift(p) == likes[p] + Waiting(p, "react.count") - Waiting(p, "unreact.count")
              - Cardinality(reactors[p])
LikesInv == \A p \in Posts : -failures[p] <= Drift(p) /\ Drift(p) <= failures[p]

\* The size of a finite set, by whether it holds an element.
LEMMA SizeWithout ==
  ASSUME NEW S, IsFiniteSet(S), NEW x
  PROVE  /\ Cardinality(S \ {x}) \in Nat
         /\ Cardinality(S) = IF x \in S THEN Cardinality(S \ {x}) + 1
                                       ELSE Cardinality(S \ {x})
<1>1. Cardinality(S) \in Nat /\ Cardinality(S \ {x}) \in Nat
  <2>1. IsFiniteSet(S \ {x})
    BY FS_RemoveElement
  <2>. QED BY <2>1, FS_CardinalityType
<1>2. Cardinality(S \ {x}) = IF x \in S THEN Cardinality(S) - 1 ELSE Cardinality(S)
  BY FS_RemoveElement
<1>. QED BY <1>1, <1>2

\* One request moves: it joins or leaves the requests at a statement.
LEMMA WaitingMoves ==
  ASSUME TypeOK, NEW h \in Handlers, NEW p \in Posts, NEW pc \in PCs,
         \A g \in Handlers : g # h => handler'[g] = handler[g]
  PROVE  /\ Waiting(p, pc) \in Nat
         /\ Waiting(p, pc)' = Waiting(p, pc)
              + Counts(handler'[h], p, pc) - Counts(handler[h], p, pc)
<1>. DEFINE here == {g \in Handlers : handler[g].post = p /\ handler[g].pc = pc}
            there == {g \in Handlers : handler'[g].post = p /\ handler'[g].pc = pc}
<1>1. IsFiniteSet(here) /\ IsFiniteSet(there)
  BY FS_Subset
<1>2. Waiting(p, pc) = Cardinality(here) /\ Waiting(p, pc)' = Cardinality(there)
  <2>1. On(p, {pc}) = here /\ On(p, {pc})' = there
    BY DEF On
  <2>. QED BY <2>1 DEF Waiting
<1>3. /\ h \in here <=> handler[h].post = p /\ handler[h].pc = pc
      /\ h \in there <=> handler'[h].post = p /\ handler'[h].pc = pc
      /\ here \ {h} = there \ {h}
  OBVIOUS
<1>. HIDE DEF here, there
<1>4. Cardinality(here) \in Nat /\ Cardinality(there) \in Nat
  BY <1>1, FS_CardinalityType
<1>5. here \ {h} = there \ {h}
  BY <1>3
<1>6. /\ Cardinality(here) = IF h \in here THEN Cardinality(here \ {h}) + 1
                                           ELSE Cardinality(here \ {h})
      /\ Cardinality(there) = IF h \in there THEN Cardinality(here \ {h}) + 1
                                             ELSE Cardinality(here \ {h})
      /\ Cardinality(here \ {h}) \in Nat
  BY <1>1, <1>5, SizeWithout
<1>7. Cardinality(there) = Cardinality(here) + (IF h \in there THEN 1 ELSE 0)
                                            - (IF h \in here THEN 1 ELSE 0)
  <2>1. CASE h \in here /\ h \in there
    BY <1>4, <1>6, <2>1
  <2>2. CASE h \in here /\ h \notin there
    BY <1>4, <1>6, <2>2
  <2>3. CASE h \notin here /\ h \in there
    BY <1>4, <1>6, <2>3
  <2>4. CASE h \notin here /\ h \notin there
    BY <1>4, <1>6, <2>4
  <2>. QED BY <2>1, <2>2, <2>3, <2>4
<1>. QED BY <1>2, <1>3, <1>4, <1>7 DEF Counts

\* A request that was at no counter statement and goes to none.
LEMMA OffTheCounter ==
  ASSUME TypeInv, LikesInv, NEW h \in Handlers,
         \A g \in Handlers : g # h => handler'[g] = handler[g],
         handler[h].pc \notin CountPCs, handler'[h].pc \notin CountPCs,
         UNCHANGED <<likes, reactors, failures>>
  PROVE  LikesInv'
<1>. SUFFICES ASSUME NEW p \in Posts PROVE (-failures[p] <= Drift(p) /\ Drift(p) <= failures[p])'
  BY DEF LikesInv
<1>1. \A pc \in CountPCs : pc \in PCs /\ Counts(handler[h], p, pc) = 0
                                        /\ Counts(handler'[h], p, pc) = 0
  BY DEF Counts, CountPCs, PCs, ReactPCs
<1>2. \A pc \in CountPCs : Waiting(p, pc)' = Waiting(p, pc)
  BY <1>1, WaitingMoves DEF TypeInv
<1>3. Drift(p)' = Drift(p)
  BY <1>2 DEF Drift, CountPCs
<1>. QED BY <1>3 DEF LikesInv

\* What keeps the drift of every post within its failures: the drift of one
\* post moves by no more than the failures it gains.
LEMMA DriftBounded ==
  ASSUME TypeInv, LikesInv, NEW p \in Posts,
         Drift(p) \in Int, Drift(p)' \in Int, failures'[p] \in Nat,
         \/ Drift(p)' = Drift(p) /\ failures'[p] = failures[p]
         \/ Drift(p)' - Drift(p) \in {-1, 0, 1} /\ failures'[p] = failures[p] + 1
  PROVE  (-failures[p] <= Drift(p) /\ Drift(p) <= failures[p])'
<1>1. failures[p] \in Nat /\ -failures[p] <= Drift(p) /\ Drift(p) <= failures[p]
  BY DEF LikesInv, TypeInv, TypeOK
<1>. QED BY <1>1

\* The sets the counter is compared with are finite.
LEMMA SizesAreNumbers ==
  ASSUME TypeInv, NEW p \in Posts
  PROVE  IsFiniteSet(reactors[p]) /\ Cardinality(reactors[p]) \in Nat
BY FS_Subset, FS_CardinalityType DEF TypeInv, TypeOK

\* How a step of a request moves the drift of its post.
Change(h, p) ==
  (likes'[p] - likes[p])
    + (Counts(handler'[h], p, "react.count") - Counts(handler[h], p, "react.count"))
    - (Counts(handler'[h], p, "unreact.count") - Counts(handler[h], p, "unreact.count"))
    - (Cardinality(reactors'[p]) - Cardinality(reactors[p]))

\* A step that pays for what it does to its post, and touches no other.
LEMMA Balanced ==
  ASSUME TypeInv, TypeInv', LikesInv, NEW h \in Handlers, NEW q \in Posts,
         \A g \in Handlers : g # h => handler'[g] = handler[g],
         handler[h].post = q, handler'[h].post \in {q, None},
         \A p \in Posts \ {q} : /\ likes'[p] = likes[p] /\ reactors'[p] = reactors[p]
                                /\ failures'[p] = failures[p],
         \/ Change(h, q) = 0 /\ failures'[q] = failures[q]
         \/ Change(h, q) \in {-1, 0, 1} /\ failures'[q] = failures[q] + 1
  PROVE  LikesInv'
<1>. SUFFICES ASSUME NEW p \in Posts PROVE (-failures[p] <= Drift(p) /\ Drift(p) <= failures[p])'
  BY DEF LikesInv
<1>1. "react.count" \in PCs /\ "unreact.count" \in PCs
  BY DEF PCs, ReactPCs
<1>2. /\ Waiting(p, "react.count") \in Nat /\ Waiting(p, "unreact.count") \in Nat
      /\ Waiting(p, "react.count")' = Waiting(p, "react.count")
           + Counts(handler'[h], p, "react.count") - Counts(handler[h], p, "react.count")
      /\ Waiting(p, "unreact.count")' = Waiting(p, "unreact.count")
           + Counts(handler'[h], p, "unreact.count") - Counts(handler[h], p, "unreact.count")
  BY <1>1, WaitingMoves DEF TypeInv
<1>3. \A pc \in CountPCs : Counts(handler'[h], p, pc) \in Int /\ Counts(handler[h], p, pc) \in Int
  BY DEF Counts
<1>4. /\ likes[p] \in Int /\ likes'[p] \in Int /\ failures'[p] \in Nat
      /\ Cardinality(reactors[p]) \in Nat /\ Cardinality(reactors'[p]) \in Nat
  <2>1. Cardinality(reactors'[p]) \in Nat
    BY FS_Subset, FS_CardinalityType DEF TypeInv, TypeOK
  <2>. QED BY <2>1, SizesAreNumbers DEF TypeInv, TypeOK
<1>5. Drift(p) \in Int /\ Drift(p)' \in Int /\ Drift(p)' = Drift(p) + Change(h, p)
  BY <1>2, <1>3, <1>4 DEF Drift, Change, CountPCs
<1>6. CASE p = q
  <2>1. Change(h, q) \in Int
    BY <1>3, <1>4, <1>6 DEF Change, CountPCs
  <2>. QED BY <1>4, <1>5, <1>6, <2>1, DriftBounded
<1>7. CASE p # q
  <2>1. \A pc \in CountPCs : Counts(handler'[h], p, pc) = 0 /\ Counts(handler[h], p, pc) = 0
    BY <1>7 DEF Counts
  <2>2. Change(h, p) = 0
    BY <1>4, <1>7, <2>1 DEF Change, CountPCs
  <2>. QED BY <1>4, <1>5, <1>7, <2>2, DriftBounded
<1>. QED BY <1>6, <1>7

\* The steps that move the counter or owe it a move.
LEMMA LikesMoved ==
  ASSUME TypeInv, TypeInv', LikesInv, NEW h \in Handlers,
         \/ ReactCreate(h) /\ handler[h].user \notin reactors[handler[h].post]
         \/ UnreactDelete(h) /\ handler[h].user \in reactors[handler[h].post]
         \/ ReactCount(h) \/ UnreactCount(h) \/ Fail(h)
  PROVE  LikesInv'
<1>. DEFINE s == handler[h]
            q == handler[h].post
            u == handler[h].user
<1>1. s \in HandlerState /\ q \in Posts /\ u \in Users /\ s.pc # "idle"
  BY DEF TypeInv, TypeOK, LoadedInv, Loaded, At, ReactCreate, UnreactDelete, ReactCount,
         UnreactCount, Fail
<1>2. /\ likes[q] \in Int /\ IsFiniteSet(reactors[q]) /\ Cardinality(reactors[q]) \in Nat
      /\ reactors \in [Posts -> SUBSET Users] /\ likes \in [Posts -> Int]
      /\ failures \in [Posts -> 0 .. MaxFailures]
  BY <1>1, SizesAreNumbers DEF TypeInv, TypeOK
<1>3. /\ \A pc \in PCs : Continue(h, pc) \/ Finish(h) =>
            \A g \in Handlers : g # h => handler'[g] = handler[g]
      /\ \A pc \in PCs : Continue(h, pc) => handler'[h].pc = pc /\ handler'[h].post = q
      /\ Finish(h) => handler'[h].pc = "idle" /\ handler'[h].post = None
  BY <1>1 DEF Continue, Finish, Idle, TypeInv, TypeOK, HandlerState
<1>4. {"idle", "react.count", "react.publish", "unreact.count"} \subseteq PCs
  BY DEF PCs, ReactPCs
<1>5. CASE ReactCreate(h) /\ u \notin reactors[q]
  <2>1. /\ reactors' = [reactors EXCEPT ![q] = @ \cup {u}]
        /\ UNCHANGED <<likes, failures>> /\ s.pc = "react.create" /\ Continue(h, "react.count")
    BY <1>5 DEF ReactCreate, Histories, At
  <2>2. /\ handler'[h].pc = "react.count" /\ handler'[h].post = q
        /\ \A g \in Handlers : g # h => handler'[g] = handler[g]
    BY <1>3, <1>4, <2>1
  <2>3. Cardinality(reactors'[q]) = Cardinality(reactors[q]) + 1
    BY <1>1, <1>2, <1>5, <2>1, FS_AddElement
  <2>4. Change(h, q) = 0
    BY <1>2, <2>1, <2>2, <2>3 DEF Change, Counts
  <2>5. \A p \in Posts \ {q} : reactors'[p] = reactors[p]
    BY <1>2, <2>1
  <2>. QED BY <1>1, <2>1, <2>2, <2>4, <2>5, Balanced
<1>6. CASE UnreactDelete(h) /\ u \in reactors[q]
  <2>1. /\ reactors' = [reactors EXCEPT ![q] = @ \ {u}]
        /\ UNCHANGED <<likes, failures>> /\ s.pc = "unreact.delete" /\ Continue(h, "unreact.count")
    BY <1>6 DEF UnreactDelete, Histories, At
  <2>2. /\ handler'[h].pc = "unreact.count" /\ handler'[h].post = q
        /\ \A g \in Handlers : g # h => handler'[g] = handler[g]
    BY <1>3, <1>4, <2>1
  <2>3. Cardinality(reactors'[q]) = Cardinality(reactors[q]) - 1
    BY <1>1, <1>2, <1>6, <2>1, FS_RemoveElement
  <2>4. Change(h, q) = 0
    BY <1>2, <2>1, <2>2, <2>3 DEF Change, Counts
  <2>5. \A p \in Posts \ {q} : reactors'[p] = reactors[p]
    BY <1>2, <2>1
  <2>. QED BY <1>1, <2>1, <2>2, <2>4, <2>5, Balanced
<1>7. CASE ReactCount(h)
  <2>1. /\ likes' = [likes EXCEPT ![q] = @ + 1]
        /\ UNCHANGED <<reactors, failures>> /\ s.pc = "react.count"
        /\ Continue(h, "react.publish") \/ Finish(h)
    BY <1>7 DEF ReactCount, NotifyNext, Histories, At
  <2>2. /\ handler'[h].pc \notin CountPCs /\ handler'[h].post \in {q, None}
        /\ \A g \in Handlers : g # h => handler'[g] = handler[g]
    BY <1>3, <1>4, <2>1 DEF CountPCs
  <2>3. likes'[q] = likes[q] + 1 /\ \A p \in Posts \ {q} : likes'[p] = likes[p]
    BY <1>1, <1>2, <2>1
  <2>4. Change(h, q) = 0
    BY <1>2, <2>1, <2>2, <2>3 DEF Change, Counts, CountPCs
  <2>. QED BY <1>1, <2>1, <2>2, <2>3, <2>4, Balanced
<1>8. CASE UnreactCount(h)
  <2>1. /\ likes' = [likes EXCEPT ![q] = @ - 1]
        /\ UNCHANGED <<reactors, failures>> /\ s.pc = "unreact.count" /\ Finish(h)
    BY <1>8 DEF UnreactCount, Histories, At
  <2>2. /\ handler'[h].pc \notin CountPCs /\ handler'[h].post \in {q, None}
        /\ \A g \in Handlers : g # h => handler'[g] = handler[g]
    BY <1>3, <1>4, <2>1 DEF CountPCs
  <2>3. likes'[q] = likes[q] - 1 /\ \A p \in Posts \ {q} : likes'[p] = likes[p]
    BY <1>1, <1>2, <2>1
  <2>4. Change(h, q) = 0
    BY <1>2, <2>1, <2>2, <2>3 DEF Change, Counts, CountPCs
  <2>. QED BY <1>1, <2>1, <2>2, <2>3, <2>4, Balanced
<1>9. CASE Fail(h)
  <2>1. /\ failures' = [failures EXCEPT ![q] = @ + 1]
        /\ UNCHANGED <<likes, reactors>> /\ Finish(h)
    BY <1>9 DEF Fail
  <2>2. /\ handler'[h].pc = "idle" /\ handler'[h].post = None
        /\ \A g \in Handlers : g # h => handler'[g] = handler[g]
    BY <1>3, <1>4, <2>1
  <2>3. failures'[q] = failures[q] + 1 /\ \A p \in Posts \ {q} : failures'[p] = failures[p]
    BY <1>1, <1>2, <2>1
  <2>4. Change(h, q) \in {-1, 0, 1}
    <3>1. CASE s.pc = "react.count"
      BY <1>1, <1>2, <2>1, <2>2, <3>1 DEF Change, Counts
    <3>2. CASE s.pc = "unreact.count"
      BY <1>1, <1>2, <2>1, <2>2, <3>2 DEF Change, Counts
    <3>3. CASE s.pc \notin CountPCs
      BY <1>1, <1>2, <2>1, <2>2, <3>3 DEF Change, Counts, CountPCs
    <3>. QED BY <3>1, <3>2, <3>3 DEF CountPCs
  <2>. QED BY <1>1, <2>1, <2>2, <2>3, <2>4, Balanced
<1>. QED BY <1>5, <1>6, <1>7, <1>8, <1>9

\* Every other step leaves the drift alone.
LEMMA LikesQuiet ==
  ASSUME TypeInv, LikesInv, NEW h \in Handlers,
         \/ Begin(h) \/ ReactFind(h) \/ ReactPublish(h) \/ PostRemoveWrite(h)
         \/ ReactCreate(h) /\ handler[h].user \in reactors[handler[h].post]
         \/ UnreactDelete(h) /\ handler[h].user \notin reactors[handler[h].post]
         \/ CommentFindParent(h) \/ CommentCreate(h) \/ CommentCount(h) \/ CommentPublish(h)
         \/ RemoveTally(h) \/ RemoveDelete(h) \/ RemoveCount(h)
  PROVE  LikesInv'
<1>. DEFINE s == handler[h]
<1>1. s \in HandlerState /\ handler \in [Handlers -> HandlerState]
  BY DEF TypeInv, TypeOK
<1>2. CASE Begin(h)
  <2>1. UNCHANGED <<likes, reactors, failures>>
    BY <1>2 DEF Begin, ReactFindPost, UnreactFindPost, CommentFindPost, RemoveFind,
                PostRemoveFind, Histories
  <2>2. s = Idle /\ handler'[h].pc \notin CountPCs
                 /\ \A g \in Handlers : g # h => handler'[g] = handler[g]
    BY <1>1, <1>2 DEF Begin, ReactFindPost, UnreactFindPost, CommentFindPost, RemoveFind,
                PostRemoveFind, Start, CountPCs
  <2>. QED BY <2>1, <2>2, OffTheCounter DEF Idle, CountPCs
<1>3. CASE ~Begin(h)
  <2>1. s.pc \notin CountPCs
    BY <1>3 DEF CountPCs, At, ReactFind, ReactPublish, PostRemoveWrite, ReactCreate,
                UnreactDelete, CommentFindParent, CommentCreate, CommentCount,
                CommentPublish, RemoveTally, RemoveDelete, RemoveCount
  <2>2. UNCHANGED <<likes, failures>>
    BY <1>3 DEF Histories, ReactFind, ReactPublish, PostRemoveWrite, ReactCreate,
                UnreactDelete, CommentFindParent, CommentCreate, CommentCount,
                CommentPublish, RemoveTally, RemoveDelete, RemoveCount
  <2>3. UNCHANGED reactors
    <3>1. CASE UnreactDelete(h) /\ s.user \notin reactors[s.post]
      <4>1. reactors \in [Posts -> SUBSET Users]
        BY DEF TypeInv, TypeOK
      <4>. QED BY <3>1, <4>1 DEF UnreactDelete
    <3>. QED BY <1>3, <3>1 DEF ReactFind, ReactPublish, PostRemoveWrite, ReactCreate,
                CommentFindParent, CommentCreate, CommentCount,
                CommentPublish, RemoveTally, RemoveDelete, RemoveCount
  <2>4. handler'[h].pc \notin CountPCs /\ \A g \in Handlers : g # h => handler'[g] = handler[g]
    BY <1>1, <1>3
       DEF ReactFind, ReactPublish, PostRemoveWrite, ReactCreate, UnreactDelete,
           CommentFindParent, CommentCreate, CommentCount, CommentPublish, RemoveTally,
           RemoveDelete, RemoveCount, NotifyNext, Continue, Finish, Idle, CountPCs, HandlerState
  <2>. QED BY <2>1, <2>2, <2>3, <2>4, OffTheCounter
<1>. QED BY <1>2, <1>3

\* Every step keeps the account of the likes.
LEMMA LikesInductive ==
  ASSUME TypeInv, TypeInv', LikesInv, [Next]_vars
  PROVE  LikesInv'
<1>1. CASE UNCHANGED vars
  BY <1>1 DEF vars, LikesInv, Drift, Waiting, On
<1>2. CASE Next
  <2>1. PICK h \in Handlers : Begin(h) \/ Proceed(h)
    BY <1>2 DEF Next
  <2>. QED BY <2>1, LikesMoved, LikesQuiet DEF Proceed
<1>. QED BY <1>1, <1>2

\* When no request stands between a reaction row and its counter, likes_count is
\* the number of reactions, give or take one for each request that died.
THEOREM LikesFollowReactions == Spec => []LikesMatchReactions
<1>1. Init => LikesInv
  <2>. SUFFICES ASSUME Init, NEW p \in Posts
                PROVE  -failures[p] <= Drift(p) /\ Drift(p) <= failures[p]
    BY DEF LikesInv
  <2>1. \A pc \in CountPCs : On(p, {pc}) = {}
    BY DEF Init, On, Idle, CountPCs
  <2>2. Waiting(p, "react.count") = 0 /\ Waiting(p, "unreact.count") = 0
    BY <2>1, FS_EmptySet DEF Waiting, CountPCs
  <2>3. likes[p] = 0 /\ reactors[p] = {} /\ failures[p] = 0
    BY DEF Init
  <2>4. Drift(p) = 0
    BY <2>2, <2>3, FS_EmptySet DEF Drift
  <2>. QED BY <2>3, <2>4
<1>2. TypeInv /\ TypeInv' /\ LikesInv /\ [Next]_vars => LikesInv'
  BY LikesInductive
<1>3. TypeInv /\ LikesInv => LikesMatchReactions
  <2>. SUFFICES ASSUME TypeInv, LikesInv, NEW p \in Posts,
                       On(p, {"react.count", "unreact.count"}) = {}
                PROVE  LET drift == likes[p] - Cardinality(reactors[p])
                       IN  -failures[p] <= drift /\ drift <= failures[p]
    BY DEF LikesMatchReactions
  <2>1. \A pc \in CountPCs : On(p, {pc}) = {}
    BY DEF On, CountPCs
  <2>2. Waiting(p, "react.count") = 0 /\ Waiting(p, "unreact.count") = 0
    BY <2>1, FS_EmptySet DEF Waiting, CountPCs
  <2>3. likes[p] \in Int /\ Cardinality(reactors[p]) \in Nat
    BY SizesAreNumbers DEF TypeInv, TypeOK
  <2>4. Drift(p) = likes[p] - Cardinality(reactors[p])
    BY <2>2, <2>3 DEF Drift
  <2>. QED BY <2>4 DEF LikesInv
<1>. QED BY <1>1, <1>2, <1>3, TypeCorrect, PTL DEF Spec, TypeInv

-----------------------------------------------------------------------------
(* The counter of comments *)

Removing == {"remove.tally", "remove.delete", "remove.count"}
\* Nothing happened to the comments of a post that excuses its counter.
Calm(p) == failures[p] = 0 /\ p \notin deep /\ p \notin overlapped

\* A removal is the only comment request of its post; no reply has replies; a removal
\* finds its comment, and has counted what its DELETE will take.
Alone(p) == \A g \in On(p, Removing), h \in On(p, CommentPCs) : g = h
Flat(p) ==
  \A c \in CommentsOf(p) :
    comment[c].parent # None => comment[comment[c].parent].parent = None
Ready(p) ==
  \A h \in On(p, {"remove.tally", "remove.delete"}) : \E c \in CommentsOf(p) :
    /\ handler[h].comment = c
    /\ handler[h].pc = "remove.delete" => handler[h].removed = Cardinality(Replies(c)) + 1
\* The counter, once the requests that owe it a step have taken it, is the number of
\* comments.
Settled(p) == Cardinality(CommentsOf(p)) - Waiting(p, "comment.count")
Balance(p) ==
  /\ \A h \in On(p, {"remove.count"}) : commentsCount[p] - handler[h].removed = Settled(p)
  /\ On(p, {"remove.count"}) = {} => commentsCount[p] = Settled(p)
CountHeld(p) == Calm(p) => Alone(p) /\ Flat(p) /\ Ready(p) /\ Balance(p)

\* A removal is about a comment of its post, if there still is one.
RemoversKnow ==
  \A h \in Handlers :
    (handler[h].pc \in Removing /\ comment[handler[h].comment] # None) =>
      comment[handler[h].comment].post = handler[h].post
CommentInv == RepliesHaveTheirParent /\ RemoversKnow /\ \A p \in Posts : CountHeld(p)

\* The comments of a post are finitely many, and so are the replies to one.
LEMMA CommentsFinite ==
  ASSUME TypeInv, NEW p
  PROVE  /\ IsFiniteSet(CommentsOf(p)) /\ Cardinality(CommentsOf(p)) \in Nat
         /\ \A c : IsFiniteSet(Replies(c)) /\ Cardinality(Replies(c)) \in Nat
<1>1. CommentsOf(p) \subseteq used /\ \A c : Replies(c) \subseteq used
  BY DEF CommentsOf, Replies, TypeInv, KeysUsed
<1>2. IsFiniteSet(used)
  BY DEF TypeInv, KeysUsed
<1>. QED BY <1>1, <1>2, FS_Subset, FS_CardinalityType

\* What excuses the counter of a post excuses it for good.
LEMMA CalmBefore ==
  ASSUME TypeInv, [Next]_vars, NEW p \in Posts, Calm(p)'
  PROVE  Calm(p)
<1>0. UNCHANGED vars => UNCHANGED <<deep, overlapped, failures>>
  BY DEF vars, Histories
<1>1. ASSUME NEW h \in Handlers, Begin(h)
      PROVE  UNCHANGED <<deep, failures>> /\ overlapped \subseteq overlapped'
  BY <1>1 DEF Histories, Begin, ReactFindPost, UnreactFindPost, CommentFindPost, RemoveFind,
              PostRemoveFind, NoteOverlap
<1>2. ASSUME NEW h \in Handlers, Proceed(h)
      PROVE  /\ deep \subseteq deep' /\ UNCHANGED overlapped
             /\ UNCHANGED failures \/ Fail(h)
  <2>1. CASE \/ ReactFind(h) \/ ReactCreate(h) \/ ReactCount(h) \/ ReactPublish(h)
             \/ UnreactDelete(h) \/ UnreactCount(h) \/ PostRemoveWrite(h)
    BY <2>1 DEF Histories, ReactFind, ReactCreate, ReactCount, ReactPublish, UnreactDelete,
                UnreactCount, PostRemoveWrite
  <2>2. CASE \/ CommentFindParent(h) \/ CommentCreate(h) \/ CommentCount(h)
             \/ CommentPublish(h) \/ RemoveTally(h) \/ RemoveDelete(h) \/ RemoveCount(h)
    BY <2>2 DEF Histories, CommentFindParent, CommentCreate, CommentCount, CommentPublish,
                RemoveTally, RemoveDelete, RemoveCount
  <2>3. CASE Fail(h)
    BY <2>3 DEF Fail
  <2>. QED BY <1>2, <2>1, <2>2, <2>3 DEF Proceed
<1>3. CASE UNCHANGED failures
  <2>1. deep \subseteq deep' /\ overlapped \subseteq overlapped'
    BY <1>0, <1>1, <1>2 DEF Next
  <2>. QED BY <1>3, <2>1 DEF Calm
<1>4. ASSUME NEW h \in Handlers, Fail(h) PROVE failures[p] = 0
  <2>1. failures' = [failures EXCEPT ![handler[h].post] = @ + 1]
    BY <1>4 DEF Fail
  <2>2. failures'[p] = 0 /\ failures \in [Posts -> 0 .. MaxFailures] /\ MaxFailures \in Nat
    BY DEF Calm, TypeInv, TypeOK
  <2>3. CASE handler[h].post = p
    <3>1. failures'[p] = failures[p] + 1 /\ failures[p] \in Nat
      BY <2>1, <2>2, <2>3
    <3>. QED BY <2>2, <3>1
  <2>4. CASE handler[h].post # p
    BY <2>1, <2>2, <2>4
  <2>. QED BY <2>3, <2>4
<1>5. UNCHANGED failures \/ \E h \in Handlers : Fail(h)
  BY <1>0, <1>1, <1>2 DEF Next
<1>6. deep \subseteq deep' /\ overlapped \subseteq overlapped'
  BY <1>0, <1>1, <1>2 DEF Next
<1>. QED BY <1>3, <1>4, <1>5, <1>6 DEF Calm

\* A step for another post, or for none.
LEMMA CountElsewhere ==
  ASSUME TypeInv, RepliesHaveTheirParent, RepliesHaveTheirParent', NEW h \in Handlers,
         \A g \in Handlers : g # h => handler'[g] = handler[g],
         NEW p \in Posts, CountHeld(p), Calm(p)' => Calm(p),
         handler[h].pc \in CommentPCs => handler[h].post # p,
         handler'[h].pc \in CommentPCs => handler'[h].post # p,
         commentsCount'[p] = commentsCount[p],
         \A c \in Comments : comment'[c] = comment[c] \/
           /\ comment[c] # None => comment[c].post # p
           /\ comment'[c] # None => comment'[c].post # p
  PROVE  CountHeld(p)'
<1>. SUFFICES ASSUME Calm(p)' PROVE Alone(p)' /\ Flat(p)' /\ Ready(p)' /\ Balance(p)'
  BY DEF CountHeld
<1>1. Alone(p) /\ Flat(p) /\ Ready(p) /\ Balance(p)
  BY DEF CountHeld
<1>2. /\ CommentsOf(p)' = CommentsOf(p)
      /\ \A c \in CommentsOf(p) : comment'[c] = comment[c]
  BY DEF CommentsOf
<1>3. ASSUME NEW pcs, pcs \subseteq CommentPCs
      PROVE  On(p, pcs)' = On(p, pcs) /\ \A g \in On(p, pcs) : handler'[g] = handler[g]
  BY <1>3 DEF On
<1>4. /\ On(p, CommentPCs)' = On(p, CommentPCs)
      /\ On(p, Removing)' = On(p, Removing)
      /\ On(p, {"remove.tally", "remove.delete"})' = On(p, {"remove.tally", "remove.delete"})
      /\ On(p, {"remove.count"})' = On(p, {"remove.count"})
      /\ On(p, {"comment.count"})' = On(p, {"comment.count"})
      /\ \A g \in On(p, CommentPCs) : handler'[g] = handler[g]
      /\ On(p, {"remove.tally", "remove.delete"}) \subseteq On(p, CommentPCs)
      /\ On(p, {"remove.count"}) \subseteq On(p, CommentPCs)
  <2>1. /\ Removing \subseteq CommentPCs /\ {"remove.tally", "remove.delete"} \subseteq CommentPCs
        /\ {"remove.count"} \subseteq CommentPCs /\ {"comment.count"} \subseteq CommentPCs
    BY DEF Removing, CommentPCs
  <2>. QED BY <1>3, <2>1 DEF On
<1>5. \A c \in CommentsOf(p) : Replies(c)' = Replies(c)
  <2>1. ASSUME NEW c \in CommentsOf(p), NEW d \in Replies(c) PROVE d \in CommentsOf(p)
    BY <2>1 DEF Replies, CommentsOf, RepliesHaveTheirParent
  <2>2. ASSUME NEW c \in CommentsOf(p), NEW d \in Replies(c)' PROVE d \in CommentsOf(p)
    <3>1. c \in CommentsOf(p)' /\ c # None
      BY <1>2 DEF CommentsOf
    <3>2. d \in CommentsOf(p)'
      BY <2>2, <3>1 DEF Replies, CommentsOf, RepliesHaveTheirParent
    <3>. QED BY <1>2, <3>2
  <2>. QED BY <1>2, <2>1, <2>2 DEF Replies, CommentsOf
<1>6. Flat(p)'
  <2>1. \A c \in CommentsOf(p) : comment[c].parent # None => comment[c].parent \in CommentsOf(p)
    BY DEF CommentsOf, RepliesHaveTheirParent, TypeInv, TypeOK, CommentRow
  <2>. QED BY <1>1, <1>2, <2>1 DEF Flat
<1>7. Balance(p)'
  BY <1>1, <1>2, <1>4 DEF Balance, Settled, Waiting
<1>8. Ready(p)'
  BY <1>1, <1>2, <1>4, <1>5 DEF Ready
<1>. QED BY <1>1, <1>4, <1>6, <1>7, <1>8 DEF Alone

\* One request moves at a time.
LEMMA OneMoves ==
  ASSUME TypeInv, NEW h \in Handlers, Begin(h) \/ Proceed(h)
  PROVE  \A g \in Handlers : g # h => handler'[g] = handler[g]
BY DEF TypeInv, TypeOK, Begin, Proceed, ReactFindPost, UnreactFindPost, CommentFindPost,
       RemoveFind, PostRemoveFind, ReactFind, ReactCreate, ReactCount, ReactPublish,
       UnreactDelete, UnreactCount, CommentFindParent, CommentCreate, CommentCount,
       CommentPublish, RemoveTally, RemoveDelete, RemoveCount, PostRemoveWrite, Fail,
       Start, Continue, Finish, NotifyNext

\* The fields of a request after it began, moved on or ended.
LEMMA FieldsAfter ==
  ASSUME TypeInv, NEW h \in Handlers
  PROVE  /\ \A pc, u, p, c : Start(h, pc, u, p, c) =>
              /\ handler'[h].pc = pc /\ handler'[h].user = u
              /\ handler'[h].post = p /\ handler'[h].comment = c
         /\ \A pc : Continue(h, pc) =>
              /\ handler'[h].pc = pc /\ handler'[h].user = handler[h].user
              /\ handler'[h].post = handler[h].post
              /\ handler'[h].comment = handler[h].comment
              /\ handler'[h].removed = handler[h].removed
         /\ Finish(h) => handler'[h].pc = "idle" /\ handler'[h].post = None
<1>1. handler[h] \in HandlerState /\ handler \in [Handlers -> HandlerState]
  BY DEF TypeInv, TypeOK
<1>. QED BY <1>1 DEF Start, Continue, Finish, Idle, HandlerState

\* Every step keeps a row of the comments table as it is or removes it.
LEMMA RowsOnlyGo ==
  ASSUME TypeInv, [Next]_vars
  PROVE  RowsStay
<1>1. CASE UNCHANGED comment
  BY <1>1 DEF RowsStay
<1>2. ASSUME NEW h \in Handlers, CommentCreate(h) PROVE RowsStay
  <2>1. UNCHANGED comment \/ \E r : \E k \in Comments \ used : comment' = [comment EXCEPT ![k] = r]
    BY <1>2 DEF CommentCreate
  <2>. QED BY <2>1 DEF RowsStay, TypeInv, TypeOK
<1>3. ASSUME NEW h \in Handlers, RemoveDelete(h) PROVE RowsStay
  BY <1>3 DEF RemoveDelete, RowsStay
<1>. QED BY <1>1, <1>2, <1>3, CommentsWritten

\* A removal keeps to the comment and the post it found.
LEMMA RemoverMoves ==
  ASSUME TypeInv, NEW h \in Handlers, Begin(h) \/ Proceed(h), handler'[h].pc \in Removing
  PROVE  \/ /\ handler[h].pc \in Removing
            /\ handler'[h].comment = handler[h].comment
            /\ handler'[h].post = handler[h].post
         \/ \E u \in Users, c \in Comments : RemoveFind(h, u, c)
<1>. SUFFICES ASSUME \A u \in Users, c \in Comments : ~RemoveFind(h, u, c)
              PROVE  /\ handler[h].pc \in Removing
                     /\ handler'[h].comment = handler[h].comment
                     /\ handler'[h].post = handler[h].post
  OBVIOUS
<1>1. CASE Begin(h)
  <2>1. \E u, p, c : \E pc \in {"react.find", "unreact.delete", "comment.create",
                               "comment.parent", "post.delete"} : Start(h, pc, u, p, c)
    BY <1>1 DEF Begin, ReactFindPost, UnreactFindPost, CommentFindPost, PostRemoveFind
  <2>. QED BY <2>1, FieldsAfter DEF Removing
<1>2. CASE RemoveTally(h)
  <2>1. handler[h] \in HandlerState /\ handler \in [Handlers -> HandlerState]
    BY DEF TypeInv, TypeOK
  <2>. QED BY <1>2, <2>1 DEF RemoveTally, At, HandlerState, Removing
<1>3. CASE RemoveDelete(h)
  BY <1>3, FieldsAfter DEF RemoveDelete, At, Removing
<1>4. CASE CommentCreate(h)
  <2>1. handler[h] \in HandlerState /\ handler \in [Handlers -> HandlerState]
    BY DEF TypeInv, TypeOK
  <2>2. handler'[h].pc \in {"idle", "comment.count"}
    BY <1>4, <2>1 DEF CommentCreate, HandlerState, Finish, Idle
  <2>. QED BY <2>2 DEF Removing
<1>5. CASE \/ ReactFind(h) \/ ReactCreate(h) \/ ReactCount(h) \/ ReactPublish(h)
           \/ UnreactDelete(h) \/ UnreactCount(h)
           \/ CommentFindParent(h) \/ CommentCount(h) \/ CommentPublish(h)
           \/ RemoveCount(h) \/ PostRemoveWrite(h) \/ Fail(h)
  <2>1. Finish(h) \/ \E pc \in {"react.create", "react.count", "react.publish", "unreact.count",
                                "comment.create", "comment.publish"} : Continue(h, pc)
    BY <1>5 DEF ReactFind, ReactCreate, ReactCount, ReactPublish, UnreactDelete, UnreactCount,
         CommentFindParent, CommentCount, CommentPublish, RemoveCount, PostRemoveWrite, Fail,
         NotifyNext
  <2>. QED BY <2>1, FieldsAfter DEF Removing
<1>. QED BY <1>1, <1>2, <1>3, <1>4, <1>5 DEF Proceed

\* Every step keeps what removals know.
LEMMA RemoversStay ==
  ASSUME TypeInv, RemoversKnow, [Next]_vars
  PROVE  RemoversKnow'
<1>1. CASE UNCHANGED vars
  BY <1>1 DEF vars, RemoversKnow
<1>2. ASSUME NEW h \in Handlers, Begin(h) \/ Proceed(h) PROVE RemoversKnow'
  <2>. SUFFICES ASSUME NEW g \in Handlers, handler'[g].pc \in Removing,
                       comment'[handler'[g].comment] # None
                PROVE  comment'[handler'[g].comment].post = handler'[g].post
    BY DEF RemoversKnow
  <2>1. CASE /\ handler[g].pc \in Removing
             /\ handler'[g].comment = handler[g].comment /\ handler'[g].post = handler[g].post
    <3>1. handler[g].comment \in used /\ handler[g].comment \in Comments
      BY <2>1 DEF TypeInv, TypeOK, LoadedInv, Loaded, Removing, CommentPCs
    <3>2. comment'[handler[g].comment] = comment[handler[g].comment]
      BY <2>1, <3>1, RowsOnlyGo DEF RowsStay
    <3>. QED BY <2>1, <3>2 DEF RemoversKnow
  <2>2. ASSUME NEW u \in Users, NEW c \in Comments, RemoveFind(h, u, c), g = h
        PROVE  comment'[handler'[g].comment].post = handler'[g].post
    BY <2>2, FieldsAfter DEF RemoveFind
  <2>3. CASE g # h
    BY <1>2, <2>1, <2>3, OneMoves
  <2>. QED BY <1>2, <2>1, <2>2, <2>3, RemoverMoves
<1>. QED BY <1>1, <1>2 DEF Next

\* Nothing of a post's account moves: the request is about no comment of it.
LEMMA CountQuiet ==
  ASSUME TypeInv, CommentInv, RepliesHaveTheirParent', NEW h \in Handlers,
         \/ \E u \in Users, p \in Posts : ReactFindPost(h, u, p) \/ UnreactFindPost(h, u, p)
         \/ \E p \in Posts : PostRemoveFind(h, p)
         \/ ReactFind(h) \/ ReactCreate(h) \/ ReactCount(h) \/ ReactPublish(h)
         \/ UnreactDelete(h) \/ UnreactCount(h) \/ PostRemoveWrite(h)
  PROVE  \A p \in Posts : CountHeld(p)'
<1>1. Begin(h) \/ Proceed(h)
  BY DEF Begin, Proceed
<1>2. handler[h].pc \notin CommentPCs
  BY DEF CommentPCs, ReactFindPost, UnreactFindPost, PostRemoveFind, Start, Idle, At, ReactFind,
         ReactCreate, ReactCount, ReactPublish, UnreactDelete, UnreactCount, PostRemoveWrite
<1>3. \/ Finish(h)
      \/ \E pc \in ReactPCs \cup {"post.delete"} :
           Continue(h, pc) \/ \E u, p, c : Start(h, pc, u, p, c)
  BY DEF ReactPCs, ReactFindPost, UnreactFindPost, PostRemoveFind, ReactFind,
         ReactCreate, ReactCount, ReactPublish, UnreactDelete, UnreactCount, PostRemoveWrite,
         NotifyNext
<1>4. handler'[h].pc \notin CommentPCs
  BY <1>3, FieldsAfter DEF CommentPCs, ReactPCs
<1>5. UNCHANGED <<comment, commentsCount>>
  BY DEF ReactFindPost, UnreactFindPost, PostRemoveFind, ReactFind, Histories,
         ReactCreate, ReactCount, ReactPublish, UnreactDelete, UnreactCount, PostRemoveWrite
<1>6. \A p \in Posts : Calm(p)' => Calm(p)
  BY <1>1, CalmBefore DEF Next
<1>. QED BY <1>1, <1>2, <1>4, <1>5, <1>6, OneMoves, CountElsewhere DEF CommentInv

\* A step about the comments of one post keeps the accounts of the others.
LEMMA OtherCounts ==
  ASSUME TypeInv, CommentInv, RepliesHaveTheirParent', NEW h \in Handlers,
         Begin(h) \/ Proceed(h), NEW q \in Posts, CountHeld(q)',
         handler[h].pc \in CommentPCs => handler[h].post = q,
         handler'[h].pc \in CommentPCs => handler'[h].post = q,
         \A p \in Posts \ {q} : commentsCount'[p] = commentsCount[p],
         \A c \in Comments : comment'[c] = comment[c] \/
           /\ comment[c] # None => comment[c].post = q
           /\ comment'[c] # None => comment'[c].post = q
  PROVE  \A p \in Posts : CountHeld(p)'
<1>. SUFFICES ASSUME NEW p \in Posts, p # q PROVE CountHeld(p)'
  OBVIOUS
<1>1. Calm(p)' => Calm(p)
  BY CalmBefore DEF Next
<1>. QED BY <1>1, OneMoves, CountElsewhere DEF CommentInv

\* A removal is the only comment request of its post while the post is calm.
LEMMA NoRemover ==
  ASSUME NEW q \in Posts, NEW h \in On(q, CommentPCs), CountHeld(q), Calm(q),
         handler[h].pc \notin Removing
  PROVE  On(q, Removing) = {}
BY DEF CountHeld, Alone, On

\* A request that creates a comment, while no removal is on: the counter moves
\* with the rows and with what is still owed.
LEMMA Walk ==
  ASSUME TypeInv, TypeInv', NEW h \in Handlers, NEW q \in Posts, CountHeld(q),
         Begin(h) \/ Proceed(h), handler'[h].pc \notin Removing,
         Calm(q)' => /\ On(q, Removing) = {}
                     /\ Flat(q)'
                     /\ commentsCount'[q] - commentsCount[q] =
                          (Cardinality(CommentsOf(q))' - Cardinality(CommentsOf(q)))
                            - (Counts(handler'[h], q, "comment.count")
                                 - Counts(handler[h], q, "comment.count"))
  PROVE  CountHeld(q)'
<1>. SUFFICES ASSUME Calm(q)' PROVE Alone(q)' /\ Flat(q)' /\ Ready(q)' /\ Balance(q)'
  BY DEF CountHeld
<1>1. Balance(q) /\ On(q, Removing) = {}
  BY CalmBefore DEF CountHeld, Next
<1>2. On(q, Removing)' = {}
  BY <1>1, OneMoves DEF On
<1>3. /\ On(q, {"remove.count"}) = {} /\ On(q, {"remove.count"})' = {}
      /\ On(q, {"remove.tally", "remove.delete"})' = {}
  BY <1>1, <1>2 DEF On, Removing
<1>4. Alone(q)' /\ Ready(q)'
  BY <1>2, <1>3 DEF Alone, Ready
<1>5. commentsCount[q] = Cardinality(CommentsOf(q)) - Waiting(q, "comment.count")
  BY <1>1, <1>3 DEF Balance, Settled
<1>6. "comment.count" \in PCs
  BY DEF PCs, CommentPCs
<1>7. /\ Waiting(q, "comment.count") \in Nat
      /\ Waiting(q, "comment.count")' = Waiting(q, "comment.count")
           + Counts(handler'[h], q, "comment.count") - Counts(handler[h], q, "comment.count")
  BY <1>6, OneMoves, WaitingMoves DEF TypeInv
<1>8. /\ commentsCount[q] \in Int /\ commentsCount'[q] \in Int
      /\ Cardinality(CommentsOf(q)) \in Nat /\ Cardinality(CommentsOf(q))' \in Nat
  <2>1. Cardinality(CommentsOf(q))' \in Nat
    <3>1. CommentsOf(q)' \subseteq used' /\ IsFiniteSet(used')
      BY DEF CommentsOf, TypeInv, KeysUsed
    <3>. QED BY <3>1, FS_Subset, FS_CardinalityType
  <2>. QED BY <2>1, CommentsFinite DEF TypeInv, TypeOK
<1>9. Counts(handler'[h], q, "comment.count") \in Int /\ Counts(handler[h], q, "comment.count") \in Int
  BY DEF Counts
<1>10. commentsCount'[q] = Cardinality(CommentsOf(q))' - Waiting(q, "comment.count")'
  BY <1>5, <1>7, <1>8, <1>9
<1>11. Balance(q)'
  BY <1>3, <1>10 DEF Balance, Settled
<1>. QED BY <1>4, <1>11

\* Asking for a comment, finding its parent, announcing it.
LEMMA CountWalks ==
  ASSUME TypeInv, TypeInv', CommentInv, RepliesHaveTheirParent', NEW h \in Handlers,
         \/ \E u \in Users, p \in Posts, c \in used \cup {None} : CommentFindPost(h, u, p, c)
         \/ CommentFindParent(h) \/ CommentPublish(h) \/ CommentCount(h)
  PROVE  \A p \in Posts : CountHeld(p)'
<1>1. Begin(h) \/ Proceed(h)
  BY DEF Begin, Proceed
<1>2. UNCHANGED comment
  BY DEF CommentFindPost, CommentFindParent, CommentPublish, CommentCount, Histories
<1>3. ASSUME NEW q \in Posts, CountHeld(q), Calm(q)'
      PROVE  Flat(q)' /\ CommentsOf(q)' = CommentsOf(q) /\ Cardinality(CommentsOf(q)) \in Nat
  <2>1. Calm(q)
    BY <1>1, <1>3, CalmBefore DEF Next
  <2>. QED BY <1>2, <1>3, <2>1, CommentsFinite DEF CountHeld, Flat, CommentsOf
<1>4. ASSUME NEW u \in Users, NEW q \in Posts, NEW c \in used \cup {None},
             CommentFindPost(h, u, q, c)
      PROVE  \A p \in Posts : CountHeld(p)'
  <2>1. /\ handler[h].pc = "idle" /\ handler'[h].post = q
        /\ handler'[h].pc \in {"comment.create", "comment.parent"}
        /\ UNCHANGED commentsCount
    <3>1. PICK pc \in {"comment.create", "comment.parent"} : Start(h, pc, u, q, c)
      BY <1>4 DEF CommentFindPost
    <3>2. handler[h].pc = "idle"
      BY <3>1 DEF Start, Idle
    <3>. QED BY <1>4, <3>1, <3>2, FieldsAfter DEF CommentFindPost
  <2>2. Calm(q)' => On(q, Removing) = {}
    BY <1>4 DEF CommentFindPost, NoteOverlap, Calm, Removing
  <2>3. Counts(handler'[h], q, "comment.count") = 0 /\ Counts(handler[h], q, "comment.count") = 0
    BY <2>1 DEF Counts
  <2>4. commentsCount[q] \in Int
    BY DEF TypeInv, TypeOK
  <2>5. Calm(q)' => commentsCount'[q] - commentsCount[q] =
                          (Cardinality(CommentsOf(q))' - Cardinality(CommentsOf(q)))
                            - (Counts(handler'[h], q, "comment.count")
                                 - Counts(handler[h], q, "comment.count"))
    BY <1>3, <2>1, <2>3, <2>4 DEF CommentInv
  <2>6. CountHeld(q)'
    BY <1>1, <1>3, <2>1, <2>2, <2>5, Walk DEF Removing, CommentInv
  <2>. QED BY <1>1, <1>2, <2>1, <2>6, OtherCounts DEF CommentPCs
<1>5. CASE CommentFindParent(h) \/ CommentPublish(h) \/ CommentCount(h)
  <2>0. handler[h].post \in Posts
    BY <1>5 DEF CommentFindParent, CommentPublish, CommentCount, At, TypeInv, LoadedInv, Loaded
  <2>. PICK q \in Posts : q = handler[h].post
    BY <2>0
  <2>1. /\ handler[h].post = q /\ handler[h].pc \in CommentPCs /\ handler[h].pc \notin Removing
    BY <1>5 DEF CommentFindParent, CommentPublish, CommentCount, At, TypeInv, LoadedInv,
                Loaded, CommentPCs, Removing
  <2>2. /\ handler'[h].pc \in {"idle", "comment.create", "comment.publish"}
        /\ handler'[h].post \in {q, None} /\ (handler'[h].pc # "idle" => handler'[h].post = q)
    BY <1>5, FieldsAfter DEF CommentFindParent, CommentPublish, CommentCount, NotifyNext
  <2>3. Calm(q)' => On(q, Removing) = {}
    <3>1. h \in On(q, CommentPCs) /\ CountHeld(q)
      BY <2>1 DEF On, CommentInv
    <3>2. Calm(q)' => Calm(q)
      BY <1>1, CalmBefore DEF Next
    <3>. QED BY <2>1, <3>1, <3>2, NoRemover
  <2>4. commentsCount \in [Posts -> Int]
    BY DEF TypeInv, TypeOK
  <2>5. Counts(handler'[h], q, "comment.count") = 0
    BY <2>2 DEF Counts
  <2>6. /\ commentsCount'[q] = commentsCount[q] + Counts(handler[h], q, "comment.count")
        /\ \A p \in Posts \ {q} : commentsCount'[p] = commentsCount[p]
    <3>1. CASE CommentCount(h)
      BY <2>1, <2>4, <3>1 DEF CommentCount, At, Counts
    <3>2. CASE CommentFindParent(h) \/ CommentPublish(h)
      BY <2>1, <2>4, <3>2 DEF CommentFindParent, CommentPublish, At, Counts, Histories
    <3>. QED BY <1>5, <3>1, <3>2
  <2>7. commentsCount[q] \in Int /\ Counts(handler[h], q, "comment.count") \in Int
    BY <2>1, <2>4 DEF Counts
  <2>8. Calm(q)' => commentsCount'[q] - commentsCount[q] =
                          (Cardinality(CommentsOf(q))' - Cardinality(CommentsOf(q)))
                            - (Counts(handler'[h], q, "comment.count")
                                 - Counts(handler[h], q, "comment.count"))
    <3>1. CountHeld(q)
      BY DEF CommentInv
    <3>. QED BY <1>3, <2>5, <2>6, <2>7, <3>1
  <2>9. CountHeld(q)'
    <3>1. CountHeld(q)
      BY DEF CommentInv
    <3>2. handler'[h].pc \notin Removing
      BY <2>2 DEF Removing
    <3>3. Calm(q)' => Flat(q)'
      BY <1>3, <3>1
    <3>. QED BY <1>1, <2>3, <2>8, <3>1, <3>2, <3>3, Walk
  <2>10. handler'[h].pc \in CommentPCs => handler'[h].post = q
    BY <2>2 DEF CommentPCs
  <2>. QED BY <1>1, <1>2, <2>1, <2>6, <2>9, <2>10, OtherCounts
<1>. QED BY <1>4, <1>5

\* Storing a comment: one more comment, one more step owed to the counter; a
\* reply under a reply excuses the post.
LEMMA CountCreate ==
  ASSUME TypeInv, TypeInv', CommentInv, RepliesHaveTheirParent', NEW h \in Handlers,
         CommentCreate(h)
  PROVE  \A p \in Posts : CountHeld(p)'
<1>1. Begin(h) \/ Proceed(h)
  BY DEF Proceed
<1>2. /\ handler[h].pc = "comment.create" /\ handler[h].post \in Posts
      /\ handler[h] \in HandlerState /\ Loaded(h)
  BY DEF CommentCreate, At, TypeInv, TypeOK, LoadedInv, Loaded
<1>. PICK q \in Posts : q = handler[h].post
  BY <1>2
<1>3. /\ handler[h].pc \in CommentPCs /\ handler[h].pc \notin Removing
      /\ handler[h].post = q /\ Counts(handler[h], q, "comment.count") = 0
  BY <1>2 DEF CommentPCs, Removing, Counts
<1>4. UNCHANGED commentsCount /\ commentsCount[q] \in Int /\ CountHeld(q)
  BY DEF CommentCreate, TypeInv, TypeOK, CommentInv
<1>5. Calm(q)' => Calm(q)
  BY <1>1, CalmBefore DEF Next
<1>6. Calm(q)' => On(q, Removing) = {}
  <2>1. h \in On(q, CommentPCs)
    BY <1>3 DEF On
  <2>. QED BY <1>3, <1>4, <1>5, <2>1, NoRemover
<1>7. Cardinality(CommentsOf(q)) \in Nat /\ IsFiniteSet(CommentsOf(q))
  BY CommentsFinite
<1>8. CASE Finish(h) /\ UNCHANGED comment
  <2>1. handler'[h].pc = "idle"
    BY <1>8, FieldsAfter
  <2>2. Counts(handler'[h], q, "comment.count") = 0
    BY <2>1 DEF Counts
  <2>3. CommentsOf(q)' = CommentsOf(q) /\ (Calm(q)' => Flat(q)')
    BY <1>4, <1>5, <1>8 DEF CountHeld, Flat, CommentsOf
  <2>4. handler'[h].pc \notin Removing /\ handler'[h].pc \notin CommentPCs
    BY <2>1 DEF Removing, CommentPCs
  <2>5. CountHeld(q)'
    BY <1>1, <1>3, <1>4, <1>6, <1>7, <2>2, <2>3, <2>4, Walk
  <2>. QED BY <1>1, <1>3, <1>4, <1>8, <2>4, <2>5, OtherCounts
<1>9. ASSUME NEW k \in Comments \ used, NEW row,
             row = [post |-> q, author |-> handler[h].user, parent |-> handler[h].comment],
             comment' = [comment EXCEPT ![k] = row],
             handler' = [handler EXCEPT ![h].pc = "comment.count", ![h].comment = k],
             handler[h].comment # None =>
               /\ comment[handler[h].comment] # None
               /\ comment[handler[h].comment].parent # None => q \in deep'
      PROVE  \A p \in Posts : CountHeld(p)'
  <2>1. handler'[h].pc = "comment.count" /\ handler'[h].post = q
    BY <1>2, <1>3, <1>9 DEF TypeInv, TypeOK, HandlerState
  <2>2. Counts(handler'[h], q, "comment.count") = 1
    BY <2>1 DEF Counts
  <2>3. handler'[h].pc \notin Removing
    BY <2>1 DEF Removing
  <2>4. /\ comment[k] = None /\ row # None
        /\ comment'[k] = row /\ \A c \in Comments : c # k => comment'[c] = comment[c]
    <3>1. row \in CommentRow
      BY <1>2, <1>9 DEF CommentRow, HandlerState, Loaded
    <3>. QED BY <1>9, <3>1 DEF TypeInv, TypeOK, KeysUsed
  <2>5. row.post = q /\ row.parent = handler[h].comment
    BY <1>9
  <2>6. CommentsOf(q)' = CommentsOf(q) \cup {k} /\ k \notin CommentsOf(q)
    BY <2>4, <2>5 DEF CommentsOf
  <2>7. Cardinality(CommentsOf(q))' = Cardinality(CommentsOf(q)) + 1
    BY <1>7, <2>6, FS_AddElement
  <2>8. ASSUME Calm(q)' PROVE Flat(q)'
    <3>. SUFFICES ASSUME NEW c \in CommentsOf(q)', comment'[c].parent # None
                  PROVE  comment'[comment'[c].parent].parent = None
      BY DEF Flat
    <3>1. CASE c = k
      <4>1. handler[h].comment \in Comments /\ handler[h].comment # k
        BY <1>2, <1>9, <2>4, <2>5, <3>1 DEF HandlerState
      <4>2. q \notin deep'
        BY <2>8 DEF Calm
      <4>. QED BY <1>9, <2>4, <2>5, <3>1, <4>1, <4>2
    <3>2. CASE c # k
      <4>1. comment'[c] = comment[c] /\ c \in CommentsOf(q) /\ c \in Comments
        BY <2>4, <2>6, <3>2 DEF CommentsOf
      <4>2. /\ comment[c].parent \in Comments /\ comment[comment[c].parent] # None
        BY <4>1 DEF CommentInv, RepliesHaveTheirParent, CommentsOf, TypeInv, TypeOK, CommentRow
      <4>3. comment[comment[c].parent].parent = None
        BY <1>4, <1>5, <2>8, <4>1 DEF CountHeld, Flat
      <4>. QED BY <2>4, <4>1, <4>2, <4>3
    <3>. QED BY <3>1, <3>2
  <2>9. CountHeld(q)'
    BY <1>1, <1>3, <1>4, <1>6, <1>7, <2>2, <2>3, <2>7, <2>8, Walk
  <2>10. \A c \in Comments : comment'[c] = comment[c] \/
           /\ comment[c] # None => comment[c].post = q
           /\ comment'[c] # None => comment'[c].post = q
    BY <2>4, <2>5
  <2>. QED BY <1>1, <1>3, <1>4, <2>1, <2>9, <2>10, OtherCounts
<1>10. CASE ~(Finish(h) /\ UNCHANGED comment)
  <2>1. PICK k \in Comments \ used :
          /\ comment' = [comment EXCEPT ![k] = [post |-> q, author |-> handler[h].user,
                                                parent |-> handler[h].comment]]
          /\ handler' = [handler EXCEPT ![h].pc = "comment.count", ![h].comment = k]
          /\ deep' = IF handler[h].comment # None
                        /\ comment[handler[h].comment].parent # None
                     THEN deep \cup {q} ELSE deep
          /\ handler[h].comment # None => comment[handler[h].comment] # None
    BY <1>10 DEF CommentCreate
  <2>. QED BY <1>9, <2>1
<1>. QED BY <1>8, <1>10

\* A removal is the only comment request of its post while the post is calm, so
\* nothing is owed to the counter but its own step.
LEMMA Sole ==
  ASSUME TypeInv, NEW q \in Posts, NEW h \in Handlers,
         handler[h].post = q, handler[h].pc \in Removing, CountHeld(q), Calm(q)
  PROVE  On(q, CommentPCs) = {h} /\ Settled(q) = Cardinality(CommentsOf(q))
<1>1. h \in On(q, Removing) /\ h \in On(q, CommentPCs)
  BY DEF On, Removing, CommentPCs
<1>2. On(q, CommentPCs) = {h}
  BY <1>1 DEF CountHeld, Alone
<1>3. On(q, {"comment.count"}) = {}
  BY <1>2 DEF On, CommentPCs, Removing
<1>4. Waiting(q, "comment.count") = 0
  BY <1>3, FS_EmptySet DEF Waiting
<1>. QED BY <1>2, <1>4, CommentsFinite DEF Settled

\* What a removal that is still the only comment request has to show.
LEMMA SoleAfter ==
  ASSUME TypeInv, TypeInv', NEW h \in Handlers, NEW q \in Posts,
         Begin(h) \/ Proceed(h), On(q, CommentPCs) \subseteq {h},
         handler'[h].pc \in Removing /\ handler'[h].post = q
  PROVE  /\ Alone(q)' /\ On(q, Removing)' = {h}
         /\ Settled(q)' = Cardinality(CommentsOf(q))'
<1>1. On(q, CommentPCs)' = {h} /\ On(q, Removing)' = {h}
  BY OneMoves DEF On, Removing, CommentPCs
<1>2. On(q, {"comment.count"})' = {}
  BY <1>1 DEF On, CommentPCs, Removing
<1>3. Cardinality(CommentsOf(q))' \in Nat
  <2>1. CommentsOf(q)' \subseteq used' /\ IsFiniteSet(used')
    BY DEF CommentsOf, TypeInv, KeysUsed
  <2>. QED BY <2>1, FS_Subset, FS_CardinalityType
<1>4. Waiting(q, "comment.count")' = 0
  BY <1>2, FS_EmptySet DEF Waiting
<1>5. Settled(q)' = Cardinality(CommentsOf(q))'
  BY <1>3, <1>4 DEF Settled
<1>. QED BY <1>1, <1>5 DEF Alone

\* A removal begins: while the post is calm, no other comment request is on.
LEMMA CountRemoveFind ==
  ASSUME TypeInv, TypeInv', CommentInv, RepliesHaveTheirParent', NEW h \in Handlers,
         NEW u \in Users, NEW c \in Comments, RemoveFind(h, u, c)
  PROVE  \A p \in Posts : CountHeld(p)'
<1>1. Begin(h) \/ Proceed(h)
  BY DEF Begin
<1>2. comment[c].post \in Posts
  BY DEF RemoveFind, TypeInv, TypeOK, CommentRow
<1>. PICK q \in Posts : q = comment[c].post
  BY <1>2
<1>3. /\ handler[h].pc = "idle" /\ handler'[h].pc = "remove.tally" /\ handler'[h].post = q
      /\ handler'[h].comment = c
  <2>1. Start(h, "remove.tally", u, q, c)
    BY DEF RemoveFind
  <2>2. handler[h].pc = "idle"
    BY <2>1 DEF Start, Idle
  <2>. QED BY <2>1, <2>2, FieldsAfter
<1>4. UNCHANGED <<comment, commentsCount>> /\ c \in CommentsOf(q)
  BY DEF RemoveFind, CommentsOf
<1>5. ASSUME Calm(q)' PROVE Alone(q)' /\ Flat(q)' /\ Ready(q)' /\ Balance(q)'
  <2>1. Calm(q)
    BY <1>1, <1>5, CalmBefore DEF Next
  <2>2. Alone(q) /\ Flat(q) /\ Ready(q) /\ Balance(q)
    BY <2>1 DEF CommentInv, CountHeld
  <2>3. On(q, CommentPCs) = {}
    BY <1>5 DEF RemoveFind, NoteOverlap, Calm
  <2>4. On(q, {"remove.count"}) = {} /\ On(q, {"comment.count"}) = {}
    BY <2>3 DEF On, CommentPCs
  <2>5. commentsCount[q] = Cardinality(CommentsOf(q))
    <3>1. Waiting(q, "comment.count") = 0
      BY <2>4, FS_EmptySet DEF Waiting
    <3>. QED BY <2>2, <2>4, <3>1, CommentsFinite DEF Balance, Settled
  <2>6. /\ Alone(q)' /\ On(q, Removing)' = {h}
        /\ Settled(q)' = Cardinality(CommentsOf(q))'
    BY <1>1, <1>3, <2>3, SoleAfter DEF Removing
  <2>7. CommentsOf(q)' = CommentsOf(q) /\ Cardinality(CommentsOf(q)) \in Nat
    BY <1>4, CommentsFinite DEF CommentsOf
  <2>8. On(q, {"remove.count"})' = {} /\ On(q, {"remove.tally", "remove.delete"})' = {h}
    BY <1>3, <2>6 DEF On, Removing
  <2>9. Ready(q)'
    BY <1>3, <1>4, <2>7, <2>8 DEF Ready
  <2>10. Balance(q)'
    BY <1>4, <2>5, <2>6, <2>7, <2>8 DEF Balance
  <2>11. Flat(q)'
    BY <1>4, <2>2, <2>7 DEF Flat
  <2>. QED BY <2>6, <2>9, <2>10, <2>11
<1>6. CountHeld(q)'
  BY <1>5 DEF CountHeld
<1>. QED BY <1>1, <1>3, <1>4, <1>6, OtherCounts DEF CommentPCs

\* A removal counts what its DELETE will take.
LEMMA CountRemoveTally ==
  ASSUME TypeInv, TypeInv', CommentInv, RepliesHaveTheirParent', NEW h \in Handlers,
         RemoveTally(h)
  PROVE  \A p \in Posts : CountHeld(p)'
<1>1. Begin(h) \/ Proceed(h)
  BY DEF Proceed
<1>2. handler[h].pc = "remove.tally" /\ handler[h].post \in Posts
  BY DEF RemoveTally, At, TypeInv, LoadedInv, Loaded
<1>. PICK q \in Posts : q = handler[h].post
  BY <1>2
<1>3. /\ handler'[h].pc = "remove.delete" /\ handler'[h].post = q
      /\ handler'[h].comment = handler[h].comment
      /\ handler'[h].removed = Cardinality(Replies(handler[h].comment)) + 1
  <2>1. handler[h] \in HandlerState /\ handler \in [Handlers -> HandlerState]
    BY DEF TypeInv, TypeOK
  <2>. QED BY <2>1 DEF RemoveTally, HandlerState
<1>4. UNCHANGED <<comment, commentsCount>>
  BY DEF RemoveTally, Histories
<1>5. ASSUME Calm(q)' PROVE Alone(q)' /\ Flat(q)' /\ Ready(q)' /\ Balance(q)'
  <2>1. Calm(q)
    BY <1>1, <1>5, CalmBefore DEF Next
  <2>2. Alone(q) /\ Flat(q) /\ Ready(q) /\ Balance(q)
    BY <2>1 DEF CommentInv, CountHeld
  <2>3. On(q, CommentPCs) = {h} /\ Settled(q) = Cardinality(CommentsOf(q))
    BY <1>2, <2>1, Sole DEF Removing, CommentInv
  <2>4. On(q, {"remove.count"}) = {} /\ h \in On(q, {"remove.tally", "remove.delete"})
    BY <1>2, <2>3 DEF On, CommentPCs
  <2>5. commentsCount[q] = Cardinality(CommentsOf(q))
    BY <2>2, <2>3, <2>4 DEF Balance
  <2>6. /\ Alone(q)' /\ On(q, Removing)' = {h}
        /\ Settled(q)' = Cardinality(CommentsOf(q))'
    BY <1>1, <1>3, <2>3, SoleAfter DEF Removing
  <2>7. CommentsOf(q)' = CommentsOf(q)
    BY <1>4 DEF CommentsOf
  <2>8. On(q, {"remove.count"})' = {} /\ On(q, {"remove.tally", "remove.delete"})' = {h}
    BY <1>3, <2>6 DEF On, Removing
  <2>9. Ready(q)'
    <3>1. handler[h].comment \in CommentsOf(q)
      BY <2>2, <2>4 DEF Ready
    <3>. PICK c \in CommentsOf(q) : c = handler[h].comment
      BY <3>1
    <3>2. Replies(c)' = Replies(c)
      BY <1>4 DEF Replies
    <3>3. handler'[h].comment = c /\ handler'[h].removed = Cardinality(Replies(c)) + 1
      BY <1>3
    <3>. QED BY <2>7, <2>8, <3>2, <3>3 DEF Ready
  <2>10. Balance(q)'
    BY <1>4, <2>5, <2>6, <2>7, <2>8 DEF Balance
  <2>11. Flat(q)'
    BY <1>4, <2>2, <2>7 DEF Flat
  <2>. QED BY <2>6, <2>9, <2>10, <2>11
<1>6. CountHeld(q)'
  BY <1>5 DEF CountHeld
<1>7. handler[h].pc \in CommentPCs => handler[h].post = q
  OBVIOUS
<1>. QED BY <1>1, <1>3, <1>4, <1>6, <1>7, OtherCounts

\* The cascade takes comments of one post only.
LEMMA SubtreeOnPost ==
  ASSUME TypeInv, RepliesHaveTheirParent, RemoversKnow, NEW h \in Handlers,
         handler[h].pc \in Removing,
         NEW c \in Subtree(handler[h].comment), comment[c] # None
  PROVE  comment[c].post = handler[h].post
<1>. DEFINE S == {e \in Comments : comment[e] # None => comment[e].post = handler[h].post}
<1>1. handler[h].comment \in S
  BY DEF RemoversKnow, TypeInv, TypeOK, LoadedInv, Loaded, Removing, CommentPCs
<1>2. \A e \in S : Replies(e) \subseteq S
  <2>. SUFFICES ASSUME NEW e \in S, NEW d \in Replies(e) PROVE d \in S
    OBVIOUS
  <2>1. d \in Comments /\ comment[d] # None /\ comment[d].parent = e /\ e # None
    BY DEF Replies
  <2>. QED BY <2>1 DEF RepliesHaveTheirParent
<1>. QED BY <1>1, <1>2 DEF Subtree

\* Where no reply has replies, the cascade takes the comment and its replies.
LEMMA FlatSubtree ==
  ASSUME TypeInv, RepliesHaveTheirParent, NEW q, Flat(q), NEW c \in CommentsOf(q)
  PROVE  /\ Subtree(c) = {c} \cup Replies(c)
         /\ c \notin Replies(c) /\ Replies(c) \subseteq CommentsOf(q)
<1>1. c \in Comments /\ c # None /\ comment[c] # None /\ comment[c].post = q
  BY DEF CommentsOf
<1>2. Replies(c) \subseteq CommentsOf(q)
  BY <1>1 DEF Replies, CommentsOf, RepliesHaveTheirParent
<1>3. ASSUME NEW e \in Replies(c) PROVE Replies(e) = {} /\ e # c
  <2>1. e \in CommentsOf(q) /\ comment[e].parent = c /\ comment[e] # None /\ e \in Comments
    BY <1>2 DEF Replies
  <2>2. comment[c].parent = None
    BY <1>1, <2>1 DEF Flat
  <2>3. ASSUME NEW d \in Replies(e) PROVE FALSE
    <3>1. d \in Comments /\ comment[d] # None /\ comment[d].parent = e /\ e # None
      BY <2>1 DEF Replies
    <3>2. d \in CommentsOf(q)
      BY <2>1, <3>1 DEF RepliesHaveTheirParent, CommentsOf
    <3>3. comment[e].parent = None
      BY <3>1, <3>2 DEF Flat
    <3>. QED BY <1>1, <2>1, <3>3
  <2>. QED BY <1>1, <2>1, <2>2, <2>3
<1>4. {c} \cup Replies(c) \subseteq Subtree(c)
  BY <1>1 DEF Subtree, Replies
<1>5. Subtree(c) \subseteq {c} \cup Replies(c)
  <2>. DEFINE S == {c} \cup Replies(c)
  <2>1. S \in SUBSET Comments /\ c \in S /\ \A e \in S : Replies(e) \subseteq S
    BY <1>1, <1>3 DEF Replies
  <2>. HIDE DEF S
  <2>2. Subtree(c) \subseteq S
    BY <2>1 DEF Subtree
  <2>. QED BY <2>2 DEF S
<1>. QED BY <1>2, <1>3, <1>4, <1>5

\* The cascade takes what the removal has counted.
LEMMA CountRemoveDelete ==
  ASSUME TypeInv, TypeInv', CommentInv, RepliesHaveTheirParent', NEW h \in Handlers,
         RemoveDelete(h)
  PROVE  \A p \in Posts : CountHeld(p)'
<1>1. Begin(h) \/ Proceed(h)
  BY DEF Proceed
<1>2. handler[h].pc = "remove.delete" /\ handler[h].post \in Posts /\ handler[h] \in HandlerState
  BY DEF RemoveDelete, At, TypeInv, TypeOK, LoadedInv, Loaded
<1>. PICK q \in Posts, k \in Comments \cup {None} : q = handler[h].post /\ k = handler[h].comment
  BY <1>2 DEF HandlerState
<1>3. /\ handler'[h].pc = "remove.count" /\ handler'[h].post = q
      /\ handler'[h].removed = handler[h].removed
  BY FieldsAfter DEF RemoveDelete
<1>4. /\ UNCHANGED commentsCount
      /\ comment' = [c \in Comments |-> IF c \in Subtree(k) THEN None ELSE comment[c]]
  BY DEF RemoveDelete
<1>5. ASSUME Calm(q)' PROVE Alone(q)' /\ Flat(q)' /\ Ready(q)' /\ Balance(q)'
  <2>1. Calm(q)
    BY <1>1, <1>5, CalmBefore DEF Next
  <2>2. Alone(q) /\ Flat(q) /\ Ready(q) /\ Balance(q)
    BY <2>1 DEF CommentInv, CountHeld
  <2>3. On(q, CommentPCs) = {h} /\ Settled(q) = Cardinality(CommentsOf(q))
    BY <1>2, <2>1, Sole DEF Removing, CommentInv
  <2>4. On(q, {"remove.count"}) = {} /\ h \in On(q, {"remove.tally", "remove.delete"})
    BY <1>2, <2>3 DEF On, CommentPCs
  <2>5. commentsCount[q] = Cardinality(CommentsOf(q))
    BY <2>2, <2>3, <2>4 DEF Balance
  <2>6. k \in CommentsOf(q) /\ handler[h].removed = Cardinality(Replies(k)) + 1
    BY <1>2, <2>2, <2>4 DEF Ready
  <2>7. /\ Subtree(k) = {k} \cup Replies(k) /\ k \notin Replies(k)
        /\ Replies(k) \subseteq CommentsOf(q)
    BY <2>2, <2>6, FlatSubtree DEF CommentInv
  <2>8. /\ Alone(q)' /\ On(q, Removing)' = {h}
        /\ Settled(q)' = Cardinality(CommentsOf(q))'
    BY <1>1, <1>3, <2>3, SoleAfter DEF Removing
  <2>9. /\ CommentsOf(q)' = CommentsOf(q) \ Subtree(k)
        /\ \A c \in CommentsOf(q)' : comment'[c] = comment[c]
    BY <1>4 DEF CommentsOf
  <2>10. /\ Cardinality(Subtree(k)) = Cardinality(Replies(k)) + 1
         /\ Cardinality(CommentsOf(q) \ Subtree(k)) =
              Cardinality(CommentsOf(q)) - Cardinality(Subtree(k))
    <3>1. Cardinality({k} \cup Replies(k)) = Cardinality(Replies(k)) + 1
      <4>1. {k} \cup Replies(k) = Replies(k) \cup {k} /\ IsFiniteSet(Replies(k))
        BY CommentsFinite
      <4>2. Cardinality(Replies(k) \cup {k}) = Cardinality(Replies(k)) + 1
        BY <2>7, <4>1, FS_AddElement
      <4>. QED BY <4>1, <4>2
    <3>2. CommentsOf(q) \cap Subtree(k) = Subtree(k) /\ IsFiniteSet(CommentsOf(q))
      BY <2>6, <2>7, CommentsFinite
    <3>3. \A T : Cardinality(CommentsOf(q) \ T) =
                   Cardinality(CommentsOf(q)) - Cardinality(CommentsOf(q) \cap T)
      BY <3>2, FS_Difference
    <3>4. Cardinality(Subtree(k)) = Cardinality(Replies(k)) + 1
      BY <2>7, <3>1
    <3>. QED BY <3>2, <3>3, <3>4
  <2>11. Cardinality(CommentsOf(q))' = commentsCount[q] - handler[h].removed
    BY <2>5, <2>6, <2>9, <2>10
  <2>12. On(q, {"remove.count"})' = {h} /\ On(q, {"remove.tally", "remove.delete"})' = {}
    BY <1>3, <2>8 DEF On, Removing
  <2>13. Ready(q)' /\ Balance(q)'
    BY <1>3, <1>4, <2>8, <2>11, <2>12 DEF Ready, Balance
  <2>14. Flat(q)'
    <3>. SUFFICES ASSUME NEW c \in CommentsOf(q)', comment'[c].parent # None
                  PROVE  comment'[comment'[c].parent].parent = None
      BY DEF Flat
    <3>1. c \in CommentsOf(q) /\ comment'[c] = comment[c] /\ c \in Comments /\ comment'[c] # None
      BY <2>9 DEF CommentsOf
    <3>2. comment'[comment[c].parent] # None /\ comment[c].parent \in Comments
      BY <3>1 DEF RepliesHaveTheirParent, TypeInv, TypeOK, CommentRow
    <3>3. comment'[comment[c].parent] = comment[comment[c].parent]
      BY <1>4, <3>2
    <3>. QED BY <2>2, <3>1, <3>3 DEF Flat
  <2>. QED BY <2>8, <2>13, <2>14
<1>6. CountHeld(q)'
  BY <1>5 DEF CountHeld
<1>7. \A c \in Comments : comment'[c] = comment[c] \/
           /\ comment[c] # None => comment[c].post = q
           /\ comment'[c] # None => comment'[c].post = q
  BY <1>2, <1>4, SubtreeOnPost DEF CommentInv, Removing
<1>. QED BY <1>1, <1>3, <1>4, <1>6, <1>7, OtherCounts

\* A removal settles its account.
LEMMA CountRemoveCount ==
  ASSUME TypeInv, TypeInv', CommentInv, RepliesHaveTheirParent', NEW h \in Handlers,
         RemoveCount(h)
  PROVE  \A p \in Posts : CountHeld(p)'
<1>1. Begin(h) \/ Proceed(h)
  BY DEF Proceed
<1>2. handler[h].pc = "remove.count" /\ handler[h].post \in Posts
  BY DEF RemoveCount, At, TypeInv, LoadedInv, Loaded
<1>. PICK q \in Posts : q = handler[h].post
  BY <1>2
<1>3. handler'[h].pc = "idle" /\ UNCHANGED comment
  BY FieldsAfter DEF RemoveCount
<1>4. /\ commentsCount'[q] = commentsCount[q] - handler[h].removed
      /\ \A p \in Posts \ {q} : commentsCount'[p] = commentsCount[p]
  BY DEF RemoveCount, TypeInv, TypeOK
<1>5. ASSUME Calm(q)' PROVE Alone(q)' /\ Flat(q)' /\ Ready(q)' /\ Balance(q)'
  <2>1. Calm(q)
    BY <1>1, <1>5, CalmBefore DEF Next
  <2>2. Flat(q) /\ Balance(q)
    BY <2>1 DEF CommentInv, CountHeld
  <2>3. On(q, CommentPCs) = {h} /\ Settled(q) = Cardinality(CommentsOf(q))
    BY <1>2, <2>1, Sole DEF Removing, CommentInv
  <2>4. h \in On(q, {"remove.count"})
    BY <1>2 DEF On
  <2>5. On(q, CommentPCs)' = {}
    BY <1>3, <2>3, OneMoves, <1>1 DEF On, CommentPCs
  <2>6. /\ On(q, Removing)' = {} /\ On(q, {"remove.tally", "remove.delete"})' = {}
        /\ On(q, {"remove.count"})' = {} /\ On(q, {"comment.count"})' = {}
    BY <2>5 DEF On, CommentPCs, Removing
  <2>7. CommentsOf(q)' = CommentsOf(q) /\ Cardinality(CommentsOf(q)) \in Nat
    BY <1>3, CommentsFinite DEF CommentsOf
  <2>8. Settled(q)' = Cardinality(CommentsOf(q))
    <3>1. Waiting(q, "comment.count")' = 0
      BY <2>6, FS_EmptySet DEF Waiting
    <3>. QED BY <2>7, <3>1 DEF Settled
  <2>9. commentsCount'[q] = Cardinality(CommentsOf(q))
    BY <1>4, <2>2, <2>3, <2>4 DEF Balance
  <2>10. Alone(q)' /\ Ready(q)' /\ Balance(q)'
    BY <2>6, <2>8, <2>9 DEF Alone, Ready, Balance
  <2>11. Flat(q)'
    BY <1>3, <2>2, <2>7 DEF Flat
  <2>. QED BY <2>10, <2>11
<1>6. CountHeld(q)'
  BY <1>5 DEF CountHeld
<1>7. handler'[h].pc \notin CommentPCs
  BY <1>3 DEF CommentPCs
<1>. QED BY <1>1, <1>3, <1>4, <1>6, <1>7, OtherCounts

\* A request that dies excuses its post.
LEMMA CountFail ==
  ASSUME TypeInv, TypeInv', CommentInv, RepliesHaveTheirParent', NEW h \in Handlers, Fail(h)
  PROVE  \A p \in Posts : CountHeld(p)'
<1>1. Begin(h) \/ Proceed(h)
  BY DEF Proceed
<1>2. handler[h].post \in Posts
  BY DEF Fail, TypeInv, LoadedInv, Loaded
<1>. PICK q \in Posts : q = handler[h].post
  BY <1>2
<1>3. handler'[h].pc = "idle" /\ UNCHANGED <<comment, commentsCount>>
  BY FieldsAfter DEF Fail
<1>4. ~Calm(q)'
  <2>1. failures \in [Posts -> 0 .. MaxFailures] /\ MaxFailures \in Nat
    BY DEF TypeInv, TypeOK
  <2>2. failures'[q] = failures[q] + 1 /\ failures[q] \in Nat
    BY <2>1 DEF Fail
  <2>. QED BY <2>2 DEF Calm
<1>5. CountHeld(q)'
  BY <1>4 DEF CountHeld
<1>6. handler'[h].pc \notin CommentPCs
  BY <1>3 DEF CommentPCs
<1>. QED BY <1>1, <1>3, <1>5, <1>6, OtherCounts

\* Every step keeps the accounts of the comments.
LEMMA CommentsInductive ==
  ASSUME TypeInv, TypeInv', CommentInv, RepliesHaveTheirParent', [Next]_vars
  PROVE  CommentInv'
<1>1. RemoversKnow'
  BY RemoversStay DEF CommentInv
<1>2. CASE UNCHANGED vars
  <2>1. UNCHANGED <<comment, commentsCount, handler, failures, deep, overlapped>>
    BY <1>2 DEF vars, Histories
  <2>2. ASSUME NEW p \in Posts PROVE CountHeld(p)'
    <3>1. Alone(p)' = Alone(p) /\ Calm(p)' = Calm(p)
      BY <2>1 DEF Alone, Calm, On
    <3>2. Flat(p)' = Flat(p) /\ CommentsOf(p)' = CommentsOf(p)
      BY <2>1 DEF Flat, CommentsOf
    <3>3. \A c : Replies(c)' = Replies(c)
      BY <2>1 DEF Replies
    <3>4. \A pcs : On(p, pcs)' = On(p, pcs)
      BY <2>1 DEF On
    <3>5. Ready(p)' = Ready(p)
      BY <2>1, <3>2, <3>3, <3>4 DEF Ready
    <3>6. Balance(p)' = Balance(p)
      BY <2>1, <3>2, <3>4 DEF Balance, Settled, Waiting
    <3>. QED BY <3>1, <3>2, <3>5, <3>6 DEF CountHeld, CommentInv
  <2>. QED BY <1>1, <2>2 DEF CommentInv
<1>3. CASE Next
  <2>1. PICK h \in Handlers : Begin(h) \/ Proceed(h)
    BY <1>3 DEF Next
  <2>2. CASE Begin(h)
    BY <1>1, <2>2, CountQuiet, CountWalks, CountRemoveFind DEF Begin, CommentInv
  <2>3. CASE Proceed(h)
    BY <1>1, <2>3, CountQuiet, CountWalks, CountCreate, CountRemoveTally, CountRemoveDelete,
       CountRemoveCount, CountFail DEF Proceed, CommentInv
  <2>. QED BY <2>1, <2>2, <2>3
<1>. QED BY <1>2, <1>3

\* comments_count is the number of comments once comment requests are done,
\* where none died, removals overlapped no other comment request and no one
\* replied to a reply (comment.service.ts create and remove).
THEOREM CommentsAreCounted == Spec => []FlatCommentsCounted
<1>1. Init => CommentInv
  <2>. SUFFICES ASSUME Init PROVE CommentInv
    OBVIOUS
  <2>1. /\ \A c \in Comments : comment[c] = None
        /\ \A h \in Handlers : handler[h].pc = "idle"
    BY DEF Init, Idle
  <2>2. RepliesHaveTheirParent /\ RemoversKnow
    BY <2>1 DEF RepliesHaveTheirParent, RemoversKnow, Removing
  <2>3. ASSUME NEW p \in Posts PROVE Alone(p) /\ Flat(p) /\ Ready(p) /\ Balance(p)
    <3>1. /\ On(p, CommentPCs) = {} /\ On(p, Removing) = {} /\ On(p, {"comment.count"}) = {}
          /\ On(p, {"remove.tally", "remove.delete"}) = {} /\ On(p, {"remove.count"}) = {}
          /\ CommentsOf(p) = {}
      BY <2>1 DEF On, CommentPCs, Removing, CommentsOf
    <3>2. Settled(p) = 0
      BY <3>1, FS_EmptySet DEF Settled, Waiting
    <3>. QED BY <3>1, <3>2 DEF Init, Alone, Flat, Ready, Balance
  <2>. QED BY <2>2, <2>3 DEF CommentInv, CountHeld
<1>2. TypeInv /\ CommentInv => FlatCommentsCounted
  <2>. SUFFICES ASSUME TypeInv, CommentInv, NEW p \in Posts, On(p, CommentPCs) = {},
                       failures[p] = 0, p \notin deep \cup overlapped
                PROVE  commentsCount[p] = Cardinality(CommentsOf(p))
    BY DEF FlatCommentsCounted
  <2>1. On(p, {"remove.count"}) = {} /\ On(p, {"comment.count"}) = {}
    BY DEF On, CommentPCs
  <2>2. Waiting(p, "comment.count") = 0
    BY <2>1, FS_EmptySet DEF Waiting
  <2>3. Balance(p)
    BY DEF CommentInv, CountHeld, Calm
  <2>. QED BY <2>1, <2>2, <2>3, CommentsFinite DEF Balance, Settled
<1>. QED BY <1>1, <1>2, CommentsInductive, TypeCorrect, RepliesKeepTheirParent, PTL
         DEF Spec, TypeInv

-----------------------------------------------------------------------------
(* What the author of a post is told *)

\* A request that owes a post its count and its event.
ReactOwing == {"react.count", "react.publish"}
CommentOwing == {"comment.count", "comment.publish"}
ReactionHeard(p, u) ==
  \/ u = Author[p]
  \/ <<p, u>> \in told
  \/ \E h \in On(p, ReactOwing) : handler[h].user = u
CommentHeard(p, c) ==
  \/ comment[c].author = Author[p]
  \/ c \in told
  \/ \E h \in On(p, CommentOwing) : handler[h].comment = c

\* The comment a request is about to count is the one its user wrote.
WritersKnow ==
  \A h \in Handlers :
    (handler[h].pc = "comment.count" /\ comment[handler[h].comment] # None) =>
      comment[handler[h].comment].author = handler[h].user
TellInv ==
  /\ WritersKnow
  /\ \A p \in Posts :
       failures[p] = 0 => /\ \A u \in reactors[p] : ReactionHeard(p, u)
                          /\ \A c \in CommentsOf(p) : CommentHeard(p, c)

\* A post without failures had none before, and none of its requests just died.
LEMMA NoFailure ==
  ASSUME TypeInv, NEW h \in Handlers, Begin(h) \/ Proceed(h),
         NEW p \in Posts, failures'[p] = 0
  PROVE  failures[p] = 0 /\ ~(Fail(h) /\ handler[h].post = p)
<1>1. failures \in [Posts -> 0 .. MaxFailures] /\ MaxFailures \in Nat
  BY DEF TypeInv, TypeOK
<1>2. CASE Fail(h)
  BY <1>1, <1>2 DEF Fail
<1>3. CASE ~Fail(h)
  <2>1. UNCHANGED failures
    BY <1>3 DEF Histories, Begin, Proceed, ReactFindPost, UnreactFindPost, CommentFindPost,
         RemoveFind, PostRemoveFind, ReactFind, ReactCreate, ReactCount, ReactPublish,
         UnreactDelete, UnreactCount, CommentFindParent, CommentCreate, CommentCount,
         CommentPublish, RemoveTally, RemoveDelete, RemoveCount, PostRemoveWrite
  <2>. QED BY <1>3, <2>1
<1>. QED BY <1>2, <1>3

\* A row that is new or other than before is the one a request just stored.
LEMMA StoredRow ==
  ASSUME TypeInv, NEW h \in Handlers, Begin(h) \/ Proceed(h),
         NEW c \in Comments, comment'[c] # None, comment'[c] # comment[c]
  PROVE  /\ CommentCreate(h)
         /\ handler'[h].pc = "comment.count" /\ handler'[h].comment = c
         /\ handler'[h].user = handler[h].user /\ handler'[h].post = handler[h].post
         /\ comment'[c].author = handler[h].user /\ comment'[c].post = handler[h].post
<1>1. CommentCreate(h)
  <2>1. CASE RemoveDelete(h)
    BY <2>1 DEF RemoveDelete
  <2>2. CASE ~RemoveDelete(h) /\ ~CommentCreate(h)
    BY <2>2 DEF Histories, Begin, Proceed, ReactFindPost, UnreactFindPost, CommentFindPost,
         RemoveFind, PostRemoveFind, ReactFind, ReactCreate, ReactCount, ReactPublish,
         UnreactDelete, UnreactCount, CommentFindParent, CommentCount,
         CommentPublish, RemoveTally, RemoveCount, PostRemoveWrite, Fail
  <2>. QED BY <2>1, <2>2
<1>2. PICK k \in Comments \ used :
        /\ comment' = [comment EXCEPT ![k] = [post |-> handler[h].post,
                                              author |-> handler[h].user,
                                              parent |-> handler[h].comment]]
        /\ handler' = [handler EXCEPT ![h].pc = "comment.count", ![h].comment = k]
  BY <1>1 DEF CommentCreate
<1>3. /\ handler[h] \in HandlerState /\ handler \in [Handlers -> HandlerState]
      /\ comment \in [Comments -> CommentRow \cup {None}]
  BY DEF TypeInv, TypeOK
<1>4. c = k
  BY <1>2, <1>3
<1>. QED BY <1>1, <1>2, <1>3, <1>4 DEF HandlerState

\* Only storing a comment leads to its count.
LEMMA WritersStay ==
  ASSUME TypeInv, WritersKnow, NEW h \in Handlers, Begin(h) \/ Proceed(h)
  PROVE  WritersKnow'
<1>. SUFFICES ASSUME NEW g \in Handlers, handler'[g].pc = "comment.count",
                     comment'[handler'[g].comment] # None
              PROVE  comment'[handler'[g].comment].author = handler'[g].user
  BY DEF WritersKnow
<1>1. CASE g # h
  <2>1. handler'[g] = handler[g]
    BY <1>1, OneMoves
  <2>2. handler[g].comment \in used /\ handler[g].comment \in Comments
    BY <2>1 DEF TypeInv, TypeOK, LoadedInv, Loaded, CommentPCs
  <2>3. comment'[handler[g].comment] = comment[handler[g].comment]
    BY <2>1, <2>2, RowsOnlyGo DEF RowsStay, Next
  <2>. QED BY <2>1, <2>3 DEF WritersKnow
<1>2. CASE g = h
  <2>1. CommentCreate(h)
    <3>1. CASE Begin(h)
      <4>1. \E u, p, c : \E pc \in {"react.find", "unreact.delete", "comment.create",
                  "comment.parent", "remove.tally", "post.delete"} : Start(h, pc, u, p, c)
        BY <3>1 DEF Begin, ReactFindPost, UnreactFindPost, CommentFindPost, PostRemoveFind,
                    RemoveFind
      <4>. QED BY <1>2, <4>1, FieldsAfter
    <3>2. CASE RemoveTally(h)
      <4>1. handler[h] \in HandlerState /\ handler \in [Handlers -> HandlerState]
        BY DEF TypeInv, TypeOK
      <4>. QED BY <1>2, <3>2, <4>1 DEF RemoveTally, HandlerState
    <3>3. CASE \/ ReactFind(h) \/ ReactCreate(h) \/ ReactCount(h) \/ ReactPublish(h)
               \/ UnreactDelete(h) \/ UnreactCount(h) \/ CommentFindParent(h)
               \/ CommentCount(h) \/ CommentPublish(h) \/ RemoveDelete(h)
               \/ RemoveCount(h) \/ PostRemoveWrite(h) \/ Fail(h)
      <4>1. Finish(h) \/ \E pc \in {"react.create", "react.count", "react.publish",
                 "unreact.count", "comment.create", "comment.publish", "remove.count"} :
                 Continue(h, pc)
        BY <3>3 DEF ReactFind, ReactCreate, ReactCount, ReactPublish, UnreactDelete,
             UnreactCount, CommentFindParent, CommentCount, CommentPublish, RemoveDelete,
             RemoveCount, PostRemoveWrite, Fail, NotifyNext
      <4>. QED BY <1>2, <4>1, FieldsAfter
    <3>. QED BY <3>1, <3>2, <3>3 DEF Proceed
  <2>2. handler'[h].comment \in Comments /\ comment'[handler'[h].comment] # comment[handler'[h].comment]
    <3>1. handler[h] \in HandlerState /\ handler \in [Handlers -> HandlerState]
      BY DEF TypeInv, TypeOK
    <3>2. ~Finish(h)
      BY <1>2, FieldsAfter
    <3>3. PICK k \in Comments \ used :
            handler' = [handler EXCEPT ![h].pc = "comment.count", ![h].comment = k]
      BY <2>1, <3>2 DEF CommentCreate
    <3>4. handler'[h].comment = k /\ comment[k] = None
      BY <3>1, <3>3 DEF HandlerState, TypeInv, KeysUsed
    <3>. QED BY <1>2, <3>4
  <2>. QED BY <1>2, <2>2, StoredRow
<1>. QED BY <1>1, <1>2

\* A reaction stays told of, or owed by the request that made it.
LEMMA ReactionsHeard ==
  ASSUME TypeInv, TellInv, NEW h \in Handlers, Begin(h) \/ Proceed(h),
         NEW p \in Posts, failures'[p] = 0, NEW u \in reactors'[p]
  PROVE  ReactionHeard(p, u)'
<1>. SUFFICES ASSUME u # Author[p]
              PROVE  <<p, u>> \in told' \/ \E g \in On(p, ReactOwing)' : handler'[g].user = u
  BY DEF ReactionHeard
<1>1. failures[p] = 0 /\ ~(Fail(h) /\ handler[h].post = p)
  BY NoFailure
<1>2. /\ reactors \in [Posts -> SUBSET Users] /\ handler \in [Handlers -> HandlerState]
      /\ handler[h] \in HandlerState
  BY DEF TypeInv, TypeOK
<1>3. CASE u \notin reactors[p]
  <2>1. ReactCreate(h) /\ handler[h].post = p /\ handler[h].user = u
        /\ Continue(h, "react.count")
    <3>1. UNCHANGED reactors \/ ReactCreate(h) \/ UnreactDelete(h)
      BY DEF Histories, Begin, Proceed, ReactFindPost, UnreactFindPost, CommentFindPost,
         RemoveFind, PostRemoveFind, ReactFind, ReactCount, ReactPublish,
         UnreactCount, CommentFindParent, CommentCreate, CommentCount,
         CommentPublish, RemoveTally, RemoveDelete, RemoveCount, PostRemoveWrite, Fail
    <3>2. ~UnreactDelete(h)
      BY <1>2, <1>3 DEF UnreactDelete
    <3>. QED BY <1>2, <1>3, <3>1, <3>2 DEF ReactCreate
  <2>2. handler'[h].pc = "react.count" /\ handler'[h].post = p /\ handler'[h].user = u
    BY <2>1, FieldsAfter
  <2>. QED BY <2>2 DEF On, ReactOwing
<1>4. CASE u \in reactors[p] /\ <<p, u>> \in told
  <2>1. told \subseteq told' \/ UnreactDelete(h)
    BY DEF Histories, Begin, Proceed, ReactFindPost, UnreactFindPost, CommentFindPost,
         RemoveFind, PostRemoveFind, ReactFind, ReactCreate, ReactCount, ReactPublish,
         UnreactCount, CommentFindParent, CommentCreate, CommentCount,
         CommentPublish, RemoveTally, RemoveDelete, RemoveCount, PostRemoveWrite, Fail
  <2>2. ASSUME UnreactDelete(h), handler[h].post = p PROVE handler[h].user # u
    BY <1>2, <2>2 DEF UnreactDelete
  <2>3. UnreactDelete(h) => <<p, u>> \in told'
    BY <1>4, <2>2 DEF UnreactDelete
  <2>. QED BY <1>4, <2>1, <2>3
<1>5. ASSUME NEW g \in On(p, ReactOwing), handler[g].user = u
      PROVE  <<p, u>> \in told' \/ \E f \in On(p, ReactOwing)' : handler'[f].user = u
  <2>0. g \in Handlers /\ handler[g].post = p /\ handler[g].pc \in ReactOwing
    BY DEF On
  <2>1. CASE g # h
    <3>1. handler'[g] = handler[g]
      BY <2>1, <2>0, OneMoves
    <3>. QED BY <1>5, <2>0, <3>1 DEF On
  <2>2. CASE g = h
    <3>1. ReactCount(h) \/ ReactPublish(h)
      <4>1. ~Begin(h) /\ ~Fail(h)
        BY <1>1, <2>0, <2>2 DEF Begin, ReactFindPost, UnreactFindPost, CommentFindPost,
           RemoveFind, PostRemoveFind, Start, Idle, ReactOwing
      <4>. QED BY <2>0, <2>2, <4>1 DEF ReactOwing, Proceed, At, ReactFind, ReactCreate,
         UnreactDelete, UnreactCount, CommentFindParent, CommentCreate, CommentCount,
         CommentPublish, RemoveTally, RemoveDelete, RemoveCount, PostRemoveWrite
    <3>2. CASE ReactCount(h)
      <4>1. Continue(h, "react.publish")
        BY <1>5, <2>0, <2>2, <3>2 DEF ReactCount, NotifyNext
      <4>2. handler'[h].pc = "react.publish" /\ handler'[h].post = p /\ handler'[h].user = u
        BY <1>5, <2>0, <2>2, <4>1, FieldsAfter
      <4>. QED BY <4>2 DEF On, ReactOwing
    <3>3. CASE ReactPublish(h)
      BY <1>5, <2>0, <2>2, <3>3 DEF ReactPublish
    <3>. QED BY <3>1, <3>2, <3>3
  <2>. QED BY <2>1, <2>2
<1>6. u \in reactors[p] => ReactionHeard(p, u)
  BY <1>1 DEF TellInv
<1>. QED BY <1>3, <1>4, <1>5, <1>6 DEF ReactionHeard

\* A comment stays told of, or owed by the request that stored it.
LEMMA CommentsHeard ==
  ASSUME TypeInv, TellInv, NEW h \in Handlers, Begin(h) \/ Proceed(h),
         NEW p \in Posts, failures'[p] = 0, NEW c \in CommentsOf(p)'
  PROVE  CommentHeard(p, c)'
<1>. SUFFICES ASSUME comment'[c].author # Author[p]
              PROVE  c \in told' \/ \E g \in On(p, CommentOwing)' : handler'[g].comment = c
  BY DEF CommentHeard
<1>1. failures[p] = 0 /\ ~(Fail(h) /\ handler[h].post = p)
  BY NoFailure
<1>2. c \in Comments /\ comment'[c] # None /\ comment'[c].post = p
  BY DEF CommentsOf
<1>3. CASE comment'[c] # comment[c]
  <2>1. handler'[h].pc = "comment.count" /\ handler'[h].post = p /\ handler'[h].comment = c
    BY <1>2, <1>3, StoredRow
  <2>. QED BY <2>1 DEF On, CommentOwing
<1>4. CASE comment'[c] = comment[c] /\ c \in told
  <2>1. told \subseteq told' \/ UnreactDelete(h)
    BY DEF Histories, Begin, Proceed, ReactFindPost, UnreactFindPost, CommentFindPost,
         RemoveFind, PostRemoveFind, ReactFind, ReactCreate, ReactCount, ReactPublish,
         UnreactCount, CommentFindParent, CommentCreate, CommentCount,
         CommentPublish, RemoveTally, RemoveDelete, RemoveCount, PostRemoveWrite, Fail
  <2>2. CASE UnreactDelete(h)
    <3>1. handler[h].post \in Posts /\ handler[h].user \in Users
      BY <2>2 DEF UnreactDelete, At, TypeInv, LoadedInv, Loaded
    <3>2. c # <<handler[h].post, handler[h].user>>
      BY <1>2, <3>1, ToldAssumption
    <3>. QED BY <1>4, <2>2, <3>2 DEF UnreactDelete
  <2>. QED BY <1>4, <2>1, <2>2
<1>5. ASSUME comment'[c] = comment[c], NEW g \in On(p, CommentOwing), handler[g].comment = c
      PROVE  c \in told' \/ \E f \in On(p, CommentOwing)' : handler'[f].comment = c
  <2>0. g \in Handlers /\ handler[g].post = p /\ handler[g].pc \in CommentOwing
    BY DEF On
  <2>1. CASE g # h
    <3>1. handler'[g] = handler[g]
      BY <2>1, <2>0, OneMoves
    <3>. QED BY <1>5, <2>0, <3>1 DEF On
  <2>2. CASE g = h
    <3>1. CommentCount(h) \/ CommentPublish(h)
      <4>1. ~Begin(h) /\ ~Fail(h)
        BY <1>1, <2>0, <2>2 DEF Begin, ReactFindPost, UnreactFindPost, CommentFindPost,
           RemoveFind, PostRemoveFind, Start, Idle, CommentOwing
      <4>. QED BY <2>0, <2>2, <4>1 DEF CommentOwing, Proceed, At, ReactFind, ReactCreate,
         UnreactDelete, UnreactCount, CommentFindParent, CommentCreate, ReactCount,
         ReactPublish, RemoveTally, RemoveDelete, RemoveCount, PostRemoveWrite
    <3>2. CASE CommentCount(h)
      <4>1. handler[h].pc = "comment.count" /\ handler[h].post = p /\ handler[h].comment = c
        BY <1>5, <2>0, <2>2, <3>2 DEF CommentCount, At
      <4>2. handler[h].user # Author[p]
        BY <1>2, <1>5, <4>1 DEF TellInv, WritersKnow
      <4>3. Continue(h, "comment.publish")
        BY <3>2, <4>1, <4>2 DEF CommentCount, NotifyNext
      <4>4. handler'[h].pc = "comment.publish" /\ handler'[h].post = p /\ handler'[h].comment = c
        BY <4>1, <4>3, FieldsAfter
      <4>. QED BY <4>4 DEF On, CommentOwing
    <3>3. CASE CommentPublish(h)
      BY <1>5, <2>0, <2>2, <3>3 DEF CommentPublish
    <3>. QED BY <3>1, <3>2, <3>3
  <2>. QED BY <2>1, <2>2
<1>6. comment'[c] = comment[c] => CommentHeard(p, c)
  BY <1>1, <1>2 DEF TellInv, CommentsOf
<1>. QED BY <1>3, <1>4, <1>5, <1>6 DEF CommentHeard

\* No reaction or comment of another user goes untold to the author of the post:
\* it was published, a request is still to publish it, or one of the post died.
THEOREM AuthorsHear == Spec => []AuthorsAreTold
<1>1. Init => TellInv
  BY DEF Init, TellInv, WritersKnow, Idle, CommentsOf
<1>2. ASSUME TypeInv, TellInv, [Next]_vars PROVE TellInv'
  <2>1. CASE UNCHANGED vars
    BY <1>2, <2>1 DEF vars, Histories, TellInv, WritersKnow, ReactionHeard, CommentHeard,
                      CommentsOf, On
  <2>2. ASSUME NEW h \in Handlers, Begin(h) \/ Proceed(h) PROVE TellInv'
    <3>1. WritersKnow'
      BY <1>2, <2>2, WritersStay DEF TellInv
    <3>2. ASSUME NEW p \in Posts, failures'[p] = 0
          PROVE  /\ \A u \in reactors'[p] : ReactionHeard(p, u)'
                 /\ \A c \in CommentsOf(p)' : CommentHeard(p, c)'
      BY <1>2, <2>2, <3>2, ReactionsHeard, CommentsHeard
    <3>. QED BY <3>1, <3>2 DEF TellInv
  <2>. QED BY <1>2, <2>1, <2>2 DEF Next
<1>3. TellInv => AuthorsAreTold
  BY DEF TellInv, AuthorsAreTold, ReactionHeard, CommentHeard, ReactOwing, CommentOwing
<1>. QED BY <1>1, <1>2, <1>3, TypeCorrect, PTL DEF Spec, TypeInv
=============================================================================
