---------------------------- MODULE PostEngagement ----------------------------
(***************************************************************************)
(* Reactions and comments of post-service and the two counters the posts   *)
(* table keeps of them.  A handler writes the reaction or comment row and  *)
(* the counter in separate statements, so other handlers, a failure and    *)
(* the removal of the post fall between them.                              *)
(*                                                                         *)
(* Left out: the type of a reaction (react on an existing row changes at   *)
(* most that) and the text of a comment.  assertCanView either passes or   *)
(* ends the handler without effect; a step stands for a request it passes. *)
(***************************************************************************)
EXTENDS Integers, FiniteSets

CONSTANTS Users, Posts, Comments, Handlers,
          Author,       \* the author of each post
          MaxFailures,  \* bound: handlers that die, per post
          None

ASSUME EngagementAssumption ==
  /\ IsFiniteSet(Users) /\ IsFiniteSet(Handlers)
  /\ Author \in [Posts -> Users]
  /\ MaxFailures \in Nat
  /\ None \notin Users \cup Posts \cup Comments

VARIABLES deleted,        \* posts with deleted_at set
          reactors,       \* the reactions table: who reacted to each post
          likes,          \* posts.likes_count
          comment,        \* the comments table, by primary key
          commentsCount,  \* posts.comments_count
          told,           \* post.reacted and post.commented events confirmed
          handler,        \* requests in progress
          used,           \* history: comment keys ever given out
          failures,       \* history: handlers that died, per post
          deep,           \* history: posts where a reply was replied to
          overlapped      \* history: posts where a comment removal overlapped
                          \* another comment handler

vars == <<deleted, reactors, likes, comment, commentsCount, told, handler,
          used, failures, deep, overlapped>>
-----------------------------------------------------------------------------
CommentRow == [post : Posts, author : Users, parent : Comments \cup {None}]
ASSUME NoCommentAssumption == None \notin CommentRow
\* told holds reactions, as pairs, and comments, by their key: no key is a pair.
ASSUME ToldAssumption == Comments \cap (Posts \X Users) = {}

ReactPCs == {"react.find", "react.create", "react.count", "react.publish",
             "unreact.delete", "unreact.count"}
CommentPCs == {"comment.parent", "comment.create", "comment.count", "comment.publish",
               "remove.tally", "remove.delete", "remove.count"}
PCs == {"idle", "post.delete"} \cup ReactPCs \cup CommentPCs

\* comment: the parent until the row is created, then the row itself; the row
\* to delete.  removed: what countWithReplies answered.
HandlerState == [pc : PCs, user : Users \cup {None}, post : Posts \cup {None},
                 comment : Comments \cup {None}, removed : Nat]
Idle == [pc |-> "idle", user |-> None, post |-> None, comment |-> None, removed |-> 0]

TypeOK ==
  /\ deleted \subseteq Posts
  /\ reactors \in [Posts -> SUBSET Users]
  /\ likes \in [Posts -> Int]
  /\ comment \in [Comments -> CommentRow \cup {None}]
  /\ commentsCount \in [Posts -> Int]
  /\ told \subseteq (Posts \X Users) \cup Comments
  /\ handler \in [Handlers -> HandlerState]
  /\ used \subseteq Comments
  /\ failures \in [Posts -> 0 .. MaxFailures]
  /\ deep \subseteq Posts /\ overlapped \subseteq Posts
-----------------------------------------------------------------------------
CommentsOf(p) == {c \in Comments : comment[c] # None /\ comment[c].post = p}
Replies(c) == {d \in Comments : comment[d] # None /\ comment[d].parent = c}

\* What ON DELETE CASCADE on parent_id removes: the comment, its replies,
\* their replies ...: the least set that holds c and every reply to a member.
Subtree(c) ==
  {d \in Comments :
     \A S \in SUBSET Comments :
       (c \in S /\ \A e \in S : Replies(e) \subseteq S) => d \in S}

At(h, pc) == handler[h].pc = pc
On(p, pcs) == {h \in Handlers : handler[h].post = p /\ handler[h].pc \in pcs}

Start(h, pc, u, p, c) ==
  /\ handler[h] = Idle
  /\ handler' = [handler EXCEPT ![h] = [pc |-> pc, user |-> u, post |-> p,
                                        comment |-> c, removed |-> 0]]
Continue(h, pc) == handler' = [handler EXCEPT ![h].pc = pc]
Finish(h) == handler' = [handler EXCEPT ![h] = Idle]
\* publish only when someone other than the author acts
NotifyNext(h, pc) == IF Author[handler[h].post] # handler[h].user
                     THEN Continue(h, pc) ELSE Finish(h)

Histories == <<used, failures, deep, overlapped>>
-----------------------------------------------------------------------------
(* reaction.service.ts: react and unreact *)

ReactFindPost(h, u, p) ==
  /\ p \notin deleted                                     \* else 404
  /\ Start(h, "react.find", u, p, None)
  /\ UNCHANGED <<deleted, reactors, likes, comment, commentsCount, told, Histories>>

\* An existing reaction has its type updated at most: no count, no event.
ReactFind(h) ==
  /\ At(h, "react.find")
  /\ IF handler[h].user \in reactors[handler[h].post]
     THEN Finish(h) ELSE Continue(h, "react.create")
  /\ UNCHANGED <<deleted, reactors, likes, comment, commentsCount, told, Histories>>

\* Mutant of ReactCreate: findOrCreate that goes on as if it had created the row.
ReactFindOrCreate(h) ==
  /\ At(h, "react.create")
  /\ reactors' = [reactors EXCEPT ![handler[h].post] = @ \cup {handler[h].user}]
  /\ Continue(h, "react.count")
  /\ UNCHANGED <<deleted, likes, comment, commentsCount, told, Histories>>

\* Unique index on (post_id, user_id): the second of two creations fails (500).
ReactCreate(h) ==
  /\ At(h, "react.create")
  /\ \/ /\ handler[h].user \notin reactors[handler[h].post]
        /\ reactors' = [reactors EXCEPT ![handler[h].post] = @ \cup {handler[h].user}]
        /\ Continue(h, "react.count")
     \/ /\ handler[h].user \in reactors[handler[h].post]
        /\ Finish(h)
        /\ UNCHANGED reactors
  /\ UNCHANGED <<deleted, likes, comment, commentsCount, told, Histories>>

\* Mutant of ReactCount: the author's own posts are the ones notified.
ReactCountThenNotifySelf(h) ==
  /\ At(h, "react.count")
  /\ likes' = [likes EXCEPT ![handler[h].post] = @ + 1]
  /\ IF Author[handler[h].post] = handler[h].user
     THEN Continue(h, "react.publish") ELSE Finish(h)
  /\ UNCHANGED <<deleted, reactors, comment, commentsCount, told, Histories>>

ReactCount(h) ==
  /\ At(h, "react.count")
  /\ likes' = [likes EXCEPT ![handler[h].post] = @ + 1]
  /\ NotifyNext(h, "react.publish")
  /\ UNCHANGED <<deleted, reactors, comment, commentsCount, told, Histories>>

\* Mutant of ReactPublish: the event does not say which post it is about.
ReactPublishWithoutPost(h) ==
  /\ At(h, "react.publish")
  /\ told' = told \cup {handler[h].user}
  /\ Finish(h)
  /\ UNCHANGED <<deleted, reactors, likes, comment, commentsCount, Histories>>

ReactPublish(h) ==
  /\ At(h, "react.publish")
  /\ told' = told \cup {<<handler[h].post, handler[h].user>>}
  /\ Finish(h)
  /\ UNCHANGED <<deleted, reactors, likes, comment, commentsCount, Histories>>

UnreactFindPost(h, u, p) ==
  /\ p \notin deleted
  /\ Start(h, "unreact.delete", u, p, None)
  /\ UNCHANGED <<deleted, reactors, likes, comment, commentsCount, told, Histories>>

\* DELETE answers how many rows it removed; only then is the counter touched.
\* (told forgets the reaction that is gone.)
UnreactDelete(h) ==
  /\ At(h, "unreact.delete")
  /\ LET p == handler[h].post
         u == handler[h].user
     IN  /\ reactors' = [reactors EXCEPT ![p] = @ \ {u}]
         /\ told' = told \ {<<p, u>>}
         /\ IF u \in reactors[p] THEN Continue(h, "unreact.count") ELSE Finish(h)
  /\ UNCHANGED <<deleted, likes, comment, commentsCount, Histories>>

UnreactCount(h) ==
  /\ At(h, "unreact.count")
  /\ likes' = [likes EXCEPT ![handler[h].post] = @ - 1]
  /\ Finish(h)
  /\ UNCHANGED <<deleted, reactors, comment, commentsCount, told, Histories>>
-----------------------------------------------------------------------------
(* comment.service.ts: create *)

\* A removal overlaps whatever other comment handler works on the post.
NoteOverlap(p, pc) ==
  overlapped' = IF \/ pc = "remove.tally" /\ On(p, CommentPCs) # {}
                   \/ On(p, {"remove.tally", "remove.delete", "remove.count"}) # {}
                THEN overlapped \cup {p} ELSE overlapped

CommentFindPost(h, u, p, parent) ==
  /\ p \notin deleted
  /\ LET pc == IF parent = None THEN "comment.create" ELSE "comment.parent" IN
     /\ Start(h, pc, u, p, parent)
     /\ NoteOverlap(p, pc)
  /\ UNCHANGED <<deleted, reactors, likes, comment, commentsCount, told,
                 used, failures, deep>>

\* Mutant of CommentFindParent: the parent need only exist.
CommentFindAnyParent(h) ==
  /\ At(h, "comment.parent")
  /\ IF comment[handler[h].comment] # None
     THEN Continue(h, "comment.create") ELSE Finish(h)
  /\ UNCHANGED <<deleted, reactors, likes, comment, commentsCount, told, Histories>>

\* The parent must exist and belong to the post, else 400.
CommentFindParent(h) ==
  /\ At(h, "comment.parent")
  /\ IF handler[h].comment \in CommentsOf(handler[h].post)
     THEN Continue(h, "comment.create") ELSE Finish(h)
  /\ UNCHANGED <<deleted, reactors, likes, comment, commentsCount, told, Histories>>

\* The foreign key refuses a parent deleted since it was read (500).
CommentCreate(h) ==
  /\ At(h, "comment.create")
  /\ LET p == handler[h].post
         parent == handler[h].comment
     IN
     IF parent # None /\ comment[parent] = None
     THEN Finish(h) /\ UNCHANGED <<comment, used, deep>>
     ELSE \E c \in Comments \ used :
            /\ comment' = [comment EXCEPT ![c] = [post |-> p, author |-> handler[h].user,
                                                  parent |-> parent]]
            /\ used' = used \cup {c}
            /\ deep' = IF parent # None /\ comment[parent].parent # None
                       THEN deep \cup {p} ELSE deep
            /\ handler' = [handler EXCEPT ![h].pc = "comment.count", ![h].comment = c]
  /\ UNCHANGED <<deleted, reactors, likes, commentsCount, told, failures, overlapped>>

CommentCount(h) ==
  /\ At(h, "comment.count")
  /\ commentsCount' = [commentsCount EXCEPT ![handler[h].post] = @ + 1]
  /\ NotifyNext(h, "comment.publish")
  /\ UNCHANGED <<deleted, reactors, likes, comment, told, Histories>>

CommentPublish(h) ==
  /\ At(h, "comment.publish")
  /\ told' = told \cup {handler[h].comment}
  /\ Finish(h)
  /\ UNCHANGED <<deleted, reactors, likes, comment, commentsCount, Histories>>
-----------------------------------------------------------------------------
(* comment.service.ts: remove *)

RemoveFind(h, u, c) ==
  /\ comment[c] # None                                    \* else 404
  /\ comment[c].author = u                                \* else 403
  /\ Start(h, "remove.tally", u, comment[c].post, c)
  /\ NoteOverlap(comment[c].post, "remove.tally")
  /\ UNCHANGED <<deleted, reactors, likes, comment, commentsCount, told,
                 used, failures, deep>>

\* countWithReplies: the comment and its direct replies.
RemoveTally(h) ==
  /\ At(h, "remove.tally")
  /\ handler' = [handler EXCEPT ![h].pc = "remove.delete",
                                ![h].removed = Cardinality(Replies(handler[h].comment)) + 1]
  /\ UNCHANGED <<deleted, reactors, likes, comment, commentsCount, told, Histories>>

\* Mutant of RemoveDelete: replies are left behind, as with ON DELETE SET NULL.
RemoveDetachesReplies(h) ==
  /\ At(h, "remove.delete")
  /\ LET gone == handler[h].comment IN
     comment' = [c \in Comments |->
                   IF c = gone THEN None
                   ELSE IF c \in Replies(gone) THEN [comment[c] EXCEPT !.parent = None]
                   ELSE comment[c]]
  /\ Continue(h, "remove.count")
  /\ UNCHANGED <<deleted, reactors, likes, commentsCount, told, Histories>>

RemoveDelete(h) ==
  /\ At(h, "remove.delete")
  /\ LET gone == Subtree(handler[h].comment) IN
     comment' = [c \in Comments |-> IF c \in gone THEN None ELSE comment[c]]
  /\ Continue(h, "remove.count")
  /\ UNCHANGED <<deleted, reactors, likes, commentsCount, told, Histories>>

RemoveCount(h) ==
  /\ At(h, "remove.count")
  /\ commentsCount' = [commentsCount EXCEPT ![handler[h].post] = @ - handler[h].removed]
  /\ Finish(h)
  /\ UNCHANGED <<deleted, reactors, likes, comment, told, Histories>>
-----------------------------------------------------------------------------
(* post.service.ts: remove, a soft delete that leaves every row in place *)

PostRemoveFind(h, p) ==
  /\ p \notin deleted
  /\ Start(h, "post.delete", Author[p], p, None)
  /\ UNCHANGED <<deleted, reactors, likes, comment, commentsCount, told, Histories>>

PostRemoveWrite(h) ==
  /\ At(h, "post.delete")
  /\ deleted' = deleted \cup {handler[h].post}
  /\ Finish(h)
  /\ UNCHANGED <<reactors, likes, comment, commentsCount, told, Histories>>

\* A statement or a publish fails, or the process dies between two of them.
Fail(h) ==
  /\ handler[h].pc # "idle"
  /\ failures[handler[h].post] < MaxFailures
  /\ failures' = [failures EXCEPT ![handler[h].post] = @ + 1]
  /\ Finish(h)
  /\ UNCHANGED <<deleted, reactors, likes, comment, commentsCount, told,
                 used, deep, overlapped>>
-----------------------------------------------------------------------------
Init ==
  /\ deleted = {}
  /\ reactors = [p \in Posts |-> {}]
  /\ likes = [p \in Posts |-> 0]
  /\ comment = [c \in Comments |-> None]
  /\ commentsCount = [p \in Posts |-> 0]
  /\ told = {}
  /\ handler = [h \in Handlers |-> Idle]
  /\ used = {} /\ deep = {} /\ overlapped = {}
  /\ failures = [p \in Posts |-> 0]

Begin(h) ==
  \/ \E u \in Users, p \in Posts : ReactFindPost(h, u, p) \/ UnreactFindPost(h, u, p)
  \/ \E u \in Users, p \in Posts, c \in used \cup {None} : CommentFindPost(h, u, p, c)
  \/ \E u \in Users, c \in Comments : RemoveFind(h, u, c)
  \/ \E p \in Posts : PostRemoveFind(h, p)
Proceed(h) ==
  \/ ReactFind(h) \/ ReactCreate(h) \/ ReactCount(h) \/ ReactPublish(h)
  \/ UnreactDelete(h) \/ UnreactCount(h)
  \/ CommentFindParent(h) \/ CommentCreate(h) \/ CommentCount(h) \/ CommentPublish(h)
  \/ RemoveTally(h) \/ RemoveDelete(h) \/ RemoveCount(h)
  \/ PostRemoveWrite(h)
  \/ Fail(h)

Next == \E h \in Handlers : Begin(h) \/ Proceed(h)
Spec == Init /\ [][Next]_vars
-----------------------------------------------------------------------------
\* When no handler stands between a reaction row and the counter, likes_count
\* is the number of reactions, give or take one per handler that died
\* (reaction.service.ts: the counter moves only with a row that was created or
\* removed).
LikesMatchReactions ==
  \A p \in Posts :
    On(p, {"react.count", "unreact.count"}) = {} =>
      LET drift == likes[p] - Cardinality(reactors[p])
      IN  -failures[p] <= drift /\ drift <= failures[p]

\* The comment counter is exact once comment handlers are done, provided none
\* died, removals did not overlap other comment handlers and no one replied to
\* a reply (comment.service.ts create and remove).
FlatCommentsCounted ==
  \A p \in Posts :
    (On(p, CommentPCs) = {} /\ failures[p] = 0 /\ p \notin deep \cup overlapped) =>
      commentsCount[p] = Cardinality(CommentsOf(p))

\* A reply and its parent are comments of one post, both there, although the
\* parent is checked two statements before the reply is stored.
RepliesHaveTheirParent ==
  \A c \in Comments :
    (comment[c] # None /\ comment[c].parent # None) =>
      /\ comment[comment[c].parent] # None
      /\ comment[comment[c].parent].post = comment[c].post

\* No reaction or comment of another user goes untold to the author: it was
\* published, its handler is still on the way, or a handler of the post died.
AuthorsAreTold ==
  \A p \in Posts :
    failures[p] = 0 =>
      /\ \A u \in reactors[p] \ {Author[p]} :
           \/ <<p, u>> \in told
           \/ \E h \in On(p, {"react.count", "react.publish"}) : handler[h].user = u
      /\ \A c \in CommentsOf(p) :
           \/ comment[c].author = Author[p]
           \/ c \in told
           \/ \E h \in On(p, {"comment.count", "comment.publish"}) : handler[h].comment = c

\* What comment.service.ts says of remove: "Direct replies cascade; the post
\* counter is corrected."  With no removal overlapping another handler and none
\* dying, the counter is the number of comments left.
RemovalCorrectsCounter ==
  \A p \in Posts :
    (On(p, CommentPCs) = {} /\ failures[p] = 0 /\ p \notin overlapped) =>
      commentsCount[p] = Cardinality(CommentsOf(p))
=============================================================================
