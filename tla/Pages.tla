--------------------------------- MODULE Pages ---------------------------------
(***************************************************************************)
(* The lists a client pages through, and one client who does: by cursor    *)
(* (feed, posts of a hashtag, comments, messages, notifications), where a  *)
(* page asks for rows older than the last one seen, and by offset (jobs,   *)
(* companies, search), where it asks for the next rows of a count.  Rows   *)
(* come and go, and connections with them, between two requests, and       *)
(* between the two calls of a feed request.                                *)
(***************************************************************************)
EXTENDS Absent, Integers, FiniteSetsExt

CONSTANTS Rows, Members,
          Viewer,      \* the client
          Author,      \* of each row
          Following,   \* whom the viewer follows
          Times,       \* values of createdAt, newest highest
          Asked,       \* the query's limit, 0 for one that is no number
          DefaultLimit, MaxLimit,
          ResultWindow,  \* Elasticsearch's 10,000: it counts hits up to there and pages no further
          MaxChanges   \* bound: changes during a walk

ASSUME PagesAssumption ==
  /\ Viewer \in Members /\ Author \in [Rows -> Members] /\ Following \subseteq Members
  /\ Times \subseteq Nat \ {0} /\ None \notin Times
  /\ Asked \subseteq Int /\ DefaultLimit \in 1 .. MaxLimit /\ MaxLimit \in Nat
  /\ ResultWindow \in Nat /\ MaxChanges \in Nat

VARIABLES row,        \* the table
          removed,    \* ids of rows that are gone
          connected,  \* the viewer's connections, in connection-service
          walk        \* the client's requests for one list after another page

pageVars == <<row, removed, connected, walk>>
-----------------------------------------------------------------------------
Visibility == {"PUBLIC", "CONNECTIONS", "PRIVATE"}
RowRecord == [createdAt : Times, visibility : Visibility]
ASSUME PageRowAssumption == None \notin RowRecord

All == {r \in Rows : row[r] # None}
Dated(S) == {row[r].createdAt : r \in S}

CursorLists == {"feed", "hashtag", "comments", "thread", "notifications"}
OffsetLists == {"jobs", "companies", "search"}

\* What a member may open, by the connections connection-service answers with.
CanView(r, connections) ==
  \/ Author[r] = Viewer \/ row[r].visibility = "PUBLIC"
  \/ (row[r].visibility = "CONNECTIONS" /\ Author[r] \in connections)

FeedRows(connections, following) ==
  {r \in All :
     /\ Author[r] \in connections \cup following \cup {Viewer}
     /\ \/ row[r].visibility = "PUBLIC"
        \/ (row[r].visibility = "CONNECTIONS" /\ Author[r] \in connections \cup {Viewer})
        \/ Author[r] = Viewer}

HashtagRows == {r \in All : row[r].visibility = "PUBLIC"}

\* The list as it is now.
Listed(list) == CASE list = "feed" -> FeedRows(connected, Following)
                  [] list = "hashtag" -> HashtagRows
                  [] OTHER -> All
-----------------------------------------------------------------------------
\* Mutant of ParsedLimit: a limit below one is passed on.
ParsedLimitUnclamped(asked) == Min({MaxLimit, IF asked = 0 THEN DefaultLimit ELSE asked})

\* The limit of a query, also one that is no number or out of bounds.
ParsedLimit(asked) == Min({MaxLimit, Max({1, IF asked = 0 THEN DefaultLimit ELSE asked})})
Limits == {ParsedLimit(asked) : asked \in Asked}

\* The first n rows by createdAt, rows of one time in any order.
Newest(S, n) ==
  {T \in SUBSET S : /\ Cardinality(T) = Min({n, Cardinality(S)})
                    /\ \A r \in T, s \in S \ T : row[r].createdAt >= row[s].createdAt}

Before(S, cursor) == {r \in S : cursor # None => row[r].createdAt < cursor}

\* Mutant of CursorAfter: the cursor of the row fetched to see that there is more.
CursorAfterMore(items, more) ==
  IF more = {} \/ items = {} THEN None ELSE Max(Dated(more))

\* buildCursorPage: the page's rows, with those left over.
CursorAfter(items, more) ==
  IF more = {} \/ items = {} THEN None ELSE Min(Dated(items))

HasMorePages(total, page, limit) == page * limit < total
-----------------------------------------------------------------------------
\* seen: rows shown; again: rows shown twice; beside: rows of the time of a page's
\* last row that were not on it; steady: rows listed ever since, and not edited
\* between the two calls of a feed request; known: what
\* connection-service answered for the page, None before; hidden: rows shown that
\* the viewer could not have opened when their page was asked for; degraded: a call
\* failed, which a page then does without, or the page was refused.
WalkRecord ==
  [list : CursorLists \cup OffsetLists, limit : 1 .. MaxLimit, cursor : Times \cup {None},
   page : Nat \ {0}, done : BOOLEAN, seen : SUBSET Rows, again : SUBSET Rows,
   beside : SUBSET Rows, steady : SUBSET Rows, changes : 0 .. MaxChanges,
   known : [connections : SUBSET Members, following : SUBSET Members] \cup {None},
   hidden : SUBSET Rows, degraded : BOOLEAN]

PagesTypeOK ==
  /\ row \in [Rows -> RowRecord \cup {None}] /\ removed \subseteq Rows
  /\ connected \subseteq Members \ {Viewer}
  /\ walk \in WalkRecord \cup {None}

PagesInit ==
  /\ row = [r \in Rows |-> None] /\ removed = {} /\ connected = {} /\ walk = None

\* A change, which the walk in progress sees in what stays listed all along.
Change(edited) ==
  IF walk = None THEN UNCHANGED walk
  ELSE /\ walk.changes < MaxChanges /\ ~walk.done
       /\ \E list \in {walk.list} :
            walk' = [walk EXCEPT
              !.changes = @ + 1,
              !.steady = (@ \ IF walk.known = None THEN {} ELSE edited) \cap Listed(list)']

Create(r, t, v) ==
  /\ row[r] = None /\ r \notin removed
  /\ row' = [row EXCEPT ![r] = [createdAt |-> t, visibility |-> v]]
  /\ UNCHANGED <<removed, connected>> /\ Change({})

Update(r, v) ==
  /\ r \in All /\ row' = [row EXCEPT ![r].visibility = v]
  /\ UNCHANGED <<removed, connected>> /\ Change({r})

Remove(r) ==
  /\ r \in All /\ row' = [row EXCEPT ![r] = None] /\ removed' = removed \cup {r}
  /\ UNCHANGED connected /\ Change({})

ConnectionChanges(m) ==
  /\ connected' = IF m \in connected THEN connected \ {m} ELSE connected \cup {m}
  /\ UNCHANGED <<row, removed>> /\ Change({})
-----------------------------------------------------------------------------
StartWalk(list, limit) ==
  /\ walk = None
  /\ walk' = [list |-> list, limit |-> limit, cursor |-> None, page |-> 1, done |-> FALSE,
              seen |-> {}, again |-> {}, beside |-> {}, steady |-> Listed(list),
              changes |-> 0, known |-> None, hidden |-> {}, degraded |-> FALSE]
  /\ UNCHANGED <<row, removed, connected>>

Walking(lists) == walk # None /\ ~walk.done /\ walk.list \in lists

\* The client shows a page and goes on with what its reply told.
Show(items, done) ==
  [walk EXCEPT !.seen = @ \cup items, !.again = @ \cup (walk.seen \cap items), !.done = done]

CursorPage(rows) ==
  \E items \in Newest(Before(rows, walk.cursor), walk.limit) :
    LET more == Before(rows, walk.cursor) \ items
        next == CursorAfter(items, more) IN
    walk' = [Show(items, more = {}) EXCEPT
               !.cursor = next, !.known = None,
               !.beside = @ \cup {r \in more : row[r].createdAt \in Dated(items)},
               !.hidden = @ \cup (items \ {r \in items : CanView(r, connected)})]

\* The two lists of connection-service, or nothing for one that does not answer.
Answers(ids) == {ids, {}}
GetIds ==
  /\ Walking({"feed"}) /\ walk.known = None
  /\ \E connections \in Answers(connected), following \in Answers(Following) :
       walk' = [walk EXCEPT
         !.known = [connections |-> connections, following |-> following],
         !.degraded = @ \/ connections # connected \/ following # Following]
  /\ UNCHANGED <<row, removed, connected>>

GetFeed ==
  /\ Walking({"feed"}) /\ walk.known # None
  /\ CursorPage(FeedRows(walk.known.connections, walk.known.following))
  /\ UNCHANGED <<row, removed, connected>>

PostsByHashtag ==
  Walking({"hashtag"}) /\ CursorPage(HashtagRows) /\ UNCHANGED <<row, removed, connected>>

\* A page that is answered with an error, or with nothing for one: the client stops.
Refused == walk' = [walk EXCEPT !.done = TRUE, !.degraded = TRUE]

\* The top-level comments of a post, of which the replies are no rows of their own; every
\* page checks the post again, which may be gone or hidden by now.
ListComments ==
  Walking({"comments"}) /\ (CursorPage(All) \/ Refused) /\ UNCHANGED <<row, removed, connected>>

\* The messages of a conversation, and the notifications of the viewer.
ListThread == Walking({"thread"}) /\ CursorPage(All) /\ UNCHANGED <<row, removed, connected>>
ListForRecipient ==
  Walking({"notifications"}) /\ CursorPage(All) /\ UNCHANGED <<row, removed, connected>>

\* The count of the list as its offset pages tell it.
Counted == IF walk.list = "search" THEN Min({Cardinality(All), ResultWindow}) ELSE Cardinality(All)

OffsetPage ==
  \E skipped \in Newest(All, (walk.page - 1) * walk.limit) :
    \E items \in Newest(All \ skipped, walk.limit) :
      walk' = [Show(items, ~HasMorePages(Counted, walk.page, walk.limit)) EXCEPT
                 !.page = @ + 1]

ListJobs == Walking({"jobs"}) /\ OffsetPage /\ UNCHANGED <<row, removed, connected>>
ListCompanies == Walking({"companies"}) /\ OffsetPage /\ UNCHANGED <<row, removed, connected>>

\* Hits come by score, for which createdAt stands; a search that fails, as every one
\* beyond the window does, finds nothing.
Search ==
  /\ Walking({"search"})
  /\ \/ walk.page * walk.limit <= ResultWindow /\ OffsetPage
     \/ Refused
  /\ UNCHANGED <<row, removed, connected>>

PagesNext ==
  \/ \E r \in Rows :
       \/ Remove(r)
       \/ \E v \in Visibility : Update(r, v) \/ \E t \in Times : Create(r, t, v)
  \/ \E m \in Members \ {Viewer} : ConnectionChanges(m)
  \/ \E list \in CursorLists \cup OffsetLists, limit \in Limits : StartWalk(list, limit)
  \/ GetIds \/ GetFeed \/ PostsByHashtag \/ ListComments \/ ListThread \/ ListForRecipient
  \/ ListJobs \/ ListCompanies \/ Search

PagesSpec == PagesInit /\ [][PagesNext]_pageVars
-----------------------------------------------------------------------------
Passed(r) == walk.done \/ (walk.cursor # None /\ row[r].createdAt >= walk.cursor)

\* By cursor no row comes twice, and a row listed all along is seen once the walk
\* has passed it, unless it shares its time with the last row of a page, or a
\* page did without the viewer's connections or was refused, or its audience changed
\* while its page was made.
CursorWalksCover ==
  walk # None /\ walk.list \in CursorLists =>
    /\ walk.again = {}
    /\ \A r \in walk.steady : Passed(r) =>
         r \in walk.seen \cup walk.beside \/ walk.degraded

\* By offset the same holds for a list that does not change, has no two rows of one
\* time and is counted in full.
OffsetWalksCover ==
  walk # None /\ walk.list \in OffsetLists /\ walk.changes = 0 =>
    \/ \E r, s \in All : r # s /\ row[r].createdAt = row[s].createdAt
    \/ /\ walk.again = {}
       /\ walk.done => \/ All \subseteq walk.seen
                       \/ walk.degraded \/ Counted < Cardinality(All)

\* A page shows what its viewer could open when it was asked for; the feed may be
\* late by the connections it asked for before.
PagesRespectAccess ==
  walk # None =>
    /\ walk.list = "hashtag" => walk.hidden = {}
    /\ walk.list = "feed" /\ walk.changes = 0 => walk.hidden = {}

\* Paging through a list shows what is in it, once, up to the cases the helpers of
\* pagination.ts and their queries leave open, named above.
WalksCoverTheList == CursorWalksCover /\ OffsetWalksCover /\ PagesRespectAccess
=============================================================================
