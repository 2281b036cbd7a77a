------------------------------- MODULE MCShared -------------------------------
(***************************************************************************)
(* TLC instance of what every service shares (rate limiter, connection     *)
(* manager, lists by page), of media-service and of the sections of a      *)
(* profile.  They share no state, so one of them is explored at a time.    *)
(***************************************************************************)
EXTENDS RateLimiter, RabbitConnection, MediaService, Pages, ProfileSections, TLC

CONSTANTS r1, r2, r3,       \* rows
          me, friend, star  \* members

\* One row of each: of the viewer, of somebody to connect with, of somebody followed.
MCAuthor == r1 :> me @@ r2 :> friend @@ r3 :> star

MCAsked == {-1, 0, 1, 9}

sharedVars == <<limiterVars, rabbitVars, mediaVars, pageVars, sectionVars>>
Limiting == \E k \in Counters : hits[k] # 0 \/ window[k] # 1
Connecting == process # "new"
Storing == issued # {}
Paging == connected # {} \/ walk # None \/ removed # {} \/ All # {}
Profiling == erased # {} \/ \E s \in Sections : section[s] # None

SharedInit == LimiterInit /\ RabbitInit /\ MediaInit /\ PagesInit /\ SectionInit
SharedNext ==
  \/ /\ ~Connecting /\ ~Storing /\ ~Paging /\ ~Profiling /\ LimiterNext
     /\ UNCHANGED <<rabbitVars, mediaVars, pageVars, sectionVars>>
  \/ /\ ~Limiting /\ ~Storing /\ ~Paging /\ ~Profiling /\ RabbitNext
     /\ UNCHANGED <<limiterVars, mediaVars, pageVars, sectionVars>>
  \/ /\ ~Limiting /\ ~Connecting /\ ~Paging /\ ~Profiling /\ MediaNext
     /\ UNCHANGED <<limiterVars, rabbitVars, pageVars, sectionVars>>
  \/ /\ ~Limiting /\ ~Connecting /\ ~Storing /\ ~Profiling /\ PagesNext
     /\ UNCHANGED <<limiterVars, rabbitVars, mediaVars, sectionVars>>
  \/ /\ ~Limiting /\ ~Connecting /\ ~Storing /\ ~Paging /\ SectionNext
     /\ UNCHANGED <<limiterVars, rabbitVars, mediaVars, pageVars>>
SharedSpec == SharedInit /\ [][SharedNext]_sharedVars

\* Redis keys, pools, files, rows, pages and requests have their types.
SharedTypes == LimiterTypeOK /\ RabbitTypeOK /\ MediaTypeOK /\ PagesTypeOK /\ SectionTypeOK

\* What the run leaves out: a connection with somebody followed, made before the
\* walk; rows removed before it, which are as good as never created; connections
\* during a walk of a list that asks for none, and visibility in one without posts.
PagesAtStake ==
  IF walk = None THEN removed = {} /\ star \notin connected
  ELSE /\ walk.list # "feed" => connected = {}
       /\ walk.list \notin {"feed", "hashtag"} =>
            \A r \in All : row[r].visibility = "PUBLIC"
=============================================================================
