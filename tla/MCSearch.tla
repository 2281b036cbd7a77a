------------------------------- MODULE MCSearch -------------------------------
(***************************************************************************)
(* TLC instance of search-service with the services that publish to it:    *)
(* one user, one post, one job.                                            *)
(***************************************************************************)
EXTENDS UserService, PostCatalogue, JobService, TLC

CONSTANTS plain,            \* a text without hashtags
          boss,             \* a recruiter
          company1, page1,  \* the company jobs are posted for, and its page
          open, reworded1,  \* adverts
          acme, acme2       \* slugs

MCDocs == Row \cup {Registration} \cup Texts \cup Adverts
MCTags == [t \in Texts |-> IF t = plain THEN {} ELSE Hashtags]
MCRole == [u \in People |-> IF u = boss THEN "RECRUITER" ELSE "USER"]
MCSuffixed == [n \in Names |-> {acme2}]
MCBodies == {[advert |-> reworded1, isActive |-> None], [advert |-> None, isActive |-> TRUE]}

SearchServices == SearchInit /\ Init /\ PostInit /\ JobInit
\* The services share the consumer only, which knows them by their ids; so one
\* of them is explored at a time.
UsersStarted == \E u \in Users : registered[u] # "no"
PostsStarted == \E p \in Posts : text[p] # None
JobsStarted  == \E k \in Companies, c \in Clerks : company[k] # None \/ request[c] # None
SearchNext ==
  \/ ~PostsStarted /\ ~JobsStarted /\ Next /\ UNCHANGED <<postVars, jobVars>>
  \/ ~UsersStarted /\ ~JobsStarted /\ PostNext /\ UNCHANGED <<userVars, jobVars>>
  \/ ~UsersStarted /\ ~PostsStarted /\ JobNext /\ UNCHANGED <<userVars, postVars>>
SearchSpec == SearchServices /\ [][SearchNext]_<<searchVars, userVars, postVars, jobVars>>

\* Tables, messages and requests of the three services have their types.
SearchTypes == TypeOK /\ PostTypeOK /\ JobTypeOK

\* The requests of the three services have the same names.
Symmetry == Permutations(Handlers)
-----------------------------------------------------------------------------
(* What the run leaves out: combinations of parts that share no state. *)

\* What follows once an event about an id was crowded or dead-lettered: the
\* index is excused for good, and the tables do not depend on it.
IndexAtStake == crowded = {} /\ buried = {}

\* Skills are explored beside profiles that are settled: the two only meet in
\* the existence of the profile.
SkillsAfterProfiles ==
  \A u \in Users :
    (skill[u] # None \/ u \in unlinked) =>
      /\ registered[u] = "done" /\ sent[u] = 2 /\ InStep(u)
      /\ u \notin failed \cup overlapped /\ On(u, ProfilePCs) = {}

\* A second company, or another page, only before there are jobs; jobs start
\* with one of the adverts; applications once the job is indexed, the second of them
\* if its advert never changed; verdicts and saved jobs beside few failures or none.
JobsInTurn ==
  /\ (\E k \in Companies : company[k] # None /\ (k # company1 \/ company[k].page # page1)) =>
       \A j \in Jobs : job[j] = None
  /\ \A j \in Jobs : Exists(j) =>
       /\ job[j].advert = open \/ j \in reworded
       /\ Applicants(j) # {} => Pending(j) = {} /\ j \notin buried
       /\ Applicants(j) = People => j \notin reworded
       /\ (\E u \in People : application[j][u] \notin {None, "SUBMITTED"}) =>
            uncounted[j] = 0 /\ j \notin untold \cup reworded
       /\ (\E u \in People : j \in saved[u]) =>
            /\ Applicants(j) = {} /\ Pending(j) = {}
            /\ \A c \in Clerks : request[c] = None
=============================================================================
