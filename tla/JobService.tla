------------------------------ MODULE JobService ------------------------------
(***************************************************************************)
(* job-service: companies, job postings, applications and saved jobs; with *)
(* the jobs index of search-service, which is fed by job.created, and the  *)
(* queue that tells posters of applications, fed by job.applied.           *)
(*                                                                         *)
(* A request is a sequence of statements; requests interleave between      *)
(* them.  Companies and posters never change hands, so who may manage a    *)
(* job is decided together with the load of the row.  The columns of a     *)
(* posting other than is_active and applicants_count are one value, its    *)
(* advert, which is also the document that is indexed.                     *)
(***************************************************************************)
EXTENDS SearchIndex

CONSTANTS Jobs, Companies, People, Clerks,
          Role,      \* x-user-role of each of People
          Adverts,   \* what a posting says
          Pages,     \* what a company's page says
          Names,     \* names companies ask for, slugified
          Suffixed,  \* the slugs a name may get once it is taken
          Verdicts,  \* bound: the statuses requests ask for
          Bodies     \* bound: the updates of postings requests ask for

Slugs == Names \cup UNION {Suffixed[n] : n \in Names}
UserRole == {"USER", "RECRUITER", "ADMIN"}

ApplicationStatus == {"SUBMITTED", "REVIEWED", "SHORTLISTED", "REJECTED", "HIRED", "WITHDRAWN"}

\* A body of PUT /jobs/:id: None for a column it does not name.
JobChanges == [advert : Adverts \cup {None}, isActive : BOOLEAN \cup {None}]

ASSUME JobAssumption ==
  /\ Bodies \subseteq JobChanges
  /\ Jobs \subseteq Ids /\ Adverts \subseteq Docs
  /\ Role \in [People -> UserRole]
  /\ Verdicts \subseteq ApplicationStatus
  /\ DOMAIN Suffixed = Names
  /\ IsFiniteSet(People)
  /\ None \notin Jobs \cup Companies \cup People \cup Adverts \cup Pages \cup Slugs

VARIABLES company,      \* the companies table
          job,          \* the jobs table
          application,  \* applications.status, by job and applicant
          saved,        \* saved_jobs, by user
          told,         \* job.applied events in the broker, by job
          request,      \* requests in progress
          uncounted,    \* history: applications by job whose count was lost
          untold,       \* history: jobs with an event that could not be sent
          reworded      \* history: jobs whose advert changed

jobVars == <<company, job, application, saved, told, request,
             uncounted, untold, reworded>>
-----------------------------------------------------------------------------
CompanyRow == [slug : Slugs, page : Pages, adminIds : SUBSET People]
JobRow == [company : Companies, poster : People, advert : Adverts,
           isActive : BOOLEAN, applicantsCount : Nat]

Close == [advert |-> None, isActive |-> FALSE]

\* fresh: what the request read has not changed since.
Request ==
  [pc : {"company.insert"}, company : Companies, row : CompanyRow]
  \cup [pc : {"job.insert"}, job : Jobs, row : JobRow]
  \cup [pc : {"job.publish"}, job : Jobs, row : JobRow]
  \cup [pc : {"job.write"}, job : Jobs, user : People, copy : JobRow, changes : JobChanges,
        fresh : BOOLEAN]
  \cup [pc : {"apply.find", "apply.insert", "apply.count", "apply.publish"},
        job : Jobs, user : People, fresh : BOOLEAN]
  \cup [pc : {"status.write"}, job : Jobs, user : People, applicant : People,
        copy : ApplicationStatus, status : ApplicationStatus]

ASSUME JobRowAssumption == None \notin CompanyRow \cup JobRow \cup Request \cup ApplicationStatus

\* Rows by their keys; an application by its unique pair.
CompanyTable == [Companies -> CompanyRow \cup {None}]
JobTable == [Jobs -> JobRow \cup {None}]
ApplicationTable == [Jobs -> [People -> ApplicationStatus \cup {None}]]
SavedTable == [People -> SUBSET Jobs]

JobTypeOK ==
  /\ SearchTypeOK
  /\ company \in CompanyTable /\ job \in JobTable
  /\ application \in ApplicationTable /\ saved \in SavedTable
  /\ told \in [Jobs -> SUBSET People]
  /\ request \in [Clerks -> Request \cup {None}]
  /\ uncounted \in [Jobs -> Nat]
  /\ untold \subseteq Jobs /\ reworded \subseteq Jobs

Doing(c, pc) == request[c] # None /\ request[c].pc = pc
OnJob(j, pcs) == {c \in Clerks : /\ request[c] # None /\ request[c].pc \in pcs
                                 /\ request[c].job = j}
Take(c, r) == request[c] = None /\ request' = [request EXCEPT ![c] = r]
MoveTo(c, pc) == request' = [request EXCEPT ![c].pc = pc]
Reply(c) == request' = [request EXCEPT ![c] = None]
\* A reply after a write that others have not seen.
Outdate(c, others) ==
  request' = [d \in Clerks |-> IF d = c THEN None
                               ELSE IF d \in others THEN [request[d] EXCEPT !.fresh = FALSE]
                               ELSE request[d]]
Applicants(j) == {u \in People : application[j][u] # None}

Exists(j) == job[j] # None
JobHistories == <<uncounted, untold, reworded>>
Hiring == <<application, saved, told>>
-----------------------------------------------------------------------------
(* company.service.ts *)

SlugTaken(slug) == \E k \in Companies : company[k] # None /\ company[k].slug = slug

\* resolveSlug: the name, or a suffixed one if that is taken (the time stamp after
\* five taken candidates is one that is free).
ResolvedSlugs(name) ==
  IF SlugTaken(name) THEN {s \in Suffixed[name] : ~SlugTaken(s)} ELSE {name}

NewCompany(u, slug, page) == [slug |-> slug, page |-> page, adminIds |-> {u}]

\* The new row's id is one nobody has.
CompanyStart(c, k, u, name, page) ==
  /\ company[k] = None
  /\ \A d \in Clerks : Doing(d, "company.insert") => request[d].company # k
  /\ \E slug \in ResolvedSlugs(name) :
       Take(c, [pc |-> "company.insert", company |-> k, row |-> NewCompany(u, slug, page)])
  /\ UNCHANGED <<searchVars, company, job, Hiring, JobHistories>>

\* The unique constraint refuses a slug that was taken meanwhile.
CompanyInsert(c) ==
  /\ Doing(c, "company.insert")
  /\ company' = IF SlugTaken(request[c].row.slug) THEN company
                ELSE [company EXCEPT ![request[c].company] = request[c].row]
  /\ Reply(c)
  /\ UNCHANGED <<searchVars, job, Hiring, JobHistories>>

IsAdmin(k, u) == Role[u] = "ADMIN" \/ u \in company[k].adminIds

\* The body cannot name the slug or the admins, and no request reads the page.
CompanyUpdate(k, u, page) ==
  /\ company[k] # None                                     \* else 404
  /\ IsAdmin(k, u)                                         \* else 403
  /\ company' = [company EXCEPT ![k].page = page]
  /\ UNCHANGED <<searchVars, job, Hiring, request, JobHistories>>
-----------------------------------------------------------------------------
(* job.service.ts *)

NewJob(k, u, advert) == [company |-> k, poster |-> u, advert |-> advert,
                         isActive |-> TRUE, applicantsCount |-> 0]

\* requireRole
MayPost(u) == Role[u] \in {"RECRUITER", "ADMIN"}

\* Any recruiter may post for any company.
JobStart(c, j, k, u, advert) ==
  /\ MayPost(u)                                            \* else 403
  /\ company[k] # None                                     \* else 404
  /\ job[j] = None /\ OnJob(j, {"job.insert"}) = {}
  /\ Take(c, [pc |-> "job.insert", job |-> j, row |-> NewJob(k, u, advert)])
  /\ UNCHANGED <<searchVars, company, job, Hiring, JobHistories>>

JobInsert(c) ==
  /\ Doing(c, "job.insert")
  /\ job' = [job EXCEPT ![request[c].job] = request[c].row]
  /\ MoveTo(c, "job.publish")
  /\ UNCHANGED <<searchVars, company, Hiring, JobHistories>>

\* Mutant of JobPublish: the event says which job, not what it says.
JobPublishId(c) ==
  /\ Doing(c, "job.publish")
  /\ Send(request[c].job, None)
  /\ Reply(c)
  /\ UNCHANGED <<company, job, Hiring, JobHistories>>

JobPublish(c) ==
  /\ Doing(c, "job.publish")
  /\ Send(request[c].job, request[c].row.advert)
  /\ Reply(c)
  /\ UNCHANGED <<company, job, Hiring, JobHistories>>

\* assertCanManage
CanManage(row, u) ==
  \/ Role[u] = "ADMIN" \/ row.poster = u
  \/ u \in company[row.company].adminIds

\* update, or close: load and authorize.
JobFind(c, j, u, changes) ==
  /\ Exists(j)                                             \* else 404
  /\ CanManage(job[j], u)                                  \* else 403
  /\ Take(c, [pc |-> "job.write", job |-> j, user |-> u, copy |-> job[j],
              changes |-> changes, fresh |-> TRUE])
  /\ UNCHANGED <<searchVars, company, job, Hiring, JobHistories>>

\* Mutant of Changed: a column the body does not name is written as null.
ChangedToNull(row, changes) ==
  [row EXCEPT !.advert = changes.advert, !.isActive = changes.isActive]

Changed(row, changes) ==
  [row EXCEPT !.advert = IF changes.advert = None THEN @ ELSE changes.advert,
              !.isActive = IF changes.isActive = None THEN @ ELSE changes.isActive]

\* row.update writes the columns that differ from the loaded copy.
Differing(copy, changes) ==
  [advert |-> IF changes.advert = copy.advert THEN None ELSE changes.advert,
   isActive |-> IF changes.isActive = copy.isActive THEN None ELSE changes.isActive]

\* Requests that read a posting that changes in this step.
Readers(c, j) == IF job'[j] = job[j] THEN {}
                 ELSE OnJob(j, {"job.write", "apply.find", "apply.insert"}) \ {c}

\* Mutant of JobWrite: every column of the loaded row is written.
JobWriteAll(c) ==
  /\ Doing(c, "job.write")
  /\ LET r == request[c] IN
     /\ job' = [job EXCEPT ![r.job] = Changed(r.copy, r.changes)]
     /\ reworded' = IF r.changes.advert = None THEN reworded ELSE reworded \cup {r.job}
     /\ Outdate(c, Readers(c, r.job))
  /\ UNCHANGED <<searchVars, company, Hiring, uncounted, untold>>

\* Neither update nor close sends an event.
JobWrite(c) ==
  /\ Doing(c, "job.write")
  /\ LET r == request[c] IN
     /\ job' = [job EXCEPT ![r.job] = Changed(@, Differing(r.copy, r.changes))]
     /\ reworded' = IF r.changes.advert = None THEN reworded ELSE reworded \cup {r.job}
     /\ Outdate(c, Readers(c, r.job))
  /\ UNCHANGED <<searchVars, company, Hiring, uncounted, untold>>
-----------------------------------------------------------------------------
(* application.service.ts *)

\* Mutant of ApplyStart: whether the job is open is not asked.
ApplyUnasked(c, j, u) ==
  /\ Exists(j)
  /\ Take(c, [pc |-> "apply.find", job |-> j, user |-> u, fresh |-> TRUE])
  /\ UNCHANGED <<searchVars, company, job, Hiring, JobHistories>>

ApplyStart(c, j, u) ==
  /\ Exists(j)                                             \* else 404
  /\ job[j].isActive                                       \* else 409
  /\ Take(c, [pc |-> "apply.find", job |-> j, user |-> u, fresh |-> TRUE])
  /\ UNCHANGED <<searchVars, company, job, Hiring, JobHistories>>

Applied(c) == application[request[c].job][request[c].user] # None

ApplyFind(c) ==
  /\ Doing(c, "apply.find")
  /\ IF Applied(c) THEN Reply(c) ELSE MoveTo(c, "apply.insert")
  /\ UNCHANGED <<searchVars, company, job, Hiring, JobHistories>>

NewApplication == "SUBMITTED"

\* The unique constraint refuses a second application.
ApplyInsert(c) ==
  /\ Doing(c, "apply.insert")
  /\ IF Applied(c) THEN Reply(c) /\ UNCHANGED application
     ELSE /\ application' = [application EXCEPT ![request[c].job][request[c].user] = NewApplication]
          /\ MoveTo(c, "apply.count")
  /\ UNCHANGED <<searchVars, company, job, saved, told, JobHistories>>

\* incrementApplicants
ApplyCount(c) ==
  /\ Doing(c, "apply.count")
  /\ job' = [job EXCEPT ![request[c].job].applicantsCount = @ + 1]
  /\ MoveTo(c, "apply.publish")
  /\ UNCHANGED <<searchVars, company, Hiring, JobHistories>>

\* job.applied, to the poster.
Announce(j, u) == told' = [told EXCEPT ![j] = @ \cup {u}]

ApplyPublish(c) ==
  /\ Doing(c, "apply.publish")
  /\ Announce(request[c].job, request[c].user)
  /\ Reply(c)
  /\ UNCHANGED <<searchVars, company, job, application, saved, JobHistories>>

\* Any status may follow any other.
StatusFind(c, j, u, a, status) ==
  /\ Exists(j) /\ application[j][a] # None                 \* else 404
  /\ CanManage(job[j], u)                                  \* else 403
  /\ Take(c, [pc |-> "status.write", job |-> j, user |-> u, applicant |-> a,
              copy |-> application[j][a], status |-> status])
  /\ UNCHANGED <<searchVars, company, job, Hiring, JobHistories>>

StatusWrite(c) ==
  /\ Doing(c, "status.write")
  /\ LET r == request[c] IN
     application' = IF r.status = r.copy THEN application
                    ELSE [application EXCEPT ![r.job][r.applicant] = r.status]
  /\ Reply(c)
  /\ UNCHANGED <<searchVars, company, job, saved, told, JobHistories>>

\* findOrCreate
Save(j, u) ==
  /\ Exists(j)                                             \* else 404
  /\ saved' = [saved EXCEPT ![u] = @ \cup {j}]
  /\ UNCHANGED <<searchVars, company, job, application, told, request, JobHistories>>

Unsave(j, u) ==
  /\ saved' = [saved EXCEPT ![u] = @ \ {j}]
  /\ UNCHANGED <<searchVars, company, job, application, told, request, JobHistories>>
-----------------------------------------------------------------------------
\* A statement or publish fails, or the process dies.  A publish that fails is
\* only logged: the request is answered as if it had not.
JobFail(c) ==
  /\ request[c] # None
  /\ LET r == request[c]
         Is(pc) == r.pc = pc
     IN  /\ uncounted' = IF Is("apply.count") THEN [uncounted EXCEPT ![r.job] = @ + 1]
                         ELSE uncounted
         /\ untold' = IF Is("job.publish") \/ Is("apply.count") \/ Is("apply.publish")
                      THEN untold \cup {r.job} ELSE untold
  /\ Reply(c)
  /\ UNCHANGED <<searchVars, company, job, Hiring, reworded>>

\* The tables start empty.
JobInit ==
  /\ company = [k \in Companies |-> None]
  /\ job = [j \in Jobs |-> None]
  /\ application = [j \in Jobs |-> [u \in People |-> None]]
  /\ saved = [u \in People |-> {}]
  /\ told = [j \in Jobs |-> {}]
  /\ request = [c \in Clerks |-> None]
  /\ untold = {} /\ reworded = {}
  /\ uncounted = [j \in Jobs |-> 0]

CompanyRoutes(c) ==
  \E k \in Companies, u \in People, page \in Pages :
    (\E name \in Names : CompanyStart(c, k, u, name, page)) \/ CompanyUpdate(k, u, page)
JobRoutes(c) ==
  \E j \in Jobs, u \in People :
    \/ \E k \in Companies, advert \in Adverts : JobStart(c, j, k, u, advert)
    \/ \E changes \in Bodies : JobFind(c, j, u, changes)
    \/ JobFind(c, j, u, Close)
ApplicationRoutes(c) ==
  \E j \in Jobs, u \in People :
    \/ ApplyStart(c, j, u) \/ Save(j, u) \/ Unsave(j, u)
    \/ \E a \in People, status \in Verdicts : StatusFind(c, j, u, a, status)
JobProceed(c) ==
  \/ CompanyInsert(c)
  \/ JobInsert(c) \/ JobPublish(c) \/ JobWrite(c)
  \/ ApplyFind(c) \/ ApplyInsert(c) \/ ApplyCount(c) \/ ApplyPublish(c) \/ StatusWrite(c)
  \/ JobFail(c)

JobNext ==
  \/ Consume /\ UNCHANGED jobVars
  \/ \E c \in Clerks : CompanyRoutes(c) \/ JobRoutes(c) \/ ApplicationRoutes(c) \/ JobProceed(c)
JobSpec == SearchInit /\ JobInit /\ [][JobNext]_<<searchVars, jobVars>>
-----------------------------------------------------------------------------
\* A posting changes only by a request of someone who may manage it, in columns
\* that request named, to what it named; and a request that met no other change
\* since it read the row leaves the row as it asked: closing closes.  A closed
\* posting gets an application only if it was closed after the applicant's request
\* had found it open.
JobsChangeAsAsked ==
  [][\A j \in Jobs : Exists(j) =>
       /\ job'[j].company = job[j].company /\ job'[j].poster = job[j].poster
       /\ \/ job'[j].isActive = job[j].isActive /\ job'[j].advert = job[j].advert
          \/ \E c \in OnJob(j, {"job.write"}) :
               /\ CanManage(job[j], request[c].user)
               /\ job'[j].isActive \in {job[j].isActive, request[c].changes.isActive}
               /\ job'[j].advert \in {job[j].advert, request[c].changes.advert}
               /\ request[c].fresh => job'[j] = Changed(job[j], request[c].changes)
       /\ \A u \in People : (application[j][u] = None /\ application'[j][u] # None) =>
            \E c \in OnJob(j, {"apply.insert"}) :
              request[c].user = u /\ (job[j].isActive \/ ~request[c].fresh)]_
    <<searchVars, jobVars>>

\* applicants_count is the number of applications, less those about to be counted
\* and those whose counting failed, whatever updates of the posting run beside;
\* and a poster is told of applications that exist, of all if nothing failed.
ApplicantsCounted ==
  \A j \in Jobs : Exists(j) =>
    /\ job[j].applicantsCount + uncounted[j] + Cardinality(OnJob(j, {"apply.count"}))
         = Cardinality(Applicants(j))
    /\ told[j] \subseteq Applicants(j)
    /\ (j \notin untold /\ OnJob(j, {"apply.count", "apply.publish"}) = {}) =>
         told[j] = Applicants(j)

\* Once nothing is on its way, every job is in the index, closed or not, with its
\* advert if that never changed: neither update nor close is announced.  Excepted
\* are jobs whose job.created failed or was dead-lettered.
IndexFollowsJob ==
  \A j \in Jobs :
    (Exists(j) /\ OnJob(j, {"job.publish"}) = {} /\ InStep(j) /\ j \notin untold) =>
      index[j] # None /\ (j \notin reworded => index[j] = job[j].advert)
=============================================================================
