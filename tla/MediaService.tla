------------------------------ MODULE MediaService ------------------------------
(***************************************************************************)
(* media-service: uploads through the service, uploads through a presigned *)
(* URL, and deletions, each a sequence of calls to the object store, the   *)
(* media table and the broker.  An object's key holds a fresh uuid, so a   *)
(* key stands for the row and the object that share it.                    *)
(***************************************************************************)
EXTENDS Absent, FiniteSets

CONSTANTS Media,      \* keys
          Uploaders,
          Workers     \* requests in progress

MediaStatus == {"PROCESSING", "READY", "FAILED"}
MediaRow == [uploader : Uploaders, status : MediaStatus]

\* pc: the call a request makes next.
UploadPCs == {"put", "upload.create", "resize", "thumbnail"}
DeletePCs == {"remove", "destroy"}
Working == [key : Media, by : Uploaders, image : BOOLEAN,
            pc : UploadPCs \cup DeletePCs \cup {"presigned.create"}]

ASSUME MediaAssumption == None \notin MediaRow \cup Working

VARIABLES media,      \* the media table
          objects,    \* keys of the objects in the bucket
          grants,     \* keys a client holds a presigned PUT URL for
          events,     \* what was sent to the media.processing exchange
          working,    \* requests in progress
          issued,     \* history: keys handed out
          unrecorded, \* history: objects stored by an upload that failed then
          unremoved,  \* history: objects a deletion could not remove
          late,       \* history: objects put through a URL once a deletion had begun
          undeleted   \* history: keys whose deletion ended between its two steps

mediaVars == <<media, objects, grants, events, working, issued, unrecorded, unremoved,
              late, undeleted>>
-----------------------------------------------------------------------------
MediaTypeOK ==
  /\ media \in [Media -> MediaRow \cup {None}]
  /\ objects \subseteq Media /\ grants \subseteq Media
  /\ events \subseteq Media \X {"resize", "thumbnail"}
  /\ working \in [Workers -> Working \cup {None}]
  /\ unrecorded \subseteq Media /\ unremoved \subseteq Media
  /\ issued \subseteq Media /\ late \subseteq Media /\ undeleted \subseteq Media

WorkAt(w, pc) == working[w] # None /\ working[w].pc = pc
Deleting(k) == \E w \in Workers : WorkAt(w, "destroy") /\ working[w].key = k

MediaInit ==
  /\ media = [k \in Media |-> None]
  /\ objects = {} /\ grants = {} /\ events = {} /\ issued = {}
  /\ working = [w \in Workers |-> None]
  /\ unrecorded = {} /\ unremoved = {} /\ late = {} /\ undeleted = {}
-----------------------------------------------------------------------------
Begin(w, k, u, image, pc) ==
  /\ working[w] = None
  /\ working' = [working EXCEPT ![w] = [key |-> k, by |-> u, image |-> image, pc |-> pc]]
  /\ UNCHANGED <<media, objects, grants, events, unrecorded, unremoved, late, undeleted>>

\* The key of an upload holds a new uuid.
BuildKey(k) == k \notin issued /\ issued' = issued \cup {k}

Goto(w, pc) == working' = [working EXCEPT ![w].pc = pc]
Done(w) == working' = [working EXCEPT ![w] = None]

\* Mutant of Upload: the row is written without waiting for putObject.
UploadRecordsFirst(w, k, u, image) == BuildKey(k) /\ Begin(w, k, u, image, "upload.create")

\* POST /media/upload and POST /media/upload/presigned, whose URL the client is
\* only given with the reply.
Upload(w, k, u, image) == BuildKey(k) /\ Begin(w, k, u, image, "put")
CreatePresigned(w, k, u) == BuildKey(k) /\ Begin(w, k, u, FALSE, "presigned.create")

PutObject(w) ==
  /\ WorkAt(w, "put") /\ Goto(w, "upload.create")
  /\ objects' = objects \cup {working[w].key}
  /\ UNCHANGED <<issued, media, grants, events, unrecorded, unremoved, late, undeleted>>

\* Stored, and the answer was lost: the request fails.
PutUnanswered(w) ==
  /\ WorkAt(w, "put") /\ Done(w)
  /\ objects' = objects \cup {working[w].key}
  /\ unrecorded' = unrecorded \cup {working[w].key}
  /\ UNCHANGED <<issued, media, grants, events, unremoved, late, undeleted>>

NewMedia(w, status) ==
  media' = [media EXCEPT ![working[w].key] = [uploader |-> working[w].by, status |-> status]]

CreateReady(w) ==
  /\ WorkAt(w, "upload.create") /\ NewMedia(w, "READY")
  /\ IF working[w].image THEN Goto(w, "resize") ELSE Done(w)
  /\ UNCHANGED <<issued, objects, grants, events, unrecorded, unremoved, late, undeleted>>

PublishResize(w) ==
  /\ WorkAt(w, "resize") /\ Goto(w, "thumbnail")
  /\ events' = events \cup {<<working[w].key, "resize">>}
  /\ UNCHANGED <<issued, media, objects, grants, unrecorded, unremoved, late, undeleted>>

PublishThumbnail(w) ==
  /\ WorkAt(w, "thumbnail") /\ Done(w)
  /\ events' = events \cup {<<working[w].key, "thumbnail">>}
  /\ UNCHANGED <<issued, media, objects, grants, unrecorded, unremoved, late, undeleted>>

CreateProcessing(w) ==
  /\ WorkAt(w, "presigned.create") /\ NewMedia(w, "PROCESSING") /\ Done(w)
  /\ grants' = grants \cup {working[w].key}
  /\ UNCHANGED <<issued, objects, events, unrecorded, unremoved, late, undeleted>>

\* The client puts its object, once or again, until the URL expires.
ClientPuts(k) ==
  /\ k \in grants /\ objects' = objects \cup {k}
  /\ late' = IF media[k] = None \/ Deleting(k) THEN late \cup {k} ELSE late
  /\ UNCHANGED <<issued, media, grants, events, working, unrecorded, unremoved, undeleted>>

GrantExpires(k) ==
  /\ k \in grants /\ grants' = grants \ {k}
  /\ UNCHANGED <<issued, media, objects, events, working, unrecorded, unremoved, late, undeleted>>
-----------------------------------------------------------------------------
\* DELETE /media/:id, which only the uploader may.
Delete(w, k, u) ==
  /\ media[k] # None /\ media[k].uploader = u
  /\ Begin(w, k, u, FALSE, "remove") /\ UNCHANGED issued

RemoveObject(w) ==
  /\ WorkAt(w, "remove") /\ Goto(w, "destroy")
  /\ objects' = objects \ {working[w].key}
  /\ UNCHANGED <<issued, media, grants, events, unrecorded, unremoved, late, undeleted>>

RemoveFails(w) ==
  /\ WorkAt(w, "remove") /\ Goto(w, "destroy")
  /\ unremoved' = unremoved \cup {working[w].key}
  /\ UNCHANGED <<issued, media, objects, grants, events, unrecorded, late, undeleted>>

Destroy(w) ==
  /\ WorkAt(w, "destroy") /\ Done(w)
  /\ media' = [media EXCEPT ![working[w].key] = None]
  /\ UNCHANGED <<issued, objects, grants, events, unrecorded, unremoved, late, undeleted>>

\* A call fails, or the process dies: a request without reply, of which an event
\* that is not sent is none.
WorkFails(w) ==
  /\ working[w] # None /\ Done(w)
  /\ unrecorded' = IF working[w].pc = "upload.create" THEN unrecorded \cup {working[w].key}
                   ELSE unrecorded
  /\ undeleted' = IF working[w].pc = "destroy" THEN undeleted \cup {working[w].key}
                  ELSE undeleted
  /\ UNCHANGED <<issued, media, objects, grants, events, unremoved, late>>

MediaNext ==
  \/ \E w \in Workers, k \in Media, u \in Uploaders :
       \/ CreatePresigned(w, k, u) \/ Delete(w, k, u)
       \/ \E image \in BOOLEAN : Upload(w, k, u, image)
  \/ \E w \in Workers :
       \/ PutObject(w) \/ PutUnanswered(w) \/ CreateReady(w)
       \/ PublishResize(w) \/ PublishThumbnail(w) \/ CreateProcessing(w)
       \/ RemoveObject(w) \/ RemoveFails(w) \/ Destroy(w) \/ WorkFails(w)
  \/ \E k \in Media : ClientPuts(k) \/ GrantExpires(k)

MediaSpec == MediaInit /\ [][MediaNext]_mediaVars
-----------------------------------------------------------------------------
\* A file its row calls READY can be fetched, until a deletion has removed it.
ReadyMeansStored ==
  \A k \in Media : media[k] # None /\ media[k].status = "READY" =>
    k \in objects \/ Deleting(k) \/ k \in undeleted

\* An object can be found by a row, or by the upload about to write one, unless a
\* failure or a late client left it behind.
ObjectsAreFound ==
  \A k \in objects : \/ media[k] # None
                     \/ \E w \in Workers : WorkAt(w, "upload.create") /\ working[w].key = k
                     \/ k \in unrecorded \cup unremoved \cup late

\* The bucket and the media table agree, whatever uploads, presigned uploads and
\* deletions of one file overlap, up to the calls that fail between the two and
\* the URL that outlives its row (media.service.ts:30-109).
ObjectsMatchRows == ReadyMeansStored /\ ObjectsAreFound
=============================================================================
