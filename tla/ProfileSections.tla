---------------------------- MODULE ProfileSections ----------------------------
(***************************************************************************)
(* The sections of a user-service profile: experience, education and       *)
(* certification rows, each with a period.  A body is validated as it      *)
(* comes; a row is updated from a loaded copy, column by column that       *)
(* differs, while other requests update or delete it.  Texts are left out. *)
(***************************************************************************)
EXTENDS Absent, Naturals

CONSTANTS Sections,   \* keys of rows
          Owners,     \* users with a profile, which the foreign key asks for
          Editors,    \* updates in progress
          Dates

VARIABLES section,  \* the three tables
          editing,  \* updates in progress
          erased,   \* history: keys of deleted rows; a key is used once
          mixed     \* history: rows last written from a copy that was no more the row

sectionVars == <<section, editing, erased, mixed>>
-----------------------------------------------------------------------------
ExperienceColumns == [start : Dates, end : Dates \cup {None}, current : BOOLEAN]
EducationColumns == [start : Dates, end : Dates \cup {None}]
CertificationColumns == [start : Dates, end : Dates \cup {None}]

Ordered(period) == period.end = None \/ period.end >= period.start

\* What the validators accept.
ExperienceBodies == {b \in ExperienceColumns : b.current \/ Ordered(b)}
EducationBodies == {b \in EducationColumns : Ordered(b)}
CertificationBodies == {b \in CertificationColumns : Ordered(b)}

SectionRow ==
  [kind : {"experience"}, owner : Owners, columns : ExperienceColumns]
  \cup [kind : {"education"}, owner : Owners, columns : EducationColumns]
  \cup [kind : {"certification"}, owner : Owners, columns : CertificationColumns]

EditState == [id : Sections, copy : SectionRow,
              changes : ExperienceColumns \cup EducationColumns]

ASSUME SectionAssumption ==
  Dates \subseteq Nat /\ None \notin Dates \cup SectionRow \cup EditState

SectionTypeOK ==
  /\ section \in [Sections -> SectionRow \cup {None}]
  /\ editing \in [Editors -> EditState \cup {None}]
  /\ erased \subseteq Sections /\ mixed \subseteq Sections

SectionInit ==
  /\ section = [s \in Sections |-> None]
  /\ editing = [e \in Editors |-> None]
  /\ erased = {} /\ mixed = {}
-----------------------------------------------------------------------------
CreateSection(s, kind, u, columns) ==
  /\ section[s] = None /\ s \notin erased
  /\ section' = [section EXCEPT ![s] = [kind |-> kind, owner |-> u, columns |-> columns]]
  /\ UNCHANGED <<editing, erased, mixed>>

\* Mutant of Current: the end comes as the client sent it.
CurrentWithEnd(body) == body

\* A current position has no end, whatever the body says.
Current(body) == [body EXCEPT !.end = IF body.current THEN None ELSE @]

CreateExperience(s, u, body) == CreateSection(s, "experience", u, Current(body))
CreateEducation(s, u, body) == CreateSection(s, "education", u, body)
CreateCertification(s, u, body) == CreateSection(s, "certification", u, body)

\* ownedOrThrow: 404 unless the row is there and the user's.
OwnedOrThrow(e, s, kind, u, changes) ==
  /\ editing[e] = None
  /\ section[s] # None /\ section[s].kind = kind /\ section[s].owner = u
  /\ editing' = [editing EXCEPT ![e] = [id |-> s, copy |-> section[s], changes |-> changes]]
  /\ UNCHANGED <<section, erased, mixed>>

UpdateExperience(e, s, u, body) == OwnedOrThrow(e, s, "experience", u, Current(body))
UpdateEducation(e, s, u, body) == OwnedOrThrow(e, s, "education", u, body)

\* row.update writes the columns that differ from the copy, into the row as it is
\* by now; a row that is gone stays so.
UpdateSection(e) ==
  /\ editing[e] # None
  /\ LET s == editing[e].id
         copy == editing[e].copy
         changes == editing[e].changes
         row == section[s]
         merged == [c \in DOMAIN changes |->
                      IF changes[c] = copy.columns[c] THEN row.columns[c] ELSE changes[c]]
     IN  IF row = None THEN UNCHANGED <<section, mixed>>
         ELSE /\ section' = [section EXCEPT ![s].columns = merged]
              /\ mixed' = IF row = copy THEN mixed \ {s} ELSE mixed \cup {s}
  /\ editing' = [editing EXCEPT ![e] = None]
  /\ UNCHANGED erased

\* destroy by key and owner, in one statement.
RemoveSection(s, u) ==
  /\ section[s] # None /\ section[s].owner = u                 \* else 404
  /\ section' = [section EXCEPT ![s] = None]
  /\ erased' = erased \cup {s} /\ mixed' = mixed \ {s}
  /\ UNCHANGED editing

EditFails(e) ==
  /\ editing[e] # None
  /\ editing' = [editing EXCEPT ![e] = None]
  /\ UNCHANGED <<section, erased, mixed>>

SectionNext ==
  \/ \E s \in Sections, u \in Owners :
       \/ RemoveSection(s, u)
       \/ \E b \in ExperienceBodies : \/ CreateExperience(s, u, b)
                                      \/ \E e \in Editors : UpdateExperience(e, s, u, b)
       \/ \E b \in EducationBodies : \/ CreateEducation(s, u, b)
                                     \/ \E e \in Editors : UpdateEducation(e, s, u, b)
       \/ \E b \in CertificationBodies : CreateCertification(s, u, b)
  \/ \E e \in Editors : UpdateSection(e) \/ EditFails(e)

SectionSpec == SectionInit /\ [][SectionNext]_sectionVars
-----------------------------------------------------------------------------
\* A period that is stored ends after it begins, and that of a current position
\* has no end (user.validators.ts:39-42, experience.service.ts:25), unless the row
\* was last written from a copy that another update had made stale: the columns
\* of two valid bodies then meet in one row.
PeriodsMakeSense ==
  \A s \in Sections \ mixed : section[s] # None =>
    LET columns == section[s].columns IN
    /\ Ordered(columns)
    /\ section[s].kind = "experience" /\ columns.current => columns.end = None
=============================================================================
