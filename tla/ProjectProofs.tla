---------------------------- MODULE ProjectProofs ---------------------------
(***************************************************************************)
(* Theorems about Project for all values of its constants.                 *)
(***************************************************************************)
EXTENDS Project, ControllerProofs, FiniteSetTheorems

CRTypeOK     == api \in Resources /\ cache \in Resources /\ undelivered \in Seq(Resources)
RemoteTypeOK == remote \in [ProjectIDs -> ProjectRecords]
StepTypeOK   ==
  \/ pc = Idle /\ mem = None
  \/ /\ pc \in Steps /\ mem \in Memories
     /\ pc \notin {"adopt", "create"} => mem.status.project \in ProjectIDs
WorldTypeOK  ==
  /\ organization \in Organizations \cup {None} /\ connected \in BOOLEAN
  /\ faults \in Nat /\ disturbances \in Nat

\* The type invariant is inductive with one fact more: but for its first two
\* calls, a reconciliation knows its project.
Typed == CRTypeOK /\ RemoteTypeOK /\ StepTypeOK /\ WorldTypeOK

-----------------------------------------------------------------------------
(* Lemmas about the operators the actions are built from *)

\* A patched status is a status, with each field of one of the three.
LEMMA MergePatchType ==
  ASSUME NEW stored \in Statuses, NEW before \in Statuses, NEW after \in Statuses
  PROVE  /\ MergePatch(stored, before, after) \in Statuses
         /\ MergePatch(stored, before, after).project =
              IF before.project = after.project THEN stored.project ELSE after.project
         /\ MergePatch(stored, before, after).reason \in {stored.reason, after.reason}
<1> DEFINE p == MergePatch(stored, before, after)
<1>1. DOMAIN stored = {"project", "reason"}
  BY DEF Statuses
<1>2. p = [project |-> p.project, reason |-> p.reason]
  BY <1>1 DEF MergePatch
<1>3. /\ p.project = IF before.project = after.project THEN stored.project ELSE after.project
      /\ p.reason \in {stored.reason, after.reason} /\ p.reason \in Reasons
  BY <1>1 DEF MergePatch, Statuses
<1>4. p.project \in ProjectIDs \cup {None}
  BY <1>3 DEF Statuses
<1>. QED
  BY <1>2, <1>3, <1>4 DEF Statuses

LEMMA PutType ==
  ASSUME CRTypeOK, NEW r \in Resources, CR!Put(r)
  PROVE  CRTypeOK'
BY DEF CRTypeOK, CR!Put

\* A status patch touches the status only.
LEMMA PatchStatusType ==
  ASSUME CRTypeOK, NEW before \in Statuses, NEW after \in Statuses,
         PatchStatus(before, after)
  PROVE  /\ CRTypeOK'
         /\ api'.exists = api.exists /\ api'.spec = api.spec
         /\ api'.status.project =
              IF before.project = after.project \/ ~api.exists THEN api.status.project
              ELSE after.project
         /\ api'.status.reason \in {api.status.reason, after.reason}
         /\ ~api.exists => api' = api
<1>1. CASE api.exists
  <2> DEFINE merged == MergePatch(api.status, before, after)
             r == [api EXCEPT !.status = merged]
  <2>1. api.status \in Statuses
    BY DEF CRTypeOK, Resources
  <2>2. /\ merged \in Statuses
        /\ merged.project = IF before.project = after.project THEN api.status.project
                            ELSE after.project
        /\ merged.reason \in {api.status.reason, after.reason}
    BY <2>1, MergePatchType
  <2> HIDE DEF merged
  <2>3. r \in Resources /\ r.exists = api.exists /\ r.spec = api.spec /\ r.status = merged
    BY <2>2 DEF CRTypeOK, Resources
  <2>4. CR!Put(r)
    BY <1>1 DEF PatchStatus, merged
  <2>5. api' = r
    BY <2>4 DEF CR!Put
  <2>. QED
    BY <1>1, <2>2, <2>3, <2>4, <2>5, PutType
<1>2. CASE ~api.exists
  BY <1>2 DEF PatchStatus, crVars, CRTypeOK
<1>. QED
  BY <1>1, <1>2

LEMMA ReturnErrorType ==
  ASSUME CRTypeOK, NEW status \in Statuses, NEW reason \in Reasons,
         ReturnError(status, reason)
  PROVE  /\ CRTypeOK' /\ StepTypeOK' /\ pc' = Idle
         /\ api'.exists = api.exists /\ api'.spec = api.spec
         /\ api'.status.project = api.status.project
         /\ api'.status.reason \in {api.status.reason, reason}
<1>1. [status EXCEPT !.reason = reason] \in Statuses
      /\ [status EXCEPT !.reason = reason].project = status.project
      /\ [status EXCEPT !.reason = reason].reason = reason
  BY DEF Statuses
<1>. QED
  BY <1>1, PatchStatusType DEF ReturnError, EndReconcile, StepTypeOK

LEMMA RemoveFinalizerType ==
  ASSUME CRTypeOK, NEW current, RemoveFinalizer(current)
  PROVE  CRTypeOK' /\ api'.spec = api.spec /\ api'.status = api.status
<1>1. /\ WithoutFinalizer(api) \in Resources
      /\ WithoutFinalizer(api).spec = api.spec /\ WithoutFinalizer(api).status = api.status
  BY DEF WithoutFinalizer, CRTypeOK, Resources
<1>2. CASE current /\ api.finalizer
  <2>1. CR!Put(WithoutFinalizer(api))
    BY <1>2 DEF RemoveFinalizer
  <2>2. api' = WithoutFinalizer(api)
    BY <2>1 DEF CR!Put
  <2>. QED
    BY <1>1, <2>1, <2>2, PutType
<1>3. CASE ~(current /\ api.finalizer)
  BY <1>3 DEF RemoveFinalizer, crVars, CRTypeOK
<1>. QED
  BY <1>2, <1>3

LEMMA ContinueType ==
  ASSUME NEW step \in Steps, NEW m \in Memories, Continue(step, m),
         step \notin {"adopt", "create"} => m.status.project \in ProjectIDs
  PROVE  StepTypeOK'
BY DEF Continue, StepTypeOK

\* Each group of variables is typed by the actions that leave it alone.
LEMMA UnchangedTypes ==
  /\ CRTypeOK /\ UNCHANGED crVars => CRTypeOK'
  /\ RemoteTypeOK /\ UNCHANGED remote => RemoteTypeOK'
  /\ StepTypeOK /\ UNCHANGED <<pc, mem>> => StepTypeOK'
  /\ EndReconcile => StepTypeOK'
BY DEF crVars, CRTypeOK, RemoteTypeOK, StepTypeOK, EndReconcile

\* Between two steps of a reconciliation its memory is defined.
LEMMA InProgress ==
  ASSUME StepTypeOK, pc # Idle
  PROVE  mem \in Memories /\ mem.status \in Statuses /\ mem.before \in Statuses /\ mem.spec \in Specs
BY DEF StepTypeOK, Memories

\* The updates of the memory, and what they leave alone.
LEMMA MemoryType ==
  ASSUME NEW m \in Memories
  PROVE  /\ \A p \in ProjectIDs :
              /\ [m EXCEPT !.status.project = p] \in Memories
              /\ [m EXCEPT !.status.project = p].status.project = p
              /\ [m EXCEPT !.status.project = p].spec = m.spec
              /\ [m EXCEPT !.status.project = p].before = m.before
              /\ [m EXCEPT !.status.project = p].expected = m.expected
              /\ [m EXCEPT !.status.project = p].current = m.current
         /\ \A r \in Memberships :
              /\ [m EXCEPT !.membership = r] \in Memories
              /\ [m EXCEPT !.membership = r].spec = m.spec
              /\ [m EXCEPT !.membership = r].status = m.status
              /\ [m EXCEPT !.membership = r].before = m.before
              /\ [m EXCEPT !.membership = r].expected = m.expected
              /\ [m EXCEPT !.membership = r].current = m.current
         /\ [m EXCEPT !.current = FALSE] \in Memories
         /\ [m EXCEPT !.current = FALSE].spec = m.spec
         /\ [m EXCEPT !.current = FALSE].status = m.status
         /\ [m EXCEPT !.current = FALSE].before = m.before
         /\ [m EXCEPT !.current = FALSE].expected = m.expected
<1>1. ASSUME NEW p \in ProjectIDs
      PROVE  /\ [m EXCEPT !.status.project = p] \in Memories
             /\ [m EXCEPT !.status.project = p].status.project = p
             /\ [m EXCEPT !.status.project = p].spec = m.spec
             /\ [m EXCEPT !.status.project = p].before = m.before
             /\ [m EXCEPT !.status.project = p].expected = m.expected
             /\ [m EXCEPT !.status.project = p].current = m.current
  <2>1. [m.status EXCEPT !.project = p] \in Statuses /\ [m.status EXCEPT !.project = p].project = p
    BY DEF Memories, Statuses
  <2>2. [m EXCEPT !.status.project = p] = [m EXCEPT !.status = [m.status EXCEPT !.project = p]]
    BY DEF Memories
  <2>. QED
    BY <2>1, <2>2 DEF Memories
<1>. QED
  BY <1>1 DEF Memories

LEMMA CallFailsType ==
  ASSUME CRTypeOK, RemoteTypeOK, StepTypeOK, pc # Idle, NEW reason \in Reasons,
         CallFails(reason)
  PROVE  CRTypeOK' /\ StepTypeOK' /\ RemoteTypeOK'
BY InProgress, ReturnErrorType, UnchangedTypes DEF CallFails

\* The same holds of a refusal and of a lost answer, whatever they leave of Infisical.
LEMMA RefusedType ==
  ASSUME CRTypeOK, StepTypeOK, pc # Idle, NEW reason \in Reasons,
         Refused(reason) \/ AnswerLost(reason)
  PROVE  CRTypeOK' /\ StepTypeOK'
BY InProgress, ReturnErrorType DEF Refused, AnswerLost

\* The records that Infisical may come to hold.
LEMMA CreatedType ==
  ASSUME NEW spec \in Specs
  PROVE  Created(spec) \in ProjectRecords
BY ConstantsAssumption DEF Created, ProjectRecords, Specs, Memberships

LEMMA PatchedType ==
  ASSUME RemoteTypeOK, NEW p \in ProjectIDs, NEW spec \in Specs
  PROVE  /\ Patched(p, spec) \in ProjectRecords
         /\ Patched(p, spec).state = remote[p].state
         /\ Patched(p, spec).organization = remote[p].organization
         /\ Patched(p, spec).creator = remote[p].creator
         /\ Patched(p, spec).name = spec.name
<1> DEFINE r1 == [remote[p] EXCEPT !.name = spec.name]
           d  == IF spec.description = NoDescription THEN r1.description ELSE spec.description
           r2 == [r1 EXCEPT !.description = d]
           s  == IF spec.slug = None THEN r2.slug ELSE spec.slug
           r3 == [r2 EXCEPT !.slug = s]
           r4 == [r3 EXCEPT !.protected = spec.protected]
<1>0. /\ spec.name \in Names /\ spec.description \in Descriptions
      /\ spec.slug \in Slugs /\ spec.protected \in BOOLEAN
  BY ConstantsAssumption DEF Specs
<1>1. r1 \in ProjectRecords
      /\ r1.state = remote[p].state /\ r1.organization = remote[p].organization
      /\ r1.creator = remote[p].creator /\ r1.name = spec.name
  BY <1>0 DEF RemoteTypeOK, ProjectRecords
<1>. HIDE DEF r1
<1>2. /\ r2 \in ProjectRecords /\ r2.state = r1.state /\ r2.organization = r1.organization
      /\ r2.creator = r1.creator /\ r2.name = r1.name
  BY <1>0, <1>1 DEF ProjectRecords
<1>. HIDE DEF r2
<1>3. /\ r3 \in ProjectRecords /\ r3.state = r2.state /\ r3.organization = r2.organization
      /\ r3.creator = r2.creator /\ r3.name = r2.name
  BY <1>0, <1>2 DEF ProjectRecords
<1>. HIDE DEF r3
<1>4. /\ r4 \in ProjectRecords /\ r4.state = r3.state /\ r4.organization = r3.organization
      /\ r4.creator = r3.creator /\ r4.name = r3.name
  BY <1>0, <1>3 DEF ProjectRecords
<1>5. Patched(p, spec) = r4
  BY Zenon DEF Patched, r1, r2, r3
<1>. QED
  BY <1>1, <1>2, <1>3, <1>4, <1>5

LEMMA ChangedOutsideType ==
  ASSUME NEW r \in ProjectRecords, NEW changed \in ChangedOutside(r)
  PROVE  /\ changed \in ProjectRecords
         /\ changed.state = r.state /\ changed.organization = r.organization
         /\ changed.creator = r.creator /\ changed.name = r.name
<1>1. CASE \E d \in Descriptions \cup {NoDescription} : changed = [r EXCEPT !.description = d]
  BY <1>1 DEF ProjectRecords
<1>2. CASE changed = [r EXCEPT !.protected = ~@]
  <2>1. (~r.protected) \in BOOLEAN
    OBVIOUS
  <2>2. changed = [r EXCEPT !.protected = ~r.protected]
    BY <1>2
  <2>. QED
    BY <2>1, <2>2 DEF ProjectRecords
<1>3. CASE \E m \in {"None", "Member"} : changed = [r EXCEPT !.membership = m]
  BY <1>3 DEF ProjectRecords, Memberships
<1>. QED
  BY <1>1, <1>2, <1>3 DEF ChangedOutside

LEMMA DeleteType ==
  ASSUME RemoteTypeOK, NEW p, Delete(p)
  PROVE  RemoteTypeOK'
<1>1. ASSUME NEW q \in ProjectIDs
      PROVE  [remote[q] EXCEPT !.state = IF Present(p) THEN "Deleted" ELSE @] \in ProjectRecords
  BY DEF RemoteTypeOK, ProjectRecords
<1>2. ASSUME NEW q \in ProjectIDs
      PROVE  remote'[q] \in ProjectRecords
  BY <1>1, <1>2 DEF RemoteTypeOK, Delete
<1>. QED
  BY <1>2 DEF RemoteTypeOK, Delete

-----------------------------------------------------------------------------
(* Type correctness *)

LEMMA InitType == Init => Typed
<1> SUFFICES ASSUME Init PROVE Typed
  OBVIOUS
<1>1. CRTypeOK
  <2>1. NoStatus \in Statuses
    BY DEF NoStatus, Statuses, Reasons
  <2>2. PICK s \in Specs :
          api = [exists |-> TRUE, deleting |-> FALSE, finalizer |-> FALSE,
                 spec |-> s, status |-> NoStatus]
    BY DEF Init
  <2>3. cache = api /\ undelivered = <<>>
    BY DEF Init
  <2>. QED
    BY <2>1, <2>2, <2>3 DEF Resources, CRTypeOK
<1>2. RemoteTypeOK
  <2>1. PICK o \in [InitiallyPresent -> Organizations], n \in [InitiallyPresent -> Names] :
          remote = [p \in ProjectIDs |->
            IF p \in InitiallyPresent
            THEN [Unused EXCEPT !.state = "Present", !.creator = "Other",
                                !.organization = o[p], !.name = n[p], !.membership = "Member"]
            ELSE Unused]
    BY DEF Init
  <2>2. Unused \in ProjectRecords
    BY DEF Unused, ProjectRecords, Memberships
  <2>3. ASSUME NEW p \in InitiallyPresent
        PROVE  [Unused EXCEPT !.state = "Present", !.creator = "Other",
                              !.organization = o[p], !.name = n[p], !.membership = "Member"]
                 \in ProjectRecords
    <3> DEFINE r1 == [Unused EXCEPT !.state = "Present", !.creator = "Other"]
               r2 == [r1 EXCEPT !.organization = o[p]]
               r3 == [r2 EXCEPT !.name = n[p]]
               r4 == [r3 EXCEPT !.membership = "Member"]
    <3>1. r1 \in ProjectRecords
      BY <2>2 DEF Unused, ProjectRecords, Memberships
    <3>. HIDE DEF r1
    <3>2. r2 \in ProjectRecords
      BY <3>1 DEF ProjectRecords
    <3>. HIDE DEF r2
    <3>3. r3 \in ProjectRecords
      BY <3>2 DEF ProjectRecords
    <3>. HIDE DEF r3
    <3>4. r4 \in ProjectRecords
      BY <3>3 DEF ProjectRecords, Memberships
    <3>. QED
      BY <3>4, Zenon DEF r1, r2, r3
  <2>. QED
    BY <2>1, <2>2, <2>3 DEF RemoteTypeOK
<1>. QED
  BY <1>1, <1>2 DEF Init, Typed, StepTypeOK, WorldTypeOK

\* Every step of a reconciliation leaves its surroundings alone and adds at most
\* one fault.
LEMMA ReconcileWorld ==
  ASSUME WorldTypeOK, Reconcile \/ Crash
  PROVE  WorldTypeOK'
<1>1. UNCHANGED envVars /\ (NoFault \/ \E kind : Fault(kind))
  BY DEF Reconcile, Crash, EnsureFinalizer, BeginReconcile, BeginDeletion, ReadCache,
         Adopt, CreateProject, ReadMembership, WriteMembership, ReadProject, UpdateProject,
         PersistReady, DeleteProject, DeleteFinalizer, CallFails, Refused, AnswerLost, NoFault
<1>. QED
  BY <1>1 DEF WorldTypeOK, envVars, NoFault, Fault

LEMMA StepNames ==
  /\ \A spec : AfterAcquire(spec) \in {"readMembership", "read"}
  /\ \A resource : FirstStep(resource) \in {"readMembership", "read", "adopt", "create"}
  /\ {"readMembership", "read", "adopt", "create", "writeMembership", "update", "persist",
      "deleteProject", "deleteFinalizer"} \subseteq Steps
BY DEF AfterAcquire, FirstStep, Steps

LEMMA LoadedType ==
  ASSUME CRTypeOK, NEW expected \in Organizations \cup {None}
  PROVE  /\ Loaded(expected) \in Memories /\ cache.status \in Statuses
         /\ Loaded(expected).spec = cache.spec /\ Loaded(expected).status = cache.status
         /\ Loaded(expected).before = cache.status /\ Loaded(expected).current = CR!Current
BY DEF Loaded, CRTypeOK, Resources, Memories, Memberships, CR!Current

\* The first step of a reconciliation.
LEMMA BeginType ==
  ASSUME CRTypeOK, RemoteTypeOK, StepTypeOK, WorldTypeOK,
         EnsureFinalizer \/ BeginReconcile \/ BeginDeletion
  PROVE  CRTypeOK' /\ RemoteTypeOK' /\ StepTypeOK'
<1>1. RemoteTypeOK'
  BY UnchangedTypes DEF EnsureFinalizer, BeginReconcile, BeginDeletion
<1>2. CASE EnsureFinalizer
  <2>1. [api EXCEPT !.finalizer = TRUE] \in Resources
    BY DEF CRTypeOK, Resources
  <2>. QED
    BY <1>1, <1>2, <2>1, PutType, UnchangedTypes DEF EnsureFinalizer
<1>3. CASE BeginReconcile
  <2>1. {"OrganizationNotReady", "ConnectionNotReady"} \subseteq Reasons
    BY DEF Reasons
  <2>2. /\ FirstStep(cache) \in Steps
        /\ FirstStep(cache) \notin {"adopt", "create"} => cache.status.project \in ProjectIDs
    BY StepNames DEF FirstStep, CRTypeOK, Resources, Statuses
  <2>3. ExpectedOrganization(cache.spec) \in Organizations \cup {None}
    BY DEF ExpectedOrganization, WorldTypeOK
  <2>. QED
    BY <1>1, <1>3, <2>1, <2>2, <2>3, LoadedType, ContinueType, ReturnErrorType, UnchangedTypes
    DEF BeginReconcile
<1>4. CASE BeginDeletion
  <2>1. ~NothingToDelete(cache) => cache.status.project \in ProjectIDs
    BY DEF NothingToDelete, CRTypeOK, Resources, Statuses
  <2>. QED
    BY <1>1, <1>4, <2>1, LoadedType, StepNames, ContinueType, RemoveFinalizerType, UnchangedTypes
    DEF BeginDeletion
<1>. QED
  BY <1>2, <1>3, <1>4

\* Adoption and creation.
LEMMA AcquireType ==
  ASSUME CRTypeOK, RemoteTypeOK, StepTypeOK, Adopt \/ CreateProject
  PROVE  CRTypeOK' /\ RemoteTypeOK' /\ StepTypeOK'
<1>1. pc # Idle
  BY DEF Adopt, CreateProject, Idle
<1>2. mem \in Memories /\ mem.status \in Statuses /\ mem.spec \in Specs
  BY <1>1, InProgress
<1>3. {"ExternalReadFailed", "ExternalProjectMismatch", "RemoteProjectMissing",
       "ExternalCreateFailed"} \subseteq Reasons
  BY DEF Reasons
<1>4. ASSUME NEW p \in ProjectIDs,
             Continue(AfterAcquire(mem.spec), [mem EXCEPT !.status.project = p])
      PROVE  StepTypeOK'
  <2>1. AfterAcquire(mem.spec) \in Steps
    BY StepNames
  <2>. QED
    BY <1>2, <1>4, <2>1, MemoryType, ContinueType
<1>5. CASE Adopt
  <2>1. Found(mem.spec) \subseteq ProjectIDs
    BY DEF Found, WithSlug, WithName
  <2>2. CASE CallFails("ExternalReadFailed")
    BY <1>1, <1>3, <2>2, CallFailsType
  <2>3. CASE UNCHANGED remote /\ \E reason \in Reasons : Refused(reason)
    BY <1>1, <2>3, RefusedType, UnchangedTypes
  <2>4. CASE UNCHANGED <<remote, crVars>> /\ Continue("create", mem)
    BY <1>2, <2>4, StepNames, ContinueType, UnchangedTypes
  <2>5. CASE /\ UNCHANGED <<remote, crVars>>
             /\ \E p \in ProjectIDs :
                  Continue(AfterAcquire(mem.spec), [mem EXCEPT !.status.project = p])
    BY <1>4, <2>5, UnchangedTypes
  <2>. QED
    BY <1>3, <1>5, <2>1, <2>2, <2>3, <2>4, <2>5 DEF Adopt
<1>6. CASE CreateProject
  <2>1. CASE CallFails("ExternalCreateFailed")
    BY <1>1, <1>3, <2>1, CallFailsType
  <2>2. CASE UNCHANGED remote /\ Refused("ExternalCreateFailed")
    BY <1>1, <1>3, <2>2, RefusedType, UnchangedTypes
  <2>3. ASSUME NEW p \in ProjectIDs, remote' = [remote EXCEPT ![p] = Created(mem.spec)],
               \/ /\ Continue(AfterAcquire(mem.spec), [mem EXCEPT !.status.project = p])
                  /\ UNCHANGED crVars
               \/ ReturnError([mem.status EXCEPT !.project = p], "ExternalProjectMismatch")
               \/ AnswerLost("ExternalCreateFailed")
        PROVE  CRTypeOK' /\ RemoteTypeOK' /\ StepTypeOK'
    <3>1. RemoteTypeOK'
      BY <1>2, <2>3, CreatedType DEF RemoteTypeOK
    <3>2. [mem.status EXCEPT !.project = p] \in Statuses
      BY <1>2 DEF Statuses
    <3>. QED
      BY <1>1, <1>3, <1>4, <2>3, <3>1, <3>2, ReturnErrorType, RefusedType, UnchangedTypes
  <2>. QED
    BY <1>6, <2>1, <2>2, <2>3 DEF CreateProject
<1>. QED
  BY <1>5, <1>6

\* The membership of the creating identity.
LEMMA MembershipType ==
  ASSUME CRTypeOK, RemoteTypeOK, StepTypeOK, ReadMembership \/ WriteMembership
  PROVE  CRTypeOK' /\ RemoteTypeOK' /\ StepTypeOK'
<1>1. pc # Idle /\ mem.status.project \in ProjectIDs
  BY DEF ReadMembership, WriteMembership, Idle, StepTypeOK
<1>2. mem \in Memories /\ mem.status \in Statuses
  BY <1>1, InProgress
<1>3. "ExternalMembershipFailed" \in Reasons
  BY DEF Reasons
<1>4. CASE CallFails("ExternalMembershipFailed")
  BY <1>1, <1>3, <1>4, CallFailsType
<1>5. CASE ReadMembership /\ ~CallFails("ExternalMembershipFailed")
  <2>1. {remote[mem.status.project].membership, "None"} \subseteq Memberships
    BY <1>1 DEF RemoteTypeOK, ProjectRecords, Memberships
  <2>2. UNCHANGED <<crVars, remote>>
    BY <1>5 DEF ReadMembership
  <2>3. \/ Continue("read", mem)
        \/ \E r \in Memberships : Continue("writeMembership", [mem EXCEPT !.membership = r])
    BY <1>5, <2>1 DEF ReadMembership
  <2>. QED
    BY <1>1, <1>2, <2>2, <2>3, StepNames, MemoryType, ContinueType, UnchangedTypes
<1>6. CASE WriteMembership /\ ~CallFails("ExternalMembershipFailed")
  <2>1. RemoteTypeOK'
    <3>1. [remote[mem.status.project] EXCEPT !.membership = "Admin"] \in ProjectRecords
      BY <1>1 DEF RemoteTypeOK, ProjectRecords, Memberships
    <3>. QED
      BY <1>6, <3>1 DEF WriteMembership, RemoteTypeOK
  <2>2. CRTypeOK' /\ StepTypeOK'
    BY <1>1, <1>2, <1>3, <1>6, StepNames, ContinueType, RefusedType, UnchangedTypes
    DEF WriteMembership
  <2>. QED
    BY <2>1, <2>2
<1>. QED
  BY <1>4, <1>5, <1>6

\* The project itself, and the status.
LEMMA FieldsType ==
  ASSUME CRTypeOK, RemoteTypeOK, StepTypeOK, ReadProject \/ UpdateProject \/ PersistReady
  PROVE  CRTypeOK' /\ RemoteTypeOK' /\ StepTypeOK'
<1>1. pc # Idle /\ mem.status.project \in ProjectIDs
  BY DEF ReadProject, UpdateProject, PersistReady, Idle, StepTypeOK
<1>2. mem \in Memories /\ mem.status \in Statuses /\ mem.before \in Statuses /\ mem.spec \in Specs
  BY <1>1, InProgress
<1>3. {"ExternalReadFailed", "ExternalProjectMismatch", "ExternalUpdateFailed", "Ready"}
        \subseteq Reasons
  BY DEF Reasons
<1>4. ClearedStatus \in Statuses
  BY DEF ClearedStatus, NoStatus, Statuses, Reasons
<1>5. CASE ReadProject
  <2>1. CASE CallFails("ExternalReadFailed")
    BY <1>1, <1>3, <2>1, CallFailsType
  <2>2. CASE UNCHANGED remote /\ Refused("ExternalProjectMismatch")
    BY <1>1, <1>3, <2>2, RefusedType, UnchangedTypes
  <2>3. CASE UNCHANGED <<remote, crVars>> /\ \E step \in {"update", "persist"} : Continue(step, mem)
    BY <1>1, <1>2, <2>3, StepNames, ContinueType, UnchangedTypes
  <2>4. CASE UNCHANGED remote /\ PatchStatus(mem.status, ClearedStatus) /\ EndReconcile
    BY <1>2, <1>4, <2>4, PatchStatusType, UnchangedTypes
  <2>. QED
    BY <1>5, <2>1, <2>2, <2>3, <2>4 DEF ReadProject
<1>6. CASE UpdateProject
  <2>1. CASE CallFails("ExternalUpdateFailed")
    BY <1>1, <1>3, <2>1, CallFailsType
  <2>2. CASE ~CallFails("ExternalUpdateFailed")
    <3>1. RemoteTypeOK'
      BY <1>1, <1>2, <1>6, <2>2, PatchedType DEF UpdateProject, RemoteTypeOK
    <3>2. CRTypeOK' /\ StepTypeOK'
      BY <1>1, <1>2, <1>3, <1>6, <2>2, StepNames, ContinueType, RefusedType, UnchangedTypes
      DEF UpdateProject
    <3>. QED
      BY <3>1, <3>2
  <2>. QED
    BY <2>1, <2>2
<1>7. CASE PersistReady
  <2>1. [mem.status EXCEPT !.reason = "Ready"] \in Statuses
    BY <1>2, <1>3 DEF Statuses
  <2>. QED
    BY <1>2, <1>7, <2>1, PatchStatusType, UnchangedTypes DEF PersistReady
<1>. QED
  BY <1>5, <1>6, <1>7

\* The steps of a deletion, and a reconciliation that breaks off.
LEMMA DeletionStepType ==
  ASSUME CRTypeOK, RemoteTypeOK, StepTypeOK, DeleteProject \/ DeleteFinalizer \/ Crash
  PROVE  CRTypeOK' /\ RemoteTypeOK' /\ StepTypeOK'
<1>1. CASE DeleteProject
  <2>1. mem \in Memories /\ mem.status.project \in ProjectIDs
    BY <1>1 DEF DeleteProject, Idle, StepTypeOK
  <2>2. RemoteTypeOK'
    BY <1>1, DeleteType, UnchangedTypes DEF DeleteProject
  <2>. QED
    BY <1>1, <2>1, <2>2, StepNames, ContinueType, UnchangedTypes DEF DeleteProject
<1>2. CASE DeleteFinalizer \/ Crash
  BY <1>2, RemoveFinalizerType, UnchangedTypes DEF DeleteFinalizer, Crash
<1>. QED
  BY <1>1, <1>2

\* Users, other controllers and Infisical administrators.
LEMMA OutsideType ==
  ASSUME CRTypeOK, RemoteTypeOK, StepTypeOK, WorldTypeOK, Outside
  PROVE  CRTypeOK' /\ RemoteTypeOK' /\ StepTypeOK' /\ WorldTypeOK'
<1>1. WorldTypeOK'
  <2>1. faults' \in Nat /\ disturbances' \in Nat
    BY DEF WorldTypeOK, Outside, Disturb, EditSpec, DeleteResource, RemoveOutside,
           ConfigureOutside, ChangeOrganization, LoseConnection,
      RestoreDependency
  <2>2. organization' \in Organizations \cup {None} /\ connected' \in BOOLEAN
    BY DEF WorldTypeOK, Outside, EditSpec, DeleteResource, RemoveOutside,
           ConfigureOutside, ChangeOrganization, LoseConnection,
      RestoreDependency
  <2>. QED
    BY <2>1, <2>2 DEF WorldTypeOK
<1>2. OutdateCopy /\ UNCHANGED pc => StepTypeOK'
  BY MemoryType DEF OutdateCopy, StepTypeOK
<1>3. CASE EditSpec \/ DeleteResource
  <2>1. ASSUME NEW s \in Specs PROVE [api EXCEPT !.spec = s] \in Resources
    BY DEF CRTypeOK, Resources
  <2>2. [api EXCEPT !.deleting = api.finalizer, !.exists = api.finalizer] \in Resources
    BY DEF CRTypeOK, Resources
  <2>. QED
    BY <1>1, <1>2, <1>3, <2>1, <2>2, PutType, UnchangedTypes
    DEF EditSpec, DeleteResource, Disturb
<1>4. CASE RemoveOutside \/ ConfigureOutside
  <2>1. UNCHANGED <<pc, mem>> /\ UNCHANGED crVars
    BY <1>4 DEF RemoveOutside, ConfigureOutside, Disturb, crVars
  <2>2. ASSUME NEW p \in ProjectIDs
        PROVE  ChangedOutside(remote[p]) \subseteq ProjectRecords
    BY ChangedOutsideType DEF RemoteTypeOK
  <2>3. RemoteTypeOK'
    BY <1>4, <2>2, DeleteType DEF RemoveOutside, ConfigureOutside, RemoteTypeOK
  <2>. QED
    BY <1>1, <2>1, <2>3, UnchangedTypes
<1>5. CASE ChangeOrganization \/ LoseConnection \/ RestoreDependency
  BY <1>1, <1>5, UnchangedTypes DEF ChangeOrganization, LoseConnection,
      RestoreDependency, Disturb
<1>. QED
  BY <1>3, <1>4, <1>5 DEF Outside

LEMMA TypedHolds == Spec => []Typed
<1>1. Typed /\ [Next]_vars => Typed'
  <2> SUFFICES ASSUME CRTypeOK, RemoteTypeOK, StepTypeOK, WorldTypeOK, [Next]_vars
               PROVE  CRTypeOK' /\ RemoteTypeOK' /\ StepTypeOK' /\ WorldTypeOK'
    BY DEF Typed
  <2>1. CASE Reconcile \/ Crash
    BY <2>1, ReconcileWorld, BeginType, AcquireType, MembershipType, FieldsType,
       DeletionStepType DEF Reconcile
  <2>2. CASE DeliverResource
    <3>1. CRTypeOK'
      BY <2>2 DEF DeliverResource, CR!Deliver, CRTypeOK
    <3>. QED
      BY <2>2, <3>1, UnchangedTypes DEF DeliverResource, envVars, WorldTypeOK
  <2>3. CASE Outside
    BY <2>3, OutsideType
  <2>4. CASE UNCHANGED vars
    BY <2>4, UnchangedTypes DEF vars, envVars, WorldTypeOK
  <2>. QED
    BY <2>1, <2>2, <2>3, <2>4 DEF Next
<1>. QED
  BY <1>1, InitType, PTL DEF Spec

\* Every variable keeps its type, whatever interleaves with a reconciliation;
\* in particular no call of a reconciliation names the empty id.
THEOREM TypeCorrect == Spec => []TypeOK
<1>1. Typed => TypeOK
  BY DEF Typed, TypeOK, CRTypeOK, RemoteTypeOK, StepTypeOK, WorldTypeOK
<1>. QED
  BY <1>1, TypedHolds, PTL

-----------------------------------------------------------------------------
(* Steps *)

LEMMA ResourceSteps ==
  ASSUME Next
  PROVE  UNCHANGED crVars \/ (\E r : CR!Put(r)) \/ CR!Deliver
<1>1. CASE EnsureFinalizer \/ BeginReconcile \/ BeginDeletion
  BY <1>1, WritesBack DEF EnsureFinalizer, BeginReconcile, BeginDeletion
<1>2. CASE Adopt \/ CreateProject \/ ReadMembership \/ WriteMembership
  BY <1>2, WritesBack
  DEF Adopt, CreateProject, ReadMembership, WriteMembership, CallFails, Refused, AnswerLost
<1>3. CASE ReadProject \/ UpdateProject \/ PersistReady \/ DeleteProject \/ DeleteFinalizer
  BY <1>3, WritesBack
  DEF ReadProject, UpdateProject, PersistReady, DeleteProject, DeleteFinalizer, CallFails,
      Refused, AnswerLost
<1>4. CASE ~Reconcile
  BY <1>4
  DEF Next, Crash, DeliverResource, Outside, EditSpec, DeleteResource, RemoveOutside,
      ConfigureOutside, ChangeOrganization, LoseConnection,
      RestoreDependency
<1>. QED
  BY <1>1, <1>2, <1>3, <1>4 DEF Reconcile

\* Only the last step of a reconciliation stores a project, the one in memory, or
\* says Ready; and it says Ready of no other, unless it is overtaken.
LEMMA RecordSteps ==
  ASSUME CRTypeOK, StepTypeOK, Next
  PROVE  /\ \/ api'.status.project \in {api.status.project, None}
            \/ PersistReady /\ api'.status.project = mem.status.project
         /\ \/ api'.status.reason = api.status.reason \/ api'.status.reason # "Ready"
            \/ PersistReady /\ (Overtaken \/ api'.status.project = mem.status.project)
<1> DEFINE SameRecord ==
      /\ api'.status.project \in {api.status.project, None}
      /\ api'.status.reason = api.status.reason \/ api'.status.reason # "Ready"
<1>1. UNCHANGED crVars => SameRecord
  BY DEF crVars
<1>2. ASSUME NEW status \in Statuses, NEW reason \in Reasons \ {"Ready"},
             ReturnError(status, reason)
      PROVE  SameRecord
  BY <1>2, ReturnErrorType
<1>3. /\ {"OrganizationNotReady", "ConnectionNotReady", "ExternalReadFailed",
          "ExternalProjectMismatch", "RemoteProjectMissing", "ExternalCreateFailed",
          "ExternalMembershipFailed", "ExternalUpdateFailed"} \subseteq Reasons \ {"Ready"}
      /\ "Ready" \in Reasons
  BY DEF Reasons
<1>4. cache.status \in Statuses
  BY DEF CRTypeOK, Resources
<1>5. CASE EnsureFinalizer \/ BeginReconcile \/ BeginDeletion \/ DeleteFinalizer
  <2>1. CASE EnsureFinalizer
    BY <2>1 DEF EnsureFinalizer, CR!Put, CRTypeOK, Resources
  <2>2. CASE BeginReconcile
    BY <1>1, <1>2, <1>3, <1>4, <2>2 DEF BeginReconcile
  <2>3. CASE BeginDeletion \/ DeleteFinalizer
    BY <1>1, <2>3, RemoveFinalizerType DEF BeginDeletion, DeleteFinalizer
  <2>. QED
    BY <1>5, <2>1, <2>2, <2>3
<1>6. CASE \/ Adopt \/ CreateProject \/ ReadMembership \/ WriteMembership
           \/ ReadProject \/ UpdateProject \/ PersistReady \/ DeleteProject
  <2>1. mem \in Memories /\ mem.status \in Statuses /\ mem.before \in Statuses
    BY <1>6, InProgress
    DEF Adopt, CreateProject, ReadMembership, WriteMembership, ReadProject, UpdateProject,
        PersistReady, DeleteProject, Idle
  <2>2. ASSUME NEW reason \in Reasons \ {"Ready"},
             CallFails(reason) \/ Refused(reason) \/ AnswerLost(reason)
        PROVE  SameRecord
    BY <1>2, <2>1, <2>2 DEF CallFails, Refused, AnswerLost
  <2>3. CASE Adopt \/ ReadMembership \/ WriteMembership \/ UpdateProject \/ DeleteProject
    BY <1>1, <1>3, <2>2, <2>3
    DEF Adopt, ReadMembership, WriteMembership, UpdateProject, DeleteProject
  <2>4. CASE CreateProject
    <3>1. ASSUME NEW p \in ProjectIDs PROVE [mem.status EXCEPT !.project = p] \in Statuses
      BY <2>1 DEF Statuses
    <3>. QED
      BY <1>1, <1>2, <1>3, <2>2, <2>4, <3>1 DEF CreateProject
  <2>5. CASE ReadProject
    <3>1. CASE PatchStatus(mem.status, ClearedStatus)
      <4>1. /\ ClearedStatus \in Statuses /\ ClearedStatus.project = None
            /\ ClearedStatus.reason # "Ready"
        BY DEF ClearedStatus, NoStatus, Statuses, Reasons
      <4>. QED
        BY <2>1, <3>1, <4>1, PatchStatusType
    <3>. QED
      BY <1>1, <1>3, <2>2, <2>5, <3>1 DEF ReadProject
  <2>6. CASE PersistReady
    <3>1. CASE PatchStatus(mem.before, [mem.status EXCEPT !.reason = "Ready"])
      <4>1. [mem.status EXCEPT !.reason = "Ready"] \in Statuses
            /\ [mem.status EXCEPT !.reason = "Ready"].project = mem.status.project
        BY <1>3, <2>1 DEF Statuses
      <4>. QED
        BY <2>1, <2>6, <3>1, <4>1, PatchStatusType DEF Overtaken
    <3>. QED
      BY <1>1, <2>6, <3>1 DEF PersistReady
  <2>. QED
    BY <1>6, <2>3, <2>4, <2>5, <2>6
<1>7. CASE EditSpec \/ DeleteResource
  BY <1>7 DEF EditSpec, DeleteResource, CR!Put, CRTypeOK, Resources
<1>8. CASE ~Reconcile /\ ~EditSpec /\ ~DeleteResource
  BY <1>1, <1>8
  DEF Next, Crash, DeliverResource, CR!Deliver, Outside, RemoveOutside, ConfigureOutside,
      ChangeOrganization, LoseConnection,
      RestoreDependency
<1>. QED
  BY <1>5, <1>6, <1>7, <1>8 DEF Reconcile

\* A reconciliation changes the project in its memory and creates unused ones; a
\* project keeps its organization and its id is not used again.
LEMMA RemoteSteps ==
  ASSUME Typed, Next, NEW p \in ProjectIDs
  PROVE  /\ \/ remote'[p] = remote[p]
            \/ CreateProject /\ remote[p].state = "Unused"
            \/ (WriteMembership \/ UpdateProject \/ DeleteProject) /\ p = mem.status.project
            \/ (RemoveOutside \/ ConfigureOutside)
         /\ remote[p].state # "Unused" =>
              remote'[p].state # "Unused" /\ remote'[p].organization = remote[p].organization
<1>1. remote[p] \in ProjectRecords
  BY DEF Typed, RemoteTypeOK
<1>2. UNCHANGED remote => remote'[p] = remote[p]
  OBVIOUS
<1>3. pc # Idle => mem.spec \in Specs
  BY InProgress DEF Typed
<1>4. ASSUME NEW q, Delete(q)
      PROVE  /\ remote'[p] # remote[p] => p = q
             /\ remote[p].state # "Unused" =>
                  remote'[p].state # "Unused" /\ remote'[p].organization = remote[p].organization
  <2>1. [remote[p] EXCEPT !.state = IF Present(q) THEN "Deleted" ELSE @].organization
          = remote[p].organization
    BY <1>1 DEF ProjectRecords
  <2>. QED
    BY <1>1, <1>4, <2>1 DEF Delete, Typed, RemoteTypeOK, ProjectRecords
<1>5. CASE \/ EnsureFinalizer \/ BeginReconcile \/ BeginDeletion \/ Adopt \/ ReadMembership
           \/ ReadProject \/ PersistReady \/ DeleteFinalizer
  BY <1>2, <1>5
  DEF EnsureFinalizer, BeginReconcile, BeginDeletion, Adopt, ReadMembership, ReadProject,
      PersistReady, DeleteFinalizer
<1>6. CASE CreateProject
  <2>1. CASE UNCHANGED remote
    BY <1>2, <2>1
  <2>2. CASE \E q \in ProjectIDs : remote[q].state = "Unused"
                                   /\ remote' = [remote EXCEPT ![q] = Created(mem.spec)]
    BY <1>6, <2>2 DEF Typed, RemoteTypeOK
  <2>. QED
    BY <1>6, <2>1, <2>2 DEF CreateProject, CallFails
<1>7. CASE WriteMembership
  BY <1>1, <1>7 DEF WriteMembership, CallFails, Typed, RemoteTypeOK, ProjectRecords
<1>8. CASE UpdateProject
  <2>1. CASE UNCHANGED remote
    BY <1>2, <2>1
  <2>2. CASE remote' = [remote EXCEPT ![mem.status.project] = Patched(mem.status.project, mem.spec)]
    <3>1. mem.spec \in Specs
      BY <1>3, <1>8 DEF UpdateProject, Idle
    <3>. QED
      BY <1>1, <1>8, <2>2, <3>1, PatchedType DEF Typed, RemoteTypeOK
  <2>. QED
    BY <1>8, <2>1, <2>2 DEF UpdateProject, CallFails
<1>9. CASE DeleteProject
  BY <1>2, <1>4, <1>9 DEF DeleteProject
<1>10. CASE RemoveOutside
  BY <1>4, <1>10 DEF RemoveOutside
<1>11. CASE ConfigureOutside
  <2>0. PICK q \in ProjectIDs :
          \E c \in ChangedOutside(remote[q]) : remote' = [remote EXCEPT ![q] = c]
    BY <1>11 DEF ConfigureOutside
  <2>1. PICK changed \in ChangedOutside(remote[q]) : remote' = [remote EXCEPT ![q] = changed]
    BY <2>0
  <2>2. remote[q] \in ProjectRecords
    BY DEF Typed, RemoteTypeOK
  <2>3. changed.state = remote[q].state /\ changed.organization = remote[q].organization
    BY <2>1, <2>2, ChangedOutsideType
  <2>. QED
    BY <1>11, <2>1, <2>3 DEF Typed, RemoteTypeOK
<1>12. CASE ~Reconcile /\ ~RemoveOutside /\ ~ConfigureOutside
  BY <1>2, <1>12
  DEF Next, Crash, DeliverResource, Outside, EditSpec, DeleteResource, ChangeOrganization, LoseConnection,
      RestoreDependency
<1>. QED
  BY <1>5, <1>6, <1>7, <1>8, <1>9, <1>10, <1>11, <1>12 DEF Reconcile

\* The calls of a deletion, and those that come before the project is checked.
Deleting  == {"deleteProject", "deleteFinalizer"}
Unchecked == {"readMembership", "writeMembership", "read"}

\* The project in a memory m lies in the organization that was resolved.
Checked(r, m) ==
  /\ r[m.status.project].state # "Unused"
  /\ m.expected \in {None, r[m.status.project].organization}

\* The five ways in which a reconciliation gets its next memory.
LEMMA MemorySteps ==
  ASSUME Typed, Next, pc' # Idle
  PROVE  \/ /\ ReadCache /\ UNCHANGED <<crVars, remote>>
            /\ \E expected \in Organizations \cup {None} : mem' = Loaded(expected)
            /\ pc' \in Unchecked \cup {"adopt", "create", "deleteProject"}
         \/ /\ pc \in {"adopt", "create"} /\ pc' \in {"readMembership", "read"}
            /\ UNCHANGED crVars /\ mem'.before = mem.before /\ mem'.current = mem.current
            /\ mem'.status.project \in ProjectIDs /\ Checked(remote', mem')
         \/ /\ pc # Idle /\ UNCHANGED crVars
            /\ mem'.status = mem.status /\ mem'.before = mem.before
            /\ mem'.expected = mem.expected /\ mem'.current = mem.current
            /\ \/ pc' = "create"
               \/ pc \in Unchecked /\ pc' \in Unchecked
               \/ pc = "read" /\ pc' \in {"update", "persist"} /\ Checked(remote', mem')
               \/ pc = "update" /\ pc' = "persist"
         \/ DeleteProject /\ Delete(mem.status.project) /\ mem' = mem /\ UNCHANGED crVars
         \/ /\ ~Reconcile /\ pc' = pc /\ pc # Idle
            /\ mem'.status = mem.status /\ mem'.before = mem.before
            /\ mem'.expected = mem.expected
            /\ mem'.current = FALSE \/ (mem'.current = mem.current /\ UNCHANGED api)
<1>1. ~EndReconcile
  BY DEF EndReconcile
<1>2. ASSUME NEW status, NEW reason PROVE ~ReturnError(status, reason)
  BY <1>1 DEF ReturnError
<1>3. ASSUME NEW reason PROVE ~CallFails(reason) /\ ~Refused(reason) /\ ~AnswerLost(reason)
  BY <1>2 DEF CallFails, Refused, AnswerLost
<1>4. pc # Idle => mem \in Memories
  BY InProgress DEF Typed
<1>5. ASSUME NEW p \in ProjectIDs, pc \in {"adopt", "create"}, UNCHANGED crVars,
             Continue(AfterAcquire(mem.spec), [mem EXCEPT !.status.project = p])
      PROVE  /\ pc' \in {"readMembership", "read"}
             /\ mem'.expected = mem.expected
             /\ mem'.before = mem.before /\ mem'.current = mem.current
             /\ mem'.status.project = p
  <2>1. mem \in Memories
    BY <1>4, <1>5 DEF Idle
  <2>2. pc' \in {"readMembership", "read"} /\ mem' = [mem EXCEPT !.status.project = p]
    BY <1>5, StepNames DEF Continue
  <2>. QED
    BY <2>1, <2>2, MemoryType
<1>6. CASE EnsureFinalizer \/ BeginReconcile \/ BeginDeletion
  <2>1. FirstStep(cache) \in Unchecked \cup {"adopt", "create"}
    BY StepNames DEF Unchecked
  <2>2. ExpectedOrganization(cache.spec) \in Organizations \cup {None}
    BY DEF ExpectedOrganization, Typed, WorldTypeOK
  <2>. QED
    BY <1>1, <1>2, <1>6, <2>1, <2>2
    DEF EnsureFinalizer, BeginReconcile, BeginDeletion, Continue
<1>7. CASE Adopt
  <2>1. CASE UNCHANGED crVars /\ Continue("create", mem)
    BY <1>7, <2>1 DEF Adopt, Continue, Idle
  <2>2. ASSUME NEW p \in Found(mem.spec), OrganizationMatches(p, mem.expected),
               UNCHANGED crVars,
               Continue(AfterAcquire(mem.spec), [mem EXCEPT !.status.project = p])
        PROVE  /\ pc \in {"adopt", "create"} /\ pc' \in {"readMembership", "read"}
               /\ UNCHANGED crVars /\ mem'.before = mem.before /\ mem'.current = mem.current
               /\ mem'.status.project \in ProjectIDs /\ Checked(remote', mem')
    <3>1. p \in ProjectIDs /\ remote[p].state = "Present"
      BY DEF Found, WithSlug, WithName, Present
    <3>2. pc = "adopt" /\ UNCHANGED remote
      BY <1>7 DEF Adopt
    <3>. QED
      BY <1>5, <2>2, <3>1, <3>2 DEF OrganizationMatches, Checked
  <2>. QED
    BY <1>3, <1>7, <2>1, <2>2 DEF Adopt
<1>8. CASE CreateProject
  <2>1. PICK p \in ProjectIDs :
          /\ remote' = [remote EXCEPT ![p] = Created(mem.spec)] /\ UNCHANGED crVars
          /\ mem.expected \in {None, TokenOrganization}
          /\ Continue(AfterAcquire(mem.spec), [mem EXCEPT !.status.project = p])
    BY <1>2, <1>3, <1>8 DEF CreateProject
  <2>2. remote'[p].state = "Present" /\ remote'[p].organization = TokenOrganization
    BY <2>1 DEF Created, Typed, RemoteTypeOK
  <2>3. pc = "create"
    BY <1>8 DEF CreateProject
  <2>. QED
    BY <1>5, <2>1, <2>2, <2>3 DEF Checked
<1>9. CASE ReadMembership \/ WriteMembership \/ ReadProject \/ UpdateProject
  <2>1. pc # Idle /\ mem \in Memories
    BY <1>4, <1>9 DEF ReadMembership, WriteMembership, ReadProject, UpdateProject, Idle
  <2>2. /\ UNCHANGED crVars
        /\ mem' = mem \/ mem' = [mem EXCEPT !.membership = "None"]
           \/ mem' = [mem EXCEPT !.membership = remote[mem.status.project].membership]
    BY <1>1, <1>3, <1>9
    DEF ReadMembership, WriteMembership, ReadProject, UpdateProject, Continue
  <2>3. /\ mem'.status = mem.status /\ mem'.expected = mem.expected
        /\ mem'.before = mem.before /\ mem'.current = mem.current
    BY <2>1, <2>2 DEF Memories
  <2>4. CASE ReadMembership \/ WriteMembership
    <3>1. pc \in Unchecked /\ pc' \in Unchecked
      BY <1>1, <1>3, <2>4 DEF ReadMembership, WriteMembership, Continue, Unchecked
    <3>. QED
      BY <2>1, <2>2, <2>3, <3>1
  <2>5. CASE ReadProject
    <3>1. /\ pc = "read" /\ pc' \in {"update", "persist"} /\ UNCHANGED remote
          /\ Present(mem.status.project) /\ OrganizationMatches(mem.status.project, mem.expected)
      BY <1>1, <1>3, <2>5 DEF ReadProject, Continue
    <3>2. Checked(remote', mem')
      BY <2>3, <3>1 DEF Checked, Present, OrganizationMatches
    <3>. QED
      BY <2>1, <2>2, <2>3, <3>1, <3>2
  <2>6. CASE UpdateProject
    <3>1. pc = "update" /\ pc' = "persist"
      BY <1>1, <1>3, <2>6 DEF UpdateProject, Continue
    <3>. QED
      BY <2>1, <2>2, <2>3, <3>1
  <2>. QED
    BY <1>9, <2>4, <2>5, <2>6
<1>10. CASE PersistReady \/ DeleteProject \/ DeleteFinalizer
  BY <1>1, <1>10 DEF PersistReady, DeleteProject, DeleteFinalizer, Continue
<1>11. CASE ~Reconcile
  <2>1. pc' = pc /\ ~Crash
    BY <1>1, <1>11
    DEF Next, Crash, DeliverResource, Outside, EditSpec, DeleteResource, RemoveOutside,
        ConfigureOutside, ChangeOrganization, LoseConnection,
      RestoreDependency, Disturb
  <2>2. CASE EditSpec \/ DeleteResource
    <3>1. mem' = [mem EXCEPT !.current = FALSE] /\ mem \in Memories
      BY <1>4, <2>1, <2>2 DEF EditSpec, DeleteResource, OutdateCopy
    <3>. QED
      BY <1>11, <2>1, <3>1 DEF Memories
  <2>3. CASE ~EditSpec /\ ~DeleteResource
    <3>1. mem' = mem /\ api' = api
      BY <1>11, <2>1, <2>3
      DEF Next, DeliverResource, CR!Deliver, Outside, RemoveOutside, ConfigureOutside,
          ChangeOrganization, LoseConnection,
      RestoreDependency, crVars
    <3>. QED
      BY <1>11, <2>1, <3>1
  <2>. QED
    BY <2>2, <2>3
<1>. QED
  BY <1>6, <1>7, <1>8, <1>9, <1>10, <1>11 DEF Reconcile

-----------------------------------------------------------------------------
(* RecordedInsideBoundary and OutsideIsUntouched *)

\* A reconciliation works on a project that was recorded before, and of which it
\* knows nothing, until it has checked it; one that it found or made is inside
\* from the start.  A deletion works on what was recorded before.
BoundaryInvariant ==
  /\ pc \in Unchecked => mem.status.project = mem.before.project \/ Checked(remote, mem)
  /\ pc \in {"update", "persist"} => Checked(remote, mem)
  /\ pc \in Deleting => mem.status = mem.before

\* A project that is inside stays inside: Infisical moves no project, and does
\* not use an id again.
LEMMA CheckedStays ==
  ASSUME Typed, Next, pc # Idle, mem.status.project \in ProjectIDs, Checked(remote, mem)
  PROVE  Checked(remote', mem)
BY RemoteSteps DEF Checked

LEMMA BoundaryInvariantStep ==
  ASSUME Typed, BoundaryInvariant, Next
  PROVE  BoundaryInvariant'
<1>1. CASE pc' \in {Idle, "create"}
  BY <1>1 DEF BoundaryInvariant, Unchecked, Deleting, Idle
<1>2. CASE /\ \E expected \in Organizations \cup {None} : mem' = Loaded(expected)
           /\ pc' \in Unchecked \cup {"adopt", "create", "deleteProject"}
  <2>1. mem'.status = mem'.before
    BY <1>2 DEF Loaded
  <2>. QED
    BY <1>2, <2>1 DEF BoundaryInvariant, Unchecked, Deleting
<1>3. CASE pc' \in {"readMembership", "read"} /\ Checked(remote', mem')
  BY <1>3 DEF BoundaryInvariant, Unchecked, Deleting
<1>4. ASSUME pc \in Unchecked \cup {"update", "persist"}, mem'.status = mem.status,
             mem'.expected = mem.expected, Checked(remote, mem)
      PROVE  Checked(remote', mem')
  <2>1. pc # Idle /\ mem.status.project \in ProjectIDs
    BY <1>4 DEF Typed, StepTypeOK, Unchecked, Idle
  <2>. QED
    BY <1>4, <2>1, CheckedStays DEF Checked
<1>5. CASE /\ mem'.status = mem.status /\ mem'.before = mem.before
           /\ mem'.expected = mem.expected
           /\ \/ pc \in Unchecked /\ pc' \in Unchecked
              \/ pc = "read" /\ pc' \in {"update", "persist"} /\ Checked(remote', mem')
              \/ pc = "update" /\ pc' = "persist"
              \/ pc' = pc
  <2>1. CASE pc \in Unchecked /\ pc' \in Unchecked
    BY <1>4, <1>5, <2>1 DEF BoundaryInvariant, Unchecked, Deleting
  <2>2. CASE pc' \in {"update", "persist"} /\ Checked(remote', mem')
    BY <2>2 DEF BoundaryInvariant, Unchecked, Deleting
  <2>3. CASE pc = "update" /\ pc' = "persist"
    BY <1>4, <1>5, <2>3, <2>2 DEF BoundaryInvariant
  <2>4. CASE pc' = pc
    BY <1>4, <1>5, <2>4 DEF BoundaryInvariant, Unchecked, Deleting
  <2>. QED
    BY <1>5, <2>1, <2>2, <2>3, <2>4
<1>6. CASE DeleteProject /\ mem' = mem
  BY <1>1, <1>6 DEF DeleteProject, Continue, EndReconcile, BoundaryInvariant, Unchecked, Deleting
<1>. QED
  BY <1>1, <1>2, <1>3, <1>5, <1>6, MemorySteps

LEMMA BoundaryInvariantHolds == Spec => []BoundaryInvariant
<1>1. Init => BoundaryInvariant
  BY DEF Init, BoundaryInvariant, Unchecked, Deleting, Idle
<1>2. Typed /\ BoundaryInvariant /\ [Next]_vars => BoundaryInvariant'
  <2>1. ASSUME BoundaryInvariant, UNCHANGED vars PROVE BoundaryInvariant'
    BY <2>1 DEF BoundaryInvariant, Checked, vars
  <2>. QED
    BY <2>1, BoundaryInvariantStep
<1>. QED
  BY <1>1, <1>2, TypedHolds, PTL DEF Spec

\* Although the organization behind organizationRef may change at any time, and
\* whatever is stale or lost, the status gets the id of a project, or says Ready
\* of the recorded one, only inside the organization that was resolved.
THEOREM RecordSafe == Spec => RecordedInsideBoundary
<1> DEFINE Recorded ==
      \/ api'.status.project \notin {None, api.status.project}
      \/ api'.status.reason = "Ready" /\ api.status.reason # "Ready" /\ ~Overtaken
      => InBoundary(api'.status.project, mem.expected)
<1>1. Typed /\ BoundaryInvariant /\ [Next]_vars => [Recorded]_vars
  <2> SUFFICES ASSUME Typed, BoundaryInvariant, Next,
                      \/ api'.status.project \notin {None, api.status.project}
                      \/ api'.status.reason = "Ready" /\ api.status.reason # "Ready" /\ ~Overtaken
               PROVE  InBoundary(api'.status.project, mem.expected)
    OBVIOUS
  <2>1. PersistReady /\ api'.status.project = mem.status.project
    BY RecordSteps DEF Typed
  <2>. QED
    BY <2>1 DEF PersistReady, BoundaryInvariant, Checked, InBoundary
<1>. QED
  BY <1>1, BoundaryInvariantHolds, TypedHolds, PTL DEF Spec, RecordedInsideBoundary

\* A reconciliation changes nothing outside the organization that it resolved but
\* the membership in the project recorded before, and a deletion only that
\* project.
THEOREM OutsideSafe == Spec => OutsideIsUntouched
<1> DEFINE Untouched ==
      OperatorStep /\ pc # "create" =>
        \A p \in ProjectIDs : remote'[p] # remote[p] =>
          IF pc = "deleteProject" THEN p = mem.before.project
          ELSE \/ InBoundary(p, mem.expected)
               \/ /\ p = mem.before.project
                  /\ remote'[p] = [remote[p] EXCEPT !.membership = "Admin"]
<1>1. Typed /\ BoundaryInvariant /\ [Next]_vars => [Untouched]_vars
  <2> SUFFICES ASSUME Typed, BoundaryInvariant, Next, pc' # pc, pc # "create",
                      NEW p \in ProjectIDs, remote'[p] # remote[p]
               PROVE  IF pc = "deleteProject" THEN p = mem.before.project
                      ELSE \/ InBoundary(p, mem.expected)
                           \/ /\ p = mem.before.project
                              /\ remote'[p] = [remote[p] EXCEPT !.membership = "Admin"]
    BY DEF OperatorStep
  <2>1. CASE WriteMembership /\ p = mem.status.project
    <3>1. pc = "writeMembership" /\ remote' = [remote EXCEPT ![p].membership = "Admin"]
      BY <2>1 DEF WriteMembership, CallFails
    <3>2. remote'[p] = [remote[p] EXCEPT !.membership = "Admin"]
      BY <3>1 DEF Typed, RemoteTypeOK
    <3>. QED
      BY <2>1, <3>1, <3>2 DEF BoundaryInvariant, Unchecked, Checked, InBoundary
  <2>2. CASE UpdateProject /\ p = mem.status.project
    BY <2>2 DEF UpdateProject, BoundaryInvariant, Checked, InBoundary
  <2>3. CASE DeleteProject /\ p = mem.status.project
    BY <2>3 DEF DeleteProject, BoundaryInvariant, Deleting
  <2>4. ~CreateProject /\ ~RemoveOutside /\ ~ConfigureOutside
    BY DEF CreateProject, RemoveOutside, ConfigureOutside, Disturb
  <2>. QED
    BY <2>1, <2>2, <2>3, <2>4, RemoteSteps
<1>. QED
  BY <1>1, BoundaryInvariantHolds, TypedHolds, PTL DEF Spec, OutsideIsUntouched

-----------------------------------------------------------------------------
(* DeletionDeletesRecorded *)

\* A reconciliation whose copy is current knows the recorded project, a deletion
\* works on what it read, and removes the finalizer of a project that is gone.
DeletionInvariant ==
  /\ CacheFollows
  /\ pc # Idle => (mem.current => mem.before.project = api.status.project)
  /\ pc \in Deleting => mem.status = mem.before
  /\ pc = "deleteFinalizer" => remote[mem.status.project].state # "Present"

\* Nobody but the controller brings a project back.
LEMMA StaysGone ==
  ASSUME Typed, Next, ~Reconcile, NEW p \in ProjectIDs, remote[p].state # "Present"
  PROVE  remote'[p].state # "Present"
<1>1. CASE UNCHANGED remote
  BY <1>1
<1>2. CASE RemoveOutside
  <2>1. PICK q \in ProjectIDs : Delete(q)
    BY <1>2 DEF RemoveOutside
  <2>2. remote[p] \in ProjectRecords
    BY DEF Typed, RemoteTypeOK
  <2>. QED
    BY <2>1, <2>2 DEF Delete, Typed, RemoteTypeOK, ProjectRecords
<1>3. CASE ConfigureOutside
  <2>1. PICK q \in ProjectIDs :
          /\ Present(q)
          /\ \E c \in ChangedOutside(remote[q]) : remote' = [remote EXCEPT ![q] = c]
    BY <1>3 DEF ConfigureOutside
  <2>. QED
    BY <2>1 DEF Present, Typed, RemoteTypeOK
<1>. QED
  BY <1>1, <1>2, <1>3
  DEF Next, Crash, DeliverResource, Outside, EditSpec, DeleteResource, ChangeOrganization, LoseConnection,
      RestoreDependency

LEMMA DeletionInvariantStep ==
  ASSUME Typed, DeletionInvariant, Next
  PROVE  DeletionInvariant'
<1>1. CacheFollows'
  BY ResourceSteps, CacheFollowsStep DEF DeletionInvariant, Typed, CRTypeOK
<1>2. CASE pc' = Idle
  BY <1>1, <1>2 DEF DeletionInvariant, Deleting, Idle
<1>3. CASE /\ UNCHANGED <<crVars, remote>> /\ pc' \in Unchecked \cup {"adopt", "create", "deleteProject"}
           /\ \E expected \in Organizations \cup {None} : mem' = Loaded(expected)
  <2>1. mem'.status = mem'.before /\ mem'.before = cache.status /\ mem'.current = CR!Current
    BY <1>3, LoadedType DEF Typed
  <2>2. CR!Current => cache = api
    BY DEF CR!Current, DeletionInvariant, CacheFollows
  <2>. QED
    BY <1>1, <1>3, <2>1, <2>2 DEF DeletionInvariant, crVars, Unchecked
<1>4. CASE /\ pc' \notin Deleting /\ pc # Idle /\ UNCHANGED crVars
           /\ mem'.before = mem.before /\ mem'.current = mem.current
  BY <1>1, <1>4 DEF DeletionInvariant, Deleting, crVars
<1>5. CASE DeleteProject /\ Delete(mem.status.project) /\ mem' = mem /\ UNCHANGED crVars
  <2>1. pc = "deleteProject" /\ pc # Idle
    BY <1>5 DEF DeleteProject, Idle
  <2>2. mem.status.project \in ProjectIDs
    BY <2>1 DEF Typed, StepTypeOK
  <2>3. remote'[mem.status.project].state # "Present"
    BY <1>5, <2>2 DEF Delete, Present, Typed, RemoteTypeOK, ProjectRecords
  <2>. QED
    BY <1>1, <1>5, <2>1, <2>3 DEF DeletionInvariant, Deleting, crVars
<1>6. CASE /\ ~Reconcile /\ pc' = pc /\ pc # Idle
           /\ mem'.status = mem.status /\ mem'.before = mem.before
           /\ mem'.current = FALSE \/ (mem'.current = mem.current /\ UNCHANGED api)
  <2>1. pc = "deleteFinalizer" => remote'[mem.status.project].state # "Present"
    BY <1>6, StaysGone DEF DeletionInvariant, Typed, StepTypeOK, Idle
  <2>. QED
    BY <1>1, <1>6, <2>1 DEF DeletionInvariant
<1>. QED
  BY <1>2, <1>3, <1>4, <1>5, <1>6, MemorySteps DEF Idle, Unchecked, Deleting

\* The resource disappears by losing its finalizer, or by a deletion that finds
\* nothing to delete, and the update that does it carries the version read.
LEMMA Disappears ==
  ASSUME CRTypeOK, StepTypeOK, Next, api.exists, ~api'.exists, api.finalizer
  PROVE  \/ BeginDeletion /\ NothingToDelete(cache) /\ CR!Current
         \/ DeleteFinalizer /\ mem.current
<1>1. ASSUME NEW before, NEW after PROVE ~PatchStatus(before, after)
  BY DEF PatchStatus, CR!Put, CRTypeOK, Resources, crVars
<1>2. ASSUME NEW status, NEW reason PROVE ~ReturnError(status, reason)
  BY <1>1 DEF ReturnError
<1>3. ~UNCHANGED crVars
  BY DEF crVars
<1>4. CASE EnsureFinalizer \/ BeginReconcile
  BY <1>2, <1>3, <1>4 DEF EnsureFinalizer, BeginReconcile, CR!Put, CRTypeOK, Resources
<1>5. CASE BeginDeletion \/ DeleteFinalizer
  BY <1>3, <1>5 DEF BeginDeletion, DeleteFinalizer, RemoveFinalizer
<1>6. CASE \/ Adopt \/ CreateProject \/ ReadMembership \/ WriteMembership
           \/ ReadProject \/ UpdateProject \/ PersistReady \/ DeleteProject
  BY <1>1, <1>2, <1>3, <1>6
  DEF Adopt, CreateProject, ReadMembership, WriteMembership, ReadProject, UpdateProject,
      PersistReady, DeleteProject, CallFails, Refused, AnswerLost
<1>7. CASE EditSpec \/ DeleteResource
  BY <1>7 DEF EditSpec, DeleteResource, CR!Put, CRTypeOK, Resources
<1>8. CASE ~Reconcile /\ ~EditSpec /\ ~DeleteResource
  BY <1>3, <1>8
  DEF Next, Crash, DeliverResource, CR!Deliver, Outside, RemoveOutside, ConfigureOutside,
      ChangeOrganization, LoseConnection,
      RestoreDependency
<1>. QED
  BY <1>4, <1>5, <1>6, <1>7, <1>8 DEF Reconcile

\* A resource of policy Delete does not disappear before the project it records
\* is gone, whatever is stale, lost or written to it meanwhile.
THEOREM DeletionSafe == Spec => DeletionDeletesRecorded
<1> DEFINE Deleted ==
      /\ api.exists /\ ~api'.exists
      /\ api.finalizer /\ api.spec.deletion = "Delete" /\ api.status.project # None
      => remote'[api.status.project].state # "Present"
<1>1. Init => DeletionInvariant
  BY DEF Init, DeletionInvariant, CacheFollows, Deleting, Idle
<1>2. Typed /\ DeletionInvariant /\ [Next]_vars => DeletionInvariant'
  <2>1. ASSUME DeletionInvariant, UNCHANGED vars PROVE DeletionInvariant'
    BY <2>1 DEF DeletionInvariant, CacheFollows, vars, crVars
  <2>. QED
    BY <2>1, DeletionInvariantStep
<1>3. Typed /\ DeletionInvariant /\ [Next]_vars => [Deleted]_vars
  <2> SUFFICES ASSUME Typed, DeletionInvariant, Next,
                      api.exists, ~api'.exists, api.finalizer,
                      api.spec.deletion = "Delete", api.status.project # None
               PROVE  remote'[api.status.project].state # "Present"
    OBVIOUS
  <2>1. CASE BeginDeletion /\ NothingToDelete(cache) /\ CR!Current
    BY <2>1 DEF NothingToDelete, CR!Current, DeletionInvariant, CacheFollows
  <2>2. CASE DeleteFinalizer /\ mem.current
    <3>1. pc = "deleteFinalizer" /\ UNCHANGED remote
      BY <2>2 DEF DeleteFinalizer
    <3>2. mem.status.project = api.status.project
          /\ remote[mem.status.project].state # "Present"
      BY <2>2, <3>1 DEF DeletionInvariant, Deleting, Idle
    <3>. QED
      BY <3>1, <3>2
  <2>. QED
    BY <2>1, <2>2, Disappears DEF Typed
<1>. QED
  BY <1>1, <1>2, <1>3, TypedHolds, PTL DEF Spec, DeletionDeletesRecorded


-----------------------------------------------------------------------------
(* One project *)

\* The assumptions under which the operator never makes a second project: it is
\* not told to create without looking, and the name it looks for is not edited.
LooksFirst == "Create" \notin CreationChoices
OneName    == \A m, n \in Names : m = n

\* A second creation would need a project that the search by name misses, or one
\* that appears between the search and the creation.
UniqueInvariant ==
  /\ \A p, q \in Operators : p = q
  /\ \A p \in Operators : remote[p].name \in Names
  /\ pc = "create" => Operators = {}

\* Only CreateProject adds to the operator's projects, and every name that they
\* get is a declared one.
LEMMA OperatorsStay ==
  ASSUME Typed, [Next]_vars, ~CreateProject, NEW p \in Operators'
  PROVE  p \in Operators /\ remote'[p].name \in {remote[p].name} \cup Names
<1>1. p \in ProjectIDs /\ remote'[p].state = "Present" /\ remote'[p].creator = "Operator"
  BY DEF Operators, Present
<1>2. remote[p] \in ProjectRecords /\ DOMAIN remote = ProjectIDs
  BY <1>1 DEF Typed, RemoteTypeOK
<1> DEFINE Kept == /\ remote[p].state = "Present" /\ remote[p].creator = "Operator"
                   /\ remote'[p].name \in {remote[p].name} \cup Names
<1>3. Kept => p \in Operators /\ remote'[p].name \in {remote[p].name} \cup Names
  BY <1>1 DEF Operators, Present
<1> SUFFICES Kept
  BY <1>3
<1>4. UNCHANGED remote => Kept
  BY <1>1
<1>5. ASSUME NEW q, Delete(q) PROVE Kept
  <2>1. remote'[p] = remote[p]
    BY <1>1, <1>2, <1>5 DEF Delete, Present, ProjectRecords
  <2>. QED
    BY <1>1, <2>1
<1>6. CASE \/ EnsureFinalizer \/ BeginReconcile \/ BeginDeletion \/ Adopt \/ ReadMembership
           \/ ReadProject \/ PersistReady \/ DeleteFinalizer
  BY <1>4, <1>6
  DEF EnsureFinalizer, BeginReconcile, BeginDeletion, Adopt, ReadMembership, ReadProject,
      PersistReady, DeleteFinalizer
<1>7. CASE WriteMembership
  <2>1. CASE remote' = [remote EXCEPT ![mem.status.project].membership = "Admin"]
    BY <1>1, <1>2, <2>1 DEF ProjectRecords
  <2>. QED
    BY <1>4, <1>7, <2>1 DEF WriteMembership, CallFails
<1>8. CASE UpdateProject
  <2>1. ASSUME NEW q, q = mem.status.project, Present(q),
               remote' = [remote EXCEPT ![q] = Patched(q, mem.spec)]
        PROVE  Kept
    <3>1. mem.spec \in Specs /\ mem.spec.name \in Names
      BY <1>8, InProgress DEF UpdateProject, Idle, Typed, Specs
    <3>2. CASE p = q
      <4>1. Patched(p, mem.spec).creator = remote[p].creator
            /\ Patched(p, mem.spec).name = mem.spec.name
        BY <1>1, <3>1, PatchedType DEF Typed
      <4>2. remote'[p] = Patched(p, mem.spec)
        BY <1>1, <1>2, <2>1, <3>2
      <4>. QED
        BY <1>1, <2>1, <3>1, <3>2, <4>1, <4>2 DEF Present
    <3>3. CASE p # q
      BY <1>1, <2>1, <3>3
    <3>. QED
      BY <3>2, <3>3
  <2>. QED
    BY <1>4, <1>8, <2>1 DEF UpdateProject, UpdateAccepted, CallFails
<1>9. CASE DeleteProject \/ RemoveOutside
  BY <1>4, <1>5, <1>9 DEF DeleteProject, RemoveOutside
<1>10. CASE ConfigureOutside
  <2>1. PICK q \in ProjectIDs :
          \E c \in ChangedOutside(remote[q]) : remote' = [remote EXCEPT ![q] = c]
    BY <1>10 DEF ConfigureOutside
  <2>2. PICK changed \in ChangedOutside(remote[q]) : remote' = [remote EXCEPT ![q] = changed]
    BY <2>1
  <2>3. remote[q] \in ProjectRecords
    BY DEF Typed, RemoteTypeOK
  <2>4. changed.state = remote[q].state /\ changed.creator = remote[q].creator
        /\ changed.name = remote[q].name
    BY <2>2, <2>3, ChangedOutsideType
  <2>. QED
    BY <1>1, <1>2, <2>2, <2>4
<1>11. CASE ~Reconcile /\ ~RemoveOutside /\ ~ConfigureOutside
  BY <1>4, <1>11
  DEF Next, Crash, DeliverResource, Outside, EditSpec, DeleteResource, ChangeOrganization, LoseConnection,
      RestoreDependency, vars
<1>. QED
  BY <1>6, <1>7, <1>8, <1>9, <1>10, <1>11 DEF Reconcile

\* A reconciliation gets to the creation by an adoption that found nothing, or at
\* once when the policy does not let it look.
LEMMA ReachesCreate ==
  ASSUME Typed, [Next]_vars, pc' = "create"
  PROVE  \/ BeginReconcile /\ FirstStep(cache) = "create"
         \/ Adopt /\ Found(mem.spec) = {} /\ mem.spec.name \in Names
         \/ pc = "create" /\ ~CreateProject
<1>1. pc' # Idle /\ ~EndReconcile
  BY DEF EndReconcile, Idle
<1>2. ASSUME NEW status, NEW reason PROVE ~ReturnError(status, reason)
  BY <1>1 DEF ReturnError
<1>3. ASSUME NEW reason PROVE ~CallFails(reason) /\ ~Refused(reason) /\ ~AnswerLost(reason)
  BY <1>2 DEF CallFails, Refused, AnswerLost
<1>4. \A spec : AfterAcquire(spec) # "create"
  BY DEF AfterAcquire
<1>5. CASE EnsureFinalizer \/ BeginReconcile \/ BeginDeletion
  BY <1>1, <1>2, <1>5 DEF EnsureFinalizer, BeginReconcile, BeginDeletion, Continue
<1>6. CASE Adopt
  <2>1. Found(mem.spec) = {}
    BY <1>3, <1>4, <1>6 DEF Adopt, Continue
  <2>2. mem.spec.name \in Names
    BY <1>6, InProgress DEF Adopt, Idle, Typed, Specs
  <2>. QED
    BY <1>6, <2>1, <2>2
<1>7. CASE CreateProject \/ ReadMembership \/ WriteMembership
  BY <1>2, <1>3, <1>4, <1>7 DEF CreateProject, ReadMembership, WriteMembership, Continue
<1>8. CASE \/ ReadProject \/ UpdateProject \/ PersistReady \/ DeleteProject \/ DeleteFinalizer
  BY <1>1, <1>3, <1>8
  DEF ReadProject, UpdateProject, PersistReady, DeleteProject, DeleteFinalizer, Continue
<1>9. CASE ~Reconcile
  <2>1. pc' = pc /\ ~CreateProject
    BY <1>1, <1>9
    DEF Next, Crash, DeliverResource, Outside, EditSpec, DeleteResource, RemoveOutside,
        ConfigureOutside, ChangeOrganization, LoseConnection,
      RestoreDependency, Disturb, Reconcile, vars
  <2>. QED
    BY <2>1
<1>. QED
  BY <1>5, <1>6, <1>7, <1>8, <1>9 DEF Reconcile


LEMMA UniqueStep ==
  LooksFirst /\ OneName => (Typed /\ UniqueInvariant /\ [Next]_vars => UniqueInvariant')
<1> SUFFICES ASSUME LooksFirst, OneName, Typed, UniqueInvariant, [Next]_vars
             PROVE  UniqueInvariant'
  OBVIOUS
<1>1. CASE CreateProject
  <2>1. pc' # "create"
    BY <1>1, ReachesCreate DEF CreateProject, BeginReconcile, Adopt, ReadCache, Idle
  <2>2. Operators = {} /\ mem.spec.name \in Names
    BY <1>1, InProgress DEF UniqueInvariant, CreateProject, Idle, Typed, Specs
  <2>3. CASE UNCHANGED remote
    BY <2>1, <2>2, <2>3 DEF UniqueInvariant, Operators, Present
  <2>4. ASSUME NEW p \in ProjectIDs, remote' = [remote EXCEPT ![p] = Created(mem.spec)]
        PROVE  UniqueInvariant'
    <3>1. remote'[p].name = mem.spec.name
      BY <2>4 DEF Created, Typed, RemoteTypeOK
    <3>2. \A q \in Operators' : q = p
      BY <2>2, <2>4 DEF Operators, Present, Typed, RemoteTypeOK
    <3>. QED
      BY <2>1, <2>2, <3>1, <3>2 DEF UniqueInvariant
  <2>. QED
    BY <1>1, <2>3, <2>4 DEF CreateProject, CallFails
<1>2. CASE ~CreateProject
  <2>1. /\ \A p, q \in Operators' : p = q
        /\ \A p \in Operators' : remote'[p].name \in Names
    BY <1>2, OperatorsStay DEF UniqueInvariant
  <2>2. ASSUME pc' = "create" PROVE Operators = {}
    <3>1. CASE pc = "create"
      BY <3>1 DEF UniqueInvariant
    <3>2. CASE Found(mem.spec) = {} /\ mem.spec.name \in Names
      <4>1. WithName(mem.spec.name) = {}
        BY <3>2 DEF Found
      <4>. QED
        BY <3>2, <4>1 DEF WithName, UniqueInvariant, Operators, OneName
    <3>3. CASE FirstStep(cache) = "create"
      <4>1. cache.spec.creation \in CreationChoices
        BY DEF Typed, CRTypeOK, Resources, Specs
      <4>. QED
        BY <3>3, <4>1, ConstantsAssumption
        DEF FirstStep, AfterAcquire, CanAdopt, CreationPolicies, LooksFirst
    <3>. QED
      BY <2>2, <3>1, <3>2, <3>3, ReachesCreate
  <2>3. Operators' \subseteq Operators
    BY <1>2, OperatorsStay
  <2>. QED
    BY <2>1, <2>2, <2>3 DEF UniqueInvariant
<1>. QED
  BY <1>1, <1>2

\* The operator never has two projects of its own for one resource, whatever it
\* forgets by a crash, a lost answer or a stale cache: it finds by name what it
\* made, if only to refuse it as one of another organization.
THEOREM ProjectSafe == LooksFirst /\ OneName => (Spec => []OneProject)
<1> SUFFICES ASSUME LooksFirst, OneName PROVE Spec => []OneProject
  OBVIOUS
<1>1. ASSUME Init PROVE UniqueInvariant
  <2>1. PICK o \in [InitiallyPresent -> Organizations], n \in [InitiallyPresent -> Names] :
          remote = [p \in ProjectIDs |->
            IF p \in InitiallyPresent
            THEN [Unused EXCEPT !.state = "Present", !.creator = "Other",
                                !.organization = o[p], !.name = n[p], !.membership = "Member"]
            ELSE Unused]
    BY <1>1 DEF Init
  <2>2. \A p \in ProjectIDs : remote[p].creator # "Operator"
    BY <2>1 DEF Unused
  <2>3. pc = Idle
    BY <1>1 DEF Init
  <2>. QED
    BY <2>2, <2>3 DEF UniqueInvariant, Operators, Idle
<1>2. Typed /\ UniqueInvariant /\ [Next]_vars => UniqueInvariant'
  BY UniqueStep
<1>3. ASSUME UniqueInvariant PROVE OneProject
  <2>1. CASE Operators = {}
    BY <2>1, FS_EmptySet DEF OneProject
  <2>2. CASE \E p : Operators = {p}
    BY <2>2, FS_Singleton DEF OneProject
  <2>3. ASSUME NEW p \in Operators PROVE Operators = {p}
    BY <1>3 DEF UniqueInvariant
  <2>. QED
    BY <2>1, <2>2, <2>3
<1>. QED
  BY <1>1, <1>2, <1>3, TypedHolds, PTL DEF Spec
=============================================================================
