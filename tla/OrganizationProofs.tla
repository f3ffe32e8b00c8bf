-------------------------- MODULE OrganizationProofs ------------------------
(***************************************************************************)
(* Theorems about Organization for all values of its constants.            *)
(***************************************************************************)
EXTENDS Organization, ControllerProofs

Deleting == {"deleteOrganization", "deleteFinalizer"}

\* A memory with which the calls of a step name an organization.
StepOK(step, m) ==
  /\ step \in Steps /\ m \in Memories
  /\ step \notin {"adopt", "create"} => m.status.organization \in OrganizationIDs

CRTypeOK     == api \in Resources /\ cache \in Resources /\ undelivered \in Seq(Resources)
RemoteTypeOK ==
  remote \in [OrganizationIDs -> OrganizationRecords] /\ access \subseteq OrganizationIDs
StepTypeOK   == (pc = Idle /\ mem = None) \/ StepOK(pc, mem)
CountsOK     == faults \in Nat /\ disturbances \in Nat
WorldTypeOK  ==
  /\ user \in BOOLEAN /\ connected \in BOOLEAN /\ goneAnswer \in {"not found", "unauthorized"}
  /\ CountsOK

\* The type invariant is inductive with one fact more: but for its first two
\* calls, a reconciliation knows its organization.
Typed == CRTypeOK /\ RemoteTypeOK /\ StepTypeOK /\ WorldTypeOK

-----------------------------------------------------------------------------
(* Lemmas about the operators the actions are built from *)

LEMMA MergePatchType ==
  ASSUME NEW stored \in Statuses, NEW before \in Statuses, NEW after \in Statuses
  PROVE  MergePatch(stored, before, after) \in Statuses
<1> DEFINE p == MergePatch(stored, before, after)
<1>1. DOMAIN stored = {"organization", "reason"}
  BY DEF Statuses
<1>2. p = [organization |-> p.organization, reason |-> p.reason]
  BY <1>1 DEF MergePatch
<1>3. p.organization \in OrganizationIDs \cup {None} /\ p.reason \in Reasons
  BY <1>1 DEF MergePatch, Statuses
<1>. QED
  BY <1>2, <1>3 DEF Statuses

LEMMA PutType ==
  ASSUME CRTypeOK, NEW r \in Resources, CR!Put(r)
  PROVE  CRTypeOK'
BY DEF CRTypeOK, CR!Put

\* All of the resource but the status is as before.
OnlyStatus ==
  /\ api'.exists = api.exists /\ api'.deleting = api.deleting
  /\ api'.finalizer = api.finalizer /\ api'.spec = api.spec

LEMMA PatchStatusType ==
  ASSUME CRTypeOK, NEW before \in Statuses, NEW after \in Statuses,
         PatchStatus(before, after)
  PROVE  CRTypeOK' /\ OnlyStatus
<1>1. CASE api.exists
  <2> DEFINE merged == MergePatch(api.status, before, after)
             r == [api EXCEPT !.status = merged]
  <2>1. merged \in Statuses
    BY MergePatchType DEF CRTypeOK, Resources
  <2>2. CR!Put(r)
    BY <1>1 DEF PatchStatus
  <2> HIDE DEF merged
  <2>3. /\ r \in Resources /\ r.exists = api.exists /\ r.deleting = api.deleting
        /\ r.finalizer = api.finalizer /\ r.spec = api.spec
    BY <2>1 DEF CRTypeOK, Resources
  <2>4. api' = r
    BY <2>2 DEF CR!Put
  <2> HIDE DEF r
  <2>. QED
    BY <2>2, <2>3, <2>4, PutType DEF OnlyStatus
<1>2. CASE ~api.exists
  BY <1>2 DEF PatchStatus, crVars, CRTypeOK, OnlyStatus
<1>. QED
  BY <1>1, <1>2

\* A reconciliation ends, with a word in the status at most.
Ends == pc' = Idle /\ OnlyStatus

LEMMA ReturnErrorType ==
  ASSUME CRTypeOK, NEW status \in Statuses, NEW reason \in Reasons,
         ReturnError(status, reason)
  PROVE  CRTypeOK' /\ StepTypeOK' /\ Ends
<1>1. [status EXCEPT !.reason = reason] \in Statuses
  BY DEF Statuses
<1>. QED
  BY <1>1, PatchStatusType DEF ReturnError, EndReconcile, StepTypeOK, Ends

LEMMA RemoveFinalizerType ==
  ASSUME CRTypeOK, NEW current, RemoveFinalizer(current)
  PROVE  CRTypeOK' /\ api'.spec = api.spec /\ api'.deleting = api.deleting
<1>1. /\ WithoutFinalizer(api) \in Resources
      /\ WithoutFinalizer(api).spec = api.spec
      /\ WithoutFinalizer(api).deleting = api.deleting
  BY DEF WithoutFinalizer, CRTypeOK, Resources
<1>2. CASE current /\ api.finalizer
  <2>1. CR!Put(WithoutFinalizer(api))
    BY <1>2 DEF RemoveFinalizer
  <2>2. api' = WithoutFinalizer(api)
    BY <2>1 DEF CR!Put
  <2>. QED
    BY <1>1, <2>1, <2>2, PutType
<1>3. CASE ~(current /\ api.finalizer)
  BY <1>3 DEF RemoveFinalizer, crVars, CRTypeOK
<1>. QED
  BY <1>2, <1>3

\* Each group of variables is typed by the actions that leave it alone.
LEMMA UnchangedTypes ==
  /\ CRTypeOK /\ UNCHANGED crVars => CRTypeOK'
  /\ RemoteTypeOK /\ UNCHANGED <<remote, access>> => RemoteTypeOK'
  /\ StepTypeOK /\ UNCHANGED <<pc, mem>> => StepTypeOK'
  /\ EndReconcile => StepTypeOK'
BY DEF crVars, CRTypeOK, RemoteTypeOK, StepTypeOK, EndReconcile

\* Between two steps of a reconciliation its memory is defined.
LEMMA InProgress ==
  ASSUME StepTypeOK, pc # Idle
  PROVE  /\ StepOK(pc, mem) /\ mem \in Memories
         /\ mem.status \in Statuses /\ mem.before \in Statuses /\ mem.spec \in Specs
BY DEF StepTypeOK, StepOK, Memories

\* The later memory of the same reconciliation.
SameRun(n, m) == n.spec = m.spec /\ n.before = m.before /\ n.current = m.current

\* The reconciliation goes on to a step, with organization o or with the memory
\* it has.
GoesOn(step)      == pc' = step /\ UNCHANGED crVars /\ mem' = mem
Acquires(step, o) ==
  /\ pc' = step /\ UNCHANGED crVars
  /\ SameRun(mem', mem) /\ mem'.status.organization = o

LEMMA GoesOnType ==
  ASSUME CRTypeOK, NEW step, StepOK(step, mem), Continue(step, mem), UNCHANGED crVars
  PROVE  CRTypeOK' /\ StepTypeOK' /\ GoesOn(step)
BY UnchangedTypes DEF Continue, StepTypeOK, GoesOn

LEMMA AcquiresType ==
  ASSUME CRTypeOK, mem \in Memories, NEW o \in OrganizationIDs,
         NEW step \in {"read", "persist"},
         Continue(step, [mem EXCEPT !.status = Observed(o)]), UNCHANGED crVars
  PROVE  CRTypeOK' /\ StepTypeOK' /\ Acquires(step, o)
<1> DEFINE n == [mem EXCEPT !.status = Observed(o)]
<1>1. Observed(o) \in Statuses /\ Observed(o).organization = o
  BY DEF Observed, Memories, Statuses
<1>2. n \in Memories /\ SameRun(n, mem) /\ n.status = Observed(o)
  BY <1>1 DEF Memories, SameRun
<1>3. pc' = step /\ mem' = n
  BY DEF Continue
<1> HIDE DEF n
<1>4. StepOK(step, n)
  BY <1>1, <1>2 DEF StepOK, Steps
<1>. QED
  BY <1>1, <1>2, <1>3, <1>4, UnchangedTypes DEF StepTypeOK, Acquires

LEMMA EndingType ==
  ASSUME CRTypeOK, StepTypeOK, pc # Idle, NEW reason \in Reasons,
         CallFails(reason) \/ Refused(reason) \/ AnswerLost(reason)
  PROVE  CRTypeOK' /\ StepTypeOK' /\ Ends
BY InProgress, ReturnErrorType DEF CallFails, Refused, AnswerLost

-----------------------------------------------------------------------------
(* What each action does *)

LEMMA InitType == Init => Typed
<1> SUFFICES ASSUME Init PROVE Typed
  OBVIOUS
<1>1. CRTypeOK
  <2>1. NoStatus \in Statuses
    BY DEF NoStatus, Statuses, Reasons
  <2>2. PICK s \in Specs :
          api = [exists |-> TRUE, deleting |-> FALSE, finalizer |-> FALSE,
                 spec |-> s, status |-> NoStatus]
    BY DEF Init
  <2>3. cache = api /\ undelivered = <<>>
    BY DEF Init
  <2>. QED
    BY <2>1, <2>2, <2>3 DEF Resources, CRTypeOK
<1>2. RemoteTypeOK /\ WorldTypeOK
  <2>1. PICK n \in [InitiallyPresent -> BOOLEAN] :
          remote = [o \in OrganizationIDs |->
            IF o \in InitiallyPresent THEN [state |-> "Present", named |-> n[o]]
            ELSE [state |-> "Unused", named |-> FALSE]]
    BY DEF Init
  <2>2. remote \in [OrganizationIDs -> OrganizationRecords]
    BY <2>1 DEF OrganizationRecords
  <2>3. PICK c \in Credentials : user = c.user /\ access = c.access
    BY DEF Init
  <2>4. user \in BOOLEAN /\ access \subseteq OrganizationIDs
    BY <2>3 DEF Credentials
  <2>. QED
    BY <2>2, <2>4 DEF Init, RemoteTypeOK, WorldTypeOK, CountsOK
<1>. QED
  BY <1>1, <1>2 DEF Init, Typed, StepTypeOK

LEMMA LoadedType ==
  ASSUME CRTypeOK
  PROVE  /\ Loaded \in Memories /\ Loaded.spec = cache.spec /\ Loaded.status = cache.status
         /\ Loaded.before = cache.status /\ Loaded.current = CR!Current
         /\ cache.status \in Statuses /\ cache.spec \in Specs
BY DEF Loaded, CRTypeOK, Resources, Memories, CR!Current

\* The first step of a reconciliation.
Starts(step) == pc' = step /\ mem' = Loaded /\ UNCHANGED crVars

LEMMA BeginEffect ==
  ASSUME CRTypeOK, StepTypeOK, EnsureFinalizer \/ BeginReconcile \/ BeginDeletion
  PROVE  /\ CRTypeOK' /\ StepTypeOK' /\ UNCHANGED <<remote, access>> /\ pc = Idle
         /\ api'.spec = api.spec /\ api'.deleting = api.deleting
         /\ \/ pc' = Idle
            \/ ~cache.deleting /\ Starts(FirstStep(cache))
            \/ cache.deleting /\ ~NothingToDelete(cache) /\ Starts("deleteOrganization")
<1>0. UNCHANGED <<remote, access>> /\ pc = Idle
  BY DEF EnsureFinalizer, BeginReconcile, BeginDeletion, ReadCache, envVars, credentialVars
<1>1. CASE EnsureFinalizer
  <2> DEFINE r == [api EXCEPT !.finalizer = TRUE]
  <2>1. r \in Resources /\ r.spec = api.spec /\ r.deleting = api.deleting
    BY DEF CRTypeOK, Resources
  <2>2. CR!Put(r) /\ EndReconcile
    BY <1>1 DEF EnsureFinalizer
  <2>3. api' = r
    BY <2>2 DEF CR!Put
  <2> HIDE DEF r
  <2>. QED
    BY <1>0, <2>1, <2>2, <2>3, PutType, UnchangedTypes DEF EndReconcile
<1>2. CASE BeginReconcile
  <2>1. CASE ReturnError(cache.status, "ConnectionNotReady")
    BY <1>0, <2>1, LoadedType, ReturnErrorType DEF Reasons, Ends, OnlyStatus
  <2>2. CASE Continue(FirstStep(cache), Loaded) /\ UNCHANGED crVars
    <3>1. StepOK(FirstStep(cache), Loaded)
      BY LoadedType DEF StepOK, FirstStep, Steps, Statuses
    <3>2. Starts(FirstStep(cache)) /\ CRTypeOK' /\ StepTypeOK'
      BY <2>2, <3>1, UnchangedTypes DEF Starts, Continue, StepTypeOK
    <3>. QED
      BY <1>0, <1>2, <3>2 DEF Starts, crVars, BeginReconcile
  <2>. QED
    BY <1>2, <2>1, <2>2 DEF BeginReconcile
<1>3. CASE BeginDeletion
  <2>1. CASE RemoveFinalizer(CR!Current) /\ EndReconcile
    BY <1>0, <2>1, RemoveFinalizerType, UnchangedTypes DEF EndReconcile
  <2>2. CASE /\ ~NothingToDelete(cache) /\ Continue("deleteOrganization", Loaded)
             /\ UNCHANGED crVars
    <3>1. StepOK("deleteOrganization", Loaded)
      BY <2>2, LoadedType DEF StepOK, NothingToDelete, Steps, Statuses
    <3>2. Starts("deleteOrganization") /\ CRTypeOK' /\ StepTypeOK'
      BY <2>2, <3>1, UnchangedTypes DEF Starts, Continue, StepTypeOK
    <3>. QED
      BY <1>0, <1>3, <2>2, <3>2 DEF crVars, BeginDeletion
  <2>. QED
    BY <1>3, <2>1, <2>2 DEF BeginDeletion
<1>. QED
  BY <1>1, <1>2, <1>3

\* Without a requested id, a reconciliation creates only if a user sees no
\* organization of the declared name.
LEMMA AdoptEffect ==
  ASSUME CRTypeOK, StepTypeOK, Adopt
  PROVE  /\ CRTypeOK' /\ StepTypeOK' /\ UNCHANGED <<remote, access>>
         /\ \/ Ends
            \/ \E o \in OrganizationIDs : Acquires("read", o)
            \/ GoesOn("create") /\ (mem.spec.requested = None => OfName = {})
<1>1. pc # Idle /\ UNCHANGED <<remote, access>>
  BY DEF Adopt, Idle, CallFails, envVars, credentialVars
<1>2. mem \in Memories /\ mem.status \in Statuses /\ mem.spec \in Specs
  BY <1>1, InProgress
<1>3. StepOK("create", mem)
  BY <1>2 DEF StepOK, Steps
<1>4. {"ExternalReadFailed", "RemoteOrganizationMissing"} \subseteq Reasons
  BY DEF Reasons
<1>5. ASSUME NEW o \in OrganizationIDs, Acquire(o)
      PROVE  CRTypeOK' /\ StepTypeOK' /\ Acquires("read", o)
  BY <1>2, <1>5, AcquiresType DEF Acquire
<1>6. ASSUME NotFound PROVE CRTypeOK' /\ StepTypeOK' /\ (Ends \/ GoesOn("create"))
  BY <1>2, <1>3, <1>4, <1>6, GoesOnType, ReturnErrorType DEF NotFound
<1>7. CASE CallFails("ExternalReadFailed") \/ Refused("ExternalReadFailed")
  BY <1>1, <1>4, <1>7, EndingType
<1>8. CASE AdoptByID
  <2>1. mem.spec.requested \in OrganizationIDs /\ mem.spec.requested # None
    BY <1>2, <1>8, ConstantsAssumption DEF AdoptByID, Specs
  <2>. QED
    BY <1>1, <1>5, <1>6, <1>7, <1>8, <2>1 DEF AdoptByID
<1>9. CASE AdoptByName
  <2>1. OfName \subseteq OrganizationIDs
    BY DEF OfName
  <2>. QED
    BY <1>1, <1>5, <1>6, <1>7, <1>9, <2>1 DEF AdoptByName
<1>. QED
  BY <1>7, <1>8, <1>9 DEF Adopt

\* The organization that is made has the declared name, and its creator sees it.
Makes(o) ==
  /\ o \in OrganizationIDs /\ remote[o].state = "Unused" /\ access' = access \cup {o}
  /\ remote' = [remote EXCEPT ![o] = [state |-> "Present", named |-> TRUE]]

LEMMA CreateEffect ==
  ASSUME CRTypeOK, RemoteTypeOK, StepTypeOK, CreateOrganization
  PROVE  /\ CRTypeOK' /\ RemoteTypeOK' /\ StepTypeOK' /\ pc = "create"
         /\ \/ Ends /\ UNCHANGED <<remote, access>>
            \/ \E o : Makes(o) /\ (Ends \/ Acquires("persist", o))
<1>1. pc # Idle /\ pc = "create" /\ "ExternalCreateFailed" \in Reasons
  BY DEF CreateOrganization, Idle, Reasons
<1>2. mem \in Memories
  BY <1>1, InProgress
<1>3. CASE /\ CallFails("ExternalCreateFailed") \/ (Refused("ExternalCreateFailed") /\ UNCHANGED remote)
           /\ UNCHANGED access
  <2>1. CRTypeOK' /\ StepTypeOK' /\ Ends /\ UNCHANGED <<remote, access>>
    BY <1>1, <1>3, EndingType DEF CallFails
  <2>. QED
    BY <1>1, <2>1, UnchangedTypes
<1>4. ASSUME NEW o, Makes(o),
             \/ /\ Continue("persist", [mem EXCEPT !.status = Observed(o)])
                /\ UNCHANGED crVars
             \/ AnswerLost("ExternalCreateFailed")
      PROVE  CRTypeOK' /\ RemoteTypeOK' /\ StepTypeOK' /\ (Ends \/ Acquires("persist", o))
  <2>1. RemoteTypeOK'
    BY <1>4 DEF Makes, RemoteTypeOK, OrganizationRecords
  <2>. QED
    BY <1>1, <1>2, <1>4, <2>1, EndingType, AcquiresType DEF Makes
<1>. QED
  BY <1>1, <1>3, <1>4 DEF CreateOrganization, Makes

LEMMA ReadEffect ==
  ASSUME CRTypeOK, StepTypeOK, ReadOrganization
  PROVE  /\ CRTypeOK' /\ StepTypeOK' /\ UNCHANGED <<remote, access>>
         /\ Ends \/ GoesOn("persist")
<1>1. pc # Idle /\ pc = "read" /\ UNCHANGED <<remote, access>>
  BY DEF ReadOrganization, Idle, envVars, credentialVars
<1>2. mem \in Memories /\ mem.status \in Statuses /\ StepOK("persist", mem)
  BY <1>1, InProgress DEF StepOK, Steps
<1>3. {"ExternalReadFailed", "ExternalOrganizationMismatch"} \subseteq Reasons
  BY DEF Reasons
<1>4. ASSUME ForgetOrganization PROVE CRTypeOK' /\ StepTypeOK' /\ Ends
  <2>1. [mem.status EXCEPT !.organization = None, !.reason = "RemoteOrganizationMissing"] \in Statuses
    BY <1>2 DEF Statuses, Reasons
  <2>. QED
    BY <1>2, <1>4, <2>1, PatchStatusType, UnchangedTypes
    DEF ForgetOrganization, EndReconcile, Ends
<1>5. CASE CallFails("ExternalReadFailed") \/ Refused("ExternalReadFailed")
  BY <1>1, <1>3, <1>5, EndingType
<1>6. CASE ReturnError(mem.status, "ExternalOrganizationMismatch")
  BY <1>1, <1>2, <1>3, <1>6, ReturnErrorType
<1>7. CASE Continue("persist", mem) /\ UNCHANGED crVars
  BY <1>1, <1>2, <1>7, GoesOnType
<1>. QED
  BY <1>1, <1>4, <1>5, <1>6, <1>7 DEF ReadOrganization

LEMMA PersistEffect ==
  ASSUME CRTypeOK, StepTypeOK, PersistReady
  PROVE  CRTypeOK' /\ StepTypeOK' /\ UNCHANGED <<remote, access>> /\ Ends
<1>1. pc # Idle /\ UNCHANGED <<remote, access>> /\ EndReconcile
  BY DEF PersistReady, Idle, envVars, credentialVars
<1>2. mem.before \in Statuses /\ [mem.status EXCEPT !.reason = "Ready"] \in Statuses
  BY <1>1, InProgress DEF Statuses, Reasons
<1>3. CASE PatchStatus(mem.before, [mem.status EXCEPT !.reason = "Ready"])
  BY <1>1, <1>2, <1>3, PatchStatusType, UnchangedTypes DEF EndReconcile, Ends
<1>4. CASE UNCHANGED crVars
  BY <1>1, <1>4, UnchangedTypes DEF EndReconcile, Ends, OnlyStatus, crVars
<1>. QED
  BY <1>3, <1>4 DEF PersistReady

\* An organization that is gone stays so, for the reconciliations and for others.
Removes(o) == o \in OrganizationIDs /\ remote' = [remote EXCEPT ![o].state = "Gone"]

LEMMA RemovesType ==
  ASSUME RemoteTypeOK, NEW o, Removes(o), UNCHANGED access
  PROVE  /\ RemoteTypeOK' /\ remote'[o].state = "Gone"
         /\ \A p \in OrganizationIDs \ {o} : remote'[p] = remote[p]
BY DEF Removes, RemoteTypeOK, OrganizationRecords

\* The finalizer waits for an organization that is deleted, or was gone already.
LEMMA DeletionEffect ==
  ASSUME CRTypeOK, RemoteTypeOK, StepTypeOK, DeleteOrganization \/ DeleteFinalizer
  PROVE  /\ CRTypeOK' /\ RemoteTypeOK' /\ StepTypeOK' /\ UNCHANGED access
         /\ api'.spec = api.spec /\ api'.deleting = api.deleting
         /\ pc \in Deleting /\ mem.status.organization \in OrganizationIDs
         /\ UNCHANGED remote \/ Removes(mem.status.organization)
         /\ \/ pc' = Idle
            \/ /\ pc = "deleteOrganization" /\ GoesOn("deleteFinalizer")
               /\ remote'[mem.status.organization].state # "Present"
<1> DEFINE o == mem.status.organization
<1>1. /\ pc # Idle /\ pc \in Deleting /\ UNCHANGED access
      /\ pc \in {"deleteOrganization", "deleteFinalizer"}
  BY DEF DeleteOrganization, DeleteFinalizer, Idle, Deleting, envVars, credentialVars
<1>2. StepOK("deleteFinalizer", mem) /\ o \in OrganizationIDs
  BY <1>1, InProgress DEF StepOK, Steps
<1>3. CASE DeleteOrganization
  <2>1. /\ pc = "deleteOrganization" /\ UNCHANGED crVars
        /\ UNCHANGED remote \/ Removes(o)
    BY <1>2, <1>3 DEF DeleteOrganization, Removes
  <2>2. CRTypeOK' /\ RemoteTypeOK' /\ api'.spec = api.spec /\ api'.deleting = api.deleting
    BY <1>1, <2>1, RemovesType, UnchangedTypes DEF crVars
  <2>3. CASE EndReconcile
    BY <1>1, <1>2, <2>1, <2>2, <2>3, UnchangedTypes DEF EndReconcile
  <2>4. CASE ~EndReconcile
    <3>1. /\ Continue("deleteFinalizer", mem) /\ CountsAsDeleted(DeleteAnswer(o))
          /\ remote' = IF DeleteAnswer(o) = "ok" THEN [remote EXCEPT ![o].state = "Gone"] ELSE remote
      BY <1>3, <2>4 DEF DeleteOrganization
    <3>2. StepTypeOK' /\ GoesOn("deleteFinalizer")
      BY <1>2, <2>1, <3>1, GoesOnType
    <3>3. CASE DeleteAnswer(o) = "ok"
      BY <1>1, <1>2, <2>1, <2>2, <3>1, <3>2, <3>3, RemovesType DEF Removes
    <3>4. CASE DeleteAnswer(o) # "ok"
      <4>1. ~Present(o) /\ UNCHANGED remote
        BY <3>1, <3>4 DEF DeleteAnswer, CountsAsDeleted
      <4>. QED
        BY <1>1, <1>2, <2>1, <2>2, <3>2, <4>1 DEF Present
    <3>. QED
      BY <3>3, <3>4
  <2>. QED
    BY <2>3, <2>4
<1>4. CASE DeleteFinalizer
  BY <1>1, <1>2, <1>4, RemoveFinalizerType, UnchangedTypes DEF DeleteFinalizer, EndReconcile
<1>. QED
  BY <1>3, <1>4

\* What users and administrators do.
LEMMA OutdateType ==
  ASSUME StepTypeOK, OutdateCopy, UNCHANGED pc
  PROVE  /\ StepTypeOK'
         /\ pc # Idle => /\ mem'.current = FALSE /\ mem'.spec = mem.spec
                         /\ mem'.status = mem.status /\ mem'.before = mem.before
<1>1. CASE pc = Idle
  BY <1>1 DEF OutdateCopy, StepTypeOK, StepOK, Steps, Idle
<1>2. CASE pc # Idle
  <2> DEFINE n == [mem EXCEPT !.current = FALSE]
  <2>1. StepOK(pc, mem)
    BY <1>2, InProgress
  <2>2. /\ n \in Memories /\ n.current = FALSE /\ n.spec = mem.spec
        /\ n.status = mem.status /\ n.before = mem.before
    BY <2>1 DEF StepOK, Memories
  <2>3. mem' = n
    BY <1>2 DEF OutdateCopy
  <2> HIDE DEF n
  <2>4. StepOK(pc, n)
    BY <2>1, <2>2 DEF StepOK
  <2>. QED
    BY <1>2, <2>2, <2>3, <2>4 DEF StepTypeOK
<1>. QED
  BY <1>1, <1>2

LEMMA EditType ==
  ASSUME Typed, EditSpec \/ DeleteResource
  PROVE  /\ Typed' /\ UNCHANGED <<remote, access, pc>> /\ OutdateCopy
         /\ disturbances' # 0
         /\ ~api'.exists => ~api.exists \/ ~api.finalizer
<1>1. /\ OutdateCopy /\ UNCHANGED <<remote, user, access, goneAnswer, connected, pc, faults>>
      /\ disturbances' = disturbances + 1
  BY DEF EditSpec, DeleteResource, Disturb, credentialVars
<1>2. CRTypeOK /\ StepTypeOK /\ WorldTypeOK /\ RemoteTypeOK
  BY DEF Typed
<1>3. StepTypeOK' /\ RemoteTypeOK' /\ WorldTypeOK' /\ disturbances' # 0
  <2>0. CountsOK
    BY <1>2 DEF WorldTypeOK
  <2>1. CountsOK' /\ disturbances' # 0
    BY <1>1, <2>0 DEF CountsOK
  <2>. QED
    BY <1>1, <1>2, <2>1, OutdateType, UnchangedTypes DEF WorldTypeOK
<1>4. CASE EditSpec
  <2>1. PICK s \in Specs : CR!Put([api EXCEPT !.spec = s])
    BY <1>4 DEF EditSpec
  <2>2. [api EXCEPT !.spec = s] \in Resources /\ [api EXCEPT !.spec = s].exists = api.exists
    BY <1>2, <2>1 DEF CRTypeOK, Resources
  <2>3. CRTypeOK' /\ api'.exists = api.exists
    BY <1>2, <2>1, <2>2, PutType DEF CR!Put
  <2>. QED
    BY <1>1, <1>3, <2>3 DEF Typed
<1>5. CASE DeleteResource
  <2> DEFINE r == [api EXCEPT !.deleting = api.finalizer, !.exists = api.finalizer]
  <2>1. r \in Resources /\ r.exists = api.finalizer
    BY <1>2 DEF CRTypeOK, Resources
  <2>2. CR!Put(r)
    BY <1>5 DEF DeleteResource
  <2>3. CRTypeOK' /\ api' = r
    BY <1>2, <2>1, <2>2, PutType DEF CR!Put
  <2> HIDE DEF r
  <2>. QED
    BY <1>1, <1>3, <2>1, <2>3 DEF Typed
<1>. QED
  BY <1>4, <1>5

LEMMA WorldOutsideType ==
  ASSUME Typed, \/ RemoveOutside \/ RenameOutside \/ ChangeCredential \/ LoseConnection
                \/ RestoreConnection
  PROVE  /\ Typed' /\ UNCHANGED <<crVars, pc, mem>>
         /\ disturbances' # 0 \/ UNCHANGED <<remote, access, disturbances>>
         /\ \A o \in OrganizationIDs : remote'[o].state = "Present" => remote[o].state = "Present"
<1>1. /\ UNCHANGED <<crVars, goneAnswer, pc, mem, faults>>
      /\ \/ disturbances' = disturbances + 1
         \/ UNCHANGED <<remote, access, disturbances>>
  BY DEF RemoveOutside, RenameOutside, ChangeCredential, LoseConnection, RestoreConnection,
         Disturb, credentialVars
<1>2. CRTypeOK /\ StepTypeOK /\ WorldTypeOK /\ RemoteTypeOK
  BY DEF Typed
<1>3. CRTypeOK' /\ StepTypeOK'
  BY <1>1, <1>2, UnchangedTypes
<1>4. CountsOK' /\ (disturbances' # 0 \/ UNCHANGED <<remote, access, disturbances>>)
  <2>1. CountsOK
    BY <1>2 DEF WorldTypeOK
  <2>. QED
    BY <1>1, <2>1 DEF CountsOK
<1>5. CASE RemoveOutside
  <2>1. UNCHANGED <<access, user, connected>> /\ \E o : Removes(o)
    BY <1>5 DEF RemoveOutside, Removes, credentialVars
  <2>. QED
    BY <1>1, <1>2, <1>3, <1>4, <2>1, RemovesType DEF Typed, WorldTypeOK
<1>6. CASE RenameOutside
  <2>1. /\ UNCHANGED <<access, user, connected>>
        /\ \E o \in OrganizationIDs : remote' = [remote EXCEPT ![o].named = ~remote[o].named]
    BY <1>6 DEF RenameOutside, credentialVars
  <2>2. PICK o \in OrganizationIDs : remote' = [remote EXCEPT ![o].named = ~remote[o].named]
    BY <2>1
  <2>3. (~remote[o].named) \in BOOLEAN
    OBVIOUS
  <2>4. RemoteTypeOK' /\ \A p \in OrganizationIDs : remote'[p].state = remote[p].state
    BY <1>2, <2>1, <2>2, <2>3 DEF RemoteTypeOK, OrganizationRecords
  <2>. QED
    BY <1>1, <1>2, <1>3, <1>4, <2>1, <2>4 DEF Typed, WorldTypeOK
<1>7. CASE ChangeCredential \/ LoseConnection \/ RestoreConnection
  <2>1. UNCHANGED remote
    BY <1>7 DEF ChangeCredential, LoseConnection, RestoreConnection
  <2>2. user' \in BOOLEAN /\ connected' \in BOOLEAN /\ access' \subseteq OrganizationIDs
    BY <1>2, <1>7
    DEF ChangeCredential, LoseConnection, RestoreConnection, Credentials, credentialVars,
        RemoteTypeOK, WorldTypeOK
  <2>. QED
    BY <1>1, <1>2, <1>3, <1>4, <2>1, <2>2 DEF Typed, WorldTypeOK, RemoteTypeOK
<1>. QED
  BY <1>5, <1>6, <1>7

LEMMA DeliverType ==
  ASSUME Typed, DeliverResource
  PROVE  Typed' /\ UNCHANGED <<api, remote, access, disturbances, pc, mem>>
<1>1. /\ UNCHANGED <<api, remote, user, access, goneAnswer, connected, disturbances, pc, mem, faults>>
      /\ CR!Deliver
  BY DEF DeliverResource, CR!Deliver, envVars, credentialVars
<1>2. CRTypeOK'
  BY <1>1, HeadTailProperties DEF CR!Deliver, Typed, CRTypeOK
<1>. QED
  BY <1>1, <1>2, UnchangedTypes DEF Typed, WorldTypeOK, CountsOK

-----------------------------------------------------------------------------
(* Type correctness *)

\* Every step of a reconciliation leaves its surroundings alone and adds at most
\* one fault.
LEMMA ReconcileWorld ==
  ASSUME WorldTypeOK, Reconcile \/ Crash
  PROVE  WorldTypeOK' /\ UNCHANGED <<user, disturbances>>
<1>1. /\ UNCHANGED <<user, goneAnswer, connected, disturbances>>
      /\ NoFault \/ \E kind : Fault(kind)
  <2>1. CASE Adopt
    BY <2>1
    DEF Adopt, AdoptByID, AdoptByName, CallFails, Refused, CheckFailsSilently, envVars,
        credentialVars
  <2>2. CASE ReadOrganization
    BY <2>2
    DEF ReadOrganization, CallFails, Refused, CheckFailsSilently, envVars, credentialVars
  <2>3. CASE CreateOrganization
    BY <2>3 DEF CreateOrganization, CallFails, Refused, AnswerLost
  <2>. QED
    BY <2>1, <2>2, <2>3
    DEF Reconcile, Crash, EnsureFinalizer, BeginReconcile, BeginDeletion, ReadCache,
        PersistReady, DeleteOrganization, DeleteFinalizer, NoFault, envVars, credentialVars
<1>2. CountsOK => CountsOK'
  BY <1>1 DEF CountsOK, NoFault, Fault
<1>. QED
  BY <1>1, <1>2 DEF WorldTypeOK

\* How a step of a reconciliation leaves the resource and what it remembers: it
\* ends, it starts, or it goes on in the same run.
Continues(step) == pc # Idle /\ pc' = step /\ UNCHANGED crVars /\ SameRun(mem', mem)

LEMMA ReconcileEffect ==
  ASSUME Typed, Reconcile \/ Crash
  PROVE  /\ Typed' /\ UNCHANGED disturbances
         /\ api'.spec = api.spec /\ api'.deleting = api.deleting
         /\ \/ pc' = Idle
            \/ pc = Idle /\ ~cache.deleting /\ Starts(FirstStep(cache))
            \/ pc = Idle /\ cache.deleting /\ Starts("deleteOrganization")
            \/ Adopt /\ Continues("read")
            \/ Adopt /\ Continues("create") /\ (mem.spec.requested = None => OfName = {})
            \/ CreateOrganization /\ Continues("persist")
            \/ ReadOrganization /\ Continues("persist")
            \/ DeleteOrganization /\ GoesOn("deleteFinalizer")
<1>1. CRTypeOK /\ StepTypeOK /\ WorldTypeOK /\ RemoteTypeOK
  BY DEF Typed
<1>2. WorldTypeOK' /\ UNCHANGED disturbances
  BY <1>1, ReconcileWorld
<1>3. SameRun(mem, mem) /\ (OnlyStatus \/ UNCHANGED crVars =>
                              api'.spec = api.spec /\ api'.deleting = api.deleting)
  BY DEF SameRun, OnlyStatus, crVars
<1>4. CASE EnsureFinalizer \/ BeginReconcile \/ BeginDeletion
  BY <1>1, <1>2, <1>4, BeginEffect, UnchangedTypes DEF Typed
<1>5. CASE Adopt
  <2>1. pc # Idle
    BY <1>5 DEF Adopt, Idle
  <2>. QED
    BY <1>1, <1>2, <1>3, <1>5, <2>1, AdoptEffect, UnchangedTypes
    DEF Typed, Ends, Acquires, GoesOn, Continues
<1>6. CASE CreateOrganization
  <2>1. pc # Idle
    BY <1>6 DEF CreateOrganization, Idle
  <2>. QED
    BY <1>1, <1>2, <1>3, <1>6, <2>1, CreateEffect DEF Typed, Ends, Acquires, Continues
<1>7. CASE ReadOrganization
  <2>1. pc # Idle
    BY <1>7 DEF ReadOrganization, Idle
  <2>. QED
    BY <1>1, <1>2, <1>3, <1>7, <2>1, ReadEffect, UnchangedTypes DEF Typed, Ends, GoesOn, Continues
<1>8. CASE PersistReady
  BY <1>1, <1>2, <1>3, <1>8, PersistEffect, UnchangedTypes DEF Typed, Ends
<1>9. CASE DeleteOrganization \/ DeleteFinalizer
  BY <1>1, <1>2, <1>9, DeletionEffect DEF Typed, DeleteFinalizer, EndReconcile
<1>10. CASE Crash
  BY <1>1, <1>2, <1>3, <1>10, UnchangedTypes
  DEF Crash, EndReconcile, Typed, envVars, credentialVars
<1>. QED
  BY <1>4, <1>5, <1>6, <1>7, <1>8, <1>9, <1>10 DEF Reconcile

LEMMA TypedStep == Typed /\ [Next]_vars => Typed'
<1> SUFFICES ASSUME Typed, [Next]_vars PROVE Typed'
  OBVIOUS
<1>1. CASE UNCHANGED vars
  BY <1>1, UnchangedTypes DEF vars, envVars, credentialVars, crVars, Typed, WorldTypeOK, CountsOK
<1>2. CASE Next
  BY <1>2, ReconcileEffect, DeliverType, EditType, WorldOutsideType DEF Next, Outside
<1>. QED
  BY <1>1, <1>2

LEMMA TypedHolds == Spec => []Typed
BY InitType, TypedStep, PTL DEF Spec

\* The type invariant of the organization controller, which forgets what it had
\* in memory when a reconciliation ends.
THEOREM TypeCorrect == Spec => []TypeOK
<1>1. Typed => TypeOK
  BY DEF Typed, TypeOK, CRTypeOK, RemoteTypeOK, StepTypeOK, StepOK, WorldTypeOK, CountsOK
<1>. QED
  BY <1>1, TypedHolds, PTL

-----------------------------------------------------------------------------
(* Deletion deletes the recorded organization *)

LEMMA ResourceSteps ==
  ASSUME [Next]_vars
  PROVE  UNCHANGED crVars \/ (\E r : CR!Put(r)) \/ CR!Deliver
<1>1. CASE EnsureFinalizer \/ BeginReconcile \/ BeginDeletion
  BY <1>1, WritesBack DEF EnsureFinalizer, BeginReconcile, BeginDeletion
<1>2. CASE Adopt
  BY <1>2, WritesBack
  DEF Adopt, AdoptByID, AdoptByName, Acquire, NotFound, CallFails, Refused
<1>3. CASE CreateOrganization
  BY <1>3, WritesBack DEF CreateOrganization, CallFails, Refused, AnswerLost
<1>4. CASE ReadOrganization
  BY <1>4, WritesBack DEF ReadOrganization, ForgetOrganization, CallFails, Refused
<1>5. CASE PersistReady \/ DeleteOrganization \/ DeleteFinalizer
  BY <1>5, WritesBack DEF PersistReady, DeleteOrganization, DeleteFinalizer
<1>6. CASE ~Reconcile /\ Next
  BY <1>6
  DEF Next, Crash, DeliverResource, Outside, EditSpec, DeleteResource, RemoveOutside,
      RenameOutside, ChangeCredential, LoseConnection, RestoreConnection
<1>. QED
  BY <1>1, <1>2, <1>3, <1>4, <1>5, <1>6 DEF Reconcile, vars

\* What everybody else does to a reconciliation: the copy that it read is
\* outdated by each write of the resource.
LEMMA RunInterrupted ==
  ASSUME Typed, [Next]_vars, ~Reconcile, pc' # Idle
  PROVE  /\ pc' = pc /\ pc # Idle /\ mem'.spec = mem.spec
         /\ mem'.status = mem.status /\ mem'.before = mem.before
         /\ mem'.current = FALSE \/ (mem'.current = mem.current /\ UNCHANGED api)
         /\ \A o \in OrganizationIDs : remote'[o].state = "Present" => remote[o].state = "Present"
<1>1. ~Crash
  BY DEF Crash, EndReconcile
<1>2. CASE EditSpec \/ DeleteResource
  <2>1. StepTypeOK /\ UNCHANGED <<pc, remote>> /\ OutdateCopy
    BY <1>2, EditType DEF Typed
  <2>. QED
    BY <2>1, OutdateType
<1>3. CASE \/ RemoveOutside \/ RenameOutside \/ ChangeCredential \/ LoseConnection
           \/ RestoreConnection \/ DeliverResource \/ UNCHANGED vars
  BY <1>3, WorldOutsideType, DeliverType DEF vars, crVars
<1>. QED
  BY <1>1, <1>2, <1>3 DEF Next, Outside

\* The copy that was read is the stored version as long as it is called current,
\* and the finalizer is only removed for an organization that is gone.
DeletionInvariant ==
  /\ CacheFollows
  /\ pc # Idle /\ mem.current => mem.before = api.status
  /\ pc \in Deleting => mem.status = mem.before
  /\ pc = "deleteFinalizer" => ~Present(mem.status.organization)

LEMMA DeletionStep == Typed /\ DeletionInvariant /\ [Next]_vars => DeletionInvariant'
<1> SUFFICES ASSUME Typed, DeletionInvariant, [Next]_vars PROVE DeletionInvariant'
  OBVIOUS
<1>1. CRTypeOK /\ StepTypeOK /\ WorldTypeOK /\ RemoteTypeOK
  BY DEF Typed
<1>2. CacheFollows'
  BY <1>1, ResourceSteps, CacheFollowsStep DEF DeletionInvariant, CRTypeOK
<1>3. CASE pc' = Idle
  BY <1>2, <1>3 DEF DeletionInvariant, Deleting, Idle
<1>4. CASE Reconcile /\ pc' # Idle
  <2>1. CASE \E step : Starts(step) /\ step # "deleteFinalizer"
    <3>1. /\ Loaded.status = cache.status /\ Loaded.before = cache.status
          /\ Loaded.current = CR!Current
      BY <1>1, LoadedType
    <3>2. CR!Current => cache = api
      BY DEF CR!Current, DeletionInvariant, CacheFollows
    <3>. QED
      BY <1>2, <2>1, <3>1, <3>2 DEF DeletionInvariant, Starts, crVars
  <2>2. CASE \E step : Continues(step) /\ step \notin Deleting
    BY <1>2, <2>2 DEF DeletionInvariant, Continues, SameRun, Deleting, crVars
  <2>3. CASE DeleteOrganization /\ GoesOn("deleteFinalizer")
    <3>1. pc # Idle /\ pc \in Deleting
      BY <2>3 DEF DeleteOrganization, Idle, Deleting
    <3>2. remote'[mem.status.organization].state # "Present"
      BY <1>1, <1>4, <2>3, DeletionEffect
    <3>. QED
      BY <1>2, <2>3, <3>1, <3>2 DEF DeletionInvariant, GoesOn, Present, crVars
  <2>. QED
    BY <1>4, <2>1, <2>2, <2>3, ReconcileEffect DEF FirstStep, Deleting
<1>5. CASE ~Reconcile /\ pc' # Idle
  <2>1. /\ pc' = pc /\ pc # Idle /\ mem'.status = mem.status /\ mem'.before = mem.before
        /\ mem'.current = FALSE \/ (mem'.current = mem.current /\ UNCHANGED api)
        /\ \A o \in OrganizationIDs : remote'[o].state = "Present" => remote[o].state = "Present"
    BY <1>5, RunInterrupted
  <2>2. pc = "deleteFinalizer" => mem.status.organization \in OrganizationIDs
    BY <1>1, <2>1, InProgress DEF StepOK
  <2>. QED
    BY <1>2, <2>1, <2>2 DEF DeletionInvariant, Present
<1>. QED
  BY <1>3, <1>4, <1>5

LEMMA DeletionHolds == Spec => []DeletionInvariant
<1>1. Init => DeletionInvariant
  BY DEF Init, DeletionInvariant, CacheFollows, Deleting, Idle
<1>. QED
  BY <1>1, DeletionStep, TypedHolds, PTL DEF Spec

\* What removes a resource that its finalizer holds.
LEMMA RemovesResource ==
  ASSUME Typed, [Next]_vars, api.exists, ~api'.exists, api.finalizer
  PROVE  \/ NothingToDelete(cache) /\ CR!Current
         \/ pc = "deleteFinalizer" /\ mem.current /\ UNCHANGED remote
<1>1. CRTypeOK /\ StepTypeOK /\ WorldTypeOK /\ RemoteTypeOK
  BY DEF Typed
<1>2. ~OnlyStatus /\ ~UNCHANGED crVars /\ ~UNCHANGED api
  BY DEF OnlyStatus, crVars
<1>3. CASE EnsureFinalizer
  BY <1>1, <1>3 DEF EnsureFinalizer, CR!Put, CRTypeOK, Resources
<1>4. CASE BeginReconcile
  BY <1>1, <1>2, <1>4, LoadedType, ReturnErrorType DEF BeginReconcile, Ends, Reasons
<1>5. CASE BeginDeletion
  BY <1>2, <1>5 DEF BeginDeletion, RemoveFinalizer
<1>6. CASE Adopt \/ CreateOrganization \/ ReadOrganization \/ PersistReady
  BY <1>1, <1>2, <1>6, AdoptEffect, CreateEffect, ReadEffect, PersistEffect
  DEF Ends, Acquires, GoesOn
<1>7. CASE DeleteOrganization \/ DeleteFinalizer
  BY <1>2, <1>7 DEF DeleteOrganization, DeleteFinalizer, RemoveFinalizer
<1>8. CASE \/ EditSpec \/ DeleteResource \/ RemoveOutside \/ RenameOutside \/ ChangeCredential
           \/ LoseConnection \/ RestoreConnection \/ DeliverResource \/ Crash \/ UNCHANGED vars
  BY <1>2, <1>8, EditType, WorldOutsideType, DeliverType DEF Crash, vars
<1>. QED
  BY <1>3, <1>4, <1>5, <1>6, <1>7, <1>8 DEF Next, Reconcile, Outside

\* A resource whose deletion policy is Delete goes only after the organization it
\* records, although the credential may change to one that may not delete it, and
\* also when the reconciliation that removes the finalizer read a stale copy.
THEOREM DeletionSafe == Spec => DeletionDeletesRecorded
<1> DEFINE Deletes ==
      /\ api.exists /\ ~api'.exists
      /\ api.finalizer /\ api.spec.deletion = "Delete" /\ api.status.organization # None
      => remote'[api.status.organization].state # "Present"
<1>1. ASSUME Typed, DeletionInvariant, [Next]_vars PROVE Deletes
  <2> SUFFICES ASSUME api.exists, ~api'.exists, api.finalizer, api.spec.deletion = "Delete",
                      api.status.organization # None
               PROVE  remote'[api.status.organization].state # "Present"
    OBVIOUS
  <2>1. CASE NothingToDelete(cache) /\ CR!Current
    BY <1>1, <2>1 DEF NothingToDelete, CR!Current, DeletionInvariant, CacheFollows
  <2>2. CASE pc = "deleteFinalizer" /\ mem.current /\ UNCHANGED remote
    BY <1>1, <2>2 DEF DeletionInvariant, Deleting, Present, Idle
  <2>. QED
    BY <1>1, <2>1, <2>2, RemovesResource
<1>2. ASSUME Typed, DeletionInvariant, [Next]_vars PROVE [Deletes]_vars
  BY <1>1, <1>2
<1>. QED
  BY <1>2, TypedHolds, DeletionHolds, PTL DEF Spec, DeletionDeletesRecorded

-----------------------------------------------------------------------------
(* One organization *)

\* Nobody has interfered, and what is not found may be created.
Calm ==
  /\ disturbances = 0
  /\ api.spec.creation = "CreateOrAdopt" /\ api.spec.requested = None
Alike == {r \in Resources : r.spec = api.spec /\ ~r.deleting}

\* Every copy of the resource declares what the stored one does, so that each
\* reconciliation looks for an organization of the declared name before it
\* creates one; and one that was made can be found in this way.
MadeInvariant ==
  Calm =>
    /\ api \in Alike /\ cache \in Alike /\ undelivered \in Seq(Alike)
    /\ pc # Idle => mem.spec = api.spec /\ pc \notin Deleting
    /\ \A o, p \in Made : o = p
    /\ Made \subseteq OfName
    /\ pc = "create" => Made = {}

\* Nothing that others do while nobody interferes changes an organization or the
\* resource.
LEMMA CalmSteps ==
  ASSUME Typed, [Next]_vars, Calm'
  PROVE  /\ Calm /\ api'.spec = api.spec /\ api'.deleting = api.deleting /\ Alike' = Alike
         /\ ~Reconcile => UNCHANGED <<remote, access, api>>
<1>1. CASE Reconcile \/ Crash
  <2>1. UNCHANGED disturbances /\ api'.spec = api.spec /\ api'.deleting = api.deleting
    BY <1>1, ReconcileEffect
  <2>2. Crash => UNCHANGED <<remote, access, api>>
    BY DEF Crash, crVars, envVars, credentialVars
  <2>. QED
    BY <1>1, <2>1, <2>2 DEF Calm, Alike
<1>2. CASE DeliverResource \/ UNCHANGED vars
  <2>1. UNCHANGED <<api, remote, access, disturbances>>
    BY <1>2, DeliverType DEF vars, crVars, envVars, credentialVars
  <2>. QED
    BY <1>2, <2>1 DEF Calm, Alike
<1>3. CASE Outside
  <2>1. UNCHANGED <<api, remote, access, disturbances>>
    BY <1>3, EditType, WorldOutsideType DEF Outside, Calm, crVars
  <2>. QED
    BY <2>1 DEF Calm, Alike
<1>. QED
  BY <1>1, <1>2, <1>3 DEF Next

LEMMA MadeStep == Typed /\ MadeInvariant /\ [Next]_vars => MadeInvariant'
<1> SUFFICES ASSUME Typed, MadeInvariant, [Next]_vars, Calm'
             PROVE  /\ api' \in Alike /\ cache' \in Alike /\ undelivered' \in Seq(Alike)
                    /\ pc' # Idle => mem'.spec = api.spec /\ pc' \notin Deleting
                    /\ \A o, p \in Made' : o = p
                    /\ Made' \subseteq OfName'
                    /\ pc' = "create" => Made' = {}
  BY CalmSteps DEF MadeInvariant
<1>1. CRTypeOK /\ StepTypeOK /\ WorldTypeOK /\ RemoteTypeOK /\ CRTypeOK'
  BY TypedStep DEF Typed
<1>2. Calm /\ api'.spec = api.spec /\ api'.deleting = api.deleting
  BY CalmSteps
<1>3. /\ api \in Alike /\ cache \in Alike /\ undelivered \in Seq(Alike)
      /\ pc # Idle => mem.spec = api.spec /\ pc \notin Deleting
      /\ \A o, p \in Made : o = p
      /\ Made \subseteq OfName
      /\ pc = "create" => Made = {}
  BY <1>2 DEF MadeInvariant
<1>4. api' \in Alike /\ cache' \in Alike /\ undelivered' \in Seq(Alike)
  <2>1. api' \in Alike
    BY <1>1, <1>2, <1>3 DEF Alike, CRTypeOK
  <2>. QED
    BY <1>3, <2>1, ResourceSteps, CopiesStep
<1>5. UNCHANGED <<remote, access>> => Made' = Made /\ OfName' = OfName
  BY DEF Made, OfName, Visible, Present
<1>6. CASE ~Reconcile
  <2>1. pc' # Idle => pc' = pc /\ mem'.spec = mem.spec
    BY <1>6, RunInterrupted
  <2>. QED
    BY <1>3, <1>4, <1>5, <1>6, <2>1, CalmSteps DEF Idle
<1>7. CASE Reconcile
  <2>1. pc' # Idle => mem'.spec = api.spec /\ pc' \notin Deleting
    <3>1. cache.spec = api.spec /\ ~cache.deleting /\ Loaded.spec = cache.spec
      BY <1>1, <1>3, LoadedType DEF Alike
    <3>2. DeleteOrganization => pc \in Deleting /\ pc # Idle
      BY DEF DeleteOrganization, Deleting, Idle
    <3>. QED
      BY <1>3, <1>7, <3>1, <3>2, ReconcileEffect
      DEF Starts, Continues, SameRun, FirstStep, Deleting
  <2>2. CASE CreateOrganization
    <3>1. pc' # "create"
      BY <1>1, <2>2, CreateEffect DEF Ends, Acquires, Idle
    <3>2. Made = {}
      BY <1>3, <2>2 DEF CreateOrganization
    <3>3. CASE UNCHANGED <<remote, access>>
      BY <1>3, <1>4, <1>5, <2>1, <3>1, <3>3
    <3>4. ASSUME NEW o, Makes(o) PROVE Made' \subseteq {o} /\ o \in OfName'
      <4>1. /\ o \in OrganizationIDs /\ o \in access'
            /\ remote'[o].state = "Present" /\ remote'[o].named = TRUE
            /\ \A p \in OrganizationIDs \ {o} : remote'[p] = remote[p]
        BY <1>1, <3>4 DEF Makes, RemoteTypeOK
      <4>. QED
        BY <3>2, <4>1 DEF Made, OfName, Visible, Present
    <3>. QED
      BY <1>1, <1>4, <2>1, <2>2, <3>1, <3>3, <3>4, CreateEffect
  <2>3. CASE ~CreateOrganization
    <3>1. UNCHANGED <<remote, access>>
      <4>1. ~DeleteOrganization /\ ~DeleteFinalizer
        BY <1>3 DEF DeleteOrganization, DeleteFinalizer, Deleting, Idle
      <4>. QED
        BY <1>1, <1>7, <2>3, <4>1, BeginEffect, AdoptEffect, ReadEffect, PersistEffect
        DEF Reconcile
    <3>2. ASSUME pc' = "create" PROVE Made = {}
      <4>1. cache.spec = api.spec
        BY <1>3 DEF Alike
      <4>2. FirstStep(cache) # "create"
        BY <1>2, <4>1 DEF FirstStep, CanAdopt, Calm
      <4>3. Adopt /\ pc # Idle /\ (mem.spec.requested = None => OfName = {})
        BY <1>7, <2>3, <3>2, <4>2, ReconcileEffect DEF Starts, Continues, GoesOn, Idle
      <4>. QED
        BY <1>2, <1>3, <4>3 DEF Calm
    <3>. QED
      BY <1>3, <1>4, <1>5, <2>1, <3>1, <3>2
  <2>. QED
    BY <2>2, <2>3
<1>. QED
  BY <1>6, <1>7

\* While nobody interferes, CreateOrAdopt makes at most one organization, for any
\* number of lost answers, crashes, failures and stale reads: an organization that
\* an earlier try left behind is found by its name, in every copy of the resource.
THEOREM OrganizationSafe == Spec => []OneOrganization
<1>1. ASSUME Init PROVE MadeInvariant
  <2>1. PICK s \in Specs :
          api = [exists |-> TRUE, deleting |-> FALSE, finalizer |-> FALSE,
                 spec |-> s, status |-> NoStatus]
    BY <1>1 DEF Init
  <2>2. api \in Alike /\ cache \in Alike /\ undelivered \in Seq(Alike)
    <3>1. api \in Resources /\ cache = api /\ undelivered = <<>>
      BY <1>1, InitType DEF Init, Typed, CRTypeOK
    <3>2. api.deleting = FALSE
      BY <2>1
    <3>3. api \in Alike
      BY <2>1, <3>1, <3>2 DEF Alike
    <3>. QED
      BY <3>1, <3>3
  <2>3. Made = {}
    <3>1. PICK n \in [InitiallyPresent -> BOOLEAN] :
            remote = [o \in OrganizationIDs |->
              IF o \in InitiallyPresent THEN [state |-> "Present", named |-> n[o]]
              ELSE [state |-> "Unused", named |-> FALSE]]
      BY <1>1 DEF Init
    <3>2. \A o \in OrganizationIDs \ InitiallyPresent : remote[o].state = "Unused"
      BY <3>1
    <3>. QED
      BY <3>2 DEF Made, Present
  <2>. QED
    BY <1>1, <2>2, <2>3 DEF Init, MadeInvariant, Idle
<1>2. MadeInvariant => OneOrganization
  BY DEF MadeInvariant, OneOrganization, Calm
<1>. QED
  BY <1>1, <1>2, MadeStep, TypedHolds, PTL DEF Spec
=============================================================================
