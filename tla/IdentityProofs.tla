---------------------------- MODULE IdentityProofs --------------------------
(***************************************************************************)
(* Theorems about Identity for all values of its constants.                *)
(***************************************************************************)
EXTENDS Identity, ControllerProofs

MembershipSteps ==
  {"readMembership", "createMembership", "readCreated", "updateMembership", "readUpdated"}
Deleting == {"deleteIdentity", "deleteFinalizer"}
Acting   == Steps \ Deleting

\* The homes that an identity of this scope has.
HomesOf(spec) == IF spec.scope = "Project" THEN Projects ELSE Organizations

\* A memory with which the calls of a step name an identity, a project and roles.
StepOK(step, m) ==
  /\ step \in Steps /\ m \in Memories
  /\ step \notin {"adopt", "create"} => m.status.identity \in IdentityIDs
  /\ step \in Acting => m.anchor \in HomesOf(m.spec) /\ m.todo \subseteq Managed(m.spec)
  /\ step \in MembershipSteps => m.project \in Projects /\ m.roles \in RoleSets

CRTypeOK     == api \in Resources /\ cache \in Resources /\ undelivered \in Seq(Resources)
RemoteTypeOK == remote \in [IdentityIDs -> IdentityRecords]
StepTypeOK   == (pc = Idle /\ mem = None) \/ StepOK(pc, mem)
WorldTypeOK  ==
  /\ \A d \in Dependencies : resolved[d] \in Targets[d] \cup {None}
  /\ faults \in Nat /\ disturbances \in Nat /\ api.generation <= disturbances

\* The type invariant, that every call names what it is about, and that each
\* generation is a disturbance.
Typed == CRTypeOK /\ RemoteTypeOK /\ StepTypeOK /\ WorldTypeOK

-----------------------------------------------------------------------------
(* Lemmas about the operators the actions are built from *)

LEMMA ConditionType ==
  /\ \A reason \in Reasons : NotReady(reason) \in Conditions
  /\ \A g \in Generations : ReadyFor(g) \in Conditions
BY DEF Conditions

\* A patched status is a status; what the patch does not change is kept.
LEMMA MergePatchType ==
  ASSUME NEW stored \in Statuses, NEW before \in Statuses, NEW after \in Statuses
  PROVE  /\ MergePatch(stored, before, after) \in Statuses
         /\ MergePatch(stored, before, after).identity =
              IF before.identity = after.identity THEN stored.identity ELSE after.identity
         /\ MergePatch(stored, before, after).home =
              IF before.home = after.home THEN stored.home ELSE after.home
         /\ MergePatch(stored, before, after).reason =
              IF before.reason = after.reason THEN stored.reason ELSE after.reason
<1> DEFINE p == MergePatch(stored, before, after)
<1>1. DOMAIN stored = {"identity", "home", "memberships", "reason"}
  BY DEF Statuses
<1>2. p = [identity |-> p.identity, home |-> p.home, memberships |-> p.memberships,
           reason |-> p.reason]
  BY <1>1 DEF MergePatch
<1>3. /\ p.identity = IF before.identity = after.identity THEN stored.identity
                      ELSE after.identity
      /\ p.home = IF before.home = after.home THEN stored.home ELSE after.home
      /\ p.memberships = IF before.memberships = after.memberships THEN stored.memberships
                         ELSE after.memberships
      /\ p.reason = IF before.reason = after.reason THEN stored.reason ELSE after.reason
  BY <1>1 DEF MergePatch
<1>4. /\ p.identity \in IdentityIDs \cup {None} /\ p.home \in Homes \cup {None}
      /\ p.memberships \in SUBSET Projects /\ p.reason \in Conditions
  BY <1>3 DEF Statuses
<1> HIDE DEF p
<1>5. p \in Statuses
  BY <1>2, <1>4 DEF Statuses
<1>. QED
  BY <1>3, <1>5 DEF p

LEMMA PutType ==
  ASSUME CRTypeOK, NEW r \in Resources, CR!Put(r)
  PROVE  CRTypeOK'
BY DEF CRTypeOK, CR!Put

\* All of the resource but the status is as before.
OnlyStatus ==
  /\ api'.exists = api.exists /\ api'.deleting = api.deleting
  /\ api'.finalizer = api.finalizer
  /\ api'.generation = api.generation /\ api'.spec = api.spec

\* A status patch touches the status only.
LEMMA PatchStatusType ==
  ASSUME CRTypeOK, NEW before \in Statuses, NEW after \in Statuses,
         PatchStatus(before, after)
  PROVE  /\ CRTypeOK' /\ OnlyStatus
         /\ api'.status = IF api.exists THEN MergePatch(api.status, before, after)
                          ELSE api.status
<1>1. CASE api.exists
  <2> DEFINE merged == MergePatch(api.status, before, after)
             r == [api EXCEPT !.status = merged]
  <2>1. api.status \in Statuses
    BY DEF CRTypeOK, Resources
  <2>2. merged \in Statuses
    BY <2>1, MergePatchType
  <2> HIDE DEF merged
  <2>3. /\ r \in Resources /\ r.exists = api.exists /\ r.status = merged
        /\ r.deleting = api.deleting /\ r.finalizer = api.finalizer
        /\ r.generation = api.generation /\ r.spec = api.spec
    BY <2>2 DEF CRTypeOK, Resources
  <2>4. CR!Put(r)
    BY <1>1 DEF PatchStatus, merged
  <2>5. api' = r
    BY <2>4 DEF CR!Put
  <2> HIDE DEF r
  <2>. QED
    BY <1>1, <2>3, <2>4, <2>5, PutType DEF merged, OnlyStatus
<1>2. CASE ~api.exists
  BY <1>2 DEF PatchStatus, crVars, CRTypeOK, OnlyStatus
<1>. QED
  BY <1>1, <1>2

\* The recorded pair of ids is left as it is.
SameIds ==
  /\ api'.status.identity = api.status.identity
  /\ api'.status.home = api.status.home

\* And so is the condition, or it says what failed.
OnlyFailure ==
  /\ SameIds
  /\ \/ api'.status.reason = api.status.reason
     \/ \E reason \in Reasons : api'.status.reason = NotReady(reason)

\* An error handler writes its condition only.
LEMMA ReturnErrorType ==
  ASSUME CRTypeOK, NEW status \in Statuses, NEW reason \in Reasons,
         ReturnError(status, NotReady(reason))
  PROVE  CRTypeOK' /\ StepTypeOK' /\ pc' = Idle /\ OnlyStatus /\ OnlyFailure
<1> DEFINE after == [status EXCEPT !.reason = NotReady(reason)]
<1>1. /\ after \in Statuses /\ after.identity = status.identity /\ after.home = status.home
      /\ after.reason = NotReady(reason)
  BY ConditionType DEF Statuses
<1>2. PatchStatus(status, after) /\ EndReconcile
  BY DEF ReturnError
<1> HIDE DEF after
<1>3. api.status \in Statuses
  BY DEF CRTypeOK, Resources
<1>. QED
  BY <1>1, <1>2, <1>3, PatchStatusType, MergePatchType
  DEF EndReconcile, StepTypeOK, SameIds, OnlyFailure

LEMMA RemoveFinalizerType ==
  ASSUME CRTypeOK, NEW current, RemoveFinalizer(current)
  PROVE  CRTypeOK' /\ api'.status = api.status
         /\ api'.generation = api.generation /\ api'.spec = api.spec
<1>1. WithoutFinalizer(api) \in Resources /\ WithoutFinalizer(api).status = api.status
      /\ WithoutFinalizer(api).generation = api.generation
      /\ WithoutFinalizer(api).spec = api.spec
  BY DEF WithoutFinalizer, CRTypeOK, Resources
<1>2. CASE current /\ api.finalizer
  <2>1. CR!Put(WithoutFinalizer(api))
    BY <1>2 DEF RemoveFinalizer
  <2>2. api' = WithoutFinalizer(api)
    BY <2>1 DEF CR!Put
  <2>. QED
    BY <1>1, <2>1, <2>2, PutType
<1>3. CASE ~(current /\ api.finalizer)
  BY <1>3 DEF RemoveFinalizer, crVars, CRTypeOK
<1>. QED
  BY <1>2, <1>3

LEMMA ContinueType ==
  ASSUME NEW step, NEW m, StepOK(step, m), Continue(step, m)
  PROVE  StepTypeOK'
BY DEF Continue, StepTypeOK

\* Each group of variables is typed by the actions that leave it alone.
LEMMA UnchangedTypes ==
  /\ CRTypeOK /\ UNCHANGED crVars => CRTypeOK'
  /\ RemoteTypeOK /\ UNCHANGED remote => RemoteTypeOK'
  /\ StepTypeOK /\ UNCHANGED <<pc, mem>> => StepTypeOK'
  /\ EndReconcile => StepTypeOK'
BY DEF crVars, CRTypeOK, RemoteTypeOK, StepTypeOK, EndReconcile

\* Between two steps of a reconciliation its memory is defined.
LEMMA InProgress ==
  ASSUME StepTypeOK, pc # Idle
  PROVE  /\ StepOK(pc, mem)
         /\ mem \in Memories /\ mem.status \in Statuses /\ mem.before \in Statuses
         /\ mem.spec \in Specs /\ mem.generation \in Generations
BY DEF StepTypeOK, StepOK, Memories

\* Specs in words: what each field is.
LEMMA SpecType ==
  ASSUME NEW spec \in Specs
  PROVE  /\ spec.scope \in {"Project", "Organization"}
         /\ spec.name \in Names /\ spec.config \in Configs
         /\ \A ref \in ProjectRefs : spec.roles[ref] \in RoleSets \cup {None}
         /\ Managed(spec) \subseteq ProjectRefs
         /\ spec.scope = "Project" => Managed(spec) \subseteq {HomeRef}
         /\ spec.scope = "Project" => AnchorRef(spec) = HomeRef
         /\ spec.scope = "Organization" => AnchorRef(spec) = OrganizationRef
<1>1. spec \in [scope: Scopes, name: Names, config: Configs,
                roles: [ProjectRefs -> RoleSets \cup {None}],
                creation: CreationChoices, deletion: DeletionChoices]
      /\ (spec.scope = "Project" => \A ref \in ProjectRefs \ {HomeRef} : spec.roles[ref] = None)
  BY DEF Specs
<1>. QED
  BY <1>1, ConstantsAssumption DEF Managed, AnchorRef

\* The later memory of the same reconciliation.
SameRun(n, m) ==
  /\ n \in Memories
  /\ n.generation = m.generation /\ n.spec = m.spec /\ n.before = m.before
  /\ n.current = m.current /\ n.anchor = m.anchor

\* Writing the status into a memory, and another writer's outdating it.
LEMMA MemoryType ==
  ASSUME NEW m \in Memories
  PROVE  /\ \A s \in Statuses :
              /\ SameRun([m EXCEPT !.status = s], m) /\ [m EXCEPT !.status = s].status = s
              /\ [m EXCEPT !.status = s].todo = m.todo
              /\ [m EXCEPT !.status = s].project = m.project
              /\ [m EXCEPT !.status = s].roles = m.roles
         /\ [m EXCEPT !.current = FALSE] \in Memories
         /\ \A f \in DOMAIN m \ {"current"} : [m EXCEPT !.current = FALSE][f] = m[f]
         /\ [m EXCEPT !.current = FALSE].current = FALSE
BY DEF Memories, SameRun

LEMMA ObservedType ==
  ASSUME mem \in Memories, NEW i \in IdentityIDs
  PROVE  /\ Observed(i) \in Statuses
         /\ Observed(i).identity = i /\ Observed(i).home = mem.anchor
         /\ Observed(i).reason = mem.status.reason
<1>1. mem.status \in Statuses /\ mem.anchor \in Homes \cup {None}
  BY DEF Memories
<1> DEFINE s == [mem.status EXCEPT !.identity = i]
<1>2. s \in Statuses /\ s.identity = i /\ s.reason = mem.status.reason
  BY <1>1 DEF Statuses
<1>3. Observed(i) = [s EXCEPT !.home = mem.anchor]
  BY <1>1 DEF Observed, Statuses
<1> HIDE DEF s
<1>. QED
  BY <1>1, <1>2, <1>3 DEF Statuses

\* What NextBinding does with memory m: it goes to the status patch, or to the
\* project of one more binding.
NoMoreBindings(m) ==
  /\ UNCHANGED crVars /\ pc' = "persist" /\ m.todo = {}
  /\ SameRun(mem', m) /\ mem'.status = m.status /\ mem'.todo = {}
StartsBinding(m, ref) ==
  /\ UNCHANGED crVars /\ pc' = "readMembership"
  /\ SameRun(mem', m) /\ mem'.status = m.status /\ mem'.todo = m.todo \ {ref}
  /\ mem'.roles = m.spec.roles[ref]
  /\ mem'.project = ProjectFor(m, ref) /\ mem'.project \in Projects

LEMMA NextBindingType ==
  ASSUME CRTypeOK, WorldTypeOK, NEW m, StepOK("persist", m), NextBinding(m)
  PROVE  /\ \/ NoMoreBindings(m)
            \/ \E ref \in m.todo : StartsBinding(m, ref)
            \/ ReturnError(m.status, NotReady("RoleMembershipReconcileFailed"))
         /\ CRTypeOK' /\ StepTypeOK'
<1>1. /\ m \in Memories /\ m.spec \in Specs /\ m.status \in Statuses
      /\ m.status.identity \in IdentityIDs
      /\ m.anchor \in HomesOf(m.spec) /\ m.todo \subseteq Managed(m.spec)
      /\ Managed(m.spec) \subseteq ProjectRefs
  BY SpecType DEF StepOK, Acting, Steps, Deleting, Memories
<1>2. CASE /\ UNCHANGED crVars /\ m.todo = {}
           /\ Continue("persist", [m EXCEPT !.project = None, !.roles = None])
  <2> DEFINE n == [m EXCEPT !.project = None, !.roles = None]
  <2>1. SameRun(n, m) /\ n.status = m.status /\ n.todo = {}
    BY <1>1, <1>2 DEF Memories, SameRun
  <2>2. Continue("persist", n)
    BY <1>2
  <2> HIDE DEF n
  <2>3. StepOK("persist", n)
    BY <1>1, <2>1 DEF StepOK, SameRun, Acting, Steps, Deleting, MembershipSteps
  <2>. QED
    BY <1>2, <2>1, <2>2, <2>3, ContinueType, UnchangedTypes DEF NoMoreBindings, Continue
<1>3. ASSUME NEW ref \in m.todo, UNCHANGED crVars, ProjectFor(m, ref) # None,
             Continue("readMembership", [m EXCEPT !.todo = @ \ {ref}, !.roles = m.spec.roles[ref],
                                                  !.project = ProjectFor(m, ref)])
      PROVE  StartsBinding(m, ref) /\ CRTypeOK' /\ StepTypeOK'
  <2>1. ProjectFor(m, ref) \in Projects
    <3>1. ref \in ProjectRefs /\ resolved[ref] \in Targets[ref] \cup {None}
      BY <1>1 DEF WorldTypeOK, Dependencies
    <3>. QED
      BY <1>1, <1>3, <3>1, SpecType, ConstantsAssumption DEF ProjectFor, HomesOf
  <2>2. m.spec.roles[ref] \in RoleSets
    BY <1>1, SpecType DEF Managed
  <2> DEFINE n == [m EXCEPT !.todo = @ \ {ref}, !.roles = m.spec.roles[ref],
                            !.project = ProjectFor(m, ref)]
  <2>3. /\ SameRun(n, m) /\ n.status = m.status /\ n.todo = m.todo \ {ref}
        /\ n.roles = m.spec.roles[ref] /\ n.project = ProjectFor(m, ref)
    BY <1>1, <2>1, <2>2 DEF Memories, SameRun
  <2>4. Continue("readMembership", n)
    BY <1>3
  <2> HIDE DEF n
  <2>5. StepOK("readMembership", n)
    BY <1>1, <2>1, <2>2, <2>3 DEF StepOK, SameRun, Acting, Steps, Deleting, MembershipSteps
  <2>. QED
    BY <1>3, <2>1, <2>3, <2>4, <2>5, ContinueType, UnchangedTypes DEF StartsBinding, Continue
<1>4. CASE ReturnError(m.status, NotReady("RoleMembershipReconcileFailed"))
  BY <1>1, <1>4, ReturnErrorType DEF Reasons
<1>. QED
  BY <1>2, <1>3, <1>4 DEF NextBinding, NoMoreBindings, StartsBinding

\* The memory with which the memberships begin.
FirstMemory == [mem EXCEPT !.status = [Observed(mem.status.identity) EXCEPT !.memberships = {}],
                           !.todo = Managed(mem.spec)]

LEMMA FirstMemoryType ==
  ASSUME StepOK(pc, mem), pc \in Acting, mem.status.identity \in IdentityIDs
  PROVE  /\ StepOK("persist", FirstMemory) /\ SameRun(FirstMemory, mem)
         /\ FirstMemory.status.identity = mem.status.identity
         /\ FirstMemory.status.home = mem.anchor
         /\ FirstMemory.todo = Managed(mem.spec)
<1> DEFINE s == [Observed(mem.status.identity) EXCEPT !.memberships = {}]
           n == [mem EXCEPT !.status = s]
<1>1. mem \in Memories /\ mem.spec \in Specs
  BY DEF StepOK, Memories
<1>2. s \in Statuses /\ s.identity = mem.status.identity /\ s.home = mem.anchor
  BY <1>1, ObservedType DEF Statuses
<1> HIDE DEF s
<1>3. n \in Memories /\ SameRun(n, mem) /\ n.status = s
  BY <1>1, <1>2, MemoryType DEF SameRun
<1>4. FirstMemory = [n EXCEPT !.todo = Managed(mem.spec)]
  BY <1>1 DEF FirstMemory, Memories, s
<1> HIDE DEF n
<1>5. Managed(mem.spec) \subseteq ProjectRefs
  BY <1>1, SpecType
<1>6. /\ SameRun(FirstMemory, mem) /\ FirstMemory.status = s
      /\ FirstMemory.todo = Managed(mem.spec)
  BY <1>3, <1>4, <1>5 DEF Memories, SameRun
<1>. QED
  BY <1>2, <1>6 DEF StepOK, SameRun, Acting, Steps, Deleting, MembershipSteps

\* The memory once a membership is reported.
ReportedMemory == [mem EXCEPT !.status.memberships = @ \cup {mem.project}]

LEMMA ReportedMemoryType ==
  ASSUME StepOK(pc, mem), pc \in MembershipSteps
  PROVE  /\ StepOK("persist", ReportedMemory) /\ SameRun(ReportedMemory, mem)
         /\ ReportedMemory.status.identity = mem.status.identity
         /\ ReportedMemory.status.home = mem.status.home
         /\ ReportedMemory.todo = mem.todo
<1> DEFINE s == [mem.status EXCEPT !.memberships = @ \cup {mem.project}]
<1>1. mem \in Memories /\ mem.status \in Statuses /\ mem.project \in Projects
  BY DEF StepOK, Memories
<1>2. s \in Statuses /\ s.identity = mem.status.identity /\ s.home = mem.status.home
  BY <1>1 DEF Statuses
<1>3. ReportedMemory = [mem EXCEPT !.status = s]
  BY <1>1 DEF ReportedMemory, Memories
<1> HIDE DEF s
<1>. QED
  BY <1>1, <1>2, <1>3, MemoryType
  DEF StepOK, SameRun, Acting, Steps, Deleting, MembershipSteps

-----------------------------------------------------------------------------
(* Type correctness *)

LEMMA UnusedType == Unused \in IdentityRecords /\ NoMembership \in Memberships
BY DEF Unused, IdentityRecords, NoMembership, Memberships

LEMMA InitType == Init => Typed
<1> SUFFICES ASSUME Init PROVE Typed
  OBVIOUS
<1>1. PICK s \in Specs :
        api = [exists |-> TRUE, deleting |-> FALSE, finalizer |-> FALSE,
               generation |-> 0, spec |-> s, status |-> NoStatus]
  BY DEF Init
<1>2. CRTypeOK
  <2>1. NoStatus \in Statuses
    BY ConditionType DEF NoStatus, Statuses, Reasons
  <2>2. cache = api /\ undelivered = <<>>
    BY DEF Init
  <2>. QED
    BY <1>1, <2>1, <2>2, BoundsAssumption DEF Resources, CRTypeOK, Generations
<1>3. RemoteTypeOK
  <2>1. PICK h \in [InitiallyPresent -> Homes], n \in [InitiallyPresent -> Names],
             g \in [InitiallyPresent -> Configs] :
          remote = [i \in IdentityIDs |->
            IF i \in InitiallyPresent
            THEN [Unused EXCEPT !.state = "Present", !.creator = "Other", !.home = h[i],
                                !.name = n[i], !.config = g[i]]
            ELSE Unused]
    BY DEF Init
  <2>2. ASSUME NEW i \in InitiallyPresent
        PROVE  [Unused EXCEPT !.state = "Present", !.creator = "Other", !.home = h[i],
                              !.name = n[i], !.config = g[i]] \in IdentityRecords
    BY UnusedType DEF IdentityRecords
  <2>. QED
    BY <2>1, <2>2, UnusedType DEF RemoteTypeOK
<1>4. WorldTypeOK
  <2>1. faults = 0 /\ disturbances = 0 /\ \A d \in Dependencies : resolved[d] \in Targets[d]
    BY DEF Init
  <2>. QED
    BY <1>1, <2>1 DEF WorldTypeOK
<1>. QED
  BY <1>2, <1>3, <1>4 DEF Init, Typed, StepTypeOK

\* The first step of a reconciliation: its memory is the cached copy.
LEMMA LoadedType ==
  ASSUME CRTypeOK, WorldTypeOK
  PROVE  /\ Loaded \in Memories /\ Loaded.generation = cache.generation
         /\ Loaded.spec = cache.spec /\ Loaded.status = cache.status
         /\ Loaded.before = cache.status /\ Loaded.current = CR!Current
         /\ Loaded.anchor = resolved[AnchorRef(cache.spec)] /\ Loaded.todo = {}
         /\ cache.status \in Statuses /\ cache.spec \in Specs
         /\ cache.generation \in Generations
         /\ resolved[AnchorRef(cache.spec)] \in HomesOf(cache.spec) \cup {None}
<1>1. cache.status \in Statuses /\ cache.spec \in Specs /\ cache.generation \in Generations
  BY DEF CRTypeOK, Resources
<1>2. resolved[AnchorRef(cache.spec)] \in HomesOf(cache.spec) \cup {None}
  BY <1>1, SpecType, ConstantsAssumption DEF WorldTypeOK, HomesOf, Dependencies
<1>3. HomesOf(cache.spec) \subseteq Homes
  BY DEF HomesOf, Homes
<1>. QED
  BY <1>1, <1>2, <1>3 DEF Loaded, Memories, CR!Current

\* How a reconciliation starts: it does what it can without a call, or it goes
\* to a first call with what it read.
Starts(step) == pc' = step /\ mem' = Loaded /\ UNCHANGED crVars

LEMMA BeginType ==
  ASSUME CRTypeOK, StepTypeOK, WorldTypeOK, EnsureFinalizer \/ BeginReconcile \/ BeginDeletion
  PROVE  /\ CRTypeOK' /\ StepTypeOK' /\ UNCHANGED remote /\ pc = Idle
         /\ api'.generation = api.generation /\ api'.spec = api.spec
         /\ \/ pc' = Idle /\ OnlyFailure
            \/ /\ BeginReconcile /\ Anchored(cache.spec) /\ ~cache.deleting
               /\ Starts(FirstStep(cache))
            \/ BeginDeletion /\ ~NothingToDelete(cache) /\ Starts("deleteIdentity")
<1>0. UNCHANGED remote /\ pc = Idle
  BY DEF EnsureFinalizer, BeginReconcile, BeginDeletion, ReadCache
<1>1. CASE EnsureFinalizer
  <2> DEFINE r == [api EXCEPT !.finalizer = TRUE]
  <2>1. /\ r \in Resources /\ r.generation = api.generation /\ r.spec = api.spec
        /\ r.status = api.status
    BY DEF CRTypeOK, Resources
  <2>2. CR!Put(r) /\ EndReconcile
    BY <1>1 DEF EnsureFinalizer
  <2>3. api' = r
    BY <2>2 DEF CR!Put
  <2> HIDE DEF r
  <2>. QED
    BY <1>0, <2>1, <2>2, <2>3, PutType, UnchangedTypes DEF SameIds, OnlyFailure, EndReconcile
<1>2. CASE BeginReconcile
  <2>1. {NotReadyReason(cache.spec), "ConfigurationInvalid", "ConnectionNotReady"} \subseteq Reasons
    BY DEF Reasons, NotReadyReason
  <2>2. CASE \E reason \in Reasons : ReturnError(cache.status, NotReady(reason))
    BY <1>0, <2>2, LoadedType, ReturnErrorType DEF OnlyStatus
  <2>3. CASE Anchored(cache.spec) /\ Continue(FirstStep(cache), Loaded) /\ UNCHANGED crVars
    <3>1. Loaded.anchor \in HomesOf(Loaded.spec)
      BY <2>3, LoadedType DEF Anchored, Required
    <3>2. /\ FirstStep(cache) \in {"read", "adopt", "create"}
          /\ FirstStep(cache) = "read" => Loaded.status.identity \in IdentityIDs
      BY LoadedType DEF FirstStep, Statuses
    <3>3. StepOK(FirstStep(cache), Loaded)
      BY <3>1, <3>2, LoadedType DEF StepOK, Steps, MembershipSteps
    <3>4. Starts(FirstStep(cache)) /\ CRTypeOK' /\ StepTypeOK'
      BY <2>3, <3>3, ContinueType, UnchangedTypes DEF Starts, Continue
    <3>. QED
      BY <1>0, <1>2, <2>3, <3>4 DEF crVars, BeginReconcile
  <2>. QED
    BY <1>2, <2>1, <2>2, <2>3 DEF BeginReconcile
<1>3. CASE BeginDeletion
  <2>1. CASE RemoveFinalizer(CR!Current) /\ EndReconcile
    BY <1>0, <2>1, RemoveFinalizerType, UnchangedTypes DEF SameIds, OnlyFailure, EndReconcile
  <2>2. CASE /\ ~NothingToDelete(cache) /\ Continue("deleteIdentity", Loaded)
             /\ UNCHANGED crVars
    <3>1. StepOK("deleteIdentity", Loaded)
      BY <2>2, LoadedType
      DEF NothingToDelete, StepOK, Steps, Acting, Deleting, MembershipSteps, Statuses
    <3>2. Starts("deleteIdentity") /\ CRTypeOK' /\ StepTypeOK'
      BY <2>2, <3>1, ContinueType, UnchangedTypes DEF Starts, Continue
    <3>. QED
      BY <1>0, <1>3, <2>2, <3>2 DEF crVars
  <2>. QED
    BY <1>3, <2>1, <2>2 DEF BeginDeletion
<1>. QED
  BY <1>1, <1>2, <1>3

LEMMA CreatedType ==
  ASSUME mem \in Memories, mem.anchor \in Homes, NEW roles \in FirstRoles
  PROVE  /\ Created(roles) \in IdentityRecords
         /\ Created(roles).state = "Present" /\ Created(roles).creator = "Operator"
         /\ Created(roles).home = mem.anchor /\ Created(roles).name = mem.spec.name
<1>1. mem.spec.name \in Names /\ mem.spec.config \in Configs
  BY SpecType DEF Memories
<1>2. (IF mem.anchor \in Projects THEN [NoMembership EXCEPT ![mem.anchor] = roles]
       ELSE NoMembership) \in Memberships
  BY UnusedType DEF Memberships, FirstRoles
<1>. QED
  BY <1>1, <1>2 DEF Created, IdentityRecords

-----------------------------------------------------------------------------
(* What each call does, with the types it keeps *)

\* The reconciliation ends with an error: the status keeps its ids, and its
\* condition or that of a failure.
Fails == pc' = Idle /\ OnlyStatus /\ OnlyFailure

LEMMA Failing ==
  ASSUME CRTypeOK, StepTypeOK, pc # Idle, NEW reason \in Reasons,
         CallFails(reason) \/ Refused(reason) \/ AnswerLost(NotReady(reason))
  PROVE  CRTypeOK' /\ StepTypeOK' /\ Fails
BY InProgress, ReturnErrorType DEF CallFails, Refused, AnswerLost, Fails

\* The reconciliation goes on with identity i, at home where it looked for it.
Acquires(i) ==
  /\ pc' = "read" /\ UNCHANGED crVars /\ SameRun(mem', mem)
  /\ mem'.status.identity = i /\ mem'.status.home = mem.anchor

LEMMA Acquiring ==
  ASSUME CRTypeOK, StepOK(pc, mem), pc \in Acting, NEW i \in IdentityIDs, UNCHANGED crVars,
         Continue("read", [mem EXCEPT !.status = Observed(i)])
  PROVE  CRTypeOK' /\ StepTypeOK' /\ Acquires(i)
<1> DEFINE n == [mem EXCEPT !.status = Observed(i)]
<1>1. mem \in Memories
  BY DEF StepOK
<1>2. SameRun(n, mem) /\ n.status = Observed(i) /\ n.todo = mem.todo
  BY <1>1, ObservedType, MemoryType
<1>3. Observed(i).identity = i /\ Observed(i).home = mem.anchor
  BY <1>1, ObservedType
<1>4. Continue("read", n)
  OBVIOUS
<1> HIDE DEF n
<1>5. StepOK("read", n)
  BY <1>2, <1>3 DEF StepOK, SameRun, Acting, Steps, Deleting, MembershipSteps
<1>. QED
  BY <1>2, <1>3, <1>4, <1>5, ContinueType, UnchangedTypes DEF Acquires, Continue

LEMMA AdoptEffect ==
  ASSUME CRTypeOK, StepTypeOK, Adopt
  PROVE  /\ CRTypeOK' /\ StepTypeOK' /\ UNCHANGED remote
         /\ \/ Fails
            \/ \E i \in Found(mem.spec, mem.anchor) : Acquires(i)
            \/ /\ Found(mem.spec, mem.anchor) = {}
               /\ pc' = "create" /\ mem' = mem /\ UNCHANGED crVars
<1>1. pc = "adopt" /\ pc # Idle /\ pc \in Acting /\ UNCHANGED remote
  BY DEF Adopt, Idle, Acting, Steps, Deleting, CallFails
<1>2. StepOK(pc, mem)
  BY <1>1, InProgress
<1>3. Found(mem.spec, mem.anchor) \subseteq IdentityIDs
  BY DEF Found
<1>4. CASE Refused("CreationNotAllowed") \/ CallFails("ExternalReadFailed")
  BY <1>1, <1>4, Failing DEF Reasons
<1>5. CASE /\ Found(mem.spec, mem.anchor) = {} /\ Continue("create", mem)
           /\ UNCHANGED crVars
  <2>1. StepOK("create", mem)
    BY <1>1, <1>2 DEF StepOK, Acting, Steps, Deleting, MembershipSteps
  <2>. QED
    BY <1>1, <1>5, <2>1, ContinueType, UnchangedTypes DEF Continue
<1>6. ASSUME NEW i \in Found(mem.spec, mem.anchor), UNCHANGED crVars,
             Continue("read", [mem EXCEPT !.status = Observed(i)])
      PROVE  CRTypeOK' /\ StepTypeOK' /\ Acquires(i)
  BY <1>1, <1>2, <1>3, <1>6, Acquiring
<1>. QED
  BY <1>1, <1>4, <1>5, <1>6 DEF Adopt

LEMMA CreateEffect ==
  ASSUME CRTypeOK, RemoteTypeOK, StepTypeOK, CreateIdentity
  PROVE  /\ CRTypeOK' /\ RemoteTypeOK' /\ StepTypeOK'
         /\ \/ Fails /\ UNCHANGED remote
            \/ \E i \in IdentityIDs, roles \in FirstRoles :
                 /\ remote[i].state = "Unused"
                 /\ remote' = [remote EXCEPT ![i] = Created(roles)]
                 /\ Acquires(i) \/ Fails
<1>1. pc = "create" /\ pc # Idle /\ pc \in Acting
  BY DEF CreateIdentity, Idle, Acting, Steps, Deleting
<1>2. StepOK(pc, mem)
  BY <1>1, InProgress
<1>3. CASE (Refused("ExternalCreateFailed") /\ UNCHANGED remote) \/ CallFails("ExternalCreateFailed")
  <2>1. CRTypeOK' /\ StepTypeOK' /\ Fails
    BY <1>1, <1>3, Failing DEF Reasons
  <2>. QED
    BY <1>3, <2>1, UnchangedTypes DEF CallFails
<1>4. ASSUME NEW i \in IdentityIDs, NEW roles \in FirstRoles, remote[i].state = "Unused",
             remote' = [remote EXCEPT ![i] = Created(roles)],
             \/ /\ Continue("read", [mem EXCEPT !.status = Observed(i)])
                /\ NoFault /\ UNCHANGED crVars
             \/ AnswerLost(NotReady("ExternalCreateFailed"))
      PROVE  CRTypeOK' /\ RemoteTypeOK' /\ StepTypeOK' /\ (Acquires(i) \/ Fails)
  <2>1. mem \in Memories /\ mem.anchor \in Homes
    BY <1>1, <1>2 DEF StepOK, HomesOf, Homes
  <2>2. RemoteTypeOK'
    BY <1>4, <2>1, CreatedType DEF RemoteTypeOK
  <2>3. CASE AnswerLost(NotReady("ExternalCreateFailed"))
    BY <1>1, <2>2, <2>3, Failing DEF Reasons
  <2>4. CASE Continue("read", [mem EXCEPT !.status = Observed(i)]) /\ UNCHANGED crVars
    BY <1>1, <1>2, <2>2, <2>4, Acquiring
  <2>. QED
    BY <1>4, <2>3, <2>4
<1>. QED
  BY <1>3, <1>4 DEF CreateIdentity

\* The memberships begin, or there is none.
Begins ==
  \/ NoMoreBindings(FirstMemory)
  \/ \E ref \in Managed(mem.spec) : StartsBinding(FirstMemory, ref)

LEMMA Beginning ==
  ASSUME CRTypeOK, WorldTypeOK, StepOK(pc, mem), pc \in Acting,
         mem.status.identity \in IdentityIDs, BeginMemberships
  PROVE  CRTypeOK' /\ StepTypeOK' /\ (Begins \/ Fails)
<1>1. NextBinding(FirstMemory)
  BY DEF BeginMemberships, FirstMemory
<1>2. StepOK("persist", FirstMemory) /\ FirstMemory.todo = Managed(mem.spec)
      /\ FirstMemory.status \in Statuses
  BY FirstMemoryType DEF StepOK, Memories
<1>3. CASE ReturnError(FirstMemory.status, NotReady("RoleMembershipReconcileFailed"))
  BY <1>2, <1>3, ReturnErrorType DEF Fails, Reasons
<1>. QED
  BY <1>1, <1>2, <1>3, NextBindingType DEF Begins

\* The recorded ids are given up, both at once.
Clears ==
  /\ pc' = Idle /\ OnlyStatus
  /\ api.exists => api'.status = MergePatch(api.status, mem.status, ClearedStatus)
  /\ ~api.exists => api'.status = api.status

LEMMA ClearedStatusType ==
  /\ ClearedStatus \in Statuses
  /\ ClearedStatus.identity = None /\ ClearedStatus.home = None
  /\ ClearedStatus.reason = NotReady("RemoteIdentityMissing")
BY ConditionType DEF ClearedStatus, NoStatus, Statuses, Reasons

LEMMA ReadEffect ==
  ASSUME CRTypeOK, StepTypeOK, WorldTypeOK, ReadIdentity
  PROVE  /\ CRTypeOK' /\ StepTypeOK' /\ UNCHANGED remote
         /\ \/ Fails
            \/ Clears /\ ~Reachable(mem.status.identity)
            \/ /\ Reachable(mem.status.identity) /\ OwnerMatches(mem.status.identity)
               /\ \/ pc' = "update" /\ mem' = mem /\ UNCHANGED crVars
                  \/ Begins /\ ~NeedsUpdate(mem.status.identity, mem.spec)
<1>1. /\ pc = "read" /\ pc # Idle /\ pc \in Acting /\ UNCHANGED remote
      /\ mem.status.identity \in IdentityIDs
  BY DEF ReadIdentity, Idle, Acting, Steps, Deleting, StepTypeOK, StepOK
<1>2. StepOK(pc, mem) /\ mem.status \in Statuses
  BY <1>1, InProgress
<1>3. CASE Refused("ExternalIdentityMismatch") \/ CallFails("ExternalReadFailed")
  BY <1>1, <1>3, Failing DEF Reasons
<1>4. CASE /\ ~Reachable(mem.status.identity)
           /\ PatchStatus(mem.status, ClearedStatus) /\ EndReconcile
  BY <1>1, <1>2, <1>4, ClearedStatusType, PatchStatusType, UnchangedTypes
  DEF Clears, EndReconcile
<1>5. CASE Continue("update", mem) /\ UNCHANGED crVars
  <2>1. StepOK("update", mem)
    BY <1>1, <1>2 DEF StepOK, Acting, Steps, Deleting, MembershipSteps
  <2>. QED
    BY <1>1, <1>3, <1>4, <1>5, <2>1, ContinueType, UnchangedTypes DEF ReadIdentity, Continue
<1>6. CASE BeginMemberships
  BY <1>1, <1>2, <1>3, <1>4, <1>5, <1>6, Beginning DEF ReadIdentity
<1>. QED
  BY <1>3, <1>4, <1>5, <1>6 DEF ReadIdentity

LEMMA UpdateEffect ==
  ASSUME CRTypeOK, RemoteTypeOK, StepTypeOK, WorldTypeOK, UpdateIdentity
  PROVE  /\ CRTypeOK' /\ RemoteTypeOK' /\ StepTypeOK'
         /\ \/ Fails /\ UNCHANGED remote
            \/ /\ Reachable(mem.status.identity)
               /\ Begins \/ Fails
               /\ remote' = [remote EXCEPT ![mem.status.identity].name = mem.spec.name,
                                           ![mem.status.identity].config = mem.spec.config]
<1> DEFINE i == mem.status.identity
<1>1. pc = "update" /\ pc # Idle /\ pc \in Acting /\ i \in IdentityIDs
  BY DEF UpdateIdentity, Idle, Acting, Steps, Deleting, StepTypeOK, StepOK
<1>2. StepOK(pc, mem) /\ mem.spec \in Specs
  BY <1>1, InProgress
<1>3. CASE (Refused("ExternalUpdateFailed") /\ UNCHANGED remote) \/ CallFails("ExternalUpdateFailed")
  <2>1. CRTypeOK' /\ StepTypeOK' /\ Fails
    BY <1>1, <1>3, Failing DEF Reasons
  <2>. QED
    BY <1>3, <2>1, UnchangedTypes DEF CallFails
<1>4. CASE /\ Reachable(i)
           /\ remote' = [remote EXCEPT ![i].name = mem.spec.name, ![i].config = mem.spec.config]
           /\ BeginMemberships \/ AnswerLost(NotReady("ExternalUpdateFailed"))
  <2>1. RemoteTypeOK'
    BY <1>1, <1>2, <1>4, SpecType DEF RemoteTypeOK, IdentityRecords
  <2>2. CRTypeOK' /\ StepTypeOK' /\ (Begins \/ Fails)
    BY <1>1, <1>2, <1>4, Beginning, Failing DEF Reasons
  <2>. QED
    BY <1>4, <2>1, <2>2
<1>. QED
  BY <1>3, <1>4 DEF UpdateIdentity

\* The status is written, with the Ready condition of the generation read.
ReadyStatus == [mem.status EXCEPT !.reason = ReadyFor(mem.generation)]
Persists ==
  /\ OnlyStatus
  /\ api.exists => api'.status = MergePatch(api.status, mem.before, ReadyStatus)
  /\ ~api.exists => api'.status = api.status

LEMMA PersistEffect ==
  ASSUME CRTypeOK, StepTypeOK, PersistReady
  PROVE  /\ CRTypeOK' /\ StepTypeOK' /\ UNCHANGED remote /\ pc' = Idle
         /\ ReadyStatus \in Statuses /\ ReadyStatus.reason = ReadyFor(mem.generation)
         /\ ReadyStatus.identity = mem.status.identity /\ ReadyStatus.home = mem.status.home
         /\ Persists \/ Fails
<1>1. pc # Idle /\ UNCHANGED remote /\ EndReconcile
  BY DEF PersistReady, Idle
<1>2. /\ mem.status \in Statuses /\ mem.before \in Statuses
      /\ ReadyFor(mem.generation) \in Conditions
  BY <1>1, InProgress, ConditionType
<1>3. /\ ReadyStatus \in Statuses /\ ReadyStatus.reason = ReadyFor(mem.generation)
      /\ ReadyStatus.identity = mem.status.identity /\ ReadyStatus.home = mem.status.home
  BY <1>2 DEF ReadyStatus, Statuses
<1>4. CASE PatchStatus(mem.before, ReadyStatus)
  BY <1>1, <1>2, <1>3, <1>4, PatchStatusType, UnchangedTypes DEF Persists, EndReconcile
<1>5. CASE UNCHANGED crVars
  BY <1>1, <1>3, <1>5, UnchangedTypes DEF Fails, OnlyStatus, OnlyFailure, SameIds, EndReconcile, crVars
<1>. QED
  BY <1>4, <1>5 DEF PersistReady, ReadyStatus

\* A membership is written as the binding declares it.
Grants ==
  /\ Present(mem.status.identity)
  /\ remote' = [remote EXCEPT ![mem.status.identity].membership[mem.project] = mem.roles]

\* One membership is done and the next begins, or there is none.
Reports ==
  \/ NoMoreBindings(ReportedMemory)
  \/ \E ref \in mem.todo : StartsBinding(ReportedMemory, ref)

LEMMA Reporting ==
  ASSUME CRTypeOK, WorldTypeOK, StepOK(pc, mem), pc \in MembershipSteps, Report
  PROVE  CRTypeOK' /\ StepTypeOK' /\ (Reports \/ Fails)
<1>1. NextBinding(ReportedMemory)
  BY DEF Report, ReportedMemory
<1>2. StepOK("persist", ReportedMemory) /\ ReportedMemory.todo = mem.todo
      /\ ReportedMemory.status \in Statuses
  BY ReportedMemoryType DEF StepOK, Memories
<1>3. CASE ReturnError(ReportedMemory.status, NotReady("RoleMembershipReconcileFailed"))
  BY <1>2, <1>3, ReturnErrorType DEF Fails, Reasons
<1>. QED
  BY <1>1, <1>2, <1>3, NextBindingType DEF Reports

\* Going on with the same membership.
LEMMA SameMembership ==
  ASSUME CRTypeOK, StepOK(pc, mem), pc \in MembershipSteps,
         NEW step \in MembershipSteps, Continue(step, mem), UNCHANGED crVars
  PROVE  CRTypeOK' /\ StepTypeOK' /\ pc' = step /\ mem' = mem
<1>1. StepOK(step, mem)
  BY DEF StepOK, Acting, Steps, Deleting, MembershipSteps
<1>. QED
  BY <1>1, ContinueType, UnchangedTypes DEF Continue

LEMMA MembershipEffect ==
  ASSUME CRTypeOK, RemoteTypeOK, StepTypeOK, WorldTypeOK, ReconcileMembership
  PROVE  /\ CRTypeOK' /\ RemoteTypeOK' /\ StepTypeOK' /\ pc \in MembershipSteps
         /\ \/ Fails /\ UNCHANGED remote
            \/ /\ pc \in {"readMembership", "readCreated"}
               /\ pc' \in {"createMembership", "updateMembership"}
               /\ mem' = mem /\ UNCHANGED <<crVars, remote>>
            \/ /\ pc \in {"readMembership", "readCreated"} /\ Held = mem.roles
               /\ Reports /\ UNCHANGED remote
            \/ /\ pc \in {"createMembership", "updateMembership"} /\ Grants
               /\ Fails \/ (/\ pc' \in {"readCreated", "readUpdated"}
                            /\ mem' = mem /\ UNCHANGED crVars)
            \/ pc = "readUpdated" /\ Held # None /\ Reports /\ UNCHANGED remote
<1>1. pc \in MembershipSteps
  BY DEF ReconcileMembership, ReadMembership, CreateMembership, ReadCreated, UpdateMembership,
         ReadUpdated, MembershipSteps
<1>2. pc # Idle
  BY <1>1 DEF MembershipSteps, Idle
<1>3. StepOK(pc, mem)
  BY <1>2, InProgress
<1>4. /\ mem \in Memories /\ mem.status.identity \in IdentityIDs
      /\ mem.project \in Projects /\ mem.roles \in RoleSets
      /\ {"createMembership", "updateMembership", "readCreated", "readUpdated"}
           \subseteq MembershipSteps
  BY <1>1, <1>3 DEF StepOK, MembershipSteps
<1>5. CASE MembershipFails \/ MembershipRefused
  <2>1. CRTypeOK' /\ StepTypeOK' /\ Fails
    BY <1>2, <1>5, Failing DEF MembershipFails, MembershipRefused, Reasons
  <2>. QED
    BY <1>1, <1>5, <2>1, UnchangedTypes DEF MembershipFails, MembershipRefused, CallFails
<1>6. ASSUME UNCHANGED remote, Report
      PROVE  CRTypeOK' /\ RemoteTypeOK' /\ StepTypeOK' /\ (Reports \/ Fails)
  BY <1>1, <1>3, <1>6, Reporting, UnchangedTypes
<1>7. CASE pc \in {"readMembership", "readCreated"} /\ Compare /\ UNCHANGED remote
  <2>1. CASE Held = mem.roles /\ Report
    BY <1>1, <1>6, <1>7, <2>1
  <2>2. CASE Continue("updateMembership", mem) /\ UNCHANGED crVars
    BY <1>1, <1>3, <1>4, <1>7, <2>2, SameMembership, UnchangedTypes
  <2>. QED
    BY <1>7, <2>1, <2>2 DEF Compare, RolesDiffer
<1>8. ASSUME NEW accepted \in BOOLEAN, NEW step \in {"readCreated", "readUpdated"},
             accepted => Present(mem.status.identity),
             pc \in {"createMembership", "updateMembership"}, WriteMembership(accepted, step)
      PROVE  /\ CRTypeOK' /\ RemoteTypeOK' /\ StepTypeOK'
             /\ \/ Fails /\ UNCHANGED remote
                \/ Grants /\ Fails
                \/ Grants /\ pc' = step /\ mem' = mem /\ UNCHANGED crVars
  <2>1. CASE Grants /\ (\/ Continue(step, mem) /\ UNCHANGED crVars
                        \/ AnswerLost(NotReady("RoleMembershipReconcileFailed")))
    <3>1. RemoteTypeOK'
      <4> DEFINE r == remote[mem.status.identity]
                 mm == [r.membership EXCEPT ![mem.project] = mem.roles]
      <4>1. mm \in Memberships /\ r \in IdentityRecords
        BY <1>4 DEF RemoteTypeOK, IdentityRecords, Memberships
      <4>2. [r EXCEPT !.membership = mm] \in IdentityRecords
        BY <4>1 DEF IdentityRecords
      <4>3. remote' = [remote EXCEPT ![mem.status.identity] = [r EXCEPT !.membership = mm]]
        BY <2>1 DEF Grants
      <4>. QED
        BY <4>2, <4>3 DEF RemoteTypeOK
    <3>2. CASE AnswerLost(NotReady("RoleMembershipReconcileFailed"))
      BY <1>2, <2>1, <3>1, <3>2, Failing DEF Reasons
    <3>3. CASE Continue(step, mem) /\ UNCHANGED crVars
      BY <1>1, <1>3, <1>4, <2>1, <3>1, <3>3, SameMembership
    <3>. QED
      BY <2>1, <3>2, <3>3
  <2>2. CASE MembershipFails \/ MembershipRefused
    <3>1. CRTypeOK' /\ StepTypeOK' /\ Fails
      BY <1>2, <2>2, Failing DEF MembershipFails, MembershipRefused, Reasons
    <3>. QED
      BY <2>2, <3>1, UnchangedTypes DEF MembershipFails, MembershipRefused, CallFails
  <2>. QED
    BY <1>8, <2>1, <2>2 DEF WriteMembership, Grants
<1>9. CASE ReadMembership
  <2>1. CASE Continue("createMembership", mem) /\ UNCHANGED <<crVars, remote>>
    BY <1>1, <1>3, <1>4, <1>9, <2>1, SameMembership, UnchangedTypes DEF ReadMembership
  <2>. QED
    BY <1>5, <1>7, <1>9, <2>1 DEF ReadMembership
<1>10. CASE ReadCreated
  BY <1>5, <1>7, <1>10 DEF ReadCreated
<1>11. CASE ReadUpdated
  BY <1>1, <1>3, <1>5, <1>6, <1>11, Reporting, UnchangedTypes DEF ReadUpdated
<1>12. CASE CreateMembership
  BY <1>1, <1>8, <1>12 DEF CreateMembership
<1>13. CASE UpdateMembership
  BY <1>1, <1>8, <1>13, ConstantsAssumption DEF UpdateMembership, Held
<1>. QED
  BY <1>9, <1>10, <1>11, <1>12, <1>13 DEF ReconcileMembership

\* The deletion of an identity, with its memberships.
LEMMA DeleteType ==
  ASSUME RemoteTypeOK, NEW i \in IdentityIDs, Delete(i)
  PROVE  /\ RemoteTypeOK' /\ remote'[i].state = "Deleted"
         /\ \A j \in IdentityIDs :
              /\ j # i => remote'[j] = remote[j]
              /\ remote'[j].home = remote[j].home /\ remote'[j].creator = remote[j].creator
              /\ remote'[j].name = remote[j].name
              /\ remote'[j].membership \in {remote[j].membership, NoMembership}
<1> DEFINE r == [remote[i] EXCEPT !.state = "Deleted", !.membership = NoMembership]
<1>1. r \in IdentityRecords /\ r.state = "Deleted" /\ r.membership = NoMembership
      /\ r.home = remote[i].home /\ r.creator = remote[i].creator /\ r.name = remote[i].name
  BY UnusedType DEF RemoteTypeOK, IdentityRecords
<1>2. remote' = [remote EXCEPT ![i] = r]
  BY DEF Delete
<1> HIDE DEF r
<1>. QED
  BY <1>1, <1>2 DEF RemoteTypeOK

\* The deletion calls: the identity is deleted, or found missing, before the
\* finalizer is removed.
LEMMA DeletionEffect ==
  ASSUME CRTypeOK, RemoteTypeOK, StepTypeOK, DeleteIdentity \/ DeleteFinalizer
  PROVE  /\ CRTypeOK' /\ RemoteTypeOK' /\ StepTypeOK'
         /\ api'.status = api.status /\ api'.generation = api.generation /\ api'.spec = api.spec
         /\ \/ pc' = Idle
            \/ pc = "deleteIdentity" /\ pc' = "deleteFinalizer" /\ mem' = mem
         /\ UNCHANGED crVars
            \/ (pc = "deleteFinalizer" /\ RemoveFinalizer(mem.current) /\ UNCHANGED remote)
         /\ UNCHANGED remote
            \/ (Addressed(mem.status.identity) /\ Delete(mem.status.identity))
         /\ pc' = "deleteFinalizer" =>
              \/ Delete(mem.status.identity)
              \/ ~Addressed(mem.status.identity)
<1>1. CASE DeleteIdentity
  <2>1. /\ pc = "deleteIdentity" /\ pc # Idle /\ pc \in Deleting /\ pc \notin Acting
        /\ pc \notin MembershipSteps
    BY <1>1 DEF DeleteIdentity, Idle, Deleting, Acting, MembershipSteps
  <2>2. StepOK(pc, mem) /\ mem.status.identity \in IdentityIDs
    BY <2>1, InProgress DEF StepOK
  <2>3. StepOK("deleteFinalizer", mem)
    BY <2>1, <2>2 DEF StepOK, Steps, Acting, Deleting, MembershipSteps
  <2>4. UNCHANGED crVars /\ CRTypeOK'
    BY <1>1, UnchangedTypes DEF DeleteIdentity
  <2>5. \/ UNCHANGED remote
        \/ Addressed(mem.status.identity) /\ Delete(mem.status.identity)
    BY <1>1 DEF DeleteIdentity
  <2>6. RemoteTypeOK'
    BY <2>2, <2>5, DeleteType, UnchangedTypes
  <2>7. \/ EndReconcile
        \/ Continue("deleteFinalizer", mem)
           /\ (IF Addressed(mem.status.identity) THEN Delete(mem.status.identity)
               ELSE UNCHANGED remote)
    BY <1>1 DEF DeleteIdentity
  <2>8. StepTypeOK'
    BY <2>3, <2>7, ContinueType, UnchangedTypes
  <2>. QED
    BY <2>1, <2>4, <2>5, <2>6, <2>7, <2>8 DEF crVars, EndReconcile, Continue, Idle
<1>2. CASE DeleteFinalizer
  BY <1>2, RemoveFinalizerType, UnchangedTypes DEF DeleteFinalizer, EndReconcile, Idle
<1>. QED
  BY <1>1, <1>2

\* A change of the resource by a user; the copy that is read becomes outdated.
LEMMA OutdateType ==
  ASSUME StepTypeOK, OutdateCopy, UNCHANGED pc
  PROVE  /\ StepTypeOK'
         /\ pc = Idle => mem' = mem
         /\ pc # Idle => /\ mem'.current = FALSE
                         /\ \A f \in DOMAIN mem \ {"current"} : mem'[f] = mem[f]
                         /\ DOMAIN mem = {"generation", "spec", "status", "before", "current",
                                          "anchor", "todo", "project", "roles"}
<1>1. CASE pc = Idle
  BY <1>1 DEF OutdateCopy, StepTypeOK, StepOK, Steps, Idle
<1>2. CASE pc # Idle
  <2>1. StepOK(pc, mem) /\ mem \in Memories
    BY <1>2, InProgress
  <2> DEFINE n == [mem EXCEPT !.current = FALSE]
  <2>2. /\ DOMAIN mem = {"generation", "spec", "status", "before", "current",
                         "anchor", "todo", "project", "roles"}
        /\ n \in Memories /\ n.current = FALSE
        /\ \A f \in DOMAIN mem \ {"current"} : n[f] = mem[f]
    BY <2>1, MemoryType DEF Memories
  <2>3. mem' = n
    BY <1>2 DEF OutdateCopy
  <2> HIDE DEF n
  <2>4. /\ n.status = mem.status /\ n.anchor = mem.anchor /\ n.spec = mem.spec
        /\ n.todo = mem.todo /\ n.project = mem.project /\ n.roles = mem.roles
    BY <2>2
  <2>5. StepOK(pc, n)
    BY <2>1, <2>2, <2>4 DEF StepOK
  <2>. QED
    BY <1>2, <2>2, <2>3, <2>5 DEF StepTypeOK
<1>. QED
  BY <1>1, <1>2

\* What users and administrators do, in their own words for each variable.
LEMMA EditType ==
  ASSUME Typed, EditSpec \/ DeleteResource
  PROVE  /\ Typed' /\ UNCHANGED <<remote, resolved, pc>> /\ OutdateCopy
         /\ api'.status = api.status /\ api'.spec.scope = api.spec.scope
         /\ \/ api'.generation = api.generation + 1
            \/ api'.generation = api.generation /\ api'.spec = api.spec
<1>1. /\ OutdateCopy /\ UNCHANGED <<remote, resolved, pc, faults>>
      /\ disturbances' = disturbances + 1 /\ disturbances < MaxDisturbances
  BY DEF EditSpec, DeleteResource, Disturb
<1>2. CRTypeOK /\ StepTypeOK /\ WorldTypeOK /\ RemoteTypeOK
  BY DEF Typed
<1>3. StepTypeOK' /\ RemoteTypeOK'
  BY <1>1, <1>2, OutdateType, UnchangedTypes
<1>4. CASE EditSpec
  <2>1. PICK s \in Specs \ {api.spec} :
          /\ s.scope = api.spec.scope
          /\ CR!Put([api EXCEPT !.spec = s, !.generation = @ + 1])
    BY <1>4 DEF EditSpec
  <2> DEFINE r == [api EXCEPT !.spec = s, !.generation = api.generation + 1]
  <2>2. CR!Put(r) /\ s \in Specs
    BY <2>1
  <2>3. api.generation \in Nat /\ api.generation + 1 \in Generations
    BY <1>1, <1>2, BoundsAssumption DEF CRTypeOK, Resources, Generations, WorldTypeOK
  <2>4. /\ r \in Resources /\ r.status = api.status /\ r.spec = s
        /\ r.generation = api.generation + 1
    BY <1>2, <2>2, <2>3 DEF CRTypeOK, Resources
  <2>5. api' = r
    BY <2>2 DEF CR!Put
  <2> HIDE DEF r
  <2>6. CRTypeOK'
    BY <1>2, <2>2, <2>4, PutType
  <2>7. WorldTypeOK'
    BY <1>1, <1>2, <2>3, <2>4, <2>5 DEF WorldTypeOK
  <2>. QED
    BY <1>1, <1>3, <2>1, <2>4, <2>5, <2>6, <2>7 DEF Typed
<1>5. CASE DeleteResource
  <2> DEFINE r == [api EXCEPT !.deleting = api.finalizer, !.exists = api.finalizer]
  <2>1. /\ r \in Resources /\ r.status = api.status /\ r.spec = api.spec
        /\ r.generation = api.generation
    BY <1>2 DEF CRTypeOK, Resources
  <2>2. CR!Put(r)
    BY <1>5 DEF DeleteResource
  <2>3. api' = r
    BY <2>2 DEF CR!Put
  <2> HIDE DEF r
  <2>4. CRTypeOK'
    BY <1>2, <2>1, <2>2, PutType
  <2>5. api.generation \in Nat
    BY <1>2, BoundsAssumption DEF CRTypeOK, Resources, Generations
  <2>6. WorldTypeOK'
    BY <1>1, <1>2, <2>1, <2>3, <2>5 DEF WorldTypeOK
  <2>. QED
    BY <1>1, <1>3, <2>1, <2>3, <2>4, <2>6 DEF Typed
<1>. QED
  BY <1>4, <1>5

\* What others do to the identities leaves the resource and the reconciliation
\* alone, and the names, owners and creators of the identities.
LEMMA RemoteOutsideType ==
  ASSUME Typed, RemoveOutside \/ ConfigureOutside \/ GrantOutside
  PROVE  /\ Typed' /\ UNCHANGED <<crVars, resolved, pc, mem>>
         /\ \A j \in IdentityIDs :
              /\ remote'[j].home = remote[j].home /\ remote'[j].creator = remote[j].creator
              /\ remote'[j].name = remote[j].name
              /\ remote'[j].state = remote[j].state
                 \/ (remote[j].state = "Present" /\ remote'[j].state = "Deleted")
<1>1. /\ UNCHANGED <<crVars, resolved, pc, mem, faults>> /\ disturbances' = disturbances + 1
  BY DEF RemoveOutside, ConfigureOutside, GrantOutside, Disturb
<1>2. CRTypeOK /\ StepTypeOK /\ WorldTypeOK /\ RemoteTypeOK
  BY DEF Typed
<1>3. CRTypeOK' /\ StepTypeOK'
  BY <1>1, <1>2, UnchangedTypes
<1>4. WorldTypeOK'
  <2>1. api.generation \in Nat /\ api' = api
    BY <1>1, <1>2, BoundsAssumption DEF CRTypeOK, Resources, Generations, crVars
  <2>. QED
    BY <1>1, <1>2, <2>1 DEF WorldTypeOK
<1>5. CASE RemoveOutside
  <2>1. PICK i \in IdentityIDs : Present(i) /\ Delete(i)
    BY <1>5 DEF RemoveOutside
  <2>. QED
    BY <1>1, <1>2, <1>3, <1>4, <2>1, DeleteType DEF Typed, Present
<1>6. CASE ConfigureOutside
  <2>1. PICK i \in IdentityIDs, g \in Configs : remote' = [remote EXCEPT ![i].config = g]
    BY <1>6 DEF ConfigureOutside
  <2> DEFINE r == [remote[i] EXCEPT !.config = g]
  <2>2. /\ r \in IdentityRecords /\ r.home = remote[i].home /\ r.creator = remote[i].creator
        /\ r.name = remote[i].name /\ r.state = remote[i].state
    BY <1>2 DEF RemoteTypeOK, IdentityRecords
  <2>3. remote' = [remote EXCEPT ![i] = r]
    BY <2>1
  <2> HIDE DEF r
  <2>. QED
    BY <1>1, <1>2, <1>3, <1>4, <2>2, <2>3 DEF Typed, RemoteTypeOK
<1>7. CASE GrantOutside
  <2>1. PICK i \in IdentityIDs, p \in Projects, roles \in {None, OtherRoles} :
          remote' = [remote EXCEPT ![i].membership[p] = roles]
    BY <1>7 DEF GrantOutside
  <2> DEFINE m == [remote[i].membership EXCEPT ![p] = roles]
             r == [remote[i] EXCEPT !.membership = m]
  <2>2. m \in Memberships
    BY <1>2 DEF RemoteTypeOK, IdentityRecords, Memberships
  <2>3. remote' = [remote EXCEPT ![i] = r]
    BY <2>1
  <2> HIDE DEF m
  <2>4. /\ r \in IdentityRecords /\ r.home = remote[i].home /\ r.creator = remote[i].creator
        /\ r.name = remote[i].name /\ r.state = remote[i].state
    BY <1>2, <2>2 DEF RemoteTypeOK, IdentityRecords
  <2> HIDE DEF r
  <2>. QED
    BY <1>1, <1>2, <1>3, <1>4, <2>3, <2>4 DEF Typed, RemoteTypeOK
<1>. QED
  BY <1>5, <1>6, <1>7

LEMMA DependencyType ==
  ASSUME Typed, ChangeDependency \/ RestoreDependency
  PROVE  Typed' /\ UNCHANGED <<crVars, remote, pc, mem>>
<1>1. /\ UNCHANGED <<crVars, remote, pc, mem, faults>>
      /\ disturbances' \in {disturbances, disturbances + 1}
      /\ \E d \in Dependencies : \E id \in Targets[d] \cup {None} :
           resolved' = [resolved EXCEPT ![d] = id]
  BY DEF ChangeDependency, RestoreDependency, Disturb
<1>2. CRTypeOK /\ StepTypeOK /\ WorldTypeOK /\ RemoteTypeOK
  BY DEF Typed
<1>3. api.generation \in Nat /\ api' = api
  BY <1>1, <1>2, BoundsAssumption DEF CRTypeOK, Resources, Generations, crVars
<1>4. disturbances' \in Nat /\ api'.generation <= disturbances'
  BY <1>1, <1>2, <1>3 DEF WorldTypeOK
<1>5. \A d \in Dependencies : resolved'[d] \in Targets[d] \cup {None}
  <2> SUFFICES ASSUME NEW d \in Dependencies PROVE resolved'[d] \in Targets[d] \cup {None}
    OBVIOUS
  <2>1. PICK e \in Dependencies : \E id \in Targets[e] \cup {None} :
           resolved' = [resolved EXCEPT ![e] = id]
    BY <1>1
  <2>2. resolved[d] \in Targets[d] \cup {None}
    BY <1>2 DEF WorldTypeOK
  <2>3. CASE resolved'[d] = resolved[d]
    BY <2>2, <2>3
  <2>4. CASE d = e /\ d \in DOMAIN resolved
    BY <2>1, <2>4
  <2>. QED
    BY <2>1, <2>3, <2>4
<1>. QED
  BY <1>1, <1>2, <1>4, <1>5, UnchangedTypes DEF Typed, WorldTypeOK

LEMMA DeliverType ==
  ASSUME Typed, DeliverResource
  PROVE  Typed' /\ UNCHANGED <<api, remote, resolved, pc, mem>>
<1>1. UNCHANGED <<api, remote, resolved, disturbances, pc, mem, faults>> /\ CR!Deliver
  BY DEF DeliverResource, CR!Deliver, envVars
<1>2. CRTypeOK'
  BY <1>1, HeadTailProperties DEF CR!Deliver, Typed, CRTypeOK
<1>. QED
  BY <1>1, <1>2, UnchangedTypes DEF Typed, WorldTypeOK

\* A reconciliation leaves the users' part of the world alone.
LEMMA ReconcileWorld ==
  ASSUME WorldTypeOK, Reconcile \/ Crash, api'.generation = api.generation
  PROVE  WorldTypeOK' /\ UNCHANGED resolved
<1>1. UNCHANGED envVars /\ (NoFault \/ (\E kind : Fault(kind)))
  <2>1. CASE EnsureFinalizer \/ BeginReconcile \/ BeginDeletion
    BY <2>1 DEF EnsureFinalizer, BeginReconcile, BeginDeletion, ReadCache
  <2>2. CASE Adopt \/ CreateIdentity
    BY <2>2 DEF Adopt, CreateIdentity, CallFails, Refused, AnswerLost
  <2>3. CASE ReadIdentity \/ UpdateIdentity
    BY <2>3 DEF ReadIdentity, UpdateIdentity, CallFails, Refused, AnswerLost
  <2>4. CASE ReconcileMembership
    BY <2>4 DEF ReconcileMembership, ReadMembership, CreateMembership, ReadCreated,
                UpdateMembership, ReadUpdated, WriteMembership, MembershipFails,
                MembershipRefused, CallFails, Refused, AnswerLost
  <2>5. CASE PersistReady \/ DeleteIdentity \/ DeleteFinalizer \/ Crash
    BY <2>5 DEF PersistReady, DeleteIdentity, DeleteFinalizer, Crash, NoFault
  <2>. QED
    BY <2>1, <2>2, <2>3, <2>4, <2>5 DEF Reconcile
<1>. QED
  BY <1>1 DEF WorldTypeOK, envVars, NoFault, Fault

\* The generation is only changed by users.
LEMMA StatusWritten ==
  ASSUME CRTypeOK, OnlyStatus \/ UNCHANGED crVars
  PROVE  api'.generation = api.generation /\ api'.spec = api.spec
BY DEF OnlyStatus, crVars

LEMMA GoesOn ==
  ASSUME \/ Fails \/ Clears \/ Persists \/ Begins \/ Reports
         \/ \E i : Acquires(i)
  PROVE  OnlyStatus \/ UNCHANGED crVars
BY DEF Fails, Clears, Persists, Begins, Reports, Acquires, NoMoreBindings, StartsBinding

\* The actions between the first and the last step of a reconciliation.
LEMMA ReconcileTyped ==
  ASSUME Typed, Reconcile \/ Crash
  PROVE  Typed' /\ api'.spec = api.spec /\ UNCHANGED resolved
<1>1. CRTypeOK /\ StepTypeOK /\ WorldTypeOK /\ RemoteTypeOK
  BY DEF Typed
<1>2. /\ CRTypeOK' /\ RemoteTypeOK' /\ StepTypeOK'
      /\ api'.generation = api.generation /\ api'.spec = api.spec
  <2>1. CASE EnsureFinalizer \/ BeginReconcile \/ BeginDeletion
    BY <1>1, <2>1, BeginType, UnchangedTypes
  <2>2. CASE Adopt
    BY <1>1, <2>2, AdoptEffect, GoesOn, StatusWritten, UnchangedTypes
  <2>3. CASE CreateIdentity
    BY <1>1, <2>3, CreateEffect, GoesOn, StatusWritten
  <2>4. CASE ReadIdentity
    BY <1>1, <2>4, ReadEffect, GoesOn, StatusWritten, UnchangedTypes
  <2>5. CASE UpdateIdentity
    BY <1>1, <2>5, UpdateEffect, GoesOn, StatusWritten
  <2>6. CASE ReconcileMembership
    BY <1>1, <2>6, MembershipEffect, GoesOn, StatusWritten
  <2>7. CASE PersistReady
    BY <1>1, <2>7, PersistEffect, GoesOn, StatusWritten, UnchangedTypes
  <2>8. CASE DeleteIdentity \/ DeleteFinalizer
    BY <1>1, <2>8, DeletionEffect
  <2>9. CASE Crash
    BY <1>1, <2>9, UnchangedTypes DEF Crash, crVars
  <2>. QED
    BY <2>1, <2>2, <2>3, <2>4, <2>5, <2>6, <2>7, <2>8, <2>9 DEF Reconcile
<1>. QED
  BY <1>1, <1>2, ReconcileWorld DEF Typed

LEMMA TypedStep == Typed /\ [Next]_vars => Typed'
<1> SUFFICES ASSUME Typed, [Next]_vars PROVE Typed'
  OBVIOUS
<1>1. CASE UNCHANGED vars
  BY <1>1, UnchangedTypes DEF vars, envVars, crVars, Typed, WorldTypeOK
<1>2. CASE Next
  BY <1>2, ReconcileTyped, DeliverType, EditType, RemoteOutsideType, DependencyType
  DEF Next, Outside
<1>. QED
  BY <1>1, <1>2

LEMMA TypedHolds == Spec => []Typed
BY InitType, TypedStep, PTL DEF Spec

\* The type invariant of the Identity controller.
THEOREM TypeCorrect == Spec => []TypeOK
<1>1. Typed => TypeOK
  BY DEF Typed, TypeOK, CRTypeOK, RemoteTypeOK, StepTypeOK, StepOK, WorldTypeOK
<1>. QED
  BY <1>1, TypedHolds, PTL

-----------------------------------------------------------------------------
(* Steps *)

LEMMA ResourceSteps ==
  ASSUME [Next]_vars
  PROVE  UNCHANGED crVars \/ (\E r : CR!Put(r)) \/ CR!Deliver
<1>1. CASE EnsureFinalizer \/ BeginReconcile \/ BeginDeletion
  BY <1>1, WritesBack DEF EnsureFinalizer, BeginReconcile, BeginDeletion
<1>2. CASE Adopt \/ CreateIdentity
  BY <1>2, WritesBack DEF Adopt, CreateIdentity, CallFails, Refused, AnswerLost
<1>3. ASSUME NEW m, NextBinding(m) PROVE UNCHANGED crVars \/ (\E r : CR!Put(r))
  BY <1>3, WritesBack DEF NextBinding
<1>4. CASE ReadIdentity \/ UpdateIdentity
  <2>1. BeginMemberships => UNCHANGED crVars \/ (\E r : CR!Put(r))
    BY <1>3 DEF BeginMemberships
  <2>. QED
    BY <1>4, <2>1, WritesBack DEF ReadIdentity, UpdateIdentity, CallFails, Refused, AnswerLost
<1>5. CASE ReconcileMembership
  <2>1. Report => UNCHANGED crVars \/ (\E r : CR!Put(r))
    BY <1>3 DEF Report
  <2>2. Compare => UNCHANGED crVars \/ (\E r : CR!Put(r))
    BY <2>1 DEF Compare
  <2>. QED
    BY <1>5, <2>1, <2>2, WritesBack
    DEF ReconcileMembership, ReadMembership, CreateMembership, ReadCreated, UpdateMembership,
        ReadUpdated, WriteMembership, MembershipFails, MembershipRefused, CallFails, Refused,
        AnswerLost
<1>6. CASE PersistReady \/ DeleteIdentity \/ DeleteFinalizer
  BY <1>6, WritesBack DEF PersistReady, DeleteIdentity, DeleteFinalizer
<1>7. CASE ~Reconcile /\ Next
  BY <1>7
  DEF Next, Crash, DeliverResource, Outside, EditSpec, DeleteResource, RemoveOutside,
      ConfigureOutside, GrantOutside, ChangeDependency, RestoreDependency
<1>. QED
  BY <1>1, <1>2, <1>4, <1>5, <1>6, <1>7 DEF Reconcile, vars

\* An identity keeps its owner and its creator, is not brought back once it was
\* deleted, and its id is not used again.
KeepsIdentity(i) ==
  remote[i].state # "Unused" =>
    /\ remote'[i].state # "Unused"
    /\ remote[i].state = "Deleted" => remote'[i].state = "Deleted"
    /\ remote'[i].home = remote[i].home /\ remote'[i].creator = remote[i].creator
IdentitiesKept == \A i \in IdentityIDs : KeepsIdentity(i)

LEMMA IdentitySteps ==
  ASSUME Typed, [Next]_vars
  PROVE  IdentitiesKept
<1>1. UNCHANGED remote => IdentitiesKept
  BY DEF IdentitiesKept, KeepsIdentity
<1>2. CRTypeOK /\ StepTypeOK /\ WorldTypeOK /\ RemoteTypeOK
  BY DEF Typed
<1>3. CASE CreateIdentity
  BY <1>1, <1>2, <1>3, CreateEffect DEF RemoteTypeOK, IdentitiesKept, KeepsIdentity
<1>4. CASE UpdateIdentity
  <2>1. CASE remote' = [remote EXCEPT ![mem.status.identity].name = mem.spec.name,
                                      ![mem.status.identity].config = mem.spec.config]
    BY <1>2, <2>1 DEF RemoteTypeOK, IdentityRecords, IdentitiesKept, KeepsIdentity
  <2>. QED
    BY <1>1, <1>2, <1>4, <2>1, UpdateEffect
<1>5. CASE ReconcileMembership
  <2>1. CASE Grants
    BY <1>2, <2>1 DEF Grants, RemoteTypeOK, IdentityRecords, IdentitiesKept, KeepsIdentity
  <2>. QED
    BY <1>1, <1>2, <1>5, <2>1, MembershipEffect
<1>6. ASSUME NEW i \in IdentityIDs, Delete(i) PROVE IdentitiesKept
  BY <1>2, <1>6, DeleteType DEF IdentitiesKept, KeepsIdentity
<1>7. CASE DeleteIdentity \/ DeleteFinalizer
  <2>1. mem.status.identity \in IdentityIDs \/ UNCHANGED remote
    BY <1>2, <1>7, InProgress DEF DeleteIdentity, DeleteFinalizer, StepOK, Idle
  <2>. QED
    BY <1>1, <1>2, <1>6, <1>7, <2>1, DeletionEffect
<1>8. CASE RemoveOutside \/ ConfigureOutside \/ GrantOutside
  BY <1>8, RemoteOutsideType DEF IdentitiesKept, KeepsIdentity
<1>9. CASE \/ EnsureFinalizer \/ BeginReconcile \/ BeginDeletion \/ Adopt \/ ReadIdentity
           \/ PersistReady \/ Crash \/ DeliverResource \/ EditSpec \/ DeleteResource
           \/ ChangeDependency \/ RestoreDependency \/ UNCHANGED vars
  BY <1>1, <1>9
  DEF EnsureFinalizer, BeginReconcile, BeginDeletion, Adopt, ReadIdentity, PersistReady, Crash,
      DeliverResource, EditSpec, DeleteResource, ChangeDependency, RestoreDependency, vars
<1>. QED
  BY <1>3, <1>4, <1>5, <1>7, <1>8, <1>9 DEF Next, Reconcile, Outside

-----------------------------------------------------------------------------
(* The recorded ids belong together *)

\* A status records no identity, or one that was made and its owner.
AtHome(r, status) ==
  IF status.identity = None THEN status.home = None
  ELSE /\ status.home # None /\ r[status.identity].state # "Unused"
       /\ r[status.identity].home = status.home
SamePair(s, t) == s.identity = t.identity /\ s.home = t.home

\* The resources whose status does.
Recorded(r) == {x \in Resources : AtHome(r, x.status)}

\* The steps that work on an identity which is known to be at home.
Owning == {"update", "persist"} \cup MembershipSteps

\* What a reconciliation remembers: the pair it read and the pair it works with,
\* which are the same unless it read none.
RemembersPairs(r, step, m) ==
  /\ AtHome(r, m.status) /\ AtHome(r, m.before)
  /\ m.before.identity # None => SamePair(m.before, m.status)
  /\ step \in {"adopt", "create"} => m.before.identity = None
  /\ step \in Owning => m.status.home = m.anchor

RecordInvariant ==
  /\ api \in Recorded(remote) /\ cache \in Recorded(remote)
  /\ undelivered \in Seq(Recorded(remote))
  /\ pc # Idle => RemembersPairs(remote, pc, mem)

\* What is at home stays there.
LEMMA HomeKept ==
  ASSUME IdentitiesKept
  PROVE  /\ \A status \in Statuses : AtHome(remote, status) => AtHome(remote', status)
         /\ Recorded(remote) \subseteq Recorded(remote')
         /\ undelivered \in Seq(Recorded(remote)) => undelivered \in Seq(Recorded(remote'))
<1>1. ASSUME NEW status \in Statuses, AtHome(remote, status) PROVE AtHome(remote', status)
  BY <1>1 DEF IdentitiesKept, KeepsIdentity, AtHome, Statuses
<1>2. Recorded(remote) \subseteq Recorded(remote')
  BY <1>1 DEF Recorded, Resources
<1>. QED
  BY <1>1, <1>2

\* A patch that sends both ids or neither leaves a pair.
LEMMA PairPatched ==
  ASSUME NEW r, NEW stored \in Statuses, NEW before \in Statuses, NEW after \in Statuses,
         AtHome(r, stored), AtHome(r, before), AtHome(r, after),
         before.identity # None => SamePair(before, after) \/ after.identity = None
  PROVE  AtHome(r, MergePatch(stored, before, after))
<1>1. /\ MergePatch(stored, before, after).identity =
           IF before.identity = after.identity THEN stored.identity ELSE after.identity
      /\ MergePatch(stored, before, after).home =
           IF before.home = after.home THEN stored.home ELSE after.home
  BY MergePatchType
<1>. QED
  BY <1>1 DEF AtHome, SamePair

\* Each action leaves a recorded pair or none in the stored status.
LEMMA StatusStaysPaired ==
  ASSUME Typed, RecordInvariant, [Next]_vars
  PROVE  AtHome(remote', api'.status)
<1>1. CRTypeOK /\ StepTypeOK /\ WorldTypeOK /\ RemoteTypeOK
  BY DEF Typed
<1>2. api.status \in Statuses /\ AtHome(remote, api.status)
  BY <1>1 DEF CRTypeOK, Resources, RecordInvariant, Recorded
<1>3. \A status \in Statuses : AtHome(remote, status) => AtHome(remote', status)
  BY IdentitySteps, HomeKept
<1>4. OnlyFailure \/ UNCHANGED api \/ UNCHANGED crVars \/ api'.status = api.status
        => AtHome(remote', api'.status)
  BY <1>2, <1>3 DEF OnlyFailure, SameIds, crVars, AtHome
<1>5. Fails \/ Begins \/ Reports \/ (\E i : Acquires(i)) => AtHome(remote', api'.status)
  BY <1>4 DEF Fails, Begins, Reports, Acquires, NoMoreBindings, StartsBinding
<1>6. CASE EnsureFinalizer \/ BeginReconcile \/ BeginDeletion
  BY <1>1, <1>4, <1>6, BeginType DEF Starts
<1>7. CASE Adopt
  BY <1>1, <1>4, <1>5, <1>7, AdoptEffect
<1>8. CASE CreateIdentity
  BY <1>1, <1>5, <1>8, CreateEffect
<1>9. CASE ReadIdentity
  <2>1. CASE Clears /\ api.exists
    <3>1. pc # Idle
      BY <1>9 DEF ReadIdentity, Idle
    <3>2. mem.status \in Statuses /\ AtHome(remote, mem.status) /\ mem.status.identity # None
          /\ UNCHANGED remote
      BY <1>1, <1>9, <3>1, InProgress, ConstantsAssumption
      DEF RecordInvariant, RemembersPairs, StepOK, ReadIdentity
    <3>3. AtHome(remote, ClearedStatus)
      BY ClearedStatusType DEF AtHome
    <3>4. AtHome(remote, MergePatch(api.status, mem.status, ClearedStatus))
      BY <1>2, <3>2, <3>3, ClearedStatusType, PairPatched
    <3>. QED
      BY <2>1, <3>2, <3>4 DEF Clears
  <2>2. CASE Clears /\ ~api.exists
    BY <1>4, <2>2 DEF Clears
  <2>. QED
    BY <1>1, <1>4, <1>5, <1>9, <2>1, <2>2, ReadEffect
<1>10. CASE UpdateIdentity
  BY <1>1, <1>5, <1>10, UpdateEffect
<1>11. CASE ReconcileMembership
  BY <1>1, <1>4, <1>5, <1>11, MembershipEffect
<1>12. CASE PersistReady
  <2>1. CASE Persists /\ api.exists
    <3>1. pc # Idle /\ mem.before \in Statuses /\ UNCHANGED remote
      BY <1>1, <1>12, InProgress DEF PersistReady, Idle
    <3>2. RemembersPairs(remote, pc, mem)
      BY <3>1 DEF RecordInvariant
    <3>3. ReadyStatus \in Statuses /\ SamePair(mem.status, ReadyStatus)
      BY <1>1, <1>12, PersistEffect DEF SamePair
    <3>4. /\ AtHome(remote, mem.before) /\ AtHome(remote, ReadyStatus)
          /\ mem.before.identity # None => SamePair(mem.before, ReadyStatus)
      BY <3>2, <3>3 DEF RemembersPairs, AtHome, SamePair
    <3>5. AtHome(remote, MergePatch(api.status, mem.before, ReadyStatus))
      BY <1>2, <3>1, <3>3, <3>4, PairPatched
    <3>. QED
      BY <2>1, <3>1, <3>5 DEF Persists
  <2>2. CASE Persists /\ ~api.exists
    BY <1>4, <2>2 DEF Persists
  <2>. QED
    BY <1>1, <1>5, <1>12, <2>1, <2>2, PersistEffect
<1>13. CASE DeleteIdentity \/ DeleteFinalizer
  BY <1>1, <1>4, <1>13, DeletionEffect
<1>14. CASE Outside
  BY <1>4, <1>14, EditType, RemoteOutsideType, DependencyType DEF Outside
<1>15. CASE Crash \/ DeliverResource \/ UNCHANGED vars
  BY <1>4, <1>15 DEF Crash, DeliverResource, CR!Deliver, vars
<1>. QED
  BY <1>6, <1>7, <1>8, <1>9, <1>10, <1>11, <1>12, <1>13, <1>14, <1>15 DEF Next, Reconcile

\* The same of the memory.  First what its successors have in common.
LEMMA SameMemory ==
  ASSUME NEW r, NEW step, NEW m, NEW next, NEW n, RemembersPairs(r, step, m),
         SameRun(n, m), SamePair(n.status, m.status),
         next \notin {"adopt", "create"}, next \in Owning => m.status.home = m.anchor
  PROVE  RemembersPairs(r, next, n)
BY DEF RemembersPairs, SameRun, SamePair, AtHome

LEMMA MemoryStaysPaired ==
  ASSUME Typed, RecordInvariant, [Next]_vars, pc' # Idle
  PROVE  RemembersPairs(remote', pc', mem')
<1>1. CRTypeOK /\ StepTypeOK /\ WorldTypeOK /\ RemoteTypeOK
  BY DEF Typed
<1>2. \A status \in Statuses : AtHome(remote, status) => AtHome(remote', status)
  BY IdentitySteps, HomeKept
<1>3. cache.status \in Statuses /\ AtHome(remote, cache.status)
  BY <1>1 DEF CRTypeOK, Resources, RecordInvariant, Recorded
<1>4. ASSUME pc # Idle
      PROVE  /\ mem \in Memories /\ StepOK(pc, mem)
             /\ RemembersPairs(remote, pc, mem) /\ RemembersPairs(remote', pc, mem)
  BY <1>1, <1>2, <1>4, InProgress DEF RecordInvariant, RemembersPairs
<1>5. ~Fails /\ ~Clears
  BY DEF Fails, Clears
<1>6. CASE EnsureFinalizer \/ BeginReconcile \/ BeginDeletion
  <2>1. \/ pc' = "deleteIdentity"
        \/ /\ pc' = FirstStep(cache)
           /\ pc' \in {"read", "adopt", "create"}
           /\ pc' # "read" => cache.status.identity = None
    BY <1>1, <1>6, BeginType DEF Starts, FirstStep
  <2>2. mem' = Loaded
    BY <1>1, <1>6, BeginType DEF Starts
  <2>3. Loaded.status = cache.status /\ Loaded.before = cache.status
    BY <1>1, LoadedType
  <2>. QED
    BY <1>2, <1>3, <2>1, <2>2, <2>3 DEF RemembersPairs, SamePair, Owning, MembershipSteps
<1>7. ASSUME NEW i \in IdentityIDs, Acquires(i), pc \in {"adopt", "create"},
             remote'[i].state # "Unused", remote'[i].home = mem.anchor
      PROVE  RemembersPairs(remote', pc', mem')
  <2>1. pc # Idle /\ pc \in Acting
    BY <1>7 DEF Idle, Acting, Steps, Deleting
  <2>2. mem.anchor \in Homes
    BY <1>4, <2>1 DEF StepOK, HomesOf, Homes
  <2>3. AtHome(remote', mem'.status)
    BY <1>7, <2>2, ConstantsAssumption DEF Acquires, AtHome, Homes
  <2>. QED
    BY <1>4, <1>7, <2>1, <2>3
    DEF Acquires, RemembersPairs, SameRun, Owning, MembershipSteps
<1>8. CASE Adopt
  <2>1. CASE pc' = "create" /\ mem' = mem
    BY <1>4, <1>8, <2>1 DEF Adopt, Idle, RemembersPairs, Owning, MembershipSteps
  <2>2. CASE \E i \in Found(mem.spec, mem.anchor) : Acquires(i)
    <3>1. pc = "adopt" /\ UNCHANGED remote
      BY <1>8 DEF Adopt
    <3>. QED
      BY <1>7, <2>2, <3>1 DEF Found, Present
  <2>. QED
    BY <1>1, <1>5, <1>8, <2>1, <2>2, AdoptEffect
<1>9. CASE CreateIdentity
  <2>1. pc = "create" /\ pc # Idle /\ pc \in Acting
    BY <1>9 DEF CreateIdentity, Idle, Acting, Steps, Deleting
  <2>2. mem \in Memories /\ mem.anchor \in Homes
    BY <1>4, <2>1 DEF StepOK, HomesOf, Homes
  <2>3. PICK i \in IdentityIDs, roles \in FirstRoles :
          remote' = [remote EXCEPT ![i] = Created(roles)] /\ Acquires(i)
    BY <1>1, <1>5, <1>9, CreateEffect
  <2>4. remote'[i] = Created(roles)
    BY <1>1, <2>3 DEF RemoteTypeOK
  <2>. QED
    BY <1>7, <2>1, <2>2, <2>3, <2>4, CreatedType
<1>10. ASSUME Begins, pc \in {"read", "update"}, mem.status.home = mem.anchor
       PROVE  RemembersPairs(remote', pc', mem')
  <2>1. pc # Idle /\ pc \in Acting /\ pc \notin {"adopt", "create"}
    BY <1>10 DEF Idle, Acting, Steps, Deleting
  <2>2. StepOK(pc, mem) /\ mem.status.identity \in IdentityIDs
    BY <1>4, <2>1 DEF StepOK
  <2>3. /\ SameRun(FirstMemory, mem) /\ SamePair(FirstMemory.status, mem.status)
    BY <1>10, <2>1, <2>2, FirstMemoryType DEF SamePair
  <2>4. /\ pc' \in {"persist", "readMembership"} /\ SameRun(mem', FirstMemory)
        /\ mem'.status = FirstMemory.status
    BY <1>10 DEF Begins, NoMoreBindings, StartsBinding
  <2>5. SameRun(mem', mem) /\ SamePair(mem'.status, mem.status)
    BY <2>3, <2>4 DEF SameRun
  <2>. QED
    BY <1>4, <1>10, <2>1, <2>4, <2>5, SameMemory
<1>11. CASE ReadIdentity
  <2>1. pc = "read" /\ pc # Idle
    BY <1>11 DEF ReadIdentity, Idle
  <2>2. /\ OwnerMatches(mem.status.identity)
        /\ Begins \/ (pc' = "update" /\ mem' = mem)
    BY <1>1, <1>5, <1>11, ReadEffect
  <2>3. mem.status.home = mem.anchor
    BY <1>4, <2>1, <2>2, ConstantsAssumption DEF OwnerMatches, RemembersPairs, AtHome, StepOK
  <2>. QED
    BY <1>4, <1>10, <2>1, <2>2, <2>3 DEF RemembersPairs
<1>12. CASE UpdateIdentity
  <2>1. pc = "update" /\ pc # Idle /\ pc \in Owning
    BY <1>12 DEF UpdateIdentity, Idle, Owning
  <2>2. mem.status.home = mem.anchor
    BY <1>4, <2>1 DEF RemembersPairs
  <2>. QED
    BY <1>1, <1>5, <1>10, <1>12, <2>1, <2>2, UpdateEffect
<1>13. CASE ReconcileMembership
  <2>1. pc \in MembershipSteps /\ pc # Idle /\ pc \in Owning
    BY <1>1, <1>13, MembershipEffect DEF MembershipSteps, Idle, Owning
  <2>2. mem.status.home = mem.anchor
    BY <1>4, <2>1 DEF RemembersPairs
  <2>3. CASE Reports
    <3>1. SameRun(ReportedMemory, mem) /\ SamePair(ReportedMemory.status, mem.status)
      BY <1>4, <2>1, ReportedMemoryType DEF SamePair
    <3>2. /\ pc' \in {"persist", "readMembership"} /\ SameRun(mem', ReportedMemory)
          /\ mem'.status = ReportedMemory.status
      BY <2>3 DEF Reports, NoMoreBindings, StartsBinding
    <3>3. SameRun(mem', mem) /\ SamePair(mem'.status, mem.status)
      BY <3>1, <3>2 DEF SameRun
    <3>. QED
      BY <1>4, <2>1, <2>2, <3>2, <3>3, SameMemory
  <2>4. CASE mem' = mem /\ pc' \in {"createMembership", "updateMembership", "readCreated",
                                    "readUpdated"}
    BY <1>4, <2>1, <2>2, <2>4 DEF RemembersPairs
  <2>. QED
    BY <1>1, <1>5, <1>13, <2>3, <2>4, MembershipEffect
<1>14. CASE DeleteIdentity \/ DeleteFinalizer
  <2>1. pc # Idle /\ pc' = "deleteFinalizer" /\ mem' = mem
    BY <1>1, <1>14, DeletionEffect DEF Idle
  <2>. QED
    BY <1>4, <2>1 DEF RemembersPairs, Owning, MembershipSteps
<1>15. CASE EditSpec \/ DeleteResource
  <2>1. pc' = pc /\ OutdateCopy /\ UNCHANGED pc
    BY <1>15, EditType
  <2>2. /\ mem'.status = mem.status /\ mem'.before = mem.before /\ mem'.anchor = mem.anchor
    BY <1>1, <2>1, OutdateType
  <2>. QED
    BY <1>4, <2>1, <2>2 DEF RemembersPairs
<1>16. CASE \/ RemoveOutside \/ ConfigureOutside \/ GrantOutside \/ ChangeDependency
            \/ RestoreDependency \/ DeliverResource \/ UNCHANGED vars
  <2>1. pc' = pc /\ mem' = mem
    BY <1>16, RemoteOutsideType, DependencyType, DeliverType DEF vars
  <2>. QED
    BY <1>4, <2>1
<1>17. ~PersistReady /\ ~Crash
  BY DEF PersistReady, Crash, EndReconcile
<1>. QED
  BY <1>6, <1>8, <1>9, <1>11, <1>12, <1>13, <1>14, <1>15, <1>16, <1>17
  DEF Next, Reconcile, Outside

LEMMA RecordStep == Typed /\ RecordInvariant /\ [Next]_vars => RecordInvariant'
<1> SUFFICES ASSUME Typed, RecordInvariant, [Next]_vars PROVE RecordInvariant'
  OBVIOUS
<1>1. api' \in Recorded(remote')
  <2>1. api' \in Resources
    BY TypedStep DEF Typed, CRTypeOK
  <2>. QED
    BY <2>1, StatusStaysPaired DEF Recorded
<1>2. cache \in Recorded(remote') /\ undelivered \in Seq(Recorded(remote'))
  BY IdentitySteps, HomeKept DEF RecordInvariant
<1>3. cache' \in Recorded(remote') /\ undelivered' \in Seq(Recorded(remote'))
  BY <1>1, <1>2, ResourceSteps, CopiesStep
<1>. QED
  BY <1>1, <1>3, MemoryStaysPaired DEF RecordInvariant

LEMMA RecordHolds == Spec => []RecordInvariant
<1>1. ASSUME Init PROVE RecordInvariant
  <2>1. PICK s \in Specs :
          api = [exists |-> TRUE, deleting |-> FALSE, finalizer |-> FALSE,
                 generation |-> 0, spec |-> s, status |-> NoStatus]
    BY <1>1 DEF Init
  <2>2. api.status.identity = None /\ api.status.home = None
    BY <2>1 DEF NoStatus
  <2>3. api \in Resources
    BY <1>1, InitType DEF Typed, CRTypeOK
  <2>4. api \in Recorded(remote)
    BY <2>2, <2>3 DEF Recorded, AtHome
  <2>5. cache = api /\ undelivered = <<>> /\ pc = Idle
    BY <1>1 DEF Init
  <2>. QED
    BY <2>4, <2>5 DEF RecordInvariant
<1>. QED
  BY <1>1, RecordStep, TypedHolds, PTL DEF Spec

\* The recorded project or organization owns the recorded identity, whichever
\* reconciliations patched the status and however old the copies were that they
\* read.
THEOREM RecordsSafe == Spec => []RecordedAtHome
<1>1. RecordInvariant => RecordedAtHome
  BY DEF RecordInvariant, Recorded, AtHome, RecordedAtHome
<1>. QED
  BY <1>1, RecordHolds, PTL

-----------------------------------------------------------------------------
(* Deletion deletes the recorded identity *)

\* A reconciliation that goes on has written nothing to its resource.
LEMMA RunGoesOn ==
  ASSUME Typed, Reconcile, pc' # Idle
  PROVE  /\ UNCHANGED crVars
         /\ \/ pc = Idle /\ mem' = Loaded /\ pc' # "deleteFinalizer"
            \/ pc # Idle /\ SameRun(mem', mem) /\ pc \notin Deleting /\ pc' \notin Deleting
            \/ DeleteIdentity /\ pc # Idle /\ pc' = "deleteFinalizer" /\ mem' = mem
<1>1. CRTypeOK /\ StepTypeOK /\ WorldTypeOK /\ RemoteTypeOK
  BY DEF Typed
<1>2. ~Fails /\ ~Clears
  BY DEF Fails, Clears
<1>3. pc # Idle => mem \in Memories /\ StepOK(pc, mem) /\ SameRun(mem, mem)
  BY <1>1, InProgress DEF SameRun
<1>4. CASE EnsureFinalizer \/ BeginReconcile \/ BeginDeletion
  BY <1>1, <1>4, BeginType DEF Starts, FirstStep
<1>5. CASE Adopt \/ CreateIdentity
  <2>1. pc # Idle /\ pc \notin Deleting
    BY <1>5 DEF Adopt, CreateIdentity, Idle, Deleting
  <2>2. \/ \E i : Acquires(i)
        \/ pc' = "create" /\ mem' = mem /\ UNCHANGED crVars
    BY <1>1, <1>2, <1>5, AdoptEffect, CreateEffect
  <2>. QED
    BY <1>3, <2>1, <2>2 DEF Acquires, Deleting
<1>6. ASSUME NEW m, SameRun(m, mem), NEW refs,
             \/ NoMoreBindings(m)
             \/ \E ref \in refs : StartsBinding(m, ref)
      PROVE  UNCHANGED crVars /\ SameRun(mem', mem) /\ pc' \notin Deleting
  BY <1>6 DEF NoMoreBindings, StartsBinding, SameRun, Deleting
<1>7. CASE ReadIdentity \/ UpdateIdentity
  <2>1. pc # Idle /\ pc \notin Deleting /\ pc \in Acting /\ pc \notin {"adopt", "create"}
    BY <1>7 DEF ReadIdentity, UpdateIdentity, Idle, Deleting, Acting, Steps
  <2>2. SameRun(FirstMemory, mem)
    BY <1>3, <2>1, FirstMemoryType DEF StepOK
  <2>3. \/ Begins
        \/ pc' = "update" /\ mem' = mem /\ UNCHANGED crVars
    BY <1>1, <1>2, <1>7, ReadEffect, UpdateEffect
  <2>. QED
    BY <1>3, <1>6, <2>1, <2>2, <2>3 DEF Begins, Deleting
<1>8. CASE ReconcileMembership
  <2>1. pc \in MembershipSteps /\ pc # Idle /\ pc \notin Deleting
    BY <1>1, <1>8, MembershipEffect DEF MembershipSteps, Deleting, Idle
  <2>2. SameRun(ReportedMemory, mem)
    BY <1>3, <2>1, ReportedMemoryType
  <2>3. \/ Reports
        \/ /\ pc' \in {"createMembership", "updateMembership", "readCreated", "readUpdated"}
           /\ mem' = mem /\ UNCHANGED crVars
    BY <1>1, <1>2, <1>8, MembershipEffect
  <2>. QED
    BY <1>3, <1>6, <2>1, <2>2, <2>3 DEF Reports, Deleting
<1>9. CASE DeleteIdentity
  BY <1>1, <1>9, DeletionEffect DEF DeleteIdentity, Idle
<1>10. ~PersistReady /\ ~DeleteFinalizer
  BY DEF PersistReady, DeleteFinalizer, EndReconcile
<1>. QED
  BY <1>4, <1>5, <1>7, <1>8, <1>9, <1>10 DEF Reconcile

\* What everybody else does to a reconciliation: the copy that it read is
\* outdated by each write of the resource.
LEMMA RunInterrupted ==
  ASSUME Typed, [Next]_vars, ~Reconcile, pc' # Idle
  PROVE  /\ pc' = pc /\ pc # Idle /\ mem'.spec = mem.spec /\ mem'.status = mem.status
         /\ mem'.before = mem.before /\ mem'.anchor = mem.anchor /\ mem'.todo = mem.todo
         /\ mem'.project = mem.project /\ mem'.roles = mem.roles
         /\ mem'.generation = mem.generation
         /\ mem'.current = FALSE \/ (mem'.current = mem.current /\ UNCHANGED api)
<1>1. ~Crash
  BY DEF Crash, EndReconcile
<1>2. CASE EditSpec \/ DeleteResource
  <2>1. StepTypeOK /\ UNCHANGED pc /\ OutdateCopy
    BY <1>2, EditType DEF Typed
  <2>. QED
    BY <2>1, OutdateType
<1>3. CASE \/ RemoveOutside \/ ConfigureOutside \/ GrantOutside \/ ChangeDependency
           \/ RestoreDependency \/ DeliverResource \/ UNCHANGED vars
  BY <1>3, RemoteOutsideType, DependencyType, DeliverType DEF vars, crVars
<1>. QED
  BY <1>1, <1>2, <1>3 DEF Next, Outside

\* The copy that was read is the stored version as long as it is called current,
\* and the finalizer is only removed for an identity that is gone.
DeletionInvariant ==
  /\ CacheFollows
  /\ pc # Idle /\ mem.current => mem.before = api.status
  /\ pc \in Deleting => mem.status = mem.before
  /\ pc = "deleteFinalizer" => ~Present(mem.status.identity)

LEMMA DeletionStep ==
  Typed /\ RecordInvariant /\ DeletionInvariant /\ [Next]_vars => DeletionInvariant'
<1> SUFFICES ASSUME Typed, RecordInvariant, DeletionInvariant, [Next]_vars
             PROVE  DeletionInvariant'
  OBVIOUS
<1>1. CRTypeOK /\ StepTypeOK /\ WorldTypeOK /\ RemoteTypeOK
  BY DEF Typed
<1>2. CacheFollows'
  BY <1>1, ResourceSteps, CacheFollowsStep DEF DeletionInvariant, CRTypeOK
<1>3. CASE pc' = Idle
  BY <1>2, <1>3 DEF DeletionInvariant, Deleting, Idle
<1>4. CASE Reconcile /\ pc' # Idle
  <2>1. CASE pc = Idle /\ mem' = Loaded /\ pc' # "deleteFinalizer" /\ UNCHANGED crVars
    <3>1. Loaded.status = cache.status /\ Loaded.before = cache.status
          /\ Loaded.current = CR!Current
      BY <1>1, LoadedType
    <3>2. CR!Current => cache = api
      BY DEF CR!Current, DeletionInvariant, CacheFollows
    <3>. QED
      BY <1>2, <2>1, <3>1, <3>2 DEF DeletionInvariant, crVars
  <2>2. CASE /\ pc # Idle /\ SameRun(mem', mem) /\ pc' \notin Deleting /\ UNCHANGED crVars
    BY <1>2, <2>2 DEF DeletionInvariant, SameRun, Deleting, crVars
  <2>3. CASE DeleteIdentity /\ pc' = "deleteFinalizer" /\ mem' = mem /\ UNCHANGED crVars
    <3>1. pc # Idle /\ pc \in Deleting
      BY <2>3 DEF DeleteIdentity, Idle, Deleting
    <3>2. mem.status.identity \in IdentityIDs /\ AtHome(remote, mem.status)
      BY <1>1, <2>3, <3>1, InProgress
      DEF StepOK, DeleteIdentity, RecordInvariant, RemembersPairs
    <3>3. ASSUME Delete(mem.status.identity)
          PROVE  remote'[mem.status.identity].state # "Present"
      BY <1>1, <3>2, <3>3, DeleteType DEF Present
    <3>4. ASSUME ~Addressed(mem.status.identity), UNCHANGED remote
          PROVE  remote'[mem.status.identity].state # "Present"
      BY <3>2, <3>4, ConstantsAssumption DEF Addressed, DeletionHome, AtHome, Present
    <3>5. remote'[mem.status.identity].state # "Present"
      BY <1>1, <2>3, <3>3, <3>4, DeletionEffect
    <3>. QED
      BY <1>2, <2>3, <3>1, <3>5 DEF DeletionInvariant, crVars, Present
  <2>. QED
    BY <1>4, <2>1, <2>2, <2>3, RunGoesOn
<1>5. CASE ~Reconcile /\ pc' # Idle
  <2>1. /\ pc' = pc /\ pc # Idle /\ mem'.status = mem.status /\ mem'.before = mem.before
        /\ mem'.current = FALSE \/ (mem'.current = mem.current /\ UNCHANGED api)
    BY <1>5, RunInterrupted
  <2>2. pc = "deleteFinalizer" => ~Present(mem.status.identity)'
    <3> SUFFICES ASSUME pc = "deleteFinalizer" PROVE remote'[mem'.status.identity].state # "Present"
      BY <2>1 DEF Present
    <3>1. mem.status.identity \in IdentityIDs /\ AtHome(remote, mem.status)
      BY <1>1, <2>1, InProgress DEF StepOK, RecordInvariant, RemembersPairs
    <3>2. remote[mem.status.identity].state = "Deleted"
      BY <1>1, <3>1, ConstantsAssumption
      DEF DeletionInvariant, Present, AtHome, RemoteTypeOK, IdentityRecords
    <3>. QED
      BY <2>1, <3>1, <3>2, IdentitySteps DEF IdentitiesKept, KeepsIdentity
  <2>. QED
    BY <1>2, <2>1, <2>2 DEF DeletionInvariant
<1>. QED
  BY <1>3, <1>4, <1>5

LEMMA DeletionHolds == Spec => []DeletionInvariant
<1>1. Init => DeletionInvariant
  BY DEF Init, DeletionInvariant, CacheFollows, Deleting, Idle
<1>. QED
  BY <1>1, DeletionStep, RecordHolds, TypedHolds, PTL DEF Spec

\* What removes a resource that its finalizer holds.
LEMMA RemovesResource ==
  ASSUME Typed, [Next]_vars, api.exists, ~api'.exists, api.finalizer
  PROVE  \/ NothingToDelete(cache) /\ CR!Current /\ UNCHANGED remote
         \/ pc = "deleteFinalizer" /\ mem.current /\ UNCHANGED remote
<1>1. CRTypeOK /\ StepTypeOK /\ WorldTypeOK /\ RemoteTypeOK
  BY DEF Typed
<1>2. ~OnlyStatus /\ ~UNCHANGED crVars /\ ~UNCHANGED api
  BY DEF OnlyStatus, crVars
<1>3. ASSUME NEW r \in Resources, r.exists, CR!Put(r) PROVE FALSE
  BY <1>3 DEF CR!Put
<1>4. CASE EnsureFinalizer
  BY <1>1, <1>4 DEF EnsureFinalizer, CR!Put, CRTypeOK, Resources
<1>5. CASE BeginReconcile
  <2>1. {NotReadyReason(cache.spec), "ConfigurationInvalid", "ConnectionNotReady"} \subseteq Reasons
    BY DEF Reasons, NotReadyReason
  <2>. QED
    BY <1>1, <1>2, <1>5, <2>1, LoadedType, ReturnErrorType DEF BeginReconcile
<1>6. CASE BeginDeletion
  BY <1>2, <1>6 DEF BeginDeletion, RemoveFinalizer
<1>7. CASE Adopt \/ CreateIdentity \/ ReadIdentity \/ UpdateIdentity \/ ReconcileMembership
  BY <1>1, <1>2, <1>7, AdoptEffect, CreateEffect, ReadEffect, UpdateEffect, MembershipEffect,
     GoesOn
<1>8. CASE PersistReady
  BY <1>1, <1>2, <1>8, PersistEffect, GoesOn
<1>9. CASE DeleteIdentity \/ DeleteFinalizer
  BY <1>2, <1>9 DEF DeleteIdentity, DeleteFinalizer, RemoveFinalizer
<1>10. CASE EditSpec \/ DeleteResource
  BY <1>1, <1>10 DEF EditSpec, DeleteResource, CR!Put, CRTypeOK, Resources
<1>11. CASE \/ RemoveOutside \/ ConfigureOutside \/ GrantOutside \/ ChangeDependency
            \/ RestoreDependency \/ DeliverResource \/ Crash \/ UNCHANGED vars
  BY <1>2, <1>11, RemoteOutsideType, DependencyType, DeliverType DEF Crash, vars
<1>. QED
  BY <1>4, <1>5, <1>6, <1>7, <1>8, <1>9, <1>10, <1>11 DEF Next, Reconcile, Outside

\* A resource whose deletion policy is Delete goes only after the identity it
\* records, also when the reconciliation that removes the finalizer read a stale
\* copy, and when the project reference has come to show another project.
THEOREM DeletionSafe == Spec => DeletionDeletesRecorded
<1> DEFINE Deletes ==
      /\ api.exists /\ ~api'.exists
      /\ api.finalizer /\ api.spec.deletion = "Delete" /\ api.status.identity # None
      => remote'[api.status.identity].state # "Present"
<1>1. ASSUME Typed, DeletionInvariant, [Next]_vars PROVE Deletes
  <2> SUFFICES ASSUME api.exists, ~api'.exists, api.finalizer, api.spec.deletion = "Delete",
                      api.status.identity # None
               PROVE  remote'[api.status.identity].state # "Present"
    OBVIOUS
  <2>1. CASE NothingToDelete(cache) /\ CR!Current
    BY <1>1, <2>1 DEF NothingToDelete, CR!Current, DeletionInvariant, CacheFollows
  <2>2. CASE pc = "deleteFinalizer" /\ mem.current /\ UNCHANGED remote
    BY <1>1, <2>2 DEF DeletionInvariant, Deleting, Present, Idle
  <2>. QED
    BY <1>1, <2>1, <2>2, RemovesResource
<1>2. ASSUME Typed, DeletionInvariant, [Next]_vars PROVE [Deletes]_vars
  BY <1>1, <1>2
<1>. QED
  BY <1>2, TypedHolds, DeletionHolds, PTL DEF Spec, DeletionDeletesRecorded

-----------------------------------------------------------------------------
(* Roles are granted inside the home of the identity *)

\* The assumption under which that is so: a project reference comes to show
\* other projects of the same organization only.  Without it the bound project
\* that identityAnchor compared may not be the one that is granted the roles.
ReferencesStay ==
  \A ref \in ProjectRefs : \A p, q \in Targets[ref] : OrganizationOf[p] = OrganizationOf[q]

MayGrant(spec, anchor, p) ==
  IF spec.scope = "Project" THEN p = anchor ELSE OrganizationOf[p] = anchor

\* What the check at the start of a reconciliation has established, and what
\* each membership call relies on.
GrantInvariant ==
  /\ pc \in Acting /\ mem.spec.scope = "Organization" =>
       \A ref \in Managed(mem.spec) : \A p \in Targets[ref] : OrganizationOf[p] = mem.anchor
  /\ pc \in MembershipSteps => MayGrant(mem.spec, mem.anchor, mem.project)

\* The next binding's project is in the organization that was compared.
LEMMA BindingInside ==
  ASSUME Typed, GrantInvariant, pc \in Acting, NEW m, SameRun(m, mem),
         m.todo \subseteq Managed(mem.spec),
         NoMoreBindings(m) \/ (\E ref \in m.todo : StartsBinding(m, ref))
  PROVE  GrantInvariant'
<1>1. /\ mem \in Memories /\ mem.spec \in Specs
      /\ m.spec = mem.spec /\ m.anchor = mem.anchor
  BY InProgress DEF Typed, SameRun, Acting, Steps, Idle
<1>2. mem'.spec = mem.spec /\ mem'.anchor = mem.anchor /\ pc' \in {"persist", "readMembership"}
  BY <1>1 DEF NoMoreBindings, StartsBinding, SameRun
<1>3. CASE pc' = "persist"
  BY <1>2, <1>3 DEF GrantInvariant, MembershipSteps
<1>4. ASSUME NEW ref \in m.todo, StartsBinding(m, ref)
      PROVE  MayGrant(mem.spec, mem.anchor, mem'.project)
  <2>1. mem'.project = ProjectFor(m, ref) /\ mem'.project \in Projects
    BY <1>4 DEF StartsBinding
  <2>2. ref \in Managed(mem.spec) /\ ref \in ProjectRefs
    BY <1>1, SpecType
  <2>3. resolved[ref] \in Targets[ref] \cup {None}
    BY <2>2 DEF Typed, WorldTypeOK, Dependencies
  <2>4. CASE mem.spec.scope = "Project"
    BY <1>1, <2>1, <2>4 DEF ProjectFor, MayGrant
  <2>5. CASE mem.spec.scope = "Organization"
    BY <1>1, <2>1, <2>2, <2>3, <2>5, ConstantsAssumption
    DEF ProjectFor, MayGrant, GrantInvariant
  <2>. QED
    BY <1>1, <2>4, <2>5, SpecType
<1>5. CASE pc' = "readMembership"
  <2>1. PICK ref \in m.todo : StartsBinding(m, ref)
    BY <1>5 DEF NoMoreBindings
  <2>. QED
    BY <1>2, <1>4, <2>1 DEF GrantInvariant
<1>. QED
  BY <1>2, <1>3, <1>5

LEMMA GrantStep ==
  ReferencesStay => (Typed /\ GrantInvariant /\ [Next]_vars => GrantInvariant')
<1> SUFFICES ASSUME ReferencesStay, Typed, GrantInvariant, [Next]_vars
             PROVE  GrantInvariant'
  OBVIOUS
<1>1. CRTypeOK /\ StepTypeOK /\ WorldTypeOK /\ RemoteTypeOK
  BY DEF Typed
<1>2. Idle \notin Acting /\ MembershipSteps \subseteq Acting
  BY DEF Acting, Steps, Deleting, MembershipSteps, Idle
<1>3. CASE pc' \notin Acting
  BY <1>2, <1>3 DEF GrantInvariant
<1>4. CASE /\ BeginReconcile /\ Anchored(cache.spec) /\ Starts(FirstStep(cache))
  <2>1. /\ pc' \notin MembershipSteps /\ mem' = Loaded
        /\ Loaded.spec = cache.spec /\ Loaded.anchor = resolved[AnchorRef(cache.spec)]
        /\ cache.spec \in Specs
    BY <1>1, <1>4, LoadedType DEF Starts, FirstStep, MembershipSteps
  <2>2. ASSUME cache.spec.scope = "Organization",
               NEW ref \in Managed(cache.spec), NEW p \in Targets[ref]
        PROVE  OrganizationOf[p] = resolved[AnchorRef(cache.spec)]
    <3>1. ref \in ProjectRefs /\ AnchorRef(cache.spec) = OrganizationRef
      BY <2>1, <2>2, SpecType
    <3>2. resolved[ref] # None /\ resolved[ref] \in Targets[ref]
      BY <1>1, <1>4, <3>1 DEF Anchored, Required, WorldTypeOK, Dependencies
    <3>3. OrganizationOf[resolved[ref]] = resolved[OrganizationRef]
      BY <1>4, <2>2, <3>2 DEF Anchored, BoundInside
    <3>. QED
      BY <3>1, <3>2, <3>3 DEF ReferencesStay
  <2>. QED
    BY <2>1, <2>2 DEF GrantInvariant
<1>5. CASE Reconcile /\ pc' \in Acting
  <2>1. pc' # Idle /\ ~Fails /\ ~Clears
    BY <1>2, <1>5 DEF Fails, Clears
  <2>2. CASE EnsureFinalizer \/ BeginReconcile \/ BeginDeletion
    BY <1>1, <1>4, <1>5, <2>1, <2>2, BeginType DEF Starts, Acting, Deleting
  <2>3. CASE Adopt \/ CreateIdentity
    <3>1. pc \in Acting /\ pc # Idle
      BY <2>3 DEF Adopt, CreateIdentity, Acting, Steps, Deleting, Idle
    <3>2. /\ mem'.spec = mem.spec /\ mem'.anchor = mem.anchor /\ pc' \notin MembershipSteps
      BY <1>1, <2>1, <2>3, AdoptEffect, CreateEffect DEF Acquires, SameRun, MembershipSteps
    <3>. QED
      BY <3>1, <3>2 DEF GrantInvariant
  <2>4. CASE ReadIdentity \/ UpdateIdentity
    <3>1. pc \in Acting /\ pc # Idle /\ pc \notin {"adopt", "create"}
      BY <2>4 DEF ReadIdentity, UpdateIdentity, Acting, Steps, Deleting, Idle
    <3>2. StepOK(pc, mem) /\ mem.status.identity \in IdentityIDs
      BY <1>1, <3>1, InProgress DEF StepOK
    <3>3. SameRun(FirstMemory, mem) /\ FirstMemory.todo = Managed(mem.spec)
      BY <3>1, <3>2, FirstMemoryType
    <3>4. Begins \/ (pc' = "update" /\ mem' = mem)
      BY <1>1, <2>1, <2>4, ReadEffect, UpdateEffect
    <3>5. CASE Begins
      BY <3>1, <3>3, <3>5, BindingInside DEF Begins
    <3>6. CASE pc' = "update" /\ mem' = mem
      BY <3>1, <3>6 DEF GrantInvariant, MembershipSteps
    <3>. QED
      BY <3>4, <3>5, <3>6
  <2>5. CASE ReconcileMembership
    <3>1. pc \in MembershipSteps /\ pc \in Acting /\ pc # Idle
      BY <1>1, <1>2, <2>5, MembershipEffect
    <3>2. StepOK(pc, mem) /\ mem.todo \subseteq Managed(mem.spec)
      BY <1>1, <3>1, InProgress DEF StepOK
    <3>3. SameRun(ReportedMemory, mem) /\ ReportedMemory.todo = mem.todo
      BY <3>1, <3>2, ReportedMemoryType
    <3>4. Reports \/ mem' = mem
      BY <1>1, <2>1, <2>5, MembershipEffect
    <3>5. CASE Reports
      BY <3>1, <3>2, <3>3, <3>5, BindingInside DEF Reports
    <3>6. CASE mem' = mem
      BY <3>1, <3>6 DEF GrantInvariant
    <3>. QED
      BY <3>4, <3>5, <3>6
  <2>6. ~PersistReady /\ ~DeleteFinalizer
    BY <2>1 DEF PersistReady, DeleteFinalizer, EndReconcile
  <2>7. ~DeleteIdentity
    BY <1>1, <1>5, <2>1, DeletionEffect DEF Acting, Deleting
  <2>. QED
    BY <1>5, <2>2, <2>3, <2>4, <2>5, <2>6, <2>7 DEF Reconcile
<1>6. CASE ~Reconcile /\ pc' \in Acting
  BY <1>2, <1>6, RunInterrupted DEF GrantInvariant
<1>. QED
  BY <1>3, <1>5, <1>6

LEMMA GrantHolds == ReferencesStay => (Spec => []GrantInvariant)
<1> SUFFICES ASSUME ReferencesStay PROVE Spec => []GrantInvariant
  OBVIOUS
<1>1. Init => GrantInvariant
  BY DEF Init, GrantInvariant, Idle, Acting, Steps, MembershipSteps
<1>2. Typed /\ GrantInvariant /\ [Next]_vars => GrantInvariant'
  BY GrantStep
<1>. QED
  BY <1>1, <1>2, TypedHolds, PTL DEF Spec

\* The operator grants roles only in the project or the organization that owns
\* the identity, if each project reference stays in its organization.
THEOREM GrantsSafe == ReferencesStay => (Spec => GrantsInside)
<1> SUFFICES ASSUME ReferencesStay PROVE Spec => GrantsInside
  OBVIOUS
<1> DEFINE Grant(i, p) == remote'[i].membership[p] \notin {remote[i].membership[p], None}
           Granting ==
             OperatorStep /\ pc # "create" =>
               (\A i \in IdentityIDs, p \in Projects :
                  remote'[i].membership[p] \notin {remote[i].membership[p], None} => Inside(i, p))
<1>1. ASSUME Typed, RecordInvariant, GrantInvariant, [Next]_vars PROVE Granting
  <2> SUFFICES ASSUME pc' # pc, pc # "create", NEW i \in IdentityIDs, NEW p \in Projects,
                      Grant(i, p)
               PROVE  Inside(i, p)
    BY DEF OperatorStep
  <2>1. CRTypeOK /\ StepTypeOK /\ WorldTypeOK /\ RemoteTypeOK
    BY <1>1 DEF Typed
  <2>2. ~UNCHANGED remote
    OBVIOUS
  <2>3. ASSUME NEW j \in IdentityIDs, Delete(j) PROVE FALSE
    <3>1. remote'[i].membership \in {remote[i].membership, NoMembership}
      BY <2>1, <2>3, DeleteType
    <3>. QED
      BY <3>1 DEF NoMembership
  <2>4. CASE UpdateIdentity
    <3>1. CASE remote' = [remote EXCEPT ![mem.status.identity].name = mem.spec.name,
                                        ![mem.status.identity].config = mem.spec.config]
      BY <2>1, <3>1 DEF RemoteTypeOK, IdentityRecords
    <3>. QED
      BY <2>1, <2>2, <2>4, <3>1, UpdateEffect
  <2>5. CASE ReconcileMembership
    <3>1. Grants /\ pc \in MembershipSteps /\ pc # Idle /\ pc \in Owning
      BY <2>1, <2>2, <2>5, MembershipEffect DEF MembershipSteps, Idle, Owning
    <3>2. StepOK(pc, mem) /\ RemembersPairs(remote, pc, mem) /\ mem.status.identity \in IdentityIDs
          /\ mem.spec \in Specs
      BY <1>1, <2>1, <3>1, InProgress DEF StepOK, RecordInvariant, MembershipSteps
    <3>3. remote[mem.status.identity].home = mem.anchor
      BY <3>1, <3>2, ConstantsAssumption DEF RemembersPairs, AtHome
    <3>4. MayGrant(mem.spec, mem.anchor, mem.project)
      BY <1>1, <3>1 DEF GrantInvariant
    <3>5. i = mem.status.identity /\ p = mem.project
      BY <2>1, <3>1 DEF Grants, RemoteTypeOK, IdentityRecords, Memberships
    <3>. QED
      BY <3>2, <3>3, <3>4, <3>5, SpecType DEF MayGrant, Inside
  <2>6. CASE DeleteIdentity \/ DeleteFinalizer
    <3>1. mem.status.identity \in IdentityIDs
      BY <2>1, <2>6, InProgress DEF DeleteIdentity, DeleteFinalizer, StepOK, Idle
    <3>. QED
      BY <2>1, <2>2, <2>3, <2>6, <3>1, DeletionEffect
  <2>7. CASE RemoveOutside \/ ConfigureOutside \/ GrantOutside
    BY <1>1, <2>7, RemoteOutsideType
  <2>8. CASE CreateIdentity
    BY <2>8 DEF CreateIdentity
  <2>9. CASE \/ EnsureFinalizer \/ BeginReconcile \/ BeginDeletion \/ Adopt \/ ReadIdentity
             \/ PersistReady \/ Crash \/ DeliverResource \/ EditSpec \/ DeleteResource
             \/ ChangeDependency \/ RestoreDependency \/ UNCHANGED vars
    BY <2>2, <2>9
    DEF EnsureFinalizer, BeginReconcile, BeginDeletion, Adopt, ReadIdentity, PersistReady, Crash,
        DeliverResource, EditSpec, DeleteResource, ChangeDependency, RestoreDependency, vars
  <2>. QED
    BY <1>1, <2>4, <2>5, <2>6, <2>7, <2>8, <2>9 DEF Next, Reconcile, Outside
<1>2. ASSUME Typed, RecordInvariant, GrantInvariant, [Next]_vars PROVE [Granting]_vars
  BY <1>1, <1>2
<1>. QED
  BY <1>2, TypedHolds, RecordHolds, GrantHolds, PTL DEF Spec, GrantsInside

-----------------------------------------------------------------------------
(* One identity *)

\* Only a creation makes an identity appear; those there are keep their owner and
\* creator, and are only renamed to a name that some spec declares.
LEMMA NoneAppears ==
  ASSUME Typed, [Next]_vars, ~CreateIdentity, NEW i \in IdentityIDs,
         remote'[i].state = "Present"
  PROVE  /\ remote[i].state = "Present"
         /\ remote'[i].creator = remote[i].creator /\ remote'[i].home = remote[i].home
         /\ remote'[i].name = remote[i].name \/ remote'[i].name \in Names
<1>1. CRTypeOK /\ StepTypeOK /\ WorldTypeOK /\ RemoteTypeOK
  BY DEF Typed
<1>2. CASE UNCHANGED remote
  BY <1>2
<1>3. CASE UpdateIdentity
  <2>1. mem.spec.name \in Names /\ mem.status.identity \in IdentityIDs
    BY <1>1, <1>3, InProgress, SpecType DEF UpdateIdentity, Idle, StepOK
  <2>2. Reachable(mem.status.identity) => remote[mem.status.identity].state = "Present"
    BY DEF Reachable, Present
  <2>. QED
    BY <1>1, <1>2, <1>3, <2>1, <2>2, UpdateEffect DEF RemoteTypeOK, IdentityRecords
<1>4. CASE ReconcileMembership
  <2>1. CASE Grants
    BY <1>1, <2>1 DEF Grants, Present, RemoteTypeOK, IdentityRecords
  <2>. QED
    BY <1>1, <1>2, <1>4, <2>1, MembershipEffect
<1>5. CASE DeleteIdentity \/ DeleteFinalizer
  <2>1. mem.status.identity \in IdentityIDs
    BY <1>1, <1>5, InProgress DEF DeleteIdentity, DeleteFinalizer, StepOK, Idle
  <2>. QED
    BY <1>1, <1>2, <1>5, <2>1, DeletionEffect, DeleteType
<1>6. CASE RemoveOutside \/ ConfigureOutside \/ GrantOutside
  BY <1>6, RemoteOutsideType
<1>7. CASE \/ EnsureFinalizer \/ BeginReconcile \/ BeginDeletion \/ Adopt \/ ReadIdentity
           \/ PersistReady \/ Crash \/ DeliverResource \/ EditSpec \/ DeleteResource
           \/ ChangeDependency \/ RestoreDependency \/ UNCHANGED vars
  BY <1>2, <1>7
  DEF EnsureFinalizer, BeginReconcile, BeginDeletion, Adopt, ReadIdentity, PersistReady, Crash,
      DeliverResource, EditSpec, DeleteResource, ChangeDependency, RestoreDependency, vars
<1>. QED
  BY <1>3, <1>4, <1>5, <1>6, <1>7 DEF Next, Reconcile, Outside

\* The assumptions under which the operator never makes a second identity: it is
\* not told to create without looking, and the name it looks for is not edited.
LooksFirst == "Create" \notin CreationChoices
OneName    == \A m, n \in Names : m = n

\* A second creation would need an identity that the search by name misses.
UniqueInvariant ==
  /\ OneIdentity
  /\ \A i \in Operators : remote[i].name \in Names
  /\ pc = "create" => \A i \in Operators : remote[i].home # mem.anchor

LEMMA UniqueStep ==
  LooksFirst /\ OneName => (Typed /\ UniqueInvariant /\ [Next]_vars => UniqueInvariant')
<1> SUFFICES ASSUME LooksFirst, OneName, Typed, UniqueInvariant, [Next]_vars
             PROVE  UniqueInvariant'
  OBVIOUS
<1>1. CRTypeOK /\ StepTypeOK /\ WorldTypeOK /\ RemoteTypeOK
  BY DEF Typed
<1>2. CASE CreateIdentity
  <2>1. pc = "create" /\ pc # Idle /\ pc \in Acting
    BY <1>2 DEF CreateIdentity, Idle, Acting, Steps, Deleting
  <2>2. mem \in Memories /\ mem.anchor \in Homes /\ mem.spec.name \in Names
    BY <1>1, <2>1, InProgress, SpecType DEF StepOK, HomesOf, Homes
  <2>3. pc' # "create"
    BY <1>1, <1>2, CreateEffect DEF Acquires, Fails, Idle
  <2>4. CASE UNCHANGED remote
    BY <2>3, <2>4 DEF UniqueInvariant, OneIdentity, Operators, Present
  <2>5. CASE ~UNCHANGED remote
    <3>1. PICK i \in IdentityIDs, roles \in FirstRoles : remote' = [remote EXCEPT ![i] = Created(roles)]
      BY <1>1, <1>2, <2>5, CreateEffect
    <3>2. remote'[i].home = mem.anchor /\ remote'[i].name = mem.spec.name
      BY <1>1, <2>2, <3>1, CreatedType DEF RemoteTypeOK
    <3>3. \A j \in IdentityIDs \ {i} : remote'[j] = remote[j]
      BY <1>1, <3>1 DEF RemoteTypeOK
    <3>4. \A j \in Operators' \ {i} : j \in Operators /\ remote'[j] = remote[j]
                                      /\ remote'[j].home # mem.anchor
      BY <2>1, <3>3 DEF Operators, Present, UniqueInvariant
    <3>5. \A j \in Operators' : remote'[j].name \in Names
      BY <2>2, <3>2, <3>4 DEF UniqueInvariant
    <3>6. \A j, k \in Operators' : remote'[j].home = remote'[k].home => j = k
      BY <3>2, <3>4 DEF UniqueInvariant, OneIdentity
    <3>. QED
      BY <2>3, <3>5, <3>6 DEF UniqueInvariant, OneIdentity
  <2>. QED
    BY <2>4, <2>5
<1>3. CASE ~CreateIdentity
  <2>1. \A i \in Operators' : /\ i \in Operators /\ remote'[i].home = remote[i].home
                              /\ remote'[i].name \in Names
    BY <1>3, NoneAppears DEF Operators, Present, UniqueInvariant
  <2>2. OneIdentity' /\ \A i \in Operators' : remote'[i].name \in Names
    BY <2>1 DEF UniqueInvariant, OneIdentity
  <2>3. ASSUME pc' = "create", NEW i \in Operators' PROVE remote'[i].home # mem'.anchor
    <3>1. i \in Operators /\ remote'[i].home = remote[i].home /\ pc' # Idle
      BY <2>1, <2>3 DEF Idle
    <3>2. CASE pc = "create" /\ ~Reconcile
      BY <1>1, <2>3, <3>1, <3>2, RunInterrupted DEF UniqueInvariant
    <3>3. CASE Adopt
      <4>1. Found(mem.spec, mem.anchor) = {} /\ mem' = mem /\ pc = "adopt" /\ pc # Idle
        BY <1>1, <2>3, <3>1, <3>3, AdoptEffect DEF Acquires, Fails, Adopt, Idle
      <4>2. mem.spec.name \in Names
        BY <1>1, <4>1, InProgress, SpecType
      <4>3. remote[i].name = mem.spec.name /\ Present(i) /\ i \in IdentityIDs
        BY <3>1, <4>2 DEF UniqueInvariant, Operators, OneName
      <4>. QED
        BY <3>1, <4>1, <4>3 DEF Found
    <3>4. CASE EnsureFinalizer \/ BeginReconcile \/ BeginDeletion
      <4>1. FirstStep(cache) = "create"
        BY <1>1, <2>3, <3>1, <3>4, BeginType DEF Starts
      <4>2. cache.spec.creation \in CreationChoices
        BY <1>1, LoadedType DEF Specs
      <4>. QED
        BY <4>1, <4>2, ConstantsAssumption
        DEF FirstStep, CanAdopt, CreationPolicies, LooksFirst
    <3>5. CASE ~Reconcile
      BY <2>3, <3>1, <3>2, <3>5, RunInterrupted
    <3>6. CASE \/ ReadIdentity \/ UpdateIdentity \/ ReconcileMembership \/ PersistReady
               \/ DeleteIdentity \/ DeleteFinalizer
      BY <1>1, <2>3, <3>6, ReadEffect, UpdateEffect, MembershipEffect, PersistEffect,
         DeletionEffect
      DEF Fails, Clears, Begins, Reports, NoMoreBindings, StartsBinding, Idle
    <3>. QED
      BY <1>3, <3>3, <3>4, <3>5, <3>6 DEF Reconcile
  <2>. QED
    BY <2>2, <2>3 DEF UniqueInvariant
<1>. QED
  BY <1>2, <1>3

\* The operator never has two identities of one owner for one resource, whatever
\* it forgets by a crash, a lost answer or a stale cache: it finds by name what
\* it made.
THEOREM IdentitySafe == LooksFirst /\ OneName => (Spec => []OneIdentity)
<1> SUFFICES ASSUME LooksFirst, OneName PROVE Spec => []OneIdentity
  OBVIOUS
<1>1. ASSUME Init PROVE UniqueInvariant
  <2>1. PICK h \in [InitiallyPresent -> Homes], n \in [InitiallyPresent -> Names],
             g \in [InitiallyPresent -> Configs] :
          remote = [i \in IdentityIDs |->
            IF i \in InitiallyPresent
            THEN [Unused EXCEPT !.state = "Present", !.creator = "Other", !.home = h[i],
                                !.name = n[i], !.config = g[i]]
            ELSE Unused]
    BY <1>1 DEF Init
  <2>2. \A i \in IdentityIDs : remote[i].creator # "Operator"
    BY <2>1 DEF Unused
  <2>3. pc = Idle
    BY <1>1 DEF Init
  <2>. QED
    BY <2>2, <2>3 DEF UniqueInvariant, OneIdentity, Operators, Idle
<1>2. Typed /\ UniqueInvariant /\ [Next]_vars => UniqueInvariant'
  BY UniqueStep
<1>3. UniqueInvariant => OneIdentity
  BY DEF UniqueInvariant
<1>. QED
  BY <1>1, <1>2, <1>3, TypedHolds, PTL DEF Spec

-----------------------------------------------------------------------------
(* Ready means declared *)

\* The assumptions.  What an administrator of Infisical changes is noticed by the
\* next reconciliation only; and of two bindings that show one project, the later
\* is granted.
NoDrift == "configure" \notin Disturbances /\ "grant" \notin Disturbances
DistinctProjects ==
  \A ref, other \in ProjectRefs : ref # other => Targets[ref] \cap Targets[other] = {}

Granted(r, i, spec, ref) == \E p \in Targets[ref] : r[i].membership[p] = spec.roles[ref]

\* Unless it was removed, identity i has what the spec declares, with these of
\* its bindings.
DoneFor(r, i, spec, refs) ==
  r[i].state = "Present" =>
    AsDeclared(r[i], spec) /\ (\A ref \in refs : Granted(r, i, spec, ref))

\* Versions of the resource have ordered generations, and one spec in each.
Precedes(a, b) ==
  /\ a.generation <= b.generation
  /\ a.generation = b.generation => a.spec = b.spec

\* The versions from the cached to the stored one are in that order.
OrderInvariant ==
  /\ Precedes(cache, api)
  /\ \A k \in 1..Len(undelivered) :
       Precedes(cache, undelivered[k]) /\ Precedes(undelivered[k], api)
  /\ \A j, k \in 1..Len(undelivered) :
       j <= k => Precedes(undelivered[j], undelivered[k])

\* A reconciliation was read from the cache, which may have advanced since; the
\* stored condition is of no later generation than the cached version or than the
\* one that the running reconciliation has read, however stale they are.
RunInvariant ==
  /\ pc # Idle => Precedes(mem, cache)
  /\ \A g \in Generations : api.status.reason = ReadyFor(g) =>
       g <= cache.generation /\ (pc # Idle => g <= mem.generation)
  /\ pc \in Acting => mem.anchor \in Targets[AnchorRef(mem.spec)]

\* The binding whose turn it is, and what is done once the others are that do not
\* wait for theirs.
WorksOn(ref) ==
  /\ mem.project \in Targets[ref] /\ mem.roles = mem.spec.roles[ref]
  /\ DoneFor(remote, mem.status.identity, mem.spec, Managed(mem.spec) \ (mem.todo \cup {ref}))

WorkInvariant ==
  /\ pc = "persist" => DoneFor(remote, mem.status.identity, mem.spec, Managed(mem.spec))
  /\ pc \in MembershipSteps => \E ref \in Managed(mem.spec) : WorksOn(ref)
  /\ pc \in {"readCreated", "readUpdated"} => Held \in {mem.roles, None}

LEMMA ConditionsDiffer ==
  /\ \A reason \in Reasons : \A g : NotReady(reason) # ReadyFor(g)
  /\ \A g, h : ReadyFor(g) = ReadyFor(h) => g = h
<1>1. ASSUME NEW reason \in Reasons, NEW g PROVE NotReady(reason) # ReadyFor(g)
  <2>1. NotReady(reason).reason = reason /\ ReadyFor(g).reason = "Ready"
    BY DEF NotReady, ReadyFor
  <2>2. reason # "Ready"
    BY DEF Reasons
  <2>. QED
    BY <2>1, <2>2
<1>2. ASSUME NEW g, NEW h, ReadyFor(g) = ReadyFor(h) PROVE g = h
  <2>1. ReadyFor(g).generation = g /\ ReadyFor(h).generation = h
    BY DEF ReadyFor
  <2>. QED
    BY <1>2, <2>1
<1>. QED
  BY <1>1, <1>2

\* Only a whole reconciliation declares its generation ready; the other writers
\* leave the condition, or say what failed; the identity is the one recorded, the
\* one in memory, or none.
LEMMA StatusSteps ==
  ASSUME Typed, [Next]_vars, NEW g, api'.status.reason = ReadyFor(g)
  PROVE  \/ /\ api'.status.reason = api.status.reason
            /\ api'.status.identity \in {api.status.identity, None}
         \/ PersistReady /\ Persists /\ api.exists
<1>1. CRTypeOK /\ StepTypeOK /\ WorldTypeOK /\ RemoteTypeOK
  BY DEF Typed
<1> DEFINE Same == api'.status.reason = api.status.reason
                   /\ api'.status.identity \in {api.status.identity, None}
<1>2. OnlyFailure \/ UNCHANGED api \/ UNCHANGED crVars \/ api'.status = api.status => Same
  BY ConditionsDiffer DEF OnlyFailure, SameIds, crVars
<1>3. Fails \/ Begins \/ Reports \/ (\E i : Acquires(i)) => Same
  BY <1>2 DEF Fails, Begins, Reports, Acquires, NoMoreBindings, StartsBinding
<1> HIDE DEF Same
<1>4. CASE EnsureFinalizer \/ BeginReconcile \/ BeginDeletion
  BY <1>1, <1>2, <1>4, BeginType DEF Starts, Same
<1>5. CASE Adopt
  BY <1>1, <1>2, <1>3, <1>5, AdoptEffect DEF Same
<1>6. CASE CreateIdentity
  BY <1>1, <1>3, <1>6, CreateEffect DEF Same
<1>7. CASE ReadIdentity
  <2>1. CASE Clears /\ api.exists
    <3>1. pc # Idle
      BY <1>7 DEF ReadIdentity, Idle
    <3>2. mem.status \in Statuses /\ mem.status.identity # None /\ api.status \in Statuses
      BY <1>1, <1>7, <3>1, InProgress, ConstantsAssumption
      DEF StepOK, ReadIdentity, CRTypeOK, Resources
    <3>3. /\ MergePatch(api.status, mem.status, ClearedStatus).identity = None
          /\ MergePatch(api.status, mem.status, ClearedStatus).reason
               \in {api.status.reason, NotReady("RemoteIdentityMissing")}
      BY <3>2, ClearedStatusType, MergePatchType
    <3>4. "RemoteIdentityMissing" \in Reasons
      BY DEF Reasons
    <3>. QED
      BY <2>1, <3>3, <3>4, ConditionsDiffer DEF Clears, Same
  <2>2. CASE Clears /\ ~api.exists
    BY <1>2, <2>2 DEF Clears, Same
  <2>. QED
    BY <1>1, <1>2, <1>3, <1>7, <2>1, <2>2, ReadEffect DEF Same
<1>8. CASE UpdateIdentity
  BY <1>1, <1>3, <1>8, UpdateEffect DEF Same
<1>9. CASE ReconcileMembership
  BY <1>1, <1>2, <1>3, <1>9, MembershipEffect DEF Same
<1>10. CASE PersistReady
  <2>1. CASE Persists /\ ~api.exists
    BY <1>2, <2>1 DEF Persists, Same
  <2>. QED
    BY <1>1, <1>3, <1>10, <2>1, PersistEffect DEF Same
<1>11. CASE DeleteIdentity \/ DeleteFinalizer
  BY <1>1, <1>2, <1>11, DeletionEffect DEF Same
<1>12. CASE Outside
  BY <1>2, <1>12, EditType, RemoteOutsideType, DependencyType DEF Outside, Same
<1>13. CASE Crash \/ DeliverResource \/ UNCHANGED vars
  BY <1>2, <1>13 DEF Crash, DeliverResource, CR!Deliver, vars, Same
<1>. QED
  BY <1>4, <1>5, <1>6, <1>7, <1>8, <1>9, <1>10, <1>11, <1>12, <1>13 DEF Next, Reconcile

\* What a write of the status by a whole reconciliation makes of it.
LEMMA PersistedReady ==
  ASSUME Typed, PersistReady, Persists, api.exists
  PROVE  /\ ~Overtaken => api'.status.identity = mem.status.identity
         /\ api'.status.reason \in {api.status.reason, ReadyFor(mem.generation)}
<1>1. CRTypeOK /\ StepTypeOK
  BY DEF Typed
<1>2. pc # Idle /\ mem.before \in Statuses /\ api.status \in Statuses
  BY <1>1, InProgress DEF PersistReady, Idle, CRTypeOK, Resources
<1>3. /\ ReadyStatus \in Statuses /\ ReadyStatus.identity = mem.status.identity
      /\ ReadyStatus.reason = ReadyFor(mem.generation)
  BY <1>1, PersistEffect
<1>. QED
  BY <1>2, <1>3, MergePatchType DEF Persists, Overtaken

LEMMA GenerationNumbers ==
  ASSUME Typed
  PROVE  /\ api.generation \in Generations /\ Generations \subseteq Nat
         /\ cache.generation \in Generations
         /\ \A k \in 1..Len(undelivered) : undelivered[k].generation \in Generations
         /\ pc # Idle => mem.generation \in Generations
<1>1. \A k \in 1..Len(undelivered) : undelivered[k] \in Resources
  BY DEF Typed, CRTypeOK
<1>. QED
  BY <1>1, InProgress, BoundsAssumption DEF Typed, CRTypeOK, Resources, Generations

LEMMA PrecedesTransitive ==
  ASSUME NEW a, NEW b, NEW c, Precedes(a, b), Precedes(b, c),
         a.generation \in Nat, b.generation \in Nat, c.generation \in Nat
  PROVE  Precedes(a, c)
BY DEF Precedes

\* Only users change the generation, and they do when they change the spec.
LEMMA NextGeneration ==
  ASSUME Typed, [Next]_vars
  PROVE  /\ Precedes(api, api')
         /\ \/ api'.generation = api.generation + 1 /\ api'.status = api.status
            \/ api'.generation = api.generation /\ api'.spec = api.spec
<1>1. CRTypeOK /\ StepTypeOK /\ WorldTypeOK /\ RemoteTypeOK
  BY DEF Typed
<1>2. \/ api'.generation = api.generation + 1 /\ api'.status = api.status
      \/ api'.generation = api.generation /\ api'.spec = api.spec
  <2>1. CASE Reconcile \/ Crash
    <3>1. OnlyStatus \/ UNCHANGED crVars \/ (api'.generation = api.generation /\ api'.spec = api.spec)
      BY <1>1, <2>1, BeginType, AdoptEffect, CreateEffect, ReadEffect, UpdateEffect,
         MembershipEffect, PersistEffect, DeletionEffect, GoesOn
      DEF Reconcile, Crash
    <3>. QED
      BY <1>1, <3>1, StatusWritten
  <2>2. CASE DeliverResource \/ UNCHANGED vars
    BY <2>2, DeliverType DEF vars, crVars
  <2>3. CASE Outside
    BY <2>3, EditType, RemoteOutsideType, DependencyType DEF Outside, crVars
  <2>. QED
    BY <2>1, <2>2, <2>3 DEF Next
<1>3. api.generation \in Nat
  BY GenerationNumbers
<1>. QED
  BY <1>2, <1>3 DEF Precedes

LEMMA OrderStep ==
  ASSUME Typed, OrderInvariant, [Next]_vars
  PROVE  OrderInvariant' /\ Precedes(cache, cache')
<1>1. /\ api.generation \in Nat /\ cache.generation \in Nat /\ api'.generation \in Nat
      /\ \A k \in 1..Len(undelivered) : undelivered[k].generation \in Nat
  <2>1. api'.generation \in Generations /\ Generations \subseteq Nat
    BY TypedStep, GenerationNumbers DEF Typed, CRTypeOK, Resources
  <2>. QED
    BY <2>1, GenerationNumbers
<1>2. Precedes(api, api') /\ Precedes(api', api') /\ Precedes(cache, cache)
  BY <1>1, NextGeneration DEF Precedes
<1>3. undelivered \in Seq(Resources)
  BY DEF Typed, CRTypeOK
<1>4. CASE UNCHANGED crVars
  BY <1>2, <1>4 DEF OrderInvariant, crVars
<1>5. ASSUME NEW r, CR!Put(r) PROVE OrderInvariant' /\ cache' = cache
  <2>1. cache' = cache /\ api' = r
    BY <1>5 DEF CR!Put
  <2>2. /\ Precedes(cache, api')
        /\ \A k \in 1..Len(undelivered) : Precedes(undelivered[k], api')
    BY <1>1, <1>2, PrecedesTransitive DEF OrderInvariant
  <2>3. CASE undelivered' = undelivered
    BY <2>1, <2>2, <2>3 DEF OrderInvariant
  <2>4. CASE undelivered' = Append(undelivered, r)
    <3>1. Len(undelivered') = Len(undelivered) + 1 /\ Len(undelivered) \in Nat
      BY <1>3, <2>4
    <3>2. \A k \in 1..Len(undelivered') :
            undelivered'[k] = IF k <= Len(undelivered) THEN undelivered[k] ELSE api'
      BY <1>3, <2>1, <2>4, <3>1
    <3>3. \A k \in 1..Len(undelivered') :
            Precedes(cache, undelivered'[k]) /\ Precedes(undelivered'[k], api')
      BY <1>2, <2>2, <3>1, <3>2 DEF OrderInvariant
    <3>4. ASSUME NEW j \in 1..Len(undelivered'), NEW k \in 1..Len(undelivered'), j <= k
          PROVE  Precedes(undelivered'[j], undelivered'[k])
      <4>1. CASE k <= Len(undelivered)
        <5>1. j \in 1..Len(undelivered) /\ k \in 1..Len(undelivered)
          BY <3>1, <3>4, <4>1
        <5>. QED
          BY <3>2, <3>4, <4>1, <5>1 DEF OrderInvariant
      <4>2. CASE ~(k <= Len(undelivered))
        BY <3>2, <3>3, <4>2
      <4>. QED
        BY <4>1, <4>2
    <3>. QED
      BY <2>1, <2>2, <3>3, <3>4 DEF OrderInvariant
  <2>. QED
    BY <1>5, <2>1, <2>3, <2>4 DEF CR!Put
<1>6. CASE CR!Deliver
  <2>1. /\ undelivered # <<>> /\ api' = api
        /\ cache' = Head(undelivered) /\ undelivered' = Tail(undelivered)
    BY <1>6 DEF CR!Deliver
  <2>2. /\ Len(undelivered) \in Nat /\ Len(undelivered) >= 1
        /\ Head(undelivered) = undelivered[1]
        /\ Len(undelivered') = Len(undelivered) - 1
        /\ \A k \in 1..Len(undelivered') : undelivered'[k] = undelivered[k + 1]
    BY <1>3, <2>1, HeadTailProperties
  <2>3. \A k \in 1..Len(undelivered') : k + 1 \in 1..Len(undelivered) /\ 1 <= k + 1
    BY <2>2
  <2>4. /\ Precedes(cache, cache') /\ Precedes(cache', api')
        /\ \A k \in 1..Len(undelivered') :
             Precedes(cache', undelivered'[k]) /\ Precedes(undelivered'[k], api')
    BY <2>1, <2>2, <2>3 DEF OrderInvariant
  <2>5. ASSUME NEW j \in 1..Len(undelivered'), NEW k \in 1..Len(undelivered'), j <= k
        PROVE  Precedes(undelivered'[j], undelivered'[k])
    <3>1. j + 1 <= k + 1 /\ j + 1 \in 1..Len(undelivered) /\ k + 1 \in 1..Len(undelivered)
      BY <2>2, <2>3, <2>5
    <3>. QED
      BY <2>2, <3>1 DEF OrderInvariant
  <2>. QED
    BY <2>4, <2>5 DEF OrderInvariant
<1>. QED
  BY <1>2, <1>4, <1>5, <1>6, ResourceSteps DEF crVars

\* While the present generation is ready, the reconciliation has read its spec.
LEMMA ReadsPresent ==
  ASSUME Typed, OrderInvariant, RunInvariant, pc # Idle
  PROVE  /\ mem.generation = api.generation => mem.spec = api.spec
         /\ api.status.reason = ReadyFor(api.generation) =>
              mem.generation = api.generation /\ mem.spec = api.spec
<1>1. /\ mem.generation \in Nat /\ cache.generation \in Nat
      /\ api.generation \in Nat /\ api.generation \in Generations
  BY GenerationNumbers
<1>2. Precedes(mem, api)
  BY <1>1, PrecedesTransitive DEF OrderInvariant, RunInvariant
<1>3. api.status.reason = ReadyFor(api.generation) => api.generation <= mem.generation
  BY <1>1 DEF RunInvariant
<1>. QED
  BY <1>1, <1>2, <1>3 DEF Precedes

LEMMA RunStep ==
  ASSUME Typed, OrderInvariant, RunInvariant, [Next]_vars
  PROVE  RunInvariant'
<1>1. CRTypeOK /\ StepTypeOK /\ WorldTypeOK /\ RemoteTypeOK
  BY DEF Typed
<1>2. /\ cache.generation \in Nat /\ cache'.generation \in Nat /\ Generations \subseteq Nat
      /\ pc # Idle => mem.generation \in Nat
  <2>1. cache'.generation \in Generations
    BY TypedStep DEF Typed, CRTypeOK, Resources
  <2>. QED
    BY <2>1, GenerationNumbers
<1>3. Precedes(cache, cache') /\ cache.generation <= cache'.generation
  BY OrderStep DEF Precedes
<1>4. ASSUME NEW g \in Generations, api'.status.reason = ReadyFor(g)
      PROVE  \/ api.status.reason = ReadyFor(g)
             \/ pc = "persist" /\ pc' = Idle /\ g = mem.generation
  <2>1. CASE PersistReady /\ Persists /\ api.exists
    <3>1. pc = "persist" /\ pc' = Idle
      BY <2>1 DEF PersistReady, EndReconcile
    <3>2. api'.status.reason \in {api.status.reason, ReadyFor(mem.generation)}
      BY <2>1, PersistedReady
    <3>. QED
      BY <1>4, <3>1, <3>2, ConditionsDiffer
  <2>. QED
    BY <1>4, <2>1, StatusSteps
<1>5. ASSUME NEW g \in Generations, api'.status.reason = ReadyFor(g)
      PROVE  g <= cache'.generation
  <2>1. g \in Nat
    BY <1>2
  <2>2. CASE api.status.reason = ReadyFor(g)
    BY <1>2, <1>3, <2>1, <2>2 DEF RunInvariant
  <2>3. CASE pc = "persist" /\ g = mem.generation
    BY <1>2, <1>3, <2>1, <2>3 DEF RunInvariant, Precedes, Idle
  <2>. QED
    BY <1>4, <1>5, <2>2, <2>3
<1>6. CASE pc' = Idle
  BY <1>5, <1>6 DEF RunInvariant, Acting, Steps, Idle
<1>7. CASE Reconcile /\ pc' # Idle
  <2>1. UNCHANGED crVars
    BY <1>7, RunGoesOn
  <2>2. CASE pc = Idle
    <3>1. EnsureFinalizer \/ BeginReconcile \/ BeginDeletion
      BY <1>7, <2>2
      DEF Reconcile, Adopt, CreateIdentity, ReadIdentity, UpdateIdentity, ReconcileMembership,
          ReadMembership, CreateMembership, ReadCreated, UpdateMembership, ReadUpdated,
          PersistReady, DeleteIdentity, DeleteFinalizer, Idle
    <3>2. /\ mem' = Loaded
          /\ \/ Anchored(cache.spec) /\ pc' = FirstStep(cache)
             \/ pc' = "deleteIdentity"
      BY <1>1, <1>7, <3>1, BeginType DEF Starts
    <3>3. /\ Loaded.generation = cache.generation /\ Loaded.spec = cache.spec
          /\ Loaded.anchor = resolved[AnchorRef(cache.spec)] /\ cache.spec \in Specs
      BY <1>1, LoadedType
    <3>4. Precedes(mem', cache')
      BY <1>2, <2>1, <3>2, <3>3 DEF Precedes, crVars
    <3>5. ASSUME pc' \in Acting PROVE Loaded.anchor \in Targets[AnchorRef(cache.spec)]
      <4>1. Anchored(cache.spec)
        BY <3>2, <3>5 DEF Acting, Deleting
      <4>2. AnchorRef(cache.spec) \in Dependencies
        BY ConstantsAssumption DEF AnchorRef, Dependencies
      <4>. QED
        BY <1>1, <3>3, <4>1, <4>2 DEF Anchored, Required, WorldTypeOK
    <3>. QED
      BY <1>5, <2>1, <3>2, <3>3, <3>4, <3>5 DEF RunInvariant, crVars
  <2>3. CASE pc # Idle
    <3>1. \/ SameRun(mem', mem) /\ pc \notin Deleting
          \/ mem' = mem /\ pc' = "deleteFinalizer"
      BY <1>7, <2>3, RunGoesOn
    <3>2. /\ mem'.generation = mem.generation
          /\ mem'.spec = mem.spec /\ mem'.anchor = mem.anchor
      BY <3>1 DEF SameRun
    <3>3. pc' \in Acting => pc \in Acting
      BY <1>1, <2>3, <3>1, InProgress DEF StepOK, Acting, Deleting
    <3>4. Precedes(mem', cache')
      BY <2>1, <2>3, <3>2 DEF RunInvariant, Precedes, crVars
    <3>. QED
      BY <2>1, <2>3, <3>2, <3>3, <3>4 DEF RunInvariant, crVars
  <2>. QED
    BY <2>2, <2>3
<1>8. CASE ~Reconcile /\ pc' # Idle
  <2>1. /\ pc' = pc /\ pc # Idle /\ mem'.generation = mem.generation
        /\ mem'.spec = mem.spec /\ mem'.anchor = mem.anchor
    BY <1>8, RunInterrupted
  <2>2. Precedes(mem, cache')
    BY <1>2, <1>3, <2>1, PrecedesTransitive DEF RunInvariant
  <2>3. Precedes(mem', cache')
    BY <2>1, <2>2 DEF Precedes
  <2>4. ASSUME NEW g \in Generations, api'.status.reason = ReadyFor(g)
        PROVE  g <= mem'.generation
    BY <1>4, <1>8, <2>1, <2>4 DEF RunInvariant
  <2>. QED
    BY <1>5, <2>1, <2>3, <2>4 DEF RunInvariant
<1>. QED
  BY <1>6, <1>7, <1>8

\* Nothing undoes what is done for an identity but its removal: the running
\* reconciliation writes to it what the same spec declares, and grants each
\* project the roles of the one binding that shows it.
LEMMA DoneKept ==
  ASSUME NoDrift, DistinctProjects, Typed, [Next]_vars,
         NEW i \in IdentityIDs, remote[i].state # "Unused",
         NEW spec \in Specs, NEW refs, refs \subseteq ProjectRefs,
         DoneFor(remote, i, spec, refs),
         pc \in Acting \ {"adopt", "create"} /\ mem.status.identity = i => mem.spec = spec,
         pc \in MembershipSteps => \E ref \in Managed(mem.spec) : WorksOn(ref)
  PROVE  DoneFor(remote', i, spec, refs)
<1>1. CRTypeOK /\ StepTypeOK /\ WorldTypeOK /\ RemoteTypeOK
  BY DEF Typed
<1>2. remote'[i] = remote[i] => DoneFor(remote', i, spec, refs)
  BY DEF DoneFor, Granted
<1>3. CASE CreateIdentity
  BY <1>1, <1>2, <1>3, CreateEffect DEF RemoteTypeOK
<1>4. CASE UpdateIdentity
  <2>1. CASE UNCHANGED remote
    BY <1>2, <2>1
  <2>2. CASE /\ Reachable(mem.status.identity)
             /\ remote' = [remote EXCEPT ![mem.status.identity].name = mem.spec.name,
                                         ![mem.status.identity].config = mem.spec.config]
    <3>1. CASE mem.status.identity # i
      BY <1>1, <1>2, <2>2, <3>1 DEF RemoteTypeOK
    <3>2. CASE mem.status.identity = i
      <4>1. mem.spec = spec /\ remote[i].state = "Present"
        BY <1>4, <2>2, <3>2 DEF UpdateIdentity, Acting, Steps, Deleting, Reachable, Present
      <4>2. /\ remote'[i].name = spec.name /\ remote'[i].config = spec.config
            /\ remote'[i].state = remote[i].state
            /\ remote'[i].membership = remote[i].membership
        BY <1>1, <2>2, <3>2, <4>1 DEF RemoteTypeOK, IdentityRecords
      <4>. QED
        BY <4>1, <4>2 DEF DoneFor, Granted, AsDeclared
    <3>. QED
      BY <3>1, <3>2
  <2>. QED
    BY <1>1, <1>4, <2>1, <2>2, UpdateEffect
<1>5. CASE ReconcileMembership
  <2>1. CASE UNCHANGED remote
    BY <1>2, <2>1
  <2>2. CASE Grants
    <3>1. pc \in MembershipSteps /\ pc \in Acting \ {"adopt", "create"}
      BY <1>1, <1>5, MembershipEffect DEF MembershipSteps, Acting, Steps, Deleting
    <3>2. CASE mem.status.identity # i
      BY <1>1, <1>2, <2>2, <3>2 DEF Grants, RemoteTypeOK
    <3>3. CASE mem.status.identity = i
      <4>1. mem.spec = spec
        BY <3>1, <3>3
      <4>2. PICK cur \in Managed(spec) :
              mem.project \in Targets[cur] /\ mem.roles = spec.roles[cur]
        BY <3>1, <4>1 DEF WorksOn
      <4>3. cur \in ProjectRefs /\ Targets[cur] \subseteq Projects
        BY <4>2, SpecType, ConstantsAssumption
      <4>4. /\ remote'[i].state = remote[i].state /\ remote'[i].name = remote[i].name
            /\ remote'[i].config = remote[i].config
            /\ \A p \in Projects : remote'[i].membership[p] =
                 IF p = mem.project THEN mem.roles ELSE remote[i].membership[p]
        BY <1>1, <2>2, <3>3 DEF Grants, RemoteTypeOK, IdentityRecords, Memberships
      <4>5. ASSUME NEW ref \in refs, Granted(remote, i, spec, ref)
            PROVE  Granted(remote', i, spec, ref)
        <5>1. PICK p \in Targets[ref] : remote[i].membership[p] = spec.roles[ref]
          BY <4>5 DEF Granted
        <5>2. ref \in ProjectRefs /\ p \in Projects
          BY ConstantsAssumption
        <5>3. p = mem.project => ref = cur
          BY <4>2, <4>3, <5>2 DEF DistinctProjects
        <5>. QED
          BY <4>2, <4>4, <5>1, <5>2, <5>3 DEF Granted
      <4>. QED
        BY <4>4, <4>5 DEF DoneFor, AsDeclared
    <3>. QED
      BY <3>2, <3>3
  <2>. QED
    BY <1>1, <1>5, <2>1, <2>2, MembershipEffect
<1>6. ASSUME NEW j \in IdentityIDs, Delete(j) PROVE DoneFor(remote', i, spec, refs)
  <2>1. CASE j = i
    BY <1>1, <1>6, <2>1, DeleteType DEF DoneFor
  <2>2. CASE j # i
    BY <1>1, <1>2, <1>6, <2>2, DeleteType
  <2>. QED
    BY <2>1, <2>2
<1>7. CASE DeleteIdentity \/ DeleteFinalizer
  <2>1. mem.status.identity \in IdentityIDs
    BY <1>1, <1>7, InProgress DEF DeleteIdentity, DeleteFinalizer, StepOK, Idle
  <2>. QED
    BY <1>1, <1>2, <1>6, <1>7, <2>1, DeletionEffect
<1>8. CASE RemoveOutside
  BY <1>6, <1>8 DEF RemoveOutside
<1>9. ~ConfigureOutside /\ ~GrantOutside
  BY DEF ConfigureOutside, GrantOutside, Disturb, NoDrift
<1>10. CASE \/ EnsureFinalizer \/ BeginReconcile \/ BeginDeletion \/ Adopt \/ ReadIdentity
            \/ PersistReady \/ Crash \/ DeliverResource \/ EditSpec \/ DeleteResource
            \/ ChangeDependency \/ RestoreDependency \/ UNCHANGED vars
  BY <1>2, <1>10
  DEF EnsureFinalizer, BeginReconcile, BeginDeletion, Adopt, ReadIdentity, PersistReady, Crash,
      DeliverResource, EditSpec, DeleteResource, ChangeDependency, RestoreDependency, vars
<1>. QED
  BY <1>3, <1>4, <1>5, <1>7, <1>8, <1>9, <1>10 DEF Next, Reconcile, Outside

\* The stored condition: that it is ready stays true, and is true when written.
LEMMA ReadyStays ==
  ASSUME NoDrift, DistinctProjects, Typed, RecordInvariant, OrderInvariant, RunInvariant,
         WorkInvariant, ReadyMeansDeclared, [Next]_vars, pc = "persist" => ~Overtaken,
         api'.status.reason = ReadyFor(api'.generation), api'.status.identity # None
  PROVE  DoneFor(remote', api'.status.identity, api'.spec, Managed(api'.spec))
<1>1. CRTypeOK /\ StepTypeOK /\ WorldTypeOK /\ RemoteTypeOK
  BY DEF Typed
<1>2. /\ api.generation \in Generations /\ api.generation \in Nat
      /\ pc # Idle => mem.generation \in Generations
  BY GenerationNumbers
<1>3. ASSUME NEW i \in IdentityIDs, NEW spec \in Specs, remote[i].state # "Unused",
             DoneFor(remote, i, spec, Managed(spec)),
             pc \in Acting /\ mem.status.identity = i => mem.spec = spec
      PROVE  DoneFor(remote', i, spec, Managed(spec))
  <2>1. Managed(spec) \subseteq ProjectRefs
    BY SpecType
  <2>. QED
    BY <1>3, <2>1, DoneKept DEF WorkInvariant
<1>4. api.spec \in Specs /\ api.status \in Statuses
  BY <1>1 DEF CRTypeOK, Resources
<1>5. \/ api'.generation = api.generation + 1 /\ api'.status = api.status
      \/ api'.generation = api.generation /\ api'.spec = api.spec
  BY NextGeneration
<1>6. CASE api'.generation = api.generation + 1 /\ api'.status = api.status
  <2>1. api'.generation \in Generations
    BY TypedStep, GenerationNumbers DEF Typed, CRTypeOK, Resources
  <2>2. cache.generation \in Nat /\ cache.generation <= api.generation
    BY GenerationNumbers DEF OrderInvariant, Precedes
  <2>. QED
    BY <1>2, <1>6, <2>1, <2>2 DEF RunInvariant
<1>7. CASE /\ api'.generation = api.generation /\ api'.spec = api.spec
           /\ api'.status.reason = api.status.reason
           /\ api'.status.identity \in {api.status.identity, None}
  <2> DEFINE i == api.status.identity
  <2>1. api'.status.identity = i /\ i # None /\ i \in IdentityIDs
    BY <1>4, <1>7 DEF Statuses
  <2>2. remote[i].state # "Unused"
    BY <2>1 DEF RecordInvariant, Recorded, AtHome
  <2>3. DoneFor(remote, i, api.spec, Managed(api.spec))
    BY <1>7, <2>1 DEF ReadyMeansDeclared, DoneFor, Granted, Present
  <2>4. pc \in Acting => mem.spec = api.spec
    BY <1>7, ReadsPresent DEF Acting, Steps, Idle
  <2>. QED
    BY <1>3, <1>4, <1>7, <2>1, <2>2, <2>3, <2>4
<1>8. CASE /\ api'.generation = api.generation /\ api'.spec = api.spec
           /\ PersistReady /\ Persists /\ api.exists
  <2>1. pc = "persist" /\ pc # Idle /\ UNCHANGED remote /\ ~Overtaken
    BY <1>8 DEF PersistReady, Idle
  <2>2. /\ api'.status.identity = mem.status.identity
        /\ api'.status.reason \in {api.status.reason, ReadyFor(mem.generation)}
    BY <1>8, <2>1, PersistedReady
  <2>3. mem.generation = api.generation /\ mem.spec = api.spec
    BY <1>8, <2>1, <2>2, ConditionsDiffer, ReadsPresent
  <2>4. DoneFor(remote, mem.status.identity, mem.spec, Managed(mem.spec))
    BY <2>1 DEF WorkInvariant
  <2>. QED
    BY <1>8, <2>1, <2>2, <2>3, <2>4 DEF DoneFor, Granted
<1>. QED
  BY <1>5, <1>6, <1>7, <1>8, StatusSteps

\* With a memory in which all but the bindings to come are done, the next binding
\* begins or none is left.
LEMMA BindingsGoOn ==
  ASSUME Typed, RunInvariant, pc \in Acting, NEW m, SameRun(m, mem),
         m.status.identity = mem.status.identity, m.todo \subseteq Managed(mem.spec),
         DoneFor(remote', mem.status.identity, mem.spec, Managed(mem.spec) \ m.todo),
         NoMoreBindings(m) \/ (\E ref \in m.todo : StartsBinding(m, ref))
  PROVE  /\ pc' = "persist" =>
              DoneFor(remote', mem'.status.identity, mem'.spec, Managed(mem'.spec))
         /\ pc' \in MembershipSteps => \E ref \in Managed(mem'.spec) : WorksOn(ref)'
         /\ pc' \in {"persist", "readMembership"}
<1>1. CASE NoMoreBindings(m)
  <2>1. /\ pc' = "persist" /\ m.todo = {} /\ mem'.spec = mem.spec
        /\ mem'.status.identity = mem.status.identity
    BY <1>1 DEF NoMoreBindings, SameRun
  <2>2. Managed(mem.spec) \ m.todo = Managed(mem.spec)
    BY <2>1
  <2>. QED
    BY <2>1, <2>2 DEF MembershipSteps
<1>2. ASSUME NEW ref \in m.todo, StartsBinding(m, ref)
      PROVE  pc' = "readMembership" /\ ref \in Managed(mem'.spec) /\ WorksOn(ref)'
  <2>1. /\ pc' = "readMembership" /\ mem'.spec = mem.spec
        /\ mem'.status.identity = mem.status.identity
        /\ mem'.todo = m.todo \ {ref} /\ mem'.roles = mem.spec.roles[ref]
        /\ mem'.project = ProjectFor(m, ref) /\ mem'.project \in Projects
        /\ m.spec = mem.spec /\ m.anchor = mem.anchor
    BY <1>2 DEF StartsBinding, SameRun
  <2>2. mem.spec \in Specs /\ mem.anchor \in Targets[AnchorRef(mem.spec)]
    BY InProgress DEF Typed, RunInvariant, Acting, Steps, Idle
  <2>3. ref \in Managed(mem.spec) /\ ref \in ProjectRefs
    BY <2>2, SpecType
  <2>4. mem'.project \in Targets[ref]
    <3>1. CASE mem.spec.scope = "Project"
      BY <2>1, <2>2, <2>3, <3>1, SpecType DEF ProjectFor
    <3>2. CASE mem.spec.scope # "Project"
      <4>1. mem'.project = resolved[ref]
        BY <2>1, <3>2 DEF ProjectFor
      <4>2. resolved[ref] \in Targets[ref] \cup {None} /\ None \notin Projects
        BY <2>3, ConstantsAssumption DEF Typed, WorldTypeOK, Dependencies
      <4>. QED
        BY <2>1, <4>1, <4>2
    <3>. QED
      BY <3>1, <3>2
  <2>5. Managed(mem'.spec) \ (mem'.todo \cup {ref}) = Managed(mem.spec) \ m.todo
    BY <2>1
  <2>. QED
    BY <2>1, <2>3, <2>4, <2>5 DEF WorksOn
<1>. QED
  BY <1>1, <1>2

\* Each step of a reconciliation leaves done what the next one relies on.
LEMMA WorkStays ==
  ASSUME NoDrift, DistinctProjects, Typed, RecordInvariant, RunInvariant, WorkInvariant,
         [Next]_vars
  PROVE  WorkInvariant'
<1>1. CRTypeOK /\ StepTypeOK /\ WorldTypeOK /\ RemoteTypeOK
  BY DEF Typed
<1>2. pc' \notin {"persist"} \cup MembershipSteps => WorkInvariant'
  BY DEF WorkInvariant, MembershipSteps
<1>3. /\ Idle \notin {"persist"} \cup MembershipSteps /\ Idle \notin Acting
      /\ {"adopt", "create", "read", "update"} \cap ({"persist"} \cup MembershipSteps) = {}
      /\ Deleting \cap ({"persist"} \cup MembershipSteps) = {}
      /\ {"persist", "read", "update"} \cup MembershipSteps \subseteq Acting \ {"adopt", "create"}
  BY DEF Idle, MembershipSteps, Deleting, Acting, Steps
<1> DEFINE i == mem.status.identity
<1>4. CASE EnsureFinalizer \/ BeginReconcile \/ BeginDeletion
  <2>1. pc' = Idle \/ pc' = FirstStep(cache) \/ pc' = "deleteIdentity"
    BY <1>1, <1>4, BeginType DEF Starts
  <2>. QED
    BY <1>2, <1>3, <2>1 DEF FirstStep, Deleting
<1>5. CASE Adopt \/ CreateIdentity
  BY <1>1, <1>2, <1>3, <1>5, AdoptEffect, CreateEffect DEF Fails, Acquires
<1>6. CASE ReadIdentity \/ UpdateIdentity
  <2>1. /\ pc \in Acting /\ pc # Idle /\ StepOK(pc, mem)
        /\ i \in IdentityIDs /\ mem.spec \in Specs
    BY <1>1, <1>3, <1>6, InProgress DEF ReadIdentity, UpdateIdentity, StepOK
  <2>2. CASE Begins
    <3>1. /\ SameRun(FirstMemory, mem) /\ FirstMemory.status.identity = i
          /\ FirstMemory.todo = Managed(mem.spec)
      BY <2>1, FirstMemoryType
    <3>2. remote'[i].state = "Present" => AsDeclared(remote'[i], mem.spec)
      <4>1. CASE ReadIdentity
        <5>1. UNCHANGED remote /\ ~NeedsUpdate(i, mem.spec)
          BY <1>1, <2>2, <4>1, ReadEffect
          DEF Fails, Clears, Begins, NoMoreBindings, StartsBinding, Idle
        <5>. QED
          BY <5>1 DEF NeedsUpdate, AsDeclared
      <4>2. CASE UpdateIdentity
        <5>1. remote' = [remote EXCEPT ![i].name = mem.spec.name, ![i].config = mem.spec.config]
          BY <1>1, <2>2, <4>2, UpdateEffect DEF Fails, Begins, NoMoreBindings, StartsBinding, Idle
        <5>. QED
          BY <1>1, <2>1, <5>1 DEF AsDeclared, RemoteTypeOK, IdentityRecords
      <4>. QED
        BY <1>6, <4>1, <4>2
    <3>3. DoneFor(remote', i, mem.spec, Managed(mem.spec) \ FirstMemory.todo)
      BY <3>1, <3>2 DEF DoneFor
    <3>4. NoMoreBindings(FirstMemory) \/ (\E ref \in FirstMemory.todo : StartsBinding(FirstMemory, ref))
      BY <2>2, <3>1 DEF Begins
    <3>. QED
      BY <2>1, <3>1, <3>3, <3>4, BindingsGoOn DEF WorkInvariant
  <2>. QED
    BY <1>1, <1>2, <1>3, <1>6, <2>2, ReadEffect, UpdateEffect DEF Fails, Clears
<1>7. ASSUME pc \in {"persist"} \cup MembershipSteps
      PROVE  /\ pc \in Acting /\ pc # Idle /\ StepOK(pc, mem)
             /\ i \in IdentityIDs /\ mem.spec \in Specs
             /\ remote[i].state # "Unused" /\ Managed(mem.spec) \subseteq ProjectRefs
  <2>1. /\ pc \in Acting /\ pc # Idle /\ StepOK(pc, mem) /\ i \in IdentityIDs
        /\ mem.spec \in Specs
    BY <1>1, <1>3, <1>7, InProgress DEF StepOK
  <2>2. AtHome(remote, mem.status) /\ i # None
    BY <2>1, ConstantsAssumption DEF RecordInvariant, RemembersPairs
  <2>. QED
    BY <2>1, <2>2, SpecType DEF AtHome
<1>8. ASSUME pc \in {"persist"} \cup MembershipSteps, NEW refs, refs \subseteq Managed(mem.spec),
             DoneFor(remote, i, mem.spec, refs)
      PROVE  DoneFor(remote', i, mem.spec, refs)
  BY <1>7, <1>8, DoneKept DEF WorkInvariant
<1>9. ASSUME pc \in MembershipSteps
      PROVE  /\ pc \in {"persist"} \cup MembershipSteps
             /\ mem.project \in Projects /\ mem.roles \in RoleSets
             /\ \E ref \in Managed(mem.spec) : WorksOn(ref)
  BY <1>7, <1>9 DEF StepOK, WorkInvariant
<1>10. CASE ReconcileMembership
  <2>1. pc \in MembershipSteps
    BY <1>1, <1>10, MembershipEffect
  <2>2. CASE Fails
    BY <1>2, <1>3, <2>2 DEF Fails
  <2>3. CASE /\ pc' \in {"createMembership", "updateMembership"}
             /\ mem' = mem /\ UNCHANGED <<crVars, remote>>
    BY <1>9, <2>1, <2>3 DEF WorkInvariant, WorksOn, DoneFor, Granted
  <2>4. CASE /\ Reports /\ UNCHANGED remote
             /\ Held = mem.roles \/ (pc = "readUpdated" /\ Held # None)
    <3>1. Held = mem.roles /\ Held # None
      BY <1>9, <2>1, <2>4, ConstantsAssumption DEF WorkInvariant
    <3>2. remote[i].membership[mem.project] = mem.roles
      BY <3>1 DEF Held
    <3>3. PICK ref \in Managed(mem.spec) : WorksOn(ref)
      BY <1>9, <2>1
    <3>4. Granted(remote, i, mem.spec, ref)
      BY <3>2, <3>3 DEF Granted, WorksOn
    <3>5. DoneFor(remote, i, mem.spec, Managed(mem.spec) \ mem.todo)
      BY <3>3, <3>4 DEF WorksOn, DoneFor
    <3>6. DoneFor(remote', i, mem.spec, Managed(mem.spec) \ mem.todo)
      BY <2>4, <3>5 DEF DoneFor, Granted
    <3>7. /\ SameRun(ReportedMemory, mem) /\ ReportedMemory.status.identity = i
          /\ ReportedMemory.todo = mem.todo /\ mem.todo \subseteq Managed(mem.spec)
      BY <1>7, <1>9, <2>1, ReportedMemoryType DEF StepOK
    <3>8. NoMoreBindings(ReportedMemory)
          \/ (\E r \in ReportedMemory.todo : StartsBinding(ReportedMemory, r))
      BY <2>4, <3>7 DEF Reports
    <3>. QED
      BY <1>7, <1>9, <2>1, <3>6, <3>7, <3>8, BindingsGoOn DEF WorkInvariant
  <2>5. CASE Grants /\ pc' \in {"readCreated", "readUpdated"} /\ mem' = mem
    <3>1. PICK ref \in Managed(mem.spec) : WorksOn(ref)
      BY <1>9, <2>1
    <3>2. DoneFor(remote', i, mem.spec, Managed(mem.spec) \ (mem.todo \cup {ref}))
      BY <1>8, <1>9, <2>1, <3>1 DEF WorksOn
    <3>3. WorksOn(ref)'
      BY <2>5, <3>1, <3>2 DEF WorksOn
    <3>4. remote'[i].membership[mem.project] = mem.roles
      BY <1>1, <1>7, <1>9, <2>1, <2>5 DEF Grants, RemoteTypeOK, IdentityRecords, Memberships
    <3>5. Held' \in {mem.roles, None}
      BY <2>5, <3>4 DEF Held
    <3>. QED
      BY <2>5, <3>3, <3>5 DEF WorkInvariant
  <2>. QED
    BY <1>1, <1>10, <2>2, <2>3, <2>4, <2>5, MembershipEffect
<1>11. CASE PersistReady \/ DeleteIdentity \/ DeleteFinalizer
  BY <1>1, <1>2, <1>3, <1>11, PersistEffect, DeletionEffect DEF Deleting
<1>12. CASE ~Reconcile /\ pc' # Idle
  <2>1. /\ pc' = pc /\ mem'.spec = mem.spec /\ mem'.status = mem.status
        /\ mem'.todo = mem.todo /\ mem'.project = mem.project /\ mem'.roles = mem.roles
    BY <1>12, RunInterrupted
  <2>2. pc' = "persist" => DoneFor(remote', i, mem.spec, Managed(mem.spec))
    BY <1>7, <1>8, <2>1 DEF WorkInvariant
  <2>3. ASSUME pc' \in MembershipSteps PROVE \E ref \in Managed(mem.spec) : WorksOn(ref)'
    <3>1. PICK ref \in Managed(mem.spec) : WorksOn(ref)
      BY <1>9, <2>1, <2>3
    <3>2. DoneFor(remote', i, mem.spec, Managed(mem.spec) \ (mem.todo \cup {ref}))
      BY <1>8, <1>9, <2>1, <2>3, <3>1 DEF WorksOn
    <3>. QED
      BY <2>1, <3>1, <3>2 DEF WorksOn
  <2>4. ASSUME pc' \in {"readCreated", "readUpdated"} PROVE Held' \in {mem.roles, None}
    <3>1. pc \in MembershipSteps /\ i \in IdentityIDs /\ Held \in {mem.roles, None}
      BY <1>7, <2>1, <2>4 DEF MembershipSteps, WorkInvariant
    <3>2. UNCHANGED remote \/ (\E j \in IdentityIDs : Delete(j))
      BY <1>12, EditType, DependencyType, DeliverType
      DEF Next, Outside, Crash, vars, RemoveOutside, ConfigureOutside, GrantOutside, Disturb, NoDrift
    <3>3. remote'[i] = remote[i] \/ remote'[i].state = "Deleted"
      BY <1>1, <3>1, <3>2, DeleteType
    <3>. QED
      BY <2>1, <3>1, <3>3 DEF Held, Present
  <2>. QED
    BY <2>1, <2>2, <2>3, <2>4 DEF WorkInvariant
<1>13. CASE pc' = Idle
  BY <1>2, <1>3, <1>13
<1>. QED
  BY <1>4, <1>5, <1>6, <1>10, <1>11, <1>12, <1>13 DEF Reconcile

WorkAndOrder == OrderInvariant /\ RunInvariant /\ WorkInvariant

\* No step makes Ready for the present generation say of an identity that it and
\* every declared binding are as declared while they are not, stale caches
\* included, but for the last patch of an overtaken reconciliation (the order of
\* the calls of reconcileIdentity, and when it patches Ready).
THEOREM ReadySafe == NoDrift /\ DistinctProjects => (Spec => ReadyHonest)
<1> SUFFICES ASSUME NoDrift, DistinctProjects PROVE Spec => ReadyHonest
  OBVIOUS
<1> DEFINE Honest == ReadyMeansDeclared /\ ~ReadyMeansDeclared' => pc = "persist" /\ Overtaken
<1>1. ASSUME Init PROVE WorkAndOrder
  <2>1. PICK s \in Specs :
          api = [exists |-> TRUE, deleting |-> FALSE, finalizer |-> FALSE,
                 generation |-> 0, spec |-> s, status |-> NoStatus]
    BY <1>1 DEF Init
  <2>2. pc = Idle /\ cache = api /\ undelivered = <<>>
    BY <1>1 DEF Init
  <2>3. api.status.reason = NotReady("") /\ "" \in Reasons /\ api.generation = 0
    BY <2>1 DEF NoStatus, Reasons
  <2>4. \A g : api.status.reason # ReadyFor(g)
    <3>1. \A g : NotReady("") # ReadyFor(g)
      BY <2>3, ConditionsDiffer, Zenon
    <3>. QED
      BY <2>3, <3>1
  <2>5. OrderInvariant
    <3>1. Precedes(cache, api)
      <4>1. cache.generation = 0 /\ api.generation = 0 /\ cache.spec = api.spec
        BY <2>2, <2>3
      <4>. QED
        BY <4>1 DEF Precedes
    <3>2. 1..Len(undelivered) = {}
      BY <2>2
    <3>. QED
      BY <3>1, <3>2 DEF OrderInvariant
  <2>. QED
    BY <2>2, <2>4, <2>5
    DEF WorkAndOrder, RunInvariant, WorkInvariant, Idle, Acting, Steps, MembershipSteps
<1>2. Typed /\ RecordInvariant /\ WorkAndOrder /\ [Next]_vars => WorkAndOrder'
  BY OrderStep, RunStep, WorkStays DEF WorkAndOrder
<1>3. Typed /\ RecordInvariant /\ WorkAndOrder /\ [Next]_vars => [Honest]_vars
  <2> SUFFICES ASSUME Typed, RecordInvariant, WorkAndOrder, [Next]_vars,
                      ReadyMeansDeclared, pc = "persist" => ~Overtaken
               PROVE  ReadyMeansDeclared'
    OBVIOUS
  <2>1. api'.status.reason = ReadyFor(api'.generation) /\ api'.status.identity # None =>
          DoneFor(remote', api'.status.identity, api'.spec, Managed(api'.spec))
    BY ReadyStays DEF WorkAndOrder
  <2>. QED
    BY <2>1 DEF ReadyMeansDeclared, DoneFor, Granted, Present
<1>. QED
  BY <1>1, <1>2, <1>3, TypedHolds, RecordHolds, PTL DEF Spec, ReadyHonest
=============================================================================
