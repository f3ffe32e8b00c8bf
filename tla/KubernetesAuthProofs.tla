------------------------- MODULE KubernetesAuthProofs -----------------------
(***************************************************************************)
(* Theorems about KubernetesAuth for all values of its constants.          *)
(***************************************************************************)
EXTENDS KubernetesAuth, ControllerProofs

CRTypeOK     == api \in Resources /\ cache \in Resources /\ undelivered \in Seq(Resources)
RemoteTypeOK == remote \in [AuthIDs -> AuthRecords]
StepTypeOK   == \/ pc = Idle /\ mem = None
                \/ pc \in Steps /\ mem \in Memories
WorldTypeOK  ==
  /\ identity \in Identities \cup {None} /\ secret \in Tokens \cup {None}
  /\ connected \in BOOLEAN
  /\ faults \in Nat /\ disturbances \in Nat

\* The type invariant, by groups of variables.
LEMMA TypeParts == TypeOK <=> CRTypeOK /\ RemoteTypeOK /\ StepTypeOK /\ WorldTypeOK
BY DEF TypeOK, CRTypeOK, RemoteTypeOK, StepTypeOK, WorldTypeOK

-----------------------------------------------------------------------------
(* Lemmas about the operators the actions are built from *)

\* A patched status is a status.
LEMMA MergePatchType ==
  ASSUME NEW stored \in Statuses, NEW before \in Statuses, NEW after \in Statuses
  PROVE  MergePatch(stored, before, after) \in Statuses
<1> DEFINE p == MergePatch(stored, before, after)
<1>1. DOMAIN stored = {"auth", "identity", "reason"}
  BY DEF Statuses
<1>2. p = [auth |-> p.auth, identity |-> p.identity, reason |-> p.reason]
  BY <1>1 DEF MergePatch
<1>3. /\ p.auth \in AuthIDs \cup {None}
      /\ p.identity \in Identities \cup {None}
      /\ p.reason \in Reasons
  BY <1>1 DEF MergePatch, Statuses
<1>. QED
  BY <1>2, <1>3 DEF Statuses

LEMMA PutType ==
  ASSUME CRTypeOK, NEW r \in Resources, CR!Put(r)
  PROVE  CRTypeOK'
BY DEF CRTypeOK, CR!Put

LEMMA PatchStatusType ==
  ASSUME CRTypeOK, NEW before \in Statuses, NEW after \in Statuses,
         PatchStatus(before, after)
  PROVE  CRTypeOK'
<1>1. CASE api.exists
  <2>1. MergePatch(api.status, before, after) \in Statuses
    BY MergePatchType DEF CRTypeOK, Resources
  <2>2. [api EXCEPT !.status = MergePatch(@, before, after)] \in Resources
    BY <2>1 DEF CRTypeOK, Resources
  <2>. QED
    BY <1>1, <2>2, PutType DEF PatchStatus
<1>2. CASE ~api.exists
  BY <1>2 DEF PatchStatus, crVars, CRTypeOK
<1>. QED
  BY <1>1, <1>2

LEMMA ReturnErrorType ==
  ASSUME CRTypeOK, NEW status \in Statuses, NEW reason \in Reasons,
         ReturnError(status, reason)
  PROVE  CRTypeOK' /\ StepTypeOK'
<1>1. [status EXCEPT !.reason = reason] \in Statuses
  BY DEF Statuses
<1>. QED
  BY <1>1, PatchStatusType DEF ReturnError, EndReconcile, StepTypeOK

LEMMA RemoveFinalizerType ==
  ASSUME CRTypeOK, NEW current, RemoveFinalizer(current)
  PROVE  CRTypeOK'
<1>1. WithoutFinalizer(api) \in Resources
  BY DEF WithoutFinalizer, CRTypeOK, Resources
<1>2. CASE current /\ api.finalizer
  BY <1>1, <1>2, PutType DEF RemoveFinalizer
<1>3. CASE ~(current /\ api.finalizer)
  BY <1>3 DEF RemoveFinalizer, crVars, CRTypeOK
<1>. QED
  BY <1>2, <1>3

LEMMA ContinueType ==
  ASSUME NEW step \in Steps, NEW m \in Memories, Continue(step, m)
  PROVE  StepTypeOK'
BY DEF Continue, StepTypeOK

\* Each group of variables is typed by the actions that leave it alone.
LEMMA UnchangedTypes ==
  /\ CRTypeOK /\ UNCHANGED crVars => CRTypeOK'
  /\ RemoteTypeOK /\ UNCHANGED remote => RemoteTypeOK'
  /\ StepTypeOK /\ UNCHANGED <<pc, mem>> => StepTypeOK'
  /\ EndReconcile => StepTypeOK'
BY DEF crVars, CRTypeOK, RemoteTypeOK, StepTypeOK, EndReconcile

\* Between two steps of a reconciliation its memory is defined.
LEMMA InProgress ==
  ASSUME StepTypeOK, pc # Idle
  PROVE  mem \in Memories /\ mem.status \in Statuses /\ mem.before \in Statuses
BY DEF StepTypeOK, Memories

\* The memory with an observed method, and outdated by another writer.
LEMMA MemoryType ==
  ASSUME NEW m \in Memories
  PROVE  /\ \A s \in Statuses : [m EXCEPT !.status = s] \in Memories
         /\ \A t \in Tokens \cup {None} : [m EXCEPT !.token = t] \in Memories
         /\ [m EXCEPT !.current = FALSE] \in Memories
BY DEF Memories

LEMMA ObservedType ==
  ASSUME mem \in Memories, NEW a \in AuthIDs
  PROVE  Observed(a) \in Statuses
BY DEF Memories, Statuses, Observed

\* A fresh id is one of an unused method.
LEMMA FreshIDType ==
  ASSUME Fresh # {}
  PROVE  FreshID \in AuthIDs /\ remote[FreshID].state = "Unused"
BY DEF Fresh, FreshID

LEMMA AttachType ==
  ASSUME RemoteTypeOK, NEW a \in AuthIDs, NEW i \in Identities \cup {None},
         NEW config \in Configs, NEW token \in Tokens \cup {None},
         Attach(a, i, config, token)
  PROVE  RemoteTypeOK'
BY DEF RemoteTypeOK, Attach, AuthRecords

LEMMA ResolveSecretsType ==
  ASSUME CRTypeOK, WorldTypeOK, NEW m \in Memories, ResolveSecrets(m)
  PROVE  CRTypeOK' /\ StepTypeOK'
<1>1. m.status \in Statuses /\ {"SecretNotReady", "CreationNotAllowed"} \subseteq Reasons
  BY DEF Memories, Reasons
<1>2. CASE ReturnError(m.status, "SecretNotReady") \/ ReturnError(m.status, "CreationNotAllowed")
  BY <1>1, <1>2, ReturnErrorType
<1>3. ASSUME NEW step \in {"create", "read"},
             Continue(step, [m EXCEPT !.token = IF m.spec.reviewer THEN secret ELSE None]),
             UNCHANGED crVars
      PROVE  CRTypeOK' /\ StepTypeOK'
  <2>1. [m EXCEPT !.token = IF m.spec.reviewer THEN secret ELSE None] \in Memories
    BY MemoryType DEF WorldTypeOK
  <2>2. step \in Steps
    BY DEF Steps
  <2>. QED
    BY <1>3, <2>1, <2>2, ContinueType, UnchangedTypes
<1>. QED
  BY <1>2, <1>3 DEF ResolveSecrets

LEMMA CallFailsType ==
  ASSUME CRTypeOK, RemoteTypeOK, StepTypeOK, pc # Idle, NEW reason \in Reasons,
         CallFails(reason) \/ Refused(reason)
  PROVE  CRTypeOK' /\ StepTypeOK' /\ RemoteTypeOK'
BY InProgress, ReturnErrorType, UnchangedTypes DEF CallFails, Refused

LEMMA AnswerLostType ==
  ASSUME CRTypeOK, StepTypeOK, pc # Idle, NEW reason \in Reasons, AnswerLost(reason)
  PROVE  CRTypeOK' /\ StepTypeOK'
BY InProgress, ReturnErrorType DEF AnswerLost

-----------------------------------------------------------------------------
(* Type correctness *)

LEMMA InitType == Init => TypeOK
<1> SUFFICES ASSUME Init PROVE TypeOK
  OBVIOUS
<1>1. CRTypeOK
  <2>1. NoStatus \in Statuses
    BY DEF NoStatus, Statuses, Reasons
  <2>2. PICK s \in Specs :
          api = [exists |-> TRUE, deleting |-> FALSE, finalizer |-> FALSE,
                 spec |-> s, status |-> NoStatus]
    BY DEF Init
  <2>. QED
    BY <2>1, <2>2 DEF Resources, CRTypeOK, Init
<1>2. RemoteTypeOK
  <2>1. PICK i \in [InitiallyAttached -> Identities], g \in [InitiallyAttached -> Configs] :
          remote = [a \in AuthIDs |->
            IF a \in InitiallyAttached
            THEN [state |-> "Attached", identity |-> i[a], config |-> g[a], token |-> None]
            ELSE Unused]
    BY DEF Init
  <2>. QED
    BY <2>1 DEF RemoteTypeOK, AuthRecords, Unused
<1>. QED
  BY <1>1, <1>2, TypeParts DEF Init, StepTypeOK, WorldTypeOK

\* Every step of a reconciliation leaves its surroundings alone and adds at most
\* one fault.
LEMMA ReconcileWorld ==
  ASSUME WorldTypeOK, Reconcile \/ Crash
  PROVE  WorldTypeOK'
<1>1. UNCHANGED authVars /\ (NoFault \/ \E kind : Fault(kind))
  BY DEF Reconcile, Crash, EnsureFinalizer, BeginReconcile, BeginDeletion, ReadCache,
         Adopt, AttachAuth, ReadAuth, UpdateAuth, PersistReady, DetachAuth,
         DeleteFinalizer, CallFails, Refused, AnswerLost, NoFault
<1>. QED
  BY <1>1 DEF WorldTypeOK, authVars, NoFault, Fault

\* The first step of a reconciliation.
LEMMA BeginType ==
  ASSUME CRTypeOK, RemoteTypeOK, StepTypeOK, WorldTypeOK,
         EnsureFinalizer \/ BeginReconcile \/ BeginDeletion
  PROVE  CRTypeOK' /\ RemoteTypeOK' /\ StepTypeOK'
<1>1. Loaded \in Memories /\ cache.status \in Statuses
  BY DEF Loaded, CRTypeOK, WorldTypeOK, Resources, Memories, CR!Current
<1>2. RemoteTypeOK'
  BY UnchangedTypes DEF EnsureFinalizer, BeginReconcile, BeginDeletion
<1>3. CASE EnsureFinalizer
  <2>1. [api EXCEPT !.finalizer = TRUE] \in Resources
    BY DEF CRTypeOK, Resources
  <2>. QED
    BY <1>2, <1>3, <2>1, PutType, UnchangedTypes DEF EnsureFinalizer
<1>4. CASE BeginReconcile
  <2>1. "adopt" \in Steps /\ {"IdentityNotReady", "ConnectionNotReady"} \subseteq Reasons
    BY DEF Steps, Reasons
  <2>. QED
    BY <1>1, <1>2, <1>4, <2>1, ContinueType, ReturnErrorType, ResolveSecretsType,
       UnchangedTypes DEF BeginReconcile
<1>5. CASE BeginDeletion
  <2>1. "delete" \in Steps
    BY DEF Steps
  <2>. QED
    BY <1>1, <1>2, <1>5, <2>1, ContinueType, RemoveFinalizerType, UnchangedTypes
    DEF BeginDeletion
<1>. QED
  BY <1>3, <1>4, <1>5

\* The calls of a reconciliation.
LEMMA CallType ==
  ASSUME CRTypeOK, RemoteTypeOK, StepTypeOK, WorldTypeOK,
         Adopt \/ AttachAuth \/ ReadAuth \/ UpdateAuth \/ PersistReady
  PROVE  CRTypeOK' /\ RemoteTypeOK' /\ StepTypeOK'
<1>1. pc # Idle
  BY DEF Adopt, AttachAuth, ReadAuth, UpdateAuth, PersistReady, Idle
<1>2. mem \in Memories /\ mem.status \in Statuses /\ mem.before \in Statuses
  BY <1>1, InProgress
<1>3. ASSUME NEW a \in AuthIDs
      PROVE  Observed(a) \in Statuses /\ [mem EXCEPT !.status = Observed(a)] \in Memories
  BY <1>2, ObservedType, MemoryType
<1>4. {"ExternalReadFailed", "ExternalCreateFailed", "ExternalUpdateFailed", "Ready"}
        \subseteq Reasons
  BY DEF Reasons
<1>5. {"read", "update", "persist"} \subseteq Steps
  BY DEF Steps
<1>6. \A i : AttachedTo(i) \subseteq AuthIDs
  BY DEF AttachedTo
<1>7. CASE Adopt
  <2>1. CASE CallFails("ExternalReadFailed")
    BY <1>1, <1>4, <2>1, CallFailsType
  <2>2. CASE UNCHANGED remote /\ \E m \in Memories : ResolveSecrets(m)
    BY <2>2, ResolveSecretsType, UnchangedTypes
  <2>. QED
    BY <1>2, <1>3, <1>6, <1>7, <2>1, <2>2 DEF Adopt
<1>8. CASE AttachAuth
  <2>1. CASE \/ CallFails("ExternalCreateFailed") \/ Refused("ExternalCreateFailed")
    BY <1>1, <1>4, <2>1, CallFailsType
  <2>2. CASE /\ Fresh # {} /\ Attach(FreshID, mem.anchor, mem.spec.config, mem.token)
             /\ \/ /\ Continue("read", [mem EXCEPT !.status = Observed(FreshID)])
                   /\ UNCHANGED crVars
                \/ AnswerLost("ExternalCreateFailed")
    <3>1. /\ mem.anchor \in Identities \cup {None} /\ mem.spec.config \in Configs
          /\ mem.token \in Tokens \cup {None} /\ FreshID \in AuthIDs
      BY <1>2, <2>2, FreshIDType, ConstantsAssumption DEF Memories, Specs
    <3>2. RemoteTypeOK'
      BY <2>2, <3>1, AttachType
    <3>. QED
      BY <1>1, <1>3, <1>4, <1>5, <2>2, <3>1, <3>2, ContinueType, AnswerLostType, UnchangedTypes
  <2>. QED
    BY <1>8, <2>1, <2>2 DEF AttachAuth
<1>9. CASE ReadAuth
  <2>1. ClearedStatus \in Statuses
    BY <1>2 DEF ClearedStatus, Statuses, Reasons
  <2>2. CASE CallFails("ExternalReadFailed")
    BY <1>1, <1>4, <2>2, CallFailsType
  <2>3. CASE /\ UNCHANGED <<crVars, remote>>
             /\ \E a \in AuthIDs, step \in {"update", "persist"} :
                  Continue(step, [mem EXCEPT !.status = Observed(a)])
    BY <1>3, <1>5, <2>3, ContinueType, UnchangedTypes
  <2>4. CASE PatchStatus(mem.status, ClearedStatus) /\ EndReconcile /\ UNCHANGED remote
    BY <1>2, <2>1, <2>4, PatchStatusType, UnchangedTypes
  <2>. QED
    BY <1>6, <1>9, <2>2, <2>3, <2>4 DEF ReadAuth
<1>10. CASE UpdateAuth
  <2>1. CASE CallFails("ExternalUpdateFailed") \/ Refused("ExternalUpdateFailed")
    BY <1>1, <1>4, <2>1, CallFailsType
  <2>2. ASSUME NEW a \in AuthIDs, remote' = [remote EXCEPT ![a] = Patched(@)],
               \/ /\ Continue("persist", [mem EXCEPT !.status = Observed(a)])
                  /\ UNCHANGED crVars
               \/ AnswerLost("ExternalUpdateFailed")
        PROVE  CRTypeOK' /\ RemoteTypeOK' /\ StepTypeOK'
    <3>1. Patched(remote[a]) \in AuthRecords
      <4>1. mem.spec.config \in Configs /\ mem.token \in Tokens \cup {None}
        BY <1>2, ConstantsAssumption DEF Memories, Specs
      <4>2. remote[a] \in AuthRecords
        BY DEF RemoteTypeOK
      <4>. QED
        BY <4>1, <4>2 DEF Patched, AuthRecords
    <3>2. RemoteTypeOK'
      BY <2>2, <3>1 DEF RemoteTypeOK
    <3>. QED
      BY <1>1, <1>3, <1>4, <1>5, <2>2, <3>2, ContinueType, AnswerLostType, UnchangedTypes
  <2>. QED
    BY <1>6, <1>10, <2>1, <2>2 DEF UpdateAuth
<1>11. CASE PersistReady
  <2>1. [mem.status EXCEPT !.reason = "Ready"] \in Statuses
    BY <1>2, <1>4 DEF Statuses
  <2>. QED
    BY <1>2, <1>11, <2>1, PatchStatusType, UnchangedTypes DEF PersistReady
<1>. QED
  BY <1>7, <1>8, <1>9, <1>10, <1>11

\* The steps of a deletion, and a reconciliation that breaks off.
LEMMA DeletionStepType ==
  ASSUME CRTypeOK, RemoteTypeOK, StepTypeOK, DetachAuth \/ DeleteFinalizer \/ Crash
  PROVE  CRTypeOK' /\ RemoteTypeOK' /\ StepTypeOK'
<1>1. CASE DetachAuth
  <2>1. mem \in Memories /\ "deleteFinalizer" \in Steps
    BY <1>1, InProgress DEF DetachAuth, Idle, Steps
  <2>2. ASSUME NEW a \in AuthIDs
        PROVE  [remote[a] EXCEPT !.state = "Detached"] \in AuthRecords /\ remote[a] \in AuthRecords
    BY DEF RemoteTypeOK, AuthRecords
  <2>3. RemoteTypeOK'
    BY <1>1, <2>2 DEF DetachAuth, RemoteTypeOK
  <2>. QED
    BY <1>1, <2>1, <2>3, ContinueType, UnchangedTypes DEF DetachAuth
<1>2. CASE DeleteFinalizer \/ Crash
  BY <1>2, RemoveFinalizerType, UnchangedTypes DEF DeleteFinalizer, Crash
<1>. QED
  BY <1>1, <1>2

\* Users, other controllers and Infisical administrators.
LEMMA OutsideType ==
  ASSUME CRTypeOK, RemoteTypeOK, StepTypeOK, WorldTypeOK, Outside
  PROVE  CRTypeOK' /\ RemoteTypeOK' /\ StepTypeOK' /\ WorldTypeOK'
<1>1. WorldTypeOK'
  <2>1. /\ faults' \in Nat /\ disturbances' \in Nat
    BY DEF WorldTypeOK, Outside, Disturb, EditSpec, DeleteResource, DetachOutside,
           AttachOutside, ConfigureOutside, ChangeIdentity, RotateSecret, LoseConnection,
           RestoreDependency
  <2>2. identity' \in Identities \cup {None} /\ secret' \in Tokens \cup {None}
    BY DEF WorldTypeOK, Outside, EditSpec, DeleteResource, DetachOutside, AttachOutside,
           ConfigureOutside, ChangeIdentity, RotateSecret, LoseConnection, RestoreDependency
  <2>3. connected' \in BOOLEAN
    BY DEF WorldTypeOK, Outside, EditSpec, DeleteResource, DetachOutside, AttachOutside,
           ConfigureOutside, ChangeIdentity, RotateSecret, LoseConnection, RestoreDependency
  <2>. QED
    BY <2>1, <2>2, <2>3 DEF WorldTypeOK
<1>2. OutdateCopy /\ UNCHANGED pc => StepTypeOK'
  BY MemoryType DEF OutdateCopy, StepTypeOK
<1>3. CASE EditSpec \/ DeleteResource
  <2>1. ASSUME NEW s \in Specs PROVE [api EXCEPT !.spec = s] \in Resources
    BY DEF CRTypeOK, Resources
  <2>2. [api EXCEPT !.deleting = api.finalizer, !.exists = api.finalizer] \in Resources
    BY DEF CRTypeOK, Resources
  <2>. QED
    BY <1>1, <1>2, <1>3, <2>1, <2>2, PutType, UnchangedTypes
    DEF EditSpec, DeleteResource, Disturb
<1>4. CASE DetachOutside \/ AttachOutside \/ ConfigureOutside
  <2>1. UNCHANGED <<pc, mem>> /\ UNCHANGED crVars
    BY <1>4 DEF DetachOutside, AttachOutside, ConfigureOutside, Disturb, crVars
  <2>2. RemoteTypeOK'
    BY <1>4, FreshIDType, AttachType
    DEF DetachOutside, AttachOutside, ConfigureOutside, RemoteTypeOK, AuthRecords
  <2>. QED
    BY <1>1, <2>1, <2>2, UnchangedTypes
<1>5. CASE ChangeIdentity \/ RotateSecret \/ LoseConnection \/ RestoreDependency
  BY <1>1, <1>5, UnchangedTypes
  DEF ChangeIdentity, RotateSecret, LoseConnection, RestoreDependency, Disturb
<1>. QED
  BY <1>3, <1>4, <1>5 DEF Outside

LEMMA TypeStep == TypeOK /\ [Next]_vars => TypeOK'
<1> SUFFICES ASSUME CRTypeOK, RemoteTypeOK, StepTypeOK, WorldTypeOK, [Next]_vars
             PROVE  CRTypeOK' /\ RemoteTypeOK' /\ StepTypeOK' /\ WorldTypeOK'
  BY TypeParts DEF TypeOK, CRTypeOK, RemoteTypeOK, StepTypeOK, WorldTypeOK
<1>1. CASE Reconcile \/ Crash
  BY <1>1, ReconcileWorld, BeginType, CallType, DeletionStepType DEF Reconcile
<1>2. CASE DeliverResource
  <2>1. CRTypeOK'
    BY <1>2 DEF DeliverResource, CR!Deliver, CRTypeOK
  <2>. QED
    BY <1>2, <2>1, UnchangedTypes DEF DeliverResource, authVars, WorldTypeOK
<1>3. CASE Outside
  BY <1>3, OutsideType
<1>4. CASE UNCHANGED vars
  BY <1>4, UnchangedTypes DEF vars, authVars, WorldTypeOK
<1>. QED
  BY <1>1, <1>2, <1>3, <1>4 DEF Next

\* Every variable keeps its type, whatever interleaves with a reconciliation;
\* in particular an ended reconciliation leaves no memory to the next one.
THEOREM TypeCorrect == Spec => []TypeOK
BY InitType, TypeStep, PTL DEF Spec

-----------------------------------------------------------------------------
(* RecordsTogether and DeletionDetachesRecorded.  An id is not used twice and a
   method keeps its identity: a recorded pair that belongs together belongs
   together for ever.  What a stale copy can tear apart is the pair itself, since
   the last patch of a reconciliation sends only what differs from that copy; any
   other patch sends no id, or clears the one of the method. *)

\* A method that a status names is or was attached.
Named(r, st) == st.auth # None => r[st.auth].state # "Unused"

\* It is one of the identity beside it.
OnItsIdentity(r, st) == st.auth # None => r[st.auth].identity = st.identity

\* The resources whose status names nothing that was never there.
Recorded(r) == {resource \in Resources : Named(r, resource.status)}

Deleting  == {"delete", "deleteFinalizer"}
Attaching == Steps \ Deleting

\* Every stored or remembered id is one that was used, and a method has an
\* identity from then on.
NamesInvariant ==
  /\ api \in Recorded(remote) /\ cache \in Recorded(remote)
  /\ undelivered \in Seq(Recorded(remote))
  /\ pc # Idle => Named(remote, mem.status)
  /\ pc \in Attaching => mem.anchor # None
  /\ \A a \in AuthIDs : remote[a].state # "Unused" => remote[a].identity # None

\* What the two properties rest on besides: a copy that is still current has the
\* stored ids, the pair that the last patch sends was observed together, a deletion
\* works on what it read and removes the finalizer after the detachment.
RecordInvariant ==
  /\ CacheFollows
  /\ pc # Idle /\ mem.current =>
       mem.before.auth = api.status.auth /\ mem.before.identity = api.status.identity
  /\ pc \in {"update", "persist"} => OnItsIdentity(remote, mem.status)
  /\ pc \in Deleting => mem.status = mem.before
  /\ pc = "deleteFinalizer" /\ mem.status.auth # None /\ OnItsIdentity(remote, mem.status) =>
       remote[mem.status.auth].state = "Detached"

LEMMA ResourceSteps ==
  ASSUME Next
  PROVE  UNCHANGED crVars \/ (\E r : CR!Put(r)) \/ CR!Deliver
<1>1. ASSUME NEW m, ResolveSecrets(m)
      PROVE  UNCHANGED crVars \/ (\E r : CR!Put(r))
  BY <1>1, WritesBack DEF ResolveSecrets
<1>2. CASE EnsureFinalizer \/ BeginReconcile \/ BeginDeletion
  BY <1>1, <1>2, WritesBack DEF EnsureFinalizer, BeginReconcile, BeginDeletion
<1>3. CASE Adopt \/ AttachAuth \/ ReadAuth \/ UpdateAuth
  BY <1>1, <1>3, WritesBack
  DEF Adopt, AttachAuth, ReadAuth, UpdateAuth, CallFails, Refused, AnswerLost
<1>4. CASE PersistReady \/ DetachAuth \/ DeleteFinalizer
  BY <1>4, WritesBack DEF PersistReady, DetachAuth, DeleteFinalizer
<1>5. CASE ~Reconcile
  BY <1>5
  DEF Next, Crash, DeliverResource, Outside, EditSpec, DeleteResource, DetachOutside,
      AttachOutside, ConfigureOutside, ChangeIdentity, RotateSecret, LoseConnection,
      RestoreDependency
<1>. QED
  BY <1>2, <1>3, <1>4, <1>5 DEF Reconcile

\* An id that was used is not used again, keeps its identity and stays detached.
LEMMA RemoteSteps ==
  ASSUME RemoteTypeOK, Next, NEW a \in AuthIDs, remote[a].state # "Unused"
  PROVE  /\ remote'[a].state # "Unused" /\ remote'[a].identity = remote[a].identity
         /\ remote[a].state = "Detached" => remote'[a].state = "Detached"
<1>1. remote[a] \in AuthRecords
  BY DEF RemoteTypeOK
<1>2. CASE UNCHANGED remote
  BY <1>2
<1>3. ASSUME Fresh # {}, NEW i, NEW config, NEW token, Attach(FreshID, i, config, token)
      PROVE  remote'[a] = remote[a]
  BY <1>3, FreshIDType DEF Attach, RemoteTypeOK
<1>4. ASSUME NEW b \in AuthIDs, remote' = [remote EXCEPT ![b] = Patched(@)]
      PROVE  remote'[a].state = remote[a].state /\ remote'[a].identity = remote[a].identity
  <2>1. Patched(remote[a]).state = remote[a].state
        /\ Patched(remote[a]).identity = remote[a].identity
    BY <1>1 DEF Patched, AuthRecords
  <2>. QED
    BY <1>4, <2>1 DEF RemoteTypeOK
<1>5. ASSUME NEW b \in AuthIDs, NEW g, remote' = [remote EXCEPT ![b].config = g]
      PROVE  remote'[a].state = remote[a].state /\ remote'[a].identity = remote[a].identity
  BY <1>1, <1>5 DEF RemoteTypeOK, AuthRecords
<1>6. ASSUME NEW b \in AuthIDs, remote' = [remote EXCEPT ![b].state = "Detached"]
      PROVE  remote'[a].state \in {remote[a].state, "Detached"}
             /\ remote'[a].identity = remote[a].identity
  BY <1>1, <1>6 DEF RemoteTypeOK, AuthRecords
<1>7. ASSUME NEW S, remote' = [b \in AuthIDs |-> IF b \in S
                                 THEN [remote[b] EXCEPT !.state = "Detached"] ELSE remote[b]]
      PROVE  remote'[a].state \in {remote[a].state, "Detached"}
             /\ remote'[a].identity = remote[a].identity
  BY <1>1, <1>7 DEF AuthRecords
<1>8. CASE EnsureFinalizer \/ BeginReconcile \/ BeginDeletion \/ Adopt \/ ReadAuth \/ PersistReady
  BY <1>2, <1>8
  DEF EnsureFinalizer, BeginReconcile, BeginDeletion, Adopt, ReadAuth, PersistReady, CallFails
<1>9. CASE AttachAuth
  BY <1>2, <1>3, <1>9 DEF AttachAuth, CallFails, Refused
<1>10. CASE UpdateAuth
  BY <1>2, <1>4, <1>10 DEF UpdateAuth, AttachedTo, CallFails, Refused
<1>11. CASE DetachAuth \/ DeleteFinalizer
  BY <1>2, <1>7, <1>11 DEF DetachAuth, DeleteFinalizer
<1>12. CASE ~Reconcile
  <2>1. CASE DetachOutside
    BY <1>6, <2>1 DEF DetachOutside
  <2>2. CASE AttachOutside
    BY <1>3, <2>2 DEF AttachOutside
  <2>3. CASE ConfigureOutside
    BY <1>5, <2>3 DEF ConfigureOutside
  <2>4. CASE ~DetachOutside /\ ~AttachOutside /\ ~ConfigureOutside
    BY <1>2, <1>12, <2>4
    DEF Next, Crash, DeliverResource, Outside, EditSpec, DeleteResource, ChangeIdentity,
        RotateSecret, LoseConnection, RestoreDependency
  <2>. QED
    BY <2>1, <2>2, <2>3, <2>4
<1>. QED
  BY <1>8, <1>9, <1>10, <1>11, <1>12 DEF Reconcile

\* An id comes into use with an identity.
LEMMA FirstUse ==
  ASSUME RemoteTypeOK, Next, NEW a \in AuthIDs,
         remote[a].state = "Unused", remote'[a].state # "Unused"
  PROVE  \/ pc = "create" /\ remote'[a].identity = mem.anchor
         \/ remote'[a].identity \in Identities
<1>1. remote[a] \in AuthRecords /\ remote' # remote
  BY DEF RemoteTypeOK
<1>2. ASSUME Fresh # {}, NEW i, NEW config, NEW token, Attach(FreshID, i, config, token)
      PROVE  remote'[a].identity = i
  BY <1>2, FreshIDType DEF Attach, RemoteTypeOK
<1>3. ASSUME NEW b \in AuthIDs, Attached(b), NEW new, remote' = [remote EXCEPT ![b] = new]
      PROVE  FALSE
  BY <1>3 DEF Attached, RemoteTypeOK
<1>4. CASE \/ EnsureFinalizer \/ BeginReconcile \/ BeginDeletion \/ Adopt \/ ReadAuth
           \/ PersistReady \/ DeleteFinalizer
  BY <1>1, <1>4
  DEF EnsureFinalizer, BeginReconcile, BeginDeletion, Adopt, ReadAuth, PersistReady,
      DeleteFinalizer, CallFails
<1>5. CASE AttachAuth
  BY <1>1, <1>2, <1>5 DEF AttachAuth, CallFails, Refused
<1>6. CASE UpdateAuth
  BY <1>1, <1>3, <1>6 DEF UpdateAuth, AttachedTo, CallFails, Refused
<1>7. CASE DetachAuth
  <2>1. a \notin AttachedTo(DeletionIdentity(mem.status))
    BY DEF AttachedTo, Attached
  <2>. QED
    BY <1>1, <1>7, <2>1 DEF DetachAuth
<1>8. CASE DetachOutside \/ ConfigureOutside
  BY <1>3, <1>8 DEF DetachOutside, ConfigureOutside
<1>9. CASE AttachOutside
  BY <1>2, <1>9 DEF AttachOutside
<1>10. CASE ~Reconcile /\ ~DetachOutside /\ ~AttachOutside /\ ~ConfigureOutside
  BY <1>1, <1>10
  DEF Next, Crash, DeliverResource, Outside, EditSpec, DeleteResource, ChangeIdentity,
      RotateSecret, LoseConnection, RestoreDependency
<1>. QED
  BY <1>4, <1>5, <1>6, <1>7, <1>8, <1>9, <1>10 DEF Reconcile

\* What was named once stays so, on its identity.
LEMMA NamedStays ==
  ASSUME RemoteTypeOK, Next
  PROVE  /\ \A st \in Statuses : Named(remote, st) =>
              Named(remote', st) /\ (OnItsIdentity(remote, st) <=> OnItsIdentity(remote', st))
         /\ Recorded(remote) \subseteq Recorded(remote')
         /\ undelivered \in Seq(Recorded(remote)) => undelivered \in Seq(Recorded(remote'))
<1>1. ASSUME NEW st \in Statuses, Named(remote, st)
      PROVE  Named(remote', st) /\ (OnItsIdentity(remote, st) <=> OnItsIdentity(remote', st))
  BY <1>1, RemoteSteps DEF Named, OnItsIdentity, Statuses
<1>2. Recorded(remote) \subseteq Recorded(remote')
  BY <1>1 DEF Recorded, Resources
<1>. QED
  BY <1>1, <1>2

\* An error changes neither of the recorded ids.
LEMMA ErrorKeepsIds ==
  ASSUME CRTypeOK, NEW status \in Statuses, NEW reason, ReturnError(status, reason)
  PROVE  api'.status.auth = api.status.auth /\ api'.status.identity = api.status.identity
<1>1. CASE api.exists
  <2> DEFINE after == [status EXCEPT !.reason = reason]
  <2>1. after.auth = status.auth /\ after.identity = status.identity
    BY DEF Statuses
  <2>2. api.status \in Statuses /\ api' = [api EXCEPT !.status = MergePatch(@, status, after)]
    BY <1>1 DEF ReturnError, PatchStatus, CR!Put, CRTypeOK, Resources
  <2>3. DOMAIN api.status = {"auth", "identity", "reason"}
    BY <2>2 DEF Statuses
  <2>4. api'.status = MergePatch(api.status, status, after)
    BY <2>2 DEF CRTypeOK, Resources
  <2>. QED
    BY <2>1, <2>3, <2>4 DEF MergePatch
<1>2. CASE ~api.exists
  BY <1>2 DEF ReturnError, PatchStatus, crVars
<1>. QED
  BY <1>1, <1>2

\* The recorded ids change only where ReadAuth finds none and where PersistReady
\* records what was observed.
LEMMA StatusSteps ==
  ASSUME CRTypeOK, StepTypeOK, Next
  PROVE  \/ api'.status.auth = api.status.auth /\ api'.status.identity = api.status.identity
         \/ ReadAuth /\ pc' = Idle /\ api'.status.auth = None
         \/ /\ PersistReady /\ pc' = Idle
            /\ api'.status = MergePatch(api.status, mem.before, [mem.status EXCEPT !.reason = "Ready"])
<1> DEFINE SameIds == api'.status.auth = api.status.auth /\ api'.status.identity = api.status.identity
<1>1. UNCHANGED crVars => SameIds
  BY DEF crVars
<1>2. ASSUME NEW m, m.status \in Statuses, ResolveSecrets(m)
      PROVE  SameIds
  BY <1>1, <1>2, ErrorKeepsIds DEF ResolveSecrets
<1>3. cache.status \in Statuses /\ Loaded.status \in Statuses
  BY DEF CRTypeOK, Resources, Loaded
<1>4. CASE EnsureFinalizer \/ BeginReconcile
  <2>1. [api EXCEPT !.finalizer = TRUE].status = api.status
    BY DEF CRTypeOK, Resources
  <2>. QED
    BY <1>1, <1>2, <1>3, <1>4, <2>1, ErrorKeepsIds DEF EnsureFinalizer, BeginReconcile, CR!Put
<1>5. CASE BeginDeletion \/ DeleteFinalizer
  <2>1. WithoutFinalizer(api).status = api.status
    BY DEF WithoutFinalizer, CRTypeOK, Resources
  <2>. QED
    BY <1>1, <1>5, <2>1 DEF BeginDeletion, DeleteFinalizer, RemoveFinalizer, CR!Put
<1>6. CASE Adopt \/ AttachAuth \/ ReadAuth \/ UpdateAuth \/ PersistReady \/ DetachAuth
  <2>1. mem \in Memories /\ mem.status \in Statuses /\ mem.before \in Statuses
    BY <1>6, InProgress
    DEF Adopt, AttachAuth, ReadAuth, UpdateAuth, PersistReady, DetachAuth, Idle
  <2>2. ASSUME NEW reason, CallFails(reason) \/ Refused(reason) \/ AnswerLost(reason)
        PROVE  SameIds
    BY <2>1, <2>2, ErrorKeepsIds DEF CallFails, Refused, AnswerLost
  <2>3. CASE Adopt
    <3>1. ASSUME NEW a \in AttachedTo(mem.anchor)
          PROVE  [mem EXCEPT !.status = Observed(a)].status \in Statuses
      BY <2>1, ObservedType DEF AttachedTo, Memories
    <3>. QED
      BY <1>2, <2>1, <2>2, <2>3, <3>1 DEF Adopt
  <2>4. CASE AttachAuth \/ UpdateAuth
    BY <1>1, <2>2, <2>4 DEF AttachAuth, UpdateAuth
  <2>5. CASE ReadAuth
    <3>1. CASE PatchStatus(mem.status, ClearedStatus) /\ EndReconcile /\ api.exists
      <4>1. ClearedStatus.auth = None /\ ClearedStatus.identity = mem.status.identity
        BY <2>1 DEF ClearedStatus, Statuses
      <4>2. DOMAIN api.status = {"auth", "identity", "reason"}
        BY DEF CRTypeOK, Resources, Statuses
      <4>3. api'.status = MergePatch(api.status, mem.status, ClearedStatus)
        BY <3>1 DEF PatchStatus, CR!Put, CRTypeOK, Resources
      <4>. QED
        BY <2>5, <3>1, <4>1, <4>2, <4>3 DEF MergePatch, EndReconcile
    <3>2. CASE PatchStatus(mem.status, ClearedStatus) /\ ~api.exists
      BY <1>1, <3>2 DEF PatchStatus
    <3>. QED
      BY <1>1, <2>2, <2>5, <3>1, <3>2 DEF ReadAuth
  <2>6. CASE PersistReady
    <3>1. CASE api.exists /\ PatchStatus(mem.before, [mem.status EXCEPT !.reason = "Ready"])
      BY <2>6, <3>1 DEF PersistReady, PatchStatus, EndReconcile, CR!Put, CRTypeOK, Resources
    <3>2. CASE ~api.exists /\ PatchStatus(mem.before, [mem.status EXCEPT !.reason = "Ready"])
      BY <1>1, <3>2 DEF PatchStatus
    <3>. QED
      BY <1>1, <2>6, <3>1, <3>2 DEF PersistReady
  <2>7. CASE DetachAuth
    BY <1>1, <2>7 DEF DetachAuth
  <2>. QED
    BY <1>6, <2>3, <2>4, <2>5, <2>6, <2>7
<1>7. CASE EditSpec \/ DeleteResource
  BY <1>7 DEF EditSpec, DeleteResource, CR!Put, CRTypeOK, Resources
<1>8. CASE ~Reconcile /\ ~EditSpec /\ ~DeleteResource
  BY <1>1, <1>8
  DEF Next, Crash, DeliverResource, CR!Deliver, Outside, DetachOutside, AttachOutside,
      ConfigureOutside, ChangeIdentity, RotateSecret, LoseConnection, RestoreDependency
<1>. QED
  BY <1>4, <1>5, <1>6, <1>7, <1>8 DEF Reconcile

\* What ResolveSecrets goes on with.
LEMMA ResolveSecretsGoesOn ==
  ASSUME NEW m \in Memories, ResolveSecrets(m), pc' # Idle
  PROVE  /\ pc' \in {"create", "read"} /\ UNCHANGED crVars
         /\ mem'.status = m.status /\ mem'.before = m.before /\ mem'.anchor = m.anchor
         /\ mem'.current = m.current
<1>1. ~EndReconcile
  BY DEF EndReconcile
<1>. QED
  BY <1>1 DEF ResolveSecrets, ReturnError, Continue, Memories

\* The four ways in which a reconciliation gets its next memory.
LEMMA MemorySteps ==
  ASSUME CRTypeOK, RemoteTypeOK, StepTypeOK, WorldTypeOK, Next, pc' # Idle
  PROVE  \/ /\ ReadCache /\ UNCHANGED <<crVars, remote>>
            /\ mem'.status = cache.status /\ mem'.before = cache.status
            /\ mem'.current = CR!Current
            /\ \/ pc' \in {"adopt", "create", "read"} /\ mem'.anchor # None
               \/ pc' = "delete"
         \/ /\ pc \in Attaching /\ pc' \in Attaching /\ UNCHANGED crVars
            /\ mem'.before = mem.before /\ mem'.anchor = mem.anchor
            /\ mem'.current = mem.current
            /\ \/ mem'.status = mem.status /\ pc' \in {"create", "read"}
               \/ \E a \in AuthIDs :
                    /\ mem'.status.auth = a /\ mem'.status.identity = mem.anchor
                    /\ remote'[a].state = "Attached" /\ remote'[a].identity = mem.anchor
         \/ DetachAuth /\ pc' = "deleteFinalizer" /\ mem' = mem /\ UNCHANGED crVars
         \/ /\ pc' = pc /\ mem'.status = mem.status /\ mem'.before = mem.before
            /\ mem'.anchor = mem.anchor
            /\ mem'.current = FALSE \/ (mem'.current = mem.current /\ UNCHANGED api)
<1>1. ~EndReconcile
  BY DEF EndReconcile
<1>2. ASSUME NEW reason PROVE ~CallFails(reason) /\ ~Refused(reason) /\ ~AnswerLost(reason)
  BY <1>1 DEF CallFails, Refused, AnswerLost, ReturnError
<1>3. pc # Idle => mem \in Memories
  BY InProgress
<1>4. Loaded \in Memories /\ Loaded.status = cache.status /\ Loaded.before = cache.status
      /\ Loaded.anchor = identity /\ Loaded.current = CR!Current
  BY DEF Loaded, CRTypeOK, WorldTypeOK, Resources, Memories, CR!Current
<1>5. CASE EnsureFinalizer \/ BeginReconcile \/ BeginDeletion
  <2>2. CASE BeginReconcile
    <3>1. /\ identity # None /\ ReadCache /\ UNCHANGED remote
          /\ \/ Continue("adopt", Loaded) /\ UNCHANGED crVars
             \/ ResolveSecrets(Loaded)
      BY <1>1, <2>2 DEF BeginReconcile, ReturnError
    <3>. QED
      BY <1>4, <3>1, ResolveSecretsGoesOn DEF Continue
  <2>3. CASE BeginDeletion
    BY <1>1, <1>4, <2>3 DEF BeginDeletion, Continue
  <2>. QED
    BY <1>1, <1>5, <2>2, <2>3 DEF EnsureFinalizer
<1>6. CASE Adopt \/ AttachAuth \/ ReadAuth \/ UpdateAuth
  <2>1. /\ pc \in Attaching /\ mem \in Memories
        /\ {"create", "read", "update", "persist"} \subseteq Attaching
    BY <1>3, <1>6 DEF Adopt, AttachAuth, ReadAuth, UpdateAuth, Idle, Steps, Deleting, Attaching
  <2>2. ASSUME NEW a \in AuthIDs, NEW m, m = [mem EXCEPT !.status = Observed(a)]
        PROVE  /\ m \in Memories /\ m.before = mem.before /\ m.anchor = mem.anchor
               /\ m.current = mem.current
               /\ m.status.auth = a /\ m.status.identity = mem.anchor
    <3>1. Observed(a) \in Statuses
      BY <2>1, ObservedType
    <3>2. Observed(a).auth = a /\ Observed(a).identity = mem.anchor
      BY <2>1 DEF Observed, Memories, Statuses
    <3>. QED
      BY <2>1, <2>2, <3>1, <3>2 DEF Memories
  <2>3. ASSUME NEW a \in AttachedTo(mem.anchor)
        PROVE  a \in AuthIDs /\ remote[a].state = "Attached" /\ remote[a].identity = mem.anchor
    BY DEF AttachedTo, Attached
  <2>4. CASE Adopt
    <3>1. UNCHANGED remote
      BY <1>2, <2>4 DEF Adopt
    <3>2. CASE ResolveSecrets(mem)
      BY <2>1, <3>1, <3>2, ResolveSecretsGoesOn
    <3>3. CASE \E a \in AttachedTo(mem.anchor) : ResolveSecrets([mem EXCEPT !.status = Observed(a)])
      <4>1. PICK a \in AttachedTo(mem.anchor) : ResolveSecrets([mem EXCEPT !.status = Observed(a)])
        BY <3>3
      <4>2. PICK m : m = [mem EXCEPT !.status = Observed(a)]
        OBVIOUS
      <4>3. a \in AuthIDs /\ m \in Memories /\ ResolveSecrets(m)
        BY <2>2, <2>3, <4>1, <4>2
      <4>. QED
        BY <2>1, <2>2, <2>3, <3>1, <4>2, <4>3, ResolveSecretsGoesOn
    <3>. QED
      BY <1>2, <2>4, <3>2, <3>3 DEF Adopt
  <2>5. CASE AttachAuth
    <3>1. /\ Fresh # {} /\ Attach(FreshID, mem.anchor, mem.spec.config, mem.token)
          /\ Continue("read", [mem EXCEPT !.status = Observed(FreshID)]) /\ UNCHANGED crVars
      BY <1>2, <2>5 DEF AttachAuth
    <3>2. /\ FreshID \in AuthIDs
          /\ remote'[FreshID].state = "Attached" /\ remote'[FreshID].identity = mem.anchor
      BY <3>1, FreshIDType DEF Attach, RemoteTypeOK
    <3>. QED
      BY <2>1, <2>2, <3>1, <3>2 DEF Continue
  <2>6. CASE ReadAuth
    <3>1. PICK a \in AttachedTo(mem.anchor), step \in {"update", "persist"} :
            /\ Continue(step, [mem EXCEPT !.status = Observed(a)])
            /\ UNCHANGED crVars /\ UNCHANGED remote
      BY <1>1, <1>2, <2>6 DEF ReadAuth
    <3>2. pc' \in Attaching /\ mem' = [mem EXCEPT !.status = Observed(a)]
      BY <2>1, <3>1 DEF Continue
    <3>3. /\ mem'.before = mem.before /\ mem'.anchor = mem.anchor
          /\ mem'.current = mem.current
          /\ mem'.status.auth = a /\ mem'.status.identity = mem.anchor
      BY <2>2, <2>3, <3>2
    <3>4. remote'[a].state = "Attached" /\ remote'[a].identity = mem.anchor
      BY <2>3, <3>1
    <3>. QED
      BY <2>1, <2>3, <3>1, <3>2, <3>3, <3>4
  <2>7. CASE UpdateAuth
    <3>1. PICK a \in AttachedTo(mem.anchor) :
            /\ remote' = [remote EXCEPT ![a] = Patched(@)]
            /\ Continue("persist", [mem EXCEPT !.status = Observed(a)]) /\ UNCHANGED crVars
      BY <1>2, <2>7 DEF UpdateAuth
    <3>2. remote'[a].state = "Attached" /\ remote'[a].identity = mem.anchor
      <4>1. remote[a] \in AuthRecords
        BY <2>3 DEF RemoteTypeOK
      <4>2. Patched(remote[a]).state = remote[a].state
            /\ Patched(remote[a]).identity = remote[a].identity
        BY <4>1 DEF Patched, AuthRecords
      <4>. QED
        BY <2>3, <3>1, <4>2 DEF RemoteTypeOK
    <3>3. pc' \in Attaching /\ mem' = [mem EXCEPT !.status = Observed(a)]
      BY <2>1, <3>1 DEF Continue
    <3>4. /\ mem'.before = mem.before /\ mem'.anchor = mem.anchor
          /\ mem'.current = mem.current
          /\ mem'.status.auth = a /\ mem'.status.identity = mem.anchor
      BY <2>2, <2>3, <3>3
    <3>. QED
      BY <2>1, <2>3, <3>1, <3>2, <3>3, <3>4
  <2>. QED
    BY <1>6, <2>4, <2>5, <2>6, <2>7
<1>7. CASE PersistReady \/ DetachAuth \/ DeleteFinalizer
  BY <1>1, <1>7 DEF PersistReady, DetachAuth, DeleteFinalizer, Continue
<1>8. CASE ~Reconcile
  <2>1. pc' = pc /\ ~Crash
    BY <1>1, <1>8
    DEF Next, Crash, DeliverResource, Outside, EditSpec, DeleteResource, DetachOutside,
        AttachOutside, ConfigureOutside, ChangeIdentity, RotateSecret, LoseConnection,
        RestoreDependency, Disturb
  <2>2. CASE EditSpec \/ DeleteResource
    <3>1. mem' = [mem EXCEPT !.current = FALSE] /\ mem \in Memories
      BY <1>3, <2>1, <2>2 DEF EditSpec, DeleteResource, OutdateCopy
    <3>. QED
      BY <2>1, <3>1 DEF Memories
  <2>3. CASE ~EditSpec /\ ~DeleteResource
    <3>1. mem' = mem /\ api' = api
      BY <1>8, <2>1, <2>3
      DEF Next, DeliverResource, CR!Deliver, Outside, DetachOutside, AttachOutside,
          ConfigureOutside, ChangeIdentity, RotateSecret, LoseConnection, RestoreDependency, crVars
    <3>. QED
      BY <2>1, <3>1
  <2>. QED
    BY <2>2, <2>3
<1>. QED
  BY <1>5, <1>6, <1>7, <1>8 DEF Reconcile

LEMMA NamesStep ==
  ASSUME TypeOK, NamesInvariant, Next
  PROVE  NamesInvariant'
<1>1. CRTypeOK /\ RemoteTypeOK /\ StepTypeOK /\ WorldTypeOK /\ api' \in Resources
  BY TypeParts, TypeStep DEF TypeOK
<1>2. /\ api.status \in Statuses /\ cache.status \in Statuses
      /\ Named(remote', api.status) /\ Named(remote', cache.status)
  BY <1>1, NamedStays DEF NamesInvariant, Recorded, CRTypeOK, Resources
<1>3. ASSUME pc # Idle PROVE mem.status \in Statuses /\ Named(remote', mem.status)
  BY <1>1, <1>3, InProgress, NamedStays DEF NamesInvariant
<1>4. Named(remote', api'.status)
  <2>1. ASSUME PersistReady,
               api'.status = MergePatch(api.status, mem.before, [mem.status EXCEPT !.reason = "Ready"])
        PROVE  api'.status.auth \in {api.status.auth, mem.status.auth} /\ pc # Idle
    <3>1. pc # Idle
      BY <2>1 DEF PersistReady, Idle
    <3>2. [mem.status EXCEPT !.reason = "Ready"].auth = mem.status.auth
      BY <1>3, <3>1 DEF Statuses
    <3>3. DOMAIN api.status = {"auth", "identity", "reason"}
      BY <1>2 DEF Statuses
    <3>. QED
      BY <2>1, <3>1, <3>2, <3>3 DEF MergePatch
  <2>. QED
    BY <1>1, <1>2, <1>3, <2>1, StatusSteps DEF Named
<1>5. /\ api' \in Recorded(remote') /\ cache' \in Recorded(remote')
      /\ undelivered' \in Seq(Recorded(remote'))
  <2>1. api' \in Recorded(remote')
    BY <1>1, <1>4 DEF Recorded
  <2>2. cache \in Recorded(remote') /\ undelivered \in Seq(Recorded(remote'))
    BY <1>1, NamedStays DEF NamesInvariant
  <2>. QED
    BY <2>1, <2>2, ResourceSteps, CopiesStep
<1>6. pc \in Attaching \/ DetachAuth => pc # Idle
  BY DEF Attaching, Steps, Idle, DetachAuth
<1>7. pc' # Idle => Named(remote', mem'.status)
  <2>1. ASSUME NEW a \in AuthIDs, mem'.status.auth = a, remote'[a].state = "Attached"
        PROVE  Named(remote', mem'.status)
    BY <2>1 DEF Named
  <2>. QED
    BY <1>1, <1>2, <1>3, <1>6, <2>1, MemorySteps
<1>8. pc' \in Attaching => mem'.anchor # None
  <2>1. pc' \in Attaching => pc' # Idle /\ pc' # "delete" /\ pc' # "deleteFinalizer"
    BY DEF Attaching, Steps, Deleting, Idle
  <2>. QED
    BY <1>1, <2>1, MemorySteps DEF NamesInvariant
<1>9. \A a \in AuthIDs : remote'[a].state # "Unused" => remote'[a].identity # None
  <2>1. pc = "create" => mem.anchor # None
    BY DEF NamesInvariant, Attaching, Steps, Deleting
  <2>. QED
    BY <1>1, <2>1, RemoteSteps, FirstUse, ConstantsAssumption DEF NamesInvariant
<1>. QED
  BY <1>5, <1>7, <1>8, <1>9 DEF NamesInvariant

LEMMA NamesHold == Spec => []NamesInvariant
<1>1. ASSUME Init PROVE NamesInvariant
  <2>1. api.status = NoStatus /\ cache = api /\ undelivered = <<>> /\ pc = Idle
    BY <1>1 DEF Init
  <2>2. api \in Recorded(remote)
    <3>1. NoStatus.auth = None
      BY DEF NoStatus
    <3>2. api \in Resources
      BY <1>1, InitType DEF TypeOK
    <3>. QED
      BY <2>1, <3>1, <3>2 DEF Recorded, Named
  <2>3. PICK i \in [InitiallyAttached -> Identities], g \in [InitiallyAttached -> Configs] :
          remote = [a \in AuthIDs |->
            IF a \in InitiallyAttached
            THEN [state |-> "Attached", identity |-> i[a], config |-> g[a], token |-> None]
            ELSE Unused]
    BY <1>1 DEF Init
  <2>4. \A a \in AuthIDs : remote[a].state # "Unused" => remote[a].identity # None
    BY <2>3, ConstantsAssumption DEF Unused
  <2>5. pc \notin Attaching
    BY <2>1 DEF Idle, Attaching, Steps
  <2>. QED
    BY <2>1, <2>2, <2>4, <2>5 DEF NamesInvariant
<1>2. TypeOK /\ NamesInvariant /\ [Next]_vars => NamesInvariant'
  <2>1. ASSUME NamesInvariant, UNCHANGED vars PROVE NamesInvariant'
    BY <2>1 DEF NamesInvariant, vars, crVars
  <2>. QED
    BY <2>1, NamesStep
<1>. QED
  BY <1>1, <1>2, TypeCorrect, PTL DEF Spec

LEMMA RecordInvariantStep ==
  ASSUME TypeOK, NamesInvariant, RecordInvariant, Next
  PROVE  RecordInvariant'
<1>1. CRTypeOK /\ RemoteTypeOK /\ StepTypeOK /\ WorldTypeOK
  BY TypeParts
<1>2. CacheFollows'
  BY <1>1, ResourceSteps, CacheFollowsStep DEF RecordInvariant, CRTypeOK
<1>3. ASSUME pc # Idle
      PROVE  /\ mem \in Memories /\ mem.status \in Statuses
             /\ OnItsIdentity(remote, mem.status) <=> OnItsIdentity(remote', mem.status)
  BY <1>1, <1>3, InProgress, NamedStays DEF NamesInvariant
<1>4. /\ "deleteFinalizer" \in Deleting /\ "delete" \in Deleting
      /\ "update" \notin Deleting /\ "persist" \notin Deleting
      /\ \A step \in Attaching : step # Idle /\ step \notin Deleting
      /\ \A step \in Deleting \cup {"update", "persist"} : step # Idle
  BY DEF Deleting, Attaching, Steps, Idle
<1>5. CASE pc' = Idle
  BY <1>2, <1>4, <1>5 DEF RecordInvariant
<1>6. CASE /\ UNCHANGED <<crVars, remote>>
           /\ mem'.status = cache.status /\ mem'.before = cache.status
           /\ mem'.current = CR!Current
           /\ pc' \in {"adopt", "create", "read", "delete"}
  <2>1. CR!Current => cache = api
    BY DEF CR!Current, RecordInvariant, CacheFollows
  <2>. QED
    BY <1>2, <1>6, <2>1 DEF RecordInvariant, crVars
<1>7. CASE /\ pc \in Attaching /\ pc' \in Attaching /\ UNCHANGED crVars
           /\ mem'.before = mem.before /\ mem'.current = mem.current
           /\ \/ mem'.status = mem.status /\ pc' \in {"create", "read"}
              \/ \E a \in AuthIDs :
                   /\ mem'.status.auth = a /\ mem'.status.identity = mem.anchor
                   /\ remote'[a].state = "Attached" /\ remote'[a].identity = mem.anchor
  <2>1. pc' \in {"update", "persist"} => OnItsIdentity(remote', mem'.status)
    BY <1>7 DEF OnItsIdentity
  <2>. QED
    BY <1>2, <1>4, <1>7, <2>1 DEF RecordInvariant, crVars
<1>8. CASE DetachAuth /\ pc' = "deleteFinalizer" /\ mem' = mem /\ UNCHANGED crVars
  <2> DEFINE a == mem.status.auth
  <2>1. pc = "delete" /\ pc # Idle /\ UNCHANGED api
    BY <1>8 DEF DetachAuth, Idle, crVars
  <2>2. ASSUME a # None, OnItsIdentity(remote', mem.status)
        PROVE  remote'[a].state = "Detached"
    <3>1. /\ a \in AuthIDs /\ remote[a] \in AuthRecords
          /\ remote[a].state # "Unused" /\ remote[a].identity = mem.status.identity
      BY <1>1, <1>3, <2>1, <2>2
      DEF NamesInvariant, Named, OnItsIdentity, Statuses, RemoteTypeOK
    <3>2. CASE remote[a].state = "Detached"
      BY <1>1, <3>1, <3>2, RemoteSteps
    <3>3. CASE remote[a].state = "Attached"
      <4>1. a \in AttachedTo(DeletionIdentity(mem.status))
        BY <3>1, <3>3 DEF AttachedTo, Attached, DeletionIdentity
      <4>2. remote' = [b \in AuthIDs |-> IF b \in AttachedTo(DeletionIdentity(mem.status))
                          THEN [remote[b] EXCEPT !.state = "Detached"] ELSE remote[b]]
        BY <1>8 DEF DetachAuth, EndReconcile, Idle
      <4>. QED
        BY <3>1, <4>1, <4>2 DEF AuthRecords
    <3>. QED
      BY <3>1, <3>2, <3>3 DEF AuthRecords
  <2>. QED
    BY <1>2, <1>4, <1>8, <2>1, <2>2 DEF RecordInvariant
<1>9. CASE /\ pc' # Idle
           /\ pc' = pc /\ mem'.status = mem.status /\ mem'.before = mem.before
           /\ mem'.current = FALSE \/ (mem'.current = mem.current /\ UNCHANGED api)
  <2> DEFINE a == mem.status.auth
  <2>1. ASSUME pc = "deleteFinalizer", a # None, OnItsIdentity(remote', mem.status)
        PROVE  remote'[a].state = "Detached"
    <3>1. a \in AuthIDs /\ remote[a].state = "Detached"
      BY <1>3, <1>4, <2>1 DEF RecordInvariant, Statuses
    <3>. QED
      BY <1>1, <3>1, RemoteSteps
  <2>2. pc \in {"update", "persist"} => OnItsIdentity(remote', mem.status)
    BY <1>3, <1>4 DEF RecordInvariant
  <2>3. OnItsIdentity(remote', mem'.status) <=> OnItsIdentity(remote', mem.status)
    BY <1>9
  <2>. QED
    BY <1>2, <1>9, <2>1, <2>2, <2>3 DEF RecordInvariant
<1>. QED
  BY <1>1, <1>5, <1>6, <1>7, <1>8, <1>9, MemorySteps

LEMMA RecordInvariantHolds == Spec => []RecordInvariant
<1>1. ASSUME Init PROVE RecordInvariant
  <2>1. CacheFollows /\ pc = Idle
    BY <1>1 DEF Init, CacheFollows
  <2>. QED
    BY <2>1 DEF RecordInvariant, Deleting, Idle
<1>2. TypeOK /\ NamesInvariant /\ RecordInvariant /\ [Next]_vars => RecordInvariant'
  <2>1. ASSUME RecordInvariant, UNCHANGED vars PROVE RecordInvariant'
    BY <2>1 DEF RecordInvariant, CacheFollows, OnItsIdentity, vars, crVars
  <2>. QED
    BY <2>1, RecordInvariantStep
<1>. QED
  BY <1>1, <1>2, TypeCorrect, NamesHold, PTL DEF Spec

\* The recorded method and the recorded identity are torn apart by nothing but the
\* last patch of a reconciliation that another one has overtaken, for any number of
\* stale reads, faults, replaced identities and administrators.
THEOREM RecordsSafe == Spec => RecordsTogether
<1> DEFINE Together ==
      RecordedOnItsIdentity /\ ~RecordedOnItsIdentity' => pc = "persist" /\ Overtaken
<1>1. TypeOK /\ NamesInvariant /\ RecordInvariant /\ [Next]_vars => [Together]_vars
  <2> SUFFICES ASSUME TypeOK, NamesInvariant, RecordInvariant, Next,
                      OnItsIdentity(remote, api.status), ~OnItsIdentity(remote', api'.status)
               PROVE  pc = "persist" /\ Overtaken
    BY DEF RecordedOnItsIdentity, OnItsIdentity
  <2>1. CRTypeOK /\ RemoteTypeOK /\ StepTypeOK
    BY TypeParts
  <2>2. api.status \in Statuses /\ OnItsIdentity(remote', api.status)
    BY <2>1, NamedStays DEF NamesInvariant, Recorded, CRTypeOK, Resources
  <2>3. /\ PersistReady
        /\ api'.status = MergePatch(api.status, mem.before, [mem.status EXCEPT !.reason = "Ready"])
    BY <2>1, <2>2, StatusSteps DEF OnItsIdentity
  <2>4. pc = "persist" /\ pc # Idle
    BY <2>3 DEF PersistReady, Idle
  <2>5. mem.status \in Statuses /\ OnItsIdentity(remote', mem.status)
    BY <2>1, <2>4, InProgress, NamedStays DEF NamesInvariant, RecordInvariant
  <2>6. DOMAIN api.status = {"auth", "identity", "reason"}
    BY <2>2 DEF Statuses
  <2>7. /\ [mem.status EXCEPT !.reason = "Ready"].auth = mem.status.auth
        /\ [mem.status EXCEPT !.reason = "Ready"].identity = mem.status.identity
    BY <2>5 DEF Statuses
  <2>8. ~Overtaken => /\ api'.status.auth = mem.status.auth
                      /\ api'.status.identity = mem.status.identity
    BY <2>3, <2>6, <2>7 DEF MergePatch, Overtaken
  <2>. QED
    BY <2>4, <2>5, <2>8 DEF OnItsIdentity
<1>. QED
  BY <1>1, TypeCorrect, NamesHold, RecordInvariantHolds, PTL DEF Spec, RecordsTogether

-----------------------------------------------------------------------------
(* DeletionDetachesRecorded *)

\* The resource disappears by losing its finalizer, or by a deletion that finds
\* nothing to delete; in both cases the copy that was read is still current.
LEMMA Disappears ==
  ASSUME CRTypeOK, StepTypeOK, Next, api.exists, ~api'.exists, api.finalizer
  PROVE  \/ BeginDeletion /\ NothingToDelete(cache) /\ CR!Current
         \/ DeleteFinalizer /\ mem.current /\ UNCHANGED remote
<1>1. ASSUME NEW before, NEW after PROVE ~PatchStatus(before, after)
  BY DEF PatchStatus, CR!Put, CRTypeOK, Resources, crVars
<1>2. ASSUME NEW status, NEW reason PROVE ~ReturnError(status, reason)
  BY <1>1 DEF ReturnError
<1>3. ~UNCHANGED crVars
  BY DEF crVars
<1>4. ASSUME NEW m PROVE ~ResolveSecrets(m)
  BY <1>2, <1>3 DEF ResolveSecrets
<1>5. CASE EnsureFinalizer \/ BeginReconcile
  BY <1>2, <1>3, <1>4, <1>5
  DEF EnsureFinalizer, BeginReconcile, CR!Put, CRTypeOK, Resources
<1>6. CASE BeginDeletion \/ DeleteFinalizer
  BY <1>3, <1>6 DEF BeginDeletion, DeleteFinalizer, RemoveFinalizer
<1>7. CASE Adopt \/ AttachAuth \/ ReadAuth \/ UpdateAuth \/ PersistReady \/ DetachAuth
  BY <1>1, <1>2, <1>3, <1>4, <1>7
  DEF Adopt, AttachAuth, ReadAuth, UpdateAuth, PersistReady, DetachAuth, CallFails, Refused,
      AnswerLost
<1>8. CASE EditSpec \/ DeleteResource
  BY <1>8 DEF EditSpec, DeleteResource, CR!Put, CRTypeOK, Resources
<1>9. CASE ~Reconcile /\ ~EditSpec /\ ~DeleteResource
  BY <1>3, <1>9
  DEF Next, Crash, DeliverResource, CR!Deliver, Outside, DetachOutside, AttachOutside,
      ConfigureOutside, ChangeIdentity, RotateSecret, LoseConnection, RestoreDependency
<1>. QED
  BY <1>5, <1>6, <1>7, <1>8, <1>9 DEF Reconcile

\* A resource of policy Delete does not disappear before the method it records, on
\* the identity recorded with it, is detached: although the identity that the
\* reference shows may be another one by then, and although any of the copies read
\* may have been stale.
THEOREM DeletionSafe == Spec => DeletionDetachesRecorded
<1> DEFINE Detached ==
      /\ api.exists /\ ~api'.exists
      /\ api.finalizer /\ api.spec.deletion = "Delete" /\ api.status.auth # None
      /\ RecordedOnItsIdentity
      => remote'[api.status.auth].state # "Attached"
<1>1. TypeOK /\ NamesInvariant /\ RecordInvariant /\ [Next]_vars => [Detached]_vars
  <2> SUFFICES ASSUME TypeOK, NamesInvariant, RecordInvariant, Next,
                      api.exists, ~api'.exists, api.finalizer,
                      api.spec.deletion = "Delete", api.status.auth # None,
                      RecordedOnItsIdentity
               PROVE  remote'[api.status.auth].state # "Attached"
    OBVIOUS
  <2> DEFINE a == api.status.auth
  <2>1. CASE BeginDeletion /\ NothingToDelete(cache) /\ CR!Current
    <3>1. cache = api
      BY <2>1 DEF CR!Current, RecordInvariant, CacheFollows
    <3>2. a \in AuthIDs /\ remote[a].state # "Unused"
      BY DEF NamesInvariant, Recorded, Named, Resources, Statuses
    <3>3. api.status.identity # None
      BY <3>2 DEF NamesInvariant, RecordedOnItsIdentity
    <3>. QED
      BY <2>1, <3>1, <3>3 DEF NothingToDelete
  <2>2. CASE DeleteFinalizer /\ mem.current /\ UNCHANGED remote
    <3>1. pc = "deleteFinalizer" /\ pc # Idle /\ mem.status = mem.before
      BY <2>2 DEF RecordInvariant, DeleteFinalizer, Deleting, Idle
    <3>2. mem.status.auth = a /\ mem.status.identity = api.status.identity
      BY <2>2, <3>1 DEF RecordInvariant
    <3>. QED
      BY <2>2, <3>1, <3>2 DEF RecordInvariant, OnItsIdentity, RecordedOnItsIdentity
  <2>. QED
    BY <2>1, <2>2, Disappears, TypeParts
<1>. QED
  BY <1>1, TypeCorrect, NamesHold, RecordInvariantHolds, PTL DEF Spec, DeletionDetachesRecorded
=============================================================================
