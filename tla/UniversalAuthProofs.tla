-------------------------- MODULE UniversalAuthProofs -----------------------
(***************************************************************************)
(* Theorems about UniversalAuth for all values of its constants.           *)
(***************************************************************************)
EXTENDS UniversalAuth, ControllerProofs

-----------------------------------------------------------------------------
(* Lemmas about the operators the actions are built from *)

\* A patched status is a status.
LEMMA MergePatchType ==
  ASSUME NEW stored \in Statuses, NEW before \in Statuses, NEW after \in Statuses
  PROVE  MergePatch(stored, before, after) \in Statuses
<1> DEFINE p == MergePatch(stored, before, after)
<1>1. DOMAIN stored = {"identity", "credential", "nonce", "reason"}
  BY DEF Statuses
<1>2. p = [identity |-> p.identity, credential |-> p.credential,
           nonce |-> p.nonce, reason |-> p.reason]
  BY <1>1 DEF MergePatch
<1>3. /\ p.identity \in Identities \cup {None}
      /\ p.credential \in Credentials \cup {None}
      /\ p.nonce \in Nonces \cup {None}
      /\ p.reason \in Reasons
  BY <1>1 DEF MergePatch, Statuses
<1>. QED
  BY <1>2, <1>3 DEF Statuses

\* A write of a well-typed resource keeps the three copies well typed.
LEMMA PutResourceType ==
  ASSUME CRTypeOK, NEW r \in Resources, CR!Put(r)
  PROVE  CRTypeOK'
BY DEF CRTypeOK, CR!Put

LEMMA PutSecretType ==
  ASSUME SecretTypeOK, NEW s \in Secrets, Sec!Put(s)
  PROVE  SecretTypeOK'
BY DEF SecretTypeOK, Sec!Put

LEMMA PatchStatusType ==
  ASSUME CRTypeOK, NEW before \in Statuses, NEW after \in Statuses,
         PatchStatus(before, after)
  PROVE  CRTypeOK'
<1>1. CASE api.exists
  <2>1. MergePatch(api.status, before, after) \in Statuses
    BY MergePatchType DEF CRTypeOK, Resources
  <2>2. [api EXCEPT !.status = MergePatch(@, before, after)] \in Resources
    BY <2>1 DEF CRTypeOK, Resources
  <2>. QED
    BY <1>1, <2>2, PutResourceType DEF PatchStatus
<1>2. CASE ~api.exists
  BY <1>2 DEF PatchStatus, crVars, CRTypeOK
<1>. QED
  BY <1>1, <1>2

LEMMA ReturnErrorType ==
  ASSUME CRTypeOK, NEW status \in Statuses, NEW reason \in Reasons,
         ReturnError(status, reason)
  PROVE  CRTypeOK' /\ StepTypeOK'
<1>1. [status EXCEPT !.reason = reason] \in Statuses
  BY DEF Statuses
<1>. QED
  BY <1>1, PatchStatusType DEF ReturnError, EndReconcile, StepTypeOK

LEMMA RemoveFinalizerType ==
  ASSUME CRTypeOK, NEW current, RemoveFinalizer(current)
  PROVE  CRTypeOK'
<1>1. WithoutFinalizer(api) \in Resources
  BY DEF WithoutFinalizer, CRTypeOK, Resources
<1>2. CASE current /\ api.finalizer
  BY <1>1, <1>2, PutResourceType DEF RemoveFinalizer
<1>3. CASE ~(current /\ api.finalizer)
  BY <1>3 DEF RemoveFinalizer, crVars, CRTypeOK
<1>. QED
  BY <1>2, <1>3

\* Infisical's state stays well typed under the two ways of removing credentials.
LEMMA DetachType ==
  ASSUME RemoteTypeOK, NEW i, Detach(i)
  PROVE  RemoteTypeOK'
<1>1. ASSUME NEW c \in Credentials
      PROVE  [credential[c] EXCEPT !.state = "Removed"] \in CredentialRecords
  BY DEF RemoteTypeOK, CredentialRecords, CredentialStates
<1>. QED
  BY <1>1 DEF RemoteTypeOK, Detach

LEMMA RevokeType ==
  ASSUME RemoteTypeOK, NEW state \in CredentialStates, NEW c, NEW i,
         RevokeAs(state, c, i)
  PROVE  credential' \in [Credentials -> CredentialRecords]
<1>1. ASSUME NEW d \in Credentials
      PROVE  [credential[d] EXCEPT !.state = state] \in CredentialRecords
  BY DEF RemoteTypeOK, CredentialRecords
<1>. QED
  BY <1>1 DEF RemoteTypeOK, RevokeAs

\* The updates of the memory of a reconciliation.
LEMMA MemoryType ==
  ASSUME NEW m \in Memories
  PROVE  /\ Observed(m) \in Memories
         /\ \A c \in Credentials \cup {None} :
              Recorded(m, c) \in Memories /\ [m EXCEPT !.minted = c] \in Memories
         /\ [m EXCEPT !.current = FALSE] \in Memories
<1>1. /\ m.spec \in Specs /\ m.status \in Statuses
      /\ m.spec.identity \in Identities /\ m.spec.nonce \in Nonces
  BY DEF Memories, Specs
<1>2. [m.status EXCEPT !.identity = m.spec.identity] \in Statuses
  BY <1>1 DEF Statuses
<1>3. ASSUME NEW c \in Credentials \cup {None}
      PROVE  [m.status EXCEPT !.credential = c, !.nonce = m.spec.nonce] \in Statuses
  BY <1>1 DEF Statuses
<1>4. Observed(m) \in Memories
  BY <1>2 DEF Observed, Memories
<1>5. ASSUME NEW c \in Credentials \cup {None}
      PROVE  Recorded(m, c) \in Memories
  BY <1>3 DEF Recorded, Memories
<1>. QED
  BY <1>4, <1>5 DEF Memories

LEMMA ContinueType ==
  ASSUME NEW step \in Steps, NEW m \in Memories, Continue(step, m)
  PROVE  StepTypeOK'
BY DEF Continue, StepTypeOK

LEMMA EnsureClientSecretType ==
  ASSUME SecretTypeOK, NEW m \in Memories, EnsureClientSecret(m)
  PROVE  StepTypeOK'
<1>1. CASE MustRotate(m) /\ Continue("mint", m)
  BY <1>1, ContinueType DEF Steps
<1>2. CASE Continue("recover", [m EXCEPT !.minted = secretCache.credential])
  <2>1. [m EXCEPT !.minted = secretCache.credential] \in Memories
    BY MemoryType DEF SecretTypeOK, Secrets
  <2>. QED
    BY <1>2, <2>1, ContinueType DEF Steps
<1>3. CASE Continue("verify", m)
  BY <1>3, ContinueType DEF Steps
<1>. QED
  BY <1>1, <1>2, <1>3 DEF EnsureClientSecret

-----------------------------------------------------------------------------
(* Type correctness *)

\* Between two steps of a reconciliation its memory is defined.
LEMMA InProgress ==
  ASSUME StepTypeOK, pc # Idle
  PROVE  mem \in Memories /\ mem.status \in Statuses /\ mem.spec.identity \in Identities
BY DEF StepTypeOK, Memories, Specs

\* Each group of variables is typed by the actions that leave it alone.
LEMMA UnchangedTypes ==
  /\ CRTypeOK /\ UNCHANGED crVars => CRTypeOK'
  /\ SecretTypeOK /\ UNCHANGED secretVars => SecretTypeOK'
  /\ RemoteTypeOK /\ UNCHANGED remoteVars => RemoteTypeOK'
  /\ StepTypeOK /\ UNCHANGED <<pc, mem>> => StepTypeOK'
  /\ EndReconcile => StepTypeOK'
BY DEF crVars, secretVars, remoteVars, CRTypeOK, SecretTypeOK, RemoteTypeOK,
       StepTypeOK, EndReconcile

LEMMA CallFailsType ==
  ASSUME TypeOK, pc # Idle, NEW reason \in Reasons, CallFails(reason)
  PROVE  CRTypeOK' /\ StepTypeOK' /\ RemoteTypeOK'
BY InProgress, ReturnErrorType, UnchangedTypes DEF CallFails, TypeOK

LEMMA AnswerLostType ==
  ASSUME TypeOK, pc # Idle, NEW reason \in Reasons, AnswerLost(reason)
  PROVE  CRTypeOK' /\ StepTypeOK'
BY InProgress, ReturnErrorType DEF AnswerLost, TypeOK

\* Every step of a reconciliation or of a deletion adds at most one fault.
LEMMA ReconcileBound ==
  ASSUME BoundTypeOK, Reconcile \/ Crash
  PROVE  BoundTypeOK'
<1>1. UNCHANGED envVars /\ (NoFault \/ \E kind : Fault(kind))
  BY DEF Reconcile, Crash, EnsureFinalizer, BeginReconcile, BeginDeletion, ReadCaches,
         AdoptLookup, AttachAuth, ReadAuth, UpdateAuth, RecoverCredential,
         VerifyCredential, MintCredential, PublishSecret, RevokePrevious, PersistReady,
         DeleteRevoke, DeleteDetach, DeleteFinalizer, CallFails, AnswerLost,
         DeletionCallFails, NoFault
<1>. QED
  BY <1>1 DEF BoundTypeOK, envVars, NoFault, Fault

\* Init establishes the types.
LEMMA InitType == Init => TypeOK
<1> SUFFICES ASSUME Init PROVE TypeOK
  OBVIOUS
<1>1. api \in Resources
  <2>1. NoStatus \in Statuses
    BY DEF NoStatus, Statuses, Reasons
  <2>2. PICK s \in Specs :
          api = [exists |-> TRUE, deleting |-> FALSE, finalizer |-> FALSE,
                 spec |-> s, status |-> NoStatus]
    BY DEF Init
  <2>. QED
    BY <2>1, <2>2 DEF Resources
<1>2. NoSecret \in Secrets
  BY DEF NoSecret, Secrets
<1>3. Unminted \in CredentialRecords
  BY DEF Unminted, CredentialRecords, CredentialStates
<1>. QED
  BY <1>1, <1>2, <1>3, ConstantsAssumption
  DEF Init, TypeOK, CRTypeOK, SecretTypeOK, RemoteTypeOK, StepTypeOK, BoundTypeOK

\* The first step of a reconciliation.
LEMMA BeginType ==
  ASSUME TypeOK, EnsureFinalizer \/ BeginReconcile \/ BeginDeletion
  PROVE  CRTypeOK' /\ SecretTypeOK' /\ RemoteTypeOK' /\ StepTypeOK'
<1>1. Loaded \in Memories /\ cache.status \in Statuses
  BY DEF Loaded, TypeOK, CRTypeOK, Resources, Memories, CR!Current
<1>2. SecretTypeOK' /\ RemoteTypeOK'
  BY UnchangedTypes DEF TypeOK, EnsureFinalizer, BeginReconcile, BeginDeletion
<1>3. CASE EnsureFinalizer
  <2>1. [api EXCEPT !.finalizer = TRUE] \in Resources
    BY DEF TypeOK, CRTypeOK, Resources
  <2>. QED
    BY <1>2, <1>3, <2>1, PutResourceType, UnchangedTypes DEF EnsureFinalizer, TypeOK
<1>4. CASE BeginReconcile
  <2>1. FirstStep(cache) \in Steps
    BY DEF FirstStep, Steps
  <2>2. {"IdentityNotReady", "ConnectionNotReady"} \subseteq Reasons
    BY DEF Reasons
  <2>. QED
    BY <1>1, <1>2, <1>4, <2>1, <2>2, ContinueType, ReturnErrorType, UnchangedTypes
    DEF BeginReconcile, TypeOK
<1>5. CASE BeginDeletion
  BY <1>1, <1>2, <1>5, ContinueType, RemoveFinalizerType, UnchangedTypes
  DEF BeginDeletion, TypeOK, Steps
<1>. QED
  BY <1>3, <1>4, <1>5

\* The steps on the identity's Universal Auth.
LEMMA AuthStepType ==
  ASSUME TypeOK, AdoptLookup \/ AttachAuth \/ ReadAuth \/ UpdateAuth
  PROVE  CRTypeOK' /\ SecretTypeOK' /\ RemoteTypeOK' /\ StepTypeOK'
<1>1. SecretTypeOK'
  BY UnchangedTypes DEF TypeOK, AdoptLookup, AttachAuth, ReadAuth, UpdateAuth
<1>2. pc # Idle /\ mem \in Memories /\ Observed(mem) \in Memories
      /\ mem.status \in Statuses /\ mem.spec.config \in Configs
  <2>1. pc # Idle
    BY DEF AdoptLookup, AttachAuth, ReadAuth, UpdateAuth, Idle
  <2>. QED
    BY <2>1, InProgress, MemoryType DEF TypeOK, Memories, Specs
<1>3. {"ExternalReadFailed", "RemoteAuthMissing", "ExternalCreateFailed",
       "ExternalUpdateFailed"} \subseteq Reasons
  BY DEF Reasons
<1>4. [remoteAuth EXCEPT ![mem.spec.identity] = mem.spec.config]
        \in [Identities -> Configs \cup {None}]
  BY <1>2 DEF TypeOK, RemoteTypeOK
<1>5. CASE AdoptLookup
  <2>1. {"read", "attach"} \subseteq Steps
    BY DEF Steps
  <2>. QED
    BY <1>1, <1>2, <1>3, <1>5, <2>1, ContinueType, ReturnErrorType, CallFailsType,
       UnchangedTypes DEF AdoptLookup, TypeOK
<1>6. CASE AttachAuth
  <2>1. "read" \in Steps
    BY DEF Steps
  <2>2. RemoteTypeOK'
    BY <1>2, <1>3, <1>4, <1>6, CallFailsType, UnchangedTypes
    DEF AttachAuth, TypeOK, RemoteTypeOK
  <2>. QED
    BY <1>1, <1>2, <1>3, <1>6, <2>1, <2>2, ContinueType, ReturnErrorType, CallFailsType,
       AnswerLostType, UnchangedTypes DEF AttachAuth, TypeOK
<1>7. CASE ReadAuth
  <2>1. "update" \in Steps
    BY DEF Steps
  <2>2. ClearedStatus \in Statuses
    BY DEF ClearedStatus, NoStatus, Statuses, Reasons
  <2>. QED
    BY <1>1, <1>2, <1>3, <1>7, <2>1, <2>2, ContinueType, PatchStatusType, CallFailsType,
       EnsureClientSecretType, UnchangedTypes DEF ReadAuth, TypeOK
<1>8. CASE UpdateAuth
  <2>1. RemoteTypeOK'
    BY <1>2, <1>3, <1>4, <1>8, CallFailsType, UnchangedTypes
    DEF UpdateAuth, TypeOK, RemoteTypeOK
  <2>. QED
    BY <1>1, <1>2, <1>3, <1>8, <2>1, ReturnErrorType, CallFailsType, AnswerLostType,
       EnsureClientSecretType, UnchangedTypes DEF UpdateAuth, TypeOK
<1>. QED
  BY <1>5, <1>6, <1>7, <1>8

\* The steps on the client secret.
LEMMA CredentialStepType ==
  ASSUME TypeOK,
         \/ RecoverCredential \/ VerifyCredential \/ MintCredential
         \/ PublishSecret \/ RevokePrevious \/ PersistReady
  PROVE  CRTypeOK' /\ SecretTypeOK' /\ RemoteTypeOK' /\ StepTypeOK'
<1>1. pc # Idle /\ mem \in Memories /\ mem.status \in Statuses
      /\ mem.minted \in Credentials \cup {None}
      /\ Recorded(mem, mem.minted) \in Memories
  <2>1. pc # Idle
    BY DEF RecoverCredential, VerifyCredential, MintCredential, PublishSecret,
           RevokePrevious, PersistReady, Idle
  <2>. QED
    BY <2>1, InProgress, MemoryType DEF TypeOK, Memories
<1>2. "ClientSecretNotReady" \in Reasons /\ "Ready" \in Reasons
  BY DEF Reasons
<1>3. {"mint", "verify", "publish", "revoke", "persist"} \subseteq Steps
  BY DEF Steps
<1>4. CASE RecoverCredential \/ VerifyCredential
  <2>1. [mem EXCEPT !.minted = None] \in Memories
    BY <1>1, MemoryType
  <2>. QED
    BY <1>1, <1>2, <1>3, <1>4, <2>1, ContinueType, CallFailsType, UnchangedTypes
    DEF RecoverCredential, VerifyCredential, TypeOK
<1>5. CASE MintCredential
  <2>1. SecretTypeOK'
    BY <1>5, UnchangedTypes DEF MintCredential, TypeOK
  <2>2. ASSUME NEW c \in Credentials
        PROVE  [state |-> "Live", identity |-> mem.status.identity,
                nonce |-> mem.spec.nonce, published |-> FALSE] \in CredentialRecords
    BY <1>1 DEF CredentialRecords, CredentialStates, Statuses, Memories, Specs
  <2>3. RemoteTypeOK'
    BY <1>1, <1>2, <1>5, <2>2, CallFailsType, UnchangedTypes
    DEF MintCredential, TypeOK, RemoteTypeOK
  <2>4. ASSUME NEW c \in Credentials
        PROVE  [mem EXCEPT !.minted = c] \in Memories
    BY <1>1, MemoryType
  <2>. QED
    BY <1>1, <1>2, <1>3, <1>5, <2>1, <2>3, <2>4, ContinueType, ReturnErrorType,
       CallFailsType, AnswerLostType, UnchangedTypes DEF MintCredential, AfterMint, TypeOK
<1>6. CASE PublishSecret
  <2>1. SecretTypeOK'
    <3>1. [exists |-> TRUE, owner |-> "Ours", credential |-> mem.minted] \in Secrets
      BY <1>1 DEF Secrets
    <3>. QED
      BY <1>6, <3>1, PutSecretType, UnchangedTypes DEF PublishSecret, TypeOK
  <2>2. RemoteTypeOK'
    <3>1. ASSUME NEW c \in Credentials
          PROVE  [credential[c] EXCEPT !.published = TRUE] \in CredentialRecords
      BY DEF TypeOK, RemoteTypeOK, CredentialRecords
    <3>. QED
      BY <1>1, <1>2, <1>6, <3>1, CallFailsType DEF PublishSecret, TypeOK, RemoteTypeOK
  <2>3. AfterPublish(mem) => StepTypeOK'
    BY <1>1, <1>3, ContinueType DEF AfterPublish
  <2>. QED
    BY <1>1, <1>2, <1>6, <2>1, <2>2, <2>3, ReturnErrorType, CallFailsType,
       AnswerLostType, UnchangedTypes DEF PublishSecret, TypeOK
<1>7. CASE RevokePrevious
  <2>1. RemoteTypeOK'
    BY <1>1, <1>2, <1>7, RevokeType, CallFailsType
    DEF RevokePrevious, TypeOK, RemoteTypeOK, CredentialStates
  <2>. QED
    BY <1>1, <1>2, <1>3, <1>7, <2>1, ContinueType, CallFailsType, AnswerLostType,
       UnchangedTypes DEF RevokePrevious, TypeOK
<1>8. CASE PersistReady
  <2>1. mem.before \in Statuses /\ [mem.status EXCEPT !.reason = "Ready"] \in Statuses
    BY <1>1, <1>2 DEF Memories, Statuses
  <2>. QED
    BY <1>8, <2>1, PatchStatusType, UnchangedTypes DEF PersistReady, Snapshot, TypeOK
<1>. QED
  BY <1>4, <1>5, <1>6, <1>7, <1>8

\* The steps of a deletion, and a reconciliation that breaks off.
LEMMA DeletionStepType ==
  ASSUME TypeOK, DeleteRevoke \/ DeleteDetach \/ DeleteFinalizer \/ Crash
  PROVE  CRTypeOK' /\ SecretTypeOK' /\ RemoteTypeOK' /\ StepTypeOK'
<1>1. pc # Idle
  BY DEF DeleteRevoke, DeleteDetach, DeleteFinalizer, Crash, Idle
<1>2. mem \in Memories
  BY <1>1, InProgress DEF TypeOK
<1>3. SecretTypeOK'
  BY UnchangedTypes DEF TypeOK, DeleteRevoke, DeleteDetach, DeleteFinalizer, Crash
<1>4. {"deleteDetach", "deleteFinalizer"} \subseteq Steps
  BY DEF Steps
<1>5. CASE DeleteRevoke
  <2>1. RemoteTypeOK'
    BY <1>5, RevokeType, UnchangedTypes
    DEF DeleteRevoke, DeletionCallFails, TypeOK, RemoteTypeOK, CredentialStates
  <2>. QED
    BY <1>2, <1>3, <1>4, <1>5, <2>1, ContinueType, UnchangedTypes
    DEF DeleteRevoke, DeletionCallFails, TypeOK
<1>6. CASE DeleteDetach
  BY <1>2, <1>3, <1>4, <1>6, DetachType, ContinueType, UnchangedTypes
  DEF DeleteDetach, DetachAny, DeletionCallFails, TypeOK
<1>7. CASE DeleteFinalizer \/ Crash
  BY <1>3, <1>7, RemoveFinalizerType, UnchangedTypes DEF DeleteFinalizer, Crash, TypeOK
<1>. QED
  BY <1>5, <1>6, <1>7

\* A delivered version was stored before.
LEMMA DeliveryType ==
  ASSUME TypeOK, DeliverResource \/ DeliverSecret
  PROVE  TypeOK'
<1>1. BoundTypeOK' /\ RemoteTypeOK' /\ StepTypeOK'
  BY UnchangedTypes DEF TypeOK, BoundTypeOK, envVars, DeliverResource, DeliverSecret
<1>2. CASE DeliverResource
  <2>1. CRTypeOK'
    BY <1>2 DEF DeliverResource, CR!Deliver, TypeOK, CRTypeOK
  <2>. QED
    BY <1>1, <1>2, <2>1, UnchangedTypes DEF DeliverResource, TypeOK
<1>3. CASE DeliverSecret
  <2>1. SecretTypeOK'
    BY <1>3 DEF DeliverSecret, Sec!Deliver, TypeOK, SecretTypeOK
  <2>. QED
    BY <1>1, <1>3, <2>1, UnchangedTypes DEF DeliverSecret, TypeOK
<1>. QED
  BY <1>2, <1>3

\* Users, other controllers and Infisical administrators.
LEMMA OutsideType ==
  ASSUME TypeOK, Outside
  PROVE  TypeOK'
<1>1. BoundTypeOK'
  BY DEF TypeOK, BoundTypeOK, envVars, Outside, Disturb, EditSpec, DeleteResource, DeleteSecret,
         ClaimSecret, CollectSecret, DetachOutside, RevokeOutside, ConfigureOutside,
         LoseDependency, RestoreDependency
<1>2. OutdateCopy /\ UNCHANGED pc => StepTypeOK'
  BY MemoryType DEF OutdateCopy, StepTypeOK, TypeOK
<1>3. CASE EditSpec \/ DeleteResource
  <2>1. ASSUME NEW s \in Specs PROVE [api EXCEPT !.spec = s] \in Resources
    BY DEF TypeOK, CRTypeOK, Resources
  <2>2. [api EXCEPT !.deleting = api.finalizer, !.exists = api.finalizer] \in Resources
    BY DEF TypeOK, CRTypeOK, Resources
  <2>. QED
    BY <1>1, <1>2, <1>3, <2>1, <2>2, PutResourceType, UnchangedTypes
    DEF EditSpec, DeleteResource, Disturb, TypeOK
<1>4. CASE DeleteSecret \/ ClaimSecret \/ CollectSecret
  <2>1. NoSecret \in Secrets
        /\ [exists |-> TRUE, owner |-> "Other", credential |-> None] \in Secrets
    BY DEF NoSecret, Secrets
  <2>. QED
    BY <1>1, <1>4, <2>1, PutSecretType, UnchangedTypes
    DEF DeleteSecret, ClaimSecret, CollectSecret, Disturb, TypeOK
<1>5. CASE DetachOutside
  BY <1>1, <1>5, DetachType, UnchangedTypes DEF DetachOutside, Disturb, TypeOK
<1>6. CASE RevokeOutside
  BY <1>1, <1>6, RevokeType, UnchangedTypes
  DEF RevokeOutside, Disturb, TypeOK, RemoteTypeOK, CredentialStates
<1>7. CASE ConfigureOutside
  BY <1>1, <1>7, UnchangedTypes DEF ConfigureOutside, Disturb, TypeOK, RemoteTypeOK
<1>8. CASE LoseDependency \/ RestoreDependency
  BY <1>1, <1>8, UnchangedTypes DEF LoseDependency, RestoreDependency, Disturb, TypeOK
<1>. QED
  BY <1>3, <1>4, <1>5, <1>6, <1>7, <1>8 DEF Outside

\* Every variable keeps its type, whatever interleaves with a reconciliation;
\* in particular a reconciliation in progress always has its memory and an
\* ended one has none.
THEOREM TypeCorrect == Spec => []TypeOK
<1>1. TypeOK /\ [Next]_vars => TypeOK'
  <2> SUFFICES ASSUME TypeOK, [Next]_vars PROVE TypeOK'
    OBVIOUS
  <2>1. CASE Reconcile \/ Crash
    BY <2>1, ReconcileBound, BeginType, AuthStepType, CredentialStepType, DeletionStepType
    DEF Reconcile, TypeOK
  <2>2. CASE DeliverResource \/ DeliverSecret
    BY <2>2, DeliveryType
  <2>3. CASE Outside
    BY <2>3, OutsideType
  <2>4. CASE UNCHANGED vars
    BY <2>4, UnchangedTypes DEF vars, envVars, TypeOK, BoundTypeOK
  <2>. QED
    BY <2>1, <2>2, <2>3, <2>4 DEF Next
<1>. QED
  BY <1>1, InitType, PTL DEF Spec

-----------------------------------------------------------------------------
(* PublishedNotRotatedOut *)

\* A minted credential is a fresh one.
LEMMA MintChanges ==
  ASSUME MintCredential
  PROVE  \/ UNCHANGED credential
         \/ \E c \in Credentials : \E r :
              /\ credential[c].state = "Unused"
              /\ r.state = "Live" /\ r.published = FALSE
              /\ credential' = [credential EXCEPT ![c] = r]
<1>1. CASE UNCHANGED remoteVars
  BY <1>1 DEF remoteVars
<1>2. CASE ~UNCHANGED remoteVars
  <2>1. PICK c \in Credentials :
          /\ credential[c].state = "Unused"
          /\ credential' = [credential EXCEPT ![c] =
               [state |-> "Live", identity |-> mem.status.identity,
                nonce |-> mem.spec.nonce, published |-> FALSE]]
    BY <1>2 DEF MintCredential, CallFails
  <2>. QED
    BY <2>1
<1>. QED
  BY <1>1, <1>2

\* Only RevokePrevious rotates a credential out.
LEMMA RotatedOnlyByRevoke ==
  ASSUME TypeOK, Next, ~RevokePrevious, NEW c \in Credentials,
         credential'[c].state = "RotatedOut"
  PROVE  credential[c].state = "RotatedOut"
<1>1. ASSUME NEW i, Detach(i) PROVE credential[c].state = "RotatedOut"
  BY <1>1 DEF Detach, TypeOK, RemoteTypeOK, CredentialRecords
<1>2. ASSUME NEW d, NEW i, RevokeAs("Removed", d, i)
      PROVE  credential[c].state = "RotatedOut"
  BY <1>2 DEF RevokeAs, TypeOK, RemoteTypeOK, CredentialRecords
<1>3. UNCHANGED credential => credential[c].state = "RotatedOut"
  OBVIOUS
<1>4. CASE Reconcile
  <2>1. CASE MintCredential
    BY <1>3, <2>1, MintChanges DEF TypeOK, RemoteTypeOK
  <2>2. CASE PublishSecret
    BY <1>3, <2>2 DEF PublishSecret, CallFails, remoteVars, TypeOK, RemoteTypeOK,
                      CredentialRecords
  <2>3. CASE DeleteRevoke
    BY <1>2, <1>3, <2>3 DEF DeleteRevoke, DeletionCallFails, remoteVars
  <2>4. CASE DeleteDetach
    BY <1>1, <1>3, <2>4 DEF DeleteDetach, DetachAny, DeletionCallFails, remoteVars
  <2>5. CASE \/ EnsureFinalizer \/ BeginReconcile \/ BeginDeletion
             \/ AdoptLookup \/ AttachAuth \/ ReadAuth \/ UpdateAuth
             \/ RecoverCredential \/ VerifyCredential \/ PersistReady \/ DeleteFinalizer
    BY <1>3, <2>5
    DEF EnsureFinalizer, BeginReconcile, BeginDeletion, AdoptLookup, AttachAuth, ReadAuth,
        UpdateAuth, RecoverCredential, VerifyCredential, PersistReady, DeleteFinalizer,
        CallFails, remoteVars
  <2>. QED
    BY <1>4, <2>1, <2>2, <2>3, <2>4, <2>5 DEF Reconcile
<1>5. CASE Crash \/ DeliverResource \/ DeliverSecret
  BY <1>3, <1>5 DEF Crash, DeliverResource, DeliverSecret, remoteVars
<1>6. CASE Outside
  BY <1>1, <1>2, <1>3, <1>6
  DEF Outside, EditSpec, DeleteResource, DeleteSecret, ClaimSecret, CollectSecret,
      DetachOutside, RevokeOutside, ConfigureOutside, LoseDependency, RestoreDependency,
      remoteVars
<1>. QED
  BY <1>4, <1>5, <1>6 DEF Next

\* Only PublishSecret puts a credential into the Secret.
LEMMA SecretOnlyByPublish ==
  ASSUME Next, ~PublishSecret
  PROVE  secret'.credential \in {secret.credential, None}
<1>1. CASE Reconcile
  BY <1>1
  DEF Reconcile, EnsureFinalizer, BeginReconcile, BeginDeletion, AdoptLookup, AttachAuth,
      ReadAuth, UpdateAuth, RecoverCredential, VerifyCredential, MintCredential,
      RevokePrevious, PersistReady, DeleteRevoke, DeleteDetach, DeleteFinalizer, secretVars
<1>2. CASE Crash \/ DeliverResource \/ DeliverSecret
  BY <1>2 DEF Crash, DeliverResource, DeliverSecret, Sec!Deliver, secretVars
<1>3. CASE Outside
  BY <1>3
  DEF Outside, EditSpec, DeleteResource, DeleteSecret, ClaimSecret, CollectSecret, Sec!Put,
      DetachOutside, RevokeOutside, ConfigureOutside, LoseDependency, RestoreDependency,
      secretVars, NoSecret
<1>. QED
  BY <1>1, <1>2, <1>3 DEF Next

\* A reconciliation comes to "publish" with the credential it has just minted,
\* and to "revoke" once the Secret holds another credential than the status.
LEMMA EnterPublishOrRevoke ==
  ASSUME TypeOK, Next, pc' \in {"publish", "revoke"}
  PROVE  \/ /\ MintCredential /\ pc' = "publish"
            /\ mem'.minted \in Credentials /\ credential'[mem'.minted].state = "Live"
         \/ /\ PublishSecret /\ pc' = "revoke"
            /\ mem' = mem /\ mem.status.credential \notin {None, mem.minted}
            /\ secret'.credential = mem.minted
         \/ /\ ~Reconcile /\ pc' = pc
            /\ mem'.status = mem.status /\ mem'.minted = mem.minted
<1>1. ~EndReconcile
  BY DEF EndReconcile, Idle
<1>2. ASSUME NEW reason PROVE ~CallFails(reason) /\ ~AnswerLost(reason)
  BY <1>1 DEF CallFails, AnswerLost, ReturnError
<1>3. ASSUME NEW m PROVE ~EnsureClientSecret(m)
  BY DEF EnsureClientSecret, Continue
<1>4. CASE MintCredential
  <2>1. PICK c \in Credentials :
          /\ credential' = [credential EXCEPT ![c] =
               [state |-> "Live", identity |-> mem.status.identity,
                nonce |-> mem.spec.nonce, published |-> FALSE]]
          /\ AfterMint([mem EXCEPT !.minted = c])
    BY <1>1, <1>2, <1>4 DEF MintCredential, ReturnError
  <2>2. mem \in Memories
    BY <1>4, InProgress DEF MintCredential, TypeOK, Idle
  <2>3. mem'.minted = c /\ pc' = "publish"
    BY <2>1, <2>2 DEF AfterMint, Continue, Memories
  <2>4. credential'[c].state = "Live"
    BY <2>1 DEF TypeOK, RemoteTypeOK
  <2>. QED
    BY <1>4, <2>3, <2>4
<1>5. CASE PublishSecret
  <2>1. AfterPublish(mem) /\ Sec!Put([exists |-> TRUE, owner |-> "Ours",
                                      credential |-> mem.minted])
    BY <1>1, <1>2, <1>5 DEF PublishSecret, ReturnError
  <2>. QED
    BY <1>5, <2>1 DEF AfterPublish, Continue, Sec!Put
<1>6. CASE Reconcile /\ ~MintCredential /\ ~PublishSecret
  <2>1. CASE EnsureFinalizer \/ BeginReconcile \/ BeginDeletion
    BY <1>1, <2>1
    DEF EnsureFinalizer, BeginReconcile, BeginDeletion, ReturnError, Continue, FirstStep
  <2>2. CASE AdoptLookup \/ AttachAuth \/ ReadAuth \/ UpdateAuth
    BY <1>1, <1>2, <1>3, <2>2
    DEF AdoptLookup, AttachAuth, ReadAuth, UpdateAuth, ReturnError, Continue
  <2>3. CASE RecoverCredential \/ VerifyCredential \/ RevokePrevious \/ PersistReady
    BY <1>1, <1>2, <2>3
    DEF RecoverCredential, VerifyCredential, RevokePrevious, PersistReady, Continue
  <2>4. CASE DeleteRevoke \/ DeleteDetach \/ DeleteFinalizer
    BY <1>1, <2>4
    DEF DeleteRevoke, DeleteDetach, DeleteFinalizer, DeletionCallFails, Continue
  <2>. QED
    BY <1>6, <2>1, <2>2, <2>3, <2>4 DEF Reconcile
<1>7. CASE ~Reconcile
  <2>1. ~Crash
    BY <1>1 DEF Crash
  <2>2. pc' = pc
    BY <1>7, <2>1
    DEF Next, DeliverResource, DeliverSecret, Outside, EditSpec, DeleteResource,
        DeleteSecret, ClaimSecret, CollectSecret, DetachOutside, RevokeOutside,
        ConfigureOutside, LoseDependency, RestoreDependency, Disturb
  <2>3. mem \in Memories
    BY <2>2, InProgress DEF TypeOK, Idle
  <2>4. mem' = mem \/ mem' = [mem EXCEPT !.current = FALSE]
    BY <1>7, <2>1
    DEF Next, DeliverResource, DeliverSecret, Outside, EditSpec, DeleteResource,
        DeleteSecret, ClaimSecret, CollectSecret, DetachOutside, RevokeOutside,
        ConfigureOutside, LoseDependency, RestoreDependency, OutdateCopy
  <2>. QED
    BY <1>7, <2>2, <2>3, <2>4 DEF Memories
<1>. QED
  BY <1>4, <1>5, <1>6, <1>7

\* The strengthening of PublishedNotRotatedOut is inductive.
LEMMA RotationInvariantHolds == Spec => []RotationInvariant
<1>1. Init => RotationInvariant
  BY DEF Init, RotationInvariant, PublishedNotRotatedOut, NoSecret, Idle
<1>2. TypeOK /\ TypeOK' /\ RotationInvariant /\ [Next]_vars => RotationInvariant'
  <2> SUFFICES ASSUME TypeOK, TypeOK', RotationInvariant, [Next]_vars
               PROVE  RotationInvariant'
    OBVIOUS
  <2>1. CASE UNCHANGED vars
    BY <2>1 DEF RotationInvariant, PublishedNotRotatedOut, vars, secretVars, remoteVars
  <2>2. CASE Next
    <3>1. /\ secret.credential \in Credentials \cup {None}
          /\ secret'.credential \in Credentials \cup {None}
          /\ credential \in [Credentials -> CredentialRecords]
          /\ pc # Idle => mem.minted \in Credentials \cup {None}
      BY InProgress DEF TypeOK, SecretTypeOK, RemoteTypeOK, Secrets, Memories
    <3>2. PublishedNotRotatedOut'
      <4>1. CASE RevokePrevious
        <5>1. UNCHANGED secret /\ secret.credential # mem.status.credential
          BY <4>1 DEF RevokePrevious, RotationInvariant, secretVars
        <5>2. ASSUME NEW c \in Credentials, c # mem.status.credential
              PROVE  credential'[c] = credential[c]
          BY <3>1, <4>1, <5>2 DEF RevokePrevious, RevokeAs, CallFails, remoteVars, Previous
        <5>. QED
          BY <3>1, <5>1, <5>2 DEF RotationInvariant, PublishedNotRotatedOut
      <4>2. CASE PublishSecret
        <5>1. secret'.credential \in {secret.credential, mem.minted}
          BY <4>2 DEF PublishSecret, Sec!Put, secretVars
        <5>2. ~RevokePrevious /\ pc = "publish"
          BY <4>2 DEF PublishSecret, RevokePrevious
        <5>. QED
          BY <2>2, <3>1, <5>1, <5>2, RotatedOnlyByRevoke
          DEF RotationInvariant, PublishedNotRotatedOut
      <4>3. CASE ~RevokePrevious /\ ~PublishSecret
        BY <2>2, <3>1, <4>3, RotatedOnlyByRevoke, SecretOnlyByPublish
        DEF RotationInvariant, PublishedNotRotatedOut
      <4>. QED
        BY <4>1, <4>2, <4>3
    <3>3. pc' = "publish" =>
            mem'.minted # None /\ credential'[mem'.minted].state # "RotatedOut"
      <4> SUFFICES ASSUME pc' = "publish"
                   PROVE  mem'.minted # None /\ credential'[mem'.minted].state # "RotatedOut"
        OBVIOUS
      <4>1. CASE mem'.minted \in Credentials /\ credential'[mem'.minted].state = "Live"
        BY <4>1, ConstantsAssumption
      <4>2. CASE ~Reconcile /\ pc' = pc /\ mem'.minted = mem.minted
        BY <2>2, <3>1, <4>2, RotatedOnlyByRevoke DEF RotationInvariant, Reconcile, Idle
      <4>. QED
        BY <2>2, <4>1, <4>2, EnterPublishOrRevoke
    <3>4. pc' = "revoke" => /\ mem'.status.credential # None
                            /\ secret'.credential # mem'.status.credential
      BY <2>2, EnterPublishOrRevoke, SecretOnlyByPublish DEF RotationInvariant, Reconcile
    <3>. QED
      BY <3>2, <3>3, <3>4 DEF RotationInvariant
  <2>. QED
    BY <2>1, <2>2
<1>. QED
  BY <1>1, <1>2, TypeCorrect, PTL DEF Spec

\* A rotation never revokes the credential that the output Secret holds:
\* PublishedNotRotatedOut holds in every reachable state.
THEOREM RotationSafe == Spec => []PublishedNotRotatedOut
<1>1. RotationInvariant => PublishedNotRotatedOut
  BY DEF RotationInvariant
<1>. QED
  BY <1>1, RotationInvariantHolds, PTL

-----------------------------------------------------------------------------
(* DeletionDetachesRecorded *)

\* The stored resource changes by writes, and the cache by deliveries.
LEMMA ResourceSteps ==
  ASSUME TypeOK, Next
  PROVE  UNCHANGED crVars \/ (\E r : CR!Put(r)) \/ CR!Deliver
<1>1. CASE Reconcile
  <2>1. CASE EnsureFinalizer \/ BeginReconcile \/ BeginDeletion
    BY WritesBack, <2>1 DEF EnsureFinalizer, BeginReconcile, BeginDeletion
  <2>2. CASE AdoptLookup \/ AttachAuth \/ ReadAuth \/ UpdateAuth
    BY WritesBack, <2>2
    DEF AdoptLookup, AttachAuth, ReadAuth, UpdateAuth, CallFails, AnswerLost
  <2>3. CASE RecoverCredential \/ VerifyCredential \/ MintCredential \/ PublishSecret
    BY WritesBack, <2>3
    DEF RecoverCredential, VerifyCredential, MintCredential, PublishSecret, CallFails, AnswerLost
  <2>4. CASE RevokePrevious \/ PersistReady \/ DeleteRevoke \/ DeleteDetach \/ DeleteFinalizer
    BY WritesBack, <2>4
    DEF RevokePrevious, PersistReady, DeleteRevoke, DeleteDetach, DeleteFinalizer,
        CallFails, AnswerLost
  <2>. QED
    BY <1>1, <2>1, <2>2, <2>3, <2>4 DEF Reconcile
<1>2. CASE ~Reconcile
  BY <1>2
  DEF Next, Crash, DeliverResource, DeliverSecret, Outside, EditSpec, DeleteResource,
      DeleteSecret, ClaimSecret, CollectSecret, DetachOutside, RevokeOutside,
      ConfigureOutside, LoseDependency, RestoreDependency
<1>. QED
  BY <1>1, <1>2

\* While a reconciliation runs, its memory keeps what it read, and the resource
\* changes only by writes that outdate that copy.
LEMMA MemorySteps ==
  ASSUME TypeOK, Next, pc' # Idle
  PROVE  \/ BeginReconcile /\ mem' = Loaded /\ UNCHANGED crVars
         \/ BeginDeletion /\ mem' = Loaded /\ UNCHANGED crVars
         \/ /\ Reconcile /\ pc # Idle /\ UNCHANGED crVars
            /\ mem'.spec = mem.spec /\ mem'.before = mem.before
            /\ mem'.current = mem.current
         \/ /\ ~Reconcile /\ pc' = pc /\ mem'.status = mem.status
            /\ mem'.spec = mem.spec /\ mem'.before = mem.before
            /\ \/ mem'.current = FALSE
               \/ mem'.current = mem.current /\ UNCHANGED api
<1>1. ~EndReconcile
  BY DEF EndReconcile
<1>2. ASSUME NEW reason PROVE ~CallFails(reason) /\ ~AnswerLost(reason)
  BY <1>1 DEF CallFails, AnswerLost, ReturnError
<1>3. ASSUME NEW m \in Memories, EnsureClientSecret(m)
      PROVE  /\ mem'.spec = m.spec /\ mem'.before = m.before /\ mem'.current = m.current
  BY <1>3 DEF EnsureClientSecret, Continue, Memories
<1>4. CASE EnsureFinalizer \/ BeginReconcile \/ BeginDeletion
  BY <1>1, <1>4
  DEF EnsureFinalizer, BeginReconcile, BeginDeletion, ReturnError, Continue
<1>5. pc # Idle => mem \in Memories /\ Observed(mem) \in Memories
  BY InProgress, MemoryType DEF TypeOK
<1>6. mem \in Memories =>
        /\ Observed(mem).spec = mem.spec /\ Observed(mem).before = mem.before
        /\ Observed(mem).current = mem.current
  BY DEF Observed, Memories
<1>7. CASE AdoptLookup \/ AttachAuth \/ ReadAuth \/ UpdateAuth
  BY <1>1, <1>2, <1>3, <1>5, <1>6, <1>7
  DEF AdoptLookup, AttachAuth, ReadAuth, UpdateAuth, ReturnError, Continue, Idle, Reconcile
<1>8. CASE \/ RecoverCredential \/ VerifyCredential \/ MintCredential
           \/ PublishSecret \/ RevokePrevious
  <2>1. pc # Idle /\ mem \in Memories
    BY <1>5, <1>8
    DEF RecoverCredential, VerifyCredential, MintCredential, PublishSecret, RevokePrevious, Idle
  <2>2. ASSUME NEW c, NEW m, m = Recorded(mem, c) \/ m = [mem EXCEPT !.minted = c]
        PROVE  m.spec = mem.spec /\ m.before = mem.before /\ m.current = mem.current
    BY <2>1, <2>2 DEF Recorded, Memories
  <2>3. CASE RecoverCredential \/ VerifyCredential
    BY <1>2, <2>1, <2>2, <2>3 DEF RecoverCredential, VerifyCredential, Continue, Reconcile
  <2>4. CASE MintCredential
    <3>1. PICK c : AfterMint([mem EXCEPT !.minted = c]) /\ UNCHANGED crVars
      BY <1>1, <1>2, <2>4 DEF MintCredential, ReturnError
    <3>. QED
      BY <2>1, <2>2, <2>4, <3>1 DEF AfterMint, Continue, Reconcile
  <2>5. CASE PublishSecret
    <3>1. AfterPublish(mem) /\ UNCHANGED crVars
      BY <1>1, <1>2, <2>5 DEF PublishSecret, ReturnError
    <3>. QED
      BY <2>1, <2>2, <2>5, <3>1 DEF AfterPublish, Continue, Reconcile
  <2>6. CASE RevokePrevious
    BY <1>2, <2>1, <2>2, <2>6 DEF RevokePrevious, Continue, Reconcile
  <2>. QED
    BY <1>8, <2>3, <2>4, <2>5, <2>6
<1>9. CASE PersistReady \/ DeleteRevoke \/ DeleteDetach \/ DeleteFinalizer
  BY <1>1, <1>9
  DEF PersistReady, DeleteRevoke, DeleteDetach, DeleteFinalizer, DeletionCallFails, Continue,
      Idle, Reconcile
<1>10. CASE ~Reconcile
  <2>1. ~Crash
    BY <1>1 DEF Crash
  <2>2. pc' = pc
    BY <1>10, <2>1
    DEF Next, DeliverResource, DeliverSecret, Outside, EditSpec, DeleteResource,
        DeleteSecret, ClaimSecret, CollectSecret, DetachOutside, RevokeOutside,
        ConfigureOutside, LoseDependency, RestoreDependency, Disturb
  <2>3. mem' = [mem EXCEPT !.current = FALSE] \/ (mem' = mem /\ UNCHANGED api)
    <3>1. CASE DeliverResource \/ DeliverSecret
      BY <3>1 DEF DeliverResource, DeliverSecret, CR!Deliver, crVars
    <3>2. CASE EditSpec \/ DeleteResource
      BY <2>2, <3>2 DEF EditSpec, DeleteResource, OutdateCopy
    <3>3. CASE DeleteSecret \/ ClaimSecret \/ CollectSecret \/ DetachOutside \/ RevokeOutside
      BY <3>3
      DEF DeleteSecret, ClaimSecret, CollectSecret, DetachOutside, RevokeOutside, crVars
    <3>4. CASE ConfigureOutside \/ LoseDependency \/ RestoreDependency
      BY <3>4 DEF ConfigureOutside, LoseDependency, RestoreDependency, crVars
    <3>. QED
      BY <1>10, <2>1, <3>1, <3>2, <3>3, <3>4 DEF Next, Outside
  <2>. QED
    BY <1>5, <1>10, <2>2, <2>3 DEF Memories
<1>. QED
  BY <1>4, <1>7, <1>8, <1>9, <1>10 DEF Reconcile

\* Universal Auth stays detached while the finalizer waits to be removed.
LEMMA StaysDetached ==
  ASSUME TypeOK, Next, ~Reconcile, NEW i \in Identities, remoteAuth[i] = None
  PROVE  remoteAuth'[i] = None
<1>1. CASE Crash \/ DeliverResource \/ DeliverSecret
  BY <1>1 DEF Crash, DeliverResource, DeliverSecret, remoteVars
<1>2. CASE DetachOutside \/ RevokeOutside \/ ConfigureOutside
  BY <1>2
  DEF DetachOutside, RevokeOutside, ConfigureOutside, Detach, Attached, TypeOK, RemoteTypeOK
<1>3. CASE \/ EditSpec \/ DeleteResource \/ DeleteSecret \/ ClaimSecret \/ CollectSecret
           \/ LoseDependency \/ RestoreDependency
  BY <1>3 DEF EditSpec, DeleteResource, DeleteSecret, ClaimSecret, CollectSecret,
              LoseDependency, RestoreDependency, remoteVars
<1>. QED
  BY <1>1, <1>2, <1>3 DEF Next, Outside

\* The deletion path is entered with a copy that has something to delete.
LEMMA DeletionSteps ==
  ASSUME TypeOK, Next, pc' \in {"deleteRevoke", "deleteDetach", "deleteFinalizer"}
  PROVE  \/ /\ BeginDeletion /\ mem' = Loaded /\ pc' # "deleteFinalizer"
            /\ cache.status.identity # None
         \/ /\ DeleteRevoke /\ mem' = mem /\ pc' = "deleteDetach"
         \/ /\ DeleteDetach /\ mem' = mem /\ Detach(mem.status.identity)
         \/ ~Reconcile /\ pc' = pc
<1>1. ~EndReconcile
  BY DEF EndReconcile, Idle
<1>2. ASSUME NEW reason PROVE ~CallFails(reason) /\ ~AnswerLost(reason)
  BY <1>1 DEF CallFails, AnswerLost, ReturnError
<1>3. ASSUME NEW m PROVE ~EnsureClientSecret(m)
  BY DEF EnsureClientSecret, Continue
<1>4. CASE EnsureFinalizer \/ BeginReconcile \/ BeginDeletion
  BY <1>1, <1>4
  DEF EnsureFinalizer, BeginReconcile, BeginDeletion, NothingToDelete, FirstStep, ReturnError,
      Continue
<1>5. CASE DeleteRevoke \/ DeleteDetach \/ DeleteFinalizer
  BY <1>1, <1>5
  DEF DeleteRevoke, DeleteDetach, DetachAny, DeleteFinalizer, DeletionCallFails, Continue
<1>6. CASE AdoptLookup \/ AttachAuth \/ ReadAuth \/ UpdateAuth
  BY <1>1, <1>2, <1>3, <1>6
  DEF AdoptLookup, AttachAuth, ReadAuth, UpdateAuth, ReturnError, Continue
<1>7. CASE RecoverCredential \/ VerifyCredential \/ MintCredential
  BY <1>1, <1>2, <1>7
  DEF RecoverCredential, VerifyCredential, MintCredential, AfterMint, ReturnError, Continue
<1>8. CASE PublishSecret \/ RevokePrevious \/ PersistReady
  BY <1>1, <1>2, <1>8
  DEF PublishSecret, AfterPublish, RevokePrevious, PersistReady, ReturnError, Continue
<1>9. CASE ~Reconcile
  <2>1. ~Crash
    BY <1>1 DEF Crash
  <2>. QED
    BY <1>9, <2>1
    DEF Next, DeliverResource, DeliverSecret, Outside, EditSpec, DeleteResource,
        DeleteSecret, ClaimSecret, CollectSecret, DetachOutside, RevokeOutside,
        ConfigureOutside, LoseDependency, RestoreDependency, Disturb
<1>. QED
  BY <1>4, <1>5, <1>6, <1>7, <1>8, <1>9 DEF Reconcile

LEMMA DeletionInvariantStep ==
  ASSUME TypeOK, DeletionInvariant, Next
  PROVE  DeletionInvariant'
<1> DEFINE Deleting == {"deleteRevoke", "deleteDetach", "deleteFinalizer"}
<1>1. CacheFollows'
  BY ResourceSteps, CacheFollowsStep DEF DeletionInvariant, TypeOK, CRTypeOK
<1>2. ASSUME pc' # Idle, mem'.current
      PROVE  mem'.spec = api'.spec /\ mem'.before = api'.status
  <2>1. CASE mem' = Loaded /\ UNCHANGED crVars
    BY <1>2, <2>1 DEF Loaded, CR!Current, DeletionInvariant, CacheFollows, crVars
  <2>2. CASE /\ pc # Idle /\ UNCHANGED api
             /\ mem'.spec = mem.spec /\ mem'.before = mem.before
             /\ mem'.current = mem.current
    BY <1>2, <2>2 DEF DeletionInvariant
  <2>. QED
    BY <1>2, <2>1, <2>2, MemorySteps DEF crVars
<1>3. ASSUME pc' \in Deleting
      PROVE  mem'.status = mem'.before /\ mem'.status.identity # None
  <2>1. pc' # Idle
    BY <1>3 DEF Idle
  <2>2. CASE mem' = Loaded /\ cache.status.identity # None
    BY <2>2 DEF Loaded
  <2>3. CASE DeleteRevoke \/ DeleteDetach
    <3>1. pc \in Deleting /\ mem' = mem
      BY <1>3, <2>3, DeletionSteps
      DEF DeleteRevoke, DeleteDetach, Reconcile, BeginDeletion, ReadCaches, Idle
    <3>. QED
      BY <3>1 DEF DeletionInvariant
  <2>4. CASE ~Reconcile /\ pc' = pc
    BY <1>3, <2>1, <2>4, MemorySteps DEF DeletionInvariant, Reconcile
  <2>. QED
    BY <1>3, <2>2, <2>3, <2>4, DeletionSteps
<1>4. ASSUME pc' = "deleteFinalizer"
      PROVE  remoteAuth'[mem'.status.identity] = None
  <2>1. CASE DeleteDetach /\ mem' = mem /\ Detach(mem.status.identity)
    <3>1. mem.status.identity \in Identities
      <4>1. mem.status.identity # None /\ pc # Idle
        BY <2>1 DEF DeletionInvariant, DeleteDetach, Idle
      <4>. QED
        BY <4>1, InProgress DEF TypeOK, Statuses
    <3>. QED
      BY <2>1, <3>1 DEF Detach, TypeOK, RemoteTypeOK
  <2>2. CASE ~Reconcile /\ pc' = pc
    <3>1. mem'.status = mem.status
      BY <1>4, <2>2, MemorySteps DEF Idle, Reconcile
    <3>2. mem.status.identity \in Identities /\ remoteAuth[mem.status.identity] = None
      <4>1. pc # Idle /\ mem.status.identity # None
        BY <1>4, <2>2 DEF DeletionInvariant, Idle
      <4>. QED
        BY <1>4, <2>2, <4>1, InProgress DEF DeletionInvariant, TypeOK, Statuses
    <3>. QED
      BY <2>2, <3>1, <3>2, StaysDetached
  <2>. QED
    BY <1>4, <2>1, <2>2, DeletionSteps
<1>. QED
  BY <1>1, <1>2, <1>3, <1>4 DEF DeletionInvariant

LEMMA DeletionInvariantHolds == Spec => []DeletionInvariant
<1>1. Init => DeletionInvariant
  BY DEF Init, DeletionInvariant, CacheFollows, Idle
<1>2. TypeOK /\ DeletionInvariant /\ [Next]_vars => DeletionInvariant'
  <2>1. ASSUME DeletionInvariant, UNCHANGED vars PROVE DeletionInvariant'
    BY <2>1 DEF DeletionInvariant, CacheFollows, vars, crVars, remoteVars
  <2>. QED
    BY <2>1, DeletionInvariantStep
<1>. QED
  BY <1>1, <1>2, TypeCorrect, PTL DEF Spec

\* The resource disappears by losing its finalizer, or by a deletion that finds
\* none.
LEMMA Disappears ==
  ASSUME TypeOK, Next, api.exists, ~api'.exists, api.finalizer
  PROVE  \/ BeginDeletion /\ NothingToDelete(cache) /\ CR!Current /\ UNCHANGED remoteVars
         \/ DeleteFinalizer /\ mem.current
<1>1. ASSUME NEW before, NEW after PROVE ~PatchStatus(before, after)
  BY DEF PatchStatus, CR!Put, TypeOK, CRTypeOK, Resources, crVars
<1>2. ASSUME NEW status, NEW reason PROVE ~ReturnError(status, reason)
  BY <1>1 DEF ReturnError
<1>3. ~UNCHANGED crVars
  BY DEF crVars
<1>4. CASE EnsureFinalizer \/ BeginReconcile
  BY <1>2, <1>3, <1>4
  DEF EnsureFinalizer, BeginReconcile, CR!Put, TypeOK, CRTypeOK, Resources
<1>5. CASE BeginDeletion \/ DeleteFinalizer
  BY <1>3, <1>5 DEF BeginDeletion, DeleteFinalizer, RemoveFinalizer
<1>6. CASE AdoptLookup \/ AttachAuth \/ ReadAuth \/ UpdateAuth
  BY <1>1, <1>2, <1>3, <1>6
  DEF AdoptLookup, AttachAuth, ReadAuth, UpdateAuth, CallFails, AnswerLost
<1>7. CASE RecoverCredential \/ VerifyCredential \/ MintCredential \/ PublishSecret
  BY <1>2, <1>3, <1>7
  DEF RecoverCredential, VerifyCredential, MintCredential, PublishSecret, CallFails, AnswerLost
<1>8. CASE RevokePrevious \/ PersistReady \/ DeleteRevoke \/ DeleteDetach
  BY <1>1, <1>2, <1>3, <1>8
  DEF RevokePrevious, PersistReady, DeleteRevoke, DeleteDetach, CallFails, AnswerLost
<1>9. CASE EditSpec \/ DeleteResource
  BY <1>9 DEF EditSpec, DeleteResource, CR!Put, TypeOK, CRTypeOK, Resources
<1>10. CASE ~Reconcile /\ ~EditSpec /\ ~DeleteResource
  BY <1>3, <1>10
  DEF Next, Crash, DeliverResource, DeliverSecret, CR!Deliver, Outside, DeleteSecret,
      ClaimSecret, CollectSecret, DetachOutside, RevokeOutside, ConfigureOutside,
      LoseDependency, RestoreDependency
<1>. QED
  BY <1>4, <1>5, <1>6, <1>7, <1>8, <1>9, <1>10 DEF Reconcile

\* A resource of policy Delete does not disappear before its recorded identity
\* has lost Universal Auth, whatever was written to it while the deleting
\* reconciliation ran.
THEOREM DeletionSafe == Spec => DeletionDetachesRecorded
<1> DEFINE Detached ==
      /\ api.exists /\ ~api'.exists
      /\ api.finalizer /\ api.spec.deletion = "Delete" /\ api.status.identity # None
      => remoteAuth'[api.status.identity] = None
<1>1. TypeOK /\ DeletionInvariant /\ [Next]_vars => [Detached]_vars
  <2> SUFFICES ASSUME TypeOK, DeletionInvariant, Next,
                      api.exists, ~api'.exists, api.finalizer,
                      api.spec.deletion = "Delete", api.status.identity # None
               PROVE  remoteAuth'[api.status.identity] = None
    OBVIOUS
  <2>1. CASE BeginDeletion /\ NothingToDelete(cache) /\ CR!Current
    BY <2>1 DEF NothingToDelete, CR!Current, DeletionInvariant, CacheFollows
  <2>2. CASE DeleteFinalizer /\ mem.current
    <3>1. mem.status.identity = api.status.identity
          /\ remoteAuth[mem.status.identity] = None
      BY <2>2 DEF DeletionInvariant, DeleteFinalizer, Idle
    <3>. QED
      BY <2>2, <3>1 DEF DeleteFinalizer, remoteVars
  <2>. QED
    BY <2>1, <2>2, Disappears
<1>. QED
  BY <1>1, TypeCorrect, DeletionInvariantHolds, PTL DEF Spec, DeletionDetachesRecorded

-----------------------------------------------------------------------------
(* RecordedWasPublished *)

\* What a step does to one credential: it may leave "Unused", never return to
\* it, and once published (which takes a minted one) it stays published.
LEMMA CredentialSteps ==
  ASSUME TypeOK, Next, FreshUnpublished, MemoryNamesPublished, NEW c \in Credentials
  PROVE  /\ credential[c].published => credential'[c].published
         /\ credential[c].state # "Unused" => credential'[c].state # "Unused"
         /\ credential'[c].state = "Unused" => ~credential'[c].published
<1>1. CASE credential'[c] = credential[c]
  BY <1>1 DEF FreshUnpublished
<1>2. CASE \E state : state # "Unused" /\ credential'[c] = [credential[c] EXCEPT !.state = state]
  BY <1>2 DEF TypeOK, RemoteTypeOK, CredentialRecords
<1>3. CASE MintCredential
  BY <1>1, <1>3, MintChanges DEF FreshUnpublished, TypeOK, RemoteTypeOK
<1>4. CASE PublishSecret
  <2>1. pc = "publish"
    BY <1>4 DEF PublishSecret
  <2>2. \/ UNCHANGED credential
        \/ credential' = [credential EXCEPT ![mem.minted].published = TRUE]
    BY <1>4 DEF PublishSecret, CallFails, remoteVars
  <2>. QED
    BY <1>1, <2>1, <2>2
    DEF FreshUnpublished, MemoryNamesPublished, TypeOK, RemoteTypeOK, CredentialRecords
<1>5. ASSUME NEW i, Detach(i)
      PROVE  \/ credential'[c] = credential[c]
             \/ credential'[c] = [credential[c] EXCEPT !.state = "Removed"]
  BY <1>5 DEF Detach
<1>6. ASSUME NEW state, NEW d, NEW i, RevokeAs(state, d, i)
      PROVE  \/ credential'[c] = credential[c]
             \/ credential'[c] = [credential[c] EXCEPT !.state = state]
  BY <1>6 DEF RevokeAs, TypeOK, RemoteTypeOK
<1>7. CASE DeleteDetach \/ DetachOutside
  BY <1>1, <1>2, <1>5, <1>7
  DEF DeleteDetach, DetachAny, DeletionCallFails, DetachOutside, remoteVars
<1>8. CASE RevokePrevious \/ DeleteRevoke \/ RevokeOutside
  BY <1>1, <1>2, <1>6, <1>8
  DEF RevokePrevious, DeleteRevoke, RevokeOutside, CallFails, DeletionCallFails, remoteVars
<1>9. CASE \/ EnsureFinalizer \/ BeginReconcile \/ BeginDeletion
           \/ AdoptLookup \/ AttachAuth \/ ReadAuth \/ UpdateAuth
           \/ RecoverCredential \/ VerifyCredential \/ PersistReady \/ DeleteFinalizer
           \/ Crash \/ DeliverResource \/ DeliverSecret
  <2>1. UNCHANGED credential
    BY <1>9
    DEF EnsureFinalizer, BeginReconcile, BeginDeletion, AdoptLookup, AttachAuth, ReadAuth,
        UpdateAuth, RecoverCredential, VerifyCredential, PersistReady, DeleteFinalizer,
        Crash, DeliverResource, DeliverSecret, CallFails, remoteVars
  <2>. QED
    BY <1>1, <2>1
<1>10. CASE \/ EditSpec \/ DeleteResource \/ DeleteSecret \/ ClaimSecret \/ CollectSecret
            \/ ConfigureOutside \/ LoseDependency \/ RestoreDependency
  <2>1. UNCHANGED credential
    BY <1>10
    DEF EditSpec, DeleteResource, DeleteSecret, ClaimSecret, CollectSecret,
        ConfigureOutside, LoseDependency, RestoreDependency, remoteVars
  <2>. QED
    BY <1>1, <2>1
<1>. QED
  BY <1>3, <1>4, <1>7, <1>8, <1>9, <1>10 DEF Next, Reconcile, Outside

\* A status is written with the credential it had or one that was published.
LEMMA WritesNamePublished ==
  ASSUME TypeOK, Next, ResourceNamesPublished, MemoryNamesPublished
  PROVE  \/ UNCHANGED crVars
         \/ \E r \in Resources : CR!Put(r) /\ Published(r.status.credential)
         \/ CR!Deliver
<1> DEFINE Goal == \/ UNCHANGED crVars
                   \/ \E r \in Resources : CR!Put(r) /\ Published(r.status.credential)
<1>1. ASSUME NEW before \in Statuses, NEW after \in Statuses,
             PatchStatus(before, after), Published(after.credential)
      PROVE  Goal
  <2>1. CASE api.exists
    <3>1. MergePatch(api.status, before, after).credential
            \in {api.status.credential, after.credential}
      BY DEF MergePatch, TypeOK, CRTypeOK, Resources, Statuses
    <3>2. MergePatch(api.status, before, after) \in Statuses
      BY MergePatchType DEF TypeOK, CRTypeOK, Resources
    <3> DEFINE r == [api EXCEPT !.status = MergePatch(@, before, after)]
    <3>3. r \in Resources /\ r.status = MergePatch(api.status, before, after)
      BY <3>2 DEF TypeOK, CRTypeOK, Resources
    <3>4. CR!Put(r)
      BY <1>1, <2>1 DEF PatchStatus
    <3>5. Published(r.status.credential)
      BY <1>1, <3>1, <3>3 DEF ResourceNamesPublished
    <3>. QED
      BY <3>3, <3>4, <3>5
  <2>2. CASE ~api.exists
    BY <1>1, <2>2 DEF PatchStatus
  <2>. QED
    BY <2>1, <2>2
<1>2. ASSUME NEW status \in Statuses, NEW reason \in Reasons,
             ReturnError(status, reason), Published(status.credential)
      PROVE  Goal
  <2>1. /\ [status EXCEPT !.reason = reason] \in Statuses
        /\ [status EXCEPT !.reason = reason].credential = status.credential
    BY DEF Statuses
  <2>. QED
    BY <1>1, <1>2, <2>1 DEF ReturnError
<1>3. {"IdentityNotReady", "ConnectionNotReady", "ExternalReadFailed", "RemoteAuthMissing",
       "ExternalCreateFailed", "ExternalUpdateFailed", "ClientSecretNotReady"} \subseteq Reasons
  BY DEF Reasons
<1>4. pc # Idle => mem.status \in Statuses /\ mem.before \in Statuses
                   /\ Published(mem.status.credential)
  BY InProgress DEF TypeOK, Memories, MemoryNamesPublished
<1>5. cache.status \in Statuses /\ Published(cache.status.credential)
  BY DEF TypeOK, CRTypeOK, Resources, ResourceNamesPublished
<1>6. ASSUME NEW r, CR!Put(r), r \in Resources, r.status = api.status
      PROVE  Goal
  BY <1>6 DEF ResourceNamesPublished
<1>7. CASE EnsureFinalizer \/ DeleteResource \/ EditSpec
  <2>1. CASE EnsureFinalizer
    <3>1. /\ [api EXCEPT !.finalizer = TRUE] \in Resources
          /\ [api EXCEPT !.finalizer = TRUE].status = api.status
      BY DEF TypeOK, CRTypeOK, Resources
    <3>. QED
      BY <1>6, <2>1, <3>1 DEF EnsureFinalizer
  <2>2. CASE DeleteResource
    <3> DEFINE r == [api EXCEPT !.deleting = api.finalizer, !.exists = api.finalizer]
    <3>1. r \in Resources /\ r.status = api.status
      BY DEF TypeOK, CRTypeOK, Resources
    <3>. QED
      BY <1>6, <2>2, <3>1 DEF DeleteResource
  <2>3. CASE EditSpec
    <3>1. PICK s \in Specs : CR!Put([api EXCEPT !.spec = s])
      BY <2>3 DEF EditSpec
    <3>2. /\ [api EXCEPT !.spec = s] \in Resources
          /\ [api EXCEPT !.spec = s].status = api.status
      BY DEF TypeOK, CRTypeOK, Resources
    <3>. QED
      BY <1>6, <3>1, <3>2
  <2>. QED
    BY <1>7, <2>1, <2>2, <2>3
<1>8. CASE BeginDeletion \/ DeleteFinalizer
  <2>1. /\ WithoutFinalizer(api) \in Resources
        /\ WithoutFinalizer(api).status = api.status
    BY DEF WithoutFinalizer, TypeOK, CRTypeOK, Resources
  <2>. QED
    BY <1>6, <1>8, <2>1 DEF BeginDeletion, DeleteFinalizer, RemoveFinalizer
<1>9. CASE BeginReconcile
  BY <1>2, <1>3, <1>5, <1>9 DEF BeginReconcile
<1>10. CASE \/ AdoptLookup \/ AttachAuth \/ UpdateAuth \/ RecoverCredential
            \/ VerifyCredential \/ MintCredential \/ PublishSecret \/ RevokePrevious
  BY <1>2, <1>3, <1>4, <1>10
  DEF AdoptLookup, AttachAuth, UpdateAuth, RecoverCredential, VerifyCredential, MintCredential,
      PublishSecret, RevokePrevious, CallFails, AnswerLost, Idle
<1>11. CASE ReadAuth
  <2>1. ClearedStatus \in Statuses /\ Published(ClearedStatus.credential)
    BY DEF ClearedStatus, NoStatus, Statuses, Reasons, Published
  <2>. QED
    BY <1>1, <1>2, <1>3, <1>4, <1>11, <2>1 DEF ReadAuth, CallFails, Idle
<1>12. CASE PersistReady
  <2>1. /\ [mem.status EXCEPT !.reason = "Ready"] \in Statuses
        /\ [mem.status EXCEPT !.reason = "Ready"].credential = mem.status.credential
    BY <1>4, <1>12 DEF PersistReady, Statuses, Reasons, Idle
  <2>. QED
    BY <1>1, <1>4, <1>12, <2>1 DEF PersistReady, Snapshot, Idle
<1>13. CASE DeleteRevoke \/ DeleteDetach \/ Crash
  BY <1>13 DEF DeleteRevoke, DeleteDetach, Crash
<1>14. CASE ~Reconcile /\ ~Crash /\ ~EditSpec /\ ~DeleteResource
  BY <1>14
  DEF Next, DeliverResource, DeliverSecret, Outside, DeleteSecret, ClaimSecret, CollectSecret,
      DetachOutside, RevokeOutside, ConfigureOutside, LoseDependency, RestoreDependency
<1>. QED
  BY <1>7, <1>8, <1>9, <1>10, <1>11, <1>12, <1>13, <1>14 DEF Reconcile

\* Copies of the resource keep naming published credentials.
LEMMA ResourceNamesStep ==
  ASSUME TypeOK, Next, FreshUnpublished, ResourceNamesPublished, MemoryNamesPublished
  PROVE  ResourceNamesPublished'
<1>1. ASSUME NEW c \in Credentials \cup {None}, Published(c)
      PROVE  Published(c)'
  BY <1>1, CredentialSteps DEF Published
<1>2. /\ api \in Resources /\ cache \in Resources /\ undelivered \in Seq(Resources)
      /\ \A r \in Resources : r.status.credential \in Credentials \cup {None}
  BY DEF TypeOK, CRTypeOK, Resources, Statuses
<1>3. /\ DOMAIN undelivered = 1..Len(undelivered) /\ Len(undelivered) \in Nat
      /\ \A n \in DOMAIN undelivered : undelivered[n] \in Resources
  BY <1>2, LenProperties
<1>4. CASE UNCHANGED crVars
  BY <1>1, <1>2, <1>3, <1>4 DEF ResourceNamesPublished, crVars
<1>5. CASE \E r \in Resources : CR!Put(r) /\ Published(r.status.credential)
  <2>1. PICK r \in Resources : CR!Put(r) /\ Published(r.status.credential)
    BY <1>5
  <2>2. ASSUME NEW n \in DOMAIN undelivered'
        PROVE  \/ n \in DOMAIN undelivered /\ undelivered'[n] = undelivered[n]
               \/ undelivered'[n] = r
    <3>1. CASE undelivered' = undelivered
      BY <3>1
    <3>2. CASE undelivered' = Append(undelivered, r)
      <4>1. /\ undelivered' \in Seq(Resources)
            /\ Len(undelivered') = Len(undelivered) + 1
            /\ \A k \in 1..Len(undelivered) : undelivered'[k] = undelivered[k]
            /\ undelivered'[Len(undelivered) + 1] = r
        BY <1>2, <3>2, AppendProperties
      <4>2. n \in 1..(Len(undelivered) + 1)
        BY <4>1, LenProperties
      <4>. QED
        BY <1>3, <4>1, <4>2
    <3>. QED
      BY <2>1, <3>1, <3>2 DEF CR!Put
  <2>3. api' = r /\ cache' = cache
    BY <2>1 DEF CR!Put
  <2>. QED
    BY <1>1, <1>2, <1>3, <2>1, <2>2, <2>3 DEF ResourceNamesPublished
<1>6. CASE CR!Deliver
  <2>1. /\ api' = api /\ cache' = undelivered[1] /\ 1 \in DOMAIN undelivered
    BY <1>2, <1>3, <1>6, EmptySeq DEF CR!Deliver
  <2>2. ASSUME NEW n \in DOMAIN undelivered'
        PROVE  n + 1 \in DOMAIN undelivered /\ undelivered'[n] = undelivered[n + 1]
    <3>1. /\ undelivered' \in Seq(Resources)
          /\ Len(undelivered') = Len(undelivered) - 1
          /\ \A k \in 1..Len(undelivered') : undelivered'[k] = undelivered[k + 1]
      BY <1>2, <1>6, HeadTailProperties DEF CR!Deliver
    <3>2. n \in 1..Len(undelivered')
      BY <3>1, LenProperties
    <3>. QED
      BY <1>3, <3>1, <3>2
  <2>. QED
    BY <1>1, <1>2, <1>3, <2>1, <2>2 DEF ResourceNamesPublished
<1>. QED
  BY <1>4, <1>5, <1>6, WritesNamePublished

\* So do the copies of the Secret.
LEMMA SecretHoldsStep ==
  ASSUME TypeOK, Next, FreshUnpublished, SecretHoldsPublished, MemoryNamesPublished
  PROVE  SecretHoldsPublished'
<1>1. ASSUME NEW c \in Credentials \cup {None}, Published(c)
      PROVE  Published(c)'
  BY <1>1, CredentialSteps DEF Published
<1>2. /\ secret \in Secrets /\ secretCache \in Secrets /\ secretUndelivered \in Seq(Secrets)
      /\ \A s \in Secrets : s.credential \in Credentials \cup {None}
  BY DEF TypeOK, SecretTypeOK, Secrets
<1>3. /\ DOMAIN secretUndelivered = 1..Len(secretUndelivered) /\ Len(secretUndelivered) \in Nat
      /\ \A n \in DOMAIN secretUndelivered : secretUndelivered[n] \in Secrets
  BY <1>2, LenProperties
<1>4. ASSUME NEW s \in Secrets, Sec!Put(s), Published(s.credential)'
      PROVE  SecretHoldsPublished'
  <2>1. ASSUME NEW n \in DOMAIN secretUndelivered'
        PROVE  \/ n \in DOMAIN secretUndelivered /\ secretUndelivered'[n] = secretUndelivered[n]
               \/ secretUndelivered'[n] = s
    <3>1. CASE secretUndelivered' = secretUndelivered
      BY <3>1
    <3>2. CASE secretUndelivered' = Append(secretUndelivered, s)
      <4>1. /\ secretUndelivered' \in Seq(Secrets)
            /\ Len(secretUndelivered') = Len(secretUndelivered) + 1
            /\ \A k \in 1..Len(secretUndelivered) :
                 secretUndelivered'[k] = secretUndelivered[k]
            /\ secretUndelivered'[Len(secretUndelivered) + 1] = s
        BY <1>2, <3>2, AppendProperties
      <4>2. n \in 1..(Len(secretUndelivered) + 1)
        BY <4>1, LenProperties
      <4>. QED
        BY <1>3, <4>1, <4>2
    <3>. QED
      BY <1>4, <3>1, <3>2 DEF Sec!Put
  <2>2. secret' = s /\ secretCache' = secretCache
    BY <1>4 DEF Sec!Put
  <2>. QED
    BY <1>1, <1>2, <1>3, <1>4, <2>1, <2>2 DEF SecretHoldsPublished
<1>5. CASE UNCHANGED secretVars
  BY <1>1, <1>2, <1>3, <1>5 DEF SecretHoldsPublished, secretVars
<1>6. CASE PublishSecret
  <2>1. mem.minted \in Credentials
    BY <1>6, InProgress
    DEF PublishSecret, MemoryNamesPublished, TypeOK, Memories, Idle
  <2>2. CASE Sec!Put([exists |-> TRUE, owner |-> "Ours", credential |-> mem.minted])
    <3> DEFINE s == [exists |-> TRUE, owner |-> "Ours", credential |-> mem.minted]
    <3>1. s \in Secrets /\ s.credential = mem.minted
      BY <2>1 DEF Secrets
    <3>2. CASE credential' = [credential EXCEPT ![mem.minted].published = TRUE]
      <4>1. credential'[mem.minted].published
        BY <2>1, <3>2 DEF TypeOK, RemoteTypeOK, CredentialRecords
      <4>. QED
        BY <1>4, <2>2, <3>1, <4>1 DEF Published
    <3>3. CASE UNCHANGED secretVars
      BY <1>5, <3>3
    <3>. QED
      BY <1>6, <3>2, <3>3 DEF PublishSecret
  <2>3. CASE ~Sec!Put([exists |-> TRUE, owner |-> "Ours", credential |-> mem.minted])
    BY <1>5, <1>6, <2>3 DEF PublishSecret
  <2>. QED
    BY <2>2, <2>3
<1>7. CASE DeliverSecret
  <2>1. /\ secret' = secret /\ secretCache' = secretUndelivered[1]
        /\ 1 \in DOMAIN secretUndelivered
    BY <1>2, <1>3, <1>7, EmptySeq DEF DeliverSecret, Sec!Deliver
  <2>2. ASSUME NEW n \in DOMAIN secretUndelivered'
        PROVE  n + 1 \in DOMAIN secretUndelivered
               /\ secretUndelivered'[n] = secretUndelivered[n + 1]
    <3>1. /\ secretUndelivered' \in Seq(Secrets)
          /\ Len(secretUndelivered') = Len(secretUndelivered) - 1
          /\ \A k \in 1..Len(secretUndelivered') :
               secretUndelivered'[k] = secretUndelivered[k + 1]
      BY <1>2, <1>7, HeadTailProperties DEF DeliverSecret, Sec!Deliver
    <3>2. n \in 1..Len(secretUndelivered')
      BY <3>1, LenProperties
    <3>. QED
      BY <1>3, <3>1, <3>2
  <2>. QED
    BY <1>1, <1>2, <1>3, <2>1, <2>2 DEF SecretHoldsPublished
<1>8. CASE DeleteSecret \/ ClaimSecret \/ CollectSecret
  <2>1. /\ NoSecret \in Secrets /\ NoSecret.credential = None
        /\ [exists |-> TRUE, owner |-> "Other", credential |-> None] \in Secrets
    BY DEF NoSecret, Secrets
  <2>2. Published(None)'
    BY DEF Published
  <2>. QED
    BY <1>4, <1>8, <2>1, <2>2 DEF DeleteSecret, ClaimSecret, CollectSecret
<1>9. CASE \/ EnsureFinalizer \/ BeginReconcile \/ BeginDeletion
           \/ AdoptLookup \/ AttachAuth \/ ReadAuth \/ UpdateAuth
           \/ RecoverCredential \/ VerifyCredential \/ MintCredential
           \/ RevokePrevious \/ PersistReady
           \/ DeleteRevoke \/ DeleteDetach \/ DeleteFinalizer
  BY <1>5, <1>9
  DEF EnsureFinalizer, BeginReconcile, BeginDeletion, AdoptLookup, AttachAuth, ReadAuth,
      UpdateAuth, RecoverCredential, VerifyCredential, MintCredential, RevokePrevious,
      PersistReady, DeleteRevoke, DeleteDetach, DeleteFinalizer
<1>10. CASE \/ Crash \/ DeliverResource \/ EditSpec \/ DeleteResource
            \/ DetachOutside \/ RevokeOutside \/ ConfigureOutside
            \/ LoseDependency \/ RestoreDependency
  BY <1>5, <1>10
  DEF Crash, DeliverResource, EditSpec, DeleteResource, DetachOutside, RevokeOutside,
      ConfigureOutside, LoseDependency, RestoreDependency
<1>. QED
  BY <1>6, <1>7, <1>8, <1>9, <1>10 DEF Next, Reconcile, Outside

\* And so does the memory of the reconciliation.  After(c): the step leaves the
\* credential c published.
LEMMA MemoryNamesStep ==
  ASSUME TypeOK, Next, PublicationInvariant
  PROVE  MemoryNamesPublished'
<1> DEFINE After(c) == c # None => credential'[c].published
<1>1. ASSUME NEW c \in Credentials \cup {None}, Published(c)
      PROVE  After(c)
  BY <1>1, CredentialSteps DEF Published, PublicationInvariant
<1>2. SUFFICES /\ pc' # Idle => After(mem'.status.credential)
               /\ pc' \in {"recover", "revoke"} => After(mem'.minted)
               /\ pc' = "publish" => mem'.minted # None
                                     /\ credential'[mem'.minted].state # "Unused"
  BY DEF MemoryNamesPublished, Published
<1>3. SUFFICES ASSUME pc' # Idle
               PROVE  /\ After(mem'.status.credential)
                      /\ pc' \in {"recover", "revoke"} => After(mem'.minted)
                      /\ pc' = "publish" => mem'.minted # None
                                            /\ credential'[mem'.minted].state # "Unused"
  BY DEF Idle
<1> HIDE DEF After
<1>4. ~EndReconcile
  BY <1>3 DEF EndReconcile
<1>5. ASSUME NEW reason PROVE ~CallFails(reason) /\ ~AnswerLost(reason)
  BY <1>4 DEF CallFails, AnswerLost, ReturnError
<1>6. pc # Idle => /\ mem \in Memories /\ After(mem.status.credential)
                   /\ mem.status.credential \in Credentials \cup {None}
                   /\ mem.minted \in Credentials \cup {None}
  BY <1>1, InProgress
  DEF TypeOK, Memories, Statuses, MemoryNamesPublished, PublicationInvariant
<1>7. CASE EnsureFinalizer \/ BeginReconcile \/ BeginDeletion
  <2>1. mem' = Loaded /\ pc' \in {"read", "adopt", "attach", "deleteRevoke", "deleteDetach"}
    BY <1>4, <1>7
    DEF EnsureFinalizer, BeginReconcile, BeginDeletion, ReturnError, Continue, FirstStep
  <2>2. After(cache.status.credential)
    BY <1>1 DEF PublicationInvariant, ResourceNamesPublished, TypeOK, CRTypeOK, Resources, Statuses
  <2>. QED
    BY <2>1, <2>2 DEF Loaded
<1>8. CASE AdoptLookup \/ AttachAuth \/ ReadAuth \/ UpdateAuth
  <2>1. pc # Idle
    BY <1>8 DEF AdoptLookup, AttachAuth, ReadAuth, UpdateAuth, Idle
  <2>2. /\ Observed(mem) \in Memories
        /\ Observed(mem).status.credential = mem.status.credential
    <3>1. Observed(mem) \in Memories
      BY <1>6, <2>1, MemoryType
    <3>. QED
      BY <1>6, <2>1, <3>1 DEF Observed, Memories, Statuses
  <2>3. CASE \E step \in {"read", "attach", "update"} :
               Continue(step, mem) \/ Continue(step, Observed(mem))
    BY <1>6, <2>1, <2>2, <2>3 DEF Continue
  <2>4. CASE EnsureClientSecret(Observed(mem))
    <3>1. /\ mem'.status = Observed(mem).status
          /\ \/ pc' \in {"mint", "verify"}
             \/ pc' = "recover" /\ mem'.minted = secretCache.credential
      BY <2>2, <2>4 DEF EnsureClientSecret, Continue, Memories
    <3>2. After(secretCache.credential)
      BY <1>1 DEF PublicationInvariant, SecretHoldsPublished, TypeOK, SecretTypeOK, Secrets
    <3>. QED
      BY <1>6, <2>1, <2>2, <3>1, <3>2
  <2>. QED
    BY <1>4, <1>5, <1>8, <2>3, <2>4
    DEF AdoptLookup, AttachAuth, ReadAuth, UpdateAuth, ReturnError
<1>9. ASSUME pc # Idle
      PROVE  LET m == Recorded(mem, mem.minted)
             IN  m.status.credential = mem.minted
  BY <1>6, <1>9 DEF Recorded, Memories, Statuses
<1>10. CASE RecoverCredential
  <2>1. pc = "recover" /\ pc # Idle /\ After(mem.minted)
    BY <1>1, <1>6, <1>10
    DEF RecoverCredential, Idle, PublicationInvariant, MemoryNamesPublished
  <2>2. [mem EXCEPT !.minted = None].status = mem.status
    BY <1>6, <2>1 DEF Memories
  <2>. QED
    BY <1>6, <1>9, <1>10, <2>1, <2>2 DEF RecoverCredential, Continue
<1>11. CASE VerifyCredential \/ DeleteRevoke \/ DeleteDetach
  BY <1>4, <1>5, <1>6, <1>11
  DEF VerifyCredential, DeleteRevoke, DeleteDetach, DeletionCallFails, Continue, Idle
<1>12. CASE MintCredential
  <2>1. pc # Idle /\ mem \in Memories
    BY <1>6, <1>12 DEF MintCredential, Idle
  <2>2. PICK c \in Credentials : AfterMint([mem EXCEPT !.minted = c])
    BY <1>4, <1>5, <1>12 DEF MintCredential, ReturnError
  <2>3. pc' = "publish" /\ mem'.status = mem.status
    BY <2>1, <2>2 DEF AfterMint, Continue, Memories
  <2>4. mem'.minted # None /\ credential'[mem'.minted].state # "Unused"
    BY <1>12, <2>3, EnterPublishOrRevoke, ConstantsAssumption DEF Reconcile
  <2>. QED
    BY <1>6, <2>1, <2>3, <2>4
<1>13. CASE PublishSecret
  <2>1. pc = "publish" /\ pc # Idle /\ mem.minted \in Credentials
    BY <1>6, <1>13 DEF PublishSecret, Idle, PublicationInvariant, MemoryNamesPublished
  <2>2. /\ AfterPublish(mem)
        /\ credential' = [credential EXCEPT ![mem.minted].published = TRUE]
    BY <1>4, <1>5, <1>13 DEF PublishSecret, ReturnError
  <2>3. After(mem.minted)
    BY <2>1, <2>2 DEF After, TypeOK, RemoteTypeOK, CredentialRecords
  <2>4. \/ pc' = "revoke" /\ mem' = mem
        \/ pc' = "persist" /\ mem' = Recorded(mem, mem.minted)
    BY <2>2 DEF AfterPublish, Continue
  <2>. QED
    BY <1>6, <1>9, <2>1, <2>3, <2>4
<1>14. CASE RevokePrevious
  <2>1. pc = "revoke" /\ pc # Idle /\ After(mem.minted)
    BY <1>1, <1>6, <1>14
    DEF RevokePrevious, Idle, PublicationInvariant, MemoryNamesPublished
  <2>2. pc' = "persist" /\ mem' = Recorded(mem, mem.minted)
    BY <1>5, <1>14 DEF RevokePrevious, Continue
  <2>. QED
    BY <1>9, <2>1, <2>2
<1>15. CASE PersistReady \/ DeleteFinalizer \/ Crash
  BY <1>4, <1>15 DEF PersistReady, DeleteFinalizer, Crash
<1>16. CASE ~Reconcile /\ ~Crash
  <2>1. /\ pc' = pc /\ pc # Idle
        /\ mem' = mem \/ mem' = [mem EXCEPT !.current = FALSE]
    BY <1>3, <1>16
    DEF Next, DeliverResource, DeliverSecret, Outside, EditSpec, DeleteResource,
        DeleteSecret, ClaimSecret, CollectSecret, DetachOutside, RevokeOutside,
        ConfigureOutside, LoseDependency, RestoreDependency, Disturb, OutdateCopy
  <2>2. mem'.status = mem.status /\ mem'.minted = mem.minted
    BY <1>6, <2>1 DEF Memories
  <2>3. pc = "publish" => mem.minted \in Credentials
                          /\ credential'[mem.minted].state # "Unused"
    BY <1>6, <2>1, CredentialSteps DEF PublicationInvariant, MemoryNamesPublished
  <2>4. pc \in {"recover", "revoke"} => After(mem.minted)
    BY <1>1, <1>6, <2>1 DEF PublicationInvariant, MemoryNamesPublished
  <2>. QED
    BY <1>6, <2>1, <2>2, <2>3, <2>4, ConstantsAssumption
<1>. QED
  BY <1>7, <1>8, <1>10, <1>11, <1>12, <1>13, <1>14, <1>15, <1>16 DEF Next, Reconcile

\* The strengthening of RecordedWasPublished is inductive.
LEMMA PublicationInvariantHolds == Spec => []PublicationInvariant
<1>1. Init => PublicationInvariant
  <2> SUFFICES ASSUME Init PROVE PublicationInvariant
    OBVIOUS
  <2>1. api.status.credential = None /\ NoSecret.credential = None
    <3>1. PICK s \in Specs :
            api = [exists |-> TRUE, deleting |-> FALSE, finalizer |-> FALSE,
                   spec |-> s, status |-> NoStatus]
      BY DEF Init
    <3>. QED
      BY <3>1 DEF NoStatus, NoSecret
  <2>. QED
    BY <2>1
    DEF Init, PublicationInvariant, FreshUnpublished, ResourceNamesPublished,
        SecretHoldsPublished, MemoryNamesPublished, Published, Unminted, Idle
<1>2. TypeOK /\ PublicationInvariant /\ [Next]_vars => PublicationInvariant'
  <2>1. ASSUME PublicationInvariant, UNCHANGED vars PROVE PublicationInvariant'
    BY <2>1
    DEF PublicationInvariant, FreshUnpublished, ResourceNamesPublished, SecretHoldsPublished,
        MemoryNamesPublished, Published, vars, crVars, secretVars, remoteVars
  <2>2. ASSUME TypeOK, PublicationInvariant, Next PROVE PublicationInvariant'
    <3>1. FreshUnpublished'
      BY <2>2, CredentialSteps DEF PublicationInvariant, FreshUnpublished
    <3>. QED
      BY <2>2, <3>1, ResourceNamesStep, SecretHoldsStep, MemoryNamesStep
      DEF PublicationInvariant
  <2>. QED
    BY <2>1, <2>2
<1>. QED
  BY <1>1, <1>2, TypeCorrect, PTL DEF Spec

\* The status only ever names a credential whose plaintext reached the Secret.
THEOREM RecordedSafe == Spec => []RecordedWasPublished
<1>1. PublicationInvariant => RecordedWasPublished
  BY DEF PublicationInvariant, ResourceNamesPublished, Published, RecordedWasPublished
<1>. QED
  BY <1>1, PublicationInvariantHolds, PTL

-----------------------------------------------------------------------------
(* UniversalAuth implements CredentialRotation *)

\* The refinement mapping of the two sets.
Known   == {c \in Credentials : credential[c].published}
Retired == {c \in Credentials : credential[c].state = "RotatedOut"}

\* An error handler writes the condition only: the status keeps naming the
\* credential that it named.
LEMMA ErrorKeepsRecorded ==
  ASSUME CRTypeOK, NEW status \in Statuses, NEW reason \in Reasons,
         ReturnError(status, reason)
  PROVE  api'.status.credential = api.status.credential
<1> DEFINE after == [status EXCEPT !.reason = reason]
<1>1. after \in Statuses /\ after.credential = status.credential
  BY DEF Statuses
<1>2. CASE api.exists
  <2> DEFINE p == MergePatch(api.status, status, after)
  <2>1. p.credential = api.status.credential
    BY <1>1 DEF MergePatch, CRTypeOK, Resources, Statuses
  <2>2. api'.status = p
    BY <1>2 DEF ReturnError, PatchStatus, CR!Put, CRTypeOK, Resources
  <2>. QED
    BY <2>1, <2>2
<1>3. CASE ~api.exists
  BY <1>3 DEF ReturnError, PatchStatus, crVars
<1>. QED
  BY <1>2, <1>3

\* Only the publication makes a credential known, only the rotation retires one.
LEMMA OthersKeepCredentials ==
  ASSUME TypeOK, Next, FreshUnpublished, ~PublishSecret, ~RevokePrevious
  PROVE  Known' = Known /\ Retired' = Retired
<1> DEFINE Kept(c) == /\ credential'[c].published = credential[c].published
                      /\ credential'[c].state = "RotatedOut" <=> credential[c].state = "RotatedOut"
<1> SUFFICES \A c \in Credentials : Kept(c)
  BY DEF Known, Retired
<1> TAKE c \in Credentials
<1>1. CASE credential'[c] = credential[c]
  BY <1>1
<1>2. CASE /\ credential[c].state = "Live"
           /\ credential'[c] = [credential[c] EXCEPT !.state = "Removed"]
  BY <1>2 DEF TypeOK, RemoteTypeOK, CredentialRecords
<1>3. ASSUME NEW i, Detach(i) PROVE Kept(c)
  BY <1>1, <1>2, <1>3 DEF Detach, Live
<1>4. ASSUME NEW d, NEW i, RevokeAs("Removed", d, i) PROVE Kept(c)
  BY <1>1, <1>2, <1>4 DEF RevokeAs, Live, TypeOK, RemoteTypeOK
<1>5. CASE MintCredential
  BY <1>1, <1>5, MintChanges
  DEF FreshUnpublished, TypeOK, RemoteTypeOK, CredentialRecords
<1>6. CASE DeleteDetach \/ DetachOutside
  BY <1>1, <1>3, <1>6
  DEF DeleteDetach, DetachAny, DeletionCallFails, DetachOutside, remoteVars
<1>7. CASE DeleteRevoke \/ RevokeOutside
  BY <1>1, <1>4, <1>7 DEF DeleteRevoke, RevokeOutside, DeletionCallFails, remoteVars
<1>8. CASE \/ EnsureFinalizer \/ BeginReconcile \/ BeginDeletion
           \/ AdoptLookup \/ AttachAuth \/ ReadAuth \/ UpdateAuth
           \/ RecoverCredential \/ VerifyCredential \/ PersistReady \/ DeleteFinalizer
           \/ Crash \/ DeliverResource \/ DeliverSecret
  <2>1. UNCHANGED credential
    BY <1>8
    DEF EnsureFinalizer, BeginReconcile, BeginDeletion, AdoptLookup, AttachAuth, ReadAuth,
        UpdateAuth, RecoverCredential, VerifyCredential, PersistReady, DeleteFinalizer,
        Crash, DeliverResource, DeliverSecret, CallFails, remoteVars
  <2>. QED
    BY <1>1, <2>1
<1>9. CASE \/ EditSpec \/ DeleteResource \/ DeleteSecret \/ ClaimSecret \/ CollectSecret
           \/ ConfigureOutside \/ LoseDependency \/ RestoreDependency
  <2>1. UNCHANGED credential
    BY <1>9
    DEF EditSpec, DeleteResource, DeleteSecret, ClaimSecret, CollectSecret,
        ConfigureOutside, LoseDependency, RestoreDependency, remoteVars
  <2>. QED
    BY <1>1, <2>1
<1>. QED
  BY <1>5, <1>6, <1>7, <1>8, <1>9 DEF Next, Reconcile, Outside

\* Publication: the new credential has not been rotated out.
LEMMA PublishRefines ==
  ASSUME TypeOK, RotationInvariant, PublicationInvariant, PublishSecret
  PROVE  [Rotation!Next]_Rotation!rotationVars
<1>1. /\ pc = "publish" /\ mem \in Memories /\ mem.status \in Statuses
      /\ mem.minted \in Credentials
      /\ mem.minted \notin Retired
  BY InProgress
  DEF PublishSecret, Idle, TypeOK, Memories, RotationInvariant, PublicationInvariant,
      MemoryNamesPublished, Retired
<1>2. api'.status.credential = api.status.credential
  <2>1. "ClientSecretNotReady" \in Reasons
    BY DEF Reasons
  <2>. QED
    BY <1>1, <2>1, ErrorKeepsRecorded
    DEF PublishSecret, CallFails, AnswerLost, AfterPublish, crVars, TypeOK
<1>3. CASE UNCHANGED secretVars /\ UNCHANGED credential
  BY <1>2, <1>3 DEF secretVars, Rotation!rotationVars
<1>4. CASE /\ Sec!Put([exists |-> TRUE, owner |-> "Ours", credential |-> mem.minted])
           /\ credential' = [credential EXCEPT ![mem.minted].published = TRUE]
  <2>1. secret'.credential = mem.minted
    BY <1>4 DEF Sec!Put
  <2>2. \A c \in Credentials :
          /\ credential'[c].published <=> credential[c].published \/ c = mem.minted
          /\ credential'[c].state = credential[c].state
    BY <1>1, <1>4 DEF TypeOK, RemoteTypeOK, CredentialRecords
  <2>3. Known' = Known \cup {mem.minted} /\ Retired' = Retired
    BY <1>1, <2>2 DEF Known, Retired
  <2>4. Rotation!Publish(mem.minted)
    BY <1>1, <1>2, <2>1, <2>3 DEF Rotation!Publish, Known, Retired
  <2>. QED
    BY <1>1, <2>4 DEF Rotation!Next, Rotation!Publish
<1>. QED
  BY <1>3, <1>4 DEF PublishSecret, CallFails, remoteVars

\* Rotation: the revoked credential was published, and no longer is.
LEMMA RevokeRefines ==
  ASSUME TypeOK, RotationInvariant, PublicationInvariant, RevokePrevious
  PROVE  [Rotation!Next]_Rotation!rotationVars
<1> DEFINE c == mem.status.credential
<1>1. /\ pc = "revoke" /\ mem \in Memories /\ mem.status \in Statuses
      /\ c \in Credentials /\ c # secret.credential /\ c \in Known
  BY InProgress
  DEF RevokePrevious, Idle, TypeOK, Memories, Statuses, RotationInvariant,
      PublicationInvariant, MemoryNamesPublished, Published, Known
<1>2. api'.status.credential = api.status.credential
  <2>1. "ClientSecretNotReady" \in Reasons
    BY DEF Reasons
  <2>. QED
    BY <1>1, <2>1, ErrorKeepsRecorded DEF RevokePrevious, CallFails, AnswerLost, crVars, TypeOK
<1>3. UNCHANGED secret
  BY DEF RevokePrevious, secretVars
<1>4. CASE UNCHANGED credential
  BY <1>2, <1>3, <1>4 DEF Rotation!rotationVars
<1>5. CASE credential' = [credential EXCEPT ![c].state = "RotatedOut"]
  <2>1. \A d \in Credentials :
          /\ credential'[d].published = credential[d].published
          /\ credential'[d].state = "RotatedOut" <=> credential[d].state = "RotatedOut" \/ d = c
    BY <1>1, <1>5 DEF TypeOK, RemoteTypeOK, CredentialRecords
  <2>2. Known' = Known /\ Retired' = Retired \cup {c}
    BY <1>1, <2>1 DEF Known, Retired
  <2>3. Rotation!Retire(c)
    BY <1>1, <1>2, <1>3, <2>2 DEF Rotation!Retire, Known, Retired
  <2>. QED
    BY <1>1, <2>3 DEF Rotation!Next, Rotation!Retire
<1>. QED
  BY <1>4, <1>5 DEF RevokePrevious, RevokeAs, Previous, CallFails, remoteVars

\* Every other step withdraws the Secret, rewrites the status, or stutters.
LEMMA OthersRefine ==
  ASSUME TypeOK, PublicationInvariant, Next, ~PublishSecret, ~RevokePrevious
  PROVE  [Rotation!Next]_Rotation!rotationVars
<1>1. Known' = Known /\ Retired' = Retired
  BY OthersKeepCredentials DEF PublicationInvariant
<1>2. CASE DeleteSecret \/ ClaimSecret \/ CollectSecret
  <2>1. secret'.credential = None /\ UNCHANGED api
    BY <1>2 DEF DeleteSecret, ClaimSecret, CollectSecret, Sec!Put, NoSecret, crVars
  <2>2. Rotation!Withdraw
    BY <1>1, <2>1 DEF Rotation!Withdraw, Known, Retired
  <2>. QED
    BY <2>2 DEF Rotation!Next
<1>3. CASE ~(DeleteSecret \/ ClaimSecret \/ CollectSecret)
  <2>1. UNCHANGED secret
    BY <1>3
    DEF Next, Reconcile, Outside, EnsureFinalizer, BeginReconcile, BeginDeletion, AdoptLookup,
        AttachAuth, ReadAuth, UpdateAuth, RecoverCredential, VerifyCredential, MintCredential,
        PersistReady, DeleteRevoke, DeleteDetach, DeleteFinalizer, Crash, DeliverResource,
        DeliverSecret, Sec!Deliver, EditSpec, DeleteResource, DetachOutside, RevokeOutside,
        ConfigureOutside, LoseDependency, RestoreDependency, secretVars
  <2>2. \/ UNCHANGED api
        \/ \E r \in Resources : api' = r /\ Published(r.status.credential)
    BY WritesNamePublished DEF PublicationInvariant, crVars, CR!Put, CR!Deliver
  <2>3. CASE UNCHANGED api
    BY <1>1, <2>1, <2>3 DEF Rotation!rotationVars, Known, Retired
  <2>4. CASE \E r \in Resources : api' = r /\ Published(r.status.credential)
    <3> DEFINE c == api'.status.credential
    <3>1. c \in Credentials \cup {None} /\ c \in Known \cup {None}
      BY <2>4 DEF Resources, Statuses, Published, Known
    <3>2. Rotation!Record(c)
      BY <1>1, <2>1, <3>1 DEF Rotation!Record, Known, Retired
    <3>. QED
      BY <3>1, <3>2 DEF Rotation!Next
  <2>. QED
    BY <2>2, <2>3, <2>4
<1>. QED
  BY <1>2, <1>3

\* The controller implements the specification of its output: whatever is stale,
\* crashes, fails or changes outside, each of its steps is a step of
\* CredentialRotation or is invisible there.
THEOREM RotationImplemented == Spec => ImplementsRotation
<1>1. Init => Rotation!Init
  <2> SUFFICES ASSUME Init PROVE Rotation!Init
    OBVIOUS
  <2>1. PICK s \in Specs :
          api = [exists |-> TRUE, deleting |-> FALSE, finalizer |-> FALSE,
                 spec |-> s, status |-> NoStatus]
    BY DEF Init
  <2>2. api.status.credential = None /\ secret.credential = None
    BY <2>1 DEF Init, NoStatus, NoSecret
  <2>3. Known = {} /\ Retired = {}
    BY DEF Init, Known, Retired, Unminted
  <2>. QED
    BY <2>2, <2>3 DEF Rotation!Init, Known, Retired
<1>2. TypeOK /\ RotationInvariant /\ PublicationInvariant /\ [Next]_vars
        => [Rotation!Next]_Rotation!rotationVars
  <2>1. CASE UNCHANGED vars
    BY <2>1 DEF vars, crVars, secretVars, remoteVars, Rotation!rotationVars
  <2>2. CASE Next
    BY <2>2, PublishRefines, RevokeRefines, OthersRefine
  <2>. QED
    BY <2>1, <2>2
<1>. QED
  BY <1>1, <1>2, TypeCorrect, RotationInvariantHolds, PublicationInvariantHolds, PTL
  DEF Spec, ImplementsRotation, Rotation!Spec

\* In every reachable state of the abstract specification the published
\* credential is not a retired one, and what was recorded or retired had been
\* published.
THEOREM AlwaysConsistent == Rotation!Spec => []Rotation!Consistent
<1>1. Rotation!Init => Rotation!Consistent
  BY ConstantsAssumption DEF Rotation!Init, Rotation!Consistent
<1>2. Rotation!Consistent /\ [Rotation!Next]_Rotation!rotationVars => Rotation!Consistent'
  <2> SUFFICES ASSUME Rotation!Consistent, [Rotation!Next]_Rotation!rotationVars
               PROVE  Rotation!Consistent'
    OBVIOUS
  <2>1. CASE Rotation!Withdraw
    BY <2>1, ConstantsAssumption DEF Rotation!Withdraw, Rotation!Consistent
  <2>2. ASSUME NEW c \in Credentials, Rotation!Publish(c) PROVE Rotation!Consistent'
    BY <2>2 DEF Rotation!Publish, Rotation!Consistent
  <2>3. ASSUME NEW c \in Credentials, Rotation!Retire(c) PROVE Rotation!Consistent'
    BY <2>3 DEF Rotation!Retire, Rotation!Consistent
  <2>4. ASSUME NEW c \in Credentials \cup {None}, Rotation!Record(c) PROVE Rotation!Consistent'
    BY <2>4 DEF Rotation!Record, Rotation!Consistent
  <2>5. CASE UNCHANGED Rotation!rotationVars
    BY <2>5 DEF Rotation!rotationVars, Rotation!Consistent
  <2>. QED
    BY <2>1, <2>2, <2>3, <2>4, <2>5 DEF Rotation!Next
<1>. QED
  BY <1>1, <1>2, PTL DEF Rotation!Spec

\* What a consumer of the output Secret relies on: the controller inherits the
\* promise of the specification that it implements.
THEOREM ConsumerSafe == Spec => []Rotation!Consistent
BY RotationImplemented, AlwaysConsistent, PTL DEF ImplementsRotation

-----------------------------------------------------------------------------
(* What holds of credentials and of a resource that is gone, in every run *)

Late     == {"recover", "verify", "mint", "publish", "revoke", "persist"}
Removing == {"deleteRevoke", "deleteDetach", "deleteFinalizer"}

\* A live credential is one of an identity that has Universal Auth, and so is
\* each one to be minted or revoked.
AttachedInvariant ==
  /\ \A c \in Credentials : credential[c].state = "Live" =>
       credential[c].identity \in Identities /\ Attached(credential[c].identity)
  /\ pc \in Late => mem.status.identity \in Identities

\* A reconciliation comes to the credential with the identity it has looked at.
LEMMA LateSteps ==
  ASSUME TypeOK, [Next]_vars, pc' \in Late
  PROVE  \/ pc \in {"read", "update"} /\ mem'.status.identity = mem.spec.identity
         \/ pc \in Late /\ mem'.status.identity = mem.status.identity
<1> DEFINE Goal == \/ pc \in {"read", "update"} /\ mem'.status.identity = mem.spec.identity
                   \/ pc \in Late /\ mem'.status.identity = mem.status.identity
<1>1. ~EndReconcile /\ pc' # Idle
  BY DEF EndReconcile, Late, Idle
<1>2. ASSUME NEW status, NEW reason PROVE ~ReturnError(status, reason)
  BY <1>1 DEF ReturnError
<1>3. ASSUME NEW reason PROVE ~CallFails(reason) /\ ~AnswerLost(reason)
  BY <1>2 DEF CallFails, AnswerLost
<1>4. pc # Idle => mem \in Memories /\ mem.status \in Statuses
  BY InProgress DEF TypeOK
<1>5. ASSUME NEW m \in Memories, EnsureClientSecret(m)
      PROVE  mem'.status = m.status
  BY <1>5 DEF EnsureClientSecret, Continue, Memories
<1>6. CASE ReadAuth \/ UpdateAuth
  <2>1. /\ mem \in Memories /\ Observed(mem) \in Memories
        /\ Observed(mem).status.identity = mem.spec.identity
    BY <1>4, <1>6, MemoryType DEF ReadAuth, UpdateAuth, Idle, Observed, Memories, Statuses
  <2>2. EnsureClientSecret(Observed(mem)) /\ pc \in {"read", "update"}
    BY <1>1, <1>2, <1>3, <1>6 DEF ReadAuth, UpdateAuth, Continue, Late
  <2>. QED
    BY <1>5, <2>1, <2>2
<1>7. CASE RecoverCredential \/ VerifyCredential \/ MintCredential \/ PublishSecret \/ RevokePrevious
  <2>1. pc \in Late /\ mem \in Memories /\ mem.status \in Statuses
    BY <1>4, <1>7
    DEF RecoverCredential, VerifyCredential, MintCredential, PublishSecret, RevokePrevious,
        Late, Idle
  <2>2. ASSUME NEW c, NEW m, m \in {mem, Recorded(mem, c), [mem EXCEPT !.minted = c]}
        PROVE  m.status.identity = mem.status.identity
    BY <2>1, <2>2 DEF Recorded, Memories, Statuses
  <2>3. \E c : \E m \in {mem, Recorded(mem, c), [mem EXCEPT !.minted = c]} : mem' = m
    <3>1. CASE RecoverCredential \/ VerifyCredential
      BY <1>3, <3>1 DEF RecoverCredential, VerifyCredential, Continue
    <3>2. CASE MintCredential
      BY <1>2, <1>3, <3>2 DEF MintCredential, AfterMint, Continue
    <3>3. CASE PublishSecret \/ RevokePrevious
      BY <1>2, <1>3, <3>3 DEF PublishSecret, AfterPublish, RevokePrevious, Continue
    <3>. QED
      BY <1>7, <3>1, <3>2, <3>3
  <2>. QED
    BY <2>1, <2>2, <2>3
<1>8. ~EnsureFinalizer /\ ~BeginReconcile /\ ~BeginDeletion
  BY <1>1, <1>2
  DEF EnsureFinalizer, BeginReconcile, BeginDeletion, FirstStep, Continue, Late
<1>9. ~AdoptLookup /\ ~AttachAuth
  BY <1>2, <1>3 DEF AdoptLookup, AttachAuth, Continue, Late
<1>10. ~PersistReady /\ ~DeleteRevoke /\ ~DeleteDetach /\ ~DeleteFinalizer
  BY <1>1
  DEF PersistReady, DeleteRevoke, DeleteDetach, DeleteFinalizer, DeletionCallFails, Continue, Late
<1>11. CASE ~Reconcile
  <2>1. CASE UNCHANGED vars
    BY <2>1 DEF vars
  <2>2. CASE Next
    BY <1>1, <1>11, <2>2, MemorySteps DEF Reconcile
  <2>. QED
    BY <2>1, <2>2
<1>. QED
  BY <1>6, <1>7, <1>8, <1>9, <1>10, <1>11 DEF Reconcile

\* Minting aside, no credential comes to life, and an identity loses Universal
\* Auth together with its live credentials.
LEMMA LiveSteps ==
  ASSUME TypeOK, [Next]_vars, NEW c \in Credentials, credential'[c].state = "Live"
  PROVE  \/ /\ MintCredential /\ credential'[c].identity = mem.status.identity
            /\ Attached(mem.status.identity) /\ UNCHANGED remoteAuth
         \/ /\ credential[c].state = "Live" /\ credential'[c].identity = credential[c].identity
            /\ \A i \in Identities : i = credential[c].identity /\ Attached(i) => remoteAuth'[i] # None
<1> DEFINE Same == credential[c].state = "Live" /\ credential'[c].identity = credential[c].identity
           Stays == \A i \in Identities : i = credential[c].identity /\ Attached(i) => remoteAuth'[i] # None
<1> SUFFICES ASSUME ~(/\ MintCredential /\ credential'[c].identity = mem.status.identity
                      /\ Attached(mem.status.identity) /\ UNCHANGED remoteAuth)
             PROVE  Same /\ Stays
  OBVIOUS
<1>1. credential[c] \in CredentialRecords /\ remoteAuth \in [Identities -> Configs \cup {None}]
  BY DEF TypeOK, RemoteTypeOK
<1>2. UNCHANGED credential => Same
  OBVIOUS
<1>3. UNCHANGED remoteAuth => Stays
  BY DEF Attached
<1>4. ASSUME NEW i, Detach(i) PROVE Same /\ Stays
  <2>1. credential'[c] = credential[c] /\ ~Live(c, i)
    BY <1>1, <1>4 DEF Detach, CredentialRecords
  <2>. QED
    BY <1>1, <1>4, <2>1 DEF Detach, Live, Attached
<1>5. ASSUME NEW state \in {"RotatedOut", "Removed"}, NEW d, NEW i, RevokeAs(state, d, i) PROVE Same
  <2>1. credential'[c] = credential[c]
    BY <1>1, <1>5 DEF RevokeAs, CredentialRecords, TypeOK, RemoteTypeOK
  <2>. QED
    BY <2>1
<1>6. ASSUME NEW g \in Configs, NEW i, remoteAuth' = [remoteAuth EXCEPT ![i] = g] PROVE Stays
  BY <1>1, <1>6, ConstantsAssumption DEF Attached
<1>7. CASE MintCredential
  <2>1. CASE UNCHANGED remoteVars
    BY <1>2, <1>3, <2>1 DEF remoteVars
  <2>2. ASSUME NEW d \in Credentials, UNCHANGED remoteAuth, Attached(mem.status.identity),
               credential' = [credential EXCEPT ![d] =
                 [state |-> "Live", identity |-> mem.status.identity,
                  nonce |-> mem.spec.nonce, published |-> FALSE]]
        PROVE  Same /\ Stays
    <3>1. c # d
      BY <1>7, <2>2 DEF TypeOK, RemoteTypeOK
    <3>. QED
      BY <1>3, <2>2, <3>1 DEF TypeOK, RemoteTypeOK
  <2>. QED
    BY <1>7, <2>1, <2>2 DEF MintCredential, CallFails
<1>8. CASE PublishSecret
  <2>1. Same
    BY <1>1, <1>2, <1>8
    DEF PublishSecret, CallFails, remoteVars, TypeOK, RemoteTypeOK, CredentialRecords
  <2>. QED
    BY <1>3, <1>8, <2>1 DEF PublishSecret
<1>9. CASE AttachAuth \/ UpdateAuth
  <2>1. mem.spec.config \in Configs
    BY <1>9, InProgress DEF AttachAuth, UpdateAuth, Idle, TypeOK, Memories, Specs
  <2>. QED
    BY <1>2, <1>3, <1>6, <1>9, <2>1 DEF AttachAuth, UpdateAuth, CallFails, remoteVars
<1>10. CASE DeleteDetach \/ DetachOutside
  BY <1>2, <1>3, <1>4, <1>10
  DEF DeleteDetach, DetachAny, DeletionCallFails, DetachOutside, remoteVars
<1>11. CASE RevokePrevious \/ DeleteRevoke \/ RevokeOutside
  BY <1>2, <1>3, <1>5, <1>11
  DEF RevokePrevious, DeleteRevoke, RevokeOutside, CallFails, DeletionCallFails, remoteVars
<1>12. CASE ConfigureOutside
  BY <1>2, <1>6, <1>12 DEF ConfigureOutside
<1>13. CASE \/ EnsureFinalizer \/ BeginReconcile \/ BeginDeletion \/ AdoptLookup \/ ReadAuth
            \/ RecoverCredential \/ VerifyCredential \/ PersistReady \/ DeleteFinalizer
            \/ Crash \/ DeliverResource \/ DeliverSecret
  BY <1>2, <1>3, <1>13
  DEF EnsureFinalizer, BeginReconcile, BeginDeletion, AdoptLookup, ReadAuth,
      RecoverCredential, VerifyCredential, PersistReady, DeleteFinalizer,
      Crash, DeliverResource, DeliverSecret, CallFails, remoteVars
<1>14. CASE \/ EditSpec \/ DeleteResource \/ DeleteSecret \/ ClaimSecret \/ CollectSecret
            \/ LoseDependency \/ RestoreDependency \/ UNCHANGED vars
  BY <1>2, <1>3, <1>14
  DEF EditSpec, DeleteResource, DeleteSecret, ClaimSecret, CollectSecret, LoseDependency,
      RestoreDependency, remoteVars, vars
<1>. QED
  BY <1>7, <1>8, <1>9, <1>10, <1>11, <1>12, <1>13, <1>14 DEF Next, Reconcile, Outside

LEMMA AttachedHolds == Spec => []AttachedInvariant
<1>1. Init => AttachedInvariant
  BY DEF Init, AttachedInvariant, Unminted, Late, Idle
<1>2. TypeOK /\ AttachedInvariant /\ [Next]_vars => AttachedInvariant'
  <2> SUFFICES ASSUME TypeOK, AttachedInvariant, [Next]_vars PROVE AttachedInvariant'
    OBVIOUS
  <2>1. ASSUME NEW c \in Credentials, credential'[c].state = "Live"
        PROVE  /\ credential'[c].identity \in Identities
               /\ remoteAuth'[credential'[c].identity] # None
    <3>1. CASE /\ MintCredential /\ credential'[c].identity = mem.status.identity
               /\ Attached(mem.status.identity) /\ UNCHANGED remoteAuth
      <4>1. mem.status.identity \in Identities
        BY <3>1 DEF MintCredential, AttachedInvariant, Late
      <4>. QED
        BY <3>1, <4>1 DEF Attached
    <3>2. CASE /\ credential[c].state = "Live"
               /\ credential'[c].identity = credential[c].identity
               /\ \A i \in Identities :
                     i = credential[c].identity /\ Attached(i) => remoteAuth'[i] # None
      BY <3>2 DEF AttachedInvariant
    <3>. QED
      BY <2>1, <3>1, <3>2, LiveSteps
  <2>2. ASSUME pc' \in Late PROVE mem'.status.identity \in Identities
    <3>1. pc # Idle => mem.spec.identity \in Identities
      BY InProgress DEF TypeOK, Specs
    <3>2. pc \in {"read", "update"} \cup Late => pc # Idle
      BY DEF Late, Idle
    <3>. QED
      BY <2>2, <3>1, <3>2, LateSteps DEF AttachedInvariant
  <2>. QED
    BY <2>1, <2>2 DEF AttachedInvariant, Attached
<1>. QED
  BY <1>1, <1>2, TypeCorrect, PTL DEF Spec

-----------------------------------------------------------------------------
(* RotationHonoured, NoStrayCredential and DeleteLeavesNothing: what a run   *)
(* without a fault keeps                                                     *)

\* The hypothesis of the theorems of this section: identityRef resolves to one
\* external identity.  A resource moved to another identity forgets the
\* credentials of the first one.
IdentityStays == \A i, j \in Identities : i = j

\* Minted credentials keep their nonce, published ones do not come back to life,
\* and the Secret does not come to hold another one.
CredentialsKept ==
  \A c \in Credentials :
    /\ credential'[c].published => credential[c].published
    /\ credential[c].state # "Unused" => credential'[c].nonce = credential[c].nonce
    /\ credential[c].published /\ credential'[c].state = "Live" => credential[c].state = "Live"
SecretKept == secret' = secret \/ secret'.owner # "Ours"

\* Nothing but a publication puts a credential into circulation.
LEMMA OthersKeep ==
  ASSUME TypeOK, FreshUnpublished, Next, ~PublishSecret
  PROVE  CredentialsKept /\ SecretKept
<1> DEFINE Kept(c) ==
      /\ credential'[c].published => credential[c].published
      /\ credential[c].state # "Unused" => credential'[c].nonce = credential[c].nonce
      /\ credential[c].published /\ credential'[c].state = "Live" => credential[c].state = "Live"
<1>1. ASSUME NEW c \in Credentials PROVE Kept(c)
  <2>1. CASE credential'[c] = credential[c]
    BY <2>1
  <2>2. CASE \E state : /\ state # "Live"
                        /\ credential'[c] = [credential[c] EXCEPT !.state = state]
    BY <2>2 DEF TypeOK, RemoteTypeOK, CredentialRecords
  <2>3. ASSUME NEW i, Detach(i) PROVE Kept(c)
    BY <2>1, <2>2, <2>3 DEF Detach
  <2>4. ASSUME NEW state \in {"RotatedOut", "Removed"}, NEW d, NEW i, RevokeAs(state, d, i)
        PROVE  Kept(c)
    BY <2>1, <2>2, <2>4 DEF RevokeAs, TypeOK, RemoteTypeOK
  <2>5. CASE MintCredential
    BY <2>1, <2>5, MintChanges DEF FreshUnpublished, TypeOK, RemoteTypeOK
  <2>6. CASE DeleteDetach \/ DetachOutside
    BY <2>1, <2>3, <2>6
    DEF DeleteDetach, DetachAny, DeletionCallFails, DetachOutside, remoteVars
  <2>7. CASE RevokePrevious \/ DeleteRevoke \/ RevokeOutside
    BY <2>1, <2>4, <2>7
    DEF RevokePrevious, DeleteRevoke, RevokeOutside, CallFails, DeletionCallFails, remoteVars
  <2>8. CASE \/ EnsureFinalizer \/ BeginReconcile \/ BeginDeletion
             \/ AdoptLookup \/ AttachAuth \/ ReadAuth \/ UpdateAuth
             \/ RecoverCredential \/ VerifyCredential \/ PersistReady \/ DeleteFinalizer
             \/ Crash \/ DeliverResource \/ DeliverSecret
    <3>1. UNCHANGED credential
      BY <2>8
      DEF EnsureFinalizer, BeginReconcile, BeginDeletion, AdoptLookup, AttachAuth, ReadAuth,
          UpdateAuth, RecoverCredential, VerifyCredential, PersistReady, DeleteFinalizer,
          Crash, DeliverResource, DeliverSecret, CallFails, remoteVars
    <3>. QED
      BY <2>1, <3>1
  <2>9. CASE \/ EditSpec \/ DeleteResource \/ DeleteSecret \/ ClaimSecret \/ CollectSecret
             \/ ConfigureOutside \/ LoseDependency \/ RestoreDependency
    <3>1. UNCHANGED credential
      BY <2>9
      DEF EditSpec, DeleteResource, DeleteSecret, ClaimSecret, CollectSecret,
          ConfigureOutside, LoseDependency, RestoreDependency, remoteVars
    <3>. QED
      BY <2>1, <3>1
  <2>. QED
    BY <2>5, <2>6, <2>7, <2>8, <2>9 DEF Next, Reconcile, Outside
<1>2. SecretKept
  <2>1. CASE DeleteSecret \/ ClaimSecret \/ CollectSecret
    BY <2>1 DEF DeleteSecret, ClaimSecret, CollectSecret, Sec!Put, NoSecret, SecretKept
  <2>2. CASE Reconcile \/ Crash
    BY <2>2
    DEF Reconcile, EnsureFinalizer, BeginReconcile, BeginDeletion, AdoptLookup, AttachAuth,
        ReadAuth, UpdateAuth, RecoverCredential, VerifyCredential, MintCredential,
        RevokePrevious, PersistReady, DeleteRevoke, DeleteDetach, DeleteFinalizer, Crash,
        secretVars, SecretKept
  <2>3. CASE DeliverResource \/ DeliverSecret
    BY <2>3 DEF DeliverResource, DeliverSecret, Sec!Deliver, secretVars, SecretKept
  <2>4. CASE \/ EditSpec \/ DeleteResource \/ DetachOutside \/ RevokeOutside
             \/ ConfigureOutside \/ LoseDependency \/ RestoreDependency
    BY <2>4
    DEF EditSpec, DeleteResource, DetachOutside, RevokeOutside, ConfigureOutside,
        LoseDependency, RestoreDependency, secretVars, SecretKept
  <2>. QED
    BY <2>1, <2>2, <2>3, <2>4 DEF Next, Outside
<1>. QED
  BY <1>1, <1>2 DEF CredentialsKept

\* What a step may do to the stored resource.
LEMMA ResourceChanges ==
  ASSUME TypeOK, CacheFollows, Next, api' # api
  PROVE  \/ EnsureFinalizer /\ api.exists /\ api' = [api EXCEPT !.finalizer = TRUE]
         \/ Reconcile /\ api.exists /\ \E s \in Statuses : api' = [api EXCEPT !.status = s]
         \/ EditSpec /\ api.exists /\ \E s \in Specs : api' = [api EXCEPT !.spec = s]
         \/ /\ DeleteResource /\ api.exists
            /\ api' = [api EXCEPT !.deleting = api.finalizer, !.exists = api.finalizer]
         \/ /\ BeginDeletion \/ DeleteFinalizer
            /\ api.finalizer /\ api' = WithoutFinalizer(api)
<1> DEFINE Patched == api.exists /\ \E s \in Statuses : api' = [api EXCEPT !.status = s]
<1>1. ASSUME NEW before \in Statuses, NEW after \in Statuses, PatchStatus(before, after)
      PROVE  Patched
  BY <1>1, MergePatchType DEF PatchStatus, CR!Put, TypeOK, CRTypeOK, Resources, crVars
<1>2. ASSUME NEW status \in Statuses, NEW reason \in Reasons, ReturnError(status, reason)
      PROVE  Patched
  <2>1. [status EXCEPT !.reason = reason] \in Statuses
    BY DEF Statuses
  <2>. QED
    BY <1>1, <1>2, <2>1 DEF ReturnError
<1>3. ~UNCHANGED crVars
  BY DEF crVars
<1>4. pc # Idle => mem \in Memories /\ mem.status \in Statuses
  BY InProgress DEF TypeOK
<1>5. ASSUME NEW reason \in Reasons, pc # Idle, CallFails(reason) \/ AnswerLost(reason)
      PROVE  Patched
  BY <1>2, <1>4, <1>5 DEF CallFails, AnswerLost
<1>6. CASE EnsureFinalizer
  BY <1>6
  DEF EnsureFinalizer, ReadCaches, CR!Put, CR!Current, CacheFollows
<1>7. CASE BeginReconcile
  BY <1>2, <1>3, <1>7 DEF BeginReconcile, TypeOK, CRTypeOK, Resources, Reasons, Reconcile
<1>8. CASE BeginDeletion \/ DeleteFinalizer
  BY <1>3, <1>8 DEF BeginDeletion, DeleteFinalizer, RemoveFinalizer, CR!Put
<1>9. CASE AdoptLookup \/ AttachAuth \/ UpdateAuth
  BY <1>2, <1>3, <1>4, <1>5, <1>9
  DEF AdoptLookup, AttachAuth, UpdateAuth, Reasons, Idle, Reconcile
<1>10. CASE ReadAuth
  <2>1. ClearedStatus \in Statuses
    BY DEF ClearedStatus, NoStatus, Statuses, Reasons
  <2>. QED
    BY <1>1, <1>3, <1>4, <1>5, <1>10, <2>1 DEF ReadAuth, Reasons, Idle, Reconcile
<1>11. CASE VerifyCredential \/ MintCredential \/ PublishSecret \/ RevokePrevious
  BY <1>2, <1>3, <1>4, <1>5, <1>11
  DEF VerifyCredential, MintCredential, PublishSecret, RevokePrevious, Reasons, Idle, Reconcile
<1>12. CASE PersistReady
  <2>1. mem.before \in Statuses /\ [mem.status EXCEPT !.reason = "Ready"] \in Statuses
    BY <1>4, <1>12 DEF PersistReady, Idle, Memories, Statuses, Reasons
  <2>. QED
    BY <1>1, <1>3, <1>12, <2>1 DEF PersistReady, Snapshot, Reconcile
<1>13. CASE RecoverCredential \/ DeleteRevoke \/ DeleteDetach \/ Crash
  BY <1>3, <1>13 DEF RecoverCredential, DeleteRevoke, DeleteDetach, Crash
<1>14. CASE EditSpec \/ DeleteResource
  BY <1>14 DEF EditSpec, DeleteResource, CR!Put
<1>15. CASE ~Reconcile /\ ~Crash /\ ~EditSpec /\ ~DeleteResource
  BY <1>3, <1>15
  DEF Next, DeliverResource, DeliverSecret, CR!Deliver, Outside, DeleteSecret, ClaimSecret,
      CollectSecret, DetachOutside, RevokeOutside, ConfigureOutside, LoseDependency,
      RestoreDependency
<1>. QED
  BY <1>6, <1>7, <1>8, <1>9, <1>10, <1>11, <1>12, <1>13, <1>14, <1>15 DEF Reconcile

\* Once gone, the resource never changes again.
GoneInvariant == ~api.exists => ~api.finalizer

LEMMA GoneStep ==
  ASSUME TypeOK, CacheFollows, GoneInvariant, Next
  PROVE  GoneInvariant' /\ (~api.exists => UNCHANGED api)
BY ResourceChanges
DEF GoneInvariant, WithoutFinalizer, TypeOK, CRTypeOK, Resources

\* What the three kinds of status patches write while the stored status is the
\* one that the reconciliation read.
LEMMA SnapshotPatch ==
  ASSUME CRTypeOK, api.exists, NEW after \in Statuses, PatchStatus(api.status, after)
  PROVE  api' = [api EXCEPT !.status = after]
<1>1. MergePatch(api.status, api.status, after) = after
  BY DEF MergePatch, CRTypeOK, Resources, Statuses
<1>. QED
  BY <1>1 DEF PatchStatus, CR!Put

LEMMA ErrorPatch ==
  ASSUME CRTypeOK, api.exists, NEW status \in Statuses, status.reason = api.status.reason,
         NEW reason \in Reasons, ReturnError(status, reason)
  PROVE  api' = [api EXCEPT !.status = [api.status EXCEPT !.reason = reason]]
<1> DEFINE after == [status EXCEPT !.reason = reason]
           written == [api.status EXCEPT !.reason = reason]
<1>1. MergePatch(api.status, status, after) = written
  <2> DEFINE p == MergePatch(api.status, status, after)
  <2>1. /\ after \in Statuses /\ written \in Statuses /\ api.status \in Statuses
        /\ p \in Statuses
    BY MergePatchType DEF CRTypeOK, Resources, Statuses
  <2>2. /\ p.identity = api.status.identity /\ p.credential = api.status.credential
        /\ p.nonce = api.status.nonce /\ p.reason = reason
    BY DEF MergePatch, CRTypeOK, Resources, Statuses
  <2>. QED
    BY <2>1, <2>2 DEF Statuses
<1>. QED
  BY <1>1 DEF ReturnError, PatchStatus, CR!Put

\* Clearing the status leaves nothing of what the reconciliation has not changed.
LEMMA ClearPatch ==
  ASSUME CRTypeOK, api.exists, NEW status \in Statuses, PatchStatus(status, ClearedStatus),
         status.reason = api.status.reason, status.credential = api.status.credential,
         status.nonce = api.status.nonce,
         status.identity = None => api.status.identity = None
  PROVE  api' = [api EXCEPT !.status = ClearedStatus]
<1> DEFINE p == MergePatch(api.status, status, ClearedStatus)
<1>1. ClearedStatus \in Statuses
  BY DEF ClearedStatus, NoStatus, Statuses, Reasons
<1>2. /\ ClearedStatus.identity = None /\ ClearedStatus.credential = None
      /\ ClearedStatus.nonce = None /\ ClearedStatus.reason = "RemoteAuthMissing"
  BY DEF ClearedStatus, NoStatus
<1>3. p \in Statuses
  BY <1>1, MergePatchType DEF CRTypeOK, Resources
<1>4. /\ p.identity = None /\ p.credential = None /\ p.nonce = None
      /\ p.reason = "RemoteAuthMissing"
  BY <1>2 DEF MergePatch, CRTypeOK, Resources, Statuses
<1>5. p = ClearedStatus
  BY <1>1, <1>2, <1>3, <1>4 DEF Statuses
<1>. QED
  BY <1>5 DEF PatchStatus, CR!Put

\* A step of a run without a fault is not a failing call, a crash or a stale read.
LEMMA NoFaults ==
  ASSUME TypeOK, faults = 0, faults' = 0
  PROVE  /\ ~Crash /\ ~DeletionCallFails
         /\ \A kind : ~Fault(kind)
         /\ \A reason : ~CallFails(reason) /\ ~AnswerLost(reason)
         /\ ReadCaches => CR!Current /\ Sec!Current
<1>1. \A kind : ~Fault(kind)
  BY DEF Fault
<1>. QED
  BY <1>1 DEF Crash, DeletionCallFails, CallFails, AnswerLost, ReadCaches

-----------------------------------------------------------------------------
(* The invariant of a run without a fault *)

Honoured(s)   == s.credential # None => credential[s.credential].nonce = s.nonce
Records(s, t) == s.credential = t.credential /\ s.nonce = t.nonce

\* The copy a reconciliation works with is the stored status, and until it has
\* a credential to persist it has not touched what that says of credentials.
RunFollows ==
  pc # Idle =>
    /\ mem.before = api.status /\ mem.status.reason = api.status.reason
    /\ mem.status.identity = None => api.status.identity = None
    /\ pc # "persist" => Records(mem.status, api.status)
    /\ pc = "recover" => mem.minted # None /\ mem.status.credential = None
    /\ pc = "verify" => mem.status.credential # None
    /\ pc \in {"publish", "revoke"} =>
         mem.minted \in Credentials /\ credential[mem.minted].nonce = mem.spec.nonce
    /\ Honoured(mem.status)

\* The credentials the controller has yet to revoke, or to record.
Tracked == IF pc = "persist" THEN {mem.status.credential}
           ELSE IF pc = "revoke" THEN {mem.status.credential, mem.minted}
           ELSE {api.status.credential}

LiveTracked ==
  \A c \in Credentials : credential[c].state = "Live" /\ credential[c].published => c \in Tracked
HeldTracked ==
  secret.owner = "Ours" =>
    /\ pc = "persist" => secret.credential = mem.status.credential
    /\ pc = "revoke"  => secret.credential = mem.minted
    /\ pc \notin {"persist", "revoke"} => api.status.credential \in {None, secret.credential}

CredentialsTracked == Honoured(api.status) /\ LiveTracked /\ HeldTracked
QuietInvariant == faults = 0 /\ api.exists => RunFollows /\ CredentialsTracked

\* Nothing about credentials is disturbed by a step that neither publishes nor
\* records: on the way to the credential, and around the reconciliation.
LEMMA TrackedStays ==
  ASSUME TypeOK, FreshUnpublished, ResourceNamesPublished, CredentialsTracked,
         CredentialsKept, SecretKept,
         Records(api'.status, api.status),
         \/ pc \notin {"persist", "revoke"} /\ pc' \notin {"persist", "revoke"}
         \/ pc' = pc /\ mem'.status = mem.status /\ mem'.minted = mem.minted
  PROVE  CredentialsTracked'
<1>1. api.status.credential \in Credentials \cup {None}
  BY DEF TypeOK, CRTypeOK, Resources, Statuses
<1>2. Honoured(api.status)'
  BY <1>1 DEF Honoured, Records, CredentialsKept, CredentialsTracked, FreshUnpublished,
              ResourceNamesPublished, Published
<1>3. Tracked' = Tracked
  BY DEF Tracked, Records
<1>4. LiveTracked'
  BY <1>3 DEF LiveTracked, CredentialsKept, CredentialsTracked
<1>5. HeldTracked'
  BY DEF HeldTracked, SecretKept, Records, CredentialsTracked
<1>. QED
  BY <1>2, <1>4, <1>5 DEF CredentialsTracked

\* A reconciliation that goes on keeps following the resource.
LEMMA RunContinues ==
  ASSUME TypeOK, FreshUnpublished, MemoryNamesPublished, RunFollows, CredentialsKept,
         pc # Idle, pc = "persist" => pc' = "persist", api'.status = api.status,
         mem'.before = mem.before, mem'.status.reason = mem.status.reason,
         Records(mem'.status, mem.status),
         mem'.status.identity = None => mem.status.identity = None,
         pc' = "recover" => mem'.minted # None /\ mem.status.credential = None,
         pc' = "verify" => mem.status.credential # None,
         pc' \in {"publish", "revoke"} =>
           mem'.minted \in Credentials /\ credential'[mem'.minted].nonce = mem'.spec.nonce
  PROVE  RunFollows'
<1>1. mem.status.credential \in Credentials \cup {None}
  BY InProgress DEF TypeOK, Statuses
<1>2. Honoured(mem.status)'
  BY <1>1 DEF Honoured, Records, CredentialsKept, RunFollows, FreshUnpublished,
              MemoryNamesPublished, Published
<1>. QED
  BY <1>2 DEF RunFollows, Records

\* Everybody else leaves the status and the memory alone.
LEMMA OutsideKeepsRun ==
  ASSUME TypeOK, Next, ~Reconcile, ~Crash
  PROVE  /\ pc' = pc
         /\ pc # Idle => /\ mem'.status = mem.status /\ mem'.minted = mem.minted
                         /\ mem'.spec = mem.spec /\ mem'.before = mem.before
<1>1. pc' = pc
  BY DEF Next, DeliverResource, DeliverSecret, Outside, EditSpec, DeleteResource,
         DeleteSecret, ClaimSecret, CollectSecret, DetachOutside, RevokeOutside,
         ConfigureOutside, LoseDependency, RestoreDependency, Disturb
<1>2. mem' = mem \/ OutdateCopy
  BY DEF Next, DeliverResource, DeliverSecret, Outside, EditSpec, DeleteResource,
         DeleteSecret, ClaimSecret, CollectSecret, DetachOutside, RevokeOutside,
         ConfigureOutside, LoseDependency, RestoreDependency
<1>3. pc # Idle => mem \in Memories
  BY InProgress DEF TypeOK
<1>. QED
  BY <1>1, <1>2, <1>3 DEF OutdateCopy, Memories

LEMMA QuietOutside ==
  ASSUME TypeOK, CacheFollows, PublicationInvariant, RunFollows, CredentialsTracked,
         Next, ~Reconcile, ~Crash, api'.exists
  PROVE  RunFollows' /\ CredentialsTracked'
<1>1. CredentialsKept /\ SecretKept
  BY OthersKeep DEF PublicationInvariant, Reconcile
<1>2. api'.status = api.status
  BY ResourceChanges DEF TypeOK, CRTypeOK, Resources, WithoutFinalizer, Reconcile
<1>3. CredentialsTracked'
  <2>1. CASE pc = Idle
    BY <1>1, <1>2, <2>1, OutsideKeepsRun, TrackedStays
    DEF PublicationInvariant, Records, Idle
  <2>2. CASE pc # Idle
    BY <1>1, <1>2, <2>2, OutsideKeepsRun, TrackedStays DEF PublicationInvariant, Records
  <2>. QED
    BY <2>1, <2>2
<1>4. CASE pc = Idle
  BY <1>3, <1>4, OutsideKeepsRun DEF RunFollows
<1>5. CASE pc # Idle
  <2>1. pc \in {"publish", "revoke"} => credential'[mem.minted].nonce = mem.spec.nonce
    BY <1>1, <1>5, ConstantsAssumption
    DEF RunFollows, CredentialsKept, PublicationInvariant, MemoryNamesPublished,
        FreshUnpublished, Published
  <2>2. RunFollows'
    BY <1>1, <1>2, <1>5, <2>1, OutsideKeepsRun, RunContinues
    DEF PublicationInvariant, Records, RunFollows
  <2>. QED
    BY <1>3, <2>2
<1>. QED
  BY <1>4, <1>5

\* An error ends the reconciliation and is all that the status tells of it.
LEMMA QuietError ==
  ASSUME TypeOK, PublicationInvariant, CredentialsTracked, CredentialsKept, SecretKept,
         api.exists, pc \notin {"persist", "revoke"},
         NEW status \in Statuses, status.reason = api.status.reason,
         NEW reason \in Reasons, ReturnError(status, reason)
  PROVE  RunFollows' /\ CredentialsTracked'
<1>1. pc' = Idle
  BY DEF ReturnError, EndReconcile
<1>2. Records(api'.status, api.status)
  BY ErrorPatch DEF TypeOK, CRTypeOK, Resources, Statuses, Records
<1>. QED
  BY <1>1, <1>2, TrackedStays DEF RunFollows, PublicationInvariant, Idle

LEMMA QuietBegin ==
  ASSUME TypeOK, CacheFollows, PublicationInvariant, CredentialsTracked,
         faults = 0, faults' = 0, api.exists,
         EnsureFinalizer \/ BeginReconcile \/ BeginDeletion
  PROVE  RunFollows' /\ CredentialsTracked'
<1>1. CR!Current /\ cache = api /\ pc = Idle
  BY NoFaults DEF EnsureFinalizer, BeginReconcile, BeginDeletion, ReadCaches, CR!Current,
                  CacheFollows
<1>2. Next /\ ~PublishSecret
  BY <1>1 DEF Next, Reconcile, PublishSecret, Idle
<1>3. CredentialsKept /\ SecretKept /\ UNCHANGED credential
  BY <1>2, OthersKeep
  DEF PublicationInvariant, EnsureFinalizer, BeginReconcile, BeginDeletion, remoteVars
<1>4. ASSUME NEW step \in {"read", "adopt", "attach", "deleteRevoke", "deleteDetach"},
             Continue(step, Loaded), UNCHANGED crVars
      PROVE  RunFollows' /\ CredentialsTracked'
  <2>1. RunFollows'
    BY <1>1, <1>3, <1>4
    DEF Continue, Loaded, RunFollows, Records, Honoured, CredentialsTracked, crVars
  <2>2. CredentialsTracked'
    BY <1>1, <1>3, <1>4, TrackedStays
    DEF Continue, PublicationInvariant, Records, crVars, Idle
  <2>. QED
    BY <2>1, <2>2
<1>5. ASSUME EndReconcile, api'.status = api.status PROVE RunFollows' /\ CredentialsTracked'
  BY <1>1, <1>3, <1>5, TrackedStays
  DEF EndReconcile, PublicationInvariant, RunFollows, Records, Idle
<1>6. CASE EnsureFinalizer
  BY <1>5, <1>6 DEF EnsureFinalizer, CR!Put, TypeOK, CRTypeOK, Resources
<1>7. CASE BeginReconcile
  <2>1. ASSUME NEW reason \in Reasons, ReturnError(cache.status, reason)
        PROVE  RunFollows' /\ CredentialsTracked'
    BY <1>1, <1>3, <2>1, QuietError DEF TypeOK, CRTypeOK, Resources, Idle
  <2>. QED
    BY <1>4, <1>7, <2>1 DEF BeginReconcile, FirstStep, Reasons
<1>8. CASE BeginDeletion
  <2>1. CASE RemoveFinalizer(CR!Current) /\ EndReconcile
    BY <1>5, <2>1
    DEF RemoveFinalizer, WithoutFinalizer, CR!Put, TypeOK, CRTypeOK, Resources, crVars
  <2>. QED
    BY <1>4, <1>8, <2>1 DEF BeginDeletion
<1>. QED
  BY <1>6, <1>7, <1>8

\* The steps that look at and set up Universal Auth, and the mint.
LEMMA QuietEnsure ==
  ASSUME TypeOK, PublicationInvariant, RunFollows, CredentialsTracked, CredentialsKept, SecretKept,
         pc \in {"read", "update"}, UNCHANGED api,
         NEW m, m = Observed(mem), EnsureClientSecret(m)
  PROVE  RunFollows' /\ CredentialsTracked'
<1>1. /\ mem \in Memories /\ m \in Memories /\ mem.spec.identity # None
      /\ m.status.identity = mem.spec.identity /\ m.minted = mem.minted
      /\ m.status.reason = mem.status.reason /\ m.before = mem.before
      /\ Records(m.status, mem.status)
  BY InProgress, MemoryType, ConstantsAssumption
  DEF TypeOK, Idle, Observed, Memories, Statuses, Records
<1>2. /\ pc' \in {"mint", "recover", "verify"}
      /\ mem'.status = m.status /\ mem'.before = m.before
      /\ pc' = "recover" => mem'.minted # None /\ m.status.credential = None
      /\ pc' = "verify" => m.status.credential # None
  BY <1>1 DEF EnsureClientSecret, MustRotate, Continue, Memories
<1>3. RunFollows'
  BY <1>1, <1>2, RunContinues DEF PublicationInvariant, Records, Idle
<1>4. CredentialsTracked'
  BY <1>2, TrackedStays DEF PublicationInvariant, Records
<1>. QED
  BY <1>3, <1>4

LEMMA QuietAuth ==
  ASSUME TypeOK, PublicationInvariant, RunFollows, CredentialsTracked,
         faults = 0, faults' = 0, api.exists,
         AdoptLookup \/ AttachAuth \/ UpdateAuth \/ (ReadAuth /\ Attached(mem.spec.identity))
  PROVE  RunFollows' /\ CredentialsTracked'
<1>1. /\ pc \in {"adopt", "attach", "read", "update"} /\ pc # Idle
      /\ mem \in Memories /\ mem.status \in Statuses /\ mem.spec.identity # None
      /\ mem.status.reason = api.status.reason
  BY InProgress, ConstantsAssumption
  DEF TypeOK, RunFollows, AdoptLookup, AttachAuth, UpdateAuth, ReadAuth, Idle
<1>2. CredentialsKept /\ SecretKept
  <2>1. Next /\ ~PublishSecret
    BY <1>1 DEF Next, Reconcile, PublishSecret
  <2>. QED
    BY <2>1, OthersKeep DEF PublicationInvariant
<1>3. ASSUME NEW step \in {"read", "attach", "update"}, NEW m \in {mem, Observed(mem)},
             Continue(step, m), UNCHANGED crVars
      PROVE  RunFollows' /\ CredentialsTracked'
  <2>1. /\ m.status.reason = mem.status.reason /\ m.before = mem.before
        /\ Records(m.status, mem.status)
        /\ m.status.identity = None => mem.status.identity = None
    BY <1>1, <1>3 DEF Observed, Memories, Statuses, Records
  <2>2. RunFollows'
    BY <1>1, <1>2, <1>3, <2>1, RunContinues DEF PublicationInvariant, Continue, crVars
  <2>3. CredentialsTracked'
    BY <1>1, <1>2, <1>3, TrackedStays DEF PublicationInvariant, Continue, Records, crVars
  <2>. QED
    BY <2>2, <2>3
<1>4. ASSUME NEW reason \in Reasons, ReturnError(mem.status, reason)
      PROVE  RunFollows' /\ CredentialsTracked'
  BY <1>1, <1>2, <1>4, QuietError
<1>5. ASSUME pc \in {"read", "update"}, UNCHANGED crVars, EnsureClientSecret(Observed(mem))
      PROVE  RunFollows' /\ CredentialsTracked'
  BY <1>2, <1>5, QuietEnsure DEF crVars
<1>6. ASSUME NEW reason PROVE ~CallFails(reason) /\ ~AnswerLost(reason)
  BY NoFaults
<1>7. CASE AdoptLookup
  BY <1>3, <1>4, <1>6, <1>7 DEF AdoptLookup, Reasons
<1>8. CASE AttachAuth
  BY <1>3, <1>4, <1>6, <1>8 DEF AttachAuth, Reasons
<1>9. CASE UpdateAuth
  BY <1>4, <1>5, <1>6, <1>9 DEF UpdateAuth, Reasons
<1>10. CASE ReadAuth /\ Attached(mem.spec.identity)
  BY <1>3, <1>5, <1>6, <1>10 DEF ReadAuth, Reasons
<1>. QED
  BY <1>7, <1>8, <1>9, <1>10

\* Without Universal Auth there is no live credential that the cleared status
\* could have forgotten.
LEMMA QuietClear ==
  ASSUME TypeOK, AttachedInvariant, RunFollows, CredentialsTracked,
         faults = 0, faults' = 0, api.exists, IdentityStays,
         ReadAuth, ~Attached(mem.spec.identity)
  PROVE  RunFollows' /\ CredentialsTracked'
<1>1. pc = "read" /\ pc # Idle /\ mem \in Memories /\ mem.status \in Statuses
      /\ mem.spec.identity \in Identities
  BY InProgress DEF TypeOK, ReadAuth, Idle
<1>2. PatchStatus(mem.status, ClearedStatus) /\ EndReconcile /\ UNCHANGED <<secret, credential>>
  BY NoFaults DEF ReadAuth, secretVars, remoteVars
<1>3. api' = [api EXCEPT !.status = ClearedStatus]
  BY <1>1, <1>2, ClearPatch DEF RunFollows, Records, TypeOK
<1>4. api'.status.credential = None /\ pc' = Idle
  BY <1>2, <1>3 DEF TypeOK, CRTypeOK, Resources, ClearedStatus, NoStatus, EndReconcile
<1>5. ASSUME NEW c \in Credentials PROVE credential[c].state # "Live"
  BY <1>1 DEF AttachedInvariant, IdentityStays
<1>. QED
  BY <1>2, <1>4, <1>5
  DEF RunFollows, CredentialsTracked, Honoured, LiveTracked, HeldTracked, Idle

\* What the Secret annotates and the status has lost is no longer live, so the
\* controller mints; a recorded credential is kept if it is live.
LEMMA QuietVerify ==
  ASSUME TypeOK, PublicationInvariant, RunFollows, CredentialsTracked,
         faults = 0, faults' = 0, api.exists, RecoverCredential \/ VerifyCredential
  PROVE  RunFollows' /\ CredentialsTracked'
<1>1. /\ pc \in {"recover", "verify"} /\ pc # Idle
      /\ mem \in Memories /\ mem.status \in Statuses /\ UNCHANGED <<secret, credential>>
      /\ mem.status.reason = api.status.reason /\ Records(mem.status, api.status)
  BY InProgress, NoFaults
  DEF TypeOK, RunFollows, RecoverCredential, VerifyCredential, Idle, secretVars, remoteVars
<1>2. CredentialsKept /\ SecretKept
  BY <1>1 DEF CredentialsKept, SecretKept
<1>3. ASSUME NEW m, m = mem \/ m = [mem EXCEPT !.minted = None], Continue("mint", m),
             UNCHANGED crVars
      PROVE  RunFollows' /\ CredentialsTracked'
  <2>1. m.status = mem.status /\ m.before = mem.before
    BY <1>1, <1>3 DEF Memories
  <2>2. RunFollows'
    BY <1>1, <1>2, <1>3, <2>1, RunContinues
    DEF PublicationInvariant, Continue, Records, crVars, Idle
  <2>3. CredentialsTracked'
    BY <1>1, <1>2, <1>3, TrackedStays DEF PublicationInvariant, Continue, Records, crVars
  <2>. QED
    BY <2>2, <2>3
<1>4. CASE RecoverCredential
  <2>1. pc = "recover" /\ mem.minted \in Credentials /\ credential[mem.minted].published
        /\ api.status.credential = None
    BY <1>1, <1>4
    DEF RecoverCredential, RunFollows, Records, PublicationInvariant, MemoryNamesPublished,
        Published, Memories
  <2>2. ~Live(mem.minted, mem.status.identity)
    BY <2>1, ConstantsAssumption DEF Live, CredentialsTracked, LiveTracked, Tracked
  <2>. QED
    BY <1>3, <1>4, <2>2, NoFaults DEF RecoverCredential
<1>5. CASE VerifyCredential
  <2>1. CASE Continue("persist", mem) /\ UNCHANGED crVars
    <3>1. /\ mem.status.credential # None /\ Honoured(mem.status) /\ mem.before = api.status
          /\ mem.status.identity = None => api.status.identity = None
      BY <1>1, <1>5 DEF RunFollows, VerifyCredential
    <3>2. Tracked' = Tracked
      BY <1>1, <2>1 DEF Tracked, Continue, Records
    <3>3. HeldTracked'
      BY <1>1, <2>1, <3>1 DEF HeldTracked, CredentialsTracked, Continue, Records
    <3>4. RunFollows'
      BY <1>1, <2>1, <3>1 DEF RunFollows, Continue, Honoured, crVars
    <3>. QED
      BY <1>1, <2>1, <3>2, <3>3, <3>4
      DEF CredentialsTracked, LiveTracked, Honoured, Continue, crVars
  <2>2. CASE ReturnError(mem.status, "ClientSecretNotReady")
    BY <1>1, <1>2, <2>2, QuietError DEF Reasons
  <2>. QED
    BY <1>3, <1>5, <2>1, NoFaults DEF VerifyCredential
<1>. QED
  BY <1>4, <1>5

LEMMA QuietMint ==
  ASSUME TypeOK, PublicationInvariant, RunFollows, CredentialsTracked,
         faults = 0, faults' = 0, api.exists, MintCredential
  PROVE  RunFollows' /\ CredentialsTracked'
<1>1. /\ pc = "mint" /\ pc # Idle
      /\ mem \in Memories /\ mem.status \in Statuses
      /\ mem.status.reason = api.status.reason
  BY InProgress DEF TypeOK, RunFollows, MintCredential, Idle
<1>2. CredentialsKept /\ SecretKept
  <2>1. Next /\ ~PublishSecret
    BY <1>1 DEF Next, Reconcile, PublishSecret
  <2>. QED
    BY <2>1, OthersKeep DEF PublicationInvariant
<1>3. ASSUME NEW c \in Credentials, UNCHANGED crVars, Continue("publish", [mem EXCEPT !.minted = c]),
             credential' = [credential EXCEPT ![c] =
               [state |-> "Live", identity |-> mem.status.identity,
                nonce |-> mem.spec.nonce, published |-> FALSE]]
      PROVE  RunFollows' /\ CredentialsTracked'
  <2>1. /\ mem'.status = mem.status /\ mem'.before = mem.before /\ mem'.spec = mem.spec
        /\ mem'.minted = c /\ pc' = "publish"
    BY <1>1, <1>3 DEF Continue, Memories
  <2>2. credential'[c].nonce = mem.spec.nonce
    BY <1>3 DEF TypeOK, RemoteTypeOK
  <2>3. RunFollows'
    BY <1>1, <1>2, <1>3, <2>1, <2>2, RunContinues DEF PublicationInvariant, Records, crVars
  <2>4. CredentialsTracked'
    BY <1>1, <1>2, <1>3, <2>1, TrackedStays DEF PublicationInvariant, Records, crVars
  <2>. QED
    BY <2>3, <2>4
<1>4. CASE ReturnError(mem.status, "ClientSecretNotReady")
  BY <1>1, <1>2, <1>4, QuietError DEF Reasons
<1>. QED
  BY <1>3, <1>4, NoFaults DEF MintCredential, AfterMint

\* The Secret holds the minted credential; the one that the status names is now
\* the only other one in circulation.
LEMMA QuietPublish ==
  ASSUME TypeOK, PublicationInvariant, RunFollows, CredentialsTracked,
         faults = 0, faults' = 0, api.exists, PublishSecret
  PROVE  RunFollows' /\ CredentialsTracked'
<1>1. /\ pc = "publish" /\ pc # Idle
      /\ mem \in Memories /\ mem.status \in Statuses
      /\ mem.status.reason = api.status.reason /\ Records(mem.status, api.status)
      /\ mem.minted \in Credentials /\ credential[mem.minted].nonce = mem.spec.nonce
      /\ mem.before = api.status /\ Honoured(mem.status)
      /\ mem.status.identity = None => api.status.identity = None
  BY InProgress DEF TypeOK, RunFollows, PublishSecret, Idle
<1>2. CASE /\ secret' = [exists |-> TRUE, owner |-> "Ours", credential |-> mem.minted]
           /\ credential' = [credential EXCEPT ![mem.minted].published = TRUE]
           /\ AfterPublish(mem) /\ UNCHANGED crVars
  <2>1. secret'.owner = "Ours" /\ secret'.credential = mem.minted
    BY <1>2
  <2>2. ASSUME NEW c \in Credentials
        PROVE  /\ credential'[c].nonce = credential[c].nonce
               /\ credential'[c].state = credential[c].state
               /\ credential'[c].published => credential[c].published \/ c = mem.minted
    BY <1>1, <1>2 DEF TypeOK, RemoteTypeOK, CredentialRecords
  <2>3. ASSUME NEW c \in Credentials, credential'[c].state = "Live", credential'[c].published
        PROVE  c \in {mem.status.credential, mem.minted}
    BY <1>1, <2>2, <2>3 DEF CredentialsTracked, LiveTracked, Tracked, Records
  <2>4. mem.status.credential \in Credentials \cup {None}
        /\ api.status.credential \in Credentials \cup {None}
    BY <1>1 DEF Statuses, Records
  <2>5. Honoured(api.status)' /\ (mem' = mem => Honoured(mem.status)')
    <3>1. \A s : /\ s.credential \in Credentials \cup {None} /\ Honoured(s)
                 => (s.credential # None => credential'[s.credential].nonce = s.nonce)
      BY <2>2 DEF Honoured
    <3>2. Honoured(api.status)'
      BY <1>2, <2>4, <3>1 DEF CredentialsTracked, Honoured, crVars
    <3>3. mem' = mem => Honoured(mem.status)'
      BY <1>1, <2>4, <3>1 DEF Honoured
    <3>. QED
      BY <3>2, <3>3
  <2>6. CASE Continue("revoke", mem)
    <3>1. RunFollows'
      BY <1>1, <1>2, <2>2, <2>5, <2>6 DEF RunFollows, Continue, Records, crVars
    <3>. QED
      BY <2>1, <2>3, <2>5, <2>6, <3>1
      DEF Continue, CredentialsTracked, LiveTracked, HeldTracked, Tracked
  <2>7. CASE /\ Continue("persist", Recorded(mem, mem.minted))
             /\ mem.status.credential \in {None, mem.minted}
    <3>1. /\ mem'.status.credential = mem.minted /\ mem'.status.nonce = mem.spec.nonce
          /\ mem'.status.reason = mem.status.reason /\ mem'.before = mem.before
          /\ mem'.status.identity = mem.status.identity /\ pc' = "persist"
      BY <1>1, <2>7 DEF Continue, Recorded, Memories, Statuses
    <3>2. Honoured(mem.status)'
      BY <1>1, <2>2, <3>1 DEF Honoured
    <3>3. RunFollows'
      BY <1>1, <1>2, <3>1, <3>2 DEF RunFollows, crVars
    <3>4. LiveTracked'
      BY <2>3, <2>7, <3>1, ConstantsAssumption DEF LiveTracked, Tracked
    <3>5. HeldTracked'
      BY <2>1, <3>1 DEF HeldTracked
    <3>. QED
      BY <2>5, <3>3, <3>4, <3>5 DEF CredentialsTracked
  <2>. QED
    BY <1>2, <2>6, <2>7 DEF AfterPublish
<1>3. CASE ReturnError(mem.status, "ClientSecretNotReady") /\ UNCHANGED <<secretVars, credential>>
  <2>1. CredentialsKept /\ SecretKept
    BY <1>3 DEF CredentialsKept, SecretKept, secretVars
  <2>. QED
    BY <1>1, <1>3, <2>1, QuietError DEF Reasons
<1>. QED
  BY <1>2, <1>3, NoFaults DEF PublishSecret, Sec!Put

\* The rotation revokes the credential that the status named: it is one of the
\* only identity there is.
LEMMA QuietRevoke ==
  ASSUME TypeOK, AttachedInvariant, PublicationInvariant, RunFollows, CredentialsTracked,
         faults = 0, faults' = 0, IdentityStays, RevokePrevious
  PROVE  RunFollows' /\ CredentialsTracked'
<1>1. /\ pc = "revoke" /\ pc # Idle
      /\ mem \in Memories /\ mem.status \in Statuses
      /\ mem.status.reason = api.status.reason
      /\ mem.minted \in Credentials /\ credential[mem.minted].nonce = mem.spec.nonce
      /\ mem.before = api.status
      /\ mem.status.identity = None => api.status.identity = None
  BY InProgress DEF TypeOK, RunFollows, RevokePrevious, Idle
<1>2. /\ RevokeAs("RotatedOut", mem.status.credential, mem.status.identity)
      /\ pc' = "persist" /\ mem' = Recorded(mem, mem.minted)
      /\ UNCHANGED <<crVars, secret>>
  BY NoFaults DEF RevokePrevious, Previous, Continue, secretVars
<1>3. /\ mem'.status.credential = mem.minted /\ mem'.status.nonce = mem.spec.nonce
      /\ mem'.status.reason = mem.status.reason /\ mem'.before = mem.before
      /\ mem'.status.identity = mem.status.identity
  BY <1>1, <1>2 DEF Recorded, Memories, Statuses
<1>4. ASSUME NEW c \in Credentials
      PROVE  /\ credential'[c].nonce = credential[c].nonce
             /\ credential'[c].published = credential[c].published
             /\ credential'[c].state = "Live" =>
                  credential[c].state = "Live" /\ c # mem.status.credential
  <2>1. mem.status.identity \in Identities
    BY <1>1 DEF AttachedInvariant, Late
  <2>2. credential[c].state = "Live" => Live(c, mem.status.identity)
    BY <2>1 DEF AttachedInvariant, Live, IdentityStays
  <2>3. CASE c = mem.status.credential
    BY <1>2, <2>2, <2>3 DEF RevokeAs, Live, TypeOK, RemoteTypeOK, CredentialRecords
  <2>4. CASE c # mem.status.credential
    BY <1>2, <2>4 DEF RevokeAs, TypeOK, RemoteTypeOK
  <2>. QED
    BY <2>3, <2>4
<1>5. LiveTracked'
  BY <1>1, <1>2, <1>3, <1>4 DEF LiveTracked, CredentialsTracked, Tracked
<1>6. HeldTracked'
  BY <1>1, <1>2, <1>3 DEF HeldTracked, CredentialsTracked
<1>7. Honoured(mem.status)' /\ Honoured(api.status)'
  <2>1. Honoured(mem.status)'
    BY <1>1, <1>3, <1>4 DEF Honoured
  <2>2. Honoured(api.status)'
    BY <1>2, <1>4 DEF Honoured, CredentialsTracked, crVars, TypeOK, CRTypeOK, Resources, Statuses
  <2>. QED
    BY <2>1, <2>2
<1>8. RunFollows'
  BY <1>1, <1>2, <1>3, <1>7 DEF RunFollows, crVars
<1>. QED
  BY <1>5, <1>6, <1>7, <1>8 DEF CredentialsTracked

LEMMA QuietPersist ==
  ASSUME TypeOK, RunFollows, CredentialsTracked, faults = 0, faults' = 0, api.exists, PersistReady
  PROVE  RunFollows' /\ CredentialsTracked'
<1> DEFINE after == [mem.status EXCEPT !.reason = "Ready"]
<1>1. /\ pc = "persist" /\ pc # Idle /\ mem.status \in Statuses
      /\ mem.before = api.status /\ Honoured(mem.status)
  BY InProgress DEF TypeOK, RunFollows, PersistReady, Idle
<1>2. PatchStatus(mem.before, after) /\ pc' = Idle /\ UNCHANGED <<secret, credential>>
  BY NoFaults DEF PersistReady, Snapshot, EndReconcile, secretVars, remoteVars
<1>3. after \in Statuses /\ Records(after, mem.status)
  BY <1>1 DEF Statuses, Reasons, Records
<1>4. api'.status = after
  BY <1>1, <1>2, <1>3, SnapshotPatch DEF TypeOK, CRTypeOK, Resources
<1>5. Honoured(api.status)' /\ LiveTracked'
  BY <1>1, <1>2, <1>3, <1>4
  DEF Honoured, Records, LiveTracked, CredentialsTracked, Tracked, Idle
<1>6. HeldTracked'
  BY <1>1, <1>2, <1>3, <1>4 DEF Records, HeldTracked, CredentialsTracked, Idle
<1>. QED
  BY <1>2, <1>5, <1>6 DEF RunFollows, CredentialsTracked

LEMMA QuietDeletion ==
  ASSUME TypeOK, PublicationInvariant, RunFollows, CredentialsTracked,
         faults = 0, faults' = 0, DeleteRevoke \/ DeleteDetach \/ DeleteFinalizer
  PROVE  RunFollows' /\ CredentialsTracked'
<1>1. /\ pc \in Removing /\ pc # Idle /\ pc \notin {"persist", "revoke"}
  BY DEF DeleteRevoke, DeleteDetach, DeleteFinalizer, Removing, Idle
<1>2. CredentialsKept /\ SecretKept
  <2>1. Next /\ ~PublishSecret
    BY <1>1 DEF Next, Reconcile, PublishSecret, Removing
  <2>. QED
    BY <2>1, OthersKeep DEF PublicationInvariant
<1>3. api'.status = api.status
  BY DEF DeleteRevoke, DeleteDetach, DeleteFinalizer, RemoveFinalizer, WithoutFinalizer, CR!Put,
         crVars, TypeOK, CRTypeOK, Resources
<1>4. \/ pc' = Idle
      \/ pc' \in {"deleteDetach", "deleteFinalizer"} /\ mem' = mem
  BY NoFaults DEF DeleteRevoke, DeleteDetach, DeleteFinalizer, EndReconcile, Continue
<1>5. CredentialsTracked'
  BY <1>1, <1>2, <1>3, <1>4, TrackedStays DEF PublicationInvariant, Records, Idle
<1>6. RunFollows'
  <2>1. CASE pc' = Idle
    BY <2>1 DEF RunFollows
  <2>2. CASE pc' \in {"deleteDetach", "deleteFinalizer"} /\ mem' = mem
    BY <1>1, <1>2, <1>3, <2>2, RunContinues DEF PublicationInvariant, Records
  <2>. QED
    BY <1>4, <2>1, <2>2
<1>. QED
  BY <1>5, <1>6

\* Faults are counted, never forgotten.
LEMMA FaultsGrow ==
  ASSUME Next
  PROVE  faults' = faults \/ faults' = faults + 1
<1>1. ASSUME NEW kind, Fault(kind) PROVE faults' = faults + 1
  BY <1>1 DEF Fault
<1>2. CASE EnsureFinalizer \/ BeginReconcile \/ BeginDeletion
  BY <1>1, <1>2 DEF EnsureFinalizer, BeginReconcile, BeginDeletion, ReadCaches, NoFault
<1>3. CASE AdoptLookup \/ AttachAuth \/ ReadAuth \/ UpdateAuth
  BY <1>1, <1>3
  DEF AdoptLookup, AttachAuth, ReadAuth, UpdateAuth, CallFails, AnswerLost, NoFault
<1>4. CASE RecoverCredential \/ VerifyCredential \/ MintCredential
  BY <1>1, <1>4
  DEF RecoverCredential, VerifyCredential, MintCredential, CallFails, AnswerLost, NoFault
<1>5. CASE PublishSecret \/ RevokePrevious \/ PersistReady
  BY <1>1, <1>5
  DEF PublishSecret, RevokePrevious, PersistReady, CallFails, AnswerLost, NoFault
<1>6. CASE DeleteRevoke \/ DeleteDetach \/ DeleteFinalizer \/ Crash
  BY <1>1, <1>6
  DEF DeleteRevoke, DeleteDetach, DeleteFinalizer, DeletionCallFails, Crash, NoFault
<1>7. CASE DeliverResource \/ DeliverSecret \/ Outside
  BY <1>7
  DEF DeliverResource, DeliverSecret, Outside, EditSpec, DeleteResource, DeleteSecret,
      ClaimSecret, CollectSecret, DetachOutside, RevokeOutside, ConfigureOutside,
      LoseDependency, RestoreDependency, Disturb
<1>. QED
  BY <1>2, <1>3, <1>4, <1>5, <1>6, <1>7 DEF Next, Reconcile

LEMMA QuietStep ==
  ASSUME TypeOK, DeletionInvariant, GoneInvariant, AttachedInvariant, PublicationInvariant,
         QuietInvariant, IdentityStays, Next
  PROVE  QuietInvariant'
<1> SUFFICES ASSUME faults' = 0, api'.exists
             PROVE  RunFollows' /\ CredentialsTracked'
  BY DEF QuietInvariant
<1>1. CacheFollows
  BY DEF DeletionInvariant
<1>2. api.exists
  BY <1>1, GoneStep
<1>3. faults = 0
  BY FaultsGrow DEF TypeOK, BoundTypeOK
<1>4. RunFollows /\ CredentialsTracked
  BY <1>2, <1>3 DEF QuietInvariant
<1>5. CASE EnsureFinalizer \/ BeginReconcile \/ BeginDeletion
  BY <1>1, <1>2, <1>3, <1>4, <1>5, QuietBegin
<1>6. CASE AdoptLookup \/ AttachAuth \/ UpdateAuth \/ ReadAuth
  BY <1>2, <1>3, <1>4, <1>6, QuietAuth, QuietClear
<1>7. CASE \/ RecoverCredential \/ VerifyCredential \/ MintCredential
           \/ PublishSecret \/ RevokePrevious \/ PersistReady
  BY <1>2, <1>3, <1>4, <1>7, QuietVerify, QuietMint, QuietPublish, QuietRevoke, QuietPersist
<1>8. CASE DeleteRevoke \/ DeleteDetach \/ DeleteFinalizer
  BY <1>3, <1>4, <1>8, QuietDeletion
<1>9. CASE ~Reconcile
  BY <1>1, <1>3, <1>4, <1>9, QuietOutside, NoFaults
<1>. QED
  BY <1>5, <1>6, <1>7, <1>8, <1>9 DEF Reconcile

LEMMA GoneHolds == Spec => []GoneInvariant
<1>1. Init => GoneInvariant
  BY DEF Init, GoneInvariant
<1>2. TypeOK /\ DeletionInvariant /\ GoneInvariant /\ [Next]_vars => GoneInvariant'
  <2>1. ASSUME GoneInvariant, UNCHANGED vars PROVE GoneInvariant'
    BY <2>1 DEF GoneInvariant, vars, crVars
  <2>. QED
    BY <2>1, GoneStep DEF DeletionInvariant
<1>. QED
  BY <1>1, <1>2, TypeCorrect, DeletionInvariantHolds, PTL DEF Spec

LEMMA QuietHolds == IdentityStays => (Spec => []QuietInvariant)
<1> SUFFICES ASSUME IdentityStays PROVE Spec => []QuietInvariant
  OBVIOUS
<1>1. Init => QuietInvariant
  <2> SUFFICES ASSUME Init PROVE RunFollows /\ CredentialsTracked
    BY DEF QuietInvariant
  <2>0. NoStatus.credential = None
    BY DEF NoStatus
  <2>1. api.status = NoStatus /\ pc = Idle /\ secret.owner = "None"
        /\ credential = [c \in Credentials |-> Unminted]
    BY DEF Init, NoSecret
  <2>2. Honoured(api.status)
    BY <2>0, <2>1 DEF Honoured
  <2>3. LiveTracked /\ HeldTracked /\ RunFollows
    BY <2>1 DEF LiveTracked, HeldTracked, RunFollows, Unminted
  <2>. QED
    BY <2>2, <2>3 DEF CredentialsTracked
<1>2. TypeOK /\ DeletionInvariant /\ GoneInvariant /\ AttachedInvariant
      /\ PublicationInvariant /\ QuietInvariant /\ [Next]_vars => QuietInvariant'
  <2>1. ASSUME QuietInvariant, UNCHANGED vars PROVE QuietInvariant'
    BY <2>1
    DEF QuietInvariant, RunFollows, CredentialsTracked, Honoured, Records, LiveTracked,
        HeldTracked, Tracked, vars, crVars, secretVars, remoteVars
  <2>. QED
    BY <2>1, QuietStep
<1>. QED
  BY <1>1, <1>2, TypeCorrect, DeletionInvariantHolds, GoneHolds, AttachedHolds,
     PublicationInvariantHolds, PTL DEF Spec

\* A rotation nonce reported as applied was applied, as long as no call fails,
\* is lost or reads a stale copy, whatever users and administrators do.
THEOREM HonouredSafe == IdentityStays => (Spec => []RotationHonoured)
<1>1. QuietInvariant => RotationHonoured
  BY DEF QuietInvariant, CredentialsTracked, Honoured, RotationHonoured
<1>. QED
  BY <1>1, QuietHolds, PTL

\* No published credential is left live behind the one that the Secret holds,
\* under the same conditions.
THEOREM NoneStray == IdentityStays => (Spec => []NoStrayCredential)
<1>1. TypeOK /\ QuietInvariant => NoStrayCredential
  <2> SUFFICES ASSUME TypeOK, QuietInvariant, faults = 0, api.exists, pc = Idle,
                      secret.owner = "Ours", NEW c \in Credentials,
                      credential[c].state = "Live", credential[c].published
               PROVE  c = secret.credential
    BY DEF NoStrayCredential
  <2>1. c = api.status.credential
    BY DEF QuietInvariant, CredentialsTracked, LiveTracked, Tracked, Idle
  <2>2. api.status.credential \in {None, secret.credential}
    BY DEF QuietInvariant, CredentialsTracked, HeldTracked, Idle
  <2>. QED
    BY <2>1, <2>2, ConstantsAssumption
<1>. QED
  BY <1>1, QuietHolds, TypeCorrect, PTL

-----------------------------------------------------------------------------
(* DeleteLeavesNothing *)

Bare == \A i \in Identities : ~Attached(i)

\* The steps of a reconciliation at which Universal Auth is attached and may
\* not be recorded yet.
Later == Late \cup {"read", "update"}

\* What is attached is recorded, in progress or reported as an error.
RecordedInvariant ==
  faults = 0 =>
    /\ api.status.reason = "Ready" => api.status.identity # None
    /\ api.exists /\ NotInError /\ api.status.identity = None /\ pc \notin Later => Bare
    /\ ~api.exists /\ api.deleting /\ NotInError /\ api.spec.deletion = "Delete" =>
         pc = Idle /\ Bare

\* Only AttachAuth attaches Universal Auth to an identity that has none.
LEMMA BareStays ==
  ASSUME TypeOK, Next, Bare, ~AttachAuth
  PROVE  Bare'
<1>1. UNCHANGED remoteAuth => Bare'
  BY DEF Bare, Attached
<1>2. ASSUME NEW i, Detach(i) PROVE Bare'
  BY <1>2 DEF Detach, Bare, Attached, TypeOK, RemoteTypeOK
<1>3. CASE UpdateAuth
  <2>1. ~Attached(mem.spec.identity)
    BY <1>3, InProgress DEF UpdateAuth, Bare, TypeOK, Idle
  <2>. QED
    BY <1>1, <1>3, <2>1 DEF UpdateAuth, CallFails, remoteVars
<1>4. CASE DeleteDetach \/ DetachOutside
  BY <1>1, <1>2, <1>4 DEF DeleteDetach, DetachAny, DeletionCallFails, DetachOutside, remoteVars
<1>5. ~ConfigureOutside
  BY DEF ConfigureOutside, Bare
<1>6. CASE \/ EnsureFinalizer \/ BeginReconcile \/ BeginDeletion \/ AdoptLookup \/ ReadAuth
           \/ RecoverCredential \/ VerifyCredential \/ MintCredential \/ PublishSecret
           \/ RevokePrevious \/ PersistReady \/ DeleteRevoke \/ DeleteFinalizer
  BY <1>1, <1>6
  DEF EnsureFinalizer, BeginReconcile, BeginDeletion, AdoptLookup, ReadAuth,
      RecoverCredential, VerifyCredential, MintCredential, PublishSecret, RevokePrevious,
      PersistReady, DeleteRevoke, DeleteFinalizer, CallFails, DeletionCallFails, remoteVars
<1>7. CASE \/ Crash \/ DeliverResource \/ DeliverSecret
           \/ EditSpec \/ DeleteResource \/ DeleteSecret \/ ClaimSecret \/ CollectSecret
           \/ RevokeOutside \/ LoseDependency \/ RestoreDependency
  BY <1>1, <1>7
  DEF Crash, DeliverResource, DeliverSecret, EditSpec, DeleteResource, DeleteSecret,
      ClaimSecret, CollectSecret, RevokeOutside, LoseDependency, RestoreDependency, remoteVars
<1>. QED
  BY <1>3, <1>4, <1>5, <1>6, <1>7 DEF Next, Reconcile, Outside

\* Without a fault, a step writes no status, or an error, or an identity; and a
\* reconciliation does not stop between the attachment and such a write.
LEMMA StatusSteps ==
  ASSUME TypeOK, CacheFollows, AttachedInvariant, RunFollows, Next,
         faults = 0, faults' = 0, api.exists, api'.exists
  PROVE  \/ api'.status = api.status /\ (pc \in Later => pc' \in Later)
         \/ ~NotInError'
         \/ api'.status.identity # None
<1> DEFINE Goal == \/ api'.status = api.status /\ (pc \in Later => pc' \in Later)
                   \/ ~NotInError'
                   \/ api'.status.identity # None
<1>1. ASSUME NEW reason \in Reasons \ {"", "Ready"}, NEW status \in Statuses,
             status.reason = api.status.reason, ReturnError(status, reason)
      PROVE  Goal
  <2>1. api' = [api EXCEPT !.status = [api.status EXCEPT !.reason = reason]]
    BY <1>1, ErrorPatch DEF TypeOK
  <2>2. api'.status.reason = reason
    BY <2>1 DEF TypeOK, CRTypeOK, Resources, Statuses
  <2>. QED
    BY <1>1, <2>2 DEF NotInError
<1>2. \A reason : ~CallFails(reason) /\ ~AnswerLost(reason)
  BY NoFaults
<1>3. pc # Idle => mem \in Memories /\ mem.status \in Statuses
                   /\ mem.status.reason = api.status.reason
  BY InProgress DEF TypeOK, RunFollows
<1>4. \A step : \A m : step \in Later /\ Continue(step, m) => pc' \in Later
  BY DEF Continue
<1>5. \A m : EnsureClientSecret(m) => pc' \in Later
  BY DEF EnsureClientSecret, Continue, Later, Late
<1>6. {"read", "update", "recover", "verify", "mint", "publish", "revoke", "persist"} = Later
  BY DEF Later, Late
<1>7. CASE EnsureFinalizer \/ BeginReconcile \/ BeginDeletion
  <2>1. pc \notin Later /\ cache = api
    BY <1>7, NoFaults
    DEF EnsureFinalizer, BeginReconcile, BeginDeletion, ReadCaches, CR!Current, CacheFollows,
        Later, Late, Idle
  <2>2. CASE EnsureFinalizer
    BY <2>1, <2>2 DEF EnsureFinalizer, CR!Put, TypeOK, CRTypeOK, Resources
  <2>3. CASE BeginReconcile
    BY <1>1, <2>1, <2>3 DEF BeginReconcile, Reasons, TypeOK, CRTypeOK, Resources, crVars
  <2>4. CASE BeginDeletion
    BY <2>1, <2>4
    DEF BeginDeletion, RemoveFinalizer, WithoutFinalizer, CR!Put, TypeOK, CRTypeOK, Resources,
        crVars
  <2>. QED
    BY <1>7, <2>2, <2>3, <2>4
<1>8. CASE AdoptLookup \/ AttachAuth
  BY <1>1, <1>2, <1>3, <1>6, <1>8 DEF AdoptLookup, AttachAuth, Reasons, Idle, crVars
<1>9. CASE ReadAuth
  <2>1. CASE PatchStatus(mem.status, ClearedStatus)
    <3>1. ClearedStatus.reason = "RemoteAuthMissing"
      BY DEF ClearedStatus, NoStatus
    <3>2. api' = [api EXCEPT !.status = ClearedStatus]
      BY <1>3, <1>9, <2>1, ClearPatch DEF ReadAuth, RunFollows, Records, TypeOK, Idle
    <3>. QED
      BY <3>1, <3>2 DEF NotInError, TypeOK, CRTypeOK, Resources
  <2>2. CASE UNCHANGED crVars /\ pc' \in Later
    BY <2>2 DEF crVars
  <2>. QED
    BY <1>2, <1>4, <1>5, <1>6, <1>9, <2>1, <2>2 DEF ReadAuth
<1>10. CASE UpdateAuth \/ VerifyCredential
  <2>1. CASE UNCHANGED crVars /\ pc' \in Later
    BY <2>1 DEF crVars
  <2>. QED
    BY <1>1, <1>2, <1>3, <1>4, <1>5, <1>6, <1>10, <2>1
    DEF UpdateAuth, VerifyCredential, Reasons, Idle
<1>11. CASE RecoverCredential \/ RevokePrevious
  BY <1>2, <1>4, <1>6, <1>11, NoFaults DEF RecoverCredential, RevokePrevious, crVars
<1>12. CASE MintCredential \/ PublishSecret
  <2>1. CASE UNCHANGED crVars /\ pc' \in Later
    BY <2>1 DEF crVars
  <2>2. \A m : AfterMint(m) \/ AfterPublish(m) => pc' \in Later
    BY <1>4, <1>6 DEF AfterMint, AfterPublish
  <2>. QED
    BY <1>1, <1>2, <1>3, <1>12, <2>1, <2>2 DEF MintCredential, PublishSecret, Reasons, Idle
<1>13. CASE PersistReady
  <2> DEFINE after == [mem.status EXCEPT !.reason = "Ready"]
  <2>1. PatchStatus(api.status, after) /\ after \in Statuses /\ after.identity = mem.status.identity
    BY <1>3, <1>13, NoFaults DEF PersistReady, Snapshot, RunFollows, Statuses, Reasons, Idle
  <2>2. mem.status.identity # None
    BY <1>13, ConstantsAssumption DEF PersistReady, AttachedInvariant, Late
  <2>. QED
    BY <2>1, <2>2, SnapshotPatch DEF TypeOK, CRTypeOK, Resources
<1>14. CASE DeleteRevoke \/ DeleteDetach \/ DeleteFinalizer
  BY <1>14
  DEF DeleteRevoke, DeleteDetach, DeleteFinalizer, RemoveFinalizer, WithoutFinalizer, CR!Put,
      crVars, TypeOK, CRTypeOK, Resources, Later, Late
<1>15. CASE ~Reconcile
  <2>1. api'.status = api.status
    BY <1>15, ResourceChanges
    DEF TypeOK, CRTypeOK, Resources, WithoutFinalizer, Reconcile
  <2>. QED
    BY <1>15, <2>1, OutsideKeepsRun, NoFaults
<1>. QED
  BY <1>7, <1>8, <1>9, <1>10, <1>11, <1>12, <1>13, <1>14, <1>15 DEF Reconcile

\* The resource of policy Delete disappears once nothing is attached any more.
LEMMA DisappearsBare ==
  ASSUME TypeOK, DeletionInvariant, RecordedInvariant, IdentityStays, Next,
         faults = 0, faults' = 0, api.exists, ~api'.exists, api'.deleting,
         NotInError', api'.spec.deletion = "Delete"
  PROVE  pc' = Idle /\ Bare'
<1>1. CacheFollows
  BY DEF DeletionInvariant
<1>2. api.finalizer /\ api'.status = api.status /\ api'.spec = api.spec
  BY <1>1, ResourceChanges DEF TypeOK, CRTypeOK, Resources, WithoutFinalizer
<1>3. CASE BeginDeletion /\ NothingToDelete(cache) /\ CR!Current /\ UNCHANGED remoteVars
  <2>1. cache = api /\ pc = Idle /\ pc' = Idle
    BY <1>1, <1>3 DEF BeginDeletion, ReadCaches, CR!Current, CacheFollows, EndReconcile
  <2>2. NotInError /\ api.status.identity = None
    BY <1>2, <1>3, <2>1 DEF NotInError, NothingToDelete
  <2>3. Bare
    BY <2>1, <2>2 DEF RecordedInvariant, Later, Late, Idle
  <2>. QED
    BY <1>3, <2>1, <2>3 DEF Bare, Attached, remoteVars
<1>4. CASE DeleteFinalizer /\ mem.current
  <2>1. pc' = Idle /\ UNCHANGED remoteAuth
    BY <1>4 DEF DeleteFinalizer, EndReconcile, remoteVars
  <2>2. mem.status.identity \in Identities /\ remoteAuth[mem.status.identity] = None
    BY <1>4, InProgress DEF DeletionInvariant, DeleteFinalizer, TypeOK, Statuses, Idle
  <2>. QED
    BY <2>1, <2>2 DEF Bare, Attached, IdentityStays
<1>. QED
  BY <1>2, <1>3, <1>4, Disappears

LEMMA RecordedStep ==
  ASSUME TypeOK, DeletionInvariant, GoneInvariant, AttachedInvariant, QuietInvariant,
         RecordedInvariant, IdentityStays, Next
  PROVE  RecordedInvariant'
<1> SUFFICES ASSUME faults' = 0
    PROVE  /\ api'.status.reason = "Ready" => api'.status.identity # None
           /\ api'.exists /\ NotInError' /\ api'.status.identity = None /\ pc' \notin Later
                => Bare'
           /\ ~api'.exists /\ api'.deleting /\ NotInError' /\ api'.spec.deletion = "Delete"
                => pc' = Idle /\ Bare'
  BY DEF RecordedInvariant
<1>1. CacheFollows
  BY DEF DeletionInvariant
<1>2. faults = 0
  BY FaultsGrow DEF TypeOK, BoundTypeOK
<1>3. CASE ~api.exists
  <2>1. UNCHANGED api
    BY <1>1, <1>3, GoneStep
  <2>2. ASSUME pc = Idle, Bare PROVE pc' = Idle /\ Bare'
    <3>1. ~ReadCaches
      BY <1>1, <1>2, <1>3, NoFaults DEF ReadCaches, CR!Current, CacheFollows
    <3>2. ~Reconcile
      BY <2>2, <3>1
      DEF Reconcile, EnsureFinalizer, BeginReconcile, BeginDeletion, AdoptLookup, AttachAuth,
          ReadAuth, UpdateAuth, RecoverCredential, VerifyCredential, MintCredential,
          PublishSecret, RevokePrevious, PersistReady, DeleteRevoke, DeleteDetach,
          DeleteFinalizer, Idle
    <3>. QED
      BY <1>2, <2>2, <3>2, BareStays, OutsideKeepsRun, NoFaults DEF Reconcile
  <2>. QED
    BY <1>2, <1>3, <2>1, <2>2 DEF RecordedInvariant, NotInError
<1>4. CASE api.exists /\ ~api'.exists
  <2>1. api'.status = api.status
    BY <1>1, <1>4, ResourceChanges DEF TypeOK, CRTypeOK, Resources, WithoutFinalizer
  <2>. QED
    BY <1>2, <1>4, <2>1, DisappearsBare DEF RecordedInvariant
<1>5. CASE api.exists /\ api'.exists
  <2>1. RunFollows
    BY <1>2, <1>5 DEF QuietInvariant
  <2>2. CASE api'.status = api.status /\ (pc \in Later => pc' \in Later)
    <3>1. ASSUME NotInError', api'.status.identity = None, pc' \notin Later PROVE Bare'
      <4>1. Bare
        BY <1>2, <1>5, <2>2, <3>1 DEF RecordedInvariant, NotInError
      <4>2. ~AttachAuth
        <5>1. ASSUME AttachAuth, NEW i \in Identities, i = mem.spec.identity PROVE FALSE
          <6>1. ~Attached(i)
            BY <4>1, <5>1 DEF Bare
          <6>. QED
            BY <1>2, <3>1, <5>1, <6>1, NoFaults DEF AttachAuth, Continue, Later
        <5>2. AttachAuth => mem.spec.identity \in Identities
          BY InProgress DEF AttachAuth, TypeOK, Idle
        <5>. QED
          BY <5>1, <5>2
      <4>. QED
        BY <4>1, <4>2, BareStays
    <3>. QED
      BY <1>2, <1>5, <2>2, <3>1 DEF RecordedInvariant
  <2>3. ~NotInError' => api'.status.reason # "Ready"
    BY DEF NotInError
  <2>. QED
    BY <1>1, <1>2, <1>5, <2>1, <2>2, <2>3, StatusSteps
<1>. QED
  BY <1>3, <1>4, <1>5

\* deletionPolicy Delete leaves nothing attached, recorded or not, when no call
\* failed and the controller did not report an error.
THEOREM NothingLeft ==
  IdentityStays /\ InitiallyAttached = {} => (Spec => []DeleteLeavesNothing)
<1> SUFFICES ASSUME IdentityStays, InitiallyAttached = {} PROVE Spec => []DeleteLeavesNothing
  OBVIOUS
<1>1. Init => RecordedInvariant
  <2> SUFFICES ASSUME Init PROVE RecordedInvariant
    OBVIOUS
  <2>1. NoStatus.reason # "Ready"
    BY DEF NoStatus
  <2>2. Bare /\ api.status = NoStatus /\ api.exists
    BY DEF Init, Bare, Attached
  <2>. QED
    BY <2>1, <2>2 DEF RecordedInvariant
<1>2. TypeOK /\ DeletionInvariant /\ GoneInvariant /\ AttachedInvariant /\ QuietInvariant
      /\ RecordedInvariant /\ [Next]_vars => RecordedInvariant'
  <2>1. ASSUME RecordedInvariant, UNCHANGED vars PROVE RecordedInvariant'
    BY <2>1 DEF RecordedInvariant, NotInError, Bare, Attached, vars, crVars, remoteVars
  <2>. QED
    BY <2>1, RecordedStep
<1>3. RecordedInvariant => DeleteLeavesNothing
  BY DEF RecordedInvariant, DeleteLeavesNothing, Bare
<1>4. Spec => []QuietInvariant
  BY QuietHolds
<1>. QED
  BY <1>1, <1>2, <1>3, <1>4, TypeCorrect, DeletionInvariantHolds, GoneHolds, AttachedHolds,
     PTL DEF Spec
=============================================================================
