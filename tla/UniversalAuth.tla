---------------------------- MODULE UniversalAuth ---------------------------
(***************************************************************************)
(* InfisicalUniversalAuthReconciler: attaches Universal Auth to an         *)
(* Infisical identity, mints client secrets ("credentials") for it,        *)
(* publishes the current one in a Kubernetes Secret and rotates it.        *)
(* Source: infisicaluniversalauth_controller.go, with the calls it makes   *)
(* in common.go and internal/infisicalclient/universalauth.go.             *)
(*                                                                         *)
(* One custom resource is followed through one lifetime.  The single       *)
(* worker of the controller runs one reconciliation at a time; a           *)
(* reconciliation is a sequence of steps, each of them one call to the     *)
(* Infisical API or one write to the Kubernetes API together with the      *)
(* local code up to the next call.  Between two steps users, other         *)
(* controllers, Infisical administrators and the informers may act, and    *)
(* the process may stop.                                                   *)
(***************************************************************************)
EXTENDS Controller

CONSTANTS
  Identities,         \* external identity ids that identityRef may resolve to
  Credentials,        \* ids of client secrets; once all are minted, minting is refused
  Nonces,             \* values of spec.clientSecret.rotationNonce
  Configs,            \* values of the declared Universal Auth configuration
  CreationChoices,    \* creation policies considered
  DeletionChoices,    \* deletion policies considered
  InitiallyAttached   \* identities that have Universal Auth before the operator acts

ASSUME ConstantsAssumption ==
  /\ None \notin Identities \cup Credentials \cup Nonces \cup Configs
  /\ CreationChoices \subseteq CreationPolicies
  /\ DeletionChoices \subseteq DeletionPolicies
  /\ InitiallyAttached \subseteq Identities

Connection   == "connection"
Dependencies == {Connection} \cup Identities

Specs == [identity: Identities, nonce: Nonces, config: Configs,
          creation: CreationChoices, deletion: DeletionChoices]

\* AuthID, IdentityID and ClientID are set and cleared together: one field.
Reasons == {"", "Ready", "IdentityNotReady", "ConnectionNotReady",
            "ExternalReadFailed", "RemoteAuthMissing", "ExternalCreateFailed",
            "ExternalUpdateFailed", "ClientSecretNotReady"}
Statuses == [identity: Identities \cup {None}, credential: Credentials \cup {None},
             nonce: Nonces \cup {None}, reason: Reasons]
NoStatus == [identity |-> None, credential |-> None, nonce |-> None, reason |-> ""]

Resources == [exists: BOOLEAN, deleting: BOOLEAN, finalizer: BOOLEAN,
              spec: Specs, status: Statuses]

\* The output Secret: `credential` is its client-secret-id annotation, written
\* together with the credential's data.
Secrets  == [exists: BOOLEAN, owner: {"None", "Ours", "Other"},
             credential: Credentials \cup {None}]
NoSecret == [exists |-> FALSE, owner |-> "None", credential |-> None]

\* The states of a client secret in Infisical.  `nonce` and `published` are
\* history: the nonce it was minted for and whether the Secret ever held it.
CredentialStates == {"Unused", "Live", "RotatedOut", "Removed"}
CredentialRecords == [state: CredentialStates, identity: Identities \cup {None},
                      nonce: Nonces \cup {None}, published: BOOLEAN]
Unminted == [state |-> "Unused", identity |-> None, nonce |-> None, published |-> FALSE]

VARIABLES
  secret, secretCache, secretUndelivered,   \* the output Secret
  remoteAuth,     \* identity -> configuration of its Universal Auth, or None
  credential,     \* credential id -> CredentialRecords
  available       \* dependencies that are present and ready

Sec == INSTANCE WatchedObject
         WITH stored <- secret, cached <- secretCache, undelivered <- secretUndelivered

secretVars == <<secret, secretCache, secretUndelivered>>
remoteVars == <<remoteAuth, credential>>
envVars    == <<available, disturbances>>
vars == <<crVars, secretVars, remoteVars, envVars, pc, mem, faults>>

Steps == {"adopt", "attach", "read", "update", "recover", "verify", "mint",
          "publish", "revoke", "persist",
          "deleteRevoke", "deleteDetach", "deleteFinalizer"}

\* What a reconciliation holds in memory: the spec it read, the status it is
\* building, the snapshot the final patch is computed from, the credential it
\* found in the Secret or minted, and whether the copy it read is still the
\* stored version.
Memories == [spec: Specs, status: Statuses, before: Statuses,
             minted: Credentials \cup {None}, current: BOOLEAN]

CRTypeOK     == api \in Resources /\ cache \in Resources /\ undelivered \in Seq(Resources)
SecretTypeOK == secret \in Secrets /\ secretCache \in Secrets
                /\ secretUndelivered \in Seq(Secrets)
RemoteTypeOK == /\ remoteAuth \in [Identities -> Configs \cup {None}]
                /\ credential \in [Credentials -> CredentialRecords]
StepTypeOK   == \/ pc = Idle /\ mem = None
                \/ pc \in Steps /\ mem \in Memories
BoundTypeOK  == available \subseteq Dependencies /\ faults \in Nat /\ disturbances \in Nat
TypeOK == CRTypeOK /\ SecretTypeOK /\ RemoteTypeOK /\ StepTypeOK /\ BoundTypeOK

Init ==
  /\ \E s \in Specs :
       api = [exists |-> TRUE, deleting |-> FALSE, finalizer |-> FALSE,
              spec |-> s, status |-> NoStatus]
  /\ cache = api /\ undelivered = <<>>
  /\ secret = NoSecret /\ secretCache = NoSecret /\ secretUndelivered = <<>>
  /\ remoteAuth \in [Identities -> Configs \cup {None}]
  /\ \A i \in Identities : remoteAuth[i] # None <=> i \in InitiallyAttached
  /\ credential = [c \in Credentials |-> Unminted]
  /\ available = Dependencies
  /\ pc = Idle /\ mem = None
  /\ faults = 0 /\ disturbances = 0

-----------------------------------------------------------------------------
(* Helpers *)

Attached(i) == remoteAuth[i] # None

\* Infisical knows the client secret under this identity and has not revoked it.
Live(c, i) == credential[c].state = "Live" /\ credential[c].identity = i

\* Removing Universal Auth from an identity removes its client secrets.
Detach(i) ==
  /\ remoteAuth' = [remoteAuth EXCEPT ![i] = None]
  /\ credential' = [c \in Credentials |->
       IF Live(c, i) THEN [credential[c] EXCEPT !.state = "Removed"] ELSE credential[c]]

RevokeAs(state, c, i) ==
  credential' = IF Live(c, i) THEN [credential EXCEPT ![c].state = state] ELSE credential

-----------------------------------------------------------------------------
(* Reconcile, up to its first call *)

\* A reconciliation starts from the informer caches; starting while they lag
\* behind the API server is counted as a fault.
ReadCaches ==
  /\ pc = Idle /\ cache.exists
  /\ \/ CR!Current /\ Sec!Current /\ NoFault
     \/ ~(CR!Current /\ Sec!Current) /\ Fault("stale")

\* ensureFinalizer; on a stale copy the Update is refused and nothing changes.
EnsureFinalizer ==
  /\ ReadCaches
  /\ ~cache.deleting /\ cache.spec.deletion = "Delete" /\ ~cache.finalizer
  /\ CR!Current
  /\ CR!Put([api EXCEPT !.finalizer = TRUE])
  /\ EndReconcile
  /\ UNCHANGED <<secretVars, remoteVars, envVars>>

Loaded == [spec |-> cache.spec, status |-> cache.status, before |-> cache.status,
           minted |-> None, current |-> CR!Current]

FirstStep(resource) ==
  IF resource.status.identity # None THEN "read"
  ELSE IF CanAdopt(resource.spec.creation) THEN "adopt" ELSE "attach"

\* Resolve the identity and the connection, then go to the first API call.
BeginReconcile ==
  /\ ReadCaches
  /\ ~cache.deleting /\ (cache.spec.deletion = "Delete" => cache.finalizer)
  /\ \/ /\ {cache.spec.identity, Connection} \subseteq available
        /\ Continue(FirstStep(cache), Loaded)
        /\ UNCHANGED crVars
     \/ /\ cache.spec.identity \notin available
        /\ ReturnError(cache.status, "IdentityNotReady")
     \/ /\ cache.spec.identity \in available /\ Connection \notin available
        /\ ReturnError(cache.status, "ConnectionNotReady")
  /\ UNCHANGED <<secretVars, remoteVars, envVars>>

NothingToDelete(resource) ==
  resource.spec.deletion = "Orphan" \/ resource.status.identity = None

\* reconcileUniversalAuthDeletion; without a usable connection it returns the
\* error and leaves the status alone.
BeginDeletion ==
  /\ ReadCaches
  /\ cache.deleting
  /\ \/ /\ NothingToDelete(cache)
        /\ RemoveFinalizer(CR!Current)
        /\ EndReconcile
     \/ /\ ~NothingToDelete(cache) /\ Connection \in available
        /\ Continue(IF cache.status.credential # None THEN "deleteRevoke" ELSE "deleteDetach",
                    Loaded)
        /\ UNCHANGED crVars
  /\ UNCHANGED <<secretVars, remoteVars, envVars>>

-----------------------------------------------------------------------------
(* Reconcile: the identity's Universal Auth *)

\* A call to Infisical that failed without effect.
CallFails(reason) ==
  /\ Fault("rejected")
  /\ ReturnError(mem.status, reason)
  /\ UNCHANGED remoteVars

\* setUniversalAuthObservedState
Observed(m) == [m EXCEPT !.status.identity = m.spec.identity]

AdoptLookup ==
  /\ pc = "adopt"
  /\ \/ /\ Attached(mem.spec.identity)
        /\ Continue("read", Observed(mem))
        /\ NoFault /\ UNCHANGED <<crVars, remoteVars>>
     \/ /\ ~Attached(mem.spec.identity) /\ CanCreate(mem.spec.creation)
        /\ Continue("attach", mem)
        /\ NoFault /\ UNCHANGED <<crVars, remoteVars>>
     \/ /\ ~Attached(mem.spec.identity) /\ ~CanCreate(mem.spec.creation)
        /\ ReturnError(mem.status, "RemoteAuthMissing")
        /\ NoFault /\ UNCHANGED remoteVars
     \/ CallFails("ExternalReadFailed")
  /\ UNCHANGED <<secretVars, envVars>>

\* Infisical refuses to attach Universal Auth to an identity that has it.
AttachAuth ==
  /\ pc = "attach"
  /\ \/ /\ ~Attached(mem.spec.identity)
        /\ remoteAuth' = [remoteAuth EXCEPT ![mem.spec.identity] = mem.spec.config]
        /\ UNCHANGED credential
        /\ \/ Continue("read", Observed(mem)) /\ NoFault /\ UNCHANGED crVars
           \/ AnswerLost("ExternalCreateFailed")
     \/ /\ Attached(mem.spec.identity)
        /\ ReturnError(mem.status, "ExternalCreateFailed")
        /\ NoFault /\ UNCHANGED remoteVars
     \/ CallFails("ExternalCreateFailed")
  /\ UNCHANGED <<secretVars, envVars>>

\* What ensureUniversalAuthClientSecret decides from the status and the cached
\* Secret, before its first call.
MustRotate(m) ==
  \/ ~secretCache.exists
  \/ m.status.credential = None /\ secretCache.credential = None
  \/ m.status.credential # None /\ m.status.nonce # m.spec.nonce
EnsureClientSecret(m) ==
  \/ MustRotate(m) /\ Continue("mint", m)
  \/ /\ ~MustRotate(m) /\ m.status.credential = None
     /\ Continue("recover", [m EXCEPT !.minted = secretCache.credential])
  \/ /\ ~MustRotate(m) /\ m.status.credential # None
     /\ Continue("verify", m)

\* Mutant: the external id is not reset.
ClearedCondition == [mem.status EXCEPT !.reason = "RemoteAuthMissing"]
ClearedStatus == [NoStatus EXCEPT !.reason = "RemoteAuthMissing"]

ReadAuth ==
  /\ pc = "read"
  /\ \/ /\ Attached(mem.spec.identity)
        /\ IF remoteAuth[mem.spec.identity] # mem.spec.config
           THEN Continue("update", mem)
           ELSE EnsureClientSecret(Observed(mem))
        /\ NoFault /\ UNCHANGED crVars
     \/ /\ ~Attached(mem.spec.identity)
        /\ PatchStatus(mem.status, ClearedStatus)
        /\ EndReconcile
        /\ NoFault
     \/ CallFails("ExternalReadFailed")
  /\ UNCHANGED <<secretVars, remoteVars, envVars>>

UpdateAuth ==
  /\ pc = "update"
  /\ \/ /\ Attached(mem.spec.identity)
        /\ remoteAuth' = [remoteAuth EXCEPT ![mem.spec.identity] = mem.spec.config]
        /\ UNCHANGED credential
        /\ \/ EnsureClientSecret(Observed(mem)) /\ NoFault /\ UNCHANGED crVars
           \/ AnswerLost("ExternalUpdateFailed")
     \/ /\ ~Attached(mem.spec.identity)
        /\ ReturnError(mem.status, "ExternalUpdateFailed")
        /\ NoFault /\ UNCHANGED remoteVars
     \/ CallFails("ExternalUpdateFailed")
  /\ UNCHANGED <<secretVars, envVars>>

-----------------------------------------------------------------------------
(* Reconcile: the client secret *)

\* Mutant: the nonce is taken from the resource as it is by now.
RecordedLatest(m, c) ==
  [m EXCEPT !.status.credential = c, !.status.nonce = api.spec.nonce, !.minted = None]
Recorded(m, c) ==
  [m EXCEPT !.status.credential = c, !.status.nonce = m.spec.nonce, !.minted = None]

\* The status lost the credential's id: take it from the Secret's annotation.
\* A failed read counts as "not recoverable".
RecoverCredential ==
  /\ pc = "recover"
  /\ \/ /\ Live(mem.minted, mem.status.identity)
        /\ Continue("verify", Recorded(mem, mem.minted)) /\ NoFault
     \/ /\ ~Live(mem.minted, mem.status.identity)
        /\ Continue("mint", [mem EXCEPT !.minted = None]) /\ NoFault
     \/ Continue("mint", [mem EXCEPT !.minted = None]) /\ Fault("rejected")
  /\ UNCHANGED <<crVars, secretVars, remoteVars, envVars>>

VerifyCredential ==
  /\ pc = "verify"
  /\ \/ /\ Live(mem.status.credential, mem.status.identity)
        /\ Continue("persist", mem)
        /\ NoFault /\ UNCHANGED <<crVars, remoteVars>>
     \/ /\ ~Live(mem.status.credential, mem.status.identity)
        /\ Continue("mint", mem)
        /\ NoFault /\ UNCHANGED <<crVars, remoteVars>>
     \/ CallFails("ClientSecretNotReady")
  /\ UNCHANGED <<secretVars, envVars>>

\* Mutant: the status is written although the Secret was not.
AfterMintUnpublished(m) == Continue("persist", Recorded(m, m.minted))
AfterMint(m) == Continue("publish", m)

MintCredential ==
  /\ pc = "mint"
  /\ \/ /\ Attached(mem.status.identity)
        /\ \E c \in Credentials :
             /\ credential[c].state = "Unused"
             /\ credential' = [credential EXCEPT ![c] =
                  [state |-> "Live", identity |-> mem.status.identity,
                   nonce |-> mem.spec.nonce, published |-> FALSE]]
             /\ \/ /\ AfterMint([mem EXCEPT !.minted = c])
                   /\ NoFault /\ UNCHANGED crVars
                \/ AnswerLost("ClientSecretNotReady")
        /\ UNCHANGED remoteAuth
     \/ /\ \/ ~Attached(mem.status.identity)
           \/ \A c \in Credentials : credential[c].state # "Unused"
        /\ ReturnError(mem.status, "ClientSecretNotReady")
        /\ NoFault /\ UNCHANGED remoteVars
     \/ CallFails("ClientSecretNotReady")
  /\ UNCHANGED <<secretVars, envVars>>

\* publishUniversalAuthSecret: Create when the cache has no Secret, else Update
\* with the cached resource version; refused when another object controls it.
PublishAccepted ==
  /\ secretCache.owner # "Other"
  /\ IF secretCache.exists THEN Sec!Current ELSE ~secret.exists

\* Mutant: the previous credential is never revoked.
AfterPublishKeeping(m) == Continue("persist", Recorded(m, m.minted))
AfterPublish(m) ==
  IF m.status.credential # None /\ m.status.credential # m.minted
  THEN Continue("revoke", m)
  ELSE Continue("persist", Recorded(m, m.minted))

PublishSecret ==
  /\ pc = "publish"
  /\ \/ /\ PublishAccepted
        /\ Sec!Put([exists |-> TRUE, owner |-> "Ours", credential |-> mem.minted])
        /\ credential' = [credential EXCEPT ![mem.minted].published = TRUE]
        /\ \/ AfterPublish(mem) /\ NoFault /\ UNCHANGED crVars
           \/ AnswerLost("ClientSecretNotReady")
     \/ /\ ~PublishAccepted
        /\ ReturnError(mem.status, "ClientSecretNotReady")
        /\ NoFault /\ UNCHANGED <<secretVars, credential>>
     \/ /\ CallFails("ClientSecretNotReady")
        /\ UNCHANGED secretVars
  /\ UNCHANGED <<remoteAuth, envVars>>

\* Mutant: the wrong one of the two ids.
PreviousMinted(m) == m.minted
Previous(m) == m.status.credential

\* A client secret Infisical does not know counts as revoked.
RevokePrevious ==
  /\ pc = "revoke"
  /\ \/ /\ RevokeAs("RotatedOut", Previous(mem), mem.status.identity)
        /\ UNCHANGED remoteAuth
        /\ \/ /\ Continue("persist", Recorded(mem, mem.minted))
              /\ NoFault /\ UNCHANGED crVars
           \/ AnswerLost("ClientSecretNotReady")
     \/ CallFails("ClientSecretNotReady")
  /\ UNCHANGED <<secretVars, envVars>>

\* Mutant: the snapshot is taken once the calls have filled the status in.
SnapshotLate(m) == m.status
Snapshot(m) == m.before

PersistReady ==
  /\ pc = "persist"
  /\ \/ /\ PatchStatus(Snapshot(mem), [mem.status EXCEPT !.reason = "Ready"])
        /\ NoFault
     \/ Fault("rejected") /\ UNCHANGED crVars
  /\ EndReconcile
  /\ UNCHANGED <<secretVars, remoteVars, envVars>>

-----------------------------------------------------------------------------
(* Deletion *)

\* A failed call of the deletion path is returned; no condition records it.
DeletionCallFails ==
  /\ Fault("rejected") /\ EndReconcile
  /\ UNCHANGED remoteVars

DeleteRevoke ==
  /\ pc = "deleteRevoke"
  /\ \/ /\ RevokeAs("Removed", mem.status.credential, mem.status.identity)
        /\ UNCHANGED remoteAuth
        /\ \/ Continue("deleteDetach", mem) /\ NoFault
           \/ EndReconcile /\ Fault("lost")
     \/ DeletionCallFails
  /\ UNCHANGED <<crVars, secretVars, envVars>>

\* Mutant: an absent Universal Auth is an error.
DetachPresent(i) == Attached(i) /\ Detach(i)
\* An absent Universal Auth counts as deleted.
DetachAny(i) == Detach(i)

DeleteDetach ==
  /\ pc = "deleteDetach"
  /\ \/ /\ DetachAny(mem.status.identity)
        /\ \/ Continue("deleteFinalizer", mem) /\ NoFault
           \/ EndReconcile /\ Fault("lost")
     \/ DeletionCallFails
  /\ UNCHANGED <<crVars, secretVars, envVars>>

DeleteFinalizer ==
  /\ pc = "deleteFinalizer"
  /\ RemoveFinalizer(mem.current)
  /\ EndReconcile
  /\ UNCHANGED <<secretVars, remoteVars, envVars, faults>>

-----------------------------------------------------------------------------
(* Everybody else *)

\* The process stops, or the reconciliation ends on a failed Kubernetes call.
Crash ==
  /\ pc # Idle
  /\ Fault("crash") /\ EndReconcile
  /\ UNCHANGED <<crVars, secretVars, remoteVars, envVars>>

DeliverResource ==
  /\ CR!Deliver
  /\ UNCHANGED <<secretVars, remoteVars, envVars, pc, mem, faults>>
DeliverSecret ==
  /\ Sec!Deliver
  /\ UNCHANGED <<crVars, remoteVars, envVars, pc, mem, faults>>

\* No field of the spec is immutable in the CRD of this kind.
EditSpec ==
  /\ Disturb("spec") /\ api.exists
  /\ \E s \in Specs \ {api.spec} : CR!Put([api EXCEPT !.spec = s])
  /\ OutdateCopy
  /\ UNCHANGED <<secretVars, remoteVars, available>>

DeleteResource ==
  /\ Disturb("delete") /\ api.exists /\ ~api.deleting
  /\ CR!Put([api EXCEPT !.deleting = api.finalizer, !.exists = api.finalizer])
  /\ OutdateCopy
  /\ UNCHANGED <<secretVars, remoteVars, available>>

\* The output Secret is deleted, or created by an owner that is not this resource.
DeleteSecret ==
  /\ Disturb("secret") /\ secret.exists
  /\ Sec!Put(NoSecret)
  /\ UNCHANGED <<crVars, remoteVars, available, mem>>
ClaimSecret ==
  /\ Disturb("claim") /\ ~secret.exists
  /\ Sec!Put([exists |-> TRUE, owner |-> "Other", credential |-> None])
  /\ UNCHANGED <<crVars, remoteVars, available, mem>>

\* Kubernetes collects the Secret whose owner is gone.
CollectSecret ==
  /\ ~api.exists /\ secret.owner = "Ours"
  /\ Sec!Put(NoSecret)
  /\ UNCHANGED <<crVars, remoteVars, envVars, pc, mem, faults>>

\* An Infisical administrator changes what the operator manages.
DetachOutside ==
  /\ Disturb("detach")
  /\ \E i \in Identities : Attached(i) /\ Detach(i)
  /\ UNCHANGED <<crVars, secretVars, available, mem>>
RevokeOutside ==
  /\ Disturb("revoke")
  /\ \E c \in Credentials, i \in Identities : Live(c, i) /\ RevokeAs("Removed", c, i)
  /\ UNCHANGED <<crVars, secretVars, available, mem, remoteAuth>>
ConfigureOutside ==
  /\ Disturb("configure")
  /\ \E i \in Identities, g \in Configs :
       /\ Attached(i) /\ remoteAuth[i] # g
       /\ remoteAuth' = [remoteAuth EXCEPT ![i] = g]
  /\ UNCHANGED <<crVars, secretVars, available, mem, credential>>

\* A dependency disappears or stops being ready; it may come back.
LoseDependency ==
  /\ Disturb("dependency")
  /\ \E d \in available : available' = available \ {d}
  /\ UNCHANGED <<crVars, secretVars, remoteVars, mem>>
RestoreDependency ==
  /\ \E d \in Dependencies \ available : available' = available \cup {d}
  /\ UNCHANGED <<crVars, secretVars, remoteVars, disturbances, pc, mem, faults>>

-----------------------------------------------------------------------------
Reconcile ==
  \/ EnsureFinalizer \/ BeginReconcile \/ BeginDeletion
  \/ AdoptLookup \/ AttachAuth \/ ReadAuth \/ UpdateAuth
  \/ RecoverCredential \/ VerifyCredential \/ MintCredential
  \/ PublishSecret \/ RevokePrevious \/ PersistReady
  \/ DeleteRevoke \/ DeleteDetach \/ DeleteFinalizer

Outside ==
  \/ EditSpec \/ DeleteResource \/ DeleteSecret \/ ClaimSecret \/ CollectSecret
  \/ DetachOutside \/ RevokeOutside \/ ConfigureOutside
  \/ LoseDependency \/ RestoreDependency

Next == Reconcile \/ Crash \/ DeliverResource \/ DeliverSecret \/ Outside

Spec == Init /\ [][Next]_vars

\* Every call that a reconciliation makes returns, an error is retried with
\* backoff, a success is requeued after driftDetectionEvery, and the informers
\* deliver: weak fairness of the controller and of the caches.  Nothing is
\* assumed of users, administrators and faults; a lost dependency comes back.
Fairness ==
  /\ WF_vars(Reconcile)
  /\ WF_vars(DeliverResource) /\ WF_vars(DeliverSecret)
FairSpec == Spec /\ Fairness /\ WF_vars(RestoreDependency)

-----------------------------------------------------------------------------
(* Safety *)

\* A rotation never revokes the credential that the output Secret holds: the
\* replacement is published first (publishUniversalAuthSecret precedes
\* RevokeUniversalAuthClientSecret), whatever fails, crashes or is stale.
PublishedNotRotatedOut ==
  secret.credential # None => credential[secret.credential].state # "RotatedOut"

\* The status only ever names a credential whose one-time plaintext reached the
\* Secret: an id recorded without it could never be published again.
RecordedWasPublished ==
  api.status.credential # None => credential[api.status.credential].published

\* A recorded attachment is not forgotten by deletion: when the resource of
\* policy Delete disappears, its recorded identity has no Universal Auth.  The
\* resource version carried by removeFinalizer protects this against a status
\* or a policy written after the deleting reconciliation read its copy.
DeletionDetachesRecorded ==
  [][ /\ api.exists /\ ~api'.exists
      /\ api.finalizer /\ api.spec.deletion = "Delete"
      /\ api.status.identity # None
      => remoteAuth'[api.status.identity] = None ]_vars

\* Between two reconciliations no credential that the Secret ever held is live but
\* the one that it holds, as long as it is the resource's: a rotation revoked the
\* one it replaced, also when the Secret was deleted or taken over meanwhile
\* (ensureUniversalAuthClientSecret, publishUniversalAuthSecret).
NoStrayCredential ==
  faults = 0 /\ api.exists /\ pc = Idle /\ secret.owner = "Ours" =>
    \A c \in Credentials :
      credential[c].state = "Live" /\ credential[c].published => c = secret.credential

\* A rotation nonce that the status reports as applied was applied: the
\* recorded credential was minted for it.
RotationHonoured ==
  faults = 0 /\ api.exists /\ api.status.credential # None =>
    credential[api.status.credential].nonce = api.status.nonce

NotInError == api.status.reason \in {"", "Ready"}

\* deletionPolicy Delete: nothing is left attached once the resource is gone,
\* whether or not it was recorded in time, if no call failed and the last word of
\* the controller was not an error: one after the attachment drops the identity
\* (universalAuthError, reconcileUniversalAuthDeletion).
DeleteLeavesNothing ==
  /\ faults = 0 /\ NotInError
  /\ ~api.exists /\ api.deleting /\ api.spec.deletion = "Delete"
  => \A i \in Identities : ~Attached(i)

-----------------------------------------------------------------------------
(* The abstract specification that the controller implements *)

Rotation == INSTANCE CredentialRotation
  WITH Credential   <- Credentials,
       NoCredential <- None,
       published    <- secret.credential,
       recorded     <- api.status.credential,
       known        <- {c \in Credentials : credential[c].published},
       retired      <- {c \in Credentials : credential[c].state = "RotatedOut"}

\* What a consumer of the output Secret may rely on holds at every step, under
\* stale caches, crashes, lost answers and outside changes: publish before
\* record and before revoke, and never publish again what was rotated out.
ImplementsRotation == Rotation!Spec

-----------------------------------------------------------------------------
(* Inductive strengthenings of three of the safety properties *)

\* PublishedNotRotatedOut, with what protects it in flight: a credential about
\* to be published has not been rotated out, and one about to be revoked is no
\* longer in the Secret.
RotationInvariant ==
  /\ PublishedNotRotatedOut
  /\ pc = "publish" => mem.minted # None /\ credential[mem.minted].state # "RotatedOut"
  /\ pc = "revoke"  => mem.status.credential # None
                       /\ secret.credential # mem.status.credential

Published(c) == c # None => credential[c].published

FreshUnpublished ==
  \A c \in Credentials : credential[c].state = "Unused" => ~credential[c].published
ResourceNamesPublished ==
  /\ Published(api.status.credential) /\ Published(cache.status.credential)
  /\ \A n \in DOMAIN undelivered : Published(undelivered[n].status.credential)
SecretHoldsPublished ==
  /\ Published(secret.credential) /\ Published(secretCache.credential)
  /\ \A n \in DOMAIN secretUndelivered : Published(secretUndelivered[n].credential)
MemoryNamesPublished ==
  /\ pc # Idle => Published(mem.status.credential)
  /\ pc \in {"recover", "revoke"} => Published(mem.minted)
  /\ pc = "publish" => mem.minted # None /\ credential[mem.minted].state # "Unused"

\* RecordedWasPublished, for every copy of a credential's id: each one that is
\* stored, cached, on its way to a cache or about to be recorded was published.
PublicationInvariant ==
  FreshUnpublished /\ ResourceNamesPublished /\ SecretHoldsPublished /\ MemoryNamesPublished

\* What lets removeFinalizer trust the copy it carries: the newest version on
\* its way to the cache is the stored one, a current copy equals it, and the
\* step that removes the finalizer comes after the detachment.
DeletionInvariant ==
  /\ CacheFollows
  /\ pc # Idle /\ mem.current => mem.spec = api.spec /\ mem.before = api.status
  /\ pc \in {"deleteRevoke", "deleteDetach", "deleteFinalizer"} =>
       mem.status = mem.before /\ mem.status.identity # None
  /\ pc = "deleteFinalizer" => remoteAuth[mem.status.identity] = None

-----------------------------------------------------------------------------
(* Liveness *)

Healthy ==
  /\ api.status.reason = "Ready"
  /\ secret.exists /\ secret.credential # None
  /\ Live(secret.credential, api.spec.identity)
  /\ remoteAuth[api.spec.identity] = api.spec.config

\* ensureUniversalAuthClientSecret (lines 280-289) verifies the recorded credential
\* only.  While that one is live, the Secret may hold another one, published by a
\* rotation that failed before it was recorded, and nobody notices when an
\* administrator revokes it.
Overlooked ==
  /\ secret.exists /\ api.status.credential \notin {None, secret.credential}
  /\ Live(api.status.credential, api.spec.identity)
  /\ api.status.nonce = api.spec.nonce

\* With CreateOrAdopt the controller gets back to a published, usable credential,
\* whatever happened a bounded number of times: it is Ready with a live credential
\* of the declared identity in the Secret.  Two cases are excepted: a credential
\* that is overlooked, and a Secret that another owner has claimed.
EventuallyHealthy ==
  <>[](api.exists /\ ~api.deleting /\ ~Overlooked /\ secret.owner # "Other" => Healthy)

\* A deletion finishes once the dependencies are back.
DeletionCompletes == [](api.deleting => <>~api.exists)
=============================================================================
