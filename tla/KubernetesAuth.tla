--------------------------- MODULE KubernetesAuth ---------------------------
(***************************************************************************)
(* InfisicalKubernetesAuthReconciler: attaches Kubernetes Auth to the      *)
(* identity that an InfisicalIdentity shows, or adopts what is attached,   *)
(* keeps its fields and its reviewer token as declared, and detaches it    *)
(* with the resource if asked to.                                          *)
(* Source: infisicalkubernetesauth_controller.go, with the calls it makes  *)
(* in internal/infisicalclient/kubernetesauth.go.                          *)
(*                                                                         *)
(* Every call names an identity, never the auth method: Infisical has at   *)
(* most one Kubernetes Auth per identity.  As in UniversalAuth, one        *)
(* resource is followed and a reconciliation is a sequence of steps, one   *)
(* per call.                                                               *)
(***************************************************************************)
EXTENDS Controller

CONSTANTS
  AuthIDs,            \* ids of auth methods; once all are taken, attaching is refused
  InitiallyAttached,  \* auth methods attached before the operator acts
  Identities,         \* external ids that the referenced InfisicalIdentity may show
  Configs,            \* values of the fields that do not come from a Secret
  DeclaredConfigs,    \* those that a spec declares
  Tokens,             \* contents of the referenced Secret
  CreationChoices,    \* creation policies considered
  DeletionChoices     \* deletion policies considered

ASSUME ConstantsAssumption ==
  /\ None \notin AuthIDs \cup Identities \cup Configs \cup Tokens
  /\ InitiallyAttached \subseteq AuthIDs /\ DeclaredConfigs \subseteq Configs
  /\ CreationChoices \subseteq CreationPolicies
  /\ DeletionChoices \subseteq DeletionPolicies

\* `reviewer`: tokenReviewerJWTSecretRef (or caCertSecretRef) is set.
Specs == [config: DeclaredConfigs, reviewer: BOOLEAN,
          creation: CreationChoices, deletion: DeletionChoices]

Reasons == {"", "Ready", "IdentityNotReady", "ConnectionNotReady", "ExternalReadFailed",
            "SecretNotReady", "CreationNotAllowed", "ExternalCreateFailed",
            "RemoteKubernetesAuthMissing", "ExternalUpdateFailed"}
Statuses == [auth: AuthIDs \cup {None}, identity: Identities \cup {None}, reason: Reasons]
NoStatus == [auth |-> None, identity |-> None, reason |-> ""]

Resources == [exists: BOOLEAN, deleting: BOOLEAN, finalizer: BOOLEAN,
              spec: Specs, status: Statuses]

AuthRecords == [state: {"Unused", "Attached", "Detached"}, identity: Identities \cup {None},
                config: Configs \cup {None}, token: Tokens \cup {None}]
Unused == [state |-> "Unused", identity |-> None, config |-> None, token |-> None]

VARIABLES
  remote,      \* auth id -> AuthRecords
  identity,    \* the id that the referenced InfisicalIdentity shows, or None
  secret,      \* the content of the referenced Secret, or None if it is missing or empty
  connected    \* whether the connection is ready

authVars == <<identity, secret, connected, disturbances>>
vars     == <<crVars, remote, authVars, pc, mem, faults>>

Steps == {"adopt", "create", "read", "update", "persist", "delete", "deleteFinalizer"}

\* As in UniversalAuth; `anchor` is the identity resolved at the start, `token`
\* the content of the Secret when it was read.
Memories == [spec: Specs, status: Statuses, before: Statuses, current: BOOLEAN,
             anchor: Identities \cup {None}, token: Tokens \cup {None}]

TypeOK ==
  /\ api \in Resources /\ cache \in Resources /\ undelivered \in Seq(Resources)
  /\ remote \in [AuthIDs -> AuthRecords]
  /\ \/ pc = Idle /\ mem = None
     \/ pc \in Steps /\ mem \in Memories
  /\ identity \in Identities \cup {None} /\ secret \in Tokens \cup {None}
  /\ connected \in BOOLEAN
  /\ faults \in Nat /\ disturbances \in Nat

Attached(a)   == remote[a].state = "Attached"
AttachedTo(i) == {a \in AuthIDs : Attached(a) /\ remote[a].identity = i}

\* An id is never used twice; which one comes next does not matter.
Fresh   == {a \in AuthIDs : remote[a].state = "Unused"}
FreshID == CHOOSE a \in Fresh : TRUE
Attach(a, i, config, token) ==
  remote' = [remote EXCEPT ![a] = [state |-> "Attached", identity |-> i,
                                   config |-> config, token |-> token]]

Init ==
  /\ \E s \in Specs :
       api = [exists |-> TRUE, deleting |-> FALSE, finalizer |-> FALSE,
              spec |-> s, status |-> NoStatus]
  /\ cache = api /\ undelivered = <<>>
  /\ \E i \in [InitiallyAttached -> Identities], g \in [InitiallyAttached -> Configs] :
       /\ \A a, b \in InitiallyAttached : i[a] = i[b] => a = b
       /\ remote = [a \in AuthIDs |->
            IF a \in InitiallyAttached
            THEN [state |-> "Attached", identity |-> i[a], config |-> g[a], token |-> None]
            ELSE Unused]
  /\ identity \in Identities /\ secret \in Tokens /\ connected = TRUE
  /\ pc = Idle /\ mem = None
  /\ faults = 0 /\ disturbances = 0

-----------------------------------------------------------------------------
(* Reconcile, up to its first call *)

ReadCache ==
  /\ pc = Idle /\ cache.exists
  /\ IF CR!Current THEN NoFault ELSE Fault("stale")

EnsureFinalizer ==
  /\ ReadCache
  /\ ~cache.deleting /\ cache.spec.deletion = "Delete" /\ ~cache.finalizer
  /\ CR!Current
  /\ CR!Put([api EXCEPT !.finalizer = TRUE])
  /\ EndReconcile
  /\ UNCHANGED <<remote, authVars>>

Loaded == [spec |-> cache.spec, status |-> cache.status, before |-> cache.status,
           current |-> CR!Current, anchor |-> identity, token |-> None]

\* kubernetesAuthSecrets comes after the adoption and before the creation: a
\* Secret that is missing ends the reconciliation and an adopted id is dropped.
ResolveSecrets(m) ==
  \/ m.spec.reviewer /\ secret = None /\ ReturnError(m.status, "SecretNotReady")
  \/ /\ m.spec.reviewer => secret # None
     /\ IF m.status.auth = None /\ ~CanCreate(m.spec.creation)
        THEN ReturnError(m.status, "CreationNotAllowed")
        ELSE /\ Continue(IF m.status.auth = None THEN "create" ELSE "read",
                         [m EXCEPT !.token = IF m.spec.reviewer THEN secret ELSE None])
             /\ UNCHANGED crVars

BeginReconcile ==
  /\ ReadCache
  /\ ~cache.deleting /\ (cache.spec.deletion = "Delete" => cache.finalizer)
  /\ \/ identity = None /\ ReturnError(cache.status, "IdentityNotReady")
     \/ identity # None /\ ~connected /\ ReturnError(cache.status, "ConnectionNotReady")
     \/ /\ identity # None /\ connected
        /\ IF cache.status.auth = None /\ CanAdopt(cache.spec.creation)
           THEN Continue("adopt", Loaded) /\ UNCHANGED crVars
           ELSE ResolveSecrets(Loaded)
  /\ UNCHANGED <<remote, authVars>>

\* It is the recorded identity, not the recorded auth, that calls for a deletion.
NothingToDelete(resource) ==
  resource.spec.deletion = "Orphan" \/ resource.status.identity = None

BeginDeletion ==
  /\ ReadCache
  /\ cache.deleting
  /\ \/ /\ NothingToDelete(cache)
        /\ RemoveFinalizer(CR!Current)
        /\ EndReconcile
     \/ /\ ~NothingToDelete(cache) /\ connected
        /\ Continue("delete", Loaded)
        /\ UNCHANGED crVars
  /\ UNCHANGED <<remote, authVars>>

-----------------------------------------------------------------------------
(* Reconcile: the calls to Infisical *)

\* A call that failed without effect.
CallFails(reason) ==
  /\ Fault("rejected")
  /\ ReturnError(mem.status, reason)
  /\ UNCHANGED remote

\* A failure that the state of Infisical decides.
Refused(reason) ==
  /\ ReturnError(mem.status, reason)
  /\ NoFault /\ UNCHANGED remote

\* Mutant: the identity is recorded once and kept.
ObservedFirst(a) ==
  [mem.status EXCEPT !.auth = a, !.identity = IF @ = None THEN mem.anchor ELSE @]
\* setKubernetesAuthObservedState
Observed(a) == [mem.status EXCEPT !.auth = a, !.identity = mem.anchor]

Adopt ==
  /\ pc = "adopt"
  /\ \/ /\ \/ \E a \in AttachedTo(mem.anchor) : ResolveSecrets([mem EXCEPT !.status = Observed(a)])
           \/ AttachedTo(mem.anchor) = {} /\ ResolveSecrets(mem)
        /\ NoFault /\ UNCHANGED remote
     \/ CallFails("ExternalReadFailed")
  /\ UNCHANGED authVars

\* Infisical refuses a second Kubernetes Auth on an identity.
AttachAuth ==
  /\ pc = "create"
  /\ \/ /\ AttachedTo(mem.anchor) = {} /\ Fresh # {}
        /\ Attach(FreshID, mem.anchor, mem.spec.config, mem.token)
        /\ \/ /\ Continue("read", [mem EXCEPT !.status = Observed(FreshID)])
              /\ NoFault /\ UNCHANGED crVars
           \/ AnswerLost("ExternalCreateFailed")
     \/ /\ AttachedTo(mem.anchor) # {} \/ Fresh = {}
        /\ Refused("ExternalCreateFailed")
     \/ CallFails("ExternalCreateFailed")
  /\ UNCHANGED authVars

\* Mutant: a rotated token is not seen.
NeedsUpdateButToken(a) == remote[a].config # mem.spec.config
\* kubernetesAuthNeedsUpdate: a token that no Secret declares is left alone.
NeedsUpdate(a) ==
  \/ remote[a].config # mem.spec.config
  \/ mem.spec.reviewer /\ remote[a].token # mem.token

\* Only the id of the auth method is reset, the identity stays.
ClearedStatus == [mem.status EXCEPT !.auth = None, !.reason = "RemoteKubernetesAuthMissing"]

\* Whatever is attached to the identity is taken, whichever id was recorded.
ReadAuth ==
  /\ pc = "read"
  /\ \/ /\ \E a \in AttachedTo(mem.anchor) :
             Continue(IF NeedsUpdate(a) THEN "update" ELSE "persist",
                      [mem EXCEPT !.status = Observed(a)])
        /\ NoFault /\ UNCHANGED <<crVars, remote>>
     \/ /\ AttachedTo(mem.anchor) = {}
        /\ PatchStatus(mem.status, ClearedStatus)
        /\ EndReconcile
        /\ NoFault /\ UNCHANGED remote
     \/ CallFails("ExternalReadFailed")
  /\ UNCHANGED authVars

\* kubernetesAuthPatchFrom
Patched(auth) == [auth EXCEPT !.config = mem.spec.config,
                              !.token = IF mem.spec.reviewer THEN mem.token ELSE @]

UpdateAuth ==
  /\ pc = "update"
  /\ \/ \E a \in AttachedTo(mem.anchor) :
          /\ remote' = [remote EXCEPT ![a] = Patched(@)]
          /\ \/ /\ Continue("persist", [mem EXCEPT !.status = Observed(a)])
                /\ NoFault /\ UNCHANGED crVars
             \/ AnswerLost("ExternalUpdateFailed")
     \/ AttachedTo(mem.anchor) = {} /\ Refused("ExternalUpdateFailed")
     \/ CallFails("ExternalUpdateFailed")
  /\ UNCHANGED authVars

PersistReady ==
  /\ pc = "persist"
  /\ \/ PatchStatus(mem.before, [mem.status EXCEPT !.reason = "Ready"]) /\ NoFault
     \/ Fault("rejected") /\ UNCHANGED crVars
  /\ EndReconcile
  /\ UNCHANGED <<remote, authVars>>

-----------------------------------------------------------------------------
(* Deletion *)

\* Mutant: the identity that the reference shows now.
DeletionIdentityNow(status) == mem.anchor
\* The method is detached from the identity recorded with it.
DeletionIdentity(status) == status.identity

\* Mutant: an identity without Kubernetes Auth is an error.
DeletedOnly(answer) == answer = "ok"
CountsAsDeleted(answer) == answer \in {"ok", "not found"}

\* Errors are returned and no condition records them.
DetachAuth ==
  /\ pc = "delete"
  /\ LET there  == AttachedTo(DeletionIdentity(mem.status))
         answer == IF there = {} THEN "not found" ELSE "ok"
     IN  \/ /\ remote' = [a \in AuthIDs |-> IF a \in there
                            THEN [remote[a] EXCEPT !.state = "Detached"] ELSE remote[a]]
            /\ \/ /\ IF CountsAsDeleted(answer)
                     THEN Continue("deleteFinalizer", mem) ELSE EndReconcile
                  /\ NoFault
               \/ EndReconcile /\ Fault("lost")
         \/ EndReconcile /\ Fault("rejected") /\ UNCHANGED remote
  /\ UNCHANGED <<crVars, authVars>>

DeleteFinalizer ==
  /\ pc = "deleteFinalizer"
  /\ RemoveFinalizer(mem.current)
  /\ EndReconcile
  /\ UNCHANGED <<remote, authVars, faults>>

-----------------------------------------------------------------------------
(* Everybody else *)

Crash ==
  /\ pc # Idle
  /\ Fault("crash") /\ EndReconcile
  /\ UNCHANGED <<crVars, remote, authVars>>

DeliverResource ==
  /\ CR!Deliver
  /\ UNCHANGED <<remote, authVars, pc, mem, faults>>

\* The two references are immutable, everything else may change.
EditSpec ==
  /\ Disturb("spec") /\ api.exists
  /\ \E s \in Specs \ {api.spec} : CR!Put([api EXCEPT !.spec = s])
  /\ OutdateCopy
  /\ UNCHANGED <<remote, identity, secret, connected>>

DeleteResource ==
  /\ Disturb("delete") /\ api.exists /\ ~api.deleting
  /\ CR!Put([api EXCEPT !.deleting = api.finalizer, !.exists = api.finalizer])
  /\ OutdateCopy
  /\ UNCHANGED <<remote, identity, secret, connected>>

\* An administrator of Infisical detaches, attaches or configures a method.
DetachOutside ==
  /\ Disturb("detach")
  /\ \E a \in AuthIDs : Attached(a) /\ remote' = [remote EXCEPT ![a].state = "Detached"]
  /\ UNCHANGED <<crVars, identity, secret, connected, mem>>
AttachOutside ==
  /\ Disturb("attach")
  /\ Fresh # {}
  /\ \E i \in Identities, g \in Configs :
       AttachedTo(i) = {} /\ Attach(FreshID, i, g, None)
  /\ UNCHANGED <<crVars, identity, secret, connected, mem>>
ConfigureOutside ==
  /\ Disturb("configure")
  /\ \E a \in AuthIDs, g \in Configs :
       Attached(a) /\ remote[a].config # g /\ remote' = [remote EXCEPT ![a].config = g]
  /\ UNCHANGED <<crVars, identity, secret, connected, mem>>

\* The identity resource loses its id or shows another one; the Secret is
\* rotated, emptied or removed; the connection is lost.
ChangeIdentity ==
  /\ Disturb("identity")
  /\ \E i \in (Identities \cup {None}) \ {identity} : identity' = i
  /\ UNCHANGED <<crVars, remote, secret, connected, mem>>
RotateSecret ==
  /\ Disturb("secret")
  /\ \E t \in (Tokens \cup {None}) \ {secret} : secret' = t
  /\ UNCHANGED <<crVars, remote, identity, connected, mem>>
LoseConnection ==
  /\ Disturb("connection")
  /\ connected /\ connected' = FALSE
  /\ UNCHANGED <<crVars, remote, identity, secret, mem>>
RestoreDependency ==
  /\ \/ identity = None /\ identity' \in Identities /\ UNCHANGED <<secret, connected>>
     \/ secret = None /\ secret' \in Tokens /\ UNCHANGED <<identity, connected>>
     \/ ~connected /\ connected' = TRUE /\ UNCHANGED <<identity, secret>>
  /\ UNCHANGED <<crVars, remote, disturbances, pc, mem, faults>>

-----------------------------------------------------------------------------
Reconcile ==
  \/ EnsureFinalizer \/ BeginReconcile \/ BeginDeletion
  \/ Adopt \/ AttachAuth \/ ReadAuth \/ UpdateAuth \/ PersistReady
  \/ DetachAuth \/ DeleteFinalizer

Outside ==
  \/ EditSpec \/ DeleteResource \/ DetachOutside \/ AttachOutside \/ ConfigureOutside
  \/ ChangeIdentity \/ RotateSecret \/ LoseConnection \/ RestoreDependency

Next == Reconcile \/ Crash \/ DeliverResource \/ Outside

Spec == Init /\ [][Next]_vars

\* As in UniversalAuth: weak fairness of the controller, of its cache and of
\* the return of dependencies; nothing is assumed of users and faults.
FairSpec == Spec /\ WF_vars(Reconcile) /\ WF_vars(DeliverResource) /\ WF_vars(RestoreDependency)

-----------------------------------------------------------------------------
(* Safety *)

\* The two ids in the status belong together: a deletion addresses the method by
\* the identity recorded beside it.
RecordedOnItsIdentity ==
  api.status.auth # None => remote[api.status.auth].identity = api.status.identity

\* The stored status no longer has the ids that the reconciliation started from.
Overtaken ==
  \/ mem.before.auth # api.status.auth
  \/ mem.before.identity # api.status.identity

\* They are not torn apart although the identity shown is replaced, the clearing
\* of a vanished method keeps the identity, and the two are written by merge
\* patches (setKubernetesAuthObservedState,
\* infisicalkubernetesauth_controller.go:116-126); but for one case: the last
\* patch of a reconciliation from a stale copy sends what differs from that copy,
\* one id or the other, and may leave it beside one recorded meanwhile.
RecordsTogether ==
  [][ RecordedOnItsIdentity /\ ~RecordedOnItsIdentity' => pc = "persist" /\ Overtaken ]_vars

\* deletionPolicy Delete: when the resource is gone the recorded method is
\* detached, also when the reference has come to show another identity.  A record
\* torn apart by a stale copy, and not mended before the deletion, is excepted.
DeletionDetachesRecorded ==
  [][ /\ api.exists /\ ~api'.exists
      /\ api.finalizer /\ api.spec.deletion = "Delete" /\ api.status.auth # None
      /\ RecordedOnItsIdentity
      => remote'[api.status.auth].state # "Attached" ]_vars

-----------------------------------------------------------------------------
(* Liveness *)

AsDeclared ==
  LET a == api.status.auth
  IN  /\ api.status.reason = "Ready" /\ a # None /\ api.status.identity = identity
      /\ Attached(a) /\ remote[a].identity = identity
      /\ remote[a].config = api.spec.config
      /\ api.spec.reviewer => remote[a].token = secret

\* A detached method is attached again, drift is undone, a Secret rotated or
\* restored at any moment reaches Infisical, and a replaced identity gets its
\* method, unless the policy is Adopt and there is none (Reconcile).  The recorded
\* ids are those of that method in the end: a torn record is mended.
NoneToAdopt == api.spec.creation = "Adopt" /\ AttachedTo(identity) = {}
EventuallyAsDeclared ==
  <>[](api.exists /\ ~api.deleting /\ CanAdopt(api.spec.creation) => AsDeclared \/ NoneToAdopt)

\* A deletion ends although the identity, its method or the Secret is lost
\* meanwhile (reconcileKubernetesAuthDeletion needs only the connection).
DeletionCompletes == api.deleting ~> ~api.exists
=============================================================================
