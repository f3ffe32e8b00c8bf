----------------------------- MODULE Controller -----------------------------
(***************************************************************************)
(* What the controllers of the operator share: the custom resource that is *)
(* followed, the informer cache it is read from, the reconciliation in     *)
(* progress and the ways it writes back.                                   *)
(* Source: internal/controller/infisical/common.go.                        *)
(*                                                                         *)
(* A resource is a record with at least the fields exists, deleting,       *)
(* finalizer, spec and status; each controller says which specs and        *)
(* statuses its kind has.                                                  *)
(***************************************************************************)
EXTENDS Naturals, Sequences

CONSTANTS
  Disturbances,       \* kinds of outside actions considered
  FaultKinds,         \* kinds of faults considered
  MaxDisturbances,    \* bound on the number of outside actions
  MaxFaults,          \* bound on the number of faults
  None                \* the empty id ""

ASSUME BoundsAssumption == MaxDisturbances \in Nat /\ MaxFaults \in Nat

VARIABLES
  api, cache, undelivered,   \* the custom resource
  pc, mem,                   \* the reconciliation in progress
  faults, disturbances       \* how many of them happened

CR == INSTANCE WatchedObject
        WITH stored <- api, cached <- cache, undelivered <- undelivered

crVars == <<api, cache, undelivered>>

CreationPolicies == {"Create", "Adopt", "CreateOrAdopt"}
DeletionPolicies == {"Orphan", "Delete"}

\* Mutant: CreateOrAdopt does not look for what exists.
CanAdoptOnly(policy) == policy = "Adopt"
CanAdopt(policy)  == policy \in {"Adopt", "CreateOrAdopt"}
CanCreate(policy) == policy \in {"Create", "CreateOrAdopt"}

\* Between two reconciliations there is no memory.
Idle == "idle"

Continue(step, m) == pc' = step /\ mem' = m

\* Mutant: the next reconciliation inherits the memory of this one.
EndKeepingMemory == pc' = Idle /\ UNCHANGED mem
EndReconcile     == pc' = Idle /\ mem' = None

\* persistStatus sends the difference between two in-memory copies, with no
\* resource version: fields equal in both keep their stored value.
MergePatch(stored, before, after) ==
  [f \in DOMAIN stored |-> IF before[f] = after[f] THEN stored[f] ELSE after[f]]

\* A status patch of a resource that is gone is answered "not found".
PatchStatus(before, after) ==
  IF api.exists
  THEN CR!Put([api EXCEPT !.status = MergePatch(@, before, after)])
  ELSE UNCHANGED crVars

\* The error handler of a controller: the patch is the difference to the
\* status built so far, so it carries the condition and nothing else.
ReturnError(status, reason) ==
  /\ PatchStatus(status, [status EXCEPT !.reason = reason])
  /\ EndReconcile

WithoutFinalizer(resource) ==
  [resource EXCEPT !.finalizer = FALSE, !.exists = ~resource.deleting]

\* Mutant: a forced update, without the resource version.
RemoveFinalizerForced(current) ==
  IF api.finalizer THEN CR!Put(WithoutFinalizer(api)) ELSE UNCHANGED crVars

\* removeFinalizer is an Update: refused unless the copy read is still current.
RemoveFinalizer(current) ==
  IF current /\ api.finalizer
  THEN CR!Put(WithoutFinalizer(api))
  ELSE UNCHANGED crVars

\* The newest version on its way to the cache is the stored one.
CacheFollows == api = IF undelivered = <<>> THEN cache ELSE undelivered[Len(undelivered)]

-----------------------------------------------------------------------------
(* Faults and outside actions, bounded in number *)

Fault(kind) ==
  /\ kind \in FaultKinds /\ faults < MaxFaults
  /\ faults' = faults + 1
NoFault == UNCHANGED faults

\* A call to Infisical whose effect happened but whose answer was lost.
AnswerLost(reason) ==
  /\ Fault("lost")
  /\ ReturnError(mem.status, reason)

Disturb(kind) ==
  /\ kind \in Disturbances /\ disturbances < MaxDisturbances
  /\ disturbances' = disturbances + 1
  /\ UNCHANGED <<pc, faults>>

\* A write by somebody else: the copy that a running reconciliation has read is
\* no longer the stored version.
OutdateCopy == mem' = IF pc = Idle THEN mem ELSE [mem EXCEPT !.current = FALSE]
=============================================================================
