----------------------------- MODULE Connection -----------------------------
(***************************************************************************)
(* InfisicalConnectionReconciler, which reports whether a connection can   *)
(* be used, and the HTTP client that every reconciliation builds from the  *)
(* connection and its Secret, with the access token that it caches.        *)
(* Source: infisicalconnection_controller.go, infisicalClientForConnection *)
(* in common.go and bearerToken in internal/infisicalclient/client.go.     *)
(*                                                                         *)
(* A client lives for one reconciliation: that of the connection, with one *)
(* call, or that of a resource which uses the connection, with several.    *)
(* Time is counted in ticks, on the clock of Infisical (`left`) and on     *)
(* that of the client (`refreshIn`).                                       *)
(***************************************************************************)
EXTENDS Controller, Integers

CONSTANTS
  Credentials,   \* what the Secret may hold: tokens, or client ids with secrets
  Lifetimes,     \* lifetimes of the access tokens that Infisical issues
  MaxSkew,       \* 30 seconds before the expiry
  Timeout,       \* requestTimeout
  MaxCalls,      \* bound on the calls of a reconciliation
  MaxOverdue     \* bound on how long an expired token is followed

ASSUME ConstantsAssumption ==
  /\ None \notin Credentials
  /\ Lifetimes \subseteq Int
  /\ MaxSkew \in Nat /\ Timeout \in Nat /\ MaxCalls \in Nat \ {0} /\ MaxOverdue \in Nat

\* `valid` stands for the checks that the CRD leaves to the controller.
Kinds == {"Bearer", "UniversalAuth"}
Specs == [kind: Kinds, valid: BOOLEAN]

Reasons    == {"", "Ready", "ConnectionUnavailable", "ConfigurationInvalid"}
Conditions == [reason: Reasons, generation: Nat]
Statuses   == [condition: Conditions]
NoStatus   == [condition |-> [reason |-> "", generation |-> 0]]

Resources == [exists: BOOLEAN, generation: Nat, spec: Specs, status: Statuses]

VARIABLES
  secret,     \* the credential in the referenced Secret, or None
  accepted,   \* the credentials that Infisical accepts
  client      \* the access token that the client of this reconciliation holds

envVars == <<secret, accepted, disturbances>>
vars    == <<crVars, client, envVars, pc, mem, faults>>

Steps == {"build", "secondKey", "token", "login", "answer", "request", "persist"}
Roles == {"Connection", "Consumer"}

\* A reconciliation in progress: the generation that was read, the status to
\* compare with, the Secret as its keys were read, and the calls still to make.
Memories == [role: Roles, generation: Nat, before: Statuses, kind: Kinds,
             first: Credentials \cup {None}, second: Credentials \cup {None},
             calls: 0..MaxCalls]

\* `latency` is what the answer to the login took after the token was issued.
Clients == [held: BOOLEAN, lifetime: Int, latency: Nat, left: Int, refreshIn: Int]
Issued(v) == [held |-> FALSE, lifetime |-> v, latency |-> 0, left |-> v, refreshIn |-> 0]
NewClient == Issued(0)

TypeOK ==
  /\ api \in Resources /\ cache \in Resources /\ undelivered \in Seq(Resources)
  /\ secret \in Credentials \cup {None} /\ accepted \subseteq Credentials
  /\ client \in Clients
  /\ \/ pc = Idle /\ mem = None
     \/ pc \in Steps /\ mem \in Memories
  /\ faults \in Nat /\ disturbances \in Nat

Init ==
  /\ \E s \in Specs :
       api = [exists |-> TRUE, generation |-> 1, spec |-> s, status |-> NoStatus]
  /\ cache = api /\ undelivered = <<>>
  /\ secret \in Credentials \cup {None} /\ accepted = Credentials
  /\ client = NewClient
  /\ pc = Idle /\ mem = None
  /\ faults = 0 /\ disturbances = 0

-----------------------------------------------------------------------------
(* The two kinds of reconciliation *)

ReadCache ==
  /\ pc = Idle /\ cache.exists
  /\ IF CR!Current THEN NoFault ELSE Fault("stale")

Started(role, calls) ==
  [role |-> role, generation |-> cache.generation, before |-> cache.status,
   kind |-> cache.spec.kind, first |-> None, second |-> None, calls |-> calls]

\* setCondition and persistStatus
Report(m, reason) ==
  PatchStatus(m.before, [condition |-> [reason |-> reason, generation |-> m.generation]])

BeginReconcile ==
  /\ ReadCache
  /\ IF cache.spec.valid
     THEN Continue("build", Started("Connection", 1)) /\ UNCHANGED crVars
     ELSE Report(Started("Connection", 1), "ConfigurationInvalid") /\ EndReconcile
  /\ UNCHANGED <<client, envVars>>

BeginConsumer ==
  /\ ReadCache
  /\ \E n \in 1..MaxCalls : Continue("build", Started("Consumer", n))
  /\ UNCHANGED <<crVars, client, envVars>>

\* Mutant: the client is kept for the next reconciliation.
DropNothing == EndReconcile /\ UNCHANGED client
\* The client is dropped with the reconciliation.
Drop == EndReconcile /\ client' = NewClient

\* A consumer reports its own failure, on its own resource.
Fails ==
  /\ IF mem.role = "Connection" THEN Report(mem, "ConnectionUnavailable") ELSE UNCHANGED crVars
  /\ Drop

-----------------------------------------------------------------------------
(* infisicalClientForConnection *)

\* The connection is read again: by now the cache may hold a later one.
Usable == cache.exists /\ cache.spec.valid

BuildClient ==
  /\ pc = "build"
  /\ \/ /\ Usable /\ secret # None
        /\ Continue(IF cache.spec.kind = "Bearer" THEN "token" ELSE "secondKey",
                    [mem EXCEPT !.kind = cache.spec.kind, !.first = secret])
        /\ UNCHANGED <<crVars, client>>
     \/ (~Usable \/ secret = None) /\ Fails
  /\ NoFault /\ UNCHANGED envVars

\* clientId and clientSecret come from two reads of the Secret.
ReadSecondKey ==
  /\ pc = "secondKey"
  /\ \/ secret # None /\ Continue("token", [mem EXCEPT !.second = secret])
        /\ UNCHANGED <<crVars, client>>
     \/ secret = None /\ Fails
  /\ NoFault /\ UNCHANGED envVars

-----------------------------------------------------------------------------
(* bearerToken, once per call *)

\* Mutant: a token is kept until its last moment.
NoSkew(lifetime) == 0
\* Refresh before the server-side expiry.
Skew(lifetime) ==
  IF lifetime > MaxSkew THEN MaxSkew ELSE IF lifetime > 0 THEN lifetime \div 2 ELSE 0

Cached == client.held /\ client.refreshIn > 0

ChooseToken ==
  /\ pc = "token"
  /\ Continue(IF mem.kind = "Bearer" \/ Cached THEN "request" ELSE "login", mem)
  /\ NoFault /\ UNCHANGED <<crVars, client, envVars>>

LoginAccepted == mem.first = mem.second /\ mem.first \in accepted

Login ==
  /\ pc = "login"
  /\ \/ /\ LoginAccepted
        /\ \E v \in Lifetimes : client' = Issued(v)
        /\ Continue("answer", mem) /\ NoFault /\ UNCHANGED crVars
     \/ ~LoginAccepted /\ Fails /\ NoFault
     \/ Fails /\ Fault("rejected")
  /\ UNCHANGED envVars

ReceiveToken ==
  /\ pc = "answer"
  /\ \/ /\ client' = [client EXCEPT !.held = TRUE,
                                    !.refreshIn = client.lifetime - Skew(client.lifetime)]
        /\ Continue("request", mem) /\ NoFault /\ UNCHANGED crVars
     \/ Fails /\ Fault("lost")
  /\ UNCHANGED envVars

\* Infisical takes a bearer token as long as it is accepted, an access token
\* until it expires.  A refused one is not replaced within the reconciliation.
Served == IF mem.kind = "Bearer" THEN mem.first \in accepted ELSE client.left > 0

Request ==
  /\ pc = "request"
  /\ \/ /\ Served /\ NoFault
        /\ \/ /\ mem.calls > 1
              /\ Continue("token", [mem EXCEPT !.calls = @ - 1]) /\ UNCHANGED client
           \/ /\ mem.calls <= 1
              /\ IF mem.role = "Connection"
                 THEN Continue("persist", mem) /\ UNCHANGED client
                 ELSE Drop
        /\ UNCHANGED crVars
     \/ ~Served /\ Fails /\ NoFault
     \/ Fails /\ Fault("rejected")
  /\ UNCHANGED envVars

PersistReady ==
  /\ pc = "persist"
  /\ \/ Report(mem, "Ready") /\ NoFault
     \/ Fault("rejected") /\ UNCHANGED crVars
  /\ Drop
  /\ UNCHANGED envVars

-----------------------------------------------------------------------------
(* Everybody else *)

Crash ==
  /\ pc # Idle
  /\ Fault("crash") /\ Drop
  /\ UNCHANGED <<crVars, envVars>>

\* Time passes between two calls; while a call is under way it is a fault.
PassTime ==
  /\ \/ /\ pc = "token" /\ client.held /\ NoFault
     \/ /\ pc = "request" /\ client.held /\ Fault("slow")
  /\ client.left > -MaxOverdue
  /\ client' = [client EXCEPT !.left = @ - 1, !.refreshIn = @ - 1]
  /\ UNCHANGED <<crVars, envVars, pc, mem>>
PassTimeInLogin ==
  /\ pc = "answer" /\ client.latency < Timeout
  /\ IF client.latency = 0 THEN Fault("slow") ELSE NoFault
  /\ client' = [client EXCEPT !.left = @ - 1, !.latency = @ + 1]
  /\ UNCHANGED <<crVars, envVars, pc, mem>>

DeliverResource ==
  /\ CR!Deliver
  /\ UNCHANGED <<client, envVars, pc, mem, faults>>

EditSpec ==
  /\ Disturb("spec") /\ api.exists
  /\ \E s \in Specs \ {api.spec} :
       CR!Put([api EXCEPT !.spec = s, !.generation = @ + 1])
  /\ UNCHANGED <<client, secret, accepted, mem>>

\* There is no finalizer.
DeleteResource ==
  /\ Disturb("delete") /\ api.exists
  /\ CR!Put([api EXCEPT !.exists = FALSE])
  /\ UNCHANGED <<client, secret, accepted, mem>>

\* Another credential is put in the Secret, or none; Infisical stops accepting one.
RotateSecret ==
  /\ Disturb("secret")
  /\ \E c \in (Credentials \cup {None}) \ {secret} : secret' = c
  /\ UNCHANGED <<crVars, client, accepted, mem>>
RevokeCredential ==
  /\ Disturb("revoke")
  /\ \E c \in accepted : accepted' = accepted \ {c}
  /\ UNCHANGED <<crVars, client, secret, mem>>

-----------------------------------------------------------------------------
Reconcile ==
  \/ BuildClient \/ ReadSecondKey \/ ChooseToken \/ Login \/ ReceiveToken
  \/ Request \/ PersistReady

Outside == EditSpec \/ DeleteResource \/ RotateSecret \/ RevokeCredential

Next ==
  \/ BeginReconcile \/ BeginConsumer \/ Reconcile
  \/ Crash \/ PassTime \/ PassTimeInLogin \/ DeliverResource \/ Outside

Spec == Init /\ [][Next]_vars

\* Strong fairness of the connection's controller: it runs beside the others,
\* which this model lets run only one at a time.
FairSpec ==
  Spec /\ SF_vars(BeginReconcile) /\ WF_vars(Reconcile) /\ WF_vars(DeliverResource)

-----------------------------------------------------------------------------
(* Safety *)

\* What the refresh keeps in reserve: 30 seconds, or half the lifetime of a
\* short-lived token.
Reserve ==
  IF client.lifetime > MaxSkew THEN MaxSkew
  ELSE IF client.lifetime > 0 THEN client.lifetime \div 2 ELSE 0

\* No call starts with a cached token that has expired, "so a long request does not
\* start with an already-expired token" (client.go:219), but for the time by which
\* the answer to the login came later than the reserve allows: the expiry is
\* counted from the answer (bearerToken, client.go:191-193, 219-231).
CachedTokenIsLive == Cached => client.left > Reserve - client.latency

-----------------------------------------------------------------------------
(* Liveness *)

Truth ==
  IF ~api.spec.valid THEN "ConfigurationInvalid"
  ELSE IF secret \in accepted THEN "Ready" ELSE "ConnectionUnavailable"

\* The condition comes to tell of the current generation whether the credential
\* that is now in the Secret is accepted, although the connection and the two
\* keys of the Secret are read separately and each may change in between
\* (Reconcile, infisicalClientForConnection).
EventuallyTruthful ==
  <>[](api.exists => api.status.condition = [reason |-> Truth, generation |-> api.generation])
=============================================================================
