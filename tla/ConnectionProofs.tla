-------------------------- MODULE ConnectionProofs --------------------------
(***************************************************************************)
(* CachedTokenIsLive of Connection, for every lifetime, skew, timeout and  *)
(* number of calls.  The two clocks start when the token is issued and     *)
(* when its answer arrives, and run at the same pace: a held token expires *)
(* later than the client renews it by the skew less the latency.           *)
(***************************************************************************)
EXTENDS Connection, TLAPS

\* Until the answer arrives, the token is as old as the answer is late; once it
\* is held, the distance of the two clocks stays what it was then.
TokenInvariant ==
  /\ client \in [held: BOOLEAN, lifetime: Int, latency: Int, left: Int, refreshIn: Int]
  /\ pc = "answer" => ~client.held /\ client.left = client.lifetime - client.latency
  /\ client.held =>
       client.left - client.refreshIn = Skew(client.lifetime) - client.latency

\* The skew is an integer.
LEMMA SkewIsInt == \A v \in Int : Skew(v) \in Int
  BY ConstantsAssumption DEF Skew

\* The invariant gives the property.
LEMMA TokenInvariantSuffices == TokenInvariant => CachedTokenIsLive
  BY SkewIsInt DEF TokenInvariant, CachedTokenIsLive, Cached, Reserve, Skew

\* A client without a token satisfies it.
LEMMA NewClientInvariant ==
  ASSUME client' = NewClient, pc' # "answer" PROVE TokenInvariant'
  BY DEF TokenInvariant, NewClient, Issued

\* So does a reconciliation that ends, in whatever way.
LEMMA DropInvariant == Drop => TokenInvariant'
  BY NewClientInvariant DEF Drop, EndReconcile, Idle

\* A step that leaves the client alone and does not begin to wait for an answer.
LEMMA ClientUnchanged ==
  ASSUME TokenInvariant, UNCHANGED client, pc' = "answer" => pc = "answer"
  PROVE  TokenInvariant'
  BY DEF TokenInvariant, Skew

\* Initially there is no token.
LEMMA TokenInit == Init => TokenInvariant
  BY DEF Init, TokenInvariant, NewClient, Issued, Idle

\* A reconciliation that starts, or that ends at once, does not touch the client.
LEMMA BeginStep == TokenInvariant /\ (BeginReconcile \/ BeginConsumer) => TokenInvariant'
<1>1. ASSUME TokenInvariant, BeginReconcile PROVE TokenInvariant'
  <2>1. UNCHANGED client /\ pc' # "answer"
    BY <1>1 DEF BeginReconcile, Continue, EndReconcile, Idle
  <2> QED BY <1>1, <2>1, ClientUnchanged
<1>2. ASSUME TokenInvariant, BeginConsumer PROVE TokenInvariant'
  <2>1. UNCHANGED client /\ pc' # "answer"
    BY <1>2 DEF BeginConsumer, Continue
  <2> QED BY <1>2, <2>1, ClientUnchanged
<1> QED BY <1>1, <1>2

\* One case per step of a reconciliation; a step that fails drops the client.
LEMMA ReconcileStep == TokenInvariant /\ Reconcile => TokenInvariant'
<1> SUFFICES ASSUME TokenInvariant, Reconcile PROVE TokenInvariant'
  OBVIOUS
<1>1. CASE Fails
  BY <1>1, DropInvariant DEF Fails
<1>2. CASE BuildClient /\ ~Fails
  <2>1. UNCHANGED client /\ pc' # "answer"
    BY <1>2 DEF BuildClient, Continue, crVars
  <2> QED BY <2>1, ClientUnchanged
<1>3. CASE ReadSecondKey /\ ~Fails
  <2>1. UNCHANGED client /\ pc' # "answer"
    BY <1>3 DEF ReadSecondKey, Continue, crVars
  <2> QED BY <2>1, ClientUnchanged
<1>4. CASE ChooseToken
  <2>1. UNCHANGED client /\ pc' # "answer"
    BY <1>4 DEF ChooseToken, Continue
  <2> QED BY <2>1, ClientUnchanged
<1>5. CASE Login /\ ~Fails
  <2>1. PICK v \in Lifetimes : client' = Issued(v)
    BY <1>5 DEF Login
  <2>2. v \in Int
    BY ConstantsAssumption
  <2> QED BY <2>1, <2>2 DEF TokenInvariant, Issued
<1>6. CASE ReceiveToken /\ ~Fails
  <2>1. /\ pc = "answer" /\ pc' = "request"
        /\ client' = [client EXCEPT !.held = TRUE,
                        !.refreshIn = client.lifetime - Skew(client.lifetime)]
    BY <1>6 DEF ReceiveToken, Continue
  <2> DEFINE received == [client EXCEPT !.held = TRUE]
  <2>2. client' = [received EXCEPT !.refreshIn = client.lifetime - Skew(client.lifetime)]
    BY <2>1, Zenon
  <2>3. /\ received \in [held: BOOLEAN, lifetime: Int, latency: Int, left: Int, refreshIn: Int]
        /\ received.lifetime = client.lifetime /\ received.latency = client.latency
        /\ received.left = client.left
    BY DEF TokenInvariant
  <2>4. Skew(client.lifetime) \in Int
    BY SkewIsInt DEF TokenInvariant
  <2> HIDE DEF received
  <2> QED BY <2>1, <2>2, <2>3, <2>4 DEF TokenInvariant
<1>7. CASE Request /\ ~Fails
  <2>1. CASE Drop
    BY <2>1, DropInvariant
  <2>2. CASE ~Drop
    <3>1. UNCHANGED client /\ pc' # "answer"
      BY <1>7, <2>2 DEF Request, Continue
    <3> QED BY <3>1, ClientUnchanged
  <2> QED BY <2>1, <2>2
<1>8. CASE PersistReady
  BY <1>8, DropInvariant DEF PersistReady
<1> QED BY <1>1, <1>2, <1>3, <1>4, <1>5, <1>6, <1>7, <1>8 DEF Reconcile

\* The two clocks advance together; before the answer only the token ages.
LEMMA TimeStep == TokenInvariant /\ (PassTime \/ PassTimeInLogin) => TokenInvariant'
<1>1. ASSUME TokenInvariant, PassTime PROVE TokenInvariant'
  <2>1. /\ pc # "answer" /\ pc' = pc
        /\ client' = [client EXCEPT !.left = @ - 1, !.refreshIn = @ - 1]
    BY <1>1 DEF PassTime
  <2> DEFINE aged == [client EXCEPT !.left = client.left - 1]
  <2>2. client' = [aged EXCEPT !.refreshIn = client.refreshIn - 1]
    BY <2>1, Zenon
  <2>3. /\ aged \in [held: BOOLEAN, lifetime: Int, latency: Int, left: Int, refreshIn: Int]
        /\ aged.held = client.held /\ aged.lifetime = client.lifetime
        /\ aged.latency = client.latency /\ aged.left = client.left - 1
    BY <1>1 DEF TokenInvariant
  <2>4. Skew(client.lifetime) \in Int
    BY <1>1, SkewIsInt DEF TokenInvariant
  <2> HIDE DEF aged
  <2> QED BY <1>1, <2>1, <2>2, <2>3, <2>4 DEF TokenInvariant
<1>2. ASSUME TokenInvariant, PassTimeInLogin PROVE TokenInvariant'
  <2>1. /\ pc = "answer" /\ pc' = pc
        /\ client' = [client EXCEPT !.left = @ - 1, !.latency = @ + 1]
    BY <1>2 DEF PassTimeInLogin
  <2> DEFINE aged == [client EXCEPT !.left = client.left - 1]
  <2>2. client' = [aged EXCEPT !.latency = client.latency + 1]
    BY <2>1, Zenon
  <2>3. /\ aged \in [held: BOOLEAN, lifetime: Int, latency: Int, left: Int, refreshIn: Int]
        /\ ~aged.held /\ aged.lifetime = client.lifetime
        /\ aged.latency = client.latency /\ aged.left = client.left - 1
    BY <1>2, <2>1 DEF TokenInvariant
  <2> HIDE DEF aged
  <2> QED BY <1>2, <2>1, <2>2, <2>3 DEF TokenInvariant
<1> QED BY <1>1, <1>2

\* What others do leaves the client alone; a crash drops it.
LEMMA OthersStep ==
  TokenInvariant /\ (Crash \/ DeliverResource \/ Outside \/ UNCHANGED vars) => TokenInvariant'
<1> SUFFICES ASSUME TokenInvariant, Crash \/ DeliverResource \/ Outside \/ UNCHANGED vars
             PROVE  TokenInvariant'
  OBVIOUS
<1>1. CASE Crash
  BY <1>1, DropInvariant DEF Crash
<1>2. CASE DeliverResource \/ Outside \/ UNCHANGED vars
  <2>1. UNCHANGED <<client, pc>>
    BY <1>2 DEF DeliverResource, Outside, EditSpec, DeleteResource, RotateSecret,
                RevokeCredential, Disturb, vars
  <2> QED BY <2>1, ClientUnchanged
<1> QED BY <1>1, <1>2

\* While an answer is awaited no token is held and it ages; the two clocks of a
\* held token keep their distance.
THEOREM TokenInvariantHolds == Spec => []TokenInvariant
<1>1. TokenInvariant /\ [Next]_vars => TokenInvariant'
  BY BeginStep, ReconcileStep, TimeStep, OthersStep DEF Next
<1> QED BY TokenInit, <1>1, PTL DEF Spec

\* No call starts with a cached token that has expired by more than its login was
\* late, for every lifetime, skew and timeout (bearerToken).
THEOREM CachedTokensAreLive == Spec => []CachedTokenIsLive
<1>1. TokenInvariant => CachedTokenIsLive
  BY TokenInvariantSuffices
<1> QED BY TokenInvariantHolds, <1>1, PTL
=============================================================================
