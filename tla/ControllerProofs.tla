--------------------------- MODULE ControllerProofs -------------------------
(***************************************************************************)
(* Lemmas about the operators that the controllers share, for resources of *)
(* every kind.                                                             *)
(***************************************************************************)
EXTENDS Controller, SequenceTheorems, TLAPS

\* Every way of writing back is one write of the resource or none.
LEMMA WritesBack ==
  ASSUME \/ \E before, after : PatchStatus(before, after)
         \/ \E status, reason : ReturnError(status, reason)
         \/ \E current : RemoveFinalizer(current)
  PROVE  UNCHANGED crVars \/ (\E r : CR!Put(r))
<1>1. ASSUME NEW before, NEW after, PatchStatus(before, after)
      PROVE  UNCHANGED crVars \/ (\E r : CR!Put(r))
  BY <1>1 DEF PatchStatus
<1>2. ASSUME NEW status, NEW reason, ReturnError(status, reason)
      PROVE  UNCHANGED crVars \/ (\E r : CR!Put(r))
  BY <1>1, <1>2 DEF ReturnError
<1>3. ASSUME NEW current, RemoveFinalizer(current)
      PROVE  UNCHANGED crVars \/ (\E r : CR!Put(r))
  BY <1>3 DEF RemoveFinalizer
<1>. QED
  BY <1>1, <1>2, <1>3

\* The newest version on its way to the cache is the stored one.
LEMMA CacheFollowsStep ==
  ASSUME NEW Kind, undelivered \in Seq(Kind), CacheFollows,
         UNCHANGED crVars \/ (\E r : CR!Put(r)) \/ CR!Deliver
  PROVE  CacheFollows'
<1>1. CASE UNCHANGED crVars
  BY <1>1 DEF CacheFollows, crVars
<1>2. CASE \E r : CR!Put(r)
  <2>1. PICK r : CR!Put(r)
    BY <1>2
  <2>2. CASE r = api
    BY <2>1, <2>2 DEF CR!Put, CacheFollows
  <2>3. CASE r # api
    <3>1. undelivered \in Seq(Kind \cup {r}) /\ undelivered' = Append(undelivered, r)
      BY <2>1, <2>3 DEF CR!Put
    <3>2. /\ undelivered' # <<>>
          /\ undelivered'[Len(undelivered')] = r
      BY <3>1
    <3>. QED
      BY <2>1, <3>2 DEF CR!Put, CacheFollows
  <2>. QED
    BY <2>2, <2>3
<1>3. CASE CR!Deliver
  <2>1. undelivered # <<>>
    BY <1>3 DEF CR!Deliver
  <2>2. /\ Len(undelivered) \in Nat /\ Len(undelivered) # 0
        /\ Tail(undelivered) \in Seq(Kind)
        /\ Len(Tail(undelivered)) = Len(undelivered) - 1
        /\ \A n \in 1..Len(Tail(undelivered)) : Tail(undelivered)[n] = undelivered[n+1]
    BY <2>1, HeadTailProperties, EmptySeq, LenProperties
  <2>3. CASE Len(undelivered) = 1
    BY <1>3, <2>1, <2>3 DEF CR!Deliver, CacheFollows
  <2>4. CASE Len(undelivered) > 1
    <3>1. PICK rest \in Seq(Kind) : rest = Tail(undelivered)
      BY <2>2
    <3>2. Len(rest) \in Nat /\ Len(rest) \in 1..Len(rest) /\ Len(rest) + 1 = Len(undelivered)
      BY <2>2, <2>4, <3>1
    <3>3. rest # <<>> /\ rest[Len(rest)] = undelivered[Len(undelivered)]
      BY <2>2, <3>1, <3>2
    <3>. QED
      BY <1>3, <2>1, <3>1, <3>3 DEF CR!Deliver, CacheFollows
  <2>. QED
    BY <2>2, <2>3, <2>4
<1>. QED
  BY <1>1, <1>2, <1>3

\* Every copy of the resource was stored: what holds of the stored versions holds
\* of the cached one and of those on their way to the cache.
LEMMA CopiesStep ==
  ASSUME NEW Good, cache \in Good, undelivered \in Seq(Good), api' \in Good,
         UNCHANGED crVars \/ (\E r : CR!Put(r)) \/ CR!Deliver
  PROVE  cache' \in Good /\ undelivered' \in Seq(Good)
<1>1. CASE UNCHANGED crVars
  BY <1>1 DEF crVars
<1>2. CASE \E r : CR!Put(r)
  BY <1>2 DEF CR!Put
<1>3. CASE CR!Deliver
  BY <1>3, HeadTailProperties DEF CR!Deliver
<1>. QED
  BY <1>1, <1>2, <1>3
=============================================================================
