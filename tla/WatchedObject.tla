---------------------------- MODULE WatchedObject ---------------------------
(***************************************************************************)
(* One object of the Kubernetes API server and the informer cache through  *)
(* which controllers read it.  This is not code of the operator: it is the *)
(* behaviour that its client calls rely on.  Writes go to the API server   *)
(* at once; every stored version reaches the cache later, in order.        *)
(***************************************************************************)
EXTENDS Sequences

VARIABLES stored,       \* the object in the API server
          cached,       \* the object in the informer cache
          undelivered   \* versions stored since `cached`, oldest first

objectVars == <<stored, cached, undelivered>>

\* The cache holds the stored version: an Update built from the cached copy
\* carries the stored resource version and is not refused as a conflict.
Current == undelivered = <<>>

\* A write; one that changes nothing makes no new version.
Put(new) ==
  /\ stored' = new
  /\ undelivered' = IF new = stored THEN undelivered ELSE Append(undelivered, new)
  /\ UNCHANGED cached

\* A watch event reaches the informer.
Deliver ==
  /\ undelivered # <<>>
  /\ cached' = Head(undelivered)
  /\ undelivered' = Tail(undelivered)
  /\ UNCHANGED stored
=============================================================================
