-------------------------- MODULE CredentialRotation ------------------------
(***************************************************************************)
(* What InfisicalUniversalAuth promises to whoever consumes its output     *)
(* Secret, without caches, calls, failures or restarts: credentials are    *)
(* published one after the other; one is recorded as the current one only  *)
(* once it was published; one is rotated out only when it is no longer the *)
(* published one, and never published again.  UniversalAuth implements     *)
(* this specification.                                                     *)
(***************************************************************************)
CONSTANTS Credential, NoCredential

VARIABLES
  published,   \* the credential in the output Secret
  recorded,    \* the credential that the status of the resource names
  known,       \* the credentials that were ever published
  retired      \* the credentials that a rotation has revoked

rotationVars == <<published, recorded, known, retired>>

Init ==
  /\ published = NoCredential /\ recorded = NoCredential
  /\ known = {} /\ retired = {}

Publish(c) ==
  /\ c \notin retired
  /\ published' = c /\ known' = known \cup {c}
  /\ UNCHANGED <<recorded, retired>>

\* The Secret is deleted, by a user or together with its resource.
Withdraw ==
  /\ published' = NoCredential
  /\ UNCHANGED <<recorded, known, retired>>

\* The status is rewritten; it may also forget the credential.
Record(c) ==
  /\ c \in known \cup {NoCredential}
  /\ recorded' = c
  /\ UNCHANGED <<published, known, retired>>

Retire(c) ==
  /\ c \in known /\ c # published
  /\ retired' = retired \cup {c}
  /\ UNCHANGED <<published, recorded, known>>

Next ==
  \/ Withdraw
  \/ \E c \in Credential : Publish(c) \/ Retire(c)
  \/ \E c \in Credential \cup {NoCredential} : Record(c)

Spec == Init /\ [][Next]_rotationVars

-----------------------------------------------------------------------------
\* A credential that a rotation revoked is not the published one, and every
\* credential that was recorded or revoked had been published.
Consistent ==
  /\ published \notin retired
  /\ retired \subseteq known
  /\ recorded \in known \cup {NoCredential}
=============================================================================
