------------------------------ MODULE MCIdentity -----------------------------
EXTENDS Identity, TLC

CONSTANTS p1, p2, q1, o1, o2, app, infra

\* Two projects of one organization and one of another.  `app` may come to show
\* either of the first two, `infra` shows the last, and the organization
\* reference may come to show either organization.
TwoOrganizations == [p \in {p1, p2, q1} |-> IF p = q1 THEN o2 ELSE o1]
OneOrganization  == [p \in {p1, p2, q1} |-> o1]
Usable == {"usable"}
TargetsInside ==
  (app :> {p1, p2}) @@ (infra :> {q1}) @@ (OrganizationRef :> {o1, o2}) @@ (Connection :> Usable)
TargetsOneOrganization == [TargetsInside EXCEPT ![OrganizationRef] = {o1}]
\* `app` may be made again as a project of the other organization.
TargetsAcross ==
  (app :> {p1, q1}) @@ (OrganizationRef :> {o1}) @@ (Connection :> Usable)

\* Identities that nobody made are alike, and so are the two projects of `app`.
FreshSymmetry == Permutations(IdentityIDs \ InitiallyPresent) \cup Permutations({p1, p2})
=============================================================================
