--------------------------- MODULE MCUniversalAuth --------------------------
EXTENDS UniversalAuth, TLC

CredentialSymmetry == Permutations(Credentials)
=============================================================================
