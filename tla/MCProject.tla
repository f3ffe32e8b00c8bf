----------------------------- MODULE MCProject ------------------------------
EXTENDS Project, TLC

\* Projects that exist from the start are told apart by Init.
FreshSymmetry == Permutations(ProjectIDs \ InitiallyPresent)
=============================================================================
