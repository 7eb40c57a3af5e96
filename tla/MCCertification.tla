-------------------------- MODULE MCCertification --------------------------
EXTENDS Certification, TLC

Symmetry ==
    Permutations(Users) \cup Permutations(Ids) \cup Permutations(Requests)
=============================================================================
