---------------------------- MODULE MCAdminTabs -----------------------------
(* Instances of AdminTabs for TLC *)
EXTENDS AdminTabs, TLC

Symmetry == Permutations(Windows) \cup Permutations(Urls)
=============================================================================
