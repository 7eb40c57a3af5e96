------------------------------ MODULE MCTeams ------------------------------
(* Teams for TLC. *)
EXTENDS Teams, TLC

\* Users who differ only in their ids are interchangeable when all of them are
\* certified or none is; team and log ids always are, and names that are not blank.
Symmetry == Permutations(Certified) \cup Permutations(TeamIds) \cup Permutations(LogIds)
              \cup Permutations(Names \ {Blank})
=============================================================================
