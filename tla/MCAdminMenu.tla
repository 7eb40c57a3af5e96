---------------------------- MODULE MCAdminMenu -----------------------------
(* Instances of AdminMenu for TLC: two sub-menus of one li each *)
EXTENDS AdminMenu, TLC

CONSTANTS t1, t2, s1, s2

MCTopOf == (s1 :> t1) @@ (s2 :> t2)
=============================================================================
