---------------------------- MODULE MCAdminAuth ----------------------------
(* Model checking of AdminAuth.                                             *)
EXTENDS AdminAuth, TLC

Symmetry == Permutations(User) \cup Permutations(Handler)
=============================================================================
