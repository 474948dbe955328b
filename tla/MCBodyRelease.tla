--------------------------- MODULE MCBodyRelease ----------------------------
(* Two bodies that need several records on small windows. *)
EXTENDS BodyRelease
MCBody == <<4, 2>>
=============================================================================
