---------------------------- MODULE MCOriginPool ----------------------------
(* One caller sends batches, the other leases connections. *)
EXTENDS OriginPool, TLC

CONSTANTS a, b

MCKinds == a :> {"batch"} @@ b :> {"lease"}
=============================================================================
