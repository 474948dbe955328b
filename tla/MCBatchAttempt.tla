-------------------------- MODULE MCBatchAttempt ----------------------------
(* Model-checking instances of BatchAttempt. *)
EXTENDS BatchAttempt

\* Two requests race, and a batch of one request reuses their connection.
MCWidth == <<2, 1>>
=============================================================================
