-------------------------- MODULE MCPaceScheduler ---------------------------
(* Model-checking instances of PaceScheduler. *)
EXTENDS PaceScheduler, TLC

CONSTANT r1

\* Origin: two ticks between batches of any width.  The run: two requests a second
\* of three ticks, which its clock rounds up to two ticks for width 1 and which
\* makes three of width 2, so it binds the run's wide batches that follow one of
\* its own, and the origin's clock all others.
MCInterval == (Origin :> 2) @@ (r1 :> 1)

MCRate == (Origin :> 0) @@ (r1 :> 2)

=============================================================================
