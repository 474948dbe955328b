---------------------------- MODULE MCCommandRun ----------------------------
EXTENDS CommandRun

Measured == [id |-> "m", warmupOnly |-> FALSE, baselineOnly |-> FALSE, supply |-> 0,
             repeat |-> 2, repeatSet |-> TRUE, labels |-> <<"m1", "m2">>]
Warm     == [Measured EXCEPT !.id = "w", !.warmupOnly = TRUE, !.repeat = 1, !.labels = <<"w1">>]

Explicit(n) == [parallel |-> n, fit |-> FALSE, fitMax |-> 0, batchRate |-> 0, requestRate |-> 0]
Fitted      == [parallel |-> 0, fit |-> TRUE, fitMax |-> 0, batchRate |-> 2, requestRate |-> 0]

\* A text report goes to a file here, a JSON report to a pipe on standard output.
Line(cmd, unit, requested, arrange, warmup, flags, timeout, json) ==
  [cmd |-> cmd, unit |-> unit, requested |-> requested, arrange |-> arrange, warmup |-> warmup,
   blocks |-> IF warmup > 0 THEN <<Warm, Measured>> ELSE <<Measured>>,
   flags |-> flags, timeout |-> timeout, json |-> json, pipe |-> json,
   dryRun |-> FALSE]

MCConfigs ==
  { Line("race", "trials", 2, "rotate", 1, Explicit(2), TRUE, TRUE),
    Line("race", "trials", -1, "default", 0, Fitted, FALSE, TRUE),
    Line("measure", "trials", 3, "default", 0, Explicit(2), TRUE, TRUE),
    Line("measure", "trials", 2, "random", 1, Fitted, TRUE, FALSE),
    Line("measure", "cycles", 2, "random", 0, Explicit(1), FALSE, TRUE),
    Line("analyse", "cycles", 2, "default", 0, Explicit(2), TRUE, TRUE),
    Line("analyse", "cycles", 2, "default", 1, Explicit(2), FALSE, FALSE),
    [Line("measure", "trials", 3, "random", 1, Explicit(2), TRUE, FALSE) EXCEPT !.dryRun = TRUE],
    [Line("measure", "trials", 50, "random", 0, Fitted, FALSE, FALSE) EXCEPT !.dryRun = TRUE] }
=============================================================================
