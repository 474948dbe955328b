---------------------------- MODULE MCDetectRun ----------------------------
EXTENDS DetectRun

Block(id, warm, base, supply, repeat) ==
  [id |-> id, warmupOnly |-> warm, baselineOnly |-> base, supply |-> supply, repeat |-> repeat,
   repeatSet |-> ~base, labels |-> [i \in 1..repeat |-> id]]

Candidates(n) == Block("c", FALSE, FALSE, 0, n)
Warm     == Block("w", TRUE, FALSE, 0, 1)
Baseline(id, supply) == Block(id, FALSE, TRUE, supply, 1)

Flags(direction, width, maximum) ==
  [falsePositiveRisk |-> 10, falseNegativeRisk |-> 10, direction |-> direction,
   width |-> width, comparisonsMax |-> maximum, edge |-> 100]

Tuning(n) == [parallel |-> n, fit |-> FALSE, fitMax |-> 0, batchRate |-> 0, requestRate |-> 0]

Line(blocks, flags, strategy, warmup, conns, timeout, json, faults, odd) ==
  [blocks |-> blocks, flags |-> flags, strategy |-> strategy, warmup |-> warmup,
   tuning |-> Tuning(conns), timeout |-> timeout, json |-> json, faults |-> faults, odd |-> odd]

MCConfigs ==
  { Line(<<Warm, Candidates(2)>>, Flags("early", 2, 3), "rolling-peer-first", 1, 2, FALSE, TRUE, 1, 0),
    Line(<<Warm, Candidates(2)>>, Flags("late", 4, 2), "rolling-peer-first", 2, 1, TRUE, TRUE, 2, 1),
    Line(<<Warm, Candidates(2)>>, Flags("late", 4, 3), "auto", 1, 2, FALSE, FALSE, 1, 0),
    Line(<<Baseline("a", 1), Candidates(1), Baseline("b", 3)>>, Flags("either", 4, -1), "auto",
         0, 2, TRUE, TRUE, 1, 1),
    Line(<<Candidates(1)>>, Flags("either", 3, -1), "auto", 0, 2, TRUE, TRUE, 0, 0) }
=============================================================================
