-------------------------- MODULE MCTimingCampaign --------------------------
(* Two workers on one pool, two requests in rotation, one warm-up batch, five trials. *)
EXTENDS TimingCampaign
MCRequest(i, d) == [id |-> i, dest |-> d, scheme |-> "https", protocol |-> "h2", framed |-> TRUE]
MCPlan ==
  [requests |-> <<MCRequest(1, "a"), MCRequest(2, "a")>>, priming |-> <<>>, hasPriming |-> FALSE,
   arrangement |-> "rotate", warmup |-> 1, connections |-> 2, requestTimeout |-> 0, runTimeout |-> 1,
   releaseDelay |-> 0, lastByteSync |-> FALSE, singleRecord |-> FALSE, synchronise |-> FALSE,
   batchRate |-> 0, requestRate |-> 0, headerMax |-> 1, bodyMax |-> 0, trials |-> 5]
=============================================================================
