---------------------------- MODULE MCOutlierRun ----------------------------
(* Two candidates compared in pairs: every solver where its strategy shows, *)
(* with or without a Baseline control, and two requests that are refused.   *)
EXTENDS OutlierRun
MCConfigs ==
  {BaselineReserved("Late", 1), BaselineConfirmed("Late", 1),
   EdgeDirected("Late", 0), RollingPeerFirst("Late", 0), RollingBaselineReserved("Either", 1),
   RollingBaselineConfirmed("Late", 1), BaselineConfirmed("Late", 0),
   RollingBaselineReserved("Late", 0)}
=============================================================================
