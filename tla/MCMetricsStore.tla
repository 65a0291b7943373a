--------------------------- MODULE MCMetricsStore ---------------------------
(***************************************************************************)
(* Small instances of MetricsStore.                                        *)
(***************************************************************************)
EXTENDS MetricsStore

CONSTANTS loop, worker, f1, f2

MCThreads == {loop, worker}
OneFeature == {f1}
TwoFeatures == {f1, f2}
MCLatencies == {0, 3}
=============================================================================
