--------------------------- MODULE OutcomeCounters ---------------------------
(***************************************************************************)
(* What gateway/ranking.py's MetricsStore promises: per feature, the       *)
(* number of recorded invocations and successes and the sum of the         *)
(* latencies of the successes, each outcome counted exactly once and in    *)
(* one indivisible step.  A feature the store has never heard of and a     *)
(* feature with all-zero counters are the same to every caller (each one   *)
(* tests invocations > 0), so the dict is a total function.                *)
(***************************************************************************)
EXTENDS Integers

CONSTANTS Features,     \* feature ids, "vendor/name@version"
          Latencies     \* the latencies, in ms, a success may carry

VARIABLE counters

Fields == {"invocations", "successes", "total_latency_ms"}

\* What one recorded outcome adds to a field of its feature.
Gain(success, latency, x) ==
  CASE x = "invocations"      -> 1
    [] x = "successes"        -> IF success THEN 1 ELSE 0
    [] x = "total_latency_ms" -> IF success THEN latency ELSE 0

Init == counters = [f \in Features |-> [x \in Fields |-> 0]]

Record(f, success, latency) ==
  counters' = [counters EXCEPT ![f] =
                 [x \in Fields |-> @[x] + Gain(success, latency, x)]]

Next == \E f \in Features, success \in BOOLEAN, latency \in Latencies :
          Record(f, success, latency)

Spec == Init /\ [][Next]_counters
=============================================================================
