-------------------------- MODULE MCMetricsFanout --------------------------
(* MetricsFanout for TLC: two metrics and a few time series. *)
EXTENDS MetricsFanout, TLC

CONSTANTS v1, v2,      \* texts that parse
          Empty, Bad   \* an empty text and one that does not parse

MCNumbers == {v1, v2}
MCKeys == <<"in", "out">>

\* Both series or one, values in the last, an earlier or no point.
MCTimeSeries ==
  {[in |-> <<v1, v2>>, out |-> <<v1, Empty>>],
   [in |-> <<v2, Bad, Empty>>, out |-> << >>],
   [out |-> <<Bad, v2>>]}
=============================================================================
