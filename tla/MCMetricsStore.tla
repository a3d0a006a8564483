--------------------------- MODULE MCMetricsStore ---------------------------
(***************************************************************************)
(* Instance of MetricsStore for TLC: one monitor with a healthy and an     *)
(* unhealthy state.                                                        *)
(***************************************************************************)
EXTENDS MetricsStore

=============================================================================
