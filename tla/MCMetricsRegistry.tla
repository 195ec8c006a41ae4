-------------------------- MODULE MCMetricsRegistry --------------------------
(* MetricsRegistry for TLC: of one counter the threads can lose an addition, *)
(* one is on the same line of a page, and one on the next.                   *)
EXTENDS MetricsRegistry

CONSTANTS l1, l2

MCMaxTotal == [s \in Series |->
    CASE s = <<1, l1>> -> 2
      [] s = <<1, l2>> -> 1
      [] s = <<2, l1>> -> 1
      [] OTHER -> 0]
==============================================================================
