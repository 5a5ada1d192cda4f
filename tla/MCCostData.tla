----------------------------- MODULE MCCostData -----------------------------
(* Constants of CostData for model checking: two series of days and one of *)
(* months.  On day 7 the month is two days old and the last one had one.   *)
EXTENDS CostData
ThreeSeries == <<[g |-> "DAILY", d |-> "TOTAL"], [g |-> "DAILY", d |-> "SERVICE"],
                 [g |-> "MONTHLY", d |-> "TOTAL"]>>
Months == <<0, 2, 4, 5, 8, 11>>
Back1 == [g \in {"DAILY", "MONTHLY"} |-> 1]
Back2 == [g \in {"DAILY", "MONTHLY"} |-> 2]
Back3 == [g \in {"DAILY", "MONTHLY"} |-> 3]
SomeCostErrors == {[says |-> "scp_denied", class |-> "access_denied"],
                   [says |-> "nothing", class |-> "throttled"]}
=============================================================================
