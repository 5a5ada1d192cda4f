--------------------------- MODULE MCProvisioning ---------------------------
(* Constants of Provisioning for model checking: every plan is for the     *)
(* same account.                                                           *)
EXTENDS Provisioning, TLC
CONSTANTS acct, p1, p2, east, west
OnePlan   == {p1}
TwoPlans  == {p1, p2}
SameAccount == [p \in Plans |-> acct]
\* A region for each plan, one of which an allowlist may leave out.
OneRegionEach == [p \in Plans |-> IF p = p1 THEN east ELSE west]
OneRegion     == {east}
TwoRegions    == {east, west}
Narrowed      == {{west}}
AllRegions    == {Regions}
=============================================================================
