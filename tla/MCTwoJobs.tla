------------------------------ MODULE MCTwoJobs ------------------------------
(* Two rows of one key.  Either a worker may have two runs in hand, none   *)
(* of which is tried again, or one at most, of jobs that are tried again   *)
(* and of an account that may be deleted: "few" says which.                *)
EXTENDS MCJobQueue

VARIABLE few

InHand(w) == {<<j, a>> \in Jobs \X Attempts : runner[j][a] = w}
Retrying == \E j \in Jobs, a \in Attempts : pc[j][a] = "retrying"

TwoJobsInit == Init /\ few \in BOOLEAN

TwoJobsNext ==
  /\ Next /\ UNCHANGED few
  /\ IF few THEN \A w \in Workers : Cardinality(InHand(w)') <= 1
            ELSE gone' = {} /\ ~Retrying'

TwoJobsSpec == TwoJobsInit /\ [][TwoJobsNext]_<<vars, few>>
=============================================================================
