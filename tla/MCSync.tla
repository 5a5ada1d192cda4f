------------------------------- MODULE MCSync -------------------------------
(* The two synchronisations of an account, of its inventory and of its     *)
(* costs, and the creation of resources, which share no variable here.  A  *)
(* behaviour is one of one of them, "part" says which; the others stay in  *)
(* one of their initial states.  The job of a single task is the           *)
(* scheduler's, of a new account; that of two tasks may be a request's, of *)
(* an account that has rows.                                               *)
EXTENDS MCInventorySync, MCProvisioning, MCCostData

VARIABLE part

\* The same synchronisation of a regional and a global task, of a job claimed once, where
\* nothing is provisioned.
Two == INSTANCE InventorySync WITH
  Resources <- {r1, r2}, Tasks <- {regional, global}, TaskOf <- [r \in {r1, r2} |-> IF r = r1 THEN regional ELSE global],
  Provisionable <- {}, MaxClaims <- 1

PartsInit ==
  /\ part \in {"one task", "two tasks", "provisioning", "cost"}
  /\ IF part = "two tasks" THEN Two!SyncInit ELSE SyncInit
  /\ Init /\ CostInit
  /\ part \in {"provisioning", "cost"} => exists = {} /\ \A r \in Resources : row[r] = "none"
  /\ part = "one task" => \A r \in Resources : row[r] = "none"
  /\ part # "cost" => prepared /\ \A s \in Series : costRows[s] = <<>>

PartsNext ==
  /\ UNCHANGED part
  /\ \/ part = "one task" /\ SyncNext /\ queuing' = FALSE /\ UNCHANGED <<vars, costVars>>
     \/ part = "two tasks" /\ Two!SyncNext /\ UNCHANGED <<vars, costVars>>
     \/ part = "provisioning" /\ Next /\ UNCHANGED <<syncVars, costVars>>
     \/ part = "cost" /\ CostNext /\ UNCHANGED <<syncVars, vars>>

PartsSpec == PartsInit /\ [][PartsNext]_<<syncVars, vars, costVars, part>>
=============================================================================
