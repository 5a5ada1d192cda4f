----------------------------- MODULE MCWorkspace -----------------------------
(* A workspace: its members and invitations, its records, help requests    *)
(* and projects, the requests its pages make, and a connection to another  *)
(* cloud.  They share no variable here: a behaviour is one of one of them, *)
(* "part" says which; the others stay in their initial state.              *)
EXTENDS Membership, Workspace, Requests, CloudConnections, TLC

VARIABLE part

CONSTANTS q1, q2, ben, cas

TwoRequests == {q1, q2}
TwoMembers  == {ben, cas}

\* What a browser may send: a good request, and one that fails each of the checks.
Good == [origin |-> TRUE, json |-> TRUE, size |-> 1, valid |-> TRUE]
SomeInputs == {Good, [Good EXCEPT !.origin = FALSE], [Good EXCEPT !.json = FALSE],
               [Good EXCEPT !.size = 2]}

Interchangeable == Permutations(TwoRequests) \cup Permutations(TwoMembers)

PartsInit ==
  /\ part \in {"membership", "workspace", "requests", "cloud"}
  /\ MembershipInit /\ WorkspaceInit /\ RequestsInit /\ CloudInit
  /\ part # "workspace" => \A m \in Members : role[m] = "ADMIN"

PartsNext ==
  /\ UNCHANGED part
  /\ \/ /\ part = "membership" /\ MembershipNext
        /\ UNCHANGED <<workspaceVars, requestVars, cloudVars>>
     \/ /\ part = "workspace" /\ WorkspaceNext
        /\ UNCHANGED <<membershipVars, requestVars, cloudVars>>
     \/ /\ part = "requests" /\ RequestsNext
        /\ UNCHANGED <<membershipVars, workspaceVars, cloudVars>>
     \/ /\ part = "cloud" /\ CloudNext
        /\ UNCHANGED <<membershipVars, workspaceVars, requestVars>>

PartsSpec ==
  PartsInit /\ [][PartsNext]_<<membershipVars, workspaceVars, requestVars, cloudVars, part>>
==============================================================================
