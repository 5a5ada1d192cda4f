-------------------------------- MODULE Rbac --------------------------------
(* The role matrix (lib/rbac.ts): what each role of a workspace may do and *)
(* which roles it may hand out.                                            *)
EXTENDS Integers

Roles == {"OWNER", "ADMIN", "OPERATOR", "PROVISIONER", "VIEWER", "BILLING_VIEWER", "SECURITY_VIEWER"}

Permissions ==
  {"operations:manage", "org:read", "org:update", "org:delete", "members:read", "members:invite",
   "members:manage", "aws_accounts:read", "aws_accounts:connect", "aws_accounts:disconnect",
   "sync:trigger", "inventory:read", "metrics:read", "cost:read", "security:read", "security:manage",
   "optimization:read", "optimization:manage", "alerts:read", "alerts:acknowledge", "alerts:manage",
   "audit:read", "reports:export", "actions:request", "actions:configure", "provisioning:create",
   "provisioning:configure"}

ReadBase == {"org:read", "members:read", "aws_accounts:read", "alerts:read"}

RolePermissions == [r \in Roles |->
  CASE r = "OWNER" -> Permissions
    [] r = "ADMIN" -> Permissions \ {"org:delete", "actions:configure"}
    [] r = "OPERATOR" -> ReadBase \cup
         {"sync:trigger", "inventory:read", "metrics:read", "cost:read", "security:read",
          "optimization:read", "optimization:manage", "alerts:acknowledge", "reports:export",
          "actions:request", "operations:manage"}
    [] r = "PROVISIONER" -> ReadBase \cup
         {"inventory:read", "metrics:read", "cost:read", "sync:trigger", "provisioning:create"}
    [] r = "VIEWER" -> ReadBase \cup
         {"inventory:read", "metrics:read", "cost:read", "optimization:read"}
    [] r = "BILLING_VIEWER" -> ReadBase \cup {"cost:read", "optimization:read", "reports:export"}
    [] r = "SECURITY_VIEWER" -> ReadBase \cup
         {"inventory:read", "metrics:read", "security:read", "audit:read", "reports:export"}]

\* authorizeOrg() finds no membership for "none".
HasPermission(role, p) == role \in Roles /\ p \in RolePermissions[role]

Rank == [r \in Roles |->
  CASE r = "OWNER" -> 100
    [] r = "ADMIN" -> 80
    [] r = "PROVISIONER" -> 65
    [] r = "OPERATOR" -> 60
    [] OTHER -> 40]

\* May a member with role "actor" give the role "target" to one who has the role
\* "current"?  An invitation has no current role and passes the target twice.
CanAssignRole(actor, target, current) ==
  /\ HasPermission(actor, "members:manage") \/ HasPermission(actor, "members:invite")
  /\ \/ actor = "OWNER"
     \/ Rank[target] < Rank[actor] /\ Rank[current] < Rank[actor]
=============================================================================
