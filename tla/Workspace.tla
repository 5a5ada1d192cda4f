------------------------------ MODULE Workspace ------------------------------
(***************************************************************************)
(* What the members of a workspace keep beside the cloud: saved items with *)
(* a version (server/services/operations-service.ts), help requests and    *)
(* projects (server/services/simple-service.ts).  Saved items are guarded  *)
(* by the version the client saw; help requests and projects by the row    *)
(* lock of the workspace, which role changes take too.                     *)
(***************************************************************************)
EXTENDS Rbac, Sequences, FiniteSets

CONSTANTS Members, WorkspaceCalls,
          SeenRoles,    \* bound: the roles members have here
          RecordIds, RecordKinds, HelpIds, HelpKinds, Projects, WorkspaceAccounts,
          KeptNotes,    \* notes of an incident kept beside a new one (99)
          MaxAsked,     \* bound: requests ever begun
          NoRecord, NoTransaction

ASSUME WorkspaceAssumption ==
  /\ SeenRoles \subseteq Roles
  /\ RecordKinds \subseteq {"VIEW", "INCIDENT", "REMINDER", "OWNER"}
  /\ HelpKinds \subseteq {"security", "optimization", "sync"}
  /\ KeptNotes \in Nat \ {0} /\ MaxAsked \in Nat
  /\ NoRecord \notin RecordIds /\ NoTransaction \notin WorkspaceCalls

VARIABLES
  role,       \* each member's role, "none" for who is not a member
  record,     \* rows of workspace_records
  accepted,   \* ghost: the notes of each asked item whose saving succeeded, in order
  help,       \* rows of help_requests
  project,    \* the accounts of each project
  projects,   \* the projects that exist
  accounts,   \* the connected accounts
  lockedBy,   \* the call that holds the row lock of the workspace
  doing,      \* requests in flight
  asked       \* requests begun so far; a save's number names its note

workspaceVars == <<role, record, accepted, help, project, projects, accounts, lockedBy, doing, asked>>
saveVars == <<role, help, project, projects, accounts, lockedBy>>
lockVars == <<role, record, accepted, accounts, asked>>

Unused == [kind |-> "unused"]
Gone   == [kind |-> "gone"]
Resting == [pc |-> "rest"]

WorkspaceInit ==
  /\ role \in [Members -> SeenRoles]
  /\ record = [r \in RecordIds |-> Unused]
  /\ accepted = [r \in RecordIds |-> <<>>]
  /\ help = [h \in HelpIds |-> Unused]
  /\ project = [p \in Projects |-> {}]
  /\ projects = {}
  /\ accounts = WorkspaceAccounts
  /\ lockedBy = NoTransaction
  /\ doing = [c \in WorkspaceCalls |-> Resting]
  /\ asked = 0

Begin(c, f) ==
  /\ doing[c] = Resting /\ asked < MaxAsked
  /\ asked' = asked + 1
  /\ doing' = [doing EXCEPT ![c] = f]

Rest(c) == doing' = [doing EXCEPT ![c] = Resting]
MoveTo(c, f) == doing' = [doing EXCEPT ![c] = f]

-----------------------------------------------------------------------------
(* Saved items.  The client shows a version; the server reads the row,     *)
(* checks, and writes where the version is still the client's.             *)

WritePermission == [k \in RecordKinds |->
  IF k = "VIEW" THEN "inventory:read" ELSE "operations:manage"]

IsRow(r) == record[r] \notin {Unused, Gone}

Editable(u, r) ==
  /\ IsRow(r)
  /\ HasPermission(role[u], WritePermission[record[r].kind])
  /\ \/ record[r].by = u
     \/ record[r].kind = "INCIDENT" /\ record[r].assignee = u
     \/ HasPermission(role[u], "org:update")

\* The screen a save starts from: a new item, or one the user sees.
OpenRecord(c, u, r, kind, assignee) ==
  /\ r # NoRecord => IsRow(r) /\ record[r].kind = kind
  /\ Begin(c, [pc |-> "shown", user |-> u, row |-> r, kind |-> kind, assignee |-> assignee,
               note |-> asked, version |-> IF r = NoRecord THEN 0 ELSE record[r].version,
               before |-> <<>>])
  /\ UNCHANGED <<saveVars, record, accepted>>

LastNotes(notes) ==
  SubSeq(notes, IF Len(notes) > KeptNotes THEN Len(notes) - KeptNotes + 1 ELSE 1, Len(notes))

Timeline(d, before) == IF d.kind = "INCIDENT" THEN LastNotes(before) \o <<d.note>> ELSE <<>>

\* saveRecord(): permission and, for an edit, the row as it is now ...
ReadExisting(c) ==
  LET d == doing[c] IN
  /\ d.pc = "shown"
  /\ IF d.row = NoRecord
     THEN IF HasPermission(role[d.user], WritePermission[d.kind])
          THEN MoveTo(c, [d EXCEPT !.pc = "read"]) ELSE Rest(c)
     ELSE IF Editable(d.user, d.row)
          THEN MoveTo(c, [d EXCEPT !.pc = "read", !.before = record[d.row].notes]) ELSE Rest(c)
  /\ UNCHANGED <<saveVars, record, accepted, asked>>

\* ... the assignee of an incident ...
CheckAssignee(c) ==
  LET d == doing[c] IN
  /\ d.pc = "read"
  /\ IF d.kind = "INCIDENT" => HasPermission(role[d.assignee], "operations:manage")
     THEN MoveTo(c, [d EXCEPT !.pc = "checked"]) ELSE Rest(c)
  /\ UNCHANGED <<saveVars, record, accepted, asked>>

\* Mutant: the update matches the row whatever its version.
SameItem(r, version) == IsRow(r)
SameVersion(r, version) == IsRow(r) /\ record[r].version = version

Edited(row, d) ==
  [row EXCEPT !.assignee = d.assignee, !.notes = Timeline(d, d.before), !.version = @ + 1]

\* ... and the write: an edit keeps who created the item, and a new item is refused when
\* there is no room for one more of its kind.
WriteEdit(c) ==
  LET d == doing[c] IN
  /\ d.pc = "checked" /\ d.row # NoRecord
  /\ IF SameVersion(d.row, d.version)
     THEN /\ record' = [record EXCEPT ![d.row] = Edited(@, d)]
          /\ accepted' = [accepted EXCEPT ![d.row] = Append(@, d.note)]
     ELSE UNCHANGED <<record, accepted>>
  /\ Rest(c)
  /\ UNCHANGED <<saveVars, asked>>

WriteNew(c) ==
  LET d == doing[c] IN
  /\ d.pc = "checked" /\ d.row = NoRecord
  /\ IF \E r \in RecordIds : record[r] = Unused
     THEN \E r \in RecordIds :
            /\ record[r] = Unused
            /\ record' = [record EXCEPT ![r] = [kind |-> d.kind, by |-> d.user,
                 assignee |-> d.assignee, notes |-> Timeline(d, <<>>), version |-> 1]]
            /\ accepted' = [accepted EXCEPT ![r] = <<d.note>>]
     ELSE UNCHANGED <<record, accepted>>
  /\ Rest(c)
  /\ UNCHANGED <<saveVars, asked>>

\* deleteRecord() finds the item editable, then deletes it at any version.
BeginDelete(c, u, r) ==
  /\ Editable(u, r)
  /\ Begin(c, [pc |-> "delete", user |-> u, row |-> r])
  /\ UNCHANGED <<saveVars, record, accepted>>

DeleteRecord(c) ==
  /\ doing[c].pc = "delete"
  /\ record' = [record EXCEPT ![doing[c].row] = Gone]
  /\ Rest(c)
  /\ UNCHANGED <<saveVars, accepted, asked>>

-----------------------------------------------------------------------------
(* Help requests and projects: transactions under the workspace's lock.    *)

HelpPermission == [k \in HelpKinds |->
  CASE k = "security" -> "security:read"
    [] k = "optimization" -> "optimization:read"
    [] k = "sync" -> "aws_accounts:read"]

AskHelp(c, u, kind, target, assignee) ==
  /\ HasPermission(role[u], HelpPermission[kind]) /\ HasPermission(role[u], "members:read")
  /\ Begin(c, [pc |-> "lock", then |-> "recipient", user |-> u, kind |-> kind,
               target |-> target, assignee |-> assignee])
  /\ UNCHANGED <<role, record, accepted, accounts, help, project, projects, lockedBy>>

AskProject(c, u, p, chosen) ==
  /\ HasPermission(role[u], "org:update")
  /\ Begin(c, [pc |-> "lock", then |-> "belongs", row |-> p, new |-> p \notin projects,
               chosen |-> chosen, cleared |-> {}])
  /\ UNCHANGED <<role, record, accepted, accounts, help, project, projects, lockedBy>>

\* Mutant: the transaction of a project takes no lock.
LockForHelp(d) == lockedBy = NoTransaction \/ d.then = "belongs"
LockIsFree(d) == lockedBy = NoTransaction

TakeLock(c) ==
  /\ doing[c].pc = "lock"
  /\ LockIsFree(doing[c])
  /\ lockedBy' = c
  /\ MoveTo(c, [doing[c] EXCEPT !.pc = doing[c].then])
  /\ UNCHANGED <<lockVars, help, project, projects>>

Release(c) == lockedBy' = (IF lockedBy = c THEN NoTransaction ELSE lockedBy) /\ Rest(c)

ReadRecipient(c) ==
  LET d == doing[c] IN
  /\ d.pc = "recipient"
  /\ IF HasPermission(role[d.assignee], HelpPermission[d.kind])
     THEN MoveTo(c, [d EXCEPT !.pc = "issue"]) /\ UNCHANGED lockedBy
     ELSE Release(c)
  /\ UNCHANGED <<lockVars, help, project, projects>>

OpenRequest(d) ==
  [kind |-> d.kind, target |-> d.target, assignee |-> d.assignee, by |-> d.user, status |-> "OPEN"]

\* The issue is still there, and nobody asked the same of the same member.
CreateHelp(c) ==
  LET d == doing[c] IN
  /\ d.pc = "issue"
  /\ IF d.target \in accounts /\ ~ \E h \in HelpIds :
          help[h] # Unused /\ [help[h] EXCEPT !.by = d.user] = OpenRequest(d)
     THEN \E h \in HelpIds : help[h] = Unused /\ help' = [help EXCEPT ![h] = OpenRequest(d)]
     ELSE UNCHANGED help
  /\ Release(c)
  /\ UNCHANGED <<lockVars, project, projects>>

\* completeHelp(): by the requester, the assignee or an administrator, in both directions.
CompleteHelp(u, h, status) ==
  /\ help[h] # Unused
  /\ HasPermission(role[u], HelpPermission[help[h].kind])
  /\ u \in {help[h].assignee, help[h].by} \/ HasPermission(role[u], "org:update")
  /\ help' = [help EXCEPT ![h].status = status]
  /\ UNCHANGED <<lockVars, project, projects, lockedBy, doing>>

\* saveProject(): the project and its accounts exist and no other project has them ...
CheckProject(c) ==
  LET d == doing[c] IN
  /\ d.pc = "belongs"
  /\ IF /\ d.new <=> d.row \notin projects
        /\ d.chosen \subseteq accounts
        /\ \A p \in projects \ {d.row} : project[p] \cap d.chosen = {}
     THEN MoveTo(c, [d EXCEPT !.pc = "replace", !.cleared = project[d.row]]) /\ UNCHANGED lockedBy
     ELSE Release(c)
  /\ UNCHANGED <<lockVars, help, project, projects>>

\* ... its row is written, and the accounts it had make way for the chosen ones.  An account
\* that was disconnected meanwhile, or that has a project, fails the whole transaction.
CommitProject(c) ==
  LET d == doing[c]
      left == [project EXCEPT ![d.row] = @ \ d.cleared] IN
  /\ d.pc = "replace"
  /\ IF /\ d.new <=> d.row \notin projects
        /\ d.chosen \subseteq accounts
        /\ \A p \in Projects : left[p] \cap d.chosen = {}
     THEN /\ project' = [left EXCEPT ![d.row] = @ \cup d.chosen]
          /\ projects' = projects \cup {d.row}
     ELSE UNCHANGED <<project, projects>>
  /\ Release(c)
  /\ UNCHANGED <<lockVars, help>>

DeleteProject(u, p) ==
  /\ HasPermission(role[u], "org:update")
  /\ p \in projects
  /\ projects' = projects \ {p}
  /\ project' = [project EXCEPT ![p] = {}]
  /\ UNCHANGED <<lockVars, help, lockedBy, doing>>

-----------------------------------------------------------------------------
(* What else changes in the workspace.                                     *)

\* Mutant: a role change does not take the lock of the workspace.
RolesMayAlwaysChange == TRUE
RolesMayChange == lockedBy = NoTransaction

ChangeRole(u, new) ==
  /\ RolesMayChange
  /\ role[u] # "none"
  /\ role' = [role EXCEPT ![u] = new]
  /\ UNCHANGED <<record, accepted, help, project, projects, accounts, lockedBy, doing, asked>>

\* An accepted invitation takes no lock, and gives a role only to who has none.
Join(u, new) ==
  /\ role[u] = "none"
  /\ role' = [role EXCEPT ![u] = new]
  /\ UNCHANGED <<record, accepted, help, project, projects, accounts, lockedBy, doing, asked>>

\* disconnectAccount() deletes the account, and its place in a project with it.
AccountIsDisconnected(a) ==
  /\ a \in accounts
  /\ accounts' = accounts \ {a}
  /\ project' = [p \in Projects |-> project[p] \ {a}]
  /\ UNCHANGED <<role, record, accepted, help, projects, lockedBy, doing, asked>>

WorkspaceNext ==
  \/ \E c \in WorkspaceCalls, u \in Members :
       \/ \E r \in RecordIds \cup {NoRecord} :
            \/ \E k \in RecordKinds, a \in Members : OpenRecord(c, u, r, k, a)
            \/ r # NoRecord /\ BeginDelete(c, u, r)
       \/ \E k \in HelpKinds, t \in WorkspaceAccounts, a \in Members : AskHelp(c, u, k, t, a)
       \/ \E p \in Projects, s \in SUBSET WorkspaceAccounts : AskProject(c, u, p, s)
  \/ \E c \in WorkspaceCalls :
       \/ ReadExisting(c) \/ CheckAssignee(c) \/ WriteEdit(c) \/ WriteNew(c) \/ DeleteRecord(c)
       \/ TakeLock(c) \/ ReadRecipient(c) \/ CreateHelp(c) \/ CheckProject(c) \/ CommitProject(c)
  \/ \E u \in Members :
       \/ \E h \in HelpIds, s \in {"OPEN", "DONE"} : CompleteHelp(u, h, s)
       \/ \E p \in Projects : DeleteProject(u, p)
       \/ \E new \in SeenRoles \cup {"none"} : ChangeRole(u, new)
       \/ \E new \in SeenRoles : Join(u, new)
  \/ \E a \in WorkspaceAccounts : AccountIsDisconnected(a)

WorkspaceSpec == WorkspaceInit /\ [][WorkspaceNext]_workspaceVars

-----------------------------------------------------------------------------
(* Properties                                                              *)

\* The timeline of an incident is the last of the notes whose saving succeeded, in order:
\* a save that raced another neither drops a note nor brings back an old timeline.
NotesAreKept ==
  \A r \in RecordIds : IsRow(r) /\ record[r].kind = "INCIDENT" =>
    record[r].notes = SubSeq(accepted[r],
      IF Len(accepted[r]) > KeptNotes + 1 THEN Len(accepted[r]) - KeptNotes ELSE 1, Len(accepted[r]))

\* Help is asked of somebody who can see the issue when the request is created, whatever
\* role changes are made while it is checked.
HelpGoesToReaders ==
  [][\A h \in HelpIds : help[h] = Unused /\ help'[h] # Unused =>
       HasPermission(role[help'[h].assignee], HelpPermission[help'[h].kind])]_workspaceVars

\* A save of a project that passed its checks leaves the project with exactly the accounts of
\* that save, none of another that ran beside it, and fails only for what takes no lock: an
\* account was disconnected or the project deleted.
ProjectIsOneSave ==
  [][\A c \in WorkspaceCalls : doing[c].pc = "replace" /\ doing'[c] = Resting =>
       \/ project'[doing[c].row] = doing[c].chosen
       \/ ~ doing[c].chosen \subseteq accounts
       \/ ~ doing[c].new /\ doing[c].row \notin projects]_workspaceVars
=============================================================================
