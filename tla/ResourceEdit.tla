---------------------------- MODULE ResourceEdit ----------------------------
(***************************************************************************)
(* Direct changes of one resource                                          *)
(* (server/services/resource-mutation-service.ts).                         *)
(*                                                                         *)
(* A call reads the row, sends its commands to AWS one after the other,    *)
(* and writes the row from what it read and what it asked for.  Nothing is *)
(* locked: other calls, the inventory synchronisation (which reads AWS and *)
(* writes the row later) and people at the AWS console change the row and  *)
(* the resource in between.  A command that fails ends the call; what was  *)
(* sent before it stays.  Tags are pairs of a key and a value; the         *)
(* settings of an instance or a bucket are numbers.  A setting of a bucket *)
(* is stored as one that was observed, or could not be read; a call stores *)
(* the bare value instead.  Search text, names and the audit entry are     *)
(* left out.                                                               *)
(***************************************************************************)
EXTENDS Rbac, Sequences, FiniteSets

CONSTANTS
    EditKinds,      \* the kinds of resource: "instance", "bucket", "tagged", "other"
    EditCalls,      \* calls in flight
    TagSets,        \* the tags that are asked for
    Settings,       \* the values of a setting
    MaxEdits        \* bound: calls, synchronisations and changes at the console

VARIABLES
    resKind,        \* what the resource is
    row,            \* the row: tags, settings, how these are stored, and state
    cloud,          \* the resource in AWS
    edit,           \* edit[c]: the call c
    syncCopy,       \* what the synchronisation read and has not written yet
    seenTags,       \* history: tags the resource ever had
    seenSettings,   \* history: settings it ever had
    editCount       \* bound

editVars == <<resKind, row, cloud, edit, syncCopy, seenTags, seenSettings, editCount>>

\* The settings a call may change.
SettingNames(k) ==
    CASE k = "instance" -> {"type", "monitoring", "groups"}
      [] k = "bucket" -> {"versioning", "encryption", "block"}
      [] OTHER -> {}

\* What a collector stores as observed or unread (type Observed).
Observable(k) == IF k = "bucket" THEN SettingNames(k) ELSE {}

InstanceActions == {"start", "stop", "reboot", "terminate"}
NoSync == [tags |-> {}, settings |-> <<>>, state |-> "none", how |-> <<>>]
NoAsk == [what |-> "none", tags |-> {}, settings |-> <<>>, action |-> "none"]
NoEdit == [stage |-> "idle", ask |-> NoAsk, base |-> NoSync, todo |-> <<>>]

ASSUME EditAssumption ==
    /\ EditKinds \subseteq {"instance", "bucket", "tagged", "other"} /\ EditKinds # {}
    /\ IsFiniteSet(EditCalls) /\ IsFiniteSet(Settings) /\ Settings # {}
    /\ \A T \in TagSets : \A t, u \in T : t[1] = u[1] => t = u
    /\ MaxEdits \in Nat

\* The row of a resource as it is; the settings "unread" could not be read.
RowOf(c, unread) ==
    [tags |-> c.tags, settings |-> c.settings, state |-> c.state,
     how |-> [n \in DOMAIN c.settings |-> IF n \in unread THEN "unread" ELSE "observed"]]

EditInit ==
    /\ resKind \in EditKinds
    /\ \E T \in TagSets, v \in Settings,
          state \in IF resKind = "instance" THEN {"running", "stopped"} ELSE {"running"} :
         cloud = [tags |-> T, settings |-> [n \in SettingNames(resKind) |-> v], state |-> state]
    /\ row = RowOf(cloud, {})
    /\ edit = [c \in EditCalls |-> NoEdit]
    /\ syncCopy = NoSync
    /\ seenTags = cloud.tags
    /\ seenSettings = {<<n, cloud.settings[n]>> : n \in SettingNames(resKind)}
    /\ editCount = 0

-----------------------------------------------------------------------------
(* Requests.                                                               *)

TagKeys(tags) == {t[1] : t \in tags}

\* The route asks for actions:request; the services ask for more.
MayEdit(role, action) ==
    /\ HasPermission(role, "actions:request")
    /\ action = "terminate" =>
         HasPermission(role, "org:update") \/ HasPermission(role, "actions:configure")

TagAsks == [what : {"tags"}, tags : TagSets, settings : {<<>>}, action : {"none"}]
SettingAsks(k) ==
    UNION {[what : {"settings"}, tags : {{}}, settings : [N -> Settings], action : {"none"}] :
             N \in SUBSET SettingNames(k) \ {{}}}
ActionAsks(k) ==
    IF k = "instance"
    THEN [what : {"action"}, tags : {{}}, settings : {<<>>}, action : InstanceActions] ELSE {}

\* Tags that the row shows and that are not asked for are removed first; the
\* tags of a bucket are replaced at once; other resources get no command.
TagCommands(k, shown, asked) ==
    LET gone == {t \in shown : t[1] \notin TagKeys(asked)}
        removal == IF gone # {} THEN <<[do |-> "untag", of |-> TagKeys(gone)]>> ELSE <<>>
        setting == IF asked # {} THEN <<[do |-> "tag", of |-> asked]>> ELSE <<>>
    IN CASE k \in {"instance", "tagged"} -> removal \o setting
         [] k = "bucket" -> <<[do |-> "replace", of |-> asked]>>
         [] OTHER -> <<>>

\* One command for each setting that is asked for.
SettingCommands(k, asked) ==
    LET setting(n) == IF n \in DOMAIN asked THEN <<[do |-> "set", of |-> <<n, asked[n]>>]>> ELSE <<>>
    IN CASE k = "instance" -> setting("type") \o setting("monitoring") \o setting("groups")
         [] k = "bucket" -> setting("versioning") \o setting("encryption") \o setting("block")
         [] OTHER -> <<>>

Commands(k, ask, base) ==
    CASE ask.what = "tags" -> TagCommands(k, base.tags, ask.tags)
      [] ask.what = "settings" -> SettingCommands(k, ask.settings)
      [] ask.what = "action" -> <<[do |-> "act", of |-> ask.action]>>

\* The button of the call does not wait for an earlier one.
Free(c) == edit[c].stage = "idle" /\ editCount < MaxEdits

\* A call starts: rights, the row, and that a type is only changed when stopped.
StartEdit(c, ask) ==
    /\ Free(c)
    /\ \E role \in Roles : MayEdit(role, ask.action)
    /\ (ask.what = "settings" /\ "type" \in DOMAIN ask.settings) => row.state = "stopped"
    /\ edit' = [edit EXCEPT ![c] = [stage |-> "sending", ask |-> ask, base |-> row,
                                    todo |-> Commands(resKind, ask, row)]]
    /\ editCount' = editCount + 1
    /\ UNCHANGED <<resKind, row, cloud, syncCopy, seenTags, seenSettings>>

-----------------------------------------------------------------------------
(* AWS.                                                                    *)

\* An instance that is already there stays as it is.
StateAfter(action, state) ==
    CASE action = "start" /\ state = "stopped" -> "running"
      [] action = "stop" /\ state = "running" -> "stopped"
      [] action = "terminate" -> "terminated"
      [] OTHER -> state

Accepts(command) ==
    /\ cloud.state # "terminated"
    /\ (command.do = "set" /\ command.of[1] = "type") => cloud.state = "stopped"

Obeyed(command) ==
    CASE command.do = "untag" -> [cloud EXCEPT !.tags = {t \in @ : t[1] \notin command.of}]
      [] command.do = "tag" ->
           [cloud EXCEPT !.tags = {t \in @ : t[1] \notin TagKeys(command.of)} \cup command.of]
      [] command.do = "replace" -> [cloud EXCEPT !.tags = command.of]
      [] command.do = "set" -> [cloud EXCEPT !.settings[command.of[1]] = command.of[2]]
      [] command.do = "act" -> [cloud EXCEPT !.state = StateAfter(command.of, @)]

\* The resource changes, and what it has now is recorded.
CloudBecomes(c) ==
    /\ cloud' = c
    /\ seenTags' = seenTags \cup c.tags
    /\ seenSettings' = seenSettings \cup {<<n, c.settings[n]>> : n \in DOMAIN c.settings}

Send(c) ==
    /\ edit[c].stage = "sending" /\ edit[c].todo # <<>>
    /\ Accepts(Head(edit[c].todo))
    /\ CloudBecomes(Obeyed(Head(edit[c].todo)))
    /\ edit' = [edit EXCEPT ![c].todo = Tail(@)]
    /\ UNCHANGED <<resKind, row, syncCopy, editCount>>

\* The command fails, or its answer is lost: the call throws.
SendFails(c) ==
    /\ edit[c].stage = "sending" /\ edit[c].todo # <<>>
    /\ \/ UNCHANGED <<cloud, seenTags, seenSettings>>
       \/ Accepts(Head(edit[c].todo)) /\ CloudBecomes(Obeyed(Head(edit[c].todo)))
    /\ edit' = [edit EXCEPT ![c] = NoEdit]
    /\ UNCHANGED <<resKind, row, syncCopy, editCount>>

\* What the service takes the state of the instance to be.
AssumedState(action) ==
    CASE action = "start" -> "pending"
      [] action = "stop" -> "stopping"
      [] action = "reboot" -> "running"
      [] action = "terminate" -> "shutting-down"

\* Mutant: a call writes the row although a command failed.
MayCommitAnyway(c) == edit[c].stage = "sending"
MayCommit(c) == edit[c].stage = "sending" /\ edit[c].todo = <<>>

\* The settings go back whole, as they were read; tags and state are replaced.
Commit(c) ==
    LET ask == edit[c].ask
    IN /\ MayCommit(c)
       /\ row' = CASE ask.what = "tags" -> [row EXCEPT !.tags = ask.tags]
                   [] ask.what = "action" -> [row EXCEPT !.state = AssumedState(ask.action)]
                   [] ask.what = "settings" ->
                        [row EXCEPT
                           !.settings = [n \in DOMAIN @ |-> IF n \in DOMAIN ask.settings THEN ask.settings[n]
                                                            ELSE edit[c].base.settings[n]],
                           !.how = [n \in DOMAIN @ |-> IF n \in DOMAIN ask.settings \cap Observable(resKind)
                                                       THEN "bare" ELSE edit[c].base.how[n]]]
       /\ edit' = [edit EXCEPT ![c] = NoEdit]
       /\ UNCHANGED <<resKind, cloud, syncCopy, seenTags, seenSettings, editCount>>

-----------------------------------------------------------------------------
(* The synchronisation and the console.                                    *)

CollectRow ==
    /\ syncCopy = NoSync /\ editCount < MaxEdits
    /\ \E unread \in {{}, Observable(resKind)} : syncCopy' = RowOf(cloud, unread)
    /\ editCount' = editCount + 1
    /\ UNCHANGED <<resKind, row, cloud, edit, seenTags, seenSettings>>

PersistRow ==
    /\ syncCopy # NoSync
    /\ row' = syncCopy
    /\ syncCopy' = NoSync
    /\ UNCHANGED <<resKind, cloud, edit, seenTags, seenSettings, editCount>>

ConsoleChanges ==
    /\ editCount < MaxEdits /\ cloud.state # "terminated"
    /\ \/ \E T \in TagSets : CloudBecomes([cloud EXCEPT !.tags = T])
       \/ \E n \in SettingNames(resKind), v \in Settings :
            CloudBecomes([cloud EXCEPT !.settings[n] = v])
    /\ editCount' = editCount + 1
    /\ UNCHANGED <<resKind, row, edit, syncCopy>>

Asks == TagAsks \cup SettingAsks(resKind) \cup ActionAsks(resKind)

EditGoesOn ==
    \/ \E c \in EditCalls : Send(c) \/ SendFails(c) \/ Commit(c)
    \/ CollectRow \/ PersistRow \/ ConsoleChanges

EditNext == EditGoesOn \/ \E c \in EditCalls : Free(c) /\ \E ask \in Asks : StartEdit(c, ask)

EditSpec == EditInit /\ [][EditNext]_editVars

-----------------------------------------------------------------------------
\* Every tag and every setting that the row of an instance, a VPC, a subnet or
\* a bucket shows was that of the resource in AWS at some time, however calls,
\* synchronisations and changes at the console overtake each other and
\* whichever command fails.  Of a resource of another kind it is not said: for
\* it the service sends nothing and writes the tags it was asked for all the
\* same, although its comment (line 115) has "any resource in AWS".
RowsShowWhatWas ==
    resKind # "other" =>
        /\ row.tags \subseteq seenTags
        /\ \A n \in DOMAIN row.settings : <<n, row.settings[n]>> \in seenSettings
=============================================================================
