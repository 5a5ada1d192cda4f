---------------------------- MODULE ResourcePage ----------------------------
(***************************************************************************)
(* The pages of an instance, a bucket or another resource that has tags    *)
(* (components/resource/ec2-actions.tsx, s3-actions.tsx and                *)
(* tag-editor-dialog.tsx, app/(app)/cloud/.../[id]/page.tsx), over         *)
(* ResourceEdit.                                                           *)
(*                                                                         *)
(* A page shows the row as it was when it was rendered last.  The form of  *)
(* its settings starts from the row as it was when the page was opened and *)
(* is never set anew; the tags of the dialog are those shown when the      *)
(* dialog was opened.  Each button waits for its own call only.  Other     *)
(* clients of the API ask for what they like.                              *)
(***************************************************************************)
EXTENDS ResourceEdit

CONSTANTS
    Tabs,       \* open pages
    MaxTouched, \* bound: settings touched before one "Apply"
    Preset      \* what a form starts from where the page reads no value

VARIABLE page   \* page[t]

pageVars == <<editVars, page>>

Buttons == {"action", "settings", "tags"}
TabCalls == Tabs \X Buttons
NoPage == [open |-> FALSE, shown |-> NoSync, first |-> NoSync, typed |-> <<>>, draft |-> {}]

ASSUME PageAssumption == TabCalls \subseteq EditCalls /\ Preset \in Settings /\ MaxTouched \in Nat

PageInit == EditInit /\ page = [t \in Tabs |-> NoPage]

-----------------------------------------------------------------------------
\* The page reads a setting of a bucket only if it was stored as observed.
FormValue(r, n) == IF r.how[n] = "observed" THEN r.settings[n] ELSE Preset

FormSettings(k) == SettingNames(k) \ {"groups"}

\* What the form shows now.
Filled(t) ==
    [n \in FormSettings(resKind) |->
        IF n \in DOMAIN page[t].typed THEN page[t].typed[n] ELSE FormValue(page[t].first, n)]

\* Of an instance the type is sent if it is not the one that is shown; all
\* the rest is sent whether it was touched or not.
Sent(t, form) ==
    LET names == {n \in DOMAIN form : n = "type" => form[n] # page[t].shown.settings[n]}
    IN [n \in names |-> form[n]]

\* A tag is added, removed or given a value.
Retagged(tags) ==
    LET offered == UNION TagSets
    IN {tags} \cup {tags \ {t} : t \in tags}
         \cup {{u \in tags : u[1] # t[1]} \cup {t} : t \in offered}

-----------------------------------------------------------------------------
OpenPage(t) ==
    /\ page' = [page EXCEPT ![t] = [NoPage EXCEPT !.open = TRUE, !.shown = row, !.first = row]]
    /\ UNCHANGED editVars

\* After a call of its own, and whenever a live update arrives.
RefreshPage(t) ==
    /\ page[t].open
    /\ page' = [page EXCEPT ![t].shown = row]
    /\ UNCHANGED editVars

\* Start, stop, reboot and, for those who may and typed it, terminate.
Offered(t, action) ==
    /\ resKind = "instance"
    /\ CASE action = "start" -> page[t].shown.state = "stopped"
         [] action \in {"stop", "reboot"} -> page[t].shown.state = "running"
         [] action = "terminate" -> page[t].shown.state # "terminated"

ClickAction(t, action) ==
    /\ page[t].open /\ Offered(t, action)
    /\ StartEdit(<<t, "action">>, [NoAsk EXCEPT !.what = "action", !.action = action])
    /\ UNCHANGED page

\* "Apply": some settings were touched; a type only while the page shows "stopped".
SaveSettings(t, touched) ==
    /\ page[t].open
    /\ "type" \in DOMAIN touched => page[t].shown.state = "stopped"
    /\ LET form == [n \in FormSettings(resKind) |->
                      IF n \in DOMAIN touched THEN touched[n] ELSE Filled(t)[n]]
           kept == DOMAIN touched \cup DOMAIN page[t].typed
       IN /\ StartEdit(<<t, "settings">>,
                       [NoAsk EXCEPT !.what = "settings", !.settings = Sent(t, form)])
          /\ page' = [page EXCEPT ![t].typed = [n \in kept |-> form[n]]]

OpenTags(t) ==
    /\ page[t].open
    /\ page' = [page EXCEPT ![t].draft = page[t].shown.tags]
    /\ UNCHANGED editVars

\* The whole list is sent.
SaveTags(t, tags) ==
    /\ page[t].open
    /\ page' = [page EXCEPT ![t].draft = tags]
    /\ StartEdit(<<t, "tags">>, [NoAsk EXCEPT !.what = "tags", !.tags = tags])

PageNext ==
    \/ EditGoesOn /\ UNCHANGED page
    \/ \E c \in EditCalls \ TabCalls :
         Free(c) /\ \E ask \in Asks : StartEdit(c, ask) /\ UNCHANGED page
    \/ \E t \in Tabs :
         \/ OpenPage(t) \/ RefreshPage(t) \/ OpenTags(t)
         \/ Free(<<t, "action">>) /\ \E a \in InstanceActions : ClickAction(t, a)
         \/ /\ Free(<<t, "settings">>) /\ FormSettings(resKind) # {}
            /\ \E N \in SUBSET FormSettings(resKind), v \in Settings :
                 Cardinality(N) <= MaxTouched /\ SaveSettings(t, [n \in N |-> v])
         \/ Free(<<t, "tags">>) /\ \E tags \in Retagged(page[t].draft) : SaveTags(t, tags)

PageSpec == PageInit /\ [][PageNext]_pageVars

=============================================================================
