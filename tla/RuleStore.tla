----------------------------- MODULE RuleStore -----------------------------
(***************************************************************************)
(* The life of the relay filter rule: its tables in the repository, the    *)
(* copies the TCP server and the relay client decide by, and the copy a    *)
(* user interface edits.                                                   *)
(*                                                                         *)
(* Runtime.SaveRelayFilterRule commits the tables and then hands the rule  *)
(* to the server and to the client, under no common lock; Runtime.Start    *)
(* reads the tables one query at a time and hands the rule over the same   *)
(* way.  A Go map is handed over by reference: whoever holds the same map  *)
(* sees what is written into it.  ui_run.go, walk_ui_relay.go and          *)
(* tea/run.go are the three editors; a program runs one of them.           *)
(*                                                                         *)
(* Two goroutines in one Go map at once may also end the program with a    *)
(* fatal error; that outcome is left out, and the write is taken as one    *)
(* step.                                                                   *)
(***************************************************************************)
EXTENDS RelayFilter, Sequences

CONSTANTS
    Editors,   \* the kinds of interface tried: "terminal", "fyne", "windows"
    Seeds,     \* devices and rules the tables may hold at first
    Calls,     \* goroutines that load, save or restart
    MaxEdits,  \* bound: changes by the user
    MaxCalls,  \* bound: calls made
    MaxFaults  \* bound: refused transactions, failed queries, deleted and added devices

ASSUME CallsAssumption == IsFiniteSet(Calls)
ASSUME SeedsAssumption == \A seed \in Seeds : seed.known \subseteq Objects /\ seed.rule \in Rules

VARIABLES
    ui,        \* the interface this program runs
    known,     \* numbers in the table devices
    tables,    \* the relay_filter_* tables, as a rule
    server,    \* TCPServer.relayFilter
    client,    \* RelayClient.relayFilter
    editor,    \* model.rfRule, relayFilterDialog.rule, or the relay fields
    window,    \* the selections on the screen
    busy,      \* rfBusy, relayFilterDialog.busy
    calls,     \* the calls in flight
    edits, made, faults,
    causes,    \* what may set the running rule apart from the stored one
    fresh,     \* the editor holds what was loaded, and nothing was changed since
    whole      \* every query of that load gave all its rows

running == <<server, client>>
loaded == <<fresh, whole>>
bounds == <<edits, made, faults>>
vars == <<ui, known, tables, running, editor, window, busy, calls, bounds, causes, loaded>>

\* A rule in memory and the identity of the maps it holds by reference.
Copies == [rule : Rules, maps : 1 .. Cardinality(Calls) + 4]
Copy(rule, maps) == [rule |-> rule, maps |-> maps]

\* The tables in the order the queries read them.
Tables == <<"enabled", "objects", "groups", "codes", "objCodes", "zones", "parts">>

Idle == [op |-> "none", at |-> 0, copy |-> Copy(NoRule, 1), clean |-> FALSE, whole |-> TRUE]
\* The rules that a load of tables whose first query answered may return.
PartOf(part, rule) ==
    /\ part.enabled = rule.enabled
    /\ \A i \in 2 .. Len(Tables) : part[Tables[i]] \subseteq rule[Tables[i]]

Active(op) == {c \in Calls : calls[c].op = op}
Writers == Active("save") \cup Active("start")

UsedMaps == {server.maps, client.maps, editor.maps} \cup {calls[c].copy.maps : c \in Calls}
FreshMaps == CHOOSE i \in 1 .. Cardinality(Calls) + 4 : i \notin UsedMaps

Rename(owner) == IF owner = 0 THEN Everyone ELSE owner
RowOwner(owner) == IF owner = Everyone THEN 0 ELSE owner

\* What of a rule gets into the tables: a row whose object is not in devices is
\* refused by its foreign key and the error is ignored.  The details of all
\* objects are filed under the object 0.
Kept(rule, devices) ==
    LET rows(relation) == {<<Rename(t[1]), t[2], t[3]>> : t \in
                             {r \in relation : RowOwner(r[1]) \in devices}}
    IN [rule EXCEPT !.objects = @ \cap devices,
                    !.objCodes = {t \in @ : t[1] \in devices},
                    !.zones = rows(@), !.parts = rows(@)]

NoWindow == [open |-> FALSE, rows |-> {}, ticked |-> {}, scope |-> {}, marked |-> {}]

Init ==
    /\ ui \in Editors
    /\ \E seed \in Seeds : known = seed.known /\ tables = Kept(seed.rule, seed.known)
    /\ server = Copy(tables, 1) /\ client = Copy(tables, 1)
    /\ editor = Copy(NoRule, 2)
    /\ window = NoWindow /\ busy = FALSE
    /\ calls = [c \in Calls |-> Idle]
    /\ edits = 0 /\ made = 0 /\ faults = 0 /\ causes = {} /\ fresh = FALSE /\ whole = TRUE

(***************************************************************************)
(* The tables.                                                             *)
(***************************************************************************)
\* Whatever changes the tables leaves no reader and no editor up to date.
TablesBecome(new) ==
    /\ tables' = new
    /\ fresh' = (fresh /\ new = tables)

Stale(new) == [c \in Calls |-> [calls[c] EXCEPT !.clean = @ /\ new = tables]]

Fault == faults < MaxFaults /\ faults' = faults + 1

\* SaveDevice makes a row for a device that was not known.
DeviceAppears ==
    /\ Fault
    /\ \E d \in Objects \ known : known' = known \cup {d}
    /\ causes' = causes \cup {"appeared"}
    /\ UNCHANGED <<ui, tables, running, editor, window, busy, calls, edits, made, loaded>>

\* Mutant of DeleteDevice: the rows of the rule stay.
DeleteDeviceOnly ==
    /\ Fault
    /\ \E d \in known : known' = known \ {d}
    /\ UNCHANGED <<ui, tables, running, editor, window, busy, calls, edits, made, causes, loaded>>

\* DeleteDeviceWithHistory: the rows of the rule go with the device, the rule in
\* the server and in the client stays.
DeleteDevice ==
    /\ Fault
    /\ \E d \in known :
         /\ known' = known \ {d}
         /\ TablesBecome(Kept(tables, known'))
         /\ calls' = Stale(tables')
         /\ causes' = causes \cup (IF tables' = tables THEN {} ELSE {"cascade"})
    /\ UNCHANGED <<ui, running, editor, window, busy, edits, made, whole>>

(***************************************************************************)
(* Calls.                                                                  *)
(***************************************************************************)
Begin(c, op, copy, clean) ==
    /\ calls[c].op = "none" /\ made < MaxCalls
    /\ made' = made + 1
    /\ calls' = [calls EXCEPT ![c] = [op |-> op, at |-> 1, copy |-> copy, clean |-> clean,
                                      whole |-> op = "save" => whole]]
    /\ causes' = causes \cup (IF op # "load" /\ Writers # {} THEN {"overlap"} ELSE {})

\* Every Windows dialog has a rule and a flag of its own, and a save may outlive it.
Own(c) == ui = "windows" => calls[c].copy.maps = editor.maps

Return(c) == calls' = [calls EXCEPT ![c] = Idle]

\* One query of GetRelayFilterRule: there is no transaction around them.
GetRelayFilterRule(c) ==
    /\ calls[c].op \in {"load", "start"} /\ calls[c].at <= Len(Tables)
    /\ LET t == Tables[calls[c].at] IN
         calls' = [calls EXCEPT ![c].at = @ + 1, ![c].copy.rule[t] = tables[t]]
    /\ UNCHANGED <<ui, known, tables, running, editor, window, busy, bounds, causes, loaded>>

\* Any query but the first may fail, or its rows end early: what was read of the
\* table stays in the rule and there is no error.
ReadShort(c) ==
    /\ calls[c].op \in {"load", "start"} /\ calls[c].at \in 2 .. Len(Tables)
    /\ Fault
    /\ LET t == Tables[calls[c].at] IN
         \E some \in SUBSET tables[t] :
            /\ some # tables[t]
            /\ calls' = [calls EXCEPT ![c].at = @ + 1, ![c].copy.rule[t] = some,
                                      ![c].whole = FALSE]
    /\ causes' = causes \cup (IF calls[c].op = "start" THEN {"unread"} ELSE {})
    /\ UNCHANGED <<ui, known, tables, running, editor, window, busy, edits, made, loaded>>

\* The first query fails.  The interface is told; Start is not stopped by it, and
\* its new server and client forward everything.
ReadFails(c) ==
    /\ calls[c].op \in {"load", "start"} /\ calls[c].at = 1
    /\ Fault
    /\ Return(c)
    /\ IF calls[c].op = "load"
       THEN busy' = (busy /\ ui = "windows") /\ UNCHANGED <<running, causes>>
       ELSE LET none == Copy(NoRule, calls[c].copy.maps) IN
            /\ server' = none /\ client' = none
            /\ causes' = causes \cup {"unread"}
            /\ UNCHANGED busy
    /\ UNCHANGED <<ui, known, tables, editor, window, edits, made, loaded>>

\* The transaction of Repository.SaveRelayFilterRule.
SaveRelayFilterRule(c) ==
    /\ calls[c].op = "save" /\ calls[c].at = 1
    /\ LET rule == calls[c].copy.rule
           kept == Kept(rule, known)
       IN /\ TablesBecome(kept)
          /\ calls' = [Stale(kept) EXCEPT ![c].at = Len(Tables) + 1]
          /\ causes' = causes \cup (IF kept = rule THEN {} ELSE {"unknown"})
                              \cup (IF \E t \in rule.zones \cup rule.parts : t[1] = 0 THEN {"zero"} ELSE {})
    /\ UNCHANGED <<ui, known, running, editor, window, busy, bounds, whole>>

\* The first statement, BeginTx or Commit failed: nobody gets the rule.
SaveFails(c) ==
    /\ calls[c].op = "save" /\ calls[c].at = 1
    /\ Fault
    /\ Return(c)
    /\ busy' = (busy /\ ~ Own(c))
    /\ UNCHANGED <<ui, known, tables, running, editor, window, edits, made, causes, loaded>>

\* Mutant of UpdateServer: only the client is told.
UpdateServerSkipped(c) ==
    /\ calls[c].op \in {"save", "start"} /\ calls[c].at = Len(Tables) + 1
    /\ calls' = [calls EXCEPT ![c].at = @ + 1]
    /\ UNCHANGED <<ui, known, tables, running, editor, window, busy, bounds, causes, loaded>>

UpdateServer(c) ==
    /\ calls[c].op \in {"save", "start"} /\ calls[c].at = Len(Tables) + 1
    /\ server' = calls[c].copy
    /\ calls' = [calls EXCEPT ![c].at = @ + 1]
    /\ UNCHANGED <<ui, known, tables, client, editor, window, busy, bounds, causes, loaded>>

(***************************************************************************)
(* The windows.                                                            *)
(***************************************************************************)
CodesOf(rule, scope) ==
    IF scope = {} THEN {k \in Codes : k \in rule.codes}
    ELSE {k \in Codes : \A o \in scope : <<o, k>> \in rule.objCodes}

\* Mutant of OpenWindow: the objects are ticked and not selected.
OpenWindowUnselected(rule) ==
    [open |-> TRUE, rows |-> known, ticked |-> rule.objects \cap known, scope |-> {},
     marked |-> CodesOf(rule, {})]

\* loadRfRule forgets which objects were selected before it fills the code pane;
\* initData of the Windows dialog selects the objects of the rule first.
OpenWindow(rule) ==
    LET ticked == rule.objects \cap known
        scope == IF ui = "windows" THEN ticked ELSE {}
    IN [open |-> TRUE, rows |-> known, ticked |-> ticked, scope |-> scope,
        marked |-> CodesOf(rule, scope)]

\* The answer of a load: pullRfResult, openRelayFilter, relayMsg.
ShowLoaded(c) ==
    /\ calls[c].op = "load" /\ calls[c].at > Len(Tables)
    /\ editor' = calls[c].copy
    /\ window' = IF ui = "terminal" THEN window ELSE OpenWindow(calls[c].copy.rule)
    /\ busy' = FALSE
    /\ fresh' = calls[c].clean /\ whole' = calls[c].whole
    /\ Return(c)
    /\ UNCHANGED <<ui, known, tables, running, bounds, causes>>

\* The client has the rule, and the interface the answer: the Fyne window shows
\* the rule it sent, maps and all; the Windows dialog closes.
UpdateClient(c) ==
    /\ calls[c].op \in {"save", "start"} /\ calls[c].at = Len(Tables) + 2
    /\ client' = calls[c].copy
    /\ Return(c)
    /\ IF calls[c].op = "start" \/ ui = "terminal" \/ ~ Own(c)
       THEN UNCHANGED <<editor, window, busy, fresh>>
       ELSE /\ busy' = FALSE
            /\ editor' = IF ui = "fyne" THEN calls[c].copy ELSE editor
            /\ window' = IF ui = "fyne" THEN OpenWindow(calls[c].copy.rule) ELSE NoWindow
            /\ fresh' = (fresh /\ editor' = editor)
    /\ UNCHANGED <<ui, known, tables, server, bounds, causes, whole>>

Load(c) ==
    /\ ui = "windows" => ~ window.open /\ Active("load") = {}
    /\ Begin(c, "load", Copy(NoRule, FreshMaps), TRUE)
    /\ busy' = (ui = "fyne" \/ busy)
    /\ UNCHANGED <<ui, known, tables, running, editor, window, edits, faults, loaded>>

\* Mutant of Collect: the objects on the screen, ticked or not.
CollectRows == [editor EXCEPT !.rule.objects = window.rows]

\* collectRelayFields makes a rule out of the text, without any detail.
collectRelayFields == Copy([editor.rule EXCEPT !.zones = {}, !.parts = {}], FreshMaps)

\* collectRfRule and save put the ticked objects in.
Collect == IF ui = "terminal" THEN collectRelayFields
           ELSE [editor EXCEPT !.rule.objects = window.ticked]

Save(c) ==
    /\ ui # "terminal" => window.open /\ ~ busy
    /\ Begin(c, "save", Collect, fresh)
    /\ busy' = (ui # "terminal")
    /\ UNCHANGED <<ui, known, tables, running, editor, window, edits, faults, loaded>>

\* SaveConfig stops the runtime and starts it; the lifecycle mutex lets one at a time.
Restart(c) ==
    /\ Active("start") = {}
    /\ Begin(c, "start", Copy(NoRule, FreshMaps), TRUE)
    /\ UNCHANGED <<ui, known, tables, running, editor, window, busy, edits, faults, loaded>>

(***************************************************************************)
(* Edits.  A change of ObjectCodes or of a detail is a write into a map.   *)
(* The goroutine of the Windows dialog takes its rule when it runs, with   *)
(* the global codes of that moment.                                        *)
(***************************************************************************)
Write(rule) ==
    LET seen(copy) == IF copy.maps # editor.maps THEN copy
                      ELSE [copy EXCEPT !.rule.objCodes = rule.objCodes,
                                        !.rule.zones = rule.zones, !.rule.parts = rule.parts]
        late(c) == calls[c].at = 1 /\ ui = "windows" /\ Own(c)
        passed(c) == IF late(c) THEN [seen(calls[c].copy) EXCEPT !.rule.codes = rule.codes]
                     ELSE seen(calls[c].copy)
    IN /\ edits < MaxEdits /\ edits' = edits + 1
       /\ editor' = Copy(rule, editor.maps)
       /\ server' = seen(server) /\ client' = seen(client)
       /\ calls' = [c \in Calls |-> [calls[c] EXCEPT
                       !.copy = passed(c), !.clean = @ /\ passed(c) = calls[c].copy]]
       /\ causes' = causes \cup
            (IF running' # running \/ \E c \in Writers : calls[c].at > 1 /\ calls'[c] # calls[c]
             THEN {"shared"} ELSE {})
       /\ fresh' = FALSE
       /\ UNCHANGED <<ui, known, tables, busy, made, faults, whole>>

Flip(set, e) == (set \cup {e}) \ (set \cap {e})

\* The check box and the group line, which every interface has, and the two lists
\* the terminal edits as text.
EditField ==
    /\ ui = "terminal" \/ window.open
    /\ \/ Write([editor.rule EXCEPT !.enabled = ~ @])
       \/ \E g \in Groups : Write([editor.rule EXCEPT !.groups = Flip(@, g)])
       \/ \E o \in Objects : ui = "terminal" /\ Write([editor.rule EXCEPT !.objects = Flip(@, o)])
       \/ \E k \in RuleCodes : ui = "terminal" /\ Write([editor.rule EXCEPT !.codes = Flip(@, k)])
    /\ UNCHANGED window

\* The codes of objects are lines, one per object, in an input that has one line:
\* what is entered there names one object.
EditObjectCodes ==
    /\ ui = "terminal"
    /\ \E o \in Objects, ks \in SUBSET RuleCodes : Write([editor.rule EXCEPT !.objCodes = {o} \X ks])
    /\ UNCHANGED window

\* The rows the search box leaves: "Select All" and "Clear" are about those.
Sought(rows) == SUBSET rows

\* The code pane follows the selection.
TickObjects(ticked) ==
    /\ window.open
    /\ window' = [window EXCEPT !.ticked = ticked, !.scope = ticked,
                                !.marked = CodesOf(editor.rule, ticked)]
    /\ fresh' = FALSE
    /\ UNCHANGED <<ui, known, tables, running, editor, busy, calls, bounds, causes, whole>>

clickObject == \E o \in window.rows : TickObjects(Flip(window.ticked, o))

\* "Clear" of the Fyne window does not look at the search box.
selectAllObjs ==
    \E sought \in Sought(window.rows) :
       \/ TickObjects(window.ticked \cup sought)
       \/ TickObjects(IF ui = "fyne" THEN {} ELSE window.ticked \ sought)

\* The marked codes become those of every selected object, or those of everyone
\* when no object is selected.
MarkCodes(marked) ==
    LET others == {t \in editor.rule.objCodes : t[1] \notin window.scope}
    IN /\ window.open
       /\ window' = [window EXCEPT !.marked = marked]
       /\ Write(IF window.scope = {} THEN [editor.rule EXCEPT !.codes = marked]
                ELSE [editor.rule EXCEPT !.objCodes = others \cup (window.scope \X marked)])

clickCode == \E k \in Codes : MarkCodes(Flip(window.marked, k))

selectAllCodes ==
    \E sought \in Sought(Codes) :
       MarkCodes(window.marked \cup sought) \/ MarkCodes(window.marked \ sought)

\* rfApplyDetail: for the one selected object, or else for everyone.  The object 0
\* is taken for no object (rfDetailObj).
EditDetails ==
    /\ ui = "fyne" /\ window.open
    /\ \E k \in Codes, zs \in SUBSET Zones, ps \in SUBSET Groups :
         LET owner == IF Cardinality(window.scope) = 1 THEN Rename(CHOOSE o \in window.scope : TRUE)
                      ELSE Everyone
             others(relation) == {t \in relation : t[1] # owner \/ t[2] # k}
         IN Write([editor.rule EXCEPT
                     !.zones = others(@) \cup ({owner} \X {k} \X zs),
                     !.parts = others(@) \cup ({owner} \X {k} \X ps)])
    /\ UNCHANGED window

CloseWindow ==
    /\ window.open
    /\ window' = NoWindow
    /\ UNCHANGED <<ui, known, tables, running, editor, busy, calls, bounds, causes, loaded>>

Edit == \/ EditField \/ EditObjectCodes \/ EditDetails \/ CloseWindow
        \/ clickObject \/ selectAllObjs \/ clickCode \/ selectAllCodes

Next ==
    \/ DeviceAppears \/ DeleteDevice \/ Edit
    \/ \E c \in Calls :
         \/ Load(c) \/ Save(c) \/ Restart(c)
         \/ GetRelayFilterRule(c) \/ ReadShort(c) \/ ReadFails(c)
         \/ SaveRelayFilterRule(c) \/ SaveFails(c)
         \/ UpdateServer(c) \/ UpdateClient(c) \/ ShowLoaded(c)

Spec == Init /\ [][Next]_vars

(***************************************************************************)
(* Properties.                                                             *)
(***************************************************************************)
\* Every copy of the rule is a rule, and the tables name only known devices.
TypeOK ==
    /\ ui \in Editors /\ known \subseteq Objects /\ tables \in Rules
    /\ {server, client, editor} \cup {calls[c].copy : c \in Calls} \subseteq Copies
    /\ tables = Kept(tables, known)
    /\ window.scope \subseteq window.ticked /\ window.ticked \subseteq window.rows

\* Between calls the server and the client decide by the rule that is stored, the
\* one a restart would load.  It takes one of these to set them apart: rows for
\* objects that are not in devices, a detail of the object 0, the deletion of a
\* device, two writers at once, an edit of maps that are shared with the running
\* rule, or a start whose queries failed (Repository.SaveRelayFilterRule ignores
\* what the tables refuse and Repository.GetRelayFilterRule what the queries did
\* not return; Runtime.SaveRelayFilterRule takes no lock).  After a start that
\* could not read everything the server and the client still decide by one rule:
\* none at all, or the stored one with rows missing and never one row more.
RunningRuleIsStored ==
    Writers = {} =>
        /\ causes \subseteq {"appeared"} => server.rule = tables /\ client.rule = tables
        /\ causes \subseteq {"appeared", "unread"} =>
              /\ client.rule = server.rule
              /\ server.rule = NoRule \/ PartOf(server.rule, tables)

\* What the tables refused comes back as a wider rule after a restart that reads
\* all of them: no device that was known then is forwarded more than before.  A
\* list of zones or targets that is lost altogether blocks everything.  (A start
\* whose queries fail, the cause "unread", has no such direction: rows of codes
\* lost forward more, rows of details lost forward less.)
LossBlocksMore ==
    Writers = {} /\ causes \subseteq {"unknown"} =>
        \A f \in Withheld(server.rule) :
            extractDeviceID(f) \in known => f \in Withheld(tables)

\* Saving what was loaded, with no edit and no other writer in between, leaves the
\* tables as they are.  The terminal interface drops every detail even then
\* (collectRelayFields).  A load that lost rows without an error is shown like any
\* other, and saving it erases the rows it lost; it adds none, and leaves the
\* switch alone.
UneditedSaveChangesNothing ==
    [][\A c \in Calls :
         calls[c].op = "save" /\ calls[c].at = 1 /\ calls[c].clean /\ calls'[c].at > 1 =>
            LET unedited == IF ui = "terminal" THEN [tables EXCEPT !.zones = {}, !.parts = {}]
                            ELSE tables
            IN /\ PartOf(tables', unedited)
               /\ calls[c].whole => tables' = unedited]_vars

\* Clicking a code in the Windows dialog changes the codes of the objects that are
\* ticked, and the codes of everyone only when none is (statusDesc).  The Fyne window
\* opens with ticked objects and edits everyone's codes (loadRfRule).
WindowsEditsWhatIsTicked ==
    [][ui = "windows" /\ window.open /\ edits' # edits
          /\ window.marked # window'.marked /\ window.ticked = window'.ticked =>
        /\ \A t \in editor.rule.objCodes \cup editor'.rule.objCodes :
              t[1] \notin window.ticked => (t \in editor.rule.objCodes <=> t \in editor'.rule.objCodes)
        /\ window.ticked # {} => editor'.rule.codes = editor.rule.codes]_vars
=============================================================================
