------------------------------ MODULE Terminal ------------------------------
(***************************************************************************)
(* Where a key of the terminal interface goes (tea/run.go): the screen     *)
(* that has the keys, the cursor of each screen, which is an index, and    *)
(* the text being edited.  Keys, ticks and answers are messages to one     *)
(* Update, and a View is drawn after each.                                 *)
(*                                                                         *)
(* What the lists hold and what a key sets going are in Lists,             *)
(* HistoryWindow, Settings and RuleStore; here a list is the rows it       *)
(* shows, and a field the word a search looks for.                         *)
(***************************************************************************)
EXTENDS Interface

CONSTANTS
    Words,       \* what a field may say, and what is searched for
    Types,       \* rows of event_types, in the order of their keys
    MaxMessages  \* bound: keys and answers

ASSUME TerminalAssumption ==
    IsFiniteSet(Types) /\ Types = 1 .. Cardinality(Types) /\ Words # {}

Plain == {"objects", "events", "colors", "history"}
Forms == {"settings", "relay"}
Tabs == {"objects", "events", "settings", "relay", "colors"}
Fields == 1 .. 2

VARIABLES
    mode, tab, editKey,
    rowsOf,    \* what each list shows
    text,      \* settings, relayFields
    query,     \* settingsQuery, relayQuery; "" for none
    cursor,    \* selObj, selEvt, selColor, historySel, selSetting, selRelay
    ended,     \* "no", "quit" or "panic"
    sent,
    underflow, \* the cursor was moved down an empty list
    edit       \* the row the edit was opened on, the one it changed, whether an answer came

screen == <<mode, tab, editKey>>
terminalVars == <<screen, rowsOf, text, query, cursor, ended, sent, underflow, edit>>

NoEdit == [opened |-> 0, landed |-> 0, answered |-> FALSE]
OnScreen == IF mode = "history" THEN "history" ELSE tab
minInt(a, b) == IF a < b THEN a ELSE b
maxInt(a, b) == IF a > b THEN a ELSE b

\* The row under a cursor of a plain list, 0 when there is none.
UnderCursor(list) ==
    LET at == {r \in rowsOf[list] : Cardinality({q \in rowsOf[list] : q < r}) = cursor[list]}
    IN IF at = {} THEN 0 ELSE CHOOSE r \in at : TRUE

TerminalInit ==
    /\ mode = "normal" /\ tab = "objects" /\ editKey = ""
    /\ \E shown \in {{}, {1, 2}}, loaded \in {{}, {2}} :
         rowsOf = [list \in Plain |-> CASE list = "colors" -> loaded
                                      [] list = "history" -> {} [] OTHER -> shown]
    /\ \E f \in [Fields -> Words] : text = [form \in Forms |-> f]
    /\ query = [form \in Forms |-> ""]
    /\ cursor = [list \in Plain \cup Forms |-> 0]
    /\ ended = "no" /\ sent = 0 /\ underflow = FALSE /\ edit = NoEdit

\* The lists are drawn from the cursor when it is above the window: an index of -1
\* is then out of range.  Fields and colours are drawn from the first.
View == ended' = IF OnScreen' \in {"objects", "events", "history"} /\ cursor'[OnScreen'] < 0
                 THEN "panic" ELSE "no"

Message == ended = "no" /\ sent < MaxMessages /\ sent' = sent + 1

(***************************************************************************)
(* Cursors.                                                                *)
(***************************************************************************)
\* Mutant of Clamped: a list that got shorter leaves the cursor where it is.
ClampedNever(index, n) == index

Clamped(index, n) == IF index >= n THEN maxInt(0, n - 1) ELSE index

ListBecomes(list, new) ==
    /\ rowsOf' = [rowsOf EXCEPT ![list] = new]
    /\ cursor' = [cursor EXCEPT ![list] = Clamped(@, Cardinality(new))]

\* isSettingVisible, isRelayVisible.
Visible(form, f) == {i \in DOMAIN f : query'[form] \in {"", f[i]}}

\* ensureSettingSelectionVisible, ensureRelaySelectionVisible.
Ensured(index, visible) ==
    CASE visible = {} -> 0
      [] index + 1 \in visible -> index
      [] OTHER -> (CHOOSE i \in visible : \A j \in visible : i <= j) - 1

FormBecomes(form, f) ==
    /\ text' = [text EXCEPT ![form] = f]
    /\ cursor' = [cursor EXCEPT ![form] = Ensured(@, Visible(form, f))]

(***************************************************************************)
(* Answers and ticks, whatever the mode.                                   *)
(***************************************************************************)
\* tickMsg, bootMsg, moreEventsMsg: applyFilters, one list at a time.
ListsAnswer ==
    /\ Message /\ \E list \in {"objects", "events"}, new \in SUBSET {1, 2} : ListBecomes(list, new)
    /\ UNCHANGED <<screen, text, query, underflow, edit>>
    /\ View

historyMsg ==
    /\ Message /\ \E new \in SUBSET {1, 2} : ListBecomes("history", new)
    /\ UNCHANGED <<screen, text, query, underflow, edit>>
    /\ View

\* A category stored since may come before the others.
loadColors ==
    /\ \E new \in {rowsOf["colors"], Types} : ListBecomes("colors", new)
    /\ edit' = [edit EXCEPT !.answered = TRUE]
    /\ UNCHANGED <<screen, text, query, underflow>>

colorSaveMsg == Message /\ rowsOf["colors"] # {} /\ loadColors /\ View

\* configSaveMsg, relayMsg: the fields are built anew under the text being edited.
FormAnswer ==
    /\ Message
    /\ UNCHANGED query
    /\ \E form \in Forms, f \in [Fields -> Words] : FormBecomes(form, f)
    /\ edit' = [edit EXCEPT !.answered = TRUE]
    /\ UNCHANGED <<screen, rowsOf, underflow>>
    /\ View

(***************************************************************************)
(* Keys.                                                                   *)
(***************************************************************************)
Pressed == Message /\ mode \in {"normal", "history"}
On(list) == Pressed /\ OnScreen = list

Up(list) ==
    /\ On(list) /\ cursor' = [cursor EXCEPT ![list] = maxInt(0, @ - 1)]
    /\ UNCHANGED <<screen, rowsOf, text, query, underflow, edit>>
    /\ View

Down(list) ==
    /\ On(list) /\ cursor' = [cursor EXCEPT ![list] = minInt(Cardinality(rowsOf[list]) - 1, @ + 1)]
    /\ underflow' = (underflow \/ rowsOf[list] = {})
    /\ UNCHANGED <<screen, rowsOf, text, query, edit>>
    /\ View

\* moveSettingSelection, moveRelaySelection: the next one that is visible, around the end.
Move(form, dir) ==
    /\ On(form) /\ UNCHANGED query
    /\ LET visible == Visible(form, text[form])
           n == Cardinality(Fields)
           start == Ensured(cursor[form], visible)
           hops == {k \in 1 .. n : ((start + dir * k) % n) + 1 \in visible}
           hop == CHOOSE k \in hops : \A j \in hops : k <= j
       IN cursor' = [cursor EXCEPT ![form] = IF hops = {} THEN start ELSE (start + dir * hop) % n]
    /\ UNCHANGED <<screen, rowsOf, text, underflow, edit>>
    /\ View

\* "f" and "t": the filter and the switch of the tests.
FilterKey ==
    /\ On("events") /\ \E new \in SUBSET {1, 2} : ListBecomes("events", new)
    /\ UNCHANGED <<screen, text, query, underflow, edit>>
    /\ View

SwitchTab ==
    /\ Pressed /\ mode = "normal"
    /\ \E t \in Tabs \ {tab} : tab' = t
    /\ UNCHANGED <<mode, editKey, rowsOf, text, query, cursor, underflow, edit>>
    /\ View

Quit ==
    /\ Pressed /\ mode = "normal" /\ ended' = "quit"
    /\ UNCHANGED <<screen, rowsOf, text, query, cursor, underflow, edit>>

ShowHistory ==
    /\ On("objects") /\ UnderCursor("objects") # 0
    /\ mode' = "history"
    /\ rowsOf' = [rowsOf EXCEPT !["history"] = {}]
    /\ cursor' = [cursor EXCEPT !["history"] = 0]
    /\ UNCHANGED <<tab, editKey, text, query, underflow, edit>>
    /\ View

LeaveHistory ==
    /\ On("history") /\ mode' = "normal"
    /\ UNCHANGED <<tab, editKey, rowsOf, text, query, cursor, underflow, edit>>
    /\ View

OpenSearch ==
    /\ Pressed /\ mode' = "search" /\ editKey' = OnScreen
    /\ UNCHANGED <<tab, rowsOf, text, query, cursor, underflow, edit>>
    /\ View

\* A row that is not visible is not edited.  The colours look only whether there are any.
OpenEdit ==
    /\ Pressed /\ OnScreen \in Forms \cup {"colors"} /\ UNCHANGED query
    /\ IF tab = "colors" THEN rowsOf[tab] # {} ELSE cursor[tab] + 1 \in Visible(tab, text[tab])
    /\ mode' = "edit" /\ editKey' = tab
    /\ edit' = [opened |-> IF tab = "colors" THEN UnderCursor(tab) ELSE cursor[tab] + 1,
                landed |-> 0, answered |-> FALSE]
    /\ ended' = IF cursor[tab] < 0 THEN "panic" ELSE "no"
    /\ UNCHANGED <<tab, rowsOf, text, cursor, underflow>>

\* " ", "x" and "p" change the field under the cursor, "R" all of them.
ChangeField ==
    /\ Pressed /\ OnScreen \in Forms /\ UNCHANGED query
    /\ \/ /\ cursor[tab] + 1 \in Visible(tab, text[tab])
          /\ \E w \in Words : text' = [text EXCEPT ![tab][cursor[tab] + 1] = w]
          /\ UNCHANGED cursor
       \/ tab = "settings" /\ \E f \in [Fields -> Words] : FormBecomes(tab, f)
    /\ UNCHANGED <<screen, rowsOf, underflow, edit>>
    /\ View

ReloadColors == On("colors") /\ loadColors /\ View

SaveColor ==
    /\ On("colors") /\ rowsOf["colors"] # {}
    /\ ended' = IF cursor["colors"] < 0 THEN "panic" ELSE "no"
    /\ UNCHANGED <<screen, rowsOf, text, query, cursor, underflow, edit>>

(***************************************************************************)
(* The text line.                                                          *)
(***************************************************************************)
Leave ==
    /\ Message /\ mode \in {"edit", "search"} /\ mode' = "normal"
    /\ UNCHANGED <<tab, editKey, rowsOf, text, query, cursor, underflow, edit>>
    /\ View

\* The text goes to the row that is under the cursor by now.
applyEditedValue ==
    /\ Message /\ mode = "edit" /\ mode' = "normal"
    /\ IF editKey = "colors"
       THEN edit' = [edit EXCEPT !.landed = UnderCursor(editKey)] /\ UNCHANGED text
       ELSE /\ edit' = [edit EXCEPT !.landed = cursor[editKey] + 1]
            /\ \E w \in Words : text' = [text EXCEPT ![editKey][cursor[editKey] + 1] = w]
    /\ UNCHANGED <<tab, editKey, rowsOf, query, cursor, underflow>>
    /\ View

\* A search ends in the normal mode, the search of a history as well: the history is
\* off the screen when its answer comes.
applySearch ==
    /\ Message /\ mode = "search" /\ mode' = "normal"
    /\ CASE editKey \in Forms ->
              /\ \E w \in Words \cup {""} : query' = [query EXCEPT ![editKey] = w]
              /\ FormBecomes(editKey, text[editKey])
              /\ UNCHANGED rowsOf
         [] editKey \in {"objects", "events"} ->
              (\E new \in SUBSET {1, 2} : ListBecomes(editKey, new)) /\ UNCHANGED <<query, text>>
         [] OTHER -> UNCHANGED <<rowsOf, query, text, cursor>>
    /\ UNCHANGED <<tab, editKey, underflow, edit>>
    /\ View

TerminalNext ==
    \/ ListsAnswer \/ historyMsg \/ colorSaveMsg \/ FormAnswer
    \/ \E list \in Plain : Up(list) \/ Down(list)
    \/ \E form \in Forms : Move(form, 1) \/ Move(form, -1)
    \/ FilterKey \/ SwitchTab \/ Quit \/ ShowHistory \/ LeaveHistory \/ OpenSearch \/ OpenEdit
    \/ ChangeField \/ ReloadColors \/ SaveColor \/ Leave \/ applyEditedValue \/ applySearch

\* The cursor of every list is on a row of it, however the list changes under it,
\* and the program ends when the user quits; only moving down an empty list (selObj,
\* selEvt, historySel and selColor become -1) takes the cursor off, and the next
\* View, or the next edit of a colour, ends the program.  The text typed goes to the
\* row the edit was opened on, unless an answer has changed the rows meanwhile
\* (applyEditedValue looks at the cursor).
KeysFindTheirRow ==
    /\ ~ underflow =>
         /\ ended # "panic"
         /\ \A list \in Plain : cursor[list] \in 0 .. maxInt(0, Cardinality(rowsOf[list]) - 1)
         /\ \A form \in Forms : cursor[form] + 1 \in Fields
    /\ edit.landed \in {0, edit.opened} \/ edit.answered
=============================================================================
