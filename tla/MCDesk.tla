------------------------------- MODULE MCDesk -------------------------------
(***************************************************************************)
(* The parts of a user interface that share no state, on one instance: a   *)
(* behaviour is about the lists, the history window, the settings, the     *)
(* status line or the keys of the terminal, and the others stay as they    *)
(* are at the start.                                                       *)
(***************************************************************************)
EXTENDS Lists, HistoryWindow, Settings, Stats, Terminal

VARIABLE scene

MCOwner == <<1, 1>>
\* <<changes, asked, saved, limit>> at the start: two loads and an event; two loads, a
\* change and the retention; a load, a change and an event, with either limit; a load
\* and two events; a load and two changes.
MCBeginnings == {<<3, 0, 1, 1>>, <<2, 0, 2, 1>>, <<2, 1, 1, 1>>, <<2, 1, 1, 2>>,
                 <<3, 1, 0, 2>>, <<1, 1, 2, 1>>}

Line(from, to, delta) == [from |-> from, to |-> to, delta |-> delta]
MCLegacy == <<2, 3>>
MCLines == {Line(1, 2, 2), Line(4, 2, -2), Garbage}
MCMost == [save |-> 2, edit |-> 1, restart |-> 1]

Init ==
    /\ scene \in {"lists", "history", "settings", "stats", "terminal"}
    /\ ui \in Interfaces
    /\ scene = "history" => ui \in {"terminal", "windows"}
    /\ scene \in {"stats", "terminal"} => ui = "terminal"
    /\ ListsInit /\ HistoryInit /\ SettingsInit /\ StatsInit /\ TerminalInit
    \* The other parts begin in one state.
    /\ scene # "lists" =>
         /\ stored = [d \in Objects |-> 1]
         /\ <<changes, asked, saved, limit>> = CHOOSE b \in Beginnings : TRUE
    /\ scene # "history" => first = 1
    /\ scene # "settings" =>
         config = Normalize([add |-> 0, offset |-> 0, ranges |-> <<>>])
    /\ scene # "terminal" => /\ \A l \in Plain : rowsOf[l] = {}
                             /\ text = [f \in Forms |-> [i \in Fields |-> CHOOSE w \in Words : TRUE]]

Next ==
    /\ \/ scene = "lists" /\ ListsNext
          /\ UNCHANGED <<historyVars, settingsVars, statsVars, terminalVars>>
       \/ scene = "history" /\ HistoryNext
          /\ UNCHANGED <<listsVars, settingsVars, statsVars, terminalVars>>
       \/ scene = "settings" /\ SettingsNext
          /\ UNCHANGED <<listsVars, historyVars, statsVars, terminalVars>>
       \/ scene = "stats" /\ StatsNext
          /\ UNCHANGED <<listsVars, historyVars, settingsVars, terminalVars>>
       \/ scene = "terminal" /\ TerminalNext
          /\ UNCHANGED <<listsVars, historyVars, settingsVars, statsVars>>
    /\ UNCHANGED <<scene, ui>>

vars == <<scene, ui, listsVars, historyVars, settingsVars, statsVars,
          terminalVars>>
Spec == Init /\ [][Next]_vars /\ HistoryFairness
=============================================================================
