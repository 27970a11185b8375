--------------------------- MODULE HistoryWindow ---------------------------
(***************************************************************************)
(* The history of one object: what the terminal (historyDevice, the keys   *)
(* of handleHistoryKeys) and the Windows dialog (historyDialog) show, and  *)
(* the queries behind it.  The terminal makes a query of every key and     *)
(* shows every answer; the dialog has one query at a time, drops what is   *)
(* asked meanwhile, and polls.                                             *)
(*                                                                         *)
(* This commit has no code that opens the history of the Fyne interface or *)
(* queries it (requestHistoryReload), so that one is left out.             *)
(***************************************************************************)
EXTENDS Interface

CONSTANTS
    Panels,       \* object numbers
    HistoryLimits,\* first limits: the LogLimit of a configuration, or a chunk
    HistoryChunk, \* historyLoadChunk
    Queries,      \* goroutines that query
    MaxNew,       \* bound: events of an object
    MaxKeys,      \* bound: what the user does
    MaxFails      \* bound: queries that fail

ASSUME HistoryAssumption ==
    HistoryLimits \subseteq Nat /\ HistoryChunk \in Nat /\ 0 \notin Panels

VARIABLES
    events,   \* how many events each object has
    window,   \* the object and the filter of the window, its limit, and the switches
    rows,     \* the answer on the screen
    queries,  \* queries under way
    first,    \* initialDeviceHistoryLimit: the first limit by the configuration
    keys, fails,
    crossed,  \* the last request met another under way, or failed
    resized   \* the limit of an open window was reset and no answer has come since

historyVars == <<events, window, rows, queries, first, keys, fails, crossed, resized>>

\* Every other event is an alarm; the filter, the search and the check box of the
\* tests are one.
Filters == {"all", "alarm"}
Matching(o, filter) == {n \in 1 .. events[o] : filter = "all" \/ n % 2 = 1}

Question(o, filter, limit) == [object |-> o, filter |-> filter, limit |-> limit]
FilterDeviceHistory(q) == Newest(Matching(q.object, q.filter), q.limit)

Nothing == [q |-> Question(0, "all", 0), list |-> <<>>]
NoQuery == [at |-> "none", q |-> Nothing.q, list |-> <<>>]
Closed == [object |-> 0, filter |-> "all", limit |-> 0, allShown |-> FALSE,
           busy |-> FALSE, live |-> FALSE]
Open == window.object # 0
Asked == Question(window.object, window.filter, window.limit)
UnderWay == {c \in Queries : queries[c].at # "none"}

HistoryInit ==
    /\ events = [o \in Panels |-> 0]
    /\ window = Closed /\ rows = Nothing /\ queries = [c \in Queries |-> NoQuery]
    /\ first \in HistoryLimits
    /\ keys = 0 /\ fails = 0 /\ crossed = FALSE /\ resized = FALSE

NewEvent ==
    /\ \E o \in Panels : events[o] < MaxNew /\ events' = [events EXCEPT ![o] = @ + 1]
    /\ UNCHANGED <<window, rows, queries, first, keys, fails, crossed, resized>>

(***************************************************************************)
(* Requests.                                                               *)
(***************************************************************************)
\* loadHistoryCmd: the goroutine takes the question with it.
loadHistoryCmd(q) ==
    /\ \E c \in Queries :
         /\ queries[c].at = "none"
         /\ queries' = [queries EXCEPT ![c].at = "asked", ![c].q = q]
    /\ crossed' = (UnderWay # {})

\* reloadHistory: a request made while one is under way is dropped; the goroutine
\* looks at the window when it runs.
reloadHistory(w) ==
    IF w.busy THEN window' = w /\ crossed' = TRUE /\ UNCHANGED queries
    ELSE /\ \E c \in Queries : queries[c].at = "none"
                                 /\ queries' = [queries EXCEPT ![c].at = "asked"]
         /\ window' = [w EXCEPT !.busy = TRUE]
         /\ crossed' = FALSE

Reload(w, limit) ==
    IF ui = "terminal"
    THEN loadHistoryCmd(Question(w.object, w.filter, limit)) /\ window' = [w EXCEPT !.busy = TRUE]
    ELSE reloadHistory([w EXCEPT !.limit = limit, !.allShown = FALSE])

Key == keys < MaxKeys /\ keys' = keys + 1 /\ UNCHANGED <<events, fails>>

\* From here on the terminal keeps its limit and its flag until an answer comes.
OpenHistory ==
    /\ ~ Open /\ Key
    /\ rows' = Nothing /\ resized' = FALSE
    /\ \E o \in Panels :
         Reload([Closed EXCEPT !.object = o, !.limit = first, !.live = ui = "windows"], first)
    /\ UNCHANGED first

\* The answer to a dialog that is closed goes nowhere.
CloseHistory ==
    /\ Open /\ Key
    /\ window' = [Closed EXCEPT !.busy = ui = "terminal" /\ window.busy]
    /\ rows' = Nothing /\ resized' = FALSE
    /\ IF ui = "terminal" THEN UNCHANGED queries ELSE queries' = [c \in Queries |-> NoQuery]
    /\ UNCHANGED <<first, crossed>>

\* The search of the dialog is one of the filters.
SetFilter ==
    /\ Open /\ Key
    /\ \E f \in Filters \ {window.filter} : Reload([window EXCEPT !.filter = f], first)
    /\ UNCHANGED <<rows, first, resized>>

\* The search of the terminal ends in the normal mode (Update): the history is off
\* the screen when its query is made.
Search ==
    /\ Open /\ ui = "terminal" /\ Key
    /\ \E f \in Filters : loadHistoryCmd(Question(window.object, f, first))
    /\ window' = [Closed EXCEPT !.busy = TRUE]
    /\ rows' = Nothing /\ resized' = FALSE
    /\ UNCHANGED first

More ==
    /\ Open /\ Key
    /\ ui = "terminal" => ~ window.allShown /\ ~ window.busy
    /\ Reload(window, window.limit + HistoryChunk)
    /\ UNCHANGED <<rows, first, resized>>

\* The check box of the live polling asks at once when it is set.
SetLive ==
    /\ Open /\ ui = "windows" /\ Key
    /\ IF window.live THEN window' = [window EXCEPT !.live = FALSE] /\ UNCHANGED <<queries, crossed>>
       ELSE reloadHistory([window EXCEPT !.live = TRUE])
    /\ UNCHANGED <<rows, first, resized>>

\* A configuration saved before (configSaveMsg): the terminal takes the limit over
\* whatever is on the screen, without a query.
LimitSaved ==
    /\ Key
    /\ first' \in HistoryLimits
    /\ IF ui = "terminal" /\ Open
       THEN window' = [window EXCEPT !.limit = first'] /\ resized' = TRUE
       ELSE UNCHANGED <<window, resized>>
    /\ UNCHANGED <<rows, queries, crossed>>

\* startHistoryLivePolling, and "refresh".
Poll ==
    /\ Open /\ ui = "windows" /\ window.live /\ ~ window.busy
    /\ reloadHistory(window)
    /\ UNCHANGED <<events, rows, first, keys, fails, resized>>

\* startHistoryAutoLoad: the last row is in sight.
AutoLoad ==
    /\ Open /\ ui = "windows" /\ ~ window.busy /\ ~ window.allShown
    /\ window.limit <= MaxNew
    /\ reloadHistory([window EXCEPT !.limit = @ + HistoryChunk])
    /\ UNCHANGED <<events, rows, first, keys, fails, resized>>

(***************************************************************************)
(* Answers.                                                                *)
(***************************************************************************)
Query(c) ==
    /\ queries[c].at = "asked"
    /\ LET q == IF ui = "terminal" THEN queries[c].q ELSE Asked IN
         queries' = [queries EXCEPT ![c] = [at |-> "answered", q |-> q,
                                            list |-> FilterDeviceHistory(q)]]
    /\ UNCHANGED <<events, window, rows, first, keys, fails, crossed, resized>>

\* Mutant of Show: the limit of the answer is not kept.
ShowKeepingLimit(c) ==
    /\ queries[c].at = "answered"
    /\ rows' = IF Open THEN [q |-> queries[c].q, list |-> queries[c].list] ELSE rows
    /\ window' = [window EXCEPT !.busy = FALSE,
                                !.allShown = Open /\ Len(queries[c].list) < window.limit]
    /\ queries' = [queries EXCEPT ![c] = NoQuery]
    /\ resized' = (resized /\ ~ Open)
    /\ UNCHANGED <<events, first, keys, fails, crossed>>

\* historyMsg carries no object; the dialog compares with the limit it has by now.
Show(c) ==
    /\ queries[c].at = "answered"
    /\ LET a == queries[c]
           limit == IF ui = "terminal" THEN a.q.limit ELSE window.limit
       IN /\ rows' = IF Open THEN [q |-> a.q, list |-> a.list] ELSE rows
          /\ window' = [window EXCEPT !.busy = FALSE,
                                      !.limit = IF Open THEN limit ELSE @,
                                      !.allShown = Open /\ Len(a.list) < limit]
    /\ queries' = [queries EXCEPT ![c] = NoQuery]
    /\ resized' = (resized /\ ~ Open)
    /\ UNCHANGED <<events, first, keys, fails, crossed>>

\* Mutant of Refused: the flag stays set on the error path.
RefusedBusy(c) ==
    /\ queries[c].at = "asked" /\ fails < MaxFails /\ fails' = fails + 1
    /\ queries' = [queries EXCEPT ![c] = NoQuery]
    /\ crossed' = TRUE
    /\ UNCHANGED <<events, window, rows, first, keys, resized>>

Refused(c) ==
    /\ queries[c].at = "asked" /\ fails < MaxFails /\ fails' = fails + 1
    /\ queries' = [queries EXCEPT ![c] = NoQuery]
    /\ window' = [window EXCEPT !.busy = FALSE]
    /\ crossed' = TRUE
    /\ UNCHANGED <<events, rows, first, keys, resized>>

HistoryNext ==
    \/ NewEvent \/ OpenHistory \/ CloseHistory \/ SetFilter \/ Search \/ More \/ SetLive
    \/ LimitSaved \/ Poll \/ AutoLoad
    \/ \E c \in Queries : Query(c) \/ Show(c) \/ Refused(c)

\* The ticker polls again and again, and a query comes back.
HistoryFairness ==
    /\ WF_historyVars(Poll)
    /\ \A c \in Queries : WF_historyVars(Query(c) \/ Show(c))

(***************************************************************************)
(* Properties.                                                             *)
(***************************************************************************)
\* Once no query is under way, the window shows what its own object and filter were
\* answered, under the limit it has, and claims to show all only when that answer did,
\* unless the last request met another: the terminal then shows whichever answer came
\* last, were it another object's; the dialog has dropped the request.  The limit may be
\* another one when a saved configuration has reset that of the terminal since.
RowsAreTheAnswer ==
    Open /\ UnderWay = {} /\ ~ crossed =>
        /\ rows.q = Question(window.object, window.filter, rows.q.limit)
        /\ rows.q.limit = window.limit \/ (resized /\ window.limit = first)
        /\ window.allShown => Len(rows.list) < rows.q.limit

\* While it polls, the dialog catches up with the user and with the table, whatever
\* it dropped; what it says of more to load is true again.
PollingCatchesUp ==
    <>[](Open /\ window.live =>
            /\ rows.q = Asked /\ rows.list = FilterDeviceHistory(Asked)
            /\ window.allShown => Len(rows.list) < window.limit)
=============================================================================
