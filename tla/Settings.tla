------------------------------ MODULE Settings ------------------------------
(***************************************************************************)
(* The settings: the form of a user interface, the configuration it holds  *)
(* a copy of, and the configuration the runtime works with.  Of the        *)
(* configuration the model keeps the rules by which an account number is   *)
(* changed on its way to the station (core/processor.go): they are the     *)
(* only part that is text to the user and a list to the program, and the   *)
(* part where a form that is not up to date costs an alarm.                *)
(*                                                                         *)
(* Runtime.SaveConfig is one step here; Lifecycle has its inside.          *)
(***************************************************************************)
EXTENDS Interface

CONSTANTS
    MaxAccount,  \* 9999 in the program
    Legacy,      \* the range of old configurations: <<2000, 2200>>
    Lines,       \* what a line of the form may say: a range or Garbage
    Garbage,
    Additions,   \* values of AccNumAdd and AccNumOffset
    Savers,      \* goroutines that save
    Most         \* bounds: [save, edit, restart]

Accounts == 0 .. MaxAccount
NoRange == [from |-> 0, to |-> 0, delta |-> 0]
Ranges == Lines \ {Garbage}

ASSUME SettingsAssumption == /\ MaxAccount \in Nat
                             /\ \A r \in Ranges : DOMAIN r = DOMAIN NoRange
                             /\ DOMAIN Most = {"save", "edit", "restart"}

VARIABLES
    config,   \* Runtime.config: [add, offset, ranges]
    held,     \* the copy of the interface, m.cfg
    form,     \* the text on the screen: [add, lines]
    saves,    \* saves under way
    edited,   \* the form was changed since it was filled
    stale,    \* the last save met another, or failed half way
    steps     \* how many saves, edits and restarts there were

settingsVars == <<config, held, form, saves, edited, stale, steps>>

Ordered(r) == IF r.from > r.to THEN [r EXCEPT !.from = r.to, !.to = r.from] ELSE r
Order(ranges) == [i \in DOMAIN ranges |-> Ordered(ranges[i])]

\* The part of Normalize that is about account numbers.
Normalize(cfg) ==
    LET add == IF cfg.add = 0 THEN cfg.offset ELSE cfg.add
        default == <<[from |-> Legacy[1], to |-> Legacy[2], delta |-> add]>>
        ranges == SelectSeq(Order(cfg.ranges), LAMBDA r : r # NoRange)
    IN [add |-> add, offset |-> IF cfg.offset = 0 THEN add ELSE cfg.offset,
        ranges |-> IF ranges = <<>> THEN default ELSE ranges]

\* Mutant of ChangeAccountNumber: the last range that has the account counts.
ChangeAccountNumberLast(account, cfg) ==
    LET matching == {i \in DOMAIN cfg.ranges :
                       account \in cfg.ranges[i].from .. cfg.ranges[i].to}
        last == CHOOSE i \in matching : \A j \in matching : j <= i
        changed == account + (IF matching # {} THEN cfg.ranges[last].delta
                              ELSE IF account \in Legacy[1] .. Legacy[2] THEN cfg.add ELSE 0)
    IN IF account < 1 \/ changed \notin 1 .. MaxAccount THEN 0 ELSE changed

\* The number a frame leaves with, 0 when it is refused: the first range that has it
\* counts, and then the old one, whatever the ranges say.
ChangeAccountNumber(account, cfg) ==
    LET matching == {i \in DOMAIN cfg.ranges :
                       account \in cfg.ranges[i].from .. cfg.ranges[i].to}
        first == CHOOSE i \in matching : \A j \in matching : i <= j
        changed == account + (IF matching # {} THEN cfg.ranges[first].delta
                              ELSE IF account \in Legacy[1] .. Legacy[2] THEN cfg.add ELSE 0)
    IN IF account < 1 \/ changed \notin 1 .. MaxAccount THEN 0 ELSE changed

\* formatAccountRanges, one range a line, and back.
Text(cfg) == [add |-> cfg.add, lines |-> cfg.ranges]
parseAccountRanges(lines) == Order(lines)

Idle == [at |-> "none", cfg |-> [add |-> 0, offset |-> 0, ranges |-> <<>>], newest |-> FALSE]
SavesUnderWay == {c \in Savers : saves[c].at # "none"}
Step(kind) == steps[kind] < Most[kind] /\ steps' = [steps EXCEPT ![kind] = @ + 1]

Written == UNION {[1 .. n -> Lines] : n \in 0 .. 2}
Files == [add : Additions, offset : Additions,
          ranges : {<<NoRange>>} \cup {w \in Written : \A i \in DOMAIN w : w[i] # Garbage}]

\* The program starts with what is in the file, and fills the form.
Started(file) ==
    /\ config = file /\ held = file /\ form = Text(file)
    /\ saves = [c \in Savers |-> Idle] /\ edited = FALSE /\ stale = FALSE

\* Store.Load, of a file written by hand or of none.
SettingsInit ==
    /\ \E file \in Files : Started(Normalize(file))
    /\ steps = [kind \in DOMAIN Most |-> 0]

LoadConfig ==
    /\ Step("restart")
    /\ config' = Normalize(config) /\ held' = config' /\ form' = Text(config')
    /\ saves' = [c \in Savers |-> Idle] /\ edited' = FALSE /\ stale' = FALSE

\* The input of the terminal has one line; what it has of several stays as long as it
\* is not edited.  Only the Fyne form has the old addition.
EditForm ==
    /\ Step("edit")
    /\ \/ \E w \in Written : (ui = "terminal" => Len(w) <= 1) /\ form' = [form EXCEPT !.lines = w]
       \/ \E a \in Additions : ui = "fyne" /\ form' = [form EXCEPT !.add = a]
    /\ edited' = TRUE
    /\ UNCHANGED <<config, held, saves, stale>>

\* handleSettingsKeys "R", onResetConfig, loadConfigEditors.
ResetForm ==
    /\ edited
    /\ form' = Text(held) /\ edited' = FALSE
    /\ UNCHANGED <<config, held, saves, stale, steps>>

\* collectConfig, collectCfg, collectConfigFromEditors: a form without ranges keeps
\* those of the copy, and a line that is no range stops the save.
Collected == Normalize([add |-> IF ui = "fyne" THEN form.add ELSE held.add, offset |-> held.offset,
                        ranges |-> IF form.lines = <<>> THEN held.ranges
                                   ELSE parseAccountRanges(form.lines)])

SaveForm(c) ==
    /\ saves[c].at = "none" /\ \A i \in DOMAIN form.lines : form.lines[i] # Garbage
    /\ Step("save")
    /\ saves' = [k \in Savers |-> IF k = c THEN [at |-> "asked", cfg |-> Collected, newest |-> TRUE]
                                  ELSE [saves[k] EXCEPT !.newest = FALSE]]
    /\ stale' = (stale \/ SavesUnderWay # {})
    /\ UNCHANGED <<config, held, form, edited>>

\* It may fail before the file is written, or after, when the runtime does not start.
SaveConfig(c) ==
    /\ saves[c].at = "asked"
    /\ \/ /\ config' = saves[c].cfg /\ saves' = [saves EXCEPT ![c].at = "saved"]
          /\ UNCHANGED stale
       \/ /\ config' \in {config, saves[c].cfg} /\ saves' = [saves EXCEPT ![c].at = "failed"]
          /\ stale' = (stale \/ config' # config)
    /\ UNCHANGED <<held, form, edited, steps>>

GetConfig(c) ==
    /\ saves[c].at = "saved"
    /\ saves' = [saves EXCEPT ![c].at = "answered", ![c].cfg = config]
    /\ UNCHANGED <<config, held, form, edited, stale, steps>>

\* configSaveMsg, pullSaveResult, saveConfig: what was typed meanwhile is lost.
ShowSaved(c) ==
    /\ saves[c].at \in {"answered", "failed"}
    /\ IF saves[c].at = "answered" /\ (ui = "windows" => saves[c].newest)
       THEN /\ held' = saves[c].cfg /\ form' = Text(held') /\ edited' = FALSE
            /\ stale' = (stale /\ (SavesUnderWay # {c} \/ held' # config))
       ELSE UNCHANGED <<held, form, edited, stale>>
    /\ saves' = [saves EXCEPT ![c] = Idle]
    /\ UNCHANGED <<config, steps>>

SettingsNext ==
    \/ LoadConfig \/ EditForm \/ ResetForm
    \/ \E c \in Savers : SaveForm(c) \/ SaveConfig(c) \/ GetConfig(c) \/ ShowSaved(c)

\* What the lines of the form say of an account: the first that has it counts.
Says(account) ==
    LET of == {i \in DOMAIN form.lines : account \in form.lines[i].from .. form.lines[i].to}
    IN IF of = {} THEN {account, account + config.add}
       ELSE {account + form.lines[CHOOSE i \in of : \A j \in of : i <= j].delta}

\* A form nobody has changed since it was filled is the configuration in force, and
\* every account leaves with the number the form gives it; an account that no line
\* has leaves unchanged, or by the old addition when it is in the old range.  It takes
\* two saves at once, or a save that fails after the file was written, for another
\* configuration to be in force.
RemapIsShown ==
    SavesUnderWay = {} /\ ~ edited /\ ~ stale =>
        /\ held = config /\ form = Text(config)
        /\ \A a \in Accounts \ {0} : LET new == ChangeAccountNumber(a, config) IN
             new \in Says(a) \/ (new = 0 /\ \E n \in Says(a) : n \notin 1 .. MaxAccount)
=============================================================================
