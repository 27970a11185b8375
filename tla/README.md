# CID relay: specification, model checking and proofs

The program receives Contact ID (CID) messages of alarm panels over TCP,
forwards them to a monitoring station, answers each panel with ACK or NACK,
writes the events to SQLite and shows them in one of three user interfaces.
This directory holds TLA+ modules that model its concurrent core, its storage
and what its user interfaces do with both, the TLC configurations that check
them on small instances, and proofs checked by TLAPS.
Paths and line numbers below are relative to `src/internal/` unless they start
with `src/`.

## 1. The system

| component | code | state | operations |
|---|---|---|---|
| TCP server | `netrelay/tcp_server.go` | listener, tracked connections, copy of the filter rule | accept, one handler goroutine per connection: read, split into frames, answer heartbeats, check the rule, enqueue, wait up to 10 s for the result, call back, answer |
| message queue | `core/queue.go` | bounded channel; each message carries a reply channel of capacity 1 | enqueue without waiting, receive |
| relay client | `netrelay/tcp_client.go` | connection to the station, its own copy of the rule | dial with backoff, take a message, check the rule again, write, read a one-byte verdict, reply |
| runtime | `runtime/runtime.go` | lifecycle mutex, run context, WaitGroup of six goroutines, device and event queues, repository handle, configuration | Start, Stop, SaveConfig, SaveRelayFilterRule, queries, emission to subscribers |
| event writer | `runtime.processEvents` | batch, ticker | collect, flush (batch, retry, one by one), drain at shutdown |
| device updates | `runtime.processDeviceUpdates` | device queue | save, emit |
| repository | `data/repository.go` | SQLite tables, write lock, caches of row ids | schema, save device/event/batch, filter rule, delete device, queries |
| maintenance | `data/maintenance.go` | archive database | archive and delete old events in batches |
| CID processing | `core/processor.go`, `core/classifier.go` | none | validate, remap account and code, classify |
| metrics | `core/metrics.go` | counters, 60 s window | increment, snapshot |
| configuration | `config/` | YAML file | load, save, normalize |
| user interfaces | `ui/`, `ui/tea/`, `ui/walk/` | lists, pending channels, request numbers | start, flush of pending updates, filters, history, settings, relay rule editor |

How they interact: a handler puts a message on the message queue and waits on
the message's reply channel or a 10 s timer or the run context; the single
relay client takes the messages one at a time. When the result is positive (or
the rule exempts the message) the handler calls `onDeviceUpdated` and
`onEventCreated`, which put the event on bounded queues without ever blocking
(`tryEnqueue`); two goroutines of the runtime empty these queues into the
database and call the subscribers. A user interface starts and stops the
runtime, and its settings dialog stops and starts it again through SaveConfig.

What is hard here:

* handlers time out while their message is still queued, so replies, retries
  and deliveries overlap;
* the station's verdict has no number, so a late one must never be taken for
  the next message's;
* two copies of the filter rule are updated one after the other;
* `tryEnqueue` is three channel operations that race with other handlers and
  with the writer;
* shutdown is spread over six waited-for goroutines and any number of handlers
  that nobody waits for;
* Stop, Start and SaveConfig may overlap, and Stop may give up;
* row ids cached inside a transaction outlive its rollback, and maintenance
  moves events between two databases without a common transaction;
* a filter rule is stored with its errors ignored, handed over by reference and
  edited in place;
* a list on the screen is filled by queries, callbacks and timers that nothing
  orders: answers may be old, channels full, and requests dropped.

What makes each part correct: a panel is told ACK only for a message that is
settled and journaled, once, in order, and every frame gets an answer; an event
is stored once and in order and is lost only for a known cause; one generation
of goroutines lives at a time, on an open repository, with the saved settings;
an event is read back under the names it was received with and moved to the
archive once; the rule that runs is the one stored; what a screen shows is what
the tables hold, or a known cause has set them apart.
`PROJECT.json` lists the hazards one by one with the property that covers each.

## 2. Modules

| module | models | abstract counterpart |
|---|---|---|
| `DeliveryContract` | what is promised to a panel about one message | - |
| `Relay` | delivery path: handlers, queue, relay client, station, rule copies, cancellation | `DeliveryContract` |
| `LossyLog` | what is promised about the order of stored events | - |
| `Journal` | `tryEnqueue`, `processEvents`, `flushEventBatch`, shutdown | `LossyLog` |
| `Lifecycle` | Start, Stop, SaveConfig, the goroutines of each generation, UI exit | - |
| `RelayFilter` | the decision of the rule on one message | - |
| `RuleStore` | the tables of the rule, the two running copies, loads, saves, restarts, three editors; uses `RelayFilter` | - |
| `Store` | transactions and cached ids, device rows, catalogue, reopening, maintenance | - |
| `Interface` | what the screens share | - |
| `Lists` | the two main lists beside the tables | - |
| `HistoryWindow` | the history of one object | - |
| `Settings` | `Normalize`, account remapping, the settings forms and their saves | - |
| `Stats` | the rolling window and the number of clients | - |
| `Terminal` | where a key of the terminal goes: modes, cursors, edits, searches | - |
| `MCRelay`, `MCJournal`, `MCLifecycle`, `MCRuleStore`, `MCStore` | values and symmetry sets for TLC | - |
| `MCDesk` | the five screen modules composed, one of them active in a behaviour | - |
| `RelayProofs`, `RelayPathProofs` | theorems about `Relay` and its refinement of `DeliveryContract` | - |
| `JournalProofs`, `JournalLogProofs` | theorems about `Journal` and its refinement of `LossyLog` | - |
| `LifecycleProofs`, `RuleStoreProofs`, `StoreProofs` | theorems about the module of that name | - |
| `DeskProofs` | theorems about the five screen modules, composed in `MCDesk` | - |

Each component module also has a few operators marked "Mutant of X": X as a
plausible mistake would have it. They are in no specification; they show that
the property they break depends on X.

### Relay

One job is one frame of one connection, and names the reply channel made for
it. `pc[c]` follows `handleClient`: `accepted` (before `trackConn`), `top` (the
check of `ctx.Done`), `reading`, `scan` (a frame of the buffer), `wait` (in
`waitReply`), `deliver` (callbacks), `ack`/`nack` (write). `rpc` follows
`RelayClient.Run` and `processConnection`: `top`, `dial`, `backoff`, `idle`
(receive), `took`, `sent` (waiting for the verdict), `stopped`. The reply
channel of a job is `empty`, `ok`, `failed`, or `taken` after the handler has
received it. `wire` and `back` are the two directions of the current upstream
connection, and die with it. `SaveRule` and `SaveRuleDone` are the two updates
in `SaveRelayFilterRule`. The content of a frame is abstracted to its kind: one
of the event classes a rule tells apart, heartbeat, invalid, or too long. The
panel, the network and the station are external, modelled as the code sees
them: reads and writes that succeed or fail, verdicts that may come late.

### Journal

`Offer`, `Displace` and `OfferAgain` are the three channel operations of
`tryEnqueue`, which other handlers may interleave. `wpc` follows the writer:
`idle` (its select), `popped` (after the receive, before the check of the
context), `emit`, `batch` (the batched transaction), `each` (the fallback),
`drain`, `done`. A flush takes the batch away first (`toSave`), and runs under
the run context or, at shutdown, under one with a timeout (`Interrupted`).
A transaction commits or fails; the rows and caches behind it are not modelled.
Events are always long enough to be stored because the server has validated
the frame before it makes an event of it.

### Lifecycle

Callers are the main goroutine of the user interface and the goroutines that
run SaveConfig. `pc` names the points between which the mutex or another
goroutine matters: `lock`/`close`/`wait` in Stop, `assign` for the unlocked
`r.config = cfg`, `start`/`build` in Start. Each successful Start makes a
generation: its server goroutine (`spawned` until `net.Listen`, then
`accepting`) and a worker that stands for the other five, which end with their
context; that they do is what `Relay` (`ShutdownCompletes`) and `Journal`
(`WriterEnds`) show for two of them; the other three wait on nothing but it,
timers and database calls that take it.
`running[g]` is the configuration generation g was built with.

### RelayFilter and RuleStore

A rule is a record of sets: devices, groups, codes, codes of a device, and the
details (zones and targets) of a code, for one device or for `Everyone`. The
operators of `RelayFilter` follow `shouldBypassRelay`, `matchDetails` and the
extraction of the fields from the text of a message, which is a record here.
`RuleStore` keeps four copies: `tables`, `server`, `client` and `editor`. A
copy carries the identity of its Go maps (`maps`), because the interfaces hand
maps over by reference and go on writing into them: `Write` changes every copy
with the same maps. `Kept` is what of a rule survives the foreign keys, whose
errors the code ignores. A call is a process with its position in the code:
`GetRelayFilterRule` reads the seven tables one by one, `SaveRelayFilterRule`
commits, `UpdateServer` and `UpdateClient` hand the rule over. `causes` records
what may set the running rule apart from the stored one, and the properties say
that nothing else does.

### Store

A table of names is a sequence and an id an index. `saveEventTxCached` is one
event of a transaction, `Transaction` a fold of it over a batch; `Rollback`
keeps the ids cached so far, as the code does. `keeper` is the position of
`RunMaintenance` between its steps; it holds the write lock throughout, so only
a failure or a restart comes between its two databases. `rolledBack` and
`interrupted` record the two causes the properties allow.

### Lists, HistoryWindow, Settings, Stats, Terminal

`ui` says which of the three interfaces the program runs; where they differ, an
action asks for it. `Lists` has the tables, the callbacks about to be made, the
three channels, the queries under way and what is shown. A query and its answer
are separate steps; `lost` records what set a list apart from its table.
`HistoryWindow` has one window and its queries: the terminal makes one query per
key and shows every answer, the Windows dialog one at a time, dropping requests,
and polls. `Settings` has the form, the copy of the interface and the
configuration of the runtime, with two saves under way. `Stats` has the ring of
counts per second and the connections with the number about to be published.
`Terminal` has `mode`, `tab` and the cursors of `Update` (`tea/run.go`); a list
is the set of its rows, a field is a word that a search finds or not, and what a
key sets going in the backend is in the other modules. `edit` records the row an
edit was opened on and the row that was changed.

These five share no state but `ui`. `MCDesk` composes them: each behaviour is
about one of them (`scene`), which keeps the sum of their states instead of the
product.

## 3. Runs

| run | instance | distinct states | shows |
|---|---|---|---|
| `relay_panels` | two panels, one frame each, queue of 1, one rule change, cancellation | 613,117 | types, `AckMeansHandled`, `BlockedNeverSent`, `AcceptedCountHonest`, `NoReaderLeft`, refinement of `DeliveryContract` |
| `relay_stream` | one panel, two frames of every kind, queue of 2 | 40,024 | `VerdictIsOwn`, `RelayNeverBlocks`, `ForwardedOnceInOrder`; liveness: `EveryFrameAnswered`, `QueueDrains`, `ShutdownCompletes` |
| `journal_order` | two handlers, two events each, queue, batch and drain of 2, two attempts | 35,160 | types, `StoredOnceInOrder`, `LossNeedsCause`, `ShownIsKept`, `StoredIsShown`, refinement of `LossyLog` |
| `journal_writer` | one handler, four events, queue of 2, batch of 3 | 16,592 | `FreshestIsPushed` (one producer), liveness: `QueuedGetsStored`, `WriterEnds` |
| `journal_shutdown` | one handler, room for everything | violation | `DrainedIsStored` fails |
| `journal_freshest` | two handlers, queue of 1 | violation | `FreshestIsPushed` fails with two producers |
| `lifecycle_restart` | two SaveConfig calls and the exit | 8,206 | types and mutual exclusion, `OneGeneration`, `RepoWhileWorking`, `SavedMeansRunning`, liveness: `UiExits` |
| `lifecycle_overlap` | two SaveConfig calls | violation | `RunningIsStored` fails |
| `lifecycle_hang` | two SaveConfig calls | violation | `SaveFinishes` fails |
| `rules` | each of three editors, devices 0 and 1, three rules at the start, two calls, one edit, one fault | 363,759 | types, `RunningRuleIsStored`, `LossBlocksMore`, `UneditedSaveChangesNothing`, `WindowsEditsWhatIsTicked` |
| `store` | two events of one device, a listed and an unlisted code, two zones, batches of 1, two faults | 255,702 | `FiledUnderItsNames`, `MovedOnce`, liveness: `ExpiredIsRemoved` |
| `desk` | each interface; one object, two events, two requests, channels of 1; two panels and two queries; two saves; two clients; four keys or answers | 885,610 | `ListsAreTables`, `RowsAreTheAnswer`, `RemapIsShown`, `StatsAreCounts`, `KeysFindTheirRow`, liveness: `PollingCatchesUp` |

Bounds and why they are enough. Relay: two panels with one frame each are the
least that compete for the queue and the single client; two frames of one panel
are the least for order, for a late verdict, and for a retry after a timeout; a
queue of one place is full while the client holds a message, a queue of two
holds one message behind another. Journal: two handlers race inside
`tryEnqueue`; two events each overflow the queue, order the events of one
handler and fill a batch; a drain of two is exhausted by two handlers; two
attempts are one retry. Lifecycle: the races are between two saves, or a save
and the exit; a third adds no new pair. Rules: two calls
are the least that overlap; device 0 is there because the tables give it a
second meaning; one edit between, before or after two calls reaches every shared
map; one fault is a deleted device, a new one or a refused transaction. Store:
two events of two names are the least for a cached id that a rollback leaves
with another name; a batch of one makes maintenance take two rounds; two faults
are a rollback and a restart, or two failed attempts, which is `Attempts`. Desk:
one object is enough for an update and a deletion of it to cross, two events for
an order and for a limit that leaves one out, two requests for an answer that
overtakes another; `MCBeginnings` splits the counts of changes, requests and
events over three starts so that no behaviour needs them all. Two panels make an
answer that belongs to another; a window of two slots is used again after two
seconds, like sixty after a minute; accounts up to 4 stand for those up to 9999
with the ranges scaled to them. Four messages are enough to open an edit, change
the rows under it and finish it.

The bounds named `Max...` and `Most` cap what the environment does: rule
changes, frames, events, keys, faults, calls. Nothing else is bounded. Deadlock
is not checked because a cancelled run, a lifecycle whose callers have returned,
a store with everything stored and a screen nobody touches rightly stop.
Symmetry is used only in runs without liveness.

Fairness. Relay: weak fairness of each handler, of the relay client, and of
`closeAllClients`: goroutines get scheduled, deadlines and timers fire, and a
dial returns, possibly with a failure each time; the station need not answer
and panels need not send. `QueueDrains` therefore assumes that the link keeps
coming up. Journal: weak fairness of the writer; nothing is assumed of handlers
or the database. Lifecycle: weak fairness of the goroutines of a generation,
strong fairness of a call under way, which Go's mutex justifies (a waiter that
starves is handed the lock); nobody has to save or to exit. Store: weak fairness
of `RunMaintenance`, whose ticker fires again after every run; of faults nothing
is assumed but that they are finitely many. HistoryWindow: weak fairness of the
poll, which a ticker repeats, and of each query that is under way.

## 4. Disagreements found

* `journal_shutdown`: the writer receives an event, sees the cancellation and
  continues (`runtime/runtime.go:491`), expecting the shutdown case to "handle
  the batch"; the event is in no batch and is lost.
* `journal_freshest`: "drop one oldest item and push the freshest update"
  (`runtime/runtime.go:691`) does not hold with two handlers: another may take
  the place, and the freshest item is dropped too.
* `lifecycle_overlap`: `r.config = cfg` (`runtime/runtime.go:323`) outside the
  mutex; two saves may leave a runtime with settings other than the saved ones.
* `lifecycle_hang`: a Stop that comes before the server has listened does not
  close the listener (`netrelay/tcp_server.go:105`); the save hangs with the
  lifecycle mutex held until the user interface exits.

The following were met while modelling and are part of the modules, as exceptions
the properties name; no document or test of the repository says otherwise.

* The details of a code for everyone are stored under object 0 and refused by
  the foreign key; the refusal is ignored (`data/repository.go:619`, cause
  `zero` of `RuleStore`).
* The terminal's relay fields drop every detail on a save without an edit
  (`ui/tea/run.go:1758`); the Fyne editor writes into maps the server decides by
  (`ui/ui_relay.go:521`), and edits everyone's codes while objects are ticked
  (`ui/ui_relay.go:466`).
* Down on an empty list makes the terminal's cursor -1 and the next `View` ends
  the program (`ui/tea/run.go:486`, `:531`, `:707`); for colours the next edit
  does (`:659`).
* A search in the terminal's history ends in the normal mode, so the history
  leaves the screen before its answer comes (`ui/tea/run.go:405`).
* The key `1` of the relay tab, which its footer offers, is taken by the tabs
  (`ui/tea/run.go:431`); it is therefore no action of `Terminal`.

## 5. Proofs

Every safety invariant, every action property and both refinements that a
passing run checks are theorems, proved by TLAPS for every value of the
constants that meets the named assumptions. Each inductive invariant was
checked by TLC on the instances of section 3 before it was proved.

Assumptions. Sizes and bounds are natural, and positive where the code makes
them so (the capacity of a queue, a batch, a window, the attempts, the places
of a channel); names that stand for nothing are outside the sets they stand
beside (`NoEvent`, `NoZone`, `NoOne`, object 0); what is counted is finite
(savers, the calls of `RuleStore`, the types of `Terminal`). `SeedsAssumption`
says that the tables hold a rule before the first start, `StoreAssumption` that
the catalogue is a list of codes, `ListsAssumption` that every event belongs to
an object. They say nothing about behaviours.

* `RelayProofs`: `TypesCorrect`; `AcknowledgedIsHandled` (ACK only for an event
  that is journaled, and that the station has or a rule exempted);
  `VerdictsAreOwn`; `NoHandlerLeftReading`. The inductive invariants add to the
  property what the code keeps along the way: a positive reply exists only for
  a settled message; a message in the client's hands is the last one on the
  wire, and a connection is dropped with its verdicts whenever a read fails;
  an open connection of a handler past `trackConn` is tracked, so the sweep
  reaches it.
* `RelayPathProofs`: `RelayIsNeverStuck`, `WrittenOnceInOrder`,
  `BlockedIsNeverSent`, `AcceptedIsHonest`, `RelayImplementsContract`. `PathInv`
  speaks of the whole stream: what was written, what the relay client holds and
  what is queued. In that order the messages of a panel ascend; nothing happens
  to a message before its handler is at it; a message waiting is unanswered and
  unknown to the station. `CountInv` bounds the counter from both sides by sets
  that follow a verdict on its way: the promises made below, the messages of
  the station that the client is done with above. The refinement maps each
  step of a handler, the client or the station to a step of the contract about
  one message, or to none.
* `JournalProofs`: `JournalTypes` and `EventsStoredInOrder`. An event moves
  along one line: stored, copy of the flush, batch, hands of the writer, queue.
  The invariant says of the whole line what the theorem says of the stored
  part: the events of a handler strictly ascend, and none is beyond what the
  handler has offered. Each action appends to the line, moves a boundary inside
  it, or takes something out of it. Order alone of `stored` is not inductive,
  because nothing would keep an older event from waiting behind.
* `JournalLogProofs`: `EventsLostForCause`, `ShownEventsKept`,
  `StoredEventsShown`, `LoneHandlerPushes`, `JournalImplementsLog`. `LossInv`
  adds who may be where: a handler goes round the queue only after an overflow,
  the writer drains only after the cancellation, and what has been shown is
  what the writer has taken. `LoneHandlerPushes` supposes that no two handlers
  exist, as its run does; `journal_freshest` shows that it needs to.
* `LifecycleProofs`: `LifecycleTypes`, `GenerationsDoNotOverlap`,
  `RepositoryOutlivesWorkers`, `SavesLeaveItRunning`. The invariant adds
  `Counted` (a generation is begun only by a save in its only Start, so their
  number is bounded), `Turns` (between the mutex, `started`, `repo` and the
  goroutines: while not started nothing lives and only the holder of the mutex
  may open the repository) and `Restarting` (until the exit, a runtime that is
  stopped has a save that will start it, or that failed).
* `RuleStoreProofs`: `RulesAreRules`, `RunningIsStored`, `LostRowsBlockMore`,
  `UneditedIsStored`, `TickedIsEdited`. `RunningInv` follows a call between its
  commit and the two hand-overs: as long as nothing but one kind of cause has
  occurred there is one writer, what it hands over it has stored or read, and
  each running copy that is not about to be replaced is the stored rule, or
  (`Lossy`) what the tables could keep of it. That such a rule withholds no less
  is a lemma about `RelayFilter`.
* `StoreProofs`: `EventsAreFiled`, `EventsMoveOnce`. `WellFiled` holds of the
  tables and the cache inside a transaction too, so that a fold of
  `saveEventTxCached` over a batch of any length keeps it; `KeeperInv` says
  what is in the hands of maintenance and why none of it is in the archive yet.
* `DeskProofs`: `ListsShowTables`, `HistoryIsTheAnswer`, `RemapsAreShown`,
  `CountsAreRight`, `KeysFindRows`, from `DeskInv`, the conjunction of one
  invariant for each screen. That of the lists is the largest. For an object it
  says that the table has what is due on the screen: the update or deletion
  being reported, else what the channels bring, else what is shown (`Sound`).
  For the events it says that the list with the flushed channel before it is
  the newest of the events heard of (`Good`). Both are also said of the answer
  of each query that nothing has overtaken, because that answer will become the
  list. `RingInv` says of every second of the window which slot counts it;
  `HistoryInv` and `SettingsInv` say that without the named causes one query or
  one save is under way, and what its answer is.

Sequences, transactions and rings have any length here. Where a fact about them
needs induction (a transaction, `EventsWithout`, a search for the next field),
the proof takes the least natural number for which it fails, from the
well-foundedness of `<` on the natural numbers: the induction theorems of the
library take an operator as a parameter, which the installed provers cannot
instantiate. For the same reason no module that is proved about has a RECURSIVE
operator.

What stays with TLC, because liveness under fairness and ENABLED are out of the
prover's reach: `EveryFrameAnswered`, `QueueDrains`, `ShutdownCompletes`,
`QueuedGetsStored`, `WriterEnds`, `UiExits`, `ExpiredIsRemoved` and
`PollingCatchesUp`. The four runs that expect a violation refute their
properties and have nothing to prove.

## 6. Not modelled, and the plan

Not modelled:

* validation and classification of a frame (`core/processor.go`,
  `core/classifier.go`), pure functions of its text: `Relay` starts from the
  kinds of frame that come out of them;
* the queries that only read, except for their order, limit and filter, which is
  one in `HistoryWindow` and the searches of `Terminal`;
* the fields of the configuration other than the accounts, which `Normalize`
  treats one by one;
* the queue in front of `processDeviceUpdates`: `Journal` has the same
  `tryEnqueue` on the event queue;
* functions the Fyne interface calls but this commit does not contain:
  `pullAsyncResults`, `requestHistoryReload`, `openHistory`,
  `deleteDeviceRemote`, `saveConfigRemote`, `stopAsyncLoaders`, `statsLoop`,
  `applyFiltersLocked`, `reloadEventsWithReset` and whatever empties its pending
  channels, so that its history is left out and its channels only fill;
* the fatal error of two goroutines in one Go map; a second Windows dialog beside
  the first; colours, layout, styles, the tray, logging, paths, the load
  generator.

Memory-model effects of the unlocked reads of `s.listener`, `r.config`, `r.repo`
and of a dialog's limit are modelled as reads of either value, not as torn ones.

Worth proving next:

1. the type invariants of `Store` and of the screen modules as theorems of
   their own: they are conjuncts of `StoreInv` and `DeskInv` now, and no run
   checks them by name;
2. the safety half of the liveness properties: that whenever a frame is
   unanswered, or an event queued, some action of a goroutine that has not
   ended is the one to take next, stated as a predicate on program counters
   rather than with ENABLED;
3. that `RunningRuleIsStored` is tight: for each cause it names, a lemma that
   a single step can set the copies apart.
