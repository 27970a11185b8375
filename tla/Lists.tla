------------------------------- MODULE Lists -------------------------------
(***************************************************************************)
(* The two main lists of a user interface, objects and events, beside the  *)
(* tables they show.  They are filled by a query at the start and kept up  *)
(* to date by the callbacks of the runtime, which go into three channels   *)
(* that are emptied by a timer (flushPending), and they are replaced when  *)
(* the user reloads, loads more events or saves the configuration.  No     *)
(* lock and no number ties a query to the callbacks.                       *)
(*                                                                         *)
(* This commit has no code that empties the channels of the Fyne           *)
(* interface; they only fill.  What that interface hears of is the answer  *)
(* of a deletion it asked for itself.                                      *)
(***************************************************************************)
EXTENDS Interface

CONSTANTS
    Objects,    \* object (device) numbers; 0 stands for none
    Owner,      \* the object of each event
    PendingCap, \* places in a channel: 5000 and more in the program, 100 for deletions
    ListCap,    \* events a flush keeps: 1000 in the program
    FirstLimits,\* events asked for at first: the GlobalLimit of a configuration
    Chunk,      \* events more with every request for more
    Requests,   \* goroutines that query
    MaxChanges, \* bound: updates and deletions of objects
    MaxLoads,   \* bound: requests
    Beginnings  \* where changes, requests, events and the limit may begin

EventNumbers == DOMAIN Owner
EventsOf(d) == {n \in EventNumbers : Owner[n] = d}
ASSUME ListsAssumption == /\ Owner \in Seq(Objects) /\ 0 \notin Objects
                          /\ {PendingCap, ListCap, Chunk} \cup FirstLimits \subseteq Nat \ {0}
                          /\ {MaxChanges, MaxLoads} \subseteq Nat
                          /\ Beginnings \subseteq (1 .. MaxChanges) \X (0 .. MaxLoads)
                                                  \X (0 .. Len(Owner)) \X FirstLimits

VARIABLES
    stored,   \* the table devices: which update a row holds, 0 when there is none
    kept,     \* the table events
    saved,    \* events stored so far, or refused
    told,     \* events given to the callbacks so far, or kept from them
    emitting, \* callbacks about to be made: the update of an object, a deletion
    phase,    \* "events" and "subscribe" while the interface starts
    shown,    \* model.devices
    list,     \* model.events, newest first
    limit,    \* model.eventsLimit
    allShown, \* eventsAllShown of the Windows interface
    queued,   \* pendingDevices, pendingEvents, pendingDeleted
    removed,  \* deleteCh of the Fyne interface: the object it asked to delete
    loads,    \* queries under way
    changes, asked,
    lost      \* the lists something happened to that only a reload mends

tables == <<stored, kept, saved, told, emitting>>
lists == <<shown, list, limit, allShown>>
listsVars == <<tables, phase, lists, queued, removed, loads, changes, asked, lost>>

NoUpdate == <<>>
Bare == -1   \* a row that was made for an event
NoLoad == [at |-> "none", devices |-> [d \in Objects |-> 0], events |-> {}, limit |-> 0,
           newest |-> FALSE, quiet |-> FALSE, halfway |-> FALSE, passed |-> FALSE]

ListsInit ==
    /\ \E b \in Beginnings : changes = b[1] /\ asked = b[2] /\ saved = b[3] /\ limit = b[4]
    /\ kept = 1 .. saved /\ told = saved
    /\ stored \in {t \in [Objects -> {0, 1}] : \A n \in kept : t[Owner[n]] = 1}
    /\ emitting = [update |-> NoUpdate, deleted |-> 0]
    /\ phase = "events"
    /\ shown = stored /\ list = <<>> /\ allShown = FALSE
    /\ queued = [update |-> <<>>, event |-> <<>>, deleted |-> <<>>]
    /\ removed = 0
    /\ loads = [c \in Requests |-> NoLoad]
    /\ lost = {}

(***************************************************************************)
(* The runtime.                                                            *)
(***************************************************************************)
\* Whatever passes a query by makes its answer old.
Passed == [c \in Requests |-> [loads[c] EXCEPT !.passed = loads[c].at # "none"]]
\* The events a query has read are no longer those to show.
Overtaken == [c \in Requests |->
                 [loads[c] EXCEPT !.halfway = @ \/ loads[c].at \in {"read", "more"}]]
Loses(what) == lost' = lost \cup what /\ loads' = IF what = {} THEN loads ELSE Passed
If(condition, what) == IF condition THEN {what} ELSE {}
Elements(s) == {s[i] : i \in DOMAIN s}

\* processDeviceUpdates: after three failures the update is shown unsaved.
SaveDevice ==
    /\ changes < MaxChanges /\ changes' = changes + 1
    /\ emitting.update = NoUpdate
    /\ \E d \in Objects, written \in BOOLEAN :
         /\ stored' = IF written THEN [stored EXCEPT ![d] = changes'] ELSE stored
         /\ emitting' = [emitting EXCEPT !.update = <<d, changes'>>]
         /\ Loses(If(~ written \/ emitting.deleted = d, "objects"))
    /\ UNCHANGED <<kept, saved, told, phase, lists, queued, removed, asked>>

\* The row and the events of an object go in one transaction.  The Fyne interface
\* asks for one deletion at a time (delBusy).
DeleteDeviceWithHistory ==
    /\ changes < MaxChanges /\ changes' = changes + 1
    /\ emitting.deleted = 0 /\ removed = 0
    /\ \E d \in Objects :
         /\ stored[d] # 0
         /\ removed' = IF ui = "fyne" THEN d ELSE 0
         /\ stored' = [stored EXCEPT ![d] = 0]
         /\ kept' = kept \ EventsOf(d)
         /\ emitting' = [emitting EXCEPT !.deleted = d]
         /\ Loses(If(emitting.update # NoUpdate /\ emitting.update[1] = d, "objects")
                  \cup If(EventsOf(d) \cap (1 .. saved \cup 1 .. told) # {}, "events"))
    /\ UNCHANGED <<saved, told, phase, lists, queued, asked>>

\* An event is stored before or after the callbacks hear of it (flushEventBatch).
\* An object without a row gets one, which no callback reports.
StoreEvent ==
    /\ saved < Len(Owner) /\ saved' = saved + 1
    /\ kept' = kept \cup {saved'}
    /\ stored' = [stored EXCEPT ![Owner[saved']] = IF @ = 0 THEN Bare ELSE @]
    /\ UNCHANGED <<told, emitting, phase, lists, queued, removed, loads, changes, asked, lost>>

\* An event that is refused with its batch and on its own, or that a cancelled flush
\* drops, is reported as any other.
RefuseEvent ==
    /\ saved < Len(Owner) /\ saved' = saved + 1
    /\ Loses({"events"})
    /\ UNCHANGED <<stored, kept, told, emitting, phase, lists, queued, removed, changes, asked>>

\* What a runtime takes from its queue while it stops, it stores and does not report.
DrainEvent ==
    /\ phase = "running" /\ told < saved /\ told' = told + 1
    /\ Loses({"events"})
    /\ UNCHANGED <<stored, kept, saved, emitting, phase, lists, queued, removed, changes, asked>>

\* maintenanceLoop: rows go from the oldest on, and no callback reports it.
ExpireEvents ==
    /\ \E last \in kept :
         LET gone == kept \cap (1 .. last)
             inSight == Elements(list) \cup Elements(queued.event) \cup told + 1 .. saved
         IN /\ kept' = kept \ gone
            /\ lost' = lost \cup If(gone \cap inSight # {}, "events")
    /\ loads' = Overtaken
    /\ UNCHANGED <<stored, saved, told, emitting, phase, lists, queued, removed, changes, asked>>

\* A callback of the interface, once there is one: a full channel drops what it is
\* given, and so in effect does one that nobody empties.
Offer(channel, item, subscribed, gap) ==
    IF ~ subscribed \/ Len(queued[channel]) = PendingCap
    THEN queued' = queued
         /\ Loses(If(subscribed \/ gap, IF channel = "event" THEN "events" ELSE "objects"))
    ELSE /\ queued' = [queued EXCEPT ![channel] = Append(@, item)]
         /\ Loses(IF ui # "fyne" \/ channel = "deleted" THEN {}
                  ELSE {IF channel = "event" THEN "events" ELSE "objects"})

emitDevice ==
    /\ emitting.update # NoUpdate
    /\ Offer("update", emitting.update, phase = "running", TRUE)
    /\ emitting' = [emitting EXCEPT !.update = NoUpdate]
    /\ UNCHANGED <<stored, kept, saved, told, phase, lists, removed, changes, asked>>

\* newModel of the Fyne interface subscribes to deletions before anything else.
emitDeleted ==
    /\ emitting.deleted # 0
    /\ Offer("deleted", emitting.deleted, phase = "running" \/ ui = "fyne", TRUE)
    /\ emitting' = [emitting EXCEPT !.deleted = 0]
    /\ UNCHANGED <<stored, kept, saved, told, phase, lists, removed, changes, asked>>

emitEvent ==
    /\ told < Len(Owner) /\ told' = told + 1
    /\ Offer("event", told', phase = "running", phase = "subscribe")
    /\ UNCHANGED <<stored, kept, saved, emitting, phase, lists, removed, changes, asked>>

(***************************************************************************)
(* The start: newModel and start query the objects, with which the model   *)
(* begins, and the events, and then subscribe.                             *)
(***************************************************************************)
FilterEvents ==
    /\ phase = "events" /\ phase' = "subscribe"
    /\ list' = Newest(kept, limit)
    /\ Loses(If(told # saved, "events"))
    /\ UNCHANGED <<tables, shown, limit, allShown, queued, removed, changes, asked>>

Subscribe ==
    /\ phase = "subscribe" /\ phase' = "running"
    /\ UNCHANGED <<tables, lists, queued, removed, loads, changes, asked, lost>>

(***************************************************************************)
(* The timer.                                                              *)
(***************************************************************************)
\* Mutant of Applied: an object that is not on the screen is not added.
AppliedToShown(devices, updates) ==
    [d \in Objects |->
        LET of == {i \in DOMAIN updates : updates[i][1] = d}
        IN IF of = {} \/ devices[d] = 0 THEN devices[d]
           ELSE updates[CHOOSE i \in of : \A j \in of : j <= i][2]]

\* The last update of an object wins.
Applied(devices, updates) ==
    [d \in Objects |->
        LET of == {i \in DOMAIN updates : updates[i][1] = d}
        IN IF of = {} THEN devices[d]
           ELSE updates[CHOOSE i \in of : \A j \in of : j <= i][2]]

Without(devices, gone) == [d \in Objects |-> IF d \in gone THEN 0 ELSE devices[d]]

prependEvents(events, batch, cap) ==
    LET all == [i \in 1 .. Len(batch) |-> batch[Len(batch) + 1 - i]] \o events
    IN SubSeq(all, 1, IF Len(all) < cap THEN Len(all) ELSE cap)

NothingQueued == \A channel \in DOMAIN queued : queued[channel] = <<>>

flushPending ==
    /\ phase = "running" /\ ui # "fyne" /\ ~ NothingQueued
    /\ LET gone == Elements(queued.deleted)
           updated == {u[1] : u \in Elements(queued.update)}
       IN /\ shown' = Applied(Without(shown, gone), queued.update)
          /\ lost' = lost \cup If(gone \cap updated # {}, "objects")
    /\ list' = prependEvents(list, queued.event, IF limit < ListCap THEN ListCap ELSE limit)
    /\ allShown' = (allShown /\ queued.event = <<>>)
    /\ queued' = [channel \in DOMAIN queued |-> <<>>]
    /\ loads' = Passed
    /\ UNCHANGED <<tables, phase, limit, removed, changes, asked>>

\* The rows of the other objects, in their order.
EventsWithout(events, d) ==
    LET stay == {i \in DOMAIN events : Owner[events[i]] # d}
    IN [k \in 1 .. Cardinality(stay) |->
           events[CHOOSE i \in stay : Cardinality(stay \cap (1 .. i)) = k]]

\* The Fyne interface takes the answer of its deletion, whatever happened since.
pullDeleteResult ==
    /\ removed # 0 /\ emitting.deleted = 0
    /\ removed' = 0
    /\ shown' = Without(shown, {removed})
    /\ list' = EventsWithout(list, removed)
    /\ lost' = lost \cup If(stored[removed] # 0, "objects")
                   \cup If(EventsOf(removed) \cap kept # {}, "events")
    /\ loads' = Passed
    /\ UNCHANGED <<tables, phase, limit, allShown, queued, changes, asked>>

(***************************************************************************)
(* Reloads.  A request and its first query are one step.                   *)
(***************************************************************************)
\* The tables and the callbacks agree on what has happened.
Quiet == /\ NothingQueued \/ ui = "fyne"
         /\ emitting = [update |-> NoUpdate, deleted |-> 0] /\ told = saved /\ removed = 0
EventsHalfway == told # saved \/ (queued.event # <<>> /\ ui # "fyne")

Request(c, load, others) ==
    /\ phase = "running" /\ loads[c].at = "none"
    /\ asked < MaxLoads /\ asked' = asked + 1
    /\ loads' = [k \in Requests |-> IF k = c THEN load
                   ELSE [others[k] EXCEPT !.newest = @ /\ load.at = "more"]]
    /\ UNCHANGED <<tables, phase, shown, list, queued, removed, changes>>

\* reloadCmd, reloadAll: the objects are queried first.
Reloading(rows) == [NoLoad EXCEPT !.at = "events", !.devices = stored, !.limit = rows,
                               !.newest = TRUE, !.quiet = Quiet]

reloadAll(c) == Request(c, Reloading(limit), loads) /\ UNCHANGED <<limit, allShown, lost>>

\* A saved configuration brings its own limit (configSaveMsg, saveConfig).
ConfigSaved(c) ==
    /\ ui # "fyne"
    /\ \E first \in FirstLimits :
         /\ Request(c, Reloading(first), IF first > limit THEN Overtaken ELSE loads)
         /\ limit' = first /\ allShown' = FALSE
         /\ lost' = lost \cup If(first > limit, "events")

\* One request for more at a time: loadingEvents, eventsLoading.
loadMoreEvents(c) ==
    /\ \A k \in Requests : loads[k].at # "more"
    /\ Request(c, [NoLoad EXCEPT !.at = "more", !.events = Newest(kept, limit + Chunk),
                                 !.limit = limit + Chunk, !.halfway = EventsHalfway], loads)
    /\ UNCHANGED <<limit, allShown, lost>>

\* reloadAll of the Windows interface reads its limit only now.
QueryEvents(c) ==
    /\ loads[c].at = "events"
    /\ LET rows == IF ui = "windows" THEN limit ELSE loads[c].limit IN
         loads' = [loads EXCEPT ![c].at = "read", ![c].events = Newest(kept, rows),
                                ![c].halfway = EventsHalfway \/ rows < limit]
    /\ UNCHANGED <<tables, phase, lists, queued, removed, changes, asked, lost>>

\* An answer is old when something was shown since its query, and halfway when an
\* event was on its way between the table and the list, when the events are no
\* longer those to show or fewer than by now are asked for.
OldAnswer(c) ==
    If(loads[c].passed /\ loads[c].at = "read", "objects")
    \cup If(loads[c].passed \/ loads[c].halfway, "events")

\* The other queries were made before this answer came.
Answered(c) == [Passed EXCEPT ![c] = NoLoad]

Fail(c) ==
    /\ loads[c].at # "none"
    /\ loads' = [loads EXCEPT ![c] = NoLoad]
    /\ UNCHANGED <<tables, phase, lists, queued, removed, changes, asked, lost>>

\* bootMsg, pullBootstrapResult, reloadAll: only the terminal takes an answer to
\* any but the last request.
ShowReload(c) ==
    /\ loads[c].at = "read"
    /\ IF ui = "terminal" \/ loads[c].newest
       THEN /\ shown' = loads[c].devices
            /\ list' = loads[c].events
            /\ allShown' = (ui = "windows" /\ Len(list') < limit)
            /\ lost' = (IF loads[c].quiet /\ ~ loads[c].passed THEN {} ELSE lost)
                         \cup OldAnswer(c)
            /\ loads' = Answered(c)
       ELSE /\ loads' = [loads EXCEPT ![c] = NoLoad]
            /\ UNCHANGED <<shown, list, allShown, lost>>
    /\ UNCHANGED <<tables, phase, limit, queued, removed, changes, asked>>

\* moreEventsMsg, pullEventsResult, loadMoreEvents.
ShowMore(c) ==
    /\ loads[c].at = "more"
    /\ list' = loads[c].events
    /\ limit' = loads[c].limit
    /\ allShown' = (ui = "windows" /\ Len(list') < limit')
    /\ lost' = lost \cup OldAnswer(c)
    /\ loads' = Answered(c)
    /\ UNCHANGED <<tables, phase, shown, queued, removed, changes, asked>>

ListsNext ==
    \/ SaveDevice \/ DeleteDeviceWithHistory
    \/ StoreEvent \/ RefuseEvent \/ DrainEvent \/ ExpireEvents
    \/ emitDevice \/ emitDeleted \/ emitEvent
    \/ FilterEvents \/ Subscribe \/ flushPending
    \/ pullDeleteResult
    \/ \E c \in Requests : \/ reloadAll(c) \/ ConfigSaved(c) \/ loadMoreEvents(c) \/ Fail(c)
                           \/ QueryEvents(c) \/ ShowReload(c) \/ ShowMore(c)

\* Once everything that happened has been shown, the objects on the screen are the
\* rows of the table and the events the newest of it, none twice and none missing,
\* and nothing is left to load when the Windows list says so, unless something is lost:
\*   - it happened between the first query and the subscription,
\*   - a channel had no place for it,
\*   - the answer of a query was shown after a change newer than it,
\*   - one flush took a deletion and an update of an object: the update wins,
\*     whichever came first,
\*   - an object was deleted while its update was being reported,
\*   - an update or an event was shown that could not be stored,
\*   - an event was stored by a runtime that stops, which reports it no more,
\*   - the retention removed an event that was on the screen, or on its way there,
\*     or after a query had read it,
\*   - a query ran while an event was between the table and the list,
\*   - a saved configuration asks for more events than there were asked for, and
\*     its own answer has not come, or an older one came after it,
\*   - an object with events was deleted: its events stay on the screen, or leave
\*     less there than was asked for,
\*   - the answer of a deletion came after the object was back (Fyne).
\* The Fyne interface loses whatever it is told, but for deletions.
\* A reload while nothing happens mends all of them.
ListsAreTables ==
    Quiet /\ phase = "running" =>
      /\ "objects" \notin lost => \A d \in Objects :
             shown[d] = stored[d] \/ (stored[d] = Bare /\ shown[d] = 0)
      /\ "events" \notin lost =>
           /\ list = Newest(kept, Len(list))
           /\ Len(list) >= limit \/ Len(list) = Cardinality(kept)
           /\ allShown => Len(list) = Cardinality(kept)
=============================================================================
