------------------------------- MODULE Store -------------------------------
(***************************************************************************)
(* The repository (src/internal/data): the rows an event is filed under,   *)
(* the ids of those rows that are cached in memory, the events, and the    *)
(* maintenance that moves expired events to the archive database.          *)
(*                                                                         *)
(* Rows of event_catalog and event_zones are never deleted and their ids   *)
(* are handed out in order, so a table is a sequence and an id an index;   *)
(* a transaction that rolls back gives its ids back.  The cache is filled  *)
(* inside the transaction and not emptied when it rolls back.  Every       *)
(* write takes writeLock; RunMaintenance holds it from its first batch to  *)
(* its last.  Rows of event_types, found by the category of an event,      *)
(* are cached and kept in the same way as codes and are left out.          *)
(***************************************************************************)
EXTENDS Integers, Sequences, Functions, FiniteSets

CONSTANTS
    Devices,    \* device numbers
    Catalogue,  \* codes of the event list, in its order
    Unlisted,   \* codes that are not in the list
    Zones,      \* texts of zones
    NoZone,     \* an event without a zone
    Attempts,   \* retry: 3 in the program
    BatchSize,  \* History.MaintenanceBatch
    Archiving,  \* values of History.ArchiveEnabled tried
    MaxEvents,  \* bound: events
    MaxFaults,  \* bound: storage errors and restarts
    MaxDeletes  \* bound: deleted devices

Codes == Range(Catalogue) \cup Unlisted

ASSUME StoreAssumption ==
    /\ Attempts \in Nat \ {0} /\ BatchSize \in Nat \ {0} /\ MaxEvents \in Nat
    /\ NoZone \notin Zones \cup Codes /\ Archiving \subseteq BOOLEAN
    /\ Catalogue \in Seq(Range(Catalogue))

VARIABLES
    devices,    \* the table devices
    rows,       \* the tables event_catalog and event_zones
    cache,      \* catRefs, zoneRefs: the id of a name, 0 when it is not there
    events,     \* the table events
    batch,      \* what flushEventBatch still has to store
    mode,       \* "batch" while it tries the batch, "each" one by one
    tries,      \* attempts made
    given,      \* events received so far
    refused,    \* events no attempt could store
    expired,    \* events up to this one are older than the retention
    archiving,  \* History.ArchiveEnabled
    archive,    \* how often each event is in the archive database
    keeper,     \* where RunMaintenance is, and the events in its hands
    faults, deletes,
    rolledBack, \* a transaction rolled back since the repository was opened
    interrupted \* a maintenance run ended between the archive and the deletion

tables == <<devices, rows, events>>
writer == <<batch, mode, tries, given, refused>>
keeping == <<expired, archive, keeper, interrupted>>
bounds == <<faults, deletes>>
vars == <<tables, cache, writer, keeping, archiving, bounds, rolledBack>>

Idle == [at |-> "idle", load |-> {}]

IdOf(table, name) == IF \E i \in DOMAIN table : table[i] = name
                     THEN CHOOSE i \in DOMAIN table : table[i] = name ELSE 0

\* preloadTypeRefs, preloadCatalogRefs, preloadZoneRefs.
Preloaded(table, names) == [name \in names |-> IdOf(table, name)]

Init ==
    /\ devices = {} /\ events = {}
    /\ rows = [code |-> <<>>, zone |-> <<>>]
    /\ cache = [code |-> Preloaded(<<>>, Codes), zone |-> Preloaded(<<>>, Zones)]
    /\ batch = <<>> /\ mode = "batch" /\ tries = 0 /\ given = 0 /\ refused = {}
    /\ expired = 0 /\ archiving \in Archiving
    /\ archive = [n \in 1 .. MaxEvents |-> 0] /\ keeper = Idle
    /\ faults = 0 /\ deletes = 0
    /\ rolledBack = FALSE /\ interrupted = FALSE

WriteLock == keeper.at = "idle"
Fault == faults < MaxFaults /\ faults' = faults + 1

(***************************************************************************)
(* A transaction over events.                                              *)
(***************************************************************************)
\* Mutant of Ensured: the id of the last row, as if one had been inserted.
EnsuredLast(t, kind, name) ==
    LET table == IF IdOf(t.rows[kind], name) = 0 THEN Append(t.rows[kind], name) ELSE t.rows[kind]
    IN [t EXCEPT !.rows[kind] = table, !.cache[kind][name] = Len(table)]

\* ensureCatalogRefTx, ensureZoneRefTx: a row is inserted unless there is one.
Ensured(t, kind, name) ==
    LET table == IF IdOf(t.rows[kind], name) = 0 THEN Append(t.rows[kind], name) ELSE t.rows[kind]
    IN [t EXCEPT !.rows[kind] = table, !.cache[kind][name] = IdOf(table, name)]

Named(t, kind, name) ==
    IF name = NoZone \/ t.cache[kind][name] # 0 THEN t ELSE Ensured(t, kind, name)

\* saveEventTxCached.  The insert fails when an id it refers to has no row.
saveEventTxCached(t, e) ==
    LET named == Named(Named(t, "code", e.code), "zone", e.zone)
        code == named.cache.code[e.code]
        zone == IF e.zone = NoZone THEN 0 ELSE named.cache.zone[e.zone]
    IN IF ~ t.ok THEN t
       ELSE [named EXCEPT
               !.devices = @ \cup {e.device},
               !.ok = code \in DOMAIN named.rows.code /\ zone \in {0} \cup DOMAIN named.rows.zone,
               !.events = @ \cup {[e |-> e, code |-> code, zone |-> zone, doubt |-> rolledBack]}]

Begun == [rows |-> rows, cache |-> cache, devices |-> devices, events |-> events, ok |-> TRUE]
Transaction(es) ==
    LET after[i \in 0 .. Len(es)] ==
          IF i = 0 THEN Begun ELSE saveEventTxCached(after[i - 1], es[i])
    IN after[Len(es)]

Commit(es) ==
    LET t == Transaction(es) IN
      /\ t.ok
      /\ rows' = t.rows /\ cache' = t.cache /\ devices' = t.devices /\ events' = t.events
      /\ UNCHANGED <<rolledBack, faults>>

\* A foreign key fails, or the storage does at some event or at the commit.
Rollback(es) ==
    /\ \/ ~ Transaction(es).ok /\ cache' = Transaction(es).cache /\ UNCHANGED faults
       \/ Fault /\ \E k \in 0 .. Len(es) : cache' = Transaction(SubSeq(es, 1, k)).cache
    /\ rolledBack' = TRUE
    /\ UNCHANGED tables

(***************************************************************************)
(* The writer: flushEventBatch.                                            *)
(***************************************************************************)
\* One event at a time may join the batch before its first attempt.
Receive ==
    /\ given < MaxEvents /\ mode = "batch" /\ tries = 0
    /\ given' = given + 1
    /\ \E d \in Devices, c \in Codes, z \in Zones \cup {NoZone} :
         batch' = Append(batch, [n |-> given', device |-> d, code |-> c, zone |-> z])
    /\ UNCHANGED <<tables, cache, mode, tries, refused, keeping, archiving, bounds, rolledBack>>

SaveEventsBatch ==
    /\ WriteLock /\ mode = "batch" /\ batch # <<>>
    /\ \/ Commit(batch) /\ batch' = <<>> /\ tries' = 0 /\ mode' = "batch"
       \/ /\ Rollback(batch)
          /\ batch' = batch
          /\ tries' = (tries + 1) % Attempts
          /\ mode' = IF tries' = 0 THEN "each" ELSE "batch"
    /\ UNCHANGED <<given, refused, keeping, archiving, deletes>>

SaveEvent ==
    /\ WriteLock /\ mode = "each"
    /\ LET e == Head(batch) IN
         \/ Commit(<<e>>) /\ batch' = Tail(batch) /\ tries' = 0 /\ UNCHANGED refused
         \/ /\ Rollback(<<e>>)
            /\ tries' = (tries + 1) % Attempts
            /\ batch' = IF tries' = 0 THEN Tail(batch) ELSE batch
            /\ refused' = IF tries' = 0 THEN refused \cup {e} ELSE refused
    /\ mode' = IF batch' = <<>> THEN "batch" ELSE "each"
    /\ UNCHANGED <<given, keeping, archiving, deletes>>

(***************************************************************************)
(* Other writes.                                                           *)
(***************************************************************************)
\* processDeviceUpdates.  After three failed attempts the update is shown all the same.
SaveDevice ==
    /\ WriteLock
    /\ \E d \in Devices : devices' = devices \cup {d}
    /\ UNCHANGED <<rows, events, cache, writer, keeping, archiving, bounds, rolledBack>>

\* The events of the device go with it; the codes and zones stay.
DeleteDeviceWithHistory ==
    /\ WriteLock /\ deletes < MaxDeletes /\ deletes' = deletes + 1
    /\ \E d \in devices :
         /\ devices' = devices \ {d}
         /\ events' = {row \in events : row.e.device # d}
    /\ UNCHANGED <<rows, cache, writer, keeping, archiving, faults, rolledBack>>

\* deferredCatalogSync: one transaction over the list, then the ids of all codes
\* are read again.  When the reading fails, the ids in memory stay as they are.
UpsertEventCatalog ==
    /\ WriteLock
    /\ LET after[i \in 0 .. Len(Catalogue)] ==
             IF i = 0 THEN Begun ELSE Ensured(after[i - 1], "code", Catalogue[i])
       IN rows' = after[Len(Catalogue)].rows
    /\ \/ cache' = [cache EXCEPT !.code = Preloaded(rows'.code, Codes)] /\ UNCHANGED faults
       \/ Fault /\ UNCHANGED cache
    /\ UNCHANGED <<devices, events, writer, keeping, archiving, deletes, rolledBack>>

\* The program ends, at any moment, and NewRepository opens the tables again and
\* reads the ids.
Reopen ==
    /\ Fault
    /\ cache' = [code |-> Preloaded(rows.code, Codes), zone |-> Preloaded(rows.zone, Zones)]
    /\ batch' = <<>> /\ mode' = "batch" /\ tries' = 0
    /\ interrupted' = (interrupted \/ keeper.at = "delete")
    /\ keeper' = Idle
    /\ rolledBack' = FALSE
    /\ UNCHANGED <<tables, given, refused, expired, archive, archiving, deletes>>

(***************************************************************************)
(* Maintenance.                                                            *)
(***************************************************************************)
Expire ==
    /\ expired < given /\ expired' = expired + 1
    /\ UNCHANGED <<tables, cache, writer, archive, keeper, interrupted, archiving, bounds, rolledBack>>

Overdue == {row.e.n : row \in {r \in events : r.e.n <= expired}}

KeeperMoves(at, load) ==
    /\ keeper' = [at |-> at, load |-> load]
    /\ UNCHANGED <<devices, rows, cache, writer, expired, archiving, deletes, rolledBack>>

\* Mutant of KeeperFails: the error of the archive is ignored.
KeeperGoesOn ==
    /\ keeper.at = "archive" /\ Fault
    /\ KeeperMoves("delete", keeper.load)
    /\ UNCHANGED <<events, archive, interrupted>>

\* A query or a statement failed, or the time for the run is over.
KeeperFails ==
    /\ keeper.at # "idle" /\ Fault
    /\ interrupted' = (interrupted \/ keeper.at = "delete")
    /\ KeeperMoves("idle", {})
    /\ UNCHANGED <<events, archive>>

\* Mutant of loadArchivedBatch: the event at the end of the retention is left.
loadBeforeCutoff ==
    /\ keeper.at \in {"idle", "load"}
    /\ LET old == Overdue \ {expired}
           oldest == {n \in old : Cardinality({k \in old : k < n}) < BatchSize}
       IN /\ keeper.at = "idle" => oldest # {}
          /\ IF oldest = {} THEN KeeperMoves("idle", {})
             ELSE KeeperMoves(IF archiving THEN "archive" ELSE "delete", oldest)
    /\ UNCHANGED <<events, archive, interrupted, faults>>

\* The oldest expired events, as many as a batch takes.
loadArchivedBatch ==
    /\ \/ keeper.at = "idle" /\ Overdue # {}
       \/ keeper.at = "load"
    /\ LET oldest == {n \in Overdue : Cardinality({k \in Overdue : k < n}) < BatchSize} IN
         IF oldest = {} THEN KeeperMoves("idle", {})
         ELSE KeeperMoves(IF archiving THEN "archive" ELSE "delete", oldest)
    /\ UNCHANGED <<events, archive, interrupted, faults>>

archiveEventBatch ==
    /\ keeper.at = "archive"
    /\ archive' = [n \in DOMAIN archive |-> archive[n] + (IF n \in keeper.load THEN 1 ELSE 0)]
    /\ KeeperMoves("delete", keeper.load)
    /\ UNCHANGED <<events, interrupted, faults>>

deleteEventBatchLocked ==
    /\ keeper.at = "delete"
    /\ events' = {row \in events : row.e.n \notin keeper.load}
    /\ IF Cardinality(keeper.load) < BatchSize THEN KeeperMoves("idle", {})
       ELSE KeeperMoves("load", {})
    /\ UNCHANGED <<archive, interrupted, faults>>

RunMaintenance == loadArchivedBatch \/ archiveEventBatch \/ deleteEventBatchLocked

Next ==
    \/ Receive \/ SaveEventsBatch \/ SaveEvent
    \/ SaveDevice \/ DeleteDeviceWithHistory \/ UpsertEventCatalog
    \/ Reopen \/ Expire \/ KeeperFails \/ RunMaintenance

\* The ticker of maintenanceLoop fires again after every run.
Fairness == WF_vars(RunMaintenance)

Spec == Init /\ [][Next]_vars /\ Fairness

(***************************************************************************)
(* Properties.                                                             *)
(***************************************************************************)
\* A table names nothing twice, and an event is stored once, for a device that has a
\* row, even when its device was deleted on the way (saveEventTxCached makes a row).
\* It is read back with the code and the zone it was received with, and the ids in
\* memory are those of the tables: only after a rollback, until the repository is
\* opened again, may an id in memory belong to no row, or to the row of another name
\* (saveEventTxCached keeps what it cached).
FiledUnderItsNames ==
    /\ IsInjective(rows.code) /\ IsInjective(rows.zone)
    /\ \A r1, r2 \in events : r1.e.n = r2.e.n => r1 = r2
    /\ \A row \in events : row.e.device \in devices
    /\ \A row \in events : ~ row.doubt =>
         /\ rows.code[row.code] = row.e.code
         /\ IF row.zone = 0 THEN row.e.zone = NoZone ELSE rows.zone[row.zone] = row.e.zone
    /\ ~ rolledBack => \A kind \in {"code", "zone"} : \A name \in DOMAIN cache[kind] :
         cache[kind][name] \in {0, IdOf(rows[kind], name)}

\* No event leaves the table before it is in the archive, when archiving is on,
\* unless the user deletes its device; and it gets into the archive a second time
\* only because a run ended between the commit to the archive and the deletion:
\* the two databases share no transaction.
MovedOnce ==
    [][/\ archiving => \A row \in events \ events' :
             archive'[row.e.n] > 0 \/ row.e.device \notin devices'
       /\ \A n \in DOMAIN archive :
             archive'[n] # archive[n] /\ archive'[n] > 1 => interrupted]_vars

\* Every expired event is eventually moved or deleted.
ExpiredIsRemoved == <>[](Overdue = {})
=============================================================================
