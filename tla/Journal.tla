------------------------------ MODULE Journal ------------------------------
(***************************************************************************)
(* The way of an event from the handlers to the database: tryEnqueue puts  *)
(* it on the bounded eventQueue, the single processEvents goroutine takes  *)
(* it off, batches it, stores the batch and tells the subscribers.         *)
(*                                                                         *)
(* The handlers call onEventCreated one event at a time and are not among  *)
(* the goroutines that Runtime.Stop waits for, so they may go on after the *)
(* cancellation.  What an event says is left out: the server validates a   *)
(* frame before it makes an event of it, so no event is too short to       *)
(* store.  SaveEventsBatch is one transaction, and a save fails at the     *)
(* will of the database.                                                   *)
(***************************************************************************)
EXTENDS Naturals, Sequences

CONSTANTS
  Handlers,      \* connection handlers, the producers
  NoEvent,       \* nothing in the hands of the writer
  MaxEvents,     \* bound: events offered by one handler
  QueueSize,     \* capacity of eventQueue (workerBuffer)
  BatchSize,     \* eventPersistBatchSize
  DrainMax,      \* eventShutdownDrainMax
  MaxAttempts    \* attempts of one retry

Events == Handlers \X (1 .. MaxEvents)

ASSUME SizesAssumption ==
  /\ MaxEvents \in Nat
  /\ DrainMax \in Nat
  /\ QueueSize \in Nat \ {0}
  /\ BatchSize \in Nat \ {0}
  /\ MaxAttempts \in Nat \ {0}

ASSUME NoEventAssumption == NoEvent \notin Events

VARIABLES
  hpc,         \* where each handler is in tryEnqueue
  offered,     \* number of events each handler is done with
  queue,       \* Runtime.eventQueue
  dropped,     \* Runtime.droppedEvent
  wpc,         \* where processEvents is
  cur,         \* the event it has taken off the queue
  batch,       \* its batch
  toSave,      \* the copy a flush works on
  then,        \* where the flush returns to
  attempt,     \* the attempt of the current retry
  drained,     \* events taken off during the shutdown
  stored,      \* rows of the events table, in order
  emitted,     \* events the subscribers were told of
  cancelled,   \* the run context is cancelled
  expired,     \* the context of the last flush has timed out
  overflowed,  \* history: the queue was found full
  refused      \* history: the database refused an event for good

handlerVars == <<hpc, offered>>
flushVars   == <<toSave, then, attempt>>
historyVars == <<overflowed, refused>>
vars == <<handlerVars, queue, dropped, wpc, cur, batch, flushVars, drained,
          stored, emitted, cancelled, expired, historyVars>>

ValuesOf(s) == {s[i] : i \in DOMAIN s}
Event(h) == <<h, offered[h] + 1>>

(* The writer has an event in its hands that it may still emit.            *)
Holding ==
  \/ wpc \in {"popped", "emit"}
  \/ wpc \in {"batch", "each"} /\ then = "emit"

HandlerTypes ==
  /\ hpc \in [Handlers -> {"idle", "full", "again"}]
  /\ offered \in [Handlers -> 0 .. MaxEvents]
  /\ \A h \in Handlers : hpc[h] # "idle" => offered[h] < MaxEvents

QueueTypes ==
  /\ queue \in Seq(Events)
  /\ Len(queue) <= QueueSize
  /\ dropped \in Nat

WriterTypes ==
  /\ wpc \in {"idle", "popped", "emit", "batch", "each", "drain", "done"}
  /\ cur \in Events \cup {NoEvent}
  /\ Holding => cur \in Events
  /\ batch \in Seq(Events)
  /\ toSave \in Seq(Events)
  /\ then \in {"idle", "emit", "done"}
  /\ attempt \in 1 .. MaxAttempts
  /\ drained \in 0 .. DrainMax

StoreTypes ==
  /\ stored \in Seq(Events)
  /\ emitted \in SUBSET Events
  /\ cancelled \in BOOLEAN /\ expired \in BOOLEAN
  /\ overflowed \in BOOLEAN /\ refused \in BOOLEAN

TypeOK == HandlerTypes /\ QueueTypes /\ WriterTypes /\ StoreTypes

Init ==
  /\ hpc = [h \in Handlers |-> "idle"]
  /\ offered = [h \in Handlers |-> 0]
  /\ queue = <<>>
  /\ dropped = 0
  /\ wpc = "idle"
  /\ cur = NoEvent
  /\ batch = <<>>
  /\ toSave = <<>>
  /\ then = "idle"
  /\ attempt = 1
  /\ drained = 0
  /\ stored = <<>>
  /\ emitted = {}
  /\ cancelled = FALSE
  /\ expired = FALSE
  /\ overflowed = FALSE
  /\ refused = FALSE

-----------------------------------------------------------------------------
(* tryEnqueue, in the three steps between which other goroutines may run.  *)

EnqueueDone(h, to) ==
  /\ hpc' = [hpc EXCEPT ![h] = to]
  /\ offered' = IF to = "idle" THEN [offered EXCEPT ![h] = @ + 1] ELSE offered

(* Mutant of Offer: one event too many is let in.                          *)
OfferOverfull(h) ==
  /\ hpc[h] = "idle"
  /\ offered[h] < MaxEvents
  /\ Len(queue) <= QueueSize
  /\ queue' = Append(queue, Event(h))
  /\ EnqueueDone(h, "idle")
  /\ UNCHANGED <<dropped, wpc, cur, batch, flushVars, drained, stored,
                 emitted, cancelled, expired, historyVars>>

Offer(h) ==
  /\ hpc[h] = "idle"
  /\ offered[h] < MaxEvents
  /\ \/ /\ Len(queue) < QueueSize
        /\ queue' = Append(queue, Event(h))
        /\ EnqueueDone(h, "idle")
        /\ UNCHANGED overflowed
     \/ /\ Len(queue) >= QueueSize
        /\ EnqueueDone(h, "full")
        /\ overflowed' = TRUE
        /\ UNCHANGED queue
  /\ UNCHANGED <<dropped, wpc, cur, batch, flushVars, drained, stored,
                 emitted, cancelled, expired, refused>>

(* Mutant of Displace: nothing makes room for the freshest event.          *)
DisplaceNone(h) ==
  /\ hpc[h] = "full"
  /\ EnqueueDone(h, "again")
  /\ UNCHANGED <<queue, dropped, wpc, cur, batch, flushVars, drained, stored,
                 emitted, cancelled, expired, historyVars>>

(* The oldest event goes, counted nowhere.                                 *)
Displace(h) ==
  /\ hpc[h] = "full"
  /\ EnqueueDone(h, "again")
  /\ queue' = IF queue = <<>> THEN queue ELSE Tail(queue)
  /\ UNCHANGED <<dropped, wpc, cur, batch, flushVars, drained, stored,
                 emitted, cancelled, expired, historyVars>>

OfferAgain(h) ==
  /\ hpc[h] = "again"
  /\ EnqueueDone(h, "idle")
  /\ \/ /\ Len(queue) < QueueSize
        /\ queue' = Append(queue, Event(h))
        /\ UNCHANGED dropped
     \/ /\ Len(queue) >= QueueSize
        /\ dropped' = dropped + 1
        /\ UNCHANGED queue
  /\ UNCHANGED <<wpc, cur, batch, flushVars, drained, stored, emitted,
                 cancelled, expired, historyVars>>

HandlerStep(h) == Offer(h) \/ Displace(h) \/ OfferAgain(h)

-----------------------------------------------------------------------------
(* flush and flushEventBatch.  A flush takes the batch at once and works   *)
(* on its copy; it runs under the run context, and under a fresh one with  *)
(* a timeout at shutdown.                                                  *)

Interrupted == IF then = "done" THEN expired ELSE cancelled

FlushReturn ==
  /\ wpc' = then
  /\ toSave' = <<>>
  /\ UNCHANGED <<then, attempt>>

(* An empty batch is not flushed.                                          *)
Flush(events, to) ==
  /\ then' = to
  /\ attempt' = 1
  /\ batch' = <<>>
  /\ toSave' = events
  /\ wpc' = IF events = <<>> THEN to ELSE "batch"

(* Mutant of BatchCommit: the copy is not given up with the commit.        *)
BatchCommitAgain ==
  /\ wpc = "batch"
  /\ ~Interrupted
  /\ stored' = stored \o toSave
  /\ wpc' = "each"
  /\ UNCHANGED <<handlerVars, queue, dropped, cur, batch, flushVars, drained,
                 emitted, cancelled, expired, historyVars>>

(* SaveEventsBatch commits all of the batch or none of it.                 *)
BatchCommit ==
  /\ wpc = "batch"
  /\ ~Interrupted
  /\ stored' = stored \o toSave
  /\ FlushReturn
  /\ UNCHANGED <<handlerVars, queue, dropped, cur, batch, drained, emitted,
                 cancelled, expired, historyVars>>

(* Mutant of BatchFail: no fallback after the last attempt.                *)
BatchFailGivesUp ==
  /\ wpc = "batch"
  /\ ~Interrupted
  /\ IF attempt < MaxAttempts
     THEN attempt' = attempt + 1 /\ UNCHANGED <<wpc, toSave, then>>
     ELSE FlushReturn
  /\ UNCHANGED <<handlerVars, queue, dropped, cur, batch, drained, stored,
                 emitted, cancelled, expired, historyVars>>

(* A refused transaction is tried again; then the events go one by one.    *)
BatchFail ==
  /\ wpc = "batch"
  /\ ~Interrupted
  /\ \/ /\ attempt < MaxAttempts
        /\ attempt' = attempt + 1
        /\ UNCHANGED wpc
     \/ /\ attempt = MaxAttempts
        /\ attempt' = 1
        /\ wpc' = "each"
  /\ UNCHANGED <<handlerVars, queue, dropped, cur, batch, toSave, then,
                 drained, stored, emitted, cancelled, expired, historyVars>>

EachSaved ==
  /\ wpc = "each"
  /\ toSave # <<>>
  /\ ~Interrupted
  /\ stored' = Append(stored, Head(toSave))
  /\ toSave' = Tail(toSave)
  /\ attempt' = 1
  /\ UNCHANGED <<handlerVars, queue, dropped, wpc, cur, batch, then, drained,
                 emitted, cancelled, expired, historyVars>>

(* Mutant of EachFailed: a refused event is tried again after the others.  *)
EachFailedLater ==
  /\ wpc = "each"
  /\ toSave # <<>>
  /\ ~Interrupted
  /\ \/ /\ attempt < MaxAttempts
        /\ attempt' = attempt + 1
        /\ UNCHANGED <<toSave, refused>>
     \/ /\ attempt = MaxAttempts
        /\ attempt' = 1
        /\ toSave' = Append(Tail(toSave), Head(toSave))
        /\ UNCHANGED refused
  /\ UNCHANGED <<handlerVars, queue, dropped, wpc, cur, batch, then, drained,
                 stored, emitted, cancelled, expired, overflowed>>

(* An event refused for good is logged and passed over.                    *)
EachFailed ==
  /\ wpc = "each"
  /\ toSave # <<>>
  /\ ~Interrupted
  /\ \/ /\ attempt < MaxAttempts
        /\ attempt' = attempt + 1
        /\ UNCHANGED <<toSave, refused>>
     \/ /\ attempt = MaxAttempts
        /\ attempt' = 1
        /\ toSave' = Tail(toSave)
        /\ refused' = TRUE
  /\ UNCHANGED <<handlerVars, queue, dropped, wpc, cur, batch, then, drained,
                 stored, emitted, cancelled, expired, overflowed>>

(* The fallback has gone through the batch, or the context of the flush is *)
(* done: what is left of the copy is lost.                                 *)
FlushEnd ==
  /\ \/ wpc = "batch" /\ Interrupted
     \/ wpc = "each" /\ (Interrupted \/ toSave = <<>>)
  /\ FlushReturn
  /\ UNCHANGED <<handlerVars, queue, dropped, cur, batch, drained, stored,
                 emitted, cancelled, expired, historyVars>>

FlushStep == BatchCommit \/ BatchFail \/ EachSaved \/ EachFailed \/ FlushEnd

-----------------------------------------------------------------------------
(* processEvents: with several cases of its select ready, Go picks one.    *)

Pop ==
  /\ wpc = "idle"
  /\ queue # <<>>
  /\ cur' = Head(queue)
  /\ queue' = Tail(queue)
  /\ wpc' = "popped"
  /\ UNCHANGED <<handlerVars, dropped, batch, flushVars, drained, stored,
                 emitted, cancelled, expired, historyVars>>

(* The event taken off after the cancellation goes nowhere.                *)
PopCancelled ==
  /\ wpc = "popped"
  /\ cancelled
  /\ wpc' = "idle"
  /\ cur' = NoEvent
  /\ UNCHANGED <<handlerVars, queue, dropped, batch, flushVars, drained,
                 stored, emitted, cancelled, expired, historyVars>>

(* Mutants of Collect: a full batch is thrown away; an event that fills    *)
(* the batch is not emitted.                                               *)
CollectLossy ==
  /\ wpc = "popped"
  /\ ~cancelled
  /\ IF Len(batch) + 1 < BatchSize
     THEN /\ batch' = Append(batch, cur)
          /\ wpc' = "emit"
          /\ UNCHANGED flushVars
     ELSE Flush(<<>>, "emit")
  /\ UNCHANGED <<handlerVars, queue, dropped, cur, drained, stored, emitted,
                 cancelled, expired, historyVars>>

CollectQuiet ==
  /\ wpc = "popped"
  /\ ~cancelled
  /\ IF Len(batch) + 1 < BatchSize
     THEN /\ batch' = Append(batch, cur)
          /\ wpc' = "emit"
          /\ UNCHANGED flushVars
     ELSE Flush(Append(batch, cur), "idle")
  /\ UNCHANGED <<handlerVars, queue, dropped, cur, drained, stored, emitted,
                 cancelled, expired, historyVars>>

(* The event joins the batch; a full batch is flushed before the event is  *)
(* emitted.                                                                *)
Collect ==
  /\ wpc = "popped"
  /\ ~cancelled
  /\ IF Len(batch) + 1 < BatchSize
     THEN /\ batch' = Append(batch, cur)
          /\ wpc' = "emit"
          /\ UNCHANGED flushVars
     ELSE Flush(Append(batch, cur), "emit")
  /\ UNCHANGED <<handlerVars, queue, dropped, cur, drained, stored, emitted,
                 cancelled, expired, historyVars>>

Emit ==
  /\ wpc = "emit"
  /\ emitted' = emitted \cup {cur}
  /\ cur' = NoEvent
  /\ wpc' = "idle"
  /\ UNCHANGED <<handlerVars, queue, dropped, batch, flushVars, drained,
                 stored, cancelled, expired, historyVars>>

(* Mutant of Tick: the ticker only flushes a full batch.                   *)
TickFull ==
  /\ wpc = "idle"
  /\ ~cancelled
  /\ Len(batch) >= BatchSize
  /\ Flush(batch, "idle")
  /\ UNCHANGED <<handlerVars, queue, dropped, cur, drained, stored, emitted,
                 cancelled, expired, historyVars>>

(* eventPersistInterval has passed.                                        *)
Tick ==
  /\ wpc = "idle"
  /\ ~cancelled
  /\ batch # <<>>
  /\ Flush(batch, "idle")
  /\ UNCHANGED <<handlerVars, queue, dropped, cur, drained, stored, emitted,
                 cancelled, expired, historyVars>>

StartDrain ==
  /\ wpc = "idle"
  /\ cancelled
  /\ wpc' = "drain"
  /\ UNCHANGED <<handlerVars, queue, dropped, cur, batch, flushVars, drained,
                 stored, emitted, cancelled, expired, historyVars>>

Drain ==
  /\ wpc = "drain"
  /\ drained < DrainMax
  /\ queue # <<>>
  /\ batch' = Append(batch, Head(queue))
  /\ queue' = Tail(queue)
  /\ drained' = drained + 1
  /\ UNCHANGED <<handlerVars, dropped, wpc, cur, flushVars, stored, emitted,
                 cancelled, expired, historyVars>>

(* Mutant of DrainEnd: the drain waits for the events it may still take.   *)
DrainEndWaits ==
  /\ wpc = "drain"
  /\ drained >= DrainMax
  /\ Flush(batch, "done")
  /\ UNCHANGED <<handlerVars, queue, dropped, cur, drained, stored, emitted,
                 cancelled, expired, historyVars>>

(* The queue is empty or the drain has taken its share: the last flush.    *)
DrainEnd ==
  /\ wpc = "drain"
  /\ drained >= DrainMax \/ queue = <<>>
  /\ Flush(batch, "done")
  /\ UNCHANGED <<handlerVars, queue, dropped, cur, drained, stored, emitted,
                 cancelled, expired, historyVars>>

WriterStep ==
  \/ Pop \/ PopCancelled \/ Collect \/ Emit \/ Tick
  \/ StartDrain \/ Drain \/ DrainEnd \/ FlushStep

-----------------------------------------------------------------------------
(* Runtime.Stop cancels the run.                                           *)
Cancel ==
  /\ ~cancelled
  /\ cancelled' = TRUE
  /\ UNCHANGED <<handlerVars, queue, dropped, wpc, cur, batch, flushVars,
                 drained, stored, emitted, expired, historyVars>>

(* eventShutdownFlushWait has passed.                                      *)
Expire ==
  /\ wpc \in {"batch", "each"} /\ then = "done"
  /\ ~expired
  /\ expired' = TRUE
  /\ UNCHANGED <<handlerVars, queue, dropped, wpc, cur, batch, flushVars,
                 drained, stored, emitted, cancelled, historyVars>>

Next ==
  \/ \E h \in Handlers : HandlerStep(h)
  \/ WriterStep
  \/ Cancel
  \/ Expire

Spec == Init /\ [][Next]_vars

(* The writer is scheduled, its ticker ticks and the database answers.     *)
Fairness == WF_vars(WriterStep)

FairSpec == Spec /\ Fairness

-----------------------------------------------------------------------------
Held == IF wpc = "popped" THEN <<cur>> ELSE <<>>

(* The events under way, oldest first.                                     *)
Pending == toSave \o batch \o Held \o queue
Kept == ValuesOf(stored) \cup ValuesOf(Pending)

HasOffered(e) == e[2] <= offered[e[1]]

(* Through batches, retries, the fallback and the last flush, the journal  *)
(* stores events in the order they came and none twice; an event given up  *)
(* is not stored later.                                                    *)
Log == INSTANCE LossyLog
         WITH offered <- {e \in Events : HasOffered(e)}, pending <- Pending
ImplementsLog == Log!Spec

(* Events of one handler are stored in the order in which it received      *)
(* them, and none twice: an operator reads alarm and restore in that       *)
(* order.                                                                  *)
StoredOnceInOrder ==
  \A m, n \in DOMAIN stored :
    m < n /\ stored[m][1] = stored[n][1] => stored[m][2] < stored[n][2]

(* An event that a handler passed on is stored or under way, unless the    *)
(* queue overflowed, the database refused it for good or the run was       *)
(* cancelled.                                                              *)
LossNeedsCause ==
  \A e \in Events :
    HasOffered(e) =>
      e \in Kept \/ overflowed \/ refused \/ cancelled

(* What the subscribers were shown is or will be in the database, unless   *)
(* the database refused or the run was cancelled: an overflow never takes  *)
(* back an event already shown.                                            *)
ShownIsKept == emitted \subseteq Kept \/ refused \/ cancelled

(* A stored event has been shown to the subscribers; only the last flush   *)
(* and the event that fills a batch are stored before they are shown.      *)
StoredIsShown ==
  ValuesOf(stored) \subseteq emitted \cup {cur} \/ cancelled

(* Every event taken into the queue is stored in the end, unless it is     *)
(* lost for one of the known causes: the ticker flushes a batch that never *)
(* fills.                                                                  *)
QueuedGetsStored ==
  \A e \in Events :
    e \in ValuesOf(queue) ~>
      e \in ValuesOf(stored) \/ overflowed \/ refused \/ cancelled

(* A cancelled writer ends, although handlers may still feed its queue.    *)
WriterEnds == cancelled ~> wpc = "done"

(* "Drain a bounded number of queued events" and "let the case             *)
(* <-ctx.Done() handle the batch": when the writer has ended with nothing  *)
(* refused, timed out or overflowed, what was queued within the bound is   *)
(* stored.  An event still in the queue came after the drain.              *)
DrainedIsStored ==
  wpc = "done" /\ ~overflowed /\ ~refused /\ ~expired /\ drained < DrainMax =>
    \A e \in Events : HasOffered(e) => e \in ValuesOf(stored) \cup ValuesOf(queue)

(* "Drop one oldest item and push the freshest update": the freshest item  *)
(* is always pushed, so no handler finds the queue full twice.             *)
FreshestIsPushed == dropped = 0
=============================================================================
