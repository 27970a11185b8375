------------------------------- MODULE Relay -------------------------------
(***************************************************************************)
(* The delivery path of the CID relay: TCPServer.handleClient (one         *)
(* goroutine per panel connection), the bounded core.MessageQueue, the     *)
(* single RelayClient goroutine, the two relay filters and the             *)
(* cancellation of the run context.                                        *)
(*                                                                         *)
(* A job is one frame of one connection.  handleClient makes a reply       *)
(* channel of capacity 1 for every event it queues, so a job also names    *)
(* its reply channel.  What a frame says is abstracted to its kind.        *)
(*                                                                         *)
(* The panels, the network and the monitoring station are external.  A     *)
(* panel that hangs up needs no action of its own: the server only sees a  *)
(* failed Read, and it ignores failed writes.                              *)
(***************************************************************************)
EXTENDS Naturals, Sequences, FiniteSets

CONSTANTS
  Conns,            \* panel connections, each served by one handler
  Classes,          \* classes of event messages that a filter tells apart
  NoJob,            \* no message in the hands of the relay client
  ControlSent,      \* kinds of the other frames that panels send
  MaxFrames,        \* bound: frames sent on one connection
  QueueSize,        \* capacity of the message queue
  MaxRuleChanges    \* bound: saves of the relay filter rule

Control == {"heartbeat", "invalid", "overlong"}
Jobs    == Conns \X (1 .. MaxFrames)
Kinds   == Classes \cup ControlSent

ASSUME BoundsAssumption ==
  /\ MaxFrames \in Nat
  /\ MaxRuleChanges \in Nat

(* NewMessageQueue never makes a queue of capacity 0.                      *)
ASSUME QueueAssumption == QueueSize \in Nat \ {0}

ASSUME NamesAssumption ==
  /\ NoJob \notin Jobs
  /\ ControlSent \subseteq Control
  /\ Classes \cap (Control \cup {"unsent"}) = {}

VARIABLES
  kind,         \* kind of each frame, "unsent" before the panel sends it
  sent,         \* number of frames the panel has sent
  got,          \* number of frames the handler has read (its buffer acc)
  next,         \* the frame the handler is at
  answer,       \* the byte the server wrote for a frame
  pc,           \* where each handler is
  conns,        \* TCPServer.conns: the tracked connections
  open,         \* connections whose socket the server has not closed
  serverFilter, \* TCPServer.relayFilter: the classes it blocks
  exempt,       \* who kept a message from the station: a filter, or "no"
  journal,      \* what onEvent was told of a job
  queue,        \* MessageQueue.ch
  reply,        \* SharedMessage.ReplyCh of each job
  rpc,          \* where the relay client is
  cur,          \* the message it has taken
  relayFilter,  \* RelayClient.relayFilter
  stats,        \* Metrics: received, accepted, rejected
  forwarded,    \* history: the messages written upstream, in order
  link,         \* the upstream connection: "down", "up" or "broken"
  wire,         \* messages on the current connection, not yet at the station
  back,         \* verdicts on the current connection, not yet read
  stationGot,   \* messages the station has accepted
  cancelled,    \* the run context is cancelled
  swept,        \* closeAllClients has run after the cancellation
  saving,       \* SaveRelayFilterRule is between its two updates
  ruleChanges

panelVars   == <<kind, sent>>
handlerVars == <<got, next, answer, pc, conns, open>>
jobVars     == <<exempt, journal, reply>>
relayVars   == <<rpc, cur, forwarded>>
linkVars    == <<link, wire, back, stationGot>>
ruleVars    == <<serverFilter, relayFilter, saving, ruleChanges>>
stopVars    == <<cancelled, swept>>
vars == <<panelVars, handlerVars, jobVars, queue, relayVars, linkVars,
          ruleVars, stats, stopVars>>

Job(c) == <<c, next[c]>>
InQueue(j) == \E i \in DOMAIN queue : queue[i] = j
ValuesOf(s) == {s[i] : i \in DOMAIN s}
Verdicts == [job : Jobs, ok : BOOLEAN]

PanelTypes ==
  /\ kind \in [Jobs -> Kinds \cup {"unsent"}]
  /\ sent \in [Conns -> 0 .. MaxFrames]

HandlerTypes ==
  /\ got \in [Conns -> 0 .. MaxFrames]
  /\ next \in [Conns -> 1 .. MaxFrames + 1]
  /\ answer \in [Jobs -> {"none", "ack", "nack"}]
  /\ pc \in [Conns -> {"new", "accepted", "top", "reading", "scan", "wait",
                       "deliver", "ack", "nack", "closed"}]
  /\ conns \in SUBSET Conns
  /\ open \in [Conns -> BOOLEAN]

JobTypes ==
  /\ exempt \in [Jobs -> {"no", "server", "relay"}]
  /\ journal \in [Jobs -> {"none", "relayed", "blocked"}]
  /\ reply \in [Jobs -> {"empty", "ok", "failed", "taken"}]

RelayTypes ==
  /\ rpc \in {"top", "dial", "backoff", "idle", "took", "sent", "stopped"}
  /\ cur \in Jobs \cup {NoJob}
  /\ rpc \in {"took", "sent"} => cur \in Jobs
  /\ forwarded \in Seq(Jobs)

LinkTypes ==
  /\ link \in {"down", "up", "broken"}
  /\ wire \in Seq(Jobs)
  /\ back \in Seq(Verdicts)
  /\ stationGot \in SUBSET Jobs

RuleTypes ==
  /\ serverFilter \in SUBSET Classes
  /\ relayFilter \in SUBSET Classes
  /\ saving \in BOOLEAN
  /\ ruleChanges \in 0 .. MaxRuleChanges

StatTypes == stats \in [received : Nat, accepted : Nat, rejected : Nat]

StopTypes == cancelled \in BOOLEAN /\ swept \in BOOLEAN

(* A handler past the scan of a frame is at a frame that it has read.      *)
AtFrame ==
  \A c \in Conns :
    pc[c] \in {"wait", "deliver", "ack", "nack"} => next[c] <= got[c]

TypeOK ==
  /\ PanelTypes /\ HandlerTypes /\ JobTypes /\ queue \in Seq(Jobs)
  /\ RelayTypes /\ LinkTypes /\ RuleTypes /\ StatTypes /\ StopTypes
  /\ AtFrame

Init ==
  /\ kind = [j \in Jobs |-> "unsent"]
  /\ sent = [c \in Conns |-> 0]
  /\ got = [c \in Conns |-> 0]
  /\ next = [c \in Conns |-> 1]
  /\ answer = [j \in Jobs |-> "none"]
  /\ pc = [c \in Conns |-> "new"]
  /\ conns = {}
  /\ open = [c \in Conns |-> FALSE]
  /\ serverFilter \in SUBSET Classes
  /\ relayFilter = serverFilter
  /\ exempt = [j \in Jobs |-> "no"]
  /\ journal = [j \in Jobs |-> "none"]
  /\ queue = <<>>
  /\ reply = [j \in Jobs |-> "empty"]
  /\ rpc = "top"
  /\ cur = NoJob
  /\ stats = [received |-> 0, accepted |-> 0, rejected |-> 0]
  /\ forwarded = <<>>
  /\ link = "down"
  /\ wire = <<>>
  /\ back = <<>>
  /\ stationGot = {}
  /\ cancelled = FALSE
  /\ swept = FALSE
  /\ saving = FALSE
  /\ ruleChanges = 0

-----------------------------------------------------------------------------
(* The panel.                                                              *)

PanelSend(c, k) ==
  /\ pc[c] \notin {"new", "closed"}
  /\ open[c]
  /\ sent[c] < MaxFrames
  /\ sent' = [sent EXCEPT ![c] = @ + 1]
  /\ kind' = [kind EXCEPT ![<<c, sent[c] + 1>>] = k]
  /\ UNCHANGED <<handlerVars, jobVars, queue, relayVars, linkVars, ruleVars,
                 stats, stopVars>>

-----------------------------------------------------------------------------
(* TCPServer: Run, handleClient and what they call.                        *)

Goto(c, to) == pc' = [pc EXCEPT ![c] = to]

(* The deferred conn.Close and untrackConn of handleClient.                *)
Leave(c) ==
  /\ Goto(c, "closed")
  /\ conns' = conns \ {c}
  /\ open' = [open EXCEPT ![c] = FALSE]

(* ctx.Err() and safeWrite: nothing is written once the run is cancelled.  *)
Respond(c, byte) ==
  \/ /\ cancelled
     /\ Leave(c)
     /\ UNCHANGED <<answer, next>>
  \/ /\ ~cancelled
     /\ answer' = [answer EXCEPT ![Job(c)] = byte]
     /\ next' = [next EXCEPT ![c] = @ + 1]
     /\ Goto(c, "scan")
     /\ UNCHANGED <<conns, open>>

(* Accept succeeds: a connection accepted after the cancellation still     *)
(* gets a handler.                                                         *)
Accept(c) ==
  /\ pc[c] = "new"
  /\ Goto(c, "accepted")
  /\ open' = [open EXCEPT ![c] = TRUE]
  /\ UNCHANGED <<panelVars, got, next, answer, conns, jobVars, queue,
                 relayVars, linkVars, ruleVars, stats, stopVars>>

TrackConn(c) ==
  /\ pc[c] = "accepted"
  /\ conns' = conns \cup {c}
  /\ Goto(c, "top")
  /\ UNCHANGED <<panelVars, got, next, answer, open, jobVars, queue,
                 relayVars, linkVars, ruleVars, stats, stopVars>>

(* Mutant of LoopTop: no look at ctx.Done before Read.                     *)
LoopTopUnchecked(c) ==
  /\ pc[c] = "top"
  /\ Goto(c, "reading")
  /\ UNCHANGED <<panelVars, got, next, answer, conns, open, jobVars, queue,
                 relayVars, linkVars, ruleVars, stats, stopVars>>

(* The head of the read loop: leave when cancelled, otherwise Read.        *)
LoopTop(c) ==
  /\ pc[c] = "top"
  /\ \/ /\ cancelled
        /\ Leave(c)
     \/ /\ ~cancelled
        /\ Goto(c, "reading")
        /\ UNCHANGED <<conns, open>>
  /\ UNCHANGED <<panelVars, got, next, answer, jobVars, queue, relayVars,
                 linkVars, ruleVars, stats, stopVars>>

(* Mutant of Arrived: Read hands out a frame more than there is.           *)
ArrivedAndMore(c) == (got[c] + 1) .. (sent[c] + 1)

(* One Read returns one or more of the frames that have arrived.           *)
Arrived(c) == (got[c] + 1) .. sent[c]

Read(c) ==
  /\ pc[c] = "reading"
  /\ open[c]
  /\ \E n \in Arrived(c) : got' = [got EXCEPT ![c] = n]
  /\ Goto(c, "scan")
  /\ UNCHANGED <<panelVars, next, answer, conns, open, jobVars, queue,
                 relayVars, linkVars, ruleVars, stats, stopVars>>

(* The panel hung up, the read deadline passed, or the server closed the   *)
(* socket.                                                                 *)
ReadFail(c) ==
  /\ pc[c] = "reading"
  /\ Leave(c)
  /\ UNCHANGED <<panelVars, got, next, answer, jobVars, queue, relayVars,
                 linkVars, ruleVars, stats, stopVars>>

ScanDone(c) ==
  /\ pc[c] = "scan"
  /\ next[c] > got[c]
  /\ Goto(c, "top")
  /\ UNCHANGED <<panelVars, got, next, answer, conns, open, jobVars, queue,
                 relayVars, linkVars, ruleVars, stats, stopVars>>

Scanning(c, kinds) ==
  /\ pc[c] = "scan"
  /\ next[c] <= got[c]
  /\ kind[Job(c)] \in kinds

(* A heartbeat is acknowledged; a frame that fails validation or cannot be *)
(* renumbered is refused.                                                  *)
ScanControl(c) ==
  /\ \/ Scanning(c, {"heartbeat"}) /\ Respond(c, "ack")
     \/ Scanning(c, {"invalid"}) /\ Respond(c, "nack")
  /\ UNCHANGED <<panelVars, got, jobVars, queue, relayVars, linkVars,
                 ruleVars, stats, stopVars>>

(* More than maxBufferSize bytes without a terminator.                     *)
ScanOverlong(c) ==
  /\ Scanning(c, {"overlong"})
  /\ Leave(c)
  /\ UNCHANGED <<panelVars, got, next, answer, jobVars, queue, relayVars,
                 linkVars, ruleVars, stats, stopVars>>

(* An event is counted and looked up in the filter.  A blocked one is      *)
(* handed over at once.                                                    *)
ScanBlocked(c) ==
  /\ Scanning(c, serverFilter)
  /\ stats' = [stats EXCEPT !.received = @ + 1]
  /\ exempt' = [exempt EXCEPT ![Job(c)] = "server"]
  /\ Goto(c, "deliver")
  /\ UNCHANGED <<panelVars, got, next, answer, conns, open, journal, reply,
                 queue, relayVars, linkVars, ruleVars, stopVars>>

(* Enqueue never blocks: a full queue refuses the message.                 *)
ScanQueued(c) ==
  /\ Scanning(c, Classes \ serverFilter)
  /\ stats' = [stats EXCEPT !.received = @ + 1]
  /\ \/ /\ Len(queue) < QueueSize
        /\ queue' = Append(queue, Job(c))
        /\ Goto(c, "wait")
     \/ /\ Len(queue) >= QueueSize
        /\ Goto(c, "nack")
        /\ UNCHANGED queue
  /\ UNCHANGED <<panelVars, got, next, answer, conns, open, jobVars,
                 relayVars, linkVars, ruleVars, stopVars>>

(* Mutant of WaitReply: acknowledge first, journal never.                  *)
WaitReplyUnrecorded(c) ==
  /\ pc[c] = "wait"
  /\ reply[Job(c)] \in {"ok", "failed"}
  /\ reply' = [reply EXCEPT ![Job(c)] = "taken"]
  /\ Goto(c, IF reply[Job(c)] = "ok" THEN "ack" ELSE "nack")
  /\ UNCHANGED <<panelVars, got, next, answer, conns, open, exempt, journal,
                 queue, relayVars, linkVars, ruleVars, stats, stopVars>>

(* waitReply: the reply, the reply timer, or the cancellation.             *)
WaitReply(c) ==
  /\ pc[c] = "wait"
  /\ reply[Job(c)] \in {"ok", "failed"}
  /\ reply' = [reply EXCEPT ![Job(c)] = "taken"]
  /\ Goto(c, IF reply[Job(c)] = "ok" THEN "deliver" ELSE "nack")
  /\ UNCHANGED <<panelVars, got, next, answer, conns, open, exempt, journal,
                 queue, relayVars, linkVars, ruleVars, stats, stopVars>>

GiveUp(c, to) ==
  /\ pc[c] = "wait"
  /\ Goto(c, to)
  /\ UNCHANGED <<panelVars, got, next, answer, conns, open, jobVars, queue,
                 relayVars, linkVars, ruleVars, stats, stopVars>>

(* Mutants of WaitTimeout: no reply timer, and a timer that counts as      *)
(* delivery.                                                               *)
WaitNoTimer(c) == cancelled /\ GiveUp(c, "nack")
WaitTimeoutOk(c) == GiveUp(c, "deliver")

WaitTimeout(c) == GiveUp(c, "nack")

WaitCancelled(c) == cancelled /\ GiveUp(c, "nack")

(* Mutant of Callbacks: the flag is read from the filter again instead of  *)
(* from the event.                                                         *)
CallbacksReread(c) ==
  /\ pc[c] = "deliver"
  /\ journal' = [journal EXCEPT ![Job(c)] =
                   IF kind[Job(c)] \in serverFilter
                   THEN "blocked" ELSE "relayed"]
  /\ Goto(c, "ack")
  /\ UNCHANGED <<panelVars, got, next, answer, conns, open, exempt, reply,
                 queue, relayVars, linkVars, ruleVars, stats, stopVars>>

(* onDevice and onEvent, both with the RelayBlocked flag of the job.       *)
Callbacks(c) ==
  /\ pc[c] = "deliver"
  /\ journal' = [journal EXCEPT ![Job(c)] =
                   IF exempt[Job(c)] = "server" THEN "blocked" ELSE "relayed"]
  /\ Goto(c, "ack")
  /\ UNCHANGED <<panelVars, got, next, answer, conns, open, exempt, reply,
                 queue, relayVars, linkVars, ruleVars, stats, stopVars>>

SendAnswer(c) ==
  /\ pc[c] \in {"ack", "nack"}
  /\ Respond(c, pc[c])
  /\ UNCHANGED <<panelVars, got, jobVars, queue, relayVars, linkVars,
                 ruleVars, stats, stopVars>>

HandlerStep(c) ==
  \/ TrackConn(c) \/ LoopTop(c) \/ Read(c) \/ ReadFail(c)
  \/ ScanDone(c) \/ ScanControl(c) \/ ScanOverlong(c)
  \/ ScanBlocked(c) \/ ScanQueued(c)
  \/ WaitReply(c) \/ WaitTimeout(c) \/ WaitCancelled(c)
  \/ Callbacks(c) \/ SendAnswer(c)

-----------------------------------------------------------------------------
(* RelayClient: Run and processConnection.                                 *)

(* The upstream connection goes away.  What it still carries may yet reach *)
(* the station, which is decided here; a verdict on its way is lost.       *)
DropLink(to, carried) ==
  /\ link' = to
  /\ wire' = <<>>
  /\ back' = <<>>
  /\ \/ stationGot' = stationGot \cup carried
     \/ UNCHANGED stationGot

(* msg.ReplyCh <- result: blocks while the channel is full.                *)
SendReply(result) ==
  /\ reply[cur] = "empty"
  /\ reply' = [reply EXCEPT ![cur] = result]

RelayTop ==
  /\ rpc = "top"
  /\ rpc' = IF cancelled THEN "stopped" ELSE "dial"
  /\ UNCHANGED <<panelVars, handlerVars, jobVars, queue, cur, forwarded,
                 linkVars, ruleVars, stats, stopVars>>

RelayDial ==
  /\ rpc = "dial"
  /\ rpc' = "idle"
  /\ link' = "up"
  /\ UNCHANGED <<panelVars, handlerVars, jobVars, queue, cur, forwarded,
                 wire, back, stationGot, ruleVars, stats, stopVars>>

RelayDialFail ==
  /\ rpc = "dial"
  /\ rpc' = "backoff"
  /\ UNCHANGED <<panelVars, handlerVars, jobVars, queue, cur, forwarded,
                 linkVars, ruleVars, stats, stopVars>>

(* The wait before the next dial ends by its timer or the cancellation.    *)
RelayBackoff ==
  /\ rpc = "backoff"
  /\ \/ rpc' = "top"
     \/ cancelled /\ rpc' = "stopped"
  /\ UNCHANGED <<panelVars, handlerVars, jobVars, queue, cur, forwarded,
                 linkVars, ruleVars, stats, stopVars>>

(* Mutant of RelayIdleCancelled: the cancellation is only seen with a      *)
(* message at hand.                                                        *)
RelayIdleDeaf ==
  /\ rpc = "idle"
  /\ cancelled
  /\ queue # <<>>
  /\ rpc' = "top"
  /\ DropLink("down", ValuesOf(wire))
  /\ UNCHANGED <<panelVars, handlerVars, jobVars, queue, cur, forwarded,
                 ruleVars, stats, stopVars>>

(* The select of processConnection: with both cases ready, Go picks one.   *)
RelayIdleCancelled ==
  /\ rpc = "idle"
  /\ cancelled
  /\ rpc' = "top"
  /\ DropLink("down", ValuesOf(wire))
  /\ UNCHANGED <<panelVars, handlerVars, jobVars, queue, cur, forwarded,
                 ruleVars, stats, stopVars>>

RelayTake ==
  /\ rpc = "idle"
  /\ queue # <<>>
  /\ cur' = Head(queue)
  /\ queue' = Tail(queue)
  /\ rpc' = "took"
  /\ UNCHANGED <<panelVars, handlerVars, jobVars, forwarded, linkVars,
                 ruleVars, stats, stopVars>>

(* Mutant of RelayBypass: a bypass counts as accepted by the station.      *)
RelayBypassCounted ==
  /\ rpc = "took"
  /\ kind[cur] \in relayFilter
  /\ SendReply("ok")
  /\ exempt' = [exempt EXCEPT ![cur] = "relay"]
  /\ stats' = [stats EXCEPT !.accepted = @ + 1]
  /\ rpc' = "idle"
  /\ cur' = NoJob
  /\ UNCHANGED <<panelVars, handlerVars, journal, queue, forwarded, linkVars,
                 ruleVars, stopVars>>

(* The filter has come to block the message since the server queued it.    *)
RelayBypass ==
  /\ rpc = "took"
  /\ kind[cur] \in relayFilter
  /\ SendReply("ok")
  /\ exempt' = [exempt EXCEPT ![cur] = "relay"]
  /\ rpc' = "idle"
  /\ cur' = NoJob
  /\ UNCHANGED <<panelVars, handlerVars, journal, queue, forwarded, linkVars,
                 ruleVars, stats, stopVars>>

(* A write into a broken connection may still succeed locally.             *)
RelayWrite ==
  /\ rpc = "took"
  /\ kind[cur] \notin relayFilter
  /\ rpc' = "sent"
  /\ forwarded' = Append(forwarded, cur)
  /\ wire' = IF link = "up" THEN Append(wire, cur) ELSE wire
  /\ UNCHANGED <<panelVars, handlerVars, jobVars, queue, cur, link, back,
                 stationGot, ruleVars, stats, stopVars>>

(* Mutant of RelayWriteFail: the refused message is queued again.          *)
RelayWriteFailRequeue ==
  /\ rpc = "took"
  /\ kind[cur] \notin relayFilter
  /\ SendReply("failed")
  /\ DropLink("down", ValuesOf(wire) \cup {cur})
  /\ queue' = <<cur>> \o queue
  /\ rpc' = "top"
  /\ cur' = NoJob
  /\ UNCHANGED <<panelVars, handlerVars, exempt, journal, forwarded,
                 ruleVars, stats, stopVars>>

(* A failed write: the station may or may not have got the message.        *)
RelayWriteFail ==
  /\ rpc = "took"
  /\ kind[cur] \notin relayFilter
  /\ SendReply("failed")
  /\ DropLink("down", ValuesOf(wire) \cup {cur})
  /\ rpc' = "top"
  /\ cur' = NoJob
  /\ UNCHANGED <<panelVars, handlerVars, exempt, journal, queue, forwarded,
                 ruleVars, stats, stopVars>>

(* The first byte of what Read returns decides.                            *)
RelayRead ==
  /\ rpc = "sent"
  /\ back # <<>>
  /\ SendReply(IF Head(back).ok THEN "ok" ELSE "failed")
  /\ back' = Tail(back)
  /\ stats' = IF Head(back).ok
              THEN [stats EXCEPT !.accepted = @ + 1]
              ELSE [stats EXCEPT !.rejected = @ + 1]
  /\ rpc' = "idle"
  /\ cur' = NoJob
  /\ UNCHANGED <<panelVars, handlerVars, exempt, journal, queue, forwarded,
                 link, wire, stationGot, ruleVars, stopVars>>

(* Mutants of RelayReadFail: the connection is kept after the deadline;    *)
(* the message is tried again behind the others; there is no deadline.     *)
RelayReadFailKeep ==
  /\ rpc = "sent"
  /\ SendReply("failed")
  /\ rpc' = "idle"
  /\ cur' = NoJob
  /\ UNCHANGED <<panelVars, handlerVars, exempt, journal, queue, forwarded,
                 linkVars, ruleVars, stats, stopVars>>

RelayReadFailRetry ==
  /\ rpc = "sent"
  /\ DropLink("down", ValuesOf(wire))
  /\ queue' = Append(queue, cur)
  /\ rpc' = "top"
  /\ cur' = NoJob
  /\ UNCHANGED <<panelVars, handlerVars, jobVars, forwarded, ruleVars, stats,
                 stopVars>>

RelayReadNoDeadline ==
  /\ rpc = "sent"
  /\ link = "broken"
  /\ SendReply("failed")
  /\ DropLink("down", ValuesOf(wire))
  /\ rpc' = "top"
  /\ cur' = NoJob
  /\ UNCHANGED <<panelVars, handlerVars, exempt, journal, queue, forwarded,
                 ruleVars, stats, stopVars>>

(* The read deadline passed, or the connection is broken: the connection   *)
(* is given up with the message.                                           *)
RelayReadFail ==
  /\ rpc = "sent"
  /\ SendReply("failed")
  /\ DropLink("down", ValuesOf(wire))
  /\ rpc' = "top"
  /\ cur' = NoJob
  /\ UNCHANGED <<panelVars, handlerVars, exempt, journal, queue, forwarded,
                 ruleVars, stats, stopVars>>

RelayStep ==
  \/ RelayTop \/ RelayDial \/ RelayDialFail \/ RelayBackoff
  \/ RelayIdleCancelled \/ RelayTake \/ RelayBypass
  \/ RelayWrite \/ RelayWriteFail \/ RelayRead \/ RelayReadFail

-----------------------------------------------------------------------------
(* The network and the monitoring station.  The station answers a message  *)
(* at most once, on the connection it came by.                             *)

StationTake ==
  /\ link = "up"
  /\ wire # <<>>
  /\ wire' = Tail(wire)
  /\ \/ /\ stationGot' = stationGot \cup {Head(wire)}
        /\ back' = Append(back, [job |-> Head(wire), ok |-> TRUE])
     \/ /\ back' = Append(back, [job |-> Head(wire), ok |-> FALSE])
        /\ UNCHANGED stationGot
     \/ UNCHANGED <<stationGot, back>>
  /\ UNCHANGED <<panelVars, handlerVars, jobVars, queue, relayVars, link,
                 ruleVars, stats, stopVars>>

LinkBreak ==
  /\ link = "up"
  /\ DropLink("broken", ValuesOf(wire))
  /\ UNCHANGED <<panelVars, handlerVars, jobVars, queue, relayVars, ruleVars,
                 stats, stopVars>>

-----------------------------------------------------------------------------
(* The runtime: Stop and SaveRelayFilterRule.                              *)

Cancel ==
  /\ ~cancelled
  /\ cancelled' = TRUE
  /\ UNCHANGED <<panelVars, handlerVars, jobVars, queue, relayVars, linkVars,
                 ruleVars, stats, swept>>

(* By the goroutine Run starts for it, and again by TCPServer.Stop.        *)
CloseAllClients ==
  /\ cancelled
  /\ open' = [c \in Conns |-> open[c] /\ c \notin conns]
  /\ swept' = TRUE
  /\ UNCHANGED <<panelVars, got, next, answer, pc, conns, jobVars, queue,
                 relayVars, linkVars, ruleVars, stats, cancelled>>

(* RelayClient.Stop closes the connection under the running client.        *)
RelayStop == cancelled /\ LinkBreak

(* The server's filter first, then the client's.                           *)
SaveRule(filter) ==
  /\ ~saving
  /\ ruleChanges < MaxRuleChanges
  /\ serverFilter' = filter
  /\ saving' = TRUE
  /\ ruleChanges' = ruleChanges + 1
  /\ UNCHANGED <<panelVars, handlerVars, jobVars, queue, relayVars, linkVars,
                 relayFilter, stats, stopVars>>

SaveRuleDone ==
  /\ saving
  /\ relayFilter' = serverFilter
  /\ saving' = FALSE
  /\ UNCHANGED <<panelVars, handlerVars, jobVars, queue, relayVars, linkVars,
                 serverFilter, ruleChanges, stats, stopVars>>

-----------------------------------------------------------------------------
Next ==
  \/ \E c \in Conns, k \in Kinds : PanelSend(c, k)
  \/ \E c \in Conns : Accept(c)
  \/ \E c \in Conns : HandlerStep(c)
  \/ RelayStep
  \/ StationTake
  \/ LinkBreak
  \/ Cancel
  \/ CloseAllClients
  \/ RelayStop
  \/ \E f \in SUBSET Classes : SaveRule(f)
  \/ SaveRuleDone

Spec == Init /\ [][Next]_vars

(* Goroutines are scheduled, timers fire and dials return, so a handler or *)
(* a relay client that can move does.  A dial may fail for ever.           *)
Fairness ==
  /\ \A c \in Conns : WF_vars(HandlerStep(c))
  /\ WF_vars(RelayStep)
  /\ WF_vars(CloseAllClients)

FairSpec == Spec /\ Fairness

-----------------------------------------------------------------------------
(* An acknowledged event has been handed to the journal, and the station   *)
(* has it or a filter rule kept it from the station (handleClient writes   *)
(* ackByte only after a positive reply or a bypass).                       *)
AckMeansHandled ==
  \A j \in Jobs :
    answer[j] = "ack" /\ kind[j] \in Classes =>
      /\ journal[j] # "none"
      /\ j \in stationGot \/ exempt[j] # "no"

(* The verdict the relay client passes to a handler is the station's       *)
(* verdict on that handler's message, never one meant for an earlier       *)
(* message whose answer came too late.                                     *)
VerdictIsOwn ==
  rpc = "sent" /\ back # <<>> => Head(back).job = cur

(* An event journaled as blocked was never queued, sent or accepted: the   *)
(* flag RelayBlocked tells the operator the truth.                         *)
BlockedNeverSent ==
  \A j \in Jobs :
    journal[j] = "blocked" =>
      j \notin ValuesOf(queue) \cup ValuesOf(forwarded) \cup stationGot

(* The relay client never blocks on a reply channel: a message in its      *)
(* hands has not been answered before, whatever timed out meanwhile.       *)
RelayNeverBlocks ==
  rpc \in {"took", "sent"} => reply[cur] = "empty"

(* Messages of one panel are written upstream in the order the panel sent  *)
(* them and none is written twice, through refusals and reconnects.        *)
ForwardedOnceInOrder ==
  \A m, n \in DOMAIN forwarded :
    m < n /\ forwarded[m][1] = forwarded[n][1] =>
      forwarded[m][2] < forwarded[n][2]

(* The accepted counter lies between what the panels were told and what    *)
(* the station has.                                                        *)
AcceptedCountHonest ==
  /\ Cardinality({j \in Jobs : answer[j] = "ack" /\ kind[j] \in Classes
                               /\ exempt[j] = "no"}) <= stats.accepted
  /\ stats.accepted <= Cardinality(stationGot)

(* Once closeAllClients has run after the cancellation, no handler sits in *)
(* Read on an open socket: trackConn precedes the check of ctx.Done, and   *)
(* the cancellation precedes the sweep of the tracked connections.         *)
NoReaderLeft ==
  swept => \A c \in Conns : pc[c] = "reading" => ~open[c]

(* Every frame a handler has read is answered in the end, or its           *)
(* connection is closed: a full queue, a silent station or one that cannot *)
(* be reached at all delays a panel and never starves it.                  *)
EveryFrameAnswered ==
  \A j \in Jobs :
    got[j[1]] >= j[2] /\ pc[j[1]] # "closed" ~>
      next[j[1]] > j[2] \/ pc[j[1]] = "closed"

(* A queued message is taken in the end, unless the run is cancelled or    *)
(* the station stays out of reach: no failure of the upstream connection,  *)
(* and no silence on it, stops the relay client for good.                  *)
QueueDrains ==
  []<>(link = "up") =>
    \A j \in Jobs : InQueue(j) ~> ~InQueue(j) \/ cancelled

(* A cancelled run winds down: the relay client and every handler end.     *)
ShutdownCompletes ==
  cancelled ~> /\ rpc = "stopped"
               /\ \A c \in Conns : pc[c] \in {"new", "closed"}

(* The contract sees event messages only: control frames are answered      *)
(* without it.                                                             *)
EventAnswer ==
  [j \in Jobs |-> IF kind[j] \in Classes THEN answer[j] ELSE "none"]

Contract == INSTANCE DeliveryContract
              WITH delivered <- stationGot, answer <- EventAnswer

(* The delivery path implements the contract with the panel.               *)
ImplementsContract == Contract!Spec
=============================================================================
