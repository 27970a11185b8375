---------------------------- MODULE RelayProofs ----------------------------
(***************************************************************************)
(* Proofs about Relay, for every set of panels and classes, every number   *)
(* of frames and every capacity of the queue.                              *)
(***************************************************************************)
EXTENDS Relay, TLAPS

(* The frame a busy handler is at is a job.                                *)
LEMMA JobIsJob ==
  ASSUME TypeOK, NEW c \in Conns, next[c] <= got[c]
  PROVE  Job(c) \in Jobs
<1>1. next[c] \in 1 .. MaxFrames + 1 /\ got[c] \in 0 .. MaxFrames
  BY DEF TypeOK, HandlerTypes
<1>2. next[c] \in 1 .. MaxFrames
  BY <1>1, BoundsAssumption
<1>3. QED
  BY <1>2 DEF Job, Jobs

LEMMA PanelSendTypeOK ==
  ASSUME TypeOK, NEW c \in Conns, NEW k \in Kinds, PanelSend(c, k)
  PROVE  TypeOK'
<1>1. PanelTypes'
  <2>1. sent[c] + 1 \in 1 .. MaxFrames
    BY BoundsAssumption DEF TypeOK, PanelTypes, PanelSend
  <2>2. <<c, sent[c] + 1>> \in Jobs
    BY <2>1 DEF Jobs
  <2>3. sent' \in [Conns -> 0 .. MaxFrames]
    BY <2>1, BoundsAssumption DEF TypeOK, PanelTypes, PanelSend
  <2>4. kind' \in [Jobs -> Kinds \cup {"unsent"}]
    BY <2>2 DEF TypeOK, PanelTypes, PanelSend
  <2>5. QED
    BY <2>3, <2>4 DEF PanelTypes
<1>2. QED
  BY <1>1 DEF TypeOK, PanelSend, HandlerTypes, JobTypes, RelayTypes,
     LinkTypes, RuleTypes, StatTypes, StopTypes, AtFrame, handlerVars,
     jobVars, relayVars, linkVars, ruleVars, stopVars

(* A handler's step leaves the panel, the relay client, the connection     *)
(* upstream, the rule and the run alone.                                   *)
LEMMA HandlerFrame ==
  ASSUME NEW c, HandlerStep(c)
  PROVE  UNCHANGED <<panelVars, relayVars, linkVars, ruleVars, stopVars>>
BY DEF HandlerStep, TrackConn, LoopTop, Read, ReadFail, ScanDone,
   ScanControl, ScanOverlong, ScanBlocked, ScanQueued, WaitReply,
   WaitTimeout, WaitCancelled, GiveUp, Callbacks, SendAnswer

LEMMA RespondTypes ==
  ASSUME TypeOK, NEW c \in Conns, next[c] <= got[c],
         NEW byte \in {"ack", "nack"}, Respond(c, byte), got' = got
  PROVE  HandlerTypes' /\ AtFrame'
<1>1. Job(c) \in Jobs
  BY JobIsJob
<1>2. next[c] + 1 \in 1 .. MaxFrames + 1
  BY BoundsAssumption DEF TypeOK, HandlerTypes
<1>3. answer' \in [Jobs -> {"none", "ack", "nack"}]
  BY <1>1 DEF TypeOK, HandlerTypes, Respond
<1>4. next' \in [Conns -> 1 .. MaxFrames + 1]
  BY <1>2 DEF TypeOK, HandlerTypes, Respond
<1>5. QED
  BY <1>3, <1>4 DEF TypeOK, HandlerTypes, AtFrame, Respond, Leave, Goto

LEMMA HandlerTypeOK ==
  ASSUME TypeOK, NEW c \in Conns, HandlerStep(c)
  PROVE  TypeOK'
<1>1. PanelTypes' /\ RelayTypes' /\ LinkTypes' /\ RuleTypes' /\ StopTypes'
  BY HandlerFrame DEF TypeOK, PanelTypes, RelayTypes, LinkTypes, RuleTypes,
     StopTypes, panelVars, relayVars, linkVars, ruleVars, stopVars
<1>2. HandlerTypes' /\ AtFrame'
  <2> USE DEF TypeOK, HandlerTypes, AtFrame, Goto, Leave
  <2>1. CASE TrackConn(c)
    BY <2>1 DEF TrackConn
  <2>2. CASE LoopTop(c)
    BY <2>2 DEF LoopTop
  <2>3. CASE Read(c)
    <3>1. PICK n \in Arrived(c) : got' = [got EXCEPT ![c] = n]
      BY <2>3 DEF Read
    <3>2. n \in 0 .. MaxFrames
      BY <3>1, BoundsAssumption DEF Arrived, PanelTypes
    <3>3. QED
      BY <2>3, <3>1, <3>2 DEF Read
  <2>4. CASE ReadFail(c)
    BY <2>4 DEF ReadFail
  <2>5. CASE ScanDone(c)
    BY <2>5 DEF ScanDone
  <2>6. CASE ScanControl(c)
    <3>1. next[c] <= got[c] /\ got' = got
      BY <2>6 DEF ScanControl, Scanning
    <3>2. \E byte \in {"ack", "nack"} : Respond(c, byte)
      BY <2>6 DEF ScanControl
    <3>3. QED
      BY <3>1, <3>2, RespondTypes
  <2>7. CASE ScanOverlong(c)
    BY <2>7 DEF ScanOverlong
  <2>8. CASE ScanBlocked(c) \/ ScanQueued(c)
    BY <2>8 DEF ScanBlocked, ScanQueued, Scanning
  <2>9. CASE WaitReply(c)
    BY <2>9 DEF WaitReply
  <2>10. CASE WaitTimeout(c) \/ WaitCancelled(c)
    BY <2>10 DEF WaitTimeout, WaitCancelled, GiveUp
  <2>11. CASE Callbacks(c)
    BY <2>11 DEF Callbacks
  <2>12. CASE SendAnswer(c)
    <3>1. next[c] <= got[c] /\ got' = got
      BY <2>12 DEF SendAnswer
    <3>2. \E byte \in {"ack", "nack"} : Respond(c, byte)
      BY <2>12 DEF SendAnswer
    <3>3. QED
      BY <3>1, <3>2, RespondTypes
  <2>13. QED
    BY <2>1, <2>2, <2>3, <2>4, <2>5, <2>6, <2>7, <2>8, <2>9, <2>10, <2>11,
       <2>12 DEF HandlerStep
<1>3. JobTypes' /\ queue' \in Seq(Jobs)
  <2>1. CASE UNCHANGED <<jobVars, queue>>
    BY <2>1 DEF TypeOK, JobTypes, jobVars
  <2>2. CASE ScanBlocked(c)
    <3>1. Job(c) \in Jobs
      BY <2>2, JobIsJob DEF ScanBlocked, Scanning
    <3>2. QED
      BY <2>2, <3>1 DEF ScanBlocked, TypeOK, JobTypes
  <2>3. CASE ScanQueued(c)
    <3>1. Job(c) \in Jobs
      BY <2>3, JobIsJob DEF ScanQueued, Scanning
    <3>2. QED
      BY <2>3, <3>1 DEF ScanQueued, TypeOK, JobTypes, jobVars
  <2>4. CASE WaitReply(c) \/ Callbacks(c)
    <3>1. Job(c) \in Jobs
      BY <2>4, JobIsJob DEF WaitReply, Callbacks, TypeOK, AtFrame
    <3>2. QED
      BY <2>4, <3>1 DEF WaitReply, Callbacks, TypeOK, JobTypes
  <2>5. QED
    BY <2>1, <2>2, <2>3, <2>4 DEF HandlerStep, TrackConn, LoopTop, Read,
       ReadFail, ScanDone, ScanControl, ScanOverlong, WaitTimeout,
       WaitCancelled, GiveUp, SendAnswer
<1>4. StatTypes'
  BY DEF TypeOK, StatTypes, HandlerStep, TrackConn, LoopTop, Read,
     ReadFail, ScanDone, ScanControl, ScanOverlong, ScanBlocked, ScanQueued,
     WaitReply, WaitTimeout, WaitCancelled, GiveUp, Callbacks, SendAnswer
<1>5. QED
  BY <1>1, <1>2, <1>3, <1>4 DEF TypeOK

LEMMA AcceptTypeOK ==
  ASSUME TypeOK, NEW c \in Conns, Accept(c)
  PROVE  TypeOK'
<1>1. HandlerTypes' /\ AtFrame'
  BY DEF Accept, Goto, TypeOK, HandlerTypes, AtFrame
<1>2. QED
  BY <1>1 DEF Accept, TypeOK, PanelTypes, JobTypes, RelayTypes, LinkTypes,
     RuleTypes, StatTypes, StopTypes, panelVars, jobVars, relayVars,
     linkVars, ruleVars, stopVars

(* A step of the relay client leaves the panels, the handlers, the rule    *)
(* and the run alone.                                                      *)
LEMMA RelayFrame ==
  ASSUME RelayStep
  PROVE  UNCHANGED <<panelVars, handlerVars, ruleVars, stopVars, journal>>
BY DEF RelayStep, RelayTop, RelayDial, RelayDialFail, RelayBackoff,
   RelayIdleCancelled, RelayTake, RelayBypass, RelayWrite, RelayWriteFail,
   RelayRead, RelayReadFail, jobVars

LEMMA DropLinkTypes ==
  ASSUME LinkTypes, NEW to \in {"down", "broken"},
         NEW carried \in SUBSET Jobs, DropLink(to, carried)
  PROVE  LinkTypes'
BY DEF DropLink, LinkTypes

LEMMA WireIsJobs ==
  ASSUME TypeOK
  PROVE  ValuesOf(wire) \in SUBSET Jobs
BY DEF TypeOK, LinkTypes, ValuesOf

LEMMA RelayTypeOK ==
  ASSUME TypeOK, RelayStep
  PROVE  TypeOK'
<1>1. PanelTypes' /\ HandlerTypes' /\ RuleTypes' /\ StopTypes' /\ AtFrame'
  BY RelayFrame DEF TypeOK, PanelTypes, HandlerTypes, RuleTypes, StopTypes,
     AtFrame, panelVars, handlerVars, ruleVars, stopVars
<1>2. CASE RelayTop \/ RelayDialFail \/ RelayBackoff
  BY <1>1, <1>2 DEF RelayTop, RelayDialFail, RelayBackoff, TypeOK, JobTypes,
     RelayTypes, LinkTypes, StatTypes, jobVars, linkVars
<1>3. CASE RelayDial
  BY <1>1, <1>3 DEF RelayDial, TypeOK, JobTypes, RelayTypes, LinkTypes,
     StatTypes, jobVars
<1>4. CASE RelayIdleCancelled
  <2>1. LinkTypes'
    BY <1>4, WireIsJobs, DropLinkTypes DEF RelayIdleCancelled, TypeOK
  <2>2. QED
    BY <1>1, <1>4, <2>1 DEF RelayIdleCancelled, TypeOK, JobTypes, RelayTypes,
       StatTypes, jobVars
<1>5. CASE RelayTake
  <2>1. Head(queue) \in Jobs /\ Tail(queue) \in Seq(Jobs)
    BY <1>5 DEF RelayTake, TypeOK
  <2>2. QED
    BY <1>1, <1>5, <2>1 DEF RelayTake, TypeOK, JobTypes, RelayTypes,
       LinkTypes, StatTypes, jobVars, linkVars
<1>6. CASE RelayBypass
  <2>1. JobTypes' /\ RelayTypes' /\ UNCHANGED <<queue, linkVars, stats>>
    BY <1>6 DEF RelayBypass, SendReply, TypeOK, JobTypes, RelayTypes
  <2>2. QED
    BY <1>1, <2>1 DEF TypeOK, LinkTypes, StatTypes, linkVars
<1>7. CASE RelayWrite
  <2>1. cur \in Jobs
    BY <1>7 DEF RelayWrite, TypeOK, RelayTypes
  <2>2. forwarded' \in Seq(Jobs) /\ wire' \in Seq(Jobs)
    BY <1>7, <2>1 DEF RelayWrite, TypeOK, RelayTypes, LinkTypes
  <2>3. QED
    BY <1>1, <1>7, <2>1, <2>2 DEF RelayWrite, TypeOK, JobTypes, RelayTypes,
       LinkTypes, StatTypes, jobVars
<1>8. CASE RelayWriteFail
  <2>1. cur \in Jobs
    BY <1>8 DEF RelayWriteFail, TypeOK, RelayTypes
  <2>2. ValuesOf(wire) \cup {cur} \in SUBSET Jobs
    BY <2>1, WireIsJobs
  <2>3. LinkTypes'
    BY <1>8, <2>2, DropLinkTypes DEF RelayWriteFail, TypeOK
  <2>4. JobTypes' /\ RelayTypes' /\ UNCHANGED <<queue, stats>>
    BY <1>8, <2>1 DEF RelayWriteFail, SendReply, TypeOK, JobTypes, RelayTypes
  <2>5. QED
    BY <1>1, <2>3, <2>4 DEF TypeOK, StatTypes
<1>9. CASE RelayRead
  <2>1. cur \in Jobs
    BY <1>9 DEF RelayRead, TypeOK, RelayTypes
  <2>2. Tail(back) \in Seq(Verdicts)
    BY <1>9 DEF RelayRead, TypeOK, LinkTypes
  <2>3. JobTypes' /\ RelayTypes' /\ queue' = queue
    BY <1>9, <2>1 DEF RelayRead, SendReply, TypeOK, JobTypes, RelayTypes
  <2>4. StatTypes'
    BY <1>9 DEF RelayRead, TypeOK, StatTypes
  <2>5. LinkTypes'
    BY <1>9, <2>2 DEF RelayRead, TypeOK, LinkTypes
  <2>6. QED
    BY <1>1, <2>3, <2>4, <2>5 DEF TypeOK
<1>10. CASE RelayReadFail
  <2>1. cur \in Jobs
    BY <1>10 DEF RelayReadFail, TypeOK, RelayTypes
  <2>2. LinkTypes'
    BY <1>10, WireIsJobs, DropLinkTypes DEF RelayReadFail, TypeOK
  <2>3. JobTypes' /\ RelayTypes' /\ UNCHANGED <<queue, stats>>
    BY <1>10, <2>1 DEF RelayReadFail, SendReply, TypeOK, JobTypes, RelayTypes
  <2>4. QED
    BY <1>1, <2>2, <2>3 DEF TypeOK, StatTypes
<1>11. QED
  BY <1>2, <1>3, <1>4, <1>5, <1>6, <1>7, <1>8, <1>9, <1>10 DEF RelayStep

(* The station, the network and the runtime.                               *)
Surroundings ==
  \/ StationTake \/ LinkBreak \/ Cancel \/ CloseAllClients \/ RelayStop
  \/ \E f \in SUBSET Classes : SaveRule(f)
  \/ SaveRuleDone

LEMMA SurroundingsTypeOK ==
  ASSUME TypeOK, Surroundings
  PROVE  TypeOK'
<1> USE DEF TypeOK, panelVars, handlerVars, jobVars, relayVars, linkVars,
      ruleVars, stopVars
<1>1. CASE StationTake
  <2>1. Head(wire) \in Jobs /\ Tail(wire) \in Seq(Jobs)
    BY <1>1 DEF StationTake, LinkTypes
  <2>2. \A b \in BOOLEAN : [job |-> Head(wire), ok |-> b] \in Verdicts
    BY <2>1 DEF Verdicts
  <2>3. back' \in Seq(Verdicts)
    <3>1. back \in Seq(Verdicts)
      BY DEF LinkTypes
    <3>2. \A v \in Verdicts : Append(back, v) \in Seq(Verdicts)
      BY <3>1
    <3>3. \/ back' = back
          \/ \E b \in BOOLEAN :
               back' = Append(back, [job |-> Head(wire), ok |-> b])
      BY <1>1 DEF StationTake
    <3>4. QED
      BY <2>2, <3>1, <3>2, <3>3
  <2>4. wire' \in Seq(Jobs) /\ stationGot' \in SUBSET Jobs /\ link' = link
    BY <1>1, <2>1 DEF StationTake, LinkTypes
  <2>5. LinkTypes'
    BY <2>3, <2>4 DEF LinkTypes
  <2>6. QED
    BY <1>1, <2>5 DEF StationTake, PanelTypes, HandlerTypes, JobTypes,
       RelayTypes, RuleTypes, StatTypes, StopTypes, AtFrame
<1>2. CASE LinkBreak \/ RelayStop
  <2>1. LinkTypes'
    BY <1>2, WireIsJobs, DropLinkTypes DEF LinkBreak, RelayStop
  <2>2. QED
    BY <1>2, <2>1 DEF LinkBreak, RelayStop, PanelTypes, HandlerTypes,
       JobTypes, RelayTypes, RuleTypes, StatTypes, StopTypes, AtFrame
<1>3. CASE Cancel
  BY <1>3 DEF Cancel, PanelTypes, HandlerTypes, JobTypes, RelayTypes,
     LinkTypes, RuleTypes, StatTypes, StopTypes, AtFrame
<1>4. CASE CloseAllClients
  BY <1>4 DEF CloseAllClients, PanelTypes, HandlerTypes, JobTypes,
     RelayTypes, LinkTypes, RuleTypes, StatTypes, StopTypes, AtFrame
<1>5. CASE \E f \in SUBSET Classes : SaveRule(f)
  <2>1. RuleTypes'
    BY <1>5, BoundsAssumption DEF SaveRule, RuleTypes
  <2>2. QED
    BY <1>5, <2>1 DEF SaveRule, PanelTypes, HandlerTypes, JobTypes,
       RelayTypes, LinkTypes, StatTypes, StopTypes, AtFrame
<1>6. CASE SaveRuleDone
  BY <1>6 DEF SaveRuleDone, PanelTypes, HandlerTypes, JobTypes, RelayTypes,
     LinkTypes, RuleTypes, StatTypes, StopTypes, AtFrame
<1>7. QED
  BY <1>1, <1>2, <1>3, <1>4, <1>5, <1>6 DEF Surroundings

LEMMA NextParts ==
  ASSUME Next
  PROVE  \/ \E c \in Conns, k \in Kinds : PanelSend(c, k)
         \/ \E c \in Conns : Accept(c)
         \/ \E c \in Conns : HandlerStep(c)
         \/ RelayStep
         \/ Surroundings
BY DEF Next, Surroundings

LEMMA TypesInit ==
  ASSUME Init
  PROVE  TypeOK
<1>1. PanelTypes /\ HandlerTypes /\ AtFrame
  BY BoundsAssumption DEF Init, PanelTypes, HandlerTypes, AtFrame
<1>2. JobTypes /\ StatTypes /\ StopTypes
  BY DEF Init, JobTypes, StatTypes, StopTypes
<1>3. RuleTypes
  <2>1. serverFilter \in SUBSET Classes /\ relayFilter = serverFilter
    BY DEF Init
  <2>2. ruleChanges = 0 /\ saving = FALSE
    BY DEF Init
  <2>3. 0 \in 0 .. MaxRuleChanges
    BY BoundsAssumption
  <2>4. QED
    BY <2>1, <2>2, <2>3 DEF RuleTypes
<1>4. RelayTypes /\ queue \in Seq(Jobs)
  BY DEF Init, RelayTypes
<1>5. LinkTypes
  BY DEF Init, LinkTypes
<1>6. QED
  BY <1>1, <1>2, <1>3, <1>4, <1>5 DEF TypeOK

LEMMA TypesNext ==
  ASSUME TypeOK, [Next]_vars
  PROVE  TypeOK'
<1>1. CASE Next
  BY <1>1, NextParts, PanelSendTypeOK, AcceptTypeOK, HandlerTypeOK,
     RelayTypeOK, SurroundingsTypeOK
<1>2. CASE UNCHANGED vars
  BY <1>2 DEF vars, panelVars, handlerVars, jobVars, relayVars, linkVars,
     ruleVars, stopVars, TypeOK, PanelTypes, HandlerTypes, JobTypes,
     RelayTypes, LinkTypes, RuleTypes, StatTypes, StopTypes, AtFrame
<1>3. QED
  BY <1>1, <1>2

(* Every variable keeps its type, and a handler busy with a frame has read *)
(* that frame (handleClient never runs past its buffer).                   *)
THEOREM TypesCorrect == Spec => []TypeOK
<1>1. TypeOK /\ [Next]_vars => TypeOK'
  BY TypesNext
<1>2. QED
  BY <1>1, TypesInit, PTL DEF Spec

-----------------------------------------------------------------------------
(* Acknowledged means handled.  A positive reply carries that the message  *)
(* is handled from the station to the handler; on its way it is a verdict  *)
(* on the connection, a value in a reply channel and a handler's state.    *)
Handled(j) == j \in stationGot \/ exempt[j] # "no"

(* What is on the upstream connection is the message in hand, or nothing.  *)
UpstreamInv ==
  \/ wire = <<>> /\ back = <<>>
  \/ rpc = "sent" /\ wire = <<cur>> /\ back = <<>>
  \/ /\ rpc = "sent" /\ wire = <<>>
     /\ \E ok \in BOOLEAN : /\ back = <<[job |-> cur, ok |-> ok]>>
                            /\ ok => cur \in stationGot

(* Frames are sent, read and answered in this order.                       *)
FrameInv ==
  /\ \A c \in Conns : got[c] <= sent[c] /\ next[c] <= got[c] + 1
  /\ \A j \in Jobs : answer[j] # "none" => j[2] < next[j[1]]

ReplyInv == \A j \in Jobs : reply[j] = "ok" => Handled(j)

HandlerInv ==
  \A c \in Conns :
    /\ pc[c] = "deliver" => Handled(Job(c))
    /\ pc[c] = "ack" => Handled(Job(c)) /\ journal[Job(c)] # "none"

DeliveryInv ==
  /\ TypeOK
  /\ UpstreamInv
  /\ FrameInv
  /\ ReplyInv
  /\ HandlerInv
  /\ AckMeansHandled

(* Nothing undoes that a message is handled or journaled.                  *)
LEMMA HandledStays ==
  ASSUME TypeOK, Next, NEW j \in Jobs
  PROVE  /\ Handled(j) => Handled(j)'
         /\ journal[j] # "none" => journal'[j] # "none"
<1> USE DEF Handled
<1>1. CASE UNCHANGED <<stationGot, exempt, journal>>
  BY <1>1
<1>2. CASE \E c \in Conns : HandlerStep(c)
  <2>1. PICK c \in Conns : HandlerStep(c)
    BY <1>2
  <2>2. stationGot' = stationGot
    BY <2>1, HandlerFrame DEF linkVars
  <2>3. CASE UNCHANGED <<exempt, journal>>
    BY <2>2, <2>3
  <2>4. CASE ScanBlocked(c) \/ Callbacks(c)
    BY <2>2, <2>4 DEF ScanBlocked, Callbacks, TypeOK, JobTypes
  <2>5. QED
    BY <2>1, <2>3, <2>4 DEF HandlerStep, TrackConn, LoopTop, Read, ReadFail,
       ScanDone, ScanControl, ScanOverlong, ScanQueued, WaitReply,
       WaitTimeout, WaitCancelled, GiveUp, SendAnswer, jobVars
<1>3. CASE RelayStep
  <2>1. journal' = journal
    BY <1>3, RelayFrame
  <2>2. \/ exempt' = exempt
        \/ exempt' = [exempt EXCEPT ![cur] = "relay"]
    BY <1>3 DEF RelayStep, RelayTop, RelayDial, RelayDialFail, RelayBackoff,
       RelayIdleCancelled, RelayTake, RelayBypass, RelayWrite,
       RelayWriteFail, RelayRead, RelayReadFail, jobVars
  <2>3. stationGot \subseteq stationGot'
    BY <1>3 DEF RelayStep, RelayTop, RelayDial, RelayDialFail, RelayBackoff,
       RelayIdleCancelled, RelayTake, RelayBypass, RelayWrite,
       RelayWriteFail, RelayRead, RelayReadFail, DropLink, linkVars
  <2>4. QED
    BY <2>1, <2>2, <2>3 DEF TypeOK, JobTypes
<1>4. CASE Surroundings
  BY <1>4 DEF Surroundings, StationTake, LinkBreak, Cancel, CloseAllClients,
     RelayStop, SaveRule, SaveRuleDone, DropLink, jobVars, linkVars
<1>5. CASE \/ \E c \in Conns, k \in Kinds : PanelSend(c, k)
           \/ \E c \in Conns : Accept(c)
  BY <1>5 DEF PanelSend, Accept, jobVars, linkVars
<1>6. QED
  BY <1>2, <1>3, <1>4, <1>5, NextParts

(* The connection upstream only ever carries the message in hand.          *)
LEMMA UpstreamStep ==
  ASSUME TypeOK, UpstreamInv, Next
  PROVE  UpstreamInv'
<1>1. CASE UNCHANGED <<wire, back, rpc, cur, stationGot>>
  BY <1>1 DEF UpstreamInv
<1>2. CASE wire' = <<>> /\ back' = <<>>
  BY <1>2 DEF UpstreamInv
<1>3. CASE rpc # "sent" /\ UNCHANGED <<wire, back>>
  BY <1>3 DEF UpstreamInv
<1>4. CASE RelayWrite
  <2>1. wire = <<>> /\ back = <<>> /\ back' = <<>> /\ cur' = cur
    BY <1>4 DEF RelayWrite, UpstreamInv
  <2>2. rpc' = "sent" /\ (wire' = <<>> \/ wire' = <<cur>>)
    BY <1>4, <2>1 DEF RelayWrite
  <2>3. QED
    BY <2>1, <2>2 DEF UpstreamInv
<1>5. CASE RelayRead
  <2>1. wire = <<>> /\ Len(back) = 1
    BY <1>5 DEF RelayRead, UpstreamInv
  <2>2. back' = <<>> /\ wire' = <<>>
    BY <1>5, <2>1 DEF RelayRead, TypeOK, LinkTypes
  <2>3. QED
    BY <2>2 DEF UpstreamInv
<1>6. CASE StationTake
  <2>1. rpc = "sent" /\ wire = <<cur>> /\ back = <<>>
    BY <1>6 DEF StationTake, UpstreamInv
  <2>2. rpc' = "sent" /\ cur' = cur /\ wire' = <<>>
    BY <1>6, <2>1 DEF StationTake, relayVars
  <2>3. \/ back' = <<>>
        \/ back' = <<[job |-> cur, ok |-> TRUE]>> /\ cur \in stationGot'
        \/ back' = <<[job |-> cur, ok |-> FALSE]>>
    BY <1>6, <2>1 DEF StationTake
  <2>4. QED
    BY <2>2, <2>3 DEF UpstreamInv
<1>7. CASE RelayStep
  BY <1>1, <1>2, <1>3, <1>4, <1>5, <1>7 DEF RelayStep, RelayTop, RelayDial,
     RelayDialFail, RelayBackoff, RelayIdleCancelled, RelayTake,
     RelayBypass, RelayWriteFail, RelayReadFail, DropLink, linkVars
<1>8. CASE Surroundings
  BY <1>1, <1>2, <1>6, <1>8 DEF Surroundings, LinkBreak, Cancel,
     CloseAllClients, RelayStop, SaveRule, SaveRuleDone, DropLink, relayVars,
     linkVars
<1>9. CASE \E c \in Conns : HandlerStep(c)
  BY <1>1, <1>9, HandlerFrame DEF relayVars, linkVars
<1>10. CASE \/ \E c \in Conns, k \in Kinds : PanelSend(c, k)
            \/ \E c \in Conns : Accept(c)
  BY <1>1, <1>10 DEF PanelSend, Accept, relayVars, linkVars
<1>11. QED
  BY <1>7, <1>8, <1>9, <1>10, NextParts

(* A handler is at one frame at a time; the frames of two handlers differ. *)
LEMMA JobParts ==
  ASSUME NEW c \in Conns
  PROVE  Job(c)[1] = c /\ Job(c)[2] = next[c]
BY DEF Job

(* What a handler writes is its answer to the frame it is at.              *)
LEMMA AnswerStep ==
  ASSUME TypeOK, NEW c \in Conns, HandlerStep(c)
  PROVE  \/ UNCHANGED <<answer, next>>
         \/ /\ \E byte \in {"ack", "nack"} :
                 answer' = [answer EXCEPT ![Job(c)] = byte]
            /\ next' = [next EXCEPT ![c] = @ + 1]
            /\ next[c] <= got[c] /\ got' = got
BY DEF HandlerStep, TrackConn, LoopTop, Read, ReadFail, ScanDone,
   ScanControl, Scanning, ScanOverlong, ScanBlocked, ScanQueued, WaitReply,
   WaitTimeout, WaitCancelled, GiveUp, Callbacks, SendAnswer, Respond, TypeOK,
   AtFrame

LEMMA FrameStep ==
  ASSUME TypeOK, FrameInv, Next
  PROVE  FrameInv'
<1> USE DEF FrameInv
<1>1. CASE UNCHANGED <<got, sent, next, answer>>
  BY <1>1
<1>2. CASE \E c \in Conns, k \in Kinds : PanelSend(c, k)
  BY <1>2 DEF PanelSend, handlerVars, TypeOK, PanelTypes, HandlerTypes
<1>3. CASE \E c \in Conns : HandlerStep(c)
  <2>1. PICK c \in Conns : HandlerStep(c)
    BY <1>3
  <2>2. sent' = sent
    BY <2>1, HandlerFrame DEF panelVars
  <2>3. CASE UNCHANGED <<answer, next>>
    <3>1. CASE got' = got
      BY <2>2, <2>3, <3>1
    <3>2. CASE Read(c)
      <4>1. PICK n \in Arrived(c) : got' = [got EXCEPT ![c] = n]
        BY <3>2 DEF Read
      <4>2. got[c] < n /\ n <= sent[c] /\ n \in Nat
        BY <4>1 DEF Arrived, TypeOK, HandlerTypes, PanelTypes
      <4>3. QED
        BY <2>2, <2>3, <4>1, <4>2 DEF TypeOK, HandlerTypes
    <3>3. QED
      BY <2>1, <3>1, <3>2 DEF HandlerStep, TrackConn, LoopTop, ReadFail,
         ScanDone, ScanControl, ScanOverlong, ScanBlocked, ScanQueued,
         WaitReply, WaitTimeout, WaitCancelled, GiveUp, Callbacks, SendAnswer
  <2>4. CASE /\ \E byte \in {"ack", "nack"} :
                  answer' = [answer EXCEPT ![Job(c)] = byte]
             /\ next' = [next EXCEPT ![c] = @ + 1]
             /\ next[c] <= got[c] /\ got' = got
    <3>1. next'[c] = next[c] + 1 /\ next[c] \in Nat /\ got[c] \in Nat
      BY <2>4 DEF TypeOK, HandlerTypes
    <3>2. \A d \in Conns : next[d] <= next'[d] /\ next[d] \in Nat
                           /\ next'[d] \in Nat
      BY <2>4, <3>1 DEF TypeOK, HandlerTypes
    <3>3. ASSUME NEW j \in Jobs, answer'[j] # "none"
          PROVE  j[2] < next'[j[1]]
      <4>1. j[1] \in Conns /\ j[2] \in Nat
        BY DEF Jobs
      <4>2. CASE j = Job(c)
        BY <3>1, <4>2, JobParts
      <4>3. CASE j # Job(c)
        <5>1. answer'[j] = answer[j]
          BY <2>4, <4>3 DEF TypeOK, HandlerTypes
        <5>2. j[2] < next[j[1]]
          BY <3>3, <5>1
        <5>3. QED
          BY <3>2, <4>1, <5>2
      <4>4. QED
        BY <4>2, <4>3
    <3>4. ASSUME NEW d \in Conns
          PROVE  got'[d] <= sent'[d] /\ next'[d] <= got'[d] + 1
      BY <2>2, <2>4, <3>1 DEF TypeOK, HandlerTypes
    <3>5. QED
      BY <3>3, <3>4
  <2>5. QED
    BY <2>1, <2>3, <2>4, AnswerStep
<1>4. CASE (\E c \in Conns : Accept(c)) \/ RelayStep \/ Surroundings
  BY <1>1, <1>4, RelayFrame DEF Accept, Surroundings, StationTake, LinkBreak,
     Cancel, CloseAllClients, RelayStop, SaveRule, SaveRuleDone, panelVars,
     handlerVars
<1>5. QED
  BY <1>2, <1>3, <1>4, NextParts

(* A positive reply is put into a channel for a handled message only.      *)
LEMMA ReplyStep ==
  ASSUME TypeOK, UpstreamInv, ReplyInv, Next
  PROVE  ReplyInv'
<1>1. SUFFICES ASSUME NEW j \in Jobs, reply'[j] = "ok", reply[j] # "ok"
               PROVE  Handled(j)'
  BY HandledStays DEF ReplyInv
<1>2. CASE RelayStep
  <2>1. CASE RelayBypass
    <3>1. j = cur
      BY <1>1, <2>1 DEF RelayBypass, SendReply, TypeOK, JobTypes
    <3>2. exempt'[cur] = "relay"
      BY <2>1, <3>1 DEF RelayBypass, TypeOK, JobTypes
    <3>3. QED
      BY <3>1, <3>2 DEF Handled
  <2>2. CASE RelayRead
    <3>1. j = cur /\ Head(back).ok
      BY <1>1, <2>2 DEF RelayRead, SendReply, TypeOK, JobTypes
    <3>2. PICK ok \in BOOLEAN : /\ back = <<[job |-> cur, ok |-> ok]>>
                                /\ ok => cur \in stationGot
      BY <2>2 DEF RelayRead, UpstreamInv
    <3>3. cur \in stationGot
      BY <3>1, <3>2
    <3>4. QED
      BY <2>2, <3>1, <3>3 DEF RelayRead, Handled
  <2>3. CASE RelayWriteFail \/ RelayReadFail
    BY <1>1, <2>3 DEF RelayWriteFail, RelayReadFail, SendReply, TypeOK,
       JobTypes
  <2>4. QED
    BY <1>1, <1>2, <2>1, <2>2, <2>3 DEF RelayStep, RelayTop, RelayDial,
       RelayDialFail, RelayBackoff, RelayIdleCancelled, RelayTake,
       RelayWrite, jobVars
<1>3. CASE \E c \in Conns : HandlerStep(c)
  BY <1>1, <1>3 DEF HandlerStep, TrackConn, LoopTop, Read, ReadFail,
     ScanDone, ScanControl, ScanOverlong, ScanBlocked, ScanQueued, WaitReply,
     WaitTimeout, WaitCancelled, GiveUp, Callbacks, SendAnswer, TypeOK,
     JobTypes, jobVars
<1>4. CASE \/ \E c \in Conns, k \in Kinds : PanelSend(c, k)
           \/ \E c \in Conns : Accept(c)
           \/ Surroundings
  BY <1>1, <1>4 DEF PanelSend, Accept, Surroundings, StationTake, LinkBreak,
     Cancel, CloseAllClients, RelayStop, SaveRule, SaveRuleDone, jobVars
<1>5. QED
  BY <1>2, <1>3, <1>4, NextParts

LEMMA HandlerStepOthers ==
  ASSUME TypeOK, NEW c \in Conns, HandlerStep(c), NEW d \in Conns, d # c
  PROVE  pc'[d] = pc[d] /\ next'[d] = next[d]
BY DEF HandlerStep, TrackConn, LoopTop, Read, ReadFail, ScanDone,
   ScanControl, ScanOverlong, ScanBlocked, ScanQueued, WaitReply,
   WaitTimeout, WaitCancelled, GiveUp, Callbacks, SendAnswer, Respond, Leave,
   Goto, TypeOK, HandlerTypes

LEMMA HandlerInvStep ==
  ASSUME TypeOK, ReplyInv, HandlerInv, Next
  PROVE  HandlerInv'
<1>1. SUFFICES ASSUME NEW d \in Conns, pc'[d] \in {"deliver", "ack"}
               PROVE  /\ Handled(Job(d))'
                      /\ pc'[d] = "ack" => journal'[Job(d)'] # "none"
  BY DEF HandlerInv
<1>2. CASE pc'[d] = pc[d] /\ next'[d] = next[d]
  <2>1. Job(d)' = Job(d)
    BY <1>2 DEF Job
  <2>2. Job(d) \in Jobs
    BY <1>1, <1>2, JobIsJob DEF TypeOK, AtFrame, HandlerInv
  <2>3. Handled(Job(d)) /\ (pc[d] = "ack" => journal[Job(d)] # "none")
    BY <1>1, <1>2 DEF HandlerInv
  <2>4. Handled(Job(d))'
    BY <2>1, <2>2, <2>3, HandledStays DEF Handled
  <2>5. QED
    BY <1>2, <2>1, <2>2, <2>3, <2>4, HandledStays
<1>3. CASE HandlerStep(d)
  <2>1. CASE next'[d] = next[d]
    <3>1. Job(d)' = Job(d)
      BY <2>1 DEF Job
    <3>2. CASE pc[d] = pc'[d]
      BY <1>2, <2>1, <3>2
    <3>3. CASE ScanBlocked(d)
      <4>1. Job(d) \in Jobs
        BY <3>3, JobIsJob DEF ScanBlocked, Scanning
      <4>2. exempt'[Job(d)] = "server" /\ pc'[d] = "deliver"
        BY <3>3, <4>1 DEF ScanBlocked, Goto, TypeOK, JobTypes, HandlerTypes
      <4>3. QED
        BY <3>1, <4>2 DEF Handled
    <3>4. CASE WaitReply(d)
      <4>1. Job(d) \in Jobs
        BY <3>4, JobIsJob DEF WaitReply, TypeOK, AtFrame
      <4>2. reply[Job(d)] = "ok" /\ pc'[d] = "deliver"
        BY <1>1, <3>4 DEF WaitReply, Goto, TypeOK, HandlerTypes
      <4>3. Handled(Job(d)) /\ stationGot' = stationGot /\ exempt' = exempt
        BY <3>4, <4>1, <4>2 DEF ReplyInv, WaitReply, linkVars
      <4>4. QED
        BY <3>1, <4>2, <4>3 DEF Handled
    <3>5. CASE Callbacks(d)
      <4>1. Job(d) \in Jobs
        BY <3>5, JobIsJob DEF Callbacks, TypeOK, AtFrame
      <4>2. pc[d] = "deliver" /\ stationGot' = stationGot /\ exempt' = exempt
        BY <3>5 DEF Callbacks, linkVars
      <4>3. journal'[Job(d)] # "none"
        BY <3>5, <4>1 DEF Callbacks, TypeOK, JobTypes
      <4>4. QED
        BY <3>1, <4>2, <4>3 DEF HandlerInv, Handled
    <3>6. QED
      BY <1>1, <1>3, <3>2, <3>3, <3>4, <3>5 DEF HandlerStep, TrackConn,
         LoopTop, Read, ReadFail, ScanDone, ScanControl, ScanOverlong,
         ScanQueued, WaitTimeout, WaitCancelled, GiveUp, SendAnswer, Respond,
         Leave, Goto, TypeOK, HandlerTypes
  <2>2. CASE next'[d] # next[d]
    BY <1>1, <1>3, <2>2 DEF HandlerStep, TrackConn, LoopTop, Read, ReadFail,
       ScanDone, ScanControl, ScanOverlong, ScanBlocked, ScanQueued,
       WaitReply, WaitTimeout, WaitCancelled, GiveUp, Callbacks, SendAnswer,
       Respond, Leave, Goto, TypeOK, HandlerTypes
  <2>3. QED
    BY <2>1, <2>2
<1>4. CASE \E c \in Conns : HandlerStep(c)
  BY <1>2, <1>3, <1>4, HandlerStepOthers
<1>5. CASE \E c \in Conns : Accept(c)
  BY <1>1, <1>2, <1>5 DEF Accept, Goto, TypeOK, HandlerTypes
<1>6. CASE \/ \E c \in Conns, k \in Kinds : PanelSend(c, k)
           \/ RelayStep
           \/ Surroundings
  BY <1>2, <1>6, RelayFrame DEF PanelSend, Surroundings, StationTake,
     LinkBreak, Cancel, CloseAllClients, RelayStop, SaveRule, SaveRuleDone,
     handlerVars
<1>7. QED
  BY <1>4, <1>5, <1>6, NextParts

LEMMA AckStep ==
  ASSUME TypeOK, FrameInv, HandlerInv, AckMeansHandled, Next
  PROVE  AckMeansHandled'
<1>1. SUFFICES ASSUME NEW j \in Jobs, answer'[j] = "ack", kind'[j] \in Classes
               PROVE  journal'[j] # "none" /\ Handled(j)'
  BY DEF AckMeansHandled, Handled
<1>2. CASE answer[j] = "ack" /\ kind[j] \in Classes
  BY <1>2, HandledStays DEF AckMeansHandled, Handled
<1>3. CASE \E c \in Conns, k \in Kinds : PanelSend(c, k)
  <2>1. PICK c \in Conns, k \in Kinds : PanelSend(c, k)
    BY <1>3
  <2>2. answer' = answer
    BY <2>1 DEF PanelSend, handlerVars
  <2>3. j[2] < next[j[1]] /\ j[1] \in Conns /\ j[2] \in Nat
    BY <1>1, <2>2 DEF FrameInv, Jobs
  <2>4. j[2] <= sent[j[1]]
    BY <2>3 DEF FrameInv, TypeOK, HandlerTypes, PanelTypes
  <2>5. j # <<c, sent[c] + 1>>
    BY <2>4 DEF TypeOK, PanelTypes
  <2>6. kind'[j] = kind[j]
    BY <2>1, <2>5 DEF PanelSend, TypeOK, PanelTypes
  <2>7. QED
    BY <1>1, <1>2, <2>2, <2>6
<1>4. CASE \E c \in Conns : HandlerStep(c)
  <2>1. PICK c \in Conns : HandlerStep(c)
    BY <1>4
  <2>2. kind' = kind
    BY <2>1, HandlerFrame DEF panelVars
  <2>3. CASE ScanControl(c)
    <3>1. kind[Job(c)] \notin Classes
      BY <2>3, NamesAssumption DEF ScanControl, Scanning, Control
    <3>2. answer'[j] = answer[j]
      BY <1>1, <2>2, <2>3, <3>1 DEF ScanControl, Respond, TypeOK,
         HandlerTypes
    <3>3. QED
      BY <1>1, <1>2, <2>2, <3>2
  <2>4. CASE SendAnswer(c)
    <3>1. CASE answer'[j] = answer[j]
      BY <1>1, <1>2, <2>2, <3>1
    <3>2. CASE answer'[j] # answer[j]
      <4>1. j = Job(c) /\ pc[c] = "ack"
        BY <1>1, <2>4, <3>2 DEF SendAnswer, Respond, TypeOK, HandlerTypes
      <4>2. Handled(Job(c)) /\ journal[Job(c)] # "none"
        BY <4>1 DEF HandlerInv
      <4>3. QED
        BY <4>1, <4>2, HandledStays
    <3>3. QED
      BY <3>1, <3>2
  <2>5. CASE answer' = answer
    BY <1>1, <1>2, <2>2, <2>5
  <2>6. QED
    BY <2>1, <2>3, <2>4, <2>5 DEF HandlerStep, TrackConn, LoopTop, Read,
       ReadFail, ScanDone, ScanOverlong, ScanBlocked, ScanQueued, WaitReply,
       WaitTimeout, WaitCancelled, GiveUp, Callbacks
<1>5. CASE (\E c \in Conns : Accept(c)) \/ RelayStep \/ Surroundings
  BY <1>1, <1>2, <1>5, RelayFrame DEF Accept, Surroundings, StationTake,
     LinkBreak, Cancel, CloseAllClients, RelayStop, SaveRule, SaveRuleDone,
     panelVars, handlerVars
<1>6. QED
  BY <1>3, <1>4, <1>5, NextParts

LEMMA DeliveryInvariant == Spec => []DeliveryInv
<1>1. Init => DeliveryInv
  <2> SUFFICES ASSUME Init
               PROVE  UpstreamInv /\ FrameInv /\ ReplyInv /\ HandlerInv
                        /\ AckMeansHandled
    BY TypesInit DEF DeliveryInv
  <2>1. UpstreamInv
    BY DEF Init, UpstreamInv
  <2>2. FrameInv
    BY DEF Init, FrameInv
  <2>3. ReplyInv /\ HandlerInv /\ AckMeansHandled
    BY DEF Init, ReplyInv, HandlerInv, AckMeansHandled
  <2>4. QED
    BY <2>1, <2>2, <2>3
<1>2. DeliveryInv /\ [Next]_vars => DeliveryInv'
  <2> SUFFICES ASSUME DeliveryInv, [Next]_vars
               PROVE  DeliveryInv'
    OBVIOUS
  <2> USE DEF DeliveryInv
  <2>1. CASE Next
    BY <2>1, TypesNext, UpstreamStep, FrameStep, ReplyStep, HandlerInvStep,
       AckStep
  <2>2. CASE UNCHANGED vars
    <3>1. TypeOK'
      BY <2>2, TypesNext
    <3>2. UpstreamInv' /\ FrameInv' /\ ReplyInv' /\ AckMeansHandled'
      BY <2>2 DEF vars, panelVars, handlerVars, jobVars, relayVars, linkVars,
         UpstreamInv, FrameInv, ReplyInv, AckMeansHandled, Handled
    <3>3. HandlerInv'
      BY <2>2 DEF vars, handlerVars, jobVars, linkVars, HandlerInv, Handled,
         Job
    <3>4. QED
      BY <3>1, <3>2, <3>3
  <2>3. QED
    BY <2>1, <2>2
<1>3. QED
  BY <1>1, <1>2, PTL DEF Spec

(* handleClient acknowledges an event only when it has been handed to the  *)
(* journal and the station has it or a filter rule exempts it, whatever    *)
(* times out, breaks or is cancelled on the way.                           *)
THEOREM AcknowledgedIsHandled == Spec => []AckMeansHandled
BY DeliveryInvariant, PTL DEF DeliveryInv

(* A verdict read by processConnection is about the message in its hands:  *)
(* an answer that comes too late never passes for the next message's.      *)
THEOREM VerdictsAreOwn == Spec => []VerdictIsOwn
<1>1. UpstreamInv => VerdictIsOwn
  BY DEF UpstreamInv, VerdictIsOwn
<1>2. QED
  BY <1>1, DeliveryInvariant, PTL DEF DeliveryInv

-----------------------------------------------------------------------------
(* No handler is left reading after a shutdown.  A handler in its loop is  *)
(* tracked, so the sweep closes the socket it reads from; one that comes   *)
(* to the loop later sees the cancellation that came before the sweep.     *)
SweepInv ==
  /\ swept => cancelled
  /\ \A c \in Conns : pc[c] \notin {"new", "accepted", "closed"} => c \in conns
  /\ NoReaderLeft

LEMMA SweepStep ==
  ASSUME TypeOK, SweepInv, [Next]_vars
  PROVE  SweepInv'
<1> USE DEF SweepInv, NoReaderLeft
<1>1. CASE UNCHANGED <<handlerVars, stopVars>>
  BY <1>1 DEF handlerVars, stopVars
<1>2. CASE \E c \in Conns : HandlerStep(c)
  <2>1. PICK c \in Conns : HandlerStep(c)
    BY <1>2
  <2>2. UNCHANGED <<cancelled, swept>>
    BY <2>1, HandlerFrame DEF stopVars
  <2>3. /\ pc'[c] \notin {"new", "accepted", "closed"} => c \in conns'
        /\ conns' \in {conns, conns \cup {c}, conns \ {c}}
        /\ \A d \in Conns : d # c => open'[d] = open[d]
        /\ pc'[c] = "reading" => ~cancelled
    BY <2>1 DEF HandlerStep, TrackConn, LoopTop, Read, ReadFail, ScanDone,
       ScanControl, Scanning, ScanOverlong, ScanBlocked, ScanQueued,
       WaitReply, WaitTimeout, WaitCancelled, GiveUp, Callbacks, SendAnswer,
       Respond, Leave, Goto, TypeOK, HandlerTypes
  <2>4. \A d \in Conns : d # c => pc'[d] = pc[d]
    BY <2>1, HandlerStepOthers
  <2>5. QED
    BY <2>2, <2>3, <2>4
<1>3. CASE \E c \in Conns : Accept(c)
  BY <1>3 DEF Accept, Goto, stopVars, TypeOK, HandlerTypes
<1>4. CASE Cancel
  BY <1>4 DEF Cancel, handlerVars
<1>5. CASE CloseAllClients
  BY <1>5 DEF CloseAllClients
<1>6. CASE \/ \E c \in Conns, k \in Kinds : PanelSend(c, k)
           \/ RelayStep \/ StationTake \/ LinkBreak \/ RelayStop
           \/ \E f \in SUBSET Classes : SaveRule(f)
           \/ SaveRuleDone
  BY <1>1, <1>6, RelayFrame DEF PanelSend, StationTake, LinkBreak, RelayStop,
     SaveRule, SaveRuleDone
<1>7. QED
  BY <1>1, <1>2, <1>3, <1>4, <1>5, <1>6, NextParts DEF Surroundings, vars

(* After the cancellation and closeAllClients no handler waits in Read on  *)
(* an open socket, however accepting and closing interleave.               *)
THEOREM NoHandlerLeftReading == Spec => []NoReaderLeft
<1>1. Init => SweepInv
  BY DEF Init, SweepInv, NoReaderLeft
<1>2. TypeOK /\ SweepInv /\ [Next]_vars => SweepInv'
  BY SweepStep
<1>3. SweepInv => NoReaderLeft
  BY DEF SweepInv
<1>4. QED
  BY <1>1, <1>2, <1>3, TypesCorrect, PTL DEF Spec
=============================================================================
