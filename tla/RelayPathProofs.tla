-------------------------- MODULE RelayPathProofs --------------------------
(***************************************************************************)
(* Proofs about module Relay, for every set of panels and classes, every   *)
(* number of frames and every capacity of the queue: what becomes of a     *)
(* message between the handler that queues it and the station, what the    *)
(* counters say of it, and that the delivery path implements the contract  *)
(* with the panel.                                                         *)
(***************************************************************************)
EXTENDS RelayProofs, SequenceTheorems, FiniteSetTheorems

(* The messages written upstream, the one in the hands of the relay client *)
(* and those in the queue: in this order they were queued.                 *)
InHand == IF rpc = "took" THEN <<cur>> ELSE <<>>
Stream == (forwarded \o InHand) \o queue
Waiting == ValuesOf(InHand) \cup ValuesOf(queue)

(* The messages of one panel strictly ascend in s.                         *)
Ordered(s) ==
  \A m, n \in 1 .. Len(s) : m < n /\ s[m][1] = s[n][1] => s[m][2] < s[n][2]

(* The handler of j has dealt with it, is at it, or was at it when it      *)
(* left.                                                                   *)
AtWork == {"wait", "deliver", "ack", "nack"}
Begun(j) ==
  \/ j[2] < next[j[1]]
  \/ j[2] = next[j[1]] /\ pc[j[1]] \in AtWork \cup {"closed"}

(* What has been queued or has come to the station is not exempt, and      *)
(* nothing happens to a message before its handler is at it.               *)
BegunInv ==
  /\ \A j \in ValuesOf(Stream) \cup stationGot : Begun(j) /\ exempt[j] = "no"
  /\ \A j \in Jobs :
       reply[j] # "empty" \/ exempt[j] # "no" \/ journal[j] # "none" => Begun(j)

(* A message is answered, and reaches the station, only once it is taken.  *)
FreshInv ==
  /\ \A j \in Waiting : reply[j] = "empty" /\ j \notin stationGot
  /\ rpc = "sent" => cur \in ValuesOf(forwarded) /\ reply[cur] = "empty"

(* A handler at work is at an event, not journaled before it acknowledges, *)
(* and the flag in the journal is the server's verdict.                    *)
RecordInv ==
  /\ \A c \in Conns :
       pc[c] \in AtWork =>
         /\ kind[Job(c)] \in Classes
         /\ pc[c] # "ack" => journal[Job(c)] = "none"
  /\ \A j \in Jobs : journal[j] = "blocked" => exempt[j] = "server"

PathInv == Ordered(Stream) /\ BegunInv /\ FreshInv /\ RecordInv

(* The positive verdicts on their way to a panel, and the accepted         *)
(* messages whose verdict the relay client is done with.                   *)
Promised ==
  {j \in Jobs :
     /\ exempt[j] = "no"
     /\ \/ answer[j] = "ack" /\ kind[j] \in Classes
        \/ reply[j] = "ok"
        \/ pc[j[1]] \in {"deliver", "ack"} /\ j = Job(j[1])}
Settling == IF rpc \in {"took", "sent"} THEN {cur} ELSE {}
Counted == stationGot \ Settling

CountInv ==
  /\ IsFiniteSet(Promised) /\ Cardinality(Promised) <= stats.accepted
  /\ IsFiniteSet(stationGot) /\ stats.accepted <= Cardinality(Counted)

-----------------------------------------------------------------------------
(* Sequences of jobs.                                                      *)
LEMMA JobHasParts ==
  \A j \in Jobs : j[1] \in Conns /\ j[2] \in Nat
BY BoundsAssumption DEF Jobs

LEMMA ValuesAreElements ==
  ASSUME NEW s \in Seq(Jobs)
  PROVE  /\ ValuesOf(s) = {s[i] : i \in 1 .. Len(s)}
         /\ ValuesOf(s) \subseteq Jobs /\ Len(s) \in Nat
<1>1. DOMAIN s = 1 .. Len(s) /\ Len(s) \in Nat
  BY LenProperties
<1>2. \A i \in 1 .. Len(s) : s[i] \in Jobs
  BY ElementOfSeq
<1> QED BY <1>1, <1>2 DEF ValuesOf

LEMMA ValuesOfEmpty == ValuesOf(<<>>) = {}
<1>1. <<>> \in Seq(Jobs) /\ Len(<<>>) = 0
  BY EmptySeq
<1>2. ValuesOf(<<>>) = {<<>>[i] : i \in 1 .. Len(<<>>)}
  BY <1>1, ValuesAreElements, Zenon
<1>3. 1 .. Len(<<>>) = {}
  BY <1>1
<1> QED BY <1>2, <1>3, Zenon

LEMMA ValuesOfOne == \A j : ValuesOf(<<j>>) = {j}
BY DEF ValuesOf

LEMMA ValuesOfConcat ==
  ASSUME NEW s \in Seq(Jobs), NEW t \in Seq(Jobs)
  PROVE  ValuesOf(s \o t) = ValuesOf(s) \cup ValuesOf(t)
<1> DEFINE u == s \o t
<1>1. /\ u \in Seq(Jobs) /\ Len(u) = Len(s) + Len(t)
      /\ Len(s) \in Nat /\ Len(t) \in Nat
      /\ \A i \in 1 .. Len(s) : i \in 1 .. Len(u) /\ u[i] = s[i]
      /\ \A i \in 1 .. Len(t) :
           i + Len(s) \in 1 .. Len(u) /\ u[i + Len(s)] = t[i]
      /\ \A i \in 1 .. Len(u) :
           \/ i \in 1 .. Len(s) /\ u[i] = s[i]
           \/ i - Len(s) \in 1 .. Len(t) /\ u[i] = t[i - Len(s)]
  BY ConcatProperties, LenProperties
<1> HIDE DEF u
<1>2. /\ ValuesOf(s) = {s[i] : i \in 1 .. Len(s)}
      /\ ValuesOf(t) = {t[i] : i \in 1 .. Len(t)}
      /\ ValuesOf(u) = {u[i] : i \in 1 .. Len(u)}
  BY <1>1, ValuesAreElements
<1>3. ValuesOf(u) \subseteq ValuesOf(s) \cup ValuesOf(t)
  BY <1>1, <1>2
<1>4. ValuesOf(s) \subseteq ValuesOf(u) /\ ValuesOf(t) \subseteq ValuesOf(u)
  BY <1>1, <1>2
<1> QED BY <1>3, <1>4 DEF u

LEMMA ValuesOfAppend ==
  ASSUME NEW s \in Seq(Jobs), NEW j \in Jobs
  PROVE  ValuesOf(Append(s, j)) = ValuesOf(s) \cup {j}
<1>1. Append(s, j) = s \o <<j>> /\ <<j>> \in Seq(Jobs)
  BY AppendIsConcat
<1> QED BY <1>1, ValuesOfConcat, ValuesOfOne, ZenonT(60)

LEMMA HeadAndTail ==
  ASSUME NEW s \in Seq(Jobs), s # <<>>
  PROVE  /\ Head(s) \in Jobs /\ Tail(s) \in Seq(Jobs)
         /\ <<Head(s)>> \in Seq(Jobs)
         /\ s = <<Head(s)>> \o Tail(s)
         /\ ValuesOf(s) = {Head(s)} \cup ValuesOf(Tail(s))
<1>1. /\ Head(s) \in Jobs /\ Tail(s) \in Seq(Jobs)
      /\ Len(Tail(s)) = Len(s) - 1 /\ Len(s) \in Nat /\ Len(s) >= 1
      /\ \A i \in 1 .. Len(Tail(s)) : Tail(s)[i] = s[i + 1]
      /\ Head(s) = s[1]
  BY HeadTailProperties, EmptySeq, LenProperties
<1>2. /\ <<Head(s)>> \in Seq(Jobs)
      /\ <<Head(s)>> \o Tail(s) \in Seq(Jobs)
      /\ Len(<<Head(s)>> \o Tail(s)) = Len(s)
  BY <1>1, ConcatProperties
<1>3. \A i \in 1 .. Len(s) : (<<Head(s)>> \o Tail(s))[i] = s[i]
  BY <1>1
<1>4. s = <<Head(s)>> \o Tail(s)
  BY <1>2, <1>3, SeqEqual
<1>5. ValuesOf(<<Head(s)>> \o Tail(s))
        = ValuesOf(<<Head(s)>>) \cup ValuesOf(Tail(s))
  BY <1>1, <1>2, ValuesOfConcat
<1> QED BY <1>1, <1>2, <1>4, <1>5, ValuesOfOne

LEMMA ConcatTwice ==
  ASSUME NEW s \in Seq(Jobs), NEW t \in Seq(Jobs), NEW u \in Seq(Jobs)
  PROVE  /\ s \o t \in Seq(Jobs)
         /\ (s \o t) \o u \in Seq(Jobs)
         /\ (s \o t) \o u = s \o (t \o u)
<1>1. s \o t \in Seq(Jobs)
  BY ConcatProperties
<1>2. (s \o t) \o u \in Seq(Jobs)
  BY <1>1, ConcatProperties
<1>3. (s \o t) \o u = s \o (t \o u)
  BY ConcatAssociative
<1> QED BY <1>1, <1>2, <1>3

LEMMA ValuesOfThree ==
  ASSUME NEW s \in Seq(Jobs), NEW t \in Seq(Jobs), NEW u \in Seq(Jobs)
  PROVE  ValuesOf((s \o t) \o u)
           = (ValuesOf(s) \cup ValuesOf(t)) \cup ValuesOf(u)
<1>1. s \o t \in Seq(Jobs)
  BY ConcatProperties
<1>2. ValuesOf((s \o t) \o u) = ValuesOf(s \o t) \cup ValuesOf(u)
  BY <1>1, ValuesOfConcat
<1>3. ValuesOf(s \o t) = ValuesOf(s) \cup ValuesOf(t)
  BY ValuesOfConcat
<1> QED BY <1>2, <1>3

(* Taking messages out of the middle keeps the order of the others.        *)
LEMMA OrderedWithout ==
  ASSUME NEW s \in Seq(Jobs), NEW t \in Seq(Jobs), NEW u \in Seq(Jobs),
         Ordered((s \o t) \o u)
  PROVE  Ordered(s \o u)
<1> DEFINE long == (s \o t) \o u
           short == s \o u
           at(i) == IF i <= Len(s) THEN i ELSE i + Len(t)
<1>1. /\ long \in Seq(Jobs) /\ Len(long) = Len(s) + Len(t) + Len(u)
      /\ short \in Seq(Jobs) /\ Len(short) = Len(s) + Len(u)
      /\ Len(s) \in Nat /\ Len(t) \in Nat /\ Len(u) \in Nat
  BY ConcatProperties, LenProperties
<1>2. \A i \in 1 .. Len(short) :
        at(i) \in 1 .. Len(long) /\ short[i] = long[at(i)]
  BY <1>1
<1>3. \A i, j \in 1 .. Len(short) : i < j => at(i) < at(j)
  BY <1>1
<1> HIDE DEF long, short, at
<1>4. Ordered(short)
  BY <1>2, <1>3 DEF Ordered, long
<1> QED BY <1>4 DEF short

(* A message that comes after all others of its panel may join at the end. *)
LEMMA OrderedAppend ==
  ASSUME NEW s \in Seq(Jobs), NEW j \in Jobs, Ordered(s),
         \A i \in ValuesOf(s) : i[1] = j[1] => i[2] < j[2]
  PROVE  Ordered(Append(s, j))
<1> DEFINE long == Append(s, j)
<1>1. /\ Len(long) = Len(s) + 1 /\ Len(s) \in Nat
      /\ long[Len(s) + 1] = j
      /\ \A i \in 1 .. Len(s) : long[i] = s[i] /\ s[i] \in ValuesOf(s)
  BY AppendProperties, LenProperties, ValuesAreElements
<1> HIDE DEF long
<1>2. SUFFICES ASSUME NEW m \in 1 .. Len(long), NEW n \in 1 .. Len(long),
                      m < n, long[m][1] = long[n][1]
               PROVE  long[m][2] < long[n][2]
  BY DEF Ordered, long
<1>3. m \in 1 .. Len(s)
  BY <1>1, <1>2
<1>4. CASE n = Len(s) + 1
  BY <1>1, <1>2, <1>3, <1>4
<1>5. CASE n \in 1 .. Len(s)
  BY <1>1, <1>2, <1>3, <1>5 DEF Ordered
<1> QED BY <1>1, <1>4, <1>5

(* No message is in two parts of an ordered sequence.                      *)
LEMMA OrderedApart ==
  ASSUME NEW s \in Seq(Jobs), NEW t \in Seq(Jobs), Ordered(s \o t)
  PROVE  ValuesOf(s) \cap ValuesOf(t) = {}
<1> SUFFICES ASSUME NEW j \in ValuesOf(s), j \in ValuesOf(t)
             PROVE  FALSE
  OBVIOUS
<1>1. PICK m \in 1 .. Len(s), n \in 1 .. Len(t) : s[m] = j /\ t[n] = j
  BY ValuesAreElements
<1> DEFINE u == s \o t
<1>2. /\ Len(s) \in Nat /\ Len(t) \in Nat /\ Len(u) = Len(s) + Len(t)
      /\ u[m] = j /\ u[Len(s) + n] = j
  BY <1>1, ConcatProperties, LenProperties
<1> HIDE DEF u
<1>3. /\ m \in 1 .. Len(u) /\ Len(s) + n \in 1 .. Len(u)
      /\ m < Len(s) + n
  BY <1>1, <1>2
<1>4. j[2] < j[2]
  BY <1>2, <1>3 DEF Ordered, u
<1>5. j[2] \in Nat
  BY ValuesAreElements, JobHasParts
<1> QED BY <1>4, <1>5

-----------------------------------------------------------------------------
(* The parts of the stream, before and after a step.                       *)
LEMMA StreamParts ==
  ASSUME TypeOK
  PROVE  /\ forwarded \in Seq(Jobs) /\ InHand \in Seq(Jobs)
         /\ queue \in Seq(Jobs) /\ Stream \in Seq(Jobs)
         /\ ValuesOf(InHand) = IF rpc = "took" THEN {cur} ELSE {}
         /\ ValuesOf(Stream) = ValuesOf(forwarded) \cup Waiting
         /\ ValuesOf(Stream) \subseteq Jobs /\ Waiting \subseteq Jobs
<1>1. forwarded \in Seq(Jobs) /\ queue \in Seq(Jobs)
  BY DEF TypeOK, RelayTypes
<1>2. /\ InHand \in Seq(Jobs)
      /\ ValuesOf(InHand) = IF rpc = "took" THEN {cur} ELSE {}
  <2>1. CASE rpc = "took"
    <3>1. cur \in Jobs /\ InHand = <<cur>>
      BY <2>1 DEF TypeOK, RelayTypes, InHand
    <3>2. InHand \in Seq(Jobs)
      BY <3>1
    <3> QED BY <2>1, <3>1, <3>2, ValuesOfOne, Zenon
  <2>2. CASE rpc # "took"
    <3>1. InHand = <<>>
      BY <2>2 DEF InHand
    <3>2. InHand \in Seq(Jobs)
      BY <3>1
    <3> QED BY <2>2, <3>1, <3>2, ValuesOfEmpty, Zenon
  <2> QED BY <2>1, <2>2
<1>3. /\ Stream \in Seq(Jobs)
      /\ ValuesOf(Stream) = ValuesOf(forwarded) \cup Waiting
  BY <1>1, <1>2, ConcatTwice, ValuesOfThree DEF Stream, Waiting
<1> QED BY <1>1, <1>2, <1>3, ValuesAreElements

LEMMA StreamPartsNext ==
  ASSUME TypeOK'
  PROVE  /\ forwarded' \in Seq(Jobs) /\ InHand' \in Seq(Jobs)
         /\ queue' \in Seq(Jobs) /\ Stream' \in Seq(Jobs)
         /\ ValuesOf(InHand') = IF rpc' = "took" THEN {cur'} ELSE {}
         /\ ValuesOf(Stream') = ValuesOf(forwarded') \cup Waiting'
         /\ ValuesOf(Stream') \subseteq Jobs /\ Waiting' \subseteq Jobs
<1>1. forwarded' \in Seq(Jobs) /\ queue' \in Seq(Jobs)
  BY DEF TypeOK, RelayTypes
<1>2. /\ InHand' \in Seq(Jobs)
      /\ ValuesOf(InHand') = IF rpc' = "took" THEN {cur'} ELSE {}
  <2>1. CASE rpc' = "took"
    <3>1. cur' \in Jobs /\ InHand' = <<cur'>>
      BY <2>1 DEF TypeOK, RelayTypes, InHand
    <3>2. InHand' \in Seq(Jobs)
      BY <3>1
    <3> QED BY <2>1, <3>1, <3>2, ValuesOfOne, Zenon
  <2>2. CASE rpc' # "took"
    <3>1. InHand' = <<>>
      BY <2>2 DEF InHand
    <3>2. InHand' \in Seq(Jobs)
      BY <3>1
    <3> QED BY <2>2, <3>1, <3>2, ValuesOfEmpty, Zenon
  <2> QED BY <2>1, <2>2
<1>3. /\ Stream' \in Seq(Jobs)
      /\ ValuesOf(Stream') = ValuesOf(forwarded') \cup Waiting'
  BY <1>1, <1>2, ConcatTwice, ValuesOfThree DEF Stream, Waiting
<1> QED BY <1>1, <1>2, <1>3, ValuesAreElements

(* No message is twice in the stream, and without the one in hand the      *)
(* others keep their order.                                                *)
LEMMA StreamApart ==
  ASSUME TypeOK, Ordered(Stream)
  PROVE  /\ ValuesOf(forwarded) \cap ValuesOf(queue) = {}
         /\ rpc = "took" => cur \notin ValuesOf(forwarded) \cup ValuesOf(queue)
         /\ Ordered(forwarded \o queue)
<1>1. /\ forwarded \in Seq(Jobs) /\ InHand \in Seq(Jobs)
      /\ queue \in Seq(Jobs)
      /\ ValuesOf(InHand) = IF rpc = "took" THEN {cur} ELSE {}
  BY StreamParts
<1>2. /\ forwarded \o InHand \in Seq(Jobs)
      /\ InHand \o queue \in Seq(Jobs)
      /\ Stream = forwarded \o (InHand \o queue)
  BY <1>1, ConcatTwice DEF Stream
<1>3. ValuesOf(forwarded \o InHand) \cap ValuesOf(queue) = {}
  BY <1>1, <1>2, OrderedApart DEF Stream
<1>4. ValuesOf(forwarded) \cap ValuesOf(InHand \o queue) = {}
  BY <1>1, <1>2, OrderedApart
<1>5. /\ ValuesOf(forwarded \o InHand) = ValuesOf(forwarded) \cup ValuesOf(InHand)
      /\ ValuesOf(InHand \o queue) = ValuesOf(InHand) \cup ValuesOf(queue)
  BY <1>1, ValuesOfConcat
<1>6. Ordered(forwarded \o queue)
  BY <1>1, OrderedWithout DEF Stream
<1> QED BY <1>1, <1>3, <1>4, <1>5, <1>6

-----------------------------------------------------------------------------
(* What a step does to the messages.                                       *)

(* The relay client goes on without touching a message, takes the next,    *)
(* writes the one it has, or is done with it.                              *)
RelayQuiet ==
  /\ UNCHANGED <<forwarded, queue, reply, exempt, stationGot>>
  /\ rpc \notin {"took", "sent"} /\ rpc' \notin {"took", "sent"}

RelayDone ==
  /\ rpc \in {"took", "sent"} /\ rpc' \notin {"took", "sent"}
  /\ reply[cur] = "empty"
  /\ \E r \in {"ok", "failed"} : reply' = [reply EXCEPT ![cur] = r]
  /\ UNCHANGED <<forwarded, queue>>
  /\ \/ exempt' = exempt /\ stationGot' \in {stationGot, stationGot \cup {cur}}
     \/ /\ rpc = "took" /\ exempt' = [exempt EXCEPT ![cur] = "relay"]
        /\ stationGot' = stationGot

LEMMA RelayMoves ==
  ASSUME TypeOK, UpstreamInv, RelayStep
  PROVE  RelayQuiet \/ RelayTake \/ RelayWrite \/ RelayDone
<1>1. ValuesOf(wire) \subseteq IF rpc = "sent" THEN {cur} ELSE {}
  BY ValuesOfEmpty, ValuesOfOne DEF UpstreamInv
<1>2. CASE RelayTop \/ RelayDial \/ RelayDialFail \/ RelayBackoff
  BY <1>2 DEF RelayTop, RelayDial, RelayDialFail, RelayBackoff, RelayQuiet,
     jobVars, linkVars
<1>3. CASE RelayIdleCancelled
  BY <1>1, <1>3 DEF RelayIdleCancelled, DropLink, RelayQuiet, jobVars
<1>4. CASE RelayBypass
  BY <1>4 DEF RelayBypass, SendReply, RelayDone, linkVars
<1>5. CASE RelayWriteFail \/ RelayReadFail
  BY <1>1, <1>5
  DEF RelayWriteFail, RelayReadFail, SendReply, DropLink, RelayDone
<1>6. CASE RelayRead
  BY <1>6 DEF RelayRead, SendReply, RelayDone
<1> QED BY <1>2, <1>3, <1>4, <1>5, <1>6 DEF RelayStep

(* Around the handlers and the relay client a message only reaches the     *)
(* station, from the wire.                                                 *)
LEMMA SurroundingsMoves ==
  ASSUME TypeOK, UpstreamInv, Surroundings
  PROVE  /\ UNCHANGED <<kind, next, pc, answer, exempt, journal, reply, queue,
                        rpc, cur, forwarded, stats>>
         /\ \/ stationGot' = stationGot
            \/ rpc = "sent" /\ stationGot' = stationGot \cup {cur}
<1>1. ValuesOf(wire) \subseteq IF rpc = "sent" THEN {cur} ELSE {}
  BY ValuesOfEmpty, ValuesOfOne DEF UpstreamInv
<1>2. CASE StationTake
  <2>1. rpc = "sent" /\ wire = <<cur>>
    BY <1>2 DEF StationTake, UpstreamInv
  <2> QED BY <1>2, <2>1
          DEF StationTake, panelVars, handlerVars, jobVars, relayVars
<1>3. CASE LinkBreak \/ RelayStop
  BY <1>1, <1>3
  DEF LinkBreak, RelayStop, DropLink, panelVars, handlerVars, jobVars,
      relayVars
<1>4. CASE \/ Cancel \/ CloseAllClients
           \/ \E f \in SUBSET Classes : SaveRule(f)
           \/ SaveRuleDone
  BY <1>4
  DEF Cancel, CloseAllClients, SaveRule, SaveRuleDone, panelVars, handlerVars,
      jobVars, relayVars, linkVars
<1> QED BY <1>2, <1>3, <1>4 DEF Surroundings

(* A handler that touches no message moves on within its work, leaves it,  *)
(* or answers and goes to the next frame.                                  *)
HandlerQuiet(c) ==
  /\ UNCHANGED <<jobVars, queue, stats>>
  /\ pc'[c] \in {"wait", "deliver", "ack"} => pc'[c] = pc[c] /\ next' = next
  /\ pc'[c] = "nack" => pc[c] \in {"wait", "nack"} /\ next' = next
  /\ pc[c] # "closed"

LEMMA HandlerMoves ==
  ASSUME TypeOK, NEW c \in Conns, HandlerStep(c)
  PROVE  \/ HandlerQuiet(c) \/ ScanBlocked(c) \/ ScanQueued(c)
         \/ WaitReply(c) \/ Callbacks(c)
<1> USE DEF HandlerQuiet, TypeOK, HandlerTypes
<1>1. CASE TrackConn(c) \/ LoopTop(c) \/ Read(c) \/ ReadFail(c) \/ ScanDone(c)
  BY <1>1 DEF TrackConn, LoopTop, Read, ReadFail, ScanDone, Leave, Goto
<1>2. CASE ScanControl(c) \/ ScanOverlong(c) \/ SendAnswer(c)
  BY <1>2
  DEF ScanControl, ScanOverlong, SendAnswer, Scanning, Respond, Leave, Goto
<1>3. CASE WaitTimeout(c) \/ WaitCancelled(c)
  BY <1>3 DEF WaitTimeout, WaitCancelled, GiveUp, Goto
<1> QED BY <1>1, <1>2, <1>3 DEF HandlerStep

(* A message a handler has come to stays begun.                            *)
LEMMA BegunStays ==
  ASSUME TypeOK, Next, NEW j \in Jobs, Begun(j)
  PROVE  Begun(j)'
<1>1. j[1] \in Conns /\ j[2] \in Nat
  BY JobHasParts
<1>2. CASE pc'[j[1]] = pc[j[1]] /\ next'[j[1]] = next[j[1]]
  BY <1>2 DEF Begun
<1>3. CASE HandlerStep(j[1])
  <2> DEFINE c == j[1]
  <2>1. \/ next'[c] = next[c]
        \/ next'[c] = next[c] + 1 /\ next[c] \in Nat
    BY <1>1, <1>3, AnswerStep DEF TypeOK, HandlerTypes
  <2>2. next[c] \in Nat
    BY <1>1 DEF TypeOK, HandlerTypes
  <2>3. CASE j[2] < next[c]
    BY <1>1, <2>1, <2>2, <2>3 DEF Begun
  <2>4. CASE j[2] = next[c] /\ pc[c] \in AtWork \cup {"closed"}
    <3>1. \/ pc'[c] \in AtWork \cup {"closed"} /\ next'[c] = next[c]
          \/ next'[c] = next[c] + 1
      BY <1>1, <1>3, <2>4
      DEF HandlerStep, TrackConn, LoopTop, Read, ReadFail, ScanDone,
          ScanControl, Scanning, ScanOverlong, ScanBlocked, ScanQueued,
          WaitReply, WaitTimeout, WaitCancelled, GiveUp, Callbacks, SendAnswer,
          Respond, Leave, Goto, TypeOK, HandlerTypes, AtWork
    <3> QED BY <1>1, <2>2, <2>4, <3>1 DEF Begun
  <2> QED BY <2>3, <2>4 DEF Begun
<1>4. CASE \E c \in Conns : HandlerStep(c)
  BY <1>1, <1>2, <1>3, <1>4, HandlerStepOthers
<1>5. CASE \E c \in Conns : Accept(c)
  BY <1>1, <1>5 DEF Accept, Goto, Begun, AtWork, TypeOK, HandlerTypes
<1>6. CASE \/ \E c \in Conns, k \in Kinds : PanelSend(c, k)
           \/ RelayStep \/ Surroundings
  BY <1>2, <1>6, RelayFrame
  DEF PanelSend, Surroundings, StationTake, LinkBreak, Cancel, CloseAllClients,
      RelayStop, SaveRule, SaveRuleDone, handlerVars
<1> QED BY <1>4, <1>5, <1>6, NextParts

(* The message a handler scans has not begun.                              *)
LEMMA ScannedIsNew ==
  ASSUME TypeOK, NEW c \in Conns, pc[c] = "scan", next[c] <= got[c]
  PROVE  Job(c) \in Jobs /\ ~Begun(Job(c))
<1>1. Job(c) \in Jobs /\ Job(c)[1] = c /\ Job(c)[2] = next[c]
  BY JobIsJob, JobParts
<1>2. next[c] \in Nat
  BY DEF TypeOK, HandlerTypes
<1> QED BY <1>1, <1>2 DEF Begun, AtWork

-----------------------------------------------------------------------------
(* The stream.                                                             *)

(* What is queued joins at the end, and comes after all that is queued of  *)
(* its panel.                                                              *)
LEMMA QueuedJoinsStream ==
  ASSUME TypeOK, TypeOK', PathInv, NEW c \in Conns, ScanQueued(c)
  PROVE  /\ Ordered(Stream')
         /\ ValuesOf(Stream') \subseteq ValuesOf(Stream) \cup {Job(c)}
         /\ Waiting' \subseteq Waiting \cup {Job(c)}
<1>1. CASE queue' = queue
  <2>1. InHand' = InHand /\ Stream' = Stream /\ Waiting' = Waiting
    BY <1>1 DEF ScanQueued, relayVars, InHand, Stream, Waiting
  <2> QED BY <2>1 DEF PathInv
<1>2. CASE queue' = Append(queue, Job(c))
  <2> DEFINE j == Job(c)
             fh == forwarded \o InHand
  <2>1. pc[c] = "scan" /\ next[c] <= got[c]
    BY DEF ScanQueued, Scanning
  <2>2. j \in Jobs /\ j[1] = c /\ j[2] = next[c]
    BY <2>1, ScannedIsNew, JobParts
  <2>3. InHand' = InHand /\ forwarded' = forwarded
    BY DEF ScanQueued, relayVars, InHand
  <2>4. /\ fh \in Seq(Jobs) /\ queue \in Seq(Jobs) /\ <<j>> \in Seq(Jobs)
        /\ queue' = queue \o <<j>> /\ Stream \in Seq(Jobs)
        /\ Stream = fh \o queue
    <3>1. queue' = queue \o <<j>> /\ <<j>> \in Seq(Jobs)
      BY <1>2, <2>2, StreamParts, AppendIsConcat
    <3> QED BY <3>1, StreamParts, ConcatTwice DEF Stream
  <2>5. Stream' = fh \o queue'
    BY <2>3 DEF Stream
  <2> HIDE DEF j, fh
  <2>6. Stream' = Stream \o <<j>>
    BY <2>4, <2>5, ConcatTwice
  <2>7. Stream' = Append(Stream, j)
    BY <2>2, <2>4, <2>6, AppendIsConcat
  <2>8. ASSUME NEW i \in ValuesOf(Stream), i[1] = j[1]
        PROVE  i[2] < j[2]
    <3>1. Begun(i)
      BY <2>8 DEF PathInv, BegunInv
    <3> QED BY <2>1, <2>2, <2>8, <3>1 DEF Begun, AtWork
  <2>9. Ordered(Stream')
    BY <2>2, <2>4, <2>7, <2>8, OrderedAppend DEF PathInv
  <2>10. ValuesOf(Stream') = ValuesOf(Stream) \cup {j}
    BY <2>2, <2>4, <2>7, ValuesOfAppend
  <2>11. ValuesOf(queue') = ValuesOf(queue) \cup {j}
    BY <1>2, <2>2, <2>4, ValuesOfAppend DEF j
  <2> QED BY <2>3, <2>9, <2>10, <2>11 DEF Waiting, j
<1> QED BY <1>1, <1>2 DEF ScanQueued

(* A message that is taken, and then written, keeps its place.             *)
LEMMA TakenKeepsPlace ==
  ASSUME TypeOK, RelayTake
  PROVE  Stream' = Stream /\ Waiting' = Waiting
<1> DEFINE h == Head(queue)
           t == Tail(queue)
<1>1. /\ forwarded \in Seq(Jobs) /\ queue \in Seq(Jobs) /\ queue # <<>>
      /\ InHand = <<>> /\ InHand' = <<h>> /\ queue' = t
      /\ forwarded' = forwarded
  BY StreamParts DEF RelayTake, InHand
<1>2. /\ <<h>> \in Seq(Jobs) /\ t \in Seq(Jobs) /\ queue = <<h>> \o t
      /\ ValuesOf(queue) = {h} \cup ValuesOf(t)
  BY <1>1, HeadAndTail
<1> HIDE DEF h, t
<1>3. Stream = forwarded \o queue /\ Stream' = (forwarded \o <<h>>) \o t
  BY <1>1, ConcatEmptySeq DEF Stream
<1>4. Stream' = Stream
  BY <1>1, <1>2, <1>3, ConcatTwice
<1> QED BY <1>1, <1>2, <1>4, ValuesOfEmpty, ValuesOfOne DEF Waiting

LEMMA WrittenKeepsPlace ==
  ASSUME TypeOK, RelayWrite
  PROVE  /\ Stream' = Stream /\ Waiting' \subseteq Waiting
         /\ cur \in ValuesOf(forwarded')
<1>1. /\ forwarded \in Seq(Jobs) /\ queue \in Seq(Jobs) /\ cur \in Jobs
      /\ InHand = <<cur>> /\ InHand' = <<>> /\ queue' = queue
      /\ forwarded' = Append(forwarded, cur)
  BY StreamParts DEF RelayWrite, InHand, TypeOK, RelayTypes
<1>2. /\ forwarded' = forwarded \o <<cur>>
      /\ forwarded \o <<cur>> \in Seq(Jobs)
  BY <1>1, AppendIsConcat, ConcatProperties
<1>3. Stream' = Stream
  BY <1>1, <1>2, ConcatEmptySeq DEF Stream
<1> QED BY <1>1, <1>3, ValuesOfEmpty, ValuesOfAppend DEF Waiting

(* A message that the relay client is done with is in the queue no more,   *)
(* and those that are left keep their order.                               *)
LEMMA DoneLeavesStream ==
  ASSUME TypeOK, TypeOK', Ordered(Stream), FreshInv, RelayDone
  PROVE  /\ Ordered(Stream')
         /\ ValuesOf(Stream') \subseteq ValuesOf(Stream)
         /\ cur \in ValuesOf(Stream)
         /\ rpc = "took" => cur \notin ValuesOf(Stream')
         /\ Waiting' \subseteq Waiting /\ cur \notin Waiting'
<1>1. /\ InHand' = <<>> /\ UNCHANGED <<forwarded, queue>>
      /\ forwarded \in Seq(Jobs)
  BY StreamParts DEF RelayDone, InHand
<1>2. Stream' = forwarded \o queue
  BY <1>1, ConcatEmptySeq DEF Stream
<1>3. /\ ValuesOf(Stream') = ValuesOf(forwarded) \cup ValuesOf(queue)
      /\ Waiting' = ValuesOf(queue)
  BY <1>1, StreamPartsNext, ValuesOfEmpty DEF Waiting
<1>4. cur \in ValuesOf(forwarded) \cup ValuesOf(InHand)
  BY StreamParts DEF RelayDone, FreshInv
<1>5. cur \notin ValuesOf(queue)
  BY StreamApart DEF RelayDone, FreshInv
<1> QED BY <1>1, <1>2, <1>3, <1>4, <1>5, StreamParts, StreamApart DEF Waiting

LEMMA StreamStays ==
  ASSUME UNCHANGED <<forwarded, queue>>,
         \/ rpc' = rpc /\ cur' = cur
         \/ rpc # "took" /\ rpc' # "took"
  PROVE  Stream' = Stream /\ Waiting' = Waiting
<1>1. InHand' = InHand
  BY DEF InHand
<1> QED BY <1>1 DEF Stream, Waiting

(* The messages of one panel stay in order, and what is in the stream was  *)
(* there before, unless it has just been queued.                           *)
LEMMA StreamStep ==
  ASSUME TypeOK, TypeOK', UpstreamInv, PathInv, Next
  PROVE  /\ Ordered(Stream')
         /\ \/ /\ ValuesOf(Stream') \subseteq ValuesOf(Stream)
               /\ Waiting' \subseteq Waiting
            \/ \E c \in Conns :
                 /\ ScanQueued(c)
                 /\ ValuesOf(Stream') \subseteq ValuesOf(Stream) \cup {Job(c)}
                 /\ Waiting' \subseteq Waiting \cup {Job(c)}
<1>1. CASE Stream' = Stream /\ Waiting' = Waiting
  BY <1>1 DEF PathInv
<1>2. CASE \E c \in Conns : HandlerStep(c)
  <2>1. PICK c \in Conns : HandlerStep(c)
    BY <1>2
  <2>2. CASE ScanQueued(c)
    BY <2>2, QueuedJoinsStream
  <2>3. CASE queue' = queue
    BY <1>1, <2>1, <2>3, HandlerFrame, StreamStays DEF relayVars
  <2> QED
    BY <2>1, <2>2, <2>3, HandlerMoves
    DEF HandlerQuiet, ScanBlocked, WaitReply, Callbacks
<1>3. CASE RelayStep
  <2>1. CASE RelayQuiet
    BY <1>1, <2>1, StreamStays DEF RelayQuiet
  <2>2. CASE RelayTake
    BY <1>1, <2>2, TakenKeepsPlace
  <2>3. CASE RelayWrite
    BY <2>3, WrittenKeepsPlace DEF PathInv
  <2>4. CASE RelayDone
    BY <2>4, DoneLeavesStream DEF PathInv
  <2> QED BY <1>3, <2>1, <2>2, <2>3, <2>4, RelayMoves
<1>4. CASE Surroundings
  BY <1>1, <1>4, SurroundingsMoves, StreamStays
<1>5. CASE \/ \E c \in Conns, k \in Kinds : PanelSend(c, k)
           \/ \E c \in Conns : Accept(c)
  BY <1>1, <1>5, StreamStays DEF PanelSend, Accept, relayVars
<1> QED BY <1>2, <1>3, <1>4, <1>5, NextParts

-----------------------------------------------------------------------------
(* What nobody has begun is untouched.                                     *)

(* Only the message in hand comes to the station.                          *)
LEMMA StationStep ==
  ASSUME TypeOK, UpstreamInv, FreshInv, Next
  PROVE  \/ stationGot' = stationGot
         \/ stationGot' = stationGot \cup {cur} /\ cur \in ValuesOf(Stream)
<1>1. rpc \in {"took", "sent"} => cur \in ValuesOf(Stream)
  BY StreamParts DEF FreshInv, Waiting
<1>2. CASE RelayStep
  BY <1>1, <1>2, RelayMoves
  DEF RelayQuiet, RelayTake, RelayWrite, RelayDone, linkVars
<1>3. CASE Surroundings
  BY <1>1, <1>3, SurroundingsMoves
<1>4. CASE \/ \E c \in Conns, k \in Kinds : PanelSend(c, k)
           \/ \E c \in Conns : Accept(c)
           \/ \E c \in Conns : HandlerStep(c)
  BY <1>4, HandlerFrame DEF PanelSend, Accept, linkVars
<1> QED BY <1>2, <1>3, <1>4, NextParts

(* Who comes to exempt a message.                                          *)
LEMMA ExemptStep ==
  ASSUME TypeOK, UpstreamInv, Next
  PROVE  \/ exempt' = exempt
         \/ \E c \in Conns : ScanBlocked(c)
         \/ /\ RelayStep /\ RelayDone /\ rpc = "took"
            /\ exempt' = [exempt EXCEPT ![cur] = "relay"]
            /\ stationGot' = stationGot
<1>1. CASE RelayStep
  BY <1>1, RelayMoves DEF RelayQuiet, RelayTake, RelayWrite, RelayDone, jobVars
<1>2. CASE \E c \in Conns : HandlerStep(c)
  BY <1>2, HandlerMoves
  DEF HandlerQuiet, ScanQueued, WaitReply, Callbacks, jobVars
<1>3. CASE \/ \E c \in Conns, k \in Kinds : PanelSend(c, k)
           \/ \E c \in Conns : Accept(c)
           \/ Surroundings
  BY <1>3, SurroundingsMoves DEF PanelSend, Accept, jobVars
<1> QED BY <1>1, <1>2, <1>3, NextParts

LEMMA ScanningBegins ==
  ASSUME TypeOK, NEW c \in Conns, ScanBlocked(c) \/ ScanQueued(c)
  PROVE  Job(c) \in Jobs /\ ~Begun(Job(c)) /\ Begun(Job(c))'
<1>1. pc[c] = "scan" /\ next[c] <= got[c] /\ next' = next
  BY DEF ScanBlocked, ScanQueued, Scanning
<1>2. pc'[c] \in AtWork
  BY DEF ScanBlocked, ScanQueued, Goto, AtWork, TypeOK, HandlerTypes
<1>3. Job(c)' = Job(c) /\ Job(c)[1] = c /\ Job(c)[2] = next[c]
  BY <1>1, JobParts DEF Job
<1>4. Begun(Job(c))'
  BY <1>1, <1>2, <1>3 DEF Begun
<1> QED BY <1>1, <1>4, ScannedIsNew

LEMMA StreamIsNotExempt ==
  ASSUME TypeOK, TypeOK', UpstreamInv, PathInv, Next,
         NEW j \in ValuesOf(Stream') \cup stationGot'
  PROVE  j \in Jobs /\ Begun(j)' /\ exempt'[j] = "no"
<1> USE DEF PathInv, BegunInv
<1>1. j \in Jobs
  BY StreamPartsNext DEF TypeOK, LinkTypes
<1>2. \/ j \in ValuesOf(Stream) \cup stationGot
      \/ \E c \in Conns : ScanQueued(c) /\ j = Job(c)
  BY StreamStep, StationStep
<1>3. Begun(j)'
  <2>1. CASE j \in ValuesOf(Stream) \cup stationGot
    BY <1>1, <2>1, BegunStays
  <2>2. CASE \E c \in Conns : ScanQueued(c) /\ j = Job(c)
    <3>1. PICK c \in Conns : ScanQueued(c) /\ j = Job(c)
      BY <2>2
    <3>2. Job(c)' = Job(c)
      BY <3>1 DEF ScanQueued, Job
    <3> QED BY <3>1, <3>2, ScanningBegins
  <2> QED BY <1>2, <2>1, <2>2
<1>4. exempt[j] = "no"
  BY <1>1, <1>2, ScanningBegins
<1>5. CASE exempt' = exempt
  BY <1>1, <1>3, <1>4, <1>5
<1>6. CASE \E c \in Conns : ScanBlocked(c)
  <2>1. PICK c \in Conns : ScanBlocked(c)
    BY <1>6
  <2>2. Stream' = Stream /\ stationGot' = stationGot
    BY <2>1, StreamStays DEF ScanBlocked, relayVars, linkVars
  <2>3. j # Job(c)
    BY <2>1, <2>2, ScanningBegins
  <2> QED BY <1>1, <1>3, <1>4, <2>1, <2>3 DEF ScanBlocked, TypeOK, JobTypes
<1>7. CASE /\ RelayStep /\ RelayDone /\ rpc = "took"
           /\ exempt' = [exempt EXCEPT ![cur] = "relay"]
           /\ stationGot' = stationGot
  <2>1. cur \notin ValuesOf(Stream') /\ cur \notin stationGot
    BY <1>7, DoneLeavesStream, StreamParts DEF FreshInv, Waiting
  <2> QED BY <1>1, <1>3, <1>4, <1>7, <2>1 DEF TypeOK, JobTypes
<1> QED BY <1>5, <1>6, <1>7, ExemptStep

LEMMA BegunStep ==
  ASSUME TypeOK, TypeOK', UpstreamInv, PathInv, Next
  PROVE  BegunInv'
<1> USE DEF PathInv, BegunInv
<1>1. SUFFICES ASSUME NEW j \in Jobs,
                      \/ reply'[j] # "empty" \/ exempt'[j] # "no"
                      \/ journal'[j] # "none"
               PROVE  Begun(j)'
  BY StreamIsNotExempt
<1>2. CASE Begun(j)
  BY <1>2, BegunStays
<1>3. CASE UNCHANGED <<reply, exempt, journal>>
  BY <1>1, <1>2, <1>3
<1>4. CASE RelayStep
  <2>1. CASE RelayDone
    <3>1. cur \in ValuesOf(Stream) /\ journal' = journal
      BY <1>4, <2>1, DoneLeavesStream, RelayFrame
    <3>2. CASE j = cur
      BY <1>2, <3>1, <3>2
    <3>3. CASE j # cur
      BY <1>1, <1>2, <2>1, <3>1, <3>3 DEF RelayDone, TypeOK, JobTypes
    <3> QED BY <3>2, <3>3
  <2>2. CASE RelayQuiet \/ RelayTake \/ RelayWrite
    BY <1>3, <1>4, <2>2, RelayFrame DEF RelayQuiet, RelayTake, RelayWrite, jobVars
  <2> QED BY <1>4, <2>1, <2>2, RelayMoves
<1>5. CASE \E c \in Conns : HandlerStep(c)
  <2>1. PICK c \in Conns : HandlerStep(c)
    BY <1>5
  <2>2. CASE HandlerQuiet(c) \/ ScanQueued(c)
    BY <1>3, <2>2 DEF HandlerQuiet, ScanQueued, jobVars
  <2>3. CASE ScanBlocked(c)
    <3>1. CASE j = Job(c)
      <4>1. Job(c)' = Job(c)
        BY <2>3 DEF ScanBlocked, Job
      <4> QED BY <2>3, <3>1, <4>1, ScanningBegins
    <3>2. CASE j # Job(c)
      BY <1>1, <1>2, <2>3, <3>2 DEF ScanBlocked, TypeOK, JobTypes
    <3> QED BY <3>1, <3>2
  <2>4. CASE WaitReply(c) \/ Callbacks(c)
    <3>1. CASE j = Job(c)
      <4>1. Begun(j)
        BY <2>4, <3>1, JobParts DEF WaitReply, Callbacks, Begun, AtWork
      <4> QED BY <1>2, <4>1
    <3>2. CASE j # Job(c)
      BY <1>1, <1>2, <2>4, <3>2 DEF WaitReply, Callbacks, TypeOK, JobTypes
    <3> QED BY <3>1, <3>2
  <2> QED BY <2>1, <2>2, <2>3, <2>4, HandlerMoves
<1>6. CASE \/ \E c \in Conns, k \in Kinds : PanelSend(c, k)
           \/ \E c \in Conns : Accept(c)
           \/ Surroundings
  BY <1>3, <1>6, SurroundingsMoves DEF PanelSend, Accept, jobVars
<1> QED BY <1>4, <1>5, <1>6, NextParts

LEMMA FreshStep ==
  ASSUME TypeOK, TypeOK', UpstreamInv, PathInv, Next
  PROVE  FreshInv'
<1> USE DEF PathInv, FreshInv
<1>1. ASSUME NEW j \in Waiting'
      PROVE  reply'[j] = "empty" /\ j \notin stationGot'
  <2>1. j \in Jobs
    BY <1>1, StreamPartsNext
  <2>2. j \in Waiting \/ \E c \in Conns : ScanQueued(c) /\ j = Job(c)
    BY <1>1, StreamStep
  <2>3. reply[j] = "empty" /\ j \notin stationGot
    <3>1. CASE \E c \in Conns : ScanQueued(c) /\ j = Job(c)
      BY <3>1, ScanningBegins DEF BegunInv
    <3> QED BY <2>2, <3>1
  <2>4. CASE RelayStep
    <3>1. CASE RelayDone
      <4>1. j # cur
        BY <1>1, <3>1, DoneLeavesStream
      <4> QED BY <2>1, <2>3, <3>1, <4>1 DEF RelayDone, TypeOK, JobTypes
    <3>2. CASE RelayQuiet \/ RelayTake \/ RelayWrite
      BY <2>3, <3>2
      DEF RelayQuiet, RelayTake, RelayWrite, jobVars, linkVars
    <3> QED BY <2>4, <3>1, <3>2, RelayMoves
  <2>5. CASE \E c \in Conns : HandlerStep(c)
    <3>1. PICK c \in Conns : HandlerStep(c)
      BY <2>5
    <3>2. stationGot' = stationGot
      BY <3>1, HandlerFrame DEF linkVars
    <3>3. CASE reply' = reply
      BY <2>3, <3>2, <3>3
    <3>4. CASE WaitReply(c)
      BY <2>1, <2>3, <3>2, <3>4 DEF WaitReply, TypeOK, JobTypes
    <3> QED BY <3>1, <3>3, <3>4, HandlerMoves
            DEF HandlerQuiet, ScanBlocked, ScanQueued, Callbacks, jobVars
  <2>6. CASE Surroundings
    <3>1. reply' = reply /\ Waiting' = Waiting
      BY <2>6, SurroundingsMoves, StreamStays
    <3>2. j = cur => rpc # "sent"
      BY <1>1, <3>1, StreamParts, StreamApart DEF Waiting
    <3> QED BY <2>3, <2>6, <3>1, <3>2, SurroundingsMoves
  <2>7. CASE \/ \E c \in Conns, k \in Kinds : PanelSend(c, k)
             \/ \E c \in Conns : Accept(c)
    BY <2>3, <2>7 DEF PanelSend, Accept, jobVars, linkVars
  <2> QED BY <2>4, <2>5, <2>6, <2>7, NextParts
<1>2. ASSUME rpc' = "sent"
      PROVE  cur' \in ValuesOf(forwarded') /\ reply'[cur'] = "empty"
  <2>1. CASE RelayStep
    <3>1. RelayWrite
      BY <1>2, <2>1, RelayMoves DEF RelayQuiet, RelayTake, RelayDone
    <3>2. reply[cur] = "empty" /\ cur' = cur /\ reply' = reply
      BY <3>1, StreamParts DEF RelayWrite, jobVars, Waiting
    <3> QED BY <3>1, <3>2, WrittenKeepsPlace
  <2>2. CASE rpc' = rpc /\ UNCHANGED <<cur, forwarded, reply>>
    BY <1>2, <2>2
  <2>3. CASE \E c \in Conns : HandlerStep(c)
    <3>1. PICK c \in Conns : HandlerStep(c)
      BY <2>3
    <3>2. rpc' = rpc /\ UNCHANGED <<cur, forwarded>>
      BY <3>1, HandlerFrame DEF relayVars
    <3>3. CASE WaitReply(c)
      BY <1>2, <3>2, <3>3 DEF WaitReply, TypeOK, JobTypes, RelayTypes
    <3> QED BY <2>2, <3>1, <3>2, <3>3, HandlerMoves
            DEF HandlerQuiet, ScanBlocked, ScanQueued, Callbacks, jobVars
  <2>4. CASE \/ \E c \in Conns, k \in Kinds : PanelSend(c, k)
             \/ \E c \in Conns : Accept(c)
             \/ Surroundings
    BY <2>2, <2>4, SurroundingsMoves DEF PanelSend, Accept, jobVars, relayVars
  <2> QED BY <2>1, <2>3, <2>4, NextParts
<1> QED BY <1>1, <1>2

-----------------------------------------------------------------------------
(* The journal's record.                                                   *)

(* A panel sends after what its handler is at.                             *)
LEMMA SentIsLater ==
  ASSUME TypeOK, FrameInv, NEW c \in Conns, NEW k \in Kinds, PanelSend(c, k),
         NEW j \in Jobs, j[2] <= got[j[1]]
  PROVE  kind'[j] = kind[j]
<1>1. j[1] \in Conns /\ j[2] \in Nat
  BY JobHasParts
<1>2. got[j[1]] <= sent[j[1]] /\ got[j[1]] \in Nat /\ sent[j[1]] \in Nat
  BY <1>1 DEF FrameInv, TypeOK, HandlerTypes, PanelTypes
<1>3. j # <<c, sent[c] + 1>>
  BY <1>1, <1>2
<1> QED BY <1>3 DEF PanelSend, TypeOK, PanelTypes

LEMMA AtWorkAtFrame ==
  ASSUME TypeOK, NEW c \in Conns, pc[c] \in AtWork
  PROVE  Job(c) \in Jobs /\ next[c] <= got[c]
BY JobIsJob DEF TypeOK, AtFrame, AtWork

(* Who comes to journal a message.                                         *)
LEMMA JournalStep ==
  ASSUME TypeOK, Next
  PROVE  journal' = journal \/ \E c \in Conns : Callbacks(c)
<1>1. CASE \E c \in Conns : HandlerStep(c)
  BY <1>1, HandlerMoves
  DEF HandlerQuiet, ScanBlocked, ScanQueued, WaitReply, jobVars
<1>2. CASE \/ \E c \in Conns, k \in Kinds : PanelSend(c, k)
           \/ \E c \in Conns : Accept(c)
           \/ RelayStep
           \/ Surroundings
  BY <1>2, RelayFrame
  DEF PanelSend, Accept, Surroundings, StationTake, LinkBreak, Cancel,
      CloseAllClients, RelayStop, SaveRule, SaveRuleDone, jobVars
<1> QED BY <1>1, <1>2, NextParts

LEMMA RecordStep ==
  ASSUME TypeOK, TypeOK', UpstreamInv, FrameInv, PathInv, Next
  PROVE  RecordInv'
<1> USE DEF PathInv, RecordInv
<1>1. ASSUME NEW d \in Conns, pc'[d] \in AtWork
      PROVE  /\ kind'[Job(d)'] \in Classes
             /\ pc'[d] # "ack" => journal'[Job(d)'] = "none"
  <2>1. CASE pc'[d] = pc[d] /\ next'[d] = next[d] /\ ~HandlerStep(d)
    <3>1. Job(d)' = Job(d) /\ Job(d) \in Jobs
          /\ Job(d)[1] = d /\ Job(d)[2] = next[d] /\ next[d] <= got[d]
      BY <1>1, <2>1, AtWorkAtFrame, JobParts DEF Job
    <3>2. kind'[Job(d)] = kind[Job(d)]
      <4>1. CASE \E c \in Conns, k \in Kinds : PanelSend(c, k)
        BY <3>1, <4>1, SentIsLater
      <4>2. CASE ~ \E c \in Conns, k \in Kinds : PanelSend(c, k)
        <5>1. kind' = kind
          BY <4>2, NextParts, HandlerFrame, RelayFrame, SurroundingsMoves
          DEF Accept, panelVars
        <5> QED BY <5>1
      <4> QED BY <4>1, <4>2
    <3>3. journal'[Job(d)] = journal[Job(d)]
      <4>1. CASE \E c \in Conns : Callbacks(c)
        <5>1. PICK c \in Conns : Callbacks(c)
          BY <4>1
        <5>2. c # d
          BY <2>1, <5>1 DEF HandlerStep
        <5>3. Job(c) # Job(d)
          BY <5>2, JobParts
        <5> QED BY <3>1, <5>1, <5>3 DEF Callbacks, TypeOK, JobTypes
      <4> QED BY <4>1, JournalStep
    <3> QED BY <1>1, <2>1, <3>1, <3>2, <3>3
  <2>2. CASE HandlerStep(d)
    <3>1. kind' = kind
      BY <2>2, HandlerFrame DEF panelVars
    <3>2. CASE ScanBlocked(d) \/ ScanQueued(d)
      <4>1. /\ Job(d)' = Job(d) /\ Job(d) \in Jobs /\ ~Begun(Job(d))
            /\ kind[Job(d)] \in Classes /\ journal' = journal
        BY <3>2, ScanningBegins
        DEF ScanBlocked, ScanQueued, Scanning, Job, TypeOK, RuleTypes, jobVars
      <4> QED BY <3>1, <4>1 DEF BegunInv
    <3>3. CASE HandlerQuiet(d)
      <4>1. pc[d] \in AtWork \ {"ack"} \/ pc[d] = pc'[d]
        BY <1>1, <3>3 DEF HandlerQuiet, AtWork
      <4>2. Job(d)' = Job(d) /\ journal' = journal
        BY <1>1, <3>3 DEF HandlerQuiet, AtWork, Job, jobVars
      <4> QED BY <1>1, <3>1, <4>1, <4>2
    <3>4. CASE WaitReply(d)
      <4>1. pc[d] = "wait" /\ Job(d)' = Job(d) /\ journal' = journal
        BY <3>4 DEF WaitReply, Job
      <4> QED BY <3>1, <4>1 DEF AtWork
    <3>5. CASE Callbacks(d)
      <4>1. pc[d] = "deliver" /\ Job(d)' = Job(d) /\ pc'[d] = "ack"
        BY <3>5 DEF Callbacks, Job, Goto, TypeOK, HandlerTypes
      <4> QED BY <3>1, <4>1 DEF AtWork
    <3> QED BY <2>2, <3>2, <3>3, <3>4, <3>5, HandlerMoves
  <2>3. (pc'[d] = pc[d] /\ next'[d] = next[d]) \/ HandlerStep(d)
    <3>1. CASE \E c \in Conns : HandlerStep(c)
      BY <3>1, HandlerStepOthers
    <3>2. CASE \E c \in Conns : Accept(c)
      BY <1>1, <3>2 DEF Accept, Goto, AtWork, TypeOK, HandlerTypes
    <3>3. CASE \/ \E c \in Conns, k \in Kinds : PanelSend(c, k)
               \/ RelayStep \/ Surroundings
      BY <3>3, RelayFrame, SurroundingsMoves DEF PanelSend, handlerVars
    <3> QED BY <3>1, <3>2, <3>3, NextParts
  <2> QED BY <2>1, <2>2, <2>3
<1>2. ASSUME NEW j \in Jobs, journal'[j] = "blocked"
      PROVE  exempt'[j] = "server"
  <2>1. CASE journal[j] = "blocked"
    <3>1. exempt[j] = "server" /\ Begun(j)
      BY <2>1 DEF BegunInv
    <3>2. CASE RelayStep /\ RelayDone
      <4>1. cur \in ValuesOf(Stream)
        BY <3>2, DoneLeavesStream
      <4>2. j # cur
        BY <3>1, <4>1 DEF BegunInv
      <4> QED BY <3>1, <3>2, <4>2 DEF RelayDone, TypeOK, JobTypes
    <3>3. CASE \E c \in Conns : ScanBlocked(c)
      BY <3>1, <3>3 DEF ScanBlocked, TypeOK, JobTypes
    <3> QED BY <3>1, <3>2, <3>3, ExemptStep
  <2>2. CASE journal[j] # "blocked"
    <3>1. PICK c \in Conns : Callbacks(c)
      BY <1>2, <2>2, JournalStep
    <3> QED BY <1>2, <2>2, <3>1 DEF Callbacks, TypeOK, JobTypes
  <2> QED BY <2>1, <2>2
<1> QED BY <1>1, <1>2

-----------------------------------------------------------------------------
(* The path's invariant, and what follows from it.                         *)
LEMMA PathInit ==
  ASSUME Init
  PROVE  PathInv
<1>1. Stream = <<>> /\ Waiting = {} /\ forwarded = <<>>
  <2>1. InHand = <<>> /\ forwarded = <<>> /\ queue = <<>>
    BY DEF Init, InHand
  <2> QED BY <2>1, ValuesOfEmpty DEF Stream, Waiting
<1>2. Ordered(<<>>)
  BY DEF Ordered
<1>3. BegunInv
  BY <1>1, ValuesOfEmpty DEF Init, BegunInv
<1>4. FreshInv /\ RecordInv
  BY <1>1 DEF Init, FreshInv, RecordInv, AtWork
<1> QED BY <1>1, <1>2, <1>3, <1>4 DEF PathInv

LEMMA PathNext ==
  ASSUME DeliveryInv, TypeOK', PathInv, [Next]_vars
  PROVE  PathInv'
<1> USE DEF DeliveryInv
<1>1. CASE Next
  <2>1. Ordered(Stream')
    BY <1>1, StreamStep
  <2>2. BegunInv' /\ FreshInv' /\ RecordInv'
    BY <1>1, BegunStep, FreshStep, RecordStep
  <2>3. Ordered(Stream)'
    BY <2>1 DEF Ordered
  <2> QED BY <2>2, <2>3 DEF PathInv
<1>2. CASE UNCHANGED vars
  <2>1. UNCHANGED <<forwarded, queue, rpc, cur, exempt, journal, reply, kind,
                    next, pc, stationGot>>
    BY <1>2 DEF vars, panelVars, handlerVars, jobVars, relayVars, linkVars
  <2>2. UNCHANGED <<Stream, Waiting>>
    BY <2>1, StreamStays
  <2>3. Ordered(Stream)'
    BY <2>2 DEF PathInv, Ordered
  <2>4. BegunInv'
    BY <2>1, <2>2 DEF PathInv, BegunInv, Begun
  <2>5. FreshInv'
    BY <2>1, <2>2 DEF PathInv, FreshInv
  <2>6. RecordInv'
    BY <2>1 DEF PathInv, RecordInv, Job
  <2> QED BY <2>3, <2>4, <2>5, <2>6 DEF PathInv
<1> QED BY <1>1, <1>2

LEMMA PathInvariant == Spec => [](DeliveryInv /\ PathInv)
<1>1. DeliveryInv => TypeOK
  BY DEF DeliveryInv
<1>2. DeliveryInv /\ TypeOK' /\ PathInv /\ [Next]_vars => PathInv'
  BY PathNext
<1> QED BY <1>1, <1>2, PathInit, DeliveryInvariant, PTL DEF Spec

(* RelayClient never waits for room in a reply channel: the message in its *)
(* hands has not been answered, whatever timed out or was refused before.  *)
THEOREM RelayIsNeverStuck == Spec => []RelayNeverBlocks
<1>1. DeliveryInv /\ PathInv => RelayNeverBlocks
  BY StreamParts DEF DeliveryInv, PathInv, FreshInv, RelayNeverBlocks, Waiting
<1> QED BY <1>1, PathInvariant, PTL

(* Each panel's messages are written upstream in the order in which the    *)
(* panel sent them, and none twice, through full queues, refusals, broken  *)
(* connections and bypasses.                                               *)
THEOREM WrittenOnceInOrder == Spec => []ForwardedOnceInOrder
<1>1. DeliveryInv /\ PathInv => ForwardedOnceInOrder
  <2> SUFFICES ASSUME DeliveryInv, PathInv PROVE ForwardedOnceInOrder
    OBVIOUS
  <2>1. /\ forwarded \in Seq(Jobs) /\ InHand \in Seq(Jobs)
        /\ queue \in Seq(Jobs) /\ <<>> \in Seq(Jobs)
    BY StreamParts DEF DeliveryInv
  <2> DEFINE rest == InHand \o queue
  <2>2. rest \in Seq(Jobs) /\ Stream = forwarded \o rest
    BY <2>1, ConcatTwice DEF Stream
  <2> HIDE DEF rest
  <2>3. /\ \A i \in 1 .. Len(forwarded) :
             i \in 1 .. Len(Stream) /\ Stream[i] = forwarded[i]
        /\ DOMAIN forwarded = 1 .. Len(forwarded)
    BY <2>1, <2>2, ConcatProperties, LenProperties
  <2> QED BY <2>3 DEF PathInv, Ordered, ForwardedOnceInOrder
<1> QED BY <1>1, PathInvariant, PTL

(* A message that the journal shows as kept from the station by the filter *)
(* was never queued, written upstream or accepted, though the rule changes *)
(* in the server first and in the relay client later.                      *)
THEOREM BlockedIsNeverSent == Spec => []BlockedNeverSent
<1>1. DeliveryInv /\ PathInv => BlockedNeverSent
  BY StreamParts
  DEF DeliveryInv, PathInv, BegunInv, RecordInv, BlockedNeverSent, Waiting
<1> QED BY <1>1, PathInvariant, PTL

-----------------------------------------------------------------------------
(* The accepted counter.                                                   *)

(* The counter counts a positive verdict, and nothing else.                *)
Accepting == RelayRead /\ Head(back).ok

LEMMA AcceptedStep ==
  ASSUME TypeOK, Next
  PROVE  /\ Accepting => stats'.accepted = stats.accepted + 1
         /\ ~Accepting => stats'.accepted = stats.accepted
         /\ stats.accepted \in Nat
<1> USE DEF TypeOK, StatTypes
<1>1. CASE RelayStep
  BY <1>1 DEF RelayStep, RelayTop, RelayDial, RelayDialFail, RelayBackoff,
     RelayIdleCancelled, RelayTake, RelayBypass, RelayWrite, RelayWriteFail,
     RelayRead, RelayReadFail, Accepting
<1>2. CASE \E c \in Conns : HandlerStep(c)
  <2>1. PICK c \in Conns : HandlerStep(c)
    BY <1>2
  <2>2. stats'.accepted = stats.accepted
    BY <2>1, HandlerMoves
    DEF HandlerQuiet, ScanBlocked, ScanQueued, WaitReply, Callbacks
  <2>3. ~Accepting
    <3>1. stationGot' = stationGot /\ rpc' = rpc
      BY <2>1, HandlerFrame DEF linkVars, relayVars
    <3> QED BY <3>1 DEF Accepting, RelayRead
  <2> QED BY <2>2, <2>3
<1>3. CASE \/ \E c \in Conns, k \in Kinds : PanelSend(c, k)
           \/ \E c \in Conns : Accept(c)
           \/ Surroundings
  <2>1. stats' = stats /\ rpc' = rpc
    BY <1>3
    DEF PanelSend, Accept, Surroundings, StationTake, LinkBreak, Cancel,
        CloseAllClients, RelayStop, SaveRule, SaveRuleDone, relayVars
  <2> QED BY <2>1 DEF Accepting, RelayRead
<1> QED BY <1>1, <1>2, <1>3, NextParts

(* No promise is made but with a positive verdict of the station.          *)
LEMMA PromisedStep ==
  ASSUME DeliveryInv, PathInv, Next
  PROVE  Promised' \subseteq
           Promised \cup (IF Accepting THEN {cur} ELSE {})
<1> USE DEF DeliveryInv
<1>1. SUFFICES ASSUME NEW j \in Promised', j \notin Promised
               PROVE  Accepting /\ j = cur
  OBVIOUS
<1>2. /\ j \in Jobs /\ j[1] \in Conns /\ exempt'[j] = "no"
      /\ \/ answer'[j] = "ack" /\ kind'[j] \in Classes
         \/ reply'[j] = "ok"
         \/ pc'[j[1]] \in {"deliver", "ack"} /\ j = Job(j[1])'
  BY <1>1, JobHasParts DEF Promised
<1>3. exempt[j] = "no"
  BY <1>2, HandledStays, ExemptStep
  DEF ScanBlocked, RelayDone, TypeOK, JobTypes
<1>4. /\ ~(answer[j] = "ack" /\ kind[j] \in Classes) /\ reply[j] # "ok"
      /\ ~(pc[j[1]] \in {"deliver", "ack"} /\ j = Job(j[1]))
  BY <1>1, <1>2, <1>3 DEF Promised
<1>5. CASE UNCHANGED <<answer, kind, reply, pc, next>>
  BY <1>2, <1>4, <1>5 DEF Job
<1>6. CASE \E c \in Conns, k \in Kinds : PanelSend(c, k)
  <2>1. PICK c \in Conns, k \in Kinds : PanelSend(c, k)
    BY <1>6
  <2>2. UNCHANGED <<answer, reply, pc, next>>
    BY <2>1 DEF PanelSend, handlerVars, jobVars
  <2>3. answer[j] # "none" => kind'[j] = kind[j]
    <3>1. answer[j] # "none" => j[2] <= got[j[1]]
      BY <1>2, JobHasParts DEF FrameInv, TypeOK, HandlerTypes
    <3> QED BY <1>2, <2>1, <3>1, SentIsLater
  <2> QED BY <1>2, <1>4, <2>2, <2>3 DEF Job
<1>7. CASE RelayStep
  <2>1. UNCHANGED <<answer, kind, pc, next>>
    BY <1>7, RelayFrame DEF panelVars, handlerVars
  <2>2. reply'[j] = "ok"
    BY <1>2, <1>4, <2>1 DEF Job
  <2>3. CASE RelayRead
    BY <1>2, <1>4, <2>2, <2>3
    DEF RelayRead, SendReply, Accepting, TypeOK, JobTypes
  <2>4. CASE RelayBypass
    <3>1. j = cur
      BY <1>2, <1>4, <2>2, <2>4 DEF RelayBypass, SendReply, TypeOK, JobTypes
    <3> QED BY <1>2, <2>4, <3>1 DEF RelayBypass, TypeOK, JobTypes
  <2>5. CASE RelayWriteFail \/ RelayReadFail
    BY <1>2, <1>4, <2>2, <2>5
    DEF RelayWriteFail, RelayReadFail, SendReply, TypeOK, JobTypes
  <2> QED
    BY <1>4, <1>7, <2>2, <2>3, <2>4, <2>5
    DEF RelayStep, RelayTop, RelayDial, RelayDialFail, RelayBackoff,
        RelayIdleCancelled, RelayTake, RelayWrite, jobVars
<1>8. CASE \E c \in Conns : HandlerStep(c)
  <2>1. PICK c \in Conns : HandlerStep(c)
    BY <1>8
  <2>2. kind' = kind
    BY <2>1, HandlerFrame DEF panelVars
  <2>3. reply'[j] # "ok"
    <3>1. CASE WaitReply(c)
      BY <1>2, <1>4, <3>1 DEF WaitReply, TypeOK, JobTypes
    <3> QED
      BY <1>4, <2>1, <3>1, HandlerMoves
      DEF HandlerQuiet, ScanBlocked, ScanQueued, Callbacks, jobVars
  <2>4. CASE j[1] # c
    <3>1. j # Job(c) /\ pc'[j[1]] = pc[j[1]] /\ next'[j[1]] = next[j[1]]
      BY <1>2, <2>1, <2>4, HandlerStepOthers, JobParts
    <3>2. answer'[j] = answer[j]
      BY <1>2, <2>1, <3>1, AnswerStep DEF TypeOK, HandlerTypes
    <3> QED BY <1>2, <1>4, <2>2, <2>3, <3>1, <3>2 DEF Job
  <2>5. CASE j[1] = c
    <3>1. CASE ScanBlocked(c)
      <4>1. j # Job(c)
        BY <1>2, <3>1 DEF ScanBlocked, TypeOK, JobTypes
      <4> QED BY <1>2, <1>4, <2>2, <2>3, <2>5, <3>1, <4>1
              DEF ScanBlocked, Job
    <3>2. CASE WaitReply(c)
      <4>1. Job(c)' = Job(c) /\ answer' = answer
        BY <3>2 DEF WaitReply, Job
      <4>2. j = Job(c) /\ pc'[c] \in {"deliver", "ack"}
        BY <1>2, <1>4, <2>2, <2>3, <2>5, <4>1
      <4>3. reply[Job(c)] = "ok"
        BY <3>2, <4>2 DEF WaitReply, Goto, TypeOK, HandlerTypes
      <4> QED BY <1>4, <4>2, <4>3
    <3>3. CASE Callbacks(c)
      <4>1. Job(c)' = Job(c) /\ answer' = answer /\ pc[c] = "deliver"
        BY <3>3 DEF Callbacks, Job
      <4> QED BY <1>2, <1>4, <2>2, <2>3, <2>5, <4>1
    <3>4. CASE ScanQueued(c)
      BY <1>2, <1>4, <2>2, <2>3, <2>5, <3>4
      DEF ScanQueued, Goto, TypeOK, HandlerTypes
    <3>5. CASE HandlerQuiet(c)
      <4>1. pc'[c] \in {"deliver", "ack"} => Job(c)' = Job(c) /\ pc'[c] = pc[c]
        BY <3>5 DEF HandlerQuiet, Job
      <4>2. answer'[j] = "ack" /\ kind[j] \in Classes /\ answer[j] # "ack"
        BY <1>2, <1>4, <2>2, <2>3, <2>5, <4>1
      <4>3. j = Job(c)
        BY <1>2, <2>1, <4>2, AnswerStep DEF TypeOK, HandlerTypes
      <4>4. CASE ScanControl(c)
        BY <4>2, <4>3, <4>4, NamesAssumption DEF ScanControl, Scanning, Control
      <4>5. CASE SendAnswer(c)
        BY <1>2, <1>4, <2>5, <4>2, <4>3, <4>5
        DEF SendAnswer, Respond, TypeOK, HandlerTypes
      <4> QED
        BY <2>1, <4>2, <4>4, <4>5
        DEF HandlerStep, TrackConn, LoopTop, Read, ReadFail, ScanDone,
            ScanOverlong, ScanBlocked, ScanQueued, WaitReply, WaitTimeout,
            WaitCancelled, GiveUp, Callbacks
    <3> QED BY <2>1, <3>1, <3>2, <3>3, <3>4, <3>5, HandlerMoves
  <2> QED BY <2>4, <2>5
<1>9. CASE \E c \in Conns : Accept(c)
  BY <1>2, <1>4, <1>9
  DEF Accept, Goto, Job, panelVars, jobVars, TypeOK, HandlerTypes
<1>10. CASE Surroundings
  BY <1>5, <1>10, SurroundingsMoves
<1> QED BY <1>6, <1>7, <1>8, <1>9, <1>10, NextParts

(* What the station has stays counted for, and a verdict adds its message. *)
LEMMA CountedStep ==
  ASSUME DeliveryInv, PathInv, Next
  PROVE  /\ Counted \cup (IF Accepting THEN {cur} ELSE {}) \subseteq Counted'
         /\ Accepting => cur \notin Counted
<1> USE DEF DeliveryInv, Counted, Settling
<1>1. stationGot \subseteq stationGot'
  BY StationStep DEF PathInv
<1>2. CASE RelayStep
  <2>1. CASE RelayTake
    <3>1. cur' \in Waiting
      BY <2>1, StreamParts, HeadAndTail DEF RelayTake, Waiting
    <3> QED
      BY <1>1, <2>1, <3>1 DEF RelayTake, RelayRead, Accepting, PathInv, FreshInv
  <2>2. CASE Accepting
    BY <1>1, <2>2 DEF Accepting, RelayRead, UpstreamInv
  <2>3. CASE ~RelayTake /\ ~Accepting
    <3>1. Settling' \subseteq Settling
      BY <1>2, <2>3, RelayMoves DEF RelayQuiet, RelayWrite, RelayDone
    <3> QED BY <1>1, <2>3, <3>1
  <2> QED BY <2>1, <2>2, <2>3
<1>3. CASE rpc' = rpc /\ cur' = cur
  BY <1>1, <1>3 DEF Accepting, RelayRead
<1>4. CASE \/ \E c \in Conns, k \in Kinds : PanelSend(c, k)
           \/ \E c \in Conns : Accept(c)
           \/ \E c \in Conns : HandlerStep(c)
           \/ Surroundings
  BY <1>3, <1>4, HandlerFrame, SurroundingsMoves
  DEF PanelSend, Accept, relayVars
<1> QED BY <1>2, <1>4, NextParts

LEMMA CountStep ==
  ASSUME DeliveryInv, PathInv, CountInv, [Next]_vars
  PROVE  CountInv'
<1> USE DEF CountInv
<1>1. CASE Next
  <2> DEFINE more == IF Accepting THEN {cur} ELSE {}
             step == IF Accepting THEN 1 ELSE 0
  <2>1. /\ stats'.accepted = stats.accepted + step
        /\ stats.accepted \in Nat /\ step \in Nat
    BY <1>1, AcceptedStep DEF DeliveryInv
  <2>2. Promised' \subseteq Promised \cup more
    BY <1>1, PromisedStep
  <2>3. /\ IsFiniteSet(Promised \cup more)
        /\ Cardinality(Promised \cup more) <= Cardinality(Promised) + step
        /\ Cardinality(Promised) \in Nat
    <3>1. IsFiniteSet(Promised) /\ Cardinality(Promised) \in Nat
      BY FS_CardinalityType
    <3>2. CASE Accepting
      <4>1. /\ IsFiniteSet(Promised \cup {cur})
            /\ Cardinality(Promised \cup {cur})
                 \in {Cardinality(Promised), Cardinality(Promised) + 1}
        BY <3>1, FS_AddElement, Zenon
      <4> QED BY <3>1, <3>2, <4>1
    <3>3. CASE ~Accepting
      BY <3>1, <3>3
    <3> QED BY <3>1, <3>2, <3>3
  <2>4. IsFiniteSet(Promised') /\ Cardinality(Promised') <= stats'.accepted
    BY <2>1, <2>2, <2>3, FS_Subset, FS_CardinalityType
  <2>5. IsFiniteSet(stationGot')
    BY <1>1, StationStep, FS_AddElement DEF DeliveryInv, PathInv
  <2>6. IsFiniteSet(Counted') /\ IsFiniteSet(Counted)
    BY <2>5, FS_Subset DEF Counted
  <2>7. Counted \cup more \subseteq Counted' /\ (Accepting => cur \notin Counted)
    BY <1>1, CountedStep
  <2>8. /\ IsFiniteSet(Counted \cup more)
        /\ Cardinality(Counted \cup more) = Cardinality(Counted) + step
        /\ Cardinality(Counted) \in Nat
    <3>1. CASE Accepting
      BY <2>6, <2>7, <3>1, FS_AddElement, FS_CardinalityType
    <3>2. CASE ~Accepting
      BY <2>6, <3>2, FS_CardinalityType
    <3> QED BY <3>1, <3>2
  <2>9. stats'.accepted <= Cardinality(Counted')
    BY <2>1, <2>6, <2>7, <2>8, FS_Subset, FS_CardinalityType
  <2> QED BY <2>4, <2>5, <2>9
<1>2. CASE UNCHANGED vars
  <2>1. UNCHANGED <<stats, Promised, Counted, stationGot>>
    BY <1>2
    DEF vars, panelVars, handlerVars, jobVars, relayVars, linkVars, Promised,
        Counted, Settling, Job
  <2> QED BY <2>1
<1> QED BY <1>1, <1>2

(* What the operator reads as accepted is never less than the panels were  *)
(* told and never more than the station has, and this at every moment and  *)
(* not only when nothing is on its way.                                    *)
THEOREM AcceptedIsHonest == Spec => []AcceptedCountHonest
<1>1. Init => CountInv
  <2> SUFFICES ASSUME Init PROVE CountInv
    OBVIOUS
  <2>1. Promised = {} /\ stationGot = {} /\ Counted = {} /\ stats.accepted = 0
    BY JobHasParts DEF Init, Promised, Counted
  <2> QED BY <2>1, FS_EmptySet DEF CountInv
<1>2. CountInv /\ DeliveryInv /\ PathInv /\ [Next]_vars => CountInv'
  BY CountStep
<1>3. CountInv /\ DeliveryInv => AcceptedCountHonest
  <2> SUFFICES ASSUME CountInv, TypeOK PROVE AcceptedCountHonest
    BY DEF DeliveryInv
  <2> DEFINE told == {j \in Jobs : answer[j] = "ack" /\ kind[j] \in Classes
                                   /\ exempt[j] = "no"}
  <2>1. told \subseteq Promised /\ Counted \subseteq stationGot
    BY DEF Promised, Counted
  <2>2. /\ IsFiniteSet(told) /\ Cardinality(told) <= Cardinality(Promised)
        /\ IsFiniteSet(Counted) /\ Cardinality(Counted) <= Cardinality(stationGot)
    BY <2>1, FS_Subset DEF CountInv
  <2>3. /\ Cardinality(told) \in Nat /\ Cardinality(Promised) \in Nat
        /\ Cardinality(Counted) \in Nat /\ Cardinality(stationGot) \in Nat
        /\ stats.accepted \in Nat
    BY <2>2, FS_CardinalityType DEF CountInv, TypeOK, StatTypes
  <2> HIDE DEF told
  <2>4. Cardinality(told) <= stats.accepted
        /\ stats.accepted <= Cardinality(stationGot)
    BY <2>2, <2>3 DEF CountInv
  <2> QED BY <2>4 DEF told, AcceptedCountHonest
<1> QED BY <1>1, <1>2, <1>3, PathInvariant, PTL DEF Spec

-----------------------------------------------------------------------------
(* The contract with the panel.                                            *)

(* A frame the handler has not passed has no answer.                       *)
LEMMA AnsweredIsPassed ==
  ASSUME DeliveryInv, NEW j \in Jobs, answer[j] # "none"
  PROVE  Begun(j) /\ j[2] < next[j[1]]
BY DEF DeliveryInv, FrameInv, Begun

(* The message that comes to the station is not exempt.                    *)
LEMMA DeliverImplements ==
  ASSUME DeliveryInv, PathInv, cur \in ValuesOf(Stream),
         stationGot' = stationGot \cup {cur},
         UNCHANGED <<exempt, journal, EventAnswer>>
  PROVE  Contract!Next
<1>1. cur \in Jobs /\ exempt[cur] = "no"
  BY StreamParts DEF DeliveryInv, PathInv, BegunInv
<1>2. Contract!Deliver(cur)
  BY <1>1 DEF Contract!Deliver
<1> QED BY <1>1, <1>2 DEF Contract!Next

(* A filter exempts what is neither delivered, exempt nor acknowledged.    *)
LEMMA ExemptImplements ==
  ASSUME NEW j \in Jobs, NEW by \in {"server", "relay"},
         j \notin stationGot, exempt[j] = "no", EventAnswer[j] # "ack",
         exempt' = [exempt EXCEPT ![j] = by],
         UNCHANGED <<stationGot, journal, EventAnswer>>
  PROVE  Contract!Next
<1>1. Contract!Exempt(j, by)
  BY DEF Contract!Exempt, Contract!Settled
<1> QED BY <1>1 DEF Contract!Next

LEMMA EventAnswerStays ==
  ASSUME UNCHANGED <<kind, answer>>
  PROVE  EventAnswer' = EventAnswer
BY DEF EventAnswer

LEMMA RelayImplements ==
  ASSUME DeliveryInv, PathInv, RelayStep
  PROVE  [Contract!Next]_Contract!vars
<1> USE DEF DeliveryInv
<1>1. journal' = journal /\ EventAnswer' = EventAnswer
  BY RelayFrame, EventAnswerStays DEF panelVars, handlerVars
<1>2. CASE RelayQuiet \/ RelayTake \/ RelayWrite
  <2>1. UNCHANGED <<stationGot, exempt>>
    BY <1>2 DEF RelayQuiet, RelayTake, RelayWrite, jobVars, linkVars
  <2> QED BY <1>1, <2>1 DEF Contract!vars
<1>3. CASE RelayDone
  <2>1. cur \in ValuesOf(Stream) /\ cur \in Jobs
    BY <1>3, StreamParts DEF RelayDone, PathInv, FreshInv, Waiting
  <2>2. CASE exempt' = exempt /\ stationGot' = stationGot
    BY <1>1, <2>2 DEF Contract!vars
  <2>3. CASE exempt' = exempt /\ stationGot' = stationGot \cup {cur}
    BY <1>1, <2>1, <2>3, DeliverImplements
  <2>4. CASE /\ rpc = "took" /\ exempt' = [exempt EXCEPT ![cur] = "relay"]
             /\ stationGot' = stationGot
    <3>1. cur \notin stationGot /\ exempt[cur] = "no"
      BY <2>1, <2>4, StreamParts DEF PathInv, FreshInv, BegunInv, Waiting
    <3>2. EventAnswer[cur] # "ack"
      BY <2>1, <3>1 DEF EventAnswer, AckMeansHandled
    <3> QED BY <1>1, <2>1, <2>4, <3>1, <3>2, ExemptImplements
  <2> QED BY <1>3, <2>2, <2>3, <2>4 DEF RelayDone
<1> QED BY <1>2, <1>3, RelayMoves

LEMMA HandlerImplements ==
  ASSUME DeliveryInv, PathInv, NEW c \in Conns, HandlerStep(c)
  PROVE  [Contract!Next]_Contract!vars
<1> USE DEF DeliveryInv
<1>1. kind' = kind /\ stationGot' = stationGot
  BY HandlerFrame DEF panelVars, linkVars
<1>2. Job(c)[1] = c /\ Job(c)[2] = next[c]
  BY JobParts
<1>3. Job(c) \in Jobs => answer[Job(c)] = "none" /\ EventAnswer[Job(c)] = "none"
  <2>1. next[c] \in Nat
    BY DEF TypeOK, HandlerTypes
  <2> QED BY <1>2, <2>1, AnsweredIsPassed DEF EventAnswer
<1>4. CASE UNCHANGED <<answer, exempt, journal>>
  BY <1>1, <1>4, EventAnswerStays DEF Contract!vars
<1>5. CASE ScanBlocked(c)
  <2>1. /\ Job(c) \in Jobs /\ Job(c) \notin stationGot
        /\ exempt[Job(c)] = "no"
    BY <1>5, ScanningBegins DEF PathInv, BegunInv
  <2>2. /\ UNCHANGED <<journal, EventAnswer>>
        /\ exempt' = [exempt EXCEPT ![Job(c)] = "server"]
    BY <1>1, <1>5, EventAnswerStays DEF ScanBlocked
  <2> QED BY <1>1, <1>3, <2>1, <2>2, ExemptImplements
<1>6. CASE Callbacks(c)
  <2>1. /\ Job(c) \in Jobs /\ pc[c] = "deliver"
        /\ UNCHANGED <<exempt, EventAnswer>>
    BY <1>1, <1>6, AtWorkAtFrame, EventAnswerStays DEF Callbacks, AtWork
  <2>2. Handled(Job(c)) /\ journal[Job(c)] = "none"
    BY <2>1 DEF HandlerInv, PathInv, RecordInv, AtWork
  <2>3. Contract!Record(Job(c))
    BY <1>1, <1>3, <1>6, <2>1, <2>2
    DEF Callbacks, Contract!Record, Contract!Settled, Handled
  <2> QED BY <2>1, <2>3 DEF Contract!Next
<1>7. CASE SendAnswer(c)
  <2> DEFINE j == Job(c)
  <2>1. UNCHANGED <<exempt, journal>> /\ pc[c] \in AtWork /\ j \in Jobs
    BY <1>7, AtWorkAtFrame DEF SendAnswer, jobVars, AtWork
  <2>2. /\ pc[c] = "ack" => journal[j] # "none"
        /\ pc[c] = "nack" => journal[j] = "none"
        /\ kind[j] \in Classes
    BY <2>1 DEF HandlerInv, PathInv, RecordInv
  <2>3. CASE answer' = answer
    BY <1>4, <2>1, <2>3
  <2>4. CASE answer' = [answer EXCEPT ![j] = pc[c]]
    <3>1. EventAnswer' = [EventAnswer EXCEPT ![j] = pc[c]]
      BY <1>1, <2>1, <2>2, <2>4 DEF EventAnswer, TypeOK, HandlerTypes
    <3>2. CASE pc[c] = "ack"
      <4>1. Contract!Acknowledge(j)
        BY <1>1, <1>3, <2>1, <2>2, <3>1, <3>2 DEF Contract!Acknowledge
      <4> QED BY <2>1, <4>1 DEF Contract!Next
    <3>3. CASE pc[c] = "nack"
      <4>1. Contract!Refuse(j)
        BY <1>1, <1>3, <2>1, <2>2, <3>1, <3>3 DEF Contract!Refuse
      <4> QED BY <2>1, <4>1 DEF Contract!Next
    <3> QED BY <1>7, <3>2, <3>3 DEF SendAnswer
  <2> QED BY <1>7, <2>3, <2>4 DEF SendAnswer, Respond
<1>8. CASE ScanControl(c)
  <2>1. Job(c) \in Jobs /\ kind[Job(c)] \notin Classes
    BY <1>8, JobIsJob, NamesAssumption DEF ScanControl, Scanning, Control
  <2>2. \A j \in Jobs : j # Job(c) => answer'[j] = answer[j]
    BY <1>8, AnswerStep DEF TypeOK, HandlerTypes
  <2>3. EventAnswer' = EventAnswer
    BY <1>1, <2>1, <2>2 DEF EventAnswer
  <2> QED BY <1>1, <1>8, <2>3 DEF ScanControl, jobVars, Contract!vars
<1> QED
  BY <1>4, <1>5, <1>6, <1>7, <1>8
  DEF HandlerStep, TrackConn, LoopTop, Read, ReadFail, ScanDone, ScanOverlong,
      ScanQueued, WaitReply, WaitTimeout, WaitCancelled, GiveUp, jobVars

(* The delivery path implements the contract with the panel: a message is  *)
(* exempted before it is delivered or acknowledged, journaled once and     *)
(* truly, and acknowledged only then; what is refused is never journaled.  *)
THEOREM RelayImplementsContract == Spec => ImplementsContract
<1>1. Init => Contract!Init
  <2> SUFFICES ASSUME Init PROVE Contract!Init
    OBVIOUS
  <2>1. EventAnswer = [j \in Jobs |-> "none"]
    BY DEF Init, EventAnswer
  <2> QED BY <2>1 DEF Init, Contract!Init
<1>2. (DeliveryInv /\ PathInv) /\ [Next]_vars => [Contract!Next]_Contract!vars
  <2> SUFFICES ASSUME DeliveryInv, PathInv, [Next]_vars
               PROVE  [Contract!Next]_Contract!vars
    OBVIOUS
  <2>1. CASE UNCHANGED <<kind, answer, exempt, journal, stationGot>>
    BY <2>1, EventAnswerStays DEF Contract!vars
  <2>2. CASE UNCHANGED vars
    BY <2>1, <2>2 DEF vars, panelVars, handlerVars, jobVars, linkVars
  <2>3. CASE \E c \in Conns, k \in Kinds : PanelSend(c, k)
    <3>1. PICK c \in Conns, k \in Kinds : PanelSend(c, k)
      BY <2>3
    <3>2. UNCHANGED <<answer, exempt, journal, stationGot>>
      BY <3>1 DEF PanelSend, handlerVars, jobVars, linkVars
    <3>3. ASSUME NEW j \in Jobs, answer[j] # "none"
          PROVE  kind'[j] = kind[j]
      <4>1. j[2] <= got[j[1]]
        BY <3>3, AnsweredIsPassed, JobHasParts
        DEF DeliveryInv, FrameInv, TypeOK, HandlerTypes
      <4> QED BY <3>1, <4>1, SentIsLater DEF DeliveryInv
    <3>4. EventAnswer' = EventAnswer
      BY <3>2, <3>3 DEF EventAnswer
    <3> QED BY <3>2, <3>4 DEF Contract!vars
  <2>4. CASE \E c \in Conns : Accept(c)
    BY <2>1, <2>4 DEF Accept, panelVars, jobVars, linkVars
  <2>5. CASE \E c \in Conns : HandlerStep(c)
    BY <2>5, HandlerImplements
  <2>6. CASE RelayStep
    BY <2>6, RelayImplements
  <2>7. CASE Surroundings
    <3>1. /\ UNCHANGED <<kind, answer, exempt, journal>>
          /\ \/ stationGot' = stationGot
             \/ rpc = "sent" /\ stationGot' = stationGot \cup {cur}
      BY <2>7, SurroundingsMoves DEF DeliveryInv
    <3>2. rpc = "sent" => cur \in ValuesOf(Stream)
      BY StreamParts DEF DeliveryInv, PathInv, FreshInv
    <3> QED BY <2>1, <3>1, <3>2, EventAnswerStays, DeliverImplements
  <2> QED BY <2>2, <2>3, <2>4, <2>5, <2>6, <2>7, NextParts
<1> QED
  BY <1>1, <1>2, PathInvariant, PTL DEF Spec, ImplementsContract, Contract!Spec
=============================================================================
