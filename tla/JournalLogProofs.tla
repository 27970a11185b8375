------------------------- MODULE JournalLogProofs --------------------------
(***************************************************************************)
(* Proofs about module Journal, for every number of handlers and every     *)
(* size of queue, batch and drain: an event is lost only for a known       *)
(* cause, the subscribers and the database agree, and the journal          *)
(* implements the lossy log.                                               *)
(***************************************************************************)
EXTENDS JournalProofs

(* A handler that goes round the full queue has seen it overflow, and the  *)
(* writer begins its drain and its last flush only in a cancelled run.     *)
CausesKnown ==
  /\ \A h \in Handlers : hpc[h] # "idle" => overflowed
  /\ wpc = "drain" => cancelled
  /\ wpc \in {"batch", "each"} /\ then = "done" => cancelled

(* What the writer has taken off the queue and not given up.               *)
Taken ==
  ((ValuesOf(stored) \cup ValuesOf(toSave)) \cup ValuesOf(batch))
    \cup ValuesOf(Held)
Batched == (ValuesOf(stored) \cup ValuesOf(toSave)) \cup ValuesOf(batch)
Hand == IF Holding THEN {cur} ELSE {}

ShownIsTaken == emitted \cup Hand \subseteq Taken \/ refused \/ cancelled
BatchedIsShown == Batched \subseteq emitted \cup Hand \/ cancelled

LossInv ==
  CausesKnown /\ LossNeedsCause /\ ShownIsTaken /\ BatchedIsShown

(* One handler alone finds room for the event it displaced another for.    *)
LoneHandler == \A g, h \in Handlers : g = h
RoomWasMade ==
  LoneHandler =>
    dropped = 0 /\ \A h \in Handlers : hpc[h] = "again" => Len(queue) < QueueSize

-----------------------------------------------------------------------------
(* The values of sequences.                                                *)
LEMMA ValuesAreElements ==
  ASSUME NEW s \in Seq(Events)
  PROVE  ValuesOf(s) = {s[i] : i \in 1 .. Len(s)} /\ Len(s) \in Nat
BY LenProperties DEF ValuesOf

LEMMA ValuesOfEmpty == ValuesOf(<<>>) = {}
<1>1. <<>> \in Seq(Events) /\ Len(<<>>) = 0
  BY EmptySeq
<1>2. ValuesOf(<<>>) = {<<>>[i] : i \in 1 .. Len(<<>>)}
  BY <1>1, ValuesAreElements, Zenon
<1>3. 1 .. Len(<<>>) = {}
  BY <1>1
<1> QED BY <1>2, <1>3, Zenon

LEMMA ValuesOfConcat ==
  ASSUME NEW s \in Seq(Events), NEW t \in Seq(Events)
  PROVE  ValuesOf(s \o t) = ValuesOf(s) \cup ValuesOf(t)
<1> DEFINE u == s \o t
<1>1. /\ u \in Seq(Events) /\ Len(u) = Len(s) + Len(t)
      /\ Len(s) \in Nat /\ Len(t) \in Nat
      /\ \A i \in 1 .. Len(s) : i \in 1 .. Len(u) /\ u[i] = s[i]
      /\ \A i \in 1 .. Len(t) :
           i + Len(s) \in 1 .. Len(u) /\ u[i + Len(s)] = t[i]
      /\ \A i \in 1 .. Len(u) :
           \/ i \in 1 .. Len(s) /\ u[i] = s[i]
           \/ i - Len(s) \in 1 .. Len(t) /\ u[i] = t[i - Len(s)]
  BY ConcatProperties, LenProperties
<1> HIDE DEF u
<1>2. /\ ValuesOf(s) = {s[i] : i \in 1 .. Len(s)}
      /\ ValuesOf(t) = {t[i] : i \in 1 .. Len(t)}
      /\ ValuesOf(u) = {u[i] : i \in 1 .. Len(u)}
  BY <1>1, ValuesAreElements
<1>3. ValuesOf(u) \subseteq ValuesOf(s) \cup ValuesOf(t)
  BY <1>1, <1>2
<1>4. ValuesOf(s) \subseteq ValuesOf(u) /\ ValuesOf(t) \subseteq ValuesOf(u)
  BY <1>1, <1>2
<1> QED BY <1>3, <1>4 DEF u

LEMMA ValuesOfOne == \A e : ValuesOf(<<e>>) = {e}
BY DEF ValuesOf

LEMMA ValuesOfAppend ==
  ASSUME NEW s \in Seq(Events), NEW e \in Events
  PROVE  ValuesOf(Append(s, e)) = ValuesOf(s) \cup {e}
<1>1. Append(s, e) = s \o <<e>> /\ <<e>> \in Seq(Events)
  BY AppendIsConcat
<1> QED BY <1>1, ValuesOfConcat, ValuesOfOne

LEMMA ValuesOfTail ==
  ASSUME NEW s \in Seq(Events), s # <<>>
  PROVE  ValuesOf(s) = {Head(s)} \cup ValuesOf(Tail(s))
<1>1. /\ s = <<Head(s)>> \o Tail(s)
      /\ <<Head(s)>> \in Seq(Events) /\ Tail(s) \in Seq(Events)
  BY MoveHead, EmptySeq
<1>2. ValuesOf(<<Head(s)>> \o Tail(s)) = ValuesOf(<<Head(s)>>) \cup ValuesOf(Tail(s))
  BY <1>1, ValuesOfConcat
<1> QED BY <1>1, <1>2, ValuesOfOne

LEMMA ValuesOfFour ==
  ASSUME NEW s \in Seq(Events), NEW t \in Seq(Events),
         NEW u \in Seq(Events), NEW v \in Seq(Events)
  PROVE  ValuesOf(s \o t \o u \o v)
           = ((ValuesOf(s) \cup ValuesOf(t)) \cup ValuesOf(u)) \cup ValuesOf(v)
<1>1. s \o t \in Seq(Events)
  BY ConcatProperties
<1>2. (s \o t) \o u \in Seq(Events)
  BY <1>1, ConcatProperties
<1>3. /\ ValuesOf(s \o t) = ValuesOf(s) \cup ValuesOf(t)
      /\ ValuesOf((s \o t) \o u) = ValuesOf(s \o t) \cup ValuesOf(u)
      /\ ValuesOf(((s \o t) \o u) \o v)
           = ValuesOf((s \o t) \o u) \cup ValuesOf(v)
  BY <1>1, <1>2, ValuesOfConcat
<1> QED BY <1>3

(* What the journal keeps is what the writer has taken and the queue.      *)
LEMMA KeptIsTakenOrQueued ==
  ASSUME TypeOK, TypeOK'
  PROVE  /\ Kept = Taken \cup ValuesOf(queue)
         /\ Kept' = Taken' \cup ValuesOf(queue')
<1>1. /\ toSave \in Seq(Events) /\ batch \in Seq(Events)
      /\ Held \in Seq(Events) /\ queue \in Seq(Events)
  BY Segments
<1>2. /\ toSave' \in Seq(Events) /\ batch' \in Seq(Events)
      /\ Held' \in Seq(Events) /\ queue' \in Seq(Events)
  BY DEF TypeOK, QueueTypes, WriterTypes, Holding, Held
<1>3. ValuesOf(Pending)
        = ((ValuesOf(toSave) \cup ValuesOf(batch)) \cup ValuesOf(Held))
            \cup ValuesOf(queue)
  BY <1>1, ValuesOfFour DEF Pending
<1>4. ValuesOf(Pending')
        = ((ValuesOf(toSave') \cup ValuesOf(batch')) \cup ValuesOf(Held'))
            \cup ValuesOf(queue')
  BY <1>2, ValuesOfFour DEF Pending
<1>5. ValuesOf(Pending)' = ValuesOf(Pending')
  BY DEF ValuesOf
<1> QED BY <1>3, <1>4, <1>5 DEF Kept, Taken

-----------------------------------------------------------------------------
(* The causes of a loss.                                                   *)
LEMMA NextKeepsCauses ==
  ASSUME TypeOK, CausesKnown, [Next]_vars
  PROVE  CausesKnown'
<1>1. CASE \E h \in Handlers : HandlerStep(h)
  <2>1. PICK h \in Handlers : HandlerStep(h)
    BY <1>1
  <2>2. UNCHANGED <<wpc, then, cancelled>>
    BY <2>1 DEF HandlerStep, Offer, Displace, OfferAgain, flushVars
  <2>3. \A g \in Handlers : g # h => hpc'[g] = hpc[g]
    BY <2>1
    DEF HandlerStep, Offer, Displace, OfferAgain, EnqueueDone, TypeOK,
        HandlerTypes
  <2>4. \A g \in Handlers : hpc'[g] # "idle" => overflowed'
    <3>1. CASE Offer(h)
      BY <2>3, <3>1
      DEF CausesKnown, Offer, EnqueueDone, TypeOK, HandlerTypes
    <3>2. CASE Displace(h) \/ OfferAgain(h)
      BY <2>3, <3>2 DEF CausesKnown, Displace, OfferAgain, historyVars
    <3> QED BY <2>1, <3>1, <3>2 DEF HandlerStep
  <2> QED BY <2>2, <2>4 DEF CausesKnown
<1>2. CASE WriterStep
  <2>1. UNCHANGED <<hpc, overflowed, cancelled>>
    BY <1>2
    DEF WriterStep, FlushStep, Pop, PopCancelled, Collect, Emit, Tick,
        StartDrain, Drain, DrainEnd, BatchCommit, BatchFail, EachSaved,
        EachFailed, FlushEnd, handlerVars, historyVars
  <2>2. /\ wpc' = "drain" => cancelled
        /\ wpc' \in {"batch", "each"} /\ then' = "done" => cancelled
    BY <1>2
    DEF WriterStep, FlushStep, Pop, PopCancelled, Collect, Emit, Tick,
        StartDrain, Drain, DrainEnd, BatchCommit, BatchFail, EachSaved,
        EachFailed, FlushEnd, FlushReturn, Flush, flushVars, CausesKnown,
        TypeOK, WriterTypes
  <2> QED BY <2>1, <2>2 DEF CausesKnown
<1>3. CASE Cancel \/ Expire \/ UNCHANGED vars
  BY <1>3
  DEF CausesKnown, Cancel, Expire, vars, handlerVars, flushVars, historyVars
<1> QED BY <1>1, <1>2, <1>3 DEF Next

(* A handler adds events only at the end of the queue, and takes none from *)
(* the writer.                                                             *)
LEMMA HandlersLeaveTheTaken ==
  ASSUME NEW h \in Handlers, HandlerStep(h)
  PROVE  /\ Taken' = Taken /\ Batched' = Batched /\ Hand' = Hand
         /\ UNCHANGED <<emitted, refused, cancelled>>
BY DEF HandlerStep, Offer, Displace, OfferAgain, Taken, Batched, Hand, Holding,
       Held, flushVars, historyVars

(* What a step of the writer takes off the queue it has in its hands; what *)
(* it no longer has it has given up for a cause.                           *)
LEMMA WriterTakes ==
  ASSUME JournalInv, TypeOK', CausesKnown, WriterStep
  PROVE  \/ Taken' \cup ValuesOf(queue') = Taken \cup ValuesOf(queue)
            /\ Taken \subseteq Taken'
         \/ refused' \/ cancelled
<1> USE DEF JournalInv
<1>1. /\ stored \in Seq(Events) /\ toSave \in Seq(Events)
      /\ batch \in Seq(Events) /\ queue \in Seq(Events)
  BY Segments
<1>2. ValuesOf(<<>>) = {} /\ \A e : ValuesOf(<<e>>) = {e}
  BY ValuesOfEmpty, ValuesOfOne
<1>3. CASE Pop
  <2>1. Held = <<>> /\ Held' = <<Head(queue)>> /\ queue # <<>>
    BY <1>3 DEF Pop, Held
  <2>2. ValuesOf(queue) = {Head(queue)} \cup ValuesOf(Tail(queue))
    BY <1>1, <2>1, ValuesOfTail
  <2>3. Taken' = Taken \cup {Head(queue)}
    BY <1>2, <1>3, <2>1 DEF Pop, Taken, flushVars
  <2> QED BY <1>3, <2>2, <2>3 DEF Pop
<1>4. CASE PopCancelled \/ Drain
  BY <1>4 DEF PopCancelled, Drain, CausesKnown
<1>5. CASE Collect
  <2>1. Held = <<cur>> /\ Held' = <<>> /\ cur \in Events /\ toSave = <<>>
    BY <1>5
    DEF Collect, Flush, Held, CopyOwned, TypeOK, WriterTypes, Holding
  <2>2. ValuesOf(Append(batch, cur)) = ValuesOf(batch) \cup {cur}
    BY <1>1, <2>1, ValuesOfAppend
  <2>3. Taken' = Taken
    BY <1>2, <1>5, <2>1, <2>2 DEF Collect, Flush, Taken, flushVars
  <2> QED BY <1>5, <2>3 DEF Collect
<1>6. CASE Tick \/ DrainEnd
  <2>1. Held = <<>> /\ Held' = <<>> /\ toSave = <<>>
    BY <1>6 DEF Tick, DrainEnd, Flush, Held, CopyOwned
  <2>2. Taken' = Taken
    BY <1>2, <1>6, <2>1 DEF Tick, DrainEnd, Flush, Taken
  <2> QED BY <1>6, <2>2 DEF Tick, DrainEnd
<1>7. CASE Emit \/ StartDrain
  BY <1>7 DEF Emit, StartDrain, Taken, Held, flushVars
<1>8. CASE BatchCommit
  <2>1. ValuesOf(stored') = ValuesOf(stored) \cup ValuesOf(toSave)
    BY <1>1, <1>8, ValuesOfConcat DEF BatchCommit
  <2>2. Held = <<>> /\ Held' = <<>>
    BY <1>8 DEF BatchCommit, FlushReturn, Held, TypeOK, WriterTypes
  <2>3. Taken' = Taken
    BY <1>2, <1>8, <2>1, <2>2 DEF BatchCommit, FlushReturn, Taken
  <2> QED BY <1>8, <2>3 DEF BatchCommit
<1>9. CASE BatchFail
  BY <1>9 DEF BatchFail, Taken, Held
<1>10. CASE EachSaved
  <2>1. ValuesOf(toSave) = {Head(toSave)} \cup ValuesOf(Tail(toSave))
    BY <1>1, <1>10, ValuesOfTail DEF EachSaved
  <2>2. ValuesOf(stored') = ValuesOf(stored) \cup {Head(toSave)}
    BY <1>1, <1>10, MoveHead, ValuesOfAppend DEF EachSaved
  <2>3. Taken' = Taken
    BY <1>10, <2>1, <2>2 DEF EachSaved, Taken, Held
  <2> QED BY <1>10, <2>3 DEF EachSaved
<1>11. CASE EachFailed
  BY <1>11 DEF EachFailed, Taken, Held
<1>12. CASE FlushEnd
  <2>1. CASE toSave = <<>>
    <3>1. Held = <<>> /\ Held' = <<>>
      BY <1>12 DEF FlushEnd, FlushReturn, Held, TypeOK, WriterTypes
    <3> QED BY <1>12, <2>1, <3>1 DEF FlushEnd, FlushReturn, Taken
  <2>2. CASE toSave # <<>>
    BY <1>12, <2>2 DEF FlushEnd, Interrupted, CausesKnown
  <2> QED BY <2>1, <2>2
<1> QED BY <1>3, <1>4, <1>5, <1>6, <1>7, <1>8, <1>9, <1>10, <1>11, <1>12
        DEF WriterStep, FlushStep

LEMMA NextKeepsLosses ==
  ASSUME JournalInv, TypeOK', CausesKnown, LossNeedsCause, [Next]_vars
  PROVE  LossNeedsCause'
<1> USE DEF JournalInv
<1>1. /\ Kept = Taken \cup ValuesOf(queue)
      /\ Kept' = Taken' \cup ValuesOf(queue')
  BY KeptIsTakenOrQueued
<1>2. CASE \E h \in Handlers : HandlerStep(h)
  <2>1. PICK h \in Handlers : HandlerStep(h)
    BY <1>2
  <2>2. Taken' = Taken /\ UNCHANGED <<refused, cancelled>>
    BY <2>1, HandlersLeaveTheTaken
  <2>3. CASE Displace(h) \/ OfferAgain(h)
    BY <2>3
    DEF Displace, OfferAgain, CausesKnown, LossNeedsCause, historyVars
  <2>4. CASE Offer(h) /\ ~(Len(queue) < QueueSize)
    BY <2>4 DEF Offer, LossNeedsCause
  <2>5. CASE Offer(h) /\ Len(queue) < QueueSize
    <3>1. Len(queue) \in Nat /\ QueueSize \in Nat /\ queue \in Seq(Events)
      BY Segments, LenProperties, SizesAssumption
    <3>2. /\ queue' = Append(queue, Event(h)) /\ EnqueueDone(h, "idle")
          /\ overflowed' = overflowed
      BY <2>5, <3>1 DEF Offer
    <3>3. /\ offered \in [Handlers -> 0 .. MaxEvents]
          /\ offered' = [offered EXCEPT ![h] = @ + 1]
          /\ offered[h] < MaxEvents
      BY <2>5, <3>2 DEF Offer, EnqueueDone, TypeOK, HandlerTypes
    <3>4. Event(h) \in Events
      BY <3>3, SizesAssumption DEF Event, Events
    <3>5. ValuesOf(queue') = ValuesOf(queue) \cup {Event(h)}
      BY <3>1, <3>2, <3>4, ValuesOfAppend
    <3>6. ASSUME NEW e \in Events, e[2] <= offered'[e[1]], e # Event(h)
          PROVE  e[2] <= offered[e[1]]
      <4>1. e = <<e[1], e[2]>> /\ e[1] \in Handlers /\ e[2] \in 1 .. MaxEvents
        BY DEF Events
      <4>2. CASE e[1] = h
        BY <3>3, <3>6, <4>1, <4>2, SizesAssumption DEF Event
      <4>3. CASE e[1] # h
        BY <3>3, <3>6, <4>1, <4>3
      <4> QED BY <4>2, <4>3
    <3> QED BY <1>1, <2>2, <3>2, <3>5, <3>6 DEF LossNeedsCause, HasOffered
  <2> QED BY <2>1, <2>3, <2>4, <2>5 DEF HandlerStep
<1>3. CASE WriterStep
  <2>1. /\ UNCHANGED <<offered, overflowed, cancelled>>
        /\ refused => refused'
    BY <1>3
    DEF WriterStep, FlushStep, Pop, PopCancelled, Collect, Emit, Tick,
        StartDrain, Drain, DrainEnd, BatchCommit, BatchFail, EachSaved,
        EachFailed, FlushEnd, handlerVars, historyVars
  <2>2. Kept' = Kept \/ refused' \/ cancelled
    BY <1>1, <1>3, WriterTakes
  <2> QED BY <2>1, <2>2 DEF LossNeedsCause, HasOffered
<1>4. CASE Cancel
  BY <1>4 DEF Cancel, LossNeedsCause
<1>5. CASE Expire \/ UNCHANGED vars
  BY <1>1, <1>5
  DEF Expire, vars, handlerVars, flushVars, historyVars, LossNeedsCause,
      HasOffered, Taken, Held
<1> QED BY <1>2, <1>3, <1>4, <1>5 DEF Next

-----------------------------------------------------------------------------
(* The subscribers and the database.                                       *)
LEMMA NextKeepsShown ==
  ASSUME JournalInv, TypeOK', CausesKnown, ShownIsTaken, [Next]_vars
  PROVE  ShownIsTaken'
<1> USE DEF JournalInv
<1>1. CASE \E h \in Handlers : HandlerStep(h)
  BY <1>1, HandlersLeaveTheTaken DEF ShownIsTaken
<1>2. CASE WriterStep
  <2>1. cancelled' = cancelled /\ (refused => refused')
    BY <1>2
    DEF WriterStep, FlushStep, Pop, PopCancelled, Collect, Emit, Tick,
        StartDrain, Drain, DrainEnd, BatchCommit, BatchFail, EachSaved,
        EachFailed, FlushEnd, historyVars
  <2>2. Taken \subseteq Taken' \/ refused' \/ cancelled
    BY <1>2, WriterTakes
  <2>3. CASE Pop
    <3>1. /\ Hand' = {cur'} /\ Held' = <<cur'>>
          /\ emitted' = emitted
      BY <2>3 DEF Pop, Hand, Holding, Held
    <3>2. cur' \in Taken'
      BY <3>1, ValuesOfOne DEF Taken
    <3> QED BY <2>1, <2>2, <3>1, <3>2 DEF ShownIsTaken
  <2>4. CASE ~Pop
    <3>1. emitted' \cup Hand' \subseteq emitted \cup Hand \/ cancelled
      BY <1>2, <2>4
      DEF WriterStep, FlushStep, PopCancelled, Collect, Emit, Tick,
          StartDrain, Drain, DrainEnd, BatchCommit, BatchFail, EachSaved,
          EachFailed, FlushEnd, FlushReturn, Flush, flushVars, Hand, Holding,
          TypeOK, WriterTypes
    <3> QED BY <2>1, <2>2, <3>1 DEF ShownIsTaken
  <2> QED BY <2>3, <2>4
<1>3. CASE Cancel
  BY <1>3 DEF Cancel, ShownIsTaken
<1>4. CASE Expire \/ UNCHANGED vars
  BY <1>4
  DEF Expire, vars, handlerVars, flushVars, historyVars, ShownIsTaken, Taken,
      Held, Hand, Holding
<1> QED BY <1>1, <1>2, <1>3, <1>4 DEF Next

LEMMA NextKeepsBatched ==
  ASSUME JournalInv, TypeOK', CausesKnown, BatchedIsShown, [Next]_vars
  PROVE  BatchedIsShown'
<1> USE DEF JournalInv
<1>1. CASE \E h \in Handlers : HandlerStep(h)
  BY <1>1, HandlersLeaveTheTaken DEF BatchedIsShown
<1>2. CASE WriterStep
  <2>1. cancelled' = cancelled
    BY <1>2
    DEF WriterStep, FlushStep, Pop, PopCancelled, Collect, Emit, Tick,
        StartDrain, Drain, DrainEnd, BatchCommit, BatchFail, EachSaved,
        EachFailed, FlushEnd, historyVars
  <2>2. emitted \cup Hand \subseteq emitted' \cup Hand' \/ cancelled
    BY <1>2
    DEF WriterStep, FlushStep, Pop, PopCancelled, Collect, Emit, Tick,
        StartDrain, Drain, DrainEnd, BatchCommit, BatchFail, EachSaved,
        EachFailed, FlushEnd, FlushReturn, Flush, flushVars, Hand, Holding,
        TypeOK, WriterTypes
  <2>3. CASE Collect
    <3>1. toSave = <<>> /\ cur \in Events /\ batch \in Seq(Events)
      BY <2>3, Segments DEF Collect, CopyOwned, TypeOK, WriterTypes, Holding
    <3>2. ValuesOf(Append(batch, cur)) = ValuesOf(batch) \cup {cur}
      BY <3>1, ValuesOfAppend
    <3>3. Batched' = Batched \cup {cur}
      BY <2>3, <3>1, <3>2, ValuesOfEmpty
      DEF Collect, Flush, flushVars, Batched
    <3>4. Hand = {cur} \/ cancelled
      BY <2>3 DEF Collect, Hand, Holding
    <3> QED BY <2>1, <2>2, <3>3, <3>4 DEF BatchedIsShown
  <2>4. CASE ~Collect
    <3>1. Batched' \subseteq Batched \/ cancelled
      <4>1. /\ stored \in Seq(Events) /\ toSave \in Seq(Events)
        BY Segments
      <4>2. CASE Pop \/ PopCancelled \/ Emit \/ StartDrain \/ BatchFail
        BY <4>2
        DEF Pop, PopCancelled, Emit, StartDrain, BatchFail, Batched, flushVars
      <4>3. CASE Tick \/ DrainEnd
        BY <4>3, ValuesOfEmpty DEF Tick, DrainEnd, Flush, Batched
      <4>4. CASE Drain
        BY <4>4 DEF Drain, CausesKnown
      <4>5. CASE BatchCommit
        BY <4>1, <4>5, ValuesOfConcat, ValuesOfEmpty
        DEF BatchCommit, FlushReturn, Batched
      <4>6. CASE EachSaved
        <5>1. ValuesOf(toSave) = {Head(toSave)} \cup ValuesOf(Tail(toSave))
          BY <4>1, <4>6, ValuesOfTail DEF EachSaved
        <5>2. ValuesOf(stored') = ValuesOf(stored) \cup {Head(toSave)}
          BY <4>1, <4>6, MoveHead, ValuesOfAppend DEF EachSaved
        <5> QED BY <4>6, <5>1, <5>2 DEF EachSaved, Batched
      <4>7. CASE EachFailed
        <5>1. ValuesOf(toSave) = {Head(toSave)} \cup ValuesOf(Tail(toSave))
          BY <4>1, <4>7, ValuesOfTail DEF EachFailed
        <5> QED BY <4>7, <5>1 DEF EachFailed, Batched
      <4>8. CASE FlushEnd
        BY <4>8, ValuesOfEmpty DEF FlushEnd, FlushReturn, Batched
      <4> QED BY <1>2, <2>4, <4>2, <4>3, <4>4, <4>5, <4>6, <4>7, <4>8
              DEF WriterStep, FlushStep
    <3> QED BY <2>1, <2>2, <3>1 DEF BatchedIsShown
  <2> QED BY <2>3, <2>4
<1>3. CASE Cancel
  BY <1>3 DEF Cancel, BatchedIsShown
<1>4. CASE Expire \/ UNCHANGED vars
  BY <1>4
  DEF Expire, vars, handlerVars, flushVars, BatchedIsShown, Batched, Hand,
      Holding
<1> QED BY <1>1, <1>2, <1>3, <1>4 DEF Next

-----------------------------------------------------------------------------
(* What is lost, what is shown and what is stored.                         *)
LEMMA LossInvariant == Spec => []LossInv
<1>1. Init => LossInv
  <2> SUFFICES ASSUME Init PROVE LossInv
    OBVIOUS
  <2>1. CausesKnown
    BY DEF Init, CausesKnown
  <2>2. \A e \in Events : ~HasOffered(e)
    BY SizesAssumption DEF Init, Events, HasOffered
  <2>3. Batched = {} /\ Hand = {} /\ emitted = {}
    BY ValuesOfEmpty DEF Init, Batched, Hand, Holding
  <2> QED BY <2>1, <2>2, <2>3
          DEF LossInv, LossNeedsCause, ShownIsTaken, BatchedIsShown
<1>2. JournalInv /\ JournalInv' /\ LossInv /\ [Next]_vars => LossInv'
  <2> SUFFICES ASSUME JournalInv, JournalInv', LossInv, [Next]_vars
               PROVE  LossInv'
    OBVIOUS
  <2>1. /\ TypeOK /\ TypeOK' /\ CausesKnown /\ LossNeedsCause
        /\ ShownIsTaken /\ BatchedIsShown
    BY DEF JournalInv, LossInv
  <2> QED BY <2>1, NextKeepsCauses, NextKeepsLosses, NextKeepsShown,
             NextKeepsBatched
          DEF LossInv
<1> QED BY <1>1, <1>2, JournalInvariant, PTL DEF Spec

(* An event that a handler passed on is stored or under way, unless the    *)
(* queue overflowed, the database refused it for good or the run was       *)
(* cancelled: no retry, fallback or flush loses one.                       *)
THEOREM EventsLostForCause == Spec => []LossNeedsCause
<1>1. LossInv => LossNeedsCause
  BY DEF LossInv
<1> QED BY <1>1, LossInvariant, PTL

(* What the subscribers were shown is or will be in the database, unless   *)
(* the database refused it or the run was cancelled: a handler that makes  *)
(* room in the queue takes back only what nobody has seen.                 *)
THEOREM ShownEventsKept == Spec => []ShownIsKept
<1>1. JournalInv /\ LossInv => ShownIsKept
  <2> SUFFICES ASSUME JournalInv, LossInv PROVE ShownIsKept
    OBVIOUS
  <2>1. Kept = Taken \cup ValuesOf(queue)
    <3>1. /\ toSave \in Seq(Events) /\ batch \in Seq(Events)
          /\ Held \in Seq(Events) /\ queue \in Seq(Events)
      BY Segments DEF JournalInv
    <3> QED BY <3>1, ValuesOfFour DEF Kept, Taken, Pending
  <2> QED BY <2>1 DEF LossInv, ShownIsTaken, ShownIsKept
<1> QED BY <1>1, JournalInvariant, LossInvariant, PTL

(* A stored event has been shown to the subscribers, but for the one that  *)
(* filled its batch and those of the last flush.                           *)
THEOREM StoredEventsShown == Spec => []StoredIsShown
<1>1. LossInv => StoredIsShown
  BY DEF LossInv, BatchedIsShown, Batched, Hand, StoredIsShown
<1> QED BY <1>1, LossInvariant, PTL

-----------------------------------------------------------------------------
(* The freshest event.                                                     *)
LEMMA NextKeepsRoom ==
  ASSUME TypeOK, TypeOK', RoomWasMade, [Next]_vars
  PROVE  RoomWasMade'
<1> SUFFICES ASSUME LoneHandler
             PROVE  /\ dropped' = 0
                    /\ \A h \in Handlers :
                         hpc'[h] = "again" => Len(queue') < QueueSize
  BY DEF RoomWasMade, LoneHandler
<1>1. /\ dropped = 0
      /\ \A h \in Handlers : hpc[h] = "again" => Len(queue) < QueueSize
  BY DEF RoomWasMade
<1>2. /\ queue \in Seq(Events) /\ Len(queue) \in Nat
      /\ Len(queue) <= QueueSize /\ QueueSize \in Nat \ {0}
      /\ queue # <<>> => Len(Tail(queue)) = Len(queue) - 1
  BY SizesAssumption, LenProperties, HeadTailProperties DEF TypeOK, QueueTypes
<1>3. CASE \E h \in Handlers : HandlerStep(h)
  <2>1. PICK h \in Handlers : HandlerStep(h)
    BY <1>3
  <2>2. /\ \A g \in Handlers : g = h
        /\ hpc \in [Handlers -> {"idle", "full", "again"}]
    BY DEF LoneHandler, TypeOK, HandlerTypes
  <2>3. CASE Offer(h)
    BY <1>1, <2>2, <2>3 DEF Offer, EnqueueDone
  <2>4. CASE Displace(h)
    <3>1. Len(<<>>) = 0
      BY EmptySeq
    <3> QED BY <1>1, <1>2, <2>2, <2>4, <3>1 DEF Displace
  <2>5. CASE OfferAgain(h)
    BY <1>1, <1>2, <2>2, <2>5 DEF OfferAgain, EnqueueDone
  <2> QED BY <2>1, <2>3, <2>4, <2>5 DEF HandlerStep
<1>4. CASE WriterStep
  <2>1. /\ UNCHANGED <<hpc, dropped>>
        /\ queue' = queue \/ (queue # <<>> /\ queue' = Tail(queue))
    <3>1. CASE Pop \/ Drain
      BY <3>1 DEF Pop, Drain, handlerVars
    <3>2. CASE PopCancelled \/ Collect \/ Emit \/ Tick
      BY <3>2 DEF PopCancelled, Collect, Emit, Tick, handlerVars
    <3>3. CASE StartDrain \/ DrainEnd \/ FlushStep
      BY <3>3
      DEF FlushStep, StartDrain, DrainEnd, BatchCommit, BatchFail, EachSaved,
          EachFailed, FlushEnd, handlerVars
    <3> QED BY <1>4, <3>1, <3>2, <3>3 DEF WriterStep
  <2> QED BY <1>1, <1>2, <2>1
<1>5. CASE Cancel \/ Expire \/ UNCHANGED vars
  BY <1>1, <1>5 DEF Cancel, Expire, vars, handlerVars
<1> QED BY <1>3, <1>4, <1>5 DEF Next

(* A handler that is alone pushes its freshest event: the place it makes   *)
(* in a full queue stays free until it comes back to it.  The comment of   *)
(* tryEnqueue promises this of every handler, and two handlers break it.   *)
THEOREM LoneHandlerPushes == Spec => [](LoneHandler => FreshestIsPushed)
<1>1. Init => RoomWasMade
  BY DEF Init, RoomWasMade
<1>2. JournalInv => TypeOK
  BY DEF JournalInv
<1>3. TypeOK /\ TypeOK' /\ RoomWasMade /\ [Next]_vars => RoomWasMade'
  BY NextKeepsRoom
<1>4. RoomWasMade => (LoneHandler => FreshestIsPushed)
  BY DEF RoomWasMade, FreshestIsPushed
<1> QED BY <1>1, <1>2, <1>3, <1>4, JournalInvariant, PTL DEF Spec

-----------------------------------------------------------------------------
(* The lossy log.                                                          *)

LEMMA EndOfSeq ==
  ASSUME NEW s \in Seq(Events), NEW m \in 1 .. Len(s) + 1
  PROVE  /\ SubSeq(s, m, Len(s)) \in Seq(Events)
         /\ Len(SubSeq(s, m, Len(s))) = Len(s) - m + 1
         /\ \A i \in 1 .. Len(s) - m + 1 :
              SubSeq(s, m, Len(s))[i] = s[m + i - 1]
<1>1. /\ Len(s) \in Nat /\ m \in Int
      /\ \A i \in m .. Len(s) : s[i] \in Events
  BY ElementOfSeq, LenProperties
<1> QED BY <1>1

(* The middle of a line is taken out as a step of the log takes it out.    *)
LEMMA MiddleOut ==
  ASSUME NEW p \in Seq(Events), NEW g \in Seq(Events), NEW r \in Seq(Events),
         NEW s, s = (p \o g) \o r
  PROVE  /\ s \in Seq(Events)
         /\ Len(p) \in 0 .. Len(s)
         /\ Len(p) + Len(g) \in Len(p) .. Len(s)
         /\ SubSeq(s, 1, Len(p)) = p
         /\ SubSeq(s, Len(p) + Len(g) + 1, Len(s)) = r
<1>1. /\ s \in Seq(Events) /\ Len(s) = Len(p) + Len(g) + Len(r)
      /\ Len(p) \in Nat /\ Len(g) \in Nat /\ Len(r) \in Nat
  BY ConcatProperties, LenProperties
<1>2. \A i \in 1 .. Len(p) : s[i] = p[i] /\ p[i] \in Events
  BY <1>1, ElementOfSeq
<1>3. \A i \in 1 .. Len(r) :
        s[Len(p) + Len(g) + i] = r[i] /\ r[i] \in Events
  <2>1. /\ p \o g \in Seq(Events) /\ Len(p \o g) = Len(p) + Len(g)
    BY ConcatProperties
  <2>2. \A i \in 1 .. Len(p \o g) + Len(r) :
          s[i] = IF i <= Len(p \o g) THEN (p \o g)[i] ELSE r[i - Len(p \o g)]
    BY <2>1, ConcatProperties
  <2> QED BY <1>1, <2>1, <2>2, ElementOfSeq
<1>4. SubSeq(s, 1, Len(p)) = p
  <2> DEFINE t == SubSeq(s, 1, Len(p))
  <2>1. /\ t \in Seq(Events) /\ Len(t) = Len(p)
        /\ \A i \in 1 .. Len(p) : t[i] = s[i]
    BY <1>1, <1>2, SubSeqProperties
  <2> HIDE DEF t
  <2>2. t = p
    BY <1>2, <2>1, SeqEqual
  <2> QED BY <2>2 DEF t
<1>5. SubSeq(s, Len(p) + Len(g) + 1, Len(s)) = r
  <2> DEFINE k == Len(p) + Len(g)
             t == SubSeq(s, k + 1, Len(s))
  <2>1. k \in Nat /\ Len(s) = k + Len(r)
    BY <1>1
  <2>2. \A i \in k + 1 .. Len(s) : s[i] \in Events
    BY <1>1, <2>1, ElementOfSeq
  <2> HIDE DEF k
  <2>3. /\ t \in Seq(Events) /\ Len(t) = Len(r)
        /\ \A i \in 1 .. Len(r) : t[i] = s[k + i]
    <3>1. k + 1 \in 1 .. Len(s) + 1
      BY <1>1, <2>1
    <3> QED BY <1>1, <2>1, <3>1, EndOfSeq, SMTT(30)
  <2> HIDE DEF t
  <2>4. t = r
    BY <1>3, <2>3, SeqEqual DEF k
  <2> QED BY <2>4 DEF t, k
<1> QED BY <1>1, <1>4, <1>5

OfferedSet == {e \in Events : HasOffered(e)}

(* A step that only takes out the middle of the pending events.            *)
LEMMA GivesUp ==
  ASSUME NEW p \in Seq(Events), NEW g \in Seq(Events), NEW r \in Seq(Events),
         Pending = (p \o g) \o r, Pending' = p \o r,
         OfferedSet' = OfferedSet, stored' = stored
  PROVE  Log!Next
<1>1. /\ Len(p) \in 0 .. Len(Pending)
      /\ Len(p) + Len(g) \in Len(p) .. Len(Pending)
      /\ SubSeq(Pending, 1, Len(p)) = p
      /\ SubSeq(Pending, Len(p) + Len(g) + 1, Len(Pending)) = r
  BY MiddleOut
<1>2. Log!GiveUp(Len(p), Len(p) + Len(g))
  BY <1>1 DEF Log!GiveUp, OfferedSet
<1> QED BY <1>1, <1>2 DEF Log!Next

(* A step that stores the first of the pending events.                     *)
LEMMA StoresFirst ==
  ASSUME NEW g \in Seq(Events), NEW r \in Seq(Events), g # <<>>,
         Pending = g \o r, Pending' = r,
         OfferedSet' = OfferedSet, stored' = stored \o g
  PROVE  Log!Next
<1>1. /\ Pending = (g \o <<>>) \o r /\ <<>> \in Seq(Events)
      /\ Len(<<>>) = 0 /\ Len(g) \in Nat \ {0}
  BY ConcatEmptySeq, EmptySeq
<1>2. /\ Len(g) \in 0 .. Len(Pending)
      /\ SubSeq(Pending, 1, Len(g)) = g
      /\ SubSeq(Pending, Len(g) + Len(<<>>) + 1, Len(Pending)) = r
  BY <1>1, MiddleOut
<1>3. Len(g) + Len(<<>>) + 1 = Len(g) + 1
  BY <1>1
<1>4. Log!Store(Len(g))
  BY <1>2, <1>3 DEF Log!Store, OfferedSet
<1>5. Len(g) \in 1 .. Len(Pending)
  BY <1>1, <1>2
<1> QED BY <1>4, <1>5 DEF Log!Next

(* The pending events, split where a step of the journal takes hold.       *)
LEMMA PendingParts ==
  ASSUME TypeOK
  PROVE  /\ toSave \in Seq(Events) /\ batch \in Seq(Events)
         /\ Held \in Seq(Events) /\ queue \in Seq(Events)
         /\ Back \in Seq(Events)
         /\ toSave \o batch \in Seq(Events)
         /\ toSave \o batch \o Held \in Seq(Events)
         /\ Pending \in Seq(Events)
         /\ Pending = toSave \o Back
<1>1. /\ toSave \in Seq(Events) /\ batch \in Seq(Events)
      /\ Held \in Seq(Events) /\ queue \in Seq(Events)
      /\ Back \in Seq(Events) /\ batch \o Held \in Seq(Events)
  BY Segments
<1>2. toSave \o batch \in Seq(Events)
  BY <1>1, ConcatProperties
<1>3. (toSave \o batch) \o Held \in Seq(Events)
  BY <1>1, <1>2, ConcatProperties
<1>4. ((toSave \o batch) \o Held) \o queue \in Seq(Events)
  BY <1>1, <1>3, ConcatProperties
<1>5. toSave \o (batch \o Held) = (toSave \o batch) \o Held
  <2>1. /\ toSave \in Seq(Events) /\ batch \in Seq(Events)
        /\ Held \in Seq(Events)
    BY <1>1
  <2> QED BY <2>1, Regroup, SMTT(30)
<1>6. toSave \o ((batch \o Held) \o queue)
        = (toSave \o (batch \o Held)) \o queue
  <2> DEFINE m == batch \o Held
  <2>1. toSave \in Seq(Events) /\ m \in Seq(Events) /\ queue \in Seq(Events)
    BY <1>1
  <2> HIDE DEF m
  <2>2. toSave \o (m \o queue) = (toSave \o m) \o queue
    BY <2>1, Regroup, SMTT(30)
  <2> QED BY <2>2 DEF m
<1>7. Pending = toSave \o Back
  BY <1>5, <1>6 DEF Pending, Back
<1> QED BY <1>1, <1>2, <1>3, <1>4, <1>7 DEF Pending

LEMMA PendingPartsNext ==
  ASSUME TypeOK'
  PROVE  Pending' = toSave' \o Back' /\ Pending' \in Seq(Events)
<1> DEFINE a == toSave'
           b == batch'
           c == Held'
           d == queue'
<1>1. a \in Seq(Events) /\ b \in Seq(Events) /\ c \in Seq(Events)
        /\ d \in Seq(Events)
  BY DEF TypeOK, QueueTypes, WriterTypes, Holding, Held
<1>2. Pending' = ((a \o b) \o c) \o d /\ Back' = (b \o c) \o d
  BY DEF Pending, Back
<1> HIDE DEF a, b, c, d
<1>3. /\ b \o c \in Seq(Events)
      /\ a \o (b \o c) = (a \o b) \o c
      /\ a \o (b \o c) \in Seq(Events)
  BY <1>1, Regroup, SMTT(30)
<1>4. a \o ((b \o c) \o d) = (a \o (b \o c)) \o d
  <2> DEFINE m == b \o c
  <2>1. a \in Seq(Events) /\ m \in Seq(Events) /\ d \in Seq(Events)
    BY <1>1, <1>3
  <2> HIDE DEF m
  <2>2. a \o (m \o d) = (a \o m) \o d
    BY <2>1, Regroup, SMTT(30)
  <2> QED BY <2>2 DEF m
<1>5. (a \o (b \o c)) \o d \in Seq(Events)
  BY <1>1, <1>3, ConcatProperties
<1> QED BY <1>2, <1>3, <1>4, <1>5 DEF a

-----------------------------------------------------------------------------
(* A handler offers its next event; of a full queue it gives up the head.  *)
LEMMA HandlerImplements ==
  ASSUME JournalInv, TypeOK', NEW h \in Handlers, HandlerStep(h)
  PROVE  [Log!Next]_Log!vars
<1> DEFINE P == (toSave \o batch) \o Held
           e == Event(h)
<1> USE DEF JournalInv
<1>1. P \in Seq(Events) /\ queue \in Seq(Events) /\ Pending = P \o queue
  BY PendingParts DEF Pending
<1>2. Pending' = P \o queue'
  BY DEF HandlerStep, Offer, Displace, OfferAgain, flushVars, Pending, Held
<1>3. stored' = stored
  BY DEF HandlerStep, Offer, Displace, OfferAgain
<1>4. offered \in [Handlers -> 0 .. MaxEvents]
  BY DEF TypeOK, HandlerTypes
<1> HIDE DEF P
<1>5. ASSUME offered' = [offered EXCEPT ![h] = @ + 1], offered[h] < MaxEvents,
             queue' = queue \/ queue' = Append(queue, e)
      PROVE  Log!Next
  <2>1. e \in Events /\ e \notin OfferedSet
    BY <1>4, <1>5, SizesAssumption DEF Event, Events, OfferedSet, HasOffered
  <2>2. OfferedSet' = OfferedSet \cup {e}
    <3>1. ASSUME NEW f \in Events
          PROVE  f[2] <= offered'[f[1]] <=> f[2] <= offered[f[1]] \/ f = e
      <4>1. f = <<f[1], f[2]>> /\ f[1] \in Handlers /\ f[2] \in 1 .. MaxEvents
        BY DEF Events
      <4>2. CASE f[1] = h
        BY <1>4, <1>5, <4>1, <4>2, SizesAssumption DEF Event
      <4>3. CASE f[1] # h
        BY <1>4, <1>5, <4>1, <4>3 DEF Event
      <4> QED BY <4>2, <4>3
    <3> QED BY <2>1, <3>1 DEF OfferedSet, HasOffered
  <2> HIDE DEF e
  <2>3. Pending' = Pending \/ Pending' = Append(Pending, e)
    <3>1. CASE queue' = queue
      BY <1>1, <1>2, <3>1
    <3>2. CASE queue' = Append(queue, e)
      <4>1. <<e>> \in Seq(Events)
        BY <2>1
      <4>2. queue' = queue \o <<e>> /\ Append(Pending, e) = Pending \o <<e>>
        BY <1>1, <2>1, <3>2, AppendIsConcat, PendingParts
      <4>3. P \o (queue \o <<e>>) = (P \o queue) \o <<e>>
        <5>1. P \in Seq(Events) /\ queue \in Seq(Events)
          BY <1>1
        <5> QED BY <4>1, <5>1, Regroup, ZenonT(30)
      <4> QED BY <1>1, <1>2, <4>2, <4>3
    <3> QED BY <1>5, <3>1, <3>2
  <2>4. Log!Offer(e)
    BY <1>3, <2>1, <2>2, <2>3 DEF Log!Offer, OfferedSet
  <2> QED BY <2>1, <2>4 DEF Log!Next
<1>6. ASSUME offered' = offered, queue' = queue
      PROVE  UNCHANGED Log!vars
  BY <1>1, <1>2, <1>3, <1>6 DEF Log!vars, HasOffered
<1>7. CASE Offer(h)
  <2>1. /\ Len(queue) \in Nat /\ QueueSize \in Nat
    BY <1>1, LenProperties, SizesAssumption
  <2>2. CASE Len(queue) < QueueSize
    BY <1>5, <1>7, <2>1, <2>2 DEF Offer, EnqueueDone
  <2>3. CASE ~(Len(queue) < QueueSize)
    BY <1>6, <1>7, <2>3 DEF Offer, EnqueueDone
  <2> QED BY <2>2, <2>3
<1>8. CASE Displace(h)
  <2>1. offered' = offered
    BY <1>8 DEF Displace, EnqueueDone
  <2>2. CASE queue = <<>>
    BY <1>6, <1>8, <2>1, <2>2 DEF Displace
  <2>3. CASE queue # <<>>
    <3> DEFINE g == <<Head(queue)>>
               r == Tail(queue)
    <3>1. /\ Head(queue) \in Events /\ r \in Seq(Events)
          /\ P \o queue = (P \o g) \o r
      BY <1>1, <2>3, MoveHead
    <3>2. g \in Seq(Events) /\ queue' = r
      BY <1>8, <2>3, <3>1 DEF Displace
    <3> HIDE DEF g, r
    <3>3. OfferedSet' = OfferedSet
      BY <2>1 DEF OfferedSet, HasOffered
    <3>4. Pending = (P \o g) \o r /\ Pending' = P \o r
      BY <1>1, <1>2, <3>1, <3>2
    <3> QED BY <1>1, <1>3, <3>1, <3>2, <3>3, <3>4, GivesUp
  <2> QED BY <2>2, <2>3
<1>9. CASE OfferAgain(h)
  BY <1>5, <1>9 DEF OfferAgain, EnqueueDone, TypeOK, HandlerTypes
<1> QED BY <1>7, <1>8, <1>9 DEF HandlerStep

(* A flush stores the head of the copy or all of it, or gives it up.       *)
LEMMA FlushImplements ==
  ASSUME JournalInv, TypeOK', FlushStep
  PROVE  [Log!Next]_Log!vars
<1> USE DEF JournalInv
<1>1. /\ stored \in Seq(Events) /\ toSave \in Seq(Events)
      /\ Back \in Seq(Events) /\ <<>> \in Seq(Events)
      /\ Pending = toSave \o Back
  BY Segments, PendingParts
<1>2. Back' = Back
  BY DEF FlushStep, BatchCommit, BatchFail, EachSaved, EachFailed, FlushEnd,
         FlushReturn, TypeOK, WriterTypes, Back, Held
<1>3. Pending' = toSave' \o Back
  BY <1>2, PendingPartsNext
<1>4. OfferedSet' = OfferedSet
  BY DEF FlushStep, BatchCommit, BatchFail, EachSaved, EachFailed, FlushEnd,
         handlerVars, OfferedSet, HasOffered
<1>5. ASSUME toSave' = toSave, stored' = stored
      PROVE  UNCHANGED Log!vars
  BY <1>1, <1>3, <1>4, <1>5 DEF Log!vars, OfferedSet
<1>6. ASSUME toSave' = <<>>, stored' = stored \o toSave
      PROVE  [Log!Next]_Log!vars
  <2>1. <<>> \o Back = Back
    BY <1>1, ConcatEmptySeq
  <2>2. CASE toSave = <<>>
    <3>1. stored' = stored
      BY <1>1, <1>6, <2>2, ConcatEmptySeq
    <3> QED BY <1>5, <1>6, <2>2, <3>1
  <2>3. CASE toSave # <<>>
    <3>1. Pending' = Back
      BY <1>3, <1>6, <2>1
    <3> QED BY <1>1, <1>4, <1>6, <2>3, <3>1, StoresFirst
  <2> QED BY <2>2, <2>3
<1>7. CASE BatchCommit
  BY <1>6, <1>7 DEF BatchCommit, FlushReturn
<1>8. CASE BatchFail
  BY <1>5, <1>8 DEF BatchFail
<1>9. ASSUME toSave # <<>>
      PROVE  LET g == <<Head(toSave)>>
                 r == Tail(toSave) \o Back
             IN  /\ g \in Seq(Events) /\ r \in Seq(Events) /\ g # <<>>
                 /\ Append(stored, Head(toSave)) = stored \o g
                 /\ Pending = g \o r /\ Pending = (<<>> \o g) \o r
                 /\ <<>> \o r = r
  <2> DEFINE g == <<Head(toSave)>>
             t == Tail(toSave)
  <2>1. /\ Head(toSave) \in Events /\ t \in Seq(Events) /\ g \in Seq(Events)
        /\ toSave = g \o t /\ g # <<>>
    BY <1>1, <1>9, MoveHead
  <2>2. Append(stored, Head(toSave)) = stored \o g
    BY <1>1, <2>1, AppendIsConcat
  <2> HIDE DEF g, t
  <2>3. Pending = (g \o t) \o Back
    BY <1>1, <2>1
  <2>4. g \o (t \o Back) = (g \o t) \o Back /\ t \o Back \in Seq(Events)
    <3>1. g \in Seq(Events) /\ t \in Seq(Events) /\ Back \in Seq(Events)
      BY <1>1, <2>1
    <3> QED BY <3>1, Regroup, ZenonT(30)
  <2>5. <<>> \o g = g /\ <<>> \o (t \o Back) = t \o Back
    BY <2>1, <2>4, ConcatEmptySeq
  <2> QED BY <2>1, <2>2, <2>3, <2>4, <2>5 DEF g, t
<1>10. CASE EachSaved
  <2> DEFINE g == <<Head(toSave)>>
             r == Tail(toSave) \o Back
  <2>1. /\ g \in Seq(Events) /\ r \in Seq(Events) /\ g # <<>>
        /\ Pending = g \o r /\ Pending' = r /\ stored' = stored \o g
    BY <1>3, <1>9, <1>10 DEF EachSaved
  <2> HIDE DEF g, r
  <2> QED BY <1>4, <2>1, StoresFirst
<1>11. CASE EachFailed
  <2>1. CASE toSave' = toSave
    BY <1>5, <1>11, <2>1 DEF EachFailed
  <2>2. CASE toSave' = Tail(toSave)
    <3> DEFINE g == <<Head(toSave)>>
               r == Tail(toSave) \o Back
    <3>1. /\ g \in Seq(Events) /\ r \in Seq(Events)
          /\ Pending = (<<>> \o g) \o r /\ Pending' = <<>> \o r
          /\ stored' = stored
      BY <1>3, <1>9, <1>11, <2>2 DEF EachFailed
    <3> HIDE DEF g, r
    <3> QED BY <1>1, <1>4, <3>1, GivesUp
  <2> QED BY <1>11, <2>1, <2>2 DEF EachFailed
<1>12. CASE FlushEnd
  <2>1. <<>> \o toSave = toSave /\ stored' = stored /\ toSave' = <<>>
    BY <1>1, <1>12, ConcatEmptySeq DEF FlushEnd, FlushReturn
  <2>2. Pending = (<<>> \o toSave) \o Back /\ Pending' = <<>> \o Back
    BY <1>1, <1>3, <2>1
  <2> QED BY <1>1, <1>4, <2>1, <2>2, GivesUp
<1> QED BY <1>7, <1>8, <1>10, <1>11, <1>12 DEF FlushStep

(* The writer passes events on unseen by the log, but for the one it takes *)
(* off the queue of a cancelled run and gives up.                          *)
LEMMA WriterImplements ==
  ASSUME JournalInv, TypeOK', WriterStep
  PROVE  [Log!Next]_Log!vars
<1> USE DEF JournalInv
<1>1. CASE PassOn
  <2>1. /\ toSave' \o Back' = toSave \o Back
        /\ UNCHANGED <<stored, offered>>
    BY <1>1, PassOnKeepsPending
  <2>2. Pending' = Pending
    BY <2>1, PendingParts, PendingPartsNext
  <2> QED BY <2>1, <2>2 DEF Log!vars, HasOffered
<1>2. CASE PopCancelled
  <2> DEFINE P == toSave \o batch
  <2>1. /\ P \in Seq(Events) /\ Held \in Seq(Events) /\ queue \in Seq(Events)
        /\ Pending = (P \o Held) \o queue
    BY PendingParts DEF Pending
  <2>2. Pending' = (P \o <<>>) \o queue
    BY <1>2 DEF PopCancelled, Pending, Held, flushVars
  <2> HIDE DEF P
  <2>3. Pending' = P \o queue
    BY <2>1, <2>2, ConcatEmptySeq
  <2>4. OfferedSet' = OfferedSet /\ stored' = stored
    BY <1>2 DEF PopCancelled, handlerVars, OfferedSet, HasOffered
  <2> QED BY <2>1, <2>3, <2>4, GivesUp
<1>3. CASE FlushStep
  BY <1>3, FlushImplements
<1> QED BY <1>1, <1>2, <1>3 DEF WriterStep, PassOn

(* The journal implements the lossy log: through batches, retries, the     *)
(* fallback, overflows and the last flush, events are stored from the head *)
(* of the line they joined, and nothing given up or stored comes back.     *)
THEOREM JournalImplementsLog == Spec => ImplementsLog
<1>1. Init => Log!Init
  <2> SUFFICES ASSUME Init PROVE Log!Init
    OBVIOUS
  <2>1. {e \in Events : HasOffered(e)} = {}
    BY SizesAssumption DEF Init, Events, HasOffered
  <2>2. Pending = <<>>
    BY DEF Init, Pending, Held
  <2> QED BY <2>1, <2>2 DEF Init, Log!Init
<1>2. JournalInv /\ JournalInv' /\ [Next]_vars => [Log!Next]_Log!vars
  <2> SUFFICES ASSUME JournalInv, TypeOK', [Next]_vars
               PROVE  [Log!Next]_Log!vars
    BY DEF JournalInv
  <2>1. CASE \E h \in Handlers : HandlerStep(h)
    BY <2>1, HandlerImplements
  <2>2. CASE WriterStep
    BY <2>2, WriterImplements
  <2>3. CASE Cancel \/ Expire \/ UNCHANGED vars
    BY <2>3
    DEF Cancel, Expire, vars, handlerVars, flushVars, Log!vars, Pending, Held,
        HasOffered
  <2> QED BY <2>1, <2>2, <2>3 DEF Next
<1> QED BY <1>1, <1>2, JournalInvariant, PTL DEF Spec, ImplementsLog, Log!Spec
=============================================================================
