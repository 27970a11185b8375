--------------------------- MODULE JournalProofs ---------------------------
(***************************************************************************)
(* Proofs about module Journal, for every number of handlers and every     *)
(* size of queue, batch and drain: the stored events of a handler are in   *)
(* the order in which it received them.                                    *)
(***************************************************************************)
EXTENDS Journal, SequenceTheorems, TLAPS

(* The line of events: stored, then in the copy a flush works on, then in  *)
(* the batch, in the hands of the writer and in the queue.                 *)
Front == stored \o toSave
Back  == (batch \o Held) \o queue
Line  == Front \o Back

(* The events of one handler strictly ascend in s, and the handler has     *)
(* offered them.                                                           *)
Ascends(s) ==
  \A m, n \in 1 .. Len(s) :
    m < n /\ s[m][1] = s[n][1] => s[m][2] < s[n][2]
Came(s, count) == \A m \in 1 .. Len(s) : s[m][2] <= count[s[m][1]]
Sound(s, count) == s \in Seq(Events) /\ Ascends(s) /\ Came(s, count)

(* Only a flush in progress has a copy of the batch.                       *)
CopyOwned == wpc \notin {"batch", "each"} => toSave = <<>>

JournalInv == TypeOK /\ CopyOwned /\ Sound(Line, offered)

-----------------------------------------------------------------------------
(* Events and their parts.                                                 *)
LEMMA EventParts ==
  \A e \in Events : e[1] \in Handlers /\ e[2] \in Nat /\ e[2] <= MaxEvents
BY SizesAssumption DEF Events

(* Taking elements out of the middle of a sound line leaves it sound.      *)
LEMMA SoundWithout ==
  ASSUME NEW s \in Seq(Events), NEW t \in Seq(Events), NEW u \in Seq(Events),
         NEW count, Sound((s \o t) \o u, count)
  PROVE  Sound(s \o u, count)
<1> DEFINE long == (s \o t) \o u
           short == s \o u
           at(i) == IF i <= Len(s) THEN i ELSE i + Len(t)
<1>1. /\ long \in Seq(Events) /\ Len(long) = Len(s) + Len(t) + Len(u)
      /\ short \in Seq(Events) /\ Len(short) = Len(s) + Len(u)
      /\ Len(s) \in Nat /\ Len(t) \in Nat /\ Len(u) \in Nat
  BY ConcatProperties, LenProperties
<1>2. \A i \in 1 .. Len(short) :
        at(i) \in 1 .. Len(long) /\ short[i] = long[at(i)]
  BY <1>1
<1>3. \A i, j \in 1 .. Len(short) : i < j => at(i) < at(j)
  BY <1>1
<1> HIDE DEF long, short, at
<1>4. Ascends(short)
  BY <1>2, <1>3 DEF Sound, Ascends, long
<1>5. Came(short, count)
  BY <1>2 DEF Sound, Came, long
<1> QED BY <1>1, <1>4, <1>5 DEF Sound, short

(* An event of a handler that comes after all it has offered joins a sound *)
(* line at its end.                                                        *)
LEMMA SoundAppend ==
  ASSUME NEW s \in Seq(Events), NEW count \in [Handlers -> Nat],
         NEW h \in Handlers, Sound(s, count), count[h] + 1 <= MaxEvents
  PROVE  Sound(Append(s, <<h, count[h] + 1>>),
               [count EXCEPT ![h] = @ + 1])
<1> DEFINE e == <<h, count[h] + 1>>
           long == Append(s, e)
           more == [count EXCEPT ![h] = @ + 1]
<1>1. e \in Events
  BY SizesAssumption DEF Events
<1>2. /\ long \in Seq(Events) /\ Len(long) = Len(s) + 1 /\ Len(s) \in Nat
      /\ long[Len(s) + 1] = e
      /\ \A i \in 1 .. Len(s) : long[i] = s[i] /\ s[i] \in Events
  BY <1>1, AppendProperties, ElementOfSeq, LenProperties
<1>3. \A g \in Handlers : more[g] \in Nat /\ count[g] <= more[g]
  OBVIOUS
<1>4. more[h] = count[h] + 1 /\ e[1] = h /\ e[2] = count[h] + 1
  OBVIOUS
<1> HIDE DEF long, more, e
<1>5. \A i \in 1 .. Len(s) :
        /\ s[i][1] \in Handlers /\ s[i][2] \in Nat
        /\ s[i][2] <= count[s[i][1]]
  BY <1>2, EventParts DEF Sound, Came
<1>6. Came(long, more)
  <2> SUFFICES ASSUME NEW i \in 1 .. Len(long)
               PROVE  long[i][2] <= more[long[i][1]]
    BY DEF Came
  <2>1. CASE i = Len(s) + 1
    BY <2>1, <1>2, <1>4
  <2>2. CASE i \in 1 .. Len(s)
    <3>1. /\ s[i][2] \in Nat /\ count[s[i][1]] \in Nat
          /\ more[s[i][1]] \in Nat
          /\ s[i][2] <= count[s[i][1]] /\ count[s[i][1]] <= more[s[i][1]]
      BY <2>2, <1>3, <1>5
    <3> QED BY <2>2, <3>1, <1>2
  <2> QED BY <2>1, <2>2, <1>2
<1>7. Ascends(long)
  <2> SUFFICES ASSUME NEW m \in 1 .. Len(long), NEW n \in 1 .. Len(long),
                      m < n, long[m][1] = long[n][1]
               PROVE  long[m][2] < long[n][2]
    BY DEF Ascends
  <2>1. m \in 1 .. Len(s)
    BY <1>2
  <2>2. CASE n = Len(s) + 1
    <3>1. long[m] = s[m] /\ s[m][1] = h
      BY <2>1, <2>2, <1>2, <1>4
    <3>2. s[m][2] <= count[h] /\ s[m][2] \in Nat /\ count[h] \in Nat
      BY <2>1, <3>1, <1>5
    <3> QED BY <2>2, <3>1, <3>2, <1>2, <1>4
  <2>3. CASE n \in 1 .. Len(s)
    BY <2>1, <2>3, <1>2 DEF Sound, Ascends
  <2> QED BY <2>2, <2>3, <1>2
<1> QED BY <1>2, <1>6, <1>7 DEF Sound, long, more, e

(* A line stays sound when more events have been offered.                  *)
LEMMA SoundLater ==
  ASSUME NEW s,
         NEW count \in [Handlers -> Nat], NEW more \in [Handlers -> Nat],
         \A h \in Handlers : count[h] <= more[h], Sound(s, count)
  PROVE  Sound(s, more)
<1>1. \A i \in 1 .. Len(s) :
        s[i][1] \in Handlers /\ s[i][2] \in Nat /\ s[i][2] <= count[s[i][1]]
  BY EventParts, ElementOfSeq DEF Sound, Came
<1>2. Came(s, more)
  BY <1>1 DEF Came
<1> QED BY <1>2 DEF Sound

(* The first part of a sound line is sound.                                *)
LEMMA SoundPrefix ==
  ASSUME NEW s \in Seq(Events), NEW t \in Seq(Events), NEW count,
         Sound(s \o t, count)
  PROVE  Ascends(s)
<1>1. Sound((s \o t) \o <<>>, count)
  BY ConcatEmptySeq, ConcatProperties
<1>2. Sound(s \o <<>>, count)
  BY <1>1, SoundWithout, EmptySeq
<1> QED BY <1>2, ConcatEmptySeq DEF Sound

(* The head of t may be moved to the end of s.                             *)
LEMMA MoveHead ==
  ASSUME NEW s \in Seq(Events), NEW t \in Seq(Events), t # <<>>
  PROVE  /\ Head(t) \in Events /\ Tail(t) \in Seq(Events)
         /\ t = <<Head(t)>> \o Tail(t)
         /\ s \o t = Append(s, Head(t)) \o Tail(t)
         /\ s \o t = (s \o <<Head(t)>>) \o Tail(t)
<1>1. Head(t) \in Events /\ Tail(t) \in Seq(Events)
  BY HeadTailProperties
<1>2. t = <<Head(t)>> \o Tail(t)
  <2>1. /\ Len(Tail(t)) = Len(t) - 1 /\ Len(t) \in Nat /\ Len(t) >= 1
        /\ \A i \in 1 .. Len(Tail(t)) : Tail(t)[i] = t[i + 1]
        /\ Head(t) = t[1]
    BY HeadTailProperties, EmptySeq, LenProperties
  <2>2. /\ <<Head(t)>> \o Tail(t) \in Seq(Events)
        /\ Len(<<Head(t)>> \o Tail(t)) = Len(t)
    BY <1>1, <2>1, ConcatProperties
  <2>3. \A i \in 1 .. Len(t) : (<<Head(t)>> \o Tail(t))[i] = t[i]
    BY <1>1, <2>1
  <2> QED BY <2>2, <2>3, SeqEqual
<1>3. s \o (<<Head(t)>> \o Tail(t)) = (s \o <<Head(t)>>) \o Tail(t)
  BY <1>1, ConcatAssociative
<1>4. Append(s, Head(t)) = s \o <<Head(t)>>
  BY <1>1, AppendIsConcat
<1> QED BY <1>1, <1>2, <1>3, <1>4

-----------------------------------------------------------------------------
LEMMA Segments ==
  ASSUME TypeOK
  PROVE  /\ stored \in Seq(Events) /\ toSave \in Seq(Events)
         /\ batch \in Seq(Events) /\ Held \in Seq(Events)
         /\ queue \in Seq(Events) /\ <<>> \in Seq(Events)
         /\ Front \in Seq(Events) /\ Back \in Seq(Events)
         /\ batch \o Held \in Seq(Events)
         /\ offered \in [Handlers -> Nat]
<1>1. /\ stored \in Seq(Events) /\ toSave \in Seq(Events)
      /\ batch \in Seq(Events) /\ queue \in Seq(Events)
      /\ offered \in [Handlers -> Nat]
  BY SizesAssumption
  DEF TypeOK, HandlerTypes, QueueTypes, WriterTypes, StoreTypes
<1>2. Held \in Seq(Events)
  BY DEF TypeOK, WriterTypes, Holding, Held
<1>3. Front \in Seq(Events) /\ batch \o Held \in Seq(Events)
  BY <1>1, <1>2, ConcatProperties DEF Front
<1>4. Back \in Seq(Events)
  BY <1>1, <1>3, ConcatProperties DEF Back
<1> QED BY <1>1, <1>2, <1>3, <1>4, EmptySeq

-----------------------------------------------------------------------------
LEMMA InitSound == Init => JournalInv
<1> SUFFICES ASSUME Init PROVE JournalInv
  OBVIOUS
<1>1. TypeOK
  <2>1. <<>> \in Seq(Events) /\ Len(<<>>) = 0
    BY EmptySeq
  <2>2. HandlerTypes
    BY SizesAssumption DEF Init, HandlerTypes
  <2>3. QueueTypes
    BY <2>1, SizesAssumption DEF Init, QueueTypes
  <2>4. WriterTypes
    BY <2>1, SizesAssumption DEF Init, WriterTypes, Holding
  <2>5. StoreTypes
    BY <2>1 DEF Init, StoreTypes
  <2> QED BY <2>2, <2>3, <2>4, <2>5 DEF TypeOK
<1>2. CopyOwned
  BY DEF Init, CopyOwned
<1>3. Line = <<>>
  BY DEF Init, Line, Front, Back, Held
<1>4. Sound(Line, offered)
  BY <1>3, EmptySeq DEF Sound, Ascends, Came
<1> QED BY <1>1, <1>2, <1>4 DEF JournalInv

-----------------------------------------------------------------------------
(* The types.  One step per action, and one per part it can disturb.       *)

LEMMA HandlerKeepsTypes ==
  ASSUME TypeOK, NEW h \in Handlers, HandlerStep(h)
  PROVE  TypeOK'
<1> USE SizesAssumption
<1>1. queue \in Seq(Events) /\ Len(queue) \in Nat /\ Len(queue) <= QueueSize
  BY LenProperties DEF TypeOK, QueueTypes
<1>2. /\ WriterTypes'
      /\ StoreTypes'
  BY ZenonT(60) DEF TypeOK, WriterTypes, Holding, StoreTypes, HandlerStep, Offer,
         Displace, OfferAgain, flushVars, historyVars
<1>3. CASE Offer(h)
  <2>1. Event(h) \in Events
    BY <1>3 DEF TypeOK, HandlerTypes, Offer, Event, Events
  <2>2. /\ Append(queue, Event(h)) \in Seq(Events)
        /\ Len(Append(queue, Event(h))) = Len(queue) + 1
    BY <1>1, <2>1, AppendProperties
  <2>3. QueueTypes'
    BY <1>1, <1>3, <2>2 DEF TypeOK, QueueTypes, Offer
  <2>4. HandlerTypes'
    BY <1>3 DEF TypeOK, HandlerTypes, Offer, EnqueueDone
  <2> QED BY <1>2, <2>3, <2>4 DEF TypeOK
<1>4. CASE Displace(h)
  <2>1. queue # <<>> =>
          /\ Tail(queue) \in Seq(Events)
          /\ Len(Tail(queue)) = Len(queue) - 1
    BY <1>1, HeadTailProperties
  <2>2. QueueTypes'
    BY <1>1, <1>4, <2>1 DEF TypeOK, QueueTypes, Displace
  <2>3. HandlerTypes'
    BY <1>4 DEF TypeOK, HandlerTypes, Displace, EnqueueDone
  <2> QED BY <1>2, <2>2, <2>3 DEF TypeOK
<1>5. CASE OfferAgain(h)
  <2>1. Event(h) \in Events
    BY <1>5 DEF TypeOK, HandlerTypes, OfferAgain, Event, Events
  <2>2. /\ Append(queue, Event(h)) \in Seq(Events)
        /\ Len(Append(queue, Event(h))) = Len(queue) + 1
    BY <1>1, <2>1, AppendProperties
  <2>3. QueueTypes'
    BY <1>1, <1>5, <2>2, SMTT(30) DEF TypeOK, QueueTypes, OfferAgain
  <2>4. HandlerTypes'
    BY <1>5 DEF TypeOK, HandlerTypes, OfferAgain, EnqueueDone
  <2> QED BY <1>2, <2>3, <2>4 DEF TypeOK
<1> QED BY <1>3, <1>4, <1>5 DEF HandlerStep

LEMMA FlushKeepsTypes ==
  ASSUME TypeOK, FlushStep
  PROVE  TypeOK'
<1> USE SizesAssumption
<1>1. HandlerTypes' /\ QueueTypes'
  BY DEF TypeOK, HandlerTypes, QueueTypes, FlushStep, BatchCommit, BatchFail,
         EachSaved, EachFailed, FlushEnd, handlerVars, historyVars
<1>2. <<>> \in Seq(Events)
  BY EmptySeq
<1>3. CASE BatchCommit
  <2>1. stored' \in Seq(Events)
    BY <1>3, ConcatProperties DEF TypeOK, WriterTypes, StoreTypes, BatchCommit
  <2>2. StoreTypes'
    BY <1>3, <2>1 DEF TypeOK, StoreTypes, BatchCommit, historyVars
  <2>3. WriterTypes'
    BY <1>2, <1>3 DEF TypeOK, WriterTypes, Holding, BatchCommit, FlushReturn
  <2> QED BY <1>1, <2>2, <2>3 DEF TypeOK
<1>4. CASE BatchFail
  BY <1>1, <1>4
  DEF TypeOK, WriterTypes, Holding, StoreTypes, BatchFail, historyVars
<1>5. CASE EachSaved
  <2>1. stored' \in Seq(Events) /\ toSave' \in Seq(Events)
    BY <1>5, MoveHead, AppendProperties
    DEF TypeOK, WriterTypes, StoreTypes, EachSaved
  <2>2. StoreTypes'
    BY <1>5, <2>1 DEF TypeOK, StoreTypes, EachSaved, historyVars
  <2>3. WriterTypes'
    BY <1>5, <2>1 DEF TypeOK, WriterTypes, Holding, EachSaved
  <2> QED BY <1>1, <2>2, <2>3 DEF TypeOK
<1>6. CASE EachFailed
  <2>1. toSave' \in Seq(Events) /\ refused' \in BOOLEAN
    BY <1>6, MoveHead DEF TypeOK, WriterTypes, StoreTypes, EachFailed
  <2>2. StoreTypes'
    BY <1>6, <2>1 DEF TypeOK, StoreTypes, EachFailed
  <2>3. WriterTypes'
    BY <1>6, <2>1 DEF TypeOK, WriterTypes, Holding, EachFailed
  <2> QED BY <1>1, <2>2, <2>3 DEF TypeOK
<1>7. CASE FlushEnd
  <2>1. StoreTypes'
    BY <1>7 DEF TypeOK, StoreTypes, FlushEnd, historyVars
  <2>2. WriterTypes'
    BY <1>2, <1>7 DEF TypeOK, WriterTypes, Holding, FlushEnd, FlushReturn
  <2> QED BY <1>1, <2>1, <2>2 DEF TypeOK
<1> QED BY <1>3, <1>4, <1>5, <1>6, <1>7 DEF FlushStep

(* A flush begins with any batch and returns where it is told to.          *)
LEMMA FlushBegins ==
  ASSUME TypeOK,
         NEW events \in Seq(Events), NEW to \in {"idle", "emit", "done"},
         Flush(events, to), cur' = cur, drained' = drained,
         to = "emit" => cur \in Events
  PROVE  WriterTypes'
<1>1. <<>> \in Seq(Events)
  BY EmptySeq
<1> QED BY <1>1, SizesAssumption DEF TypeOK, WriterTypes, Holding, Flush

LEMMA WriterKeepsTypes ==
  ASSUME TypeOK, WriterStep
  PROVE  TypeOK'
<1> USE SizesAssumption
<1>1. CASE Pop
  <2>1. /\ cur' \in Events /\ queue' \in Seq(Events)
        /\ Len(queue') <= QueueSize
    BY <1>1, HeadTailProperties, LenProperties DEF TypeOK, QueueTypes, Pop
  <2>2. WriterTypes'
    BY <1>1, <2>1 DEF TypeOK, WriterTypes, Holding, Pop, flushVars
  <2> QED BY <1>1, <2>1, <2>2
          DEF TypeOK, HandlerTypes, QueueTypes, StoreTypes, Pop, handlerVars,
              historyVars
<1>2. CASE Collect
  <2>1. Append(batch, cur) \in Seq(Events) /\ cur \in Events
    BY <1>2, AppendProperties DEF TypeOK, WriterTypes, Holding, Collect
  <2>2. WriterTypes'
    <3>1. CASE Len(batch) + 1 < BatchSize
      BY <1>2, <2>1, <3>1 DEF TypeOK, WriterTypes, Holding, Collect, flushVars
    <3>2. CASE ~(Len(batch) + 1 < BatchSize)
      BY <1>2, <2>1, <3>2, FlushBegins DEF Collect
    <3> QED BY <3>1, <3>2
  <2> QED BY <1>2, <2>2
          DEF TypeOK, HandlerTypes, QueueTypes, StoreTypes, Collect,
              handlerVars, historyVars
<1>3. CASE Drain
  <2>1. /\ batch' \in Seq(Events) /\ queue' \in Seq(Events)
        /\ Len(queue') <= QueueSize
    BY <1>3, HeadTailProperties, AppendProperties, LenProperties
    DEF TypeOK, QueueTypes, WriterTypes, Drain
  <2>2. WriterTypes'
    BY <1>3, <2>1 DEF TypeOK, WriterTypes, Holding, Drain, flushVars
  <2> QED BY <1>3, <2>1, <2>2
          DEF TypeOK, HandlerTypes, QueueTypes, StoreTypes, Drain, handlerVars,
              historyVars
<1>4. CASE Tick \/ DrainEnd
  <2>1. batch \in Seq(Events)
    BY DEF TypeOK, WriterTypes
  <2>2. WriterTypes'
    BY <1>4, <2>1, FlushBegins DEF Tick, DrainEnd
  <2> QED BY <1>4, <2>2
          DEF TypeOK, HandlerTypes, QueueTypes, StoreTypes, Tick, DrainEnd,
              handlerVars, historyVars
<1>5. CASE PopCancelled \/ Emit \/ StartDrain
  BY <1>5
  DEF TypeOK, HandlerTypes, QueueTypes, WriterTypes, Holding, StoreTypes,
      PopCancelled, Emit, StartDrain, handlerVars, flushVars, historyVars
<1>6. CASE FlushStep
  BY <1>6, FlushKeepsTypes
<1> QED BY <1>1, <1>2, <1>3, <1>4, <1>5, <1>6 DEF WriterStep

LEMMA NextKeepsTypes ==
  ASSUME TypeOK, [Next]_vars
  PROVE  TypeOK'
<1>1. CASE \E h \in Handlers : HandlerStep(h)
  BY <1>1, HandlerKeepsTypes
<1>2. CASE WriterStep
  BY <1>2, WriterKeepsTypes
<1>3. CASE Cancel \/ Expire \/ UNCHANGED vars
  BY <1>3, ZenonT(60)
  DEF TypeOK, HandlerTypes, QueueTypes, WriterTypes, Holding, StoreTypes,
      Cancel, Expire, vars, handlerVars, flushVars, historyVars
<1> QED BY <1>1, <1>2, <1>3 DEF Next

-----------------------------------------------------------------------------
(* The line.  The writer moves events along it and takes some out; the     *)
(* handlers add to its end and take out its oldest queued event.           *)

LEMMA NextKeepsCopy ==
  ASSUME TypeOK, CopyOwned, [Next]_vars
  PROVE  CopyOwned'
<1>1. CASE WriterStep
  BY <1>1
  DEF TypeOK, WriterTypes, CopyOwned, WriterStep, FlushStep, Pop, PopCancelled,
      Collect, Emit, Tick, StartDrain, Drain, DrainEnd, BatchCommit, BatchFail,
      EachSaved, EachFailed, FlushEnd, Flush, FlushReturn, flushVars
<1>2. CASE ~WriterStep
  BY <1>2
  DEF CopyOwned, Next, HandlerStep, Offer, Displace, OfferAgain, Cancel,
      Expire, vars, flushVars
<1> QED BY <1>1, <1>2

(* Two ways to put three segments together.                                *)
LEMMA Regroup ==
  ASSUME NEW s \in Seq(Events), NEW t \in Seq(Events), NEW u \in Seq(Events)
  PROVE  /\ s \o t \in Seq(Events)
         /\ t \o u \in Seq(Events)
         /\ s \o (t \o u) \in Seq(Events)
         /\ s \o (t \o u) = (s \o t) \o u
<1>1. s \o t \in Seq(Events) /\ t \o u \in Seq(Events)
  BY ConcatProperties
<1>2. s \o (t \o u) \in Seq(Events)
  BY <1>1, ConcatProperties
<1>3. s \o (t \o u) = (s \o t) \o u
  BY ConcatAssociative, SMTT(30)
<1> QED BY <1>1, <1>2, <1>3

(* The part of the line before the queue.                                  *)
LEMMA LineAtQueue ==
  ASSUME TypeOK
  PROVE  /\ Front \o (batch \o Held) \in Seq(Events)
         /\ Line = (Front \o (batch \o Held)) \o queue
<1>1. /\ Front \in Seq(Events) /\ batch \o Held \in Seq(Events)
      /\ queue \in Seq(Events)
  BY Segments
<1>2. Front \o ((batch \o Held) \o queue)
        = (Front \o (batch \o Held)) \o queue
  BY <1>1, Regroup, SMTT(30)
<1>3. Front \o (batch \o Held) \in Seq(Events)
  BY <1>1, Regroup, ZenonT(30)
<1> QED BY <1>2, <1>3 DEF Line, Back

LEMMA HandlerKeepsLine ==
  ASSUME JournalInv, TypeOK', NEW h \in Handlers, HandlerStep(h)
  PROVE  Sound(Line', offered')
<1> DEFINE P == Front \o (batch \o Held)
<1> USE DEF JournalInv
<1>0. offered \in [Handlers -> 0 .. MaxEvents]
  BY DEF TypeOK, HandlerTypes
<1>1. /\ P \in Seq(Events) /\ queue \in Seq(Events) /\ Line \in Seq(Events)
      /\ Line = P \o queue
      /\ offered \in [Handlers -> Nat] /\ offered' \in [Handlers -> Nat]
  <2>1. queue \in Seq(Events) /\ offered \in [Handlers -> Nat]
    BY Segments
  <2>2. P \in Seq(Events) /\ Line = P \o queue
    BY LineAtQueue
  <2>3. Line \in Seq(Events)
    BY DEF Sound
  <2>4. offered' \in [Handlers -> Nat]
    BY SizesAssumption DEF TypeOK, HandlerTypes
  <2> QED BY <2>1, <2>2, <2>3, <2>4
<1>2. Line' = P \o queue'
  <2>1. Front' = Front /\ batch' = batch /\ Held' = Held
    BY DEF HandlerStep, Offer, Displace, OfferAgain, flushVars, Front, Held
  <2>2. Line' = Front \o ((batch \o Held) \o queue')
    BY <2>1 DEF Line, Back
  <2>3. Front \in Seq(Events) /\ batch \o Held \in Seq(Events)
    BY Segments
  <2>4. queue' \in Seq(Events)
    BY DEF TypeOK, QueueTypes
  <2> DEFINE middle == batch \o Held
             last == queue'
  <2> HIDE DEF middle, last
  <2>5. Front \o (middle \o last) = (Front \o middle) \o last
    <3>1. Front \in Seq(Events)
      BY <2>3
    <3>2. middle \in Seq(Events)
      BY <2>3 DEF middle
    <3>3. last \in Seq(Events)
      BY <2>4 DEF last
    <3> QED BY <3>1, <3>2, <3>3, Regroup, SMTT(30)
  <2> QED BY <2>2, <2>5 DEF middle, last
<1> HIDE DEF P
<1>3. ASSUME queue' = Append(queue, Event(h)), offered[h] + 1 <= MaxEvents,
             offered' = [offered EXCEPT ![h] = @ + 1]
      PROVE  Sound(Line', offered')
  <2>1. Event(h) \in Events
    BY <1>1, <1>3, SizesAssumption DEF Event, Events
  <2>2. Line' = Append(Line, Event(h))
    <3> DEFINE e == Event(h)
    <3>1. e \in Events /\ <<e>> \in Seq(Events)
      BY <2>1
    <3>2. Append(queue, e) = queue \o <<e>>
      BY <1>1, <3>1, AppendIsConcat
    <3>3. Append(Line, e) = Line \o <<e>>
      BY <1>1, <3>1, AppendIsConcat
    <3>4. P \o (queue \o <<e>>) = (P \o queue) \o <<e>>
      <4> HIDE DEF e
      <4>1. P \in Seq(Events) /\ queue \in Seq(Events)
        BY <1>1
      <4>2. <<e>> \in Seq(Events)
        BY <3>1
      <4> QED BY <4>1, <4>2, Regroup, ZenonT(30)
    <3> QED BY <1>1, <1>2, <1>3, <3>2, <3>3, <3>4
  <2>3. Sound(Append(Line, <<h, offered[h] + 1>>),
              [offered EXCEPT ![h] = @ + 1])
    BY <1>1, <1>3, SoundAppend
  <2> QED BY <1>3, <2>2, <2>3 DEF Event
<1>4. ASSUME queue' = queue, \A g \in Handlers : offered[g] <= offered'[g]
      PROVE  Sound(Line', offered')
  <2>1. Line' = Line
    BY <1>1, <1>2, <1>4
  <2> QED BY <1>1, <1>4, <2>1, SoundLater
<1>5. CASE Offer(h)
  <2>1. offered[h] + 1 <= MaxEvents
    BY <1>0, <1>5, SizesAssumption DEF Offer
  <2>2. CASE Len(queue) < QueueSize
    <3>1. Len(queue) \in Nat /\ QueueSize \in Nat
      BY <1>1, LenProperties, SizesAssumption
    <3>2. queue' = Append(queue, Event(h)) /\ EnqueueDone(h, "idle")
      BY <1>5, <2>2, <3>1 DEF Offer
    <3>3. offered' = [offered EXCEPT ![h] = @ + 1]
      BY <3>2 DEF EnqueueDone
    <3> QED BY <1>3, <2>1, <3>2, <3>3
  <2>3. CASE ~(Len(queue) < QueueSize)
    <3>1. queue' = queue /\ EnqueueDone(h, "full")
      BY <1>5, <2>3 DEF Offer
    <3>2. offered' = offered
      BY <3>1 DEF EnqueueDone
    <3> QED BY <1>1, <1>4, <3>1, <3>2
  <2> QED BY <2>2, <2>3
<1>6. CASE Displace(h)
  <2>1. offered' = offered
    BY <1>6 DEF Displace, EnqueueDone
  <2>2. CASE queue = <<>>
    BY <1>1, <1>4, <1>6, <2>1, <2>2 DEF Displace
  <2>3. CASE queue # <<>>
    <3> DEFINE gone == <<Head(queue)>>
               rest == Tail(queue)
    <3>1. /\ Head(queue) \in Events /\ rest \in Seq(Events)
          /\ P \o queue = (P \o gone) \o rest
      BY <1>1, <2>3, MoveHead
    <3>2. gone \in Seq(Events)
      BY <3>1
    <3>3. Line' = P \o rest
      BY <1>2, <1>6, <2>3 DEF Displace
    <3> HIDE DEF gone, rest
    <3>4. Sound((P \o gone) \o rest, offered)
      BY <1>1, <3>1
    <3>5. Sound(P \o rest, offered)
      BY <1>1, <3>1, <3>2, <3>4, SoundWithout
    <3> QED BY <2>1, <3>3, <3>5
  <2> QED BY <2>2, <2>3
<1>7. CASE OfferAgain(h)
  <2>1. offered[h] + 1 <= MaxEvents
    BY <1>0, <1>7, SizesAssumption DEF OfferAgain, TypeOK, HandlerTypes
  <2>2. offered' = [offered EXCEPT ![h] = @ + 1]
    BY <1>7 DEF OfferAgain, EnqueueDone
  <2>3. CASE queue' = Append(queue, Event(h))
    BY <1>3, <2>1, <2>2, <2>3
  <2>4. CASE queue' = queue
    BY <1>1, <1>4, <2>2, <2>4
  <2> QED BY <1>7, <2>3, <2>4 DEF OfferAgain
<1> QED BY <1>5, <1>6, <1>7 DEF HandlerStep

LEMMA FlushKeepsLine ==
  ASSUME JournalInv, TypeOK', FlushStep
  PROVE  Sound(Line', offered')
<1> USE DEF JournalInv
<1>1. offered' = offered /\ Back' = Back /\ Held = <<>>
  BY DEF FlushStep, BatchCommit, BatchFail, EachSaved, EachFailed, FlushEnd,
         FlushReturn, TypeOK, WriterTypes, handlerVars, Back, Held
<1>2. /\ stored \in Seq(Events) /\ toSave \in Seq(Events)
      /\ Front \in Seq(Events) /\ Back \in Seq(Events)
      /\ <<>> \in Seq(Events)
  BY Segments
<1>3. ASSUME Front' = Front PROVE Sound(Line', offered')
  BY <1>1, <1>3 DEF Line
<1>4. CASE BatchCommit
  <2>1. stored \o toSave \in Seq(Events)
    BY <1>2, ConcatProperties
  <2>2. Front' = Front
    BY <1>4, <2>1, ConcatEmptySeq DEF BatchCommit, FlushReturn, Front
  <2> QED BY <1>3, <2>2
<1>5. CASE BatchFail
  BY <1>3, <1>5 DEF BatchFail, Front
<1>6. CASE EachSaved
  BY <1>2, <1>3, <1>6, MoveHead DEF EachSaved, Front
<1>7. CASE EachFailed
  <2>1. CASE toSave' = toSave
    BY <1>3, <1>7, <2>1 DEF EachFailed, Front
  <2>2. CASE toSave' = Tail(toSave)
    <3>1. toSave # <<>> /\ stored' = stored
      BY <1>7 DEF EachFailed
    <3> DEFINE gone == <<Head(toSave)>>
               rest == Tail(toSave)
    <3>2. /\ Head(toSave) \in Events /\ rest \in Seq(Events)
          /\ stored \o toSave = (stored \o gone) \o rest
      BY <1>2, <3>1, MoveHead
    <3>3. gone \in Seq(Events)
      BY <3>2
    <3>4. Line' = (stored \o rest) \o Back
      BY <1>1, <2>2, <3>1 DEF Line, Front
    <3>5. Line = ((stored \o gone) \o rest) \o Back
      BY <3>2 DEF Line, Front
    <3> HIDE DEF gone, rest
    <3>6. stored \o gone \in Seq(Events) /\ rest \o Back \in Seq(Events)
      BY <1>2, <3>2, <3>3, ConcatProperties
    <3> DEFINE kept == stored \o gone
    <3>7. ((stored \o gone) \o rest) \o Back
            = (stored \o gone) \o (rest \o Back)
      <4>1. kept \in Seq(Events)
        BY <3>6
      <4> HIDE DEF kept
      <4>2. (kept \o rest) \o Back = kept \o (rest \o Back)
        <5>1. rest \in Seq(Events) /\ Back \in Seq(Events)
          BY <1>2, <3>2
        <5> QED BY <4>1, <5>1, Regroup, ZenonT(30)
      <4> QED BY <4>2 DEF kept
    <3>8. (stored \o rest) \o Back = stored \o (rest \o Back)
      <4>1. /\ stored \in Seq(Events) /\ rest \in Seq(Events)
            /\ Back \in Seq(Events)
        BY <1>2, <3>2
      <4> QED BY <4>1, Regroup, SMTT(30)
    <3>9. Sound((stored \o gone) \o (rest \o Back), offered)
      BY <3>5, <3>7
    <3>10. Sound(stored \o (rest \o Back), offered)
      BY <1>2, <3>3, <3>6, <3>9, SoundWithout
    <3> QED BY <1>1, <3>4, <3>8, <3>10
  <2> QED BY <1>7, <2>1, <2>2 DEF EachFailed
<1>8. CASE FlushEnd
  <2>1. Sound(stored \o Back, offered)
    BY <1>2, SoundWithout DEF Line, Front
  <2>2. Front' = stored
    BY <1>2, <1>8, ConcatEmptySeq DEF FlushEnd, FlushReturn, Front
  <2> QED BY <1>1, <2>1, <2>2 DEF Line
<1> QED BY <1>4, <1>5, <1>6, <1>7, <1>8 DEF FlushStep

(* The writer passes events on without changing their order: what it takes *)
(* off the queue joins the batch, and a flush begins with the whole batch. *)
PassOn == Pop \/ Collect \/ Emit \/ Tick \/ StartDrain \/ Drain \/ DrainEnd

LEMMA PassOnKeepsPending ==
  ASSUME JournalInv, TypeOK', PassOn
  PROVE  /\ toSave' \o Back' = toSave \o Back
         /\ UNCHANGED <<stored, offered>>
<1> USE DEF JournalInv
<1>0. UNCHANGED <<stored, offered>>
  BY DEF PassOn, Pop, Collect, Emit, Tick, StartDrain, Drain, DrainEnd,
         handlerVars
<1>1. /\ toSave \in Seq(Events) /\ batch \in Seq(Events)
      /\ queue \in Seq(Events) /\ Back \in Seq(Events)
      /\ batch \o Held \in Seq(Events) /\ <<>> \in Seq(Events)
      /\ batch' \in Seq(Events)
  BY Segments DEF TypeOK, WriterTypes
<1>2. CASE Pop
  <2>1. queue # <<>> /\ Held = <<>> /\ batch' = batch
    BY <1>2 DEF Pop, Held
  <2>2. Back = batch \o queue
    BY <1>1, <2>1, ConcatEmptySeq DEF Back
  <2>3. Back' = (batch \o <<Head(queue)>>) \o Tail(queue)
    BY <1>2, <2>1 DEF Pop, Back, Held
  <2>4. Back' = Back
    BY <1>1, <2>1, <2>2, <2>3, MoveHead
  <2> QED BY <1>0, <1>2, <2>4 DEF Pop, flushVars
(* A flush that begins moves the whole batch over to the copy.             *)
<1>3. ASSUME queue' = queue, toSave = <<>>, toSave' = batch \o Held,
             batch' = <<>>, Held' = <<>>
      PROVE  toSave' \o Back' = toSave \o Back
  <2>1. toSave \o Back = (batch \o Held) \o queue
    BY <1>1, <1>3, ConcatEmptySeq DEF Back
  <2>2. Back' = queue
    BY <1>1, <1>3, ConcatEmptySeq DEF Back
  <2> QED BY <1>3, <2>1, <2>2
<1>4. CASE Collect
  <2>1. Held = <<cur>> /\ cur \in Events /\ Held' = <<>>
    BY <1>4 DEF Collect, Flush, Held, TypeOK, WriterTypes, Holding
  <2>2. batch \o Held = Append(batch, cur)
    BY <1>1, <2>1, AppendIsConcat
  <2>3. CASE Len(batch) + 1 < BatchSize
    <3>1. Back' = Back
      BY <1>1, <1>4, <2>1, <2>2, <2>3, ConcatEmptySeq DEF Collect, Back
    <3> QED BY <1>0, <1>4, <2>3, <3>1 DEF Collect, flushVars
  <2>4. CASE ~(Len(batch) + 1 < BatchSize)
    <3>1. toSave = <<>>
      BY <1>4 DEF Collect, CopyOwned
    <3> QED BY <1>0, <1>3, <1>4, <2>1, <2>2, <2>4, <3>1 DEF Collect, Flush
  <2> QED BY <2>3, <2>4
<1>5. CASE Tick \/ DrainEnd
  <2>1. Held = <<>> /\ Held' = <<>> /\ toSave = <<>>
    BY <1>5 DEF Tick, DrainEnd, Flush, Held, CopyOwned
  <2>2. toSave' = batch \o Held /\ batch' = <<>>
    BY <1>1, <1>5, <2>1, ConcatEmptySeq DEF Tick, DrainEnd, Flush
  <2> QED BY <1>0, <1>3, <1>5, <2>1, <2>2 DEF Tick, DrainEnd
<1>6. CASE Drain
  <2>1. queue # <<>> /\ Held = <<>> /\ Held' = <<>>
    BY <1>6 DEF Drain, Held
  <2>2. Back = batch \o queue
    BY <1>1, <2>1, ConcatEmptySeq DEF Back
  <2>3. Back' = Append(batch, Head(queue)) \o Tail(queue)
    BY <1>1, <1>6, <2>1, ConcatEmptySeq DEF Drain, Back
  <2>4. Back' = Back
    BY <1>1, <2>1, <2>2, <2>3, MoveHead
  <2> QED BY <1>0, <1>6, <2>4 DEF Drain, flushVars
<1>7. CASE Emit \/ StartDrain
  BY <1>0, <1>7 DEF Emit, StartDrain, Back, Held, flushVars
<1> QED BY <1>2, <1>4, <1>5, <1>6, <1>7 DEF PassOn

LEMMA WriterKeepsLine ==
  ASSUME JournalInv, TypeOK', WriterStep
  PROVE  Sound(Line', offered')
<1> USE DEF JournalInv
<1>1. /\ stored \in Seq(Events) /\ batch \in Seq(Events)
      /\ queue \in Seq(Events) /\ Front \in Seq(Events)
      /\ <<>> \in Seq(Events)
  BY Segments
<1>2. CASE PassOn
  <2>1. /\ toSave' \o Back' = toSave \o Back
        /\ UNCHANGED <<stored, offered>>
    BY <1>2, PassOnKeepsPending
  <2>2. Line = stored \o (toSave \o Back)
    <3>1. /\ stored \in Seq(Events) /\ toSave \in Seq(Events)
          /\ Back \in Seq(Events)
      BY Segments
    <3>2. stored \o (toSave \o Back) = (stored \o toSave) \o Back
      BY <3>1, Regroup, SMTT(30)
    <3> QED BY <3>2 DEF Line, Front
  <2>3. Line' = stored' \o (toSave' \o Back')
    <3> DEFINE copy == toSave'
               rest == Back'
    <3>1. copy \in Seq(Events)
      BY DEF TypeOK, WriterTypes
    <3>2. rest \in Seq(Events)
      <4>1. Held' \in Seq(Events) /\ batch' \in Seq(Events)
            /\ queue' \in Seq(Events)
        BY DEF TypeOK, QueueTypes, WriterTypes, Holding, Held
      <4>2. batch' \o Held' \in Seq(Events)
        BY <4>1, ConcatProperties
      <4>3. (batch' \o Held') \o queue' \in Seq(Events)
        BY <4>1, <4>2, ConcatProperties
      <4> QED BY <4>3 DEF Back
    <3> HIDE DEF copy, rest
    <3>3. stored \in Seq(Events)
      BY <1>1
    <3>4. stored \o (copy \o rest) = (stored \o copy) \o rest
      BY <3>1, <3>2, <3>3, Regroup, ZenonT(30)
    <3> QED BY <2>1, <3>4 DEF Line, Front, copy, rest
  <2> QED BY <2>1, <2>2, <2>3
<1>3. CASE PopCancelled
  <2>1. Held \in Seq(Events)
    BY Segments
  <2>2. /\ Line = ((Front \o batch) \o Held) \o queue
        /\ Front \o batch \in Seq(Events)
    BY <1>1, <2>1, LineAtQueue, ConcatAssociative, ConcatProperties, SMTT(30)
  <2>3. Sound((Front \o batch) \o queue, offered)
    BY <1>1, <2>1, <2>2, SoundWithout
  <2>4. Line' = Front \o (batch \o queue)
    BY <1>1, <1>3, ConcatEmptySeq
    DEF PopCancelled, Line, Front, Back, Held, flushVars
  <2>5. Line' = (Front \o batch) \o queue
    BY <1>1, <2>4, Regroup, SMTT(30)
  <2> QED BY <1>3, <2>3, <2>5 DEF PopCancelled, handlerVars
<1>4. CASE FlushStep
  BY <1>4, FlushKeepsLine
<1> QED BY <1>2, <1>3, <1>4 DEF WriterStep, PassOn

-----------------------------------------------------------------------------
(* The inductive invariant of the journal.                                 *)
LEMMA JournalInvariant == Spec => []JournalInv
<1>1. JournalInv /\ [Next]_vars => JournalInv'
  <2> SUFFICES ASSUME JournalInv, [Next]_vars PROVE JournalInv'
    OBVIOUS
  <2>1. TypeOK' /\ CopyOwned'
    BY NextKeepsTypes, NextKeepsCopy DEF JournalInv
  <2>2. Sound(Line', offered')
    <3>1. CASE \E h \in Handlers : HandlerStep(h)
      BY <2>1, <3>1, HandlerKeepsLine
    <3>2. CASE WriterStep
      BY <2>1, <3>2, WriterKeepsLine
    <3>3. CASE Cancel \/ Expire \/ UNCHANGED vars
      BY <3>3
      DEF JournalInv, Cancel, Expire, vars, handlerVars, flushVars, Line,
          Front, Back, Held
    <3> QED BY <3>1, <3>2, <3>3 DEF Next
  <2>3. Sound(Line, offered)'
    BY <2>2 DEF Sound, Ascends, Came
  <2> QED BY <2>1, <2>3 DEF JournalInv
<1> QED BY <1>1, InitSound, PTL DEF Spec

(* The types of the journal.                                               *)
THEOREM JournalTypes == Spec => []TypeOK
<1>1. JournalInv => TypeOK
  BY DEF JournalInv
<1> QED BY <1>1, JournalInvariant, PTL

(* The events of a handler are stored in their order and none twice,       *)
(* whatever the retries, the fallback, the overflow and the shutdown do.   *)
THEOREM EventsStoredInOrder == Spec => []StoredOnceInOrder
<1>1. JournalInv => StoredOnceInOrder
  <2> SUFFICES ASSUME JournalInv PROVE StoredOnceInOrder
    OBVIOUS
  <2>0. /\ stored \in Seq(Events) /\ toSave \in Seq(Events)
        /\ Back \in Seq(Events)
    BY Segments DEF JournalInv
  <2>1. /\ toSave \o Back \in Seq(Events)
        /\ Line = stored \o (toSave \o Back)
    BY <2>0, Regroup, SMTT(30) DEF Line, Front
  <2>2. Ascends(stored)
    BY <2>0, <2>1, SoundPrefix DEF JournalInv
  <2>3. DOMAIN stored = 1 .. Len(stored)
    BY <2>0, LenProperties
  <2>4. \A m, n \in 1 .. Len(stored) :
          m < n /\ stored[m][1] = stored[n][1] => stored[m][2] < stored[n][2]
    BY <2>2 DEF Ascends
  <2> QED BY <2>3, <2>4, Zenon DEF StoredOnceInOrder
<1> QED BY <1>1, JournalInvariant, PTL
=============================================================================
