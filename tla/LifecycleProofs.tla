-------------------------- MODULE LifecycleProofs --------------------------
(***************************************************************************)
(* Proofs about module Lifecycle, for any finite number of overlapping     *)
(* calls of SaveConfig.                                                    *)
(***************************************************************************)
EXTENDS Lifecycle, FiniteSetTheorems, TLAPS

(* Each generation after the first has a finished call that started it.    *)
Finished == {s \in Savers : pc[s] = "finished"}
Counted == gen <= Cardinality(Finished) + 1

(* The generations take turns.  A runtime that is not started has no live  *)
(* goroutine; whoever stops holds the mutex over a started runtime, and    *)
(* whoever builds over a stopped one.                                      *)
Turns ==
  /\ \A g \in Gens : g > gen => server[g] = "none" /\ worker[g] = "none"
  /\ \A g \in Gens : g < gen => server[g] = "ended" /\ worker[g] = "ended"
  /\ ~started => AllEnded
  /\ started => repo = "open"
  /\ \A p \in Callers : pc[p] \in {"close", "wait"} => started
  /\ \A p \in Callers : pc[p] = "build" => ~started /\ p \in Savers

LifecycleInv == TypeOK /\ Counted /\ Turns

(* Until the user interface exits, only a SaveConfig under way stops the   *)
(* runtime, and it starts it again or fails.                               *)
Restarting ==
  /\ \A s \in Savers : result[s] # "none" => pc[s] = "finished"
  /\ pc[Ui] # "idle" => uiDone
  /\ ~uiDone /\ ~started =>
       \E s \in Savers :
         pc[s] \in {"assign", "start", "build"} \/ result[s] = "error"
  /\ ~uiDone /\ started /\ runDone[gen] =>
       \E s \in Savers : pc[s] \in {"close", "wait"}

-----------------------------------------------------------------------------
(* The set of generations is an interval that starts with the first.       *)
LEMMA GensInterval ==
  /\ Cardinality(Savers) \in Nat
  /\ Gens = 1 .. Cardinality(Savers) + 1
  /\ 1 \in Gens
BY CallersAssumption, FS_CardinalityType DEF Gens

(* A call that finishes now makes room for one more generation.            *)
LEMMA FinishedGrows ==
  ASSUME TypeOK, NEW s \in Savers, pc[s] # "finished",
         pc' = [pc EXCEPT ![s] = "finished"]
  PROVE  /\ Finished' = Finished \cup {s}
         /\ Cardinality(Finished) \in Nat
         /\ Cardinality(Finished') = Cardinality(Finished) + 1
         /\ Cardinality(Finished) < Cardinality(Savers)
<1>1. Finished' = Finished \cup {s} /\ s \notin Finished
  BY DEF TypeOK, Finished, Callers
<1>2. IsFiniteSet(Finished) /\ IsFiniteSet(Finished')
  BY <1>1, CallersAssumption, FS_Subset, FS_AddElement DEF Finished
<1>3. Cardinality(Finished') = Cardinality(Finished) + 1
  BY <1>1, <1>2, FS_AddElement
<1>4. Cardinality(Finished') <= Cardinality(Savers)
  <2>1. Finished' \subseteq Savers
    BY <1>1 DEF Finished
  <2> QED BY <2>1, CallersAssumption, FS_Subset
<1>5. Cardinality(Finished) \in Nat /\ Cardinality(Savers) \in Nat
  BY <1>2, CallersAssumption, FS_CardinalityType
<1> QED BY <1>1, <1>3, <1>4, <1>5

(* Finished calls stay finished, so the count never falls.                 *)
LEMMA CountStays ==
  ASSUME TypeOK, Counted, gen' = gen,
         \A s \in Savers : pc[s] = "finished" => pc'[s] = "finished"
  PROVE  Counted'
<1>1. Finished \subseteq Finished'
  BY DEF Finished
<1>2. IsFiniteSet(Finished')
  BY CallersAssumption, FS_Subset DEF Finished
<1>3. Cardinality(Finished) <= Cardinality(Finished')
  BY <1>1, <1>2, FS_Subset
<1>4. /\ Cardinality(Finished) \in Nat
      /\ Cardinality(Finished') \in Nat
      /\ gen \in Nat
  BY <1>1, <1>2, FS_Subset, FS_CardinalityType, GensInterval
  DEF TypeOK, MutexHeld
<1> QED BY <1>3, <1>4 DEF Counted

-----------------------------------------------------------------------------
LEMMA InitEstablishes == Init => LifecycleInv
<1> SUFFICES ASSUME Init PROVE LifecycleInv
  OBVIOUS
<1> USE CallersAssumption, GensInterval
<1>1. TypeOK
  BY DEF Init, TypeOK, MutexHeld, Callers, Configs
<1>2. Counted
  <2>1. Finished = {}
    BY DEF Init, Finished, Callers
  <2> QED BY <2>1, FS_EmptySet DEF Init, Counted
<1>3. Turns
  BY DEF Init, Turns, Callers
<1> QED BY <1>1, <1>2, <1>3 DEF LifecycleInv

(* The goroutines only end, and only once their context is done.           *)
LEMMA GoStepKeeps ==
  ASSUME LifecycleInv, NEW g \in Gens, GoStep(g)
  PROVE  LifecycleInv'
<1> USE GensInterval DEF LifecycleInv
<1>1. TypeOK'
  BY DEF TypeOK, MutexHeld, GoStep, Listen, ListenFail, AcceptEnd, WorkerEnd
<1>2. Counted'
  <2>1. gen' = gen /\ pc' = pc
    BY DEF GoStep, Listen, ListenFail, AcceptEnd, WorkerEnd
  <2> QED BY <2>1, CountStays
<1>3. Turns'
  BY
  DEF TypeOK, MutexHeld, Turns, AllEnded, GoStep, Listen, ListenFail,
      AcceptEnd,
         WorkerEnd
<1> QED BY <1>1, <1>2, <1>3

LEMMA StopStepKeeps ==
  ASSUME LifecycleInv, NEW p \in Callers, StopStep(p)
  PROVE  LifecycleInv'
<1> USE CallersAssumption, GensInterval DEF LifecycleInv
<1>1. CASE StopLock(p)
  <2>1. TypeOK'
    <3>1. MutexHeld'
      <4>1. CASE started
        BY <1>1, <4>1 DEF TypeOK, MutexHeld, StopLock, Goto
      <4>2. CASE ~started
        BY <1>1, <4>2 DEF TypeOK, MutexHeld, StopLock, Goto, StopReturned
      <4> QED BY <4>1, <4>2 DEF TypeOK
    <3> QED BY <1>1, <3>1
            DEF TypeOK, StopLock, Goto, StopReturned, goVars, Callers
  <2>2. Counted'
    BY <1>1, CountStays
    DEF TypeOK, MutexHeld, StopLock, Goto, StopReturned, Callers
  <2>3. Turns'
    BY <1>1
    DEF TypeOK, MutexHeld, Turns, AllEnded, StopLock, Goto, StopReturned,
        goVars
  <2> QED BY <2>1, <2>2, <2>3
<1>2. CASE StopClose(p)
  <2>1. TypeOK'
    BY <1>2 DEF TypeOK, MutexHeld, StopClose, Goto, Callers
  <2>2. Counted'
    BY <1>2, CountStays DEF TypeOK, MutexHeld, StopClose, Goto, Callers
  <2>3. Turns'
    BY <1>2 DEF TypeOK, MutexHeld, Turns, AllEnded, StopClose, Goto
  <2> QED BY <2>1, <2>2, <2>3
<1>3. CASE StopDone(p)
  <2>1. TypeOK'
    BY <1>3
    DEF TypeOK, MutexHeld, StopDone, Goto, StopReturned, goVars, Callers
  <2>2. Counted'
    BY <1>3, CountStays
    DEF TypeOK, MutexHeld, StopDone, Goto, StopReturned, Callers
  <2>3. \A q \in Callers : q # p => pc[q] \notin {"close", "wait", "build"}
    BY <1>3 DEF TypeOK, MutexHeld, StopDone
  <2>4. Turns'
    BY <1>3, <2>3
    DEF TypeOK, MutexHeld, Turns, AllEnded, StopDone, Goto, StopReturned,
        goVars
  <2> QED BY <2>1, <2>2, <2>4
<1>4. CASE StopAbandoned(p)
  <2>1. TypeOK'
    BY <1>4
    DEF TypeOK, MutexHeld, StopAbandoned, Goto, StopReturned, goVars, Callers
  <2>2. Counted'
    BY <1>4, CountStays
    DEF TypeOK, MutexHeld, StopAbandoned, Goto, StopReturned, Callers
  <2>3. Turns'
    BY <1>4
    DEF TypeOK, MutexHeld, Turns, AllEnded, StopAbandoned, Goto,
        StopReturned, goVars
  <2> QED BY <2>1, <2>2, <2>3
<1> QED BY <1>1, <1>2, <1>3, <1>4 DEF StopStep

(* The one step that makes a generation finds the last one ended.          *)
LEMMA StartBuildKeeps ==
  ASSUME LifecycleInv, NEW s \in Savers, StartBuild(s)
  PROVE  LifecycleInv'
<1> USE CallersAssumption, GensInterval DEF LifecycleInv
<1>1. pc' = [pc EXCEPT ![s] = "finished"]
  BY DEF StartBuild, Return, Goto
<1>2. /\ Cardinality(Finished) \in Nat
      /\ Cardinality(Finished') = Cardinality(Finished) + 1
      /\ Cardinality(Finished) < Cardinality(Savers)
  BY <1>1, FinishedGrows DEF StartBuild
<1>3. gen + 1 \in Gens /\ gen \in Nat
  BY <1>2 DEF TypeOK, MutexHeld, Counted
<1>4. lock = s /\ ~started
  BY DEF TypeOK, MutexHeld, Turns, StartBuild, Callers
<1>5. TypeOK'
  <2>1. MutexHeld'
    BY <1>4 DEF TypeOK, MutexHeld, StartBuild, Return, Goto, Callers
  <2>2. /\ running' \in [Gens -> Configs]
        /\ server' \in [Gens -> {"none", "spawned", "accepting", "ended"}]
        /\ worker' \in [Gens -> {"none", "running", "ended"}]
        /\ runDone' \in [Gens -> BOOLEAN]
    BY <1>3 DEF TypeOK, StartBuild
  <2>3. /\ pc' \in [Callers -> {"idle", "lock", "close", "wait", "assign",
                                "start", "build", "finished"}]
        /\ result' \in [Savers -> {"none", "ok", "error"}]
    BY DEF TypeOK, StartBuild, Return, Goto, Callers
  <2> QED BY <1>3, <2>1, <2>2, <2>3 DEF TypeOK, StartBuild
<1>6. Counted'
  BY <1>2, <1>3 DEF Counted, StartBuild
<1>7. \A q \in Callers : q # s => pc[q] \notin {"close", "wait", "build"}
  BY <1>4 DEF TypeOK, MutexHeld, StartBuild
<1>8. Turns'
  BY <1>3, <1>4, <1>7
  DEF TypeOK, MutexHeld, Turns, AllEnded, StartBuild, Return, Goto, Callers
<1> QED BY <1>5, <1>6, <1>8

LEMMA SaveStepKeeps ==
  ASSUME LifecycleInv, NEW s \in Savers, SaveStep(s)
  PROVE  LifecycleInv'
<1> USE CallersAssumption, GensInterval DEF LifecycleInv
<1>1. CASE SaveFile(s)
  <2>1. TypeOK'
    BY <1>1
    DEF TypeOK, MutexHeld, SaveFile, Return, Goto, goVars, Callers, Configs
  <2>2. Counted'
    BY <1>1, CountStays DEF TypeOK, MutexHeld, SaveFile, Return, Goto, Callers
  <2>3. Turns'
    BY <1>1
    DEF TypeOK, MutexHeld, Turns, AllEnded, SaveFile, Return, Goto, goVars,
        Callers
  <2> QED BY <2>1, <2>2, <2>3
<1>2. CASE Assign(s)
  <2>1. TypeOK'
    BY <1>2 DEF TypeOK, MutexHeld, Assign, Goto, goVars, Callers, Configs
  <2>2. Counted'
    BY <1>2, CountStays DEF TypeOK, MutexHeld, Assign, Goto, Callers
  <2>3. Turns'
    BY <1>2 DEF TypeOK, MutexHeld, Turns, AllEnded, Assign, Goto, goVars
  <2> QED BY <2>1, <2>2, <2>3
<1>3. CASE StartLoad(s) \/ StartLoadFail(s) \/ StartFail(s)
  <2>1. TypeOK'
    <3>1. CASE StartLoad(s)
      <4>1. MutexHeld'
        <5>1. CASE started
          BY <1>3, <3>1, <5>1
          DEF TypeOK, MutexHeld, StartLoad, Return, Goto, Callers
        <5>2. CASE ~started
          BY <1>3, <3>1, <5>2 DEF TypeOK, MutexHeld, StartLoad, Goto, Callers
        <5> QED BY <5>1, <5>2 DEF TypeOK
      <4> QED BY <3>1, <4>1
              DEF TypeOK, StartLoad, Return, Goto, goVars, Callers
    <3>2. CASE StartLoadFail(s)
      BY <3>2
      DEF TypeOK, MutexHeld, StartLoadFail, Return, Goto, goVars, Callers
    <3>3. CASE StartFail(s)
      BY <3>3 DEF TypeOK, MutexHeld, StartFail, Return, Goto, goVars, Callers
    <3> QED BY <1>3, <3>1, <3>2, <3>3
  <2>2. Counted'
    BY <1>3, CountStays
    DEF TypeOK, MutexHeld, StartLoad, StartLoadFail, StartFail, Return,
        Goto, Callers
  <2>3. Turns'
    BY <1>3
    DEF TypeOK, MutexHeld, Turns, AllEnded, StartLoad, StartLoadFail,
        StartFail, Return,
        Goto, goVars, Callers
  <2> QED BY <2>1, <2>2, <2>3
<1>4. CASE StartBuild(s)
  BY <1>4, StartBuildKeeps
<1> QED BY <1>1, <1>2, <1>3, <1>4 DEF SaveStep

LEMMA ExitKeeps ==
  ASSUME LifecycleInv, Exit
  PROVE  LifecycleInv'
<1> USE CallersAssumption, GensInterval DEF LifecycleInv
<1>1. TypeOK'
  BY DEF TypeOK, MutexHeld, Exit, Goto, goVars, Callers
<1>2. Counted'
  BY CountStays DEF TypeOK, MutexHeld, Exit, Goto, Callers
<1>3. Turns'
  BY DEF TypeOK, MutexHeld, Turns, AllEnded, Exit, Goto, goVars, Callers
<1> QED BY <1>1, <1>2, <1>3

(* The inductive invariant of the lifecycle.                               *)
LEMMA LifecycleInvariant == Spec => []LifecycleInv
<1>1. LifecycleInv /\ [Next]_vars => LifecycleInv'
  <2> SUFFICES ASSUME LifecycleInv, [Next]_vars PROVE LifecycleInv'
    OBVIOUS
  <2>1. CASE Next
    BY <2>1, GoStepKeeps, StopStepKeeps, SaveStepKeeps, ExitKeeps DEF Next
  <2>2. CASE UNCHANGED vars
    <3>1. TypeOK' /\ Turns'
      BY <2>2
      DEF LifecycleInv, TypeOK, MutexHeld, Turns, AllEnded, vars, goVars
    <3>2. Counted'
      BY <2>2, CountStays DEF LifecycleInv, vars
    <3> QED BY <3>1, <3>2 DEF LifecycleInv
  <2> QED BY <2>1, <2>2
<1> QED BY <1>1, InitEstablishes, PTL DEF Spec

-----------------------------------------------------------------------------
(* The types, and with them that a caller between the locking and the      *)
(* unlocking of the mutex is its holder.                                   *)
THEOREM LifecycleTypes == Spec => []TypeOK
<1>1. LifecycleInv => TypeOK
  BY DEF LifecycleInv
<1> QED BY <1>1, LifecycleInvariant, PTL

(* At most one generation of goroutines is alive.                          *)
THEOREM GenerationsDoNotOverlap == Spec => []OneGeneration
<1>1. LifecycleInv => OneGeneration
  BY GensInterval
  DEF LifecycleInv, TypeOK, MutexHeld, Turns, OneGeneration, Alive
<1> QED BY <1>1, LifecycleInvariant, PTL

(* The repository is open as long as a goroutine works on it.              *)
THEOREM RepositoryOutlivesWorkers == Spec => []RepoWhileWorking
<1>1. LifecycleInv => RepoWhileWorking
  BY GensInterval
  DEF LifecycleInv, TypeOK, MutexHeld, Turns, RepoWhileWorking, AllEnded
<1> QED BY <1>1, LifecycleInvariant, PTL

-----------------------------------------------------------------------------
(* A SaveConfig that has stopped the runtime has not returned yet, or has  *)
(* returned an error.                                                      *)
LEMMA RestartingStays ==
  ASSUME LifecycleInv, LifecycleInv', Restarting, Next
  PROVE  Restarting'
<1> USE CallersAssumption, GensInterval DEF LifecycleInv, Restarting
<1>1. CASE \E g \in Gens : GoStep(g)
  BY <1>1 DEF GoStep, Listen, ListenFail, AcceptEnd, WorkerEnd
<1>2. CASE \E p \in Callers : StopStep(p)
  <2>1. PICK p \in Callers : StopStep(p)
    BY <1>2
  <2>2. p \in Savers \/ (p = Ui /\ (pc[p] # "idle" => uiDone))
    BY DEF Callers
  <2>3. CASE StopLock(p)
    BY <2>2, <2>3 DEF StopLock, StopReturned, Goto, TypeOK, Callers
  <2>4. CASE StopClose(p)
    BY <2>2, <2>4 DEF StopClose, Goto, TypeOK, Callers
  <2>5. CASE StopDone(p)
    BY <2>2, <2>5 DEF StopDone, StopReturned, Goto, TypeOK, Callers
  <2>6. CASE StopAbandoned(p)
    BY <2>2, <2>6 DEF StopAbandoned, StopReturned, Goto, TypeOK, Callers
  <2> QED BY <2>1, <2>3, <2>4, <2>5, <2>6 DEF StopStep
<1>3. CASE \E s \in Savers : SaveStep(s)
  <2>1. PICK s \in Savers : SaveStep(s)
    BY <1>3
  <2>2. s # Ui /\ s \in Callers
    BY DEF Callers
  <2>3. CASE SaveFile(s)
    <3>1. /\ \A t \in Savers : t # s =>
               pc'[t] = pc[t] /\ result'[t] = result[t]
          /\ UNCHANGED <<started, gen, runDone, uiDone>> /\ pc'[Ui] = pc[Ui]
          /\ pc[s] = "idle"
          /\ result'[s] = "error" => pc'[s] = "finished"
          /\ result'[s] # "error" => result'[s] = result[s]
      BY <2>2, <2>3 DEF SaveFile, Return, Goto, TypeOK, Callers
    <3> QED BY <3>1
  <2>4. CASE Assign(s)
    BY <2>2, <2>4 DEF Assign, Goto, TypeOK, Callers
  <2>5. CASE StartLoad(s)
    <3>1. CASE started
      <4>1. /\ \A t \in Savers : t # s =>
                 pc'[t] = pc[t] /\ result'[t] = result[t]
            /\ UNCHANGED <<started, gen, runDone, uiDone>>
            /\ pc'[Ui] = pc[Ui] /\ pc[s] = "start"
            /\ pc'[s] = "finished"
        BY <2>2, <2>5, <3>1 DEF StartLoad, Return, Goto, TypeOK, Callers
      <4> QED BY <3>1, <4>1
    <3>2. CASE ~started
      BY <2>2, <2>5, <3>2 DEF StartLoad, Goto, TypeOK, Callers
    <3> QED BY <3>1, <3>2
  <2>6. CASE StartLoadFail(s) \/ StartFail(s)
    BY <2>2, <2>6 DEF StartLoadFail, StartFail, Return, Goto, TypeOK, Callers
  <2>7. CASE StartBuild(s)
    <3>1. gen' \in Gens /\ gen' = gen + 1 /\ started' /\ uiDone' = uiDone
      BY <2>7 DEF StartBuild, TypeOK
    <3>2. runDone'[gen'] = uiDone
      BY <2>7, <3>1 DEF StartBuild, TypeOK
    <3> QED BY <2>2, <2>7, <3>1, <3>2
            DEF StartBuild, Return, Goto, TypeOK, Callers
  <2> QED BY <2>1, <2>3, <2>4, <2>5, <2>6, <2>7 DEF SaveStep
<1>4. CASE Exit
  BY <1>4 DEF Exit, Goto, TypeOK, Callers
<1> QED BY <1>1, <1>2, <1>3, <1>4 DEF Next

(* When every SaveConfig has returned without an error, the runtime is     *)
(* started, its run context lives and its repository is open, whatever     *)
(* stops and starts overlapped, unless the user interface is exiting.      *)
THEOREM SavesLeaveItRunning == Spec => []SavedMeansRunning
<1>1. Init => Restarting
  BY CallersAssumption, GensInterval DEF Init, Restarting, Callers
<1>2. LifecycleInv /\ LifecycleInv' /\ Restarting /\ [Next]_vars => Restarting'
  <2> SUFFICES ASSUME LifecycleInv, LifecycleInv', Restarting, [Next]_vars
               PROVE  Restarting'
    OBVIOUS
  <2>1. CASE UNCHANGED vars
    BY <2>1 DEF vars, Restarting
  <2> QED BY <2>1, RestartingStays
<1>3. LifecycleInv /\ Restarting => SavedMeansRunning
  BY DEF LifecycleInv, Turns, Restarting, SavedMeansRunning
<1> QED BY <1>1, <1>2, <1>3, LifecycleInvariant, PTL DEF Spec
=============================================================================
