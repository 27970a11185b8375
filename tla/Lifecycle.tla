----------------------------- MODULE Lifecycle -----------------------------
(***************************************************************************)
(* Start, Stop and SaveConfig of the Runtime.  A user interface starts the *)
(* runtime, saves settings from goroutines of their own (each SaveConfig   *)
(* stops and starts the runtime again) and stops it when it exits.         *)
(*                                                                         *)
(* Every Start makes a generation of goroutines under a run context.  The  *)
(* WaitGroup holds the server goroutine, which sits in Accept, and five    *)
(* others that end once their context is done (modules Relay and Journal   *)
(* show that the delivery path and the writer do); these five are one      *)
(* worker here.  The lifecycle mutex guards Start and Stop, but not the    *)
(* configuration file and not the assignment of the configuration in       *)
(* SaveConfig.                                                             *)
(*                                                                         *)
(* Init is the state after the user interface has called Start.            *)
(***************************************************************************)
EXTENDS Naturals, FiniteSets

CONSTANTS
  Savers,     \* calls of SaveConfig, each with a configuration of its own
  Ui,         \* the main goroutine of the user interface
  NoOne,      \* the mutex is free
  FirstConfig \* the configuration of the first Start

Callers == Savers \cup {Ui}
Configs == Savers \cup {FirstConfig}

(* Every SaveConfig starts one generation at most.                         *)
Gens == 1 .. Cardinality(Savers) + 1

ASSUME CallersAssumption ==
  /\ IsFiniteSet(Savers)
  /\ Ui \notin Savers
  /\ NoOne \notin Callers
  /\ FirstConfig \notin Savers

VARIABLES
  pc,          \* where each caller is
  result,      \* what each SaveConfig returned
  lock,        \* Runtime.lifecycle
  started,     \* Runtime.started
  repo,        \* Runtime.repo: "open", or "nil"
  config,      \* Runtime.config
  stored,      \* the configuration file
  gen,         \* the latest generation
  running,     \* the configuration each generation was built with
  server,      \* the goroutine of TCPServer.Run of each generation
  closing,     \* its listener has been closed
  worker,      \* the other goroutines of each generation
  runDone,     \* the run context of each generation is done
  uiDone       \* the context of the user interface is cancelled

goVars == <<server, closing, worker>>
vars == <<pc, result, lock, started, repo, config, stored, gen, running,
          goVars, runDone, uiDone>>

(* A caller between the locking and the unlocking of the mutex holds it.   *)
MutexHeld ==
  \A p \in Callers : pc[p] \in {"close", "wait", "build"} <=> lock = p

TypeOK ==
  /\ pc \in [Callers -> {"idle", "lock", "close", "wait", "assign", "start",
                         "build", "finished"}]
  /\ result \in [Savers -> {"none", "ok", "error"}]
  /\ lock \in Callers \cup {NoOne}
  /\ started \in BOOLEAN
  /\ repo \in {"open", "nil"}
  /\ config \in Configs /\ stored \in Configs
  /\ gen \in Gens
  /\ running \in [Gens -> Configs]
  /\ server \in [Gens -> {"none", "spawned", "accepting", "ended"}]
  /\ closing \in [Gens -> BOOLEAN]
  /\ worker \in [Gens -> {"none", "running", "ended"}]
  /\ runDone \in [Gens -> BOOLEAN]
  /\ uiDone \in BOOLEAN
  /\ MutexHeld

Init ==
  /\ pc = [p \in Callers |-> "idle"]
  /\ result = [s \in Savers |-> "none"]
  /\ lock = NoOne
  /\ started = TRUE
  /\ repo = "open"
  /\ config = FirstConfig
  /\ stored = FirstConfig
  /\ gen = 1
  /\ running = [g \in Gens |-> FirstConfig]
  /\ server = [g \in Gens |-> IF g = 1 THEN "spawned" ELSE "none"]
  /\ closing = [g \in Gens |-> FALSE]
  /\ worker = [g \in Gens |-> IF g = 1 THEN "running" ELSE "none"]
  /\ runDone = [g \in Gens |-> FALSE]
  /\ uiDone = FALSE

Goto(p, to) == pc' = [pc EXCEPT ![p] = to]

-----------------------------------------------------------------------------
(* The goroutines of a generation.                                         *)

(* net.Listen does not look at the context.                                *)
Listen(g) ==
  /\ server[g] = "spawned"
  /\ server' = [server EXCEPT ![g] = "accepting"]
  /\ UNCHANGED <<pc, result, lock, started, repo, config, stored, gen,
                 running, closing, worker, runDone, uiDone>>

ListenFail(g) ==
  /\ server[g] = "spawned"
  /\ server' = [server EXCEPT ![g] = "ended"]
  /\ UNCHANGED <<pc, result, lock, started, repo, config, stored, gen,
                 running, closing, worker, runDone, uiDone>>

(* Accept returns an error once the listener is closed, and only then does *)
(* the loop look at the context.                                           *)
AcceptEnd(g) ==
  /\ server[g] = "accepting"
  /\ closing[g]
  /\ runDone[g]
  /\ server' = [server EXCEPT ![g] = "ended"]
  /\ UNCHANGED <<pc, result, lock, started, repo, config, stored, gen,
                 running, closing, worker, runDone, uiDone>>

WorkerEnd(g) ==
  /\ worker[g] = "running"
  /\ runDone[g]
  /\ worker' = [worker EXCEPT ![g] = "ended"]
  /\ UNCHANGED <<pc, result, lock, started, repo, config, stored, gen,
                 running, server, closing, runDone, uiDone>>

GoStep(g) == Listen(g) \/ ListenFail(g) \/ AcceptEnd(g) \/ WorkerEnd(g)

-----------------------------------------------------------------------------
(* Stop.                                                                   *)

StopReturned(p) == IF p = Ui THEN "finished" ELSE "assign"

StopLock(p) ==
  /\ pc[p] = "lock"
  /\ lock = NoOne
  /\ IF started
     THEN /\ lock' = p
          /\ Goto(p, "close")
          /\ runDone' = [runDone EXCEPT ![gen] = TRUE]
     ELSE /\ Goto(p, StopReturned(p))
          /\ UNCHANGED <<lock, runDone>>
  /\ UNCHANGED <<result, started, repo, config, stored, gen, running, goVars,
                 uiDone>>

(* TCPServer.Stop closes the listener if there is one yet.                 *)
StopClose(p) ==
  /\ pc[p] = "close"
  /\ closing' = [closing EXCEPT ![gen] = server[gen] = "accepting"]
  /\ Goto(p, "wait")
  /\ UNCHANGED <<result, lock, started, repo, config, stored, gen, running,
                 server, worker, runDone, uiDone>>

AllEnded == server[gen] = "ended" /\ worker[gen] = "ended"

(* Mutants of StopDone: the goroutines are not waited for; started stays.  *)
StopDoneEarly(p) ==
  /\ pc[p] = "wait"
  /\ repo' = "nil"
  /\ started' = FALSE
  /\ lock' = NoOne
  /\ Goto(p, StopReturned(p))
  /\ UNCHANGED <<result, config, stored, gen, running, goVars, runDone,
                 uiDone>>

StopDoneStarted(p) ==
  /\ pc[p] = "wait"
  /\ AllEnded
  /\ repo' = "nil"
  /\ lock' = NoOne
  /\ Goto(p, StopReturned(p))
  /\ UNCHANGED <<result, started, config, stored, gen, running, goVars,
                 runDone, uiDone>>

StopDone(p) ==
  /\ pc[p] = "wait"
  /\ AllEnded
  /\ repo' = "nil"
  /\ started' = FALSE
  /\ lock' = NoOne
  /\ Goto(p, StopReturned(p))
  /\ UNCHANGED <<result, config, stored, gen, running, goVars, runDone,
                 uiDone>>

(* Mutants of StopAbandoned: a Stop that gives up counts as a stop; Stop   *)
(* only listens to the goroutines.                                         *)
StopAbandonedStopped(p) ==
  /\ pc[p] = "wait"
  /\ p = Ui \/ uiDone
  /\ started' = FALSE
  /\ lock' = NoOne
  /\ Goto(p, StopReturned(p))
  /\ UNCHANGED <<result, repo, config, stored, gen, running, goVars, runDone,
                 uiDone>>

StopAbandonedNever(p) == StopDone(p)

(* The context of the call is done: the context of the user interface for  *)
(* SaveConfig, a timeout for the last Stop.                                *)
StopAbandoned(p) ==
  /\ pc[p] = "wait"
  /\ p = Ui \/ uiDone
  /\ lock' = NoOne
  /\ Goto(p, StopReturned(p))
  /\ UNCHANGED <<result, started, repo, config, stored, gen, running, goVars,
                 runDone, uiDone>>

StopStep(p) == StopLock(p) \/ StopClose(p) \/ StopDone(p) \/ StopAbandoned(p)

-----------------------------------------------------------------------------
(* SaveConfig and Start.                                                   *)

Return(s, value) ==
  /\ result' = [result EXCEPT ![s] = value]
  /\ Goto(s, "finished")

SaveFile(s) ==
  /\ pc[s] = "idle"
  /\ \/ /\ stored' = s
        /\ Goto(s, "lock")
        /\ UNCHANGED result
     \/ /\ Return(s, "error")
        /\ UNCHANGED stored
  /\ UNCHANGED <<lock, started, repo, config, gen, running, goVars, runDone,
                 uiDone>>

(* r.config = cfg, whoever holds the mutex.                                *)
Assign(s) ==
  /\ pc[s] = "assign"
  /\ config' = s
  /\ Goto(s, "start")
  /\ UNCHANGED <<result, lock, started, repo, stored, gen, running, goVars,
                 runDone, uiDone>>

(* Start returns at once when started; otherwise it loads the file.        *)
StartLoad(s) ==
  /\ pc[s] = "start"
  /\ lock = NoOne
  /\ IF started
     THEN /\ Return(s, "ok")
          /\ UNCHANGED <<lock, config>>
     ELSE /\ lock' = s
          /\ config' = stored
          /\ Goto(s, "build")
          /\ UNCHANGED result
  /\ UNCHANGED <<started, repo, stored, gen, running, goVars, runDone, uiDone>>

StartLoadFail(s) ==
  /\ pc[s] = "start"
  /\ lock = NoOne
  /\ ~started
  /\ Return(s, "error")
  /\ UNCHANGED <<lock, started, repo, config, stored, gen, running, goVars,
                 runDone, uiDone>>

(* Mutant of StartFail: the mutex is kept on the error path.               *)
StartFailLocked(s) ==
  /\ pc[s] = "build"
  /\ Return(s, "error")
  /\ UNCHANGED <<lock, started, repo, config, stored, gen, running, goVars,
                 runDone, uiDone>>

(* The event list or the database cannot be opened.                        *)
StartFail(s) ==
  /\ pc[s] = "build"
  /\ lock' = NoOne
  /\ Return(s, "error")
  /\ UNCHANGED <<started, repo, config, stored, gen, running, goVars, runDone,
                 uiDone>>

(* The queue, the server and the client are built from r.config.           *)
StartBuild(s) ==
  /\ pc[s] = "build"
  /\ gen' = gen + 1
  /\ running' = [running EXCEPT ![gen + 1] = config]
  /\ repo' = "open"
  /\ server' = [server EXCEPT ![gen + 1] = "spawned"]
  /\ worker' = [worker EXCEPT ![gen + 1] = "running"]
  /\ runDone' = [runDone EXCEPT ![gen + 1] = uiDone]
  /\ started' = TRUE
  /\ lock' = NoOne
  /\ Return(s, "ok")
  /\ UNCHANGED <<config, stored, closing, uiDone>>

SaveStep(s) ==
  \/ SaveFile(s) \/ Assign(s)
  \/ StartLoad(s) \/ StartLoadFail(s) \/ StartFail(s) \/ StartBuild(s)

-----------------------------------------------------------------------------
(* The user interface exits: it cancels its context, from which the run    *)
(* contexts derive, and stops the runtime.                                 *)
Exit ==
  /\ pc[Ui] = "idle"
  /\ uiDone' = TRUE
  /\ runDone' = [g \in Gens |-> runDone[g] \/ g <= gen]
  /\ Goto(Ui, "lock")
  /\ UNCHANGED <<result, lock, started, repo, config, stored, gen, running,
                 goVars>>

Next ==
  \/ \E g \in Gens : GoStep(g)
  \/ \E p \in Callers : StopStep(p)
  \/ \E s \in Savers : SaveStep(s)
  \/ Exit

Spec == Init /\ [][Next]_vars

(* Goroutines are scheduled, a call under way goes on, and a waiter for    *)
(* the mutex gets it in the end (sync.Mutex hands it over to a waiter that *)
(* starves).  Nobody has to save or to exit.                               *)
Fairness ==
  /\ \A g \in Gens : WF_vars(GoStep(g))
  /\ \A p \in Callers : SF_vars(StopStep(p))
  /\ \A s \in Savers : SF_vars(pc[s] # "idle" /\ SaveStep(s))

FairSpec == Spec /\ Fairness

-----------------------------------------------------------------------------
(* A goroutine of the generation has not ended yet.                        *)
Alive(g) == server[g] \in {"spawned", "accepting"} \/ worker[g] = "running"

(* Two generations never live at once: an old listener would hold the      *)
(* port, an old writer the database.  Stop keeps started set when it gives *)
(* up waiting, so no Start can follow.                                     *)
OneGeneration == \A g \in Gens : Alive(g) => g = gen

(* The repository is not taken from under goroutines that use it: Stop     *)
(* closes it only after the WaitGroup, and a Start opens it before it      *)
(* spawns them.                                                            *)
RepoWhileWorking == (\E g \in Gens : worker[g] = "running") => repo = "open"

(* When every SaveConfig has returned, and none with an error, a live      *)
(* runtime is there, unless the user interface is exiting.                 *)
SavedMeansRunning ==
  (\A s \in Savers : result[s] = "ok") /\ ~uiDone =>
    started /\ ~runDone[gen] /\ repo = "open"

(* The user interface gets to exit, whatever saves are under way: a Stop   *)
(* that holds the mutex gives up when the user interface cancels.          *)
UiExits == uiDone ~> pc[Ui] = "finished"

(* "config saved, restarting runtime": when every SaveConfig has returned  *)
(* without an error, the runtime runs with the configuration in the file.  *)
RunningIsStored ==
  (\A s \in Savers : result[s] = "ok") => running[gen] = stored

(* "config saved, restarting runtime": a SaveConfig that has saved its     *)
(* file gets to restart the runtime, or fails.                             *)
SaveFinishes == \A s \in Savers : pc[s] = "lock" ~> pc[s] = "finished"
=============================================================================
