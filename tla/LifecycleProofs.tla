-------------------------- MODULE LifecycleProofs ---------------------------
(***************************************************************************)
(* First the Shutdown module: one runtime keeps its promises for every set *)
(* of workers, in every order of signals, stop(), panics, aborts and       *)
(* timeouts, because each phase is owned by one task.  Only the signal     *)
(* task leaves Running, and it has not called begin_draining before; only  *)
(* the pool leaves Draining and Finalizing, and it looks at the phase      *)
(* after the workers have been drained.                                    *)
(*                                                                         *)
(* Then the Lifecycle module: the same holds of every runtime a Consumer   *)
(* builds, for every set of workers and topics, every order of             *)
(* registrations and any number of restarts.  The shutdown's invariant     *)
(* holds while a runtime is there, because BuildPool makes everything anew *)
(* but the token; the handlers cannot change between the three reads of    *)
(* build(), and with workers enough the receivers that Dealt deals are all *)
(* of them.                                                                *)
(***************************************************************************)
EXTENDS Lifecycle, FiniteSetTheorems, TLAPS

\* Who may move the phase next: what the assertions of ShutdownCoordinator
\* need to know about the signal task and the pool.
PhaseOwner ==
    /\ signal_task \in {"waiting", "drain"} <=> phase = "Running"
    /\ pool = "finalize" => phase = "Draining"
    /\ pool = "done" <=> phase = "Finalizing"
    /\ phase = "Done" => pool = "returned"

\* Past the drain, every worker has ended unless the timeout expired.
DrainedPool ==
    pool \in {"flush", "finalize", "done", "returned"} /\ ~ timed_out => AllEnded

\* The inductive invariant of one runtime.  Neither safety property is inductive alone:
\* NoPhasePanics needs PhaseOwner, FinalizeAfterDrain needs DrainedPool and
\* where the pool is when the phase is Finalizing or Done.
IInv ==
    /\ ShutdownTypeOK
    /\ PhaseOwner
    /\ DrainedPool
    /\ ~ panicked
-----------------------------------------------------------------------------
\* The invariant holds before any task ran.
LEMMA InitInvariant == Init => IInv
  BY DEF Init, IInv, ShutdownTypeOK, PhaseOwner, DrainedPool, Ended

\* Who asks for the stop: only SignalDrains moves the phase, from Running.
LEMMA StopStep ==
    ASSUME IInv, Stop \/ SignalReceived \/ SignalTask
    PROVE  IInv'
<1> USE DEF IInv, ShutdownTypeOK, PhaseOwner, DrainedPool, AllEnded,
            coordinatorVars, tokenVars, streamVars, poolVars
<1>1. CASE Stop
  BY <1>1 DEF Stop
<1>2. CASE SignalReceived
  BY <1>2 DEF SignalReceived
<1>3. CASE SignalDrains
  BY <1>3 DEF SignalDrains, begin_draining, Advance
<1>4. CASE SignalCancels
  BY <1>4 DEF SignalCancels
<1>5. CASE SignalStopsRunner
  BY <1>5 DEF SignalStopsRunner, runner_stop
<1> QED BY <1>1, <1>2, <1>3, <1>4, <1>5 DEF SignalTask

\* A worker that has ended stays ended.
LEMMA WorkerStep ==
    ASSUME IInv, NEW w \in Workers, WorkerTakes(w) \/ WorkerEnds(w)
    PROVE  IInv'
<1>1. PICK from \in {"idle", "busy"}, to \in {"idle", "busy"} \cup Ended :
         BecomesOf(w, from, to)
  BY DEF WorkerTakes, WorkerEnds, WorkerFinishes, WorkerStops, WorkerPanics,
         WorkerAborted, Ended
<1>2. /\ worker[w] \notin Ended
      /\ worker' = [worker EXCEPT ![w] = to]
      /\ UNCHANGED <<coordinatorVars, tokenVars, signal_task, streamVars,
                     poolVars, committer, runtime>>
  BY <1>1 DEF BecomesOf, Ended
<1>3. /\ worker' \in [Workers -> {"idle", "busy"} \cup Ended]
      /\ \A v \in Workers : worker[v] \in Ended => worker'[v] \in Ended
  BY <1>2 DEF IInv, ShutdownTypeOK
<1>4. ShutdownTypeOK'
  BY <1>2, <1>3
     DEF IInv, ShutdownTypeOK, coordinatorVars, tokenVars, streamVars, poolVars
<1>5. DrainedPool'
  BY <1>2, <1>3 DEF IInv, DrainedPool, AllEnded, poolVars
<1>6. PhaseOwner' /\ ~ panicked'
  BY <1>2 DEF IInv, PhaseOwner, coordinatorVars, poolVars
<1> QED BY <1>4, <1>5, <1>6 DEF IInv

\* The pool: it leaves the drain with the workers ended or the timeout
\* expired, and moves the phase only after it has found it at Draining.
LEMMA PoolStep == ASSUME IInv, Pool PROVE IInv'
<1> USE DEF IInv, ShutdownTypeOK, PhaseOwner, DrainedPool, AllEnded, PoolGoes,
            coordinatorVars, tokenVars, streamVars
<1>1. CASE PoolChecks
  BY <1>1 DEF PoolChecks
<1>2. CASE PoolJoins
  BY <1>2 DEF PoolJoins
<1>3. CASE PoolCancels
  BY <1>3 DEF PoolCancels
<1>4. CASE PoolDrains
  <2>1. /\ ~ timed_out' => AllEnded'
        /\ timed_out' \in BOOLEAN
    <3>1. CASE AllEnded
      BY <3>1, <1>4 DEF PoolDrains
    <3>2. CASE ~ AllEnded /\ timed_out' = TRUE
      BY <3>2
    <3> QED BY <3>1, <3>2, <1>4 DEF PoolDrains
  <2> HIDE DEF AllEnded
  <2> QED BY <2>1, <1>4 DEF PoolDrains
<1>5. CASE PoolFlushes
  BY <1>5 DEF PoolFlushes
<1>6. CASE PoolFinalizes
  BY <1>6 DEF PoolFinalizes, begin_finalizing, Advance
<1>7. CASE PoolDone
  BY <1>7 DEF PoolDone, set_done, Advance
<1> QED BY <1>1, <1>2, <1>3, <1>4, <1>5, <1>6, <1>7 DEF Pool

\* The dispatch loop, the committer and the runtime only look at the phase.
LEMMA OtherStep == ASSUME IInv, Dispatch \/ Committer \/ Runtime PROVE IInv'
<1> USE DEF IInv, ShutdownTypeOK, PhaseOwner, DrainedPool, AllEnded,
            coordinatorVars, tokenVars, streamVars, poolVars
<1>1. CASE Dispatch
  BY <1>1 DEF Dispatch, DispatcherStarts, DispatcherEnds
<1>2. CASE Committer
  BY <1>2 DEF Committer, CommitterSeesDone, CommitterEnds
<1>3. CASE RuntimeStopsRunner
  BY <1>3 DEF RuntimeStopsRunner, runner_stop
<1>4. CASE RuntimeAwaits
  BY <1>4 DEF RuntimeAwaits
<1> QED BY <1>1, <1>2, <1>3, <1>4 DEF Runtime

\* Every step of the system keeps the invariant.
LEMMA StepInvariant == IInv /\ [Next]_vars => IInv'
<1> SUFFICES ASSUME IInv, [Next]_vars PROVE IInv'
  OBVIOUS
<1>1. CASE UNCHANGED vars
  BY <1>1 DEF vars, IInv, ShutdownTypeOK, PhaseOwner, DrainedPool, AllEnded,
              coordinatorVars, tokenVars, streamVars, poolVars
<1>2. CASE Next
  BY <1>2, StopStep, WorkerStep, PoolStep, OtherStep DEF Next
<1> QED BY <1>1, <1>2
-----------------------------------------------------------------------------
\* The invariant holds throughout.
THEOREM Invariance == SafetySpec => []IInv
  BY InitInvariant, StepInvariant, PTL DEF SafetySpec

\* The state of the tasks, of the pool and of the coordinator stays well
\* typed; the pool has joined only workers that ended.
THEOREM TypeCorrect == SafetySpec => []ShutdownTypeOK
<1>1. IInv => ShutdownTypeOK
  BY DEF IInv
<1> QED BY <1>1, Invariance, PTL

\* No assertion of ShutdownCoordinator fails: begin_draining,
\* begin_finalizing and set_done are called in their own phase only.
THEOREM NoPanic == SafetySpec => []NoPhasePanics
<1>1. IInv => NoPhasePanics
  BY DEF IInv, NoPhasePanics
<1> QED BY <1>1, Invariance, PTL

\* Offsets are finalized after the drain: in Finalizing and Done no worker
\* runs, unless the drain timed out.
THEOREM FinalizeLast == SafetySpec => []FinalizeAfterDrain
<1>1. IInv => FinalizeAfterDrain
  BY DEF IInv, PhaseOwner, DrainedPool, FinalizeAfterDrain
<1> QED BY <1>1, Invariance, PTL
-----------------------------------------------------------------------------
(* Restarts.                                                               *)

\* The topics that have a handler.
Registered == {t \in Topics : handlers[t] # None}

\* A runtime is built only below the bound, and with no thread left over.
BuildInv ==
    /\ call \in {"build", "receivers", "handlers"} => generation < MaxStarts
    /\ call \notin {"running", "drop"} => orphans = {}

\* What each read of the handler map found is still true.
ReadsAgree ==
    /\ call \in {"receivers", "handlers"} => receivers = Registered
    /\ call \in {"handlers", "running"} =>
          handler_map = [t \in Topics |->
             IF t \in fan_out_handlers THEN "SingleSync" ELSE handlers[t]]
    /\ call = "running" /\ Cardinality(Topics) <= Cardinality(Workers) =>
          served = Registered

\* The inductive invariant.  PhaseOwner is true of a running runtime only:
\* dropping the runtime ends the signal task in whatever phase it is.
LifecycleInv ==
    /\ LifecycleTypeOK
    /\ DrainedPool /\ ~ panicked /\ FinalizeAfterDrain
    /\ call = "running" => PhaseOwner
    /\ BuildInv /\ ReadsAgree
-----------------------------------------------------------------------------
\* A Consumer that was just constructed.
LEMMA LifecycleInitInvariant == LifecycleInit => LifecycleInv
<1> SUFFICES ASSUME LifecycleInit PROVE LifecycleInv
  OBVIOUS
<1>1. IInv /\ phase = "Running"
  BY InitInvariant DEF LifecycleInit, Init
<1>2. LifecycleTypeOK
  BY <1>1, MaxStartsAssumption DEF LifecycleInit, IInv, LifecycleTypeOK, None
<1>3. BuildInv /\ ReadsAgree
  BY DEF LifecycleInit, BuildInv, ReadsAgree
<1>4. FinalizeAfterDrain
  BY <1>1 DEF FinalizeAfterDrain
<1> QED BY <1>1, <1>2, <1>3, <1>4 DEF LifecycleInv, IInv

\* Steps of the Consumer leave the runtime's tasks alone.
LEMMA TasksUntouched ==
    ASSUME LifecycleInv, UNCHANGED vars
    PROVE  /\ ShutdownTypeOK' /\ DrainedPool' /\ ~ panicked'
           /\ FinalizeAfterDrain' /\ PhaseOwner' = PhaseOwner
           /\ worker' = worker
  BY DEF LifecycleInv, LifecycleTypeOK, ShutdownTypeOK, DrainedPool, AllEnded,
         FinalizeAfterDrain, PhaseOwner, vars, coordinatorVars, tokenVars,
         streamVars, poolVars

\* Registration happens between runs, when nothing was read.
LEMMA RegistrationKeeps ==
    ASSUME LifecycleInv, call = "idle",
           handlers' \in [Topics -> Modes \cup {None}],
           fan_out_handlers' \subseteq {t \in Topics : handlers'[t] # None},
           UNCHANGED <<vars, call, generation, built, orphans, observed>>
    PROVE  LifecycleInv'
<1>1. UNCHANGED <<receivers, handler_map, served, snapshot_task, shown>>
  BY DEF built, observed
<1>2. /\ ShutdownTypeOK' /\ DrainedPool' /\ ~ panicked'
      /\ FinalizeAfterDrain' /\ worker' = worker
  BY TasksUntouched
<1>3. LifecycleTypeOK'
  BY <1>1, <1>2 DEF LifecycleInv, LifecycleTypeOK
<1>4. BuildInv' /\ ReadsAgree'
  BY <1>1 DEF LifecycleInv, BuildInv, ReadsAgree
<1> QED BY <1>2, <1>3, <1>4 DEF LifecycleInv

\* start() up to the pool: the reads of the handler map agree, because
\* nothing can be registered between them.
LEMMA CallKeeps ==
    ASSUME LifecycleInv,
           start \/ BuildFails \/ CollectReceivers \/ BuildHandlers \/ StartReturned
    PROVE  LifecycleInv'
<1>1. /\ UNCHANGED <<vars, handlers, fan_out_handlers, generation, orphans,
                     snapshot_task, shown>>
  BY DEF start, BuildFails, CollectReceivers, BuildHandlers, StartReturned,
         registration, observed
<1>2. /\ ShutdownTypeOK' /\ DrainedPool' /\ ~ panicked'
      /\ FinalizeAfterDrain' /\ worker' = worker
  BY <1>1, TasksUntouched
<1>3. /\ handlers \in [Topics -> Modes \cup {None}]
      /\ fan_out_handlers \subseteq Topics
  BY DEF LifecycleInv, LifecycleTypeOK
<1>4. /\ call' \in {"idle", "build", "receivers", "handlers"}
      /\ receivers' \subseteq Topics /\ served' \subseteq Topics
      /\ handler_map' \in [Topics -> Modes \cup {None}]
  BY <1>3 DEF start, BuildFails, CollectReceivers, BuildHandlers, StartReturned,
              CallGoes, built, LifecycleInv, LifecycleTypeOK, Modes
<1>5. LifecycleTypeOK'
  BY <1>1, <1>2, <1>4 DEF LifecycleInv, LifecycleTypeOK
<1>6. BuildInv'
  BY <1>1 DEF LifecycleInv, BuildInv, start, BuildFails, CollectReceivers,
              BuildHandlers, StartReturned, CallGoes
<1>7. ReadsAgree'
  BY <1>1 DEF LifecycleInv, ReadsAgree, Registered, start, BuildFails,
              CollectReceivers, BuildHandlers, StartReturned, CallGoes, built
<1> QED BY <1>2, <1>4, <1>5, <1>6, <1>7 DEF LifecycleInv

\* With workers enough, all receivers are dealt.
LEMMA AllDealt ==
    ASSUME NEW R \in SUBSET Topics, NEW S \in Dealt(R),
           Cardinality(Topics) <= Cardinality(Workers)
    PROVE  S = R
<1>1. IsFiniteSet(R) /\ Cardinality(R) <= Cardinality(Topics)
  BY FiniteAssumption, FS_Subset
<1>2. S \in SUBSET R
  BY DEF Dealt
<1>3. /\ IsFiniteSet(S) /\ Cardinality(S) <= Cardinality(R)
      /\ Cardinality(R) = Cardinality(S) => R = S
  BY <1>1, <1>2, FS_Subset
<1>4. /\ Cardinality(R) \in Nat /\ Cardinality(S) \in Nat
      /\ Cardinality(Topics) \in Nat /\ Cardinality(Workers) \in Nat
  BY <1>1, <1>3, FiniteAssumption, FS_CardinalityType
<1>5. CASE S = R
  BY <1>5
<1>6. CASE Cardinality(S) = Cardinality(Workers)
  BY <1>1, <1>3, <1>4, <1>6
<1> QED BY <1>5, <1>6 DEF Dealt

\* A new runtime starts where the Shutdown module starts, but for the token,
\* which may be cancelled, and the workers that got no receiver.
LEMMA BuildPoolKeeps ==
    ASSUME LifecycleInv, BuildPool
    PROVE  LifecycleInv'
<1>1. /\ call = "handlers" /\ call' = "running"
      /\ served' \in Dealt(receivers) /\ generation' = generation + 1
      /\ receivers' = {} /\ joined' \subseteq Workers
      /\ worker' = [w \in Workers |-> IF w \in joined' THEN "exited" ELSE "idle"]
      /\ phase' = "Running" /\ signal_task' = "waiting"
      /\ dispatcher' = "spawned" /\ stop_sent' = FALSE
      /\ aborting' = FALSE /\ timed_out' = FALSE /\ pool' = "check"
      /\ committer' = "running" /\ runtime' = "pool"
      /\ snapshot_task' \in {snapshot_task, generation + 1}
      /\ UNCHANGED <<panicked, cancelled, stop_called, handlers,
                     fan_out_handlers, handler_map, orphans, shown>>
  BY DEF BuildPool, CallGoes, SpawnSnapshotTask, tokenVars, registration
<1>2. ShutdownTypeOK'
  BY <1>1 DEF LifecycleInv, LifecycleTypeOK, ShutdownTypeOK, Ended
<1>3. DrainedPool' /\ ~ panicked' /\ FinalizeAfterDrain' /\ PhaseOwner'
  BY <1>1 DEF LifecycleInv, DrainedPool, FinalizeAfterDrain, PhaseOwner
<1>4. generation < MaxStarts /\ orphans = {} /\ receivers = Registered
  BY <1>1 DEF LifecycleInv, BuildInv, ReadsAgree
<1>5. served' \subseteq Topics
  BY <1>1, <1>4 DEF Dealt, Registered
<1>6. generation' \in 0 .. MaxStarts /\ snapshot_task' \in 0 .. generation'
  BY <1>1, <1>4, MaxStartsAssumption DEF LifecycleInv, LifecycleTypeOK
<1>7. LifecycleTypeOK'
  BY <1>1, <1>2, <1>4, <1>5, <1>6 DEF LifecycleInv, LifecycleTypeOK
<1>8. BuildInv'
  BY <1>1 DEF BuildInv
<1>9. ReadsAgree'
  <2>1. Cardinality(Topics) <= Cardinality(Workers) => served' = Registered
    BY <1>1, <1>4, AllDealt DEF Registered
  <2> QED BY <1>1, <2>1 DEF LifecycleInv, ReadsAgree, Registered
<1> QED BY <1>3, <1>7, <1>8, <1>9 DEF LifecycleInv

\* A worker that was aborted stays aborted while its runtime is there.
LEMMA AbortedStays ==
    ASSUME ShutdownTypeOK, Next, NEW w \in Workers, worker[w] = "aborted"
    PROVE  worker'[w] = "aborted"
<1>1. ASSUME NEW v \in Workers, WorkerTakes(v) \/ WorkerEnds(v)
      PROVE  worker'[w] = "aborted"
  <2>1. PICK from \in {"idle", "busy"}, to \in {"idle", "busy"} \cup Ended :
           BecomesOf(v, from, to)
    BY <1>1 DEF WorkerTakes, WorkerEnds, WorkerFinishes, WorkerStops,
                WorkerPanics, WorkerAborted, Ended
  <2>2. v # w /\ worker' = [worker EXCEPT ![v] = to]
    BY <2>1 DEF BecomesOf
  <2> QED BY <2>2 DEF ShutdownTypeOK
<1>2. CASE Stop \/ SignalReceived \/ SignalTask
  BY <1>2 DEF Stop, SignalReceived, SignalTask, SignalDrains, SignalCancels,
              SignalStopsRunner
<1>3. CASE Dispatch \/ Committer \/ Runtime
  BY <1>3 DEF Dispatch, DispatcherStarts, DispatcherEnds, Committer,
              CommitterSeesDone, CommitterEnds, Runtime, RuntimeStopsRunner,
              RuntimeAwaits
<1>4. CASE Pool
  BY <1>4 DEF Pool, PoolChecks, PoolJoins, PoolCancels, PoolDrains, PoolFlushes,
              PoolFinalizes, PoolDone
<1> QED BY <1>1, <1>2, <1>3, <1>4 DEF Next

\* A step of the running runtime, by StepInvariant.
LEMMA DuringKeeps ==
    ASSUME LifecycleInv, During(Next)
    PROVE  LifecycleInv'
<1>1. /\ call = "running" /\ call' = "running" /\ Next /\ LeaveThreads
      /\ UNCHANGED <<handlers, fan_out_handlers, generation, receivers,
                     handler_map, served, snapshot_task, shown>>
  BY DEF During, registration, built, observed
<1>2. IInv /\ ShutdownTypeOK
  BY <1>1 DEF LifecycleInv, LifecycleTypeOK, IInv
<1>3. IInv'
  BY <1>1, <1>2, StepInvariant
<1>4. orphans' \subseteq {w \in Workers : worker'[w] = "aborted"}
  BY <1>1, <1>2, AbortedStays DEF LifecycleInv, LifecycleTypeOK, LeaveThreads
<1>5. LifecycleTypeOK'
  BY <1>1, <1>3, <1>4 DEF LifecycleInv, LifecycleTypeOK, IInv
<1>6. FinalizeAfterDrain'
  BY <1>3 DEF IInv, PhaseOwner, DrainedPool, FinalizeAfterDrain
<1>7. BuildInv' /\ ReadsAgree'
  BY <1>1 DEF LifecycleInv, BuildInv, ReadsAgree, Registered
<1> QED BY <1>3, <1>5, <1>6, <1>7 DEF LifecycleInv, IInv

\* stop() at any time, with or without a runtime.
LEMMA StopKeeps ==
    ASSUME LifecycleInv, StopAnyTime
    PROVE  LifecycleInv'
<1>1. /\ stop_called' = TRUE /\ cancelled' = TRUE
      /\ UNCHANGED <<phase, panicked, signal_task, dispatcher, stop_sent, worker,
                     joined, aborting, timed_out, pool, committer, runtime>>
      /\ UNCHANGED <<handlers, fan_out_handlers, call, generation, receivers,
                     handler_map, served, orphans, snapshot_task, shown>>
  BY DEF StopAnyTime, Stop, coordinatorVars, streamVars, poolVars, lifecycleVars,
         registration, built, observed
<1>2. ShutdownTypeOK'
  BY <1>1 DEF LifecycleInv, LifecycleTypeOK, ShutdownTypeOK
<1>3. LifecycleTypeOK'
  BY <1>1, <1>2 DEF LifecycleInv, LifecycleTypeOK
<1>4. /\ DrainedPool' /\ ~ panicked' /\ FinalizeAfterDrain'
      /\ call' = "running" => PhaseOwner'
  BY <1>1 DEF LifecycleInv, DrainedPool, AllEnded, FinalizeAfterDrain, PhaseOwner
<1>5. BuildInv' /\ ReadsAgree'
  BY <1>1 DEF LifecycleInv, BuildInv, ReadsAgree, Registered
<1> QED BY <1>3, <1>4, <1>5 DEF LifecycleInv

\* The drop of the tokio runtime: the workers that are left are aborted, the
\* ones that ended stay as they are.
LEMMA ReturnKeeps ==
    ASSUME LifecycleInv, RuntimeReturned
    PROVE  LifecycleInv'
<1>1. /\ call' = "drop" /\ signal_task' = "ended" /\ LeaveThreads
      /\ worker' = [w \in Workers |->
            CASE worker[w] = "busy" -> "aborted"
              [] worker[w] = "idle" -> "exited"
              [] OTHER -> worker[w]]
      /\ UNCHANGED <<phase, panicked, cancelled, stop_called, dispatcher,
                     stop_sent, joined, aborting, timed_out, pool, committer,
                     runtime>>
      /\ UNCHANGED <<handlers, fan_out_handlers, generation, receivers,
                     handler_map, served, snapshot_task, shown>>
  BY DEF RuntimeReturned, CallGoes, coordinatorVars, tokenVars, streamVars,
         poolVars, registration, built, observed
<1>2. ShutdownTypeOK
  BY DEF LifecycleInv, LifecycleTypeOK
<1>3. \A w \in Workers :
         /\ worker'[w] \in Ended
         /\ worker[w] = "aborted" => worker'[w] = "aborted"
  BY <1>1, <1>2 DEF ShutdownTypeOK, Ended
<1>4. ShutdownTypeOK'
  <2>1. worker' \in [Workers -> {"idle", "busy"} \cup Ended]
    BY <1>1, <1>3
  <2>2. joined' \subseteq {w \in Workers : worker'[w] \in Ended}
    BY <1>1, <1>2, <1>3 DEF ShutdownTypeOK
  <2> QED BY <1>1, <1>2, <2>1, <2>2 DEF ShutdownTypeOK
<1>5. orphans' \subseteq {w \in Workers : worker'[w] = "aborted"}
  BY <1>1, <1>3 DEF LifecycleInv, LifecycleTypeOK, LeaveThreads
<1>6. LifecycleTypeOK'
  BY <1>1, <1>4, <1>5 DEF LifecycleInv, LifecycleTypeOK
<1>7. DrainedPool' /\ ~ panicked' /\ FinalizeAfterDrain'
  BY <1>1, <1>3 DEF LifecycleInv, DrainedPool, AllEnded, FinalizeAfterDrain
<1>8. BuildInv' /\ ReadsAgree'
  BY <1>1 DEF BuildInv, ReadsAgree
<1> QED BY <1>1, <1>6, <1>7, <1>8 DEF LifecycleInv
-----------------------------------------------------------------------------
\* Every step keeps the invariant.
LEMMA LifecycleStepInvariant ==
    LifecycleInv /\ [LifecycleNext]_allVars => LifecycleInv'
<1> SUFFICES ASSUME LifecycleInv, [LifecycleNext]_allVars PROVE LifecycleInv'
  OBVIOUS
<1>1. ASSUME NEW t \in Topics, NEW mode \in AddedModes[t], add_handler(t, mode)
      PROVE  LifecycleInv'
  <2>1. mode \in Modes /\ mode # None
    BY RegistrationAssumption DEF Modes, None
  <2>2. /\ handlers' \in [Topics -> Modes \cup {None}]
        /\ fan_out_handlers' \subseteq {u \in Topics : handlers'[u] # None}
    BY <1>1, <2>1 DEF add_handler, LifecycleInv, LifecycleTypeOK
  <2> QED BY <1>1, <2>2, RegistrationKeeps DEF add_handler
<1>2. ASSUME NEW sinks \in SinkGroups, register_fanout(sinks)
      PROVE  LifecycleInv'
  <2>1. sinks \subseteq Topics
    BY RegistrationAssumption
  <2>2. handlers' \in [Topics -> Modes \cup {None}]
    BY <1>2 DEF register_fanout, add_handler_with_fan_out, LifecycleInv,
                LifecycleTypeOK, Modes
  <2>3. fan_out_handlers' \subseteq {u \in Topics : handlers'[u] # None}
    BY <1>2, <2>1 DEF register_fanout, add_handler_with_fan_out, LifecycleInv,
                      LifecycleTypeOK, None
  <2> QED BY <1>2, <2>2, <2>3, RegistrationKeeps DEF register_fanout
<1>3. CASE poll_and_update
  <2>1. /\ UNCHANGED <<vars, handlers, fan_out_handlers, call, generation,
                       receivers, handler_map, served, orphans, snapshot_task>>
        /\ shown' \in [Workers -> {"Idle", "Working", None}]
    BY <1>3 DEF poll_and_update, registration, built, Status
  <2>2. /\ ShutdownTypeOK' /\ DrainedPool' /\ ~ panicked'
        /\ FinalizeAfterDrain' /\ PhaseOwner' = PhaseOwner /\ worker' = worker
    BY <2>1, TasksUntouched
  <2>3. LifecycleTypeOK'
    BY <2>1, <2>2 DEF LifecycleInv, LifecycleTypeOK
  <2>4. BuildInv' /\ ReadsAgree'
    BY <2>1 DEF LifecycleInv, BuildInv, ReadsAgree, Registered
  <2> QED BY <2>1, <2>2, <2>3, <2>4 DEF LifecycleInv
<1>4. ASSUME NEW w \in Workers, ThreadEnds(w) PROVE LifecycleInv'
  <2>1. /\ UNCHANGED <<vars, handlers, fan_out_handlers, call, generation,
                       receivers, handler_map, served, snapshot_task, shown>>
        /\ orphans' = orphans \ {w}
    BY <1>4 DEF ThreadEnds, registration, built, observed
  <2>2. /\ ShutdownTypeOK' /\ DrainedPool' /\ ~ panicked'
        /\ FinalizeAfterDrain' /\ PhaseOwner' = PhaseOwner /\ worker' = worker
    BY <2>1, TasksUntouched
  <2>3. LifecycleTypeOK'
    BY <2>1, <2>2 DEF LifecycleInv, LifecycleTypeOK
  <2>4. BuildInv' /\ ReadsAgree'
    BY <2>1 DEF LifecycleInv, BuildInv, ReadsAgree, Registered
  <2> QED BY <2>1, <2>2, <2>3, <2>4 DEF LifecycleInv
<1>5. CASE UNCHANGED allVars
  <2>1. UNCHANGED <<vars, handlers, fan_out_handlers, call, generation, receivers,
                    handler_map, served, orphans, snapshot_task, shown>>
    BY <1>5 DEF allVars, lifecycleVars, registration, built, observed
  <2>2. /\ ShutdownTypeOK' /\ DrainedPool' /\ ~ panicked'
        /\ FinalizeAfterDrain' /\ PhaseOwner' = PhaseOwner /\ worker' = worker
    BY <2>1, TasksUntouched
  <2>3. LifecycleTypeOK'
    BY <2>1, <2>2 DEF LifecycleInv, LifecycleTypeOK
  <2>4. BuildInv' /\ ReadsAgree'
    BY <2>1 DEF LifecycleInv, BuildInv, ReadsAgree, Registered
  <2> QED BY <2>1, <2>2, <2>3, <2>4 DEF LifecycleInv
<1>6. CASE start \/ BuildFails \/ Build \/ StartReturned
  BY <1>6, CallKeeps, BuildPoolKeeps DEF Build
<1> QED BY <1>1, <1>2, <1>3, <1>4, <1>5, <1>6, DuringKeeps, StopKeeps, ReturnKeeps
        DEF LifecycleNext

\* The invariant holds throughout.
THEOREM LifecycleInvariance == LifecycleSafetySpec => []LifecycleInv
  BY LifecycleInitInvariant, LifecycleStepInvariant, PTL DEF LifecycleSafetySpec

\* Type correctness over restarts: handler threads left behind belong to
\* aborted workers, and joined workers have ended.
THEOREM LifecycleTypeCorrect == LifecycleSafetySpec => []LifecycleTypeOK
<1>1. LifecycleInv => LifecycleTypeOK
  BY DEF LifecycleInv
<1> QED BY <1>1, LifecycleInvariance, PTL

\* No phase assertion fails in any run of a Consumer that is started again,
\* also when stop() came between two runs.
THEOREM NoPanicOverRestarts == LifecycleSafetySpec => []NoPhasePanics
<1>1. LifecycleInv => NoPhasePanics
  BY DEF LifecycleInv, NoPhasePanics
<1> QED BY <1>1, LifecycleInvariance, PTL

\* In every run, offsets are finalized after the drain.
THEOREM FinalizeLastOverRestarts == LifecycleSafetySpec => []FinalizeAfterDrain
<1>1. LifecycleInv => FinalizeAfterDrain
  BY DEF LifecycleInv
<1> QED BY <1>1, LifecycleInvariance, PTL

\* With workers enough, every topic with a handler is served, by a handler of
\* the kind registered.
THEOREM EveryHandlerServed == LifecycleSafetySpec => []HandlersServed
<1>1. LifecycleInv => HandlersServed
  <2> SUFFICES ASSUME LifecycleInv, call = "running",
                      Cardinality(Topics) <= Cardinality(Workers),
                      NEW t \in Topics, handlers[t] # None
               PROVE  /\ t \in served /\ handler_map[t] # None
                      /\ all_batch => handlers[t] = "BatchSync"
    BY DEF HandlersServed
  <2>1. /\ served = Registered
        /\ handler_map[t] = IF t \in fan_out_handlers THEN "SingleSync"
                                                      ELSE handlers[t]
    BY DEF LifecycleInv, ReadsAgree
  <2>2. handlers[t] \in {"SingleSync", "BatchSync"}
    BY DEF LifecycleInv, LifecycleTypeOK, Modes
  <2> QED BY <2>1, <2>2 DEF Registered, all_batch, None
<1> QED BY <1>1, LifecycleInvariance, PTL
=============================================================================
