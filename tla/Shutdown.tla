------------------------------ MODULE Shutdown ------------------------------
(***************************************************************************)
(* How a consumer stops: the phases of src/src/shutdown/shutdown.rs, the   *)
(* signal task and Runtime::run of src/src/runtime/builder.rs, the run and *)
(* shutdown of src/src/worker_pool/pool.rs, Consumer.stop of               *)
(* src/src/consumer/runtime.rs, the runner's stop broadcast and the two    *)
(* tasks Runtime::run awaits, the dispatch loop and the committer.  What   *)
(* the workers and the committer do with messages and offsets is the       *)
(* subject of other modules; here a worker is idle or inside a handler.    *)
(* The runner gets no coordinator from the builder, so its stop() only     *)
(* broadcasts.                                                             *)
(***************************************************************************)
EXTENDS Naturals

CONSTANT Workers \* the tasks of the pool's JoinSet

VARIABLES
    phase,       \* ShutdownCoordinator's phase
    panicked,    \* a phase assertion failed
    cancelled,   \* the shutdown token
    stop_called, \* history: Python called Consumer.stop()
    signal_task, \* the task run_with_sigterm spawns
    dispatcher,  \* the dispatch loop, which subscribes to the broadcast
    stop_sent,   \* a stop broadcast is waiting for the dispatch loop's runner
    worker,      \* "idle", "busy", or how the task ended
    joined,      \* the workers the pool has joined
    aborting,    \* JoinSet::shutdown or abort_all has asked for the abort
    timed_out,   \* drain_timeout elapsed before every worker had ended
    pool,        \* where WorkerPool::run or shutdown is
    committer,   \* the committer task
    runtime      \* where Runtime::run is

coordinatorVars == <<phase, panicked>>
tokenVars  == <<cancelled, stop_called>>
streamVars == <<dispatcher, stop_sent>>
poolVars   == <<joined, aborting, timed_out, pool>>
vars == <<coordinatorVars, tokenVars, signal_task, streamVars, worker,
          poolVars, committer, runtime>>

Ended == {"exited", "panicked", "aborted"}

ShutdownTypeOK ==
    /\ phase \in {"Running", "Draining", "Finalizing", "Done"}
    /\ panicked \in BOOLEAN
    /\ cancelled \in BOOLEAN /\ stop_called \in BOOLEAN
    /\ signal_task \in {"waiting", "drain", "cancel", "stop", "ended"}
    /\ dispatcher \in {"spawned", "running", "ended"}
    /\ stop_sent \in BOOLEAN
    /\ worker \in [Workers -> {"idle", "busy"} \cup Ended]
    /\ joined \subseteq {w \in Workers : worker[w] \in Ended}
    /\ aborting \in BOOLEAN /\ timed_out \in BOOLEAN
    /\ pool \in {"check", "join", "cancel", "drain", "flush", "finalize",
                 "done", "returned"}
    /\ committer \in {"running", "final", "ended"}
    /\ runtime \in {"pool", "dispatcher", "committer", "returned"}

Init ==
    /\ phase = "Running" /\ panicked = FALSE
    /\ cancelled = FALSE /\ stop_called = FALSE
    /\ signal_task = "waiting"
    /\ dispatcher = "spawned" /\ stop_sent = FALSE
    /\ worker = [w \in Workers |-> "idle"]
    /\ joined = {} /\ aborting = FALSE /\ timed_out = FALSE
    /\ pool = "check"
    /\ committer = "running"
    /\ runtime = "pool"
-----------------------------------------------------------------------------
(* ShutdownCoordinator: a transition from any other phase panics.          *)

Advance(from, to) ==
    IF phase = from
    THEN phase' = to /\ UNCHANGED panicked
    ELSE panicked' = TRUE /\ UNCHANGED phase

begin_draining == Advance("Running", "Draining")

begin_finalizing == Advance("Draining", "Finalizing")

set_done == Advance("Finalizing", "Done")
-----------------------------------------------------------------------------
(* Who asks for the stop.                                                  *)

\* Mutant: stop() starts the drain as well.
StopDrains ==
    /\ ~ stop_called
    /\ stop_called' = TRUE
    /\ cancelled' = TRUE
    /\ begin_draining
    /\ UNCHANGED <<signal_task, streamVars, worker, poolVars, committer, runtime>>

\* Consumer.stop() from Python only cancels the token.
Stop ==
    /\ ~ stop_called
    /\ stop_called' = TRUE
    /\ cancelled' = TRUE
    /\ UNCHANGED <<coordinatorVars, signal_task, streamVars, worker, poolVars,
                   committer, runtime>>

SignalReceived ==
    /\ signal_task = "waiting"
    /\ signal_task' = "drain"
    /\ UNCHANGED <<coordinatorVars, tokenVars, streamVars, worker, poolVars,
                   committer, runtime>>

SignalDrains ==
    /\ signal_task = "drain"
    /\ begin_draining
    /\ signal_task' = "cancel"
    /\ UNCHANGED <<tokenVars, streamVars, worker, poolVars, committer, runtime>>

SignalCancels ==
    /\ signal_task = "cancel"
    /\ cancelled' = TRUE
    /\ signal_task' = "stop"
    /\ UNCHANGED <<coordinatorVars, stop_called, streamVars, worker, poolVars,
                   committer, runtime>>

\* A broadcast reaches only the subscribers there are.
runner_stop ==
    /\ stop_sent' = (stop_sent \/ dispatcher = "running")
    /\ UNCHANGED dispatcher

SignalStopsRunner ==
    /\ signal_task = "stop"
    /\ runner_stop
    /\ signal_task' = "ended"
    /\ UNCHANGED <<coordinatorVars, tokenVars, worker, poolVars, committer, runtime>>
-----------------------------------------------------------------------------
(* The dispatch loop: run() subscribes when the spawned task is first      *)
(* polled; the runner breaks on the broadcast, the stream ends, the loop   *)
(* with it.                                                                *)

DispatcherStarts ==
    /\ dispatcher = "spawned"
    /\ dispatcher' = "running"
    /\ UNCHANGED <<coordinatorVars, tokenVars, signal_task, stop_sent, worker,
                   poolVars, committer, runtime>>

DispatcherEnds ==
    /\ dispatcher = "running" /\ stop_sent
    /\ dispatcher' = "ended"
    /\ UNCHANGED <<coordinatorVars, tokenVars, signal_task, stop_sent, worker,
                   poolVars, committer, runtime>>
-----------------------------------------------------------------------------
(* Workers.                                                                *)

BecomesOf(w, from, to) ==
    /\ worker[w] = from
    /\ worker' = [worker EXCEPT ![w] = to]
    /\ UNCHANGED <<coordinatorVars, tokenVars, signal_task, streamVars,
                   poolVars, committer, runtime>>

\* The select is unbiased: a message may be taken after the cancellation.
WorkerTakes(w) == ~ aborting /\ BecomesOf(w, "idle", "busy")

\* A handler that ends while its worker is being aborted was in its last poll.
WorkerFinishes(w) ==
    BecomesOf(w, "busy", IF cancelled THEN "exited" ELSE "idle")

WorkerStops(w) == cancelled /\ BecomesOf(w, "idle", "exited")

WorkerPanics(w) == BecomesOf(w, "busy", "panicked")

WorkerAborted(w) ==
    /\ aborting
    /\ \/ BecomesOf(w, "busy", "aborted")
       \/ BecomesOf(w, "idle", "exited")
-----------------------------------------------------------------------------
(* WorkerPool.                                                             *)

PoolGoes(from, to) ==
    /\ pool = from
    /\ pool' = to

\* run(): while the token is not cancelled, join the next worker.
PoolChecks ==
    /\ PoolGoes("check", IF cancelled THEN "cancel" ELSE "join")
    /\ UNCHANGED <<coordinatorVars, tokenVars, signal_task, streamVars, worker,
                   joined, aborting, timed_out, committer, runtime>>

\* Mutant: a worker is taken out of the set without having ended.
PoolJoinsAny ==
    /\ PoolGoes("join", "check")
    /\ \E w \in Workers \ joined : joined' = joined \cup {w}
    /\ UNCHANGED <<coordinatorVars, tokenVars, signal_task, streamVars, worker,
                   aborting, timed_out, committer, runtime>>

\* Mutant: join_next waits although no worker is left.
PoolJoinsWaits ==
    /\ PoolGoes("join", "check")
    /\ \E w \in Workers \ joined :
          /\ worker[w] \in Ended
          /\ joined' = joined \cup {w}
    /\ UNCHANGED <<coordinatorVars, tokenVars, signal_task, streamVars, worker,
                   aborting, timed_out, committer, runtime>>

\* join_next: the end or the panic of a worker is only logged; with nobody
\* left it returns at once.
PoolJoins ==
    /\ PoolGoes("join", "check")
    /\ \/ \E w \in Workers \ joined :
             /\ worker[w] \in Ended
             /\ joined' = joined \cup {w}
       \/ /\ joined = Workers
          /\ UNCHANGED joined
    /\ UNCHANGED <<coordinatorVars, tokenVars, signal_task, streamVars, worker,
                   aborting, timed_out, committer, runtime>>

\* shutdown(): cancel, then JoinSet::shutdown aborts what still runs.
PoolCancels ==
    /\ PoolGoes("cancel", "drain")
    /\ cancelled' = TRUE
    /\ aborting' = TRUE
    /\ UNCHANGED <<coordinatorVars, stop_called, signal_task, streamVars,
                   worker, joined, timed_out, committer, runtime>>

AllEnded == \A w \in Workers : worker[w] \in Ended

\* Mutant: the pool does not wait for the aborted workers.
PoolDrainsAtOnce ==
    /\ PoolGoes("drain", "flush")
    /\ UNCHANGED <<coordinatorVars, tokenVars, signal_task, streamVars, worker,
                   joined, aborting, timed_out, committer, runtime>>

\* The drain ends with the last worker, or with the timeout.
PoolDrains ==
    /\ PoolGoes("drain", "flush")
    /\ \/ AllEnded /\ UNCHANGED timed_out
       \/ ~ AllEnded /\ timed_out' = TRUE
    /\ UNCHANGED <<coordinatorVars, tokenVars, signal_task, streamVars, worker,
                   joined, aborting, committer, runtime>>

\* flush_failed_to_dlq and graceful_shutdown, then the look at the phase.
PoolFlushes ==
    /\ PoolGoes("flush", IF phase = "Draining" THEN "finalize" ELSE "returned")
    /\ UNCHANGED <<coordinatorVars, tokenVars, signal_task, streamVars, worker,
                   joined, aborting, timed_out, committer, runtime>>

PoolFinalizes ==
    /\ PoolGoes("finalize", "done")
    /\ begin_finalizing
    /\ UNCHANGED <<tokenVars, signal_task, streamVars, worker, joined,
                   aborting, timed_out, committer, runtime>>

\* Mutant: the phase is left at Finalizing.
PoolForgetsDone ==
    /\ PoolGoes("done", "returned")
    /\ UNCHANGED <<coordinatorVars, tokenVars, signal_task, streamVars, worker,
                   joined, aborting, timed_out, committer, runtime>>

PoolDone ==
    /\ PoolGoes("done", "returned")
    /\ set_done
    /\ UNCHANGED <<tokenVars, signal_task, streamVars, worker, joined,
                   aborting, timed_out, committer, runtime>>
-----------------------------------------------------------------------------
(* The committer polls is_done, commits a last time and ends.              *)

CommitterSeesDone ==
    /\ committer = "running" /\ phase = "Done"
    /\ committer' = "final"
    /\ UNCHANGED <<coordinatorVars, tokenVars, signal_task, streamVars, worker,
                   poolVars, runtime>>

CommitterEnds ==
    /\ committer = "final"
    /\ committer' = "ended"
    /\ UNCHANGED <<coordinatorVars, tokenVars, signal_task, streamVars, worker,
                   poolVars, runtime>>
-----------------------------------------------------------------------------
(* Runtime::run.                                                           *)

RuntimeStopsRunner ==
    /\ runtime = "pool" /\ pool = "returned"
    /\ runner_stop
    /\ runtime' = "dispatcher"
    /\ UNCHANGED <<coordinatorVars, tokenVars, signal_task, worker, poolVars,
                   committer>>

RuntimeAwaits ==
    /\ \/ /\ runtime = "dispatcher" /\ dispatcher = "ended"
          /\ runtime' = "committer"
       \/ /\ runtime = "committer" /\ committer = "ended"
          /\ runtime' = "returned"
    /\ UNCHANGED <<coordinatorVars, tokenVars, signal_task, streamVars, worker,
                   poolVars, committer>>
-----------------------------------------------------------------------------
SignalTask == SignalDrains \/ SignalCancels \/ SignalStopsRunner

WorkerEnds(w) ==
    WorkerFinishes(w) \/ WorkerStops(w) \/ WorkerPanics(w) \/ WorkerAborted(w)

Pool == \/ PoolChecks \/ PoolJoins \/ PoolCancels \/ PoolDrains
        \/ PoolFlushes \/ PoolFinalizes \/ PoolDone

Committer == CommitterSeesDone \/ CommitterEnds

Dispatch == DispatcherStarts \/ DispatcherEnds

Runtime == RuntimeStopsRunner \/ RuntimeAwaits

Next ==
    \/ Stop \/ SignalReceived \/ SignalTask
    \/ Dispatch
    \/ \E w \in Workers : WorkerTakes(w) \/ WorkerEnds(w)
    \/ Pool \/ Committer \/ Runtime

SafetySpec == Init /\ [][Next]_vars

(***************************************************************************)
(* Every task is polled again while it is ready, handlers end, and a       *)
(* cancelled select is noticed; nobody has to stop the consumer or to send *)
(* it messages.  An idle worker that keeps taking messages after the       *)
(* cancellation picks the cancelled branch in the end (the select is       *)
(* random), and a finished message ends it anyway.                         *)
(***************************************************************************)
Spec ==
    /\ SafetySpec
    /\ WF_vars(SignalTask) /\ WF_vars(Dispatch)
    /\ \A w \in Workers : WF_vars(WorkerEnds(w))
    /\ WF_vars(Pool) /\ WF_vars(Committer) /\ WF_vars(Runtime)
-----------------------------------------------------------------------------
(* Properties; the ones about returning are in Lifecycle.                  *)

\* No phase transition panics, in whatever order signals, stop() and the
\* pool's own shutdown meet: the assertions of ShutdownCoordinator hold.
NoPhasePanics == ~ panicked

\* Offsets are finalized only after the drain: once the phase has left
\* Draining, no worker runs unless the drain timed out, so the committer's
\* last cycle sees every ack.
FinalizeAfterDrain ==
    phase \in {"Finalizing", "Done"} /\ ~ timed_out => AllEnded
-----------------------------------------------------------------------------
(* What the Python docstring says and the code does not do.                *)

\* src/kafpy/consumer.py:66-70: stop() goes through all the phases to Done.
StopReachesDone == stop_called ~> (phase = "Done")
=============================================================================
