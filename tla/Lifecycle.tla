------------------------------ MODULE Lifecycle ------------------------------
(***************************************************************************)
(* A Python Consumer from its construction on: handlers are registered,    *)
(* start() builds a runtime (src/src/consumer/runtime.rs, RuntimeBuilder   *)
(* of src/src/runtime/builder.rs, WorkerPool::new), the runtime runs and   *)
(* stops as the Shutdown module says, and start() returns when the tokio   *)
(* runtime has been dropped.  Then handlers may be added and start() be    *)
(* called again: the token and the handler maps are the Consumer's, all    *)
(* else is built anew.  The snapshot task of                               *)
(* src/src/observability/runtime_snapshot.rs polls the workers' states     *)
(* into a global that status() reads and that is set once per process.     *)
(***************************************************************************)
EXTENDS Shutdown, FiniteSets

CONSTANTS
    Topics,     \* the topics handlers are registered for
    AddedModes, \* the modes add_handler is called with, per topic
    SinkGroups, \* the sets of sink topics register_fanout is called with
    MaxStarts   \* bound: how many runtimes are built

ASSUME MaxStartsAssumption == MaxStarts \in Nat \ {0}

VARIABLES
    handlers,         \* PyConsumer::handlers: the mode registered per topic
    fan_out_handlers, \* PyConsumer::fan_out_handlers: the topics with one
    call,             \* where start() is
    generation,       \* history: how many runtimes have been built
    receivers,        \* the topics build() created a queue for
    handler_map,      \* the mode of the PythonHandler built per topic
    served,           \* the topics whose receiver a worker of the pool has
    orphans,          \* handler threads whose worker is gone
    snapshot_task,    \* the generation whose task is GLOBAL_SNAPSHOT_TASK
    shown             \* worker_states of the global snapshot

registration == <<handlers, fan_out_handlers>>
built == <<receivers, handler_map, served>>
observed == <<snapshot_task, shown>>
lifecycleVars == <<registration, call, generation, built, orphans, observed>>
allVars == <<vars, lifecycleVars>>

None == "none"

Modes == {"SingleSync", "BatchSync"}

ASSUME RegistrationAssumption ==
    /\ AddedModes \in [Topics -> SUBSET Modes]
    /\ SinkGroups \subseteq SUBSET Topics

\* The handler map and n_workers are finite.
ASSUME FiniteAssumption == IsFiniteSet(Topics) /\ IsFiniteSet(Workers)

LifecycleTypeOK ==
    /\ ShutdownTypeOK
    /\ handlers \in [Topics -> Modes \cup {None}]
    /\ fan_out_handlers \subseteq {t \in Topics : handlers[t] # None}
    /\ call \in {"idle", "build", "receivers", "handlers", "running", "drop"}
    /\ generation \in 0 .. MaxStarts
    /\ receivers \subseteq Topics
    /\ handler_map \in [Topics -> Modes \cup {None}]
    /\ served \subseteq Topics
    /\ orphans \subseteq {w \in Workers : worker[w] = "aborted"}
    /\ snapshot_task \in 0 .. generation
    /\ shown \in [Workers -> {"Idle", "Working", None}]

\* PyConsumer::new.  Of the tasks there is none yet; their variables have the
\* values a runtime starts with.
LifecycleInit ==
    /\ Init
    /\ handlers = [t \in Topics |-> None] /\ fan_out_handlers = {}
    /\ call = "idle" /\ generation = 0
    /\ receivers = {} /\ handler_map = [t \in Topics |-> None]
    /\ served = {} /\ orphans = {}
    /\ snapshot_task = 0 /\ shown = [w \in Workers |-> None]
-----------------------------------------------------------------------------
(* Registration.  Both calls borrow the Consumer mutably, which PyO3       *)
(* refuses while start() holds it.                                         *)

\* Mutant: the method takes &self, which the mutex around the map permits.
add_handler_shared(t, mode) ==
    /\ handlers' = [handlers EXCEPT ![t] = mode]
    /\ UNCHANGED <<vars, fan_out_handlers, call, generation, built, orphans,
                   observed>>

add_handler(t, mode) ==
    /\ call = "idle"
    /\ handlers' = [handlers EXCEPT ![t] = mode]
    /\ UNCHANGED <<vars, fan_out_handlers, call, generation, built, orphans,
                   observed>>

\* A sink topic gets a marker in handlers and a handler built at once.
add_handler_with_fan_out(sinks) ==
    /\ handlers' = [t \in Topics |-> IF t \in sinks THEN "SingleSync" ELSE handlers[t]]
    /\ fan_out_handlers' = fan_out_handlers \cup sinks

register_fanout(sinks) ==
    /\ call = "idle"
    /\ add_handler_with_fan_out(sinks)
    /\ UNCHANGED <<vars, call, generation, built, orphans, observed>>
-----------------------------------------------------------------------------
(* start() up to the running runtime.  build() has no await, but reads the *)
(* handler map under three separate locks; other threads may call stop().  *)

CallGoes(from, to) ==
    /\ call = from
    /\ call' = to

start ==
    /\ CallGoes("idle", "build") /\ generation < MaxStarts
    /\ UNCHANGED <<vars, registration, generation, built, orphans, observed>>

\* The configuration or the Kafka client is refused: start() raises.
BuildFails ==
    /\ CallGoes("build", "idle")
    /\ UNCHANGED <<vars, registration, generation, built, orphans, observed>>

\* register_handler for every topic of the map.
CollectReceivers ==
    /\ CallGoes("build", "receivers")
    /\ receivers' = {t \in Topics : handlers[t] # None}
    /\ UNCHANGED <<vars, registration, generation, handler_map, served,
                   orphans, observed>>

\* A topic that ever was a fan-out sink gets the handler registered then,
\* whatever was added for it since; the others one of the mode registered.
BuildHandlers ==
    /\ CallGoes("receivers", "handlers")
    /\ handler_map' = [t \in Topics |->
          IF t \in fan_out_handlers THEN "SingleSync" ELSE handlers[t]]
    /\ UNCHANGED <<vars, registration, generation, receivers, served,
                   orphans, observed>>

\* Receivers, in the order of a HashMap, are dealt to n_workers workers.
Dealt(topics) ==
    {S \in SUBSET topics :
        \/ S = topics /\ Cardinality(S) <= Cardinality(Workers)
        \/ Cardinality(S) = Cardinality(Workers)}

\* The first n of the workers.
FirstWorkers(n) == CHOOSE W \in SUBSET Workers : Cardinality(W) = n

\* The pool runs batch_worker_loop if every handler is a batch handler.
all_batch == \A t \in Topics : handler_map[t] # "SingleSync"

\* RuntimeSnapshotTask::spawn: only the first task becomes the global one.
SpawnSnapshotTask(g) ==
    snapshot_task' = IF snapshot_task = 0 THEN g ELSE snapshot_task

\* WorkerPool::new, the snapshot task, the committer, the dispatch loop and
\* the signal task.  The coordinator is new, the token is not.  A worker
\* without a receiver does not exist: it counts as joined.
BuildPool ==
    /\ CallGoes("handlers", "running")
    /\ served' \in Dealt(receivers)
    /\ generation' = generation + 1
    /\ receivers' = {}
    /\ joined' = Workers \ FirstWorkers(Cardinality(served'))
    /\ worker' = [w \in Workers |-> IF w \in joined' THEN "exited" ELSE "idle"]
    /\ phase' = "Running" /\ signal_task' = "waiting"
    /\ dispatcher' = "spawned" /\ stop_sent' = FALSE
    /\ aborting' = FALSE /\ timed_out' = FALSE /\ pool' = "check"
    /\ committer' = "running" /\ runtime' = "pool"
    /\ SpawnSnapshotTask(generation + 1)
    /\ UNCHANGED <<panicked, tokenVars, registration, handler_map, orphans, shown>>
-----------------------------------------------------------------------------
(* The runtime at work.                                                    *)

\* A worker aborted inside a handler leaves the handler's thread behind (one
\* aborted in its retry sleep leaves a thread that ends at once).
LeaveThreads ==
    orphans' = orphans \cup
        {w \in Workers : worker[w] = "busy" /\ worker'[w] = "aborted"}

\* A step A of the Shutdown module.
During(A) ==
    /\ call = "running"
    /\ A
    /\ LeaveThreads
    /\ UNCHANGED <<registration, call, generation, built, observed>>

\* stop() borrows the Consumer as start() does and may come at any time.
StopAnyTime ==
    /\ Stop
    /\ UNCHANGED lifecycleVars

\* WorkerPoolState: set_active or set_busy when a worker takes work, set_idle
\* when it is done; nobody corrects the entry of a worker that was aborted or
\* panicked in between.
Status(w) == IF worker[w] \in {"busy", "aborted", "panicked"} THEN "Working" ELSE "Idle"

\* Mutant: only the workers at work are reported.
poll_and_update_working ==
    /\ call = "running" /\ snapshot_task = generation
    /\ shown' = [w \in Workers |-> IF Status(w) = "Idle" THEN shown[w] ELSE Status(w)]
    /\ UNCHANGED <<vars, registration, call, generation, built, orphans,
                   snapshot_task>>

\* A tick of the task whose snapshot is the global one.  The task of a later
\* generation polls into a snapshot nobody reads.
poll_and_update ==
    /\ call = "running" /\ snapshot_task = generation
    /\ shown' = [w \in Workers |-> Status(w)]
    /\ UNCHANGED <<vars, registration, call, generation, built, orphans,
                   snapshot_task>>

ThreadEnds(w) ==
    /\ w \in orphans
    /\ orphans' = orphans \ {w}
    /\ UNCHANGED <<vars, registration, call, generation, built, observed>>
-----------------------------------------------------------------------------
(* The end of start().                                                     *)

\* Runtime::run returned.  Dropping the tokio runtime drops every task that
\* is left, a worker that outlived drain_timeout included.
RuntimeReturned ==
    /\ CallGoes("running", "drop") /\ runtime = "returned"
    /\ worker' = [w \in Workers |->
          CASE worker[w] = "busy" -> "aborted"
            [] worker[w] = "idle" -> "exited"
            [] OTHER -> worker[w]]
    /\ signal_task' = "ended"
    /\ LeaveThreads
    /\ UNCHANGED <<coordinatorVars, tokenVars, streamVars, poolVars, committer,
                   runtime, registration, generation, built, observed>>

\* The drop waits for the threads of the blocking pool; what was built is
\* gone, the global snapshot stays.
StartReturned ==
    /\ CallGoes("drop", "idle") /\ orphans = {}
    /\ handler_map' = [t \in Topics |-> None] /\ served' = {}
    /\ UNCHANGED <<vars, registration, generation, receivers, orphans, observed>>
-----------------------------------------------------------------------------
Build == CollectReceivers \/ BuildHandlers \/ BuildPool

LifecycleNext ==
    \/ \E t \in Topics : \E mode \in AddedModes[t] : add_handler(t, mode)
    \/ \E sinks \in SinkGroups : register_fanout(sinks)
    \/ start \/ BuildFails \/ Build
    \/ During(Next) \/ StopAnyTime
    \/ poll_and_update
    \/ \E w \in Workers : ThreadEnds(w)
    \/ RuntimeReturned \/ StartReturned

LifecycleSafetySpec == LifecycleInit /\ [][LifecycleNext]_allVars

(***************************************************************************)
(* The fairness of the Shutdown module while a runtime is there, and:      *)
(* start() goes on, the snapshot task ticks, a handler left behind ends.   *)
(* Nobody has to register, start or stop anything.                         *)
(***************************************************************************)
LifecycleSpec ==
    /\ LifecycleSafetySpec
    /\ WF_allVars(Build)
    /\ WF_allVars(During(SignalTask)) /\ WF_allVars(During(Dispatch))
    /\ \A w \in Workers : WF_allVars(During(WorkerEnds(w)))
    /\ WF_allVars(During(Pool)) /\ WF_allVars(During(Committer))
    /\ WF_allVars(During(Runtime))
    /\ WF_allVars(poll_and_update)
    /\ \A w \in Workers : WF_allVars(ThreadEnds(w))
    /\ WF_allVars(RuntimeReturned) /\ WF_allVars(StartReturned)
-----------------------------------------------------------------------------
(* Properties.                                                             *)

\* With workers enough, every topic with a handler is served by a worker, has
\* a handler in the map the workers share, and is batched only if its handler
\* was registered for that: the reads of the handler map under separate locks,
\* in any order of registrations and restarts, never disagree.
HandlersServed ==
    (call = "running" /\ Cardinality(Topics) <= Cardinality(Workers)) =>
        \A t \in Topics : handlers[t] # None =>
            /\ t \in served
            /\ handler_map[t] # None
            /\ all_batch => handlers[t] = "BatchSync"

\* A consumer whose drain began before its pool looked at the token, and
\* whose dispatch loop runs, returns from start(), handlers left behind and
\* workers that outlived the drain timeout included.
StartReturns ==
    (/\ call = "running" /\ phase = "Draining"
     /\ pool \in {"check", "join"} /\ dispatcher = "running") ~> (call = "idle")

\* Stopping never hangs in the pool: a cancelled token ends run() and
\* shutdown(), panicked workers included, also when the token was cancelled
\* before the runtime was built.
PoolReturns == (call = "running" /\ cancelled) ~> (pool = "returned")

\* status() of the consumer's first run catches up: what a worker's state is
\* for good is what is shown in the end.  (Of a later run nothing is shown.)
StatusCatchesUp ==
    \A w \in Workers, s \in {"Idle", "Working"} :
        <>[](call = "running" /\ snapshot_task = generation /\ Status(w) = s)
            => <>[](shown[w] = s)
=============================================================================
