------------------------------ MODULE Producer ------------------------------
(***************************************************************************)
(* src/src/producer/runtime.rs with src/src/log.rs: the producer Python    *)
(* code calls, the worker thread behind it, and the thread that hands log  *)
(* records to Python.  A method of PyProducer keeps the GIL while it waits *)
(* for the worker's reply, so calls come one after the other; the log      *)
(* thread needs the GIL for every record.  init() starts a new worker with *)
(* a new channel, each time it is called; the sender it replaces is        *)
(* dropped.  What is sent is left out; a call is told apart by its         *)
(* operation, and its answer by whether there is one.  Nothing in the      *)
(* repository installs the logger: the log thread is here for the          *)
(* application that does.                                                  *)
(***************************************************************************)
EXTENDS Naturals

CONSTANTS
    MaxInits,    \* calls of init(), a bound
    LogCapacity  \* LOG_CHANNEL_CAPACITY

ASSUME ProducerAssumption == MaxInits \in Nat /\ LogCapacity \in Nat \ {0}

VARIABLES
    gil,         \* "free", "call" or "log": who holds the GIL
    pc,          \* where the call in progress is
    op,          \* its operation
    inits,       \* how many times init() was called
    task_tx,     \* the worker the stored sender belongs to, 0 for None
    handle,      \* the worker whose JoinHandle is stored, 0 for None
    task,        \* whether a worker's channel holds the call's task
    result,      \* the call's oneshot has a value
    worker,      \* where each worker thread is
    producer,    \* producer_lock holds a FutureProducer
    log_channel, \* records waiting for the log thread
    log_worker   \* where the log thread is

callVars   == <<pc, op, inits, task_tx, handle>>
workerVars == <<task, result, worker, producer>>
logVars    == <<log_channel, log_worker>>
vars == <<gil, callVars, workerVars, logVars>>

Threads == 1 .. MaxInits

Operations == {"Init", "Send", "Flush", "InFlightCount"}

ProducerInit ==
    /\ gil = "free" /\ pc = "idle" /\ op = "Init"
    /\ inits = 0 /\ task_tx = 0 /\ handle = 0
    /\ task = [t \in Threads |-> FALSE] /\ result = FALSE
    /\ worker = [t \in Threads |-> "none"]
    /\ producer = FALSE
    /\ log_channel = 0 /\ log_worker = "recv"
-----------------------------------------------------------------------------
(* The log: log() never waits for room.                                    *)

\* Mutant: the sender waits for room in the channel.
LogRecordBlocks ==
    /\ log_channel < LogCapacity
    /\ log_channel' = log_channel + 1
    /\ UNCHANGED log_worker

\* A record that is enabled is queued, and dropped when there is no room.
LogRecord ==
    /\ log_channel' \in {log_channel} \cup
          (IF log_channel < LogCapacity THEN {log_channel + 1} ELSE {})
    /\ UNCHANGED log_worker

\* The rest of the process logs to the same channel.
OthersLog ==
    /\ LogRecord
    /\ UNCHANGED <<gil, callVars, workerVars>>

LogReceives ==
    /\ log_worker = "recv" /\ log_channel > 0
    /\ log_worker' = "attach"
    /\ log_channel' = log_channel - 1
    /\ UNCHANGED <<gil, callVars, workerVars>>

LogAttaches ==
    /\ log_worker = "attach" /\ gil = "free"
    /\ gil' = "log" /\ log_worker' = "process"
    /\ UNCHANGED <<callVars, workerVars, log_channel>>

process_record ==
    /\ log_worker = "process"
    /\ gil' = "free" /\ log_worker' = "recv"
    /\ UNCHANGED <<callVars, workerVars, log_channel>>
-----------------------------------------------------------------------------
(* Calls from Python.                                                      *)

\* init(): a new channel and a new worker take the place of the old ones.
init ==
    /\ gil = "free" /\ pc = "idle" /\ inits < MaxInits
    /\ gil' = "call" /\ pc' = "enqueue" /\ op' = "Init"
    /\ inits' = inits + 1
    /\ task_tx' = inits' /\ handle' = inits'
    /\ worker' = [worker EXCEPT ![inits'] = "starting"]
    /\ result' = FALSE
    /\ UNCHANGED <<task, producer, logVars>>

\* The other calls return an error at once when there is no sender.
Call(operation) ==
    /\ gil = "free" /\ pc = "idle" /\ task_tx # 0
    /\ gil' = "call" /\ pc' = "enqueue" /\ op' = operation
    /\ result' = FALSE
    /\ UNCHANGED <<inits, task_tx, handle, task, worker, producer, logVars>>

send == Call("Send")

flush == Call("Flush")

in_flight_count == Call("InFlightCount")

Return == gil' = "free" /\ pc' = "idle"

\* blocking_send fails when the worker is gone.
blocking_send ==
    /\ pc = "enqueue"
    /\ IF worker[task_tx] = "exited"
       THEN Return /\ UNCHANGED task
       ELSE /\ task' = [task EXCEPT ![task_tx] = TRUE]
            /\ pc' = "wait" /\ UNCHANGED gil
    /\ UNCHANGED <<op, inits, task_tx, handle, result, worker, producer, logVars>>

\* blocking_recv ends with the reply, or with an error when the worker ended
\* and its side of the oneshot was dropped.
blocking_recv ==
    /\ pc = "wait"
    /\ result \/ worker[task_tx] = "exited"
    /\ Return
    /\ UNCHANGED <<op, inits, task_tx, handle, workerVars, logVars>>

\* Drop: close the channel, join the worker.
drop ==
    /\ gil = "free" /\ pc = "idle"
    /\ task_tx' = 0
    /\ IF handle = 0 THEN pc' = "dropped" /\ UNCHANGED gil
                     ELSE pc' = "join" /\ gil' = "call"
    /\ UNCHANGED <<op, inits, handle, workerVars, logVars>>

join ==
    /\ pc = "join" /\ worker[handle] = "exited"
    /\ pc' = "dropped" /\ gil' = "free" /\ handle' = 0
    /\ UNCHANGED <<op, inits, task_tx, workerVars, logVars>>
-----------------------------------------------------------------------------
(* A worker thread.                                                        *)

Goes(t, from, to) ==
    /\ worker[t] = from
    /\ worker' = [worker EXCEPT ![t] = to]
    /\ UNCHANGED <<gil, callVars>>

\* Without a runtime the thread logs and ends, and its receiver with it.
StartWorker(t) ==
    /\ \/ Goes(t, "starting", "recv") /\ UNCHANGED <<task, logVars>>
       \/ /\ Goes(t, "starting", "exited")
          /\ task' = [task EXCEPT ![t] = FALSE]
          /\ LogRecord
    /\ UNCHANGED <<result, producer>>

TakeTask(t) ==
    /\ task[t] /\ Goes(t, "recv", "task")
    /\ task' = [task EXCEPT ![t] = FALSE]
    /\ UNCHANGED <<result, producer, logVars>>

\* producer_lock is held only by a worker that stored its producer and has not
\* logged it yet; a replaced worker may do so while the new one runs.
LockFree == \A t \in Threads : worker[t] # "log_last"

\* The producer is created and the reply sent, then the success logged; or
\* the error is the reply.
create_producer(t) ==
    /\ op = "Init"
    /\ \/ LockFree /\ Goes(t, "task", "log_last") /\ producer' = TRUE
       \/ Goes(t, "task", "recv") /\ UNCHANGED producer
    /\ result' = TRUE
    /\ UNCHANGED <<task, logVars>>

\* Delivered or not, the outcome is logged before the reply; without a
\* producer the error is the reply.
do_send(t) ==
    /\ op = "Send" /\ LockFree
    /\ Goes(t, "task", IF producer THEN "log" ELSE "reply")
    /\ UNCHANGED <<task, result, producer, logVars>>

\* Only a flush that succeeded is logged.
do_flush(t) ==
    /\ op = "Flush" /\ LockFree
    /\ \/ producer /\ Goes(t, "task", "log")
       \/ Goes(t, "task", "reply")
    /\ UNCHANGED <<task, result, producer, logVars>>

do_in_flight_count(t) ==
    /\ op = "InFlightCount" /\ LockFree
    /\ Goes(t, "task", "reply")
    /\ UNCHANGED <<task, result, producer, logVars>>

WorkerLogs(t) ==
    /\ \/ Goes(t, "log", "reply")
       \/ Goes(t, "log_last", "recv")
    /\ LogRecord
    /\ UNCHANGED <<task, result, producer>>

Reply(t) ==
    /\ Goes(t, "reply", "recv")
    /\ result' = TRUE
    /\ UNCHANGED <<task, producer, logVars>>

\* Mutant: a second init() leaves the sender of the first one alive.
WorkerExitsOnDrop(t) ==
    /\ task_tx = 0 /\ ~ task[t] /\ Goes(t, "recv", "exited")
    /\ UNCHANGED <<task, result, producer, logVars>>

\* recv() returns None once the sender is gone and the channel empty.
WorkerExits(t) ==
    /\ task_tx # t /\ ~ task[t] /\ Goes(t, "recv", "exited")
    /\ UNCHANGED <<task, result, producer, logVars>>
-----------------------------------------------------------------------------
Caller == blocking_send \/ blocking_recv \/ join

WorkerThread(t) ==
    \/ StartWorker(t) \/ TakeTask(t)
    \/ create_producer(t) \/ do_send(t) \/ do_flush(t) \/ do_in_flight_count(t)
    \/ WorkerLogs(t) \/ Reply(t) \/ WorkerExits(t)

LogThread == LogReceives \/ LogAttaches \/ process_record

ProducerNext ==
    \/ init \/ send \/ flush \/ in_flight_count \/ drop
    \/ Caller
    \/ \E t \in Threads : WorkerThread(t)
    \/ OthersLog \/ LogThread

ProducerSafetySpec == ProducerInit /\ [][ProducerNext]_vars

(***************************************************************************)
(* Threads that can run do run, and Kafka answers (rdkafka's timeouts see  *)
(* to it); nobody has to call anything.                                    *)
(***************************************************************************)
ProducerSpec ==
    /\ ProducerSafetySpec
    /\ WF_vars(Caller) /\ WF_vars(LogThread)
    /\ \A t \in Threads : WF_vars(WorkerThread(t))
-----------------------------------------------------------------------------
(* Properties.                                                             *)

\* No call hangs with the GIL in hand: each one, the drop included, ends and
\* lets go of the GIL, although the worker logs on the way, the log thread
\* needs the GIL, the log channel may be full, and the worker may have died.
CallsReturn == (gil = "call") ~> (gil # "call")

\* No worker thread is left behind: one whose sender was replaced by another
\* init() or dropped with the producer ends.
ThreadsEnd ==
    \A t \in Threads :
        (worker[t] # "none" /\ task_tx # t) ~> (worker[t] = "exited")
=============================================================================
