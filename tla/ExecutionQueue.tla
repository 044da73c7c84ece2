--------------------------- MODULE ExecutionQueue ---------------------------
(***************************************************************************)
(* The bounded priority queue of workflow executions and the pool of       *)
(* worker coroutines that consume it                                       *)
(* (backend/app/services/workflow/queue.py).                               *)
(*                                                                         *)
(* Two kinds of actor meet here.  API handlers run in threads: put() and   *)
(* cancel() hold the queue's lock, but put() sets the wake-up event only   *)
(* after it released it, so the two halves of put() are two actions.  The  *)
(* workers are coroutines of one event loop: a worker's slice from waking  *)
(* to its next await holds no other worker step.                           *)
(***************************************************************************)
EXTENDS Integers, FiniteSets

CONSTANTS
  Executions,                \* execution ids
  Priorities,                \* priority bands, a lower number is served first
  EXECUTION_QUEUE_MAX_SIZE,  \* the setting of that name
  Workers,                   \* the coroutines execution-worker-<index>
  Threads,                   \* API threads that call put() and cancel()
  MaxSequence,               \* bound: how many entries are ever enqueued
  None                       \* no execution

ASSUME QueueAssumption ==
  /\ Priorities \subseteq Int
  /\ EXECUTION_QUEUE_MAX_SIZE \in Int
  /\ MaxSequence \in Nat
  /\ None \notin Executions
  /\ IsFiniteSet(Workers)

VARIABLES
  heap,        \* entries waiting, as a set: their order is Before
  queued_ids,  \* ids of the entries in heap, kept apart by the code
  cancelled,   \* ids cancelled while queued, not yet skipped by a pop
  counter,     \* next sequence number
  not_empty,   \* the asyncio.Event: "absent" until the first get()
  signal,      \* threads between put()'s unlock and event.set()
  pc,          \* where each worker is
  item,        \* the execution each worker's handler runs
  active,      \* WorkerPool._active
  finished,    \* handlers that returned or raised: _completed and _failed
  cancelling,  \* workers with a cancellation not yet delivered
  pool,        \* "running", "stopping" inside shutdown(), then "stopped"
  started      \* history: executions handed to a handler

queueVars == <<heap, queued_ids, cancelled, counter>>
poolVars == <<pc, item, active, finished, cancelling, pool, started>>
vars == <<heap, queued_ids, cancelled, counter, not_empty, signal,
          pc, item, active, finished, cancelling, pool, started>>

\* One QueuedExecution; waiting time and metadata are not modelled.
QueuedExecution ==
  [priority : Priorities, sequence : Nat, execution_id : Executions]

\* Mistake: LIFO within a priority band.
BeforeLifo(a, b) ==
  \/ a.priority < b.priority
  \/ a.priority = b.priority /\ a.sequence > b.sequence

\* dataclass(order=True): priority first, then sequence.
Before(a, b) ==
  \/ a.priority < b.priority
  \/ a.priority = b.priority /\ a.sequence < b.sequence

Maximum ==
  IF EXECUTION_QUEUE_MAX_SIZE > 1 THEN EXECUTION_QUEUE_MAX_SIZE ELSE 1

\* position(): 1-based rank of e in dequeue order, for a queued e.
Position(h, e) ==
  Cardinality({x \in h : \E y \in h : y.execution_id = e /\ Before(x, y)}) + 1

\* event.set() and event.clear() on an event that may not exist yet.
EventAfter(value) == IF not_empty = "absent" THEN "absent" ELSE value

-----------------------------------------------------------------------------
(* The producer's side. *)

\* put() at capacity: QueueFullError, nothing changes.
PutFull(t, e) ==
  /\ pool = "running"
  /\ t \notin signal
  /\ Cardinality(heap) >= Maximum
  /\ UNCHANGED vars

\* put() of an id that is already waiting returns the entry it has.
PutAgain(t, e) ==
  /\ pool = "running"
  /\ t \notin signal
  /\ Cardinality(heap) < Maximum
  /\ e \in queued_ids
  /\ UNCHANGED vars

\* Mistakes: no idempotence check; no wake-up.
PutEntry(t, e, p, toSignal) ==
  /\ pool = "running"
  /\ t \notin signal
  /\ counter < MaxSequence
  /\ heap' = heap \cup {[priority |-> p, sequence |-> counter, execution_id |-> e]}
  /\ counter' = counter + 1
  /\ queued_ids' = queued_ids \cup {e}
  /\ cancelled' = cancelled \ {e}
  /\ signal' = IF not_empty = "absent" THEN signal ELSE signal \cup toSignal
  /\ UNCHANGED <<not_empty, poolVars>>
PutTwice(t, e, p) == Cardinality(heap) < Maximum /\ PutEntry(t, e, p, {t})
PutSilently(t, e, p) ==
  e \notin queued_ids /\ Cardinality(heap) < Maximum /\ PutEntry(t, e, p, {})

\* The locked part of put().  The event is read under the lock: a put before
\* the first get() finds none and signals nothing.
Put(t, e, p) ==
  /\ pool = "running"
  /\ t \notin signal
  /\ counter < MaxSequence
  /\ Cardinality(heap) < Maximum
  /\ e \notin queued_ids
  /\ heap' = heap \cup {[priority |-> p, sequence |-> counter, execution_id |-> e]}
  /\ counter' = counter + 1
  /\ queued_ids' = queued_ids \cup {e}
  /\ cancelled' = cancelled \ {e}
  /\ signal' = IF not_empty = "absent" THEN signal ELSE signal \cup {t}
  /\ UNCHANGED <<not_empty, poolVars>>

\* _set_event(), after the lock was released.
PutSignal(t) ==
  /\ t \in signal
  /\ not_empty' = EventAfter("set")
  /\ signal' = signal \ {t}
  /\ UNCHANGED <<queueVars, poolVars>>

\* cancel() of a waiting execution.  The id enters and leaves cancelled under
\* one lock, so no pop ever sees it there.
Cancel(e) ==
  /\ e \in queued_ids
  /\ heap' = {x \in heap : x.execution_id # e}
  /\ queued_ids' = queued_ids \ {e}
  /\ cancelled' = cancelled \ {e}
  /\ UNCHANGED <<counter, not_empty, signal, poolVars>>

-----------------------------------------------------------------------------
(* The worker's side. *)

\* The entries _pop_ready() discards because their id is in cancelled, when it
\* goes on to return x: those that come before x.
Discarded(x) == {y \in heap : Before(y, x)}

\* Mistakes: any entry is taken; every pop clears the event.
DequeueEntry(w, x, event) ==
  /\ pc[w] = "get"
  /\ x \in heap
  /\ heap' = heap \ {x}
  /\ queued_ids' = queued_ids \ {x.execution_id}
  /\ not_empty' = event
  /\ pc' = [pc EXCEPT ![w] = "handler"]
  /\ item' = [item EXCEPT ![w] = x.execution_id]
  /\ active' = active \cup {x.execution_id}
  /\ started' = started \cup {x.execution_id}
  /\ UNCHANGED <<cancelled, counter, signal, finished, cancelling, pool>>
DequeueAny(w, x) == DequeueEntry(w, x, IF not_empty = "absent" THEN "clear" ELSE not_empty)
DequeueClears(w, x) == Discarded(x) = {} /\ DequeueEntry(w, x, "clear")

\* get() finds a runnable entry x and the worker enters its handler.
Dequeue(w, x) ==
  /\ pc[w] = "get"
  /\ x \in heap
  /\ x.execution_id \notin cancelled
  /\ \A y \in Discarded(x) : y.execution_id \in cancelled
  /\ LET gone == {y.execution_id : y \in Discarded(x)}
     IN  /\ heap' = heap \ (Discarded(x) \cup {x})
         /\ queued_ids' = queued_ids \ (gone \cup {x.execution_id})
         /\ cancelled' = cancelled \ gone
  /\ not_empty' = IF not_empty = "absent" THEN "clear" ELSE not_empty
  /\ pc' = [pc EXCEPT ![w] = "handler"]
  /\ item' = [item EXCEPT ![w] = x.execution_id]
  /\ active' = active \cup {x.execution_id}
  /\ started' = started \cup {x.execution_id}
  /\ UNCHANGED <<counter, signal, finished, cancelling, pool>>

\* get() finds nothing runnable: it empties the heap of cancelled entries,
\* clears the event under the lock and waits on it.
WaitForEntry(w) ==
  /\ pc[w] = "get"
  /\ \A y \in heap : y.execution_id \in cancelled
  /\ cancelled' = cancelled \ {y.execution_id : y \in heap}
  /\ queued_ids' = queued_ids \ {y.execution_id : y \in heap}
  /\ heap' = {}
  /\ not_empty' = "clear"
  /\ pc' = [pc EXCEPT ![w] = "wait"]
  /\ UNCHANGED <<counter, signal, item, active, finished, cancelling, pool, started>>

\* The event wakes a waiting worker, which tries to pop again.
Wake(w) ==
  /\ pc[w] = "wait"
  /\ not_empty = "set"
  /\ w \notin cancelling
  /\ pc' = [pc EXCEPT ![w] = "get"]
  /\ UNCHANGED <<queueVars, not_empty, signal, item, active, finished, cancelling,
                 pool, started>>

\* get(timeout=1.0) expires: it returns None and the worker calls it again.
GetTimeout(w) ==
  /\ pc[w] = "wait"
  /\ w \notin cancelling
  /\ pc' = [pc EXCEPT ![w] = "get"]
  /\ UNCHANGED <<queueVars, not_empty, signal, item, active, finished, cancelling,
                 pool, started>>

\* Mistake: the slot is not released.
HandlerLeaksSlot(w) ==
  /\ pc[w] = "handler"
  /\ finished' = finished + 1
  /\ item' = [item EXCEPT ![w] = None]
  /\ pc' = [pc EXCEPT ![w] = "get"]
  /\ UNCHANGED <<queueVars, not_empty, signal, active, cancelling, pool, started>>

\* The handler returns or raises; both count it and release the slot.
HandlerEnds(w) ==
  /\ pc[w] = "handler"
  /\ w \notin cancelling
  /\ active' = active \ {item[w]}
  /\ finished' = finished + 1
  /\ item' = [item EXCEPT ![w] = None]
  /\ pc' = [pc EXCEPT ![w] = "get"]
  /\ UNCHANGED <<queueVars, not_empty, signal, cancelling, pool, started>>

-----------------------------------------------------------------------------
(* Shutdown. *)

\* shutdown() cancels every worker task.  It runs on the event loop, so no
\* worker is inside a slice.
Shutdown ==
  /\ pool = "running"
  /\ \A w \in Workers : pc[w] # "get"
  /\ pool' = "stopping"
  /\ cancelling' = {w \in Workers : pc[w] # "done"}
  /\ UNCHANGED <<queueVars, not_empty, signal, pc, item, active, finished, started>>

\* The cancellation reaches a worker that waits for an entry: it ends.
CancelIdle(w) ==
  /\ w \in cancelling
  /\ pc[w] = "wait"
  /\ cancelling' = cancelling \ {w}
  /\ pc' = [pc EXCEPT ![w] = "done"]
  /\ UNCHANGED <<queueVars, not_empty, signal, item, active, finished, pool, started>>

\* It reaches a handler that lets it through (run_execution_v2 still loading
\* its plan): the worker releases the slot and ends.
CancelHandler(w) ==
  /\ w \in cancelling
  /\ pc[w] = "handler"
  /\ cancelling' = cancelling \ {w}
  /\ active' = active \ {item[w]}
  /\ item' = [item EXCEPT ![w] = None]
  /\ pc' = [pc EXCEPT ![w] = "done"]
  /\ UNCHANGED <<queueVars, not_empty, signal, finished, pool, started>>

\* It reaches a handler that catches it (run_execution_v2 past loading records
\* CANCELLED and returns normally): the worker counts a completed run and goes
\* back to the queue.
CancelSwallowed(w) ==
  /\ w \in cancelling
  /\ cancelling' = cancelling \ {w}
  /\ pc[w] = "handler"
  /\ active' = active \ {item[w]}
  /\ finished' = finished + 1
  /\ item' = [item EXCEPT ![w] = None]
  /\ pc' = [pc EXCEPT ![w] = "get"]
  /\ UNCHANGED <<queueVars, not_empty, signal, pool, started>>

\* asyncio.wait(workers, timeout) returns, whether or not they all ended; the
\* pool forgets its workers and the engine clears the queue.
ShutdownReturns ==
  /\ pool = "stopping"
  /\ \A w \in Workers : pc[w] # "get"
  /\ pool' = "stopped"
  /\ active' = {}
  /\ heap' = {}
  /\ queued_ids' = {}
  /\ cancelled' = {}
  /\ not_empty' = EventAfter("clear")
  /\ UNCHANGED <<counter, signal, pc, item, finished, cancelling, started>>

-----------------------------------------------------------------------------

Init ==
  /\ heap = {}
  /\ queued_ids = {}
  /\ cancelled = {}
  /\ counter = 0
  /\ not_empty = "absent"
  /\ signal = {}
  /\ pc = [w \in Workers |-> "get"]
  /\ item = [w \in Workers |-> None]
  /\ active = {}
  /\ finished = 0
  /\ cancelling = {}
  /\ pool = "running"
  /\ started = {}

\* The engine enqueues a run it has not handed to a worker yet; it may repeat
\* the call while the run waits.
Produce ==
  \E t \in Threads, e \in Executions \ started :
    \/ PutFull(t, e)
    \/ PutAgain(t, e)
    \/ \E p \in Priorities : Put(t, e, p)

Cancelled(w) == CancelIdle(w) \/ CancelHandler(w) \/ CancelSwallowed(w)

WorkerStep(w) ==
  \/ \E x \in heap : Dequeue(w, x)
  \/ WaitForEntry(w)
  \/ Wake(w)
  \/ HandlerEnds(w)

Next ==
  \/ Produce
  \/ \E t \in Threads : PutSignal(t)
  \/ \E e \in Executions : Cancel(e)
  \/ \E w \in Workers : \/ WorkerStep(w)
                        \/ GetTimeout(w)
                        \/ Cancelled(w)
  \/ Shutdown
  \/ ShutdownReturns

Spec == Init /\ [][Next]_vars

\* The event loop runs every ready coroutine and delivers cancellations, a
\* thread that owes a signal goes on, shutdown() returns by its timeout, and a
\* handler ends (its nodes have timeouts).  Nothing is assumed of the
\* one-second poll.
FairSpec ==
  /\ Spec
  /\ \A t \in Threads : WF_vars(PutSignal(t))
  /\ \A w \in Workers : WF_vars(WorkerStep(w)) /\ WF_vars(Cancelled(w))
  /\ WF_vars(ShutdownReturns)

-----------------------------------------------------------------------------
(* What the queue and the pool promise. *)

TypeOK ==
  /\ heap \subseteq QueuedExecution
  /\ queued_ids \subseteq Executions
  /\ cancelled \subseteq Executions
  /\ counter \in Nat
  /\ not_empty \in {"absent", "clear", "set"}
  /\ signal \subseteq Threads
  /\ pc \in [Workers -> {"get", "wait", "handler", "done"}]
  /\ item \in [Workers -> Executions \cup {None}]
  /\ active \subseteq Executions
  /\ finished \in Nat
  /\ cancelling \subseteq Workers
  /\ pool \in {"running", "stopping", "stopped"}
  /\ started \subseteq Executions

\* The id set that put(), cancel() and contains() consult never drifts from the
\* heap, and an execution never waits twice, whatever puts, cancels, pops and
\* clears were interleaved (put's "never queue the same execution twice").
HeapConsistent ==
  /\ queued_ids = {x.execution_id : x \in heap}
  /\ \A x, y \in heap : x.execution_id = y.execution_id => x = y

\* Admission control: never more entries than max(1, EXECUTION_QUEUE_MAX_SIZE).
AdmissionBound == Cardinality(heap) <= Maximum

\* An execution is handed to a worker once: no two workers run it, and once it
\* was started it does not wait in the queue again.
RunsOnce ==
  /\ \A v, w \in Workers : item[v] = item[w] /\ v # w => item[v] = None
  /\ started \cap queued_ids = {}

\* The slots stats() reports are the runs inside a handler, so neither a
\* failing nor a cancelled handler leaks a slot.
SlotsMatch ==
  pool # "stopped" => active = {item[w] : w \in {v \in Workers : pc[v] = "handler"}}

\* A worker sleeps while entries wait only if its wake-up is on the way: put()
\* sets the event outside the lock that pop() clears it under, and no
\* interleaving of the two loses the wake-up.
NoLostWakeup ==
  \A w \in Workers :
    pc[w] = "wait" /\ heap # {} => not_empty = "set" \/ signal # {}

\* The inductive strengthening of the invariants above: the tombstones in
\* cancelled are never observed, sequence numbers are fresh, only a worker in
\* a handler holds a run, and a worker that waits has created the event.
QueueInv ==
  /\ IsFiniteSet(heap)
  /\ cancelled = {}
  /\ \A x \in heap : x.sequence < counter
  /\ \A w \in Workers : IF pc[w] = "handler" THEN item[w] \in started ELSE item[w] = None
  /\ \A w \in Workers : pc[w] = "wait" => not_empty # "absent"
  /\ HeapConsistent
  /\ AdmissionBound
  /\ RunsOnce
  /\ SlotsMatch
  /\ NoLostWakeup

\* The run a worker takes is the one position() reported as first.
ServedInOrder ==
  [][\A w \in Workers :
       pc[w] = "get" /\ pc'[w] = "handler" => Position(heap, item'[w]) = 1]_vars

\* A waiting run loses a place only to a newcomer of a strictly better
\* priority: FIFO within a band, whatever is cancelled or popped meanwhile.
OvertakenOnlyByPriority ==
  [][\A x \in heap \cap heap' :
       Position(heap', x.execution_id) > Position(heap, x.execution_id)
         => \E y \in heap' \ heap : y.priority < x.priority]_vars

\* Every waiting run is taken, cancelled or cleared in the end, by wake-ups
\* alone: the one-second poll of get() is not needed for progress.
QueuedIsServed == \A e \in Executions : e \in queued_ids ~> e \notin queued_ids

\* The entry of a waiting execution.
Entry(e) == CHOOSE x \in heap : x.execution_id = e

Line == INSTANCE PriorityLine WITH
  Places <- Maximum,
  waiting <- queued_ids,
  band <- [e \in queued_ids |-> Entry(e).priority],
  ahead <- {<<z[1].execution_id, z[2].execution_id>> :
              z \in {y \in heap \X heap : Before(y[1], y[2])}},
  served <- started

\* Heap, sequence numbers, tombstones and wake-ups together keep the promise of
\* one line: whatever threads and workers interleave, nobody overtakes, none is
\* served twice or from the middle, none is admitted beyond the places.
ImplementsLine == Line!Spec

=============================================================================
