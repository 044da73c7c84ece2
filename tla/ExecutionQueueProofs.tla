------------------------ MODULE ExecutionQueueProofs ------------------------
(***************************************************************************)
(* Proofs about ExecutionQueue, for every set of executions, workers and   *)
(* threads, every capacity and every number of puts.                       *)
(***************************************************************************)
EXTENDS ExecutionQueue, FiniteSetTheorems, TLAPS

\* Every step keeps every variable of the queue and of the pool in its type.
LEMMA TypeInductive == TypeOK /\ [Next]_vars => TypeOK'
<1> SUFFICES ASSUME TypeOK, [Next]_vars PROVE TypeOK'
  OBVIOUS
<1>1. ASSUME NEW t \in Threads, NEW e \in Executions, NEW p \in Priorities, Put(t, e, p)
      PROVE  TypeOK'
  BY <1>1 DEF TypeOK, queueVars, poolVars, Put, QueuedExecution
<1>2. ASSUME NEW t \in Threads, NEW e \in Executions, PutFull(t, e) \/ PutAgain(t, e)
      PROVE  TypeOK'
  BY <1>2 DEF TypeOK, PutFull, PutAgain, vars
<1>11. ASSUME NEW t \in Threads, PutSignal(t) PROVE TypeOK'
  BY <1>11 DEF TypeOK, queueVars, poolVars, PutSignal, EventAfter
<1>3. ASSUME NEW e \in Executions, Cancel(e) PROVE TypeOK'
  BY <1>3 DEF TypeOK, queueVars, poolVars, Cancel
<1>4. ASSUME NEW w \in Workers, NEW x \in heap, Dequeue(w, x) PROVE TypeOK'
  BY <1>4 DEF TypeOK, queueVars, poolVars, Dequeue, QueuedExecution
<1>5. ASSUME NEW w \in Workers, WaitForEntry(w) PROVE TypeOK'
  BY <1>5 DEF TypeOK, queueVars, poolVars, WaitForEntry
<1>6. ASSUME NEW w \in Workers, Wake(w) \/ GetTimeout(w) PROVE TypeOK'
  BY <1>6 DEF TypeOK, queueVars, poolVars, Wake, GetTimeout
<1>7. ASSUME NEW w \in Workers, HandlerEnds(w) PROVE TypeOK'
  BY <1>7 DEF TypeOK, queueVars, poolVars, HandlerEnds
<1>8. ASSUME NEW w \in Workers, Cancelled(w) PROVE TypeOK'
  BY <1>8 DEF TypeOK, queueVars, poolVars, Cancelled, CancelIdle, CancelHandler, CancelSwallowed
<1>9. ASSUME Shutdown \/ ShutdownReturns PROVE TypeOK'
  BY <1>9 DEF TypeOK, queueVars, poolVars, Shutdown, ShutdownReturns, EventAfter
<1>10. CASE UNCHANGED vars
  BY <1>10 DEF TypeOK, queueVars, poolVars, vars
<1> QED
  BY <1>1, <1>2, <1>3, <1>4, <1>5, <1>6, <1>7, <1>8, <1>9, <1>10, <1>11
  DEF Next, Produce, WorkerStep

\* The type invariant holds through every interleaving.
THEOREM TypeCorrect == Spec => []TypeOK
<1>1. Init => TypeOK
  BY DEF Init, TypeOK
<1> QED
  BY <1>1, TypeInductive, PTL DEF Spec

-----------------------------------------------------------------------------

\* The capacity is max(1, setting), an integer of at least one.
LEMMA MaximumPositive == Maximum \in Int /\ Maximum >= 1
BY QueueAssumption DEF Maximum

\* The whole invariant is inductive: no interleaving of put, signal, cancel,
\* pop, handler exit and shutdown breaks the agreement between the heap, the id
\* set, the slots and the event.
LEMMA QueueInvInductive == TypeOK /\ QueueInv /\ [Next]_vars => QueueInv'
<1> SUFFICES ASSUME TypeOK, QueueInv, [Next]_vars PROVE QueueInv'
  OBVIOUS
<1> USE QueueAssumption, MaximumPositive
<1>1. ASSUME NEW t \in Threads, NEW e \in Executions \ started, NEW p \in Priorities,
             Put(t, e, p)
      PROVE  QueueInv'
  <2> DEFINE x == [priority |-> p, sequence |-> counter, execution_id |-> e]
  <2>1. x \notin heap /\ heap' = heap \cup {x} /\ e \notin queued_ids
    BY <1>1 DEF Put, QueueInv, HeapConsistent
  <2>2. IsFiniteSet(heap') /\ AdmissionBound'
    <3>1. IsFiniteSet(heap') /\ Cardinality(heap') = Cardinality(heap) + 1
      BY <2>1, FS_AddElement DEF QueueInv
    <3>2. Cardinality(heap) < Maximum /\ Cardinality(heap) \in Nat
      BY <1>1, FS_CardinalityType DEF Put, QueueInv
    <3> QED
      BY <3>1, <3>2 DEF AdmissionBound, Maximum
  <2>3. (\A y \in heap : y.sequence < counter)'
    BY <1>1, <2>1 DEF Put, QueueInv, TypeOK, QueuedExecution
  <2>4. HeapConsistent'
    BY <1>1, <2>1 DEF Put, QueueInv, HeapConsistent, TypeOK, QueuedExecution
  <2>5. RunsOnce' /\ SlotsMatch' /\ (cancelled = {})'
    BY <1>1 DEF Put, poolVars, QueueInv, RunsOnce, SlotsMatch
  <2>6. NoLostWakeup'
    BY <1>1 DEF Put, poolVars, QueueInv, NoLostWakeup, TypeOK
  <2> QED
    BY <1>1, <2>2, <2>3, <2>4, <2>5, <2>6 DEF Put, poolVars, QueueInv
<1>2. ASSUME NEW t \in Threads, NEW e \in Executions, PutFull(t, e) \/ PutAgain(t, e)
      PROVE  QueueInv'
  BY <1>2 DEF PutFull, PutAgain, vars, QueueInv, HeapConsistent, AdmissionBound,
              RunsOnce, SlotsMatch, NoLostWakeup
<1>3. ASSUME NEW t \in Threads, PutSignal(t) PROVE QueueInv'
  BY <1>3 DEF PutSignal, EventAfter, queueVars, poolVars, QueueInv, HeapConsistent,
              AdmissionBound, RunsOnce, SlotsMatch, NoLostWakeup, TypeOK
<1>4. ASSUME NEW e \in Executions, Cancel(e) PROVE QueueInv'
  <2>1. heap' \subseteq heap
    BY <1>4 DEF Cancel
  <2>2. IsFiniteSet(heap') /\ AdmissionBound'
    BY <2>1, FS_Subset, FS_CardinalityType DEF QueueInv, AdmissionBound, Maximum
  <2>3. HeapConsistent'
    BY <1>4 DEF Cancel, QueueInv, HeapConsistent
  <2>4. RunsOnce' /\ SlotsMatch' /\ NoLostWakeup'
    BY <1>4, <2>1 DEF Cancel, poolVars, QueueInv, RunsOnce, SlotsMatch, NoLostWakeup
  <2> QED
    BY <1>4, <2>1, <2>2, <2>3, <2>4 DEF Cancel, poolVars, QueueInv
<1>5. ASSUME NEW w \in Workers, NEW x \in heap, Dequeue(w, x) PROVE QueueInv'
  <2>1. heap' \subseteq heap /\ cancelled' = {} /\ Discarded(x) = {}
    BY <1>5 DEF Dequeue, QueueInv, Discarded
  <2>2. heap' = heap \ {x} /\ queued_ids' = queued_ids \ {x.execution_id}
    BY <1>5, <2>1 DEF Dequeue
  <2>3. IsFiniteSet(heap') /\ AdmissionBound'
    BY <2>1, FS_Subset, FS_CardinalityType DEF QueueInv, AdmissionBound, Maximum
  <2>4. HeapConsistent'
    BY <2>2 DEF QueueInv, HeapConsistent
  <2>5. x.execution_id \in Executions /\ x.execution_id \notin started
    BY DEF QueueInv, RunsOnce, HeapConsistent, TypeOK, QueuedExecution
  <2>6. RunsOnce'
    BY <1>5, <2>2, <2>5 DEF Dequeue, QueueInv, RunsOnce, HeapConsistent, TypeOK
  <2>7. SlotsMatch'
    BY <1>5 DEF Dequeue, QueueInv, SlotsMatch, TypeOK
  <2>8. NoLostWakeup'
    BY <1>5, <2>1 DEF Dequeue, QueueInv, NoLostWakeup, TypeOK
  <2> QED
    BY <1>5, <2>1, <2>2, <2>3, <2>4, <2>6, <2>7, <2>8 DEF Dequeue, QueueInv, TypeOK
<1>6. ASSUME NEW w \in Workers, WaitForEntry(w) PROVE QueueInv'
  <2>1. heap = {} /\ heap' = {} /\ queued_ids' = queued_ids /\ cancelled' = {}
    BY <1>6 DEF WaitForEntry, QueueInv
  <2> QED
    BY <1>6, <2>1 DEF WaitForEntry, QueueInv, HeapConsistent, AdmissionBound, RunsOnce,
                      SlotsMatch, NoLostWakeup, TypeOK, Maximum
<1>7. ASSUME NEW w \in Workers, Wake(w) \/ GetTimeout(w) PROVE QueueInv'
  BY <1>7 DEF Wake, GetTimeout, queueVars, QueueInv, HeapConsistent, AdmissionBound,
              RunsOnce, SlotsMatch, NoLostWakeup, TypeOK, Maximum
<1>8. ASSUME NEW w \in Workers,
             HandlerEnds(w) \/ CancelIdle(w) \/ CancelHandler(w) \/ CancelSwallowed(w)
      PROVE  QueueInv'
  <2>1. UNCHANGED <<heap, queued_ids, cancelled, counter, not_empty, signal, started>>
    BY <1>8 DEF HandlerEnds, CancelIdle, CancelHandler, CancelSwallowed, queueVars
  <2>2. HeapConsistent' /\ AdmissionBound'
    BY <2>1 DEF QueueInv, HeapConsistent, AdmissionBound, Maximum
  <2>3. RunsOnce'
    BY <1>8, <2>1 DEF HandlerEnds, CancelIdle, CancelHandler, CancelSwallowed,
                      QueueInv, RunsOnce, TypeOK
  <2>4. SlotsMatch'
    BY <1>8 DEF HandlerEnds, CancelIdle, CancelHandler, CancelSwallowed,
                QueueInv, RunsOnce, SlotsMatch, TypeOK
  <2>5. NoLostWakeup'
    BY <1>8, <2>1 DEF HandlerEnds, CancelIdle, CancelHandler, CancelSwallowed,
                      QueueInv, NoLostWakeup, TypeOK
  <2> QED
    BY <1>8, <2>1, <2>2, <2>3, <2>4, <2>5
    DEF HandlerEnds, CancelIdle, CancelHandler, CancelSwallowed, QueueInv, TypeOK
<1>9. CASE Shutdown
  BY <1>9 DEF Shutdown, queueVars, QueueInv, HeapConsistent, AdmissionBound, RunsOnce,
              SlotsMatch, NoLostWakeup, Maximum
<1>10. CASE ShutdownReturns
  BY <1>10, FS_EmptySet DEF ShutdownReturns, EventAfter, QueueInv, HeapConsistent,
              AdmissionBound, RunsOnce, SlotsMatch, NoLostWakeup, Maximum
<1>11. CASE UNCHANGED vars
  BY <1>11 DEF vars, QueueInv, HeapConsistent, AdmissionBound, RunsOnce, SlotsMatch,
               NoLostWakeup, Maximum
<1> QED
  BY <1>1, <1>2, <1>3, <1>4, <1>5, <1>6, <1>7, <1>8, <1>9, <1>10, <1>11
  DEF Next, Produce, WorkerStep, Cancelled

\* Queue and pool stay consistent in every behaviour.
THEOREM QueueSafety == Spec => []QueueInv
<1>1. Init => QueueInv
  BY FS_EmptySet, MaximumPositive
  DEF Init, QueueInv, HeapConsistent, AdmissionBound, RunsOnce, SlotsMatch, NoLostWakeup
<1> QED
  BY <1>1, QueueInvInductive, TypeCorrect, PTL DEF Spec

\* No interleaving of put(), which sets the event after unlocking, with pop(),
\* which clears it, leaves a worker asleep beside a waiting entry.
THEOREM WakeupNeverLost == Spec => []NoLostWakeup
<1>1. QueueInv => NoLostWakeup
  BY DEF QueueInv
<1> QED
  BY <1>1, QueueSafety, PTL

\* No execution is run by two workers or queued again after it started, and
\* the queue never exceeds its capacity.
THEOREM RunsOnceWithinBound == Spec => [](RunsOnce /\ AdmissionBound)
<1>1. QueueInv => RunsOnce /\ AdmissionBound
  BY DEF QueueInv
<1> QED
  BY <1>1, QueueSafety, PTL

\* Workers take runs in the order position() reports.
THEOREM OrderCorrect == Spec => ServedInOrder
<1>1. TypeOK /\ QueueInv /\ [Next]_vars =>
        [\A w \in Workers : pc[w] = "get" /\ pc'[w] = "handler"
                              => Position(heap, item'[w]) = 1]_vars
  <2> SUFFICES ASSUME TypeOK, QueueInv, [Next]_vars,
                      NEW w \in Workers, pc[w] = "get", pc'[w] = "handler"
               PROVE  Position(heap, item'[w]) = 1
    OBVIOUS
  <2>1. PICK x \in heap : Dequeue(w, x)
    <3>1. ASSUME NEW v \in Workers, NEW y \in heap, Dequeue(v, y), v # w PROVE FALSE
      BY <3>1 DEF Dequeue, TypeOK
    <3>2. ASSUME NEW v \in Workers,
                 WaitForEntry(v) \/ Wake(v) \/ GetTimeout(v) \/ HandlerEnds(v)
                   \/ CancelIdle(v) \/ CancelHandler(v) \/ CancelSwallowed(v)
          PROVE  FALSE
      BY <3>2 DEF WaitForEntry, Wake, GetTimeout, HandlerEnds, CancelIdle,
                  CancelHandler, CancelSwallowed, TypeOK
    <3>3. CASE UNCHANGED pc
      BY <3>3
    <3> QED
      BY <3>1, <3>2, <3>3
      DEF Next, Produce, WorkerStep, Cancelled, PutFull, PutAgain, Put, PutSignal, Cancel,
          Shutdown, ShutdownReturns, poolVars, vars
  <2>2. item'[w] = x.execution_id /\ \A y \in heap : ~Before(y, x)
    BY <2>1 DEF Dequeue, QueueInv, Discarded, TypeOK
  <2>3. {y \in heap : \E z \in heap : z.execution_id = x.execution_id /\ Before(y, z)} = {}
    BY <2>2 DEF QueueInv, HeapConsistent
  <2> QED
    BY <2>2, <2>3, FS_EmptySet DEF Position
<1> QED
  BY <1>1, TypeCorrect, QueueSafety, PTL DEF Spec, ServedInOrder

\* A run waiting in the queue is overtaken only by a run of a better priority.
THEOREM FifoWithinPriority == Spec => OvertakenOnlyByPriority
<1>1. TypeOK /\ QueueInv /\ QueueInv' /\ [Next]_vars =>
        [\A x \in heap \cap heap' :
           Position(heap', x.execution_id) > Position(heap, x.execution_id)
             => \E y \in heap' \ heap : y.priority < x.priority]_vars
  <2> SUFFICES ASSUME TypeOK, QueueInv, QueueInv', [Next]_vars, NEW x \in heap \cap heap',
                      \A y \in heap' \ heap : ~(y.priority < x.priority)
               PROVE  ~(Position(heap', x.execution_id) > Position(heap, x.execution_id))
    OBVIOUS
  <2> DEFINE Ahead(h) == {y \in h : \E z \in h : z.execution_id = x.execution_id /\ Before(y, z)}
  <2>1. \A y \in heap' \ heap : ~Before(y, x)
    <3>1. ASSUME NEW t \in Threads, NEW e \in Executions, NEW p \in Priorities, Put(t, e, p),
                 NEW y \in heap' \ heap
          PROVE  ~Before(y, x)
      <4>1. y.sequence = counter /\ y.priority = p /\ x.sequence < counter
        BY <3>1 DEF Put, QueueInv
      <4>2. p \in Int /\ x.priority \in Int /\ counter \in Nat /\ x.sequence \in Nat
        BY QueueAssumption DEF TypeOK, QueuedExecution
      <4> QED
        BY <4>1, <4>2 DEF Before
    <3>2. ASSUME NEW t \in Threads, NEW e \in Executions,
                 PutFull(t, e) \/ PutAgain(t, e)
          PROVE  heap' = heap
      BY <3>2 DEF PutFull, PutAgain, vars
    <3>3. ASSUME NEW t \in Threads, PutSignal(t) PROVE heap' = heap
      BY <3>3 DEF PutSignal, queueVars
    <3>4. ASSUME NEW e \in Executions, Cancel(e) PROVE heap' \subseteq heap
      BY <3>4 DEF Cancel
    <3>5. ASSUME NEW w \in Workers, WorkerStep(w) \/ GetTimeout(w) \/ Cancelled(w)
          PROVE  heap' \subseteq heap
      BY <3>5 DEF WorkerStep, Dequeue, WaitForEntry, Wake, HandlerEnds, GetTimeout,
                  Cancelled, CancelIdle, CancelHandler, CancelSwallowed, queueVars
    <3>6. ASSUME Shutdown \/ ShutdownReturns \/ UNCHANGED vars PROVE heap' \subseteq heap
      BY <3>6 DEF Shutdown, ShutdownReturns, queueVars, vars
    <3> QED
      BY <3>1, <3>2, <3>3, <3>4, <3>5, <3>6 DEF Next, Produce
  <2>2. Ahead(heap') \subseteq Ahead(heap)
    BY <2>1 DEF QueueInv, HeapConsistent
  <2>3. IsFiniteSet(Ahead(heap))
    BY FS_Subset DEF QueueInv
  <2>4. Cardinality(Ahead(heap')) <= Cardinality(Ahead(heap))
        /\ Cardinality(Ahead(heap')) \in Nat /\ Cardinality(Ahead(heap)) \in Nat
    BY <2>2, <2>3, FS_Subset, FS_CardinalityType
  <2> QED
    BY <2>4 DEF Position
<1> QED
  BY <1>1, TypeCorrect, QueueSafety, PTL DEF Spec, OvertakenOnlyByPriority

-----------------------------------------------------------------------------
(* ExecutionQueue implements PriorityLine. *)

\* Entry() is the inverse of the id field.
EntriesFound ==
  /\ \A x \in heap : Entry(x.execution_id) = x
  /\ \A e \in queued_ids : Entry(e) \in heap /\ Entry(e).execution_id = e

\* The refinement mapping's order, and the same said of ids instead of entries.
EntriesAhead ==
  {<<z[1].execution_id, z[2].execution_id>> :
     z \in {y \in heap \X heap : Before(y[1], y[2])}}
AheadOf == {q \in queued_ids \X queued_ids : Before(Entry(q[1]), Entry(q[2]))}
SameAhead == EntriesAhead = AheadOf

\* The ids that wait determine the entries.
LEMMA EntryIsInverse == HeapConsistent => EntriesFound
<1> HAVE HeapConsistent
<1>1. ASSUME NEW x \in heap PROVE Entry(x.execution_id) = x
  BY DEF HeapConsistent, Entry
<1> QED
  BY <1>1 DEF HeapConsistent, EntriesFound

\* On a consistent heap the refinement mapping's order is the order of the
\* entries of the two ids.
LEMMA AheadIsBefore == HeapConsistent => SameAhead
<1> HAVE HeapConsistent
<1>1. ASSUME NEW q \in EntriesAhead PROVE q \in AheadOf
  <2>1. PICK x \in heap, y \in heap :
          q = <<x.execution_id, y.execution_id>> /\ Before(x, y)
    BY <1>1 DEF EntriesAhead
  <2>2. Entry(x.execution_id) = x /\ Entry(y.execution_id) = y
    BY EntryIsInverse DEF EntriesFound
  <2>3. x.execution_id \in queued_ids /\ y.execution_id \in queued_ids
    BY DEF HeapConsistent
  <2> QED
    BY <2>1, <2>2, <2>3 DEF AheadOf
<1>2. ASSUME NEW q \in AheadOf PROVE q \in EntriesAhead
  <2>1. Entry(q[1]) \in heap /\ Entry(q[2]) \in heap /\ Before(Entry(q[1]), Entry(q[2]))
        /\ q = <<Entry(q[1]).execution_id, Entry(q[2]).execution_id>>
    BY <1>2, EntryIsInverse DEF AheadOf, EntriesFound
  <2> DEFINE z == <<Entry(q[1]), Entry(q[2])>>
  <2>2. z \in {y \in heap \X heap : Before(y[1], y[2])}
        /\ q = <<z[1].execution_id, z[2].execution_id>>
    BY <2>1
  <2> QED
    BY <2>2 DEF EntriesAhead
<1> QED
  BY <1>1, <1>2 DEF SameAhead

\* Entries that only leave the heap are a Leave of the line: those who stay
\* keep their band and their order.
LEMMA LeavingLeaves ==
  ASSUME HeapConsistent, HeapConsistent', heap' \subseteq heap,
         NEW out, queued_ids' = queued_ids \ out
  PROVE  Line!Leave(out)
<1>1. \A e \in queued_ids' : e \in queued_ids /\ Entry(e)' = Entry(e)
  BY EntryIsInverse DEF HeapConsistent, Entry, EntriesFound
<1>2. [e \in queued_ids |-> Entry(e).priority]'
        = [f \in queued_ids' |-> [e \in queued_ids |-> Entry(e).priority][f]]
  BY <1>1
<1>3. AheadOf' = AheadOf \cap (queued_ids' \X queued_ids')
  BY <1>1 DEF AheadOf, Before
<1>4. HeapConsistent' => SameAhead'
  BY AheadIsBefore, PTL
<1> QED
  BY <1>2, <1>3, <1>4, AheadIsBefore DEF Line!Leave, SameAhead, EntriesAhead

\* No more ids than entries.
LEMMA FewerIdsThanEntries ==
  ASSUME HeapConsistent, IsFiniteSet(heap)
  PROVE  /\ Cardinality(queued_ids) <= Cardinality(heap)
         /\ Cardinality(queued_ids) \in Nat /\ Cardinality(heap) \in Nat
<1> DEFINE f == [x \in heap |-> x.execution_id]
<1>1. f \in Surjection(heap, queued_ids)
  BY DEF HeapConsistent, Surjection
<1> QED
  BY <1>1, FS_Surjection, FS_CardinalityType

\* Every step of the queue is a step of the line or leaves it as it is: put()
\* admits, cancel() withdraws, get() serves the first, clear() closes the
\* line, and nothing else moves it.
LEMMA StepImplementsLine ==
  TypeOK /\ QueueInv /\ QueueInv' /\ [Next]_vars => [Line!Next]_(Line!vars)
<1> SUFFICES ASSUME TypeOK, QueueInv, QueueInv', [Next]_vars
             PROVE  Line!Next \/ UNCHANGED Line!vars
  OBVIOUS
<1> USE QueueAssumption
<1>a. HeapConsistent /\ HeapConsistent'
  BY DEF QueueInv
<1>b. ASSUME heap' = heap, queued_ids' = queued_ids, started' = started
      PROVE  UNCHANGED Line!vars
  BY <1>b DEF Line!vars, Entry, Before
<1>1. ASSUME NEW t \in Threads, NEW e \in Executions \ started, NEW p \in Priorities,
             Put(t, e, p)
      PROVE  Line!Admit(e, p)
  <2> DEFINE x == [priority |-> p, sequence |-> counter, execution_id |-> e]
             band == [f \in queued_ids |-> Entry(f).priority]
  <2>1. heap' = heap \cup {x} /\ queued_ids' = queued_ids \cup {e} /\ e \notin queued_ids
        /\ started' = started /\ Cardinality(heap) < Maximum
    BY <1>1 DEF Put, poolVars
  <2>2. Entry(e)' = x /\ \A f \in queued_ids : Entry(f)' = Entry(f)
    <3>1. HeapConsistent' => EntriesFound'
      BY EntryIsInverse, PTL
    <3> QED
      BY <1>a, <2>1, <3>1, EntryIsInverse DEF EntriesFound
  <2>3. Cardinality(queued_ids) < Maximum
    BY <1>a, <2>1, FewerIdsThanEntries, MaximumPositive DEF QueueInv
  <2>4. band' = [f \in queued_ids' |-> IF f = e THEN p ELSE band[f]]
    BY <2>1, <2>2
  <2>5. \A f \in queued_ids : /\ Before(Entry(f), x) <=> Entry(f).priority <= p
                              /\ Before(x, Entry(f)) <=> Entry(f).priority > p
    <3> SUFFICES ASSUME NEW f \in queued_ids
                 PROVE  /\ Before(Entry(f), x) <=> Entry(f).priority <= p
                        /\ Before(x, Entry(f)) <=> Entry(f).priority > p
      OBVIOUS
    <3>1. Entry(f) \in heap /\ Entry(f).sequence < counter
      BY <1>a, EntryIsInverse DEF QueueInv, EntriesFound
    <3>2. Entry(f).priority \in Int /\ Entry(f).sequence \in Nat /\ p \in Int /\ counter \in Nat
      BY <3>1 DEF TypeOK, QueuedExecution
    <3> QED
      BY <3>1, <3>2 DEF Before
  <2>6. AheadOf' = AheadOf \cup {<<f, e>> : f \in {g \in queued_ids : band[g] <= p}}
                           \cup {<<e, f>> : f \in {g \in queued_ids : band[g] > p}}
    <3>1. \A f, g \in queued_ids : Before(Entry(f), Entry(g))' <=> Before(Entry(f), Entry(g))
      BY <2>2 DEF Before
    <3>2. \A f \in queued_ids : /\ Before(Entry(f), Entry(e))' <=> Entry(f).priority <= p
                                /\ Before(Entry(e), Entry(f))' <=> Entry(f).priority > p
      BY <2>2, <2>5 DEF Before
    <3>3. ~Before(Entry(e), Entry(e))'
      BY <2>2 DEF Before, TypeOK
    <3> DEFINE R == AheadOf \cup {<<f, e>> : f \in {g \in queued_ids : band[g] <= p}}
                            \cup {<<e, f>> : f \in {g \in queued_ids : band[g] > p}}
    <3>4. ASSUME NEW q \in AheadOf' PROVE q \in R
      <4>1. PICK f \in queued_ids', g \in queued_ids' :
              q = <<f, g>> /\ Before(Entry(f), Entry(g))'
        BY <3>4 DEF AheadOf
      <4>2. CASE f \in queued_ids /\ g \in queued_ids
        BY <3>1, <4>1, <4>2 DEF AheadOf
      <4>3. CASE f \in queued_ids /\ g = e
        BY <3>2, <4>1, <4>3
      <4>4. CASE f = e /\ g \in queued_ids
        BY <3>2, <4>1, <4>4
      <4> QED
        BY <2>1, <3>3, <4>1, <4>2, <4>3, <4>4
    <3>5. ASSUME NEW q \in R PROVE q \in AheadOf'
      <4>1. CASE q \in AheadOf
        BY <2>1, <3>1, <4>1 DEF AheadOf
      <4>2. CASE \E f \in queued_ids : q = <<f, e>> /\ band[f] <= p
        BY <2>1, <3>2, <4>2 DEF AheadOf
      <4>3. CASE \E f \in queued_ids : q = <<e, f>> /\ band[f] > p
        BY <2>1, <3>2, <4>3 DEF AheadOf
      <4> QED
        BY <4>1, <4>2, <4>3
    <3> HIDE DEF R
    <3>6. AheadOf' = R
      BY <3>4, <3>5
    <3> QED
      BY <3>6 DEF R
  <2>7. HeapConsistent' => SameAhead'
    BY AheadIsBefore, PTL
  <2>8. Line!Cardinality(queued_ids) < Maximum
    BY <2>3 DEF Line!Cardinality, Cardinality
  <2> QED
    BY <1>a, <2>1, <2>3, <2>4, <2>6, <2>7, <2>8, AheadIsBefore
    DEF Line!Admit, SameAhead, EntriesAhead
<1>2. ASSUME NEW t \in Threads, NEW e \in Executions, PutFull(t, e) \/ PutAgain(t, e)
      PROVE  UNCHANGED Line!vars
  BY <1>2, <1>b DEF PutFull, PutAgain, vars
<1>3. ASSUME NEW t \in Threads, PutSignal(t) PROVE UNCHANGED Line!vars
  BY <1>3, <1>b DEF PutSignal, queueVars, poolVars
<1>4. ASSUME NEW e \in Executions, Cancel(e) PROVE Line!Withdraw(e)
  BY <1>4, <1>a, LeavingLeaves DEF Cancel, poolVars, Line!Withdraw
<1>5. ASSUME NEW w \in Workers, NEW x \in heap, Dequeue(w, x)
      PROVE  x.execution_id \in Executions /\ Line!Serve(x.execution_id)
  <2>1. /\ heap' = heap \ {x} /\ queued_ids' = queued_ids \ {x.execution_id}
        /\ started' = started \cup {x.execution_id}
        /\ \A y \in heap : ~Before(y, x)
    BY <1>5 DEF Dequeue, QueueInv, Discarded
  <2>2. Line!Leave({x.execution_id})
    BY <1>a, <2>1, LeavingLeaves
  <2>3. \A f \in queued_ids : <<f, x.execution_id>> \notin AheadOf
    BY <1>a, <2>1, EntryIsInverse DEF AheadOf, EntriesFound
  <2>4. x.execution_id \in queued_ids /\ x.execution_id \in Executions
    BY <1>a DEF HeapConsistent, TypeOK, QueuedExecution
  <2> QED
    BY <1>a, <2>1, <2>2, <2>3, <2>4, AheadIsBefore
    DEF Line!Serve, SameAhead, EntriesAhead
<1>6. ASSUME NEW w \in Workers, WaitForEntry(w) PROVE UNCHANGED Line!vars
  BY <1>6, <1>b DEF WaitForEntry, QueueInv
<1>7. ASSUME NEW w \in Workers, Wake(w) \/ GetTimeout(w) \/ HandlerEnds(w) \/ Cancelled(w)
      PROVE  UNCHANGED Line!vars
  BY <1>7, <1>b DEF Wake, GetTimeout, HandlerEnds, Cancelled, CancelIdle, CancelHandler,
                    CancelSwallowed, queueVars
<1>8. CASE Shutdown
  BY <1>8, <1>b DEF Shutdown, queueVars
<1>9. CASE ShutdownReturns
  <2>1. heap' \subseteq heap /\ queued_ids' = queued_ids \ queued_ids /\ started' = started
    BY <1>9 DEF ShutdownReturns
  <2>2. PICK out : out = queued_ids
    OBVIOUS
  <2>3. Line!Leave(out)
    BY <1>a, <2>1, <2>2, LeavingLeaves
  <2> QED
    BY <2>1, <2>2, <2>3 DEF Line!Clear, Line!Leave, Line!Next
<1>10. CASE UNCHANGED vars
  BY <1>10, <1>b DEF vars
<1> QED
  BY <1>1, <1>2, <1>3, <1>4, <1>5, <1>6, <1>7, <1>8, <1>9, <1>10
  DEF Next, Produce, WorkerStep, Line!Next

\* The queue with its heap, sequence numbers, tombstones and wake-up event
\* keeps the promise of the line it stands for, for any number of threads,
\* workers, bands and places.
THEOREM LineImplemented == Spec => ImplementsLine
<1>1. Init => Line!Init
  <2> SUFFICES ASSUME Init PROVE Line!Init
    OBVIOUS
  <2>1. heap = {} /\ queued_ids = {} /\ started = {}
    BY DEF Init
  <2> QED
    BY <2>1 DEF Line!Init
<1>2. Spec => Line!Init /\ [][Line!Next]_(Line!vars)
  BY <1>1, StepImplementsLine, TypeCorrect, QueueSafety, PTL DEF Spec
<1> QED
  BY <1>2 DEF ImplementsLine, Line!Spec

=============================================================================
