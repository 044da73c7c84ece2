---------------------------- MODULE ExecutionLog ----------------------------
(***************************************************************************)
(* ExecutionBroker.log, flush_logs, finish and cleanup                     *)
(* (backend/app/services/workflow/streaming.py) for the log of one         *)
(* execution, with next_sequence and bulk_append of its repository.        *)
(*                                                                         *)
(* The engine and the streams of clients live on the event loop and log    *)
(* and flush one after the other; pause, resume and stop log from the      *)
(* threads that serve requests.  A flush takes the pending lines under the *)
(* broker's lock and writes them outside of it.                            *)
(***************************************************************************)
EXTENDS Integers, Sequences, FiniteSets, SequencesExt, FiniteSetsExt

CONSTANTS
  Loop,       \* the event loop
  Requests,   \* threads that serve requests
  BatchSize,  \* EXECUTION_LOG_BATCH_SIZE
  MaxLines    \* bound: lines logged

LogAssumption == BatchSize \in Nat \ {0} /\ MaxLines \in Nat /\ Loop \notin Requests

VARIABLES
  pending,     \* _pending_logs of the execution; lines are numbered as logged
  logged,      \* lines logged
  flush,       \* what each writer is doing: its stage, batch and first sequence
  rows,        \* ExecutionLog rows
  lost,        \* lines of batches that could not be written
  finished,    \* lines logged when the engine called finish(), -1 before
  overlapped   \* two flushes were under way at the same time

vars == <<pending, logged, flush, rows, lost, finished, overlapped>>

Writers == {Loop} \cup Requests
Idle == [stage |-> "idle", batch |-> <<>>, base |-> 0]
Lines == 1..MaxLines
Writing(w) == flush[w].stage \in {"base", "write"}

Init ==
  /\ pending = <<>> /\ logged = 0 /\ rows = {} /\ lost = {}
  /\ flush = [w \in Writers |-> Idle]
  /\ finished = -1 /\ overlapped = FALSE

\* log(): a full batch is flushed; a shorter one is when the line asks for it,
\* is an error, or the last flush is long ago.
Log(w) ==
  /\ flush[w].stage = "idle" /\ logged < MaxLines
  /\ w = Loop => finished = -1
  /\ logged' = logged + 1
  /\ pending' = Append(pending, logged')
  /\ \E due \in {TRUE, Len(pending') >= BatchSize} :
       flush' = IF due THEN [flush EXCEPT ![w].stage = "due"] ELSE flush
  /\ UNCHANGED <<rows, lost, finished, overlapped>>

\* flush_logs() takes the pending lines.
Take(w) ==
  /\ flush[w].stage = "due"
  /\ flush' = [flush EXCEPT ![w] =
                 IF pending = <<>> THEN Idle ELSE [@ EXCEPT !.stage = "base", !.batch = pending]]
  /\ pending' = <<>>
  /\ overlapped' = (overlapped \/ (pending # <<>> /\ \E v \in Writers : Writing(v)))
  /\ UNCHANGED <<logged, rows, lost, finished>>

\* Mistake: numbering goes on with the number used last.
next_sequence_last == Max({r.sequence : r \in rows} \cup {1})

\* next_sequence()
next_sequence == Max({r.sequence : r \in rows} \cup {0}) + 1

ReadBase(w) ==
  /\ flush[w].stage = "base"
  /\ flush' = [flush EXCEPT ![w].stage = "write", ![w].base = next_sequence]
  /\ UNCHANGED <<pending, logged, rows, lost, finished, overlapped>>

\* bulk_append(): the batch in one transaction.
Write(w) ==
  /\ flush[w].stage = "write"
  /\ rows' = rows \cup {[sequence |-> flush[w].base + i - 1, line |-> flush[w].batch[i]] :
                          i \in DOMAIN flush[w].batch}
  /\ flush' = [flush EXCEPT ![w] = Idle]
  /\ UNCHANGED <<pending, logged, lost, finished, overlapped>>

\* The store raises: the batch is dropped, the execution goes on.
WriteFails(w) ==
  /\ Writing(w)
  /\ lost' = lost \cup ToSet(flush[w].batch)
  /\ flush' = [flush EXCEPT ![w] = Idle]
  /\ UNCHANGED <<pending, logged, rows, finished, overlapped>>

\* finish() flushes whatever is pending.
Finish ==
  /\ flush[Loop].stage = "idle" /\ finished = -1
  /\ finished' = logged
  /\ flush' = [flush EXCEPT ![Loop].stage = "due"]
  /\ UNCHANGED <<pending, logged, rows, lost, overlapped>>

\* cleanup() behind a client's stream flushes as well; it drops nothing that is
\* modelled here.
Cleanup ==
  /\ flush[Loop].stage = "idle"
  /\ flush' = [flush EXCEPT ![Loop].stage = "due"]
  /\ UNCHANGED <<pending, logged, rows, lost, finished, overlapped>>

Flush(w) == Take(w) \/ ReadBase(w) \/ Write(w) \/ WriteFails(w)

Next == (\E w \in Writers : Log(w) \/ Flush(w)) \/ Finish \/ Cleanup

Spec == Init /\ [][Next]_vars

-----------------------------------------------------------------------------
TypeOK ==
  /\ pending \in Seq(Lines) /\ logged \in 0..MaxLines
  /\ \A w \in Writers :
       /\ flush[w].stage \in {"idle", "due", "base", "write"}
       /\ flush[w].batch \in Seq(Lines) /\ flush[w].base \in 0..MaxLines + 1
  /\ rows \subseteq [sequence : Lines, line : Lines]
  /\ lost \subseteq Lines
  /\ finished \in -1..MaxLines /\ overlapped \in BOOLEAN

\* Where a line is: pending, in the batch of a writer, in a row, or lost.
InPending(line) == {<<"pending", Loop, i>> : i \in {k \in DOMAIN pending : pending[k] = line}}
InBatchOf(w, line) ==
  {<<"batch", w, i>> : i \in {k \in DOMAIN flush[w].batch : flush[w].batch[k] = line}}
InRows(line) == {<<"row", Loop, r.sequence>> : r \in {s \in rows : s.line = line}}
InLost(line) == IF line \in lost THEN {<<"lost", Loop, 0>>} ELSE {}
Places(line) ==
  InPending(line) \cup InRows(line) \cup InLost(line) \cup UNION {InBatchOf(w, line) : w \in Writers}

\* flush_logs(): whoever flushes, a line is at any time in one place: pending, in
\* one batch, in one row, or in a batch that could not be written.
EveryLineOnce == \A line \in 1..logged : Cardinality(Places(line)) = 1

\* The sequence of models/workflow.py ("monotonic"): while flushes do not overlap,
\* the rows are numbered in the order in which the lines were logged.
NumberedAsLogged ==
  ~overlapped =>
    \A r, s \in rows : r.line < s.line <=> r.sequence < s.sequence

\* finish(): when it returns, no line logged before it is left in memory.
FinishedIsFlushed ==
  finished # -1 /\ flush[Loop].stage = "idle" =>
    \A i \in DOMAIN pending : pending[i] > finished

-----------------------------------------------------------------------------
(* The inductive invariant. *)

\* The lines some flush has taken; those after them are pending, in order.
taken == logged - Len(pending)

Stages == {"idle", "due", "base", "write"}

Typed ==
  /\ logged \in 0..MaxLines /\ pending \in Seq(Nat) /\ Len(pending) <= logged
  /\ \A i \in 1..Len(pending) : pending[i] = taken + i
  /\ flush \in [Writers -> [stage : Stages, batch : Seq(Nat), base : Nat]]
  /\ rows \subseteq [sequence : Nat, line : Nat] /\ lost \subseteq Nat
  /\ finished \in {-1} \cup 0..logged /\ overlapped \in BOOLEAN

\* A batch holds lines one after the other, of those taken, while its writer
\* writes and only then.
BatchInStep(w) ==
  /\ Writing(w) \/ flush[w].batch = <<>>
  /\ flush[w].stage = "write" \/ flush[w].base = 0
  /\ \A i \in 1..Len(flush[w].batch) :
       flush[w].batch[i] = flush[w].batch[1] + i - 1 /\ flush[w].batch[i] \in 1..taken

InBatch(w, line) == \E i \in 1..Len(flush[w].batch) : flush[w].batch[i] = line
InRow(line) == \E r \in rows : r.line = line

\* No line taken is in two places ...
NeverTwice ==
  /\ \A w \in Writers : \A line \in 1..logged : InBatch(w, line) =>
       ~InRow(line) /\ line \notin lost /\ \A v \in Writers \ {w} : ~InBatch(v, line)
  /\ \A r \in rows : r.line \in 1..taken /\ r.line \notin lost
  /\ \A r, s \in rows : r.line = s.line => r = s
  /\ lost \subseteq 1..taken

\* ... and none is nowhere.
NeverGone ==
  \A line \in 1..taken : line \in lost \/ InRow(line) \/ \E w \in Writers : InBatch(w, line)

\* No number exceeds the number of lines in the rows.
RowLines == {r.line : r \in rows}
NumbersCount ==
  /\ \A r \in rows : r.sequence \in 1..Cardinality(RowLines)
  /\ \A w \in Writers : flush[w].stage = "write" => flush[w].base \in 1..(Cardinality(RowLines) + 1)

\* Without an overlap the one batch under way comes after all rows, and so does
\* the number its writer has read.
OneAtATime ==
  /\ \A v, w \in Writers : Writing(v) /\ Writing(w) => v = w
  /\ \A w \in Writers : \A r \in rows :
       /\ \A i \in 1..Len(flush[w].batch) : r.line < flush[w].batch[i]
       /\ flush[w].stage = "write" => r.sequence < flush[w].base
  /\ NumberedAsLogged

\* What was pending when finish() was called is, until someone takes it, what
\* the loop is about to take.
FinishTakes == finished > taken => flush[Loop].stage = "due"

LogInv ==
  /\ Typed
  /\ \A w \in Writers : BatchInStep(w)
  /\ NeverTwice /\ NeverGone /\ NumbersCount
  /\ (overlapped \/ OneAtATime)
  /\ FinishTakes

=============================================================================
