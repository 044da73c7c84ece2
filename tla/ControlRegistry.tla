--------------------------- MODULE ControlRegistry ---------------------------
(***************************************************************************)
(* Pause, resume, stop and cancel requests to a run                        *)
(* (backend/app/services/workflow/control.py).                             *)
(*                                                                         *)
(* The registry maps a live execution to its ControlHandle.  A handle is   *)
(* three flags behind a lock; a request tests and sets them in one locked  *)
(* section.  A thread that took a handle from the registry keeps it after  *)
(* release(), so the flags outlive the registration.  The asyncio events   *)
(* only shorten waits that poll the flags anyway and are not modelled, nor *)
(* is the time spent paused.                                               *)
(***************************************************************************)
CONSTANT Executions

VARIABLES
  handles,     \* executions registered
  paused,      \* executions whose handle has _paused
  stopping,    \* ... _stopping
  cancelling   \* ... _cancelled

controlVars == <<handles, paused, stopping, cancelling>>

Init ==
  /\ handles = {}
  /\ paused = {}
  /\ stopping = {}
  /\ cancelling = {}

\* get_or_create(): a new handle has no flag set.
GetOrCreate(e) ==
  IF e \in handles
  THEN UNCHANGED controlVars
  ELSE /\ handles' = handles \cup {e}
       /\ paused' = paused \ {e}
       /\ stopping' = stopping \ {e}
       /\ cancelling' = cancelling \ {e}

Release(e) ==
  /\ handles' = handles \ {e}
  /\ UNCHANGED <<paused, stopping, cancelling>>

\* should_halt
ShouldHalt(e) == e \in stopping \cup cancelling

\* Mistake: a pause is accepted although the run is halting.
RequestPauseAnyway(e) ==
  /\ e \notin paused
  /\ paused' = paused \cup {e}
  /\ UNCHANGED <<handles, stopping, cancelling>>

\* Each request is enabled when the code's returns True.
RequestPause(e) ==
  /\ e \notin paused \cup stopping \cup cancelling
  /\ paused' = paused \cup {e}
  /\ UNCHANGED <<handles, stopping, cancelling>>

RequestResume(e) ==
  /\ e \in paused
  /\ paused' = paused \ {e}
  /\ UNCHANGED <<handles, stopping, cancelling>>

\* Mistake: a stop leaves the run parked.
RequestStopKeepsPause(e) ==
  /\ ~ShouldHalt(e)
  /\ stopping' = stopping \cup {e}
  /\ UNCHANGED <<handles, paused, cancelling>>

RequestStop(e) ==
  /\ ~ShouldHalt(e)
  /\ stopping' = stopping \cup {e}
  /\ paused' = paused \ {e}
  /\ UNCHANGED <<handles, cancelling>>

RequestCancel(e) ==
  /\ e \notin cancelling
  /\ cancelling' = cancelling \cup {e}
  /\ stopping' = stopping \cup {e}
  /\ paused' = paused \ {e}
  /\ UNCHANGED handles

\* What a request does to the flags when the handle accepts it ...
Accept(kind, e) ==
  \/ kind = "pause" /\ RequestPause(e)
  \/ kind = "resume" /\ RequestResume(e)
  \/ kind = "stop" /\ RequestStop(e)
  \/ kind = "cancel" /\ RequestCancel(e)

\* ... and when it answers False.
Refuses(kind, e) ==
  \/ kind = "pause" /\ e \in paused \cup stopping \cup cancelling
  \/ kind = "resume" /\ e \notin paused
  \/ kind = "stop" /\ ShouldHalt(e)
  \/ kind = "cancel" /\ e \in cancelling

\* A halting run is never paused, so a run parked in wait_if_paused() always
\* comes back to unwind, and a cancelled run is also stopping.
FlagsConsistent ==
  /\ paused \cap stopping = {}
  /\ cancelling \subseteq stopping

=============================================================================
