--------------------------- MODULE MediaPipeline ---------------------------
(***************************************************************************)
(* Media assets and their processing: media_router.py, services/media/ and   *)
(* MediaProcessingNode.  Three kinds of actors: requests and nodes, the      *)
(* threads of the pipeline's pool, and the shutdown of the application.      *)
(* Rows and files survive a crash; the pool and its futures do not.          *)
(***************************************************************************)
EXTENDS Integers, Sequences, FiniteSets, SequencesExt, Functions, Lists

CONSTANTS Clients,
          Asks,             \* requests: op, asset, whether to process and to wait
          MaxWorkers,       \* MEDIA_MAX_CONCURRENT_JOBS
          MaxAssets, MaxJobs, MaxRequests,   \* bounds of the model
          None

Ops == {"upload", "update", "delete", "process", "node"}

MediaAssumption ==
    /\ {MaxWorkers, MaxAssets, MaxJobs, MaxRequests} \subseteq Nat \ {0}
    /\ Asks \subseteq [op : Ops, asset : Nat, process : BOOLEAN, wait : BOOLEAN]

VARIABLES
    assets,         \* rows of media_assets: file, processed, and what metadata_ holds
    jobs,           \* rows of media_processing_jobs
    files,          \* the files in the store
    queued,         \* jobs submitted to the pool, in order
    working,        \* jobs in a thread: the next step and what it read
    futures,        \* MediaPipeline._futures
    req,            \* req[c], the request or node of client c
    told,           \* history: the jobs a node reported as completed
    asked,
    mode            \* "up", "closing" while shutdown() waits, "down"

vars == <<assets, jobs, files, queued, working, futures, req, told, asked, mode>>
pool == <<queued, working, futures>>

-----------------------------------------------------------------------------
(* The next row id: SQLite takes the one after the highest.                  *)
Row(table) == IF DOMAIN table = {} THEN 1 ELSE Max(DOMAIN table) + 1
Insert(table, i, row) == [k \in DOMAIN table \cup {i} |-> IF k = i THEN row ELSE table[k]]
Without(table, i) == Restrict(table, DOMAIN table \ {i})

Idle == [op |-> "none", stage |-> "idle"]
Is(c, stage) == req[c].stage = stage
Goto(c, stage) == req' = [req EXCEPT ![c].stage = stage]
End(c) == req' = [req EXCEPT ![c] = Idle]
Same == UNCHANGED <<told, asked, mode>>

(* Nodes and plain handlers run in threads; upload_asset() and               *)
(* process_media() hold the event loop between their waits, and shutdown()   *)
(* holds it until the pool is through.                                       *)
OnLoop(c) == req[c].op \in {"upload", "process"}
Enqueuing == {"write", "insert", "enqueue", "submit", "keep"}
MayRun(c) ==
    OnLoop(c) => mode = "up" /\ \A d \in Clients \ {c} : OnLoop(d) => req[d].stage \notin Enqueuing

First(op) == CASE op = "upload" -> "write" [] op \in {"process", "node"} -> "enqueue" [] OTHER -> "load"

Begin(c, ask) ==
    /\ mode = "up" /\ Is(c, "idle") /\ asked < MaxRequests
    /\ asked' = asked + 1
    /\ req' = [req EXCEPT ![c] = [op |-> ask.op, stage |-> First(ask.op), asset |-> ask.asset,
                                  process |-> ask.process, wait |-> ask.wait, job |-> None,
                                  file |-> IF ask.op = "upload" THEN asked + 2 ELSE 1]]
    /\ UNCHANGED <<assets, jobs, files, pool, told, mode>>

-----------------------------------------------------------------------------
(* Requests.                                                                 *)

(* write_stream(): a file in a directory of its own; an empty upload, or one *)
(* that is too large, leaves none.                                           *)
write_stream(c) ==
    /\ Is(c, "write") /\ MayRun(c) /\ Cardinality(DOMAIN assets) < MaxAssets
    /\ \/ files' = files \cup {req[c].file} /\ Goto(c, "insert")
       \/ End(c) /\ UNCHANGED files
    /\ UNCHANGED <<assets, jobs, pool>> /\ Same

upload_asset(c) ==
    /\ Is(c, "insert") /\ MayRun(c)
    /\ assets' = Insert(assets, Row(assets), [file |-> req[c].file, processed |-> FALSE, metadata |-> {}])
    /\ IF req[c].process THEN req' = [req EXCEPT ![c].stage = "enqueue", ![c].asset = Row(assets)]
       ELSE End(c)
    /\ UNCHANGED <<jobs, files, pool>> /\ Same

(* update_asset() and delete_asset() find the row first.                     *)
_asset_or_404(c) ==
    /\ Is(c, "load")
    /\ IF req[c].asset \in DOMAIN assets
       THEN req' = [req EXCEPT ![c].stage = req[c].op, ![c].file = assets[req[c].asset].file]
       ELSE End(c)
    /\ UNCHANGED <<assets, jobs, files, pool>> /\ Same

(* A row that is gone by now: the update fails.                              *)
update_asset(c) ==
    /\ Is(c, "update")
    /\ assets' = IF req[c].asset \in DOMAIN assets
                 THEN [assets EXCEPT ![req[c].asset].metadata = {"client"}] ELSE assets
    /\ End(c) /\ UNCHANGED <<jobs, files, pool>> /\ Same

delete_file(c) ==
    /\ Is(c, "delete")
    /\ files' = files \ {req[c].file} /\ Goto(c, "delete_row")
    /\ UNCHANGED <<assets, jobs, pool>> /\ Same

(* A job that refers to the asset keeps the row: jobs have no ON DELETE.     *)
delete_asset(c) ==
    /\ Is(c, "delete_row")
    /\ assets' = IF \E j \in DOMAIN jobs : jobs[j].asset = req[c].asset THEN assets
                 ELSE Without(assets, req[c].asset)
    /\ End(c) /\ UNCHANGED <<jobs, files, pool>> /\ Same

-----------------------------------------------------------------------------
(* enqueue_asset() and wait_for_job().                                       *)

EnqueueCreate(c) ==
    /\ Is(c, "enqueue") /\ MayRun(c) /\ Cardinality(DOMAIN jobs) < MaxJobs
    /\ IF req[c].asset \in DOMAIN assets
       THEN /\ jobs' = Insert(jobs, Row(jobs), [asset |-> req[c].asset, status |-> "PENDING",
                                                progress |-> 0])
            /\ req' = [req EXCEPT ![c].stage = "submit", ![c].job = Row(jobs)]
       ELSE End(c) /\ UNCHANGED jobs
    /\ UNCHANGED <<assets, files, pool>> /\ Same

(* A pool that is being shut down takes no more: the row stays PENDING.      *)
EnqueueSubmit(c) ==
    /\ Is(c, "submit") /\ MayRun(c)
    /\ IF mode = "up" THEN queued' = Append(queued, req[c].job) /\ Goto(c, "keep")
       ELSE End(c) /\ UNCHANGED queued
    /\ UNCHANGED <<assets, jobs, files, working, futures>> /\ Same

Running(j) == j \in ToSet(queued) \/ j \in DOMAIN working

(* Mistake: the future is kept although its callback has run already.        *)
Kept_always(j) == {j}

(* add_done_callback() of a future that is done runs the callback at once.   *)
Kept(j) == IF Running(j) THEN {j} ELSE {}

EnqueueKeep(c) ==
    /\ Is(c, "keep") /\ MayRun(c)
    /\ futures' = futures \cup Kept(req[c].job)
    /\ IF req[c].wait THEN Goto(c, "wait") ELSE End(c)
    /\ UNCHANGED <<assets, jobs, files, queued, working>> /\ Same

WaitEnds(c) ==
    /\ Is(c, "wait") /\ mode # "closing" /\ ~Running(req[c].job)
    /\ Goto(c, "read")
    /\ UNCHANGED <<assets, jobs, files, pool>> /\ Same

(* The node's time limit, or its cancellation: the future is cancelled, and  *)
(* with it a job no thread has taken yet.                                    *)
WaitTimesOut(c) ==
    /\ Is(c, "wait") /\ mode # "closing" /\ req[c].op = "node" /\ Running(req[c].job)
    /\ queued' = Filter(queued, ToSet(queued) \ {req[c].job})
    /\ futures' = IF req[c].job \in DOMAIN working THEN futures ELSE futures \ {req[c].job}
    /\ End(c)
    /\ UNCHANGED <<assets, jobs, files, working>> /\ Same

Reported(job) == job.status # "FAILED"

(* get_job() after the wait; MediaProcessingNode.run() looks at the status.  *)
ReadJob(c) ==
    /\ Is(c, "read") /\ mode # "closing"
    /\ told' = IF req[c].op = "node" /\ Reported(jobs[req[c].job])
               THEN told \cup {req[c].job} ELSE told
    /\ End(c) /\ UNCHANGED <<assets, jobs, files, pool, asked, mode>>

-----------------------------------------------------------------------------
(* _process_job(), one transaction after the other, in a thread.             *)

(* Mistake: the threads stop with the shutdown and leave the queue behind.   *)
Serving_up == mode = "up"

Serving == TRUE

Take ==
    /\ Serving /\ queued # <<>> /\ Cardinality(DOMAIN working) < MaxWorkers
    /\ working' = Insert(working, Head(queued), [step |-> "start", read |-> {}])
    /\ queued' = Tail(queued)
    /\ UNCHANGED <<assets, jobs, files, futures, req>> /\ Same

Asset(j) == jobs[j].asset
At(j, step) == j \in DOMAIN working /\ working[j].step = step

Advance(j, step) == working' = [working EXCEPT ![j].step = step]

(* The thread is through with the job and the callback drops its future.     *)
Leave(j) == working' = Without(working, j) /\ futures' = futures \ {j}

_update_job(j, status, progress) ==
    jobs' = [jobs EXCEPT ![j].status = status, ![j].progress = progress]

JobStart(j) ==
    /\ At(j, "start")
    /\ _update_job(j, "RUNNING", 10)
    /\ working' = [working EXCEPT ![j] = [step |-> "metadata", read |-> assets[Asset(j)].metadata]]
    /\ UNCHANGED <<assets, files, queued, futures, req>> /\ Same

(* extract_basic_metadata(): a file that is missing is not an error.         *)
JobMetadata(j) ==
    /\ At(j, "metadata")
    /\ IF assets[Asset(j)].file \in files THEN _update_job(j, "RUNNING", 65) /\ Advance(j, "poster")
       ELSE Advance(j, "asset") /\ UNCHANGED jobs
    /\ UNCHANGED <<assets, files, queued, futures, req>> /\ Same

(* generate_poster(): the same holds.                                        *)
JobPoster(j) ==
    /\ At(j, "poster") /\ Advance(j, "asset")
    /\ UNCHANGED <<assets, jobs, files, queued, futures, req>> /\ Same

(* Any other error: a picture that cannot be read, a disk that is full.      *)
JobFails(j) ==
    /\ At(j, "metadata") \/ At(j, "poster")
    /\ _update_job(j, "FAILED", 100) /\ Leave(j)
    /\ UNCHANGED <<assets, files, queued, req>> /\ Same

Marked(j) == [assets EXCEPT ![Asset(j)].metadata = working[j].read \cup {"result"},
                            ![Asset(j)].processed = TRUE]

JobAsset(j) ==
    /\ At(j, "asset")
    /\ assets' = Marked(j)
    /\ Advance(j, "done")
    /\ UNCHANGED <<jobs, files, queued, futures, req>> /\ Same

JobDone(j) ==
    /\ At(j, "done")
    /\ _update_job(j, "COMPLETED", 100)
    /\ Leave(j)
    /\ UNCHANGED <<assets, files, queued, req>> /\ Same

(* A transaction fails (the database stays locked): the job is over, its row *)
(* is not, and who waits for it fails too.                                   *)
JobBreaks(j) ==
    /\ j \in DOMAIN working /\ Leave(j)
    /\ req' = [c \in Clients |-> IF Is(c, "wait") /\ req[c].job = j THEN Idle ELSE req[c]]
    /\ UNCHANGED <<assets, jobs, files, queued>> /\ Same

-----------------------------------------------------------------------------
(* shutdown(): wait for the queue and for the threads.                       *)

ShutdownBegins ==
    /\ mode = "up" /\ \A c \in Clients : OnLoop(c) => req[c].stage \notin Enqueuing
    /\ mode' = "closing"
    /\ UNCHANGED <<assets, jobs, files, pool, req, told, asked>>

ShutdownEnds ==
    /\ mode = "closing" /\ queued = <<>> /\ DOMAIN working = {}
    /\ mode' = "down" /\ futures' = {}
    /\ UNCHANGED <<assets, jobs, files, queued, working, req, told, asked>>

(* The process dies and is started again.                                    *)
Crash ==
    /\ mode = "up" /\ asked > 0
    /\ queued' = <<>> /\ working' = Restrict(working, {}) /\ futures' = {}
    /\ req' = [c \in Clients |-> Idle]
    /\ UNCHANGED <<assets, jobs, files, told, asked, mode>>

-----------------------------------------------------------------------------
Init ==
    /\ assets = [a \in {1} |-> [file |-> 1, processed |-> FALSE, metadata |-> {}]] /\ files = {1}
    /\ jobs = [j \in {} |-> None]
    /\ queued = <<>> /\ working = [j \in {} |-> None] /\ futures = {}
    /\ req = [c \in Clients |-> Idle]
    /\ told = {} /\ asked = 0 /\ mode = "up"

Request(c) ==
    \/ write_stream(c) \/ upload_asset(c)
    \/ _asset_or_404(c) \/ update_asset(c) \/ delete_file(c) \/ delete_asset(c)
    \/ EnqueueCreate(c) \/ EnqueueSubmit(c) \/ EnqueueKeep(c)
    \/ WaitEnds(c) \/ WaitTimesOut(c) \/ ReadJob(c)

Thread(j) ==
    JobStart(j) \/ JobMetadata(j) \/ JobPoster(j) \/ JobAsset(j) \/ JobDone(j) \/ JobFails(j) \/ JobBreaks(j)

Next ==
    \/ \E c \in Clients : (mode # "down" /\ Request(c)) \/ \E ask \in Asks : Begin(c, ask)
    \/ Take \/ \E j \in 1..MaxJobs : Thread(j)
    \/ ShutdownBegins \/ ShutdownEnds \/ Crash

(* The threads of the pool run; nothing is asked of clients.                 *)
Spec == Init /\ [][Next]_vars /\ WF_vars(Take) /\ \A j \in 1..MaxJobs : WF_vars(Thread(j))

-----------------------------------------------------------------------------
(* Rows belong together, and the progress a client polls agrees with the     *)
(* status: 100 exactly at the end, however the job got there.                *)
TypeOK ==
    /\ \A j \in DOMAIN jobs :
          /\ jobs[j].asset \in DOMAIN assets
          /\ jobs[j].status = "PENDING" <=> jobs[j].progress = 0
          /\ jobs[j].status = "RUNNING" <=> jobs[j].progress \in {10, 65}
    /\ ToSet(queued) \cup DOMAIN working \subseteq DOMAIN jobs
    /\ Cardinality(DOMAIN working) <= MaxWorkers

(* A job is COMPLETED only after its asset was marked: a crash or a failed   *)
(* transaction in between leaves no completed job without its result.        *)
MarkedBeforeCompleted ==
    \A j \in DOMAIN jobs : jobs[j].status = "COMPLETED" => assets[jobs[j].asset].processed

(* _futures has exactly the jobs the pool has not finished, whichever of the *)
(* registration, the end and a cancellation comes first: a waiter never      *)
(* misses a job under way, and none stays behind.                            *)
FuturesMatch ==
    LET between == {req[c].job : c \in {d \in Clients : Is(d, "keep")}}
    IN /\ futures \subseteq ToSet(queued) \cup DOMAIN working
       /\ (ToSet(queued) \cup DOMAIN working) \ between \subseteq futures

(* A MediaProcessingNode that reports its job as done has not taken a failed *)
(* one for it.                                                               *)
NodeTellsTruth == \A j \in told : jobs[j].status # "FAILED"

(* A job in the pool comes to its end, also while the application shuts      *)
(* down, unless the process dies.                                            *)
QueuedJobsEnd == \A j \in 1..MaxJobs : Running(j) ~> ~Running(j)

-----------------------------------------------------------------------------
(* The inductive invariant.                                                  *)

Asset_row == [file : Nat, processed : BOOLEAN, metadata : SUBSET {"client", "result"}]
Job_row == [asset : Nat, status : {"PENDING", "RUNNING", "COMPLETED", "FAILED"}, progress : Nat]
Work == [step : {"start", "metadata", "poster", "asset", "done"}, read : SUBSET {"client", "result"}]
Stages == Enqueuing \cup Ops \cup {"load", "delete_row", "wait", "read"}
Asked == [op : Ops, stage : Stages, asset : Nat, process : BOOLEAN, wait : BOOLEAN,
          job : Nat \cup {None}, file : Nat]

Table(rows, kind) ==
    rows \in [DOMAIN rows -> kind] /\ DOMAIN rows \subseteq Nat /\ IsFiniteSet(DOMAIN rows)

Typed ==
    /\ Table(assets, Asset_row) /\ Table(jobs, Job_row) /\ Table(working, Work)
    /\ DOMAIN working \subseteq DOMAIN jobs /\ Cardinality(DOMAIN working) <= MaxWorkers
    /\ queued \in Seq(DOMAIN jobs)
    /\ told \subseteq DOMAIN jobs /\ files \subseteq Nat
    /\ req \in [Clients -> {Idle} \cup Asked]
    /\ asked \in Nat /\ mode \in {"up", "closing", "down"}

(* What TypeOK says of one job.                                              *)
Linked(j) ==
    /\ jobs[j].asset \in DOMAIN assets
    /\ jobs[j].status = "PENDING" <=> jobs[j].progress = 0
    /\ jobs[j].status = "RUNNING" <=> jobs[j].progress \in {10, 65}
    /\ jobs[j].status = "COMPLETED" => assets[jobs[j].asset].processed

(* A job is in the pool once, ...                                            *)
QueuedOnce ==
    /\ \A i, k \in 1..Len(queued) : queued[i] = queued[k] => i = k
    /\ \A i \in 1..Len(queued) : queued[i] \notin DOMAIN working

(* ... is the job of one client, in the pool neither before it was submitted *)
(* nor after the wait for it, ...                                            *)
Holds(c) == req[c].stage \in {"submit", "keep", "wait", "read"}
JobsOwned ==
    /\ \A c \in Clients : Holds(c) => req[c].job \in DOMAIN jobs
    /\ \A c, d \in Clients : Holds(c) /\ Holds(d) /\ req[c].job = req[d].job => c = d
    /\ \A c \in Clients : req[c].stage \in {"submit", "read"} => ~Running(req[c].job)

(* ... and never back in it once a node has reported it.                     *)
ToldIsOver ==
    \A j \in told :
        /\ ~Running(j) /\ jobs[j].status # "FAILED"
        /\ \A c \in Clients : Is(c, "submit") => req[c].job # j

(* The result is in the asset before the job is COMPLETED.                   *)
DoneIsMarked == \A j \in DOMAIN working : working[j].step = "done" => assets[jobs[j].asset].processed

(* What FuturesMatch says of one job.                                        *)
FuturesKept ==
    /\ \A j \in futures : Running(j)
    /\ \A j \in DOMAIN jobs :
          Running(j) /\ (\A c \in Clients : Is(c, "keep") => req[c].job # j) => j \in futures

MediaInv ==
    /\ Typed /\ \A j \in DOMAIN jobs : Linked(j)
    /\ QueuedOnce /\ JobsOwned /\ ToldIsOver /\ DoneIsMarked /\ FuturesKept

=============================================================================
