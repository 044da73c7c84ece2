-------------------------- MODULE ExecutionBroker --------------------------
(***************************************************************************)
(* The live events of one execution                                        *)
(* (backend/app/services/workflow/streaming.py), with those who publish    *)
(* (engine.py) and the event streams of clients (_event_stream in          *)
(* backend/app/api/routers/execution_router.py).  The batch of log lines,  *)
(* which shares no state with the events, is left out.                     *)
(*                                                                         *)
(* The engine and the streams are coroutines of the event loop; API        *)
(* threads publish concurrently.  An actor, the loop or a thread, has in   *)
(* `todo` the locked sections and writes still ahead of it: the loop runs  *)
(* its list to the end before another coroutine has a turn, while threads  *)
(* take steps in between.                                                  *)
(***************************************************************************)
EXTENDS Integers, Sequences, FiniteSets, SequencesExt, Lists

CONSTANTS
  Streams,   \* clients, each of which may open its stream again
  Threads,   \* threads of the API's thread pool
  Loop,      \* the event loop
  EXECUTION_STREAM_QUEUE_SIZE,
  EXECUTION_LOG_BUFFER_SIZE,
  MaxEvents, \* bound: operations begin while fewer events are published
  MaxOpens   \* bound: times a client opens its stream

ASSUME BrokerAssumption ==
  /\ Loop \notin Threads \cup Streams
  /\ IsFiniteSet(Streams)
  /\ EXECUTION_STREAM_QUEUE_SIZE \in Nat \ {0}
  /\ EXECUTION_LOG_BUFFER_SIZE \in Nat \ {0}
  /\ MaxEvents \in Nat /\ MaxOpens \in Nat

Actors == {Loop} \cup Threads
\* What is published: the end of the run, or anything else.
Events == {"event", "finished"}

VARIABLES
  run,             \* "queued", "running", "finalised", "stopped" or "over"
  sequences,       \* _sequences[execution], 0 for no entry
  event_buffer,    \* _event_buffers[execution]
  published,       \* events ever published
  todo,            \* what each actor has yet to do
  record,          \* the event it publishes
  targets,         \* the subscribers it has to schedule a delivery for
  ready,           \* deliveries scheduled by call_soon_threadsafe()
  pc,              \* where each stream is; "closed" without one
  after,           \* after_sequence
  already_finished,
  backlog,         \* replayed events still to send
  queue,           \* the subscription's queue
  dropped,         \* whether it ever dropped an event
  got,             \* the frames the client has received from this stream
  opens            \* times the client has opened one

eventVars == <<sequences, event_buffer, published>>
actorVars == <<record, targets>>
clientVars == <<after, already_finished, opens>>
feedVars == <<pc, backlog, got>>
vars == <<run, eventVars, todo, actorVars, ready, clientVars, feedVars, queue,
          dropped>>

\* _subs_by_execution[execution]
Subscribers == {s \in Streams : pc[s] \in {"subscribed", "replaying", "live", "leaving"}}

\* Mistake: an await between subscribe() and replay_events().
LoopFreeBetween == todo[Loop] = <<>>

\* The loop is between two coroutines' turns; subscribe() and replay_events()
\* are called in one turn.
LoopFree == todo[Loop] = <<>> /\ \A s \in Streams : pc[s] # "subscribed"

\* No event in hand.
Nothing == [id |-> 0, sequence |-> 0, event |-> "event", by |-> Loop]

Ahead(a, step) == todo[a] # <<>> /\ Head(todo[a]) = step
Done(a) == todo' = [todo EXCEPT ![a] = Tail(@)]

-----------------------------------------------------------------------------
(* publish() *)

\* next_sequence()
Allocate(a) ==
  /\ todo[a] # <<>> /\ Head(todo[a]) \in Events
  /\ sequences' = sequences + 1
  /\ published' = published + 1
  /\ record' = [record EXCEPT ![a] = [id |-> published + 1, sequence |-> sequences + 1,
                                      event |-> Head(todo[a]), by |-> a]]
  /\ Done(a)
  /\ UNCHANGED <<run, event_buffer, targets, ready, clientVars, feedVars,
                 queue, dropped>>

\* deque(maxlen=...).append()
Buffered(r) ==
  LET longer == Append(event_buffer, r)
  IN  IF Len(longer) > EXECUTION_LOG_BUFFER_SIZE THEN Tail(longer) ELSE longer

Full(s) == Len(queue[s]) >= EXECUTION_STREAM_QUEUE_SIZE

\* Mistake: a full queue drops the new event.
OfferDropsNew(s, r) == IF Full(s) THEN queue[s] ELSE Append(queue[s], r)

\* offer(): a full queue drops its oldest event.
Offer(s, r) == Append(IF Full(s) THEN Tail(queue[s]) ELSE queue[s], r)

OfferTo(S, r) ==
  /\ queue' = [s \in Streams |-> IF s \in S THEN Offer(s, r) ELSE queue[s]]
  /\ dropped' = [s \in Streams |-> dropped[s] \/ (s \in S /\ Full(s))]

\* The buffer and the subscribers are read in one locked section.  On the loop
\* the event is offered at once, a thread has to schedule the deliveries.
AppendEvent(a) ==
  /\ Ahead(a, "append")
  /\ event_buffer' = Buffered(record[a])
  /\ run' = IF record[a].event = "finished" THEN "over" ELSE run
  /\ IF a = Loop
     THEN OfferTo(Subscribers, record[a]) /\ UNCHANGED targets
     ELSE /\ targets' = [targets EXCEPT ![a] = Subscribers]
          /\ UNCHANGED <<queue, dropped>>
  /\ record' = IF a = Loop THEN [record EXCEPT ![a] = Nothing] ELSE record
  /\ Done(a)
  /\ UNCHANGED <<sequences, published, ready, clientVars, feedVars>>

\* call_soon_threadsafe() for each target
Schedule(t) ==
  /\ Ahead(t, "schedule")
  /\ ready' = ready \o [i \in 1..Len(SetToSeq(targets[t])) |->
                          [to |-> SetToSeq(targets[t])[i], record |-> record[t]]]
  /\ targets' = [targets EXCEPT ![t] = {}]
  /\ record' = [record EXCEPT ![t] = Nothing]
  /\ Done(t)
  /\ UNCHANGED <<run, eventVars, clientVars, feedVars, queue, dropped>>

\* The loop runs the next scheduled callback.
Deliver ==
  /\ LoopFree
  /\ ready # <<>>
  /\ ready' = Tail(ready)
  /\ OfferTo({Head(ready).to}, Head(ready).record)
  /\ UNCHANGED <<run, eventVars, todo, actorVars, clientVars, feedVars>>

-----------------------------------------------------------------------------
(* Those who publish. *)

Begin(a, steps) ==
  /\ todo[a] = <<>>
  /\ todo' = [todo EXCEPT ![a] = steps]
  /\ UNCHANGED <<eventVars, actorVars, ready, clientVars, feedVars, queue, dropped>>

\* The engine at work: publish(), or log(), which ends with a publish().
EngineStarts == LoopFree /\ run = "queued" /\ run' = "running" /\ Begin(Loop, <<>>)
EnginePublishes ==
  /\ LoopFree /\ run = "running" /\ published < MaxEvents
  /\ Begin(Loop, <<"event", "append">>)
  /\ UNCHANGED run

\* The terminal row is written in a thread while the loop goes on ...
EngineFinalises ==
  /\ LoopFree /\ run = "running" /\ run' = "finalised"
  /\ Begin(Loop, <<>>)

\* ... then the last line is logged and the end published, in one turn.
EngineFinishes ==
  /\ LoopFree /\ run = "finalised"
  /\ Begin(Loop, <<"event", "append", "finished", "append">>)
  /\ UNCHANGED run

\* pause(), resume() or stop() of a live run, from its acceptance on: an event
\* and a log line.
Request(t) ==
  /\ run \in {"queued", "running", "finalised"} /\ published < MaxEvents
  /\ Begin(t, <<"event", "append", "schedule", "event", "append", "schedule">>)
  /\ UNCHANGED run

\* stop() of a waiting run writes its terminal row and publishes its end.
StopQueued(t) ==
  /\ run = "queued" /\ run' = "stopped"
  /\ Begin(t, <<"finished", "append", "schedule">>)

-----------------------------------------------------------------------------
(* _event_stream() *)

\* execution_stream(): the row is read when the request arrives, the generator
\* starts later.  A client that has received frames may resume after the last.
Open(s) ==
  /\ LoopFree
  /\ pc[s] = "closed" /\ opens[s] < MaxOpens
  /\ opens' = [opens EXCEPT ![s] = @ + 1]
  /\ \E sequence \in {0} \cup {Last(f).sequence : f \in {got[s]} \ {<<>>}} :
       after' = [after EXCEPT ![s] = sequence]
  /\ already_finished' =
       [already_finished EXCEPT ![s] = run \in {"finalised", "stopped", "over"}]
  /\ pc' = [pc EXCEPT ![s] = "opened"]
  /\ got' = [got EXCEPT ![s] = <<>>]
  /\ UNCHANGED <<run, eventVars, todo, actorVars, ready, backlog, queue, dropped>>

\* The client leaves before the generator has started.
Abandon(s) ==
  /\ LoopFree
  /\ pc[s] = "opened"
  /\ pc' = [pc EXCEPT ![s] = "closed"]
  /\ UNCHANGED <<run, eventVars, todo, actorVars, ready, clientVars, backlog, got,
                 queue, dropped>>

\* subscribe()
Subscribe(s) ==
  /\ LoopFree
  /\ pc[s] = "opened"
  /\ pc' = [pc EXCEPT ![s] = "subscribed"]
  /\ queue' = [queue EXCEPT ![s] = <<>>]
  /\ dropped' = [dropped EXCEPT ![s] = FALSE]
  /\ UNCHANGED <<run, eventVars, todo, actorVars, ready, clientVars, backlog, got>>

\* Mistake: the event after the last one seen is taken for seen.
replay_events_next(after_sequence) ==
  Filter(event_buffer, {r \in ToSet(event_buffer) : r.sequence > after_sequence + 1})

\* replay_events()
replay_events(after_sequence) ==
  Filter(event_buffer, {r \in ToSet(event_buffer) : r.sequence > after_sequence})

Replay(s) ==
  /\ pc[s] = "subscribed"
  /\ todo[Loop] = <<>>
  /\ pc' = [pc EXCEPT ![s] = "replaying"]
  /\ backlog' = [backlog EXCEPT ![s] = replay_events(after[s])]
  /\ UNCHANGED <<run, eventVars, todo, actorVars, ready, clientVars, got, queue,
                 dropped>>

\* A replayed frame is sent.
SendReplayed(s) ==
  /\ LoopFree
  /\ pc[s] = "replaying" /\ backlog[s] # <<>>
  /\ got' = [got EXCEPT ![s] = Append(@, Head(backlog[s]))]
  /\ backlog' = [backlog EXCEPT ![s] = Tail(@)]
  /\ UNCHANGED <<run, eventVars, todo, actorVars, ready, clientVars, pc, queue,
                 dropped>>

\* The generator ends: unsubscribe(), then cleanup(), whose flush is left out.
\* Deliveries under way to the dead subscription no longer matter.
Close(s) ==
  /\ LoopFree
  /\ pc' = [pc EXCEPT ![s] = "closed"]
  /\ todo' = [todo EXCEPT ![Loop] = <<"cleanup">>]
  /\ ready' = Filter(ready, {d \in ToSet(ready) : d.to # s})
  /\ targets' = [t \in Actors |-> targets[t] \ {s}]
  /\ backlog' = [backlog EXCEPT ![s] = <<>>]
  /\ queue' = [queue EXCEPT ![s] = <<>>]
  /\ UNCHANGED <<run, eventVars, record, clientVars, got, dropped>>

\* The locked section of cleanup()
Cleanup ==
  /\ Ahead(Loop, "cleanup")
  /\ IF Subscribers = {} THEN sequences' = 0 /\ event_buffer' = <<>>
     ELSE UNCHANGED <<sequences, event_buffer>>
  /\ Done(Loop)
  /\ UNCHANGED <<run, published, actorVars, ready, clientVars, feedVars, queue,
                 dropped>>

Ended(frames) == \E i \in DOMAIN frames : frames[i].event = "finished"
Replayed(s) == LoopFree /\ pc[s] = "replaying" /\ backlog[s] = <<>>

\* The end was among the replayed events.
EndReplayed(s) == Replayed(s) /\ Ended(got[s]) /\ Close(s)

\* Nothing to replay but the row is terminal: a terminal frame is made up.
Synthesise(s) ==
  /\ Replayed(s) /\ ~Ended(got[s]) /\ already_finished[s]
  /\ sequences' = sequences + 1
  /\ got' = [got EXCEPT ![s] = Append(@, [id |-> 0, sequence |-> sequences + 1,
                                          event |-> "finished", by |-> s])]
  /\ pc' = [pc EXCEPT ![s] = "leaving"]
  /\ UNCHANGED <<run, event_buffer, published, todo, actorVars, ready, clientVars,
                 backlog, queue, dropped>>

GoLive(s) ==
  /\ Replayed(s) /\ ~Ended(got[s]) /\ ~already_finished[s]
  /\ pc' = [pc EXCEPT ![s] = "live"]
  /\ UNCHANGED <<run, eventVars, todo, actorVars, ready, clientVars, backlog, got,
                 queue, dropped>>

\* The next live event; without one a comment is sent every heartbeat.
Receive(s) ==
  /\ LoopFree
  /\ pc[s] = "live" /\ queue[s] # <<>>
  /\ got' = [got EXCEPT ![s] = Append(@, Head(queue[s]))]
  /\ queue' = [queue EXCEPT ![s] = Tail(@)]
  /\ pc' = [pc EXCEPT ![s] = IF Head(queue[s]).event = "finished" THEN "leaving" ELSE "live"]
  /\ UNCHANGED <<run, eventVars, todo, actorVars, ready, clientVars, backlog, dropped>>

\* The terminal frame was sent.
Leave(s) == pc[s] = "leaving" /\ Close(s)

\* The client goes away.
Disconnect(s) == pc[s] \in {"replaying", "live"} /\ Close(s)

-----------------------------------------------------------------------------

Init ==
  /\ run = "queued"
  /\ sequences = 0 /\ event_buffer = <<>> /\ published = 0
  /\ todo = [a \in Actors |-> <<>>]
  /\ record = [a \in Actors |-> Nothing]
  /\ targets = [a \in Actors |-> {}]
  /\ ready = <<>>
  /\ pc = [s \in Streams |-> "closed"]
  /\ after = [s \in Streams |-> 0] /\ already_finished = [s \in Streams |-> FALSE]
  /\ opens = [s \in Streams |-> 0]
  /\ backlog = [s \in Streams |-> <<>>] /\ queue = [s \in Streams |-> <<>>]
  /\ dropped = [s \in Streams |-> FALSE] /\ got = [s \in Streams |-> <<>>]

\* An actor goes on with its list.
Continue(a) == Allocate(a) \/ AppendEvent(a)

\* The generator goes on.
Serve(s) ==
  \/ Subscribe(s) \/ Replay(s) \/ SendReplayed(s) \/ EndReplayed(s)
  \/ Synthesise(s) \/ GoLive(s) \/ Receive(s) \/ Leave(s)

Next ==
  \/ \E a \in Actors : Continue(a)
  \/ \E t \in Threads : Schedule(t) \/ Request(t) \/ StopQueued(t)
  \/ Deliver \/ Cleanup
  \/ EngineStarts \/ EnginePublishes \/ EngineFinalises \/ EngineFinishes
  \/ \E s \in Streams : Serve(s) \/ Open(s) \/ Abandon(s) \/ Disconnect(s)

Spec == Init /\ [][Next]_vars

\* Whoever has something to do goes on; nothing obliges clients to come or go,
\* or the run to end.
FairSpec ==
  /\ Spec
  /\ \A a \in Actors : WF_vars(Continue(a))
  /\ \A t \in Threads : WF_vars(Schedule(t))
  /\ WF_vars(Deliver) /\ WF_vars(Cleanup) /\ WF_vars(EngineFinishes)
  /\ \A s \in Streams : WF_vars(Serve(s))

-----------------------------------------------------------------------------
(* What the broker promises. *)

Frame == [id : Nat, sequence : Nat, event : Events, by : Actors \cup Streams]

Steps == Events \cup {"append", "schedule", "cleanup"}
Delivery == [to : Streams, record : Frame]

TypeOK ==
  /\ run \in {"queued", "running", "finalised", "stopped", "over"}
  /\ sequences \in Nat /\ published \in Nat
  /\ event_buffer \in Seq(Frame) /\ Len(event_buffer) <= EXECUTION_LOG_BUFFER_SIZE
  /\ todo \in [Actors -> Seq(Steps)]
  /\ record \in [Actors -> Frame]
  /\ targets \in [Actors -> SUBSET Streams]
  /\ ready \in Seq(Delivery)
  /\ pc \in [Streams -> {"closed", "opened", "subscribed", "replaying", "live", "leaving"}]
  /\ after \in [Streams -> Nat] /\ opens \in [Streams -> 0..MaxOpens]
  /\ already_finished \in [Streams -> BOOLEAN] /\ dropped \in [Streams -> BOOLEAN]
  /\ backlog \in [Streams -> Seq(Frame)] /\ got \in [Streams -> Seq(Frame)]
  /\ queue \in [Streams -> Seq(Frame)]
  /\ \A s \in Streams : Len(queue[s]) <= EXECUTION_STREAM_QUEUE_SIZE

Frames(s) == got[s] \o backlog[s] \o queue[s]

\* Backfill and live feed leave no gap: whatever the buffer holds beyond the
\* point the client resumed from was sent to it, waits for it or is on its way,
\* unless its queue overflowed.
NoGap ==
  \A s \in Streams :
    pc[s] \in {"replaying", "live"} /\ ~dropped[s] =>
      \A r \in ToSet(event_buffer) :
        r.sequence > after[s] =>
          \/ r \in ToSet(Frames(s))
          \/ [to |-> s, record |-> r] \in ToSet(ready)
          \/ \E t \in Threads : record[t] = r /\ s \in targets[t]

\* The bounded buffer and the queues of the streams together hold what a client
\* is owed.
StreamsWhole == TypeOK /\ NoGap

\* A stream shows the engine's own events once each and in the order they were
\* published, across backfill, live feed and drops.
EngineEventsInOrder ==
  \A s \in Streams : \A i, j \in DOMAIN Frames(s) :
    i < j /\ Frames(s)[i].by = Loop /\ Frames(s)[j].by = Loop
      => Frames(s)[i].id < Frames(s)[j].id

-----------------------------------------------------------------------------
(* The inductive invariant: what keeps streams whole and in order.          *)

\* An actor's list goes through publish() as often as it has events: each is
\* appended next, by a thread also scheduled, and cleanup() stands alone.
PublishInTurn ==
  \A a \in Actors : \A i \in DOMAIN todo[a] :
    LET step == todo[a][i]
        last == i = Len(todo[a])
    IN  /\ step \in Events => ~last /\ todo[a][i + 1] = "append"
        /\ step = "append" /\ a # Loop => ~last /\ todo[a][i + 1] = "schedule"
        /\ (step = "append" /\ a = Loop) \/ step = "schedule" =>
             last \/ todo[a][i + 1] \in Events
        /\ step = "schedule" => a # Loop
        /\ step = "cleanup" => a = Loop /\ last

\* Between next_sequence() and the last of its sections an actor has its own
\* event in hand; the subscribers are read for that event only.
EventInHand ==
  \A a \in Actors :
    /\ Ahead(a, "append") \/ Ahead(a, "schedule") =>
         record[a].by = a /\ record[a].id <= published
    /\ targets[a] # {} => Ahead(a, "schedule")

\* What a stream has been given at each stage.  The engine's events reach a
\* queue only when the loop is at another coroutine, never by a callback.
FeedStages ==
  /\ \A s \in Streams :
       /\ pc[s] \in {"closed", "opened", "subscribed"} =>
            /\ backlog[s] = <<>>
            /\ \A i \in DOMAIN queue[s] : queue[s][i].by # Loop
       /\ pc[s] \in {"opened", "subscribed"} => got[s] = <<>>
       /\ pc[s] \in {"live", "leaving"} => backlog[s] = <<>>
       /\ pc[s] = "subscribed" => todo[Loop] = <<>>
  /\ \A i \in DOMAIN ready : ready[i].record.by # Loop

\* The engine's events in f, and those of f and then of g, in order.
InOrder(f) ==
  \A i, j \in DOMAIN f : i < j /\ f[i].by = Loop /\ f[j].by = Loop => f[i].id < f[j].id
Before(f, g) ==
  \A i \in DOMAIN f, j \in DOMAIN g :
    f[i].by = Loop /\ g[j].by = Loop => f[i].id < g[j].id

\* The engine's next event to be appended comes after all those of f.
NextOfEngine == IF Ahead(Loop, "append") THEN record[Loop].id ELSE published + 1
Past(f) == \A i \in DOMAIN f : f[i].by = Loop => f[i].id < NextOfEngine

EngineInOrder ==
  /\ InOrder(event_buffer) /\ Past(event_buffer)
  /\ \A s \in Streams :
       /\ InOrder(got[s]) /\ InOrder(backlog[s]) /\ InOrder(queue[s])
       /\ Past(got[s]) /\ Past(backlog[s]) /\ Past(queue[s])
       /\ Before(got[s], backlog[s]) /\ Before(got[s], queue[s])
       /\ Before(backlog[s], queue[s])

BrokerInv ==
  TypeOK /\ PublishInTurn /\ EventInHand /\ FeedStages /\ EngineInOrder /\ NoGap

-----------------------------------------------------------------------------

\* A client that is subscribed when its run ends is told so and its stream ends,
\* however slow it is.
SubscribedStreamEnds ==
  \A s \in Streams :
    pc[s] \in {"replaying", "live"} /\ run \in {"finalised", "stopped"}
      ~> pc[s] \notin {"replaying", "live"}

\* docs/EXECUTION_ENGINE.md: the endpoint terminates on a live terminal event, on
\* a replayed one, or on one it makes up; no stream of a run that is over goes on.
StreamEnds ==
  \A s \in Streams : pc[s] # "closed" /\ run = "over" ~> pc[s] = "closed"

=============================================================================
