------------------------------ MODULE AiRouting ------------------------------
(***************************************************************************)
(* AI requests: the circuit breaker and the trace ring of orchestration.py,  *)
(* the provider chain, generate() and chat() of orchestrator.py, the AI      *)
(* nodes and the conversation endpoints.  generate() and chat() run on the   *)
(* event loop: a step is the code between two awaits.  The endpoints on      *)
(* conversations run in threads: a step is a database transaction.           *)
(***************************************************************************)
EXTENDS Integers, Sequences, SequencesExt, FiniteSets, Lists

CONSTANTS Callers,        \* requests that may be under way at once
          Plans,          \* sets of asks, one for each caller, to choose from
          Providers, HasKey, Chain,   \* AIOrchestrator.providers, AI_FALLBACK_CHAIN
          Models,         \* Models[m]: the provider of the registered model m
          None,
          Threshold, Reset, TraceSize, MaxTurns, MaxMessages, MaxTokens,
          MaxTime, MaxAsks    \* bounds of the model

AiAssumption ==
    /\ Chain \in Seq(Providers) /\ HasKey \subseteq Providers /\ "mock" \in Providers
    /\ \A m \in DOMAIN Models : Models[m] \in Providers
    /\ \A plan \in Plans, c \in Callers : plan[c].provider \in Providers \cup {None}
    /\ None \notin Providers \cup Nat
    /\ {Threshold, TraceSize, MaxTurns, MaxMessages, MaxTokens} \subseteq Nat \ {0}
    /\ {Reset, MaxTime, MaxAsks} \subseteq Nat

VARIABLES
    now,
    ask,            \* ask[c], what caller c asks for, each time
    call,           \* call[c], its request under way
    breaker,        \* CircuitBreaker._entries
    traces,         \* TraceRecorder._traces
    memory,         \* NodeContext.memory of one execution
    conversations,  \* rows of ai_conversations
    messages,       \* rows of ai_messages, in the order of their ids
    usage,          \* rows of ai_token_usage
    inactive,       \* registered models switched off
    asked,          \* requests so far
    booked          \* history: booked[p], how p's last Threshold calls ended

vars == <<now, ask, call, breaker, traces, memory, conversations, messages, usage,
          inactive, asked, booked>>

db == <<conversations, messages, inactive>>
routing == <<breaker, traces, memory, booked>>

-----------------------------------------------------------------------------
(* The circuit breaker.                                                      *)

BreakerEntry == [state |-> "closed", failures |-> 0, opened |-> None]

Cooling(e) == e.state = "open" /\ e.opened # None /\ now - e.opened < Reset

is_available(p) == ~Cooling(breaker[p])

(* What is_available() leaves behind: an open circuit past its cool-down     *)
(* starts probing.                                                           *)
Probed(p) ==
    IF breaker[p].state = "open" /\ breaker[p].opened # None /\ is_available(p)
    THEN [breaker[p] EXCEPT !.state = "half_open"] ELSE breaker[p]

(* Mistake: a success closes the circuit and keeps the count of failures.    *)
record_success_keep(e) == [e EXCEPT !.state = "closed", !.opened = None]

record_success(e) == BreakerEntry

record_failure(e) ==
    IF e.state = "half_open" \/ e.failures + 1 >= Threshold
    THEN [state |-> "open", failures |-> e.failures + 1, opened |-> now]
    ELSE [e EXCEPT !.failures = @ + 1]

-----------------------------------------------------------------------------
(* The chain of providers of a request.                                      *)

ActiveModel(m) == m \in DOMAIN Models \ inactive

Pinned(a) == IF a.provider # None THEN <<a.provider>>
             ELSE IF ActiveModel(a.model) THEN <<Models[a.model]>> ELSE <<>>

Candidates(a) ==
    LET more == IF a.fallback THEN Filter(Chain, Providers \ ToSet(Pinned(a))) ELSE <<>>
    IN IF Pinned(a) \o more = <<>> THEN <<"mock">> ELSE Pinned(a) \o more

(* A pinned provider without fallback is called whatever its circuit says.   *)
Unfiltered(a) == a.provider # None /\ ~a.fallback

_provider_available(p) == p \in HasKey

resolve_chain(a) ==
    LET usable == Filter(Candidates(a), {p \in Providers : _provider_available(p) /\ is_available(p)})
    IN IF Unfiltered(a) THEN Pinned(a)
       ELSE IF usable = <<>> THEN <<Head(Candidates(a))>> ELSE usable

-----------------------------------------------------------------------------
Idle == [at |-> "idle"]

At(c, where) == call[c].at = where
Done(c) == call' = [call EXCEPT ![c] = Idle]

Begin(c, op) ==
    /\ At(c, "idle") /\ ask[c].op = op /\ asked < MaxAsks
    /\ asked' = asked + 1

recall(key) == IF key \in DOMAIN memory THEN memory[key] ELSE <<>>

Window(history) ==
    IF Len(history) > MaxTurns * 2
    THEN SubSeq(history, Len(history) - MaxTurns * 2 + 1, Len(history)) ELSE history

(* remember() of the prompt, then of the answer.                             *)
Remembered(key, id) ==
    LET asked_now == Window(Append(recall(key), <<"user", id>>))
    IN [k \in DOMAIN memory \cup {key} |->
           IF k = key THEN Window(Append(asked_now, <<"assistant", id>>)) ELSE memory[k]]

(* generate() up to its first provider call.                                 *)
Generate(c) ==
    /\ Begin(c, "generate")
    /\ call' = [call EXCEPT ![c] = [at |-> "provider", id |-> asked', index |-> 1,
                                    chain |-> resolve_chain(ask[c]), attempts |-> <<>>]]
    /\ breaker' = [p \in Providers |->
                      IF p \in ToSet(Candidates(ask[c])) /\ p \in HasKey /\ ~Unfiltered(ask[c])
                      THEN Probed(p) ELSE breaker[p]]
    /\ UNCHANGED <<now, ask, traces, memory, usage, booked, db>>

Calling(c) == call[c].chain[call[c].index]

LastFew(s) == IF Len(s) > Threshold THEN Tail(s) ELSE s
Book(p, outcome) == booked' = [booked EXCEPT ![p] = LastFew(Append(@, outcome))]

(* TraceRecorder.finish(): the oldest trace gives way.                       *)
Finish(trace) ==
    LET all == Append(traces, trace)
    IN traces' = IF Len(all) > TraceSize THEN Tail(all) ELSE all

Trace(c, attempts, ended) ==
    [id |-> call[c].id, chain |-> call[c].chain, attempts |-> attempts, ended |-> ended]

Tried(c, outcome) == Append(call[c].attempts, <<Calling(c), outcome>>)

(* The provider answers: book it, trace it, try to store the usage, remember *)
(* the exchange and return.                                                  *)
Answered(c) ==
    /\ At(c, "provider") /\ Calling(c) \in HasKey
    /\ breaker' = [breaker EXCEPT ![Calling(c)] = record_success(@)]
    /\ Book(Calling(c), "ok")
    /\ Finish(Trace(c, Tried(c, "ok"), "ok"))
    /\ usage' \in {usage, usage \cup {call[c].id}}
    /\ memory' = IF ask[c].memory # None THEN Remembered(ask[c].memory, call[c].id) ELSE memory
    /\ Done(c)
    /\ UNCHANGED <<now, ask, asked, db>>

(* The provider fails or times out, which counts the same: the next one, or  *)
(* all providers failed.                                                     *)
Failed(c) ==
    /\ At(c, "provider")
    /\ breaker' = [breaker EXCEPT ![Calling(c)] = record_failure(@)]
    /\ Book(Calling(c), "failed")
    /\ IF call[c].index < Len(call[c].chain)
       THEN /\ call' = [call EXCEPT ![c].index = @ + 1, ![c].attempts = Tried(c, "failed")]
            /\ UNCHANGED traces
       ELSE /\ Finish(Trace(c, Tried(c, "failed"), "failed"))
            /\ Done(c)
    /\ UNCHANGED <<now, ask, asked, memory, usage, db>>

(* The node that asked is cancelled or times out while the provider works:   *)
(* nothing is booked and no trace is kept.                                   *)
Abandoned(c) ==
    /\ At(c, "provider")
    /\ Done(c)
    /\ UNCHANGED <<now, ask, asked, usage, db, routing>>

-----------------------------------------------------------------------------
(* Conversations.                                                            *)

(* Mistake: the connection does not enforce foreign keys.                    *)
Enforced_off(conv) == TRUE

Enforced(conv) == conv \in conversations

(* A row of ai_messages; id is the chat that wrote it, None for a message    *)
(* that a client posted itself.                                              *)
Row(conv, role, id) == [conv |-> conv, role |-> role, id |-> id]
Of(conv) == SelectSeq(messages, LAMBDA m : m.conv = conv)

(* trim_context(): at most one system prompt and the latest messages, then   *)
(* the oldest given up one by one until the rest fits (a token a message).   *)
trim_context(rows) ==
    LET system == SelectSeq(rows, LAMBDA m : m.role = "system")
        others == SelectSeq(rows, LAMBDA m : m.role # "system")
        head == SubSeq(system, 1, IF system = <<>> THEN 0 ELSE 1)
        few == IF Len(others) > MaxMessages
               THEN SubSeq(others, Len(others) - MaxMessages + 1, Len(others)) ELSE others
        room == IF MaxTokens > Len(head) THEN MaxTokens - Len(head) ELSE 0
        kept == IF Len(few) > room THEN SubSeq(few, Len(few) - room + 1, Len(few)) ELSE few
    IN IF head = <<>> /\ kept = <<>> THEN <<Last(few)>> ELSE head \o kept

(* chat(), first session: read the conversation and its history, ...         *)
ChatLoad(c) ==
    /\ Begin(c, "chat")
    /\ call' = IF ask[c].conv \in conversations /\ ActiveModel(ask[c].model)
               THEN [call EXCEPT ![c] =
                       [at |-> "question", id |-> asked',
                        prompt |-> trim_context(Append(Of(ask[c].conv),
                                                       Row(ask[c].conv, "user", asked')))]]
               ELSE call
    /\ UNCHANGED <<now, ask, usage, db, routing>>

Insert(c, role, id) == messages' = Append(messages, Row(ask[c].conv, role, id))

(* ... and write the question.                                               *)
ChatQuestion(c) ==
    /\ At(c, "question")
    /\ IF Enforced(ask[c].conv)
       THEN Insert(c, "user", call[c].id) /\ call' = [call EXCEPT ![c].at = "thinking"]
       ELSE Done(c) /\ UNCHANGED messages
    /\ UNCHANGED <<now, ask, asked, usage, conversations, inactive, routing>>

(* Second session: the answer, then the usage, each in its own transaction.  *)
ChatAnswer(c) ==
    /\ At(c, "thinking")
    /\ IF Enforced(ask[c].conv)
       THEN Insert(c, "assistant", call[c].id) /\ usage' \in {usage, usage \cup {call[c].id}}
       ELSE UNCHANGED <<messages, usage>>
    /\ Done(c)
    /\ UNCHANGED <<now, ask, asked, conversations, inactive, routing>>

ChatFails(c) ==
    /\ At(c, "thinking")
    /\ Done(c)
    /\ UNCHANGED <<now, ask, asked, usage, db, routing>>

(* add_message(): the conversation is looked up, then the row written.       *)
AddLoad(c) ==
    /\ Begin(c, "add_message")
    /\ call' = IF ask[c].conv \in conversations
               THEN [call EXCEPT ![c] = [at |-> "adding"]] ELSE call
    /\ UNCHANGED <<now, ask, usage, db, routing>>

AddWrite(c) ==
    /\ At(c, "adding")
    /\ IF Enforced(ask[c].conv) THEN Insert(c, ask[c].role, None) ELSE UNCHANGED messages
    /\ Done(c)
    /\ UNCHANGED <<now, ask, asked, usage, conversations, inactive, routing>>

(* delete_conversation(): its messages and itself in one transaction.        *)
DeleteConversation(c) ==
    /\ Begin(c, "delete_conversation") /\ ask[c].conv \in conversations
    /\ messages' = Filter(messages, {m \in ToSet(messages) : m.conv # ask[c].conv})
    /\ conversations' = conversations \ {ask[c].conv}
    /\ UNCHANGED <<now, ask, call, usage, inactive, routing>>

(* update_model(), delete_model(): the model is off, or on again.            *)
SwitchModel(c) ==
    /\ Begin(c, "update_model")
    /\ inactive' \in {inactive \cup {ask[c].model}, inactive \ {ask[c].model}}
    /\ UNCHANGED <<now, ask, call, usage, conversations, messages, routing>>

Tick ==
    /\ now < MaxTime
    /\ now' = now + 1
    /\ UNCHANGED <<ask, call, asked, usage, db, routing>>

-----------------------------------------------------------------------------
Init ==
    /\ now = 0 /\ asked = 0
    /\ ask \in Plans
    /\ call = [c \in Callers |-> Idle]
    /\ breaker = [p \in Providers |-> BreakerEntry]
    /\ booked = [p \in Providers |-> <<>>]
    /\ traces = <<>> /\ memory = <<>> /\ messages = <<>> /\ usage = {}
    /\ conversations = {ask[c].conv : c \in Callers} \ {None}
    /\ inactive = {}

Next ==
    \/ Tick
    \/ \E c \in Callers :
          \/ Generate(c) \/ Answered(c) \/ Failed(c) \/ Abandoned(c)
          \/ ChatLoad(c) \/ ChatQuestion(c) \/ ChatAnswer(c) \/ ChatFails(c)
          \/ AddLoad(c) \/ AddWrite(c) \/ DeleteConversation(c) \/ SwitchModel(c)

Spec == Init /\ [][Next]_vars

-----------------------------------------------------------------------------
TypeOK ==
    /\ \A p \in Providers : breaker[p].state \in {"closed", "open", "half_open"}
    /\ \A c \in Callers : At(c, "provider") => call[c].index \in 1..Len(call[c].chain)
    /\ usage \subseteq 1..asked
    /\ \A k \in DOMAIN memory : Len(memory[k]) <= 2 * MaxTurns

(* A circuit is open or probing exactly when the last Threshold calls of the *)
(* provider that ended all failed, whatever calls overlapped and in whatever *)
(* order their outcomes came in (CircuitBreaker).                            *)
CircuitTellsTruth ==
    \A p \in Providers :
        breaker[p].state # "closed" <=>
            Len(booked[p]) = Threshold /\ "ok" \notin ToSet(booked[p])

(* A kept trace tells the whole request: the attempts are the chain, in      *)
(* order, up to the one that succeeded; a failed request tried every one.    *)
TracesTellAll ==
    \A i \in DOMAIN traces :
        LET t == traces[i]
            names == [k \in DOMAIN t.attempts |-> t.attempts[k][1]]
        IN /\ names = SubSeq(t.chain, 1, Len(t.attempts))
           /\ \A k \in DOMAIN t.attempts : t.attempts[k][2] = "ok" <=> t.ended = "ok" /\ k = Len(t.attempts)
           /\ t.ended = "failed" => Len(t.attempts) = Len(t.chain)

(* The memory of a chat node alternates prompt and answer of one request,    *)
(* oldest first, also when requests of the node overlap and when old turns   *)
(* are dropped (remember()).                                                 *)
MemoryPairsUp ==
    \A k \in DOMAIN memory : \A i \in DOMAIN memory[k] :
        IF i % 2 = 1 THEN memory[k][i][1] = "user"
        ELSE memory[k][i] = <<"assistant", memory[k][i - 1][2]>>

(* No message outlives its conversation, and no answer of chat() its         *)
(* question, though the conversation may be deleted while the provider works. *)
NoOrphans ==
    \A i \in DOMAIN messages :
        /\ messages[i].conv \in conversations
        /\ messages[i].role = "assistant" /\ messages[i].id # None =>
              \E j \in 1..(i - 1) : messages[j] = Row(messages[i].conv, "user", messages[i].id)

-----------------------------------------------------------------------------
(* The inductive invariant.                                                  *)

Ends == {"ok", "failed"}
Asks == {plan[c] : plan \in Plans, c \in Callers}
Rows == [conv : {a.conv : a \in Asks}, role : {"user", "assistant"} \cup {a.role : a \in Asks},
         id : Nat \cup {None}]

AiTyped ==
    /\ now \in Nat /\ asked \in Nat /\ ask \in Plans
    /\ breaker \in [Providers -> [state : {"closed", "open", "half_open"}, failures : Nat,
                                  opened : Nat \cup {None}]]
    /\ booked \in [Providers -> Seq(Ends)]
    /\ messages \in Seq(Rows)
    /\ usage \subseteq 1..asked
    /\ call = [c \in Callers |-> call[c]]

(* The count of a closed circuit is the number of failures at the end of the *)
(* book; one that is open or probing has nothing but failures there.         *)
CircuitInStep(p) ==
    LET n == Len(booked[p])
        failures == breaker[p].failures
    IN /\ n <= Threshold
       /\ breaker[p].state = "closed" =>
             /\ failures < Threshold /\ failures <= n
             /\ \A i \in (n - failures + 1)..n : booked[p][i] = "failed"
             /\ n > failures => booked[p][n - failures] = "ok"
       /\ breaker[p].state # "closed" =>
             /\ failures >= Threshold /\ n = Threshold
             /\ \A i \in 1..n : booked[p][i] = "failed"

(* A request under way has tried, in vain, the providers before its index; a *)
(* chat whose provider works has stored its question.                        *)
CallInStep(c) ==
    /\ call[c].at \in {"idle", "provider", "question", "thinking", "adding"}
    /\ At(c, "provider") =>
          /\ call[c].id \in 1..asked
          /\ call[c].chain \in Seq(Providers) /\ call[c].index \in 1..Len(call[c].chain)
          /\ call[c].attempts \in Seq(Providers \X Ends)
          /\ Len(call[c].attempts) = call[c].index - 1
          /\ \A k \in 1..(call[c].index - 1) : call[c].attempts[k] = <<call[c].chain[k], "failed">>
    /\ call[c].at \in {"question", "thinking"} => call[c].id \in 1..asked
    /\ At(c, "thinking") /\ ask[c].conv \in conversations =>
          \E j \in DOMAIN messages : messages[j] = Row(ask[c].conv, "user", call[c].id)

MemoryInStep(history) ==
    /\ history \in Seq({"user", "assistant"} \X Nat)
    /\ Len(history) <= 2 * MaxTurns /\ Len(history) % 2 = 0
    /\ \A i \in DOMAIN history :
          IF i % 2 = 1 THEN history[i][1] = "user"
          ELSE history[i] = <<"assistant", history[i - 1][2]>>

TraceInStep(t) ==
    LET n == Len(t.attempts)
    IN /\ n <= Len(t.chain)
       /\ \A k \in 1..n : t.attempts[k] = <<t.chain[k], IF k = n THEN t.ended ELSE "failed">>
       /\ t.ended = "failed" => n = Len(t.chain)

TracesInStep ==
    /\ traces \in Seq([id : Nat, chain : Seq(Providers), attempts : Seq(Providers \X Ends),
                       ended : Ends])
    /\ \A i \in DOMAIN traces : TraceInStep(traces[i])

AiInv ==
    /\ AiTyped /\ TracesInStep /\ NoOrphans
    /\ \A p \in Providers : CircuitInStep(p)
    /\ \A c \in Callers : CallInStep(c)
    /\ \A k \in DOMAIN memory : MemoryInStep(memory[k])

=============================================================================
