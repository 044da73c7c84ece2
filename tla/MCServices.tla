----------------------------- MODULE MCServices -----------------------------
(***************************************************************************)
(* What surrounds the engine: the middleware of every request, the routing of *)
(* AI requests, the redirects of the HTTP nodes, the workflow library with   *)
(* the record of its runs, and the algorithms that check its graphs.  They   *)
(* share no state that the models follow, so each behaviour explores one of  *)
(* them, chosen in the initial state; the variables of the others keep the   *)
(* value Unused.                                                             *)
(***************************************************************************)
EXTENDS Integers, Sequences, FiniteSets, SequencesExt, FiniteSetsExt, TLC

CONSTANTS Clients, None, Unused,
          Urls, Hosts, Requests, Policies, MaxRedirects, Statuses, NoLocation,
          Plans, Chain, Models, Providers, HasKey, Threshold, Reset, TraceSize, MaxTurns, MaxMessages,
          MaxTokens, MaxAsks, MaxClock,
          Kinds, Budget, RateWindow, MaxBuckets, MaxTime, MaxRequests,
          Edits, PageSize, MaxEdits,
          Ids, EdgeLists

VARIABLES picked,
          node, policy, stage, next, sent, outcome,
          clock, ask, call, breaker, traces, memory, conversations, messages, usage, inactive, asked, booked,
          now, req, hits, metrics, served, sends,
          workflows, nodes, edges, executions, pending, answered, overlapped, unchecked, removed,
          arcs, algorithm, result, colour, stack, path, cycles, indegree, queue, order, ends, seen

calls == <<node, policy, stage, next, sent, outcome>>
ai == <<clock, ask, call, breaker, traces, memory, conversations, messages, usage, inactive, asked, booked>>
door == <<now, req, hits, metrics, served, sends>>
library == <<workflows, nodes, edges, executions, pending, answered, overlapped, unchecked, removed>>
graphs == <<arcs, algorithm, result, colour, stack, path, cycles, indegree, queue, order, ends, seen>>
vars == <<picked, calls, ai, door, library, graphs>>

-----------------------------------------------------------------------------
(* Addresses of each kind, and nodes that may be redirected to them.         *)
Url(scheme, host, port) == [scheme |-> scheme, host |-> host, port |-> port]

MCUrls == "plain" :> Url("http", "shop", 80) @@ "secure" :> Url("https", "shop", 443)
       @@ "other" :> Url("https", "mirror", 443) @@ "local" :> Url("http", "router", 80)
       @@ "file" :> Url("file", "shop", 0) @@ "cloud" :> Url("http", "metadata", 80)
       @@ "gone" :> Url("https", "nowhere", 443)

Name(address, metadata) == [address |-> address, metadata |-> metadata]

MCHosts == "shop" :> Name("public", FALSE) @@ "mirror" :> Name("public", FALSE)
        @@ "router" :> Name("blocked", FALSE) @@ "metadata" :> Name("blocked", TRUE)
        @@ "nowhere" :> Name("unknown", FALSE)

MCRequests == [kind : {"http", "webhook", "legacy"}, method : {"GET", "POST", "TRACE"},
               url : {"plain", "secure", "local"}, credentials : {TRUE}, body : {TRUE},
               fail_on_error : BOOLEAN]

MCPolicies == {[private |-> FALSE, hosts |-> {}], [private |-> TRUE, hosts |-> {}],
               [private |-> FALSE, hosts |-> {"shop", "router"}]}

(* Two AI nodes of one execution, or two clients of one conversation.        *)
AiAsk(op) == [op |-> op, provider |-> None, model |-> "llama", fallback |-> TRUE,
              memory |-> None, conv |-> None, role |-> "user"]

Generates == <<[AiAsk("generate") EXCEPT !.memory = "m"],
               [AiAsk("generate") EXCEPT !.model = None, !.memory = "m"],
               [AiAsk("generate") EXCEPT !.provider = "openai", !.fallback = FALSE],
               [AiAsk("generate") EXCEPT !.model = "gpt", !.fallback = FALSE]>>

OnConversation(op) == [AiAsk(op) EXCEPT !.conv = "conv", !.role = "system"]

Chats == <<OnConversation("chat"), OnConversation("add_message"),
           OnConversation("delete_conversation"), OnConversation("update_model"),
           [OnConversation("add_message") EXCEPT !.role = "assistant"]>>

Pairs(asks) == UNION {{<<asks[i], asks[j]>> : j \in i..Len(asks)} : i \in DOMAIN asks}

MCPlans == Pairs(Generates) \cup Pairs(Chats)
MCChain == <<"openai", "local", "mock">>
MCModels == "llama" :> "local" @@ "gpt" :> "openai"

(* Requests with and without a credential, over two spellings of a path.     *)
Kind(version, route, credential, address) ==
    [path |-> <<version, route>>, credential |-> credential, address |-> address,
     large |-> FALSE, safe |-> FALSE, cookie |-> FALSE, token |-> FALSE]

MCKinds == {Kind("", "login", "none", "home"), Kind("v1", "login", "key", "home"),
            Kind("", "jobs", "key", "home"), Kind("v1", "jobs", "key", "office"),
            [Kind("v1", "health", "none", "home") EXCEPT !.safe = TRUE],
            [Kind("", "jobs", "none", "home") EXCEPT !.cookie = TRUE, !.token = TRUE],
            [Kind("", "jobs", "none", "home") EXCEPT !.large = TRUE],
            [Kind("v1", "upload", "none", "home") EXCEPT !.large = TRUE, !.cookie = TRUE]}

MCBudget == [s \in {"auth", ""} |-> 1]

(* Requests for two workflows; a graph with a loop, and graphs without ids:  *)
(* a sound one, one that goes round, one whose second edge leads nowhere.    *)
NoGraph == [ids |-> TRUE, nodes |-> <<>>, edges |-> <<>>]

LibraryAsk(op, w, a, b) == [op |-> op, w |-> w, a |-> a, b |-> b, label |-> "ok", graph |-> NoGraph]

Graph(ids, names, triples) == [ids |-> ids, nodes |-> names, edges |-> triples]
Put(w, graph) == [LibraryAsk("put", w, 0, 0) EXCEPT !.graph = graph]
WithLoop == Graph(TRUE, <<7, 8>>, <<<<7, 8, "ok">>, <<8, 7, "loop">>>>)
Numbered == Graph(FALSE, <<0, 0>>, <<<<0, 1, "ok">>>>)
Circle == Graph(FALSE, <<0, 0>>, <<<<0, 1, "ok">>, <<1, 0, "ok">>>>)
Broken == Graph(FALSE, <<0, 0>>, <<<<0, 1, "ok">>, <<1, 9, "ok">>>>)

Changes == {<<"create_workflow", 0, 0, 0>>, <<"delete_workflow", 1, 0, 0>>, <<"delete_workflow", 2, 0, 0>>,
            <<"create_node", 1, 0, 0>>, <<"create_node", 2, 0, 0>>, <<"delete_node", 1, 2, 0>>,
            <<"delete_node", 2, 3, 0>>, <<"create_edge", 1, 2, 1>>, <<"create_edge", 1, 2, 4>>,
            <<"delete_edge", 1, 1, 0>>, <<"create_execution", 1, 0, 0>>, <<"replay", 0, 1, 0>>,
            <<"resume_failed", 0, 1, 0>>, <<"resume_failed", 0, 2, 0>>, <<"search", 0, 0, 0>>}

MCEdits == {LibraryAsk(x[1], x[2], x[3], x[4]) : x \in Changes}
               \cup {Put(1, graph) : graph \in {WithLoop, Numbered, Circle, Broken}}

(* All graphs with at most three edges, an edge from a node to itself        *)
(* included, and all of three nodes.                                         *)
Arcs == [i \in 1..16 |-> <<((i - 1) \div 4) + 1, ((i - 1) % 4) + 1>>]
InOrder(chosen) == SelectSeq(Arcs, LAMBDA e : e \in chosen)

MCEdgeLists ==
    {InOrder(chosen) : chosen \in UNION {kSubset(k, Ids \X Ids) : k \in 0..3}
                                  \cup SUBSET ((1..3) \X (1..3))}

H == INSTANCE HttpNode
R == INSTANCE AiRouting WITH now <- clock, Callers <- Clients, MaxTime <- MaxClock
F == INSTANCE FrontDoor
W == INSTANCE WorkflowLibrary WITH req <- pending, Asks <- Edits, MaxRequests <- MaxEdits
G == INSTANCE GraphAlgorithms WITH edges <- arcs

ASSUME ServicesAssumption ==
    H!HttpAssumption /\ R!AiAssumption /\ F!FrontDoorAssumption /\ W!LibraryAssumption
    /\ G!GraphAssumption

-----------------------------------------------------------------------------
NoCalls ==
    /\ node = Unused /\ policy = Unused /\ stage = Unused /\ next = Unused
    /\ sent = Unused /\ outcome = Unused

NoAi ==
    /\ clock = Unused /\ ask = Unused /\ call = Unused /\ breaker = Unused
    /\ traces = Unused /\ memory = Unused /\ conversations = Unused /\ messages = Unused
    /\ usage = Unused /\ inactive = Unused /\ asked = Unused /\ booked = Unused

NoDoor ==
    /\ now = Unused /\ req = Unused /\ hits = Unused /\ metrics = Unused
    /\ served = Unused /\ sends = Unused

NoLibrary ==
    /\ workflows = Unused /\ nodes = Unused /\ edges = Unused /\ executions = Unused
    /\ pending = Unused /\ answered = Unused /\ overlapped = Unused /\ unchecked = Unused
    /\ removed = Unused

NoGraphs ==
    /\ arcs = Unused /\ algorithm = Unused /\ result = Unused
    /\ colour = Unused /\ stack = Unused /\ path = Unused /\ cycles = Unused
    /\ indegree = Unused /\ queue = Unused /\ order = Unused /\ ends = Unused /\ seen = Unused

Init ==
    \/ picked = "http" /\ H!Init /\ NoAi /\ NoDoor /\ NoLibrary /\ NoGraphs
    \/ picked = "ai" /\ R!Init /\ NoCalls /\ NoDoor /\ NoLibrary /\ NoGraphs
    \/ picked = "front" /\ F!Init /\ NoCalls /\ NoAi /\ NoLibrary /\ NoGraphs
    \/ picked = "library" /\ W!Init /\ NoCalls /\ NoAi /\ NoDoor /\ NoGraphs
    \/ picked = "graphs" /\ G!Init /\ NoCalls /\ NoAi /\ NoDoor /\ NoLibrary

NextCalls == picked = "http" /\ H!Next /\ UNCHANGED <<picked, ai, door, library, graphs>>
NextAi == picked = "ai" /\ R!Next /\ UNCHANGED <<picked, calls, door, library, graphs>>
NextDoor == picked = "front" /\ F!Next /\ UNCHANGED <<picked, calls, ai, library, graphs>>
NextLibrary == picked = "library" /\ W!Next /\ UNCHANGED <<picked, calls, ai, door, graphs>>
NextGraphs == picked = "graphs" /\ G!Next /\ UNCHANGED <<picked, calls, ai, door, library>>

Next == NextCalls \/ NextAi \/ NextDoor \/ NextLibrary \/ NextGraphs

(* The algorithms run to their end without a wait; requests need not.        *)
Spec == Init /\ [][Next]_vars /\ WF_vars(NextGraphs)

-----------------------------------------------------------------------------
(* request_following_validated_redirects(): only validated addresses are     *)
(* called, credentials stay with their host and with encryption, a body is   *)
(* repeated along 307 and 308 alone, and a completed node was answered well. *)
RedirectsSound ==
    picked = "http" =>
        /\ H!TypeOK
        /\ H!OnlyValidated
        /\ H!CredentialsStayHome
        /\ H!BodyOnlyRepeated
        /\ H!CompletedIsAnswered

(* CircuitBreaker, TraceRecorder: the state of a circuit is what the calls   *)
(* that ended last say, and a trace holds every attempt of its request.      *)
RoutingTellsTruth == picked = "ai" => R!TypeOK /\ R!CircuitTellsTruth /\ R!TracesTellAll

(* remember(), chat(): prompts and answers stay paired, and no message is    *)
(* left without its conversation.                                            *)
ConversationsWhole == picked = "ai" => R!MemoryPairsUp /\ R!NoOrphans

(* RateLimitMiddleware: the budgets of an address and of a credential hold;  *)
(* RequestContextMiddleware: the metrics of the requests add up.             *)
BudgetsHold ==
    picked = "front" => F!TypeOK /\ F!AuthBudget /\ F!GeneralBudget /\ F!BooksMatch

(* Edits one after the other leave graphs that can run, resumed runs descend *)
(* from older ones of their workflow, and paging misses no run.              *)
LibraryWhole ==
    picked = "library" =>
        /\ W!TypeOK
        /\ W!QuietEditsSound
        /\ W!QuietLineage
        /\ W!BrowseSeesAll

(* replace_graph() says of circles that it rejects them.                     *)
CirclesRejected == picked = "library" => W!CirclesRejected

(* find_cycles(), topological_order(), execution_layers(), loop_body(): what *)
(* they return is what the definition of a cycle, an order, a depth and a    *)
(* body says of the graph.                                                   *)
GraphAnswersRight ==
    picked = "graphs" =>
        /\ G!TypeOK
        /\ G!CyclesFound
        /\ G!OrderSound
        /\ G!LayersAreDepths
        /\ G!BodyIsBetween

(* Every one of them ends, on cyclic graphs too.                             *)
WalksEnd == picked = "graphs" ~> algorithm = "done"

=============================================================================
