------------------------------ MODULE HttpNode ------------------------------
(***************************************************************************)
(* The nodes that call out: HTTP Request and Webhook of network_nodes.py and *)
(* the HTTP Request executor of executors.py, which share the validation of  *)
(* the address and the loop that follows redirects hop by hop.  The server   *)
(* is the environment: it answers any status and any location.               *)
(***************************************************************************)
EXTENDS Integers, Sequences, SequencesExt

CONSTANTS Urls,           \* Urls[u]: scheme, host, port of the URL u
          Hosts,          \* Hosts[h]: what the name h is and resolves to
          Requests,       \* node configurations: kind, method, url, ...
          Policies,       \* settings: private networks allowed, allowed hosts
          MaxRedirects,
          Statuses, NoLocation

HttpAssumption ==
    /\ \A u \in DOMAIN Urls : Urls[u].host \in DOMAIN Hosts
    /\ \A r \in Requests : /\ r.kind \in {"http", "webhook", "legacy"}
                          /\ r.url \in DOMAIN Urls
                          /\ {r.credentials, r.body, r.fail_on_error} \subseteq BOOLEAN
    /\ MaxRedirects \in Nat /\ Statuses \subseteq Nat
    /\ NoLocation \notin DOMAIN Urls

VARIABLES node, policy,   \* the configuration of the node and of the process
          stage,          \* where request_following_validated_redirects() is
          next,           \* the request to send next; credentials are the headers
                          \* named in _CREDENTIAL_HEADERS
          sent,           \* history: the requests sent, with their answers
          outcome

vars == <<node, policy, stage, next, sent, outcome>>

Redirects == {301, 302, 303, 307, 308}
BodyMethods(kind) == {"POST", "PUT", "PATCH"} \cup (IF kind = "legacy" THEN {} ELSE {"DELETE"})
AllowedMethods(kind) ==
    IF kind = "webhook" THEN {"POST", "PUT", "PATCH"}
    ELSE {"GET", "POST", "PUT", "PATCH", "DELETE", "HEAD", "OPTIONS"}

-----------------------------------------------------------------------------
Host(u) == Hosts[Urls[u].host]

(* validate_outbound_url(): "ok", or the error it raises.                    *)
validate_outbound_url(u) ==
    IF Urls[u].scheme \notin {"http", "https"} THEN "permission"
    ELSE IF policy.hosts # {} THEN IF Urls[u].host \in policy.hosts THEN "ok" ELSE "permission"
    ELSE IF Host(u).metadata THEN "permission"
    ELSE IF policy.private THEN "ok"
    ELSE CASE Host(u).address = "unknown" -> "validation"
           [] Host(u).address = "blocked" -> "permission"
           [] OTHER -> "ok"

_same_origin(u, v) == Urls[u] = Urls[v]

(* A plain URL redirected to the same host on the standard secure port.      *)
_is_https_redirect(u, v) ==
    /\ Urls[u].host = Urls[v].host
    /\ Urls[u].scheme = "http" /\ Urls[u].port = 80
    /\ Urls[v].scheme = "https" /\ Urls[v].port = 443

(* Mistake: what matters is the host alone.                                  *)
KeepsCredentials_host(from, to) == Urls[from].host = Urls[to].host

KeepsCredentials(from, to) == _same_origin(to, from) \/ _is_https_redirect(from, to)

BecomesGet(status, method) ==
    status = 303 \/ (status \in {301, 302} /\ method \notin {"GET", "HEAD"})

-----------------------------------------------------------------------------
End(result) == stage' = "done" /\ outcome' = result

(* The checks of run() and execute() before the first request; the webhook   *)
(* looks at the address before the method.                                   *)
FirstError ==
    LET method == IF node.method \in AllowedMethods(node.kind) THEN "ok" ELSE "validation"
        url == validate_outbound_url(node.url)
        checks == IF node.kind = "webhook" THEN <<url, method>> ELSE <<method, url>>
    IN IF checks[1] # "ok" THEN checks[1] ELSE checks[2]

Prepare ==
    /\ stage = "prepare"
    /\ IF FirstError # "ok" THEN End(FirstError) ELSE stage' = "request" /\ UNCHANGED outcome
    /\ next' = [url |-> node.url, method |-> node.method, credentials |-> node.credentials,
                body |-> node.body /\ node.method \in BodyMethods(node.kind)]
    /\ UNCHANGED <<node, policy, sent>>

(* What a final answer makes of the node: HTTP Request, Webhook, executor.   *)
run_http(status) ==
    IF status \in 200..299 \/ ~node.fail_on_error THEN "completed"
    ELSE IF status = 429 THEN "rate_limit" ELSE "network"
run_webhook(status) ==
    IF status \in 200..299 \/ ~node.fail_on_error THEN "completed" ELSE "network"
run_legacy(status) == "completed"

Finished(status) ==
    CASE node.kind = "http" -> run_http(status)
      [] node.kind = "webhook" -> run_webhook(status)
      [] OTHER -> run_legacy(status)

Answered(request, status) ==
    [url |-> request.url, method |-> request.method, credentials |-> request.credentials,
     body |-> request.body, status |-> status]

(* One request of the loop and what the loop makes of the answer.            *)
Hop(status, location) ==
    /\ stage = "request"
    /\ sent' = Append(sent, Answered(next, status))
    /\ IF status \notin Redirects \/ location = NoLocation
       THEN End(Finished(status)) /\ UNCHANGED next
       ELSE IF validate_outbound_url(location) # "ok" THEN End(validate_outbound_url(location)) /\ UNCHANGED next
       ELSE /\ next' = [url |-> location,
                        credentials |-> next.credentials /\ KeepsCredentials(next.url, location),
                        method |-> IF BecomesGet(status, next.method) THEN "GET" ELSE next.method,
                        body |-> next.body /\ ~BecomesGet(status, next.method)]
            /\ IF Len(sent) = MaxRedirects THEN End("permission")
               ELSE UNCHANGED <<stage, outcome>>
    /\ UNCHANGED <<node, policy>>

(* The request times out or the connection fails (_perform_request, and the  *)
(* executor, whose ExecutionError counts as a runtime error).                *)
_perform_request(error) == IF node.kind = "legacy" THEN "runtime" ELSE error

Breaks(error) ==
    /\ stage = "request"
    /\ End(_perform_request(error))
    /\ UNCHANGED <<node, policy, next, sent>>

-----------------------------------------------------------------------------
Init ==
    /\ node \in Requests /\ policy \in Policies
    /\ stage = "prepare" /\ outcome = "none" /\ sent = <<>>
    /\ next = [url |-> node.url, method |-> node.method, credentials |-> FALSE, body |-> FALSE]

Next ==
    \/ Prepare
    \/ \E status \in Statuses, location \in DOMAIN Urls \cup {NoLocation} : Hop(status, location)
    \/ \E error \in {"timeout", "network"} : Breaks(error)

Spec == Init /\ [][Next]_vars

-----------------------------------------------------------------------------
TypeOK ==
    /\ stage \in {"prepare", "request", "done"}
    /\ Len(sent) <= MaxRedirects + 1
    /\ outcome # "none" <=> stage = "done"

(* Every address that was called passed the validation, the targets of       *)
(* redirects too.                                                            *)
OnlyValidated == \A i \in DOMAIN sent : validate_outbound_url(sent[i].url) = "ok"

(* The credentials of the node reach its own host only, and never go from a  *)
(* secure address to a plain one, however long the chain of redirects.       *)
CredentialsStayHome ==
    \A i \in DOMAIN sent : sent[i].credentials =>
        /\ Urls[sent[i].url].host = Urls[node.url].host
        /\ \A j \in 1..i : Urls[sent[j].url].scheme = "https" => Urls[sent[i].url].scheme = "https"

(* A body is sent again only along answers that ask for it, and a request    *)
(* that lost its method never gets it back.                                  *)
BodyOnlyRepeated ==
    \A i \in DOMAIN sent : i > 1 /\ sent[i].body =>
        \A j \in 1..(i - 1) : sent[j].body /\ sent[j].status \in {307, 308}

(* A completed node has had an answer; one that follows every redirect never *)
(* completes with a redirect it could have followed.                         *)
CompletedIsAnswered ==
    outcome = "completed" =>
        /\ sent # <<>>
        /\ node.kind # "legacy" /\ node.fail_on_error => Last(sent).status \in 200..299

(* The inductive invariant: the promises, and of the request to be sent next *)
(* what they will say of it once it is sent.                                 *)

Methods == {r.method : r \in Requests} \cup {"GET"}

Secure(u) == Urls[u].scheme = "https"

NextTyped ==
    /\ next \in [url : DOMAIN Urls, method : Methods, credentials : BOOLEAN, body : BOOLEAN]
    /\ next.body => next.method \in {"POST", "PUT", "PATCH", "DELETE"}

SentTyped ==
    /\ sent \in Seq([url : DOMAIN Urls, method : Methods, credentials : BOOLEAN,
                     body : BOOLEAN, status : Nat])
    /\ stage = "prepare" => sent = <<>>

NextSound ==
    stage = "request" =>
        /\ Len(sent) <= MaxRedirects
        /\ validate_outbound_url(next.url) = "ok"
        /\ next.credentials =>
              /\ Urls[next.url].host = Urls[node.url].host
              /\ \A i \in DOMAIN sent : Secure(sent[i].url) => Secure(next.url)
        /\ next.body => \A i \in DOMAIN sent : sent[i].body /\ sent[i].status \in {307, 308}

RedirectsInv ==
    /\ node \in Requests /\ NextTyped /\ SentTyped /\ NextSound
    /\ TypeOK /\ OnlyValidated /\ CredentialsStayHome /\ BodyOnlyRepeated /\ CompletedIsAnswered

=============================================================================
