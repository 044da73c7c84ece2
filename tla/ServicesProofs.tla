--------------------------- MODULE ServicesProofs ---------------------------
(***************************************************************************)
(* What the services around the engine promise, for every table of         *)
(* addresses and names, every chain of providers, every request and limit. *)
(***************************************************************************)
EXTENDS MCServices, FiniteSetTheorems, SequenceTheorems, TLAPS

LP == INSTANCE ListsProofs

-----------------------------------------------------------------------------
(* The nodes that call out.                                                  *)

(* What is assumed of the nodes and of the answers.                          *)
LEMMA CallsAssumed ==
    ServicesAssumption =>
        /\ \A r \in Requests : /\ r.kind \in {"http", "webhook", "legacy"}
                                 /\ r.url \in DOMAIN Urls /\ r.method \in H!Methods
                                 /\ r.credentials \in BOOLEAN /\ r.body \in BOOLEAN
        /\ MaxRedirects \in Nat /\ Statuses \subseteq Nat
        /\ NoLocation \notin DOMAIN Urls
BY DEF ServicesAssumption, H!HttpAssumption, H!Methods

(* The validation returns "ok" or the error it raises, and returns the same  *)
(* as long as the settings of the process stay.                              *)
LEMMA Validation ==
    /\ \A u : H!validate_outbound_url(u) \in {"ok", "permission", "validation"}
    /\ policy' = policy =>
          \A u : H!validate_outbound_url(u)' = H!validate_outbound_url(u)
BY DEF H!validate_outbound_url

(* A request that was refused before it was sent ends in an error.           *)
LEMMA FirstErrors ==
    /\ H!FirstError \in {"ok", "permission", "validation"}
    /\ H!FirstError = "ok" => H!validate_outbound_url(node.url) = "ok"
BY Validation DEF H!FirstError

(* The outcomes a final answer may have.                                     *)
LEMMA Outcomes ==
    node.kind \in {"http", "webhook", "legacy"} =>
    \A status : /\ H!Finished(status) \in {"completed", "rate_limit", "network"}
                /\ H!Finished(status) = "completed" =>
                      node.kind = "legacy" \/ ~node.fail_on_error \/ status \in 200..299
<1> SUFFICES ASSUME node.kind \in {"http", "webhook", "legacy"}, NEW status
             PROVE  /\ H!Finished(status) \in {"completed", "rate_limit", "network"}
                    /\ H!Finished(status) = "completed" =>
                          node.kind = "legacy" \/ ~node.fail_on_error \/ status \in 200..299
  OBVIOUS
<1>1. CASE node.kind = "http"
  BY <1>1 DEF H!Finished, H!run_http
<1>2. CASE node.kind = "webhook"
  BY <1>2 DEF H!Finished, H!run_webhook
<1>3. CASE node.kind = "legacy"
  BY <1>3 DEF H!Finished, H!run_legacy
<1> QED
  BY <1>1, <1>2, <1>3

LEMMA RedirectsInit == ASSUME ServicesAssumption, H!Init PROVE H!RedirectsInv
<1>1. H!NextTyped /\ H!SentTyped /\ node \in Requests
  BY CallsAssumed DEF H!Init, H!NextTyped, H!SentTyped
<1>2. H!NextSound /\ H!TypeOK
  BY CallsAssumed DEF H!Init, H!NextSound, H!TypeOK
<1>3. H!OnlyValidated /\ H!CredentialsStayHome /\ H!BodyOnlyRepeated /\ H!CompletedIsAnswered
  BY DEF H!Init, H!OnlyValidated, H!CredentialsStayHome, H!BodyOnlyRepeated,
         H!CompletedIsAnswered
<1> QED
  BY <1>1, <1>2, <1>3 DEF H!RedirectsInv

(* Nothing has been sent: the first request is checked and set up.           *)
LEMMA PrepareKeeps ==
    ASSUME ServicesAssumption, H!RedirectsInv, H!Prepare PROVE H!RedirectsInv'
<1>1. node \in Requests /\ node' = node /\ policy' = policy /\ sent' = <<>> /\ sent = <<>>
  BY DEF H!RedirectsInv, H!SentTyped, H!Prepare
<1>2. H!NextTyped'
  BY <1>1, CallsAssumed DEF H!NextTyped, H!Prepare, H!BodyMethods
<1>3. /\ stage' \in {"request", "done"} /\ (outcome' # "none" <=> stage' = "done")
      /\ stage' = "request" => H!validate_outbound_url(node.url) = "ok"
      /\ outcome' # "completed"
  BY FirstErrors DEF H!RedirectsInv, H!TypeOK, H!Prepare, H!End
<1>4. H!NextSound'
  BY <1>1, <1>3, Validation, CallsAssumed DEF H!NextSound, H!Prepare
<1>5. H!SentTyped' /\ H!TypeOK'
  BY <1>1, <1>3, CallsAssumed DEF H!SentTyped, H!TypeOK
<1>6. (H!OnlyValidated /\ H!CredentialsStayHome /\ H!BodyOnlyRepeated
        /\ H!CompletedIsAnswered)'
  BY <1>1, <1>3 DEF H!OnlyValidated, H!CredentialsStayHome, H!BodyOnlyRepeated,
                    H!CompletedIsAnswered
<1> QED
  BY <1>1, <1>2, <1>4, <1>5, <1>6 DEF H!RedirectsInv

(* A connection that fails ends the node without an answer.                  *)
LEMMA BreaksKeeps ==
    ASSUME H!RedirectsInv, NEW error \in {"timeout", "network"}, H!Breaks(error)
    PROVE  H!RedirectsInv'
<1>1. /\ UNCHANGED <<node, policy, next, sent>> /\ stage' = "done"
      /\ outcome' \in {"runtime", "timeout", "network"}
  BY DEF H!Breaks, H!End, H!_perform_request
<1>2. (H!OnlyValidated /\ H!CredentialsStayHome /\ H!BodyOnlyRepeated)'
  BY <1>1, Validation
     DEF H!RedirectsInv, H!OnlyValidated, H!CredentialsStayHome, H!BodyOnlyRepeated
<1> QED
  BY <1>1, <1>2 DEF H!RedirectsInv, H!NextTyped, H!SentTyped, H!NextSound, H!TypeOK,
                    H!CompletedIsAnswered

(* What was sent keeps its promises when the next request, which may be sent, *)
(* is sent and answered.                                                     *)
LEMMA SentKeeps ==
    ASSUME ServicesAssumption, H!RedirectsInv, stage = "request", NEW status \in Statuses,
           UNCHANGED <<node, policy>>, sent' = Append(sent, H!Answered(next, status))
    PROVE  /\ H!SentTyped' \/ stage' = "prepare"
           /\ Len(sent') = Len(sent) + 1 /\ Len(sent) <= MaxRedirects
           /\ Last(sent') = H!Answered(next, status)
           /\ \A i \in DOMAIN sent' : i \in DOMAIN sent \/ sent'[i] = H!Answered(next, status)
           /\ (H!OnlyValidated /\ H!CredentialsStayHome /\ H!BodyOnlyRepeated)'
<1> DEFINE new == H!Answered(next, status)
           Sent == [url : DOMAIN Urls, method : H!Methods, credentials : BOOLEAN,
                    body : BOOLEAN, status : Nat]
<1>1. /\ sent \in Seq(Sent) /\ new \in Sent
      /\ new.url = next.url /\ new.credentials = next.credentials /\ new.body = next.body
      /\ new.status = status
  BY CallsAssumed DEF H!RedirectsInv, H!SentTyped, H!NextTyped, H!Answered
<1>2. H!NextSound /\ H!OnlyValidated /\ H!CredentialsStayHome /\ H!BodyOnlyRepeated
  BY DEF H!RedirectsInv
<1> HIDE DEF new, Sent
<1>3. /\ sent' \in Seq(Sent) /\ Len(sent') = Len(sent) + 1 /\ Len(sent) \in Nat
      /\ DOMAIN sent' = 1..(Len(sent) + 1) /\ DOMAIN sent = 1..Len(sent)
      /\ sent'[Len(sent) + 1] = new /\ \A i \in 1..Len(sent) : sent'[i] = sent[i]
  BY <1>1 DEF new
<1>4. H!SentTyped' \/ stage' = "prepare"
  BY <1>3 DEF H!SentTyped, Sent
<1>5. Last(sent') = new
  BY <1>3 DEF Last
<1>6. H!OnlyValidated'
  BY <1>1, <1>2, <1>3, Validation DEF H!OnlyValidated, H!NextSound
<1>7. H!CredentialsStayHome'
  <2> SUFFICES ASSUME NEW i \in DOMAIN sent', sent'[i].credentials
               PROVE  /\ Urls[sent'[i].url].host = Urls[node.url].host
                      /\ \A j \in 1..i : H!Secure(sent'[j].url) => H!Secure(sent'[i].url)
    BY DEF H!CredentialsStayHome, H!Secure
  <2>1. CASE i \in 1..Len(sent)
    <3>1. 1..i \subseteq 1..Len(sent)
      BY <1>3, <2>1
    <3> QED
      BY <1>2, <1>3, <2>1, <3>1 DEF H!CredentialsStayHome, H!Secure
  <2>2. CASE i = Len(sent) + 1
    <3>1. next.credentials
      BY <1>1, <1>3, <2>2
    <3>2. ASSUME NEW j \in 1..i PROVE H!Secure(sent'[j].url) => H!Secure(new.url)
      <4>1. j \in 1..Len(sent) \/ j = Len(sent) + 1
        BY <1>3, <2>2
      <4> QED
        BY <1>1, <1>2, <1>3, <3>1, <4>1 DEF H!NextSound
    <3> QED
      BY <1>1, <1>2, <1>3, <2>2, <3>1, <3>2 DEF H!NextSound
  <2> QED
    BY <1>3, <2>1, <2>2
<1>8. H!BodyOnlyRepeated'
  <2> SUFFICES ASSUME NEW i \in DOMAIN sent', i > 1, sent'[i].body, NEW j \in 1..(i - 1)
               PROVE  sent'[j].body /\ sent'[j].status \in {307, 308}
    BY DEF H!BodyOnlyRepeated
  <2>1. j \in 1..Len(sent)
    BY <1>3
  <2>2. CASE i \in 1..Len(sent)
    BY <1>2, <1>3, <2>1, <2>2 DEF H!BodyOnlyRepeated
  <2>3. CASE i = Len(sent) + 1
    BY <1>1, <1>2, <1>3, <2>1, <2>3 DEF H!NextSound
  <2> QED
    BY <1>3, <2>2, <2>3
<1> QED
  BY <1>2, <1>3, <1>4, <1>5, <1>6, <1>7, <1>8 DEF H!NextSound, new

(* A redirect that is followed carries on what it may.                       *)
LEMMA Follows ==
    ASSUME ServicesAssumption, H!RedirectsInv, stage = "request",
           NEW status \in Statuses, status \in H!Redirects, NEW location \in DOMAIN Urls,
           H!validate_outbound_url(location) = "ok",
           UNCHANGED <<node, policy>>, sent' = Append(sent, H!Answered(next, status)),
           next' = [url |-> location,
                    credentials |-> next.credentials /\ H!KeepsCredentials(next.url, location),
                    method |-> IF H!BecomesGet(status, next.method) THEN "GET" ELSE next.method,
                    body |-> next.body /\ ~H!BecomesGet(status, next.method)]
    PROVE  /\ H!NextTyped'
           /\ Len(sent) < MaxRedirects => H!NextSound'
<1> DEFINE new == H!Answered(next, status)
<1>1. /\ new.url = next.url /\ new.credentials = next.credentials /\ new.body = next.body
      /\ new.status = status
  BY DEF H!Answered
<1>2. H!NextSound /\ H!NextTyped /\ H!SentTyped
  BY DEF H!RedirectsInv
<1>3. /\ DOMAIN sent' = 1..(Len(sent) + 1) /\ DOMAIN sent = 1..Len(sent) /\ Len(sent) \in Nat
      /\ Len(sent') = Len(sent) + 1
      /\ sent'[Len(sent) + 1] = new /\ \A i \in 1..Len(sent) : sent'[i] = sent[i]
  BY <1>2 DEF H!SentTyped
<1> HIDE DEF new
<1>4. next'.body => next.body /\ status \in {307, 308} /\ next'.method = next.method
  <2>1. /\ next'.body <=> next.body /\ ~H!BecomesGet(status, next.method)
        /\ next'.method = IF H!BecomesGet(status, next.method) THEN "GET" ELSE next.method
    OBVIOUS
  <2>2. next.body /\ status \in {301, 302} => H!BecomesGet(status, next.method)
    BY <1>2 DEF H!BecomesGet, H!NextTyped
  <2>3. status = 303 => H!BecomesGet(status, next.method)
    BY DEF H!BecomesGet
  <2> QED
    BY <2>1, <2>2, <2>3 DEF H!Redirects
<1>5. H!NextTyped'
  <2>1. (next.credentials /\ H!KeepsCredentials(next.url, location)) \in BOOLEAN
    OBVIOUS
  <2>2. (next.body /\ ~H!BecomesGet(status, next.method)) \in BOOLEAN
    OBVIOUS
  <2>3. (IF H!BecomesGet(status, next.method) THEN "GET" ELSE next.method) \in H!Methods
    <3>1. next.method \in H!Methods
      BY <1>2 DEF H!NextTyped
    <3>2. "GET" \in H!Methods
      BY DEF H!Methods
    <3> QED
      BY <3>1, <3>2, Zenon
  <2>4. next' \in [url : DOMAIN Urls, method : H!Methods, credentials : BOOLEAN, body : BOOLEAN]
    BY <2>1, <2>2, <2>3
  <2> QED
    BY <1>2, <1>4, <2>4 DEF H!NextTyped
<1>6. ASSUME Len(sent) < MaxRedirects PROVE H!NextSound'
  <2>1. Len(sent') <= MaxRedirects
    BY <1>3, <1>6, CallsAssumed
  <2>2. next'.url = location /\ H!validate_outbound_url(location)' = "ok"
    BY Validation
  <2>3. ASSUME next'.credentials
        PROVE  /\ Urls[next'.url].host = Urls[node.url].host
               /\ \A i \in DOMAIN sent' : H!Secure(sent'[i].url) => H!Secure(next'.url)
    <3>1. /\ next.credentials /\ Urls[location].host = Urls[next.url].host
          /\ H!Secure(next.url) => H!Secure(location)
      BY <2>3 DEF H!KeepsCredentials, H!_same_origin, H!_is_https_redirect, H!Secure
    <3>2. /\ Urls[next.url].host = Urls[node.url].host
          /\ \A i \in DOMAIN sent : H!Secure(sent[i].url) => H!Secure(next.url)
      BY <1>2, <3>1 DEF H!NextSound
    <3>3. ASSUME NEW i \in DOMAIN sent', H!Secure(sent'[i].url) PROVE H!Secure(next'.url)
      <4>1. i \in DOMAIN sent \/ i = Len(sent) + 1
        BY <1>3
      <4> QED
        BY <1>1, <1>3, <3>1, <3>2, <3>3, <4>1
    <3> QED
      BY <3>1, <3>2, <3>3
  <2>4. ASSUME next'.body, NEW i \in DOMAIN sent'
        PROVE  sent'[i].body /\ sent'[i].status \in {307, 308}
    <3>1. i \in DOMAIN sent \/ i = Len(sent) + 1
      BY <1>3
    <3> QED
      BY <1>1, <1>2, <1>3, <1>4, <2>4, <3>1 DEF H!NextSound
  <2> QED
    BY <2>1, <2>2, <2>3, <2>4 DEF H!NextSound, H!Secure
<1> QED
  BY <1>5, <1>6

(* One request of the loop.                                                  *)
LEMMA HopKeeps ==
    ASSUME ServicesAssumption, H!RedirectsInv, NEW status \in Statuses,
           NEW location \in DOMAIN Urls \cup {NoLocation}, H!Hop(status, location)
    PROVE  H!RedirectsInv'
<1>1. /\ stage = "request" /\ UNCHANGED <<node, policy>>
      /\ sent' = Append(sent, H!Answered(next, status))
  BY DEF H!Hop
<1>2. /\ H!SentTyped' \/ stage' = "prepare"
      /\ Len(sent') = Len(sent) + 1 /\ Len(sent) <= MaxRedirects
      /\ Last(sent') = H!Answered(next, status)
      /\ (H!OnlyValidated /\ H!CredentialsStayHome /\ H!BodyOnlyRepeated)'
  BY <1>1, SentKeeps
<1>3. node \in Requests /\ H!NextTyped /\ H!TypeOK /\ Len(sent) \in Nat /\ outcome = "none"
  BY <1>1 DEF H!RedirectsInv, H!SentTyped, H!TypeOK
<1>4. Len(sent') <= MaxRedirects + 1 /\ sent' # <<>>
  BY <1>2, <1>3, CallsAssumed
<1>5. CASE status \notin H!Redirects \/ location = NoLocation
  <2>1. stage' = "done" /\ outcome' = H!Finished(status) /\ next' = next
    BY <1>5 DEF H!Hop, H!End
  <2>2. H!CompletedIsAnswered'
    <3>1. H!Last(sent').status = status
      BY <1>2 DEF H!Answered, Last, H!Last
    <3>2. node' = node /\ node.kind \in {"http", "webhook", "legacy"}
      BY <1>1, <1>3, CallsAssumed
    <3> QED
      BY <1>4, <2>1, <3>1, <3>2, Outcomes DEF H!CompletedIsAnswered
  <2>3. H!TypeOK' /\ H!NextSound' /\ H!NextTyped'
    BY <1>3, <1>4, <2>1, Outcomes, CallsAssumed DEF H!TypeOK, H!NextSound, H!NextTyped
  <2> QED
    BY <1>1, <1>2, <1>3, <2>1, <2>2, <2>3 DEF H!RedirectsInv
<1>6. CASE /\ status \in H!Redirects /\ location # NoLocation
           /\ H!validate_outbound_url(location) # "ok"
  <2>1. stage' = "done" /\ outcome' \in {"permission", "validation"} /\ next' = next
    BY <1>6, Validation DEF H!Hop, H!End
  <2>2. H!TypeOK' /\ H!NextSound' /\ H!NextTyped' /\ H!CompletedIsAnswered'
    BY <1>3, <1>4, <2>1 DEF H!TypeOK, H!NextSound, H!NextTyped, H!CompletedIsAnswered
  <2> QED
    BY <1>1, <1>2, <1>3, <2>1, <2>2 DEF H!RedirectsInv
<1>7. CASE /\ status \in H!Redirects /\ location # NoLocation
           /\ H!validate_outbound_url(location) = "ok"
  <2>1. H!NextTyped' /\ (Len(sent) < MaxRedirects => H!NextSound')
    BY <1>1, <1>7, Follows DEF H!Hop
  <2>2. \/ Len(sent) = MaxRedirects /\ stage' = "done" /\ outcome' = "permission"
        \/ Len(sent) < MaxRedirects /\ stage' = "request" /\ outcome' = "none"
    BY <1>1, <1>2, <1>3, <1>7, CallsAssumed DEF H!Hop, H!End
  <2>3. H!TypeOK' /\ H!NextSound' /\ H!CompletedIsAnswered'
    BY <1>4, <2>1, <2>2 DEF H!TypeOK, H!NextSound, H!CompletedIsAnswered
  <2> QED
    BY <1>1, <1>2, <1>3, <2>1, <2>2, <2>3 DEF H!RedirectsInv
<1> QED
  BY <1>5, <1>6, <1>7

(* Nothing of a node that calls out changes.                                 *)
LEMMA CallsUntouched ==
    ASSUME H!RedirectsInv, UNCHANGED calls PROVE H!RedirectsInv'
<1>1. (H!OnlyValidated /\ H!CredentialsStayHome /\ H!BodyOnlyRepeated)'
  BY Validation DEF calls, H!RedirectsInv, H!OnlyValidated, H!CredentialsStayHome,
                    H!BodyOnlyRepeated
<1>2. H!NextSound'
  BY Validation DEF calls, H!RedirectsInv, H!NextSound
<1> QED
  BY <1>1, <1>2 DEF calls, H!RedirectsInv, H!NextTyped, H!SentTyped, H!TypeOK,
                    H!CompletedIsAnswered, Last, H!Last

(* The redirects of the nodes that call out are sound, always                *)
(* (request_following_validated_redirects()): only validated addresses are   *)
(* called, credentials never leave their host nor encryption, a body is      *)
(* repeated along 307 and 308 alone, a completed node was answered.          *)
THEOREM RedirectsSafe == Spec => []RedirectsSound
<1> DEFINE Inv == picked = "http" => H!RedirectsInv
<1>1. Init => Inv
  BY RedirectsInit, ServicesAssumption DEF Init
<1>2. Inv /\ [Next]_vars => Inv'
  <2> SUFFICES ASSUME Inv, [Next]_vars, picked' = "http" PROVE H!RedirectsInv'
    OBVIOUS
  <2>1. CASE NextCalls
    BY <2>1, PrepareKeeps, HopKeeps, BreaksKeeps, ServicesAssumption DEF NextCalls, H!Next
  <2>2. CASE NextAi \/ NextDoor \/ NextLibrary \/ NextGraphs \/ UNCHANGED vars
    BY <2>2, CallsUntouched DEF NextAi, NextDoor, NextLibrary, NextGraphs, vars
  <2> QED
    BY <2>1, <2>2 DEF Next
<1>3. Inv => RedirectsSound
  BY DEF RedirectsSound, H!RedirectsInv
<1> QED
  BY <1>1, <1>2, <1>3, PTL DEF Spec

-----------------------------------------------------------------------------
(* Lists.                                                                    *)

(* A filtered list has the elements that are kept, and before each of them   *)
(* whatever is kept and stood before it.                                     *)
Filtered(A, s, keep, out) ==
    /\ out \in Seq(A) /\ DOMAIN out = 1..Len(out) /\ Len(out) \in Nat
    /\ \A i \in 1..Len(s) : s[i] \in keep => \E j \in 1..Len(out) : out[j] = s[i]
    /\ \A k \in 1..Len(out) :
          /\ out[k] \in keep
          /\ \E b \in 1..Len(s) :
                /\ s[b] = out[k]
                /\ \A a \in 1..(b - 1) : s[a] \in keep => \E j \in 1..(k - 1) : out[j] = s[a]

LEMMA FilterIs ==
    ASSUME NEW A, NEW s \in Seq(A), NEW keep
    PROVE  R!Filter(s, keep) \in Seq(A) /\ Filtered(A, s, keep, R!Filter(s, keep))
<1> DEFINE out == R!Filter(s, keep)
<1>1. out = LP!Filter(s, keep)
  BY DEF R!Filter, LP!Filter
<1>2. LP!Kept(A, s, keep, Len(s), out)
  BY <1>1, LP!FilterKeeps
<1> HIDE DEF out
<1>3. out \in Seq(A)
  BY <1>2 DEF LP!Kept
<1>4. DOMAIN out = 1..Len(out) /\ Len(out) \in Nat
  BY <1>3
<1>5. Filtered(A, s, keep, out)
  BY <1>2, <1>4 DEF LP!Kept, Filtered
<1> QED
  BY <1>3, <1>5 DEF out

(* An element is appended behind all others.                                 *)
LEMMA AppendIs ==
    ASSUME NEW A, NEW s \in Seq(A), NEW x \in A
    PROVE  /\ Append(s, x) \in Seq(A) /\ Append(s, x) # <<>>
           /\ DOMAIN Append(s, x) = 1..(Len(s) + 1) /\ Len(Append(s, x)) = Len(s) + 1
           /\ Len(s) \in Nat /\ DOMAIN s = 1..Len(s)
           /\ Append(s, x)[Len(s) + 1] = x
           /\ \A i \in 1..Len(s) : Append(s, x)[i] = s[i]
OBVIOUS

(* The first element is taken off.                                           *)
LEMMA TailIs ==
    ASSUME NEW A, NEW s \in Seq(A), s # <<>>
    PROVE  /\ Tail(s) \in Seq(A) /\ Len(s) \in Nat /\ Len(s) > 0
           /\ Len(Tail(s)) = Len(s) - 1 /\ DOMAIN Tail(s) = 1..(Len(s) - 1)
           /\ \A i \in 1..(Len(s) - 1) : Tail(s)[i] = s[i + 1]
OBVIOUS

-----------------------------------------------------------------------------
(* AI requests.                                                              *)

(* What is assumed of providers and limits.                                  *)
LEMMA ProvidersAssumed ==
    ServicesAssumption =>
        /\ Chain \in Seq(Providers) /\ HasKey \subseteq Providers /\ "mock" \in Providers
        /\ \A m \in DOMAIN Models : Models[m] \in Providers
        /\ \A plan \in Plans, c \in Clients : plan[c].provider \in Providers \cup {None}
        /\ None \notin Nat
        /\ Threshold \in Nat /\ Threshold > 0 /\ TraceSize \in Nat /\ TraceSize > 0
        /\ MaxTurns \in Nat /\ MaxTurns > 0
BY DEF ServicesAssumption, R!AiAssumption

(* resolve_chain() always has a provider to call.                            *)
LEMMA ChainThere ==
    ASSUME ServicesAssumption, NEW a, a.provider \in Providers \cup {None}
    PROVE  R!resolve_chain(a) \in Seq(Providers) /\ Len(R!resolve_chain(a)) \in Nat \ {0}
<1>1. R!Pinned(a) \in Seq(Providers) /\ (a.provider # None => Len(R!Pinned(a)) = 1)
  BY ProvidersAssumed DEF R!Pinned, R!ActiveModel
<1>2. R!Candidates(a) \in Seq(Providers) /\ R!Candidates(a) # <<>>
  <2> DEFINE more == IF a.fallback THEN R!Filter(Chain, Providers \ R!ToSet(R!Pinned(a)))
                     ELSE <<>>
  <2>1. more \in Seq(Providers)
    BY ProvidersAssumed, FilterIs
  <2>2. R!Candidates(a) = IF R!Pinned(a) \o more = <<>> THEN <<"mock">> ELSE R!Pinned(a) \o more
    BY DEF R!Candidates
  <2> HIDE DEF more
  <2>3. R!Pinned(a) \o more \in Seq(Providers) /\ <<"mock">> \in Seq(Providers)
    BY <1>1, <2>1, ProvidersAssumed
  <2>4. <<"mock">> # <<>>
    OBVIOUS
  <2> QED
    BY <2>2, <2>3, <2>4
<1>3. CASE R!Unfiltered(a)
  BY <1>1, <1>3 DEF R!resolve_chain, R!Unfiltered
<1>4. CASE ~R!Unfiltered(a)
  <2> DEFINE usable == R!Filter(R!Candidates(a), {p \in Providers :
                                   R!_provider_available(p) /\ R!is_available(p)})
  <2>1. usable \in Seq(Providers)
    BY <1>2, FilterIs
  <2>2. R!resolve_chain(a) = IF usable = <<>> THEN <<Head(R!Candidates(a))>> ELSE usable
    BY <1>4 DEF R!resolve_chain
  <2> HIDE DEF usable
  <2>3. Head(R!Candidates(a)) \in Providers
    BY <1>2
  <2>4. CASE usable = <<>>
    BY <2>2, <2>3, <2>4
  <2>5. CASE usable # <<>>
    BY <2>1, <2>2, <2>5
  <2> QED
    BY <2>4, <2>5
<1> QED
  BY <1>3, <1>4

(* A failure is booked: it is one more at the end of the book.               *)
LEMMA BookedFailure ==
    ASSUME ServicesAssumption, R!AiTyped, NEW p \in Providers, R!CircuitInStep(p),
           breaker'[p] = R!record_failure(breaker[p]),
           booked'[p] = R!LastFew(Append(booked[p], "failed"))
    PROVE  R!CircuitInStep(p)'
<1> DEFINE old == booked[p]
           longer == Append(old, "failed")
           new == booked'[p]
           e == breaker[p]
<1>1. /\ old \in Seq(R!Ends) /\ e.failures \in Nat
      /\ e.state \in {"closed", "open", "half_open"}
  BY DEF R!AiTyped
<1>2. PICK n \in Nat : n = Len(old)
  BY <1>1
<1>3. /\ longer \in Seq(R!Ends) /\ longer # <<>> /\ Len(longer) = n + 1
      /\ longer[n + 1] = "failed" /\ \A i \in 1..n : longer[i] = old[i]
  <2>1. "failed" \in R!Ends
    BY DEF R!Ends
  <2> QED
    BY <1>1, <1>2, <2>1, AppendIs
<1>4. PICK k \in Nat : k = e.failures
  BY <1>1
<1>5. Threshold \in Nat /\ Threshold > 0 /\ n <= Threshold
  BY <1>2, ProvidersAssumed DEF R!CircuitInStep
<1>6. /\ e.state = "closed" =>
            /\ k < Threshold /\ k <= n
            /\ \A i \in (n - k + 1)..n : old[i] = "failed"
            /\ n > k => old[n - k] = "ok"
      /\ e.state # "closed" => k >= Threshold /\ n = Threshold /\ \A i \in 1..n : old[i] = "failed"
  BY <1>2, <1>4 DEF R!CircuitInStep
<1> HIDE DEF longer
<1>7. PICK m \in Nat : /\ m = Len(new) /\ m <= Threshold
                       /\ m = n + 1 \/ (m = n /\ n = Threshold)
                       /\ \A i \in 1..m : new[i] = longer[i + (n + 1 - m)]
  <2>1. CASE n + 1 > Threshold
    <3>1. new = Tail(longer)
      BY <1>3, <2>1 DEF R!LastFew, longer
    <3>2. Len(Tail(longer)) = n /\ \A i \in 1..n : Tail(longer)[i] = longer[i + 1]
      BY <1>3
    <3> QED
      BY <1>5, <2>1, <3>1, <3>2, SMTT(30)
  <2>2. CASE n + 1 <= Threshold
    <3>1. new = longer
      BY <1>3, <1>5, <2>2 DEF R!LastFew, longer
    <3>2. n + 1 = Len(new) /\ n + 1 <= Threshold /\ n + 1 \in Nat
      BY <1>3, <2>2, <3>1
    <3>3. \A i \in 1..(n + 1) : new[i] = longer[i + (n + 1 - (n + 1))]
      BY <3>1
    <3> QED
      BY <3>2, <3>3
  <2>3. n + 1 > Threshold \/ n + 1 <= Threshold
    BY <1>5
  <2> HIDE DEF old, new
  <2> QED
    BY <2>1, <2>2, <2>3, Zenon
<1> HIDE DEF old, new
<1>8. CASE e.state = "closed" /\ k + 1 < Threshold
  <2>1. breaker'[p].state = "closed" /\ breaker'[p].failures = k + 1
    BY <1>1, <1>4, <1>5, <1>8 DEF R!record_failure, R!AiTyped
  <2>2. \A i \in (m - (k + 1) + 1)..m : new[i] = "failed"
    <3> SUFFICES ASSUME NEW i \in (m - (k + 1) + 1)..m PROVE new[i] = "failed"
      OBVIOUS
    <3>1. i \in 1..m /\ new[i] = longer[i + (n + 1 - m)]
      BY <1>5, <1>6, <1>7, <1>8
    <3>2. PICK j \in Int : j = i + (n + 1 - m)
      BY <3>1
    <3>3. j = n + 1 \/ (j \in (n - k + 1)..n /\ j \in 1..n)
      BY <1>5, <1>6, <1>7, <1>8, <3>1, <3>2
    <3> QED
      BY <1>3, <1>6, <1>8, <3>1, <3>2, <3>3
  <2>3. m > k + 1 => new[m - (k + 1)] = "ok"
    <3> SUFFICES ASSUME m > k + 1 PROVE new[m - (k + 1)] = "ok"
      OBVIOUS
    <3>1. /\ m - (k + 1) \in 1..m /\ (m - (k + 1)) + (n + 1 - m) = n - k
          /\ n > k /\ n - k \in 1..n
      BY <1>5, <1>6, <1>7, <1>8
    <3> QED
      BY <1>3, <1>6, <1>7, <1>8, <3>1
  <2>4. k + 1 <= m
    BY <1>5, <1>6, <1>7, <1>8
  <2> QED
    BY <1>7, <1>8, <2>1, <2>2, <2>3, <2>4 DEF R!CircuitInStep, new
<1>9. CASE e.state # "closed" \/ k + 1 >= Threshold
  <2>1. breaker'[p].state = "open" /\ breaker'[p].failures = k + 1
    BY <1>4, <1>5, <1>6, <1>9 DEF R!record_failure
  <2>2. m = Threshold /\ k + 1 >= Threshold
    BY <1>5, <1>6, <1>7, <1>9
  <2>3. ASSUME NEW i \in 1..m PROVE new[i] = "failed"
    <3>1. PICK j \in Int : j = i + (n + 1 - m) /\ new[i] = longer[j]
      BY <1>7
    <3>2. j = n + 1 \/ (j \in 1..n /\ (e.state = "closed" => j \in (n - k + 1)..n))
      BY <1>5, <1>6, <1>7, <1>9, <2>2, <3>1
    <3> QED
      BY <1>3, <1>6, <3>1, <3>2
  <2> QED
    BY <1>7, <2>1, <2>2, <2>3 DEF R!CircuitInStep, new
<1> QED
  BY <1>4, <1>5, <1>8, <1>9

(* A success closes the circuit.                                             *)
LEMMA BookedSuccess ==
    ASSUME ServicesAssumption, R!AiTyped, NEW p \in Providers, R!CircuitInStep(p),
           breaker'[p] = R!record_success(breaker[p]),
           booked'[p] = R!LastFew(Append(booked[p], "ok"))
    PROVE  R!CircuitInStep(p)'
<1> DEFINE longer == Append(booked[p], "ok")
           new == booked'[p]
<1>1. PICK n \in Nat : n = Len(booked[p]) /\ n <= Threshold
  BY DEF R!AiTyped, R!CircuitInStep
<1>2. /\ longer \in Seq(R!Ends) /\ longer # <<>> /\ Len(longer) = n + 1
      /\ longer[n + 1] = "ok"
  <2>1. "ok" \in R!Ends /\ booked[p] \in Seq(R!Ends)
    BY DEF R!Ends, R!AiTyped
  <2> QED
    BY <1>1, <2>1, AppendIs
<1>3. Threshold \in Nat /\ Threshold > 0
  BY ProvidersAssumed
<1>4. PICK m \in Nat : m = Len(new) /\ m <= Threshold /\ m > 0 /\ new[m] = "ok"
  <2>1. CASE n + 1 > Threshold
    <3>1. new = Tail(longer)
      BY <1>2, <2>1 DEF R!LastFew
    <3>2. Len(Tail(longer)) = n /\ \A i \in 1..n : Tail(longer)[i] = longer[i + 1]
      BY <1>2
    <3>3. n \in 1..n /\ n = Threshold
      BY <1>1, <1>3, <2>1
    <3> HIDE DEF longer, new
    <3>4. Len(new) = n /\ new[n] = "ok"
      BY <1>2, <3>1, <3>2, <3>3
    <3> QED
      BY <1>3, <3>3, <3>4
  <2>2. CASE n + 1 <= Threshold
    <3>1. new = longer
      BY <1>2, <1>3, <2>2 DEF R!LastFew
    <3> HIDE DEF longer
    <3> QED
      BY <1>2, <2>2, <3>1
  <2> QED
    BY <1>3, <2>1, <2>2
<1>5. breaker'[p].state = "closed" /\ breaker'[p].failures = 0
  BY DEF R!record_success, R!BreakerEntry
<1> HIDE DEF new, longer
<1> QED
  BY <1>3, <1>4, <1>5 DEF R!CircuitInStep, new

(* The books of a call that ends: its provider's circuit and no other.       *)
LEMMA CircuitsKeep ==
    ASSUME ServicesAssumption, R!AiTyped, \A p \in Providers : R!CircuitInStep(p), NEW q,
           \/ /\ breaker' = [breaker EXCEPT ![q] = R!record_success(breaker[q])]
              /\ booked' = [booked EXCEPT ![q] = R!LastFew(Append(booked[q], "ok"))]
           \/ /\ breaker' = [breaker EXCEPT ![q] = R!record_failure(breaker[q])]
              /\ booked' = [booked EXCEPT ![q] = R!LastFew(Append(booked[q], "failed"))]
    PROVE  \A p \in Providers : R!CircuitInStep(p)'
<1> SUFFICES ASSUME NEW p \in Providers PROVE R!CircuitInStep(p)'
  OBVIOUS
<1>1. CASE p # q
  <2>1. breaker'[p] = breaker[p] /\ booked'[p] = booked[p]
    BY <1>1 DEF R!AiTyped
  <2> QED
    BY <2>1 DEF R!CircuitInStep
<1>2. CASE p = q
  <2>1. \/ /\ breaker'[p] = R!record_success(breaker[p])
           /\ booked'[p] = R!LastFew(Append(booked[p], "ok"))
        \/ /\ breaker'[p] = R!record_failure(breaker[p])
           /\ booked'[p] = R!LastFew(Append(booked[p], "failed"))
    BY <1>2 DEF R!AiTyped
  <2> QED
    BY <2>1, BookedSuccess, BookedFailure
<1> QED
  BY <1>1, <1>2

(* The books stay well typed.                                                *)
LEMMA BooksTyped ==
    ASSUME ServicesAssumption, R!AiTyped, NEW q \in Providers,
           \/ /\ breaker' = [breaker EXCEPT ![q] = R!record_success(breaker[q])]
              /\ booked' = [booked EXCEPT ![q] = R!LastFew(Append(booked[q], "ok"))]
           \/ /\ breaker' = [breaker EXCEPT ![q] = R!record_failure(breaker[q])]
              /\ booked' = [booked EXCEPT ![q] = R!LastFew(Append(booked[q], "failed"))]
    PROVE  /\ breaker' \in [Providers -> [state : {"closed", "open", "half_open"},
                                          failures : Nat, opened : Nat \cup {None}]]
           /\ booked' \in [Providers -> Seq(R!Ends)]
<1> DEFINE Entries == [state : {"closed", "open", "half_open"}, failures : Nat,
                       opened : Nat \cup {None}]
<1>1. breaker \in [Providers -> Entries] /\ clock \in Nat /\ booked \in [Providers -> Seq(R!Ends)]
  BY DEF R!AiTyped
<1>2. R!record_success(breaker[q]) \in Entries
  BY DEF R!record_success, R!BreakerEntry
<1>3. R!record_failure(breaker[q]) \in Entries
  <2>1. breaker[q] \in Entries /\ breaker[q].failures + 1 \in Nat
    BY <1>1
  <2>2. [state |-> "open", failures |-> breaker[q].failures + 1, opened |-> clock] \in Entries
    BY <1>1, <2>1
  <2>3. [breaker[q] EXCEPT !.failures = @ + 1] \in Entries
    BY <2>1
  <2> QED
    BY <2>2, <2>3 DEF R!record_failure
<1>4. \A b \in R!Ends : R!LastFew(Append(booked[q], b)) \in Seq(R!Ends)
  <2> SUFFICES ASSUME NEW b \in R!Ends PROVE R!LastFew(Append(booked[q], b)) \in Seq(R!Ends)
    OBVIOUS
  <2>0. booked[q] \in Seq(R!Ends)
    BY <1>1
  <2>1. Append(booked[q], b) \in Seq(R!Ends) /\ Append(booked[q], b) # <<>>
    BY <2>0, AppendIs
  <2>2. Tail(Append(booked[q], b)) \in Seq(R!Ends)
    BY <2>1
  <2> QED
    BY <2>1, <2>2 DEF R!LastFew
<1> HIDE DEF Entries
<1>5. breaker' \in [Providers -> Entries]
  BY <1>1, <1>2, <1>3
<1>6. booked' \in [Providers -> Seq(R!Ends)]
  <2>1. PICK b \in R!Ends : booked' = [booked EXCEPT ![q] = R!LastFew(Append(booked[q], b))]
    BY DEF R!Ends
  <2>2. PICK new \in Seq(R!Ends) : booked' = [booked EXCEPT ![q] = new]
    BY <1>4, <2>1
  <2> QED
    BY <1>1, <2>2
<1> QED
  BY <1>5, <1>6 DEF Entries

(* The ring takes a trace, and gives the oldest away when it is full.        *)
Traces == [id : Nat, chain : Seq(Providers), attempts : Seq(Providers \X R!Ends), ended : R!Ends]

LEMMA TracesKeep ==
    ASSUME R!TracesInStep, NEW trace \in Traces, R!TraceInStep(trace), R!Finish(trace)
    PROVE  R!TracesInStep'
<1> DEFINE all == Append(traces, trace)
<1>1. traces \in Seq(Traces) /\ \A i \in DOMAIN traces : R!TraceInStep(traces[i])
  BY DEF R!TracesInStep, Traces
<1>2. /\ all \in Seq(Traces) /\ all # <<>> /\ DOMAIN all = 1..Len(all)
      /\ \A i \in DOMAIN all : R!TraceInStep(all[i])
  <2>1. /\ all \in Seq(Traces) /\ all # <<>> /\ DOMAIN all = 1..(Len(traces) + 1)
        /\ all[Len(traces) + 1] = trace /\ \A i \in 1..Len(traces) : all[i] = traces[i]
        /\ DOMAIN traces = 1..Len(traces) /\ Len(traces) \in Nat /\ Len(all) = Len(traces) + 1
    BY <1>1, AppendIs
  <2> HIDE DEF all
  <2>2. ASSUME NEW i \in DOMAIN all PROVE R!TraceInStep(all[i])
    <3>1. i \in 1..Len(traces) \/ i = Len(traces) + 1
      BY <2>1
    <3> QED
      BY <1>1, <2>1, <3>1
  <2> QED
    BY <2>1, <2>2
<1>3. traces' = IF Len(all) > TraceSize THEN Tail(all) ELSE all
  BY DEF R!Finish
<1> HIDE DEF all
<1>4. /\ Tail(all) \in Seq(Traces) /\ Len(all) \in Nat
      /\ DOMAIN Tail(all) = 1..(Len(all) - 1)
      /\ \A i \in 1..(Len(all) - 1) : Tail(all)[i] = all[i + 1]
  BY <1>2, TailIs
<1>5. \A i \in DOMAIN Tail(all) : R!TraceInStep(Tail(all)[i])
  <2> SUFFICES ASSUME NEW i \in DOMAIN Tail(all) PROVE R!TraceInStep(Tail(all)[i])
    OBVIOUS
  <2>1. i + 1 \in DOMAIN all /\ Tail(all)[i] = all[i + 1]
    BY <1>2, <1>4
  <2> QED
    BY <1>2, <2>1
<1>6. traces' \in Seq(Traces) /\ \A i \in DOMAIN traces' : R!TraceInStep(traces'[i])
  BY <1>2, <1>3, <1>4, <1>5
<1> QED
  BY <1>6 DEF R!TracesInStep, R!TraceInStep, Traces

(* What the attempts of a request are once the provider it calls has ended.  *)
LEMMA TriedIs ==
    ASSUME NEW c \in Clients, R!CallInStep(c), R!At(c, "provider"), NEW end \in R!Ends
    PROVE  /\ R!Calling(c) \in Providers
           /\ call[c].id \in 1..asked /\ call[c].chain \in Seq(Providers)
           /\ call[c].index \in Nat /\ call[c].index >= 1 /\ call[c].index <= Len(call[c].chain)
           /\ R!Tried(c, end) \in Seq(Providers \X R!Ends)
           /\ Len(R!Tried(c, end)) = call[c].index
           /\ \A k \in 1..(call[c].index - 1) :
                 R!Tried(c, end)[k] = <<call[c].chain[k], "failed">>
           /\ R!Tried(c, end)[call[c].index] = <<call[c].chain[call[c].index], end>>
<1>1. /\ call[c].id \in 1..asked /\ call[c].chain \in Seq(Providers)
      /\ call[c].index \in 1..Len(call[c].chain)
      /\ call[c].attempts \in Seq(Providers \X R!Ends)
      /\ Len(call[c].attempts) = call[c].index - 1
      /\ \A k \in 1..(call[c].index - 1) : call[c].attempts[k] = <<call[c].chain[k], "failed">>
  BY DEF R!CallInStep
<1>2. R!Calling(c) \in Providers /\ R!Calling(c) = call[c].chain[call[c].index]
  BY <1>1 DEF R!Calling
<1>3. <<R!Calling(c), end>> \in Providers \X R!Ends
  BY <1>2
<1>4. PICK n \in Nat : n = call[c].index /\ n >= 1 /\ n <= Len(call[c].chain)
  BY <1>1
<1>5. /\ R!Tried(c, end) \in Seq(Providers \X R!Ends)
      /\ Len(R!Tried(c, end)) = n
      /\ R!Tried(c, end)[n] = <<R!Calling(c), end>>
      /\ \A k \in 1..(n - 1) : R!Tried(c, end)[k] = call[c].attempts[k]
  BY <1>1, <1>3, <1>4, AppendIs DEF R!Tried
<1> QED
  BY <1>1, <1>2, <1>4, <1>5

(* The trace of a request that ends, with its last attempt, tells it all.    *)
LEMMA TraceOf ==
    ASSUME NEW c \in Clients, R!CallInStep(c), R!At(c, "provider"), asked \in Nat,
           NEW end \in R!Ends, end = "failed" => ~(call[c].index < Len(call[c].chain))
    PROVE  /\ R!Trace(c, R!Tried(c, end), end) \in Traces
           /\ R!TraceInStep(R!Trace(c, R!Tried(c, end), end))
<1> DEFINE t == R!Trace(c, R!Tried(c, end), end)
<1>1. /\ t.id = call[c].id /\ t.chain = call[c].chain /\ t.attempts = R!Tried(c, end)
      /\ t.ended = end
      /\ t = [id |-> t.id, chain |-> t.chain, attempts |-> t.attempts, ended |-> t.ended]
  BY DEF R!Trace
<1> HIDE DEF t
<1>2. t \in Traces
  <2>1. t.id \in Nat /\ t.chain \in Seq(Providers) /\ t.attempts \in Seq(Providers \X R!Ends)
    BY <1>1, TriedIs
  <2> QED
    BY <1>1, <2>1 DEF Traces
<1>3. R!TraceInStep(t)
  <2>1. PICK n \in Nat : n = call[c].index /\ n >= 1 /\ n <= Len(t.chain)
    BY <1>1, TriedIs
  <2>2. /\ Len(t.attempts) = n /\ Len(t.chain) \in Nat
        /\ \A k \in 1..(n - 1) : t.attempts[k] = <<t.chain[k], "failed">>
        /\ t.attempts[n] = <<t.chain[n], end>>
    BY <1>1, <2>1, TriedIs
  <2>3. \A k \in 1..n : k \in 1..(n - 1) \/ k = n
    BY <2>1
  <2>4. ~(n < Len(t.chain)) \/ end # "failed"
    BY <1>1, <2>1
  <2> QED
    BY <1>1, <2>1, <2>2, <2>3, <2>4 DEF R!TraceInStep
<1> QED
  BY <1>2, <1>3 DEF t

-----------------------------------------------------------------------------
(* The memory of a chat node.                                                *)

Lines == {"user", "assistant"} \X Nat

(* What is dropped is the oldest line, once there is one too many.           *)
LEMMA WindowIs ==
    ASSUME ServicesAssumption, NEW h \in Seq(Lines), Len(h) <= 2 * MaxTurns + 1
    PROVE  /\ Len(h) <= 2 * MaxTurns => R!Window(h) = h
           /\ Len(h) = 2 * MaxTurns + 1 =>
                 /\ R!Window(h) \in Seq(Lines) /\ Len(R!Window(h)) = 2 * MaxTurns
                 /\ \A i \in 1..(2 * MaxTurns) : R!Window(h)[i] = h[i + 1]
<1>1. PICK limit \in Nat : limit = 2 * MaxTurns /\ limit = MaxTurns * 2
  BY ProvidersAssumed
<1>2. PICK n \in Nat : n = Len(h)
  OBVIOUS
<1>3. R!Window(h) = IF n > limit THEN SubSeq(h, n - limit + 1, n) ELSE h
  BY <1>1, <1>2 DEF R!Window
<1>4. ASSUME n = limit + 1
      PROVE  /\ SubSeq(h, 2, n) \in Seq(Lines) /\ Len(SubSeq(h, 2, n)) = limit
             /\ \A i \in 1..limit : SubSeq(h, 2, n)[i] = h[i + 1]
  <2>1. \A i \in 2..n : h[i] \in Lines
    BY <1>2
  <2>2. /\ SubSeq(h, 2, n) \in Seq(Lines)
        /\ Len(SubSeq(h, 2, n)) = IF 2 <= n THEN n - 2 + 1 ELSE 0
        /\ \A i \in 1..(n - 2 + 1) : SubSeq(h, 2, n)[i] = h[2 + i - 1]
    BY <2>1, SubSeqProperties
  <2> QED
    BY <1>4, <2>2
<1>5. n <= limit => R!Window(h) = h
  BY <1>3
<1>6. n = limit + 1 => R!Window(h) = SubSeq(h, 2, n)
  BY <1>3
<1> QED
  BY <1>1, <1>2, <1>4, <1>5, <1>6

(* A prompt and its answer are remembered as a pair, behind the others.      *)
LEMMA PairRemembered ==
    ASSUME ServicesAssumption, NEW h, R!MemoryInStep(h), NEW id \in Nat
    PROVE  R!MemoryInStep(R!Window(Append(R!Window(Append(h, <<"user", id>>)),
                                          <<"assistant", id>>)))
<1> DEFINE one == Append(h, <<"user", id>>)
           kept == R!Window(one)
           two == Append(kept, <<"assistant", id>>)
           new == R!Window(two)
<1>1. PICK limit \in Nat : limit = 2 * MaxTurns /\ limit % 2 = 0 /\ limit > 0
  BY ProvidersAssumed
<1>2. h \in Seq(Lines)
  BY DEF R!MemoryInStep, Lines
<1>3. PICK n \in Nat : n = Len(h) /\ n <= limit /\ n % 2 = 0
  BY <1>1, <1>2 DEF R!MemoryInStep
<1>4. \A i \in 1..n : IF i % 2 = 1 THEN h[i][1] = "user"
                      ELSE h[i] = <<"assistant", h[i - 1][2]>>
  <2>1. DOMAIN h = 1..n
    BY <1>2, <1>3
  <2> QED
    BY <2>1 DEF R!MemoryInStep
<1>5. /\ one \in Seq(Lines) /\ Len(one) = n + 1 /\ one[n + 1] = <<"user", id>>
      /\ \A i \in 1..n : one[i] = h[i]
  BY <1>2, <1>3, AppendIs DEF Lines
<1> HIDE DEF one
<1>6. CASE n < limit
  <2>1. n + 2 <= limit
    BY <1>1, <1>3, <1>6
  <2>2. kept = one
    BY <1>1, <1>5, <2>1, WindowIs
  <2>3. /\ two \in Seq(Lines) /\ Len(two) = n + 2 /\ two[n + 2] = <<"assistant", id>>
        /\ two[n + 1] = <<"user", id>> /\ \A i \in 1..n : two[i] = h[i]
    BY <1>5, <2>2, AppendIs DEF Lines
  <2> HIDE DEF two
  <2>4. new = two
    BY <1>1, <2>1, <2>3, WindowIs
  <2>5. \A i \in 1..(n + 2) : IF i % 2 = 1 THEN two[i][1] = "user"
                              ELSE two[i] = <<"assistant", two[i - 1][2]>>
    <3> SUFFICES ASSUME NEW i \in 1..(n + 2)
                 PROVE  IF i % 2 = 1 THEN two[i][1] = "user"
                        ELSE two[i] = <<"assistant", two[i - 1][2]>>
      OBVIOUS
    <3>1. CASE i \in 1..n
      <4>1. i % 2 # 1 => i - 1 \in 1..n
        BY <3>1
      <4> QED
        BY <1>4, <2>3, <3>1, <4>1
    <3>2. CASE i = n + 1
      <4>1. i % 2 = 1
        BY <1>3, <3>2
      <4> QED
        BY <2>3, <3>2, <4>1
    <3>3. CASE i = n + 2
      <4>1. i % 2 # 1 /\ i - 1 = n + 1
        BY <1>3, <3>3
      <4> QED
        BY <2>3, <3>3, <4>1
    <3> QED
      BY <3>1, <3>2, <3>3
  <2>6. (n + 2) % 2 = 0
    BY <1>3
  <2>7. DOMAIN two = 1..(n + 2)
    BY <2>3
  <2>8. R!MemoryInStep(two)
    <3> HIDE DEF new
    <3> QED
      BY <1>1, <2>1, <2>3, <2>5, <2>6, <2>7 DEF R!MemoryInStep, Lines
  <2> QED
    BY <2>4, <2>8 DEF two, one
<1>7. CASE n = limit
  <2>1. /\ kept \in Seq(Lines) /\ Len(kept) = n /\ \A i \in 1..n : kept[i] = one[i + 1]
    BY <1>1, <1>5, <1>7, WindowIs
  <2> HIDE DEF kept
  <2>2. /\ two \in Seq(Lines) /\ Len(two) = n + 1 /\ two[n + 1] = <<"assistant", id>>
        /\ \A i \in 1..n : two[i] = kept[i]
    BY <2>1, AppendIs DEF Lines
  <2> HIDE DEF two
  <2>3. /\ new \in Seq(Lines) /\ Len(new) = n /\ \A i \in 1..n : new[i] = two[i + 1]
    BY <1>1, <1>7, <2>2, WindowIs
  <2> HIDE DEF new
  <2>4. \A i \in 1..(n - 2) : new[i] = h[i + 2]
    <3> SUFFICES ASSUME NEW i \in 1..(n - 2) PROVE new[i] = h[i + 2]
      OBVIOUS
    <3>1. i \in 1..n /\ i + 1 \in 1..n /\ i + 2 \in 1..n /\ (i + 1) + 1 = i + 2
      OBVIOUS
    <3>2. new[i] = two[i + 1] /\ two[i + 1] = kept[i + 1]
      BY <2>2, <2>3, <3>1
    <3>3. kept[i + 1] = one[i + 2] /\ one[i + 2] = h[i + 2]
      BY <1>5, <2>1, <3>1
    <3> QED
      BY <3>2, <3>3
  <2>5. new[n] = <<"assistant", id>> /\ new[n - 1] = <<"user", id>> /\ n >= 2
    <3>1. n >= 2 /\ n - 1 \in 1..n /\ n \in 1..n
      BY <1>1, <1>7
    <3> QED
      BY <1>5, <2>1, <2>2, <2>3, <3>1
  <2>6. \A i \in 1..n : IF i % 2 = 1 THEN new[i][1] = "user"
                        ELSE new[i] = <<"assistant", new[i - 1][2]>>
    <3> SUFFICES ASSUME NEW i \in 1..n
                 PROVE  IF i % 2 = 1 THEN new[i][1] = "user"
                        ELSE new[i] = <<"assistant", new[i - 1][2]>>
      OBVIOUS
    <3>1. CASE i \in 1..(n - 2)
      <4>1. i + 2 \in 1..n /\ (i + 2) % 2 = i % 2
        BY <3>1
      <4>2. i % 2 # 1 => i - 1 \in 1..(n - 2) /\ (i - 1) + 2 = (i + 2) - 1
        BY <3>1
      <4> QED
        BY <1>4, <2>4, <3>1, <4>1, <4>2
    <3>2. CASE i = n - 1
      <4>1. i % 2 = 1
        BY <1>3, <2>5, <3>2
      <4> QED
        BY <2>5, <3>2, <4>1
    <3>3. CASE i = n
      <4>1. i % 2 # 1 /\ i - 1 = n - 1
        BY <1>3, <3>3
      <4> QED
        BY <2>5, <3>3, <4>1
    <3> QED
      BY <3>1, <3>2, <3>3
  <2>7. DOMAIN new = 1..n
    BY <2>3
  <2>8. R!MemoryInStep(new)
    BY <1>1, <1>3, <1>7, <2>3, <2>6, <2>7 DEF R!MemoryInStep, Lines
  <2> QED
    BY <2>8 DEF new, two, kept, one
<1> QED
  BY <1>1, <1>3, <1>6, <1>7

-----------------------------------------------------------------------------
(* Conversations and the requests under way.                                 *)

(* The question id of a conversation is stored.                              *)
Question(rows, conv, id) == \E j \in DOMAIN rows : rows[j] = R!Row(conv, "user", id)

(* What a step leaves alone is as it was.                                    *)
LEMMA LeftAlone ==
    ASSUME R!AiInv
    PROVE  /\ UNCHANGED <<breaker, booked>> => \A p \in Providers : R!CircuitInStep(p)'
           /\ UNCHANGED traces => R!TracesInStep'
           /\ UNCHANGED memory => (\A k \in DOMAIN memory : R!MemoryInStep(memory[k]))'
           /\ UNCHANGED <<messages, conversations>> => R!NoOrphans'
<1>1. UNCHANGED <<breaker, booked>> => \A p \in Providers : R!CircuitInStep(p)'
  BY DEF R!AiInv, R!CircuitInStep
<1>2. UNCHANGED traces => R!TracesInStep'
  BY DEF R!AiInv, R!TracesInStep, R!TraceInStep
<1>3. UNCHANGED memory => (\A k \in DOMAIN memory : R!MemoryInStep(memory[k]))'
  BY DEF R!AiInv, R!MemoryInStep
<1>4. UNCHANGED <<messages, conversations>> => R!NoOrphans'
  BY DEF R!AiInv, R!NoOrphans
<1> QED
  BY <1>1, <1>2, <1>3, <1>4

(* A request that is not served in a step stays in step.                     *)
LEMMA CallKeeps ==
    ASSUME R!AiInv, NEW d \in Clients, call'[d] = call[d], ask' = ask,
           asked' \in Nat, asked' >= asked, conversations' \subseteq conversations,
           \A conv \in conversations' : \A id :
                 Question(messages, conv, id) => Question(messages', conv, id)
    PROVE  R!CallInStep(d)'
<1>1. R!CallInStep(d) /\ asked \in Nat
  BY DEF R!AiInv, R!AiTyped
<1>2. 1..asked \subseteq 1..asked'
  BY <1>1
<1>3. R!At(d, "provider")' => R!At(d, "provider")
  BY DEF R!At
<1>4. ASSUME R!At(d, "thinking")', ask[d].conv \in conversations'
      PROVE  Question(messages', ask[d].conv, call'[d].id)
  <2>1. Question(messages, ask[d].conv, call[d].id)
    BY <1>1, <1>4 DEF R!CallInStep, R!At, Question
  <2> QED
    BY <1>4, <2>1 DEF Question
<1>5. /\ call'[d].at \in {"idle", "provider", "question", "thinking", "adding"}
      /\ call'[d].at \in {"question", "thinking"} => call'[d].id \in 1..asked'
  BY <1>1, <1>2 DEF R!CallInStep
<1>6. R!At(d, "provider")' =>
        /\ call'[d].id \in 1..asked'
        /\ call'[d].chain \in Seq(Providers) /\ call'[d].index \in 1..Len(call'[d].chain)
        /\ call'[d].attempts \in Seq(Providers \X R!Ends)
        /\ Len(call'[d].attempts) = call'[d].index - 1
        /\ \A k \in 1..(call'[d].index - 1) :
              call'[d].attempts[k] = <<call'[d].chain[k], "failed">>
  BY <1>1, <1>2, <1>3 DEF R!CallInStep
<1> QED
  BY <1>4, <1>5, <1>6 DEF R!CallInStep, Question

(* A message is stored, an answer behind its question.                       *)
LEMMA InsertKeeps ==
    ASSUME R!AiInv, NEW c \in Clients, NEW role, NEW id, R!Insert(c, role, id),
           role \in {"user", "assistant"} \cup {a.role : a \in R!Asks},
           id \in Nat \cup {None}, ask[c].conv \in conversations,
           role = "assistant" /\ id # None => Question(messages, ask[c].conv, id),
           conversations' = conversations
    PROVE  /\ messages' \in Seq(R!Rows) /\ R!NoOrphans'
           /\ \A conv, i : Question(messages, conv, i) => Question(messages', conv, i)
           /\ role = "user" => Question(messages', ask[c].conv, id)
<1> DEFINE row == R!Row(ask[c].conv, role, id)
<1>1. /\ row.conv = ask[c].conv /\ row.role = role /\ row.id = id
      /\ row = [conv |-> row.conv, role |-> row.role, id |-> row.id]
  BY DEF R!Row
<1> HIDE DEF row
<1>2. row \in R!Rows
  <2>1. ask[c] \in R!Asks
    BY DEF R!AiInv, R!AiTyped, R!Asks
  <2> QED
    BY <1>1, <2>1 DEF R!Rows
<1>3. messages \in Seq(R!Rows) /\ messages' = Append(messages, row)
  BY DEF R!AiInv, R!AiTyped, R!Insert, row
<1>4. /\ messages' \in Seq(R!Rows) /\ DOMAIN messages' = 1..(Len(messages) + 1)
      /\ Len(messages) \in Nat /\ DOMAIN messages = 1..Len(messages)
      /\ messages'[Len(messages) + 1] = row
      /\ \A i \in 1..Len(messages) : messages'[i] = messages[i]
  BY <1>2, <1>3, AppendIs
<1>5. R!NoOrphans'
  <2> SUFFICES ASSUME NEW i \in DOMAIN messages'
               PROVE  /\ messages'[i].conv \in conversations'
                      /\ messages'[i].role = "assistant" /\ messages'[i].id # None =>
                           \E j \in 1..(i - 1) :
                              messages'[j] = R!Row(messages'[i].conv, "user", messages'[i].id)
    BY DEF R!NoOrphans, R!Row
  <2>1. CASE i \in 1..Len(messages)
    <3>1. /\ messages[i].conv \in conversations
          /\ messages[i].role = "assistant" /\ messages[i].id # None =>
               \E j \in 1..(i - 1) :
                  messages[j] = R!Row(messages[i].conv, "user", messages[i].id)
      BY <1>4, <2>1 DEF R!AiInv, R!NoOrphans
    <3>2. \A j \in 1..(i - 1) : j \in 1..Len(messages)
      BY <1>4, <2>1
    <3> QED
      BY <1>4, <2>1, <3>1, <3>2
  <2>2. CASE i = Len(messages) + 1
    BY <1>1, <1>4, <2>2 DEF Question
  <2> QED
    BY <1>4, <2>1, <2>2
<1>6. \A conv, j : Question(messages, conv, j) => Question(messages', conv, j)
  <2> SUFFICES ASSUME NEW conv, NEW j, Question(messages, conv, j) 
               PROVE  Question(messages', conv, j)
    OBVIOUS
  <2>1. PICK k \in DOMAIN messages : messages[k] = R!Row(conv, "user", j)
    BY DEF Question
  <2>2. k \in DOMAIN messages' /\ messages'[k] = R!Row(conv, "user", j)
    BY <1>4, <2>1
  <2> QED
    BY <2>2 DEF Question, R!Row
<1>7. role = "user" => Question(messages', ask[c].conv, id)
  <2>1. row = R!Row(ask[c].conv, role, id) /\ Len(messages) + 1 \in DOMAIN messages'
    BY <1>4 DEF row
  <2> QED
    BY <1>4, <2>1 DEF Question
<1> QED
  BY <1>4, <1>5, <1>6, <1>7

(* A conversation is deleted with its messages; of the others every message  *)
(* stays, each behind the same ones.                                         *)
LEMMA DeleteKeeps ==
    ASSUME R!AiInv, NEW c \in Clients, R!DeleteConversation(c)
    PROVE  /\ messages' \in Seq(R!Rows) /\ R!NoOrphans'
           /\ \A conv \in conversations' : \A id :
                 Question(messages, conv, id) => Question(messages', conv, id)
<1> DEFINE gone == ask[c].conv
           keep == {m \in R!ToSet(messages) : m.conv # gone}
           out == R!Filter(messages, keep)
<1>1. messages' = out /\ conversations' = conversations \ {gone}
  BY DEF R!DeleteConversation
<1>2. messages \in Seq(R!Rows) /\ DOMAIN messages = 1..Len(messages) /\ Len(messages) \in Nat
  BY DEF R!AiInv, R!AiTyped
<1>3. \A i \in 1..Len(messages) : messages[i] \in keep <=> messages[i].conv # gone
  BY <1>2 DEF R!ToSet
<1>4. \A m : m \in keep => m.conv # gone
  OBVIOUS
<1> HIDE DEF keep, gone
<1>5. Filtered(R!Rows, messages, keep, out)
  BY <1>2, FilterIs
<1> HIDE DEF out
<1>6. \A i \in DOMAIN messages :
         /\ messages[i].conv \in conversations
         /\ messages[i].role = "assistant" /\ messages[i].id # None =>
               \E j \in 1..(i - 1) :
                  messages[j] = R!Row(messages[i].conv, "user", messages[i].id)
  BY DEF R!AiInv, R!NoOrphans
<1>7. ASSUME NEW k \in 1..Len(out)
      PROVE  /\ out[k].conv \in conversations'
             /\ out[k].role = "assistant" /\ out[k].id # None =>
                  \E j \in 1..(k - 1) : out[j] = R!Row(out[k].conv, "user", out[k].id)
  <2>1. PICK b \in 1..Len(messages) :
          /\ messages[b] = out[k]
          /\ \A a \in 1..(b - 1) : messages[a] \in keep =>
                \E j \in 1..(k - 1) : out[j] = messages[a]
    BY <1>5 DEF Filtered
  <2>2. out[k].conv # gone /\ out[k].conv \in conversations
    BY <1>2, <1>4, <1>5, <1>6, <2>1 DEF Filtered
  <2>3. ASSUME out[k].role = "assistant", out[k].id # None
        PROVE  \E j \in 1..(k - 1) : out[j] = R!Row(out[k].conv, "user", out[k].id)
    <3>1. PICK a \in 1..(b - 1) : messages[a] = R!Row(out[k].conv, "user", out[k].id)
      BY <1>2, <1>6, <2>1, <2>3
    <3>2. a \in 1..Len(messages) /\ messages[a].conv = out[k].conv
      BY <1>2, <3>1 DEF R!Row
    <3>3. messages[a] \in keep
      BY <1>3, <2>2, <3>2
    <3> QED
      BY <2>1, <3>1, <3>3
  <2> QED
    BY <1>1, <2>2, <2>3
<1>8. R!NoOrphans'
  BY <1>1, <1>5, <1>7 DEF Filtered, R!NoOrphans, R!Row
<1>9. ASSUME NEW conv \in conversations', NEW id, Question(messages, conv, id)
      PROVE  Question(messages', conv, id)
  <2>1. PICK i \in 1..Len(messages) : messages[i] = R!Row(conv, "user", id)
    BY <1>2, <1>9 DEF Question
  <2>2. messages[i] \in keep
    BY <1>1, <1>3, <2>1 DEF R!Row
  <2>3. PICK j \in 1..Len(out) : out[j] = messages[i]
    BY <1>5, <2>2 DEF Filtered
  <2>4. j \in DOMAIN messages' /\ messages'[j] = R!Row(conv, "user", id)
    BY <1>1, <1>5, <2>1, <2>3 DEF Filtered
  <2> QED
    BY <2>4 DEF Question, R!Row
<1> QED
  BY <1>1, <1>5, <1>8, <1>9 DEF Filtered

-----------------------------------------------------------------------------
(* The steps of AI requests.                                                 *)

(* One request moves.                                                        *)
LEMMA CallMoves ==
    ASSUME R!AiTyped, NEW c \in Clients, NEW x, call' = [call EXCEPT ![c] = x]
    PROVE  /\ call' = [d \in Clients |-> call'[d]] /\ call'[c] = x
           /\ \A d \in Clients \ {c} : call'[d] = call[d]
<1>1. call = [d \in Clients |-> call[d]]
  BY DEF R!AiTyped
<1>2. call' = [d \in Clients |-> IF d = c THEN x ELSE call[d]]
  BY <1>1
<1> QED
  BY <1>2

(* A step of request c keeps the others, itself once it is idle.             *)
LEMMA CallsKeep ==
    ASSUME R!AiInv, NEW c \in Clients, ask' = ask,
           \A d \in Clients \ {c} : call'[d] = call[d],
           call'[c] = call[c] \/ call'[c] = R!Idle \/ R!CallInStep(c)',
           asked' \in Nat, asked' >= asked, conversations' \subseteq conversations,
           \A conv \in conversations' : \A id :
              Question(messages, conv, id) => Question(messages', conv, id)
    PROVE  (\A d \in Clients : R!CallInStep(d))'
<1> SUFFICES ASSUME NEW d \in Clients PROVE R!CallInStep(d)'
  OBVIOUS
<1>1. CASE call'[d] = call[d]
  BY <1>1, CallKeeps
<1>2. CASE call'[d] = R!Idle
  BY <1>2 DEF R!CallInStep, R!At, R!Idle
<1> QED
  BY <1>1, <1>2

LEMMA AiInit == ASSUME ServicesAssumption, R!Init PROVE R!AiInv
<1>1. R!AiTyped
  BY DEF R!Init, R!AiTyped, R!BreakerEntry, R!Idle
<1>2. \A p \in Providers : R!CircuitInStep(p)
  BY ProvidersAssumed DEF R!Init, R!CircuitInStep, R!BreakerEntry
<1>3. \A c \in Clients : R!CallInStep(c)
  BY DEF R!Init, R!CallInStep, R!At, R!Idle
<1>4. R!TracesInStep /\ R!NoOrphans /\ \A k \in DOMAIN memory : R!MemoryInStep(memory[k])
  BY DEF R!Init, R!TracesInStep, R!NoOrphans
<1> QED
  BY <1>1, <1>2, <1>3, <1>4 DEF R!AiInv

(* is_available() lets an open circuit probe; the chain has a provider.      *)
LEMMA GenerateKeeps ==
    ASSUME ServicesAssumption, R!AiInv, NEW c \in Clients, R!Generate(c) PROVE R!AiInv'
<1> DEFINE x == [at |-> "provider", id |-> asked', index |-> 1,
                 chain |-> R!resolve_chain(ask[c]), attempts |-> <<>>]
           Entries == [state : {"closed", "open", "half_open"}, failures : Nat,
                       opened : Nat \cup {None}]
<1>1. /\ call' = [call EXCEPT ![c] = x] /\ asked' = asked + 1
      /\ UNCHANGED <<clock, ask, traces, memory, usage, booked, conversations, messages>>
      /\ breaker' = [p \in Providers |->
                        IF /\ p \in R!ToSet(R!Candidates(ask[c])) /\ p \in HasKey
                           /\ ~R!Unfiltered(ask[c])
                        THEN R!Probed(p) ELSE breaker[p]]
  BY DEF R!Generate, R!Begin, R!db
<1>2. /\ R!AiTyped /\ asked \in Nat
      /\ \A p \in Providers : R!CircuitInStep(p) /\ breaker[p] \in Entries
  BY DEF R!AiInv, R!AiTyped
<1>3. ASSUME NEW p \in Providers
      PROVE  breaker'[p] = breaker[p] \/
                (breaker[p].state = "open" /\ breaker'[p] = [breaker[p] EXCEPT !.state = "half_open"])
  BY <1>1 DEF R!Probed
<1>4. breaker' \in [Providers -> Entries]
  <2>1. \A p \in Providers : breaker'[p] \in Entries
    BY <1>2, <1>3, ZenonT(60)
  <2> HIDE DEF Entries
  <2> QED
    BY <1>1, <2>1
<1>5. (\A p \in Providers : R!CircuitInStep(p))'
  <2> SUFFICES ASSUME NEW p \in Providers PROVE R!CircuitInStep(p)'
    OBVIOUS
  <2>1. /\ breaker'[p].failures = breaker[p].failures
        /\ breaker'[p].state = "closed" <=> breaker[p].state = "closed"
    BY <1>2, <1>3
  <2> QED
    BY <1>1, <1>2, <2>1 DEF R!CircuitInStep
<1>6. /\ call' = [d \in Clients |-> call'[d]] /\ call'[c] = x
      /\ \A d \in Clients \ {c} : call'[d] = call[d]
  BY <1>1, <1>2, CallMoves
<1>7. R!AiTyped'
  BY <1>1, <1>2, <1>4, <1>6 DEF R!AiTyped
<1>8. (\A d \in Clients : R!CallInStep(d))'
  <2>1. /\ R!resolve_chain(ask[c]) \in Seq(Providers)
        /\ Len(R!resolve_chain(ask[c])) \in Nat \ {0}
    BY ChainThere, ProvidersAssumed DEF R!AiInv, R!AiTyped
  <2>2. R!CallInStep(c)'
    <3>1. /\ call'[c].at = "provider" /\ call'[c].id \in 1..asked' /\ call'[c].index = 1
          /\ call'[c].chain \in Seq(Providers) /\ Len(call'[c].chain) \in Nat \ {0}
          /\ call'[c].attempts = <<>>
      BY <1>1, <1>2, <1>6, <2>1
    <3>2. <<>> \in Seq(Providers \X R!Ends) /\ Len(<<>>) = 1 - 1
      OBVIOUS
    <3> QED
      BY <3>1, <3>2 DEF R!CallInStep, R!At
  <2> QED
    BY <1>1, <1>2, <1>6, <2>2, CallsKeep
<1> QED
  BY <1>1, <1>5, <1>7, <1>8, LeftAlone DEF R!AiInv

(* The provider answered: all its books are kept in one step.                *)
LEMMA AnsweredKeeps ==
    ASSUME ServicesAssumption, R!AiInv, NEW c \in Clients, R!Answered(c) PROVE R!AiInv'
<1>1. /\ R!At(c, "provider") /\ call' = [call EXCEPT ![c] = R!Idle]
      /\ UNCHANGED <<clock, ask, asked, conversations, messages>>
      /\ breaker' = [breaker EXCEPT ![R!Calling(c)] = R!record_success(breaker[R!Calling(c)])]
      /\ booked' = [booked EXCEPT ![R!Calling(c)]
                       = R!LastFew(Append(booked[R!Calling(c)], "ok"))]
      /\ R!Finish(R!Trace(c, R!Tried(c, "ok"), "ok"))
      /\ usage' \subseteq usage \cup {call[c].id}
      /\ memory' = IF ask[c].memory # None THEN R!Remembered(ask[c].memory, call[c].id)
                   ELSE memory
  BY DEF R!Answered, R!Done, R!Book, R!db
<1>2. /\ R!AiTyped /\ asked \in Nat /\ R!CallInStep(c) /\ "ok" \in R!Ends
      /\ \A p \in Providers : R!CircuitInStep(p)
  BY DEF R!AiInv, R!AiTyped, R!Ends
<1>3. R!Calling(c) \in Providers /\ call[c].id \in 1..asked
  BY <1>1, <1>2, TriedIs
<1>4. (\A p \in Providers : R!CircuitInStep(p))'
  BY <1>1, <1>2, CircuitsKeep
<1>5. R!TracesInStep'
  BY <1>1, <1>2, TraceOf, TracesKeep DEF R!AiInv
<1>6. /\ call' = [d \in Clients |-> call'[d]] /\ call'[c] = R!Idle
      /\ \A d \in Clients \ {c} : call'[d] = call[d]
  BY <1>1, <1>2, CallMoves
<1>7. R!AiTyped'
  <2>1. /\ breaker' \in [Providers -> [state : {"closed", "open", "half_open"},
                                       failures : Nat, opened : Nat \cup {None}]]
        /\ booked' \in [Providers -> Seq(R!Ends)]
    BY <1>1, <1>2, <1>3, BooksTyped
  <2>2. usage' \subseteq 1..asked
    BY <1>1, <1>2, <1>3 DEF R!AiTyped
  <2> QED
    BY <1>1, <1>2, <1>6, <2>1, <2>2 DEF R!AiTyped
<1>8. (\A d \in Clients : R!CallInStep(d))'
  BY <1>1, <1>2, <1>6, CallsKeep
<1>9. (\A k \in DOMAIN memory : R!MemoryInStep(memory[k]))'
  <2>1. CASE ask[c].memory = None
    BY <1>1, <2>1, LeftAlone
  <2>2. CASE ask[c].memory # None
    <3> DEFINE key == ask[c].memory
               id == call[c].id
               new == R!Window(Append(R!Window(Append(R!recall(key), <<"user", id>>)),
                                      <<"assistant", id>>))
    <3>1. memory' = [k \in DOMAIN memory \cup {key} |-> IF k = key THEN new ELSE memory[k]]
      BY <1>1, <2>2 DEF R!Remembered
    <3>2. R!MemoryInStep(R!recall(key))
      <4>1. CASE key \in DOMAIN memory
        BY <4>1 DEF R!recall, R!AiInv
      <4>2. CASE key \notin DOMAIN memory
        <5>1. R!recall(key) = <<>>
          BY <4>2 DEF R!recall
        <5>2. 0 <= 2 * MaxTurns /\ 0 % 2 = 0
          BY ProvidersAssumed
        <5> QED
          BY <5>1, <5>2 DEF R!MemoryInStep
      <4> QED
        BY <4>1, <4>2
    <3>3. R!MemoryInStep(new)
      BY <1>2, <1>3, <3>2, PairRemembered
    <3> HIDE DEF new, key, id
    <3>4. ASSUME NEW k \in DOMAIN memory' PROVE R!MemoryInStep(memory'[k])
      BY <3>1, <3>3 DEF R!AiInv
    <3> QED
      BY <3>4 DEF R!MemoryInStep
  <2> QED
    BY <2>1, <2>2
<1> QED
  BY <1>1, <1>4, <1>5, <1>7, <1>8, <1>9, LeftAlone DEF R!AiInv

(* The provider failed: the next one is called, or the request ends.         *)
LEMMA FailedKeeps ==
    ASSUME ServicesAssumption, R!AiInv, NEW c \in Clients, R!Failed(c) PROVE R!AiInv'
<1>1. /\ R!At(c, "provider")
      /\ UNCHANGED <<clock, ask, asked, memory, usage, conversations, messages>>
      /\ breaker' = [breaker EXCEPT ![R!Calling(c)] = R!record_failure(breaker[R!Calling(c)])]
      /\ booked' = [booked EXCEPT ![R!Calling(c)]
                       = R!LastFew(Append(booked[R!Calling(c)], "failed"))]
  BY DEF R!Failed, R!Book, R!db
<1>2. /\ R!AiTyped /\ asked \in Nat /\ R!CallInStep(c) /\ "failed" \in R!Ends
      /\ \A p \in Providers : R!CircuitInStep(p)
  BY DEF R!AiInv, R!AiTyped, R!Ends
<1>3. R!Calling(c) \in Providers
  BY <1>1, <1>2, TriedIs
<1>4. (\A p \in Providers : R!CircuitInStep(p))'
  BY <1>1, <1>2, CircuitsKeep
<1>5. /\ breaker' \in [Providers -> [state : {"closed", "open", "half_open"},
                                     failures : Nat, opened : Nat \cup {None}]]
      /\ booked' \in [Providers -> Seq(R!Ends)]
  BY <1>1, <1>2, <1>3, BooksTyped
<1>6. CASE call[c].index < Len(call[c].chain)
  <2>1. /\ call' = [call EXCEPT ![c].index = @ + 1, ![c].attempts = R!Tried(c, "failed")]
        /\ traces' = traces
    BY <1>6 DEF R!Failed
  <2>2. PICK x : x = [call[c] EXCEPT !.index = @ + 1, !.attempts = R!Tried(c, "failed")]
    OBVIOUS
  <2>3. call' = [call EXCEPT ![c] = x]
    BY <1>2, <2>1, <2>2 DEF R!AiTyped
  <2>4. /\ call' = [d \in Clients |-> call'[d]] /\ call'[c] = x
        /\ \A d \in Clients \ {c} : call'[d] = call[d]
    BY <1>2, <2>3, CallMoves
  <2>5. /\ x.at = call[c].at /\ x.id = call[c].id /\ x.chain = call[c].chain
        /\ x.index = call[c].index + 1 /\ x.attempts = R!Tried(c, "failed")
    BY <1>1, <2>1, <2>2, <2>4 DEF R!At
  <2>6. R!CallInStep(c)'
    <3>1. /\ call[c].id \in 1..asked /\ call[c].chain \in Seq(Providers)
          /\ call[c].index \in Nat /\ call[c].index >= 1
          /\ x.attempts \in Seq(Providers \X R!Ends)
          /\ Len(x.attempts) = call[c].index
          /\ \A k \in 1..(call[c].index - 1) : x.attempts[k] = <<x.chain[k], "failed">>
          /\ x.attempts[call[c].index] = <<x.chain[call[c].index], "failed">>
      BY <1>1, <1>2, <2>5, TriedIs
    <3>2. /\ x.index \in 1..Len(x.chain) /\ x.index - 1 = call[c].index
          /\ \A k \in 1..(x.index - 1) : k \in 1..(call[c].index - 1) \/ k = call[c].index
      <4>1. PICK n \in Nat : n = call[c].index /\ n >= 1 /\ n < Len(x.chain)
        BY <1>6, <2>5, <3>1
      <4>2. x.index = n + 1 /\ Len(x.chain) \in Nat
        BY <2>5, <3>1, <4>1
      <4> QED
        BY <4>1, <4>2
    <3>3. \A k \in 1..(x.index - 1) : x.attempts[k] = <<x.chain[k], "failed">>
      BY <3>1, <3>2
    <3> QED
      BY <1>1, <2>4, <2>5, <3>1, <3>2, <3>3 DEF R!CallInStep, R!At
  <2>7. (\A d \in Clients : R!CallInStep(d))'
    BY <1>1, <1>2, <2>4, <2>6, CallsKeep
  <2>8. R!AiTyped'
    BY <1>1, <1>2, <1>5, <2>4 DEF R!AiTyped
  <2> QED
    BY <1>1, <1>4, <2>1, <2>7, <2>8, LeftAlone DEF R!AiInv
<1>7. CASE ~(call[c].index < Len(call[c].chain))
  <2>1. /\ R!Finish(R!Trace(c, R!Tried(c, "failed"), "failed"))
        /\ call' = [call EXCEPT ![c] = R!Idle]
    BY <1>7 DEF R!Failed, R!Done
  <2>2. R!TracesInStep'
    BY <1>1, <1>2, <1>7, <2>1, TraceOf, TracesKeep DEF R!AiInv
  <2>3. /\ call' = [d \in Clients |-> call'[d]] /\ call'[c] = R!Idle
        /\ \A d \in Clients \ {c} : call'[d] = call[d]
    BY <1>2, <2>1, CallMoves
  <2>4. (\A d \in Clients : R!CallInStep(d))'
    BY <1>1, <1>2, <2>3, CallsKeep
  <2>5. R!AiTyped'
    BY <1>1, <1>2, <1>5, <2>3 DEF R!AiTyped
  <2> QED
    BY <1>1, <1>4, <2>2, <2>4, <2>5, LeftAlone DEF R!AiInv
<1> QED
  BY <1>6, <1>7

(* A request ends, or is refused, and nothing is written.                    *)
LEMMA NothingWritten ==
    ASSUME R!AiInv, NEW c \in Clients, asked' \in {asked, asked + 1},
           call' = call \/ call' = [call EXCEPT ![c] = R!Idle],
           UNCHANGED <<clock, ask, usage, conversations, messages,
                       breaker, traces, memory, booked>>
    PROVE  R!AiInv'
<1>1. R!AiTyped /\ asked \in Nat /\ asked' \in Nat /\ asked' >= asked
  BY DEF R!AiInv, R!AiTyped
<1>2. /\ call' = [d \in Clients |-> call'[d]]
      /\ call'[c] = call[c] \/ call'[c] = R!Idle
      /\ \A d \in Clients \ {c} : call'[d] = call[d]
  <2>1. call = [d \in Clients |-> call[d]]
    BY <1>1 DEF R!AiTyped
  <2> QED
    BY <1>1, <2>1, CallMoves
<1>3. (\A d \in Clients : R!CallInStep(d))'
  BY <1>1, <1>2, CallsKeep
<1>4. R!AiTyped'
  BY <1>1, <1>2 DEF R!AiTyped
<1> QED
  BY <1>3, <1>4, LeftAlone DEF R!AiInv

(* chat() and add_message() have read what they need.                        *)
LEMMA LoadKeeps ==
    ASSUME ServicesAssumption, R!AiInv, NEW c \in Clients, R!ChatLoad(c) \/ R!AddLoad(c)
    PROVE  R!AiInv'
<1>1. /\ asked' = asked + 1
      /\ UNCHANGED <<clock, ask, usage, conversations, messages, breaker, traces, memory, booked>>
  BY DEF R!ChatLoad, R!AddLoad, R!Begin, R!db, R!routing
<1>2. CASE call' = call
  BY <1>1, <1>2, NothingWritten
<1>3. CASE call' # call
  <2>1. PICK x : /\ call' = [call EXCEPT ![c] = x]
                 /\ x.at = "adding" \/ (x.at = "question" /\ x.id = asked')
    <3>1. CASE R!AddLoad(c)
      <4>1. call' = [call EXCEPT ![c] = [at |-> "adding"]]
        BY <1>3, <3>1 DEF R!AddLoad
      <4>2. [at |-> "adding"].at = "adding"
        OBVIOUS
      <4> QED
        BY <4>1, <4>2
    <3>2. CASE R!ChatLoad(c)
      <4>1. PICK prompt : call' = [call EXCEPT ![c] = [at |-> "question", id |-> asked',
                                                       prompt |-> prompt]]
        BY <1>3, <3>2 DEF R!ChatLoad
      <4>2. PICK x : x = [at |-> "question", id |-> asked', prompt |-> prompt]
        OBVIOUS
      <4>3. x.at = "question" /\ x.id = asked' /\ call' = [call EXCEPT ![c] = x]
        BY <4>1, <4>2
      <4> QED
        BY <4>3
    <3> QED
      BY <3>1, <3>2
  <2>2. R!AiTyped /\ asked \in Nat
    BY DEF R!AiInv, R!AiTyped
  <2>3. /\ call' = [d \in Clients |-> call'[d]] /\ call'[c] = x
        /\ \A d \in Clients \ {c} : call'[d] = call[d]
    BY <2>1, <2>2, CallMoves
  <2>4. R!CallInStep(c)'
    BY <1>1, <2>1, <2>2, <2>3 DEF R!CallInStep, R!At
  <2>5. (\A d \in Clients : R!CallInStep(d))'
    BY <1>1, <2>2, <2>3, <2>4, CallsKeep
  <2>6. R!AiTyped'
    BY <1>1, <2>2, <2>3 DEF R!AiTyped
  <2> QED
    BY <1>1, <2>5, <2>6, LeftAlone DEF R!AiInv
<1> QED
  BY <1>2, <1>3

(* The question is stored, if its conversation is still there.               *)
LEMMA QuestionKeeps ==
    ASSUME ServicesAssumption, R!AiInv, NEW c \in Clients, R!ChatQuestion(c) PROVE R!AiInv'
<1>1. /\ R!At(c, "question")
      /\ UNCHANGED <<clock, ask, asked, usage, conversations, breaker, traces, memory, booked>>
  BY DEF R!ChatQuestion, R!routing
<1>2. R!AiTyped /\ asked \in Nat /\ call[c].id \in 1..asked
  BY <1>1 DEF R!AiInv, R!AiTyped, R!CallInStep, R!At
<1>3. CASE ask[c].conv \notin conversations
  BY <1>1, <1>3, NothingWritten DEF R!ChatQuestion, R!Enforced, R!Done
<1>4. CASE ask[c].conv \in conversations
  <2>1. R!Insert(c, "user", call[c].id) /\ call' = [call EXCEPT ![c].at = "thinking"]
    BY <1>4 DEF R!ChatQuestion, R!Enforced
  <2>2. PICK x : x = [call[c] EXCEPT !.at = "thinking"]
    OBVIOUS
  <2>3. call' = [call EXCEPT ![c] = x]
    BY <2>1, <2>2
  <2>4. /\ call' = [d \in Clients |-> call'[d]] /\ call'[c] = x
        /\ \A d \in Clients \ {c} : call'[d] = call[d]
    BY <1>2, <2>3, CallMoves
  <2>5. /\ messages' \in Seq(R!Rows) /\ R!NoOrphans'
        /\ \A conv, i : Question(messages, conv, i) => Question(messages', conv, i)
        /\ Question(messages', ask[c].conv, call[c].id)
    BY <1>1, <1>2, <1>4, <2>1, InsertKeeps
  <2>6. R!CallInStep(c)'
    <3>1. x.at = "thinking" /\ x.id = call[c].id
      BY <1>1, <2>2 DEF R!At
    <3> QED
      BY <1>1, <1>2, <2>4, <2>5, <3>1 DEF R!CallInStep, R!At, Question
  <2>7. (\A d \in Clients : R!CallInStep(d))'
    BY <1>1, <1>2, <2>4, <2>5, <2>6, CallsKeep
  <2>8. R!AiTyped'
    BY <1>1, <1>2, <2>4, <2>5 DEF R!AiTyped
  <2> QED
    BY <1>1, <2>5, <2>7, <2>8, LeftAlone DEF R!AiInv
<1> QED
  BY <1>3, <1>4

(* The answer is stored behind its question, a posted message as it came.    *)
LEMMA WriteKeeps ==
    ASSUME ServicesAssumption, R!AiInv, NEW c \in Clients, R!ChatAnswer(c) \/ R!AddWrite(c)
    PROVE  R!AiInv'
<1>1. /\ call' = [call EXCEPT ![c] = R!Idle]
      /\ UNCHANGED <<clock, ask, asked, conversations, breaker, traces, memory, booked>>
  BY DEF R!ChatAnswer, R!AddWrite, R!Done, R!routing
<1>2. R!AiTyped /\ asked \in Nat /\ R!CallInStep(c)
  BY DEF R!AiInv, R!AiTyped
<1>3. /\ call' = [d \in Clients |-> call'[d]] /\ call'[c] = R!Idle
      /\ \A d \in Clients \ {c} : call'[d] = call[d]
  BY <1>1, <1>2, CallMoves
<1>4. usage' \subseteq 1..asked
  BY <1>2 DEF R!ChatAnswer, R!AddWrite, R!AiTyped, R!CallInStep, R!At
<1>5. /\ messages' \in Seq(R!Rows) /\ R!NoOrphans'
      /\ \A conv, i : Question(messages, conv, i) => Question(messages', conv, i)
  <2>1. CASE ask[c].conv \notin conversations
    <3>1. messages' = messages
      BY <2>1 DEF R!ChatAnswer, R!AddWrite, R!Enforced
    <3> QED
      BY <1>1, <1>2, <3>1, LeftAlone DEF R!AiTyped
  <2>2. CASE ask[c].conv \in conversations /\ R!ChatAnswer(c)
    <3>1. R!Insert(c, "assistant", call[c].id)
      BY <2>2 DEF R!ChatAnswer, R!Enforced
    <3>2. Question(messages, ask[c].conv, call[c].id) /\ call[c].id \in Nat
      BY <1>2, <2>2 DEF R!ChatAnswer, R!CallInStep, R!At, Question
    <3> QED
      BY <1>1, <2>2, <3>1, <3>2, InsertKeeps
  <2>3. CASE ask[c].conv \in conversations /\ R!AddWrite(c)
    <3>1. R!Insert(c, ask[c].role, None)
      BY <2>3 DEF R!AddWrite, R!Enforced
    <3>2. ask[c].role \in {a.role : a \in R!Asks}
      BY <1>2 DEF R!AiTyped, R!Asks
    <3> QED
      BY <1>1, <2>3, <3>1, <3>2, InsertKeeps
  <2> QED
    BY <2>1, <2>2, <2>3
<1>6. (\A d \in Clients : R!CallInStep(d))'
  BY <1>1, <1>2, <1>3, <1>5, CallsKeep
<1>7. R!AiTyped'
  BY <1>1, <1>2, <1>3, <1>4, <1>5 DEF R!AiTyped
<1> QED
  BY <1>1, <1>5, <1>6, <1>7, LeftAlone DEF R!AiInv

(* A conversation goes with its messages.                                    *)
LEMMA ConversationGoes ==
    ASSUME ServicesAssumption, R!AiInv, NEW c \in Clients, R!DeleteConversation(c)
    PROVE  R!AiInv'
<1>1. /\ call' = call /\ asked' = asked + 1 /\ conversations' \subseteq conversations
      /\ UNCHANGED <<clock, ask, usage, breaker, traces, memory, booked>>
  BY DEF R!DeleteConversation, R!Begin, R!routing
<1>2. R!AiTyped /\ asked \in Nat
  BY DEF R!AiInv, R!AiTyped
<1>3. /\ messages' \in Seq(R!Rows) /\ R!NoOrphans'
      /\ \A conv \in conversations' : \A id :
            Question(messages, conv, id) => Question(messages', conv, id)
  BY DeleteKeeps
<1>4. (\A d \in Clients : R!CallInStep(d))'
  BY <1>1, <1>2, <1>3, CallsKeep
<1>5. R!AiTyped'
  BY <1>1, <1>2, <1>3 DEF R!AiTyped
<1> QED
  BY <1>1, <1>3, <1>4, <1>5, LeftAlone DEF R!AiInv

(* Time passes.                                                              *)
LEMMA AiTickKeeps == ASSUME R!AiInv, R!Tick PROVE R!AiInv'
<1>1. /\ clock' = clock + 1
      /\ UNCHANGED <<ask, call, asked, usage, conversations, messages,
                     breaker, traces, memory, booked>>
  BY DEF R!Tick, R!db, R!routing
<1>2. R!AiTyped'
  BY <1>1 DEF R!AiInv, R!AiTyped
<1>3. (\A d \in Clients : R!CallInStep(d))'
  BY <1>1 DEF R!AiInv, R!CallInStep, R!At
<1> QED
  BY <1>1, <1>2, <1>3, LeftAlone DEF R!AiInv

LEMMA AiStep == ASSUME ServicesAssumption, R!AiInv, R!Next PROVE R!AiInv'
<1>1. CASE R!Tick
  BY <1>1, AiTickKeeps
<1>2. ASSUME NEW c \in Clients,
             \/ R!Generate(c) \/ R!Answered(c) \/ R!Failed(c)
             \/ R!ChatLoad(c) \/ R!AddLoad(c) \/ R!ChatQuestion(c)
             \/ R!ChatAnswer(c) \/ R!AddWrite(c) \/ R!DeleteConversation(c)
      PROVE  R!AiInv'
  BY <1>2, GenerateKeeps, AnsweredKeeps, FailedKeeps, LoadKeeps, QuestionKeeps, WriteKeeps,
     ConversationGoes
<1>3. ASSUME NEW c \in Clients, R!Abandoned(c) \/ R!ChatFails(c) \/ R!SwitchModel(c)
      PROVE  R!AiInv'
  BY <1>3, NothingWritten
     DEF R!Abandoned, R!ChatFails, R!SwitchModel, R!Begin, R!Done, R!db, R!routing
<1> QED
  BY <1>1, <1>2, <1>3 DEF R!Next

(* Nothing of the AI requests changes.                                       *)
LEMMA AiUntouched == ASSUME R!AiInv, UNCHANGED ai PROVE R!AiInv'
<1>1. UNCHANGED <<clock, ask, call, breaker, traces, memory, conversations, messages, usage,
                  asked, booked>>
  BY DEF ai
<1>2. R!AiTyped' /\ (\A d \in Clients : R!CallInStep(d))'
  BY <1>1 DEF R!AiInv, R!AiTyped, R!CallInStep, R!At
<1> QED
  BY <1>1, <1>2, LeftAlone DEF R!AiInv

(* The invariant says what the circuits and the traces promise, ...          *)
LEMMA RoutingTold ==
    ASSUME ServicesAssumption, R!AiInv
    PROVE  R!TypeOK /\ R!CircuitTellsTruth /\ R!TracesTellAll
<1>1. R!TypeOK
  <2>1. \A k \in DOMAIN memory : Len(memory[k]) <= 2 * MaxTurns
    BY DEF R!AiInv, R!MemoryInStep
  <2>2. \A c \in Clients : R!At(c, "provider") => call[c].index \in 1..Len(call[c].chain)
    BY DEF R!AiInv, R!CallInStep
  <2> QED
    BY <2>1, <2>2 DEF R!AiInv, R!AiTyped, R!TypeOK
<1>2. ASSUME NEW p \in Providers
      PROVE  breaker[p].state # "closed" <=>
                Len(booked[p]) = Threshold /\ "ok" \notin R!ToSet(booked[p])
  <2>1. /\ booked[p] \in Seq(R!Ends) /\ R!CircuitInStep(p) /\ breaker[p].failures \in Nat
        /\ Threshold \in Nat
    BY ProvidersAssumed DEF R!AiInv, R!AiTyped
  <2>2. PICK n \in Nat : n = Len(booked[p]) /\ DOMAIN booked[p] = 1..n
    BY <2>1
  <2>3. "ok" \in R!ToSet(booked[p]) <=> \E i \in 1..n : booked[p][i] = "ok"
    BY <2>2 DEF R!ToSet
  <2>4. ASSUME breaker[p].state = "closed", n = Threshold
        PROVE  \E i \in 1..n : booked[p][i] = "ok"
    <3>1. n - breaker[p].failures \in 1..n /\ booked[p][n - breaker[p].failures] = "ok"
      BY <2>1, <2>2, <2>4 DEF R!CircuitInStep
    <3> QED
      BY <3>1
  <2>5. breaker[p].state # "closed" =>
           n = Threshold /\ \A i \in 1..n : booked[p][i] = "failed"
    BY <2>1, <2>2 DEF R!CircuitInStep
  <2> QED
    BY <2>2, <2>3, <2>4, <2>5
<1>3. ASSUME NEW i \in DOMAIN traces
      PROVE  LET t == traces[i]
                 names == [k \in DOMAIN t.attempts |-> t.attempts[k][1]]
             IN /\ names = SubSeq(t.chain, 1, Len(t.attempts))
                /\ \A k \in DOMAIN t.attempts :
                      t.attempts[k][2] = "ok" <=> t.ended = "ok" /\ k = Len(t.attempts)
                /\ t.ended = "failed" => Len(t.attempts) = Len(t.chain)
  <2>1. PICK t : t = traces[i]
    OBVIOUS
  <2>2. t \in Traces /\ R!TraceInStep(t)
    <3>1. traces \in Seq(Traces) /\ R!TraceInStep(traces[i])
      BY DEF R!AiInv, R!TracesInStep, Traces
    <3> HIDE DEF Traces
    <3>2. traces[i] \in Traces
      BY <3>1
    <3> QED
      BY <2>1, <3>1, <3>2
  <2>3. PICK n \in Nat : n = Len(t.attempts) /\ DOMAIN t.attempts = 1..n
    BY <2>2 DEF Traces
  <2>4. /\ n <= Len(t.chain) /\ (t.ended = "failed" => n = Len(t.chain))
        /\ \A k \in 1..n : t.attempts[k] = <<t.chain[k], IF k = n THEN t.ended ELSE "failed">>
    BY <2>2, <2>3 DEF R!TraceInStep
  <2>5. [k \in 1..n |-> t.attempts[k][1]] = SubSeq(t.chain, 1, n)
    <3>1. t.chain \in Seq(Providers)
      BY <2>2 DEF Traces
    <3>2. \A k \in 1..n : t.chain[k] \in Providers
      BY <2>4, <3>1
    <3>3. /\ SubSeq(t.chain, 1, n) \in Seq(Providers)
          /\ Len(SubSeq(t.chain, 1, n)) = IF 1 <= n THEN n - 1 + 1 ELSE 0
          /\ \A k \in 1..(n - 1 + 1) : SubSeq(t.chain, 1, n)[k] = t.chain[1 + k - 1]
      BY <3>2, SubSeqProperties
    <3>4. PICK s \in Seq(Providers) : s = SubSeq(t.chain, 1, n)
      BY <3>3
    <3>5. Len(s) = n /\ \A k \in 1..n : s[k] = t.chain[k]
      BY <3>3, <3>4
    <3>6. s = [k \in 1..n |-> s[k]]
      BY <3>5
    <3>7. \A k \in 1..n : t.attempts[k][1] = s[k]
      BY <2>4, <3>5
    <3> QED
      BY <3>4, <3>6, <3>7
  <2>6. \A k \in 1..n : t.attempts[k][2] = "ok" <=> t.ended = "ok" /\ k = n
    BY <2>4
  <2> QED
    BY <2>1, <2>3, <2>4, <2>5, <2>6
<1> QED
  BY <1>1, <1>2, <1>3 DEF R!CircuitTellsTruth, R!TracesTellAll

(* ... and what memories and conversations do.                               *)
LEMMA ConversationsTold == ASSUME R!AiInv PROVE R!MemoryPairsUp /\ R!NoOrphans
BY DEF R!AiInv, R!MemoryInStep, R!MemoryPairsUp

(* The invariant of the AI requests holds always.                            *)
LEMMA AiSafe == Spec => [](picked = "ai" => R!AiInv)
<1> DEFINE Inv == picked = "ai" => R!AiInv
<1>1. Init => Inv
  BY AiInit, ServicesAssumption DEF Init
<1>2. Inv /\ [Next]_vars => Inv'
  <2> SUFFICES ASSUME Inv, [Next]_vars, picked' = "ai" PROVE R!AiInv'
    OBVIOUS
  <2>1. CASE NextAi
    BY <2>1, AiStep, ServicesAssumption DEF NextAi
  <2>2. CASE NextCalls \/ NextDoor \/ NextLibrary \/ NextGraphs \/ UNCHANGED vars
    BY <2>2, AiUntouched DEF NextCalls, NextDoor, NextLibrary, NextGraphs, vars
  <2> QED
    BY <2>1, <2>2 DEF Next
<1> QED
  BY <1>1, <1>2, PTL DEF Spec

(* Circuits and traces tell the truth, always (CircuitBreaker and            *)
(* TraceRecorder): however calls overlap, a circuit is open or probing       *)
(* exactly when the last Threshold calls of its provider that ended failed,  *)
(* and a trace holds every attempt of its request, in the order of its chain. *)
THEOREM RoutingSafe == Spec => []RoutingTellsTruth
<1>1. (picked = "ai" => R!AiInv) => RoutingTellsTruth
  BY RoutingTold, ServicesAssumption DEF RoutingTellsTruth
<1> QED
  BY <1>1, AiSafe, PTL

(* Memories stay paired and conversations whole, always (remember(), chat(), *)
(* delete_conversation()): no message outlives its conversation and no       *)
(* answer of a provider is stored without its question.                      *)
THEOREM ConversationsSafe == Spec => []ConversationsWhole
<1>1. (picked = "ai" => R!AiInv) => ConversationsWhole
  BY ConversationsTold DEF ConversationsWhole
<1> QED
  BY <1>1, AiSafe, PTL


-----------------------------------------------------------------------------
(* The middleware.                                                           *)

LEMMA SameCounts == \A S : F!Cardinality(S) = Cardinality(S)
BY DEF F!Cardinality, Cardinality

LEMMA SameFinite == \A S : F!IsFiniteSet(S) <=> IsFiniteSet(S)
BY DEF F!IsFiniteSet, IsFiniteSet

(* What is assumed of clients and limits.                                    *)
LEMMA DoorAssumed ==
    ServicesAssumption =>
        /\ Budget["auth"] \in Nat /\ Budget[""] \in Nat
        /\ RateWindow \in Nat /\ MaxTime \in Nat
        /\ IsFiniteSet(Clients)
BY SameFinite DEF ServicesAssumption, F!FrontDoorAssumption

(* Requests counted since some time, places of a list that hold such a time. *)
Since(C, from) == {s \in C : s.at >= from}
Places(b, from) == {i \in DOMAIN b : b[i] >= from}

(* What BucketInStep says of a list b that stands for the requests C.        *)
Fits(b, cap, at, C) ==
    /\ b \in Seq(0..at) /\ Len(b) <= cap
    /\ \A i, j \in DOMAIN b : i < j => b[i] <= b[j]
    /\ \A from \in (at - RateWindow)..at :
          Cardinality(Since(C, from)) <= Cardinality(Places(b, from))

LEMMA PlacesCount ==
    ASSUME NEW T, NEW b \in Seq(T), NEW from
    PROVE  /\ IsFiniteSet(Places(b, from)) /\ Cardinality(Places(b, from)) \in Nat
           /\ Cardinality(Places(b, from)) <= Len(b)
<1>1. PICK n \in Nat : n = Len(b) /\ Places(b, from) \in SUBSET (1..n)
  BY DEF Places
<1>2. IsFiniteSet(1..n) /\ Cardinality(1..n) = n
  BY FS_Interval
<1> QED
  BY <1>1, <1>2, FS_Subset, FS_CardinalityType

LEMMA OneMore ==
    ASSUME NEW S, IsFiniteSet(S), NEW x
    PROVE  /\ IsFiniteSet(S \cup {x}) /\ Cardinality(S) \in Nat
           /\ Cardinality(S \cup {x}) \in Nat /\ Cardinality(S \cup {x}) <= Cardinality(S) + 1
<1>1. Cardinality(S) \in Nat
  BY FS_CardinalityType
<1>2. CASE x \in S
  <2> DEFINE T == S \cup {x}
  <2>1. T = S
    BY <1>2
  <2> HIDE DEF T
  <2>2. IsFiniteSet(T) /\ Cardinality(T) \in Nat /\ Cardinality(T) <= Cardinality(S) + 1
    BY <1>1, <2>1
  <2> QED
    BY <1>1, <2>2 DEF T
<1>3. CASE x \notin S
  BY <1>1, <1>3, FS_AddElement
<1> QED
  BY <1>2, <1>3

(* An injection between finite sets bounds the one by the other.             *)
LEMMA SmallerCount ==
    ASSUME NEW S, NEW T, IsFiniteSet(T), NEW f \in [S -> T],
           \A x, y \in S : f[x] = f[y] => x = y
    PROVE  Cardinality(S) <= Cardinality(T)
<1>1. f \in Injection(S, T)
  BY DEF Injection, IsInjective
<1> QED
  BY <1>1, FS_Injection

(* Forgetting what is outside the window keeps a list fitting.               *)
LEMMA RecentFits ==
    ASSUME NEW at \in Nat, NEW cap \in Nat, NEW C, RateWindow \in Nat,
           NEW b, Fits(b, cap, at, C), \A from : Cardinality(Since(C, from)) \in Nat
    PROVE  Fits(F!Filter(b, (at - RateWindow)..at), cap, at, C)
<1> DEFINE keep == (at - RateWindow)..at
           out == F!Filter(b, keep)
<1>1. b \in Seq(0..at) /\ Len(b) \in Nat /\ DOMAIN b = 1..Len(b)
  BY DEF Fits
<1>2. out = LP!Filter(b, keep)
  BY DEF F!Filter, LP!Filter
<1>3. LP!Kept(0..at, b, keep, Len(b), out) /\ \E f : LP!Placed(0..at, b, keep, Len(b), out, f)
  BY <1>1, <1>2, LP!FilterKeeps, LP!FilterPlaces
<1> HIDE DEF out
<1>4. PICK f : LP!Placed(0..at, b, keep, Len(b), out, f)
  BY <1>3
<1>5. out \in Seq(0..at) /\ Len(out) <= Len(b) /\ Len(out) \in Nat /\ DOMAIN out = 1..Len(out)
  BY <1>4 DEF LP!Placed
<1>6. \A i, j \in DOMAIN out : i < j => out[i] <= out[j]
  <2> SUFFICES ASSUME NEW i \in 1..Len(out), NEW j \in 1..Len(out), i < j
               PROVE  out[i] <= out[j]
    BY <1>5
  <2>1. PICK x, y \in 1..Len(b) : x < y /\ b[x] = out[i] /\ b[y] = out[j]
    BY <1>3 DEF LP!Kept
  <2> QED
    BY <1>1, <2>1 DEF Fits
<1>7. ASSUME NEW from \in keep
      PROVE  Cardinality(Since(C, from)) <= Cardinality(Places(out, from))
  <2> DEFINE g == [i \in Places(b, from) |-> f[i]]
  <2>1. ASSUME NEW i \in Places(b, from)
        PROVE  i \in DOMAIN f /\ f[i] \in 1..Len(out) /\ out[f[i]] = b[i] /\ out[f[i]] >= from
    <3>1. i \in 1..Len(b) /\ b[i] >= from /\ b[i] \in 0..at
      BY <1>1 DEF Places
    <3>2. b[i] \in keep
      BY <3>1
    <3> QED
      BY <1>4, <3>1, <3>2 DEF LP!Placed
  <2>2. g \in [Places(b, from) -> Places(out, from)]
    BY <1>5, <2>1 DEF Places
  <2>3. \A x, y \in Places(b, from) : g[x] = g[y] => x = y
    BY <1>4, <2>1 DEF LP!Placed
  <2> HIDE DEF g
  <2>4. Cardinality(Places(b, from)) <= Cardinality(Places(out, from))
    BY <1>5, <2>2, <2>3, PlacesCount, SmallerCount
  <2>5. Cardinality(Since(C, from)) <= Cardinality(Places(b, from))
    BY DEF Fits
  <2> QED
    BY <1>1, <1>5, <2>4, <2>5, PlacesCount
<1> QED
  BY <1>1, <1>5, <1>6, <1>7 DEF Fits, out

(* One more hit for one more request.                                        *)
LEMMA AppendFits ==
    ASSUME NEW at \in Nat, NEW cap \in Nat, NEW C, NEW D, NEW x, RateWindow \in Nat,
           NEW b, Fits(b, cap, at, C), Len(b) < cap,
           IsFiniteSet(C), D \subseteq C \cup {x}
    PROVE  Fits(Append(b, at), cap, at, D)
<1> DEFINE longer == Append(b, at)
<1>1. b \in Seq(0..at)
  BY DEF Fits
<1>2. PICK n \in Nat : n = Len(b) /\ DOMAIN b = 1..n
  BY <1>1
<1>3. /\ longer \in Seq(0..at) /\ Len(longer) = n + 1 /\ DOMAIN longer = 1..(n + 1)
      /\ longer[n + 1] = at /\ \A i \in 1..n : longer[i] = b[i] /\ b[i] \in 0..at
  BY <1>1, <1>2, AppendIs
<1> HIDE DEF longer
<1>4. \A i, j \in DOMAIN longer : i < j => longer[i] <= longer[j]
  <2> SUFFICES ASSUME NEW i \in 1..(n + 1), NEW j \in 1..(n + 1), i < j
               PROVE  longer[i] <= longer[j]
    BY <1>3
  <2>1. i \in 1..n
    OBVIOUS
  <2>2. CASE j = n + 1
    BY <1>3, <2>1, <2>2
  <2>3. CASE j \in 1..n
    BY <1>2, <1>3, <2>1, <2>3 DEF Fits
  <2> QED
    BY <2>2, <2>3
<1>5. ASSUME NEW from \in (at - RateWindow)..at
      PROVE  Cardinality(Since(D, from)) <= Cardinality(Places(longer, from))
  <2>1. /\ IsFiniteSet(Since(C, from)) /\ Cardinality(Since(C, from)) \in Nat
    BY FS_Subset, FS_CardinalityType DEF Since
  <2>2. Since(D, from) \subseteq Since(C, from) \cup {x}
    BY DEF Since
  <2>3. /\ IsFiniteSet(Since(C, from) \cup {x})
        /\ Cardinality(Since(C, from) \cup {x}) <= Cardinality(Since(C, from)) + 1
    BY <2>1, OneMore
  <2>4. Cardinality(Since(D, from)) <= Cardinality(Since(C, from)) + 1
    BY <2>1, <2>2, <2>3, FS_Subset, FS_CardinalityType
  <2>5. Places(longer, from) = Places(b, from) \cup {n + 1} /\ n + 1 \notin Places(b, from)
    BY <1>2, <1>3 DEF Places
  <2>6. IsFiniteSet(Places(b, from)) /\ Cardinality(Places(b, from)) \in Nat
    BY <1>1, PlacesCount
  <2>7. Cardinality(Places(longer, from)) = Cardinality(Places(b, from)) + 1
    BY <2>5, <2>6, FS_AddElement
  <2>8. Cardinality(Since(C, from)) <= Cardinality(Places(b, from))
    BY DEF Fits
  <2>9. IsFiniteSet(Since(D, from)) /\ Cardinality(Since(D, from)) \in Nat
    BY <2>2, <2>3, FS_Subset, FS_CardinalityType
  <2> QED
    BY <2>1, <2>4, <2>6, <2>7, <2>8, <2>9
<1> QED
  BY <1>2, <1>3, <1>4, <1>5 DEF Fits, longer

(* A list with no time inside the window may be forgotten.                   *)
LEMMA IdleFits ==
    ASSUME NEW at \in Nat, NEW cap \in Nat, NEW C, RateWindow \in Nat,
           NEW b, Fits(b, cap, at, C), IsFiniteSet(C),
           b = <<>> \/ b[Len(b)] < at - RateWindow
    PROVE  Fits(<<>>, cap, at, C)
<1>1. b \in Seq(0..at)
  BY DEF Fits
<1>2. PICK n \in Nat : n = Len(b) /\ DOMAIN b = 1..n
  BY <1>1
<1>3. ASSUME NEW from \in (at - RateWindow)..at
      PROVE  Cardinality(Since(C, from)) <= Cardinality(Places(<<>>, from))
  <2>1. \A i \in 1..n : b[i] <= b[n] /\ b[i] \in 0..at
    BY <1>1, <1>2 DEF Fits
  <2>2. Places(b, from) = {}
    BY <1>2, <2>1 DEF Places
  <2>3. Places(<<>>, from) = {}
    BY DEF Places
  <2> QED
    BY <2>2, <2>3 DEF Fits
<1>4. <<>> \in Seq(0..at) /\ Len(<<>>) = 0 /\ DOMAIN <<>> = {}
  OBVIOUS
<1> QED
  BY <1>3, <1>4 DEF Fits

(* As time passes the window has fewer requests.                             *)
LEMMA LaterFits ==
    ASSUME NEW at \in Nat, NEW cap \in Nat, NEW C, RateWindow \in Nat,
           NEW b, Fits(b, cap, at, C), \A s \in C : s.at \in 0..at
    PROVE  Fits(b, cap, at + 1, C)
<1>1. b \in Seq(0..at)
  BY DEF Fits
<1>2. b \in Seq(0..(at + 1))
  <2>1. 0..at \subseteq 0..(at + 1)
    OBVIOUS
  <2> QED
    BY <1>1, <2>1
<1>3. ASSUME NEW from \in (at + 1 - RateWindow)..(at + 1)
      PROVE  Cardinality(Since(C, from)) <= Cardinality(Places(b, from))
  <2>1. CASE from = at + 1
    <3>1. Since(C, from) = {}
      BY <2>1 DEF Since
    <3> QED
      BY <1>1, <3>1, PlacesCount, FS_EmptySet
  <2>2. CASE from \in (at - RateWindow)..at
    BY <2>2 DEF Fits
  <2> QED
    BY <2>1, <2>2
<1> QED
  BY <1>2, <1>3 DEF Fits

(* No requests, no hits.                                                     *)
LEMMA NothingFits ==
    ASSUME NEW at \in Nat, NEW cap \in Nat PROVE Fits(<<>>, cap, at, {})
<1>1. <<>> \in Seq(0..at) /\ Len(<<>>) = 0 /\ DOMAIN <<>> = {}
  OBVIOUS
<1>2. \A from : Since({}, from) = {} /\ Places(<<>>, from) = {}
  BY DEF Since, Places
<1>3. ASSUME NEW from PROVE Cardinality(Since({}, from)) <= Cardinality(Places(<<>>, from))
  <2>1. Cardinality({}) <= Cardinality({})
    BY FS_EmptySet
  <2>2. Since({}, from) = {} /\ Places(<<>>, from) = {}
    BY <1>2
  <2> QED
    BY <2>1, <2>2, Zenon
<1>4. \A i, j \in DOMAIN <<>> : i < j => <<>>[i] <= <<>>[j]
  BY <1>1
<1>5. Len(<<>>) <= cap
  BY <1>1
<1> QED
  BY <1>1, <1>3, <1>4, <1>5, Zenon DEF Fits

-----------------------------------------------------------------------------
(* The rate limit.                                                           *)

(* A bucket in step is a list that fits its counted requests.                *)
LEMMA BucketIs ==
    /\ \A k : F!BucketInStep(k) <=>
                 Fits(F!BucketOf(k), Budget[k[2]], now, F!Counted(k))
    /\ \A k : F!BucketInStep(k)' <=>
                 Fits(F!BucketOf(k)', Budget[k[2]], now', F!Counted(k)')
BY SameCounts DEF F!BucketInStep, Fits, Since, Places

(* Requests counted are finitely many, none of them is in the future.        *)
LEMMA CountedIs ==
    ASSUME F!DoorTyped, ServicesAssumption, NEW k
    PROVE  /\ IsFiniteSet(F!Counted(k)) /\ \A s \in F!Counted(k) : s.at \in 0..now
           /\ \A from : Cardinality(Since(F!Counted(k), from)) \in Nat
           /\ now \in Nat
           /\ k \in F!Keys => Budget[k[2]] \in Nat
<1>1. IsFiniteSet(served) /\ F!Counted(k) \in SUBSET served
  BY SameFinite DEF F!DoorTyped, F!Counted
<1>2. IsFiniteSet(F!Counted(k))
  BY <1>1, FS_Subset
<1>3. ASSUME NEW from PROVE Cardinality(Since(F!Counted(k), from)) \in Nat
  <2>1. Since(F!Counted(k), from) \in SUBSET F!Counted(k)
    BY DEF Since
  <2> QED
    BY <1>2, <2>1, FS_Subset, FS_CardinalityType
<1>4. k \in F!Keys => Budget[k[2]] \in Nat
  BY DoorAssumed DEF F!Keys
<1>5. (\A s \in F!Counted(k) : s.at \in 0..now) /\ now \in Nat
  <2>1. now \in 0..MaxTime /\ \A s \in served : s.at \in 0..now
    BY Zenon DEF F!DoorTyped
  <2>2. F!Counted(k) \subseteq served
    BY DEF F!Counted
  <2>3. now \in Nat
    BY <2>1
  <2> QED
    BY <2>1, <2>2, <2>3, Zenon
<1> QED
  BY <1>2, <1>3, <1>4, <1>5

(* The windows up to now keep the budget if the bucket fits.                 *)
LEMMA WindowsFit ==
    ASSUME NEW at \in Nat, NEW cap \in Nat, NEW C, NEW D, NEW b, RateWindow \in Nat,
           IsFiniteSet(D), \A s \in D : s.at \in 0..at, Fits(b, cap, at, D),
           C \subseteq D, \A s \in D \ C : s.at = at,
           \A from \in 0..at : Cardinality({s \in C : s.at \in from..(from + RateWindow)}) <= cap
    PROVE  \A from \in 0..at :
              Cardinality({s \in D : s.at \in from..(from + RateWindow)}) <= cap
<1> SUFFICES ASSUME NEW from \in 0..at
             PROVE  Cardinality({s \in D : s.at \in from..(from + RateWindow)}) <= cap
  OBVIOUS
<1> DEFINE window == {s \in D : s.at \in from..(from + RateWindow)}
<1>1. CASE from + RateWindow < at
  <2>1. window = {s \in C : s.at \in from..(from + RateWindow)}
    BY <1>1
  <2> HIDE DEF window
  <2>2. Cardinality(window) <= cap
    BY <2>1
  <2> QED
    BY <2>2 DEF window
<1>2. CASE from + RateWindow >= at
  <2>1. from \in (at - RateWindow)..at
    BY <1>2
  <2>2. window \in SUBSET Since(D, from) /\ Since(D, from) \in SUBSET D
    BY DEF Since
  <2> HIDE DEF window
  <2>3. /\ IsFiniteSet(Since(D, from)) /\ Cardinality(Since(D, from)) \in Nat
        /\ Cardinality(window) \in Nat /\ Cardinality(window) <= Cardinality(Since(D, from))
    BY <2>2, FS_Subset, FS_CardinalityType
  <2>4. /\ Cardinality(Since(D, from)) <= Cardinality(Places(b, from))
        /\ b \in Seq(0..at) /\ Len(b) <= cap /\ Len(b) \in Nat
    BY <2>1 DEF Fits
  <2>5. Cardinality(Places(b, from)) \in Nat /\ Cardinality(Places(b, from)) <= Len(b)
    BY <2>4, PlacesCount
  <2>6. Cardinality(window) <= cap
    BY <2>3, <2>4, <2>5
  <2> QED
    BY <2>6 DEF window
<1> QED
  BY <1>1, <1>2

LEMMA WindowIsKept ==
    /\ \A k : F!WindowKept(k) <=>
          \A from \in 0..now : Cardinality({s \in F!Counted(k) :
                                   s.at \in from..(from + RateWindow)}) <= Budget[k[2]]
    /\ \A k : F!WindowKept(k)' <=>
          \A from \in 0..now' : Cardinality({s \in F!Counted(k)' :
                                   s.at \in from..(from + RateWindow)}) <= Budget[k[2]]
BY SameCounts DEF F!WindowKept

(* The key of a request, and the recent hits of its bucket.                  *)
LEMMA KeyIs ==
    ASSUME F!DoorTyped, NEW c \in Clients
    PROVE  F!Key(c) \in F!Keys
<1>1. sends[c] \in Kinds
  BY DEF F!DoorTyped
<1>2. \A p : F!Suffix(p) \in {"auth", ""}
  BY DEF F!Suffix
<1>3. \E p, i : F!Key(c) = <<i, F!Suffix(p)>> /\ i \in {sends[c].address, sends[c].credential}
  <2> DEFINE p == F!canonical_path(sends[c].path)
             i == F!client_identity(c, p \in F!AuthPaths)
  <2>1. F!Key(c) = <<i, F!Suffix(p)>>
    BY DEF F!Key
  <2>2. i \in {sends[c].address, sends[c].credential}
    BY DEF F!client_identity
  <2> HIDE DEF i, p
  <2> QED
    BY <2>1, <2>2
<1>4. PICK p, i : F!Key(c) = <<i, F!Suffix(p)>> /\ i \in {sends[c].address, sends[c].credential}
  BY <1>3
<1> DEFINE X == {k.address : k \in Kinds} \cup {k.credential : k \in Kinds}
<1>5. i \in X
  BY <1>1, <1>4
<1>6. F!Suffix(p) \in {"auth", ""}
  BY <1>2
<1>7. F!Keys = X \X {"auth", ""}
  BY DEF F!Keys
<1> HIDE DEF X
<1>8. <<i, F!Suffix(p)>> \in X \X {"auth", ""}
  BY <1>5, <1>6
<1> QED
  BY <1>4, <1>7, <1>8, Zenon

LEMMA BucketFits ==
    ASSUME F!DoorInv, ServicesAssumption, NEW c \in Clients
    PROVE  Fits(F!Bucket(c), Budget[F!Key(c)[2]], now, F!Counted(F!Key(c)))
<1> DEFINE k == F!Key(c)
<1>1. k \in F!Keys
  BY KeyIs DEF F!DoorInv
<1> HIDE DEF k
<1>2. Fits(F!BucketOf(k), Budget[k[2]], now, F!Counted(k))
  BY <1>1, BucketIs DEF F!DoorInv
<1>3. CASE k \in DOMAIN hits
  <2>1. F!BucketOf(k) = hits[k] /\ F!Bucket(c) = F!Filter(hits[k], (now - RateWindow)..now)
    BY <1>3 DEF F!BucketOf, F!Bucket, F!Recent, k
  <2> QED
    BY <1>1, <1>2, <2>1, CountedIs, DoorAssumed, RecentFits DEF F!DoorInv, k
<1>4. CASE k \notin DOMAIN hits
  <2>1. F!BucketOf(k) = <<>> /\ F!Bucket(c) = <<>>
    BY <1>4 DEF F!BucketOf, F!Bucket, k
  <2> QED
    BY <1>2, <2>1 DEF k
<1> QED
  BY <1>3, <1>4

LEMMA LastThere == ASSUME NEW T, NEW b \in Seq(T), b # <<>> PROVE b[Len(b)] \in T
OBVIOUS

(* What changes neither time nor buckets nor the requests let through.       *)
LEMMA RateUntouched ==
    ASSUME UNCHANGED <<now, hits, served>>
    PROVE  \A k : /\ F!BucketInStep(k) => F!BucketInStep(k)'
                  /\ F!WindowKept(k) => F!WindowKept(k)'
<1>1. \A k : F!BucketOf(k)' = F!BucketOf(k) /\ F!Counted(k)' = F!Counted(k)
  BY DEF F!BucketOf, F!Counted
<1> QED
  BY <1>1, BucketIs, WindowIsKept

(* The rate limit survives a refused request.                                *)
LEMMA RefusedRate ==
    ASSUME F!DoorInv, ServicesAssumption, NEW c \in Clients, F!RefuseRate(c)
    PROVE  /\ \A k \in F!Keys : F!BucketInStep(k)' /\ F!WindowKept(k)'
           /\ DOMAIN hits' \subseteq F!Keys /\ hits' = [k \in DOMAIN hits' |-> hits'[k]]
<1>0. PICK z : z = F!Key(c)
  OBVIOUS
<1>1. z \in F!Keys
  BY <1>0, KeyIs DEF F!DoorInv
<1>2. Fits(F!Bucket(c), Budget[z[2]], now, F!Counted(z))
  BY <1>0, BucketFits
<1>3. hits' = [k \in DOMAIN hits \cup {z} |-> IF k = z THEN F!Bucket(c) ELSE hits[k]]
  BY <1>0 DEF F!RefuseRate, F!With
<1>4. DOMAIN hits \subseteq F!Keys
  BY Zenon DEF F!DoorInv, F!DoorTyped
<1>5. now' = now /\ \A k : F!Counted(k)' = F!Counted(k)
  BY DEF F!RefuseRate, F!Counted
<1>6. F!BucketOf(z)' = F!Bucket(c) /\ \A k : k # z => F!BucketOf(k)' = F!BucketOf(k)
  BY <1>3 DEF F!BucketOf
<1>7. \A k \in F!Keys : F!BucketInStep(k)'
  <2> SUFFICES ASSUME NEW k \in F!Keys PROVE F!BucketInStep(k)'
    OBVIOUS
  <2>1. F!BucketInStep(k)
    BY DEF F!DoorInv
  <2>2. CASE k = z
    BY <1>2, <1>5, <1>6, <2>2, BucketIs
  <2>3. CASE k # z
    BY <1>5, <1>6, <2>1, <2>3, BucketIs
  <2> QED
    BY <2>2, <2>3
<1>8. \A k \in F!Keys : F!WindowKept(k)'
  BY <1>5, WindowIsKept DEF F!DoorInv
<1> QED
  BY <1>1, <1>3, <1>4, <1>7, <1>8

(* The request that is let through, and the key it counts for.               *)
LEMMA CountedRequest ==
    ASSUME F!DoorTyped, NEW c \in Clients, F!CountHit(c)
    PROVE  \E x : /\ served' = served \cup {x} /\ x.at = now /\ F!Mark(x) = F!Key(c)
<1> DEFINE x == [n |-> F!Cardinality({s \in served : s.at = now /\ s.client = c}),
                 client |-> c, at |-> now, address |-> sends[c].address,
                 credential |-> sends[c].credential, path |-> sends[c].path[2]]
<1>1. served' = served \cup {x} /\ x.at = now
  BY DEF F!CountHit
<1>2. /\ x.path = sends[c].path[2] /\ x.address = sends[c].address
      /\ x.credential = sends[c].credential
  OBVIOUS
<1> HIDE DEF x
<1>3. F!Mark(x) = F!Key(c)
  BY <1>2 DEF F!Mark, F!Key, F!client_identity, F!canonical_path
<1> QED
  BY <1>1, <1>3

(* Dropping idle buckets keeps the others as they are.                       *)
LEMMA DropIdleIs ==
    ASSUME NEW h, NEW k, now \in Nat
    PROVE  /\ DOMAIN F!DropIdle(h) \subseteq DOMAIN h
           /\ h = [x \in DOMAIN h |-> h[x]] =>
                 F!DropIdle(h) = [x \in DOMAIN F!DropIdle(h) |-> F!DropIdle(h)[x]]
           /\ k \in DOMAIN F!DropIdle(h) => F!DropIdle(h)[k] = h[k]
           /\ k \in DOMAIN h /\ k \notin DOMAIN F!DropIdle(h) =>
                 h[k] = <<>> \/ ~(h[k][Len(h[k])] >= now - RateWindow)
BY DEF F!DropIdle

(* The rate limit survives a request that is let through.                    *)
LEMMA CountedRate ==
    ASSUME F!DoorInv, ServicesAssumption, NEW c \in Clients, F!CountHit(c)
    PROVE  /\ \A k \in F!Keys : F!BucketInStep(k)' /\ F!WindowKept(k)'
           /\ DOMAIN hits' \subseteq F!Keys /\ hits' = [k \in DOMAIN hits' |-> hits'[k]]
           /\ F!IsFiniteSet(served')
           /\ \A s \in served' : s.at \in 0..now /\ F!Mark(s) \in F!Keys
<1>0. PICK z : z = F!Key(c)
  OBVIOUS
<1> DEFINE times == Append(F!Bucket(c), now)
           h == [k \in DOMAIN hits \cup {z} |-> IF k = z THEN times ELSE hits[k]]
           Held(k) == IF k \in DOMAIN h THEN h[k] ELSE <<>>
<1>1. z \in F!Keys
  BY <1>0, KeyIs DEF F!DoorInv
<1>2. PICK x : served' = served \cup {x} /\ x.at = now /\ F!Mark(x) = z
  BY <1>0, CountedRequest DEF F!DoorInv
<1>3. Fits(F!Bucket(c), Budget[z[2]], now, F!Counted(z)) /\ Len(F!Bucket(c)) < Budget[z[2]]
  <2>1. Fits(F!Bucket(c), Budget[z[2]], now, F!Counted(z))
    BY <1>0, BucketFits
  <2>2. ~(Len(F!Bucket(c)) >= Budget[z[2]])
    BY <1>0 DEF F!CountHit, F!Full
  <2>3. Len(F!Bucket(c)) \in Nat /\ Budget[z[2]] \in Nat
    BY <1>1, <2>1, CountedIs DEF Fits, F!DoorInv
  <2> QED
    BY <2>1, <2>2, <2>3
<1>4. now \in Nat /\ now' = now /\ RateWindow \in Nat
  BY CountedIs, DoorAssumed DEF F!CountHit, F!DoorInv
<1>5. hits' = F!DropIdle(h)
  BY <1>0 DEF F!CountHit, F!With
<1>6. DOMAIN hits \subseteq F!Keys /\ \A s \in served : s.at \in 0..now /\ F!Mark(s) \in F!Keys
  BY Zenon DEF F!DoorInv, F!DoorTyped
<1>7. /\ F!Counted(z)' = F!Counted(z) \cup {x}
      /\ \A k : k # z => F!Counted(k)' = F!Counted(k)
  BY <1>2 DEF F!Counted, F!Mark
<1>8. \A k \in F!Keys : /\ IsFiniteSet(F!Counted(k)) /\ IsFiniteSet(F!Counted(k)')
                        /\ \A s \in F!Counted(k)' : s.at \in 0..now
                        /\ F!Counted(k) \subseteq F!Counted(k)'
                        /\ \A s \in F!Counted(k)' \ F!Counted(k) : s.at = now
                        /\ Budget[k[2]] \in Nat
  <2> SUFFICES ASSUME NEW k \in F!Keys
               PROVE  /\ IsFiniteSet(F!Counted(k)) /\ IsFiniteSet(F!Counted(k)')
                      /\ \A s \in F!Counted(k)' : s.at \in 0..now
                      /\ F!Counted(k) \subseteq F!Counted(k)'
                      /\ \A s \in F!Counted(k)' \ F!Counted(k) : s.at = now
                      /\ Budget[k[2]] \in Nat
    OBVIOUS
  <2>1. /\ IsFiniteSet(F!Counted(k)) /\ Budget[k[2]] \in Nat
        /\ \A s \in F!Counted(k) : s.at \in 0..now
    BY CountedIs DEF F!DoorInv
  <2>2. F!Counted(k)' = F!Counted(k) \/ F!Counted(k)' = F!Counted(k) \cup {x}
    BY <1>7
  <2>3. IsFiniteSet(F!Counted(k) \cup {x})
    BY <2>1, OneMore
  <2>4. IsFiniteSet(F!Counted(k)')
    BY <2>1, <2>2, <2>3
  <2> QED
    BY <1>2, <1>4, <2>1, <2>2, <2>4
<1>9. \A k \in F!Keys : Fits(Held(k), Budget[k[2]], now, F!Counted(k)')
  <2> SUFFICES ASSUME NEW k \in F!Keys
               PROVE  Fits(Held(k), Budget[k[2]], now, F!Counted(k)')
    OBVIOUS
  <2>1. CASE k = z
    <3>1. Held(k) = times
      BY <2>1
    <3>2. Fits(times, Budget[z[2]], now, F!Counted(z)')
      BY <1>1, <1>3, <1>4, <1>7, <1>8, AppendFits
    <3> HIDE DEF Held, times
    <3> QED
      BY <2>1, <3>1, <3>2
  <2>2. CASE k # z
    <3>1. Held(k) = F!BucketOf(k)
      BY <2>2 DEF F!BucketOf
    <3> HIDE DEF Held
    <3>2. Fits(F!BucketOf(k), Budget[k[2]], now, F!Counted(k))
      BY BucketIs DEF F!DoorInv
    <3> QED
      BY <1>7, <2>2, <3>1, <3>2
  <2> QED
    BY <2>1, <2>2
<1>10. h = [k \in DOMAIN h |-> h[k]] /\ DOMAIN h \subseteq F!Keys
  BY <1>1, <1>6
<1>11. \A k \in F!Keys : Fits(F!BucketOf(k)', Budget[k[2]], now, F!Counted(k)')
  <2> SUFFICES ASSUME NEW k \in F!Keys
               PROVE  Fits(F!BucketOf(k)', Budget[k[2]], now, F!Counted(k)')
    OBVIOUS
  <2>1. F!BucketOf(k)' = IF k \in DOMAIN hits' THEN hits'[k] ELSE <<>>
    BY DEF F!BucketOf
  <2> HIDE DEF h
  <2>2. CASE k \in DOMAIN hits'
    <3>1. F!BucketOf(k)' = Held(k)
      BY <1>4, <1>5, <2>1, <2>2, DropIdleIs
    <3> QED
      BY <1>9, <3>1
  <2>3. CASE k \notin DOMAIN hits' /\ k \notin DOMAIN h
    <3>1. F!BucketOf(k)' = Held(k)
      BY <2>1, <2>3
    <3> QED
      BY <1>9, <3>1
  <2>4. CASE k \notin DOMAIN hits' /\ k \in DOMAIN h
    <3>1. Held(k) = h[k] /\ F!BucketOf(k)' = <<>>
      BY <2>1, <2>4
    <3>2. h[k] = <<>> \/ ~(h[k][Len(h[k])] >= now - RateWindow)
      BY <1>4, <1>5, <2>4, DropIdleIs
    <3>3. Fits(h[k], Budget[k[2]], now, F!Counted(k)')
      BY <1>9, <3>1
    <3>4. h[k] = <<>> \/ h[k][Len(h[k])] < now - RateWindow
      <4>1. h[k] \in Seq(0..now)
        BY <3>3 DEF Fits
      <4>2. CASE h[k] # <<>>
        <5>1. h[k][Len(h[k])] \in 0..now
          BY <4>1, <4>2, LastThere
        <5> QED
          BY <1>4, <3>2, <4>2, <5>1
      <4> QED
        BY <4>2
    <3> QED
      BY <1>4, <1>8, <3>1, <3>3, <3>4, IdleFits
  <2> QED
    BY <2>2, <2>3, <2>4
<1>12. \A k \in F!Keys : F!BucketInStep(k)'
  BY <1>4, <1>11, BucketIs
<1>13. \A k \in F!Keys : F!WindowKept(k)'
  <2> SUFFICES ASSUME NEW k \in F!Keys PROVE F!WindowKept(k)'
    OBVIOUS
  <2>1. \A from \in 0..now : Cardinality({s \in F!Counted(k) :
                                s.at \in from..(from + RateWindow)}) <= Budget[k[2]]
    BY WindowIsKept DEF F!DoorInv
  <2>2. \A from \in 0..now : Cardinality({s \in F!Counted(k)' :
                                s.at \in from..(from + RateWindow)}) <= Budget[k[2]]
    BY <1>4, <1>8, <1>11, <2>1, WindowsFit
  <2> QED
    BY <1>4, <2>2, WindowIsKept
<1>14. DOMAIN hits' \subseteq F!Keys /\ hits' = [k \in DOMAIN hits' |-> hits'[k]]
  <2> HIDE DEF h
  <2> QED
    BY <1>4, <1>5, <1>10, DropIdleIs
<1>15. F!IsFiniteSet(served')
  <2>1. IsFiniteSet(served)
    BY SameFinite, Zenon DEF F!DoorInv, F!DoorTyped
  <2> QED
    BY <1>2, <2>1, OneMore, SameFinite
<1>16. \A s \in served' : s.at \in 0..now /\ F!Mark(s) \in F!Keys
  BY <1>1, <1>2, <1>4, <1>6
<1> QED
  BY <1>12, <1>13, <1>14, <1>15, <1>16

-----------------------------------------------------------------------------
(* The request metrics.                                                      *)

Stages == [stage : {"body", "rate", "csrf", "handler"}]
             \cup [stage : {"leaving"}, status : F!Answers]

UnderWay == {c \in Clients : ~F!Stage(c, "outside")}

LEMMA RequestsTyped ==
    ASSUME F!DoorTyped, NEW c \in Clients, NEW r \in Stages \cup {F!Outside},
           req' = [req EXCEPT ![c] = r]
    PROVE  /\ req' \in [Clients -> [stage : {"outside", "body", "rate", "csrf", "handler"}]
                                   \cup [stage : {"leaving"}, status : F!Answers]]
           /\ req'[c] = r /\ \A d \in Clients : d # c => req'[d] = req[d]
           /\ r \in Stages => UnderWay' = UnderWay \cup {c}
           /\ r = F!Outside => UnderWay' = UnderWay \ {c}
<1> DEFINE All == [stage : {"outside", "body", "rate", "csrf", "handler"}]
                     \cup [stage : {"leaving"}, status : F!Answers]
<1>1. req \in [Clients -> All]
  BY Zenon DEF F!DoorTyped
<1>2. r \in All /\ (r \in Stages => r.stage # "outside") /\ (r = F!Outside => r.stage = "outside")
  BY DEF Stages, F!Outside
<1>3. req' \in [Clients -> All] /\ req'[c] = r /\ \A d \in Clients : d # c => req'[d] = req[d]
  <2> HIDE DEF All
  <2> QED
    BY <1>1, <1>2
<1>4. r \in Stages => UnderWay' = UnderWay \cup {c}
  BY <1>2, <1>3 DEF UnderWay, F!Stage
<1>5. r = F!Outside => UnderWay' = UnderWay \ {c}
  BY <1>2, <1>3 DEF UnderWay, F!Stage
<1> QED
  BY <1>3, <1>4, <1>5

(* The books, with the requests under way counted.                           *)
Books(m, n) ==
    /\ m.in_flight = n
    /\ m.total + m.outcomes[0] + m.in_flight = m.entered
    /\ m.rejected = m.outcomes[429]
    /\ m.errors = m.outcomes[403] + m.outcomes[413] + m.outcomes[429] + m.outcomes[500]

LEMMA BooksAre ==
    /\ F!BooksMatch <=> Books(metrics, Cardinality(UnderWay))
    /\ F!BooksMatch' <=> Books(metrics', Cardinality(UnderWay'))
BY SameCounts DEF F!BooksMatch, Books, UnderWay

Ledgers == [in_flight : Nat, entered : Nat, total : Nat, errors : Nat, rejected : Nat,
            outcomes : [F!Answers -> Nat]]

LEMMA LedgerFields ==
    ASSUME NEW m \in Ledgers
    PROVE  /\ m.in_flight \in Nat /\ m.entered \in Nat /\ m.total \in Nat
           /\ m.errors \in Nat /\ m.rejected \in Nat /\ m.outcomes \in [F!Answers -> Nat]
           /\ m.outcomes[0] \in Nat /\ m.outcomes[200] \in Nat /\ m.outcomes[403] \in Nat
           /\ m.outcomes[413] \in Nat /\ m.outcomes[429] \in Nat /\ m.outcomes[500] \in Nat
BY DEF Ledgers, F!Answers

LEMMA EnteredBooks ==
    ASSUME NEW m \in Ledgers, NEW n \in Nat, Books(m, n)
    PROVE  \A e : e = [m EXCEPT !.in_flight = @ + 1, !.entered = @ + 1] =>
              e \in Ledgers /\ Books(e, n + 1)
<1> SUFFICES ASSUME NEW e, e = [m EXCEPT !.in_flight = @ + 1, !.entered = @ + 1]
             PROVE  e \in Ledgers /\ Books(e, n + 1)
  OBVIOUS
<1>1. /\ e.in_flight = m.in_flight + 1 /\ e.entered = m.entered + 1 /\ e.total = m.total
      /\ e.errors = m.errors /\ e.rejected = m.rejected /\ e.outcomes = m.outcomes
  BY DEF Ledgers
<1>2. e \in Ledgers
  <2>1. m.in_flight + 1 \in Nat /\ m.entered + 1 \in Nat
    BY LedgerFields
  <2> QED
    BY <2>1 DEF Ledgers
<1> QED
  BY <1>1, <1>2, LedgerFields DEF Books

(* What Settle() books of an answer.                                         *)
LEMMA SettleIs ==
    ASSUME NEW m \in Ledgers, m.in_flight - 1 \in Nat, NEW status \in F!Answers,
           NEW e, e = F!Settle(m, status)
    PROVE  /\ e \in Ledgers /\ e.in_flight = m.in_flight - 1 /\ e.entered = m.entered
           /\ e.outcomes = m.outcomes
           /\ e.total = IF status = 0 THEN m.total ELSE m.total + 1
           /\ e.errors = IF status \in {0, 200} THEN m.errors ELSE m.errors + 1
           /\ e.rejected = IF status = 429 THEN m.rejected + 1 ELSE m.rejected
<1>0. PICK left : left = [m EXCEPT !.in_flight = @ - 1]
  OBVIOUS
<1>1. /\ left \in Ledgers /\ left.in_flight = m.in_flight - 1 /\ left.entered = m.entered
      /\ left.total = m.total /\ left.errors = m.errors /\ left.rejected = m.rejected
      /\ left.outcomes = m.outcomes
  BY <1>0 DEF Ledgers
<1>2. CASE status = 0
  BY <1>0, <1>1, <1>2 DEF F!Settle
<1>3. CASE status # 0
  <2>1. PICK x, y : /\ x = (IF status >= 400 THEN 1 ELSE 0) /\ y = (IF status = 429 THEN 1 ELSE 0)
    OBVIOUS
  <2>2. x = (IF status \in {0, 200} THEN 0 ELSE 1) /\ x \in {0, 1} /\ y \in {0, 1}
    BY <1>3, <2>1 DEF F!Answers
  <2>3. e = [left EXCEPT !.total = @ + 1, !.errors = @ + x, !.rejected = @ + y]
    BY <1>0, <1>3, <2>1 DEF F!Settle
  <2>4. /\ e.in_flight = left.in_flight /\ e.entered = left.entered
        /\ e.outcomes = left.outcomes /\ e.total = left.total + 1
        /\ e.errors = left.errors + x /\ e.rejected = left.rejected + y
    BY <1>1, <2>3 DEF Ledgers
  <2>5. left.total + 1 \in Nat /\ left.errors + x \in Nat /\ left.rejected + y \in Nat
    BY <1>1, <2>2, LedgerFields
  <2>6. e \in Ledgers
    BY <1>1, <2>3, <2>5 DEF Ledgers
  <2> QED
    BY <1>1, <1>3, <2>1, <2>2, <2>4, <2>6, LedgerFields
<1> QED
  BY <1>2, <1>3

LEMMA LeftBooks ==
    ASSUME NEW m \in Ledgers, NEW n \in Nat, n > 0, Books(m, n), NEW status \in F!Answers
    PROVE  \A e : e = [F!Settle(m, status) EXCEPT !.outcomes[status] = @ + 1] =>
              e \in Ledgers /\ Books(e, n - 1)
<1> SUFFICES ASSUME NEW e, e = [F!Settle(m, status) EXCEPT !.outcomes[status] = @ + 1]
             PROVE  e \in Ledgers /\ Books(e, n - 1)
  OBVIOUS
<1>1. PICK s : s = F!Settle(m, status)
  OBVIOUS
<1>2. m.in_flight = n /\ m.in_flight - 1 \in Nat
  BY DEF Books
<1>3. /\ s \in Ledgers /\ s.in_flight = n - 1 /\ s.entered = m.entered
      /\ s.outcomes = m.outcomes
      /\ s.total = IF status = 0 THEN m.total ELSE m.total + 1
      /\ s.errors = IF status \in {0, 200} THEN m.errors ELSE m.errors + 1
      /\ s.rejected = IF status = 429 THEN m.rejected + 1 ELSE m.rejected
  BY <1>1, <1>2, SettleIs
<1>4. e = [s EXCEPT !.outcomes[status] = @ + 1]
  BY <1>1
<1>5. /\ e.in_flight = n - 1 /\ e.entered = s.entered /\ e.total = s.total
      /\ e.errors = s.errors /\ e.rejected = s.rejected
      /\ e.outcomes = [m.outcomes EXCEPT ![status] = @ + 1]
  BY <1>3, <1>4 DEF Ledgers
<1>6. e \in Ledgers
  <2>1. PICK o : o = [s.outcomes EXCEPT ![status] = @ + 1]
    OBVIOUS
  <2>2. o \in [F!Answers -> Nat]
    BY <1>3, <2>1, LedgerFields
  <2>3. e = [s EXCEPT !.outcomes = o]
    BY <1>4, <2>1
  <2> QED
    BY <1>3, <2>2, <2>3, ZenonT(60) DEF Ledgers
<1>7. \A x \in F!Answers :
        e.outcomes[x] = IF x = status THEN m.outcomes[x] + 1 ELSE m.outcomes[x]
  BY <1>5, LedgerFields
<1>8. /\ e.outcomes[0] = IF status = 0 THEN m.outcomes[0] + 1 ELSE m.outcomes[0]
      /\ e.outcomes[403] = IF status = 403 THEN m.outcomes[403] + 1 ELSE m.outcomes[403]
      /\ e.outcomes[413] = IF status = 413 THEN m.outcomes[413] + 1 ELSE m.outcomes[413]
      /\ e.outcomes[429] = IF status = 429 THEN m.outcomes[429] + 1 ELSE m.outcomes[429]
      /\ e.outcomes[500] = IF status = 500 THEN m.outcomes[500] + 1 ELSE m.outcomes[500]
  BY <1>7 DEF F!Answers
<1>9. status \in {0, 200, 403, 413, 429, 500}
  BY DEF F!Answers
<1> QED
  BY <1>2, <1>3, <1>5, <1>6, <1>8, <1>9, LedgerFields DEF Books

(* Requests under way are at most as many as the clients.                    *)
LEMMA UnderWayFinite ==
    ServicesAssumption =>
        /\ IsFiniteSet(UnderWay) /\ Cardinality(UnderWay) \in Nat
        /\ Cardinality(UnderWay) <= Cardinality(Clients) /\ Cardinality(Clients) \in Nat
<1> SUFFICES ASSUME ServicesAssumption
             PROVE  /\ IsFiniteSet(UnderWay) /\ Cardinality(UnderWay) \in Nat
                    /\ Cardinality(UnderWay) <= Cardinality(Clients)
                    /\ Cardinality(Clients) \in Nat
  OBVIOUS
<1>1. UnderWay \in SUBSET Clients
  BY DEF UnderWay
<1> QED
  BY <1>1, DoorAssumed, FS_Subset, FS_CardinalityType

-----------------------------------------------------------------------------
(* The steps.                                                                *)

(* A request moves on; the rate limit and what it counted stay in step.      *)
LEMMA MoveKeeps ==
    ASSUME ServicesAssumption, F!DoorInv, NEW c \in Clients, ~F!Stage(c, "outside"),
           NEW r \in Stages, req' = [req EXCEPT ![c] = r], UNCHANGED <<now, metrics, sends>>,
           \A k \in F!Keys : F!BucketInStep(k)' /\ F!WindowKept(k)',
           DOMAIN hits' \subseteq F!Keys, hits' = [k \in DOMAIN hits' |-> hits'[k]],
           F!IsFiniteSet(served'), \A s \in served' : s.at \in 0..now /\ F!Mark(s) \in F!Keys
    PROVE  F!DoorInv'
<1>1. F!DoorTyped /\ F!BooksMatch
  BY DEF F!DoorInv
<1>2. UnderWay' = UnderWay
  <2>1. UnderWay' = UnderWay \cup {c}
    BY <1>1, RequestsTyped
  <2> QED
    BY <2>1 DEF UnderWay
<1>3. F!BooksMatch'
  BY <1>1, <1>2, BooksAre
<1>4. F!DoorTyped'
  <2>1. req' \in [Clients -> [stage : {"outside", "body", "rate", "csrf", "handler"}]
                             \cup [stage : {"leaving"}, status : F!Answers]]
    BY <1>1, RequestsTyped
  <2>2. \A s \in served' : (s.at \in 0..now)' /\ F!Mark(s)' \in F!Keys
    BY DEF F!Mark
  <2> QED
    BY <1>1, <2>1, <2>2, Zenon DEF F!DoorTyped
<1> QED
  BY <1>3, <1>4 DEF F!DoorInv

(* The same when no more than the request changes.                           *)
LEMMA PassKeeps ==
    ASSUME ServicesAssumption, F!DoorInv, NEW c \in Clients, ~F!Stage(c, "outside"),
           NEW r \in Stages, req' = [req EXCEPT ![c] = r],
           UNCHANGED <<now, hits, metrics, served, sends>>
    PROVE  F!DoorInv'
<1>1. \A k \in F!Keys : F!BucketInStep(k)' /\ F!WindowKept(k)'
  BY RateUntouched DEF F!DoorInv
<1>2. /\ DOMAIN hits' \subseteq F!Keys /\ hits' = [k \in DOMAIN hits' |-> hits'[k]]
      /\ F!IsFiniteSet(served') /\ \A s \in served' : s.at \in 0..now /\ F!Mark(s) \in F!Keys
  <2>1. /\ DOMAIN hits \subseteq F!Keys /\ hits = [k \in DOMAIN hits |-> hits[k]]
        /\ F!IsFiniteSet(served) /\ \A s \in served : s.at \in 0..now /\ F!Mark(s) \in F!Keys
    BY Zenon DEF F!DoorInv, F!DoorTyped
  <2> QED
    BY <2>1
<1> QED
  BY <1>1, <1>2, MoveKeeps

(* What a layer answers, or the layer it hands on to, is a stage.            *)
LEMMA StagesAre ==
    ASSUME NEW c
    PROVE  /\ \A layer \in {"body", "rate", "csrf", "handler"} :
                 F!Goto(c, layer) => \E r \in Stages : req' = [req EXCEPT ![c] = r]
           /\ \A status \in F!Answers :
                 F!Answer(c, status) => \E r \in Stages : req' = [req EXCEPT ![c] = r]
BY DEF F!Goto, F!Answer, Stages

LEMMA LayersKeep ==
    ASSUME ServicesAssumption, F!DoorInv, NEW c \in Clients,
           F!LimitBody(c) \/ F!PassExempt(c) \/ F!CheckCsrf(c) \/ F!Handle(c)
    PROVE  F!DoorInv'
<1>1. ~F!Stage(c, "outside") /\ UNCHANGED <<now, hits, metrics, served, sends>>
  BY DEF F!LimitBody, F!PassExempt, F!CheckCsrf, F!Handle, F!Stage
<1>2. \/ \E layer \in {"body", "rate", "csrf", "handler"} : F!Goto(c, layer)
      \/ \E status \in F!Answers : F!Answer(c, status)
  BY DEF F!LimitBody, F!PassExempt, F!CheckCsrf, F!Handle, F!Answers
<1>3. \E r \in Stages : req' = [req EXCEPT ![c] = r]
  BY <1>2, StagesAre
<1> QED
  BY <1>1, <1>3, PassKeeps

LEMMA RateKeeps ==
    ASSUME ServicesAssumption, F!DoorInv, NEW c \in Clients, F!RefuseRate(c) \/ F!CountHit(c)
    PROVE  F!DoorInv'
<1>1. ~F!Stage(c, "outside") /\ UNCHANGED <<now, metrics, sends>>
  BY DEF F!RefuseRate, F!CountHit, F!Stage
<1>2. F!Goto(c, "csrf") \/ F!Answer(c, 429)
  BY DEF F!RefuseRate, F!CountHit
<1>3. \E r \in Stages : req' = [req EXCEPT ![c] = r]
  BY <1>2, StagesAre DEF F!Answers
<1>4. CASE F!RefuseRate(c)
  <2>1. served' = served
    BY <1>4 DEF F!RefuseRate
  <2>2. F!IsFiniteSet(served) /\ \A s \in served : s.at \in 0..now /\ F!Mark(s) \in F!Keys
    BY Zenon DEF F!DoorInv, F!DoorTyped
  <2>3. F!IsFiniteSet(served') /\ \A s \in served' : s.at \in 0..now /\ F!Mark(s) \in F!Keys
    BY <2>1, <2>2
  <2> QED
    BY <1>1, <1>3, <1>4, <2>3, RefusedRate, MoveKeeps
<1>5. CASE F!CountHit(c)
  BY <1>1, <1>3, <1>5, CountedRate, MoveKeeps
<1> QED
  BY <1>4, <1>5

LEMMA EnterKeeps ==
    ASSUME ServicesAssumption, F!DoorInv, NEW c \in Clients, F!Enter(c) PROVE F!DoorInv'
<1>1. F!DoorTyped /\ F!BooksMatch /\ metrics \in Ledgers
  BY Zenon DEF F!DoorInv, F!DoorTyped, Ledgers
<1>2. UNCHANGED <<now, hits, served, sends>> /\ c \notin UnderWay
  BY DEF F!Enter, UnderWay
<1>3. \E r \in Stages : req' = [req EXCEPT ![c] = r]
  BY StagesAre DEF F!Enter
<1>4. /\ UnderWay' = UnderWay \cup {c}
      /\ req' \in [Clients -> [stage : {"outside", "body", "rate", "csrf", "handler"}]
                              \cup [stage : {"leaving"}, status : F!Answers]]
  BY <1>1, <1>3, RequestsTyped
<1>5. Cardinality(UnderWay') = Cardinality(UnderWay) + 1
  BY <1>2, <1>4, UnderWayFinite, FS_AddElement
<1>6. metrics' \in Ledgers /\ Books(metrics', Cardinality(UnderWay) + 1)
  <2>1. Books(metrics, Cardinality(UnderWay)) /\ Cardinality(UnderWay) \in Nat
    BY <1>1, BooksAre, UnderWayFinite
  <2>2. metrics' = [metrics EXCEPT !.in_flight = @ + 1, !.entered = @ + 1]
    BY DEF F!Enter
  <2> QED
    BY <1>1, <2>1, <2>2, EnteredBooks
<1>7. F!BooksMatch'
  BY <1>5, <1>6, BooksAre
<1>8. F!DoorTyped'
  BY <1>1, <1>2, <1>4, <1>6, Zenon DEF F!DoorTyped, F!Mark, Ledgers
<1> QED
  BY <1>2, <1>7, <1>8, RateUntouched DEF F!DoorInv

LEMMA LeaveKeeps ==
    ASSUME ServicesAssumption, F!DoorInv, NEW c \in Clients, F!Leave(c) PROVE F!DoorInv'
<1>1. F!DoorTyped /\ F!BooksMatch /\ metrics \in Ledgers
  BY Zenon DEF F!DoorInv, F!DoorTyped, Ledgers
<1>2. UNCHANGED <<now, hits, served, sends>> /\ c \in UnderWay
  BY DEF F!Leave, UnderWay, F!Stage
<1>3. req' = [req EXCEPT ![c] = F!Outside]
  BY DEF F!Leave
<1>4. /\ UnderWay' = UnderWay \ {c}
      /\ req' \in [Clients -> [stage : {"outside", "body", "rate", "csrf", "handler"}]
                              \cup [stage : {"leaving"}, status : F!Answers]]
  BY <1>1, <1>3, RequestsTyped
<1>5. Cardinality(UnderWay') = Cardinality(UnderWay) - 1 /\ Cardinality(UnderWay) > 0
  <2>1. Cardinality(UnderWay') = Cardinality(UnderWay) - 1
    BY <1>2, <1>4, UnderWayFinite, FS_RemoveElement
  <2>2. Cardinality(UnderWay) # 0
    BY <1>2, UnderWayFinite, FS_EmptySet
  <2> QED
    BY <2>1, <2>2, UnderWayFinite
<1>6. metrics' \in Ledgers /\ Books(metrics', Cardinality(UnderWay) - 1)
  <2>1. Books(metrics, Cardinality(UnderWay)) /\ Cardinality(UnderWay) \in Nat
    BY <1>1, BooksAre, UnderWayFinite
  <2>2. PICK status : status = req[c].status
    OBVIOUS
  <2>3. status \in F!Answers
    <3>1. req[c] \in [stage : {"outside", "body", "rate", "csrf", "handler"}]
                     \cup [stage : {"leaving"}, status : F!Answers]
      BY <1>1, Zenon DEF F!DoorTyped
    <3>2. req[c].stage = "leaving"
      BY DEF F!Leave, F!Stage
    <3> QED
      BY <2>2, <3>1, <3>2
  <2>4. metrics' = [F!Settle(metrics, status) EXCEPT !.outcomes[status] = @ + 1]
    BY <2>2 DEF F!Leave
  <2> QED
    BY <1>1, <1>5, <2>1, <2>3, <2>4, LeftBooks
<1>7. F!BooksMatch'
  BY <1>5, <1>6, BooksAre
<1>8. F!DoorTyped'
  BY <1>1, <1>2, <1>4, <1>6, Zenon DEF F!DoorTyped, F!Mark, Ledgers
<1> QED
  BY <1>2, <1>7, <1>8, RateUntouched DEF F!DoorInv

(* Time passes: the windows that end now have fewer requests.                *)
LEMMA DoorTickKeeps ==
    ASSUME ServicesAssumption, F!DoorInv, F!Tick PROVE F!DoorInv'
<1>1. UNCHANGED <<req, hits, metrics, served, sends>> /\ now' = now + 1 /\ now < MaxTime
  BY DEF F!Tick
<1>2. F!DoorTyped /\ F!BooksMatch /\ now \in Nat /\ RateWindow \in Nat /\ MaxTime \in Nat
  BY CountedIs, DoorAssumed DEF F!DoorInv
<1>3. \A k : F!BucketOf(k)' = F!BucketOf(k) /\ F!Counted(k)' = F!Counted(k)
  BY <1>1 DEF F!BucketOf, F!Counted
<1>4. \A k \in F!Keys : F!BucketInStep(k)'
  <2> SUFFICES ASSUME NEW k \in F!Keys PROVE F!BucketInStep(k)'
    OBVIOUS
  <2>1. Fits(F!BucketOf(k), Budget[k[2]], now, F!Counted(k))
    BY BucketIs DEF F!DoorInv
  <2>2. (\A s \in F!Counted(k) : s.at \in 0..now) /\ Budget[k[2]] \in Nat
    BY <1>2, CountedIs
  <2>3. Fits(F!BucketOf(k), Budget[k[2]], now + 1, F!Counted(k))
    BY <1>2, <2>1, <2>2, LaterFits
  <2> QED
    BY <1>1, <1>3, <2>3, BucketIs
<1>5. \A k \in F!Keys : F!WindowKept(k)'
  <2> SUFFICES ASSUME NEW k \in F!Keys PROVE F!WindowKept(k)'
    OBVIOUS
  <2>1. (\A s \in F!Counted(k) : s.at \in 0..now) /\ Budget[k[2]] \in Nat
    BY <1>2, CountedIs
  <2>2. ASSUME NEW from \in 0..(now + 1)
        PROVE  Cardinality({s \in F!Counted(k) : s.at \in from..(from + RateWindow)})
                  <= Budget[k[2]]
    <3>1. CASE from \in 0..now
      BY <3>1, WindowIsKept DEF F!DoorInv
    <3>2. CASE from = now + 1
      <4> DEFINE window == {s \in F!Counted(k) : s.at \in from..(from + RateWindow)}
      <4>1. window = {}
        BY <1>2, <2>1, <3>2
      <4> HIDE DEF window
      <4>2. Cardinality(window) <= Budget[k[2]]
        BY <2>1, <4>1, FS_EmptySet
      <4> QED
        BY <4>2 DEF window
    <3> QED
      BY <1>2, <3>1, <3>2
  <2> QED
    BY <1>1, <1>3, <2>2, WindowIsKept
<1>6. F!BooksMatch'
  BY <1>1, <1>2 DEF F!BooksMatch, F!Stage
<1>7. F!DoorTyped'
  <2>1. now' \in 0..MaxTime /\ \A i \in 0..now : i \in 0..now'
    BY <1>1, <1>2
  <2> QED
    BY <1>1, <1>2, <2>1, Zenon DEF F!DoorTyped, F!Mark
<1> QED
  BY <1>4, <1>5, <1>6, <1>7 DEF F!DoorInv

LEMMA DoorUntouched == ASSUME F!DoorInv, UNCHANGED door PROVE F!DoorInv'
<1>1. UNCHANGED <<now, req, hits, metrics, served, sends>>
  BY DEF door
<1>2. F!BooksMatch'
  BY <1>1 DEF F!DoorInv, F!BooksMatch, F!Stage
<1>3. F!DoorTyped'
  BY <1>1, Zenon DEF F!DoorInv, F!DoorTyped, F!Mark
<1> QED
  BY <1>1, <1>2, <1>3, RateUntouched DEF F!DoorInv

LEMMA DoorInit == ASSUME ServicesAssumption, F!Init PROVE F!DoorInv
<1>1. now = 0 /\ hits = <<>> /\ served = {} /\ sends \in [Clients -> Kinds]
  BY DEF F!Init
<1>2. req = [c \in Clients |-> F!Outside] /\ UnderWay = {}
  BY DEF F!Init, UnderWay, F!Stage, F!Outside
<1>3. metrics \in Ledgers /\ Books(metrics, 0)
  BY DEF F!Init, Ledgers, Books, F!Answers
<1>4. F!BooksMatch
  BY <1>2, <1>3, BooksAre, FS_EmptySet
<1>5. DOMAIN hits = {} /\ \A k : F!BucketOf(k) = <<>> /\ F!Counted(k) = {}
  BY <1>1 DEF F!BucketOf, F!Counted
<1>6. \A k \in F!Keys : Budget[k[2]] \in Nat
  BY DoorAssumed DEF F!Keys
<1>7. \A k \in F!Keys : F!BucketInStep(k)
  BY <1>1, <1>5, <1>6, NothingFits, BucketIs
<1>8. \A k \in F!Keys : F!WindowKept(k)
  <2> SUFFICES ASSUME NEW k \in F!Keys PROVE F!WindowKept(k)
    OBVIOUS
  <2>1. \A from : {s \in F!Counted(k) : s.at \in from..(from + RateWindow)} = {}
    BY <1>5
  <2>2. Cardinality({}) <= Budget[k[2]]
    BY <1>6, FS_EmptySet
  <2> QED
    BY <2>1, <2>2, WindowIsKept, Zenon
<1>9. F!DoorTyped
  <2>1. 0 \in 0..MaxTime
    <3>1. MaxTime \in Nat
      BY DoorAssumed
    <3> QED
      BY <3>1
  <2>2. F!IsFiniteSet({})
    BY SameFinite, FS_EmptySet
  <2>3. F!Outside \in [stage : {"outside", "body", "rate", "csrf", "handler"}]
    BY DEF F!Outside
  <2>4. req \in [Clients -> [stage : {"outside", "body", "rate", "csrf", "handler"}]
                            \cup [stage : {"leaving"}, status : F!Answers]]
    BY <1>2, <2>3
  <2>5. hits = [k \in DOMAIN hits |-> hits[k]]
    BY <1>1
  <2>6. \A s \in served : s.at \in 0..now /\ F!Mark(s) \in F!Keys
    BY <1>1
  <2> QED
    BY <1>1, <1>3, <1>5, <2>1, <2>2, <2>4, <2>5, <2>6, Zenon DEF F!DoorTyped, Ledgers
<1> QED
  BY <1>4, <1>7, <1>8, <1>9 DEF F!DoorInv

LEMMA DoorStep == ASSUME ServicesAssumption, F!DoorInv, F!Next PROVE F!DoorInv'
<1>1. CASE F!Tick
  BY <1>1, DoorTickKeeps
<1>2. ASSUME NEW c \in Clients, F!Step(c) PROVE F!DoorInv'
  BY <1>2, EnterKeeps, LayersKeep, RateKeeps, LeaveKeeps DEF F!Step
<1> QED
  BY <1>1, <1>2 DEF F!Next

(* What the invariant says of addresses, credentials and books.              *)
LEMMA BudgetsTold ==
    ASSUME ServicesAssumption, F!DoorInv
    PROVE  F!TypeOK /\ F!AuthBudget /\ F!GeneralBudget /\ F!BooksMatch
<1>1. IsFiniteSet(served) /\ \A s \in served : F!Mark(s) \in F!Keys
  BY SameFinite, Zenon DEF F!DoorInv, F!DoorTyped
<1>2. ASSUME NEW k \in F!Keys, NEW from \in 0..now, NEW S \in SUBSET served,
             \A s \in S : F!Mark(s) = k /\ s.at \in from..(from + RateWindow)
      PROVE  F!Cardinality(S) <= Budget[k[2]]
  <2> DEFINE window == {s \in F!Counted(k) : s.at \in from..(from + RateWindow)}
  <2>1. Cardinality(window) <= Budget[k[2]]
    BY WindowIsKept DEF F!DoorInv
  <2>2. S \in SUBSET window /\ window \in SUBSET served
    BY <1>2 DEF F!Counted
  <2> HIDE DEF window
  <2>3. /\ Cardinality(S) <= Cardinality(window) /\ Cardinality(S) \in Nat
        /\ Cardinality(window) \in Nat
    BY <1>1, <2>2, FS_Subset, FS_CardinalityType
  <2>4. Budget[k[2]] \in Nat
    BY CountedIs DEF F!DoorInv
  <2> QED
    BY <2>1, <2>3, <2>4, SameCounts
<1>3. F!AuthBudget
  <2> SUFFICES ASSUME NEW address \in {k.address : k \in Kinds}, NEW from \in 0..now
               PROVE  F!Cardinality({s \in served :
                         /\ s.path \in F!AuthPaths /\ s.address = address
                         /\ s.at \in from..(from + RateWindow)}) <= Budget["auth"]
    BY DEF F!AuthBudget
  <2> DEFINE S == {s \in served : /\ s.path \in F!AuthPaths /\ s.address = address
                                  /\ s.at \in from..(from + RateWindow)}
             k == <<address, "auth">>
  <2>1. k \in F!Keys /\ k[2] = "auth"
    BY DEF F!Keys
  <2>2. \A s \in S : F!Mark(s) = k /\ s.at \in from..(from + RateWindow)
    BY DEF F!Mark, F!Suffix
  <2> HIDE DEF S, k
  <2>3. F!Cardinality(S) <= Budget["auth"]
    <3>1. S \in SUBSET served
      BY DEF S
    <3> QED
      BY <1>2, <2>1, <2>2, <3>1
  <2> QED
    BY <2>3 DEF S
<1>4. F!GeneralBudget
  <2> SUFFICES ASSUME NEW credential \in {k.credential : k \in Kinds} \ {"none"},
                      NEW from \in 0..now
               PROVE  F!Cardinality({s \in served :
                         /\ s.path \notin F!AuthPaths /\ s.credential = credential
                         /\ s.at \in from..(from + RateWindow)}) <= Budget[""]
    BY DEF F!GeneralBudget
  <2> DEFINE S == {s \in served : /\ s.path \notin F!AuthPaths /\ s.credential = credential
                                  /\ s.at \in from..(from + RateWindow)}
             k == <<credential, "">>
  <2>1. k \in F!Keys /\ k[2] = ""
    BY DEF F!Keys
  <2>2. \A s \in S : F!Mark(s) = k /\ s.at \in from..(from + RateWindow)
    BY DEF F!Mark, F!Suffix
  <2> HIDE DEF S, k
  <2>3. F!Cardinality(S) <= Budget[""]
    <3>1. S \in SUBSET served
      BY DEF S
    <3> QED
      BY <1>2, <2>1, <2>2, <3>1
  <2> QED
    BY <2>3 DEF S
<1>5. F!TypeOK
  <2>1. now \in 0..MaxTime
    BY Zenon DEF F!DoorInv, F!DoorTyped
  <2>2. ASSUME NEW k \in DOMAIN hits PROVE Len(hits[k]) <= Budget[k[2]]
    <3>1. k \in F!Keys
      BY <2>2, Zenon DEF F!DoorInv, F!DoorTyped
    <3>2. Fits(F!BucketOf(k), Budget[k[2]], now, F!Counted(k)) /\ F!BucketOf(k) = hits[k]
      BY <2>2, <3>1, BucketIs DEF F!DoorInv, F!BucketOf
    <3> QED
      BY <3>2 DEF Fits
  <2>3. metrics.in_flight = Cardinality(UnderWay)
    BY BooksAre DEF F!DoorInv, Books
  <2>4. metrics.in_flight \in 0..F!Cardinality(Clients)
    BY <2>3, UnderWayFinite, SameCounts
  <2> QED
    BY <2>1, <2>2, <2>4 DEF F!TypeOK
<1> QED
  BY <1>3, <1>4, <1>5 DEF F!DoorInv

(* The budgets of the rate limit hold and the request metrics add up, always *)
(* (RateLimitMiddleware, RequestContextMiddleware): no window sees more      *)
(* requests of an address on the credential endpoints, nor of a credential   *)
(* elsewhere, than their budget, however paths are spelled and whatever      *)
(* buckets are dropped; requests under way and their outcomes are counted.   *)
THEOREM BudgetsSafe == Spec => []BudgetsHold
<1> DEFINE Inv == picked = "front" => F!DoorInv
<1>1. Init => Inv
  BY DoorInit, ServicesAssumption DEF Init
<1>2. Inv /\ [Next]_vars => Inv'
  <2> SUFFICES ASSUME Inv, [Next]_vars, picked' = "front" PROVE F!DoorInv'
    OBVIOUS
  <2>1. CASE NextDoor
    BY <2>1, DoorStep, ServicesAssumption DEF NextDoor
  <2>2. CASE NextCalls \/ NextAi \/ NextLibrary \/ NextGraphs \/ UNCHANGED vars
    BY <2>2, DoorUntouched DEF NextCalls, NextAi, NextLibrary, NextGraphs, vars
  <2> QED
    BY <2>1, <2>2 DEF Next
<1>3. Inv => BudgetsHold
  BY BudgetsTold, ServicesAssumption DEF BudgetsHold
<1> QED
  BY <1>1, <1>2, <1>3, PTL DEF Spec

-----------------------------------------------------------------------------
(* Tables.                                                                   *)

(* What is assumed of the requests.                                          *)
LEMMA EditsAssumed ==
    ServicesAssumption =>
        /\ PageSize \in Nat /\ PageSize > 0 /\ MaxEdits \in Nat /\ None \notin Nat
        /\ \A a \in Edits :
              a \in [op : STRING, w : Nat, a : Nat, b : Nat, label : STRING,
                     graph : [ids : BOOLEAN, nodes : Seq(Nat),
                              edges : Seq(Nat \X Nat \X STRING)]]
BY DEF ServicesAssumption, W!LibraryAssumption

(* The library's sets are the sets of the theorems about finite sets.        *)
LEMMA LibrarySets ==
    \A T : /\ W!IsFiniteSet(T) <=> IsFiniteSet(T)
           /\ W!Cardinality(T) = Cardinality(T)
<1>1. \A T : W!IsFiniteSet(T) <=> IsFiniteSet(T)
  BY DEF W!IsFiniteSet, IsFiniteSet
<1>2. \A T : W!Cardinality(T) = Cardinality(T)
  BY DEF W!Cardinality, Cardinality
<1> QED
  BY <1>1, <1>2

(* A set of n + 1 numbers has a largest one.                                 *)
LEMMA LargestExists ==
    ASSUME NEW S \in SUBSET Nat, IsFiniteSet(S), S # {}
    PROVE  \E m \in S : \A y \in S : m >= y
<1> DEFINE Good(n) == \A Q \in SUBSET Nat : IsFiniteSet(Q) /\ Cardinality(Q) = n + 1
                         => \E m \in Q : \A y \in Q : m >= y
           T == {n \in Nat : Good(n)}
<1>1. 0 \in T
  <2> SUFFICES ASSUME NEW Q \in SUBSET Nat, IsFiniteSet(Q), Cardinality(Q) = 1
               PROVE  \E m \in Q : \A y \in Q : m >= y
    OBVIOUS
  <2>1. PICK x : Q = {x}
    BY FS_Singleton
  <2> QED
    BY <2>1
<1>2. ASSUME NEW n \in Nat, n \in T PROVE n + 1 \in T
  <2> SUFFICES ASSUME NEW Q \in SUBSET Nat, IsFiniteSet(Q), Cardinality(Q) = n + 2
               PROVE  \E m \in Q : \A y \in Q : m >= y
    OBVIOUS
  <2>0. Q # {}
    <3> SUFFICES ASSUME Q = {} PROVE FALSE
      OBVIOUS
    <3>1. Cardinality(Q) = 0
      BY FS_EmptySet
    <3> QED
      BY <3>1
  <2>1. PICK x \in Q : TRUE
    BY <2>0
  <2>2. IsFiniteSet(Q \ {x}) /\ Cardinality(Q \ {x}) = n + 1
    BY <2>1, FS_RemoveElement
  <2>3. PICK m \in Q \ {x} : \A y \in Q \ {x} : m >= y
    BY <1>2, <2>2
  <2> QED
    BY <2>1, <2>3
<1> HIDE DEF T
<1>3. Nat \subseteq T
  BY <1>1, <1>2, LP!Induction
<1>4. Cardinality(S) \in Nat /\ Cardinality(S) # 0
  BY FS_CardinalityType, FS_EmptySet
<1>5. Cardinality(S) - 1 \in Nat
  BY <1>4
<1>6. Good(Cardinality(S) - 1)
  BY <1>3, <1>5 DEF T
<1> QED
  BY <1>4, <1>6

(* Max() is the largest element.                                             *)
LEMMA MaxIs ==
    ASSUME NEW S \in SUBSET Nat, IsFiniteSet(S), S # {}
    PROVE  W!Max(S) \in S /\ \A y \in S : W!Max(S) >= y
<1>1. PICK m \in S : \A y \in S : m >= y
  BY LargestExists
<1> QED
  BY <1>1 DEF W!Max

(* A new key is larger than all others.                                      *)
LEMMA NewIdIs ==
    ASSUME NEW Row, NEW t, W!Table(t, Row)
    PROVE  W!NewId(t) \in Nat /\ \A i \in DOMAIN t : i < W!NewId(t)
<1>1. IsFiniteSet(DOMAIN t) /\ DOMAIN t \in SUBSET Nat
  BY LibrarySets DEF W!Table
<1>2. CASE DOMAIN t = {}
  BY <1>2 DEF W!NewId
<1>3. CASE DOMAIN t # {}
  <2>1. W!Max(DOMAIN t) \in DOMAIN t /\ \A y \in DOMAIN t : W!Max(DOMAIN t) >= y
    BY <1>1, <1>3, MaxIs
  <2>2. W!NewId(t) = W!Max(DOMAIN t) + 1
    BY <1>3 DEF W!NewId
  <2> QED
    BY <1>1, <2>1, <2>2
<1> QED
  BY <1>2, <1>3

(* A row is inserted under a new key, and the others stay.                   *)
Inserted(s, t, i, row) ==
    /\ i \in Nat /\ i \notin DOMAIN t /\ \A j \in DOMAIN t : j < i
    /\ DOMAIN s = DOMAIN t \cup {i} /\ s[i] = row
    /\ \A j \in DOMAIN t : s[j] = t[j]

(* Insertion adds one row, under an id no row has, and keeps the others.     *)
LEMMA InsertIs ==
    ASSUME NEW Row, NEW t, W!Table(t, Row), NEW row \in Row
    PROVE  /\ W!Table(W!Insert(t, row), Row)
           /\ Inserted(W!Insert(t, row), t, W!NewId(t), row)
<1> DEFINE i == W!NewId(t)
<1>1. i \in Nat /\ i \notin DOMAIN t /\ \A j \in DOMAIN t : j < i
  BY NewIdIs DEF W!Table
<1> HIDE DEF i
<1>2. IsFiniteSet(DOMAIN t) /\ DOMAIN t \in SUBSET Nat /\ t \in [DOMAIN t -> Row]
  BY LibrarySets DEF W!Table
<1>3. W!Insert(t, row) = [j \in DOMAIN t \cup {i} |-> IF j \in DOMAIN t THEN t[j] ELSE row]
  BY DEF W!Insert, i
<1>4. IsFiniteSet(DOMAIN t \cup {i})
  BY <1>2, FS_AddElement
<1>5. /\ DOMAIN W!Insert(t, row) = DOMAIN t \cup {i}
      /\ W!Insert(t, row)[i] = row
      /\ \A j \in DOMAIN t : W!Insert(t, row)[j] = t[j]
  BY <1>1, <1>3
<1>6. W!Insert(t, row) \in [DOMAIN t \cup {i} -> Row]
  BY <1>1, <1>2, <1>3
<1>7. W!Table(W!Insert(t, row), Row)
  BY <1>1, <1>2, <1>4, <1>5, <1>6, LibrarySets DEF W!Table
<1> QED
  BY <1>1, <1>5, <1>7 DEF Inserted, i

(* Rows are deleted, and the others stay.                                    *)
LEMMA WithoutIs ==
    ASSUME NEW Row, NEW t, W!Table(t, Row), NEW gone
    PROVE  /\ W!Table(W!Without(t, gone), Row)
           /\ DOMAIN W!Without(t, gone) = DOMAIN t \ gone
           /\ \A j \in DOMAIN t \ gone : W!Without(t, gone)[j] = t[j]
<1>1. W!Without(t, gone) = [j \in DOMAIN t \ gone |-> t[j]]
  BY DEF W!Without, W!Restrict
<1>2. IsFiniteSet(DOMAIN t) /\ DOMAIN t \in SUBSET Nat /\ t \in [DOMAIN t -> Row]
  BY LibrarySets DEF W!Table
<1>3. IsFiniteSet(DOMAIN t \ gone)
  BY <1>2, FS_Subset
<1>4. /\ DOMAIN W!Without(t, gone) = DOMAIN t \ gone
      /\ \A j \in DOMAIN t \ gone : W!Without(t, gone)[j] = t[j]
  BY <1>1
<1>5. W!Without(t, gone) \in [DOMAIN t \ gone -> Row]
  BY <1>1, <1>2
<1>6. W!Table(W!Without(t, gone), Row)
  BY <1>2, <1>3, <1>4, <1>5, LibrarySets DEF W!Table
<1> QED
  BY <1>4, <1>6

-----------------------------------------------------------------------------
(* Graphs.                                                                   *)

(* A part of a graph without circles has no circle, nor has one with nodes   *)
(* more that no edge leaves.                                                 *)
LEMMA AcyclicShrinks ==
    ASSUME NEW N, NEW M, NEW P, NEW Q, W!Acyclic(N, P), Q \subseteq P,
           \A x \in M \ N : \A y : <<x, y>> \notin Q
    PROVE  W!Acyclic(M, Q)
<1> SUFFICES ASSUME NEW circle \in (SUBSET M) \ {{}},
                    \A n \in circle : \E o \in circle : <<n, o>> \in Q
             PROVE  FALSE
  BY DEF W!Acyclic
<1>1. circle \in (SUBSET N) \ {{}}
  OBVIOUS
<1>2. \A n \in circle : \E o \in circle : <<n, o>> \in P
  OBVIOUS
<1> QED
  BY <1>1, <1>2 DEF W!Acyclic

(* A graph whose edges are images of the edges of one without circles, no    *)
(* two of its nodes having the same image, has none.                         *)
Images(f, N, P, Q) ==
    /\ \A x, y \in N : f[x] = f[y] => x = y
    /\ \A e \in Q : \E m, n \in N : <<m, n>> \in P /\ e = <<f[m], f[n]>>

(* A graph whose edges are images of edges of an acyclic graph is acyclic.   *)
LEMMA AcyclicMapped ==
    ASSUME NEW N, NEW P, W!Acyclic(N, P), NEW f, NEW M, NEW Q, Images(f, N, P, Q)
    PROVE  W!Acyclic(M, Q)
<1> USE DEF Images
<1> SUFFICES ASSUME NEW circle \in (SUBSET M) \ {{}},
                    \A x \in circle : \E y \in circle : <<x, y>> \in Q
             PROVE  FALSE
  BY DEF W!Acyclic
<1> DEFINE back == {n \in N : f[n] \in circle}
<1>1. back # {}
  <2>1. PICK x \in circle : TRUE
    OBVIOUS
  <2>2. PICK y \in circle : <<x, y>> \in Q
    BY <2>1
  <2>3. PICK m, n \in N : <<x, y>> = <<f[m], f[n]>>
    BY <2>2
  <2> QED
    BY <2>1, <2>3
<1>2. ASSUME NEW n \in back PROVE \E m \in back : <<n, m>> \in P
  <2>1. PICK y \in circle : <<f[n], y>> \in Q
    OBVIOUS
  <2>2. PICK k, m \in N : <<k, m>> \in P /\ <<f[n], y>> = <<f[k], f[m]>>
    BY <2>1
  <2>3. k = n /\ m \in back
    BY <2>2
  <2> QED
    BY <2>2, <2>3
<1>3. back \in (SUBSET N) \ {{}}
  BY <1>1
<1> HIDE DEF back
<1> QED
  BY <1>2, <1>3 DEF W!Acyclic

(* The map of ids sends different nodes of a payload to different rows.      *)
LEMMA MappedIs ==
    ASSUME NEW g \in [ids : BOOLEAN, nodes : Seq(Nat), edges : Seq(Nat \X Nat \X STRING)],
           g.ids => W!IsInjective(g.nodes),
           NEW map \in Seq(Nat), W!IsInjective(map), Len(map) = Len(g.nodes)
    PROVE  /\ \A x \in W!Names(g) : W!Mapped(g, map, x) \in W!ToSet(map)
           /\ \A x, y \in W!Names(g) : W!Mapped(g, map, x) = W!Mapped(g, map, y) => x = y
<1> DEFINE name(i) == IF g.ids THEN g.nodes[i] ELSE i - 1
           at(x) == {i \in DOMAIN g.nodes : x = name(i)}
<1>1. DOMAIN g.nodes = 1..Len(g.nodes) /\ DOMAIN map = 1..Len(g.nodes) /\ Len(g.nodes) \in Nat
  OBVIOUS
<1>2. \A i, j \in DOMAIN map : map[i] = map[j] => i = j
  BY DEF W!IsInjective
<1>3. \A i, j \in 1..Len(g.nodes) : name(i) = name(j) => i = j
  <2>1. CASE g.ids
    BY <2>1, <1>1 DEF W!IsInjective
  <2>2. CASE ~g.ids
    BY <2>2, <1>1
  <2> QED
    BY <2>1, <2>2
<1>4. W!Names(g) = {name(i) : i \in 1..Len(g.nodes)}
  <2>1. CASE g.ids
    BY <2>1, <1>1 DEF W!Names, W!ToSet
  <2>2. CASE ~g.ids
    <3>1. W!Names(g) = 0..(Len(g.nodes) - 1)
      BY <2>2 DEF W!Names
    <3>2. \A x \in 0..(Len(g.nodes) - 1) : x + 1 \in 1..Len(g.nodes) /\ name(x + 1) = x
      BY <2>2, <1>1
    <3>3. \A i \in 1..Len(g.nodes) : name(i) \in 0..(Len(g.nodes) - 1)
      BY <2>2, <1>1
    <3> HIDE DEF name
    <3> QED
      BY <3>1, <3>2, <3>3
  <2> QED
    BY <2>1, <2>2
<1>5. ASSUME NEW i \in 1..Len(g.nodes)
      PROVE  W!Mapped(g, map, name(i)) = map[i]
  <2>1. at(name(i)) = {i}
    BY <1>1, <1>3
  <2>2. W!Max({i}) \in {i}
    <3>1. {i} \in SUBSET Nat /\ IsFiniteSet({i}) /\ {i} # {}
      <4>1. i \in Nat
        BY <1>1
      <4>2. IsFiniteSet({i})
        BY FS_Singleton
      <4> QED
        BY <4>1, <4>2
    <3> QED
      BY <3>1, MaxIs
  <2>3. W!Mapped(g, map, name(i)) = IF at(name(i)) = {} THEN name(i) ELSE map[W!Max(at(name(i)))]
    BY DEF W!Mapped
  <2> HIDE DEF name, at
  <2> QED
    BY <2>1, <2>2, <2>3
<1> HIDE DEF name
<1>6. \A i \in 1..Len(g.nodes) : map[i] \in W!ToSet(map)
  BY <1>1 DEF W!ToSet
<1> QED
  BY <1>1, <1>2, <1>3, <1>4, <1>5, <1>6

(* The unlabelled edges of a workflow.                                       *)
Arrows(es, w) ==
    {<<es[e].src, es[e].dst>> : e \in {i \in W!OfWorkflow(es, w) : es[i].label # "loop"}}

(* The forward edges of the triples of rows are the arrows of a workflow.    *)
LEMMA ForwardIs ==
    ASSUME NEW es, NEW w
    PROVE  W!Forward({<<es[e].src, es[e].dst, es[e].label>> : e \in W!OfWorkflow(es, w)})
               = Arrows(es, w)
<1> DEFINE own == W!OfWorkflow(es, w)
           triple(e) == <<es[e].src, es[e].dst, es[e].label>>
<1>1. W!Forward({triple(e) : e \in own}) \subseteq Arrows(es, w)
  <2> SUFFICES ASSUME NEW e \in own, triple(e)[3] # "loop"
               PROVE  <<triple(e)[1], triple(e)[2]>> \in Arrows(es, w)
    BY DEF W!Forward
  <2> QED
    BY DEF Arrows
<1>2. ASSUME NEW e \in own, es[e].label # "loop"
      PROVE  <<es[e].src, es[e].dst>> \in W!Forward({triple(i) : i \in own})
  <2>1. triple(e) \in {triple(i) : i \in own} /\ triple(e)[3] # "loop"
    BY <1>2
  <2>2. triple(e)[1] = es[e].src /\ triple(e)[2] = es[e].dst
    OBVIOUS
  <2> QED
    BY <2>1, <2>2 DEF W!Forward
<1> QED
  BY <1>1, <1>2 DEF Arrows

(* What NoCircle says, before and after a step.                              *)
LEMMA NoCircleIs ==
    /\ W!NoCircle <=> (~overlapped /\ ~unchecked => \A w \in workflows :
                           W!Acyclic(W!OfWorkflow(nodes, w), Arrows(edges, w)))
    /\ W!NoCircle' <=> (~overlapped' /\ ~unchecked' => \A w \in workflows' :
                            W!Acyclic(W!OfWorkflow(nodes', w), Arrows(edges', w)))
<1>1. \A w : W!Forward(W!Triples(W!OfWorkflow(edges, w))) = Arrows(edges, w)
  BY ForwardIs DEF W!Triples
<1>2. \A w : W!Forward(W!Triples(W!OfWorkflow(edges, w))') = Arrows(edges', w)
  BY ForwardIs DEF W!Triples
<1>3. W!NoCircle <=> (~overlapped /\ ~unchecked => \A w \in workflows :
                           W!Acyclic(W!OfWorkflow(nodes, w), Arrows(edges, w)))
  BY <1>1 DEF W!NoCircle
<1>4. W!NoCircle' <=> (~overlapped' /\ ~unchecked' => \A w \in workflows' :
                            W!Acyclic(W!OfWorkflow(nodes', w), Arrows(edges', w)))
  BY <1>2 DEF W!NoCircle
<1> QED
  BY <1>3, <1>4

(* The edges of a workflow join nodes of the workflow.                       *)
LEMMA InsideIs ==
    ASSUME W!TypeOK, W!Inside, ~overlapped, ~unchecked, NEW w,
           NEW x, NEW y, <<x, y>> \in Arrows(edges, w)
    PROVE  x \in W!OfWorkflow(nodes, w) /\ y \in W!OfWorkflow(nodes, w)
BY DEF Arrows, W!OfWorkflow, W!TypeOK, W!Inside

(* A table lost rows and kept the others.                                    *)
Part(s, t) == DOMAIN s \subseteq DOMAIN t /\ \A i \in DOMAIN s : s[i] = t[i]

(* Rows of nodes and edges are deleted, edges with their nodes, and with     *)
(* them workflows: the others keep sound graphs.                             *)
LEMMA GraphShrinks ==
    ASSUME W!TypeOK, W!Inside, W!NoCircle,
           ~overlapped' => ~overlapped, ~unchecked' => ~unchecked,
           Part(nodes', nodes), Part(edges', edges),
           \A e \in DOMAIN edges' : {edges[e].src, edges[e].dst} \subseteq DOMAIN nodes'
    PROVE  W!Inside' /\ W!NoCircle'
<1>1. W!Inside'
  BY DEF W!Inside, Part
<1>2. ASSUME ~overlapped', ~unchecked', NEW w
      PROVE  W!Acyclic(W!OfWorkflow(nodes', w), Arrows(edges', w))
  <2>1. Arrows(edges', w) \subseteq Arrows(edges, w)
    BY DEF Arrows, Part, W!OfWorkflow
  <2>2. W!OfWorkflow(nodes', w) \subseteq W!OfWorkflow(nodes, w)
    BY DEF Part, W!OfWorkflow
  <2>3. CASE w \in workflows
    <3>1. W!Acyclic(W!OfWorkflow(nodes, w), Arrows(edges, w))
      BY <1>2, <2>3, NoCircleIs
    <3> QED
      BY <2>1, <2>2, <3>1, AcyclicShrinks
  <2>4. CASE w \notin workflows
    <3>1. W!OfWorkflow(nodes, w) = {}
      BY <2>4 DEF W!OfWorkflow, W!TypeOK
    <3> QED
      BY <2>2, <3>1 DEF W!Acyclic
  <2> QED
    BY <2>3, <2>4
<1> QED
  BY <1>1, <1>2, NoCircleIs

(* Nor does a new node, which no edge leaves, close a circle.                *)
LEMMA NodeInserted ==
    ASSUME W!RowsTyped, W!TypeOK, W!Inside, W!NoCircle,
           ~overlapped' => ~overlapped, ~unchecked' => ~unchecked,
           NEW row \in W!NodeRow, nodes' = W!Insert(nodes, row),
           edges' = edges, workflows' = workflows
    PROVE  W!Inside' /\ W!NoCircle'
<1>0. PICK i : Inserted(nodes', nodes, i, row)
  BY InsertIs DEF W!RowsTyped
<1>1. /\ DOMAIN nodes' = DOMAIN nodes \cup {i} /\ i \notin DOMAIN nodes
      /\ \A j \in DOMAIN nodes : nodes'[j] = nodes[j]
  BY <1>0 DEF Inserted
<1>2. W!Inside'
  BY <1>1 DEF W!Inside, W!TypeOK
<1>3. ASSUME ~overlapped', ~unchecked', NEW v \in workflows
      PROVE  W!Acyclic(W!OfWorkflow(nodes', v), Arrows(edges, v))
  <2>1. W!Acyclic(W!OfWorkflow(nodes, v), Arrows(edges, v))
    BY <1>3, NoCircleIs
  <2>2. ASSUME NEW x \in W!OfWorkflow(nodes', v) \ W!OfWorkflow(nodes, v), NEW y
        PROVE  <<x, y>> \notin Arrows(edges, v)
    BY <1>3, InsideIs
  <2> QED
    BY <2>1, <2>2, AcyclicShrinks
<1> QED
  BY <1>2, <1>3, NoCircleIs

(* An edge is inserted between nodes of its workflow; with it the workflow   *)
(* has no circle.                                                            *)
LEMMA EdgeInserted ==
    ASSUME W!RowsTyped, W!TypeOK, W!Inside, W!NoCircle,
           ~overlapped' => ~overlapped, ~unchecked' => ~unchecked,
           NEW row \in W!EdgeRow, edges' = W!Insert(edges, row),
           nodes' = nodes, workflows' = workflows,
           ~overlapped' /\ ~unchecked' =>
               /\ row.src # row.dst
               /\ {row.src, row.dst} \subseteq W!OfWorkflow(nodes, row.wf)
               /\ W!Acyclic(W!OfWorkflow(nodes, row.wf),
                            Arrows(edges, row.wf) \cup
                                (IF row.label = "loop" THEN {} ELSE {<<row.src, row.dst>>}))
    PROVE  W!Inside' /\ W!NoCircle'
<1>1. PICK i : Inserted(edges', edges, i, row)
  BY InsertIs DEF W!RowsTyped
<1>2. /\ DOMAIN edges' = DOMAIN edges \cup {i} /\ i \notin DOMAIN edges
      /\ edges'[i] = row /\ \A j \in DOMAIN edges : edges'[j] = edges[j]
  BY <1>1 DEF Inserted
<1>3. W!Inside'
  BY <1>2 DEF W!Inside, W!OfWorkflow
<1>4. ASSUME ~overlapped', ~unchecked', NEW v \in workflows
      PROVE  W!Acyclic(W!OfWorkflow(nodes, v), Arrows(edges', v))
  <2>1. CASE v # row.wf
    <3>1. Arrows(edges', v) \subseteq Arrows(edges, v)
      BY <1>2, <2>1 DEF Arrows, W!OfWorkflow
    <3>2. W!Acyclic(W!OfWorkflow(nodes, v), Arrows(edges, v))
      BY <1>4, NoCircleIs
    <3> QED
      BY <3>1, <3>2, AcyclicShrinks
  <2>2. CASE v = row.wf
    <3> DEFINE more == IF row.label = "loop" THEN {} ELSE {<<row.src, row.dst>>}
    <3>1. Arrows(edges', v) \subseteq Arrows(edges, v) \cup more
      BY <1>2 DEF Arrows, W!OfWorkflow
    <3>2. W!Acyclic(W!OfWorkflow(nodes, v), Arrows(edges, v) \cup more)
      BY <1>4, <2>2
    <3> HIDE DEF more
    <3> QED
      BY <3>1, <3>2, AcyclicShrinks
  <2> QED
    BY <2>1, <2>2
<1> QED
  BY <1>3, <1>4, NoCircleIs

(* The graphs do not change, but for an empty one.                           *)
LEMMA GraphSame ==
    ASSUME W!TypeOK, W!Inside, W!NoCircle,
           ~overlapped' => ~overlapped, ~unchecked' => ~unchecked,
           nodes' = nodes, edges' = edges
    PROVE  W!Inside' /\ W!NoCircle'
BY GraphShrinks DEF Part, W!TypeOK

(* Sound graphs are graphs the next run accepts.                             *)
LEMMA GraphsSound ==
    ASSUME W!TypeOK, W!Inside, W!NoCircle
    PROVE  W!QuietEditsSound
<1> SUFFICES ASSUME ~overlapped, ~unchecked, NEW w \in workflows, W!OfWorkflow(nodes, w) # {}
             PROVE  W!validate_graph_with_loops(W!OfWorkflow(nodes, w),
                                                W!Triples(W!OfWorkflow(edges, w)))
  BY DEF W!QuietEditsSound
<1> DEFINE own == W!OfWorkflow(nodes, w)
           triples == W!Triples(W!OfWorkflow(edges, w))
<1>1. \A t \in triples : t[1] \in own /\ t[2] \in own /\ t[1] # t[2]
  BY DEF W!Triples, W!OfWorkflow, W!TypeOK, W!Inside
<1>2. \A p \in W!Forward(triples) : p[1] \in own /\ p[2] \in own /\ p[1] # p[2]
  <2> HIDE DEF triples, own
  <2> QED
    BY <1>1 DEF W!Forward
<1>3. W!Acyclic(own, W!Forward(triples))
  BY DEF W!NoCircle
<1> QED
  BY <1>1, <1>2, <1>3 DEF W!validate_graph_with_loops, W!validate_graph

-----------------------------------------------------------------------------
(* Rows, all tables together.                                                *)

(* An edge may go, and so may a node with the edges that touch it.           *)
LEMMA RowsDeleted ==
    ASSUME W!RowsInv, ~overlapped' => ~overlapped, ~unchecked' => ~unchecked,
           UNCHANGED <<workflows, executions>>,
           NEW lost, NEW cut,
           nodes' = W!Without(nodes, lost) \/ (nodes' = nodes /\ lost = {}),
           edges' = W!Without(edges, cut), W!Touching(lost) \subseteq cut
    PROVE  W!RowsInv'
<1> USE DEF W!RowsInv
<1>1. W!Table(nodes', W!NodeRow) /\ DOMAIN nodes' = DOMAIN nodes \ lost /\ Part(nodes', nodes)
  <2>1. W!Table(nodes, W!NodeRow)
    BY DEF W!RowsTyped
  <2>2. CASE nodes' = nodes /\ lost = {}
    BY <2>1, <2>2 DEF Part
  <2>3. CASE nodes' = W!Without(nodes, lost)
    BY <2>1, <2>3, WithoutIs DEF Part
  <2> QED
    BY <2>2, <2>3
<1>2. W!Table(edges', W!EdgeRow) /\ DOMAIN edges' = DOMAIN edges \ cut /\ Part(edges', edges)
  <2>1. W!Table(edges, W!EdgeRow)
    BY DEF W!RowsTyped
  <2> QED
    BY <2>1, WithoutIs DEF Part
<1>3. \A e \in DOMAIN edges' : {edges[e].src, edges[e].dst} \subseteq DOMAIN nodes'
  BY <1>1, <1>2 DEF W!TypeOK, W!Touching
<1>4. W!Inside' /\ W!NoCircle'
  BY <1>1, <1>2, <1>3, GraphShrinks
<1>5. W!RowsTyped'
  BY <1>1, <1>2 DEF W!RowsTyped
<1>6. W!TypeOK'
  BY <1>1, <1>2, <1>3 DEF W!TypeOK, Part
<1>7. W!QuietLineage'
  BY DEF W!QuietLineage
<1> QED
  BY <1>4, <1>5, <1>6, <1>7

(* A row of nodes is inserted: the tables stay sound.                        *)
LEMMA NodeRowInserted ==
    ASSUME W!RowsInv, ~overlapped' => ~overlapped, ~unchecked' => ~unchecked,
           UNCHANGED <<workflows, edges, executions>>,
           NEW row \in W!NodeRow, row.wf \in workflows, nodes' = W!Insert(nodes, row)
    PROVE  W!RowsInv'
<1> USE DEF W!RowsInv
<1>1. W!Inside' /\ W!NoCircle'
  BY NodeInserted
<1>2. W!Table(nodes', W!NodeRow)
  BY InsertIs DEF W!RowsTyped
<1>3. PICK i : Inserted(nodes', nodes, i, row)
  BY InsertIs DEF W!RowsTyped
<1>4. W!TypeOK'
  BY <1>3 DEF W!TypeOK, Inserted
<1>5. W!RowsTyped'
  BY <1>2 DEF W!RowsTyped
<1>6. W!QuietLineage'
  BY DEF W!QuietLineage
<1> QED
  BY <1>1, <1>4, <1>5, <1>6

(* A row of edges is inserted whose ends are rows: the tables stay sound.    *)
LEMMA EdgeRowInserted ==
    ASSUME W!RowsInv, ~overlapped' => ~overlapped, ~unchecked' => ~unchecked,
           UNCHANGED <<workflows, nodes, executions>>,
           NEW row \in W!EdgeRow, edges' = W!Insert(edges, row),
           row.wf \in workflows, {row.src, row.dst} \subseteq DOMAIN nodes,
           ~overlapped' /\ ~unchecked' =>
               /\ row.src # row.dst
               /\ {row.src, row.dst} \subseteq W!OfWorkflow(nodes, row.wf)
               /\ W!Acyclic(W!OfWorkflow(nodes, row.wf),
                            Arrows(edges, row.wf) \cup
                                (IF row.label = "loop" THEN {} ELSE {<<row.src, row.dst>>}))
    PROVE  W!RowsInv'
<1> USE DEF W!RowsInv
<1>1. W!Inside' /\ W!NoCircle'
  BY EdgeInserted
<1>2. W!Table(edges', W!EdgeRow)
  BY InsertIs DEF W!RowsTyped
<1>3. PICK i : Inserted(edges', edges, i, row)
  BY InsertIs DEF W!RowsTyped
<1>4. W!TypeOK'
  BY <1>3 DEF W!TypeOK, Inserted
<1>5. W!RowsTyped'
  BY <1>2 DEF W!RowsTyped
<1>6. W!QuietLineage'
  BY DEF W!QuietLineage
<1> QED
  BY <1>1, <1>4, <1>5, <1>6

(* A run is inserted whose parent, if any, is there: so they do.             *)
LEMMA RunInserted ==
    ASSUME ServicesAssumption, W!RowsInv, ~overlapped' => ~overlapped, ~unchecked' => ~unchecked,
           UNCHANGED <<workflows, nodes, edges>>,
           NEW row \in W!RunRow, executions' = W!Insert(executions, row), row.wf \in workflows,
           row.parent \in DOMAIN executions \cup {None},
           row.parent # None /\ ~overlapped =>
               /\ executions[row.parent].wf = row.wf
               /\ row.how = "resume_failed" =>
                     executions[row.parent].status \in {"FAILED", "CANCELLED"}
    PROVE  W!RowsInv'
<1> USE DEF W!RowsInv
<1>1. W!Inside' /\ W!NoCircle'
  BY GraphSame
<1>2. W!Table(executions', W!RunRow)
  BY InsertIs DEF W!RowsTyped
<1>3. PICK i : Inserted(executions', executions, i, row)
  BY InsertIs DEF W!RowsTyped
<1>4. W!TypeOK'
  BY <1>3 DEF W!TypeOK, Inserted
<1>5. W!RowsTyped'
  BY <1>2 DEF W!RowsTyped
<1>6. W!QuietLineage'
  BY <1>3 DEF W!QuietLineage, W!TypeOK, Inserted
<1> QED
  BY <1>1, <1>4, <1>5, <1>6

(* A run that was under way ends: no run descends from it as a resumed one.  *)
LEMMA RunEnds ==
    ASSUME W!RowsInv, ~overlapped' => ~overlapped, ~unchecked' => ~unchecked,
           UNCHANGED <<workflows, nodes, edges>>,
           NEW e \in DOMAIN executions, executions[e].status = "PENDING",
           NEW status \in {"COMPLETED", "FAILED"},
           executions' = [executions EXCEPT ![e].status = status]
    PROVE  W!RowsInv' /\ DOMAIN executions' = DOMAIN executions
<1> USE DEF W!RowsInv
<1>1. W!Inside' /\ W!NoCircle'
  BY GraphSame
<1>2. executions \in [DOMAIN executions -> W!RunRow]
  BY DEF W!RowsTyped, W!Table
<1>3. executions' \in [DOMAIN executions -> W!RunRow]
  BY <1>2 DEF W!RunRow
<1>4. /\ DOMAIN executions' = DOMAIN executions
      /\ \A i \in DOMAIN executions :
            /\ executions'[i].wf = executions[i].wf /\ executions'[i].parent = executions[i].parent
            /\ executions'[i].how = executions[i].how
            /\ i # e => executions'[i].status = executions[i].status
  BY <1>2 DEF W!RunRow
<1>5. W!RowsTyped'
  BY <1>3, <1>4 DEF W!RowsTyped, W!Table
<1>6. W!TypeOK'
  BY <1>4 DEF W!TypeOK
<1>7. W!QuietLineage'
  BY <1>4 DEF W!QuietLineage, W!TypeOK
<1> QED
  BY <1>1, <1>4, <1>5, <1>6, <1>7

(* A workflow goes with all that belongs to it.                              *)
LEMMA WorkflowDeleted ==
    ASSUME ServicesAssumption, W!RowsInv, ~overlapped' => ~overlapped, ~unchecked' => ~unchecked,
           NEW w, W!DeleteWorkflow(w)
    PROVE  W!RowsInv'
<1> USE DEF W!RowsInv
<1> DEFINE own == W!OfWorkflow(nodes, w)
           cut == W!OfWorkflow(edges, w) \cup W!Touching(own)
           lost == W!OfWorkflow(executions, w)
           left == W!Without(executions, lost)
<1>1. /\ workflows' = workflows \ {w}
      /\ nodes' = W!Without(nodes, own) /\ edges' = W!Without(edges, cut)
      /\ executions' = [e \in DOMAIN left |->
                           IF left[e].parent \in lost THEN [left[e] EXCEPT !.parent = None]
                           ELSE left[e]]
  BY DEF W!DeleteWorkflow
<1> HIDE DEF own, cut, lost, left
<1>2. W!Table(nodes', W!NodeRow) /\ DOMAIN nodes' = DOMAIN nodes \ own /\ Part(nodes', nodes)
  <2>1. W!Table(nodes, W!NodeRow) /\ nodes' = W!Without(nodes, own)
    BY <1>1 DEF W!RowsTyped
  <2> QED
    BY <2>1, WithoutIs DEF Part
<1>3. W!Table(edges', W!EdgeRow) /\ DOMAIN edges' = DOMAIN edges \ cut /\ Part(edges', edges)
  <2>1. W!Table(edges, W!EdgeRow) /\ edges' = W!Without(edges, cut)
    BY <1>1 DEF W!RowsTyped
  <2> QED
    BY <2>1, WithoutIs DEF Part
<1>4. W!Table(left, W!RunRow) /\ DOMAIN left = DOMAIN executions \ lost /\ Part(left, executions)
  <2>1. W!Table(executions, W!RunRow)
    BY DEF W!RowsTyped
  <2> QED
    BY <2>1, WithoutIs DEF Part, left
<1>5. \A e \in DOMAIN edges' : {edges[e].src, edges[e].dst} \subseteq DOMAIN nodes'
  BY <1>2, <1>3 DEF W!TypeOK, W!Touching, cut
<1>6. W!Inside' /\ W!NoCircle'
  BY <1>2, <1>3, <1>5, GraphShrinks
<1>7. /\ DOMAIN executions' = DOMAIN left
      /\ \A e \in DOMAIN left :
            /\ executions'[e] \in W!RunRow
            /\ executions'[e].wf = executions[e].wf /\ executions'[e].how = executions[e].how
            /\ executions'[e].status = executions[e].status
            /\ executions'[e].parent = IF executions[e].parent \in lost THEN None
                                       ELSE executions[e].parent
  <2>1. \A e \in DOMAIN left : left[e] \in W!RunRow /\ left[e] = executions[e]
    BY <1>4 DEF W!Table, Part
  <2> QED
    BY <1>1, <2>1 DEF W!RunRow
<1>8. W!RowsTyped'
  <2>1. W!Table(executions', W!RunRow)
    BY <1>1, <1>4, <1>7 DEF W!Table
  <2>2. workflows' \subseteq Nat /\ W!IsFiniteSet(workflows')
    BY <1>1, LibrarySets, FS_Subset DEF W!RowsTyped
  <2> QED
    BY <1>2, <1>3, <2>1, <2>2 DEF W!RowsTyped
<1>9. W!TypeOK'
  <2>1. \A i \in DOMAIN nodes' : nodes'[i].wf \in workflows'
    BY <1>1, <1>2 DEF W!TypeOK, Part, W!OfWorkflow, own
  <2>2. \A i \in DOMAIN edges' :
           edges'[i].wf \in workflows' /\ {edges'[i].src, edges'[i].dst} \subseteq DOMAIN nodes'
    BY <1>1, <1>3, <1>5 DEF W!TypeOK, Part, W!OfWorkflow, cut
  <2>3. \A i \in DOMAIN executions' :
           /\ executions'[i].wf \in workflows'
           /\ executions'[i].parent \in DOMAIN executions' \cup {None}
    <3> SUFFICES ASSUME NEW i \in DOMAIN left
                 PROVE  /\ executions'[i].wf \in workflows'
                        /\ executions'[i].parent \in DOMAIN left \cup {None}
      BY <1>7
    <3>1. i \in DOMAIN executions /\ i \notin lost
      BY <1>4
    <3>2. /\ executions[i].wf \in workflows
          /\ executions[i].parent \in DOMAIN executions \cup {None}
      BY <3>1 DEF W!TypeOK
    <3>3. executions[i].wf # w
      BY <3>1 DEF W!OfWorkflow, lost
    <3>4. /\ executions'[i].wf = executions[i].wf
          /\ executions'[i].parent = IF executions[i].parent \in lost THEN None
                                     ELSE executions[i].parent
      BY <1>7
    <3>5. DOMAIN left = DOMAIN executions \ lost /\ workflows' = workflows \ {w}
      BY <1>1, <1>4
    <3> QED
      BY <3>2, <3>3, <3>4, <3>5
  <2> QED
    BY <2>1, <2>2, <2>3 DEF W!TypeOK
<1>10. W!QuietLineage'
  BY <1>4, <1>7 DEF W!QuietLineage, W!TypeOK
<1> QED
  BY <1>6, <1>8, <1>9, <1>10

(* A new workflow has the key of none and so no rows of its own.             *)
LEMMA WorkflowInserted ==
    ASSUME W!RowsInv, ~overlapped' => ~overlapped, ~unchecked' => ~unchecked,
           UNCHANGED <<nodes, edges, executions>>,
           workflows' = workflows \cup {IF workflows = {} THEN 1 ELSE W!Max(workflows) + 1}
    PROVE  W!RowsInv'
<1> USE DEF W!RowsInv
<1>1. W!Inside' /\ W!NoCircle'
  BY GraphSame
<1>2. W!RowsTyped'
  <2>1. workflows \in SUBSET Nat /\ IsFiniteSet(workflows)
    BY LibrarySets DEF W!RowsTyped
  <2>2. workflows # {} => W!Max(workflows) \in Nat
    BY <2>1, MaxIs
  <2>3. workflows' \in SUBSET Nat /\ IsFiniteSet(workflows')
    BY <2>1, <2>2, FS_AddElement
  <2> QED
    BY <2>3, LibrarySets DEF W!RowsTyped
<1>3. W!TypeOK'
  BY DEF W!TypeOK
<1>4. W!QuietLineage'
  BY DEF W!QuietLineage
<1> QED
  BY <1>1, <1>2, <1>3, <1>4

(* Requests alone change.                                                    *)
LEMMA RowsSame ==
    ASSUME W!RowsInv, ~overlapped' => ~overlapped, ~unchecked' => ~unchecked,
           UNCHANGED <<workflows, nodes, edges, executions>>
    PROVE  W!RowsInv'
<1> USE DEF W!RowsInv
<1>1. W!Inside' /\ W!NoCircle'
  BY GraphSame
<1>2. W!RowsTyped' /\ W!TypeOK' /\ W!QuietLineage'
  BY DEF W!RowsTyped, W!TypeOK, W!QuietLineage
<1> QED
  BY <1>1, <1>2

-----------------------------------------------------------------------------
(* Pages of the history.                                                     *)

Above(D, x) == {f \in D : f > x}

(* No two runs have the same rank, and a rank is below the number of runs.   *)
LEMMA RankIs ==
    ASSUME NEW D \in SUBSET Nat, IsFiniteSet(D)
    PROVE  /\ Cardinality(D) \in Nat
           /\ \A x \in D : Cardinality(Above(D, x)) \in Nat
           /\ \A x \in D : Cardinality(Above(D, x)) < Cardinality(D)
           /\ \A x, y \in D : x < y => Cardinality(Above(D, y)) < Cardinality(Above(D, x))
<1>1. \A x : IsFiniteSet(Above(D, x)) /\ Cardinality(Above(D, x)) \in Nat
  BY FS_Subset, FS_CardinalityType DEF Above
<1>2. ASSUME NEW A, NEW B, IsFiniteSet(B), A \subseteq B, NEW z \in B, z \notin A
      PROVE  Cardinality(A) < Cardinality(B)
  <2>1. /\ IsFiniteSet(A) /\ Cardinality(A) <= Cardinality(B)
        /\ Cardinality(A) # Cardinality(B)
    BY <1>2, FS_Subset
  <2>2. Cardinality(A) \in Nat /\ Cardinality(B) \in Nat
    BY <1>2, <2>1, FS_CardinalityType
  <2> QED
    BY <2>1, <2>2
<1>3. ASSUME NEW x \in D PROVE Cardinality(Above(D, x)) < Cardinality(D)
  BY <1>2 DEF Above
<1>4. ASSUME NEW x \in D, NEW y \in D, x < y
      PROVE  Cardinality(Above(D, y)) < Cardinality(Above(D, x))
  <2>1. Above(D, y) \subseteq Above(D, x) /\ y \in Above(D, x) /\ y \notin Above(D, y)
    <3>1. x \in Nat /\ y \in Nat
      OBVIOUS
    <3>2. \A f \in D : f \in Nat /\ (f > y => f > x)
      BY <1>4, <3>1
    <3>3. Above(D, y) \subseteq Above(D, x)
      BY <3>2 DEF Above
    <3>4. y > x /\ ~(y > y)
      BY <1>4, <3>1
    <3>5. y \in Above(D, x) /\ y \notin Above(D, y)
      BY <3>4 DEF Above
    <3> QED
      BY <3>3, <3>5
  <2> QED
    BY <1>1, <1>2, <2>1
<1>5. Cardinality(D) \in Nat
  BY FS_CardinalityType
<1> QED
  BY <1>1, <1>3, <1>4, <1>5

(* Runs that are added make no older run move up.                            *)
LEMMA RankGrows ==
    ASSUME NEW D, NEW E \in SUBSET Nat, IsFiniteSet(E), D \subseteq E, NEW x
    PROVE  /\ Cardinality(Above(D, x)) \in Nat /\ Cardinality(Above(E, x)) \in Nat
           /\ Cardinality(Above(D, x)) <= Cardinality(Above(E, x))
<1>1. Above(D, x) \subseteq Above(E, x) /\ Above(E, x) \subseteq E
  BY DEF Above
<1>2. IsFiniteSet(Above(E, x))
  BY <1>1, FS_Subset
<1>3. IsFiniteSet(Above(D, x)) /\ Cardinality(Above(D, x)) <= Cardinality(Above(E, x))
  BY <1>1, <1>2, FS_Subset
<1> QED
  BY <1>2, <1>3, FS_CardinalityType

(* A page has at most its size of runs.                                      *)
LEMMA PageBounded ==
    ASSUME NEW D \in SUBSET Nat, IsFiniteSet(D), NEW skip \in Nat, NEW k \in Nat
    PROVE  LET page == {e \in D : Cardinality(Above(D, e)) \in skip..(skip + k - 1)}
           IN Cardinality(page) \in Nat /\ Cardinality(page) <= k
<1> DEFINE page == {e \in D : Cardinality(Above(D, e)) \in skip..(skip + k - 1)}
           rank == [e \in page |-> Cardinality(Above(D, e))]
           ranks == skip..(skip + k - 1)
<1>1. \A x, y \in page : rank[x] = rank[y] => x = y
  <2> SUFFICES ASSUME NEW x \in page, NEW y \in page, x # y PROVE rank[x] # rank[y]
    OBVIOUS
  <2>1. x \in Nat /\ y \in Nat /\ x \in D /\ y \in D
    OBVIOUS
  <2>2. /\ Cardinality(Above(D, x)) \in Nat /\ Cardinality(Above(D, y)) \in Nat
        /\ x < y => Cardinality(Above(D, y)) < Cardinality(Above(D, x))
        /\ y < x => Cardinality(Above(D, x)) < Cardinality(Above(D, y))
    BY <2>1, RankIs
  <2> QED
    BY <2>1, <2>2
<1>2. rank \in Injection(page, ranks)
  <2>1. rank \in [page -> ranks]
    OBVIOUS
  <2> QED
    BY <1>1, <2>1 DEF Injection, IsInjective
<1>3. IsFiniteSet(ranks) /\ Cardinality(ranks) <= k /\ Cardinality(ranks) \in Nat
  <2>1. PICK a \in Int, b \in Int : a = skip /\ b = skip + k - 1
    OBVIOUS
  <2>2. IsFiniteSet(a..b) /\ Cardinality(a..b) = IF a > b THEN 0 ELSE b - a + 1
    BY FS_Interval
  <2> QED
    BY <2>1, <2>2
<1> HIDE DEF rank, ranks, page
<1>4. IsFiniteSet(page) /\ Cardinality(page) <= Cardinality(ranks)
  BY <1>2, <1>3, FS_Injection
<1>5. Cardinality(page) \in Nat
  BY <1>4, FS_CardinalityType
<1>6. Cardinality(page) <= k
  BY <1>3, <1>4, <1>5
<1> QED
  BY <1>5, <1>6 DEF page

(* Newer() and Page() in these terms.                                        *)
LEMMA NewerIs ==
    /\ \A e : W!Newer(e) = Cardinality(Above(DOMAIN executions, e))
    /\ \A e : W!Newer(e)' = Cardinality(Above(DOMAIN executions', e))
BY LibrarySets DEF W!Newer, Above

-----------------------------------------------------------------------------
(* Requests.                                                                 *)

(* Stages, and the request of a client that has one.                         *)
LEMMA RequestIs ==
    ASSUME W!RequestsTyped, NEW c \in Clients
    PROVE  /\ pending[c] # W!Idle => /\ pending[c] \in W!Asked
                                     /\ pending[c].removed <= removed
           /\ pending[c].stage # "idle" => pending[c] # W!Idle
BY DEF W!RequestsTyped, W!Idle

(* What was promised to another client still holds: it is not one that       *)
(* writes, or nothing it depends on has changed.                             *)
LEMMA OthersKept ==
    ASSUME ServicesAssumption, W!LibraryInv, W!RowsInv', NEW c \in Clients, NEW d \in Clients, d # c,
           pending'[d] = pending[d], ~overlapped' => ~overlapped, ~unchecked' => ~unchecked,
           W!Writing(c) \/ UNCHANGED <<nodes, edges, executions>>,
           \/ removed' = removed /\ DOMAIN executions \subseteq DOMAIN executions'
           \/ removed' = removed + 1
    PROVE  W!Promised(d)'
<1>1. W!Promised(d)
  BY DEF W!LibraryInv
<1>2. CASE pending[d] = W!Idle
  BY <1>2 DEF W!Promised, W!EdgeChecked, W!PutAccepted, W!PutKept, W!ParentKept, W!Pages
<1>3. CASE pending[d] # W!Idle
  <2>1. pending[d] \in W!Asked /\ pending[d].removed <= removed /\ removed \in Nat
    BY <1>3, RequestIs DEF W!LibraryInv, W!RequestsTyped
  <2>2. pending[d].ask.op = "search" \/ overlapped \/ UNCHANGED <<nodes, edges, executions>>
    BY <1>3 DEF W!LibraryInv, W!OneWriter, W!Writing, W!Writes
  <2>3. W!EdgeChecked(d)'
    BY <1>1, <2>2 DEF W!Promised, W!EdgeChecked
  <2>4. W!PutAccepted(d)'
    BY <1>1 DEF W!Promised, W!PutAccepted
  <2>5. W!PutKept(d)'
    BY <1>1, <2>2, ZenonT(60) DEF W!Promised, W!PutKept, W!Image
  <2>6. W!ParentKept(d)'
    BY <1>1, <2>2 DEF W!Promised, W!ParentKept
  <2>7. W!Pages(d)'
    <3> SUFFICES ASSUME pending[d].ask.op = "search", pending[d].removed = removed'
                 PROVE  W!Pages(d)'
      BY <1>3 DEF W!Pages
    <3>1. removed' = removed /\ DOMAIN executions \subseteq DOMAIN executions'
      BY <2>1 DEF W!Asked
    <3>2. DOMAIN executions' \in SUBSET Nat /\ IsFiniteSet(DOMAIN executions')
      BY LibrarySets DEF W!RowsInv, W!RowsTyped, W!Table
    <3>3. \A e : /\ W!Newer(e) \in Nat /\ W!Newer(e)' \in Nat
                 /\ W!Newer(e) <= W!Newer(e)'
      BY <3>1, <3>2, RankGrows, NewerIs
    <3>4. W!Pages(d)
      BY <1>1 DEF W!Promised
    <3>5. PICK p : p = pending[d] /\ p \in W!Asked
      BY <2>1
    <3>6. /\ p.before \subseteq DOMAIN executions'
          /\ p.stage = "start" => \A e \in p.before : W!Newer(e) < p.skip => e \in p.seen
          /\ p.stage = "count" =>
                /\ p.made <= PageSize
                /\ \A e \in p.before : W!Newer(e) < p.skip + PageSize => e \in p.seen
          /\ p.stage = "seen" => p.before \subseteq p.seen
      BY <1>3, <3>1, <3>4, <3>5 DEF W!Pages
    <3>7. PageSize \in Nat /\ p.skip \in Nat
      BY <3>5, EditsAssumed DEF W!Asked
    <3>8. /\ p.stage = "start" => \A e \in p.before : W!Newer(e)' < p.skip => e \in p.seen
          /\ p.stage = "count" =>
                \A e \in p.before : W!Newer(e)' < p.skip + PageSize => e \in p.seen
      BY <3>3, <3>6, <3>7
    <3> QED
      BY <3>5, <3>6, <3>8 DEF W!Pages
  <2> QED
    BY <2>3, <2>4, <2>5, <2>6, <2>7 DEF W!Promised
<1> QED
  BY <1>2, <1>3

(* A step of a client: the rows stay sound, its own request goes on with     *)
(* what it needs, and those of the others keep theirs.                       *)
Going(c) ==
    /\ c \in Clients /\ pending[c] # W!Idle
    /\ overlapped' = overlapped /\ unchecked' = unchecked /\ answered' = answered
    /\ W!Writing(c) \/ UNCHANGED <<nodes, edges, executions>>
    /\ \/ removed' = removed /\ DOMAIN executions \subseteq DOMAIN executions'
       \/ removed' = removed + 1

(* A request goes on: what is promised to the others still holds.            *)
LEMMA RequestGoesOn ==
    ASSUME ServicesAssumption, W!LibraryInv, W!RowsInv', NEW c, Going(c),
           NEW r \in W!Asked, r.stage # "find", r.ask = pending[c].ask, r.removed = pending[c].removed,
           pending' = [pending EXCEPT ![c] = r], W!Promised(c)'
    PROVE  W!LibraryInv'
<1>1. c \in Clients /\ pending \in [Clients -> {W!Idle} \cup W!Asked]
  BY DEF Going, W!LibraryInv, W!RequestsTyped
<1>2. pending'[c] = r /\ \A d \in Clients : d # c => pending'[d] = pending[d]
  BY <1>1
<1>3. W!RequestsTyped'
  <2>1. removed \in Nat /\ removed' \in Nat /\ removed <= removed'
    BY DEF W!LibraryInv, W!RequestsTyped, Going
  <2>2. pending' \in [Clients -> {W!Idle} \cup W!Asked]
    BY <1>1
  <2>3. \A d \in Clients : pending[d] # W!Idle => pending[d].removed \in Nat /\ pending[d].removed <= removed
    BY DEF W!LibraryInv, W!RequestsTyped, W!Asked
  <2>4. \A d \in Clients : pending'[d] # W!Idle => pending'[d].removed <= removed'
    <3> SUFFICES ASSUME NEW d \in Clients, pending'[d] # W!Idle
                 PROVE  pending'[d].removed <= removed'
      OBVIOUS
    <3>1. pending[d] # W!Idle /\ pending'[d].removed = pending[d].removed
      BY <1>1, <1>2 DEF Going
    <3> QED
      BY <2>1, <2>3, <3>1
  <2>5. overlapped' \in BOOLEAN /\ unchecked' \in BOOLEAN
    BY DEF W!LibraryInv, W!RequestsTyped, Going
  <2>6. \A d \in Clients : pending'[d] # W!Idle /\ pending'[d].stage = "find" =>
            pending'[d].ask.op \in {"delete_node", "delete_edge"}
    BY <1>2 DEF W!LibraryInv, W!RequestsTyped
  <2> QED
    BY <2>1, <2>2, <2>4, <2>5, <2>6 DEF W!RequestsTyped
<1>4. W!OneWriter'
  <2>1. \A d \in Clients : W!Writing(d)' => W!Writing(d)
    BY <1>1, <1>2 DEF W!Writing, W!Writes, Going
  <2> QED
    BY <2>1 DEF W!LibraryInv, W!OneWriter, Going
<1>5. ASSUME NEW d \in Clients PROVE W!Promised(d)'
  <2>1. CASE d = c
    BY <2>1
  <2>2. CASE d # c
    <3>1. pending'[d] = pending[d]
      BY <1>2, <2>2
    <3> QED
      BY <1>1, <2>2, <3>1, OthersKept DEF Going
  <2> QED
    BY <2>1, <2>2
<1> QED
  BY <1>3, <1>4, <1>5 DEF W!LibraryInv

(* A request ends: what was promised to its client is no longer needed.      *)
LEMMA RequestEnds ==
    ASSUME ServicesAssumption, W!LibraryInv, W!RowsInv', NEW c, Going(c),
           pending' = [pending EXCEPT ![c] = W!Idle]
    PROVE  W!LibraryInv'
<1>1. c \in Clients /\ pending \in [Clients -> {W!Idle} \cup W!Asked]
  BY DEF Going, W!LibraryInv, W!RequestsTyped
<1>2. pending'[c] = W!Idle /\ \A d \in Clients : d # c => pending'[d] = pending[d]
  BY <1>1
<1>3. W!RequestsTyped'
  <2>1. removed \in Nat /\ removed' \in Nat /\ removed <= removed'
    BY DEF W!LibraryInv, W!RequestsTyped, Going
  <2>2. pending' \in [Clients -> {W!Idle} \cup W!Asked]
    BY <1>1
  <2>3. \A d \in Clients : pending[d] # W!Idle => pending[d].removed \in Nat /\ pending[d].removed <= removed
    BY DEF W!LibraryInv, W!RequestsTyped, W!Asked
  <2>4. \A d \in Clients : pending'[d] # W!Idle => pending'[d].removed <= removed'
    BY <1>2, <2>1, <2>3
  <2>5. overlapped' \in BOOLEAN /\ unchecked' \in BOOLEAN
    BY DEF W!LibraryInv, W!RequestsTyped, Going
  <2>6. \A d \in Clients : pending'[d] # W!Idle /\ pending'[d].stage = "find" =>
            pending'[d].ask.op \in {"delete_node", "delete_edge"}
    BY <1>2 DEF W!LibraryInv, W!RequestsTyped
  <2> QED
    BY <2>1, <2>2, <2>4, <2>5, <2>6 DEF W!RequestsTyped
<1>4. W!OneWriter'
  <2>1. \A d \in Clients : W!Writing(d)' => W!Writing(d)
    BY <1>1, <1>2 DEF W!Writing, W!Writes
  <2> QED
    BY <2>1 DEF W!LibraryInv, W!OneWriter, Going
<1>5. ASSUME NEW d \in Clients PROVE W!Promised(d)'
  <2>1. CASE d = c
    BY <1>2, <2>1 DEF W!Promised, W!EdgeChecked, W!PutAccepted, W!PutKept, W!ParentKept, W!Pages
  <2>2. CASE d # c
    <3>1. pending'[d] = pending[d]
      BY <1>2, <2>2
    <3> QED
      BY <1>1, <2>2, <3>1, OthersKept DEF Going
  <2> QED
    BY <2>1, <2>2
<1> QED
  BY <1>3, <1>4, <1>5 DEF W!LibraryInv

-----------------------------------------------------------------------------
(* Requests that end.                                                        *)

(* A client in a stage of an operation has a request.                        *)
LEMMA AtStage ==
    ASSUME ServicesAssumption, W!LibraryInv, NEW c \in Clients, NEW op, NEW at, at # "idle",
           W!Is(c, op, at)
    PROVE  /\ pending[c] # W!Idle /\ pending[c] \in W!Asked /\ pending[c].ask.op = op
           /\ pending[c].stage = at /\ pending[c].removed <= removed
           /\ op # "search" => W!Writing(c)
           /\ pending[c].ask \in [op : STRING, w : Nat, a : Nat, b : Nat, label : STRING,
                                  graph : [ids : BOOLEAN, nodes : Seq(Nat),
                                           edges : Seq(Nat \X Nat \X STRING)]]
<1>1. pending[c] # W!Idle /\ pending[c].ask.op = op /\ pending[c].stage = at
  BY DEF W!Is, W!Idle
<1>2. pending[c] \in W!Asked /\ pending[c].removed <= removed
  BY <1>1, RequestIs DEF W!LibraryInv
<1>3. pending[c].ask \in Edits
  BY <1>2 DEF W!Asked
<1> QED
  BY <1>1, <1>2, <1>3, EditsAssumed DEF W!Writing, W!Writes

(* A workflow is created, and ends its request.                              *)
LEMMA CreateWorkflowKeeps ==
    ASSUME ServicesAssumption, W!LibraryInv, NEW c \in Clients, W!create_workflow(c)
    PROVE  W!LibraryInv'
<1>1. Going(c) /\ pending' = [pending EXCEPT ![c] = W!Idle]
  BY AtStage DEF W!create_workflow, W!End, W!Quiet, W!Same, Going
<1>2. W!RowsInv'
  BY WorkflowInserted DEF W!create_workflow, W!LibraryInv, W!Quiet, W!Same
<1> QED
  BY <1>1, <1>2, RequestEnds

(* A workflow is deleted, with all it owns.                                  *)
LEMMA DeleteWorkflowKeeps ==
    ASSUME ServicesAssumption, W!LibraryInv, NEW c \in Clients, W!delete_workflow(c)
    PROVE  W!LibraryInv'
<1>1. /\ pending' = [pending EXCEPT ![c] = W!Idle] /\ pending[c] # W!Idle
      /\ W!Writing(c) /\ overlapped' = overlapped /\ unchecked' = unchecked
      /\ answered' = answered
  BY AtStage DEF W!delete_workflow, W!End, W!Same
<1>2. CASE pending[c].ask.w \in workflows
  <2>1. W!DeleteWorkflow(pending[c].ask.w)
    BY <1>2 DEF W!delete_workflow
  <2>2. W!RowsInv'
    BY <1>1, <2>1, WorkflowDeleted DEF W!LibraryInv
  <2>3. \/ removed' = removed /\ DOMAIN executions \subseteq DOMAIN executions'
        \/ removed' = removed + 1
    <3> DEFINE lost == W!OfWorkflow(executions, pending[c].ask.w)
    <3>1. CASE lost = {}
      <4>1. W!Table(executions, W!RunRow)
        BY DEF W!LibraryInv, W!RowsInv, W!RowsTyped
      <4>2. DOMAIN W!Without(executions, lost) = DOMAIN executions \ lost
        BY <4>1, WithoutIs
      <4> QED
        BY <2>1, <3>1, <4>2 DEF W!DeleteWorkflow
    <3>2. CASE lost # {}
      BY <2>1, <3>2 DEF W!DeleteWorkflow
    <3> QED
      BY <3>1, <3>2
  <2> QED
    BY <1>1, <2>2, <2>3, RequestEnds DEF Going
<1>3. CASE pending[c].ask.w \notin workflows
  <2>1. UNCHANGED <<workflows, nodes, edges, executions, removed>>
    BY <1>3 DEF W!delete_workflow
  <2>2. W!RowsInv'
    BY <1>1, <2>1, RowsSame DEF W!LibraryInv
  <2> QED
    BY <1>1, <2>1, <2>2, RequestEnds DEF Going
<1> QED
  BY <1>2, <1>3

(* A node is created, if its workflow is still there.                        *)
LEMMA CreateNodeKeeps ==
    ASSUME ServicesAssumption, W!LibraryInv, NEW c \in Clients, W!create_node(c)
    PROVE  W!LibraryInv'
<1>1. /\ Going(c) /\ pending' = [pending EXCEPT ![c] = W!Idle] /\ pending[c].ask.w \in Nat
      /\ UNCHANGED <<workflows, edges, executions>>
  BY AtStage DEF W!create_node, W!End, W!Quiet, W!Same, Going
<1>2. W!RowsInv'
  <2>1. CASE pending[c].ask.w \in workflows
    <3>1. PICK row \in W!NodeRow : row = [wf |-> pending[c].ask.w]
      BY <1>1 DEF W!NodeRow
    <3>2. nodes' = W!Insert(nodes, row) /\ row.wf \in workflows
      BY <2>1, <3>1 DEF W!create_node
    <3> QED
      BY <1>1, <3>2, NodeRowInserted DEF W!LibraryInv, Going
  <2>2. CASE pending[c].ask.w \notin workflows
    <3>1. nodes' = nodes
      BY <2>2 DEF W!create_node
    <3> QED
      BY <1>1, <3>1, RowsSame DEF W!LibraryInv, Going
  <2> QED
    BY <2>1, <2>2
<1> QED
  BY <1>1, <1>2, RequestEnds

(* A node is deleted, with the edges that touch it.                          *)
LEMMA DeleteNodeKeeps ==
    ASSUME ServicesAssumption, W!LibraryInv, NEW c \in Clients, W!delete_node(c)
    PROVE  W!LibraryInv'
<1>1. /\ Going(c) /\ pending' = [pending EXCEPT ![c] = W!Idle]
      /\ UNCHANGED <<workflows, executions>>
  BY AtStage DEF W!delete_node, W!End, W!Quiet, W!Same, Going
<1>2. W!RowsInv'
  <2>1. PICK lost, cut : lost = {pending[c].ask.a} /\ cut = W!Touching(lost)
    OBVIOUS
  <2>2. nodes' = W!Without(nodes, lost) /\ edges' = W!Without(edges, cut)
    BY <2>1 DEF W!delete_node, W!DeleteNodes
  <2> QED
    BY <1>1, <2>1, <2>2, RowsDeleted DEF W!LibraryInv, Going
<1> QED
  BY <1>1, <1>2, RequestEnds

(* An edge is deleted.                                                       *)
LEMMA DeleteEdgeKeeps ==
    ASSUME ServicesAssumption, W!LibraryInv, NEW c \in Clients, W!delete_edge(c)
    PROVE  W!LibraryInv'
<1>1. /\ Going(c) /\ pending' = [pending EXCEPT ![c] = W!Idle]
      /\ UNCHANGED <<workflows, nodes, executions>>
  BY AtStage DEF W!delete_edge, W!DeleteEdges, W!End, W!Quiet, W!Same, Going
<1>2. W!RowsInv'
  <2>1. PICK lost, cut : lost = {} /\ cut = {pending[c].ask.a}
    OBVIOUS
  <2>2. edges' = W!Without(edges, cut) /\ W!Touching(lost) \subseteq cut
    BY <2>1 DEF W!delete_edge, W!DeleteEdges, W!Touching
  <2> QED
    BY <1>1, <2>1, <2>2, RowsDeleted DEF W!LibraryInv, Going
<1> QED
  BY <1>1, <1>2, RequestEnds

(* An edge is created that was checked, or whose workflow or ends are gone.  *)
LEMMA CreateEdgeKeeps ==
    ASSUME ServicesAssumption, W!LibraryInv, NEW c \in Clients, W!create_edge(c)
    PROVE  W!LibraryInv'
<1>1. PICK a : a = pending[c].ask /\ a.w \in Nat /\ a.a \in Nat /\ a.b \in Nat /\ a.label \in STRING
  BY AtStage DEF W!create_edge
<1>2. /\ Going(c) /\ pending' = [pending EXCEPT ![c] = W!Idle]
      /\ UNCHANGED <<workflows, nodes, executions>>
      /\ pending[c] # W!Idle /\ pending[c].ask.op = "create_edge" /\ pending[c].stage = "valid"
  BY AtStage DEF W!create_edge, W!End, W!Quiet, W!Same, Going
<1>3. W!RowsInv'
  <2>1. CASE {a.a, a.b} \subseteq DOMAIN nodes /\ a.w \in workflows
    <3>1. PICK row \in W!EdgeRow : row = [wf |-> a.w, src |-> a.a, dst |-> a.b, label |-> a.label]
      BY <1>1 DEF W!EdgeRow
    <3>2. edges' = W!Insert(edges, row)
      BY <1>1, <2>1, <3>1 DEF W!create_edge
    <3>3. ASSUME ~overlapped
          PROVE  /\ row.src # row.dst
                 /\ {row.src, row.dst} \subseteq W!OfWorkflow(nodes, row.wf)
                 /\ W!Acyclic(W!OfWorkflow(nodes, row.wf),
                              Arrows(edges, row.wf) \cup
                                 (IF row.label = "loop" THEN {} ELSE {<<row.src, row.dst>>}))
      <4> DEFINE pairs == {<<edges[e].src, edges[e].dst>> : e \in W!OfWorkflow(edges, a.w)}
                              \cup {<<a.a, a.b>>}
      <4>1. /\ {a.a, a.b} \subseteq W!OfWorkflow(nodes, a.w) /\ a.a # a.b
            /\ W!Acyclic(W!OfWorkflow(nodes, a.w), pairs)
        <5>1. W!EdgeChecked(c)
          BY DEF W!LibraryInv, W!Promised
        <5> QED
          BY <1>1, <1>2, <3>3, <5>1 DEF W!EdgeChecked
      <4>2. Arrows(edges, row.wf) \cup
                (IF row.label = "loop" THEN {} ELSE {<<row.src, row.dst>>}) \subseteq pairs
        BY <3>1 DEF Arrows
      <4> HIDE DEF pairs
      <4> QED
        BY <3>1, <4>1, <4>2, AcyclicShrinks
    <3> QED
      BY <1>2, <2>1, <3>1, <3>2, <3>3, EdgeRowInserted DEF W!LibraryInv, Going
  <2>2. CASE ~({a.a, a.b} \subseteq DOMAIN nodes /\ a.w \in workflows)
    <3>1. edges' = edges
      BY <1>1, <2>2 DEF W!create_edge
    <3> QED
      BY <1>2, <3>1, RowsSame DEF W!LibraryInv, Going
  <2> QED
    BY <2>1, <2>2
<1> QED
  BY <1>2, <1>3, RequestEnds

(* More rows, none lost.                                                     *)
LEMMA InsertGrows ==
    ASSUME NEW Row, NEW t, W!Table(t, Row), NEW row \in Row
    PROVE  DOMAIN t \subseteq DOMAIN W!Insert(t, row)
<1>1. Inserted(W!Insert(t, row), t, W!NewId(t), row)
  BY InsertIs
<1> QED
  BY <1>1 DEF Inserted

(* A new run is a row of its table.                                          *)
LEMMA RunIs ==
    ASSUME NEW w \in Nat, NEW p \in Nat \cup {None},
           NEW how \in {"manual", "replay", "resume_failed"}
    PROVE  W!Run(w, p, how) \in W!RunRow
BY DEF W!Run, W!RunRow

(* A run of a checked graph is recorded.                                     *)
LEMMA CreateExecutionKeeps ==
    ASSUME ServicesAssumption, W!LibraryInv, NEW c \in Clients, W!create_execution(c)
    PROVE  W!LibraryInv'
<1>1. /\ pending' = [pending EXCEPT ![c] = W!Idle] /\ pending[c] # W!Idle
      /\ W!Writing(c) /\ overlapped' = overlapped /\ unchecked' = unchecked
      /\ answered' = answered /\ removed' = removed /\ pending[c].ask.w \in Nat
      /\ UNCHANGED <<workflows, nodes, edges>>
  BY AtStage DEF W!create_execution, W!End, W!Quiet, W!Same
<1>2. W!RowsInv' /\ DOMAIN executions \subseteq DOMAIN executions'
  <2>1. CASE pending[c].ask.w \in workflows
    <3>1. PICK row \in W!RunRow : row = W!Run(pending[c].ask.w, None, "manual")
      <4>1. None \in Nat \cup {None} /\ "manual" \in {"manual", "replay", "resume_failed"}
        OBVIOUS
      <4> QED
        BY <1>1, <4>1, RunIs
    <3>2. executions' = W!Insert(executions, row)
      BY <2>1, <3>1 DEF W!create_execution
    <3>3. row.wf \in workflows /\ row.parent = None
      BY <2>1, <3>1 DEF W!Run
    <3>4. W!RowsInv'
      BY <1>1, <3>2, <3>3, RunInserted DEF W!LibraryInv
    <3>5. W!Table(executions, W!RunRow)
      BY DEF W!LibraryInv, W!RowsInv, W!RowsTyped
    <3> QED
      BY <3>2, <3>4, <3>5, InsertGrows
  <2>2. CASE pending[c].ask.w \notin workflows
    <3>1. executions' = executions
      BY <2>2 DEF W!create_execution
    <3> QED
      BY <1>1, <3>1, RowsSame DEF W!LibraryInv
  <2> QED
    BY <2>1, <2>2
<1> QED
  BY <1>1, <1>2, RequestEnds DEF Going

(* A run that repeats another is recorded.                                   *)
LEMMA CreateChildKeeps ==
    ASSUME ServicesAssumption, W!LibraryInv, NEW c \in Clients, W!CreateChild(c)
    PROVE  W!LibraryInv'
<1>1. PICK op \in {"replay", "resume_failed"} : W!Is(c, op, "create")
  BY DEF W!CreateChild
<1>2. /\ pending' = [pending EXCEPT ![c] = W!Idle] /\ pending[c] # W!Idle
      /\ W!Writing(c) /\ overlapped' = overlapped /\ unchecked' = unchecked
      /\ answered' = answered /\ removed' = removed
      /\ UNCHANGED <<workflows, nodes, edges>>
      /\ pending[c].ask.op = op /\ pending[c].stage = "create"
      /\ pending[c].ask.a \in Nat
  BY <1>1, AtStage DEF W!CreateChild, W!End, W!Quiet, W!Same
<1>3. PICK s, a : s = pending[c].source /\ a = pending[c].ask.a
  OBVIOUS
<1>4. /\ s \in W!RunRow
      /\ op = "resume_failed" => W!Resumable(s)
      /\ ~overlapped => /\ a \in DOMAIN executions /\ executions[a].wf = s.wf
                        /\ W!Resumable(s) => executions[a].status = s.status
  <2>1. W!ParentKept(c)
    BY DEF W!LibraryInv, W!Promised
  <2> QED
    BY <1>2, <1>3, <2>1 DEF W!ParentKept
<1>5. W!RowsInv' /\ DOMAIN executions \subseteq DOMAIN executions'
  <2>1. CASE s.wf \in workflows /\ a \in DOMAIN executions
    <3>1. PICK row \in W!RunRow : row = W!Run(s.wf, a, op)
      <4>1. s.wf \in Nat /\ a \in Nat \cup {None} /\ op \in {"manual", "replay", "resume_failed"}
        BY <1>2, <1>3, <1>4 DEF W!RunRow
      <4> QED
        BY <4>1, RunIs
    <3>2. executions' = W!Insert(executions, row)
      BY <1>2, <1>3, <2>1, <3>1 DEF W!CreateChild
    <3>3. row.wf = s.wf /\ row.parent = a /\ row.how = op
      BY <3>1 DEF W!Run
    <3>4. ~overlapped =>
               /\ executions[row.parent].wf = row.wf
               /\ row.how = "resume_failed" =>
                     executions[row.parent].status \in {"FAILED", "CANCELLED"}
      BY <1>4, <3>3 DEF W!Resumable
    <3>5. W!RowsInv'
      BY <1>2, <2>1, <3>2, <3>3, <3>4, RunInserted DEF W!LibraryInv
    <3>6. W!Table(executions, W!RunRow)
      BY DEF W!LibraryInv, W!RowsInv, W!RowsTyped
    <3> QED
      BY <3>2, <3>5, <3>6, InsertGrows
  <2>2. CASE ~(s.wf \in workflows /\ a \in DOMAIN executions)
    <3>1. executions' = executions
      BY <1>3, <2>2 DEF W!CreateChild
    <3> QED
      BY <1>2, <3>1, RowsSame DEF W!LibraryInv
  <2> QED
    BY <2>1, <2>2
<1> QED
  BY <1>2, <1>5, RequestEnds DEF Going

(* A request that fails because its row is gone ends; so does a search.      *)
LEMMA LostEnds ==
    ASSUME ServicesAssumption, W!LibraryInv, NEW c \in Clients,
           W!PutLost(c) \/ W!SearchEnds(c)
    PROVE  W!LibraryInv'
<1>1. /\ Going(c) /\ pending' = [pending EXCEPT ![c] = W!Idle]
      /\ UNCHANGED <<workflows, nodes, edges, executions>>
  BY AtStage DEF W!PutLost, W!SearchEnds, W!End, W!Quiet, W!Same, W!rows, Going
<1>2. W!RowsInv'
  BY <1>1, RowsSame DEF W!LibraryInv, Going
<1> QED
  BY <1>1, <1>2, RequestEnds

-----------------------------------------------------------------------------
(* Requests that read, and go on.                                            *)

(* A step that only changes the request of its client.                       *)
Reads(c) ==
    /\ c \in Clients /\ pending[c] # W!Idle
    /\ UNCHANGED <<workflows, nodes, edges, executions, answered, overlapped, unchecked, removed>>

(* A request that only read goes on.                                         *)
LEMMA ReadGoesOn ==
    ASSUME ServicesAssumption, W!LibraryInv, NEW c, Reads(c),
           NEW r \in W!Asked, r.stage # "find", r.ask = pending[c].ask,
           r.removed = pending[c].removed, pending' = [pending EXCEPT ![c] = r], W!Promised(c)'
    PROVE  W!LibraryInv'
<1>1. Going(c) /\ W!RowsInv'
  BY RowsSame DEF Reads, Going, W!LibraryInv
<1> QED
  BY <1>1, RequestGoesOn

(* A request that only read ends.                                            *)
LEMMA ReadEnds ==
    ASSUME ServicesAssumption, W!LibraryInv, NEW c, Reads(c),
           pending' = [pending EXCEPT ![c] = W!Idle]
    PROVE  W!LibraryInv'
<1>1. Going(c) /\ W!RowsInv'
  BY RowsSame DEF Reads, Going, W!LibraryInv
<1> QED
  BY <1>1, RequestEnds

(* A request in its next stage.                                              *)
LEMMA GotoIs ==
    ASSUME W!RequestsTyped, NEW c \in Clients, pending[c] # W!Idle,
           NEW at \in W!Stages, W!Goto(c, at)
    PROVE  \E r \in W!Asked : /\ pending' = [pending EXCEPT ![c] = r]
                              /\ pending'[c] = r
                              /\ r = [pending[c] EXCEPT !.stage = at]
<1>1. pending \in [Clients -> {W!Idle} \cup W!Asked] /\ pending[c] \in W!Asked
  BY RequestIs DEF W!RequestsTyped
<1>2. PICK p \in W!Asked : p = pending[c]
  BY <1>1
<1>3. PICK r : r = [p EXCEPT !.stage = at]
  OBVIOUS
<1>4. r \in W!Asked
  BY <1>2, <1>3 DEF W!Asked
<1>5. pending' = [pending EXCEPT ![c] = r]
  BY <1>2, <1>3 DEF W!Goto
<1>6. pending'[c] = r
  BY <1>1, <1>5
<1> QED
  BY <1>2, <1>3, <1>4, <1>5, <1>6

(* The row to delete is looked up.                                           *)
LEMMA FindKeeps ==
    ASSUME ServicesAssumption, W!LibraryInv, NEW c \in Clients, W!Find(c)
    PROVE  W!LibraryInv'
<1>1. /\ Reads(c) /\ pending[c] # W!Idle /\ W!RequestsTyped
      /\ pending[c].ask.op \in {"delete_node", "delete_edge"}
  BY RequestIs DEF W!Find, W!LibraryInv, W!RequestsTyped, Reads, W!Quiet, W!Same, W!rows
<1>2. CASE W!End(c)
  BY <1>1, <1>2, ReadEnds DEF W!End
<1>3. ASSUME NEW at \in {"unlink", "start"}, W!Goto(c, at)
      PROVE  W!LibraryInv'
  <2>1. at \in W!Stages /\ at # "find"
    BY DEF W!Stages
  <2>2. PICK r \in W!Asked : /\ pending' = [pending EXCEPT ![c] = r] /\ pending'[c] = r
                             /\ r = [pending[c] EXCEPT !.stage = at]
    BY <1>1, <1>3, <2>1, GotoIs
  <2>3. r.ask = pending[c].ask /\ r.removed = pending[c].removed /\ r.stage = at
    BY <1>1, <2>2, RequestIs DEF W!Asked
  <2>4. W!Promised(c)'
    BY <1>1, <2>2, <2>3
    DEF W!Promised, W!EdgeChecked, W!PutAccepted, W!PutKept, W!ParentKept, W!Pages
  <2> QED
    BY <1>1, <2>1, <2>2, <2>3, <2>4, ReadGoesOn
<1> QED
  BY <1>2, <1>3 DEF W!Find

(* The edges of a node are deleted before the node.                          *)
LEMMA UnlinkKeeps ==
    ASSUME ServicesAssumption, W!LibraryInv, NEW c \in Clients, W!delete_by_node(c)
    PROVE  W!LibraryInv'
<1>1. /\ Going(c) /\ W!Goto(c, "start") /\ pending[c] # W!Idle /\ pending[c] \in W!Asked
      /\ pending[c].ask.op = "delete_node" /\ W!RequestsTyped
      /\ UNCHANGED <<workflows, nodes, executions>>
  BY AtStage DEF W!delete_by_node, W!DeleteEdges, W!Quiet, W!Same, Going, W!LibraryInv
<1>2. W!RowsInv'
  <2>1. PICK lost, cut : lost = {} /\ cut = W!Touching({pending[c].ask.a})
    OBVIOUS
  <2>2. edges' = W!Without(edges, cut) /\ W!Touching(lost) \subseteq cut
    BY <2>1 DEF W!delete_by_node, W!DeleteEdges, W!Touching
  <2> QED
    BY <1>1, <2>1, <2>2, RowsDeleted DEF W!LibraryInv, Going
<1>3. PICK r \in W!Asked : /\ pending' = [pending EXCEPT ![c] = r] /\ pending'[c] = r
                           /\ r = [pending[c] EXCEPT !.stage = "start"]
  BY <1>1, GotoIs DEF W!Stages
<1>4. r.ask = pending[c].ask /\ r.removed = pending[c].removed /\ r.stage = "start"
  BY <1>1, <1>3 DEF W!Asked
<1>5. W!Promised(c)'
  BY <1>1, <1>3, <1>4
  DEF W!Promised, W!EdgeChecked, W!PutAccepted, W!PutKept, W!ParentKept, W!Pages
<1> QED
  BY <1>1, <1>2, <1>3, <1>4, <1>5, RequestGoesOn

(* The nodes of a workflow are loaded, for an edge or for a run.             *)
LEMMA LoadNodesKeeps ==
    ASSUME ServicesAssumption, W!LibraryInv, NEW c \in Clients,
           W!EdgeLoadNodes(c) \/ W!RunLoadNodes(c)
    PROVE  W!LibraryInv'
<1>1. PICK op \in {"create_edge", "create_execution"} :
         W!Is(c, op, "start") /\ (op = "create_edge" => W!EdgeLoadNodes(c))
                              /\ (op = "create_execution" => W!RunLoadNodes(c))
  BY DEF W!EdgeLoadNodes, W!RunLoadNodes
<1>2. /\ pending[c] # W!Idle /\ pending[c] \in W!Asked /\ pending[c].ask.op = op
      /\ Reads(c) /\ pending \in [Clients -> {W!Idle} \cup W!Asked]
  BY <1>1, AtStage
  DEF W!EdgeLoadNodes, W!RunLoadNodes, W!Quiet, W!Same, W!rows, Reads, W!LibraryInv, W!RequestsTyped
<1>3. CASE W!End(c)
  BY <1>2, <1>3, ReadEnds DEF W!End
<1>4. CASE ~W!End(c)
  <2>1. PICK p \in W!Asked : p = pending[c]
    BY <1>2
  <2>2. PICK own : own = W!OfWorkflow(nodes, p.ask.w)
    OBVIOUS
  <2>3. /\ pending' = [pending EXCEPT ![c] = [p EXCEPT !.stage = "loaded", !.ids = own]]
        /\ op = "create_edge" => {p.ask.a, p.ask.b} \subseteq own /\ p.ask.a # p.ask.b
    BY <1>1, <1>2, <1>4, <2>1, <2>2 DEF W!EdgeLoadNodes, W!RunLoadNodes
  <2>4. PICK r : r = [p EXCEPT !.stage = "loaded", !.ids = own]
    OBVIOUS
  <2>5. own \in SUBSET Nat
    BY <2>2 DEF W!OfWorkflow, W!LibraryInv, W!RowsInv, W!RowsTyped, W!Table
  <2>6. r \in W!Asked /\ r.stage = "loaded" /\ r.ids = own /\ r.ask = p.ask /\ r.removed = p.removed
    BY <2>1, <2>4, <2>5 DEF W!Asked, W!Stages
  <2>7. pending' = [pending EXCEPT ![c] = r] /\ pending'[c] = r
    BY <1>2, <2>3, <2>4
  <2>8. W!EdgeChecked(c)'
    BY <1>2, <2>1, <2>2, <2>3, <2>6, <2>7 DEF W!EdgeChecked, Reads
  <2>9. W!Promised(c)'
    BY <1>2, <2>1, <2>6, <2>7, <2>8
    DEF W!Promised, W!PutAccepted, W!PutKept, W!ParentKept, W!Pages
  <2> QED
    BY <1>2, <2>1, <2>6, <2>7, <2>9, ReadGoesOn
<1> QED
  BY <1>3, <1>4

(* The ends of edges, read off their triples.                                *)
LEMMA EndsAre ==
    ASSUME NEW es, NEW own
    PROVE  {<<t[1], t[2]>> : t \in {<<es[e].src, es[e].dst, es[e].label>> : e \in own}}
               = {<<es[e].src, es[e].dst>> : e \in own}
<1> DEFINE triple(e) == <<es[e].src, es[e].dst, es[e].label>>
           pairs == {<<t[1], t[2]>> : t \in {triple(e) : e \in own}}
<1>1. \A e \in own : triple(e)[1] = es[e].src /\ triple(e)[2] = es[e].dst
  OBVIOUS
<1>2. \A e \in own : <<es[e].src, es[e].dst>> \in pairs
  <2> SUFFICES ASSUME NEW e \in own PROVE <<es[e].src, es[e].dst>> \in pairs
    OBVIOUS
  <2>1. triple(e) \in {triple(i) : i \in own}
    OBVIOUS
  <2> HIDE DEF triple
  <2> QED
    BY <1>1, <2>1
<1>3. \A p \in pairs : p \in {<<es[e].src, es[e].dst>> : e \in own}
  <2> SUFFICES ASSUME NEW e \in own
               PROVE  <<triple(e)[1], triple(e)[2]>> \in {<<es[i].src, es[i].dst>> : i \in own}
    OBVIOUS
  <2> HIDE DEF triple
  <2> QED
    BY <1>1
<1> QED
  BY <1>2, <1>3

(* The checks of a new edge end.                                             *)
LEMMA EdgeLoadEdgesKeeps ==
    ASSUME ServicesAssumption, W!LibraryInv, NEW c \in Clients, W!EdgeLoadEdges(c)
    PROVE  W!LibraryInv'
<1>1. /\ pending[c] # W!Idle /\ pending[c] \in W!Asked /\ pending[c].ask.op = "create_edge"
      /\ pending[c].stage = "loaded" /\ Reads(c) /\ W!RequestsTyped
  BY AtStage DEF W!EdgeLoadEdges, W!Quiet, W!Same, W!rows, Reads, W!LibraryInv
<1>2. CASE W!End(c)
  BY <1>1, <1>2, ReadEnds DEF W!End
<1>3. CASE ~W!End(c)
  <2>1. PICK p \in W!Asked : p = pending[c]
    BY <1>1
  <2> DEFINE pairs == {<<edges[e].src, edges[e].dst>> : e \in W!OfWorkflow(edges, p.ask.w)}
                          \cup {<<p.ask.a, p.ask.b>>}
  <2>2. W!Goto(c, "valid") /\ W!Acyclic(p.ids, pairs)
    <3> DEFINE own == W!OfWorkflow(edges, p.ask.w)
               triples == W!Triples(own)
    <3>1. {<<t[1], t[2]>> : t \in triples} = {<<edges[e].src, edges[e].dst>> : e \in own}
      BY EndsAre DEF W!Triples
    <3>2. /\ W!Goto(c, "valid")
          /\ W!Acyclic(p.ids, {<<t[1], t[2]>> : t \in triples} \cup {<<p.ask.a, p.ask.b>>})
      BY <1>3, <2>1 DEF W!EdgeLoadEdges, W!Candidate
    <3> QED
      BY <3>1, <3>2
  <2>3. PICK r \in W!Asked : /\ pending' = [pending EXCEPT ![c] = r] /\ pending'[c] = r
                             /\ r = [p EXCEPT !.stage = "valid"]
    BY <1>1, <2>1, <2>2, GotoIs DEF W!Stages
  <2>4. r.ask = p.ask /\ r.removed = p.removed /\ r.stage = "valid" /\ r.ids = p.ids
    BY <2>3 DEF W!Asked
  <2>5. W!EdgeChecked(c)'
    <3>1. W!EdgeChecked(c)
      BY DEF W!LibraryInv, W!Promised
    <3> QED
      BY <1>1, <2>1, <2>2, <2>3, <2>4, <3>1, ZenonT(60) DEF W!EdgeChecked, Reads
  <2>6. W!Promised(c)'
    BY <1>1, <2>1, <2>3, <2>4, <2>5 DEF W!Promised, W!PutAccepted, W!PutKept, W!ParentKept, W!Pages
  <2> QED
    BY <1>1, <2>1, <2>3, <2>4, <2>6, ReadGoesOn
<1> QED
  BY <1>2, <1>3

(* The graph to run is checked.                                              *)
LEMMA RunLoadEdgesKeeps ==
    ASSUME ServicesAssumption, W!LibraryInv, NEW c \in Clients, W!RunLoadEdges(c)
    PROVE  W!LibraryInv'
<1>1. /\ pending[c] # W!Idle /\ pending[c] \in W!Asked /\ pending[c].ask.op = "create_execution"
      /\ Reads(c) /\ W!RequestsTyped
  BY AtStage DEF W!RunLoadEdges, W!Quiet, W!Same, W!rows, Reads, W!LibraryInv
<1>2. CASE W!End(c)
  BY <1>1, <1>2, ReadEnds DEF W!End
<1>3. CASE W!Goto(c, "valid")
  <2>1. PICK r \in W!Asked : /\ pending' = [pending EXCEPT ![c] = r] /\ pending'[c] = r
                             /\ r = [pending[c] EXCEPT !.stage = "valid"]
    BY <1>1, <1>3, GotoIs DEF W!Stages
  <2>2. r.ask = pending[c].ask /\ r.removed = pending[c].removed /\ r.stage = "valid"
    BY <1>1, <2>1 DEF W!Asked
  <2>3. W!Promised(c)'
    BY <1>1, <2>1, <2>2
    DEF W!Promised, W!EdgeChecked, W!PutAccepted, W!PutKept, W!ParentKept, W!Pages
  <2> QED
    BY <1>1, <2>1, <2>2, <2>3, ReadGoesOn
<1> QED
  BY <1>2, <1>3 DEF W!RunLoadEdges

(* The run to be repeated is looked at.                                      *)
LEMMA ParentChecked ==
    ASSUME ServicesAssumption, W!LibraryInv, NEW c \in Clients,
           W!ReplayCheck(c) \/ W!ResumeCheck(c)
    PROVE  W!LibraryInv'
<1>1. PICK op \in {"replay", "resume_failed"} :
         W!Is(c, op, "start") /\ (op = "replay" => W!ReplayCheck(c))
                              /\ (op = "resume_failed" => W!ResumeCheck(c))
  BY DEF W!ReplayCheck, W!ResumeCheck
<1>2. /\ pending[c] # W!Idle /\ pending[c] \in W!Asked /\ pending[c].ask.op = op
      /\ Reads(c) /\ W!RequestsTyped
  BY <1>1, AtStage DEF W!ReplayCheck, W!ResumeCheck, W!Quiet, W!Same, W!rows, Reads, W!LibraryInv
<1>3. CASE W!End(c)
  BY <1>2, <1>3, ReadEnds DEF W!End
<1>4. CASE ~W!End(c)
  <2>1. W!Goto(c, "create") /\ (op = "resume_failed" => W!Resumable(pending[c].source))
    BY <1>1, <1>4 DEF W!ReplayCheck, W!ResumeCheck
  <2>2. PICK r \in W!Asked : /\ pending' = [pending EXCEPT ![c] = r] /\ pending'[c] = r
                             /\ r = [pending[c] EXCEPT !.stage = "create"]
    BY <1>2, <2>1, GotoIs DEF W!Stages
  <2>3. /\ r.ask = pending[c].ask /\ r.removed = pending[c].removed /\ r.stage = "create"
        /\ r.source = pending[c].source
    BY <1>2, <2>2 DEF W!Asked
  <2>4. W!ParentKept(c)'
    <3>1. W!ParentKept(c)
      BY DEF W!LibraryInv, W!Promised
    <3> QED
      BY <1>2, <2>1, <2>2, <2>3, <3>1 DEF W!ParentKept, Reads
  <2>5. W!Promised(c)'
    BY <1>2, <2>2, <2>3, <2>4
    DEF W!Promised, W!EdgeChecked, W!PutAccepted, W!PutKept, W!Pages
  <2> QED
    BY <1>2, <2>2, <2>3, <2>5, ReadGoesOn
<1> QED
  BY <1>3, <1>4

(* A page is read.                                                           *)
LEMMA SearchRowsKeeps ==
    ASSUME ServicesAssumption, W!LibraryInv, NEW c \in Clients, W!SearchRows(c)
    PROVE  W!LibraryInv'
<1>1. /\ pending[c] # W!Idle /\ pending[c] \in W!Asked /\ pending[c].ask.op = "search"
      /\ pending[c].stage = "start" /\ Reads(c) /\ pending \in [Clients -> {W!Idle} \cup W!Asked]
  BY AtStage DEF W!SearchRows, W!Quiet, W!Same, W!rows, Reads, W!LibraryInv, W!RequestsTyped
<1>2. PICK p \in W!Asked : p = pending[c]
  BY <1>1
<1>3. PICK page : page = W!Page(p.skip)
  OBVIOUS
<1>4. p.skip \in Nat /\ p.seen \in SUBSET Nat /\ p.before \in SUBSET Nat /\ PageSize \in Nat
  BY <1>2, EditsAssumed DEF W!Asked
<1>5. DOMAIN executions \in SUBSET Nat /\ IsFiniteSet(DOMAIN executions)
  BY LibrarySets DEF W!LibraryInv, W!RowsInv, W!RowsTyped, W!Table
<1>6. page = {e \in DOMAIN executions :
                 Cardinality(Above(DOMAIN executions, e)) \in p.skip..(p.skip + PageSize - 1)}
  BY <1>3, NewerIs DEF W!Page
<1>7. /\ page \in SUBSET Nat
      /\ W!Cardinality(page) \in Nat /\ W!Cardinality(page) <= PageSize
  BY <1>4, <1>5, <1>6, PageBounded, LibrarySets
<1>8. PICK n \in Nat : n = W!Cardinality(page) /\ n <= PageSize
  BY <1>7
<1>9. PICK r : r = [p EXCEPT !.stage = "count", !.seen = p.seen \cup page, !.made = n]
  OBVIOUS
<1>10. /\ r \in W!Asked /\ r.stage = "count" /\ r.seen = p.seen \cup page /\ r.made = n
       /\ r.ask = p.ask /\ r.removed = p.removed /\ r.skip = p.skip /\ r.before = p.before
  BY <1>2, <1>4, <1>7, <1>9 DEF W!Asked, W!Stages
<1>11. pending' = [pending EXCEPT ![c] = r] /\ pending'[c] = r
  BY <1>1, <1>2, <1>3, <1>8, <1>9 DEF W!SearchRows
<1>12. \A e : W!Newer(e)' = W!Newer(e)
  BY NewerIs, <1>1 DEF Reads
<1>13. ASSUME r.removed = removed
       PROVE  /\ r.before \subseteq DOMAIN executions
              /\ \A e \in r.before : W!Newer(e) < r.skip + PageSize => e \in r.seen
  <2>1. /\ p.before \subseteq DOMAIN executions
        /\ \A e \in p.before : W!Newer(e) < p.skip => e \in p.seen
    <3>1. W!Pages(c)
      BY DEF W!LibraryInv, W!Promised
    <3> QED
      BY <1>1, <1>2, <1>10, <1>13, <3>1 DEF W!Pages
  <2>2. ASSUME NEW e \in p.before, W!Newer(e) < p.skip + PageSize
        PROVE  e \in p.seen \cup page
    <3>1. W!Newer(e) \in Nat /\ W!Newer(e) = Cardinality(Above(DOMAIN executions, e))
      BY <1>5, <2>1, RankIs, NewerIs
    <3>2. CASE W!Newer(e) < p.skip
      BY <2>1, <3>2
    <3>3. CASE ~(W!Newer(e) < p.skip)
      <4>1. W!Newer(e) \in p.skip..(p.skip + PageSize - 1)
        BY <1>4, <2>2, <3>1, <3>3
      <4> QED
        BY <1>6, <2>1, <3>1, <4>1
    <3> QED
      BY <3>2, <3>3
  <2> QED
    BY <1>10, <2>1, <2>2
<1>14. W!Pages(c)'
  BY <1>1, <1>8, <1>10, <1>11, <1>12, <1>13 DEF W!Pages, Reads
<1>15. W!Promised(c)'
  BY <1>1, <1>2, <1>10, <1>11, <1>14
  DEF W!Promised, W!EdgeChecked, W!PutAccepted, W!PutKept, W!ParentKept
<1> QED
  BY <1>1, <1>2, <1>10, <1>11, <1>15, ReadGoesOn

(* The runs are counted: there is a next page, or all have been seen.        *)
LEMMA SearchCountKeeps ==
    ASSUME ServicesAssumption, W!LibraryInv, NEW c \in Clients, W!SearchCount(c)
    PROVE  W!LibraryInv'
<1>1. /\ pending[c] # W!Idle /\ pending[c] \in W!Asked /\ pending[c].ask.op = "search"
      /\ pending[c].stage = "count" /\ Reads(c) /\ pending \in [Clients -> {W!Idle} \cup W!Asked]
  BY AtStage DEF W!SearchCount, W!Quiet, W!Same, W!rows, Reads, W!LibraryInv, W!RequestsTyped
<1>2. PICK p \in W!Asked : p = pending[c]
  BY <1>1
<1>3. p.skip \in Nat /\ p.made \in Nat /\ PageSize \in Nat
  BY <1>2, EditsAssumed DEF W!Asked
<1>4. DOMAIN executions \in SUBSET Nat /\ IsFiniteSet(DOMAIN executions)
  BY LibrarySets DEF W!LibraryInv, W!RowsInv, W!RowsTyped, W!Table
<1>5. \A e : W!Newer(e)' = W!Newer(e)
  BY NewerIs, <1>1 DEF Reads
<1>6. p.removed = removed =>
          /\ p.before \subseteq DOMAIN executions /\ p.made <= PageSize
          /\ \A e \in p.before : W!Newer(e) < p.skip + PageSize => e \in p.seen
  <2>1. W!Pages(c)
    BY DEF W!LibraryInv, W!Promised
  <2> QED
    BY <1>1, <1>2, <2>1 DEF W!Pages
<1>7. CASE W!HasMore(c)
  <2>0. PICK k \in Nat : k = p.skip + PageSize
    BY <1>3
  <2>1. PICK r : r = [p EXCEPT !.stage = "start", !.skip = k]
    OBVIOUS
  <2>2. /\ r \in W!Asked /\ r.stage = "start" /\ r.skip = k /\ r.seen = p.seen
        /\ r.ask = p.ask /\ r.removed = p.removed /\ r.before = p.before
    BY <1>2, <2>1 DEF W!Asked, W!Stages
  <2>3. pending' = [pending EXCEPT ![c] = r] /\ pending'[c] = r
    BY <1>1, <1>2, <1>7, <2>0, <2>1 DEF W!SearchCount
  <2>4. W!Pages(c)'
    BY <1>1, <1>5, <1>6, <2>0, <2>2, <2>3 DEF W!Pages, Reads
  <2>5. W!Promised(c)'
    BY <1>1, <1>2, <2>2, <2>3, <2>4
    DEF W!Promised, W!EdgeChecked, W!PutAccepted, W!PutKept, W!ParentKept
  <2> QED
    BY <1>1, <1>2, <2>2, <2>3, <2>5, ReadGoesOn
<1>8. CASE ~W!HasMore(c)
  <2>1. PICK r : r = [p EXCEPT !.stage = "seen"]
    OBVIOUS
  <2>2. /\ r \in W!Asked /\ r.stage = "seen" /\ r.seen = p.seen
        /\ r.ask = p.ask /\ r.removed = p.removed /\ r.before = p.before
    BY <1>2, <2>1 DEF W!Asked, W!Stages
  <2>3. pending' = [pending EXCEPT ![c] = r] /\ pending'[c] = r
    BY <1>1, <1>2, <1>8, <2>1 DEF W!SearchCount
  <2>4. ~(p.skip + p.made < Cardinality(DOMAIN executions))
    BY <1>2, <1>8, LibrarySets DEF W!HasMore
  <2>5. ASSUME p.removed = removed PROVE p.before \subseteq p.seen
    <3> SUFFICES ASSUME NEW e \in p.before PROVE e \in p.seen
      OBVIOUS
    <3>1. /\ W!Newer(e) \in Nat /\ W!Newer(e) < Cardinality(DOMAIN executions)
          /\ Cardinality(DOMAIN executions) \in Nat
      BY <1>4, <1>6, <2>5, RankIs, NewerIs
    <3>2. W!Newer(e) < p.skip + PageSize
      BY <1>3, <1>6, <2>4, <2>5, <3>1
    <3> QED
      BY <1>6, <2>5, <3>2
  <2>6. W!Pages(c)'
    BY <1>1, <1>6, <2>2, <2>3, <2>5 DEF W!Pages, Reads
  <2>7. W!Promised(c)'
    BY <1>1, <1>2, <2>2, <2>3, <2>6
    DEF W!Promised, W!EdgeChecked, W!PutAccepted, W!PutKept, W!ParentKept
  <2> QED
    BY <1>1, <1>2, <2>2, <2>3, <2>7, ReadGoesOn
<1> QED
  BY <1>7, <1>8

-----------------------------------------------------------------------------
(* A graph is replaced.                                                      *)

(* A graph is replaced: its edges go first.                                  *)
LEMMA PutDeleteEdgesKeeps ==
    ASSUME ServicesAssumption, W!LibraryInv, NEW c \in Clients, W!PutDeleteEdges(c)
    PROVE  W!LibraryInv'
<1>1. /\ Going(c) /\ W!Goto(c, "delete_nodes") /\ pending[c] # W!Idle /\ pending[c] \in W!Asked
      /\ pending[c].ask.op = "put" /\ pending[c].stage = "delete_edges" /\ W!RequestsTyped
      /\ UNCHANGED <<workflows, nodes, executions>>
  BY AtStage DEF W!PutDeleteEdges, W!DeleteEdges, W!Quiet, W!Same, Going, W!LibraryInv
<1>2. PICK w, cut : w = pending[c].ask.w /\ cut = W!OfWorkflow(edges, w)
  OBVIOUS
<1>3. edges' = W!Without(edges, cut)
  BY <1>2 DEF W!PutDeleteEdges, W!DeleteEdges
<1>4. W!RowsInv'
  <2>1. PICK lost : lost = {}
    OBVIOUS
  <2>2. W!Touching(lost) \subseteq cut
    BY <2>1 DEF W!Touching
  <2> QED
    BY <1>1, <1>3, <2>1, <2>2, RowsDeleted DEF W!LibraryInv, Going
<1>5. W!OfWorkflow(edges', w) = {}
  <2>1. W!Table(edges, W!EdgeRow)
    BY DEF W!LibraryInv, W!RowsInv, W!RowsTyped
  <2>2. DOMAIN edges' = DOMAIN edges \ cut /\ \A j \in DOMAIN edges' : edges'[j] = edges[j]
    BY <1>3, <2>1, WithoutIs
  <2> QED
    BY <1>2, <2>2 DEF W!OfWorkflow
<1>6. PICK r \in W!Asked : /\ pending' = [pending EXCEPT ![c] = r] /\ pending'[c] = r
                           /\ r = [pending[c] EXCEPT !.stage = "delete_nodes"]
  BY <1>1, GotoIs DEF W!Stages
<1>7. /\ r.ask = pending[c].ask /\ r.removed = pending[c].removed /\ r.stage = "delete_nodes"
      /\ r.map = pending[c].map /\ r.made = pending[c].made
  BY <1>1, <1>6 DEF W!Asked
<1>8. W!PutAccepted(c)'
  <2>1. W!PutAccepted(c)
    BY DEF W!LibraryInv, W!Promised
  <2> QED
    BY <1>1, <1>6, <1>7, <2>1 DEF W!PutAccepted, Going
<1>9. W!PutKept(c)'
  BY <1>2, <1>5, <1>6, <1>7 DEF W!PutKept
<1>10. W!Promised(c)'
  BY <1>1, <1>6, <1>7, <1>8, <1>9 DEF W!Promised, W!EdgeChecked, W!ParentKept, W!Pages
<1> QED
  BY <1>1, <1>4, <1>6, <1>7, <1>10, RequestGoesOn

(* Then its nodes go.                                                        *)
LEMMA PutDeleteNodesKeeps ==
    ASSUME ServicesAssumption, W!LibraryInv, NEW c \in Clients, W!PutDeleteNodes(c)
    PROVE  W!LibraryInv'
<1>1. /\ Going(c) /\ W!Goto(c, "create_nodes") /\ pending[c] # W!Idle /\ pending[c] \in W!Asked
      /\ pending[c].ask.op = "put" /\ pending[c].stage = "delete_nodes" /\ W!RequestsTyped
      /\ UNCHANGED <<workflows, executions>>
      /\ Len(pending[c].ask.graph.nodes) \in Nat
  BY AtStage DEF W!PutDeleteNodes, W!Quiet, W!Same, Going, W!LibraryInv
<1>2. PICK w, lost, cut : /\ w = pending[c].ask.w
                          /\ lost = W!OfWorkflow(nodes, w) /\ cut = W!Touching(lost)
  OBVIOUS
<1>3. nodes' = W!Without(nodes, lost) /\ edges' = W!Without(edges, cut)
  BY <1>2 DEF W!PutDeleteNodes, W!DeleteNodes
<1>4. W!RowsInv'
  BY <1>1, <1>2, <1>3, RowsDeleted DEF W!LibraryInv, Going
<1>5. /\ W!OfWorkflow(nodes', w) = {}
      /\ W!OfWorkflow(edges', w) \subseteq W!OfWorkflow(edges, w)
  <2>1. W!Table(nodes, W!NodeRow) /\ W!Table(edges, W!EdgeRow)
    BY DEF W!LibraryInv, W!RowsInv, W!RowsTyped
  <2>2. /\ DOMAIN nodes' = DOMAIN nodes \ lost /\ \A j \in DOMAIN nodes' : nodes'[j] = nodes[j]
        /\ DOMAIN edges' = DOMAIN edges \ cut /\ \A j \in DOMAIN edges' : edges'[j] = edges[j]
    BY <1>3, <2>1, WithoutIs
  <2> QED
    BY <1>2, <2>2 DEF W!OfWorkflow
<1>6. PICK r \in W!Asked : /\ pending' = [pending EXCEPT ![c] = r] /\ pending'[c] = r
                           /\ r = [pending[c] EXCEPT !.stage = "create_nodes"]
  BY <1>1, GotoIs DEF W!Stages
<1>7. /\ r.ask = pending[c].ask /\ r.removed = pending[c].removed /\ r.stage = "create_nodes"
      /\ r.map = pending[c].map /\ r.made = pending[c].made
  BY <1>1, <1>6 DEF W!Asked
<1>8. W!PutAccepted(c) /\ W!PutKept(c)
  BY DEF W!LibraryInv, W!Promised
<1>9. pending[c].made = 0 /\ pending[c].map = <<>>
  BY <1>1, <1>8 DEF W!PutAccepted
<1>10. W!PutAccepted(c)'
  BY <1>1, <1>6, <1>7, <1>8 DEF W!PutAccepted, Going
<1>11. W!PutKept(c)'
  <2>1. ~overlapped => W!OfWorkflow(edges, w) = {}
    BY <1>1, <1>2, <1>8, <1>9 DEF W!PutKept
  <2>2. W!ToSet(<<>>) = {} /\ W!IsInjective(<<>>) /\ Len(<<>>) = 0
    BY DEF W!ToSet, W!IsInjective
  <2>3. PICK g : g = pending[c].ask.graph /\ Len(g.nodes) \in Nat
    BY <1>1
  <2>4. /\ r.ask.w = w /\ r.ask.graph = g /\ r.map = <<>> /\ r.stage = "create_nodes"
    BY <1>2, <1>7, <1>9, <2>3
  <2>5. ~overlapped' => W!OfWorkflow(edges', w) = {}
    BY <1>1, <1>5, <2>1 DEF Going
  <2>6. Len(r.map) <= Len(g.nodes) /\ W!OfWorkflow(nodes', w) = W!ToSet(r.map)
        /\ W!IsInjective(r.map)
    BY <1>5, <2>2, <2>3, <2>4
  <2> QED
    BY <1>6, <2>4, <2>5, <2>6 DEF W!PutKept
<1>12. W!Promised(c)'
  BY <1>1, <1>6, <1>7, <1>10, <1>11 DEF W!Promised, W!EdgeChecked, W!ParentKept, W!Pages
<1> QED
  BY <1>1, <1>4, <1>6, <1>7, <1>12, RequestGoesOn

(* One node more of the payload is inserted.                                 *)
LEMMA PutNodeInserts ==
    ASSUME ServicesAssumption, W!LibraryInv, NEW c \in Clients, W!Is(c, "put", "create_nodes"),
           W!Quiet, UNCHANGED <<workflows, edges, executions>>,
           Len(pending[c].map) < Len(pending[c].ask.graph.nodes),
           NEW row \in W!NodeRow, row.wf = pending[c].ask.w, row.wf \in workflows,
           nodes' = W!Insert(nodes, row), NEW i, i = W!NewId(nodes),
           pending' = [pending EXCEPT ![c].map = Append(pending[c].map, i), ![c].last = i]
    PROVE  W!LibraryInv'
<1>1. /\ Going(c) /\ pending[c] # W!Idle /\ pending[c] \in W!Asked /\ pending[c].ask.op = "put"
      /\ pending[c].stage = "create_nodes" /\ pending \in [Clients -> {W!Idle} \cup W!Asked]
      /\ Len(pending[c].ask.graph.nodes) \in Nat
  BY AtStage DEF W!Quiet, W!Same, Going, W!LibraryInv, W!RequestsTyped
<1>2. W!RowsInv'
  BY <1>1, NodeRowInserted DEF Going, W!LibraryInv
<1>3. Inserted(nodes', nodes, i, row)
  BY InsertIs DEF W!LibraryInv, W!RowsInv, W!RowsTyped
<1>4. PICK p \in W!Asked : p = pending[c]
  BY <1>1
<1>5. PICK m : m = Append(p.map, i)
  OBVIOUS
<1>6. p.map \in Seq(Nat) /\ i \in Nat
  BY <1>3, <1>4 DEF W!Asked, Inserted
<1>7. /\ m \in Seq(Nat) /\ Len(m) = Len(p.map) + 1 /\ Len(p.map) \in Nat
      /\ DOMAIN m = 1..(Len(p.map) + 1) /\ DOMAIN p.map = 1..Len(p.map)
      /\ m[Len(p.map) + 1] = i /\ \A k \in 1..Len(p.map) : m[k] = p.map[k]
  BY <1>5, <1>6
<1>8. PICK r : r = [p EXCEPT !.map = m, !.last = i]
  OBVIOUS
<1>9. /\ r \in W!Asked /\ r.stage = "create_nodes" /\ r.map = m /\ r.made = p.made
      /\ r.ask = p.ask /\ r.removed = p.removed
  BY <1>1, <1>4, <1>6, <1>7, <1>8 DEF W!Asked
<1>10. pending' = [pending EXCEPT ![c] = r] /\ pending'[c] = r
  BY <1>1, <1>4, <1>5, <1>8
<1>11. W!PutAccepted(c) /\ W!PutKept(c)
  BY DEF W!LibraryInv, W!Promised
<1>12. W!PutAccepted(c)'
  BY <1>1, <1>4, <1>9, <1>10, <1>11 DEF W!PutAccepted, Going
<1>13. ASSUME ~overlapped
       PROVE  /\ W!OfWorkflow(edges, p.ask.w) = {}
              /\ W!OfWorkflow(nodes', p.ask.w) = W!ToSet(m)
              /\ W!IsInjective(m) /\ Len(m) <= Len(p.ask.graph.nodes)
  <2>1. /\ W!OfWorkflow(nodes, p.ask.w) = W!ToSet(p.map) /\ W!IsInjective(p.map)
        /\ p.made = 0
    BY <1>1, <1>4, <1>11, <1>13 DEF W!PutKept, W!PutAccepted
  <2>2. W!OfWorkflow(edges, p.ask.w) = {}
    BY <1>1, <1>4, <1>11, <1>13, <2>1, SMTT(30) DEF W!PutKept
  <2>3. W!OfWorkflow(nodes', p.ask.w) = W!OfWorkflow(nodes, p.ask.w) \cup {i}
    BY <1>3, <1>4 DEF Inserted, W!OfWorkflow
  <2>4. W!ToSet(m) = W!ToSet(p.map) \cup {i}
    <3>1. PICK n \in Nat : n = Len(p.map)
      BY <1>7
    <3>2. /\ DOMAIN m = 1..(n + 1) /\ DOMAIN p.map = 1..n /\ m[n + 1] = i
          /\ \A k \in 1..n : m[k] = p.map[k]
      BY <1>7, <3>1
    <3>3. \A k \in 1..(n + 1) : m[k] \in W!ToSet(p.map) \cup {i}
      <4>1. \A k \in 1..(n + 1) : k \in 1..n \/ k = n + 1
        OBVIOUS
      <4>2. \A k \in 1..n : p.map[k] \in W!ToSet(p.map)
        BY <3>2 DEF W!ToSet
      <4> QED
        BY <3>2, <4>1, <4>2
    <3>4. \A k \in 1..n : p.map[k] \in W!ToSet(m)
      <4>1. \A k \in 1..n : k \in 1..(n + 1)
        OBVIOUS
      <4>2. \A k \in 1..(n + 1) : m[k] \in W!ToSet(m)
        BY <3>2 DEF W!ToSet
      <4> QED
        BY <3>2, <4>1, <4>2
    <3>5. i \in W!ToSet(m)
      BY <3>2 DEF W!ToSet
    <3>6. W!ToSet(m) \subseteq W!ToSet(p.map) \cup {i}
      BY <3>2, <3>3 DEF W!ToSet
    <3>7. W!ToSet(p.map) \subseteq W!ToSet(m)
      BY <3>2, <3>4 DEF W!ToSet
    <3> QED
      BY <3>5, <3>6, <3>7
  <2>5. \A k \in 1..Len(p.map) : p.map[k] # i
    <3>1. \A k \in 1..Len(p.map) : p.map[k] \in W!ToSet(p.map)
      BY <1>7 DEF W!ToSet
    <3>2. W!ToSet(p.map) \subseteq DOMAIN nodes
      BY <2>1 DEF W!OfWorkflow
    <3> QED
      BY <1>3, <3>1, <3>2 DEF Inserted
  <2>6. W!IsInjective(m)
    <3> SUFFICES ASSUME NEW a \in 1..(Len(p.map) + 1), NEW b \in 1..(Len(p.map) + 1), m[a] = m[b]
                 PROVE  a = b
      BY <1>7 DEF W!IsInjective
    <3>1. CASE a \in 1..Len(p.map) /\ b \in 1..Len(p.map)
      BY <1>7, <2>1, <3>1 DEF W!IsInjective
    <3>2. CASE a = Len(p.map) + 1 /\ b # Len(p.map) + 1
      <4>1. b \in 1..Len(p.map)
        BY <1>7, <3>2
      <4> QED
        BY <1>7, <2>5, <3>2, <4>1
    <3>3. CASE b = Len(p.map) + 1 /\ a # Len(p.map) + 1
      <4>1. a \in 1..Len(p.map)
        BY <1>7, <3>3
      <4> QED
        BY <1>7, <2>5, <3>3, <4>1
    <3> QED
      BY <1>7, <3>1, <3>2, <3>3
  <2>7. Len(m) <= Len(p.ask.graph.nodes)
    BY <1>1, <1>4, <1>7
  <2> QED
    BY <2>1, <2>2, <2>3, <2>4, <2>6, <2>7
<1>14. W!PutKept(c)'
  <2>1. ~overlapped' => /\ W!OfWorkflow(edges', r.ask.w) = {}
                        /\ W!OfWorkflow(nodes', r.ask.w) = W!ToSet(r.map)
                        /\ W!IsInjective(r.map) /\ Len(r.map) <= Len(r.ask.graph.nodes)
    BY <1>1, <1>9, <1>13 DEF Going
  <2> QED
    BY <1>9, <1>10, <2>1 DEF W!PutKept
<1>15. W!Promised(c)'
  BY <1>1, <1>4, <1>9, <1>10, <1>12, <1>14 DEF W!Promised, W!EdgeChecked, W!ParentKept, W!Pages
<1> QED
  BY <1>1, <1>2, <1>4, <1>9, <1>10, <1>15, RequestGoesOn

(* A node of the new graph is inserted, or all of them are.                  *)
LEMMA PutNodeKeeps ==
    ASSUME ServicesAssumption, W!LibraryInv, NEW c \in Clients, W!PutNode(c)
    PROVE  W!LibraryInv'
<1>1. /\ W!Is(c, "put", "create_nodes") /\ W!Quiet /\ UNCHANGED <<workflows, edges, executions>>
      /\ pending[c] # W!Idle /\ pending[c] \in W!Asked /\ pending[c].ask.op = "put"
      /\ pending[c].stage = "create_nodes" /\ pending \in [Clients -> {W!Idle} \cup W!Asked]
      /\ pending[c].ask.w \in Nat /\ Len(pending[c].ask.graph.nodes) \in Nat
      /\ pending[c].map \in Seq(Nat)
  <2>1. W!Is(c, "put", "create_nodes") /\ W!Quiet /\ UNCHANGED <<workflows, edges, executions>>
    BY DEF W!PutNode
  <2>2. /\ pending[c] # W!Idle /\ pending[c] \in W!Asked /\ pending[c].ask.op = "put"
        /\ pending[c].stage = "create_nodes" /\ pending[c].ask.w \in Nat
        /\ pending[c].ask.graph.nodes \in Seq(Nat)
    BY <2>1, AtStage
  <2>3. pending[c].map \in Seq(Nat) /\ Len(pending[c].ask.graph.nodes) \in Nat
    BY <2>2 DEF W!Asked
  <2>4. pending \in [Clients -> {W!Idle} \cup W!Asked]
    BY DEF W!LibraryInv, W!RequestsTyped
  <2> QED
    BY <2>1, <2>2, <2>3, <2>4
<1>2. CASE Len(pending[c].map) < Len(pending[c].ask.graph.nodes) /\ pending[c].ask.w \in workflows
  <2>1. PICK row \in W!NodeRow : row = [wf |-> pending[c].ask.w]
    BY <1>1 DEF W!NodeRow
  <2>2. PICK i : i = W!NewId(nodes)
    OBVIOUS
  <2>3. /\ nodes' = W!Insert(nodes, row)
        /\ pending' = [pending EXCEPT ![c].map = Append(pending[c].map, i), ![c].last = i]
    BY <1>2, <2>1, <2>2 DEF W!PutNode
  <2> QED
    BY <1>1, <1>2, <2>1, <2>2, <2>3, PutNodeInserts
<1>3. CASE /\ Len(pending[c].map) < Len(pending[c].ask.graph.nodes)
           /\ pending[c].ask.w \notin workflows
  <2>1. Reads(c) /\ W!End(c)
    BY <1>1, <1>3 DEF W!PutNode, Reads, W!Quiet, W!Same
  <2> QED
    BY <2>1, ReadEnds DEF W!End
<1>4. CASE ~(Len(pending[c].map) < Len(pending[c].ask.graph.nodes))
  <2>1. PICK p \in W!Asked : p = pending[c]
    BY <1>1
  <2>2. PICK r : r = [p EXCEPT !.stage = "create_edges", !.last = None]
    OBVIOUS
  <2>3. /\ r \in W!Asked /\ r.stage = "create_edges" /\ r.map = p.map /\ r.made = p.made
        /\ r.ask = p.ask /\ r.removed = p.removed
    BY <2>1, <2>2 DEF W!Asked, W!Stages
  <2>4. Reads(c) /\ pending' = [pending EXCEPT ![c] = r] /\ pending'[c] = r
    BY <1>1, <1>4, <2>1, <2>2 DEF W!PutNode, Reads, W!Quiet, W!Same
  <2>5. W!PutAccepted(c) /\ W!PutKept(c)
    BY DEF W!LibraryInv, W!Promised
  <2>6. W!PutAccepted(c)'
    BY <1>1, <2>1, <2>3, <2>4, <2>5 DEF W!PutAccepted, Reads
  <2>7. W!PutKept(c)'
    <3>1. \A k : W!Image(c, k)' = W!Image(c, k)
      BY <2>1, <2>3, <2>4 DEF W!Image
    <3>2. ~overlapped => /\ W!IsInjective(p.map) /\ Len(p.map) = Len(p.ask.graph.nodes)
                         /\ W!OfWorkflow(nodes, p.ask.w) = W!ToSet(p.map)
                         /\ \A e \in W!OfWorkflow(edges, p.ask.w) :
                               \E k \in 1..p.made : edges[e] = W!Image(c, k)
      BY <1>1, <1>4, <2>1, <2>5 DEF W!PutKept
    <3> QED
      BY <2>1, <2>3, <2>4, <3>1, <3>2, <1>1 DEF W!PutKept, Reads
  <2>8. W!Promised(c)'
    BY <1>1, <2>1, <2>3, <2>4, <2>6, <2>7 DEF W!Promised, W!EdgeChecked, W!ParentKept, W!Pages
  <2> QED
    BY <2>1, <2>3, <2>4, <2>8, ReadGoesOn
<1> QED
  BY <1>2, <1>3, <1>4

(* The next edge of the payload joins rows of its workflow, and closes no    *)
(* circle with those before it: the payload, whose image they are, has none. *)
LEMMA PutEdgeSound ==
    ASSUME ServicesAssumption, W!LibraryInv, NEW c \in Clients, W!Is(c, "put", "create_edges"),
           ~overlapped, ~unchecked, NEW p \in W!Asked, p = pending[c],
           p.made < Len(p.ask.graph.edges), NEW row, row = W!Image(c, p.made + 1),
           {row.src, row.dst} \subseteq W!ToSet(p.map)
    PROVE  /\ row.src # row.dst
           /\ {row.src, row.dst} \subseteq W!OfWorkflow(nodes, row.wf)
           /\ W!Acyclic(W!OfWorkflow(nodes, row.wf),
                        Arrows(edges, row.wf) \cup
                            (IF row.label = "loop" THEN {} ELSE {<<row.src, row.dst>>}))
<1>1. /\ p # W!Idle /\ p.ask.op = "put" /\ p.stage = "create_edges"
      /\ p.ask \in [op : STRING, w : Nat, a : Nat, b : Nat, label : STRING,
                    graph : [ids : BOOLEAN, nodes : Seq(Nat), edges : Seq(Nat \X Nat \X STRING)]]
  BY AtStage
<1>2. PICK g \in [ids : BOOLEAN, nodes : Seq(Nat), edges : Seq(Nat \X Nat \X STRING)] : g = p.ask.graph
  BY <1>1
<1>3. PICK w \in Nat, m \in Seq(Nat), n \in Nat : w = p.ask.w /\ m = p.map /\ n = p.made
  BY <1>1 DEF W!Asked
<1>4. W!PutAccepted(c) /\ W!PutKept(c)
  BY DEF W!LibraryInv, W!Promised
<1>5. /\ W!OfWorkflow(nodes, w) = W!ToSet(m) /\ W!IsInjective(m) /\ Len(m) = Len(g.nodes)
      /\ \A e \in W!OfWorkflow(edges, w) : \E k \in 1..n : edges[e] = W!Image(c, k)
  BY <1>1, <1>2, <1>3, <1>4 DEF W!PutKept
<1>6. g.nodes # <<>>
  <2>1. W!ToSet(<<>>) = {}
    BY DEF W!ToSet
  <2>2. m # <<>>
    BY <1>3, <2>1
  <2> QED
    BY <1>3, <1>5, <2>2
<1>7. W!Sound(g) /\ (g.ids => W!IsInjective(g.nodes))
  BY <1>1, <1>2, <1>4, <1>6 DEF W!PutAccepted
<1> DEFINE names == W!Names(g)
           pairs == W!Forward(W!ToSet(g.edges))
           image == [x \in names |-> W!Mapped(g, m, x)]
<1>8. /\ \A x \in names : image[x] \in W!ToSet(m)
      /\ \A x, y \in names : image[x] = image[y] => x = y
  BY <1>5, <1>7, MappedIs
<1>9. /\ \A t \in W!ToSet(g.edges) : t[1] \in names /\ t[2] \in names /\ t[1] # t[2]
      /\ W!Acyclic(names, pairs)
  BY <1>7, SMTT(40) DEF W!Sound, W!validate_graph_with_loops, W!validate_graph
<1> HIDE DEF names, pairs
<1>10. ASSUME NEW k \in 1..Len(g.edges)
       PROVE  /\ g.edges[k][1] \in names /\ g.edges[k][2] \in names
              /\ g.edges[k][1] # g.edges[k][2]
              /\ g.edges[k][3] # "loop" => <<g.edges[k][1], g.edges[k][2]>> \in pairs
              /\ W!Image(c, k).src = image[g.edges[k][1]]
              /\ W!Image(c, k).dst = image[g.edges[k][2]]
              /\ W!Image(c, k).label = g.edges[k][3] /\ W!Image(c, k).wf = w
  <2>1. g.edges[k] \in W!ToSet(g.edges)
    BY DEF W!ToSet
  <2>2. g.edges[k][3] # "loop" => <<g.edges[k][1], g.edges[k][2]>> \in pairs
    BY <2>1 DEF W!Forward, pairs
  <2>3. g.edges[k][1] \in names /\ g.edges[k][2] \in names /\ g.edges[k][1] # g.edges[k][2]
    BY <1>9, <2>1
  <2> QED
    BY <1>2, <1>3, <2>2, <2>3, Zenon DEF W!Image
<1>11. n + 1 \in 1..Len(g.edges) /\ \A k \in 1..n : k \in 1..Len(g.edges)
  <2>1. Len(g.edges) \in Nat
    OBVIOUS
  <2>2. n < Len(g.edges)
    BY <1>2, <1>3
  <2> QED
    BY <2>1, <2>2
<1> HIDE DEF image
<1>12. row.src # row.dst /\ row.wf = w
  <2>1. PICK k \in 1..Len(g.edges) : k = n + 1
    BY <1>11
  <2>2. row = W!Image(c, k)
    BY <1>3, <2>1
  <2>3. PICK a \in names, b \in names : a = g.edges[k][1] /\ b = g.edges[k][2] /\ a # b
    BY <1>10
  <2>4. row.src = image[a] /\ row.dst = image[b] /\ row.wf = w
    BY <1>10, <2>2, <2>3
  <2>5. image[a] # image[b]
    BY <1>8, <2>3
  <2> QED
    BY <2>4, <2>5
<1>13. {row.src, row.dst} \subseteq W!OfWorkflow(nodes, w)
  BY <1>3, <1>5
<1> DEFINE more == IF row.label = "loop" THEN {} ELSE {<<row.src, row.dst>>}
<1>14. ASSUME NEW e \in Arrows(edges, w) \cup more
       PROVE  \E a, b \in names : <<a, b>> \in pairs /\ e = <<image[a], image[b]>>
  <2>1. CASE e \in more
    BY <1>3, <1>10, <1>11, <2>1
  <2>2. CASE e \in Arrows(edges, w)
    <3>1. PICK i \in W!OfWorkflow(edges, w) :
             edges[i].label # "loop" /\ e = <<edges[i].src, edges[i].dst>>
      BY <2>2 DEF Arrows
    <3>2. PICK k \in 1..n : edges[i] = W!Image(c, k)
      BY <1>5
    <3> QED
      BY <1>10, <1>11, <3>1, <3>2, ZenonT(60)
  <2> QED
    BY <2>1, <2>2
<1> HIDE DEF more
<1>15. W!Acyclic(W!OfWorkflow(nodes, w), Arrows(edges, w) \cup more)
  <2>1. PICK arrows : arrows = Arrows(edges, w) \cup more
    OBVIOUS
  <2>2. \A e \in arrows : \E a, b \in names : <<a, b>> \in pairs /\ e = <<image[a], image[b]>>
    BY <1>14, <2>1
  <2>3. Images(image, names, pairs, arrows)
    BY <1>8, <2>2 DEF Images
  <2>4. W!Acyclic(W!OfWorkflow(nodes, w), arrows)
    BY <1>9, <2>3, AcyclicMapped
  <2> QED
    BY <2>1, <2>4
<1> QED
  BY <1>12, <1>13, <1>15 DEF more

(* An edge of the new graph is inserted, or the request ends.                *)
LEMMA PutEdgeKeeps ==
    ASSUME ServicesAssumption, W!LibraryInv, NEW c \in Clients, W!PutEdge(c)
    PROVE  W!LibraryInv'
<1>1. W!Is(c, "put", "create_edges") /\ W!Quiet /\ UNCHANGED <<workflows, nodes, executions>>
  BY DEF W!PutEdge
<1>2. /\ Going(c) /\ pending[c] # W!Idle /\ pending[c] \in W!Asked /\ pending[c].ask.op = "put"
      /\ pending[c].stage = "create_edges"
      /\ pending[c].ask \in [op : STRING, w : Nat, a : Nat, b : Nat, label : STRING,
                    graph : [ids : BOOLEAN, nodes : Seq(Nat), edges : Seq(Nat \X Nat \X STRING)]]
  BY <1>1, AtStage DEF W!Quiet, W!Same, Going
<1>3. pending \in [Clients -> {W!Idle} \cup W!Asked]
  BY DEF W!LibraryInv, W!RequestsTyped
<1>4. PICK p \in W!Asked : p = pending[c]
  BY <1>2
<1>5. PICK g \in [ids : BOOLEAN, nodes : Seq(Nat), edges : Seq(Nat \X Nat \X STRING)] : g = p.ask.graph
  BY <1>2, <1>4
<1>6. p.made \in Nat /\ p.map \in Seq(Nat) /\ p.ask.w \in Nat /\ Len(g.edges) \in Nat
  BY <1>2, <1>4, <1>5 DEF W!Asked
<1>7. PICK row : row = W!Image(c, p.made + 1)
  OBVIOUS
<1> DEFINE edge == g.edges[p.made + 1]
           tips == <<W!Mapped(g, p.map, edge[1]), W!Mapped(g, p.map, edge[2])>>
           fits == /\ p.made < Len(g.edges)
                   /\ W!ToSet(tips) \subseteq W!ToSet(p.map)
                   /\ W!ToSet(tips) \subseteq DOMAIN nodes /\ p.ask.w \in workflows
<1>8. row = [wf |-> p.ask.w, src |-> tips[1], dst |-> tips[2], label |-> edge[3]]
  BY <1>4, <1>5, <1>7 DEF W!Image
<1>9. W!ToSet(tips) = {tips[1], tips[2]}
  BY SMTT(40) DEF W!ToSet
<1>10. IF fits
       THEN /\ edges' = W!Insert(edges, [wf |-> p.ask.w, src |-> tips[1], dst |-> tips[2],
                                         label |-> edge[3]])
            /\ pending' = [pending EXCEPT ![c].made = pending[c].made + 1, ![c].last = W!NewId(edges)]
       ELSE W!End(c) /\ UNCHANGED edges
  BY <1>4, <1>5, Zenon DEF W!PutEdge
<1>11. CASE ~fits
  <2>1. Reads(c) /\ W!End(c)
    <3> HIDE DEF fits
    <3> QED
      BY <1>1, <1>2, <1>10, <1>11 DEF Reads, W!Quiet, W!Same
  <2> QED
    BY <2>1, ReadEnds DEF W!End
<1>12. CASE fits
  <2>1. /\ p.made < Len(g.edges) /\ p.ask.w \in workflows
        /\ {row.src, row.dst} \subseteq W!ToSet(p.map) /\ {row.src, row.dst} \subseteq DOMAIN nodes
    <3> HIDE DEF tips
    <3> QED
      BY <1>8, <1>9, <1>12
  <2>2. row \in W!EdgeRow
    <3>1. edge \in Nat \X Nat \X STRING
      BY <1>5, <1>6, <2>1, SMTT(30)
    <3>2. W!ToSet(p.map) \subseteq Nat
      BY <1>6 DEF W!ToSet
    <3> HIDE DEF tips, edge
    <3>3. row.src \in Nat /\ row.dst \in Nat
      BY <2>1, <3>2
    <3> QED
      BY <1>6, <1>8, <3>1, <3>3 DEF W!EdgeRow
  <2>3. PICK i : i = W!NewId(edges)
    OBVIOUS
  <2>4. /\ edges' = W!Insert(edges, row) /\ row.wf = p.ask.w
        /\ pending' = [pending EXCEPT ![c].made = pending[c].made + 1, ![c].last = i]
    <3> HIDE DEF fits, tips, edge
    <3> QED
      BY <1>8, <1>10, <1>12, <2>3
  <2> HIDE DEF fits, tips, edge
  <2>5. W!Table(edges, W!EdgeRow)
    BY DEF W!LibraryInv, W!RowsInv, W!RowsTyped
  <2>6. Inserted(edges', edges, i, row)
    BY <2>2, <2>3, <2>4, <2>5, InsertIs
  <2>7. ~overlapped /\ ~unchecked =>
           /\ row.src # row.dst
           /\ {row.src, row.dst} \subseteq W!OfWorkflow(nodes, row.wf)
           /\ W!Acyclic(W!OfWorkflow(nodes, row.wf),
                        Arrows(edges, row.wf) \cup
                            (IF row.label = "loop" THEN {} ELSE {<<row.src, row.dst>>}))
    BY <1>1, <1>4, <1>5, <1>7, <2>1, PutEdgeSound
  <2>8. W!RowsInv'
    BY <1>1, <1>2, <2>1, <2>2, <2>4, <2>7, EdgeRowInserted DEF W!LibraryInv, Going
  <2>9. PICK n \in Nat : n = p.made + 1
    BY <1>6
  <2>10. PICK r : r = [p EXCEPT !.made = n, !.last = i]
    OBVIOUS
  <2>11. /\ r \in W!Asked /\ r.stage = "create_edges" /\ r.map = p.map /\ r.made = n
         /\ r.ask = p.ask /\ r.removed = p.removed
    BY <1>2, <1>4, <2>6, <2>10 DEF W!Asked, Inserted
  <2>12. pending' = [pending EXCEPT ![c] = r] /\ pending'[c] = r
    BY <1>3, <1>4, <2>4, <2>9, <2>10
  <2>13. W!PutAccepted(c) /\ W!PutKept(c)
    BY DEF W!LibraryInv, W!Promised
  <2>14. W!PutAccepted(c)'
    <3>1. r.made <= Len(g.edges) /\ r.ask = p.ask /\ r.ask.graph = g /\ r.stage = "create_edges"
      BY <1>5, <1>6, <2>1, <2>9, <2>11
    <3>2. /\ g.nodes # <<>> /\ g.ids => W!IsInjective(g.nodes)
          /\ g.nodes # <<>> /\ ~unchecked => W!Sound(g)
      BY <1>2, <1>4, <1>5, <2>13 DEF W!PutAccepted
    <3> QED
      BY <1>2, <2>12, <3>1, <3>2 DEF W!PutAccepted, Going
  <2>15. W!PutKept(c)'
    <3>1. \A k : W!Image(c, k)' = W!Image(c, k)
      BY <1>4, <2>11, <2>12 DEF W!Image
    <3>2. ASSUME ~overlapped
          PROVE  /\ W!IsInjective(p.map) /\ Len(p.map) = Len(g.nodes)
                 /\ W!OfWorkflow(nodes, p.ask.w) = W!ToSet(p.map)
                 /\ \A e \in W!OfWorkflow(edges, p.ask.w) :
                       \E k \in 1..p.made : edges[e] = W!Image(c, k)
      BY <1>2, <1>4, <1>5, <2>13, <3>2 DEF W!PutKept
    <3>3. ASSUME ~overlapped, NEW e \in W!OfWorkflow(edges', p.ask.w)
          PROVE  \E k \in 1..n : edges'[e] = W!Image(c, k)
      <4>1. e = i \/ (e \in W!OfWorkflow(edges, p.ask.w) /\ edges'[e] = edges[e])
        BY <2>6 DEF Inserted, W!OfWorkflow
      <4>2. CASE e = i
        <5>1. edges'[e] = W!Image(c, n) /\ n \in 1..n
          BY <1>6, <1>7, <2>6, <2>9, <4>2 DEF Inserted
        <5> QED
          BY <5>1
      <4>3. CASE e \in W!OfWorkflow(edges, p.ask.w) /\ edges'[e] = edges[e]
        <5>1. PICK k \in 1..p.made : edges[e] = W!Image(c, k)
          BY <3>2, <3>3, <4>3
        <5>2. k \in 1..n
          BY <1>6, <2>9
        <5> QED
          BY <4>3, <5>1, <5>2
      <4> QED
        BY <4>1, <4>2, <4>3
    <3>4. overlapped' = overlapped /\ nodes' = nodes
      BY <1>1, <1>2 DEF Going
    <3>5. ~overlapped' => /\ W!IsInjective(r.map) /\ Len(r.map) = Len(r.ask.graph.nodes)
                          /\ Len(r.map) <= Len(r.ask.graph.nodes)
                          /\ W!OfWorkflow(nodes', r.ask.w) = W!ToSet(r.map)
                          /\ \A e \in W!OfWorkflow(edges', r.ask.w) :
                                \E k \in 1..r.made : edges'[e] = W!Image(c, k)'
      <4> SUFFICES ASSUME ~overlapped'
                   PROVE  /\ W!IsInjective(p.map) /\ Len(p.map) = Len(g.nodes)
                          /\ Len(p.map) <= Len(g.nodes)
                          /\ W!OfWorkflow(nodes', p.ask.w) = W!ToSet(p.map)
                          /\ \A e \in W!OfWorkflow(edges', p.ask.w) :
                                \E k \in 1..n : edges'[e] = W!Image(c, k)'
        BY <1>5, <2>11
      <4>1. /\ W!IsInjective(p.map) /\ Len(p.map) = Len(g.nodes)
            /\ W!OfWorkflow(nodes', p.ask.w) = W!ToSet(p.map)
        BY <3>2, <3>4
      <4>2. \A e \in W!OfWorkflow(edges', p.ask.w) :
                \E k \in 1..n : edges'[e] = W!Image(c, k)'
        BY <3>1, <3>3, <3>4
      <4>3. Len(p.map) <= Len(g.nodes)
        BY <1>6, <4>1
      <4> QED
        BY <4>1, <4>2, <4>3
    <3> QED
      BY <2>12, <3>5 DEF W!PutKept
  <2>16. W!Promised(c)'
    BY <1>2, <1>4, <2>11, <2>12, <2>14, <2>15 DEF W!Promised, W!EdgeChecked, W!ParentKept, W!Pages
  <2> QED
    BY <1>2, <1>4, <2>8, <2>11, <2>12, <2>16, RequestGoesOn
<1> QED
  BY <1>11, <1>12

-----------------------------------------------------------------------------
(* A request begins, or a run ends.                                          *)

(* A request begins, unless it is refused at once.                           *)
LEMMA BeginKeeps ==
    ASSUME ServicesAssumption, W!LibraryInv, NEW c \in Clients, NEW a \in Edits, W!Begin(c, a)
    PROVE  W!LibraryInv'
<1>1. /\ pending[c].stage = "idle" /\ UNCHANGED <<workflows, nodes, edges, executions, removed>>
      /\ overlapped' = (overlapped \/ (W!Writes(a) /\ \E d \in Clients \ {c} :
                                           pending[d].stage # "idle" /\ W!Writes(pending[d].ask)))
      /\ unchecked' = (unchecked \/ (/\ a.op = "put" /\ W!Accepts(a)
                                    /\ a.graph.nodes # <<>> /\ ~W!Sound(a.graph)))
  BY DEF W!Begin
<1>2. /\ pending \in [Clients -> {W!Idle} \cup W!Asked] /\ overlapped \in BOOLEAN
      /\ unchecked \in BOOLEAN /\ removed \in Nat
      /\ \A d \in Clients : pending[d] # W!Idle =>
             /\ pending[d].removed <= removed
             /\ pending[d].stage = "find" => pending[d].ask.op \in {"delete_node", "delete_edge"}
  BY DEF W!LibraryInv, W!RequestsTyped
<1>3. pending[c] = W!Idle
  BY <1>1, <1>2 DEF W!Asked, W!Stages
<1>4. (~overlapped' => ~overlapped) /\ (~unchecked' => ~unchecked)
  BY <1>1, <1>2
<1>5. W!RowsInv'
  BY <1>1, <1>4, RowsSame DEF W!LibraryInv
<1>6. a \in [op : STRING, w : Nat, a : Nat, b : Nat, label : STRING,
             graph : [ids : BOOLEAN, nodes : Seq(Nat), edges : Seq(Nat \X Nat \X STRING)]]
  BY EditsAssumed
<1>7. ASSUME NEW d \in Clients, pending'[d] = pending[d]
      PROVE  W!Promised(d)'
  <2>1. W!Promised(d)
    BY DEF W!LibraryInv
  <2>2. \A e : W!Newer(e)' = W!Newer(e)
    BY <1>1, NewerIs
  <2>3. W!EdgeChecked(d)' /\ W!PutAccepted(d)'
    BY <1>1, <1>4, <1>7, <2>1 DEF W!Promised, W!EdgeChecked, W!PutAccepted
  <2>4. W!PutKept(d)'
    BY <1>1, <1>4, <1>7, <2>1 DEF W!Promised, W!PutKept, W!Image
  <2>5. W!ParentKept(d)'
    BY <1>1, <1>4, <1>7, <2>1 DEF W!Promised, W!ParentKept
  <2>6. W!Pages(d)'
    BY <1>1, <1>7, <2>1, <2>2 DEF W!Promised, W!Pages
  <2> QED
    BY <2>3, <2>4, <2>5, <2>6 DEF W!Promised
<1>8. CASE ~W!Accepts(a)
  <2>1. pending' = pending
    BY <1>8 DEF W!Begin
  <2>2. W!RequestsTyped'
    BY <1>1, <1>2, <2>1 DEF W!RequestsTyped
  <2>3. W!OneWriter'
    BY <1>4, <2>1 DEF W!LibraryInv, W!OneWriter, W!Writing, W!Writes
  <2> QED
    BY <1>5, <1>7, <2>1, <2>2, <2>3 DEF W!LibraryInv
<1>9. CASE W!Accepts(a)
  <2>1. PICK s : s = IF a.op \in {"replay", "resume_failed"} THEN executions[a.a] ELSE None
    OBVIOUS
  <2>2. PICK at : at = W!First(a)
    OBVIOUS
  <2>3. PICK r : r = [stage |-> at, ask |-> a, ids |-> {}, map |-> <<>>, made |-> 0, last |-> None,
                      source |-> s, skip |-> 0, seen |-> {}, before |-> DOMAIN executions,
                      removed |-> removed]
    OBVIOUS
  <2>4. pending' = [pending EXCEPT ![c] = r]
    BY <1>9, <2>1, <2>2, <2>3 DEF W!Begin
  <2>5. pending'[c] = r /\ \A d \in Clients : d # c => pending'[d] = pending[d]
    BY <1>2, <2>4
  <2>6. /\ at = "delete_edges" <=> a.op = "put"
        /\ at = "find" <=> a.op \in {"delete_node", "delete_edge"}
        /\ at \in {"delete_edges", "find", "start"}
    BY <2>2 DEF W!First
  <2>7. a.op \in {"replay", "resume_failed"} => a.a \in DOMAIN executions
    BY <1>9 DEF W!Accepts
  <2>8. W!Table(executions, W!RunRow)
    BY DEF W!LibraryInv, W!RowsInv, W!RowsTyped
  <2>9. s \in W!RunRow \cup {None} /\ (a.op \in {"replay", "resume_failed"} => s \in W!RunRow)
    BY <2>1, <2>7, <2>8 DEF W!Table
  <2>10. DOMAIN executions \in SUBSET Nat
    BY <2>8 DEF W!Table
  <2>11. r \in W!Asked
    <3>1. <<>> \in Seq(Nat) /\ at \in W!Stages
      BY <2>6 DEF W!Stages
    <3> QED
      BY <1>2, <2>3, <2>9, <2>10, <3>1 DEF W!Asked
  <2>12. /\ r.stage = at /\ r.ask = a /\ r.map = <<>> /\ r.made = 0 /\ r.source = s /\ r.skip = 0
         /\ r.before = DOMAIN executions /\ r.removed = removed
    BY <2>3
  <2>13. W!RequestsTyped'
    <3>1. pending' \in [Clients -> {W!Idle} \cup W!Asked]
      BY <1>2, <2>4, <2>11
    <3>2. \A d \in Clients : pending'[d] # W!Idle =>
             /\ pending'[d].removed <= removed
             /\ pending'[d].stage = "find" => pending'[d].ask.op \in {"delete_node", "delete_edge"}
      BY <1>2, <2>5, <2>6, <2>12
    <3> QED
      BY <1>1, <1>2, <3>1, <3>2 DEF W!RequestsTyped
  <2>14. W!OneWriter'
    <3> SUFFICES ASSUME ~overlapped', NEW d \in Clients, NEW e \in Clients,
                        W!Writing(d)', W!Writing(e)'
                 PROVE  d = e
      BY DEF W!OneWriter
    <3>1. \A x \in Clients : x # c /\ W!Writing(x)' => W!Writing(x)
      BY <2>5 DEF W!Writing, W!Writes
    <3>2. \A x, y \in Clients : W!Writing(x) /\ W!Writing(y) => x = y
      BY <1>4 DEF W!LibraryInv, W!OneWriter
    <3>3. \A x \in Clients : x # c /\ W!Writing(x)' => ~W!Writing(c)'
      <4> SUFFICES ASSUME NEW x \in Clients, x # c, W!Writing(x)', W!Writing(c)' PROVE FALSE
        OBVIOUS
      <4>1. W!Writing(x)
        BY <3>1
      <4>2. pending[x].stage # "idle" /\ W!Writes(pending[x].ask)
        BY <1>2, <4>1 DEF W!Writing, W!Asked, W!Stages
      <4>3. W!Writes(a)
        BY <2>5, <2>12 DEF W!Writing, W!Writes
      <4> QED
        BY <1>1, <4>2, <4>3
    <3> QED
      BY <3>1, <3>2, <3>3
  <2>15. W!Promised(c)'
    <3>1. W!EdgeChecked(c)' /\ W!PutKept(c)'
      BY <2>5, <2>6, <2>12 DEF W!EdgeChecked, W!PutKept
    <3>2. W!PutAccepted(c)'
      <4> SUFFICES ASSUME a.op = "put" PROVE W!PutAccepted(c)'
        BY <2>5, <2>12 DEF W!PutAccepted
      <4>1. W!AcceptsGraph(a.graph)
        BY <1>9 DEF W!Accepts
      <4>2. a.graph.nodes # <<>> /\ a.graph.ids => W!IsInjective(a.graph.nodes)
        BY <4>1 DEF W!AcceptsGraph
      <4>3. a.graph.nodes # <<>> /\ ~unchecked' => W!Sound(a.graph)
        BY <1>1, <1>9
      <4>4. 0 <= Len(a.graph.edges)
        BY <1>6
      <4> QED
        BY <2>5, <2>6, <2>12, <4>2, <4>3, <4>4 DEF W!PutAccepted
    <3>3. W!ParentKept(c)'
      BY <1>1, <2>1, <2>5, <2>6, <2>7, <2>9, <2>12 DEF W!ParentKept
    <3>4. W!Pages(c)'
      <4> SUFFICES ASSUME a.op = "search" PROVE W!Pages(c)'
        BY <2>5, <2>12 DEF W!Pages
      <4>1. at = "start"
        BY <2>6
      <4>2. ASSUME NEW e \in DOMAIN executions PROVE ~(W!Newer(e)' < 0)
        <5>1. IsFiniteSet(DOMAIN executions)
          BY <2>8, LibrarySets DEF W!Table
        <5>2. W!Newer(e)' \in Nat
          BY <1>1, <2>10, <5>1, RankIs, NewerIs
        <5> QED
          BY <5>2
      <4> QED
        BY <1>1, <2>5, <2>12, <4>1, <4>2 DEF W!Pages
    <3> QED
      BY <3>1, <3>2, <3>3, <3>4 DEF W!Promised
  <2>16. ASSUME NEW d \in Clients PROVE W!Promised(d)'
    BY <1>7, <2>5, <2>15
  <2> QED
    BY <1>5, <2>13, <2>14, <2>16 DEF W!LibraryInv
<1> QED
  BY <1>8, <1>9

(* The engine ends a run.                                                    *)
LEMMA FinishKeeps ==
    ASSUME ServicesAssumption, W!LibraryInv, NEW e \in DOMAIN executions, W!Finish(e)
    PROVE  W!LibraryInv'
<1>1. /\ executions[e].status = "PENDING" /\ UNCHANGED <<workflows, nodes, edges, pending>>
      /\ UNCHANGED <<overlapped, unchecked, removed>>
  BY DEF W!Finish, W!Quiet, W!Same
<1>2. PICK status \in {"COMPLETED", "FAILED"} : executions' = [executions EXCEPT ![e].status = status]
  BY DEF W!Finish
<1>3. W!RowsInv' /\ DOMAIN executions' = DOMAIN executions
  BY <1>1, <1>2, RunEnds DEF W!LibraryInv
<1>4. W!RequestsTyped' /\ W!OneWriter'
  BY <1>1 DEF W!LibraryInv, W!RequestsTyped, W!OneWriter, W!Writing, W!Writes
<1>5. ASSUME NEW d \in Clients PROVE W!Promised(d)'
  <2>1. W!Promised(d)
    BY DEF W!LibraryInv
  <2>2. \A x : W!Newer(x)' = W!Newer(x)
    BY <1>3, NewerIs
  <2>3. W!EdgeChecked(d)' /\ W!PutAccepted(d)'
    BY <1>1, <2>1 DEF W!Promised, W!EdgeChecked, W!PutAccepted
  <2>4. W!PutKept(d)'
    BY <1>1, <2>1 DEF W!Promised, W!PutKept, W!Image
  <2>5. W!ParentKept(d)'
    <3>1. executions \in [DOMAIN executions -> W!RunRow]
      BY DEF W!LibraryInv, W!RowsInv, W!RowsTyped, W!Table
    <3>2. \A x \in DOMAIN executions :
             /\ executions'[x].wf = executions[x].wf
             /\ x # e => executions'[x].status = executions[x].status
      BY <1>2, <3>1 DEF W!RunRow
    <3> QED
      BY <1>1, <1>3, <2>1, <3>2 DEF W!Promised, W!ParentKept, W!Resumable
  <2>6. W!Pages(d)'
    BY <1>1, <1>3, <2>1, <2>2 DEF W!Promised, W!Pages
  <2> QED
    BY <2>3, <2>4, <2>5, <2>6 DEF W!Promised
<1> QED
  BY <1>3, <1>4, <1>5 DEF W!LibraryInv

-----------------------------------------------------------------------------
(* The library, whatever its clients ask and in whatever order.              *)

(* The rows there are at first keep the invariant.                           *)
LEMMA LibraryInit ==
    ASSUME ServicesAssumption, W!Init
    PROVE  W!LibraryInv
<1>1. /\ workflows = {1, 2} /\ nodes = [i \in 1..3 |-> [wf |-> IF i = 3 THEN 2 ELSE 1]]
      /\ edges = [i \in {1} |-> [wf |-> 1, src |-> 1, dst |-> 2, label |-> "ok"]]
      /\ executions = [i \in {1} |-> [wf |-> 1, parent |-> None, how |-> "manual", status |-> "FAILED"]]
      /\ pending = [c \in Clients |-> W!Idle]
      /\ overlapped = FALSE /\ unchecked = FALSE /\ removed = 0
  BY DEF W!Init, W!Run
<1>2. /\ DOMAIN nodes = {1, 2, 3} /\ DOMAIN edges = {1} /\ DOMAIN executions = {1}
      /\ nodes[1].wf = 1 /\ nodes[2].wf = 1 /\ nodes[3].wf = 2
      /\ edges[1].wf = 1 /\ edges[1].src = 1 /\ edges[1].dst = 2 /\ edges[1].label = "ok"
      /\ executions[1].wf = 1 /\ executions[1].parent = None
  <2>1. 1..3 = {1, 2, 3}
    OBVIOUS
  <2> QED
    BY <1>1, <2>1
<1>3. W!RowsTyped
  <2>1. IsFiniteSet({1, 2}) /\ IsFiniteSet({1, 2, 3}) /\ IsFiniteSet({1})
    <3>1. IsFiniteSet({}) /\ {1} = {} \cup {1} /\ {1, 2} = {1} \cup {2} /\ {1, 2, 3} = {1, 2} \cup {3}
      BY FS_EmptySet
    <3>2. IsFiniteSet({1})
      BY FS_Singleton
    <3>3. IsFiniteSet({1} \cup {2})
      BY <3>2, FS_AddElement
    <3>4. IsFiniteSet({1, 2} \cup {3})
      BY <3>1, <3>3, FS_AddElement
    <3> QED
      BY <3>1, <3>2, <3>3, <3>4
  <2>2. nodes \in [DOMAIN nodes -> W!NodeRow]
    BY <1>1 DEF W!NodeRow
  <2>3. edges \in [DOMAIN edges -> W!EdgeRow]
    <3>1. [wf |-> 1, src |-> 1, dst |-> 2, label |-> "ok"] \in W!EdgeRow
      BY DEF W!EdgeRow
    <3> QED
      BY <1>1, <3>1
  <2>4. executions \in [DOMAIN executions -> W!RunRow]
    BY <1>1 DEF W!RunRow
  <2> QED
    BY <1>1, <1>2, <2>1, <2>2, <2>3, <2>4, LibrarySets DEF W!RowsTyped, W!Table
<1>4. W!TypeOK /\ W!Inside
  BY <1>1, <1>2 DEF W!TypeOK, W!Inside
<1>5. W!NoCircle
  <2>1. \A w : \A p \in Arrows(edges, w) : p = <<1, 2>>
    BY <1>1, <1>2 DEF Arrows, W!OfWorkflow
  <2>2. ASSUME NEW w \in workflows PROVE W!Acyclic(W!OfWorkflow(nodes, w), Arrows(edges, w))
    <3>1. \A n, o : <<n, o>> \in Arrows(edges, w) => n = 1 /\ o = 2
      BY <2>1
    <3> SUFFICES ASSUME NEW circle \in (SUBSET W!OfWorkflow(nodes, w)) \ {{}},
                        \A n \in circle : \E o \in circle : <<n, o>> \in Arrows(edges, w)
                 PROVE  FALSE
      BY DEF W!Acyclic
    <3>2. PICK n \in circle : TRUE
      OBVIOUS
    <3>3. PICK o \in circle : <<n, o>> \in Arrows(edges, w)
      BY <3>2
    <3>4. PICK q \in circle : <<o, q>> \in Arrows(edges, w)
      BY <3>3
    <3> QED
      BY <3>1, <3>3, <3>4
  <2> QED
    BY <2>2, NoCircleIs
<1>6. W!QuietLineage
  BY <1>1, <1>2 DEF W!QuietLineage
<1>7. W!RequestsTyped
  BY <1>1 DEF W!RequestsTyped
<1>8. \A c \in Clients : pending[c] = W!Idle
  BY <1>1
<1>9. W!OneWriter
  BY <1>8 DEF W!OneWriter, W!Writing
<1>10. \A c \in Clients : W!Promised(c)
  BY <1>8 DEF W!Promised, W!EdgeChecked, W!PutAccepted, W!PutKept, W!ParentKept, W!Pages
<1> QED
  BY <1>3, <1>4, <1>5, <1>6, <1>7, <1>9, <1>10 DEF W!LibraryInv, W!RowsInv

(* Where the library's variables do not change, nothing said of them does.   *)
LEMMA LibraryUntouched ==
    ASSUME W!LibraryInv, UNCHANGED library
    PROVE  W!LibraryInv'
<1>1. /\ workflows' = workflows /\ nodes' = nodes /\ edges' = edges /\ executions' = executions
      /\ pending' = pending /\ overlapped' = overlapped /\ unchecked' = unchecked /\ removed' = removed
  BY DEF library
<1>2. W!RowsInv'
  BY <1>1, RowsSame DEF W!LibraryInv
<1>3. W!RequestsTyped' /\ W!OneWriter'
  BY <1>1 DEF W!LibraryInv, W!RequestsTyped, W!OneWriter, W!Writing, W!Writes
<1>4. ASSUME NEW d \in Clients PROVE W!Promised(d)'
  <2>1. W!Promised(d)
    BY DEF W!LibraryInv
  <2>2. \A e : W!Newer(e)' = W!Newer(e)
    BY <1>1, NewerIs
  <2>3. W!EdgeChecked(d)' /\ W!PutAccepted(d)'
    BY <1>1, <2>1 DEF W!Promised, W!EdgeChecked, W!PutAccepted
  <2>4. W!PutKept(d)'
    BY <1>1, <2>1 DEF W!Promised, W!PutKept, W!Image
  <2>5. W!ParentKept(d)'
    BY <1>1, <2>1 DEF W!Promised, W!ParentKept
  <2>6. W!Pages(d)'
    BY <1>1, <2>1, <2>2 DEF W!Promised, W!Pages
  <2> QED
    BY <2>3, <2>4, <2>5, <2>6 DEF W!Promised
<1> QED
  BY <1>2, <1>3, <1>4 DEF W!LibraryInv

(* Every step of a request, the begin of one, and the end of a run.          *)
LEMMA LibraryStep ==
    ASSUME ServicesAssumption, W!LibraryInv, W!Next
    PROVE  W!LibraryInv'
<1>1. ASSUME NEW c \in Clients, W!Step(c) PROVE W!LibraryInv'
  <2>1. CASE W!create_workflow(c) \/ W!delete_workflow(c)
    BY <2>1, CreateWorkflowKeeps, DeleteWorkflowKeeps
  <2>2. CASE W!PutDeleteEdges(c) \/ W!PutDeleteNodes(c)
    BY <2>2, PutDeleteEdgesKeeps, PutDeleteNodesKeeps
  <2>3. CASE W!PutNode(c) \/ W!PutEdge(c)
    BY <2>3, PutNodeKeeps, PutEdgeKeeps
  <2>4. CASE W!PutLost(c) \/ W!SearchEnds(c)
    BY <2>4, LostEnds
  <2>5. CASE W!create_node(c) \/ W!delete_node(c) \/ W!delete_edge(c)
    BY <2>5, CreateNodeKeeps, DeleteNodeKeeps, DeleteEdgeKeeps
  <2>6. CASE W!Find(c) \/ W!delete_by_node(c)
    BY <2>6, FindKeeps, UnlinkKeeps
  <2>7. CASE W!EdgeLoadNodes(c) \/ W!RunLoadNodes(c)
    BY <2>7, LoadNodesKeeps
  <2>8. CASE W!EdgeLoadEdges(c) \/ W!create_edge(c)
    BY <2>8, EdgeLoadEdgesKeeps, CreateEdgeKeeps
  <2>9. CASE W!RunLoadEdges(c) \/ W!create_execution(c)
    BY <2>9, RunLoadEdgesKeeps, CreateExecutionKeeps
  <2>10. CASE W!ReplayCheck(c) \/ W!ResumeCheck(c) \/ W!CreateChild(c)
    BY <2>10, ParentChecked, CreateChildKeeps
  <2>11. CASE W!SearchRows(c) \/ W!SearchCount(c)
    BY <2>11, SearchRowsKeeps, SearchCountKeeps
  <2> QED
    BY <1>1, <2>1, <2>2, <2>3, <2>4, <2>5, <2>6, <2>7, <2>8, <2>9, <2>10, <2>11 DEF W!Step
<1>2. ASSUME NEW c \in Clients, NEW a \in Edits, W!Begin(c, a) PROVE W!LibraryInv'
  BY <1>2, BeginKeeps
<1>3. ASSUME NEW e \in DOMAIN executions, W!Finish(e) PROVE W!LibraryInv'
  BY <1>3, FinishKeeps
<1> QED
  BY <1>1, <1>2, <1>3 DEF W!Next

(* The inductive invariant says what the library promises.                   *)
LEMMA LibraryTold ==
    ASSUME W!LibraryInv
    PROVE  W!TypeOK /\ W!QuietEditsSound /\ W!QuietLineage /\ W!BrowseSeesAll
<1>1. W!TypeOK /\ W!QuietEditsSound /\ W!QuietLineage
  BY GraphsSound DEF W!LibraryInv, W!RowsInv
<1>2. W!BrowseSeesAll
  <2> SUFFICES ASSUME NEW c \in Clients, W!Is(c, "search", "seen"), pending[c].removed = removed
               PROVE  pending[c].before \subseteq pending[c].seen
    BY DEF W!BrowseSeesAll
  <2>1. pending[c].stage = "seen" /\ pending[c].ask.op = "search"
    BY DEF W!Is
  <2>2. pending[c] # W!Idle
    BY <2>1, RequestIs DEF W!LibraryInv
  <2> QED
    BY <2>1, <2>2 DEF W!LibraryInv, W!Promised, W!Pages
<1> QED
  BY <1>1, <1>2

(* Requests that write one after the other leave graphs the next run         *)
(* accepts, repeated runs descend from older runs of their workflow, foreign *)
(* keys point at rows, and a client that pages misses no run: for every      *)
(* number of clients, whatever they ask, and however their calls interleave. *)
THEOREM LibrarySafe == Spec => []LibraryWhole
<1> DEFINE Inv == picked = "library" => W!LibraryInv
<1>1. Init => Inv
  BY LibraryInit, ServicesAssumption DEF Init
<1>2. Inv /\ [Next]_vars => Inv'
  <2> SUFFICES ASSUME Inv, [Next]_vars, picked' = "library" PROVE W!LibraryInv'
    OBVIOUS
  <2>1. CASE NextLibrary
    BY <2>1, LibraryStep, ServicesAssumption DEF NextLibrary
  <2>2. CASE NextCalls \/ NextAi \/ NextDoor \/ NextGraphs \/ UNCHANGED vars
    BY <2>2, LibraryUntouched DEF NextCalls, NextAi, NextDoor, NextGraphs, vars
  <2> QED
    BY <2>1, <2>2 DEF Next
<1>3. Inv => LibraryWhole
  BY LibraryTold DEF LibraryWhole
<1> QED
  BY <1>1, <1>2, <1>3, PTL DEF Spec

=============================================================================
