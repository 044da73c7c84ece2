------------------------------ MODULE FrontDoor ------------------------------
(***************************************************************************)
(* The middleware every HTTP request passes (core/middleware.py, in the     *)
(* order of main.py): request context and metrics, body size, rate limit,   *)
(* CSRF, then the handler.  The layers are coroutines of one event loop: a  *)
(* step is a layer's code up to the await of the next.                      *)
(***************************************************************************)
EXTENDS Integers, Sequences, FiniteSets, Lists

CONSTANTS Clients,          \* requests that may be under way at once
          Kinds,            \* the requests sent: address, path, credential, size, ...
          Budget,           \* Budget["auth"], Budget[""]: requests per window
          RateWindow,           \* the length of both windows
          MaxBuckets,       \* buckets kept before idle ones are dropped
          MaxTime, MaxRequests  \* bounds of the model

FrontDoorAssumption ==
    /\ Budget \in [{"auth", ""} -> Nat \ {0}]
    /\ {RateWindow, MaxBuckets, MaxTime, MaxRequests} \subseteq Nat
    /\ IsFiniteSet(Clients)

VARIABLES now, req, hits, metrics, served,
          sends               \* sends[c], the request client c sends again and again

vars == <<now, req, hits, metrics, served, sends>>

-----------------------------------------------------------------------------
(* Paths are pairs of version prefix and logical path.                       *)

(* Mistake: the versioned spelling of a path is a path of its own.           *)
canonical_path_literal(path) == IF path[1] = "" THEN path[2] ELSE path[1]

canonical_path(path) == path[2]

AuthPaths == {"login", "register"}
CsrfExempt == {"login", "refresh"}
RateExempt == {"health", "metrics"}
BodyExempt == {"upload"}

(* The credential if there is one, the address on credential endpoints.      *)
client_identity(c, prefer_address) ==
    IF prefer_address \/ sends[c].credential = "none" THEN sends[c].address ELSE sends[c].credential

Suffix(path) == IF path \in AuthPaths THEN "auth" ELSE ""

Key(c) == LET path == canonical_path(sends[c].path)
          IN <<client_identity(c, path \in AuthPaths), Suffix(path)>>

-----------------------------------------------------------------------------
Outside == [stage |-> "outside"]

Stage(c, stage) == req[c].stage = stage
Goto(c, stage) == req' = [req EXCEPT ![c] = [stage |-> stage]]
Answer(c, status) == req' = [req EXCEPT ![c] = [stage |-> "leaving", status |-> status]]

(* RequestContextMiddleware: the gauge of requests under way goes up.        *)
Enter(c) ==
    /\ Stage(c, "outside") /\ metrics.entered < MaxRequests
    /\ Goto(c, "body")
    /\ metrics' = [metrics EXCEPT !.in_flight = @ + 1, !.entered = @ + 1]
    /\ UNCHANGED <<now, hits, served, sends>>

(* BodySizeLimitMiddleware: a declared body above the limit is refused.      *)
LimitBody(c) ==
    /\ Stage(c, "body")
    /\ IF sends[c].large /\ canonical_path(sends[c].path) \notin BodyExempt
       THEN Answer(c, 413) ELSE Goto(c, "rate")
    /\ UNCHANGED <<now, hits, metrics, served, sends>>

(* Buckets with no hit inside the window are dropped once there are too many. *)
DropIdle(h) ==
    LET busy == {k \in DOMAIN h : h[k] # <<>> /\ h[k][Len(h[k])] >= now - RateWindow}
    IN IF Cardinality(DOMAIN h) > MaxBuckets THEN [k \in busy |-> h[k]] ELSE h

Recent(times) == Filter(times, (now - RateWindow)..now)

Bucket(c) == IF Key(c) \in DOMAIN hits THEN Recent(hits[Key(c)]) ELSE <<>>

With(c, times) == [k \in DOMAIN hits \cup {Key(c)} |-> IF k = Key(c) THEN times ELSE hits[k]]

Full(c) == Len(Bucket(c)) >= Budget[Key(c)[2]]

PassExempt(c) ==
    /\ Stage(c, "rate") /\ canonical_path(sends[c].path) \in RateExempt
    /\ Goto(c, "csrf")
    /\ UNCHANGED <<now, hits, metrics, served, sends>>

(* RateLimitMiddleware.dispatch(), up to the await: forget the hits outside  *)
(* the window, then refuse or count this one.                                *)
RefuseRate(c) ==
    /\ Stage(c, "rate") /\ canonical_path(sends[c].path) \notin RateExempt
    /\ Full(c)
    /\ hits' = With(c, Bucket(c))
    /\ Answer(c, 429)
    /\ UNCHANGED <<now, metrics, served, sends>>

CountHit(c) ==
    /\ Stage(c, "rate") /\ canonical_path(sends[c].path) \notin RateExempt
    /\ ~Full(c)
    /\ hits' = DropIdle(With(c, Append(Bucket(c), now)))
    /\ served' = served \cup
          {[n |-> Cardinality({s \in served : s.at = now /\ s.client = c}), client |-> c, at |-> now,
            address |-> sends[c].address, credential |-> sends[c].credential,
            path |-> sends[c].path[2]]}
    /\ Goto(c, "csrf")
    /\ UNCHANGED <<now, metrics, sends>>

(* CSRFMiddleware: a cookie session needs the token of the cookie, unless    *)
(* the method is safe, the path exempt or a credential header is present.    *)
CsrfFails(r) == /\ ~r.safe /\ canonical_path(r.path) \notin CsrfExempt
                /\ r.credential = "none" /\ r.cookie /\ ~r.token

CheckCsrf(c) ==
    /\ Stage(c, "csrf")
    /\ IF CsrfFails(sends[c]) THEN Answer(c, 403) ELSE Goto(c, "handler")
    /\ UNCHANGED <<now, hits, metrics, served, sends>>

(* The handler answers, or an exception passes through every layer (0).      *)
Handle(c) ==
    /\ Stage(c, "handler")
    /\ \E status \in {200, 500, 0} : Answer(c, status)
    /\ UNCHANGED <<now, hits, metrics, served, sends>>

(* What RequestContextMiddleware books when a request is over.               *)
Settle(books, status) ==
    LET left == [books EXCEPT !.in_flight = @ - 1] IN
    IF status = 0 THEN left
    ELSE [left EXCEPT !.total = @ + 1,
                      !.errors = @ + (IF status >= 400 THEN 1 ELSE 0),
                      !.rejected = @ + (IF status = 429 THEN 1 ELSE 0)]

Leave(c) ==
    /\ Stage(c, "leaving")
    /\ metrics' = [Settle(metrics, req[c].status) EXCEPT
                     !.outcomes[req[c].status] = @ + 1]
    /\ req' = [req EXCEPT ![c] = Outside]
    /\ UNCHANGED <<now, hits, served, sends>>

Tick ==
    /\ now < MaxTime
    /\ now' = now + 1
    /\ UNCHANGED <<req, hits, metrics, served, sends>>

-----------------------------------------------------------------------------
Init ==
    /\ now = 0
    /\ req = [c \in Clients |-> Outside]
    /\ hits = <<>>
    /\ metrics = [in_flight |-> 0, entered |-> 0, total |-> 0, errors |-> 0, rejected |-> 0,
                  outcomes |-> [s \in {0, 200, 403, 413, 429, 500} |-> 0]]
    /\ served = {}
    /\ sends \in [Clients -> Kinds]

Step(c) ==
    \/ Enter(c) \/ LimitBody(c) \/ PassExempt(c) \/ RefuseRate(c) \/ CountHit(c)
    \/ CheckCsrf(c) \/ Handle(c) \/ Leave(c)

Next == Tick \/ \E c \in Clients : Step(c)

Spec == Init /\ [][Next]_vars

-----------------------------------------------------------------------------
TypeOK ==
    /\ now \in 0..MaxTime
    /\ \A k \in DOMAIN hits : Len(hits[k]) <= Budget[k[2]]
    /\ metrics.in_flight \in 0..Cardinality(Clients)

(* No address gets more than the credential budget through in any window,    *)
(* whatever credential it shows and whichever spelling of the path it uses.  *)
AuthBudget ==
    \A address \in {k.address : k \in Kinds}, from \in 0..now :
        Cardinality({s \in served : /\ s.path \in AuthPaths /\ s.address = address
                                    /\ s.at \in from..(from + RateWindow)}) <= Budget["auth"]

(* The same for the general budget of one credential, also when the buckets  *)
(* of other callers were dropped in between.                                 *)
GeneralBudget ==
    \A credential \in {k.credential : k \in Kinds} \ {"none"}, from \in 0..now :
        Cardinality({s \in served : /\ s.path \notin AuthPaths /\ s.credential = credential
                                    /\ s.at \in from..(from + RateWindow)}) <= Budget[""]

(* The books agree with what happened, also after exceptions: requests under *)
(* way, answers, errors, rejections.                                         *)
BooksMatch ==
    /\ metrics.in_flight = Cardinality({c \in Clients : ~Stage(c, "outside")})
    /\ metrics.total + metrics.outcomes[0] + metrics.in_flight = metrics.entered
    /\ metrics.rejected = metrics.outcomes[429]
    /\ metrics.errors = metrics.outcomes[403] + metrics.outcomes[413]
                      + metrics.outcomes[429] + metrics.outcomes[500]

-----------------------------------------------------------------------------
(* The inductive invariant.                                                  *)

Keys == ({k.address : k \in Kinds} \cup {k.credential : k \in Kinds}) \X {"auth", ""}

(* The key that counted a request, and the requests a key has counted.       *)
Mark(s) ==
    <<IF s.path \in AuthPaths \/ s.credential = "none" THEN s.address ELSE s.credential,
      Suffix(s.path)>>

Counted(k) == {s \in served : Mark(s) = k}

BucketOf(k) == IF k \in DOMAIN hits THEN hits[k] ELSE <<>>

Answers == {0, 200, 403, 413, 429, 500}

DoorTyped ==
    /\ now \in 0..MaxTime /\ sends \in [Clients -> Kinds]
    /\ IsFiniteSet(served) /\ \A s \in served : s.at \in 0..now /\ Mark(s) \in Keys
    /\ DOMAIN hits \subseteq Keys /\ hits = [k \in DOMAIN hits |-> hits[k]]
    /\ req \in [Clients -> [stage : {"outside", "body", "rate", "csrf", "handler"}]
                             \cup [stage : {"leaving"}, status : Answers]]
    /\ metrics \in [in_flight : Nat, entered : Nat, total : Nat, errors : Nat, rejected : Nat,
                    outcomes : [Answers -> Nat]]

(* A bucket is in the order of time, within its budget, and has a hit for    *)
(* every request its key has counted inside the window that ends now.        *)
BucketInStep(k) ==
    LET b == BucketOf(k)
    IN /\ b \in Seq(0..now) /\ Len(b) <= Budget[k[2]]
       /\ \A i, j \in DOMAIN b : i < j => b[i] <= b[j]
       /\ \A from \in (now - RateWindow)..now :
             Cardinality({s \in Counted(k) : s.at >= from}) <=
                Cardinality({i \in DOMAIN b : b[i] >= from})

(* No window, past ones included, has seen a key exceed its budget.          *)
WindowKept(k) ==
    \A from \in 0..now :
        Cardinality({s \in Counted(k) : s.at \in from..(from + RateWindow)}) <= Budget[k[2]]

DoorInv ==
    /\ DoorTyped /\ BooksMatch
    /\ \A k \in Keys : BucketInStep(k) /\ WindowKept(k)

=============================================================================
