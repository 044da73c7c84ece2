--------------------------- MODULE AccountsProofs ---------------------------
(***************************************************************************)
(* Proofs about Accounts, for any users, any finite number of request      *)
(* threads, any sets of requests and any limits and lifetimes.             *)
(***************************************************************************)
EXTENDS Accounts, FiniteSetTheorems, TLAPS

-----------------------------------------------------------------------------
(* A request's list of steps. *)

\* The steps f of a request of this kind follow each other as Goes says.
FlowOf(kind, f) ==
    \A i \in DOMAIN f : Goes(kind, f[i], IF i < Len(f) THEN f[i + 1] ELSE "end")

\* The first step says what comes next, and what is left of the list flows too.
LEMMA FlowOn ==
  ASSUME NEW kind, NEW f \in Seq(Steps), f # <<>>, FlowOf(kind, f)
  PROVE  /\ Len(f) > 1 => /\ Tail(f) \in Seq(Steps) /\ Tail(f) # <<>>
                          /\ Head(Tail(f)) \in Steps
                          /\ Goes(kind, Head(f), Head(Tail(f))) /\ FlowOf(kind, Tail(f))
         /\ ~(Len(f) > 1) => Goes(kind, Head(f), "end")
<1> DEFINE g == Tail(f)
<1>1. /\ g \in Seq(Steps) /\ Len(g) = Len(f) - 1 /\ Len(f) > 0 /\ Len(f) \in Nat
      /\ Head(f) = f[1] /\ \A i \in 1..(Len(f) - 1) : g[i] = f[i + 1]
      /\ DOMAIN f = 1..Len(f) /\ DOMAIN g = 1..Len(g)
  OBVIOUS
<1> HIDE DEF g
<1>2. Goes(kind, f[1], IF 1 < Len(f) THEN f[2] ELSE "end")
  <2>1. 1 \in DOMAIN f /\ 1 + 1 = 2
    BY <1>1
  <2> QED
    BY <2>1 DEF FlowOf
<1>3. ASSUME Len(f) > 1
      PROVE  g # <<>> /\ Head(g) = f[2] /\ Head(g) \in Steps
  <2>1. g # <<>>
    BY <1>1, <1>3
  <2>2. Head(g) = g[1] /\ g[1] \in Steps
    BY <1>1, <2>1
  <2>3. g[1] = f[2]
    BY <1>1, <1>3
  <2> QED
    BY <2>1, <2>2, <2>3
<1>4. FlowOf(kind, g)
  <2> SUFFICES ASSUME NEW i \in DOMAIN g
               PROVE  Goes(kind, g[i], IF i < Len(g) THEN g[i + 1] ELSE "end")
    BY DEF FlowOf
  <2>1. i + 1 \in DOMAIN f /\ g[i] = f[i + 1] /\ (i < Len(g) <=> i + 1 < Len(f))
    BY <1>1
  <2>2. i < Len(g) => g[i + 1] = f[(i + 1) + 1]
    BY <1>1
  <2>3. Goes(kind, f[i + 1], IF i + 1 < Len(f) THEN f[(i + 1) + 1] ELSE "end")
    BY <2>1 DEF FlowOf
  <2> QED
    BY <2>1, <2>2, <2>3
<1>5. Len(f) > 1 <=> 1 < Len(f)
  BY <1>1
<1> QED
  BY <1>1, <1>2, <1>3, <1>4, <1>5 DEF g

\* A list of two steps that follow each other flows.
LEMMA Flow2 ==
  ASSUME NEW kind, NEW a \in Steps, NEW b \in Steps,
         Goes(kind, a, b), Goes(kind, b, "end")
  PROVE  <<a, b>> \in Seq(Steps) /\ FlowOf(kind, <<a, b>>)
         /\ <<a, b>> # <<>> /\ Head(<<a, b>>) = a
<1>1. PICK f : f = <<a, b>>
  OBVIOUS
<1>2. f \in Seq(Steps) /\ Len(f) = 2 /\ Head(f) = a /\ f # <<>>
      /\ f[1] = a /\ f[2] = b
  BY <1>1
<1>3. DOMAIN f = 1..2
  BY <1>2
<1>4. ASSUME NEW i \in DOMAIN f
      PROVE  Goes(kind, f[i], IF i < Len(f) THEN f[i + 1] ELSE "end")
  <2>1. i = 1 \/ i = 2
    BY <1>3
  <2>2. CASE i = 1
    <3>1. i < Len(f) /\ i + 1 = 2
      BY <1>2, <2>2
    <3> QED
      BY <1>2, <2>2, <3>1
  <2>3. CASE i = 2
    <3>1. ~(i < Len(f))
      BY <1>2, <2>3
    <3> QED
      BY <1>2, <2>3, <3>1
  <2> QED
    BY <2>1, <2>2, <2>3
<1> QED
  BY <1>1, <1>2, <1>4 DEF FlowOf

\* A list of three steps that follow each other flows.
LEMMA Flow3 ==
  ASSUME NEW kind, NEW a \in Steps, NEW b \in Steps, NEW c \in Steps,
         Goes(kind, a, b), Goes(kind, b, c), Goes(kind, c, "end")
  PROVE  <<a, b, c>> \in Seq(Steps) /\ FlowOf(kind, <<a, b, c>>)
         /\ <<a, b, c>> # <<>> /\ Head(<<a, b, c>>) = a
<1>1. PICK f : f = <<a, b, c>>
  OBVIOUS
<1>2. f \in Seq(Steps) /\ Len(f) = 3 /\ Head(f) = a /\ f # <<>>
      /\ f[1] = a /\ f[2] = b /\ f[3] = c
  BY <1>1
<1>3. DOMAIN f = 1..3
  BY <1>2
<1>4. ASSUME NEW i \in DOMAIN f
      PROVE  Goes(kind, f[i], IF i < Len(f) THEN f[i + 1] ELSE "end")
  <2>1. i = 1 \/ i = 2 \/ i = 3
    BY <1>3
  <2>2. CASE i = 1
    <3>1. i < Len(f) /\ i + 1 = 2
      BY <1>2, <2>2
    <3> QED
      BY <1>2, <2>2, <3>1
  <2>3. CASE i = 2
    <3>1. i < Len(f) /\ i + 1 = 3
      BY <1>2, <2>3
    <3> QED
      BY <1>2, <2>3, <3>1
  <2>4. CASE i = 3
    <3>1. ~(i < Len(f))
      BY <1>2, <2>4
    <3> QED
      BY <1>2, <2>4, <3>1
  <2> QED
    BY <2>1, <2>2, <2>3, <2>4
<1> QED
  BY <1>1, <1>2, <1>4 DEF FlowOf

\* A list of four steps that follow each other flows.
LEMMA Flow4 ==
  ASSUME NEW kind, NEW a \in Steps, NEW b \in Steps, NEW c \in Steps, NEW d \in Steps,
         Goes(kind, a, b), Goes(kind, b, c), Goes(kind, c, d), Goes(kind, d, "end")
  PROVE  <<a, b, c, d>> \in Seq(Steps) /\ FlowOf(kind, <<a, b, c, d>>)
         /\ <<a, b, c, d>> # <<>> /\ Head(<<a, b, c, d>>) = a
<1>1. PICK f : f = <<a, b, c, d>>
  OBVIOUS
<1>2. f \in Seq(Steps) /\ Len(f) = 4 /\ Head(f) = a /\ f # <<>>
      /\ f[1] = a /\ f[2] = b /\ f[3] = c /\ f[4] = d
  BY <1>1
<1>3. DOMAIN f = 1..4
  BY <1>2
<1>4. ASSUME NEW i \in DOMAIN f
      PROVE  Goes(kind, f[i], IF i < Len(f) THEN f[i + 1] ELSE "end")
  <2>1. i = 1 \/ i = 2 \/ i = 3 \/ i = 4
    BY <1>3
  <2>2. CASE i = 1
    <3>1. i < Len(f) /\ i + 1 = 2
      BY <1>2, <2>2
    <3> QED
      BY <1>2, <2>2, <3>1
  <2>3. CASE i = 2
    <3>1. i < Len(f) /\ i + 1 = 3
      BY <1>2, <2>3
    <3> QED
      BY <1>2, <2>3, <3>1
  <2>4. CASE i = 3
    <3>1. i < Len(f) /\ i + 1 = 4
      BY <1>2, <2>4
    <3> QED
      BY <1>2, <2>4, <3>1
  <2>5. CASE i = 4
    <3>1. ~(i < Len(f))
      BY <1>2, <2>5
    <3> QED
      BY <1>2, <2>5, <3>1
  <2> QED
    BY <2>1, <2>2, <2>3, <2>4, <2>5
<1> QED
  BY <1>1, <1>2, <1>4 DEF FlowOf

\* A list of five steps that follow each other flows.
LEMMA Flow5 ==
  ASSUME NEW kind, NEW a \in Steps, NEW b \in Steps, NEW c \in Steps, NEW d \in Steps,
         NEW e \in Steps, Goes(kind, a, b), Goes(kind, b, c), Goes(kind, c, d),
         Goes(kind, d, e), Goes(kind, e, "end")
  PROVE  <<a, b, c, d, e>> \in Seq(Steps) /\ FlowOf(kind, <<a, b, c, d, e>>)
         /\ <<a, b, c, d, e>> # <<>> /\ Head(<<a, b, c, d, e>>) = a
<1>1. PICK f : f = <<a, b, c, d, e>>
  OBVIOUS
<1>2. f \in Seq(Steps) /\ Len(f) = 5 /\ Head(f) = a /\ f # <<>>
      /\ f[1] = a /\ f[2] = b /\ f[3] = c /\ f[4] = d /\ f[5] = e
  BY <1>1
<1>3. DOMAIN f = 1..5
  BY <1>2
<1>4. ASSUME NEW i \in DOMAIN f
      PROVE  Goes(kind, f[i], IF i < Len(f) THEN f[i + 1] ELSE "end")
  <2>1. i = 1 \/ i = 2 \/ i = 3 \/ i = 4 \/ i = 5
    BY <1>3
  <2>2. CASE i = 1
    <3>1. i < Len(f) /\ i + 1 = 2
      BY <1>2, <2>2
    <3> QED
      BY <1>2, <2>2, <3>1
  <2>3. CASE i = 2
    <3>1. i < Len(f) /\ i + 1 = 3
      BY <1>2, <2>3
    <3> QED
      BY <1>2, <2>3, <3>1
  <2>4. CASE i = 3
    <3>1. i < Len(f) /\ i + 1 = 4
      BY <1>2, <2>4
    <3> QED
      BY <1>2, <2>4, <3>1
  <2>5. CASE i = 4
    <3>1. i < Len(f) /\ i + 1 = 5
      BY <1>2, <2>5
    <3> QED
      BY <1>2, <2>5, <3>1
  <2>6. CASE i = 5
    <3>1. ~(i < Len(f))
      BY <1>2, <2>6
    <3> QED
      BY <1>2, <2>6, <3>1
  <2> QED
    BY <2>1, <2>2, <2>3, <2>4, <2>5, <2>6
<1> QED
  BY <1>1, <1>2, <1>4 DEF FlowOf

\* The requests of the handlers flow, and begin with a step of their own.
LEMMA HandlersFlow ==
  ASSUME NEW kind \in Kinds
  PROVE  /\ Handler(kind) \in Seq(Steps) /\ FlowOf(kind, Handler(kind)) /\ Handler(kind) # <<>>
         /\ Head(Handler(kind)) \in {"load", "session", "resolve", "register"}
<1>1. CASE kind = "login"
  <2>1. Handler(kind) = <<"load", "check", "verify", "issue">>
    BY <1>1 DEF Handler, login
  <2>2. Goes(kind, "load", "check") /\ Goes(kind, "check", "verify")
        /\ Goes(kind, "verify", "issue") /\ Goes(kind, "issue", "end")
    BY <1>1 DEF Goes
  <2>3. {"load", "check", "verify", "issue"} \subseteq Steps
    BY DEF Steps
  <2> QED
    BY <2>1, <2>2, <2>3, Flow4
<1>2. CASE kind = "refresh"
  <2>1. Handler(kind) = <<"session", "claim", "account", "issue">>
    BY <1>2 DEF Handler, refresh
  <2>2. Goes(kind, "session", "claim") /\ Goes(kind, "claim", "account")
        /\ Goes(kind, "account", "issue") /\ Goes(kind, "issue", "end")
    BY <1>2 DEF Goes
  <2>3. {"session", "claim", "account", "issue"} \subseteq Steps
    BY DEF Steps
  <2> QED
    BY <2>1, <2>2, <2>3, Flow4
<1>3. CASE kind = "logout"
  <2>1. Handler(kind) = <<"session", "logout">>
    BY <1>3 DEF Handler, logout
  <2>2. Goes(kind, "session", "logout") /\ Goes(kind, "logout", "end")
    BY <1>3 DEF Goes
  <2>3. {"session", "logout"} \subseteq Steps
    BY DEF Steps
  <2> QED
    BY <2>1, <2>2, <2>3, Flow2
<1>4. CASE kind = "logout_all"
  <2>1. Handler(kind) = <<"resolve", "revoke_all">>
    BY <1>4 DEF Handler, logout_all
  <2>2. Goes(kind, "resolve", "revoke_all") /\ Goes(kind, "revoke_all", "end")
    BY <1>4 DEF Goes
  <2>3. {"resolve", "revoke_all"} \subseteq Steps
    BY DEF Steps
  <2> QED
    BY <2>1, <2>2, <2>3, Flow2
<1>5. CASE kind = "register"
  <2>1. Handler(kind) = <<"register", "insert">>
    BY <1>5 DEF Handler, register
  <2>2. Goes(kind, "register", "insert") /\ Goes(kind, "insert", "end")
    BY <1>5 DEF Goes
  <2>3. {"register", "insert"} \subseteq Steps
    BY DEF Steps
  <2> QED
    BY <2>1, <2>2, <2>3, Flow2
<1>6. CASE kind = "create_user"
  <2>1. Handler(kind) = <<"resolve", "register", "insert">>
    BY <1>6 DEF Handler, create_user
  <2>2. Goes(kind, "resolve", "register") /\ Goes(kind, "register", "insert")
        /\ Goes(kind, "insert", "end")
    BY <1>6 DEF Goes
  <2>3. {"resolve", "register", "insert"} \subseteq Steps
    BY DEF Steps
  <2> QED
    BY <2>1, <2>2, <2>3, Flow3
<1>7. CASE kind = "password"
  <2>1. Handler(kind) = <<"resolve", "check", "verify", "set_password", "revoke_all">>
    BY <1>7 DEF Handler, change_password
  <2>2. Goes(kind, "resolve", "check") /\ Goes(kind, "check", "verify")
        /\ Goes(kind, "verify", "set_password") /\ Goes(kind, "set_password", "revoke_all")
        /\ Goes(kind, "revoke_all", "end")
    BY <1>7 DEF Goes
  <2>3. {"resolve", "check", "verify", "set_password", "revoke_all"} \subseteq Steps
    BY DEF Steps
  <2> QED
    BY <2>1, <2>2, <2>3, Flow5
<1>8. CASE kind = "update_user"
  <2>1. Handler(kind) = <<"resolve", "target", "set_role", "set_active", "revoke_all">>
    BY <1>8 DEF Handler, update_user
  <2>2. Goes(kind, "resolve", "target") /\ Goes(kind, "target", "set_role")
        /\ Goes(kind, "set_role", "set_active") /\ Goes(kind, "set_active", "revoke_all")
        /\ Goes(kind, "revoke_all", "end")
    BY <1>8 DEF Goes
  <2>3. {"resolve", "target", "set_role", "set_active", "revoke_all"} \subseteq Steps
    BY DEF Steps
  <2> QED
    BY <2>1, <2>2, <2>3, Flow5
<1>9. CASE kind = "create_key"
  <2>1. Handler(kind) = <<"resolve", "create_key">>
    BY <1>9 DEF Handler, create_api_key
  <2>2. Goes(kind, "resolve", "create_key") /\ Goes(kind, "create_key", "end")
    BY <1>9 DEF Goes
  <2>3. {"resolve", "create_key"} \subseteq Steps
    BY DEF Steps
  <2> QED
    BY <2>1, <2>2, <2>3, Flow2
<1>10. CASE kind = "revoke_key"
  <2>1. Handler(kind) = <<"resolve", "revoke_key">>
    BY <1>10 DEF Handler, revoke_api_key
  <2>2. Goes(kind, "resolve", "revoke_key") /\ Goes(kind, "revoke_key", "end")
    BY <1>10 DEF Goes
  <2>3. {"resolve", "revoke_key"} \subseteq Steps
    BY DEF Steps
  <2> QED
    BY <2>1, <2>2, <2>3, Flow2
<1> QED
  BY <1>1, <1>2, <1>3, <1>4, <1>5, <1>6, <1>7, <1>8, <1>9, <1>10 DEF Kinds

\* Where thread t is, its request is known.
LEMMA WhoIsAt ==
  ASSUME TypeOK, InFlow, NEW t \in Threads, op[t].rest # <<>>
  PROVE  /\ op[t] \in Operation /\ op[t].req \in AllRequests /\ WellFormed(op[t].req)
         /\ op[t].user \in Users /\ op[t].ref = op[t].req.ref
         /\ op[t].rest \in Seq(Steps) /\ FlowOf(op[t].req.kind, op[t].rest)
<1>1. op[t] \in Operation
  BY DEF TypeOK
<1>2. FlowOf(op[t].req.kind, op[t].rest) /\ op[t].req \in AllRequests /\ op[t].user \in Users
      /\ op[t].ref = op[t].req.ref
  BY DEF InFlow, FlowOf
<1>3. WellFormed(op[t].req)
  BY <1>2, AccountsAssumption
<1> QED
  BY <1>1, <1>2, <1>3 DEF Operation

\* A thread that is through with a step is idle, or goes on with the rest of its
\* list and all it knows.
Onward(t, o, next) ==
  IF next = "end" THEN o = Idle
  ELSE /\ o.rest # <<>> /\ Head(o.rest) = next /\ FlowOf(op[t].req.kind, o.rest)
       /\ o.req = op[t].req /\ o.ref = op[t].ref

\* A thread without a request is an operation, too.
LEMMA IdleIs == Idle \in Operation
BY DEF Idle, Operation, NoUser, UserRow, Grants

\* What is left of the list of a thread that is at a step is the flow from the next one.
LEMMA AdvancedIs ==
  ASSUME TypeOK, InFlow, NEW t \in Threads, NEW step, At(t, step)
  PROVE  \E next \in Steps \cup {"end"} :
           /\ Goes(op[t].req.kind, step, next)
           /\ Advanced(op[t]) \in Operation /\ Onward(t, Advanced(op[t]), next)
           /\ next # "end" =>
                /\ Advanced(op[t]).user = op[t].user /\ Advanced(op[t]).seen = op[t].seen
                /\ Advanced(op[t]).born = op[t].born /\ Advanced(op[t]).late = op[t].late
<1> DEFINE f == op[t].rest
<1>1. f # <<>> /\ Head(f) = step
  BY DEF At
<1>2. op[t] \in Operation /\ f \in Seq(Steps) /\ FlowOf(op[t].req.kind, f)
  BY <1>1, WhoIsAt
<1>3. CASE Len(f) > 1
  <2>1. /\ Tail(f) \in Seq(Steps) /\ Tail(f) # <<>> /\ Head(Tail(f)) \in Steps
        /\ Goes(op[t].req.kind, step, Head(Tail(f))) /\ FlowOf(op[t].req.kind, Tail(f))
    BY <1>1, <1>2, <1>3, FlowOn
  <2>2. Advanced(op[t]) = [op[t] EXCEPT !.rest = Tail(f)]
    BY <1>3 DEF Advanced
  <2>3. Head(Tail(f)) # "end"
    BY <2>1 DEF Steps
  <2>4. /\ Advanced(op[t]) \in Operation /\ Advanced(op[t]).rest = Tail(f)
        /\ Advanced(op[t]).req = op[t].req /\ Advanced(op[t]).ref = op[t].ref
        /\ Advanced(op[t]).user = op[t].user /\ Advanced(op[t]).seen = op[t].seen
        /\ Advanced(op[t]).born = op[t].born /\ Advanced(op[t]).late = op[t].late
    BY <1>2, <2>1, <2>2 DEF Operation
  <2> QED
    BY <2>1, <2>3, <2>4 DEF Onward
<1>4. CASE ~(Len(f) > 1)
  <2>1. Goes(op[t].req.kind, step, "end")
    BY <1>1, <1>2, <1>4, FlowOn
  <2>2. Advanced(op[t]) = Idle
    BY <1>4 DEF Advanced
  <2> QED
    BY <2>1, <2>2, IdleIs DEF Onward
<1> QED
  BY <1>3, <1>4

-----------------------------------------------------------------------------
(* How a thread moves. *)

\* Only thread t moves, and it leaves every thread's request in its flow.
Others(t) == \A x \in Threads : x # t => op'[x] = op[x]
Moves(t) == op' \in [Threads -> Operation] /\ Others(t) /\ InFlow'
Away(t, steps) == op'[t].rest # <<>> => Head(op'[t].rest) \notin steps

\* A step that replaces the operation of one thread by one that flows.
LEMMA FlowFrame ==
  ASSUME TypeOK, InFlow, NEW t \in Threads, NEW o \in Operation, op' = [op EXCEPT ![t] = o],
         o.rest # <<>> => o.req \in AllRequests /\ o.user \in Users /\ o.ref = o.req.ref,
         FlowOf(o.req.kind, o.rest)
  PROVE  Moves(t) /\ op'[t] = o
<1>1. op \in [Threads -> Operation]
  BY DEF TypeOK
<1>2. op' \in [Threads -> Operation] /\ op'[t] = o
      /\ \A x \in Threads : x # t => op'[x] = op[x]
  BY <1>1
<1>3. InFlow'
  <2> SUFFICES ASSUME NEW x \in Threads
               PROVE  /\ op'[x].rest # <<>> =>
                           op'[x].req \in AllRequests /\ op'[x].user \in Users
                             /\ op'[x].ref = op'[x].req.ref
                      /\ FlowOf(op'[x].req.kind, op'[x].rest)
    BY DEF InFlow, FlowOf
  <2>1. CASE x = t
    BY <1>2, <2>1
  <2>2. CASE x # t
    BY <1>2, <2>2 DEF InFlow, FlowOf
  <2> QED
    BY <2>1, <2>2
<1> QED
  BY <1>2, <1>3 DEF Moves, Others

\* Finish leaves the thread idle.
LEMMA FinishMoves ==
  ASSUME TypeOK, InFlow, NEW t \in Threads, Finish(t)
  PROVE  Moves(t) /\ op'[t] = Idle /\ op'[t].rest = <<>>
<1>1. Idle \in Operation /\ Idle.rest = <<>>
  BY IdleIs DEF Idle
<1>2. FlowOf(Idle.req.kind, Idle.rest)
  BY <1>1 DEF FlowOf
<1> QED
  BY <1>1, <1>2, FlowFrame DEF Finish

\* A thread that goes on is at the next step of its list, or is through.
LEMMA GoesOn ==
  ASSUME TypeOK, InFlow, NEW t \in Threads, NEW step, At(t, step),
         NEW o \in Operation, op' = [op EXCEPT ![t] = o],
         o.rest = Advanced(op[t]).rest, o.req = Advanced(op[t]).req,
         o.ref = Advanced(op[t]).ref, o.rest # <<>> => o.user \in Users
  PROVE  /\ Moves(t) /\ op'[t] = o
         /\ o.rest # <<>> => /\ Goes(op[t].req.kind, step, Head(o.rest))
                             /\ o.req = op[t].req /\ o.ref = op[t].ref
<1>1. PICK next \in Steps \cup {"end"} :
           /\ Goes(op[t].req.kind, step, next)
           /\ Advanced(op[t]) \in Operation /\ Onward(t, Advanced(op[t]), next)
  BY AdvancedIs
<1>2. op[t].req \in AllRequests /\ op[t].ref = op[t].req.ref
  BY WhoIsAt DEF At
<1>3. CASE next = "end"
  <2>1. o.rest = <<>>
    BY <1>1, <1>3 DEF Onward, Idle
  <2>2. FlowOf(o.req.kind, o.rest)
    BY <2>1 DEF FlowOf
  <2> QED
    BY <2>1, <2>2, FlowFrame
<1>4. CASE next # "end"
  <2>1. /\ o.rest # <<>> /\ Head(o.rest) = next /\ FlowOf(op[t].req.kind, o.rest)
        /\ o.req = op[t].req /\ o.ref = op[t].ref
    BY <1>1, <1>4 DEF Onward
  <2> QED
    BY <1>1, <1>2, <2>1, FlowFrame
<1> QED
  BY <1>3, <1>4

\* Advance takes the thread to the next step, with what it holds.
LEMMA AdvanceMoves ==
  ASSUME TypeOK, InFlow, NEW t \in Threads, NEW step, At(t, step), Advance(t)
  PROVE  /\ Moves(t)
         /\ op'[t].rest # <<>> =>
              /\ Goes(op[t].req.kind, step, Head(op'[t].rest))
              /\ op'[t].req = op[t].req /\ op'[t].ref = op[t].ref
              /\ op'[t].user = op[t].user /\ op'[t].seen = op[t].seen
              /\ op'[t].born = op[t].born /\ op'[t].late = op[t].late
<1>1. PICK o : o = Advanced(op[t])
  OBVIOUS
<1>2. PICK next \in Steps \cup {"end"} :
           /\ Goes(op[t].req.kind, step, next)
           /\ o \in Operation /\ Onward(t, o, next)
           /\ next # "end" => o.user = op[t].user /\ o.seen = op[t].seen
                                /\ o.born = op[t].born /\ o.late = op[t].late
  BY <1>1, AdvancedIs
<1>3. op[t].user \in Users
  BY WhoIsAt DEF At
<1>4. o.rest # <<>> => next # "end"
  BY <1>2 DEF Onward, Idle
<1>5. op' = [op EXCEPT ![t] = o]
  BY <1>1 DEF Advance
<1>6. Moves(t) /\ op'[t] = o
      /\ (o.rest # <<>> => /\ Goes(op[t].req.kind, step, Head(o.rest))
                           /\ o.req = op[t].req /\ o.ref = op[t].ref)
  BY <1>1, <1>2, <1>3, <1>4, <1>5, GoesOn
<1> QED
  BY <1>2, <1>4, <1>6

-----------------------------------------------------------------------------
(* Rows: what a transaction leaves of them. *)

\* A commit leaves, column by column, what was changed or else what the row held.
LEMMA FlushedIs ==
  ASSUME NEW row \in UserRow, NEW read \in UserRow, NEW new \in UserRow
  PROVE  /\ Flushed(row, read, new) \in UserRow
         /\ Flushed(row, read, new).exists =
              IF new.exists # read.exists THEN new.exists ELSE row.exists
         /\ Flushed(row, read, new).role = IF new.role # read.role THEN new.role ELSE row.role
         /\ Flushed(row, read, new).active =
              IF new.active # read.active THEN new.active ELSE row.active
         /\ Flushed(row, read, new).pw = IF new.pw # read.pw THEN new.pw ELSE row.pw
         /\ Flushed(row, read, new).failed =
              IF new.failed # read.failed THEN new.failed ELSE row.failed
         /\ Flushed(row, read, new).locked =
              IF new.locked # read.locked THEN new.locked ELSE row.locked
<1>1. DOMAIN row = {"exists", "role", "active", "pw", "failed", "locked"}
  BY DEF UserRow
<1> QED
  BY <1>1 DEF Flushed, UserRow

\* An operation with another row read, user or password is still one.
LEMMA WithRow ==
  ASSUME NEW a \in Operation, NEW row \in UserRow, NEW u \in Users, NEW n \in Nat,
         NEW l \in BOOLEAN
  PROVE  /\ [a EXCEPT !.seen = row] \in Operation
         /\ [a EXCEPT !.seen = row, !.born = n] \in Operation
         /\ [a EXCEPT !.seen = row, !.user = u] \in Operation
         /\ [a EXCEPT !.user = u, !.born = n, !.late = l] \in Operation
         /\ [a EXCEPT !.late = l] \in Operation
BY DEF Operation

\* What happened only adds to what is excepted.
PastGrows == /\ past' \in Past /\ past'.strikes = past.strikes /\ past'.locks = past.locks
             /\ past.raced \subseteq past'.raced /\ (past.overlapped => past'.overlapped)

\* A step that records nothing.
LEMMA PastStays ==
  ASSUME TypeOK, past' = past
  PROVE  PastGrows
BY DEF TypeOK, PastGrows

-----------------------------------------------------------------------------
(* What each action does. *)

\* Finish moves the thread and leaves it nothing to do.
LEMMA FinishDoes ==
  ASSUME TypeOK, InFlow, NEW t \in Threads, Finish(t)
  PROVE  Moves(t) /\ op' \in [Threads -> Operation] /\ op'[t].rest = <<>>
BY FinishMoves DEF Moves

\* authenticate() reads the row, and marks the user raced if another writer is there.
LEMMA LoginLoadDoes ==
  ASSUME TypeOK, InFlow, NEW t \in Threads, LoginLoad(t)
  PROVE  /\ TypeOK' /\ Moves(t) /\ PastGrows
         /\ op'[t].rest # <<>> => LET u == op[t].user IN
              /\ u \in Users /\ Head(op'[t].rest) = "check" /\ users[u].exists
              /\ op'[t].user = u /\ op'[t].seen = users[u]
              /\ Raced(u) => u \in past'.raced
<1> DEFINE u == op[t].user
<1>1. At(t, "load")
  BY DEF LoginLoad
<1>2. u \in Users /\ users[u] \in UserRow
  BY <1>1, WhoIsAt DEF At, TypeOK
<1>3. CASE users[u].exists
  <2>1. PICK a : a = Advanced(op[t])
    OBVIOUS
  <2>2. /\ op' = [op EXCEPT ![t] = [a EXCEPT !.seen = users[u]]]
        /\ past' = [past EXCEPT !.raced = @ \cup {v \in {u} : Raced(v)}]
    BY <1>3, <2>1 DEF LoginLoad
  <2>3. /\ a \in Operation
        /\ a.rest # <<>> => a.user = u
    BY <1>1, <2>1, AdvancedIs DEF Onward, Idle
  <2>4. PICK o : o = [a EXCEPT !.seen = users[u]]
    OBVIOUS
  <2>5. /\ o \in Operation /\ o.rest = a.rest /\ o.req = a.req /\ o.ref = a.ref
        /\ o.user = a.user /\ o.seen = users[u]
    BY <1>2, <2>3, <2>4, WithRow DEF Operation
  <2>6. /\ Moves(t) /\ op'[t] = o
        /\ o.rest # <<>> => Goes(op[t].req.kind, "load", Head(o.rest))
    <3>1. op' = [op EXCEPT ![t] = o]
      BY <2>2, <2>4
    <3>2. /\ o.rest = Advanced(op[t]).rest /\ o.req = Advanced(op[t]).req
          /\ o.ref = Advanced(op[t]).ref /\ (o.rest # <<>> => o.user \in Users)
      BY <1>2, <2>1, <2>3, <2>5
    <3> QED
      BY <1>1, <2>5, <3>1, <3>2, GoesOn
  <2>7. o.rest # <<>> => Head(o.rest) = "check"
    BY <2>6 DEF Goes
  <2>8. past \in Past
    BY DEF TypeOK
  <2>9. PastGrows /\ (Raced(u) => u \in past'.raced)
    BY <1>2, <2>2, <2>8 DEF Past, PastGrows
  <2>10. TypeOK'
    BY <2>6, <2>9 DEF TypeOK, LoginLoad, Moves, PastGrows
  <2> QED
    BY <1>2, <1>3, <2>3, <2>5, <2>6, <2>7, <2>9, <2>10
<1>4. CASE ~users[u].exists
  <2>1. Finish(t) /\ past' = past
    BY <1>4 DEF LoginLoad
  <2>2. Moves(t) /\ op' \in [Threads -> Operation] /\ op'[t].rest = <<>> /\ PastGrows
    BY <2>1, FinishDoes, PastStays
  <2> QED
    BY <2>1, <2>2 DEF TypeOK, LoginLoad
<1> QED
  BY <1>3, <1>4

\* Steps that touch no table: the thread goes on or is through.
LEMMA CheckLockDoes ==
  ASSUME TypeOK, InFlow, NEW t \in Threads, CheckLock(t)
  PROVE  /\ TypeOK' /\ Moves(t)
         /\ op'[t].rest # <<>> =>
              /\ Head(op'[t].rest) = "verify" /\ op[t].seen.locked <= now
              /\ op'[t].user = op[t].user /\ op'[t].seen = op[t].seen
              /\ op'[t].born = op[t].born /\ op'[t].late = op[t].late
<1>1. At(t, "check")
  BY DEF CheckLock
<1>2. CASE op[t].seen.locked > now
  <2>1. Moves(t) /\ op' \in [Threads -> Operation] /\ op'[t].rest = <<>>
    BY <1>2, FinishDoes DEF CheckLock
  <2> QED
    BY <2>1 DEF TypeOK, CheckLock
<1>3. CASE ~(op[t].seen.locked > now)
  <2>1. Advance(t)
    BY <1>3 DEF CheckLock
  <2>2. op[t].seen.locked \in Nat /\ now \in Nat
    BY DEF TypeOK, Operation, UserRow
  <2>3. op[t].seen.locked <= now
    BY <1>3, <2>2
  <2>4. Moves(t) /\ op' \in [Threads -> Operation]
        /\ (op'[t].rest # <<>> => /\ Goes(op[t].req.kind, "check", Head(op'[t].rest))
              /\ op'[t].user = op[t].user /\ op'[t].seen = op[t].seen
              /\ op'[t].born = op[t].born /\ op'[t].late = op[t].late)
    BY <1>1, <2>1, AdvanceMoves DEF Moves
  <2>5. op'[t].rest # <<>> => Head(op'[t].rest) = "verify"
    BY <2>4 DEF Goes
  <2>6. TypeOK'
    BY <2>4 DEF TypeOK, CheckLock
  <2> QED
    BY <2>3, <2>4, <2>5, <2>6
<1> QED
  BY <1>2, <1>3

\* A list of the one step that may end any request flows.
LEMMA Flow1 ==
  ASSUME NEW kind, NEW a \in {"audit", "revoke_all"}
  PROVE  /\ <<a>> \in Seq(Steps) /\ FlowOf(kind, <<a>>) /\ <<a>> # <<>> /\ Head(<<a>>) = a
<1>1. PICK f : f = <<a>>
  OBVIOUS
<1>2. Goes(kind, a, "end") /\ a \in Steps
  BY DEF Goes, Steps
<1>3. f \in Seq(Steps) /\ Len(f) = 1 /\ Head(f) = a /\ f # <<>> /\ f[1] = a /\ DOMAIN f = 1..1
  BY <1>1, <1>2
<1>4. FlowOf(kind, f)
  BY <1>2, <1>3 DEF FlowOf
<1> QED
  BY <1>1, <1>3, <1>4

\* A thread whose request is cut short to one last step.
LEMMA CutShort ==
  ASSUME TypeOK, InFlow, NEW t \in Threads, op[t].rest # <<>>,
         NEW a \in {"audit", "revoke_all"}, op' = [op EXCEPT ![t].rest = <<a>>]
  PROVE  /\ Moves(t) /\ op'[t].rest # <<>> /\ Head(op'[t].rest) = a
         /\ op'[t].user = op[t].user
<1>1. PICK f : f = <<a>>
  OBVIOUS
<1>2. f \in Seq(Steps) /\ FlowOf(op[t].req.kind, f) /\ f # <<>> /\ Head(f) = a
  BY <1>1, Flow1
<1>3. op[t] \in Operation /\ op[t].req \in AllRequests /\ op[t].user \in Users
      /\ op[t].ref = op[t].req.ref
  BY WhoIsAt
<1>4. PICK o : o = [op[t] EXCEPT !.rest = f]
  OBVIOUS
<1>5. o \in Operation /\ o.rest = f /\ o.req = op[t].req /\ o.user = op[t].user
      /\ o.ref = op[t].ref
  BY <1>2, <1>3, <1>4 DEF Operation
<1>6. op' = [op EXCEPT ![t] = o]
  BY <1>1, <1>4
<1>7. FlowOf(o.req.kind, o.rest) /\ o.req \in AllRequests /\ o.user \in Users
      /\ o.ref = o.req.ref
  BY <1>2, <1>3, <1>5
<1>8. Moves(t) /\ op'[t] = o
  BY <1>5, <1>6, <1>7, FlowFrame
<1> QED
  BY <1>2, <1>5, <1>8

\* One row of users may differ.
UserOnly(u) == users' \in [Users -> UserRow] /\ \A v \in Users : v # u => users'[v] = users[v]

\* _register_failure() counts one more, and locks at the limit.
LEMMA AfterFailureIs ==
  ASSUME NEW row \in UserRow, now \in Nat
  PROVE  /\ AfterFailure(row) \in UserRow /\ AfterFailure(row).exists = row.exists
         /\ AfterFailure(row).role = row.role /\ AfterFailure(row).active = row.active
         /\ AfterFailure(row).pw = row.pw /\ AfterFailure(row).failed = row.failed + 1
         /\ AfterFailure(row).locked =
              IF row.failed + 1 >= MaxFailedLogins THEN now + LockoutSeconds ELSE row.locked
<1>1. PICK l : l = IF row.failed + 1 >= MaxFailedLogins THEN now + LockoutSeconds ELSE row.locked
  OBVIOUS
<1>2. AfterFailure(row) = [row EXCEPT !.failed = row.failed + 1, !.locked = l]
  BY <1>1 DEF AfterFailure
<1>3. row.failed + 1 \in Nat /\ row.locked \in Nat
  BY DEF UserRow
<1>4. l \in Nat
  <2>1. now + LockoutSeconds \in Nat
    BY AccountsAssumption
  <2> QED
    BY <1>1, <1>3, <2>1
<1>5. PICK n : n = row.failed + 1
  OBVIOUS
<1>6. PICK a : a = [row EXCEPT !.failed = n, !.locked = l]
  OBVIOUS
<1>7. /\ a \in UserRow /\ a.exists = row.exists /\ a.role = row.role /\ a.active = row.active
      /\ a.pw = row.pw /\ a.failed = n /\ a.locked = l
  BY <1>3, <1>4, <1>5, <1>6 DEF UserRow
<1>8. a = AfterFailure(row)
  BY <1>2, <1>5, <1>6
<1> QED
  BY <1>1, <1>5, <1>7, <1>8

\* One more strike and d more locks of a user are a history, too.
LEMMA Struck ==
  ASSUME NEW p \in Past, NEW u \in Users, NEW d \in Nat, NEW q,
         q.raced = p.raced, q.overlapped = p.overlapped,
         q.strikes = [p.strikes EXCEPT ![u] = @ + 1],
         q.locks = [p.locks EXCEPT ![u] = @ + d],
         q = [strikes |-> q.strikes, locks |-> q.locks, raced |-> q.raced,
              overlapped |-> q.overlapped]
  PROVE  q \in Past
<1>1. /\ q.raced = p.raced /\ q.overlapped = p.overlapped
      /\ q.strikes = [p.strikes EXCEPT ![u] = @ + 1]
      /\ q.locks = [p.locks EXCEPT ![u] = @ + d]
      /\ q = [strikes |-> q.strikes, locks |-> q.locks, raced |-> q.raced,
               overlapped |-> q.overlapped]
  OBVIOUS
<1>2. p.strikes \in [Users -> Nat] /\ p.locks \in [Users -> Nat]
      /\ p.raced \in SUBSET Users /\ p.overlapped \in BOOLEAN
  BY DEF Past
<1>3. q.strikes \in [Users -> Nat] /\ q.locks \in [Users -> Nat]
  BY <1>1, <1>2
<1> QED
  BY <1>1, <1>2, <1>3 DEF Past

\* A wrong password is counted from the row as read; the audit follows a lock only.
LEMMA WrongPasswordDoes ==
  ASSUME TypeOK, InFlow, FoundOut, NEW t \in Threads, WrongPassword(t)
  PROVE  LET u == op[t].user
             full == op[t].seen.failed + 1 >= MaxFailedLogins IN
         /\ TypeOK' /\ Moves(t) /\ u \in Users /\ UserOnly(u)
         /\ users'[u].exists = users[u].exists /\ users'[u].role = users[u].role
         /\ users'[u].active = users[u].active /\ users'[u].pw = users[u].pw
         /\ users'[u].failed = op[t].seen.failed + 1
         /\ full => users'[u].locked # 0
         /\ past'.raced = past.raced /\ past'.overlapped = past.overlapped
         /\ past'.strikes = [past.strikes EXCEPT ![u] = @ + 1]
         /\ \A v \in Users : v # u => past'.locks[v] = past.locks[v]
         /\ past'.locks[u] \in {past.locks[u], past.locks[u] + 1}
         /\ op'[t].rest # <<>> => /\ Head(op'[t].rest) = "audit" /\ op'[t].user = u
                                  /\ past'.locks[u] = past.locks[u] + 1
<1> DEFINE u == op[t].user
           seen == op[t].seen
           new == AfterFailure(seen)
           full == seen.failed + 1 >= MaxFailedLogins
<1>1. At(t, "verify")
  BY DEF WrongPassword
<1>2. op[t].rest # <<>>
  BY <1>1 DEF At
<1>3. u \in Users /\ users[u] \in UserRow /\ seen \in UserRow /\ now \in Nat
  BY <1>2, WhoIsAt DEF TypeOK, Operation
<1>4. seen.locked <= now
  BY <1>1 DEF FoundOut, Found
<1>5. LockoutSeconds \in Nat \ {0} /\ MaxFailedLogins \in Nat
  BY AccountsAssumption
<1>6. /\ new \in UserRow /\ new.exists = seen.exists /\ new.role = seen.role
      /\ new.active = seen.active /\ new.pw = seen.pw /\ new.failed = seen.failed + 1
      /\ new.locked = IF full THEN now + LockoutSeconds ELSE seen.locked
  BY <1>3, <1>5, AfterFailureIs
<1>7. PICK n : n = new
  OBVIOUS
<1>8. users' = [users EXCEPT ![u] = Flushed(users[u], seen, n)]
  BY <1>7 DEF WrongPassword
<1>9. PICK row : row = Flushed(users[u], seen, n)
  OBVIOUS
<1>10. /\ row \in UserRow /\ row.exists = users[u].exists /\ row.role = users[u].role
       /\ row.active = users[u].active /\ row.pw = users[u].pw
       /\ row.failed = IF n.failed # seen.failed THEN n.failed ELSE users[u].failed
       /\ row.locked = IF n.locked # seen.locked THEN n.locked ELSE users[u].locked
  BY <1>3, <1>6, <1>7, <1>9, FlushedIs
<1>11. users \in [Users -> UserRow]
  BY DEF TypeOK
<1>12. users'[u] = row /\ UserOnly(u)
  BY <1>3, <1>8, <1>9, <1>10, <1>11 DEF UserOnly
<1>13. row.failed = seen.failed + 1
  <2>1. seen.failed \in Nat
    BY <1>3 DEF UserRow
  <2> QED
    BY <1>6, <1>7, <1>10, <2>1
<1>14. full => row.locked = now + LockoutSeconds /\ row.locked > now /\ row.locked # 0
  <2>1. seen.locked \in Nat
    BY <1>3 DEF UserRow
  <2>2. now + LockoutSeconds # seen.locked /\ now + LockoutSeconds > now
        /\ now + LockoutSeconds # 0
    BY <1>3, <1>4, <1>5, <2>1
  <2> QED
    BY <1>6, <1>7, <1>10, <2>2
<1>15. LockedNow(n) <=> full
  BY <1>6, <1>7 DEF LockedNow
<1>16. past' = [past EXCEPT !.strikes[u] = @ + 1,
                            !.locks[u] = @ + (IF users'[u].locked > now THEN 1 ELSE 0)]
  BY DEF WrongPassword
<1>17. past \in Past
  BY DEF TypeOK
<1>18. PICK d \in {0, 1} : d = IF users'[u].locked > now THEN 1 ELSE 0
  OBVIOUS
<1>19. /\ past' \in Past /\ past'.raced = past.raced /\ past'.overlapped = past.overlapped
       /\ past'.strikes = [past.strikes EXCEPT ![u] = @ + 1]
       /\ past'.locks = [past.locks EXCEPT ![u] = @ + d]
  <2>1. past' = [past EXCEPT !.strikes[u] = @ + 1, !.locks[u] = @ + d]
    BY <1>16, <1>18
  <2>2. d \in Nat
    BY <1>18
  <2>3. u \in Users
    BY <1>3
  <2>4. PICK q : q = past'
    OBVIOUS
  <2>5. PICK p : p = past
    OBVIOUS
  <2>6. PICK w : w = u
    OBVIOUS
  <2>7. q = [p EXCEPT !.strikes[w] = @ + 1, !.locks[w] = @ + d] /\ p \in Past /\ w \in Users
    BY <1>17, <2>1, <2>3, <2>4, <2>5, <2>6
  <2>8. /\ q.raced = p.raced /\ q.overlapped = p.overlapped
        /\ q.strikes = [p.strikes EXCEPT ![w] = @ + 1]
        /\ q.locks = [p.locks EXCEPT ![w] = @ + d]
        /\ q = [strikes |-> q.strikes, locks |-> q.locks, raced |-> q.raced,
                 overlapped |-> q.overlapped]
    BY <2>7 DEF Past
  <2>9. q \in Past
    BY <2>2, <2>7, <2>8, Struck
  <2> QED
    BY <2>4, <2>5, <2>6, <2>8, <2>9
<1>20. /\ Moves(t)
       /\ op'[t].rest # <<>> => Head(op'[t].rest) = "audit" /\ op'[t].user = u /\ full
  <2>1. CASE full
    <3>1. op' = [op EXCEPT ![t].rest = <<"audit">>]
      BY <1>7, <1>15, <2>1 DEF WrongPassword
    <3> QED
      BY <1>2, <2>1, <3>1, CutShort
  <2>2. CASE ~full
    <3>1. Finish(t)
      BY <1>7, <1>15, <2>2 DEF WrongPassword
    <3> QED
      BY <3>1, FinishDoes
  <2> QED
    BY <2>1, <2>2
<1>21. TypeOK'
  <2>1. UNCHANGED <<now, sessions, keys, access, todo, audited>>
    BY DEF WrongPassword
  <2> QED
    BY <1>12, <1>19, <1>20, <2>1 DEF TypeOK, Moves, UserOnly
<1>22. past.locks \in [Users -> Nat]
  BY <1>17 DEF Past
<1>23. /\ \A v \in Users : v # u => past'.locks[v] = past.locks[v]
       /\ past'.locks[u] = past.locks[u] + d
       /\ past'.locks[u] \in {past.locks[u], past.locks[u] + 1}
  BY <1>3, <1>18, <1>19, <1>22
<1>24. full => past'.locks[u] = past.locks[u] + 1
  BY <1>12, <1>14, <1>18, <1>23
<1> HIDE DEF full
<1> QED
  BY <1>3, <1>10, <1>12, <1>13, <1>14, <1>19, <1>20, <1>21, <1>23, <1>24 DEF full

\* The audit row is written, or is not.
LEMMA AuditLockDoes ==
  ASSUME TypeOK, InFlow, NEW t \in Threads, AuditLock(t)
  PROVE  LET u == op[t].user IN
         /\ TypeOK' /\ Moves(t) /\ op'[t].rest = <<>> /\ u \in Users
         /\ \A v \in Users : v # u => audited'[v] = audited[v]
         /\ audited'[u] \in {audited[u], audited[u] + 1}
<1> DEFINE u == op[t].user
<1>1. u \in Users
  BY WhoIsAt DEF AuditLock, At
<1>2. PICK w \in {0, 1} : audited' = [audited EXCEPT ![u] = @ + w]
  BY DEF AuditLock
<1>3. audited \in [Users -> Nat]
  BY DEF TypeOK
<1>4. /\ audited' \in [Users -> Nat]
      /\ \A v \in Users : v # u => audited'[v] = audited[v]
      /\ audited'[u] = audited[u] + w
  BY <1>1, <1>2, <1>3
<1>5. audited'[u] \in {audited[u], audited[u] + 1}
  BY <1>1, <1>3, <1>4
<1>6. Moves(t) /\ op'[t].rest = <<>> /\ op' \in [Threads -> Operation]
  BY FinishDoes DEF AuditLock
<1>7. TypeOK'
  BY <1>4, <1>6 DEF TypeOK, AuditLock
<1> QED
  BY <1>1, <1>4, <1>5, <1>6, <1>7

\* The strikes of a user begin anew.
LEMMA Cleared ==
  ASSUME TypeOK, NEW u \in Users, past' = [past EXCEPT !.strikes[u] = 0]
  PROVE  /\ past' \in Past /\ past'.raced = past.raced /\ past'.overlapped = past.overlapped
         /\ past'.locks = past.locks /\ past'.strikes = [past.strikes EXCEPT ![u] = 0]
<1> PICK p : p = past
  OBVIOUS
<1> PICK q : q = past'
  OBVIOUS
<1>1. /\ q.raced = p.raced /\ q.overlapped = p.overlapped
      /\ q.strikes = [p.strikes EXCEPT ![u] = 0] /\ q.locks = p.locks
      /\ q = [strikes |-> q.strikes, locks |-> q.locks, raced |-> q.raced,
              overlapped |-> q.overlapped]
  BY DEF Past, TypeOK
<1>2. p.strikes \in [Users -> Nat] /\ p.locks \in [Users -> Nat]
      /\ p.raced \in SUBSET Users /\ p.overlapped \in BOOLEAN
  BY DEF Past, TypeOK
<1>3. q.strikes \in [Users -> Nat]
  BY <1>1, <1>2
<1> QED
  BY <1>1, <1>2, <1>3 DEF Past

\* A right password clears the counters and no other column.
LEMMA AfterLoginIs ==
  ASSUME NEW row \in UserRow
  PROVE  /\ AfterLogin(row) \in UserRow /\ AfterLogin(row).exists = row.exists
         /\ AfterLogin(row).role = row.role /\ AfterLogin(row).active = row.active
         /\ AfterLogin(row).pw = row.pw /\ AfterLogin(row).failed = 0
         /\ AfterLogin(row).locked = 0
BY DEF AfterLogin, UserRow

\* A right password clears what was read as not clear; an inactive user gets no further.
LEMMA RightPasswordDoes ==
  ASSUME TypeOK, InFlow, NEW t \in Threads, RightPassword(t)
  PROVE  LET u == op[t].user
             seen == op[t].seen IN
         /\ TypeOK' /\ Moves(t) /\ u \in Users /\ UserOnly(u)
         /\ users'[u].exists = users[u].exists /\ users'[u].role = users[u].role
         /\ users'[u].active = users[u].active /\ users'[u].pw = users[u].pw
         /\ past'.raced = past.raced /\ past'.overlapped = past.overlapped
         /\ past'.locks = past.locks
         /\ \/ op'[t].rest = <<>> /\ users' = users /\ past' = past
            \/ /\ users'[u].failed = IF seen.failed # 0 THEN 0 ELSE users[u].failed
               /\ users'[u].locked = IF seen.locked # 0 THEN 0 ELSE users[u].locked
               /\ past'.strikes = [past.strikes EXCEPT ![u] = 0]
               /\ op'[t].rest # <<>> =>
                    /\ Head(op'[t].rest) \in {"issue", "set_password"}
                    /\ seen.active /\ op'[t].user = u /\ op'[t].seen = users'[u]
                    /\ op'[t].born = seen.pw /\ op'[t].late = op[t].late
                    /\ op'[t].req.kind # "refresh"
<1> DEFINE u == op[t].user
           seen == op[t].seen
<1>1. At(t, "verify")
  BY DEF RightPassword
<1>2. u \in Users /\ users[u] \in UserRow /\ seen \in UserRow
      /\ op[t].req.pw = seen.pw
  BY <1>1, WhoIsAt DEF TypeOK, Operation, At, RightPassword
<1>3. past \in Past /\ users \in [Users -> UserRow]
  BY DEF TypeOK
<1>4. CASE ~seen.active
  <2>1. Finish(t) /\ users' = users /\ past' = past
    BY <1>4 DEF RightPassword
  <2>2. Moves(t) /\ op' \in [Threads -> Operation] /\ op'[t].rest = <<>>
    BY <2>1, FinishDoes
  <2>3. TypeOK'
    BY <2>1, <2>2 DEF TypeOK, RightPassword
  <2> QED
    BY <1>2, <1>3, <2>1, <2>2, <2>3 DEF UserOnly
<1>5. CASE seen.active
  <2>1. PICK a : a = Advanced(op[t])
    OBVIOUS
  <2>2. PICK row : row = Flushed(users[u], seen, AfterLogin(seen))
    OBVIOUS
  <2>3. /\ row \in UserRow /\ row.exists = users[u].exists /\ row.role = users[u].role
        /\ row.active = users[u].active /\ row.pw = users[u].pw
        /\ row.failed = IF seen.failed # 0 THEN 0 ELSE users[u].failed
        /\ row.locked = IF seen.locked # 0 THEN 0 ELSE users[u].locked
    <3>1. PICK new : new = AfterLogin(seen)
      OBVIOUS
    <3>2. /\ new \in UserRow /\ new.exists = seen.exists /\ new.role = seen.role
          /\ new.active = seen.active /\ new.pw = seen.pw /\ new.failed = 0 /\ new.locked = 0
      BY <1>2, <3>1, AfterLoginIs
    <3>3. row = Flushed(users[u], seen, new)
      BY <2>2, <3>1
    <3> QED
      BY <1>2, <3>2, <3>3, FlushedIs
  <2>4. /\ users' = [users EXCEPT ![u] = row]
        /\ past' = [past EXCEPT !.strikes[u] = 0]
        /\ op' = [op EXCEPT ![t] = [a EXCEPT !.seen = users'[u], !.born = op[t].req.pw]]
    BY <1>5, <2>1, <2>2 DEF RightPassword
  <2>5. users' \in [Users -> UserRow] /\ users'[u] = row /\ UserOnly(u)
    BY <1>2, <1>3, <2>3, <2>4 DEF UserOnly
  <2>6. /\ past' \in Past /\ past'.raced = past.raced /\ past'.overlapped = past.overlapped
        /\ past'.locks = past.locks /\ past'.strikes = [past.strikes EXCEPT ![u] = 0]
    <3>1. past' = [past EXCEPT !.strikes[u] = 0]
      BY <2>4
    <3> QED
      BY <1>2, <3>1, Cleared
  <2>7. /\ a \in Operation
        /\ a.rest # <<>> => a.user = u /\ a.late = op[t].late
    BY <1>1, <2>1, AdvancedIs DEF Onward, Idle
  <2>8. PICK o : o = [a EXCEPT !.seen = users'[u], !.born = op[t].req.pw]
    OBVIOUS
  <2>9. seen.pw \in Nat
    BY <1>2 DEF UserRow
  <2>10. o = [a EXCEPT !.seen = row, !.born = seen.pw]
    BY <1>2, <2>5, <2>8
  <2>11. /\ o \in Operation /\ o.rest = a.rest /\ o.req = a.req /\ o.ref = a.ref
         /\ o.user = a.user /\ o.seen = row /\ o.born = seen.pw /\ o.late = a.late
    BY <2>3, <2>7, <2>9, <2>10 DEF Operation
  <2>12. /\ Moves(t) /\ op'[t] = o
         /\ o.rest # <<>> => Goes(op[t].req.kind, "verify", Head(o.rest)) /\ o.req = op[t].req
    <3>1. op' = [op EXCEPT ![t] = o]
      BY <2>4, <2>8
    <3>2. /\ o.rest = Advanced(op[t]).rest /\ o.req = Advanced(op[t]).req
          /\ o.ref = Advanced(op[t]).ref /\ (o.rest # <<>> => o.user \in Users)
      BY <1>2, <2>1, <2>7, <2>11
    <3> QED
      BY <1>1, <2>11, <3>1, <3>2, GoesOn
  <2>13. o.rest # <<>> => Head(o.rest) \in {"issue", "set_password"} /\ o.req.kind # "refresh"
    BY <2>12 DEF Goes
  <2>14. TypeOK'
    <3>1. UNCHANGED <<now, sessions, keys, access, todo, audited>>
      BY DEF RightPassword
    <3> QED
      BY <2>5, <2>6, <2>12, <3>1 DEF TypeOK, Moves
  <2> QED
    BY <1>2, <1>5, <2>3, <2>5, <2>6, <2>7, <2>11, <2>12, <2>13, <2>14
<1> QED
  BY <1>4, <1>5

\* set_password() clears the counters and goes on to revoke the sessions.
LEMMA SetPasswordDoes ==
  ASSUME TypeOK, InFlow, NEW t \in Threads, SetPassword(t)
  PROVE  LET u == op[t].user
             seen == op[t].seen IN
         /\ TypeOK' /\ Moves(t) /\ u \in Users /\ UserOnly(u)
         /\ users'[u].exists = users[u].exists /\ users'[u].role = users[u].role
         /\ users'[u].active = users[u].active
         /\ past'.raced = past.raced /\ past'.overlapped = past.overlapped
         /\ past'.locks = past.locks
         /\ users'[u].failed = IF seen.failed # 0 THEN 0 ELSE users[u].failed
         /\ users'[u].locked = IF seen.locked # 0 THEN 0 ELSE users[u].locked
         /\ past'.strikes = [past.strikes EXCEPT ![u] = 0]
         /\ op'[t].rest # <<>> /\ Head(op'[t].rest) = "revoke_all" /\ op'[t].user = u
<1> DEFINE u == op[t].user
           seen == op[t].seen
<1>1. At(t, "set_password")
  BY DEF SetPassword
<1>2. u \in Users /\ users[u] \in UserRow /\ seen \in UserRow /\ WellFormed(op[t].req)
  BY <1>1, WhoIsAt DEF TypeOK, Operation, At
<1>3. past \in Past /\ users \in [Users -> UserRow]
  BY DEF TypeOK
<1>4. PICK new : new = [AfterLogin(seen) EXCEPT !.pw = op[t].req.new]
  OBVIOUS
<1>5. /\ new \in UserRow /\ new.exists = seen.exists /\ new.role = seen.role
      /\ new.active = seen.active /\ new.failed = 0 /\ new.locked = 0
  <2>1. PICK after : after = AfterLogin(seen)
    OBVIOUS
  <2>2. /\ after \in UserRow /\ after.exists = seen.exists /\ after.role = seen.role
        /\ after.active = seen.active /\ after.failed = 0 /\ after.locked = 0
    BY <1>2, <2>1, AfterLoginIs
  <2>3. PICK pw : pw = op[t].req.new
    OBVIOUS
  <2>4. pw \in Nat
    BY <1>2, <2>3 DEF WellFormed
  <2>5. new = [after EXCEPT !.pw = pw]
    BY <1>4, <2>1, <2>3
  <2> QED
    BY <2>2, <2>4, <2>5 DEF UserRow
<1>6. PICK row : row = Flushed(users[u], seen, new)
  OBVIOUS
<1>7. /\ row \in UserRow /\ row.exists = users[u].exists /\ row.role = users[u].role
      /\ row.active = users[u].active
      /\ row.failed = IF seen.failed # 0 THEN 0 ELSE users[u].failed
      /\ row.locked = IF seen.locked # 0 THEN 0 ELSE users[u].locked
  BY <1>2, <1>5, <1>6, FlushedIs
<1>8. users' = [users EXCEPT ![u] = row] /\ past' = [past EXCEPT !.strikes[u] = 0]
      /\ Advance(t)
  BY <1>4, <1>6 DEF SetPassword
<1>9. users' \in [Users -> UserRow] /\ users'[u] = row /\ UserOnly(u)
  BY <1>2, <1>3, <1>7, <1>8 DEF UserOnly
<1>10. /\ past' \in Past /\ past'.raced = past.raced /\ past'.overlapped = past.overlapped
       /\ past'.locks = past.locks /\ past'.strikes = [past.strikes EXCEPT ![u] = 0]
  BY <1>2, <1>3, <1>8, Cleared
<1>11. /\ Moves(t)
       /\ op'[t].rest # <<>> => /\ Goes(op[t].req.kind, "set_password", Head(op'[t].rest))
                                /\ op'[t].user = u
  BY <1>1, <1>8, AdvanceMoves
<1>12. op'[t].rest # <<>>
  <2>1. PICK next \in Steps \cup {"end"} :
           /\ Goes(op[t].req.kind, "set_password", next) /\ Onward(t, Advanced(op[t]), next)
    BY <1>1, AdvancedIs
  <2>2. next # "end"
    BY <2>1 DEF Goes
  <2>3. op'[t] = Advanced(op[t])
    BY <1>8 DEF Advance, TypeOK
  <2> QED
    BY <2>1, <2>2, <2>3 DEF Onward
<1>13. Head(op'[t].rest) = "revoke_all"
  BY <1>11, <1>12 DEF Goes
<1>14. TypeOK'
  <2>1. UNCHANGED <<now, sessions, keys, access, todo, audited>>
    BY DEF SetPassword
  <2> QED
    BY <1>9, <1>10, <1>11, <2>1 DEF TypeOK, Moves
<1> QED
  BY <1>2, <1>7, <1>9, <1>10, <1>11, <1>12, <1>13, <1>14

\* Sessions are only revoked.
SessionsKept ==
    /\ DOMAIN sessions' = DOMAIN sessions
    /\ \A s \in DOMAIN sessions :
         /\ sessions'[s].user = sessions[s].user /\ sessions'[s].born = sessions[s].born
         /\ sessions'[s].late = sessions[s].late /\ sessions'[s].parent = sessions[s].parent
         /\ sessions[s].revoked => sessions'[s].revoked

\* Sessions are of their type and numbered from 1.
LEMMA SessionsAre ==
  ASSUME TypeOK, NEW s \in DOMAIN sessions
  PROVE  sessions[s] \in Session /\ s \in Nat \ {0}
<1>1. PICK n : n = Cardinality(DOMAIN sessions)
  OBVIOUS
<1>2. n \in Nat /\ sessions \in [1..n -> Session]
  BY <1>1 DEF TypeOK
<1> QED
  BY <1>2

\* issue_token_pair() adds one session, made of what the thread holds.
LEMMA IssueDoes ==
  ASSUME TypeOK, InFlow, NEW t \in Threads, Issue(t)
  PROVE  /\ TypeOK' /\ Moves(t) /\ op'[t].rest = <<>>
         /\ \E s \in DOMAIN sessions' :
              /\ s \notin DOMAIN sessions /\ DOMAIN sessions' = DOMAIN sessions \cup {s}
              /\ \A i \in DOMAIN sessions : sessions'[i] = sessions[i]
              /\ sessions'[s].user = op[t].user /\ sessions'[s].born = op[t].born
              /\ sessions'[s].parent = op[t].ref /\ sessions'[s].late = op[t].late
<1>1. PICK n : n = Cardinality(DOMAIN sessions)
  OBVIOUS
<1>2. n \in Nat /\ n + 1 <= MaxSessions /\ DOMAIN sessions = 1..n
      /\ sessions \in [1..n -> Session]
  <2>1. n \in Nat /\ sessions \in [1..n -> Session] /\ n < MaxSessions
    BY <1>1 DEF TypeOK, Issue
  <2> QED
    BY <2>1, AccountsAssumption
<1>3. op[t] \in Operation /\ op[t].user \in Users
  BY WhoIsAt DEF Issue, At
<1>4. PICK row : row = [user |-> op[t].user, revoked |-> FALSE,
                        expires |-> encode_token("refresh", RefreshTTL).exp,
                        born |-> op[t].born, parent |-> op[t].ref, late |-> op[t].late]
  OBVIOUS
<1>5. /\ row \in Session /\ row.user = op[t].user /\ row.born = op[t].born
      /\ row.parent = op[t].ref /\ row.late = op[t].late
  <2>1. encode_token("refresh", RefreshTTL).exp \in Nat
    BY AccountsAssumption DEF encode_token, TypeOK
  <2> QED
    BY <1>3, <1>4, <2>1 DEF Session, Operation
<1>6. sessions' = [i \in 1..(n + 1) |-> IF i = n + 1 THEN row ELSE sessions[i]]
  BY <1>1, <1>4 DEF Issue
<1>7. /\ sessions' \in [1..(n + 1) -> Session] /\ DOMAIN sessions' = 1..(n + 1)
      /\ sessions'[n + 1] = row
      /\ \A i \in DOMAIN sessions : sessions'[i] = sessions[i]
  BY <1>2, <1>5, <1>6
<1>8. Cardinality(DOMAIN sessions') = n + 1
  <2>1. n + 1 \in Int /\ ~(1 > n + 1) /\ (n + 1) - 1 + 1 = n + 1
    BY <1>2
  <2> QED
    BY <1>7, <2>1, FS_Interval
<1>9. n + 1 \in 0..MaxSessions /\ n + 1 \notin 1..n /\ 1..(n + 1) = 1..n \cup {n + 1}
      /\ n + 1 \in 1..(n + 1)
  BY <1>2, AccountsAssumption
<1>10. access' \in [Users -> Token]
  <2>1. access' = [access EXCEPT ![op[t].user] = encode_token("access", AccessTTL)]
    BY DEF Issue
  <2>2. encode_token("access", AccessTTL) \in Token
    BY AccountsAssumption DEF encode_token, TypeOK, Token
  <2> QED
    BY <2>1, <2>2 DEF TypeOK
<1>11. Moves(t) /\ op'[t].rest = <<>> /\ op' \in [Threads -> Operation]
  BY FinishDoes DEF Issue
<1>12. TypeOK'
  <2>1. UNCHANGED <<now, users, keys, todo, audited, past>>
    BY DEF Issue
  <2>2. sessions' \in [1..Cardinality(DOMAIN sessions') -> Session]
        /\ Cardinality(DOMAIN sessions') \in 0..MaxSessions
    BY <1>7, <1>8, <1>9
  <2> QED
    BY <1>10, <1>11, <2>1, <2>2 DEF TypeOK
<1> QED
  BY <1>2, <1>5, <1>7, <1>9, <1>11, <1>12

\* The thread goes on with the user, password and exception of the session presented.
LEMMA SessionLoadDoes ==
  ASSUME TypeOK, InFlow, NEW t \in Threads, SessionLoad(t)
  PROVE  /\ TypeOK' /\ Moves(t)
         /\ op'[t].rest # <<>> =>
              /\ Head(op'[t].rest) \in {"claim", "logout"}
              /\ op'[t].ref \in DOMAIN sessions
              /\ op'[t].user = sessions[op'[t].ref].user
              /\ op'[t].born = sessions[op'[t].ref].born
              /\ sessions[op'[t].ref].late => op'[t].late
<1> DEFINE s == op[t].ref
           e == [Advanced(op[t]) EXCEPT
                   !.user = sessions[s].user, !.born = sessions[s].born,
                   !.late = op[t].late \/ sessions[s].late]
           loads == op' = [op EXCEPT ![t] = e]
<1>1. At(t, "session")
  BY DEF SessionLoad
<1>2. UNCHANGED <<now, users, sessions, keys, access, todo, audited, past>>
  BY DEF SessionLoad
<1>3. Finish(t) \/ (s \in DOMAIN sessions /\ loads)
  BY DEF SessionLoad
<1>4. CASE Finish(t)
  <2>1. Moves(t) /\ op'[t].rest = <<>> /\ op' \in [Threads -> Operation]
    BY <1>4, FinishDoes
  <2> QED
    BY <1>2, <2>1 DEF TypeOK
<1>5. CASE s \in DOMAIN sessions /\ loads
  <2>1. PICK a : a = Advanced(op[t])
    OBVIOUS
  <2>2. a \in Operation
    BY <1>1, <2>1, AdvancedIs
  <2>3. PICK row : row = sessions[s]
    OBVIOUS
  <2>4. row \in Session
    BY <1>5, <2>3, SessionsAre
  <2>5. op[t].late \in BOOLEAN /\ row.late \in BOOLEAN /\ row.user \in Users /\ row.born \in Nat
    BY <2>4 DEF Operation, Session, TypeOK
  <2>6. PICK o : o = e
    OBVIOUS
  <2>7. op' = [op EXCEPT ![t] = o]
    <3> HIDE DEF e
    <3> QED
      BY <1>5, <2>6
  <2>9. /\ o \in Operation /\ o.rest = a.rest /\ o.req = a.req /\ o.ref = a.ref
        /\ o.user = row.user /\ o.born = row.born /\ (row.late => o.late)
    <3>1. /\ o.rest = a.rest /\ o.req = a.req /\ o.ref = a.ref /\ o.seen = a.seen
          /\ o.user = row.user /\ o.born = row.born
          /\ o.late = (op[t].late \/ row.late)
      BY <2>1, <2>2, <2>3, <2>6 DEF Operation
    <3>2. o.late \in BOOLEAN /\ (row.late => o.late)
      BY <2>5, <3>1
    <3>3. o = [rest |-> o.rest, req |-> o.req, user |-> o.user, seen |-> o.seen,
               ref |-> o.ref, born |-> o.born, late |-> o.late]
      BY <2>1, <2>2, <2>6 DEF Operation
    <3> QED
      BY <2>2, <2>5, <3>1, <3>2, <3>3 DEF Operation
  <2>10. /\ Moves(t) /\ op'[t] = o
         /\ o.rest # <<>> => Goes(op[t].req.kind, "session", Head(o.rest)) /\ o.ref = op[t].ref
    <3>1. /\ o.rest = Advanced(op[t]).rest /\ o.req = Advanced(op[t]).req
          /\ o.ref = Advanced(op[t]).ref /\ (o.rest # <<>> => o.user \in Users)
      BY <2>1, <2>5, <2>9
    <3> QED
      BY <1>1, <2>7, <2>9, <3>1, GoesOn
  <2>11. o.rest # <<>> => Head(o.rest) \in {"claim", "logout"}
    BY <2>10 DEF Goes
  <2>12. TypeOK'
    BY <1>2, <2>10 DEF TypeOK, Moves
  <2> QED
    BY <1>5, <2>3, <2>9, <2>10, <2>11, <2>12
<1> HIDE DEF loads
<1> QED
  BY <1>3, <1>4, <1>5

\* A session revoked by hand is still a session.
LEMMA Revoked ==
  ASSUME TypeOK, NEW s, sessions' = [sessions EXCEPT ![s].revoked = TRUE]
  PROVE  /\ SessionsKept
         /\ sessions' \in [1..Cardinality(DOMAIN sessions') -> Session]
         /\ Cardinality(DOMAIN sessions') = Cardinality(DOMAIN sessions)
         /\ s \in DOMAIN sessions => sessions'[s].revoked
<1>1. PICK n : n = Cardinality(DOMAIN sessions)
  OBVIOUS
<1>2. n \in Nat /\ sessions \in [1..n -> Session]
  BY <1>1 DEF TypeOK
<1>3. \A x \in 1..n : /\ sessions'[x] = IF x = s THEN [sessions[s] EXCEPT !.revoked = TRUE]
                                       ELSE sessions[x]
                      /\ sessions[x] \in Session
  BY <1>2
<1>4. DOMAIN sessions' = 1..n /\ DOMAIN sessions = 1..n /\ sessions' = [x \in 1..n |-> sessions'[x]]
  BY <1>2
<1>5. \A r \in Session : LET q == [r EXCEPT !.revoked = TRUE] IN
        q \in Session /\ q.revoked /\ q.user = r.user /\ q.born = r.born /\ q.late = r.late
          /\ q.parent = r.parent
  BY DEF Session
<1>6. sessions' \in [1..n -> Session]
  BY <1>3, <1>4, <1>5
<1>7. SessionsKept /\ (s \in DOMAIN sessions => sessions'[s].revoked)
  BY <1>3, <1>4, <1>5 DEF SessionsKept
<1> QED
  BY <1>1, <1>4, <1>6, <1>7

\* The guarded UPDATE: whoever finds the session live goes on, others revoke them all.
LEMMA ClaimDoes ==
  ASSUME TypeOK, InFlow, NEW t \in Threads, Claim(t)
  PROVE  LET s == op[t].ref IN
         /\ TypeOK' /\ Moves(t) /\ SessionsKept
         /\ s \in DOMAIN sessions => sessions'[s].revoked
         /\ op'[t].rest # <<>> =>
              \/ Head(op'[t].rest) = "revoke_all"
              \/ /\ Head(op'[t].rest) = "account" /\ Live(s)
                 /\ op[t].req.kind = "refresh" /\ op'[t].req = op[t].req
                 /\ op'[t].ref = s /\ op'[t].user = op[t].user
                 /\ op'[t].born = op[t].born /\ op'[t].late = op[t].late
<1> DEFINE s == op[t].ref
<1>1. At(t, "claim")
  BY DEF Claim
<1>2. /\ SessionsKept /\ (s \in DOMAIN sessions => sessions'[s].revoked)
      /\ sessions' \in [1..Cardinality(DOMAIN sessions') -> Session]
      /\ Cardinality(DOMAIN sessions') = Cardinality(DOMAIN sessions)
  BY Revoked DEF Claim
<1>3. Moves(t) => TypeOK'
  <2>1. UNCHANGED <<now, users, keys, access, todo, audited, past>>
    BY DEF Claim
  <2> QED
    BY <1>2, <2>1 DEF TypeOK, Moves
<1>4. CASE Live(s)
  <2>1. Advance(t)
    BY <1>4 DEF Claim
  <2>2. /\ Moves(t)
        /\ op'[t].rest # <<>> =>
             /\ Goes(op[t].req.kind, "claim", Head(op'[t].rest))
             /\ op'[t].req = op[t].req /\ op'[t].ref = s /\ op'[t].user = op[t].user
             /\ op'[t].born = op[t].born /\ op'[t].late = op[t].late
    BY <1>1, <2>1, AdvanceMoves
  <2>3. op'[t].rest # <<>> => Head(op'[t].rest) = "account" /\ op[t].req.kind = "refresh"
    BY <2>2 DEF Goes
  <2> QED
    BY <1>2, <1>3, <1>4, <2>2, <2>3
<1>5. CASE ~Live(s)
  <2>1. op' = [op EXCEPT ![t].rest = <<"revoke_all">>]
    BY <1>5 DEF Claim
  <2>2. Moves(t) /\ Head(op'[t].rest) = "revoke_all"
    BY <1>1, <2>1, CutShort DEF At
  <2> QED
    BY <1>2, <1>3, <2>2
<1> QED
  BY <1>4, <1>5

\* The account must be active for the rotation to go on.
LEMMA AccountDoes ==
  ASSUME TypeOK, InFlow, NEW t \in Threads, Account(t)
  PROVE  /\ TypeOK' /\ Moves(t)
         /\ op'[t].rest # <<>> =>
              /\ Head(op'[t].rest) = "issue" /\ users[op[t].user].active
              /\ op[t].req.kind = "refresh" /\ op'[t].req = op[t].req
              /\ op'[t].ref = op[t].ref /\ op'[t].user = op[t].user
              /\ op'[t].born = op[t].born /\ op'[t].late = op[t].late
<1>1. At(t, "account") /\ UNCHANGED <<now, users, sessions, keys, access, todo, audited, past>>
  BY DEF Account
<1>2. CASE users[op[t].user].active
  <2>1. Advance(t)
    BY <1>2 DEF Account
  <2>2. /\ Moves(t)
        /\ op'[t].rest # <<>> =>
             /\ Goes(op[t].req.kind, "account", Head(op'[t].rest))
             /\ op'[t].req = op[t].req /\ op'[t].ref = op[t].ref /\ op'[t].user = op[t].user
             /\ op'[t].born = op[t].born /\ op'[t].late = op[t].late
    BY <1>1, <2>1, AdvanceMoves
  <2>3. op'[t].rest # <<>> => Head(op'[t].rest) = "issue" /\ op[t].req.kind = "refresh"
    BY <2>2 DEF Goes
  <2>4. TypeOK'
    BY <1>1, <2>2 DEF TypeOK, Moves
  <2> QED
    BY <1>2, <2>2, <2>3, <2>4
<1>3. CASE ~users[op[t].user].active
  <2>1. Moves(t) /\ op'[t].rest = <<>> /\ op' \in [Threads -> Operation]
    BY <1>3, FinishDoes DEF Account
  <2> QED
    BY <1>1, <2>1 DEF TypeOK
<1> QED
  BY <1>2, <1>3

\* A logout revokes one session.
LEMMA LogoutDoes ==
  ASSUME TypeOK, InFlow, NEW t \in Threads, Logout(t)
  PROVE  TypeOK' /\ Moves(t) /\ SessionsKept /\ op'[t].rest = <<>>
<1>1. /\ SessionsKept
      /\ sessions' \in [1..Cardinality(DOMAIN sessions') -> Session]
      /\ Cardinality(DOMAIN sessions') = Cardinality(DOMAIN sessions)
  BY Revoked DEF Logout
<1>2. Moves(t) /\ op'[t].rest = <<>> /\ op' \in [Threads -> Operation]
  BY FinishDoes DEF Logout
<1>3. UNCHANGED <<now, users, keys, access, todo, audited, past>>
  BY DEF Logout
<1> QED
  BY <1>1, <1>2, <1>3 DEF TypeOK

\* The revocation of all sessions touches every other request of that user.
Touched(o, p) == /\ p.rest = o.rest /\ p.req = o.req /\ p.user = o.user /\ p.seen = o.seen
                 /\ p.ref = o.ref /\ p.born = o.born

\* revoke_all_sessions() ends the user's sessions, and whoever is at work is late.
LEMMA RevokeAllDoes ==
  ASSUME TypeOK, InFlow, NEW t \in Threads, RevokeAll(t)
  PROVE  LET u == op[t].user IN
         /\ TypeOK' /\ InFlow' /\ SessionsKept
         /\ \A s \in DOMAIN sessions : sessions[s].user = u => sessions'[s].revoked
         /\ op'[t].rest = <<>>
         /\ \A x \in Threads : x # t =>
              /\ Touched(op[x], op'[x])
              /\ IF op[x].user = u THEN op'[x].late ELSE op'[x].late = op[x].late
<1> DEFINE u == op[t].user
<1>1. At(t, "revoke_all")
      /\ UNCHANGED <<now, users, keys, access, todo, audited, past>>
  BY DEF RevokeAll
<1>2. PICK a : a = Advanced(op[t])
  OBVIOUS
<1>3. a \in Operation /\ a.rest = <<>>
  <2>1. PICK next \in Steps \cup {"end"} :
           /\ Goes(op[t].req.kind, "revoke_all", next) /\ Onward(t, a, next) /\ a \in Operation
    BY <1>1, <1>2, AdvancedIs
  <2>2. next = "end"
    BY <2>1 DEF Goes
  <2> QED
    BY <2>1, <2>2 DEF Onward, Idle
<1>4. op' = [x \in Threads |-> IF x = t THEN a ELSE
                IF op[x].user = u THEN [op[x] EXCEPT !.late = TRUE] ELSE op[x]]
  BY <1>2 DEF RevokeAll
<1>5. \A o \in Operation : LET p == [o EXCEPT !.late = TRUE] IN
        p \in Operation /\ Touched(o, p) /\ p.late
  BY DEF Operation, Touched
<1>6. \A x \in Threads : op[x] \in Operation /\ Touched(op[x], op[x])
  BY DEF TypeOK, Touched
<1>7. op'[t] = a
  BY <1>4
<1>8. ASSUME NEW x \in Threads, x # t
      PROVE  /\ op'[x] \in Operation /\ Touched(op[x], op'[x])
             /\ IF op[x].user = u THEN op'[x].late ELSE op'[x].late = op[x].late
  <2>1. op'[x] = IF op[x].user = u THEN [op[x] EXCEPT !.late = TRUE] ELSE op[x]
    BY <1>4, <1>8
  <2>2. CASE op[x].user = u
    BY <1>5, <1>6, <2>1, <2>2
  <2>3. CASE op[x].user # u
    BY <1>6, <2>1, <2>3
  <2> QED
    BY <2>2, <2>3
<1>9. op' \in [Threads -> Operation]
  <2>1. op' = [x \in Threads |-> op'[x]]
    BY <1>4
  <2>2. \A x \in Threads : op'[x] \in Operation
    BY <1>3, <1>7, <1>8
  <2> QED
    BY <2>1, <2>2
<1>10. InFlow'
  <2> SUFFICES ASSUME NEW x \in Threads
               PROVE  /\ op'[x].rest # <<>> =>
                           op'[x].req \in AllRequests /\ op'[x].user \in Users
                             /\ op'[x].ref = op'[x].req.ref
                      /\ FlowOf(op'[x].req.kind, op'[x].rest)
    BY DEF InFlow, FlowOf
  <2>1. CASE x = t
    BY <1>3, <1>7, <2>1 DEF FlowOf
  <2>2. CASE x # t
    <3>1. /\ op[x].rest # <<>> => op[x].req \in AllRequests /\ op[x].user \in Users
                                   /\ op[x].ref = op[x].req.ref
          /\ FlowOf(op[x].req.kind, op[x].rest)
      BY DEF InFlow, FlowOf
    <3>2. Touched(op[x], op'[x])
      BY <1>8, <2>2
    <3> QED
      BY <3>1, <3>2 DEF Touched
  <2> QED
    BY <2>1, <2>2
<1>11. PICK n : n = Cardinality(DOMAIN sessions)
  OBVIOUS
<1>12. n \in Nat /\ sessions \in [1..n -> Session]
  BY <1>11 DEF TypeOK
<1>13. sessions' = [s \in 1..n |-> [sessions[s] EXCEPT !.revoked = @ \/ sessions[s].user = u]]
  BY <1>12 DEF RevokeAll
<1>14. ASSUME NEW s \in 1..n
       PROVE  /\ sessions'[s] \in Session
              /\ sessions'[s].user = sessions[s].user /\ sessions'[s].born = sessions[s].born
              /\ sessions'[s].late = sessions[s].late /\ sessions'[s].parent = sessions[s].parent
              /\ sessions[s].revoked \/ sessions[s].user = u => sessions'[s].revoked
  <2>1. PICK r : r = sessions[s]
    OBVIOUS
  <2>2. r \in Session
    BY <1>12, <2>1
  <2>3. sessions'[s] = [r EXCEPT !.revoked = r.revoked \/ r.user = u]
    BY <1>13, <2>1
  <2>4. CASE r.revoked \/ r.user = u
    <3>1. /\ sessions'[s].user = r.user /\ sessions'[s].born = r.born
          /\ sessions'[s].late = r.late /\ sessions'[s].parent = r.parent
          /\ sessions'[s].expires = r.expires /\ sessions'[s].revoked = (r.revoked \/ r.user = u)
      BY <2>2, <2>3 DEF Session
    <3>2. sessions'[s] = [user |-> r.user, expires |-> r.expires,
                          revoked |-> sessions'[s].revoked, born |-> r.born,
                          parent |-> r.parent, late |-> r.late]
      BY <2>2, <2>3 DEF Session
    <3>3. sessions'[s].revoked \in BOOLEAN /\ sessions'[s].revoked
      BY <2>4, <3>1
    <3> QED
      BY <2>1, <2>2, <3>1, <3>2, <3>3 DEF Session
  <2>5. CASE ~(r.revoked \/ r.user = u)
    <3>1. /\ sessions'[s].user = r.user /\ sessions'[s].born = r.born
          /\ sessions'[s].late = r.late /\ sessions'[s].parent = r.parent
          /\ sessions'[s].expires = r.expires /\ sessions'[s].revoked = (r.revoked \/ r.user = u)
      BY <2>2, <2>3 DEF Session
    <3>2. sessions'[s] = [user |-> r.user, expires |-> r.expires,
                          revoked |-> sessions'[s].revoked, born |-> r.born,
                          parent |-> r.parent, late |-> r.late]
      BY <2>2, <2>3 DEF Session
    <3>3. sessions'[s].revoked \in BOOLEAN
      BY <3>1
    <3> QED
      BY <2>1, <2>2, <2>5, <3>1, <3>2, <3>3 DEF Session
  <2> QED
    BY <2>4, <2>5
<1>15. DOMAIN sessions' = 1..n /\ DOMAIN sessions = 1..n /\ sessions' \in [1..n -> Session]
  <2>1. sessions' = [s \in 1..n |-> sessions'[s]]
    BY <1>13
  <2>2. DOMAIN sessions' = 1..n
    BY <1>13
  <2> QED
    BY <1>12, <1>14, <2>1, <2>2
<1>16. SessionsKept /\ \A s \in DOMAIN sessions : sessions[s].user = u => sessions'[s].revoked
  BY <1>14, <1>15 DEF SessionsKept
<1>17. TypeOK'
  BY <1>1, <1>9, <1>11, <1>15 DEF TypeOK
<1> QED
  BY <1>3, <1>7, <1>8, <1>10, <1>16, <1>17

\* Only administrators hold the permission to manage users.
LEMMA Managers ==
  ASSUME NEW role \in DOMAIN Grants, NEW scopes, "manage_users" \in Permissions(role, scopes)
  PROVE  role = "admin"
<1>1. "manage_users" \in Grants[role]
  BY DEF Permissions
<1>2. role \in {"admin", "editor", "operator", "viewer"}
  BY DEF Grants
<1>3. "manage_users" \notin Grants["editor"] /\ "manage_users" \notin Grants["operator"]
      /\ "manage_users" \notin Grants["viewer"]
  BY DEF Grants
<1> QED
  BY <1>1, <1>2, <1>3

\* get_principal(): the caller is active and allowed; a second administrator overlaps.
LEMMA ResolveDoes ==
  ASSUME TypeOK, InFlow, NEW t \in Threads, Resolve(t)
  PROVE  LET r == op[t].req IN
         /\ TypeOK' /\ Moves(t) /\ PastGrows /\ WellFormed(r)
         /\ op'[t].rest # <<>> =>
              /\ op'[t].req = r /\ op'[t].seen = users[r.by] /\ users[r.by].active
              /\ \/ /\ Head(op'[t].rest) = "check" /\ op'[t].user = r.by
                    /\ Raced(r.by) => r.by \in past'.raced
                 \/ /\ Head(op'[t].rest) = "target" /\ op'[t].user = r.user
                    /\ users[r.by].role = "admin"
                    /\ past'.overlapped \/ \A x \in Threads : ~Updating(x)
                 \/ Head(op'[t].rest) \in {"revoke_all", "register", "create_key", "revoke_key"}
<1> DEFINE r == op[t].req
           resolved == get_principal(r) /\ require_permission(r)
           about == IF Needed(r.kind) = "manage_users" THEN r.user ELSE r.by
<1>1. At(t, "resolve") /\ UNCHANGED <<now, users, sessions, keys, access, todo, audited>>
  BY DEF Resolve
<1>2. WellFormed(r) /\ op[t] \in Operation
  BY <1>1, WhoIsAt DEF At
<1>3. r.by \in Users /\ r.user \in Users /\ users[r.by] \in UserRow /\ about \in Users
  BY <1>2 DEF WellFormed, TypeOK
<1>4. CASE ~resolved
  <2>1. Finish(t) /\ past' = past
    BY <1>4 DEF Resolve
  <2>2. Moves(t) /\ op'[t].rest = <<>> /\ op' \in [Threads -> Operation] /\ PastGrows
    BY <2>1, FinishDoes, PastStays
  <2> QED
    BY <1>1, <1>2, <2>1, <2>2 DEF TypeOK
<1>5. CASE resolved
  <2>1. PICK a : a = Advanced(op[t])
    OBVIOUS
  <2>2. PICK u : u = about
    OBVIOUS
  <2>3. op' = [op EXCEPT ![t] = [a EXCEPT !.seen = users[r.by], !.user = u]]
    BY <1>5, <2>1, <2>2 DEF Resolve
  <2>4. a \in Operation
    BY <1>1, <2>1, AdvancedIs
  <2>5. PICK o : o = [a EXCEPT !.seen = users[r.by], !.user = u]
    OBVIOUS
  <2>6. /\ o \in Operation /\ o.rest = a.rest /\ o.req = a.req /\ o.ref = a.ref
        /\ o.user = u /\ o.seen = users[r.by]
    BY <1>3, <2>2, <2>4, <2>5 DEF Operation
  <2>7. /\ Moves(t) /\ op'[t] = o
        /\ o.rest # <<>> => /\ Goes(r.kind, "resolve", Head(o.rest))
                            /\ o.req = r
    <3>1. op' = [op EXCEPT ![t] = o]
      BY <2>3, <2>5
    <3>2. /\ o.rest = Advanced(op[t]).rest /\ o.req = Advanced(op[t]).req
          /\ o.ref = Advanced(op[t]).ref /\ (o.rest # <<>> => o.user \in Users)
      BY <1>3, <2>1, <2>2, <2>6
    <3> QED
      BY <1>1, <2>6, <3>1, <3>2, GoesOn
  <2>8. users[r.by].active
    BY <1>5 DEF get_principal, principal_from_access_token, principal_from_api_key
  <2> DEFINE meets == \E x \in Threads, step \in {"target", "set_role", "set_active"} : At(x, step)
             racers == {v \in {r.by} : r.kind = "password" /\ Raced(v)}
  <2>9. past' = [past EXCEPT !.raced = @ \cup racers,
                             !.overlapped = @ \/ (r.kind = "update_user" /\ meets)]
    BY <1>5 DEF Resolve
  <2>10. racers \subseteq Users /\ (r.kind = "password" /\ Raced(r.by) => r.by \in racers)
    BY <1>3
  <2>11. ~meets => \A x \in Threads : ~Updating(x)
    BY DEF Updating
  <2> HIDE DEF meets, racers
  <2>12. /\ past'.strikes = past.strikes /\ past'.locks = past.locks
         /\ past'.raced = past.raced \cup racers
         /\ past'.overlapped = (past.overlapped \/ (r.kind = "update_user" /\ meets))
         /\ past' = [strikes |-> past.strikes, locks |-> past.locks,
                     raced |-> past.raced \cup racers, overlapped |-> past'.overlapped]
    BY <2>9 DEF TypeOK, Past
  <2>13. PastGrows
    <3>1. past'.overlapped \in BOOLEAN
      BY <2>12
    <3>2. past \in Past
      BY DEF TypeOK
    <3>3. past' \in Past
      BY <2>10, <2>12, <3>1, <3>2 DEF Past
    <3> QED
      BY <2>12, <3>3 DEF PastGrows
  <2>14. TypeOK'
    BY <1>1, <2>7, <2>13 DEF TypeOK, Moves, PastGrows
  <2>15. ASSUME o.rest # <<>>
         PROVE  \/ /\ Head(o.rest) = "check" /\ o.user = r.by
                   /\ Raced(r.by) => r.by \in past'.raced
                \/ /\ Head(o.rest) = "target" /\ o.user = r.user
                   /\ users[r.by].role = "admin"
                   /\ past'.overlapped \/ \A x \in Threads : ~Updating(x)
                \/ Head(o.rest) \in {"revoke_all", "register", "create_key", "revoke_key"}
    <3>1. Goes(r.kind, "resolve", Head(o.rest))
      BY <2>7, <2>15
    <3>2. \/ Head(o.rest) = "check" /\ r.kind = "password"
          \/ Head(o.rest) = "target" /\ r.kind = "update_user"
          \/ Head(o.rest) \in {"revoke_all", "register", "create_key", "revoke_key"}
      BY <3>1 DEF Goes
    <3>3. CASE Head(o.rest) = "check" /\ r.kind = "password"
      <4>1. o.user = r.by
        BY <2>2, <2>6, <3>3 DEF Needed
      <4> QED
        BY <2>10, <2>12, <3>3, <4>1
    <3>4. CASE Head(o.rest) = "target" /\ r.kind = "update_user"
      <4>1. Needed(r.kind) = "manage_users"
        BY <3>4 DEF Needed
      <4>2. o.user = r.user
        BY <2>2, <2>6, <4>1
      <4>3. PICK scopes : "manage_users" \in Permissions(users[r.by].role, scopes)
        BY <1>5, <4>1 DEF require_permission
      <4>4. users[r.by].role = "admin"
        BY <1>3, <4>3, Managers DEF UserRow
      <4> QED
        BY <2>11, <2>12, <3>4, <4>2, <4>4
    <3> QED
      BY <3>2, <3>3, <3>4
  <2> QED
    BY <1>2, <2>6, <2>7, <2>8, <2>13, <2>14, <2>15
<1> QED
  BY <1>4, <1>5

\* A request that ends without a change of users or sessions.
Ends(t) == /\ Moves(t) /\ op'[t].rest = <<>>
           /\ UNCHANGED <<now, users, sessions, audited, past>>

\* A refused request ends.
LEMMA RejectionsDo ==
  ASSUME TypeOK, InFlow, NEW t \in Threads, RejectRole(t) \/ NameTaken(t)
  PROVE  TypeOK' /\ Ends(t)
<1>1. Finish(t) /\ UNCHANGED <<now, users, sessions, keys, access, todo, audited, past>>
  BY DEF RejectRole, NameTaken
<1>2. Moves(t) /\ op'[t].rest = <<>> /\ op' \in [Threads -> Operation]
  BY <1>1, FinishDoes
<1> QED
  BY <1>1, <1>2 DEF TypeOK, Ends

\* A new key, and the request ends.
LEMMA CreateKeyDoes ==
  ASSUME TypeOK, InFlow, NEW t \in Threads, CreateKey(t)
  PROVE  TypeOK' /\ Ends(t)
<1>1. UNCHANGED <<now, users, sessions, access, todo, audited, past>> /\ At(t, "create_key")
  BY DEF CreateKey
<1>2. Moves(t) /\ op'[t].rest = <<>> /\ op' \in [Threads -> Operation]
  BY FinishDoes DEF CreateKey
<1>3. PICK n : n = Cardinality(DOMAIN keys)
  OBVIOUS
<1>4. n \in Nat /\ keys \in [1..n -> ApiKey]
  BY <1>3 DEF TypeOK
<1>5. WellFormed(op[t].req) /\ op[t].user \in Users
  BY <1>1, WhoIsAt DEF At
<1>6. PICK row : row = [user |-> op[t].user, scopes |-> op[t].req.scopes, active |-> TRUE,
                        expires |-> now + op[t].req.new]
  OBVIOUS
<1>7. row \in ApiKey
  <2>1. now + op[t].req.new \in Nat
    BY <1>5 DEF WellFormed, TypeOK
  <2>2. op[t].req.scopes \in SUBSET Grants.admin
    BY <1>5 DEF WellFormed
  <2> QED
    BY <1>5, <1>6, <2>1, <2>2 DEF ApiKey
<1>8. keys' = [i \in 1..(n + 1) |-> IF i = n + 1 THEN row ELSE keys[i]]
  BY <1>3, <1>6 DEF CreateKey
<1>9. keys' \in [1..(n + 1) -> ApiKey] /\ DOMAIN keys' = 1..(n + 1)
  BY <1>4, <1>7, <1>8
<1>10. Cardinality(DOMAIN keys') = n + 1
  <2>1. n + 1 \in Int /\ ~(1 > n + 1) /\ (n + 1) - 1 + 1 = n + 1
    BY <1>4
  <2> QED
    BY <1>9, <2>1, FS_Interval
<1>11. keys' \in [1..Cardinality(DOMAIN keys') -> ApiKey] /\ Cardinality(DOMAIN keys') \in Nat
  BY <1>4, <1>9, <1>10
<1>12. TypeOK'
  BY <1>1, <1>2, <1>11 DEF TypeOK
<1> QED
  BY <1>1, <1>2, <1>12 DEF Ends

\* A key of the caller's own is revoked, or nothing is, and the request ends.
LEMMA RevokeKeyDoes ==
  ASSUME TypeOK, InFlow, NEW t \in Threads, RevokeKey(t)
  PROVE  TypeOK' /\ Ends(t)
<1>1. UNCHANGED <<now, users, sessions, access, todo, audited, past>>
  BY DEF RevokeKey
<1>2. Moves(t) /\ op'[t].rest = <<>> /\ op' \in [Threads -> Operation]
  BY FinishDoes DEF RevokeKey
<1>3. PICK n : n = Cardinality(DOMAIN keys)
  OBVIOUS
<1>4. n \in Nat /\ keys \in [1..n -> ApiKey]
  BY <1>3 DEF TypeOK
<1>5. PICK k : keys' = [keys EXCEPT ![k].active = FALSE] \/ keys' = keys
  BY DEF RevokeKey
<1>6. keys' \in [1..n -> ApiKey]
  <2>1. \A r \in ApiKey : [r EXCEPT !.active = FALSE] \in ApiKey
    BY DEF ApiKey
  <2>2. CASE keys' = keys
    BY <1>4, <2>2
  <2>3. CASE keys' = [keys EXCEPT ![k].active = FALSE]
    <3>1. keys' = [x \in 1..n |-> keys'[x]]
      BY <1>4, <2>3
    <3>2. \A x \in 1..n : keys'[x] = IF x = k THEN [keys[k] EXCEPT !.active = FALSE] ELSE keys[x]
      BY <1>4, <2>3
    <3> QED
      BY <1>4, <2>1, <3>1, <3>2
  <2> QED
    BY <1>5, <2>2, <2>3
<1>7. DOMAIN keys' = 1..n /\ DOMAIN keys = 1..n
  BY <1>4, <1>6
<1>8. TypeOK'
  BY <1>1, <1>2, <1>3, <1>4, <1>6, <1>7 DEF TypeOK
<1> QED
  BY <1>1, <1>2, <1>8 DEF Ends

\* An administrator who changes their own account keeps role and access.
LEMMA UpdateTargetDoes ==
  ASSUME TypeOK, InFlow, NEW t \in Threads, UpdateTarget(t)
  PROVE  LET r == op[t].req IN
         /\ TypeOK' /\ Moves(t)
         /\ op'[t].rest # <<>> =>
              /\ Head(op'[t].rest) = "set_role" /\ users[r.user].exists
              /\ op'[t].req = r /\ op'[t].user = op[t].user
              /\ r.by = r.user => r.active # "no" /\ r.role \in {"keep", users[r.user].role}
<1> DEFINE r == op[t].req
<1>1. At(t, "target") /\ UNCHANGED <<now, users, sessions, keys, access, todo, audited, past>>
  BY DEF UpdateTarget
<1>2. WellFormed(r) /\ op[t] \in Operation /\ op[t].user \in Users
  BY <1>1, WhoIsAt DEF At
<1>3. users[r.user] \in UserRow
  BY <1>2 DEF WellFormed, TypeOK
<1>4. CASE ~users[r.user].exists \/ OwnAccount(r)
  <2>1. Moves(t) /\ op'[t].rest = <<>> /\ op' \in [Threads -> Operation]
    BY <1>4, FinishDoes DEF UpdateTarget
  <2> QED
    BY <1>1, <2>1 DEF TypeOK
<1>5. CASE ~(~users[r.user].exists \/ OwnAccount(r))
  <2>1. PICK a : a = Advanced(op[t])
    OBVIOUS
  <2>2. op' = [op EXCEPT ![t] = [a EXCEPT !.seen = users[r.user]]]
    BY <1>5, <2>1 DEF UpdateTarget
  <2>3. a \in Operation /\ (a.rest # <<>> => a.user = op[t].user)
    BY <1>1, <2>1, AdvancedIs DEF Onward, Idle
  <2>4. PICK o : o = [a EXCEPT !.seen = users[r.user]]
    OBVIOUS
  <2>5. /\ o \in Operation /\ o.rest = a.rest /\ o.req = a.req /\ o.ref = a.ref
        /\ o.user = a.user
    BY <1>3, <2>3, <2>4 DEF Operation
  <2>6. /\ Moves(t) /\ op'[t] = o
        /\ o.rest # <<>> => Goes(r.kind, "target", Head(o.rest)) /\ o.req = r
    <3>1. op' = [op EXCEPT ![t] = o]
      BY <2>2, <2>4
    <3>2. /\ o.rest = Advanced(op[t]).rest /\ o.req = Advanced(op[t]).req
          /\ o.ref = Advanced(op[t]).ref /\ (o.rest # <<>> => o.user \in Users)
      BY <1>2, <2>1, <2>3, <2>5
    <3> QED
      BY <1>1, <2>5, <3>1, <3>2, GoesOn
  <2>7. o.rest # <<>> => Head(o.rest) = "set_role"
    BY <2>6 DEF Goes
  <2>8. TypeOK'
    BY <1>1, <2>6 DEF TypeOK, Moves
  <2>9. users[r.user].exists
        /\ (r.by = r.user => r.active # "no" /\ r.role \in {"keep", users[r.user].role})
    BY <1>5 DEF OwnAccount
  <2> QED
    BY <2>3, <2>5, <2>6, <2>7, <2>8, <2>9
<1> QED
  BY <1>4, <1>5

\* The role is written, and no other column.
LEMMA SetRoleDoes ==
  ASSUME TypeOK, InFlow, NEW t \in Threads, SetRole(t)
  PROVE  LET r == op[t].req
             u == r.user IN
         /\ TypeOK' /\ Moves(t) /\ u \in Users /\ UserOnly(u)
         /\ users'[u].exists = users[u].exists /\ users'[u].active = users[u].active
         /\ users'[u].pw = users[u].pw /\ users'[u].failed = users[u].failed
         /\ users'[u].locked = users[u].locked
         /\ users'[u].role \in (IF r.role = "keep" THEN {users[u].role}
                                ELSE {r.role, users[u].role})
         /\ op'[t].rest # <<>> =>
              /\ Head(op'[t].rest) = "set_active" /\ r.active # "keep"
              /\ op'[t].req = r /\ op'[t].user = op[t].user
<1> DEFINE r == op[t].req
           u == r.user
           seen == op[t].seen
           changed == [seen EXCEPT !.role = IF r.role = "keep" THEN @ ELSE r.role]
<1>1. At(t, "set_role") /\ ValidRole(r.role)
      /\ UNCHANGED <<now, sessions, keys, access, todo, audited, past>>
  BY DEF SetRole
<1>2. WellFormed(r) /\ op[t] \in Operation /\ op[t].user \in Users
  BY <1>1, WhoIsAt DEF At
<1>3. u \in Users /\ users[u] \in UserRow /\ seen \in UserRow /\ users \in [Users -> UserRow]
  BY <1>2 DEF WellFormed, TypeOK, Operation
<1>4. PICK new : new = changed
  OBVIOUS
<1>5. /\ new \in UserRow /\ new.exists = seen.exists /\ new.active = seen.active
      /\ new.pw = seen.pw /\ new.failed = seen.failed /\ new.locked = seen.locked
      /\ new.role = IF r.role = "keep" THEN seen.role ELSE r.role
  <2>1. PICK role : role = IF r.role = "keep" THEN seen.role ELSE r.role
    OBVIOUS
  <2>2. role \in DOMAIN Grants
    BY <1>1, <1>3, <2>1 DEF ValidRole, UserRow
  <2>3. new = [seen EXCEPT !.role = role]
    BY <1>4, <2>1
  <2> QED
    BY <1>3, <2>1, <2>2, <2>3 DEF UserRow
<1>6. PICK row : row = Flushed(users[u], seen, new)
  OBVIOUS
<1>7. /\ row \in UserRow /\ row.exists = users[u].exists /\ row.active = users[u].active
      /\ row.pw = users[u].pw /\ row.failed = users[u].failed /\ row.locked = users[u].locked
      /\ row.role = IF new.role # seen.role THEN new.role ELSE users[u].role
  BY <1>3, <1>5, <1>6, FlushedIs
<1>8. users' = [users EXCEPT ![u] = row]
  BY <1>4, <1>6 DEF SetRole
<1>9. users' \in [Users -> UserRow] /\ users'[u] = row /\ UserOnly(u)
  BY <1>3, <1>7, <1>8 DEF UserOnly
<1>10. users'[u].role \in (IF r.role = "keep" THEN {users[u].role} ELSE {r.role, users[u].role})
  BY <1>5, <1>7, <1>9
<1>11. /\ Moves(t)
       /\ op'[t].rest # <<>> =>
              /\ Head(op'[t].rest) = "set_active" /\ r.active # "keep"
              /\ op'[t].req = r /\ op'[t].user = op[t].user
  <2>1. CASE r.active = "keep"
    <3>1. Finish(t)
      BY <2>1 DEF SetRole
    <3> QED
      BY <3>1, FinishDoes
  <2>2. CASE r.active # "keep"
    <3>1. PICK a : a = Advanced(op[t])
      OBVIOUS
    <3>2. op' = [op EXCEPT ![t] = [a EXCEPT !.seen = users'[u]]]
      BY <2>2, <3>1 DEF SetRole
    <3>3. a \in Operation /\ (a.rest # <<>> => a.user = op[t].user)
      BY <1>1, <3>1, AdvancedIs DEF Onward, Idle
    <3>4. PICK o : o = [a EXCEPT !.seen = users'[u]]
      OBVIOUS
    <3>5. /\ o \in Operation /\ o.rest = a.rest /\ o.req = a.req /\ o.ref = a.ref
          /\ o.user = a.user
      BY <1>7, <1>9, <3>3, <3>4 DEF Operation
    <3>6. /\ Moves(t) /\ op'[t] = o
          /\ o.rest # <<>> => Goes(r.kind, "set_role", Head(o.rest)) /\ o.req = r
      <4>1. op' = [op EXCEPT ![t] = o]
        BY <3>2, <3>4
      <4>2. /\ o.rest = Advanced(op[t]).rest /\ o.req = Advanced(op[t]).req
            /\ o.ref = Advanced(op[t]).ref /\ (o.rest # <<>> => o.user \in Users)
        BY <1>2, <3>1, <3>3, <3>5
      <4> QED
        BY <1>1, <3>5, <4>1, <4>2, GoesOn
    <3>7. o.rest # <<>> => Head(o.rest) = "set_active"
      BY <3>6 DEF Goes
    <3> QED
      BY <2>2, <3>3, <3>5, <3>6, <3>7
  <2> QED
    BY <2>1, <2>2
<1>12. TypeOK'
  BY <1>1, <1>9, <1>11 DEF TypeOK, Moves
<1> QED
  BY <1>3, <1>7, <1>9, <1>10, <1>11, <1>12

\* The active flag is written, and no other column; a deactivation revokes next.
LEMMA SetActiveDoes ==
  ASSUME TypeOK, InFlow, NEW t \in Threads, SetActive(t)
  PROVE  LET r == op[t].req
             u == r.user IN
         /\ TypeOK' /\ Moves(t) /\ u \in Users /\ UserOnly(u) /\ WellFormed(r)
         /\ users'[u].exists = users[u].exists /\ users'[u].role = users[u].role
         /\ users'[u].pw = users[u].pw /\ users'[u].failed = users[u].failed
         /\ users'[u].locked = users[u].locked
         /\ r.active # "no" => (users[u].active => users'[u].active) \/ r.active = "keep"
         /\ r.active = "no" => /\ op'[t].rest # <<>> /\ Head(op'[t].rest) = "revoke_all"
                               /\ op'[t].user = op[t].user
         /\ op'[t].rest # <<>> => Head(op'[t].rest) = "revoke_all"
<1> DEFINE r == op[t].req
           u == r.user
           seen == op[t].seen
<1>1. At(t, "set_active")
      /\ UNCHANGED <<now, sessions, keys, access, todo, audited, past>>
  BY DEF SetActive
<1>2. WellFormed(r) /\ op[t] \in Operation /\ op[t].user \in Users
  BY <1>1, WhoIsAt DEF At
<1>3. u \in Users /\ users[u] \in UserRow /\ seen \in UserRow /\ users \in [Users -> UserRow]
      /\ r.active \in {"keep", "yes", "no"}
  BY <1>2 DEF WellFormed, TypeOK, Operation
<1>4. PICK yes \in BOOLEAN : yes = (r.active = "yes")
  OBVIOUS
<1>5. PICK new : new = [seen EXCEPT !.active = (r.active = "yes")]
  OBVIOUS
<1>6. /\ new \in UserRow /\ new.exists = seen.exists /\ new.role = seen.role
      /\ new.pw = seen.pw /\ new.failed = seen.failed /\ new.locked = seen.locked
      /\ new.active = (r.active = "yes")
  BY <1>3, <1>5 DEF UserRow
<1>7. PICK row : row = Flushed(users[u], seen, new)
  OBVIOUS
<1>8. /\ row \in UserRow /\ row.exists = users[u].exists /\ row.role = users[u].role
      /\ row.pw = users[u].pw /\ row.failed = users[u].failed /\ row.locked = users[u].locked
      /\ row.active = IF new.active # seen.active THEN new.active ELSE users[u].active
  BY <1>3, <1>6, <1>7, FlushedIs
<1>9. users' = [users EXCEPT ![u] = row]
  BY <1>5, <1>7 DEF SetActive
<1>10. users' \in [Users -> UserRow] /\ users'[u] = row /\ UserOnly(u)
  BY <1>3, <1>8, <1>9 DEF UserOnly
<1>11. r.active # "no" => (users[u].active => users'[u].active) \/ r.active = "keep"
  BY <1>3, <1>6, <1>8, <1>10
<1>12. CASE r.active = "no"
  <2>1. Advance(t)
    BY <1>12 DEF SetActive
  <2>2. /\ Moves(t)
        /\ op'[t].rest # <<>> => /\ Goes(r.kind, "set_active", Head(op'[t].rest))
                                 /\ op'[t].user = op[t].user
    BY <1>1, <2>1, AdvanceMoves
  <2>3. op'[t].rest # <<>>
    <3>1. PICK next \in Steps \cup {"end"} :
             /\ Goes(r.kind, "set_active", next) /\ Onward(t, Advanced(op[t]), next)
      BY <1>1, AdvancedIs
    <3>2. next # "end"
      BY <3>1 DEF Goes
    <3>3. op'[t] = Advanced(op[t])
      BY <2>1 DEF Advance, TypeOK
    <3> QED
      BY <3>1, <3>2, <3>3 DEF Onward
  <2>4. Head(op'[t].rest) = "revoke_all"
    BY <2>2, <2>3 DEF Goes
  <2>5. TypeOK'
    BY <1>1, <1>10, <2>2 DEF TypeOK, Moves
  <2> QED
    BY <1>2, <1>3, <1>8, <1>10, <1>11, <1>12, <2>2, <2>3, <2>4, <2>5
<1>13. CASE r.active # "no"
  <2>1. Finish(t)
    BY <1>13 DEF SetActive
  <2>2. Moves(t) /\ op'[t].rest = <<>> /\ op' \in [Threads -> Operation]
    BY <2>1, FinishDoes
  <2>3. TypeOK'
    BY <1>1, <1>10, <2>2 DEF TypeOK
  <2> QED
    BY <1>2, <1>3, <1>8, <1>10, <1>11, <1>13, <2>2, <2>3
<1> QED
  BY <1>12, <1>13

\* A free name and a valid role lead to the insertion.
LEMMA NameFreeDoes ==
  ASSUME TypeOK, InFlow, NEW t \in Threads, NameFree(t)
  PROVE  /\ TypeOK' /\ Moves(t)
         /\ op'[t].rest # <<>> => /\ Head(op'[t].rest) = "insert"
                                  /\ op'[t].req.role \in DOMAIN Grants
<1>1. At(t, "register") /\ ValidRole(op[t].req.role)
      /\ UNCHANGED <<now, users, sessions, keys, access, todo, audited, past>>
  BY DEF NameFree
<1>2. /\ Moves(t)
      /\ op'[t].rest # <<>> => /\ Goes(op[t].req.kind, "register", Head(op'[t].rest))
                               /\ op'[t].req = op[t].req
  BY <1>1, AdvanceMoves DEF NameFree
<1>3. op'[t].rest # <<>> => /\ Head(op'[t].rest) = "insert"
                            /\ op[t].req.kind \in {"register", "create_user"}
  BY <1>2 DEF Goes
<1>4. WellFormed(op[t].req)
  BY <1>1, WhoIsAt DEF At
<1>5. op[t].req.kind \in {"register", "create_user"} => op[t].req.role \in DOMAIN Grants
  BY <1>1, <1>4 DEF WellFormed, ValidRole
<1>6. TypeOK'
  BY <1>1, <1>2 DEF TypeOK, Moves
<1> QED
  BY <1>2, <1>3, <1>5, <1>6

\* The new row takes the place of none.
LEMMA InsertUserDoes ==
  ASSUME TypeOK, InFlow, FoundOut, NEW t \in Threads, InsertUser(t)
  PROVE  LET u == op[t].user IN
         /\ TypeOK' /\ Moves(t) /\ op'[t].rest = <<>> /\ u \in Users /\ UserOnly(u)
         /\ users[u] = NoUser
         /\ users'[u].exists /\ users'[u].active /\ users'[u].pw = users[u].pw
         /\ users'[u].failed = users[u].failed /\ users'[u].locked = users[u].locked
<1> DEFINE u == op[t].user
<1>1. At(t, "insert") /\ ~users[u].exists
      /\ UNCHANGED <<now, sessions, keys, access, todo, audited, past>>
  BY DEF InsertUser
<1>2. u \in Users /\ users \in [Users -> UserRow]
  BY <1>1, WhoIsAt DEF At, TypeOK
<1>3. users[u] = NoUser /\ op[t].req.role \in DOMAIN Grants
  BY <1>1, <1>2 DEF FoundOut, Found
<1>4. PICK role \in DOMAIN Grants : role = op[t].req.role
  BY <1>3
<1>5. PICK row : row = [NoUser EXCEPT !.exists = TRUE, !.active = TRUE, !.role = role]
  OBVIOUS
<1>6. /\ row \in UserRow /\ row.exists /\ row.active /\ row.pw = 0 /\ row.failed = 0
      /\ row.locked = 0
  BY <1>5 DEF NoUser, UserRow
<1>7. users' = [users EXCEPT ![u] = row]
  BY <1>4, <1>5 DEF InsertUser
<1>8. users' \in [Users -> UserRow] /\ users'[u] = row /\ UserOnly(u)
  BY <1>2, <1>6, <1>7 DEF UserOnly
<1>9. Moves(t) /\ op'[t].rest = <<>> /\ op' \in [Threads -> Operation]
  BY FinishDoes DEF InsertUser
<1>10. TypeOK'
  BY <1>1, <1>8, <1>9 DEF TypeOK
<1>11. users[u].pw = 0 /\ users[u].failed = 0 /\ users[u].locked = 0
  BY <1>3 DEF NoUser
<1> QED
  BY <1>2, <1>3, <1>6, <1>8, <1>9, <1>10, <1>11

\* A request begins in an idle thread, with a step that has found out nothing yet.
LEMMA BeginDoes ==
  ASSUME TypeOK, InFlow, NEW t \in Threads, NEW r \in todo, Begin(t, r)
  PROVE  /\ TypeOK' /\ Moves(t) /\ op[t].rest = <<>>
         /\ op'[t].rest # <<>> => Head(op'[t].rest) \in {"load", "session", "resolve", "register"}
<1>1. op[t] = Idle /\ todo' = todo \ {r}
      /\ UNCHANGED <<now, users, sessions, keys, access, audited, past>>
  BY DEF Begin
<1>2. r \in AllRequests
  BY DEF TypeOK
<1>3. WellFormed(r)
  BY <1>2, AccountsAssumption
<1>4. r.kind \in Kinds /\ r.user \in Users /\ r.ref \in Nat
  BY <1>3 DEF WellFormed
<1>5. PICK f : f = Handler(r.kind)
  OBVIOUS
<1>6. f \in Seq(Steps) /\ FlowOf(r.kind, f) /\ f # <<>>
      /\ Head(f) \in {"load", "session", "resolve", "register"}
  BY <1>4, <1>5, HandlersFlow
<1>7. PICK i : i = Idle
  OBVIOUS
<1>8. PICK o : o = [i EXCEPT !.rest = f, !.req = r, !.user = r.user, !.ref = r.ref]
  OBVIOUS
<1>9. i \in Operation /\ i.rest = <<>>
  BY <1>7, IdleIs DEF Idle
<1>10. o \in Operation /\ o.rest = f /\ o.req = r /\ o.user = r.user /\ o.ref = r.ref
  BY <1>2, <1>4, <1>6, <1>8, <1>9 DEF Operation
<1>11. op' = [op EXCEPT ![t] = o]
  BY <1>5, <1>7, <1>8 DEF Begin
<1>12. FlowOf(o.req.kind, o.rest)
  BY <1>6, <1>10
<1>13. Moves(t) /\ op'[t] = o
  BY <1>2, <1>4, <1>10, <1>11, <1>12, FlowFrame
<1>14. TypeOK'
  BY <1>1, <1>13 DEF TypeOK, Moves
<1> QED
  BY <1>1, <1>6, <1>7, <1>9, <1>10, <1>13, <1>14

\* The clock moves alone.
LEMMA TickDoes ==
  ASSUME TypeOK, InFlow, Tick
  PROVE  TypeOK' /\ InFlow' /\ UNCHANGED <<users, sessions, op, audited, past>> /\ now <= now'
<1>1. now' = now + 1 /\ UNCHANGED <<users, sessions, keys, access, op, todo, audited, past>>
  BY DEF Tick
<1>2. now' \in Nat \ {0} /\ now <= now'
  BY <1>1 DEF TypeOK
<1>3. InFlow'
  BY <1>1 DEF InFlow
<1> QED
  BY <1>1, <1>2, <1>3 DEF TypeOK

-----------------------------------------------------------------------------
(* Tokens are rotated once. *)

\* Sessions that are not written are kept.
LEMMA SessionsStay ==
  ASSUME TypeOK, sessions' = sessions
  PROVE  SessionsKept
BY DEF SessionsKept

\* No session is new, and no thread comes to claim one.
LEMMA RotationKept ==
  ASSUME TypeOK, ClaimsExclusive, SingleRotation, SessionsKept,
         \A x \in Threads :
            /\ At(x, "claim")' \/ At(x, "logout")' => op'[x].ref \in DOMAIN sessions
            /\ Claimed(x)' => Claimed(x) /\ op'[x].ref = op[x].ref
  PROVE  ClaimsExclusive' /\ SingleRotation'
<1> USE DEF SessionsKept
<1>1. \A s \in DOMAIN sessions' : sessions'[s].parent \in {0} \cup DOMAIN sessions'
  BY DEF ClaimsExclusive
<1>2. ASSUME NEW x \in Threads
      PROVE  Holds(x)'
  <2>1. At(x, "claim")' \/ At(x, "logout")' \/ Claimed(x)' => op'[x].ref \in DOMAIN sessions'
    BY DEF ClaimsExclusive, Holds
  <2>2. ASSUME Claimed(x)'
        PROVE  sessions'[op'[x].ref].revoked
               /\ \A s \in DOMAIN sessions' : sessions'[s].parent # op'[x].ref
    BY <2>2 DEF ClaimsExclusive, Holds, Live
  <2> QED
    BY <2>1, <2>2 DEF Holds, Live
<1>3. \A t, x \in Threads : Claimed(t)' /\ Claimed(x)' /\ op'[t].ref = op'[x].ref => t = x
  BY DEF ClaimsExclusive
<1>4. SingleRotation'
  <2> SUFFICES ASSUME NEW s \in DOMAIN sessions, sessions[s].parent # 0
               PROVE  /\ sessions'[sessions[s].parent].revoked
                      /\ \A o \in DOMAIN sessions : sessions[o].parent = sessions[s].parent => o = s
    BY DEF SingleRotation, Live
  <2> QED
    BY DEF SingleRotation, Live, ClaimsExclusive
<1> QED
  BY <1>1, <1>2, <1>3, <1>4 DEF ClaimsExclusive

\* The thread that moves comes neither to a claim nor to a logout.
LEMMA RotationAway ==
  ASSUME TypeOK, ClaimsExclusive, SingleRotation, SessionsKept, NEW t \in Threads, Moves(t),
         \/ Away(t, {"claim", "logout", "account", "issue"})
         \/ op'[t].req.kind # "refresh" /\ Away(t, {"claim", "logout", "account"})
  PROVE  ClaimsExclusive' /\ SingleRotation'
<1>1. ASSUME NEW x \in Threads, x # t
      PROVE  /\ At(x, "claim")' \/ At(x, "logout")' => op'[x].ref \in DOMAIN sessions
             /\ Claimed(x)' => Claimed(x) /\ op'[x].ref = op[x].ref
  <2>1. op'[x] = op[x]
    BY <1>1 DEF Moves, Others
  <2> QED
    BY <2>1 DEF ClaimsExclusive, Holds, At, Claimed
<1>2. ~At(t, "claim")' /\ ~At(t, "logout")' /\ ~Claimed(t)'
  BY DEF Away, At, Claimed
<1> QED
  BY <1>1, <1>2, RotationKept

\* No step of a request gives a session a second successor or claims it twice.
LEMMA RotationStep ==
  ASSUME TypeOK, InFlow, FoundOut, ClaimsExclusive, SingleRotation, NEW t \in Threads, Step(t)
  PROVE  ClaimsExclusive' /\ SingleRotation'
<1>1. CASE LoginLoad(t)
  BY <1>1, LoginLoadDoes, RotationAway, SessionsStay DEF LoginLoad, Away
<1>2. CASE CheckLock(t)
  BY <1>2, CheckLockDoes, RotationAway, SessionsStay DEF CheckLock, Away
<1>3. CASE WrongPassword(t)
  BY <1>3, WrongPasswordDoes, RotationAway, SessionsStay DEF WrongPassword, Away
<1>4. CASE AuditLock(t)
  BY <1>4, AuditLockDoes, RotationAway, SessionsStay DEF AuditLock, Away
<1>5. CASE RightPassword(t)
  BY <1>5, RightPasswordDoes, RotationAway, SessionsStay DEF RightPassword, Away
<1>6. CASE Issue(t)
  <2>1. PICK n \in DOMAIN sessions' :
          /\ n \notin DOMAIN sessions /\ DOMAIN sessions' = DOMAIN sessions \cup {n}
          /\ \A i \in DOMAIN sessions : sessions'[i] = sessions[i]
          /\ sessions'[n].parent = op[t].ref
    BY <1>6, IssueDoes
  <2>2. Moves(t) /\ op'[t].rest = <<>> /\ TypeOK' /\ At(t, "issue")
    BY <1>6, IssueDoes DEF Issue
  <2>3. op[t].ref = 0 \/ Claimed(t)
    <3>1. op[t].ref = op[t].req.ref /\ WellFormed(op[t].req)
      BY <2>2, WhoIsAt DEF At
    <3>2. op[t].req.kind \in {"login", "refresh"}
      <4>1. PICK next : Goes(op[t].req.kind, "issue", next)
        BY <2>2, AdvancedIs
      <4> QED
        BY <4>1 DEF Goes
    <3> QED
      BY <2>2, <3>1, <3>2 DEF WellFormed, Claimed
  <2>4. op[t].ref \in {0} \cup DOMAIN sessions
        /\ (op[t].ref # 0 => sessions[op[t].ref].revoked
              /\ \A s \in DOMAIN sessions : sessions[s].parent # op[t].ref)
    BY <2>3 DEF ClaimsExclusive, Holds, Live
  <2>5. ASSUME NEW x \in Threads, Claimed(x)' \/ At(x, "claim")' \/ At(x, "logout")'
        PROVE  /\ x # t /\ op'[x] = op[x] /\ op[x].ref \in DOMAIN sessions /\ op[x].ref # 0
               /\ Claimed(x)' => Claimed(x)
    <3>1. x # t
      BY <2>2, <2>5 DEF Claimed, At
    <3>2. op'[x] = op[x]
      BY <2>2, <3>1 DEF Moves, Others
    <3>3. Claimed(x) \/ At(x, "claim") \/ At(x, "logout")
      BY <2>5, <3>2 DEF Claimed, At
    <3>4. op[x].ref \in DOMAIN sessions
      BY <3>3 DEF ClaimsExclusive, Holds
    <3>5. op[x].ref # 0
      BY <3>4, SessionsAre
    <3> QED
      BY <3>1, <3>2, <3>4, <3>5 DEF Claimed, At
  <2>6. \A s \in DOMAIN sessions : s # 0
    BY SessionsAre
  <2>7. \A s \in DOMAIN sessions' : sessions'[s].parent \in {0} \cup DOMAIN sessions'
    BY <2>1, <2>4 DEF ClaimsExclusive
  <2>8. ASSUME NEW x \in Threads
        PROVE  Holds(x)'
    <3>1. At(x, "claim")' \/ At(x, "logout")' \/ Claimed(x)' => op'[x].ref \in DOMAIN sessions'
      BY <2>1, <2>5
    <3>2. ASSUME Claimed(x)'
          PROVE  sessions'[op'[x].ref].revoked
                 /\ \A s \in DOMAIN sessions' : sessions'[s].parent # op'[x].ref
      <4>1. /\ x # t /\ op'[x].ref = op[x].ref /\ op[x].ref \in DOMAIN sessions
            /\ op[x].ref # 0 /\ Claimed(x)
        BY <2>5, <3>2
      <4>2. sessions[op[x].ref].revoked /\ \A s \in DOMAIN sessions : sessions[s].parent # op[x].ref
        BY <4>1 DEF ClaimsExclusive, Holds, Live
      <4>3. op[t].ref # op[x].ref
        BY <2>3, <4>1 DEF ClaimsExclusive
      <4> QED
        BY <2>1, <4>1, <4>2, <4>3
    <3> QED
      BY <3>1, <3>2 DEF Holds, Live
  <2>9. \A y, x \in Threads : Claimed(y)' /\ Claimed(x)' /\ op'[y].ref = op'[x].ref => y = x
    BY <2>5 DEF ClaimsExclusive
  <2>10. ASSUME NEW s \in DOMAIN sessions', sessions'[s].parent # 0
         PROVE  /\ sessions'[sessions'[s].parent].revoked
                /\ \A o \in DOMAIN sessions' : sessions'[o].parent = sessions'[s].parent => o = s
    <3>1. CASE s = n
      BY <2>1, <2>4, <2>10, <3>1
    <3>2. CASE s \in DOMAIN sessions
      <4>1. sessions[s].parent \in DOMAIN sessions
        BY <2>1, <2>10, <3>2 DEF ClaimsExclusive
      <4>2. sessions[sessions[s].parent].revoked
            /\ \A o \in DOMAIN sessions : sessions[o].parent = sessions[s].parent => o = s
        BY <2>1, <2>10, <3>2 DEF SingleRotation, Live
      <4> QED
        BY <2>1, <2>4, <2>10, <3>2, <4>1, <4>2
    <3> QED
      BY <2>1, <3>1, <3>2
  <2> QED
    BY <2>7, <2>8, <2>9, <2>10 DEF ClaimsExclusive, SingleRotation, Live
<1>7. CASE SessionLoad(t)
  <2>1. Moves(t) /\ SessionsKept
    BY <1>7, SessionLoadDoes, SessionsStay DEF SessionLoad
  <2>2. op'[t].rest # <<>> => Head(op'[t].rest) \in {"claim", "logout"}
                              /\ op'[t].ref \in DOMAIN sessions
    BY <1>7, SessionLoadDoes
  <2>3. ASSUME NEW x \in Threads
        PROVE  /\ At(x, "claim")' \/ At(x, "logout")' => op'[x].ref \in DOMAIN sessions
               /\ Claimed(x)' => Claimed(x) /\ op'[x].ref = op[x].ref
    <3>1. CASE x = t
      BY <2>2, <3>1 DEF At, Claimed
    <3>2. CASE x # t
      <4>1. op'[x] = op[x]
        BY <2>1, <3>2 DEF Moves, Others
      <4> QED
        BY <4>1 DEF ClaimsExclusive, Holds, At, Claimed
    <3> QED
      BY <3>1, <3>2
  <2> QED
    BY <2>1, <2>3, RotationKept
<1>8. CASE Claim(t)
  <2> DEFINE s == op[t].ref
  <2>1. /\ Moves(t) /\ SessionsKept /\ (s \in DOMAIN sessions => sessions'[s].revoked)
        /\ op'[t].rest # <<>> =>
              \/ Head(op'[t].rest) = "revoke_all"
              \/ Head(op'[t].rest) = "account" /\ Live(s) /\ op'[t].ref = s
    BY <1>8, ClaimDoes
  <2>2. s \in DOMAIN sessions /\ s # 0
    <3>1. At(t, "claim")
      BY <1>8 DEF Claim
    <3>2. s \in DOMAIN sessions
      BY <3>1 DEF ClaimsExclusive, Holds
    <3> QED
      BY <3>2, SessionsAre
  <2>3. CASE op'[t].rest # <<>> /\ Head(op'[t].rest) = "account"
    <3>1. Live(s) /\ op'[t].ref = s
      BY <2>1, <2>3
    <3>2. ASSUME NEW x \in Threads, x # t
          PROVE  /\ op'[x] = op[x]
                 /\ At(x, "claim")' \/ At(x, "logout")' => op'[x].ref \in DOMAIN sessions
                 /\ Claimed(x)' => Claimed(x) /\ op[x].ref # s
      <4>1. op'[x] = op[x]
        BY <2>1, <3>2 DEF Moves, Others
      <4> QED
        BY <3>1, <4>1 DEF ClaimsExclusive, Holds, At, Claimed, Live
    <3>3. \A o \in DOMAIN sessions : sessions[o].parent # s
      BY <2>2, <3>1 DEF SingleRotation
    <3>4. /\ DOMAIN sessions' = DOMAIN sessions
          /\ \A o \in DOMAIN sessions : /\ sessions'[o].parent = sessions[o].parent
                                        /\ sessions[o].revoked => sessions'[o].revoked
      BY <2>1 DEF SessionsKept
    <3>5. ~At(t, "claim")' /\ ~At(t, "logout")'
      BY <2>3 DEF At
    <3>6. ASSUME NEW x \in Threads
          PROVE  Holds(x)'
      <4>1. CASE x = t
        BY <2>1, <2>2, <3>1, <3>3, <3>4, <4>1 DEF Holds, Live
      <4>2. CASE x # t
        <5>1. op'[x] = op[x] /\ (Claimed(x)' => Claimed(x))
              /\ (At(x, "claim")' \/ At(x, "logout")' => op'[x].ref \in DOMAIN sessions)
          BY <3>2, <4>2
        <5>2. Claimed(x) => /\ op[x].ref \in DOMAIN sessions /\ sessions[op[x].ref].revoked
                            /\ \A o \in DOMAIN sessions : sessions[o].parent # op[x].ref
          BY DEF ClaimsExclusive, Holds, Live
        <5> QED
          BY <3>4, <5>1, <5>2 DEF Holds, Live
      <4> QED
        BY <4>1, <4>2
    <3>7. ASSUME NEW y \in Threads, NEW x \in Threads, Claimed(y)', Claimed(x)',
                 op'[y].ref = op'[x].ref
          PROVE  y = x
      BY <3>1, <3>2, <3>7 DEF ClaimsExclusive
    <3>8. SingleRotation'
      BY <3>4 DEF SingleRotation, Live, ClaimsExclusive
    <3>9. \A o \in DOMAIN sessions' : sessions'[o].parent \in {0} \cup DOMAIN sessions'
      BY <3>4 DEF ClaimsExclusive
    <3> QED
      BY <3>6, <3>7, <3>8, <3>9 DEF ClaimsExclusive
  <2>4. CASE ~(op'[t].rest # <<>> /\ Head(op'[t].rest) = "account")
    <3>1. Away(t, {"claim", "logout", "account", "issue"})
      BY <2>1, <2>4 DEF Away
    <3>2. Moves(t) /\ SessionsKept
      BY <2>1
    <3> QED
      BY <3>1, <3>2, RotationAway DEF Away
  <2> QED
    BY <2>3, <2>4
<1>9. CASE Account(t)
  <2>1. /\ Moves(t) /\ SessionsKept /\ At(t, "account")
        /\ op'[t].rest # <<>> => Head(op'[t].rest) = "issue" /\ op'[t].ref = op[t].ref
    BY <1>9, AccountDoes, SessionsStay DEF Account
  <2>2. ASSUME NEW x \in Threads
        PROVE  /\ At(x, "claim")' \/ At(x, "logout")' => op'[x].ref \in DOMAIN sessions
               /\ Claimed(x)' => Claimed(x) /\ op'[x].ref = op[x].ref
    <3>1. CASE x = t
      BY <2>1, <3>1 DEF At, Claimed
    <3>2. CASE x # t
      <4>1. op'[x] = op[x]
        BY <2>1, <3>2 DEF Moves, Others
      <4> QED
        BY <4>1 DEF ClaimsExclusive, Holds, At, Claimed
    <3> QED
      BY <3>1, <3>2
  <2> QED
    BY <2>1, <2>2, RotationKept
<1>10. CASE Logout(t)
  BY <1>10, LogoutDoes, RotationAway DEF Away
<1>11. CASE RevokeAll(t)
  <2>1. SessionsKept /\ op'[t].rest = <<>> /\ \A x \in Threads : x # t => Touched(op[x], op'[x])
    BY <1>11, RevokeAllDoes
  <2>2. ASSUME NEW x \in Threads
        PROVE  /\ At(x, "claim")' \/ At(x, "logout")' => op'[x].ref \in DOMAIN sessions
               /\ Claimed(x)' => Claimed(x) /\ op'[x].ref = op[x].ref
    <3>1. CASE x = t
      BY <2>1, <3>1 DEF At, Claimed
    <3>2. CASE x # t
      BY <2>1, <3>2 DEF ClaimsExclusive, Holds, At, Claimed, Touched
    <3> QED
      BY <3>1, <3>2
  <2> QED
    BY <2>1, <2>2, RotationKept
<1>12. CASE Resolve(t)
  BY <1>12, ResolveDoes, RotationAway, SessionsStay DEF Resolve, Away
<1>13. CASE SetPassword(t)
  BY <1>13, SetPasswordDoes, RotationAway, SessionsStay DEF SetPassword, Away
<1>14. CASE UpdateTarget(t)
  BY <1>14, UpdateTargetDoes, RotationAway, SessionsStay DEF UpdateTarget, Away
<1>15. CASE RejectRole(t) \/ NameTaken(t)
  BY <1>15, RejectionsDo, RotationAway, SessionsStay DEF Ends, Away
<1>16. CASE SetRole(t)
  BY <1>16, SetRoleDoes, RotationAway, SessionsStay DEF SetRole, Away
<1>17. CASE SetActive(t)
  BY <1>17, SetActiveDoes, RotationAway, SessionsStay DEF SetActive, Away
<1>18. CASE NameFree(t)
  BY <1>18, NameFreeDoes, RotationAway, SessionsStay DEF NameFree, Away
<1>19. CASE InsertUser(t)
  BY <1>19, InsertUserDoes, RotationAway, SessionsStay DEF InsertUser, Away
<1>20. CASE CreateKey(t)
  BY <1>20, CreateKeyDoes, RotationAway, SessionsStay DEF Ends, Away
<1>21. CASE RevokeKey(t)
  BY <1>21, RevokeKeyDoes, RotationAway, SessionsStay DEF Ends, Away
<1> QED
  BY <1>1, <1>2, <1>3, <1>4, <1>5, <1>6, <1>7, <1>8, <1>9, <1>10, <1>11, <1>12, <1>13,
     <1>14, <1>15, <1>16, <1>17, <1>18, <1>19, <1>20, <1>21 DEF Step

-----------------------------------------------------------------------------
(* What threads have found out stays true. *)

RowsStand == \A v \in Users : /\ users[v].exists => users'[v].exists
                              /\ users'[v].exists \/ users'[v] = NoUser

\* What the other threads have found out holds when rows only come into being.
LEMMA FoundAll ==
  ASSUME TypeOK, InFlow, FoundOut, TypeOK', RowsStand, now <= now', NEW t \in Threads,
         \A x \in Threads : x # t => Touched(op[x], op'[x]), Found(t)'
  PROVE  FoundOut'
<1>1. ASSUME NEW x \in Threads, x # t
      PROVE  Found(x)'
  <2>1. /\ op'[x].rest = op[x].rest /\ op'[x].seen = op[x].seen /\ op'[x].user = op[x].user
        /\ op'[x].req = op[x].req
    BY <1>1 DEF Touched
  <2>2. \A step : At(x, step)' <=> At(x, step)
    BY <2>1 DEF At
  <2>3. (Writing(x)' <=> Writing(x)) /\ (Updating(x)' <=> Updating(x))
    BY <2>2 DEF Writing, Updating, At
  <2>4. op[x].rest # <<>> => op[x].user \in Users
    BY WhoIsAt
  <2>5. Found(x)
    BY DEF FoundOut
  <2>6. op[x].seen.locked \in Nat /\ now \in Nat /\ now' \in Nat
    BY DEF TypeOK, Operation, UserRow
  <2>7. op[x].seen.locked <= now => op[x].seen.locked <= now'
    BY <2>6
  <2>8. Writing(x) \/ At(x, "set_role") \/ At(x, "set_active") => op[x].rest # <<>>
    BY DEF Writing, At
  <2>9. Writing(x) => op[x].seen.exists /\ users'[op[x].user].exists
    BY <2>4, <2>5, <2>8 DEF Found, RowsStand
  <2>10. At(x, "set_role") \/ At(x, "set_active") => users'[op[x].user].exists
    BY <2>4, <2>5, <2>8 DEF Found, RowsStand
  <2>11. /\ At(x, "verify") => op[x].seen.locked <= now'
         /\ At(x, "insert") => op[x].req.role \in DOMAIN Grants
         /\ Updating(x) => op[x].user = op[x].req.user
    BY <2>5, <2>7 DEF Found
  <2>12. /\ At(x, "verify")' <=> At(x, "verify")
         /\ At(x, "insert")' <=> At(x, "insert")
         /\ At(x, "set_role")' <=> At(x, "set_role")
         /\ At(x, "set_active")' <=> At(x, "set_active")
    BY <2>1 DEF At
  <2> QED
    BY <2>1, <2>3, <2>9, <2>10, <2>11, <2>12 DEF Found
<1> QED
  BY <1>1 DEF FoundOut, RowsStand

\* Rows that are not written stand.
LEMMA RowsUntouched ==
  ASSUME TypeOK, FoundOut, users' = users
  PROVE  RowsStand
BY DEF RowsStand, FoundOut

\* So do they when the one that is written exists.
LEMMA OneRowStands ==
  ASSUME TypeOK, FoundOut, NEW u \in Users, UserOnly(u), users'[u].exists
  PROVE  RowsStand
BY DEF RowsStand, FoundOut, UserOnly

\* A thread that moves leaves the operations of the others.
LEMMA MovesTouch ==
  ASSUME NEW t \in Threads, Moves(t)
  PROVE  /\ \A x \in Threads : x # t => op'[x] = op[x] /\ Touched(op[x], op'[x])
         /\ InFlow' /\ op' \in [Threads -> Operation]
BY DEF Moves, Others, Touched

\* The thread that moves comes to a step that goes by nothing.
LEMMA FoundAway ==
  ASSUME TypeOK, InFlow, FoundOut, TypeOK', RowsStand, now' = now, NEW t \in Threads,
         Moves(t),
         Away(t, {"check", "verify", "set_password", "insert", "target", "set_role",
                  "set_active"})
  PROVE  FoundOut'
<1>1. Found(t)'
  BY DEF Found, Away, At, Writing, Updating
<1>2. now <= now'
  BY DEF TypeOK
<1> QED
  BY <1>1, <1>2, MovesTouch, FoundAll

\* What a request has found out holds after every step of every request.
LEMMA FoundStep ==
  ASSUME TypeOK, InFlow, FoundOut, NEW t \in Threads, Step(t)
  PROVE  FoundOut'
<1>0. now' = now => now <= now'
  BY DEF TypeOK
<1>1. CASE LoginLoad(t)
  <2>1. /\ TypeOK' /\ Moves(t) /\ users' = users /\ now' = now
        /\ op'[t].rest # <<>> => LET u == op[t].user IN
             /\ u \in Users /\ Head(op'[t].rest) = "check" /\ users[u].exists
             /\ op'[t].user = u /\ op'[t].seen = users[u]
    BY <1>1, LoginLoadDoes DEF LoginLoad
  <2>2. Found(t)'
    BY <2>1 DEF Found, At, Writing, Updating
  <2> QED
    BY <1>0, <2>1, <2>2, MovesTouch, FoundAll, RowsUntouched
<1>2. CASE CheckLock(t)
  <2>1. /\ TypeOK' /\ Moves(t) /\ users' = users /\ now' = now /\ At(t, "check")
        /\ op'[t].rest # <<>> =>
             /\ Head(op'[t].rest) = "verify" /\ op[t].seen.locked <= now
             /\ op'[t].user = op[t].user /\ op'[t].seen = op[t].seen
    BY <1>2, CheckLockDoes DEF CheckLock
  <2>2. op[t].seen.exists /\ users[op[t].user].exists
    BY <2>1 DEF FoundOut, Found, Writing
  <2>3. Found(t)'
    BY <2>1, <2>2 DEF Found, At, Writing, Updating
  <2> QED
    BY <1>0, <2>1, <2>3, MovesTouch, FoundAll, RowsUntouched
<1>3. CASE WrongPassword(t)
  <2>1. /\ TypeOK' /\ Moves(t) /\ op[t].user \in Users /\ UserOnly(op[t].user)
        /\ users'[op[t].user].exists = users[op[t].user].exists
        /\ op'[t].rest # <<>> => Head(op'[t].rest) = "audit"
    BY <1>3, WrongPasswordDoes
  <2>2. users[op[t].user].exists /\ now' = now
    BY <1>3 DEF WrongPassword, FoundOut, Found, Writing
  <2>3. RowsStand
    BY <2>1, <2>2, OneRowStands
  <2> QED
    BY <2>1, <2>2, <2>3, FoundAway DEF Away
<1>4. CASE AuditLock(t)
  BY <1>4, AuditLockDoes, FoundAway, RowsUntouched DEF AuditLock, Away
<1>5. CASE RightPassword(t)
  <2>1. /\ TypeOK' /\ Moves(t) /\ op[t].user \in Users /\ UserOnly(op[t].user)
        /\ users'[op[t].user].exists = users[op[t].user].exists
        /\ op'[t].rest # <<>> =>
             /\ Head(op'[t].rest) \in {"issue", "set_password"}
             /\ op'[t].user = op[t].user /\ op'[t].seen = users'[op[t].user]
    BY <1>5, RightPasswordDoes
  <2>2. users[op[t].user].exists /\ now' = now
    BY <1>5 DEF RightPassword, FoundOut, Found, Writing
  <2>3. RowsStand
    BY <2>1, <2>2, OneRowStands
  <2>4. Found(t)'
    BY <2>1, <2>2 DEF Found, At, Writing, Updating
  <2> QED
    BY <1>0, <2>1, <2>2, <2>3, <2>4, MovesTouch, FoundAll
<1>6. CASE Issue(t)
  BY <1>6, IssueDoes, FoundAway, RowsUntouched DEF Issue, Away
<1>7. CASE SessionLoad(t)
  BY <1>7, SessionLoadDoes, FoundAway, RowsUntouched DEF SessionLoad, Away
<1>8. CASE Claim(t)
  <2>1. /\ TypeOK' /\ Moves(t) /\ users' = users /\ now' = now
        /\ op'[t].rest # <<>> => Head(op'[t].rest) \in {"account", "revoke_all"}
    BY <1>8, ClaimDoes DEF Claim
  <2> QED
    BY <2>1, FoundAway, RowsUntouched DEF Away
<1>9. CASE Account(t)
  BY <1>9, AccountDoes, FoundAway, RowsUntouched DEF Account, Away
<1>10. CASE Logout(t)
  BY <1>10, LogoutDoes, FoundAway, RowsUntouched DEF Logout, Away
<1>11. CASE RevokeAll(t)
  <2>1. /\ TypeOK' /\ users' = users /\ now' = now /\ op'[t].rest = <<>>
        /\ \A x \in Threads : x # t => Touched(op[x], op'[x])
    BY <1>11, RevokeAllDoes DEF RevokeAll
  <2>2. Found(t)'
    BY <2>1 DEF Found, At, Writing, Updating
  <2> QED
    BY <1>0, <2>1, <2>2, FoundAll, RowsUntouched
<1>12. CASE Resolve(t)
  <2> DEFINE r == op[t].req
  <2>1. /\ TypeOK' /\ Moves(t) /\ WellFormed(r) /\ users' = users /\ now' = now
        /\ op'[t].rest # <<>> =>
              /\ op'[t].req = r /\ op'[t].seen = users[r.by] /\ users[r.by].active
              /\ \/ Head(op'[t].rest) = "check" /\ op'[t].user = r.by
                 \/ Head(op'[t].rest) = "target" /\ op'[t].user = r.user
                 \/ Head(op'[t].rest) \in {"revoke_all", "register", "create_key", "revoke_key"}
    BY <1>12, ResolveDoes DEF Resolve
  <2>2. users[r.by].active => users[r.by].exists
    BY <2>1 DEF FoundOut, NoUser, WellFormed
  <2>3. Found(t)'
    BY <2>1, <2>2 DEF Found, At, Writing, Updating
  <2> QED
    BY <1>0, <2>1, <2>3, MovesTouch, FoundAll, RowsUntouched
<1>13. CASE SetPassword(t)
  <2>1. /\ TypeOK' /\ Moves(t) /\ op[t].user \in Users /\ UserOnly(op[t].user)
        /\ users'[op[t].user].exists = users[op[t].user].exists
        /\ Head(op'[t].rest) = "revoke_all"
    BY <1>13, SetPasswordDoes
  <2>2. users[op[t].user].exists /\ now' = now
    BY <1>13 DEF SetPassword, FoundOut, Found, Writing
  <2>3. RowsStand
    BY <2>1, <2>2, OneRowStands
  <2> QED
    BY <2>1, <2>2, <2>3, FoundAway DEF Away
<1>14. CASE UpdateTarget(t)
  <2>1. /\ TypeOK' /\ Moves(t) /\ users' = users /\ now' = now /\ At(t, "target")
        /\ op'[t].rest # <<>> =>
              /\ Head(op'[t].rest) = "set_role" /\ users[op[t].req.user].exists
              /\ op'[t].req = op[t].req /\ op'[t].user = op[t].user
    BY <1>14, UpdateTargetDoes DEF UpdateTarget
  <2>2. op[t].user = op[t].req.user
    BY <2>1 DEF FoundOut, Found, Updating
  <2>3. Found(t)'
    BY <2>1, <2>2 DEF Found, At, Writing, Updating
  <2> QED
    BY <1>0, <2>1, <2>3, MovesTouch, FoundAll, RowsUntouched
<1>15. CASE RejectRole(t) \/ NameTaken(t)
  BY <1>15, RejectionsDo, FoundAway, RowsUntouched DEF Ends, Away
<1>16. CASE SetRole(t)
  <2> DEFINE u == op[t].req.user
  <2>1. /\ TypeOK' /\ Moves(t) /\ u \in Users /\ UserOnly(u) /\ now' = now
        /\ users'[u].exists = users[u].exists /\ At(t, "set_role")
        /\ op'[t].rest # <<>> =>
              /\ Head(op'[t].rest) = "set_active"
              /\ op'[t].req = op[t].req /\ op'[t].user = op[t].user
    BY <1>16, SetRoleDoes DEF SetRole
  <2>2. op[t].user = u /\ users[u].exists
    BY <2>1 DEF FoundOut, Found, Updating
  <2>3. RowsStand
    BY <2>1, <2>2, OneRowStands
  <2>4. Found(t)'
    BY <2>1, <2>2 DEF Found, At, Writing, Updating
  <2> QED
    BY <1>0, <2>1, <2>3, <2>4, MovesTouch, FoundAll
<1>17. CASE SetActive(t)
  <2> DEFINE u == op[t].req.user
  <2>1. /\ TypeOK' /\ Moves(t) /\ u \in Users /\ UserOnly(u) /\ now' = now
        /\ users'[u].exists = users[u].exists /\ At(t, "set_active")
        /\ op'[t].rest # <<>> => Head(op'[t].rest) = "revoke_all"
    BY <1>17, SetActiveDoes DEF SetActive
  <2>2. op[t].user = u /\ users[u].exists
    BY <2>1 DEF FoundOut, Found, Updating
  <2>3. RowsStand
    BY <2>1, <2>2, OneRowStands
  <2> QED
    BY <2>1, <2>3, FoundAway DEF Away
<1>18. CASE NameFree(t)
  <2>1. /\ TypeOK' /\ Moves(t) /\ users' = users /\ now' = now
        /\ op'[t].rest # <<>> => /\ Head(op'[t].rest) = "insert"
                                 /\ op'[t].req.role \in DOMAIN Grants
    BY <1>18, NameFreeDoes DEF NameFree
  <2>2. Found(t)'
    BY <2>1 DEF Found, At, Writing, Updating
  <2> QED
    BY <1>0, <2>1, <2>2, MovesTouch, FoundAll, RowsUntouched
<1>19. CASE InsertUser(t)
  <2>1. /\ TypeOK' /\ Moves(t) /\ op'[t].rest = <<>> /\ now' = now
        /\ op[t].user \in Users /\ UserOnly(op[t].user) /\ users'[op[t].user].exists
    BY <1>19, InsertUserDoes DEF InsertUser
  <2> QED
    BY <2>1, FoundAway, OneRowStands DEF Away
<1>20. CASE CreateKey(t)
  BY <1>20, CreateKeyDoes, FoundAway, RowsUntouched DEF Ends, Away
<1>21. CASE RevokeKey(t)
  BY <1>21, RevokeKeyDoes, FoundAway, RowsUntouched DEF Ends, Away
<1> QED
  BY <1>1, <1>2, <1>3, <1>4, <1>5, <1>6, <1>7, <1>8, <1>9, <1>10, <1>11, <1>12, <1>13,
     <1>14, <1>15, <1>16, <1>17, <1>18, <1>19, <1>20, <1>21 DEF Step

-----------------------------------------------------------------------------
(* Sessions end with the password and the account. *)

\* The row of user v is as it was, as far as sessions go by it, or all sessions of v
\* are about to be revoked.
Stands(v) == \/ Revoking(v)'
             \/ users'[v].pw = users[v].pw /\ (users[v].active => users'[v].active)

StillRevoking == \A v \in Users : Revoking(v) => Revoking(v)'
AllStand == (\A v \in Users : Stands(v)) /\ StillRevoking

\* A thread that does not move knows what it knew, or its user is being revoked.
LEMMA KnowsKept ==
  ASSUME TypeOK, InFlow, ClaimsExclusive, SessionsKept, AllStand, NEW x \in Threads,
         op'[x] = op[x], Knows(x)
  PROVE  Knows(x)'
<1> DEFINE o == op[x]
<1>1. \A step : At(x, step)' <=> At(x, step)
  BY DEF At
<1>2. SUFFICES ASSUME o.rest # <<>>
               PROVE  Knows(x)'
  BY <1>1 DEF Knows, At
<1>3. o.user \in Users
  BY <1>2, WhoIsAt
<1> PICK u \in Users : u = o.user
  BY <1>3
<1>11. Excepted(x) <=> o.late \/ Revoking(u)
  BY DEF Excepted
<1>12. Excepted(x)' <=> o.late \/ Revoking(u)'
  BY DEF Excepted, Revoking
<1>13. Stands(u) /\ (Revoking(u) => Revoking(u)')
  BY DEF AllStand, StillRevoking
<1>4. Excepted(x) => Excepted(x)'
  BY <1>11, <1>12, <1>13
<1>5. \/ Excepted(x)'
      \/ /\ users'[o.user].pw = users[o.user].pw
         /\ users[o.user].active => users'[o.user].active
  <2>1. Revoking(u)' => Excepted(x)'
    BY <1>12
  <2>2. Stands(u)
    BY <1>13
  <2>3. Revoking(u)' \/ (users'[u].pw = users[u].pw /\ (users[u].active => users'[u].active))
    BY ONLY <2>2 DEF Stands
  <2> QED
    BY <2>1, <2>3
<1>6. At(x, "check") \/ At(x, "verify") =>
           \/ Excepted(x)'
           \/ o.seen.pw = users'[o.user].pw /\ (o.seen.active => users'[o.user].active)
  BY <1>4, <1>5 DEF Knows
<1>7. At(x, "claim") => LET row == sessions'[o.ref] IN
           row.user = o.user /\ row.born = o.born /\ (row.late => o.late)
  BY DEF Knows, ClaimsExclusive, Holds, SessionsKept
<1>8. At(x, "account") => Excepted(x)' \/ o.born = users'[o.user].pw
  BY <1>4, <1>5 DEF Knows
<1>9. At(x, "issue") =>
           Excepted(x)' \/ (o.born = users'[o.user].pw /\ users'[o.user].active)
  BY <1>4, <1>5 DEF Knows
<1>10. /\ At(x, "check")' <=> At(x, "check")
       /\ At(x, "verify")' <=> At(x, "verify")
       /\ At(x, "claim")' <=> At(x, "claim")
       /\ At(x, "account")' <=> At(x, "account")
       /\ At(x, "issue")' <=> At(x, "issue")
  BY DEF At
<1> QED
  BY <1>6, <1>7, <1>8, <1>9, <1>10 DEF Knows

\* Sessions that are only revoked, of users whose rows stand, need no new exception.
LEMMA EndedKept ==
  ASSUME TypeOK, PasswordEndsSessions, InactiveHasNoSession, SessionsKept, AllStand
  PROVE  PasswordEndsSessions' /\ InactiveHasNoSession'
<1>1. ASSUME NEW s \in DOMAIN sessions, NEW u \in Users, u = sessions[s].user
      PROVE  /\ u = sessions'[s].user
             /\ \/ sessions'[s].revoked \/ sessions'[s].late
                \/ sessions'[s].born = users'[u].pw \/ Revoking(u)'
             /\ sessions'[s].revoked \/ sessions'[s].late \/ users'[u].active \/ Revoking(u)'
  <2>1. /\ \/ sessions[s].revoked \/ sessions[s].late
           \/ sessions[s].born = users[u].pw \/ Revoking(u)
        /\ sessions[s].revoked \/ sessions[s].late \/ users[u].active \/ Revoking(u)
    BY <1>1 DEF PasswordEndsSessions, InactiveHasNoSession, Revoking, Live
  <2>2. Stands(u) /\ (Revoking(u) => Revoking(u)')
    BY DEF AllStand, StillRevoking
  <2>3. /\ \/ sessions[s].revoked \/ sessions[s].late
           \/ sessions[s].born = users'[u].pw \/ Revoking(u)'
        /\ sessions[s].revoked \/ sessions[s].late \/ users'[u].active \/ Revoking(u)'
    BY <2>1, <2>2 DEF Stands
  <2> QED
    BY <1>1, <2>3 DEF SessionsKept
<1>2. DOMAIN sessions' = DOMAIN sessions
  BY DEF SessionsKept
<1>3. ASSUME NEW s \in DOMAIN sessions'
      PROVE  LET v == sessions'[s].user IN
             /\ \/ sessions'[s].revoked \/ sessions'[s].late
                \/ sessions'[s].born = users'[v].pw
                \/ \E t \in Threads : At(t, "revoke_all")' /\ op'[t].user = v
             /\ \/ sessions'[s].revoked \/ sessions'[s].late \/ users'[v].active
                \/ \E t \in Threads : At(t, "revoke_all")' /\ op'[t].user = v
  <2>1. s \in DOMAIN sessions
    BY <1>2
  <2>2. PICK u \in Users : u = sessions[s].user
    BY <2>1, SessionsAre DEF Session
  <2>3. /\ u = sessions'[s].user
        /\ \/ sessions'[s].revoked \/ sessions'[s].late
           \/ sessions'[s].born = users'[u].pw \/ Revoking(u)'
        /\ sessions'[s].revoked \/ sessions'[s].late \/ users'[u].active \/ Revoking(u)'
    BY <1>1, <2>1, <2>2
  <2> QED
    BY <2>3 DEF Revoking
<1> QED
  BY <1>3 DEF PasswordEndsSessions, InactiveHasNoSession, Live

\* A step of a thread that is not revoking leaves the revocations under way.
LEMMA RevokersStay ==
  ASSUME NEW t \in Threads, Moves(t), NEW step, At(t, step), step # "revoke_all"
  PROVE  StillRevoking
BY DEF StillRevoking, Revoking, At, Moves, Others

Ended == IssuersKnow /\ PasswordEndsSessions /\ InactiveHasNoSession

\* The thread that moves knows what it goes by, and the others still do.
LEMMA EndedAll ==
  ASSUME TypeOK, InFlow, ClaimsExclusive, Ended, SessionsKept, AllStand,
         NEW t \in Threads, Moves(t), Knows(t)'
  PROVE  Ended'
<1>1. ASSUME NEW x \in Threads, x # t
      PROVE  Knows(x)'
  BY <1>1, KnowsKept, MovesTouch DEF Ended, IssuersKnow
<1> QED
  BY <1>1, EndedKept DEF Ended, IssuersKnow

\* The thread that moves goes by nothing it has read.
LEMMA EndedAway ==
  ASSUME TypeOK, InFlow, ClaimsExclusive, Ended, SessionsKept, AllStand,
         NEW t \in Threads, Moves(t),
         Away(t, {"check", "verify", "claim", "account", "issue"})
  PROVE  Ended'
<1>1. Knows(t)'
  BY DEF Knows, Away, At
<1> QED
  BY <1>1, EndedAll

\* Rows that are not written stand, if no revocation is forgotten.
LEMMA RowsAsBefore ==
  ASSUME users' = users, StillRevoking
  PROVE  AllStand
BY DEF AllStand, Stands

\* The row that is written keeps its password and its access.
LEMMA OneRowEnds ==
  ASSUME NEW u \in Users, UserOnly(u), StillRevoking,
         users'[u].pw = users[u].pw, users[u].active => users'[u].active
  PROVE  AllStand
BY DEF AllStand, Stands, UserOnly

\* The sessions of the user whose row is written are about to be revoked.
LEMMA OneRowRevoked ==
  ASSUME NEW t \in Threads, NEW u \in Users, UserOnly(u), StillRevoking,
         op'[t].rest # <<>>, Head(op'[t].rest) = "revoke_all", op'[t].user = u
  PROVE  AllStand
<1>1. Revoking(u)'
  BY DEF Revoking, At
<1> QED
  BY <1>1 DEF AllStand, Stands, UserOnly

\* No step of a request leaves a session that outlives its password or account.
LEMMA EndedStep ==
  ASSUME TypeOK, InFlow, FoundOut, ClaimsExclusive, UpdatersKeepAdmin, Ended,
         NEW t \in Threads, Step(t)
  PROVE  Ended'
<1>1. CASE LoginLoad(t)
  <2>1. /\ Moves(t) /\ users' = users /\ sessions' = sessions /\ At(t, "load")
        /\ op'[t].rest # <<>> => LET u == op[t].user IN
             /\ Head(op'[t].rest) = "check" /\ op'[t].user = u /\ op'[t].seen = users[u]
    BY <1>1, LoginLoadDoes DEF LoginLoad
  <2>2. Knows(t)'
    BY <2>1 DEF Knows, At
  <2> QED
    BY <2>1, <2>2, EndedAll, SessionsStay, RowsAsBefore, RevokersStay
<1>2. CASE CheckLock(t)
  <2>1. /\ Moves(t) /\ users' = users /\ sessions' = sessions /\ At(t, "check")
        /\ op'[t].rest # <<>> =>
             /\ Head(op'[t].rest) = "verify" /\ op'[t].late = op[t].late
             /\ op'[t].user = op[t].user /\ op'[t].seen = op[t].seen
    BY <1>2, CheckLockDoes DEF CheckLock
  <2>2. AllStand
    BY <2>1, RowsAsBefore, RevokersStay
  <2>3. PICK u : u = op[t].user
    OBVIOUS
  <2>4. u \in Users
    BY <2>1, <2>3, WhoIsAt DEF At
  <2>5. op[t].late \/ Revoking(u) \/ (op[t].seen.pw = users[u].pw
                                      /\ (op[t].seen.active => users[u].active))
    BY <2>1, <2>3 DEF Ended, IssuersKnow, Knows, Excepted
  <2>6. Revoking(u) => Revoking(u)'
    BY <2>2, <2>4 DEF AllStand, StillRevoking
  <2>7. op'[t].rest # <<>> => Excepted(t)' \/ (op'[t].seen.pw = users'[u].pw
                                      /\ (op'[t].seen.active => users'[u].active))
    BY <2>1, <2>3, <2>5, <2>6 DEF Excepted, Revoking
  <2>8. Knows(t)'
    BY <2>1, <2>3, <2>7 DEF Knows, At
  <2> QED
    BY <2>1, <2>2, <2>8, EndedAll, SessionsStay
<1>3. CASE WrongPassword(t)
  <2> DEFINE u == op[t].user
  <2>1. /\ Moves(t) /\ u \in Users /\ UserOnly(u) /\ sessions' = sessions /\ At(t, "verify")
        /\ users'[u].active = users[u].active /\ users'[u].pw = users[u].pw
        /\ op'[t].rest # <<>> => Head(op'[t].rest) = "audit"
    BY <1>3, WrongPasswordDoes DEF WrongPassword
  <2>2. AllStand
    BY <2>1, OneRowEnds, RevokersStay
  <2> QED
    BY <2>1, <2>2, EndedAway, SessionsStay DEF Away
<1>4. CASE AuditLock(t)
  <2>1. /\ Moves(t) /\ users' = users /\ sessions' = sessions /\ At(t, "audit")
        /\ op'[t].rest = <<>>
    BY <1>4, AuditLockDoes DEF AuditLock
  <2> QED
    BY <2>1, EndedAway, SessionsStay, RowsAsBefore, RevokersStay DEF Away
<1>5. CASE RightPassword(t)
  <2>1. PICK u : u = op[t].user
    OBVIOUS
  <2>2. /\ Moves(t) /\ u \in Users /\ UserOnly(u) /\ sessions' = sessions /\ At(t, "verify")
        /\ users'[u].active = users[u].active /\ users'[u].pw = users[u].pw
        /\ op'[t].rest # <<>> =>
             /\ Head(op'[t].rest) \in {"issue", "set_password"}
             /\ op[t].seen.active /\ op'[t].user = u
             /\ op'[t].born = op[t].seen.pw /\ op'[t].late = op[t].late
    BY <1>5, <2>1, RightPasswordDoes DEF RightPassword
  <2>3. AllStand
    BY <2>2, OneRowEnds, RevokersStay
  <2>4. op[t].late \/ Revoking(u) \/ (op[t].seen.pw = users[u].pw
                                      /\ (op[t].seen.active => users[u].active))
    BY <2>1, <2>2 DEF Ended, IssuersKnow, Knows, Excepted
  <2>5. Revoking(u) => Revoking(u)'
    BY <2>2, <2>3 DEF AllStand, StillRevoking
  <2>6. op'[t].rest # <<>> =>
          Excepted(t)' \/ (op'[t].born = users'[u].pw /\ users'[u].active)
    BY <2>2, <2>4, <2>5 DEF Excepted, Revoking
  <2>7. Knows(t)'
    BY <2>2, <2>6 DEF Knows, At
  <2> QED
    BY <2>2, <2>3, <2>7, EndedAll, SessionsStay
<1>6. CASE Issue(t)
  <2>1. PICK n \in DOMAIN sessions' :
          /\ n \notin DOMAIN sessions /\ DOMAIN sessions' = DOMAIN sessions \cup {n}
          /\ \A i \in DOMAIN sessions : sessions'[i] = sessions[i]
          /\ sessions'[n].user = op[t].user /\ sessions'[n].born = op[t].born
          /\ sessions'[n].late = op[t].late
    BY <1>6, IssueDoes
  <2>2. Moves(t) /\ op'[t].rest = <<>> /\ At(t, "issue") /\ users' = users
    BY <1>6, IssueDoes DEF Issue
  <2>3. StillRevoking
    BY <2>2, RevokersStay
  <2>4. ASSUME NEW x \in Threads
        PROVE  Knows(x)'
    <3>1. CASE x = t
      BY <2>2, <3>1 DEF Knows, At
    <3>2. CASE x # t
      <4>1. op'[x] = op[x] /\ Knows(x)
        BY <2>2, <3>2, MovesTouch DEF Ended, IssuersKnow
      <4>2. PICK u : u = op[x].user
        OBVIOUS
      <4>3. op[x].rest # <<>> => u \in Users
        BY <4>2, WhoIsAt
      <4>4. op[x].rest # <<>> => (Revoking(u) => Revoking(u)')
        BY <2>3, <4>3 DEF StillRevoking
      <4>5. op[x].rest # <<>> => (Excepted(x) => Excepted(x)')
        BY <4>1, <4>2, <4>4 DEF Excepted, Revoking
      <4>6. At(x, "claim") => op[x].ref \in DOMAIN sessions
                              /\ sessions'[op[x].ref] = sessions[op[x].ref]
        BY <2>1 DEF ClaimsExclusive, Holds
      <4>7. /\ At(x, "check")' <=> At(x, "check")
            /\ At(x, "verify")' <=> At(x, "verify")
            /\ At(x, "claim")' <=> At(x, "claim")
            /\ At(x, "account")' <=> At(x, "account")
            /\ At(x, "issue")' <=> At(x, "issue")
        BY <4>1 DEF At
      <4>8. At(x, "check") \/ At(x, "verify") \/ At(x, "account") \/ At(x, "issue")
              => op[x].rest # <<>>
        BY DEF At
      <4> QED
        BY <2>2, <4>1, <4>5, <4>6, <4>7, <4>8 DEF Knows
    <3> QED
      BY <3>1, <3>2
  <2>5. PICK v : v = op[t].user
    OBVIOUS
  <2>6. v \in Users
    BY <2>2, <2>5, WhoIsAt DEF At
  <2>7. op[t].late \/ Revoking(v) \/ (op[t].born = users[v].pw /\ users[v].active)
    BY <2>2, <2>5 DEF Ended, IssuersKnow, Knows, Excepted
  <2>8. Revoking(v) => Revoking(v)'
    BY <2>3, <2>6 DEF StillRevoking
  <2>9. ASSUME NEW s \in DOMAIN sessions'
        PROVE  LET w == sessions'[s].user IN
             /\ \/ sessions'[s].revoked \/ sessions'[s].late
                \/ sessions'[s].born = users'[w].pw
                \/ \E x \in Threads : At(x, "revoke_all")' /\ op'[x].user = w
             /\ \/ sessions'[s].revoked \/ sessions'[s].late \/ users'[w].active
                \/ \E x \in Threads : At(x, "revoke_all")' /\ op'[x].user = w
    <3>1. CASE s = n
      BY <2>1, <2>2, <2>5, <2>7, <2>8, <3>1 DEF Revoking
    <3>2. CASE s \in DOMAIN sessions
      <4>1. PICK u \in Users : u = sessions[s].user
        BY <3>2, SessionsAre DEF Session
      <4>2. /\ \/ sessions[s].revoked \/ sessions[s].late
               \/ sessions[s].born = users[u].pw \/ Revoking(u)
            /\ sessions[s].revoked \/ sessions[s].late \/ users[u].active \/ Revoking(u)
        BY <3>2, <4>1 DEF Ended, PasswordEndsSessions, InactiveHasNoSession, Revoking, Live
      <4>3. Revoking(u) => Revoking(u)'
        BY <2>3 DEF StillRevoking
      <4>4. sessions'[s] = sessions[s]
        BY <2>1, <3>2
      <4> QED
        BY <2>2, <4>1, <4>2, <4>3, <4>4 DEF Revoking
    <3> QED
      BY <2>1, <3>1, <3>2
  <2> QED
    BY <2>4, <2>9 DEF Ended, IssuersKnow, PasswordEndsSessions, InactiveHasNoSession, Live
<1>7. CASE SessionLoad(t)
  <2>1. /\ Moves(t) /\ users' = users /\ sessions' = sessions /\ At(t, "session")
        /\ op'[t].rest # <<>> =>
              /\ Head(op'[t].rest) \in {"claim", "logout"}
              /\ op'[t].user = sessions[op'[t].ref].user
              /\ op'[t].born = sessions[op'[t].ref].born
              /\ sessions[op'[t].ref].late => op'[t].late
    BY <1>7, SessionLoadDoes DEF SessionLoad
  <2>2. Knows(t)'
    BY <2>1 DEF Knows, At
  <2> QED
    BY <2>1, <2>2, EndedAll, SessionsStay, RowsAsBefore, RevokersStay
<1>8. CASE Claim(t)
  <2>1. PICK u : u = op[t].user
    OBVIOUS
  <2>2. PICK s : s = op[t].ref
    OBVIOUS
  <2>3. /\ Moves(t) /\ SessionsKept /\ users' = users /\ At(t, "claim")
        /\ op'[t].rest # <<>> =>
              \/ Head(op'[t].rest) = "revoke_all"
              \/ /\ Head(op'[t].rest) = "account" /\ Live(s)
                 /\ op'[t].user = u
                 /\ op'[t].born = op[t].born /\ op'[t].late = op[t].late
    BY <1>8, <2>1, <2>2, ClaimDoes DEF Claim
  <2>4. AllStand
    BY <2>3, RowsAsBefore, RevokersStay
  <2>5. u \in Users
    BY <2>1, <2>3, WhoIsAt DEF At
  <2>6. s \in DOMAIN sessions /\ sessions[s].user = u /\ sessions[s].born = op[t].born
        /\ (sessions[s].late => op[t].late)
    BY <2>1, <2>2, <2>3 DEF ClaimsExclusive, Holds, Ended, IssuersKnow, Knows
  <2>7. Live(s) => op[t].late \/ Revoking(u) \/ op[t].born = users[u].pw
    BY <2>6 DEF Ended, PasswordEndsSessions, Revoking
  <2>8. Revoking(u) => Revoking(u)'
    BY <2>4, <2>5 DEF AllStand, StillRevoking
  <2>9. op'[t].rest # <<>> /\ Head(op'[t].rest) = "account" =>
          Excepted(t)' \/ op'[t].born = users'[u].pw
    BY <2>3, <2>7, <2>8 DEF Excepted, Revoking
  <2>10. Knows(t)'
    BY <2>3, <2>9 DEF Knows, At
  <2> QED
    BY <2>3, <2>4, <2>10, EndedAll
<1>9. CASE Account(t)
  <2>1. PICK u : u = op[t].user
    OBVIOUS
  <2>2. /\ Moves(t) /\ users' = users /\ sessions' = sessions /\ At(t, "account")
        /\ op'[t].rest # <<>> =>
              /\ Head(op'[t].rest) = "issue" /\ users[u].active /\ op'[t].user = u
              /\ op'[t].born = op[t].born /\ op'[t].late = op[t].late
    BY <1>9, <2>1, AccountDoes DEF Account
  <2>3. AllStand
    BY <2>2, RowsAsBefore, RevokersStay
  <2>4. u \in Users
    BY <2>1, <2>2, WhoIsAt DEF At
  <2>5. op[t].late \/ Revoking(u) \/ op[t].born = users[u].pw
    BY <2>1, <2>2 DEF Ended, IssuersKnow, Knows, Excepted
  <2>6. Revoking(u) => Revoking(u)'
    BY <2>3, <2>4 DEF AllStand, StillRevoking
  <2>7. op'[t].rest # <<>> =>
          Excepted(t)' \/ (op'[t].born = users'[u].pw /\ users'[u].active)
    BY <2>2, <2>5, <2>6 DEF Excepted, Revoking
  <2>8. Knows(t)'
    BY <2>2, <2>7 DEF Knows, At
  <2> QED
    BY <2>2, <2>3, <2>8, EndedAll, SessionsStay
<1>10. CASE Logout(t)
  <2>1. Moves(t) /\ SessionsKept /\ op'[t].rest = <<>> /\ users' = users /\ At(t, "logout")
    BY <1>10, LogoutDoes DEF Logout
  <2> QED
    BY <2>1, EndedAway, RowsAsBefore, RevokersStay DEF Away
<1>11. CASE RevokeAll(t)
  <2>1. PICK u : u = op[t].user
    OBVIOUS
  <2>2. /\ SessionsKept /\ users' = users /\ op'[t].rest = <<>>
        /\ \A s \in DOMAIN sessions : sessions[s].user = u => sessions'[s].revoked
        /\ \A x \in Threads : x # t =>
              /\ Touched(op[x], op'[x])
              /\ IF op[x].user = u THEN op'[x].late ELSE op'[x].late = op[x].late
    BY <1>11, <2>1, RevokeAllDoes DEF RevokeAll
  <2>3. ASSUME NEW v, v # u, Revoking(v)
        PROVE  Revoking(v)'
    <3>1. PICK x \in Threads : At(x, "revoke_all") /\ op[x].user = v
      BY <2>3 DEF Revoking
    <3>2. Touched(op[x], op'[x])
      BY <2>1, <2>2, <2>3, <3>1
    <3> QED
      BY <3>1, <3>2 DEF Revoking, At, Touched
  <2>4. ASSUME NEW x \in Threads
        PROVE  Knows(x)'
    <3>1. CASE x = t
      BY <2>2, <3>1 DEF Knows, At
    <3>2. CASE x # t
      <4>1. Touched(op[x], op'[x]) /\ Knows(x)
            /\ IF op[x].user = u THEN op'[x].late ELSE op'[x].late = op[x].late
        BY <2>2, <3>2 DEF Ended, IssuersKnow
      <4>2. PICK v : v = op[x].user
        OBVIOUS
      <4>3. Excepted(x) => Excepted(x)'
        <5>1. CASE v = u
          BY <4>1, <4>2, <5>1 DEF Excepted
        <5>2. CASE v # u
          <6>1. Excepted(x) <=> op[x].late \/ Revoking(v)
            BY <4>2 DEF Excepted
          <6>2. Excepted(x)' <=> op'[x].late \/ Revoking(v)'
            BY <4>1, <4>2 DEF Excepted, Revoking, Touched
          <6> QED
            BY <2>3, <4>1, <4>2, <5>2, <6>1, <6>2
        <5> QED
          BY <5>1, <5>2
      <4>4. At(x, "claim") => LET row == sessions'[op'[x].ref] IN
              row.user = op'[x].user /\ row.born = op'[x].born /\ (row.late => op'[x].late)
        BY <2>2, <4>1 DEF Knows, ClaimsExclusive, Holds, SessionsKept, Touched
      <4>5. /\ At(x, "check")' <=> At(x, "check")
            /\ At(x, "verify")' <=> At(x, "verify")
            /\ At(x, "claim")' <=> At(x, "claim")
            /\ At(x, "account")' <=> At(x, "account")
            /\ At(x, "issue")' <=> At(x, "issue")
        BY <4>1 DEF At, Touched
      <4> QED
        BY <2>2, <4>1, <4>3, <4>4, <4>5 DEF Knows, Touched
    <3> QED
      BY <3>1, <3>2
  <2>5. ASSUME NEW s \in DOMAIN sessions'
        PROVE  LET w == sessions'[s].user IN
             /\ \/ sessions'[s].revoked \/ sessions'[s].late
                \/ sessions'[s].born = users'[w].pw
                \/ \E x \in Threads : At(x, "revoke_all")' /\ op'[x].user = w
             /\ \/ sessions'[s].revoked \/ sessions'[s].late \/ users'[w].active
                \/ \E x \in Threads : At(x, "revoke_all")' /\ op'[x].user = w
    <3>1. s \in DOMAIN sessions
      BY <2>2 DEF SessionsKept
    <3>2. PICK v : v = sessions[s].user
      OBVIOUS
    <3>3. /\ \/ sessions[s].revoked \/ sessions[s].late
             \/ sessions[s].born = users[v].pw \/ Revoking(v)
          /\ sessions[s].revoked \/ sessions[s].late \/ users[v].active \/ Revoking(v)
      BY <3>1, <3>2 DEF Ended, PasswordEndsSessions, InactiveHasNoSession, Revoking, Live
    <3>4. CASE v = u
      BY <2>2, <3>1, <3>2, <3>4
    <3>5. CASE v # u
      <4>1. Revoking(v) => Revoking(v)'
        BY <2>3, <3>5
      <4> QED
        BY <2>2, <3>1, <3>2, <3>3, <4>1 DEF SessionsKept, Revoking
    <3> QED
      BY <3>4, <3>5
  <2> QED
    BY <2>4, <2>5 DEF Ended, IssuersKnow, PasswordEndsSessions, InactiveHasNoSession, Live
<1>12. CASE Resolve(t)
  <2> DEFINE r == op[t].req
  <2>1. /\ Moves(t) /\ users' = users /\ sessions' = sessions /\ At(t, "resolve")
        /\ op'[t].rest # <<>> =>
              /\ op'[t].seen = users[r.by]
              /\ \/ Head(op'[t].rest) = "check" /\ op'[t].user = r.by
                 \/ Head(op'[t].rest) = "target"
                 \/ Head(op'[t].rest) \in {"revoke_all", "register", "create_key", "revoke_key"}
    BY <1>12, ResolveDoes DEF Resolve
  <2>2. Knows(t)'
    BY <2>1 DEF Knows, At
  <2> QED
    BY <2>1, <2>2, EndedAll, SessionsStay, RowsAsBefore, RevokersStay
<1>13. CASE SetPassword(t)
  <2>1. PICK u : u = op[t].user
    OBVIOUS
  <2>2. /\ Moves(t) /\ u \in Users /\ UserOnly(u) /\ sessions' = sessions
        /\ At(t, "set_password")
        /\ op'[t].rest # <<>> /\ Head(op'[t].rest) = "revoke_all" /\ op'[t].user = u
    BY <1>13, <2>1, SetPasswordDoes DEF SetPassword
  <2>3. AllStand
    BY <2>2, OneRowRevoked, RevokersStay
  <2> QED
    BY <2>2, <2>3, EndedAway, SessionsStay DEF Away
<1>14. CASE UpdateTarget(t)
  <2>1. /\ Moves(t) /\ users' = users /\ sessions' = sessions /\ At(t, "target")
        /\ op'[t].rest # <<>> => Head(op'[t].rest) = "set_role"
    BY <1>14, UpdateTargetDoes DEF UpdateTarget
  <2> QED
    BY <2>1, EndedAway, SessionsStay, RowsAsBefore, RevokersStay DEF Away
<1>15. CASE RejectRole(t) \/ NameTaken(t)
  <2>1. /\ Moves(t) /\ users' = users /\ sessions' = sessions /\ op'[t].rest = <<>>
        /\ At(t, "register") \/ At(t, "set_role") \/ At(t, "insert")
    BY <1>15, RejectionsDo DEF Ends, RejectRole, NameTaken
  <2>2. StillRevoking
    BY <2>1, RevokersStay
  <2> QED
    BY <2>1, <2>2, EndedAway, SessionsStay, RowsAsBefore DEF Away
<1>16. CASE SetRole(t)
  <2>1. PICK u : u = op[t].req.user
    OBVIOUS
  <2>2. /\ Moves(t) /\ u \in Users /\ UserOnly(u) /\ sessions' = sessions /\ At(t, "set_role")
        /\ users'[u].active = users[u].active /\ users'[u].pw = users[u].pw
        /\ op'[t].rest # <<>> => Head(op'[t].rest) = "set_active"
    BY <1>16, <2>1, SetRoleDoes DEF SetRole
  <2>3. AllStand
    BY <2>2, OneRowEnds, RevokersStay
  <2> QED
    BY <2>2, <2>3, EndedAway, SessionsStay DEF Away
<1>17. CASE SetActive(t)
  <2>1. PICK u : u = op[t].req.user
    OBVIOUS
  <2>2. /\ Moves(t) /\ u \in Users /\ UserOnly(u) /\ sessions' = sessions
        /\ At(t, "set_active") /\ users'[u].pw = users[u].pw
        /\ op[t].req.active # "no" =>
             (users[u].active => users'[u].active) \/ op[t].req.active = "keep"
        /\ op[t].req.active = "no" => /\ op'[t].rest # <<>> /\ Head(op'[t].rest) = "revoke_all"
                                      /\ op'[t].user = op[t].user
        /\ op'[t].rest # <<>> => Head(op'[t].rest) = "revoke_all"
    BY <1>17, <2>1, SetActiveDoes DEF SetActive
  <2>3. op[t].user = u
    BY <2>1, <2>2 DEF FoundOut, Found, Updating
  <2>5. StillRevoking
    BY <2>2, RevokersStay
  <2>6. op[t].req.active # "keep"
    BY <2>2 DEF UpdatersKeepAdmin, KeepsAdmin
  <2>4. AllStand
    <3>1. CASE op[t].req.active = "no"
      BY <2>2, <2>3, <2>5, <3>1, OneRowRevoked
    <3>2. CASE op[t].req.active # "no"
      BY <2>2, <2>5, <2>6, <3>2, OneRowEnds
    <3> QED
      BY <3>1, <3>2
  <2> QED
    BY <2>2, <2>4, EndedAway, SessionsStay DEF Away
<1>18. CASE NameFree(t)
  <2>1. /\ Moves(t) /\ users' = users /\ sessions' = sessions /\ At(t, "register")
        /\ op'[t].rest # <<>> => Head(op'[t].rest) = "insert"
    BY <1>18, NameFreeDoes DEF NameFree
  <2> QED
    BY <2>1, EndedAway, SessionsStay, RowsAsBefore, RevokersStay DEF Away
<1>19. CASE InsertUser(t)
  <2>1. PICK u : u = op[t].user
    OBVIOUS
  <2>2. /\ Moves(t) /\ op'[t].rest = <<>> /\ u \in Users /\ UserOnly(u)
        /\ users'[u].active /\ users'[u].pw = users[u].pw
        /\ sessions' = sessions /\ At(t, "insert")
    BY <1>19, <2>1, InsertUserDoes DEF InsertUser
  <2>3. AllStand
    BY <2>2, OneRowEnds, RevokersStay
  <2> QED
    BY <2>2, <2>3, EndedAway, SessionsStay DEF Away
<1>20. CASE CreateKey(t) \/ RevokeKey(t)
  <2>1. /\ Moves(t) /\ users' = users /\ sessions' = sessions /\ op'[t].rest = <<>>
        /\ At(t, "create_key") \/ At(t, "revoke_key")
    BY <1>20, CreateKeyDoes, RevokeKeyDoes DEF Ends, CreateKey, RevokeKey
  <2>2. StillRevoking
    BY <2>1, RevokersStay
  <2> QED
    BY <2>1, <2>2, EndedAway, SessionsStay, RowsAsBefore DEF Away
<1> QED
  BY <1>1, <1>2, <1>3, <1>4, <1>5, <1>6, <1>7, <1>8, <1>9, <1>10, <1>11, <1>12, <1>13,
     <1>14, <1>15, <1>16, <1>17, <1>18, <1>19, <1>20 DEF Step

-----------------------------------------------------------------------------
(* Failures are counted. *)

\* What rows and history say of the failures of v, unless v is excepted.
CountsStand ==
    \A v \in Users :
        \/ v \in past'.raced
        \/ /\ users'[v].failed = users[v].failed /\ users'[v].locked = users[v].locked
           /\ past'.strikes[v] = past.strikes[v]

Counted == WritersAlone /\ FailuresCounted

\* A thread that is to write the counters of u is what makes another one race.
LEMMA WritersRace ==
  ASSUME TypeOK, InFlow, FoundOut, NEW x \in Threads, Writing(x),
         NEW u, u = op[x].user
  PROVE  u \in Users /\ Raced(u)
<1>1. /\ op[x].rest # <<>> /\ op[x].rest \in Seq(Steps) /\ op[x].user \in Users
      /\ FlowOf(op[x].req.kind, op[x].rest)
  BY WhoIsAt DEF Writing, At
<1>2. op[x].seen # NoUser
  BY DEF FoundOut, Found, NoUser
<1>3. \E i \in DOMAIN op[x].rest : op[x].rest[i] \in {"verify", "set_password"}
  <2> PICK f \in Seq(Steps) : f = op[x].rest
    BY <1>1
  <2>1. f # <<>> /\ 1 \in DOMAIN f /\ Head(f) = f[1] /\ DOMAIN f = 1..Len(f) /\ Len(f) \in Nat
    BY <1>1
  <2>2. CASE f[1] \in {"verify", "set_password"}
    BY <2>1, <2>2
  <2>3. CASE f[1] = "check"
    <3>1. Goes(op[x].req.kind, f[1], IF 1 < Len(f) THEN f[1 + 1] ELSE "end")
      BY <1>1, <2>1 DEF FlowOf
    <3>2. 1 < Len(f) /\ f[1 + 1] = "verify"
      BY <2>3, <3>1 DEF Goes
    <3>3. 1 + 1 \in DOMAIN f
      BY <2>1, <3>2
    <3> QED
      BY <3>2, <3>3
  <2> QED
    BY <2>1, <2>2, <2>3 DEF Writing, At
<1> QED
  BY <1>1, <1>2, <1>3 DEF Raced

\* No thread begins to write, and what is not excepted stands.
LEMMA WritersKept ==
  ASSUME Counted, CountsStand, past.raced \subseteq past'.raced,
         \A x \in Threads : op[x].user \in Users \/ ~Writing(x),
         \A x \in Threads : Writing(x)' => /\ Writing(x) /\ op'[x].user = op[x].user
                                           /\ op'[x].seen = op[x].seen
  PROVE  Counted'
<1>1. ASSUME NEW x \in Threads
      PROVE  WritesAlone(x)'
  <2> SUFFICES ASSUME Writing(x)', op'[x].user \notin past'.raced
               PROVE  /\ op'[x].seen.failed = users'[op'[x].user].failed
                      /\ op'[x].seen.locked = users'[op'[x].user].locked
                      /\ \A y \in Threads : Writing(y)' /\ op'[y].user = op'[x].user => y = x
    BY DEF WritesAlone
  <2>1. Writing(x) /\ op'[x].user = op[x].user /\ op'[x].seen = op[x].seen
        /\ op[x].user \notin past.raced /\ op[x].user \in Users
    OBVIOUS
  <2>2. WritesAlone(x)
    BY DEF Counted, WritersAlone
  <2>3. /\ op[x].seen.failed = users'[op[x].user].failed
        /\ op[x].seen.locked = users'[op[x].user].locked
    BY <2>1, <2>2 DEF WritesAlone, CountsStand
  <2> QED
    BY <2>1, <2>2, <2>3 DEF WritesAlone
<1>2. FailuresCounted'
  BY DEF Counted, FailuresCounted, CountsStand
<1> QED
  BY <1>1, <1>2 DEF Counted, WritersAlone

\* The thread that moves is not about to write counters.
LEMMA WritersAway ==
  ASSUME TypeOK, InFlow, Counted, CountsStand, past.raced \subseteq past'.raced,
         NEW t \in Threads, \A x \in Threads : x # t => Touched(op[x], op'[x]),
         Away(t, {"check", "verify", "set_password"})
  PROVE  Counted'
<1>1. ASSUME NEW x \in Threads, Writing(x)'
      PROVE  Writing(x) /\ op'[x].user = op[x].user /\ op'[x].seen = op[x].seen
  <2>1. x # t
    BY <1>1 DEF Away, Writing, At
  <2> QED
    BY <1>1, <2>1 DEF Touched, Writing, At
<1>2. \A x \in Threads : op[x].user \in Users \/ ~Writing(x)
  BY WhoIsAt DEF Writing, At
<1> QED
  BY <1>1, <1>2, WritersKept

\* Rows that are not written count what they counted.
LEMMA CountsAsBefore ==
  ASSUME TypeOK, users' = users, past'.strikes = past.strikes
  PROVE  CountsStand
BY DEF CountsStand

\* A thread that comes to write u has read its row, and races whoever is there.
LEMMA WriterJoins ==
  ASSUME TypeOK, InFlow, FoundOut, Counted, users' = users, PastGrows,
         NEW t \in Threads, Moves(t), NEW u \in Users, op'[t].user = u,
         op'[t].seen = users[u], Raced(u) => u \in past'.raced
  PROVE  Counted'
<1>1. \A x \in Threads : x # t => op'[x] = op[x]
  BY DEF Moves, Others
<1>2. ASSUME NEW x \in Threads, x # t, Writing(x)'
      PROVE  Writing(x) /\ op[x].user \in Users /\ Raced(op[x].user)
  <2>1. Writing(x)
    BY <1>1, <1>2 DEF Writing, At
  <2>2. PICK v : v = op[x].user
    OBVIOUS
  <2> QED
    BY <2>1, <2>2, WritersRace
<1>3. ASSUME NEW x \in Threads, x # t, Writing(x)', op'[x].user = u
      PROVE  u \in past'.raced
  BY <1>1, <1>2, <1>3
<1>4. ASSUME NEW x \in Threads
      PROVE  WritesAlone(x)'
  <2>1. CASE x = t
    BY <1>3, <2>1 DEF WritesAlone
  <2>2. CASE x # t
    <3> SUFFICES ASSUME Writing(x)', op'[x].user \notin past'.raced
                 PROVE  /\ op'[x].seen.failed = users'[op'[x].user].failed
                        /\ op'[x].seen.locked = users'[op'[x].user].locked
                        /\ \A y \in Threads : Writing(y)' /\ op'[y].user = op'[x].user => y = x
      BY DEF WritesAlone
    <3>1. op'[x] = op[x] /\ Writing(x) /\ op[x].user \notin past.raced /\ op[x].user # u
      BY <1>1, <1>2, <1>3, <2>2 DEF PastGrows
    <3>2. WritesAlone(x)
      BY DEF Counted, WritersAlone
    <3>3. ASSUME NEW y \in Threads, Writing(y)', op'[y].user = op'[x].user
          PROVE  y = x
      <4>1. y # t
        BY <3>1, <3>3
      <4>2. op'[y] = op[y] /\ Writing(y)
        BY <1>1, <1>2, <3>3, <4>1
      <4> QED
        BY <3>1, <3>2, <3>3, <4>2 DEF WritesAlone
    <3> QED
      BY <3>1, <3>2, <3>3 DEF WritesAlone
  <2> QED
    BY <2>1, <2>2
<1>5. FailuresCounted'
  BY DEF Counted, FailuresCounted, PastGrows
<1> QED
  BY <1>4, <1>5 DEF Counted, WritersAlone

\* The only writer of u writes its counters, and goes on with what it wrote or stops
\* writing.
LEMMA WriterActs ==
  ASSUME TypeOK, InFlow, Counted, NEW t \in Threads, Moves(t), Writing(t),
         NEW u \in Users, u = op[t].user, UserOnly(u), past'.raced = past.raced,
         \A v \in Users : v # u => past'.strikes[v] = past.strikes[v],
         Writing(t)' => /\ op'[t].user = u /\ op'[t].seen.failed = users'[u].failed
                        /\ op'[t].seen.locked = users'[u].locked,
         u \notin past.raced => /\ users'[u].failed = past'.strikes[u]
                                /\ users'[u].failed >= MaxFailedLogins => users'[u].locked # 0
  PROVE  Counted'
<1>1. \A x \in Threads : x # t => op'[x] = op[x]
  BY DEF Moves, Others
<1>2. \A x \in Threads : x # t => (Writing(x)' <=> Writing(x))
  BY <1>1 DEF Writing, At
<1>3. \A x \in Threads : x # t /\ Writing(x) /\ op[x].user = u => u \in past.raced
  BY DEF Counted, WritersAlone, WritesAlone
<1>4. ASSUME NEW x \in Threads
      PROVE  WritesAlone(x)'
  <2>1. CASE x = t
    BY <1>1, <1>2, <1>3, <2>1 DEF WritesAlone
  <2>2. CASE x # t
    <3> SUFFICES ASSUME Writing(x)', op'[x].user \notin past'.raced
                 PROVE  /\ op'[x].seen.failed = users'[op'[x].user].failed
                        /\ op'[x].seen.locked = users'[op'[x].user].locked
                        /\ \A y \in Threads : Writing(y)' /\ op'[y].user = op'[x].user => y = x
      BY DEF WritesAlone
    <3>1. op'[x] = op[x] /\ Writing(x) /\ op[x].user \notin past.raced /\ op[x].user # u
      BY <1>1, <1>2, <1>3, <2>2
    <3>2. WritesAlone(x) /\ op[x].user \in Users
      BY <3>1, WhoIsAt DEF Counted, WritersAlone, Writing, At
    <3>3. users'[op[x].user] = users[op[x].user]
      BY <3>1, <3>2 DEF UserOnly
    <3>4. ASSUME NEW y \in Threads, Writing(y)', op'[y].user = op'[x].user
          PROVE  y = x
      <4>1. y # t
        BY <3>1, <3>4
      <4> QED
        BY <1>1, <1>2, <3>1, <3>2, <3>4, <4>1 DEF WritesAlone
    <3> QED
      BY <3>1, <3>2, <3>3, <3>4 DEF WritesAlone
  <2> QED
    BY <2>1, <2>2
<1>5. FailuresCounted'
  BY DEF Counted, FailuresCounted, UserOnly
<1> QED
  BY <1>4, <1>5 DEF Counted, WritersAlone

\* No step of a request miscounts the failures of a user that is not raced.
LEMMA CountsStep ==
  ASSUME TypeOK, InFlow, FoundOut, Counted, NEW t \in Threads, Step(t)
  PROVE  Counted'
<1>1. CASE LoginLoad(t)
  <2>1. PICK u : u = op[t].user
    OBVIOUS
  <2>2. /\ TypeOK' /\ Moves(t) /\ PastGrows /\ users' = users
        /\ op'[t].rest # <<>> =>
              /\ u \in Users /\ op'[t].user = u /\ op'[t].seen = users[u]
              /\ Raced(u) => u \in past'.raced
    BY <1>1, <2>1, LoginLoadDoes DEF LoginLoad
  <2>3. CASE op'[t].rest # <<>>
    BY <2>2, <2>3, WriterJoins
  <2>4. CASE op'[t].rest = <<>>
    <3>1. past'.strikes = past.strikes /\ past.raced \subseteq past'.raced
      BY <2>2 DEF PastGrows
    <3> QED
      BY <2>2, <2>4, <3>1, WritersAway, CountsAsBefore, MovesTouch DEF Away
  <2> QED
    BY <2>3, <2>4
<1>2. CASE CheckLock(t)
  <2>1. /\ Moves(t) /\ users' = users /\ past' = past /\ At(t, "check")
        /\ op'[t].rest # <<>> =>
             op'[t].user = op[t].user /\ op'[t].seen = op[t].seen
    BY <1>2, CheckLockDoes DEF CheckLock
  <2>2. \A x \in Threads : Writing(x)' => /\ Writing(x) /\ op'[x].user = op[x].user
                                          /\ op'[x].seen = op[x].seen
    BY <2>1 DEF Moves, Others, Writing, At
  <2>3. \A x \in Threads : op[x].user \in Users \/ ~Writing(x)
    BY WhoIsAt DEF Writing, At
  <2> QED
    BY <2>1, <2>2, <2>3, CountsAsBefore, WritersKept
<1>3. CASE WrongPassword(t)
  <2>1. PICK u : u = op[t].user
    OBVIOUS
  <2>2. /\ TypeOK' /\ Moves(t) /\ u \in Users /\ UserOnly(u) /\ Writing(t) /\ ~Writing(t)'
        /\ users'[u].failed = op[t].seen.failed + 1
        /\ op[t].seen.failed + 1 >= MaxFailedLogins => users'[u].locked # 0
        /\ past'.raced = past.raced
        /\ past'.strikes = [past.strikes EXCEPT ![u] = @ + 1]
    BY <1>3, <2>1, WrongPasswordDoes DEF WrongPassword, Writing, At
  <2>3. past.strikes \in [Users -> Nat]
    BY DEF TypeOK, Past
  <2>4. past'.strikes[u] = past.strikes[u] + 1
        /\ \A v \in Users : v # u => past'.strikes[v] = past.strikes[v]
    BY <2>2, <2>3
  <2>5. u \notin past.raced => op[t].seen.failed = users[u].failed
                               /\ users[u].failed = past.strikes[u]
    BY <2>1, <2>2 DEF Counted, WritersAlone, WritesAlone, FailuresCounted
  <2> QED
    BY <2>1, <2>2, <2>4, <2>5, WriterActs
<1>4. CASE AuditLock(t)
  <2>1. /\ Moves(t) /\ users' = users /\ past' = past /\ op'[t].rest = <<>>
    BY <1>4, AuditLockDoes DEF AuditLock
  <2> QED
    BY <2>1, WritersAway, CountsAsBefore, MovesTouch DEF Away
<1>5. CASE RightPassword(t)
  <2>1. PICK u : u = op[t].user
    OBVIOUS
  <2>2. /\ Moves(t) /\ u \in Users /\ UserOnly(u) /\ Writing(t)
        /\ past'.raced = past.raced
        /\ \/ op'[t].rest = <<>> /\ users' = users /\ past' = past
           \/ /\ users'[u].failed = IF op[t].seen.failed # 0 THEN 0 ELSE users[u].failed
              /\ past'.strikes = [past.strikes EXCEPT ![u] = 0]
              /\ op'[t].rest # <<>> => op'[t].user = u /\ op'[t].seen = users'[u]
    BY <1>5, <2>1, RightPasswordDoes DEF RightPassword, Writing
  <2>3. CASE op'[t].rest = <<>> /\ users' = users /\ past' = past
    BY <2>2, <2>3, WritersAway, CountsAsBefore, MovesTouch DEF Away
  <2>4. CASE /\ users'[u].failed = IF op[t].seen.failed # 0 THEN 0 ELSE users[u].failed
             /\ past'.strikes = [past.strikes EXCEPT ![u] = 0]
             /\ op'[t].rest # <<>> => op'[t].user = u /\ op'[t].seen = users'[u]
    <3>1. past.strikes \in [Users -> Nat]
      BY DEF TypeOK, Past
    <3>2. past'.strikes[u] = 0 /\ \A v \in Users : v # u => past'.strikes[v] = past.strikes[v]
      BY <2>2, <2>4, <3>1
    <3>3. u \notin past.raced => op[t].seen.failed = users[u].failed
      BY <2>1, <2>2 DEF Counted, WritersAlone, WritesAlone
    <3>4. u \notin past.raced => users'[u].failed = 0
      BY <2>4, <3>3
    <3>5. Writing(t)' => op'[t].user = u /\ op'[t].seen = users'[u]
      BY <2>4 DEF Writing, At
    <3>6. ~(0 >= MaxFailedLogins)
      BY AccountsAssumption
    <3> QED
      BY <2>1, <2>2, <3>2, <3>4, <3>5, <3>6, WriterActs
  <2> QED
    BY <2>2, <2>3, <2>4
<1>6. CASE Issue(t)
  <2>1. /\ Moves(t) /\ users' = users /\ past' = past /\ op'[t].rest = <<>>
    BY <1>6, IssueDoes DEF Issue
  <2> QED
    BY <2>1, WritersAway, CountsAsBefore, MovesTouch DEF Away
<1>7. CASE SessionLoad(t)
  <2>1. /\ Moves(t) /\ users' = users /\ past' = past
        /\ op'[t].rest # <<>> => Head(op'[t].rest) \in {"claim", "logout"}
    BY <1>7, SessionLoadDoes DEF SessionLoad
  <2> QED
    BY <2>1, WritersAway, CountsAsBefore, MovesTouch DEF Away
<1>8. CASE Claim(t)
  <2>1. /\ Moves(t) /\ users' = users /\ past' = past
        /\ op'[t].rest # <<>> => Head(op'[t].rest) \in {"account", "revoke_all"}
    BY <1>8, ClaimDoes DEF Claim
  <2> QED
    BY <2>1, WritersAway, CountsAsBefore, MovesTouch DEF Away
<1>9. CASE Account(t)
  <2>1. /\ Moves(t) /\ users' = users /\ past' = past
        /\ op'[t].rest # <<>> => Head(op'[t].rest) = "issue"
    BY <1>9, AccountDoes DEF Account
  <2> QED
    BY <2>1, WritersAway, CountsAsBefore, MovesTouch DEF Away
<1>10. CASE Logout(t)
  <2>1. /\ Moves(t) /\ users' = users /\ past' = past /\ op'[t].rest = <<>>
    BY <1>10, LogoutDoes DEF Logout
  <2> QED
    BY <2>1, WritersAway, CountsAsBefore, MovesTouch DEF Away
<1>11. CASE RevokeAll(t)
  <2>1. /\ users' = users /\ past' = past /\ op'[t].rest = <<>>
        /\ \A x \in Threads : x # t => Touched(op[x], op'[x])
    BY <1>11, RevokeAllDoes DEF RevokeAll
  <2> QED
    BY <2>1, WritersAway, CountsAsBefore DEF Away
<1>12. CASE Resolve(t)
  <2>1. PICK u : u = op[t].req.by
    OBVIOUS
  <2>2. /\ Moves(t) /\ PastGrows /\ u \in Users /\ users' = users
        /\ op'[t].rest # <<>> =>
              /\ op'[t].seen = users[u]
              /\ \/ op'[t].user = u /\ (Raced(u) => u \in past'.raced)
                 \/ Head(op'[t].rest)
                      \in {"target", "revoke_all", "register", "create_key", "revoke_key"}
    BY <1>12, <2>1, ResolveDoes DEF Resolve, WellFormed
  <2>3. CASE /\ op'[t].rest # <<>>
             /\ op'[t].user = u /\ (Raced(u) => u \in past'.raced)
    BY <2>2, <2>3, WriterJoins
  <2>4. CASE Away(t, {"check", "verify", "set_password"})
    <3>1. past'.strikes = past.strikes /\ past.raced \subseteq past'.raced
      BY <2>2 DEF PastGrows
    <3> QED
      BY <2>2, <2>4, <3>1, WritersAway, CountsAsBefore, MovesTouch
  <2> QED
    BY <2>2, <2>3, <2>4 DEF Away
<1>13. CASE SetPassword(t)
  <2>1. PICK u : u = op[t].user
    OBVIOUS
  <2>2. /\ Moves(t) /\ u \in Users /\ UserOnly(u) /\ Writing(t) /\ ~Writing(t)'
        /\ past'.raced = past.raced
        /\ users'[u].failed = IF op[t].seen.failed # 0 THEN 0 ELSE users[u].failed
        /\ past'.strikes = [past.strikes EXCEPT ![u] = 0]
    BY <1>13, <2>1, SetPasswordDoes DEF SetPassword, Writing, At
  <2>3. past.strikes \in [Users -> Nat]
    BY DEF TypeOK, Past
  <2>4. past'.strikes[u] = 0 /\ \A v \in Users : v # u => past'.strikes[v] = past.strikes[v]
    BY <2>2, <2>3
  <2>5. u \notin past.raced => op[t].seen.failed = users[u].failed
    BY <2>1, <2>2 DEF Counted, WritersAlone, WritesAlone
  <2>6. u \notin past.raced => users'[u].failed = 0
    BY <2>2, <2>5
  <2>7. ~(0 >= MaxFailedLogins)
    BY AccountsAssumption
  <2> QED
    BY <2>1, <2>2, <2>4, <2>6, <2>7, WriterActs
<1>14. CASE UpdateTarget(t)
  <2>1. /\ Moves(t) /\ users' = users /\ past' = past
        /\ op'[t].rest # <<>> => Head(op'[t].rest) = "set_role"
    BY <1>14, UpdateTargetDoes DEF UpdateTarget
  <2> QED
    BY <2>1, WritersAway, CountsAsBefore, MovesTouch DEF Away
<1>15. CASE RejectRole(t) \/ NameTaken(t)
  <2>1. /\ Moves(t) /\ users' = users /\ past' = past /\ op'[t].rest = <<>>
    BY <1>15, RejectionsDo DEF Ends
  <2> QED
    BY <2>1, WritersAway, CountsAsBefore, MovesTouch DEF Away
<1>16. CASE SetRole(t)
  <2>1. PICK u : u = op[t].req.user
    OBVIOUS
  <2>2. /\ Moves(t) /\ past' = past /\ u \in Users /\ UserOnly(u)
        /\ users'[u].failed = users[u].failed /\ users'[u].locked = users[u].locked
        /\ op'[t].rest # <<>> => Head(op'[t].rest) = "set_active"
    BY <1>16, <2>1, SetRoleDoes DEF SetRole
  <2>3. CountsStand
    BY <2>2 DEF CountsStand, UserOnly
  <2> QED
    BY <2>2, <2>3, WritersAway, MovesTouch DEF Away
<1>17. CASE SetActive(t)
  <2>1. PICK u : u = op[t].req.user
    OBVIOUS
  <2>2. /\ Moves(t) /\ past' = past /\ u \in Users /\ UserOnly(u)
        /\ users'[u].failed = users[u].failed /\ users'[u].locked = users[u].locked
        /\ op'[t].rest # <<>> => Head(op'[t].rest) = "revoke_all"
    BY <1>17, <2>1, SetActiveDoes DEF SetActive
  <2>3. CountsStand
    BY <2>2 DEF CountsStand, UserOnly
  <2> QED
    BY <2>2, <2>3, WritersAway, MovesTouch DEF Away
<1>18. CASE NameFree(t)
  <2>1. /\ Moves(t) /\ users' = users /\ past' = past
        /\ op'[t].rest # <<>> => Head(op'[t].rest) = "insert"
    BY <1>18, NameFreeDoes DEF NameFree
  <2> QED
    BY <2>1, WritersAway, CountsAsBefore, MovesTouch DEF Away
<1>19. CASE InsertUser(t)
  <2>1. PICK u : u = op[t].user
    OBVIOUS
  <2>2. /\ Moves(t) /\ past' = past /\ u \in Users /\ UserOnly(u) /\ op'[t].rest = <<>>
        /\ users'[u].failed = users[u].failed /\ users'[u].locked = users[u].locked
    BY <1>19, <2>1, InsertUserDoes DEF InsertUser
  <2>3. CountsStand
    BY <2>2 DEF CountsStand, UserOnly
  <2> QED
    BY <2>2, <2>3, WritersAway, MovesTouch DEF Away
<1>20. CASE CreateKey(t) \/ RevokeKey(t)
  <2>1. /\ Moves(t) /\ users' = users /\ past' = past /\ op'[t].rest = <<>>
    BY <1>20, CreateKeyDoes, RevokeKeyDoes DEF Ends
  <2> QED
    BY <2>1, WritersAway, CountsAsBefore, MovesTouch DEF Away
<1> QED
  BY <1>1, <1>2, <1>3, <1>4, <1>5, <1>6, <1>7, <1>8, <1>9, <1>10, <1>11, <1>12, <1>13,
     <1>14, <1>15, <1>16, <1>17, <1>18, <1>19, <1>20 DEF Step

-----------------------------------------------------------------------------
(* The audit trail. *)

\* The threads that are about to write that u was locked.
Pend(u) == {x \in Threads : At(x, "audit") /\ op[x].user = u}

\* What is written or about to be, of a finite number of threads, is a number.
LEMMA PendIs ==
  ASSUME NEW u
  PROVE  /\ IsFiniteSet(Pend(u)) /\ Cardinality(Pend(u)) \in Nat
         /\ IsFiniteSet(Pend(u)') /\ Cardinality(Pend(u)') \in Nat
<1>1. Pend(u) \subseteq Threads /\ Pend(u)' \subseteq Threads
  BY DEF Pend
<1> QED
  BY <1>1, AccountsAssumption, FS_Subset, FS_CardinalityType

\* One user's books stand when nobody new is about to write and no lock is undone.
LEMMA BookKept ==
  ASSUME TypeOK, TypeOK', NEW u \in Users,
         audited[u] + Cardinality(Pend(u)) <= past.locks[u],
         audited'[u] = audited[u], past'.locks[u] >= past.locks[u],
         Pend(u)' \subseteq Pend(u)
  PROVE  audited'[u] + Cardinality(Pend(u)') <= past'.locks[u]
<1>1. Cardinality(Pend(u)') <= Cardinality(Pend(u))
  BY PendIs, FS_Subset
<1>2. /\ audited[u] \in Nat /\ past.locks[u] \in Nat /\ past'.locks[u] \in Nat
      /\ Cardinality(Pend(u)) \in Nat /\ Cardinality(Pend(u)') \in Nat
  BY PendIs DEF TypeOK, Past
<1> QED
  BY <1>1, <1>2

\* The books, in terms of Pend.
LEMMA BooksAre ==
  /\ AuditedLocksHappened <=>
       \A u \in Users : audited[u] + Cardinality(Pend(u)) <= past.locks[u]
  /\ AuditedLocksHappened' <=>
       \A u \in Users : audited'[u] + Cardinality(Pend(u)') <= past'.locks[u]
BY DEF AuditedLocksHappened, Pend

\* The thread that moves is not about to write to the audit trail.
LEMMA AuditAway ==
  ASSUME TypeOK, TypeOK', AuditedLocksHappened, audited' = audited,
         past'.locks = past.locks, NEW t \in Threads,
         \A x \in Threads : x # t => Touched(op[x], op'[x]), Away(t, {"audit"})
  PROVE  AuditedLocksHappened'
<1>1. ASSUME NEW u \in Users
      PROVE  audited'[u] + Cardinality(Pend(u)') <= past'.locks[u]
  <2>1. Pend(u)' \subseteq Pend(u)
    BY DEF Pend, Away, At, Touched
  <2>2. past.locks[u] \in Nat
    BY DEF TypeOK, Past
  <2> QED
    BY <2>1, <2>2, BookKept, BooksAre
<1> QED
  BY <1>1, BooksAre

\* No step of a request audits a lock that was not committed.
LEMMA AuditStep ==
  ASSUME TypeOK, InFlow, FoundOut, AuditedLocksHappened, TypeOK', NEW t \in Threads, Step(t)
  PROVE  AuditedLocksHappened'
<1>1. CASE LoginLoad(t) \/ Resolve(t)
  <2>1. /\ Moves(t) /\ PastGrows /\ audited' = audited
        /\ op'[t].rest # <<>> =>
              Head(op'[t].rest)
                 \in {"check", "target", "revoke_all", "register", "create_key", "revoke_key"}
    BY <1>1, LoginLoadDoes, ResolveDoes DEF LoginLoad, Resolve
  <2> QED
    BY <2>1, AuditAway, MovesTouch DEF Away, PastGrows
<1>2. CASE CheckLock(t)
  <2>1. /\ Moves(t) /\ audited' = audited /\ past' = past
        /\ op'[t].rest # <<>> => Head(op'[t].rest) = "verify"
    BY <1>2, CheckLockDoes DEF CheckLock
  <2> QED
    BY <2>1, AuditAway, MovesTouch DEF Away
<1>3. CASE WrongPassword(t)
  <2>1. PICK u : u = op[t].user
    OBVIOUS
  <2>2. /\ Moves(t) /\ u \in Users /\ audited' = audited /\ ~At(t, "audit")
        /\ \A v \in Users : v # u => past'.locks[v] = past.locks[v]
        /\ past'.locks[u] \in {past.locks[u], past.locks[u] + 1}
        /\ op'[t].rest # <<>> => /\ op'[t].user = u
                                 /\ past'.locks[u] = past.locks[u] + 1
    BY <1>3, <2>1, WrongPasswordDoes DEF WrongPassword, At
  <2>3. past.locks \in [Users -> Nat] /\ past'.locks \in [Users -> Nat]
    BY DEF TypeOK, Past
  <2>4. ASSUME NEW v \in Users
        PROVE  audited'[v] + Cardinality(Pend(v)') <= past'.locks[v]
    <3>1. audited[v] + Cardinality(Pend(v)) <= past.locks[v]
      BY BooksAre
    <3>2. CASE op'[t].rest = <<>> \/ v # u
      <4>1. Pend(v)' \subseteq Pend(v)
        BY <2>2, <3>2 DEF Pend, At, Moves, Others
      <4>2. past'.locks[v] >= past.locks[v]
        BY <2>2, <2>3
      <4> QED
        BY <2>2, <3>1, <4>1, <4>2, BookKept
    <3>3. CASE op'[t].rest # <<>> /\ v = u
      <4>1. Pend(v)' \subseteq Pend(v) \cup {t}
        BY <2>2 DEF Pend, At, Moves, Others
      <4>2. t \notin Pend(v)
        BY <2>2 DEF Pend
      <4>3. Cardinality(Pend(v) \cup {t}) = Cardinality(Pend(v)) + 1
            /\ IsFiniteSet(Pend(v) \cup {t})
        BY <4>2, PendIs, FS_AddElement
      <4>4. Cardinality(Pend(v)') <= Cardinality(Pend(v)) + 1
        BY <4>1, <4>3, FS_Subset
      <4>5. /\ audited[v] \in Nat /\ Cardinality(Pend(v)) \in Nat
            /\ Cardinality(Pend(v)') \in Nat
        BY PendIs DEF TypeOK
      <4> QED
        BY <2>2, <2>3, <3>1, <3>3, <4>4, <4>5
    <3> QED
      BY <3>2, <3>3
  <2> QED
    BY <2>4, BooksAre
<1>4. CASE AuditLock(t)
  <2>1. PICK u : u = op[t].user
    OBVIOUS
  <2>2. /\ Moves(t) /\ u \in Users /\ past' = past /\ At(t, "audit") /\ op'[t].rest = <<>>
        /\ \A v \in Users : v # u => audited'[v] = audited[v]
        /\ audited'[u] \in {audited[u], audited[u] + 1}
    BY <1>4, <2>1, AuditLockDoes DEF AuditLock
  <2>3. past.locks \in [Users -> Nat]
    BY DEF TypeOK, Past
  <2>4. ASSUME NEW v \in Users
        PROVE  audited'[v] + Cardinality(Pend(v)') <= past'.locks[v]
    <3>1. audited[v] + Cardinality(Pend(v)) <= past.locks[v]
      BY BooksAre
    <3>2. CASE v # u
      <4>1. Pend(v)' \subseteq Pend(v)
        BY <2>2 DEF Pend, At, Moves, Others
      <4>2. past'.locks[v] >= past.locks[v]
        BY <2>2, <2>3
      <4> QED
        BY <2>2, <3>1, <3>2, <4>1, <4>2, BookKept
    <3>3. CASE v = u
      <4>1. Pend(v)' \subseteq Pend(v) \ {t}
        BY <2>2 DEF Pend, At, Moves, Others
      <4>2. t \in Pend(v)
        BY <2>1, <2>2, <3>3 DEF Pend
      <4>3. Cardinality(Pend(v) \ {t}) = Cardinality(Pend(v)) - 1
            /\ IsFiniteSet(Pend(v) \ {t})
        BY <4>2, PendIs, FS_RemoveElement
      <4>4. Cardinality(Pend(v)') <= Cardinality(Pend(v)) - 1
        BY <4>1, <4>3, FS_Subset
      <4>5. /\ audited[v] \in Nat /\ Cardinality(Pend(v)) \in Nat
            /\ Cardinality(Pend(v)') \in Nat
        BY PendIs DEF TypeOK
      <4> QED
        BY <2>2, <2>3, <3>1, <3>3, <4>4, <4>5
    <3> QED
      BY <3>2, <3>3
  <2> QED
    BY <2>4, BooksAre
<1>5. CASE RightPassword(t)
  <2>1. /\ Moves(t) /\ audited' = audited /\ past'.locks = past.locks
        /\ op'[t].rest # <<>> => Head(op'[t].rest) \in {"issue", "set_password"}
    BY <1>5, RightPasswordDoes DEF RightPassword
  <2> QED
    BY <2>1, AuditAway, MovesTouch DEF Away
<1>6. CASE Issue(t) \/ Logout(t)
  <2>1. /\ Moves(t) /\ audited' = audited /\ past' = past /\ op'[t].rest = <<>>
    BY <1>6, IssueDoes, LogoutDoes DEF Issue, Logout
  <2> QED
    BY <2>1, AuditAway, MovesTouch DEF Away
<1>7. CASE SessionLoad(t) \/ Claim(t) \/ Account(t)
  <2>1. /\ Moves(t) /\ audited' = audited /\ past' = past
        /\ op'[t].rest # <<>> =>
             Head(op'[t].rest) \in {"claim", "logout", "account", "revoke_all", "issue"}
    BY <1>7, SessionLoadDoes, ClaimDoes, AccountDoes DEF SessionLoad, Claim, Account
  <2> QED
    BY <2>1, AuditAway, MovesTouch DEF Away
<1>8. CASE RevokeAll(t)
  <2>1. /\ audited' = audited /\ past' = past /\ op'[t].rest = <<>>
        /\ \A x \in Threads : x # t => Touched(op[x], op'[x])
    BY <1>8, RevokeAllDoes DEF RevokeAll
  <2> QED
    BY <2>1, AuditAway DEF Away
<1>9. CASE SetPassword(t)
  <2>1. /\ Moves(t) /\ audited' = audited /\ past'.locks = past.locks
        /\ op'[t].rest # <<>> => Head(op'[t].rest) = "revoke_all"
    BY <1>9, SetPasswordDoes DEF SetPassword
  <2> QED
    BY <2>1, AuditAway, MovesTouch DEF Away
<1>10. CASE UpdateTarget(t) \/ SetRole(t) \/ SetActive(t) \/ NameFree(t)
  <2>1. /\ Moves(t) /\ audited' = audited /\ past' = past
        /\ op'[t].rest # <<>> =>
             Head(op'[t].rest) \in {"set_role", "set_active", "revoke_all", "insert"}
    BY <1>10, UpdateTargetDoes, SetRoleDoes, SetActiveDoes, NameFreeDoes
       DEF UpdateTarget, SetRole, SetActive, NameFree
  <2> QED
    BY <2>1, AuditAway, MovesTouch DEF Away
<1>11. CASE InsertUser(t) \/ RejectRole(t) \/ NameTaken(t) \/ CreateKey(t) \/ RevokeKey(t)
  <2>1. /\ Moves(t) /\ audited' = audited /\ past' = past /\ op'[t].rest = <<>>
    BY <1>11, InsertUserDoes, RejectionsDo, CreateKeyDoes, RevokeKeyDoes
       DEF InsertUser, Ends
  <2> QED
    BY <2>1, AuditAway, MovesTouch DEF Away
<1> QED
  BY <1>1, <1>2, <1>3, <1>4, <1>5, <1>6, <1>7, <1>8, <1>9, <1>10, <1>11 DEF Step

-----------------------------------------------------------------------------
(* Somebody administers. *)

Admin(v) == users[v].active /\ users[v].role = "admin"
Ruled == UpdatersKeepAdmin /\ AdminRemains

\* Who administers still does, and requests that overlapped have done so for good.
AdminsStand == /\ \A v \in Users : Admin(v) => Admin(v)'
               /\ past.overlapped => past'.overlapped

\* No thread but those that are changing an account goes on changing one.
LEMMA AdminsKept ==
  ASSUME TypeOK, InFlow, Ruled, AdminsStand,
         \A x \in Threads : Updating(x)' =>
            /\ Updating(x) /\ op'[x].req = op[x].req
            /\ At(x, "target") => At(x, "target")'
            /\ At(x, "set_active")' => At(x, "set_active")
  PROVE  Ruled'
<1>1. ASSUME NEW x \in Threads
      PROVE  KeepsAdmin(x)'
  <2>1. CASE ~Updating(x)'
    BY <2>1 DEF KeepsAdmin, Updating
  <2>2. CASE Updating(x)'
    <3>1. /\ Updating(x) /\ op'[x].req = op[x].req
          /\ At(x, "target") => At(x, "target")'
          /\ At(x, "set_active")' => At(x, "set_active")
      BY <2>2
    <3>2. KeepsAdmin(x)
      BY DEF Ruled, UpdatersKeepAdmin
    <3>3. op[x].req.by \in Users
      BY <3>1, WhoIsAt DEF Updating, At, WellFormed
    <3>4. ~past'.overlapped =>
            /\ Admin(op[x].req.by) /\ users'[op[x].req.by].active
            /\ users'[op[x].req.by].role = "admin"
      BY <3>1, <3>2, <3>3 DEF KeepsAdmin, AdminsStand, Admin
    <3>5. ~past'.overlapped => ~past.overlapped
      BY DEF AdminsStand
    <3>6. ~past.overlapped => \A y \in Threads : Updating(y) => y = x
      BY <3>1, <3>2 DEF KeepsAdmin
    <3>7. ~past.overlapped => \A y \in Threads : Updating(y)' => y = x
      BY <3>6
    <3>8. At(x, "set_active")' => op'[x].req.active # "keep"
      BY <3>1, <3>2 DEF KeepsAdmin
    <3>9. ~past.overlapped /\ ~At(x, "target")' /\ op'[x].req.by = op'[x].req.user =>
              op'[x].req.active # "no" /\ op'[x].req.role \in {"keep", "admin"}
      BY <3>1, <3>2 DEF KeepsAdmin
    <3> QED
      BY <3>1, <3>4, <3>5, <3>7, <3>8, <3>9 DEF KeepsAdmin
  <2> QED
    BY <2>1, <2>2
<1>2. AdminRemains'
  BY DEF Ruled, AdminRemains, SomeAdmin, AdminsStand, Admin
<1> QED
  BY <1>1, <1>2 DEF Ruled, UpdatersKeepAdmin

\* The thread that moves does not change an account.
LEMMA AdminsAway ==
  ASSUME TypeOK, InFlow, Ruled, AdminsStand, NEW t \in Threads,
         \A x \in Threads : x # t => Touched(op[x], op'[x]),
         Away(t, {"target", "set_role", "set_active"})
  PROVE  Ruled'
<1>1. ASSUME NEW x \in Threads, Updating(x)'
      PROVE  /\ Updating(x) /\ op'[x].req = op[x].req
             /\ At(x, "target") => At(x, "target")'
             /\ At(x, "set_active")' => At(x, "set_active")
  <2>1. x # t
    BY <1>1 DEF Away, Updating, At
  <2> QED
    BY <1>1, <2>1 DEF Touched, Updating, At
<1> QED
  BY <1>1, AdminsKept

\* Rows that are not written keep their administrators.
LEMMA AdminsAsBefore ==
  ASSUME users' = users, past'.overlapped = past.overlapped \/ PastGrows
  PROVE  AdminsStand
BY DEF AdminsStand, Admin, PastGrows

\* A step that leaves the role of user u and does not deactivate it.
LEMMA OneRowRules ==
  ASSUME NEW u \in Users, UserOnly(u), past'.overlapped = past.overlapped,
         users'[u].role = users[u].role \/ ~users[u].active,
         users[u].active => users'[u].active
  PROVE  AdminsStand
BY DEF AdminsStand, Admin, UserOnly

\* An administrator who changes an account is alone, and remains one.
LEMMA AdminActs ==
  ASSUME TypeOK, InFlow, Ruled, NEW t \in Threads, Moves(t), Updating(t), past' = past,
         NEW b \in Users, b = op[t].req.by, ~past.overlapped => Admin(b)',
         ~At(t, "target")',
         Updating(t)' =>
            /\ op'[t].req = op[t].req
            /\ ~past.overlapped /\ b = op[t].req.user =>
                  op[t].req.active # "no" /\ op[t].req.role \in {"keep", "admin"},
         At(t, "set_active")' => op'[t].req.active # "keep"
  PROVE  Ruled'
<1>1. \A x \in Threads : x # t => op'[x] = op[x]
  BY DEF Moves, Others
<1>2. \A x \in Threads : x # t => (Updating(x)' <=> Updating(x))
  BY <1>1 DEF Updating, At
<1>3. ~past.overlapped => \A x \in Threads : Updating(x) => x = t
  BY DEF Ruled, UpdatersKeepAdmin, KeepsAdmin
<1>4. ASSUME NEW x \in Threads
      PROVE  KeepsAdmin(x)'
  <2>1. CASE x = t
    <3>1. ~past.overlapped => \A y \in Threads : Updating(y)' => y = t
      BY <1>2, <1>3
    <3>2. ~past.overlapped /\ Updating(t)' => users'[b].active /\ users'[b].role = "admin"
      BY DEF Admin
    <3> QED
      BY <2>1, <3>1, <3>2 DEF KeepsAdmin
  <2>2. CASE x # t
    <3>1. op'[x] = op[x]
      BY <1>1, <2>2
    <3>2. At(x, "set_active")' => op'[x].req.active # "keep"
      BY <3>1 DEF At, Ruled, UpdatersKeepAdmin, KeepsAdmin
    <3>3. Updating(x)' => past'.overlapped
      BY <1>2, <1>3, <2>2
    <3> QED
      BY <3>2, <3>3 DEF KeepsAdmin
  <2> QED
    BY <2>1, <2>2
<1>5. AdminRemains'
  BY DEF Ruled, AdminRemains, SomeAdmin, Admin
<1> QED
  BY <1>4, <1>5 DEF Ruled, UpdatersKeepAdmin

\* No step of a request takes the last administrator, unless two overlapped.
LEMMA AdminStep ==
  ASSUME TypeOK, InFlow, FoundOut, Ruled, NEW t \in Threads, Step(t)
  PROVE  Ruled'
<1>1. CASE LoginLoad(t)
  <2>1. /\ Moves(t) /\ PastGrows /\ users' = users
        /\ op'[t].rest # <<>> => Head(op'[t].rest) = "check"
    BY <1>1, LoginLoadDoes DEF LoginLoad
  <2> QED
    BY <2>1, AdminsAway, AdminsAsBefore, MovesTouch DEF Away
<1>2. CASE CheckLock(t) \/ SessionLoad(t) \/ Claim(t) \/ Account(t) \/ NameFree(t)
  <2>1. /\ Moves(t) /\ past' = past /\ users' = users
        /\ op'[t].rest # <<>> =>
             Head(op'[t].rest)
                \in {"verify", "claim", "logout", "account", "revoke_all", "issue", "insert"}
    BY <1>2, CheckLockDoes, SessionLoadDoes, ClaimDoes, AccountDoes, NameFreeDoes
       DEF CheckLock, SessionLoad, Claim, Account, NameFree
  <2> QED
    BY <2>1, AdminsAway, AdminsAsBefore, MovesTouch DEF Away
<1>3. CASE WrongPassword(t)
  <2>1. PICK u : u = op[t].user
    OBVIOUS
  <2>2. /\ Moves(t) /\ u \in Users /\ UserOnly(u) /\ past'.overlapped = past.overlapped
        /\ users'[u].role = users[u].role /\ users'[u].active = users[u].active
        /\ op'[t].rest # <<>> => Head(op'[t].rest) = "audit"
    BY <1>3, <2>1, WrongPasswordDoes
  <2> QED
    BY <2>2, AdminsAway, OneRowRules, MovesTouch DEF Away
<1>4. CASE AuditLock(t) \/ Issue(t) \/ Logout(t)
  <2>1. /\ Moves(t) /\ past' = past /\ users' = users /\ op'[t].rest = <<>>
    BY <1>4, AuditLockDoes, IssueDoes, LogoutDoes DEF AuditLock, Issue, Logout
  <2> QED
    BY <2>1, AdminsAway, AdminsAsBefore, MovesTouch DEF Away
<1>5. CASE RightPassword(t)
  <2>1. PICK u : u = op[t].user
    OBVIOUS
  <2>2. /\ Moves(t) /\ u \in Users /\ UserOnly(u) /\ past'.overlapped = past.overlapped
        /\ users'[u].role = users[u].role /\ users'[u].active = users[u].active
        /\ op'[t].rest # <<>> => Head(op'[t].rest) \in {"issue", "set_password"}
    BY <1>5, <2>1, RightPasswordDoes
  <2> QED
    BY <2>2, AdminsAway, OneRowRules, MovesTouch DEF Away
<1>6. CASE RevokeAll(t)
  <2>1. /\ users' = users /\ past' = past /\ op'[t].rest = <<>>
        /\ \A x \in Threads : x # t => Touched(op[x], op'[x])
    BY <1>6, RevokeAllDoes DEF RevokeAll
  <2> QED
    BY <2>1, AdminsAway, AdminsAsBefore DEF Away
<1>7. CASE Resolve(t)
  <2>1. PICK r : r = op[t].req
    OBVIOUS
  <2>2. /\ Moves(t) /\ PastGrows /\ users' = users /\ r.by \in Users
        /\ op'[t].rest # <<>> =>
              /\ op'[t].req = r /\ users[r.by].active
              /\ \/ /\ Head(op'[t].rest) = "target" /\ users[r.by].role = "admin"
                    /\ past'.overlapped \/ \A x \in Threads : ~Updating(x)
                 \/ Head(op'[t].rest)
                      \in {"check", "revoke_all", "register", "create_key", "revoke_key"}
    BY <1>7, <2>1, ResolveDoes DEF Resolve, WellFormed
  <2>3. CASE Away(t, {"target", "set_role", "set_active"})
    BY <2>2, <2>3, AdminsAway, AdminsAsBefore, MovesTouch
  <2>4. CASE /\ op'[t].rest # <<>> /\ Head(op'[t].rest) = "target"
             /\ op'[t].req = r /\ users[r.by].active /\ users[r.by].role = "admin"
             /\ past'.overlapped \/ \A x \in Threads : ~Updating(x)
    <3>1. ASSUME NEW x \in Threads
          PROVE  KeepsAdmin(x)'
      <4>1. \A y \in Threads : y # t => op'[y] = op[y] /\ (Updating(y)' <=> Updating(y))
        BY <2>2 DEF Moves, Others, Updating, At
      <4>2. CASE x = t
        BY <2>2, <2>4, <4>1, <4>2 DEF KeepsAdmin, At
      <4>3. CASE x # t
        <5>1. At(x, "set_active")' => op'[x].req.active # "keep"
          BY <4>1, <4>3 DEF At, Ruled, UpdatersKeepAdmin, KeepsAdmin
        <5>2. Updating(x)' => past'.overlapped
          BY <2>4, <4>1, <4>3
        <5> QED
          BY <5>1, <5>2 DEF KeepsAdmin
      <4> QED
        BY <4>2, <4>3
    <3>2. AdminRemains'
      BY <2>2 DEF Ruled, AdminRemains, SomeAdmin, PastGrows
    <3> QED
      BY <3>1, <3>2 DEF Ruled, UpdatersKeepAdmin
  <2> QED
    BY <2>2, <2>3, <2>4 DEF Away
<1>8. CASE SetPassword(t)
  <2>1. PICK u : u = op[t].user
    OBVIOUS
  <2>2. /\ Moves(t) /\ u \in Users /\ UserOnly(u) /\ past'.overlapped = past.overlapped
        /\ users'[u].role = users[u].role /\ users'[u].active = users[u].active
        /\ op'[t].rest # <<>> => Head(op'[t].rest) = "revoke_all"
    BY <1>8, <2>1, SetPasswordDoes
  <2> QED
    BY <2>2, AdminsAway, OneRowRules, MovesTouch DEF Away
<1>9. CASE UpdateTarget(t)
  <2>1. PICK b : b = op[t].req.by
    OBVIOUS
  <2>2. /\ Moves(t) /\ users' = users /\ past' = past /\ At(t, "target")
        /\ op'[t].rest # <<>> =>
              /\ Head(op'[t].rest) = "set_role" /\ op'[t].req = op[t].req
              /\ b = op[t].req.user =>
                    op[t].req.active # "no" /\ op[t].req.role \in {"keep", users[b].role}
    BY <1>9, <2>1, UpdateTargetDoes DEF UpdateTarget
  <2>3. b \in Users /\ Updating(t)
    BY <2>1, <2>2, WhoIsAt DEF At, WellFormed, Updating
  <2>4. ~past.overlapped => Admin(b)
    BY <2>1, <2>3 DEF Ruled, UpdatersKeepAdmin, KeepsAdmin, Admin
  <2>5. ~past.overlapped => Admin(b)'
    BY <2>2, <2>4 DEF Admin
  <2>6. ~At(t, "target")' /\ ~At(t, "set_active")'
    BY <2>2 DEF At
  <2>7. Updating(t)' =>
            /\ op'[t].req = op[t].req
            /\ ~past.overlapped /\ b = op[t].req.user =>
                  op[t].req.active # "no" /\ op[t].req.role \in {"keep", "admin"}
    BY <2>2, <2>4 DEF Updating, At, Admin
  <2> QED
    BY <2>1, <2>2, <2>3, <2>5, <2>6, <2>7, AdminActs
<1>10. CASE SetRole(t)
  <2>1. PICK b : b = op[t].req.by
    OBVIOUS
  <2>2. PICK u : u = op[t].req.user
    OBVIOUS
  <2>3. /\ Moves(t) /\ past' = past /\ At(t, "set_role") /\ u \in Users /\ UserOnly(u)
        /\ users'[u].active = users[u].active
        /\ users'[u].role \in (IF op[t].req.role = "keep" THEN {users[u].role}
                               ELSE {op[t].req.role, users[u].role})
        /\ op'[t].rest # <<>> =>
              /\ Head(op'[t].rest) = "set_active" /\ op[t].req.active # "keep"
              /\ op'[t].req = op[t].req
    BY <1>10, <2>2, SetRoleDoes DEF SetRole
  <2>4. b \in Users /\ Updating(t) /\ ~At(t, "target")
    BY <2>1, <2>3, WhoIsAt DEF At, WellFormed, Updating
  <2>5. ~past.overlapped => /\ Admin(b)
                            /\ b = u => op[t].req.active # "no"
                                        /\ op[t].req.role \in {"keep", "admin"}
    BY <2>1, <2>2, <2>4 DEF Ruled, UpdatersKeepAdmin, KeepsAdmin, Admin
  <2>6. ~past.overlapped => Admin(b)'
    <3>1. CASE b = u
      BY <2>3, <2>5, <3>1 DEF Admin
    <3>2. CASE b # u
      BY <2>3, <2>4, <2>5, <3>2 DEF Admin, UserOnly
    <3> QED
      BY <3>1, <3>2
  <2>7. ~At(t, "target")' /\ (At(t, "set_active")' => op'[t].req.active # "keep")
    BY <2>3 DEF At
  <2>8. Updating(t)' => op'[t].req = op[t].req
    BY <2>3 DEF Updating, At
  <2> QED
    BY <2>1, <2>2, <2>3, <2>4, <2>5, <2>6, <2>7, <2>8, AdminActs
<1>11. CASE SetActive(t)
  <2>1. PICK b : b = op[t].req.by
    OBVIOUS
  <2>2. PICK u : u = op[t].req.user
    OBVIOUS
  <2>3. /\ Moves(t) /\ past' = past /\ At(t, "set_active") /\ u \in Users /\ UserOnly(u)
        /\ users'[u].role = users[u].role
        /\ op[t].req.active # "no" =>
             (users[u].active => users'[u].active) \/ op[t].req.active = "keep"
        /\ op'[t].rest # <<>> => Head(op'[t].rest) = "revoke_all"
    BY <1>11, <2>2, SetActiveDoes DEF SetActive
  <2>4. b \in Users /\ Updating(t) /\ ~At(t, "target")
    BY <2>1, <2>3, WhoIsAt DEF At, WellFormed, Updating
  <2>5. /\ op[t].req.active # "keep"
        /\ ~past.overlapped => /\ Admin(b)
                               /\ b = u => op[t].req.active # "no"
    BY <2>1, <2>2, <2>3, <2>4 DEF Ruled, UpdatersKeepAdmin, KeepsAdmin, Admin
  <2>6. ~past.overlapped => Admin(b)'
    <3>1. CASE b = u
      BY <2>3, <2>5, <3>1 DEF Admin
    <3>2. CASE b # u
      BY <2>3, <2>4, <2>5, <3>2 DEF Admin, UserOnly
    <3> QED
      BY <3>1, <3>2
  <2>7. ~At(t, "target")' /\ ~At(t, "set_active")' /\ ~Updating(t)'
    BY <2>3 DEF At, Updating
  <2> QED
    BY <2>1, <2>3, <2>4, <2>6, <2>7, AdminActs
<1>12. CASE InsertUser(t)
  <2>1. PICK u : u = op[t].user
    OBVIOUS
  <2>3. /\ Moves(t) /\ u \in Users /\ UserOnly(u) /\ op'[t].rest = <<>>
        /\ users'[u].active /\ users[u] = NoUser
    BY <1>12, <2>1, InsertUserDoes
  <2>4. past' = past
    BY <1>12 DEF InsertUser
  <2>5. ~NoUser.active
    BY DEF NoUser
  <2>2. /\ Moves(t) /\ past' = past /\ u \in Users /\ UserOnly(u) /\ op'[t].rest = <<>>
        /\ users'[u].active /\ ~users[u].active
    BY <2>3, <2>4, <2>5
  <2> QED
    BY <2>2, AdminsAway, OneRowRules, MovesTouch DEF Away
<1>13. CASE RejectRole(t) \/ NameTaken(t) \/ CreateKey(t) \/ RevokeKey(t)
  <2>1. /\ Moves(t) /\ past' = past /\ users' = users /\ op'[t].rest = <<>>
    BY <1>13, RejectionsDo, CreateKeyDoes, RevokeKeyDoes DEF Ends
  <2> QED
    BY <2>1, AdminsAway, AdminsAsBefore, MovesTouch DEF Away
<1> QED
  BY <1>1, <1>2, <1>3, <1>4, <1>5, <1>6, <1>7, <1>8, <1>9, <1>10, <1>11, <1>12, <1>13
     DEF Step

-----------------------------------------------------------------------------
(* The invariant. *)

\* Every step of a request leaves every variable of its type and every list flowing.
LEMMA TypesStep ==
  ASSUME TypeOK, InFlow, FoundOut, NEW t \in Threads, Step(t)
  PROVE  TypeOK' /\ InFlow'
<1>1. CASE LoginLoad(t) \/ CheckLock(t) \/ WrongPassword(t) \/ AuditLock(t) \/ RightPassword(t)
  <2>1. TypeOK' /\ Moves(t)
    BY <1>1, LoginLoadDoes, CheckLockDoes, WrongPasswordDoes, AuditLockDoes,
       RightPasswordDoes
  <2> QED
    BY <2>1 DEF Moves
<1>2. CASE Issue(t) \/ SessionLoad(t) \/ Claim(t) \/ Account(t) \/ Logout(t)
  <2>1. TypeOK' /\ Moves(t)
    BY <1>2, IssueDoes, SessionLoadDoes, ClaimDoes, AccountDoes, LogoutDoes
  <2> QED
    BY <2>1 DEF Moves
<1>3. CASE RevokeAll(t)
  BY <1>3, RevokeAllDoes
<1>4. CASE Resolve(t) \/ SetPassword(t) \/ UpdateTarget(t) \/ SetRole(t) \/ SetActive(t)
  <2>1. TypeOK' /\ Moves(t)
    BY <1>4, ResolveDoes, SetPasswordDoes, UpdateTargetDoes, SetRoleDoes, SetActiveDoes
  <2> QED
    BY <2>1 DEF Moves
<1>5. CASE NameFree(t) \/ InsertUser(t)
  <2>1. TypeOK' /\ Moves(t)
    BY <1>5, NameFreeDoes, InsertUserDoes
  <2> QED
    BY <2>1 DEF Moves
<1>6. CASE RejectRole(t) \/ NameTaken(t) \/ CreateKey(t) \/ RevokeKey(t)
  <2>1. TypeOK' /\ Ends(t)
    BY <1>6, RejectionsDo, CreateKeyDoes, RevokeKeyDoes
  <2> QED
    BY <2>1 DEF Moves, Ends
<1> QED
  BY <1>1, <1>2, <1>3, <1>4, <1>5, <1>6 DEF Step

\* The invariant, by the groups in which its parts are proved.
LEMMA InvIs ==
  /\ AccountsInv <=> /\ TypeOK /\ InFlow /\ FoundOut /\ ClaimsExclusive /\ SingleRotation
                     /\ Ended /\ Counted /\ AuditedLocksHappened /\ Ruled
  /\ AccountsInv' <=> /\ TypeOK' /\ InFlow' /\ FoundOut' /\ ClaimsExclusive' /\ SingleRotation'
                      /\ Ended' /\ Counted' /\ AuditedLocksHappened' /\ Ruled'
<1>1. AccountsInv <=> /\ TypeOK /\ InFlow /\ FoundOut /\ ClaimsExclusive /\ SingleRotation
                      /\ Ended /\ Counted /\ AuditedLocksHappened /\ Ruled
  BY Zenon DEF AccountsInv, Ended, Counted, Ruled
<1> QED
  BY <1>1, PTL

\* Every step of a request keeps the invariant.
LEMMA StepKeeps ==
  ASSUME AccountsInv, NEW t \in Threads, Step(t)
  PROVE  AccountsInv'
<1>1. /\ TypeOK /\ InFlow /\ FoundOut /\ ClaimsExclusive /\ SingleRotation /\ Ended
      /\ Counted /\ AuditedLocksHappened /\ Ruled
  BY InvIs
<1>2. TypeOK' /\ InFlow'
  BY <1>1, TypesStep
<1>3. FoundOut'
  BY <1>1, FoundStep
<1>4. ClaimsExclusive' /\ SingleRotation'
  BY <1>1, RotationStep
<1>5. Ended'
  <2>1. UpdatersKeepAdmin
    BY <1>1 DEF Ruled
  <2> QED
    BY <1>1, <2>1, EndedStep
<1>6. Counted'
  BY <1>1, CountsStep
<1>7. AuditedLocksHappened'
  BY <1>1, <1>2, AuditStep
<1>8. Ruled'
  BY <1>1, AdminStep
<1> QED
  BY <1>2, <1>3, <1>4, <1>5, <1>6, <1>7, <1>8, InvIs

\* So does the beginning of a request.
LEMMA BeginKeeps ==
  ASSUME AccountsInv, NEW t \in Threads, NEW r \in todo, Begin(t, r)
  PROVE  AccountsInv'
<1>1. /\ TypeOK /\ InFlow /\ FoundOut /\ ClaimsExclusive /\ SingleRotation /\ Ended
      /\ Counted /\ AuditedLocksHappened /\ Ruled
  BY InvIs
<1>2. /\ TypeOK' /\ Moves(t) /\ op[t].rest = <<>>
      /\ Away(t, {"check", "verify", "set_password", "insert", "target", "set_role",
                  "set_active"})
      /\ Away(t, {"check", "verify", "set_password"})
      /\ Away(t, {"target", "set_role", "set_active"})
      /\ Away(t, {"claim", "logout", "account", "issue"})
      /\ Away(t, {"check", "verify", "claim", "account", "issue"})
      /\ Away(t, {"audit"})
  BY <1>1, BeginDoes DEF Away
<1>3. UNCHANGED <<now, users, sessions, audited, past>>
  BY DEF Begin
<1>4. InFlow' /\ \A x \in Threads : x # t => Touched(op[x], op'[x])
  BY <1>2, MovesTouch
<1>5. FoundOut'
  BY <1>1, <1>2, <1>3, FoundAway, RowsUntouched
<1>6. SessionsKept
  BY <1>1, <1>3, SessionsStay
<1>7. ClaimsExclusive' /\ SingleRotation'
  BY <1>1, <1>2, <1>6, RotationAway
<1>8. Ended'
  <2>1. StillRevoking
    BY <1>2 DEF StillRevoking, Revoking, At, Moves, Others
  <2> QED
    BY <1>1, <1>2, <1>3, <1>6, <2>1, EndedAway, RowsAsBefore
<1>9. Counted'
  BY <1>1, <1>2, <1>3, <1>4, WritersAway, CountsAsBefore
<1>10. AuditedLocksHappened'
  BY <1>1, <1>2, <1>3, <1>4, AuditAway
<1>11. Ruled'
  BY <1>1, <1>2, <1>3, <1>4, AdminsAway, AdminsAsBefore
<1> QED
  BY <1>2, <1>4, <1>5, <1>7, <1>8, <1>9, <1>10, <1>11, InvIs

\* Only the clock moves, if anything does.
LEMMA TimeKeeps ==
  ASSUME AccountsInv, TypeOK', UNCHANGED <<users, sessions, op, audited, past>>, now <= now'
  PROVE  AccountsInv'
<1>1. /\ TypeOK /\ InFlow /\ FoundOut /\ ClaimsExclusive /\ SingleRotation /\ Ended
      /\ Counted /\ AuditedLocksHappened /\ Ruled
  BY InvIs
<1>2. InFlow'
  BY <1>1 DEF InFlow
<1>3. FoundOut'
  <2>1. ASSUME NEW x \in Threads
        PROVE  Found(x)'
    <3>1. Found(x)
      BY <1>1 DEF FoundOut
    <3>2. op[x].seen.locked \in Nat /\ now \in Nat /\ now' \in Nat
      BY <1>1 DEF TypeOK, Operation, UserRow
    <3>3. At(x, "verify")' => op'[x].seen.locked <= now'
      BY <3>1, <3>2 DEF Found, At
    <3> QED
      BY <3>1, <3>3 DEF Found, At, Writing, Updating
  <2> QED
    BY <1>1, <2>1 DEF FoundOut
<1>4. ClaimsExclusive' /\ SingleRotation'
  BY <1>1, <1>3, RotationKept, SessionsStay DEF ClaimsExclusive, Holds, At, Claimed
<1>5. Ended'
  BY <1>1 DEF Ended, IssuersKnow, PasswordEndsSessions, InactiveHasNoSession, Knows,
     Excepted, Revoking, At, Live
<1>6. Counted'
  BY <1>1 DEF Counted, WritersAlone, WritesAlone, FailuresCounted, Writing, At
<1>7. AuditedLocksHappened'
  BY <1>1 DEF AuditedLocksHappened, At
<1>8. Ruled'
  BY <1>1 DEF Ruled, UpdatersKeepAdmin, KeepsAdmin, AdminRemains, SomeAdmin, Updating, At
<1> QED
  BY <1>2, <1>3, <1>4, <1>5, <1>6, <1>7, <1>8, InvIs

\* So does every step.
LEMMA NextKeeps ==
  ASSUME AccountsInv, [Next]_vars
  PROVE  AccountsInv'
<1>1. TypeOK /\ InFlow
  BY InvIs
<1>2. ASSUME NEW t \in Threads, Step(t) PROVE AccountsInv'
  BY <1>2, StepKeeps
<1>3. ASSUME NEW t \in Threads, NEW r \in todo, Begin(t, r) PROVE AccountsInv'
  BY <1>3, BeginKeeps
<1>4. CASE Tick
  BY <1>1, <1>4, TickDoes, TimeKeeps
<1>5. CASE UNCHANGED vars
  <2>1. TypeOK' /\ UNCHANGED <<users, sessions, op, audited, past>>
    BY <1>1, <1>5 DEF vars, TypeOK
  <2>2. now <= now'
    BY <1>1, <1>5 DEF vars, TypeOK
  <2> QED
    BY <2>1, <2>2, TimeKeeps
<1> QED
  BY <1>2, <1>3, <1>4, <1>5 DEF Next

\* A database with its first administrator satisfies the invariant.
LEMMA InitHolds == Init => AccountsInv
<1> SUFFICES ASSUME Init
             PROVE  AccountsInv
  OBVIOUS
<1> PICK s \in Scenarios :
      /\ todo = s.requests
      /\ users = [u \in Users |->
           IF u \in s.admins
           THEN [NoUser EXCEPT !.exists = TRUE, !.active = TRUE, !.role = "admin"]
           ELSE NoUser]
      /\ access = [u \in Users |-> IF u \in s.admins
                                    THEN encode_token("access", AccessTTL) ELSE NoToken]
  BY DEF Init
<1>1. /\ now = 1 /\ sessions = <<>> /\ keys = <<>> /\ op = [t \in Threads |-> Idle]
      /\ audited = [u \in Users |-> 0]
      /\ past = [strikes |-> [u \in Users |-> 0], locks |-> [u \in Users |-> 0],
                 raced |-> {}, overlapped |-> FALSE]
  BY DEF Init
<1>2. Idle \in Operation /\ Idle.rest = <<>>
  BY IdleIs DEF Idle
<1>3. \A t \in Threads : op[t] \in Operation /\ op[t].rest = <<>>
  BY <1>1, <1>2
<1>4. ASSUME NEW t \in Threads, NEW step
      PROVE  ~At(t, step)
  BY <1>3 DEF At
<1>5. NoUser \in UserRow /\ ~NoUser.exists /\ NoUser.failed = 0
  BY DEF NoUser, UserRow, Grants
<1>6. PICK boss \in UserRow : /\ boss.exists /\ boss.active /\ boss.role = "admin"
                              /\ boss.failed = 0
                              /\ boss = [NoUser EXCEPT !.exists = TRUE, !.active = TRUE,
                                                       !.role = "admin"]
  <2> DEFINE b == [NoUser EXCEPT !.exists = TRUE, !.active = TRUE, !.role = "admin"]
  <2>1. b \in UserRow /\ b.exists /\ b.active /\ b.role = "admin" /\ b.failed = 0
    BY DEF NoUser, UserRow, Grants
  <2> QED
    BY <2>1
<1>7. /\ users \in [Users -> UserRow]
      /\ \A u \in Users : users[u] = IF u \in s.admins THEN boss ELSE NoUser
  BY <1>5, <1>6
<1>8. DOMAIN sessions = {} /\ DOMAIN keys = {} /\ Cardinality(DOMAIN sessions) = 0
      /\ Cardinality(DOMAIN keys) = 0
  BY <1>1, FS_EmptySet
<1>9. TypeOK
  <2>1. now \in Nat \ {0}
    BY <1>1
  <2>2. /\ sessions \in [1..Cardinality(DOMAIN sessions) -> Session]
        /\ keys \in [1..Cardinality(DOMAIN keys) -> ApiKey]
    BY <1>1, <1>8
  <2>3. Cardinality(DOMAIN sessions) \in 0..MaxSessions /\ Cardinality(DOMAIN keys) \in Nat
    BY <1>8, AccountsAssumption
  <2>4. access \in [Users -> Token]
    <3>1. now + AccessTTL \in Nat
      BY <1>1, AccountsAssumption
    <3>2. encode_token("access", AccessTTL) \in Token /\ NoToken \in Token
      BY <3>1 DEF encode_token, NoToken, Token
    <3> QED
      BY <3>2
  <2>5. op \in [Threads -> Operation]
    BY <1>1, <1>2
  <2>6. todo \subseteq AllRequests
    BY DEF AllRequests
  <2>7. audited \in [Users -> Nat] /\ past \in Past
    BY <1>1 DEF Past
  <2> QED
    BY <1>7, <2>1, <2>2, <2>3, <2>4, <2>5, <2>6, <2>7 DEF TypeOK
<1>10. InFlow
  BY <1>3 DEF InFlow
<1>11. FoundOut
  BY <1>4, <1>6, <1>7 DEF FoundOut, Found, Writing, Updating
<1>12. ClaimsExclusive /\ SingleRotation
  BY <1>4, <1>8 DEF ClaimsExclusive, SingleRotation, Holds, Claimed
<1>13. Ended
  BY <1>4, <1>8 DEF Ended, IssuersKnow, PasswordEndsSessions, InactiveHasNoSession, Knows
<1>14. Counted
  <2>1. WritersAlone
    BY <1>4 DEF WritersAlone, WritesAlone, Writing
  <2>2. FailuresCounted
    <3>1. ~(0 >= MaxFailedLogins)
      BY AccountsAssumption
    <3>2. \A u \in Users : users[u].failed = 0 /\ past.strikes[u] = 0
      BY <1>1, <1>5, <1>6, <1>7
    <3> QED
      BY <3>1, <3>2 DEF FailuresCounted
  <2> QED
    BY <2>1, <2>2 DEF Counted
<1>15. AuditedLocksHappened
  <2>1. ASSUME NEW u \in Users
        PROVE  audited[u] + Cardinality(Pend(u)) <= past.locks[u]
    <3>1. Pend(u) = {}
      BY <1>4 DEF Pend
    <3>2. Cardinality(Pend(u)) = 0
      BY <3>1, FS_EmptySet
    <3> QED
      BY <1>1, <3>2
  <2> QED
    BY <2>1, BooksAre
<1>16. Ruled
  <2>1. UpdatersKeepAdmin
    BY <1>4 DEF UpdatersKeepAdmin, KeepsAdmin, Updating
  <2>2. PICK u \in Users : u \in s.admins
    BY AccountsAssumption
  <2> QED
    BY <1>6, <1>7, <2>1, <2>2 DEF Ruled, AdminRemains, SomeAdmin
<1> QED
  BY <1>9, <1>10, <1>11, <1>12, <1>13, <1>14, <1>15, <1>16, InvIs

-----------------------------------------------------------------------------
(* The theorems. *)

\* Whatever requests are sent, and however their transactions interleave, the rows are
\* of their types, and what every request has read, claimed or checked holds until it
\* acts on it, but for the exceptions the invariant names.
THEOREM AccountsSafety == Spec => []AccountsInv
<1>1. AccountsInv /\ [Next]_vars => AccountsInv'
  BY NextKeeps
<1> QED
  BY InitHolds, <1>1, PTL DEF Spec

\* A refresh token is exchanged at most once, however many clients present it at the
\* same time: the guarded UPDATE of rotate_refresh_token() has one winner.
THEOREM RotatedOnce == Spec => []SingleRotation
<1>1. AccountsInv => SingleRotation
  BY DEF AccountsInv
<1> QED
  BY AccountsSafety, <1>1, PTL

\* A change of password and a deactivation end the sessions of the account: those that
\* remain were issued by requests under way while the others were revoked.
THEOREM SessionsEnd == Spec => []SessionsRevoked
<1>1. AccountsInv => SessionsRevoked
  BY DEF AccountsInv, SessionsRevoked
<1> QED
  BY AccountsSafety, <1>1, PTL

\* The row of an account that no two requests wrote at once counts every wrong password
\* since the last right one and locks at the limit, and the audit trail tells of no lock
\* that was not committed.
THEOREM BooksKept == Spec => []FailureBooks
<1>1. AccountsInv => FailureBooks
  BY DEF AccountsInv, FailureBooks
<1> QED
  BY AccountsSafety, <1>1, PTL

\* Unless two requests changed accounts at the same moment, somebody can manage users.
THEOREM AdminStays == Spec => []AdminRemains
<1>1. AccountsInv => AdminRemains
  BY DEF AccountsInv
<1> QED
  BY AccountsSafety, <1>1, PTL

=============================================================================
