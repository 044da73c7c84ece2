----------------------- MODULE ExecutionBrokerProofs -----------------------
(***************************************************************************)
(* Proofs about ExecutionBroker, for any number of clients and threads,    *)
(* any sizes of the buffer and the queues, and any number of events and of *)
(* times a client comes back.                                              *)
(***************************************************************************)
EXTENDS ExecutionBroker, FiniteSetTheorems, TLAPS

LP == INSTANCE ListsProofs

-----------------------------------------------------------------------------
(* Lists. *)

\* The elements of a list are what stands at its positions.
LEMMA InList ==
  ASSUME NEW A, NEW f \in Seq(A)
  PROVE  /\ Len(f) \in Nat /\ DOMAIN f = 1..Len(f)
         /\ \A x : x \in ToSet(f) <=> \E i \in 1..Len(f) : f[i] = x
<1>1. DOMAIN f = 1..Len(f) /\ Len(f) \in Nat
  OBVIOUS
<1> QED
  BY <1>1, Zenon DEF ToSet

\* An element is appended behind all others.
LEMMA AppendIs ==
  ASSUME NEW A, NEW f \in Seq(A), NEW r \in A
  PROVE  /\ Append(f, r) \in Seq(A) /\ Append(f, r) # <<>>
         /\ Len(Append(f, r)) = Len(f) + 1 /\ Append(f, r)[Len(f) + 1] = r
         /\ \A i \in 1..Len(f) : Append(f, r)[i] = f[i]
         /\ \A x : x \in ToSet(Append(f, r)) <=> x \in ToSet(f) \/ x = r
<1> DEFINE g == Append(f, r)
<1>1. /\ g \in Seq(A) /\ g # <<>> /\ Len(g) = Len(f) + 1 /\ g[Len(f) + 1] = r
      /\ \A i \in 1..Len(f) : g[i] = f[i]
      /\ Len(f) \in Nat
  OBVIOUS
<1> HIDE DEF g
<1>2. \A x : (\E i \in 1..Len(g) : g[i] = x) <=> (\E i \in 1..Len(f) : f[i] = x) \/ x = r
  BY <1>1
<1>3. \A x : x \in ToSet(g) <=> x \in ToSet(f) \/ x = r
  BY <1>1, <1>2, InList, Zenon
<1> QED
  BY <1>1, <1>3 DEF g

\* The first element is taken off.
LEMMA TailIs ==
  ASSUME NEW A, NEW f \in Seq(A), f # <<>>
  PROVE  /\ Tail(f) \in Seq(A) /\ Len(Tail(f)) = Len(f) - 1 /\ Len(f) > 0
         /\ Head(f) = f[1] /\ Head(f) \in A
         /\ \A i \in 1..(Len(f) - 1) : Tail(f)[i] = f[i + 1]
         /\ \A x : x \in ToSet(f) <=> x = Head(f) \/ x \in ToSet(Tail(f))
<1> DEFINE g == Tail(f)
<1>1. /\ g \in Seq(A) /\ Len(g) = Len(f) - 1 /\ Len(f) > 0 /\ Len(f) \in Nat
      /\ Head(f) = f[1] /\ Head(f) \in A
      /\ \A i \in 1..(Len(f) - 1) : g[i] = f[i + 1]
  OBVIOUS
<1> HIDE DEF g
<1>2. ASSUME NEW x
      PROVE  (\E i \in 1..Len(f) : f[i] = x) <=> x = f[1] \/ (\E i \in 1..Len(g) : g[i] = x)
  <2>1. ASSUME NEW i \in 1..Len(f), f[i] = x, i # 1
        PROVE  \E k \in 1..Len(g) : g[k] = x
    <3>1. i - 1 \in 1..Len(g) /\ g[i - 1] = x
      BY <1>1, <2>1
    <3> QED
      BY <3>1
  <2> QED
    BY <1>1, <2>1
<1>3. \A x : x \in ToSet(f) <=> x = f[1] \/ x \in ToSet(g)
  BY <1>1, <1>2, InList, Zenon
<1> QED
  BY <1>1, <1>3 DEF g

\* A filtered list, in the words of this module.
LEMMA FilterIs ==
  ASSUME NEW A, NEW f \in Seq(A), NEW keep
  PROVE  /\ Filter(f, keep) \in Seq(A) /\ Len(Filter(f, keep)) \in Nat
         /\ \A x : x \in ToSet(Filter(f, keep)) <=> x \in ToSet(f) /\ x \in keep
         /\ \A j, k \in 1..Len(Filter(f, keep)) : j < k =>
              \E a, b \in 1..Len(f) :
                a < b /\ f[a] = Filter(f, keep)[j] /\ f[b] = Filter(f, keep)[k]
<1> DEFINE out == Filter(f, keep)
<1>1. LP!Kept(A, f, keep, Len(f), out)
  <2>1. Filter(f, keep) = LP!Filter(f, keep)
    BY DEF Filter, LP!Filter
  <2> QED
    BY <2>1, LP!FilterKeeps
<1>2. /\ out \in Seq(A)
      /\ \A i \in 1..Len(f) : f[i] \in keep => \E j \in 1..Len(out) : out[j] = f[i]
      /\ \A j \in 1..Len(out) : out[j] \in keep /\ \E i \in 1..Len(f) : f[i] = out[j]
      /\ \A j, k \in 1..Len(out) : j < k =>
           \E a, b \in 1..Len(f) : a < b /\ f[a] = out[j] /\ f[b] = out[k]
  BY <1>1 DEF LP!Kept
<1> HIDE DEF out
<1>3. \A x : x \in ToSet(out) <=> x \in ToSet(f) /\ x \in keep
  <2>1. ASSUME NEW x
        PROVE  (\E j \in 1..Len(out) : out[j] = x)
                 <=> (\E i \in 1..Len(f) : f[i] = x) /\ x \in keep
    <3>1. ASSUME NEW j \in 1..Len(out), out[j] = x
          PROVE  (\E i \in 1..Len(f) : f[i] = x) /\ x \in keep
      BY <1>2, <3>1
    <3>2. ASSUME NEW i \in 1..Len(f), f[i] = x, x \in keep
          PROVE  \E j \in 1..Len(out) : out[j] = x
      BY <1>2, <3>2
    <3> QED
      BY <3>1, <3>2
  <2>2. \A x : x \in ToSet(out) <=> \E j \in 1..Len(out) : out[j] = x
    BY <1>2, InList
  <2>3. \A x : x \in ToSet(f) <=> \E i \in 1..Len(f) : f[i] = x
    BY InList
  <2> QED
    BY <2>1, <2>2, <2>3, Zenon
<1>4. Len(out) \in Nat
  BY <1>2
<1> QED
  BY <1>2, <1>3, <1>4, Zenon DEF out

\* SetToSeq lists every element of a finite set.
LEMMA SetToSeqIs ==
  ASSUME NEW S, IsFiniteSet(S)
  PROVE  /\ SetToSeq(S) \in Seq(S)
         /\ \A x \in S : \E i \in 1..Len(SetToSeq(S)) : SetToSeq(S)[i] = x
<1> DEFINE n == Cardinality(S)
           f == SetToSeq(S)
<1>1. n \in Nat /\ Bijection(1..n, S) # {}
  BY FS_CardinalityType DEF ExistsBijection
<1>2. PICK b : b \in Injection(1..n, S)
  BY <1>1 DEF Bijection
<1>3. b \in [1..n -> S] /\ IsInjective(b)
  BY <1>2 DEF Injection, IsInjective
<1>4. f \in [1..n -> S] /\ IsInjective(f)
  <2> HIDE DEF n
  <2> QED
    BY <1>3 DEF SetToSeq, n
<1>5. f \in Injection(1..n, S)
  BY <1>4 DEF Injection, IsInjective
<1>6. f \in Surjection(1..n, S)
  <2>1. IsFiniteSet(1..n) /\ Cardinality(1..n) = n
    BY <1>1, FS_Interval
  <2> HIDE DEF n, f
  <2> QED
    BY <1>5, <2>1, FS_Injection DEF n
<1>7. f \in Seq(S) /\ Len(f) = n
  <2> HIDE DEF n, f
  <2> QED
    BY <1>1, <1>4
<1> HIDE DEF n, f
<1>8. \A x \in S : \E i \in 1..Len(f) : f[i] = x
  BY <1>6, <1>7 DEF Surjection
<1> QED
  BY <1>7, <1>8 DEF f

-----------------------------------------------------------------------------
(* The order of the engine's events in lists. *)

\* The engine's events in f come before number n; after that of r.
Under(f, n) == \A i \in DOMAIN f : f[i].by = Loop => f[i].id < n
Above(f, r) == \A i \in DOMAIN f : f[i].by = Loop => r.id < f[i].id

\* What is appended comes last.
LEMMA OrderOfAppend ==
  ASSUME NEW f \in Seq(Frame), NEW r \in Frame
  PROVE  /\ InOrder(f) /\ (r.by = Loop => Under(f, r.id)) => InOrder(Append(f, r))
         /\ \A n \in Nat : Under(f, n) /\ (r.by = Loop => r.id < n) => Under(Append(f, r), n)
         /\ \A h \in Seq(Frame) :
              /\ Before(h, f) /\ (r.by = Loop => Under(h, r.id)) => Before(h, Append(f, r))
              /\ Before(f, h) /\ (r.by = Loop => Above(h, r)) => Before(Append(f, r), h)
<1> DEFINE g == Append(f, r)
<1>1. /\ g \in Seq(Frame) /\ Len(g) = Len(f) + 1 /\ g[Len(f) + 1] = r /\ Len(f) \in Nat
      /\ \A i \in 1..Len(f) : g[i] = f[i]
      /\ DOMAIN f = 1..Len(f) /\ DOMAIN g = 1..Len(g)
  OBVIOUS
<1> HIDE DEF g
<1>2. InOrder(f) /\ (r.by = Loop => Under(f, r.id)) => InOrder(g)
  BY <1>1 DEF InOrder, Under
<1>3. \A n \in Nat : Under(f, n) /\ (r.by = Loop => r.id < n) => Under(g, n)
  BY <1>1 DEF Under
<1>4. \A h \in Seq(Frame) :
        /\ Before(h, f) /\ (r.by = Loop => Under(h, r.id)) => Before(h, g)
        /\ Before(f, h) /\ (r.by = Loop => Above(h, r)) => Before(g, h)
  BY <1>1 DEF Before, Under, Above
<1> QED
  BY <1>2, <1>3, <1>4 DEF g

\* What is taken off came first.
LEMMA OrderOfTail ==
  ASSUME NEW f \in Seq(Frame), f # <<>>
  PROVE  /\ InOrder(f) => InOrder(Tail(f)) /\ (Head(f).by = Loop => Above(Tail(f), Head(f)))
         /\ \A n \in Nat : Under(f, n) =>
              Under(Tail(f), n) /\ (Head(f).by = Loop => Head(f).id < n)
         /\ \A h \in Seq(Frame) :
              /\ Before(h, f) =>
                   Before(h, Tail(f)) /\ (Head(f).by = Loop => Under(h, Head(f).id))
              /\ Before(f, h) =>
                   Before(Tail(f), h) /\ (Head(f).by = Loop => Above(h, Head(f)))
<1> DEFINE g == Tail(f)
<1>1. /\ g \in Seq(Frame) /\ Len(g) = Len(f) - 1 /\ Len(f) > 0 /\ Len(f) \in Nat
      /\ Head(f) = f[1] /\ \A i \in 1..(Len(f) - 1) : g[i] = f[i + 1]
      /\ DOMAIN f = 1..Len(f) /\ DOMAIN g = 1..Len(g)
  OBVIOUS
<1> HIDE DEF g
<1>2. \A i \in DOMAIN g : i + 1 \in DOMAIN f /\ g[i] = f[i + 1] /\ 1 < i + 1
  BY <1>1
<1>3. 1 \in DOMAIN f
  BY <1>1
<1>4. InOrder(f) => InOrder(g) /\ (f[1].by = Loop => Above(g, f[1]))
  <2>1. \A i, j \in DOMAIN g : i < j => i + 1 < j + 1
    BY <1>1
  <2> QED
    BY <1>2, <1>3, <2>1 DEF InOrder, Above
<1>5. \A n \in Nat : Under(f, n) => Under(g, n) /\ (f[1].by = Loop => f[1].id < n)
  BY <1>2, <1>3 DEF Under
<1>6. \A h \in Seq(Frame) :
        /\ Before(h, f) => Before(h, g) /\ (f[1].by = Loop => Under(h, f[1].id))
        /\ Before(f, h) => Before(g, h) /\ (f[1].by = Loop => Above(h, f[1]))
  BY <1>2, <1>3, Zenon DEF Before, Under, Above
<1> QED
  BY <1>1, <1>4, <1>5, <1>6 DEF g

\* A filtered list keeps the order.
LEMMA OrderOfFilter ==
  ASSUME NEW f \in Seq(Frame), NEW keep
  PROVE  /\ InOrder(f) => InOrder(Filter(f, keep))
         /\ \A n \in Nat : Under(f, n) => Under(Filter(f, keep), n)
<1> DEFINE g == Filter(f, keep)
<1>1. /\ g \in Seq(Frame)
      /\ \A j, k \in 1..Len(g) : j < k =>
           \E a, b \in 1..Len(f) : a < b /\ f[a] = g[j] /\ f[b] = g[k]
      /\ \A x : x \in ToSet(g) <=> x \in ToSet(f) /\ x \in keep
  BY FilterIs
<1> HIDE DEF g
<1>2. DOMAIN g = 1..Len(g) /\ DOMAIN f = 1..Len(f)
  BY <1>1
<1>3. InOrder(f) => InOrder(g)
  <2> SUFFICES ASSUME InOrder(f), NEW j \in DOMAIN g, NEW k \in DOMAIN g, j < k,
                      g[j].by = Loop, g[k].by = Loop
               PROVE  g[j].id < g[k].id
    BY DEF InOrder
  <2>1. PICK a \in 1..Len(f), b \in 1..Len(f) : a < b /\ f[a] = g[j] /\ f[b] = g[k]
    BY <1>1, <1>2
  <2> QED
    BY <1>2, <2>1 DEF InOrder
<1>4. \A j \in DOMAIN g : \E i \in DOMAIN f : f[i] = g[j]
  <2>1. \A j \in DOMAIN g : g[j] \in ToSet(g)
    BY DEF ToSet
  <2>2. \A x \in ToSet(f) : \E i \in DOMAIN f : f[i] = x
    BY DEF ToSet
  <2> QED
    BY <1>1, <2>1, <2>2
<1>5. \A n \in Nat : Under(f, n) => Under(g, n)
  BY <1>4 DEF Under
<1> QED
  BY <1>3, <1>5 DEF g

-----------------------------------------------------------------------------
(* The bounded buffer and the queues. *)

\* An event is appended to the buffer, whose oldest one may have to go.
LEMMA BufferedIs ==
  ASSUME TypeOK, NEW r \in Frame
  PROVE  /\ Buffered(r) \in Seq(Frame) /\ Len(Buffered(r)) <= EXECUTION_LOG_BUFFER_SIZE
         /\ \A x \in ToSet(Buffered(r)) : x \in ToSet(event_buffer) \/ x = r
         /\ InOrder(event_buffer) /\ (r.by = Loop => Under(event_buffer, r.id))
              => InOrder(Buffered(r))
         /\ \A n \in Nat : Under(event_buffer, n) /\ (r.by = Loop => r.id < n)
              => Under(Buffered(r), n)
<1> DEFINE f == event_buffer
           g == Append(f, r)
<1>1. f \in Seq(Frame) /\ Len(f) <= EXECUTION_LOG_BUFFER_SIZE
  BY DEF TypeOK
<1>2. Buffered(r) = IF Len(g) > EXECUTION_LOG_BUFFER_SIZE THEN Tail(g) ELSE g
  BY DEF Buffered
<1> HIDE DEF f
<1>3. /\ g \in Seq(Frame) /\ g # <<>> /\ Len(g) = Len(f) + 1 /\ Len(f) \in Nat
      /\ \A x : x \in ToSet(g) <=> x \in ToSet(f) \/ x = r
      /\ InOrder(f) /\ (r.by = Loop => Under(f, r.id)) => InOrder(g)
      /\ \A n \in Nat : Under(f, n) /\ (r.by = Loop => r.id < n) => Under(g, n)
  BY <1>1, AppendIs, OrderOfAppend, InList
<1> HIDE DEF g
<1>4. /\ Tail(g) \in Seq(Frame) /\ Len(Tail(g)) = Len(g) - 1
      /\ \A x \in ToSet(Tail(g)) : x \in ToSet(g)
      /\ InOrder(g) => InOrder(Tail(g))
      /\ \A n \in Nat : Under(g, n) => Under(Tail(g), n)
  BY <1>3, TailIs, OrderOfTail
<1>5. EXECUTION_LOG_BUFFER_SIZE \in Nat
  BY BrokerAssumption
<1>6. Buffered(r) \in {g, Tail(g)} /\ Len(Buffered(r)) <= EXECUTION_LOG_BUFFER_SIZE
  BY <1>1, <1>2, <1>3, <1>4, <1>5
<1> QED
  BY <1>3, <1>4, <1>6 DEF f

\* An event is offered to a queue, whose oldest one may have to go.
LEMMA OfferIs ==
  ASSUME TypeOK, NEW s \in Streams, NEW r \in Frame
  PROVE  /\ Offer(s, r) \in Seq(Frame) /\ Len(Offer(s, r)) <= EXECUTION_STREAM_QUEUE_SIZE
         /\ r \in ToSet(Offer(s, r))
         /\ ~Full(s) => ToSet(queue[s]) \subseteq ToSet(Offer(s, r))
         /\ InOrder(queue[s]) /\ (r.by = Loop => Under(queue[s], r.id))
              => InOrder(Offer(s, r))
         /\ \A n \in Nat : Under(queue[s], n) /\ (r.by = Loop => r.id < n)
              => Under(Offer(s, r), n)
         /\ \A h \in Seq(Frame) : Before(h, queue[s]) /\ (r.by = Loop => Under(h, r.id))
              => Before(h, Offer(s, r))
<1> DEFINE f == queue[s]
           g == IF Full(s) THEN Tail(f) ELSE f
<1>1. f \in Seq(Frame) /\ Len(f) <= EXECUTION_STREAM_QUEUE_SIZE
  BY DEF TypeOK
<1>2. EXECUTION_STREAM_QUEUE_SIZE \in Nat \ {0}
  BY BrokerAssumption
<1>3. Offer(s, r) = Append(g, r) /\ (Full(s) <=> Len(f) >= EXECUTION_STREAM_QUEUE_SIZE)
  BY DEF Offer, Full
<1>4. CASE Full(s)
  <2>1. f # <<>> /\ g = Tail(f)
    BY <1>1, <1>2, <1>3, <1>4
  <2> HIDE DEF f
  <2>2. /\ g \in Seq(Frame) /\ Len(g) = Len(f) - 1 /\ Len(f) \in Nat
        /\ InOrder(f) => InOrder(g)
        /\ \A n \in Nat : Under(f, n) => Under(g, n)
        /\ \A h \in Seq(Frame) : Before(h, f) => Before(h, g)
    BY <1>1, <2>1, TailIs, OrderOfTail, InList
  <2> HIDE DEF g
  <2>3. r.id \in Nat
    BY DEF Frame
  <2>4. Append(g, r) \in Seq(Frame) /\ Len(Append(g, r)) <= EXECUTION_STREAM_QUEUE_SIZE
    BY <1>1, <2>2
  <2>5. r \in ToSet(Append(g, r))
    BY <2>2, AppendIs
  <2>6. InOrder(f) /\ (r.by = Loop => Under(f, r.id)) => InOrder(Append(g, r))
    BY <2>2, <2>3, OrderOfAppend
  <2>7. \A n \in Nat : Under(f, n) /\ (r.by = Loop => r.id < n) => Under(Append(g, r), n)
    BY <2>2, OrderOfAppend
  <2>8. \A h \in Seq(Frame) : Before(h, f) /\ (r.by = Loop => Under(h, r.id))
          => Before(h, Append(g, r))
    BY <2>2, OrderOfAppend
  <2> QED
    BY <1>3, <1>4, <2>4, <2>5, <2>6, <2>7, <2>8 DEF f
<1>5. CASE ~Full(s)
  <2>1. g = f
    BY <1>5
  <2> HIDE DEF f, g
  <2>2. Append(g, r) \in Seq(Frame) /\ Len(Append(g, r)) <= EXECUTION_STREAM_QUEUE_SIZE
    BY <1>1, <1>2, <1>3, <1>5, <2>1
  <2>3. r \in ToSet(Append(g, r)) /\ ToSet(f) \subseteq ToSet(Append(g, r))
    BY <1>1, <2>1, AppendIs
  <2>4. InOrder(f) /\ (r.by = Loop => Under(f, r.id)) => InOrder(Append(g, r))
    BY <1>1, <2>1, OrderOfAppend
  <2>5. \A n \in Nat : Under(f, n) /\ (r.by = Loop => r.id < n) => Under(Append(g, r), n)
    BY <1>1, <2>1, OrderOfAppend
  <2>6. \A h \in Seq(Frame) : Before(h, f) /\ (r.by = Loop => Under(h, r.id))
          => Before(h, Append(g, r))
    BY <1>1, <2>1, OrderOfAppend
  <2> QED
    BY <1>3, <2>2, <2>3, <2>4, <2>5, <2>6 DEF f
<1> QED
  BY <1>4, <1>5

\* An event is offered to some of the queues.
LEMMA OfferToIs ==
  ASSUME TypeOK, NEW S, NEW r \in Frame, OfferTo(S, r)
  PROVE  /\ queue' \in [Streams -> Seq(Frame)] /\ dropped' \in [Streams -> BOOLEAN]
         /\ \A s \in Streams :
              /\ Len(queue'[s]) <= EXECUTION_STREAM_QUEUE_SIZE
              /\ queue'[s] = IF s \in S THEN Offer(s, r) ELSE queue[s]
              /\ ~dropped'[s] => ~dropped[s] /\ ~(s \in S /\ Full(s))
<1>1. queue' = [s \in Streams |-> IF s \in S THEN Offer(s, r) ELSE queue[s]]
  BY DEF OfferTo
<1>2. dropped' = [s \in Streams |-> dropped[s] \/ (s \in S /\ Full(s))]
  BY DEF OfferTo
<1>3. \A s \in Streams : /\ Offer(s, r) \in Seq(Frame)
                         /\ Len(Offer(s, r)) <= EXECUTION_STREAM_QUEUE_SIZE
                         /\ queue[s] \in Seq(Frame)
                         /\ Len(queue[s]) <= EXECUTION_STREAM_QUEUE_SIZE
  BY OfferIs DEF TypeOK
<1>4. \A s \in Streams : queue'[s] = IF s \in S THEN Offer(s, r) ELSE queue[s]
  BY <1>1
<1>5. queue' \in [Streams -> Seq(Frame)]
  BY <1>1, <1>3
<1>6. dropped' \in [Streams -> BOOLEAN]
  BY <1>2
<1>7. \A s \in Streams : ~dropped'[s] => ~dropped[s] /\ ~(s \in S /\ Full(s))
  BY <1>2, Zenon
<1>8. \A s \in Streams : Len(queue'[s]) <= EXECUTION_STREAM_QUEUE_SIZE
  BY <1>3, <1>4
<1> QED
  BY <1>4, <1>5, <1>6, <1>7, <1>8

\* Lists are joined.
LEMMA ConcatIs ==
  ASSUME NEW A, NEW f \in Seq(A), NEW g \in Seq(A)
  PROVE  /\ f \o g \in Seq(A) /\ Len(f \o g) = Len(f) + Len(g)
         /\ \A i \in 1..Len(f) : (f \o g)[i] = f[i]
         /\ \A i \in 1..Len(g) : (f \o g)[Len(f) + i] = g[i]
         /\ \A x : x \in ToSet(f \o g) <=> x \in ToSet(f) \/ x \in ToSet(g)
<1> DEFINE h == f \o g
<1>1. /\ h \in Seq(A) /\ Len(h) = Len(f) + Len(g) /\ Len(f) \in Nat /\ Len(g) \in Nat
      /\ \A i \in 1..Len(f) : h[i] = f[i]
      /\ \A i \in 1..Len(g) : h[Len(f) + i] = g[i]
  OBVIOUS
<1> HIDE DEF h
<1>2. ASSUME NEW x
      PROVE  (\E i \in 1..Len(h) : h[i] = x)
               <=> (\E i \in 1..Len(f) : f[i] = x) \/ (\E i \in 1..Len(g) : g[i] = x)
  <2>1. ASSUME NEW i \in 1..Len(h), h[i] = x
        PROVE  (\E j \in 1..Len(f) : f[j] = x) \/ (\E j \in 1..Len(g) : g[j] = x)
    <3>1. CASE i <= Len(f)
      BY <1>1, <2>1, <3>1
    <3>2. CASE i > Len(f)
      <4>1. i - Len(f) \in 1..Len(g) /\ Len(f) + (i - Len(f)) = i
        BY <1>1, <3>2
      <4>2. g[i - Len(f)] = x
        BY <1>1, <2>1, <4>1
      <4> QED
        BY <4>1, <4>2
    <3> QED
      BY <1>1, <3>1, <3>2
  <2>2. ASSUME NEW i \in 1..Len(f), f[i] = x
        PROVE  \E j \in 1..Len(h) : h[j] = x
    BY <1>1, <2>2
  <2>3. ASSUME NEW i \in 1..Len(g), g[i] = x
        PROVE  \E j \in 1..Len(h) : h[j] = x
    <3>1. Len(f) + i \in 1..Len(h) /\ h[Len(f) + i] = x
      BY <1>1, <2>3
    <3> QED
      BY <3>1
  <2> QED
    BY <2>1, <2>2, <2>3
<1>3. \A x : x \in ToSet(h) <=> \E i \in 1..Len(h) : h[i] = x
  BY <1>1, InList
<1>4. /\ \A x : x \in ToSet(f) <=> \E i \in 1..Len(f) : f[i] = x
      /\ \A x : x \in ToSet(g) <=> \E i \in 1..Len(g) : g[i] = x
  BY InList
<1>5. \A x : x \in ToSet(h) <=> x \in ToSet(f) \/ x \in ToSet(g)
  BY <1>2, <1>3, <1>4, Zenon
<1> QED
  BY <1>1, <1>5 DEF h

\* A thread schedules a delivery of its event to every subscriber it read.
LEMMA ScheduleIs ==
  ASSUME TypeOK, NEW t \in Actors, Schedule(t)
  PROVE  /\ ready' \in Seq(Delivery)
         /\ \A s \in targets[t] : [to |-> s, record |-> record[t]] \in ToSet(ready')
         /\ \A d \in ToSet(ready) : d \in ToSet(ready')
         /\ \A d \in ToSet(ready') : d \in ToSet(ready) \/ d.record = record[t]
<1> DEFINE L == SetToSeq(targets[t])
           g == [i \in 1..Len(L) |-> [to |-> L[i], record |-> record[t]]]
<1>1. targets[t] \subseteq Streams /\ record[t] \in Frame /\ ready \in Seq(Delivery)
  BY DEF TypeOK
<1>2. IsFiniteSet(targets[t])
  BY <1>1, BrokerAssumption, FS_Subset
<1>3. L \in Seq(targets[t]) /\ \A s \in targets[t] : \E i \in 1..Len(L) : L[i] = s
  BY <1>2, SetToSeqIs
<1>4. ready' = ready \o g
  BY DEF Schedule
<1> HIDE DEF L
<1>5. /\ Len(L) \in Nat
      /\ \A i \in 1..Len(L) : L[i] \in Streams /\ g[i] = [to |-> L[i], record |-> record[t]]
  BY <1>1, <1>3
<1>6. g \in Seq(Delivery) /\ Len(g) = Len(L)
  BY <1>1, <1>5 DEF Delivery
<1> HIDE DEF g
<1>7. \A s \in targets[t] : [to |-> s, record |-> record[t]] \in ToSet(g)
  <2> SUFFICES ASSUME NEW s \in targets[t]
               PROVE  [to |-> s, record |-> record[t]] \in ToSet(g)
    OBVIOUS
  <2>1. PICK i \in 1..Len(L) : L[i] = s
    BY <1>3
  <2>2. i \in 1..Len(g) /\ g[i] = [to |-> s, record |-> record[t]]
    BY <1>5, <1>6, <2>1
  <2>3. \A x : x \in ToSet(g) <=> \E j \in 1..Len(g) : g[j] = x
    BY <1>6, InList
  <2> QED
    BY <2>2, <2>3
<1>8. \A d \in ToSet(g) : d.record = record[t]
  <2>1. \A x : x \in ToSet(g) <=> \E j \in 1..Len(g) : g[j] = x
    BY <1>6, InList
  <2> SUFFICES ASSUME NEW d \in ToSet(g)
               PROVE  d.record = record[t]
    OBVIOUS
  <2>2. PICK j \in 1..Len(L) : g[j] = d
    BY <1>6, <2>1
  <2>3. d = [to |-> L[j], record |-> record[t]]
    BY <1>5, <2>2
  <2> QED
    BY <2>3
<1>9. ready' \in Seq(Delivery) /\ \A x : x \in ToSet(ready') <=> x \in ToSet(ready) \/ x \in ToSet(g)
  BY <1>1, <1>4, <1>6, ConcatIs
<1> QED
  BY <1>7, <1>8, <1>9

-----------------------------------------------------------------------------
(* Types. *)

\* The frame that stands for none is one, of the loop's.
LEMMA NothingIs == Nothing \in Frame /\ Nothing.by = Loop
BY DEF Nothing, Frame, Events, Actors

\* Every actor's list is one of steps, and what is left of it too.
LEMMA ListsOfSteps ==
  ASSUME TypeOK, NEW a \in Actors
  PROVE  /\ todo[a] # <<>> /\ Done(a) => todo' \in [Actors -> Seq(Steps)]
         /\ \A steps \in Seq(Steps) :
              todo' = [todo EXCEPT ![a] = steps] => todo' \in [Actors -> Seq(Steps)]
<1>1. todo \in [Actors -> Seq(Steps)]
  BY DEF TypeOK
<1>2. todo[a] \in Seq(Steps) /\ (todo[a] # <<>> => Tail(todo[a]) \in Seq(Steps))
  BY <1>1
<1> QED
  BY <1>1, <1>2 DEF Done

\* The lists of those who publish.
LEMMA Programs ==
  /\ <<>> \in Seq(Steps) /\ <<"cleanup">> \in Seq(Steps)
  /\ <<"event", "append">> \in Seq(Steps)
  /\ <<"event", "append", "finished", "append">> \in Seq(Steps)
  /\ <<"event", "append", "schedule", "event", "append", "schedule">> \in Seq(Steps)
  /\ <<"finished", "append", "schedule">> \in Seq(Steps)
BY DEF Steps, Events

\* The variables have the values their names promise, at the start ...
LEMMA TypeInit == Init => TypeOK
<1> SUFFICES ASSUME Init PROVE TypeOK
  OBVIOUS
<1>1. EXECUTION_STREAM_QUEUE_SIZE \in Nat /\ EXECUTION_LOG_BUFFER_SIZE \in Nat /\ MaxOpens \in Nat
  BY BrokerAssumption
<1>2. /\ \A A : <<>> \in Seq(A)
      /\ Len(<<>>) = 0
  OBVIOUS
<1> QED
  BY <1>1, <1>2, NothingIs DEF Init, TypeOK

\* ... and after every step.
LEMMA TypeStep == TypeOK /\ Next => TypeOK'
<1> SUFFICES ASSUME TypeOK, Next PROVE TypeOK'
  OBVIOUS
<1> USE DEF eventVars, actorVars, clientVars, feedVars
<1>1. ASSUME NEW a \in Actors, Allocate(a) PROVE TypeOK'
  <2>1. todo' \in [Actors -> Seq(Steps)]
    BY <1>1, ListsOfSteps DEF Allocate
  <2>2. PICK r : r = [id |-> published + 1, sequence |-> sequences + 1,
                      event |-> Head(todo[a]), by |-> a]
    OBVIOUS
  <2>3. r \in Frame
    BY <1>1, <2>2 DEF Allocate, Frame, TypeOK
  <2>4. record' = [record EXCEPT ![a] = r]
    BY <1>1, <2>2 DEF Allocate
  <2>5. record' \in [Actors -> Frame]
    BY <2>3, <2>4 DEF TypeOK
  <2> QED
    BY <1>1, <2>1, <2>5 DEF Allocate, TypeOK
<1>2. ASSUME NEW a \in Actors, AppendEvent(a) PROVE TypeOK'
  <2>1. todo' \in [Actors -> Seq(Steps)]
    BY <1>2, ListsOfSteps DEF AppendEvent, Ahead
  <2>2. record[a] \in Frame
    BY DEF TypeOK
  <2>3. event_buffer' \in Seq(Frame) /\ Len(event_buffer') <= EXECUTION_LOG_BUFFER_SIZE
    BY <1>2, <2>2, BufferedIs DEF AppendEvent
  <2>4. /\ queue' \in [Streams -> Seq(Frame)] /\ dropped' \in [Streams -> BOOLEAN]
        /\ \A s \in Streams : Len(queue'[s]) <= EXECUTION_STREAM_QUEUE_SIZE
    <3>1. CASE a = Loop
      BY <1>2, <2>2, <3>1, OfferToIs DEF AppendEvent
    <3>2. CASE a # Loop
      BY <1>2, <3>2 DEF AppendEvent, TypeOK
    <3> QED
      BY <3>1, <3>2
  <2>5. record' \in [Actors -> Frame] /\ targets' \in [Actors -> SUBSET Streams]
    <3>1. Subscribers \in SUBSET Streams
      BY DEF Subscribers
    <3>2. targets' = targets \/ targets' = [targets EXCEPT ![a] = Subscribers]
      BY <1>2 DEF AppendEvent
    <3>3. record' = record \/ record' = [record EXCEPT ![a] = Nothing]
      BY <1>2 DEF AppendEvent
    <3>4. targets' \in [Actors -> SUBSET Streams]
      BY <3>1, <3>2 DEF TypeOK
    <3>5. record' \in [Actors -> Frame]
      BY <3>3, NothingIs DEF TypeOK
    <3> QED
      BY <3>4, <3>5
  <2> QED
    BY <1>2, <2>1, <2>3, <2>4, <2>5 DEF AppendEvent, TypeOK
<1>3. ASSUME NEW t \in Threads, Schedule(t) PROVE TypeOK'
  <2>0. t \in Actors
    BY DEF Actors
  <2>1. todo' \in [Actors -> Seq(Steps)]
    BY <1>3, <2>0, ListsOfSteps DEF Schedule, Ahead
  <2>2. ready' \in Seq(Delivery)
    BY <1>3, <2>0, ScheduleIs
  <2>3. record' \in [Actors -> Frame] /\ targets' \in [Actors -> SUBSET Streams]
    BY <1>3, NothingIs DEF Schedule, TypeOK
  <2> QED
    BY <1>3, <2>1, <2>2, <2>3 DEF Schedule, TypeOK
<1>4. CASE Deliver
  <2>1. ready \in Seq(Delivery) /\ ready # <<>>
    BY <1>4 DEF Deliver, TypeOK
  <2>2. Head(ready) \in Delivery /\ Tail(ready) \in Seq(Delivery)
    BY <2>1, TailIs
  <2>3. Head(ready).record \in Frame
    BY <2>2 DEF Delivery
  <2>4. /\ queue' \in [Streams -> Seq(Frame)] /\ dropped' \in [Streams -> BOOLEAN]
        /\ \A s \in Streams : Len(queue'[s]) <= EXECUTION_STREAM_QUEUE_SIZE
    BY <1>4, <2>3, OfferToIs DEF Deliver
  <2> QED
    BY <1>4, <2>2, <2>4 DEF Deliver, TypeOK
<1>5. CASE Cleanup
  <2>1. todo' \in [Actors -> Seq(Steps)]
    BY <1>5, ListsOfSteps DEF Cleanup, Ahead, Actors
  <2>2. event_buffer' \in Seq(Frame) /\ Len(event_buffer') <= EXECUTION_LOG_BUFFER_SIZE
    <3>1. <<>> \in Seq(Frame) /\ Len(<<>>) = 0
      OBVIOUS
    <3>2. event_buffer' = event_buffer \/ event_buffer' = <<>>
      BY <1>5 DEF Cleanup
    <3>3. 0 <= EXECUTION_LOG_BUFFER_SIZE
      BY BrokerAssumption
    <3>4. CASE event_buffer' = event_buffer
      BY <3>4 DEF TypeOK
    <3>5. CASE event_buffer' = <<>>
      BY ONLY <3>1, <3>3, <3>5
    <3> QED
      BY <3>2, <3>4, <3>5
  <2> QED
    BY <1>5, <2>1, <2>2 DEF Cleanup, TypeOK
<1>6. CASE \/ EngineStarts \/ EnginePublishes \/ EngineFinalises \/ EngineFinishes
           \/ \E t \in Threads : Request(t) \/ StopQueued(t)
  <2>1. PICK a \in Actors, steps \in Seq(Steps) : Begin(a, steps)
    BY <1>6, Programs DEF EngineStarts, EnginePublishes, EngineFinalises, EngineFinishes,
       Request, StopQueued, Actors
  <2>2. todo' \in [Actors -> Seq(Steps)]
    BY <2>1, ListsOfSteps DEF Begin
  <2>3. run' \in {"queued", "running", "finalised", "stopped", "over"}
    BY <1>6 DEF EngineStarts, EnginePublishes, EngineFinalises, EngineFinishes,
       Request, StopQueued, TypeOK
  <2> QED
    BY <2>1, <2>2, <2>3 DEF Begin, TypeOK
<1>7. ASSUME NEW s \in Streams, Open(s) PROVE TypeOK'
  <2>1. after' \in [Streams -> Nat]
    <3>1. \A f \in {got[s]} \ {<<>>} : Last(f).sequence \in Nat
      <4> SUFFICES ASSUME got[s] # <<>> PROVE Last(got[s]).sequence \in Nat
        OBVIOUS
      <4>1. Last(got[s]) \in Frame
        BY DEF TypeOK, Last
      <4> QED
        BY <4>1 DEF Frame
    <3>2. PICK sequence \in Nat : after' = [after EXCEPT ![s] = sequence]
      BY <1>7, <3>1 DEF Open
    <3> QED
      BY <3>2 DEF TypeOK
  <2>2. /\ opens' \in [Streams -> 0..MaxOpens] /\ got' \in [Streams -> Seq(Frame)]
        /\ already_finished' \in [Streams -> BOOLEAN]
    BY <1>7, BrokerAssumption DEF Open, TypeOK
  <2> QED
    BY <1>7, <2>1, <2>2 DEF Open, TypeOK
<1>8. ASSUME NEW s \in Streams, Abandon(s) \/ GoLive(s) PROVE TypeOK'
  BY <1>8 DEF Abandon, GoLive, TypeOK
<1>9. ASSUME NEW s \in Streams, Subscribe(s) PROVE TypeOK'
  <2>1. queue' \in [Streams -> Seq(Frame)] /\ dropped' \in [Streams -> BOOLEAN]
    BY <1>9 DEF Subscribe, TypeOK
  <2>2. \A i \in Streams : Len(queue'[i]) <= EXECUTION_STREAM_QUEUE_SIZE
    BY <1>9, BrokerAssumption DEF Subscribe, TypeOK
  <2> QED
    BY <1>9, <2>1, <2>2 DEF Subscribe, TypeOK
<1>10. ASSUME NEW s \in Streams, Replay(s) PROVE TypeOK'
  <2>1. replay_events(after[s]) \in Seq(Frame)
    BY FilterIs DEF replay_events, TypeOK
  <2>2. backlog' \in [Streams -> Seq(Frame)]
    BY <1>10, <2>1 DEF Replay, TypeOK
  <2> QED
    BY <1>10, <2>2 DEF Replay, TypeOK
<1>11. ASSUME NEW s \in Streams, SendReplayed(s) PROVE TypeOK'
  <2>1. backlog[s] \in Seq(Frame) /\ backlog[s] # <<>> /\ got[s] \in Seq(Frame)
    BY <1>11 DEF SendReplayed, TypeOK
  <2>2. Tail(backlog[s]) \in Seq(Frame) /\ Append(got[s], Head(backlog[s])) \in Seq(Frame)
    BY <2>1
  <2>3. backlog' \in [Streams -> Seq(Frame)] /\ got' \in [Streams -> Seq(Frame)]
    BY <1>11, <2>2 DEF SendReplayed, TypeOK
  <2> QED
    BY <1>11, <2>3 DEF SendReplayed, TypeOK
<1>12. ASSUME NEW s \in Streams, Synthesise(s) PROVE TypeOK'
  <2>1. PICK r : r = [id |-> 0, sequence |-> sequences + 1, event |-> "finished", by |-> s]
    OBVIOUS
  <2>2. r \in Frame
    BY <2>1 DEF Frame, Events, TypeOK
  <2>3. got' = [got EXCEPT ![s] = Append(@, r)]
    BY <1>12, <2>1 DEF Synthesise
  <2>4. got' \in [Streams -> Seq(Frame)]
    BY <2>2, <2>3 DEF TypeOK
  <2> QED
    BY <1>12, <2>4 DEF Synthesise, TypeOK
<1>13. ASSUME NEW s \in Streams, Receive(s) PROVE TypeOK'
  <2>1. queue[s] \in Seq(Frame) /\ queue[s] # <<>> /\ got[s] \in Seq(Frame)
    BY <1>13 DEF Receive, TypeOK
  <2>2. /\ Tail(queue[s]) \in Seq(Frame) /\ Append(got[s], Head(queue[s])) \in Seq(Frame)
        /\ Len(Tail(queue[s])) <= Len(queue[s])
    BY <2>1
  <2>3. queue' \in [Streams -> Seq(Frame)] /\ got' \in [Streams -> Seq(Frame)]
    BY <1>13, <2>2 DEF Receive, TypeOK
  <2>4. \A i \in Streams : Len(queue'[i]) <= EXECUTION_STREAM_QUEUE_SIZE
    BY <1>13, <2>1, <2>2, BrokerAssumption DEF Receive, TypeOK
  <2> QED
    BY <1>13, <2>3, <2>4 DEF Receive, TypeOK
<1>14. ASSUME NEW s \in Streams, Close(s) PROVE TypeOK'
  <2>1. todo' \in [Actors -> Seq(Steps)]
    BY <1>14, ListsOfSteps, Programs DEF Close, Actors
  <2>2. ready' \in Seq(Delivery)
    BY <1>14, FilterIs DEF Close, TypeOK
  <2>3. targets' \in [Actors -> SUBSET Streams]
    BY <1>14 DEF Close, TypeOK
  <2>4. backlog' \in [Streams -> Seq(Frame)] /\ queue' \in [Streams -> Seq(Frame)]
    BY <1>14 DEF Close, TypeOK
  <2>5. \A i \in Streams : Len(queue'[i]) <= EXECUTION_STREAM_QUEUE_SIZE
    BY <1>14, BrokerAssumption DEF Close, TypeOK
  <2> QED
    BY <1>14, <2>1, <2>2, <2>3, <2>4, <2>5 DEF Close, TypeOK
<1> QED
  BY <1>1, <1>2, <1>3, <1>4, <1>5, <1>6, <1>7, <1>8, <1>9, <1>10, <1>11, <1>12, <1>13,
     <1>14 DEF Next, Continue, Serve, EndReplayed, Leave, Disconnect

-----------------------------------------------------------------------------
(* The actors' lists. *)

\* The list f of actor a goes through publish() in turn.
InTurn(a, f) ==
  \A i \in DOMAIN f :
    LET step == f[i]
        last == i = Len(f)
    IN  /\ step \in Events => ~last /\ f[i + 1] = "append"
        /\ step = "append" /\ a # Loop => ~last /\ f[i + 1] = "schedule"
        /\ (step = "append" /\ a = Loop) \/ step = "schedule" => last \/ f[i + 1] \in Events
        /\ step = "schedule" => a # Loop
        /\ step = "cleanup" => a = Loop /\ last

\* So does what is left of it, and its first steps follow each other.
LEMMA TurnTaken ==
  ASSUME NEW a, NEW f \in Seq(Steps), f # <<>>, InTurn(a, f)
  PROVE  /\ InTurn(a, Tail(f))
         /\ Head(f) \in Events => Tail(f) # <<>> /\ Head(Tail(f)) = "append"
         /\ Head(f) = "append" /\ a # Loop => Tail(f) # <<>> /\ Head(Tail(f)) = "schedule"
         /\ (Head(f) = "append" /\ a = Loop) \/ Head(f) = "schedule" =>
              Tail(f) = <<>> \/ Head(Tail(f)) \in Events
         /\ Head(f) = "schedule" => a # Loop
         /\ Head(f) = "cleanup" => a = Loop /\ Tail(f) = <<>>
<1> DEFINE g == Tail(f)
<1>0. /\ g \in Seq(Steps) /\ Len(g) = Len(f) - 1 /\ Len(f) > 0 /\ Len(f) \in Nat
      /\ Head(f) = f[1] /\ \A i \in 1..(Len(f) - 1) : g[i] = f[i + 1]
      /\ DOMAIN f = 1..Len(f) /\ DOMAIN g = 1..Len(g)
  OBVIOUS
<1> HIDE DEF g
<1>1. /\ g \in Seq(Steps) /\ Len(g) = Len(f) - 1 /\ Len(f) > 0 /\ Len(f) \in Nat
      /\ Head(f) = f[1] /\ \A i \in 1..(Len(f) - 1) : g[i] = f[i + 1]
      /\ DOMAIN f = 1..Len(f) /\ DOMAIN g = 1..Len(g)
      /\ (g = <<>> <=> Len(f) = 1) /\ (g # <<>> => Head(g) = f[2])
  <2>1. g # <<>> => Len(g) > 0 /\ Head(g) = g[1]
    BY <1>0
  <2>2. g = <<>> => Len(g) = 0
    OBVIOUS
  <2> QED
    BY <1>0, <2>1, <2>2
<1>2. InTurn(a, g)
  <2> SUFFICES ASSUME NEW i \in DOMAIN g
               PROVE  LET step == g[i]
                          last == i = Len(g)
                      IN  /\ step \in Events => ~last /\ g[i + 1] = "append"
                          /\ step = "append" /\ a # Loop => ~last /\ g[i + 1] = "schedule"
                          /\ (step = "append" /\ a = Loop) \/ step = "schedule" =>
                               last \/ g[i + 1] \in Events
                          /\ step = "schedule" => a # Loop
                          /\ step = "cleanup" => a = Loop /\ last
    BY Zenon DEF InTurn
  <2>1. i + 1 \in DOMAIN f /\ g[i] = f[i + 1] /\ (i = Len(g) <=> i + 1 = Len(f))
    BY <1>1
  <2>2. i # Len(g) => g[i + 1] = f[(i + 1) + 1]
    BY <1>1
  <2> QED
    BY <2>1, <2>2 DEF InTurn
<1>3. 1 \in DOMAIN f /\ 1 + 1 = 2
  BY <1>1
<1> QED
  BY <1>1, <1>2, <1>3 DEF InTurn, g

\* The lists of those who publish are in turn.
LEMMA ProgramsInTurn ==
  /\ \A a : InTurn(a, <<>>)
  /\ InTurn(Loop, <<"cleanup">>)
  /\ InTurn(Loop, <<"event", "append">>)
  /\ InTurn(Loop, <<"event", "append", "finished", "append">>)
  /\ \A t \in Threads :
       /\ InTurn(t, <<"event", "append", "schedule", "event", "append", "schedule">>)
       /\ InTurn(t, <<"finished", "append", "schedule">>)
<1>1. \A t \in Threads : t # Loop
  BY BrokerAssumption
<1>2. \A a : InTurn(a, <<>>)
  BY DEF InTurn
<1>3. InTurn(Loop, <<"cleanup">>)
  BY DEF InTurn, Events
<1>4. InTurn(Loop, <<"event", "append">>)
  BY DEF InTurn, Events
<1>5. InTurn(Loop, <<"event", "append", "finished", "append">>)
  BY DEF InTurn, Events
<1>6. ASSUME NEW t \in Threads
      PROVE  InTurn(t, <<"event", "append", "schedule", "event", "append", "schedule">>)
  BY <1>1 DEF InTurn, Events
<1>7. ASSUME NEW t \in Threads
      PROVE  InTurn(t, <<"finished", "append", "schedule">>)
  BY <1>1 DEF InTurn, Events
<1> QED
  BY <1>2, <1>3, <1>4, <1>5, <1>6, <1>7

\* An idle actor begins with no list that is in the middle of publish().
Opening(steps) ==
  \/ steps = <<>>
  \/ Len(steps) > 0 /\ Head(steps) \in Events \cup {"cleanup"}

\* A list stays, loses its first step, or is a new one of an idle actor.
LEMMA TodoStep ==
  TypeOK /\ Next =>
    \/ todo' = todo
    \/ \E a \in Actors : todo[a] # <<>> /\ todo' = [todo EXCEPT ![a] = Tail(@)]
    \/ \E a \in Actors, steps \in Seq(Steps) :
         /\ todo[a] = <<>> /\ todo' = [todo EXCEPT ![a] = steps]
         /\ InTurn(a, steps) /\ Opening(steps)
<1> SUFFICES ASSUME TypeOK, Next
             PROVE  \/ todo' = todo
                    \/ \E a \in Actors : todo[a] # <<>> /\ todo' = [todo EXCEPT ![a] = Tail(@)]
                    \/ \E a \in Actors, steps \in Seq(Steps) :
                         /\ todo[a] = <<>> /\ todo' = [todo EXCEPT ![a] = steps]
                         /\ InTurn(a, steps) /\ Opening(steps)
  OBVIOUS
<1>1. Loop \in Actors /\ Threads \subseteq Actors
  BY DEF Actors
<1>2. /\ Opening(<<>>) /\ Opening(<<"cleanup">>) /\ Opening(<<"event", "append">>)
      /\ Opening(<<"event", "append", "finished", "append">>)
      /\ Opening(<<"event", "append", "schedule", "event", "append", "schedule">>)
      /\ Opening(<<"finished", "append", "schedule">>)
  BY DEF Opening, Events
<1>3. ASSUME \/ \E a \in Actors : Continue(a)
             \/ \E t \in Threads : Schedule(t)
             \/ Cleanup
      PROVE  \E a \in Actors : todo[a] # <<>> /\ todo' = [todo EXCEPT ![a] = Tail(@)]
  BY <1>1, <1>3 DEF Continue, Allocate, AppendEvent, Schedule, Cleanup, Ahead, Done
<1>4. ASSUME \/ \E t \in Threads : Request(t) \/ StopQueued(t)
             \/ EngineStarts \/ EnginePublishes \/ EngineFinalises \/ EngineFinishes
             \/ \E s \in Streams : Close(s)
      PROVE  \E a \in Actors, steps \in Seq(Steps) :
               /\ todo[a] = <<>> /\ todo' = [todo EXCEPT ![a] = steps]
               /\ InTurn(a, steps) /\ Opening(steps)
  <2>1. CASE \E t \in Threads : Request(t)
    BY <1>1, <1>2, <2>1, Programs, ProgramsInTurn DEF Request, Begin
  <2>2. CASE \E t \in Threads : StopQueued(t)
    BY <1>1, <1>2, <2>2, Programs, ProgramsInTurn DEF StopQueued, Begin
  <2>3. CASE EngineStarts \/ EngineFinalises
    BY <1>1, <1>2, <2>3, Programs, ProgramsInTurn DEF EngineStarts, EngineFinalises, Begin
  <2>4. CASE EnginePublishes
    BY <1>1, <1>2, <2>4, Programs, ProgramsInTurn DEF EnginePublishes, Begin
  <2>5. CASE EngineFinishes
    BY <1>1, <1>2, <2>5, Programs, ProgramsInTurn DEF EngineFinishes, Begin
  <2>6. CASE \E s \in Streams : Close(s)
    BY <1>1, <1>2, <2>6, Programs, ProgramsInTurn DEF Close, LoopFree
  <2> QED
    BY <1>4, <2>1, <2>2, <2>3, <2>4, <2>5, <2>6
<1>5. ASSUME NEW s \in Streams,
             \/ Subscribe(s) \/ Replay(s) \/ SendReplayed(s) \/ Synthesise(s) \/ GoLive(s)
             \/ Receive(s) \/ Open(s) \/ Abandon(s)
      PROVE  todo' = todo
  BY <1>5 DEF Subscribe, Replay, SendReplayed, Synthesise, GoLive, Receive, Open, Abandon
<1>6. Deliver => todo' = todo
  BY DEF Deliver
<1> QED
  BY <1>3, <1>4, <1>5, <1>6 DEF Next, Serve, EndReplayed, Leave, Disconnect

\* Every actor goes through publish() in turn.
LEMMA TurnInit == Init => PublishInTurn
BY ProgramsInTurn DEF Init, PublishInTurn

\* Every step keeps the order in which publish() takes its steps.
LEMMA TurnStep == TypeOK /\ PublishInTurn /\ Next => PublishInTurn'
<1> SUFFICES ASSUME TypeOK, PublishInTurn, Next
             PROVE  PublishInTurn'
  OBVIOUS
<1>1. \A a \in Actors : InTurn(a, todo[a]) /\ todo[a] \in Seq(Steps)
  BY Zenon DEF PublishInTurn, InTurn, TypeOK
<1>2. SUFFICES \A a \in Actors : InTurn(a, todo'[a])
  BY Zenon DEF PublishInTurn, InTurn
<1>3. CASE todo' = todo
  BY <1>1, <1>3
<1>4. ASSUME NEW b \in Actors, todo[b] # <<>>, todo' = [todo EXCEPT ![b] = Tail(@)]
      PROVE  \A a \in Actors : InTurn(a, todo'[a])
  <2>1. InTurn(b, Tail(todo[b]))
    BY <1>1, <1>4, TurnTaken
  <2> QED
    BY <1>1, <1>4, <2>1 DEF TypeOK
<1>5. ASSUME NEW b \in Actors, NEW steps \in Seq(Steps),
             todo' = [todo EXCEPT ![b] = steps], InTurn(b, steps)
      PROVE  \A a \in Actors : InTurn(a, todo'[a])
  BY <1>1, <1>5 DEF TypeOK
<1> QED
  BY <1>3, <1>4, <1>5, TodoStep

\* What stands first in a list says what follows it.
LEMMA NextInTurn ==
  ASSUME TypeOK, PublishInTurn, NEW a \in Actors, todo[a] # <<>>, Done(a)
  PROVE  /\ \A b \in Actors : todo'[b] = IF b = a THEN Tail(todo[a]) ELSE todo[b]
         /\ Head(todo[a]) \in Events => Ahead(a, "append")'
         /\ Head(todo[a]) = "append" /\ a # Loop => Ahead(a, "schedule")'
         /\ (Head(todo[a]) = "append" /\ a = Loop) \/ Head(todo[a]) \in {"schedule", "cleanup"}
              => ~Ahead(a, "append")' /\ ~Ahead(a, "schedule")'
<1>1. InTurn(a, todo[a]) /\ todo[a] \in Seq(Steps)
  BY Zenon DEF PublishInTurn, InTurn, TypeOK
<1>2. \A b \in Actors : todo'[b] = IF b = a THEN Tail(todo[a]) ELSE todo[b]
  BY DEF Done, TypeOK
<1> DEFINE f == todo[a]
<1>3. /\ Head(f) \in Events => Tail(f) # <<>> /\ Head(Tail(f)) = "append"
      /\ Head(f) = "append" /\ a # Loop => Tail(f) # <<>> /\ Head(Tail(f)) = "schedule"
      /\ (Head(f) = "append" /\ a = Loop) \/ Head(f) = "schedule" =>
           Tail(f) = <<>> \/ Head(Tail(f)) \in Events
      /\ Head(f) = "cleanup" => a = Loop /\ Tail(f) = <<>>
  BY <1>1, TurnTaken
<1>4. todo'[a] = Tail(f)
  BY <1>2
<1> QED
  BY <1>2, <1>3, <1>4 DEF Ahead, Events

-----------------------------------------------------------------------------
(* The events in the actors' hands. *)

\* Those who begin were idle, and are not in the middle of publish() yet.
LEMMA WhoBegins ==
  ASSUME TypeOK,
         \/ EngineStarts \/ EnginePublishes \/ EngineFinalises \/ EngineFinishes
         \/ \E t \in Threads : Request(t) \/ StopQueued(t)
  PROVE  /\ \E a \in Actors :
              /\ todo[a] = <<>> /\ (a = Loop => LoopFree)
              /\ ~Ahead(a, "append")' /\ ~Ahead(a, "schedule")'
              /\ \A b \in Actors : b # a => todo'[b] = todo[b]
         /\ UNCHANGED <<eventVars, actorVars, ready, clientVars, feedVars, queue, dropped>>
<1>1. \A t \in Threads : t # Loop /\ t \in Actors
  BY BrokerAssumption DEF Actors
<1> DEFINE Begins(a, steps) == /\ Begin(a, steps) /\ (a = Loop => LoopFree)
                               /\ steps # <<>> => Head(steps) \in Events
<1>5. PICK a \in Actors : \E steps : Begins(a, steps)
  BY <1>1 DEF EngineStarts, EnginePublishes, EngineFinalises, EngineFinishes,
     Request, StopQueued, Actors, Events
<1>2. PICK steps : Begins(a, steps)
  BY <1>5
<1>3. todo' = [todo EXCEPT ![a] = steps] /\ todo[a] = <<>>
  BY <1>2 DEF Begin
<1>4. todo'[a] = steps /\ \A b \in Actors : b # a => todo'[b] = todo[b]
  BY <1>3 DEF TypeOK
<1> QED
  BY <1>2, <1>3, <1>4 DEF Ahead, Begin, Events

\* What the generators do to the lists and the events in hand: nothing, but for
\* the end of a stream.
LEMMA StreamSteps ==
  ASSUME NEW s \in Streams,
         \/ Subscribe(s) \/ Replay(s) \/ SendReplayed(s) \/ Synthesise(s) \/ GoLive(s)
         \/ Receive(s) \/ Open(s) \/ Abandon(s)
  PROVE  UNCHANGED <<todo, record, targets, published, event_buffer, ready>>
BY DEF Subscribe, Replay, SendReplayed, Synthesise, GoLive, Receive, Open, Abandon,
   eventVars, actorVars

\* The end of a stream leaves the loop idle and takes its queue from every hand.
LEMMA CloseStep ==
  ASSUME TypeOK, NEW s \in Streams, Close(s)
  PROVE  /\ todo[Loop] = <<>> /\ ~Ahead(Loop, "append")' /\ ~Ahead(Loop, "schedule")'
         /\ \A a \in Actors : a # Loop => todo'[a] = todo[a]
         /\ \A a \in Actors : targets'[a] = targets[a] \ {s}
         /\ UNCHANGED <<record, published>>
BY DEF Close, LoopFree, TypeOK, Ahead, Actors, eventVars

\* An actor that goes on publishing has its own event in hand.
LEMMA HandInit == Init => EventInHand
BY DEF Init, EventInHand, Ahead

\* Every step keeps an actor's hand on the event it publishes.
LEMMA HandStep == TypeOK /\ PublishInTurn /\ EventInHand /\ Next => EventInHand'
<1> SUFFICES ASSUME TypeOK, PublishInTurn, EventInHand, Next
             PROVE  EventInHand'
  OBVIOUS
<1> DEFINE Hand(a) == /\ Ahead(a, "append") \/ Ahead(a, "schedule") =>
                           record[a].by = a /\ record[a].id <= published
                      /\ targets[a] # {} => Ahead(a, "schedule")
<1>1. \A a \in Actors : Hand(a)
  BY DEF EventInHand
<1>2. SUFFICES \A a \in Actors : Hand(a)'
  BY DEF EventInHand
<1>3. published \in Nat /\ \A a \in Actors : record[a].id \in Nat
  BY DEF TypeOK, Frame
<1>4. ASSUME NEW a \in Actors, Allocate(a)
      PROVE  \A b \in Actors : Hand(b)'
  <2>1. /\ todo[a] # <<>> /\ Done(a) /\ Head(todo[a]) \in Events
        /\ targets' = targets /\ published' = published + 1
    BY <1>4 DEF Allocate, actorVars
  <2>2. \A b \in Actors : b # a => todo'[b] = todo[b]
    BY <2>1, NextInTurn
  <2>3. /\ record'[a].by = a /\ record'[a].id = published + 1
        /\ \A b \in Actors : b # a => record'[b] = record[b]
    BY <1>4 DEF Allocate, TypeOK
  <2>4. Ahead(a, "append")' /\ targets[a] = {}
    BY <1>1, <2>1, NextInTurn DEF Ahead, Events
  <2> QED
    BY <1>1, <1>3, <2>1, <2>2, <2>3, <2>4 DEF Ahead
<1>5. ASSUME NEW a \in Actors, AppendEvent(a)
      PROVE  \A b \in Actors : Hand(b)'
  <2>1. todo[a] # <<>> /\ Done(a) /\ Head(todo[a]) = "append" /\ published' = published
    BY <1>5 DEF AppendEvent, Ahead
  <2>2. \A b \in Actors : b # a => todo'[b] = todo[b]
    BY <2>1, NextInTurn
  <2>3. \A b \in Actors : b # a => record'[b] = record[b] /\ targets'[b] = targets[b]
    BY <1>5 DEF AppendEvent, TypeOK
  <2>4. CASE a = Loop
    <3>1. ~Ahead(a, "append")' /\ ~Ahead(a, "schedule")'
      BY <2>1, <2>4, NextInTurn
    <3>2. targets'[a] = {}
      BY <1>1, <1>5, <2>1, <2>4 DEF AppendEvent, Ahead
    <3> QED
      BY <1>1, <2>1, <2>2, <2>3, <3>1, <3>2 DEF Ahead
  <2>5. CASE a # Loop
    <3>1. Ahead(a, "schedule")'
      BY <2>1, <2>5, NextInTurn
    <3>2. record' = record
      BY <1>5, <2>5 DEF AppendEvent
    <3>3. record[a].by = a /\ record[a].id <= published
      BY <1>1, <2>1 DEF Ahead
    <3> QED
      BY <1>1, <2>1, <2>2, <2>3, <3>1, <3>2, <3>3 DEF Ahead
  <2> QED
    BY <2>4, <2>5
<1>6. ASSUME NEW a \in Threads, Schedule(a)
      PROVE  \A b \in Actors : Hand(b)'
  <2>0. a \in Actors
    BY DEF Actors
  <2>1. /\ todo[a] # <<>> /\ Done(a) /\ Head(todo[a]) = "schedule" /\ published' = published
    BY <1>6 DEF Schedule, Ahead, eventVars
  <2>2. \A b \in Actors : b # a => todo'[b] = todo[b]
    BY <2>0, <2>1, NextInTurn
  <2>3. /\ \A b \in Actors : b # a => record'[b] = record[b] /\ targets'[b] = targets[b]
        /\ targets'[a] = {}
    BY <1>6, <2>0 DEF Schedule, TypeOK
  <2>4. ~Ahead(a, "append")' /\ ~Ahead(a, "schedule")'
    BY <2>0, <2>1, NextInTurn
  <2> QED
    BY <1>1, <2>1, <2>2, <2>3, <2>4 DEF Ahead
<1>7. CASE Cleanup
  <2>0. Loop \in Actors
    BY DEF Actors
  <2>1. /\ todo[Loop] # <<>> /\ Done(Loop) /\ Head(todo[Loop]) = "cleanup"
        /\ UNCHANGED <<published, record, targets>>
    BY <1>7 DEF Cleanup, Ahead, actorVars
  <2>2. \A b \in Actors : b # Loop => todo'[b] = todo[b]
    BY <2>0, <2>1, NextInTurn
  <2>3. ~Ahead(Loop, "append")' /\ ~Ahead(Loop, "schedule")' /\ targets[Loop] = {}
    BY <1>1, <2>0, <2>1, NextInTurn DEF Ahead
  <2> QED
    BY <1>1, <2>1, <2>2, <2>3 DEF Ahead
<1>8. CASE \/ EngineStarts \/ EnginePublishes \/ EngineFinalises \/ EngineFinishes
           \/ \E t \in Threads : Request(t) \/ StopQueued(t)
  <2>1. UNCHANGED <<published, record, targets>>
    BY <1>8, WhoBegins DEF eventVars, actorVars
  <2>2. PICK a \in Actors :
          /\ todo[a] = <<>> /\ ~Ahead(a, "append")' /\ ~Ahead(a, "schedule")'
          /\ \A b \in Actors : b # a => todo'[b] = todo[b]
    BY <1>8, WhoBegins
  <2>3. targets[a] = {}
    BY <1>1, <2>2 DEF Ahead
  <2> QED
    BY <1>1, <2>1, <2>2, <2>3 DEF Ahead
<1>9. ASSUME NEW s \in Streams, Close(s)
      PROVE  \A b \in Actors : Hand(b)'
  <2>1. targets[Loop] = {} /\ Loop \in Actors
    BY <1>1, <1>9, CloseStep DEF Ahead, Actors
  <2> QED
    BY <1>1, <1>9, <2>1, CloseStep DEF Ahead
<1>10. CASE UNCHANGED <<todo, record, targets, published>>
  BY <1>1, <1>10 DEF Ahead
<1>11. Deliver => UNCHANGED <<todo, record, targets, published>>
  BY DEF Deliver, eventVars, actorVars
<1> HIDE DEF Hand
<1> QED
  BY <1>4, <1>5, <1>6, <1>7, <1>8, <1>9, <1>10, <1>11, StreamSteps
     DEF Next, Continue, Serve, EndReplayed, Leave, Disconnect

-----------------------------------------------------------------------------
(* The stages of a stream. *)

\* A list has none of the engine's events when they all come before number 0.
LEMMA NoneOfEngine ==
  ASSUME NEW f \in Seq(Frame)
  PROVE  (\A i \in DOMAIN f : f[i].by # Loop) <=> Under(f, 0)
<1>1. \A r \in Frame : r.id \in Nat
  BY DEF Frame
<1>2. \A i \in DOMAIN f : f[i] \in Frame
  OBVIOUS
<1>3. \A i \in DOMAIN f : ~(f[i].id < 0)
  BY <1>1, <1>2
<1> QED
  BY <1>3 DEF Under

\* No delivery of list d is of an event of the engine.
NoneDelivered(d) == \A x \in ToSet(d) : x.record.by # Loop

\* FeedStages for stream s.
Stage(s) ==
  /\ pc[s] \in {"closed", "opened", "subscribed"} => backlog[s] = <<>> /\ Under(queue[s], 0)
  /\ pc[s] \in {"opened", "subscribed"} => got[s] = <<>>
  /\ pc[s] \in {"live", "leaving"} => backlog[s] = <<>>
  /\ pc[s] = "subscribed" => todo[Loop] = <<>>

\* The stages of the streams, stream by stream.
LEMMA StagesAre ==
  ASSUME TypeOK
  PROVE  FeedStages <=> (\A s \in Streams : Stage(s)) /\ NoneDelivered(ready)
<1>1. \A s \in Streams : (\A i \in DOMAIN queue[s] : queue[s][i].by # Loop) <=> Under(queue[s], 0)
  BY NoneOfEngine DEF TypeOK
<1>2. (\A i \in DOMAIN ready : ready[i].record.by # Loop) <=> NoneDelivered(ready)
  BY DEF NoneDelivered, ToSet
<1>3. FeedStages <=>
        /\ \A s \in Streams :
             /\ pc[s] \in {"closed", "opened", "subscribed"} =>
                  backlog[s] = <<>> /\ (\A i \in DOMAIN queue[s] : queue[s][i].by # Loop)
             /\ pc[s] \in {"opened", "subscribed"} => got[s] = <<>>
             /\ pc[s] \in {"live", "leaving"} => backlog[s] = <<>>
             /\ pc[s] = "subscribed" => todo[Loop] = <<>>
        /\ \A i \in DOMAIN ready : ready[i].record.by # Loop
  BY Zenon DEF FeedStages
<1> QED
  BY <1>1, <1>2, <1>3, Zenon DEF Stage

\* A callback delivers no event of the engine: Head(ready) is none.
LEMMA NextDelivery ==
  ASSUME TypeOK, FeedStages, ready # <<>>
  PROVE  /\ Head(ready) \in Delivery /\ Head(ready).record \in Frame
         /\ Head(ready).record.by # Loop /\ NoneDelivered(Tail(ready))
<1>1. ready \in Seq(Delivery) /\ NoneDelivered(ready)
  BY StagesAre DEF TypeOK
<1>2. /\ Head(ready) \in Delivery
      /\ \A x : x \in ToSet(ready) <=> x = Head(ready) \/ x \in ToSet(Tail(ready))
  BY <1>1, TailIs
<1> QED
  BY <1>1, <1>2 DEF NoneDelivered, Delivery

\* There is no stream at first.
LEMMA StagesInit == Init => FeedStages
BY DEF Init, FeedStages

\* Nothing waits for a stream that has not begun, and callbacks bring it no event
\* of the engine.
LEMMA StagesStep ==
  TypeOK /\ PublishInTurn /\ EventInHand /\ FeedStages /\ Next => FeedStages'
<1> SUFFICES ASSUME TypeOK, PublishInTurn, EventInHand, FeedStages, Next
             PROVE  FeedStages'
  OBVIOUS
<1>1. \A s \in Streams : Stage(s)
  BY StagesAre
<1>2. NoneDelivered(ready)
  BY StagesAre
<1>3. TypeOK'
  BY TypeStep
<1>4. (TypeOK => (FeedStages <=> (\A s \in Streams : Stage(s)) /\ NoneDelivered(ready)))'
  BY StagesAre, PTL
<1>5. SUFFICES (\A s \in Streams : Stage(s)') /\ NoneDelivered(ready')
  BY <1>3, <1>4, Zenon DEF NoneDelivered
<1> DEFINE Goal == (\A s \in Streams : Stage(s)') /\ NoneDelivered(ready')
<1> USE DEF eventVars, actorVars, clientVars, feedVars
<1>6. Loop \in Actors
  BY DEF Actors
<1>7. ASSUME NEW a \in Actors, Allocate(a) PROVE Goal
  <2>1. /\ UNCHANGED <<ready, pc, backlog, queue, got>> /\ todo[a] # <<>> /\ Done(a)
    BY <1>7 DEF Allocate
  <2>2. a # Loop => todo'[Loop] = todo[Loop]
    BY <1>6, <2>1, NextInTurn
  <2> QED
    BY <1>1, <1>2, <2>1, <2>2 DEF Stage
<1>8. ASSUME NEW a \in Actors, AppendEvent(a) PROVE Goal
  <2>1. /\ UNCHANGED <<ready, pc, backlog, got>> /\ todo[a] # <<>> /\ Done(a)
    BY <1>8 DEF AppendEvent, Ahead
  <2>2. CASE a = Loop
    <3>1. \A s \in Streams : pc[s] # "subscribed"
      BY <1>1, <2>1, <2>2 DEF Stage
    <3>2. OfferTo(Subscribers, record[Loop]) /\ record[Loop] \in Frame
      BY <1>6, <1>8, <2>2 DEF AppendEvent, TypeOK
    <3>3. \A s \in Streams : pc[s] \in {"closed", "opened"} => queue'[s] = queue[s]
      <4>1. \A s \in Streams :
              queue'[s] = IF s \in Subscribers THEN Offer(s, record[Loop]) ELSE queue[s]
        <5>1. PICK S : S = Subscribers
          OBVIOUS
        <5>2. OfferTo(S, record[Loop])
          BY <3>2, <5>1, Zenon
        <5> QED
          BY <3>2, <5>1, <5>2, OfferToIs
      <4> QED
        BY <4>1 DEF Subscribers
    <3> QED
      BY <1>1, <1>2, <2>1, <3>1, <3>3 DEF Stage
  <2>3. CASE a # Loop
    <3>1. queue' = queue /\ todo'[Loop] = todo[Loop]
      BY <1>6, <1>8, <2>1, <2>3, NextInTurn DEF AppendEvent
    <3> QED
      BY <1>1, <1>2, <2>1, <3>1 DEF Stage
  <2> QED
    BY <2>2, <2>3
<1>9. ASSUME NEW t \in Threads, Schedule(t) PROVE Goal
  <2>0. t \in Actors /\ t # Loop
    BY BrokerAssumption DEF Actors
  <2>1. UNCHANGED <<pc, backlog, got, queue>> /\ todo[t] # <<>> /\ Done(t)
    BY <1>9 DEF Schedule, Ahead
  <2>2. todo'[Loop] = todo[Loop]
    BY <1>6, <2>0, <2>1, NextInTurn
  <2>3. record[t].by # Loop
    BY <1>9, <2>0 DEF Schedule, EventInHand
  <2>4. \A d \in ToSet(ready') : d \in ToSet(ready) \/ d.record = record[t]
    BY <1>9, <2>0, ScheduleIs
  <2>5. NoneDelivered(ready')
    BY <1>2, <2>3, <2>4 DEF NoneDelivered
  <2> QED
    BY <1>1, <2>1, <2>2, <2>5 DEF Stage
<1>10. CASE Deliver
  <2>1. /\ UNCHANGED <<pc, backlog, got, todo>> /\ ready # <<>> /\ ready' = Tail(ready)
        /\ OfferTo({Head(ready).to}, Head(ready).record)
    BY <1>10 DEF Deliver
  <2>2. PICK r : r = Head(ready).record
    OBVIOUS
  <2>3. r \in Frame /\ r.by # Loop /\ NoneDelivered(ready')
    BY <2>1, <2>2, NextDelivery
  <2>4. \A s \in Streams : queue'[s] = Offer(s, r) \/ queue'[s] = queue[s]
    BY <2>1, <2>2, <2>3, OfferToIs
  <2>5. \A s \in Streams : Under(queue[s], 0) => Under(queue'[s], 0)
    BY <2>3, <2>4, OfferIs
  <2> QED
    BY <1>1, <2>1, <2>3, <2>5 DEF Stage
<1>11. CASE Cleanup
  <2>1. UNCHANGED <<pc, backlog, got, queue, ready>> /\ todo[Loop] # <<>>
    BY <1>11 DEF Cleanup, Ahead
  <2>2. \A s \in Streams : pc[s] # "subscribed"
    BY <1>1, <2>1 DEF Stage
  <2> QED
    BY <1>1, <1>2, <2>1, <2>2 DEF Stage
<1>12. CASE \/ EngineStarts \/ EnginePublishes \/ EngineFinalises \/ EngineFinishes
            \/ \E t \in Threads : Request(t) \/ StopQueued(t)
  <2>1. UNCHANGED <<pc, backlog, got, queue, ready>>
    BY <1>12, WhoBegins
  <2>2. \/ todo'[Loop] = todo[Loop]
        \/ \A s \in Streams : pc[s] # "subscribed"
    BY <1>6, <1>12, WhoBegins DEF LoopFree
  <2> QED
    BY <1>1, <1>2, <2>1, <2>2 DEF Stage
<1>13. ASSUME NEW s \in Streams, Close(s) PROVE Goal
  <2>1. /\ \A i \in Streams : pc[i] # "subscribed" /\ UNCHANGED got
        /\ pc' = [pc EXCEPT ![s] = "closed"]
        /\ backlog' = [backlog EXCEPT ![s] = <<>>] /\ queue' = [queue EXCEPT ![s] = <<>>]
        /\ ready' = Filter(ready, {d \in ToSet(ready) : d.to # s})
    BY <1>13 DEF Close, LoopFree
  <2>2. NoneDelivered(ready')
    BY <1>2, <2>1, FilterIs DEF NoneDelivered, TypeOK
  <2>3. Under(<<>>, 0)
    BY DEF Under
  <2> QED
    BY <1>1, <2>1, <2>2, <2>3 DEF Stage, TypeOK
<1>14. ASSUME NEW s \in Streams,
              \/ Open(s) \/ Abandon(s) \/ Subscribe(s) \/ Replay(s) \/ SendReplayed(s)
              \/ Synthesise(s) \/ GoLive(s) \/ Receive(s)
       PROVE  Goal
  <2>1. todo' = todo /\ ready' = ready
    BY <1>14, StreamSteps
  <2>2. \A i \in Streams : i # s =>
          /\ pc'[i] = pc[i] /\ backlog'[i] = backlog[i]
          /\ queue'[i] = queue[i] /\ got'[i] = got[i]
    BY <1>14 DEF Open, Abandon, Subscribe, Replay, SendReplayed, Synthesise, GoLive, Receive,
       TypeOK
  <2>3. Stage(s)'
    <3>0. Stage(s) /\ Under(<<>>, 0)
      BY <1>1 DEF Under
    <3>1. CASE Open(s)
      BY <3>0, <3>1 DEF Open, Stage, TypeOK
    <3>2. CASE Abandon(s)
      BY <3>0, <3>2 DEF Abandon, Stage, TypeOK
    <3>3. CASE Subscribe(s)
      BY <3>0, <3>3 DEF Subscribe, Stage, TypeOK, LoopFree
    <3>4. CASE Replay(s) \/ SendReplayed(s)
      <4>1. pc'[s] = "replaying"
        BY <3>4 DEF Replay, SendReplayed, TypeOK
      <4> QED
        BY <4>1 DEF Stage
    <3>5. CASE Synthesise(s) \/ GoLive(s)
      BY <3>5 DEF Synthesise, GoLive, Replayed, Stage, TypeOK
    <3>6. CASE Receive(s)
      BY <3>0, <3>6 DEF Receive, Stage, TypeOK
    <3> QED
      BY <1>14, <3>1, <3>2, <3>3, <3>4, <3>5, <3>6
  <2> QED
    BY <1>1, <1>2, <2>1, <2>2, <2>3 DEF Stage
<1> HIDE DEF Goal
<1> QED
  BY <1>7, <1>8, <1>9, <1>10, <1>11, <1>12, <1>13, <1>14
     DEF Goal, Next, Continue, Serve, EndReplayed, Leave, Disconnect

-----------------------------------------------------------------------------
(* The engine's events in order. *)

\* A stream's frames g, backlog b and queue q: the engine's events in each, and
\* from one to the next, are in order and come before number n.
Ord(g, b, q, n) ==
  /\ InOrder(g) /\ InOrder(b) /\ InOrder(q)
  /\ Under(g, n) /\ Under(b, n) /\ Under(q, n)
  /\ Before(g, b) /\ Before(g, q) /\ Before(b, q)

\* What is below a bound is below a greater one.
LEMMA UnderGrows ==
  ASSUME NEW f \in Seq(Frame), NEW m \in Nat, NEW n \in Nat, m <= n, Under(f, m)
  PROVE  Under(f, n)
<1>1. \A r \in Frame : r.id \in Nat
  BY DEF Frame
<1>2. \A i \in DOMAIN f : f[i] \in Frame
  OBVIOUS
<1>3. \A i \in DOMAIN f : f[i].id < m => f[i].id < n
  BY <1>1, <1>2
<1> QED
  BY <1>3 DEF Under

\* Nothing is in order.
LEMMA EmptyOrder ==
  /\ InOrder(<<>>) /\ \A n : Under(<<>>, n)
  /\ \A f : Before(<<>>, f) /\ Before(f, <<>>)
BY DEF InOrder, Under, Before

\* What the steps of a stream do to its lists keeps the order.
LEMMA OrdKept ==
  ASSUME NEW g \in Seq(Frame), NEW b \in Seq(Frame), NEW q \in Seq(Frame), NEW n \in Nat,
         Ord(g, b, q, n)
  PROVE  /\ \A m \in Nat : n <= m => Ord(g, b, q, m)
         /\ b # <<>> => Ord(Append(g, Head(b)), Tail(b), q, n)
         /\ b = <<>> /\ q # <<>> => Ord(Append(g, Head(q)), b, Tail(q), n)
         /\ \A r \in Frame : r.by # Loop => Ord(Append(g, r), b, q, n)
         /\ Ord(g, <<>>, <<>>, n) /\ Ord(<<>>, b, q, n) /\ Ord(g, b, <<>>, n)
<1> USE DEF Ord
<1>1. \A m \in Nat : n <= m => Ord(g, b, q, m)
  BY UnderGrows
<1>2. ASSUME b # <<>>
      PROVE  Ord(Append(g, Head(b)), Tail(b), q, n)
  <2>1. Head(b) \in Frame /\ Tail(b) \in Seq(Frame) /\ Head(b).id \in Nat
    <3>1. Head(b) \in Frame /\ Tail(b) \in Seq(Frame)
      BY <1>2, TailIs
    <3> QED
      BY <3>1 DEF Frame
  <2>2. /\ InOrder(Tail(b)) /\ Under(Tail(b), n) /\ Before(Tail(b), q) /\ Before(g, Tail(b))
        /\ Head(b).by = Loop => /\ Above(Tail(b), Head(b)) /\ Head(b).id < n
                                /\ Above(q, Head(b)) /\ Under(g, Head(b).id)
    BY <1>2, OrderOfTail
  <2>3. InOrder(Append(g, Head(b))) /\ Under(Append(g, Head(b)), n)
    BY <2>1, <2>2, OrderOfAppend
  <2>4. Before(Append(g, Head(b)), Tail(b)) /\ Before(Append(g, Head(b)), q)
    BY <2>1, <2>2, OrderOfAppend
  <2> QED
    BY <2>2, <2>3, <2>4
<1>3. ASSUME b = <<>>, q # <<>>
      PROVE  Ord(Append(g, Head(q)), b, Tail(q), n)
  <2>1. Head(q) \in Frame /\ Tail(q) \in Seq(Frame) /\ Head(q).id \in Nat
    <3>1. Head(q) \in Frame /\ Tail(q) \in Seq(Frame)
      BY <1>3, TailIs
    <3> QED
      BY <3>1 DEF Frame
  <2>2. /\ InOrder(Tail(q)) /\ Under(Tail(q), n) /\ Before(g, Tail(q))
        /\ Head(q).by = Loop => /\ Above(Tail(q), Head(q)) /\ Head(q).id < n
                                /\ Under(g, Head(q).id)
    BY <1>3, OrderOfTail
  <2>3. InOrder(Append(g, Head(q))) /\ Under(Append(g, Head(q)), n)
    BY <2>1, <2>2, OrderOfAppend
  <2>4. Before(Append(g, Head(q)), Tail(q))
    BY <2>1, <2>2, OrderOfAppend
  <2> QED
    BY <1>3, <2>2, <2>3, <2>4, EmptyOrder
<1>4. ASSUME NEW r \in Frame, r.by # Loop
      PROVE  Ord(Append(g, r), b, q, n)
  BY <1>4, OrderOfAppend
<1>5. Ord(g, <<>>, <<>>, n) /\ Ord(<<>>, b, q, n) /\ Ord(g, b, <<>>, n)
  BY EmptyOrder
<1> HIDE DEF Ord
<1> QED
  BY <1>1, <1>2, <1>3, <1>4, <1>5

\* So does an event offered to its queue: none of the engine's, or its next.
LEMMA OrdOffered ==
  ASSUME TypeOK, NEW s \in Streams, NEW g \in Seq(Frame), NEW b \in Seq(Frame),
         NEW r \in Frame, NEW n \in Nat, NEW m \in Nat, n <= m, Ord(g, b, queue[s], n),
         r.by = Loop => r.id = n /\ n < m
  PROVE  Ord(g, b, Offer(s, r), m)
<1> USE DEF Ord
<1>1. r.by = Loop => Under(queue[s], r.id) /\ Under(g, r.id) /\ Under(b, r.id) /\ r.id < m
  OBVIOUS
<1>2. queue[s] \in Seq(Frame)
  BY DEF TypeOK
<1>3. Under(g, m) /\ Under(b, m) /\ Under(queue[s], m)
  BY <1>2, UnderGrows
<1>4. InOrder(Offer(s, r)) /\ Under(Offer(s, r), m)
  BY <1>1, <1>3, OfferIs
<1>5. Before(g, Offer(s, r)) /\ Before(b, Offer(s, r))
  BY <1>1, OfferIs
<1> QED
  BY <1>3, <1>4, <1>5

\* A replay takes what the buffer has, and the queue has nothing of the engine.
LEMMA OrdReplayed ==
  ASSUME NEW f \in Seq(Frame), NEW q \in Seq(Frame), NEW keep, NEW n \in Nat,
         InOrder(f), Under(f, n), InOrder(q), Under(q, 0)
  PROVE  Ord(<<>>, Filter(f, keep), q, n)
<1>1. InOrder(Filter(f, keep)) /\ Under(Filter(f, keep), n)
  BY OrderOfFilter
<1>2. Under(q, n)
  BY UnderGrows
<1>3. \A j \in DOMAIN q : q[j].by # Loop
  BY NoneOfEngine
<1>4. Before(Filter(f, keep), q)
  BY <1>3, Zenon DEF Before
<1> QED
  BY <1>1, <1>2, <1>4, EmptyOrder DEF Ord

\* The number of the engine's next event never falls, and rises when the engine
\* appends an event, which has that number.
LEMMA EngineCounts ==
  ASSUME TypeOK, PublishInTurn, EventInHand, Next
  PROVE  /\ NextOfEngine \in Nat /\ NextOfEngine' \in Nat /\ NextOfEngine <= NextOfEngine'
         /\ AppendEvent(Loop) =>
              /\ NextOfEngine = record[Loop].id /\ NextOfEngine < NextOfEngine'
              /\ record[Loop].by = Loop
<1> USE DEF eventVars, actorVars
<1>0. \A r \in Frame : r.id \in Nat
  BY DEF Frame
<1>1. Loop \in Actors /\ published \in Nat /\ record[Loop] \in Frame
  BY DEF Actors, TypeOK
<1>2. TypeOK'
  BY TypeStep
<1>3. published' \in Nat /\ record'[Loop] \in Frame
  BY <1>1, <1>2 DEF TypeOK
<1>4. NextOfEngine \in Nat /\ NextOfEngine' \in Nat /\ record[Loop].id \in Nat
  BY <1>0, <1>1, <1>3 DEF NextOfEngine
<1>5. Ahead(Loop, "append") => record[Loop].by = Loop /\ record[Loop].id <= published
  BY <1>1 DEF EventInHand
<1>6. NextOfEngine <= published + 1
  BY <1>1, <1>4, <1>5 DEF NextOfEngine
<1> DEFINE Goal == NextOfEngine <= NextOfEngine'
<1>7. CASE AppendEvent(Loop)
  <2>1. todo[Loop] # <<>> /\ Done(Loop) /\ Head(todo[Loop]) = "append" /\ published' = published
    BY <1>7 DEF AppendEvent, Ahead
  <2>2. ~Ahead(Loop, "append")' /\ Ahead(Loop, "append")
    BY <1>1, <1>7, <2>1, NextInTurn DEF AppendEvent
  <2>3. NextOfEngine = record[Loop].id /\ NextOfEngine' = published + 1
    BY <2>1, <2>2 DEF NextOfEngine
  <2> QED
    BY <1>1, <1>4, <1>5, <2>2, <2>3
<1>8. CASE Allocate(Loop)
  <2>1. todo[Loop] # <<>> /\ Done(Loop) /\ Head(todo[Loop]) \in Events
    BY <1>8 DEF Allocate
  <2>2. Ahead(Loop, "append")' /\ ~Ahead(Loop, "append")
    BY <1>1, <2>1, NextInTurn DEF Ahead, Events
  <2>3. record'[Loop].id = published + 1
    BY <1>1, <1>8 DEF Allocate, TypeOK
  <2>4. NextOfEngine = published + 1 /\ NextOfEngine' = published + 1
    BY <2>2, <2>3 DEF NextOfEngine
  <2>5. ~AppendEvent(Loop)
    BY <2>2 DEF AppendEvent
  <2> QED
    BY <1>4, <2>4, <2>5
<1>9. ASSUME ~Ahead(Loop, "append")', published <= published'
      PROVE  Goal
  <2>1. NextOfEngine' = published' + 1
    BY <1>9 DEF NextOfEngine
  <2>2. published <= published'
    BY <1>9
  <2>3. published \in Nat /\ published' \in Nat
    BY <1>1, <1>3
  <2>4. NextOfEngine <= published' + 1
    <3>1. \A a, b, n \in Nat : n <= a + 1 /\ a <= b => n <= b + 1
      OBVIOUS
    <3> QED
      BY <1>4, <1>6, <2>2, <2>3, <3>1, Zenon
  <2> QED
    BY <2>1, <2>4
<1>10. ASSUME todo'[Loop] = todo[Loop], record'[Loop] = record[Loop], published <= published'
       PROVE  Goal
  <2>1. Ahead(Loop, "append")' <=> Ahead(Loop, "append")
    BY <1>10 DEF Ahead
  <2>2. CASE Ahead(Loop, "append")
    BY <1>4, <1>10, <2>1, <2>2 DEF NextOfEngine
  <2>3. CASE ~Ahead(Loop, "append")
    BY <1>1, <1>3, <1>4, <1>6, <1>10, <2>1, <2>3 DEF NextOfEngine
  <2> QED
    BY <2>2, <2>3
<1>11. ASSUME NEW a \in Actors, a # Loop, Allocate(a) \/ AppendEvent(a) \/ Schedule(a)
       PROVE  Goal
  <2>1. todo[a] # <<>> /\ Done(a)
    BY <1>11 DEF Allocate, AppendEvent, Schedule, Ahead
  <2>2. todo'[Loop] = todo[Loop]
    BY <1>1, <1>11, <2>1, NextInTurn
  <2>3. record'[Loop] = record[Loop] /\ published <= published'
    BY <1>1, <1>11 DEF Allocate, AppendEvent, Schedule, TypeOK
  <2> QED
    BY <1>10, <2>2, <2>3
<1>12. ASSUME Cleanup PROVE Goal
  <2>1. /\ todo[Loop] # <<>> /\ Done(Loop) /\ Head(todo[Loop]) = "cleanup"
        /\ UNCHANGED <<published, record>>
    BY <1>12 DEF Cleanup, Ahead
  <2>2. ~Ahead(Loop, "append")'
    BY <1>1, <2>1, NextInTurn
  <2> QED
    BY <1>1, <1>9, <2>1, <2>2
<1>13. ASSUME \/ EngineStarts \/ EnginePublishes \/ EngineFinalises \/ EngineFinishes
              \/ \E t \in Threads : Request(t) \/ StopQueued(t)
       PROVE  Goal
  <2>1. UNCHANGED <<published, record>>
    BY <1>13, WhoBegins
  <2>2. PICK a \in Actors :
          /\ todo[a] = <<>> /\ ~Ahead(a, "append")'
          /\ \A b \in Actors : b # a => todo'[b] = todo[b]
    BY <1>13, WhoBegins
  <2>3. CASE a = Loop
    BY <1>1, <1>9, <2>1, <2>2, <2>3
  <2>4. CASE a # Loop
    BY <1>1, <1>10, <2>1, <2>2, <2>4
  <2> QED
    BY <2>3, <2>4
<1>14. ASSUME NEW s \in Streams, Close(s) PROVE Goal
  <2>1. ~Ahead(Loop, "append")' /\ UNCHANGED <<published, record>>
    BY <1>14, CloseStep
  <2> QED
    BY <1>1, <1>9, <2>1
<1>15. ASSUME UNCHANGED <<todo, record, published>> PROVE Goal
  BY <1>1, <1>10, <1>15
<1>16. Deliver => UNCHANGED <<todo, record, published>>
  BY DEF Deliver
<1>17. \A t \in Threads : t \in Actors /\ t # Loop
  BY BrokerAssumption DEF Actors
<1>18. Goal
  <2> HIDE DEF Goal
  <2>1. AppendEvent(Loop) \/ Allocate(Loop) => Goal
    BY <1>7, <1>8 DEF Goal
  <2> QED
    BY <1>11, <1>12, <1>13, <1>14, <1>15, <1>16, <1>17, <2>1, StreamSteps
       DEF Next, Continue, Serve, EndReplayed, Leave, Disconnect
<1> QED
  BY <1>4, <1>7, <1>18

\* EngineInOrder, in the words of this module.
OrderNow(n) ==
  /\ InOrder(event_buffer) /\ Under(event_buffer, n)
  /\ \A s \in Streams : Ord(got[s], backlog[s], queue[s], n)

\* The order of the engine's events, as a property of the next one to come.
LEMMA OrdersAre == EngineInOrder <=> OrderNow(NextOfEngine)
<1>1. \A f : Past(f) <=> Under(f, NextOfEngine)
  BY Zenon DEF Past, Under
<1> QED
  BY <1>1 DEF EngineInOrder, OrderNow, Ord

\* No event is out of order at first.
LEMMA OrderInit == Init => EngineInOrder
BY DEF Init, EngineInOrder, InOrder, Before, Past

\* Whatever step is taken, the buffer and every stream keep the engine's events in
\* order and before the next of them.
LEMMA OrderStep ==
  TypeOK /\ PublishInTurn /\ EventInHand /\ FeedStages /\ EngineInOrder /\ Next
    => EngineInOrder'
<1> SUFFICES ASSUME TypeOK, PublishInTurn, EventInHand, FeedStages, EngineInOrder, Next
             PROVE  EngineInOrder'
  OBVIOUS
<1> USE DEF eventVars, actorVars, clientVars, feedVars
<1>1. PICK n : n = NextOfEngine
  OBVIOUS
<1>2. PICK m : m = NextOfEngine'
  OBVIOUS
<1>3. /\ n \in Nat /\ m \in Nat /\ n <= m
      /\ AppendEvent(Loop) => n = record[Loop].id /\ n < m /\ record[Loop].by = Loop
  BY <1>1, <1>2, EngineCounts
<1>4. /\ InOrder(event_buffer) /\ Under(event_buffer, n)
      /\ \A s \in Streams : Ord(got[s], backlog[s], queue[s], n)
  BY <1>1, OrdersAre DEF OrderNow
<1> DEFINE Goal == /\ InOrder(event_buffer') /\ Under(event_buffer', m)
                   /\ \A s \in Streams : Ord(got'[s], backlog'[s], queue'[s], m)
<1>5. SUFFICES Goal
  <2>1. (EngineInOrder <=> OrderNow(NextOfEngine))'
    BY OrdersAre, PTL
  <2> QED
    BY <1>2, <2>1 DEF OrderNow
<1>6. /\ event_buffer \in Seq(Frame)
      /\ \A s \in Streams : /\ got[s] \in Seq(Frame) /\ backlog[s] \in Seq(Frame)
                            /\ queue[s] \in Seq(Frame)
  BY DEF TypeOK
<1>7. Under(event_buffer, m)
  BY <1>3, <1>4, <1>6, UnderGrows
<1>8. \A s \in Streams : Ord(got[s], backlog[s], queue[s], m)
  <2> SUFFICES ASSUME NEW s \in Streams PROVE Ord(got[s], backlog[s], queue[s], m)
    OBVIOUS
  <2>1. Ord(got[s], backlog[s], queue[s], n)
    BY <1>4
  <2> QED
    BY <1>3, <1>6, <2>1, OrdKept
<1>9. CASE AppendEvent(Loop)
  <2>1. PICK r : r = record[Loop]
    OBVIOUS
  <2>2. r \in Frame /\ r.by = Loop /\ r.id = n /\ n < m
    BY <1>3, <1>9, <2>1 DEF TypeOK, Actors
  <2>3. event_buffer' = Buffered(r) /\ UNCHANGED <<got, backlog>>
    BY <1>9, <2>1 DEF AppendEvent
  <2>4. InOrder(event_buffer') /\ Under(event_buffer', m)
    BY <1>3, <1>4, <1>7, <2>2, <2>3, BufferedIs
  <2>5. PICK S : OfferTo(S, r)
    BY <1>9, <2>1 DEF AppendEvent
  <2>6. ASSUME NEW s \in Streams
        PROVE  Ord(got[s], backlog[s], queue'[s], m)
    <3>1. queue'[s] = Offer(s, r) \/ queue'[s] = queue[s]
      BY <2>2, <2>5, OfferToIs
    <3>2. Ord(got[s], backlog[s], queue[s], n)
      BY <1>4
    <3>3. Ord(got[s], backlog[s], Offer(s, r), m)
      BY <1>3, <1>6, <2>2, <3>2, OrdOffered
    <3> QED
      BY <1>8, <3>1, <3>3
  <2> QED
    BY <2>3, <2>4, <2>6
<1>10. ASSUME NEW t \in Threads, AppendEvent(t) PROVE Goal
  <2>1. t \in Actors /\ t # Loop
    BY BrokerAssumption DEF Actors
  <2>2. record[t] \in Frame /\ record[t].by # Loop
    BY <1>10, <2>1 DEF TypeOK, AppendEvent, EventInHand
  <2>3. event_buffer' = Buffered(record[t]) /\ UNCHANGED <<got, backlog, queue>>
    BY <1>10, <2>1 DEF AppendEvent
  <2>4. InOrder(event_buffer') /\ Under(event_buffer', m)
    BY <1>3, <1>4, <1>7, <2>2, <2>3, BufferedIs
  <2> QED
    BY <1>8, <2>3, <2>4
<1>11. CASE Deliver
  <2>1. PICK r : r = Head(ready).record
    OBVIOUS
  <2>2. r \in Frame /\ r.by # Loop /\ OfferTo({Head(ready).to}, r)
    BY <1>11, <2>1, NextDelivery DEF Deliver
  <2>3. UNCHANGED <<event_buffer, got, backlog>>
    BY <1>11 DEF Deliver
  <2>4. ASSUME NEW s \in Streams
        PROVE  Ord(got[s], backlog[s], queue'[s], m)
    <3>1. queue'[s] = Offer(s, r) \/ queue'[s] = queue[s]
      BY <2>2, OfferToIs
    <3>2. Ord(got[s], backlog[s], queue[s], n)
      BY <1>4
    <3>3. Ord(got[s], backlog[s], Offer(s, r), m)
      BY <1>3, <1>6, <2>2, <3>2, OrdOffered
    <3> QED
      BY <1>8, <3>1, <3>3
  <2> QED
    BY <1>4, <1>7, <2>3, <2>4
<1>12. CASE Cleanup
  <2>1. /\ UNCHANGED <<got, backlog, queue>>
        /\ event_buffer' = event_buffer \/ event_buffer' = <<>>
    BY <1>12 DEF Cleanup
  <2> QED
    BY <1>4, <1>7, <1>8, <2>1, EmptyOrder
<1>13. ASSUME UNCHANGED <<event_buffer, got, backlog, queue>> PROVE Goal
  BY <1>4, <1>7, <1>8, <1>13
<1>14. ASSUME NEW s \in Streams,
              \/ Subscribe(s) \/ Replay(s) \/ SendReplayed(s) \/ Synthesise(s) \/ Receive(s)
              \/ Open(s) \/ Close(s)
       PROVE  Goal
  <2>1. /\ event_buffer' = event_buffer
        /\ \A i \in Streams : i # s =>
             got'[i] = got[i] /\ backlog'[i] = backlog[i] /\ queue'[i] = queue[i]
    BY <1>14 DEF Subscribe, Replay, SendReplayed, Synthesise, Receive, Open, Close, TypeOK
  <2>2. PICK g, b, q : g = got[s] /\ b = backlog[s] /\ q = queue[s]
    OBVIOUS
  <2>3. g \in Seq(Frame) /\ b \in Seq(Frame) /\ q \in Seq(Frame) /\ Ord(g, b, q, m)
    BY <1>6, <1>8, <2>2
  <2>4. Stage(s)
    BY StagesAre
  <2>5. Ord(got'[s], backlog'[s], queue'[s], m)
    <3>1. CASE Subscribe(s)
      <4>1. got'[s] = g /\ backlog'[s] = b /\ queue'[s] = <<>>
        BY <2>2, <3>1 DEF Subscribe, TypeOK
      <4> QED
        BY <1>3, <2>3, <4>1, OrdKept
    <3>2. CASE Replay(s)
      <4>1. got[s] = <<>> /\ Under(q, 0)
        BY <2>2, <2>4, <3>2 DEF Stage, Replay
      <4>2. PICK keep : backlog'[s] = Filter(event_buffer, keep)
        BY <3>2 DEF Replay, replay_events, TypeOK
      <4>3. got'[s] = <<>> /\ queue'[s] = q
        BY <2>2, <3>2, <4>1 DEF Replay
      <4>4. InOrder(q)
        BY <2>3 DEF Ord
      <4>5. Ord(<<>>, Filter(event_buffer, keep), q, m)
        BY <1>3, <1>4, <1>6, <1>7, <2>3, <4>1, <4>4, OrdReplayed
      <4> QED
        BY <4>2, <4>3, <4>5
    <3>3. CASE SendReplayed(s)
      <4>1. /\ got'[s] = Append(g, Head(b)) /\ backlog'[s] = Tail(b) /\ queue'[s] = q
            /\ b # <<>>
        BY <2>2, <3>3 DEF SendReplayed, TypeOK
      <4> QED
        BY <1>3, <2>3, <4>1, OrdKept
    <3>4. CASE Synthesise(s)
      <4>1. PICK r : r = [id |-> 0, sequence |-> sequences + 1, event |-> "finished", by |-> s]
        OBVIOUS
      <4>2. r \in Frame /\ r.by # Loop
        BY <4>1, BrokerAssumption DEF Frame, Events, TypeOK
      <4>3. got' = [got EXCEPT ![s] = Append(@, r)]
        BY <3>4, <4>1 DEF Synthesise
      <4>4. got'[s] = Append(g, r) /\ backlog'[s] = b /\ queue'[s] = q
        BY <2>2, <3>4, <4>3 DEF Synthesise, TypeOK
      <4> QED
        BY <1>3, <2>3, <4>2, <4>4, OrdKept
    <3>5. CASE Receive(s)
      <4>1. b = <<>>
        BY <2>2, <2>4, <3>5 DEF Stage, Receive
      <4>2. /\ got'[s] = Append(g, Head(q)) /\ backlog'[s] = b /\ queue'[s] = Tail(q)
            /\ q # <<>>
        BY <2>2, <3>5 DEF Receive, TypeOK
      <4> QED
        BY <1>3, <2>3, <4>1, <4>2, OrdKept
    <3>6. CASE Open(s)
      <4>1. got'[s] = <<>> /\ backlog'[s] = b /\ queue'[s] = q
        BY <2>2, <3>6 DEF Open, TypeOK
      <4> QED
        BY <1>3, <2>3, <4>1, OrdKept
    <3>7. CASE Close(s)
      <4>1. got'[s] = g /\ backlog'[s] = <<>> /\ queue'[s] = <<>>
        BY <2>2, <3>7 DEF Close, TypeOK
      <4> QED
        BY <1>3, <2>3, <4>1, OrdKept
    <3> QED
      BY <1>14, <3>1, <3>2, <3>3, <3>4, <3>5, <3>6, <3>7
  <2>6. \A i \in Streams : Ord(got'[i], backlog'[i], queue'[i], m)
    BY <1>8, <2>1, <2>5
  <2> QED
    BY <1>4, <1>7, <2>1, <2>6
<1>15. CASE \/ EngineStarts \/ EnginePublishes \/ EngineFinalises \/ EngineFinishes
            \/ \E t \in Threads : Request(t) \/ StopQueued(t)
  <2>1. UNCHANGED <<event_buffer, got, backlog, queue>>
    BY <1>15, WhoBegins
  <2> QED
    BY <1>13, <2>1
<1>16. ASSUME \/ \E a \in Actors : Allocate(a)
              \/ \E t \in Threads : Schedule(t)
              \/ \E s \in Streams : GoLive(s) \/ Abandon(s)
       PROVE  Goal
  <2>1. UNCHANGED <<event_buffer, got, backlog, queue>>
    BY <1>16 DEF Allocate, Schedule, GoLive, Abandon
  <2> QED
    BY <1>13, <2>1
<1> HIDE DEF Goal
<1> QED
  BY <1>9, <1>10, <1>11, <1>12, <1>14, <1>15, <1>16
     DEF Next, Continue, Actors, Serve, EndReplayed, Leave, Disconnect

-----------------------------------------------------------------------------
(* No gap between backfill and live feed. *)

\* Stream s has event r, has it waiting, or has it on its way.
Has(s, r) ==
  \/ r \in ToSet(got[s]) \/ r \in ToSet(backlog[s]) \/ r \in ToSet(queue[s])
  \/ [to |-> s, record |-> r] \in ToSet(ready)
  \/ \E t \in Threads : record[t] = r /\ s \in targets[t]

\* Stream s is owed every event of the buffer beyond after[s].
Served(s) == pc[s] \in {"replaying", "live"} /\ ~dropped[s]
Whole(s) == Served(s) => \A r \in ToSet(event_buffer) : r.sequence > after[s] => Has(s, r)

\* The property, stream by stream.
LEMMA GapsAre == TypeOK => (NoGap <=> \A s \in Streams : Whole(s))
<1> SUFFICES ASSUME TypeOK PROVE NoGap <=> \A s \in Streams : Whole(s)
  OBVIOUS
<1>1. ASSUME NEW s \in Streams
      PROVE  \A r : r \in ToSet(Frames(s)) <=>
               r \in ToSet(got[s]) \/ r \in ToSet(backlog[s]) \/ r \in ToSet(queue[s])
  <2>1. got[s] \in Seq(Frame) /\ backlog[s] \in Seq(Frame) /\ queue[s] \in Seq(Frame)
    BY DEF TypeOK
  <2>2. /\ got[s] \o backlog[s] \in Seq(Frame)
        /\ \A r : r \in ToSet(got[s] \o backlog[s]) <=>
             r \in ToSet(got[s]) \/ r \in ToSet(backlog[s])
    BY <2>1, ConcatIs
  <2>3. Frames(s) = (got[s] \o backlog[s]) \o queue[s]
    BY DEF Frames
  <2>4. \A r : r \in ToSet(Frames(s)) <=>
          r \in ToSet(got[s] \o backlog[s]) \/ r \in ToSet(queue[s])
    <3>1. PICK h : h = got[s] \o backlog[s]
      OBVIOUS
    <3>2. h \in Seq(Frame) /\ Frames(s) = h \o queue[s]
      BY <2>2, <2>3, <3>1
    <3>3. \A r : r \in ToSet(h \o queue[s]) <=> r \in ToSet(h) \/ r \in ToSet(queue[s])
      BY <2>1, <3>2, ConcatIs
    <3> QED
      BY <3>1, <3>2, <3>3
  <2> QED
    BY <2>2, <2>4, Zenon
<1> QED
  BY <1>1, Zenon DEF NoGap, Whole, Served, Has

\* Nobody has missed anything at first.
LEMMA GapInit == Init => NoGap
BY DEF Init, NoGap

\* No step makes a stream miss an event in silence.
LEMMA GapStep ==
  TypeOK /\ PublishInTurn /\ EventInHand /\ FeedStages /\ NoGap /\ Next => NoGap'
<1> SUFFICES ASSUME TypeOK, PublishInTurn, EventInHand, FeedStages, NoGap, Next
             PROVE  NoGap'
  OBVIOUS
<1> USE DEF eventVars, actorVars, clientVars, feedVars
<1>1. \A s \in Streams : Whole(s)
  BY GapsAre
<1>2. SUFFICES \A s \in Streams : Whole(s)'
  <2>1. TypeOK'
    BY TypeStep
  <2>2. (TypeOK => (NoGap <=> \A s \in Streams : Whole(s)))'
    BY GapsAre, PTL
  <2> QED
    BY <1>2, <2>1, <2>2, Zenon DEF Whole, Served, Has
<1> DEFINE Goal == \A s \in Streams : Whole(s)'
<1>3. \A a \in Actors : targets[a] # {} => Ahead(a, "schedule")
  BY DEF EventInHand
<1>4. \A t \in Threads : t \in Actors /\ t # Loop
  BY BrokerAssumption DEF Actors
<1>5. ASSUME NEW s \in Streams,
             Served(s)' => Served(s),
             after'[s] = after[s],
             \A r \in ToSet(event_buffer') : r.sequence > after[s] /\ Served(s)' =>
               r \in ToSet(event_buffer) \/ Has(s, r)',
             \A r : Has(s, r) /\ Served(s)' => Has(s, r)'
      PROVE  Whole(s)'
  BY <1>1, <1>5 DEF Whole
<1>6. ASSUME NEW a \in Actors, Allocate(a) PROVE Goal
  <2>1. targets[a] = {}
    BY <1>3, <1>6 DEF Allocate, Ahead, Events
  <2>2. \A b \in Actors : b # a => record'[b] = record[b]
    BY <1>6 DEF Allocate, TypeOK
  <2>3. UNCHANGED <<event_buffer, targets, ready, pc, dropped, after, got, backlog, queue>>
    BY <1>6 DEF Allocate
  <2>4. \A s \in Streams : \A r : Has(s, r) => Has(s, r)'
    BY <1>4, <2>1, <2>2, <2>3 DEF Has
  <2> QED
    BY <1>5, <2>3, <2>4 DEF Served
<1>7. CASE AppendEvent(Loop)
  <2>1. PICK q : q = record[Loop]
    OBVIOUS
  <2>2. PICK S : S = Subscribers
    OBVIOUS
  <2>3. q \in Frame /\ OfferTo(S, q) /\ event_buffer' = Buffered(q)
    BY <1>7, <2>1, <2>2 DEF AppendEvent, TypeOK, Actors
  <2>4. UNCHANGED <<targets, ready, pc, after, got, backlog>>
    BY <1>7 DEF AppendEvent
  <2>5. \A t \in Threads : record'[t] = record[t]
    BY <1>4, <1>7 DEF AppendEvent, TypeOK
  <2>6. \A r \in ToSet(event_buffer') : r \in ToSet(event_buffer) \/ r = q
    BY <2>3, BufferedIs
  <2>7. ASSUME NEW s \in Streams, Served(s)'
        PROVE  /\ Served(s) /\ q \in ToSet(queue'[s])
               /\ ToSet(queue[s]) \subseteq ToSet(queue'[s])
    <3>1. s \in S
      BY <2>2, <2>4, <2>7 DEF Served, Subscribers
    <3>2. queue'[s] = Offer(s, q) /\ ~dropped[s] /\ ~Full(s)
      BY <2>3, <2>7, <3>1, OfferToIs DEF Served
    <3> QED
      BY <2>3, <2>4, <2>7, <3>2, OfferIs DEF Served
  <2>8. ASSUME NEW s \in Streams PROVE Whole(s)'
    <3>1. \A r : Has(s, r) /\ Served(s)' => Has(s, r)'
      BY <2>4, <2>5, <2>7 DEF Has
    <3>2. Served(s)' => Has(s, q)'
      BY <2>7 DEF Has
    <3> QED
      BY <1>5, <2>4, <2>6, <2>7, <3>1, <3>2
  <2> QED
    BY <2>8
<1>8. ASSUME NEW t \in Threads, AppendEvent(t) PROVE Goal
  <2>1. t \in Actors /\ t # Loop
    BY <1>4
  <2>2. record[t] \in Frame /\ event_buffer' = Buffered(record[t])
    BY <1>8, <2>1 DEF AppendEvent, TypeOK
  <2>3. UNCHANGED <<record, ready, pc, dropped, after, got, backlog, queue>>
    BY <1>8, <2>1 DEF AppendEvent
  <2>4. targets' = [targets EXCEPT ![t] = Subscribers]
    BY <1>8, <2>1 DEF AppendEvent
  <2>5. targets[t] = {} /\ targets'[t] = Subscribers
    BY <1>3, <1>8, <2>1, <2>4 DEF AppendEvent, Ahead, TypeOK
  <2>6. \A b \in Threads : b # t => targets'[b] = targets[b]
    BY <1>4, <2>4 DEF TypeOK
  <2>7. \A r \in ToSet(event_buffer') : r \in ToSet(event_buffer) \/ r = record[t]
    BY <2>2, BufferedIs
  <2>8. ASSUME NEW s \in Streams PROVE Whole(s)'
    <3>1. \A r : Has(s, r) => Has(s, r)'
      BY <2>3, <2>5, <2>6 DEF Has
    <3>2. Served(s)' => Served(s) /\ s \in targets'[t]
      BY <2>3, <2>5 DEF Served, Subscribers
    <3>3. Served(s)' => Has(s, record[t])'
      BY <2>3, <3>2 DEF Has
    <3> QED
      BY <1>5, <2>3, <2>7, <3>1, <3>2, <3>3
  <2> QED
    BY <2>8
<1>9. ASSUME NEW t \in Threads, Schedule(t) PROVE Goal
  <2>1. t \in Actors
    BY <1>4
  <2>2. UNCHANGED <<event_buffer, pc, dropped, after, got, backlog, queue>>
    BY <1>9 DEF Schedule
  <2>3. \A b \in Threads : b # t => targets'[b] = targets[b] /\ record'[b] = record[b]
    BY <1>4, <1>9 DEF Schedule, TypeOK
  <2>4. /\ \A s \in targets[t] : [to |-> s, record |-> record[t]] \in ToSet(ready')
        /\ \A d \in ToSet(ready) : d \in ToSet(ready')
    BY <1>9, <2>1, ScheduleIs
  <2>5. ASSUME NEW s \in Streams, NEW r, Has(s, r)
        PROVE  Has(s, r)'
    <3>1. CASE \E b \in Threads : record[b] = r /\ s \in targets[b]
      BY <2>3, <2>4, <3>1 DEF Has
    <3>2. CASE [to |-> s, record |-> r] \in ToSet(ready)
      BY <2>4, <3>2 DEF Has
    <3> QED
      BY <2>2, <2>5, <3>1, <3>2 DEF Has
  <2> QED
    BY <1>5, <2>2, <2>5 DEF Served
<1>10. CASE Deliver
  <2>1. PICK d : d = Head(ready)
    OBVIOUS
  <2>2. d \in Delivery /\ d.record \in Frame /\ OfferTo({d.to}, d.record)
    BY <1>10, <2>1, NextDelivery DEF Deliver
  <2>3. UNCHANGED <<event_buffer, record, targets, pc, after, got, backlog>>
    BY <1>10 DEF Deliver
  <2>4. \A x : x \in ToSet(ready) <=> x = d \/ x \in ToSet(ready')
    <3>1. ready \in Seq(Delivery) /\ ready # <<>> /\ ready' = Tail(ready)
      BY <1>10 DEF Deliver, TypeOK
    <3> QED
      BY <2>1, <3>1, TailIs
  <2>5. ASSUME NEW s \in Streams, Served(s)'
        PROVE  /\ Served(s) /\ (s = d.to => d.record \in ToSet(queue'[s]))
               /\ ToSet(queue[s]) \subseteq ToSet(queue'[s])
    <3>1. /\ queue'[s] = IF s \in {d.to} THEN Offer(s, d.record) ELSE queue[s]
          /\ ~dropped[s] /\ ~(s \in {d.to} /\ Full(s))
      BY <2>2, <2>5, OfferToIs DEF Served
    <3>2. CASE s = d.to
      BY <2>2, <2>3, <2>5, <3>1, <3>2, OfferIs DEF Served
    <3>3. CASE s # d.to
      BY <2>3, <2>5, <3>1, <3>3 DEF Served
    <3> QED
      BY <3>2, <3>3
  <2>6. ASSUME NEW s \in Streams, NEW r, Has(s, r), Served(s)'
        PROVE  Has(s, r)'
    <3>1. CASE [to |-> s, record |-> r] \in ToSet(ready)
      <4>1. CASE [to |-> s, record |-> r] = d
        <5>1. d.to = s /\ d.record = r
          BY <4>1
        <5> QED
          BY <2>5, <2>6, <5>1 DEF Has
      <4>2. CASE [to |-> s, record |-> r] \in ToSet(ready')
        BY <4>2 DEF Has
      <4> QED
        BY <2>4, <3>1, <4>1, <4>2
    <3>2. CASE r \in ToSet(queue[s])
      BY <2>5, <2>6, <3>2 DEF Has
    <3> QED
      BY <2>3, <2>6, <3>1, <3>2 DEF Has
  <2> QED
    BY <1>5, <2>3, <2>5, <2>6
<1>11. CASE Cleanup
  <2>1. UNCHANGED <<record, targets, ready, pc, dropped, after, got, backlog, queue>>
    BY <1>11 DEF Cleanup
  <2>2. \A r \in ToSet(event_buffer') : r \in ToSet(event_buffer)
    <3>1. event_buffer' = event_buffer \/ event_buffer' = <<>>
      BY <1>11 DEF Cleanup
    <3>2. ToSet(<<>>) = {}
      BY DEF ToSet
    <3> QED
      BY <3>1, <3>2
  <2> QED
    BY <1>5, <2>1, <2>2 DEF Served, Has
<1>12. CASE \/ EngineStarts \/ EnginePublishes \/ EngineFinalises \/ EngineFinishes
            \/ \E t \in Threads : Request(t) \/ StopQueued(t)
  <2>1. UNCHANGED <<event_buffer, record, targets, ready, pc, dropped, after, got, backlog, queue>>
    BY <1>12, WhoBegins
  <2> QED
    BY <1>5, <2>1 DEF Served, Has
<1>13. ASSUME NEW s \in Streams,
              \/ Subscribe(s) \/ Replay(s) \/ SendReplayed(s) \/ Synthesise(s) \/ GoLive(s)
              \/ Receive(s) \/ Open(s) \/ Abandon(s)
       PROVE  Goal
  <2>1. UNCHANGED <<event_buffer, record, targets, ready>>
    BY <1>13, StreamSteps
  <2>2. \A i \in Streams : i # s =>
          /\ pc'[i] = pc[i] /\ dropped'[i] = dropped[i] /\ after'[i] = after[i]
          /\ got'[i] = got[i] /\ backlog'[i] = backlog[i] /\ queue'[i] = queue[i]
    BY <1>13 DEF Subscribe, Replay, SendReplayed, Synthesise, GoLive, Receive, Open, Abandon,
       TypeOK
  <2>3. ASSUME NEW i \in Streams, i # s PROVE Whole(i)'
    <3>1. UNCHANGED <<pc[i], dropped[i], after[i], got[i], backlog[i], queue[i]>>
      BY <2>2, <2>3
    <3> QED
      BY <1>5, <2>1, <3>1 DEF Served, Has
  <2>4. got[s] \in Seq(Frame) /\ backlog[s] \in Seq(Frame) /\ queue[s] \in Seq(Frame)
    BY DEF TypeOK
  <2>5. Whole(s)'
    <3>1. CASE Subscribe(s) \/ Open(s) \/ Abandon(s) \/ Synthesise(s)
      <4>1. pc'[s] \notin {"replaying", "live"}
        BY <3>1 DEF Subscribe, Open, Abandon, Synthesise, TypeOK
      <4> QED
        BY <4>1 DEF Whole, Served
    <3>2. CASE Replay(s)
      <4>1. backlog'[s] = replay_events(after[s]) /\ after' = after
        BY <3>2 DEF Replay, TypeOK
      <4>2. \A r \in ToSet(event_buffer) : r.sequence > after[s] => r \in ToSet(backlog'[s])
        BY <4>1, FilterIs DEF replay_events, TypeOK
      <4> QED
        BY <2>1, <4>1, <4>2 DEF Whole, Has
    <3>3. CASE SendReplayed(s)
      <4>1. PICK f : f = backlog[s]
        OBVIOUS
      <4>2. /\ f # <<>> /\ got'[s] = Append(got[s], Head(f)) /\ backlog'[s] = Tail(f)
            /\ UNCHANGED <<pc[s], dropped[s], after[s], queue[s]>>
        BY <3>3, <4>1 DEF SendReplayed, TypeOK
      <4>3. /\ Head(f) \in Frame
            /\ \A x : x \in ToSet(f) <=> x = Head(f) \/ x \in ToSet(backlog'[s])
        BY <2>4, <4>1, <4>2, TailIs
      <4>4. \A x : x \in ToSet(got'[s]) <=> x \in ToSet(got[s]) \/ x = Head(f)
        BY <2>4, <4>2, <4>3, AppendIs
      <4>5. \A r : Has(s, r) => Has(s, r)'
        BY <2>1, <4>1, <4>2, <4>3, <4>4 DEF Has
      <4> QED
        BY <1>5, <2>1, <4>2, <4>5 DEF Served
    <3>4. CASE Receive(s)
      <4>1. PICK f : f = queue[s]
        OBVIOUS
      <4>2. /\ f # <<>> /\ got'[s] = Append(got[s], Head(f)) /\ queue'[s] = Tail(f)
            /\ UNCHANGED <<dropped[s], after[s], backlog[s]>> /\ pc[s] = "live"
        BY <3>4, <4>1 DEF Receive, TypeOK
      <4>3. /\ Head(f) \in Frame
            /\ \A x : x \in ToSet(f) <=> x = Head(f) \/ x \in ToSet(queue'[s])
        BY <2>4, <4>1, <4>2, TailIs
      <4>4. \A x : x \in ToSet(got'[s]) <=> x \in ToSet(got[s]) \/ x = Head(f)
        BY <2>4, <4>2, <4>3, AppendIs
      <4>5. \A r : Has(s, r) => Has(s, r)'
        BY <2>1, <4>1, <4>2, <4>3, <4>4 DEF Has
      <4> QED
        BY <1>5, <2>1, <4>2, <4>5 DEF Served
    <3>5. CASE GoLive(s)
      <4>1. UNCHANGED <<dropped, after, got, backlog, queue>> /\ pc[s] = "replaying"
        BY <3>5 DEF GoLive, Replayed
      <4>2. \A r : Has(s, r) => Has(s, r)'
        BY <2>1, <4>1 DEF Has
      <4> QED
        BY <1>5, <2>1, <4>1, <4>2 DEF Served
    <3> QED
      BY <1>13, <3>1, <3>2, <3>3, <3>4, <3>5
  <2> QED
    BY <2>3, <2>5
<1>14. ASSUME NEW s \in Streams, Close(s) PROVE Goal
  <2>1. /\ UNCHANGED <<event_buffer, record, dropped, after, got>>
        /\ pc' = [pc EXCEPT ![s] = "closed"]
        /\ backlog' = [backlog EXCEPT ![s] = <<>>] /\ queue' = [queue EXCEPT ![s] = <<>>]
        /\ ready' = Filter(ready, {d \in ToSet(ready) : d.to # s})
        /\ targets' = [t \in Actors |-> targets[t] \ {s}]
    BY <1>14 DEF Close
  <2>2. Whole(s)'
    <3>1. pc'[s] = "closed"
      BY <2>1 DEF TypeOK
    <3> QED
      BY <3>1 DEF Whole, Served
  <2>3. ASSUME NEW i \in Streams, i # s PROVE Whole(i)'
    <3>1. UNCHANGED <<pc[i], dropped[i], after[i], got[i], backlog[i], queue[i]>>
      BY <2>1, <2>3 DEF TypeOK
    <3>2. \A r : [to |-> i, record |-> r] \in ToSet(ready) =>
            [to |-> i, record |-> r] \in ToSet(ready')
      <4> SUFFICES ASSUME NEW r, [to |-> i, record |-> r] \in ToSet(ready)
                   PROVE  [to |-> i, record |-> r] \in ToSet(ready')
        OBVIOUS
      <4>1. [to |-> i, record |-> r].to # s
        BY <2>3
      <4>2. [to |-> i, record |-> r] \in {d \in ToSet(ready) : d.to # s}
        BY <4>1
      <4> QED
        BY <2>1, <4>2, FilterIs DEF TypeOK
    <3>3. \A t \in Threads : i \in targets[t] => i \in targets'[t]
      BY <1>4, <2>1, <2>3
    <3>4. \A r : Has(i, r) => Has(i, r)'
      BY <2>1, <3>1, <3>2, <3>3 DEF Has
    <3> QED
      BY <1>5, <2>1, <3>1, <3>4 DEF Served
  <2> QED
    BY <2>2, <2>3
<1> HIDE DEF Goal
<1> QED
  BY <1>6, <1>7, <1>8, <1>9, <1>10, <1>11, <1>12, <1>13, <1>14
     DEF Goal, Next, Continue, Actors, Serve, EndReplayed, Leave, Disconnect

-----------------------------------------------------------------------------
(* Theorems. *)

\* The engine's events are in order in the lists of a stream joined together.
LEMMA InOrderJoined ==
  ASSUME NEW f \in Seq(Frame), NEW g \in Seq(Frame), InOrder(f), InOrder(g), Before(f, g)
  PROVE  f \o g \in Seq(Frame) /\ InOrder(f \o g)
<1> DEFINE h == f \o g
<1>1. /\ h \in Seq(Frame) /\ Len(h) = Len(f) + Len(g) /\ Len(f) \in Nat /\ Len(g) \in Nat
      /\ \A i \in 1..Len(f) : h[i] = f[i]
      /\ \A i \in 1..Len(g) : h[Len(f) + i] = g[i]
  BY ConcatIs, InList
<1>2. DOMAIN f = 1..Len(f) /\ DOMAIN g = 1..Len(g) /\ DOMAIN h = 1..Len(h)
  BY <1>1
<1> HIDE DEF h
<1>3. \A i \in 1..Len(h) :
        i \in 1..Len(f) \/ (i > Len(f) /\ i - Len(f) \in 1..Len(g) /\ h[i] = g[i - Len(f)])
  <2> SUFFICES ASSUME NEW i \in 1..Len(h), i \notin 1..Len(f)
               PROVE  i > Len(f) /\ i - Len(f) \in 1..Len(g) /\ h[i] = g[i - Len(f)]
    OBVIOUS
  <2>1. i > Len(f) /\ i - Len(f) \in 1..Len(g) /\ Len(f) + (i - Len(f)) = i
    BY <1>1
  <2> QED
    BY <1>1, <2>1
<1>4. InOrder(h)
  <2> SUFFICES ASSUME NEW i \in DOMAIN h, NEW j \in DOMAIN h, i < j,
                      h[i].by = Loop, h[j].by = Loop
               PROVE  h[i].id < h[j].id
    BY DEF InOrder
  <2>1. CASE j \in 1..Len(f)
    <3>1. i \in 1..Len(f) /\ h[i] = f[i] /\ h[j] = f[j]
      BY <1>1, <1>2, <2>1
    <3> QED
      BY <1>2, <2>1, <3>1 DEF InOrder
  <2>2. CASE i \in 1..Len(f) /\ j \notin 1..Len(f)
    <3>1. h[i] = f[i] /\ j - Len(f) \in 1..Len(g) /\ h[j] = g[j - Len(f)]
      BY <1>1, <1>2, <1>3, <2>2
    <3> QED
      BY <1>2, <2>2, <3>1 DEF Before
  <2>3. CASE i \notin 1..Len(f) /\ j \notin 1..Len(f)
    <3>1. /\ i - Len(f) \in 1..Len(g) /\ h[i] = g[i - Len(f)]
          /\ j - Len(f) \in 1..Len(g) /\ h[j] = g[j - Len(f)]
      BY <1>2, <1>3, <2>3
    <3>2. i - Len(f) < j - Len(f)
      BY <1>1, <1>2
    <3> QED
      BY <1>2, <3>1, <3>2 DEF InOrder
  <2> QED
    BY <2>1, <2>2, <2>3
<1> QED
  BY <1>1, <1>4 DEF h

\* What the inductive invariant says of a stream's frames.
LEMMA InvMeansInOrder == TypeOK /\ EngineInOrder => EngineEventsInOrder
<1> SUFFICES ASSUME TypeOK, EngineInOrder, NEW s \in Streams
             PROVE  InOrder(Frames(s))
  BY DEF EngineEventsInOrder, InOrder
<1> DEFINE g == got[s]
           b == backlog[s]
           q == queue[s]
<1>1. /\ g \in Seq(Frame) /\ b \in Seq(Frame) /\ q \in Seq(Frame)
      /\ InOrder(g) /\ InOrder(b) /\ InOrder(q)
      /\ Before(g, b) /\ Before(g, q) /\ Before(b, q)
  BY DEF TypeOK, EngineInOrder
<1>2. Frames(s) = (g \o b) \o q
  BY DEF Frames
<1> HIDE DEF g, b, q
<1>3. g \o b \in Seq(Frame) /\ InOrder(g \o b)
  BY <1>1, InOrderJoined
<1>4. Before(g \o b, q)
  <2>1. /\ \A x : x \in ToSet(g \o b) <=> x \in ToSet(g) \/ x \in ToSet(b)
    BY <1>1, ConcatIs
  <2>2. \A i \in DOMAIN (g \o b) : (g \o b)[i] \in ToSet(g \o b)
    BY DEF ToSet
  <2>3. /\ \A x \in ToSet(g) : \E i \in DOMAIN g : g[i] = x
        /\ \A x \in ToSet(b) : \E i \in DOMAIN b : b[i] = x
    BY DEF ToSet
  <2>4. PICK h : h = g \o b
    OBVIOUS
  <2>5. \A i \in DOMAIN h :
          (\E k \in DOMAIN g : g[k] = h[i]) \/ (\E k \in DOMAIN b : b[k] = h[i])
    BY <2>1, <2>2, <2>3, <2>4
  <2>6. Before(h, q)
    BY <1>1, <2>5 DEF Before
  <2> QED
    BY <2>4, <2>6
<1>5. InOrder((g \o b) \o q)
  BY <1>1, <1>3, <1>4, InOrderJoined
<1> QED
  BY <1>2, <1>5

\* Every step keeps the inductive invariant.
LEMMA InvStep == BrokerInv /\ [Next]_vars => BrokerInv'
<1> SUFFICES ASSUME BrokerInv, [Next]_vars PROVE BrokerInv'
  OBVIOUS
<1>1. CASE Next
  BY <1>1, TypeStep, TurnStep, HandStep, StagesStep, OrderStep, GapStep DEF BrokerInv
<1>2. CASE UNCHANGED vars
  BY <1>2 DEF vars, eventVars, actorVars, clientVars, feedVars, BrokerInv, TypeOK, PublishInTurn,
     EventInHand, FeedStages, EngineInOrder, NoGap, Ahead, Frames, InOrder, Before, Past,
     NextOfEngine
<1> QED
  BY <1>1, <1>2

\* Whatever the engine, the API's threads and the clients do, the broker's
\* inductive invariant holds.
THEOREM BrokerSafety == Spec => []BrokerInv
<1>1. Init => BrokerInv
  BY TypeInit, TurnInit, HandInit, StagesInit, OrderInit, GapInit DEF BrokerInv
<1> QED
  BY <1>1, InvStep, PTL DEF Spec

\* Backfill and live feed leave no gap: what the buffer holds beyond the point a
\* client resumed from was sent to it, waits for it or is on its way, unless its
\* queue overflowed (StreamsWhole); buffer and queues stay within their sizes.
THEOREM StreamsStayWhole == Spec => []StreamsWhole
<1>1. BrokerInv => StreamsWhole
  BY DEF BrokerInv, StreamsWhole
<1> QED
  BY <1>1, BrokerSafety, PTL

\* A stream shows the engine's events once each and in the order of their
\* publication, across backfill, live feed and drops (EngineEventsInOrder).
THEOREM EngineOrderShown == Spec => []EngineEventsInOrder
<1>1. BrokerInv => EngineEventsInOrder
  BY InvMeansInOrder DEF BrokerInv
<1> QED
  BY <1>1, BrokerSafety, PTL

=============================================================================
