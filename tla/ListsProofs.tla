---------------------------- MODULE ListsProofs ----------------------------
(***************************************************************************)
(* Induction, recursive functions, filtered lists and the nodes below a    *)
(* node of a graph.  The induction                                         *)
(* theorems of the library take the statement to be proved as an operator, *)
(* which the provers cannot supply; here it is the set of the numbers it   *)
(* holds of.                                                               *)
(***************************************************************************)
EXTENDS Lists, FiniteSets, FiniteSetTheorems, WellFoundedInduction, TLAPS

\* Induction over the natural numbers: a set that has 0 and the successors of
\* its elements has them all.
LEMMA Induction ==
  ASSUME NEW S, 0 \in S, \A k \in Nat : k \in S => k + 1 \in S
  PROVE  Nat \subseteq S
<1> DEFINE T == Nat \ S
<1> SUFFICES ASSUME T # {} PROVE FALSE
  OBVIOUS
<1>1. PICK x \in T : \A y \in T : ~ (<<y, x>> \in OpToRel(<, Nat))
  BY NatLessThanWellFounded, WFMin, T \subseteq Nat
<1>2. \A y \in T : ~(y < x)
  BY <1>1 DEF OpToRel
<1>3. x # 0 /\ x - 1 \in Nat /\ x - 1 \notin S /\ x - 1 < x
  OBVIOUS
<1> QED
  BY <1>2, <1>3

\* f is defined by recursion over 0..n, from base with step, a function of V.
StepOn(n, V) == [(1..n) \X V -> V]
Recursive(f, n, V, base, step) ==
  /\ f \in [0..n -> V]
  /\ f = [i \in 0..n |-> IF i = 0 THEN base ELSE step[<<i, f[i - 1]>>]]

\* A function may be defined by recursion over the numbers up to n: from a
\* value for 0 and a step from each value to the next.
LEMMA RecursiveFunction ==
  ASSUME NEW n \in Nat, NEW V, NEW base \in V, NEW step \in StepOn(n, V)
  PROVE  \E f : Recursive(f, n, V, base, step)
<1> USE DEF StepOn
<1> DEFINE Good(f, k) == \A i \in 0..n : i <= k =>
                            f[i] = IF i = 0 THEN base ELSE step[<<i, f[i - 1]>>]
           S == {k \in Nat : \E f \in [0..n -> V] : Good(f, k)}
<1>1. 0 \in S
  <2>1. [i \in 0..n |-> base] \in [0..n -> V] /\ Good([i \in 0..n |-> base], 0)
    OBVIOUS
  <2> QED
    BY <2>1
<1>2. ASSUME NEW k \in Nat, k \in S
      PROVE  k + 1 \in S
  <2>1. PICK f \in [0..n -> V] : Good(f, k)
    BY <1>2
  <2> DEFINE g == [i \in 0..n |-> IF i = k + 1 THEN step[<<i, f[i - 1]>>] ELSE f[i]]
  <2>2. g \in [0..n -> V]
    OBVIOUS
  <2>3. Good(g, k + 1)
    BY <2>1, <2>2
  <2> HIDE DEF g, Good
  <2> QED
    BY <2>2, <2>3
<1>3. n \in S
  <2> HIDE DEF S
  <2> QED
    BY <1>1, <1>2, Induction
<1>4. PICK f \in [0..n -> V] : Good(f, n)
  BY <1>3
<1>5. Recursive(f, n, V, base, step)
  BY <1>4 DEF Recursive
<1> QED
  BY <1>5

-----------------------------------------------------------------------------
(* Filter *)

\* The recursion in Filter has a solution, so Filter's value is what it says.
LEMMA FilterUnfolds ==
  ASSUME NEW A, NEW s \in Seq(A), NEW keep
  PROVE  \E f : /\ f = [i \in 0..Len(s) |->
                         IF i = 0 THEN <<>>
                         ELSE IF s[i] \in keep THEN Append(f[i - 1], s[i]) ELSE f[i - 1]]
                /\ Filter(s, keep) = f[Len(s)]
<1> DEFINE step == [p \in (1..Len(s)) \X Seq(A) |->
                      IF s[p[1]] \in keep THEN Append(p[2], s[p[1]]) ELSE p[2]]
           Solves(f) == f = [i \in 0..Len(s) |->
                         IF i = 0 THEN <<>>
                         ELSE IF s[i] \in keep THEN Append(f[i - 1], s[i]) ELSE f[i - 1]]
<1>1. /\ Len(s) \in Nat /\ <<>> \in Seq(A)
      /\ \A i \in 1..Len(s) : s[i] \in A
  OBVIOUS
<1>2. step \in StepOn(Len(s), Seq(A))
  BY <1>1 DEF StepOn
<1>3. PICK f : Recursive(f, Len(s), Seq(A), <<>>, step)
  <2>1. Len(s) \in Nat /\ <<>> \in Seq(A)
    BY <1>1
  <2> HIDE DEF step
  <2> QED
    BY <1>2, <2>1, RecursiveFunction
<1>4. Solves(f)
  <2>1. \A i \in 0..Len(s) : i # 0 =>
          step[<<i, f[i - 1]>>] = IF s[i] \in keep THEN Append(f[i - 1], s[i]) ELSE f[i - 1]
    <3> SUFFICES ASSUME NEW i \in 0..Len(s), i # 0
                 PROVE  step[<<i, f[i - 1]>>] =
                          IF s[i] \in keep THEN Append(f[i - 1], s[i]) ELSE f[i - 1]
      OBVIOUS
    <3>1. \A m \in 0..Len(s) : f[m] \in Seq(A)
      <4> HIDE DEF step
      <4> QED
        BY <1>3 DEF Recursive
    <3>2. i \in 1..Len(s) /\ f[i - 1] \in Seq(A)
      BY <1>1, <3>1
    <3> QED
      BY <3>2
  <2> QED
    BY <1>1, <1>3, <2>1 DEF Recursive
<1>5. Filter(s, keep) = (CHOOSE g : Solves(g))[Len(s)]
  BY DEF Filter
<1>6. Solves(CHOOSE g : Solves(g))
  <2> HIDE DEF Solves
  <2> QED
    BY <1>4
<1> QED
  BY <1>5, <1>6

\* What is kept of the first n elements of s: list out has them, and only them,
\* in the order of s, and whatever is kept and stood before an element of out
\* still does.
Kept(A, s, keep, n, out) ==
  /\ out \in Seq(A)
  /\ \A i \in 1..n : s[i] \in keep => \E j \in 1..Len(out) : out[j] = s[i]
  /\ \A j \in 1..Len(out) : out[j] \in keep /\ \E i \in 1..n : s[i] = out[j]
  /\ \A j, k \in 1..Len(out) : j < k =>
       \E a, b \in 1..n : a < b /\ s[a] = out[j] /\ s[b] = out[k]
  /\ \A k \in 1..Len(out) : \E b \in 1..n :
       /\ s[b] = out[k]
       /\ \A a \in 1..(b - 1) : s[a] \in keep => \E j \in 1..(k - 1) : out[j] = s[a]

\* The next element is appended or passed over.
LEMMA KeptNext ==
  ASSUME NEW A, NEW s \in Seq(A), NEW keep, NEW n \in Nat, n + 1 <= Len(s),
         NEW out, Kept(A, s, keep, n, out)
  PROVE  Kept(A, s, keep, n + 1,
              IF s[n + 1] \in keep THEN Append(out, s[n + 1]) ELSE out)
<1>1. CASE s[n + 1] \notin keep
  <2>1. 1..n \subseteq 1..(n + 1) /\ \A i \in 1..(n + 1) : s[i] \in keep => i \in 1..n
    BY <1>1
  <2>2. \A k \in 1..Len(out) : \E b \in 1..(n + 1) :
          /\ s[b] = out[k]
          /\ \A a \in 1..(b - 1) : s[a] \in keep => \E j \in 1..(k - 1) : out[j] = s[a]
    BY <2>1 DEF Kept
  <2>3. /\ out \in Seq(A)
        /\ \A i \in 1..(n + 1) : s[i] \in keep => \E j \in 1..Len(out) : out[j] = s[i]
        /\ \A j \in 1..Len(out) : out[j] \in keep /\ \E i \in 1..(n + 1) : s[i] = out[j]
    BY <2>1 DEF Kept
  <2>4. \A j, k \in 1..Len(out) : j < k =>
          \E a, b \in 1..(n + 1) : a < b /\ s[a] = out[j] /\ s[b] = out[k]
    BY <2>1 DEF Kept
  <2> QED
    BY <1>1, <2>2, <2>3, <2>4 DEF Kept
<1>2. CASE s[n + 1] \in keep
  <2> DEFINE longer == Append(out, s[n + 1])
  <2>1. /\ longer \in Seq(A) /\ Len(longer) = Len(out) + 1 /\ Len(out) \in Nat
        /\ longer[Len(out) + 1] = s[n + 1]
        /\ \A j \in 1..Len(out) : longer[j] = out[j]
    BY DEF Kept
  <2> HIDE DEF longer
  <2>2. \A i \in 1..(n + 1) : s[i] \in keep => \E j \in 1..Len(longer) : longer[j] = s[i]
    <3> SUFFICES ASSUME NEW i \in 1..(n + 1), s[i] \in keep
                 PROVE  \E j \in 1..Len(longer) : longer[j] = s[i]
      OBVIOUS
    <3>1. CASE i = n + 1
      BY <2>1, <3>1
    <3>2. CASE i \in 1..n
      <4>1. PICK j \in 1..Len(out) : out[j] = s[i]
        BY <3>2 DEF Kept
      <4> QED
        BY <2>1, <4>1
    <3> QED
      BY <3>1, <3>2
  <2>3. \A j \in 1..Len(longer) :
          longer[j] \in keep /\ \E i \in 1..(n + 1) : s[i] = longer[j]
    <3> SUFFICES ASSUME NEW j \in 1..Len(longer)
                 PROVE  longer[j] \in keep /\ \E i \in 1..(n + 1) : s[i] = longer[j]
      OBVIOUS
    <3>1. CASE j = Len(out) + 1
      BY <1>2, <2>1, <3>1
    <3>2. CASE j \in 1..Len(out)
      <4>1. PICK i \in 1..n : out[j] \in keep /\ s[i] = out[j]
        BY <3>2 DEF Kept
      <4> QED
        BY <2>1, <3>2, <4>1
    <3> QED
      BY <2>1, <3>1, <3>2
  <2>4. \A j, k \in 1..Len(longer) : j < k =>
          \E a, b \in 1..(n + 1) : a < b /\ s[a] = longer[j] /\ s[b] = longer[k]
    <3> SUFFICES ASSUME NEW j \in 1..Len(longer), NEW k \in 1..Len(longer), j < k
                 PROVE  \E a, b \in 1..(n + 1) : a < b /\ s[a] = longer[j] /\ s[b] = longer[k]
      OBVIOUS
    <3>1. CASE k = Len(out) + 1
      <4>1. PICK a \in 1..n : s[a] = out[j]
        BY <2>1, <3>1 DEF Kept
      <4>2. a < n + 1 /\ s[a] = longer[j] /\ s[n + 1] = longer[k]
        BY <2>1, <3>1, <4>1
      <4> QED
        BY <4>2
    <3>2. CASE k \in 1..Len(out)
      <4>0. j \in 1..Len(out)
        BY <2>1, <3>2
      <4>1. PICK a \in 1..n, b \in 1..n : a < b /\ s[a] = out[j] /\ s[b] = out[k]
        BY <3>2, <4>0 DEF Kept
      <4>2. a \in 1..(n + 1) /\ b \in 1..(n + 1) /\ s[a] = longer[j] /\ s[b] = longer[k]
        BY <2>1, <3>2, <4>0, <4>1
      <4> QED
        BY <4>1, <4>2
    <3> QED
      BY <2>1, <3>1, <3>2
  <2>5. \A k \in 1..Len(longer) : \E b \in 1..(n + 1) :
          /\ s[b] = longer[k]
          /\ \A a \in 1..(b - 1) : s[a] \in keep => \E j \in 1..(k - 1) : longer[j] = s[a]
    <3> SUFFICES ASSUME NEW k \in 1..Len(longer)
                 PROVE  \E b \in 1..(n + 1) :
                          /\ s[b] = longer[k]
                          /\ \A a \in 1..(b - 1) :
                               s[a] \in keep => \E j \in 1..(k - 1) : longer[j] = s[a]
      OBVIOUS
    <3>1. CASE k = Len(out) + 1
      <4>1. \A a \in 1..n : s[a] \in keep => \E j \in 1..Len(out) : longer[j] = s[a]
        BY <2>1 DEF Kept
      <4> WITNESS n + 1 \in 1..(n + 1)
      <4>2. s[n + 1] = longer[k]
        BY <2>1, <3>1
      <4> QED
        BY <2>1, <3>1, <4>1, <4>2
    <3>2. CASE k \in 1..Len(out)
      <4>1. PICK b \in 1..n :
              /\ s[b] = out[k]
              /\ \A a \in 1..(b - 1) : s[a] \in keep => \E j \in 1..(k - 1) : out[j] = s[a]
        BY <3>2 DEF Kept
      <4> WITNESS b \in 1..(n + 1)
      <4>2. s[b] = longer[k]
        BY <2>1, <3>2, <4>1
      <4>3. ASSUME NEW a \in 1..(b - 1), s[a] \in keep
            PROVE  \E j \in 1..(k - 1) : longer[j] = s[a]
        <5>1. PICK j \in 1..(k - 1) : out[j] = s[a]
          BY <4>1, <4>3
        <5> QED
          BY <2>1, <3>2, <5>1
      <4> QED
        BY <4>2, <4>3
    <3> QED
      BY <2>1, <3>1, <3>2
  <2>6. Kept(A, s, keep, n + 1, longer)
    BY <2>1, <2>2, <2>3, <2>4, <2>5 DEF Kept
  <2> QED
    BY <1>2, <2>6 DEF longer
<1> QED
  BY <1>1, <1>2

\* Filter returns the elements of s that are kept, all of them, in their order.
LEMMA FilterKeeps ==
  ASSUME NEW A, NEW s \in Seq(A), NEW keep
  PROVE  Kept(A, s, keep, Len(s), Filter(s, keep))
<1>1. PICK f : /\ f = [i \in 0..Len(s) |->
                         IF i = 0 THEN <<>>
                         ELSE IF s[i] \in keep THEN Append(f[i - 1], s[i]) ELSE f[i - 1]]
               /\ Filter(s, keep) = f[Len(s)]
  BY FilterUnfolds
<1> DEFINE S == {n \in Nat : n <= Len(s) => Kept(A, s, keep, n, f[n])}
<1>2. Len(s) \in Nat
  OBVIOUS
<1>3. 0 \in S
  <2>1. f[0] = <<>>
    BY <1>1, <1>2
  <2>2. Kept(A, s, keep, 0, <<>>)
    BY DEF Kept
  <2> QED
    BY <2>1, <2>2
<1>4. ASSUME NEW n \in Nat, n \in S
      PROVE  n + 1 \in S
  <2> SUFFICES ASSUME n + 1 <= Len(s)
               PROVE  Kept(A, s, keep, n + 1, f[n + 1])
    OBVIOUS
  <2>1. Kept(A, s, keep, n, f[n])
    BY <1>2, <1>4
  <2>2. f[n + 1] = IF s[n + 1] \in keep THEN Append(f[n], s[n + 1]) ELSE f[n]
    <3>1. n + 1 \in 0..Len(s) /\ n + 1 # 0 /\ (n + 1) - 1 = n
      BY <1>2
    <3> HIDE DEF S
    <3> QED
      BY ONLY <1>1, <3>1
  <2> QED
    BY <2>1, <2>2, KeptNext
<1>5. Nat \subseteq S
  <2> HIDE DEF S
  <2> QED
    BY <1>3, <1>4, Induction
<1> QED
  BY <1>1, <1>2, <1>5

\* What is kept of the first n elements of s has a place of its own in out, and
\* out is no longer than what it was taken from.
Placed(A, s, keep, n, out, f) ==
  /\ out \in Seq(A) /\ Len(out) <= n
  /\ f \in [{i \in 1..n : s[i] \in keep} -> 1..Len(out)]
  /\ \A i \in DOMAIN f : out[f[i]] = s[i]
  /\ \A i, k \in DOMAIN f : f[i] = f[k] => i = k

\* The next element gets the place behind the others or none.
LEMMA PlacedNext ==
  ASSUME NEW A, NEW s \in Seq(A), NEW keep, NEW n \in Nat, n + 1 <= Len(s),
         NEW out, NEW f, Placed(A, s, keep, n, out, f)
  PROVE  \E g : Placed(A, s, keep, n + 1,
                     IF s[n + 1] \in keep THEN Append(out, s[n + 1]) ELSE out, g)
<1> DEFINE D == {i \in 1..n : s[i] \in keep}
           E == {i \in 1..(n + 1) : s[i] \in keep}
<1>1. CASE s[n + 1] \notin keep
  <2>1. D = E
    BY <1>1
  <2>2. Placed(A, s, keep, n + 1, out, f)
    BY <2>1 DEF Placed
  <2> QED
    BY <1>1, <2>2
<1>2. CASE s[n + 1] \in keep
  <2> DEFINE longer == Append(out, s[n + 1])
             g == [i \in E |-> IF i = n + 1 THEN Len(longer) ELSE f[i]]
  <2>1. /\ longer \in Seq(A) /\ Len(longer) = Len(out) + 1 /\ Len(out) \in Nat
        /\ longer[Len(out) + 1] = s[n + 1]
        /\ \A j \in 1..Len(out) : longer[j] = out[j]
    BY DEF Placed
  <2>2. \A i \in E : i = n + 1 \/ (i # n + 1 /\ i \in D)
    OBVIOUS
  <2>3. /\ DOMAIN f = D /\ \A i \in D : f[i] \in 1..Len(out) /\ longer[f[i]] = s[i]
        /\ \A i, k \in D : f[i] = f[k] => i = k
    BY <2>1 DEF Placed
  <2> HIDE DEF longer, D
  <2>4. g \in [E -> 1..Len(longer)]
    BY <2>1, <2>2, <2>3
  <2>5. \A i \in E : longer[g[i]] = s[i]
    BY <2>1, <2>2, <2>3
  <2>6. \A i, k \in E : g[i] = g[k] => i = k
    BY <2>1, <2>2, <2>3
  <2>7. Len(longer) <= n + 1
    BY <2>1 DEF Placed
  <2> HIDE DEF g
  <2>8. Placed(A, s, keep, n + 1, longer, g)
    BY <2>1, <2>4, <2>5, <2>6, <2>7 DEF Placed
  <2> QED
    BY <1>2, <2>8 DEF longer
<1> QED
  BY <1>1, <1>2

\* Filter loses no element that is kept, however often it occurs, and adds none.
LEMMA FilterPlaces ==
  ASSUME NEW A, NEW s \in Seq(A), NEW keep
  PROVE  \E f : Placed(A, s, keep, Len(s), Filter(s, keep), f)
<1>1. PICK h : /\ h = [i \in 0..Len(s) |->
                         IF i = 0 THEN <<>>
                         ELSE IF s[i] \in keep THEN Append(h[i - 1], s[i]) ELSE h[i - 1]]
               /\ Filter(s, keep) = h[Len(s)]
  BY FilterUnfolds
<1> DEFINE S == {n \in Nat : n <= Len(s) => \E f : Placed(A, s, keep, n, h[n], f)}
<1>2. Len(s) \in Nat
  OBVIOUS
<1>3. 0 \in S
  <2>1. h[0] = <<>>
    BY <1>1, <1>2
  <2>2. Placed(A, s, keep, 0, <<>>, [i \in {} |-> 1])
    BY DEF Placed
  <2> QED
    BY <2>1, <2>2
<1>4. ASSUME NEW n \in Nat, n \in S
      PROVE  n + 1 \in S
  <2> SUFFICES ASSUME n + 1 <= Len(s)
               PROVE  \E f : Placed(A, s, keep, n + 1, h[n + 1], f)
    OBVIOUS
  <2>1. PICK f : Placed(A, s, keep, n, h[n], f)
    BY <1>2, <1>4
  <2>2. h[n + 1] = IF s[n + 1] \in keep THEN Append(h[n], s[n + 1]) ELSE h[n]
    <3>1. n + 1 \in 0..Len(s) /\ n + 1 # 0 /\ (n + 1) - 1 = n
      BY <1>2
    <3> HIDE DEF S
    <3> QED
      BY ONLY <1>1, <3>1
  <2> QED
    BY <2>1, <2>2, PlacedNext
<1>5. Nat \subseteq S
  <2> HIDE DEF S
  <2> QED
    BY <1>3, <1>4, Induction
<1> QED
  BY <1>1, <1>2, <1>5

-----------------------------------------------------------------------------
(* The nodes below a node *)

\* What the edges E lead to from S, and from s in up to n + 1 steps:
\* descendants() of both schedulers.
Heads(E, S) == {e[2] : e \in {f \in E : f[1] \in S}}
Below(E, n, s) ==
  LET below[k \in 0..n] ==
        IF k = 0 THEN Heads(E, {s}) ELSE below[k - 1] \cup Heads(E, below[k - 1])
  IN  below[n]

\* f tells what is reached in k steps, for each k.
Reaches(N, E, n, s, f) ==
  /\ f \in [0..n -> SUBSET N]
  /\ f[0] = Heads(E, {s})
  /\ \A k \in 1..n : f[k] = f[k - 1] \cup Heads(E, f[k - 1])
  /\ Below(E, n, s) = f[n]

\* The recursion in Below has a solution.
LEMMA BelowUnfolds ==
  ASSUME NEW N, NEW E, \A e \in E : e[2] \in N, NEW n \in Nat, NEW s
  PROVE  \E f : Reaches(N, E, n, s, f)
<1> DEFINE step == [p \in (1..n) \X SUBSET N |-> p[2] \cup Heads(E, p[2])]
           Solves(f) == f = [k \in 0..n |->
                         IF k = 0 THEN Heads(E, {s}) ELSE f[k - 1] \cup Heads(E, f[k - 1])]
<1>1. \A S : Heads(E, S) \in SUBSET N
  BY DEF Heads
<1>2. step \in StepOn(n, SUBSET N)
  BY <1>1 DEF StepOn
<1>3. PICK f : Recursive(f, n, SUBSET N, Heads(E, {s}), step)
  <2> HIDE DEF step
  <2> QED
    BY <1>1, <1>2, RecursiveFunction
<1>4. f \in [0..n -> SUBSET N]
  BY <1>3 DEF Recursive
<1>5. \A k \in 0..n : k # 0 => step[<<k, f[k - 1]>>] = f[k - 1] \cup Heads(E, f[k - 1])
  <2> SUFFICES ASSUME NEW k \in 0..n, k # 0
               PROVE  step[<<k, f[k - 1]>>] = f[k - 1] \cup Heads(E, f[k - 1])
    OBVIOUS
  <2>1. k \in 1..n /\ k - 1 \in 0..n
    OBVIOUS
  <2>2. f[k - 1] \in SUBSET N
    BY <1>4, <2>1
  <2> QED
    BY <2>1, <2>2
<1>6. Solves(f)
  <2> HIDE DEF step
  <2> QED
    BY <1>3, <1>5 DEF Recursive
<1>7. Below(E, n, s) = (CHOOSE g : Solves(g))[n]
  BY DEF Below
<1>8. PICK g : Solves(g) /\ g = CHOOSE h : Solves(h)
  <2> HIDE DEF Solves
  <2> QED
    BY <1>6
<1>9. g[0] = Heads(E, {s}) /\ \A k \in 1..n : g[k] = g[k - 1] \cup Heads(E, g[k - 1])
  <2>1. 0 \in 0..n
    OBVIOUS
  <2>2. g[0] = Heads(E, {s})
    BY <1>8, <2>1
  <2>3. ASSUME NEW k \in 1..n PROVE g[k] = g[k - 1] \cup Heads(E, g[k - 1])
    <3>1. k \in 0..n /\ k # 0
      OBVIOUS
    <3> QED
      BY <1>8, <3>1
  <2> QED
    BY <2>2, <2>3
<1>10. g \in [0..n -> SUBSET N]
  <2> DEFINE T == {k \in Nat : k <= n => g[k] \in SUBSET N}
  <2>1. 0 \in T
    BY <1>1, <1>9
  <2>2. ASSUME NEW k \in Nat, k \in T PROVE k + 1 \in T
    <3>1. CASE k + 1 <= n
      <4>1. k + 1 \in 1..n /\ (k + 1) - 1 = k /\ g[k] \in SUBSET N
        BY <2>2, <3>1
      <4>2. g[k + 1] = g[k] \cup Heads(E, g[k])
        BY <1>9, <4>1
      <4> QED
        BY <1>1, <4>1, <4>2
    <3>2. CASE ~(k + 1 <= n)
      BY <3>2
    <3> QED
      BY <3>1, <3>2
  <2>3. Nat \subseteq T
    <3> HIDE DEF T
    <3> QED
      BY <2>1, <2>2, Induction
  <2>4. \A k \in 0..n : g[k] \in SUBSET N
    BY <2>3
  <2> QED
    BY <1>8, <2>4
<1> HIDE DEF Solves
<1>11. Reaches(N, E, n, s, g)
  BY <1>7, <1>8, <1>9, <1>10 DEF Reaches
<1> QED
  BY <1>11

\* As many steps as there are nodes reach all that can be reached: what is
\* below s is closed, and is no more than what every closed set has.
Closure(N, E, s, below) ==
  /\ below \subseteq N
  /\ Heads(E, {s}) \subseteq below
  /\ Heads(E, below) \subseteq below
  /\ \A R : Heads(E, {s}) \subseteq R /\ Heads(E, R) \subseteq R => below \subseteq R

LEMMA BelowIsClosed ==
  ASSUME NEW N, IsFiniteSet(N), NEW E, \A e \in E : e[2] \in N, NEW s
  PROVE  Closure(N, E, s, Below(E, Cardinality(N), s))
<1>1. PICK n \in Nat : n = Cardinality(N)
  BY FS_CardinalityType
<1>0. PICK f : Reaches(N, E, n, s, f)
  BY <1>1, BelowUnfolds
<1>2. /\ f \in [0..n -> SUBSET N]
      /\ f[0] = Heads(E, {s})
      /\ \A k \in 1..n : f[k] = f[k - 1] \cup Heads(E, f[k - 1])
      /\ Below(E, n, s) = f[n]
  BY <1>0 DEF Reaches
<1>3. \A k \in Nat : k + 1 <= n =>
        k \in 0..n /\ k + 1 \in 0..n /\ f[k + 1] = f[k] \cup Heads(E, f[k])
  <2> SUFFICES ASSUME NEW k \in Nat, k + 1 <= n
               PROVE  k \in 0..n /\ k + 1 \in 0..n /\ f[k + 1] = f[k] \cup Heads(E, f[k])
    OBVIOUS
  <2>1. k + 1 \in 1..n /\ (k + 1) - 1 = k
    OBVIOUS
  <2> QED
    BY <1>2, <2>1
<1>4. \A k \in 0..n : f[k] \subseteq N /\ IsFiniteSet(f[k]) /\ Cardinality(f[k]) \in Nat
                      /\ Cardinality(f[k]) <= n
  <2> SUFFICES ASSUME NEW k \in 0..n
               PROVE  f[k] \subseteq N /\ IsFiniteSet(f[k]) /\ Cardinality(f[k]) \in Nat
                      /\ Cardinality(f[k]) <= n
    OBVIOUS
  <2>1. f[k] \subseteq N
    BY <1>2
  <2> QED
    BY <1>1, <2>1, FS_Subset, FS_CardinalityType
<1>5. Heads(E, f[n]) \subseteq f[n]
  <2> DEFINE Closed(k) == Heads(E, f[k]) \subseteq f[k]
             T == {k \in Nat : k <= n => Closed(k) \/ Cardinality(f[k]) >= k + 1}
  <2>1. 0 \in T
    <3>1. 0 \in 0..n
      OBVIOUS
    <3>2. CASE f[0] = {}
      BY <3>2 DEF Heads
    <3>3. CASE f[0] # {}
      <4>1. Cardinality(f[0]) # 0
        BY <1>4, <3>1, <3>3, FS_EmptySet
      <4> QED
        BY <1>4, <3>1, <4>1
    <3> QED
      BY <3>2, <3>3
  <2>2. ASSUME NEW k \in Nat, k \in T PROVE k + 1 \in T
    <3>1. CASE ~(k + 1 <= n)
      BY <3>1
    <3>2. CASE k + 1 <= n
      <4>1. k \in 0..n /\ k + 1 \in 0..n /\ f[k + 1] = f[k] \cup Heads(E, f[k])
        BY <1>3, <3>2
      <4>2. CASE Closed(k)
        <5>1. f[k + 1] = f[k]
          BY <4>1, <4>2
        <5>2. Closed(k + 1)
          BY <4>2, <5>1
        <5> QED
          BY <5>2
      <4>3. CASE ~Closed(k)
        <5>1. PICK x : x \in Heads(E, f[k]) /\ x \notin f[k]
          BY <4>3
        <5>2. f[k] \cup {x} \subseteq f[k + 1]
          BY <4>1, <5>1
        <5>3. /\ Cardinality(f[k] \cup {x}) = Cardinality(f[k]) + 1
              /\ Cardinality(f[k] \cup {x}) <= Cardinality(f[k + 1])
          BY <1>4, <4>1, <5>1, <5>2, FS_AddElement, FS_Subset
        <5>4. Cardinality(f[k]) >= k + 1
          BY <2>2, <3>2, <4>3
        <5>5. Cardinality(f[k]) \in Nat /\ Cardinality(f[k + 1]) \in Nat
          BY <1>4, <4>1
        <5>6. Cardinality(f[k + 1]) >= (k + 1) + 1
          BY <5>3, <5>4, <5>5
        <5> QED
          BY <5>6
      <4> QED
        BY <4>2, <4>3
    <3> QED
      BY <3>1, <3>2
  <2>3. n \in T
    <3> HIDE DEF T
    <3> QED
      BY <2>1, <2>2, Induction
  <2>4. n \in 0..n
    OBVIOUS
  <2>5. Cardinality(f[n]) \in Nat /\ Cardinality(f[n]) <= n
    BY <1>4, <2>4
  <2>6. ~(Cardinality(f[n]) >= n + 1)
    BY <2>5
  <2> QED
    BY <2>3, <2>6
<1>6. Heads(E, {s}) \subseteq f[n]
  <2> DEFINE T == {k \in Nat : k <= n => Heads(E, {s}) \subseteq f[k]}
  <2>1. 0 \in T
    BY <1>2
  <2>2. ASSUME NEW k \in Nat, k \in T PROVE k + 1 \in T
    BY <1>3, <2>2
  <2>3. n \in T
    <3> HIDE DEF T
    <3> QED
      BY <2>1, <2>2, Induction
  <2> QED
    BY <2>3
<1>7. ASSUME NEW R, Heads(E, {s}) \subseteq R, Heads(E, R) \subseteq R
      PROVE  f[n] \subseteq R
  <2> DEFINE T == {k \in Nat : k <= n => f[k] \subseteq R}
  <2>1. 0 \in T
    BY <1>2, <1>7
  <2>2. ASSUME NEW k \in Nat, k \in T PROVE k + 1 \in T
    <3>1. CASE ~(k + 1 <= n)
      BY <3>1
    <3>2. CASE k + 1 <= n
      <4>1. f[k] \subseteq R /\ f[k + 1] = f[k] \cup Heads(E, f[k])
        BY <1>3, <2>2, <3>2
      <4>2. Heads(E, f[k]) \subseteq Heads(E, R)
        BY <4>1 DEF Heads
      <4> QED
        BY <1>7, <4>1, <4>2
    <3> QED
      BY <3>1, <3>2
  <2>3. n \in T
    <3> HIDE DEF T
    <3> QED
      BY <2>1, <2>2, Induction
  <2> QED
    BY <2>3
<1>8. f[n] \subseteq N
  BY <1>2
<1>9. PICK below : below = Below(E, Cardinality(N), s)
  OBVIOUS
<1>10. below = f[n]
  BY <1>1, <1>2, <1>9
<1>11. Closure(N, E, s, below)
  BY <1>5, <1>6, <1>7, <1>8, <1>10 DEF Closure
<1> QED
  BY <1>9, <1>11

=============================================================================
