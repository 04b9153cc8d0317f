------------------------- MODULE SchedulerQueueProofs -------------------------
(***************************************************************************)
(* Proofs about the scheduler's queues, for any requests, limits and       *)
(* number of steps:                                                        *)
(*   QueuesAgree         QueueInv: each request is where its status says,  *)
(*                       once, and so are the requests of the step in the  *)
(*                       making, of the steps in flight and of the output  *)
(*                       under way;                                        *)
(*   RequestsAreKept     no request is lost (NoRequestIsLost);             *)
(*   StreamsAreCounted   the paused sessions are counted                   *)
(*                       (StreamCountExact);                               *)
(*   SlotsAreHeld        whoever has a slot of the batch holds it          *)
(*                       (SlotsHeld);                                      *)
(*   PreemptedGoFirst    who was preempted waits ahead of newcomers        *)
(*                       (PreemptedFirst).                                 *)
(*                                                                         *)
(* First, what the operations on the queues do, for queues of any length:  *)
(* the members of a queue after append, pop, prepend and remove_requests   *)
(* (Without), whether it still names each request once, and its order.     *)
(* Without is a recursive function; that it is defined and what it         *)
(* computes are shown with the least counterexample (LeastNatural).        *)
(***************************************************************************)
EXTENDS Scheduler, FiniteSetTheorems, FunctionTheorems, SequenceTheorems, TLAPS

\* No request is in the queue twice.
Distinct(q) == \A i, j \in 1 .. Len(q) : q[i] = q[j] => i = j

\* A set of naturals that is not empty has a least element: the sets 0 .. m are
\* finite, and finite sets are well founded under strict inclusion.
LEMMA LeastNatural ==
  ASSUME NEW T \in SUBSET Nat, T # {}
  PROVE  \E m \in T : \A k \in T : m <= k
<1> DEFINE F == {0 .. m : m \in T}
<1>1. IsWellFoundedOn(StrictSubsetOrdering(Nat), FiniteSubsetsOf(Nat))
  BY FS_StrictSubsetOrderingWellFounded, Zenon
<1>2. F \subseteq FiniteSubsetsOf(Nat) /\ F # {}
  <2>1. \A m \in T : IsFiniteSet(0 .. m) /\ 0 .. m \subseteq Nat
    BY FS_Interval
  <2>2. QED
    BY <2>1 DEF FiniteSubsetsOf
<1> HIDE DEF F
<1>3. \E x \in F : \A y \in F : ~ (<<y, x>> \in StrictSubsetOrdering(Nat))
  BY <1>1, <1>2, WFMin, Zenon
<1>4. PICK m \in T : \A y \in F : ~ (<<y, 0 .. m>> \in StrictSubsetOrdering(Nat))
  BY <1>3 DEF F
<1>5. ASSUME NEW k \in T, k < m
      PROVE  FALSE
  <2>1. 0 .. k \in F
    BY DEF F
  <2>2. 0 .. k \subseteq 0 .. m /\ 0 .. k # 0 .. m
    BY <1>5
  <2>3. 0 .. k \in SUBSET Nat /\ 0 .. m \in SUBSET Nat
    OBVIOUS
  <2>4. <<0 .. k, 0 .. m>> \in StrictSubsetOrdering(Nat)
    BY <2>2, <2>3 DEF StrictSubsetOrdering
  <2>5. QED
    BY <1>4, <2>1, <2>4
<1>6. QED
  BY <1>5

-----------------------------------------------------------------------------
(* Append, popleft, pop, extendleft.                                       *)

\* The members of a queue.
LEMMA RangeQueue ==
  ASSUME NEW T, NEW q \in Seq(T)
  PROVE  /\ \A x : x \in ToSet(q) <=> \E i \in 1 .. Len(q) : q[i] = x
         /\ ToSet(q) \subseteq T
  BY DEF ToSet

LEMMA AppendQueue ==
  ASSUME NEW T, NEW q \in Seq(T), NEW x \in T
  PROVE  /\ Append(q, x) \in Seq(T) /\ Len(Append(q, x)) = Len(q) + 1
         /\ ToSet(Append(q, x)) = ToSet(q) \cup {x}
         /\ \A i \in 1 .. Len(q) : Append(q, x)[i] = q[i]
         /\ Append(q, x)[Len(q) + 1] = x
         /\ Distinct(q) /\ x \notin ToSet(q) => Distinct(Append(q, x))
<1>1. /\ Append(q, x) \in Seq(T) /\ Len(Append(q, x)) = Len(q) + 1
      /\ Len(q) \in Nat /\ DOMAIN q = 1 .. Len(q)
      /\ DOMAIN Append(q, x) = 1 .. (Len(q) + 1)
      /\ \A i \in 1 .. Len(q) : Append(q, x)[i] = q[i]
      /\ Append(q, x)[Len(q) + 1] = x
  OBVIOUS
<1> DEFINE a == Append(q, x)
<1> HIDE DEF a
<1>2. ToSet(a) = ToSet(q) \cup {x}
  <2>1. \A i \in 1 .. (Len(q) + 1) : i \in 1 .. Len(q) \/ i = Len(q) + 1
    BY <1>1
  <2>2. 1 .. Len(q) \subseteq 1 .. (Len(q) + 1) /\ Len(q) + 1 \in 1 .. (Len(q) + 1)
    BY <1>1
  <2>3. QED
    BY <1>1, <2>1, <2>2 DEF ToSet, a
<1>3. ASSUME Distinct(q), x \notin ToSet(q), NEW i \in 1 .. Len(a), NEW j \in 1 .. Len(a),
             a[i] = a[j]
      PROVE  i = j
  <2>1. \A k \in 1 .. Len(q) : q[k] # x
    BY <1>1, <1>3 DEF ToSet
  <2>2. /\ i \in 1 .. Len(q) \/ i = Len(q) + 1
        /\ j \in 1 .. Len(q) \/ j = Len(q) + 1
    BY <1>1, <1>3 DEF a
  <2>3. QED
    BY <1>1, <1>3, <2>1, <2>2 DEF Distinct, a
<1>4. QED
  BY <1>1, <1>2, <1>3 DEF Distinct, a

LEMMA TailQueue ==
  ASSUME NEW T, NEW q \in Seq(T), q # <<>>
  PROVE  /\ Tail(q) \in Seq(T) /\ Len(Tail(q)) = Len(q) - 1 /\ Len(q) \in Nat \ {0}
         /\ Head(q) = q[1] /\ Head(q) \in T
         /\ \A i \in 1 .. Len(Tail(q)) : Tail(q)[i] = q[i + 1]
         /\ ToSet(q) = {Head(q)} \cup ToSet(Tail(q))
         /\ Distinct(q) => Distinct(Tail(q)) /\ Head(q) \notin ToSet(Tail(q))
<1> DEFINE t == Tail(q)
<1>1. /\ t \in Seq(T) /\ Len(t) = Len(q) - 1 /\ Len(q) \in Nat \ {0}
      /\ Head(q) = q[1] /\ q[1] \in T /\ DOMAIN q = 1 .. Len(q) /\ DOMAIN t = 1 .. (Len(q) - 1)
      /\ \A i \in 1 .. Len(t) : t[i] = q[i + 1]
  OBVIOUS
<1> HIDE DEF t
<1>2. \A i \in 1 .. Len(t) : i + 1 \in 1 .. Len(q) /\ i + 1 # 1
  BY <1>1
<1>3. ToSet(q) = {q[1]} \cup ToSet(t)
  <2>1. \A i \in 1 .. Len(q) : i = 1 \/ (i - 1 \in 1 .. Len(t) /\ q[i] = t[i - 1])
    BY <1>1
  <2>2. \A x : x \in ToSet(q) <=> x = q[1] \/ x \in ToSet(t)
    BY <1>1, <1>2, <2>1, RangeQueue
  <2>3. QED
    BY <2>2
<1>4. Distinct(q) => Distinct(t) /\ q[1] \notin ToSet(t)
  <2> SUFFICES ASSUME Distinct(q)
               PROVE  Distinct(t) /\ q[1] \notin ToSet(t)
    OBVIOUS
  <2>1. ASSUME NEW i \in 1 .. Len(t), NEW j \in 1 .. Len(t), t[i] = t[j]
        PROVE  i = j
    <3>1. i + 1 = j + 1
      BY <1>1, <1>2, <2>1 DEF Distinct
    <3>2. QED
      BY <3>1
  <2>2. \A i \in 1 .. Len(t) : t[i] # q[1]
    BY <1>1, <1>2 DEF Distinct
  <2>3. QED
    BY <1>1, <2>1, <2>2 DEF Distinct, ToSet
<1>5. QED
  BY <1>1, <1>3, <1>4 DEF t

LEMMA FrontQueue ==
  ASSUME NEW T, NEW q \in Seq(T), q # <<>>
  PROVE  /\ Front(q) \in Seq(T) /\ Len(Front(q)) = Len(q) - 1 /\ Len(q) \in Nat \ {0}
         /\ Last(q) = q[Len(q)] /\ Last(q) \in T
         /\ \A i \in 1 .. Len(Front(q)) : Front(q)[i] = q[i]
         /\ ToSet(q) = {Last(q)} \cup ToSet(Front(q))
         /\ Distinct(q) => Distinct(Front(q)) /\ Last(q) \notin ToSet(Front(q))
<1> DEFINE f == Front(q)
<1>1. /\ f \in Seq(T) /\ Len(f) = Len(q) - 1 /\ Len(q) \in Nat \ {0}
      /\ Last(q) = q[Len(q)] /\ q[Len(q)] \in T
      /\ \A i \in 1 .. Len(f) : f[i] = q[i]
  <2>1. Len(q) \in Nat \ {0} /\ DOMAIN q = 1 .. Len(q) /\ \A i \in 1 .. (Len(q) - 1) : q[i] \in T
    OBVIOUS
  <2>2. /\ f \in Seq(T)
        /\ Len(f) = IF 1 <= Len(q) - 1 THEN Len(q) - 1 - 1 + 1 ELSE 0
        /\ \A i \in 1 .. (Len(q) - 1 - 1 + 1) : f[i] = q[1 + i - 1]
    BY <2>1, SubSeqProperties DEF Front
  <2> HIDE DEF f
  <2>3. Len(f) = Len(q) - 1
    <3>1. Len(q) \in Nat \ {0} /\ Len(f) = IF 1 <= Len(q) - 1 THEN Len(q) - 1 - 1 + 1 ELSE 0
      BY <2>1, <2>2
    <3>2. CASE Len(q) = 1
      BY <3>1, <3>2
    <3>3. CASE Len(q) # 1
      BY <3>1, <3>3
    <3>4. QED
      BY <3>2, <3>3
  <2>4. ASSUME NEW i \in 1 .. Len(f)
        PROVE  f[i] = q[i]
    <3>1. i \in 1 .. (Len(q) - 1 - 1 + 1) /\ 1 + i - 1 = i
      BY <2>1, <2>3
    <3>2. QED
      BY <2>2, <3>1
  <2>5. q[Len(q)] \in T /\ Last(q) = q[Len(q)]
    BY <2>1 DEF Last
  <2>6. QED
    BY <2>1, <2>2, <2>3, <2>4, <2>5
<1> HIDE DEF f
<1>2. ToSet(q) = {q[Len(q)]} \cup ToSet(f)
  <2>1. \A i \in 1 .. Len(q) : i = Len(q) \/ i \in 1 .. Len(f)
    BY <1>1
  <2>2. \A i \in 1 .. Len(f) : i \in 1 .. Len(q)
    BY <1>1
  <2>3. Len(q) \in 1 .. Len(q)
    BY <1>1
  <2>4. \A x : /\ x \in ToSet(q) <=> \E i \in 1 .. Len(q) : q[i] = x
               /\ x \in ToSet(f) <=> \E i \in 1 .. Len(f) : f[i] = x
    BY <1>1, RangeQueue
  <2>5. \A x : x \in ToSet(q) <=> x = q[Len(q)] \/ x \in ToSet(f)
    BY <1>1, <2>1, <2>2, <2>3, <2>4
  <2>6. QED
    BY <2>5
<1>3. Distinct(q) => Distinct(f) /\ q[Len(q)] \notin ToSet(f)
  <2>1. \A i \in 1 .. Len(f) : i \in 1 .. Len(q) /\ i # Len(q)
    BY <1>1
  <2>2. Len(q) \in 1 .. Len(q)
    BY <1>1
  <2>3. QED
    BY <1>1, <2>1, <2>2, RangeQueue DEF Distinct
<1>4. QED
  BY <1>1, <1>2, <1>3 DEF f

LEMMA JoinQueues ==
  ASSUME NEW T, NEW p \in Seq(T), NEW q \in Seq(T)
  PROVE  /\ p \o q \in Seq(T) /\ Len(p \o q) = Len(p) + Len(q)
         /\ \A i \in 1 .. Len(p) : (p \o q)[i] = p[i]
         /\ \A i \in 1 .. Len(q) : (p \o q)[Len(p) + i] = q[i]
         /\ ToSet(p \o q) = ToSet(p) \cup ToSet(q)
         /\ Distinct(p) /\ Distinct(q) /\ ToSet(p) \cap ToSet(q) = {} => Distinct(p \o q)
<1> DEFINE j == p \o q
<1>1. /\ j \in Seq(T) /\ Len(j) = Len(p) + Len(q) /\ Len(p) \in Nat /\ Len(q) \in Nat
      /\ DOMAIN p = 1 .. Len(p) /\ DOMAIN q = 1 .. Len(q) /\ DOMAIN j = 1 .. (Len(p) + Len(q))
      /\ \A i \in 1 .. Len(p) : j[i] = p[i]
  OBVIOUS
<1>2. \A i \in 1 .. Len(p) + Len(q) : j[i] = IF i <= Len(p) THEN p[i] ELSE q[i - Len(p)]
  BY ConcatProperties
<1> HIDE DEF j
<1>3. /\ \A i \in 1 .. Len(j) : \/ i \in 1 .. Len(p)
                                \/ i - Len(p) \in 1 .. Len(q) /\ j[i] = q[i - Len(p)]
      /\ \A i \in 1 .. Len(q) : Len(p) + i \in 1 .. Len(j) /\ j[Len(p) + i] = q[i]
  <2>1. ASSUME NEW i \in 1 .. Len(q)
        PROVE  Len(p) + i \in 1 .. Len(j) /\ j[Len(p) + i] = q[i]
    <3>1. /\ Len(p) + i \in 1 .. Len(p) + Len(q) /\ ~ (Len(p) + i <= Len(p))
          /\ (Len(p) + i) - Len(p) = i
      BY <1>1
    <3>2. QED
      BY <1>1, <1>2, <3>1
  <2>2. QED
    BY <1>1, <1>2, <2>1
<1>4. ToSet(j) = ToSet(p) \cup ToSet(q)
  <2>1. \A i \in 1 .. Len(p) : i \in 1 .. Len(j)
    BY <1>1
  <2>2. \A x : /\ x \in ToSet(j) <=> \E i \in 1 .. Len(j) : j[i] = x
               /\ x \in ToSet(p) <=> \E i \in 1 .. Len(p) : p[i] = x
               /\ x \in ToSet(q) <=> \E i \in 1 .. Len(q) : q[i] = x
    BY <1>1, RangeQueue
  <2>3. \A x : x \in ToSet(j) <=> x \in ToSet(p) \/ x \in ToSet(q)
    BY <1>1, <1>3, <2>1, <2>2
  <2>4. QED
    BY <2>3
<1>5. ASSUME Distinct(p), Distinct(q), ToSet(p) \cap ToSet(q) = {},
             NEW i \in 1 .. Len(j), NEW k \in 1 .. Len(j), j[i] = j[k]
      PROVE  i = k
  <2>1. \A m \in 1 .. Len(p), n \in 1 .. Len(q) : p[m] # q[n]
    BY <1>1, <1>5 DEF ToSet
  <2>2. CASE i \in 1 .. Len(p) /\ k \in 1 .. Len(p)
    BY <1>1, <1>5, <2>2 DEF Distinct
  <2>3. CASE ~ (i \in 1 .. Len(p)) /\ ~ (k \in 1 .. Len(p))
    <3>1. /\ i - Len(p) \in 1 .. Len(q) /\ j[i] = q[i - Len(p)]
          /\ k - Len(p) \in 1 .. Len(q) /\ j[k] = q[k - Len(p)]
      BY <1>3, <1>5, <2>3
    <3>2. i - Len(p) = k - Len(p)
      BY <1>5, <3>1 DEF Distinct
    <3>3. QED
      BY <1>1, <3>2
  <2>4. QED
    BY <1>1, <1>3, <1>5, <2>1, <2>2, <2>3
<1>6. QED
  BY <1>1, <1>2, <1>4, <1>5 DEF Distinct, j

-----------------------------------------------------------------------------
(* remove_all, remove_requests.                                            *)

\* kept[i] is what is left of the first i requests.
KeptPrefixes(q, S, kept) ==
  /\ kept[0] = <<>>
  /\ \A i \in 1 .. Len(q) :
       kept[i] = IF q[i] \in S THEN kept[i - 1] ELSE Append(kept[i - 1], q[i])

\* The recursive definition of Without has a solution.
LEMMA WithoutIsDefined ==
  ASSUME NEW T, NEW q \in Seq(T), NEW S
  PROVE  \E kept : KeptPrefixes(q, S, kept) /\ Without(q, S) = kept[Len(q)]
<1> DEFINE N == Len(q)
           After(f, i) == IF i = 0 THEN <<>>
                          ELSE IF q[i] \in S THEN f[i - 1] ELSE Append(f[i - 1], q[i])
           Solves(f, n) == /\ f = [i \in 0 .. n |-> f[i]]
                           /\ \A i \in 0 .. n : f[i] = After(f, i)
           Missing == {n \in 0 .. N : ~ \E f : Solves(f, n)}
<1>1. N \in Nat
  OBVIOUS
<1>2. Missing = {}
  <2> SUFFICES ASSUME Missing # {}
               PROVE  FALSE
    OBVIOUS
  <2>1. Missing \in SUBSET Nat
    BY <1>1
  <2>2. PICK m \in Missing : \A k \in Missing : m <= k
    BY <2>1, LeastNatural
  <2>3. m \in 0 .. N /\ ~ \E f : Solves(f, m)
    BY <2>2
  <2>4. CASE m = 0
    <3> DEFINE f == [i \in 0 .. 0 |-> <<>>]
    <3>1. Solves(f, 0)
      OBVIOUS
    <3>2. QED
      BY <2>3, <2>4, <3>1
  <2>5. CASE m # 0
    <3>1. m - 1 \in 0 .. N /\ ~ (m <= m - 1) /\ m \in Nat
      BY <1>1, <2>3, <2>5
    <3>2. PICK f : Solves(f, m - 1)
      BY <2>2, <3>1
    <3> DEFINE g == [i \in 0 .. m |-> IF i = m THEN After(f, m) ELSE f[i]]
    <3>3. ASSUME NEW i \in 0 .. m
          PROVE  g[i] = After(g, i)
      <4>1. CASE i = 0
        BY <2>5, <3>1, <3>2, <4>1
      <4>2. CASE i # 0
        <5>1. i - 1 \in 0 .. m /\ i - 1 # m /\ g[i - 1] = f[i - 1]
          BY <3>1, <4>2
        <5>2. CASE i = m
          BY <5>1, <5>2, <4>2
        <5>3. CASE i # m
          <6>1. i \in 0 .. (m - 1) /\ g[i] = f[i]
            BY <3>1, <5>3
          <6>2. QED
            BY <3>2, <4>2, <5>1, <6>1
        <5>4. QED
          BY <5>2, <5>3
      <4>3. QED
        BY <4>1, <4>2
    <3>4. g = [i \in 0 .. m |-> g[i]]
      OBVIOUS
    <3> HIDE DEF g
    <3>5. Solves(g, m)
      BY <3>3, <3>4
    <3>6. QED
      BY <2>3, <3>5
  <2>6. QED
    BY <2>4, <2>5
<1>3. PICK f : Solves(f, N)
  <2>1. N \in 0 .. N
    BY <1>1
  <2>2. QED
    BY <1>2, <2>1
<1> DEFINE Body(k) == [i \in 0 .. Len(q) |->
                         IF i = 0 THEN <<>>
                         ELSE IF q[i] \in S THEN k[i - 1] ELSE Append(k[i - 1], q[i])]
           kept == CHOOSE k : k = Body(k)
<1>4. f = Body(f)
  BY <1>3
<1>5. kept = Body(kept)
  <2> HIDE DEF Body
  <2>1. QED
    BY <1>4
<1>6. Without(q, S) = kept[Len(q)]
  BY Zenon DEF Without
<1> HIDE DEF kept
<1>7. KeptPrefixes(q, S, kept)
  <2>1. /\ 0 \in 0 .. Len(q) /\ \A i \in 1 .. Len(q) : i \in 0 .. Len(q) /\ i # 0
    BY <1>1
  <2>2. \A i \in 0 .. Len(q) : kept[i] = Body(kept)[i]
    BY <1>5, Zenon
  <2>3. kept[0] = <<>>
    BY <2>1, <2>2
  <2>4. \A i \in 1 .. Len(q) :
          kept[i] = IF q[i] \in S THEN kept[i - 1] ELSE Append(kept[i - 1], q[i])
    BY <2>1, <2>2
  <2>5. QED
    BY <2>3, <2>4 DEF KeptPrefixes
<1>8. QED
  BY <1>6, <1>7

\* What is left of the first n requests: those not in S, each at the place where
\* it stood before the others (g gives the place).
Left(q, S, n, w) ==
  /\ w \in Seq(ToSet(q)) /\ Len(w) <= n
  /\ \A i \in 1 .. n : q[i] \notin S => \E j \in 1 .. Len(w) : w[j] = q[i]
  /\ \E g : /\ \A j \in 1 .. Len(w) : g[j] \in 1 .. n /\ w[j] = q[g[j]] /\ q[g[j]] \notin S
            /\ \A i, j \in 1 .. Len(w) : i < j => g[i] < g[j]

LEMMA LeftNext ==
  ASSUME NEW T, NEW q \in Seq(T), NEW S, NEW n \in 1 .. Len(q), NEW w, Left(q, S, n - 1, w)
  PROVE  Left(q, S, n, IF q[n] \in S THEN w ELSE Append(w, q[n]))
<1>1. n \in Nat \ {0} /\ q[n] \in ToSet(q)
  BY RangeQueue
<1>2. /\ w \in Seq(ToSet(q)) /\ Len(w) <= n - 1 /\ Len(w) \in Nat
      /\ \A i \in 1 .. (n - 1) : q[i] \notin S => \E j \in 1 .. Len(w) : w[j] = q[i]
  BY DEF Left
<1>3. PICK g :
        /\ \A j \in 1 .. Len(w) : g[j] \in 1 .. (n - 1) /\ w[j] = q[g[j]] /\ q[g[j]] \notin S
        /\ \A i, j \in 1 .. Len(w) : i < j => g[i] < g[j]
  BY DEF Left
<1>4. \A i \in 1 .. n : i = n \/ i \in 1 .. (n - 1)
  BY <1>1
<1>5. \A i \in 1 .. (n - 1) : i \in 1 .. n /\ i < n
  BY <1>1
<1>6. CASE q[n] \in S
  <2>1. \A i \in 1 .. n : q[i] \notin S => \E j \in 1 .. Len(w) : w[j] = q[i]
    BY <1>2, <1>4, <1>6
  <2>2. \A j \in 1 .. Len(w) : g[j] \in 1 .. n /\ w[j] = q[g[j]] /\ q[g[j]] \notin S
    BY <1>3, <1>5
  <2>3. Len(w) <= n
    BY <1>1, <1>2
  <2>4. Left(q, S, n, w)
    BY <1>2, <1>3, <2>1, <2>2, <2>3 DEF Left
  <2>5. QED
    BY <1>6, <2>4
<1>7. CASE q[n] \notin S
  <2> DEFINE v == Append(w, q[n])
             h == [j \in 1 .. Len(v) |-> IF j = Len(v) THEN n ELSE g[j]]
  <2>1. /\ v \in Seq(ToSet(q)) /\ Len(v) = Len(w) + 1 /\ v[Len(v)] = q[n]
        /\ \A j \in 1 .. Len(w) : v[j] = w[j]
    BY <1>1, <1>2
  <2> HIDE DEF v
  <2>2. \A j \in 1 .. Len(v) : j = Len(v) \/ (j \in 1 .. Len(w) /\ j # Len(v))
    BY <1>2, <2>1
  <2>3. \A j \in 1 .. Len(w) : j \in 1 .. Len(v) /\ j # Len(v)
    BY <1>2, <2>1
  <2>4. Len(v) \in 1 .. Len(v) /\ Len(v) <= n
    BY <1>1, <1>2, <2>1
  <2>5. \A i \in 1 .. n : q[i] \notin S => \E j \in 1 .. Len(v) : v[j] = q[i]
    BY <1>2, <1>4, <2>1, <2>3, <2>4
  <2>6. /\ h[Len(v)] = n
        /\ \A j \in 1 .. Len(w) : h[j] = g[j]
    BY <2>3, <2>4
  <2> HIDE DEF h
  <2>7. \A j \in 1 .. Len(v) : h[j] \in 1 .. n /\ v[j] = q[h[j]] /\ q[h[j]] \notin S
    BY <1>1, <1>3, <1>5, <1>7, <2>1, <2>2, <2>6
  <2>8. ASSUME NEW i \in 1 .. Len(v), NEW j \in 1 .. Len(v), i < j
        PROVE  h[i] < h[j]
    <3>1. i \in 1 .. Len(w)
      BY <2>1, <2>2, <2>8
    <3>2. CASE j = Len(v)
      BY <1>3, <1>5, <2>6, <3>1, <3>2
    <3>3. CASE j # Len(v)
      <4>1. j \in 1 .. Len(w)
        BY <2>2, <3>3
      <4>2. QED
        BY <1>3, <2>6, <2>8, <3>1, <4>1
    <3>4. QED
      BY <3>2, <3>3
  <2>9. Left(q, S, n, v)
    BY <2>1, <2>4, <2>5, <2>7, <2>8 DEF Left
  <2>10. QED
    BY <1>7, <2>9 DEF v
<1>8. QED
  BY <1>6, <1>7

\* remove_requests leaves the others, in their order.
LEMMA WithoutLeaves ==
  ASSUME NEW T, NEW q \in Seq(T), NEW S
  PROVE  Left(q, S, Len(q), Without(q, S))
<1>1. PICK kept : KeptPrefixes(q, S, kept) /\ Without(q, S) = kept[Len(q)]
  BY WithoutIsDefined
<1> DEFINE N == Len(q)
           Bad == {n \in 0 .. N : ~ Left(q, S, n, kept[n])}
<1>2. N \in Nat
  OBVIOUS
<1>3. Bad = {}
  <2> SUFFICES ASSUME Bad # {}
               PROVE  FALSE
    OBVIOUS
  <2>1. Bad \in SUBSET Nat
    BY <1>2
  <2>2. PICK m \in Bad : \A k \in Bad : m <= k
    BY <2>1, LeastNatural
  <2>3. m \in 0 .. N /\ ~ Left(q, S, m, kept[m])
    BY <2>2
  <2>4. CASE m = 0
    <3>1. kept[0] = <<>>
      BY <1>1 DEF KeptPrefixes
    <3>2. Left(q, S, 0, <<>>)
      BY DEF Left
    <3>3. QED
      BY <2>3, <2>4, <3>1, <3>2
  <2>5. CASE m # 0
    <3>1. m - 1 \in 0 .. N /\ ~ (m <= m - 1) /\ m \in 1 .. N
      BY <1>2, <2>3, <2>5
    <3>2. Left(q, S, m - 1, kept[m - 1])
      BY <2>2, <3>1
    <3>3. kept[m] = IF q[m] \in S THEN kept[m - 1] ELSE Append(kept[m - 1], q[m])
      BY <1>1, <3>1 DEF KeptPrefixes
    <3>4. QED
      BY <2>3, <3>1, <3>2, <3>3, LeftNext
  <2>6. QED
    BY <2>4, <2>5
<1>4. N \in 0 .. N
  BY <1>2
<1>5. QED
  BY <1>1, <1>3, <1>4

\* The members, the length and the order of what remove_requests leaves.
LEMMA WithoutQueue ==
  ASSUME NEW T, NEW q \in Seq(T), NEW S
  PROVE  /\ Without(q, S) \in Seq(T) /\ Len(Without(q, S)) <= Len(q)
         /\ ToSet(Without(q, S)) = ToSet(q) \ S
         /\ Distinct(q) => Distinct(Without(q, S))
         /\ \A i, j \in 1 .. Len(Without(q, S)) : i < j =>
              \E k, l \in 1 .. Len(q) : /\ k < l
                                        /\ q[k] = Without(q, S)[i] /\ q[l] = Without(q, S)[j]
<1> DEFINE w == Without(q, S)
<1>1. Left(q, S, Len(q), w)
  BY WithoutLeaves
<1> HIDE DEF w
<1>2. ToSet(q) \subseteq T
  BY RangeQueue
<1>3. w \in Seq(ToSet(q)) /\ Len(w) <= Len(q) /\ Len(w) \in Nat
  BY <1>1 DEF Left
<1>4. w \in Seq(T)
  BY <1>2, <1>3
<1>5. PICK g :
        /\ \A j \in 1 .. Len(w) :
             g[j] \in 1 .. Len(q) /\ w[j] = q[g[j]] /\ q[g[j]] \notin S
        /\ \A i, j \in 1 .. Len(w) : i < j => g[i] < g[j]
  BY <1>1 DEF Left
<1>6. ToSet(w) = ToSet(q) \ S
  <2>1. \A x : /\ x \in ToSet(w) <=> \E i \in 1 .. Len(w) : w[i] = x
               /\ x \in ToSet(q) <=> \E i \in 1 .. Len(q) : q[i] = x
    BY <1>4, RangeQueue
  <2>2. \A i \in 1 .. Len(q) : q[i] \notin S => \E j \in 1 .. Len(w) : w[j] = q[i]
    BY <1>1 DEF Left
  <2>3. QED
    BY <1>5, <2>1, <2>2
<1>7. ASSUME Distinct(q), NEW i \in 1 .. Len(w), NEW j \in 1 .. Len(w), w[i] = w[j]
      PROVE  i = j
  <2>1. g[i] = g[j]
    BY <1>5, <1>7 DEF Distinct
  <2>2. ~ (i < j) /\ ~ (j < i)
    BY <1>5, <2>1
  <2>3. QED
    BY <2>2, <1>3
<1>8. ASSUME NEW i \in 1 .. Len(w), NEW j \in 1 .. Len(w), i < j
      PROVE  \E k, l \in 1 .. Len(q) : k < l /\ q[k] = w[i] /\ q[l] = w[j]
  BY <1>5, <1>8
<1>9. QED
  BY <1>3, <1>4, <1>6, <1>7, <1>8 DEF w, Distinct

-----------------------------------------------------------------------------
(* The length of a queue.                                                  *)

\* A queue that names each request once is as long as it has members.
LEMMA QueueSize ==
  ASSUME NEW T, NEW q \in Seq(T), Distinct(q)
  PROVE  IsFiniteSet(ToSet(q)) /\ Cardinality(ToSet(q)) = Len(q) /\ Len(q) \in Nat
<1>1. Len(q) \in Nat /\ q \in [1 .. Len(q) -> ToSet(q)]
  BY DEF ToSet
<1>2. /\ \A i, j \in 1 .. Len(q) : q[i] = q[j] => i = j
      /\ \A x \in ToSet(q) : \E i \in 1 .. Len(q) : q[i] = x
  BY RangeQueue DEF Distinct
<1>3. q \in Bijection(1 .. Len(q), ToSet(q))
  BY <1>1, <1>2, Fun_IsBij
<1>4. ExistsBijection(1 .. Len(q), ToSet(q))
  BY <1>3 DEF ExistsBijection
<1>5. IsFiniteSet(1 .. Len(q)) /\ Cardinality(1 .. Len(q)) = Len(q)
  BY <1>1, FS_Interval
<1>6. QED
  BY <1>1, <1>4, <1>5, FS_Bijection

\* remove_requests of more requests leaves no more, and one less for each of the
\* queue's own.
LEMMA WithoutMore ==
  ASSUME NEW T, NEW q \in Seq(T), Distinct(q), NEW S, NEW x
  PROVE  /\ Len(Without(q, S \cup {x})) \in Nat /\ Len(Without(q, S)) \in Nat
         /\ Len(Without(q, S \cup {x})) <= Len(Without(q, S))
         /\ x \in ToSet(q) \ S => Len(Without(q, S \cup {x})) = Len(Without(q, S)) - 1
<1> DEFINE v == Without(q, S)
           w == Without(q, S \cup {x})
<1>1. /\ v \in Seq(T) /\ Distinct(v) /\ ToSet(v) = ToSet(q) \ S
      /\ w \in Seq(T) /\ Distinct(w) /\ ToSet(w) = ToSet(q) \ (S \cup {x})
  BY WithoutQueue
<1> HIDE DEF v, w
<1>2. /\ IsFiniteSet(ToSet(v)) /\ Cardinality(ToSet(v)) = Len(v) /\ Len(v) \in Nat
      /\ Cardinality(ToSet(w)) = Len(w) /\ Len(w) \in Nat
  BY <1>1, QueueSize
<1>3. ToSet(w) = ToSet(v) \ {x}
  BY <1>1
<1>4. Cardinality(ToSet(w)) = IF x \in ToSet(v) THEN Cardinality(ToSet(v)) - 1
                              ELSE Cardinality(ToSet(v))
  BY <1>2, <1>3, FS_RemoveElement
<1>5. QED
  BY <1>1, <1>2, <1>4 DEF v, w

-----------------------------------------------------------------------------
USE SchedulerAssumption

Waits == {"waiting", "preempted"}

\* What schedule() has passed over so far belongs to the queues until it is put back.
Line == IF pc = "waiting" THEN call.passed ELSE <<>>

\* The requests update_from_output is about to take out of the queues.
Leaving == IF pc = "update" THEN upd.stopped ELSE {}
LeavingWaiting == IF pc = "update" THEN upd.stoppedWaiting ELSE {}

\* Each queue names a request once, and no request waits in two of them.
Queues ==
  /\ waiting \in Seq(Requests) /\ skippedWaiting \in Seq(Requests)
  /\ running \in Seq(Requests) /\ Line \in Seq(Requests)
  /\ Distinct(waiting) /\ Distinct(skippedWaiting) /\ Distinct(running) /\ Distinct(Line)
  /\ ToSet(waiting) \cap ToSet(skippedWaiting) = {}
  /\ ToSet(waiting) \cap ToSet(Line) = {}
  /\ ToSet(skippedWaiting) \cap ToSet(Line) = {}

\* A request is in the queue its status calls for, and in no other.
Place(r) ==
  /\ status[r] = "running" <=> r \in ToSet(running) /\ r \notin Leaving
  /\ r \in ToSet(waiting) /\ r \notin LeavingWaiting => status[r] \in Waits
  /\ r \in LeavingWaiting => status[r] = "finished"
  /\ r \in ToSet(skippedWaiting) \cup ToSet(Line) => status[r] \in BlockedStatus \cup Waits
  /\ status[r] \in Waits =>
       r \in ToSet(waiting) \cup ToSet(skippedWaiting) \cup ToSet(Line)
  /\ status[r] \in BlockedStatus => r \in ToSet(skippedWaiting) \cup ToSet(Line)
  /\ status[r] = "absent" => r \notin requests
  /\ Async => r \notin requests \cap Sessions
Places ==
  /\ requests \subseteq Requests /\ status \in [Requests -> Status]
  /\ \A r \in Requests : Place(r)

\* Inside schedule(): the requests of the step in the making are running, before the
\* loop index; and nothing was preempted when the waiting ones are looked at.
Calls ==
  /\ DOMAIN call = DOMAIN NoCall
  /\ pc \in {"idle", "running", "waiting", "done", "update", "failures", "transfers"}
  /\ maxBatches \in {1, 2} /\ (pc # "idle" => Len(flight) < maxBatches)
  /\ pc = "running" =>
       /\ call.passed = <<>> /\ call.idx \in Nat /\ call.idx <= Len(running)
       /\ \A x \in ToSet(call.order) : \E i \in 1 .. call.idx : running[i] = x
  /\ pc \in {"running", "waiting", "done"} =>
       /\ call.order \in Seq(Requests) /\ Distinct(call.order)
       /\ ToSet(call.order) \subseteq ToSet(running)
  /\ pc = "waiting" => ~ call.preempted

\* A request of a step still runs, unless it has finished or, where that is possible,
\* was preempted; it has then not left `waiting` yet.
InStep(x, preemptible) ==
  \/ status[x] \in {"running", "finished"}
  \/ preemptible /\ status[x] = "preempted" /\ x \in ToSet(waiting)

\* The requests of the i-th step in flight can have been preempted by the step after.
Held(i) ==
  i = 1 /\ (Len(flight) = 2 \/ (pc \in {"running", "done"} /\ call.preempted))
Flights ==
  /\ Len(flight) \in Nat /\ Len(flight) <= maxBatches /\ \E S : flight \in Seq(S)
  /\ \A i \in 1 .. Len(flight) :
       /\ flight[i].order \in Seq(Requests) /\ Distinct(flight[i].order)
       /\ \A x \in ToSet(flight[i].order) : InStep(x, Held(i))

\* Inside update_from_output.
Updates ==
  /\ DOMAIN upd = DOMAIN NoUpdate
  /\ pc = "update" =>
       /\ upd.todo \in Seq(Requests) /\ Distinct(upd.todo)
       /\ upd.stopped \subseteq Requests /\ upd.stoppedWaiting \subseteq Requests
       /\ \A x \in ToSet(upd.todo) : InStep(x, Async)

QueueInv == Queues /\ Places /\ Calls /\ Flights /\ Updates

LEMMA QueueInit == Init => QueueInv
<1> SUFFICES ASSUME Init
             PROVE  QueueInv
  OBVIOUS
<1>1. ToSet(<<>>) = {} /\ <<>> \in Seq(Requests) /\ Distinct(<<>>) /\ Len(<<>>) = 0
  BY DEF ToSet, Distinct
<1>2. pc = "idle" /\ waiting = <<>> /\ skippedWaiting = <<>> /\ running = <<>> /\ flight = <<>>
  BY DEF Init
<1>3. Queues
  BY <1>1, <1>2 DEF Queues, Line
<1>4. Places
  BY <1>1, <1>2 DEF Init, Places, Place, Line, Leaving, LeavingWaiting, Status, Waits,
                    BlockedStatus
<1>5. Calls
  BY <1>2 DEF Init, Calls, SchedulerAssumption
<1>6. Flights
  BY <1>1, <1>2 DEF Init, Flights, SchedulerAssumption
<1>7. Updates
  BY <1>2 DEF Init, Updates
<1>8. QED
  BY <1>3, <1>4, <1>5, <1>6, <1>7 DEF QueueInv

-----------------------------------------------------------------------------
(* What keeps one part of the invariant.                                   *)

LEMMA QueuesFrame ==
  ASSUME Queues, UNCHANGED <<waiting, skippedWaiting, running>>, Line' \in {Line, <<>>}
  PROVE  Queues'
<1>1. ToSet(<<>>) = {} /\ <<>> \in Seq(Requests) /\ Distinct(<<>>)
  BY DEF ToSet, Distinct
<1>2. QED
  BY <1>1 DEF Queues

\* The members of the queues and the status decide.
LEMMA PlacesFrame ==
  ASSUME Places, UNCHANGED <<waiting, skippedWaiting, running, status, requests, maxBatches>>,
         Line' = Line, Leaving' = Leaving, LeavingWaiting' = LeavingWaiting
  PROVE  Places'
  BY DEF Places, Place, Async

LEMMA FlightsFrame ==
  ASSUME Flights, UNCHANGED <<flight, maxBatches>>,
         \A i \in 1 .. Len(flight) : Held(i) => Held(i)',
         \A i \in 1 .. Len(flight) : \A x \in ToSet(flight[i].order) :
           \/ /\ status'[x] = status[x]
              /\ Held(i) /\ x \in ToSet(waiting) => x \in ToSet(waiting')
           \/ status'[x] \in {"running", "finished"}
           \/ status'[x] = "preempted" /\ Held(i)' /\ x \in ToSet(waiting')
  PROVE  Flights'
<1>1. ASSUME NEW i \in 1 .. Len(flight), NEW x \in ToSet(flight[i].order)
      PROVE  InStep(x, Held(i))'
  <2>1. InStep(x, Held(i))
    BY <1>1 DEF Flights
  <2>2. QED
    BY <1>1, <2>1 DEF InStep
<1>2. QED
  BY <1>1 DEF Flights

LEMMA FlightMembers ==
  ASSUME Flights
  PROVE  \A i \in 1 .. Len(flight) : ToSet(flight[i].order) \subseteq Requests
  BY RangeQueue DEF Flights

LEMMA NoneHeld ==
  ASSUME Calls, Flights, pc \notin {"idle", "running", "done"}
  PROVE  \A i \in 1 .. Len(flight) : ~ Held(i)
<1>1. Len(flight) \in Nat /\ Len(flight) < maxBatches /\ (maxBatches = 1 \/ maxBatches = 2)
  BY DEF Calls, Flights
<1>2. Len(flight) # 2
  BY <1>1
<1>3. QED
  BY <1>2 DEF Held

LEMMA UpdatesFrame ==
  ASSUME Updates, UNCHANGED upd, pc # "update", pc' # "update"
  PROVE  Updates'
  BY DEF Updates

\* A step inside no call of the scheduler, or at whose end it is in none, from
\* outside: pc, call and flight stay as they are.
LEMMA OutsideCalls ==
  ASSUME Calls, UNCHANGED <<call, flight, maxBatches>>, pc \notin {"running", "waiting", "done"},
         pc' \in {pc, "idle", "transfers"}, pc = "idle" => pc' = "idle"
  PROVE  Calls'
  BY DEF Calls

\* _enqueue_waiting_request of a request that waits nowhere.
LEMMA EnqueueQueues ==
  ASSUME Queues, NEW r \in Requests, NEW st, Enqueue(r, st),
         r \notin ToSet(waiting) \cup ToSet(skippedWaiting) \cup ToSet(Line),
         UNCHANGED running, Line' = Line
  PROVE  /\ Queues'
         /\ st \in BlockedStatus => /\ ToSet(skippedWaiting') = ToSet(skippedWaiting) \cup {r}
                                    /\ waiting' = waiting
         /\ st \notin BlockedStatus => /\ ToSet(waiting') = ToSet(waiting) \cup {r}
                                       /\ skippedWaiting' = skippedWaiting
<1>1. CASE st \in BlockedStatus
  <2>1. skippedWaiting' = Append(skippedWaiting, r) /\ waiting' = waiting
    BY <1>1 DEF Enqueue
  <2>2. /\ skippedWaiting' \in Seq(Requests) /\ Distinct(skippedWaiting')
        /\ ToSet(skippedWaiting') = ToSet(skippedWaiting) \cup {r}
    BY <2>1, AppendQueue DEF Queues
  <2>3. QED
    BY <1>1, <2>1, <2>2 DEF Queues
<1>2. CASE st \notin BlockedStatus
  <2>1. waiting' = Append(waiting, r) /\ skippedWaiting' = skippedWaiting
    BY <1>2 DEF Enqueue
  <2>2. /\ waiting' \in Seq(Requests) /\ Distinct(waiting')
        /\ ToSet(waiting') = ToSet(waiting) \cup {r}
    BY <2>1, AppendQueue DEF Queues
  <2>3. QED
    BY <1>2, <2>1, <2>2 DEF Queues
<1>3. QED
  BY <1>1, <1>2

LEMMA AddRequestQueues ==
  ASSUME QueueInv, NEW r \in Requests, AddRequest(r)
  PROVE  QueueInv'
<1> DEFINE st == IF r \in Grammars THEN "grammar" ELSE "waiting"
<1>1. /\ pc = "idle" /\ status[r] = "absent" /\ (r \in Sessions => ~ Async)
      /\ requests' = requests \cup {r} /\ status' = [status EXCEPT ![r] = st]
      /\ Enqueue(r, st)
      /\ UNCHANGED <<running, pc, call, upd, flight, maxBatches>>
  BY DEF AddRequest, Outside, OutsideVars, miscVars, configVars
<1>2. Queues /\ Places /\ Calls /\ Flights /\ Updates
  BY DEF QueueInv
<1>3. /\ st = "grammar" \/ st = "waiting"
      /\ "grammar" \in BlockedStatus /\ "waiting" \notin BlockedStatus
  BY DEF BlockedStatus
<1> HIDE DEF st
<1>4. /\ Line = <<>> /\ Line' = <<>> /\ ToSet(<<>>) = {} /\ Leaving = {} /\ LeavingWaiting = {}
      /\ Leaving' = {} /\ LeavingWaiting' = {} /\ Async' = Async
  BY <1>1 DEF Line, Leaving, LeavingWaiting, ToSet, Async
<1>5. r \notin ToSet(waiting) /\ r \notin ToSet(skippedWaiting)
  BY <1>1, <1>2, <1>4 DEF Places, Place, Waits, BlockedStatus
<1>6. /\ Queues'
      /\ st = "grammar" => /\ ToSet(skippedWaiting') = ToSet(skippedWaiting) \cup {r}
                           /\ waiting' = waiting
      /\ st = "waiting" => /\ ToSet(waiting') = ToSet(waiting) \cup {r}
                           /\ skippedWaiting' = skippedWaiting
  BY <1>1, <1>2, <1>3, <1>4, <1>5, EnqueueQueues
<1>7. Places'
  BY <1>1, <1>2, <1>3, <1>4, <1>5, <1>6 DEF Places, Place, Waits, BlockedStatus, Status
<1>8. Calls'
  BY <1>1, <1>2, OutsideCalls
<1>9. Flights'
  <2>1. \A i \in 1 .. Len(flight) : \A x \in ToSet(flight[i].order) : x # r
    BY <1>1, <1>2 DEF Flights, InStep
  <2>2. \A i \in 1 .. Len(flight) : Held(i) => Held(i)'
    BY <1>1 DEF Held
  <2>3. \A x : x # r => status'[x] = status[x]
    BY <1>1, <1>2 DEF Places
  <2>4. QED
    BY <1>1, <1>2, <1>3, <1>6, <2>1, <2>2, <2>3, FlightsFrame
<1>10. Updates'
  BY <1>1, <1>2, UpdatesFrame
<1>11. QED
  BY <1>6, <1>7, <1>8, <1>9, <1>10 DEF QueueInv

\* A session that waits for input goes on where it is, in skipped_waiting.
LEMMA SendUpdateQueues ==
  ASSUME QueueInv, NEW r \in Requests, SendUpdate(r)
  PROVE  QueueInv'
<1>1. /\ pc = "idle" /\ UNCHANGED <<requests, waiting, skippedWaiting, running>>
      /\ UNCHANGED <<pc, call, upd, flight, maxBatches>>
      /\ status' = status \/ (status[r] = "streaming" /\ status' = [status EXCEPT ![r] = "waiting"])
  BY DEF SendUpdate, Outside, OutsideVars, miscVars, configVars
<1>2. Queues /\ Places /\ Calls /\ Flights /\ Updates
  BY DEF QueueInv
<1>3. /\ Line' = Line /\ Leaving = {} /\ LeavingWaiting = {}
      /\ Leaving' = {} /\ LeavingWaiting' = {} /\ Async' = Async
  BY <1>1 DEF Line, Leaving, LeavingWaiting, Async
<1>4. Queues'
  BY <1>1, <1>2, <1>3, QueuesFrame
<1>5. Places'
  BY <1>1, <1>2, <1>3 DEF Places, Place, Waits, BlockedStatus, Status
<1>6. Calls'
  BY <1>1, <1>2, OutsideCalls
<1>7. Flights'
  <2>1. \A i \in 1 .. Len(flight) : \A x \in ToSet(flight[i].order) : status[x] # "streaming"
    BY <1>2 DEF Flights, InStep
  <2>2. \A i \in 1 .. Len(flight) : Held(i) => Held(i)'
    BY <1>1 DEF Held
  <2>3. \A x \in Requests : status[x] # "streaming" => status'[x] = status[x]
    BY <1>1, <1>2 DEF Places
  <2>4. QED
    BY <1>1, <1>2, <2>1, <2>2, <2>3, FlightMembers, FlightsFrame
<1>8. Updates'
  BY <1>1, <1>2, UpdatesFrame
<1>9. QED
  BY <1>4, <1>5, <1>6, <1>7, <1>8 DEF QueueInv

\* finish_requests: the request leaves every queue.
LEMMA FinishRequestQueues ==
  ASSUME QueueInv, NEW r \in Requests, FinishRequest(r), UNCHANGED <<call, upd, flight, maxBatches>>,
         \/ pc = "idle" /\ pc' = "idle"
         \/ pc = "failures" /\ pc' = "transfers"
  PROVE  QueueInv'
<1>1. /\ running' = Without(running, {r}) /\ waiting' = Without(waiting, {r})
      /\ skippedWaiting' = Without(skippedWaiting, {r})
      /\ status' = [q \in Requests |-> IF q \in {r} THEN "finished" ELSE status[q]]
      /\ requests' \subseteq requests
  BY DEF FinishRequest, FreeRequests
<1>2. Queues /\ Places /\ Calls /\ Flights /\ Updates
  BY DEF QueueInv
<1>3. /\ Line = <<>> /\ Line' = <<>> /\ ToSet(<<>>) = {} /\ Leaving = {} /\ LeavingWaiting = {}
      /\ Leaving' = {} /\ LeavingWaiting' = {} /\ Async' = Async
  BY DEF Line, Leaving, LeavingWaiting, ToSet, Async
<1>4. /\ running' \in Seq(Requests) /\ ToSet(running') = ToSet(running) \ {r} /\ Distinct(running')
      /\ waiting' \in Seq(Requests) /\ ToSet(waiting') = ToSet(waiting) \ {r} /\ Distinct(waiting')
      /\ skippedWaiting' \in Seq(Requests) /\ Distinct(skippedWaiting')
      /\ ToSet(skippedWaiting') = ToSet(skippedWaiting) \ {r}
  BY <1>1, <1>2, WithoutQueue DEF Queues
<1>5. Queues'
  BY <1>2, <1>3, <1>4 DEF Queues
<1>6. /\ status' \in [Requests -> Status] /\ status'[r] = "finished"
      /\ \A q \in Requests : q # r => status'[q] = status[q]
  BY <1>1, <1>2 DEF Places, Status
<1>7. Places'
  BY <1>1, <1>2, <1>3, <1>4, <1>6 DEF Places, Place, Waits, BlockedStatus
<1>8. Calls'
  BY <1>2, OutsideCalls
<1>9. Flights'
  <2>1. \A i \in 1 .. Len(flight) : Held(i) => Held(i)'
    BY DEF Held
  <2>2. QED
    BY <1>2, <1>4, <1>6, <2>1, FlightMembers, FlightsFrame
<1>10. Updates'
  BY <1>2, UpdatesFrame
<1>11. QED
  BY <1>5, <1>7, <1>8, <1>9, <1>10 DEF QueueInv

-----------------------------------------------------------------------------
(* schedule(): the running requests.                                       *)

\* _preempt_request: running requests go to the head of `waiting`.
LEMMA PutBackQueues ==
  ASSUME Queues, Places, pc \notin {"update", "waiting"}, pc' \notin {"update", "waiting"},
         NEW back \in Seq(Requests), Distinct(back), ToSet(back) \subseteq ToSet(running),
         PutBack(back), Preempt(ToSet(back)), UNCHANGED <<requests, skippedWaiting, maxBatches>>,
         running' \in Seq(Requests), Distinct(running'),
         ToSet(running') = ToSet(running) \ ToSet(back)
  PROVE  Queues' /\ Places' /\ ToSet(waiting') = ToSet(back) \cup ToSet(waiting)
<1>1. /\ waiting' = back \o waiting
      /\ status' = [q \in Requests |-> IF q \in ToSet(back) THEN "preempted" ELSE status[q]]
  BY DEF PutBack, Preempt
<1>2. /\ Line = <<>> /\ Line' = <<>> /\ ToSet(<<>>) = {} /\ Leaving = {} /\ LeavingWaiting = {}
      /\ Leaving' = {} /\ LeavingWaiting' = {} /\ Async' = Async
  BY DEF Line, Leaving, LeavingWaiting, ToSet, Async
<1>3. ToSet(back) \subseteq Requests /\ \A q \in ToSet(back) : status[q] = "running"
  BY <1>2, RangeQueue DEF Queues, Places, Place
<1>4. \A q \in ToSet(back) : q \notin ToSet(waiting) /\ q \notin ToSet(skippedWaiting)
  BY <1>2, <1>3 DEF Places, Place, Waits, BlockedStatus
<1>5. /\ waiting' \in Seq(Requests) /\ Distinct(waiting')
      /\ ToSet(waiting') = ToSet(back) \cup ToSet(waiting)
  BY <1>1, <1>4, JoinQueues DEF Queues
<1>6. Queues'
  BY <1>2, <1>4, <1>5 DEF Queues
<1>7. /\ status' \in [Requests -> Status]
      /\ \A q \in Requests : status'[q] = IF q \in ToSet(back) THEN "preempted" ELSE status[q]
  BY <1>1 DEF Places, Status
<1>8. Places'
  BY <1>2, <1>3, <1>4, <1>5, <1>7 DEF Places, Place, Waits, BlockedStatus
<1>9. QED
  BY <1>5, <1>6, <1>8

LEMMA ResetPrefixCacheQueues ==
  ASSUME QueueInv, ResetPrefixCache
  PROVE  QueueInv'
<1>1. /\ pc = "idle" /\ flight = <<>> /\ running' = <<>> /\ PutBack(running)
      /\ Preempt({r \in Requests : InQueue(running, r)})
      /\ UNCHANGED <<requests, skippedWaiting, pc, call, upd, flight, maxBatches>>
  BY DEF ResetPrefixCache, Outside, OutsideVars, miscVars, configVars
<1>2. Queues /\ Places /\ Calls /\ Flights /\ Updates
  BY DEF QueueInv
<1>3. {r \in Requests : InQueue(running, r)} = ToSet(running)
  BY <1>2, RangeQueue DEF Queues, InQueue
<1>4. running' \in Seq(Requests) /\ Distinct(running') /\ ToSet(running') = {}
  BY <1>1 DEF Distinct, ToSet
<1>5. ToSet(running) \ ToSet(running) = {}
  OBVIOUS
<1>6. Queues' /\ Places'
  <2>1. running \in Seq(Requests) /\ Distinct(running)
    BY <1>2 DEF Queues
  <2>2. Preempt(ToSet(running))
    BY <1>1, <1>3
  <2>3. QED
    BY <1>1, <1>2, <1>4, <1>5, <2>1, <2>2, PutBackQueues
<1>7. Calls'
  BY <1>1, <1>2, OutsideCalls
<1>8. Flights'
  BY <1>1, <1>2 DEF Flights
<1>9. Updates'
  BY <1>1, <1>2, UpdatesFrame
<1>10. QED
  BY <1>6, <1>7, <1>8, <1>9 DEF QueueInv

\* A step inside the loop over the running requests, or at its ends.
LEMMA BeginScheduleQueues ==
  ASSUME QueueInv, NEW throttle, BeginSchedule(throttle)
  PROVE  QueueInv'
<1>1. /\ pc = "idle" /\ pc' = "running" /\ Len(flight) < maxBatches
      /\ UNCHANGED <<requests, status, waiting, skippedWaiting, running, upd, flight, maxBatches>>
  BY DEF BeginSchedule, queueVars, miscVars, configVars
<1>2. /\ DOMAIN call' = DOMAIN NoCall /\ call'.idx = 0 /\ call'.order = <<>>
      /\ call'.passed = <<>> /\ call'.preempted = FALSE
  BY DEF BeginSchedule, NoCall
<1>3. Queues /\ Places /\ Calls /\ Flights /\ Updates
  BY DEF QueueInv
<1>4. /\ Line' = Line /\ Leaving' = Leaving /\ LeavingWaiting' = LeavingWaiting
  BY <1>1 DEF Line, Leaving, LeavingWaiting
<1>5. Queues' /\ Places'
  BY <1>1, <1>3, <1>4, QueuesFrame, PlacesFrame
<1>6. Calls'
  <2>1. <<>> \in Seq(Requests) /\ Distinct(<<>>) /\ ToSet(<<>>) = {}
    BY DEF Distinct, ToSet
  <2>2. 0 <= Len(running) /\ 0 \in Nat
    BY <1>3 DEF Queues
  <2>3. QED
    BY <1>1, <1>2, <1>3, <2>1, <2>2 DEF Calls
<1>7. Flights'
  <2>1. \A i \in 1 .. Len(flight) : Held(i) => Held(i)'
    BY <1>1 DEF Held
  <2>2. QED
    BY <1>1, <1>3, <2>1, FlightsFrame
<1>8. Updates'
  BY <1>1, <1>3, UpdatesFrame
<1>9. QED
  BY <1>5, <1>6, <1>7, <1>8 DEF QueueInv

\* One running request is passed over or scheduled.
LEMMA NextRunningQueues ==
  ASSUME QueueInv, pc = "running", UNCHANGED <<queueVars, pc, upd, flight, maxBatches>>,
         call.idx < Len(running), DOMAIN call' = DOMAIN call, call'.idx = call.idx + 1,
         call'.passed = call.passed, call'.preempted = call.preempted,
         call'.order \in {call.order, Append(call.order, running[call.idx + 1])}
  PROVE  QueueInv'
<1>1. UNCHANGED <<requests, status, waiting, skippedWaiting, running>>
  BY DEF queueVars
<1>2. Queues /\ Places /\ Calls /\ Flights /\ Updates
  BY DEF QueueInv
<1>3. Line' = Line /\ Leaving' = Leaving /\ LeavingWaiting' = LeavingWaiting
  BY DEF Line, Leaving, LeavingWaiting
<1>4. Queues' /\ Places'
  BY <1>1, <1>2, <1>3, QueuesFrame, PlacesFrame
<1>5. Calls'
  <2> DEFINE n == call.idx + 1
             x == running[n]
  <2>1. /\ call.passed = <<>> /\ call.idx \in Nat /\ call.order \in Seq(Requests)
        /\ Distinct(call.order) /\ ToSet(call.order) \subseteq ToSet(running)
        /\ \A y \in ToSet(call.order) : \E i \in 1 .. call.idx : running[i] = y
    BY <1>2 DEF Calls
  <2>2. running \in Seq(Requests) /\ Distinct(running) /\ Len(running) \in Nat
    BY <1>2 DEF Queues
  <2>3. n \in Nat /\ n <= Len(running) /\ n \in 1 .. Len(running) /\ n \in 1 .. n
    BY <2>1, <2>2
  <2>4. x \in Requests /\ x \in ToSet(running)
    BY <2>2, <2>3, RangeQueue
  <2>5. \A i \in 1 .. call.idx : i \in 1 .. n /\ i \in 1 .. Len(running) /\ i # n
    BY <2>1, <2>3
  <2> HIDE DEF n
  <2>6. ASSUME x \in ToSet(call.order)
        PROVE  FALSE
    <3>1. PICK i \in 1 .. call.idx : running[i] = running[n]
      BY <2>1, <2>6
    <3>2. QED
      BY <2>2, <2>3, <2>5, <3>1 DEF Distinct
  <2> HIDE DEF x
  <2>7. /\ call'.order \in Seq(Requests) /\ Distinct(call'.order)
        /\ ToSet(call'.order) \in {ToSet(call.order), ToSet(call.order) \cup {x}}
    <3>1. CASE call'.order = call.order
      BY <2>1, <3>1
    <3>2. CASE call'.order = Append(call.order, x)
      BY <2>1, <2>4, <2>6, <3>2, AppendQueue
    <3>3. QED
      BY <3>1, <3>2 DEF x, n
  <2>8. ASSUME NEW y \in ToSet(call'.order)
        PROVE  \E i \in 1 .. n : running[i] = y
    <3>1. CASE y = x
      BY <2>3, <3>1 DEF x
    <3>2. CASE y \in ToSet(call.order)
      BY <2>1, <2>5, <3>2
    <3>3. QED
      BY <2>7, <2>8, <3>1, <3>2
  <2>9. call'.idx = n
    BY DEF n
  <2>10. QED
    BY <1>1, <1>2, <2>1, <2>3, <2>4, <2>7, <2>8, <2>9 DEF Calls
<1>6. Flights'
  <2>1. \A i \in 1 .. Len(flight) : Held(i) => Held(i)'
    BY DEF Held
  <2>2. QED
    BY <1>1, <1>2, <2>1, FlightsFrame
<1>7. Updates'
  BY <1>2, UpdatesFrame
<1>8. QED
  BY <1>4, <1>5, <1>6, <1>7 DEF QueueInv

LEMMA RunningLoopQueues ==
  ASSUME QueueInv, SkipRunning \/ \E r \in Requests : ScheduleRunning(r)
  PROVE  QueueInv'
<1>1. /\ {"idx", "order", "passed", "preempted"} \subseteq DOMAIN call
      /\ DOMAIN call = DOMAIN NoCall
  BY DEF QueueInv, Calls, NoCall
<1>2. /\ pc = "running" /\ UNCHANGED <<queueVars, pc, upd, flight, maxBatches>>
      /\ call.idx < Len(running)
  BY DEF SkipRunning, ScheduleRunning, MoreRunning, miscVars, configVars
<1>3. /\ DOMAIN call' = DOMAIN call /\ call'.idx = call.idx + 1
      /\ call'.passed = call.passed /\ call'.preempted = call.preempted
      /\ call'.order \in {call.order, Append(call.order, running[call.idx + 1])}
  <2>1. CASE SkipRunning
    <3>1. call' = [call EXCEPT !.idx = @ + 1]
      BY <2>1 DEF SkipRunning
    <3>2. QED
      BY <1>1, <3>1
  <2>2. ASSUME NEW r \in Requests, ScheduleRunning(r)
        PROVE  <1>3
    <3> DEFINE n == NumNewTokens(r)
               drafts == n + computed[r] - tokens[r] - holders[r]
               s == IF spec[r] > 0 /\ drafts > 0 THEN Min({spec[r], drafts}) ELSE 0
               p == call.prefill \/ chunk[r]
    <3>1. call' = [call EXCEPT !.idx = @ + 1, !.budget = @ - n, !.sched[r] = n,
                               !.order = Append(@, r), !.batch = @ \cup {r},
                               !.prefill = @ \/ chunk[r], !.spec[r] = s]
      BY <2>2, Zenon DEF ScheduleRunning
    <3>2. r = running[call.idx + 1]
      BY <2>2 DEF ScheduleRunning, Current
    <3> HIDE DEF n, s
    <3>3. QED
      BY <1>1, <3>1, <3>2
  <2>3. QED
    BY <2>1, <2>2
<1>4. QED
  BY <1>2, <1>3, NextRunningQueues

LEMMA EndRunningQueues ==
  ASSUME QueueInv, EndRunning
  PROVE  QueueInv'
<1>1. /\ pc = "running" /\ pc' \in {"waiting", "done"} /\ (pc' = "waiting" => ~ call.preempted)
      /\ UNCHANGED <<requests, status, waiting, skippedWaiting, running, call, upd, flight,
                     maxBatches>>
  BY DEF EndRunning, queueVars, miscVars, configVars
<1>2. Queues /\ Places /\ Calls /\ Flights /\ Updates
  BY DEF QueueInv
<1>3. /\ Line' = Line /\ Leaving' = Leaving /\ LeavingWaiting' = LeavingWaiting
  BY <1>1, <1>2 DEF Calls, Line, Leaving, LeavingWaiting
<1>4. Queues' /\ Places'
  BY <1>1, <1>2, <1>3, QueuesFrame, PlacesFrame
<1>5. Calls'
  BY <1>1, <1>2 DEF Calls
<1>6. Flights'
  <2>1. \A i \in 1 .. Len(flight) : Held(i) => Held(i)'
    BY <1>1 DEF Held
  <2>2. QED
    BY <1>1, <1>2, <2>1, FlightsFrame
<1>7. Updates'
  BY <1>1, <1>2, UpdatesFrame
<1>8. QED
  BY <1>4, <1>5, <1>6, <1>7 DEF QueueInv

\* The last running request is preempted; the loop index has not reached it.
LEMMA PreemptLastQueues ==
  ASSUME QueueInv, NEW v \in Requests, PreemptLast(v)
  PROVE  QueueInv'
<1>1. /\ pc = "running" /\ call.idx < Len(running)
      /\ v = Last(running) /\ running' = Front(running) /\ PutBack(<<v>>) /\ Preempt({v})
      /\ call' = [call EXCEPT !.preempted = TRUE]
      /\ pc' = IF v = Current THEN "done" ELSE "running"
      /\ UNCHANGED <<requests, skippedWaiting, upd, flight, maxBatches>>
  BY DEF PreemptLast, MoreRunning, miscVars, configVars
<1>2. Queues /\ Places /\ Calls /\ Flights /\ Updates
  BY DEF QueueInv
<1>3. /\ DOMAIN call' = DOMAIN NoCall /\ call'.preempted = TRUE /\ call'.idx = call.idx
      /\ call'.order = call.order /\ call'.passed = call.passed
  BY <1>1, <1>2 DEF Calls, NoCall
<1>4. /\ call.passed = <<>> /\ call.idx \in Nat /\ call.order \in Seq(Requests)
      /\ Distinct(call.order)
      /\ \A y \in ToSet(call.order) : \E i \in 1 .. call.idx : running[i] = y
  BY <1>1, <1>2 DEF Calls
<1>5. /\ running \in Seq(Requests) /\ Distinct(running) /\ running # <<>>
      /\ running' \in Seq(Requests) /\ Distinct(running')
      /\ ToSet(running') = ToSet(running) \ {v} /\ Len(running') = Len(running) - 1
      /\ v \in ToSet(running) /\ Len(running) \in Nat /\ Len(running') \in Nat
      /\ \A i \in 1 .. Len(running') : running'[i] = running[i]
  <2>1. running \in Seq(Requests) /\ Distinct(running) /\ Len(running) \in Nat
    BY <1>2 DEF Queues
  <2>2. running # <<>>
    BY <1>1, <1>4, <2>1
  <2>3. QED
    BY <1>1, <2>1, <2>2, FrontQueue
<1>6. /\ <<v>> \in Seq(Requests) /\ Distinct(<<v>>) /\ ToSet(<<v>>) = {v}
  BY DEF Distinct, ToSet
<1>7. Queues' /\ Places' /\ ToSet(waiting') = {v} \cup ToSet(waiting)
  BY <1>1, <1>2, <1>5, <1>6, PutBackQueues
<1>8. Calls'
  <2>1. call.idx <= Len(running')
    BY <1>1, <1>4, <1>5
  <2>2. ASSUME NEW y \in ToSet(call.order)
        PROVE  (\E i \in 1 .. call.idx : running'[i] = y) /\ y \in ToSet(running')
    <3>1. PICK i \in 1 .. call.idx : running[i] = y
      BY <1>4
    <3>2. i \in 1 .. Len(running') /\ running'[i] = y
      BY <1>4, <1>5, <2>1, <3>1
    <3>3. y \in ToSet(running')
      BY <1>5, <3>2, RangeQueue
    <3>4. QED
      BY <3>1, <3>2, <3>3
  <2>3. pc' \in {"running", "done"}
    BY <1>1
  <2>4. QED
    BY <1>1, <1>2, <1>3, <1>4, <2>1, <2>2, <2>3 DEF Calls
<1>9. Flights'
  <2>1. pc' \in {"running", "done"} /\ \A i \in 1 .. Len(flight) : Held(i)'
    BY <1>1, <1>2, <1>3 DEF Calls, Flights, Held
  <2>2. \A x \in Requests : status'[x] = IF x = v THEN "preempted" ELSE status[x]
    BY <1>1 DEF Preempt
  <2>3. QED
    BY <1>1, <1>2, <1>7, <2>1, <2>2, FlightMembers, FlightsFrame
<1>10. Updates'
  BY <1>1, <1>2, UpdatesFrame
<1>11. QED
  BY <1>7, <1>8, <1>9, <1>10 DEF QueueInv

-----------------------------------------------------------------------------
(* schedule(): the waiting requests.                                       *)

\* popleft of the candidate.
LEMMA PopQueues ==
  ASSUME QueueInv, SomeWaiting, PopCandidate, pc = "waiting"
  PROVE  /\ Candidate \in Requests /\ Candidate \notin ToSet(call.passed)
         /\ Candidate \in ToSet(waiting) \cup ToSet(skippedWaiting)
         /\ waiting' \in Seq(Requests) /\ Distinct(waiting')
         /\ ToSet(waiting') = ToSet(waiting) \ {Candidate}
         /\ skippedWaiting' \in Seq(Requests) /\ Distinct(skippedWaiting')
         /\ ToSet(skippedWaiting') = ToSet(skippedWaiting) \ {Candidate}
<1>1. /\ waiting \in Seq(Requests) /\ skippedWaiting \in Seq(Requests)
      /\ Distinct(waiting) /\ Distinct(skippedWaiting)
      /\ ToSet(waiting) \cap ToSet(skippedWaiting) = {}
      /\ ToSet(waiting) \cap ToSet(call.passed) = {}
      /\ ToSet(skippedWaiting) \cap ToSet(call.passed) = {}
  BY DEF QueueInv, Queues, Line
<1>2. CASE skippedWaiting # <<>>
  <2>1. /\ Candidate = Head(skippedWaiting)
        /\ skippedWaiting' = Tail(skippedWaiting) /\ waiting' = waiting
    BY <1>2 DEF Candidate, PopCandidate
  <2>2. /\ ToSet(skippedWaiting) = {Head(skippedWaiting)} \cup ToSet(Tail(skippedWaiting))
        /\ Tail(skippedWaiting) \in Seq(Requests) /\ Distinct(Tail(skippedWaiting))
        /\ Head(skippedWaiting) \in Requests
        /\ Head(skippedWaiting) \notin ToSet(Tail(skippedWaiting))
    BY <1>1, <1>2, TailQueue
  <2>3. QED
    BY <1>1, <2>1, <2>2
<1>3. CASE skippedWaiting = <<>>
  <2>1. /\ waiting # <<>> /\ Candidate = Head(waiting)
        /\ waiting' = Tail(waiting) /\ skippedWaiting' = skippedWaiting
    BY <1>3 DEF Candidate, PopCandidate, SomeWaiting
  <2>2. /\ ToSet(waiting) = {Head(waiting)} \cup ToSet(Tail(waiting))
        /\ Tail(waiting) \in Seq(Requests) /\ Distinct(Tail(waiting))
        /\ Head(waiting) \in Requests /\ Head(waiting) \notin ToSet(Tail(waiting))
    BY <1>1, <2>1, TailQueue
  <2>3. QED
    BY <1>1, <2>1, <2>2
<1>4. QED
  BY <1>2, <1>3

\* The candidate is passed over, with another status if its load has begun.
LEMMA SkipQueues ==
  ASSUME QueueInv, MayAdmit, PopCandidate, call' = [call EXCEPT !.passed = Append(@, Candidate)],
         UNCHANGED <<requests, running, pc, upd, flight, maxBatches>>,
         \/ status' = status
         \/ /\ status[Candidate] \notin BlockedStatus
            /\ status' = [status EXCEPT ![Candidate] = "remote"]
  PROVE  QueueInv'
<1> DEFINE c == Candidate
<1>1. Queues /\ Places /\ Calls /\ Flights /\ Updates
  BY DEF QueueInv
<1>2. pc = "waiting" /\ SomeWaiting
  BY DEF MayAdmit
<1>3. /\ c \in Requests /\ c \notin ToSet(Line)
      /\ c \in ToSet(waiting) \cup ToSet(skippedWaiting)
      /\ waiting' \in Seq(Requests) /\ Distinct(waiting')
      /\ ToSet(waiting') = ToSet(waiting) \ {c}
      /\ skippedWaiting' \in Seq(Requests) /\ Distinct(skippedWaiting')
      /\ ToSet(skippedWaiting') = ToSet(skippedWaiting) \ {c}
  BY <1>2, PopQueues DEF Line
<1> HIDE DEF c
<1>4. /\ DOMAIN call' = DOMAIN NoCall /\ call'.preempted = call.preempted
      /\ call'.order = call.order /\ call'.passed = Append(call.passed, c)
  BY <1>1 DEF Calls, NoCall, c
<1>5. /\ Line \in Seq(Requests) /\ Distinct(Line) /\ Line' = Append(Line, c)
      /\ Leaving = {} /\ LeavingWaiting = {} /\ Leaving' = {} /\ LeavingWaiting' = {}
      /\ Async' = Async
  BY <1>1, <1>2, <1>4 DEF Queues, Line, Leaving, LeavingWaiting, Async
<1>6. Line' \in Seq(Requests) /\ Distinct(Line') /\ ToSet(Line') = ToSet(Line) \cup {c}
  BY <1>3, <1>5, AppendQueue
<1>7. Queues'
  BY <1>1, <1>3, <1>6 DEF Queues
<1>8. /\ status' \in [Requests -> Status] /\ status[c] \in BlockedStatus \cup Waits
      /\ status'[c] = status[c] \/ (status[c] \in Waits /\ status'[c] = "remote")
      /\ \A q \in Requests : q # c => status'[q] = status[q]
  BY <1>1, <1>3, <1>5 DEF Places, Place, Status, c
<1>9. /\ "remote" \in BlockedStatus /\ "finished" \notin BlockedStatus \cup Waits
      /\ "running" \notin BlockedStatus \cup Waits /\ "absent" \notin BlockedStatus \cup Waits
      /\ BlockedStatus \cap Waits = {}
  BY DEF BlockedStatus, Waits
<1>10. Places'
  BY <1>1, <1>3, <1>5, <1>6, <1>8, <1>9 DEF Places, Place
<1>11. Calls'
  BY <1>1, <1>2, <1>4 DEF Calls
<1>12. Flights'
  <2>1. \A i \in 1 .. Len(flight) : ~ Held(i)
    BY <1>1, <1>2, NoneHeld
  <2>2. \A i \in 1 .. Len(flight) : \A x \in ToSet(flight[i].order) : x # c
    BY <1>1, <1>8, <1>9, <2>1 DEF Flights, InStep, Waits
  <2>3. QED
    BY <1>1, <1>8, <2>1, <2>2, FlightMembers, FlightsFrame
<1>13. Updates'
  BY <1>1, <1>2, UpdatesFrame
<1>14. QED
  BY <1>7, <1>10, <1>11, <1>12, <1>13 DEF QueueInv

LEMMA SkipStepsQueues ==
  ASSUME QueueInv, SkipBlocked \/ SkipUndecided \/ \E r \in Requests : AdmitLoad(r)
  PROVE  QueueInv'
<1>1. CASE SkipBlocked \/ SkipUndecided
  <2>1. /\ MayAdmit /\ SkipCandidate
    BY <1>1 DEF SkipBlocked, SkipUndecided
  <2>2. QED
    BY <2>1, SkipQueues DEF SkipCandidate, miscVars, configVars
<1>2. ASSUME NEW r \in Requests, AdmitLoad(r)
      PROVE  QueueInv'
  <2>1. /\ MayAdmit /\ r = Candidate /\ status[r] \notin BlockedStatus /\ PopCandidate
        /\ status' = [status EXCEPT ![r] = "remote"]
        /\ call' = [call EXCEPT !.passed = Append(@, r)]
        /\ UNCHANGED <<requests, running, pc, upd, flight, maxBatches>>
    BY <1>2 DEF AdmitLoad, CanBeAdmitted, miscVars, configVars
  <2>2. QED
    BY <2>1, SkipQueues
<1>3. QED
  BY <1>1, <1>2

\* A blocked request is promoted where it stands.
LEMMA PromoteQueues ==
  ASSUME QueueInv, NEW r \in Requests, Promote(r)
  PROVE  QueueInv'
<1>1. /\ pc = "waiting" /\ status[r] \in {"remote", "grammar"}
      /\ \E st \in Waits : status' = [status EXCEPT ![r] = st]
      /\ UNCHANGED <<requests, waiting, skippedWaiting, running, pc, call, upd, flight, maxBatches>>
  BY DEF Promote, MayAdmit, Promotable, Waits, miscVars, configVars
<1>2. Queues /\ Places /\ Calls /\ Flights /\ Updates
  BY DEF QueueInv
<1>3. /\ Line' = Line /\ Leaving = {} /\ LeavingWaiting = {}
      /\ Leaving' = {} /\ LeavingWaiting' = {} /\ Async' = Async
  BY <1>1 DEF Line, Leaving, LeavingWaiting, Async
<1>4. Queues'
  BY <1>1, <1>2, <1>3, QueuesFrame
<1>5. Places'
  BY <1>1, <1>2, <1>3 DEF Places, Place, Waits, BlockedStatus, Status
<1>6. Calls'
  BY <1>1, <1>2 DEF Calls
<1>7. Flights'
  <2>1. \A i \in 1 .. Len(flight) : \A x \in ToSet(flight[i].order) : x # r
    BY <1>1, <1>2 DEF Flights, InStep
  <2>2. \A i \in 1 .. Len(flight) : Held(i) => Held(i)'
    BY <1>1 DEF Held
  <2>3. \A x \in Requests : x # r => status'[x] = status[x]
    BY <1>1, <1>2 DEF Places
  <2>4. QED
    BY <1>1, <1>2, <2>1, <2>2, <2>3, FlightMembers, FlightsFrame
<1>8. Updates'
  BY <1>1, <1>2, UpdatesFrame
<1>9. QED
  BY <1>4, <1>5, <1>6, <1>7, <1>8 DEF QueueInv

\* A candidate that is admitted runs, and is part of the step.
LEMMA AdmitQueues ==
  ASSUME QueueInv, NEW r \in Requests, Admit(r)
  PROVE  QueueInv'
<1>1. /\ pc = "waiting" /\ SomeWaiting /\ r = Candidate /\ status[r] \notin BlockedStatus
      /\ PopCandidate /\ status' = [status EXCEPT ![r] = "running"]
      /\ running' = Append(running, r)
      /\ UNCHANGED <<requests, pc, upd, flight, maxBatches>>
  BY DEF Admit, CanBeAdmitted, MayAdmit, miscVars, configVars
<1>2. Queues /\ Places /\ Calls /\ Flights /\ Updates
  BY DEF QueueInv
<1>3. /\ {"idx", "order", "passed", "preempted"} \subseteq DOMAIN call
      /\ DOMAIN call = DOMAIN NoCall
  BY <1>2 DEF Calls, NoCall
<1>4. /\ DOMAIN call' = DOMAIN NoCall /\ call'.preempted = call.preempted
      /\ call'.passed = call.passed /\ call'.order = Append(call.order, r)
  <2>1. PICK n, d, ld : call' = [call EXCEPT !.budget = @ - n, !.sched[r] = n,
                                             !.order = Append(@, r), !.spec[r] = d,
                                             !.loads = ld]
    <3>1. PICK m \in Matches(r) :
            LET done == computed[r] + m.ext
                n == AdmitTokens(r, done) IN
            call' = [call EXCEPT !.budget = @ - n, !.sched[r] = n, !.order = Append(@, r),
                                 !.spec[r] = IF Pads(r, done) THEN NumSpecTokens ELSE 0,
                                 !.loads = IF m.ext > 0 THEN @ \cup {r} ELSE @]
      BY Zenon DEF Admit
    <3> DEFINE done == computed[r] + m.ext
               n == AdmitTokens(r, done)
               d == IF Pads(r, done) THEN NumSpecTokens ELSE 0
               ld == IF m.ext > 0 THEN call.loads \cup {r} ELSE call.loads
    <3>2. call' = [call EXCEPT !.budget = @ - n, !.sched[r] = n, !.order = Append(@, r),
                               !.spec[r] = d, !.loads = ld]
      BY <3>1
    <3>3. QED
      BY <3>2, Zenon
  <2>2. QED
    BY <1>3, <2>1
<1>5. /\ r \notin ToSet(Line) /\ r \in ToSet(waiting) \cup ToSet(skippedWaiting)
      /\ waiting' \in Seq(Requests) /\ Distinct(waiting')
      /\ ToSet(waiting') = ToSet(waiting) \ {r}
      /\ skippedWaiting' \in Seq(Requests) /\ Distinct(skippedWaiting')
      /\ ToSet(skippedWaiting') = ToSet(skippedWaiting) \ {r}
  BY <1>1, PopQueues DEF Line
<1>6. /\ Line' = Line /\ Leaving = {} /\ LeavingWaiting = {}
      /\ Leaving' = {} /\ LeavingWaiting' = {} /\ Async' = Async
  BY <1>1, <1>4 DEF Line, Leaving, LeavingWaiting, Async
<1>7. status[r] \in Waits
  BY <1>1, <1>2, <1>5, <1>6 DEF Places, Place
<1>8. r \notin ToSet(running)
  BY <1>2, <1>6, <1>7 DEF Places, Place, Waits
<1>9. /\ running' \in Seq(Requests) /\ Distinct(running')
      /\ ToSet(running') = ToSet(running) \cup {r}
  BY <1>1, <1>2, <1>8, AppendQueue DEF Queues
<1>10. Queues'
  BY <1>2, <1>5, <1>6, <1>9 DEF Queues
<1>11. /\ status' \in [Requests -> Status] /\ status'[r] = "running"
       /\ \A q \in Requests : q # r => status'[q] = status[q]
  BY <1>1, <1>2 DEF Places, Status
<1>12. Places'
  <2>1. "running" \notin BlockedStatus \cup Waits
    BY DEF BlockedStatus, Waits
  <2>2. QED
    BY <1>1, <1>2, <1>5, <1>6, <1>7, <1>8, <1>9, <1>11, <2>1 DEF Places, Place
<1>13. Calls'
  <2>1. /\ call.order \in Seq(Requests) /\ Distinct(call.order)
        /\ ToSet(call.order) \subseteq ToSet(running)
    BY <1>1, <1>2 DEF Calls
  <2>2. /\ call'.order \in Seq(Requests) /\ Distinct(call'.order)
        /\ ToSet(call'.order) = ToSet(call.order) \cup {r}
    BY <1>4, <1>8, <2>1, AppendQueue
  <2>3. QED
    BY <1>1, <1>2, <1>4, <1>9, <2>1, <2>2 DEF Calls
<1>14. Flights'
  <2>1. \A i \in 1 .. Len(flight) : ~ Held(i)
    BY <1>1, <1>2, NoneHeld
  <2>2. QED
    BY <1>1, <1>2, <1>11, <2>1, FlightMembers, FlightsFrame
<1>15. Updates'
  BY <1>1, <1>2, UpdatesFrame
<1>16. QED
  BY <1>10, <1>12, <1>13, <1>14, <1>15 DEF QueueInv

\* What was passed over goes back, ahead of what was skipped before.
LEMMA EndWaitingQueues ==
  ASSUME QueueInv, EndWaiting
  PROVE  QueueInv'
<1>1. /\ pc = "waiting" /\ pc' = "done" /\ skippedWaiting' = call.passed \o skippedWaiting
      /\ UNCHANGED <<requests, status, waiting, running, call, upd, flight, maxBatches>>
  BY DEF EndWaiting, Requeued, configVars
<1>2. Queues /\ Places /\ Calls /\ Flights /\ Updates
  BY DEF QueueInv
<1>3. /\ Line = call.passed /\ Line' = <<>> /\ Leaving = {} /\ LeavingWaiting = {}
      /\ Leaving' = {} /\ LeavingWaiting' = {} /\ Async' = Async
  BY <1>1 DEF Line, Leaving, LeavingWaiting, Async
<1>4. ToSet(<<>>) = {} /\ <<>> \in Seq(Requests) /\ Distinct(<<>>)
  BY DEF ToSet, Distinct
<1>5. /\ skippedWaiting' \in Seq(Requests) /\ Distinct(skippedWaiting')
      /\ ToSet(skippedWaiting') = ToSet(Line) \cup ToSet(skippedWaiting)
  BY <1>1, <1>2, <1>3, JoinQueues DEF Queues
<1>6. Queues'
  BY <1>1, <1>2, <1>3, <1>4, <1>5 DEF Queues
<1>7. Places'
  BY <1>1, <1>2, <1>3, <1>4, <1>5 DEF Places, Place
<1>8. Calls'
  BY <1>1, <1>2 DEF Calls
<1>9. Flights'
  <2>1. \A i \in 1 .. Len(flight) : Held(i) => Held(i)'
    BY <1>1 DEF Held
  <2>2. QED
    BY <1>1, <1>2, <2>1, FlightsFrame
<1>10. Updates'
  BY <1>1, <1>2, UpdatesFrame
<1>11. QED
  BY <1>6, <1>7, <1>8, <1>9, <1>10 DEF QueueInv

-----------------------------------------------------------------------------
(* The end of schedule(), and update_from_output().                        *)

\* What the step handed to the model runner holds.
StepSeq == IF DeferBlockFree /\ ToSet(call.order) # {} THEN schedSeq + 1 ELSE schedSeq
StepPartial == {r \in ToSet(call.order) :
                  [q \in Requests |-> computed[q] + call.sched[q]][r] < tokens[r] + holders[r]}
NewStep(step) ==
  /\ step.seq = StepSeq /\ step.order = call.order
  /\ step.sched = call.sched /\ step.spec = call.spec
  /\ step.samples = ToSet(call.order) \ StepPartial
  /\ step.uses = UNION {{r} \X held[r] : r \in ToSet(call.order)}
  /\ step.loads = call.loads

LEMMA StepHandedOut ==
  ASSUME FinishSchedule
  PROVE  \E step : NewStep(step) /\ flight' = Append(flight, step)
<1> DEFINE samples == ToSet(call.order) \ StepPartial
           uses == UNION {{r} \X held[r] : r \in ToSet(call.order)}
           step == [seq |-> StepSeq, order |-> call.order, sched |-> call.sched,
                    spec |-> call.spec, samples |-> samples, uses |-> uses,
                    loads |-> call.loads]
<1>1. flight' = Append(flight, step)
  BY Zenon DEF FinishSchedule, StepSeq, StepPartial
<1> HIDE DEF samples, uses
<1>2. /\ step.seq = StepSeq /\ step.order = call.order
      /\ step.sched = call.sched /\ step.spec = call.spec
      /\ step.samples = samples /\ step.uses = uses /\ step.loads = call.loads
  OBVIOUS
<1> HIDE DEF step
<1>3. NewStep(step)
  BY <1>2 DEF NewStep, samples, uses
<1>4. QED
  BY <1>1, <1>3

LEMMA FinishScheduleQueues ==
  ASSUME QueueInv, FinishSchedule
  PROVE  QueueInv'
<1>1. /\ pc = "done" /\ pc' = "idle" /\ call' = NoCall
      /\ UNCHANGED <<requests, status, waiting, skippedWaiting, running, upd, maxBatches>>
  BY DEF FinishSchedule, queueVars, configVars
<1>2. Queues /\ Places /\ Calls /\ Flights /\ Updates
  BY DEF QueueInv
<1>3. PICK step : step.order = call.order /\ flight' = Append(flight, step)
  BY StepHandedOut DEF NewStep
<1>4. /\ Line' = Line /\ Leaving' = Leaving /\ LeavingWaiting' = LeavingWaiting /\ Leaving = {}
  BY <1>1 DEF Line, Leaving, LeavingWaiting
<1>5. Queues' /\ Places'
  BY <1>1, <1>2, <1>4, QueuesFrame, PlacesFrame
<1>6. PICK T : flight \in Seq(T)
  BY <1>2 DEF Flights
<1>7. /\ flight' \in Seq(T \cup {step}) /\ Len(flight') = Len(flight) + 1 /\ Len(flight) \in Nat
      /\ \A i \in 1 .. Len(flight) : flight'[i] = flight[i]
      /\ flight'[Len(flight) + 1] = step
  BY <1>3, <1>6
<1>8. Calls'
  BY <1>1, <1>2 DEF Calls
<1>9. Flights'
  <2>1. /\ Len(flight) < maxBatches /\ (maxBatches = 1 \/ maxBatches = 2)
        /\ call.order \in Seq(Requests) /\ Distinct(call.order)
        /\ ToSet(call.order) \subseteq ToSet(running)
    BY <1>1, <1>2 DEF Calls
  <2>2. Len(flight') \in Nat /\ Len(flight') <= maxBatches'
    BY <1>1, <1>7, <2>1
  <2>3. ASSUME NEW i \in 1 .. Len(flight')
        PROVE  /\ flight'[i].order \in Seq(Requests) /\ Distinct(flight'[i].order)
               /\ \A x \in ToSet(flight'[i].order) :
                    InStep(x, Held(i))'
    <3>1. CASE i = Len(flight) + 1
      <4>1. \A x \in ToSet(call.order) : status'[x] = "running"
        BY <1>1, <1>2, <1>4, <2>1, RangeQueue DEF Places, Place, Queues
      <4>2. QED
        BY <1>3, <1>7, <2>1, <3>1, <4>1 DEF InStep
    <3>2. CASE i \in 1 .. Len(flight)
      <4>1. Held(i) => Len(flight') = 2
        BY <1>7, <2>1, <3>2 DEF Held
      <4>2. Held(i) => Held(i)'
        BY <4>1 DEF Held
      <4>3. flight'[i] = flight[i]
        BY <1>7, <3>2
      <4>4. /\ flight[i].order \in Seq(Requests) /\ Distinct(flight[i].order)
            /\ \A x \in ToSet(flight[i].order) :
                 InStep(x, Held(i))
        BY <1>2, <3>2 DEF Flights
      <4>5. QED
        BY <1>1, <4>2, <4>3, <4>4 DEF InStep
    <3>3. QED
      BY <1>7, <2>3, <3>1, <3>2
  <2>4. QED
    BY <1>7, <2>2, <2>3 DEF Flights
<1>10. Updates'
  BY <1>1, <1>2, UpdatesFrame
<1>11. QED
  BY <1>5, <1>8, <1>9, <1>10 DEF QueueInv

\* The output of the oldest step: what it may hold of preempted requests was preempted
\* by the step after, so no step that is still in flight holds one.
LEMMA BeginStepQueues ==
  ASSUME QueueInv, pc = "idle", flight # <<>>, NEW skip, NEW failing, BeginStep(skip, failing)
  PROVE  QueueInv'
<1>1. /\ pc' = "update" /\ flight' = Tail(flight)
      /\ UNCHANGED <<requests, status, waiting, skippedWaiting, running, call, maxBatches>>
  BY DEF BeginStep, queueVars, miscVars, configVars
<1>2. /\ DOMAIN upd' = DOMAIN NoUpdate /\ upd'.todo = Head(flight).order
      /\ upd'.stopped = {} /\ upd'.stoppedWaiting = {}
  BY DEF BeginStep, NoUpdate
<1>3. Queues /\ Places /\ Calls /\ Flights /\ Updates
  BY DEF QueueInv
<1>4. /\ Line' = Line /\ Leaving' = Leaving /\ LeavingWaiting' = LeavingWaiting
  BY <1>1, <1>2 DEF Line, Leaving, LeavingWaiting
<1>5. Queues' /\ Places'
  BY <1>1, <1>3, <1>4, QueuesFrame, PlacesFrame
<1>6. PICK T : flight \in Seq(T)
  BY <1>3 DEF Flights
<1>7. /\ Len(flight) \in Nat \ {0} /\ Head(flight) = flight[1]
      /\ flight' \in Seq(T) /\ Len(flight') = Len(flight) - 1
      /\ \A i \in 1 .. Len(flight') : flight'[i] = flight[i + 1]
  BY <1>1, <1>6
<1>8. Len(flight) <= maxBatches /\ (maxBatches = 1 \/ maxBatches = 2)
  BY <1>3 DEF Calls, Flights
<1>9. Calls'
  BY <1>1, <1>3, <1>7, <1>8 DEF Calls
<1>10. Flights'
  <2>1. ASSUME NEW i \in 1 .. Len(flight')
        PROVE  /\ flight'[i].order \in Seq(Requests) /\ Distinct(flight'[i].order)
               /\ \A x \in ToSet(flight'[i].order) : status'[x] \in {"running", "finished"}
    <3>1. i + 1 \in 1 .. Len(flight) /\ i + 1 # 1 /\ flight'[i] = flight[i + 1]
      BY <1>7
    <3>2. ~ Held(i + 1)
      BY <3>1 DEF Held
    <3>3. QED
      BY <1>1, <1>3, <3>1, <3>2 DEF Flights, InStep
  <2>2. Len(flight') \in Nat /\ Len(flight') <= maxBatches'
    BY <1>1, <1>7, <1>8
  <2>3. QED
    BY <1>7, <2>1, <2>2 DEF Flights, InStep
<1>11. Updates'
  <2>1. /\ flight[1].order \in Seq(Requests) /\ Distinct(flight[1].order)
        /\ \A x \in ToSet(flight[1].order) : InStep(x, Held(1))
    BY <1>3, <1>7 DEF Flights
  <2>2. Held(1) => Async'
    BY <1>1, <1>8 DEF Held, Async
  <2>3. QED
    BY <1>1, <1>2, <1>7, <2>1, <2>2 DEF Updates, InStep
<1>12. QED
  BY <1>5, <1>9, <1>10, <1>11 DEF QueueInv

\* The request whose output is next.
LEMMA NextOutput ==
  ASSUME QueueInv, MoreOutputs
  PROVE  /\ Sampler \in Requests /\ Sampler \in ToSet(upd.todo)
         /\ Tail(upd.todo) \in Seq(Requests) /\ Distinct(Tail(upd.todo))
         /\ ToSet(Tail(upd.todo)) = ToSet(upd.todo) \ {Sampler}
         /\ {"todo", "stopped", "stoppedWaiting"} \subseteq DOMAIN upd
         /\ DOMAIN upd = DOMAIN NoUpdate
<1>1. /\ upd.todo \in Seq(Requests) /\ Distinct(upd.todo) /\ upd.todo # <<>>
      /\ DOMAIN upd = DOMAIN NoUpdate
  BY DEF QueueInv, Updates, MoreOutputs
<1>2. /\ ToSet(upd.todo) = {Head(upd.todo)} \cup ToSet(Tail(upd.todo))
      /\ Head(upd.todo) \in Requests /\ Tail(upd.todo) \in Seq(Requests)
      /\ Distinct(Tail(upd.todo)) /\ Head(upd.todo) \notin ToSet(Tail(upd.todo))
  BY <1>1, TailQueue
<1>3. {"todo", "stopped", "stoppedWaiting"} \subseteq DOMAIN NoUpdate
  BY DEF NoUpdate
<1>4. QED
  BY <1>1, <1>2, <1>3 DEF Sampler

\* An output that is passed over, or after which the request goes on.
LEMMA GoesOnQueues ==
  ASSUME QueueInv, IgnoreOutput \/ \E r \in Requests : OutputGoesOn(r)
  PROVE  QueueInv'
<1>1. /\ MoreOutputs /\ pc = "update" /\ upd' = [upd EXCEPT !.todo = Tail(@)]
      /\ UNCHANGED <<requests, status, waiting, skippedWaiting, running, pc, call, flight,
                     maxBatches>>
  BY DEF IgnoreOutput, OutputGoesOn, MoreOutputs, queueVars, miscVars, configVars
<1>2. Queues /\ Places /\ Calls /\ Flights /\ Updates
  BY DEF QueueInv
<1>3. /\ DOMAIN upd' = DOMAIN NoUpdate /\ upd'.todo = Tail(upd.todo)
      /\ upd'.stopped = upd.stopped /\ upd'.stoppedWaiting = upd.stoppedWaiting
  BY <1>1, NextOutput
<1>4. /\ Line' = Line /\ Leaving' = Leaving /\ LeavingWaiting' = LeavingWaiting
  BY <1>1, <1>3 DEF Line, Leaving, LeavingWaiting
<1>5. Queues' /\ Places'
  BY <1>1, <1>2, <1>4, QueuesFrame, PlacesFrame
<1>6. Calls'
  BY <1>1, <1>2 DEF Calls
<1>7. Flights'
  <2>1. \A i \in 1 .. Len(flight) : Held(i) => Held(i)'
    BY <1>1 DEF Held
  <2>2. QED
    BY <1>1, <1>2, <2>1, FlightsFrame
<1>8. Updates'
  <2>1. \A x \in ToSet(upd'.todo) : x \in ToSet(upd.todo)
    BY <1>1, <1>3, NextOutput
  <2>2. QED
    BY <1>1, <1>2, <1>3, <2>1, NextOutput DEF Updates, InStep, Async
<1>9. QED
  BY <1>5, <1>6, <1>7, <1>8 DEF QueueInv

\* A request that stops leaves its queue at the end of the update.  A session may be
\* back in another one by then.
LEMMA StopsQueues ==
  ASSUME QueueInv, NEW r \in Requests, MoreOutputs, r = Sampler, ~ Ignored(r), Stopped(r),
         NEW st \in {"finished", "waiting", "streaming"},
         status' = [q \in Requests |-> IF q = r THEN st ELSE status[q]],
         st = "finished" => UNCHANGED <<waiting, skippedWaiting>>,
         st # "finished" => r \in Sessions /\ Enqueue(r, st),
         requests' \subseteq requests, UNCHANGED <<running, pc, call, flight, maxBatches>>
  PROVE  QueueInv'
<1>1. Queues /\ Places /\ Calls /\ Flights /\ Updates
  BY DEF QueueInv
<1>2. pc = "update" /\ r \in ToSet(upd.todo) /\ status[r] # "finished" /\ r \in requests
  BY NextOutput DEF MoreOutputs, Ignored
<1>3. status[r] = "running" \/ (status[r] = "preempted" /\ Async /\ r \in ToSet(waiting))
  BY <1>1, <1>2 DEF Updates, InStep
<1>4. st # "finished" => status[r] = "running" /\ ~ Async
  BY <1>1, <1>2, <1>3 DEF Places, Place
<1>5. /\ DOMAIN upd' = DOMAIN NoUpdate /\ upd'.todo = Tail(upd.todo)
      /\ upd'.stopped = IF status[r] = "running" THEN upd.stopped \cup {r} ELSE upd.stopped
      /\ upd'.stoppedWaiting = IF status[r] = "running" THEN upd.stoppedWaiting
                               ELSE upd.stoppedWaiting \cup {r}
  BY NextOutput DEF Stopped
<1>6. /\ Leaving = upd.stopped /\ Leaving' = upd'.stopped
      /\ LeavingWaiting = upd.stoppedWaiting /\ LeavingWaiting' = upd'.stoppedWaiting
      /\ Line = <<>> /\ Line' = <<>> /\ ToSet(<<>>) = {} /\ Async' = Async
  BY <1>2 DEF Leaving, LeavingWaiting, Line, ToSet, Async
<1>7. /\ status[r] = "running" => /\ r \notin ToSet(waiting) /\ r \notin ToSet(skippedWaiting)
                                  /\ r \in ToSet(running) /\ r \notin Leaving
      /\ status[r] = "preempted" => r \notin ToSet(running) \ Leaving
      /\ r \in ToSet(waiting) => r \notin ToSet(skippedWaiting)
      /\ r \notin LeavingWaiting
  <2>1. "running" \notin BlockedStatus \cup Waits
    BY DEF BlockedStatus, Waits
  <2>2. QED
    BY <1>1, <1>2, <2>1 DEF Places, Place, Queues
<1>8. /\ Queues'
      /\ st = "finished" => waiting' = waiting /\ skippedWaiting' = skippedWaiting
      /\ st = "streaming" => /\ ToSet(skippedWaiting') = ToSet(skippedWaiting) \cup {r}
                             /\ waiting' = waiting
      /\ st = "waiting" => /\ ToSet(waiting') = ToSet(waiting) \cup {r}
                           /\ skippedWaiting' = skippedWaiting
  <2>1. CASE st = "finished"
    <3>1. Queues'
      BY <1>1, <1>6, <2>1, QueuesFrame
    <3>2. QED
      BY <2>1, <3>1
  <2>2. CASE st # "finished"
    <3>1. /\ "streaming" \in BlockedStatus /\ "waiting" \notin BlockedStatus
      BY DEF BlockedStatus
    <3>2. r \notin ToSet(waiting) \cup ToSet(skippedWaiting) \cup ToSet(Line)
      BY <1>4, <1>6, <1>7, <2>2
    <3>3. QED
      BY <1>1, <1>6, <2>2, <3>1, <3>2, EnqueueQueues
  <2>3. QED
    BY <2>1, <2>2
<1>9. /\ status' \in [Requests -> Status] /\ status'[r] = st
      /\ \A q \in Requests : q # r => status'[q] = status[q]
  BY <1>1 DEF Places, Status
<1>10. ASSUME NEW q \in Requests
       PROVE  Place(q)'
  <2>1. Place(q)
    BY <1>1 DEF Places
  <2>2. CASE q # r
    BY <1>5, <1>6, <1>8, <1>9, <2>1, <2>2 DEF Place
  <2>3. CASE q = r /\ status[r] = "running"
    BY <1>2, <1>4, <1>5, <1>6, <1>7, <1>8, <1>9, <2>1, <2>3 DEF Place, Waits, BlockedStatus
  <2>4. CASE q = r /\ status[r] = "preempted"
    BY <1>3, <1>4, <1>5, <1>6, <1>7, <1>8, <1>9, <2>1, <2>4 DEF Place, Waits, BlockedStatus
  <2>5. QED
    BY <1>3, <2>2, <2>3, <2>4
<1>11. Places'
  BY <1>1, <1>9, <1>10 DEF Places
<1>12. Calls'
  BY <1>1, <1>2, OutsideCalls
<1>13. Flights'
  <2>1. \A i \in 1 .. Len(flight) : ~ Held(i)
    BY <1>1, <1>2, NoneHeld
  <2>2. CASE st = "finished"
    BY <1>1, <1>9, <2>1, <2>2, FlightMembers, FlightsFrame
  <2>3. CASE st # "finished"
    <3>1. Len(flight) < maxBatches /\ (maxBatches = 1 \/ maxBatches = 2) /\ Len(flight) \in Nat
      BY <1>1, <1>2 DEF Calls, Flights
    <3>2. Len(flight) = 0
      BY <1>4, <2>3, <3>1 DEF Async
    <3>3. QED
      BY <1>1, <3>2 DEF Flights
  <2>4. QED
    BY <2>2, <2>3
<1>14. Updates'
  <2>1. ASSUME NEW x \in ToSet(upd'.todo)
        PROVE  InStep(x, Async)'
    <3>1. x \in ToSet(upd.todo) /\ x # r /\ x \in Requests
      BY <1>1, <1>2, <1>5, <2>1, NextOutput, RangeQueue DEF Updates
    <3>2. InStep(x, Async) /\ status'[x] = status[x]
      BY <1>1, <1>2, <1>9, <3>1 DEF Updates
    <3>3. ToSet(waiting) \subseteq ToSet(waiting')
      BY <1>8
    <3>4. QED
      BY <1>6, <3>2, <3>3 DEF InStep
  <2>2. QED
    BY <1>1, <1>2, <1>5, <2>1, NextOutput DEF Updates
<1>15. QED
  BY <1>8, <1>11, <1>12, <1>13, <1>14 DEF QueueInv

LEMMA OutputStopsQueues ==
  ASSUME QueueInv, NEW r \in Requests,
         OutputFinishes(r) \/ SessionGoesOn(r) \/ SessionPauses(r)
  PROVE  QueueInv'
<1>1. status \in [Requests -> Status]
  BY DEF QueueInv, Places
<1>2. CASE OutputFinishes(r)
  <2>1. /\ MoreOutputs /\ r = Sampler /\ ~ Ignored(r) /\ Stopped(r)
        /\ UNCHANGED <<waiting, skippedWaiting, running, pc, call, flight, maxBatches>>
        /\ FreeRequests({r}, {})
    BY <1>2 DEF OutputFinishes, configVars
  <2>2. /\ status' = [q \in Requests |-> IF q = r THEN "finished" ELSE status[q]]
        /\ requests' \subseteq requests
    BY <2>1 DEF FreeRequests
  <2>3. QED
    BY <2>1, <2>2, StopsQueues
<1>3. CASE SessionGoesOn(r)
  <2>1. /\ MoreOutputs /\ r = Sampler /\ ~ Ignored(r) /\ Stopped(r) /\ r \in Sessions
        /\ Enqueue(r, "waiting") /\ status' = [status EXCEPT ![r] = "waiting"]
        /\ UNCHANGED <<requests, running, pc, call, flight, maxBatches>>
    BY <1>3 DEF SessionGoesOn, miscVars, configVars
  <2>2. status' = [q \in Requests |-> IF q = r THEN "waiting" ELSE status[q]]
    BY <1>1, <2>1
  <2>3. QED
    BY <2>1, <2>2, StopsQueues
<1>4. CASE SessionPauses(r)
  <2>1. /\ MoreOutputs /\ r = Sampler /\ ~ Ignored(r) /\ Stopped(r) /\ r \in Sessions
        /\ Enqueue(r, "streaming") /\ status' = [status EXCEPT ![r] = "streaming"]
        /\ UNCHANGED <<requests, running, pc, call, flight, maxBatches>>
    BY <1>4 DEF SessionPauses, miscVars, configVars
  <2>2. status' = [q \in Requests |-> IF q = r THEN "streaming" ELSE status[q]]
    BY <1>1, <2>1
  <2>3. QED
    BY <2>1, <2>2, StopsQueues
<1>5. QED
  BY <1>2, <1>3, <1>4

\* remove_requests: what has stopped is in no queue any more.
LEMMA RemoveStoppedQueues ==
  ASSUME QueueInv, RemoveStopped
  PROVE  QueueInv'
<1>1. /\ pc = "update" /\ pc' = "failures"
      /\ running' = Without(running, upd.stopped) /\ waiting' = Without(waiting, upd.stoppedWaiting)
      /\ UNCHANGED <<requests, status, skippedWaiting, call, upd, flight, maxBatches>>
  BY DEF RemoveStopped, miscVars, configVars
<1>2. Queues /\ Places /\ Calls /\ Flights /\ Updates
  BY DEF QueueInv
<1>3. /\ Leaving = upd.stopped /\ LeavingWaiting = upd.stoppedWaiting /\ Leaving' = {}
      /\ LeavingWaiting' = {} /\ Line = <<>> /\ Line' = <<>> /\ ToSet(<<>>) = {} /\ Async' = Async
  BY <1>1 DEF Leaving, LeavingWaiting, Line, ToSet, Async
<1>4. /\ running' \in Seq(Requests) /\ ToSet(running') = ToSet(running) \ Leaving
      /\ Distinct(running')
      /\ waiting' \in Seq(Requests) /\ ToSet(waiting') = ToSet(waiting) \ LeavingWaiting
      /\ Distinct(waiting')
  BY <1>1, <1>2, <1>3, WithoutQueue DEF Queues
<1>5. Queues'
  BY <1>1, <1>2, <1>3, <1>4 DEF Queues
<1>6. Places'
  <2>1. "finished" \notin Waits
    BY DEF Waits
  <2>2. QED
    BY <1>1, <1>2, <1>3, <1>4, <2>1 DEF Places, Place
<1>7. Calls'
  BY <1>1, <1>2 DEF Calls
<1>8. Flights'
  <2>1. \A i \in 1 .. Len(flight) : ~ Held(i)
    BY <1>1, <1>2, NoneHeld
  <2>2. QED
    BY <1>1, <1>2, <2>1, FlightsFrame
<1>9. Updates'
  BY <1>1, <1>2 DEF Updates
<1>10. QED
  BY <1>5, <1>6, <1>7, <1>8, <1>9 DEF QueueInv

\* A step that leaves the queues alone, outside a call or at the end of an update.
LEMMA QuietQueues ==
  ASSUME QueueInv, UNCHANGED <<status, waiting, skippedWaiting, running, call, flight, maxBatches>>,
         requests' \subseteq requests,
         \/ UNCHANGED <<pc, upd>>
         \/ pc = "failures" /\ pc' = "transfers" /\ UNCHANGED upd
         \/ pc = "transfers" /\ pc' = "idle" /\ upd' = NoUpdate
  PROVE  QueueInv'
<1>1. Queues /\ Places /\ Calls /\ Flights /\ Updates
  BY DEF QueueInv
<1>2. /\ Line' = Line /\ Leaving' = Leaving /\ LeavingWaiting' = LeavingWaiting /\ Async' = Async
  BY DEF Line, Leaving, LeavingWaiting, Async
<1>3. Queues'
  BY <1>1, <1>2, QueuesFrame
<1>4. Places'
  BY <1>1, <1>2 DEF Places, Place
<1>5. Calls'
  BY <1>1 DEF Calls
<1>6. Flights'
  <2>1. \A i \in 1 .. Len(flight) : Held(i) => Held(i)'
    BY DEF Held
  <2>2. QED
    BY <1>1, <2>1, FlightsFrame
<1>7. Updates'
  BY <1>1, <1>2 DEF Updates, InStep
<1>8. QED
  BY <1>3, <1>4, <1>5, <1>6, <1>7 DEF QueueInv

LEMMA FailRequestsQueues ==
  ASSUME QueueInv, FailRequests
  PROVE  QueueInv'
<1>1. pc = "failures" /\ pc' = "transfers" /\ UNCHANGED <<call, upd, flight, maxBatches>>
  BY DEF FailRequests, configVars
<1>2. CASE \E r \in upd.failing : status[r] # "finished"
  BY <1>1, <1>2, FinishRequestQueues DEF FailRequests
<1>3. CASE ~ \E r \in upd.failing : status[r] # "finished"
  <2>1. UNCHANGED <<requests, status, waiting, skippedWaiting, running>>
    BY <1>3 DEF FailRequests, queueVars
  <2>2. QED
    BY <1>1, <2>1, QuietQueues
<1>4. QED
  BY <1>2, <1>3

LEMMA FinishUpdateQueues ==
  ASSUME QueueInv, NEW R, NEW S, FinishUpdate(R, S)
  PROVE  QueueInv'
<1>1. /\ pc = "transfers" /\ pc' = "idle" /\ upd' = NoUpdate /\ requests' \subseteq requests
      /\ UNCHANGED <<status, waiting, skippedWaiting, running, call, flight, maxBatches>>
  BY DEF FinishUpdate, miscVars, configVars
<1>2. QED
  BY <1>1, QuietQueues

LEMMA EndsQueues ==
  ASSUME QueueInv, NEW r \in Requests, EndSession(r) \/ Abort(r)
  PROVE  QueueInv'
<1>1. pc = "idle" /\ UNCHANGED <<pc, call, upd, flight, maxBatches>>
  BY DEF EndSession, Abort, Outside, OutsideVars, configVars
<1>2. CASE FinishRequest(r)
  BY <1>1, <1>2, FinishRequestQueues
<1>3. CASE UNCHANGED queueVars
  BY <1>1, <1>3, QuietQueues DEF queueVars
<1>4. QED
  BY <1>2, <1>3 DEF EndSession, Abort

LEMMA RequestStepQueues ==
  ASSUME QueueInv, RequestStep
  PROVE  QueueInv'
<1>1. ASSUME NEW r \in Requests, GrammarCompiled(r)
      PROVE  QueueInv'
  BY <1>1, QuietQueues DEF GrammarCompiled, OutsideVars, queueVars, configVars
<1>2. ASSUME NEW state \in PauseState, Pause(state)
      PROVE  QueueInv'
  BY <1>2, QuietQueues DEF Pause, OutsideVars, queueVars, configVars
<1>3. QED
  BY <1>1, <1>2, AddRequestQueues, SendUpdateQueues, EndsQueues, ResetPrefixCacheQueues
     DEF RequestStep
-----------------------------------------------------------------------------
(* Every step.                                                             *)

LEMMA QueueNext == QueueInv /\ [Next]_vars => QueueInv'
<1> SUFFICES ASSUME QueueInv, [Next]_vars
             PROVE  QueueInv'
  OBVIOUS
<1>1. CASE RequestStep
  BY <1>1, RequestStepQueues
<1>2. CASE \E throttle \in BOOLEAN : BeginSchedule(throttle)
  BY <1>2, BeginScheduleQueues
<1>3. CASE ScheduleStep
  <2>1. CASE SkipRunning \/ \E r \in Requests : ScheduleRunning(r)
    BY <2>1, RunningLoopQueues
  <2>2. CASE EndRunning \/ \E r \in Requests : PreemptLast(r)
    BY <2>2, EndRunningQueues, PreemptLastQueues
  <2>3. CASE SkipBlocked \/ SkipUndecided \/ \E r \in Requests : AdmitLoad(r)
    BY <2>3, SkipStepsQueues
  <2>4. CASE \E r \in Requests : Promote(r) \/ Admit(r)
    BY <2>4, PromoteQueues, AdmitQueues
  <2>5. CASE EndWaiting \/ FinishSchedule
    BY <2>5, EndWaitingQueues, FinishScheduleQueues
  <2>6. QED
    BY <1>3, <2>1, <2>2, <2>3, <2>4, <2>5 DEF ScheduleStep
<1>4. CASE BeginUpdate \/ FailLoad \/ FailSyncLoad
  <2>1. /\ pc = "idle" /\ flight # <<>>
        /\ \E skip, failing : BeginStep(skip, failing)
    BY <1>4 DEF BeginUpdate, FailLoad, FailSyncLoad
  <2>2. QED
    BY <2>1, BeginStepQueues
<1>5. CASE UpdateStep
  <2>1. CASE IgnoreOutput \/ \E r \in Requests : OutputGoesOn(r)
    BY <2>1, GoesOnQueues
  <2>2. CASE \E r \in Requests : OutputFinishes(r) \/ SessionGoesOn(r) \/ SessionPauses(r)
    BY <2>2, OutputStopsQueues
  <2>3. CASE RemoveStopped \/ FailRequests
    BY <2>3, RemoveStoppedQueues, FailRequestsQueues
  <2>4. CASE \E R, S \in SUBSET Requests : FinishUpdate(R, S)
    BY <2>4, FinishUpdateQueues
  <2>5. QED
    BY <1>5, <2>1, <2>2, <2>3, <2>4 DEF UpdateStep
<1>6. CASE UNCHANGED vars
  BY <1>6, QuietQueues DEF vars, queueVars, miscVars, configVars
<1>7. QED
  BY <1>1, <1>2, <1>3, <1>4, <1>5, <1>6 DEF Next

\* Each queue names each request once, and the queues, the step in the making, the
\* steps in flight and the output under way agree with the requests' statuses, in
\* every behaviour of the scheduler.
THEOREM QueuesAgree == Spec => []QueueInv
<1>1. QED
  BY QueueInit, QueueNext, PTL DEF Spec

\* A request that has not finished is in the queue its status calls for: no skip,
\* preemption, promotion or stop drops one (scheduler.py:1029-1030).
THEOREM RequestsAreKept == Spec => []NoRequestIsLost
<1>1. QueueInv => NoRequestIsLost
  <2> SUFFICES ASSUME QueueInv, ~ Settling, NEW r \in Requests, Alive(r)
               PROVE  IF status[r] = "running" THEN InQueue(running, r) ELSE InQueues(r)
    BY DEF NoRequestIsLost
  <2>1. Queues /\ Place(r) /\ status[r] \in Status
    BY DEF QueueInv, Places
  <2>2. status[r] \notin {"absent", "finished"}
    BY <2>1 DEF Alive, Place
  <2>3. CASE status[r] = "running"
    BY <2>1, <2>3, RangeQueue DEF Place, Queues, InQueue
  <2>4. CASE status[r] # "running"
    <3>1. r \in ToSet(waiting) \cup ToSet(skippedWaiting) \cup ToSet(Line)
      BY <2>1, <2>2, <2>4 DEF Place, Waits, BlockedStatus, Status
    <3>2. r \in ToSet(Line) => InQueue(call.passed, r)
      BY <2>1, RangeQueue DEF Queues, Line, InQueue, ToSet
    <3>3. QED
      BY <2>1, <2>4, <3>1, <3>2, RangeQueue DEF Queues, InQueues, InQueue
  <2>5. QED
    BY <2>3, <2>4
<1>2. QED
  BY <1>1, QueuesAgree, PTL
-----------------------------------------------------------------------------
(* The sessions that wait for input, and the slots of the model runner.    *)

InStatus(S) == {r \in Requests : status[r] \in S}

LEMMA StatusCounted ==
  ASSUME NEW S
  PROVE  IsFiniteSet(InStatus(S)) /\ Cardinality(InStatus(S)) \in Nat
<1>1. InStatus(S) \subseteq Requests /\ IsFiniteSet(Requests)
  BY DEF InStatus, SchedulerAssumption
<1>2. QED
  BY <1>1, FS_Subset, FS_CardinalityType

\* The status of one request decides by how much a count changes.
LEMMA OneMore ==
  ASSUME NEW S, NEW r \in Requests, status[r] \notin S, status'[r] \in S,
         \A q \in Requests \ {r} : status'[q] \in S <=> status[q] \in S
  PROVE  Cardinality(InStatus(S))' = Cardinality(InStatus(S)) + 1
<1>1. InStatus(S)' = InStatus(S) \cup {r} /\ r \notin InStatus(S)
  BY DEF InStatus
<1>2. QED
  BY <1>1, StatusCounted, FS_AddElement

LEMMA OneLess ==
  ASSUME NEW S, NEW r \in Requests, status[r] \in S, status'[r] \notin S,
         \A q \in Requests \ {r} : status'[q] \in S <=> status[q] \in S
  PROVE  Cardinality(InStatus(S))' = Cardinality(InStatus(S)) - 1
<1>1. InStatus(S)' = InStatus(S) \ {r} /\ r \in InStatus(S)
  BY DEF InStatus
<1>2. QED
  BY <1>1, StatusCounted, FS_RemoveElement

Streams == numStreaming = Cardinality(InStatus({"streaming"}))

LEMMA StreamsFrame ==
  ASSUME Streams, UNCHANGED numStreaming,
         \A q \in Requests : status'[q] = "streaming" <=> status[q] = "streaming"
  PROVE  Streams'
<1>1. InStatus({"streaming"})' = InStatus({"streaming"})
  BY DEF InStatus
<1>2. QED
  BY <1>1 DEF Streams

\* finish_requests of a session that waits for input gives its slot back.
LEMMA FinishRequestStreams ==
  ASSUME Streams, NEW r \in Requests, FinishRequest(r)
  PROVE  Streams'
<1>1. /\ numStreaming' = IF status[r] = "streaming" THEN numStreaming - 1 ELSE numStreaming
      /\ \A q \in Requests : status'[q] = IF q = r THEN "finished" ELSE status[q]
  BY DEF FinishRequest, FreeRequests
<1>2. CASE status[r] = "streaming"
  <2>1. Cardinality(InStatus({"streaming"}))' = Cardinality(InStatus({"streaming"})) - 1
    BY <1>1, <1>2, OneLess
  <2>2. QED
    BY <1>1, <1>2, <2>1 DEF Streams
<1>3. CASE status[r] # "streaming"
  BY <1>1, <1>3, StreamsFrame
<1>4. QED
  BY <1>2, <1>3

LEMMA RequestStepStreams ==
  ASSUME QueueInv, Streams, RequestStep
  PROVE  Streams'
<1>1. Queues /\ Places /\ status \in [Requests -> Status]
  BY DEF QueueInv, Places
<1>2. ASSUME NEW r \in Requests, AddRequest(r)
      PROVE  Streams'
  <2>1. /\ status[r] = "absent" /\ UNCHANGED numStreaming
        /\ \E st \in {"grammar", "waiting"} : status' = [status EXCEPT ![r] = st]
    BY <1>2 DEF AddRequest, streamVars
  <2>2. QED
    BY <1>1, <2>1, StreamsFrame
<1>3. ASSUME NEW r \in Requests, SendUpdate(r)
      PROVE  Streams'
  <2>1. CASE status[r] = "streaming"
    <3>1. status' = [status EXCEPT ![r] = "waiting"] /\ numStreaming' = numStreaming - 1
      BY <1>3, <2>1 DEF SendUpdate
    <3>2. Cardinality(InStatus({"streaming"}))' = Cardinality(InStatus({"streaming"})) - 1
      BY <1>1, <2>1, <3>1, OneLess
    <3>3. QED
      BY <3>1, <3>2 DEF Streams
  <2>2. CASE status[r] # "streaming"
    BY <1>3, <2>2, StreamsFrame DEF SendUpdate
  <2>3. QED
    BY <2>1, <2>2
<1>4. ASSUME NEW r \in Requests, EndSession(r) \/ Abort(r) \/ GrammarCompiled(r)
      PROVE  Streams'
  <2>1. FinishRequest(r) \/ UNCHANGED <<status, numStreaming>>
    BY <1>4 DEF EndSession, Abort, GrammarCompiled, queueVars, streamVars
  <2>2. QED
    BY <2>1, FinishRequestStreams, StreamsFrame
<1>5. ASSUME NEW state, Pause(state)
      PROVE  Streams'
  BY <1>5, StreamsFrame DEF Pause, queueVars, streamVars
<1>6. ASSUME ResetPrefixCache
      PROVE  Streams'
  <2>1. /\ UNCHANGED numStreaming /\ pc = "idle"
        /\ \A q \in Requests : status'[q] = IF InQueue(running, q) THEN "preempted" ELSE status[q]
    BY <1>6 DEF ResetPrefixCache, Preempt, streamVars, Outside
  <2>2. \A q \in Requests : InQueue(running, q) => status[q] = "running"
    BY <1>1, <2>1, RangeQueue DEF Places, Place, Queues, InQueue, Leaving
  <2>3. QED
    BY <2>1, <2>2, StreamsFrame
<1>7. QED
  BY <1>2, <1>3, <1>4, <1>5, <1>6 DEF RequestStep
\* schedule() pauses and resumes no session, and only an admission adds a request
\* to the running ones.
LEMMA ScheduleStatus ==
  ASSUME QueueInv, ScheduleStep
  PROVE  /\ UNCHANGED numStreaming
         /\ \A q \in Requests : status'[q] = "streaming" <=> status[q] = "streaming"
         /\ \/ \A q \in Requests : status'[q] = "running" => status[q] = "running"
            \/ /\ pc = "waiting" /\ SlotFree
               /\ \E r \in Requests : \A q \in Requests \ {r} : status'[q] = status[q]
<1>1. Queues /\ Places /\ status \in [Requests -> Status]
  BY DEF QueueInv, Places
<1>2. CASE \/ SkipRunning \/ EndRunning \/ SkipBlocked \/ SkipUndecided \/ EndWaiting
           \/ FinishSchedule \/ \E r \in Requests : ScheduleRunning(r)
  <2>1. UNCHANGED <<status, numStreaming>>
    BY <1>2 DEF SkipRunning, EndRunning, SkipBlocked, SkipUndecided, SkipCandidate, EndWaiting,
                FinishSchedule, ScheduleRunning, queueVars, streamVars
  <2>2. QED
    BY <2>1
<1>3. ASSUME NEW r \in Requests, PreemptLast(r)
      PROVE  /\ UNCHANGED numStreaming
             /\ \A q \in Requests : status'[q] = IF q = r THEN "preempted" ELSE status[q]
             /\ status[r] = "running"
  <2>1. /\ pc = "running" /\ call.idx < Len(running) /\ r = Last(running) /\ UNCHANGED numStreaming
        /\ status' = [q \in Requests |-> IF q \in {r} THEN "preempted" ELSE status[q]]
    BY <1>3 DEF PreemptLast, MoreRunning, Preempt, streamVars
  <2>2. call.idx \in Nat /\ Len(running) \in Nat
    BY <1>1, <2>1 DEF QueueInv, Calls, Queues
  <2>3. r \in ToSet(running)
    BY <1>1, <2>1, <2>2, FrontQueue DEF Queues
  <2>4. status[r] = "running"
    BY <1>1, <2>1, <2>3 DEF Places, Place, Leaving
  <2>5. QED
    BY <2>1, <2>4
<1>4. ASSUME NEW r \in Requests, Promote(r) \/ AdmitLoad(r)
      PROVE  /\ UNCHANGED numStreaming
             /\ status[r] # "streaming"
             /\ \E st \in {"waiting", "preempted", "remote"} : status' = [status EXCEPT ![r] = st]
  BY <1>4 DEF Promote, AdmitLoad, Promotable, CanBeAdmitted, BlockedStatus, streamVars
<1>5. ASSUME NEW r \in Requests, Admit(r)
      PROVE  /\ UNCHANGED numStreaming /\ pc = "waiting" /\ SlotFree
             /\ status[r] # "streaming" /\ status' = [status EXCEPT ![r] = "running"]
  BY <1>5 DEF Admit, CanBeAdmitted, MayAdmit, BlockedStatus, streamVars
<1>6. CASE \E r \in Requests : PreemptLast(r)
  BY <1>3, <1>6
<1>7. CASE \E r \in Requests : Promote(r) \/ AdmitLoad(r)
  BY <1>1, <1>4, <1>7
<1>8. CASE \E r \in Requests : Admit(r)
  BY <1>1, <1>5, <1>8
<1>9. QED
  BY <1>2, <1>6, <1>7, <1>8 DEF ScheduleStep

\* An output makes no request run; a session that pauses was running.
LEMMA UpdateStatus ==
  ASSUME QueueInv, Streams, UpdateStep
  PROVE  /\ Streams'
         /\ \A q \in Requests : status'[q] \in {"running", "streaming"} =>
                                  status[q] \in {"running", "streaming"}
<1>1. Queues /\ Places /\ status \in [Requests -> Status]
  BY DEF QueueInv, Places
<1>2. ASSUME NEW r \in Requests, MoreOutputs, r = Sampler, ~ Ignored(r)
      PROVE  status[r] \in {"running", "preempted"} /\ (r \in Sessions => status[r] = "running")
  <2>1. pc = "update" /\ r \in ToSet(upd.todo) /\ status[r] # "finished" /\ r \in requests
    BY <1>2, NextOutput DEF MoreOutputs, Ignored
  <2>2. status[r] = "running" \/ (status[r] = "preempted" /\ Async)
    BY <2>1 DEF QueueInv, Updates, InStep
  <2>3. QED
    BY <1>1, <2>1, <2>2 DEF Places, Place
<1>3. CASE \/ IgnoreOutput \/ RemoveStopped \/ (\E r \in Requests : OutputGoesOn(r))
           \/ \E R, S \in SUBSET Requests : FinishUpdate(R, S)
  <2>1. UNCHANGED <<status, numStreaming>>
    BY <1>3 DEF IgnoreOutput, RemoveStopped, OutputGoesOn, FinishUpdate, queueVars, streamVars
  <2>2. QED
    BY <2>1, StreamsFrame
<1>4. CASE FailRequests
  <2>1. (\E r \in Requests : FinishRequest(r)) \/ UNCHANGED <<status, numStreaming>>
    BY <1>4 DEF FailRequests, queueVars
  <2>2. \A q \in Requests : status'[q] = status[q] \/ status'[q] = "finished"
    BY <2>1 DEF FinishRequest, FreeRequests
  <2>3. QED
    BY <2>1, <2>2, FinishRequestStreams, StreamsFrame
<1>5. ASSUME NEW r \in Requests, OutputFinishes(r) \/ SessionGoesOn(r)
      PROVE  /\ UNCHANGED numStreaming /\ status[r] \in {"running", "preempted"}
             /\ \E st \in {"finished", "waiting"} :
                  \A q \in Requests : status'[q] = IF q = r THEN st ELSE status[q]
  <2>1. status[r] \in {"running", "preempted"}
    BY <1>2, <1>5 DEF OutputFinishes, SessionGoesOn
  <2>2. CASE OutputFinishes(r)
    BY <2>1, <2>2 DEF OutputFinishes, FreeRequests
  <2>3. CASE SessionGoesOn(r)
    BY <1>1, <2>1, <2>3 DEF SessionGoesOn
  <2>4. QED
    BY <1>5, <2>2, <2>3
<1>6. CASE \E r \in Requests : OutputFinishes(r) \/ SessionGoesOn(r)
  <2>1. \A q \in Requests : \/ status'[q] = status[q]
                            \/ /\ status[q] \in {"running", "preempted"}
                               /\ status'[q] \in {"finished", "waiting"}
    BY <1>5, <1>6
  <2>2. UNCHANGED numStreaming
    BY <1>5, <1>6
  <2>3. QED
    BY <2>1, <2>2, StreamsFrame
<1>7. CASE \E r \in Requests : SessionPauses(r)
  <2>1. PICK r \in Requests : SessionPauses(r)
    BY <1>7
  <2>2. /\ status[r] = "running" /\ numStreaming' = numStreaming + 1
        /\ \A q \in Requests : status'[q] = IF q = r THEN "streaming" ELSE status[q]
    BY <1>1, <1>2, <2>1 DEF SessionPauses
  <2>3. Cardinality(InStatus({"streaming"}))' = Cardinality(InStatus({"streaming"})) + 1
    BY <2>2, OneMore
  <2>4. QED
    BY <2>2, <2>3 DEF Streams
<1>8. QED
  BY <1>3, <1>4, <1>6, <1>7 DEF UpdateStep
LEMMA OutsideStatus ==
  ASSUME QueueInv,
         \/ RequestStep \/ (\E throttle \in BOOLEAN : BeginSchedule(throttle))
         \/ BeginUpdate \/ FailLoad \/ FailSyncLoad \/ UNCHANGED vars
  PROVE  \A q \in Requests : status'[q] \in {"running", "streaming"} => status'[q] = status[q]
<1>1. status \in [Requests -> Status]
  BY DEF QueueInv, Places
<1>2. ASSUME NEW r \in Requests, AddRequest(r) \/ SendUpdate(r)
      PROVE  \A q \in Requests : status'[q] \in {status[q], "grammar", "waiting"}
  <2>1. \/ UNCHANGED status
        \/ \E st \in {"grammar", "waiting"} : status' = [status EXCEPT ![r] = st]
    BY <1>2 DEF AddRequest, SendUpdate
  <2>2. QED
    BY <1>1, <2>1
<1>3. ASSUME NEW r \in Requests, EndSession(r) \/ Abort(r) \/ GrammarCompiled(r)
      PROVE  \A q \in Requests : status'[q] \in {status[q], "finished"}
  BY <1>3 DEF EndSession, Abort, GrammarCompiled, FinishRequest, FreeRequests, queueVars
<1>4. ASSUME NEW state, Pause(state)
      PROVE  UNCHANGED status
  BY <1>4 DEF Pause, queueVars
<1>5. ASSUME ResetPrefixCache
      PROVE  \A q \in Requests : status'[q] \in {status[q], "preempted"}
  BY <1>5 DEF ResetPrefixCache, Preempt
<1>6. CASE RequestStep
  <2>1. CASE \E r \in Requests : AddRequest(r) \/ SendUpdate(r)
    BY <1>2, <2>1
  <2>2. CASE \E r \in Requests : EndSession(r) \/ Abort(r) \/ GrammarCompiled(r)
    BY <1>3, <2>2
  <2>3. CASE ResetPrefixCache \/ \E state \in PauseState : Pause(state)
    BY <1>4, <1>5, <2>3
  <2>4. QED
    BY <1>6, <2>1, <2>2, <2>3 DEF RequestStep
<1>7. CASE \/ \E throttle \in BOOLEAN : BeginSchedule(throttle)
           \/ BeginUpdate \/ FailLoad \/ FailSyncLoad \/ UNCHANGED vars
  BY <1>7 DEF BeginSchedule, BeginUpdate, FailLoad, FailSyncLoad, BeginStep, vars, queueVars
<1>8. QED
  BY <1>6, <1>7

LEMMA StreamsNext == QueueInv /\ Streams /\ [Next]_vars => Streams'
<1> SUFFICES ASSUME QueueInv, Streams, [Next]_vars
             PROVE  Streams'
  OBVIOUS
<1>1. CASE RequestStep
  BY <1>1, RequestStepStreams
<1>2. CASE ScheduleStep
  BY <1>2, ScheduleStatus, StreamsFrame
<1>3. CASE UpdateStep
  BY <1>3, UpdateStatus
<1>4. CASE \/ \E throttle \in BOOLEAN : BeginSchedule(throttle)
           \/ BeginUpdate \/ FailLoad \/ FailSyncLoad \/ UNCHANGED vars
  <2>1. UNCHANGED <<status, numStreaming>>
    BY <1>4 DEF BeginSchedule, BeginUpdate, FailLoad, FailSyncLoad, BeginStep, vars, queueVars,
                streamVars
  <2>2. QED
    BY <2>1, StreamsFrame
<1>5. QED
  BY <1>1, <1>2, <1>3, <1>4 DEF Next

LEMMA StreamsInit == Init => Streams
<1> SUFFICES ASSUME Init
             PROVE  Streams
  OBVIOUS
<1>1. InStatus({"streaming"}) = {} /\ numStreaming = 0
  BY DEF Init, InStatus
<1>2. QED
  BY <1>1, FS_EmptySet DEF Streams

LEMMA StreamsAlways == Spec => []Streams
<1>1. QED
  BY StreamsInit, StreamsNext, QueuesAgree, PTL DEF Spec

\* num_waiting_for_streaming_input counts the sessions that wait for input exactly,
\* through pauses, updates, ends and aborts.
THEOREM StreamsAreCounted == Spec => []StreamCountExact
<1>1. Streams => StreamCountExact
  <2>1. InStatus({"streaming"}) = {r \in Requests : status[r] = "streaming"}
    BY DEF InStatus
  <2>2. QED
    BY <2>1 DEF Streams, StreamCountExact
<1>2. QED
  BY <1>1, StreamsAlways, PTL

\* Who holds a slot of the model runner; it stays with a request that stops until
\* the end of the update, and with a session that pauses.
Slots == Cardinality(InStatus({"running", "streaming"})) <= MaxRunningReqs

LEMMA SlotsTaken ==
  ASSUME QueueInv, Streams, pc # "update"
  PROVE  /\ Cardinality(InStatus({"running", "streaming"})) = Len(running) + numStreaming
         /\ Len(running) \in Nat /\ numStreaming \in Nat
<1>1. Queues /\ Places
  BY DEF QueueInv
<1>2. ToSet(running) = InStatus({"running"})
  BY <1>1, RangeQueue DEF Queues, Places, Place, Leaving, InStatus
<1>3. Cardinality(InStatus({"running"})) = Len(running)
  BY <1>1, <1>2, QueueSize DEF Queues
<1>4. /\ InStatus({"running", "streaming"}) = InStatus({"running"}) \cup InStatus({"streaming"})
      /\ InStatus({"running"}) \cap InStatus({"streaming"}) = {}
  BY DEF InStatus
<1>5. /\ IsFiniteSet(InStatus({"running"})) /\ IsFiniteSet(InStatus({"streaming"}))
      /\ Cardinality(InStatus({"running"})) \in Nat /\ Cardinality(InStatus({"streaming"})) \in Nat
  BY StatusCounted
<1>6. Cardinality(InStatus({"running", "streaming"}))
        = Cardinality(InStatus({"running"})) + Cardinality(InStatus({"streaming"}))
            - Cardinality(InStatus({"running"}) \cap InStatus({"streaming"}))
  BY <1>4, <1>5, FS_Union, Zenon
<1>7. Cardinality(InStatus({"running"}) \cap InStatus({"streaming"})) = 0
  BY <1>4, FS_EmptySet
<1>8. QED
  BY <1>3, <1>5, <1>6, <1>7 DEF Streams

LEMMA SlotsNext == QueueInv /\ Streams /\ Slots /\ [Next]_vars => Slots'
<1> SUFFICES ASSUME QueueInv, Streams, Slots, [Next]_vars
             PROVE  Slots'
  OBVIOUS
<1> DEFINE Takers == InStatus({"running", "streaming"})
<1>1. /\ IsFiniteSet(Takers) /\ Cardinality(Takers) \in Nat /\ Cardinality(Takers) <= MaxRunningReqs
      /\ MaxRunningReqs \in Nat
  BY StatusCounted DEF Slots, SchedulerAssumption
<1>2. CASE Takers' \subseteq Takers
  <2>1. Cardinality(Takers') <= Cardinality(Takers) /\ Cardinality(Takers') \in Nat
    BY <1>1, <1>2, FS_Subset, FS_CardinalityType
  <2>2. QED
    BY <1>1, <2>1 DEF Slots
<1>3. CASE /\ pc = "waiting" /\ SlotFree
           /\ \E r \in Requests : \A q \in Requests \ {r} : status'[q] = status[q]
  <2>1. PICK r \in Requests : \A q \in Requests \ {r} : status'[q] = status[q]
    BY <1>3
  <2>2. Takers' \subseteq Takers \cup {r}
    BY <2>1 DEF InStatus
  <2>3. IsFiniteSet(Takers \cup {r}) /\ Cardinality(Takers \cup {r}) <= Cardinality(Takers) + 1
    <3> HIDE DEF Takers
    <3>1. /\ IsFiniteSet(Takers \cup {r})
          /\ Cardinality(Takers \cup {r}) =
               IF r \in Takers THEN Cardinality(Takers) ELSE Cardinality(Takers) + 1
      BY <1>1, FS_AddElement
    <3>2. QED
      BY <1>1, <3>1
  <2>4. /\ Cardinality(Takers') <= Cardinality(Takers \cup {r})
        /\ Cardinality(Takers') \in Nat /\ Cardinality(Takers \cup {r}) \in Nat
    BY <2>2, <2>3, FS_Subset, FS_CardinalityType
  <2>5. Cardinality(Takers) < MaxRunningReqs
    BY <1>3, SlotsTaken DEF SlotFree
  <2>6. QED
    BY <1>1, <2>3, <2>4, <2>5 DEF Slots
<1>4. CASE ScheduleStep
  <2>1. CASE \A q \in Requests : status'[q] = "running" => status[q] = "running"
    BY <1>2, <1>4, <2>1, ScheduleStatus DEF InStatus
  <2>2. QED
    BY <1>3, <1>4, <2>1, ScheduleStatus
<1>5. CASE UpdateStep
  BY <1>2, <1>5, UpdateStatus DEF InStatus
<1>6. CASE \/ RequestStep \/ (\E throttle \in BOOLEAN : BeginSchedule(throttle))
           \/ BeginUpdate \/ FailLoad \/ FailSyncLoad \/ UNCHANGED vars
  BY <1>2, <1>6, OutsideStatus DEF InStatus
<1>7. QED
  BY <1>4, <1>5, <1>6 DEF Next

LEMMA SlotsInit == Init => Slots
<1> SUFFICES ASSUME Init
             PROVE  Slots
  OBVIOUS
<1>1. InStatus({"running", "streaming"}) = {} /\ MaxRunningReqs \in Nat
  BY DEF Init, InStatus, SchedulerAssumption
<1>2. QED
  BY <1>1, FS_EmptySet DEF Slots

\* Running requests and paused sessions never exceed max_num_seqs (the assertion of
\* scheduler.py:1042).
THEOREM SlotsAreHeld == Spec => []SlotsHeld
<1>1. QueueInv /\ Streams /\ Slots => SlotsHeld
  BY SlotsTaken DEF Slots, SlotsHeld, Settling
<1>2. QED
  BY <1>1, SlotsInit, SlotsNext, StreamsAlways, QueuesAgree, PTL DEF Spec
-----------------------------------------------------------------------------
(* The order of `waiting`: who was preempted is ahead of who never ran.    *)

\* A request that has stopped while it was preempted is passed over: it is still in
\* the queue until the end of the update.
PreemptedAhead ==
  \A i, j \in 1 .. Len(waiting) :
    i < j /\ status[waiting[j]] = "preempted" /\ waiting[i] \notin LeavingWaiting =>
      status[waiting[i]] = "preempted"

\* What may become of a request in `waiting`: it stays preempted or not, or it stops.
SameStanding(q) ==
  /\ status'[q] = "preempted" => status[q] = "preempted"
  /\ status[q] = "preempted" => status'[q] = "preempted" \/ q \in LeavingWaiting'
  /\ q \in LeavingWaiting => q \in LeavingWaiting'

\* The queue is shortened, its order kept.
LEMMA AheadShorter ==
  ASSUME PreemptedAhead, \E T : waiting' \in Seq(T),
         \A i, j \in 1 .. Len(waiting') : i < j =>
           \E k, l \in 1 .. Len(waiting) :
             k < l /\ waiting[k] = waiting'[i] /\ waiting[l] = waiting'[j],
         \A q \in ToSet(waiting') : SameStanding(q)
  PROVE  PreemptedAhead'
<1> SUFFICES ASSUME NEW i \in 1 .. Len(waiting'), NEW j \in 1 .. Len(waiting'), i < j,
                    status'[waiting'[j]] = "preempted", waiting'[i] \notin LeavingWaiting'
             PROVE  status'[waiting'[i]] = "preempted"
  BY DEF PreemptedAhead
<1>1. PICK k \in 1 .. Len(waiting), l \in 1 .. Len(waiting) :
        k < l /\ waiting[k] = waiting'[i] /\ waiting[l] = waiting'[j]
  OBVIOUS
<1>2. SameStanding(waiting'[i]) /\ SameStanding(waiting'[j])
  BY RangeQueue
<1>3. QED
  BY <1>1, <1>2 DEF PreemptedAhead, SameStanding

LEMMA AheadSame ==
  ASSUME PreemptedAhead, UNCHANGED waiting, \A q \in ToSet(waiting) : SameStanding(q),
         waiting \in Seq(Requests)
  PROVE  PreemptedAhead'
<1>1. QED
  BY RangeQueue DEF PreemptedAhead, SameStanding

\* popleft.
LEMMA AheadPopped ==
  ASSUME PreemptedAhead, waiting \in Seq(Requests),
         \/ waiting' = waiting
         \/ waiting # <<>> /\ waiting' = Tail(waiting),
         \A q \in ToSet(waiting') : SameStanding(q)
  PROVE  PreemptedAhead'
<1>1. CASE waiting' = waiting
  BY <1>1, AheadSame
<1>2. CASE waiting # <<>> /\ waiting' = Tail(waiting)
  <2>1. /\ waiting' \in Seq(Requests) /\ Len(waiting) \in Nat /\ Len(waiting') = Len(waiting) - 1
        /\ \A i \in 1 .. Len(waiting') : waiting'[i] = waiting[i + 1]
    BY <1>2
  <2>2. ASSUME NEW i \in 1 .. Len(waiting'), NEW j \in 1 .. Len(waiting'), i < j
        PROVE  \E k, l \in 1 .. Len(waiting) :
                 k < l /\ waiting[k] = waiting'[i] /\ waiting[l] = waiting'[j]
    <3>1. i + 1 \in 1 .. Len(waiting) /\ j + 1 \in 1 .. Len(waiting) /\ i + 1 < j + 1
      BY <2>1, <2>2
    <3>2. QED
      BY <2>1, <3>1
  <2>3. QED
    BY <2>1, <2>2, AheadShorter
<1>3. QED
  BY <1>1, <1>2

\* remove_request, remove_requests.
LEMMA AheadWithout ==
  ASSUME PreemptedAhead, waiting \in Seq(Requests), NEW S, waiting' = Without(waiting, S),
         \A q \in ToSet(waiting) \ S : SameStanding(q)
  PROVE  PreemptedAhead'
<1> DEFINE w == Without(waiting, S)
<1>1. /\ w \in Seq(Requests) /\ ToSet(w) = ToSet(waiting) \ S
      /\ \A i, j \in 1 .. Len(w) : i < j =>
           \E k, l \in 1 .. Len(waiting) : k < l /\ waiting[k] = w[i] /\ waiting[l] = w[j]
  <2>1. \A i, j \in 1 .. Len(w) : i < j =>
           \E k, l \in 1 .. Len(waiting) : /\ k < l
                                           /\ waiting[k] = w[i] /\ waiting[l] = w[j]
    BY WithoutQueue
  <2>2. w \in Seq(Requests) /\ ToSet(w) = ToSet(waiting) \ S
    BY WithoutQueue
  <2>3. QED
    BY <2>1, <2>2
<1> HIDE DEF w
<1>2. waiting' = w
  BY DEF w
<1>3. QED
  BY <1>1, <1>2, AheadShorter

\* append of a request that was not preempted.
LEMMA AheadAppended ==
  ASSUME PreemptedAhead, waiting \in Seq(Requests), NEW r \in Requests,
         waiting' = Append(waiting, r), status'[r] # "preempted",
         \A q \in ToSet(waiting) : SameStanding(q)
  PROVE  PreemptedAhead'
<1>1. /\ Len(waiting') = Len(waiting) + 1 /\ Len(waiting) \in Nat
      /\ \A i \in 1 .. Len(waiting) : waiting'[i] = waiting[i]
      /\ waiting'[Len(waiting) + 1] = r
  BY AppendQueue
<1> SUFFICES ASSUME NEW i \in 1 .. Len(waiting'), NEW j \in 1 .. Len(waiting'), i < j,
                    status'[waiting'[j]] = "preempted", waiting'[i] \notin LeavingWaiting'
             PROVE  status'[waiting'[i]] = "preempted"
  BY DEF PreemptedAhead
<1>2. j # Len(waiting) + 1
  BY <1>1
<1>3. i \in 1 .. Len(waiting) /\ j \in 1 .. Len(waiting)
  BY <1>1, <1>2
<1>4. SameStanding(waiting[i]) /\ SameStanding(waiting[j])
  BY <1>3, RangeQueue
<1>5. QED
  BY <1>1, <1>3, <1>4 DEF PreemptedAhead, SameStanding

\* extendleft of preempted requests.
LEMMA AheadPutBack ==
  ASSUME PreemptedAhead, waiting \in Seq(Requests), NEW back \in Seq(Requests), PutBack(back),
         \A q \in ToSet(back) : status'[q] = "preempted",
         \A q \in ToSet(waiting) : SameStanding(q)
  PROVE  PreemptedAhead'
<1>1. /\ waiting' = back \o waiting /\ Len(waiting') = Len(back) + Len(waiting)
      /\ Len(waiting) \in Nat /\ Len(back) \in Nat
      /\ \A i \in 1 .. Len(back) : waiting'[i] = back[i]
      /\ \A i \in 1 .. Len(waiting) : waiting'[Len(back) + i] = waiting[i]
  BY JoinQueues DEF PutBack
<1> SUFFICES ASSUME NEW i \in 1 .. Len(waiting'), NEW j \in 1 .. Len(waiting'), i < j,
                    status'[waiting'[j]] = "preempted", waiting'[i] \notin LeavingWaiting'
             PROVE  status'[waiting'[i]] = "preempted"
  BY DEF PreemptedAhead
<1>2. CASE i <= Len(back)
  <2>1. i \in 1 .. Len(back)
    BY <1>1, <1>2
  <2>2. waiting'[i] \in ToSet(back)
    BY <1>1, <2>1, RangeQueue
  <2>3. QED
    BY <2>2
<1>3. CASE ~ (i <= Len(back))
  <2> DEFINE k == i - Len(back)
             l == j - Len(back)
  <2>1. /\ k \in 1 .. Len(waiting) /\ l \in 1 .. Len(waiting) /\ k < l
        /\ i = Len(back) + k /\ j = Len(back) + l
    BY <1>1, <1>3
  <2> HIDE DEF k, l
  <2>2. waiting'[i] = waiting[k] /\ waiting'[j] = waiting[l]
    BY <1>1, <2>1
  <2>3. SameStanding(waiting[k]) /\ SameStanding(waiting[l])
    BY <2>1, RangeQueue
  <2>4. QED
    BY <2>1, <2>2, <2>3 DEF PreemptedAhead, SameStanding
<1>4. QED
  BY <1>2, <1>3
\* What stands still: nothing happens to the statuses, or to those in `waiting`.
LEMMA StandStill ==
  ASSUME UNCHANGED status, LeavingWaiting \subseteq LeavingWaiting'
  PROVE  \A q : SameStanding(q)
  BY DEF SameStanding

LEMMA FinishRequestAhead ==
  ASSUME PreemptedAhead, waiting \in Seq(Requests), NEW r \in Requests, FinishRequest(r),
         LeavingWaiting = {}
  PROVE  PreemptedAhead'
<1>1. /\ waiting' = Without(waiting, {r})
      /\ \A q \in Requests : status'[q] = IF q = r THEN "finished" ELSE status[q]
  BY DEF FinishRequest, FreeRequests
<1>2. \A q \in ToSet(waiting) \ {r} : SameStanding(q)
  BY <1>1, RangeQueue DEF SameStanding
<1>3. QED
  BY <1>1, <1>2, AheadWithout

LEMMA RequestStepAhead ==
  ASSUME QueueInv, PreemptedAhead, RequestStep
  PROVE  PreemptedAhead'
<1>1. /\ Queues /\ Places /\ status \in [Requests -> Status] /\ waiting \in Seq(Requests)
      /\ ToSet(waiting) \subseteq Requests
  BY RangeQueue DEF QueueInv, Places, Queues
<1>2. pc = "idle" /\ UNCHANGED pc
  BY DEF RequestStep, AddRequest, SendUpdate, EndSession, Abort, GrammarCompiled, Pause,
         ResetPrefixCache, Outside, OutsideVars
<1>3. LeavingWaiting = {} /\ LeavingWaiting' = {} /\ Leaving = {}
  BY <1>2 DEF LeavingWaiting, Leaving
<1>4. \A q \in ToSet(waiting) : status[q] \in Waits
  BY <1>1, <1>3 DEF Places, Place
<1>5. ASSUME NEW r \in Requests, AddRequest(r)
      PROVE  PreemptedAhead'
  <2>1. /\ status[r] = "absent" /\ status' = [status EXCEPT ![r] =
              IF r \in Grammars THEN "grammar" ELSE "waiting"]
        /\ waiting' = waiting \/ waiting' = Append(waiting, r)
    BY <1>5 DEF AddRequest, Enqueue
  <2>2. status'[r] # "preempted" /\ \A q \in ToSet(waiting) : SameStanding(q)
    BY <1>1, <1>3, <1>4, <2>1 DEF Waits, SameStanding
  <2>3. QED
    BY <1>1, <2>1, <2>2, AheadSame, AheadAppended
<1>6. ASSUME NEW r \in Requests, SendUpdate(r)
      PROVE  PreemptedAhead'
  <2>1. /\ waiting' = waiting
        /\ \/ UNCHANGED status
           \/ status[r] = "streaming" /\ status' = [status EXCEPT ![r] = "waiting"]
    BY <1>6 DEF SendUpdate
  <2>2. \A q \in ToSet(waiting) : SameStanding(q)
    BY <1>1, <1>3, <1>4, <2>1 DEF Waits, SameStanding
  <2>3. QED
    BY <1>1, <2>1, <2>2, AheadSame
<1>7. ASSUME NEW r \in Requests, EndSession(r) \/ Abort(r) \/ GrammarCompiled(r)
      PROVE  PreemptedAhead'
  <2>1. FinishRequest(r) \/ UNCHANGED <<status, waiting>>
    BY <1>7 DEF EndSession, Abort, GrammarCompiled, queueVars
  <2>2. QED
    BY <1>1, <1>3, <2>1, FinishRequestAhead, StandStill, AheadSame
<1>8. ASSUME NEW state, Pause(state)
      PROVE  PreemptedAhead'
  <2>1. UNCHANGED <<status, waiting>>
    BY <1>8 DEF Pause, queueVars
  <2>2. QED
    BY <1>1, <1>3, <2>1, StandStill, AheadSame
<1>9. ASSUME ResetPrefixCache
      PROVE  PreemptedAhead'
  <2>1. /\ PutBack(running)
        /\ \A q \in Requests : status'[q] = IF InQueue(running, q) THEN "preempted" ELSE status[q]
    BY <1>9 DEF ResetPrefixCache, Preempt
  <2>2. running \in Seq(Requests) /\ \A q \in ToSet(running) : q \in Requests /\ InQueue(running, q)
    BY <1>1, RangeQueue DEF Queues, InQueue
  <2>3. \A q \in Requests : InQueue(running, q) => status[q] = "running"
    BY <1>1, <1>3, RangeQueue DEF Queues, InQueue, Places, Place
  <2>4. \A q \in ToSet(waiting) : SameStanding(q)
    BY <1>1, <1>3, <1>4, <2>1, <2>3 DEF SameStanding, Waits
  <2>5. QED
    BY <1>1, <2>1, <2>2, <2>4, AheadPutBack
<1>10. QED
  BY <1>5, <1>6, <1>7, <1>8, <1>9 DEF RequestStep
LEMMA ScheduleStepAhead ==
  ASSUME QueueInv, PreemptedAhead, ScheduleStep
  PROVE  PreemptedAhead'
<1>1. /\ Queues /\ Places /\ status \in [Requests -> Status] /\ waiting \in Seq(Requests)
      /\ ToSet(waiting) \subseteq Requests
  BY RangeQueue DEF QueueInv, Places, Queues
<1>2. pc \in {"running", "waiting", "done"} /\ pc' # "update"
  BY DEF ScheduleStep, SkipRunning, EndRunning, SkipBlocked, SkipUndecided, SkipCandidate,
         EndWaiting, FinishSchedule, ScheduleRunning, PreemptLast, Promote, AdmitLoad, Admit,
         CanBeAdmitted, MayAdmit, MoreRunning
<1>3. LeavingWaiting = {} /\ LeavingWaiting' = {} /\ Leaving = {}
  BY <1>2 DEF LeavingWaiting, Leaving
<1>4. \A q \in ToSet(waiting) : status[q] \in Waits
  BY <1>1, <1>3 DEF Places, Place
<1>5. CASE \/ SkipRunning \/ EndRunning \/ EndWaiting \/ FinishSchedule
           \/ \E r \in Requests : ScheduleRunning(r)
  <2>1. UNCHANGED <<status, waiting>>
    BY <1>5 DEF SkipRunning, EndRunning, EndWaiting, FinishSchedule, ScheduleRunning, queueVars
  <2>2. QED
    BY <1>1, <1>3, <2>1, StandStill, AheadSame
<1>6. CASE SkipBlocked \/ SkipUndecided
  <2>1. UNCHANGED status /\ PopCandidate /\ SomeWaiting
    BY <1>6 DEF SkipBlocked, SkipUndecided, SkipCandidate, MayAdmit
  <2>2. waiting' = waiting \/ (waiting # <<>> /\ waiting' = Tail(waiting))
    BY <2>1 DEF PopCandidate, SomeWaiting
  <2>3. QED
    BY <1>1, <1>3, <2>1, <2>2, StandStill, AheadPopped
<1>7. ASSUME NEW r \in Requests, PreemptLast(r)
      PROVE  PreemptedAhead'
  <2>1. /\ PutBack(<<r>>)
        /\ \A q \in Requests : status'[q] = IF q = r THEN "preempted" ELSE status[q]
    BY <1>7 DEF PreemptLast, Preempt
  <2>2. status[r] = "running"
    <3>1. /\ pc = "running" /\ call.idx < Len(running) /\ r = Last(running)
          /\ call.idx \in Nat /\ running \in Seq(Requests)
      BY <1>1, <1>7 DEF PreemptLast, MoreRunning, QueueInv, Calls, Queues
    <3>2. r \in ToSet(running)
      BY <3>1, FrontQueue
    <3>3. QED
      BY <1>1, <1>3, <3>2 DEF Places, Place
  <2>3. <<r>> \in Seq(Requests) /\ \A q \in ToSet(<<r>>) : q = r
    BY DEF ToSet
  <2>4. \A q \in ToSet(waiting) : SameStanding(q)
    BY <1>1, <1>3, <1>4, <2>1, <2>2 DEF SameStanding, Waits
  <2>5. QED
    BY <1>1, <2>1, <2>3, <2>4, AheadPutBack
<1>8. ASSUME NEW r \in Requests, Promote(r)
      PROVE  PreemptedAhead'
  <2>1. /\ UNCHANGED waiting /\ status[r] \in BlockedStatus
        /\ \E st \in Waits : status' = [status EXCEPT ![r] = st]
    BY <1>8 DEF Promote, Promotable, BlockedStatus, Waits
  <2>2. \A q \in ToSet(waiting) : SameStanding(q)
    BY <1>1, <1>3, <1>4, <2>1 DEF SameStanding, Waits, BlockedStatus
  <2>3. QED
    BY <1>1, <2>1, <2>2, AheadSame
<1>9. ASSUME NEW r \in Requests, AdmitLoad(r) \/ Admit(r)
      PROVE  PreemptedAhead'
  <2>1. /\ PopCandidate /\ SomeWaiting /\ r = Candidate
        /\ \E st \in {"remote", "running"} : status' = [status EXCEPT ![r] = st]
    BY <1>9 DEF AdmitLoad, Admit, CanBeAdmitted, MayAdmit
  <2>2. waiting' = waiting \/ (waiting # <<>> /\ waiting' = Tail(waiting))
    BY <2>1 DEF PopCandidate, SomeWaiting
  <2>3. r \notin ToSet(waiting')
    <3>1. CASE skippedWaiting # <<>>
      <4>1. waiting' = waiting /\ r \in ToSet(skippedWaiting)
        BY <1>1, <2>1, <3>1, TailQueue DEF PopCandidate, Candidate, Queues
      <4>2. QED
        BY <1>1, <4>1 DEF Queues
    <3>2. CASE skippedWaiting = <<>>
      BY <1>1, <2>1, <3>2, TailQueue DEF PopCandidate, Candidate, SomeWaiting, Queues
    <3>3. QED
      BY <3>1, <3>2
  <2>4. ToSet(waiting') \subseteq ToSet(waiting)
    BY <1>1, <2>2, TailQueue
  <2>5. \A q \in ToSet(waiting') : SameStanding(q)
    BY <1>1, <1>3, <2>1, <2>3, <2>4 DEF SameStanding
  <2>6. QED
    BY <1>1, <2>2, <2>5, AheadPopped
<1>10. QED
  BY <1>5, <1>6, <1>7, <1>8, <1>9 DEF ScheduleStep

LEMMA UpdateStepAhead ==
  ASSUME QueueInv, PreemptedAhead, UpdateStep
  PROVE  PreemptedAhead'
<1>1. /\ Queues /\ Places /\ status \in [Requests -> Status] /\ waiting \in Seq(Requests)
      /\ ToSet(waiting) \subseteq Requests
  BY RangeQueue DEF QueueInv, Places, Queues
<1>2. CASE IgnoreOutput \/ \E r \in Requests : OutputGoesOn(r)
  <2>1. /\ MoreOutputs /\ upd' = [upd EXCEPT !.todo = Tail(@)] /\ UNCHANGED <<status, waiting, pc>>
    BY <1>2 DEF IgnoreOutput, OutputGoesOn, queueVars
  <2>2. upd'.stoppedWaiting = upd.stoppedWaiting
    BY <2>1, NextOutput
  <2>3. LeavingWaiting' = LeavingWaiting
    BY <2>1, <2>2 DEF LeavingWaiting
  <2>4. QED
    BY <1>1, <2>1, <2>3, StandStill, AheadSame
<1>3. ASSUME NEW r \in Requests, OutputFinishes(r) \/ SessionGoesOn(r) \/ SessionPauses(r)
      PROVE  PreemptedAhead'
  <2>1. MoreOutputs /\ r = Sampler /\ ~ Ignored(r) /\ Stopped(r) /\ UNCHANGED pc
    BY <1>3 DEF OutputFinishes, SessionGoesOn, SessionPauses
  <2>2. /\ pc = "update" /\ r \in ToSet(upd.todo) /\ status[r] # "finished" /\ r \in requests
        /\ {"todo", "stopped", "stoppedWaiting"} \subseteq DOMAIN upd
    BY <2>1, NextOutput DEF MoreOutputs, Ignored
  <2>3. status[r] = "running" \/ (status[r] = "preempted" /\ Async)
    BY <2>2 DEF QueueInv, Updates, InStep
  <2>4. /\ LeavingWaiting = upd.stoppedWaiting /\ LeavingWaiting \subseteq LeavingWaiting'
        /\ status[r] = "preempted" => r \in LeavingWaiting'
    BY <2>1, <2>2 DEF LeavingWaiting, Stopped
  <2>5. r \notin LeavingWaiting
    BY <1>1, <2>2 DEF Places, Place
  <2>6. \E st \in {"finished", "waiting", "streaming"} :
          /\ \A q \in Requests : status'[q] = IF q = r THEN st ELSE status[q]
          /\ waiting' = waiting \/ waiting' = Append(waiting, r)
    <3>1. CASE OutputFinishes(r)
      BY <3>1 DEF OutputFinishes, FreeRequests
    <3>2. CASE SessionGoesOn(r)
      BY <1>1, <3>2 DEF SessionGoesOn, Enqueue
    <3>3. CASE SessionPauses(r)
      BY <1>1, <3>3 DEF SessionPauses, Enqueue
    <3>4. QED
      BY <1>3, <3>1, <3>2, <3>3
  <2>7. \A q \in ToSet(waiting) : SameStanding(q)
    BY <1>1, <2>3, <2>4, <2>6 DEF SameStanding
  <2>8. status'[r] # "preempted"
    BY <2>6
  <2>9. QED
    BY <1>1, <2>6, <2>7, <2>8, AheadSame, AheadAppended
<1>4. CASE RemoveStopped
  <2>1. /\ waiting' = Without(waiting, LeavingWaiting) /\ UNCHANGED status
        /\ LeavingWaiting' = {}
    BY <1>4 DEF RemoveStopped, LeavingWaiting
  <2>2. \A q \in ToSet(waiting) \ LeavingWaiting : SameStanding(q)
    BY <2>1 DEF SameStanding
  <2>3. QED
    BY <1>1, <2>1, <2>2, AheadWithout
<1>5. CASE FailRequests \/ \E R, S \in SUBSET Requests : FinishUpdate(R, S)
  <2>1. LeavingWaiting = {} /\ LeavingWaiting' = {}
    BY <1>5 DEF FailRequests, FinishUpdate, LeavingWaiting
  <2>2. (\E r \in Requests : FinishRequest(r)) \/ UNCHANGED <<status, waiting>>
    BY <1>5 DEF FailRequests, FinishUpdate, queueVars
  <2>3. QED
    BY <1>1, <2>1, <2>2, FinishRequestAhead, StandStill, AheadSame
<1>6. QED
  BY <1>2, <1>3, <1>4, <1>5 DEF UpdateStep

LEMMA AheadNext == QueueInv /\ PreemptedAhead /\ [Next]_vars => PreemptedAhead'
<1> SUFFICES ASSUME QueueInv, PreemptedAhead, [Next]_vars
             PROVE  PreemptedAhead'
  OBVIOUS
<1>1. CASE RequestStep
  BY <1>1, RequestStepAhead
<1>2. CASE ScheduleStep
  BY <1>2, ScheduleStepAhead
<1>3. CASE UpdateStep
  BY <1>3, UpdateStepAhead
<1>4. CASE \/ \E throttle \in BOOLEAN : BeginSchedule(throttle)
           \/ BeginUpdate \/ FailLoad \/ FailSyncLoad
  <2>1. UNCHANGED <<status, waiting>> /\ pc = "idle"
    BY <1>4 DEF BeginSchedule, BeginUpdate, FailLoad, FailSyncLoad, BeginStep, queueVars
  <2>2. LeavingWaiting = {}
    BY <2>1 DEF LeavingWaiting
  <2>3. QED
    BY <2>1, <2>2, StandStill, AheadSame DEF QueueInv, Queues
<1>5. CASE UNCHANGED vars
  <2>1. UNCHANGED <<status, waiting, pc, upd>>
    BY <1>5 DEF vars, queueVars
  <2>2. LeavingWaiting' = LeavingWaiting
    BY <2>1 DEF LeavingWaiting
  <2>3. QED
    BY <2>1, <2>2, StandStill, AheadSame DEF QueueInv, Queues
<1>6. QED
  BY <1>1, <1>2, <1>3, <1>4, <1>5 DEF Next

\* Between updates, who was preempted stands in `waiting` before who never ran: a
\* preemption starves no request (prepend_request, scheduler.py:1176).
THEOREM PreemptedGoFirst == Spec => []PreemptedFirst
<1>1. Init => PreemptedAhead
  BY DEF Init, PreemptedAhead
<1>2. PreemptedAhead => PreemptedFirst
  BY DEF PreemptedAhead, PreemptedFirst, Settling, LeavingWaiting
<1>3. QED
  BY <1>1, <1>2, AheadNext, QueuesAgree, PTL DEF Spec
=============================================================================
