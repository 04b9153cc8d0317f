--------------------------- MODULE VllmSlotProofs ---------------------------
(***************************************************************************)
(* Proofs about VllmSlot, for any number of runs of the script: its types, *)
(* and that a cluster run cleans up after itself (CleanExit).              *)
(***************************************************************************)
EXTENDS VllmSlot, TLAPS

USE VllmSlotAssumption DEF Runs, Hosts, Steps, history, Goto, PastCleanup

\* No run has started and no container exists.
LEMMA InitIInv ==
  ASSUME Init
  PROVE  IInv
  BY DEF Init, IInv, Early, TypeOK, NothingBeforeLaunch, OnlySingleExecs, CleanedForGood

\* Removing by name only ever takes a container away.
LEMMA RemoveOnlyRemoves ==
  ASSUME TypeOK, NEW x \in Runs, NEW g \in Hosts, Remove(x, g)
  PROVE  /\ cont' \in [Hosts -> 0 .. MaxRun]
         /\ hurt' \subseteq Runs
         /\ cont'[g] = 0
         /\ \A h \in Hosts : cont'[h] = cont[h] \/ cont'[h] = 0
<1>1. cont' \in [Hosts -> 0 .. MaxRun]
  BY DEF TypeOK, Remove
<1>2. hurt' \subseteq Runs
  BY DEF TypeOK, Remove
<1>3. cont'[g] = 0 /\ \A h \in Hosts : cont'[h] = cont[h] \/ cont'[h] = 0
  BY DEF TypeOK, Remove
<1>4. QED
  BY <1>1, <1>2, <1>3

\* What keeps a run without containers until it launches: it does not become
\* early again, and nothing is launched, or comes up, for one that is.
LEMMA StillNothingBeforeLaunch ==
  ASSUME NothingBeforeLaunch,
         \A w \in Runs : pc'[w] \in Early => pc[w] \in Early,
         \A w \in Runs, h \in Hosts :
           pc'[w] \in Early /\ <<w, h>> \in starting' => <<w, h>> \in starting,
         \A w \in Runs, h \in Hosts :
           pc'[w] \in Early /\ cont'[h] = w => cont[h] = w
  PROVE  NothingBeforeLaunch'
  BY Zenon DEF NothingBeforeLaunch

\* A step that only moves run x on, to a step from which it neither launches as
\* a single run nor is early, nor, in a cluster run, past a cleanup it was not past.
LEMMA MoveStep ==
  ASSUME IInv, NEW x \in Runs, NEW step \in Steps, Goto(x, step),
         UNCHANGED <<mode, term, starting, cont, history>>,
         step \in Early => pc[x] \in Early,
         step \in {"run", "exec"} => mode[x] = "single",
         mode[x] = "cluster" =>
           \A h \in Hosts : PastCleanup(x, h)' => PastCleanup(x, h) \/ cont[h] # x
  PROVE  IInv'
<1>1. /\ pc' = [pc EXCEPT ![x] = step] /\ pc'[x] = step
      /\ \A w \in Runs : w # x => pc'[w] = pc[w]
      /\ UNCHANGED <<mode, term, starting, cont, lost, late, hurt>>
  BY DEF IInv, TypeOK
<1>2. TypeOK'
  BY <1>1 DEF IInv, TypeOK
<1>3. NothingBeforeLaunch'
  <2>1. \A w \in Runs : pc'[w] \in Early => pc[w] \in Early
    BY <1>1
  <2>2. QED
    BY <1>1, <2>1, StillNothingBeforeLaunch DEF IInv
<1>4. OnlySingleExecs'
  BY <1>1 DEF IInv, OnlySingleExecs
<1>5. CleanedForGood'
  BY <1>1 DEF IInv, CleanedForGood
<1>6. QED
  BY <1>2, <1>3, <1>4, <1>5 DEF IInv

\* The steps of the script that only move it on.
Moves(w) ==
  \/ RefusesToLaunch(w) \/ ReleaseFails(w) \/ TermUntrapped(w) \/ ExecEnds(w)
  \/ Checks(w) \/ ReleaseWorkerFails(w) \/ WaitEnds(w) \/ TermTrapped(w)

LEMMA MovesStep ==
  ASSUME IInv, NEW x \in Runs, Moves(x)
  PROVE  IInv'
<1>1. pc[x] \in Steps /\ (pc[x] \in Early => \A h \in Hosts : cont[h] # x)
  BY DEF IInv, TypeOK, NothingBeforeLaunch
<1>2. CASE RefusesToLaunch(x) \/ ReleaseFails(x) \/ TermUntrapped(x)
  <2>1. pc[x] \in Early /\ Goto(x, "gone") /\ UNCHANGED <<mode, term, starting, cont, history>>
    BY <1>2 DEF RefusesToLaunch, ReleaseFails, TermUntrapped, Early
  <2>2. QED
    BY <1>1, <2>1, MoveStep DEF Early
<1>3. CASE ExecEnds(x)
  <2>1. mode[x] = "single" /\ Goto(x, "gone") /\ UNCHANGED <<mode, term, starting, cont, history>>
    BY <1>3 DEF ExecEnds, IInv, OnlySingleExecs
  <2>2. QED
    BY <2>1, MoveStep DEF Early
<1>4. CASE Checks(x)
  <2>1. pc[x] = "checks" /\ UNCHANGED <<mode, term, starting, cont, history>>
    BY <1>4 DEF Checks
  <2>2. CASE Goto(x, "releaseWorker")
    <3>1. \A h \in Hosts : ~ PastCleanup(x, h)'
      BY <2>2 DEF IInv, TypeOK
    <3>2. QED
      BY <2>1, <2>2, <3>1, MoveStep DEF Early
  <2>3. CASE Goto(x, "gone")
    BY <1>1, <2>1, <2>3, MoveStep DEF Early
  <2>4. QED
    BY <1>4, <2>2, <2>3 DEF Checks
<1>5. ASSUME NEW step \in {"termLocal", "exitLocal"}, Goto(x, step),
             UNCHANGED <<mode, term, starting, cont, history>>
      PROVE  IInv'
  <2>1. \A h \in Hosts : ~ PastCleanup(x, h)'
    BY <1>5 DEF IInv, TypeOK
  <2>2. QED
    BY <1>5, <2>1, MoveStep DEF Early
<1>6. CASE ReleaseWorkerFails(x) \/ WaitEnds(x) \/ TermTrapped(x)
  BY <1>5, <1>6 DEF ReleaseWorkerFails, WaitEnds, TermTrapped
<1>7. QED
  BY <1>2, <1>3, <1>4, <1>6 DEF Moves

\* A step of the script itself.
LEMMA ScriptStep ==
  ASSUME IInv, NEW x \in Runs, Script(x)
  PROVE  IInv'
<1> USE DEF IInv, TypeOK, Early, NothingBeforeLaunch, OnlySingleExecs, CleanedForGood
<1>1. CASE Release(x)
  <2>1. cont' \in [Hosts -> 0 .. MaxRun] /\ hurt' \subseteq Runs /\ cont'["head"] = 0
        /\ \A h \in Hosts : cont'[h] = cont[h] \/ cont'[h] = 0
    BY <1>1, RemoveOnlyRemoves DEF Release
  <2>2. TypeOK'
    BY <1>1, <2>1 DEF Release
  <2>3. NothingBeforeLaunch'
    <3>1. \A w \in Runs : pc'[w] \in Early => pc[w] \in Early
      BY <1>1, <2>1 DEF Release
    <3>2. starting' = starting /\ \A w \in Runs, h \in Hosts : cont'[h] = w => cont[h] = w
      BY <1>1, <2>1 DEF Release
    <3>3. QED
      BY <3>1, <3>2, StillNothingBeforeLaunch
  <2>4. OnlySingleExecs'
    BY <1>1 DEF Release
  <2>5. CleanedForGood'
    BY <1>1, <2>1 DEF Release
  <2>6. QED
    BY <2>2, <2>3, <2>4, <2>5
<1>2. CASE Moves(x)
  BY <1>2, MovesStep
<1>3. CASE RunSingle(x)
  <2>1. /\ pc[x] = "run" /\ mode[x] = "single" /\ cont' = cont
        /\ starting' = starting \cup {<<x, "head">>}
        /\ pc' = [pc EXCEPT ![x] = "exec"]
        /\ UNCHANGED <<mode, term, cont, lost, late, hurt>>
    BY <1>3 DEF RunSingle
  <2>2. TypeOK'
    BY <2>1
  <2>3. NothingBeforeLaunch'
    <3>1. \A w \in Runs : pc'[w] \in Early => pc[w] \in Early /\ w # x
      BY <2>1
    <3>2. \A w \in Runs, h \in Hosts : w # x /\ <<w, h>> \in starting' => <<w, h>> \in starting
      BY <2>1
    <3>3. QED
      BY <2>1, <3>1, <3>2, StillNothingBeforeLaunch
  <2>4. OnlySingleExecs'
    BY <2>1
  <2>5. CleanedForGood'
    BY <2>1
  <2>6. QED
    BY <2>2, <2>3, <2>4, <2>5
<1>4. CASE ReleaseWorker(x)
  <2>1. cont' \in [Hosts -> 0 .. MaxRun] /\ hurt' \subseteq Runs /\ cont'["worker"] = 0
        /\ \A h \in Hosts : cont'[h] = cont[h] \/ cont'[h] = 0
    BY <1>4, RemoveOnlyRemoves DEF ReleaseWorker
  <2>2. TypeOK'
    BY <1>4, <2>1 DEF ReleaseWorker
  <2>3. NothingBeforeLaunch'
    <3>1. \A w \in Runs : pc'[w] \in Early => pc[w] \in Early
      BY <1>4, <2>1 DEF ReleaseWorker
    <3>2. starting' = starting /\ \A w \in Runs, h \in Hosts : cont'[h] = w => cont[h] = w
      BY <1>4, <2>1 DEF ReleaseWorker
    <3>3. QED
      BY <3>1, <3>2, StillNothingBeforeLaunch
  <2>4. OnlySingleExecs'
    BY <1>4 DEF ReleaseWorker
  <2>5. CleanedForGood'
    BY <1>4, <2>1 DEF ReleaseWorker
  <2>6. QED
    BY <2>2, <2>3, <2>4, <2>5
<1>5. CASE Ranks(x)
  <2>1. PICK step \in {"rank1", "rank0"}, g \in Hosts, next \in {"rank0", "wait"} : Rank(x, step, g, next)
    BY <1>5 DEF Ranks
  <2>2. TypeOK'
    BY <2>1 DEF Rank
  <2>3. NothingBeforeLaunch'
    <3>1. \A w \in Runs : pc'[w] \in Early => pc[w] \in Early /\ w # x
      BY <2>1 DEF Rank
    <3>2. starting' = starting \cup {<<x, g>>} /\ cont' = cont
      BY <2>1 DEF Rank
    <3>3. \A w \in Runs, h \in Hosts : w # x /\ <<w, h>> \in starting' => <<w, h>> \in starting
      BY <3>2
    <3>4. QED
      BY <3>1, <3>2, <3>3, StillNothingBeforeLaunch
  <2>4. OnlySingleExecs'
    BY <2>1 DEF Rank
  <2>5. CleanedForGood'
    BY <2>1 DEF Rank
  <2>6. QED
    BY <2>2, <2>3, <2>4, <2>5
<1>6. CASE CleanLocal(x)
  <2>1. cont' \in [Hosts -> 0 .. MaxRun] /\ hurt' \subseteq Runs /\ cont'["head"] = 0
        /\ \A h \in Hosts : cont'[h] = cont[h] \/ cont'[h] = 0
    BY <1>6, RemoveOnlyRemoves DEF CleanLocal
  <2>2. TypeOK'
    BY <1>6, <2>1 DEF CleanLocal
  <2>3. NothingBeforeLaunch'
    <3>1. \A w \in Runs : pc'[w] \in Early => pc[w] \in Early
      BY <1>6, <2>1 DEF CleanLocal
    <3>2. starting' = starting /\ \A w \in Runs, h \in Hosts : cont'[h] = w => cont[h] = w
      BY <1>6, <2>1 DEF CleanLocal
    <3>3. QED
      BY <3>1, <3>2, StillNothingBeforeLaunch
  <2>4. OnlySingleExecs'
    BY <1>6 DEF CleanLocal
  <2>5. CleanedForGood'
    BY <1>6, <2>1 DEF CleanLocal
  <2>6. QED
    BY <2>2, <2>3, <2>4, <2>5
<1>7. CASE CleanRemote(x)
  <2>1. /\ cont' \in [Hosts -> 0 .. MaxRun] /\ hurt' \subseteq Runs
        /\ \A h \in Hosts : cont'[h] = cont[h] \/ cont'[h] = 0
        /\ lost' \subseteq Runs /\ lost \subseteq lost'
        /\ cont'["worker"] = 0 \/ x \in lost'
    BY <1>7, RemoveOnlyRemoves DEF CleanRemote
  <2>2. TypeOK'
    BY <1>7, <2>1 DEF CleanRemote
  <2>3. NothingBeforeLaunch'
    <3>1. \A w \in Runs : pc'[w] \in Early => pc[w] \in Early
      BY <1>7, <2>1 DEF CleanRemote
    <3>2. starting' = starting /\ \A w \in Runs, h \in Hosts : cont'[h] = w => cont[h] = w
      BY <1>7, <2>1 DEF CleanRemote
    <3>3. QED
      BY <3>1, <3>2, StillNothingBeforeLaunch
  <2>4. OnlySingleExecs'
    BY <1>7 DEF CleanRemote
  <2>5. CleanedForGood'
    BY <1>7, <2>1 DEF CleanRemote
  <2>6. QED
    BY <2>2, <2>3, <2>4, <2>5
<1>8. QED
  BY <1>1, <1>2, <1>3, <1>4, <1>5, <1>6, <1>7 DEF Script, Moves

\* What the agent and the container runtimes do to it.
LEMMA OutsideStep ==
  ASSUME IInv, NEW x \in Runs, NEW g \in Hosts, Agent(x) \/ Create(x, g) \/ NotCreated(x, g) \/ RankExits(g)
  PROVE  IInv'
<1> USE DEF IInv, TypeOK, Early, NothingBeforeLaunch, OnlySingleExecs, CleanedForGood
<1>1. ASSUME NEW m \in {"single", "cluster"}, Start(x, m)
      PROVE  IInv'
  <2>1. /\ pc[x] = "unborn" /\ pc' = [pc EXCEPT ![x] = "release"]
        /\ mode' = [mode EXCEPT ![x] = m]
        /\ UNCHANGED <<term, starting, cont, lost, late, hurt>>
    BY <1>1 DEF Start
  <2>2. TypeOK'
    BY <2>1
  <2>3. NothingBeforeLaunch'
    <3>1. \A w \in Runs : pc'[w] \in Early => pc[w] \in Early
      BY <2>1
    <3>2. QED
      BY <2>1, <3>1, StillNothingBeforeLaunch
  <2>4. OnlySingleExecs'
    BY <2>1
  <2>5. CleanedForGood'
    BY <2>1
  <2>6. QED
    BY <2>2, <2>3, <2>4, <2>5
<1>2. CASE Term(x)
  BY <1>2 DEF Term
<1>3. CASE Kill(x)
  <2>1. /\ pc' = [pc EXCEPT ![x] = "gone"] /\ lost' = lost \cup {x}
        /\ UNCHANGED <<mode, term, starting, cont, late, hurt>>
    BY <1>3 DEF Kill
  <2>2. TypeOK'
    BY <2>1
  <2>3. NothingBeforeLaunch'
    <3>1. \A w \in Runs : pc'[w] \in Early => pc[w] \in Early
      BY <2>1
    <3>2. QED
      BY <2>1, <3>1, StillNothingBeforeLaunch
  <2>4. OnlySingleExecs' /\ CleanedForGood'
    BY <2>1
  <2>5. QED
    BY <2>2, <2>3, <2>4
<1>4. CASE Create(x, g)
  <2>1. /\ pc' = pc /\ mode' = mode /\ term' = term /\ lost' = lost /\ hurt' = hurt
        /\ <<x, g>> \in starting /\ starting' \subseteq starting
    BY <1>4 DEF Create
  <2>2. /\ cont' \in [Hosts -> 0 .. MaxRun]
        /\ \A h \in Hosts : cont'[h] = cont[h] \/ (h = g /\ cont'[h] = x)
    BY <1>4 DEF Create
  <2>3. /\ late' \subseteq Runs /\ late \subseteq late'
        /\ cont' = cont \/ ~PastCleanup(x, g) \/ x \in late'
    <3>1. CASE cont[g] = 0 /\ PastCleanup(x, g)
      <4>1. late' = late \cup {x}
        BY <1>4, <3>1 DEF Create
      <4>2. QED
        BY <4>1
    <3>2. CASE ~(cont[g] = 0 /\ PastCleanup(x, g))
      <4>1. late' = late /\ (cont[g] # 0 => cont' = cont)
        BY <1>4, <3>2 DEF Create
      <4>2. QED
        BY <3>2, <4>1
    <3>3. QED
      BY <3>1, <3>2
  <2>4. TypeOK'
    BY <2>1, <2>2, <2>3
  <2>5. NothingBeforeLaunch'
    <3>1. pc[x] \notin Early
      BY <2>1
    <3>2. QED
      BY <2>1, <2>2, <3>1, StillNothingBeforeLaunch
  <2>6. OnlySingleExecs'
    BY <2>1
  <2>7. CleanedForGood'
    BY <2>1, <2>2, <2>3
  <2>8. QED
    BY <2>4, <2>5, <2>6, <2>7
<1>5. CASE NotCreated(x, g)
  BY <1>5 DEF NotCreated
<1>6. CASE RankExits(g)
  BY <1>6 DEF RankExits
<1>7. QED
  BY <1>1, <1>2, <1>3, <1>4, <1>5, <1>6 DEF Agent

(* IInv holds in every state. *)
THEOREM Invariance == Spec => []IInv
<1>1. ASSUME IInv, [Next]_vars
      PROVE  IInv'
  <2>1. CASE \E w \in Runs : Script(w)
    BY <1>1, <2>1, ScriptStep
  <2>2. CASE \E w \in Runs, h \in Hosts : Agent(w) \/ Create(w, h) \/ NotCreated(w, h)
    BY <1>1, <2>2, OutsideStep
  <2>3. CASE \E h \in Hosts : RankExits(h)
    <3>1. PICK h \in Hosts : RankExits(h)
      BY <2>3
    <3>2. QED
      BY <1>1, <3>1
      DEF RankExits, IInv, TypeOK, NothingBeforeLaunch, OnlySingleExecs, CleanedForGood
  <2>4. CASE UNCHANGED vars
    BY <1>1, <2>4
    DEF vars, IInv, TypeOK, NothingBeforeLaunch, OnlySingleExecs, CleanedForGood
  <2>5. QED
    BY <1>1, <2>1, <2>2, <2>3, <2>4 DEF Next, Runtime
<1>2. QED
  BY <1>1, InitIInv, PTL DEF Spec

(* Every variable keeps its type. *)
THEOREM TypeCorrect == Spec => []TypeOK
<1>1. IInv => TypeOK
  BY DEF IInv
<1>2. QED
  BY <1>1, Invariance, PTL

(* However many runs overlap on a slot, a cluster run that ended leaves no
   container behind, unless it was killed, could not reach the worker or a
   container came after the last cleanup. *)
THEOREM ClusterRunsCleanUp == Spec => []CleanExit
<1>1. IInv => CleanExit
  BY DEF IInv, CleanedForGood, CleanExit
<1>2. QED
  BY <1>1, Invariance, PTL
=============================================================================
