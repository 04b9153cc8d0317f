--------------------------- MODULE SchedulerProofs ---------------------------
(***************************************************************************)
(* Proofs about the scheduler's blocks and steps in flight, for any        *)
(* requests, blocks, limits and number of steps:                           *)
(*   EveryBlockInOnePlace  every KV block is in one place                  *)
(*                         (EveryBlockOnce);                               *)
(*   PrefillsStayGated     the hotfix's gate bounds the set it counts;     *)
(*   EveryFenceIsReached   a deferred block waits for a step in flight     *)
(*                         (FencesAreReached);                             *)
(*   NoBlockIsReused       no block a step in flight writes is given away  *)
(*                         (NoReuseInFlight);                              *)
(*   TransfersAreKept      a request whose KV is being loaded or sent      *)
(*                         keeps the blocks of the transfer                *)
(*                         (TransfersKeepBlocks);                          *)
(*   HoldersAreExact       a request counts as many placeholders as the    *)
(*                         steps in flight may yet sample of it            *)
(*                         (HoldersExact).                                 *)
(* The last three rest on where the requests are (SchedulerQueueProofs).   *)
(***************************************************************************)
EXTENDS SchedulerQueueProofs

USE SchedulerAssumption

\* Every block is in one place, and what is held are sets of blocks.
BlocksInv ==
  /\ free \subseteq Blocks
  /\ held \in [Requests -> SUBSET Blocks]
  /\ \A d \in deferred : d[2] \in Blocks
  /\ EveryBlockOnce

\* The parts of EveryBlockOnce.
NothingLeaks ==
  \A b \in Blocks : \/ b \in free
                    \/ \E d \in deferred : d[2] = b
                    \/ \E r \in Requests : b \in held[r]
HeldOnce ==
  /\ \A r \in Requests : \A b \in held[r] : b \notin free
  /\ \A r, q \in Requests : \A b \in held[r] : b \in held[q] => r = q
DeferredOnce ==
  /\ \A d \in deferred : d[2] \notin free /\ \A r \in Requests : d[2] \notin held[r]
  /\ \A d, e \in deferred : d[2] = e[2] => d = e

-----------------------------------------------------------------------------
(* The ways blocks move.                                                   *)

LEMMA Parts ==
  EveryBlockOnce <=> NothingLeaks /\ HeldOnce /\ DeferredOnce
<1>1. (\A r \in Requests : held[r] \cap free = {})
        <=> \A r \in Requests : \A b \in held[r] : b \notin free
  OBVIOUS
<1>2. (\A r, q \in Requests : held[r] \cap held[q] # {} => r = q)
        <=> \A r, q \in Requests : \A b \in held[r] : b \in held[q] => r = q
  OBVIOUS
<1>3. QED
  BY <1>1, <1>2, Zenon DEF EveryBlockOnce, NothingLeaks, HeldOnce, DeferredOnce

\* Of the blocks of the requests in S, those of the requests in N go back to the
\* pool and the others wait for step n.
LEMMA MovedOnce ==
  ASSUME BlocksInv, NEW S \in SUBSET Requests, NEW N \in SUBSET S, NEW n,
         held' = [r \in Requests |-> IF r \in S THEN {} ELSE held[r]],
         free' = free \cup UNION {held[r] : r \in N},
         deferred' = deferred \cup {<<n, b>> : b \in UNION {held[r] : r \in S \ N}}
  PROVE  BlocksInv'
<1>1. /\ free \subseteq Blocks /\ held \in [Requests -> SUBSET Blocks]
      /\ NothingLeaks /\ HeldOnce /\ DeferredOnce
  BY Parts DEF BlocksInv
<1>2. \A b : b \in free' <=> b \in free \/ \E r \in N : b \in held[r]
  OBVIOUS
<1>3. \A r \in Requests : held'[r] = IF r \in S THEN {} ELSE held[r]
  OBVIOUS
<1>4. \A d : d \in deferred' <=> d \in deferred \/ \E r \in S \ N : \E b \in held[r] : d = <<n, b>>
  OBVIOUS
<1>5. free' \subseteq Blocks /\ held' \in [Requests -> SUBSET Blocks]
  BY <1>1, <1>2
<1>6. NothingLeaks'
  <2> SUFFICES ASSUME NEW b \in Blocks, b \notin free', \A r \in Requests : b \notin held'[r]
               PROVE  \E d \in deferred' : d[2] = b
    BY DEF NothingLeaks
  <2>1. CASE \E d \in deferred : d[2] = b
    BY <2>1, <1>4
  <2>2. CASE \E r \in Requests : b \in held[r]
    <3>1. PICK r \in Requests : b \in held[r]
      BY <2>2
    <3>2. r \in S \ N
      BY <3>1, <1>2, <1>3
    <3>3. <<n, b>> \in deferred' /\ <<n, b>>[2] = b
      BY <3>1, <3>2, <1>4
    <3>4. QED
      BY <3>3
  <2>3. QED
    BY <2>1, <2>2, <1>1, <1>2 DEF NothingLeaks
<1>7. HeldOnce'
  <2>1. ASSUME NEW r \in Requests, NEW b \in held'[r]
        PROVE  b \notin free'
    <3>1. r \notin S /\ b \in held[r]
      BY <2>1, <1>3
    <3>2. b \notin free /\ \A q \in N : b \notin held[q]
      BY <3>1, <1>1 DEF HeldOnce
    <3>3. QED
      BY <3>2, <1>2
  <2>2. ASSUME NEW r \in Requests, NEW q \in Requests, NEW b \in held'[r], b \in held'[q]
        PROVE  r = q
    <3>1. b \in held[r] /\ b \in held[q]
      BY <2>2, <1>3
    <3>2. QED
      BY <3>1, <1>1 DEF HeldOnce
  <2>3. QED
    BY <2>1, <2>2 DEF HeldOnce
<1>8. DeferredOnce'
  <2>1. ASSUME NEW d \in deferred'
        PROVE  d[2] \notin free' /\ \A r \in Requests : d[2] \notin held'[r]
    <3>1. CASE d \in deferred
      <4>1. d[2] \notin free /\ \A r \in Requests : d[2] \notin held[r]
        BY <3>1, <1>1 DEF DeferredOnce
      <4>2. QED
        BY <4>1, <1>2, <1>3
    <3>2. CASE d \notin deferred
      <4>1. PICK q \in S \ N : d[2] \in held[q]
        BY <2>1, <3>2, <1>4
      <4>2. d[2] \notin free /\ \A r \in Requests : d[2] \in held[r] => r = q
        BY <4>1, <1>1 DEF HeldOnce
      <4>3. QED
        BY <4>1, <4>2, <1>2, <1>3
    <3>3. QED
      BY <3>1, <3>2
  <2>2. ASSUME NEW d \in deferred', NEW e \in deferred', d[2] = e[2]
        PROVE  d = e
    <3>1. CASE d \in deferred /\ e \in deferred
      BY <3>1, <2>2, <1>1 DEF DeferredOnce
    <3>2. CASE d \notin deferred /\ e \notin deferred
      <4>1. /\ \E b : d = <<n, b>>
            /\ \E b : e = <<n, b>>
        BY <2>2, <3>2, <1>4
      <4>2. QED
        BY <4>1, <2>2
    <3>3. CASE ~ (d \in deferred <=> e \in deferred)
      <4>1. \A c \in deferred' : c \notin deferred => \E r \in Requests : c[2] \in held[r]
        BY <1>4
      <4>2. QED
        BY <4>1, <2>2, <3>3, <1>1 DEF DeferredOnce
    <3>4. QED
      BY <3>1, <3>2, <3>3
  <2>3. QED
    BY <2>1, <2>2, Zenon DEF DeferredOnce
<1>9. EveryBlockOnce'
  <2>1. (EveryBlockOnce <=> NothingLeaks /\ HeldOnce /\ DeferredOnce)'
    BY Parts, PTL
  <2>2. QED
    BY <2>1, <1>6, <1>7, <1>8
<1>10. \A d \in deferred' : d[2] \in Blocks
  BY <1>1, <1>4 DEF BlocksInv
<1>11. QED
  BY <1>5, <1>9, <1>10 DEF BlocksInv

\* _free_request_blocks: now are the requests no step in flight writes for.
LEMMA FreeBlocksKeeps ==
  ASSUME BlocksInv, NEW S \in SUBSET Requests, FreeBlocks(S)
  PROVE  BlocksInv'
<1> DEFINE now == {r \in S : ~ DeferBlockFree \/ lastSeq[r] <= processedSeq}
<1>1. now \in SUBSET S
  OBVIOUS
<1>2. /\ held' = [r \in Requests |-> IF r \in S THEN {} ELSE held[r]]
      /\ free' = free \cup UNION {held[r] : r \in now}
      /\ deferred' = deferred \cup {<<schedSeq, b>> : b \in UNION {held[r] : r \in S \ now}}
  BY Zenon DEF FreeBlocks
<1> HIDE DEF now
<1>3. QED
  BY <1>1, <1>2, MovedOnce

\* allocate_slots: blocks that were free are now the request's.
LEMMA TakenOnce ==
  ASSUME BlocksInv, NEW r \in Requests, NEW B \in SUBSET free,
         free' = free \ B, held' = [held EXCEPT ![r] = @ \cup B], UNCHANGED deferred
  PROVE  BlocksInv'
<1>1. /\ free \subseteq Blocks /\ held \in [Requests -> SUBSET Blocks]
      /\ NothingLeaks /\ HeldOnce /\ DeferredOnce
  BY Parts DEF BlocksInv
<1>2. /\ held'[r] = held[r] \cup B
      /\ \A q \in Requests : q # r => held'[q] = held[q]
  BY <1>1
<1>3. free' \subseteq Blocks /\ held' \in [Requests -> SUBSET Blocks]
  BY <1>1
<1>4. NothingLeaks'
  BY <1>1, <1>2 DEF NothingLeaks
<1>5. \A q \in Requests : \A b \in B : b \notin held[q]
  BY <1>1 DEF HeldOnce
<1>6. HeldOnce'
  BY <1>1, <1>2, <1>5 DEF HeldOnce
<1>7. DeferredOnce'
  BY <1>1, <1>2 DEF DeferredOnce
<1>8. (EveryBlockOnce <=> NothingLeaks /\ HeldOnce /\ DeferredOnce)'
  BY Parts, PTL
<1>9. QED
  BY <1>3, <1>4, <1>6, <1>7, <1>8 DEF BlocksInv

\* _drain_deferred_frees: blocks that waited are free.
LEMMA DrainedOnce ==
  ASSUME BlocksInv, NEW D \in SUBSET deferred,
         deferred' = deferred \ D, free' = free \cup {d[2] : d \in D}, UNCHANGED held
  PROVE  BlocksInv'
<1>1. /\ free \subseteq Blocks /\ held \in [Requests -> SUBSET Blocks]
      /\ NothingLeaks /\ HeldOnce /\ DeferredOnce
  BY Parts DEF BlocksInv
<1>2. free' \subseteq Blocks /\ \A d \in deferred' : d[2] \in Blocks
  BY <1>1 DEF BlocksInv
<1>3. NothingLeaks'
  BY <1>1 DEF NothingLeaks
<1>4. HeldOnce'
  BY <1>1 DEF HeldOnce, DeferredOnce
<1>5. DeferredOnce'
  BY <1>1 DEF DeferredOnce
<1>6. (EveryBlockOnce <=> NothingLeaks /\ HeldOnce /\ DeferredOnce)'
  BY Parts, PTL
<1>7. QED
  BY <1>1, <1>2, <1>3, <1>4, <1>5, <1>6 DEF BlocksInv

\* A step that moves no block.
LEMMA UnmovedOnce ==
  ASSUME BlocksInv, UNCHANGED kvVars
  PROVE  BlocksInv'
  BY Zenon DEF BlocksInv, EveryBlockOnce, kvVars

-----------------------------------------------------------------------------
(* The steps.                                                              *)

\* The requests that finish give up their blocks, except those a transfer needs.
LEMMA FreeRequestsKeeps ==
  ASSUME BlocksInv, NEW S \in SUBSET Requests, NEW loads, FreeRequests(S, loads)
  PROVE  BlocksInv'
<1>1. PICK K : FreeBlocks(S \ K)
  BY DEF FreeRequests
<1>2. S \ K \in SUBSET Requests
  OBVIOUS
<1>3. QED
  BY <1>1, <1>2, FreeBlocksKeeps

LEMMA FinishRequestKeeps ==
  ASSUME BlocksInv, NEW r \in Requests, FinishRequest(r)
  PROVE  BlocksInv'
<1>1. \E loads : FreeRequests({r}, loads)
  BY DEF FinishRequest
<1>2. {r} \in SUBSET Requests
  OBVIOUS
<1>3. QED
  BY <1>1, <1>2, FreeRequestsKeeps

\* What comes from outside.
LEMMA RequestStepKeeps ==
  ASSUME BlocksInv, RequestStep
  PROVE  BlocksInv'
<1>1. ASSUME NEW r \in Requests, AddRequest(r) \/ SendUpdate(r) \/ GrammarCompiled(r)
      PROVE  BlocksInv'
  <2>1. UNCHANGED kvVars
    BY <1>1 DEF AddRequest, SendUpdate, GrammarCompiled
  <2>2. QED
    BY <2>1, UnmovedOnce
<1>2. ASSUME NEW r \in Requests, EndSession(r)
      PROVE  BlocksInv'
  <2>1. UNCHANGED kvVars \/ FinishRequest(r)
    BY <1>2 DEF EndSession
  <2>2. QED
    BY <2>1, UnmovedOnce, FinishRequestKeeps
<1>3. ASSUME NEW r \in Requests, Abort(r)
      PROVE  BlocksInv'
  <2>1. FinishRequest(r)
    BY <1>3 DEF Abort
  <2>2. QED
    BY <2>1, FinishRequestKeeps
<1>4. ASSUME NEW state \in PauseState, Pause(state)
      PROVE  BlocksInv'
  <2>1. UNCHANGED kvVars
    BY <1>4 DEF Pause
  <2>2. QED
    BY <2>1, UnmovedOnce
<1>5. ASSUME ResetPrefixCache
      PROVE  BlocksInv'
  <2>1. PICK S \in SUBSET Requests : FreeBlocks(S)
    BY <1>5 DEF ResetPrefixCache, Preempt
  <2>2. QED
    BY <2>1, FreeBlocksKeeps
<1>6. QED
  BY <1>1, <1>2, <1>3, <1>4, <1>5 DEF RequestStep

\* schedule().
LEMMA ScheduleStepKeeps ==
  ASSUME BlocksInv, ScheduleStep
  PROVE  BlocksInv'
<1>1. CASE SkipRunning \/ EndRunning \/ SkipBlocked \/ SkipUndecided
  <2>1. UNCHANGED kvVars
    BY <1>1 DEF SkipRunning, EndRunning, SkipBlocked, SkipUndecided, SkipCandidate
  <2>2. QED
    BY <2>1, UnmovedOnce
<1>2. CASE EndWaiting \/ FinishSchedule
  <2>1. UNCHANGED kvVars
    BY <1>2 DEF EndWaiting, FinishSchedule
  <2>2. QED
    BY <2>1, UnmovedOnce
<1>3. ASSUME NEW r \in Requests, ScheduleRunning(r)
      PROVE  BlocksInv'
  <2>1. PICK B \in SUBSET free : /\ free' = free \ B /\ held' = [held EXCEPT ![r] = @ \cup B]
                                  /\ UNCHANGED deferred
    BY <1>3 DEF ScheduleRunning, Grabs
  <2>2. QED
    BY <2>1, TakenOnce
<1>4. ASSUME NEW r \in Requests, PreemptLast(r)
      PROVE  BlocksInv'
  <2>1. FreeBlocks({r}) /\ {r} \in SUBSET Requests
    BY <1>4 DEF PreemptLast, Preempt
  <2>2. QED
    BY <2>1, FreeBlocksKeeps
<1>5. ASSUME NEW r \in Requests, Promote(r)
      PROVE  BlocksInv'
  <2> DEFINE S == IF r \in failedRecv /\ computed[r] = 0 THEN {r} ELSE {}
  <2>1. /\ S \in SUBSET Requests
        /\ held' = [q \in Requests |-> IF q \in S THEN {} ELSE held[q]]
        /\ free' = free \cup UNION {held[q] : q \in S}
        /\ UNCHANGED deferred
    BY <1>5 DEF Promote, BlocksInv
  <2>2. deferred' = deferred \cup {<<0, b>> : b \in UNION {held[q] : q \in S \ S}}
    BY <2>1
  <2> HIDE DEF S
  <2>3. QED
    BY <2>1, <2>2, MovedOnce
<1>6. ASSUME NEW r \in Requests, AdmitLoad(r)
      PROVE  BlocksInv'
  <2>1. PICK B \in SUBSET free : /\ free' = free \ B /\ held' = [held EXCEPT ![r] = @ \cup B]
                                  /\ UNCHANGED deferred
    BY <1>6 DEF AdmitLoad, Allocate, Grabs
  <2>2. QED
    BY <2>1, TakenOnce
<1>7. ASSUME NEW r \in Requests, Admit(r)
      PROVE  BlocksInv'
  <2>1. PICK B \in SUBSET free : /\ free' = free \ B /\ held' = [held EXCEPT ![r] = @ \cup B]
                                  /\ UNCHANGED deferred
    BY <1>7 DEF Admit, Allocate, Grabs
  <2>2. QED
    BY <2>1, TakenOnce
<1>8. QED
  BY <1>1, <1>2, <1>3, <1>4, <1>5, <1>6, <1>7 DEF ScheduleStep

\* update_from_output(): blocks that waited for the step are freed first.
LEMMA BeginStepKeeps ==
  ASSUME BlocksInv, NEW skip, NEW failing, BeginStep(skip, failing)
  PROVE  BlocksInv'
<1>1. PICK seq : /\ deferred' = deferred \ Drained(seq)
                 /\ free' = free \cup {d[2] : d \in Drained(seq)}
  BY DEF BeginStep
<1>2. UNCHANGED held
  BY DEF BeginStep
<1>3. Drained(seq) \in SUBSET deferred
  BY DEF Drained
<1>4. QED
  BY <1>1, <1>2, <1>3, DrainedOnce

LEMMA UpdateStepKeeps ==
  ASSUME BlocksInv, UpdateStep
  PROVE  BlocksInv'
<1>1. CASE IgnoreOutput \/ RemoveStopped
  <2>1. UNCHANGED kvVars
    BY <1>1 DEF IgnoreOutput, RemoveStopped
  <2>2. QED
    BY <2>1, UnmovedOnce
<1>2. CASE FailRequests
  <2>1. UNCHANGED kvVars \/ \E r \in Requests : FinishRequest(r)
    BY <1>2 DEF FailRequests
  <2>2. QED
    BY <2>1, UnmovedOnce, FinishRequestKeeps
<1>3. ASSUME NEW r \in Requests, OutputGoesOn(r) \/ SessionGoesOn(r) \/ SessionPauses(r)
      PROVE  BlocksInv'
  <2>1. UNCHANGED kvVars
    BY <1>3 DEF OutputGoesOn, SessionGoesOn, SessionPauses
  <2>2. QED
    BY <2>1, UnmovedOnce
<1>4. ASSUME NEW r \in Requests, OutputFinishes(r)
      PROVE  BlocksInv'
  <2>1. FreeRequests({r}, {}) /\ {r} \in SUBSET Requests
    BY <1>4 DEF OutputFinishes
  <2>2. QED
    BY <2>1, FreeRequestsKeeps
<1>5. ASSUME NEW R \in SUBSET Requests, NEW S \in SUBSET Requests, FinishUpdate(R, S)
      PROVE  BlocksInv'
  <2>1. PICK G \in SUBSET Requests : FreeBlocks(G)
    BY <1>5 DEF FinishUpdate
  <2>2. QED
    BY <2>1, FreeBlocksKeeps
<1>6. QED
  BY <1>1, <1>2, <1>3, <1>4, <1>5 DEF UpdateStep

LEMMA BlocksAlways == Spec => []BlocksInv
<1>1. Init => BlocksInv
  BY DEF Init, BlocksInv, EveryBlockOnce
<1>2. BlocksInv /\ [Next]_vars => BlocksInv'
  <2> SUFFICES ASSUME BlocksInv, [Next]_vars
               PROVE  BlocksInv'
    OBVIOUS
  <2>1. ASSUME NEW throttle \in BOOLEAN, BeginSchedule(throttle)
        PROVE  BlocksInv'
    <3>1. UNCHANGED kvVars
      BY <2>1 DEF BeginSchedule
    <3>2. QED
      BY <3>1, UnmovedOnce
  <2>2. CASE BeginUpdate \/ FailLoad \/ FailSyncLoad
    <3>1. \E skip, failing : BeginStep(skip, failing)
      BY <2>2 DEF BeginUpdate, FailLoad, FailSyncLoad
    <3>2. QED
      BY <3>1, BeginStepKeeps
  <2>3. CASE UNCHANGED vars
    <3>1. UNCHANGED kvVars
      BY <2>3 DEF vars
    <3>2. QED
      BY <3>1, UnmovedOnce
  <2>4. QED
    BY <2>1, <2>2, <2>3, RequestStepKeeps, ScheduleStepKeeps, UpdateStepKeeps DEF Next
<1>3. QED
  BY <1>1, <1>2, PTL DEF Spec

\* Every KV block is free, waits for a step in flight or belongs to one request,
\* for any number of requests, blocks and steps (scheduler.py:2145-2172).
THEOREM EveryBlockInOnePlace == Spec => []EveryBlockOnce
<1>1. BlocksInv => EveryBlockOnce
  BY DEF BlocksInv
<1>2. QED
  BY <1>1, BlocksAlways, PTL

-----------------------------------------------------------------------------
(* The gate of the hotfix.                                                 *)

\* What the gate counts is finite and within the limit.
PrefillsGated ==
  /\ IsFiniteSet(inflight)
  /\ MaxPartialPrefills > 0 => Cardinality(inflight) <= MaxPartialPrefills

\* Any step may take requests out of the set; one is added only behind the gate.
LEMMA GatedAdmission ==
  ASSUME PrefillsGated,
         \/ inflight' \subseteq inflight
         \/ GateOpen /\ \E r : inflight' = inflight \cup {r}
  PROVE  PrefillsGated'
<1>1. /\ IsFiniteSet(inflight) /\ Cardinality(inflight) \in Nat
      /\ MaxPartialPrefills \in Nat
  BY FS_CardinalityType DEF PrefillsGated, SchedulerAssumption
<1>2. CASE inflight' \subseteq inflight
  <2>1. IsFiniteSet(inflight') /\ Cardinality(inflight') <= Cardinality(inflight)
    BY <1>1, <1>2, FS_Subset
  <2>2. Cardinality(inflight') \in Nat
    BY <2>1, FS_CardinalityType
  <2>3. QED
    BY <1>1, <2>1, <2>2 DEF PrefillsGated
<1>3. ASSUME GateOpen, NEW r, inflight' = inflight \cup {r}
      PROVE  PrefillsGated'
  <2>1. /\ IsFiniteSet(inflight')
        /\ \/ Cardinality(inflight') = Cardinality(inflight)
           \/ Cardinality(inflight') = Cardinality(inflight) + 1
    BY <1>1, <1>3, FS_AddElement
  <2>2. MaxPartialPrefills > 0 => Cardinality(inflight) < MaxPartialPrefills
    BY <1>1, <1>3 DEF GateOpen
  <2>3. QED
    BY <1>1, <2>1, <2>2 DEF PrefillsGated
<1>4. QED
  BY <1>2, <1>3

\* However requests are admitted, loaded, preempted, resumed, aborted and paused,
\* the prefills that are in flight never exceed max_num_partial_prefills: the set
\* grows by one, and only where the hotfix looked at it in the same call
\* (scheduler.py:647-660).
THEOREM PrefillsStayGated == Spec => []PrefillsGated
<1>1. Init => PrefillsGated
  BY FS_EmptySet DEF Init, PrefillsGated, SchedulerAssumption
<1>2. PrefillsGated /\ [Next]_vars => PrefillsGated'
  <2> SUFFICES ASSUME PrefillsGated, [Next]_vars
               PROVE  PrefillsGated'
    OBVIOUS
  <2>1. ASSUME RequestStep
        PROVE  inflight' \subseteq inflight
    <3>1. ASSUME NEW r \in Requests, FinishRequest(r)
          PROVE  inflight' \subseteq inflight
      BY <3>1 DEF FinishRequest, FreeRequests
    <3>2. CASE \E r \in Requests : AddRequest(r) \/ SendUpdate(r) \/ GrammarCompiled(r)
      BY <3>2 DEF AddRequest, SendUpdate, GrammarCompiled
    <3>3. CASE \E r \in Requests : EndSession(r) \/ Abort(r)
      BY <3>1, <3>3 DEF EndSession, Abort
    <3>4. CASE (\E state \in PauseState : Pause(state)) \/ ResetPrefixCache
      BY <3>4 DEF Pause, ResetPrefixCache, Preempt
    <3>5. QED
      BY <2>1, <3>2, <3>3, <3>4 DEF RequestStep
  <2>2. ASSUME ScheduleStep
        PROVE  \/ inflight' \subseteq inflight
               \/ GateOpen /\ \E r : inflight' = inflight \cup {r}
    <3>1. CASE SkipRunning \/ EndRunning \/ SkipBlocked \/ SkipUndecided \/ EndWaiting
      BY <3>1 DEF SkipRunning, EndRunning, SkipBlocked, SkipUndecided, SkipCandidate, EndWaiting
    <3>2. CASE FinishSchedule
      BY <3>2 DEF FinishSchedule
    <3>3. CASE \E r \in Requests : ScheduleRunning(r) \/ PreemptLast(r) \/ Promote(r)
      BY <3>3 DEF ScheduleRunning, PreemptLast, Preempt, Promote
    <3>4. CASE \E r \in Requests : AdmitLoad(r)
      BY <3>4 DEF AdmitLoad, CanBeAdmitted, MayAdmit
    <3>5. CASE \E r \in Requests : Admit(r)
      <4>1. PICK r \in Requests : Admit(r)
        BY <3>5
      <4>2. GateOpen
        BY <4>1 DEF Admit, CanBeAdmitted, MayAdmit
      <4>3. inflight' = inflight \cup {r} \/ inflight' = inflight
        BY <4>1 DEF Admit
      <4>4. QED
        BY <4>2, <4>3
    <3>6. QED
      BY <2>2, <3>1, <3>2, <3>3, <3>4, <3>5 DEF ScheduleStep
  <2>3. ASSUME UpdateStep
        PROVE  inflight' \subseteq inflight
    <3>1. CASE IgnoreOutput \/ RemoveStopped
      BY <3>1 DEF IgnoreOutput, RemoveStopped
    <3>2. CASE FailRequests
      BY <3>2 DEF FailRequests, FinishRequest, FreeRequests
    <3>3. CASE \E r \in Requests : \/ OutputGoesOn(r) \/ OutputFinishes(r)
                                   \/ SessionGoesOn(r) \/ SessionPauses(r)
      BY <3>3 DEF OutputGoesOn, OutputFinishes, FreeRequests, SessionGoesOn, SessionPauses
    <3>4. CASE \E R, S \in SUBSET Requests : FinishUpdate(R, S)
      BY <3>4 DEF FinishUpdate
    <3>5. QED
      BY <2>3, <3>1, <3>2, <3>3, <3>4 DEF UpdateStep
  <2>4. CASE \E throttle \in BOOLEAN : BeginSchedule(throttle)
    <3>1. UNCHANGED inflight
      BY <2>4 DEF BeginSchedule
    <3>2. QED
      BY <3>1, GatedAdmission
  <2>5. CASE BeginUpdate \/ FailLoad \/ FailSyncLoad
    <3>1. \E skip, failing : BeginStep(skip, failing)
      BY <2>5 DEF BeginUpdate, FailLoad, FailSyncLoad
    <3>2. UNCHANGED inflight
      BY <3>1 DEF BeginStep
    <3>3. QED
      BY <3>2, GatedAdmission
  <2>6. CASE UNCHANGED vars
    <3>1. UNCHANGED inflight
      BY <2>6 DEF vars
    <3>2. QED
      BY <3>1, GatedAdmission
  <2>7. QED
    BY <2>1, <2>2, <2>3, <2>4, <2>5, <2>6, GatedAdmission DEF Next
<1>3. QED
  BY <1>1, <1>2, PTL DEF Spec
-----------------------------------------------------------------------------
(* The fence.                                                              *)

Busy(step) == step.order # <<>>

\* The steps that are not empty are numbered one by one, in the order they were
\* scheduled; those in flight have the numbers after processedSeq, up to schedSeq.
Numbered ==
  /\ schedSeq \in Nat /\ processedSeq \in Nat /\ processedSeq <= schedSeq
  /\ \A i \in 1 .. Len(flight) : Busy(flight[i]) =>
       flight[i].seq \in (processedSeq + 1) .. schedSeq
  /\ \A i, j \in 1 .. Len(flight) : i < j /\ Busy(flight[i]) /\ Busy(flight[j]) =>
       flight[i].seq < flight[j].seq
  /\ \A n \in (processedSeq + 1) .. schedSeq : \E i \in 1 .. Len(flight) :
       Busy(flight[i]) /\ flight[i].seq = n

\* Every fence is one of those numbers, and a request's last step is not ahead of them.
Fenced ==
  /\ lastSeq \in [Requests -> Nat] /\ \A r \in Requests : lastSeq[r] <= schedSeq
  /\ \A d \in deferred : d[1] \in (processedSeq + 1) .. schedSeq

\* The steps in flight, and the requests of the step in the making, are sequences.
Sequences ==
  /\ \E S : flight \in Seq(S)
  /\ "order" \in DOMAIN call /\ call.order \in Seq(Requests)

FenceInv ==
  /\ Sequences
  /\ ~ DeferBlockFree => deferred = {}
  /\ DeferBlockFree => Numbered /\ Fenced

fenceFacts == <<deferred, schedSeq, processedSeq, lastSeq, flight, maxBatches>>

LEMMA UnfencedKeeps ==
  ASSUME FenceInv, UNCHANGED fenceFacts, call'.order \in Seq(Requests), "order" \in DOMAIN call'
  PROVE  FenceInv'
  BY DEF FenceInv, fenceFacts, Sequences, Numbered, Fenced, Busy, DeferBlockFree, HasConnector

\* _free_request_blocks: the last step scheduled so far is still in flight when the
\* last step of the request is.
LEMMA FreeBlocksFences ==
  ASSUME FenceInv, NEW S \in SUBSET Requests, FreeBlocks(S),
         UNCHANGED <<schedSeq, processedSeq, lastSeq, flight, maxBatches>>,
         "order" \in DOMAIN call', call'.order \in Seq(Requests)
  PROVE  FenceInv'
<1>1. UNCHANGED DeferBlockFree
  BY DEF DeferBlockFree, HasConnector
<1>2. Sequences'
  BY DEF FenceInv, Sequences
<1>3. CASE ~ DeferBlockFree
  <2>1. deferred' = deferred
    BY <1>3 DEF FreeBlocks
  <2>2. QED
    BY <1>1, <1>2, <1>3, <2>1 DEF FenceInv
<1>4. CASE DeferBlockFree
  <2>1. Numbered /\ Fenced
    BY <1>4 DEF FenceInv
  <2>2. Numbered'
    BY <2>1 DEF Numbered, Busy
  <2>3. ASSUME NEW d \in deferred', d \notin deferred
        PROVE  d[1] \in (processedSeq + 1) .. schedSeq
    <3>1. d[1] = schedSeq /\ \E r \in S : ~ (lastSeq[r] <= processedSeq)
      BY <2>3, <1>4 DEF FreeBlocks
    <3>2. QED
      BY <3>1, <2>1 DEF Fenced, Numbered
  <2>4. Fenced'
    BY <2>1, <2>3 DEF Fenced
  <2>5. QED
    BY <1>1, <1>2, <1>4, <2>2, <2>4 DEF FenceInv
<1>5. QED
  BY <1>3, <1>4

\* _update_after_schedule: a step with tokens gets the next number.
LEMMA FinishScheduleFences ==
  ASSUME FenceInv, FinishSchedule
  PROVE  FenceInv'
<1> DEFINE seq == IF DeferBlockFree /\ ToSet(call.order) # {} THEN schedSeq + 1 ELSE schedSeq
<1>1. /\ UNCHANGED <<deferred, processedSeq, maxBatches, DeferBlockFree>> /\ schedSeq' = seq
      /\ lastSeq' = [r \in Requests |-> IF DeferBlockFree /\ r \in ToSet(call.order)
                                        THEN seq ELSE lastSeq[r]]
      /\ call' = NoCall
  BY DEF FinishSchedule, kvVars, miscVars, configVars, DeferBlockFree, HasConnector
<1>2. PICK step : /\ flight' = Append(flight, step)
                  /\ step.seq = seq /\ step.order = call.order
  <2> DEFINE S == ToSet(call.order)
             done == [r \in Requests |-> computed[r] + call.sched[r]]
             partial == {r \in S : done[r] < tokens[r] + holders[r]}
             uses == UNION {{r} \X held[r] : r \in S}
             new == [seq |-> seq, order |-> call.order, sched |-> call.sched,
                     spec |-> call.spec, samples |-> S \ partial, uses |-> uses,
                     loads |-> call.loads]
  <2>1. flight' = Append(flight, new)
    BY Zenon DEF FinishSchedule
  <2> HIDE DEF partial, uses
  <2>2. new.seq = seq /\ new.order = call.order
    OBVIOUS
  <2> HIDE DEF new
  <2>3. QED
    BY <2>1, <2>2
<1>3. PICK T : flight \in Seq(T)
  BY DEF FenceInv, Sequences
<1>4. /\ flight \in Seq(T \cup {step}) /\ Len(flight) \in Nat
      /\ flight' \in Seq(T \cup {step}) /\ Len(flight') = Len(flight) + 1
      /\ \A i \in 1 .. Len(flight) : flight'[i] = flight[i]
      /\ flight'[Len(flight) + 1] = step
  BY <1>2, <1>3
<1>5. Busy(step) <=> ToSet(call.order) # {}
  <2>1. call.order \in Seq(Requests)
    BY DEF FenceInv, Sequences
  <2>2. CASE call.order = <<>>
    BY <1>2, <2>2 DEF Busy, ToSet
  <2>3. CASE call.order # <<>>
    <3>1. 1 \in DOMAIN call.order
      BY <2>1, <2>3
    <3>2. call.order[1] \in ToSet(call.order)
      BY <3>1 DEF ToSet
    <3>3. QED
      BY <1>2, <2>3, <3>2 DEF Busy
  <2>4. QED
    BY <2>2, <2>3
<1>6. Sequences'
  <2>1. NoCall.order = <<>> /\ "order" \in DOMAIN NoCall
    BY DEF NoCall
  <2>2. QED
    BY <1>1, <1>4, <2>1 DEF Sequences
<1>7. CASE ~ DeferBlockFree
  BY <1>1, <1>6, <1>7 DEF FenceInv
<1>8. CASE DeferBlockFree
  <2> HIDE DEF seq
  <2>1. Numbered /\ Fenced
    BY <1>8 DEF FenceInv
  <2>2. CASE ~ Busy(step)
    <3>1. schedSeq' = schedSeq
      BY <1>1, <1>5, <2>2 DEF seq
    <3>2. Numbered'
      <4>1. schedSeq' \in Nat /\ processedSeq' \in Nat /\ processedSeq' <= schedSeq'
        BY <1>1, <2>1, <3>1 DEF Numbered
      <4>2. \A i \in 1 .. Len(flight') : Busy(flight'[i]) =>
              i \in 1 .. Len(flight) /\ flight'[i] = flight[i]
        BY <1>4, <2>2
      <4>3. \A i \in 1 .. Len(flight') : Busy(flight'[i]) =>
              flight'[i].seq \in (processedSeq' + 1) .. schedSeq'
        BY <1>1, <2>1, <3>1, <4>2 DEF Numbered
      <4>4. \A i, j \in 1 .. Len(flight') : i < j /\ Busy(flight'[i]) /\ Busy(flight'[j]) =>
              flight'[i].seq < flight'[j].seq
        BY <2>1, <4>2 DEF Numbered
      <4>5. ASSUME NEW n \in (processedSeq' + 1) .. schedSeq'
            PROVE  \E i \in 1 .. Len(flight') : Busy(flight'[i]) /\ flight'[i].seq = n
        <5>1. PICK i \in 1 .. Len(flight) : Busy(flight[i]) /\ flight[i].seq = n
          BY <1>1, <2>1, <3>1, <4>5 DEF Numbered
        <5>2. i \in 1 .. Len(flight') /\ flight'[i] = flight[i]
          BY <1>4
        <5>3. QED
          BY <5>1, <5>2
      <4>6. QED
        BY <4>1, <4>3, <4>4, <4>5 DEF Numbered, Busy
    <3>3. ToSet(call.order) = {}
      BY <1>5, <2>2
    <3>4. Fenced'
      BY <1>1, <2>1, <3>1, <3>3 DEF Fenced
    <3>5. QED
      BY <1>1, <1>6, <1>8, <3>2, <3>4 DEF FenceInv
  <2>3. CASE Busy(step)
    <3>1. schedSeq' = schedSeq + 1 /\ step.seq = schedSeq + 1 /\ seq = schedSeq + 1
      BY <1>1, <1>2, <1>5, <1>8, <2>3 DEF seq
    <3>2. Numbered'
      <4>1. schedSeq' \in Nat /\ processedSeq' \in Nat /\ processedSeq' <= schedSeq'
        BY <1>1, <2>1, <3>1 DEF Numbered
      <4>2. \A i \in 1 .. Len(flight') : Busy(flight'[i]) =>
              flight'[i].seq \in (processedSeq' + 1) .. schedSeq'
        BY <1>1, <1>4, <2>1, <3>1 DEF Numbered
      <4>3. ASSUME NEW i \in 1 .. Len(flight'), NEW j \in 1 .. Len(flight'),
                   i < j, Busy(flight'[i]), Busy(flight'[j])
            PROVE  flight'[i].seq < flight'[j].seq
        <5>1. i \in 1 .. Len(flight) /\ flight'[i] = flight[i]
          BY <1>4, <4>3
        <5>2. CASE j \in 1 .. Len(flight)
          <6>1. flight'[j] = flight[j]
            BY <1>4, <5>2
          <6>2. QED
            BY <2>1, <4>3, <5>1, <5>2, <6>1 DEF Numbered
        <5>3. CASE j = Len(flight) + 1
          <6>1. flight[i].seq \in Int /\ flight[i].seq <= schedSeq /\ schedSeq \in Int
            BY <2>1, <4>3, <5>1 DEF Numbered
          <6>2. flight'[j].seq = schedSeq + 1
            BY <1>4, <3>1, <5>3
          <6>3. QED
            BY <5>1, <6>1, <6>2
        <5>4. QED
          BY <1>4, <5>2, <5>3
      <4>4. ASSUME NEW n \in (processedSeq' + 1) .. schedSeq'
            PROVE  \E i \in 1 .. Len(flight') : Busy(flight'[i]) /\ flight'[i].seq = n
        <5>1. CASE n = schedSeq + 1
          BY <1>4, <2>3, <3>1, <5>1
        <5>2. CASE n # schedSeq + 1
          <6>1. n \in (processedSeq + 1) .. schedSeq
            <7>1. schedSeq \in Int /\ processedSeq \in Int /\ processedSeq' = processedSeq
              BY <1>1, <2>1 DEF Numbered
            <7>2. QED
              BY <3>1, <4>4, <5>2, <7>1
          <6>2. PICK i \in 1 .. Len(flight) : Busy(flight[i]) /\ flight[i].seq = n
            BY <2>1, <6>1 DEF Numbered
          <6>3. i \in 1 .. Len(flight') /\ flight'[i] = flight[i]
            BY <1>4
          <6>4. QED
            BY <6>2, <6>3
        <5>3. QED
          BY <5>1, <5>2
      <4>5. QED
        BY <4>1, <4>2, <4>3, <4>4 DEF Numbered, Busy
    <3>3. Fenced'
      BY <1>1, <2>1, <3>1 DEF Fenced, Numbered
    <3>4. QED
      BY <1>1, <1>6, <1>8, <3>2, <3>3 DEF FenceInv
  <2>4. QED
    BY <2>2, <2>3
<1>9. QED
  BY <1>7, <1>8

\* update_from_output: the oldest step is processed, and the fences up to its number
\* are drained.
LEMMA BeginStepFences ==
  ASSUME FenceInv, flight # <<>>, NEW skip, NEW failing, BeginStep(skip, failing)
  PROVE  FenceInv'
<1> DEFINE seq == IF DeferBlockFree /\ Head(flight).order # <<>>
                  THEN processedSeq + 1 ELSE processedSeq
<1>1. /\ UNCHANGED <<schedSeq, lastSeq, maxBatches, call, DeferBlockFree>>
      /\ processedSeq' = seq /\ flight' = Tail(flight)
      /\ deferred' = {d \in deferred : ~ (d[1] <= seq)}
  BY DEF BeginStep, Drained, miscVars, configVars, DeferBlockFree, HasConnector
<1>2. PICK T : flight \in Seq(T)
  BY DEF FenceInv, Sequences
<1>3. /\ Len(flight) \in Nat \ {0} /\ Head(flight) = flight[1]
      /\ flight' \in Seq(T) /\ Len(flight') = Len(flight) - 1
      /\ \A i \in 1 .. Len(flight') : flight'[i] = flight[i + 1]
  BY <1>1, <1>2
<1>4. Sequences'
  BY <1>1, <1>3 DEF FenceInv, Sequences
<1>5. CASE ~ DeferBlockFree
  BY <1>1, <1>4, <1>5 DEF FenceInv
<1>6. CASE DeferBlockFree
  <2> HIDE DEF seq
  <2>1. Numbered /\ Fenced
    BY <1>6 DEF FenceInv
  <2>2. seq = IF Busy(flight[1]) THEN processedSeq + 1 ELSE processedSeq
    BY <1>3, <1>6 DEF seq, Busy
  <2>3. Busy(flight[1]) => flight[1].seq = processedSeq + 1
    <3> SUFFICES ASSUME Busy(flight[1])
                 PROVE  flight[1].seq = processedSeq + 1
      OBVIOUS
    <3>1. flight[1].seq \in (processedSeq + 1) .. schedSeq
      BY <1>3, <2>1 DEF Numbered
    <3>2. PICK i \in 1 .. Len(flight) : Busy(flight[i]) /\ flight[i].seq = processedSeq + 1
      BY <2>1, <3>1 DEF Numbered
    <3>3. i # 1 => flight[1].seq < flight[i].seq
      BY <1>3, <2>1, <3>2 DEF Numbered
    <3>4. QED
      BY <2>1, <3>1, <3>2, <3>3 DEF Numbered
  <2>4. Numbered'
    <3>1. schedSeq' \in Nat /\ processedSeq' \in Nat /\ processedSeq' <= schedSeq'
      BY <1>1, <1>3, <2>1, <2>2 DEF Numbered
    <3>2. \A i \in 1 .. Len(flight') : Busy(flight'[i]) =>
            flight'[i].seq \in (processedSeq' + 1) .. schedSeq'
      BY <1>1, <1>3, <2>1, <2>2, <2>3 DEF Numbered
    <3>3. ASSUME NEW i \in 1 .. Len(flight'), NEW j \in 1 .. Len(flight'),
                 i < j, Busy(flight'[i]), Busy(flight'[j])
          PROVE  flight'[i].seq < flight'[j].seq
      <4>1. /\ i + 1 \in 1 .. Len(flight) /\ flight'[i] = flight[i + 1]
            /\ j + 1 \in 1 .. Len(flight) /\ flight'[j] = flight[j + 1] /\ i + 1 < j + 1
        BY <1>3, <3>3
      <4>2. QED
        BY <2>1, <3>3, <4>1 DEF Numbered
    <3>4. ASSUME NEW n \in (processedSeq' + 1) .. schedSeq'
          PROVE  \E i \in 1 .. Len(flight') : Busy(flight'[i]) /\ flight'[i].seq = n
      <4>1. PICK i \in 1 .. Len(flight) : Busy(flight[i]) /\ flight[i].seq = n
        BY <1>1, <2>1, <2>2, <3>4 DEF Numbered
      <4>2. i # 1
        BY <1>1, <2>1, <2>2, <2>3, <3>4, <4>1 DEF Numbered
      <4>3. i - 1 \in 1 .. Len(flight') /\ flight'[i - 1] = flight[i]
        BY <1>3, <4>2
      <4>4. QED
        BY <4>1, <4>3
    <3>5. QED
      BY <3>1, <3>2, <3>3, <3>4 DEF Numbered, Busy
  <2>5. Fenced'
    BY <1>1, <2>1, <2>2 DEF Fenced, Numbered
  <2>6. QED
    BY <1>1, <1>4, <1>6, <2>4, <2>5 DEF FenceInv
<1>7. QED
  BY <1>5, <1>6

\* A step that frees blocks, and schedules and processes nothing.
still == <<fenceVars, flight, maxBatches, call>>

LEMMA StillKeeps ==
  ASSUME FenceInv, UNCHANGED still,
         UNCHANGED deferred \/ \E S \in SUBSET Requests : FreeBlocks(S)
  PROVE  FenceInv'
<1>1. "order" \in DOMAIN call' /\ call'.order \in Seq(Requests)
  BY DEF FenceInv, Sequences, still
<1>2. QED
  BY <1>1, UnfencedKeeps, FreeBlocksFences DEF still, fenceVars, fenceFacts

LEMMA FinishFrees ==
  ASSUME NEW r \in Requests, NEW loads, FinishRequest(r) \/ FreeRequests({r}, loads)
  PROVE  \E S \in SUBSET Requests : FreeBlocks(S)
<1>1. PICK l : FreeRequests({r}, l)
  BY DEF FinishRequest
<1>2. PICK K : FreeBlocks({r} \ K)
  BY <1>1 DEF FreeRequests
<1>3. {r} \ K \in SUBSET Requests
  OBVIOUS
<1>4. QED
  BY <1>2, <1>3

LEMMA RequestStepFences ==
  ASSUME FenceInv, RequestStep
  PROVE  FenceInv'
<1>1. CASE \E r \in Requests : AddRequest(r) \/ SendUpdate(r) \/ GrammarCompiled(r)
  <2>1. UNCHANGED still /\ UNCHANGED deferred
    BY <1>1 DEF AddRequest, SendUpdate, GrammarCompiled, still, kvVars, miscVars, configVars,
                OutsideVars
  <2>2. QED
    BY <2>1, StillKeeps
<1>2. ASSUME NEW r \in Requests, EndSession(r) \/ Abort(r)
      PROVE  FenceInv'
  <2>1. UNCHANGED still
    BY <1>2 DEF EndSession, Abort, still, kvVars, miscVars, configVars, OutsideVars
  <2>2. UNCHANGED deferred \/ FinishRequest(r)
    BY <1>2 DEF EndSession, Abort, kvVars
  <2>3. QED
    BY <2>1, <2>2, FinishFrees, StillKeeps
<1>3. CASE (\E state \in PauseState : Pause(state)) \/ ResetPrefixCache
  <2>1. UNCHANGED still
    BY <1>3 DEF Pause, ResetPrefixCache, still, miscVars, configVars, OutsideVars
  <2>2. UNCHANGED deferred \/ \E S \in SUBSET Requests : FreeBlocks(S)
    BY <1>3 DEF Pause, ResetPrefixCache, Preempt, kvVars
  <2>3. QED
    BY <2>1, <2>2, StillKeeps
<1>4. QED
  BY <1>1, <1>2, <1>3 DEF RequestStep

\* schedule() appends requests to the step in the making; only its end hands it out.
LEMMA ScheduleStepFences ==
  ASSUME FenceInv, ScheduleStep
  PROVE  FenceInv'
<1>1. "order" \in DOMAIN call /\ call.order \in Seq(Requests)
  BY DEF FenceInv, Sequences
<1>2. CASE FinishSchedule
  BY <1>2, FinishScheduleFences
<1>3. CASE SkipRunning \/ EndRunning \/ SkipBlocked \/ SkipUndecided \/ EndWaiting
  <2>1. UNCHANGED fenceFacts
    BY <1>3 DEF SkipRunning, EndRunning, SkipBlocked, SkipUndecided, SkipCandidate, EndWaiting,
                fenceFacts, kvVars, fenceVars, miscVars, configVars
  <2>2. \/ call' = call
        \/ call' = [call EXCEPT !.idx = @ + 1]
        \/ call' = [call EXCEPT !.passed = Append(@, Candidate)]
    BY <1>3, Zenon DEF SkipRunning, EndRunning, SkipBlocked, SkipUndecided, SkipCandidate,
                       EndWaiting
  <2>3. call'.order = call.order /\ "order" \in DOMAIN call'
    BY <1>1, <2>2
  <2>4. QED
    BY <1>1, <2>1, <2>3, UnfencedKeeps
<1>4. ASSUME NEW r \in Requests, ScheduleRunning(r) \/ AdmitLoad(r) \/ Admit(r)
      PROVE  FenceInv'
  <2>1. UNCHANGED fenceFacts
    BY <1>4 DEF ScheduleRunning, AdmitLoad, Admit, fenceFacts, fenceVars, miscVars, configVars
  <2>2. call'.order \in {call.order, Append(call.order, r)} /\ "order" \in DOMAIN call'
    <3>1. CASE ScheduleRunning(r)
      BY <1>1, <3>1 DEF ScheduleRunning
    <3>2. CASE AdmitLoad(r)
      BY <1>1, <3>2 DEF AdmitLoad
    <3>3. CASE Admit(r)
      BY <1>1, <3>3 DEF Admit
    <3>4. QED
      BY <1>4, <3>1, <3>2, <3>3
  <2>3. call'.order \in Seq(Requests)
    BY <1>1, <2>2
  <2>4. QED
    BY <2>1, <2>2, <2>3, UnfencedKeeps
<1>5. ASSUME NEW r \in Requests, PreemptLast(r)
      PROVE  FenceInv'
  <2>1. FreeBlocks({r}) /\ {r} \in SUBSET Requests
    BY <1>5 DEF PreemptLast, Preempt
  <2>2. /\ UNCHANGED <<schedSeq, processedSeq, lastSeq, flight, maxBatches>>
        /\ call' = [call EXCEPT !.preempted = TRUE]
    BY <1>5 DEF PreemptLast, fenceVars, miscVars, configVars
  <2>3. call'.order = call.order /\ "order" \in DOMAIN call'
    BY <1>1, <2>2
  <2>4. QED
    BY <1>1, <2>1, <2>2, <2>3, FreeBlocksFences
<1>6. ASSUME NEW r \in Requests, Promote(r)
      PROVE  FenceInv'
  <2>1. UNCHANGED still /\ UNCHANGED deferred
    BY <1>6 DEF Promote, still, miscVars, configVars
  <2>2. QED
    BY <2>1, StillKeeps
<1>7. QED
  BY <1>2, <1>3, <1>4, <1>5, <1>6 DEF ScheduleStep

LEMMA UpdateStepFences ==
  ASSUME FenceInv, UpdateStep
  PROVE  FenceInv'
<1>1. CASE IgnoreOutput \/ RemoveStopped
  <2>1. UNCHANGED still /\ UNCHANGED deferred
    BY <1>1 DEF IgnoreOutput, RemoveStopped, still, kvVars, miscVars, configVars
  <2>2. QED
    BY <2>1, StillKeeps
<1>2. CASE FailRequests
  <2>1. UNCHANGED still
    BY <1>2 DEF FailRequests, still, configVars
  <2>2. UNCHANGED deferred \/ \E r \in Requests : FinishRequest(r)
    BY <1>2 DEF FailRequests, kvVars
  <2>3. QED
    BY <2>1, <2>2, FinishFrees, StillKeeps
<1>3. ASSUME NEW r \in Requests, OutputGoesOn(r) \/ SessionGoesOn(r) \/ SessionPauses(r)
      PROVE  FenceInv'
  <2>1. UNCHANGED still /\ UNCHANGED deferred
    BY <1>3 DEF OutputGoesOn, SessionGoesOn, SessionPauses, still, kvVars, miscVars, configVars
  <2>2. QED
    BY <2>1, StillKeeps
<1>4. ASSUME NEW r \in Requests, OutputFinishes(r)
      PROVE  FenceInv'
  <2>1. UNCHANGED still /\ FreeRequests({r}, {})
    BY <1>4 DEF OutputFinishes, still, configVars
  <2>2. QED
    BY <2>1, FinishFrees, StillKeeps
<1>5. ASSUME NEW R \in SUBSET Requests, NEW S \in SUBSET Requests, FinishUpdate(R, S)
      PROVE  FenceInv'
  <2>1. UNCHANGED still /\ \E G \in SUBSET Requests : FreeBlocks(G)
    BY <1>5 DEF FinishUpdate, still, miscVars, configVars
  <2>2. QED
    BY <2>1, StillKeeps
<1>6. QED
  BY <1>1, <1>2, <1>3, <1>4, <1>5 DEF UpdateStep

LEMMA FencesAlways == Spec => []FenceInv
<1>1. Init => FenceInv
  BY DEF Init, FenceInv, Sequences, Numbered, Fenced, NoCall, None
<1>2. FenceInv /\ [Next]_vars => FenceInv'
  <2> SUFFICES ASSUME FenceInv, [Next]_vars
               PROVE  FenceInv'
    OBVIOUS
  <2>1. ASSUME NEW throttle \in BOOLEAN, BeginSchedule(throttle)
        PROVE  FenceInv'
    <3>1. UNCHANGED fenceFacts
      BY <2>1 DEF BeginSchedule, fenceFacts, kvVars, fenceVars, miscVars, configVars
    <3>2. call'.order = <<>> /\ "order" \in DOMAIN call'
      BY <2>1 DEF BeginSchedule, NoCall
    <3>3. call'.order \in Seq(Requests)
      BY <3>2
    <3>4. QED
      BY <3>1, <3>2, <3>3, UnfencedKeeps
  <2>2. CASE BeginUpdate \/ FailLoad \/ FailSyncLoad
    <3>1. flight # <<>> /\ \E skip, failing : BeginStep(skip, failing)
      BY <2>2 DEF BeginUpdate, FailLoad, FailSyncLoad
    <3>2. QED
      BY <3>1, BeginStepFences
  <2>3. CASE UNCHANGED vars
    <3>1. UNCHANGED still /\ UNCHANGED deferred
      BY <2>3 DEF vars, still, kvVars, miscVars, configVars
    <3>2. QED
      BY <3>1, StillKeeps
  <2>4. QED
    BY <2>1, <2>2, <2>3, RequestStepFences, ScheduleStepFences, UpdateStepFences DEF Next
<1>3. QED
  BY <1>1, <1>2, PTL DEF Spec

\* No block is withheld for ever: the step a deferred block waits for is in flight and
\* is not empty, so that its output drains the block, for any requests, blocks, limits
\* and number of steps (scheduler.py:1143, :1530, :2160).
THEOREM EveryFenceIsReached == Spec => []FencesAreReached
<1>1. FenceInv => FencesAreReached
  BY DEF FenceInv, Numbered, Fenced, Busy, FencesAreReached
<1>2. QED
  BY <1>1, FencesAlways, PTL

-----------------------------------------------------------------------------
(* How blocks move.                                                        *)

\* What decides whether a block may be given away.
numbering == <<fenceVars, flight, maxBatches>>

\* A step that neither schedules nor processes: requests get blocks, or some give all
\* of theirs back, or one retries a load that failed.
BlockMove ==
  /\ UNCHANGED numbering
  /\ \/ UNCHANGED deferred /\ \A r \in Requests : held[r] \subseteq held'[r]
     \/ \E S \in SUBSET Requests : FreeBlocks(S)
     \/ \E r \in Requests : Promote(r)

LEMMA RequestStepMoves == RequestStep => BlockMove
<1> SUFFICES ASSUME RequestStep
             PROVE  BlockMove
  OBVIOUS
<1>1. CASE \E r \in Requests : AddRequest(r) \/ SendUpdate(r) \/ GrammarCompiled(r)
  BY <1>1 DEF AddRequest, SendUpdate, GrammarCompiled, BlockMove, numbering, kvVars, fenceVars,
              miscVars, configVars, OutsideVars
<1>2. ASSUME NEW r \in Requests, EndSession(r) \/ Abort(r)
      PROVE  BlockMove
  <2>1. UNCHANGED numbering
    BY <1>2 DEF EndSession, Abort, numbering, fenceVars, configVars, OutsideVars
  <2>2. UNCHANGED <<deferred, held>> \/ FinishRequest(r)
    BY <1>2 DEF EndSession, Abort, kvVars
  <2>3. QED
    BY <2>1, <2>2, FinishFrees DEF BlockMove
<1>3. CASE \E state \in PauseState : Pause(state)
  BY <1>3 DEF Pause, BlockMove, numbering, kvVars, fenceVars, configVars, OutsideVars
<1>4. CASE ResetPrefixCache
  <2>1. FreeBlocks({r \in Requests : InQueue(running, r)})
    BY <1>4 DEF ResetPrefixCache, Preempt
  <2>2. {r \in Requests : InQueue(running, r)} \in SUBSET Requests
    OBVIOUS
  <2>3. UNCHANGED numbering
    BY <1>4 DEF ResetPrefixCache, numbering, fenceVars, miscVars, configVars, OutsideVars
  <2>4. QED
    BY <2>1, <2>2, <2>3 DEF BlockMove
<1>5. QED
  BY <1>1, <1>2, <1>3, <1>4 DEF RequestStep

LEMMA ScheduleStepMoves ==
  ASSUME BlocksInv, ScheduleStep
  PROVE  BlockMove \/ FinishSchedule
<1>1. CASE SkipRunning \/ EndRunning \/ SkipBlocked \/ SkipUndecided \/ EndWaiting
  BY <1>1 DEF SkipRunning, EndRunning, SkipBlocked, SkipUndecided, SkipCandidate, EndWaiting,
              BlockMove, numbering, kvVars, fenceVars, miscVars, configVars
<1>2. ASSUME NEW r \in Requests, ScheduleRunning(r) \/ AdmitLoad(r) \/ Admit(r)
      PROVE  BlockMove
  <2>1. UNCHANGED numbering /\ UNCHANGED deferred
    BY <1>2 DEF ScheduleRunning, AdmitLoad, Admit, numbering, fenceVars, miscVars, configVars
  <2>2. \E b : held' = [held EXCEPT ![r] = @ \cup b]
    <3>1. CASE ScheduleRunning(r)
      BY <3>1 DEF ScheduleRunning
    <3>2. CASE AdmitLoad(r)
      BY <3>2, Zenon DEF AdmitLoad, Allocate
    <3>3. CASE Admit(r)
      BY <3>3, Zenon DEF Admit, Allocate
    <3>4. QED
      BY <1>2, <3>1, <3>2, <3>3
  <2>3. \A q \in Requests : held[q] \subseteq held'[q]
    BY <2>2 DEF BlocksInv
  <2>4. QED
    BY <2>1, <2>3 DEF BlockMove
<1>3. ASSUME NEW r \in Requests, PreemptLast(r)
      PROVE  BlockMove
  <2>1. FreeBlocks({r}) /\ {r} \in SUBSET Requests
    BY <1>3 DEF PreemptLast, Preempt
  <2>2. UNCHANGED numbering
    BY <1>3 DEF PreemptLast, numbering, fenceVars, miscVars, configVars
  <2>3. QED
    BY <2>1, <2>2 DEF BlockMove
<1>4. ASSUME NEW r \in Requests, Promote(r)
      PROVE  BlockMove
  BY <1>4 DEF Promote, BlockMove, numbering, fenceVars, miscVars, configVars
<1>5. QED
  BY <1>1, <1>2, <1>3, <1>4 DEF ScheduleStep

LEMMA UpdateStepMoves == UpdateStep => BlockMove
<1> SUFFICES ASSUME UpdateStep
             PROVE  BlockMove
  OBVIOUS
<1>1. CASE \/ IgnoreOutput \/ RemoveStopped
           \/ \E r \in Requests : OutputGoesOn(r) \/ SessionGoesOn(r) \/ SessionPauses(r)
  BY <1>1 DEF IgnoreOutput, RemoveStopped, OutputGoesOn, SessionGoesOn, SessionPauses, BlockMove,
              numbering, kvVars, fenceVars, miscVars, configVars
<1>2. CASE FailRequests
  <2>1. UNCHANGED numbering
    BY <1>2 DEF FailRequests, numbering, fenceVars, configVars
  <2>2. UNCHANGED <<deferred, held>> \/ \E r \in Requests : FinishRequest(r)
    BY <1>2 DEF FailRequests, kvVars
  <2>3. QED
    BY <2>1, <2>2, FinishFrees DEF BlockMove
<1>3. ASSUME NEW r \in Requests, OutputFinishes(r)
      PROVE  BlockMove
  <2>1. UNCHANGED numbering /\ FreeRequests({r}, {})
    BY <1>3 DEF OutputFinishes, numbering, fenceVars, configVars
  <2>2. QED
    BY <2>1, FinishFrees DEF BlockMove
<1>4. ASSUME NEW R \in SUBSET Requests, NEW S \in SUBSET Requests, FinishUpdate(R, S)
      PROVE  BlockMove
  <2>1. UNCHANGED numbering /\ \E G : FreeBlocks(G)
    BY <1>4 DEF FinishUpdate, numbering, fenceVars, miscVars, configVars
  <2>2. \E G \in SUBSET Requests : FreeBlocks(G)
    BY <1>4 DEF FinishUpdate
  <2>3. QED
    BY <2>1, <2>2 DEF BlockMove
<1>5. QED
  BY <1>1, <1>2, <1>3, <1>4 DEF UpdateStep

-----------------------------------------------------------------------------
(* The blocks of the steps in flight.                                      *)

\* A step uses blocks of its own requests only.
OwnUses == \A i \in 1 .. Len(flight) : \A u \in flight[i].uses : u[1] \in ToSet(flight[i].order)

\* A block a step in flight writes is still with its request, whose last step is not
\* earlier, or is deferred to a step that is not earlier.
Secured(i, u) ==
  \/ u[2] \in held[u[1]] /\ lastSeq[u[1]] >= flight[i].seq
  \/ \E d \in deferred : d[2] = u[2] /\ d[1] >= flight[i].seq
UsesInv ==
  /\ OwnUses
  /\ DeferBlockFree => \A i \in 1 .. Len(flight) : \A u \in flight[i].uses : Secured(i, u)

\* A step that uses blocks has a number that was not processed yet.
LEMMA UsesAreNumbered ==
  ASSUME FenceInv, Flights, OwnUses, DeferBlockFree,
         NEW i \in 1 .. Len(flight), NEW u \in flight[i].uses
  PROVE  /\ u[1] \in Requests /\ u[1] \in ToSet(flight[i].order)
         /\ flight[i].seq \in (processedSeq + 1) .. schedSeq /\ lastSeq[u[1]] \in Nat
         /\ processedSeq \in Nat /\ schedSeq \in Nat
<1>1. Numbered /\ Fenced
  BY DEF FenceInv
<1>2. u[1] \in ToSet(flight[i].order) /\ flight[i].order \in Seq(Requests)
  BY DEF OwnUses, Flights
<1>3. flight[i].order # <<>> /\ u[1] \in Requests
  BY <1>2, RangeQueue
<1>4. QED
  BY <1>1, <1>2, <1>3 DEF Numbered, Fenced, Busy

LEMMA BlockMoveUses ==
  ASSUME QueueInv, FenceInv, UsesInv, BlockMove
  PROVE  UsesInv'
<1>1. /\ UNCHANGED <<schedSeq, processedSeq, lastSeq, flight, maxBatches>>
      /\ DeferBlockFree' = DeferBlockFree
  BY DEF BlockMove, numbering, fenceVars, DeferBlockFree, HasConnector
<1>2. OwnUses'
  BY <1>1 DEF UsesInv, OwnUses
<1>3. ASSUME DeferBlockFree, NEW i \in 1 .. Len(flight), NEW u \in flight[i].uses
      PROVE  Secured(i, u)'
  <2>1. /\ u[1] \in Requests /\ u[1] \in ToSet(flight[i].order)
        /\ flight[i].seq \in (processedSeq + 1) .. schedSeq /\ lastSeq[u[1]] \in Nat
        /\ processedSeq \in Nat /\ schedSeq \in Nat
    BY <1>3, UsesAreNumbered DEF QueueInv, UsesInv
  <2>2. Secured(i, u)
    BY <1>3 DEF UsesInv
  <2>3. CASE UNCHANGED deferred /\ \A r \in Requests : held[r] \subseteq held'[r]
    BY <1>1, <2>1, <2>2, <2>3 DEF Secured
  <2>4. CASE \E S \in SUBSET Requests : FreeBlocks(S)
    <3>1. PICK S \in SUBSET Requests : FreeBlocks(S)
      BY <2>4
    <3>2. /\ \A r \in Requests : held'[r] = IF r \in S THEN {} ELSE held[r]
          /\ deferred \subseteq deferred'
          /\ \A r \in S : \A b \in held[r] : ~ (lastSeq[r] <= processedSeq) =>
               <<schedSeq, b>> \in deferred'
      BY <1>3, <3>1 DEF FreeBlocks
    <3>3. CASE u[1] \in S /\ u[2] \in held[u[1]] /\ lastSeq[u[1]] >= flight[i].seq
      <4>1. ~ (lastSeq[u[1]] <= processedSeq)
        BY <2>1, <3>3
      <4>2. <<schedSeq, u[2]>> \in deferred'
        BY <3>2, <3>3, <4>1
      <4>3. /\ <<schedSeq, u[2]>>[2] = u[2] /\ <<schedSeq, u[2]>>[1] = schedSeq
            /\ schedSeq >= flight[i].seq
        BY <2>1
      <4>4. QED
        BY <1>1, <4>2, <4>3 DEF Secured
    <3>4. QED
      BY <1>1, <2>1, <2>2, <3>2, <3>3 DEF Secured
  <2>5. CASE \E r \in Requests : Promote(r)
    <3>1. PICK r \in Requests : Promote(r)
      BY <2>5
    <3>2. /\ UNCHANGED deferred /\ status[r] \in BlockedStatus
          /\ held' = [held EXCEPT ![r] = IF r \in failedRecv /\ computed[r] = 0 THEN {} ELSE @]
      BY <3>1, Zenon DEF Promote, Promotable, BlockedStatus
    <3>3. status[u[1]] \in {"running", "finished", "preempted"}
      BY <1>3, <2>1 DEF QueueInv, Flights, InStep
    <3>4. u[1] # r
      BY <3>2, <3>3 DEF BlockedStatus
    <3>5. held'[u[1]] = held[u[1]]
      BY <3>2, <3>4
    <3>6. QED
      BY <1>1, <2>1, <2>2, <3>2, <3>5 DEF Secured
  <2>6. QED
    BY <2>3, <2>4, <2>5 DEF BlockMove
<1>4. QED
  BY <1>1, <1>2, <1>3 DEF UsesInv

\* _update_after_schedule: the blocks of the new step are with its requests, whose
\* last step it is; a request's last step is not earlier than before.
LEMMA FinishScheduleUses ==
  ASSUME QueueInv, FenceInv, UsesInv, FinishSchedule
  PROVE  UsesInv'
<1> DEFINE S == ToSet(call.order)
           seq == IF DeferBlockFree /\ S # {} THEN schedSeq + 1 ELSE schedSeq
           N == Len(flight)
<1>1. PICK step :
        /\ flight' = Append(flight, step) /\ step.seq = seq /\ step.order = call.order
        /\ step.uses = UNION {{r} \X held[r] : r \in S}
  BY StepHandedOut DEF NewStep, StepSeq
<1>2. /\ lastSeq' = [r \in Requests |-> IF DeferBlockFree /\ r \in S THEN seq ELSE lastSeq[r]]
      /\ UNCHANGED <<held, deferred, maxBatches>>
  BY DEF FinishSchedule, kvVars, configVars
<1>3. DeferBlockFree' = DeferBlockFree
  BY <1>2 DEF DeferBlockFree, HasConnector
<1>4. PICK T : flight \in Seq(T)
  BY DEF FenceInv, Sequences
<1>5. /\ N \in Nat /\ Len(flight') = N + 1 /\ flight'[N + 1] = step
      /\ \A i \in 1 .. N : flight'[i] = flight[i]
      /\ \A i \in 1 .. (N + 1) : i \in 1 .. N \/ i = N + 1
  BY <1>1, <1>4
<1>6. S \subseteq Requests
  BY RangeQueue DEF FenceInv, Sequences
<1>7. \A u \in step.uses : u[1] \in S /\ u[2] \in held[u[1]]
  BY <1>1
<1> HIDE DEF N
<1>8. OwnUses'
  BY <1>1, <1>5, <1>7 DEF OwnUses, UsesInv
<1>9. ASSUME DeferBlockFree, NEW i \in 1 .. Len(flight'), NEW u \in flight'[i].uses
      PROVE  Secured(i, u)'
  <2>1. Numbered /\ Fenced
    BY <1>9 DEF FenceInv
  <2>2. /\ schedSeq \in Nat /\ seq \in Nat /\ seq >= schedSeq
        /\ \A r \in Requests : lastSeq[r] \in Nat /\ lastSeq[r] <= schedSeq
    BY <2>1 DEF Numbered, Fenced
  <2>3. \A r \in Requests : lastSeq'[r] \in Nat /\ lastSeq'[r] >= lastSeq[r]
    BY <1>2, <2>2
  <2>4. CASE i \in 1 .. N
    <3>1. flight'[i] = flight[i] /\ u \in flight[i].uses /\ i \in 1 .. Len(flight)
      BY <1>5, <1>9, <2>4 DEF N
    <3>2. Secured(i, u) /\ u[1] \in Requests
      BY <1>9, <3>1, UsesAreNumbered DEF UsesInv, QueueInv
    <3>3. flight[i].seq \in Nat
      BY <1>9, <2>2, <3>1, UsesAreNumbered DEF UsesInv, QueueInv
    <3>4. lastSeq[u[1]] >= flight[i].seq => lastSeq'[u[1]] >= flight[i].seq
      BY <2>2, <2>3, <3>2, <3>3
    <3>5. QED
      BY <1>2, <3>1, <3>2, <3>4 DEF Secured
  <2>5. CASE i = N + 1
    <3>1. flight'[i] = step /\ u[1] \in S /\ u[2] \in held[u[1]]
      BY <1>5, <1>7, <1>9, <2>5
    <3>2. lastSeq'[u[1]] = seq
      BY <1>2, <1>6, <1>9, <3>1
    <3>3. QED
      BY <1>1, <1>2, <2>2, <3>1, <3>2 DEF Secured
  <2>6. QED
    BY <1>5, <1>9, <2>4, <2>5
<1>10. QED
  BY <1>3, <1>8, <1>9 DEF UsesInv

\* _drain_deferred_frees gives back only what no step after this one writes.
LEMMA BeginStepUses ==
  ASSUME QueueInv, FenceInv, FenceInv', QueueInv', UsesInv, flight # <<>>,
         NEW skip, NEW failing, BeginStep(skip, failing)
  PROVE  UsesInv'
<1>1. /\ flight' = Tail(flight) /\ deferred' = deferred \ Drained(processedSeq')
      /\ UNCHANGED <<held, lastSeq, schedSeq, maxBatches>>
  BY DEF BeginStep, miscVars, configVars
<1>2. DeferBlockFree' = DeferBlockFree
  BY <1>1 DEF DeferBlockFree, HasConnector
<1>3. PICK T : flight \in Seq(T)
  BY DEF FenceInv, Sequences
<1>4. \A i \in 1 .. Len(flight') : i + 1 \in 1 .. Len(flight) /\ flight'[i] = flight[i + 1]
  BY <1>1, <1>3
<1>5. OwnUses'
  BY <1>4 DEF OwnUses, UsesInv
<1>6. ASSUME DeferBlockFree, NEW i \in 1 .. Len(flight'), NEW u \in flight'[i].uses
      PROVE  Secured(i, u)'
  <2>1. Secured(i + 1, u) /\ flight'[i] = flight[i + 1]
    BY <1>4, <1>6 DEF UsesInv
  <2>2. u[1] \in ToSet(flight'[i].order) /\ flight'[i].order \in Seq(Requests)
    BY <1>5, <1>6 DEF OwnUses, QueueInv, Flights
  <2>3. flight'[i].order # <<>>
    BY <2>2, RangeQueue
  <2>4. flight'[i].seq \in (processedSeq' + 1) .. schedSeq' /\ processedSeq' \in Nat
    BY <1>2, <1>6, <2>3 DEF FenceInv, Numbered, Busy
  <2>5. ASSUME NEW d \in deferred, d[1] >= flight'[i].seq
        PROVE  d \in deferred'
    <3>1. d[1] \in Int
      BY <1>6 DEF FenceInv, Fenced
    <3>2. ~ (d[1] <= processedSeq')
      BY <2>4, <2>5, <3>1
    <3>3. QED
      BY <1>1, <3>2 DEF Drained
  <2>6. QED
    BY <1>1, <2>1, <2>5 DEF Secured
<1>7. QED
  BY <1>2, <1>5, <1>6 DEF UsesInv

LEMMA UsesNext ==
  QueueInv /\ QueueInv' /\ BlocksInv /\ FenceInv /\ FenceInv' /\ UsesInv /\ [Next]_vars => UsesInv'
<1> SUFFICES ASSUME QueueInv, QueueInv', BlocksInv, FenceInv, FenceInv', UsesInv, [Next]_vars
             PROVE  UsesInv'
  OBVIOUS
<1>1. CASE BlockMove
  BY <1>1, BlockMoveUses
<1>2. CASE RequestStep \/ UpdateStep
  BY <1>1, <1>2, RequestStepMoves, UpdateStepMoves
<1>3. CASE ScheduleStep
  BY <1>1, <1>3, ScheduleStepMoves, FinishScheduleUses
<1>4. CASE UNCHANGED vars \/ \E throttle \in BOOLEAN : BeginSchedule(throttle)
  <2>1. UNCHANGED numbering /\ UNCHANGED <<deferred, held>>
    BY <1>4 DEF BeginSchedule, vars, numbering, kvVars, fenceVars, miscVars, configVars
  <2>2. QED
    BY <1>1, <2>1 DEF BlockMove
<1>5. CASE BeginUpdate \/ FailLoad \/ FailSyncLoad
  <2>1. flight # <<>> /\ \E skip, failing : BeginStep(skip, failing)
    BY <1>5 DEF BeginUpdate, FailLoad, FailSyncLoad
  <2>2. QED
    BY <2>1, BeginStepUses
<1>6. QED
  BY <1>2, <1>3, <1>4, <1>5 DEF Next

\* With a connector and overlapping steps, a block that a step in flight writes is
\* neither free nor another request's, whatever became of the request it was
\* scheduled for: _free_request_blocks and _drain_deferred_frees together withhold
\* exactly what may still be written (scheduler.py:146-152, :2145-2172).
THEOREM NoBlockIsReused == Spec => []NoReuseInFlight
<1>1. Init => UsesInv
  BY DEF Init, UsesInv, OwnUses
<1>2. QueueInv /\ BlocksInv /\ FenceInv /\ UsesInv => NoReuseInFlight
  <2> SUFFICES ASSUME QueueInv, BlocksInv, FenceInv, UsesInv, DeferBlockFree,
                      NEW i \in 1 .. Len(flight), NEW u \in flight[i].uses
               PROVE  u[2] \notin free /\ \A r \in Requests \ {u[1]} : u[2] \notin held[r]
    BY DEF NoReuseInFlight
  <2>1. Secured(i, u) /\ u[1] \in Requests
    BY UsesAreNumbered DEF UsesInv, QueueInv
  <2>2. HeldOnce /\ DeferredOnce
    BY Parts DEF BlocksInv
  <2>3. CASE u[2] \in held[u[1]]
    BY <2>1, <2>2, <2>3 DEF HeldOnce
  <2>4. CASE \E d \in deferred : d[2] = u[2]
    BY <2>2, <2>4 DEF DeferredOnce
  <2>5. QED
    BY <2>1, <2>3, <2>4 DEF Secured
<1>3. QED
  BY <1>1, <1>2, UsesNext, QueuesAgree, BlocksAlways, FencesAlways, PTL DEF Spec

-----------------------------------------------------------------------------
(* The counts are integers, and the draft tokens of a step are not         *)
(* negative.                                                               *)

LEMMA MinOfTwo ==
  ASSUME NEW a \in Int, NEW b \in Int
  PROVE  Min({a, b}) \in Int /\ Min({a, b}) \in {a, b} /\ Min({a, b}) <= a /\ Min({a, b}) <= b
<1>1. \E x \in {a, b} : \A y \in {a, b} : x <= y
  OBVIOUS
<1>2. QED
  BY <1>1 DEF Min

LEMMA MinOfThree ==
  ASSUME NEW a \in Int, NEW b \in Int, NEW c \in Int
  PROVE  /\ Min({a, b, c}) \in Int /\ Min({a, b, c}) \in {a, b, c}
         /\ Min({a, b, c}) <= a /\ Min({a, b, c}) <= b /\ Min({a, b, c}) <= c
<1>1. \E x \in {a, b, c} : \A y \in {a, b, c} : x <= y
  <2>1. CASE a <= b /\ a <= c
    BY <2>1
  <2>2. CASE b <= a /\ b <= c
    BY <2>2
  <2>3. CASE c <= a /\ c <= b
    BY <2>3
  <2>4. QED
    BY <2>1, <2>2, <2>3
<1>2. QED
  BY <1>1 DEF Min

RequestCounts ==
  /\ tokens \in [Requests -> Int] /\ computed \in [Requests -> Int]
  /\ spec \in [Requests -> Nat] /\ holders \in [Requests -> Int]

SyncLoaded == {r \in Requests : SyncRemote[r] > 0}
CallCounts ==
  pc \in {"running", "waiting", "done"} =>
    /\ call.budget \in Int /\ call.sched \in [Requests -> Int]
    /\ call.spec \in [Requests -> Nat] /\ call.loads \subseteq SyncLoaded

StepCounts(step) ==
  /\ step.spec \in [Requests -> Nat]
  /\ step.samples \subseteq ToSet(step.order) /\ step.loads \subseteq SyncLoaded
StepsCounts ==
  /\ \A i \in 1 .. Len(flight) : StepCounts(flight[i])
  /\ pc = "update" => StepCounts(upd.step)

CountsInv == RequestCounts /\ CallCounts /\ StepsCounts

LEMMA CountsInit == Init => CountsInv
<1> SUFFICES ASSUME Init
             PROVE  CountsInv
  OBVIOUS
<1>1. RequestCounts
  BY DEF Init, RequestCounts, None
<1>2. pc = "idle" /\ Len(flight) = 0
  BY DEF Init
<1>3. QED
  BY <1>1, <1>2 DEF CountsInv, CallCounts, StepsCounts

\* A step that leaves the step in the making and the steps handed out alone.
LEMMA CountsFrame ==
  ASSUME CountsInv, RequestCounts', UNCHANGED <<call, flight>>,
         pc' \in {"running", "waiting", "done"} => pc \in {"running", "waiting", "done"},
         pc' = "update" => pc = "update" /\ upd'.step = upd.step
  PROVE  CountsInv'
  BY DEF CountsInv, CallCounts, StepsCounts, StepCounts

LEMMA PreemptCounts ==
  ASSUME RequestCounts, NEW S, Preempt(S), UNCHANGED <<tokens, holders>>
  PROVE  RequestCounts'
<1>1. /\ computed' = [r \in Requests |-> IF r \in S THEN 0 ELSE computed[r]]
      /\ spec' = [r \in Requests |-> IF r \in S THEN 0 ELSE spec[r]]
  BY DEF Preempt
<1>2. QED
  BY <1>1 DEF RequestCounts

LEMMA RequestStepCounts ==
  ASSUME CountsInv, RequestStep
  PROVE  CountsInv'
<1>1. UNCHANGED <<pc, call, upd, flight>>
  BY DEF RequestStep, AddRequest, SendUpdate, EndSession, Abort, GrammarCompiled, Pause,
         ResetPrefixCache, OutsideVars
<1>2. RequestCounts
  BY DEF CountsInv
<1>3. ASSUME NEW r \in Requests, AddRequest(r)
      PROVE  RequestCounts'
  <2>1. tokens' = [tokens EXCEPT ![r] = PromptLen[r]] /\ UNCHANGED <<computed, spec, holders>>
    BY <1>3 DEF AddRequest
  <2>2. PromptLen[r] \in Int
    BY DEF SchedulerAssumption
  <2>3. QED
    BY <1>2, <2>1, <2>2 DEF RequestCounts
<1>4. ASSUME NEW r \in Requests, SendUpdate(r)
      PROVE  RequestCounts'
  <2>1. /\ UNCHANGED <<computed, spec, holders>>
        /\ \/ UNCHANGED tokens
           \/ tokens' = [tokens EXCEPT ![r] = Kept(tokens[r], computed[r]) + 1]
    BY <1>4 DEF SendUpdate, NextChunk
  <2>2. Kept(tokens[r], computed[r]) + 1 \in Int
    BY <1>2 DEF RequestCounts, Kept
  <2>3. QED
    BY <1>2, <2>1, <2>2 DEF RequestCounts
<1>5. ASSUME NEW r \in Requests, EndSession(r) \/ Abort(r) \/ GrammarCompiled(r)
      PROVE  RequestCounts'
  BY <1>2, <1>5 DEF EndSession, Abort, GrammarCompiled, countVars, RequestCounts
<1>6. ASSUME NEW state, Pause(state)
      PROVE  RequestCounts'
  BY <1>2, <1>6 DEF Pause, countVars, RequestCounts
<1>7. CASE ResetPrefixCache
  <2>1. RequestCounts'
    BY <1>2, <1>7, PreemptCounts DEF ResetPrefixCache
  <2>2. QED
    BY <1>1, <2>1, CountsFrame
<1>8. QED
  BY <1>1, <1>3, <1>4, <1>5, <1>6, <1>7, CountsFrame DEF RequestStep

\* How much is scheduled, loaded, and given to the drafts.
LEMMA Amounts ==
  ASSUME CountsInv, pc \in {"running", "waiting"}, NEW r \in Requests
  PROVE  /\ NumNewTokens(r) \in Int
         /\ \A m \in Matches(r) : m.ext \in Int /\ (m.ext > 0 /\ ~ m.async => r \in SyncLoaded)
         /\ \A n \in Int : AdmitTokens(r, n) \in Int
<1>1. /\ tokens[r] \in Int /\ computed[r] \in Int /\ spec[r] \in Int /\ holders[r] \in Int
      /\ call.budget \in Int
  BY DEF CountsInv, RequestCounts, CallCounts
<1>2. /\ LongPrefillThreshold \in Nat /\ MaxModelLen \in Nat /\ NumSpecTokens \in Nat
      /\ Remote[r] \in Nat /\ SyncRemote[r] \in Nat
  BY DEF SchedulerAssumption
<1>3. \A n \in Int : Capped(n) \in Int
  BY <1>2 DEF Capped
<1>4. NumNewTokens(r) \in Int
  <2>1. /\ Capped(tokens[r] + spec[r] + holders[r] - computed[r]) \in Int
        /\ MaxModelLen - computed[r] - 1 \in Int
    BY <1>1, <1>2, <1>3
  <2>2. QED
    BY <1>1, <2>1, MinOfThree DEF NumNewTokens
<1>5. ASSUME NEW m \in Matches(r)
      PROVE  m.ext \in Int /\ (m.ext > 0 /\ ~ m.async => r \in SyncLoaded)
  <2>1. \/ m = [ext |-> 0, async |-> FALSE]
        \/ m = [ext |-> Min({Remote[r], tokens[r]}), async |-> TRUE]
        \/ SyncRemote[r] > 0 /\ m = [ext |-> Min({SyncRemote[r], tokens[r] - 1}), async |-> FALSE]
    BY <1>5 DEF Matches
  <2>2. Min({Remote[r], tokens[r]}) \in Int /\ Min({SyncRemote[r], tokens[r] - 1}) \in Int
    <3>1. /\ Remote[r] \in Int /\ SyncRemote[r] \in Int
          /\ tokens[r] \in Int /\ tokens[r] - 1 \in Int
      BY <1>1, <1>2
    <3>2. QED
      BY <3>1, MinOfTwo, Zenon
  <2>3. QED
    BY <2>1, <2>2 DEF SyncLoaded
<1>6. ASSUME NEW n \in Int
      PROVE  AdmitTokens(r, n) \in Int
  <2>1. (IF Pads(r, n) THEN 1 + NumSpecTokens ELSE tokens[r] - n) \in Int
    BY <1>1, <1>2
  <2>2. QED
    BY <1>1, <1>3, <2>1, MinOfTwo DEF AdmitTokens
<1>7. QED
  BY <1>4, <1>5, <1>6

LEMMA ScheduleRunningCounts ==
  ASSUME CountsInv, QueueInv, NEW r \in Requests, ScheduleRunning(r)
  PROVE  CountsInv'
<1> DEFINE n == NumNewTokens(r)
           drafts == n + computed[r] - tokens[r] - holders[r]
           given == IF spec[r] > 0 /\ drafts > 0 THEN Min({spec[r], drafts}) ELSE 0
<1>1. /\ pc = "running" /\ UNCHANGED <<tokens, computed, holders, pc, flight>>
      /\ spec' = [spec EXCEPT ![r] = 0]
  BY DEF ScheduleRunning, MoreRunning
<1>2. n \in Int /\ RequestCounts /\ CallCounts /\ StepsCounts
  BY <1>1, Amounts DEF CountsInv
<1>3. given \in Nat
  <2>1. spec[r] \in Int /\ drafts \in Int
    BY <1>2 DEF RequestCounts
  <2> HIDE DEF drafts
  <2>2. Min({spec[r], drafts}) \in Int /\ Min({spec[r], drafts}) \in {spec[r], drafts}
    BY <2>1, MinOfTwo, Zenon
  <2>3. QED
    BY <2>1, <2>2
<1>4. /\ DOMAIN call = DOMAIN NoCall
      /\ {"budget", "sched", "spec", "loads"} \subseteq DOMAIN call
  BY DEF QueueInv, Calls, NoCall
<1>5. call' = [call EXCEPT !.idx = @ + 1, !.budget = @ - n, !.sched[r] = n,
                           !.order = Append(@, r), !.batch = @ \cup {r},
                           !.prefill = @ \/ chunk[r], !.spec[r] = given]
  BY Zenon DEF ScheduleRunning
<1> HIDE DEF n, given
<1>6. /\ call'.budget = call.budget - n /\ call'.loads = call.loads
      /\ call'.sched = [call.sched EXCEPT ![r] = n] /\ call'.spec = [call.spec EXCEPT ![r] = given]
  BY <1>4, <1>5
<1>7. CallCounts'
  BY <1>1, <1>2, <1>3, <1>6 DEF CallCounts
<1>8. RequestCounts' /\ StepsCounts'
  BY <1>1, <1>2 DEF RequestCounts, StepsCounts, StepCounts
<1>9. QED
  BY <1>7, <1>8 DEF CountsInv

LEMMA AdmitCounts ==
  ASSUME CountsInv, QueueInv, NEW r \in Requests, Admit(r)
  PROVE  CountsInv'
<1>1. /\ pc = "waiting" /\ UNCHANGED <<tokens, spec, holders, pc, flight>>
  BY DEF Admit, CanBeAdmitted, MayAdmit
<1>2. PICK m \in Matches(r) :
        LET done == computed[r] + m.ext
            n == AdmitTokens(r, done) IN
        /\ ~ m.async
        /\ computed' = [computed EXCEPT ![r] = done]
        /\ call' = [call EXCEPT !.budget = @ - n, !.sched[r] = n, !.order = Append(@, r),
                                !.spec[r] = IF Pads(r, done) THEN NumSpecTokens ELSE 0,
                                !.loads = IF m.ext > 0 THEN @ \cup {r} ELSE @]
  BY Zenon DEF Admit
<1> DEFINE done == computed[r] + m.ext
           n == AdmitTokens(r, done)
           given == IF Pads(r, done) THEN NumSpecTokens ELSE 0
<1>3. RequestCounts /\ CallCounts /\ StepsCounts /\ m.ext \in Int
      /\ (m.ext > 0 => r \in SyncLoaded)
  BY <1>1, <1>2, Amounts DEF CountsInv
<1>4. done \in Int /\ n \in Int
  <2>1. done \in Int
    BY <1>3 DEF RequestCounts
  <2>2. QED
    BY <1>1, <2>1, Amounts
<1>5. given \in Nat
  BY DEF SchedulerAssumption
<1>6. /\ DOMAIN call = DOMAIN NoCall
      /\ {"budget", "sched", "spec", "loads"} \subseteq DOMAIN call
  BY DEF QueueInv, Calls, NoCall
<1>7. /\ computed' = [computed EXCEPT ![r] = done]
      /\ call' = [call EXCEPT !.budget = @ - n, !.sched[r] = n, !.order = Append(@, r),
                              !.spec[r] = given, !.loads = IF m.ext > 0 THEN @ \cup {r} ELSE @]
  BY <1>2, Zenon
<1> HIDE DEF done, n, given
<1>8. /\ call'.budget = call.budget - n
      /\ call'.loads = IF m.ext > 0 THEN call.loads \cup {r} ELSE call.loads
      /\ call'.sched = [call.sched EXCEPT ![r] = n] /\ call'.spec = [call.spec EXCEPT ![r] = given]
  BY <1>6, <1>7
<1>9. CallCounts'
  BY <1>1, <1>3, <1>4, <1>5, <1>8 DEF CallCounts
<1>10. RequestCounts' /\ StepsCounts'
  BY <1>1, <1>3, <1>4, <1>7 DEF RequestCounts, StepsCounts, StepCounts
<1>11. QED
  BY <1>9, <1>10 DEF CountsInv

\* The loop variables move on, and the queues, the blocks or the status change.
LEMMA SchedulingCounts ==
  ASSUME CountsInv, QueueInv,
         \/ SkipRunning \/ EndRunning \/ SkipBlocked \/ SkipUndecided \/ EndWaiting
         \/ \E r \in Requests : PreemptLast(r) \/ Promote(r) \/ AdmitLoad(r)
  PROVE  CountsInv'
<1>1. pc \in {"running", "waiting"} /\ pc' \in {"running", "waiting", "done"} /\ UNCHANGED flight
  BY DEF SkipRunning, EndRunning, SkipBlocked, SkipUndecided, SkipCandidate, EndWaiting,
         PreemptLast, Promote, AdmitLoad, CanBeAdmitted, MayAdmit, MoreRunning
<1>2. /\ DOMAIN call = DOMAIN NoCall
      /\ {"budget", "sched", "spec", "loads", "idx", "passed", "preempted"} \subseteq DOMAIN call
  BY DEF QueueInv, Calls, NoCall
<1>3. RequestCounts /\ CallCounts /\ StepsCounts
  BY DEF CountsInv
<1>4. /\ call'.budget = call.budget /\ call'.sched = call.sched
      /\ call'.spec = call.spec /\ call'.loads = call.loads
  <2>1. CASE SkipRunning
    BY <1>2, <2>1 DEF SkipRunning
  <2>2. CASE SkipBlocked \/ SkipUndecided
    BY <1>2, <2>2 DEF SkipBlocked, SkipUndecided, SkipCandidate
  <2>3. CASE EndRunning \/ EndWaiting \/ \E r \in Requests : Promote(r)
    BY <2>3 DEF EndRunning, EndWaiting, Promote
  <2>4. CASE \E r \in Requests : PreemptLast(r)
    BY <1>2, <2>4 DEF PreemptLast
  <2>5. CASE \E r \in Requests : AdmitLoad(r)
    BY <1>2, <2>5 DEF AdmitLoad
  <2>6. QED
    BY <2>1, <2>2, <2>3, <2>4, <2>5
<1>5. RequestCounts'
  <2>1. CASE SkipRunning \/ EndRunning \/ SkipBlocked \/ SkipUndecided \/ EndWaiting
    BY <1>3, <2>1 DEF SkipRunning, EndRunning, SkipBlocked, SkipUndecided, SkipCandidate,
                      EndWaiting, countVars, RequestCounts
  <2>2. CASE \E r \in Requests : PreemptLast(r)
    BY <1>3, <2>2, PreemptCounts DEF PreemptLast
  <2>3. ASSUME NEW r \in Requests, Promote(r)
        PROVE  RequestCounts'
    <3>1. LoadedTokens(r) \in Int
      BY <1>3 DEF LoadedTokens, RequestCounts
    <3>2. UNCHANGED <<tokens, spec, holders>> /\ \E k \in {LoadedTokens(r), computed[r]} :
            computed' = [computed EXCEPT ![r] = k]
      BY <2>3 DEF Promote
    <3>3. QED
      BY <1>3, <3>1, <3>2 DEF RequestCounts
  <2>4. ASSUME NEW r \in Requests, AdmitLoad(r)
        PROVE  RequestCounts'
    <3>1. PICK m \in Matches(r) : computed' = [computed EXCEPT ![r] = m.ext]
      BY <2>4, Zenon DEF AdmitLoad
    <3>2. m.ext \in Int
      BY <1>1, <3>1, Amounts
    <3>3. UNCHANGED <<tokens, spec, holders>>
      BY <2>4 DEF AdmitLoad
    <3>4. QED
      BY <1>3, <3>1, <3>2, <3>3 DEF RequestCounts
  <2>5. QED
    BY <2>1, <2>2, <2>3, <2>4
<1>6. CallCounts' /\ StepsCounts'
  BY <1>1, <1>3, <1>4 DEF CallCounts, StepsCounts, StepCounts
<1>7. QED
  BY <1>5, <1>6 DEF CountsInv

LEMMA BeginScheduleCounts ==
  ASSUME CountsInv, NEW throttle, BeginSchedule(throttle)
  PROVE  CountsInv'
<1>1. /\ pc = "idle" /\ pc' = "running" /\ UNCHANGED <<tokens, computed, spec, holders, flight>>
  BY DEF BeginSchedule, countVars
<1>2. /\ call'.budget \in {0, MaxScheduledTokens} /\ call'.sched = None /\ call'.spec = None
      /\ call'.loads = {}
  BY DEF BeginSchedule, NoCall
<1>3. None \in [Requests -> Nat] /\ MaxScheduledTokens \in Int
  BY DEF None, SchedulerAssumption
<1>4. CallCounts'
  BY <1>2, <1>3 DEF CallCounts
<1>5. RequestCounts' /\ StepsCounts'
  BY <1>1 DEF CountsInv, RequestCounts, StepsCounts, StepCounts
<1>6. QED
  BY <1>4, <1>5 DEF CountsInv

\* _update_after_schedule.
LEMMA FinishScheduleCounts ==
  ASSUME CountsInv, QueueInv, FinishSchedule
  PROVE  CountsInv'
<1>1. pc = "done" /\ pc' = "idle" /\ UNCHANGED tokens
  BY DEF FinishSchedule
<1>2. RequestCounts /\ CallCounts /\ StepsCounts
  BY DEF CountsInv
<1>3. PICK step : NewStep(step) /\ flight' = Append(flight, step)
  BY StepHandedOut
<1>4. /\ computed' = [r \in Requests |-> computed[r] + call.sched[r]]
      /\ \E sampled : /\ holders' = [r \in Requests |-> IF r \in sampled
                                       THEN holders[r] + 1 + call.spec[r] ELSE holders[r]]
                      /\ spec' = [r \in Requests |-> IF r \in sampled
                                    THEN NumSpecTokens ELSE spec[r]]
  BY Zenon DEF FinishSchedule
<1>5. NumSpecTokens \in Nat
  BY DEF SchedulerAssumption
<1>6. RequestCounts'
  BY <1>1, <1>2, <1>4, <1>5 DEF RequestCounts, CallCounts
<1>7. PICK T : flight \in Seq(T)
  BY DEF QueueInv, Flights
<1>8. \A i \in 1 .. Len(flight') : \/ i \in 1 .. Len(flight) /\ flight'[i] = flight[i]
                                   \/ flight'[i] = step
  BY <1>3, <1>7
<1>9. StepCounts(step)
  BY <1>1, <1>2, <1>3 DEF StepCounts, NewStep, CallCounts
<1>10. \A i \in 1 .. Len(flight') : StepCounts(flight'[i])
  BY <1>2, <1>8, <1>9 DEF StepsCounts
<1>11. StepsCounts' /\ CallCounts'
  BY <1>1, <1>10 DEF StepsCounts, StepCounts, CallCounts
<1>12. QED
  BY <1>6, <1>11 DEF CountsInv

LEMMA BeginStepCounts ==
  ASSUME CountsInv, QueueInv, BeginUpdate \/ FailLoad \/ FailSyncLoad
  PROVE  CountsInv'
<1>1. PICK skip, failing : flight # <<>> /\ BeginStep(skip, failing)
  BY DEF BeginUpdate, FailLoad, FailSyncLoad
<1>2. /\ pc' = "update" /\ flight' = Tail(flight) /\ upd'.step = Head(flight)
      /\ UNCHANGED <<tokens, spec, holders>>
  BY <1>1 DEF BeginStep, NoUpdate
<1>3. RequestCounts /\ StepsCounts
  BY DEF CountsInv
<1>4. \/ UNCHANGED computed
      \/ \E r : \E k \in 0 .. MaxModelLen : computed' = [computed EXCEPT ![r] = k * BlockSize]
  <2>1. CASE BeginUpdate
    BY <2>1 DEF BeginUpdate
  <2>2. CASE FailLoad
    <3>1. PICK r \in loading, k \in 0 .. MaxModelLen :
            computed' = [computed EXCEPT ![r] = k * BlockSize]
      BY <2>2, Zenon DEF FailLoad
    <3>2. QED
      BY <3>1
  <2>3. CASE FailSyncLoad
    <3>1. PICK r \in Requests, k \in 0 .. MaxModelLen :
            computed' = [computed EXCEPT ![r] = k * BlockSize]
      BY <2>3, Zenon DEF FailSyncLoad
    <3>2. QED
      BY <3>1
  <2>4. QED
    BY <2>1, <2>2, <2>3
<1>5. \A k \in 0 .. MaxModelLen : k * BlockSize \in Int
  BY DEF SchedulerAssumption
<1>6. RequestCounts'
  BY <1>2, <1>3, <1>4, <1>5 DEF RequestCounts
<1>7. PICK T : flight \in Seq(T)
  BY DEF QueueInv, Flights
<1>8. /\ Head(flight) = flight[1] /\ 1 \in 1 .. Len(flight)
      /\ \A i \in 1 .. Len(flight') : i + 1 \in 1 .. Len(flight) /\ flight'[i] = flight[i + 1]
  BY <1>1, <1>2, <1>7
<1>9. StepsCounts'
  <2>1. StepCounts(upd'.step)
    BY <1>2, <1>3, <1>8 DEF StepsCounts
  <2>2. \A i \in 1 .. Len(flight') : StepCounts(flight'[i])
    BY <1>3, <1>8 DEF StepsCounts
  <2>3. QED
    BY <2>1, <2>2 DEF StepsCounts, StepCounts
<1>10. CallCounts'
  BY <1>2 DEF CallCounts
<1>11. QED
  BY <1>6, <1>9, <1>10 DEF CountsInv

\* The counts of a request after an output.
LEMMA SettleCounts ==
  ASSUME RequestCounts, StepCounts(upd.step), NEW r \in Requests, NEW m \in Int, NEW kept \in Int
  PROVE  /\ Settled(r, m) \in Int
         /\ Settle(r, m, kept) =>
              computed' \in [Requests -> Int] /\ holders' \in [Requests -> Int]
<1>1. /\ computed[r] \in Int /\ holders[r] \in Int /\ upd.step.spec[r] \in Int
      /\ computed \in [Requests -> Int] /\ holders \in [Requests -> Int]
  BY DEF RequestCounts, StepCounts
<1>2. Rejected(r, m) \in Int
  BY <1>1 DEF Rejected
<1>3. Settled(r, m) \in Int
  BY <1>1, <1>2 DEF Settled
<1>4. ASSUME Settle(r, m, kept)
      PROVE  computed' \in [Requests -> Int] /\ holders' \in [Requests -> Int]
  <2> DEFINE come == IF upd.step.spec[r] > 0 /\ holders[r] > 0
                     THEN holders[r] - Rejected(r, m) ELSE holders[r]
             left == come - (IF Async THEN kept ELSE 0)
  <2>1. left \in Int
    BY <1>1, <1>2
  <2>2. /\ computed' = [computed EXCEPT ![r] = Settled(r, m)]
        /\ holders' = [holders EXCEPT ![r] = left]
    BY <1>4, Zenon DEF Settle
  <2> HIDE DEF left
  <2>3. QED
    BY <1>1, <1>3, <2>1, <2>2
<1>5. QED
  BY <1>3, <1>4

LEMMA UpdateStepCounts ==
  ASSUME CountsInv, QueueInv, UpdateStep
  PROVE  CountsInv'
<1>1. /\ UNCHANGED <<call, flight>> /\ pc \in {"update", "failures", "transfers"}
      /\ pc' \in {"update", "failures", "transfers", "idle"} /\ (pc' = "update" => pc = "update")
  BY DEF UpdateStep, IgnoreOutput, RemoveStopped, FailRequests, OutputGoesOn, OutputFinishes,
         SessionGoesOn, SessionPauses, FinishUpdate, MoreOutputs
<1>2. RequestCounts /\ (pc = "update" => StepCounts(upd.step))
  BY DEF CountsInv, StepsCounts
<1>3. CASE RemoveStopped \/ FailRequests
  <2>1. UNCHANGED <<tokens, computed, spec, holders, upd>>
    BY <1>3 DEF RemoveStopped, FailRequests, countVars
  <2>2. QED
    BY <1>1, <1>2, <2>1, CountsFrame DEF RequestCounts
<1>4. ASSUME NEW R, NEW S, FinishUpdate(R, S)
      PROVE  CountsInv'
  <2>1. /\ UNCHANGED <<tokens, computed, holders>> /\ pc' = "idle"
        /\ spec' = [r \in Requests |-> DraftTokens(r)]
    BY <1>4 DEF FinishUpdate
  <2>2. \A r \in Requests : DraftTokens(r) \in Nat
    BY <1>2 DEF DraftTokens, RequestCounts, SchedulerAssumption
  <2>3. QED
    BY <1>1, <1>2, <2>1, <2>2, CountsFrame DEF RequestCounts
<1>5. CASE \/ IgnoreOutput
           \/ \E r \in Requests : \/ OutputGoesOn(r) \/ OutputFinishes(r)
                                  \/ SessionGoesOn(r) \/ SessionPauses(r)
  <2>1. pc = "update" /\ StepCounts(upd.step) /\ UNCHANGED spec
    BY <1>2, <1>5 DEF IgnoreOutput, OutputGoesOn, OutputFinishes, SessionGoesOn, SessionPauses,
                      MoreOutputs, countVars
  <2>2. upd'.step = upd.step
    <3>1. "step" \in DOMAIN upd
      BY DEF QueueInv, Updates, NoUpdate
    <3>2. CASE IgnoreOutput \/ \E r \in Requests : OutputGoesOn(r)
      BY <3>1, <3>2 DEF IgnoreOutput, OutputGoesOn
    <3>3. CASE \E r \in Requests : OutputFinishes(r) \/ SessionGoesOn(r) \/ SessionPauses(r)
      BY <3>1, <3>3 DEF OutputFinishes, SessionGoesOn, SessionPauses, Stopped
    <3>4. QED
      BY <1>5, <3>2, <3>3
  <2>3. CASE IgnoreOutput
    BY <1>1, <1>2, <2>2, <2>3, CountsFrame DEF IgnoreOutput, countVars, RequestCounts
  <2>4. CASE \E r \in Requests : OutputGoesOn(r) \/ OutputFinishes(r) \/ SessionPauses(r)
    <3>1. PICK r \in Requests : OutputGoesOn(r) \/ OutputFinishes(r) \/ SessionPauses(r)
      BY <2>4
    <3>2. PICK m \in Int, kept \in Int : AppendOutput(r, kept) /\ Settle(r, m, kept)
      <4>1. CASE OutputGoesOn(r)
        BY <4>1 DEF OutputGoesOn
      <4>2. CASE OutputFinishes(r) \/ SessionPauses(r)
        BY <4>2 DEF OutputFinishes, SessionPauses, SchedulerAssumption
      <4>3. QED
        BY <3>1, <4>1, <4>2
    <3>3. computed' \in [Requests -> Int] /\ holders' \in [Requests -> Int]
      BY <1>2, <2>1, <3>2, SettleCounts
    <3>4. tokens' \in [Requests -> Int]
      BY <1>2, <3>2 DEF AppendOutput, RequestCounts
    <3>5. QED
      BY <1>1, <1>2, <2>1, <2>2, <3>3, <3>4, CountsFrame DEF RequestCounts
  <2>5. CASE \E r \in Requests : SessionGoesOn(r)
    <3>1. PICK r \in Requests, m \in Int, kept \in Int :
            NextChunk(r, tokens[r] + kept, Settled(r, m)) /\ Settle(r, m, kept)
      BY <2>5 DEF SessionGoesOn, SchedulerAssumption
    <3>2. /\ computed' \in [Requests -> Int] /\ holders' \in [Requests -> Int]
          /\ Settled(r, m) \in Int
      BY <1>2, <2>1, <3>1, SettleCounts
    <3>3. Kept(tokens[r] + kept, Settled(r, m)) + 1 \in Int
      BY <1>2, <3>2 DEF Kept, RequestCounts
    <3>4. tokens' \in [Requests -> Int]
      BY <1>2, <3>1, <3>3 DEF NextChunk, RequestCounts
    <3>5. QED
      BY <1>1, <1>2, <2>1, <2>2, <3>2, <3>4, CountsFrame DEF RequestCounts
  <2>6. QED
    BY <1>5, <2>3, <2>4, <2>5
<1>6. QED
  BY <1>3, <1>4, <1>5 DEF UpdateStep

LEMMA CountsNext == CountsInv /\ QueueInv /\ [Next]_vars => CountsInv'
<1> SUFFICES ASSUME CountsInv, QueueInv, [Next]_vars
             PROVE  CountsInv'
  OBVIOUS
<1>1. CASE RequestStep
  BY <1>1, RequestStepCounts
<1>2. CASE ScheduleStep
  BY <1>2, SchedulingCounts, ScheduleRunningCounts, AdmitCounts, FinishScheduleCounts
     DEF ScheduleStep
<1>3. CASE UpdateStep
  BY <1>3, UpdateStepCounts
<1>4. CASE \E throttle \in BOOLEAN : BeginSchedule(throttle)
  BY <1>4, BeginScheduleCounts
<1>5. CASE BeginUpdate \/ FailLoad \/ FailSyncLoad
  BY <1>5, BeginStepCounts
<1>6. CASE UNCHANGED vars
  <2>1. UNCHANGED <<tokens, computed, spec, holders, call, flight, pc, upd>>
    BY <1>6 DEF vars, countVars
  <2>2. QED
    BY <2>1, CountsFrame DEF CountsInv, RequestCounts
<1>7. QED
  BY <1>1, <1>2, <1>3, <1>4, <1>5, <1>6 DEF Next

LEMMA CountsAlways == Spec => []CountsInv
<1>1. QED
  BY CountsInit, CountsNext, QueuesAgree, PTL DEF Spec

-----------------------------------------------------------------------------
(* The transfers of the KV connector.                                      *)

\* The scheduler knows every request that it has not finished.
Known == \A r \in Requests : status[r] \notin {"absent", "finished"} => r \in requests

Filled(r) == NewBlocks(r, Min({Remote[r], tokens[r]})) = 0
LoadKept(r) ==
  /\ r \in requests /\ status[r] \in {"remote", "finished"} /\ r \notin finishedRecv
  /\ r \notin sending /\ Filled(r)
SendKept(r) == r \in requests /\ status[r] = "finished" /\ held[r] # {}
Transfers ==
  /\ loading \subseteq Requests /\ \A r \in loading : LoadKept(r)
  /\ sending \subseteq Requests /\ \A r \in sending : SendKept(r)
  /\ failedRecv \cup finishedRecv \subseteq Requests
  /\ \A r \in failedRecv \cup finishedRecv : status[r] = "remote"

\* The one request whose load has failed, and those whose output is passed over with it.
Failures ==
  Settling => /\ upd.failing \subseteq Requests
              /\ \A r, q \in upd.failing : r = q
              /\ \A r \in upd.failing : status[r] # "absent"
              /\ pc = "update" => \A r \in upd.skip : r \in upd.failing \/ Exempt(r)

TransfersInv == Known /\ Transfers /\ Failures

\* A request keeps the blocks its load fills as long as none is taken from it.
LEMMA FilledKeeps ==
  ASSUME BlocksInv, BlocksInv', CountsInv, NEW r \in Requests, Filled(r),
         held[r] \subseteq held'[r], tokens'[r] = tokens[r]
  PROVE  Filled(r)'
<1> DEFINE n == Min({Remote[r], tokens[r]})
           all == BlocksFor(IF n < MaxModelLen THEN n ELSE MaxModelLen)
<1>1. n \in Int
  <2>1. Remote[r] \in Int /\ tokens[r] \in Int
    BY DEF CountsInv, RequestCounts, SchedulerAssumption
  <2>2. QED
    BY <2>1, MinOfTwo, Zenon
<1>2. all \in Int
  BY <1>1 DEF BlocksFor, SchedulerAssumption
<1>3. /\ Cardinality(held[r]) \in Nat /\ Cardinality(held'[r]) \in Nat
      /\ Cardinality(held[r]) <= Cardinality(held'[r])
  <2>1. IsFiniteSet(Blocks) /\ held[r] \subseteq Blocks /\ held'[r] \subseteq Blocks
    BY DEF BlocksInv, SchedulerAssumption
  <2>2. IsFiniteSet(held[r]) /\ IsFiniteSet(held'[r])
    BY <2>1, FS_Subset
  <2>3. QED
    BY <2>2, FS_Subset, FS_CardinalityType
<1>4. n' = n
  OBVIOUS
<1> HIDE DEF n
<1>5. /\ NewBlocks(r, n) = IF all - Cardinality(held[r]) > 0
                           THEN all - Cardinality(held[r]) ELSE 0
      /\ NewBlocks(r, n)' = IF all - Cardinality(held'[r]) > 0
                            THEN all - Cardinality(held'[r]) ELSE 0
  BY <1>4 DEF NewBlocks, BlocksFor
<1> HIDE DEF all
<1>6. NewBlocks(r, n) = 0
  BY DEF Filled, n
<1>7. NewBlocks(r, n)' = 0
  BY <1>2, <1>3, <1>5, <1>6
<1>8. QED
  BY <1>7 DEF Filled, n

\* allocate_slots for a load: its blocks are there.
LEMMA FilledByLoad ==
  ASSUME BlocksInv, BlocksInv', CountsInv, NEW r \in Requests, UNCHANGED tokens,
         Allocate(r, Min({Remote[r], tokens[r]}))
  PROVE  Filled(r)'
<1> DEFINE n == Min({Remote[r], tokens[r]})
           all == BlocksFor(IF n < MaxModelLen THEN n ELSE MaxModelLen)
<1>1. n \in Int
  <2>1. Remote[r] \in Int /\ tokens[r] \in Int
    BY DEF CountsInv, RequestCounts, SchedulerAssumption
  <2>2. QED
    BY <2>1, MinOfTwo, Zenon
<1>2. all \in Int
  BY <1>1 DEF BlocksFor, SchedulerAssumption
<1>3. PICK b \in Grabs(NewBlocks(r, n)) : held' = [held EXCEPT ![r] = @ \cup b]
  BY DEF Allocate
<1>4. b \subseteq free /\ Cardinality(b) = NewBlocks(r, n) /\ held'[r] = held[r] \cup b
  BY <1>3 DEF Grabs, BlocksInv
<1>5. Cardinality(held'[r]) = Cardinality(held[r]) + Cardinality(b) /\ Cardinality(held[r]) \in Nat
  <2>1. held[r] \cap b = {} /\ held[r] \subseteq Blocks /\ b \subseteq Blocks
    BY <1>4 DEF BlocksInv, EveryBlockOnce
  <2>2. IsFiniteSet(held[r]) /\ IsFiniteSet(b)
    BY <2>1, FS_Subset DEF SchedulerAssumption
  <2>3. Cardinality(held[r] \cup b)
          = Cardinality(held[r]) + Cardinality(b) - Cardinality(held[r] \cap b)
    BY <2>2, FS_Union, Zenon
  <2>4. Cardinality(held[r] \cap b) = 0
    BY <2>1, FS_EmptySet
  <2>5. Cardinality(held[r]) \in Nat /\ Cardinality(b) \in Nat
    BY <2>2, FS_CardinalityType
  <2>6. QED
    BY <1>4, <2>3, <2>4, <2>5
<1>6. n' = n
  OBVIOUS
<1> HIDE DEF n
<1>7. /\ NewBlocks(r, n) = IF all - Cardinality(held[r]) > 0
                           THEN all - Cardinality(held[r]) ELSE 0
      /\ NewBlocks(r, n)' = IF all - Cardinality(held'[r]) > 0
                            THEN all - Cardinality(held'[r]) ELSE 0
  BY <1>6 DEF NewBlocks, BlocksFor
<1> HIDE DEF all
<1>8. NewBlocks(r, n)' = 0
  BY <1>2, <1>4, <1>5, <1>7
<1>9. QED
  BY <1>8 DEF Filled, n

\* A request with a transfer, or whose transfer is over, has finished or waits for it.
Undisturbed(r) ==
  /\ status'[r] = status[r] /\ (r \in requests => r \in requests')
  /\ held[r] \subseteq held'[r] /\ tokens'[r] = tokens[r]

LEMMA TransfersFrame ==
  ASSUME BlocksInv, BlocksInv', CountsInv, Transfers, UNCHANGED xferVars,
         \A r \in Requests : status[r] \in {"remote", "finished"} => Undisturbed(r)
  PROVE  Transfers'
<1>1. UNCHANGED <<loading, sending, finishedRecv, failedRecv>>
  BY DEF xferVars
<1>2. ASSUME NEW r \in loading
      PROVE  LoadKept(r)'
  <2>1. r \in Requests /\ LoadKept(r) /\ Undisturbed(r)
    BY <1>2 DEF Transfers, LoadKept
  <2>2. Filled(r)'
    BY <2>1, FilledKeeps DEF LoadKept, Undisturbed
  <2>3. QED
    BY <1>1, <2>1, <2>2 DEF LoadKept, Undisturbed
<1>3. ASSUME NEW r \in sending
      PROVE  SendKept(r)'
  BY <1>3 DEF Transfers, SendKept, Undisturbed
<1>4. QED
  BY <1>1, <1>2, <1>3 DEF Transfers, Undisturbed

\* _free_request: the blocks of a load under way stay, and so do those to be sent.
LEMMA FreedTransfers ==
  ASSUME BlocksInv, BlocksInv', CountsInv, Transfers, NEW r \in Requests, NEW loads,
         FreeRequests({r}, loads), loads \subseteq {r}, r \in loading => loads = {r},
         r \in requests, status[r] # "finished", UNCHANGED loading,
         finishedRecv' = finishedRecv \ {r}, failedRecv' = failedRecv \ {r},
         \A q \in Requests : status[q] \in {"remote", "finished"} => tokens'[q] = tokens[q]
  PROVE  Transfers'
<1> DEFINE sends == ConnectorKeeps({r} \ loads)
           kept == loads \cup sends
<1>1. /\ status' = [q \in Requests |-> IF q \in {r} THEN "finished" ELSE status[q]]
      /\ sending' = sending \cup sends /\ requests' = requests \ ({r} \ kept)
      /\ FreeBlocks({r} \ kept)
  BY Zenon DEF FreeRequests
<1>2. held' = [q \in Requests |-> IF q \in {r} \ kept THEN {} ELSE held[q]]
  BY <1>1 DEF FreeBlocks
<1>3. sends \subseteq {r} \ loads /\ \A q \in sends : held[q] # {}
  BY DEF ConnectorKeeps
<1> HIDE DEF sends
<1>4. ASSUME NEW q \in loading
      PROVE  LoadKept(q)'
  <2>1. q \in Requests /\ LoadKept(q)
    BY <1>4 DEF Transfers
  <2>2. q \in kept \/ q # r
    BY <1>4
  <2>3. q \in requests' /\ status'[q] \in {"remote", "finished"} /\ held'[q] = held[q]
    BY <1>1, <1>2, <2>1, <2>2 DEF LoadKept
  <2>4. q \notin sending'
    BY <1>1, <1>3, <1>4, <2>1 DEF LoadKept
  <2>5. Filled(q)'
    BY <2>1, <2>3, FilledKeeps DEF LoadKept
  <2>6. QED
    BY <2>1, <2>3, <2>4, <2>5 DEF LoadKept
<1>5. ASSUME NEW q \in sending'
      PROVE  q \in Requests /\ SendKept(q)'
  <2>1. CASE q \in sending
    <3>1. q \in Requests /\ SendKept(q) /\ q # r
      BY <2>1 DEF Transfers, SendKept
    <3>2. QED
      BY <1>1, <1>2, <3>1 DEF SendKept
  <2>2. CASE q \in sends
    BY <1>1, <1>2, <1>3, <2>2 DEF SendKept
  <2>3. QED
    BY <1>1, <1>5, <2>1, <2>2
<1>6. \A q \in failedRecv' \cup finishedRecv' : q \in Requests /\ status'[q] = "remote"
  BY <1>1 DEF Transfers
<1>7. QED
  BY <1>4, <1>5, <1>6 DEF Transfers

LEMMA KnownFrame ==
  ASSUME Known,
         \A r \in Requests : status'[r] \notin {"absent", "finished"} =>
           \/ r \in requests'
           \/ status[r] \notin {"absent", "finished"} /\ (r \in requests => r \in requests')
  PROVE  Known'
BY DEF Known

\* finish_requests.
LEMMA FinishRequestTransfers ==
  ASSUME BlocksInv, BlocksInv', CountsInv, Known, Transfers, NEW r \in Requests,
         FinishRequest(r), UNCHANGED <<loading, tokens>>, status[r] \notin {"absent", "finished"}
  PROVE  Known' /\ Transfers' /\ \A q \in Requests : status[q] # "absent" => status'[q] # "absent"
<1> DEFINE load == IF status[r] = "remote" /\ r \notin finishedRecv THEN {r} ELSE {}
<1>1. /\ FreeRequests({r}, load)
      /\ finishedRecv' = finishedRecv \ {r} /\ failedRecv' = failedRecv \ {r}
  BY DEF FinishRequest
<1>2. r \in requests
  BY DEF Known
<1>3. r \in loading => load = {r}
  BY DEF Transfers, LoadKept
<1>4. load \subseteq {r}
  OBVIOUS
<1> HIDE DEF load
<1>5. Transfers'
  BY <1>1, <1>2, <1>3, <1>4, FreedTransfers
<1>6. /\ status' = [q \in Requests |-> IF q \in {r} THEN "finished" ELSE status[q]]
      /\ requests \ {r} \subseteq requests'
  BY <1>1 DEF FreeRequests
<1>7. QED
  BY <1>5, <1>6, KnownFrame

LEMMA RequestStepTransfers ==
  ASSUME QueueInv, BlocksInv, BlocksInv', CountsInv, TransfersInv, RequestStep
  PROVE  TransfersInv'
<1>1. Known /\ Transfers /\ status \in [Requests -> Status] /\ held \in [Requests -> SUBSET Blocks]
      /\ tokens \in [Requests -> Int]
  BY DEF TransfersInv, QueueInv, Places, BlocksInv, CountsInv, RequestCounts
<1>2. pc = "idle" /\ pc' = "idle"
  BY DEF RequestStep, AddRequest, SendUpdate, EndSession, Abort, GrammarCompiled, Pause,
         ResetPrefixCache, Outside, OutsideVars
<1>3. Failures'
  BY <1>2 DEF Failures, Settling
<1>4. ASSUME NEW r \in Requests, AddRequest(r)
      PROVE  Known' /\ Transfers'
  <2>1. /\ status[r] = "absent" /\ requests' = requests \cup {r}
        /\ \E st : status' = [status EXCEPT ![r] = st]
        /\ tokens' = [tokens EXCEPT ![r] = PromptLen[r]]
        /\ UNCHANGED held /\ UNCHANGED xferVars
    BY <1>4 DEF AddRequest, kvVars
  <2>2. \A q \in Requests : q # r => status'[q] = status[q] /\ tokens'[q] = tokens[q]
    BY <1>1, <2>1
  <2>3. QED
    BY <1>1, <2>1, <2>2, KnownFrame, TransfersFrame DEF Undisturbed
<1>5. ASSUME NEW r \in Requests, SendUpdate(r)
      PROVE  Known' /\ Transfers'
  <2>1. /\ UNCHANGED <<requests, held>> /\ UNCHANGED xferVars
        /\ \/ UNCHANGED <<status, tokens>>
           \/ /\ status[r] = "streaming" /\ status' = [status EXCEPT ![r] = "waiting"]
              /\ \E n : tokens' = [tokens EXCEPT ![r] = n]
    BY <1>5 DEF SendUpdate, NextChunk, kvVars
  <2>2. \A q \in Requests : \/ status'[q] = status[q] /\ tokens'[q] = tokens[q]
                            \/ q = r /\ status[r] = "streaming"
    BY <1>1, <2>1
  <2>3. QED
    BY <1>1, <2>1, <2>2, KnownFrame, TransfersFrame DEF Undisturbed
<1>6. ASSUME NEW r \in Requests, EndSession(r) \/ Abort(r)
      PROVE  Known' /\ Transfers'
  <2>1. UNCHANGED tokens
    BY <1>6 DEF EndSession, Abort, countVars
  <2>2. CASE Abort(r) \/ status[r] = "streaming"
    <3>1. FinishRequest(r) /\ UNCHANGED loading /\ r \in requests /\ status[r] # "finished"
      BY <1>6, <2>2 DEF EndSession, Abort
    <3>2. status[r] # "absent"
      BY <3>1 DEF QueueInv, Places, Place
    <3>3. QED
      BY <1>1, <2>1, <3>1, <3>2, FinishRequestTransfers
  <2>3. CASE EndSession(r) /\ status[r] # "streaming"
    <3>1. UNCHANGED <<requests, status, held>> /\ UNCHANGED xferVars
      BY <2>3 DEF EndSession, queueVars, kvVars
    <3>2. QED
      BY <1>1, <2>1, <3>1, KnownFrame, TransfersFrame DEF Undisturbed
  <2>4. QED
    BY <1>6, <2>2, <2>3
<1>7. CASE (\E r \in Requests : GrammarCompiled(r)) \/ \E state \in PauseState : Pause(state)
  <2>1. UNCHANGED <<requests, status, held, tokens>> /\ UNCHANGED xferVars
    BY <1>7 DEF GrammarCompiled, Pause, queueVars, kvVars, countVars
  <2>2. QED
    BY <1>1, <1>3, <2>1, KnownFrame, TransfersFrame DEF Undisturbed, TransfersInv
<1>8. CASE ResetPrefixCache
  <2>1. /\ UNCHANGED <<requests, tokens>> /\ UNCHANGED xferVars
        /\ Preempt({q \in Requests : InQueue(running, q)})
    BY <1>8 DEF ResetPrefixCache
  <2>2. \A q \in Requests : InQueue(running, q) => status[q] = "running"
    BY <1>2, RangeQueue DEF QueueInv, Places, Place, Queues, InQueue, Leaving
  <2>3. \A q \in Requests :
          /\ status'[q] = IF InQueue(running, q) THEN "preempted" ELSE status[q]
          /\ held'[q] = IF InQueue(running, q) THEN {} ELSE held[q]
    BY <2>1 DEF Preempt, FreeBlocks
  <2>4. QED
    BY <1>1, <1>3, <2>1, <2>2, <2>3, KnownFrame, TransfersFrame DEF Undisturbed, TransfersInv
<1>9. QED
  BY <1>3, <1>4, <1>5, <1>6, <1>7, <1>8 DEF RequestStep, TransfersInv

\* A promoted request has no transfer left.
LEMMA PromoteTransfers ==
  ASSUME BlocksInv, BlocksInv', CountsInv, Known, Transfers, status \in [Requests -> Status],
         NEW r \in Requests, Promote(r)
  PROVE  Known' /\ Transfers'
<1>1. /\ \E st \in {"waiting", "preempted"} : status' = [status EXCEPT ![r] = st]
      /\ \E b : held' = [held EXCEPT ![r] = b]
      /\ UNCHANGED <<requests, tokens, loading, sending>>
      /\ finishedRecv' = finishedRecv \ {r} /\ failedRecv' = failedRecv \ {r}
  BY Zenon DEF Promote
<1>2. (status[r] = "remote" /\ r \in finishedRecv) \/ status[r] = "grammar"
  BY DEF Promote, Promotable
<1>3. held \in [Requests -> SUBSET Blocks]
  BY DEF BlocksInv
<1>4. \A q \in Requests : q # r => status'[q] = status[q] /\ held'[q] = held[q]
  BY <1>1, <1>3
<1>5. r \notin loading /\ r \notin sending
  BY <1>2 DEF Transfers, LoadKept, SendKept
<1>6. ASSUME NEW q \in loading
      PROVE  LoadKept(q)'
  <2>1. q \in Requests /\ q # r /\ LoadKept(q)
    BY <1>5, <1>6 DEF Transfers
  <2>2. Filled(q)'
    BY <1>1, <1>4, <2>1, FilledKeeps DEF LoadKept
  <2>3. QED
    BY <1>1, <1>4, <2>1, <2>2 DEF LoadKept
<1>7. ASSUME NEW q \in sending
      PROVE  SendKept(q)'
  BY <1>1, <1>4, <1>5, <1>7 DEF Transfers, SendKept
<1>8. Transfers'
  BY <1>1, <1>4, <1>6, <1>7 DEF Transfers
<1>9. QED
  BY <1>1, <1>2, <1>4, <1>8, KnownFrame

\* A load begins with the blocks it fills.
LEMMA AdmitLoadTransfers ==
  ASSUME BlocksInv, BlocksInv', CountsInv, QueueInv, Known, Transfers,
         NEW r \in Requests, AdmitLoad(r)
  PROVE  Known' /\ Transfers'
<1>1. PICK m \in Matches(r) : m.async /\ Allocate(r, m.ext)
  BY Zenon DEF AdmitLoad
<1>2. m.ext = Min({Remote[r], tokens[r]})
  <2>1. \/ m = [ext |-> 0, async |-> FALSE]
        \/ m = [ext |-> Min({Remote[r], tokens[r]}), async |-> TRUE]
        \/ m = [ext |-> Min({SyncRemote[r], tokens[r] - 1}), async |-> FALSE]
    BY DEF Matches
  <2>2. QED
    BY <1>1, <2>1
<1>3. /\ status' = [status EXCEPT ![r] = "remote"] /\ loading' = loading \cup {r}
      /\ UNCHANGED <<requests, tokens, sending, finishedRecv, failedRecv>>
      /\ pc = "waiting" /\ SomeWaiting /\ PopCandidate /\ r = Candidate
      /\ status[r] \notin BlockedStatus
  BY DEF AdmitLoad, CanBeAdmitted, MayAdmit
<1>4. Filled(r)'
  BY <1>1, <1>2, <1>3, FilledByLoad
<1>5. \E b : held' = [held EXCEPT ![r] = @ \cup b]
  BY <1>1, Zenon DEF Allocate
<1>6. held \in [Requests -> SUBSET Blocks] /\ status \in [Requests -> Status]
  BY DEF BlocksInv, QueueInv, Places
<1>7. \A q \in Requests : q # r => status'[q] = status[q] /\ held'[q] = held[q]
  BY <1>3, <1>5, <1>6
<1>8. status[r] \in Waits /\ r \in requests
  <2>1. r \in ToSet(waiting) \cup ToSet(skippedWaiting)
    BY <1>3, PopQueues
  <2>2. status[r] \in Waits
    BY <1>3, <2>1 DEF QueueInv, Places, Place, LeavingWaiting
  <2>3. QED
    BY <2>2 DEF Known, Waits
<1>9. ASSUME NEW q \in loading'
      PROVE  q \in Requests /\ LoadKept(q)'
  <2>1. CASE q = r
    <3>1. r \notin sending /\ r \notin finishedRecv
      BY <1>8 DEF Transfers, SendKept, Waits
    <3>2. status'[r] = "remote"
      BY <1>3, <1>6
    <3>3. QED
      BY <1>3, <1>4, <1>8, <2>1, <3>1, <3>2 DEF LoadKept
  <2>2. CASE q # r
    <3>1. q \in Requests /\ LoadKept(q)
      BY <1>3, <1>9, <2>2 DEF Transfers
    <3>2. Filled(q)'
      BY <1>3, <1>7, <2>2, <3>1, FilledKeeps DEF LoadKept
    <3>3. QED
      BY <1>3, <1>7, <2>2, <3>1, <3>2 DEF LoadKept
  <2>3. QED
    BY <2>1, <2>2
<1>10. ASSUME NEW q \in sending
       PROVE  SendKept(q)'
  BY <1>3, <1>7, <1>8, <1>10 DEF Transfers, SendKept, Waits
<1>11. Transfers'
  BY <1>3, <1>7, <1>8, <1>9, <1>10 DEF Transfers, Waits
<1>12. QED
  BY <1>3, <1>7, <1>8, <1>11, KnownFrame

LEMMA ScheduleStepTransfers ==
  ASSUME QueueInv, BlocksInv, BlocksInv', CountsInv, TransfersInv,
         ScheduleStep \/ \E throttle \in BOOLEAN : BeginSchedule(throttle)
  PROVE  TransfersInv'
<1>1. Known /\ Transfers /\ status \in [Requests -> Status] /\ held \in [Requests -> SUBSET Blocks]
  BY DEF TransfersInv, QueueInv, Places, BlocksInv
<1>2. pc' \in {"running", "waiting", "done", "idle"}
  BY DEF ScheduleStep, SkipRunning, EndRunning, SkipBlocked, SkipUndecided, SkipCandidate,
         EndWaiting, FinishSchedule, ScheduleRunning, PreemptLast, Promote, AdmitLoad, Admit,
         CanBeAdmitted, MayAdmit, MoreRunning, BeginSchedule
<1>3. Failures'
  BY <1>2 DEF Failures, Settling
<1>4. CASE \/ SkipRunning \/ EndRunning \/ SkipBlocked \/ SkipUndecided \/ EndWaiting
           \/ FinishSchedule \/ \E throttle \in BOOLEAN : BeginSchedule(throttle)
  <2>1. UNCHANGED <<requests, status, held, tokens>> /\ UNCHANGED xferVars
    BY <1>4 DEF SkipRunning, EndRunning, SkipBlocked, SkipUndecided, SkipCandidate, EndWaiting,
                FinishSchedule, BeginSchedule, queueVars, kvVars, countVars
  <2>2. QED
    BY <1>1, <1>3, <2>1, KnownFrame, TransfersFrame DEF Undisturbed, TransfersInv
<1>5. ASSUME NEW r \in Requests, ScheduleRunning(r)
      PROVE  Known' /\ Transfers'
  <2>1. /\ UNCHANGED <<requests, status, tokens>> /\ UNCHANGED xferVars
        /\ \E b : held' = [held EXCEPT ![r] = @ \cup b]
    BY <1>5 DEF ScheduleRunning, queueVars
  <2>2. \A q \in Requests : held[q] \subseteq held'[q]
    BY <1>1, <2>1
  <2>3. QED
    BY <1>1, <2>1, <2>2, KnownFrame, TransfersFrame DEF Undisturbed
<1>6. ASSUME NEW r \in Requests, PreemptLast(r)
      PROVE  Known' /\ Transfers'
  <2>1. /\ pc = "running" /\ call.idx < Len(running) /\ r = Last(running)
        /\ UNCHANGED <<requests, tokens>> /\ UNCHANGED xferVars /\ Preempt({r})
    BY <1>6 DEF PreemptLast, MoreRunning
  <2>2. r \in ToSet(running)
    <3>1. call.idx \in Nat /\ Len(running) \in Nat
      BY <2>1 DEF QueueInv, Calls, Queues
    <3>2. running # <<>> /\ running \in Seq(Requests)
      BY <2>1, <3>1 DEF QueueInv, Queues
    <3>3. QED
      BY <2>1, <3>2, FrontQueue
  <2>3. status[r] = "running"
    BY <2>1, <2>2 DEF QueueInv, Places, Place, Leaving
  <2>4. \A q \in Requests : /\ status'[q] = IF q = r THEN "preempted" ELSE status[q]
                            /\ held'[q] = IF q = r THEN {} ELSE held[q]
    BY <2>1 DEF Preempt, FreeBlocks
  <2>5. QED
    BY <1>1, <2>1, <2>3, <2>4, KnownFrame, TransfersFrame DEF Undisturbed
<1>7. ASSUME NEW r \in Requests, Admit(r)
      PROVE  Known' /\ Transfers'
  <2>1. /\ UNCHANGED <<requests, tokens>> /\ UNCHANGED xferVars
        /\ status' = [status EXCEPT ![r] = "running"]
        /\ pc = "waiting" /\ SomeWaiting /\ PopCandidate /\ r = Candidate
        /\ status[r] \notin BlockedStatus
    BY <1>7 DEF Admit, CanBeAdmitted, MayAdmit
  <2>2. \E b : held' = [held EXCEPT ![r] = @ \cup b]
    BY <1>7, Zenon DEF Admit, Allocate
  <2>3. r \in ToSet(waiting) \cup ToSet(skippedWaiting)
    BY <2>1, PopQueues
  <2>4. status[r] \in Waits
    BY <2>1, <2>3 DEF QueueInv, Places, Place, LeavingWaiting
  <2>5. \A q \in Requests : held[q] \subseteq held'[q] /\ (q # r => status'[q] = status[q])
    BY <1>1, <2>1, <2>2
  <2>6. QED
    BY <1>1, <2>1, <2>4, <2>5, KnownFrame, TransfersFrame DEF Undisturbed, Waits
<1>8. QED
  BY <1>1, <1>3, <1>4, <1>5, <1>6, <1>7, PromoteTransfers, AdmitLoadTransfers
     DEF ScheduleStep, TransfersInv

\* _handle_invalid_blocks: the request whose load failed waits for it or runs.
LEMMA BeginStepTransfers ==
  ASSUME QueueInv, BlocksInv, BlocksInv', CountsInv, TransfersInv,
         BeginUpdate \/ FailLoad \/ FailSyncLoad
  PROVE  TransfersInv'
<1>1. Known /\ Transfers
  BY DEF TransfersInv
<1>2. /\ UNCHANGED <<requests, status, held, tokens, recompute, loading, sending, finishedRecv>>
      /\ pc = "idle" /\ flight # <<>> /\ pc' = "update"
  BY DEF BeginUpdate, FailLoad, FailSyncLoad, BeginStep, queueVars, miscVars, configVars
<1>3. Known'
  BY <1>1, <1>2, KnownFrame
<1>4. \A skip, failing : BeginStep(skip, failing) => upd'.skip = skip /\ upd'.failing = failing
  BY DEF BeginStep, NoUpdate
<1>5. CASE BeginUpdate
  <2>1. UNCHANGED xferVars /\ upd'.skip = {} /\ upd'.failing = {}
    BY <1>2, <1>4, <1>5 DEF BeginUpdate, xferVars
  <2>2. Transfers'
    BY <1>1, <1>2, <2>1, TransfersFrame DEF Undisturbed
  <2>3. Failures'
    BY <2>1 DEF Failures
  <2>4. QED
    BY <1>3, <2>2, <2>3 DEF TransfersInv
<1>6. CASE FailLoad
  <2>1. PICK r \in loading :
          /\ status[r] = "remote" /\ failedRecv' = IF recompute THEN failedRecv \cup {r} ELSE failedRecv
          /\ upd'.skip = {} /\ upd'.failing \subseteq {r}
    BY <1>4, <1>6 DEF FailLoad
  <2>2. r \in Requests
    BY <1>1 DEF Transfers
  <2>3. \A q \in loading : LoadKept(q)'
    <3> SUFFICES ASSUME NEW q \in loading
                 PROVE  LoadKept(q)'
      OBVIOUS
    <3>1. q \in Requests /\ LoadKept(q)
      BY <1>1 DEF Transfers
    <3>2. Filled(q)'
      BY <1>2, <3>1, FilledKeeps DEF LoadKept
    <3>3. QED
      BY <1>2, <3>1, <3>2 DEF LoadKept
  <2>4. Transfers'
    BY <1>1, <1>2, <2>1, <2>2, <2>3 DEF Transfers, SendKept
  <2>5. Failures'
    BY <1>2, <2>1, <2>2 DEF Failures
  <2>6. QED
    BY <1>3, <2>4, <2>5 DEF TransfersInv
<1>7. CASE FailSyncLoad
  <2>1. PICK r \in Requests :
          /\ r \in Head(flight).loads /\ InQueue(running, r) /\ UNCHANGED failedRecv
          /\ upd'.skip = {r} /\ upd'.failing = IF recompute THEN {} ELSE {r}
    BY <1>4, <1>7 DEF FailSyncLoad
  <2>2. Transfers'
    BY <1>1, <1>2, <2>1, TransfersFrame DEF Undisturbed, xferVars
  <2>3. status[r] # "absent"
    BY <1>2, <2>1, RangeQueue DEF QueueInv, Places, Place, Queues, InQueue, Leaving
  <2>4. SyncRemote[r] > 0
    <3>1. Head(flight) = flight[1] /\ 1 \in 1 .. Len(flight)
      BY <1>2 DEF QueueInv, Flights
    <3>2. r \in SyncLoaded
      BY <2>1, <3>1 DEF CountsInv, StepsCounts, StepCounts
    <3>3. QED
      BY <3>2 DEF SyncLoaded
  <2>5. Failures'
    BY <1>2, <2>1, <2>3, <2>4 DEF Failures, Exempt
  <2>6. QED
    BY <1>3, <2>2, <2>5 DEF TransfersInv
<1>8. QED
  BY <1>5, <1>6, <1>7

LEMMA FailuresFrame ==
  ASSUME Failures, Settling' => Settling, pc' = "update" => pc = "update",
         upd'.failing = upd.failing, upd'.skip = upd.skip, UNCHANGED recompute,
         \A r \in Requests : status[r] # "absent" => status'[r] # "absent"
  PROVE  Failures'
BY DEF Failures, Exempt, Settling

\* An output that is processed is one of a running request, or of one that was
\* preempted meanwhile.
LEMMA OutputOf ==
  ASSUME QueueInv, NEW r \in Requests, MoreOutputs, r = Sampler, ~ Ignored(r)
  PROVE  /\ pc = "update" /\ r \in ToSet(upd.todo) /\ status[r] \in {"running", "preempted"}
         /\ r \in requests /\ r \in upd.step.samples /\ r \notin upd.skip
<1>1. pc = "update" /\ r \in ToSet(upd.todo) /\ status[r] # "finished" /\ r \in requests
  BY NextOutput DEF MoreOutputs, Ignored
<1>2. QED
  BY <1>1 DEF QueueInv, Updates, InStep, Ignored

\* _update_from_kv_xfer_finished.
LEMMA FinishUpdateTransfers ==
  ASSUME BlocksInv, BlocksInv', CountsInv, TransfersInv, NEW R, NEW S, FinishUpdate(R, S)
  PROVE  TransfersInv'
<1> DEFINE gone == S \cup {r \in R : status[r] = "finished"}
<1>1. /\ R \subseteq loading /\ S \subseteq sending
      /\ finishedRecv' = finishedRecv \cup (R \ gone)
      /\ loading' = loading \ R /\ sending' = sending \ S /\ requests' = requests \ gone
      /\ held' = [r \in Requests |-> IF r \in gone THEN {} ELSE held[r]]
      /\ pc' = "idle" /\ UNCHANGED <<status, tokens, failedRecv>>
  BY DEF FinishUpdate, FreeBlocks
<1>2. Known /\ Transfers
  BY DEF TransfersInv
<1>3. \A r \in gone : status[r] = "finished"
  BY <1>1, <1>2 DEF Transfers, SendKept
<1>4. \A r \in gone : r \in S \/ r \in R
  OBVIOUS
<1>5. \A r \in R \ gone : status[r] = "remote"
  BY <1>1, <1>2 DEF Transfers, LoadKept
<1> HIDE DEF gone
<1>6. Known'
  BY <1>1, <1>2, <1>3, KnownFrame
<1>7. ASSUME NEW r \in loading'
      PROVE  LoadKept(r)'
  <2>1. r \in Requests /\ LoadKept(r) /\ r \notin R
    BY <1>1, <1>2, <1>7 DEF Transfers
  <2>2. r \notin gone /\ r \notin sending'
    BY <1>1, <1>4, <2>1 DEF LoadKept
  <2>3. Filled(r)'
    BY <1>1, <2>1, <2>2, FilledKeeps DEF LoadKept
  <2>4. QED
    BY <1>1, <2>1, <2>2, <2>3 DEF LoadKept
<1>8. ASSUME NEW r \in sending'
      PROVE  SendKept(r)'
  <2>1. r \in Requests /\ SendKept(r) /\ r \notin S
    BY <1>1, <1>2, <1>8 DEF Transfers
  <2>2. r \notin gone
    BY <1>1, <1>2, <1>4, <1>8, <2>1 DEF Transfers, LoadKept
  <2>3. QED
    BY <1>1, <2>1, <2>2 DEF SendKept
<1>9. Transfers'
  BY <1>1, <1>2, <1>5, <1>7, <1>8 DEF Transfers
<1>10. Failures'
  BY <1>1 DEF Failures, Settling
<1>11. QED
  BY <1>6, <1>9, <1>10 DEF TransfersInv

\* An output step keeps the load failures of its update.
LEMMA OutputKeepsUpdate ==
  ASSUME QueueInv, UpdateStep, pc' = "update"
  PROVE  /\ upd'.step = upd.step /\ upd'.failing = upd.failing /\ upd'.skip = upd.skip
         /\ upd'.todo = Tail(upd.todo) /\ MoreOutputs
<1>1. {"step", "failing", "skip", "todo"} \subseteq DOMAIN upd
  BY DEF QueueInv, Updates, NoUpdate
<1>2. CASE IgnoreOutput \/ \E r \in Requests : OutputGoesOn(r)
  BY <1>1, <1>2 DEF IgnoreOutput, OutputGoesOn
<1>3. CASE \E r \in Requests : OutputFinishes(r) \/ SessionGoesOn(r) \/ SessionPauses(r)
  <2>1. PICK r \in Requests : OutputFinishes(r) \/ SessionGoesOn(r) \/ SessionPauses(r)
    BY <1>3
  <2>2. MoreOutputs /\ Stopped(r)
    BY <2>1 DEF OutputFinishes, SessionGoesOn, SessionPauses
  <2>3. QED
    BY <1>1, <2>2 DEF Stopped
<1>4. QED
  BY <1>2, <1>3 DEF UpdateStep, RemoveStopped, FailRequests, FinishUpdate

LEMMA UpdateStepTransfers ==
  ASSUME QueueInv, BlocksInv, BlocksInv', CountsInv, TransfersInv, UpdateStep
  PROVE  TransfersInv'
<1>1. /\ Known /\ Transfers /\ Failures /\ status \in [Requests -> Status]
      /\ held \in [Requests -> SUBSET Blocks] /\ tokens \in [Requests -> Int]
  BY DEF TransfersInv, QueueInv, Places, BlocksInv, CountsInv, RequestCounts
<1>2. UNCHANGED recompute
  BY DEF UpdateStep, IgnoreOutput, RemoveStopped, FailRequests, OutputGoesOn, OutputFinishes,
         SessionGoesOn, SessionPauses, FinishUpdate, miscVars, configVars
<1>3. CASE IgnoreOutput \/ RemoveStopped
  <2>1. /\ UNCHANGED <<requests, status, held, tokens>> /\ UNCHANGED xferVars
        /\ pc = "update" /\ (pc' = "update" \/ UNCHANGED upd)
    BY <1>3 DEF IgnoreOutput, RemoveStopped, MoreOutputs, queueVars, kvVars, countVars
  <2>2. Known' /\ Transfers'
    BY <1>1, <2>1, KnownFrame, TransfersFrame DEF Undisturbed
  <2>3. Failures'
    BY <1>1, <1>2, <2>1, OutputKeepsUpdate, FailuresFrame DEF Settling
  <2>4. QED
    BY <2>2, <2>3 DEF TransfersInv
<1>4. ASSUME NEW r \in Requests, OutputGoesOn(r) \/ SessionGoesOn(r) \/ SessionPauses(r)
      PROVE  TransfersInv'
  <2>1. /\ MoreOutputs /\ r = Sampler /\ ~ Ignored(r) /\ UNCHANGED <<requests, held, pc>>
        /\ UNCHANGED xferVars
    BY <1>4 DEF OutputGoesOn, SessionGoesOn, SessionPauses, queueVars, kvVars
  <2>2. /\ pc = "update" /\ status[r] \in {"running", "preempted"} /\ r \in requests
    BY <2>1, OutputOf
  <2>3. \A q \in Requests : q # r => status'[q] = status[q] /\ tokens'[q] = tokens[q]
    <3>1. UNCHANGED status \/ \E st : status' = [status EXCEPT ![r] = st]
      BY <1>4 DEF OutputGoesOn, SessionGoesOn, SessionPauses, queueVars
    <3>2. \E n : tokens' = [tokens EXCEPT ![r] = n]
      BY <1>4 DEF OutputGoesOn, SessionGoesOn, SessionPauses, AppendOutput, NextChunk
    <3>3. QED
      BY <1>1, <3>1, <3>2
  <2>4. status'[r] # "absent"
    BY <1>1, <1>4, <2>2 DEF OutputGoesOn, SessionGoesOn, SessionPauses, queueVars
  <2>5. Known' /\ Transfers'
    BY <1>1, <2>1, <2>2, <2>3, KnownFrame, TransfersFrame DEF Undisturbed
  <2>6. Failures'
    BY <1>1, <1>2, <2>1, <2>2, <2>3, <2>4, OutputKeepsUpdate, FailuresFrame DEF Settling
  <2>7. QED
    BY <2>5, <2>6 DEF TransfersInv
<1>5. ASSUME NEW r \in Requests, OutputFinishes(r)
      PROVE  TransfersInv'
  <2>1. /\ MoreOutputs /\ r = Sampler /\ ~ Ignored(r) /\ FreeRequests({r}, {})
        /\ UNCHANGED <<pc, loading, finishedRecv, failedRecv>>
    BY <1>5 DEF OutputFinishes
  <2>2. pc = "update" /\ status[r] \in {"running", "preempted"} /\ r \in requests
    BY <2>1, OutputOf
  <2>3. r \notin loading /\ r \notin finishedRecv /\ r \notin failedRecv
    BY <1>1, <2>2 DEF Transfers, LoadKept
  <2>4. \A q \in Requests : q # r => tokens'[q] = tokens[q]
    BY <1>1, <1>5 DEF OutputFinishes, AppendOutput
  <2>5. Transfers'
    BY <1>1, <2>1, <2>2, <2>3, <2>4, FreedTransfers
  <2>6. /\ \A q \in Requests : status'[q] = IF q = r THEN "finished" ELSE status[q]
        /\ requests \ {r} \subseteq requests'
    BY <2>1 DEF FreeRequests
  <2>7. Known'
    BY <1>1, <2>6, KnownFrame
  <2>8. Failures'
    BY <1>1, <1>2, <2>1, <2>2, <2>6, OutputKeepsUpdate, FailuresFrame DEF Settling
  <2>9. QED
    BY <2>5, <2>7, <2>8 DEF TransfersInv
<1>6. CASE FailRequests
  <2>1. pc = "failures" /\ pc' = "transfers" /\ UNCHANGED <<tokens, loading>>
    BY <1>6 DEF FailRequests, countVars
  <2>2. Known' /\ Transfers'
    <3>1. CASE \E r \in upd.failing : status[r] # "finished"
      <4>1. PICK r \in Requests : r \in upd.failing /\ FinishRequest(r)
        BY <1>6, <3>1 DEF FailRequests
      <4>2. status[r] \notin {"absent", "finished"}
        BY <1>1, <2>1, <3>1, <4>1 DEF Failures, Settling
      <4>3. QED
        BY <1>1, <2>1, <4>1, <4>2, FinishRequestTransfers
    <3>2. CASE ~ \E r \in upd.failing : status[r] # "finished"
      <4>1. UNCHANGED <<requests, status, held>> /\ UNCHANGED xferVars
        BY <1>6, <3>2 DEF FailRequests, queueVars, kvVars, xferVars
      <4>2. QED
        BY <1>1, <2>1, <4>1, KnownFrame, TransfersFrame DEF Undisturbed
    <3>3. QED
      BY <3>1, <3>2
  <2>3. Failures'
    BY <2>1 DEF Failures, Settling
  <2>4. QED
    BY <2>2, <2>3 DEF TransfersInv
<1>7. QED
  BY <1>3, <1>4, <1>5, <1>6, FinishUpdateTransfers DEF UpdateStep

LEMMA TransfersInit == Init => TransfersInv
  BY DEF Init, TransfersInv, Known, Transfers, Failures, Settling

LEMMA TransfersNext ==
  QueueInv /\ BlocksInv /\ BlocksInv' /\ CountsInv /\ TransfersInv /\ [Next]_vars => TransfersInv'
<1> SUFFICES ASSUME QueueInv, BlocksInv, BlocksInv', CountsInv, TransfersInv, [Next]_vars
             PROVE  TransfersInv'
  OBVIOUS
<1>1. CASE UNCHANGED vars
  <2>1. /\ UNCHANGED <<requests, status, held, tokens, pc, upd, recompute>> /\ UNCHANGED xferVars
    BY <1>1 DEF vars, queueVars, kvVars, countVars, miscVars, configVars
  <2>2. Known' /\ Transfers'
    BY <2>1, KnownFrame, TransfersFrame DEF Undisturbed, TransfersInv
  <2>3. Failures'
    BY <2>1, FailuresFrame DEF Settling, TransfersInv
  <2>4. QED
    BY <2>2, <2>3 DEF TransfersInv
<1>2. QED
  BY <1>1, RequestStepTransfers, ScheduleStepTransfers, BeginStepTransfers, UpdateStepTransfers
     DEF Next

LEMMA TransfersAlways == Spec => []TransfersInv
<1>1. QED
  BY TransfersInit, TransfersNext, BlocksAlways, QueuesAgree, CountsAlways, PTL DEF Spec

\* While a transfer goes on, its request is known to the scheduler and keeps the blocks
\* it fills or reads, through aborts, failed loads and late ends; and a load that has
\* ended or failed belongs to a request that still waits for it: the assertions of
\* _update_from_kv_xfer_finished never fail (scheduler.py:2506-2515).
THEOREM TransfersAreKept == Spec => []TransfersKeepBlocks
<1>1. TransfersInv => TransfersKeepBlocks
  BY DEF TransfersInv, Transfers, LoadKept, SendKept, Filled, TransfersKeepBlocks
<1>2. QED
  BY <1>1, TransfersAlways, PTL

-----------------------------------------------------------------------------
(* The placeholders for the outputs to come.                               *)

\* What the update under way may still give r, and what is to come for it in all.
ToCome(r) == IF pc = "update" /\ r \in ToSet(upd.todo) THEN Share(upd.step, r) ELSE 0
Coming(r) == Placeholders(r) + ToCome(r)

\* The requests whose placeholders count.
Awaited(r) ==
  /\ Async /\ status[r] # "finished" /\ ~ Exempt(r)
  /\ ~ (Settling /\ r \in upd.failing)
HoldersInv ==
  \A r \in Requests : /\ ~ Async => holders[r] = 0
                      /\ Awaited(r) => holders[r] = Coming(r)

LEMMA AtMostTwo ==
  ASSUME NEW n \in Nat, NEW k, k = 1 \/ k = 2, n <= k
  PROVE  /\ n < k => n = 0 \/ n = 1
         /\ n # 0 => n = 1 \/ n = 2
  OBVIOUS

LEMMA SharesAreNatural ==
  ASSUME NEW step, StepCounts(step), NEW r \in Requests
  PROVE  Share(step, r) \in Nat /\ (r \notin ToSet(step.order) => Share(step, r) = 0)
  BY DEF StepCounts, Share

LEMMA DuesAreNatural ==
  ASSUME CountsInv, Flights, NEW r \in Requests
  PROVE  Due(1, r) \in Nat /\ Due(2, r) \in Nat
<1>1. ASSUME NEW i \in {1, 2}
      PROVE  Due(i, r) \in Nat
  <2>1. CASE i <= Len(flight)
    <3>1. i \in 1 .. Len(flight)
      BY <2>1 DEF Flights
    <3>2. StepCounts(flight[i])
      BY <3>1 DEF CountsInv, StepsCounts
    <3>3. QED
      BY <2>1, <3>2, SharesAreNatural DEF Due
  <2>2. QED
    BY <2>1 DEF Due
<1>2. QED
  BY <1>1

LEMMA HoldersFrame ==
  ASSUME HoldersInv, UNCHANGED <<holders, maxBatches>>,
         \A r \in Requests : Awaited(r)' => Awaited(r) /\ Coming(r)' = Coming(r)
  PROVE  HoldersInv'
  BY DEF HoldersInv, Async

\* Steps outside the loop of update_from_output and the failures after it.
LEMMA QuietHolders ==
  ASSUME HoldersInv, UNCHANGED <<holders, maxBatches, recompute, flight>>,
         ~ Settling, ~ Settling',
         \A r \in Requests : status[r] = "finished" => status'[r] = "finished"
  PROVE  HoldersInv'
<1>1. \A r \in Requests : ToCome(r) = 0 /\ ToCome(r)' = 0
  BY DEF ToCome, Settling
<1>2. \A r \in Requests : Placeholders(r)' = Placeholders(r)
  BY DEF Placeholders, Due, Share
<1>3. \A r \in Requests : Awaited(r)' => Awaited(r)
  BY DEF Awaited, Async, Exempt
<1>4. QED
  BY <1>1, <1>2, <1>3, HoldersFrame DEF Coming

LEMMA RequestStepHolders ==
  ASSUME HoldersInv, QueueInv, RequestStep
  PROVE  HoldersInv'
<1>1. /\ pc = "idle" /\ UNCHANGED <<pc, holders, maxBatches, recompute, flight, upd>>
  BY DEF RequestStep, AddRequest, SendUpdate, EndSession, Abort, GrammarCompiled, Pause,
         ResetPrefixCache, Outside, OutsideVars, countVars, miscVars, configVars
<1>2. \A q \in Requests : status[q] = "finished" => status'[q] = "finished"
  <2> SUFFICES ASSUME NEW q \in Requests, status[q] = "finished"
               PROVE  status'[q] = "finished"
    OBVIOUS
  <2>1. Queues /\ Places /\ status \in [Requests -> Status]
    BY DEF QueueInv, Places
  <2>2. ASSUME NEW r \in Requests, AddRequest(r) \/ SendUpdate(r)
        PROVE  status'[q] = status[q]
    <3>1. \/ UNCHANGED status
          \/ status[r] # "finished" /\ \E st : status' = [status EXCEPT ![r] = st]
      BY <2>2 DEF AddRequest, SendUpdate
    <3>2. QED
      BY <2>1, <3>1
  <2>3. ASSUME NEW r \in Requests, EndSession(r) \/ Abort(r) \/ GrammarCompiled(r)
        PROVE  status'[q] = status[q] \/ status'[q] = "finished"
    BY <2>3 DEF EndSession, Abort, GrammarCompiled, FinishRequest, FreeRequests, queueVars
  <2>4. ASSUME NEW state, Pause(state)
        PROVE  status'[q] = status[q]
    BY <2>4 DEF Pause, queueVars
  <2>5. ASSUME ResetPrefixCache
        PROVE  status'[q] = status[q]
    <3>1. status'[q] = IF InQueue(running, q) THEN "preempted" ELSE status[q]
      BY <2>5 DEF ResetPrefixCache, Preempt
    <3>2. InQueue(running, q) => status[q] = "running"
      BY <1>1, <2>1, RangeQueue DEF Places, Place, Queues, InQueue, Leaving
    <3>3. QED
      BY <3>1, <3>2
  <2>6. QED
    BY <2>2, <2>3, <2>4, <2>5 DEF RequestStep
<1>3. ~ Settling /\ ~ Settling'
  BY <1>1 DEF Settling
<1>4. QED
  BY <1>1, <1>2, <1>3, QuietHolders

LEMMA ScheduleStepHolders ==
  ASSUME HoldersInv, QueueInv,
         \/ ScheduleStep /\ ~ FinishSchedule
         \/ \E throttle \in BOOLEAN : BeginSchedule(throttle)
  PROVE  HoldersInv'
<1>1. /\ pc \in {"idle", "running", "waiting", "done"} /\ pc' \in {"running", "waiting", "done"}
      /\ UNCHANGED <<holders, maxBatches, recompute, flight>>
  BY DEF ScheduleStep, SkipRunning, EndRunning, SkipBlocked, SkipUndecided, SkipCandidate,
         EndWaiting, ScheduleRunning, PreemptLast, Promote, AdmitLoad, Admit,
         CanBeAdmitted, MayAdmit, MoreRunning, BeginSchedule, countVars, miscVars, configVars
<1>2. \A q \in Requests : status[q] = "finished" => status'[q] = "finished"
  <2> SUFFICES ASSUME NEW q \in Requests, status[q] = "finished"
               PROVE  status'[q] = "finished"
    OBVIOUS
  <2>1. Queues /\ Places /\ status \in [Requests -> Status]
    BY DEF QueueInv, Places
  <2>2. CASE \/ SkipRunning \/ EndRunning \/ SkipBlocked \/ SkipUndecided \/ EndWaiting
             \/ (\E r \in Requests : ScheduleRunning(r))
             \/ \E throttle \in BOOLEAN : BeginSchedule(throttle)
    BY <2>2 DEF SkipRunning, EndRunning, SkipBlocked, SkipUndecided, SkipCandidate, EndWaiting,
                ScheduleRunning, BeginSchedule, queueVars
  <2>3. ASSUME NEW r \in Requests, PreemptLast(r)
        PROVE  status'[q] = "finished"
    <3>1. /\ pc = "running" /\ call.idx < Len(running) /\ r = Last(running) /\ Preempt({r})
      BY <2>3 DEF PreemptLast, MoreRunning
    <3>2. call.idx \in Nat /\ Len(running) \in Nat /\ running \in Seq(Requests)
      BY <2>1, <3>1 DEF QueueInv, Calls, Queues
    <3>3. r \in ToSet(running)
      BY <3>1, <3>2, FrontQueue
    <3>4. status[r] = "running"
      BY <2>1, <3>1, <3>3 DEF Places, Place, Leaving
    <3>5. QED
      BY <3>1, <3>4 DEF Preempt
  <2>4. ASSUME NEW r \in Requests, Promote(r)
        PROVE  status'[q] = "finished"
    BY <2>1, <2>4 DEF Promote, Promotable
  <2>5. ASSUME NEW r \in Requests, AdmitLoad(r) \/ Admit(r)
        PROVE  status'[q] = "finished"
    <3>1. /\ pc = "waiting" /\ SomeWaiting /\ PopCandidate /\ r = Candidate
          /\ status[r] \notin BlockedStatus
          /\ \E st : status' = [status EXCEPT ![r] = st]
      BY <2>5 DEF AdmitLoad, Admit, CanBeAdmitted, MayAdmit
    <3>2. r \in ToSet(waiting) \cup ToSet(skippedWaiting)
      BY <3>1, PopQueues
    <3>3. status[r] \in Waits
      BY <2>1, <3>1, <3>2 DEF Places, Place, LeavingWaiting
    <3>4. QED
      BY <2>1, <3>1, <3>3 DEF Waits
  <2>6. QED
    BY <2>2, <2>3, <2>4, <2>5 DEF ScheduleStep
<1>3. ~ Settling /\ ~ Settling'
  BY <1>1 DEF Settling
<1>4. QED
  BY <1>1, <1>2, <1>3, QuietHolders

\* Inside a call at most one step is in flight.
LEMMA OneInFlight ==
  ASSUME QueueInv, pc # "idle"
  PROVE  Len(flight) \in {0, 1}
<1>1. Len(flight) \in Nat /\ Len(flight) < maxBatches /\ (maxBatches = 1 \/ maxBatches = 2)
  BY DEF QueueInv, Flights, Calls
<1>2. CASE maxBatches = 1
  BY <1>1, <1>2
<1>3. CASE maxBatches = 2
  BY <1>1, <1>3
<1>4. QED
  BY <1>1, <1>2, <1>3

\* What the step handed out may give comes on top.
LEMMA HandedOut ==
  ASSUME QueueInv, CountsInv, FinishSchedule, NEW step, NewStep(step),
         flight' = Append(flight, step), NEW r \in Requests
  PROVE  /\ Coming(r)' = Coming(r) + Share(step, r) /\ Coming(r) \in Nat /\ Share(step, r) \in Nat
         /\ Len(flight) \in {0, 1} /\ Len(flight') = Len(flight) + 1
         /\ flight'[Len(flight) + 1] = step /\ \A i \in 1 .. Len(flight) : flight'[i] = flight[i]
<1>1. /\ pc = "done" /\ pc' = "idle" /\ UNCHANGED <<status, maxBatches, recompute>>
  BY DEF FinishSchedule, queueVars, configVars
<1>3. /\ step.samples = ToSet(call.order) \ StepPartial /\ step.spec = call.spec
  BY DEF NewStep
<1>5. PICK T : flight \in Seq(T)
  BY DEF QueueInv, Flights
<1>6. /\ Len(flight) \in {0, 1} /\ flight'[Len(flight) + 1] = step
      /\ Len(flight') = Len(flight) + 1 /\ \A i \in 1 .. Len(flight) : flight'[i] = flight[i]
  <2>1. Len(flight) \in {0, 1}
    BY <1>1, OneInFlight
  <2>2. QED
    BY <1>5, <2>1
<1>7. /\ Coming(r)' = Coming(r) + Share(step, r) /\ Coming(r) \in Nat /\ Share(step, r) \in Nat
  <2>1. ToCome(r) = 0 /\ ToCome(r)' = 0
    BY <1>1 DEF ToCome
  <2>2. Due(1, r) \in Nat /\ Due(2, r) \in Nat
    BY DuesAreNatural DEF QueueInv
  <2>3. Share(step, r) \in Nat
    BY <1>1, <1>3 DEF Share, CountsInv, CallCounts
  <2>4. CASE Len(flight) = 0
    <3>1. Due(1, r) = 0 /\ Due(2, r) = 0 /\ Due(1, r)' = Share(step, r) /\ Due(2, r)' = 0
      BY <1>6, <2>4 DEF Due, Share
    <3>2. QED
      BY <2>1, <2>3, <3>1 DEF Coming, Placeholders
  <2>5. CASE Len(flight) = 1
    <3>1. /\ Due(1, r)' = Due(1, r) /\ Due(2, r) = 0 /\ Due(2, r)' = Share(step, r)
      BY <1>6, <2>5 DEF Due, Share
    <3>2. QED
      BY <2>1, <2>2, <2>3, <3>1 DEF Coming, Placeholders
  <2>6. QED
    BY <1>6, <2>4, <2>5
<1>8. QED
  BY <1>6, <1>7

\* _update_after_schedule of the asynchronous scheduler: as many placeholders as the
\* step may give.
LEMMA FinishScheduleHolders ==
  ASSUME HoldersInv, QueueInv, CountsInv, FinishSchedule
  PROVE  HoldersInv'
<1>1. /\ pc = "done" /\ pc' = "idle" /\ UNCHANGED <<status, maxBatches, recompute>>
  BY DEF FinishSchedule, queueVars, configVars
<1>2. PICK step : NewStep(step) /\ flight' = Append(flight, step)
  BY StepHandedOut
<1>3. /\ step.samples = ToSet(call.order) \ StepPartial /\ step.spec = call.spec
  BY <1>2 DEF NewStep
<1>4. holders' = [r \in Requests |-> IF Async /\ r \in step.samples
                                     THEN holders[r] + 1 + call.spec[r] ELSE holders[r]]
  BY <1>3, Zenon DEF FinishSchedule, StepPartial
<1>5. \A r \in Requests :
        Coming(r)' = Coming(r) + Share(step, r) /\ Coming(r) \in Int /\ Share(step, r) \in Int
  BY <1>2, HandedOut
<1>6. \A r \in Requests : Awaited(r)' => Awaited(r)
  BY <1>1 DEF Awaited, Async, Exempt, Settling
<1>7. ASSUME NEW r \in Requests
      PROVE  /\ ~ Async' => holders'[r] = 0
             /\ Awaited(r)' => holders'[r] = Coming(r)'
  <2>1. ~ Async' => holders'[r] = 0
    BY <1>1, <1>4 DEF HoldersInv, Async
  <2>2. ASSUME Awaited(r)'
        PROVE  holders'[r] = Coming(r)'
    <3>1. Awaited(r) /\ Async /\ holders[r] = Coming(r)
      BY <1>6, <2>2 DEF HoldersInv, Awaited
    <3>2. call.spec[r] \in Int
      BY <1>1 DEF CountsInv, CallCounts
    <3>3. holders'[r] = holders[r] + Share(step, r)
      BY <1>3, <1>4, <1>5, <3>1, <3>2 DEF Share
    <3>4. QED
      BY <1>5, <3>1, <3>3
  <2>3. QED
    BY <2>1, <2>2
<1>8. QED
  BY <1>7 DEF HoldersInv

\* What the step taken out of flight may give is now to come from the update.
LEMMA TakenOut ==
  ASSUME QueueInv, CountsInv, BeginUpdate \/ FailLoad \/ FailSyncLoad
  PROVE  /\ \A r \in Requests : Coming(r)' = Coming(r) /\ Due(1, r) = Share(flight[1], r)
         /\ Head(flight) = flight[1] /\ Len(flight) \in {1, 2} /\ Len(flight') = Len(flight) - 1
         /\ Len(flight) = 2 => flight'[1] = flight[2]
<1>1. /\ pc = "idle" /\ pc' = "update" /\ flight # <<>> /\ flight' = Tail(flight)
      /\ UNCHANGED <<status, holders, maxBatches, recompute>>
      /\ upd'.step = Head(flight) /\ upd'.todo = Head(flight).order
  BY DEF BeginUpdate, FailLoad, FailSyncLoad, BeginStep, NoUpdate, queueVars, miscVars, configVars
<1>2. PICK T : flight \in Seq(T)
  BY DEF QueueInv, Flights
<1>3. /\ Len(flight) = 1 \/ Len(flight) = 2
      /\ Head(flight) = flight[1] /\ 1 \in 1 .. Len(flight)
      /\ Len(flight') = Len(flight) - 1
      /\ Len(flight) = 2 => flight'[1] = flight[2]
  <2>1. Len(flight) \in Nat /\ Len(flight) <= maxBatches /\ (maxBatches = 1 \/ maxBatches = 2)
    BY DEF QueueInv, Flights, Calls
  <2>2. Len(flight) # 0
    BY <1>1, <1>2
  <2>3. Len(flight) = 1 \/ Len(flight) = 2
    BY <2>1, <2>2, AtMostTwo
  <2>4. QED
    BY <1>1, <1>2, <2>3
<1>4. StepCounts(flight[1])
  BY <1>3 DEF CountsInv, StepsCounts
<1>5. ASSUME NEW r \in Requests
      PROVE  Coming(r)' = Coming(r) /\ Due(1, r) = Share(flight[1], r)
  <2>1. ToCome(r) = 0
    BY <1>1 DEF ToCome
  <2>2. Due(1, r) = Share(flight[1], r)
    BY <1>3 DEF Due
  <2>3. ToCome(r)' = Due(1, r)
    <3>1. ToCome(r)' = IF r \in ToSet(flight[1].order) THEN Share(flight[1], r) ELSE 0
      BY <1>1, <1>3 DEF ToCome, Share
    <3>2. r \notin ToSet(flight[1].order) => Share(flight[1], r) = 0
      BY <1>4, SharesAreNatural
    <3>3. QED
      BY <2>2, <3>1, <3>2
  <2>4. Due(1, r)' = Due(2, r) /\ Due(2, r)' = 0
    BY <1>3 DEF Due, Share
  <2>5. Due(1, r) \in Nat /\ Due(2, r) \in Nat
    BY DuesAreNatural DEF QueueInv
  <2>6. QED
    BY <2>1, <2>2, <2>3, <2>4, <2>5 DEF Coming, Placeholders
<1>6. QED
  BY <1>3, <1>5

LEMMA BeginStepHolders ==
  ASSUME HoldersInv, QueueInv, CountsInv, BeginUpdate \/ FailLoad \/ FailSyncLoad
  PROVE  HoldersInv'
<1>1. /\ pc = "idle" /\ pc' = "update" /\ UNCHANGED <<status, holders, maxBatches, recompute>>
  BY DEF BeginUpdate, FailLoad, FailSyncLoad, BeginStep, queueVars, miscVars, configVars
<1>2. \A r \in Requests : Coming(r)' = Coming(r)
  BY TakenOut
<1>3. \A r \in Requests : Awaited(r)' => Awaited(r)
  BY <1>1 DEF Awaited, Async, Exempt, Settling
<1>4. QED
  BY <1>1, <1>2, <1>3, HoldersFrame

\* After an output nothing more is to come from the update for its request, and the
\* rest of it is as before.
LEMMA NextComing ==
  ASSUME QueueInv, CountsInv, pc = "update", pc' = "update", MoreOutputs,
         upd'.step = upd.step, upd'.todo = Tail(upd.todo), UNCHANGED flight,
         NEW r \in Requests, r = Sampler
  PROVE  /\ \A q \in Requests \ {r} : Coming(q)' = Coming(q)
         /\ Coming(r) = Coming(r)' + Share(upd.step, r)
         /\ Coming(r)' \in Nat /\ Share(upd.step, r) \in Nat
<1>1. r \in ToSet(upd.todo) /\ ToSet(upd'.todo) = ToSet(upd.todo) \ {r}
  BY NextOutput
<1>2. \A q \in Requests : Placeholders(q)' = Placeholders(q)
  BY DEF Placeholders, Due, Share
<1>3. \A q \in Requests \ {r} : ToCome(q)' = ToCome(q)
  BY <1>1 DEF ToCome, Share
<1>4. ToCome(r) = Share(upd.step, r) /\ ToCome(r)' = 0
  BY <1>1 DEF ToCome
<1>5. Share(upd.step, r) \in Nat
  BY SharesAreNatural DEF CountsInv, StepsCounts
<1>6. Placeholders(r) \in Nat
  BY DuesAreNatural DEF QueueInv, Placeholders
<1>7. QED
  BY <1>2, <1>3, <1>4, <1>5, <1>6 DEF Coming

LEMMA SettleHolders ==
  ASSUME NEW r \in Requests, holders \in [Requests -> Int], upd.step.spec \in [Requests -> Nat],
         NEW m \in Int, NEW kept \in Int, Settle(r, m, kept)
  PROVE  /\ \A q \in Requests \ {r} : holders'[q] = holders[q]
         /\ ~ Async /\ holders[r] = 0 => holders'[r] = 0
         /\ \A p \in Nat : Async /\ kept = m /\ m >= 1 /\ m <= 1 + upd.step.spec[r]
                           /\ holders[r] = p + 1 + upd.step.spec[r] => holders'[r] = p
<1> DEFINE s == upd.step.spec[r]
           h == holders[r]
           come == IF s > 0 /\ h > 0 THEN h - (s - (m - 1)) ELSE h
           left == come - (IF Async THEN kept ELSE 0)
<1>1. holders' = [holders EXCEPT ![r] = left]
  BY Zenon DEF Settle, Rejected
<1>2. s \in Nat /\ h \in Int
  OBVIOUS
<1>3. holders'[r] = left /\ \A q \in Requests \ {r} : holders'[q] = holders[q]
  BY <1>1
<1> HIDE DEF s, h
<1>4. ASSUME ~ Async, h = 0
      PROVE  left = 0
  <2>1. (IF Async THEN kept ELSE 0) = 0
    BY <1>4
  <2>2. come = 0
    <3>1. ~ (h > 0)
      BY <1>4
    <3>2. QED
      BY <1>4, <3>1
  <2>3. QED
    BY <2>1, <2>2
<1>5. \A p \in Nat : Async /\ kept = m /\ m >= 1 /\ m <= 1 + s /\ h = p + 1 + s => left = p
  <2> SUFFICES ASSUME NEW p \in Nat, Async, kept = m, m >= 1, m <= 1 + s, h = p + 1 + s
               PROVE  left = p
    OBVIOUS
  <2>1. CASE s > 0
    BY <1>2, <2>1
  <2>2. CASE s = 0
    BY <1>2, <2>2
  <2>3. QED
    BY <1>2, <2>1, <2>2
<1>6. QED
  BY <1>3, <1>4, <1>5 DEF s, h

\* The loop over the outputs: what is settled is what the step promised.
LEMMA OutputHolders ==
  ASSUME HoldersInv, QueueInv, CountsInv, TransfersInv, UpdateStep, pc' = "update"
  PROVE  HoldersInv'
<1>1. /\ upd'.step = upd.step /\ upd'.failing = upd.failing /\ upd'.skip = upd.skip
      /\ upd'.todo = Tail(upd.todo) /\ MoreOutputs /\ pc = "update"
  BY OutputKeepsUpdate DEF MoreOutputs
<1>2. UNCHANGED <<flight, maxBatches, recompute>>
  BY DEF UpdateStep, IgnoreOutput, RemoveStopped, FailRequests, OutputGoesOn, OutputFinishes,
         SessionGoesOn, SessionPauses, FinishUpdate, miscVars, configVars
<1>3. PICK r \in Requests : r = Sampler
  BY <1>1, NextOutput
<1>4. /\ \A q \in Requests \ {r} : Coming(q)' = Coming(q)
      /\ Coming(r) = Coming(r)' + Share(upd.step, r)
      /\ Coming(r)' \in Nat /\ Share(upd.step, r) \in Nat
  BY <1>1, <1>2, <1>3, NextComing
<1>5. /\ holders \in [Requests -> Int] /\ StepCounts(upd.step)
      /\ status \in [Requests -> Status] /\ r \in ToSet(upd.todo)
  BY <1>1, <1>3, NextOutput
     DEF CountsInv, RequestCounts, StepsCounts, QueueInv, Places
<1>6. \A q \in Requests : (status[q] = "finished" => status'[q] = "finished") =>
        (Awaited(q)' => Awaited(q))
  BY <1>1, <1>2 DEF Awaited, Async, Exempt, Settling
<1>7. CASE IgnoreOutput
  <2>1. UNCHANGED <<holders, status>> /\ Ignored(r)
    BY <1>3, <1>7 DEF IgnoreOutput, countVars, queueVars
  <2>2. ASSUME Awaited(r)'
        PROVE  Share(upd.step, r) = 0
    <3>1. Awaited(r) /\ status[r] # "finished" /\ ~ Exempt(r) /\ r \notin upd.failing
      BY <1>1, <1>6, <2>1, <2>2 DEF Awaited, Settling
    <3>2. r \notin upd.skip
      BY <1>1, <3>1 DEF TransfersInv, Failures, Settling
    <3>3. status[r] # "absent"
      BY <1>1, <1>5 DEF QueueInv, Updates, InStep
    <3>4. r \in requests
      BY <3>1, <3>3 DEF TransfersInv, Known
    <3>5. r \notin upd.step.samples
      BY <2>1, <3>1, <3>2, <3>4 DEF Ignored
    <3>6. QED
      BY <3>5 DEF Share
  <2>3. \A q \in Requests : Awaited(q)' => Awaited(q) /\ Coming(q)' = Coming(q)
    BY <1>4, <1>6, <2>1, <2>2
  <2>4. QED
    BY <1>2, <2>1, <2>3, HoldersFrame
<1>8. CASE \/ OutputGoesOn(r) \/ OutputFinishes(r) \/ SessionGoesOn(r) \/ SessionPauses(r)
  <2>1. PICK m \in Int, kept \in Int :
          /\ Settle(r, m, kept)
          /\ OutputGoesOn(r) => kept = m /\ m >= 1 /\ m <= 1 + upd.step.spec[r]
    <3>1. CASE OutputGoesOn(r)
      <4>1. PICK m \in 1 .. (1 + upd.step.spec[r]) : Settle(r, m, m)
        BY <3>1 DEF OutputGoesOn
      <4>2. m \in Int /\ m >= 1 /\ m <= 1 + upd.step.spec[r]
        BY <1>5 DEF StepCounts
      <4>3. QED
        BY <4>1, <4>2
    <3>2. CASE (OutputFinishes(r) \/ SessionGoesOn(r) \/ SessionPauses(r)) /\ ~ OutputGoesOn(r)
      BY <3>2 DEF OutputFinishes, SessionGoesOn, SessionPauses, SchedulerAssumption
    <3>3. QED
      BY <1>8, <3>1, <3>2
  <2>2. /\ \A q \in Requests \ {r} : holders'[q] = holders[q]
        /\ ~ Async /\ holders[r] = 0 => holders'[r] = 0
        /\ \A p \in Nat : Async /\ kept = m /\ m >= 1 /\ m <= 1 + upd.step.spec[r]
                          /\ holders[r] = p + 1 + upd.step.spec[r] => holders'[r] = p
    BY <1>5, <2>1, SettleHolders DEF StepCounts
  <2>3. ~ Ignored(r)
    BY <1>8 DEF OutputGoesOn, OutputFinishes, SessionGoesOn, SessionPauses
  <2>4. r \in requests /\ r \in upd.step.samples /\ status[r] \in {"running", "preempted"}
    BY <1>1, <1>3, <2>3, OutputOf
  <2>5. \A q \in Requests \ {r} : status'[q] = status[q]
    <3>1. CASE OutputGoesOn(r) \/ SessionGoesOn(r) \/ SessionPauses(r)
      BY <1>5, <3>1 DEF OutputGoesOn, SessionGoesOn, SessionPauses, queueVars
    <3>2. CASE OutputFinishes(r)
      BY <3>2 DEF OutputFinishes, FreeRequests
    <3>3. QED
      BY <1>8, <3>1, <3>2
  <2>6. ~ Async' => holders'[r] = 0
    BY <1>2, <2>2 DEF Async, HoldersInv
  <2>7. ASSUME Awaited(r)'
        PROVE  holders'[r] = Coming(r)'
    <3>1. Awaited(r) /\ Async
      BY <1>6, <2>4, <2>7 DEF Awaited
    <3>2. CASE OutputGoesOn(r)
      <4>1. Share(upd.step, r) = 1 + upd.step.spec[r] /\ upd.step.spec[r] \in Nat
        BY <1>5, <2>4 DEF Share, StepCounts
      <4>2. holders[r] = Coming(r)' + 1 + upd.step.spec[r]
        BY <1>4, <3>1, <4>1 DEF HoldersInv
      <4>3. QED
        BY <1>4, <2>1, <2>2, <3>1, <3>2, <4>2
    <3>3. CASE OutputFinishes(r)
      <4>1. status'[r] = "finished"
        BY <3>3 DEF OutputFinishes, FreeRequests
      <4>2. QED
        BY <2>7, <4>1 DEF Awaited
    <3>4. CASE SessionGoesOn(r) \/ SessionPauses(r)
      <4>1. r \in requests \cap Sessions
        BY <2>4, <3>4 DEF SessionGoesOn, SessionPauses
      <4>2. QED
        BY <3>1, <4>1 DEF QueueInv, Places, Place
    <3>5. QED
      BY <1>8, <3>2, <3>3, <3>4
  <2>8. \A q \in Requests \ {r} : /\ ~ Async' => holders'[q] = 0
                                  /\ Awaited(q)' => holders'[q] = Coming(q)'
    BY <1>2, <1>4, <1>6, <2>2, <2>5 DEF Async, HoldersInv
  <2>9. QED
    BY <2>6, <2>7, <2>8 DEF HoldersInv
<1>9. QED
  <2>1. ~ RemoveStopped /\ ~ FailRequests /\ \A R, S : ~ FinishUpdate(R, S)
    BY DEF RemoveStopped, FailRequests, FinishUpdate
  <2>2. \A q \in Requests :
          OutputGoesOn(q) \/ OutputFinishes(q) \/ SessionGoesOn(q) \/ SessionPauses(q) => q = r
    BY <1>3 DEF OutputGoesOn, OutputFinishes, SessionGoesOn, SessionPauses
  <2>3. QED
    BY <1>7, <1>8, <2>1, <2>2 DEF UpdateStep

\* The end of update_from_output: nothing is to come from it, and a request whose load
\* failed has finished.
LEMMA UpdateEndsHolders ==
  ASSUME HoldersInv, QueueInv, TransfersInv, UpdateStep, pc' # "update"
  PROVE  HoldersInv'
<1>1. RemoveStopped \/ FailRequests \/ \E R, S \in SUBSET Requests : FinishUpdate(R, S)
  BY DEF UpdateStep, IgnoreOutput, OutputGoesOn, OutputFinishes, SessionGoesOn, SessionPauses,
         MoreOutputs
<1>2. UNCHANGED <<holders, maxBatches, recompute, flight>>
  BY <1>1 DEF RemoveStopped, FailRequests, FinishUpdate, countVars, miscVars, configVars
<1>3. ASSUME NEW r \in Requests
      PROVE  Coming(r)' = Coming(r)
  <2>1. pc = "update" => upd.todo = <<>>
    BY <1>1 DEF RemoveStopped, FailRequests, FinishUpdate
  <2>2. ToCome(r) = 0 /\ ToCome(r)' = 0
    BY <2>1 DEF ToCome, ToSet
  <2>3. QED
    BY <1>2, <2>2 DEF Coming, Placeholders, Due, Share
<1>4. ASSUME NEW r \in Requests, Awaited(r)'
      PROVE  Awaited(r)
  <2>1. CASE RemoveStopped
    BY <1>2, <1>4, <2>1 DEF RemoveStopped, Awaited, Async, Exempt, Settling
  <2>2. CASE \E R, S \in SUBSET Requests : FinishUpdate(R, S)
    BY <1>2, <1>4, <2>2 DEF FinishUpdate, Awaited, Async, Exempt, Settling
  <2>3. CASE FailRequests
    <3>1. \A x, y \in upd.failing : x = y
      BY <2>3 DEF FailRequests, TransfersInv, Failures, Settling
    <3>2. ASSUME NEW x \in Requests, x \in upd.failing, FinishRequest(x)
          PROVE  \A q \in Requests : status'[q] = IF q = x THEN "finished" ELSE status[q]
      BY <3>2 DEF FinishRequest, FreeRequests
    <3>3. status[r] = status'[r] /\ r \notin upd.failing
      <4>1. CASE \E x \in upd.failing : status[x] # "finished"
        <5>1. PICK x \in Requests : x \in upd.failing /\ FinishRequest(x)
          BY <2>3, <4>1 DEF FailRequests
        <5>2. QED
          BY <1>4, <3>1, <3>2, <5>1 DEF Awaited
      <4>2. CASE ~ \E x \in upd.failing : status[x] # "finished"
        BY <1>4, <2>3, <4>2 DEF FailRequests, queueVars, Awaited
      <4>3. QED
        BY <4>1, <4>2
    <3>4. QED
      BY <1>2, <1>4, <3>3 DEF Awaited, Async, Exempt
  <2>4. QED
    BY <1>1, <2>1, <2>2, <2>3
<1>5. QED
  BY <1>2, <1>3, <1>4, HoldersFrame

LEMMA HoldersInit == Init => HoldersInv
<1> SUFFICES ASSUME Init
             PROVE  HoldersInv
  OBVIOUS
<1>1. \A r \in Requests : holders[r] = 0 /\ Due(1, r) = 0 /\ Due(2, r) = 0 /\ ToCome(r) = 0
  BY DEF Init, None, Due, ToCome
<1>2. QED
  BY <1>1 DEF HoldersInv, Coming, Placeholders

LEMMA HoldersNext ==
  QueueInv /\ CountsInv /\ TransfersInv /\ HoldersInv /\ [Next]_vars => HoldersInv'
<1> SUFFICES ASSUME QueueInv, CountsInv, TransfersInv, HoldersInv, [Next]_vars
             PROVE  HoldersInv'
  OBVIOUS
<1>1. CASE UNCHANGED vars
  <2>1. UNCHANGED <<holders, status, maxBatches, recompute, flight, pc, upd>>
    BY <1>1 DEF vars, queueVars, countVars, miscVars, configVars
  <2>2. \A r \in Requests : /\ Awaited(r)' => Awaited(r)
                            /\ Coming(r)' = Coming(r)
    BY <2>1 DEF Awaited, Async, Exempt, Settling, Coming, Placeholders, Due, ToCome, Share
  <2>3. QED
    BY <2>1, <2>2, HoldersFrame
<1>2. QED
  BY <1>1, RequestStepHolders, ScheduleStepHolders, FinishScheduleHolders, BeginStepHolders,
     OutputHolders, UpdateEndsHolders DEF Next

LEMMA HoldersAlways == Spec => []HoldersInv
BY HoldersInit, HoldersNext, QueuesAgree, CountsAlways, TransfersAlways, PTL DEF Spec

\* num_output_placeholders of a request is what its steps in flight may still give it,
\* however many of their drafts are rejected and whatever was preempted, aborted or
\* failed meanwhile ("exactly that count", scheduler.py:2234).
THEOREM HoldersAreExact == Spec => []HoldersExact
<1>1. HoldersInv /\ CountsInv /\ QueueInv => HoldersExact
  <2> SUFFICES ASSUME HoldersInv, CountsInv, QueueInv, ~ Settling,
                      NEW r \in Requests, Alive(r), ~ Exempt(r)
               PROVE  holders[r] = IF Async THEN Placeholders(r) ELSE 0
    BY DEF HoldersExact
  <2>1. ToCome(r) = 0
    BY DEF ToCome, Settling
  <2>2. Placeholders(r) \in Int
    BY DuesAreNatural DEF QueueInv, Placeholders
  <2>3. Coming(r) = Placeholders(r)
    BY <2>1, <2>2 DEF Coming
  <2>4. QED
    BY <2>3 DEF HoldersInv, Awaited, Alive
<1>2. QED
  BY <1>1, HoldersAlways, QueuesAgree, CountsAlways, PTL
=============================================================================
