------------------------- MODULE SchedulerTokenProofs -------------------------
(***************************************************************************)
(* Proofs about the token counts of the scheduler's requests, for any      *)
(* requests, blocks and limits and as long as every request fits the model *)
(* (Fitting):                                                              *)
(*   CountsAreNatural           no count goes below zero (TypeOK);         *)
(*   ComputedIsHeld             what counts as computed is in blocks of    *)
(*                              the request (ComputedHasBlocks);           *)
(*   SharesArePositive          a request of a step has a token in it      *)
(*                              (EveryShareIsPositive);                    *)
(*   PartialPrefillsAreBounded  at most max_num_partial_prefills prompts   *)
(*                              are in the making (PartialPrefillsBounded);*)
(*   NoStepIsPastTheLimit       no step for a request that is sure to stop *)
(*                              (NoStepPastTheLimit);                      *)
(*   RoomyIsSafe                all of these from the configuration alone. *)
(* They follow from one inductive invariant, TokensInv: what num_computed_ *)
(* tokens is for a request, by its status, its place in the step in the    *)
(* making and what the steps in flight may still give it.                  *)
(***************************************************************************)
EXTENDS SchedulerProofs

USE SchedulerAssumption

-----------------------------------------------------------------------------
(* The tokens of a request.                                                *)

\* The requests of the step in the making.
InCall == pc \in {"running", "waiting", "done"}
Ordered == IF InCall THEN ToSet(call.order) ELSE {}

\* What the steps in flight may give r, as the scheduler counts it.
Pending(r) == IF Async THEN holders[r] ELSE Coming(r)

\* A request whose synchronous load failed: its tokens and its placeholders disagree.
Loose(r) == SyncRemote[r] > 0 /\ (recompute \/ (Settling /\ r \in upd.failing))

\* Counts of the scheduler as a whole.
Bounded(f) == \A r \in Requests : f[r] <= NumSpecTokens
Loads(x) == \A r \in x.loads : x.spec[r] < x.sched[r]
StepTokens(step) ==
  /\ step.sched \in [Requests -> Int] /\ Bounded(step.spec) /\ Loads(step)
StepBook ==
  /\ call.budget \in Nat /\ call.sched \in [Requests -> Nat]
  /\ \A r \in Requests \ Ordered : call.sched[r] = 0
  /\ IF InCall THEN Bounded(call.spec) /\ call.loads \subseteq ToSet(call.order)
               ELSE call.order = <<>>
  /\ \A i \in 1 .. Len(flight) : StepTokens(flight[i])
Books ==
  /\ inflight \subseteq Requests /\ paused \in PauseState /\ Bounded(spec)
  /\ prompt \in [Requests -> Nat] /\ output \in [Requests -> Nat]
  /\ \A r \in Requests \ Sessions : toSend[r] = 0
  /\ StepBook
  /\ pc = "update" => Bounded(upd.step.spec)

\* What its status says of the tokens of a request.
Sane(r) ==
  /\ computed[r] >= 0 /\ holders[r] >= 0
  /\ status[r] = "absent" => tokens[r] = 0 /\ computed[r] = 0 /\ output[r] = 0 /\ prompt[r] = 0
  /\ status[r] # "absent" => tokens[r] > 0
  /\ status[r] \in {"waiting", "preempted", "grammar"} => computed[r] < tokens[r]
  /\ status[r] = "preempted" /\ Coming(r) > 0 => computed[r] = 0
  /\ status[r] \in {"remote", "streaming"} => computed[r] <= tokens[r]
  /\ status[r] = "remote" => r \in inflight /\ (r \in failedRecv => computed[r] < tokens[r])
  /\ status[r] = "streaming" => output[r] <= MaxTokens[r] /\ r \in Sessions
  /\ status[r] \notin {"finished", "streaming"} => output[r] < MaxTokens[r]
  /\ status[r] # "finished" => BlocksFor(computed[r]) <= Cardinality(held[r])
  /\ Async /\ status[r] # "finished" => Coming(r) <= holders[r]
  /\ r \notin Sessions => /\ tokens[r] = prompt[r] + output[r]
                          /\ status[r] # "absent" => prompt[r] = PromptLen[r]

\* What is computed of a running request, outside the step in the making: a decode
\* has all its tokens but the last, and those to come; a prefill, less.
Exact(r) ==
  status[r] = "running" /\ r \notin Ordered =>
    /\ computed[r] < tokens[r] + Pending(r) /\ computed[r] < MaxModelLen
    /\ ~ Loose(r) => IF chunk[r] THEN r \in inflight /\ Coming(r) = 0
                                 ELSE computed[r] = tokens[r] + Coming(r) - 1

\* What will be computed of a request of the step in the making.
Done(r) == computed[r] + call.sched[r]
Planned(r) ==
  /\ call.spec[r] < call.sched[r] /\ Done(r) < MaxModelLen
  /\ Done(r) <= tokens[r] + holders[r] + call.spec[r]
  /\ BlocksFor(Done(r)) <= Cardinality(held[r])
  /\ ~ Loose(r) => /\ IF Done(r) < tokens[r] + holders[r]
                        THEN r \in inflight /\ Coming(r) = 0
                        ELSE Done(r) = tokens[r] + holders[r] + call.spec[r]
                   /\ Coming(r) > 0 => output[r] + 2 <= MaxTokens[r]

\* A request whose output is passed over with its failed load starts over.
Failed(r) ==
  pc = "update" /\ r \in upd.skip /\ status[r] # "finished" =>
    Loose(r) /\ (~ Async /\ status[r] = "running" => computed[r] < tokens[r])

Counted(r) == Sane(r) /\ Exact(r) /\ (r \in Ordered => Planned(r)) /\ Failed(r)

\* A request that both steps in flight sample has two tokens to go.
BothSample ==
  Len(flight) = 2 => \A r \in flight[1].samples \cap flight[2].samples :
    status[r] # "finished" /\ ~ Loose(r) => output[r] + 2 <= MaxTokens[r]

TokensInv == Books /\ BothSample /\ \A r \in Requests : Counted(r)

\* The requests fit the model with a step's drafts, drafts fit a step, and only with
\* at most one draft is there a session or a synchronous load.
DraftsFit ==
  /\ LongPrefillThreshold = 0 \/ NumSpecTokens < LongPrefillThreshold
  /\ NumSpecTokens <= 1 \/ (Sessions = {} /\ \A r \in Requests : SyncRemote[r] = 0)
Fitting ==
  /\ DraftsFit
  /\ \A r \in requests : status[r] # "finished" => tokens[r] + NumSpecTokens < MaxModelLen

-----------------------------------------------------------------------------
(* Blocks for tokens.                                                      *)

LEMMA BlocksGrow ==
  ASSUME NEW a \in Nat, NEW b \in Nat, a <= b
  PROVE  BlocksFor(a) \in Nat /\ BlocksFor(b) \in Nat /\ BlocksFor(a) <= BlocksFor(b)
<1> DEFINE q == BlockSize
           u == a + q - 1
           v == b + q - 1
           x == u \div q
           y == v \div q
<1>1. q \in Nat \ {0}
  BY DEF SchedulerAssumption
<1>2. u \in Nat /\ v \in Nat /\ u <= v
  BY <1>1
<1>3. BlocksFor(a) = x /\ BlocksFor(b) = y
  BY DEF BlocksFor
<1> HIDE DEF q, u, v
<1>4. x \in Nat /\ y \in Nat /\ q * x <= u /\ u < q * x + q /\ q * y <= v /\ v < q * y + q
  BY <1>1, <1>2
<1> HIDE DEF x, y
<1>5. x <= y
  <2> SUFFICES ASSUME y + 1 <= x
               PROVE  FALSE
    BY <1>4
  <2>1. PICK d \in Nat : x = y + 1 + d
    <3>1. x - y - 1 \in Nat /\ x = y + 1 + (x - y - 1)
      BY <1>4
    <3>2. QED
      BY <3>1
  <2>2. q * x = q * y + q + q * d /\ q * d >= 0 /\ q * y \in Nat /\ q * x \in Nat
    BY <1>1, <1>4, <2>1
  <2>3. QED
    BY <1>1, <1>2, <1>4, <2>2
<1>6. QED
  BY <1>3, <1>4, <1>5

\* No tokens need no blocks; the tokens of fewer blocks than n need are fewer than n.
LEMMA BlocksShort ==
  /\ BlocksFor(0) = 0
  /\ \A n, k \in Nat : k < BlocksFor(n) => k * BlockSize \in Nat /\ k * BlockSize < n
<1> DEFINE q == BlockSize
<1>1. q \in Nat \ {0}
  BY DEF SchedulerAssumption
<1>2. BlocksFor(0) = 0
  <2>1. BlocksFor(0) = (0 + q - 1) \div q
    BY DEF BlocksFor
  <2> HIDE DEF q
  <2>2. 0 + q - 1 \in Nat /\ 0 + q - 1 < q
    BY <1>1
  <2>3. QED
    BY <1>1, <2>1, <2>2
<1>3. ASSUME NEW n \in Nat, NEW k \in Nat, k < BlocksFor(n)
      PROVE  k * q \in Nat /\ k * q < n
  <2> DEFINE u == n + q - 1
             x == u \div q
  <2>1. BlocksFor(n) = x
    BY DEF BlocksFor
  <2> HIDE DEF q
  <2>2. u \in Nat
    BY <1>1
  <2> HIDE DEF u
  <2>3. x \in Nat /\ q * x <= u
    BY <1>1, <2>2
  <2> HIDE DEF x
  <2>4. PICK d \in Nat : x = k + 1 + d
    <3>1. x - k - 1 \in Nat /\ x = k + 1 + (x - k - 1)
      BY <1>3, <2>1, <2>3
    <3>2. QED
      BY <3>1
  <2>5. q * x = k * q + q + q * d /\ q * d >= 0 /\ k * q \in Nat /\ q * x \in Nat
    BY <1>1, <2>4
  <2>6. QED
    BY <1>1, <2>3, <2>5 DEF u
<1>4. QED
  BY <1>2, <1>3

LEMMA HeldFinite ==
  ASSUME BlocksInv, NEW r \in Requests
  PROVE  held[r] \subseteq Blocks /\ IsFiniteSet(held[r]) /\ Cardinality(held[r]) \in Nat
<1>1. IsFiniteSet(Blocks) /\ held[r] \subseteq Blocks
  BY DEF BlocksInv, SchedulerAssumption
<1>2. QED
  BY <1>1, FS_Subset, FS_CardinalityType

LEMMA HeldGrows ==
  ASSUME BlocksInv, BlocksInv', NEW r \in Requests, held[r] \subseteq held'[r]
  PROVE  /\ Cardinality(held[r]) \in Nat /\ Cardinality(held'[r]) \in Nat
         /\ Cardinality(held[r]) <= Cardinality(held'[r])
<1>1. IsFiniteSet(held[r]) /\ IsFiniteSet(held'[r])
  <2>1. held'[r] \subseteq Blocks /\ IsFiniteSet(Blocks)
    BY DEF BlocksInv, SchedulerAssumption
  <2>2. QED
    BY <2>1, HeldFinite, FS_Subset
<1>2. QED
  BY <1>1, FS_Subset, FS_CardinalityType

\* allocate_slots gives the blocks for n tokens, or for the most the model takes.
LEMMA AllocatedBlocks ==
  ASSUME BlocksInv, NEW r \in Requests, NEW n \in Nat, NEW b \in Grabs(NewBlocks(r, n)),
         NEW after, after = held[r] \cup b
  PROVE  \A k \in Nat : k <= n /\ k <= MaxModelLen => BlocksFor(k) <= Cardinality(after)
<1> DEFINE top == IF n < MaxModelLen THEN n ELSE MaxModelLen
           all == BlocksFor(top)
<1>1. top \in Nat
  BY DEF SchedulerAssumption
<1>2. all \in Nat
  BY <1>1, BlocksGrow
<1>3. b \subseteq free /\ Cardinality(b) = NewBlocks(r, n)
  BY DEF Grabs
<1>4. Cardinality(after) = Cardinality(held[r]) + Cardinality(b) /\ Cardinality(held[r]) \in Nat
  <2>1. held[r] \cap b = {} /\ b \subseteq Blocks
    BY <1>3 DEF BlocksInv, EveryBlockOnce
  <2>2. IsFiniteSet(held[r]) /\ IsFiniteSet(b)
    BY <2>1, HeldFinite, FS_Subset DEF SchedulerAssumption
  <2>3. Cardinality(held[r] \cup b)
          = Cardinality(held[r]) + Cardinality(b) - Cardinality(held[r] \cap b)
    BY <2>2, FS_Union, Zenon
  <2>4. Cardinality(held[r] \cap b) = 0
    BY <2>1, FS_EmptySet
  <2>5. Cardinality(held[r]) \in Nat /\ Cardinality(b) \in Nat
    BY <2>2, FS_CardinalityType
  <2>6. QED
    BY <2>3, <2>4, <2>5
<1>5. NewBlocks(r, n) = IF all - Cardinality(held[r]) > 0 THEN all - Cardinality(held[r]) ELSE 0
  BY DEF NewBlocks
<1> HIDE DEF all
<1>6. all <= Cardinality(after)
  BY <1>2, <1>3, <1>4, <1>5
<1>7. ASSUME NEW k \in Nat, k <= n, k <= MaxModelLen
      PROVE  BlocksFor(k) <= Cardinality(after)
  <2>1. k <= top
    BY <1>7
  <2>2. BlocksFor(k) \in Nat /\ BlocksFor(k) <= all
    BY <1>1, <2>1, BlocksGrow DEF all
  <2>3. QED
    BY <1>2, <1>3, <1>4, <1>5, <1>6, <2>2
<1>8. QED
  BY <1>7

-----------------------------------------------------------------------------
(* A step that leaves a request alone.                                     *)

SameCounts(r) ==
  /\ status'[r] = status[r] /\ tokens'[r] = tokens[r] /\ prompt'[r] = prompt[r]
  /\ output'[r] = output[r] /\ computed'[r] = computed[r] /\ holders'[r] = holders[r]
  /\ chunk'[r] = chunk[r]
SamePlan(r) ==
  /\ r \in Ordered <=> r \in Ordered'
  /\ r \in Ordered => call'.sched[r] = call.sched[r] /\ call'.spec[r] = call.spec[r]
Untouched(r) ==
  /\ SameCounts(r) /\ SamePlan(r)
  /\ r \in inflight => r \in inflight'
  /\ status[r] # "finished" => held[r] \subseteq held'[r]
  /\ Coming(r)' = Coming(r)
  /\ r \in failedRecv' => r \in failedRecv
  /\ status[r] # "finished" /\ Loose(r) => Loose(r)'
  /\ pc' = "update" /\ r \in upd'.skip => pc = "update" /\ r \in upd.skip

\* A request of the step in the making runs.
LEMMA OrderedRuns ==
  ASSUME QueueInv, NEW r \in Ordered
  PROVE  r \in Requests /\ status[r] = "running"
<1>1. pc \in {"running", "waiting", "done"} /\ r \in ToSet(call.order)
  BY DEF Ordered, InCall
<1>2. r \in ToSet(running) /\ running \in Seq(Requests)
  BY <1>1 DEF QueueInv, Calls, Queues
<1>3. r \in Requests /\ r \notin Leaving
  BY <1>1, <1>2, RangeQueue DEF Leaving
<1>4. QED
  BY <1>2, <1>3 DEF QueueInv, Places, Place

LEMMA SaneFrame ==
  ASSUME BlocksInv, BlocksInv', CountsInv, UNCHANGED maxBatches,
         NEW r \in Requests, Sane(r), Untouched(r)
  PROVE  Sane(r)'
<1>1. SameCounts(r) /\ Async' = Async /\ Coming(r)' = Coming(r)
  BY DEF Untouched, Async
<1>2. status[r] # "finished" => BlocksFor(computed'[r]) <= Cardinality(held'[r])
  <2> SUFFICES ASSUME status[r] # "finished"
               PROVE  BlocksFor(computed'[r]) <= Cardinality(held'[r])
    OBVIOUS
  <2>1. computed[r] \in Nat /\ computed'[r] = computed[r]
    BY <1>1 DEF Sane, CountsInv, RequestCounts, SameCounts
  <2>2. BlocksFor(computed[r]) \in Nat
    BY <2>1, BlocksGrow
  <2>3. /\ Cardinality(held[r]) \in Nat /\ Cardinality(held'[r]) \in Nat
        /\ Cardinality(held[r]) <= Cardinality(held'[r])
    BY HeldGrows DEF Untouched
  <2>4. QED
    BY <2>1, <2>2, <2>3 DEF Sane
<1>3. QED
  BY <1>1, <1>2 DEF Sane, SameCounts, Untouched, BlocksFor

LEMMA CountedFrame ==
  ASSUME QueueInv, BlocksInv, BlocksInv', CountsInv, UNCHANGED maxBatches,
         NEW r \in Requests, Counted(r), Untouched(r)
  PROVE  Counted(r)'
<1>1. SameCounts(r) /\ SamePlan(r) /\ Async' = Async /\ Coming(r)' = Coming(r)
      /\ status'[r] = status[r] /\ (r \in Ordered <=> r \in Ordered')
  BY DEF Untouched, Async, SameCounts, SamePlan
<1>2. Sane(r)'
  BY SaneFrame DEF Counted
<1>3. Exact(r)'
  <2>1. Pending(r)' = Pending(r)
    BY <1>1 DEF Pending, SameCounts
  <2>2. status[r] = "running" /\ ~ Loose(r)' => ~ Loose(r)
    BY DEF Untouched
  <2>3. QED
    BY <1>1, <2>1, <2>2 DEF Counted, Exact, SameCounts, Untouched
<1>4. ASSUME r \in Ordered
      PROVE  Planned(r)'
  <2>1. Planned(r) /\ Done(r)' = Done(r) /\ call'.spec[r] = call.spec[r] /\ status[r] = "running"
    BY <1>1, <1>4, OrderedRuns DEF Counted, Done, SamePlan, SameCounts
  <2>2. ~ Loose(r)' => ~ Loose(r)
    BY <2>1 DEF Untouched
  <2>3. BlocksFor(Done(r)') <= Cardinality(held'[r])
    <3>1. /\ Cardinality(held[r]) \in Nat /\ Cardinality(held'[r]) \in Nat
          /\ Cardinality(held[r]) <= Cardinality(held'[r])
      BY <2>1, HeldGrows DEF Untouched
    <3>2. computed[r] \in Int /\ call.sched[r] \in Int
      BY <1>4 DEF CountsInv, RequestCounts, CallCounts, Ordered, InCall
    <3>3. BlocksFor(Done(r)) \in Int
      BY <3>2 DEF BlocksFor, Done, SchedulerAssumption
    <3>4. QED
      BY <2>1, <3>1, <3>3 DEF Planned
  <2>4. call'.spec[r] < call'.sched[r]
    BY <1>1, <1>4, <2>1 DEF Planned, SamePlan
  <2>5. QED
    BY <1>1, <2>1, <2>2, <2>3, <2>4 DEF Planned, SameCounts, Untouched, BlocksFor
<1>5. Failed(r)'
  BY <1>1 DEF Counted, Failed, SameCounts, Untouched
<1>6. QED
  BY <1>1, <1>2, <1>3, <1>4, <1>5 DEF Counted

\* Outside the loop over the outputs and while nothing is handed out, nothing comes.
LEMMA ComingFrame ==
  ASSUME UNCHANGED flight, pc # "update", pc' # "update"
  PROVE  \A r \in Requests : Coming(r)' = Coming(r)
BY DEF Coming, ToCome, Placeholders, Due, Share

\* Outside update_from_output, a step that leaves some requests alone.
LEMMA QuietFrame ==
  ASSUME QueueInv, BlocksInv, BlocksInv', CountsInv, NEW S, S \subseteq Requests,
         UNCHANGED <<maxBatches, recompute, flight>>,
         pc \in {"idle", "running", "waiting", "done"},
         pc' \in {"idle", "running", "waiting", "done"},
         \A r \in S : /\ Counted(r) /\ SameCounts(r) /\ SamePlan(r)
                      /\ r \in inflight => r \in inflight'
                      /\ held[r] \subseteq held'[r] /\ (r \in failedRecv' => r \in failedRecv)
  PROVE  \A r \in S : Counted(r)'
<1>1. \A r \in S : Coming(r)' = Coming(r) /\ (Loose(r) => Loose(r)')
  BY ComingFrame DEF Loose, Settling
<1>2. \A r \in S : Untouched(r)
  BY <1>1 DEF Untouched
<1>3. QED
  BY <1>2, CountedFrame

-----------------------------------------------------------------------------
(* The counts of the scheduler.                                            *)

\* What the step in the making and the steps handed out owe to no other count.
LEMMA StepBookFrame ==
  ASSUME StepBook, UNCHANGED <<call, flight>>, InCall' = InCall
  PROVE  StepBook'
BY DEF StepBook, Ordered, Bounded, StepTokens, Loads

LEMMA BooksFrame ==
  ASSUME Books, StepBook', inflight' \subseteq Requests, paused' \in PauseState,
         UNCHANGED <<spec, prompt, output, toSend>>, pc' # "update"
  PROVE  Books'
BY DEF Books, Bounded

\* What a session's next input makes of its counts.
LEMMA NextChunkTypes ==
  ASSUME Books, NEW r \in Requests, NEW all \in Int, NEW done \in Int, NextChunk(r, all, done)
  PROVE  prompt' \in [Requests -> Nat] /\ output' \in [Requests -> Nat]
<1> DEFINE kept == Kept(all, done)
           more == IF kept > prompt[r] THEN kept - prompt[r] ELSE 0
<1>1. kept \in Int
  BY DEF Kept
<1>2. /\ prompt' = [prompt EXCEPT ![r] = @ + (IF kept > @ THEN kept - @ ELSE 0) + 1]
      /\ output' = [output EXCEPT ![r] = 0]
  BY DEF NextChunk
<1> HIDE DEF kept
<1>3. more \in Nat
  BY <1>1 DEF Books
<1>4. prompt' = [prompt EXCEPT ![r] = prompt[r] + more + 1]
  BY <1>2 DEF Books
<1> HIDE DEF more
<1>5. QED
  BY <1>2, <1>3, <1>4 DEF Books

LEMMA FinishRequestInflight ==
  ASSUME NEW r, FinishRequest(r)
  PROVE  inflight' \subseteq inflight
BY DEF FinishRequest, FreeRequests

LEMMA RequestStepBooks ==
  ASSUME Books, CountsInv, RequestStep
  PROVE  Books'
<1>1. UNCHANGED <<pc, call, flight>> /\ pc' # "update"
  BY DEF RequestStep, AddRequest, SendUpdate, EndSession, Abort, GrammarCompiled, Pause,
         ResetPrefixCache, OutsideVars, Outside
<1>2. StepBook'
  BY <1>1, StepBookFrame DEF Books, InCall
<1>3. ASSUME NEW r \in Requests, AddRequest(r)
      PROVE  Books'
  <2>1. /\ UNCHANGED <<inflight, paused, spec, output, toSend>>
        /\ prompt' = [prompt EXCEPT ![r] = PromptLen[r]]
    BY <1>3 DEF AddRequest, miscVars, streamVars
  <2>2. PromptLen[r] \in Nat
    BY DEF SchedulerAssumption
  <2>3. QED
    BY <1>1, <1>2, <2>1, <2>2 DEF Books, Bounded
<1>4. ASSUME NEW r \in Requests, SendUpdate(r)
      PROVE  Books'
  <2>1. /\ UNCHANGED <<inflight, paused, spec>> /\ toSend[r] > 1
        /\ toSend' = [toSend EXCEPT ![r] = @ - 1]
        /\ UNCHANGED <<prompt, output>> \/ NextChunk(r, tokens[r], computed[r])
    BY <1>4 DEF SendUpdate, miscVars
  <2>2. prompt' \in [Requests -> Nat] /\ output' \in [Requests -> Nat]
    BY <2>1, NextChunkTypes DEF CountsInv, RequestCounts, Books
  <2>3. r \in Sessions
    BY <2>1 DEF Books
  <2>4. QED
    BY <1>1, <1>2, <2>1, <2>2, <2>3 DEF Books, Bounded
<1>5. ASSUME NEW r \in Requests, EndSession(r)
      PROVE  Books'
  <2>1. UNCHANGED <<paused, spec, prompt, output>> /\ toSend[r] = 1
        /\ toSend' = [toSend EXCEPT ![r] = 0] /\ inflight' \subseteq inflight
    BY <1>5, FinishRequestInflight DEF EndSession, countVars
  <2>2. r \in Sessions
    BY <2>1 DEF Books
  <2>3. QED
    BY <1>1, <1>2, <2>1, <2>2 DEF Books, Bounded
<1>6. ASSUME NEW r \in Requests, Abort(r) \/ GrammarCompiled(r)
      PROVE  Books'
  <2>1. UNCHANGED <<paused, spec, prompt, output, toSend>> /\ inflight' \subseteq inflight
    BY <1>6, FinishRequestInflight DEF Abort, GrammarCompiled, countVars, streamVars
  <2>2. QED
    BY <1>1, <1>2, <2>1, BooksFrame DEF Books
<1>7. ASSUME NEW state \in PauseState, Pause(state)
      PROVE  Books'
  BY <1>1, <1>2, <1>7, BooksFrame DEF Pause, Books, countVars, streamVars
<1>8. CASE ResetPrefixCache
  <2>1. UNCHANGED <<paused, prompt, output, toSend>> /\ inflight' \subseteq inflight
        /\ \A q \in Requests : spec'[q] \in {spec[q], 0}
    BY <1>8 DEF ResetPrefixCache, Preempt, miscVars, streamVars
  <2>2. QED
    BY <1>1, <1>2, <2>1 DEF Books, Bounded, SchedulerAssumption
<1>9. QED
  BY <1>3, <1>4, <1>5, <1>6, <1>7, <1>8 DEF RequestStep

-----------------------------------------------------------------------------
(* How much is scheduled.                                                  *)

\* Inside schedule() as many tokens are pending as there are placeholders, and unless
\* a synchronous load failed these are what the steps in flight may give.
LEMMA CallPending ==
  ASSUME QueueInv, CountsInv, HoldersInv, InCall, NEW r \in Requests, status[r] # "finished"
  PROVE  /\ Pending(r) = holders[r] /\ holders[r] \in Int /\ Coming(r) \in Nat
         /\ ~ Loose(r) => holders[r] = Coming(r)
<1>1. holders[r] \in Int
  BY DEF CountsInv, RequestCounts
<1>2. ToCome(r) = 0 /\ ~ Settling
  BY DEF ToCome, InCall, Settling
<1>3. Due(1, r) \in Nat /\ Due(2, r) \in Nat
  BY DuesAreNatural DEF QueueInv
<1>4. Coming(r) \in Nat
  BY <1>2, <1>3 DEF Coming, Placeholders
<1>5. CASE Async
  <2>1. ~ Loose(r) => Awaited(r)
    BY <1>2, <1>5 DEF Loose, Awaited, Exempt
  <2>2. QED
    BY <1>1, <1>4, <1>5, <2>1 DEF HoldersInv, Pending
<1>6. CASE ~ Async
  <2>1. Len(flight) \in Nat /\ maxBatches \in {1, 2} /\ Len(flight) < maxBatches
    BY DEF QueueInv, Flights, Calls, InCall
  <2>2. Len(flight) = 0
    BY <1>6, <2>1 DEF Async
  <2>3. Due(1, r) = 0 /\ Due(2, r) = 0
    BY <2>2 DEF Due
  <2>4. Coming(r) = 0
    BY <1>2, <2>3 DEF Coming, Placeholders
  <2>5. QED
    BY <1>1, <1>4, <1>6, <2>4 DEF HoldersInv, Pending
<1>7. QED
  BY <1>5, <1>6

LEMMA CurrentRuns ==
  ASSUME QueueInv, MoreRunning
  PROVE  /\ Current \in Requests /\ status[Current] = "running" /\ Current \notin Ordered
         /\ InCall /\ Ordered = ToSet(call.order) /\ call.order \in Seq(Requests)
<1> DEFINE n == call.idx + 1
<1>1. /\ pc = "running" /\ call.idx \in Nat /\ call.idx < Len(running)
      /\ running \in Seq(Requests) /\ Distinct(running) /\ Len(running) \in Nat
      /\ call.order \in Seq(Requests)
      /\ \A y \in ToSet(call.order) : \E i \in 1 .. call.idx : running[i] = y
  BY DEF QueueInv, Calls, Queues, MoreRunning
<1>2. n \in 1 .. Len(running) /\ \A i \in 1 .. call.idx : i \in 1 .. Len(running) /\ i # n
  BY <1>1
<1> HIDE DEF n
<1>3. Current = running[n]
  BY DEF Current, n
<1>4. Current \in Requests /\ Current \in ToSet(running)
  BY <1>1, <1>2, <1>3, RangeQueue
<1>5. Current \notin ToSet(call.order)
  BY <1>1, <1>2, <1>3 DEF Distinct
<1>6. status[Current] = "running"
  BY <1>1, <1>4 DEF QueueInv, Places, Place, Leaving
<1>7. QED
  BY <1>1, <1>4, <1>5, <1>6 DEF Ordered, InCall

\* num_new_tokens of a running request: at least one unless it is zero, and never more
\* than the budget, the model, and what the request and its drafts need.
LEMMA RunningAmount ==
  ASSUME QueueInv, CountsInv, HoldersInv, Books, MoreRunning, NEW r \in Requests,
         r = Current, Counted(r), NumNewTokens(r) # 0
  PROVE  /\ NumNewTokens(r) \in Nat /\ NumNewTokens(r) >= 1 /\ NumNewTokens(r) <= call.budget
         /\ NumNewTokens(r) <= tokens[r] + spec[r] + holders[r] - computed[r]
         /\ computed[r] + NumNewTokens(r) < MaxModelLen
         /\ computed[r] < tokens[r] + holders[r]
<1> DEFINE t == tokens[r] + spec[r] + holders[r] - computed[r]
           room == MaxModelLen - computed[r] - 1
           n == NumNewTokens(r)
<1>1. status[r] = "running" /\ r \notin Ordered /\ InCall
  BY CurrentRuns
<1>2. /\ tokens[r] \in Int /\ spec[r] \in Nat /\ holders[r] \in Int /\ computed[r] \in Int
      /\ call.budget \in Int /\ call.budget > 0 /\ LongPrefillThreshold \in Nat
      /\ MaxModelLen \in Int
  BY <1>1 DEF CountsInv, RequestCounts, Books, StepBook, MoreRunning, SchedulerAssumption
<1>3. computed[r] < tokens[r] + holders[r] /\ computed[r] < MaxModelLen
  BY <1>1, CallPending DEF Counted, Exact
<1>4. t \in Int /\ t >= 1 /\ room \in Int /\ room >= 0
  BY <1>2, <1>3
<1>5. n = Min({Capped(t), call.budget, room})
  BY DEF NumNewTokens
<1> HIDE DEF t, room
<1>6. Capped(t) \in Int /\ Capped(t) >= 1 /\ Capped(t) <= t
  BY <1>2, <1>4 DEF Capped
<1> HIDE DEF n
<1>7. n \in Int /\ n \in {Capped(t), call.budget, room} /\ n <= Capped(t) /\ n <= call.budget
      /\ n <= room
  BY <1>2, <1>4, <1>5, <1>6, MinOfThree, Zenon
<1>8. n >= 1 /\ n <= t
  BY <1>2, <1>4, <1>6, <1>7 DEF n
<1>9. QED
  BY <1>2, <1>3, <1>7, <1>8 DEF n, t, room

\* The draft tokens of a running request are what its share has beyond its tokens.
Drafts(r) == NumNewTokens(r) + computed[r] - tokens[r] - holders[r]
Given(r) == IF spec[r] > 0 /\ Drafts(r) > 0 THEN Min({spec[r], Drafts(r)}) ELSE 0
LEMMA RunningDrafts ==
  ASSUME QueueInv, CountsInv, HoldersInv, Books, MoreRunning, NEW r \in Requests,
         r = Current, Counted(r), NumNewTokens(r) # 0
  PROVE  LET n == NumNewTokens(r) IN
         /\ Given(r) \in Nat /\ Given(r) <= NumSpecTokens /\ Given(r) < n
         /\ computed[r] + n <= tokens[r] + holders[r] + Given(r)
         /\ ~ (computed[r] + n < tokens[r] + holders[r]) =>
              computed[r] + n = tokens[r] + holders[r] + Given(r)
<1> DEFINE n == NumNewTokens(r)
           drafts == Drafts(r)
           given == Given(r)
<1>0. /\ drafts = n + computed[r] - tokens[r] - holders[r]
      /\ given = IF spec[r] > 0 /\ drafts > 0 THEN Min({spec[r], drafts}) ELSE 0
  BY DEF Drafts, Given
<1>1. /\ n \in Nat /\ n >= 1 /\ n <= tokens[r] + spec[r] + holders[r] - computed[r]
      /\ computed[r] < tokens[r] + holders[r]
  BY RunningAmount
<1> HIDE DEF n, drafts, given
<1>2. /\ tokens[r] \in Int /\ spec[r] \in Nat /\ holders[r] \in Int /\ computed[r] \in Int
      /\ spec[r] <= NumSpecTokens /\ NumSpecTokens \in Nat
  BY DEF CountsInv, RequestCounts, Books, Bounded, SchedulerAssumption
<1>3. drafts \in Int /\ drafts <= spec[r]
  BY <1>0, <1>1, <1>2
<1>4. CASE drafts > 0
  <2>1. /\ Min({spec[r], drafts}) \in Int /\ Min({spec[r], drafts}) \in {spec[r], drafts}
        /\ Min({spec[r], drafts}) <= drafts
    <3>1. spec[r] \in Int /\ drafts \in Int
      BY <1>2, <1>3
    <3>2. QED
      BY <3>1, MinOfTwo, Zenon
  <2>2. given = drafts
    BY <1>0, <1>2, <1>3, <1>4, <2>1
  <2>3. QED
    BY <1>0, <1>1, <1>2, <1>3, <1>4, <2>2 DEF n, given
<1>5. CASE ~ (drafts > 0)
  <2>1. given = 0
    BY <1>0, <1>5
  <2>2. QED
    BY <1>0, <1>1, <1>2, <1>3, <1>5, <2>1 DEF n, given
<1>6. QED
  BY <1>4, <1>5 DEF n, given

\* Nothing comes for a request that neither runs nor has finished, once no request that
\* a step in flight samples was preempted.
LEMMA NothingComes ==
  ASSUME QueueInv, CountsInv, pc = "waiting", NEW r \in Requests,
         status[r] \notin {"running", "finished"}
  PROVE  Coming(r) = 0
<1>1. ASSUME NEW i \in {1, 2}
      PROVE  Due(i, r) = 0
  <2>1. CASE i <= Len(flight)
    <3>1. i \in 1 .. Len(flight)
      BY <2>1 DEF QueueInv, Flights
    <3>2. ~ Held(i)
      BY <3>1, NoneHeld DEF QueueInv
    <3>3. flight[i].samples \subseteq ToSet(flight[i].order)
      BY <3>1 DEF CountsInv, StepsCounts, StepCounts
    <3>4. r \notin ToSet(flight[i].order)
      BY <3>1, <3>2 DEF QueueInv, Flights, InStep
    <3>5. QED
      BY <2>1, <3>3, <3>4 DEF Due, Share
  <2>2. QED
    BY <2>1 DEF Due
<1>2. QED
  BY <1>1 DEF Coming, Placeholders, ToCome

LEMMA CandidateWaits ==
  ASSUME QueueInv, CountsInv, Known, MayAdmit, PopCandidate
  PROVE  /\ Candidate \in Requests /\ InCall /\ Candidate \notin Ordered
         /\ status[Candidate] \notin BlockedStatus =>
              status[Candidate] \in Waits /\ Candidate \in requests
         /\ status[Candidate] \in BlockedStatus \cup Waits
         /\ Coming(Candidate) = 0
<1>1. /\ pc = "waiting" /\ Candidate \in Requests /\ Candidate \notin ToSet(call.passed)
      /\ Candidate \in ToSet(waiting) \cup ToSet(skippedWaiting)
  BY PopQueues DEF MayAdmit
<1>2. status[Candidate] \in BlockedStatus \cup Waits
  BY <1>1 DEF QueueInv, Places, Place, LeavingWaiting
<1>3. status[Candidate] \notin {"absent", "running", "finished"}
  BY <1>2 DEF BlockedStatus, Waits
<1>4. Candidate \in requests
  BY <1>1, <1>3 DEF Known
<1>5. Candidate \notin Ordered
  BY <1>3, OrderedRuns
<1>6. Coming(Candidate) = 0
  BY <1>1, <1>3, NothingComes
<1>7. QED
  BY <1>1, <1>2, <1>4, <1>5, <1>6 DEF InCall, Waits

\* A synchronous load leaves a token to compute.
LEMMA MatchesLess ==
  ASSUME CountsInv, NEW r \in Requests, computed[r] \in Nat, computed[r] < tokens[r],
         NEW m \in Matches(r)
  PROVE  /\ m.ext \in Nat
         /\ m.async => computed[r] = 0 /\ m.ext = Min({Remote[r], tokens[r]}) /\ m.ext <= tokens[r]
         /\ ~ m.async => computed[r] + m.ext < tokens[r]
<1>1. /\ tokens[r] \in Int /\ Remote[r] \in Nat /\ SyncRemote[r] \in Nat
  BY DEF CountsInv, RequestCounts, SchedulerAssumption
<1> DEFINE away == Min({Remote[r], tokens[r]})
           sync == Min({SyncRemote[r], tokens[r] - 1})
<1>2. \/ m = [ext |-> 0, async |-> FALSE]
      \/ computed[r] = 0 /\ m = [ext |-> away, async |-> TRUE]
      \/ computed[r] = 0 /\ m = [ext |-> sync, async |-> FALSE]
  BY DEF Matches
<1>3. away \in Int /\ away \in {Remote[r], tokens[r]} /\ away <= tokens[r]
  <2>1. tokens[r] \in Int /\ Remote[r] \in Int
    BY <1>1
  <2>2. QED
    BY <2>1, MinOfTwo, Zenon
<1>4. sync \in Int /\ sync \in {SyncRemote[r], tokens[r] - 1} /\ sync <= tokens[r] - 1
  <2>1. tokens[r] - 1 \in Int /\ SyncRemote[r] \in Int
    BY <1>1
  <2>2. QED
    BY <2>1, MinOfTwo, Zenon
<1>5. away \in Nat /\ sync \in Nat
  BY <1>1, <1>3, <1>4
<1> HIDE DEF away, sync
<1>6. CASE m = [ext |-> 0, async |-> FALSE]
  BY <1>6
<1>7. CASE computed[r] = 0 /\ m = [ext |-> away, async |-> TRUE]
  BY <1>3, <1>5, <1>7 DEF away
<1>8. CASE computed[r] = 0 /\ m = [ext |-> sync, async |-> FALSE]
  BY <1>1, <1>4, <1>5, <1>8
<1>9. QED
  BY <1>2, <1>6, <1>7, <1>8

\* num_new_tokens of an admitted request: at least one, and with the padding exactly a
\* token and the drafts.
LEMMA AdmitAmount ==
  ASSUME CountsInv, Books, Fitting, MayAdmit, NEW r \in Requests, r \in requests,
         status[r] # "finished", NEW done \in Nat, done < tokens[r], ~ PutOff(r, done),
         NEW n, n = AdmitTokens(r, done),
         NEW given, given = IF Pads(r, done) THEN NumSpecTokens ELSE 0
  PROVE  /\ n \in Nat /\ n >= 1 /\ n <= call.budget
         /\ given \in Nat /\ given <= NumSpecTokens /\ given < n
         /\ done + n <= tokens[r] + given /\ done + n < MaxModelLen
         /\ ~ (done + n < tokens[r]) => done + n = tokens[r] + given
<1>1. /\ tokens[r] \in Int /\ call.budget \in Nat /\ call.budget > 0
      /\ LongPrefillThreshold \in Nat /\ MaxModelLen \in Nat /\ NumSpecTokens \in Nat
      /\ tokens[r] + NumSpecTokens < MaxModelLen
      /\ LongPrefillThreshold = 0 \/ NumSpecTokens < LongPrefillThreshold
  BY DEF CountsInv, RequestCounts, Books, StepBook, MayAdmit, Fitting, DraftsFit,
         SchedulerAssumption
<1>2. CASE Pads(r, done)
  <2>1. tokens[r] - done = 1 /\ ~ (1 + NumSpecTokens > call.budget)
    BY <1>2 DEF Pads, PutOff
  <2>2. Capped(1 + NumSpecTokens) = 1 + NumSpecTokens
    BY <1>1 DEF Capped
  <2>3. n = Min({1 + NumSpecTokens, call.budget})
    BY <1>2, <2>2 DEF AdmitTokens
  <2>4. 1 + NumSpecTokens \in Int /\ call.budget \in Int
    BY <1>1
  <2>5. n \in {1 + NumSpecTokens, call.budget} /\ n <= 1 + NumSpecTokens /\ n <= call.budget
    <3>1. LET k == Min({1 + NumSpecTokens, call.budget}) IN
            k \in {1 + NumSpecTokens, call.budget} /\ k <= 1 + NumSpecTokens /\ k <= call.budget
      BY <2>4, MinOfTwo, Zenon
    <3>2. QED
      BY <2>3, <3>1
  <2>6. n = 1 + NumSpecTokens
    BY <1>1, <2>1, <2>5
  <2>7. QED
    BY <1>1, <1>2, <2>1, <2>5, <2>6
<1>3. CASE ~ Pads(r, done)
  <2> DEFINE t == tokens[r] - done
  <2>1. t \in Int /\ t >= 1
    BY <1>1
  <2>2. n = Min({Capped(t), call.budget})
    BY <1>3 DEF AdmitTokens
  <2> HIDE DEF t
  <2>3. Capped(t) \in Int /\ Capped(t) >= 1 /\ Capped(t) <= t
    BY <1>1, <2>1 DEF Capped
  <2>4. n \in Int /\ n \in {Capped(t), call.budget} /\ n <= Capped(t) /\ n <= call.budget
    <3>1. Capped(t) \in Int /\ call.budget \in Int
      BY <1>1, <2>3
    <3>2. LET k == Min({Capped(t), call.budget}) IN
            k \in Int /\ k \in {Capped(t), call.budget} /\ k <= Capped(t) /\ k <= call.budget
      BY <3>1, MinOfTwo, Zenon
    <3>3. QED
      BY <2>2, <3>2
  <2>5. n >= 1 /\ n <= t
    BY <1>1, <2>1, <2>3, <2>4
  <2>6. given = 0
    BY <1>3
  <2>7. QED
    BY <1>1, <2>4, <2>5, <2>6 DEF t
<1>4. QED
  BY <1>2, <1>3

-----------------------------------------------------------------------------
(* schedule() keeps the books.                                             *)

\* What the proofs about a step rest on.
Before == QueueInv /\ BlocksInv /\ CountsInv /\ TransfersInv /\ HoldersInv /\ TokensInv
After == QueueInv' /\ BlocksInv' /\ CountsInv'

\* r joins the step in the making.
Joins(r, n, given) ==
  /\ DOMAIN call' = DOMAIN call /\ call'.budget = call.budget - n
  /\ call'.sched = [call.sched EXCEPT ![r] = n] /\ call'.spec = [call.spec EXCEPT ![r] = given]
  /\ call'.order = Append(call.order, r)
  /\ call'.loads \in {call.loads, call.loads \cup {r}}

LEMMA JoinsOrder ==
  ASSUME QueueInv, InCall, InCall', NEW r \in Requests, NEW n, NEW given, Joins(r, n, given)
  PROVE  Ordered' = Ordered \cup {r}
<1>1. call.order \in Seq(Requests)
  BY DEF QueueInv, Calls, InCall
<1>2. ToSet(call'.order) = ToSet(call.order) \cup {r}
  BY <1>1, AppendQueue DEF Joins
<1>3. QED
  BY <1>2 DEF Ordered

LEMMA JoinsBook ==
  ASSUME QueueInv, StepBook, CountsInv, InCall, InCall', NEW r \in Requests,
         NEW n \in Nat, n <= call.budget, NEW given \in Nat, given <= NumSpecTokens,
         Joins(r, n, given), UNCHANGED flight
  PROVE  StepBook'
<1>1. Ordered' = Ordered \cup {r}
  BY JoinsOrder
<1>2. ToSet(call'.order) = Ordered' /\ ToSet(call.order) = Ordered
  BY DEF Ordered
<1>3. call.spec \in [Requests -> Nat] /\ call.budget \in Nat /\ call.sched \in [Requests -> Nat]
  BY DEF CountsInv, CallCounts, StepBook, InCall
<1>4. call'.budget \in Nat /\ call'.sched \in [Requests -> Nat]
  BY <1>3 DEF Joins
<1>5. \A q \in Requests \ Ordered' : call'.sched[q] = 0
  BY <1>1, <1>3 DEF StepBook, Joins
<1>6. Bounded(call.spec)' /\ call'.loads \subseteq ToSet(call'.order)
  BY <1>1, <1>2, <1>3 DEF StepBook, Joins, Bounded
<1>7. \A i \in 1 .. Len(flight) : StepTokens(flight[i])'
  BY DEF StepBook, StepTokens, Bounded, Loads
<1>8. QED
  BY <1>4, <1>5, <1>6, <1>7 DEF StepBook

\* r joins the step in the making, which leaves the others alone.
LEMMA JoinsFrame ==
  ASSUME QueueInv, CountsInv, InCall, InCall', NEW r \in Requests,
         NEW n, NEW given, Joins(r, n, given)
  PROVE  /\ \A q \in Requests \ {r} : SamePlan(q)
         /\ r \in Ordered' /\ call'.sched[r] = n /\ call'.spec[r] = given
<1>1. Ordered' = Ordered \cup {r}
  BY JoinsOrder
<1>2. call.sched \in [Requests -> Int] /\ call.spec \in [Requests -> Nat]
  BY DEF CountsInv, CallCounts, InCall
<1>3. QED
  BY <1>1, <1>2 DEF Joins, SamePlan

LEMMA ScheduleRunningTokens ==
  ASSUME Before, After, NEW r \in Requests, ScheduleRunning(r)
  PROVE  Books' /\ \A q \in Requests : Counted(q)'
<1> DEFINE n == NumNewTokens(r)
           drafts == n + computed[r] - tokens[r] - holders[r]
           given == IF spec[r] > 0 /\ drafts > 0 THEN Min({spec[r], drafts}) ELSE 0
<1>1. /\ MoreRunning /\ r = Current /\ ~ PassedOver(r) /\ n # 0 /\ pc = "running" /\ pc' = "running"
      /\ UNCHANGED <<status, tokens, prompt, output, computed, holders, chunk, inflight, toSend>>
      /\ UNCHANGED <<failedRecv, paused, recompute, maxBatches, flight>>
      /\ spec' = [spec EXCEPT ![r] = 0]
  BY DEF ScheduleRunning, MoreRunning, queueVars, streamVars, xferVars, miscVars, configVars
<1>2. QueueInv /\ CountsInv /\ HoldersInv /\ Books /\ BlocksInv /\ \A q \in Requests : Counted(q)
  BY DEF Before, TokensInv
<1>3. InCall /\ InCall' /\ status[r] = "running" /\ r \notin Ordered
  BY <1>1, <1>2, CurrentRuns DEF InCall
<1>4. /\ n \in Nat /\ n >= 1 /\ n <= call.budget /\ computed[r] + n < MaxModelLen
      /\ computed[r] < tokens[r] + holders[r]
  BY <1>1, <1>2, RunningAmount
<1>5. /\ given \in Nat /\ given <= NumSpecTokens /\ given < n
      /\ computed[r] + n <= tokens[r] + holders[r] + given
      /\ ~ (computed[r] + n < tokens[r] + holders[r]) =>
           computed[r] + n = tokens[r] + holders[r] + given
  <2>1. n = NumNewTokens(r) /\ given = Given(r) /\ NumNewTokens(r) # 0 /\ Counted(r)
    BY <1>1, <1>2 DEF Given, Drafts
  <2> HIDE DEF n, given
  <2>2. QED
    BY <1>1, <1>2, <2>1, RunningDrafts
<1>6. call' = [call EXCEPT !.idx = @ + 1, !.budget = @ - n, !.sched[r] = n,
                           !.order = Append(@, r), !.batch = @ \cup {r},
                           !.prefill = @ \/ chunk[r], !.spec[r] = given]
  BY Zenon DEF ScheduleRunning
<1>7. PICK b \in Grabs(NewBlocks(r, computed[r] + n + NumSpecTokens)) :
        held' = [held EXCEPT ![r] = @ \cup b]
  BY Zenon DEF ScheduleRunning, Wanted
<1> HIDE DEF n, given
<1>8. Joins(r, n, given)
  <2>1. /\ DOMAIN call = DOMAIN NoCall
        /\ {"budget", "sched", "spec", "order", "loads"} \subseteq DOMAIN call
    BY <1>2 DEF QueueInv, Calls, NoCall
  <2>2. QED
    BY <1>6, <2>1 DEF Joins
<1>9. Books'
  <2>1. StepBook'
    BY <1>1, <1>2, <1>3, <1>4, <1>5, <1>8, JoinsBook DEF Books
  <2>2. Bounded(spec)'
    BY <1>1, <1>2 DEF Books, Bounded, CountsInv, RequestCounts, SchedulerAssumption
  <2>3. QED
    BY <1>1, <1>2, <2>1, <2>2 DEF Books
<1>10. /\ \A q \in Requests \ {r} : SamePlan(q)
       /\ r \in Ordered' /\ call'.sched[r] = n /\ call'.spec[r] = given
  BY <1>2, <1>3, <1>8, JoinsFrame
<1>11. \A q \in Requests : held[q] \subseteq held'[q]
  BY <1>2, <1>7 DEF BlocksInv
<1>12. \A q \in Requests \ {r} : Counted(q)'
  BY <1>1, <1>2, <1>10, <1>11, QuietFrame DEF After, SameCounts
<1>13. Counted(r)'
  <2>1. Coming(r)' = Coming(r) /\ Loose(r)' = Loose(r) /\ ~ Settling
    BY <1>1, ComingFrame DEF Loose, Settling
  <2>2. Sane(r) /\ Exact(r)
    BY <1>2 DEF Counted
  <2>3. Sane(r)'
    <3>1. computed[r] \in Nat
      BY <1>2, <2>2 DEF Sane, CountsInv, RequestCounts
    <3>2. /\ Cardinality(held[r]) \in Nat /\ Cardinality(held'[r]) \in Nat
          /\ Cardinality(held[r]) <= Cardinality(held'[r]) /\ BlocksFor(computed[r]) \in Nat
      BY <1>2, <1>11, <3>1, HeldGrows, BlocksGrow DEF After
    <3>3. BlocksFor(computed[r]) <= Cardinality(held'[r])
      BY <1>3, <2>2, <3>2 DEF Sane
    <3>4. QED
      BY <1>1, <1>3, <2>1, <2>2, <3>3 DEF Sane, Async
  <2>4. Exact(r)'
    BY <1>10 DEF Exact
  <2>5. Planned(r)'
    <3>1. Done(r)' = computed[r] + n
      BY <1>1, <1>10 DEF Done
    <3>2. BlocksFor(computed[r] + n) <= Cardinality(held'[r])
      <4>1. /\ computed[r] + n \in Nat /\ computed[r] + n + NumSpecTokens \in Nat
            /\ computed[r] + n <= computed[r] + n + NumSpecTokens
            /\ computed[r] + n <= MaxModelLen
        BY <1>2, <1>4, <2>2 DEF Sane, CountsInv, RequestCounts, SchedulerAssumption
      <4>2. held'[r] = held[r] \cup b
        BY <1>2, <1>7 DEF BlocksInv
      <4>3. QED
        BY <1>2, <1>7, <4>1, <4>2, AllocatedBlocks
    <3>3. ASSUME ~ Loose(r), computed[r] + n < tokens[r] + holders[r]
          PROVE  r \in inflight /\ Coming(r) = 0
      <4>1. /\ holders[r] = Coming(r) /\ tokens[r] \in Int /\ computed[r] \in Int
            /\ holders[r] \in Int
        BY <1>2, <1>3, <3>3, CallPending DEF CountsInv, RequestCounts
      <4>2. computed[r] # tokens[r] + Coming(r) - 1
        BY <1>4, <3>3, <4>1
      <4>3. QED
        BY <1>3, <2>2, <3>3, <4>2 DEF Exact
    <3>4. ASSUME ~ Loose(r), Coming(r) > 0
          PROVE  output[r] + 2 <= MaxTokens[r]
      <4>1. /\ holders[r] = Coming(r) /\ tokens[r] \in Int /\ computed[r] \in Int
            /\ holders[r] \in Int /\ Pending(r) = holders[r] /\ Coming(r) \in Nat
        BY <1>2, <1>3, <3>4, CallPending DEF CountsInv, RequestCounts
      <4>2. computed[r] = tokens[r] + holders[r] - 1
        BY <1>3, <2>2, <3>4, <4>1 DEF Exact
      <4>3. r \notin Sessions
        <5>1. Async
          BY <1>2, <3>4, <4>1 DEF HoldersInv
        <5>2. r \in requests
          BY <1>3 DEF Before, TransfersInv, Known
        <5>3. QED
          BY <1>2, <5>1, <5>2 DEF QueueInv, Places, Place
      <4>4. tokens[r] = prompt[r] + output[r] /\ prompt[r] \in Nat /\ output[r] \in Nat
        BY <1>2, <2>2, <4>3 DEF Sane, Books
      <4>5. ~ (computed[r] + 2 - holders[r] >= prompt[r] + MaxTokens[r])
        BY <1>1, <3>4, <4>1 DEF PassedOver, AlmostDone
      <4>6. MaxTokens[r] \in Nat
        BY DEF SchedulerAssumption
      <4>7. QED
        BY <4>1, <4>2, <4>4, <4>5, <4>6
    <3>5. QED
      BY <1>1, <1>4, <1>5, <1>10, <2>1, <3>1, <3>2, <3>3, <3>4 DEF Planned, BlocksFor
  <2>6. Failed(r)'
    BY <1>1 DEF Failed
  <2>7. QED
    BY <2>3, <2>4, <2>5, <2>6 DEF Counted
<1>14. QED
  BY <1>9, <1>12, <1>13

\* A step of schedule() that schedules nothing.
SameStep ==
  /\ InCall /\ InCall' /\ UNCHANGED flight
  /\ call'.budget = call.budget /\ call'.sched = call.sched /\ call'.spec = call.spec
  /\ call'.order = call.order /\ call'.loads = call.loads

LEMMA SameStepKeeps ==
  ASSUME StepBook, SameStep
  PROVE  StepBook' /\ \A r \in Requests : SamePlan(r)
<1>1. Ordered' = Ordered
  BY DEF SameStep, Ordered
<1>2. QED
  BY <1>1 DEF SameStep, StepBook, Bounded, StepTokens, Loads, SamePlan

\* _preempt_request: r starts over, with nothing computed.
LEMMA PreemptedCounts ==
  ASSUME CountsInv, NEW r \in Requests, Sane(r), status[r] = "running",
         status'[r] = "preempted", computed'[r] = 0, held'[r] = {}, r \notin Ordered',
         Coming(r)' = Coming(r), tokens'[r] = tokens[r], prompt'[r] = prompt[r],
         output'[r] = output[r], holders'[r] = holders[r], UNCHANGED maxBatches, pc' # "update"
  PROVE  Counted(r)'
<1>1. BlocksFor(computed'[r]) = 0 /\ Cardinality(held'[r]) = 0
  BY BlocksShort, FS_EmptySet
<1>2. tokens[r] \in Int /\ holders[r] \in Int
  BY DEF CountsInv, RequestCounts
<1>3. Sane(r)'
  BY <1>1, <1>2 DEF Sane, Async
<1>4. Exact(r)' /\ Failed(r)'
  BY DEF Exact, Failed
<1>5. QED
  BY <1>3, <1>4 DEF Counted

LEMMA PreemptLastTokens ==
  ASSUME Before, After, NEW r \in Requests, PreemptLast(r)
  PROVE  Books' /\ \A q \in Requests : Counted(q)'
<1>1. /\ MoreRunning /\ r = Last(running) /\ pc = "running" /\ pc' \in {"running", "done"}
      /\ call' = [call EXCEPT !.preempted = TRUE]
      /\ UNCHANGED <<tokens, prompt, output, holders, chunk, toSend>>
      /\ UNCHANGED <<failedRecv, paused, recompute, maxBatches, flight>>
  BY DEF PreemptLast, MoreRunning, streamVars, xferVars, miscVars, configVars
<1>2. /\ held' = [q \in Requests |-> IF q = r THEN {} ELSE held[q]]
      /\ inflight' = inflight \ {r}
      /\ status' = [q \in Requests |-> IF q = r THEN "preempted" ELSE status[q]]
      /\ computed' = [q \in Requests |-> IF q = r THEN 0 ELSE computed[q]]
      /\ spec' = [q \in Requests |-> IF q = r THEN 0 ELSE spec[q]]
  BY DEF PreemptLast, Preempt, FreeBlocks
<1>3. QueueInv /\ CountsInv /\ Books /\ BlocksInv /\ \A q \in Requests : Counted(q)
  BY DEF Before, TokensInv
<1>4. SameStep
  <2>1. DOMAIN call = DOMAIN NoCall
    BY <1>3 DEF QueueInv, Calls
  <2>2. QED
    BY <1>1, <2>1 DEF SameStep, InCall, NoCall
<1>5. StepBook' /\ \A q \in Requests : SamePlan(q)
  BY <1>3, <1>4, SameStepKeeps DEF Books
<1>6. Books'
  <2>1. Bounded(spec)' /\ inflight' \subseteq Requests
    BY <1>2, <1>3 DEF Books, Bounded, SchedulerAssumption
  <2>2. QED
    BY <1>1, <1>3, <1>5, <2>1 DEF Books
<1>7. \A q \in Requests \ {r} : Counted(q)'
  BY <1>1, <1>2, <1>3, <1>5, QuietFrame DEF After, SameCounts
<1>8. status[r] = "running"
  <2>1. running \in Seq(Requests) /\ call.idx \in Nat /\ call.idx < Len(running)
        /\ Len(running) \in Nat
    BY <1>1, <1>3 DEF QueueInv, Calls, Queues, MoreRunning
  <2>2. r \in ToSet(running)
    BY <1>1, <2>1, FrontQueue
  <2>3. QED
    BY <1>1, <1>3, <2>2 DEF QueueInv, Places, Place, Leaving
<1>9. r \notin Ordered'
  <2>1. status'[r] = "preempted"
    BY <1>2
  <2>2. r \in Ordered' => r \in ToSet(running')
    BY <1>1 DEF After, QueueInv, Calls, Ordered, InCall
  <2>3. r \in ToSet(running') => status'[r] = "running"
    BY <1>1 DEF After, QueueInv, Places, Place, Leaving
  <2>4. QED
    BY <2>1, <2>2, <2>3
<1>10. Counted(r)'
  <2>1. Coming(r)' = Coming(r)
    BY <1>1, ComingFrame
  <2>2. QED
    BY <1>1, <1>2, <1>3, <1>8, <1>9, <2>1, PreemptedCounts DEF Counted
<1>11. QED
  BY <1>6, <1>7, <1>10

\* Steps of schedule() that only move on.
LEMMA MovingOnTokens ==
  ASSUME Before, After, SkipRunning \/ EndRunning \/ SkipBlocked \/ SkipUndecided \/ EndWaiting
  PROVE  Books' /\ \A q \in Requests : Counted(q)'
<1>1. /\ pc \in {"running", "waiting"} /\ pc' \in {"running", "waiting", "done"}
      /\ UNCHANGED <<status, tokens, prompt, output, computed, spec, holders, chunk, inflight>>
      /\ UNCHANGED <<held, toSend, failedRecv, paused, recompute, maxBatches, flight>>
  BY DEF SkipRunning, EndRunning, SkipBlocked, SkipUndecided, SkipCandidate, EndWaiting, MayAdmit,
         MoreRunning, queueVars, countVars, kvVars, streamVars, xferVars, miscVars, configVars
<1>2. QueueInv /\ CountsInv /\ Books /\ BlocksInv /\ \A q \in Requests : Counted(q)
  BY DEF Before, TokensInv
<1>3. SameStep
  <2>1. DOMAIN call = DOMAIN NoCall
    BY <1>2 DEF QueueInv, Calls
  <2>2. \/ call' = call \/ call' = [call EXCEPT !.idx = @ + 1]
        \/ call' = [call EXCEPT !.passed = Append(@, Candidate)]
    BY Zenon DEF SkipRunning, EndRunning, SkipBlocked, SkipUndecided, SkipCandidate, EndWaiting
  <2>3. QED
    BY <1>1, <2>1, <2>2 DEF SameStep, InCall, NoCall
<1>4. StepBook' /\ \A q \in Requests : SamePlan(q)
  BY <1>2, <1>3, SameStepKeeps DEF Books
<1>5. Books'
  BY <1>1, <1>2, <1>4, BooksFrame DEF Books
<1>6. \A q \in Requests : Counted(q)'
  BY <1>1, <1>2, <1>4, QuietFrame DEF After, SameCounts
<1>7. QED
  BY <1>5, <1>6

LEMMA BeginScheduleTokens ==
  ASSUME Before, After, NEW throttle \in BOOLEAN, BeginSchedule(throttle)
  PROVE  Books' /\ \A q \in Requests : Counted(q)'
<1>1. /\ pc = "idle" /\ pc' = "running"
      /\ UNCHANGED <<status, tokens, prompt, output, computed, spec, holders, chunk, inflight>>
      /\ UNCHANGED <<held, toSend, failedRecv, paused, recompute, maxBatches, flight>>
  BY DEF BeginSchedule, queueVars, countVars, kvVars, streamVars, xferVars, miscVars, configVars
<1>2. QueueInv /\ CountsInv /\ Books /\ BlocksInv /\ \A q \in Requests : Counted(q)
  BY DEF Before, TokensInv
<1>3. /\ call'.sched = None /\ call'.spec = None /\ call'.order = <<>> /\ call'.loads = {}
      /\ call'.budget \in Nat
  BY DEF BeginSchedule, NoCall, SchedulerAssumption
<1>4. Ordered' = {} /\ Ordered = {}
  BY <1>1, <1>3 DEF Ordered, InCall, ToSet
<1>5. StepBook'
  <2>1. \A i \in 1 .. Len(flight) : StepTokens(flight[i])'
    BY <1>1, <1>2 DEF Books, StepBook, StepTokens, Bounded, Loads
  <2>2. QED
    BY <1>1, <1>3, <1>4, <2>1 DEF StepBook, None, Bounded, SchedulerAssumption
<1>6. Books'
  BY <1>1, <1>2, <1>5, BooksFrame DEF Books
<1>7. \A q \in Requests : Counted(q)'
  BY <1>1, <1>2, <1>4, QuietFrame DEF After, SameCounts, SamePlan
<1>8. QED
  BY <1>6, <1>7

\* A request whose load is over, or whose grammar is compiled, waits with a token to
\* compute.
LEMMA PromoteTokens ==
  ASSUME Before, After, NEW r \in Requests, Promote(r)
  PROVE  Books' /\ \A q \in Requests : Counted(q)'
<1> DEFINE retry == r \in failedRecv /\ computed[r] = 0
<1>1. /\ MayAdmit /\ r = Candidate /\ Promotable(r) /\ pc = "waiting" /\ pc' = "waiting"
      /\ UNCHANGED <<tokens, prompt, output, spec, holders, chunk, inflight, toSend, paused>>
      /\ UNCHANGED <<recompute, maxBatches, call, flight>> /\ failedRecv' \subseteq failedRecv
      /\ status' = [status EXCEPT ![r] =
                      IF status[r] = "remote" /\ preempts[r] THEN "preempted" ELSE "waiting"]
  BY DEF Promote, MayAdmit, streamVars, miscVars, configVars
<1>2. /\ computed' = [computed EXCEPT ![r] =
                        IF status[r] = "remote" THEN LoadedTokens(r) ELSE computed[r]]
      /\ held' = [held EXCEPT ![r] = IF retry THEN {} ELSE held[r]]
  BY DEF Promote, Before, CountsInv, RequestCounts, BlocksInv
<1>3. QueueInv /\ CountsInv /\ Books /\ BlocksInv /\ \A q \in Requests : Counted(q)
  BY DEF Before, TokensInv
<1>4. SameStep
  BY <1>1 DEF SameStep, InCall
<1>5. StepBook' /\ \A q \in Requests : SamePlan(q)
  BY <1>3, <1>4, SameStepKeeps DEF Books
<1>6. Books'
  BY <1>1, <1>3, <1>5, BooksFrame DEF Books
<1>7. status \in [Requests -> Status] /\ held \in [Requests -> SUBSET Blocks]
  BY <1>3 DEF QueueInv, Places, BlocksInv
<1>8. \A q \in Requests \ {r} : Counted(q)'
  BY <1>1, <1>2, <1>3, <1>5, <1>7, QuietFrame DEF After, SameCounts, CountsInv, RequestCounts
<1>9. Counted(r)'
  <2>1. Sane(r) /\ status[r] \in {"remote", "grammar"} /\ status'[r] \in {"waiting", "preempted"}
    BY <1>1, <1>3, <1>7 DEF Counted, Promotable
  <2>2. Coming(r)' = 0
    BY <1>1, <1>3, <2>1, ComingFrame, NothingComes
  <2>3. /\ tokens[r] \in Int /\ computed[r] \in Nat /\ computed'[r] \in Nat
        /\ computed'[r] < tokens[r] /\ computed'[r] <= computed[r]
    BY <1>2, <1>3, <2>1 DEF Sane, LoadedTokens, CountsInv, RequestCounts
  <2>4. BlocksFor(computed'[r]) <= Cardinality(held'[r])
    <3>1. CASE retry
      BY <1>2, <1>7, <2>3, <3>1, BlocksShort, FS_EmptySet
    <3>2. CASE ~ retry
      <4>1. held'[r] = held[r]
        BY <1>2, <1>7, <3>2
      <4>2. /\ BlocksFor(computed'[r]) \in Nat /\ BlocksFor(computed[r]) \in Nat
            /\ BlocksFor(computed'[r]) <= BlocksFor(computed[r])
        BY <2>3, BlocksGrow
      <4>3. BlocksFor(computed[r]) <= Cardinality(held[r]) /\ Cardinality(held[r]) \in Nat
        BY <1>3, <2>1, HeldFinite DEF Sane
      <4>4. QED
        BY <4>1, <4>2, <4>3
    <3>3. QED
      BY <3>1, <3>2
  <2>5. status'[r] # "running" /\ pc' # "update"
    BY <1>1, <2>1
  <2>6. Sane(r)'
    BY <1>1, <1>3, <2>1, <2>2, <2>3, <2>4 DEF Sane, Async
  <2>7. r \notin Ordered'
    BY <1>3, <1>5, <2>1, OrderedRuns DEF SamePlan
  <2>8. QED
    BY <2>5, <2>6, <2>7 DEF Counted, Exact, Failed
<1>10. QED
  BY <1>6, <1>8, <1>9

\* A load in the background holds the blocks for its tokens.
LEMMA AdmitLoadTokens ==
  ASSUME Before, After, Fitting, NEW r \in Requests, AdmitLoad(r)
  PROVE  Books' /\ \A q \in Requests : Counted(q)'
<1>1. /\ MayAdmit /\ PopCandidate /\ r = Candidate /\ status[r] \notin BlockedStatus
      /\ pc = "waiting" /\ pc' = "waiting" /\ status' = [status EXCEPT ![r] = "remote"]
      /\ UNCHANGED <<tokens, prompt, output, spec, holders, chunk, toSend, paused>>
      /\ UNCHANGED <<recompute, maxBatches, flight, failedRecv>>
      /\ inflight' = inflight \cup {r} /\ call' = [call EXCEPT !.passed = Append(@, r)]
  BY DEF AdmitLoad, CanBeAdmitted, MayAdmit, streamVars, miscVars, configVars
<1>2. QueueInv /\ CountsInv /\ Books /\ BlocksInv /\ TransfersInv /\ \A q \in Requests : Counted(q)
  BY DEF Before, TokensInv
<1>3. PICK m \in Matches(r) : m.async /\ Allocate(r, m.ext)
                              /\ computed' = [computed EXCEPT ![r] = m.ext]
  BY DEF AdmitLoad
<1>4. PICK b \in Grabs(NewBlocks(r, m.ext)) : held' = [held EXCEPT ![r] = held[r] \cup b]
  BY <1>2, <1>3 DEF Allocate, BlocksInv
<1>5. /\ r \notin Ordered /\ status[r] \in Waits /\ r \in requests /\ Coming(r) = 0
  BY <1>1, <1>2, CandidateWaits DEF TransfersInv
<1>6. /\ computed[r] \in Nat /\ computed[r] < tokens[r] /\ tokens[r] \in Int /\ Sane(r)
      /\ output[r] < MaxTokens[r] /\ tokens[r] + NumSpecTokens < MaxModelLen
  BY <1>2, <1>5 DEF Counted, Sane, Waits, CountsInv, RequestCounts, Fitting
<1>7. m.ext \in Nat /\ m.ext <= tokens[r]
  BY <1>2, <1>3, <1>6, MatchesLess
<1>8. SameStep
  <2>1. DOMAIN call = DOMAIN NoCall
    BY <1>2 DEF QueueInv, Calls
  <2>2. QED
    BY <1>1, <2>1 DEF SameStep, InCall, NoCall
<1>9. StepBook' /\ \A q \in Requests : SamePlan(q)
  BY <1>2, <1>8, SameStepKeeps DEF Books
<1>10. Books'
  BY <1>1, <1>2, <1>9, BooksFrame DEF Books
<1>11. status \in [Requests -> Status] /\ held \in [Requests -> SUBSET Blocks]
       /\ computed \in [Requests -> Int]
  BY <1>2 DEF QueueInv, Places, BlocksInv, CountsInv, RequestCounts
<1>12. \A q \in Requests \ {r} : Counted(q)'
  BY <1>1, <1>2, <1>3, <1>4, <1>9, <1>11, QuietFrame DEF After, SameCounts
<1>13. Counted(r)'
  <2>1. Coming(r)' = 0 /\ computed'[r] = m.ext /\ held'[r] = held[r] \cup b
        /\ status'[r] = "remote"
    BY <1>1, <1>3, <1>4, <1>5, <1>11, ComingFrame
  <2>2. BlocksFor(m.ext) <= Cardinality(held'[r])
    <3>1. m.ext <= MaxModelLen
      BY <1>6, <1>7 DEF SchedulerAssumption
    <3>2. QED
      BY <1>2, <1>7, <2>1, <3>1, AllocatedBlocks
  <2>3. r \notin failedRecv
    BY <1>2, <1>5 DEF TransfersInv, Transfers, Waits
  <2>4. Sane(r)'
    BY <1>1, <1>5, <1>6, <1>7, <2>1, <2>2, <2>3 DEF Sane, Async, BlocksFor, Waits
  <2>5. r \notin Ordered'
    BY <1>5, <1>9 DEF SamePlan
  <2>6. QED
    BY <1>1, <2>1, <2>4, <2>5 DEF Counted, Exact, Failed
<1>14. QED
  BY <1>10, <1>12, <1>13

\* A waiting request is admitted with at least one token.
LEMMA AdmitTokensPlanned ==
  ASSUME Before, After, Fitting, NEW r \in Requests, Admit(r)
  PROVE  Books' /\ \A q \in Requests : Counted(q)'
<1>1. /\ MayAdmit /\ PopCandidate /\ r = Candidate /\ status[r] \notin BlockedStatus
      /\ pc = "waiting" /\ pc' = "waiting" /\ status' = [status EXCEPT ![r] = "running"]
      /\ UNCHANGED <<tokens, prompt, output, spec, holders, chunk, toSend, paused>>
      /\ UNCHANGED <<recompute, maxBatches, flight, failedRecv>>
  BY DEF Admit, CanBeAdmitted, MayAdmit, streamVars, xferVars, miscVars, configVars
<1>2. /\ QueueInv /\ CountsInv /\ Books /\ BlocksInv /\ TransfersInv /\ HoldersInv
      /\ \A q \in Requests : Counted(q)
  BY DEF Before, TokensInv
<1>3. PICK m \in Matches(r) :
        LET done == computed[r] + m.ext
            n == AdmitTokens(r, done) IN
        /\ ~ m.async /\ ~ PutOff(r, done) /\ Allocate(r, done + n + NumSpecTokens)
        /\ computed' = [computed EXCEPT ![r] = done]
        /\ inflight' = IF done + n < tokens[r] THEN inflight \cup {r} ELSE inflight
        /\ call' = [call EXCEPT !.budget = @ - n, !.sched[r] = n, !.order = Append(@, r),
                                !.spec[r] = IF Pads(r, done) THEN NumSpecTokens ELSE 0,
                                !.loads = IF m.ext > 0 THEN @ \cup {r} ELSE @]
  BY Zenon DEF Admit
<1> DEFINE done == computed[r] + m.ext
           n == AdmitTokens(r, done)
           given == IF Pads(r, done) THEN NumSpecTokens ELSE 0
<1>4. /\ r \notin Ordered /\ status[r] \in Waits /\ r \in requests /\ Coming(r) = 0 /\ InCall
  BY <1>1, <1>2, CandidateWaits DEF TransfersInv
<1>5. /\ computed[r] \in Nat /\ computed[r] < tokens[r] /\ tokens[r] \in Int /\ Sane(r)
      /\ output[r] < MaxTokens[r] /\ holders[r] \in Nat
  BY <1>2, <1>4 DEF Counted, Sane, Waits, CountsInv, RequestCounts
<1>6. m.ext \in Nat /\ done \in Nat /\ done < tokens[r]
  <2>1. ~ m.async
    BY <1>3, Zenon
  <2>2. m.ext \in Nat /\ computed[r] + m.ext < tokens[r]
    BY <1>2, <1>5, <2>1, MatchesLess
  <2>3. QED
    BY <1>5, <2>2
<1>7. /\ n = AdmitTokens(r, done) /\ given = (IF Pads(r, done) THEN NumSpecTokens ELSE 0)
      /\ ~ PutOff(r, done)
  BY <1>3
<1>8. /\ computed' = [computed EXCEPT ![r] = done]
      /\ inflight' = IF done + n < tokens[r] THEN inflight \cup {r} ELSE inflight
      /\ call' = [call EXCEPT !.budget = @ - n, !.sched[r] = n, !.order = Append(@, r),
                              !.spec[r] = given, !.loads = IF m.ext > 0 THEN @ \cup {r} ELSE @]
  BY <1>3, Zenon
<1>9. PICK b \in Grabs(NewBlocks(r, done + n + NumSpecTokens)) :
        held' = [held EXCEPT ![r] = held[r] \cup b]
  BY <1>2, <1>3 DEF Allocate, BlocksInv
<1> HIDE DEF done, n, given
<1>10. /\ n \in Nat /\ n >= 1 /\ n <= call.budget
       /\ given \in Nat /\ given <= NumSpecTokens /\ given < n
       /\ done + n <= tokens[r] + given /\ done + n < MaxModelLen
       /\ ~ (done + n < tokens[r]) => done + n = tokens[r] + given
  BY <1>1, <1>2, <1>4, <1>6, <1>7, AdmitAmount DEF Waits
<1>11. Joins(r, n, given)
  <2>1. /\ DOMAIN call = DOMAIN NoCall
        /\ {"budget", "sched", "spec", "order", "loads"} \subseteq DOMAIN call
    BY <1>2 DEF QueueInv, Calls, NoCall
  <2>2. QED
    BY <1>8, <2>1 DEF Joins
<1>12. InCall' /\ ~ Settling
  BY <1>1 DEF InCall, Settling
<1>13. Books'
  <2>1. StepBook'
    BY <1>1, <1>2, <1>4, <1>10, <1>11, <1>12, JoinsBook DEF Books
  <2>2. inflight' \subseteq Requests
    BY <1>2, <1>8 DEF Books
  <2>3. QED
    BY <1>1, <1>2, <2>1, <2>2, BooksFrame DEF Books
<1>14. /\ \A q \in Requests \ {r} : SamePlan(q)
       /\ r \in Ordered' /\ call'.sched[r] = n /\ call'.spec[r] = given
  BY <1>2, <1>4, <1>11, <1>12, JoinsFrame
<1>15. status \in [Requests -> Status] /\ held \in [Requests -> SUBSET Blocks]
       /\ computed \in [Requests -> Int]
  BY <1>2 DEF QueueInv, Places, BlocksInv, CountsInv, RequestCounts
<1>16. \A q \in Requests \ {r} : Counted(q)'
  BY <1>1, <1>2, <1>8, <1>9, <1>14, <1>15, QuietFrame DEF After, SameCounts
<1>17. Counted(r)'
  <2>1. /\ Coming(r)' = 0 /\ computed'[r] = done /\ held'[r] = held[r] \cup b
        /\ status'[r] = "running" /\ Loose(r)' = Loose(r) /\ Done(r)' = done + n
    BY <1>1, <1>4, <1>8, <1>9, <1>12, <1>14, <1>15, ComingFrame DEF Loose, Done, Settling
  <2>2. \A k \in Nat : k <= done + n => BlocksFor(k) <= Cardinality(held'[r])
    <3>1. done + n \in Nat /\ done + n + NumSpecTokens \in Nat /\ done + n < MaxModelLen
          /\ NumSpecTokens \in Nat /\ MaxModelLen \in Nat
      BY <1>6, <1>10 DEF SchedulerAssumption
    <3>2. \A k \in Nat : k <= done + n + NumSpecTokens /\ k <= MaxModelLen =>
            BlocksFor(k) <= Cardinality(held'[r])
      BY <1>2, <1>9, <2>1, <3>1, AllocatedBlocks
    <3>3. QED
      BY <3>1, <3>2
  <2>3. BlocksFor(done) <= Cardinality(held'[r]) /\ BlocksFor(done + n) <= Cardinality(held'[r])
    BY <1>6, <1>10, <2>2
  <2>4. Sane(r)'
    BY <1>1, <1>4, <1>5, <1>6, <2>1, <2>3 DEF Sane, Async, BlocksFor, Waits
  <2>5. ~ Loose(r) => holders[r] = 0
    BY <1>2, <1>4, CallPending DEF Waits
  <2>6. Planned(r)'
    BY <1>1, <1>5, <1>6, <1>8, <1>10, <1>14, <2>1, <2>3, <2>5 DEF Planned, BlocksFor
  <2>7. QED
    BY <1>1, <1>14, <2>4, <2>6 DEF Counted, Exact, Failed
<1>18. QED
  BY <1>13, <1>16, <1>17

-----------------------------------------------------------------------------
(* The end of schedule().                                                  *)

\* What the end of schedule() makes of the counts of r, of the step if `in`.
StepCounted(r, step) ==
  /\ status'[r] = status[r] /\ tokens'[r] = tokens[r] /\ prompt'[r] = prompt[r]
  /\ output'[r] = output[r] /\ held'[r] = held[r]
  /\ failedRecv' = failedRecv /\ Ordered' = {} /\ Loose(r)' = Loose(r)
  /\ pc' = "idle" /\ UNCHANGED maxBatches
  /\ r \in Ordered => /\ computed'[r] = Done(r) /\ (chunk'[r] <=> r \notin step.samples)
                      /\ (r \in step.samples <=> ~ (Done(r) < tokens[r] + holders[r]))
                      /\ r \in inflight /\ r \notin step.samples => r \in inflight'
  /\ r \notin Ordered => /\ computed'[r] = computed[r] /\ chunk'[r] = chunk[r]
                         /\ r \notin step.samples /\ (r \in inflight => r \in inflight')
  /\ holders'[r] = holders[r] + (IF Async THEN Share(step, r) ELSE 0)
  /\ Share(step, r) = IF r \in step.samples THEN 1 + call.spec[r] ELSE 0

LEMMA FinishScheduleCounted ==
  ASSUME QueueInv, CountsInv, StepBook, FinishSchedule, NEW step, NewStep(step), NEW r \in Requests
  PROVE  StepCounted(r, step)
<1> DEFINE S == ToSet(call.order)
           done == [q \in Requests |-> computed[q] + call.sched[q]]
           partial == {q \in S : done[q] < tokens[q] + holders[q]}
           sampled == IF Async THEN S \ partial ELSE {}
<1>1. /\ pc = "done" /\ pc' = "idle" /\ call' = NoCall /\ computed' = done
      /\ UNCHANGED <<status, tokens, prompt, output, held, failedRecv, recompute, maxBatches>>
      /\ inflight' = inflight \ (S \ partial)
      /\ chunk' = [q \in Requests |-> IF q \in S THEN q \in partial ELSE chunk[q]]
      /\ holders' = [q \in Requests |->
                       IF q \in sampled THEN holders[q] + 1 + call.spec[q] ELSE holders[q]]
  BY DEF FinishSchedule, queueVars, kvVars, xferVars, configVars
<1>2. step.samples = S \ partial /\ step.spec = call.spec
  BY DEF NewStep, StepPartial
<1>3. Ordered = S /\ Ordered' = {} /\ Loose(r)' = Loose(r)
  BY <1>1 DEF Ordered, InCall, NoCall, ToSet, Loose, Settling
<1>4. done[r] = Done(r) /\ (r \notin S => done[r] = computed[r]) /\ (r \in S => (r \in partial <=> Done(r) < tokens[r] + holders[r]))
  BY <1>1, <1>3 DEF Done, StepBook, CountsInv, RequestCounts
<1>5. holders[r] \in Int /\ call.spec[r] \in Nat
  BY <1>1 DEF CountsInv, RequestCounts, CallCounts
<1> HIDE DEF S, done, partial
<1>6. Share(step, r) = IF r \in step.samples THEN 1 + call.spec[r] ELSE 0
  BY <1>2 DEF Share
<1>7. holders'[r] = holders[r] + (IF Async THEN Share(step, r) ELSE 0)
  BY <1>1, <1>2, <1>5, <1>6
<1>8. QED
  BY <1>1, <1>2, <1>3, <1>4, <1>6, <1>7 DEF StepCounted

\* The tokens of the step count as computed, and what it may sample is pending.
LEMMA StepKeepsCounts ==
  ASSUME Before, After, FinishSchedule, NEW step, NewStep(step), flight' = Append(flight, step),
         NEW r \in Requests
  PROVE  Counted(r)'
<1>1. /\ QueueInv /\ CountsInv /\ Books /\ StepBook /\ BlocksInv /\ HoldersInv /\ Counted(r)
      /\ Sane(r) /\ Exact(r) /\ pc = "done" /\ InCall
  BY DEF Before, TokensInv, Books, Counted, FinishSchedule, InCall
<1>2. StepCounted(r, step)
  BY <1>1, FinishScheduleCounted
<1>3. /\ Coming(r)' = Coming(r) + Share(step, r) /\ Coming(r) \in Nat /\ Share(step, r) \in Nat
  BY <1>1, HandedOut
<1>4. Async' = Async /\ pc' # "update" /\ Failed(r)' /\ Ordered' = {}
  BY <1>2 DEF StepCounted, Async, Failed
<1>5. /\ tokens[r] \in Int /\ computed[r] \in Int /\ holders[r] \in Int
      /\ call.sched[r] \in Nat /\ call.spec[r] \in Nat /\ Done(r) \in Int
  BY <1>1 DEF CountsInv, RequestCounts, CallCounts, StepBook, Done
<1>6. ~ Async => holders[r] = 0
  BY <1>1 DEF HoldersInv
<1>7. /\ status[r] # "finished" => Pending(r) = holders[r]
      /\ status[r] # "finished" /\ ~ Loose(r) => holders[r] = Coming(r)
  BY <1>1, CallPending
<1>8. Pending(r)' = IF Async THEN holders[r] + Share(step, r) ELSE Coming(r) + Share(step, r)
  BY <1>2, <1>3, <1>4 DEF Pending, StepCounted
<1>9. CASE r \in Ordered
  <2>1. status[r] = "running" /\ Planned(r)
    BY <1>1, <1>9, OrderedRuns DEF Counted
  <2>2. /\ computed'[r] = Done(r) /\ (chunk'[r] <=> r \notin step.samples)
        /\ (r \in step.samples <=> ~ (Done(r) < tokens[r] + holders[r]))
        /\ (r \in inflight /\ r \notin step.samples => r \in inflight')
        /\ Share(step, r) = IF r \in step.samples THEN 1 + call.spec[r] ELSE 0
    BY <1>2, <1>9 DEF StepCounted
  <2>3. computed[r] >= 0 /\ Done(r) >= 0
    BY <1>1, <1>5 DEF Sane, Done
  <2>4. Sane(r)'
    <3>1. Async => Coming(r)' <= holders'[r]
      BY <1>1, <1>2, <1>3, <1>5, <2>1 DEF Sane, StepCounted
    <3>2. holders'[r] >= 0
      <4>1. holders[r] >= 0 /\ holders'[r] = holders[r] + (IF Async THEN Share(step, r) ELSE 0)
        BY <1>1, <1>2 DEF Sane, StepCounted
      <4>2. CASE Async
        BY <1>3, <1>5, <4>1, <4>2
      <4>3. CASE ~ Async
        BY <1>5, <4>1, <4>3
      <4>4. QED
        BY <4>2, <4>3
    <3>3. BlocksFor(computed'[r]) <= Cardinality(held'[r])
      BY <1>2, <2>1, <2>2 DEF Planned, StepCounted
    <3>4. QED
      BY <1>1, <1>2, <1>4, <2>1, <2>2, <2>3, <3>1, <3>2, <3>3
         DEF Sane, StepCounted, BlocksFor
  <2>5. Exact(r)'
    <3>1. /\ Done(r) < MaxModelLen /\ Done(r) <= tokens[r] + holders[r] + call.spec[r]
      BY <2>1 DEF Planned
    <3>2. Done(r) < tokens[r] + Pending(r)'
      <4>1. CASE Async
        BY <1>5, <1>8, <2>2, <3>1, <4>1
      <4>2. CASE ~ Async
        <5>1. holders[r] = 0 /\ Pending(r)' = Coming(r) + Share(step, r)
          BY <1>6, <1>8, <4>2
        <5>2. CASE r \in step.samples
          BY <1>3, <1>5, <2>2, <3>1, <5>1, <5>2
        <5>3. CASE r \notin step.samples
          BY <1>3, <1>5, <2>2, <5>1, <5>3
        <5>4. QED
          BY <5>2, <5>3
      <4>3. QED
        BY <4>1, <4>2
    <3>3. ASSUME ~ Loose(r)
          PROVE  IF chunk'[r] THEN r \in inflight' /\ Coming(r)' = 0
                 ELSE Done(r) = tokens[r] + Coming(r)' - 1
      <4>1. holders[r] = Coming(r)
        BY <1>7, <2>1, <3>3
      <4>2. CASE r \in step.samples
        <5>1. Done(r) = tokens[r] + holders[r] + call.spec[r]
          BY <2>1, <2>2, <3>3, <4>2 DEF Planned
        <5>2. Share(step, r) = 1 + call.spec[r] /\ ~ chunk'[r]
          BY <2>2, <4>2
        <5>3. Coming(r)' = holders[r] + Share(step, r)
          BY <1>3, <4>1
        <5>4. Done(r) = tokens[r] + Coming(r)' - 1
          <6> DEFINE h == holders[r]
                     g == call.spec[r]
                     t == tokens[r]
          <6>1. h \in Int /\ g \in Int /\ t \in Int
            BY <1>5
          <6>2. Coming(r)' = h + (1 + g) /\ Done(r) = t + h + g
            BY <5>1, <5>2, <5>3
          <6> HIDE DEF h, g, t
          <6>3. t + h + g = t + (h + (1 + g)) - 1
            BY <6>1
          <6>4. QED
            BY <6>2, <6>3 DEF t
        <5>5. QED
          BY <5>2, <5>4
      <4>3. CASE r \notin step.samples
        <5>1. r \in inflight /\ Coming(r) = 0
          BY <2>1, <2>2, <3>3, <4>3 DEF Planned
        <5>2. QED
          BY <1>3, <2>2, <4>3, <5>1
      <4>4. QED
        BY <4>2, <4>3
    <3>4. QED
      BY <1>2, <2>2, <3>1, <3>2, <3>3 DEF Exact, StepCounted
  <2>6. QED
    BY <1>4, <2>4, <2>5 DEF Counted
<1>10. CASE r \notin Ordered
  <2>1. /\ Share(step, r) = 0 /\ computed'[r] = computed[r] /\ chunk'[r] = chunk[r]
        /\ (r \in inflight => r \in inflight') /\ holders'[r] = holders[r]
        /\ Coming(r)' = Coming(r)
    BY <1>2, <1>3, <1>5, <1>10 DEF StepCounted
  <2>2. Untouched(r)
    BY <1>2, <1>10, <2>1 DEF Untouched, SameCounts, SamePlan, StepCounted
  <2>3. UNCHANGED maxBatches
    BY <1>2 DEF StepCounted
  <2>4. QED
    BY <1>1, <2>2, <2>3, CountedFrame DEF After
<1>11. QED
  BY <1>9, <1>10

LEMMA FinishScheduleTokens ==
  ASSUME Before, After, FinishSchedule
  PROVE  TokensInv'
<1>1. PICK step : NewStep(step) /\ flight' = Append(flight, step)
  BY StepHandedOut
<1>2. /\ QueueInv /\ CountsInv /\ Books /\ StepBook /\ pc = "done" /\ InCall
      /\ \A q \in Requests : Counted(q)
  BY DEF Before, TokensInv, Books, FinishSchedule, InCall
<1>3. /\ Len(flight) \in {0, 1} /\ Len(flight') = Len(flight) + 1
      /\ flight'[Len(flight) + 1] = step /\ \A i \in 1 .. Len(flight) : flight'[i] = flight[i]
  <2>1. CASE Requests = {}
    <3>1. PICK T : flight \in Seq(T)
      BY <1>2 DEF QueueInv, Flights
    <3>2. QED
      BY <1>1, <1>2, <3>1, OneInFlight
  <2>2. CASE Requests # {}
    <3>1. PICK q : q \in Requests
      BY <2>2
    <3>2. QED
      BY <1>1, <1>2, <3>1, HandedOut
  <2>3. QED
    BY <2>1, <2>2
<1>4. \A q \in Requests : Counted(q)'
  BY <1>1, StepKeepsCounts
<1>5. \A q \in Requests : StepCounted(q, step)
  BY <1>1, <1>2, FinishScheduleCounted
<1>6. BothSample'
  <2> SUFFICES ASSUME Len(flight') = 2, NEW r \in flight'[1].samples \cap flight'[2].samples,
                      status'[r] # "finished", ~ Loose(r)'
               PROVE  output'[r] + 2 <= MaxTokens[r]
    BY DEF BothSample
  <2>1. Len(flight) = 1 /\ flight'[2] = step /\ flight'[1] = flight[1]
    BY <1>3
  <2>2. r \in Ordered /\ r \in Requests
    BY <1>1, <1>2, <2>1, OrderedRuns DEF NewStep, Ordered
  <2>3. Planned(r) /\ ~ Loose(r) /\ output'[r] = output[r]
    BY <1>2, <1>5, <2>2 DEF StepCounted, Counted
  <2>4. Coming(r) > 0
    <3>1. Due(1, r) > 0
      <4>1. StepCounts(flight[1])
        BY <1>2, <2>1 DEF CountsInv, StepsCounts
      <4>2. Due(1, r) = 1 + flight[1].spec[r] /\ flight[1].spec[r] \in Nat
        BY <2>1, <2>2, <4>1 DEF Due, Share, StepCounts
      <4>3. QED
        BY <4>2
    <3>2. Due(1, r) \in Nat /\ Due(2, r) \in Nat /\ ToCome(r) = 0
      BY <1>2, <2>2, DuesAreNatural DEF QueueInv, ToCome
    <3>3. QED
      BY <3>1, <3>2 DEF Coming, Placeholders
  <2>5. QED
    BY <2>3, <2>4 DEF Planned
<1>7. Books'
  <2>1. /\ UNCHANGED <<prompt, output, toSend, paused>> /\ pc' = "idle" /\ call' = NoCall
        /\ inflight' \subseteq inflight
        /\ \A q \in Requests : spec'[q] \in {spec[q], NumSpecTokens}
    BY DEF FinishSchedule, streamVars
  <2>2. StepTokens(step)
    <3>1. /\ step.sched = call.sched /\ step.spec = call.spec /\ step.loads = call.loads
          /\ call.sched \in [Requests -> Int] /\ Bounded(call.spec)
          /\ call.loads \subseteq Ordered
      BY <1>1, <1>2 DEF NewStep, StepBook, Ordered, CountsInv, CallCounts
    <3>2. \A q \in Ordered : call.spec[q] < call.sched[q]
      BY <1>2, OrderedRuns DEF Counted, Planned
    <3>3. QED
      BY <3>1, <3>2 DEF StepTokens, Bounded, Loads
  <2>3. StepBook'
    <3>1. Ordered' = {} /\ InCall' = FALSE
      BY <2>1 DEF Ordered, InCall
    <3>2. ASSUME NEW i \in 1 .. Len(flight')
          PROVE  StepTokens(flight'[i])
      <4>1. CASE i = Len(flight) + 1
        BY <1>3, <2>2, <4>1
      <4>2. CASE i \in 1 .. Len(flight)
        BY <1>2, <1>3, <4>2 DEF StepBook
      <4>3. QED
        BY <1>3, <4>1, <4>2
    <3>3. QED
      BY <2>1, <3>1, <3>2 DEF StepBook, NoCall, None, StepTokens, Loads, Bounded
  <2>4. QED
    BY <1>2, <2>1, <2>3 DEF Books, Bounded, SchedulerAssumption
<1>8. QED
  BY <1>4, <1>6, <1>7 DEF TokensInv

\* Only between two calls are two steps in flight.
LEMMA BothInCall ==
  ASSUME QueueInv', pc' # "idle"
  PROVE  BothSample'
<1>1. Len(flight') \in Nat /\ Len(flight') < maxBatches' /\ (maxBatches' = 1 \/ maxBatches' = 2)
  BY DEF QueueInv, Flights, Calls
<1>2. CASE maxBatches' = 1
  BY <1>1, <1>2 DEF BothSample
<1>3. CASE maxBatches' = 2
  BY <1>1, <1>3 DEF BothSample
<1>4. QED
  BY <1>1, <1>2, <1>3

LEMMA ScheduleTokens ==
  ASSUME Before, After, Fitting,
         ScheduleStep \/ \E throttle \in BOOLEAN : BeginSchedule(throttle)
  PROVE  TokensInv'
<1>1. CASE FinishSchedule
  BY <1>1, FinishScheduleTokens
<1>2. CASE ~ FinishSchedule
  <2>1. Books' /\ \A q \in Requests : Counted(q)'
    BY <1>2, MovingOnTokens, BeginScheduleTokens, ScheduleRunningTokens, PreemptLastTokens,
       PromoteTokens, AdmitLoadTokens, AdmitTokensPlanned DEF ScheduleStep
  <2>2. pc' # "idle"
    BY <1>2 DEF ScheduleStep, SkipRunning, EndRunning, SkipBlocked, SkipUndecided, SkipCandidate,
                EndWaiting, ScheduleRunning, PreemptLast, Promote, AdmitLoad, Admit,
                CanBeAdmitted, MayAdmit, MoreRunning, BeginSchedule
  <2>3. QED
    BY <2>1, <2>2, BothInCall DEF After, TokensInv
<1>3. QED
  BY <1>1, <1>2

-----------------------------------------------------------------------------
(* Requests, from outside.                                                 *)

\* Nothing is counted of a request that has finished.
LEMMA FinishedCounted ==
  ASSUME CountsInv, NEW r \in Requests, Sane(r), status[r] # "absent", status'[r] = "finished",
         tokens'[r] = tokens[r], prompt'[r] = prompt[r], output'[r] = output[r],
         computed'[r] = computed[r], holders'[r] = holders[r], QueueInv'
  PROVE  Counted(r)'
<1>1. r \notin Ordered'
  <2>1. r \in Ordered' => r \in ToSet(running') /\ pc' # "update"
    BY DEF QueueInv, Calls, Ordered, InCall
  <2>2. r \in ToSet(running') /\ pc' # "update" => status'[r] = "running"
    BY DEF QueueInv, Places, Place, Leaving
  <2>3. QED
    BY <2>1, <2>2
<1>2. Sane(r)'
  BY DEF Sane
<1>3. QED
  BY <1>1, <1>2 DEF Counted, Exact, Failed

LEMMA FinishRequestOthers ==
  ASSUME BlocksInv, NEW r \in Requests, FinishRequest(r)
  PROVE  /\ status'[r] = "finished" /\ inflight' \subseteq inflight
         /\ \A q \in Requests \ {r} :
              /\ status'[q] = status[q] /\ held'[q] = held[q] /\ (q \in inflight => q \in inflight')
              /\ q \in failedRecv' => q \in failedRecv
<1> DEFINE load == IF status[r] = "remote" /\ r \notin finishedRecv THEN {r} ELSE {}
           kept == load \cup ConnectorKeeps({r} \ load)
<1>1. /\ FreeRequests({r}, load) /\ failedRecv' = failedRecv \ {r}
  BY DEF FinishRequest
<1> HIDE DEF load
<1>2. FreeBlocks({r} \ kept) /\ inflight' = inflight \ {r}
      /\ status' = [q \in Requests |-> IF q \in {r} THEN "finished" ELSE status[q]]
  BY <1>1 DEF FreeRequests
<1> HIDE DEF kept
<1>3. held' = [q \in Requests |-> IF q \in {r} \ kept THEN {} ELSE held[q]]
  BY <1>2 DEF FreeBlocks
<1>4. QED
  BY <1>1, <1>2, <1>3

\* finish_requests, between two calls.
LEMMA FinishRequestTokens ==
  ASSUME Before, After, NEW r \in Requests, FinishRequest(r), status[r] # "absent",
         pc = "idle", UNCHANGED <<countVars, chunk, configVars, OutsideVars>>
  PROVE  \A q \in Requests : Counted(q)'
<1>1. /\ QueueInv /\ CountsInv /\ BlocksInv /\ \A q \in Requests : Counted(q)
      /\ UNCHANGED <<tokens, prompt, output, computed, spec, holders, recompute, maxBatches>>
      /\ UNCHANGED <<pc, call, upd, flight>>
  BY DEF Before, TokensInv, countVars, configVars, OutsideVars
<1>2. Counted(r)'
  BY <1>1, FinishRequestOthers, FinishedCounted DEF After, Counted
<1>3. \A q \in Requests \ {r} : Counted(q)'
  BY <1>1, FinishRequestOthers, QuietFrame DEF After, SameCounts, SamePlan, Ordered, InCall
<1>4. QED
  BY <1>2, <1>3

LEMMA AddRequestTokens ==
  ASSUME Before, After, NEW r \in Requests, AddRequest(r)
  PROVE  \A q \in Requests : Counted(q)'
<1>1. /\ pc = "idle" /\ status[r] = "absent"
      /\ UNCHANGED <<pc, call, upd, flight, output, computed, spec, holders, chunk, inflight>>
      /\ UNCHANGED <<held, failedRecv, recompute, maxBatches>>
  BY DEF AddRequest, Outside, OutsideVars, kvVars, xferVars, miscVars, configVars
<1>2. /\ \E st \in {"waiting", "grammar"} : status' = [status EXCEPT ![r] = st]
      /\ tokens' = [tokens EXCEPT ![r] = PromptLen[r]]
      /\ prompt' = [prompt EXCEPT ![r] = PromptLen[r]]
  BY DEF AddRequest
<1>3. /\ QueueInv /\ CountsInv /\ Books /\ BlocksInv /\ \A q \in Requests : Counted(q)
  BY DEF Before, TokensInv
<1>4. /\ status \in [Requests -> Status] /\ tokens \in [Requests -> Int]
      /\ prompt \in [Requests -> Nat] /\ output \in [Requests -> Nat]
      /\ PromptLen[r] \in Nat \ {0} /\ MaxTokens[r] \in Nat \ {0}
  BY <1>3 DEF QueueInv, Places, CountsInv, RequestCounts, Books, SchedulerAssumption
<1>5. Ordered = {} /\ Ordered' = {} /\ Coming(r)' = Coming(r)
  BY <1>1, ComingFrame DEF Ordered, InCall
<1>6. \A q \in Requests \ {r} : Counted(q)'
  BY <1>1, <1>2, <1>3, <1>4, <1>5, QuietFrame DEF After, SameCounts, SamePlan
<1>7. Counted(r)'
  <2>1. /\ status'[r] \in {"waiting", "grammar"} /\ tokens'[r] = PromptLen[r]
        /\ prompt'[r] = PromptLen[r]
    BY <1>2, <1>4
  <2>2. Sane(r) /\ computed[r] = 0 /\ output[r] = 0
    BY <1>1, <1>3 DEF Counted, Sane
  <2>3. Sane(r)'
    BY <1>1, <1>4, <1>5, <2>1, <2>2 DEF Sane, Async, BlocksFor
  <2>4. QED
    BY <1>1, <1>5, <2>1, <2>3 DEF Counted, Exact, Failed
<1>8. QED
  BY <1>6, <1>7

LEMMA SendUpdateTokens ==
  ASSUME Before, After, NEW r \in Requests, SendUpdate(r)
  PROVE  \A q \in Requests : Counted(q)'
<1>1. /\ pc = "idle"
      /\ UNCHANGED <<pc, call, upd, flight, computed, spec, holders, chunk, inflight>>
      /\ UNCHANGED <<held, failedRecv, recompute, maxBatches>>
      /\ \/ UNCHANGED <<status, tokens, prompt, output>>
         \/ /\ status[r] = "streaming" /\ NextChunk(r, tokens[r], computed[r])
            /\ status' = [status EXCEPT ![r] = "waiting"]
  BY DEF SendUpdate, Outside, OutsideVars, kvVars, xferVars, miscVars, configVars
<1>2. /\ QueueInv /\ CountsInv /\ Books /\ BlocksInv /\ \A q \in Requests : Counted(q)
  BY DEF Before, TokensInv
<1>3. Ordered = {} /\ Ordered' = {} /\ Coming(r)' = Coming(r)
  BY <1>1, ComingFrame DEF Ordered, InCall
<1>4. CASE UNCHANGED <<status, tokens, prompt, output>>
  BY <1>1, <1>2, <1>3, <1>4, QuietFrame DEF After, SameCounts, SamePlan
<1>5. CASE /\ status[r] = "streaming" /\ NextChunk(r, tokens[r], computed[r])
           /\ status' = [status EXCEPT ![r] = "waiting"]
  <2>1. /\ tokens' = [tokens EXCEPT ![r] = Kept(tokens[r], computed[r]) + 1]
        /\ output' = [output EXCEPT ![r] = 0]
        /\ \A q \in Requests \ {r} : prompt'[q] = prompt[q]
    BY <1>2, <1>5 DEF NextChunk, Books
  <2>2. /\ status \in [Requests -> Status] /\ tokens \in [Requests -> Int]
        /\ output \in [Requests -> Nat] /\ computed[r] \in Int /\ MaxTokens[r] \in Nat \ {0}
    BY <1>2 DEF QueueInv, Places, CountsInv, RequestCounts, Books, SchedulerAssumption
  <2>3. \A q \in Requests \ {r} : Counted(q)'
    BY <1>1, <1>2, <1>3, <1>5, <2>1, <2>2, QuietFrame DEF After, SameCounts, SamePlan
  <2>4. r \in Sessions
    BY <1>2 DEF SendUpdate, Books
  <2>5. Sane(r) /\ computed[r] <= tokens[r] /\ computed[r] >= 0
    BY <1>2, <1>5 DEF Counted, Sane
  <2>6. status'[r] = "waiting" /\ tokens'[r] = computed[r] + 1 /\ output'[r] = 0
    BY <1>5, <2>1, <2>2, <2>5 DEF Kept
  <2>7. Sane(r)'
    BY <1>1, <1>3, <1>5, <2>2, <2>4, <2>5, <2>6 DEF Sane, Async, BlocksFor
  <2>8. QED
    BY <1>1, <1>3, <2>3, <2>6, <2>7 DEF Counted, Exact, Failed
<1>6. QED
  BY <1>1, <1>4, <1>5

LEMMA ResetTokens ==
  ASSUME Before, After, ResetPrefixCache
  PROVE  \A q \in Requests : Counted(q)'
<1> DEFINE S == {q \in Requests : InQueue(running, q)}
<1>1. /\ pc = "idle" /\ UNCHANGED <<pc, call, upd, flight, tokens, prompt, output, holders, chunk>>
      /\ UNCHANGED <<failedRecv, recompute, maxBatches>> /\ Preempt(S)
  BY DEF ResetPrefixCache, Outside, OutsideVars, xferVars, miscVars, configVars
<1>2. /\ QueueInv /\ CountsInv /\ Books /\ BlocksInv /\ \A q \in Requests : Counted(q)
  BY DEF Before, TokensInv
<1>3. Ordered = {} /\ Ordered' = {} /\ \A q \in Requests : Coming(q)' = Coming(q)
  BY <1>1, ComingFrame DEF Ordered, InCall
<1>4. \A q \in S : status[q] = "running"
  BY <1>1, <1>2, RangeQueue DEF QueueInv, Places, Place, Queues, InQueue, Leaving
<1> HIDE DEF S
<1>5. /\ held' = [q \in Requests |-> IF q \in S THEN {} ELSE held[q]]
      /\ inflight' = inflight \ S
      /\ status' = [q \in Requests |-> IF q \in S THEN "preempted" ELSE status[q]]
      /\ computed' = [q \in Requests |-> IF q \in S THEN 0 ELSE computed[q]]
  BY <1>1 DEF Preempt, FreeBlocks
<1>6. \A q \in Requests \ S : Counted(q)'
  BY <1>1, <1>2, <1>3, <1>5, QuietFrame DEF After, SameCounts, SamePlan
<1>7. ASSUME NEW q \in Requests, q \in S
      PROVE  Counted(q)'
  BY <1>1, <1>2, <1>3, <1>4, <1>5, <1>7, PreemptedCounts DEF Counted
<1>8. QED
  BY <1>6, <1>7

LEMMA RequestStepTokens ==
  ASSUME Before, After, RequestStep
  PROVE  TokensInv'
<1>1. /\ QueueInv /\ CountsInv /\ Books /\ BlocksInv /\ TransfersInv /\ BothSample
      /\ \A q \in Requests : Counted(q)
  BY DEF Before, TokensInv
<1>2. pc = "idle" /\ UNCHANGED <<pc, call, upd, flight, recompute, maxBatches>>
  BY DEF RequestStep, AddRequest, SendUpdate, EndSession, Abort, GrammarCompiled, Pause,
         ResetPrefixCache, Outside, OutsideVars, miscVars, configVars
<1>3. Ordered = {} /\ Ordered' = {} /\ ~ Settling /\ ~ Settling'
  BY <1>2 DEF Ordered, InCall, Settling
<1>4. ASSUME UNCHANGED <<status, countVars, chunk, inflight, held, failedRecv>>
      PROVE  \A q \in Requests : Counted(q)'
  BY <1>1, <1>2, <1>3, <1>4, QuietFrame DEF After, SameCounts, SamePlan, countVars
<1>5. ASSUME NEW r \in Requests, EndSession(r) \/ Abort(r)
      PROVE  \A q \in Requests : Counted(q)'
  <2>1. \/ UNCHANGED <<status, countVars, chunk, inflight, held, failedRecv>>
        \/ FinishRequest(r) /\ UNCHANGED <<countVars, chunk, configVars, OutsideVars>>
    BY <1>5 DEF EndSession, Abort, queueVars, kvVars, xferVars
  <2>2. status[r] # "absent"
    BY <1>1, <1>5 DEF EndSession, Abort, QueueInv, Places, Place
  <2>3. QED
    BY <1>2, <1>4, <2>1, <2>2, FinishRequestTokens
<1>6. ASSUME \/ \E r \in Requests : GrammarCompiled(r)
             \/ \E state \in PauseState : Pause(state)
      PROVE  \A q \in Requests : Counted(q)'
  BY <1>4, <1>6 DEF GrammarCompiled, Pause, queueVars, kvVars, xferVars
<1>7. \A q \in Requests : Counted(q)'
  BY <1>5, <1>6, AddRequestTokens, SendUpdateTokens, ResetTokens DEF RequestStep
<1>8. BothSample'
  <2> SUFFICES ASSUME Len(flight) = 2, NEW q \in flight[1].samples \cap flight[2].samples,
                      status'[q] # "finished", ~ Loose(q)'
               PROVE  output'[q] + 2 <= MaxTokens[q]
    BY <1>2 DEF BothSample
  <2>1. q \in Requests
    <3>1. flight[1].samples \subseteq ToSet(flight[1].order) /\ 1 \in 1 .. Len(flight)
      BY <1>1 DEF CountsInv, StepsCounts, StepCounts
    <3>2. QED
      BY <1>1, <3>1, FlightMembers DEF QueueInv
  <2>2. Async
    BY <1>1 DEF QueueInv, Flights, Calls, Async
  <2>3. ~ Loose(q)
    BY <1>2, <1>3 DEF Loose
  <2>4. output'[q] = output[q] /\ status[q] # "finished"
    <3>1. ASSUME NEW r \in Requests, AddRequest(r)
          PROVE  output'[q] = output[q] /\ status[q] # "finished"
      BY <1>1, <2>1, <3>1 DEF AddRequest, QueueInv, Places
    <3>2. ASSUME NEW r \in Requests, SendUpdate(r)
          PROVE  output'[q] = output[q] /\ status[q] # "finished"
      <4>1. r \in requests /\ r \in Sessions
        BY <1>1, <3>2 DEF SendUpdate, Books
      <4>2. QED
        BY <1>1, <2>2, <4>1 DEF QueueInv, Places, Place
    <3>3. ASSUME NEW r \in Requests, EndSession(r) \/ Abort(r)
          PROVE  output'[q] = output[q] /\ status[q] # "finished"
      <4>1. output' = output /\ (UNCHANGED status \/ FinishRequest(r))
        BY <3>3 DEF EndSession, Abort, countVars, queueVars
      <4>2. QED
        BY <1>1, <2>1, <4>1, FinishRequestOthers
    <3>4. ASSUME \/ \E r \in Requests : GrammarCompiled(r)
                 \/ \E state \in PauseState : Pause(state)
          PROVE  output'[q] = output[q] /\ status[q] # "finished"
      BY <3>4 DEF GrammarCompiled, Pause, queueVars, countVars
    <3>5. ASSUME ResetPrefixCache
          PROVE  output'[q] = output[q] /\ status[q] # "finished"
      BY <3>5 DEF ResetPrefixCache
    <3>6. QED
      BY <3>1, <3>2, <3>3, <3>4, <3>5 DEF RequestStep
  <2>5. QED
    BY <1>1, <2>3, <2>4 DEF BothSample
<1>9. QED
  BY <1>1, <1>7, <1>8, RequestStepBooks DEF TokensInv

-----------------------------------------------------------------------------
(* update_from_output begins.                                              *)

LEMMA BlocksNegative ==
  ASSUME NEW n \in Int, n < 0
  PROVE  BlocksFor(n) <= 0 /\ BlocksFor(n) \in Int
<1> DEFINE q == BlockSize
           u == n + q - 1
           x == u \div q
<1>1. q \in Nat \ {0}
  BY DEF SchedulerAssumption
<1>2. BlocksFor(n) = x
  BY DEF BlocksFor
<1> HIDE DEF q
<1>3. u \in Int /\ u < q - 1
  BY <1>1
<1> HIDE DEF u
<1>4. x \in Int /\ q * x <= u
  BY <1>1, <1>3
<1> HIDE DEF x
<1>5. x <= 0
  <2> SUFFICES ASSUME x >= 1
               PROVE  FALSE
    BY <1>4
  <2>1. x - 1 \in Nat /\ x = (x - 1) + 1
    BY <1>4
  <2>2. PICK d \in Nat : x = d + 1
    BY <2>1
  <2>3. q * x = q * d + q /\ q * d >= 0 /\ q * d \in Nat
    BY <1>1, <2>2
  <2>4. QED
    BY <1>1, <1>3, <1>4, <2>3
<1>6. QED
  BY <1>2, <1>4, <1>5

\* The requests whose counts the beginning of an update leaves alone.
LEMMA TakenOutKeeps ==
  ASSUME Before, After, BeginUpdate \/ FailLoad \/ FailSyncLoad, NEW r \in Requests,
         computed'[r] = computed[r], r \notin upd'.skip, r \in failedRecv' => r \in failedRecv
  PROVE  Counted(r)'
<1>1. QueueInv /\ CountsInv /\ BlocksInv /\ Counted(r)
  BY DEF Before, TokensInv
<1>2. /\ pc = "idle" /\ pc' = "update"
      /\ UNCHANGED <<status, tokens, prompt, output, holders, chunk, inflight, held, recompute,
                     maxBatches>>
  BY DEF BeginUpdate, FailLoad, FailSyncLoad, BeginStep, queueVars, miscVars, configVars
<1>3. Coming(r)' = Coming(r)
  BY <1>1, TakenOut
<1>4. /\ SamePlan(r) /\ (Loose(r) => Loose(r)')
  BY <1>2 DEF SamePlan, Ordered, InCall, Loose, Settling
<1>5. Untouched(r)
  BY <1>2, <1>3, <1>4 DEF Untouched, SameCounts
<1>6. QED
  BY <1>1, <1>2, <1>5, CountedFrame DEF After

LEMMA TakenOutBooks ==
  ASSUME Before, BeginUpdate \/ FailLoad \/ FailSyncLoad
  PROVE  Books'
<1>1. Books /\ QueueInv /\ CountsInv
  BY DEF Before, TokensInv
<1>2. /\ pc = "idle" /\ pc' = "update"
      /\ UNCHANGED <<prompt, output, spec, inflight, toSend, paused, call>>
  BY DEF BeginUpdate, FailLoad, FailSyncLoad, BeginStep, streamVars, miscVars
<1>3. /\ Len(flight) \in {1, 2} /\ Len(flight') = Len(flight) - 1
      /\ Len(flight) = 2 => flight'[1] = flight[2]
  BY <1>1, TakenOut
<1>4. \A i \in 1 .. Len(flight') : StepTokens(flight'[i])
  <2>1. CASE Len(flight) = 1
    BY <1>3, <2>1
  <2>2. CASE Len(flight) = 2
    <3>1. \A i \in 1 .. Len(flight') : i = 1
      BY <1>3, <2>2
    <3>2. StepTokens(flight[2])
      BY <1>1, <2>2 DEF Books, StepBook
    <3>3. QED
      BY <1>3, <2>2, <3>1, <3>2
  <2>3. QED
    BY <1>3, <2>1, <2>2
<1>5. Ordered = {} /\ Ordered' = {} /\ ~ InCall /\ ~ InCall'
  BY <1>2 DEF Ordered, InCall
<1>6. StepBook'
  BY <1>1, <1>2, <1>4, <1>5 DEF Books, StepBook, StepTokens, Bounded, Loads
<1>7. Bounded(upd'.step.spec)
  <2>1. upd'.step = Head(flight)
    BY DEF BeginUpdate, FailLoad, FailSyncLoad, BeginStep, NoUpdate
  <2>2. upd'.step = flight[1]
    BY <1>1, <2>1, TakenOut
  <2>3. 1 \in 1 .. Len(flight)
    BY <1>3
  <2>4. QED
    BY <1>1, <2>2, <2>3 DEF Books, StepBook, StepTokens
<1>8. QED
  BY <1>1, <1>2, <1>6, <1>7 DEF Books, Bounded

\* An asynchronous load fails: fewer tokens are computed than the request has.
LEMMA FailLoadTokens ==
  ASSUME Before, After, FailLoad
  PROVE  \A q \in Requests : Counted(q)'
<1>1. PICK r \in loading, k \in 0 .. MaxModelLen :
        /\ pc = "idle" /\ flight # <<>>
        /\ status[r] = "remote" /\ k < BlocksFor(computed[r])
        /\ computed' = [computed EXCEPT ![r] = k * BlockSize]
        /\ failedRecv' = IF recompute THEN failedRecv \cup {r} ELSE failedRecv
        /\ BeginStep({}, IF recompute THEN {} ELSE {r})
  BY DEF FailLoad
<1>2. /\ QueueInv /\ CountsInv /\ BlocksInv /\ TransfersInv /\ \A q \in Requests : Counted(q)
  BY DEF Before, TokensInv
<1>3. /\ r \in Requests /\ upd'.skip = {} /\ pc' = "update"
      /\ UNCHANGED <<status, tokens, prompt, output, holders, chunk, inflight, held, maxBatches>>
  BY <1>1, <1>2 DEF BeginStep, NoUpdate, queueVars, miscVars, configVars, TransfersInv, Transfers
<1>4. computed \in [Requests -> Int] /\ tokens \in [Requests -> Int] /\ k \in Nat
  BY <1>1, <1>2 DEF CountsInv, RequestCounts
<1>5. \A q \in Requests \ {r} : Counted(q)'
  <2>1. \A q \in Requests \ {r} : computed'[q] = computed[q] /\ (q \in failedRecv' => q \in failedRecv)
    BY <1>1, <1>4
  <2>2. QED
    BY <1>3, <2>1, TakenOutKeeps
<1>6. Sane(r) /\ computed[r] \in Nat
  BY <1>2, <1>3, <1>4 DEF Counted, Sane
<1>7. computed'[r] = k * BlockSize /\ computed'[r] \in Nat /\ computed'[r] < computed[r]
  BY <1>1, <1>3, <1>4, <1>6, BlocksShort
<1>8. Coming(r)' = Coming(r)
  BY <1>2, <1>3, TakenOut
<1>9. BlocksFor(computed'[r]) <= Cardinality(held'[r])
  <2>1. /\ BlocksFor(computed'[r]) \in Nat /\ BlocksFor(computed[r]) \in Nat
        /\ BlocksFor(computed'[r]) <= BlocksFor(computed[r])
    BY <1>6, <1>7, BlocksGrow
  <2>2. BlocksFor(computed[r]) <= Cardinality(held[r]) /\ Cardinality(held[r]) \in Nat
    BY <1>1, <1>2, <1>3, <1>6, HeldFinite DEF Sane
  <2>3. QED
    BY <1>3, <2>1, <2>2
<1>10. Sane(r)'
  BY <1>1, <1>3, <1>4, <1>6, <1>7, <1>8, <1>9 DEF Sane, Async
<1>11. r \notin Ordered' /\ status'[r] = "remote"
  BY <1>1, <1>3 DEF Ordered, InCall
<1>12. Counted(r)'
  BY <1>3, <1>10, <1>11 DEF Counted, Exact, Failed
<1>13. QED
  BY <1>5, <1>12

\* A synchronous load fails: what the step computed does not count either.
LEMMA FailSyncLoadTokens ==
  ASSUME Before, After, FailSyncLoad
  PROVE  \A q \in Requests : Counted(q)'
<1>1. PICK r \in Requests, k \in 0 .. MaxModelLen :
        /\ pc = "idle" /\ flight # <<>>
        /\ r \in Head(flight).loads /\ InQueue(running, r)
        /\ k < BlocksFor(computed[r] - Head(flight).sched[r]) /\ k * BlockSize < SyncRemote[r]
        /\ computed' = [computed EXCEPT ![r] = k * BlockSize]
        /\ BeginStep({r}, IF recompute THEN {} ELSE {r})
        /\ UNCHANGED failedRecv
  BY DEF FailSyncLoad
<1>2. /\ QueueInv /\ CountsInv /\ Books /\ BlocksInv /\ \A q \in Requests : Counted(q)
  BY DEF Before, TokensInv
<1>3. /\ upd'.skip = {r} /\ upd'.failing = IF recompute THEN {} ELSE {r}
  BY <1>1 DEF BeginStep, NoUpdate
<1>4. /\ pc' = "update"
      /\ UNCHANGED <<status, tokens, prompt, output, holders, chunk, inflight, held, maxBatches,
                     recompute>>
  BY <1>1 DEF BeginStep, queueVars, miscVars, configVars
<1>5. /\ computed \in [Requests -> Int] /\ tokens \in [Requests -> Int] /\ k \in Nat
      /\ SyncRemote[r] \in Nat
  BY <1>1, <1>2 DEF CountsInv, RequestCounts, SchedulerAssumption
<1>6. \A q \in Requests \ {r} : Counted(q)'
  <2>1. \A q \in Requests \ {r} : computed'[q] = computed[q] /\ q \notin upd'.skip
    BY <1>1, <1>3, <1>5
  <2>2. QED
    BY <1>1, <2>1, TakenOutKeeps
<1>7. /\ Coming(r)' = Coming(r) /\ Due(1, r) = Share(flight[1], r)
      /\ Head(flight) = flight[1] /\ Len(flight) \in {1, 2}
  BY <1>2, TakenOut
<1>8. Sane(r) /\ Exact(r) /\ computed[r] \in Nat
  BY <1>2, <1>5 DEF Counted, Sane
<1>9. status[r] = "running" /\ r \notin Ordered /\ r \notin Ordered'
  BY <1>1, <1>2, <1>4, RangeQueue
     DEF QueueInv, Places, Place, Queues, InQueue, Leaving, Ordered, InCall
<1>10. /\ flight[1].sched[r] \in Int /\ flight[1].spec[r] \in Nat
       /\ flight[1].spec[r] < flight[1].sched[r]
  <2>1. 1 \in 1 .. Len(flight)
    BY <1>7
  <2>2. StepTokens(flight[1]) /\ StepCounts(flight[1])
    BY <1>2, <2>1 DEF Books, StepBook, CountsInv, StepsCounts
  <2>3. QED
    BY <1>1, <1>7, <2>2 DEF StepTokens, Loads, StepCounts
<1> DEFINE n == computed[r] - flight[1].sched[r]
<1>11. n \in Nat /\ n < computed[r]
  <2>1. n \in Int /\ n < computed[r] /\ k < BlocksFor(n)
    BY <1>1, <1>5, <1>7, <1>8, <1>10
  <2> HIDE DEF n
  <2>2. ~ (n < 0)
    BY <1>5, <2>1, BlocksNegative
  <2>3. QED
    BY <2>1, <2>2
<1>12. computed'[r] = k * BlockSize /\ computed'[r] \in Nat /\ computed'[r] < n
  <2>1. k < BlocksFor(n)
    BY <1>1, <1>7
  <2> HIDE DEF n
  <2>2. k * BlockSize \in Nat /\ k * BlockSize < n
    BY <1>5, <1>11, <2>1, BlocksShort
  <2>3. QED
    BY <1>1, <1>5, <2>2
<1>13. BlocksFor(computed'[r]) <= Cardinality(held'[r])
  <2>1. /\ BlocksFor(computed'[r]) \in Nat /\ BlocksFor(computed[r]) \in Nat
        /\ BlocksFor(computed'[r]) <= BlocksFor(computed[r])
    BY <1>8, <1>11, <1>12, BlocksGrow
  <2>2. BlocksFor(computed[r]) <= Cardinality(held[r]) /\ Cardinality(held[r]) \in Nat
    BY <1>2, <1>8, <1>9, HeldFinite DEF Sane
  <2>3. QED
    BY <1>4, <2>1, <2>2
<1>14. Sane(r)'
  BY <1>4, <1>5, <1>7, <1>8, <1>9, <1>12, <1>13 DEF Sane, Async
<1>15. SyncRemote[r] > 0 /\ Loose(r)'
  BY <1>1, <1>3, <1>4, <1>5, <1>12 DEF Loose, Settling
<1>16. Pending(r) \in Int /\ Coming(r) \in Nat /\ Pending(r)' = Pending(r)
  <2>1. holders[r] \in Int /\ Due(1, r) \in Nat /\ Due(2, r) \in Nat /\ ToCome(r) = 0
    BY <1>1, <1>2, DuesAreNatural DEF QueueInv, ToCome, CountsInv, RequestCounts
  <2>2. QED
    BY <1>4, <1>7, <2>1 DEF Pending, Coming, Placeholders, Async
<1>17. computed[r] < tokens[r] + Pending(r) /\ computed[r] < MaxModelLen
  BY <1>8, <1>9 DEF Exact
<1>18. Exact(r)'
  <2>1. computed'[r] < tokens[r] + Pending(r) /\ computed'[r] < MaxModelLen
    BY <1>5, <1>8, <1>11, <1>12, <1>16, <1>17 DEF SchedulerAssumption
  <2>2. QED
    BY <1>4, <1>15, <1>16, <2>1 DEF Exact
<1>19. ASSUME ~ Async
       PROVE  computed'[r] < tokens[r]
  <2>1. Len(flight) = 1
    <3>1. maxBatches \in {1, 2} /\ Len(flight) <= maxBatches
      BY <1>2 DEF QueueInv, Flights, Calls
    <3>2. maxBatches = 1
      BY <1>19, <3>1 DEF Async
    <3>3. QED
      BY <1>7, <3>1, <3>2
  <2>2. Due(2, r) = 0 /\ ToCome(r) = 0
    BY <1>1, <2>1 DEF Due, ToCome
  <2>3. Coming(r) = Share(flight[1], r) /\ Pending(r) = Coming(r)
    <3>1. Share(flight[1], r) \in Nat
      BY <1>10 DEF Share
    <3>2. QED
      BY <1>7, <1>19, <2>2, <3>1 DEF Coming, Placeholders, Pending
  <2>4. Coming(r) <= 1 + flight[1].spec[r]
    BY <1>10, <2>3 DEF Share
  <2>5. QED
    BY <1>5, <1>10, <1>11, <1>12, <1>16, <1>17, <2>3, <2>4
<1>20. Failed(r)'
  BY <1>4, <1>15, <1>19 DEF Failed, Async
<1>21. QED
  BY <1>6, <1>9, <1>14, <1>18, <1>20 DEF Counted

LEMMA BeginTokens ==
  ASSUME Before, After, BeginUpdate \/ FailLoad \/ FailSyncLoad
  PROVE  TokensInv'
<1>1. \A q \in Requests : Counted(q)'
  <2>1. CASE BeginUpdate
    <3>1. upd'.skip = {} /\ UNCHANGED <<computed, failedRecv>>
      BY <2>1 DEF BeginUpdate, BeginStep, NoUpdate
    <3>2. QED
      BY <2>1, <3>1, TakenOutKeeps
  <2>2. QED
    BY <2>1, FailLoadTokens, FailSyncLoadTokens
<1>2. pc' # "idle"
  BY DEF BeginUpdate, FailLoad, FailSyncLoad, BeginStep
<1>3. QED
  BY <1>1, <1>2, TakenOutBooks, BothInCall DEF After, TokensInv

-----------------------------------------------------------------------------
(* The outputs of a step.                                                  *)

\* r gets m sampled tokens and keeps some of them.
OutputStep(r, m, kept) ==
  /\ MoreOutputs /\ r = Sampler /\ ~ Ignored(r)
  /\ m \in 1 .. (1 + upd.step.spec[r]) /\ kept \in 1 .. m /\ Settle(r, m, kept)
  /\ upd'.step = upd.step /\ upd'.todo = Tail(upd.todo)
  /\ upd'.skip = upd.skip /\ upd'.failing = upd.failing
  /\ UNCHANGED <<pc, call, flight, maxBatches, recompute, chunk, spec, failedRecv, paused, toSend>>

\* What an output step is about.
LEMMA OutputFacts ==
  ASSUME QueueInv, CountsInv, Books, NEW r \in Requests, NEW m, NEW kept, OutputStep(r, m, kept)
  PROVE  /\ pc = "update" /\ Ordered = {} /\ Ordered' = {} /\ r \in requests /\ r \notin upd.skip
         /\ status[r] \in {"running", "preempted"} /\ (~ Async => status[r] = "running")
         /\ \A q \in Requests \ {r} : Coming(q)' = Coming(q)
         /\ Coming(r) = Coming(r)' + 1 + upd.step.spec[r] /\ Coming(r)' \in Nat
         /\ ~ Async => Coming(r)' = 0
         /\ upd.step.spec \in [Requests -> Nat] /\ upd.step.spec[r] <= NumSpecTokens
         /\ m \in Int /\ m >= 1 /\ m <= 1 + upd.step.spec[r]
         /\ kept \in Int /\ kept >= 1 /\ kept <= m
<1>1. /\ pc = "update" /\ r \in ToSet(upd.todo) /\ status[r] \in {"running", "preempted"}
      /\ r \in requests /\ r \in upd.step.samples /\ r \notin upd.skip /\ pc' = "update"
  BY OutputOf DEF OutputStep
<1>2. StepCounts(upd.step) /\ upd.step.spec \in [Requests -> Nat]
      /\ upd.step.spec[r] <= NumSpecTokens
  BY <1>1 DEF CountsInv, StepsCounts, StepCounts, Books, Bounded
<1>3. /\ \A q \in Requests \ {r} : Coming(q)' = Coming(q)
      /\ Coming(r) = Coming(r)' + Share(upd.step, r) /\ Coming(r)' \in Nat
  BY <1>1, NextComing DEF OutputStep
<1>4. Share(upd.step, r) = 1 + upd.step.spec[r]
  BY <1>1 DEF Share
<1>5. /\ m \in Int /\ m >= 1 /\ m <= 1 + upd.step.spec[r] /\ kept \in Int /\ kept >= 1 /\ kept <= m
  BY <1>2 DEF OutputStep
<1>6. ~ Async => status[r] = "running"
  BY <1>1 DEF QueueInv, Updates, InStep
<1>7. ~ Async => Coming(r)' = 0
  <2> SUFFICES ASSUME ~ Async
               PROVE  Coming(r)' = 0
    OBVIOUS
  <2>1. Len(flight) = 0
    <3>1. Len(flight) \in Nat /\ Len(flight) < maxBatches /\ (maxBatches = 1 \/ maxBatches = 2)
      BY <1>1 DEF QueueInv, Flights, Calls
    <3>2. maxBatches = 1
      BY <3>1 DEF Async
    <3>3. QED
      BY <3>1, <3>2
  <2>2. Len(flight') = 0
    BY <2>1 DEF OutputStep
  <2>3. Due(1, r)' = 0 /\ Due(2, r)' = 0
    BY <2>2 DEF Due
  <2>4. r \notin ToSet(upd'.todo)
    BY NextOutput DEF OutputStep
  <2>5. QED
    BY <2>3, <2>4 DEF Coming, Placeholders, ToCome
<1>8. Ordered = {} /\ Ordered' = {}
  BY <1>1 DEF Ordered, InCall
<1>9. QED
  <2>1. Coming(r) = Coming(r)' + 1 + upd.step.spec[r]
    BY <1>2, <1>3, <1>4
  <2>2. QED
    BY <1>1, <1>2, <1>3, <1>5, <1>6, <1>7, <1>8, <2>1

\* Rejected drafts are not computed.
LEMMA SettledBound ==
  ASSUME NEW r \in Requests, RequestCounts, computed[r] >= 0, upd.step.spec \in [Requests -> Nat],
         NEW m \in Int, m >= 1, m <= 1 + upd.step.spec[r], NEW kept, Settle(r, m, kept)
  PROVE  /\ computed'[r] = Settled(r, m) /\ computed'[r] \in Int /\ computed'[r] <= computed[r]
         /\ computed[r] = 0 => computed'[r] = 0
         /\ computed[r] > 0 => computed'[r] = computed[r] - upd.step.spec[r] + m - 1
         /\ computed[r] >= upd.step.spec[r] - m + 1 => computed'[r] >= 0
<1> DEFINE s == upd.step.spec[r]
           c == computed[r]
<1>1. s \in Nat /\ c \in Int /\ c >= 0 /\ m <= 1 + s
  BY DEF RequestCounts
<1>2. computed'[r] = Settled(r, m)
  BY DEF Settle, RequestCounts
<1>3. Settled(r, m) = IF s > 0 /\ c > 0 THEN c - (s - (m - 1)) ELSE c
  BY DEF Settled, Rejected
<1>4. SUFFICES /\ computed'[r] \in Int /\ computed'[r] <= c /\ (c = 0 => computed'[r] = 0)
               /\ (c > 0 => computed'[r] = c - s + m - 1) /\ (c >= s - m + 1 => computed'[r] >= 0)
  BY <1>2
<1> HIDE DEF s, c
<1>5. CASE s > 0 /\ c > 0
  BY <1>1, <1>2, <1>3, <1>5
<1>6. CASE s = 0
  BY <1>1, <1>2, <1>3, <1>6
<1>7. CASE c = 0
  BY <1>1, <1>2, <1>3, <1>7
<1>8. QED
  BY <1>1, <1>5, <1>6, <1>7

\* Nor are they to come; what is kept is not to come any more.
LEMMA SettledHolders ==
  ASSUME NEW r \in Requests, RequestCounts, upd.step.spec \in [Requests -> Nat],
         NEW m \in Int, m >= 1, m <= 1 + upd.step.spec[r], NEW kept \in Int, kept >= 1, kept <= m,
         Settle(r, m, kept), NEW c \in Nat, holders[r] \in Int,
         Async => c + 1 + upd.step.spec[r] <= holders[r], ~ Async => holders[r] = 0
  PROVE  /\ holders'[r] \in Int /\ holders'[r] >= 0
         /\ Async => holders'[r] = holders[r] - upd.step.spec[r] + m - 1 - kept
         /\ Async => c <= holders'[r]
<1> DEFINE s == upd.step.spec[r]
           h == holders[r]
           come == IF s > 0 /\ h > 0 THEN h - (s - (m - 1)) ELSE h
           left == come - (IF Async THEN kept ELSE 0)
<1>1. holders' = [holders EXCEPT ![r] = left]
  BY Zenon DEF Settle, Rejected
<1>2. s \in Nat /\ h \in Int /\ m <= 1 + s /\ (Async => c + 1 + s <= h) /\ (~ Async => h = 0)
  OBVIOUS
<1>3. holders'[r] = left
  BY <1>1 DEF RequestCounts
<1>4. SUFFICES /\ left \in Int /\ left >= 0
               /\ Async => left = h - s + m - 1 - kept
               /\ Async => c <= left
  BY <1>3
<1> HIDE DEF s, h
<1>5. CASE ~ Async
  <2>1. come = 0
    BY <1>2, <1>5
  <2>2. left = come
    BY <1>5, <2>1
  <2>3. QED
    BY <1>5, <2>1, <2>2
<1>6. CASE Async
  <2>1. left = come - kept
    BY <1>6
  <2>2. h > 0
    BY <1>2, <1>6
  <2>3. come = h - s + m - 1
    <3>1. CASE s > 0
      BY <1>2, <2>2, <3>1
    <3>2. CASE s = 0
      BY <1>2, <3>2
    <3>3. QED
      BY <1>2, <3>1, <3>2
  <2>4. QED
    BY <1>2, <1>6, <2>1, <2>3
<1>7. QED
  BY <1>5, <1>6

\* What is computed of r after an output, next to what it has and what is to come.
SettledRight(r, m, kept) ==
  /\ computed'[r] = Settled(r, m) /\ computed'[r] \in Int /\ computed'[r] >= 0
  /\ computed'[r] <= computed[r]
  /\ holders'[r] \in Int /\ holders'[r] >= 0 /\ (Async => Coming(r)' <= holders'[r])
  /\ status[r] = "preempted" => computed'[r] = 0
  /\ status[r] = "running" =>
       /\ kept = m => computed'[r] < tokens[r] + m + Pending(r)'
       /\ ~ Async => computed'[r] < tokens[r] + m
       /\ ~ Loose(r) => ~ chunk[r] /\ computed'[r] = tokens[r] + m + Coming(r)' - 1

LEMMA SettledTokens ==
  ASSUME QueueInv, CountsInv, HoldersInv, Books, Fitting, NEW r \in Requests, Counted(r),
         NEW m, NEW kept, OutputStep(r, m, kept)
  PROVE  SettledRight(r, m, kept)
<1> DEFINE s == upd.step.spec[r]
           t == tokens[r]
           c == computed[r]
           h == holders[r]
           g == Coming(r)'
           d == computed'[r]
<1>1. /\ pc = "update" /\ Ordered = {} /\ status[r] \in {"running", "preempted"}
      /\ Coming(r) = g + 1 + s /\ g \in Nat /\ (~ Async => g = 0)
      /\ upd.step.spec \in [Requests -> Nat] /\ s <= NumSpecTokens
      /\ m \in Int /\ m >= 1 /\ m <= 1 + s /\ kept \in Int /\ kept >= 1 /\ kept <= m
  BY OutputFacts
<1>2. /\ RequestCounts /\ t \in Int /\ c \in Int /\ h \in Int /\ s \in Nat /\ Settle(r, m, kept)
  BY <1>1 DEF CountsInv, RequestCounts, OutputStep
<1>3. Sane(r) /\ Exact(r) /\ c >= 0 /\ t > 0
  BY <1>1 DEF Counted, Sane
<1>4. /\ d = Settled(r, m) /\ d \in Int /\ d <= c /\ (c = 0 => d = 0)
      /\ (c > 0 => d = c - s + m - 1) /\ (c >= s - m + 1 => d >= 0)
  BY <1>1, <1>2, <1>3, SettledBound
<1>5. Async => g + 1 + s <= h
  BY <1>1, <1>3 DEF Sane
<1>6. ~ Async => h = 0
  BY DEF HoldersInv
<1>7. /\ holders'[r] \in Int /\ holders'[r] >= 0
      /\ Async => holders'[r] = h - s + m - 1 - kept
      /\ Async => g <= holders'[r]
  <2> HIDE DEF g
  <2>1. Async => g + 1 + upd.step.spec[r] <= holders[r]
    BY <1>5
  <2>2. ~ Async => holders[r] = 0
    BY <1>6
  <2>3. holders[r] \in Int /\ m <= 1 + upd.step.spec[r]
    BY <1>1, <1>2
  <2>4. QED
    BY <1>1, <1>2, <2>1, <2>2, <2>3, SettledHolders
<1>8. Pending(r)' = IF Async THEN holders'[r] ELSE g
  BY DEF Pending, OutputStep, Async
<1>9. Pending(r) = IF Async THEN h ELSE g + 1 + s
  BY <1>1 DEF Pending
<1>10. CASE status[r] = "preempted"
  <2>1. c = 0
    <3>1. Coming(r) > 0
      BY <1>1, <1>2
    <3>2. QED
      BY <1>3, <1>10, <3>1 DEF Sane
  <2>2. d = 0
    BY <1>4, <2>1
  <2>3. QED
    BY <1>4, <1>7, <1>10, <2>2 DEF SettledRight
<1>11. CASE status[r] = "running"
  <2>1. c < t + Pending(r)
    BY <1>1, <1>3, <1>11 DEF Exact
  <2>2. ASSUME ~ Loose(r)
        PROVE  ~ chunk[r] /\ c = t + g + s
    <3>1. Coming(r) # 0
      BY <1>1, <1>2
    <3>2. ~ chunk[r] /\ c = t + Coming(r) - 1
      BY <1>1, <1>3, <1>11, <2>2, <3>1 DEF Exact
    <3> HIDE DEF t, c, g, s
    <3>3. QED
      BY <1>1, <1>2, <3>2
  <2>3. d >= 0
    <3>1. CASE Loose(r)
      <4>1. NumSpecTokens <= 1 /\ NumSpecTokens \in Nat
        BY <3>1 DEF Loose, Fitting, DraftsFit, SchedulerAssumption
      <4> HIDE DEF s, c, d
      <4>2. s <= 1
        BY <1>1, <1>2, <4>1
      <4>3. CASE c = 0
        BY <1>4, <4>3
      <4>4. CASE c > 0
        <5>1. c >= s - m + 1
          BY <1>1, <1>2, <4>2, <4>4
        <5>2. QED
          BY <1>4, <5>1
      <4>5. QED
        BY <1>2, <1>3, <4>3, <4>4
    <3>2. CASE ~ Loose(r)
      <4>1. c = t + g + s
        BY <2>2, <3>2
      <4> HIDE DEF s, c, d, t, g
      <4>2. c >= s - m + 1
        BY <1>1, <1>2, <1>3, <4>1
      <4>3. QED
        BY <1>4, <4>2
    <3>3. QED
      BY <3>1, <3>2
  <2>4. ~ Loose(r) => d = t + m + g - 1
    <3> HIDE DEF s, c, d, t, g
    <3>1. QED
      BY <1>1, <1>2, <1>3, <1>4, <2>2
  <2>5. d < t + m + (Pending(r) - 1 - s) /\ Pending(r) \in Int /\ Pending(r) >= g + 1 + s
    <3>1. Pending(r) \in Int /\ Pending(r) >= g + 1 + s
      <4> HIDE DEF s, g, h
      <4>1. CASE Async
        BY <1>1, <1>2, <1>5, <1>9, <4>1
      <4>2. CASE ~ Async
        BY <1>1, <1>2, <1>9, <4>2
      <4>3. QED
        BY <4>1, <4>2
    <3> DEFINE p == Pending(r)
    <3> HIDE DEF s, c, d, t, g, p
    <3>2. p \in Int /\ p >= g + 1 + s /\ c < t + p
      BY <2>1, <3>1 DEF p
    <3>3. d < t + m + (p - 1 - s)
      BY <1>1, <1>2, <1>3, <1>4, <3>2
    <3>4. QED
      BY <3>1, <3>3 DEF p
  <2>6. kept = m => Pending(r)' = Pending(r) - 1 - s
    <3> HIDE DEF s, g, h
    <3>1. CASE Async
      BY <1>1, <1>2, <1>7, <1>8, <1>9, <3>1
    <3>2. CASE ~ Async
      BY <1>1, <1>2, <1>8, <1>9, <3>2
    <3>3. QED
      BY <3>1, <3>2
  <2>7. ~ Async => d < t + m
    <3>1. ~ Async => Pending(r) = 1 + s
      <4> HIDE DEF s, g, h
      <4>1. QED
        BY <1>1, <1>2, <1>9
    <3> HIDE DEF s, d, t
    <3>2. QED
      BY <1>1, <1>2, <2>5, <3>1
  <2>8. QED
    BY <1>4, <1>7, <1>11, <2>2, <2>3, <2>4, <2>5, <2>6, <2>7 DEF SettledRight
<1>12. QED
  BY <1>1, <1>10, <1>11

\* An output concerns one request.
LEMMA OutputLeavesOthers ==
  ASSUME QueueInv, CountsInv, BlocksInv, BlocksInv', Books, NEW r \in Requests,
         NEW m, NEW kept, OutputStep(r, m, kept), RequestCounts,
         \A q \in Requests \ {r} :
           /\ Counted(q) /\ status'[q] = status[q] /\ tokens'[q] = tokens[q]
           /\ prompt'[q] = prompt[q] /\ output'[q] = output[q] /\ held'[q] = held[q]
           /\ q \in inflight => q \in inflight'
  PROVE  \A q \in Requests \ {r} : Counted(q)'
<1>1. /\ Ordered = {} /\ Ordered' = {} /\ \A q \in Requests \ {r} : Coming(q)' = Coming(q)
  BY OutputFacts
<1>2. \A q \in Requests \ {r} : computed'[q] = computed[q] /\ holders'[q] = holders[q]
  BY DEF OutputStep, Settle, RequestCounts
<1>3. /\ UNCHANGED <<pc, maxBatches, recompute, chunk, failedRecv>>
      /\ upd'.skip = upd.skip /\ upd'.failing = upd.failing
  BY DEF OutputStep
<1>4. \A q \in Requests \ {r} : Loose(q)' <=> Loose(q)
  BY <1>3 DEF Loose, Settling
<1>5. \A q \in Requests \ {r} : Untouched(q)
  BY <1>1, <1>2, <1>3, <1>4 DEF Untouched, SameCounts, SamePlan
<1>6. QED
  BY <1>3, <1>5, CountedFrame

LEMMA OutputBooks ==
  ASSUME Books, NEW r, NEW m, NEW kept, OutputStep(r, m, kept), pc = "update",
         inflight' \subseteq inflight, prompt' \in [Requests -> Nat], output' \in [Requests -> Nat]
  PROVE  Books'
<1>1. /\ UNCHANGED <<pc, call, flight, spec, paused, toSend>> /\ upd'.step = upd.step
  BY DEF OutputStep
<1>2. StepBook'
  BY <1>1, StepBookFrame DEF Books, InCall
<1>3. QED
  BY <1>1, <1>2 DEF Books, Bounded

\* What the steps of this section have in common.
LEMMA OutputActions ==
  ASSUME QueueInv, NEW r \in Requests, NEW m, NEW kept, Settle(r, m, kept),
         m \in 1 .. (1 + upd.step.spec[r]), kept \in 1 .. m,
         OutputGoesOn(r) \/ OutputFinishes(r) \/ SessionGoesOn(r) \/ SessionPauses(r)
  PROVE  OutputStep(r, m, kept)
<1>1. /\ MoreOutputs /\ r = Sampler /\ ~ Ignored(r) /\ UpdateStep /\ pc' = "update"
  BY DEF OutputGoesOn, OutputFinishes, SessionGoesOn, SessionPauses, UpdateStep, MoreOutputs
<1>2. /\ upd'.step = upd.step /\ upd'.todo = Tail(upd.todo)
      /\ upd'.skip = upd.skip /\ upd'.failing = upd.failing
  BY <1>1, OutputKeepsUpdate
<1>3. UNCHANGED <<pc, call, flight, maxBatches, recompute, chunk, spec, failedRecv, paused, toSend>>
  BY DEF OutputGoesOn, OutputFinishes, SessionGoesOn, SessionPauses, streamVars, xferVars,
         miscVars, configVars
<1>4. QED
  BY <1>1, <1>2, <1>3 DEF OutputStep

\* Fewer computed tokens need no more blocks.
LEMMA SettledBlocks ==
  ASSUME BlocksInv, NEW r \in Requests, Sane(r), status[r] # "finished", computed[r] \in Nat,
         computed'[r] \in Int, computed'[r] >= 0, computed'[r] <= computed[r], held'[r] = held[r]
  PROVE  BlocksFor(computed'[r]) <= Cardinality(held'[r])
<1>1. computed'[r] \in Nat
  OBVIOUS
<1>2. /\ BlocksFor(computed'[r]) \in Nat /\ BlocksFor(computed[r]) \in Nat
      /\ BlocksFor(computed'[r]) <= BlocksFor(computed[r])
  BY <1>1, BlocksGrow
<1>3. BlocksFor(computed[r]) <= Cardinality(held[r]) /\ Cardinality(held[r]) \in Nat
  BY HeldFinite DEF Sane
<1>4. QED
  BY <1>2, <1>3

\* The request goes on.
LEMMA GoesOnTokens ==
  ASSUME Before, After, Fitting, NEW r \in Requests, OutputGoesOn(r)
  PROVE  TokensInv'
<1>1. /\ QueueInv /\ CountsInv /\ Books /\ BlocksInv /\ HoldersInv /\ RequestCounts
      /\ \A q \in Requests : Counted(q)
  BY DEF Before, TokensInv, CountsInv
<1>2. PICK m \in 1 .. (1 + upd.step.spec[r]) :
        ~ (\E i \in 1 .. m : AtLimit(r, i)) /\ AppendOutput(r, m) /\ Settle(r, m, m)
  BY DEF OutputGoesOn
<1>3. m \in 1 .. m
  OBVIOUS
<1>4. OutputStep(r, m, m)
  BY <1>1, <1>2, <1>3, OutputActions
<1>5. /\ pc = "update" /\ Ordered' = {} /\ r \notin upd.skip /\ status[r] \in {"running", "preempted"}
      /\ Coming(r) = Coming(r)' + 1 + upd.step.spec[r] /\ Coming(r)' \in Nat
      /\ upd.step.spec \in [Requests -> Nat] /\ m \in Int /\ m >= 1
  BY <1>1, <1>4, OutputFacts
<1>6. SettledRight(r, m, m)
  BY <1>1, <1>4, SettledTokens
<1>7. /\ tokens' = [tokens EXCEPT ![r] = @ + m] /\ output' = [output EXCEPT ![r] = @ + m]
      /\ UNCHANGED <<status, prompt, inflight, held>>
  BY <1>2 DEF OutputGoesOn, AppendOutput, queueVars, kvVars
<1>8. /\ tokens \in [Requests -> Int] /\ output \in [Requests -> Nat] /\ tokens[r] \in Int
      /\ prompt \in [Requests -> Nat] /\ output[r] \in Nat /\ computed[r] \in Nat /\ MaxTokens[r] \in Nat
      /\ MaxModelLen \in Nat
  BY <1>1 DEF RequestCounts, Books, Counted, Sane, SchedulerAssumption
<1>9. tokens'[r] = tokens[r] + m /\ output'[r] = output[r] + m /\ prompt'[r] = prompt[r]
      /\ status'[r] = status[r] /\ output' \in [Requests -> Nat]
  BY <1>3, <1>5, <1>7, <1>8
<1>10. \A q \in Requests \ {r} : Counted(q)'
  BY <1>1, <1>4, <1>7, <1>8, OutputLeavesOthers DEF After
<1>11. output'[r] < MaxTokens[r]
  BY <1>2, <1>3, <1>5, <1>8, <1>9 DEF AtLimit
<1>12. BlocksFor(computed'[r]) <= Cardinality(held'[r])
  BY <1>1, <1>5, <1>6, <1>7, <1>8, SettledBlocks DEF Counted, SettledRight
<1>13. Sane(r)'
  <2>1. Sane(r) /\ Async' = Async /\ tokens[r] > 0 /\ tokens'[r] > 0
    BY <1>1, <1>4, <1>5, <1>8, <1>9 DEF Counted, Sane, OutputStep, Async
  <2>2. r \notin Sessions => tokens'[r] = prompt'[r] + output'[r] /\ prompt'[r] = PromptLen[r]
    BY <1>5, <1>8, <1>9, <2>1 DEF Sane
  <2>3. QED
    BY <1>5, <1>6, <1>9, <1>11, <1>12, <2>1, <2>2 DEF Sane, SettledRight
<1>14. Exact(r)'
  <2> SUFFICES ASSUME status[r] = "running"
               PROVE  /\ computed'[r] < tokens'[r] + Pending(r)' /\ computed'[r] < MaxModelLen
                      /\ ~ Loose(r)' =>
                           IF chunk'[r] THEN r \in inflight' /\ Coming(r)' = 0
                                        ELSE computed'[r] = tokens'[r] + Coming(r)' - 1
    BY <1>4, <1>9 DEF Exact, OutputStep
  <2>1. computed[r] < MaxModelLen
    BY <1>1, <1>4, <1>5, OutputFacts DEF Counted, Exact
  <2>2. computed'[r] < MaxModelLen
    BY <1>6, <1>8, <2>1 DEF SettledRight
  <2>3. computed'[r] < tokens'[r] + Pending(r)'
    BY <1>6, <1>9 DEF SettledRight
  <2>4. (Loose(r)' <=> Loose(r)) /\ chunk'[r] = chunk[r]
    BY <1>4 DEF OutputStep, Loose, Settling
  <2>5. QED
    BY <1>6, <1>9, <2>2, <2>3, <2>4 DEF SettledRight
<1>15. Failed(r)' /\ r \notin Ordered'
  BY <1>4, <1>5 DEF Failed, OutputStep
<1>16. Books'
  BY <1>1, <1>4, <1>5, <1>7, <1>8, <1>9, OutputBooks
<1>17. \A q \in Requests : Counted(q)'
  BY <1>10, <1>13, <1>14, <1>15 DEF Counted
<1>18. pc' # "idle"
  BY <1>4, <1>5 DEF OutputStep
<1>19. QED
  BY <1>16, <1>17, <1>18, BothInCall DEF After, TokensInv

\* The request stops, and keeps what it had got before the limit.
LEMMA StopsTokens ==
  ASSUME QueueInv, CountsInv, Books, NEW r \in Requests, NEW m, NEW kept,
         OutputStep(r, m, kept), Stops(r, m, kept), AppendOutput(r, kept)
  PROVE  /\ tokens'[r] = tokens[r] + kept /\ output'[r] = output[r] + kept
         /\ output' \in [Requests -> Nat]
         /\ \A q \in Requests \ {r} : tokens'[q] = tokens[q] /\ output'[q] = output[q]
         /\ output[r] < MaxTokens[r] => output'[r] <= MaxTokens[r]
<1>1. /\ kept \in Int /\ kept >= 1
  BY OutputFacts
<1>2. /\ tokens \in [Requests -> Int] /\ output \in [Requests -> Nat] /\ output[r] \in Nat
      /\ tokens' = [tokens EXCEPT ![r] = @ + kept] /\ output' = [output EXCEPT ![r] = @ + kept]
      /\ MaxTokens[r] \in Nat
  BY DEF CountsInv, RequestCounts, Books, AppendOutput, SchedulerAssumption
<1>3. output'[r] = output[r] + kept
  BY <1>2
<1>4. output[r] < MaxTokens[r] => output[r] + kept <= MaxTokens[r]
  <2>1. CASE kept = 1
    BY <1>2, <2>1
  <2>2. CASE kept > 1
    <3>1. kept - 1 \in 1 .. (kept - 1)
      BY <1>1, <2>2
    <3>2. ~ AtLimit(r, kept - 1)
      BY <3>1 DEF Stops
    <3>3. QED
      BY <1>1, <1>2, <3>2 DEF AtLimit
  <2>3. QED
    BY <1>1, <2>1, <2>2
<1>5. QED
  BY <1>1, <1>2, <1>3, <1>4

LEMMA OutputFinishesTokens ==
  ASSUME Before, After, Fitting, NEW r \in Requests, OutputFinishes(r)
  PROVE  TokensInv'
<1>1. /\ QueueInv /\ CountsInv /\ Books /\ BlocksInv /\ HoldersInv /\ RequestCounts
      /\ \A q \in Requests : Counted(q)
  BY DEF Before, TokensInv, CountsInv
<1>2. PICK m, kept \in 1 .. (1 + NumSpecTokens) :
        Stops(r, m, kept) /\ AppendOutput(r, kept) /\ Settle(r, m, kept)
  BY DEF OutputFinishes
<1>3. OutputStep(r, m, kept)
  BY <1>1, <1>2, OutputActions DEF Stops
<1>4. /\ pc = "update" /\ Ordered' = {} /\ status[r] \in {"running", "preempted"}
      /\ kept \in Int /\ kept >= 1
  BY <1>1, <1>3, OutputFacts
<1>5. SettledRight(r, m, kept)
  BY <1>1, <1>3, SettledTokens
<1>6. /\ tokens'[r] = tokens[r] + kept /\ output'[r] = output[r] + kept
      /\ output' \in [Requests -> Nat]
      /\ \A q \in Requests \ {r} : tokens'[q] = tokens[q] /\ output'[q] = output[q]
  BY <1>1, <1>2, <1>3, StopsTokens
<1>7. FreeRequests({r}, {}) /\ UNCHANGED prompt
  BY DEF OutputFinishes
<1>8. /\ status' = [q \in Requests |-> IF q = r THEN "finished" ELSE status[q]]
      /\ inflight' = inflight \ {r} /\ \A q \in Requests \ {r} : held'[q] = held[q]
  BY <1>7 DEF FreeRequests, FreeBlocks
<1>9. \A q \in Requests \ {r} : Counted(q)'
  BY <1>1, <1>3, <1>6, <1>7, <1>8, OutputLeavesOthers DEF After
<1>10. Sane(r)'
  <2>1. /\ Sane(r) /\ tokens[r] \in Int /\ tokens[r] > 0 /\ prompt[r] \in Nat /\ output[r] \in Nat
    BY <1>1, <1>4 DEF Counted, Sane, RequestCounts, Books
  <2>2. tokens'[r] > 0
    BY <1>4, <1>6, <2>1
  <2>3. r \notin Sessions => tokens'[r] = prompt'[r] + output'[r] /\ prompt'[r] = PromptLen[r]
    BY <1>4, <1>6, <1>7, <2>1 DEF Sane
  <2>4. status'[r] = "finished"
    BY <1>8
  <2>5. QED
    BY <1>5, <2>2, <2>3, <2>4 DEF Sane, SettledRight
<1>11. Counted(r)'
  BY <1>4, <1>8, <1>10 DEF Counted, Exact, Failed
<1>12. Books'
  BY <1>1, <1>3, <1>4, <1>6, <1>7, <1>8, OutputBooks DEF Books
<1>13. pc' # "idle"
  BY <1>3, <1>4 DEF OutputStep
<1>14. QED
  BY <1>9, <1>11, <1>12, <1>13, BothInCall DEF After, TokensInv

\* A session waits for its next input, or goes on with it: what is computed of it has
\* its tokens, as the drafts it was given are one at most.
LEMMA SessionTokens ==
  ASSUME Before, Fitting, NEW r \in Requests, r \in Sessions, NEW m, NEW kept,
         OutputStep(r, m, kept)
  PROVE  /\ ~ Async /\ status[r] = "running" /\ SettledRight(r, m, kept)
         /\ Settled(r, m) \in Int /\ Settled(r, m) >= 0 /\ Settled(r, m) <= tokens[r] + kept
<1>1. /\ QueueInv /\ CountsInv /\ Books /\ HoldersInv /\ RequestCounts /\ Counted(r)
  BY DEF Before, TokensInv, CountsInv
<1>2. /\ r \in requests /\ (~ Async => status[r] = "running")
      /\ upd.step.spec \in [Requests -> Nat] /\ upd.step.spec[r] <= NumSpecTokens
      /\ m \in Int /\ m >= 1 /\ m <= 1 + upd.step.spec[r] /\ kept \in Int /\ kept >= 1
  BY <1>1, OutputFacts
<1>3. ~ Async
  BY <1>1, <1>2 DEF QueueInv, Places, Place
<1>4. SettledRight(r, m, kept)
  BY <1>1, SettledTokens
<1>5. m <= 2
  <2>1. NumSpecTokens <= 1 /\ NumSpecTokens \in Nat
    BY DEF Fitting, DraftsFit, SchedulerAssumption
  <2>2. QED
    BY <1>2, <2>1
<1>6. tokens[r] \in Int
  BY <1>1 DEF RequestCounts
<1>7. /\ Settled(r, m) \in Int /\ Settled(r, m) >= 0 /\ Settled(r, m) < tokens[r] + m
  BY <1>2, <1>3, <1>4 DEF SettledRight
<1> DEFINE d == Settled(r, m)
<1> HIDE DEF d
<1>8. d \in Int /\ d < tokens[r] + m => d <= tokens[r] + kept
  BY <1>2, <1>5, <1>6
<1>9. QED
  BY <1>2, <1>3, <1>4, <1>7, <1>8 DEF d

\* A session in its next place, with what that asks of its counts.
LEMMA SessionStopTokens ==
  ASSUME Before, After, NEW r \in Sessions, NEW m, NEW kept, OutputStep(r, m, kept),
         SettledRight(r, m, kept), ~ Async, NEW st \in {"waiting", "streaming"},
         status' = [status EXCEPT ![r] = st], UNCHANGED <<inflight, held>>,
         tokens'[r] > 0, output'[r] \in Nat, output' \in [Requests -> Nat],
         st = "waiting" => computed'[r] < tokens'[r] /\ output'[r] < MaxTokens[r],
         st = "streaming" => computed'[r] <= tokens'[r] /\ output'[r] <= MaxTokens[r],
         prompt' \in [Requests -> Nat],
         \A q \in Requests \ {r} : /\ tokens'[q] = tokens[q] /\ output'[q] = output[q]
                                   /\ prompt'[q] = prompt[q]
  PROVE  TokensInv'
<1>1. /\ QueueInv /\ CountsInv /\ Books /\ BlocksInv /\ HoldersInv /\ RequestCounts
      /\ \A q \in Requests : Counted(q)
  BY DEF Before, TokensInv, CountsInv
<1>2. r \in Requests
  BY DEF SchedulerAssumption
<1>3. /\ pc = "update" /\ Ordered' = {} /\ status[r] = "running" /\ r \notin upd.skip
  BY <1>1, <1>2, OutputFacts
<1>4. /\ status \in [Requests -> Status] /\ status'[r] = st
      /\ \A q \in Requests \ {r} : status'[q] = status[q]
  BY <1>1, <1>2 DEF QueueInv, Places
<1>5. \A q \in Requests \ {r} : Counted(q)'
  BY <1>1, <1>2, <1>4, OutputLeavesOthers DEF After
<1>6. BlocksFor(computed'[r]) <= Cardinality(held'[r])
  <2>1. computed[r] \in Nat
    BY <1>1, <1>2 DEF Counted, Sane, RequestCounts
  <2>2. QED
    BY <1>1, <1>2, <1>3, <2>1, SettledBlocks DEF Counted, SettledRight
<1>7. ~ Async'
  BY DEF OutputStep, Async
<1>8. Sane(r)'
  BY <1>4, <1>6, <1>7 DEF Sane, SettledRight
<1>9. Counted(r)'
  BY <1>3, <1>4, <1>8 DEF Counted, Exact, Failed, OutputStep
<1>10. Books'
  BY <1>1, <1>3, OutputBooks
<1>11. pc' # "idle"
  BY <1>3 DEF OutputStep
<1>12. QED
  BY <1>5, <1>9, <1>10, <1>11, BothInCall DEF After, TokensInv

LEMMA SessionGoesOnTokens ==
  ASSUME Before, After, Fitting, NEW r \in Requests, SessionGoesOn(r)
  PROVE  TokensInv'
<1>1. /\ QueueInv /\ CountsInv /\ Books /\ RequestCounts /\ Counted(r)
  BY DEF Before, TokensInv, CountsInv
<1>2. PICK m, kept \in 1 .. (1 + NumSpecTokens) :
        Stops(r, m, kept) /\ NextChunk(r, tokens[r] + kept, Settled(r, m)) /\ Settle(r, m, kept)
  BY DEF SessionGoesOn
<1>3. OutputStep(r, m, kept) /\ r \in Sessions
  BY <1>1, <1>2, OutputActions DEF Stops, SessionGoesOn
<1>4. /\ ~ Async /\ status[r] = "running" /\ SettledRight(r, m, kept)
      /\ Settled(r, m) \in Int /\ Settled(r, m) >= 0 /\ Settled(r, m) <= tokens[r] + kept
  BY <1>3, SessionTokens
<1>5. kept \in Int /\ kept >= 1 /\ tokens[r] \in Int /\ tokens[r] > 0 /\ MaxTokens[r] \in Nat \ {0}
  BY <1>1, <1>3, <1>4, OutputFacts DEF RequestCounts, Counted, Sane, SchedulerAssumption
<1>6. status' = [status EXCEPT ![r] = "waiting"] /\ UNCHANGED <<inflight, held>>
  BY DEF SessionGoesOn, kvVars
<1>7. prompt' \in [Requests -> Nat] /\ output' \in [Requests -> Nat]
  <2>1. tokens[r] + kept \in Int
    BY <1>5
  <2>2. QED
    BY <1>1, <1>2, <1>4, <2>1, NextChunkTypes
<1> DEFINE d == Settled(r, m)
           all == tokens[r] + kept
<1>8. /\ tokens' = [tokens EXCEPT ![r] = Kept(all, d) + 1] /\ output' = [output EXCEPT ![r] = 0]
      /\ \A q \in Requests \ {r} : prompt'[q] = prompt[q]
  BY <1>1, <1>2 DEF NextChunk, Books
<1>9. /\ tokens'[r] = Kept(all, d) + 1 /\ output'[r] = 0
      /\ \A q \in Requests \ {r} : tokens'[q] = tokens[q] /\ output'[q] = output[q]
  BY <1>1, <1>8 DEF RequestCounts, Books
<1>10. Kept(all, d) \in Int /\ Kept(all, d) >= 0 /\ d <= Kept(all, d)
  <2>1. all \in Int /\ d \in Int /\ all >= 0 /\ d >= 0 /\ d <= all
    BY <1>4, <1>5
  <2> HIDE DEF all, d
  <2>2. QED
    BY <2>1 DEF Kept
<1>11. tokens'[r] > 0 /\ computed'[r] < tokens'[r]
  <2>1. computed'[r] = d /\ d \in Int
    BY <1>4 DEF SettledRight
  <2> HIDE DEF all, d
  <2>2. QED
    BY <1>9, <1>10, <2>1
<1>12. output'[r] \in Nat /\ output'[r] < MaxTokens[r]
  BY <1>5, <1>9
<1> HIDE DEF d, all
<1>13. QED
  BY <1>3, <1>4, <1>6, <1>7, <1>8, <1>9, <1>11, <1>12, SessionStopTokens

LEMMA SessionPausesTokens ==
  ASSUME Before, After, Fitting, NEW r \in Requests, SessionPauses(r)
  PROVE  TokensInv'
<1>1. /\ QueueInv /\ CountsInv /\ Books /\ RequestCounts /\ Counted(r)
  BY DEF Before, TokensInv, CountsInv
<1>2. PICK m, kept \in 1 .. (1 + NumSpecTokens) :
        Stops(r, m, kept) /\ AppendOutput(r, kept) /\ Settle(r, m, kept)
  BY DEF SessionPauses
<1>3. OutputStep(r, m, kept) /\ r \in Sessions
  BY <1>1, <1>2, OutputActions DEF Stops, SessionPauses
<1>4. /\ ~ Async /\ status[r] = "running" /\ SettledRight(r, m, kept)
      /\ Settled(r, m) <= tokens[r] + kept
  BY <1>3, SessionTokens
<1>5. kept \in Int /\ kept >= 1 /\ tokens[r] \in Int /\ tokens[r] > 0 /\ output[r] < MaxTokens[r]
  BY <1>1, <1>3, <1>4, OutputFacts DEF RequestCounts, Counted, Sane
<1>6. status' = [status EXCEPT ![r] = "streaming"] /\ UNCHANGED <<inflight, held, prompt>>
  BY DEF SessionPauses, kvVars
<1>7. /\ tokens'[r] = tokens[r] + kept /\ output' \in [Requests -> Nat]
      /\ \A q \in Requests \ {r} : tokens'[q] = tokens[q] /\ output'[q] = output[q]
      /\ output'[r] <= MaxTokens[r] /\ output'[r] \in Nat
  BY <1>1, <1>2, <1>3, <1>5, StopsTokens
<1>8. tokens'[r] > 0 /\ computed'[r] <= tokens'[r]
  BY <1>4, <1>5, <1>7 DEF SettledRight
<1>9. QED
  BY <1>1, <1>3, <1>4, <1>5, <1>6, <1>7, <1>8, SessionStopTokens DEF Books

\* An output that is passed over.
LEMMA IgnoreOutputTokens ==
  ASSUME Before, After, IgnoreOutput
  PROVE  TokensInv'
<1>1. /\ QueueInv /\ CountsInv /\ Books /\ BlocksInv /\ HoldersInv /\ TransfersInv /\ RequestCounts
      /\ \A q \in Requests : Counted(q)
  BY DEF Before, TokensInv, CountsInv
<1>2. /\ MoreOutputs /\ Ignored(Sampler) /\ pc = "update" /\ pc' = "update" /\ UpdateStep
      /\ UNCHANGED <<status, tokens, prompt, output, computed, spec, holders, chunk, inflight, held>>
      /\ UNCHANGED <<requests, toSend, paused, failedRecv, maxBatches, recompute, call, flight>>
  BY DEF IgnoreOutput, MoreOutputs, UpdateStep, queueVars, countVars, streamVars, kvVars, xferVars,
         miscVars, configVars
<1>3. /\ upd'.step = upd.step /\ upd'.failing = upd.failing /\ upd'.skip = upd.skip
      /\ upd'.todo = Tail(upd.todo)
  BY <1>1, <1>2, OutputKeepsUpdate
<1>4. PICK r \in Requests : r = Sampler /\ r \in ToSet(upd.todo) /\ Ignored(r)
  BY <1>1, <1>2, NextOutput
<1>5. /\ \A q \in Requests \ {r} : Coming(q)' = Coming(q)
      /\ Coming(r) = Coming(r)' + Share(upd.step, r)
      /\ Coming(r)' \in Nat /\ Share(upd.step, r) \in Nat
  BY <1>1, <1>2, <1>3, <1>4, NextComing
<1>6. /\ Ordered = {} /\ Ordered' = {} /\ \A q \in Requests : Loose(q)' <=> Loose(q)
  BY <1>2, <1>3 DEF Ordered, InCall, Loose, Settling
<1>7. ASSUME NEW q \in Requests, Coming(q)' = Coming(q)
      PROVE  Counted(q)'
  <2>1. Untouched(q)
    BY <1>2, <1>3, <1>6, <1>7 DEF Untouched, SameCounts, SamePlan
  <2>2. QED
    BY <1>1, <1>2, <2>1, CountedFrame DEF After
<1>8. Counted(r)'
  <2>1. status[r] \in {"running", "preempted", "finished"}
    BY <1>1, <1>2, <1>4 DEF QueueInv, Updates, InStep
  <2>2. CASE status[r] = "finished"
    BY <1>1, <1>2, <1>4, <2>2, FinishedCounted DEF After, Counted
  <2>3. CASE status[r] # "finished" /\ r \notin upd.skip
    <3>1. r \notin upd.step.samples
      BY <1>1, <1>4, <2>1, <2>3 DEF Ignored, TransfersInv, Known
    <3>2. Coming(r)' = Coming(r)
      BY <1>5, <3>1 DEF Share
    <3>3. QED
      BY <1>4, <1>7, <3>2
  <2>4. CASE status[r] # "finished" /\ r \in upd.skip
    <3>1. /\ Counted(r) /\ Sane(r) /\ Exact(r) /\ Loose(r)
          /\ ~ Async /\ status[r] = "running" => computed[r] < tokens[r]
      BY <1>1, <1>2, <1>4, <2>4 DEF Counted, Failed
    <3>2. /\ tokens[r] \in Int /\ computed[r] \in Int /\ holders[r] \in Int
      BY <1>1, <1>4 DEF RequestCounts
    <3>3. Coming(r)' <= Coming(r) /\ Coming(r) \in Nat
      BY <1>5
    <3>4. Async' = Async
      BY <1>2 DEF Async
    <3>5. Sane(r)'
      BY <1>2, <1>5, <2>1, <2>4, <3>1, <3>2, <3>3, <3>4 DEF Sane, BlocksFor
    <3>6. Pending(r)' = IF Async THEN holders[r] ELSE Coming(r)'
      BY <1>2, <3>4 DEF Pending
    <3>7. Exact(r)'
      <4>1. status[r] = "running" => computed[r] < tokens[r] + Pending(r)'
        <5>1. CASE Async
          BY <1>6, <3>1, <3>6, <5>1 DEF Exact, Pending
        <5>2. CASE ~ Async
          BY <1>5, <3>1, <3>2, <3>6, <5>2
        <5>3. QED
          BY <5>1, <5>2
      <4>2. QED
        BY <1>2, <1>4, <1>6, <3>1, <4>1 DEF Exact
    <3>8. Failed(r)'
      BY <1>2, <1>3, <3>1, <3>4, <1>4, <1>6 DEF Failed, Async
    <3>9. QED
      BY <1>6, <3>5, <3>7, <3>8 DEF Counted
  <2>5. QED
    BY <2>1, <2>2, <2>3, <2>4
<1>9. \A q \in Requests : Counted(q)'
  BY <1>5, <1>7, <1>8
<1>10. Books'
  <2>1. StepBook'
    BY <1>1, <1>2, StepBookFrame DEF Books, InCall
  <2>2. QED
    BY <1>1, <1>2, <1>3, <2>1 DEF Books, Bounded
<1>11. QED
  BY <1>2, <1>9, <1>10, BothInCall DEF After, TokensInv

\* The end of update_from_output.
LEMMA UpdateEndsTokens ==
  ASSUME Before, After, UpdateStep, pc' # "update"
  PROVE  TokensInv'
<1>1. RemoveStopped \/ FailRequests \/ \E R, S \in SUBSET Requests : FinishUpdate(R, S)
  BY DEF UpdateStep, IgnoreOutput, OutputGoesOn, OutputFinishes, SessionGoesOn, SessionPauses,
         MoreOutputs
<1>2. /\ UNCHANGED <<tokens, prompt, output, computed, holders, chunk, toSend, paused>>
      /\ UNCHANGED <<maxBatches, recompute, call, flight>>
      /\ pc \in {"update", "failures", "transfers"} /\ ~ InCall /\ ~ InCall'
  BY <1>1 DEF RemoveStopped, FailRequests, FinishUpdate, countVars, streamVars, miscVars, configVars,
              InCall
<1>3. /\ QueueInv /\ CountsInv /\ Books /\ BlocksInv /\ TransfersInv
      /\ \A q \in Requests : Counted(q)
  BY DEF Before, TokensInv
<1>4. ASSUME NEW q \in Requests
      PROVE  Coming(q)' = Coming(q)
  <2>1. pc = "update" => upd.todo = <<>>
    BY <1>1 DEF RemoveStopped, FailRequests, FinishUpdate
  <2>2. ToCome(q) = 0 /\ ToCome(q)' = 0
    BY <2>1 DEF ToCome, ToSet
  <2>3. QED
    BY <1>2, <2>2 DEF Coming, Placeholders, Due, Share
<1>5. ASSUME NEW q \in Requests, status'[q] = status[q], q \in inflight => q \in inflight',
             status[q] # "finished" => held[q] \subseteq held'[q],
             q \in failedRecv' => q \in failedRecv,
             status[q] # "finished" /\ Loose(q) => Loose(q)'
      PROVE  Counted(q)'
  <2>1. Untouched(q)
    BY <1>2, <1>4, <1>5 DEF Untouched, SameCounts, SamePlan, Ordered
  <2>2. QED
    BY <1>2, <1>3, <2>1, CountedFrame DEF After
<1>6. StepBook'
  BY <1>2, <1>3, StepBookFrame DEF Books, InCall
<1>7. CASE RemoveStopped
  <2>1. /\ UNCHANGED <<status, spec, inflight, held, failedRecv, upd>> /\ pc = "update"
        /\ pc' = "failures"
    BY <1>7 DEF RemoveStopped, countVars, kvVars, xferVars
  <2>2. \A q \in Requests : Loose(q)' <=> Loose(q)
    BY <1>2, <2>1 DEF Loose, Settling
  <2>3. \A q \in Requests : Counted(q)'
    BY <1>5, <2>1, <2>2
  <2>4. Books'
    BY <1>2, <1>3, <1>6, <2>1, BooksFrame DEF Books
  <2>5. QED
    BY <2>1, <2>3, <2>4, BothInCall DEF After, TokensInv
<1>8. CASE FailRequests
  <2>1. /\ pc = "failures" /\ pc' = "transfers" /\ UNCHANGED <<spec, upd>>
    BY <1>8 DEF FailRequests, countVars
  <2>2. /\ upd.failing \subseteq Requests /\ \A x, y \in upd.failing : x = y
        /\ \A x \in upd.failing : status[x] # "absent"
    BY <1>3, <2>1 DEF TransfersInv, Failures, Settling
  <2>3. CASE \E x \in upd.failing : status[x] # "finished"
    <3>1. PICK x \in Requests : x \in upd.failing /\ FinishRequest(x)
      BY <1>8, <2>3 DEF FailRequests
    <3>2. /\ status'[x] = "finished" /\ inflight' \subseteq inflight
          /\ \A q \in Requests \ {x} :
               /\ status'[q] = status[q] /\ held'[q] = held[q] /\ (q \in inflight => q \in inflight')
               /\ q \in failedRecv' => q \in failedRecv
      BY <1>3, <3>1, FinishRequestOthers
    <3>3. Counted(x)'
      BY <1>2, <1>3, <2>2, <3>1, <3>2, FinishedCounted DEF After, Counted
    <3>4. \A q \in Requests \ {x} : Loose(q) => Loose(q)'
      BY <1>2, <2>2, <3>1 DEF Loose
    <3>5. \A q \in Requests \ {x} : Counted(q)'
      BY <1>5, <3>2, <3>4
    <3>6. Books'
      BY <1>2, <1>3, <1>6, <2>1, <3>2, BooksFrame DEF Books
    <3>7. QED
      BY <2>1, <3>3, <3>5, <3>6, BothInCall DEF After, TokensInv
  <2>4. CASE ~ \E x \in upd.failing : status[x] # "finished"
    <3>1. UNCHANGED <<status, inflight, held, failedRecv>>
      BY <1>8, <2>4 DEF FailRequests, queueVars, kvVars
    <3>2. \A q \in Requests : status[q] # "finished" /\ Loose(q) => Loose(q)'
      BY <1>2, <2>4 DEF Loose
    <3>3. \A q \in Requests : Counted(q)'
      BY <1>5, <3>1, <3>2
    <3>4. Books'
      BY <1>2, <1>3, <1>6, <2>1, <3>1, BooksFrame DEF Books
    <3>5. QED
      BY <2>1, <3>3, <3>4, BothInCall DEF After, TokensInv
  <2>5. QED
    BY <2>3, <2>4
<1>9. ASSUME NEW R, NEW S, FinishUpdate(R, S)
      PROVE  TokensInv'
  <2> DEFINE gone == S \cup {q \in R : status[q] = "finished"}
  <2>1. /\ pc = "transfers" /\ pc' = "idle" /\ S \subseteq sending
        /\ spec' = [q \in Requests |-> DraftTokens(q)]
        /\ held' = [q \in Requests |-> IF q \in gone THEN {} ELSE held[q]]
        /\ UNCHANGED <<status, inflight, failedRecv>>
    BY <1>9 DEF FinishUpdate, FreeBlocks
  <2>2. \A q \in gone : status[q] = "finished"
    BY <1>3, <2>1 DEF TransfersInv, Transfers, SendKept
  <2> HIDE DEF gone
  <2>3. \A q \in Requests : Loose(q) => Loose(q)'
    BY <1>2, <2>1 DEF Loose, Settling
  <2>4. \A q \in Requests : Counted(q)'
    BY <1>5, <2>1, <2>2, <2>3
  <2>5. Bounded(spec')
    <3>1. \A q \in Requests : DraftTokens(q) \in {0, NumSpecTokens, spec[q]}
      BY DEF DraftTokens
    <3>2. QED
      BY <1>3, <2>1, <3>1 DEF Books, Bounded, SchedulerAssumption
  <2>6. Books'
    BY <1>2, <1>3, <1>6, <2>1, <2>5 DEF Books, Bounded
  <2>7. BothSample'
    <3>1. Len(flight') \in {0, 1}
      BY <1>2, <1>3, <2>1, OneInFlight
    <3>2. QED
      BY <3>1 DEF BothSample
  <2>8. QED
    BY <2>4, <2>6, <2>7 DEF TokensInv
<1>10. QED
  BY <1>1, <1>7, <1>8, <1>9

LEMMA UpdateTokens ==
  ASSUME Before, After, Fitting, UpdateStep
  PROVE  TokensInv'
<1>1. CASE pc' # "update"
  BY <1>1, UpdateEndsTokens
<1>2. CASE pc' = "update"
  <2>1. ~ RemoveStopped /\ ~ FailRequests /\ \A R, S : ~ FinishUpdate(R, S)
    BY <1>2 DEF RemoveStopped, FailRequests, FinishUpdate
  <2>2. QED
    BY <2>1, IgnoreOutputTokens, GoesOnTokens, OutputFinishesTokens, SessionGoesOnTokens,
       SessionPausesTokens DEF UpdateStep
<1>3. QED
  BY <1>1, <1>2

-----------------------------------------------------------------------------
(* What the counts say of the scheduler.                                   *)

LEMMA TokensInit == Init => TokensInv
<1> SUFFICES ASSUME Init
             PROVE  TokensInv
  OBVIOUS
<1>1. /\ pc = "idle" /\ call = NoCall /\ flight = <<>> /\ Len(flight) = 0 /\ inflight = {}
      /\ paused = "unpaused" /\ Ordered = {} /\ ~ InCall
      /\ toSend = [r \in Requests |-> IF r \in Sessions THEN MaxChunks + 1 ELSE 0]
  BY DEF Init, Ordered, InCall
<1>2. \A r \in Requests :
        /\ status[r] = "absent" /\ tokens[r] = 0 /\ computed[r] = 0 /\ output[r] = 0
        /\ prompt[r] = 0 /\ holders[r] = 0 /\ spec[r] = 0 /\ held[r] = {}
  BY DEF Init, None
<1>3. prompt \in [Requests -> Nat] /\ output \in [Requests -> Nat]
  BY DEF Init, None
<1>4. \A r \in Requests : Coming(r) = 0
  <2>1. \A r \in Requests : Due(1, r) = 0 /\ Due(2, r) = 0 /\ ToCome(r) = 0
    BY <1>1 DEF Due, ToCome
  <2>2. QED
    BY <2>1 DEF Coming, Placeholders
<1>5. Books
  <2>1. StepBook
    BY <1>1 DEF StepBook, NoCall, None
  <2>2. QED
    BY <1>1, <1>2, <1>3, <2>1 DEF Books, Bounded, PauseState, SchedulerAssumption
<1>6. BothSample
  BY <1>1 DEF BothSample
<1>7. ASSUME NEW r \in Requests
      PROVE  Counted(r)
  <2>1. BlocksFor(computed[r]) <= Cardinality(held[r])
    <3>1. BlocksFor(computed[r]) = 0
      BY <1>2, BlocksShort
    <3>2. Cardinality(held[r]) = 0
      BY <1>2, FS_EmptySet
    <3>3. QED
      BY <3>1, <3>2
  <2>2. Sane(r)
    BY <1>2, <1>4, <2>1 DEF Sane, SchedulerAssumption
  <2>3. QED
    BY <1>1, <1>2, <2>2 DEF Counted, Exact, Failed
<1>8. QED
  BY <1>5, <1>6, <1>7 DEF TokensInv

LEMMA TokensNext ==
  ASSUME Before, After, Fitting, [Next]_vars
  PROVE  TokensInv'
<1>1. CASE UNCHANGED vars
  <2>1. /\ UNCHANGED <<status, tokens, prompt, output, computed, spec, holders, chunk, inflight, held>>
        /\ UNCHANGED <<toSend, failedRecv, recompute, maxBatches, paused, pc, call, upd, flight>>
    BY <1>1 DEF vars, queueVars, countVars, streamVars, kvVars, xferVars, miscVars, configVars
  <2>2. /\ QueueInv /\ BlocksInv /\ CountsInv /\ Books /\ BothSample
        /\ \A q \in Requests : Counted(q)
    BY DEF Before, TokensInv
  <2>3. \A q \in Requests : Untouched(q)
    BY <2>1 DEF Untouched, SameCounts, SamePlan, Ordered, InCall, Loose, Settling,
                Coming, ToCome, Placeholders, Due, Share
  <2>4. \A q \in Requests : Counted(q)'
    BY <2>1, <2>2, <2>3, CountedFrame DEF After
  <2>5. Books'
    <3>1. StepBook'
      BY <2>1, <2>2, StepBookFrame DEF Books, InCall
    <3>2. QED
      BY <2>1, <2>2, <3>1 DEF Books, Bounded
  <2>6. BothSample'
    BY <2>1, <2>2 DEF BothSample, Loose, Settling
  <2>7. QED
    BY <2>4, <2>5, <2>6 DEF TokensInv
<1>2. QED
  BY <1>1, RequestStepTokens, ScheduleTokens, BeginTokens, UpdateTokens DEF Next

LEMMA TokensAlways == Spec /\ []Fitting => []TokensInv
<1>1. /\ QueueInv /\ BlocksInv /\ CountsInv /\ TransfersInv /\ HoldersInv /\ TokensInv
      /\ QueueInv' /\ BlocksInv' /\ CountsInv' /\ Fitting /\ [Next]_vars
      => TokensInv'
  BY TokensNext DEF Before, After
<1>2. QED
  BY <1>1, TokensInit, QueuesAgree, BlocksAlways, CountsAlways, TransfersAlways, HoldersAlways, PTL
     DEF Spec

\* No count of the scheduler goes below zero, however the outputs of a preempted or
\* truncated request arrive (the guard on the rejected drafts, scheduler.py:1617).
THEOREM CountsAreNatural == Spec /\ []Fitting => []TypeOK
<1>1. TokensInv /\ QueueInv /\ CountsInv /\ BlocksInv /\ TransfersInv /\ Streams => TypeOK
  <2> SUFFICES ASSUME TokensInv, QueueInv, CountsInv, BlocksInv, TransfersInv, Streams
               PROVE  TypeOK
    OBVIOUS
  <2>1. /\ requests \subseteq Requests /\ status \in [Requests -> Status]
        /\ waiting \in Seq(Requests) /\ skippedWaiting \in Seq(Requests)
        /\ running \in Seq(Requests)
    BY DEF QueueInv, Places, Queues
  <2>2. /\ tokens \in [Requests -> Nat] /\ computed \in [Requests -> Nat]
        /\ spec \in [Requests -> Nat] /\ holders \in [Requests -> Nat]
    <3>1. \A r \in Requests : tokens[r] \in Nat /\ computed[r] \in Nat /\ holders[r] \in Nat
      BY DEF TokensInv, Counted, Sane, CountsInv, RequestCounts
    <3>2. QED
      BY <3>1 DEF CountsInv, RequestCounts
  <2>3. /\ prompt \in [Requests -> Nat] /\ output \in [Requests -> Nat]
        /\ inflight \subseteq Requests /\ paused \in PauseState
        /\ call.budget \in Nat /\ call.sched \in [Requests -> Nat]
    BY DEF TokensInv, Books, StepBook
  <2>4. numStreaming \in Nat
    <3>1. IsFiniteSet(InStatus({"streaming"}))
      BY FS_Subset DEF InStatus, SchedulerAssumption
    <3>2. QED
      BY <3>1, FS_CardinalityType DEF Streams
  <2>5. /\ free \subseteq Blocks /\ held \in [Requests -> SUBSET Blocks]
    BY DEF BlocksInv
  <2>6. /\ loading \subseteq Requests /\ sending \subseteq Requests
        /\ finishedRecv \subseteq Requests /\ failedRecv \subseteq Requests
    BY DEF TransfersInv, Transfers
  <2>7. QED
    BY <2>1, <2>2, <2>3, <2>4, <2>5, <2>6 DEF TypeOK
<1>2. QED
  BY <1>1, TokensAlways, QueuesAgree, CountsAlways, BlocksAlways, TransfersAlways, StreamsAlways, PTL

\* What counts as computed is in blocks of the request, through preemptions, loads and
\* their failures (scheduler.py:1168, :2432-2452).
THEOREM ComputedIsHeld == Spec /\ []Fitting => []ComputedHasBlocks
<1>1. TokensInv => ComputedHasBlocks
  BY DEF TokensInv, Counted, Sane, ComputedHasBlocks, Alive
<1>2. QED
  BY <1>1, TokensAlways, PTL

\* Every request of a step has a token to compute in it, whatever it has been through:
\* the assertion of scheduler.py:858 holds, and its like for running requests.
THEOREM SharesArePositive == Spec /\ []Fitting => []EveryShareIsPositive
<1>1. TokensInv /\ QueueInv /\ CountsInv => EveryShareIsPositive
  <2> SUFFICES ASSUME TokensInv, QueueInv, CountsInv, NEW i \in 1 .. Len(call.order)
               PROVE  call.sched[call.order[i]] > 0
    BY DEF EveryShareIsPositive
  <2>1. InCall
    BY DEF TokensInv, Books, StepBook
  <2>2. call.order[i] \in Ordered
    BY <2>1 DEF Ordered, ToSet
  <2> DEFINE r == call.order[i]
  <2> HIDE DEF r
  <2>3. r \in Requests /\ Planned(r)
    BY <2>2, OrderedRuns DEF TokensInv, Counted, r
  <2>4. call.spec[r] \in Nat /\ call.sched[r] \in Int
    BY <2>1, <2>3 DEF CountsInv, CallCounts, InCall
  <2>5. QED
    BY <2>3, <2>4 DEF Planned, r
<1>2. QED
  BY <1>1, TokensAlways, QueuesAgree, CountsAlways, PTL

\* The hotfix keeps its promise: at most max_num_partial_prefills requests have their
\* prompt in the making.  Every one of them is in _inflight_prefills, and the gate counts
\* those.
THEOREM PartialPrefillsAreBounded == Spec /\ []Fitting => []PartialPrefillsBounded
<1>1. TokensInv /\ PrefillsGated => PartialPrefillsBounded
  <2> DEFINE making == {r \in Requests : \/ status[r] = "remote"
                                         \/ status[r] = "running" /\ chunk[r] /\ ~ Exempt(r)}
  <2> SUFFICES ASSUME TokensInv, PrefillsGated, MaxPartialPrefills > 0, pc = "idle"
               PROVE  Cardinality(making) <= MaxPartialPrefills
    BY DEF PartialPrefillsBounded
  <2>1. ASSUME NEW r \in making
        PROVE  r \in inflight
    <3>1. Counted(r) /\ (~ Exempt(r) => ~ Loose(r)) /\ r \notin Ordered
      BY DEF TokensInv, Exempt, Loose, Settling, Ordered, InCall
    <3>2. QED
      BY <3>1 DEF Counted, Sane, Exact
  <2> HIDE DEF making
  <2>2. IsFiniteSet(inflight) /\ Cardinality(inflight) <= MaxPartialPrefills
        /\ Cardinality(inflight) \in Nat
    <3>1. IsFiniteSet(inflight)
      BY FS_Subset DEF TokensInv, Books, SchedulerAssumption
    <3>2. QED
      BY <3>1, FS_CardinalityType DEF PrefillsGated
  <2>3. Cardinality(making) <= Cardinality(inflight) /\ Cardinality(making) \in Nat
    BY <2>1, <2>2, FS_Subset, FS_CardinalityType
  <2>4. QED
    BY <2>2, <2>3 DEF SchedulerAssumption
<1>2. QED
  BY <1>1, TokensAlways, PrefillsStayGated, PTL

\* No step is scheduled for a request whose steps in flight are sure to give it the last
\* of its tokens ("Avoid scheduling an extra step", scheduler.py:455).
THEOREM NoStepIsPastTheLimit == Spec /\ []Fitting => []NoStepPastTheLimit
<1>1. TokensInv /\ QueueInv /\ CountsInv => NoStepPastTheLimit
  <2> SUFFICES ASSUME TokensInv, QueueInv, CountsInv, ~ Settling,
                      NEW r \in Requests, Alive(r), ~ Exempt(r)
               PROVE  output[r] + Cardinality({i \in 1 .. Len(flight) : r \in flight[i].samples})
                        <= MaxTokens[r]
    BY DEF NoStepPastTheLimit
  <2> DEFINE sampled == {i \in 1 .. Len(flight) : r \in flight[i].samples}
  <2>1. Sane(r) /\ ~ Loose(r) /\ status[r] # "finished"
    BY DEF TokensInv, Counted, Loose, Exempt, Alive
  <2>2. output[r] \in Nat /\ MaxTokens[r] \in Nat /\ output[r] <= MaxTokens[r]
    BY <2>1 DEF TokensInv, Books, Sane, SchedulerAssumption
  <2>3. Len(flight) = 0 \/ Len(flight) = 1 \/ Len(flight) = 2
    <3>1. Len(flight) \in Nat /\ Len(flight) <= maxBatches /\ (maxBatches = 1 \/ maxBatches = 2)
      BY DEF QueueInv, Flights, Calls
    <3>2. QED
      BY <3>1, AtMostTwo
  <2>4. ASSUME NEW i \in sampled
        PROVE  output[r] + 1 <= MaxTokens[r]
    <3>1. r \in ToSet(flight[i].order)
      BY <2>4 DEF CountsInv, StepsCounts, StepCounts
    <3>2. status[r] \in {"running", "preempted"}
      BY <2>1, <2>4, <3>1 DEF QueueInv, Flights, InStep
    <3>3. QED
      BY <2>1, <2>2, <3>2 DEF Sane
  <2>5. CASE sampled = {}
    <3>1. Cardinality(sampled) = 0
      BY <2>5, FS_EmptySet
    <3>2. QED
      BY <2>2, <3>1
  <2>6. CASE \E i : sampled = {i}
    <3>1. PICK i : sampled = {i}
      BY <2>6
    <3>2. Cardinality(sampled) = 1
      BY <3>1, FS_Singleton
    <3>3. QED
      BY <2>4, <3>1, <3>2
  <2>7. CASE sampled = {1, 2}
    <3>1. Len(flight) = 2 /\ r \in flight[1].samples \cap flight[2].samples
      BY <2>3, <2>7
    <3>2. output[r] + 2 <= MaxTokens[r]
      BY <2>1, <3>1 DEF TokensInv, BothSample
    <3>3. Cardinality(sampled) = 2
      <4>1. IsFiniteSet({1}) /\ Cardinality({1}) = 1
        BY FS_Singleton
      <4>2. {1, 2} = {1} \cup {2} /\ 2 \notin {1}
        OBVIOUS
      <4>3. Cardinality({1} \cup {2}) = Cardinality({1}) + 1
        BY <4>1, <4>2, FS_AddElement
      <4> HIDE DEF sampled
      <4>4. sampled = {1} \cup {2}
        BY <2>7, <4>2
      <4>5. QED
        BY <4>1, <4>3, <4>4
    <3>4. QED
      BY <3>2, <3>3
  <2>8. sampled = {} \/ (\E i : sampled = {i}) \/ sampled = {1, 2}
    <3>1. CASE Len(flight) = 0
      BY <3>1
    <3>2. CASE Len(flight) = 1
      <4>1. sampled \subseteq {1}
        BY <3>2
      <4>2. QED
        BY <4>1
    <3>3. CASE Len(flight) = 2
      <4>1. sampled \subseteq {1, 2}
        BY <3>3
      <4> HIDE DEF sampled
      <4>2. CASE 1 \in sampled /\ 2 \in sampled
        BY <4>1, <4>2
      <4>3. CASE 1 \in sampled /\ 2 \notin sampled
        <5>1. sampled = {1}
          BY <4>1, <4>3
        <5>2. QED
          BY <5>1
      <4>4. CASE 1 \notin sampled /\ 2 \in sampled
        <5>1. sampled = {2}
          BY <4>1, <4>4
        <5>2. QED
          BY <5>1
      <4>5. CASE 1 \notin sampled /\ 2 \notin sampled
        BY <4>1, <4>5
      <4>6. QED
        BY <4>2, <4>3, <4>4, <4>5
    <3>4. QED
      BY <2>3, <3>1, <3>2, <3>3
  <2>9. QED
    BY <2>5, <2>6, <2>7, <2>8
<1>2. QED
  BY <1>1, TokensAlways, QueuesAgree, CountsAlways, PTL

\* Requests that fit the model with their prompt, their output and a step's drafts;
\* sessions grow with every input and are left out.
RoomForAll ==
  /\ DraftsFit /\ Sessions = {}
  /\ \A r \in Requests : PromptLen[r] + MaxTokens[r] + NumSpecTokens <= MaxModelLen

\* Without sessions, requests that fit at first fit for ever: the guarantees above need
\* nothing but a configuration that leaves room.
THEOREM RoomyIsSafe ==
  RoomForAll =>
    (Spec => [](TypeOK /\ ComputedHasBlocks /\ EveryShareIsPositive /\ PartialPrefillsBounded
                /\ NoStepPastTheLimit))
<1> SUFFICES ASSUME RoomForAll
             PROVE  Spec => [](TypeOK /\ ComputedHasBlocks /\ EveryShareIsPositive
                               /\ PartialPrefillsBounded /\ NoStepPastTheLimit)
  OBVIOUS
<1>1. TokensInv /\ QueueInv /\ CountsInv => Fitting
  <2> SUFFICES ASSUME TokensInv, QueueInv, CountsInv, NEW r \in requests, status[r] # "finished"
               PROVE  tokens[r] + NumSpecTokens < MaxModelLen
    BY DEF Fitting, RoomForAll
  <2>1. r \in Requests /\ status[r] # "absent"
    BY DEF QueueInv, Places, Place
  <2>2. Sane(r)
    BY <2>1 DEF TokensInv, Counted
  <2>3. r \notin Sessions /\ PromptLen[r] + MaxTokens[r] + NumSpecTokens <= MaxModelLen
    BY <2>1 DEF RoomForAll
  <2>4. tokens[r] = PromptLen[r] + output[r] /\ output[r] < MaxTokens[r]
    BY <2>1, <2>2, <2>3 DEF Sane
  <2>5. /\ output[r] \in Nat /\ PromptLen[r] \in Nat /\ MaxTokens[r] \in Nat /\ NumSpecTokens \in Nat
        /\ MaxModelLen \in Nat
    BY <2>1 DEF TokensInv, Books, SchedulerAssumption
  <2>6. QED
    BY <2>3, <2>4, <2>5
<1>2. /\ QueueInv /\ BlocksInv /\ CountsInv /\ TransfersInv /\ HoldersInv /\ TokensInv
      /\ QueueInv' /\ BlocksInv' /\ CountsInv' /\ [Next]_vars
      => TokensInv'
  BY <1>1, TokensNext DEF Before, After
<1>3. Spec => []Fitting
  BY <1>1, <1>2, TokensInit, QueuesAgree, BlocksAlways, CountsAlways, TransfersAlways,
     HoldersAlways, PTL DEF Spec
<1>4. QED
  BY <1>3, CountsAreNatural, ComputedIsHeld, SharesArePositive, PartialPrefillsAreBounded,
     NoStepIsPastTheLimit, PTL
=============================================================================
