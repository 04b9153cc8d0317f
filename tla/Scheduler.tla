------------------------------ MODULE Scheduler ------------------------------
(***************************************************************************)
(* The engine's scheduler, deploy/overlays/dspark/scheduler.py: the v1     *)
(* scheduler the agent mounts into its slots, with the [issue27-hotfix]    *)
(* gate on partial prefills.                                               *)
(*                                                                         *)
(* One thread runs schedule() and update_from_output() in turn, with up to *)
(* maxBatches steps scheduled and not yet processed in between; requests   *)
(* arrive, are aborted, paused and reset between those calls.              *)
(* `pc` is the position inside a call, `call` and `upd` hold its local     *)
(* variables, and while a call is under way nothing else happens.  Each    *)
(* iteration of a loop of the code is one action here.                     *)
(*                                                                         *)
(* Tokens are counted, KV blocks have identities.  The model runner (which *)
(* tokens it samples or rejects), the KV cache manager (a pool of blocks   *)
(* without prefix hits) and the KV connector (what it can load, when a     *)
(* transfer ends, what failed to load) are not in the repository: they are *)
(* modelled by how this file uses them.  The policy is FCFS.  `upsets`     *)
(* bounds the rare events (aborts, pauses, resets, throttled steps, load   *)
(* failures, undecided connectors, grammar errors).                        *)
(*                                                                         *)
(* FreeBlocksTwice, PreemptKeptTokens, PutBackLast,                        *)
(* FinishRequestUncounted, FinishRequestAtOnce, AlmostDoneLate,            *)
(* GateOpenOffByOne, SlotFreeUnstreamed, LoadedTokensWhole, RequeuedOlder, *)
(* DrainedEarly, DrainedLate, SettledAlways, SettleHolding: mistaken       *)
(* variants of the definitions they precede; no action uses them.          *)
(***************************************************************************)
EXTENDS Integers, FiniteSets, SequencesExt

CONSTANTS
  Requests,             \* request ids
  Blocks,               \* the KV blocks of the pool
  BlockSize,            \* tokens per block
  MaxScheduledTokens,   \* max_num_scheduled_tokens, the budget of a step
  MaxRunningReqs,       \* max_num_seqs
  MaxPartialPrefills,   \* max_num_partial_prefills, 0: no gate
  LongPrefillThreshold, \* long_prefill_token_threshold, 0: none
  MaxModelLen,
  NumSpecTokens,        \* draft tokens per step, also the lookahead
  ReserveFullIsl,       \* scheduler_reserve_full_isl
  BatchLimits,          \* the values of max_concurrent_batches, from 1 and 2
  PromptLen, MaxTokens, \* per request: prompt tokens, output tokens at most
  Remote, SyncRemote,   \* per request: tokens the connector loads, (a)synchronously
  Sessions, Grammars,   \* the resumable requests, and those with structured output
  Senders,              \* requests whose blocks the connector sends when they finish
  MaxChunks,            \* bound: input chunks a session gets after its first
  MaxUpsets             \* bound: rare events of a behaviour

SchedulerAssumption ==
  /\ IsFiniteSet(Requests) /\ IsFiniteSet(Blocks)
  /\ BlockSize \in Nat \ {0} /\ MaxScheduledTokens \in Nat \ {0}
  /\ MaxRunningReqs \in Nat /\ MaxPartialPrefills \in Nat /\ LongPrefillThreshold \in Nat
  /\ MaxModelLen \in Nat /\ NumSpecTokens \in Nat /\ ReserveFullIsl \in BOOLEAN
  /\ BatchLimits # {} /\ BatchLimits \subseteq {1, 2} /\ MaxChunks \in Nat /\ MaxUpsets \in Nat
  /\ PromptLen \in [Requests -> Nat \ {0}] /\ MaxTokens \in [Requests -> Nat \ {0}]
  /\ Remote \in [Requests -> Nat] /\ SyncRemote \in [Requests -> Nat]
  /\ Sessions \subseteq Requests /\ Grammars \subseteq Requests /\ Senders \subseteq Requests
ASSUME SchedulerAssumption

VARIABLES
  requests, status, waiting, skippedWaiting, running,  \* the queues
  tokens, prompt, output, computed, spec, chunk,       \* token counts per request
  holders,                                             \* num_output_placeholders
  preempts,                                            \* num_preemptions > 0
  inflight,                                            \* _inflight_prefills
  updates, toSend, numStreaming,                       \* streaming input
  free, held, deferred, schedSeq, processedSeq, lastSeq, \* KV blocks and the fence
  loading, sending, finishedRecv, failedRecv,          \* the KV connector
  recompute, maxBatches,      \* recompute_kv_load_failures, max_concurrent_batches
  finishedIds, paused, capacityBound, grammarReady,
  pc, call, upd, flight, upsets

queueVars == <<requests, status, waiting, skippedWaiting, running>>
countVars == <<tokens, prompt, output, computed, spec, holders>>
configVars == <<recompute, maxBatches>>
streamVars == <<updates, toSend, numStreaming>>
kvVars == <<free, held, deferred>>
fenceVars == <<schedSeq, processedSeq, lastSeq>>
xferVars == <<loading, sending, finishedRecv, failedRecv>>
miscVars == <<configVars, finishedIds, paused, capacityBound, grammarReady>>
vars == <<queueVars, countVars, chunk, preempts, inflight, streamVars, kvVars, fenceVars,
          xferVars, miscVars, pc, call, upd, flight, upsets>>

\* RequestStatus; every FINISHED_* is "finished".
Status == {"absent", "waiting", "grammar", "remote", "streaming", "running", "preempted",
           "finished"}
BlockedStatus == {"grammar", "remote", "streaming"}    \* _is_blocked_waiting_status
PauseState == {"unpaused", "pausedNew", "pausedAll"}

\* The local variables of schedule(): the loop index, the token budget left,
\* num_scheduled_tokens and its keys in order, scheduled_running_reqs, the
\* scheduled draft tokens, whether a request was preempted, whether the running
\* batch has a prefill, step_skipped_waiting, defer_prefills, and the requests
\* admitted with a synchronous load.
None == [r \in Requests |-> 0]
NoCall == [idx |-> 0, budget |-> 0, sched |-> None, order |-> <<>>, batch |-> {},
           spec |-> None, preempted |-> FALSE, prefill |-> FALSE, passed |-> <<>>,
           deferring |-> FALSE, loads |-> {}]
NoStep == [seq |-> 0, order |-> <<>>, sched |-> None, spec |-> None, samples |-> {},
           uses |-> {}, loads |-> {}]
\* The local variables of update_from_output().
NoUpdate == [step |-> NoStep, todo |-> <<>>, skip |-> {}, failing |-> {},
             stopped |-> {}, stoppedWaiting |-> {}]

HasConnector == \E r \in Requests : Remote[r] > 0 \/ SyncRemote[r] > 0 \/ r \in Senders
DeferBlockFree == HasConnector /\ maxBatches > 1

\* Steps overlap under asynchronous scheduling.  Its subclass of the scheduler is
\* not in the repository; it counts a placeholder for every token a step in flight
\* may sample.
Async == maxBatches > 1

Init ==
  /\ requests = {} /\ status = [r \in Requests |-> "absent"]
  /\ waiting = <<>> /\ skippedWaiting = <<>> /\ running = <<>>
  /\ tokens = None /\ prompt = None /\ output = None /\ computed = None
  /\ spec = None /\ holders = None
  /\ chunk = [r \in Requests |-> FALSE] /\ preempts = [r \in Requests |-> FALSE]
  /\ inflight = {}
  /\ updates = [r \in Requests |-> <<>>] /\ numStreaming = 0
  /\ toSend = [r \in Requests |-> IF r \in Sessions THEN MaxChunks + 1 ELSE 0]
  /\ free = Blocks /\ held = [r \in Requests |-> {}] /\ deferred = {}
  /\ schedSeq = 0 /\ processedSeq = 0 /\ lastSeq = None
  /\ loading = {} /\ sending = {} /\ finishedRecv = {} /\ failedRecv = {}
  /\ recompute \in IF HasConnector THEN BOOLEAN ELSE {TRUE}
  /\ maxBatches \in BatchLimits
  /\ finishedIds = {} /\ paused = "unpaused" /\ capacityBound = FALSE /\ grammarReady = {}
  /\ pc = "idle" /\ call = NoCall /\ upd = NoUpdate /\ flight = <<>> /\ upsets = 0

Upset == upsets < MaxUpsets /\ upsets' = upsets + 1

-----------------------------------------------------------------------------
(* Queues and blocks.                                                      *)

\* remove_all, remove_requests: the queue without the requests in S.
Without(queue, S) ==
  LET kept[i \in 0 .. Len(queue)] ==
        IF i = 0 THEN <<>>
        ELSE IF queue[i] \in S THEN kept[i - 1] ELSE Append(kept[i - 1], queue[i])
  IN kept[Len(queue)]
InQueue(queue, r) == \E i \in 1 .. Len(queue) : queue[i] = r

\* _enqueue_waiting_request of a request whose status becomes st.
Enqueue(r, st) ==
  IF st \in BlockedStatus
    THEN skippedWaiting' = Append(skippedWaiting, r) /\ UNCHANGED waiting
    ELSE waiting' = Append(waiting, r) /\ UNCHANGED skippedWaiting

BlocksFor(n) == (n + BlockSize - 1) \div BlockSize

\* Blocks r needs on top of its own to hold n tokens.
NewBlocks(r, n) ==
  LET need == BlocksFor(IF n < MaxModelLen THEN n ELSE MaxModelLen) - Cardinality(held[r])
  IN IF need > 0 THEN need ELSE 0

\* The ways the pool can give k blocks: none, when it has fewer.
Grabs(k) == {b \in SUBSET free : Cardinality(b) = k}

\* _request_remaining_blocks and _inflight_prefill_reserved_blocks.
ReservedBlocks == MapThenSumSet(LAMBDA r : NewBlocks(r, tokens[r]), inflight)

\* _free_request_blocks for the requests in S: a block that a step in flight may
\* still write waits in `deferred` for the last step scheduled so far.
FreeBlocksTwice(S) ==
  LET later == {r \in S : DeferBlockFree /\ lastSeq[r] > processedSeq} IN
  /\ held' = [r \in Requests |-> IF r \in S THEN {} ELSE held[r]]
  /\ free' = free \cup UNION {held[r] : r \in S}
  /\ deferred' = deferred \cup {<<schedSeq, b>> : b \in UNION {held[r] : r \in later}}
FreeBlocks(S) ==
  LET now == {r \in S : ~ DeferBlockFree \/ lastSeq[r] <= processedSeq} IN
  /\ held' = [r \in Requests |-> IF r \in S THEN {} ELSE held[r]]
  /\ free' = free \cup UNION {held[r] : r \in now}
  /\ deferred' = deferred \cup {<<schedSeq, b>> : b \in UNION {held[r] : r \in S \ now}}

\* _connector_finished: of the requests in S, those whose blocks the connector keeps
\* to send them.
ConnectorKeeps(S) == {r \in S \cap Senders : held[r] # {}}

\* _free_request, for requests that have just finished.  The blocks of those in
\* `loads` stay until the transfer into them is over.
FreeRequests(S, loads) ==
  LET sends == ConnectorKeeps(S \ loads)
      kept == loads \cup sends IN
  /\ status' = [r \in Requests |-> IF r \in S THEN "finished" ELSE status[r]]
  /\ inflight' = inflight \ S
  /\ finishedIds' = finishedIds \cup S
  /\ sending' = sending \cup sends
  /\ requests' = requests \ (S \ kept)
  /\ FreeBlocks(S \ kept)

\* _preempt_request, for the requests in S; the caller has taken them out of
\* `running` and puts them at the head of `waiting`.
PreemptKeptTokens(S) ==
  /\ FreeBlocks(S)
  /\ inflight' = inflight \ S
  /\ status' = [r \in Requests |-> IF r \in S THEN "preempted" ELSE status[r]]
  /\ spec' = [r \in Requests |-> IF r \in S THEN 0 ELSE spec[r]]
  /\ preempts' = [r \in Requests |-> preempts[r] \/ r \in S]
  /\ UNCHANGED computed
Preempt(S) ==
  /\ FreeBlocks(S)
  /\ inflight' = inflight \ S
  /\ status' = [r \in Requests |-> IF r \in S THEN "preempted" ELSE status[r]]
  /\ computed' = [r \in Requests |-> IF r \in S THEN 0 ELSE computed[r]]
  /\ spec' = [r \in Requests |-> IF r \in S THEN 0 ELSE spec[r]]
  /\ preempts' = [r \in Requests |-> preempts[r] \/ r \in S]
PutBackLast(queue) == waiting' = waiting \o queue
PutBack(queue) == waiting' = queue \o waiting

-----------------------------------------------------------------------------
(* Requests, from outside, between two calls; without overlapping steps,   *)
(* between the output of one step and the schedule of the next.            *)

Outside == pc = "idle" /\ (flight = <<>> \/ Async)
OutsideVars == <<pc, call, upd, flight>>

\* add_request of a new request.  Sessions are added only where steps do not overlap:
\* a session that stops while another of its steps is in flight, or while it is
\* preempted, is not handled by the code (README, "Sessions").
AddRequest(r) ==
  LET st == IF r \in Grammars THEN "grammar" ELSE "waiting" IN
  /\ Outside /\ status[r] = "absent" /\ (r \in Sessions => ~ Async)
  /\ requests' = requests \cup {r} /\ status' = [status EXCEPT ![r] = st]
  /\ tokens' = [tokens EXCEPT ![r] = PromptLen[r]]
  /\ prompt' = [prompt EXCEPT ![r] = PromptLen[r]]
  /\ Enqueue(r, st)
  /\ UNCHANGED <<running, output, computed, spec, holders, chunk, preempts, inflight, streamVars,
                 kvVars, fenceVars, xferVars, miscVars, OutsideVars, upsets>>

\* _update_request_as_session: the prompt becomes what has been computed, without
\* the last sampled token, and the new chunk (of one token).  `all` counts the
\* session's tokens, `done` the computed ones.
Kept(all, done) == IF done < all THEN done ELSE all
NextChunk(r, all, done) ==
  /\ tokens' = [tokens EXCEPT ![r] = Kept(all, done) + 1]
  /\ prompt' = [prompt EXCEPT ![r] =
                  @ + (IF Kept(all, done) > @ THEN Kept(all, done) - @ ELSE 0) + 1]
  /\ output' = [output EXCEPT ![r] = 0]

\* add_request of a known session: an update is queued while the session is at
\* work; one that waits for input goes on with it, still in skipped_waiting.
SendUpdate(r) ==
  /\ Outside /\ r \in requests /\ toSend[r] > 1
  /\ toSend' = [toSend EXCEPT ![r] = @ - 1]
  /\ IF status[r] # "streaming"
       THEN /\ updates' = [updates EXCEPT ![r] = Append(@, "chunk")]
            /\ UNCHANGED <<status, tokens, prompt, output, numStreaming>>
       ELSE /\ NextChunk(r, tokens[r], computed[r])
            /\ status' = [status EXCEPT ![r] = "waiting"]
            /\ numStreaming' = numStreaming - 1
            /\ UNCHANGED updates
  /\ UNCHANGED <<requests, waiting, skippedWaiting, running, computed, spec, holders, chunk,
                 preempts, inflight, kvVars, fenceVars, xferVars, miscVars, OutsideVars, upsets>>

\* finish_requests of one request that has not finished.
FinishRequestUncounted(r) ==
  LET load == IF status[r] = "remote" /\ r \notin finishedRecv THEN {r} ELSE {} IN
  /\ running' = Without(running, {r})
  /\ waiting' = Without(waiting, {r}) /\ skippedWaiting' = Without(skippedWaiting, {r})
  /\ UNCHANGED numStreaming
  /\ finishedRecv' = finishedRecv \ {r} /\ failedRecv' = failedRecv \ {r}
  /\ FreeRequests({r}, load)
FinishRequestAtOnce(r) ==
  /\ running' = Without(running, {r})
  /\ waiting' = Without(waiting, {r}) /\ skippedWaiting' = Without(skippedWaiting, {r})
  /\ numStreaming' = IF status[r] = "streaming" THEN numStreaming - 1 ELSE numStreaming
  /\ finishedRecv' = finishedRecv \ {r} /\ failedRecv' = failedRecv \ {r}
  /\ FreeRequests({r}, {})
FinishRequest(r) ==
  LET load == IF status[r] = "remote" /\ r \notin finishedRecv THEN {r} ELSE {} IN
  /\ running' = Without(running, {r})
  /\ waiting' = Without(waiting, {r}) /\ skippedWaiting' = Without(skippedWaiting, {r})
  /\ numStreaming' = IF status[r] = "streaming" THEN numStreaming - 1 ELSE numStreaming
  /\ finishedRecv' = finishedRecv \ {r} /\ failedRecv' = failedRecv \ {r}
  /\ FreeRequests({r}, load)

\* The session's finished sentinel: queued, or the end of a waiting session.
EndSession(r) ==
  /\ Outside /\ r \in requests /\ toSend[r] = 1
  /\ toSend' = [toSend EXCEPT ![r] = 0]
  /\ IF status[r] # "streaming"
       THEN /\ updates' = [updates EXCEPT ![r] = Append(@, "end")]
            /\ UNCHANGED <<queueVars, numStreaming, kvVars, inflight, finishedIds, xferVars>>
       ELSE /\ FinishRequest(r)
            /\ UNCHANGED <<updates, loading>>
  /\ UNCHANGED <<countVars, chunk, preempts, fenceVars, configVars, paused, capacityBound,
                 grammarReady, OutsideVars, upsets>>

\* finish_requests, for a client that went away.
Abort(r) ==
  /\ Outside /\ Upset /\ r \in requests /\ status[r] # "finished"
  /\ FinishRequest(r)
  /\ UNCHANGED <<countVars, chunk, preempts, updates, toSend, fenceVars, loading, configVars,
                 paused, capacityBound, grammarReady, OutsideVars>>

\* The structured output manager has compiled the grammar of r.
GrammarCompiled(r) ==
  /\ Outside /\ r \in Grammars /\ r \in requests /\ r \notin grammarReady
  /\ grammarReady' = grammarReady \cup {r}
  /\ UNCHANGED <<queueVars, countVars, chunk, preempts, inflight, streamVars, kvVars, fenceVars,
                 xferVars, configVars, finishedIds, paused, capacityBound, OutsideVars, upsets>>

\* set_pause_state.
Pause(state) ==
  /\ Outside /\ paused # state
  /\ state # "unpaused" => Upset
  /\ state = "unpaused" => UNCHANGED upsets
  /\ paused' = state
  /\ UNCHANGED <<queueVars, countVars, chunk, preempts, inflight, streamVars, kvVars, fenceVars,
                 xferVars, configVars, finishedIds, capacityBound, grammarReady, OutsideVars>>

\* reset_prefix_cache(reset_running_requests): the running requests are preempted
\* from the last to the first, each to the head of `waiting`.  Taken with the engine
\* drained: how the output of steps in flight is discarded is not in the repository.
ResetPrefixCache ==
  /\ Outside /\ Upset /\ running # <<>> /\ flight = <<>>
  /\ Preempt({r \in Requests : InQueue(running, r)})
  /\ running' = <<>> /\ PutBack(running)
  /\ UNCHANGED <<requests, skippedWaiting, tokens, prompt, output, holders, chunk, streamVars,
                 fenceVars, xferVars, miscVars, OutsideVars>>

-----------------------------------------------------------------------------
(* schedule(): first the running requests.                                 *)

\* get_num_unfinished_requests, has_finished_requests and has_requests: what the
\* engine's loop asks before it schedules.
NumUnfinished ==
  CASE paused = "pausedAll" -> 0
    [] paused = "pausedNew" -> Len(running)
    [] OTHER -> Len(waiting) + Len(skippedWaiting) - numStreaming + Len(running)
HasFinished ==
  \/ finishedIds # {}
  \/ /\ HasConnector
     /\ Cardinality(requests) > Len(waiting) + Len(skippedWaiting) + Len(running)
HasRequests == NumUnfinished > 0 \/ HasFinished \/ sending # {}

\* A throttled step puts off all prefills, unless the last batch of prefills left
\* requests waiting; it does so only beside decodes.
BeginSchedule(throttle) ==
  /\ pc = "idle" /\ HasRequests /\ Len(flight) < maxBatches
  /\ throttle => Upset
  /\ ~ throttle => UNCHANGED upsets
  /\ call' = [NoCall EXCEPT
                !.budget = IF paused = "pausedAll" THEN 0 ELSE MaxScheduledTokens,
                !.deferring = throttle /\ ~ capacityBound
                              /\ \E i \in 1 .. Len(running) : ~ chunk[running[i]]]
  /\ pc' = "running"
  /\ UNCHANGED <<queueVars, countVars, chunk, preempts, inflight, streamVars, kvVars, fenceVars,
                 xferVars, miscVars, upd, flight>>

Capped(n) == IF 0 < LongPrefillThreshold /\ LongPrefillThreshold < n
             THEN LongPrefillThreshold ELSE n
NumNewTokens(r) ==
  Min({Capped(tokens[r] + spec[r] + holders[r] - computed[r]), call.budget, MaxModelLen - computed[r] - 1})

MoreRunning == pc = "running" /\ call.idx < Len(running) /\ call.budget > 0
Current == running[call.idx + 1]

\* The steps in flight give the request all its tokens even if every draft in them
\* is rejected; or it is a prefill put off.
AlmostDoneLate(r) ==
  holders[r] > 0 /\ computed[r] + 2 - holders[r] > prompt[r] + MaxTokens[r]
AlmostDone(r) ==
  holders[r] > 0 /\ computed[r] + 2 - holders[r] >= prompt[r] + MaxTokens[r]
PassedOver(r) == AlmostDone(r) \/ (call.deferring /\ chunk[r])

\* Nothing to do for the request: the next one.
SkipRunning ==
  /\ MoreRunning
  /\ PassedOver(Current) \/ NumNewTokens(Current) = 0
  /\ call' = [call EXCEPT !.idx = @ + 1]
  /\ UNCHANGED <<queueVars, countVars, chunk, preempts, inflight, streamVars, kvVars, fenceVars,
                 xferVars, miscVars, pc, upd, flight, upsets>>

Wanted(r) == NewBlocks(r, computed[r] + NumNewTokens(r) + NumSpecTokens)

\* The request gets its blocks, its tokens and as many of its draft tokens as fit.
ScheduleRunning(r) ==
  LET n == NumNewTokens(r)
      drafts == n + computed[r] - tokens[r] - holders[r] IN
  /\ MoreRunning /\ r = Current /\ ~ PassedOver(r) /\ n # 0
  /\ \E b \in Grabs(Wanted(r)) : free' = free \ b /\ held' = [held EXCEPT ![r] = @ \cup b]
  /\ call' = [call EXCEPT !.idx = @ + 1, !.budget = @ - n, !.sched[r] = n,
                          !.order = Append(@, r), !.batch = @ \cup {r},
                          !.prefill = @ \/ chunk[r],
                          !.spec[r] = IF spec[r] > 0 /\ drafts > 0
                                      THEN Min({spec[r], drafts}) ELSE 0]
  /\ spec' = [spec EXCEPT ![r] = 0]
  /\ UNCHANGED <<queueVars, tokens, prompt, output, computed, holders, chunk, preempts, inflight,
                 streamVars, deferred, fenceVars, xferVars, miscVars, pc, upd, flight, upsets>>

\* The pool cannot give the blocks: the last running request is preempted, and the
\* loop ends when that is the request itself.
PreemptLast(victim) ==
  /\ MoreRunning /\ ~ PassedOver(Current) /\ NumNewTokens(Current) # 0
  /\ Wanted(Current) > Cardinality(free)
  /\ victim = Last(running) /\ Preempt({victim})
  /\ running' = Front(running) /\ PutBack(<<victim>>)
  /\ call' = [call EXCEPT !.preempted = TRUE]
  /\ pc' = IF victim = Current THEN "done" ELSE "running"
  /\ UNCHANGED <<requests, skippedWaiting, tokens, prompt, output, holders, chunk, streamVars,
                 fenceVars, xferVars, miscVars, upd, flight, upsets>>

\* Waiting requests are admitted only if none was preempted and nothing is paused.
EndRunning ==
  /\ pc = "running" /\ ~ MoreRunning
  /\ pc' = IF ~ call.preempted /\ paused = "unpaused" THEN "waiting" ELSE "done"
  /\ UNCHANGED <<queueVars, countVars, chunk, preempts, inflight, streamVars, kvVars, fenceVars,
                 xferVars, miscVars, call, upd, flight, upsets>>

-----------------------------------------------------------------------------
(* schedule(): then the waiting ones.                                      *)

SomeWaiting == waiting # <<>> \/ skippedWaiting # <<>>

\* [issue27-hotfix]: no admission while enough partial prefills are in flight.
GateOpenOffByOne ==
  MaxPartialPrefills = 0 \/ Cardinality(inflight) <= MaxPartialPrefills
GateOpen == MaxPartialPrefills = 0 \/ Cardinality(inflight) < MaxPartialPrefills

\* Paused sessions are not running and still hold a slot of the model runner.
SlotFreeUnstreamed == Len(running) < MaxRunningReqs
SlotFree == Len(running) + numStreaming < MaxRunningReqs

MayAdmit == pc = "waiting" /\ SomeWaiting /\ call.budget > 0 /\ SlotFree /\ GateOpen

\* _select_waiting_queue_for_scheduling and peek_request, under FCFS.
Candidate == IF skippedWaiting # <<>> THEN Head(skippedWaiting) ELSE Head(waiting)
PopCandidate ==
  IF skippedWaiting # <<>>
    THEN skippedWaiting' = Tail(skippedWaiting) /\ UNCHANGED waiting
    ELSE waiting' = Tail(waiting) /\ UNCHANGED skippedWaiting

\* What _try_promote_blocked_waiting_request promotes.
Promotable(r) ==
  \/ status[r] = "remote" /\ r \in finishedRecv
  \/ status[r] = "grammar" /\ r \in grammarReady

SkipCandidate ==
  /\ PopCandidate
  /\ call' = [call EXCEPT !.passed = Append(@, Candidate)]
  /\ UNCHANGED <<requests, status, running, countVars, chunk, preempts, inflight, streamVars,
                 kvVars, fenceVars, xferVars, miscVars, pc, upd, flight>>

SkipBlocked ==
  /\ MayAdmit /\ status[Candidate] \in BlockedStatus /\ ~ Promotable(Candidate)
  /\ SkipCandidate /\ UNCHANGED upsets

\* The connector cannot tell yet how much it has for the request.
SkipUndecided ==
  /\ MayAdmit /\ Upset /\ HasConnector
  /\ status[Candidate] \notin BlockedStatus /\ computed[Candidate] = 0
  /\ SkipCandidate

\* Where a request goes on once its load is over: what did not load is computed
\* again, and so is the last token, to sample the next one (_update_waiting_for_remote_kv).
LoadedTokensWhole(r) == computed[r]
LoadedTokens(r) ==
  IF r \notin failedRecv /\ computed[r] = tokens[r] THEN tokens[r] - 1 ELSE computed[r]

Promote(r) ==
  LET retry == r \in failedRecv /\ computed[r] = 0 IN
  /\ MayAdmit /\ r = Candidate /\ Promotable(r)
  /\ status' = [status EXCEPT ![r] =
                  IF status[r] = "remote" /\ preempts[r] THEN "preempted" ELSE "waiting"]
  /\ computed' = [computed EXCEPT ![r] = IF status[r] = "remote" THEN LoadedTokens(r) ELSE @]
  /\ held' = [held EXCEPT ![r] = IF retry THEN {} ELSE @]
  /\ free' = IF retry THEN free \cup held[r] ELSE free
  /\ finishedRecv' = finishedRecv \ {r} /\ failedRecv' = failedRecv \ {r}
  /\ UNCHANGED <<requests, waiting, skippedWaiting, running, tokens, prompt, output, spec, holders,
                 chunk, preempts, inflight, streamVars, deferred, fenceVars, loading, sending, miscVars,
                 pc, call, upd, flight, upsets>>

\* allocate_slots for a candidate: its blocks for n tokens, beside `reserved` ones.
Fits(r, n, reserved) ==
  /\ NewBlocks(r, n) + reserved <= Cardinality(free)
  /\ ReserveFullIsl => NewBlocks(r, tokens[r]) + reserved <= Cardinality(free)
Allocate(r, n) ==
  \E b \in Grabs(NewBlocks(r, n)) : free' = free \ b /\ held' = [held EXCEPT ![r] = @ \cup b]

\* get_num_new_matched_tokens: how many of the tokens the connector has, and
\* whether it loads them in the background.
Matches(r) ==
  IF computed[r] > 0 THEN {[ext |-> 0, async |-> FALSE]}
  ELSE {[ext |-> 0, async |-> FALSE]}
       \cup (IF Remote[r] > 0 THEN {[ext |-> Min({Remote[r], tokens[r]}), async |-> TRUE]}
             ELSE {})
       \cup (IF SyncRemote[r] > 0 /\ tokens[r] > 1
               THEN {[ext |-> Min({SyncRemote[r], tokens[r] - 1}), async |-> FALSE]} ELSE {})

CanBeAdmitted(r) == MayAdmit /\ r = Candidate /\ status[r] \notin BlockedStatus

\* An asynchronous load holds its blocks for the whole transfer: it is admitted
\* beside what the prefills in flight still need, and waits for its tokens.
AdmitLoad(r) ==
  /\ CanBeAdmitted(r)
  /\ \E m \in Matches(r) :
       /\ m.async
       /\ Fits(r, m.ext, ReservedBlocks) /\ Allocate(r, m.ext)
       /\ computed' = [computed EXCEPT ![r] = m.ext]
  /\ status' = [status EXCEPT ![r] = "remote"]
  /\ inflight' = inflight \cup {r} /\ loading' = loading \cup {r}
  /\ PopCandidate /\ call' = [call EXCEPT !.passed = Append(@, r)]
  /\ UNCHANGED <<requests, running, tokens, prompt, output, spec, holders, chunk, preempts,
                 streamVars, deferred, fenceVars, sending, finishedRecv, failedRecv, miscVars, pc, upd,
                 flight, upsets>>

\* A decode that joins a batch of decodes is padded to their speculative size.
Pads(r, done) ==
  NumSpecTokens > 0 /\ tokens[r] - done = 1 /\ call.batch # {} /\ ~ call.prefill
AdmitTokens(r, done) ==
  Min({Capped(IF Pads(r, done) THEN 1 + NumSpecTokens ELSE tokens[r] - done), call.budget})
PutOff(r, done) ==
  \/ call.deferring /\ done < tokens[r] - 1
  \/ /\ Pads(r, done)
     /\ 1 + NumSpecTokens > call.budget \/ done + 1 + NumSpecTokens > MaxModelLen

Admit(r) ==
  /\ CanBeAdmitted(r)
  /\ \E m \in Matches(r) :
       LET done == computed[r] + m.ext
           n == AdmitTokens(r, done) IN
       /\ ~ m.async /\ ~ PutOff(r, done)
       /\ Fits(r, done + n + NumSpecTokens, 0) /\ Allocate(r, done + n + NumSpecTokens)
       /\ computed' = [computed EXCEPT ![r] = done]
       /\ inflight' = IF done + n < tokens[r] THEN inflight \cup {r} ELSE inflight
       /\ call' = [call EXCEPT !.budget = @ - n, !.sched[r] = n, !.order = Append(@, r),
                               !.spec[r] = IF Pads(r, done) THEN NumSpecTokens ELSE 0,
                               !.loads = IF m.ext > 0 THEN @ \cup {r} ELSE @]
  /\ status' = [status EXCEPT ![r] = "running"] /\ running' = Append(running, r)
  /\ PopCandidate
  /\ UNCHANGED <<requests, tokens, prompt, output, spec, holders, chunk, preempts, streamVars,
                 deferred, fenceVars, xferVars, miscVars, pc, upd, flight, upsets>>

\* The loop ends: nothing waits, a limit is reached, or the first in the queue
\* cannot be admitted.  What was skipped goes, in its order (it is prepended twice),
\* ahead of what was skipped before.
Refused(r) ==
  \E m \in Matches(r) :
    LET done == computed[r] + m.ext IN
    IF m.async THEN ~ Fits(r, m.ext, ReservedBlocks)
    ELSE \/ PutOff(r, done)
         \/ ~ Fits(r, done + AdmitTokens(r, done) + NumSpecTokens, 0)
RequeuedOlder == skippedWaiting
Requeued == call.passed \o skippedWaiting
EndWaiting ==
  /\ pc = "waiting"
  /\ MayAdmit => status[Candidate] \notin BlockedStatus /\ Refused(Candidate)
  /\ skippedWaiting' = Requeued
  /\ capacityBound' = IF call.deferring THEN capacityBound ELSE waiting # <<>>
  /\ pc' = "done"
  /\ UNCHANGED <<requests, status, waiting, running, countVars, chunk, preempts, inflight,
                 streamVars, kvVars, fenceVars, xferVars, configVars, finishedIds, paused,
                 grammarReady, call, upd, flight, upsets>>

\* The end of schedule() and _update_after_schedule: the step is handed to the
\* model runner, and its tokens count as computed.
FinishSchedule ==
  LET S == ToSet(call.order)
      done == [r \in Requests |-> computed[r] + call.sched[r]]
      seq == IF DeferBlockFree /\ S # {} THEN schedSeq + 1 ELSE schedSeq
      partial == {r \in S : done[r] < tokens[r] + holders[r]}
      sampled == IF Async THEN S \ partial ELSE {} IN
  /\ pc = "done"
  /\ computed' = done /\ schedSeq' = seq
  /\ lastSeq' = [r \in Requests |-> IF DeferBlockFree /\ r \in S THEN seq ELSE lastSeq[r]]
  /\ chunk' = [r \in Requests |-> IF r \in S THEN r \in partial ELSE chunk[r]]
  /\ inflight' = inflight \ (S \ partial)
  /\ holders' = [r \in Requests |->
                   IF r \in sampled THEN holders[r] + 1 + call.spec[r] ELSE holders[r]]
  /\ spec' = [r \in Requests |-> IF r \in sampled THEN NumSpecTokens ELSE spec[r]]
  /\ flight' = Append(flight, [seq |-> seq, order |-> call.order, sched |-> call.sched,
                               spec |-> call.spec, samples |-> S \ partial,
                               uses |-> UNION {{r} \X held[r] : r \in S}, loads |-> call.loads])
  /\ finishedIds' = {}
  /\ pc' = "idle" /\ call' = NoCall
  /\ UNCHANGED <<queueVars, tokens, prompt, output, preempts, streamVars, kvVars,
                 processedSeq, xferVars, configVars, paused, capacityBound, grammarReady, upd,
                 upsets>>

-----------------------------------------------------------------------------
(* update_from_output(), for the oldest step in flight.                    *)

\* The writes of the step and of those before are over: blocks whose fence it
\* was go back to the pool (_drain_deferred_frees).
DrainedEarly(seq) == {d \in deferred : d[1] <= seq + 1}
DrainedLate(seq) == {d \in deferred : d[1] < seq}
Drained(seq) == {d \in deferred : d[1] <= seq}

\* `failing` are the requests whose load failed, `skip` those the loop passes over.
BeginStep(skip, failing) ==
  LET step == Head(flight)
      seq == IF DeferBlockFree /\ step.order # <<>> THEN processedSeq + 1 ELSE processedSeq IN
  /\ flight' = Tail(flight)
  /\ processedSeq' = seq
  /\ deferred' = deferred \ Drained(seq)
  /\ free' = free \cup {d[2] : d \in Drained(seq)}
  /\ upd' = [NoUpdate EXCEPT !.step = step, !.todo = step.order, !.skip = skip,
                             !.failing = failing]
  /\ pc' = "update"
  /\ UNCHANGED <<queueVars, tokens, prompt, output, spec, holders, chunk, preempts, inflight,
                 streamVars, held, schedSeq, lastSeq, loading, sending, finishedRecv, miscVars, call>>

BeginUpdate ==
  /\ pc = "idle" /\ flight # <<>>
  /\ BeginStep({}, {})
  /\ UNCHANGED <<computed, failedRecv, upsets>>

\* _handle_invalid_blocks: the blocks of r from the (k+1)-th on did not load.  A
\* request with an asynchronous load is marked, to be retried when the load is over.
FailLoad ==
  \E r \in loading, k \in 0 .. MaxModelLen :
    /\ pc = "idle" /\ flight # <<>> /\ Upset
    /\ status[r] = "remote" /\ r \notin finishedRecv /\ k < BlocksFor(computed[r])
    /\ computed' = [computed EXCEPT ![r] = k * BlockSize]
    /\ failedRecv' = IF recompute THEN failedRecv \cup {r} ELSE failedRecv
    /\ BeginStep({}, IF recompute THEN {} ELSE {r})

\* One with a synchronous load computes its tokens again, as far as it still runs.
FailSyncLoad ==
  \E r \in Requests, k \in 0 .. MaxModelLen :
    /\ pc = "idle" /\ flight # <<>> /\ Upset
    /\ r \in Head(flight).loads /\ InQueue(running, r)
    /\ k < BlocksFor(computed[r] - Head(flight).sched[r]) /\ k * BlockSize < SyncRemote[r]
    /\ computed' = [computed EXCEPT ![r] = k * BlockSize]
    /\ BeginStep({r}, IF recompute THEN {} ELSE {r})
    /\ UNCHANGED failedRecv

MoreOutputs == pc = "update" /\ upd.todo # <<>>
Sampler == Head(upd.todo)
Ignored(r) ==
  \/ r \in upd.skip \/ r \notin requests \/ status[r] = "finished"
  \/ r \notin upd.step.samples

\* A request that failed to load, that has finished meanwhile, or that sampled
\* nothing because it still prefills.
IgnoreOutput ==
  /\ MoreOutputs /\ Ignored(Sampler)
  /\ upd' = [upd EXCEPT !.todo = Tail(@)]
  /\ UNCHANGED <<queueVars, countVars, chunk, preempts, inflight, streamVars, kvVars, fenceVars,
                 xferVars, miscVars, pc, call, flight, upsets>>

\* After m sampled tokens, of which the request keeps some: the rejected drafts are
\* neither computed nor to come.
Rejected(r, m) == upd.step.spec[r] - (m - 1)
SettledAlways(r, m) == IF upd.step.spec[r] > 0 THEN computed[r] - Rejected(r, m) ELSE computed[r]
Settled(r, m) ==
  IF upd.step.spec[r] > 0 /\ computed[r] > 0 THEN computed[r] - Rejected(r, m) ELSE computed[r]
SettleHolding(r, m, kept) ==
  /\ computed' = [computed EXCEPT ![r] = Settled(r, m)]
  /\ holders' = [holders EXCEPT ![r] = @ - (IF Async THEN kept ELSE 0)]
Settle(r, m, kept) ==
  /\ computed' = [computed EXCEPT ![r] = Settled(r, m)]
  /\ holders' = [holders EXCEPT ![r] =
       (IF upd.step.spec[r] > 0 /\ @ > 0 THEN @ - Rejected(r, m) ELSE @)
       - (IF Async THEN kept ELSE 0)]

\* check_stop after `kept` of the sampled tokens: a stop token, or a limit.
AtLimit(r, kept) == output[r] + kept >= MaxTokens[r] \/ tokens[r] + kept >= MaxModelLen

AppendOutput(r, kept) ==
  /\ tokens' = [tokens EXCEPT ![r] = @ + kept]
  /\ output' = [output EXCEPT ![r] = @ + kept]

\* The request goes on.
OutputGoesOn(r) ==
  /\ MoreOutputs /\ r = Sampler /\ ~ Ignored(r)
  /\ \E m \in 1 .. (1 + upd.step.spec[r]) :
       /\ ~ \E i \in 1 .. m : AtLimit(r, i)
       /\ AppendOutput(r, m) /\ Settle(r, m, m)
  /\ upd' = [upd EXCEPT !.todo = Tail(@)]
  /\ UNCHANGED <<queueVars, prompt, spec, chunk, preempts, inflight, streamVars, kvVars,
                 fenceVars, xferVars, miscVars, pc, call, flight, upsets>>

\* The request stops after some of the sampled tokens, the rest is dropped.
Stops(r, m, kept) ==
  /\ m \in 1 .. (1 + upd.step.spec[r]) /\ kept \in 1 .. m
  /\ ~ \E i \in 1 .. (kept - 1) : AtLimit(r, i)

\* It is then removed from `running`, or from `waiting` if it was preempted meanwhile.
Stopped(r) ==
  upd' = IF status[r] = "running"
         THEN [upd EXCEPT !.todo = Tail(@), !.stopped = @ \cup {r}]
         ELSE [upd EXCEPT !.todo = Tail(@), !.stoppedWaiting = @ \cup {r}]

\* A request that is not a session, or whose session has ended, or whose grammar
\* rejects the tokens, is finished.
OutputFinishes(r) ==
  /\ MoreOutputs /\ r = Sampler /\ ~ Ignored(r)
  /\ \E m, kept \in 1 .. (1 + NumSpecTokens) :
       /\ Stops(r, m, kept)
       /\ AppendOutput(r, kept) /\ Settle(r, m, kept)
  /\ \/ r \notin Sessions /\ UNCHANGED <<updates, upsets>>
     \/ /\ r \in Sessions /\ updates[r] # <<>> /\ Head(updates[r]) = "end"
        /\ updates' = [updates EXCEPT ![r] = Tail(@)] /\ UNCHANGED upsets
     \/ r \in Grammars /\ Upset /\ UNCHANGED updates
  /\ FreeRequests({r}, {})
  /\ Stopped(r)
  /\ UNCHANGED <<waiting, skippedWaiting, running, prompt, spec, chunk, preempts, toSend,
                 numStreaming, fenceVars, loading, finishedRecv, failedRecv, configVars, paused,
                 capacityBound, grammarReady, pc, call, flight>>

\* _handle_stopped_request of a session: it goes on with the next input it has
\* queued, or keeps its blocks and waits for input.
SessionGoesOn(r) ==
  /\ MoreOutputs /\ r = Sampler /\ ~ Ignored(r)
  /\ r \in Sessions /\ updates[r] # <<>> /\ Head(updates[r]) = "chunk"
  /\ \E m, kept \in 1 .. (1 + NumSpecTokens) :
       /\ Stops(r, m, kept)
       /\ NextChunk(r, tokens[r] + kept, Settled(r, m))
       /\ Settle(r, m, kept)
  /\ updates' = [updates EXCEPT ![r] = Tail(@)]
  /\ status' = [status EXCEPT ![r] = "waiting"] /\ Enqueue(r, "waiting")
  /\ Stopped(r)
  /\ UNCHANGED <<requests, running, spec, chunk, preempts, inflight, toSend, numStreaming,
                 kvVars, fenceVars, xferVars, miscVars, pc, call, flight, upsets>>
SessionPauses(r) ==
  /\ MoreOutputs /\ r = Sampler /\ ~ Ignored(r)
  /\ r \in Sessions /\ updates[r] = <<>>
  /\ \E m, kept \in 1 .. (1 + NumSpecTokens) :
       /\ Stops(r, m, kept)
       /\ AppendOutput(r, kept) /\ Settle(r, m, kept)
  /\ status' = [status EXCEPT ![r] = "streaming"] /\ Enqueue(r, "streaming")
  /\ numStreaming' = numStreaming + 1
  /\ Stopped(r)
  /\ UNCHANGED <<requests, running, prompt, spec, chunk, preempts, inflight, updates, toSend,
                 kvVars, fenceVars, xferVars, miscVars, pc, call, flight, upsets>>

\* The stopped requests leave the queues.
RemoveStopped ==
  /\ pc = "update" /\ upd.todo = <<>>
  /\ running' = Without(running, upd.stopped)
  /\ waiting' = Without(waiting, upd.stoppedWaiting)
  /\ pc' = "failures"
  /\ UNCHANGED <<requests, status, skippedWaiting, countVars, chunk, preempts, inflight,
                 streamVars, kvVars, fenceVars, xferVars, miscVars, call, upd, flight, upsets>>

\* Without recomputation, the request whose load failed is finished.
FailRequests ==
  /\ pc = "failures"
  /\ IF \E r \in upd.failing : status[r] # "finished"
       THEN \E r \in Requests : r \in upd.failing /\ FinishRequest(r)
       ELSE UNCHANGED <<queueVars, numStreaming, kvVars, inflight, finishedIds, sending,
                        finishedRecv, failedRecv>>
  /\ pc' = "transfers"
  /\ UNCHANGED <<countVars, chunk, preempts, updates, toSend, fenceVars, loading, configVars,
                 paused, capacityBound, grammarReady, call, upd, flight, upsets>>

\* update_draft_token_ids: the requests of the step get new drafts, those still in
\* prefill none (asynchronous steps keep theirs in the model runner).
DraftTokens(r) ==
  IF ~ Async /\ r \in ToSet(upd.step.order) \cap requests /\ status[r] # "finished"
    THEN (IF chunk[r] THEN 0 ELSE NumSpecTokens)
    ELSE spec[r]

\* _update_from_kv_xfer_finished, with which an update ends, and the new drafts: R
\* have received their tokens, S have sent theirs.
FinishUpdate(R, S) ==
  LET gone == S \cup {r \in R : status[r] = "finished"} IN
  /\ pc = "transfers" /\ R \subseteq loading /\ S \subseteq sending
  /\ finishedRecv' = finishedRecv \cup (R \ gone)
  /\ loading' = loading \ R /\ sending' = sending \ S
  /\ requests' = requests \ gone
  /\ FreeBlocks(gone)
  /\ spec' = [r \in Requests |-> DraftTokens(r)]
  /\ pc' = "idle" /\ upd' = NoUpdate
  /\ UNCHANGED <<status, waiting, skippedWaiting, running, tokens, prompt, output, computed,
                 holders, chunk, preempts, inflight, streamVars, fenceVars, failedRecv, miscVars, call,
                 flight, upsets>>

-----------------------------------------------------------------------------
RequestStep ==
  \/ \E r \in Requests : \/ AddRequest(r) \/ SendUpdate(r) \/ EndSession(r) \/ Abort(r)
                         \/ GrammarCompiled(r)
  \/ \E state \in PauseState : Pause(state)
  \/ ResetPrefixCache
ScheduleStep ==
  \/ SkipRunning \/ EndRunning \/ SkipBlocked \/ SkipUndecided \/ EndWaiting \/ FinishSchedule
  \/ \E r \in Requests : \/ ScheduleRunning(r) \/ PreemptLast(r)
                         \/ Promote(r) \/ AdmitLoad(r) \/ Admit(r)
UpdateStep ==
  \/ IgnoreOutput \/ RemoveStopped \/ FailRequests
  \/ \E r \in Requests : \/ OutputGoesOn(r) \/ OutputFinishes(r)
                         \/ SessionGoesOn(r) \/ SessionPauses(r)
  \/ \E R, S \in SUBSET Requests : FinishUpdate(R, S)
Next ==
  \/ RequestStep
  \/ \E throttle \in BOOLEAN : BeginSchedule(throttle)
  \/ ScheduleStep
  \/ BeginUpdate \/ FailLoad \/ FailSyncLoad
  \/ UpdateStep

Spec == Init /\ [][Next]_vars

\* The engine's loop goes on as long as there are requests: a call is carried
\* through, steps are scheduled and their outputs processed, in turn.
FairSpec ==
  /\ Spec
  /\ WF_vars(ScheduleStep) /\ WF_vars(UpdateStep)
  /\ WF_vars(BeginSchedule(FALSE)) /\ WF_vars(BeginUpdate)

-----------------------------------------------------------------------------
(* What the scheduler owes its requests and its pool.                      *)

InQueues(r) == InQueue(waiting, r) \/ InQueue(skippedWaiting, r) \/ InQueue(call.passed, r)
Alive(r) == r \in requests /\ status[r] # "finished"

\* update_from_output finishes the requests that stop or fail only at its end.
Settling == pc \in {"update", "failures"}

\* Every state variable has its type; above all no count goes below zero, however
\* the outputs of a preempted or truncated request arrive (the guard on the
\* rejected drafts, scheduler.py:1617).
TypeOK ==
  /\ requests \subseteq Requests /\ status \in [Requests -> Status]
  /\ waiting \in Seq(Requests) /\ skippedWaiting \in Seq(Requests) /\ running \in Seq(Requests)
  /\ tokens \in [Requests -> Nat] /\ prompt \in [Requests -> Nat]
  /\ output \in [Requests -> Nat] /\ computed \in [Requests -> Nat]
  /\ spec \in [Requests -> Nat] /\ holders \in [Requests -> Nat]
  /\ inflight \subseteq Requests /\ numStreaming \in Nat
  /\ free \subseteq Blocks /\ held \in [Requests -> SUBSET Blocks]
  /\ loading \subseteq Requests /\ sending \subseteq Requests
  /\ finishedRecv \subseteq Requests /\ failedRecv \subseteq Requests
  /\ call.budget \in Nat /\ call.sched \in [Requests -> Nat] /\ paused \in PauseState

\* Every block of the pool is free, waits for a step in flight, or belongs to one
\* request, and to one of them only: nothing leaks and nothing is shared, through
\* preemptions, aborts, transfers and deferred frees (scheduler.py:2145-2172).
EveryBlockOnce ==
  /\ \A b \in Blocks : \/ b \in free
                       \/ \E d \in deferred : d[2] = b
                       \/ \E r \in Requests : b \in held[r]
  /\ \A r \in Requests : held[r] \cap free = {}
  /\ \A r, q \in Requests : held[r] \cap held[q] # {} => r = q
  /\ \A d \in deferred : d[2] \notin free /\ \A r \in Requests : d[2] \notin held[r]
  /\ \A d, e \in deferred : d[2] = e[2] => d = e

\* With a connector and overlapping steps, a block that a step in flight writes is
\* neither free nor another request's, whatever became of the request it was
\* scheduled for ("defer freeing them", scheduler.py:146-152).
NoReuseInFlight ==
  DeferBlockFree =>
    \A i \in 1 .. Len(flight) : \A u \in flight[i].uses :
      u[2] \notin free /\ \A r \in Requests \ {u[1]} : u[2] \notin held[r]

\* A deferred block waits for a step that is in flight and that _drain_deferred_frees
\* will be called for: sched_step_seq and processed_step_seq, which are counted in two
\* places (scheduler.py:1143, :1530), never drift apart, through empty steps, late
\* aborts and preemptions, so no block is withheld for ever.
FencesAreReached ==
  \A d \in deferred : \E i \in 1 .. Len(flight) :
    flight[i].seq = d[1] /\ flight[i].order # <<>>

\* While a transfer goes on, its request is known to the scheduler and keeps the
\* blocks it fills or reads, even after an abort; and a load that has ended or
\* failed belongs to a request that still waits for it (the assertions of
\* scheduler.py:2506-2515).
TransfersKeepBlocks ==
  /\ \A r \in loading : /\ r \in requests /\ status[r] \in {"remote", "finished"}
                        /\ r \notin finishedRecv
                        /\ NewBlocks(r, Min({Remote[r], tokens[r]})) = 0
  /\ \A r \in sending : r \in requests /\ status[r] = "finished" /\ held[r] # {}
  /\ \A r \in failedRecv \cup finishedRecv : status[r] = "remote"

\* A request that has not finished is in the queue its status calls for: none is
\* dropped by a skip, a preemption, a promotion or a stop (scheduler.py:1029-1030).
NoRequestIsLost ==
  ~ Settling => \A r \in Requests : Alive(r) =>
    IF status[r] = "running" THEN InQueue(running, r) ELSE InQueues(r)

\* A synchronous load that fails leaves its request out of some books: its prefill
\* starts over uncounted, and the placeholders of its step stay (scheduler.py:1579-1581).
Exempt(r) == SyncRemote[r] > 0 /\ recompute

\* The hotfix's purpose: at most max_num_partial_prefills requests have their prompt
\* in the making, on the model runner or by a load, however they were admitted,
\* preempted and resumed.  (Inside schedule() is_prefill_chunk may still be that of
\* an earlier run of the request.)
PartialPrefillsBounded ==
  MaxPartialPrefills > 0 /\ pc = "idle" =>
    Cardinality({r \in Requests : \/ status[r] = "remote"
                                  \/ status[r] = "running" /\ chunk[r] /\ ~ Exempt(r)})
      <= MaxPartialPrefills

\* num_waiting_for_streaming_input counts the sessions that wait for input, through
\* pauses, updates, ends and aborts: one too many is a slot lost for good.
StreamCountExact == numStreaming = Cardinality({r \in Requests : status[r] = "streaming"})

\* Running requests and paused sessions never exceed max_num_seqs (the assertion
\* of scheduler.py:1042 and the comment at :641).
SlotsHeld == ~ Settling => Len(running) + numStreaming <= MaxRunningReqs

\* What counts as computed is in blocks of the request: nothing counts that a
\* preemption or a failed load took away.
ComputedHasBlocks ==
  \A r \in Requests : Alive(r) => BlocksFor(computed[r]) <= Cardinality(held[r])

\* num_output_placeholders of a request is what its steps in flight, which are two at
\* most, may still give it ("exactly that count", scheduler.py:2234).
Share(step, r) == IF r \in step.samples THEN 1 + step.spec[r] ELSE 0
Due(i, r) == IF i <= Len(flight) THEN Share(flight[i], r) ELSE 0
Placeholders(r) == Due(1, r) + Due(2, r)
HoldersExact ==
  ~ Settling => \A r \in Requests : Alive(r) /\ ~ Exempt(r) =>
    holders[r] = IF Async THEN Placeholders(r) ELSE 0

\* No step is scheduled for a request whose steps in flight are sure to give it the
\* last of its tokens ("Avoid scheduling an extra step", scheduler.py:455).
NoStepPastTheLimit ==
  ~ Settling => \A r \in Requests : Alive(r) /\ ~ Exempt(r) =>
    output[r] + Cardinality({i \in 1 .. Len(flight) : r \in flight[i].samples}) <= MaxTokens[r]

\* Who was preempted goes on before who never ran, so that preemptions cannot
\* starve a request (prepend_request, scheduler.py:1176).
PreemptedFirst ==
  ~ Settling => \A i, j \in 1 .. Len(waiting) :
    i < j /\ status[waiting[j]] = "preempted" => status[waiting[i]] = "preempted"

\* A request that is part of a step has a token to compute in it, also after a
\* load of all its tokens (the assertions of scheduler.py:858 and :1578).
EveryShareIsPositive == \A i \in 1 .. Len(call.order) : call.sched[call.order[i]] > 0

\* A request whose load is over goes on ("so we can schedule the request during
\* the next step", scheduler.py:2496-2497).
LoadedIsPromoted == \A r \in Requests : r \in finishedRecv ~> r \notin finishedRecv
=============================================================================
