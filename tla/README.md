# airo_agent in TLA+

Specifications of `airo_agent`, the per-host agent that runs inference engines for Airo: TLA+
modules translated from `src/lib/`, `src/priv/engine/vllm-slot` and the engine overlays of
`src/deploy/overlays/`, TLC configurations that model-check them on small instances, and TLAPS
proofs for every value of the constants.

## 1. The system

An agent owns a few **slots**: ports on which at most one engine serves at most one model. Airo, a
remote server, decides what goes where; the agent executes and reports. It is one BEAM node with a
flat supervision tree (`application.ex`), and engines are OS processes outside it.

| Component | State it keeps | Operations | Talks to |
|---|---|---|---|
| **Fleet** (`fleet.ex`) | slots (status, model, profile, pid, monitor), intent flags | load, unload, slots; `mark_up` cast; DOWN | calls PeerRanks and the Instances supervisor; casts from Instances; events to the notifier |
| **Instance** (`instance.ex`), under `Instances` | launch, `ready?` | init, `check_ready` every second, EXIT | owns a MuonTrap daemon (SIGTERM, then SIGKILL after 30 s); casts to Fleet |
| **Engine** (external; `llama-server`, or `vllm-slot` and containers) | the port, GPU memory | start, bind, serve, exit | answers `/health` on the port, whoever asks |
| **PeerRanks** (`peer_ranks.ex`) | ranks of other hosts' cluster loads found on this host | poll (`ps`), slots, `held?` | runs the container runtime inside its process; events to the notifier |
| **Channel** (`notifier/channel.ex`), one per Airo | the socket, joined or not | connect, join, resync, publish, heartbeat, disconnect, topic close | calls Fleet and GPU for each register |
| **vllm-slot** (`priv/engine/vllm-slot`) | containers named `airo-slot-<port>` here and on a worker | release the name, launch one or two ranks, wait, clean up | the local container runtime, ssh |
| **Notifier.Supervisor**, application | restart counts | restart children | |
| **Engine adapters** (`engine/*.ex`), Inventory, HFCache, GGUF | a catalogue of models | scan, resolve a profile, build argv, reap orphans | file system, container runtime |
| **HTTP API**, GPU, SlotInfo, config | none, or a telemetry snapshot | | |
| **dspark scheduler** (`deploy/overlays/dspark/scheduler.py`), mounted into the engine's container | queues, token counts, KV blocks, transfers, paused sessions | add, update, finish, `schedule`, `update_from_output`, pause, reset | the model runner, the KV cache manager, the KV connector |
| **GLM-5.3 overlay** (`deploy/overlays/glm53`): `airo-entry.sh` and nine scripts that rewrite the engine's source | the files of one container; then the KV layout, the indexer's workspace, a request's stop guard and grammar | patch, boot, split prefills, decode | the engine it patches |
| **deploy.sh, rollback.sh, the systemd unit** | releases and a symlink | roll out, roll back | ssh, systemd |

What is hard here:

* *Two lifetimes per engine.* Terminating an Instance returns at once; the engine it owned may hold
  its port, and be mid-teardown, for 30 s more. A swap launches the next one meanwhile.
* *Messages that outlive their subject.* A `mark_up` or a DOWN may sit in Fleet's mailbox while the
  slot is given to another engine. Identity is the pid and the monitor reference, never the port;
  the one thing keyed by port, the intent flag, is where it goes wrong (section 4).
* *Blocking calls between servers.* Fleet calls PeerRanks, which runs `ps`; the Channel calls Fleet,
  which may be inside a swap. Each call gives up after 5 s by exiting the caller.
* *A view built from lossy pushes.* Airo sees events, some dropped, and registers, and an event
  queued before a register is pushed after it.
* *Cleanup by name.* Two runs of `vllm-slot` on one slot share container names on two hosts.
* *Steps in flight.* The scheduler schedules the next step before it has the output of the last. What it
  then learns (rejected drafts, a stop, a failed load) concerns requests that may have been preempted,
  aborted or resumed, and blocks that are still being written.
* *Patches of moving files.* The entry scripts run on an image that may hold their own output, an older
  version's, or an upstream that has moved; what they change runs in chunks and windows cut anywhere.

The properties that make the components correct: for **Fleet**, one engine per slot and none
forgotten, `up` only for an engine that is ready, deliberate ends never reported as crashes, an
event stream in which each engine has one consistent life, no slot stuck; for the **Channel**, that
Airo's view loses nothing that was announced and in the end is true; for **vllm-slot**, that every
way to end leaves no container; for **PeerRanks**, that a port held by a peer is not loaded over;
for the **scheduler**, that no block is lost, shared or reused too early, no request is dropped, and
its counts are exact; for the **GLM-5.3 overlay**, that nothing half-patched is served and that the
patched code does what upstream promises, for every cut of its input; for the **supervisors**, that
a notifier fault never stops serving; for the **adapters**, that a profile resolves to what was
asked within the model's limits. `PROJECT.json` lists the hazards line by line.

## 2. The modules

| Module | What it is |
|---|---|
| `SlotBoard` | Abstract: per slot, the last event announced; which event may follow which. |
| `Fleet` | Fleet with Instances, engines and PeerRanks. Implements `SlotBoard`. |
| `FleetProofs` | Proofs about `Fleet`. |
| `MCFleet` | Instances for TLC: symmetry, and a view that ignores the last reply. |
| `Channel`, `MCChannel` | One channel process between the slot sources and one Airo. |
| `ChannelProofs` | Proofs about `Channel`. |
| `VllmSlot`, `MCVllmSlot` | Overlapping runs of the launcher on one slot. |
| `VllmSlotProofs` | Proofs about `VllmSlot`. |
| `Scheduler` | The dspark scheduler with its model runner, block pool and connector. |
| `MCScheduler`, `MCSchedulerPair` | Its instance for safety, and a pair of requests for two findings. |
| `SchedulerQueueProofs` | Proofs about `Scheduler`'s queues: requests, sessions, slots, order. |
| `SchedulerProofs` | Proofs about its blocks and steps in flight: fences, the gate, block reuse, transfers, placeholders. |
| `SchedulerTokenProofs` | Proofs about its token counts. |
| `EntryPatches`, `EngineBoot`, `Decoding` | The GLM-5.3 container: its entry script, the engine's boot and prefills, one request's decoding. |
| `Glm53`, `MCGlm53` | The three in the order of a container's life, and their instance. |
| `DecodingProofs` | Proofs about `Decoding` as part of `Glm53`: stop strings, the grammar. |
| `Glm53Proofs` | Proofs about the entry scripts and the boot, and the types of `Glm53`. |

**Fleet.** A pid, its monitor reference and its engine are one number, given in order, because that
is how Fleet identifies them. `slots` and `intent` are the fields of Fleet's state. The mailbox is two
sets: `upcasts` (pids with a queued `mark_up`) and `downs` (pids with a queued DOWN). Erlang keeps
order only between two processes, so messages of different Instances commute; from one Instance the
cast comes before the DOWN, which `HandleDown` respects. A load is two steps, since Fleet
blocks between eviction and launch while the world goes on: `LoadBegin` (checks, demonitor with
flush, terminate) and `Launch` or `LaunchFails`. While `busy` is set Fleet handles nothing else.
Three sets tell the lifetimes apart: `alive` (Instances), `running` (OS processes), `listening`
(those that hold their port); `CheckReady` is answered by *whoever* listens on the port, as in
the code. `PeerCallTimesOut` is the exit of a call to PeerRanks during a long poll: Fleet restarts
empty while the Instances, children of another supervisor, go on. The wait for the port is not timed:
`Launch` may come at any moment, because the code goes on both when the port is free and when it has
tried 150 times. Event payloads are reduced to type and engine.

**Channel.** A slot's state is a version number, so "at least as new as" can be said. `Transition`
is a change with an event; `SilentTransition` one without (a failed launch after an eviction, a
restart of Fleet; both come out of `Fleet`). `blocked` is a server that answers no call, so that a
register can time out. `Restart` is what a crash costs: socket, mailbox, and nothing else.

**VllmSlot.** `pc` follows the script from the release of the name to the end of the EXIT trap.
`starting` holds launches issued whose container does not exist yet, and `cont` who owns the name on
each host. TERM and KILL come at any point; before the traps are set TERM just ends the script. The
next run starts once its predecessor is gone *or has been sent TERM*, as Fleet does. What the model
knows and the script does not is in three history variables, used only by properties.

**Scheduler.** `schedule` and `update_from_output` are loops over requests, and an iteration is an
action: `ScheduleRunning`, `PreemptLast`, `Promote`, `AdmitLoad`, `Admit` and the skips for the one,
`OutputGoesOn`, `OutputFinishes`, `SessionGoesOn`, `SessionPauses`, `FailRequests` for the other.
`pc` is the position in the call, `call` and `upd` its local variables; the code is single-threaded,
so nothing else happens during a call. Between calls up to `maxBatches` steps are in `flight`, and
clients add, feed, end and abort requests, pause the scheduler or reset the prefix cache. Tokens are
counted, blocks are identities: what the pool, the runner and the connector answer is left open
within what the file assumes of them. The asynchronous subclass of the scheduler is not in the
repository; its one addition (a placeholder per token a step may yet sample) is modelled from how
this file uses it.

**Sessions.** Streaming sessions are added only while steps do not overlap. With overlapping
steps a session can stop while another of its steps is in flight, or while it is preempted:
`_handle_stopped_request` then puts it back into `waiting` (`scheduler.py:1909`), the end of
`update_from_output` takes it out again as a stopped request (`:1777`), and its queued input is lost. The
model excludes the combination and claims nothing of it.

**GLM-5.3.** `EntryPatches` has the text of each place a script edits as one of a few values (the
anchor, twice the anchor, the script's own text, an older version's, upstream's own fix, ...), the
images it may start from, and each script's rule for refusing. `EngineBoot` computes the drafter's
KV layout and the indexer's workspace from a geometry and a configuration, and splits any batch the
scheduler may form. `Decoding` has a request with stop strings, whose text comes in chunks, and one
with a grammar, whose matcher is advanced over drafts and rolled back. `Glm53` runs them in
sequence, so that a file that was refused is never served and nothing decodes before the boot.
`min_tokens` is 0.

Some definitions are preceded by a variant that holds a plausible mistake (`EvictUnflushed`,
`HandleJoinUnregistered`, ...). No action uses them; they document what each property notices, and
`PROJECT.json` pairs them.

## 3. What is checked

| Run | Shows |
|---|---|
| `fleet` | Safety on 2 slots, 2 configurations, 3 engines, 1 restart of Fleet (about 2 million states): `NoFalseCrash`, `BoardIsCurrent`, `NoForgottenEngine`, `UpWasReady`, `DownFindsItsSlot`, and `BoardSpec`, the refinement of `SlotBoard`. |
| `fleet_live` | Under fairness, a dead engine leaves its slot and a serving engine is announced. One slot, and a second port that is no slot. |
| `channel` | `NoAnnouncementIsLost` and, under fairness, `ViewCatchesUp`. 2 slots, 2 changes each, 2 faults, mailbox and wire of 2. |
| `vllm_slot` | `CleanExit`, and `RankZeroLossEndsTheEngine` under fairness, for two overlapping runs. |
| `scheduler` | Fourteen invariants (1.1 million states): blocks (`EveryBlockOnce`, `NoReuseInFlight`, `FencesAreReached`, `TransfersKeepBlocks`, `ComputedHasBlocks`), requests (`NoRequestIsLost`, `PreemptedFirst`), limits (`PartialPrefillsBounded`, `SlotsHeld`, `StreamCountExact`, `NoStepPastTheLimit`) and counts (`HoldersExact`, `EveryShareIsPositive`). |
| `glm53` | Nothing but patched code is served and a rerun changes nothing; the pool holds the drafter's layers; the right-sized workspace splits batches as stock does; stops and grammars under every cut (93 thousand states). |
| `fleet_intent`, `fleet_orphan`, `vllm_half_alive`, `vllm_sabotage`, `scheduler_gate`, `scheduler_padding` | Sentences of the documentation, comments and assertions that the code does not keep (section 4). |

*Bounds.* Three engines are enough for the longest chain a hazard needs: an engine, its replacement,
and the one after (a stale message or flag of the first that meets the third); a second slot lets
an action on one slot disturb another. One restart of Fleet separates engines it knows from those it
does not. Two changes per slot and a mailbox and wire of two are what it takes to reorder an old event
and a new register; two faults allow a fault during the recovery from a fault. Two runs of `vllm-slot`
overlap in all ways a pair can; what three could add is a cleanup reaching a run further on. The
safety properties of Fleet, VllmSlot and Channel, and most of the scheduler's, do not rest on the
bounds of their runs: they are proved (section 5), and so is every property of `glm53`.
`SYMMETRY` is used in safety runs only; ports and configurations are only compared.

The scheduler's instance has one request of each difficult kind: `a` with a synchronous load and a
send, `l` with an asynchronous load, `s` a session with a grammar, on four blocks of three tokens
and two slots, so that admission fails, preempts and waits. Both values of `BatchLimits` (1: steps
in turn, 2: overlapping) and both answers to a failed load are initial states. `MaxUpsets` = 1
bounds the rare events of a behaviour (abort, pause, reset, throttled step, failed load, undecided
connector, grammar error), `MaxChunks` = 1 the chunks of a session after its first. Each prompt with
its output fits `MaxModelLen`, except in `scheduler_padding`, which is about that limit. Its `VIEW`
keeps of the step numbers only how far they are ahead, which is all the code compares; blocks are
symmetric. In `glm53`, `MaxChunk` = 2 and `MaxText` = 7 let a marker and a stop string of two
characters be split at every position, in either order, with one character between; `MaxContent` = 2
lets a grammar end before, in and behind a window; `MaxBatch` = 2 requests make a chunk boundary;
the geometries and configurations of `MCGlm53` include those the scripts refuse.

*Fairness.* In `FairSpec` of Fleet: it empties its mailbox (strong fairness per message, since a
blocking load disables the handlers again and again, and the mailbox is first in, first out), a load
ends (a bounded number of tries), an Instance's timer re-arms itself, a poll returns. Nothing is
assumed of requests or of engines. In Channel: slipstream reconnects and rejoins on its backoff, the
heartbeat re-arms itself in every branch, a load ends, the socket delivers while it is up; faults and
changes are bounded, so they end. Heartbeat and join are strongly fair because Fleet may be blocked
over and over, each time for a bounded load for which the call waits. In VllmSlot: the script goes on,
and a launch succeeds or fails; no container needs to exit, and nobody needs to send TERM.
In Scheduler (for `scheduler_gate`) the engine's loop carries each call through, schedules while there are
requests and processes the output of every step; clients and connectors owe nothing.

*Deadlock* is checked for Fleet and Channel. In VllmSlot it is not: once all runs the bound allows are
gone, nothing is left to do. Nor in Scheduler and Glm53: once every request of the instance has finished,
or the container has refused to start or its text has reached `MaxText`, they are done.

## 4. Where documentation and code part

1. **An intent can outlive its engine** (`fleet_intent`). `unload` marks the port; if a load of that
   port is handled before the DOWN, the demonitor flushes the DOWN, which alone would clear the mark. A later
   crash of the new engine is then reported `unloaded`, without its reason. `NoFalseCrash`, the converse
   and what the moduledoc stresses, holds and is proved.
2. **A slow container runtime takes Fleet down** (`fleet_orphan`). Fleet restarts empty and the engines
   it had are in no slot: their `mark_up` has been said, so they never reappear.
   `NoForgottenEngine` is the part that holds: nothing is forgotten within one life of Fleet.
3. **Rank 1 can come up after the last cleanup** (`vllm_half_alive`), for instance when rank 0's
   launch fails faster than the worker creates its container. `CleanExit` is what holds.
4. **A late cleanup removes its successor** (`vllm_sabotage`): removal is by slot name, the trap path
   cleans twice, and the swap does not wait for it.
5. **The hotfix's gate can lock itself** (`scheduler_gate`). It counts requests that are still
   loading, and stands before the promotion that would end their counting: as many loads as
   `max_num_partial_prefills` and nobody is admitted again. No payload of the repository sets that limit and a
   KV connector together. `PartialPrefillsBounded` is what holds.
6. **A padded decode can be scheduled with a negative share** (`scheduler_padding`). The padding looks at
   `max_model_len`, the running loop at one token less; the overlapping step computes -1, which is not the
   0 it skips. Away from the limit `EveryShareIsPositive` holds (`scheduler`).

More is worth knowing and is no run. A failed swap empties its slot without an event; Airo
keeps the evicted engine `up` until the next register, and that the heartbeat repairs it is
`ViewCatchesUp`. And the drafter patch's docstring offers a STANDALONE mode
(`patch_glm5_drafter_group.py:52`) for drafters with more layers than the MLA layers have tensors,
which its layout check refuses where it pads (`:331-335`): the engine dies at boot rather than serve
a wrong layout.

The proofs of the token counts met three corners of the scheduler that their hypothesis leaves out; no
payload of the repository sets up a KV connector or that threshold, and sessions are up to the clients.
A session with two or more drafts that stops inside them keeps a computed count ahead of its tokens, so
that its next admission may fail the assertion at `scheduler.py:858`. A `long_prefill_token_threshold`
not above the number of drafts gives a padded admission fewer tokens than drafts. And a request whose
synchronous load failed while its next step was in flight, and that is preempted and readmitted with
padding, can be scheduled past `max_tokens`; the output behind the limit is then dropped with the
request.

`ReadyIsItsOwn` in `Fleet` states one more that is violated: the health check that brings a slot up
may be answered by the engine it replaced. `UpWasReady` is what does hold. No run checks it,
for no sentence of the documentation promises it.

## 5. What is proved

`FleetProofs` assumes only `FleetAssumption` (slots are ports, `None` is neither a port nor a
configuration, the bounds are naturals). `Spec => []IInv` is proved with one lemma per action, and
every safety property of the run `fleet` follows, `BoardSpec` included. The properties are not
inductive alone; `IInv` adds what they lean on:

* `Fresh`: a pid is given once, so nothing known is the next one. Without it a launch could collide
  with a stale message.
* `SlotsWellFormed`: an empty slot has no pid, and a pid is only in the slot it was started for; hence two
  slots never share an engine.
* `Evicted`: between eviction and launch the slot still names its old engine, which is neither alive nor
  watched.
* `WatchesResidents`: what is monitored is in its slot and a queued DOWN is of something monitored
  and dead. This is the demonitor with flush, and gives `DownFindsItsSlot`.
* `AskedIsIntended`: a resident that was asked to go is on a port with an intent, or being replaced. This
  is why "intent before terminate" is enough for `NoFalseCrash`: a stale intent errs the other way.
* `EndedIsGone`, `CastsAreOfReady`: an engine reported ended is in no slot; only ready Instances cast.

The refinement needs of `IInv` only `BoardIsCurrent`: a handler's status test is then a test of the
board. Its mapping takes `board` as it is and `latest` as the last pid given.

`VllmSlotProofs` proves types and `CleanExit` for any number of overlapping runs, from
`NothingBeforeLaunch` (no container before the launch), `OnlySingleExecs` and `CleanedForGood`
(`CleanExit` per host, from the last cleanup of that host on). The last is needed because the local and
the remote cleanup are separate steps with other runs in between.

`ChannelProofs` proves `NoAnnouncementIsLost` for any slots, faults, and lengths of mailbox and
wire. The property speaks of a quiet channel; the invariant says what is on its way otherwise.
`LastEventIsTold`: the last event queued for a slot is the last that was announced.
`LastWordIsFresh`: while the channel is joined and no event of a slot is queued, the last thing on
the wire that speaks of it (an event or a register), or else Airo's view, is at least as new as what
was announced. An event queued before a register and pushed after it sets the view back to an older
*state*, but not behind what was *announced*; that is why the invariant compares with `told`, and
`ToldIsPast` (nothing is announced that has not happened) then takes care of the registers.

`SchedulerProofs` proves `EveryBlockOnce` for any requests, blocks and limits. Blocks move in three
ways, each a lemma on `free`, `held` and `deferred` (taken from the pool, given up at once or to
wait for the fence, drained), and every action is one of them; `BlocksInv` adds only that what is
held are blocks.

`FencesAreReached` is proved too: a deferred block waits for a step in flight whose output drains
it. The scheduler numbers steps in two places, when it schedules one and when it processes its
output, and skips empty ones in both. `Numbered` says that the numbers of the busy steps in flight are
exactly those after `processedSeq` up to `schedSeq`, in order, so the busy head of `flight` has
the number `processedSeq + 1`; `Fenced`, that every fence is one of these numbers, which for
a block deferred now holds because its request's last step is unprocessed and not ahead of
`schedSeq`.

Last, the set the hotfix's gate counts stays within the limit (`PrefillsStayGated`): every step
shrinks it, or adds one request behind an open gate.

`SchedulerQueueProofs` proves where the requests are. `QueueInv` says that each queue names a request
once, that a request is in the queue its status calls for (`Places`), and that whoever a call, a step in
flight or an output under way still names has a status that allows it (`Calls`, `Flights`,
`Updates`). The last are needed because the code acts on names it noted down earlier: the step in the making
was filled from `running`, an output comes for requests of two steps ago. During an update the stopped
requests are still in their queues (`Leaving`), as in the code, which takes them out together at its end.
From it follow `NoRequestIsLost` and, with a counting step for every change of a status,
`StreamCountExact` and `SlotsHeld`. For the last the invariant (`Slots`) is about statuses, not about
the length of `running`, which does not shrink when a request stops. `PreemptedFirst` is inductive once it
passes over requests that stopped while preempted and wait to be taken out (`PreemptedAhead`).
The module begins with what these proofs need of sequences. What filtering a queue by recursion yields is
an induction over its length, done without an induction theorem: of the lengths for which a claim fails,
one is least.

With the queues, `SchedulerProofs` goes on to the steps in flight. `NoReuseInFlight`: the fence is not only reached but
late enough. A block written by a step in flight is still held, and then its request's last step is no
earlier, or deferred to a step no earlier (`Secured`): freeing turns the first into the second, and
draining reaches the second only after the step itself, for the head of `flight` is the oldest.
`TransfersKeepBlocks`: an aborted load stays known, and holds its blocks until the connector says it
has ended; `Failures` covers the moment of a failed load, when the request is being taken out of its
step. `HoldersExact`: the placeholders of a request equal what is to come for it from the
steps in flight *and* from the update under way (`Coming`), except where a request ends, or its
failed load is being settled (`Awaited`); every loop iteration of an update moves the two sides alike.
The gate of `_update_from_output` enters here: a preempted request's outputs are still its own.

`SchedulerTokenProofs` is about the numbers. `TypeOK` says that no count goes below zero, which in
Python nothing else ensures; `ComputedHasBlocks`, `EveryShareIsPositive`, `PartialPrefillsBounded`
and `NoStepPastTheLimit` are about the same few counts, so one invariant serves all five.
`TokensInv` says what `num_computed_tokens` is:

* `Sane`, by the status: a waiting request has a token left to compute, a preempted one whose output
  is still to come has nothing computed (so that rejected drafts are not subtracted from it), what is
  computed has blocks, nobody who is not finished has reached `max_tokens`.
* `Exact`, between calls: a decode has computed all its tokens but the last *and* those to come, a
  prefill less, and the prefill is in the gate's set and nothing is to come for it. This is why one
  step may be scheduled on top of another's unknown result, and the missing half of
  `PartialPrefillsBounded`.
* `Planned`, for a request of the step in the making: its share exceeds its drafts, stays within the model
  and has blocks; if it samples while an output is to come, two tokens are left.
* `BothSample`: what becomes of that once both steps are in flight.
* `Failed`: a request whose synchronous load failed starts over. Its placeholders and tokens disagree
  meanwhile (`Loose`), and for it `Exact` says less.
* `Books`: types, and drafts within `num_speculative_tokens`.

Each action gets a lemma; the two with most in them are `ScheduleRunning` (drafts, padding and the
budget cut the share at three places) and the outputs (`SettledTokens`: rejected drafts leave `Exact`
as it was, since both sides shrink alike).

The theorems have a hypothesis, `[]Fitting`, for without it they are false. It asks that every
unfinished request leaves the model room for a step's drafts (finding 6 is what happens
otherwise), that a limit on long prefills is larger than the drafts, and that with two or more drafts there are
no sessions and no synchronous loads; the cases are in section 4. The run `scheduler` is an
instance of it. Because a request without a session never grows beyond its prompt and `max_tokens`, the
hypothesis follows from the configuration: `RoomyIsSafe` proves all five from `RoomForAll`, which
mentions constants only and which a payload such as `dspark-0731.json` (five drafts, no connector)
meets as long as clients open no sessions and ask for no more than fits.

Two properties had to be stated more carefully for the proofs to go through.
`PartialPrefillsBounded` is about the states between calls: inside `schedule` a request just readmitted
has the `is_prefill_chunk` of its earlier run until the step is handed out. And `NoStepPastTheLimit` leaves out
requests whose failed load is being recomputed, as `PartialPrefillsBounded` does (section 4).

`DecodingProofs` proves the three properties of `Decoding`, for chunks, windows and outputs of any
length. For `StopsExactlyAfterReasoning` the invariant adds `ClosedIsSeen`: the flag is set exactly when
the text has the marker. Hence in an open text a marker can only reach behind the old end, which is why
a window of one character less than the marker is enough and finds the first marker of the whole text;
and a stop string not seen before can only end in the new chunk, which is why looking behind the old end
misses none.

`FlagIsTheMatchers` and `GrammarIsNotMisfed` follow from `GrammarInv`, which adds one thing: drafts that
wait for their bitmasks outside of reasoning were validated against the matcher as it is (`Validated`).
Filling the bitmasks only appends to the matcher's tokens (`AdvanceOverKeeps`), so the rollback by the
number of advancements restores it, flag and count included; behind a marker a draft is validated first,
so an invalid one ends the advancing and is no error. What is sampled obeys the bitmasks up to the end of
the grammar, and cutting the tokens at a stop token leaves a prefix of the grammar's part
(`TrimmedPart`), so the matcher takes all of it and is never asked once it has ended.

`Glm53Proofs` is about what precedes. *The scripts.* `ServedCodeIsPatched` needs an invariant
over the loop of `airo-entry.sh` (`ServedInv`): scripts that have run left what may be served, and the file of
one still to come is unbroken, that is, either untouched by it or written by it in full
(`Whole`); each script is shown to accept nothing else as patched (`VideoServes`, ...). A file of
which only some places carry the new text is what would slip through; only the drafter's script, which
tells its versions apart by the layers, is proved to cope with any file. `RerunIsANoop` is, script by
script, that patching its own result gives it back (`PatchTwice`), which for `spinwait` holds only for the
window it was built with.

*The boot.* `ChunksAsStock`: a batch the scheduler may form never has more entries than the requests,
times the entries of the longest, and the requests are bounded by `max_num_seqs` and by the token budget,
each of them having a query token (`WorkspaceSuffices`); the cross-check ensures that the ratio the
workspace was sized with is the one the engine divides by. So under either workspace only the limit on
logits ever ends a chunk (`PackedAlike`). Where the sized one falls back to stock there is nothing to show. `PoolHoldsTheDrafter` counts: a
layer has one tensor (`OneOwner`), and the sizes add up to `NumBlocks * PoolBytes` (`PoolSum`), for any
geometry that `LayoutAccepts`. The sum over a set is a fold in whatever order; that the order does not
matter (`SizeSumRemove`) is an induction over the cardinality. `TypeOK`, last, says that no stage runs
ahead of the one before.

Only model-checked: the liveness properties (`DeadEngineLeavesItsSlot`, `ServingEngineComesUp`,
`ViewCatchesUp`, `RankZeroLossEndsTheEngine`), for liveness under fairness and ENABLED are beyond the
prover. Every invariant of a passing run is proved.

## 6. Not modelled, and why

* *Formatting and I/O.* Arguments, labels, environments, JSON, URLs, log lines, the adapters' profiles, the
  inventory and the GGUF reader: pure functions of files and requests. Auth and schemas: stateless. GPU
  readings.
* *Time.* Times appear only as orderings. So restart intensities (100 in 10 s, 3 in 5 s) are not modelled, nor a
  caller that gave up: a request to Fleet is one step with its reply.
* *Two agents on a host.* The boot sweeps, `ExecStopPost` and the up and down events of PeerRanks concern
  another head's containers; `VllmSlot` has one head, and Fleet takes any set of held ports as a poll's
  result.
* *Scripts of the operator*, `deploy.sh` and `rollback.sh`: no state of the program.
* *Scheduler.* Encoder inputs, the mamba split, LoRA, the PRIORITY policy, the cadence of pipeline-parallel
  decodes, statistics and the connector's event bookkeeping: the one payload that mounts the file
  (`dspark-0731.json`, a text model on tensor-parallel ranks) does not use them. Prefix hits are left out
  too, though it enables them: they belong to the KV cache manager, which is not in the repository, and
  would let requests share blocks, so `EveryBlockOnce` is about blocks without them.
* *GLM-5.3.* What the texts of the decode-floor, hybrid-prefix, kpool, spinwait and video patches do
  inside the engine: kernels, shapes, and files that are not in the repository; modelled is how they are
  applied. Left out too: the drafter's share of memory profiling, and two ranks with different files.
* *Other overlays.* `flashmla_sparse.py` is tensor code, `deepseek_v4_encoding.py` builds prompts.
