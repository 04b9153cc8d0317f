------------------------------ MODULE VllmSlot -----------------------------
(***************************************************************************)
(* priv/engine/vllm-slot: the script that is a vLLM engine's OS process.   *)
(* One run of it launches the containers of one load of one slot: one      *)
(* container on this host (`exec`), or, in cluster mode, rank 0 here and   *)
(* rank 1 on the worker over SSH.  All containers of a slot have the same  *)
(* name, airo-slot-<port>, on either host: a host has at most one of them, *)
(* and a run that removes "its" container by name removes whichever run's  *)
(* it is.                                                                  *)
(*                                                                         *)
(* Runs are numbered in the order the agent starts them.  The agent starts *)
(* the next one when the last has ended, or as soon as it has sent SIGTERM *)
(* to it: the teardown of one run and the launch of the next overlap.      *)
(*                                                                         *)
(* What a killed script had running (an `rm -f`, an ssh) is taken to end   *)
(* with it.  A second TERM while the EXIT trap runs would repeat the       *)
(* cleanup: left out.                                                      *)
(*                                                                         *)
(* StartUnset, WaitEndsUntrapped and WaitEndsAll are mistaken variants of  *)
(* the definitions they precede; no action uses them.                      *)
(***************************************************************************)
EXTENDS Naturals

CONSTANT MaxRun     \* bound: runs of the script over a behaviour

ASSUME VllmSlotAssumption == MaxRun \in Nat

VARIABLES
  pc,        \* [Runs -> where the run is]
  mode,      \* [Runs -> "single" or "cluster"]
  term,      \* the runs SIGTERM has been sent to
  starting,  \* <<run, host>>: a `run` issued there, whose container is to come
  cont,      \* [Hosts -> the run whose container holds the slot's name, or 0]
  lost,      \* history: runs that were SIGKILLed, or whose cleanup did not
             \* reach the worker
  late,      \* history: runs one of whose containers came after the last
             \* cleanup of its host
  hurt       \* history: runs whose container an older run has removed

vars == <<pc, mode, term, starting, cont, lost, late, hurt>>
history == <<lost, late, hurt>>

Runs == 1 .. MaxRun
Hosts == {"head", "worker"}
Steps == {"unborn", "release", "run", "exec", "checks", "releaseWorker", "rank1", "rank0",
          "wait", "termLocal", "termRemote", "exitLocal", "exitRemote", "gone"}

TypeOK ==
  /\ pc \in [Runs -> Steps]
  /\ mode \in [Runs -> {"single", "cluster"}]
  /\ term \subseteq Runs
  /\ starting \subseteq Runs \X Hosts
  /\ cont \in [Hosts -> 0 .. MaxRun]
  /\ lost \subseteq Runs /\ late \subseteq Runs /\ hurt \subseteq Runs

Init ==
  /\ pc = [w \in Runs |-> "unborn"] /\ mode = [w \in Runs |-> "single"]
  /\ term = {} /\ starting = {}
  /\ cont = [h \in Hosts |-> 0]
  /\ lost = {} /\ late = {} /\ hurt = {}

-----------------------------------------------------------------------------
Goto(w, step) == pc' = [pc EXCEPT ![w] = step]

\* `rm -f <name>` on host h, by run w.
Remove(w, h) ==
  /\ cont' = [cont EXCEPT ![h] = 0]
  /\ hurt' = hurt \cup {v \in Runs : v > w /\ cont[h] = v}

\* MuonTrap starts the script, for a load.
StartUnset(w, m) ==
  /\ pc[w] = "unborn"
  /\ \A v \in Runs : v < w => pc[v] = "gone" \/ v \in term
  /\ Goto(w, "release") /\ mode' = [mode EXCEPT ![w] = "unset"]
  /\ UNCHANGED <<term, starting, cont, history>>
Start(w, m) ==
  /\ pc[w] = "unborn"
  /\ \A v \in Runs : v < w => pc[v] = "gone" \/ v \in term
  /\ Goto(w, "release") /\ mode' = [mode EXCEPT ![w] = m]
  /\ UNCHANGED <<term, starting, cont, history>>

\* Clear the name on this host and wait for the runtime to let go of it.
Release(w) ==
  /\ pc[w] = "release" /\ w \notin term
  /\ Remove(w, "head")
  /\ Goto(w, IF mode[w] = "single" THEN "run" ELSE "checks")
  /\ UNCHANGED <<mode, term, starting, lost, late>>

\* Before that: no image is configured, or a file to be mounted is missing: exit 78.
RefusesToLaunch(w) ==
  /\ pc[w] = "release" /\ w \notin term
  /\ Goto(w, "gone")
  /\ UNCHANGED <<mode, term, starting, cont, history>>

\* The name is not free within 100 tries: exit 125.
ReleaseFails(w) ==
  /\ pc[w] = "release" /\ w \notin term /\ cont["head"] # 0
  /\ Goto(w, "gone")
  /\ UNCHANGED <<mode, term, starting, cont, history>>

\* Single node: the script becomes `run`, without any trap.
RunSingle(w) ==
  /\ pc[w] = "run" /\ w \notin term
  /\ starting' = starting \cup {<<w, "head">>}
  /\ Goto(w, "exec")
  /\ UNCHANGED <<mode, term, cont, history>>

ExecEnds(w) ==
  /\ pc[w] = "exec" /\ <<w, "head">> \notin starting /\ cont["head"] # w
  /\ Goto(w, "gone")
  /\ UNCHANGED <<mode, term, starting, cont, history>>

\* The worker has the model and the files it needs, or it is exit 78.  Then the
\* traps are set.
Checks(w) ==
  /\ pc[w] = "checks" /\ w \notin term
  /\ Goto(w, "releaseWorker") \/ Goto(w, "gone")
  /\ UNCHANGED <<mode, term, starting, cont, history>>

\* The same release on the worker.
ReleaseWorker(w) ==
  /\ pc[w] = "releaseWorker"
  /\ Remove(w, "worker")
  /\ Goto(w, "rank1")
  /\ UNCHANGED <<mode, term, starting, lost, late>>

\* It fails, or the worker cannot be reached: a pending TERM is taken, or it is
\* exit 125, through the EXIT trap.
ReleaseWorkerFails(w) ==
  /\ pc[w] = "releaseWorker"
  /\ Goto(w, IF w \in term THEN "termLocal" ELSE "exitLocal")
  /\ UNCHANGED <<mode, term, starting, cont, history>>

\* The two launches are put in the background, rank 1 first.  A pending TERM is
\* taken before the next command.
Rank(w, step, h, next) ==
  /\ pc[w] = step /\ w \notin term
  /\ starting' = starting \cup {<<w, h>>}
  /\ Goto(w, next)
  /\ UNCHANGED <<mode, term, cont, history>>

Ranks(w) == Rank(w, "rank1", "worker", "rank0") \/ Rank(w, "rank0", "head", "wait")

\* Rank 0's `run` returns: exit with its status, through the EXIT trap.
WaitEndsUntrapped(w) ==
  /\ pc[w] = "wait" /\ <<w, "head">> \notin starting /\ cont["head"] # w
  /\ Goto(w, "gone")
  /\ UNCHANGED <<mode, term, starting, cont, history>>
WaitEndsAll(w) ==
  /\ pc[w] = "wait" /\ \A h \in Hosts : <<w, h>> \notin starting /\ cont[h] # w
  /\ Goto(w, "exitLocal")
  /\ UNCHANGED <<mode, term, starting, cont, history>>
WaitEnds(w) ==
  /\ pc[w] = "wait" /\ <<w, "head">> \notin starting /\ cont["head"] # w
  /\ Goto(w, "exitLocal")
  /\ UNCHANGED <<mode, term, starting, cont, history>>

\* TERM: before the traps are set it ends the script at once; after, between two
\* commands or during the wait, it runs cleanup and exits, through the EXIT trap.
TermUntrapped(w) ==
  /\ w \in term /\ pc[w] \in {"release", "run", "checks"}
  /\ Goto(w, "gone")
  /\ UNCHANGED <<mode, term, starting, cont, history>>

TermTrapped(w) ==
  /\ w \in term /\ pc[w] \in {"rank1", "rank0", "wait"}
  /\ Goto(w, "termLocal")
  /\ UNCHANGED <<mode, term, starting, cont, history>>

\* cleanup(): this host, then the worker if it can be reached.
CleanLocal(w) ==
  /\ pc[w] \in {"termLocal", "exitLocal"}
  /\ Remove(w, "head")
  /\ Goto(w, IF pc[w] = "termLocal" THEN "termRemote" ELSE "exitRemote")
  /\ UNCHANGED <<mode, term, starting, lost, late>>

CleanRemote(w) ==
  /\ pc[w] \in {"termRemote", "exitRemote"}
  /\ \/ Remove(w, "worker") /\ UNCHANGED lost
     \/ lost' = lost \cup {w} /\ UNCHANGED <<cont, hurt>>
  /\ Goto(w, IF pc[w] = "termRemote" THEN "exitLocal" ELSE "gone")
  /\ UNCHANGED <<mode, term, starting, late>>

-----------------------------------------------------------------------------
(* The agent, and the container runtimes.                                  *)

\* SIGTERM, for an unload, a swap or the agent's own end.
Term(w) ==
  /\ pc[w] \notin {"unborn", "gone"} /\ w \notin term
  /\ term' = term \cup {w}
  /\ UNCHANGED <<pc, mode, starting, cont, history>>

\* SIGKILL, when the grace has passed.
Kill(w) ==
  /\ w \in term /\ pc[w] # "gone"
  /\ Goto(w, "gone")
  /\ lost' = lost \cup {w}
  /\ UNCHANGED <<mode, term, starting, cont, late, hurt>>

\* Run w does nothing more about host h.
PastCleanup(w, h) == pc[w] = "gone" \/ (h = "head" /\ pc[w] = "exitRemote")

\* A container comes up under the name, if the name is free there.
Create(w, h) ==
  /\ <<w, h>> \in starting
  /\ starting' = starting \ {<<w, h>>}
  /\ IF cont[h] = 0
       THEN /\ cont' = [cont EXCEPT ![h] = w]
            /\ late' = IF PastCleanup(w, h) THEN late \cup {w} ELSE late
       ELSE UNCHANGED <<cont, late>>
  /\ UNCHANGED <<pc, mode, term, lost, hurt>>

\* The launch fails, or is abandoned with the script that made it.
NotCreated(w, h) ==
  /\ <<w, h>> \in starting
  /\ starting' = starting \ {<<w, h>>}
  /\ UNCHANGED <<pc, mode, term, cont, history>>

\* A rank exits: by itself, or because it has lost the other, or on the TERM
\* that its `run` passes on.
RankExits(h) ==
  /\ cont[h] # 0
  /\ cont' = [cont EXCEPT ![h] = 0]
  /\ UNCHANGED <<pc, mode, term, starting, history>>

-----------------------------------------------------------------------------
Script(w) ==
  \/ RefusesToLaunch(w) \/ Release(w) \/ ReleaseFails(w) \/ RunSingle(w) \/ ExecEnds(w)
  \/ Checks(w) \/ ReleaseWorker(w) \/ ReleaseWorkerFails(w) \/ Ranks(w) \/ WaitEnds(w)
  \/ TermUntrapped(w) \/ TermTrapped(w) \/ CleanLocal(w) \/ CleanRemote(w)

Agent(w) == Term(w) \/ Kill(w) \/ \E m \in {"single", "cluster"} : Start(w, m)

Runtime(w) == \E h \in Hosts : Create(w, h) \/ NotCreated(w, h)

Next == \/ \E w \in Runs : Script(w) \/ Agent(w) \/ Runtime(w)
        \/ \E h \in Hosts : RankExits(h)

Spec == Init /\ [][Next]_vars

(* The script goes on, and a `run` that was issued succeeds or fails.  The agent
   need not start or stop anything, and no container need ever exit. *)
Fairness == \A w \in Runs : WF_vars(Script(w)) /\ WF_vars(Runtime(w))

FairSpec == Spec /\ Fairness

-----------------------------------------------------------------------------
(* A cluster run that ended, by itself or by TERM, leaves no container on either
   host: unless it was SIGKILLed, could not reach the worker, or a container
   came up after the last cleanup.  The traps cover every other way to end
   (vllm-slot:264-271). *)
CleanExit ==
  \A w \in Runs : (mode[w] = "cluster" /\ pc[w] = "gone" /\ w \notin lost \cup late)
                   => \A h \in Hosts : cont[h] # w

(* The inductive invariant behind it.                                      *)

\* A run has no container before it launches one.
Early == {"unborn", "release", "run", "checks", "releaseWorker", "rank1"}

NothingBeforeLaunch ==
  \A w \in Runs, h \in Hosts :
    pc[w] \in Early => <<w, h>> \notin starting /\ cont[h] # w

\* Only a single-node run becomes its container's `run`.
OnlySingleExecs == \A w \in Runs : pc[w] \in {"run", "exec"} => mode[w] = "single"

\* What CleanExit says of a run that is gone holds, for a host, from the run's
\* last cleanup of that host on.
CleanedForGood ==
  \A w \in Runs, h \in Hosts :
    mode[w] = "cluster" /\ PastCleanup(w, h) /\ w \notin lost \cup late => cont[h] # w

IInv == TypeOK /\ NothingBeforeLaunch /\ OnlySingleExecs /\ CleanedForGood

-----------------------------------------------------------------------------
(* A cluster engine that is without rank 0 is torn down: its script ends, and
   rank 1 does not stay behind (with the same exceptions). *)
RankZeroLossEndsTheEngine ==
  \A w \in Runs :
    (pc[w] = "wait" /\ cont["head"] # w /\ <<w, "head">> \notin starting)
      ~> (pc[w] = "gone" /\ (cont["worker"] # w \/ w \in lost \cup late))

-----------------------------------------------------------------------------
(* What the script's comments say and what it does not do: each is violated. *)

(* "TERM/INT (unload, swap, agent drain) and normal exit (either rank died) both
   tear down BOTH ranks -- a half-alive cluster engine is never left behind"
   (vllm-slot:268-269), SIGKILL and an unreachable worker granted. *)
NoHalfAliveEngine ==
  \A w \in Runs : (mode[w] = "cluster" /\ pc[w] = "gone" /\ w \notin lost)
                   => cont["worker"] # w

(* "clear any stale container holding this slot before (re)launching" so that "a
   routine model swap" does not surface "as a crash" (vllm-slot:182-190): what is
   removed by name is never the container of a later run. *)
OnlyStaleIsRemoved == hurt = {}
=============================================================================
