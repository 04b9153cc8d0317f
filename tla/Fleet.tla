------------------------------- MODULE Fleet -------------------------------
(***************************************************************************)
(* AiroAgent.Fleet: the GenServer that owns this host's serving slots,     *)
(* with the processes it works with: the Instances (one GenServer per      *)
(* engine, under a DynamicSupervisor), the engines they run (OS processes  *)
(* that outlive a killed Instance for up to the SIGTERM grace), and        *)
(* PeerRanks (a GenServer Fleet calls on every request, and whose poll     *)
(* blocks it).                                                             *)
(*                                                                         *)
(* An Instance, its monitor reference and its engine are identified by one *)
(* number, `pid`, given in the order they are started; 0 is nil.           *)
(*                                                                         *)
(* Fleet's mailbox.  Erlang orders signals per pair of processes only.     *)
(* From one Instance these are a `mark_up` cast and then a DOWN, so the    *)
(* mailbox is two sets, and a DOWN waits for the mark_up of its pid.       *)
(* Requests come from anyone at any time: they are actions Fleet may take  *)
(* whenever it is not blocked inside another one.                          *)
(*                                                                         *)
(* Ahead of some definitions stand variants of them that hold a mistake    *)
(* (a flush, an intent, a monitor or an event left out).  No action uses   *)
(* them: put in place of the definition that follows, each is noticed by   *)
(* one of the properties.                                                  *)
(***************************************************************************)
EXTENDS Naturals

CONSTANTS Ports,      \* ports a request may name
          Slots,      \* the configured slots, some of those ports
          Configs,    \* what may be loaded: a model id with a launch profile
          None,       \* no port, no configuration
          MaxPid,     \* bound: engines started over a behaviour
          MaxEpoch    \* bound: restarts of Fleet over a behaviour

ASSUME FleetAssumption ==
  /\ Slots \subseteq Ports
  /\ None \notin Ports \cup Configs
  /\ MaxPid \in Nat
  /\ MaxEpoch \in Nat

VARIABLES
  slots,      \* Fleet: state.slots
  intent,     \* Fleet: state.intent, ports whose engine was asked to go
  busy,       \* Fleet: the load it is inside, past the eviction
  monitored,  \* Fleet: the pids it holds a monitor on
  upcasts,    \* Fleet's mailbox: pids whose mark_up cast is queued
  downs,      \* Fleet's mailbox: pids whose DOWN message is queued
  epoch,      \* how often Fleet has restarted
  alive,      \* pids of the Instances that are running
  ready,      \* pids of the Instances that have seen a 200 from /health
  running,    \* pids whose engine OS process exists
  listening,  \* those of them that hold their port
  held,       \* PeerRanks: the ports it has cached as another host's ranks
  polling,    \* PeerRanks: it is inside a poll, and answers no call
  board,      \* the last event emitted for each slot
  reply,      \* the answer to the last request
  nextPid,    \* the next pid to be given
  portOf,     \* the port each pid was started for
  bornIn,     \* the epoch it was started in
  asked       \* history: pids Fleet has terminated, to unload or to swap

fleetVars == <<slots, intent, busy, monitored, upcasts, downs, epoch>>
engineVars == <<alive, ready, running, listening>>
peerVars == <<held, polling>>
birthVars == <<nextPid, portOf, bornIn>>
vars == <<fleetVars, engineVars, peerVars, birthVars, board, reply, asked>>

Pids == 1 .. MaxPid
NoCall == [port |-> None, config |-> None]
Empty == [status |-> "empty", config |-> None, pid |-> 0]
Event(type, pid) == [type |-> type, engine |-> pid]
Replies == {"none", "ok", "loading", "up", "launch_failed",
            "peer_rank_resident", "unknown_slot", "exit"}

TypeOK ==
  /\ slots \in [Slots -> [status : {"empty", "loading", "up"},
                          config : Configs \cup {None}, pid : 0 .. MaxPid]]
  /\ intent \subseteq Slots
  /\ busy \in [port : Slots, config : Configs] \cup {NoCall}
  /\ monitored \subseteq Pids /\ upcasts \subseteq Pids /\ downs \subseteq Pids
  /\ epoch \in 0 .. MaxEpoch
  /\ alive \subseteq Pids /\ ready \subseteq Pids
  /\ running \subseteq Pids /\ listening \subseteq Pids
  /\ held \subseteq Ports /\ polling \in BOOLEAN
  /\ board \in [Slots -> [type : {"none", "loading", "up", "down", "failed", "unloaded"},
                          engine : 0 .. MaxPid]]
  /\ reply \in Replies
  /\ nextPid \in 1 .. MaxPid + 1
  /\ portOf \in [Pids -> Slots \cup {None}]
  /\ bornIn \in [Pids -> 0 .. MaxEpoch]
  /\ asked \subseteq Pids

Init ==
  /\ slots = [p \in Slots |-> Empty]
  /\ intent = {} /\ busy = NoCall
  /\ monitored = {} /\ upcasts = {} /\ downs = {}
  /\ epoch = 0
  /\ alive = {} /\ ready = {} /\ running = {} /\ listening = {}
  /\ held = {} /\ polling = TRUE       \* init/1 continues straight into a poll
  /\ board = [p \in Slots |-> Event("none", 0)]
  /\ reply = "none"
  /\ nextPid = 1
  /\ portOf = [e \in Pids |-> None]
  /\ bornIn = [e \in Pids |-> 0]
  /\ asked = {}

-----------------------------------------------------------------------------
(* Requests.  load/3 and unload/1 first ask PeerRanks, and so wait for its *)
(* poll to end; so does slots/0, which changes nothing else.               *)

Free == busy = NoCall
Serving == Free /\ ~polling

\* DynamicSupervisor.terminate_child/2 on e: synchronous for the Instance,
\* which is gone when it returns.  The engine only starts to stop.
Terminate(e) ==
  /\ alive' = alive \ {e}
  /\ asked' = asked \cup {e}
  /\ UNCHANGED <<ready, running, listening>>

\* free_running/1: stop watching e, drop its DOWN if that is queued already, and
\* terminate it.
EvictUnflushed(e) == monitored' = monitored \ {e} /\ UNCHANGED downs /\ Terminate(e)
EvictUnterminated(e) ==
  monitored' = monitored \ {e} /\ downs' = downs \ {e} /\ UNCHANGED <<engineVars, asked>>
Evict(e) ==
  /\ monitored' = monitored \ {e}
  /\ downs' = downs \ {e}
  /\ Terminate(e)

RunningAlways(p) == TRUE
Running(p) == slots[p].pid # 0

Answer(r) ==
  /\ reply' = r
  /\ UNCHANGED <<fleetVars, engineVars, peerVars, birthVars, board, asked>>

\* load or unload of a port where another host's rank is known to live.
RefuseHeld(p) == Serving /\ p \in held /\ Answer("peer_rank_resident")

\* load or unload of a port that is no slot of this host.
RefuseUnknown(p) == Serving /\ p \notin held \cup Slots /\ Answer("unknown_slot")

Same(p, c) == slots[p].status = "up" /\ slots[p].config = c

\* The model is already up with this profile: nothing to do.
LoadSame(p, c) ==
  /\ Serving /\ p \in Slots \ held
  /\ Same(p, c)
  /\ Answer("up")

\* Take the port for a launch, from the resident engine if there is one.
LoadBegin(p, c) ==
  /\ Serving /\ p \in Slots \ held
  /\ ~Same(p, c)
  /\ nextPid <= MaxPid
  /\ busy' = [port |-> p, config |-> c]
  /\ IF Running(p)
       THEN Evict(slots[p].pid)
       ELSE UNCHANGED <<monitored, downs, engineVars, asked>>
  /\ UNCHANGED <<slots, intent, upcasts, epoch, peerVars, birthVars, board, reply>>

WatchNone(e) == UNCHANGED monitored
Watch(e) == monitored' = monitored \cup {e}

\* The port stopped accepting connections, or the tries ran out: start the
\* engine and watch it.
Launch ==
  LET e == nextPid
      p == busy.port
  IN /\ ~Free
     /\ slots' = [slots EXCEPT ![p] = [status |-> "loading",
                                       config |-> busy.config, pid |-> e]]
     /\ board' = [board EXCEPT ![p] = Event("loading", e)]
     /\ Watch(e)
     /\ alive' = alive \cup {e}
     /\ running' = running \cup {e}
     /\ nextPid' = e + 1
     /\ portOf' = [portOf EXCEPT ![e] = p]
     /\ bornIn' = [bornIn EXCEPT ![e] = epoch]
     /\ busy' = NoCall
     /\ reply' = "loading"
     /\ UNCHANGED <<intent, upcasts, downs, epoch, ready, listening, peerVars, asked>>

\* Instance.init/1 stops: the adapter refuses the launch or the OS process
\* cannot be started.  The slot is empty now, and nothing is emitted.
LaunchFails ==
  /\ ~Free
  /\ slots' = [slots EXCEPT ![busy.port] = Empty]
  /\ busy' = NoCall
  /\ reply' = "launch_failed"
  /\ UNCHANGED <<intent, monitored, upcasts, downs, epoch, engineVars, peerVars,
                 birthVars, board, asked>>

IntendNothing(p) == UNCHANGED intent
Intend(p) == intent' = intent \cup {p}

\* The intent is recorded before the Instance is terminated, so that its DOWN
\* reads as an unload.
Unload(p) ==
  /\ Serving /\ p \in Slots \ held
  /\ Running(p)
  /\ Intend(p)
  /\ Terminate(slots[p].pid)
  /\ downs' = IF slots[p].pid \in alive \cap monitored
                THEN downs \cup {slots[p].pid} ELSE downs
  /\ reply' = "ok"
  /\ UNCHANGED <<slots, busy, monitored, upcasts, epoch, peerVars, birthVars, board>>

UnloadEmpty(p) ==
  /\ Serving /\ p \in Slots \ held
  /\ ~Running(p)
  /\ Answer("ok")

\* Any of the three calls, made while PeerRanks is inside a poll that lasts
\* longer than the 5 s a GenServer.call waits: the exit takes Fleet down and
\* its supervisor restarts it, with nothing but empty slots.  The Instances
\* are another supervisor's children and stay.
PeerCallTimesOut ==
  /\ Free /\ polling
  /\ epoch < MaxEpoch
  /\ slots' = [p \in Slots |-> Empty]
  /\ intent' = {} /\ monitored' = {} /\ upcasts' = {} /\ downs' = {}
  /\ epoch' = epoch + 1
  /\ reply' = "exit"
  /\ UNCHANGED <<busy, engineVars, peerVars, birthVars, board, asked>>

-----------------------------------------------------------------------------
(* What the Instances tell Fleet.                                          *)

\* handle_cast(mark_up) for the engine a slot is waiting for.
MarkUpUnannounced(p) ==
  /\ Free
  /\ slots[p].pid \in upcasts /\ slots[p].status = "loading"
  /\ upcasts' = upcasts \ {slots[p].pid}
  /\ slots' = [slots EXCEPT ![p].status = "up"]
  /\ UNCHANGED <<intent, busy, monitored, downs, epoch, engineVars, peerVars,
                 birthVars, board, reply, asked>>
MarkUp(p) ==
  LET e == slots[p].pid IN
  /\ Free
  /\ e \in upcasts
  /\ slots[p].status = "loading"
  /\ upcasts' = upcasts \ {e}
  /\ slots' = [slots EXCEPT ![p].status = "up"]
  /\ board' = [board EXCEPT ![p] = Event("up", e)]
  /\ UNCHANGED <<intent, busy, monitored, downs, epoch, engineVars, peerVars,
                 birthVars, reply, asked>>

\* handle_cast(mark_up) for an engine no slot is waiting for: a swap took its
\* place, or the launch after it failed.
MarkUpByPort(e) ==
  /\ Free
  /\ e \in upcasts
  /\ upcasts' = upcasts \ {e}
  /\ LET p == portOf[e] IN
       /\ slots[p].status = "loading"
       /\ slots' = [slots EXCEPT ![p].status = "up"]
       /\ board' = [board EXCEPT ![p] = Event("up", slots[p].pid)]
  /\ UNCHANGED <<intent, busy, monitored, downs, epoch, engineVars, peerVars,
                 birthVars, reply, asked>>
MarkUpStale(e) ==
  /\ Free
  /\ e \in upcasts
  /\ \A p \in Slots : slots[p].pid = e => slots[p].status # "loading"
  /\ upcasts' = upcasts \ {e}
  /\ UNCHANGED <<slots, intent, busy, monitored, downs, epoch, engineVars, peerVars,
                 birthVars, board, reply, asked>>

\* How the end of the engine in slot p reads.
EndTypeUpOnly(p) == IF p \in intent THEN "unloaded" ELSE "down"
EndType(p) ==
  IF p \in intent THEN "unloaded"
  ELSE IF slots[p].status = "loading" THEN "failed" ELSE "down"

\* handle_info(DOWN).  That a DOWN always finds its slot is DownFindsItsSlot:
\* the clause of the code that ignores one without is never reached.
HandleDown(p) ==
  LET e == slots[p].pid IN
  /\ Free
  /\ e \in downs \ upcasts
  /\ downs' = downs \ {e}
  /\ monitored' = monitored \ {e}
  /\ slots' = [slots EXCEPT ![p] = Empty]
  /\ intent' = intent \ {p}
  /\ board' = [board EXCEPT ![p] = Event(EndType(p), e)]
  /\ UNCHANGED <<busy, upcasts, epoch, engineVars, peerVars, birthVars, reply, asked>>

-----------------------------------------------------------------------------
(* Instances and engines.                                                  *)

\* check_ready: once a second GET /health on the port, and whoever listens
\* there answers.  The first 200 is cast to Fleet and ends the polling.
CheckReadyUncast(e) ==
  /\ e \in alive \ ready
  /\ \E o \in listening : portOf[o] = portOf[e]
  /\ ready' = ready \cup {e}
  /\ UNCHANGED <<fleetVars, alive, running, listening, peerVars, birthVars, board, reply, asked>>
CheckReady(e) ==
  /\ e \in alive \ ready
  /\ \E o \in listening : portOf[o] = portOf[e]
  /\ ready' = ready \cup {e}
  /\ upcasts' = upcasts \cup {e}
  /\ UNCHANGED <<slots, intent, busy, monitored, downs, epoch, alive, running,
                 listening, peerVars, birthVars, board, reply, asked>>

\* The engine is gone, so its Instance stops, and whoever monitors it hears.
InstanceStops(e) ==
  /\ e \in alive \ running
  /\ alive' = alive \ {e}
  /\ downs' = IF e \in monitored THEN downs \cup {e} ELSE downs
  /\ UNCHANGED <<slots, intent, busy, monitored, upcasts, epoch, ready, running,
                 listening, peerVars, birthVars, board, reply, asked>>

\* The engine binds its port, which it can only do while nobody else has it.
EngineBinds(e) ==
  /\ e \in running \ listening
  /\ \A o \in listening : portOf[o] # portOf[e]
  /\ listening' = listening \cup {e}
  /\ UNCHANGED <<fleetVars, alive, ready, running, peerVars, birthVars, board, reply, asked>>

\* The engine exits: it crashes, cannot bind, or obeys a SIGTERM or SIGKILL.
EngineExits(e) ==
  /\ e \in running
  /\ running' = running \ {e}
  /\ listening' = listening \ {e}
  /\ UNCHANGED <<fleetVars, alive, ready, peerVars, birthVars, board, reply, asked>>

\* PeerRanks: the timer starts a poll, and the poll ends with whatever `ps`
\* said, or with nothing if it failed.
PollBegins ==
  /\ ~polling
  /\ polling' = TRUE
  /\ UNCHANGED <<fleetVars, engineVars, held, birthVars, board, reply, asked>>

PollEnds ==
  /\ polling
  /\ polling' = FALSE
  /\ held' \in SUBSET Ports
  /\ UNCHANGED <<fleetVars, engineVars, birthVars, board, reply, asked>>

-----------------------------------------------------------------------------
Request ==
  \/ \E p \in Ports : RefuseHeld(p) \/ RefuseUnknown(p)
  \/ \E p \in Slots, c \in Configs : LoadSame(p, c) \/ LoadBegin(p, c)
  \/ \E p \in Slots : Unload(p) \/ UnloadEmpty(p)
  \/ PeerCallTimesOut

Message ==
  \/ \E p \in Slots : MarkUp(p) \/ HandleDown(p)
  \/ \E e \in Pids : MarkUpStale(e)

World ==
  \/ \E e \in Pids : CheckReady(e) \/ InstanceStops(e) \/ EngineBinds(e) \/ EngineExits(e)
  \/ PollBegins \/ PollEnds

Next == Request \/ Launch \/ LaunchFails \/ Message \/ World

Spec == Init /\ [][Next]_vars

(* What the scheduling of the VM gives: Fleet empties its mailbox (which is
   first in, first out, so no message waits for ever behind requests), a
   launch comes to an end, an Instance polls on its timer and notices that its
   engine is gone, and a poll of the container runtime returns.  Nothing is
   assumed of requests, nor of engines, which may start, bind and exit or not. *)
Fairness ==
  /\ WF_vars(Launch \/ LaunchFails)
  /\ \A p \in Slots : SF_vars(MarkUp(p)) /\ SF_vars(HandleDown(p))
  /\ \A e \in Pids : SF_vars(MarkUpStale(e))
  /\ \A e \in Pids : WF_vars(CheckReady(e)) /\ WF_vars(InstanceStops(e))
  /\ WF_vars(PollEnds)

FairSpec == Spec /\ Fairness

-----------------------------------------------------------------------------
(* Safety.                                                                 *)

(* An engine that Fleet itself took down, for an unload or for a swap, is never
   reported as a crash: neither `down` nor `failed` (fleet.ex, moduledoc). *)
NoFalseCrash ==
  \A p \in Slots : board[p].type \in {"down", "failed"} => board[p].engine \notin asked

(* A slot that is not empty is what the last event emitted for it says: same
   engine, same status.  So an observer that missed nothing never takes an
   engine for another one, whatever swaps, crashes and late mark_ups happen. *)
BoardIsCurrent ==
  \A p \in Slots : slots[p].status # "empty" =>
                    board[p] = Event(slots[p].status, slots[p].pid)

(* Every Instance that runs is in the slot it was started for, and is watched
   or about to be replaced, unless it was started before Fleet last restarted:
   one engine per port, none forgotten after a swap or a failed launch. *)
NoForgottenEngine ==
  \A e \in alive : bornIn[e] = epoch =>
     /\ portOf[e] \in Slots
     /\ slots[portOf[e]].pid = e
     /\ e \in monitored

(* A slot is `up` only if the Instance it holds, and not one it has replaced,
   has seen its health check succeed. *)
UpWasReady == \A p \in Slots : slots[p].status = "up" => slots[p].pid \in ready

(* A DOWN that reaches Fleet is that of an engine still in its slot, and of a
   dead one: after a swap's demonitor with flush none is left to reset the
   slot that has been given to the next engine. *)
DownFindsItsSlot ==
  \A e \in downs : e \notin alive /\ \E p \in Slots : slots[p].pid = e

(* The events of a slot follow the lifecycle that SlotBoard specifies. *)
Board == INSTANCE SlotBoard WITH latest <- nextPid - 1
BoardSpec == Board!Spec

-----------------------------------------------------------------------------
(* The inductive invariant behind the safety properties.                   *)

\* Pids are handed out once: nothing has heard of the next one.
Fresh ==
  /\ \A e \in alive \cup monitored \cup upcasts \cup running \cup asked : e < nextPid
  /\ \A p \in Slots : slots[p].pid < nextPid /\ board[p].engine < nextPid
  /\ \A e \in Pids : bornIn[e] <= epoch
  /\ ~Free => nextPid <= MaxPid

\* An empty slot holds no pid, and a pid is only in the slot it was started for.
SlotsWellFormed ==
  \A p \in Slots :
    /\ slots[p].status = "empty" <=> slots[p].pid = 0
    /\ slots[p].pid # 0 => portOf[slots[p].pid] = p

\* While a launch is under way, what the slot still names is gone and unwatched.
Evicted ==
  ~Free => slots[busy.port].pid \notin alive \cup monitored

\* Fleet watches residents only, and a queued DOWN is of one that is dead.
WatchesResidents ==
  /\ \A e \in monitored : portOf[e] \in Slots /\ slots[portOf[e]].pid = e
  /\ downs \subseteq monitored \ alive

\* A resident that was asked to go is on a port with intent, or being replaced.
AskedIsIntended ==
  \A p \in Slots : slots[p].pid \in asked => p \in intent \/ busy.port = p

\* An engine that was reported ended is in no slot.
EndedIsGone ==
  \A p \in Slots : board[p].type \in {"down", "failed", "unloaded"} =>
    /\ board[p].engine # 0
    /\ \A q \in Slots : slots[q].pid # board[p].engine

CastsAreOfReady == upcasts \subseteq ready

IInv ==
  /\ TypeOK /\ Fresh /\ SlotsWellFormed /\ Evicted /\ WatchesResidents
  /\ NoForgottenEngine /\ BoardIsCurrent
  /\ AskedIsIntended /\ EndedIsGone /\ NoFalseCrash
  /\ CastsAreOfReady /\ UpWasReady

-----------------------------------------------------------------------------
(* Liveness, under FairSpec.                                               *)

(* An engine or an Instance that is dead does not stay in its slot. *)
DeadEngineLeavesItsSlot ==
  \A p \in Slots, e \in Pids :
    (slots[p].pid = e /\ (e \notin running \/ e \notin alive)) ~> (slots[p].pid # e)

(* An engine that serves is announced: it does not stay `loading`. *)
ServingEngineComesUp ==
  \A p \in Slots, e \in Pids :
    (slots[p].pid = e /\ e \in listening)
      ~> (slots[p].pid # e \/ slots[p].status = "up" \/ e \notin listening)

-----------------------------------------------------------------------------
(* What the documentation says and the code does not do: each is violated. *)

(* "`:unloaded` -- the slot was freed on request" (fleet/event.ex:11), "Crash
   vs. clean teardown is distinguished by an intent flag" (fleet.ex:12). *)
UnloadedWasAsked ==
  \A p \in Slots : board[p].type = "unloaded" => board[p].engine \in asked

(* "Owns canonical state" (instance.ex:8): the Instances that run are those the
   slots hold, at any time Fleet is not inside a load. *)
FleetKnowsItsEngines ==
  Free => \A e \in alive : \E p \in Slots : slots[p].pid = e

(* "Called by an Instance when readiness passes" (fleet.ex:36): the health
   check that makes an engine ready was answered by that engine. *)
ReadyIsItsOwn ==
  [][\A e \in Pids : e \in ready' \ ready => e \in listening]_vars
=============================================================================
