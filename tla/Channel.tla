------------------------------ MODULE Channel ------------------------------
(***************************************************************************)
(* AiroAgent.Notifier.Channel: the client process that keeps one Airo      *)
(* informed of this host's slots, between the sources of slot state (Fleet *)
(* and PeerRanks, which answer `slots/0` and publish events) and the Airo  *)
(* at the other end of a socket that may go away at any time.              *)
(*                                                                         *)
(* The state of a slot is the number of times it has changed, so that a    *)
(* larger number is newer.  Most changes are published as an event, some   *)
(* (a launch that fails after its predecessor was evicted, a restart of    *)
(* Fleet) are not.  Each endpoint has its own such process and socket, and *)
(* they share nothing: one is modelled.                                    *)
(*                                                                         *)
(* HandleJoinUnregistered, HeartbeatIdle and HandleDisconnectWrapped are   *)
(* mistaken variants of the definitions they precede; no action uses them. *)
(***************************************************************************)
EXTENDS Naturals, Sequences

CONSTANTS Slots,       \* the slots of this host
          MaxChange,   \* bound: changes of a slot over a behaviour
          MaxInbox,    \* bound: events waiting in the process's mailbox
          MaxWire,     \* bound: messages in flight on the socket
          MaxFault     \* bound: disconnects, closed topics and crashes

ASSUME ChannelAssumption ==
  /\ MaxChange \in Nat /\ MaxInbox \in Nat
  /\ MaxWire \in Nat \ {0}
  /\ MaxFault \in Nat

VARIABLES
  fleet,     \* [Slots -> the slot's present state], as slots/0 reports it
  told,      \* [Slots -> the last state an event was published for]
  blocked,   \* Fleet is inside a load, or GPU inside a poll, and answers no call
  inbox,     \* events published to the process and not yet handled
  sock,      \* "down", "connected" (join requested), "joined"
  wire,      \* messages on the socket, towards Airo
  view,      \* [Slots -> what Airo takes the slot's state to be]
  faults     \* how many faults there have been

vars == <<fleet, told, blocked, inbox, sock, wire, view, faults>>

Versions == [Slots -> 0 .. MaxChange]
SlotMsg(e) == [type |-> "slot", slot |-> e.slot, state |-> e.state]
RegisterMsg == [type |-> "register", slots |-> fleet]
Events == [slot : Slots, state : 0 .. MaxChange]
Messages == [type : {"slot"}, slot : Slots, state : 0 .. MaxChange]
            \cup [type : {"register"}, slots : Versions]

TypeOK ==
  /\ fleet \in Versions /\ told \in Versions /\ view \in Versions
  /\ blocked \in BOOLEAN
  /\ inbox \in Seq(Events) /\ Len(inbox) <= MaxInbox
  /\ sock \in {"down", "connected", "joined"}
  /\ wire \in Seq(Messages) /\ Len(wire) <= MaxWire
  /\ faults \in 0 .. MaxFault

Init ==
  /\ fleet = [p \in Slots |-> 0] /\ told = fleet /\ view = fleet
  /\ blocked = FALSE
  /\ inbox = <<>>
  /\ sock = "down"          \* connect!/1 in init/1 has only asked for a connection
  /\ wire = <<>>
  /\ faults = 0

-----------------------------------------------------------------------------
(* The sources of slot state.                                              *)

\* A transition that is emitted: publish/1 sends it to the process, whether or
\* not that is connected.
Transition(p) ==
  /\ fleet[p] < MaxChange /\ Len(inbox) < MaxInbox
  /\ fleet' = [fleet EXCEPT ![p] = @ + 1]
  /\ told' = [told EXCEPT ![p] = fleet'[p]]
  /\ inbox' = Append(inbox, [slot |-> p, state |-> fleet'[p]])
  /\ UNCHANGED <<blocked, sock, wire, view, faults>>

\* One that is not.
SilentTransition(p) ==
  /\ fleet[p] < MaxChange
  /\ fleet' = [fleet EXCEPT ![p] = @ + 1]
  /\ UNCHANGED <<told, blocked, inbox, sock, wire, view, faults>>

\* Fleet goes into, and comes out of, a teardown and launch; or GPU, whose
\* snapshot a register carries, an `nvidia-smi`.
FleetBlocks   == ~blocked /\ blocked' = TRUE
                 /\ UNCHANGED <<fleet, told, inbox, sock, wire, view, faults>>
FleetUnblocks == blocked /\ blocked' = FALSE
                 /\ UNCHANGED <<fleet, told, inbox, sock, wire, view, faults>>

-----------------------------------------------------------------------------
(* The process.                                                            *)

\* push_register: asks Fleet for its slots, now, and pushes all of them.
PushRegister ==
  /\ ~blocked
  /\ Len(wire) < MaxWire
  /\ wire' = Append(wire, RegisterMsg)
  /\ UNCHANGED <<fleet, told, blocked, inbox, view, faults>>

\* handle_connect: ask to join the topic.
HandleConnect ==
  /\ sock = "down" /\ sock' = "connected"
  /\ UNCHANGED <<fleet, told, blocked, inbox, wire, view, faults>>

\* handle_join: register, first thing on every join and rejoin.
HandleJoinUnregistered ==
  /\ sock = "connected" /\ sock' = "joined"
  /\ UNCHANGED <<fleet, told, blocked, inbox, wire, view, faults>>
HandleJoin == sock = "connected" /\ sock' = "joined" /\ PushRegister

\* handle_message("resync"): Airo asks for a registration.
HandleResync == sock = "joined" /\ UNCHANGED sock /\ PushRegister

\* handle_info(:heartbeat): the timer's registration, only while joined.
HeartbeatIdle == sock = "joined" /\ UNCHANGED vars
Heartbeat == sock = "joined" /\ UNCHANGED sock /\ PushRegister

\* handle_info(:publish): pushed while joined, dropped otherwise.
HandlePublish ==
  /\ inbox # <<>>
  /\ inbox' = Tail(inbox)
  /\ IF sock = "joined"
       THEN Len(wire) < MaxWire /\ wire' = Append(wire, SlotMsg(Head(inbox)))
       ELSE UNCHANGED wire
  /\ UNCHANGED <<fleet, told, blocked, sock, view, faults>>

\* Airo applies the next message: a slot's state, or that of all of them.
AiroReceives ==
  /\ wire # <<>>
  /\ wire' = Tail(wire)
  /\ view' = IF Head(wire).type = "register" THEN Head(wire).slots
             ELSE [view EXCEPT ![Head(wire).slot] = Head(wire).state]
  /\ UNCHANGED <<fleet, told, blocked, inbox, sock, faults>>

-----------------------------------------------------------------------------
(* Faults.                                                                 *)

Fault == faults < MaxFault /\ faults' = faults + 1

\* handle_disconnect: reconnect on backoff.  What was in flight may be lost.
HandleDisconnectWrapped ==
  /\ Fault
  /\ sock # "down" /\ sock' = "ok: ok: down"
  /\ wire' = <<>>
  /\ UNCHANGED <<fleet, told, blocked, inbox, view>>
HandleDisconnect ==
  /\ Fault
  /\ sock # "down" /\ sock' = "down"
  /\ wire' = <<>>
  /\ UNCHANGED <<fleet, told, blocked, inbox, view>>

\* handle_topic_close, when rejoin/3 takes the topic as one it has joined: the
\* join is requested again.
HandleTopicClose ==
  /\ Fault
  /\ sock # "down" /\ sock' = "connected"
  /\ UNCHANGED <<fleet, told, blocked, inbox, wire, view>>

\* The process dies and its supervisor starts another, which has to connect
\* again and whose mailbox is empty.
Restart ==
  /\ Fault
  /\ sock' = "down" /\ wire' = <<>> /\ inbox' = <<>>
  /\ UNCHANGED <<fleet, told, blocked, view>>

\* handle_topic_close, when it does not: {:ok, reconnect(socket)} wraps a reply
\* in a reply, which no callback may return.
HandleTopicCloseNeverJoined == sock = "connected" /\ Restart

\* Any push_register, when one of them is blocked for longer than the 5 s a
\* GenServer.call waits.
RegisterTimesOut == sock \in {"connected", "joined"} /\ blocked /\ Restart

-----------------------------------------------------------------------------
Source == \/ \E p \in Slots : Transition(p) \/ SilentTransition(p)
          \/ FleetBlocks \/ FleetUnblocks

Process == HandleConnect \/ HandleJoin \/ HandleResync \/ Heartbeat \/ HandlePublish

Faulty == \/ HandleDisconnect \/ HandleTopicClose
          \/ HandleTopicCloseNeverJoined \/ RegisterTimesOut

Next == Source \/ Process \/ AiroReceives \/ Faulty

Spec == Init /\ [][Next]_vars

(* The client reconnects and rejoins on its backoff and handles what it is sent;
   a load in Fleet comes to an end; the heartbeat timer re-arms itself and is
   handled though Fleet may be blocked again and again (each load is bounded,
   and the call waits for it); the socket delivers. *)
Fairness ==
  /\ WF_vars(HandleConnect) /\ SF_vars(HandleJoin) /\ SF_vars(HandlePublish)
  /\ SF_vars(Heartbeat)
  /\ WF_vars(FleetUnblocks) /\ WF_vars(AiroReceives)

FairSpec == Spec /\ Fairness

-----------------------------------------------------------------------------
(* When the process is joined and nothing is queued or in flight, Airo's state
   of every slot is at least as new as the last event published for it: events
   dropped while disconnected, or lost with the socket or with the process, are
   made up for by the register (channel.ex:14-17). *)
NoAnnouncementIsLost ==
  (sock = "joined" /\ inbox = <<>> /\ wire = <<>>) =>
     \A p \in Slots : view[p] >= told[p]

(* Why it holds, as an inductive invariant.  The last event queued for a slot is
   the last one published for it; while the process is joined and none is queued,
   the last thing on the wire that speaks of the slot, or with nothing there
   Airo's view, is at least as new. *)
Speaks(m, p) == m.type = "register" \/ m.slot = p
Said(m, p) == IF m.type = "register" THEN m.slots[p] ELSE m.state
Queued(p) == \E i \in 1 .. Len(inbox) : inbox[i].slot = p

ToldIsPast == \A p \in Slots : told[p] <= fleet[p]
LastEventIsTold ==
  \A p \in Slots : \A i \in 1 .. Len(inbox) :
    inbox[i].slot = p /\ (\A j \in (i + 1) .. Len(inbox) : inbox[j].slot # p)
      => inbox[i].state = told[p]
LastWordIsFresh ==
  sock = "joined" =>
    \A p \in Slots : ~ Queued(p) =>
      /\ \A i \in 1 .. Len(wire) :
           Speaks(wire[i], p) /\ (\A j \in (i + 1) .. Len(wire) : ~ Speaks(wire[j], p))
             => Said(wire[i], p) >= told[p]
      /\ (\A i \in 1 .. Len(wire) : ~ Speaks(wire[i], p)) => view[p] >= told[p]
IInv == TypeOK /\ ToldIsPast /\ LastEventIsTold /\ LastWordIsFresh

(* Once slots and network leave it alone Airo has the true state of every slot
   and keeps it, also after a change that no event told it of, and although an
   event queued before a register is pushed after it and sets Airo back. *)
ViewCatchesUp == <>[](view = fleet)
=============================================================================
