---------------------------- MODULE FleetProofs ----------------------------
(***************************************************************************)
(* Proofs about Fleet for any number of slots, ports and configurations,   *)
(* and any bound on engines and restarts.                                  *)
(*                                                                         *)
(* Each safety property follows from IInv, the inductive invariant of      *)
(* Fleet.tla.  There is one lemma per action that changes state, with one  *)
(* step per conjunct of IInv that the action disturbs; the other conjuncts *)
(* are in the step before its QED.  That the events follow SlotBoard needs *)
(* only BoardIsCurrent, one action at a time.                              *)
(***************************************************************************)
EXTENDS Fleet, TLAPS

USE FleetAssumption DEF fleetVars, engineVars, peerVars, birthVars,
                        Pids, NoCall, Empty, Event, Free, Running

\* Initially there is no engine, so there is nothing to go wrong.
LEMMA InitIInv ==
  ASSUME Init
  PROVE  IInv
<1>1. TypeOK
  BY DEF Init, TypeOK, Replies
<1>2. QED
  BY <1>1 DEF Init, IInv, Fresh, SlotsWellFormed, Evicted, WatchesResidents,
              NoForgottenEngine, BoardIsCurrent, AskedIsIntended, EndedIsGone,
              NoFalseCrash, CastsAreOfReady, UpWasReady

\* A request that is refused, or has nothing to do, only changes the reply.
LEMMA AnswerStep ==
  ASSUME IInv, NEW r \in Replies, Answer(r)
  PROVE  IInv'
<1>1. TypeOK'
  BY DEF IInv, TypeOK, Answer
<1>2. QED
  BY <1>1 DEF IInv, Answer, Fresh, SlotsWellFormed, Evicted, WatchesResidents,
              NoForgottenEngine, BoardIsCurrent, AskedIsIntended, EndedIsGone,
              NoFalseCrash, CastsAreOfReady, UpWasReady

\* load/3 up to the launch: the resident engine, if any, is unwatched and gone.
LEMMA LoadBeginStep ==
  ASSUME IInv, NEW p \in Slots, NEW c \in Configs, LoadBegin(p, c)
  PROVE  IInv'
<1> DEFINE resident == {slots[p].pid} \ {0}
<1>1. /\ resident \subseteq Pids
      /\ Free /\ nextPid <= MaxPid
      /\ busy' = [port |-> p, config |-> c]
      /\ asked' = asked \cup resident
      /\ monitored' = monitored \ resident
      /\ downs' = downs \ resident
      /\ alive' = alive \ resident
      /\ UNCHANGED <<slots, intent, upcasts, epoch, ready, running, listening,
                     peerVars, birthVars, board, reply>>
  <2>1. slots[p].pid \in 0 .. MaxPid
    BY DEF IInv, TypeOK
  <2>2. CASE slots[p].pid = 0
    BY <2>2 DEF LoadBegin, Serving
  <2>3. CASE slots[p].pid # 0
    BY <2>1, <2>3 DEF LoadBegin, Serving, Evict, Terminate
  <2>4. QED
    BY <2>2, <2>3
<1> USE DEF IInv
<1>2. TypeOK'
  BY <1>1 DEF TypeOK
<1> USE DEF TypeOK
<1>3. Fresh'
  BY <1>1 DEF Fresh
<1>4. Evicted'
  BY <1>1 DEF Evicted, Fresh
<1>5. AskedIsIntended'
  <2> SUFFICES ASSUME NEW q \in Slots, slots[q].pid \in asked', q # p
               PROVE  q \in intent
    BY <1>1 DEF AskedIsIntended
  <2>1. slots[q].pid \in asked
    BY <1>1 DEF SlotsWellFormed
  <2>2. QED
    BY <1>1, <2>1 DEF AskedIsIntended
<1>6. NoFalseCrash'
  BY <1>1 DEF NoFalseCrash, EndedIsGone
<1>7. WatchesResidents' /\ NoForgottenEngine'
  BY <1>1 DEF WatchesResidents, NoForgottenEngine
<1>8. QED
  BY <1>1, <1>2, <1>3, <1>4, <1>5, <1>6, <1>7
     DEF SlotsWellFormed, BoardIsCurrent, EndedIsGone, CastsAreOfReady, UpWasReady

\* The new engine's pid is fresh, so it is distinct from all that is known.
LEMMA LaunchStep ==
  ASSUME IInv, Launch
  PROVE  IInv'
<1> USE DEF IInv, Launch, Watch
<1>1. /\ nextPid \in Pids
      /\ busy.port \in Slots /\ busy.config \in Configs
  BY DEF TypeOK, Fresh
<1>2. TypeOK'
  <2>1. slots' \in [Slots -> [status : {"empty", "loading", "up"},
                              config : Configs \cup {None}, pid : 0 .. MaxPid]]
    BY <1>1 DEF TypeOK
  <2>2. board' \in [Slots -> [type : {"none", "loading", "up", "down", "failed", "unloaded"},
                              engine : 0 .. MaxPid]]
    BY <1>1 DEF TypeOK
  <2>3. portOf' \in [Pids -> Slots \cup {None}] /\ bornIn' \in [Pids -> 0 .. MaxEpoch]
    BY <1>1 DEF TypeOK
  <2>4. /\ monitored' \subseteq Pids /\ alive' \subseteq Pids /\ running' \subseteq Pids
        /\ nextPid' \in 1 .. MaxPid + 1
    BY <1>1 DEF TypeOK
  <2>5. /\ busy' = NoCall /\ reply' \in Replies
        /\ UNCHANGED <<intent, upcasts, downs, epoch, ready, listening, peerVars, asked>>
    BY DEF Replies
  <2>6. QED
    BY <2>1, <2>2, <2>3, <2>4, <2>5 DEF TypeOK
<1> USE DEF TypeOK
<1>3. Fresh'
  BY <1>1 DEF Fresh
<1>4. SlotsWellFormed'
  BY <1>1 DEF SlotsWellFormed, Fresh
<1>5. WatchesResidents' /\ NoForgottenEngine'
  BY <1>1 DEF WatchesResidents, NoForgottenEngine, Evicted, Fresh
<1>6. BoardIsCurrent'
  BY <1>1 DEF BoardIsCurrent
<1>7. AskedIsIntended'
  BY <1>1 DEF AskedIsIntended, Fresh
<1>8. EndedIsGone' /\ NoFalseCrash'
  BY <1>1 DEF EndedIsGone, NoFalseCrash, Fresh
<1>9. Evicted' /\ CastsAreOfReady' /\ UpWasReady'
  BY <1>1 DEF Evicted, CastsAreOfReady, UpWasReady
<1>10. QED
  BY <1>2, <1>3, <1>4, <1>5, <1>6, <1>7, <1>8, <1>9

\* The slot of the failed launch is empty; what it held was evicted before.
LEMMA LaunchFailsStep ==
  ASSUME IInv, LaunchFails
  PROVE  IInv'
<1> USE DEF IInv, TypeOK, LaunchFails
<1>1. TypeOK'
  <2>1. slots' \in [Slots -> [status : {"empty", "loading", "up"},
                              config : Configs \cup {None}, pid : 0 .. MaxPid]]
    OBVIOUS
  <2>2. QED
    BY <2>1 DEF Replies
<1>2. WatchesResidents' /\ NoForgottenEngine'
  BY DEF WatchesResidents, NoForgottenEngine, Evicted
<1>3. SlotsWellFormed' /\ Fresh'
  BY DEF SlotsWellFormed, Fresh
<1>4. AskedIsIntended'
  BY DEF AskedIsIntended
<1>5. EndedIsGone' /\ NoFalseCrash'
  BY DEF EndedIsGone, NoFalseCrash
<1>6. Evicted' /\ BoardIsCurrent'
  BY DEF Evicted, BoardIsCurrent
<1>7. CastsAreOfReady' /\ UpWasReady'
  BY DEF CastsAreOfReady, UpWasReady
<1>8. QED
  BY <1>1, <1>2, <1>3, <1>4, <1>5, <1>6, <1>7

\* The resident becomes asked, and its port intended, in the same step.
LEMMA UnloadStep ==
  ASSUME IInv, NEW p \in Slots, Unload(p)
  PROVE  IInv'
<1> USE DEF IInv, TypeOK, Unload, Intend, Terminate, Serving
<1>1. slots[p].pid \in Pids
  OBVIOUS
<1>2. TypeOK'
  BY <1>1 DEF Replies
<1>3. Fresh'
  BY <1>1 DEF Fresh
<1>4. AskedIsIntended'
  BY <1>1 DEF AskedIsIntended, SlotsWellFormed
<1>5. NoFalseCrash'
  BY <1>1 DEF NoFalseCrash, EndedIsGone
<1>6. WatchesResidents' /\ NoForgottenEngine'
  BY <1>1 DEF WatchesResidents, NoForgottenEngine
<1>7. SlotsWellFormed' /\ Evicted' /\ BoardIsCurrent'
  BY DEF SlotsWellFormed, Evicted, BoardIsCurrent
<1>8. EndedIsGone' /\ CastsAreOfReady' /\ UpWasReady'
  BY DEF EndedIsGone, CastsAreOfReady, UpWasReady
<1>9. QED
  BY <1>2, <1>3, <1>4, <1>5, <1>6, <1>7, <1>8

\* Fleet forgets everything; the engines it forgets are of an earlier epoch.
LEMMA PeerCallTimesOutStep ==
  ASSUME IInv, PeerCallTimesOut
  PROVE  IInv'
<1> USE DEF IInv, TypeOK, PeerCallTimesOut
<1>1. TypeOK'
  BY DEF Replies
<1>2. Fresh' /\ NoForgottenEngine'
  BY DEF Fresh, NoForgottenEngine
<1>3. AskedIsIntended' /\ EndedIsGone' /\ NoFalseCrash'
  BY DEF AskedIsIntended, EndedIsGone, NoFalseCrash
<1>4. SlotsWellFormed' /\ Evicted' /\ WatchesResidents'
  BY DEF SlotsWellFormed, Evicted, WatchesResidents
<1>5. BoardIsCurrent' /\ CastsAreOfReady' /\ UpWasReady'
  BY DEF BoardIsCurrent, CastsAreOfReady, UpWasReady
<1>6. QED
  BY <1>1, <1>2, <1>3, <1>4, <1>5

\* The slot and its board move from loading to up together.
LEMMA MarkUpStep ==
  ASSUME IInv, NEW p \in Slots, MarkUp(p)
  PROVE  IInv'
<1> DEFINE e == slots[p].pid
<1>1. /\ Free /\ e \in upcasts /\ slots[p].status = "loading"
      /\ upcasts' = upcasts \ {e}
      /\ slots' = [slots EXCEPT ![p].status = "up"]
      /\ board' = [board EXCEPT ![p] = Event("up", e)]
      /\ UNCHANGED <<intent, busy, monitored, downs, epoch, engineVars, peerVars,
                     birthVars, reply, asked>>
  BY DEF MarkUp
<1>2. TypeOK'
  <2>1. e \in Pids
    BY <1>1 DEF IInv, TypeOK
  <2>2. slots' \in [Slots -> [status : {"empty", "loading", "up"},
                              config : Configs \cup {None}, pid : 0 .. MaxPid]]
    <3>1. slots[p] \in [status : {"empty", "loading", "up"},
                        config : Configs \cup {None}, pid : 0 .. MaxPid]
      BY DEF IInv, TypeOK
    <3>2. [slots[p] EXCEPT !.status = "up"] \in
            [status : {"empty", "loading", "up"}, config : Configs \cup {None}, pid : 0 .. MaxPid]
      BY <3>1
    <3>3. slots' = [slots EXCEPT ![p] = [slots[p] EXCEPT !.status = "up"]]
      BY <1>1
    <3>4. QED
      BY <3>2, <3>3 DEF IInv, TypeOK
  <2>3. board' \in [Slots -> [type : {"none", "loading", "up", "down", "failed", "unloaded"},
                              engine : 0 .. MaxPid]]
    BY <1>1, <2>1 DEF IInv, TypeOK
  <2>4. upcasts' \subseteq Pids
    BY <1>1 DEF IInv, TypeOK
  <2>5. QED
    BY <1>1, <2>2, <2>3, <2>4 DEF IInv, TypeOK
<1> USE DEF IInv, TypeOK
<1>3. /\ \A q \in Slots : slots'[q].pid = slots[q].pid
      /\ \A q \in Slots \ {p} : slots'[q] = slots[q] /\ board'[q] = board[q]
      /\ slots'[p].status = "up" /\ board'[p] = [type |-> "up", engine |-> e]
  BY <1>1
<1> HIDE DEF e
<1>4. Fresh'
  BY <1>1, <1>3 DEF Fresh
<1>5. SlotsWellFormed' /\ Evicted'
  BY <1>1, <1>3 DEF SlotsWellFormed, Evicted
<1>6. WatchesResidents' /\ NoForgottenEngine'
  BY <1>1, <1>3 DEF WatchesResidents, NoForgottenEngine
<1>7. BoardIsCurrent'
  BY <1>1, <1>3 DEF BoardIsCurrent, e
<1>8. UpWasReady' /\ CastsAreOfReady'
  BY <1>1, <1>3 DEF UpWasReady, CastsAreOfReady, e
<1>9. AskedIsIntended'
  BY <1>1, <1>3 DEF AskedIsIntended
<1>10. EndedIsGone' /\ NoFalseCrash'
  BY <1>1, <1>3 DEF EndedIsGone, NoFalseCrash, e
<1>11. QED
  BY <1>2, <1>4, <1>5, <1>6, <1>7, <1>8, <1>9, <1>10

\* The slot is emptied.  It reads as a crash only without intent, and then its
\* engine was never asked to go.
LEMMA HandleDownStep ==
  ASSUME IInv, NEW p \in Slots, HandleDown(p)
  PROVE  IInv'
<1> USE DEF IInv, HandleDown
<1>1. /\ EndType(p) \in {"unloaded", "failed", "down"}
      /\ EndType(p) \in {"failed", "down"} => p \notin intent
  BY DEF EndType
<1> USE DEF TypeOK
<1>2. slots[p].pid \in Pids
  OBVIOUS
<1>3. TypeOK'
  <2>1. board' \in [Slots -> [type : {"none", "loading", "up", "down", "failed", "unloaded"},
                              engine : 0 .. MaxPid]]
    BY <1>1, <1>2
  <2>2. slots' \in [Slots -> [status : {"empty", "loading", "up"},
                              config : Configs \cup {None}, pid : 0 .. MaxPid]]
    OBVIOUS
  <2>3. QED
    BY <2>1, <2>2
<1>4. Fresh' /\ SlotsWellFormed'
  BY <1>2 DEF Fresh, SlotsWellFormed
<1>5. WatchesResidents' /\ NoForgottenEngine'
  <2>1. WatchesResidents'
    BY <1>2 DEF WatchesResidents, SlotsWellFormed
  <2>2. NoForgottenEngine'
    BY <1>2 DEF WatchesResidents, NoForgottenEngine
  <2>3. QED
    BY <2>1, <2>2
<1>6. AskedIsIntended'
  BY <1>2 DEF AskedIsIntended
<1>7. EndedIsGone'
  BY <1>2 DEF EndedIsGone, SlotsWellFormed
<1>8. NoFalseCrash'
  BY <1>1, <1>2 DEF NoFalseCrash, AskedIsIntended
<1>9. Evicted' /\ BoardIsCurrent'
  BY <1>2 DEF Evicted, BoardIsCurrent
<1>10. CastsAreOfReady' /\ UpWasReady'
  BY <1>2 DEF CastsAreOfReady, UpWasReady
<1>11. QED
  BY <1>3, <1>4, <1>5, <1>6, <1>7, <1>8, <1>9, <1>10

\* What the Instances, the engines and PeerRanks do by themselves.
LEMMA InstanceStep ==
  ASSUME IInv, NEW x \in Pids, CheckReady(x) \/ InstanceStops(x) \/ MarkUpStale(x)
  PROVE  IInv'
<1>1. CASE CheckReady(x)
  <2>1. TypeOK'
    BY <1>1 DEF CheckReady, IInv, TypeOK
  <2>2. Fresh' /\ CastsAreOfReady' /\ UpWasReady'
    BY <1>1 DEF CheckReady, IInv, TypeOK, Fresh, CastsAreOfReady, UpWasReady
  <2>3. QED
    BY <1>1, <2>1, <2>2 DEF CheckReady, IInv, SlotsWellFormed, Evicted, WatchesResidents,
         NoForgottenEngine, BoardIsCurrent, AskedIsIntended, EndedIsGone, NoFalseCrash
<1>2. CASE InstanceStops(x)
  <2>1. /\ x \in alive \ running /\ alive' = alive \ {x}
        /\ downs \subseteq downs' /\ downs' \subseteq downs \cup {x}
        /\ x \in downs' <=> x \in monitored \/ x \in downs
        /\ UNCHANGED <<slots, intent, busy, monitored, upcasts, epoch, ready, running,
                       listening, peerVars, birthVars, board, reply, asked>>
    BY <1>2 DEF InstanceStops
  <2>2. TypeOK'
    BY <2>1 DEF IInv, TypeOK
  <2>3. Fresh' /\ SlotsWellFormed' /\ Evicted'
    BY <2>1 DEF IInv, Fresh, SlotsWellFormed, Evicted
  <2>4. WatchesResidents'
    BY <2>1 DEF IInv, TypeOK, WatchesResidents
  <2>5. NoForgottenEngine'
    BY <2>1 DEF IInv, NoForgottenEngine
  <2>6. BoardIsCurrent' /\ AskedIsIntended'
    BY <2>1 DEF IInv, BoardIsCurrent, AskedIsIntended
  <2>7. EndedIsGone' /\ NoFalseCrash'
    BY <2>1 DEF IInv, EndedIsGone, NoFalseCrash
  <2>8. CastsAreOfReady' /\ UpWasReady'
    BY <2>1 DEF IInv, CastsAreOfReady, UpWasReady
  <2>9. QED
    BY <2>2, <2>3, <2>4, <2>5, <2>6, <2>7, <2>8 DEF IInv
<1>3. CASE MarkUpStale(x)
  <2>1. /\ upcasts' \subseteq upcasts
        /\ UNCHANGED <<slots, intent, busy, monitored, downs, epoch, engineVars, peerVars,
                       birthVars, board, reply, asked>>
    BY <1>3 DEF MarkUpStale
  <2>2. TypeOK'
    BY <2>1 DEF IInv, TypeOK
  <2>3. CastsAreOfReady' /\ Fresh'
    BY <2>1 DEF IInv, CastsAreOfReady, Fresh
  <2>4. QED
    BY <2>1, <2>2, <2>3 DEF IInv, SlotsWellFormed, Evicted, WatchesResidents,
         NoForgottenEngine, BoardIsCurrent, AskedIsIntended, EndedIsGone,
         NoFalseCrash, UpWasReady
<1>4. QED
  BY <1>1, <1>2, <1>3

LEMMA OutsideStep ==
  ASSUME IInv,
         PollBegins \/ PollEnds \/ \E x \in Pids : EngineBinds(x) \/ EngineExits(x)
  PROVE  IInv'
<1>1. /\ UNCHANGED <<fleetVars, alive, ready, birthVars, board, reply, asked>>
      /\ running' \subseteq running /\ listening' \subseteq Pids
      /\ held' \subseteq Ports /\ polling' \in BOOLEAN
  BY DEF PollBegins, PollEnds, EngineBinds, EngineExits, IInv, TypeOK
<1>2. TypeOK'
  BY <1>1 DEF IInv, TypeOK
<1>3. QED
  BY <1>1, <1>2 DEF IInv, Fresh, SlotsWellFormed, Evicted, WatchesResidents,
              NoForgottenEngine, BoardIsCurrent, AskedIsIntended, EndedIsGone,
              NoFalseCrash, CastsAreOfReady, UpWasReady

(* IInv holds in every state: the invariant the safety properties rest on. *)
THEOREM Invariance == Spec => []IInv
<1>1. Init => IInv
  BY InitIInv
<1>2. IInv /\ [Next]_vars => IInv'
  <2> SUFFICES ASSUME IInv, [Next]_vars
               PROVE  IInv'
    OBVIOUS
  <2>1. CASE Request
    <3>1. ASSUME NEW p \in Ports, RefuseHeld(p) \/ RefuseUnknown(p)
          PROVE  IInv'
      BY <3>1, AnswerStep DEF RefuseHeld, RefuseUnknown, Replies
    <3>2. ASSUME NEW p \in Slots, NEW c \in Configs, LoadSame(p, c)
          PROVE  IInv'
      BY <3>2, AnswerStep DEF LoadSame, Replies
    <3>3. ASSUME NEW p \in Slots, UnloadEmpty(p)
          PROVE  IInv'
      BY <3>3, AnswerStep DEF UnloadEmpty, Replies
    <3>4. QED
      BY <2>1, <3>1, <3>2, <3>3, LoadBeginStep, UnloadStep, PeerCallTimesOutStep DEF Request
  <2>2. CASE Launch \/ LaunchFails
    BY <2>2, LaunchStep, LaunchFailsStep
  <2>3. CASE Message
    BY <2>3, MarkUpStep, HandleDownStep, InstanceStep DEF Message
  <2>4. CASE World
    BY <2>4, InstanceStep, OutsideStep DEF World
  <2>5. CASE UNCHANGED vars
    BY <2>5 DEF vars, IInv, TypeOK, Fresh, SlotsWellFormed, Evicted, WatchesResidents,
                NoForgottenEngine, BoardIsCurrent, AskedIsIntended, EndedIsGone,
                NoFalseCrash, CastsAreOfReady, UpWasReady
  <2>6. QED
    BY <2>1, <2>2, <2>3, <2>4, <2>5 DEF Next
<1>3. QED
  BY <1>1, <1>2, PTL DEF Spec

(* Every variable keeps its type. *)
THEOREM TypeCorrect == Spec => []TypeOK
<1>1. IInv => TypeOK
  BY DEF IInv
<1>2. QED
  BY <1>1, Invariance, PTL

(* However unloads, swaps, crashes, late messages and restarts of Fleet
   interleave, a deliberate eviction is never reported as a crash. *)
THEOREM DeliberateIsNeverACrash == Spec => []NoFalseCrash
<1>1. IInv => NoFalseCrash
  BY DEF IInv
<1>2. QED
  BY <1>1, Invariance, PTL

(* The last event of a slot that is not empty says what the slot holds. *)
THEOREM EventsTrackTheSlots == Spec => []BoardIsCurrent
<1>1. IInv => BoardIsCurrent
  BY DEF IInv
<1>2. QED
  BY <1>1, Invariance, PTL

(* As long as Fleet has not restarted it holds and watches all its engines. *)
THEOREM NoEngineIsForgotten == Spec => []NoForgottenEngine
<1>1. IInv => NoForgottenEngine
  BY DEF IInv
<1>2. QED
  BY <1>1, Invariance, PTL

(* A late mark_up of a replaced engine never brings up the one in its place. *)
THEOREM OnlyReadyEnginesAreUp == Spec => []UpWasReady
<1>1. IInv => UpWasReady
  BY DEF IInv
<1>2. QED
  BY <1>1, Invariance, PTL

(* No DOWN is left over from a swap: each finds the slot of its engine. *)
THEOREM EveryDownFindsItsSlot == Spec => []DownFindsItsSlot
<1>1. IInv => DownFindsItsSlot
  BY DEF IInv, TypeOK, WatchesResidents, DownFindsItsSlot
<1>2. QED
  BY <1>1, Invariance, PTL

-----------------------------------------------------------------------------
(* Fleet implements SlotBoard.                                             *)

\* The one fact the refinement needs of IInv's BoardIsCurrent is about the
\* slot an event is emitted for.
LEMMA BoardStep ==
  ASSUME IInv, [Next]_vars
  PROVE  [Board!Next]_(Board!boardVars)
<1> USE DEF Board!boardVars, Board!Next, Board!Event, IInv, TypeOK
<1>1. CASE UNCHANGED <<board, nextPid>>
  BY <1>1
<1>2. CASE Launch
  <2>1. Board!Loading(busy.port) /\ busy.port \in Slots
    BY <1>2 DEF Launch, Board!Loading, Fresh
  <2>2. QED
    BY <2>1
<1>3. ASSUME NEW p \in Slots, MarkUp(p)
      PROVE  Board!Up(p)
  <2>1. board[p].type = "loading" /\ board[p].engine = slots[p].pid
    BY <1>3 DEF MarkUp, BoardIsCurrent
  <2>2. board' = [board EXCEPT ![p] = [type |-> "up", engine |-> board[p].engine]]
    BY <1>3, <2>1 DEF MarkUp
  <2>3. QED
    BY <1>3, <2>1, <2>2 DEF MarkUp, Board!Up
<1>4. ASSUME NEW p \in Slots, HandleDown(p)
      PROVE  Board!Ended(p)
  <2>1. board[p] = Event(slots[p].status, slots[p].pid) /\ slots[p].status \in {"loading", "up"}
    BY <1>4 DEF HandleDown, BoardIsCurrent, SlotsWellFormed
  <2>2. EndType(p) \in {"unloaded", IF board[p].type = "loading" THEN "failed" ELSE "down"}
    BY <2>1 DEF EndType
  <2>3. board' = [board EXCEPT ![p] = [type |-> EndType(p), engine |-> board[p].engine]]
    BY <1>4, <2>1 DEF HandleDown
  <2>4. board[p].type \in {"loading", "up"} /\ UNCHANGED (nextPid - 1)
    BY <1>4, <2>1 DEF HandleDown
  <2>5. \E type \in {"unloaded", IF board[p].type = "loading" THEN "failed" ELSE "down"} :
          board' = [board EXCEPT ![p] = [type |-> type, engine |-> board[p].engine]]
    BY <2>2, <2>3, Zenon
  <2>6. QED
    BY <2>4, <2>5, Zenon DEF Board!Ended
<1>5. QED
  BY <1>1, <1>2, <1>3, <1>4
     DEF Next, Request, Message, World, Answer, RefuseHeld, RefuseUnknown, LoadSame,
         LoadBegin, LaunchFails, Unload, UnloadEmpty, PeerCallTimesOut, MarkUpStale,
         CheckReady, InstanceStops, EngineBinds, EngineExits, PollBegins, PollEnds, vars

(* The stream of events Fleet emits is one SlotBoard allows: per engine at most
   one `up`, at most one terminal event, of the kind that fits. *)
THEOREM FleetImplementsSlotBoard == Spec => BoardSpec
<1>1. Init => Board!Init
  BY DEF Init, Board!Init, Board!Event
<1>2. IInv /\ [Next]_vars => [Board!Next]_(Board!boardVars)
  BY BoardStep
<1>3. QED
  BY <1>1, <1>2, Invariance, PTL DEF Spec, BoardSpec, Board!Spec
=============================================================================
