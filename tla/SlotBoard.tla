----------------------------- MODULE SlotBoard -----------------------------
(***************************************************************************)
(* What an agent promises to whoever follows its slot events: per slot, a  *)
(* board that shows the last event announced for it.  Each engine that is  *)
(* placed in a slot is announced `loading` once, may be announced `up`     *)
(* once, and ends with at most one terminal event, of a kind that fits     *)
(* what was announced before (fleet/event.ex, Fleet.emit/3).               *)
(* A slot may also be given to a new engine without a terminal event for   *)
(* the one it held: that is a swap.                                        *)
(***************************************************************************)
EXTENDS Naturals

CONSTANT Slots          \* the ports the agent is configured to serve

VARIABLES board,        \* [Slots -> the last event announced for the slot]
          latest        \* engines are numbered in the order they are announced

boardVars == <<board, latest>>

Types == {"none", "loading", "up", "down", "failed", "unloaded"}
Event(type, engine) == [type |-> type, engine |-> engine]

Init == /\ board = [s \in Slots |-> Event("none", 0)]
        /\ latest = 0

\* A new engine is placed in slot s, whatever the board shows for it.
Loading(s) ==
  /\ latest' = latest + 1
  /\ board' = [board EXCEPT ![s] = Event("loading", latest + 1)]

\* The engine announced last as loading now serves.
Up(s) ==
  /\ board[s].type = "loading"
  /\ board' = [board EXCEPT ![s] = Event("up", board[s].engine)]
  /\ UNCHANGED latest

\* The engine is gone: `failed` before it was ever up, `down` after, and
\* `unloaded` in either case when it was asked for.
Ended(s) ==
  /\ board[s].type \in {"loading", "up"}
  /\ \E type \in {"unloaded", IF board[s].type = "loading" THEN "failed" ELSE "down"} :
       board' = [board EXCEPT ![s] = Event(type, board[s].engine)]
  /\ UNCHANGED latest

Next == \E s \in Slots : Loading(s) \/ Up(s) \/ Ended(s)

Spec == Init /\ [][Next]_boardVars
=============================================================================
