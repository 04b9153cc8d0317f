---------------------------- MODULE ChannelProofs ----------------------------
(***************************************************************************)
(* Proofs about Channel, for any slots and bounds: its types, and that no  *)
(* announcement is lost for good (NoAnnouncementIsLost).                   *)
(***************************************************************************)
EXTENDS Channel, TLAPS

USE ChannelAssumption DEF Versions

\* Nothing is queued and the process is not joined.
LEMMA InitIInv ==
  ASSUME Init
  PROVE  IInv
<1>1. /\ fleet \in [Slots -> 0 .. MaxChange] /\ told \in [Slots -> 0 .. MaxChange]
      /\ view \in [Slots -> 0 .. MaxChange] /\ fleet = told
  BY DEF Init
<1>2. inbox \in Seq(Events) /\ Len(inbox) = 0
  BY DEF Init
<1>3. wire \in Seq(Messages) /\ Len(wire) = 0
  BY DEF Init
<1>4. blocked \in BOOLEAN /\ sock = "down"
  BY DEF Init
<1>5. faults \in 0 .. MaxFault
  BY DEF Init
<1>6. TypeOK
  BY <1>1, <1>2, <1>3, <1>4, <1>5 DEF TypeOK
<1>7. ToldIsPast
  BY <1>1 DEF ToldIsPast
<1>8. LastEventIsTold
  BY <1>2 DEF LastEventIsTold
<1>9. LastWordIsFresh
  BY <1>4 DEF LastWordIsFresh
<1>10. QED
  BY <1>6, <1>7, <1>8, <1>9 DEF IInv

\* What is pushed to a sequence comes last in it.
LEMMA AppendFacts ==
  ASSUME NEW S, NEW q \in Seq(S), NEW e \in S
  PROVE  /\ Append(q, e) \in Seq(S)
         /\ Len(Append(q, e)) = Len(q) + 1
         /\ \A i \in 1 .. Len(q) : Append(q, e)[i] = q[i]
         /\ Append(q, e)[Len(q) + 1] = e
  OBVIOUS

\* What is taken from a sequence came first in it.
LEMMA TailFacts ==
  ASSUME NEW S, NEW q \in Seq(S), q # <<>>
  PROVE  /\ Tail(q) \in Seq(S) /\ Head(q) \in S /\ Head(q) = q[1]
         /\ Len(q) \in Nat \ {0} /\ Len(Tail(q)) = Len(q) - 1
         /\ \A i \in 1 .. Len(Tail(q)) : Tail(q)[i] = q[i + 1]
  OBVIOUS

\* The messages of the process are messages.
LEMMA MessageTypes ==
  ASSUME TypeOK
  PROVE  /\ RegisterMsg \in Messages
         /\ \A e \in Events : SlotMsg(e) \in Messages
  BY DEF TypeOK, RegisterMsg, SlotMsg, Events, Messages

-----------------------------------------------------------------------------
(* Types.                                                                  *)

\* A published event fits the mailbox.
LEMMA TransitionType ==
  ASSUME TypeOK, NEW p \in Slots, Transition(p)
  PROVE  TypeOK'
<1> DEFINE e == [slot |-> p, state |-> fleet'[p]]
<1>1. fleet' \in [Slots -> 0 .. MaxChange] /\ fleet'[p] \in 0 .. MaxChange
  BY DEF TypeOK, Transition
<1>2. told' \in [Slots -> 0 .. MaxChange]
  BY <1>1 DEF TypeOK, Transition
<1>3. e \in Events /\ inbox' = Append(inbox, e)
  BY <1>1 DEF Transition, Events
<1>4. inbox' \in Seq(Events) /\ Len(inbox') = Len(inbox) + 1
  BY <1>3, AppendFacts DEF TypeOK
<1>5. Len(inbox') <= MaxInbox
  BY <1>4 DEF TypeOK, Transition
<1>6. UNCHANGED <<blocked, sock, wire, view, faults>>
  BY DEF Transition
<1>7. QED
  BY <1>1, <1>2, <1>4, <1>5, <1>6 DEF TypeOK

\* A register fits the wire.
LEMMA RegisterType ==
  ASSUME TypeOK, PushRegister, sock' \in {"down", "connected", "joined"}
  PROVE  TypeOK'
<1>1. wire' = Append(wire, RegisterMsg) /\ RegisterMsg \in Messages
  BY MessageTypes DEF PushRegister
<1>2. wire' \in Seq(Messages) /\ Len(wire') = Len(wire) + 1
  BY <1>1, AppendFacts DEF TypeOK
<1>3. Len(wire') <= MaxWire
  BY <1>2 DEF TypeOK, PushRegister
<1>4. UNCHANGED <<fleet, told, blocked, inbox, view, faults>>
  BY DEF PushRegister
<1>5. QED
  BY <1>2, <1>3, <1>4 DEF TypeOK

\* An event that is handled leaves the mailbox, for the wire or for nowhere.
LEMMA PublishType ==
  ASSUME TypeOK, HandlePublish
  PROVE  TypeOK'
<1>1. inbox' \in Seq(Events) /\ Len(inbox') = Len(inbox) - 1 /\ Head(inbox) \in Events
  BY TailFacts DEF TypeOK, HandlePublish
<1>2. wire' \in Seq(Messages) /\ Len(wire') <= MaxWire
  <2>1. CASE sock = "joined"
    <3>1. wire' = Append(wire, SlotMsg(Head(inbox))) /\ SlotMsg(Head(inbox)) \in Messages
      BY <2>1, <1>1, MessageTypes DEF HandlePublish
    <3>2. wire' \in Seq(Messages) /\ Len(wire') = Len(wire) + 1
      BY <3>1, AppendFacts DEF TypeOK
    <3>3. QED
      BY <2>1, <3>2 DEF TypeOK, HandlePublish
  <2>2. CASE sock # "joined"
    BY <2>2 DEF TypeOK, HandlePublish
  <2>3. QED
    BY <2>1, <2>2
<1>3. Len(inbox') <= MaxInbox
  BY <1>1 DEF TypeOK
<1>4. UNCHANGED <<fleet, told, blocked, sock, view, faults>>
  BY DEF HandlePublish
<1>5. QED
  BY <1>1, <1>2, <1>3, <1>4 DEF TypeOK

\* What Airo receives are states of slots.
LEMMA ReceiveType ==
  ASSUME TypeOK, AiroReceives
  PROVE  TypeOK'
<1>1. wire' \in Seq(Messages) /\ Len(wire') = Len(wire) - 1 /\ Head(wire) \in Messages
  BY TailFacts DEF TypeOK, AiroReceives
<1>2. view' \in [Slots -> 0 .. MaxChange]
  <2>1. CASE Head(wire).type = "register"
    BY <1>1, <2>1 DEF TypeOK, AiroReceives, Messages
  <2>2. CASE Head(wire).type # "register"
    <3>1. Head(wire).slot \in Slots /\ Head(wire).state \in 0 .. MaxChange
      BY <1>1, <2>2 DEF Messages
    <3>2. QED
      BY <2>2, <3>1 DEF TypeOK, AiroReceives
  <2>3. QED
    BY <2>1, <2>2
<1>3. Len(wire') <= MaxWire
  BY <1>1 DEF TypeOK
<1>4. UNCHANGED <<fleet, told, blocked, inbox, sock, faults>>
  BY DEF AiroReceives
<1>5. QED
  BY <1>1, <1>2, <1>3, <1>4 DEF TypeOK

\* Faults and connections move the socket, and may empty the wire and the mailbox.
LEMMA SocketType ==
  ASSUME TypeOK,
         UNCHANGED <<fleet, told, blocked, view>>,
         sock' \in {"down", "connected", "joined"},
         wire' = wire \/ wire' = <<>>, inbox' = inbox \/ inbox' = <<>>,
         UNCHANGED faults \/ Fault
  PROVE  TypeOK'
<1>1. wire' \in Seq(Messages) /\ Len(wire') <= MaxWire
  <2>1. CASE wire' = wire
    BY <2>1 DEF TypeOK
  <2>2. CASE wire' = <<>>
    BY <2>2
  <2>3. QED
    BY <2>1, <2>2
<1>2. inbox' \in Seq(Events) /\ Len(inbox') <= MaxInbox
  <2>1. CASE inbox' = inbox
    BY <2>1 DEF TypeOK
  <2>2. CASE inbox' = <<>>
    BY <2>2
  <2>3. QED
    BY <2>1, <2>2
<1>3. faults' \in 0 .. MaxFault
  BY DEF TypeOK, Fault
<1>4. QED
  BY <1>1, <1>2, <1>3 DEF TypeOK

-----------------------------------------------------------------------------
(* Announcements.                                                          *)

\* A transition queues what it publishes: told and the last event move together,
\* and nothing else has to be fresh while the event is queued.
LEMMA TransitionKeeps ==
  ASSUME IInv, NEW p \in Slots, Transition(p)
  PROVE  ToldIsPast' /\ LastEventIsTold' /\ LastWordIsFresh'
<1> DEFINE e == [slot |-> p, state |-> fleet'[p]]
<1> DEFINE n == Len(inbox)
<1>1. /\ fleet \in [Slots -> 0 .. MaxChange] /\ told \in [Slots -> 0 .. MaxChange]
      /\ inbox \in Seq(Events) /\ n \in Nat
  BY DEF IInv, TypeOK
<1>2. /\ fleet' = [fleet EXCEPT ![p] = @ + 1] /\ fleet'[p] = fleet[p] + 1 /\ fleet'[p] <= MaxChange
      /\ told' = [told EXCEPT ![p] = fleet'[p]] /\ told'[p] = fleet'[p]
      /\ \A q \in Slots : q # p => fleet'[q] = fleet[q] /\ told'[q] = told[q]
      /\ UNCHANGED <<sock, wire, view>>
  BY <1>1 DEF Transition
<1>3. e \in Events
  BY <1>1, <1>2 DEF Events
<1>4. /\ Len(inbox') = n + 1 /\ inbox'[n + 1] = e
      /\ \A i \in 1 .. n : inbox'[i] = inbox[i]
  BY <1>1, <1>3, AppendFacts DEF Transition
<1>5. ToldIsPast'
  BY <1>1, <1>2 DEF IInv, ToldIsPast
<1>6. LastEventIsTold'
  <2> SUFFICES ASSUME NEW q \in Slots, NEW i \in 1 .. (n + 1), inbox'[i].slot = q,
                      \A j \in (i + 1) .. (n + 1) : inbox'[j].slot # q
               PROVE  inbox'[i].state = told'[q]
    BY <1>4 DEF LastEventIsTold
  <2>1. CASE i = n + 1
    BY <2>1, <1>2, <1>4
  <2>2. CASE i # n + 1
    <3>1. i \in 1 .. n /\ inbox'[i] = inbox[i] /\ n + 1 \in (i + 1) .. (n + 1)
      BY <1>1, <1>4, <2>2
    <3>2. q # p
      BY <3>1, <1>4
    <3>3. \A j \in (i + 1) .. n : inbox[j].slot # q
      BY <1>1, <1>4, <3>1
    <3>4. inbox[i].state = told[q]
      BY <3>1, <3>3 DEF IInv, LastEventIsTold
    <3>5. QED
      BY <3>1, <3>2, <3>4, <1>2
  <2>3. QED
    BY <2>1, <2>2
<1>7. \A q \in Slots : ~ Queued(q)' => ~ Queued(q) /\ q # p
  <2>1. n + 1 \in 1 .. Len(inbox') /\ inbox'[n + 1].slot = p
    BY <1>1, <1>4
  <2>2. \A i \in 1 .. n : i \in 1 .. Len(inbox') /\ inbox'[i].slot = inbox[i].slot
    BY <1>1, <1>4
  <2>3. QED
    BY <2>1, <2>2 DEF Queued
<1>8. LastWordIsFresh'
  BY <1>2, <1>7 DEF IInv, LastWordIsFresh, Speaks, Said
<1>9. QED
  BY <1>5, <1>6, <1>8

\* A transition that nobody is told of disturbs nothing.
LEMMA SilentKeeps ==
  ASSUME IInv, NEW p \in Slots, SilentTransition(p)
  PROVE  IInv'
<1>1. /\ fleet \in [Slots -> 0 .. MaxChange] /\ told \in [Slots -> 0 .. MaxChange]
      /\ fleet' = [fleet EXCEPT ![p] = @ + 1] /\ fleet[p] < MaxChange
      /\ UNCHANGED <<told, blocked, inbox, sock, wire, view, faults>>
  BY DEF IInv, TypeOK, SilentTransition
<1>2. fleet' \in [Slots -> 0 .. MaxChange] /\ \A q \in Slots : fleet'[q] >= fleet[q]
  BY <1>1
<1>3. TypeOK'
  BY <1>1, <1>2 DEF IInv, TypeOK
<1>4. ToldIsPast'
  BY <1>1, <1>2 DEF IInv, ToldIsPast
<1>5. LastEventIsTold'
  BY <1>1 DEF IInv, LastEventIsTold
<1>6. LastWordIsFresh'
  BY <1>1 DEF IInv, LastWordIsFresh, Queued, Speaks, Said
<1>7. QED
  BY <1>3, <1>4, <1>5, <1>6 DEF IInv

\* A register says of every slot what Fleet has now, which is what was told or newer.
LEMMA RegisterKeeps ==
  ASSUME IInv, PushRegister
  PROVE  ToldIsPast' /\ LastEventIsTold' /\ LastWordIsFresh'
<1> DEFINE n == Len(wire)
<1>1. /\ UNCHANGED <<fleet, told, inbox, view>>
      /\ wire \in Seq(Messages) /\ n \in Nat /\ RegisterMsg \in Messages
      /\ wire' = Append(wire, RegisterMsg)
  BY MessageTypes DEF IInv, TypeOK, PushRegister
<1>2. /\ Len(wire') = n + 1 /\ wire'[n + 1] = RegisterMsg
  BY <1>1, AppendFacts
<1>3. \A p \in Slots : Speaks(wire'[n + 1], p) /\ Said(wire'[n + 1], p) = fleet[p]
  BY <1>2 DEF Speaks, Said, RegisterMsg
<1>4. ToldIsPast' /\ LastEventIsTold'
  BY <1>1 DEF IInv, ToldIsPast, LastEventIsTold
<1>5. ASSUME NEW p \in Slots, NEW i \in 1 .. Len(wire'),
             \A j \in (i + 1) .. Len(wire') : ~ Speaks(wire'[j], p)
      PROVE  Said(wire'[i], p) >= told'[p]
  <2>1. i = n + 1
    BY <1>1, <1>2, <1>3, <1>5
  <2>2. Said(wire'[i], p) = fleet[p] /\ told'[p] = told[p]
    BY <2>1, <1>1, <1>3
  <2>3. fleet[p] >= told[p]
    BY DEF IInv, TypeOK, ToldIsPast
  <2>4. QED
    BY <2>2, <2>3
<1>6. \A p \in Slots : \E i \in 1 .. Len(wire') : Speaks(wire'[i], p)
  BY <1>1, <1>2, <1>3
<1>7. LastWordIsFresh'
  BY <1>5, <1>6 DEF LastWordIsFresh, Speaks, Said
<1>8. QED
  BY <1>4, <1>7

\* An event that is handled is the last word of the wire while none of its slot is
\* queued behind it; then it is the last one told.
LEMMA PublishKeeps ==
  ASSUME IInv, HandlePublish
  PROVE  ToldIsPast' /\ LastEventIsTold' /\ LastWordIsFresh'
<1> DEFINE n == Len(inbox)
<1> DEFINE k == Len(wire)
<1> DEFINE e == Head(inbox)
<1>1. /\ UNCHANGED <<fleet, told, sock, view>>
      /\ inbox \in Seq(Events) /\ inbox # <<>> /\ inbox' = Tail(inbox)
      /\ wire \in Seq(Messages) /\ k \in Nat
  BY DEF IInv, TypeOK, HandlePublish
<1>2. /\ n \in Nat \ {0} /\ Len(inbox') = n - 1 /\ e = inbox[1] /\ e \in Events
      /\ \A i \in 1 .. (n - 1) : inbox'[i] = inbox[i + 1]
  BY <1>1, TailFacts
<1>3. ToldIsPast'
  BY <1>1 DEF IInv, ToldIsPast
<1>4. LastEventIsTold'
  <2> SUFFICES ASSUME NEW p \in Slots, NEW i \in 1 .. (n - 1), inbox'[i].slot = p,
                      \A j \in (i + 1) .. (n - 1) : inbox'[j].slot # p
               PROVE  inbox'[i].state = told'[p]
    BY <1>2 DEF LastEventIsTold
  <2>1. i + 1 \in 1 .. n /\ inbox[i + 1] = inbox'[i]
    BY <1>2
  <2>2. \A j \in (i + 2) .. n : j - 1 \in (i + 1) .. (n - 1) /\ inbox'[j - 1] = inbox[j]
    BY <1>2
  <2>3. \A j \in ((i + 1) + 1) .. n : inbox[j].slot # p
    BY <1>2, <2>2
  <2>4. inbox[i + 1].state = told[p]
    BY <2>1, <2>3 DEF IInv, LastEventIsTold
  <2>5. QED
    BY <2>1, <2>4, <1>1
<1>5. ASSUME sock = "joined", NEW p \in Slots, ~ Queued(p)'
      PROVE  /\ \A i \in 1 .. Len(wire') :
                  Speaks(wire'[i], p) /\ (\A j \in (i + 1) .. Len(wire') : ~ Speaks(wire'[j], p))
                    => Said(wire'[i], p) >= told[p]
             /\ (\A i \in 1 .. Len(wire') : ~ Speaks(wire'[i], p)) => view[p] >= told[p]
  <2>1. SlotMsg(e) \in Messages /\ wire' = Append(wire, SlotMsg(e))
    BY <1>1, <1>2, <1>5, MessageTypes DEF IInv, HandlePublish
  <2>2. /\ Len(wire') = k + 1 /\ wire'[k + 1] = SlotMsg(e)
        /\ \A i \in 1 .. k : wire'[i] = wire[i]
    BY <1>1, <2>1, AppendFacts
  <2>3. \A j \in 2 .. n : inbox[j].slot # p
    <3>1. \A j \in 2 .. n : j - 1 \in 1 .. (n - 1) /\ inbox'[j - 1] = inbox[j]
      BY <1>2
    <3>2. \A i \in 1 .. (n - 1) : inbox'[i].slot # p
      BY <1>2, <1>5 DEF Queued
    <3>3. QED
      BY <3>1, <3>2
  <2>4. CASE e.slot = p
    <3>1. e.state = told[p] /\ told[p] \in Nat
      BY <1>2, <2>3, <2>4 DEF IInv, TypeOK, LastEventIsTold
    <3>2. Speaks(wire'[k + 1], p) /\ Said(wire'[k + 1], p) = told[p]
      BY <2>2, <2>4, <3>1 DEF Speaks, Said, SlotMsg
    <3>3. \A i \in 1 .. k : k + 1 \in (i + 1) .. (k + 1)
      BY <1>1
    <3>4. QED
      BY <1>1, <2>2, <3>1, <3>2, <3>3
  <2>5. CASE e.slot # p
    <3>1. ~ Speaks(wire'[k + 1], p)
      BY <2>2, <2>5 DEF Speaks, SlotMsg
    <3>2. ~ Queued(p)
      <4>1. \A i \in 1 .. n : inbox[i].slot # p
        BY <1>2, <2>3, <2>5
      <4>2. QED
        BY <4>1 DEF Queued
    <3>3. /\ \A i \in 1 .. k :
                Speaks(wire[i], p) /\ (\A j \in (i + 1) .. k : ~ Speaks(wire[j], p))
                  => Said(wire[i], p) >= told[p]
          /\ (\A i \in 1 .. k : ~ Speaks(wire[i], p)) => view[p] >= told[p]
      BY <1>5, <3>2 DEF IInv, LastWordIsFresh
    <3>4. (\A i \in 1 .. Len(wire') : ~ Speaks(wire'[i], p)) => view[p] >= told[p]
      BY <1>1, <2>2, <3>3
    <3>5. ASSUME NEW i \in 1 .. Len(wire'), Speaks(wire'[i], p),
                 \A j \in (i + 1) .. Len(wire') : ~ Speaks(wire'[j], p)
          PROVE  Said(wire'[i], p) >= told[p]
      <4>1. i \in 1 .. k /\ wire'[i] = wire[i]
        BY <1>1, <2>2, <3>1, <3>5
      <4>2. \A j \in (i + 1) .. k : j \in (i + 1) .. Len(wire') /\ wire'[j] = wire[j]
        BY <1>1, <2>2, <4>1
      <4>3. \A j \in (i + 1) .. k : ~ Speaks(wire[j], p)
        BY <3>5, <4>2
      <4>4. Speaks(wire[i], p)
        BY <3>5, <4>1
      <4>5. Said(wire[i], p) >= told[p]
        BY <3>3, <4>1, <4>3, <4>4
      <4>6. QED
        BY <4>1, <4>5
    <3>6. QED
      BY <3>4, <3>5
  <2>6. QED
    BY <2>4, <2>5
<1>6. LastWordIsFresh'
  <2>1. \A p \in Slots : told'[p] = told[p] /\ view'[p] = view[p]
    BY <1>1
  <2>2. sock' = sock
    BY <1>1
  <2>3. QED
    BY <1>5, <2>1, <2>2 DEF LastWordIsFresh, Speaks, Said
<1>7. QED
  BY <1>3, <1>4, <1>6

\* What Airo receives becomes its view; if nothing behind it speaks of the slot, it
\* was the last word.
LEMMA ReceiveKeeps ==
  ASSUME IInv, AiroReceives
  PROVE  ToldIsPast' /\ LastEventIsTold' /\ LastWordIsFresh'
<1> DEFINE k == Len(wire)
<1> DEFINE m == Head(wire)
<1>1. /\ UNCHANGED <<fleet, told, inbox, sock>>
      /\ wire \in Seq(Messages) /\ wire # <<>> /\ wire' = Tail(wire)
      /\ view \in [Slots -> 0 .. MaxChange]
  BY DEF IInv, TypeOK, AiroReceives
<1>2. /\ k \in Nat \ {0} /\ Len(wire') = k - 1 /\ m = wire[1] /\ m \in Messages
      /\ \A i \in 1 .. (k - 1) : wire'[i] = wire[i + 1]
  BY <1>1, TailFacts
<1>3. ToldIsPast' /\ LastEventIsTold'
  BY <1>1 DEF IInv, ToldIsPast, LastEventIsTold
<1>4. \A p \in Slots : view'[p] = IF Speaks(m, p) THEN Said(m, p) ELSE view[p]
  <2>1. CASE m.type = "register"
    BY <2>1 DEF AiroReceives, Speaks, Said
  <2>2. CASE m.type # "register"
    <3>1. m.slot \in Slots /\ view' = [view EXCEPT ![m.slot] = m.state]
      BY <1>2, <2>2 DEF AiroReceives, Messages
    <3>2. QED
      BY <1>1, <2>2, <3>1 DEF Speaks, Said
  <2>3. QED
    BY <2>1, <2>2
<1>5. ASSUME sock = "joined", NEW p \in Slots, ~ Queued(p)
      PROVE  /\ \A i \in 1 .. Len(wire') :
                  Speaks(wire'[i], p) /\ (\A j \in (i + 1) .. Len(wire') : ~ Speaks(wire'[j], p))
                    => Said(wire'[i], p) >= told[p]
             /\ (\A i \in 1 .. Len(wire') : ~ Speaks(wire'[i], p)) => view'[p] >= told[p]
  <2>1. /\ \A i \in 1 .. k :
              Speaks(wire[i], p) /\ (\A j \in (i + 1) .. k : ~ Speaks(wire[j], p))
                => Said(wire[i], p) >= told[p]
        /\ (\A i \in 1 .. k : ~ Speaks(wire[i], p)) => view[p] >= told[p]
    BY <1>5 DEF IInv, LastWordIsFresh
  <2>2. ASSUME NEW i \in 1 .. Len(wire'), Speaks(wire'[i], p),
               \A j \in (i + 1) .. Len(wire') : ~ Speaks(wire'[j], p)
        PROVE  Said(wire'[i], p) >= told[p]
    <3>1. i + 1 \in 1 .. k /\ wire'[i] = wire[i + 1]
      BY <1>2
    <3>2. \A j \in ((i + 1) + 1) .. k : j - 1 \in (i + 1) .. Len(wire') /\ wire'[j - 1] = wire[j]
      BY <1>2
    <3>3. \A j \in ((i + 1) + 1) .. k : ~ Speaks(wire[j], p)
      BY <2>2, <3>2
    <3>4. Said(wire[i + 1], p) >= told[p]
      BY <2>1, <2>2, <3>1, <3>3
    <3>5. QED
      BY <3>1, <3>4
  <2>3. ASSUME \A i \in 1 .. Len(wire') : ~ Speaks(wire'[i], p)
        PROVE  view'[p] >= told[p]
    <3>1. \A j \in 2 .. k : j - 1 \in 1 .. Len(wire') /\ wire'[j - 1] = wire[j]
      BY <1>2
    <3>2. \A j \in 2 .. k : ~ Speaks(wire[j], p)
      BY <2>3, <3>1
    <3>3. CASE Speaks(m, p)
      BY <1>2, <1>4, <2>1, <3>2, <3>3
    <3>4. CASE ~ Speaks(m, p)
      <4>1. \A i \in 1 .. k : ~ Speaks(wire[i], p)
        BY <1>2, <3>2, <3>4
      <4>2. QED
        BY <1>4, <2>1, <3>4, <4>1
    <3>5. QED
      BY <3>3, <3>4
  <2>4. QED
    BY <2>2, <2>3
<1>6. LastWordIsFresh'
  BY <1>1, <1>5 DEF LastWordIsFresh, Queued, Speaks, Said
<1>7. QED
  BY <1>3, <1>6

\* A step after which the process is not joined, with its mailbox as it was or empty.
LEMMA UnjoinedKeeps ==
  ASSUME IInv, UNCHANGED <<fleet, told>>, sock' # "joined", inbox' = inbox \/ inbox' = <<>>
  PROVE  ToldIsPast' /\ LastEventIsTold' /\ LastWordIsFresh'
<1>1. ToldIsPast'
  BY DEF IInv, ToldIsPast
<1>2. LastEventIsTold'
  <2>1. CASE inbox' = inbox
    BY <2>1 DEF IInv, LastEventIsTold
  <2>2. CASE inbox' = <<>>
    BY <2>2 DEF LastEventIsTold
  <2>3. QED
    BY <2>1, <2>2
<1>3. LastWordIsFresh'
  BY DEF LastWordIsFresh
<1>4. QED
  BY <1>1, <1>2, <1>3

-----------------------------------------------------------------------------
(* The steps.                                                              *)

LEMMA SourceStep ==
  ASSUME IInv, Source
  PROVE  IInv'
<1>1. ASSUME NEW p \in Slots, Transition(p)
      PROVE  IInv'
  BY <1>1, TransitionType, TransitionKeeps DEF IInv
<1>2. ASSUME NEW p \in Slots, SilentTransition(p)
      PROVE  IInv'
  BY <1>2, SilentKeeps
<1>3. CASE FleetBlocks \/ FleetUnblocks
  <2>1. blocked' \in BOOLEAN /\ UNCHANGED <<fleet, told, inbox, sock, wire, view, faults>>
    BY <1>3 DEF FleetBlocks, FleetUnblocks
  <2>2. TypeOK'
    BY <2>1 DEF IInv, TypeOK
  <2>3. ToldIsPast' /\ LastEventIsTold' /\ LastWordIsFresh'
    BY <2>1 DEF IInv, ToldIsPast, LastEventIsTold, LastWordIsFresh, Queued, Speaks, Said
  <2>4. QED
    BY <2>2, <2>3 DEF IInv
<1>4. QED
  BY <1>1, <1>2, <1>3 DEF Source

LEMMA ProcessStep ==
  ASSUME IInv, Process
  PROVE  IInv'
<1>1. CASE HandleConnect
  <2>1. TypeOK'
    BY <1>1, SocketType DEF IInv, HandleConnect
  <2>2. ToldIsPast' /\ LastEventIsTold' /\ LastWordIsFresh'
    BY <1>1, UnjoinedKeeps DEF HandleConnect
  <2>3. QED
    BY <2>1, <2>2 DEF IInv
<1>2. CASE HandleJoin \/ HandleResync \/ Heartbeat
  <2>1. PushRegister /\ sock' \in {"down", "connected", "joined"}
    BY <1>2 DEF HandleJoin, HandleResync, Heartbeat
  <2>2. QED
    BY <2>1, RegisterType, RegisterKeeps DEF IInv
<1>3. CASE HandlePublish
  BY <1>3, PublishType, PublishKeeps DEF IInv
<1>4. QED
  BY <1>1, <1>2, <1>3 DEF Process

LEMMA FaultStep ==
  ASSUME IInv, Faulty
  PROVE  IInv'
<1>1. CASE HandleDisconnect
  BY <1>1, SocketType, UnjoinedKeeps DEF IInv, HandleDisconnect
<1>2. CASE HandleTopicClose
  BY <1>2, SocketType, UnjoinedKeeps DEF IInv, HandleTopicClose
<1>3. CASE HandleTopicCloseNeverJoined \/ RegisterTimesOut
  <2>1. Restart
    BY <1>3 DEF HandleTopicCloseNeverJoined, RegisterTimesOut
  <2>2. QED
    BY <2>1, SocketType, UnjoinedKeeps DEF IInv, Restart
<1>4. QED
  BY <1>1, <1>2, <1>3 DEF Faulty

LEMMA StutterStep ==
  ASSUME IInv, UNCHANGED vars
  PROVE  IInv'
<1>1. UNCHANGED <<fleet, told, blocked, inbox, sock, wire, view, faults>>
  BY DEF vars
<1>2. TypeOK'
  BY <1>1 DEF IInv, TypeOK
<1>3. ToldIsPast' /\ LastEventIsTold' /\ LastWordIsFresh'
  BY <1>1 DEF IInv, ToldIsPast, LastEventIsTold, LastWordIsFresh, Queued, Speaks, Said
<1>4. QED
  BY <1>2, <1>3 DEF IInv

\* The inductive invariant of Channel holds in every reachable state.
THEOREM Invariance == Spec => []IInv
<1>1. Init => IInv
  BY InitIInv
<1>2. IInv /\ [Next]_vars => IInv'
  <2> SUFFICES ASSUME IInv, [Next]_vars
               PROVE  IInv'
    OBVIOUS
  <2>1. CASE AiroReceives
    BY <2>1, ReceiveType, ReceiveKeeps DEF IInv
  <2>2. QED
    BY <2>1, SourceStep, ProcessStep, FaultStep, StutterStep DEF Next
<1>3. QED
  BY <1>1, <1>2, PTL DEF Spec

\* Every variable of Channel keeps its type, and mailbox and wire their bounds
\* (channel.ex:57-130).
THEOREM TypeCorrect == Spec => []TypeOK
<1>1. IInv => TypeOK
  BY DEF IInv
<1>2. QED
  BY <1>1, Invariance, PTL

\* A process that is joined, with nothing queued or in flight, has told Airo of
\* every slot at least what was last announced, for any number of slots, changes
\* and faults (channel.ex:14-17).
THEOREM NothingAnnouncedIsLost == Spec => []NoAnnouncementIsLost
<1>1. IInv => NoAnnouncementIsLost
  <2> SUFFICES ASSUME IInv, sock = "joined", inbox = <<>>, wire = <<>>, NEW p \in Slots
               PROVE  view[p] >= told[p]
    BY DEF NoAnnouncementIsLost
  <2>1. ~ Queued(p) /\ Len(wire) = 0
    BY DEF Queued
  <2>2. QED
    BY <2>1 DEF IInv, LastWordIsFresh
<1>2. QED
  BY <1>1, Invariance, PTL
=============================================================================
