--------------------------- MODULE TelemetryProofs ---------------------------
(***************************************************************************)
(* What the console orders is what is in force, what it asks is answered,  *)
(* and no radio goes back: for any orders, preferences, tunings and skies, *)
(* and any number of frames and connections.                               *)
(***************************************************************************)
EXTENDS Telemetry, SequenceTheorems, FiniteSetTheorems, WellFoundedInduction, TLAPS

\* Where the receiver is tells what it reads from; a connection that was lost
\* while it read from it is one whose loss it has yet to see.
Reading ==
    /\ at \in {"reading", "handling"} => readOn # 0
    /\ at \in {"failed", "clearing", "sleeping"} => readOn = 0
    /\ at = "handling" => frames > 0
    /\ sawLoss /\ readOn # 0 => conn = readOn

\* What is in force is what the console ordered the receiver reads from, the
\* frame in hand once obeyed, and the local policy when it reads from none.
Heeded ==
    /\ conn # 0 /\ readOn # conn => ordered = NoOrders
    /\ at = "clearing" => commanded = 0
    /\ sawLoss /\ readOn = 0 => InForce = NoOrders
    /\ sawLoss /\ readOn # 0 =>
         ordered = IF at = "handling" THEN Obeying(got, InForce) ELSE InForce

\* A tuning has the number of its frame: those that wait are newer than those
\* that were made, and older than the one in hand.
Before(n) == IF at = "handling" THEN n < frames ELSE n <= frames
Numbered ==
    /\ \A r \in Radios : Before(radios[r])
    /\ \A i \in DOMAIN tunes :
         /\ Before(tunes[i].number)
         /\ \A r \in Radios : radios[r] < tunes[i].number

Swapped == frame # "answers" => taken = <<>>

IInv == TypeOK /\ Reading /\ Heeded /\ Numbered /\ Swapped /\ AnswersInOrder
-----------------------------------------------------------------------------
LEMMA Constants ==
    /\ MaxAge \in Nat /\ MaxFrames \in Nat /\ MaxConnections \in Nat /\ MaxEvents \in Nat
    /\ kTrafficMinInterval \in 0..MaxAge
  BY TelemetryAssumption DEF TelemetryAssumption

LEMMA OlderStays ==
    ASSUME NEW most \in Nat, NEW a \in 0..most PROVE Older(a, most) \in 0..most
  BY DEF Older

LEMMA NoOrdersAreOrders ==
    NoOrders \in [interval : Orders \union {0}, preference : Preferences \union {NoPreference}]
  BY DEF NoOrders

LEMMA ObeyingKeepsType ==
    ASSUME NEW f \in Frames, OrdersOK
    PROVE  Obeying(f, ordered) \in
             [interval : Orders \union {0}, preference : Preferences \union {NoPreference}]
  <1>1. CASE \E interval \in Orders : f = Order(interval)
    BY <1>1 DEF OrdersOK, Obeying, Order
  <1>2. CASE \E p \in Preferences : f = Wish(p)
    BY <1>2 DEF OrdersOK, Obeying, Wish
  <1>3. CASE f = Query \/ \E t \in TunedFor : f = Tuning(t)
    BY <1>3 DEF OrdersOK, Obeying, Query, Tuning
  <1> QED
    BY <1>1, <1>2, <1>3 DEF Frames

LEMMA TuningsAreNumbered ==
    ASSUME QueuesOK
    PROVE  \A i \in DOMAIN tunes : tunes[i].number \in 1..MaxFrames
  <1> SUFFICES ASSUME NEW i \in DOMAIN tunes PROVE tunes[i].number \in 1..MaxFrames
    OBVIOUS
  <1>1. i \in 1..Len(tunes)
    BY DEF QueuesOK
  <1>2. tunes[i] \in [number : 1..MaxFrames, radio : TunedFor]
    BY <1>1, ElementOfSeq DEF QueuesOK
  <1> QED
    BY <1>2

LEMMA ConcatThenAppend ==
    ASSUME NEW S, NEW p \in Seq(S), NEW q \in Seq(S), NEW e \in S
    PROVE  p \o Append(q, e) = Append(p \o q, e)
  <1>1. <<e>> \in Seq(S) /\ p \o q \in Seq(S)
    BY ConcatProperties
  <1>2. p \o (q \o <<e>>) = (p \o q) \o <<e>>
    BY <1>1, ConcatAssociative
  <1> QED
    BY <1>1, <1>2, AppendIsConcat

LEMMA InitInvariant == Init => IInv
  <1> SUFFICES ASSUME Init PROVE IInv
    OBVIOUS
  <1>1. LinkOK
    BY Constants DEF Init, LinkOK
  <1>7. OrdersOK
    BY DEF Init, OrdersOK, NoOrders
  <1>8. FlagsOK
    BY DEF Init, FlagsOK
  <1>2. QueuesOK
    BY DEF Init, QueuesOK
  <1>3. FlightLoopOK
    BY Constants DEF Init, FlightLoopOK
  <1>4. Reading /\ Heeded /\ Swapped
    BY DEF Init, Reading, Heeded, Swapped, NoOrders, InForce
  <1>5. Numbered
    BY DEF Init, Numbered, Before
  <1>6. AnswersInOrder
    BY DEF Init, AnswersInOrder
  <1> QED
    BY <1>1, <1>2, <1>3, <1>4, <1>5, <1>6, <1>7, <1>8 DEF IInv, TypeOK

LEMMA ClockKeeps ==
    ASSUME IInv, Tick \/ Pause \/ SenderSends PROVE IInv'
  <1>1. LinkOK'
    BY Constants DEF IInv, TypeOK, LinkOK, Tick, Pause, SenderSends, clock, link,
                     receiver, rate, view, history, ghosts, Happens, Older
  <1>2. OrdersOK'
    BY DEF IInv, TypeOK, OrdersOK, Tick, Pause, SenderSends, clock, link, receiver, rate,
           view, history, ghosts, Happens, Older
  <1>3. QueuesOK'
    BY Constants DEF IInv, TypeOK, LinkOK, QueuesOK, Tick, Pause, SenderSends, clock,
                     link, receiver, rate, view, history, ghosts, Happens, Older
  <1>4. FlightLoopOK'
    <2>1. kTrafficMinInterval \in Nat
      BY Constants
    <2>2. CASE Tick
      BY <2>1, <2>2, Constants, OlderStays
         DEF IInv, TypeOK, FlightLoopOK, Tick, clock, link, receiver, history, ghosts
    <2>3. CASE Pause \/ SenderSends
      BY <2>3, Constants
         DEF IInv, TypeOK, LinkOK, FlightLoopOK, Pause, SenderSends, Happens, clock, link,
             receiver, rate, view, history, ghosts
    <2> QED
      BY <2>2, <2>3
  <1>9. FlagsOK'
    BY DEF IInv, TypeOK, FlagsOK, Tick, Pause, SenderSends, clock, link,
                     receiver, rate, view, history, ghosts, Happens, Older
  <1>5. Reading'
    BY DEF IInv, TypeOK, LinkOK, Reading, Tick, Pause, SenderSends, clock, link, receiver,
           rate, view, history, ghosts, Happens, Older
  <1>6. Heeded'
    BY Constants DEF IInv, TypeOK, LinkOK, OrdersOK, Reading, Heeded, InForce, NoOrders,
                     Tick, Pause, SenderSends, clock, link, receiver, rate, view, history, ghosts, Happens,
                     Older
  <1>7. Numbered'
    BY DEF IInv, TypeOK, LinkOK, QueuesOK, FlightLoopOK, Numbered, Before, Tick, Pause,
           SenderSends, clock, link, receiver, rate, view, history, ghosts, Happens, Older
  <1>8. Swapped' /\ AnswersInOrder'
    BY DEF IInv, TypeOK, Swapped, AnswersInOrder, Tick, Pause, SenderSends, clock, link,
           receiver, rate, view, history, ghosts, Happens, Older
  <1> QED
    BY <1>1, <1>2, <1>3, <1>4, <1>5, <1>6, <1>7, <1>8, <1>9 DEF IInv, TypeOK

LEMMA LoseKeeps ==
    ASSUME IInv, Lose PROVE IInv'
  <1>1. LinkOK'
    BY Constants DEF IInv, TypeOK, LinkOK, Lose, clock, link, receiver, rate, view,
                     history, ghosts
  <1>2. OrdersOK'
    BY DEF IInv, TypeOK, OrdersOK, Lose, clock, link, receiver, rate, view, history,
           ghosts
  <1>3. QueuesOK'
    BY Constants DEF IInv, TypeOK, LinkOK, QueuesOK, Lose, clock, link, receiver, rate,
                     view, history, ghosts
  <1>4. FlightLoopOK'
    BY Constants DEF IInv, TypeOK, FlightLoopOK, Lose, clock, link, receiver, rate, view,
                     history, ghosts
  <1>9. FlagsOK'
    BY DEF IInv, TypeOK, FlagsOK, Lose, clock, link, receiver, rate, view,
                     history, ghosts
  <1>5. Reading'
    BY DEF IInv, TypeOK, LinkOK, Reading, Lose, clock, link, receiver, rate, view,
           history, ghosts
  <1>6. Heeded'
    BY Constants DEF IInv, TypeOK, LinkOK, OrdersOK, Reading, Heeded, InForce, NoOrders,
                     Lose, clock, link, receiver, rate, view, history, ghosts
  <1>7. Numbered'
    BY DEF IInv, TypeOK, LinkOK, QueuesOK, FlightLoopOK, Numbered, Before, Lose, clock,
           link, receiver, rate, view, history, ghosts
  <1>8. Swapped' /\ AnswersInOrder'
    BY DEF IInv, TypeOK, Swapped, AnswersInOrder, Lose, clock, link, receiver, rate, view,
           history, ghosts
  <1> QED
    BY <1>1, <1>2, <1>3, <1>4, <1>5, <1>6, <1>7, <1>8, <1>9 DEF IInv, TypeOK

LEMMA DialKeeps ==
    ASSUME IInv, SenderDials PROVE IInv'
  <1>1. LinkOK'
    BY Constants DEF IInv, TypeOK, LinkOK, SenderDials, clock, link, receiver, rate, view,
                     history, ghosts, Dials, Happens
  <1>2. OrdersOK'
    BY NoOrdersAreOrders
       DEF IInv, TypeOK, OrdersOK, SenderDials, Dials, clock, link, receiver, rate, view, history,
           ghosts
  <1>3. QueuesOK'
    BY Constants DEF IInv, TypeOK, LinkOK, QueuesOK, SenderDials, clock, link, receiver,
                     rate, view, history, ghosts, Dials, Happens
  <1>4. FlightLoopOK'
    BY Constants DEF IInv, TypeOK, FlightLoopOK, SenderDials, clock, link, receiver, rate,
                     view, history, ghosts, Dials, Happens
  <1>9. FlagsOK'
    BY DEF IInv, TypeOK, FlagsOK, SenderDials, clock, link, receiver, rate,
                     view, history, ghosts, Dials, Happens
  <1>5. Reading'
    BY DEF IInv, TypeOK, LinkOK, Reading, SenderDials, clock, link, receiver, rate, view,
           history, ghosts, Dials, Happens
  <1>6. Heeded'
    BY Constants DEF IInv, TypeOK, LinkOK, OrdersOK, Reading, Heeded, InForce, NoOrders,
                     SenderDials, clock, link, receiver, rate, view, history, ghosts, Dials, Happens
  <1>7. Numbered'
    BY DEF IInv, TypeOK, LinkOK, QueuesOK, FlightLoopOK, Numbered, Before, SenderDials,
           clock, link, receiver, rate, view, history, ghosts, Dials, Happens
  <1>8. Swapped' /\ AnswersInOrder'
    BY DEF IInv, TypeOK, Swapped, AnswersInOrder, SenderDials, clock, link, receiver,
           rate, view, history, ghosts, Dials, Happens
  <1> QED
    BY <1>1, <1>2, <1>3, <1>4, <1>5, <1>6, <1>7, <1>8, <1>9 DEF IInv, TypeOK

LEMMA StartKeeps ==
    ASSUME IInv, ReceiverStarts PROVE IInv'
  <1>1. LinkOK'
    BY Constants DEF IInv, TypeOK, LinkOK, ReceiverStarts, clock, link, receiver, rate,
                     view, history, ghosts, Dials, Happens
  <1>2. OrdersOK'
    BY NoOrdersAreOrders
       DEF IInv, TypeOK, OrdersOK, ReceiverStarts, Dials, clock, link, receiver, rate, view, history,
           ghosts
  <1>3. QueuesOK'
    BY Constants DEF IInv, TypeOK, LinkOK, QueuesOK, ReceiverStarts, clock, link,
                     receiver, rate, view, history, ghosts, Dials, Happens
  <1>4. FlightLoopOK'
    BY Constants DEF IInv, TypeOK, FlightLoopOK, ReceiverStarts, clock, link, receiver,
                     rate, view, history, ghosts, Dials, Happens
  <1>9. FlagsOK'
    BY DEF IInv, TypeOK, FlagsOK, ReceiverStarts, clock, link, receiver,
                     rate, view, history, ghosts, Dials, Happens
  <1>5. Reading'
    BY DEF IInv, TypeOK, LinkOK, Reading, ReceiverStarts, clock, link, receiver, rate,
           view, history, ghosts, Dials, Happens
  <1>6. Heeded'
    BY Constants DEF IInv, TypeOK, LinkOK, OrdersOK, Reading, Heeded, InForce, NoOrders,
                     ReceiverStarts, clock, link, receiver, rate, view, history, ghosts, Dials, Happens
  <1>7. Numbered'
    BY DEF IInv, TypeOK, LinkOK, QueuesOK, FlightLoopOK, Numbered, Before, ReceiverStarts,
           clock, link, receiver, rate, view, history, ghosts, Dials, Happens
  <1>8. Swapped' /\ AnswersInOrder'
    BY DEF IInv, TypeOK, Swapped, AnswersInOrder, ReceiverStarts, clock, link, receiver,
           rate, view, history, ghosts, Dials, Happens
  <1> QED
    BY <1>1, <1>2, <1>3, <1>4, <1>5, <1>6, <1>7, <1>8, <1>9 DEF IInv, TypeOK

LEMMA ReadKeeps ==
    ASSUME IInv, ReceiverReads PROVE IInv'
  <1>1. LinkOK'
    BY Constants DEF IInv, TypeOK, LinkOK, ReceiverReads, clock, link, receiver, rate,
                     view, history, ghosts, Happens, Obeying
  <1>2. OrdersOK'
    <2>1. got' \in Frames /\ ordered' = Obeying(got', ordered)
      BY DEF ReceiverReads
    <2>2. OrdersOK
      BY DEF IInv, TypeOK
    <2>3. ordered' \in [interval : Orders \union {0}, preference : Preferences \union {NoPreference}]
      BY <2>1, <2>2, ObeyingKeepsType
    <2> QED
      BY <2>1, <2>2, <2>3 DEF OrdersOK, ReceiverReads
  <1>3. QueuesOK'
    BY Constants DEF IInv, TypeOK, LinkOK, QueuesOK, ReceiverReads, clock, link, receiver,
                     rate, view, history, ghosts, Happens, Obeying
  <1>4. FlightLoopOK'
    BY Constants DEF IInv, TypeOK, FlightLoopOK, ReceiverReads, clock, link, receiver,
                     rate, view, history, ghosts, Happens, Obeying
  <1>9. FlagsOK'
    BY DEF IInv, TypeOK, FlagsOK, ReceiverReads, clock, link, receiver,
                     rate, view, history, ghosts, Happens, Obeying
  <1>5. Reading'
    BY DEF IInv, TypeOK, LinkOK, Reading, ReceiverReads, clock, link, receiver, rate,
           view, history, ghosts, Happens, Obeying
  <1>6. Heeded'
    BY Constants DEF IInv, TypeOK, LinkOK, OrdersOK, Reading, Heeded, InForce, NoOrders,
                     ReceiverReads, clock, link, receiver, rate, view, history, ghosts, Happens, Obeying
  <1>7. Numbered'
    <2>1. tunes' = tunes /\ radios' = radios /\ frames' = frames + 1 /\ at = "reading"
      BY DEF ReceiverReads
    <2>2. \A i \in DOMAIN tunes : tunes[i].number \in Nat
      BY TuningsAreNumbered DEF IInv, TypeOK
    <2>3. frames \in Nat /\ \A r \in Radios : radios[r] \in Nat
      BY DEF IInv, TypeOK, LinkOK, FlightLoopOK
    <2> QED
      BY <2>1, <2>2, <2>3 DEF IInv, Numbered, Before
  <1>8. Swapped' /\ AnswersInOrder'
    BY DEF IInv, TypeOK, Swapped, AnswersInOrder, ReceiverReads, clock, link, receiver,
           rate, view, history, ghosts, Happens, Obeying
  <1> QED
    BY <1>1, <1>2, <1>3, <1>4, <1>5, <1>6, <1>7, <1>8, <1>9 DEF IInv, TypeOK

LEMMA HandleKeeps ==
    ASSUME IInv, ReceiverHandles PROVE IInv'
  <1>1. LinkOK'
    BY Constants DEF IInv, TypeOK, LinkOK, ReceiverHandles, clock, link, receiver, rate,
                     view, history, ghosts, Obeying, Frames, Order, Wish, Query, Tuning, None
  <1>2. OrdersOK'
    BY DEF IInv, TypeOK, OrdersOK, ReceiverHandles, clock, link, receiver, rate, view,
           history, ghosts, Obeying, Frames, Order, Wish, Query, Tuning, None
  <1>3. QueuesOK'
    <2>1. frames \in 1..MaxFrames
      BY Constants DEF IInv, TypeOK, LinkOK, Reading, ReceiverHandles
    <2>2. /\ Append(queries, frames) \in Seq(1..MaxFrames)
          /\ Append(asked, frames) \in Seq(1..MaxFrames)
      BY <2>1, AppendProperties DEF IInv, TypeOK, QueuesOK
    <2>3. ASSUME got.kind = "radio_tune"
          PROVE  [number |-> frames, radio |-> got.value] \in
                   [number : 1..MaxFrames, radio : TunedFor]
      <3>1. \E t \in TunedFor : got = Tuning(t)
        BY <2>3 DEF IInv, TypeOK, OrdersOK, Frames, Order, Wish, Query, None
      <3> QED
        BY <2>1, <3>1 DEF Tuning
    <2>4. tunes' \in Seq([number : 1..MaxFrames, radio : TunedFor])
      BY <2>3, AppendProperties DEF IInv, TypeOK, QueuesOK, ReceiverHandles
    <2> QED
      BY <2>2, <2>4 DEF IInv, TypeOK, QueuesOK, ReceiverHandles
  <1>4. FlightLoopOK'
    BY Constants DEF IInv, TypeOK, FlightLoopOK, ReceiverHandles, clock, link, receiver,
                     rate, view, history, ghosts, Obeying, Frames, Order, Wish, Query, Tuning, None
  <1>9. FlagsOK'
    BY DEF IInv, TypeOK, FlagsOK, ReceiverHandles, clock, link, receiver,
                     rate, view, history, ghosts, Obeying, Frames, Order, Wish, Query, Tuning, None
  <1>5. Reading'
    BY DEF IInv, TypeOK, LinkOK, Reading, ReceiverHandles, clock, link, receiver, rate,
           view, history, ghosts, Obeying, Frames, Order, Wish, Query, Tuning, None
  <1>6. Heeded'
    BY Constants DEF IInv, TypeOK, LinkOK, OrdersOK, Reading, Heeded, InForce, NoOrders,
                     ReceiverHandles, clock, link, receiver, rate, view, history, ghosts, Obeying, Frames,
                     Order, Wish, Query, Tuning, None
  <1>7. Numbered'
    <2>1. /\ at = "handling" /\ at' = "top" /\ radios' = radios /\ frames' = frames
          /\ frames \in Nat
          /\ \A r \in Radios : radios[r] \in Nat
      BY DEF IInv, TypeOK, LinkOK, FlightLoopOK, ReceiverHandles, view, rate
    <2>2. \A i \in DOMAIN tunes : tunes[i].number \in Nat
      BY TuningsAreNumbered DEF IInv, TypeOK
    <2>3. CASE got.kind # "radio_tune"
      <3>1. tunes' = tunes
        BY <2>3 DEF ReceiverHandles
      <3> QED
        BY <2>1, <2>2, <3>1 DEF IInv, Numbered, Before
    <2>4. CASE got.kind = "radio_tune"
      <3> DEFINE new == [number |-> frames, radio |-> got.value]
      <3>1. tunes' = Append(tunes, new)
        BY <2>4 DEF ReceiverHandles
      <3>2. \A i \in DOMAIN tunes' : (i \in DOMAIN tunes /\ tunes'[i] = tunes[i])
                                    \/ tunes'[i] = new
        BY <3>1 DEF IInv, TypeOK, QueuesOK
      <3>3. new.number = frames
        OBVIOUS
      <3> QED
        BY <2>1, <2>2, <3>2, <3>3 DEF IInv, Numbered, Before
    <2> QED
      BY <2>3, <2>4
  <1>8. Swapped' /\ AnswersInOrder'
    <2>1. CASE got.kind # "telemetry_query"
      BY <2>1 DEF IInv, Swapped, AnswersInOrder, ReceiverHandles
    <2>2. CASE got.kind = "telemetry_query"
      <3>1. frames \in 1..MaxFrames
        BY Constants DEF IInv, TypeOK, LinkOK, Reading, ReceiverHandles
      <3>2. /\ queries' = Append(queries, frames) /\ asked' = Append(asked, frames)
            /\ answered' = answered /\ taken' = taken /\ frame' = frame
        BY <2>2 DEF ReceiverHandles
      <3>3. (answered \o taken) \o Append(queries, frames)
              = Append((answered \o taken) \o queries, frames)
        <4>1. /\ answered \in Seq(1..MaxFrames) /\ taken \in Seq(1..MaxFrames)
              /\ queries \in Seq(1..MaxFrames)
          BY DEF IInv, TypeOK, QueuesOK
        <4>2. answered \o taken \in Seq(1..MaxFrames)
          BY ONLY <4>1, ConcatProperties
        <4> DEFINE T == 1..MaxFrames
                   p == answered \o taken
        <4> HIDE DEF T, p
        <4>3. p \in Seq(T) /\ queries \in Seq(T) /\ frames \in T
          BY <3>1, <4>1, <4>2 DEF T, p
        <4>4. p \o Append(queries, frames) = Append(p \o queries, frames)
          BY ONLY <4>3, ConcatThenAppend
        <4> QED
          BY <4>4 DEF p
      <3> QED
        BY <3>2, <3>3 DEF IInv, Swapped, AnswersInOrder
    <2> QED
      BY <2>1, <2>2
  <1> QED
    BY <1>1, <1>2, <1>3, <1>4, <1>5, <1>6, <1>7, <1>8, <1>9 DEF IInv, TypeOK

LEMMA FailureKeeps ==
    ASSUME IInv, ReceiverIsCut \/ ReceiverForgetsRate \/ ReceiverForgetsPreference \/ ReceiverWakes PROVE IInv'
  <1>1. LinkOK'
    BY Constants DEF IInv, TypeOK, LinkOK, ReceiverIsCut, ReceiverForgetsRate,
                     ReceiverForgetsPreference, ReceiverWakes, clock, link, receiver, rate, view, history,
                     ghosts
  <1>2. OrdersOK'
    BY DEF IInv, TypeOK, OrdersOK, ReceiverIsCut, ReceiverForgetsRate,
           ReceiverForgetsPreference, ReceiverWakes, clock, link, receiver, rate, view, history,
           ghosts
  <1>3. QueuesOK'
    BY Constants DEF IInv, TypeOK, LinkOK, QueuesOK, ReceiverIsCut, ReceiverForgetsRate,
                     ReceiverForgetsPreference, ReceiverWakes, clock, link, receiver, rate, view, history,
                     ghosts
  <1>4. FlightLoopOK'
    BY Constants DEF IInv, TypeOK, FlightLoopOK, ReceiverIsCut, ReceiverForgetsRate,
                     ReceiverForgetsPreference, ReceiverWakes, clock, link, receiver, rate, view, history,
                     ghosts
  <1>9. FlagsOK'
    BY DEF IInv, TypeOK, FlagsOK, ReceiverIsCut, ReceiverForgetsRate,
                     ReceiverForgetsPreference, ReceiverWakes, clock, link, receiver, rate, view, history,
                     ghosts
  <1>5. Reading'
    BY DEF IInv, TypeOK, LinkOK, Reading, ReceiverIsCut, ReceiverForgetsRate,
           ReceiverForgetsPreference, ReceiverWakes, clock, link, receiver, rate, view, history,
           ghosts
  <1>6. Heeded'
    BY Constants DEF IInv, TypeOK, LinkOK, OrdersOK, Reading, Heeded, InForce, NoOrders,
                     ReceiverIsCut, ReceiverForgetsRate, ReceiverForgetsPreference, ReceiverWakes, clock,
                     link, receiver, rate, view, history, ghosts
  <1>7. Numbered'
    BY DEF IInv, TypeOK, LinkOK, QueuesOK, FlightLoopOK, Numbered, Before, ReceiverIsCut,
           ReceiverForgetsRate, ReceiverForgetsPreference, ReceiverWakes, clock, link, receiver,
           rate, view, history, ghosts
  <1>8. Swapped' /\ AnswersInOrder'
    BY DEF IInv, TypeOK, Swapped, AnswersInOrder, ReceiverIsCut, ReceiverForgetsRate,
           ReceiverForgetsPreference, ReceiverWakes, clock, link, receiver, rate, view, history,
           ghosts
  <1> QED
    BY <1>1, <1>2, <1>3, <1>4, <1>5, <1>6, <1>7, <1>8, <1>9 DEF IInv, TypeOK

\* What a radio is tuned to is where it was or one of the tunings that waited.
LEMMA Newest ==
    ASSUME IInv, TuneRadios
    PROVE  \A r \in Radios : /\ radios'[r] \in 0..MaxFrames
                             /\ radios'[r] >= radios[r]
                             /\ Before(radios'[r])
  <1> SUFFICES ASSUME NEW r \in Radios
               PROVE  /\ radios'[r] \in 0..MaxFrames
                      /\ radios'[r] >= radios[r]
                      /\ Before(radios'[r])
    OBVIOUS
  <1>1. radios[r] \in 0..MaxFrames /\ Before(radios[r])
    BY DEF IInv, TypeOK, FlightLoopOK, Numbered
  <1>2. PICK selected \in 0..2 :
          radios'[r] = IF TunedLast(r, selected) = {} THEN radios[r]
                       ELSE CHOOSE n \in {tunes[i].number : i \in TunedLast(r, selected)} : TRUE
    BY DEF TuneRadios
  <1>3. CASE TunedLast(r, selected) = {}
    BY <1>1, <1>2, <1>3
  <1>4. CASE TunedLast(r, selected) # {}
    <2>1. PICK i \in TunedLast(r, selected) : radios'[r] = tunes[i].number
      BY <1>2, <1>4
    <2>2. i \in DOMAIN tunes
      BY <2>1 DEF TunedLast
    <2>3. tunes[i].number \in 1..MaxFrames
      BY <2>2, TuningsAreNumbered DEF IInv, TypeOK
    <2> QED
      BY <1>1, <2>1, <2>2, <2>3 DEF IInv, Numbered
  <1> QED
    BY <1>3, <1>4

LEMMA TuneKeeps ==
    ASSUME IInv, TuneRadios PROVE IInv'
  <1>1. LinkOK'
    BY Constants DEF IInv, TypeOK, LinkOK, TuneRadios, clock, link, receiver, rate, view,
                     history, ghosts
  <1>2. OrdersOK'
    BY DEF IInv, TypeOK, OrdersOK, TuneRadios, clock, link, receiver, rate, view, history,
           ghosts
  <1>3. QueuesOK'
    BY Constants DEF IInv, TypeOK, LinkOK, QueuesOK, TuneRadios, clock, link, receiver,
                     rate, view, history, ghosts
  <1>4. FlightLoopOK'
    BY Newest, Constants DEF IInv, TypeOK, FlightLoopOK, TuneRadios, clock, rate, view
  <1>9. FlagsOK'
    BY DEF IInv, TypeOK, FlagsOK, TuneRadios, clock, link, receiver, rate,
                     view, history, ghosts
  <1>5. Reading'
    BY DEF IInv, TypeOK, LinkOK, Reading, TuneRadios, clock, link, receiver, rate, view,
           history, ghosts
  <1>6. Heeded'
    BY Constants DEF IInv, TypeOK, LinkOK, OrdersOK, Reading, Heeded, InForce, NoOrders,
                     TuneRadios, clock, link, receiver, rate, view, history, ghosts
  <1>7. Numbered'
    <2>1. \A r \in Radios : Before(radios'[r])
      BY Newest DEF IInv, Numbered
    <2>2. DOMAIN tunes' = {} /\ at' = at /\ frames' = frames
      BY DEF TuneRadios, receiver
    <2> QED
      BY <2>1, <2>2 DEF Numbered, Before
  <1>8. Swapped' /\ AnswersInOrder'
    BY DEF IInv, TypeOK, Swapped, AnswersInOrder, TuneRadios, clock, link, receiver, rate,
           view, history, ghosts
  <1> QED
    BY <1>1, <1>2, <1>3, <1>4, <1>5, <1>6, <1>7, <1>8, <1>9 DEF IInv, TypeOK

LEMMA SampleKeeps ==
    ASSUME IInv, Sample PROVE IInv'
  <1>1. LinkOK'
    BY Constants DEF IInv, TypeOK, LinkOK, Sample, SampleTraffic, clock, link, receiver, rate, view,
                     history, ghosts
  <1>2. OrdersOK'
    BY DEF IInv, TypeOK, OrdersOK, Sample, SampleTraffic, clock, link, receiver, rate, view, history,
           ghosts
  <1>3. QueuesOK'
    BY Constants DEF IInv, TypeOK, LinkOK, QueuesOK, Sample, SampleTraffic, clock, link, receiver, rate,
                     view, history, ghosts
  <1>4. FlightLoopOK'
    BY Constants DEF IInv, TypeOK, FlightLoopOK, Sample, SampleTraffic, clock, link, receiver, rate,
                     view, history, ghosts
  <1>9. FlagsOK'
    BY DEF IInv, TypeOK, FlagsOK, Sample, SampleTraffic, clock, link, receiver, rate,
                     view, history, ghosts
  <1>5. Reading'
    BY DEF IInv, TypeOK, LinkOK, Reading, Sample, SampleTraffic, clock, link, receiver, rate, view,
           history, ghosts
  <1>6. Heeded'
    BY Constants DEF IInv, TypeOK, LinkOK, OrdersOK, Reading, Heeded, InForce, NoOrders,
                     Sample, SampleTraffic, clock, link, receiver, rate, view, history, ghosts
  <1>7. Numbered'
    BY DEF IInv, TypeOK, LinkOK, QueuesOK, FlightLoopOK, Numbered, Before, Sample, SampleTraffic, clock,
           link, receiver, rate, view, history, ghosts
  <1>8. Swapped' /\ AnswersInOrder'
    BY DEF IInv, TypeOK, Swapped, AnswersInOrder, Sample, SampleTraffic, clock, link, receiver, rate,
           view, history, ghosts
  <1> QED
    BY <1>1, <1>2, <1>3, <1>4, <1>5, <1>6, <1>7, <1>8, <1>9 DEF IInv, TypeOK

LEMMA QueryKeeps ==
    ASSUME IInv, TakeQueries \/ AnswerQueries PROVE IInv'
  <1>1. LinkOK'
    BY Constants DEF IInv, TypeOK, LinkOK, TakeQueries, AnswerQueries, clock, link,
                     receiver, rate, view, history, ghosts
  <1>2. OrdersOK'
    BY DEF IInv, TypeOK, OrdersOK, TakeQueries, AnswerQueries, clock, link, receiver,
           rate, view, history, ghosts
  <1>3. QueuesOK'
    <2>1. answered \o taken \in Seq(1..MaxFrames) /\ <<>> \in Seq(1..MaxFrames)
      BY ConcatProperties, EmptySeq DEF IInv, TypeOK, QueuesOK
    <2>2. CASE TakeQueries
      BY <2>1, <2>2 DEF IInv, TypeOK, QueuesOK, TakeQueries, history
    <2>3. CASE AnswerQueries
      BY <2>1, <2>3 DEF IInv, TypeOK, QueuesOK, AnswerQueries
    <2> QED
      BY <2>2, <2>3
  <1>4. FlightLoopOK'
    BY Constants DEF IInv, TypeOK, FlightLoopOK, TakeQueries, AnswerQueries, clock, link,
                     receiver, rate, view, history, ghosts
  <1>9. FlagsOK'
    BY DEF IInv, TypeOK, FlagsOK, TakeQueries, AnswerQueries, clock, link,
                     receiver, rate, view, history, ghosts
  <1>5. Reading'
    BY DEF IInv, TypeOK, LinkOK, Reading, TakeQueries, AnswerQueries, clock, link,
           receiver, rate, view, history, ghosts
  <1>6. Heeded'
    BY Constants DEF IInv, TypeOK, LinkOK, OrdersOK, Reading, Heeded, InForce, NoOrders,
                     TakeQueries, AnswerQueries, clock, link, receiver, rate, view, history, ghosts
  <1>7. Numbered'
    BY DEF IInv, TypeOK, LinkOK, QueuesOK, FlightLoopOK, Numbered, Before, TakeQueries,
           AnswerQueries, clock, link, receiver, rate, view, history, ghosts
  <1>8. Swapped' /\ AnswersInOrder'
    <2>1. CASE TakeQueries
      <3>1. /\ taken = <<>> /\ frame' = "answers"
            /\ taken' = queries /\ queries' = <<>> /\ answered' = answered /\ asked' = asked
        BY <2>1 DEF IInv, Swapped, TakeQueries, history
      <3>2. (answered \o queries) \o <<>> = (answered \o <<>>) \o queries
        BY ConcatProperties, ConcatEmptySeq DEF IInv, TypeOK, QueuesOK
      <3> QED
        BY <3>1, <3>2 DEF IInv, Swapped, AnswersInOrder
    <2>2. CASE AnswerQueries
      <3>1. /\ taken' = <<>> /\ answered' = answered \o taken
            /\ queries' = queries /\ asked' = asked
        BY <2>2 DEF AnswerQueries
      <3>2. (answered \o taken) \o <<>> = answered \o taken
        BY ConcatProperties, ConcatEmptySeq DEF IInv, TypeOK, QueuesOK
      <3> QED
        BY <3>1, <3>2 DEF IInv, Swapped, AnswersInOrder
    <2> QED
      BY <2>1, <2>2
  <1> QED
    BY <1>1, <1>2, <1>3, <1>4, <1>5, <1>6, <1>7, <1>8, <1>9 DEF IInv, TypeOK

LEMMA RetryKeeps ==
    ASSUME IInv, Retry PROVE IInv'
  <1>1. LinkOK'
    BY Constants DEF IInv, TypeOK, LinkOK, Retry, clock, link, receiver, rate, view,
                     history, ghosts
  <1>2. OrdersOK'
    BY DEF IInv, TypeOK, OrdersOK, Retry, clock, link, receiver, rate, view, history,
           ghosts
  <1>3. QueuesOK'
    BY Constants DEF IInv, TypeOK, LinkOK, QueuesOK, Retry, clock, link, receiver, rate,
                     view, history, ghosts
  <1>4. FlightLoopOK'
    BY Constants DEF IInv, TypeOK, FlightLoopOK, Retry, clock, link, receiver, rate, view,
                     history, ghosts
  <1>9. FlagsOK'
    BY DEF IInv, TypeOK, FlagsOK, Retry, clock, link, receiver, rate, view,
                     history, ghosts
  <1>5. Reading'
    BY DEF IInv, TypeOK, LinkOK, Reading, Retry, clock, link, receiver, rate, view,
           history, ghosts
  <1>6. Heeded'
    BY Constants DEF IInv, TypeOK, LinkOK, OrdersOK, Reading, Heeded, InForce, NoOrders,
                     Retry, clock, link, receiver, rate, view, history, ghosts
  <1>7. Numbered'
    BY DEF IInv, TypeOK, LinkOK, QueuesOK, FlightLoopOK, Numbered, Before, Retry, clock,
           link, receiver, rate, view, history, ghosts
  <1>8. Swapped' /\ AnswersInOrder'
    BY DEF IInv, TypeOK, Swapped, AnswersInOrder, Retry, clock, link, receiver, rate,
           view, history, ghosts
  <1> QED
    BY <1>1, <1>2, <1>3, <1>4, <1>5, <1>6, <1>7, <1>8, <1>9 DEF IInv, TypeOK

LEMMA StepInvariant == IInv /\ [Next]_vars => IInv'
  <1> SUFFICES ASSUME IInv, [Next]_vars PROVE IInv'
    OBVIOUS
  <1>1. CASE Tick \/ Pause \/ Lose \/ SenderDials \/ SenderSends
    BY <1>1, ClockKeeps, LoseKeeps, DialKeeps
  <1>2. CASE Receive \/ ReceiverReads
    BY <1>2, StartKeeps, ReadKeeps, HandleKeeps, FailureKeeps DEF Receive
  <1>3. CASE FlightLoop
    BY <1>3, TuneKeeps, SampleKeeps, QueryKeeps, RetryKeeps DEF FlightLoop
  <1>4. CASE UNCHANGED vars
    <2> USE DEF vars, clock, link, receiver, rate, view, history, ghosts
    <2>1. LinkOK' /\ OrdersOK' /\ QueuesOK'
      BY <1>4 DEF IInv, TypeOK, LinkOK, OrdersOK, QueuesOK
    <2>2. FlightLoopOK' /\ FlagsOK'
      BY <1>4 DEF IInv, TypeOK, FlightLoopOK, FlagsOK
    <2>3. Reading' /\ Heeded'
      BY <1>4 DEF IInv, Reading, Heeded, InForce
    <2>4. Numbered' /\ Swapped' /\ AnswersInOrder'
      BY <1>4 DEF IInv, Numbered, Before, Swapped, AnswersInOrder
    <2> QED
      BY <2>1, <2>2, <2>3, <2>4 DEF IInv, TypeOK
  <1> QED
    BY <1>1, <1>2, <1>3, <1>4 DEF Next

LEMMA Invariance == Spec => []IInv
  BY InitInvariant, StepInvariant, PTL DEF Spec

\* Every variable of the telemetry keeps its type.
THEOREM TypeCorrect == Spec => []TypeOK
  <1>1. IInv => TypeOK
    BY DEF IInv
  <1> QED
    BY <1>1, Invariance, PTL

\* For any orders, preferences and number of connections, what is in force is
\* what the console ordered the receiver reads from, unless a loss went by it
\* (TelemetryRateController, reply_receiver_loop).
THEOREM CommandsAreHeeded == Spec => []CommandIsTheConsoles
  <1>1. IInv => CommandIsTheConsoles
    BY DEF IInv, Reading, Heeded, CommandIsTheConsoles
  <1> QED
    BY <1>1, Invariance, PTL

\* However many queries come while others are answered, each is answered once
\* and in order (process_pending_queries).
THEOREM QueriesAreAnswered == Spec => []AnswersInOrder
  <1>1. IInv => AnswersInOrder
    BY DEF IInv
  <1> QED
    BY <1>1, Invariance, PTL

\* No radio is ever put back on an earlier tuning, whatever is tuned together
\* (process_pending_radio_tunes).
THEOREM RadiosGoForward == Spec => RadiosNeverGoBack
  <1>1. IInv /\ [Next]_vars => [\A r \in Radios : radios'[r] >= radios[r]]_radios
    <2> SUFFICES ASSUME IInv, [Next]_vars, radios' # radios
                 PROVE  \A r \in Radios : radios'[r] >= radios[r]
      OBVIOUS
    <2>1. TuneRadios
      BY DEF Next, Tick, Pause, Lose, SenderDials, SenderSends, Receive, ReceiverStarts,
             ReceiverReads, ReceiverIsCut, ReceiverHandles, ReceiverForgetsRate,
             ReceiverForgetsPreference, ReceiverWakes, FlightLoop, Sample, SampleTraffic, TakeQueries,
             AnswerQueries, Retry, vars
    <2> QED
      BY <2>1, Newest
  <1> QED
    BY <1>1, Invariance, PTL DEF Spec, RadiosNeverGoBack
-----------------------------------------------------------------------------
(* The scan of the slots. *)

Targets == [slot : Nat, distance : Nat, onGround : BOOLEAN]
Scans   == [seen : Nat, vertical : Nat, range : Nat, found : Seq(Targets)]

LEMMA LeastOne ==
    ASSUME NEW S \in SUBSET Nat, S # {}
    PROVE  \E n \in S : \A m \in S : n <= m
  <1>1. PICK n \in S : \A m \in S : <<m, n>> \notin OpToRel(<, Nat)
    BY NatLessThanWellFounded, WFMin
  <1>2. \A m \in S : ~(m < n)
    BY <1>1, Zenon DEF OpToRel
  <1> QED
    BY <1>2

IsScan(scan, sky, m) ==
    scan = [i \in 1..m |-> IF i = 1 THEN Nothing ELSE ScanSlot(scan[i - 1], sky, i)]

LEMMA ScanGoesOn ==
    ASSUME NEW sky, NEW m \in Nat, m > 1, NEW scan, IsScan(scan, sky, m - 1)
    PROVE  \E longer : IsScan(longer, sky, m)
  <1> DEFINE longer == [i \in 1..m |-> IF i = m THEN ScanSlot(scan[m - 1], sky, m) ELSE scan[i]]
  <1>1. ASSUME NEW i \in 1..m
        PROVE  longer[i] = IF i = 1 THEN Nothing ELSE ScanSlot(longer[i - 1], sky, i)
    <2>1. CASE i = m
      BY <2>1
    <2>2. CASE i # m
      <3>1. i \in 1..(m - 1) /\ (i # 1 => i - 1 \in 1..m /\ i - 1 # m)
        BY <2>2
      <3>2. scan[i] = IF i = 1 THEN Nothing ELSE ScanSlot(scan[i - 1], sky, i)
        BY <3>1 DEF IsScan
      <3> QED
        BY <2>2, <3>1, <3>2
    <2> QED
      BY <2>1, <2>2
  <1>2. longer = [i \in 1..m |-> IF i = 1 THEN Nothing ELSE ScanSlot(longer[i - 1], sky, i)]
    BY <1>1
  <1> HIDE DEF longer
  <1>3. IsScan(longer, sky, m)
    BY <1>2 DEF IsScan
  <1> QED
    BY <1>3

LEMMA ScanExists ==
    ASSUME NEW sky, NEW m \in Nat, m > 0
    PROVE  \E scan : IsScan(scan, sky, m)
  <1> DEFINE missing == {n \in Nat : n > 0 /\ ~\E scan : IsScan(scan, sky, n)}
  <1> SUFFICES ASSUME missing # {} PROVE FALSE
    OBVIOUS
  <1>1. \E n \in missing : \A k \in missing : n <= k
    BY LeastOne
  <1>2. PICK n \in Nat :
          /\ n > 0 /\ ~\E scan : IsScan(scan, sky, n)
          /\ \A k \in Nat : k > 0 /\ (~\E scan : IsScan(scan, sky, k)) => n <= k
    BY <1>1
  <1>3. CASE n = 1
    <2> DEFINE scan == [i \in 1..1 |-> Nothing]
    <2>1. scan = [i \in 1..1 |-> IF i = 1 THEN Nothing ELSE ScanSlot(scan[i - 1], sky, i)]
      OBVIOUS
    <2> HIDE DEF scan
    <2>2. IsScan(scan, sky, 1)
      BY <2>1 DEF IsScan
    <2> QED
      BY <1>2, <1>3, <2>2
  <1>4. CASE n > 1
    <2>1. n - 1 \in Nat /\ n - 1 > 0 /\ ~(n <= n - 1)
      BY <1>4
    <2>2. PICK scan : IsScan(scan, sky, n - 1)
      BY <1>2, <2>1
    <2> QED
      BY <1>2, <1>4, <2>2, ScanGoesOn
  <1> QED
    BY <1>2, <1>3, <1>4

ScanOf(sky) == CHOOSE scan : IsScan(scan, sky, Len(sky.slots))

LEMMA SlotsAreScanned ==
    ASSUME NEW sky, Len(sky.slots) \in Nat, Len(sky.slots) > 0
    PROVE  /\ ScanSlots(sky) = ScanOf(sky)[Len(sky.slots)]
           /\ ScanOf(sky)[1] = Nothing
           /\ \A i \in 2..Len(sky.slots) : ScanOf(sky)[i] = ScanSlot(ScanOf(sky)[i - 1], sky, i)
  <1>1. IsScan(ScanOf(sky), sky, Len(sky.slots))
    BY ScanExists DEF ScanOf
  <1>2. ScanSlots(sky) = ScanOf(sky)[Len(sky.slots)]
    BY DEF ScanSlots, IsScan, ScanOf
  <1> QED
    BY <1>1, <1>2 DEF IsScan
-----------------------------------------------------------------------------
(* The order. *)

Nearer(found, j, i) ==
    \/ found[j].distance < found[i].distance
    \/ found[j].distance = found[i].distance /\ j < i

NearerThan(found, i) == {j \in DOMAIN found : Nearer(found, j, i)}

\* How many are nearer than the i-th, and the place of the n-th nearest.
Rank(found, i)    == Cardinality(NearerThan(found, i))
PlaceOf(found, n) == CHOOSE i \in DOMAIN found : Rank(found, i) = n - 1

Sorted(found, sorted) ==
    /\ sorted \in Seq(Targets) /\ Len(sorted) = Len(found)
    /\ \A n \in DOMAIN found : PlaceOf(found, n) \in DOMAIN found /\ sorted[n] = found[PlaceOf(found, n)]
    /\ \A m, n \in DOMAIN found : PlaceOf(found, m) = PlaceOf(found, n) => m = n
    /\ \A i \in DOMAIN found : \E n \in DOMAIN found : PlaceOf(found, n) = i
    /\ \A m, n \in DOMAIN found : m < n => sorted[m].distance <= sorted[n].distance

\* stable_sort: the sorted list holds every target once, and nearest first.
LEMMA NearestFirstSorts ==
    ASSUME NEW found \in Seq(Targets)
    PROVE  Sorted(found, NearestFirst(found))
  <1> DEFINE N == Len(found)
             rank == [i \in 1..N |-> Rank(found, i) + 1]
             sorted == NearestFirst(found)
  <1>1. N \in Nat /\ DOMAIN found = 1..N /\ \A i \in 1..N : found[i] \in Targets
    OBVIOUS
  <1>2. \A i \in 1..N : found[i].distance \in Nat
    BY <1>1 DEF Targets
  <1> HIDE DEF N
  <1>3. IsFiniteSet(1..N) /\ Cardinality(1..N) = N
    <2>1. 1 \in Int /\ N \in Int /\ (1 > N => N = 0)
      BY <1>1
    <2>2. IsFiniteSet(1..N) /\ Cardinality(1..N) = IF 1 > N THEN 0 ELSE N - 1 + 1
      BY <2>1, FS_Interval
    <2> QED
      BY <2>1, <2>2
  <1>4. \A i \in 1..N : NearerThan(found, i) \subseteq 1..N /\ i \notin NearerThan(found, i)
    BY <1>1, <1>2 DEF NearerThan, Nearer
  <1>5. ASSUME NEW i \in 1..N
        PROVE  /\ IsFiniteSet(NearerThan(found, i))
               /\ Rank(found, i) \in Nat /\ Rank(found, i) + 1 \in 1..N
               /\ Cardinality(NearerThan(found, i) \union {i}) = Rank(found, i) + 1
    <2> DEFINE near == NearerThan(found, i)
    <2>1. near \subseteq 1..N /\ i \notin near
      BY <1>4
    <2> HIDE DEF near
    <2>2. IsFiniteSet(near) /\ Cardinality(near) \in Nat
      BY <1>3, <2>1, FS_Subset, FS_CardinalityType
    <2>3. IsFiniteSet(near \union {i}) /\ Cardinality(near \union {i}) = Cardinality(near) + 1
      BY <2>1, <2>2, FS_AddElement
    <2>4. near \union {i} \in SUBSET (1..N)
      BY <2>1
    <2>5. Cardinality(near \union {i}) <= N
      BY <1>3, <2>4, FS_Subset
    <2>6. Rank(found, i) = Cardinality(near)
      BY DEF Rank, near
    <2> QED
      BY <1>1, <2>2, <2>3, <2>5, <2>6 DEF near
  <1>6. ASSUME NEW i \in 1..N, NEW j \in 1..N, Nearer(found, i, j)
        PROVE  Rank(found, i) < Rank(found, j)
    <2>1. \A k \in 1..N : Nearer(found, k, i) => Nearer(found, k, j)
      BY <1>1, <1>2, <1>6 DEF Nearer
    <2>2. NearerThan(found, i) \union {i} \in SUBSET NearerThan(found, j)
      BY <1>1, <1>6, <2>1 DEF NearerThan
    <2>3. IsFiniteSet(NearerThan(found, j))
      BY <1>5
    <2>4. Cardinality(NearerThan(found, i) \union {i}) <= Cardinality(NearerThan(found, j))
      BY <2>2, <2>3, FS_Subset
    <2>5. Rank(found, i) + 1 <= Rank(found, j)
      BY <1>5, <2>4 DEF Rank
    <2>6. Rank(found, i) \in Nat /\ Rank(found, j) \in Nat
      BY <1>5
    <2> QED
      BY <2>5, <2>6
  <1>7. \A i, j \in 1..N : i # j => Nearer(found, i, j) \/ Nearer(found, j, i)
    BY <1>1, <1>2 DEF Nearer
  <1>8. \A i \in 1..N : rank[i] = Rank(found, i) + 1
    OBVIOUS
  <1>9. rank \in [1..N -> 1..N]
    BY <1>5
  <1> HIDE DEF rank
  <1>10. \A i \in 1..N : Rank(found, i) \in Nat /\ rank[i] = Rank(found, i) + 1 /\ rank[i] \in 1..N
    BY <1>5, <1>8, <1>9
  <1>11. \A i, j \in 1..N : Nearer(found, i, j) => rank[i] < rank[j]
    BY <1>6, <1>10
  <1>12. \A i, j \in 1..N : rank[i] = rank[j] => i = j
    BY <1>7, <1>10, <1>11
  <1>13. rank \in Injection(1..N, 1..N)
    BY <1>9, <1>12 DEF Injection, IsInjective
  <1>14. rank \in Surjection(1..N, 1..N)
    BY <1>3, <1>13, FS_Injection
  <1>15. \A n \in 1..N : \E i \in 1..N : rank[i] = n
    BY <1>14 DEF Surjection
  <1>16. ASSUME NEW n \in 1..N
         PROVE  PlaceOf(found, n) \in 1..N /\ rank[PlaceOf(found, n)] = n
    <2>1. PICK i \in 1..N : rank[i] = n
      BY <1>15
    <2>2. Rank(found, i) = n - 1
      BY <1>10, <2>1
    <2>3. PlaceOf(found, n) \in 1..N /\ Rank(found, PlaceOf(found, n)) = n - 1
      BY <1>1, <2>2 DEF PlaceOf
    <2> QED
      BY <1>10, <2>3
  <1>17. \A m, n \in 1..N : PlaceOf(found, m) = PlaceOf(found, n) => m = n
    BY <1>16
  <1>18. ASSUME NEW i \in 1..N PROVE \E n \in 1..N : PlaceOf(found, n) = i
    <2>1. rank[i] \in 1..N
      BY <1>10
    <2>2. PlaceOf(found, rank[i]) \in 1..N /\ rank[PlaceOf(found, rank[i])] = rank[i]
      BY <1>16, <2>1
    <2>3. PlaceOf(found, rank[i]) = i
      BY <1>12, <2>2
    <2> QED
      BY <2>1, <2>3
  <1>19. sorted = [n \in 1..N |-> found[PlaceOf(found, n)]]
    BY <1>1 DEF NearestFirst, PlaceOf, Rank, NearerThan, Nearer
  <1> HIDE DEF sorted
  <1>20. /\ sorted \in Seq(Targets) /\ Len(sorted) = N
         /\ \A n \in 1..N : sorted[n] = found[PlaceOf(found, n)]
    <2>1. \A n \in 1..N : found[PlaceOf(found, n)] \in Targets
      BY <1>1, <1>16
    <2> QED
      BY <1>1, <1>19, <2>1
  <1>21. ASSUME NEW m \in 1..N, NEW n \in 1..N, m < n
         PROVE  sorted[m].distance <= sorted[n].distance
    <2> DEFINE i == PlaceOf(found, m)
               j == PlaceOf(found, n)
    <2>1. i \in 1..N /\ j \in 1..N /\ rank[i] = m /\ rank[j] = n
      BY <1>16
    <2>2. sorted[m] = found[i] /\ sorted[n] = found[j]
      BY <1>20
    <2> HIDE DEF i, j
    <2>3. ~Nearer(found, j, i)
      BY <1>1, <1>11, <1>21, <2>1
    <2>4. found[i].distance <= found[j].distance
      BY <1>2, <2>1, <2>3 DEF Nearer
    <2> QED
      BY <2>2, <2>4
  <1> QED
    BY <1>1, <1>16, <1>17, <1>18, <1>20, <1>21 DEF Sorted, N, sorted
-----------------------------------------------------------------------------
(* What is found. *)

\* Those the count admits, and those of them that are in reach.
Admitted(sky) ==
    {i \in Others(sky) :
        sky.num_acf > 0 => Cardinality({j \in Others(sky) : j < i}) < sky.num_acf}

Reached(sky) ==
    {i \in Admitted(sky) :
        /\ ~Beyond(sky.slots[i].alt, sky.own.alt, Bounds.vertical_ft)
        /\ ~Beyond(sky.slots[i].at, sky.own.at, Bounds.radius_nm)}

AdmittedTo(sky, i) == {j \in Admitted(sky) : j <= i}
OthersTo(sky, i)   == {j \in Others(sky) : j <= i}

Listed(sky, found, i) ==
    /\ \A k \in DOMAIN found :
         /\ found[k].slot \in Reached(sky) /\ found[k].slot <= i
         /\ found[k] = Target(sky, found[k].slot)
    /\ \A k, l \in DOMAIN found : k < l => found[k].slot < found[l].slot
    /\ \A j \in Reached(sky) : j <= i => \E k \in DOMAIN found : found[k].slot = j

\* The scan has seen all of them, or as many as the count lets it see.
StopsAt(most, seen, all) == seen = all \/ (most > 0 /\ seen >= most /\ all >= most)

\* What the scan knows after slot i.
Knows(sky, scan, i) ==
    /\ scan \in Scans
    /\ scan.seen = Cardinality(AdmittedTo(sky, i))
    /\ StopsAt(sky.num_acf, scan.seen, Cardinality(OthersTo(sky, i)))
    /\ scan.seen = Len(scan.found) + scan.vertical + scan.range
    /\ Listed(sky, scan.found, i)

LEMMA SkiesAreSkies ==
    ASSUME NEW sky \in Sky
    PROVE  /\ Len(sky.slots) \in Nat /\ Len(sky.slots) > 0
           /\ \A i \in 2..Len(sky.slots) : sky.slots[i] \in Slot
           /\ sky.num_acf \in Int /\ sky.own.at \in Int /\ sky.own.alt \in Int
           /\ sky.resolved \in BOOLEAN
  <1>1. sky.slots \in Seq(Slot) /\ sky.slots # <<>>
    BY DEF Sky
  <1>2. Len(sky.slots) \in Nat /\ Len(sky.slots) > 0
    BY <1>1
  <1>3. \A i \in 2..Len(sky.slots) : i \in DOMAIN sky.slots
    BY <1>1
  <1>4. \A i \in DOMAIN sky.slots : sky.slots[i] \in Slot
    BY <1>1
  <1> QED
    BY <1>2, <1>3, <1>4 DEF Sky

LEMMA TargetsAreTargets ==
    ASSUME NEW sky \in Sky, NEW i \in Others(sky)
    PROVE  Target(sky, i) \in Targets /\ Target(sky, i).slot = i
  <1> DEFINE slot == sky.slots[i]
             gaps == {Apart(p, sky.own.at) : p \in slot.at}
  <1>1. i \in 2..Len(sky.slots) /\ slot.at # {}
    BY DEF Others, Populated
  <1>2. slot \in Slot /\ sky.own.at \in Int /\ i \in Nat
    BY <1>1, SkiesAreSkies
  <1>3. slot.at \in SUBSET Int
    BY <1>2 DEF Slot
  <1>4. gaps \subseteq Nat
    BY <1>2, <1>3 DEF Apart
  <1>5. gaps # {}
    BY <1>1
  <1>6. OnGround(slot) \in BOOLEAN
    BY DEF OnGround
  <1> HIDE DEF gaps
  <1>7. (CHOOSE d \in gaps : TRUE) \in Nat
    BY <1>4, <1>5
  <1>8. Target(sky, i) = [slot |-> i, distance |-> CHOOSE d \in gaps : TRUE, onGround |-> OnGround(slot)]
    BY DEF Target, gaps
  <1> HIDE DEF slot
  <1> QED
    BY <1>2, <1>6, <1>7, <1>8 DEF Targets

LEMMA Counts ==
    ASSUME NEW sky \in Sky, NEW i \in 2..Len(sky.slots)
    PROVE  /\ IsFiniteSet(OthersTo(sky, i)) /\ IsFiniteSet(AdmittedTo(sky, i))
           /\ Cardinality(OthersTo(sky, i - 1)) \in Nat
           /\ Cardinality(AdmittedTo(sky, i - 1)) \in Nat
           /\ Cardinality(OthersTo(sky, i)) =
                IF i \in Others(sky) THEN Cardinality(OthersTo(sky, i - 1)) + 1
                ELSE Cardinality(OthersTo(sky, i - 1))
           /\ Cardinality(AdmittedTo(sky, i)) =
                IF i \in Admitted(sky) THEN Cardinality(AdmittedTo(sky, i - 1)) + 1
                ELSE Cardinality(AdmittedTo(sky, i - 1))
           /\ i \in Admitted(sky) <=>
                i \in Others(sky) /\ (sky.num_acf > 0 => Cardinality(OthersTo(sky, i - 1)) < sky.num_acf)
  <1> DEFINE n == Len(sky.slots)
  <1>1. n \in Nat /\ i \in Nat
    BY SkiesAreSkies
  <1>2. Others(sky) \subseteq 2..n /\ Admitted(sky) \subseteq Others(sky)
    BY DEF Others, Admitted
  <1> HIDE DEF n
  <1>3. IsFiniteSet(2..n)
    BY <1>1, FS_Interval
  <1>4. \A j \in 2..n : j <= i <=> j <= i - 1 \/ j = i
    BY <1>1
  <1>5. \A k : OthersTo(sky, k) \in SUBSET (2..n) /\ AdmittedTo(sky, k) \in SUBSET (2..n)
    BY <1>2 DEF OthersTo, AdmittedTo
  <1>6. \A k : /\ IsFiniteSet(OthersTo(sky, k)) /\ Cardinality(OthersTo(sky, k)) \in Nat
               /\ IsFiniteSet(AdmittedTo(sky, k)) /\ Cardinality(AdmittedTo(sky, k)) \in Nat
    BY <1>3, <1>5, FS_Subset, FS_CardinalityType
  <1>7. i \notin OthersTo(sky, i - 1) /\ i \notin AdmittedTo(sky, i - 1)
    BY <1>1 DEF OthersTo, AdmittedTo
  <1>8. OthersTo(sky, i) = IF i \in Others(sky) THEN OthersTo(sky, i - 1) \union {i} ELSE OthersTo(sky, i - 1)
    BY <1>2, <1>4 DEF OthersTo
  <1>9. AdmittedTo(sky, i) =
          IF i \in Admitted(sky) THEN AdmittedTo(sky, i - 1) \union {i} ELSE AdmittedTo(sky, i - 1)
    BY <1>2, <1>4 DEF AdmittedTo
  <1>10. /\ Cardinality(OthersTo(sky, i - 1) \union {i}) = Cardinality(OthersTo(sky, i - 1)) + 1
         /\ Cardinality(AdmittedTo(sky, i - 1) \union {i}) = Cardinality(AdmittedTo(sky, i - 1)) + 1
    BY <1>6, <1>7, FS_AddElement
  <1>11. {j \in Others(sky) : j < i} = OthersTo(sky, i - 1)
    <2>1. \A j \in 2..n : j < i <=> j <= i - 1
      BY <1>1
    <2> QED
      BY <1>2, <2>1 DEF OthersTo
  <1>12. i \in Admitted(sky) <=>
           i \in Others(sky) /\ (sky.num_acf > 0 => Cardinality(OthersTo(sky, i - 1)) < sky.num_acf)
    BY <1>11 DEF Admitted
  <1> QED
    BY <1>6, <1>8, <1>9, <1>10, <1>12

LEMMA CountedIsAdmitted ==
    ASSUME NEW sky \in Sky, NEW i \in 2..Len(sky.slots), NEW scan, Knows(sky, scan, i - 1)
    PROVE  Counted(scan, sky, i) <=> i \in Admitted(sky)
  <1> DEFINE before == Cardinality(OthersTo(sky, i - 1))
             most   == sky.num_acf
  <1>1. i \in Others(sky) <=> Populated(sky.slots[i])
    BY DEF Others
  <1>2. i \in Admitted(sky) <=> i \in Others(sky) /\ (most > 0 => before < most)
    BY Counts
  <1>3. before \in Nat /\ most \in Int
    BY Counts, SkiesAreSkies
  <1>4. scan.seen = before \/ (most > 0 /\ scan.seen >= most /\ before >= most)
    BY DEF Knows, StopsAt
  <1>5. scan.seen \in Nat
    BY DEF Knows, Scans
  <1>6. Counted(scan, sky, i) <=> (most > 0 => scan.seen < most) /\ Populated(sky.slots[i])
    BY DEF Counted
  <1> HIDE DEF before, most
  <1> QED
    BY <1>1, <1>2, <1>3, <1>4, <1>5, <1>6

LEMMA ListGoesOn ==
    ASSUME NEW sky \in Sky, NEW i \in 2..Len(sky.slots), NEW found \in Seq(Targets),
           Listed(sky, found, i - 1)
    PROVE  /\ i \notin Reached(sky) => Listed(sky, found, i)
           /\ i \in Reached(sky) => Listed(sky, Append(found, Target(sky, i)), i)
  <1>1. i \in Nat /\ Reached(sky) \subseteq Others(sky) /\ Reached(sky) \subseteq 2..Len(sky.slots)
    BY DEF Reached, Admitted, Others
  <1>2. \A j \in Reached(sky) : j \in Nat /\ (j <= i - 1 <=> j <= i /\ j # i)
    BY <1>1
  <1>3. ASSUME i \notin Reached(sky) PROVE Listed(sky, found, i)
    BY <1>2, <1>3 DEF Listed
  <1>4. ASSUME i \in Reached(sky) PROVE Listed(sky, Append(found, Target(sky, i)), i)
    <2> DEFINE t == Target(sky, i)
               n == Len(found)
               more == Append(found, t)
    <2>1. t \in Targets /\ t.slot = i
      BY <1>1, <1>4, TargetsAreTargets
    <2>2. /\ n \in Nat /\ DOMAIN found = 1..n /\ DOMAIN more = 1..(n + 1)
          /\ more[n + 1] = t /\ \A k \in 1..n : more[k] = found[k]
      BY <2>1
    <2>3. t = Target(sky, i)
      OBVIOUS
    <2> HIDE DEF t, n, more
    <2>4. \A k \in 1..(n + 1) : k \in 1..n \/ k = n + 1
      BY <2>2
    <2>5. \A k \in 1..n : /\ found[k].slot \in Reached(sky) /\ found[k].slot <= i - 1
                          /\ found[k] = Target(sky, found[k].slot)
      BY <2>2 DEF Listed
    <2>6. \A k \in 1..n : found[k].slot \in Nat /\ found[k].slot < i /\ found[k].slot <= i
      BY <1>1, <1>2, <2>5
    <2>7. \A k \in 1..(n + 1) : /\ more[k].slot \in Reached(sky) /\ more[k].slot <= i
                                /\ more[k] = Target(sky, more[k].slot)
      <3>1. ASSUME NEW k \in 1..n
            PROVE  /\ more[k].slot \in Reached(sky) /\ more[k].slot <= i
                   /\ more[k] = Target(sky, more[k].slot)
        BY <2>2, <2>5, <2>6
      <3>2. /\ more[n + 1].slot \in Reached(sky) /\ more[n + 1].slot <= i
            /\ more[n + 1] = Target(sky, more[n + 1].slot)
        BY <1>1, <1>4, <2>1, <2>2, <2>3
      <3> QED
        BY ONLY <2>4, <3>1, <3>2
    <2>8. \A k, l \in 1..(n + 1) : k < l => more[k].slot < more[l].slot
      <3> TAKE k, l \in 1..(n + 1)
      <3> HAVE k < l
      <3>1. k \in 1..n
        BY <2>2
      <3>2. CASE l \in 1..n
        BY <2>2, <3>1, <3>2 DEF Listed
      <3>3. CASE l = n + 1
        BY <2>1, <2>2, <2>6, <3>1, <3>3
      <3> QED
        BY <2>4, <3>2, <3>3
    <2>9. ASSUME NEW j \in Reached(sky), j <= i PROVE \E k \in 1..(n + 1) : more[k].slot = j
      <3>1. CASE j = i
        BY <2>1, <2>2, <3>1
      <3>2. CASE j # i
        <4>1. j <= i - 1
          BY <1>2, <2>9, <3>2
        <4>2. PICK k \in 1..n : found[k].slot = j
          BY <2>2, <4>1 DEF Listed
        <4> QED
          BY <2>2, <4>2
      <3> QED
        BY <3>1, <3>2
    <2>10. Listed(sky, more, i)
      BY <2>2, <2>7, <2>8, <2>9 DEF Listed
    <2> QED
      BY <2>10 DEF more, t
  <1> QED
    BY <1>3, <1>4

\* An aircraft that is too high, too far or found is one more that was seen.
LEMMA SeenIsCounted ==
    ASSUME NEW scan \in Scans
    PROVE  LET seen == [scan EXCEPT !.seen = @ + 1]
           IN /\ seen \in Scans /\ seen.seen = scan.seen + 1
              /\ seen.vertical = scan.vertical /\ seen.range = scan.range
              /\ seen.found = scan.found
  BY DEF Scans

LEMMA HighIsCounted ==
    ASSUME NEW scan \in Scans
    PROVE  LET high == [scan EXCEPT !.vertical = @ + 1]
           IN /\ high \in Scans /\ high.vertical = scan.vertical + 1
              /\ high.seen = scan.seen /\ high.range = scan.range
              /\ high.found = scan.found
  BY DEF Scans

LEMMA FarIsCounted ==
    ASSUME NEW scan \in Scans
    PROVE  LET far == [scan EXCEPT !.range = @ + 1]
           IN /\ far \in Scans /\ far.range = scan.range + 1
              /\ far.seen = scan.seen /\ far.vertical = scan.vertical
              /\ far.found = scan.found
  BY DEF Scans

LEMMA FoundIsKept ==
    ASSUME NEW scan \in Scans, NEW t \in Targets
    PROVE  LET more == [scan EXCEPT !.found = Append(@, t)]
           IN /\ more \in Scans /\ more.found = Append(scan.found, t)
              /\ more.seen = scan.seen /\ more.vertical = scan.vertical
              /\ more.range = scan.range
  <1> DEFINE list == Append(scan.found, t)
             more == [scan EXCEPT !.found = Append(@, t)]
             with == [scan EXCEPT !.found = list]
  <1>1. scan.found \in Seq(Targets)
    BY DEF Scans
  <1>2. list \in Seq(Targets)
    BY <1>1
  <1>3. more = with
    BY DEF Scans
  <1> HIDE DEF list, more
  <1>4. with \in Scans
    BY <1>2 DEF Scans
  <1>5. /\ with.found = list
        /\ with.seen = scan.seen /\ with.vertical = scan.vertical
        /\ with.range = scan.range
    BY DEF Scans
  <1> QED
    BY <1>3, <1>4, <1>5 DEF list, more

LEMMA ScanSlotLearns ==
    ASSUME NEW sky \in Sky, NEW i \in 2..Len(sky.slots), NEW scan, Knows(sky, scan, i - 1)
    PROVE  Knows(sky, ScanSlot(scan, sky, i), i)
  <1> DEFINE slot == sky.slots[i]
             seen == [scan EXCEPT !.seen = @ + 1]
             next == ScanSlot(scan, sky, i)
             high == Beyond(slot.alt, sky.own.alt, Bounds.vertical_ft)
             far  == Beyond(slot.at, sky.own.at, Bounds.radius_nm)
             t    == Target(sky, i)
             more == Append(scan.found, t)
  <1>1. scan \in Scans
    BY DEF Knows
  <1>2. /\ scan.found \in Seq(Targets) /\ Len(scan.found) \in Nat
        /\ scan.seen \in Nat /\ scan.vertical \in Nat /\ scan.range \in Nat
    BY <1>1 DEF Scans
  <1>3. next = IF ~Counted(scan, sky, i) THEN scan
               ELSE IF high THEN [seen EXCEPT !.vertical = @ + 1]
               ELSE IF far THEN [seen EXCEPT !.range = @ + 1]
               ELSE [seen EXCEPT !.found = Append(@, t)]
    BY DEF ScanSlot
  <1>4. Counted(scan, sky, i) <=> i \in Admitted(sky)
    BY CountedIsAdmitted
  <1>5. i \in Reached(sky) <=> i \in Admitted(sky) /\ ~high /\ ~far
    BY DEF Reached
  <1>6. i \in Admitted(sky) => i \in Others(sky)
    BY DEF Admitted
  <1>7. i \in Others(sky) => t \in Targets
    BY TargetsAreTargets
  <1> DEFINE o == Cardinality(OthersTo(sky, i - 1))
             p == Cardinality(OthersTo(sky, i))
             a == Cardinality(AdmittedTo(sky, i - 1))
             b == Cardinality(AdmittedTo(sky, i))
             most == sky.num_acf
  <1>8. o \in Nat /\ a \in Nat /\ most \in Int
    BY Counts, SkiesAreSkies
  <1>9. /\ p = (IF i \in Others(sky) THEN o + 1 ELSE o)
        /\ b = (IF i \in Admitted(sky) THEN a + 1 ELSE a)
    BY Counts
  <1>10. /\ scan.seen = a
         /\ scan.seen = Len(scan.found) + scan.vertical + scan.range
         /\ Listed(sky, scan.found, i - 1)
    BY DEF Knows
  <1>11. scan.seen = o \/ (most > 0 /\ scan.seen >= most /\ o >= most)
    BY DEF Knows, StopsAt
  <1>20. i \in Admitted(sky) <=> i \in Others(sky) /\ (most > 0 => o < most)
    BY Counts
  <1>12. /\ i \notin Reached(sky) => Listed(sky, scan.found, i)
         /\ i \in Reached(sky) => Listed(sky, more, i)
    BY <1>2, <1>10, ListGoesOn
  <1>13. ASSUME next \in Scans, next.seen = b,
                StopsAt(most, next.seen, p),
                next.seen = Len(next.found) + next.vertical + next.range,
                Listed(sky, next.found, i)
         PROVE  Knows(sky, next, i)
    BY <1>13 DEF Knows
  <1>14. i \in Admitted(sky) =>
           scan.seen + 1 = b /\ p = o + 1 /\ StopsAt(most, scan.seen + 1, p)
    <2> HIDE DEF o, p, a, b, most
    <2> QED
      BY <1>2, <1>6, <1>8, <1>9, <1>10, <1>11 DEF StopsAt
  <1>15. i \in Admitted(sky) /\ i \in Reached(sky) => Len(more) = Len(scan.found) + 1
    BY <1>2, <1>6, <1>7
  <1> HIDE DEF next, high, far, slot, o, p, a, b, most, t, more
  <1>16. CASE i \notin Admitted(sky)
    <2>1. next = scan
      BY <1>3, <1>4, <1>16
    <2>2. i \notin Reached(sky) /\ b = a
      BY <1>5, <1>9, <1>16
    <2>3. StopsAt(most, scan.seen, p)
      BY <1>2, <1>8, <1>9, <1>11, <1>16, <1>20 DEF StopsAt
    <2>4. Listed(sky, scan.found, i)
      BY <1>12, <2>2
    <2> QED
      BY <1>1, <1>10, <1>13, <2>1, <2>2, <2>3, <2>4 DEF next
  <1>17. CASE i \in Admitted(sky) /\ high
    <2>1. next = [seen EXCEPT !.vertical = @ + 1]
      BY <1>3, <1>4, <1>17
    <2>2. /\ next \in Scans /\ next.seen = scan.seen + 1 /\ next.vertical = scan.vertical + 1
          /\ next.range = scan.range /\ next.found = scan.found
      <3>1. /\ seen \in Scans /\ seen.seen = scan.seen + 1 /\ seen.vertical = scan.vertical
            /\ seen.range = scan.range /\ seen.found = scan.found
        BY ONLY <1>1, SeenIsCounted
      <3> HIDE DEF seen
      <3>2. /\ next \in Scans /\ next.vertical = seen.vertical + 1 /\ next.seen = seen.seen
            /\ next.range = seen.range /\ next.found = seen.found
        BY ONLY <2>1, <3>1, HighIsCounted
      <3> QED
        BY ONLY <3>1, <3>2
    <2>3. Listed(sky, next.found, i)
      BY <1>5, <1>12, <1>17, <2>2
    <2>4. next.seen = Len(next.found) + next.vertical + next.range
      <3>1. Len(next.found) = Len(scan.found)
        BY ONLY <2>2
      <3>2. Len(scan.found) \in Nat /\ scan.vertical \in Nat /\ scan.range \in Nat
        BY <1>2
      <3>3. (Len(scan.found) + scan.vertical + scan.range) + 1
              = Len(scan.found) + (scan.vertical + 1) + scan.range
        <4> DEFINE l == Len(scan.found)
                   v == scan.vertical
                   r == scan.range
        <4>1. l \in Nat /\ v \in Nat /\ r \in Nat
          BY <3>2
        <4> HIDE DEF l, v, r
        <4>2. (l + v + r) + 1 = l + (v + 1) + r /\ (l + v + r) + 1 = l + v + (r + 1)
          BY ONLY <4>1
        <4> QED
          BY ONLY <4>2 DEF l, v, r
      <3>4. next.seen = scan.seen + 1 /\ next.vertical = (scan.vertical + 1) /\ next.range = scan.range
        BY ONLY <2>2
      <3> QED
        BY ONLY <1>10, <3>1, <3>3, <3>4
    <2>5. next.seen = b /\ StopsAt(most, next.seen, p)
      BY <1>14, <1>17, <2>2
    <2> QED
      BY <1>13, <2>2, <2>3, <2>4, <2>5 DEF next
  <1>18. CASE i \in Admitted(sky) /\ ~high /\ far
    <2>1. next = [seen EXCEPT !.range = @ + 1]
      BY <1>3, <1>4, <1>18
    <2>2. /\ next \in Scans /\ next.seen = scan.seen + 1 /\ next.range = scan.range + 1
          /\ next.vertical = scan.vertical /\ next.found = scan.found
      <3>1. /\ seen \in Scans /\ seen.seen = scan.seen + 1 /\ seen.vertical = scan.vertical
            /\ seen.range = scan.range /\ seen.found = scan.found
        BY ONLY <1>1, SeenIsCounted
      <3> HIDE DEF seen
      <3>2. /\ next \in Scans /\ next.range = seen.range + 1 /\ next.seen = seen.seen
            /\ next.vertical = seen.vertical /\ next.found = seen.found
        BY ONLY <2>1, <3>1, FarIsCounted
      <3> QED
        BY ONLY <3>1, <3>2
    <2>3. Listed(sky, next.found, i)
      BY <1>5, <1>12, <1>18, <2>2
    <2>4. next.seen = Len(next.found) + next.vertical + next.range
      <3>1. Len(next.found) = Len(scan.found)
        BY ONLY <2>2
      <3>2. Len(scan.found) \in Nat /\ scan.vertical \in Nat /\ scan.range \in Nat
        BY <1>2
      <3>3. (Len(scan.found) + scan.vertical + scan.range) + 1
              = Len(scan.found) + scan.vertical + (scan.range + 1)
        <4> DEFINE l == Len(scan.found)
                   v == scan.vertical
                   r == scan.range
        <4>1. l \in Nat /\ v \in Nat /\ r \in Nat
          BY <3>2
        <4> HIDE DEF l, v, r
        <4>2. (l + v + r) + 1 = l + (v + 1) + r /\ (l + v + r) + 1 = l + v + (r + 1)
          BY ONLY <4>1
        <4> QED
          BY ONLY <4>2 DEF l, v, r
      <3>4. next.seen = scan.seen + 1 /\ next.vertical = scan.vertical /\ next.range = (scan.range + 1)
        BY ONLY <2>2
      <3> QED
        BY ONLY <1>10, <3>1, <3>3, <3>4
    <2>5. next.seen = b /\ StopsAt(most, next.seen, p)
      BY <1>14, <1>18, <2>2
    <2> QED
      BY <1>13, <2>2, <2>3, <2>4, <2>5 DEF next
  <1>19. CASE i \in Admitted(sky) /\ ~high /\ ~far
    <2>1. next = [seen EXCEPT !.found = Append(@, t)]
      BY <1>3, <1>4, <1>19
    <2>2. t \in Targets
      BY <1>6, <1>7, <1>19
    <2>3. /\ next \in Scans /\ next.seen = scan.seen + 1 /\ next.range = scan.range
          /\ next.vertical = scan.vertical /\ next.found = more
      <3>1. /\ seen \in Scans /\ seen.seen = scan.seen + 1 /\ seen.vertical = scan.vertical
            /\ seen.range = scan.range /\ seen.found = scan.found
        BY <1>1, SeenIsCounted
      <3> HIDE DEF seen
      <3> QED
        BY <2>1, <2>2, <3>1, FoundIsKept DEF more
    <2>4. i \in Reached(sky)
      BY <1>5, <1>19
    <2>5. Listed(sky, next.found, i)
      BY <1>12, <2>3, <2>4
    <2>6. next.seen = Len(next.found) + next.vertical + next.range
      <3>1. Len(next.found) = Len(scan.found) + 1
        BY <1>15, <1>19, <2>3, <2>4
      <3>2. next.seen = scan.seen + 1 /\ next.vertical = scan.vertical /\ next.range = scan.range
        BY <2>3
      <3>3. Len(scan.found) \in Nat /\ scan.vertical \in Nat /\ scan.range \in Nat
        BY <1>2
      <3>4. (Len(scan.found) + scan.vertical + scan.range) + 1
              = (Len(scan.found) + 1) + scan.vertical + scan.range
        BY ONLY <3>3
      <3> QED
        BY ONLY <1>10, <3>1, <3>2, <3>4
    <2>7. next.seen = b /\ StopsAt(most, next.seen, p)
      BY <1>14, <1>19, <2>3
    <2> QED
      BY <1>13, <2>3, <2>5, <2>6, <2>7 DEF next
  <1> QED
    BY <1>16, <1>17, <1>18, <1>19 DEF next

LEMMA NothingIsKnown ==
    ASSUME NEW sky \in Sky
    PROVE  Knows(sky, Nothing, 1)
  <1>1. \A j \in Others(sky) : ~(j <= 1)
    BY SkiesAreSkies DEF Others
  <1>2. OthersTo(sky, 1) = {} /\ AdmittedTo(sky, 1) = {} /\ \A j \in Reached(sky) : ~(j <= 1)
    BY <1>1 DEF OthersTo, AdmittedTo, Admitted, Reached
  <1>3. Nothing \in Scans /\ Len(Nothing.found) = 0 /\ DOMAIN Nothing.found = {}
    BY DEF Nothing, Scans
  <1>4. Listed(sky, Nothing.found, 1)
    BY <1>2, <1>3 DEF Listed
  <1>5. Nothing.seen = 0 /\ Nothing.vertical = 0 /\ Nothing.range = 0
    BY DEF Nothing
  <1>6. Cardinality(OthersTo(sky, 1)) = 0 /\ Cardinality(AdmittedTo(sky, 1)) = 0
    BY <1>2, FS_EmptySet
  <1>7. Nothing.seen = Len(Nothing.found) + Nothing.vertical + Nothing.range
    BY <1>3, <1>5
  <1>8. Nothing.seen = Cardinality(AdmittedTo(sky, 1)) /\ Nothing.seen = Cardinality(OthersTo(sky, 1))
    BY <1>5, <1>6
  <1> QED
    BY <1>3, <1>4, <1>7, <1>8 DEF Knows, StopsAt

\* extract_targets' loop over the slots, from the first to the last or to the
\* one at which the count stops it.
LEMMA ScanKnows ==
    ASSUME NEW sky \in Sky
    PROVE  Knows(sky, ScanSlots(sky), Len(sky.slots))
  <1> DEFINE n == Len(sky.slots)
             scan == ScanOf(sky)
             lost == {i \in 1..n : ~Knows(sky, scan[i], i)}
  <1>1. n \in Nat /\ n > 0
    BY SkiesAreSkies
  <1>2. /\ ScanSlots(sky) = scan[n] /\ scan[1] = Nothing
        /\ \A i \in 2..n : scan[i] = ScanSlot(scan[i - 1], sky, i)
    BY <1>1, SlotsAreScanned
  <1>3. lost = {}
    <2> SUFFICES ASSUME lost # {} PROVE FALSE
      OBVIOUS
    <2>1. lost \in SUBSET Nat
      OBVIOUS
    <2>2. \E i \in lost : \A j \in lost : i <= j
      BY <2>1, LeastOne
    <2>3. PICK i \in 1..n : ~Knows(sky, scan[i], i) /\ \A j \in 1..n : ~Knows(sky, scan[j], j) => i <= j
      BY <2>2
    <2> HIDE DEF scan, lost, n
    <2>4. i # 1
      BY <1>2, <2>3, NothingIsKnown
    <2>5. i \in 2..n /\ i - 1 \in 1..n /\ ~(i <= i - 1)
      BY <1>1, <2>4
    <2>6. Knows(sky, scan[i - 1], i - 1)
      BY <2>3, <2>5
    <2>7. Knows(sky, ScanSlot(scan[i - 1], sky, i), i)
      BY <2>5, <2>6, ScanSlotLearns DEF n
    <2> QED
      BY <1>2, <2>3, <2>5, <2>7
  <1>4. n \in 1..n
    BY <1>1
  <1>5. Knows(sky, scan[n], n)
    BY <1>3, <1>4
  <1> QED
    BY <1>2, <1>5

-----------------------------------------------------------------------------
(* The picture. *)

\* What is kept of what is found: the K nearest, in order.
Keeps(sky, found, kept, K) ==
    /\ Len(kept) = K /\ DOMAIN kept = 1..K
    /\ \A m, n \in 1..K : m < n => kept[m].distance <= kept[n].distance
    /\ \A m, n \in 1..K : kept[m].slot = kept[n].slot => m = n
    /\ \A m \in 1..K : kept[m].slot \in Reached(sky) /\ kept[m] = Target(sky, kept[m].slot)
    /\ \A j \in Reached(sky) :
         \/ \E m \in 1..K : kept[m].slot = j
         \/ K < Len(found) /\ \A m \in 1..K : kept[m].distance <= Away(sky, j)

LEMMA NearestAreKept ==
    ASSUME NEW sky \in Sky, NEW found \in Seq(Targets), NEW K \in 0..Len(found),
           Listed(sky, found, Len(sky.slots))
    PROVE  Keeps(sky, found, SubSeq(NearestFirst(found), 1, K), K)
  <1> DEFINE N == Len(found)
             sorted == NearestFirst(found)
             kept == SubSeq(sorted, 1, K)
  <1>1. N \in Nat /\ K \in Nat /\ K <= N /\ DOMAIN found = 1..N /\ \A i \in 1..N : found[i] \in Targets
    OBVIOUS
  <1>2. /\ sorted \in Seq(Targets) /\ Len(sorted) = N
        /\ \A n \in 1..N : PlaceOf(found, n) \in 1..N /\ sorted[n] = found[PlaceOf(found, n)]
        /\ \A m, n \in 1..N : PlaceOf(found, m) = PlaceOf(found, n) => m = n
        /\ \A i \in 1..N : \E n \in 1..N : PlaceOf(found, n) = i
        /\ \A m, n \in 1..N : m < n => sorted[m].distance <= sorted[n].distance
    BY <1>1, NearestFirstSorts DEF Sorted
  <1>3. /\ \A k \in 1..N : /\ found[k].slot \in Reached(sky)
                           /\ found[k] = Target(sky, found[k].slot)
        /\ \A k, l \in 1..N : k < l => found[k].slot < found[l].slot
    BY <1>1 DEF Listed
  <1>4. ASSUME NEW j \in Reached(sky) PROVE \E k \in 1..N : found[k].slot = j
    <2>1. j <= Len(sky.slots)
      BY SkiesAreSkies DEF Reached, Admitted, Others
    <2> QED
      BY <1>1, <2>1 DEF Listed
  <1> HIDE DEF N, sorted
  <1>5. \A n \in 1..N : sorted[n] \in Targets
    BY <1>2
  <1>6. kept \in Seq(Targets) /\ Len(kept) = K /\ DOMAIN kept = 1..K /\ \A m \in 1..K : kept[m] = sorted[m]
    <2>1. 1 \in Int /\ K \in Int /\ (IF 1 <= K THEN K - 1 + 1 ELSE 0) = K /\ 1..(K - 1 + 1) = 1..K
      BY <1>1
    <2>2. \A i \in 1..K : sorted[i] \in Targets
      BY <1>1, <1>5
    <2>3. /\ kept \in Seq(Targets) /\ Len(kept) = (IF 1 <= K THEN K - 1 + 1 ELSE 0)
          /\ \A i \in 1..(K - 1 + 1) : kept[i] = sorted[1 + i - 1]
      BY <2>1, <2>2, SubSeqProperties
    <2>4. \A i \in 1..K : 1 + i - 1 = i
      BY <1>1
    <2> HIDE DEF kept
    <2>5. DOMAIN kept = 1..Len(kept)
      BY <2>3
    <2> QED
      BY <2>1, <2>3, <2>4, <2>5
  <1> HIDE DEF kept
  <1>7. \A m \in 1..K : m \in 1..N
    BY <1>1
  <1>8. ASSUME NEW m \in 1..K, NEW n \in 1..K, kept[m].slot = kept[n].slot PROVE m = n
    <2> DEFINE k == PlaceOf(found, m)
               l == PlaceOf(found, n)
    <2>1. k \in 1..N /\ l \in 1..N /\ found[k].slot = found[l].slot /\ (k = l => m = n)
      BY <1>2, <1>6, <1>7, <1>8
    <2>2. found[k].slot \in Nat /\ found[l].slot \in Nat
      BY <1>1, <2>1 DEF Targets, N
    <2> HIDE DEF k, l
    <2>3. ~(k < l) /\ ~(l < k)
      BY <1>3, <2>1, <2>2
    <2>4. k = l
      BY <1>1, <2>1, <2>3
    <2> QED
      BY <2>1, <2>4
  <1>9. ASSUME NEW m \in 1..K
        PROVE  kept[m].slot \in Reached(sky) /\ kept[m] = Target(sky, kept[m].slot)
    <2>1. m \in 1..N /\ kept[m] = sorted[m]
      BY <1>6, <1>7
    <2>2. PlaceOf(found, m) \in 1..N /\ kept[m] = found[PlaceOf(found, m)]
      BY <1>2, <2>1
    <2> QED
      BY <1>3, <2>2
  <1>10. ASSUME NEW j \in Reached(sky), ~\E m \in 1..K : kept[m].slot = j
         PROVE  K < N /\ \A m \in 1..K : kept[m].distance <= Away(sky, j)
    <2>1. PICK k \in 1..N : found[k].slot = j
      BY <1>4
    <2>2. PICK n \in 1..N : PlaceOf(found, n) = k
      BY <1>2, <2>1
    <2>3. sorted[n] = found[k] /\ found[k] = Target(sky, j)
      BY <1>2, <1>3, <2>1, <2>2
    <2>4. n \notin 1..K
      BY <1>6, <1>10, <2>1, <2>3
    <2>5. n > K
      BY <1>1, <2>4
    <2>6. K < N /\ \A m \in 1..K : m < n
      BY <1>1, <2>5
    <2>7. Away(sky, j) = sorted[n].distance
      BY <2>3 DEF Away
    <2>8. ASSUME NEW m \in 1..K PROVE kept[m].distance <= Away(sky, j)
      <3>1. m \in 1..N /\ m < n /\ kept[m] = sorted[m]
        BY <1>6, <1>7, <2>6
      <3>2. sorted[m].distance <= sorted[n].distance
        BY <1>2, <3>1
      <3> QED
        BY <2>7, <3>1, <3>2
    <2> QED
      BY <2>6, <2>8
  <1>11. \A m, n \in 1..K : m < n => kept[m].distance <= kept[n].distance
    BY <1>2, <1>6, <1>7
  <1>12. Keeps(sky, found, kept, K)
    BY <1>6, <1>8, <1>9, <1>10, <1>11 DEF Keeps, N
  <1> QED
    BY <1>12 DEF kept, sorted

LEMMA OverIsOver ==
    ASSUME NEW found \in Seq(Targets)
    PROVE  /\ OverCap(found) \in Nat /\ Len(found) - OverCap(found) \in 0..Len(found)
           /\ OverCap(found) = 0 => Len(found) - OverCap(found) = Len(found)
           /\ OverCap(found) > 0 => Len(found) - OverCap(found) = Bounds.max_targets
           /\ Len(found) - OverCap(found) = 0 => Len(found) = 0
           /\ Len(found) = (Len(found) - OverCap(found)) + OverCap(found)
  <1>1. Len(found) \in Nat /\ Bounds.max_targets \in Nat
    BY BoundsAssumption DEF BoundsAssumption
  <1> DEFINE n == Len(found)
             most == Bounds.max_targets
             over == OverCap(found)
  <1>2. over = IF most > 0 /\ n > most THEN n - most ELSE 0
    BY DEF OverCap
  <1>3. n \in Nat /\ most \in Nat
    BY <1>1
  <1> HIDE DEF n, most, over
  <1>4. /\ over \in Nat /\ n - over \in 0..n
        /\ over = 0 => n - over = n
        /\ over > 0 => n - over = most
        /\ n - over = 0 => n = 0
        /\ n = (n - over) + over
    BY <1>2, <1>3
  <1> QED
    BY <1>4 DEF n, most, over

\* The slots of a picture that keeps K are K of those in reach.
SlotsOf(kept) == {t.slot : t \in ToSet(kept)}

LEMMA KeptAreCounted ==
    ASSUME NEW sky, NEW found, NEW kept, NEW K \in Nat, Keeps(sky, found, kept, K)
    PROVE  /\ SlotsOf(kept) = {kept[m].slot : m \in 1..K}
           /\ Cardinality(SlotsOf(kept)) = K
  <1> DEFINE slots == {kept[m].slot : m \in 1..K}
             place == [m \in 1..K |-> kept[m].slot]
  <1>1. SlotsOf(kept) = slots
    BY DEF SlotsOf, ToSet, Keeps
  <1>2. place \in [1..K -> slots]
    OBVIOUS
  <1>3. \A m, n \in 1..K : place[m] = place[n] => m = n
    BY DEF Keeps
  <1>4. \A j \in slots : \E m \in 1..K : place[m] = j
    OBVIOUS
  <1> HIDE DEF slots, place
  <1>5. place \in Bijection(1..K, slots)
    BY <1>2, <1>3, <1>4 DEF Bijection, Injection, Surjection, IsInjective
  <1>6. ExistsBijection(1..K, slots)
    BY <1>5 DEF ExistsBijection
  <1>7. IsFiniteSet(1..K) /\ Cardinality(1..K) = K
    <2>1. 1 \in Int /\ K \in Int /\ (1 > K => K = 0) /\ K - 1 + 1 = K
      OBVIOUS
    <2>2. IsFiniteSet(1..K) /\ Cardinality(1..K) = IF 1 > K THEN 0 ELSE K - 1 + 1
      BY <2>1, FS_Interval
    <2> QED
      BY <2>1, <2>2
  <1>8. Cardinality(slots) = K
    BY <1>6, <1>7, FS_Bijection
  <1> QED
    BY <1>1, <1>8 DEF slots

LEMMA PictureOf ==
    ASSUME NEW sky \in Sky
    PROVE  LET scan == ScanSlots(sky)
               over == OverCap(scan.found)
               kept == SubSeq(NearestFirst(scan.found), 1, Len(scan.found) - over)
           IN /\ ~sky.resolved => Picture(sky) = Unavailable
              /\ sky.resolved =>
                   /\ Picture(sky).status = IF kept = <<>> THEN "known_empty" ELSE "current"
                   /\ Picture(sky).targets = kept
                   /\ Picture(sky).truncated = (over > 0)
                   /\ Picture(sky).reported = sky.num_acf
                   /\ Picture(sky).seen = scan.seen /\ Picture(sky).vertical = scan.vertical
                   /\ Picture(sky).range = scan.range /\ Picture(sky).cap = over
  BY DEF Picture

\* A count that may not have cut the picture admits everybody, and one that
\* lets nobody be seen has nobody to admit.
LEMMA CutOrWhole ==
    ASSUME NEW sky \in Sky, NEW picture, NEW seen \in Nat,
           picture.reported = sky.num_acf, picture.seen = seen,
           seen = Cardinality(Admitted(sky)),
           StopsAt(sky.num_acf, seen, Cardinality(Others(sky)))
    PROVE  /\ Reached(sky) \subseteq InReach(sky)
           /\ ~MayBeCut(picture) =>
                Reached(sky) = InReach(sky) /\ seen = Cardinality(Others(sky))
           /\ seen = 0 <=> Others(sky) = {}
  <1>1. sky.num_acf \in Int /\ Len(sky.slots) \in Nat
    BY SkiesAreSkies
  <1>2. Others(sky) \in SUBSET (2..Len(sky.slots)) /\ Admitted(sky) \in SUBSET Others(sky)
    BY DEF Others, Admitted
  <1>3. IsFiniteSet(2..Len(sky.slots))
    <2>1. 2 \in Int /\ Len(sky.slots) \in Int
      BY <1>1
    <2> QED
      BY ONLY <2>1, FS_Interval
  <1>4. IsFiniteSet(Others(sky)) /\ Cardinality(Others(sky)) \in Nat
    BY <1>2, <1>3, FS_Subset, FS_CardinalityType
  <1>5. Cardinality(Others(sky)) = Cardinality(Admitted(sky)) => Others(sky) = Admitted(sky)
    BY ONLY <1>2, <1>4, FS_Subset
  <1>6. Reached(sky) \subseteq InReach(sky)
    BY <1>2 DEF Reached, InReach
  <1>7. ASSUME ~MayBeCut(picture)
        PROVE  Reached(sky) = InReach(sky) /\ seen = Cardinality(Others(sky))
    <2>1. ~(sky.num_acf > 0 /\ seen >= sky.num_acf)
      BY <1>7 DEF MayBeCut
    <2>2. seen = Cardinality(Others(sky))
      BY <2>1 DEF StopsAt
    <2>3. Others(sky) = Admitted(sky)
      BY <1>5, <2>2
    <2> QED
      BY <2>2, <2>3 DEF Reached, InReach
  <1>8. ASSUME seen = 0 PROVE Others(sky) = {}
    <2>1. ~(sky.num_acf > 0 /\ seen >= sky.num_acf)
      BY <1>1, <1>8
    <2>2. Cardinality(Others(sky)) = 0
      BY <1>8, <2>1 DEF StopsAt
    <2> QED
      BY ONLY <1>4, <2>2, FS_EmptySet
  <1>9. ASSUME Others(sky) = {} PROVE seen = 0
    <2>1. Admitted(sky) = {}
      BY <1>2, <1>9
    <2> QED
      BY <2>1, FS_EmptySet
  <1> QED
    BY <1>6, <1>7, <1>8, <1>9

LEMMA HonestPicture ==
    ASSUME NEW sky \in Sky
    PROVE  IsHonest(sky)
  <1> DEFINE picture == Picture(sky)
             scan  == ScanSlots(sky)
             found == scan.found
             over  == OverCap(found)
             K     == Len(found) - over
             kept  == SubSeq(NearestFirst(found), 1, K)
             slots == SlotsOf(kept)
             shown == SlotsOf(picture.targets)
             reach == Reached(sky)
             most  == Bounds.max_targets
  <1>1. CASE ~sky.resolved
    <2>1. picture = Unavailable
      BY <1>1, PictureOf
    <2>2. picture.status = "unavailable" /\ picture.targets = <<>>
      BY <2>1 DEF Unavailable
    <2> HIDE DEF picture
    <2>3. {t.slot : t \in ToSet(picture.targets)} = {}
      BY <2>2 DEF ToSet
    <2> QED
      BY <1>1, <2>2, <2>3 DEF IsHonest, picture
  <1>2. CASE sky.resolved
    <2>1. /\ picture.status = IF kept = <<>> THEN "known_empty" ELSE "current"
          /\ picture.targets = kept /\ picture.truncated = (over > 0)
          /\ picture.reported = sky.num_acf
          /\ picture.seen = scan.seen /\ picture.vertical = scan.vertical
          /\ picture.range = scan.range /\ picture.cap = over
      BY <1>2, PictureOf
    <2>2. Knows(sky, scan, Len(sky.slots))
      BY ScanKnows
    <2>3. /\ scan \in Scans /\ scan.seen = Cardinality(AdmittedTo(sky, Len(sky.slots)))
          /\ scan.seen = Len(found) + scan.vertical + scan.range
          /\ Listed(sky, found, Len(sky.slots))
          /\ StopsAt(sky.num_acf, scan.seen, Cardinality(OthersTo(sky, Len(sky.slots))))
      BY <2>2 DEF Knows
    <2>4. found \in Seq(Targets) /\ scan.vertical \in Nat /\ scan.range \in Nat /\ scan.seen \in Nat
      BY <2>3 DEF Scans
    <2>5. /\ AdmittedTo(sky, Len(sky.slots)) = Admitted(sky)
          /\ OthersTo(sky, Len(sky.slots)) = Others(sky)
      BY SkiesAreSkies DEF AdmittedTo, OthersTo, Admitted, Others
    <2>6. /\ over \in Nat /\ K \in 0..Len(found) /\ Len(found) \in Nat
          /\ (over = 0 => K = Len(found)) /\ (over > 0 => K = most)
          /\ (K = 0 => Len(found) = 0) /\ Len(found) = K + over
      BY <2>4, OverIsOver
    <2>7. Keeps(sky, found, kept, K)
      BY <2>3, <2>4, <2>6, NearestAreKept
    <2>8. K \in Nat
      BY <2>6
    <2> HIDE DEF K, kept, over, picture, scan, reach, most
    <2>9. slots = {kept[m].slot : m \in 1..K} /\ Cardinality(slots) = K
      BY <2>7, <2>8, KeptAreCounted
    <2>10. /\ Len(kept) = K /\ DOMAIN kept = 1..K
           /\ \A m, n \in 1..K : m < n => kept[m].distance <= kept[n].distance
           /\ \A m \in 1..K : kept[m].slot \in reach /\ kept[m] = Target(sky, kept[m].slot)
           /\ \A j \in reach :
                \/ \E m \in 1..K : kept[m].slot = j
                \/ K < Len(found) /\ \A m \in 1..K : kept[m].distance <= Away(sky, j)
      BY <2>7 DEF Keeps, reach
    <2>11. shown = slots
      BY <2>1
    <2> HIDE DEF slots, shown
    <2>12. slots \subseteq reach
      BY <2>9, <2>10
    <2>13. \A j \in reach \ slots : K < Len(found) /\ \A m \in 1..K : kept[m].distance <= Away(sky, j)
      BY <2>9, <2>10
    <2>14. slots # reach => picture.truncated
      <3> SUFFICES ASSUME slots # reach PROVE picture.truncated
        OBVIOUS
      <3>1. PICK j \in reach : j \notin slots
        BY <2>12
      <3>2. K < Len(found)
        BY <2>13, <3>1
      <3>3. over > 0
        BY <2>6, <2>8, <3>2
      <3> QED
        BY <2>1, <3>3
    <2>15. picture.truncated => Len(picture.targets) = most
      BY <2>1, <2>6, <2>10
    <2>16. ASSUME NEW i \in slots, NEW j \in reach \ slots PROVE Away(sky, i) <= Away(sky, j)
      <3>1. PICK m \in 1..K : kept[m].slot = i
        BY <2>9
      <3>2. Away(sky, i) = kept[m].distance
        BY <2>10, <3>1 DEF Away
      <3> QED
        BY <2>13, <3>1, <3>2
    <2>17. \A m, n \in DOMAIN picture.targets :
             m < n => picture.targets[m].distance <= picture.targets[n].distance
      BY <2>1, <2>10
    <2>18. /\ reach \subseteq InReach(sky)
           /\ ~MayBeCut(picture) =>
                reach = InReach(sky) /\ picture.seen = Cardinality(Others(sky))
           /\ picture.seen = 0 <=> Others(sky) = {}
      BY <2>1, <2>3, <2>4, <2>5, CutOrWhole DEF reach
    <2>19. picture.seen = Len(picture.targets) + picture.vertical + picture.range + picture.cap
      <3>1. Len(picture.targets) = K /\ picture.cap = over
        BY <2>1, <2>10
      <3>2. picture.seen = (K + over) + picture.vertical + picture.range
        BY <2>1, <2>3, <2>6
      <3>3. picture.vertical \in Nat /\ picture.range \in Nat
        BY <2>1, <2>4
      <3> QED
        BY <2>6, <2>8, <3>1, <3>2, <3>3
    <2>20. /\ picture.status = IF K = 0 THEN "known_empty" ELSE "current"
           /\ K = 0 <=> slots = {}
      <3>1. kept = <<>> => K = 0
        BY <2>10
      <3>2. K = 0 => kept = <<>>
        <4>1. K < 1 /\ 1 \in Int /\ K \in Int => SubSeq(NearestFirst(found), 1, K) = <<>>
          BY SubSeqEmpty
        <4> QED
          BY <2>8, <4>1 DEF kept
      <3>3. picture.status = IF kept = <<>> THEN "known_empty" ELSE "current"
        BY <2>1
      <3>4. K # 0 => 1 \in 1..K
        BY <2>8
      <3>5. K = 0 => 1..K = {}
        OBVIOUS
      <3>6. K = 0 <=> slots = {}
        BY <2>9, <3>4, <3>5
      <3> QED
        BY <3>1, <3>2, <3>3, <3>6
    <2>21. K = 0 => reach = {}
      <3> SUFFICES ASSUME K = 0, NEW j \in reach PROVE FALSE
        OBVIOUS
      <3>1. 1..K = {} /\ ~(K < Len(found))
        BY <2>6
      <3> QED
        BY <2>10, <3>1
    <2>22. Cardinality(slots) = Len(picture.targets)
      BY <2>1, <2>9, <2>10
    <2>23. /\ shown \subseteq InReach(sky)
           /\ Cardinality(shown) = Len(picture.targets)
           /\ picture.truncated => Len(picture.targets) = Bounds.max_targets
      BY <2>11, <2>12, <2>15, <2>18, <2>22 DEF most
    <2>24. InReach(sky) \ shown # {} => picture.truncated \/ MayBeCut(picture)
      BY <2>11, <2>12, <2>14, <2>18
    <2>25. ~MayBeCut(picture) =>
             \A i \in shown, j \in InReach(sky) \ shown : Away(sky, i) <= Away(sky, j)
      BY <2>11, <2>16, <2>18
    <2>26. picture.seen = Cardinality(Others(sky)) \/ MayBeCut(picture)
      BY <2>18
    <2>27. IF shown # {} THEN picture.status = "current"
           ELSE /\ picture.status = "known_empty"
                /\ InReach(sky) = {} \/ MayBeCut(picture)
      BY <2>11, <2>18, <2>20, <2>21
    <2>28. picture.seen = 0 <=> Others(sky) = {}
      BY <2>18
    <2> QED
      BY ONLY <1>2, <2>17, <2>19, <2>23, <2>24, <2>25, <2>26, <2>27, <2>28
         DEF IsHonest, SlotsOf, shown, picture
  <1> QED
    BY <1>1, <1>2

\* The picture kept and every picture taken, of any sky of any number of slots
\* and under any bounds, say what they leave out (extract_targets).
THEOREM PicturesAreHonest == Spec => []PictureIsHonest
  <1>1. Skies \subseteq Sky /\ Samples \subseteq Sky
    BY TelemetryAssumption DEF TelemetryAssumption
  <1>2. TypeOK => traffic \in Skies \union {Unsampled}
    BY DEF TypeOK, FlightLoopOK
  <1>3. TypeOK => PictureIsHonest
    BY <1>1, <1>2, HonestPicture DEF PictureIsHonest, HonestSkies, HonestSamples
  <1> QED
    BY <1>3, TypeCorrect, PTL
=============================================================================
