------------------------- MODULE PushToTalkProofs -------------------------
(***************************************************************************)
(* What holds of the push-to-talk controller for every configuration and   *)
(* any number of turns, and of the controller and the sink together: where *)
(* the close of a turn is, and in which order the words of turns are sent. *)
(***************************************************************************)
EXTENDS PushToTalk, SequenceTheorems, FiniteSetTheorems, TLAPS

\* How the controller's own variables and what it published of the turns hang
\* together: numbers are handed out in order, the recording one is the last,
\* and only it is open.
NumbersInOrder ==
    /\ state = "Idle" => activeSequence = 0
    /\ state = "Recording" => activeSequence # 0 /\ activeSequence = nextSequence - 1
    /\ \A n \in Turns : outcome[n] = "none" <=> n >= nextSequence

IInv == TypeOK /\ NumbersInOrder /\ OpenTurnIsActive
----------------------------------------------------------------------------
\* The age of a recording is bounded by the larger of the two limits.
LEMMA MaxAgeType == MaxAge \in Nat
  BY ConfigAssumption DEF MaxAge

\* Publishing an event about turn n, or about none, changes the outcome of at
\* most that turn.
LEMMA PublishedOutcome ==
    ASSUME NEW type \in EventTypes, NEW n \in 0..MaxTurns,
           outcome \in [Turns -> Outcomes], Publish(type, n)
    PROVE  /\ event' \in Events
           /\ outcome' \in [Turns -> Outcomes]
           /\ \A m \in Turns : m # n => outcome'[m] = outcome[m]
           /\ type = "Ignored" => outcome' = outcome
           /\ n = 0 => outcome' = outcome
           /\ type # "Ignored" /\ n # 0 => outcome'[n] = OutcomeOf(type)
  <1>1. OutcomeOf(type) \in Outcomes \union {OutcomeOf("Ignored")}
    BY DEF EventTypes, OutcomeOf, Outcomes
  <1>2. type # "Ignored" => OutcomeOf(type) \in Outcomes
    BY DEF EventTypes, OutcomeOf, Outcomes
  <1>3. event' \in Events
    BY DEF Publish, Events
  <1>4. n # 0 => n \in Turns
    BY ConfigAssumption DEF Turns
  <1>5. CASE type = "Ignored" \/ n = 0
    BY <1>3, <1>5 DEF Publish
  <1>6. CASE type # "Ignored" /\ n # 0
    BY <1>2, <1>3, <1>4, <1>6 DEF Publish
  <1> QED
    BY <1>5, <1>6

\* The initial state satisfies the invariant.
LEMMA InitInvariant == Init => IInv
  <1> SUFFICES ASSUME Init PROVE IInv
    OBVIOUS
  <1>1. NoEvent \in Events
    BY ConfigAssumption DEF NoEvent, Events, EventTypes
  <1>2. outcome \in [Turns -> Outcomes] /\ \A n \in Turns : outcome[n] = "none"
    BY DEF Init, Outcomes
  <1>3. TypeOK
    <2>1. /\ state \in States /\ activeSequence \in 0..MaxTurns
          /\ nextSequence \in 1..(MaxTurns + 1) /\ age \in 0..MaxAge
      BY ConfigAssumption, MaxAgeType DEF Init, States
    <2>2. microphone \in BOOLEAN /\ event \in Events
      BY <1>1, Zenon DEF Init
    <2> QED
      BY <1>2, <2>1, <2>2 DEF TypeOK
  <1>4. NumbersInOrder
    BY <1>2, ConfigAssumption DEF Init, NumbersInOrder, Turns
  <1>5. OpenTurnIsActive
    BY <1>2 DEF Init, OpenTurnIsActive
  <1> QED
    BY <1>3, <1>4, <1>5 DEF IInv

\* A press, a release or a tick that is ignored leaves the turns alone.
LEMMA IgnoreKeeps == IInv /\ Ignore => IInv' /\ outcome' = outcome
  <1> SUFFICES ASSUME IInv, Ignore PROVE IInv' /\ outcome' = outcome
    OBVIOUS
  <1>1. activeSequence \in 0..MaxTurns /\ outcome \in [Turns -> Outcomes]
    BY DEF IInv, TypeOK
  <1>2. event' \in Events /\ outcome' = outcome
    BY <1>1, PublishedOutcome DEF Ignore, EventTypes
  <1> QED
    BY <1>2 DEF Ignore, IInv, TypeOK, NumbersInOrder, OpenTurnIsActive

\* A new turn takes the next number and is the only open one.
LEMMA BeginStartedKeeps ==
    IInv /\ BeginStarted =>
        /\ IInv'
        /\ outcome'[nextSequence] = "open"
        /\ \A m \in Turns : m # nextSequence => outcome'[m] = outcome[m]
  <1> SUFFICES ASSUME IInv, BeginStarted
               PROVE  /\ IInv'
                      /\ outcome'[nextSequence] = "open"
                      /\ \A m \in Turns : m # nextSequence => outcome'[m] = outcome[m]
    OBVIOUS
  <1>1. nextSequence \in Turns /\ nextSequence \in 0..MaxTurns
    BY ConfigAssumption DEF IInv, TypeOK, BeginStarted, Turns
  <1>2. /\ event' \in Events
        /\ outcome' \in [Turns -> Outcomes]
        /\ \A m \in Turns : m # nextSequence => outcome'[m] = outcome[m]
        /\ outcome'[nextSequence] = OutcomeOf("Started")
    BY <1>1, PublishedOutcome DEF BeginStarted, IInv, TypeOK, EventTypes, Turns
  <1>3. outcome'[nextSequence] = "open"
    BY <1>2 DEF OutcomeOf
  <1>4. TypeOK'
    BY <1>1, <1>2, ConfigAssumption, MaxAgeType
       DEF IInv, TypeOK, BeginStarted, States
  <1>5. NumbersInOrder'
    BY <1>1, <1>2, <1>3, ConfigAssumption
       DEF IInv, TypeOK, NumbersInOrder, BeginStarted, Turns
  <1>6. OpenTurnIsActive'
    BY <1>1, <1>2, <1>3 DEF IInv, OpenTurnIsActive, BeginStarted
  <1> QED
    BY <1>2, <1>3, <1>4, <1>5, <1>6 DEF IInv

\* A controller that could not open the device has no turn to speak of.
LEMMA BeginFailedKeeps == IInv /\ BeginFailed => IInv' /\ outcome' = outcome
  <1> SUFFICES ASSUME IInv, BeginFailed PROVE IInv' /\ outcome' = outcome
    OBVIOUS
  <1>1. activeSequence = 0 /\ 0 \in 0..MaxTurns /\ outcome \in [Turns -> Outcomes]
    BY ConfigAssumption DEF IInv, TypeOK, NumbersInOrder, BeginFailed
  <1>2. event' \in Events /\ outcome' = outcome
    BY <1>1, PublishedOutcome DEF BeginFailed, EventTypes
  <1> QED
    BY <1>2 DEF BeginFailed, IInv, TypeOK, States, NumbersInOrder, OpenTurnIsActive

\* Finishing, or failing to, settles the recorded turn and no other.
LEMMA FinishKeeps ==
    IInv /\ state = "Recording" /\ (Finish \/ FinishFailed) =>
        /\ IInv'
        /\ activeSequence \in Turns
        /\ outcome[activeSequence] = "open"
        /\ outcome'[activeSequence] \in {"ready", "cancelled", "error"}
        /\ \A m \in Turns : m # activeSequence => outcome'[m] = outcome[m]
  <1> SUFFICES ASSUME IInv, state = "Recording", Finish \/ FinishFailed
               PROVE  /\ IInv'
                      /\ activeSequence \in Turns
                      /\ outcome[activeSequence] = "open"
                      /\ outcome'[activeSequence] \in {"ready", "cancelled", "error"}
                      /\ \A m \in Turns : m # activeSequence => outcome'[m] = outcome[m]
    OBVIOUS
  <1> DEFINE type == IF state' = "Faulted" THEN "Error"
                     ELSE IF age < MinTransmission THEN "Cancelled"
                     ELSE "TransmissionReady"
  <1>1. /\ activeSequence \in Turns
        /\ activeSequence \in 0..MaxTurns /\ activeSequence # 0
        /\ activeSequence = nextSequence - 1
        /\ outcome \in [Turns -> Outcomes]
        /\ outcome[activeSequence] = "open"
    BY ConfigAssumption DEF IInv, TypeOK, NumbersInOrder, OpenTurnIsActive, Turns
  <1>2. Publish(type, activeSequence) /\ type \in {"Error", "Cancelled", "TransmissionReady"}
    BY DEF Finish, FinishFailed
  <1>3. type \in EventTypes /\ type # "Ignored"
    BY <1>2 DEF EventTypes
  <1>4. OutcomeOf(type) \in {"ready", "cancelled", "error"}
    BY DEF OutcomeOf
  <1> HIDE DEF type
  <1>5. /\ event' \in Events
        /\ outcome' \in [Turns -> Outcomes]
        /\ outcome'[activeSequence] \in {"ready", "cancelled", "error"}
        /\ \A m \in Turns : m # activeSequence => outcome'[m] = outcome[m]
    BY <1>1, <1>2, <1>3, <1>4, PublishedOutcome
  <1>6. nextSequence' = nextSequence /\ state' \in {"Idle", "Faulted"}
        /\ (state' = "Idle" => activeSequence' = 0)
    BY DEF Finish, FinishFailed
  <1>7. TypeOK'
    <2>1. /\ state' \in States /\ activeSequence' \in 0..MaxTurns
          /\ nextSequence' \in 1..(MaxTurns + 1) /\ age' \in 0..MaxAge
      BY <1>6, ConfigAssumption, MaxAgeType
         DEF IInv, TypeOK, Finish, FinishFailed, States
    <2>2. microphone' \in BOOLEAN
      BY Zenon DEF Finish, FinishFailed
    <2> QED
      BY <1>5, <2>1, <2>2 DEF TypeOK
  <1>8. NumbersInOrder'
    BY <1>1, <1>5, <1>6 DEF IInv, TypeOK, NumbersInOrder, Turns
  <1>9. OpenTurnIsActive'
    BY <1>1, <1>5, <1>6 DEF IInv, OpenTurnIsActive
  <1> QED
    BY <1>1, <1>5, <1>7, <1>8, <1>9 DEF IInv

\* Resetting a fault and the passing of time publish nothing.
LEMMA QuietStepsKeep ==
    IInv /\ (ResetFault \/ Elapse \/ UNCHANGED vars) => IInv' /\ outcome' = outcome
  <1> SUFFICES ASSUME IInv, ResetFault \/ Elapse \/ UNCHANGED vars
               PROVE  IInv' /\ outcome' = outcome
    OBVIOUS
  <1>1. CASE ResetFault
    BY <1>1, ConfigAssumption, MaxAgeType
       DEF ResetFault, IInv, TypeOK, States, NumbersInOrder, OpenTurnIsActive
  <1>2. CASE Elapse
    BY <1>2, MaxAgeType
       DEF Elapse, IInv, TypeOK, NumbersInOrder, OpenTurnIsActive
  <1>3. CASE UNCHANGED vars
    BY <1>3 DEF vars, IInv, TypeOK, NumbersInOrder, OpenTurnIsActive
  <1> QED
    BY <1>1, <1>2, <1>3

\* Every step keeps the invariant.
LEMMA StepInvariant == IInv /\ [Next]_vars => IInv'
  <1> SUFFICES ASSUME IInv, [Next]_vars PROVE IInv'
    OBVIOUS
  <1>1. CASE BeginIgnored \/ EndIgnored
    BY <1>1, IgnoreKeeps DEF BeginIgnored, EndIgnored
  <1>2. CASE BeginStarted
    BY <1>2, BeginStartedKeeps
  <1>3. CASE BeginFailed
    BY <1>3, BeginFailedKeeps
  <1>4. CASE EndFinishes \/ TickFinishes
    BY <1>4, FinishKeeps DEF EndFinishes, TickFinishes, TickDue
  <1>5. CASE ResetFault \/ Elapse \/ UNCHANGED vars
    BY <1>5, QuietStepsKeep
  <1> QED
    BY <1>1, <1>2, <1>3, <1>4, <1>5 DEF Next, CommandBegin, CommandEnd

\* The invariant holds throughout.
LEMMA Invariance == Spec => []IInv
  BY InitInvariant, StepInvariant, PTL DEF Spec

\* Whatever the limits, every variable keeps its type: the sequence numbers stay
\* within one of the turns begun (push_to_talk_controller.cpp).
THEOREM TypeCorrect == Spec => []TypeOK
  BY Invariance, PTL DEF IInv

\* Whatever the limits and however presses, releases, ticks and faults
\* interleave, the events published leave the recorded turn open and no other.
THEOREM OpenTurn == Spec => []OpenTurnIsActive
  BY Invariance, PTL DEF IInv
----------------------------------------------------------------------------
\* One step never changes its mind about a turn that is over, and opens turns
\* in the order of their numbers.
OutcomeStep ==
    \A n \in Turns :
         /\ outcome[n] \in {"ready", "cancelled", "error"} => outcome'[n] = outcome[n]
         /\ outcome[n] = "none" /\ outcome'[n] # "none" =>
              /\ outcome'[n] = "open"
              /\ \A m \in Turns : m < n => outcome'[m] \notin {"none", "open"}

\* Every step from a state of the invariant is such a step.
LEMMA StepOutcome == IInv /\ [Next]_vars => OutcomeStep
  <1> SUFFICES ASSUME IInv, [Next]_vars PROVE OutcomeStep
    OBVIOUS
  <1>1. ASSUME outcome' = outcome PROVE OutcomeStep
    BY <1>1 DEF OutcomeStep
  <1>2. CASE BeginStarted
    <2>1. /\ nextSequence \in Nat
          /\ outcome[nextSequence] = "none"
          /\ outcome'[nextSequence] = "open"
          /\ \A m \in Turns : m # nextSequence => outcome'[m] = outcome[m]
      BY <1>2, BeginStartedKeeps, ConfigAssumption
         DEF IInv, TypeOK, NumbersInOrder, BeginStarted, Turns
    <2>2. \A m \in Turns : m < nextSequence => outcome[m] \notin {"none", "open"}
      BY <1>2 DEF IInv, TypeOK, NumbersInOrder, OpenTurnIsActive, BeginStarted, Turns
    <2> QED
      BY <2>1, <2>2 DEF OutcomeStep, Turns
  <1>3. CASE EndFinishes \/ TickFinishes
    <2>1. /\ activeSequence \in Turns
          /\ outcome[activeSequence] = "open"
          /\ \A m \in Turns : m # activeSequence => outcome'[m] = outcome[m]
      BY <1>3, FinishKeeps DEF EndFinishes, TickFinishes, TickDue
    <2> QED
      BY <2>1 DEF OutcomeStep
  <1>4. CASE BeginIgnored \/ EndIgnored
    BY <1>1, <1>4, IgnoreKeeps DEF BeginIgnored, EndIgnored
  <1>5. CASE BeginFailed
    BY <1>1, <1>5, BeginFailedKeeps
  <1>6. CASE ResetFault \/ Elapse \/ UNCHANGED vars
    BY <1>1, <1>6, QuietStepsKeep
  <1> QED
    BY <1>2, <1>3, <1>4, <1>5, <1>6 DEF Next, CommandBegin, CommandEnd

\* A turn's outcome is decided once and turns are opened in order, for every
\* configuration and any number of turns.
THEOREM OutcomeDecidedOnce == Spec => OutcomeIsFinal
  <1>1. IInv /\ [Next]_vars =>
          [\A n \in Turns :
             /\ outcome[n] \in {"ready", "cancelled", "error"} => outcome'[n] = outcome[n]
             /\ outcome[n] = "none" /\ outcome'[n] # "none" =>
                  /\ outcome'[n] = "open"
                  /\ \A m \in Turns : m < n => outcome'[m] \notin {"none", "open"}]_vars
    BY StepOutcome DEF OutcomeStep
  <1> QED
    BY <1>1, Invariance, PTL DEF Spec, OutcomeIsFinal
----------------------------------------------------------------------------
\* A recorder that failed to stop has its turn marked as an error.
LEMMA FailureIsReported ==
    ASSUME IInv, state = "Recording", FinishFailed
    PROVE  \E n \in Turns : outcome'[n] = "error"
  <1>1. /\ activeSequence \in Turns /\ activeSequence \in 0..MaxTurns
        /\ activeSequence # 0 /\ outcome \in [Turns -> Outcomes]
    BY ConfigAssumption DEF IInv, TypeOK, NumbersInOrder, Turns
  <1>2. Publish("Error", activeSequence) /\ "Error" \in EventTypes
    BY DEF FinishFailed, EventTypes
  <1>3. outcome'[activeSequence] = OutcomeOf("Error")
    BY <1>1, <1>2, PublishedOutcome
  <1> QED
    BY <1>1, <1>3 DEF OutcomeOf

\* Whatever a step does with the device, it leaves it open only for a turn that
\* is being recorded or behind an error that was published.
LEMMA StepMicrophone ==
    IInv /\ OpenMicrophoneIsAccountedFor /\ [Next]_vars =>
        OpenMicrophoneIsAccountedFor'
  <1> SUFFICES ASSUME IInv, OpenMicrophoneIsAccountedFor, [Next]_vars
               PROVE  OpenMicrophoneIsAccountedFor'
    OBVIOUS
  <1>1. ASSUME microphone' = microphone, outcome' = outcome,
               state = "Recording" => state' = "Recording"
        PROVE  OpenMicrophoneIsAccountedFor'
    BY <1>1 DEF OpenMicrophoneIsAccountedFor
  <1>2. CASE BeginStarted
    BY <1>2 DEF BeginStarted, OpenMicrophoneIsAccountedFor
  <1>3. CASE EndFinishes \/ TickFinishes
    <2>1. state = "Recording" /\ (Finish \/ FinishFailed)
      BY <1>3 DEF EndFinishes, TickFinishes, TickDue
    <2>2. CASE Finish
      BY <2>2 DEF Finish, OpenMicrophoneIsAccountedFor
    <2>3. CASE FinishFailed
      BY <2>1, <2>3, FailureIsReported DEF OpenMicrophoneIsAccountedFor
    <2> QED
      BY <2>1, <2>2, <2>3
  <1>4. CASE BeginIgnored \/ EndIgnored
    BY <1>1, <1>4, IgnoreKeeps DEF BeginIgnored, EndIgnored, Ignore
  <1>5. CASE BeginFailed
    BY <1>1, <1>5, BeginFailedKeeps DEF BeginFailed
  <1>6. CASE ResetFault \/ Elapse \/ UNCHANGED vars
    BY <1>1, <1>6, QuietStepsKeep DEF ResetFault, Elapse, vars
  <1> QED
    BY <1>2, <1>3, <1>4, <1>5, <1>6 DEF Next, CommandBegin, CommandEnd

\* The microphone is never left open behind a controller that reported all its
\* turns as finished, for every configuration.
THEOREM MicrophoneAccounted == Spec => []OpenMicrophoneIsAccountedFor
  <1>1. Init => OpenMicrophoneIsAccountedFor
    BY DEF Init, OpenMicrophoneIsAccountedFor
  <1> QED
    BY <1>1, Invariance, StepMicrophone, PTL DEF Spec
-----------------------------------------------------------------------------
(* The controller and the sink together. *)

Frames == [type : {"text", "audio_start", "audio_cancel", "transcript"},
           sequence : 0..MaxTurns]

SinkTypes ==
    /\ queue \in Seq(Sink!Messages) /\ held \in Sink!Messages
    /\ transcriptions \in Seq(Turns) /\ hearing \in 0..MaxTurns
    /\ wire \in Seq(Frames)
    /\ worker \in {"waiting", "holding", "cancelling", "exited"}
    /\ recogniser \in {"absent", "warming", "waiting", "hearing", "exited"}

\* What the two threads hold fits where they are.
ThreadsFit ==
    /\ worker \in {"waiting", "exited"} => held = Sink!NoMessage
    /\ worker = "cancelling" => held.type = "TransmissionReady"
    /\ recogniser = "hearing" <=> hearing # 0

Holds(q, S) == \E i \in 1..Len(q) : q[i] \in S
Once(q, S)  == \A i, j \in 1..Len(q) : q[i] \in S /\ q[j] \in S => i = j

OpenOf(n)    == [type : {"Started"}, sequence : {n}]
OpeningOf(n) == [type : {"audio_start"}, sequence : {n}]

Places(n) ==
    One(Holds(queue, CloseOf(n))) + One(held \in CloseOf(n))
      + One(Holds(transcriptions, {n})) + One(hearing = n)
      + One(Holds(wire, ClosingOf(n))) + One(<<"close", n>> \in missing)

\* Each stage holds the close of a turn at most once, and one stage does just
\* when the turn is over.
OnePlace(n) ==
    /\ Once(queue, CloseOf(n)) /\ Once(transcriptions, {n}) /\ Once(wire, ClosingOf(n))
    /\ Places(n) = One(outcome[n] \in Decided)

InOnePlace == \A n \in Turns : OnePlace(n)

\* The turns that were long enough, at each stage on their way to the console.
ReadyTurns == {n \in Turns : outcome[n] = "ready"}
\* The number of one message, when it is of a type, and those of a queue.
NumberOf(m, type) == IF m.type = type THEN {m.sequence} ELSE {}
Numbers(q, type)  == {q[i].sequence : i \in {j \in 1..Len(q) : q[j].type = type}}
Values(q)         == {q[i] : i \in 1..Len(q)}

Queued      == Numbers(queue, "TransmissionReady")
Taken       == NumberOf(held, "TransmissionReady")
Backlog     == Values(transcriptions)
Heard       == {hearing} \ {0}
Transcribed == Numbers(wire, "transcript")

Rising(q, type) ==
    \A i, j \in 1..Len(q) :
        i < j /\ q[i].type = type /\ q[j].type = type => q[i].sequence < q[j].sequence
Ascends(q) == \A i, j \in 1..Len(q) : i < j => q[i] < q[j]
Parts(A, B, C) == A = B \union C     \* folded, so that lemmas can be matched
Ahead(A, B) == \A a \in A, b \in B : a < b

AllReady == /\ Queued \subseteq ReadyTurns /\ Taken \subseteq ReadyTurns
            /\ Backlog \subseteq ReadyTurns /\ Heard \subseteq ReadyTurns
            /\ Transcribed \subseteq ReadyTurns

EachRises == /\ Rising(queue, "TransmissionReady") /\ Ascends(transcriptions)
             /\ Rising(wire, "transcript")

OneBehindTheOther ==
    /\ Ahead(Transcribed, Heard) /\ Ahead(Transcribed, Backlog)
    /\ Ahead(Transcribed, Taken) /\ Ahead(Transcribed, Queued)
    /\ Ahead(Heard, Backlog) /\ Ahead(Heard, Taken) /\ Ahead(Heard, Queued)
    /\ Ahead(Backlog, Taken) /\ Ahead(Backlog, Queued)
    /\ Ahead(Taken, Queued)

InOrder == AllReady /\ EachRises /\ OneBehindTheOther

SInv == IInv /\ SinkTypes /\ ThreadsFit /\ InOnePlace /\ InOrder
-----------------------------------------------------------------------------
\* q is the values of a followed by those of b.
Split(q, a, b) ==
    /\ Len(a) \in Nat /\ Len(b) \in Nat /\ Len(q) = Len(a) + Len(b)
    /\ \A i \in 1..Len(a) : q[i] = a[i]
    /\ \A i \in 1..Len(b) : q[Len(a) + i] = b[i]

\* An index of q is one of a, or one of b behind the length of a.
LEMMA SplitIndex ==
    ASSUME NEW q, NEW a, NEW b, Split(q, a, b)
    PROVE  /\ \A i \in 1..Len(a) : i \in 1..Len(q) /\ q[i] = a[i]
           /\ \A i \in 1..Len(b) : Len(a) + i \in 1..Len(q) /\ q[Len(a) + i] = b[i]
           /\ \A i \in 1..Len(q) : i \in 1..Len(a) \/ i - Len(a) \in 1..Len(b)
           /\ \A i \in 1..Len(q) : i - Len(a) \in 1..Len(b) => q[i] = b[i - Len(a)]
  <1>1. \A i \in 1..Len(q) : i - Len(a) \in 1..Len(b) => Len(a) + (i - Len(a)) = i
    BY DEF Split
  <1> QED
    BY <1>1 DEF Split

\* What is in q is in a or in b.
LEMMA SplitHolds ==
    ASSUME NEW q, NEW a, NEW b, NEW S, Split(q, a, b)
    PROVE  Holds(q, S) <=> Holds(a, S) \/ Holds(b, S)
  <1>1. ASSUME Holds(q, S) PROVE Holds(a, S) \/ Holds(b, S)
    <2>1. PICK i \in 1..Len(q) : q[i] \in S
      BY <1>1 DEF Holds
    <2>2. CASE i \in 1..Len(a)
      BY <2>1, <2>2, SplitIndex DEF Holds
    <2>3. CASE i - Len(a) \in 1..Len(b)
      <3>1. b[i - Len(a)] \in S
        BY <2>1, <2>3, SplitIndex
      <3> QED
        BY <2>3, <3>1 DEF Holds
    <2> QED
      BY <2>2, <2>3, SplitIndex
  <1>2. ASSUME Holds(a, S) \/ Holds(b, S) PROVE Holds(q, S)
    BY <1>2, SplitIndex DEF Holds
  <1> QED
    BY <1>1, <1>2

\* What is in q once is once in one of a and b.
LEMMA SplitOnce ==
    ASSUME NEW q, NEW a, NEW b, NEW S, Split(q, a, b)
    PROVE  Once(q, S) <=> Once(a, S) /\ Once(b, S) /\ ~(Holds(a, S) /\ Holds(b, S))
  <1>0. Len(a) \in Nat /\ Len(b) \in Nat /\ Len(q) = Len(a) + Len(b)
    BY DEF Split
  <1>1. ASSUME Once(q, S) PROVE Once(a, S) /\ Once(b, S) /\ ~(Holds(a, S) /\ Holds(b, S))
    <2>1. Once(a, S)
      BY <1>1, SplitIndex DEF Once
    <2>2. Once(b, S)
      <3> SUFFICES ASSUME NEW i \in 1..Len(b), NEW j \in 1..Len(b), b[i] \in S, b[j] \in S
                   PROVE  i = j
        BY DEF Once
      <3>1. /\ Len(a) + i \in 1..Len(q) /\ q[Len(a) + i] \in S
            /\ Len(a) + j \in 1..Len(q) /\ q[Len(a) + j] \in S
        BY SplitIndex
      <3>2. Len(a) + i = Len(a) + j
        BY <1>1, <3>1 DEF Once
      <3> QED
        BY <1>0, <3>2
    <2>3. ASSUME Holds(a, S), Holds(b, S) PROVE FALSE
      <3>1. PICK i \in 1..Len(a) : a[i] \in S
        BY <2>3 DEF Holds
      <3>2. PICK j \in 1..Len(b) : b[j] \in S
        BY <2>3 DEF Holds
      <3>3. i \in 1..Len(q) /\ q[i] \in S
            /\ Len(a) + j \in 1..Len(q) /\ q[Len(a) + j] \in S
        BY <3>1, <3>2, SplitIndex
      <3>4. i = Len(a) + j
        BY <1>1, <3>3 DEF Once
      <3> QED
        BY <1>0, <3>4
    <2> QED
      BY <2>1, <2>2, <2>3
  <1>2. ASSUME Once(a, S), Once(b, S), ~(Holds(a, S) /\ Holds(b, S)) PROVE Once(q, S)
    <2> SUFFICES ASSUME NEW i \in 1..Len(q), NEW j \in 1..Len(q), q[i] \in S, q[j] \in S
                 PROVE  i = j
      BY DEF Once
    <2>1. CASE i \in 1..Len(a) /\ j \in 1..Len(a)
      BY <1>2, <2>1, SplitIndex DEF Once
    <2>2. CASE i - Len(a) \in 1..Len(b) /\ j - Len(a) \in 1..Len(b)
      <3>1. b[i - Len(a)] \in S /\ b[j - Len(a)] \in S
        BY <2>2, SplitIndex
      <3>2. i - Len(a) = j - Len(a)
        BY <1>2, <2>2, <3>1 DEF Once
      <3> QED
        BY <1>0, <3>2
    <2>3. CASE i \in 1..Len(a) /\ j - Len(a) \in 1..Len(b)
      <3>1. a[i] \in S /\ b[j - Len(a)] \in S
        BY <2>3, SplitIndex
      <3>2. Holds(a, S) /\ Holds(b, S)
        BY <2>3, <3>1 DEF Holds
      <3> QED
        BY <1>2, <3>2
    <2>4. CASE j \in 1..Len(a) /\ i - Len(a) \in 1..Len(b)
      <3>1. a[j] \in S /\ b[i - Len(a)] \in S
        BY <2>4, SplitIndex
      <3>2. Holds(a, S) /\ Holds(b, S)
        BY <2>4, <3>1 DEF Holds
      <3> QED
        BY <1>2, <3>2
    <2> QED
      BY <2>1, <2>2, <2>3, <2>4, SplitIndex
  <1> QED
    BY <1>1, <1>2

\* The numbers in q are those in a and those in b.
LEMMA SplitNumbers ==
    ASSUME NEW q, NEW a, NEW b, NEW type, Split(q, a, b)
    PROVE  Parts(Numbers(q, type), Numbers(a, type), Numbers(b, type))
  <1>1. ASSUME NEW x \in Numbers(q, type) PROVE x \in Numbers(a, type) \union Numbers(b, type)
    <2>1. PICK i \in 1..Len(q) : q[i].type = type /\ x = q[i].sequence
      BY <1>1 DEF Numbers
    <2>2. CASE i \in 1..Len(a)
      BY <2>1, <2>2, SplitIndex DEF Numbers
    <2>3. CASE i - Len(a) \in 1..Len(b)
      <3>1. q[i] = b[i - Len(a)]
        BY <2>3, SplitIndex
      <3> QED
        BY <2>1, <2>3, <3>1 DEF Numbers
    <2> QED
      BY <2>2, <2>3, SplitIndex
  <1>2. ASSUME NEW x \in Numbers(a, type) PROVE x \in Numbers(q, type)
    BY SplitIndex DEF Numbers
  <1>3. ASSUME NEW x \in Numbers(b, type) PROVE x \in Numbers(q, type)
    <2>1. PICK i \in 1..Len(b) : b[i].type = type /\ x = b[i].sequence
      BY <1>3 DEF Numbers
    <2>2. Len(a) + i \in 1..Len(q) /\ q[Len(a) + i] = b[i]
      BY SplitIndex
    <2> QED
      BY <2>1, <2>2 DEF Numbers
  <1> QED
    BY <1>1, <1>2, <1>3 DEF Parts

\* q rises just when a and b do and what is in a is below what is in b.
LEMMA SplitRises ==
    ASSUME NEW q, NEW a, NEW b, NEW type, Split(q, a, b)
    PROVE  Rising(q, type) <=> /\ Rising(a, type) /\ Rising(b, type)
                               /\ Ahead(Numbers(a, type), Numbers(b, type))
  <1>0. Len(a) \in Nat /\ Len(b) \in Nat /\ Len(q) = Len(a) + Len(b)
    BY DEF Split
  <1>1. ASSUME Rising(q, type) PROVE Rising(a, type)
    <2> SUFFICES ASSUME NEW i \in 1..Len(a), NEW j \in 1..Len(a), i < j,
                        a[i].type = type, a[j].type = type
                 PROVE  a[i].sequence < a[j].sequence
      BY DEF Rising
    <2>1. /\ i \in 1..Len(q) /\ q[i] = a[i]
          /\ j \in 1..Len(q) /\ q[j] = a[j]
      BY SplitIndex
    <2> QED
      BY <1>1, <2>1 DEF Rising
  <1>2. ASSUME Rising(q, type) PROVE Rising(b, type)
    <2> SUFFICES ASSUME NEW i \in 1..Len(b), NEW j \in 1..Len(b), i < j,
                        b[i].type = type, b[j].type = type
                 PROVE  b[i].sequence < b[j].sequence
      BY DEF Rising
    <2> DEFINE k == Len(a) + i
               m == Len(a) + j
    <2>1. /\ k \in 1..Len(q) /\ q[k] = b[i]
          /\ m \in 1..Len(q) /\ q[m] = b[j]
      BY SplitIndex
    <2>2. k < m
      BY <1>0
    <2> HIDE DEF k, m
    <2> QED
      BY <1>2, <2>1, <2>2 DEF Rising
  <1>3. ASSUME Rising(q, type) PROVE Ahead(Numbers(a, type), Numbers(b, type))
    <2> SUFFICES ASSUME NEW x \in Numbers(a, type), NEW y \in Numbers(b, type) PROVE x < y
      BY DEF Ahead
    <2>1. PICK i \in 1..Len(a) : a[i].type = type /\ x = a[i].sequence
      BY DEF Numbers
    <2>2. PICK j \in 1..Len(b) : b[j].type = type /\ y = b[j].sequence
      BY DEF Numbers
    <2> DEFINE m == Len(a) + j
    <2>3. /\ i \in 1..Len(q) /\ q[i] = a[i]
          /\ m \in 1..Len(q) /\ q[m] = b[j]
      BY SplitIndex
    <2>4. i < m
      BY <1>0
    <2> HIDE DEF m
    <2> QED
      BY <1>3, <2>1, <2>2, <2>3, <2>4 DEF Rising
  <1>4. ASSUME Rising(a, type), Rising(b, type), Ahead(Numbers(a, type), Numbers(b, type))
        PROVE  Rising(q, type)
    <2> SUFFICES ASSUME NEW i \in 1..Len(q), NEW j \in 1..Len(q), i < j,
                        q[i].type = type, q[j].type = type
                 PROVE  q[i].sequence < q[j].sequence
      BY DEF Rising
    <2> DEFINE k == i - Len(a)
               m == j - Len(a)
    <2>1. /\ i \in 1..Len(a) \/ k \in 1..Len(b)
          /\ j \in 1..Len(a) \/ m \in 1..Len(b)
      BY SplitIndex
    <2>0. /\ i \in 1..Len(a) => q[i] = a[i]
          /\ j \in 1..Len(a) => q[j] = a[j]
          /\ k \in 1..Len(b) => q[i] = b[k]
          /\ m \in 1..Len(b) => q[j] = b[m]
      BY SplitIndex
    <2>2. k < m
      BY <1>0
    <2>3. j \in 1..Len(a) => ~(k \in 1..Len(b))
      BY <1>0
    <2> HIDE DEF k, m
    <2>4. CASE i \in 1..Len(a) /\ j \in 1..Len(a)
      BY <1>4, <2>0, <2>4 DEF Rising
    <2>5. CASE k \in 1..Len(b) /\ m \in 1..Len(b)
      BY <1>4, <2>0, <2>2, <2>5 DEF Rising
    <2>6. CASE i \in 1..Len(a) /\ m \in 1..Len(b)
      <3>1. q[i].sequence \in Numbers(a, type) /\ q[j].sequence \in Numbers(b, type)
        BY <2>0, <2>6 DEF Numbers
      <3> QED
        BY <1>4, <3>1 DEF Ahead
    <2> QED
      BY <2>1, <2>3, <2>4, <2>5, <2>6
  <1> QED
    BY <1>1, <1>2, <1>3, <1>4

\* A sequence of one value.
LEMMA OneValue ==
    ASSUME NEW x, NEW s, s = <<x>>
    PROVE  /\ \A S : Holds(s, S) <=> x \in S
           /\ \A S : Once(s, S)
           /\ \A type : Numbers(s, type) = IF x.type = type THEN {x.sequence} ELSE {}
           /\ \A type : Rising(s, type)
  <1>1. Len(s) = 1 /\ s[1] = x /\ \A i \in 1..Len(s) : i = 1
    OBVIOUS
  <1> QED
    BY <1>1 DEF Holds, Once, Numbers, Rising

LEMMA AppendSplits ==
    ASSUME NEW T, NEW q \in Seq(T), NEW x \in T, NEW p, p = Append(q, x), NEW s, s = <<x>>
    PROVE  p \in Seq(T) /\ Split(p, q, s)
  <1>1. Len(s) = 1 /\ s[1] = x
    OBVIOUS
  <1>2. Len(q) \in Nat /\ Len(p) = Len(q) + 1 /\ p[Len(q) + 1] = x
        /\ (\A i \in 1..Len(q) : p[i] = q[i])
    BY AppendProperties, LenProperties
  <1> QED
    BY <1>1, <1>2, AppendProperties DEF Split

LEMMA FirstSplits ==
    ASSUME NEW T, NEW q \in Seq(T), q # <<>>, NEW x, x = Head(q), NEW p, p = Tail(q),
           NEW s, s = <<x>>
    PROVE  x \in T /\ p \in Seq(T) /\ Split(q, s, p)
  <1>1. Len(s) = 1 /\ s[1] = x
    OBVIOUS
  <1>2. /\ x \in T /\ p \in Seq(T) /\ x = q[1]
        /\ Len(q) \in Nat /\ Len(p) \in Nat /\ Len(q) = 1 + Len(p)
        /\ \A i \in 1..Len(p) : p[i] = q[i + 1]
    BY HeadTailProperties, LenProperties
  <1> QED
    BY <1>1, <1>2 DEF Split

\* Where a value is once it was appended.
Appended(p, q, x, T) == q \in Seq(T) /\ x \in T /\ p = Append(q, x)

LEMMA AppendHolds ==
    ASSUME NEW T, NEW q, NEW x, NEW p, Appended(p, q, x, T), NEW S
    PROVE  /\ Holds(p, S) <=> Holds(q, S) \/ x \in S
           /\ Once(p, S) <=> Once(q, S) /\ ~(Holds(q, S) /\ x \in S)
  <1> DEFINE s == <<x>>
  <1>1. Split(p, q, s) /\ (Holds(s, S) <=> x \in S) /\ Once(s, S)
    BY AppendSplits, OneValue DEF Appended
  <1> HIDE DEF s
  <1>2. Holds(p, S) <=> Holds(q, S) \/ Holds(s, S)
    BY <1>1, SplitHolds
  <1>3. Once(p, S) <=> Once(q, S) /\ Once(s, S) /\ ~(Holds(q, S) /\ Holds(s, S))
    BY <1>1, SplitOnce
  <1> QED
    BY <1>1, <1>2, <1>3

\* Where the values are once the first was taken.
LEMMA FirstHolds ==
    ASSUME NEW T, NEW q \in Seq(T), q # <<>>, NEW x, x = Head(q), NEW p, p = Tail(q), NEW S
    PROVE  /\ Holds(q, S) <=> x \in S \/ Holds(p, S)
           /\ Once(q, S) <=> Once(p, S) /\ ~(x \in S /\ Holds(p, S))
  <1> DEFINE s == <<x>>
  <1>1. Split(q, s, p) /\ (Holds(s, S) <=> x \in S) /\ Once(s, S)
    BY FirstSplits, OneValue
  <1> HIDE DEF s
  <1>2. Holds(q, S) <=> Holds(s, S) \/ Holds(p, S)
    BY <1>1, SplitHolds
  <1>3. Once(q, S) <=> Once(s, S) /\ Once(p, S) /\ ~(Holds(s, S) /\ Holds(p, S))
    BY <1>1, SplitOnce
  <1> QED
    BY <1>1, <1>2, <1>3

\* The same of the numbers and their order.
LEMMA AppendRises ==
    ASSUME NEW T, NEW q \in Seq(T), NEW x \in T, NEW p, p = Append(q, x), NEW type
    PROVE  /\ Parts(Numbers(p, type), Numbers(q, type), NumberOf(x, type))
           /\ Rising(p, type) <=>
                Rising(q, type) /\ Ahead(Numbers(q, type), NumberOf(x, type))
  <1> DEFINE s == <<x>>
  <1>1. Split(p, q, s) /\ Numbers(s, type) = NumberOf(x, type) /\ Rising(s, type)
    BY AppendSplits, OneValue DEF NumberOf
  <1> HIDE DEF s
  <1>2. Parts(Numbers(p, type), Numbers(q, type), Numbers(s, type))
    BY <1>1, SplitNumbers
  <1>3. Rising(p, type) <=>
          Rising(q, type) /\ Rising(s, type) /\ Ahead(Numbers(q, type), Numbers(s, type))
    BY <1>1, SplitRises
  <1> QED
    BY <1>1, <1>2, <1>3

LEMMA FirstRises ==
    ASSUME NEW T, NEW q \in Seq(T), q # <<>>, NEW x, x = Head(q), NEW p, p = Tail(q), NEW type
    PROVE  /\ Parts(Numbers(q, type), NumberOf(x, type), Numbers(p, type))
           /\ Rising(q, type) <=>
                Rising(p, type) /\ Ahead(NumberOf(x, type), Numbers(p, type))
  <1> DEFINE s == <<x>>
  <1>1. Split(q, s, p) /\ Numbers(s, type) = NumberOf(x, type) /\ Rising(s, type)
    BY FirstSplits, OneValue DEF NumberOf
  <1> HIDE DEF s
  <1>2. Parts(Numbers(q, type), Numbers(s, type), Numbers(p, type))
    BY <1>1, SplitNumbers
  <1>3. Rising(q, type) <=>
          Rising(s, type) /\ Rising(p, type) /\ Ahead(Numbers(s, type), Numbers(p, type))
    BY <1>1, SplitRises
  <1> QED
    BY <1>1, <1>2, <1>3

\* The same of the turns waiting for the recogniser.
LEMMA BacklogGrows ==
    ASSUME NEW q \in Seq(Turns), NEW x \in Turns, NEW p, p = Append(q, x), Ascends(q),
           Ahead(Values(q), {x})
    PROVE  /\ Ascends(p)
           /\ Values(p) = Values(q) \union {x}
  <1>1. Len(q) \in Nat /\ Len(p) = Len(q) + 1 /\ p[Len(q) + 1] = x
        /\ (\A i \in 1..Len(q) : p[i] = q[i])
    BY AppendProperties, LenProperties
  <1>2. ASSUME NEW i \in 1..Len(p), NEW j \in 1..Len(p), i < j PROVE p[i] < p[j]
    <2>1. i \in 1..Len(q) /\ p[i] = q[i]
      BY <1>1, <1>2
    <2>2. CASE j = Len(q) + 1
      BY <1>1, <2>1, <2>2 DEF Ahead, Values
    <2>3. CASE j \in 1..Len(q)
      BY <1>1, <1>2, <2>1, <2>3 DEF Ascends
    <2> QED
      BY <1>1, <2>2, <2>3
  <1>3. ASSUME NEW y PROVE y \in Values(p) <=> y \in Values(q) \union {x}
    <2>1. \A i \in 1..Len(p) : i \in 1..Len(q) \/ i = Len(q) + 1
      BY <1>1
    <2>2. Len(q) + 1 \in 1..Len(p) /\ \A i \in 1..Len(q) : i \in 1..Len(p)
      BY <1>1
    <2> QED
      BY <1>1, <2>1, <2>2 DEF Values
  <1> QED
    BY <1>2, <1>3 DEF Ascends

LEMMA BacklogShrinks ==
    ASSUME NEW q \in Seq(Turns), q # <<>>, NEW x, x = Head(q), NEW p, p = Tail(q), Ascends(q)
    PROVE  /\ Ascends(p)
           /\ Ahead({x}, Values(p))
           /\ Values(p) \subseteq Values(q)
           /\ x \in Values(q)
  <1>1. /\ x = q[1] /\ Len(q) \in Nat /\ Len(p) \in Nat /\ Len(q) = 1 + Len(p)
        /\ \A i \in 1..Len(p) : p[i] = q[i + 1]
    BY HeadTailProperties, LenProperties
  <1>2. 1 \in 1..Len(q) /\ \A i \in 1..Len(p) : i + 1 \in 1..Len(q) /\ 1 < i + 1
    BY <1>1
  <1>3. ASSUME NEW i \in 1..Len(p), NEW j \in 1..Len(p), i < j PROVE p[i] < p[j]
    <2>1. i + 1 < j + 1
      BY <1>3
    <2> QED
      BY <1>1, <1>2, <2>1 DEF Ascends
  <1>4. \A i \in 1..Len(p) : x < p[i]
    BY <1>1, <1>2 DEF Ascends
  <1>5. Values(p) \subseteq Values(q)
    BY <1>1, <1>2 DEF Values
  <1> QED
    BY <1>1, <1>2, <1>3, <1>4, <1>5 DEF Ascends, Ahead, Values
-----------------------------------------------------------------------------
(* What the sink does to the close of a turn. *)

\* A push cuts the oldest off and puts the new one behind what is left.
PushIsSplit(q, x, cap, T) ==
    \E lost, kept \in Seq(T) :
      /\ Split(q, lost, kept)
      /\ Sink!Discarded(q, x, cap) = lost
      /\ Sink!PushBounded(q, x, cap) = Append(kept, x)

LEMMA PushSplits ==
    ASSUME NEW T, NEW q \in Seq(T), NEW x \in T, NEW cap \in Nat \ {0}
    PROVE  PushIsSplit(q, x, cap, T)
  <1> DEFINE k == Sink!Excess(q, cap)
             lost == SubSeq(q, 1, k)
             kept == SubSeq(q, k + 1, Len(q))
  <1>1. Len(q) \in Nat
    BY LenProperties
  <1>2. k \in 0..Len(q)
    BY <1>1 DEF Sink!Excess
  <1>3. Sink!Discarded(q, x, cap) = lost /\ Sink!PushBounded(q, x, cap) = Append(kept, x)
    BY DEF Sink!Discarded, Sink!PushBounded
  <1> HIDE DEF k
  <1>4. lost \in Seq(T) /\ Len(lost) = k /\ \A i \in 1..k : lost[i] = q[i]
    BY <1>1, <1>2, SubSeqProperties
  <1>5. kept \in Seq(T) /\ Len(kept) = Len(q) - k /\ \A i \in 1..Len(kept) : kept[i] = q[k + i]
    BY <1>1, <1>2, SubSeqProperties
  <1> HIDE DEF lost, kept
  <1>6. Split(q, lost, kept)
    BY <1>1, <1>2, <1>4, <1>5 DEF Split
  <1> QED
    BY <1>3, <1>4, <1>5, <1>6 DEF PushIsSplit

\* What is lost with a message is the close of its turn just when it is one.
LEMMA LossOfClose ==
    ASSUME NEW m \in Sink!Messages, NEW n \in Turns
    PROVE  <<"close", n>> \in Sink!Loss(m) <=> m \in CloseOf(n)
  <1>1. m = [type |-> m.type, sequence |-> m.sequence] /\ n # 0
    BY ConfigAssumption DEF Sink!Messages, Turns
  <1>2. m \in CloseOf(n) <=> m.type \in {"TransmissionReady", "Cancelled", "Error"} /\ m.sequence = n
    BY <1>1 DEF CloseOf
  <1>3. <<"close", n>> # <<"open", m.sequence>>
    OBVIOUS
  <1> QED
    BY <1>1, <1>2, <1>3 DEF Sink!Loss, Sink!Closes

\* ... and its beginning just when it is that.
LEMMA LossOfOpen ==
    ASSUME NEW m \in Sink!Messages, NEW n \in Turns
    PROVE  <<"open", n>> \in Sink!Loss(m) <=> m \in OpenOf(n)
  <1>1. m = [type |-> m.type, sequence |-> m.sequence]
    BY DEF Sink!Messages
  <1>2. m \in OpenOf(n) <=> m.type = "Started" /\ m.sequence = n
    BY <1>1 DEF OpenOf
  <1>3. <<"open", n>> # <<"close", m.sequence>>
    OBVIOUS
  <1> QED
    BY <1>2, <1>3 DEF Sink!Loss, Sink!Closes

\* What publishing does to the queue and to what is missing.
LEMMA PublishSplits ==
    ASSUME SinkTypes, NEW m \in Sink!Messages, ~stopping, Sink!Publish(m)
    PROVE  \E lost, kept \in Seq(Sink!Messages) :
             /\ Split(queue, lost, kept)
             /\ queue' = Append(kept, m)
             /\ \A n \in Turns :
                  /\ <<"close", n>> \in missing' <=>
                       <<"close", n>> \in missing \/ Holds(lost, CloseOf(n))
                  /\ <<"open", n>> \in missing' <=>
                       <<"open", n>> \in missing \/ Holds(lost, OpenOf(n))
  <1>1. queue \in Seq(Sink!Messages) /\ MaxQueuedMessages \in Nat \ {0}
    BY PushToTalkAssumption DEF SinkTypes
  <1>2. PICK lost, kept \in Seq(Sink!Messages) :
             /\ Split(queue, lost, kept)
             /\ Sink!Discarded(queue, m, MaxQueuedMessages) = lost
             /\ Sink!PushBounded(queue, m, MaxQueuedMessages) = Append(kept, m)
    <2>1. PushIsSplit(queue, m, MaxQueuedMessages, Sink!Messages)
      BY ONLY m \in Sink!Messages, <1>1, PushSplits
    <2> QED
      BY <2>1 DEF PushIsSplit
  <1>3. /\ queue' = Append(kept, m)
        /\ missing' = missing \union UNION {Sink!Loss(x) : x \in Sink!ToSet(lost)}
    BY <1>2 DEF Sink!Publish
  <1>4. Sink!ToSet(lost) = {lost[i] : i \in 1..Len(lost)}
    BY LenProperties DEF Sink!ToSet
  <1>5. ASSUME NEW n \in Turns
        PROVE  <<"close", n>> \in UNION {Sink!Loss(x) : x \in Sink!ToSet(lost)}
                 <=> Holds(lost, CloseOf(n))
    <2>1. \A i \in 1..Len(lost) : lost[i] \in Sink!Messages
      BY ElementOfSeq
    <2>2. \A i \in 1..Len(lost) : <<"close", n>> \in Sink!Loss(lost[i]) <=> lost[i] \in CloseOf(n)
      BY <2>1, LossOfClose
    <2> QED
      BY <1>4, <2>2 DEF Holds
  <1>6. ASSUME NEW n \in Turns
        PROVE  <<"open", n>> \in UNION {Sink!Loss(x) : x \in Sink!ToSet(lost)}
                 <=> Holds(lost, OpenOf(n))
    <2>1. \A i \in 1..Len(lost) : lost[i] \in Sink!Messages
      BY ElementOfSeq
    <2>2. \A i \in 1..Len(lost) : <<"open", n>> \in Sink!Loss(lost[i]) <=> lost[i] \in OpenOf(n)
      BY <2>1, LossOfOpen
    <2> QED
      BY <1>4, <2>2 DEF Holds
  <1> QED
    BY <1>2, <1>3, <1>5, <1>6

\* Publishing the close of an open turn, or what is no close of it, keeps the
\* turn in one place.
LEMMA PublishKeepsPlace ==
    ASSUME SinkTypes, NEW m \in Sink!Messages, ~stopping, Sink!Publish(m),
           NEW n \in Turns, OnePlace(n),
           m \in CloseOf(n) => outcome[n] \notin Decided /\ outcome'[n] \in Decided,
           m \notin CloseOf(n) => (outcome'[n] \in Decided <=> outcome[n] \in Decided)
    PROVE  OnePlace(n)'
  <1>1. PICK lost, kept \in Seq(Sink!Messages) :
             /\ Split(queue, lost, kept)
             /\ queue' = Append(kept, m)
             /\ <<"close", n>> \in missing' <=>
                      <<"close", n>> \in missing \/ Holds(lost, CloseOf(n))
    BY PublishSplits
  <1>2. UNCHANGED <<transcriptions, held, hearing, wire>>
    BY DEF Sink!Publish
  <1> DEFINE S == CloseOf(n)
  <1> HIDE DEF S
  <1>3. /\ Holds(queue, S) <=> Holds(lost, S) \/ Holds(kept, S)
        /\ Once(queue, S) <=> Once(lost, S) /\ Once(kept, S) /\ ~(Holds(lost, S) /\ Holds(kept, S))
    BY <1>1, SplitHolds, SplitOnce
  <1>4. /\ Holds(queue', S) <=> Holds(kept, S) \/ m \in S
        /\ Once(queue', S) <=> Once(kept, S) /\ ~(Holds(kept, S) /\ m \in S)
    <2>1. Appended(queue', kept, m, Sink!Messages)
      BY <1>1 DEF Appended
    <2> QED
      BY ONLY <2>1, AppendHolds
  <1>5. /\ Once(queue, S) /\ Once(transcriptions, {n}) /\ Once(wire, ClosingOf(n))
        /\ One(Holds(queue, S)) + One(held \in S)
             + One(Holds(transcriptions, {n})) + One(hearing = n)
             + One(Holds(wire, ClosingOf(n))) + One(<<"close", n>> \in missing)
               = One(outcome[n] \in Decided)
    BY DEF OnePlace, Places, S
  <1>6. /\ Once(queue', S) /\ Once(transcriptions', {n}) /\ Once(wire', ClosingOf(n))
        /\ One(Holds(queue', S)) + One(held' \in S)
             + One(Holds(transcriptions', {n})) + One(hearing' = n)
             + One(Holds(wire', ClosingOf(n))) + One(<<"close", n>> \in missing')
               = One(outcome'[n] \in Decided)
    <2>1. m \in S => outcome[n] \notin Decided /\ outcome'[n] \in Decided
      BY DEF S
    <2>2. m \notin S => (outcome'[n] \in Decided <=> outcome[n] \in Decided)
      BY DEF S
    <2>3. (<<"close", n>> \in missing') <=> (<<"close", n>> \in missing \/ Holds(lost, S))
      BY <1>1 DEF S
    <2> QED
      BY <1>2, <1>3, <1>4, <1>5, <2>1, <2>2, <2>3 DEF One
  <1> QED
    BY <1>6 DEF OnePlace, Places, S

\* What a step does that leaves a turn's outcome and its close where they are.
LEMMA WorkerTakesKeepsPlace ==
    ASSUME SinkTypes, ThreadsFit, Sink!WorkerTakes, outcome' = outcome,
           NEW n \in Turns, OnePlace(n)
    PROVE  OnePlace(n)'
  <1> DEFINE S == CloseOf(n)
             R == ClosingOf(n)
  <1>1. held \notin S
    BY DEF ThreadsFit, Sink!WorkerTakes, Sink!NoMessage, CloseOf
  <1> HIDE DEF S, R
  <1>2. /\ queue # <<>> /\ held' = Head(queue) /\ queue' = Tail(queue)
        /\ UNCHANGED <<transcriptions, hearing, wire, missing>>
    BY DEF Sink!WorkerTakes
  <1>3. /\ Holds(queue, S) <=> held' \in S \/ Holds(queue', S)
        /\ Once(queue, S) <=> Once(queue', S) /\ ~(held' \in S /\ Holds(queue', S))
    <2>1. queue \in Seq(Sink!Messages)
      BY DEF SinkTypes
    <2> QED
      BY <1>2, <2>1, FirstHolds
  <1>4. /\ Once(queue, S) /\ Once(transcriptions, {n}) /\ Once(wire, R)
        /\ One(Holds(queue, S)) + One(held \in S)
             + One(Holds(transcriptions, {n})) + One(hearing = n)
             + One(Holds(wire, R)) + One(<<"close", n>> \in missing)
               = One(outcome[n] \in Decided)
    BY DEF OnePlace, Places, S, R
  <1>5. /\ Once(queue', S) /\ Once(transcriptions', {n}) /\ Once(wire', R)
        /\ One(Holds(queue', S)) + One(held' \in S)
             + One(Holds(transcriptions', {n})) + One(hearing' = n)
             + One(Holds(wire', R)) + One(<<"close", n>> \in missing')
               = One(outcome'[n] \in Decided)
    BY <1>1, <1>2, <1>3, <1>4 DEF One
  <1> QED
    BY <1>5 DEF OnePlace, Places, S, R

\* What is skipped closes nothing.
LEMMA WorkerSkipsKeepsPlace ==
    ASSUME Sink!WorkerSkips, outcome' = outcome, NEW n \in Turns, OnePlace(n)
    PROVE  OnePlace(n)'
  <1>1. held \notin CloseOf(n) /\ held' \notin CloseOf(n)
    BY ConfigAssumption DEF Sink!WorkerSkips, Sink!NoMessage, CloseOf, Turns
  <1>2. UNCHANGED <<queue, transcriptions, hearing, wire, missing>>
    BY DEF Sink!WorkerSkips
  <1> QED
    BY <1>1, <1>2 DEF OnePlace, Places, One

\* The frame sent for a message closes the turn the message closes.
LEMMA FrameCloses ==
    ASSUME SinkTypes, ThreadsFit, Sink!WorkerSends
    PROVE  /\ Sink!FrameOf(held) \in Frames
           /\ \A n \in Turns : Sink!FrameOf(held) \in ClosingOf(n) <=> held \in CloseOf(n)
           /\ Sink!FrameOf(held).type # "transcript"
  <1> DEFINE type == held.type
             f == Sink!FrameOf(held)
  <1>1. held \in Sink!Messages /\ held = [type |-> type, sequence |-> held.sequence]
        /\ held.sequence \in 0..MaxTurns
    BY DEF SinkTypes, Sink!Messages
  <1>2. type \in {"Text", "Started", "Cancelled", "Error", "TransmissionReady"}
    BY DEF Sink!WorkerSends, Sink!WorkerSending, ThreadsFit
  <1>3. /\ f = [type |-> f.type, sequence |-> held.sequence]
        /\ f.type = IF type = "Text" THEN "text"
                    ELSE IF type = "Started" THEN "audio_start" ELSE "audio_cancel"
    BY <1>2 DEF Sink!FrameOf, Sink!Frame
  <1> HIDE DEF type, f
  <1>4. f \in Frames
    BY <1>1, <1>3 DEF Frames
  <1>5. ASSUME NEW n \in Turns PROVE f \in ClosingOf(n) <=> held \in CloseOf(n)
    <2>1. f \in ClosingOf(n) <=> f.type \in {"audio_cancel", "transcript"} /\ held.sequence = n
      BY <1>3 DEF ClosingOf
    <2>2. held \in CloseOf(n) <=>
            type \in {"TransmissionReady", "Cancelled", "Error"} /\ held.sequence = n
      BY <1>1 DEF CloseOf
    <2> QED
      BY <1>2, <1>3, <2>1, <2>2
  <1> QED
    BY <1>3, <1>4, <1>5 DEF f

\* A close that is sent is on the wire or missing.
LEMMA SendKeepsPlace ==
    ASSUME NEW f \in Frames, NEW loss, NEW n \in Turns, wire \in Seq(Frames), Sink!Send(f, loss),
           ~Holds(wire, ClosingOf(n)) \/ f \notin ClosingOf(n),
           f \in ClosingOf(n) <=> <<"close", n>> \in loss,
           Once(wire, ClosingOf(n)),
           f \in ClosingOf(n) => <<"close", n>> \notin missing
    PROVE  /\ Once(wire', ClosingOf(n))
           /\ One(Holds(wire', ClosingOf(n))) + One(<<"close", n>> \in missing') =
                One(Holds(wire, ClosingOf(n))) + One(<<"close", n>> \in missing)
                  + One(f \in ClosingOf(n))
  <1> DEFINE R == ClosingOf(n)
             c == <<"close", n>>
  <1> HIDE DEF R, c
  <1>1. CASE wire' = Append(wire, f) /\ missing' = missing
    <2>1. /\ Holds(wire', R) <=> Holds(wire, R) \/ f \in R
          /\ Once(wire', R) <=> Once(wire, R) /\ ~(Holds(wire, R) /\ f \in R)
      <3>1. Appended(wire', wire, f, Frames)
        BY <1>1 DEF Appended
      <3> QED
        BY ONLY <3>1, AppendHolds
    <2> QED
      BY <1>1, <2>1 DEF One, R
  <1>2. CASE missing' = missing \union loss /\ wire' = wire
    <2>1. c \in missing' <=> c \in missing \/ f \in R
      BY <1>2 DEF R, c
    <2> QED
      BY <1>2, <2>1 DEF One, R, c
  <1> QED
    BY <1>1, <1>2 DEF Sink!Send

LEMMA WorkerSendsKeepsPlace ==
    ASSUME SinkTypes, ThreadsFit, Sink!WorkerSends, outcome' = outcome,
           NEW n \in Turns, OnePlace(n)
    PROVE  OnePlace(n)'
  <1> DEFINE S == CloseOf(n)
             R == ClosingOf(n)
             f == Sink!FrameOf(held)
             c == <<"close", n>>
  <1>1. held' \notin S
    BY DEF Sink!WorkerSends, Sink!NoMessage, CloseOf
  <1>2. f \in Frames /\ (f \in R <=> held \in S)
    BY FrameCloses
  <1>3. c \in Sink!Loss(held) <=> held \in S
    BY LossOfClose DEF SinkTypes
  <1>4. Sink!Send(f, Sink!Loss(held)) /\ wire \in Seq(Frames)
        /\ UNCHANGED <<queue, transcriptions, hearing>>
    BY DEF Sink!WorkerSends, SinkTypes
  <1>5. /\ Once(queue, S) /\ Once(transcriptions, {n}) /\ Once(wire, R)
        /\ One(Holds(queue, S)) + One(held \in S)
             + One(Holds(transcriptions, {n})) + One(hearing = n)
             + One(Holds(wire, R)) + One(c \in missing)
               = One(outcome[n] \in Decided)
    BY DEF OnePlace, Places
  <1> HIDE DEF f
  <1>6. held \in S => ~Holds(wire, R) /\ c \notin missing
    <2> HIDE DEF S, R, c
    <2> QED
      BY <1>5 DEF One
  <1>7. /\ Once(wire', R)
        /\ One(Holds(wire', R)) + One(c \in missing') =
             One(Holds(wire, R)) + One(c \in missing) + One(f \in R)
    BY <1>2, <1>3, <1>4, <1>5, <1>6, SendKeepsPlace
  <1> HIDE DEF S, R, c
  <1>8. /\ Once(queue', S) /\ Once(transcriptions', {n}) /\ Once(wire', R)
        /\ One(Holds(queue', S)) + One(held' \in S)
             + One(Holds(transcriptions', {n})) + One(hearing' = n)
             + One(Holds(wire', R)) + One(c \in missing')
               = One(outcome'[n] \in Decided)
    BY <1>1, <1>2, <1>4, <1>5, <1>7 DEF One
  <1> QED
    BY <1>8 DEF OnePlace, Places, S, R, c

\* A turn handed over waits for the recogniser.
LEMMA WorkerTranscribesKeepsPlace ==
    ASSUME SinkTypes, AllReady, Sink!WorkerTranscribes, outcome' = outcome,
           NEW n \in Turns, OnePlace(n)
    PROVE  OnePlace(n)'
  <1> DEFINE S == CloseOf(n)
  <1>1. UNCHANGED <<queue, hearing, wire, missing>>
    BY DEF Sink!WorkerTranscribes
  <1>2. CASE UNCHANGED <<transcriptions, held>>
    BY <1>1, <1>2 DEF OnePlace, Places
  <1>3. CASE transcriptions' = Append(transcriptions, held.sequence) /\ held' = Sink!NoMessage
    <2>1. held.type = "TransmissionReady"
      BY DEF Sink!WorkerTranscribes
    <2>2. held.sequence \in Turns
      BY <2>1 DEF AllReady, Taken, NumberOf, ReadyTurns
    <2>3. held \in S <=> held.sequence = n
      BY <2>1 DEF SinkTypes, Sink!Messages, CloseOf
    <2>4. held' \notin S
      BY <1>3 DEF Sink!NoMessage, CloseOf
    <2>5. /\ Holds(transcriptions', {n}) <=> Holds(transcriptions, {n}) \/ held.sequence \in {n}
          /\ Once(transcriptions', {n}) <=>
               Once(transcriptions, {n}) /\ ~(Holds(transcriptions, {n}) /\ held.sequence \in {n})
      <3> DEFINE x == held.sequence
                 N == {n}
      <3>1. transcriptions \in Seq(Turns) /\ x \in Turns
        BY <2>2 DEF SinkTypes
      <3>2. transcriptions' = Append(transcriptions, x)
        BY <1>3
      <3> HIDE DEF x, N
      <3>3. Appended(transcriptions', transcriptions, x, Turns)
        BY <3>1, <3>2 DEF Appended
      <3>4. /\ Holds(transcriptions', N) <=> Holds(transcriptions, N) \/ x \in N
            /\ Once(transcriptions', N) <=>
                 Once(transcriptions, N) /\ ~(Holds(transcriptions, N) /\ x \in N)
        BY ONLY <3>3, AppendHolds
      <3> QED
        BY <3>4 DEF x, N
    <2>6. /\ Once(queue, S) /\ Once(transcriptions, {n}) /\ Once(wire, ClosingOf(n))
          /\ One(Holds(queue, S)) + One(held \in S)
               + One(Holds(transcriptions, {n})) + One(hearing = n)
               + One(Holds(wire, ClosingOf(n))) + One(<<"close", n>> \in missing)
                 = One(outcome[n] \in Decided)
      BY DEF OnePlace, Places
    <2> HIDE DEF S
    <2>7. /\ Once(queue', S) /\ Once(transcriptions', {n}) /\ Once(wire', ClosingOf(n))
          /\ One(Holds(queue', S)) + One(held' \in S)
               + One(Holds(transcriptions', {n})) + One(hearing' = n)
               + One(Holds(wire', ClosingOf(n))) + One(<<"close", n>> \in missing')
                 = One(outcome'[n] \in Decided)
      BY <1>1, <2>3, <2>4, <2>5, <2>6 DEF One
    <2> QED
      BY <2>7 DEF OnePlace, Places, S
  <1> QED
    BY <1>2, <1>3 DEF Sink!WorkerTranscribes

\* The recogniser takes the turn that waited longest.
LEMMA RecogniserTakesKeepsPlace ==
    ASSUME SinkTypes, ThreadsFit, Sink!RecogniserTakes, outcome' = outcome,
           NEW n \in Turns, OnePlace(n)
    PROVE  OnePlace(n)'
  <1> DEFINE S == {n}
  <1>1. hearing # n
    BY ConfigAssumption DEF ThreadsFit, Sink!RecogniserTakes, Turns
  <1>2. /\ transcriptions # <<>> /\ hearing' = Head(transcriptions)
        /\ transcriptions' = Tail(transcriptions) /\ transcriptions \in Seq(Turns)
        /\ UNCHANGED <<queue, held, wire, missing>>
    BY DEF Sink!RecogniserTakes, SinkTypes
  <1>3. /\ Holds(transcriptions, S) <=> hearing' \in S \/ Holds(transcriptions', S)
        /\ Once(transcriptions, S) <=>
             Once(transcriptions', S) /\ ~(hearing' \in S /\ Holds(transcriptions', S))
    <2> HIDE DEF S
    <2> QED
      BY <1>2, FirstHolds
  <1> QED
    BY <1>1, <1>2, <1>3 DEF OnePlace, Places, One

\* What the recogniser answers closes the turn it heard.
LEMMA RecogniserAnswersKeepsPlace ==
    ASSUME SinkTypes, ThreadsFit, Sink!RecogniserAnswers, outcome' = outcome,
           NEW n \in Turns, OnePlace(n)
    PROVE  OnePlace(n)'
  <1> DEFINE R == ClosingOf(n)
             c == <<"close", n>>
             loss == {<<"close", hearing>>}
  <1>1. PICK type \in {"transcript", "audio_cancel"} : Sink!Send(Sink!Frame(type, hearing), loss)
    BY DEF Sink!RecogniserAnswers
  <1> DEFINE f == Sink!Frame(type, hearing)
  <1>2. f \in Frames /\ wire \in Seq(Frames)
    BY DEF Sink!Frame, Frames, SinkTypes
  <1>3. f \in R <=> hearing = n
    BY DEF Sink!Frame, ClosingOf
  <1>4. c \in loss <=> hearing = n
    OBVIOUS
  <1>5. hearing' # n /\ UNCHANGED <<queue, transcriptions, held>>
    BY ConfigAssumption DEF Sink!RecogniserAnswers, Turns
  <1>6. /\ Once(queue, CloseOf(n)) /\ Once(transcriptions, {n}) /\ Once(wire, R)
        /\ One(Holds(queue, CloseOf(n))) + One(held \in CloseOf(n))
             + One(Holds(transcriptions, {n})) + One(hearing = n)
             + One(Holds(wire, R)) + One(c \in missing)
               = One(outcome[n] \in Decided)
    BY DEF OnePlace, Places
  <1> HIDE DEF f, loss
  <1>7. hearing = n => ~Holds(wire, R) /\ c \notin missing
    <2> HIDE DEF R, c
    <2> QED
      BY <1>6 DEF One
  <1>8. /\ Once(wire', R)
        /\ One(Holds(wire', R)) + One(c \in missing') =
             One(Holds(wire, R)) + One(c \in missing) + One(f \in R)
    <2>1. Sink!Send(f, loss)
      BY <1>1 DEF f
    <2> QED
      BY <1>2, <1>3, <1>4, <1>6, <1>7, <2>1, SendKeepsPlace
  <1> HIDE DEF R, c
  <1>9. /\ Once(queue', CloseOf(n)) /\ Once(transcriptions', {n}) /\ Once(wire', R)
        /\ One(Holds(queue', CloseOf(n))) + One(held' \in CloseOf(n))
             + One(Holds(transcriptions', {n})) + One(hearing' = n)
             + One(Holds(wire', R)) + One(c \in missing')
               = One(outcome'[n] \in Decided)
    BY <1>3, <1>5, <1>6, <1>8 DEF One
  <1> QED
    BY <1>9 DEF OnePlace, Places, R, c
-----------------------------------------------------------------------------
(* The order of what was said, stage by stage. *)

\* Publishing keeps the order: what is cut off is not missed, and a turn that
\* is ready is later than every ready one before.
LEMMA PublishKeepsOrder ==
    ASSUME SinkTypes, InOrder, NEW m \in Sink!Messages, ~stopping, Sink!Publish(m),
           ReadyTurns \subseteq ReadyTurns',
           NumberOf(m, "TransmissionReady") \subseteq ReadyTurns',
           Ahead(ReadyTurns, NumberOf(m, "TransmissionReady"))
    PROVE  InOrder'
  <1> DEFINE ready == "TransmissionReady"
             N == NumberOf(m, ready)
  <1>0. /\ Queued = Numbers(queue, ready) /\ Queued' = Numbers(queue', ready)
        /\ N \subseteq ReadyTurns' /\ Ahead(ReadyTurns, N)
        /\ Rising(queue, ready)
        /\ EachRises' <=> /\ Rising(queue', ready) /\ Ascends(transcriptions')
                          /\ Rising(wire', "transcript")
    BY DEF Queued, InOrder, EachRises
  <1> HIDE DEF ready
  <1>1. PICK lost, kept \in Seq(Sink!Messages) :
             Split(queue, lost, kept) /\ queue' = Append(kept, m)
    BY PublishSplits
  <1>2. UNCHANGED <<transcriptions, held, hearing, wire>>
    BY DEF Sink!Publish
  <1>3. /\ Parts(Queued, Numbers(lost, ready), Numbers(kept, ready))
        /\ Rising(queue, ready) => Rising(kept, ready)
    BY <1>0, <1>1, SplitNumbers, SplitRises
  <1>4. /\ Parts(Queued', Numbers(kept, ready), N)
        /\ Rising(queue', ready) <=> Rising(kept, ready) /\ Ahead(Numbers(kept, ready), N)
    BY <1>0, <1>1, AppendRises
  <1>5. /\ Taken' = Taken /\ Backlog' = Backlog /\ Heard' = Heard
        /\ Transcribed' = Transcribed
    BY <1>2 DEF Taken, Backlog, Heard, Transcribed
  <1>6. Numbers(kept, ready) \subseteq Queued /\ Queued' = Numbers(kept, ready) \union N
    BY <1>3, <1>4 DEF Parts
  <1> DEFINE K == Numbers(kept, ready)
  <1> HIDE DEF N, K
  <1>7. AllReady'
    BY <1>0, <1>5, <1>6 DEF InOrder, AllReady, K
  <1>8. Ahead(K, N)
    BY <1>0, <1>6 DEF InOrder, AllReady, Ahead, K
  <1>9. EachRises'
    BY <1>0, <1>2, <1>3, <1>4, <1>8 DEF InOrder, EachRises, K
  <1>10. \A A : A \subseteq ReadyTurns /\ Ahead(A, Queued) => Ahead(A, K \union N)
    BY <1>0, <1>6 DEF Ahead, K
  <1>11. OneBehindTheOther'
    BY <1>5, <1>6, <1>10 DEF InOrder, AllReady, OneBehindTheOther, K
  <1> QED
    BY <1>7, <1>9, <1>11 DEF InOrder

\* The worker takes the first of the queue, after all that was taken before.
LEMMA WorkerTakesKeepsOrder ==
    ASSUME SinkTypes, ThreadsFit, InOrder, Sink!WorkerTakes, outcome' = outcome
    PROVE  InOrder'
  <1> DEFINE ready == "TransmissionReady"
  <1>1. /\ queue \in Seq(Sink!Messages) /\ queue # <<>>
        /\ held' = Head(queue) /\ queue' = Tail(queue)
        /\ UNCHANGED <<transcriptions, hearing, wire>>
    BY DEF Sink!WorkerTakes, SinkTypes
  <1>2. /\ Parts(Numbers(queue, ready), NumberOf(held', ready), Numbers(queue', ready))
        /\ Rising(queue, ready) <=>
             Rising(queue', ready) /\ Ahead(NumberOf(held', ready), Numbers(queue', ready))
    <2> HIDE DEF ready
    <2> QED
      BY <1>1, FirstRises
  <1>3. Queued = Taken' \union Queued'
    BY <1>2 DEF Queued, Taken, Parts
  <1>4. Rising(queue', ready) /\ Ahead(Taken', Queued')
    BY <1>2 DEF InOrder, EachRises, Queued, Taken
  <1>5. /\ ReadyTurns' = ReadyTurns /\ Backlog' = Backlog /\ Heard' = Heard
        /\ Transcribed' = Transcribed
    BY <1>1 DEF ReadyTurns, Backlog, Heard, Transcribed
  <1>6. AllReady'
    BY <1>3, <1>5 DEF InOrder, AllReady
  <1>7. EachRises'
    BY <1>1, <1>4 DEF InOrder, EachRises
  <1>8. \A A : Ahead(A, Queued) => Ahead(A, Taken') /\ Ahead(A, Queued')
    BY <1>3 DEF Ahead
  <1>9. OneBehindTheOther'
    BY <1>4, <1>5, <1>8 DEF InOrder, OneBehindTheOther
  <1> QED
    BY <1>6, <1>7, <1>9 DEF InOrder

\* A message that is done with leaves what is behind and ahead of it in order.
LEMMA WorkerDoneKeepsOrder ==
    ASSUME SinkTypes, InOrder, outcome' = outcome, held' = Sink!NoMessage,
           UNCHANGED <<queue, transcriptions, hearing>>,
           Transcribed' = Transcribed, Rising(wire', "transcript")
    PROVE  InOrder'
  <1>1. Taken' = {}
    BY DEF Taken, NumberOf, Sink!NoMessage
  <1>2. /\ ReadyTurns' = ReadyTurns /\ Backlog' = Backlog /\ Heard' = Heard
        /\ Queued' = Queued
    BY DEF ReadyTurns, Backlog, Heard, Queued
  <1>3. AllReady' /\ OneBehindTheOther'
    BY <1>1, <1>2 DEF InOrder, AllReady, OneBehindTheOther, Ahead
  <1>4. EachRises'
    BY DEF InOrder, EachRises
  <1> QED
    BY <1>3, <1>4 DEF InOrder

LEMMA WorkerSendsKeepsOrder ==
    ASSUME SinkTypes, ThreadsFit, InOrder, Sink!WorkerSends, outcome' = outcome
    PROVE  InOrder'
  <1> DEFINE f == Sink!FrameOf(held)
  <1>1. f \in Frames /\ f.type # "transcript" /\ wire \in Seq(Frames)
    BY FrameCloses DEF SinkTypes
  <1>2. wire' = wire \/ wire' = Append(wire, f)
    BY DEF Sink!WorkerSends, Sink!Send
  <1>3. held' = Sink!NoMessage /\ UNCHANGED <<queue, transcriptions, hearing>>
    BY DEF Sink!WorkerSends
  <1> HIDE DEF f
  <1>4. Transcribed' = Transcribed /\ Rising(wire', "transcript")
    <2>1. CASE wire' = wire
      BY <2>1 DEF InOrder, EachRises, Transcribed
    <2>2. CASE wire' = Append(wire, f)
      <3>1. NumberOf(f, "transcript") = {}
        BY <1>1 DEF NumberOf
      <3>2. /\ Numbers(wire', "transcript") =
                 Numbers(wire, "transcript") \union NumberOf(f, "transcript")
            /\ Rising(wire', "transcript") <=>
                 /\ Rising(wire, "transcript")
                 /\ Ahead(Numbers(wire, "transcript"), NumberOf(f, "transcript"))
        <4> DEFINE words == "transcript"
        <4> HIDE DEF words
        <4>1. /\ Parts(Numbers(wire', words), Numbers(wire, words), NumberOf(f, words))
              /\ Rising(wire', words) <=>
                   Rising(wire, words) /\ Ahead(Numbers(wire, words), NumberOf(f, words))
          BY <1>1, <2>2, AppendRises
        <4> QED
          BY <4>1 DEF words, Parts
      <3> QED
        BY <3>1, <3>2 DEF InOrder, EachRises, Transcribed, Ahead
    <2> QED
      BY <1>2, <2>1, <2>2
  <1> QED
    BY <1>3, <1>4, WorkerDoneKeepsOrder

\* A turn handed over is behind those that wait.
LEMMA WorkerTranscribesKeepsOrder ==
    ASSUME SinkTypes, InOrder, Sink!WorkerTranscribes, outcome' = outcome
    PROVE  InOrder'
  <1>1. UNCHANGED <<queue, hearing, wire>>
    BY DEF Sink!WorkerTranscribes
  <1>2. /\ ReadyTurns' = ReadyTurns /\ Heard' = Heard /\ Queued' = Queued
        /\ Transcribed' = Transcribed
    BY <1>1 DEF ReadyTurns, Heard, Queued, Transcribed
  <1>3. CASE UNCHANGED <<transcriptions, held>>
    <2>1. Backlog' = Backlog /\ Taken' = Taken
      BY <1>3 DEF Backlog, Taken
    <2> QED
      BY <1>1, <1>2, <1>3, <2>1 DEF InOrder, AllReady, EachRises, OneBehindTheOther
  <1>4. CASE transcriptions' = Append(transcriptions, held.sequence) /\ held' = Sink!NoMessage
    <2> DEFINE x == held.sequence
    <2>1. Taken = {x}
      BY DEF Sink!WorkerTranscribes, Taken, NumberOf
    <2>2. Taken' = {}
      BY <1>4 DEF Taken, NumberOf, Sink!NoMessage
    <2>3. x \in Turns /\ transcriptions \in Seq(Turns)
      BY <2>1 DEF InOrder, AllReady, ReadyTurns, SinkTypes
    <2>4. Ascends(transcriptions) /\ Ahead(Values(transcriptions), {x})
      BY <2>1 DEF InOrder, EachRises, OneBehindTheOther, Backlog
    <2>5. transcriptions' = Append(transcriptions, x)
      BY <1>4
    <2> HIDE DEF x
    <2>6. Ascends(transcriptions') /\ Backlog' = Backlog \union {x}
      BY <2>3, <2>4, <2>5, BacklogGrows DEF Backlog
    <2>7. AllReady'
      BY <1>2, <2>1, <2>2, <2>6 DEF InOrder, AllReady
    <2>8. EachRises'
      BY <1>1, <2>6 DEF InOrder, EachRises
    <2>9. OneBehindTheOther'
      BY <1>2, <2>1, <2>2, <2>6 DEF InOrder, OneBehindTheOther, Ahead
    <2> QED
      BY <2>7, <2>8, <2>9 DEF InOrder
  <1> QED
    BY <1>3, <1>4 DEF Sink!WorkerTranscribes

LEMMA RecogniserTakesKeepsOrder ==
    ASSUME SinkTypes, ThreadsFit, InOrder, Sink!RecogniserTakes, outcome' = outcome
    PROVE  InOrder'
  <1>1. UNCHANGED <<queue, held, wire>>
    BY DEF Sink!RecogniserTakes
  <1>2. /\ ReadyTurns' = ReadyTurns /\ Queued' = Queued /\ Taken' = Taken
        /\ Transcribed' = Transcribed
    BY <1>1 DEF ReadyTurns, Queued, Taken, Transcribed
  <1>3. /\ transcriptions \in Seq(Turns) /\ transcriptions # <<>> /\ Ascends(transcriptions)
        /\ hearing' = Head(transcriptions) /\ transcriptions' = Tail(transcriptions)
    BY DEF Sink!RecogniserTakes, SinkTypes, InOrder, EachRises
  <1>4. /\ Ascends(transcriptions') /\ Ahead({hearing'}, Backlog')
        /\ Backlog' \subseteq Backlog /\ hearing' \in Backlog
    BY <1>3, BacklogShrinks DEF Backlog
  <1>5. Heard' \subseteq {hearing'}
    BY DEF Heard
  <1>6. Heard' \subseteq Backlog
    BY <1>4, <1>5
  <1>7. AllReady'
    BY <1>2, <1>4, <1>6 DEF InOrder, AllReady
  <1>8. EachRises'
    BY <1>1, <1>4 DEF InOrder, EachRises
  <1>9. OneBehindTheOther'
    BY <1>2, <1>4, <1>5, <1>6 DEF InOrder, OneBehindTheOther, Ahead
  <1> QED
    BY <1>7, <1>8, <1>9 DEF InOrder

\* The words of a turn go out behind those of every turn heard before.
LEMMA RecogniserAnswersKeepsOrder ==
    ASSUME SinkTypes, ThreadsFit, InOrder, Sink!RecogniserAnswers, outcome' = outcome
    PROVE  InOrder'
  <1>1. hearing' = 0 /\ hearing # 0 /\ UNCHANGED <<queue, held, transcriptions>>
    BY DEF Sink!RecogniserAnswers, ThreadsFit
  <1>2. /\ ReadyTurns' = ReadyTurns /\ Queued' = Queued /\ Taken' = Taken
        /\ Backlog' = Backlog /\ Heard' = {} /\ Heard = {hearing}
    BY <1>1 DEF ReadyTurns, Queued, Taken, Backlog, Heard
  <1>3. Rising(wire', "transcript") /\ Transcribed' \subseteq Transcribed \union Heard
    <2>1. PICK type \in {"transcript", "audio_cancel"} :
             wire' = wire \/ wire' = Append(wire, Sink!Frame(type, hearing))
      BY DEF Sink!RecogniserAnswers, Sink!Send
    <2> DEFINE f == Sink!Frame(type, hearing)
               N == NumberOf(f, "transcript")
    <2>2. f \in Frames /\ wire \in Seq(Frames)
      BY DEF Sink!Frame, Frames, SinkTypes
    <2>3. N \subseteq Heard
      BY <1>2 DEF NumberOf, Sink!Frame
    <2>4. CASE wire' = wire
      BY <2>4 DEF InOrder, EachRises, Transcribed
    <2>5. CASE wire' = Append(wire, f)
      <3> HIDE DEF f
      <3>1. /\ Numbers(wire', "transcript") = Numbers(wire, "transcript") \union N
            /\ Rising(wire', "transcript") <=>
                 Rising(wire, "transcript") /\ Ahead(Numbers(wire, "transcript"), N)
        <4> DEFINE words == "transcript"
        <4> HIDE DEF words
        <4>1. /\ Parts(Numbers(wire', words), Numbers(wire, words), NumberOf(f, words))
              /\ Rising(wire', words) <=>
                   Rising(wire, words) /\ Ahead(Numbers(wire, words), NumberOf(f, words))
          BY <2>2, <2>5, AppendRises
        <4> QED
          BY <4>1 DEF words, Parts
      <3> HIDE DEF N
      <3> QED
        BY <2>3, <3>1 DEF InOrder, EachRises, OneBehindTheOther, Transcribed, Ahead
    <2> QED
      BY <2>1, <2>4, <2>5
  <1>4. AllReady'
    BY <1>2, <1>3 DEF InOrder, AllReady
  <1>5. EachRises'
    BY <1>1, <1>3 DEF InOrder, EachRises
  <1>6. OneBehindTheOther'
    BY <1>2, <1>3 DEF InOrder, OneBehindTheOther, Ahead
  <1> QED
    BY <1>4, <1>5, <1>6 DEF InOrder
-----------------------------------------------------------------------------
(* The steps of the system. *)

\* The types of the sink are kept by all it does, and so is what its threads hold.
LEMMA PublishKeepsTypes ==
    ASSUME SinkTypes, ThreadsFit, NEW m \in Sink!Messages, Sink!Publish(m)
    PROVE  SinkTypes' /\ ThreadsFit'
  <1>1. UNCHANGED <<transcriptions, worker, held, recogniser, hearing, wire>>
    BY DEF Sink!Publish
  <1>2. queue' \in Seq(Sink!Messages)
    <2>1. CASE queue' = queue
      BY <2>1 DEF SinkTypes
    <2>2. CASE ~stopping
      <3>1. PICK kept \in Seq(Sink!Messages) : queue' = Append(kept, m)
        BY <2>2, PublishSplits
      <3> QED
        BY <3>1, AppendProperties
    <2> QED
      BY <2>1, <2>2 DEF Sink!Publish
  <1> QED
    BY <1>1, <1>2 DEF SinkTypes, ThreadsFit

LEMMA SendKeepsTypes ==
    ASSUME NEW f \in Frames, NEW loss, wire \in Seq(Frames), Sink!Send(f, loss)
    PROVE  wire' \in Seq(Frames)
  BY AppendProperties DEF Sink!Send

LEMMA NoMessageType == Sink!NoMessage \in Sink!Messages
  BY ConfigAssumption DEF Sink!NoMessage, Sink!Messages, Sink!MessageTypes

LEMMA WorkerKeepsTypes ==
    ASSUME SinkTypes, ThreadsFit, AllReady, Sink!WorkerStep
    PROVE  SinkTypes' /\ ThreadsFit'
  <1>1. CASE Sink!WorkerTakes
    <2>1. held' \in Sink!Messages /\ queue' \in Seq(Sink!Messages)
      BY <1>1, HeadTailProperties DEF Sink!WorkerTakes, SinkTypes
    <2> QED
      BY <1>1, <2>1 DEF Sink!WorkerTakes, SinkTypes, ThreadsFit
  <1>2. CASE Sink!WorkerExits
    BY <1>2 DEF Sink!WorkerExits, SinkTypes, ThreadsFit
  <1>3. CASE Sink!WorkerSkips
    BY <1>3, NoMessageType DEF Sink!WorkerSkips, SinkTypes, ThreadsFit
  <1>4. CASE Sink!WorkerSends
    <2>1. wire' \in Seq(Frames)
      <3>1. Sink!FrameOf(held) \in Frames /\ wire \in Seq(Frames)
            /\ Sink!Send(Sink!FrameOf(held), Sink!Loss(held))
        BY <1>4, FrameCloses DEF Sink!WorkerSends, SinkTypes
      <3> QED
        BY <3>1, SendKeepsTypes
    <2> QED
      BY <1>4, <2>1, NoMessageType DEF Sink!WorkerSends, Sink!WorkerSending, SinkTypes, ThreadsFit
  <1>5. CASE Sink!WorkerTranscribes
    <2>1. held.sequence \in Turns
      BY <1>5 DEF Sink!WorkerTranscribes, AllReady, Taken, NumberOf, ReadyTurns
    <2>2. transcriptions' \in Seq(Turns)
      <3>1. \/ transcriptions' = transcriptions
            \/ transcriptions' = Append(transcriptions, held.sequence)
        BY <1>5 DEF Sink!WorkerTranscribes
      <3>2. transcriptions \in Seq(Turns)
        BY DEF SinkTypes
      <3> QED
        BY ONLY <2>1, <3>1, <3>2, AppendProperties
    <2> QED
      BY <1>5, <2>2, NoMessageType DEF Sink!WorkerTranscribes, SinkTypes, ThreadsFit
  <1> QED
    BY <1>1, <1>2, <1>3, <1>4, <1>5 DEF Sink!WorkerStep

LEMMA RecogniserKeepsTypes ==
    ASSUME SinkTypes, ThreadsFit, Sink!RecogniserStep
    PROVE  SinkTypes' /\ ThreadsFit'
  <1>0. 0 \in 0..MaxTurns /\ \A n \in Turns : n \in 0..MaxTurns /\ n # 0
    BY ConfigAssumption DEF Turns
  <1>1. CASE Sink!RecogniserWarms
    BY <1>1 DEF Sink!RecogniserWarms, SinkTypes, ThreadsFit
  <1>2. CASE Sink!RecogniserTakes
    <2>1. hearing' \in Turns /\ transcriptions' \in Seq(Turns)
      BY <1>2, HeadTailProperties DEF Sink!RecogniserTakes, SinkTypes
    <2> QED
      BY <1>0, <1>2, <2>1 DEF Sink!RecogniserTakes, SinkTypes, ThreadsFit
  <1>3. CASE Sink!RecogniserExits
    BY <1>3 DEF Sink!RecogniserExits, SinkTypes, ThreadsFit
  <1>4. CASE Sink!RecogniserAnswers
    <2>1. wire' \in Seq(Frames)
      <3>1. PICK type \in {"transcript", "audio_cancel"} :
               Sink!Send(Sink!Frame(type, hearing), {<<"close", hearing>>})
        BY <1>4 DEF Sink!RecogniserAnswers
      <3>2. Sink!Frame(type, hearing) \in Frames /\ wire \in Seq(Frames)
        BY DEF Sink!Frame, Frames, SinkTypes
      <3> QED
        BY <3>1, <3>2, SendKeepsTypes
    <2> QED
      BY <1>0, <1>4, <2>1 DEF Sink!RecogniserAnswers, SinkTypes, ThreadsFit
  <1> QED
    BY <1>1, <1>2, <1>3, <1>4 DEF Sink!RecogniserStep

\* What an operation of the controller publishes: the close of the open turn,
\* which is then decided and the latest of all, or nothing that closes a turn.
LEMMA OperationPublishes ==
    ASSUME IInv, CommandBegin \/ CommandEnd \/ TickFinishes
    PROVE  /\ event' \in Sink!Messages
           /\ \A n \in Turns : event' \in CloseOf(n) =>
                outcome[n] \notin Decided /\ outcome'[n] \in Decided
           /\ \A n \in Turns : event' \notin CloseOf(n) =>
                (outcome'[n] \in Decided <=> outcome[n] \in Decided)
           /\ ReadyTurns \subseteq ReadyTurns'
           /\ NumberOf(event', "TransmissionReady") \subseteq ReadyTurns'
           /\ Ahead(ReadyTurns, NumberOf(event', "TransmissionReady"))
  <1>1. event' \in Sink!Messages
    <2>1. [Next]_vars
      BY DEF Next
    <2>2. event' \in Events
      BY <2>1, StepInvariant DEF IInv, TypeOK
    <2> QED
      BY <2>2 DEF Events, EventTypes, Sink!Messages, Sink!MessageTypes
  <1>2. 0 \notin Turns
    BY DEF Turns
  <1>3. ASSUME outcome' = outcome, event'.type = "Ignored" \/ event'.sequence = 0,
               event'.type # "TransmissionReady"
        PROVE  /\ \A n \in Turns : event' \notin CloseOf(n)
               /\ NumberOf(event', "TransmissionReady") = {}
               /\ ReadyTurns' = ReadyTurns
    BY <1>2, <1>3 DEF CloseOf, NumberOf, ReadyTurns
  <1>4. CASE BeginIgnored \/ EndIgnored
    <2>1. outcome' = outcome
      BY <1>4, IgnoreKeeps DEF BeginIgnored, EndIgnored
    <2>2. event'.type = "Ignored"
      BY <1>4 DEF BeginIgnored, EndIgnored, Ignore, Publish
    <2> QED
      BY <1>1, <1>3, <2>1, <2>2 DEF Ahead
  <1>5. CASE BeginFailed
    <2>1. outcome' = outcome
      BY <1>5, BeginFailedKeeps
    <2>2. event'.type = "Error" /\ event'.sequence = 0
      BY <1>5 DEF BeginFailed, Publish, IInv, NumbersInOrder
    <2> QED
      BY <1>1, <1>3, <2>1, <2>2 DEF Ahead
  <1>6. CASE BeginStarted
    <2>1. /\ nextSequence \in Turns /\ outcome[nextSequence] = "none"
          /\ outcome'[nextSequence] = "open"
          /\ \A m \in Turns : m # nextSequence => outcome'[m] = outcome[m]
      BY <1>6, BeginStartedKeeps, ConfigAssumption
         DEF IInv, TypeOK, NumbersInOrder, BeginStarted, Turns
    <2>2. event'.type = "Started"
      BY <1>6 DEF BeginStarted, Publish
    <2>3. \A n \in Turns : event' \notin CloseOf(n)
      BY <2>2 DEF CloseOf
    <2>4. NumberOf(event', "TransmissionReady") = {}
      BY <2>2 DEF NumberOf
    <2>5. ReadyTurns \subseteq ReadyTurns'
      BY <2>1 DEF ReadyTurns
    <2>6. \A n \in Turns : outcome'[n] \in Decided <=> outcome[n] \in Decided
      BY <2>1 DEF Decided
    <2> QED
      BY <1>1, <2>3, <2>4, <2>5, <2>6 DEF Ahead
  <1>7. CASE EndFinishes \/ TickFinishes
    <2>1. state = "Recording" /\ (Finish \/ FinishFailed)
      BY <1>7 DEF EndFinishes, TickFinishes, TickDue
    <2>2. /\ activeSequence \in Turns /\ outcome[activeSequence] = "open"
          /\ outcome'[activeSequence] \in Decided
          /\ \A m \in Turns : m # activeSequence => outcome'[m] = outcome[m]
      BY <2>1, FinishKeeps DEF Decided
    <2>3. /\ event'.sequence = activeSequence
          /\ event'.type \in {"Cancelled", "TransmissionReady", "Error"}
          /\ event' = [type |-> event'.type, sequence |-> activeSequence]
      BY <2>1 DEF Finish, FinishFailed, Publish
    <2>4. event'.type = "TransmissionReady" => outcome'[activeSequence] = "ready"
      <3>1. outcome' = IF event'.type = "Ignored" \/ event'.sequence = 0 THEN outcome
                       ELSE [outcome EXCEPT ![event'.sequence] = OutcomeOf(event'.type)]
        BY <2>1 DEF Finish, FinishFailed, Publish
      <3>2. activeSequence # 0 /\ outcome \in [Turns -> Outcomes]
        BY <1>2, <2>2 DEF IInv, TypeOK
      <3>3. outcome'[activeSequence] = OutcomeOf(event'.type)
        BY <2>2, <2>3, <3>1, <3>2
      <3> QED
        BY <3>3 DEF OutcomeOf
    <2>5. \A n \in Turns : event' \in CloseOf(n) <=> n = activeSequence
      BY <2>3 DEF CloseOf
    <2>6. ReadyTurns \subseteq ReadyTurns'
      BY <2>2 DEF ReadyTurns
    <2>7. NumberOf(event', "TransmissionReady") \subseteq ReadyTurns'
      BY <2>2, <2>3, <2>4 DEF NumberOf, ReadyTurns
    <2>8. \A n \in ReadyTurns : n < activeSequence
      BY <2>1, <2>2, ConfigAssumption DEF ReadyTurns, IInv, TypeOK, NumbersInOrder, Turns
    <2>9. Ahead(ReadyTurns, NumberOf(event', "TransmissionReady"))
      BY <2>3, <2>8 DEF Ahead, NumberOf
    <2>10. "open" \notin Decided
      BY DEF Decided
    <2> QED
      BY <1>1, <2>2, <2>5, <2>6, <2>7, <2>9, <2>10
  <1> QED
    BY <1>4, <1>5, <1>6, <1>7 DEF CommandBegin, CommandEnd

\* An operation of the controller with its publication keeps the invariant.
LEMMA OperateKeeps ==
    ASSUME SInv, Begin \/ End \/ Tick
    PROVE  SInv'
  <1>1. /\ ~stopping /\ Sink!Publish(event')
        /\ CommandBegin \/ CommandEnd \/ TickFinishes
    BY DEF Begin, End, Tick, Operate
  <1>2. PICK m : m = event'
    OBVIOUS
  <1>3. /\ m \in Sink!Messages /\ Sink!Publish(m)
        /\ \A n \in Turns : m \in CloseOf(n) =>
                outcome[n] \notin Decided /\ outcome'[n] \in Decided
        /\ \A n \in Turns : m \notin CloseOf(n) =>
                (outcome'[n] \in Decided <=> outcome[n] \in Decided)
        /\ ReadyTurns \subseteq ReadyTurns'
        /\ NumberOf(m, "TransmissionReady") \subseteq ReadyTurns'
        /\ Ahead(ReadyTurns, NumberOf(m, "TransmissionReady"))
    BY <1>1, <1>2, OperationPublishes DEF SInv
  <1>4. IInv'
    BY <1>1, StepInvariant DEF SInv, Next
  <1>5. SinkTypes' /\ ThreadsFit'
    BY <1>3, PublishKeepsTypes DEF SInv
  <1>6. InOnePlace'
    <2>1. ASSUME NEW n \in Turns PROVE OnePlace(n)'
      BY <1>1, <1>3, PublishKeepsPlace DEF SInv, InOnePlace
    <2> QED
      BY <2>1 DEF InOnePlace
  <1>7. InOrder'
    BY <1>1, <1>3, PublishKeepsOrder DEF SInv
  <1> QED
    BY <1>4, <1>5, <1>6, <1>7 DEF SInv

\* Text of the other threads is about no turn, whether or not it is queued.
LEMMA PublishTextKeeps ==
    ASSUME SInv, PublishText
    PROVE  SInv'
  <1> DEFINE m == [type |-> "Text", sequence |-> 0]
  <1>1. m \in Sink!Messages
    BY ConfigAssumption DEF Sink!Messages, Sink!MessageTypes
  <1>2. Sink!Publish(m) /\ outcome' = outcome /\ UNCHANGED vars
    BY DEF PublishText, vars
  <1>3. IInv'
    BY <1>2, StepInvariant DEF SInv
  <1>4. \A n \in Turns : m \notin CloseOf(n)
    BY DEF CloseOf
  <1>5. NumberOf(m, "TransmissionReady") = {} /\ ReadyTurns' = ReadyTurns
    BY <1>2 DEF NumberOf, ReadyTurns
  <1>6. Sink!Loss(m) = {}
    BY DEF Sink!Loss, Sink!Closes
  <1> HIDE DEF m
  <1>7. SinkTypes' /\ ThreadsFit'
    BY <1>1, <1>2, PublishKeepsTypes DEF SInv
  <1>8. CASE stopping
    <2>1. UNCHANGED <<queue, transcriptions, held, hearing, wire, missing, outcome>>
      BY <1>2, <1>6, <1>8 DEF Sink!Publish
    <2>2. InOnePlace'
      BY <2>1 DEF SInv, InOnePlace, OnePlace, Places
    <2>3. InOrder'
      BY <2>1 DEF SInv, InOrder, AllReady, EachRises, OneBehindTheOther, ReadyTurns,
                  Queued, Taken, Backlog, Heard, Transcribed
    <2> QED
      BY <1>3, <1>7, <2>2, <2>3 DEF SInv
  <1>9. CASE ~stopping
    <2>1. InOnePlace'
      <3>1. ASSUME NEW n \in Turns PROVE OnePlace(n)'
        BY <1>1, <1>2, <1>4, <1>9, PublishKeepsPlace DEF SInv, InOnePlace
      <3> QED
        BY <3>1 DEF InOnePlace
    <2>2. Ahead(ReadyTurns, NumberOf(m, "TransmissionReady"))
      BY <1>5 DEF Ahead
    <2>3. InOrder'
      BY <1>1, <1>2, <1>5, <1>9, <2>2, PublishKeepsOrder DEF SInv
    <2> QED
      BY <1>3, <1>7, <2>1, <2>3 DEF SInv
  <1> QED
    BY <1>8, <1>9

\* A step of the worker or of the recogniser keeps the invariant.
LEMMA WorkerKeeps ==
    ASSUME SInv, WorkerStep
    PROVE  SInv'
  <1>1. Sink!WorkerStep /\ outcome' = outcome /\ UNCHANGED vars
    BY DEF WorkerStep, SinkOnly, vars
  <1>2. IInv'
    BY <1>1, StepInvariant DEF SInv
  <1>3. SinkTypes' /\ ThreadsFit'
    BY <1>1, WorkerKeepsTypes DEF SInv, InOrder
  <1>4. SinkTypes /\ ThreadsFit /\ InOrder /\ AllReady /\ \A n \in Turns : OnePlace(n)
    BY DEF SInv, InOrder, InOnePlace
  <1>5. CASE Sink!WorkerExits
    <2>1. UNCHANGED <<queue, transcriptions, held, hearing, wire, missing, outcome>>
      BY <1>1, <1>5 DEF Sink!WorkerExits
    <2>2. InOnePlace'
      BY <2>1 DEF SInv, InOnePlace, OnePlace, Places
    <2>3. InOrder'
      BY <2>1 DEF SInv, InOrder, AllReady, EachRises, OneBehindTheOther, ReadyTurns,
                  Queued, Taken, Backlog, Heard, Transcribed
    <2> QED
      BY <1>2, <1>3, <2>2, <2>3 DEF SInv
  <1>6. CASE Sink!WorkerTakes
    BY <1>1, <1>2, <1>3, <1>4, <1>6, WorkerTakesKeepsPlace, WorkerTakesKeepsOrder
       DEF SInv, InOnePlace
  <1>7. CASE Sink!WorkerSkips
    <2>1. /\ held' = Sink!NoMessage /\ Rising(wire', "transcript")
          /\ UNCHANGED <<queue, transcriptions, hearing, wire>>
      BY <1>4, <1>7 DEF Sink!WorkerSkips, InOrder, EachRises
    <2>2. Transcribed' = Transcribed
      BY <2>1 DEF Transcribed
    <2>3. InOrder'
      BY <1>1, <1>4, <2>1, <2>2, WorkerDoneKeepsOrder
    <2> QED
      BY <1>1, <1>2, <1>3, <1>4, <1>7, <2>3, WorkerSkipsKeepsPlace DEF SInv, InOnePlace
  <1>8. CASE Sink!WorkerSends
    BY <1>1, <1>2, <1>3, <1>4, <1>8, WorkerSendsKeepsPlace, WorkerSendsKeepsOrder
       DEF SInv, InOnePlace
  <1>9. CASE Sink!WorkerTranscribes
    BY <1>1, <1>2, <1>3, <1>4, <1>9, WorkerTranscribesKeepsPlace,
       WorkerTranscribesKeepsOrder
       DEF SInv, InOnePlace
  <1> QED
    BY <1>1, <1>5, <1>6, <1>7, <1>8, <1>9 DEF Sink!WorkerStep

LEMMA RecogniserKeeps ==
    ASSUME SInv, RecogniserStep
    PROVE  SInv'
  <1>1. Sink!RecogniserStep /\ outcome' = outcome /\ UNCHANGED vars
    BY DEF RecogniserStep, SinkOnly, vars
  <1>2. IInv'
    BY <1>1, StepInvariant DEF SInv
  <1>3. SinkTypes' /\ ThreadsFit'
    BY <1>1, RecogniserKeepsTypes DEF SInv
  <1>4. SinkTypes /\ ThreadsFit /\ InOrder /\ \A n \in Turns : OnePlace(n)
    BY DEF SInv, InOnePlace
  <1>5. CASE Sink!RecogniserWarms \/ Sink!RecogniserExits
    <2>1. UNCHANGED <<queue, transcriptions, held, hearing, wire, missing, outcome>>
      BY <1>1, <1>5 DEF Sink!RecogniserWarms, Sink!RecogniserExits
    <2>2. InOnePlace'
      BY <2>1 DEF SInv, InOnePlace, OnePlace, Places
    <2>3. InOrder'
      BY <2>1 DEF SInv, InOrder, AllReady, EachRises, OneBehindTheOther, ReadyTurns,
                  Queued, Taken, Backlog, Heard, Transcribed
    <2> QED
      BY <1>2, <1>3, <2>2, <2>3 DEF SInv
  <1>6. CASE Sink!RecogniserTakes
    BY <1>1, <1>2, <1>3, <1>4, <1>6, RecogniserTakesKeepsPlace, RecogniserTakesKeepsOrder
       DEF SInv, InOnePlace
  <1>7. CASE Sink!RecogniserAnswers
    BY <1>1, <1>2, <1>3, <1>4, <1>7, RecogniserAnswersKeepsPlace,
       RecogniserAnswersKeepsOrder
       DEF SInv, InOnePlace
  <1> QED
    BY <1>1, <1>5, <1>6, <1>7 DEF Sink!RecogniserStep

\* Time, stop() and stuttering touch neither the turns nor what is on its way.
LEMMA QuietKeeps ==
    ASSUME SInv, TimePasses \/ Stop \/ UNCHANGED systemVars
    PROVE  SInv'
  <1>1. /\ UNCHANGED <<queue, transcriptions, held, hearing, wire, missing, outcome>>
        /\ UNCHANGED <<worker, recogniser>>
        /\ Elapse \/ UNCHANGED vars
    BY DEF TimePasses, Stop, SinkOnly, Sink!Stop, sinkVars, systemVars, Elapse, vars
  <1>2. IInv'
    BY <1>1, StepInvariant DEF SInv, Next
  <1>3. SinkTypes' /\ ThreadsFit'
    BY <1>1 DEF SInv, SinkTypes, ThreadsFit
  <1>4. InOnePlace'
    BY <1>1 DEF SInv, InOnePlace, OnePlace, Places
  <1>5. InOrder'
    BY <1>1 DEF SInv, InOrder, AllReady, EachRises, OneBehindTheOther, ReadyTurns,
                Queued, Taken, Backlog, Heard, Transcribed
  <1> QED
    BY <1>2, <1>3, <1>4, <1>5 DEF SInv

LEMMA SystemStep == SInv /\ [SystemNext]_systemVars => SInv'
  BY OperateKeeps, PublishTextKeeps, WorkerKeeps, RecogniserKeeps, QuietKeeps
     DEF SystemNext

\* Before the first turn nothing is anywhere.
LEMMA SystemStart == SystemInit => SInv
  <1> SUFFICES ASSUME SystemInit PROVE SInv
    OBVIOUS
  <1>1. /\ IInv /\ queue = <<>> /\ transcriptions = <<>> /\ wire = <<>> /\ missing = {}
        /\ hearing = 0 /\ held = Sink!NoMessage /\ worker = "waiting"
        /\ recogniser \in {"absent", "warming"}
        /\ \A n \in Turns : outcome[n] = "none"
    BY InitInvariant DEF SystemInit, Sink!Init, Init
  <1>2. SinkTypes /\ ThreadsFit
    BY <1>1, NoMessageType, ConfigAssumption DEF SinkTypes, ThreadsFit
  <1>3. ASSUME NEW n \in Turns PROVE OnePlace(n)
    <2>1. /\ Len(queue) = 0 /\ Len(transcriptions) = 0 /\ Len(wire) = 0
          /\ hearing # n /\ held \notin CloseOf(n) /\ outcome[n] \notin Decided
      BY <1>1 DEF Turns, Sink!NoMessage, CloseOf, Decided
    <2> QED
      BY <1>1, <2>1 DEF OnePlace, Places, Once, Holds, One
  <1>4. InOrder
    <2>1. Len(queue) = 0 /\ Len(transcriptions) = 0 /\ Len(wire) = 0
      BY <1>1
    <2>2. Queued = {} /\ Taken = {} /\ Backlog = {} /\ Heard = {} /\ Transcribed = {}
      BY <1>1, <2>1 DEF Queued, Taken, Backlog, Heard, Transcribed, Numbers, NumberOf,
                        Values, Sink!NoMessage
    <2>3. EachRises
      BY <2>1 DEF EachRises, Rising, Ascends
    <2> QED
      BY <2>2, <2>3 DEF InOrder, AllReady, OneBehindTheOther, Ahead
  <1> QED
    BY <1>1, <1>2, <1>3, <1>4 DEF SInv, InOnePlace

LEMMA SystemInvariance == SystemSpec => []SInv
  BY SystemStart, SystemStep, PTL DEF SystemSpec
-----------------------------------------------------------------------------
\* What is held once counts as one.
LEMMA OnceCounts ==
    ASSUME NEW T, NEW q \in Seq(T), NEW S, Once(q, S)
    PROVE  CountIn(q, S) = One(Holds(q, S))
  <1> DEFINE places == {i \in DOMAIN q : q[i] \in S}
  <1>1. DOMAIN q = 1..Len(q)
    BY LenProperties
  <1>2. CASE Holds(q, S)
    <2>1. PICK i \in 1..Len(q) : q[i] \in S
      BY <1>2 DEF Holds
    <2>2. \A j \in 1..Len(q) : q[j] \in S => j = i
      BY <2>1 DEF Once
    <2>3. places = {i}
      BY <1>1, <2>1, <2>2
    <2> QED
      BY <1>2, <2>3, FS_Singleton DEF CountIn, One
  <1>3. CASE ~Holds(q, S)
    <2>1. places = {}
      BY <1>1, <1>3 DEF Holds
    <2> QED
      BY <1>3, <2>1, FS_EmptySet DEF CountIn, One
  <1> QED
    BY <1>2, <1>3

\* For every limit and bound of the queues: the close of a turn that is over is
\* in exactly one place between the controller and the wire, or was counted as
\* lost, whatever the order in which the threads and stop() take their steps.
THEOREM ClosesInOnePlace == SystemSpec => []CloseInOnePlace
  <1>1. SInv => CloseInOnePlace
    <2> SUFFICES ASSUME SInv, NEW n \in Turns
                 PROVE  Whereabouts(n) = One(outcome[n] \in Decided)
      BY DEF CloseInOnePlace
    <2>1. OnePlace(n) /\ SinkTypes
      BY DEF SInv, InOnePlace
    <2>2. CountIn(queue, CloseOf(n)) = One(Holds(queue, CloseOf(n)))
      BY <2>1, OnceCounts DEF OnePlace, SinkTypes
    <2>3. CountIn(transcriptions, {n}) = One(Holds(transcriptions, {n}))
      <3> DEFINE N == {n}
      <3>1. transcriptions \in Seq(Turns) /\ Once(transcriptions, N)
        BY <2>1 DEF OnePlace, SinkTypes
      <3> HIDE DEF N
      <3>2. CountIn(transcriptions, N) = One(Holds(transcriptions, N))
        BY <3>1, OnceCounts
      <3> QED
        BY <3>2 DEF N
    <2>4. CountIn(wire, ClosingOf(n)) = One(Holds(wire, ClosingOf(n)))
      BY <2>1, OnceCounts DEF OnePlace, SinkTypes
    <2> QED
      BY <2>1, <2>2, <2>3, <2>4 DEF OnePlace, Places, Whereabouts
  <1> QED
    BY <1>1, SystemInvariance, PTL

\* For every limit and bound: the transcripts on the wire are of turns that were
\* long enough, in the order they were said.
THEOREM TranscriptsStayInOrder == SystemSpec => []TranscriptsInOrder
  <1>1. SInv => TranscriptsInOrder
    <2> SUFFICES ASSUME SInv, NEW i \in DOMAIN wire, NEW j \in DOMAIN wire,
                        wire[i].type = "transcript"
                 PROVE  /\ outcome[wire[i].sequence] = "ready"
                        /\ wire[j].type = "transcript" /\ i < j =>
                             wire[i].sequence < wire[j].sequence
      BY DEF TranscriptsInOrder
    <2>1. i \in 1..Len(wire) /\ j \in 1..Len(wire)
      BY LenProperties DEF SInv, SinkTypes
    <2>2. wire[i].sequence \in ReadyTurns
      BY <2>1 DEF SInv, InOrder, AllReady, Transcribed, Numbers
    <2>3. Rising(wire, "transcript")
      BY DEF SInv, InOrder, EachRises
    <2> QED
      BY <2>1, <2>2, <2>3 DEF ReadyTurns, Rising
  <1> QED
    BY <1>1, SystemInvariance, PTL

\* Every step of the system is one of the controller or leaves it alone.
LEMMA SystemStepIsControllers == [SystemNext]_systemVars => [Next]_vars
  BY DEF SystemNext, Begin, End, Tick, Operate, TimePasses, PublishText, WorkerStep,
         RecogniserStep, Stop, SinkOnly, systemVars, Next

\* What was proved of the controller alone holds of it with the sink behind it,
\* for every limit and bound: only the recorded turn is open, and a turn that is
\* over stays as it was decided.
THEOREM TurnsInTheSystem == SystemSpec => []OpenTurnIsActive /\ OutcomeIsFinal
  <1>1. SInv => IInv /\ OpenTurnIsActive
    BY DEF SInv, IInv
  <1>2. IInv /\ [SystemNext]_systemVars =>
          [\A n \in Turns :
             /\ outcome[n] \in {"ready", "cancelled", "error"} => outcome'[n] = outcome[n]
             /\ outcome[n] = "none" /\ outcome'[n] # "none" =>
                  /\ outcome'[n] = "open"
                  /\ \A m \in Turns : m < n => outcome'[m] \notin {"none", "open"}]_vars
    BY SystemStepIsControllers, StepOutcome DEF OutcomeStep
  <1> QED
    BY <1>1, <1>2, SystemInvariance, PTL DEF SystemSpec, OutcomeIsFinal
-----------------------------------------------------------------------------
(* The system keeps the dialogue of TurnDialogue. *)

NoTurn       == [type : {"Started", "Cancelled"}, sequence : {0}]

OpenPlaces(n) ==
    One(Holds(queue, OpenOf(n))) + One(held \in OpenOf(n))
      + One(Holds(wire, OpeningOf(n))) + One(<<"open", n>> \in missing)

\* The beginning of a turn is in one place from when the turn was begun.
OpenInPlace(n) == Once(queue, OpenOf(n)) /\ OpenPlaces(n) = One(outcome[n] # "none")

\* In q, what is in A comes before what is in B.
Before(q, A, B) == \A i, j \in 1..Len(q) : q[i] \in A /\ q[j] \in B => i < j

\* ... and so it does on its way through the worker, and at its end.
InFront(A, B) == Before(queue, A, B) /\ (held \in B => ~Holds(queue, A))
Gone(A)       == ~Holds(queue, A) /\ held \notin A

\* The end of a turn has left the worker, for the recogniser or for the wire.
PassedClose(n) == Holds(transcriptions, {n}) \/ hearing = n \/ Holds(wire, ClosingOf(n))

CloseFollows(n) ==
    InFront(OpenOf(n), CloseOf(n)) /\ (PassedClose(n) => Gone(OpenOf(n)))

OpenFollows(m, n) == InFront(OpenOf(m), OpenOf(n)) /\ InFront(CloseOf(m), OpenOf(n))

Talk ==
    /\ Gone(NoTurn)
    /\ \A n \in Turns : OpenInPlace(n) /\ CloseFollows(n)
    /\ \A m, n \in Turns : m < n => OpenFollows(m, n)

TalkInv == SInv /\ Talk
-----------------------------------------------------------------------------
LEMMA SplitBefore ==
    ASSUME NEW q, NEW a, NEW b, NEW A, NEW B, Split(q, a, b)
    PROVE  Before(q, A, B) <=>
             Before(a, A, B) /\ Before(b, A, B) /\ ~(Holds(a, B) /\ Holds(b, A))
  <1>0. Len(a) \in Nat /\ Len(b) \in Nat /\ Len(q) = Len(a) + Len(b)
    BY DEF Split
  <1>1. ASSUME Before(q, A, B) PROVE Before(a, A, B)
    BY <1>1, SplitIndex DEF Before
  <1>2. ASSUME Before(q, A, B) PROVE Before(b, A, B)
    <2> SUFFICES ASSUME NEW i \in 1..Len(b), NEW j \in 1..Len(b), b[i] \in A, b[j] \in B
                 PROVE  i < j
      BY DEF Before
    <2>1. /\ Len(a) + i \in 1..Len(q) /\ q[Len(a) + i] \in A
          /\ Len(a) + j \in 1..Len(q) /\ q[Len(a) + j] \in B
      BY SplitIndex
    <2>2. Len(a) + i < Len(a) + j
      BY <1>2, <2>1 DEF Before
    <2> QED
      BY <1>0, <2>2
  <1>3. ASSUME Before(q, A, B), Holds(a, B), Holds(b, A) PROVE FALSE
    <2>1. PICK i \in 1..Len(a) : a[i] \in B
      BY <1>3 DEF Holds
    <2>2. PICK j \in 1..Len(b) : b[j] \in A
      BY <1>3 DEF Holds
    <2>3. /\ i \in 1..Len(q) /\ q[i] \in B
          /\ Len(a) + j \in 1..Len(q) /\ q[Len(a) + j] \in A
      BY <2>1, <2>2, SplitIndex
    <2>4. Len(a) + j < i
      BY <1>3, <2>3 DEF Before
    <2> QED
      BY <1>0, <2>4
  <1>4. ASSUME Before(a, A, B), Before(b, A, B), ~(Holds(a, B) /\ Holds(b, A))
        PROVE  Before(q, A, B)
    <2> SUFFICES ASSUME NEW i \in 1..Len(q), NEW j \in 1..Len(q), q[i] \in A, q[j] \in B
                 PROVE  i < j
      BY DEF Before
    <2> DEFINE k == i - Len(a)
               l == j - Len(a)
    <2>1. /\ i \in 1..Len(a) \/ k \in 1..Len(b)
          /\ j \in 1..Len(a) \/ l \in 1..Len(b)
          /\ i \in 1..Len(a) => a[i] \in A
          /\ j \in 1..Len(a) => a[j] \in B
          /\ k \in 1..Len(b) => b[k] \in A
          /\ l \in 1..Len(b) => b[l] \in B
      BY SplitIndex
    <2>2. k < l => i < j
      BY <1>0
    <2>3. i \in 1..Len(a) /\ l \in 1..Len(b) => i < j
      BY <1>0
    <2> HIDE DEF k, l
    <2>4. CASE i \in 1..Len(a) /\ j \in 1..Len(a)
      BY <1>4, <2>1, <2>4 DEF Before
    <2>5. CASE k \in 1..Len(b) /\ l \in 1..Len(b)
      BY <1>4, <2>1, <2>2, <2>5 DEF Before
    <2>6. CASE k \in 1..Len(b) /\ j \in 1..Len(a)
      <3>1. Holds(a, B) /\ Holds(b, A)
        BY <2>1, <2>6 DEF Holds
      <3> QED
        BY <1>4, <3>1
    <2> QED
      BY <2>1, <2>3, <2>4, <2>5, <2>6
  <1> QED
    BY <1>1, <1>2, <1>3, <1>4

\* One behind the others, one ahead of them.
LEMMA AppendBefore ==
    ASSUME NEW T, NEW q, NEW x, NEW p, Appended(p, q, x, T), NEW A, NEW B,
           ~(x \in A /\ x \in B)
    PROVE  Before(p, A, B) <=> Before(q, A, B) /\ ~(Holds(q, B) /\ x \in A)
  <1> DEFINE s == <<x>>
  <1>1. Split(p, q, s) /\ (Holds(s, A) <=> x \in A)
    BY AppendSplits, OneValue DEF Appended
  <1>2. Before(s, A, B)
    <2>1. Len(s) = 1 /\ s[1] = x /\ \A i \in 1..Len(s) : i = 1
      OBVIOUS
    <2> QED
      BY <2>1 DEF Before
  <1> HIDE DEF s
  <1> QED
    BY <1>1, <1>2, SplitBefore

LEMMA FirstBefore ==
    ASSUME NEW T, NEW q \in Seq(T), q # <<>>, NEW x, x = Head(q), NEW p, p = Tail(q),
           NEW A, NEW B, Before(q, A, B)
    PROVE  Before(p, A, B) /\ ~(x \in B /\ Holds(p, A))
  <1> DEFINE s == <<x>>
  <1>1. Split(q, s, p) /\ (Holds(s, B) <=> x \in B)
    BY FirstSplits, OneValue
  <1> HIDE DEF s
  <1> QED
    BY <1>1, SplitBefore

\* What each kind of step does to the order on the way through the worker.
LEMMA PublishInFront ==
    ASSUME SinkTypes, NEW m \in Sink!Messages, ~stopping, Sink!Publish(m), NEW A, NEW B
    PROVE  /\ Gone(A) /\ m \notin A => Gone(A)'
           /\ InFront(A, B) /\ m \notin B /\ (m \in A => Gone(B)) => InFront(A, B)'
           /\ InFront(A, B) /\ m \notin A => InFront(A, B)'
  <1>1. PICK lost, kept \in Seq(Sink!Messages) :
             Split(queue, lost, kept) /\ queue' = Append(kept, m)
    BY PublishSplits
  <1>2. held' = held
    BY DEF Sink!Publish
  <1>3. Appended(queue', kept, m, Sink!Messages)
    BY <1>1 DEF Appended
  <1>4. /\ Holds(queue, A) <=> Holds(lost, A) \/ Holds(kept, A)
        /\ Holds(queue, B) <=> Holds(lost, B) \/ Holds(kept, B)
        /\ Before(queue, A, B) => Before(kept, A, B)
    BY ONLY <1>1, SplitHolds, SplitBefore
  <1>5. Holds(queue', A) <=> Holds(kept, A) \/ m \in A
    BY ONLY <1>3, AppendHolds
  <1>6. ~(m \in A /\ m \in B) =>
          (Before(queue', A, B) <=> Before(kept, A, B) /\ ~(Holds(kept, B) /\ m \in A))
    BY ONLY <1>3, AppendBefore
  <1> QED
    BY <1>2, <1>4, <1>5, <1>6 DEF Gone, InFront

LEMMA TakeInFront ==
    ASSUME SinkTypes, Sink!WorkerTakes, NEW A, NEW B
    PROVE  /\ Gone(A) => Gone(A)'
           /\ InFront(A, B) => InFront(A, B)'
  <1>1. /\ queue # <<>> /\ held' = Head(queue) /\ queue' = Tail(queue)
        /\ queue \in Seq(Sink!Messages)
    BY DEF Sink!WorkerTakes, SinkTypes
  <1>2. Holds(queue, A) <=> held' \in A \/ Holds(queue', A)
    BY ONLY <1>1, FirstHolds
  <1>3. Before(queue, A, B) => Before(queue', A, B) /\ ~(held' \in B /\ Holds(queue', A))
    BY ONLY <1>1, FirstBefore
  <1> QED
    BY <1>2, <1>3 DEF Gone, InFront

LEMMA DoneInFront ==
    ASSUME queue' = queue, NEW A, NEW B, held' \notin A, held' \notin B
    PROVE  /\ Gone(A) => Gone(A)'
           /\ InFront(A, B) => InFront(A, B)'
           /\ InFront(A, B) /\ held \in B => Gone(A)'
  BY DEF Gone, InFront

LEMMA NoMessageIsNoTurn ==
    /\ Sink!NoMessage \notin NoTurn
    /\ \A n : Sink!NoMessage \notin OpenOf(n) /\ Sink!NoMessage \notin CloseOf(n)
  BY DEF Sink!NoMessage, NoTurn, OpenOf, CloseOf
-----------------------------------------------------------------------------
\* What is published is the beginning of the next turn, the end of the open one
\* or about no turn at all.
Opens(n, m) ==
    /\ outcome[n] = "none" /\ outcome' = [outcome EXCEPT ![n] = "open"]
    /\ \A k \in Turns : k < n => outcome[k] \in Decided
    /\ \A k \in Turns : n < k => outcome[k] = "none"
    /\ \A k \in Turns : (m \in OpenOf(k) <=> k = n) /\ m \notin CloseOf(k)

Ends(n, m) ==
    /\ outcome[n] = "open" /\ \E how \in Decided : outcome' = [outcome EXCEPT ![n] = how]
    /\ \A k \in Turns : n < k => outcome[k] = "none"
    /\ \A k \in Turns : (m \in CloseOf(k) <=> k = n) /\ m \notin OpenOf(k)

SaysNothing(m) ==
    outcome' = outcome /\ \A k \in Turns : m \notin OpenOf(k) /\ m \notin CloseOf(k)

Speaks(m) ==
    /\ m \notin NoTurn
    /\ SaysNothing(m) \/ \E n \in Turns : Opens(n, m) \/ Ends(n, m)

LEMMA OperationSpeaks ==
    ASSUME IInv, CommandBegin \/ CommandEnd \/ TickFinishes
    PROVE  Speaks(event')
  <1>1. 0 \notin Turns /\ outcome \in [Turns -> Outcomes]
    BY DEF Turns, IInv, TypeOK
  <1>2. ASSUME outcome' = outcome, event'.type \in {"Ignored", "Error"},
               event'.type = "Ignored" \/ event'.sequence = 0
        PROVE  Speaks(event')
    BY <1>1, <1>2 DEF Speaks, SaysNothing, OpenOf, CloseOf, NoTurn
  <1>3. CASE BeginIgnored \/ EndIgnored
    <2>1. outcome' = outcome
      BY <1>3, IgnoreKeeps DEF BeginIgnored, EndIgnored
    <2>2. event'.type = "Ignored"
      BY <1>3 DEF BeginIgnored, EndIgnored, Ignore, Publish
    <2> QED
      BY <1>2, <2>1, <2>2
  <1>4. CASE BeginFailed
    <2>1. outcome' = outcome
      BY <1>4, BeginFailedKeeps
    <2>2. event'.type = "Error" /\ event'.sequence = 0
      BY <1>4 DEF BeginFailed, Publish, IInv, NumbersInOrder
    <2> QED
      BY <1>2, <2>1, <2>2
  <1>5. CASE BeginStarted
    <2> DEFINE n == nextSequence
    <2>1. n \in Turns /\ outcome[n] = "none" /\ n \in Nat
      BY <1>5, ConfigAssumption DEF IInv, TypeOK, NumbersInOrder, BeginStarted, Turns
    <2>2. Publish("Started", n)
      BY <1>5 DEF BeginStarted
    <2>3. /\ event' = [type |-> "Started", sequence |-> n]
          /\ outcome' = [outcome EXCEPT ![n] = "open"]
      BY <1>1, <2>1, <2>2 DEF Publish, OutcomeOf
    <2>4. \A k \in Turns : k < n => outcome[k] \in Decided
      BY <1>1, <1>5, <2>1
         DEF IInv, NumbersInOrder, OpenTurnIsActive, BeginStarted, Turns, Outcomes, Decided
    <2>5. \A k \in Turns : n < k => outcome[k] = "none"
      BY <2>1 DEF IInv, NumbersInOrder, Turns
    <2> HIDE DEF n
    <2>6. \A k \in Turns : (event' \in OpenOf(k) <=> k = n) /\ event' \notin CloseOf(k)
      BY <2>3 DEF OpenOf, CloseOf
    <2>7. event' \notin NoTurn
      BY <1>1, <2>1, <2>3 DEF NoTurn
    <2>8. Opens(n, event')
      BY <2>1, <2>3, <2>4, <2>5, <2>6 DEF Opens
    <2> QED
      BY <2>1, <2>7, <2>8 DEF Speaks
  <1>6. CASE EndFinishes \/ TickFinishes
    <2> DEFINE n == activeSequence
    <2>1. state = "Recording" /\ (Finish \/ FinishFailed)
      BY <1>6 DEF EndFinishes, TickFinishes, TickDue
    <2>2. /\ n \in Turns /\ outcome[n] = "open" /\ n \in Nat
          /\ n = nextSequence - 1 /\ nextSequence \in Nat
      BY <2>1, FinishKeeps, ConfigAssumption DEF IInv, TypeOK, NumbersInOrder, Turns
    <2>3. PICK type \in {"Cancelled", "TransmissionReady", "Error"} : Publish(type, n)
      BY <2>1 DEF Finish, FinishFailed
    <2>4. OutcomeOf(type) \in Decided
      BY DEF OutcomeOf, Decided
    <2>5. /\ event' = [type |-> type, sequence |-> n]
          /\ outcome' = [outcome EXCEPT ![n] = OutcomeOf(type)]
      BY <1>1, <2>2, <2>3 DEF Publish
    <2>6. \A k \in Turns : n < k => outcome[k] = "none"
      BY <2>2 DEF IInv, NumbersInOrder, Turns
    <2> HIDE DEF n
    <2>7. \A k \in Turns : (event' \in CloseOf(k) <=> k = n) /\ event' \notin OpenOf(k)
      BY <2>5 DEF OpenOf, CloseOf
    <2>8. event' \notin NoTurn
      BY <1>1, <2>2, <2>5 DEF NoTurn
    <2>9. Ends(n, event')
      BY <2>2, <2>4, <2>5, <2>6, <2>7 DEF Ends
    <2> QED
      BY <2>2, <2>8, <2>9 DEF Speaks
  <1> QED
    BY <1>3, <1>4, <1>5, <1>6 DEF CommandBegin, CommandEnd

\* Of a turn that was not begun nothing is anywhere.
LEMMA NothingYet ==
    ASSUME TalkInv, NEW n \in Turns, outcome[n] = "none"
    PROVE  Gone(OpenOf(n)) /\ Gone(CloseOf(n)) /\ ~PassedClose(n)
  <1>1. /\ OpenPlaces(n) = One(outcome[n] # "none")
        /\ Places(n) = One(outcome[n] \in Decided)
    BY DEF TalkInv, Talk, SInv, InOnePlace, OnePlace, OpenInPlace
  <1>2. OpenPlaces(n) = 0 /\ Places(n) = 0
    BY <1>1 DEF One, Decided
  <1> QED
    BY <1>2 DEF OpenPlaces, Places, One, Gone, PassedClose

\* Publishing keeps what was published of each turn in place and in order.
LEMMA PublishKeepsTalk ==
    ASSUME TalkInv, NEW m \in Sink!Messages, ~stopping, Sink!Publish(m), Speaks(m)
    PROVE  Talk'
  <1>1. /\ SinkTypes /\ Gone(NoTurn) /\ outcome \in [Turns -> Outcomes]
        /\ \A n \in Turns : OpenInPlace(n) /\ CloseFollows(n)
        /\ \A k, n \in Turns : k < n => OpenFollows(k, n)
    BY DEF TalkInv, Talk, SInv, IInv, TypeOK
  <1>2. /\ \A n \in Turns : m \in OpenOf(n) => outcome[n] = "none"
        /\ \A n, k \in Turns : n < k /\ (m \in OpenOf(n) \/ m \in CloseOf(n)) =>
             outcome[k] = "none"
        /\ \A n \in Turns : outcome'[n] # "none" <=> outcome[n] # "none" \/ m \in OpenOf(n)
        /\ m \notin NoTurn
    BY <1>1 DEF Speaks, SaysNothing, Opens, Ends, Decided
  <1>3. \A n \in Turns : ~(m \in OpenOf(n) /\ m \in CloseOf(n))
    BY DEF OpenOf, CloseOf
  <1>4. \A k, n \in Turns : k < n => ~(m \in OpenOf(k) /\ m \in OpenOf(n))
    BY DEF OpenOf, Turns
  <1>5. \A k, n \in Turns : ~(m \in CloseOf(k) /\ m \in OpenOf(n))
    BY DEF OpenOf, CloseOf
  <1>6. UNCHANGED <<transcriptions, held, hearing, wire>>
    BY DEF Sink!Publish
  <1>7. \A n \in Turns : PassedClose(n)' <=> PassedClose(n)
    BY <1>6 DEF PassedClose
  <1>8. ASSUME NEW n \in Turns PROVE OpenInPlace(n)'
    <2> DEFINE S == OpenOf(n)
               c == <<"open", n>>
    <2>1. PICK lost, kept \in Seq(Sink!Messages) :
               /\ Split(queue, lost, kept)
               /\ queue' = Append(kept, m)
               /\ c \in missing' <=> c \in missing \/ Holds(lost, S)
      BY <1>1, PublishSplits
    <2>2. /\ Once(queue, S)
          /\ One(Holds(queue, S)) + One(held \in S) + One(Holds(wire, OpeningOf(n)))
               + One(c \in missing) = One(outcome[n] # "none")
      BY <1>1 DEF OpenInPlace, OpenPlaces
    <2>3. (m \in S => outcome[n] = "none") /\
          (outcome'[n] # "none" <=> outcome[n] # "none" \/ m \in S)
      BY <1>2
    <2> HIDE DEF S, c
    <2>4. /\ Holds(queue, S) <=> Holds(lost, S) \/ Holds(kept, S)
          /\ Once(queue, S) <=>
               Once(lost, S) /\ Once(kept, S) /\ ~(Holds(lost, S) /\ Holds(kept, S))
      BY ONLY <2>1, SplitHolds, SplitOnce
    <2>5. /\ Holds(queue', S) <=> Holds(kept, S) \/ m \in S
          /\ Once(queue', S) <=> Once(kept, S) /\ ~(Holds(kept, S) /\ m \in S)
      <3>1. Appended(queue', kept, m, Sink!Messages)
        BY <2>1 DEF Appended
      <3> QED
        BY ONLY <3>1, AppendHolds
    <2>6. m \in S => ~Holds(queue, S) /\ held \notin S /\ ~Holds(wire, OpeningOf(n))
                       /\ c \notin missing
      BY <2>2, <2>3 DEF One
    <2>7. /\ Once(queue', S)
          /\ One(Holds(queue', S)) + One(held' \in S) + One(Holds(wire', OpeningOf(n)))
               + One(c \in missing') = One(outcome'[n] # "none")
      BY <1>6, <2>1, <2>2, <2>3, <2>4, <2>5, <2>6 DEF One
    <2> QED
      BY <2>7 DEF OpenInPlace, OpenPlaces, S, c
  <1>9. ASSUME NEW n \in Turns PROVE CloseFollows(n)'
    <2>1. InFront(OpenOf(n), CloseOf(n)) /\ (PassedClose(n) => Gone(OpenOf(n)))
      BY <1>1 DEF CloseFollows
    <2>2. m \in OpenOf(n) => Gone(CloseOf(n)) /\ ~PassedClose(n) /\ m \notin CloseOf(n)
      BY <1>2, <1>3, NothingYet
    <2>3. InFront(OpenOf(n), CloseOf(n))'
      BY <1>1, <2>1, <2>2, PublishInFront
    <2>4. PassedClose(n)' => Gone(OpenOf(n))'
      BY <1>1, <1>7, <2>1, <2>2, PublishInFront
    <2> QED
      BY <2>3, <2>4 DEF CloseFollows
  <1>10. ASSUME NEW k \in Turns, NEW n \in Turns, k < n PROVE OpenFollows(k, n)'
    <2>1. InFront(OpenOf(k), OpenOf(n)) /\ InFront(CloseOf(k), OpenOf(n))
      BY <1>1, <1>10 DEF OpenFollows
    <2>2. m \in OpenOf(k) \/ m \in CloseOf(k) => Gone(OpenOf(n)) /\ m \notin OpenOf(n)
      BY <1>2, <1>4, <1>5, <1>10, NothingYet
    <2>3. InFront(OpenOf(k), OpenOf(n))'
      BY <1>1, <2>1, <2>2, PublishInFront
    <2>4. InFront(CloseOf(k), OpenOf(n))'
      BY <1>1, <2>1, <2>2, PublishInFront
    <2> QED
      BY <2>3, <2>4 DEF OpenFollows
  <1>11. Gone(NoTurn)'
    BY <1>1, <1>2, PublishInFront
  <1> QED
    BY <1>8, <1>9, <1>10, <1>11 DEF Talk

\* A step that leaves the worker and its queue alone, and hands on no end of a
\* turn that was not handed on before.
LEMMA ElsewhereKeepsTalk ==
    ASSUME TalkInv, UNCHANGED <<queue, held>>,
           \A n \in Turns : PassedClose(n)' => PassedClose(n),
           \A n \in Turns : OpenInPlace(n)'
    PROVE  Talk'
  <1>1. /\ Gone(NoTurn)
        /\ \A n \in Turns : CloseFollows(n)
        /\ \A k, n \in Turns : k < n => OpenFollows(k, n)
    BY DEF TalkInv, Talk
  <1>2. ASSUME NEW A PROVE Gone(A)' <=> Gone(A)
    BY DEF Gone
  <1>3. ASSUME NEW A, NEW B PROVE InFront(A, B)' <=> InFront(A, B)
    BY DEF InFront
  <1>4. ASSUME NEW n \in Turns PROVE CloseFollows(n)'
    BY <1>1, <1>2, <1>3 DEF CloseFollows
  <1>5. ASSUME NEW k \in Turns, NEW n \in Turns, k < n PROVE OpenFollows(k, n)'
    BY <1>1, <1>3, <1>5 DEF OpenFollows
  <1> QED
    BY <1>1, <1>2, <1>4, <1>5 DEF Talk

\* The worker is done with a message: it handed on no end but the one it held.
LEMMA DoneKeepsTalk ==
    ASSUME TalkInv, queue' = queue, held' = Sink!NoMessage,
           \A n \in Turns : PassedClose(n)' => PassedClose(n) \/ held \in CloseOf(n),
           \A n \in Turns : OpenInPlace(n)'
    PROVE  Talk'
  <1>1. /\ Gone(NoTurn)
        /\ \A n \in Turns : CloseFollows(n)
        /\ \A k, n \in Turns : k < n => OpenFollows(k, n)
    BY DEF TalkInv, Talk
  <1>2. ASSUME NEW n \in Turns PROVE CloseFollows(n)'
    <2> DEFINE A == OpenOf(n)
               B == CloseOf(n)
    <2>1. InFront(A, B) /\ (PassedClose(n) => Gone(A))
      BY <1>1 DEF CloseFollows
    <2>2. held' \notin A /\ held' \notin B
      BY NoMessageIsNoTurn
    <2>3. PassedClose(n)' => PassedClose(n) \/ held \in B
      OBVIOUS
    <2> HIDE DEF A, B
    <2>4. InFront(A, B)' /\ (PassedClose(n)' => Gone(A)')
      BY <2>1, <2>2, <2>3, DoneInFront
    <2> QED
      BY <2>4 DEF CloseFollows, A, B
  <1>3. ASSUME NEW k \in Turns, NEW n \in Turns, k < n PROVE OpenFollows(k, n)'
    <2>1. InFront(OpenOf(k), OpenOf(n)) /\ InFront(CloseOf(k), OpenOf(n))
      BY <1>1, <1>3 DEF OpenFollows
    <2>2. held' \notin OpenOf(k) /\ held' \notin CloseOf(k) /\ held' \notin OpenOf(n)
      BY NoMessageIsNoTurn
    <2>3. InFront(OpenOf(k), OpenOf(n))' /\ InFront(CloseOf(k), OpenOf(n))'
      BY <2>1, <2>2, DoneInFront
    <2> QED
      BY <2>3 DEF OpenFollows
  <1>4. Gone(NoTurn)'
    <2>1. held' \notin NoTurn
      BY NoMessageIsNoTurn
    <2> QED
      BY <1>1, <2>1, DoneInFront
  <1> QED
    BY <1>2, <1>3, <1>4 DEF Talk

\* Where the beginning of a turn was, once the worker took a message ...
LEMMA WorkerTakesKeepsTalk ==
    ASSUME TalkInv, Sink!WorkerTakes, outcome' = outcome
    PROVE  Talk'
  <1>1. /\ SinkTypes /\ ThreadsFit /\ Gone(NoTurn)
        /\ \A n \in Turns : OpenInPlace(n) /\ CloseFollows(n)
        /\ \A k, n \in Turns : k < n => OpenFollows(k, n)
    BY DEF TalkInv, Talk, SInv
  <1>2. /\ queue # <<>> /\ held' = Head(queue) /\ queue' = Tail(queue)
        /\ queue \in Seq(Sink!Messages) /\ held = Sink!NoMessage
        /\ UNCHANGED <<transcriptions, hearing, wire, missing>>
    BY <1>1 DEF Sink!WorkerTakes, SinkTypes, ThreadsFit
  <1>3. ASSUME NEW n \in Turns PROVE OpenInPlace(n)'
    <2> DEFINE S == OpenOf(n)
               R == OpeningOf(n)
               c == <<"open", n>>
    <2>1. /\ Once(queue, S)
          /\ One(Holds(queue, S)) + One(held \in S) + One(Holds(wire, R))
               + One(c \in missing) = One(outcome[n] # "none")
      BY <1>1 DEF OpenInPlace, OpenPlaces
    <2>2. held \notin S
      BY <1>2, NoMessageIsNoTurn
    <2> HIDE DEF S, R, c
    <2>3. /\ Holds(queue, S) <=> held' \in S \/ Holds(queue', S)
          /\ Once(queue, S) <=> Once(queue', S) /\ ~(held' \in S /\ Holds(queue', S))
      BY ONLY <1>2, FirstHolds
    <2>4. /\ Once(queue', S)
          /\ One(Holds(queue', S)) + One(held' \in S) + One(Holds(wire', R))
               + One(c \in missing') = One(outcome'[n] # "none")
      BY <1>2, <2>1, <2>2, <2>3 DEF One
    <2> QED
      BY <2>4 DEF OpenInPlace, OpenPlaces, S, R, c
  <1>4. ASSUME NEW n \in Turns PROVE CloseFollows(n)'
    <2>1. InFront(OpenOf(n), CloseOf(n)) /\ (PassedClose(n) => Gone(OpenOf(n)))
      BY <1>1 DEF CloseFollows
    <2>2. PassedClose(n)' <=> PassedClose(n)
      BY <1>2 DEF PassedClose
    <2>3. InFront(OpenOf(n), CloseOf(n))' /\ (Gone(OpenOf(n)) => Gone(OpenOf(n))')
      BY <1>1, <2>1, TakeInFront
    <2> QED
      BY <2>1, <2>2, <2>3 DEF CloseFollows
  <1>5. ASSUME NEW k \in Turns, NEW n \in Turns, k < n PROVE OpenFollows(k, n)'
    <2>1. InFront(OpenOf(k), OpenOf(n)) /\ InFront(CloseOf(k), OpenOf(n))
      BY <1>1, <1>5 DEF OpenFollows
    <2>2. InFront(OpenOf(k), OpenOf(n))' /\ InFront(CloseOf(k), OpenOf(n))'
      BY <1>1, <2>1, TakeInFront
    <2> QED
      BY <2>2 DEF OpenFollows
  <1>6. Gone(NoTurn)'
    BY <1>1, TakeInFront
  <1> QED
    BY <1>3, <1>4, <1>5, <1>6 DEF Talk

\* ... skipped it ...
LEMMA WorkerSkipsKeepsTalk ==
    ASSUME TalkInv, Sink!WorkerSkips, outcome' = outcome
    PROVE  Talk'
  <1>1. /\ queue' = queue /\ held' = Sink!NoMessage /\ held.type \in {"Ignored", "Error"}
        /\ UNCHANGED <<transcriptions, hearing, wire, missing>>
    BY DEF Sink!WorkerSkips
  <1>2. ASSUME NEW n \in Turns PROVE OpenInPlace(n)'
    <2>1. OpenInPlace(n)
      BY DEF TalkInv, Talk
    <2>2. held \notin OpenOf(n) /\ held' \notin OpenOf(n)
      BY <1>1, NoMessageIsNoTurn DEF OpenOf
    <2> QED
      BY <1>1, <2>1, <2>2 DEF OpenInPlace, OpenPlaces
  <1>3. \A n \in Turns : PassedClose(n)' => PassedClose(n)
    BY <1>1 DEF PassedClose
  <1> QED
    BY <1>1, <1>2, <1>3, DoneKeepsTalk

\* The frame sent for a message begins the turn the message begins.
LEMMA FrameOpens ==
    ASSUME SinkTypes, ThreadsFit, Sink!WorkerSends, NEW n \in Turns
    PROVE  Sink!FrameOf(held) \in OpeningOf(n) <=> held \in OpenOf(n)
  <1> DEFINE type == held.type
             f == Sink!FrameOf(held)
  <1>1. held = [type |-> type, sequence |-> held.sequence]
    BY DEF SinkTypes, Sink!Messages
  <1>2. type \in {"Text", "Started", "Cancelled", "Error", "TransmissionReady"}
    BY DEF Sink!WorkerSends, Sink!WorkerSending, ThreadsFit
  <1>3. /\ f = [type |-> f.type, sequence |-> held.sequence]
        /\ f.type = IF type = "Text" THEN "text"
                    ELSE IF type = "Started" THEN "audio_start" ELSE "audio_cancel"
    BY <1>2 DEF Sink!FrameOf, Sink!Frame
  <1> HIDE DEF type, f
  <1>4. f \in OpeningOf(n) <=> f.type = "audio_start" /\ held.sequence = n
    BY <1>3 DEF OpeningOf
  <1>5. held \in OpenOf(n) <=> type = "Started" /\ held.sequence = n
    BY <1>1 DEF OpenOf
  <1>6. f \in OpeningOf(n) <=> held \in OpenOf(n)
    BY <1>2, <1>3, <1>4, <1>5
  <1> QED
    BY <1>6 DEF f

\* What is sent for the first time is on the wire or missing, and nothing else.
LEMMA SendAccounts ==
    ASSUME NEW f \in Frames, NEW loss, wire \in Seq(Frames), Sink!Send(f, loss),
           NEW R, NEW c, f \in R <=> c \in loss, f \in R => ~Holds(wire, R) /\ c \notin missing
    PROVE  /\ One(Holds(wire', R)) + One(c \in missing') =
                One(Holds(wire, R)) + One(c \in missing) + One(f \in R)
           /\ Holds(wire', R) => Holds(wire, R) \/ f \in R
  <1>1. CASE wire' = Append(wire, f) /\ missing' = missing
    <2>1. Holds(wire', R) <=> Holds(wire, R) \/ f \in R
      <3>1. Appended(wire', wire, f, Frames)
        BY <1>1 DEF Appended
      <3> QED
        BY ONLY <3>1, AppendHolds
    <2> QED
      BY <1>1, <2>1 DEF One
  <1>2. CASE missing' = missing \union loss /\ wire' = wire
    BY <1>2 DEF One
  <1> QED
    BY <1>1, <1>2 DEF Sink!Send

\* ... sent it ...
LEMMA WorkerSendsKeepsTalk ==
    ASSUME TalkInv, Sink!WorkerSends, outcome' = outcome
    PROVE  Talk'
  <1> DEFINE f == Sink!FrameOf(held)
             loss == Sink!Loss(held)
  <1>1. SinkTypes /\ ThreadsFit /\ wire \in Seq(Frames) /\ held \in Sink!Messages
    BY DEF TalkInv, SInv, SinkTypes
  <1>2. /\ queue' = queue /\ held' = Sink!NoMessage /\ UNCHANGED <<transcriptions, hearing>>
        /\ Sink!Send(f, loss)
    BY DEF Sink!WorkerSends
  <1>3. f \in Frames /\ \A n \in Turns : f \in ClosingOf(n) <=> held \in CloseOf(n)
    BY <1>1, FrameCloses
  <1>4. \A n \in Turns : f \in OpeningOf(n) <=> held \in OpenOf(n)
    BY <1>1, FrameOpens
  <1>5. \A n \in Turns : <<"open", n>> \in loss <=> held \in OpenOf(n)
    BY <1>1, LossOfOpen
  <1> HIDE DEF f, loss
  <1>6. ASSUME NEW n \in Turns PROVE OpenInPlace(n)'
    <2> DEFINE S == OpenOf(n)
               R == OpeningOf(n)
               c == <<"open", n>>
    <2>1. /\ Once(queue, S)
          /\ One(Holds(queue, S)) + One(held \in S) + One(Holds(wire, R))
               + One(c \in missing) = One(outcome[n] # "none")
      BY DEF TalkInv, Talk, OpenInPlace, OpenPlaces
    <2>2. (f \in R <=> held \in S) /\ (c \in loss <=> held \in S)
      BY <1>4, <1>5
    <2>3. held' \notin S
      BY <1>2, NoMessageIsNoTurn
    <2> HIDE DEF S, R, c
    <2>4. held \in S => ~Holds(wire, R) /\ c \notin missing
      BY <2>1 DEF One
    <2>5. One(Holds(wire', R)) + One(c \in missing') =
            One(Holds(wire, R)) + One(c \in missing) + One(f \in R)
      BY ONLY <1>1, <1>2, <1>3, <2>2, <2>4, SendAccounts
    <2>6. /\ Once(queue', S)
          /\ One(Holds(queue', S)) + One(held' \in S) + One(Holds(wire', R))
               + One(c \in missing') = One(outcome'[n] # "none")
      BY <1>2, <2>1, <2>2, <2>3, <2>5 DEF One
    <2> QED
      BY <2>6 DEF OpenInPlace, OpenPlaces, S, R, c
  <1>7. ASSUME NEW n \in Turns PROVE PassedClose(n)' => PassedClose(n) \/ held \in CloseOf(n)
    <2> DEFINE R == ClosingOf(n)
    <2>1. f \in R <=> held \in CloseOf(n)
      BY <1>3
    <2> HIDE DEF R
    <2>2. Holds(wire', R) => Holds(wire, R) \/ f \in R
      <3>1. CASE wire' = Append(wire, f)
        <4>1. Appended(wire', wire, f, Frames)
          BY <1>1, <1>3, <3>1 DEF Appended
        <4> QED
          BY ONLY <4>1, AppendHolds
      <3>2. CASE wire' = wire
        BY <3>2
      <3> QED
        BY <1>2, <3>1, <3>2 DEF Sink!Send
    <2> QED
      BY <1>2, <2>1, <2>2 DEF PassedClose, R
  <1> QED
    BY <1>2, <1>6, <1>7, DoneKeepsTalk

\* ... or handed it over to the recogniser.
LEMMA WorkerTranscribesKeepsTalk ==
    ASSUME TalkInv, Sink!WorkerTranscribes, outcome' = outcome
    PROVE  Talk'
  <1>1. /\ UNCHANGED <<queue, hearing, wire, missing>> /\ held.type = "TransmissionReady"
        /\ SinkTypes /\ AllReady /\ \A n \in Turns : OpenInPlace(n)
    BY DEF Sink!WorkerTranscribes, TalkInv, Talk, SInv, InOrder
  <1>2. CASE UNCHANGED <<transcriptions, held>>
    <2>1. \A n \in Turns : OpenInPlace(n)'
      BY <1>1, <1>2 DEF OpenInPlace, OpenPlaces
    <2>2. \A n \in Turns : PassedClose(n)' => PassedClose(n)
      BY <1>1, <1>2 DEF PassedClose
    <2> QED
      BY <1>1, <1>2, <2>1, <2>2, ElsewhereKeepsTalk
  <1>3. CASE transcriptions' = Append(transcriptions, held.sequence) /\ held' = Sink!NoMessage
    <2>1. held.sequence \in Turns
      BY <1>1 DEF AllReady, Taken, NumberOf, ReadyTurns
    <2>2. ASSUME NEW n \in Turns PROVE OpenInPlace(n)'
      <3>1. held \notin OpenOf(n) /\ held' \notin OpenOf(n)
        BY <1>1, <1>3, NoMessageIsNoTurn DEF OpenOf
      <3> QED
        BY <1>1, <3>1 DEF OpenInPlace, OpenPlaces
    <2>3. ASSUME NEW n \in Turns PROVE PassedClose(n)' => PassedClose(n) \/ held \in CloseOf(n)
      <3> DEFINE x == held.sequence
                 N == {n}
      <3>1. Appended(transcriptions', transcriptions, x, Turns)
        BY <1>1, <1>3, <2>1 DEF Appended, SinkTypes
      <3>2. x \in N => held \in CloseOf(n)
        BY <1>1 DEF SinkTypes, Sink!Messages, CloseOf
      <3> HIDE DEF x, N
      <3>3. Holds(transcriptions', N) <=> Holds(transcriptions, N) \/ x \in N
        BY ONLY <3>1, AppendHolds
      <3> QED
        BY <1>1, <3>2, <3>3 DEF PassedClose, N
    <2> QED
      BY <1>1, <1>3, <2>2, <2>3, DoneKeepsTalk
  <1> QED
    BY <1>2, <1>3 DEF Sink!WorkerTranscribes

\* The recogniser only takes and answers ends that were handed on before.
LEMMA RecogniserTakesKeepsTalk ==
    ASSUME TalkInv, Sink!RecogniserTakes, outcome' = outcome
    PROVE  Talk'
  <1>1. /\ transcriptions # <<>> /\ hearing' = Head(transcriptions)
        /\ transcriptions' = Tail(transcriptions) /\ transcriptions \in Seq(Turns)
        /\ UNCHANGED <<queue, held, wire, missing>>
    BY DEF Sink!RecogniserTakes, TalkInv, SInv, SinkTypes
  <1>2. ASSUME NEW n \in Turns PROVE OpenInPlace(n)'
    BY <1>1 DEF TalkInv, Talk, OpenInPlace, OpenPlaces
  <1>3. ASSUME NEW n \in Turns PROVE PassedClose(n)' => PassedClose(n)
    <2> DEFINE N == {n}
    <2>1. hearing' = n <=> hearing' \in N
      OBVIOUS
    <2> HIDE DEF N
    <2>2. Holds(transcriptions, N) <=> hearing' \in N \/ Holds(transcriptions', N)
      BY ONLY <1>1, FirstHolds
    <2> QED
      BY <1>1, <2>1, <2>2 DEF PassedClose, N
  <1> QED
    BY <1>1, <1>2, <1>3, ElsewhereKeepsTalk

LEMMA RecogniserAnswersKeepsTalk ==
    ASSUME TalkInv, Sink!RecogniserAnswers, outcome' = outcome
    PROVE  Talk'
  <1> DEFINE loss == {<<"close", hearing>>}
  <1>1. PICK type \in {"transcript", "audio_cancel"} : Sink!Send(Sink!Frame(type, hearing), loss)
    BY DEF Sink!RecogniserAnswers
  <1> DEFINE f == Sink!Frame(type, hearing)
  <1>2. /\ UNCHANGED <<queue, transcriptions, held>> /\ hearing' = 0
        /\ wire \in Seq(Frames) /\ hearing \in 0..MaxTurns
    BY DEF Sink!RecogniserAnswers, TalkInv, SInv, SinkTypes
  <1>3. f \in Frames /\ Sink!Send(f, loss)
    BY <1>1, <1>2 DEF Sink!Frame, Frames
  <1>4. \A n \in Turns : f \notin OpeningOf(n) /\ <<"open", n>> \notin loss
    BY DEF Sink!Frame, OpeningOf
  <1>5. \A n \in Turns : f \in ClosingOf(n) => hearing = n
    BY DEF Sink!Frame, ClosingOf
  <1>6. 0 \notin Turns
    BY DEF Turns
  <1> HIDE DEF f, loss
  <1>7. ASSUME NEW R PROVE Holds(wire', R) => Holds(wire, R) \/ f \in R
    <2>1. CASE wire' = Append(wire, f)
      <3>1. Appended(wire', wire, f, Frames)
        BY <1>2, <1>3, <2>1 DEF Appended
      <3> QED
        BY ONLY <3>1, AppendHolds
    <2>2. CASE wire' = wire
      BY <2>2
    <2> QED
      BY <1>3, <2>1, <2>2 DEF Sink!Send
  <1>8. ASSUME NEW n \in Turns PROVE OpenInPlace(n)'
    <2> DEFINE R == OpeningOf(n)
               c == <<"open", n>>
    <2>1. f \notin R /\ c \notin loss
      BY <1>4
    <2>2. OpenInPlace(n)
      BY DEF TalkInv, Talk
    <2> HIDE DEF R, c
    <2>3. One(Holds(wire', R)) + One(c \in missing') =
            One(Holds(wire, R)) + One(c \in missing) + One(f \in R)
      BY ONLY <1>2, <1>3, <2>1, SendAccounts
    <2> QED
      BY <1>2, <2>1, <2>2, <2>3 DEF OpenInPlace, OpenPlaces, R, c, One
  <1>9. ASSUME NEW n \in Turns PROVE PassedClose(n)' => PassedClose(n)
    BY <1>2, <1>5, <1>6, <1>7 DEF PassedClose
  <1> QED
    BY <1>2, <1>8, <1>9, ElsewhereKeepsTalk

\* A step that moves nothing of a turn.
LEMMA NothingMovesKeepsTalk ==
    ASSUME TalkInv, UNCHANGED <<queue, transcriptions, held, hearing, wire, missing, outcome>>
    PROVE  Talk'
  <1>1. \A n \in Turns : OpenInPlace(n)'
    BY DEF TalkInv, Talk, OpenInPlace, OpenPlaces
  <1>2. \A n \in Turns : PassedClose(n)' => PassedClose(n)
    BY DEF PassedClose
  <1> QED
    BY <1>1, <1>2, ElsewhereKeepsTalk

LEMMA TextSpeaks ==
    ASSUME outcome' = outcome
    PROVE  /\ Speaks([type |-> "Text", sequence |-> 0])
           /\ [type |-> "Text", sequence |-> 0] \in Sink!Messages
           /\ Sink!Loss([type |-> "Text", sequence |-> 0]) = {}
  BY ConfigAssumption DEF Speaks, SaysNothing, NoTurn, OpenOf, CloseOf, Sink!Messages,
     Sink!MessageTypes, Sink!Loss, Sink!Closes

LEMMA TalkStep == TalkInv /\ [SystemNext]_systemVars => TalkInv'
  <1> SUFFICES ASSUME TalkInv, [SystemNext]_systemVars PROVE Talk'
    BY SystemStep DEF TalkInv
  <1>1. SInv /\ IInv /\ IInv'
    BY SystemStep DEF TalkInv, SInv
  <1>2. CASE Begin \/ End \/ Tick
    <2>1. ~stopping /\ Sink!Publish(event') /\ (CommandBegin \/ CommandEnd \/ TickFinishes)
      BY <1>2 DEF Begin, End, Tick, Operate
    <2>2. Speaks(event') /\ event' \in Sink!Messages
      BY <1>1, <2>1, OperationSpeaks, OperationPublishes
    <2> QED
      BY <2>1, <2>2, PublishKeepsTalk
  <1>3. CASE PublishText
    <2> DEFINE m == [type |-> "Text", sequence |-> 0]
    <2>1. Sink!Publish(m) /\ outcome' = outcome
      BY <1>3 DEF PublishText, vars
    <2>2. Speaks(m) /\ m \in Sink!Messages /\ Sink!Loss(m) = {}
      BY <2>1, TextSpeaks
    <2> HIDE DEF m
    <2>3. CASE stopping
      <3>1. UNCHANGED <<queue, transcriptions, held, hearing, wire, missing, outcome>>
        BY <2>1, <2>2, <2>3 DEF Sink!Publish
      <3> QED
        BY <3>1, NothingMovesKeepsTalk
    <2> QED
      BY <2>1, <2>2, <2>3, PublishKeepsTalk
  <1>4. CASE WorkerStep
    <2>1. Sink!WorkerStep /\ outcome' = outcome
      BY <1>4 DEF WorkerStep, SinkOnly, vars
    <2>2. CASE Sink!WorkerExits
      <3>1. UNCHANGED <<queue, transcriptions, held, hearing, wire, missing, outcome>>
        BY <2>1, <2>2 DEF Sink!WorkerExits
      <3> QED
        BY <3>1, NothingMovesKeepsTalk
    <2> QED
      BY <2>1, <2>2, WorkerTakesKeepsTalk, WorkerSkipsKeepsTalk, WorkerSendsKeepsTalk,
         WorkerTranscribesKeepsTalk
         DEF Sink!WorkerStep
  <1>5. CASE RecogniserStep
    <2>1. Sink!RecogniserStep /\ outcome' = outcome
      BY <1>5 DEF RecogniserStep, SinkOnly, vars
    <2>2. CASE Sink!RecogniserWarms \/ Sink!RecogniserExits
      <3>1. UNCHANGED <<queue, transcriptions, held, hearing, wire, missing, outcome>>
        BY <2>1, <2>2 DEF Sink!RecogniserWarms, Sink!RecogniserExits
      <3> QED
        BY <3>1, NothingMovesKeepsTalk
    <2> QED
      BY <2>1, <2>2, RecogniserTakesKeepsTalk, RecogniserAnswersKeepsTalk
         DEF Sink!RecogniserStep
  <1>6. CASE TimePasses \/ Stop \/ UNCHANGED systemVars
    <2>1. UNCHANGED <<queue, transcriptions, held, hearing, wire, missing, outcome>>
      BY <1>6 DEF TimePasses, Stop, SinkOnly, Sink!Stop, sinkVars, systemVars, Elapse, vars
    <2> QED
      BY <2>1, NothingMovesKeepsTalk
  <1> QED
    BY <1>2, <1>3, <1>4, <1>5, <1>6 DEF SystemNext

LEMMA TalkStart == SystemInit => TalkInv
  <1> SUFFICES ASSUME SystemInit PROVE TalkInv
    OBVIOUS
  <1>1. /\ SInv /\ Len(queue) = 0 /\ Len(transcriptions) = 0 /\ Len(wire) = 0
        /\ held = Sink!NoMessage /\ hearing = 0 /\ missing = {}
        /\ \A n \in Turns : outcome[n] = "none" /\ n # 0
    BY SystemStart DEF SystemInit, Sink!Init, Init, Turns
  <1>2. ASSUME NEW S PROVE ~Holds(queue, S) /\ ~Holds(transcriptions, S) /\ ~Holds(wire, S)
                           /\ Once(queue, S)
    BY <1>1 DEF Holds, Once
  <1>3. ASSUME NEW A, NEW B PROVE Before(queue, A, B)
    BY <1>1 DEF Before
  <1>4. ASSUME NEW n \in Turns PROVE OpenInPlace(n) /\ CloseFollows(n)
    <2>1. Gone(OpenOf(n)) /\ ~PassedClose(n) /\ held \notin OpenOf(n) /\ outcome[n] = "none"
      BY <1>1, <1>2, NoMessageIsNoTurn DEF Gone, PassedClose
    <2>2. OpenInPlace(n)
      BY <1>1, <1>2, <2>1 DEF OpenInPlace, OpenPlaces, One
    <2>3. CloseFollows(n)
      BY <1>2, <1>3, <2>1 DEF CloseFollows, InFront
    <2> QED
      BY <2>2, <2>3
  <1>5. ASSUME NEW k \in Turns, NEW n \in Turns PROVE OpenFollows(k, n)
    BY <1>2, <1>3 DEF OpenFollows, InFront
  <1>6. Gone(NoTurn)
    BY <1>1, <1>2, NoMessageIsNoTurn DEF Gone
  <1> QED
    BY <1>1, <1>4, <1>5, <1>6 DEF TalkInv, Talk

LEMMA TalkInvariance == SystemSpec => []TalkInv
  BY TalkStart, TalkStep, PTL DEF SystemSpec
-----------------------------------------------------------------------------
\* What the console was told, by what is on the wire.
LEMMA ToldIsNumbers ==
    ASSUME NEW q \in Seq(Frames), NEW type
    PROVE  {q[i].sequence : i \in {j \in DOMAIN q : q[j].type = type}} = Numbers(q, type)
  <1>1. DOMAIN q = 1..Len(q)
    BY LenProperties
  <1> QED
    BY <1>1 DEF Numbers

LEMMA ToldOnWire ==
    ASSUME SinkTypes, NEW n \in Turns
    PROVE  /\ n \in OpenTold <=> Holds(wire, OpeningOf(n))
           /\ n \in WordsTold \union CancelTold <=> Holds(wire, ClosingOf(n))
  <1>1. \A type : Told(type) = Numbers(wire, type)
    BY ToldIsNumbers DEF SinkTypes, Told
  <1>2. \A i \in 1..Len(wire) : wire[i] = [type |-> wire[i].type, sequence |-> wire[i].sequence]
    <2>1. \A i \in 1..Len(wire) : wire[i] \in Frames
      BY ElementOfSeq DEF SinkTypes
    <2> QED
      BY <2>1 DEF Frames
  <1>3. n \in Numbers(wire, "audio_start") <=> Holds(wire, OpeningOf(n))
    BY <1>2 DEF Numbers, Holds, OpeningOf
  <1>4. n \in Numbers(wire, "transcript") \union Numbers(wire, "audio_cancel")
          <=> Holds(wire, ClosingOf(n))
    BY <1>2 DEF Numbers, Holds, ClosingOf
  <1> QED
    BY <1>1, <1>3, <1>4 DEF OpenTold, WordsTold, CancelTold

LEMMA SendTells ==
    ASSUME SinkTypes, NEW f \in Frames, wire' = Append(wire, f)
    PROVE  /\ OpenTold'   = OpenTold   \union NumberOf(f, "audio_start")
           /\ WordsTold'  = WordsTold  \union NumberOf(f, "transcript")
           /\ CancelTold' = CancelTold \union NumberOf(f, "audio_cancel")
  <1>1. wire \in Seq(Frames) /\ wire' \in Seq(Frames)
    BY AppendProperties DEF SinkTypes
  <1>2. ASSUME NEW type PROVE Told(type)' = Told(type) \union NumberOf(f, type)
    <2>1. Told(type) = Numbers(wire, type) /\ Told(type)' = Numbers(wire', type)
      BY <1>1, ToldIsNumbers DEF Told
    <2>2. Parts(Numbers(wire', type), Numbers(wire, type), NumberOf(f, type))
      BY <1>1, AppendRises
    <2> QED
      BY <2>1, <2>2 DEF Parts
  <1> QED
    BY <1>2 DEF OpenTold, WordsTold, CancelTold

\* A turn's beginning is still to be told just while it is before the worker ...
LEMMA OpenStanding ==
    ASSUME TalkInv, NEW n \in Turns
    PROVE  /\ n \in Dialogue!OpenPending <=> ~Gone(OpenOf(n))
           /\ n \in Dialogue!OpenSettled <=> outcome[n] # "none" /\ Gone(OpenOf(n))
  <1>1. OpenPlaces(n) = One(outcome[n] # "none")
    BY DEF TalkInv, Talk, OpenInPlace
  <1>2. n \in OpenTold <=> Holds(wire, OpeningOf(n))
    BY ToldOnWire DEF TalkInv, SInv
  <1>3. n \in OpenLost <=> <<"open", n>> \in missing
    BY DEF OpenLost, Lost
  <1>4. n \in Dialogue!OpenSettled <=> n \in OpenTold \/ n \in OpenLost
    BY DEF Dialogue!OpenSettled
  <1>5. n \in Dialogue!OpenPending <=> outcome[n] # "none" /\ n \notin Dialogue!OpenSettled
    BY DEF Dialogue!OpenPending
  <1> QED
    BY <1>1, <1>2, <1>3, <1>4, <1>5 DEF OpenPlaces, One, Gone

\* ... and its end until the recogniser answered it, if it was handed over.
WithRecogniser(n) == Holds(transcriptions, {n}) \/ hearing = n

LEMMA CloseStanding ==
    ASSUME TalkInv, NEW n \in Turns
    PROVE  /\ n \in Dialogue!ClosePending <=> ~Gone(CloseOf(n)) \/ WithRecogniser(n)
           /\ n \in Dialogue!CloseSettled <=>
                outcome[n] \in Decided /\ Gone(CloseOf(n)) /\ ~WithRecogniser(n)
  <1>1. Places(n) = One(outcome[n] \in Decided)
    BY DEF TalkInv, SInv, InOnePlace, OnePlace
  <1>2. n \in WordsTold \union CancelTold <=> Holds(wire, ClosingOf(n))
    BY ToldOnWire DEF TalkInv, SInv
  <1>3. n \in CloseLost <=> <<"close", n>> \in missing
    BY DEF CloseLost, Lost
  <1>4. n \in Dialogue!CloseSettled <=> n \in WordsTold \union CancelTold \/ n \in CloseLost
    BY DEF Dialogue!CloseSettled
  <1>5. n \in Dialogue!Over <=> outcome[n] \in Decided
    BY DEF Dialogue!Over, Decided, TalkInv, SInv, IInv, TypeOK, Outcomes
  <1>6. n \in Dialogue!ClosePending <=> n \in Dialogue!Over /\ n \notin Dialogue!CloseSettled
    BY DEF Dialogue!ClosePending
  <1> QED
    BY <1>1, <1>2, <1>3, <1>4, <1>5, <1>6 DEF Places, One, Gone, WithRecogniser

\* An end that is on its way is of a turn whose beginning was settled before.
LEMMA EndOfSettled ==
    ASSUME TalkInv, NEW n \in Turns, held \in CloseOf(n) \/ WithRecogniser(n)
    PROVE  n \in Dialogue!ClosePending \intersect Dialogue!OpenSettled
  <1>1. n \in Dialogue!ClosePending
    BY CloseStanding DEF Gone
  <1>2. outcome[n] # "none"
    <2>1. Places(n) = One(outcome[n] \in Decided)
      BY DEF TalkInv, SInv, InOnePlace, OnePlace
    <2>2. outcome[n] \in Decided
      BY <2>1 DEF Places, One, WithRecogniser
    <2> QED
      BY <2>2 DEF Decided
  <1>3. Gone(OpenOf(n))
    <2>1. InFront(OpenOf(n), CloseOf(n)) /\ (PassedClose(n) => Gone(OpenOf(n)))
      BY DEF TalkInv, Talk, CloseFollows
    <2>2. held \in CloseOf(n) => held \notin OpenOf(n)
      BY DEF OpenOf, CloseOf
    <2> QED
      BY <2>1, <2>2 DEF PassedClose, WithRecogniser, InFront, Gone
  <1> QED
    BY <1>1, <1>2, <1>3, OpenStanding

\* What is lost over a step was still to be told.
LEMMA LosesWhatIsPending ==
    ASSUME TalkInv, wire' = wire, missing \subseteq missing',
           \A n \in Turns : <<"open", n>> \in missing' =>
                <<"open", n>> \in missing \/ ~Gone(OpenOf(n)),
           \A n \in Turns : <<"close", n>> \in missing' =>
                <<"close", n>> \in missing \/ ~Gone(CloseOf(n)) \/ WithRecogniser(n)
    PROVE  Dialogue!Losing
  <1>1. UNCHANGED <<OpenTold, WordsTold, CancelTold>>
    BY DEF OpenTold, WordsTold, CancelTold, Told
  <1>2. \E lost \in SUBSET Dialogue!OpenPending : OpenLost' = OpenLost \union lost
    <2>1. \A n \in OpenLost' : n \in OpenLost \/ n \in Dialogue!OpenPending
      BY OpenStanding DEF OpenLost, Lost
    <2>2. OpenLost \subseteq OpenLost'
      BY DEF OpenLost, Lost
    <2>3. OpenLost' \ OpenLost \in SUBSET Dialogue!OpenPending
      BY <2>1
    <2>4. OpenLost' = OpenLost \union (OpenLost' \ OpenLost)
      BY <2>2
    <2> QED
      BY <2>3, <2>4
  <1>3. \E lost \in SUBSET Dialogue!ClosePending : CloseLost' = CloseLost \union lost
    <2>1. \A n \in CloseLost' : n \in CloseLost \/ n \in Dialogue!ClosePending
      BY CloseStanding DEF CloseLost, Lost
    <2>2. CloseLost \subseteq CloseLost'
      BY DEF CloseLost, Lost
    <2>3. CloseLost' \ CloseLost \in SUBSET Dialogue!ClosePending
      BY <2>1
    <2>4. CloseLost' = CloseLost \union (CloseLost' \ CloseLost)
      BY <2>2
    <2> QED
      BY <2>3, <2>4
  <1> QED
    BY <1>1, <1>2, <1>3 DEF Dialogue!Losing

\* What a full queue drops was still to be told.
LEMMA PublishLoses ==
    ASSUME TalkInv, NEW m \in Sink!Messages, ~stopping, Sink!Publish(m)
    PROVE  Dialogue!Losing
  <1>1. SinkTypes /\ wire' = wire /\ missing \subseteq missing'
    BY DEF TalkInv, SInv, Sink!Publish
  <1>2. PICK lost, kept \in Seq(Sink!Messages) :
             /\ Split(queue, lost, kept)
             /\ \A n \in Turns :
                  /\ <<"close", n>> \in missing' <=>
                       <<"close", n>> \in missing \/ Holds(lost, CloseOf(n))
                  /\ <<"open", n>> \in missing' <=>
                       <<"open", n>> \in missing \/ Holds(lost, OpenOf(n))
    BY <1>1, PublishSplits
  <1>3. ASSUME NEW S PROVE Holds(lost, S) => ~Gone(S)
    <2>1. Holds(lost, S) => Holds(queue, S)
      BY ONLY <1>2, SplitHolds
    <2> QED
      BY <2>1 DEF Gone
  <1> QED
    BY <1>1, <1>2, <1>3, LosesWhatIsPending

\* The controller begins and decides turns in the order the dialogue has them.
LEMMA OperateSpeaks ==
    ASSUME TalkInv, Begin \/ End \/ Tick
    PROVE  Dialogue!Next
  <1>1. ~stopping /\ Sink!Publish(event') /\ (CommandBegin \/ CommandEnd \/ TickFinishes)
    BY DEF Begin, End, Tick, Operate
  <1>2. IInv
    BY DEF TalkInv, SInv
  <1>3. Speaks(event') /\ event' \in Sink!Messages
    BY <1>1, <1>2, OperationSpeaks, OperationPublishes
  <1>4. Dialogue!Losing
    BY <1>1, <1>3, PublishLoses
  <1>5. CASE outcome' = outcome
    BY <1>4, <1>5 DEF Dialogue!Next, Dialogue!Lose
  <1>6. ASSUME NEW n \in Turns, Opens(n, event') PROVE Dialogue!Speak
    <2>1. \A k \in Turns : k < n => k \in Dialogue!Over
      BY <1>6 DEF Opens, Dialogue!Over, Decided
    <2>2. Dialogue!Begin(n)
      BY <1>6, <2>1 DEF Opens, Dialogue!Begin
    <2> QED
      BY <1>4, <2>2 DEF Dialogue!Speak
  <1>7. ASSUME NEW n \in Turns, Ends(n, event') PROVE Dialogue!Speak
    <2>1. Dialogue!Decide(n)
      BY <1>7 DEF Ends, Dialogue!Decide, Decided
    <2> QED
      BY <1>4, <2>1 DEF Dialogue!Speak
  <1> QED
    BY <1>3, <1>5, <1>6, <1>7 DEF Speaks, SaysNothing, Dialogue!Next

\* What the worker does not get through to the console is lost there.
LEMMA WorkerLoses ==
    ASSUME TalkInv, Sink!WorkerSends, outcome' = outcome, wire' = wire,
           missing' = missing \union Sink!Loss(held)
    PROVE  Dialogue!Lose
  <1>1. held \in Sink!Messages
    BY DEF TalkInv, SInv, SinkTypes
  <1>2. ASSUME NEW n \in Turns
        PROVE  /\ <<"open", n>> \in Sink!Loss(held) => ~Gone(OpenOf(n))
               /\ <<"close", n>> \in Sink!Loss(held) => ~Gone(CloseOf(n))
    BY <1>1, LossOfOpen, LossOfClose DEF Gone
  <1>3. Dialogue!Losing
    BY <1>2, LosesWhatIsPending
  <1> QED
    BY <1>3 DEF Dialogue!Lose

\* The worker begins a turn on the wire: every earlier one was begun there or
\* lost, and ended there or lost, but for what the recogniser still has.
LEMMA WorkerTellsOpen ==
    ASSUME TalkInv, NEW n \in Turns, held \in OpenOf(n), outcome' = outcome,
           missing' = missing, OpenTold' = OpenTold \union {n},
           UNCHANGED <<WordsTold, CancelTold>>
    PROVE  Dialogue!TellOpen
  <1>1. /\ held.type = "Started" /\ held.sequence = n
        /\ IInv /\ AllReady /\ SinkTypes
        /\ \A m \in Turns : OpenInPlace(m) /\ CloseFollows(m)
        /\ \A m \in Turns : m < n => OpenFollows(m, n)
    BY DEF OpenOf, TalkInv, Talk, SInv, InOrder
  <1>2. n \in Dialogue!OpenPending /\ outcome[n] # "none"
    <2>1. ~Gone(OpenOf(n))
      BY DEF Gone
    <2>2. OpenPlaces(n) = One(outcome[n] # "none")
      BY <1>1 DEF OpenInPlace
    <2>3. outcome[n] # "none"
      BY <2>2 DEF OpenPlaces, One
    <2> QED
      BY <2>1, <2>3, OpenStanding
  <1>3. n \notin WordsTold \union CancelTold
    <2>1. ~PassedClose(n)
      BY <1>1 DEF CloseFollows, Gone
    <2> QED
      BY <1>1, <2>1, ToldOnWire DEF PassedClose
  <1>4. ASSUME NEW m \in Turns, m < n
        PROVE  /\ m \in Dialogue!OpenSettled
               /\ m \in Dialogue!CloseSettled \/ outcome[m] = "ready"
    <2>1. outcome[m] \in Decided
      BY <1>1, <1>2, <1>4 DEF IInv, TypeOK, NumbersInOrder, OpenTurnIsActive, Turns, Outcomes,
                              Decided
    <2>2. Gone(OpenOf(m)) /\ Gone(CloseOf(m))
      <3>1. ~Holds(queue, OpenOf(m)) /\ ~Holds(queue, CloseOf(m))
        BY <1>1, <1>4 DEF OpenFollows, InFront
      <3>2. m # n
        BY <1>4 DEF Turns
      <3>3. held \notin OpenOf(m) /\ held \notin CloseOf(m)
        BY <1>1, <3>2 DEF OpenOf, CloseOf
      <3> QED
        BY <3>1, <3>3 DEF Gone
    <2>3. m \in Dialogue!OpenSettled
      BY <2>1, <2>2, OpenStanding DEF Decided
    <2>4. WithRecogniser(m) => outcome[m] = "ready"
      <3>1. WithRecogniser(m) => m \in Backlog \union Heard
        BY DEF WithRecogniser, Holds, Backlog, Values, Heard, Turns
      <3> QED
        BY <1>1, <3>1 DEF AllReady, ReadyTurns
    <2> QED
      BY <2>1, <2>2, <2>3, <2>4, CloseStanding
  <1>5. UNCHANGED <<OpenLost, CloseLost>>
    BY DEF OpenLost, CloseLost, Lost
  <1> QED
    BY <1>2, <1>3, <1>4, <1>5 DEF Dialogue!TellOpen

LEMMA WorkerTells ==
    ASSUME TalkInv, Sink!WorkerSends, outcome' = outcome,
           wire' = Append(wire, Sink!FrameOf(held)), missing' = missing
    PROVE  Dialogue!TellOpen \/ Dialogue!TellCancel \/ UNCHANGED Dialogue!dialogueVars
  <1> DEFINE type == held.type
             n == held.sequence
             f == Sink!FrameOf(held)
  <1>1. /\ SinkTypes /\ ThreadsFit /\ AllReady /\ held \notin NoTurn
        /\ held = [type |-> type, sequence |-> n] /\ n \in 0..MaxTurns
    BY DEF TalkInv, Talk, Gone, SInv, InOrder, SinkTypes, Sink!Messages
  <1>2. /\ type \in {"Text", "Started", "Cancelled", "Error", "TransmissionReady"}
        /\ type = "Error" => n # 0
    BY <1>1 DEF Sink!WorkerSends, Sink!WorkerSending, ThreadsFit
  <1>3. type # "Text" => n \in Turns
    <2>1. type = "TransmissionReady" => n \in Turns
      BY <1>1 DEF AllReady, Taken, NumberOf, ReadyTurns
    <2>2. type \in {"Started", "Cancelled"} => n # 0
      BY <1>1 DEF NoTurn
    <2> QED
      BY <1>1, <1>2, <2>1, <2>2 DEF Turns
  <1>4. /\ f \in Frames /\ f.sequence = n
        /\ f.type = IF type = "Text" THEN "text"
                    ELSE IF type = "Started" THEN "audio_start" ELSE "audio_cancel"
    BY <1>1, <1>2, FrameCloses DEF Sink!FrameOf, Sink!Frame
  <1> HIDE DEF f
  <1>5. /\ OpenTold'   = OpenTold   \union NumberOf(f, "audio_start")
        /\ WordsTold'  = WordsTold  \union NumberOf(f, "transcript")
        /\ CancelTold' = CancelTold \union NumberOf(f, "audio_cancel")
    BY <1>1, <1>4, SendTells DEF f
  <1>6. UNCHANGED <<OpenLost, CloseLost>>
    BY DEF OpenLost, CloseLost, Lost
  <1>7. CASE type = "Text"
    <2>1. UNCHANGED <<OpenTold, WordsTold, CancelTold>>
      BY <1>4, <1>5, <1>7 DEF NumberOf
    <2> QED
      BY <1>6, <2>1 DEF Dialogue!dialogueVars
  <1>8. CASE type = "Started"
    <2>1. OpenTold' = OpenTold \union {n} /\ UNCHANGED <<WordsTold, CancelTold>>
      BY <1>4, <1>5, <1>8 DEF NumberOf
    <2>2. n \in Turns /\ held \in OpenOf(n)
      BY <1>1, <1>3, <1>8 DEF OpenOf
    <2> HIDE DEF n, type
    <2> QED
      BY <2>1, <2>2, WorkerTellsOpen
  <1>9. CASE type \in {"Cancelled", "Error", "TransmissionReady"}
    <2>1. CancelTold' = CancelTold \union {n} /\ UNCHANGED <<OpenTold, WordsTold>>
      BY <1>4, <1>5, <1>9 DEF NumberOf
    <2>2. n \in Turns /\ held \in CloseOf(n)
      BY <1>1, <1>3, <1>9 DEF CloseOf
    <2> HIDE DEF n, type
    <2>3. n \in Dialogue!ClosePending \intersect Dialogue!OpenSettled
      BY <2>2, EndOfSettled
    <2> QED
      BY <1>6, <2>1, <2>3 DEF Dialogue!TellCancel
  <1> QED
    BY <1>2, <1>7, <1>8, <1>9

\* The recogniser tells the words of a turn behind those it told before, or that
\* nothing was heard, unless its frame is lost.
LEMMA RecogniserTells ==
    ASSUME TalkInv, Sink!RecogniserAnswers, outcome' = outcome
    PROVE  Dialogue!Lose \/ Dialogue!TellWords \/ Dialogue!TellCancel
  <1> DEFINE n == hearing
             loss == {<<"close", hearing>>}
  <1>1. PICK type \in {"transcript", "audio_cancel"} : Sink!Send(Sink!Frame(type, n), loss)
    BY DEF Sink!RecogniserAnswers
  <1>2. SinkTypes /\ ThreadsFit /\ AllReady /\ OneBehindTheOther /\ recogniser = "hearing"
    BY DEF TalkInv, SInv, InOrder, Sink!RecogniserAnswers
  <1>3. n \in Turns /\ outcome[n] = "ready" /\ Heard = {n}
    BY <1>2 DEF ThreadsFit, SinkTypes, AllReady, Heard, ReadyTurns, Turns
  <1>4. n \in Dialogue!ClosePending \intersect Dialogue!OpenSettled
    BY <1>3, EndOfSettled DEF WithRecogniser
  <1>5. CASE missing' = missing \union loss /\ wire' = wire
    <2>1. ASSUME NEW m \in Turns
          PROVE  <<"open", m>> \notin loss /\ (<<"close", m>> \in loss => WithRecogniser(m))
      BY DEF WithRecogniser
    <2> HIDE DEF loss
    <2>2. Dialogue!Losing
      BY <1>5, <2>1, LosesWhatIsPending
    <2> QED
      BY <2>2 DEF Dialogue!Lose
  <1>6. CASE missing' = missing /\ wire' = Append(wire, Sink!Frame(type, n))
    <2> DEFINE f == Sink!Frame(type, n)
    <2>1. f \in Frames /\ f.type = type /\ f.sequence = n
      BY <1>2 DEF Sink!Frame, Frames, SinkTypes
    <2> HIDE DEF f
    <2>2. /\ OpenTold'   = OpenTold   \union NumberOf(f, "audio_start")
          /\ WordsTold'  = WordsTold  \union NumberOf(f, "transcript")
          /\ CancelTold' = CancelTold \union NumberOf(f, "audio_cancel")
      BY <1>2, <1>6, <2>1, SendTells DEF f
    <2>3. UNCHANGED <<OpenLost, CloseLost>>
      BY <1>6 DEF OpenLost, CloseLost, Lost
    <2>4. CASE type = "transcript"
      <3>1. WordsTold' = WordsTold \union {n} /\ UNCHANGED <<OpenTold, CancelTold>>
        BY <2>1, <2>2, <2>4 DEF NumberOf
      <3>2. \A m \in WordsTold : m < n
        <4>1. WordsTold = Transcribed
          BY <1>2, ToldIsNumbers DEF SinkTypes, WordsTold, Told, Transcribed
        <4> QED
          BY <1>2, <1>3, <4>1 DEF OneBehindTheOther, Ahead
      <3> HIDE DEF n
      <3> QED
        BY <1>3, <1>4, <2>3, <3>1, <3>2 DEF Dialogue!TellWords
    <2>5. CASE type = "audio_cancel"
      <3>1. CancelTold' = CancelTold \union {n} /\ UNCHANGED <<OpenTold, WordsTold>>
        BY <2>1, <2>2, <2>5 DEF NumberOf
      <3> HIDE DEF n
      <3> QED
        BY <1>4, <2>3, <3>1 DEF Dialogue!TellCancel
    <2> QED
      BY <2>4, <2>5
  <1> QED
    BY <1>1, <1>5, <1>6 DEF Sink!Send

\* A step that sends nothing and loses nothing says nothing.
LEMMA SilentStep ==
    ASSUME UNCHANGED <<outcome, wire, missing>>
    PROVE  UNCHANGED Dialogue!dialogueVars
  BY DEF Dialogue!dialogueVars, OpenTold, WordsTold, CancelTold, Told, OpenLost, CloseLost, Lost

LEMMA StepOfTheDialogue ==
    TalkInv /\ [SystemNext]_systemVars => [Dialogue!Next]_(Dialogue!dialogueVars)
  <1> SUFFICES ASSUME TalkInv, [SystemNext]_systemVars
               PROVE  Dialogue!Next \/ UNCHANGED Dialogue!dialogueVars
    OBVIOUS
  <1>1. CASE Begin \/ End \/ Tick
    BY <1>1, OperateSpeaks
  <1>2. CASE PublishText
    <2> DEFINE m == [type |-> "Text", sequence |-> 0]
    <2>1. Sink!Publish(m) /\ outcome' = outcome
      BY <1>2 DEF PublishText, vars
    <2>2. m \in Sink!Messages /\ Sink!Loss(m) = {}
      BY <2>1, TextSpeaks
    <2> HIDE DEF m
    <2>3. CASE stopping
      <3>1. UNCHANGED <<outcome, wire, missing>>
        BY <2>1, <2>2, <2>3 DEF Sink!Publish
      <3> QED
        BY <3>1, SilentStep
    <2>4. CASE ~stopping
      BY <2>1, <2>2, <2>4, PublishLoses DEF Dialogue!Lose, Dialogue!Next
    <2> QED
      BY <2>3, <2>4
  <1>3. CASE WorkerStep
    <2>1. Sink!WorkerStep /\ outcome' = outcome
      BY <1>3 DEF WorkerStep, SinkOnly, vars
    <2>2. CASE Sink!WorkerSends
      <3>1. Sink!Send(Sink!FrameOf(held), Sink!Loss(held))
        BY <2>2 DEF Sink!WorkerSends
      <3> QED
        BY <2>1, <2>2, <3>1, WorkerLoses, WorkerTells DEF Sink!Send, Dialogue!Next
    <2>3. CASE ~Sink!WorkerSends
      <3>1. UNCHANGED <<wire, missing>>
        BY <2>1, <2>3 DEF Sink!WorkerStep, Sink!WorkerTakes, Sink!WorkerExits, Sink!WorkerSkips,
                          Sink!WorkerTranscribes
      <3> QED
        BY <2>1, <3>1, SilentStep
    <2> QED
      BY <2>2, <2>3
  <1>4. CASE RecogniserStep
    <2>1. Sink!RecogniserStep /\ outcome' = outcome
      BY <1>4 DEF RecogniserStep, SinkOnly, vars
    <2>2. CASE Sink!RecogniserAnswers
      BY <2>1, <2>2, RecogniserTells DEF Dialogue!Next
    <2>3. CASE ~Sink!RecogniserAnswers
      <3>1. UNCHANGED <<wire, missing>>
        BY <2>1, <2>3 DEF Sink!RecogniserStep, Sink!RecogniserWarms, Sink!RecogniserTakes,
                          Sink!RecogniserExits
      <3> QED
        BY <2>1, <3>1, SilentStep
    <2> QED
      BY <2>2, <2>3
  <1>5. CASE TimePasses \/ Stop \/ UNCHANGED systemVars
    <2>1. UNCHANGED <<outcome, wire, missing>>
      BY <1>5 DEF TimePasses, Stop, SinkOnly, Sink!Stop, sinkVars, systemVars, Elapse, vars
    <2> QED
      BY <2>1, SilentStep
  <1> QED
    BY <1>1, <1>2, <1>3, <1>4, <1>5 DEF SystemNext

\* Before the first turn nothing was told and nothing lost.
LEMMA DialogueStart == SystemInit => Dialogue!Init
  <1> SUFFICES ASSUME SystemInit PROVE Dialogue!Init
    OBVIOUS
  <1>1. wire = <<>> /\ missing = {} /\ outcome = [n \in Turns |-> "none"]
    BY DEF SystemInit, Sink!Init, Init
  <1>2. OpenTold = {} /\ WordsTold = {} /\ CancelTold = {}
    BY <1>1 DEF OpenTold, WordsTold, CancelTold, Told
  <1>3. OpenLost = {} /\ CloseLost = {}
    BY <1>1 DEF OpenLost, CloseLost, Lost
  <1> QED
    BY <1>1, <1>2, <1>3 DEF Dialogue!Init

\* For every size of the queues and any number of turns, what the console is told
\* of the pilot's turns is what TurnDialogue promises (KeepsTheDialogue): a
\* turn's beginning before its end, in the order of the turns, each once or lost
\* and counted (async_websocket_ptt_sink.cpp:67-261).
THEOREM SystemKeepsTheDialogue == SystemSpec => KeepsTheDialogue
  <1>1. SystemInit => Dialogue!Init
    BY DialogueStart
  <1>2. TalkInv /\ [SystemNext]_systemVars => [Dialogue!Next]_(Dialogue!dialogueVars)
    BY StepOfTheDialogue
  <1> QED
    BY <1>1, <1>2, TalkInvariance, PTL DEF SystemSpec, KeepsTheDialogue, Dialogue!Spec
============================================================================
