--------------------------- MODULE PttController ---------------------------
(***************************************************************************)
(* The push-to-talk controller (src/ptt/push_to_talk_controller.cpp) and   *)
(* the microphone it drives.  Every operation runs on X-Plane's main       *)
(* thread; each one publishes at most one event to the sink.               *)
(*                                                                         *)
(* Time is the age of the recording, in coarse units and saturating: the   *)
(* controller only ever compares it with its two configured limits.        *)
(***************************************************************************)
EXTENDS Naturals

CONSTANTS
    MinTransmission,  \* config_.min_transmission_ms
    MaxTransmission,  \* config_.max_transmission_ms; 0 disables the limit
    MaxTurns          \* bound: how many turns a behaviour may start

ASSUME ConfigAssumption ==
    MinTransmission \in Nat /\ MaxTransmission \in Nat /\ MaxTurns \in Nat

VARIABLES
    state,           \* state_
    activeSequence,  \* active_sequence_
    nextSequence,    \* next_sequence_
    age,             \* elapsed_ms(now) of the running recording
    microphone,      \* MiniaudioAudioRecorder::recording_
    event,           \* the PttEvent published last
    outcome          \* history: what the published events said of each turn

vars == <<state, activeSequence, nextSequence, age, microphone, event, outcome>>

Turns    == 1..MaxTurns
States   == {"Idle", "Recording", "Faulted"}
Outcomes == {"none", "open", "ready", "cancelled", "error"}
MaxAge   == IF MinTransmission > MaxTransmission THEN MinTransmission
                                                 ELSE MaxTransmission

EventTypes == {"Started", "TransmissionReady", "Cancelled", "Ignored", "Error"}
Events     == [type : EventTypes, sequence : 0..MaxTurns]
NoEvent    == [type |-> "Ignored", sequence |-> 0]

OutcomeOf(type) ==
    CASE type = "Started"           -> "open"
      [] type = "TransmissionReady" -> "ready"
      [] type = "Cancelled"         -> "cancelled"
      [] type = "Error"             -> "error"

\* sink_.publish(event).  A turn is whatever the latest event about it says;
\* an ignored press says nothing about a turn, nor does an error without one.
Publish(type, sequence) ==
    /\ event' = [type |-> type, sequence |-> sequence]
    /\ outcome' = IF type = "Ignored" \/ sequence = 0
                    THEN outcome
                    ELSE [outcome EXCEPT ![sequence] = OutcomeOf(type)]

Init ==
    /\ state = "Idle"
    /\ activeSequence = 0
    /\ nextSequence = 1
    /\ age = 0
    /\ microphone = FALSE
    /\ event = NoEvent
    /\ outcome = [n \in Turns |-> "none"]

----------------------------------------------------------------------------
\* publish_ignored: the state is untouched, the event carries the active turn.
Ignore ==
    /\ Publish("Ignored", activeSequence)
    /\ UNCHANGED <<state, activeSequence, nextSequence, age, microphone>>

\* Bug: a repeated press starts the recording's clock again.
BeginIgnoredAnew ==
    /\ state \in {"Faulted", "Recording"}
    /\ Publish("Ignored", activeSequence)
    /\ age' = 0
    /\ UNCHANGED <<state, activeSequence, nextSequence, microphone>>

\* A press while faulted or while a turn is already being recorded.
BeginIgnored ==
    /\ state \in {"Faulted", "Recording"}
    /\ Ignore

\* Bug: the number is not used up.
BeginStartedReusing ==
    /\ state = "Idle" /\ ~microphone /\ nextSequence <= MaxTurns
    /\ state' = "Recording" /\ activeSequence' = nextSequence
    /\ age' = 0 /\ microphone' = TRUE
    /\ Publish("Started", nextSequence)
    /\ UNCHANGED nextSequence

\* The device opened: a new turn starts under the next sequence number.
BeginStarted ==
    /\ state = "Idle"
    /\ ~microphone
    /\ nextSequence <= MaxTurns
    /\ state' = "Recording"
    /\ activeSequence' = nextSequence
    /\ nextSequence' = nextSequence + 1
    /\ age' = 0
    /\ microphone' = TRUE
    /\ Publish("Started", nextSequence)

\* The device could not be opened, or is open already: the controller faults
\* without having taken a sequence number.
BeginFailed ==
    /\ state = "Idle"
    /\ state' = "Faulted"
    /\ Publish("Error", activeSequence)
    /\ UNCHANGED <<activeSequence, nextSequence, age, microphone>>

\* finish_recording, when the recorder stopped: too short a turn is cancelled.
Finish ==
    /\ state' = "Idle"
    /\ activeSequence' = 0
    /\ age' = 0
    /\ microphone' = FALSE
    /\ Publish(IF age < MinTransmission THEN "Cancelled" ELSE "TransmissionReady",
               activeSequence)
    /\ UNCHANGED nextSequence

\* finish_recording, when the recorder reports a failure.  AudioRecorder lets
\* it fail with the device in either state; the turn keeps its number.
FinishFailed ==
    /\ state' = "Faulted"
    /\ microphone' \in BOOLEAN
    /\ Publish("Error", activeSequence)
    /\ UNCHANGED <<activeSequence, nextSequence, age>>

EndIgnored == state # "Recording" /\ Ignore

EndFinishes == state = "Recording" /\ (Finish \/ FinishFailed)

\* tick: the limit on a transmission, or nothing.
TickDue == state = "Recording" /\ MaxTransmission # 0 /\ age >= MaxTransmission

TickFinishes == TickDue /\ (Finish \/ FinishFailed)

\* Called by the tests only: the plugin never resets a fault.
ResetFault ==
    /\ state = "Faulted"
    /\ state' = "Idle"
    /\ activeSequence' = 0
    /\ age' = 0
    /\ UNCHANGED <<nextSequence, microphone, event, outcome>>

\* The simulator's clock advances between two callbacks.
Elapse ==
    /\ state = "Recording"
    /\ age < MaxAge
    /\ age' = age + 1
    /\ UNCHANGED <<state, activeSequence, nextSequence, microphone, event, outcome>>

CommandBegin == BeginIgnored \/ BeginStarted \/ BeginFailed
CommandEnd   == EndIgnored \/ EndFinishes

Next == CommandBegin \/ CommandEnd \/ TickFinishes \/ ResetFault \/ Elapse

\* X-Plane runs the flight loop every frame and its clock advances; it owes
\* the controller no release: the command may begin and never end.
Fairness == WF_vars(TickFinishes) /\ WF_vars(Elapse)

Spec == Init /\ [][Next]_vars /\ Fairness
----------------------------------------------------------------------------
TypeOK ==
    /\ state \in States
    /\ activeSequence \in 0..MaxTurns
    /\ nextSequence \in 1..(MaxTurns + 1)
    /\ age \in 0..MaxAge
    /\ microphone \in BOOLEAN
    /\ event \in Events
    /\ outcome \in [Turns -> Outcomes]

\* The console has at most one turn to wait for, and it is the one being
\* recorded: whatever order presses, releases, ticks and faults come in, the
\* events published leave no other turn open (push_to_talk_controller.cpp:13-103).
OpenTurnIsActive ==
    \A n \in Turns : outcome[n] = "open" <=> (state = "Recording" /\ activeSequence = n)

\* The microphone is never open while the controller is idle after a turn it
\* reported as finished: an idle controller with the device open can only be
\* one whose recorder failed to stop, which it reported as an error.
OpenMicrophoneIsAccountedFor ==
    microphone => \/ state = "Recording"
                  \/ \E n \in Turns : outcome[n] = "error"

\* A turn's outcome is decided once: after it was ready, cancelled or failed no
\* later press, release, tick or reset publishes anything more about it, and
\* sequence numbers are taken in order (command_begin, finish_recording).
OutcomeIsFinal ==
    [][\A n \in Turns :
         /\ outcome[n] \in {"ready", "cancelled", "error"} => outcome'[n] = outcome[n]
         /\ outcome[n] = "none" /\ outcome'[n] # "none" =>
              /\ outcome'[n] = "open"
              /\ \A m \in Turns : m < n => outcome'[m] \notin {"none", "open"}]_vars

\* A key that is never released does not hold the turn open: the limit ends it
\* (tick).  Only a limit that is configured can.
HeldKeyIsReleased ==
    MaxTransmission # 0 =>
        \A n \in Turns : outcome[n] = "open" ~> outcome[n] # "open"
============================================================================
