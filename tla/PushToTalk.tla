----------------------------- MODULE PushToTalk -----------------------------
(***************************************************************************)
(* A push-to-talk turn from the button to the console: the controller on   *)
(* X-Plane's main thread publishing into the sink, whose two threads send. *)
(* XPluginStop takes the command and the flight loop away before it stops  *)
(* the sink, so a stopping sink hears no more of the controller; the other *)
(* threads may publish text at any time.                                   *)
(***************************************************************************)
EXTENDS PttController, Sequences, FiniteSets

CONSTANTS
    MaxQueuedMessages,        \* kMaxQueuedMessages, 256 in the code
    MaxQueuedTranscriptions,  \* kMaxQueuedTranscriptions, 4 in the code
    MaxChatter   \* bound: publications that are not about a turn

ASSUME PushToTalkAssumption ==
    /\ MaxQueuedMessages \in Nat \ {0}
    /\ {MaxQueuedTranscriptions, MaxChatter} \subseteq Nat

VARIABLES queue, dropped, stopping, transcriptions, worker, held, recogniser,
          hearing, wire, missing,   \* the sink's, see PttSink
          chatter

Sink == INSTANCE PttSink WITH Sequences0 <- 0..MaxTurns

sinkVars == <<queue, dropped, stopping, transcriptions, worker, held, recogniser,
              hearing, wire, missing>>
systemVars == <<vars, sinkVars, chatter>>

SystemInit == Init /\ Sink!Init /\ chatter = 0

\* An operation of the controller and the publication it makes of its event.
AboutATurn(e) == e.type # "Ignored" /\ e.sequence # 0

Operate(operation) ==
    /\ ~stopping
    /\ operation
    /\ Sink!Publish(event')
    /\ IF AboutATurn(event') THEN UNCHANGED chatter
       ELSE chatter < MaxChatter /\ chatter' = chatter + 1

Begin == Operate(CommandBegin)
End   == Operate(CommandEnd)
Tick  == Operate(TickFinishes)

TimePasses == ~stopping /\ Elapse /\ UNCHANGED <<sinkVars, chatter>>

\* Telemetry, navdata and the panel's requests share the queue.
PublishText ==
    /\ chatter < MaxChatter
    /\ chatter' = chatter + 1
    /\ Sink!Publish([type |-> "Text", sequence |-> 0])
    /\ UNCHANGED vars

SinkOnly(step)  == step /\ UNCHANGED <<vars, chatter>>
WorkerStep      == SinkOnly(Sink!WorkerStep)
RecogniserStep  == SinkOnly(Sink!RecogniserStep)
Stop            == SinkOnly(Sink!Stop)

SystemNext == \/ Begin \/ End \/ Tick \/ TimePasses \/ PublishText
              \/ WorkerStep \/ RecogniserStep \/ Stop

\* Nothing is owed of the pilot, of the telemetry or of XPluginStop, nor that a
\* send returns: see PttSink.
SystemFairness == /\ WF_systemVars(Tick) /\ WF_systemVars(TimePasses)
                  /\ WF_systemVars(SinkOnly(Sink!WorkerRuns))
                  /\ WF_systemVars(SinkOnly(Sink!RecogniserRuns))

SystemSpec == SystemInit /\ [][SystemNext]_systemVars /\ SystemFairness
-----------------------------------------------------------------------------
Decided       == {"ready", "cancelled", "error"}
CloseOf(n)    == [type : {"TransmissionReady", "Cancelled", "Error"}, sequence : {n}]
ClosingOf(n)  == [type : {"audio_cancel", "transcript"}, sequence : {n}]

\* How often the close of turn n is anywhere, once the controller published it.
CountIn(seq, S) == Cardinality({i \in DOMAIN seq : seq[i] \in S})
One(b) == IF b THEN 1 ELSE 0

Whereabouts(n) ==
    CountIn(queue, CloseOf(n)) + One(held \in CloseOf(n))
      + CountIn(transcriptions, {n}) + One(hearing = n)
      + CountIn(wire, ClosingOf(n)) + One(<<"close", n>> \in missing)

\* Between two threads, two queues and a socket, the close of a finished turn is
\* in exactly one place: it is neither lost without being accounted for nor sent
\* twice (the worker cancels what the recogniser also answers).
CloseInOnePlace ==
    \A n \in Turns : Whereabouts(n) = One(outcome[n] \in Decided)

\* What the pilot said is sent in the order it was said, whatever was cancelled
\* around it, and only for a turn that was long enough.
TranscriptsInOrder ==
    \A i, j \in DOMAIN wire :
        wire[i].type = "transcript" =>
            /\ outcome[wire[i].sequence] = "ready"
            /\ wire[j].type = "transcript" /\ i < j =>
                 wire[i].sequence < wire[j].sequence

Settled(n) ==
    \/ <<"close", n>> \in missing
    \/ \E i \in DOMAIN wire : wire[i] \in ClosingOf(n)

\* What may hold the sink's threads for ever: the worker in a send, or the
\* recogniser with one turn, whose words it cannot send.
SendNeverReturns == [](Sink!WorkerSending) \/ [](recogniser = "hearing")

\* The console is never left waiting on a turn it was told of: the turn is
\* transcribed or cancelled, or its close was lost and counted, or the plugin is
\* being unloaded (async_websocket_ptt_sink.cpp:130-133), or a send never returns.
OpenTurnIsSettled ==
    \A n \in Turns : outcome[n] = "open" ~> (Settled(n) \/ stopping \/ SendNeverReturns)

\* Stopping drains: a turn that was over when the sink stopped is still settled,
\* unless a send never returns (run, run_transcription, transcribe).
FinishedTurnIsSettled ==
    \A n \in Turns : outcome[n] \in Decided ~> (Settled(n) \/ SendNeverReturns)

\* stop() returns: both threads it joins exit, unless one of them is held in a
\* send for ever, as XPluginStop closes the client only after it joined them.
StopReturns ==
    stopping ~> \/ worker = "exited" /\ recogniser \in {"absent", "exited"}
                \/ SendNeverReturns

\* The dialogue of TurnDialogue, read off the wire and what was lost.
Told(type) == {wire[i].sequence : i \in {j \in DOMAIN wire : wire[j].type = type}}
Lost(what) == {n \in Turns : <<what, n>> \in missing}

OpenTold   == Told("audio_start")
WordsTold  == Told("transcript")
CancelTold == Told("audio_cancel")
OpenLost   == Lost("open")
CloseLost  == Lost("close")

Dialogue == INSTANCE TurnDialogue WITH
    phase <- outcome, opened <- OpenTold, heard <- WordsTold, cancelled <- CancelTold,
    unopened <- OpenLost, unclosed <- CloseLost

\* Step by step, what the controller, the queue and the two sending threads do
\* with a turn is what TurnDialogue promises: its beginning is told or lost before
\* anything is told of its end, turns begin on the wire in order and only turns
\* the recogniser still has are overtaken by the beginning of a later one
\* (async_websocket_ptt_sink.cpp:67-261).
KeepsTheDialogue == Dialogue!Spec
=============================================================================
