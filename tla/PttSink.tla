------------------------------ MODULE PttSink ------------------------------
(***************************************************************************)
(* AsyncWebSocketPttSink (src/transport/async_websocket_ptt_sink.cpp): the *)
(* queue X-Plane's threads publish to, the worker thread that sends it,    *)
(* and the recogniser's thread, which sends to the same socket.            *)
(*                                                                         *)
(* A step is what happens under mutex_, or one send; the two threads       *)
(* interleave between them.                                                *)
(***************************************************************************)
EXTENDS BoundedQueue, SequencesExt

CONSTANTS
    MaxQueuedMessages,        \* kMaxQueuedMessages, 256 in the code
    MaxQueuedTranscriptions,  \* kMaxQueuedTranscriptions, 4 in the code
    Sequences0                \* turn numbers, and 0 for no turn

VARIABLES
    queue,           \* queue_
    dropped,         \* dropped_
    stopping,        \* stopping_
    transcriptions,  \* transcriptions_: the turns waiting for the recogniser
    worker,          \* where run() is: waiting, holding, cancelling, exited
    held,            \* the message run() took
    recogniser,      \* where run_transcription() is; absent without a model
    hearing,         \* the turn it is transcribing, 0 when none
    wire,            \* the frames the console was sent, in order
    missing          \* history: turn frames dropped from the queue or not sent

vars == <<queue, dropped, stopping, transcriptions, worker, held, recogniser,
          hearing, wire, missing>>

MessageTypes == {"Started", "TransmissionReady", "Cancelled", "Ignored",
                 "Error", "Text"}
Messages == [type : MessageTypes, sequence : Sequences0]
NoMessage == [type |-> "Ignored", sequence |-> 0]

Frame(type, n) == [type |-> type, sequence |-> n]

\* A turn is opened by its start and closed by one of the other events.
Closes(message) ==
    /\ message.type \in {"TransmissionReady", "Cancelled", "Error"}
    /\ message.sequence # 0

\* What is lost to the console with a message that is never sent.
Loss(message) ==
    IF message.type = "Started" THEN {<<"open", message.sequence>>}
    ELSE IF Closes(message) THEN {<<"close", message.sequence>>}
    ELSE {}

Init ==
    /\ queue = <<>>
    /\ dropped = 0
    /\ stopping = FALSE
    /\ transcriptions = <<>>
    /\ worker = "waiting"
    /\ held = NoMessage
    /\ recogniser \in {"absent", "warming"}   \* set_transcriber, or no model
    /\ hearing = 0
    /\ wire = <<>>
    /\ missing = {}

----------------------------------------------------------------------------
\* publish and publish_text: refused once stopping, else enqueue_locked.
Publish(message) ==
    /\ IF stopping
         THEN /\ missing' = missing \union Loss(message)
              /\ UNCHANGED <<queue, dropped>>
         ELSE LET gone == Discarded(queue, message, MaxQueuedMessages) IN
              /\ queue' = PushBounded(queue, message, MaxQueuedMessages)
              /\ dropped' = dropped + Len(gone)
              /\ missing' = missing \union UNION {Loss(m) : m \in ToSet(gone)}
    /\ UNCHANGED <<stopping, transcriptions, worker, held, recogniser, hearing, wire>>

\* send_text on the socket: the frame arrives, or it is lost and only reported.
Send(frame, loss) ==
    \/ wire' = Append(wire, frame) /\ UNCHANGED missing
    \/ missing' = missing \union loss /\ UNCHANGED wire

\* Bug: the message published last is sent first.
WorkerTakesLast ==
    /\ worker = "waiting"
    /\ queue # <<>>
    /\ held' = Last(queue)
    /\ queue' = Front(queue)
    /\ worker' = "holding"
    /\ UNCHANGED <<dropped, stopping, transcriptions, recogniser, hearing, wire, missing>>

\* run: take the next message, even while stopping.
WorkerTakes ==
    /\ worker = "waiting"
    /\ queue # <<>>
    /\ held' = Head(queue)
    /\ queue' = Tail(queue)
    /\ worker' = "holding"
    /\ UNCHANGED <<dropped, stopping, transcriptions, recogniser, hearing, wire, missing>>

\* run returns only once the queue is drained.
WorkerExits ==
    /\ worker = "waiting"
    /\ stopping
    /\ queue = <<>>
    /\ worker' = "exited"
    /\ UNCHANGED <<queue, dropped, stopping, transcriptions, held, recogniser,
                   hearing, wire, missing>>

\* Bug: an error sends nothing, whether or not a turn was open.
WorkerSkipsErrors ==
    /\ worker = "holding"
    /\ held.type \in {"Ignored", "Error"}
    /\ worker' = "waiting"
    /\ held' = NoMessage
    /\ UNCHANGED <<queue, dropped, stopping, transcriptions, recogniser, hearing,
                   wire, missing>>

\* process_event: an ignored press and an error outside a turn send nothing.
WorkerSkips ==
    /\ worker = "holding"
    /\ held.type = "Ignored" \/ (held.type = "Error" /\ held.sequence = 0)
    /\ worker' = "waiting"
    /\ held' = NoMessage
    /\ UNCHANGED <<queue, dropped, stopping, transcriptions, recogniser, hearing,
                   wire, missing>>

FrameOf(message) ==
    Frame(CASE message.type = "Text"    -> "text"
            [] message.type = "Started" -> "audio_start"
            [] OTHER                    -> "audio_cancel",
          message.sequence)

\* The worker is in send_text: it waits for the client's lock, dials, or sends.
WorkerSending ==
    \/ /\ worker = "holding"
       /\ \/ held.type \in {"Text", "Started", "Cancelled"}
          \/ held.type = "Error" /\ held.sequence # 0
    \/ worker = "cancelling"

\* run and process_event: text, audio_start, and the audio_cancel of a short,
\* a faulted or (from "cancelling") an untranscribed turn.  The step is the end
\* of the send, which may never come.
WorkerSends ==
    /\ WorkerSending
    /\ Send(FrameOf(held), Loss(held))
    /\ worker' = "waiting"
    /\ held' = NoMessage
    /\ UNCHANGED <<queue, dropped, stopping, transcriptions, recogniser, hearing>>

\* Bug: stopping_ is not looked at.
WorkerTranscribesStopping ==
    /\ worker = "holding"
    /\ held.type = "TransmissionReady"
    /\ IF recogniser # "absent" /\ Len(transcriptions) < MaxQueuedTranscriptions
         THEN /\ transcriptions' = Append(transcriptions, held.sequence)
              /\ worker' = "waiting"
              /\ held' = NoMessage
         ELSE /\ worker' = "cancelling"
              /\ UNCHANGED <<transcriptions, held>>
    /\ UNCHANGED <<queue, dropped, stopping, recogniser, hearing, wire, missing>>

\* Bug: a turn that cannot be handed over is forgotten.
WorkerTranscribesOrForgets ==
    /\ worker = "holding"
    /\ held.type = "TransmissionReady"
    /\ transcriptions' =
         IF recogniser # "absent" /\ ~stopping
              /\ Len(transcriptions) < MaxQueuedTranscriptions
           THEN Append(transcriptions, held.sequence) ELSE transcriptions
    /\ worker' = "waiting"
    /\ held' = NoMessage
    /\ UNCHANGED <<queue, dropped, stopping, recogniser, hearing, wire, missing>>

\* transcribe: hand the turn over, or go on to cancel it.
WorkerTranscribes ==
    /\ worker = "holding"
    /\ held.type = "TransmissionReady"
    /\ IF /\ recogniser # "absent"
          /\ ~stopping
          /\ Len(transcriptions) < MaxQueuedTranscriptions
         THEN /\ transcriptions' = Append(transcriptions, held.sequence)
              /\ worker' = "waiting"
              /\ held' = NoMessage
         ELSE /\ worker' = "cancelling"
              /\ UNCHANGED <<transcriptions, held>>
    /\ UNCHANGED <<queue, dropped, stopping, recogniser, hearing, wire, missing>>

----------------------------------------------------------------------------
\* run_transcription: the model loads first, whatever is asked meanwhile.
RecogniserWarms ==
    /\ recogniser = "warming"
    /\ recogniser' = "waiting"
    /\ UNCHANGED <<queue, dropped, stopping, transcriptions, worker, held, hearing,
                   wire, missing>>

RecogniserTakes ==
    /\ recogniser = "waiting"
    /\ transcriptions # <<>>
    /\ hearing' = Head(transcriptions)
    /\ transcriptions' = Tail(transcriptions)
    /\ recogniser' = "hearing"
    /\ UNCHANGED <<queue, dropped, stopping, worker, held, wire, missing>>

\* Bug: only work wakes the thread.
RecogniserExitsOnWork ==
    /\ recogniser = "waiting"
    /\ stopping
    /\ transcriptions # <<>>
    /\ recogniser' = "exited"
    /\ UNCHANGED <<queue, dropped, stopping, transcriptions, worker, held, hearing,
                   wire, missing>>

RecogniserExits ==
    /\ recogniser = "waiting"
    /\ stopping
    /\ transcriptions = <<>>
    /\ recogniser' = "exited"
    /\ UNCHANGED <<queue, dropped, stopping, transcriptions, worker, held, hearing,
                   wire, missing>>

\* The words, or a cancel when nothing usable was heard; this too is the end of
\* a send that may never return.
RecogniserAnswers ==
    /\ recogniser = "hearing"
    /\ \E type \in {"transcript", "audio_cancel"} :
         Send(Frame(type, hearing), {<<"close", hearing>>})
    /\ recogniser' = "waiting"
    /\ hearing' = 0
    /\ UNCHANGED <<queue, dropped, stopping, transcriptions, worker, held>>

\* stop: the joins are the two threads' own exits.
Stop ==
    /\ ~stopping
    /\ stopping' = TRUE
    /\ UNCHANGED <<queue, dropped, transcriptions, worker, held, recogniser, hearing,
                   wire, missing>>

WorkerStep == WorkerTakes \/ WorkerExits \/ WorkerSkips \/ WorkerSends \/ WorkerTranscribes
RecogniserStep == RecogniserWarms \/ RecogniserTakes \/ RecogniserExits \/ RecogniserAnswers

Next == (\E m \in Messages : Publish(m)) \/ WorkerStep \/ RecogniserStep \/ Stop

\* Both threads are the operating system's to run, but nobody owes them the end
\* of a send: it holds the client's lock, for which the other thread then waits,
\* and the console may leave it in the recv of an upgrade or in a send
\* (transport/websocket_client.cpp:594, 558).
WorkerRuns     == ~WorkerSending /\ WorkerStep
RecogniserRuns == recogniser # "hearing" /\ RecogniserStep

Fairness == WF_vars(WorkerRuns) /\ WF_vars(RecogniserRuns)

Spec == Init /\ [][Next]_vars /\ Fairness
----------------------------------------------------------------------------
=============================================================================
