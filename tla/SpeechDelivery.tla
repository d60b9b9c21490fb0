--------------------------- MODULE SpeechDelivery ---------------------------
(***************************************************************************)
(* How a console's reply is spoken and acknowledged                        *)
(* (src/xplane/xplane_plugin.cpp:602-859).  The websocket receiver thread  *)
(* submits the reply for synthesis and queues it; the flight loop takes    *)
(* it, plays its sentences on a radio as they become ready and tells the   *)
(* console whether the pilot heard it.  The synthesis thread appends       *)
(* sentences meanwhile.  Of each thread a step is one locked section.  The *)
(* replies are the Speeches of SynthesisQueue, in the order they arrive.   *)
(***************************************************************************)
EXTENDS SynthesisQueue

CONSTANTS
    MaxReplies,        \* bound: how many replies arrive
    MaxQueuedReplies   \* kMaxQueuedReplies, 16 in the code

ASSUME DeliveryAssumption ==
    /\ MaxQueuedReplies \in Nat \ {0}
    /\ MaxReplies \in Nat
    /\ Speeches = 1..MaxReplies

VARIABLES
    voices,    \* whether g_synthesis exists: the controllers' voices are loaded
    wants,     \* what each reply asks for, its urgency and length in request
    received,  \* how many replies have arrived
    incoming,  \* the reply the receiver thread is queueing, 0 for none
    queue,     \* g_reply_queue
    active,    \* g_active_speech, 0 for none
    at,        \* where the flight loop is in advance_synthesized_speech
    played,    \* next_sentence of each reply: how many were put on the radio
    onAir,     \* now < sentence_ends_at_ms: the last of them is still heard
    late,      \* kSynthesisDeadlineMs have passed since the reply was started
    acks,      \* the speak_acks published, in order
    dropped,   \* history: replies discarded from a full g_reply_queue
    begun      \* history: the replies taken from g_reply_queue, in order

receiverVars  == <<received, incoming, dropped>>
activeVars    == <<active, at, played, onAir, late, acks>>
deliveryVars == <<voices, wants, received, incoming, queue, active, at, played, onAir,
                  late, acks, dropped, begun>>
systemVars == <<vars, deliveryVars>>

\* To be spoken, only to be noted, or nothing at all.
ReplyKinds == {"speech", "silence", "nothing"}

Ack(r, ok, basis) == [reply |-> r, ok |-> ok, ack_basis |-> basis]

\* The bound MaxSentences is on the sentences of all replies together.
DeliveryInit ==
    /\ voices \in BOOLEAN
    /\ wants \in [Speeches -> ReplyKinds]
    /\ Init
    /\ \A r \in Speeches : wants[r] # "speech" => request[r].sentences = 0
    /\ Cardinality({p \in Speeches \X (1..MaxSentences) : p[2] <= request[p[1]].sentences})
         <= MaxSentences
    /\ received = 0 /\ incoming = 0
    /\ queue = <<>>
    /\ active = 0 /\ at = "frame"
    /\ played = [r \in Speeches |-> 0]
    /\ onAir = FALSE /\ late = FALSE
    /\ acks = <<>> /\ dropped = {} /\ begun = <<>>
-----------------------------------------------------------------------------
\* queue_atc_reply, on the receiver thread: submit, then queue.
Spoken(r) == voices /\ wants[r] = "speech"

ReceiverSubmits ==
    /\ incoming = 0
    /\ received < MaxReplies
    /\ received' = received + 1
    /\ incoming' = received + 1
    /\ IF Spoken(received + 1) THEN Submit(received + 1)
                               ELSE UNCHANGED vars
    /\ UNCHANGED <<voices, wants, queue, activeVars, dropped, begun>>

ReceiverQueues ==
    /\ incoming # 0
    /\ incoming' = 0
    /\ IF Len(queue) >= MaxQueuedReplies
         THEN /\ queue' = Append(Tail(queue), incoming)
              /\ dropped' = dropped \union {Head(queue)}
         ELSE /\ queue' = Append(queue, incoming)
              /\ UNCHANGED dropped
    /\ UNCHANGED <<voices, wants, vars, received, activeVars, begun>>

SynthesisStep ==
    /\ WorkerStep
    /\ UNCHANGED <<voices, wants, receiverVars, queue, activeVars, begun>>

-----------------------------------------------------------------------------
\* take_atc_reply: the first urgent reply, or the first of all.
Urgent == {i \in DOMAIN queue : request[queue[i]].urgent}
\* Bug: the latest is selected.
Latest(S) == CHOOSE i \in S : \A j \in S : i >= j

First(S) == CHOOSE i \in S : \A j \in S : i <= j

Take(i) ==
    /\ queue' = RemoveAt(queue, i)
    /\ begun' = Append(begun, queue[i])

\* Bug: a reply with no text is passed over.
AcknowledgedUnlessEmpty(r) ==
    CASE wants[r] = "nothing"  -> <<>>
      [] wants[r] = "silence"  -> <<Ack(r, TRUE, "speech_not_requested")>>
      [] wants[r] = "speech"   ->
           IF voices THEN <<>> ELSE <<Ack(r, FALSE, "voices_unavailable")>>

\* start_atc_reply: acknowledge at once, or put it on the air.
AcknowledgedAtOnce(r) ==
    CASE wants[r] = "nothing"  -> <<Ack(r, FALSE, "empty_text")>>
      [] wants[r] = "silence"  -> <<Ack(r, TRUE, "speech_not_requested")>>
      [] wants[r] = "speech"   ->
           IF voices THEN <<>> ELSE <<Ack(r, FALSE, "voices_unavailable")>>

Start(r, before) ==
    /\ acks' = acks \o before \o AcknowledgedAtOnce(r)
    /\ active' = IF Spoken(r) THEN r ELSE 0
    /\ at' = IF Spoken(r) THEN "advancing" ELSE "frame"
    /\ onAir' = FALSE
    /\ late' = FALSE
    /\ UNCHANGED played

FinishActive(ok, basis) ==
    /\ acks' = Append(acks, Ack(active, ok, basis))
    /\ active' = 0
    /\ at' = "frame"
    /\ onAir' = FALSE
    /\ late' = FALSE

\* Bug: the reply taken off the air is not acknowledged.
PreemptSilently ==
    /\ at = "frame"
    /\ active # 0
    /\ Urgent # {}
    /\ Take(First(Urgent))
    /\ Start(queue[First(Urgent)], <<>>)
    /\ UNCHANGED <<voices, wants, vars, receiverVars>>

\* Bug: the reply taken off the air is acknowledged as heard.
PreemptAsHeard ==
    /\ at = "frame"
    /\ active # 0
    /\ Urgent # {}
    /\ Take(First(Urgent))
    /\ Start(queue[First(Urgent)],
             <<Ack(active, TRUE, "preempted_by_urgent_speech")>>)
    /\ UNCHANGED <<voices, wants, vars, receiverVars>>

\* process_atc_replies with a reply on the air: an urgent one takes its place.
Preempt ==
    /\ at = "frame"
    /\ active # 0
    /\ Urgent # {}
    /\ Take(First(Urgent))
    /\ Start(queue[First(Urgent)],
             <<Ack(active, FALSE, "preempted_by_urgent_speech")>>)
    /\ UNCHANGED <<voices, wants, vars, receiverVars>>

\* ... and with none, which is also where the frame goes on once one is over.
TakeNext ==
    /\ at = "frame"
    /\ active = 0
    /\ queue # <<>>
    /\ Take(1)
    /\ Start(Head(queue), <<>>)
    /\ UNCHANGED <<voices, wants, vars, receiverVars>>

\* advance_synthesized_speech, once the sentence on the air is over: is the
\* next one ready?
Advance ==
    /\ at = "frame"
    /\ active # 0
    /\ Urgent = {}
    /\ ~onAir
    /\ at' = "advancing"
    /\ UNCHANGED <<voices, wants, vars, receiverVars, queue, active,
                   played, onAir, late, acks, begun>>

PlaySentence ==
    /\ at = "advancing"
    /\ played[active] < made[active]
    /\ \/ /\ played' = [played EXCEPT ![active] = @ + 1]
          /\ onAir' = TRUE
          /\ at' = "frame"
          /\ UNCHANGED <<active, late, acks>>
       \/ FinishActive(FALSE, "radio_refused_audio") /\ UNCHANGED played
    /\ UNCHANGED <<voices, wants, vars, receiverVars, queue, begun>>

NoneReady ==
    /\ at = "advancing"
    /\ played[active] >= made[active]
    /\ at' = "deciding"
    /\ UNCHANGED <<voices, wants, vars, receiverVars, queue, active,
                   played, onAir, late, acks, begun>>

\* Bug: a speech that ended is taken for one that was made.
VerdictUnfailed ==
    CASE active \in finished /\ played[active] = 0 ->
           FinishActive(FALSE, "synthesis_failed")
      [] active \in finished /\ played[active] # 0 ->
           FinishActive(TRUE, "synthesized_playback_elapsed")
      [] active \notin finished /\ played[active] = 0 /\ late ->
           FinishActive(FALSE, "synthesis_timed_out")
      [] OTHER -> at' = "frame" /\ UNCHANGED <<active, onAir, late, acks>>

\* ... and when it was not, is the speech over?
Verdict ==
    CASE active \in finished /\ played[active] = 0 ->
           FinishActive(FALSE, "synthesis_failed")
      [] active \in finished /\ played[active] # 0 ->
           IF active \in failed THEN FinishActive(FALSE, "synthesis_failed_partway")
                                ELSE FinishActive(TRUE, "synthesized_playback_elapsed")
      [] active \notin finished /\ played[active] = 0 /\ late ->
           FinishActive(FALSE, "synthesis_timed_out")
      [] OTHER -> at' = "frame" /\ UNCHANGED <<active, onAir, late, acks>>

Decide ==
    /\ at = "deciding"
    /\ Verdict
    /\ UNCHANGED <<voices, wants, vars, receiverVars, queue, played, begun>>

\* The clock, read once per frame.
SentenceEnds ==
    /\ at = "frame"
    /\ onAir
    /\ onAir' = FALSE
    /\ UNCHANGED <<voices, wants, vars, receiverVars, queue, active, at,
                   played, late, acks, begun>>

DeadlinePasses ==
    /\ at = "frame"
    /\ active # 0
    /\ ~late
    /\ late' = TRUE
    /\ UNCHANGED <<voices, wants, vars, receiverVars, queue, active, at,
                   played, onAir, acks, begun>>

FlightLoop == Preempt \/ TakeNext \/ Advance \/ PlaySentence \/ NoneReady \/ Decide

DeliveryNext ==
    \/ ReceiverSubmits \/ ReceiverQueues \/ SynthesisStep \/ FlightLoop
    \/ SentenceEnds \/ DeadlinePasses

\* The three threads run and a sentence ends; nothing is owed of the console.
DeliveryFairness ==
    /\ WF_systemVars(ReceiverQueues) /\ WF_systemVars(SynthesisStep)
    /\ WF_systemVars(FlightLoop) /\ WF_systemVars(SentenceEnds)

DeliverySpec == DeliveryInit /\ [][DeliveryNext]_systemVars /\ DeliveryFairness
-----------------------------------------------------------------------------
One(b) == IF b THEN 1 ELSE 0

\* Between the receiver thread and the flight loop no reply is lost, taken twice
\* or acknowledged twice: an arrived reply is being queued, queued, on the air,
\* acknowledged once or dropped, and never two of these at a time; preemption
\* and every way a speech can end settle the reply they take off the air.
EachReplyInOnePlace ==
    \A r \in 1..received :
        One(incoming = r) + One(active = r) + One(r \in dropped)
          + Cardinality({i \in DOMAIN queue : queue[i] = r})
          + Cardinality({i \in DOMAIN acks : acks[i].reply = r}) = 1

\* The radio never runs ahead of the voice, and what the console is told of a
\* reply fits what became of it: it was heard at least in part, its synthesis
\* did not fail, and nobody is told so while a sentence is still on the air.
AckFitsPlayback ==
    /\ \A r \in Speeches : played[r] <= made[r] /\ made[r] <= request[r].sentences
    /\ \A i \in DOMAIN acks :
         LET r == acks[i].reply IN
         /\ acks[i].ack_basis = "synthesized_playback_elapsed" =>
              played[r] > 0 /\ r \in finished \ failed
         /\ acks[i].ack_basis \in {"synthesis_timed_out", "synthesis_failed"} =>
              played[r] = 0
    /\ onAir => active # 0 /\ played[active] > 0

\* A reply is said in its turn: only an urgent one is begun before another that
\* arrived earlier and was not dropped, and urgent ones keep their own order.
OnlyUrgentOvertakes ==
    \A i, j \in DOMAIN begun :
        i < j /\ begun[i] > begun[j] =>
            request[begun[i]].urgent /\ ~request[begun[j]].urgent

Acknowledged(r) == \E i \in DOMAIN acks : acks[i].reply = r

\* The console waits for its speak_ack: whatever the voices, the radio and later
\* replies do, one that arrived is acknowledged, unless it was dropped.
ReplyIsAcknowledged ==
    \A r \in Speeches : received >= r ~> (Acknowledged(r) \/ r \in dropped)

\* The ledger of ReplyLedger, read off the acknowledgements and the radio.
Told     == {acks[i].reply : i \in DOMAIN acks}
Believed == {acks[i].reply : i \in {n \in DOMAIN acks : acks[n].ok}}
Heard    == {r \in Speeches : played[r] > 0}
ToSpeak  == {r \in Speeches : Spoken(r)}

Ledger == INSTANCE ReplyLedger WITH
    Replies  <- Speeches, spoken   <- ToSpeak, arrived  <- received,
    speaking <- active,   heard    <- Heard,   answered <- Told,
    believed <- Believed

\* Step by step, what the receiver thread, the flight loop and the synthesis
\* thread do to a reply is what ReplyLedger promises: an answer is given once and
\* never taken back or changed, a reply whose turn is over is not put on the air
\* again, nothing is dropped once begun, and one that was cut off, or of which
\* nothing was played, is never answered as done (xplane_plugin.cpp:602-859).
KeepsTheLedger == Ledger!Spec

\* "the console must not believe a pilot heard what they did not"
\* (xplane_plugin.cpp:752-753): ok means every sentence was put on the radio.
AckOkMeansHeard ==
    \A i \in DOMAIN acks :
        acks[i].ok /\ wants[acks[i].reply] = "speech" =>
            played[acks[i].reply] = request[acks[i].reply].sentences
=============================================================================
