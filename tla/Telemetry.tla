----------------------------- MODULE Telemetry -----------------------------
(***************************************************************************)
(* What the console orders and what it is told                             *)
(* (src/xplane/xplane_plugin.cpp): the receiver thread applies the         *)
(* console's sampling rate and notification preference and queues its      *)
(* queries and radio tunings; the flight loop tunes, samples when a frame  *)
(* is due, answers, and looks at the connection last; the sink's sender    *)
(* thread sends, and dials when the connection is gone.  Of each thread a  *)
(* step is one locked section.                                             *)
(*                                                                         *)
(* Time is how long ago something was, up to MaxAge; the simulator's clock *)
(* stands still while it is paused.                                        *)
(***************************************************************************)
EXTENDS Traffic

CONSTANTS
    LocalIntervals,      \* TelemetryRatePolicy: the interval of each kind of flight
    Orders,              \* the intervals a console may command, 0 for none
    Preferences,         \* the notification preferences a console may command
    NoPreference,        \* NotificationController without a command
    kTrafficMinInterval, \* kTrafficMinIntervalSecs, 0.5 s in the code
    MaxAge,              \* bound: times longer ago than this are not told apart
    Skies,               \* what X-Plane may give of the traffic
    Samples,             \* further skies, to take pictures of
    Unsampled,
    TunedFor,            \* the (com, target) pairs the console's tunings may name
    MaxFrames,           \* bound: frames the console sends
    MaxConnections,      \* bound: connections
    MaxEvents            \* bound: frames, connections and changes of X-Plane's
                         \* pause, together

ASSUME TelemetryAssumption ==
    /\ MaxAge \in Nat
    /\ \A interval \in LocalIntervals \union Orders \union {kTrafficMinInterval} :
         interval \in 0..MaxAge
    /\ {MaxFrames, MaxConnections, MaxEvents} \subseteq Nat
    /\ Unsampled \notin Skies
    /\ Skies \union Samples \subseteq Sky

VARIABLES
    paused, pauses,  \* X-Plane's pause
    conn,            \* the connection the plugin has, 0 for none
    conns,           \* how many there have been
    at,              \* where the receiver thread is
    readOn,          \* the connection it reads from, 0 for none
    frames,          \* how many frames it has read
    got,             \* the frame it is handling
    commanded,       \* g_rate_controller.commanded_secs
    prefs,           \* g_notifications.preferences()
    queries, tunes,  \* g_pending_queries, g_pending_radio_tunes
    frame,           \* where the flight loop is in its frame
    taken,           \* the queries it has taken
    age,             \* now_secs - g_last_telemetry_sent_secs; MaxAge before the first
    hasPause,        \* g_has_last_pause_sent
    lastPause,       \* g_last_pause_sent
    traffic,         \* the sky of g_last_traffic, Unsampled for none
    trafficAge,      \* now_secs - g_last_traffic_secs
    radios,          \* the last tuning each COM frequency was given, 0 for none
    outbox,          \* whether a telemetry frame waits in the sink, whose queue
                     \* is here the latest frame, and discards none
    \* history
    ordered,         \* what the console of this connection has ordered
    asked, answered, \* the queries received and answered
    told,            \* the last connection a telemetry frame was sent on
    seenDown,        \* whether a frame of the flight loop saw the last loss
    sawLoss,         \* whether the receiver did
    owed             \* whether the flight loop had yet to sample when the
                     \* connection came up, after a frame that saw it down

clock    == <<paused, pauses>>
link     == <<conn, conns>>
receiver == <<at, readOn, frames, got>>
rate     == <<age, hasPause, lastPause>>
view     == <<traffic, trafficAge>>
ghosts   == <<told, seenDown, sawLoss, owed>>
history  == <<ordered, asked, answered, ghosts>>
vars == <<clock, link, receiver, commanded, prefs, queries, tunes, frame, taken,
          rate, view, radios, outbox, history>>

NoOrders == [interval |-> 0, preference |-> NoPreference]

Order(interval) == [kind |-> "telemetry_control", value |-> interval]
Wish(p)         == [kind |-> "notification_control", value |-> p]
Query           == [kind |-> "telemetry_query", value |-> 0]
Tuning(t)       == [kind |-> "radio_tune", value |-> t]
None            == [kind |-> "none", value |-> 0]
Frames == {Order(interval) : interval \in Orders} \union {Wish(p) : p \in Preferences}
          \union {Tuning(t) : t \in TunedFor} \union {Query}

\* Orders once frame f is obeyed too.
Obeying(f, orders) ==
    CASE f.kind = "telemetry_control"    -> [orders EXCEPT !.interval = f.value]
      [] f.kind = "notification_control" -> [orders EXCEPT !.preference = f.value]
      [] OTHER                           -> orders

Radios == {1, 2} \X {"active", "standby"}

Init ==
    /\ paused \in BOOLEAN /\ pauses = 0
    /\ conn = 0 /\ conns = 0
    /\ at = "top" /\ readOn = 0 /\ frames = 0 /\ got = None
    /\ commanded = 0 /\ prefs = NoPreference
    /\ queries = <<>> /\ tunes = <<>>
    /\ frame = "tunes" /\ taken = <<>>
    /\ age = MaxAge /\ hasPause = FALSE /\ lastPause = FALSE
    /\ traffic = Unsampled /\ trafficAge = kTrafficMinInterval
    /\ radios = [r \in Radios |-> 0]
    /\ outbox = FALSE
    /\ ordered = NoOrders /\ asked = <<>> /\ answered = <<>>
    /\ told = 0 /\ seenDown = TRUE /\ sawLoss = TRUE /\ owed = FALSE
-----------------------------------------------------------------------------
(* The simulator and the connection. *)
Happens == frames + conns + pauses < MaxEvents

Older(a, most) == IF a < most THEN a + 1 ELSE a

Tick ==
    /\ ~paused
    /\ age' = Older(age, MaxAge)
    /\ trafficAge' = Older(trafficAge, kTrafficMinInterval)
    /\ UNCHANGED <<clock, link, receiver, commanded, prefs, queries, tunes, frame, taken,
                   hasPause, lastPause, traffic, radios, outbox, history>>

Pause ==
    /\ Happens
    /\ pauses' = pauses + 1
    /\ paused' = ~paused
    /\ UNCHANGED <<link, receiver, commanded, prefs, queries, tunes, frame, taken,
                   rate, view, radios, outbox, history>>

\* The connection is noticed to be gone, by any thread.
Lose ==
    /\ conn # 0
    /\ conn' = 0
    /\ seenDown' = FALSE
    /\ sawLoss' = (sawLoss /\ readOn # conn)
    /\ owed' = FALSE
    /\ UNCHANGED <<clock, conns, receiver, commanded, prefs, queries, tunes, frame, taken,
                   rate, view, radios, outbox, ordered, asked, answered, told>>

Dials ==
    /\ conn = 0 /\ conns < MaxConnections /\ Happens
    /\ conns' = conns + 1
    /\ conn' = conns + 1
    /\ ordered' = NoOrders
    /\ owed' = (seenDown /\ frame \in {"tunes", "sample"})

\* The sender dials for whatever it has to send; a telemetry frame it has when
\* no dial succeeds is lost.
SenderDials ==
    /\ Dials
    /\ UNCHANGED <<clock, receiver, commanded, prefs, queries, tunes, frame, taken,
                   rate, view, radios, outbox, asked, answered, told, seenDown, sawLoss>>

SenderSends ==
    /\ outbox
    /\ outbox' = FALSE
    /\ told' = IF conn = 0 THEN told ELSE conn
    /\ UNCHANGED <<clock, link, receiver, commanded, prefs, queries, tunes, frame, taken,
                   rate, view, radios, ordered, asked, answered, seenDown, sawLoss, owed>>
-----------------------------------------------------------------------------
(* reply_receiver_loop. *)

\* receive_text finds a connection, or dials one, or fails.
ReceiverStarts ==
    /\ at = "top"
    /\ \/ /\ conn # 0
          /\ at' = "reading" /\ readOn' = conn
          /\ UNCHANGED <<link, ordered, owed>>
       \/ Dials /\ at' = "reading" /\ readOn' = conns + 1
       \/ conn = 0 /\ at' = "failed" /\ readOn' = 0 /\ UNCHANGED <<link, ordered, owed>>
    /\ UNCHANGED <<clock, frames, got, commanded, prefs, queries, tunes, frame, taken,
                   rate, view, radios, outbox, asked, answered, told, seenDown, sawLoss>>

\* Its recv ends with a frame, or with the connection.
ReceiverReads ==
    /\ at = "reading" /\ conn = readOn /\ frames < MaxFrames /\ Happens
    /\ frames' = frames + 1
    /\ at' = "handling"
    /\ got' \in Frames
    /\ ordered' = Obeying(got', ordered)
    /\ UNCHANGED <<clock, link, readOn, commanded, prefs, queries, tunes, frame, taken,
                   rate, view, radios, outbox, asked, answered, ghosts>>

ReceiverIsCut ==
    /\ at = "reading" /\ conn # readOn
    /\ at' = "failed"
    /\ readOn' = 0
    /\ UNCHANGED <<clock, link, frames, got, commanded, prefs, queries, tunes, frame,
                   taken, rate, view, radios, outbox, history>>

\* A frame goes to the first it is meant for; a command with no usable interval
\* is one for the local policy.
ReceiverHandles ==
    /\ at = "handling"
    /\ at' = "top"
    /\ got' = None
    /\ commanded' = IF got.kind = "telemetry_control" THEN got.value ELSE commanded
    /\ prefs' = IF got.kind = "notification_control" THEN got.value ELSE prefs
    /\ IF got.kind = "telemetry_query"
       THEN queries' = Append(queries, frames) /\ asked' = Append(asked, frames)
       ELSE UNCHANGED <<queries, asked>>
    /\ tunes' = IF got.kind = "radio_tune"
                THEN Append(tunes, [number |-> frames, radio |-> got.value]) ELSE tunes
    /\ UNCHANGED <<clock, link, readOn, frames, frame, taken, rate, view, radios, outbox,
                   ordered, answered, ghosts>>

\* Bug: the rate a console commanded survives it.
ReceiverForgetsNoRate ==
    /\ at = "failed"
    /\ at' = "clearing"
    /\ UNCHANGED <<clock, link, readOn, frames, got, commanded, prefs, queries, tunes, frame,
                   taken, rate, view, radios, outbox, history>>

\* After a failure: the rate and then the preference go back to the local ones,
\* and the receiver sleeps for a second.
ReceiverForgetsRate ==
    /\ at = "failed"
    /\ at' = "clearing"
    /\ commanded' = 0
    /\ UNCHANGED <<clock, link, readOn, frames, got, prefs, queries, tunes, frame,
                   taken, rate, view, radios, outbox, history>>

ReceiverForgetsPreference ==
    /\ at = "clearing"
    /\ at' = "sleeping"
    /\ prefs' = NoPreference
    /\ sawLoss' = TRUE
    /\ UNCHANGED <<clock, link, readOn, frames, got, commanded, queries, tunes, frame, taken,
                   rate, view, radios, outbox, ordered, asked, answered, told, seenDown, owed>>

ReceiverWakes ==
    /\ at = "sleeping"
    /\ at' = "top"
    /\ UNCHANGED <<clock, link, readOn, frames, got, commanded, prefs, queries, tunes, frame,
                   taken, rate, view, radios, outbox, history>>
-----------------------------------------------------------------------------
(* flight_loop_callback, from the radios on. *)

\* radio_tune_dataref: a tuning that names no radio is for the selected one.
TunedRadio(tuning, selected) ==
    <<IF tuning.radio[1] \in {1, 2} THEN tuning.radio[1] ELSE IF selected = 2 THEN 2 ELSE 1,
      tuning.radio[2]>>

\* Of several for one radio the last is what it is left on.
TunedLast(r, selected) ==
    {i \in DOMAIN tunes :
        /\ TunedRadio(tunes[i], selected) = r
        /\ \A j \in (i + 1)..Len(tunes) : TunedRadio(tunes[j], selected) # r}

\* Bug: the tunings are copied.
TuneRadiosCopying ==
    /\ frame = "tunes"
    /\ frame' = "sample"
    /\ \E selected \in 0..2 :
         radios' = [r \in Radios |->
                      IF TunedLast(r, selected) = {} THEN radios[r]
                      ELSE CHOOSE n \in {tunes[i].number : i \in TunedLast(r, selected)} : TRUE]
    /\ UNCHANGED <<clock, link, receiver, commanded, prefs, queries, tunes, taken,
                   rate, view, outbox, history>>

\* process_pending_radio_tunes.  COM 0 stands for no selection.
TuneRadios ==
    /\ frame = "tunes"
    /\ frame' = "sample"
    /\ \E selected \in 0..2 :
         radios' = [r \in Radios |->
                      IF TunedLast(r, selected) = {} THEN radios[r]
                      ELSE CHOOSE n \in {tunes[i].number : i \in TunedLast(r, selected)} : TRUE]
    /\ tunes' = <<>>
    /\ UNCHANGED <<clock, link, receiver, commanded, prefs, queries, taken,
                   rate, view, outbox, history>>

\* TelemetryRateController::interval_secs.
Interval(local) == IF commanded > 0 THEN commanded ELSE local

Due(local) == ~hasPause \/ paused # lastPause \/ age >= Interval(local)

\* Bug: the time of the last frame is stored whether one was due or not.
SampleStamping ==
    /\ frame = "sample"
    /\ frame' = "queries"
    /\ age' = 0
    /\ \E local \in LocalIntervals :
         IF Due(local)
         THEN /\ hasPause' = TRUE
              /\ lastPause' = paused
              /\ outbox' = TRUE
              /\ traffic' \in Skies
              /\ trafficAge' = 0
         ELSE UNCHANGED <<hasPause, lastPause, outbox, view>>
    /\ UNCHANGED <<clock, link, receiver, commanded, prefs, queries, tunes, taken,
                   radios, history>>

\* sample_traffic: a picture is kept for a while.
SampleTraffic ==
    IF traffic # Unsampled /\ trafficAge < kTrafficMinInterval
    THEN UNCHANGED view
    ELSE traffic' \in Skies /\ trafficAge' = 0

\* sample_and_send_telemetry.
Sample ==
    /\ frame = "sample"
    /\ frame' = "queries"
    /\ \E local \in LocalIntervals :
         IF Due(local)
         THEN /\ age' = 0
              /\ hasPause' = TRUE
              /\ lastPause' = paused
              /\ outbox' = TRUE
              /\ SampleTraffic
         ELSE UNCHANGED <<rate, outbox, view>>
    /\ UNCHANGED <<clock, link, receiver, commanded, prefs, queries, tunes, taken,
                   radios, history>>

\* Bug: the queries are copied.
TakeQueriesCopying ==
    /\ frame = "queries"
    /\ frame' = "answers"
    /\ taken' = queries
    /\ UNCHANGED <<clock, link, receiver, commanded, prefs, queries, tunes,
                   rate, view, radios, outbox, history>>

\* process_pending_queries: the queue is swapped out, and then answered.
TakeQueries ==
    /\ frame = "queries"
    /\ frame' = "answers"
    /\ taken' = queries
    /\ queries' = <<>>
    /\ UNCHANGED <<clock, link, receiver, commanded, prefs, tunes,
                   rate, view, radios, outbox, history>>

AnswerQueries ==
    /\ frame = "answers"
    /\ frame' = "retry"
    /\ answered' = answered \o taken
    /\ taken' = <<>>
    /\ UNCHANGED <<clock, link, receiver, commanded, prefs, queries, tunes,
                   rate, view, radios, outbox, ordered, asked, ghosts>>

\* Bug: the next frame waits for the clock.
RetryQuietly ==
    /\ frame = "retry"
    /\ frame' = "tunes"
    /\ seenDown' = (seenDown \/ conn = 0)
    /\ UNCHANGED <<clock, link, receiver, commanded, prefs, queries, tunes, taken,
                   rate, view, radios, outbox, ordered, asked, answered, told, sawLoss, owed>>

\* The part of retry_navdata_after_websocket_reconnect that is about telemetry.
Retry ==
    /\ frame = "retry"
    /\ frame' = "tunes"
    /\ hasPause' = (hasPause /\ conn # 0)
    /\ seenDown' = (seenDown \/ conn = 0)
    /\ UNCHANGED <<clock, link, receiver, commanded, prefs, queries, tunes, taken,
                   age, lastPause, view, radios, outbox, ordered, asked, answered, told,
                   sawLoss, owed>>

FlightLoop == TuneRadios \/ Sample \/ TakeQueries \/ AnswerQueries \/ Retry
Receive    == \/ ReceiverStarts \/ ReceiverIsCut \/ ReceiverHandles \/ ReceiverForgetsRate
              \/ ReceiverForgetsPreference \/ ReceiverWakes

Next == \/ Tick \/ Pause \/ Lose \/ SenderDials \/ SenderSends
        \/ Receive \/ ReceiverReads \/ FlightLoop

\* The flight loop runs, paused or not, and the clock goes on unless X-Plane is
\* paused.  Nothing makes a dial succeed, a send return or a console send.
Fairness == WF_vars(FlightLoop) /\ WF_vars(Tick)

Spec == Init /\ [][Next]_vars /\ Fairness
-----------------------------------------------------------------------------
LinkOK ==
    /\ conns \in 0..MaxConnections /\ conn \in 0..conns /\ told \in 0..conns
    /\ at \in {"top", "reading", "handling", "failed", "clearing", "sleeping"}
    /\ readOn \in 0..conns /\ frames \in 0..MaxFrames

OrdersOK ==
    /\ got \in Frames \union {None}
    /\ commanded \in Orders \union {0} /\ prefs \in Preferences \union {NoPreference}
    /\ ordered \in [interval : Orders \union {0}, preference : Preferences \union {NoPreference}]

QueuesOK ==
    /\ queries \in Seq(1..MaxFrames) /\ taken \in Seq(1..MaxFrames)
    /\ asked \in Seq(1..MaxFrames) /\ answered \in Seq(1..MaxFrames)
    /\ tunes \in Seq([number : 1..MaxFrames, radio : TunedFor])

FlightLoopOK ==
    /\ pauses \in 0..MaxEvents
    /\ frame \in {"tunes", "sample", "queries", "answers", "retry"}
    /\ age \in 0..MaxAge
    /\ traffic \in Skies \union {Unsampled} /\ trafficAge \in 0..kTrafficMinInterval
    /\ radios \in [Radios -> 0..MaxFrames]

FlagsOK ==
    /\ paused \in BOOLEAN /\ hasPause \in BOOLEAN /\ lastPause \in BOOLEAN
    /\ outbox \in BOOLEAN
    /\ seenDown \in BOOLEAN /\ sawLoss \in BOOLEAN /\ owed \in BOOLEAN

TypeOK == LinkOK /\ OrdersOK /\ QueuesOK /\ FlightLoopOK /\ FlagsOK

InForce == [interval |-> commanded, preference |-> prefs]

\* The rate and the preference in force are those the console ordered that the
\* receiver is reading from, whatever consoles there were before: as long as
\* the receiver saw the loss of each.  It does not see one that comes and is
\* repaired while it is busy with a frame.
CommandIsTheConsoles ==
    at = "reading" /\ conn = readOn /\ sawLoss =>
        InForce = ordered

\* Each query the receiver takes is answered once, in the order they came, also
\* those that come while the flight loop answers (process_pending_queries).
AnswersInOrder == answered \o taken \o queries = asked

\* No radio is put back on an earlier tuning, whatever is tuned together and
\* whichever radio is the selected one (process_pending_radio_tunes).
RadiosNeverGoBack == [][\A r \in Radios : radios'[r] >= radios[r]]_radios

HonestSkies   == {s \in Skies : IsHonest(s)}
HonestSamples == \A s \in Samples : IsHonest(s)

\* The picture of the traffic says what it leaves out (extract_targets).
PictureIsHonest == traffic \in HonestSkies \union {Unsampled} /\ HonestSamples

\* Whatever rate was commanded by whichever console, frames go on being
\* published while the simulator's clock runs (telemetry_frame.hpp:131-134).
FeedNeverStalls == <>[]~paused => []<>outbox

\* A console whose connection stays is sent a frame, though X-Plane is paused
\* and no frame is due by the clock (xplane_plugin.cpp:1627-1629), unless a send
\* never returns and the frame waits for it.  Without the clock there must be a
\* frame of the flight loop that saw the connection down, and it must come up
\* before the next frame has sampled.
NewConsoleIsTold ==
    \A c \in 1..MaxConnections :
        <>[](conn = c /\ (owed \/ ~paused)) => <>(told = c) \/ <>[]outbox
=============================================================================
