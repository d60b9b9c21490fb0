------------------------------ MODULE Navdata ------------------------------
(***************************************************************************)
(* Keeping the console supplied with the data of the airport the aircraft  *)
(* is at (src/xplane/xplane_plugin.cpp, src/navdata): the flight loop asks *)
(* for a scan when the airport changes and again after a lost connection;  *)
(* one worker scans, announces each text by its hash, and answers the      *)
(* console's requests; the receiver brings those requests in; XPluginStop  *)
(* takes the worker, the sink and the receiver down, in this order.        *)
(***************************************************************************)
EXTENDS NavdataFiles

CONSTANTS
    Airports,        \* the airports the aircraft may come near
    DataFiles,       \* the installations X-Plane may be, and their data files
    Samples,         \* further installations, to take texts from
    NoOffer,
    MaxFlights,      \* bound: changes of the nearest airport
    MaxEvents        \* bound: lost connections, requests of the console, and
                     \* times the weather is due again, together

ASSUME NavdataAssumption ==
    /\ {MaxFlights, MaxEvents} \subseteq Nat
    /\ "" \notin Airports
    /\ \A i \in DOMAIN DataFiles : IsInstallation(DataFiles[i])
    /\ \A install \in Samples : IsInstallation(install)

VARIABLES
    here,           \* which installation this is
    near,           \* the nearest airport X-Plane knows of, "" for none
    airport,        \* g_airport_id
    scanned,        \* g_last_navdata_scan_airport
    fresh,          \* whether that scan was asked for less than a second ago
    checkDue,       \* whether check_nearest_airport's interval is over
    pending,        \* g_navdata_scan_retry_pending
    lastConnected,  \* g_last_websocket_connected
    frame,          \* "idle", or "retry" between the two halves of a frame
    jobs,           \* jobs_
    offers,         \* what the scan in hand has still to offer
    announced,      \* the offer whose hash is sent and which is not entered
    byHash,         \* by_hash_, as the set of its entries
    receiver,       \* the job the receiver is about to push, <<>> for none
    connected,      \* whether the plugin is connected
    heard,          \* the offers the console heard of on this connection
    stage,          \* "on", "stopping", "joined", "down"; or "crashed"
    seenDown,       \* ghost: a frame saw the connection down since it was last up
    missed,         \* ghost: a loss the flight loop could not see, of the
                    \* connection or of an announcement
    flights, events

\* What a scan offers, per installation and airport.
Installations == DOMAIN DataFiles
OffersOf == [i \in Installations |-> [icao \in Airports |-> Offers(DataFiles[i], icao)]]

ASSUME OffersAssumption ==
    \A i \in Installations, icao \in Airports : NoOffer \notin ToSet(OffersOf[i][icao])

flight == <<near, airport, scanned, fresh, checkDue, pending, lastConnected, frame>>
worker == <<jobs, offers, announced, byHash>>
link   == <<connected, heard, seenDown, missed>>
counts == <<flights, events>>
vars   == <<here, flight, worker, receiver, link, stage, counts>>

Scan(icao)    == [kind |-> "scan", icao |-> icao, about |-> NoOffer]
Request(what) == [kind |-> "request", icao |-> "", about |-> what]
Metar         == [kind |-> "metar", icao |-> "", about |-> NoOffer]

Init ==
    /\ here \in Installations
    /\ near = ""
    /\ airport = "" /\ scanned = ""
    /\ fresh = FALSE /\ checkDue = TRUE
    /\ pending = FALSE /\ lastConnected = FALSE /\ frame = "idle"
    /\ jobs = <<>> /\ offers = <<>> /\ announced = NoOffer /\ byHash = {}
    /\ receiver = <<>>
    /\ connected = FALSE
    /\ heard = {} /\ seenDown = TRUE /\ missed = FALSE
    /\ stage = "on"
    /\ flights = 0 /\ events = 0
-----------------------------------------------------------------------------
(* The flight loop: a frame checks the airport first and the connection last. *)

\* NavdataWorker::push, which refuses once the worker is stopping.
Push(queue, more) == IF stage = "on" THEN queue \o more ELSE queue

\* Bug: a scan that is asked for without a connection counts as done.
EnqueueScanForgetting(icao) ==
    /\ jobs' = Push(jobs, <<Scan(icao), Metar>>)
    /\ scanned' = icao
    /\ fresh' = TRUE
    /\ pending' = FALSE

\* enqueue_navdata_scan.
EnqueueScan(icao) ==
    /\ jobs' = Push(jobs, <<Scan(icao), Metar>>)
    /\ scanned' = icao
    /\ fresh' = TRUE
    /\ pending' = ~connected

\* check_nearest_airport, when its interval is over.
Check ==
    /\ stage = "on"
    /\ frame = "idle"
    /\ frame' = "retry"
    /\ checkDue' = FALSE
    /\ IF checkDue /\ near \notin {"", airport}
       THEN airport' = near /\ EnqueueScan(near)
       ELSE UNCHANGED <<airport, scanned, fresh, pending, jobs>>
    /\ UNCHANGED <<here, near, lastConnected, offers, announced, byHash,
                   receiver, link, stage, counts>>

\* The end of a frame: the weather is queued when its interval is over, which
\* a scan starts afresh.
Refresh ==
    \/ UNCHANGED <<jobs, events>>
    \/ /\ scanned # "" /\ events < MaxEvents
       /\ jobs' = Push(jobs, <<Metar>>)
       /\ events' = events + 1

\* retry_navdata_after_websocket_reconnect, with the connection down.
RetryLost ==
    /\ frame = "retry" /\ ~connected
    /\ frame' = "idle"
    /\ seenDown' = TRUE
    /\ pending' = (pending \/ (lastConnected /\ airport # ""))
    /\ lastConnected' = FALSE
    /\ Refresh
    /\ UNCHANGED <<here, near, airport, scanned, fresh, checkDue, offers, announced, byHash,
                   receiver, connected, heard, missed, stage, flights>>

\* ... and with it up: nothing pending, or this airport scanned just now.
Rescans == pending /\ airport # "" /\ ~(scanned = airport /\ fresh)

RetryConnected ==
    /\ frame = "retry" /\ connected
    /\ frame' = "idle"
    /\ lastConnected' = TRUE
    /\ IF Rescans
       THEN EnqueueScan(airport) /\ UNCHANGED events
       ELSE Refresh /\ UNCHANGED <<scanned, fresh, pending>>
    /\ UNCHANGED <<here, near, airport, checkDue, offers, announced, byHash,
                   receiver, link, stage, flights>>

\* The simulator's clock, which stands still while X-Plane is paused: a second
\* passes, and the three of check_nearest_airport.
Tick ==
    /\ stage = "on"
    /\ fresh' = FALSE
    /\ checkDue' = TRUE
    /\ UNCHANGED <<here, near, airport, scanned, pending, lastConnected, frame, worker,
                   receiver, link, stage, counts>>

Fly ==
    /\ stage = "on"
    /\ flights < MaxFlights
    /\ flights' = flights + 1
    /\ near' \in Airports \ {near}
    /\ UNCHANGED <<here, airport, scanned, fresh, checkDue, pending,
                   lastConnected, frame, worker, receiver, link, stage, events>>
-----------------------------------------------------------------------------
(* The worker. *)
Works == stage \in {"on", "stopping"}
Idle  == offers = <<>> /\ announced = NoOffer

\* Bug: what was offered for the airport before is forgotten.
WorkerScansAfresh ==
    /\ Works /\ Idle /\ jobs # <<>> /\ Head(jobs).kind = "scan"
    /\ jobs' = Tail(jobs)
    /\ offers' = OffersOf[here][Head(jobs).icao]
    /\ byHash' = {}
    /\ UNCHANGED <<here, flight, announced, receiver, link, stage, counts>>

WorkerScans ==
    /\ Works /\ Idle /\ jobs # <<>> /\ Head(jobs).kind = "scan"
    /\ jobs' = Tail(jobs)
    /\ offers' = OffersOf[here][Head(jobs).icao]
    /\ UNCHANGED <<here, flight, announced, byHash, receiver, link, stage, counts>>

\* NavdataPublisher::offer and offer_fixes: the hash is sent, and then the
\* text is entered under it.  On its way through the sink's queue the hash may
\* be discarded (publish_text, push_bounded), which nobody notices.
WorkerAnnounces ==
    /\ Works /\ offers # <<>> /\ announced = NoOffer
    /\ announced' = Head(offers)
    /\ offers' = Tail(offers)
    /\ \/ /\ heard' = IF connected THEN heard \union {Head(offers)} ELSE heard
          /\ UNCHANGED missed
       \/ UNCHANGED heard /\ missed' = TRUE
    /\ UNCHANGED <<here, flight, jobs, byHash, receiver, connected, seenDown,
                   stage, counts>>

WorkerEnters ==
    /\ Works /\ announced # NoOffer
    /\ byHash' = {entry \in byHash : entry.text # announced.text} \union {announced}
    /\ announced' = NoOffer
    /\ UNCHANGED <<here, flight, jobs, offers, receiver, link, stage, counts>>

\* handle_request: the entry under that hash is sent, or nothing; and
\* send_metar.
WorkerAnswers ==
    /\ Works /\ Idle /\ jobs # <<>> /\ Head(jobs).kind \in {"request", "metar"}
    /\ jobs' = Tail(jobs)
    /\ UNCHANGED <<here, flight, offers, announced, byHash, receiver, link, stage, counts>>

\* Bug: the worker leaves as soon as it is told to, jobs or not.
WorkerExitsAtOnce ==
    /\ stage = "stopping" /\ Idle
    /\ stage' = "joined"
    /\ UNCHANGED <<here, flight, worker, receiver, link, counts>>

\* It leaves when it is told to and has no job left.
WorkerExits ==
    /\ stage = "stopping" /\ Idle /\ jobs = <<>>
    /\ stage' = "joined"
    /\ UNCHANGED <<here, flight, worker, receiver, link, counts>>
-----------------------------------------------------------------------------
(* The connection, the console and the receiver. *)

\* A loss in the middle of a frame, and one that is over before the next
\* frame, are such as retry_navdata_after_websocket_reconnect cannot see.
Drop ==
    /\ connected /\ events < MaxEvents
    /\ events' = events + 1
    /\ connected' = FALSE
    /\ heard' = {}
    /\ seenDown' = FALSE
    /\ missed' = (missed \/ frame = "retry")
    /\ UNCHANGED <<here, flight, worker, receiver, stage, flights>>

Connect ==
    /\ ~connected
    /\ connected' = TRUE
    /\ missed' = (missed \/ ~seenDown)
    /\ UNCHANGED <<here, flight, worker, receiver, heard, seenDown, stage, counts>>

\* The console asks for a text it heard of, or for an airport; the receiver
\* finds the worker there (enqueue_navdata_request).
ReceiverTakes ==
    /\ connected /\ receiver = <<>> /\ stage \in {"on", "stopping"} /\ events < MaxEvents
    /\ events' = events + 1
    /\ \/ \E offer \in heard : receiver' = <<Request(offer)>>
       \/ \E icao \in Airports : receiver' = <<Scan(icao)>>
    /\ UNCHANGED <<here, flight, worker, link, stage, flights>>

\* ... and pushes the job.
ReceiverPushes ==
    /\ receiver # <<>> /\ stage \in {"on", "stopping"}
    /\ receiver' = <<>>
    /\ jobs' = Push(jobs, receiver)
    /\ UNCHANGED <<here, flight, offers, announced, byHash, link, stage, counts>>

\* XPluginStop destroyed the worker in between: the access is undefined, and
\* may end X-Plane or do nothing.
ReceiverPushesIntoNothing ==
    /\ receiver # <<>> /\ stage \in {"joined", "down"}
    /\ receiver' = <<>>
    /\ stage' \in {stage, "crashed"}
    /\ UNCHANGED <<here, flight, worker, link, counts>>

\* XPluginStop, between two frames: g_navdata_worker.reset() and, when the
\* worker is joined, g_transport_sink.reset().
StopWorker ==
    /\ stage = "on" /\ frame = "idle"
    /\ stage' = "stopping"
    /\ UNCHANGED <<here, flight, worker, receiver, link, counts>>

StopSink ==
    /\ stage = "joined"
    /\ stage' = "down"
    /\ UNCHANGED <<here, flight, worker, receiver, link, counts>>

Loop       == Check \/ RetryLost \/ RetryConnected
WorkerStep == WorkerScans \/ WorkerAnnounces \/ WorkerEnters \/ WorkerAnswers
              \/ WorkerExits
Receive    == ReceiverPushes \/ ReceiverPushesIntoNothing

Next ==
    \/ Loop \/ Tick \/ Fly \/ WorkerStep
    \/ Drop \/ Connect
    \/ ReceiverTakes \/ Receive
    \/ StopWorker \/ StopSink

\* X-Plane goes on drawing frames and does not stay paused, and the worker's
\* thread is scheduled.  Nothing makes the connection come back, or the sink stop.
Fairness ==
    /\ WF_vars(Loop) /\ WF_vars(Tick) /\ WF_vars(WorkerStep)

Spec == Init /\ [][Next]_vars /\ Fairness
-----------------------------------------------------------------------------
AllOffers == UNION {ToSet(OffersOf[i][icao]) : i \in Installations, icao \in Airports}
Jobs      == {Scan(icao) : icao \in Airports} \union {Metar}
             \union {Request(offer) : offer \in AllOffers}

FlightOK ==
    /\ here \in Installations
    /\ near \in Airports \union {""} /\ airport \in Airports \union {""}
    /\ scanned \in Airports \union {""}
    /\ frame \in {"idle", "retry"}
    /\ stage \in {"on", "stopping", "joined", "down", "crashed"}

CountsOK == flights \in 0..MaxFlights /\ events \in 0..MaxEvents

WorkOK ==
    /\ jobs \in Seq(Jobs) /\ receiver \in {<<>>} \union {<<job>> : job \in Jobs}
    /\ offers \in Seq(AllOffers) /\ announced \in AllOffers \union {NoOffer}
    /\ byHash \subseteq AllOffers /\ heard \subseteq AllOffers

FlagsOK ==
    /\ fresh \in BOOLEAN /\ checkDue \in BOOLEAN /\ pending \in BOOLEAN
    /\ lastConnected \in BOOLEAN /\ connected \in BOOLEAN
    /\ seenDown \in BOOLEAN /\ missed \in BOOLEAN

TypeOK == FlightOK /\ CountsOK /\ WorkOK /\ FlagsOK

WellTaken(install) ==
    \A icao \in Airports : RegionIsWhole(install, icao) /\ OneCopyOfFixes(install, icao)

WellTakenHere    == {i \in Installations : WellTaken(DataFiles[i])}
WellTakenSamples == \A install \in Samples : WellTaken(install)

\* What the plugin takes from the data files is the region of the airport, and
\* one copy of each fix file.
TextsAreTheRegion == here \in WellTakenHere /\ WellTakenSamples

Entered(offer) == \E entry \in byHash : entry.text = offer.text

\* Whatever the console has heard of it can have: by the time the worker comes
\* to a request the text is entered, though it is announced before
\* (navdata_service.cpp:697-698), and no later scan takes it away.
AnnouncedIsAnswerable ==
    /\ \A i \in DOMAIN jobs : jobs[i].kind = "request" /\ Idle => Entered(jobs[i].about)
    /\ \A offer \in heard : Entered(offer) \/ offer = announced

\* Every job that is queued is done, those queued when XPluginStop comes too:
\* the worker drains its queue, and stopping it ends.
JobsAreDone ==
    /\ jobs # <<>> ~> (jobs = <<>> /\ Idle) \/ stage = "crashed"
    /\ stage = "stopping" ~> stage \in {"joined", "down", "crashed"}

\* When the connection stays, the console has in the end been told of all there
\* is for the airport, on this connection, however often it was lost before;
\* unless a loss was such as no frame could see, or the sink's queue discarded an
\* announcement.
RepairedInTheEnd ==
    \A icao \in Airports :
        <>[](connected /\ stage = "on" /\ near = icao /\ ~missed)
          => <>[](ToSet(OffersOf[here][icao]) \subseteq heard)
=============================================================================
