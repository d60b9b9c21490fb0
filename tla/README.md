# Zoal ATC plugin: specifications, model checks and proofs

Zoal ATC is an X-Plane plugin (C++) with an in-sim panel (React). It records the
pilot's push-to-talk turns, sends their transcripts and the aircraft's state to a
console over one websocket, speaks the console's replies on a radio, and carries the
panel's requests and the console's events. This directory models the plugin's
concurrent core in TLA+, checks it with TLC and proves its main invariants with TLAPS.
Paths below are relative to the repository's root.

## 1. Inventory

### Threads

| thread | what it runs |
| --- | --- |
| X-Plane's main thread | the push-to-talk command handler, the flight loop, the panel's Skyscript handlers, XPluginStart and XPluginStop |
| reply receiver | `reply_receiver_loop`: reads the console's frames, dispatches them, reconnects |
| sink worker | `AsyncWebSocketPttSink::run`: sends what the other threads publish |
| recogniser | `AsyncWebSocketPttSink::run_transcription`: turns audio into text and sends it |
| synthesis | `SynthesisQueue::run`: makes a reply's speech, sentence by sentence |
| navdata | `NavdataWorker::run`: scans airports, announces what it found, answers requests |
| audio callback | miniaudio's, appending samples to the recording |

### Components

**Push-to-talk controller and recorder** (`src/ptt/`). State: idle, recording or
faulted; the open turn's number, the next number, the time recording started; the
device. Operations: `command_begin`, `command_end`, `tick`, `reset_fault`. It runs on
the main thread only, but presses, releases and ticks come in any order and the
recorder may fail at each. Correct when: one turn is open at a time, each is decided
once and never again, and a key that is never released is cut off.

**Message sink** (`src/transport/async_websocket_ptt_sink.cpp`). State: a bounded
queue of messages, a bounded queue of turns to transcribe, a stop flag, two threads.
Operations: `publish`, `publish_text`, `stop`, and the threads' steps. Hard: a turn is
opened by one thread and closed by another; both queues overflow; stopping meets
every stage. Correct when: the close of a turn is neither lost unaccounted for nor
sent twice, and never before its start; nothing is left open; stopping drains.

**WebSocket client and reconnect gate** (`src/transport/websocket_client.cpp`,
`reconnect_gate.hpp`). State: the socket, the lock, the token, the gate's delay.
Operations: `send_text`, `receive_text`, `close`, `reauthenticate`. Hard: a dial holds
the lock; `recv` runs outside it on a handle the system may reuse; three threads dial.
Correct when: each connection is introduced first, runs on the current token, dials
are paced, reconnecting never ends, and unloading is not held.

**GUI bridge** (`src/gui/gui_bridge.cpp`). State: pending requests with deadlines,
the bridge's own subscription, three queues, an event cache, the connection's and the
panel's state. Operations: `submit`, `attach_panel`, `detach_panel`,
`set_panel_visible`, `on_socket_frame`, `set_connected`, `tick` and the three takes.
Hard: answers race timeouts, reloads and reconnects; hidden pages are replayed to;
queues drop. Correct when: each accepted request is settled once, the page's status
and payloads are current, and the table stays bounded and empties.

**Panel bridge** (`gui/zoal-atc/src/bridge/ConsoleBridge.ts`). State: the requests that
wait for a receipt or an answer, the answers that came first, three timers, disposed.
Operations: `start`, `request`, `dispatch`, `dispose`. Hard: receipt and answer come in
either order or never, and the page goes at any point between. Correct when: every
promise settles, none waits for what has come, and nothing outlives the page.

**Speech synthesis queue** (`src/tts/synthesis.cpp`). State: a bounded deque, urgent
jobs first, and each speech's sentences and verdict. Operations: `submit`, the thread,
the destructor. Correct when: every unfinished speech has exactly one party that will
finish it, and a verdict is final.

**Speech delivery** (`src/xplane/xplane_plugin.cpp:602-859`). State: the reply queue,
the speech on the air, its sentence and deadline. The receiver thread queues, the
flight loop takes, plays, preempts and acknowledges while the synthesis thread appends.
Correct when: each reply is acknowledged once, in its turn, and the acknowledgement
says what the pilot heard.

**Telemetry, queries and radio tuning** (`xplane_plugin.cpp`, `src/telemetry/`). State:
the rate and the notification preference in force, two queues from the receiver to the
flight loop, what the last frame said, the last picture of the traffic. Operations:
`publish_telemetry_frame`, `process_pending_queries`, `process_pending_radio_tunes`,
and the receiver's handling and forgetting of a console's orders. Hard: consoles change
while a frame is being handled; the simulator's clock stands still while it is paused.
Correct when: the console in charge is obeyed and no earlier one is, queries and tunings
are served in order, the feed never dries up, a new console is told, and the picture of
the traffic says what it leaves out.

**Navdata worker and publisher** (`src/navdata/navdata_service.cpp`). State: the queue
of jobs, the texts found by hash, the airport last scanned and when, a pending retry.
Operations: `enqueue_scan`, `enqueue_request`, `stop`, the thread, the flight loop's
check and retry. Hard: a scan is announced before it can be answered; a connection is
lost at any point; the receiver outlives the worker. Correct when: what is announced can
be had, jobs are done, a new console is told everything, and the texts are the region.

**Endpoint configuration** (`src/transport/endpoint_config.cpp`, and who calls it in
`xplane_plugin.cpp`). State: `zoal_atc.cfg`, a temporary file beside it, the endpoint of
the session. Operations: the start of the plugin, the panel's two saves, and the pilot's
editor. Hard: writes fail, X-Plane ends between two of them, the parser refuses a whole
file for one line. Correct when: what was saved is obeyed, the identity stays, and the
pilot's other lines survive.

**Reply receiver, plugin life cycle** (`xplane_plugin.cpp`). They connect the above:
frames go to the bridge, the reply queue, the navdata worker and the telemetry rate;
XPluginStop takes the parts down in order. Modelled in the modules of the parts they
connect, see section 6.

**Not modelled**: JSON, Base64, masking and spoken text (pure conversions), the voice
catalogue (one rewrite of a file), speech and recognition libraries, the React store and
views, the toast's window.

### How they interact

    key, tick ──> Controller ──> Sink queue ──> worker ──┐
    telemetry, navdata, panel frames ──^          │      ├──> WebSocketClient <──> console
                                                  └> recogniser ┘         │
    panel page <──> GuiBridge <── frames, connection state ── reply receiver
    radio <── flight loop <── g_reply_queue <───────────────────┤  │
                 ^   ^       ^── queries, tunings, rate ────────┘  ├──> navdata worker
                 │   └─ scan when the airport changes ─────────────│──────^
                 └───────── Speech <── SynthesisQueue <────────────┘
    zoal_atc.cfg <──> start, panel's save ──> endpoint, token ──> WebSocketClient

## 2. Modules

| module | what it models | built on |
| --- | --- | --- |
| `PttController` | `PushToTalkController` and the device it opens | |
| `BoundedQueue` | `push_bounded` as operators | |
| `PttSink` | the sink's queues, its two threads and `stop()` | `BoundedQueue` |
| `TurnDialogue` | abstract: what the console is promised of the pilot's turns | |
| `PushToTalk` | controller and sink as the plugin wires them; extends the first, instantiates the second; implements `TurnDialogue` | `PttController`, `PttSink` |
| `RequestBroker` | abstract: what the bridge promises of a request | |
| `GuiBridge` | every operation of `GuiBridge`; implements `RequestBroker` | |
| `PanelBridge` | the page's half of a request | |
| `SynthesisQueue` | the deque, the thread and the destructor | |
| `ReplyLedger` | abstract: what the console is promised of its replies | |
| `SpeechDelivery` | receiver, flight loop and synthesis thread on one reply queue; extends `SynthesisQueue`, implements `ReplyLedger` | `SynthesisQueue` |
| `WebSocketClient` | client, gate, and the threads that use them | |
| `Traffic` | `extract_targets` as an operator, and what it owes the console | |
| `Telemetry` | receiver, flight loop and sender on rate, queries, tunings and frames | `Traffic` |
| `NavdataFiles` | what is taken out of the data files, as operators | |
| `Navdata` | flight loop, worker, receiver and XPluginStop on the scans | `NavdataFiles` |
| `EndpointConfig` | URL, parser and rewriting of the file, as operators | |
| `ConfigFile` | the file between starts, saves, edits, failures and ends | `EndpointConfig` |
| `*Proofs` | theorems about the module they are named after, and about those it extends | |
| `MC*` | the instances TLC checks | |

Conventions. A variable has the name of the member it stands for (its comment gives
the exact one); variables marked *history* or *ghost* record the past for a property and
guide nothing. An action is one critical section, or one operation on a thread nobody
else shares state with. Operators whose comment begins with "Bug:" are wrong on purpose:
each is one definition changed the way a slip in the code would change it, and makes
the property it is paired with in `PROJECT.json` fail.

**PttController.** `CommandBegin`, `CommandEnd`, `TickFinishes` and `ResetFault` are
the four operations, each with its early returns as disjuncts and the event it
publishes in `event`. A recorder that fails to start, to stop, or stops with nothing
is a choice. Time is `age`, the time since recording started, and stops mattering at
the limit. The plugin calls no `reset_fault`; `PushToTalk` therefore has none.

**PttSink and PushToTalk.** A worker's turn of its loop is two steps: it takes a
message under the lock (`WorkerTakes`) and then sends, skips or hands it to the
recogniser. `WorkerSends` and `RecogniserAnswer` are the ends of sends, which need not
come: nothing owes the two threads a send that returns. One that does has arrived or is
lost, which the code only reports; `missing` keeps what was lost so that properties can
say "unless". `PushToTalk` makes each
controller operation and its publication one step, as both happen in one callback.
`TurnDialogue` knows no queue and no thread: for each turn where the controller has it,
and whether its beginning and its end were told, lost or are still to be told. It says
that nothing is told of a turn's end before its beginning was told or lost, that turns
begin in order and not while an earlier one is still to be told of, unless that one is
ready (the recogniser has it, and takes its time), and that words come in order. Its
variables are read off `outcome`, `wire` and `missing`.

**GuiBridge.** Requests are ids with an owner (the panel, or the bridge's own
subscribe), deadlines are the set `ripe`, frames are records. `SubmitLocal` is the
submission answered by the plugin itself. `RequestBroker` has four variables and says:
an id is taken once, owed while the link is up, and settled once for good.

**PanelBridge.** A step is one task of the page's event loop; `Continue` is the
microtask after the await of a receipt, so tasks may come before it but no timer. A
request and its id are one number: the plugin gives every accepted request an id of
its own (`AnsweredOnce` of `GuiBridge`). `Tick` lets no timer become overdue: a timer
fires at its limit, in any order with what else arrives then.

**SynthesisQueue and SpeechDelivery.** A speech is how many sentences it asks for,
how many are made, and its verdict. `SpeechDelivery` splits the flight loop where it
releases the speech's lock (`Advance`, then `PlaySentence` or `NoneReady`, then
`Decide`), so the synthesis thread can come between. Time is two facts: the sentence
on the air is over, the deadline has passed. `ReplyLedger` keeps which
replies arrived, which one is on the air, of which some was heard, and which were dropped,
answered, or answered as done. It says that an answer is given once and for good, that
nothing answered or dropped goes on the air again, and that a reply that was cut off, or
of which no sentence was played, is never answered as done.

**WebSocketClient.** The lock is a variable, because it is held across a whole dial
(`BeginDial`, `TcpConnects`, `DialSucceeds` or `AddressFails` / `DialFails`) and, for a
sender, across the send that follows. Handles come from a small set and are reused.
The gate keeps its wait from the start of the dial, as `connect_locked` does.

**Telemetry.** A frame of the flight loop is five steps (`TuneRadios`, `Sample`,
`TakeQueries`, `AnswerQueries`, `Retry`), one per locked section, so that the receiver
and the sender come between any two. The receiver reads a frame, handles it, and after a
failure forgets first the rate, then the preference. Times are ages up to `MaxAge`;
`Tick` does nothing while X-Plane is paused. A radio holds the number of the tuning it
was last given. `Traffic` gives aircraft places on a line: only distances are compared,
and a value that is not a number is the empty set, which no bound excludes. `IsHonest`
takes the console's side: it compares the picture, all of whose fields the frame carries,
with every aircraft there is. X-Plane's count may stop the scan before some of them; the
picture then shows a count no larger than the number seen (`MayBeCut`), and unless it
does, what is missing is either out of reach, or beyond the cap and no nearer than what
is shown.

**Navdata.** A frame is two steps (`Loop`), split where the connection may change
between its two reads of it. The worker scans, then for each text announces its hash
(`WorkerAnnounces`) and only then enters it (`WorkerEnters`), as the code does. A text's
hash is the text. `stage` follows XPluginStop; "crashed" is the receiver calling a worker
that XPluginStop has already taken away, kept as an outcome so that the liveness
properties can name it. `NavdataFiles` says what a region, the fixes and the rest are, and
says separately what they should be.

**EndpointConfig and ConfigFile.** A line is a record: commented or not, its key as
typed, separator and value; a value is a sequence of marks and words, so that the URL
parser works on what it looks for and not on characters. Marks for a control character
and for a quote stand for what the parser refuses. In `ConfigFile` a save is three steps,
`WriteTemp`, `RemoveTarget` (only where a rename does not replace, on Windows) and
`Rename`; `Quit` may come between any two and stands for a crash as well as for an
unload. A failed write leaves the temporary file as it was or absent.

## 3. Runs

| run | asks | bounds |
| --- | --- | --- |
| `ptt_controller` | every order of presses, releases, ticks, failures and resets | 4 turns, limits of 1 and 3 ticks |
| `push_to_talk` | a turn from the button to the console, safety and liveness; implements `TurnDialogue` | 2 turns, 2 queued messages, 1 waiting transcription, 1 other publication |
| `gui_bridge` | every order of the bridge's operations; implements `RequestBroker`; requests leave the table | 2 ids, 1 pending, page queue of 2, 2 events under 2 names, 4 toggles |
| `panel_bridge` | receipts, answers, timers and disposal in every order | 2 requests, timeouts of 1, 2 and 3 ticks |
| `synthesis_queue` | eviction, failure and destruction of speeches | 4 speeches, deque of 2, 1 sentence |
| `speech_delivery` | replies are played in their turn, acknowledged once, truly and in the end; implements `ReplyLedger` | 3 replies, queue of 2, deque of 1, 2 sentences |
| `websocket_client` | connections fresh, dials paced, never given up, plugin unloaded | 2 senders, 2 handles, 2 addresses, 3 connections, 3 texts, 1 new token |
| `telemetry` | orders, queries, tunings, pictures and frames over lost connections and pauses | 2 frames, 2 connections, 3 events together, ages up to 2; every sky of up to 4 others |
| `navdata` | scans, requests, lost connections and the end of the worker | 2 airports, 2 flights, 2 events; every apt.dat of up to 4 rows, every two of up to 2 |
| `config_file` | starts, saves, edits, failed writes and ends at every step | 3 starts, 2 saves, 1 edit, 1 fault, one file and 4 lines by hand, both builds, 2 environments |
| `speech_delivery_heard`, `config_identity` | the findings below | the smallest that show them |

Why the bounds are enough. A queue bound of one or two makes it overflow while
holding entries of different kinds; the code treats longer queues no differently. Two
turns are the least with a close and a later start in flight together; with one place
in the recogniser's backlog the second finds it full, and the later one begins while the
earlier waits for its words. Two request ids are a subscribe and a request of the panel, or a subscribe and a resubscribe; with one place in the
table the second is refused while the first is pending; four toggles let the connection
go and come twice or the panel hide and return around either. Three replies are the
least with one on the air, one
waiting and one that overtakes; two sentences the least that can be cut short or fail
part of the way. Three connections, and two handles which a later connection reuses,
let a thread hold a stale handle across a drop and a change of token; a delay that
doubles and is then capped needs an initial delay of two and a limit of five. In
`telemetry` three events are a console that orders, is lost and is replaced by one that
orders again, or that is lost with X-Plane paused; ages of two are longer than the
shortest interval and as long as the longest. In `navdata` two flights leave an airport
and come back, two events are a loss during one scan and a request or a second loss
during the next. Four rows are the least for two airports, the end of one, and a place
that belongs to neither. In `config_file` two saves are one key after the other or the
same key twice, three starts the one that takes the identity, one that ends in a save,
and one that must live with what is left. Properties
about one turn, id, reply or connection are not affected by more of them than can be in
flight at once. `CHECK_DEADLOCK` is off where the bounds or a finished shutdown end
every behaviour.

What the runs show, beyond each line. The close of a turn cannot be sent before its
start even when the recogniser closes what the worker opened, because the worker hands
it over after it sent the start. `stop()` strands no turn, because `transcribe` looks at
`stopping_` in the section that appends. `FinishActive` and preemption between them
acknowledge every reply that was not dropped. A connection opened with a token being
replaced does not survive, because `reauthenticate` waits for the dial and then closes.
A text is announced before it can be had (`src/navdata/navdata_service.cpp:697-698`), and
yet no request finds it missing, because requests wait in the queue of the same worker.
A paused X-Plane still tells a new console of itself, because every frame that sees the
connection down makes the next one due.

Some properties hold only outside a window that the code leaves open, and their text
says which. `CommandIsTheConsoles` excludes a connection that is lost and repaired while
the receiver is busy with a frame: the flag that the loss happened (`sawLoss`) is then
unset, and the old console's rate stays until the new one orders another, where
`include/zoal_atc/telemetry/telemetry_frame.hpp:114-116` has it honoured until "the
connection drops". `NewConsoleIsTold` and `RepairedInTheEnd` exclude a loss no frame
of the flight loop could see, and `RepairedInTheEnd` an announcement that the sink's full
queue discarded, which nothing repeats before the next loss. `SavedIsObeyed` excludes a file that assigned the key twice
or by its other name when it was saved: `upsert_config_line` rewrites the first such line
and the parser obeys the last; and, of the token in use, a session that began with a file
it refused and was given no token since (`ignored`). The exclusions are ghosts, so what they leave out is
visible in the modules.

### Fairness

The page's tasks and timers run, the flight loop is called every frame (`Tick`,
`TickFinishes`, `TickExpires`, `TakeJsMessage`, `FlightLoop`, `Loop`), the operating
system runs each thread that waits for nobody (the sink's two outside a send, a dial up
to the upgrade, whose `connect_within` has a timeout, the receiver, the navdata worker
and the synthesis thread), clocks advance, and a synthesis ends. Weak fairness
is enough everywhere: no property needs an action that is only repeatedly enabled.
Nothing is assumed of the pilot, the console, the page or X-Plane's unloading.

No send is assumed to return. A sender holds the client's lock while it dials, and the
console may keep the answer of the upgrade for ever: `connect_locked` looks at its
deadline only between two `recv`s (`src/transport/websocket_client.cpp:594`). A `send`
into a full socket blocks under the same lock (`:558`), and everybody else waits for it.
XPluginStop closes the client only after it joined the sink's threads, so nothing frees
them. A property that needs a send to end therefore names the case that it does not:

* `OpenTurnIsSettled`, `FinishedTurnIsSettled` and `StopReturns` except a worker that
  sends for ever, or a recogniser that for ever has the words of one turn to send
  (`SendNeverReturns`);
* `NewConsoleIsTold` excepts a frame that for ever waits for the sink;
* `StopReturnsUnlessHeld` excepts an upgrade that is for ever unanswered, and a receiver
  that for ever reads from a connection opened after the client was closed.

In `Telemetry` and `Navdata` nothing makes a dial succeed, a connection come back or a
frame arrive; their liveness properties start from a connection that stays. `ConfigFile`
and `SynthesisQueue` state safety only and have no fairness.

## 4. Findings

* **A reply may be acknowledged as heard with its last sentence unplayed**
  (`speech_delivery_heard`). "Is there a next sentence" and "is it finished" are two
  reads under two locks (`src/xplane/xplane_plugin.cpp:763` and `:780`).
* **A pilot ID with a quote loses the identity** (`config_identity`). `save_settings`
  accepts it (`src/xplane/xplane_plugin.cpp:442`); `apply_config_text` refuses the line, and
  with it the file (`src/transport/endpoint_config.cpp:331-335`), so that every later
  start ignores the file and dials as another client.

Each is shown by a run whose property TLC refutes; `PROJECT.json` quotes the lines.

Differences met while modelling, which no run is about:

* "Every queue is bounded and every drop is counted" (`gui_bridge.hpp:83-84`), but
  `on_socket_frame` trims `notify_queue_` silently (`gui_bridge.cpp:158`).
* "So: one attempt, then wait" (`reconnect_gate.hpp:20`), but the wait counts from the
  start of the dial (`websocket_client.cpp:335`): after a dial as slow as the wait there
  is none. `DialStartsArePaced` states what holds.
* "Force the first frame after reconnect" (`xplane_plugin.cpp:1627`), but while the
  connection is down every flight loop makes the next frame due, so one is published per
  loop; the sink's bounded queue then drops what else waits in it.
* `known_empty` is "no slot holds a valid target" (`traffic.hpp:34`), but the code says it
  whenever the list is empty (`traffic.cpp:222-223`): also with every valid aircraft out
  of reach, or behind X-Plane's count (`:164`). `PictureIsHonest` states what a console
  can go by: known_empty means that nobody is in reach, unless the count may have cut the
  scan, and a census of nobody seen that there is no aircraft at all.
* `truncated` is set by the cap only, as its comment says (`traffic.hpp:155-157`), so an
  aircraft that the scan never came to is missing without it. The frame's
  census, with X-Plane's count beside the number seen, is all that tells.
* A runway's row is taken when either of its ends is a place (`||`,
  `navdata_service.cpp:98`), and the mean of the two ends is the runway's place: one whose
  other end is missing lies halfway to 0, 0. The pairs of a boundary are both asked for
  (`&&`, `:110`). `NavdataFiles` takes the place a row gives as it is.

## 5. Theorems

The proof modules are checked by TLAPS for every value of the constants that satisfies
the module's assumptions; the bounds on ids, turns, events and toggles are constants too,
so the theorems hold for runs of any length. Each invariant is proved from an inductive
`IInv` (`RInv` and `PInv` in `GuiBridgeProofs`), one lemma per action.

`PushToTalkProofs`, from `ConfigAssumption` and `PushToTalkAssumption`. First the
controller (`Spec` of `PttController`). `IInv` is `TypeOK`, `NumbersInOrder`
(turns below the next number are decided or open, those from it on are untouched) and
`OpenTurnIsActive`. The middle conjunct is what makes "decided once" inductive: without
it a begin could number a turn that was already decided. Theorems: `TypeCorrect`,
`OpenTurn`, `OutcomeDecidedOnce` (an action property, from the invariant in both
states), `MicrophoneAccounted`.

Then the controller with the sink behind it (`SystemSpec`). `SInv` is `IInv` with the
types of the sink, `ThreadsFit` (what each thread holds fits where it is), `InOnePlace`
and `InOrder`. `InOnePlace` counts, for each turn, the six places its close may be in,
each as held or not held, and says that a place holds it at most once: only then is the
number of places the number of closes. `InOrder` says that the turns that are ready are
in order within each of five stages (`EachRises`), that each stage is behind the one
before (`OneBehindTheOther`), and that they all are ready (`AllReady`), so that a turn
just published is later than all of them. All three are about what is in sequences and
in which order, so the lemmas they rest on are about a sequence that is two others one
after the other (`Split`): an append, a head with its tail, and the cut `push_bounded`
makes are instances of it. Theorems: `ClosesInOnePlace`, `TranscriptsStayInOrder`, and
`TurnsInTheSystem`, that what holds of the controller alone holds of it here.

Last, that this is the dialogue of `TurnDialogue`: `SystemKeepsTheDialogue`. `TalkInv`
is `SInv` with `Talk`: the beginning of a turn too is in one of four places
(`OpenInPlace`); on the way through the worker, in the queue and in its hand, a turn's
beginning is in front of its end and behind all of every earlier turn (`InFront`); and
what has passed the worker leaves nothing of the turn's beginning behind it
(`CloseFollows`). `Talk` is needed because the refinement compares what is still on its
way with what was told: a beginning may be told only if nothing earlier is on its way.
That publishing keeps it rests on `Speaks`: what the controller publishes is the
beginning of a turn of which there is nothing anywhere yet, or the end of the latest.
`OpenStanding` and `CloseStanding` translate between the two: what the dialogue calls
pending is what the system has in its queues and hands. Then there is one lemma per
speaker: the controller (`OperateSpeaks`), the worker (`WorkerTells`, `WorkerLoses`)
and the recogniser (`RecogniserTells`); a full queue only loses what was pending
(`PublishLoses`).

`GuiBridgeProofs`, from `BridgeAssumption`. `RInv` adds to `NothingOwedWithoutLink` and
the bridge's own entry (`BridgeSubscribe`) the order of ids (`IdsInOrder`: an id from the
next one on is owned by nobody and was given to nobody) and `PanelBounded`, with the
types these need (`RequestTypes`). Theorems from it: `NothingOwed`,
`SubscribesDoNotPileUp`, and `BridgeImplementsBroker`, the refinement, by one lemma per
kind of step: every operation of the bridge is a step of `RequestBroker` or leaves its
four variables alone.

What the page is told needs more. `PInv` is `RInv` with `PagePart`: the types of the
queues, of the cache and of the page; `InOnePlace` (an id with a receipt is awaited, in
`js_queue_` once, answered once or gone, an id without one nowhere); `StatusOwed` and
`EventsOwed` (the last message of a kind in the queue, or with none there what the page
shows, is the current one); and `OneEach` (no event is cached twice, so a replay says
each once). `Enqueue` cuts the queue and appends to it in one step, so the lemmas state
what a cut and an append do to "held once" (`Once`) and "ends with" (`Ends`), and what
the walk over `pending_` oldest first yields (`Ascending`: every id of a finite set,
once). Theorems from it: `TypeCorrect`, `AnswersOnce`, `StatusStaysCurrent`,
`ShownPanelStaysCurrent`.

`PanelBridgeProofs`, from `PanelAssumption`, whose one condition is that a held answer
outlives the wait for a receipt. `IInv` adds `HeldInTime`: an answer that came before
its receipt is held, for no longer than the receipt has been awaited. Without it the
answer might have expired when `Continue` looks for it, and the request would wait.
Theorems: `TypeCorrect`, `AnswerNotLost`, `PageEnds`.

`WebSocketClientProofs`, from the assumption of `WebSocketClient`. `IInv` adds `LockHeld`
(who holds the lock between two steps is dialling without a connection, or is a sender
about to send on the one it opened), `GatePaced` (when nobody dials, what is left to wait
makes up the age of the last dial to the whole delay) and `SavesBounded`. `LockHeld`
carries `ConnectionIsFresh`: the token changes only under the lock, so never during a
dial. `GatePaced` carries the pacing: a wait that is over is a dial old enough. Theorems:
`TypeCorrect`, `ConnectionFresh`, `DialsArePaced`.

`SpeechDeliveryProofs`, from `SynthesisAssumption` and `DeliveryAssumption`. First the
synthesis queue alone (`Spec` of `SynthesisQueue`). `IInv` adds to the types `Cared`: the
unfinished speeches are exactly the one being said and those in the deque, each once.
That eviction, an urgent submission at the front and the destructor keep it so needs
lemmas about sequences without repetition (`Arranges`). Theorems: `TypeCorrect`,
`SomebodyFinishesIt`.

Then the receiver thread and the flight loop with it (`DeliverySpec`).
`DeliveryInvariant` is `IInv` with the types (`DeliveryTypes`), `Placed`, `Truthful` and
`InTurn`. `Placed` counts the five places of each reply: an arrived one is in one of
them, one that has not arrived in none, and the queue and the acknowledgements hold each
reply once; without the part about replies to come, the one that arrives might be
somewhere already. `Truthful` says of every acknowledgement that it fits what was
played and made. It stays so because a reply that was answered is off the air, hence
played no further, and because a finished speech is in nobody's hands, hence does not
fail any more (`VerdictsStand`, which is where `Cared` is needed). `InTurn` adds to
`OnlyUrgentOvertakes` that the queue is in the order of arrival and that what was begun
before an older reply that still waits is urgent and that reply is not. Taking a reply
is one lemma (`BeginKeeps`) for both ways the code takes one. Theorems:
`DeliveryUsesTheQueue` (every behaviour of the system is one of `SynthesisQueue`),
`DeliveryTypeCorrect`, `RepliesInOnePlace`, `AcksAreTruthful`, `OnlyUrgentAreEarly`, and
`DeliveryKeepsTheLedger`, that the three threads implement `ReplyLedger`: with the same
invariant each step of theirs is one of the ledger's (a reply arrives, is dropped,
begins, takes another's place, is played on or finishes) or leaves it alone.

`TelemetryProofs`, from `TelemetryAssumption` and `BoundsAssumption`. `IInv` adds to the
type invariant `Reading` (what the receiver reads from is a connection there has been),
`Heeded` (the orders in force at each place of the receiver, between a failure and the
two resets), `Numbered` and `Before` (tunings are numbered in the order they came and the
flight loop has served the earlier ones), `Swapped` (what was taken is no longer queued)
and `AnswersInOrder`. `RadiosNeverGoBack` follows from `Before` in both states. Theorems:
`TypeCorrect`, `CommandsAreHeeded`, `QueriesAreAnswered`, `RadiosGoForward`,
`PicturesAreHonest`. The last is about `extract_targets` and needs no invariant but the
type of `traffic`: `HonestPicture` proves `IsHonest` of every member of `Sky`, any number
of slots with any values, and `TelemetryAssumption` says that the skies X-Plane gives are
such. The scan of the slots is a recursive function; `ScanKnows` goes along it with what
the scan knows after a slot (`Knows`): it has counted those the count admits (or as many
as the count lets it, `StopsAt`), the census adds up, and the list has those of them in
reach (`Reached`), in the order of their slots. `CutOrWhole` leads from those to all there
are: either the picture may have been cut, or the count admitted everybody. `NearestFirstSorts` shows that the stable sort, defined by how
many are nearer, is a permutation in order of distance: the ranks are an injection of a
finite set into itself. `NearestAreKept` is the cap.

`NavdataProofs`, from `NavdataAssumption`, which says what data files are (rows of three
kinds, a header without a place), and `OffersAssumption`, that `NoOffer` is none. The first
part is `TextsAreTaken` (`TextsAreTheRegion`), for any files. `Reads` says that a text reads
a file at some of its places in order, by an increasing map onto them; a text that does is
the file at those places (`ReadsInOrder`), which the model's definition says with a rank.
The scan is a recursive function; `Scanned` goes along it: one block for each header so far,
in their order, each with its airport's rows and first place, and the open one owns the
last row. So the text of a region reads the rows of its airports (`RegionIsRead`); since
these are whole (`Whole`), who owns a row, and where an airport is, is the same in the text
as in the file (`TextsPlaceAirports`), and the place around which fixes are taken is the one
the first file that has one gives (`AirportIsPlaced`). `OffersOfAFile` counts the copies.
The second part is the steps. `IInv` says that whatever the console heard of, the receiver holds a request for or the queue has a
request for is entered or is the one being announced; the queue is part of it because a
lost connection forgets what was heard and not what was asked. Theorems: `TypeCorrect`,
`RequestsAreAnswerable`. Stating the first part for any files showed that
`OneCopyOfFixes` had said too much: where two apt.dat place the airport differently, the
first in order of priority decides, and the property now says so (`AirportAt`).

`ConfigFileProofs`, from `ConfigFileAssumption` and `WordsAssumption`, which says that the
words the plugin writes are words, and lower case. `IInv` (`SavesAreWhole`) adds to the
types of the files `SaveInHand`: from the start of a save to its rename, what is about to
be written is the text that was read with one value in it, and the temporary file holds all
of it. Without it a rename could put anything in the file's place. Theorem `FileSurvives`
is the action property `OnlyOneLineChanges`, from that and `UpsertIsOneLine`, which needs
that the first line of a key is one of the file's (`TargetLineIsALine`). The other three
are about what the file says:

* `OrderDecidesNothing` (`LastAssignmentWins`) needs no invariant but the type of the file.
  `ApplyConfigText` is a recursive function over the lines; that it exists
  (`ReadingExists`), that all it passes are endpoints (`EndpointsOnTheWay`) and that a field
  no later line replaces stays (`StaysTheSame`) are each proved from the least number that
  would be a counterexample (`FirstOfIsOne`), which does the work of an induction.
  `LineSays` is the one line, and `FileSays` the whole text.
* `IdentityLasts` (`IdentityIsKept`) adds `IdentityStory`: the identity on record is the
  last one the file says even where the file is refused, the session has it from
  `TakeIdentity` on, and what a save in hand has read is still what the file is. The text's
  part is `UpsertLeavesOthers`: the line that is rewritten is the key's own or a comment.
* `SavesAreObeyed` (`SavedIsObeyed`) adds `SavedStory`. That the last line of a key is the
  one saved is not inductive: the next save of the same key rewrites the first line, which
  is the same one only where there is no other. So the invariant says that the line saved
  is alone (`SaysOnly`), which `UpsertSaysOnly` establishes in a file that is not
  `Ambiguous` and `IdentityLeavesSaid` and `UpsertLeavesOthers` keep.

The proof showed two places where `SavedIsObeyed` said more than the code does. A start
that refuses the file has no token; when a later save of the pilot ID repairs the file,
the file says a token that the session does not use (`ignored`). And `config_value` cuts
at a `#`, where the parser does not: a pilot ID with one in it is saved and obeyed as a
whole and shown in part.

Only model-checked: all liveness (fairness is beyond the prover). Only proved, not run:
the types, `OpenMicrophoneIsAccountedFor` and `NothingOutlivesThePage`, and two
invariants that stronger properties of the runs speak for. `OpenTurnIsActive` says which turn is open; that it is the last
and gets decided is `OutcomeIsFinal` and `OpenTurnIsSettled`. `TranscriptsInOrder` is part
of what `KeepsTheDialogue` says of the words, together with `CloseInOnePlace`, by which
none is sent twice.

## 6. What is abstracted or left out, and the plan

Abstracted: audio, text, JSON and frame contents (a kind and a number); the choice of
radio for a reply; masking and fragmentation; wall-clock time (coarse ticks or a fact
that a deadline passed); the sphere (a line); MD5 (injective). Only `PttSink` has the
sink's queue: in `Navdata` an announcement is told or discarded at once, and in
`Telemetry` the flag `outbox` is the latest frame, which is never discarded. The page's
status is connected and subscribed, without the counts of pending requests and dropped
messages. Frames of a reply without
a generation get no acknowledgement in the code; the model's replies all have one.

Not modelled or only partly, and why:

* Voice catalogue: one rewrite of a model file at start-up. JSON, Base64 and spoken text:
  pure conversions, which the repository's tests cover with tables of cases.
* React store and views: presentation of what `ConsoleBridge` delivers.
* Notifications: which preference is in force is in `Telemetry`, the queue in
  `GuiBridge`; the toast and its window are drawing. The flight loop reads preferences
  the receiver writes without a lock (`src/xplane/skyscript_panel.cpp:330`); the
  outcome of such a read is whatever the build gives, and only the toast depends on it.
* Reply receiver: the prompt it sets for the recogniser is left out.
* Plugin life cycle: XPluginStop resets `g_synthesis`, as it resets the navdata worker,
  before it joins the receiver that uses it; `Navdata` shows the shape once ("crashed").
* Contents of the socket's stream: bytes that arrive behind the upgrade's answer are
  discarded, and frames of two connections could be mixed in one read.
* The panel's window against the bridge's idea of its visibility.

Planned, in this order:

1. Client, receiver and bridge together: the receiver learns of a new connection only
   from a frame, the bridge stays subscribed on one that was redialled by a sender, and
   frames kept in `socket_frames_` are sent after a reconnect.
2. `PanelBridge` composed with `GuiBridge`: the plugin's timeout of ten seconds should
   win over the page's of fifteen, and an answer of a former page is never claimed.
   With them the page's chat log: it asks for what it missed when `droppedEvents` grows
   (`gui/zoal-atc/src/state/ConsoleProvider.tsx:60-110`), but a signal that comes while
   it is already syncing is let go, and an overflow of the page's queue counts a drop
   without posting a status that would tell the page.
3. Proofs about the bounds of `BoundedQueue`.

Worth stating next to them: one abstract console, which `TurnDialogue`, `ReplyLedger` and
`RequestBroker` are each a part of, over a link that comes and goes.
