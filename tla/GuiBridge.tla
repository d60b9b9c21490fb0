----------------------------- MODULE GuiBridge -----------------------------
(***************************************************************************)
(* The plugin's GUI proxy (src/gui/gui_bridge.cpp): panel requests become  *)
(* console frames, answers are matched back by id, events are cached and   *)
(* posted.  X-Plane's main thread submits, attaches, shows, ticks and      *)
(* takes; the websocket receiver thread feeds frames and the connection    *)
(* state.  Every action is one operation under mutex_; what the operations *)
(* do outside it (parsing, a local action's file access) is between two    *)
(* actions.  A refused submit changes nothing and is a stuttering step.    *)
(***************************************************************************)
EXTENDS Naturals, FiniteSets, SequencesExt

CONSTANTS
    EventNames,    \* the names of the events the console pushes
    MaxPending,    \* config_.max_pending
    MaxJsQueue,    \* config_.max_js_queue, the bound of js_queue_ and notify_queue_
    MaxIds,        \* bound: how many request ids a behaviour may take
    MaxEvents,     \* bound: how many events the console pushes
    MaxToggles     \* bound: attaches, detaches and connection or visibility changes

ASSUME BridgeAssumption ==
    /\ MaxPending \in Nat
    /\ MaxJsQueue \in Nat \ {0}
    /\ {MaxIds, MaxEvents, MaxToggles} \subseteq Nat

VARIABLES
    nextRequestId,   \* next_request_id_
    pending,         \* pending_: for each id, absent or whose request it is
    ripe,            \* the pending ids whose deadline has passed
    subscribeId,     \* subscribe_request_id_
    connected,       \* connected_
    subscribed,      \* subscribed_
    attached,        \* panel_attached_
    visible,         \* panel_visible_
    socketFrames,    \* socket_frames_: the ids of the frames owed to the console
    jsQueue,         \* js_queue_
    notifyQueue,     \* notify_queue_
    cache,           \* cache_: the latest payload of each event, first seen first
    droppedEvents,   \* dropped_events_
    \* history
    panelIds,        \* ids the page was given a receipt for
    answers,         \* how often the page was posted an answer to each id
    gone,            \* ids whose answer has nowhere to go any more
    page,            \* what the page was last posted: a status and payloads
    evicted,         \* whether js_queue_ overflowed since the page attached
    heard,           \* how many events the console pushed
    toggles

requestVars == <<nextRequestId, pending, ripe, subscribeId, socketFrames>>
linkVars    == <<connected, subscribed, attached, visible>>
queueVars   == <<jsQueue, droppedEvents, gone, evicted>>
eventVars   == <<notifyQueue, cache, heard>>
pageVars    == <<panelIds, answers, page>>
vars == <<nextRequestId, pending, ripe, subscribeId, connected, subscribed,
          attached, visible, socketFrames, jsQueue, notifyQueue, cache,
          droppedEvents, panelIds, answers, gone, page, evicted, heard, toggles>>

Ids      == 1..MaxIds
Payloads == 0..MaxEvents
Owners   == {"none", "panel", "bridge"}     \* Pending::internal is "bridge"

Response(id)    == [kind |-> "response", id |-> id]
Status(c, s)    == [kind |-> "status", connected |-> c, subscribed |-> s]
EventPost(e)    == [kind |-> "event", name |-> e.name, payload |-> e.payload]
CachedEvents    == [name : EventNames, payload : Payloads]
Responses       == [kind : {"response"}, id : Ids]
Statuses        == [kind : {"status"}, connected : BOOLEAN, subscribed : BOOLEAN]
EventsOf(name)  == [kind : {"event"}, name : {name}, payload : Payloads]
Messages        == Responses \union Statuses
                     \union [kind : {"event"}, name : EventNames, payload : Payloads]

PendingIds      == {id \in Ids : pending[id] # "none"}
ResponseIds(q)  == {m.id : m \in {n \in ToSet(q) : n.kind = "response"}}
BlankPage       == [status |-> Status(FALSE, FALSE),
                    events |-> [name \in EventNames |-> 0]]

Init ==
    /\ nextRequestId = 1
    /\ pending = [id \in Ids |-> "none"]
    /\ ripe = {}
    /\ subscribeId = 0
    /\ connected = FALSE /\ subscribed = FALSE
    /\ attached = FALSE /\ visible = FALSE
    /\ socketFrames = <<>> /\ jsQueue = <<>> /\ notifyQueue = <<>> /\ cache = <<>>
    /\ droppedEvents = 0
    /\ panelIds = {}
    /\ answers = [id \in Ids |-> 0]
    /\ gone = {}
    /\ page = BlankPage
    /\ evicted = FALSE
    /\ heard = 0 /\ toggles = 0

----------------------------------------------------------------------------
\* enqueue_js_locked for each of msgs in turn, onto a queue: the oldest go when
\* it is full, and are counted.  counted is what the caller itself counts.
Overflow(all) == IF Len(all) > MaxJsQueue THEN Len(all) - MaxJsQueue ELSE 0

Enqueue(msgs, counted) ==
    LET all  == jsQueue \o msgs
        over == Overflow(all)
    IN  /\ jsQueue' = SubSeq(all, over + 1, Len(all))
        /\ droppedEvents' = droppedEvents + over + counted
        /\ evicted' = (evicted \/ over > 0)
        /\ gone' = gone \union ResponseIds(SubSeq(all, 1, over))

\* Nothing is enqueued for a page that is not there.
Post(msgs) ==
    IF attached THEN Enqueue(msgs, 0)
    ELSE /\ gone' = gone \union ResponseIds(msgs)
         /\ UNCHANGED <<jsQueue, droppedEvents, evicted>>

\* Bug: the replay is only the status.
ReplayStatus(c, s) == <<Status(c, s)>>

\* replay_locked, once the connection state is (c, s).
Replay(c, s) == <<Status(c, s)>> \o [i \in DOMAIN cache |-> EventPost(cache[i])]

\* Bug: the subscribe still outstanding stays in the table.
SubscribeStacking ==
    /\ nextRequestId <= MaxIds
    /\ nextRequestId' = nextRequestId + 1
    /\ subscribeId' = nextRequestId
    /\ pending' = [pending EXCEPT ![nextRequestId] = "bridge"]
    /\ socketFrames' = Append(socketFrames, nextRequestId)
    /\ UNCHANGED ripe

\* subscribe_locked: retire the subscribe still outstanding, issue a new one.
Subscribe ==
    /\ nextRequestId <= MaxIds
    /\ nextRequestId' = nextRequestId + 1
    /\ subscribeId' = nextRequestId
    /\ pending' = [id \in Ids |->
                     IF id = nextRequestId THEN "bridge"
                     ELSE IF id = subscribeId THEN "none" ELSE pending[id]]
    /\ ripe' = ripe \ {subscribeId}
    /\ socketFrames' = Append(socketFrames, nextRequestId)

Toggle == toggles < MaxToggles /\ toggles' = toggles + 1
----------------------------------------------------------------------------
\* Bug: what the plugin answers by itself uses up no id.
SubmitLocalUncounted ==
    /\ nextRequestId <= MaxIds
    /\ panelIds' = panelIds \union {nextRequestId}
    /\ Post(<<Response(nextRequestId)>>)
    /\ UNCHANGED <<requestVars, linkVars, eventVars, answers, page, toggles>>

\* submit, when the plugin answers by itself, connected or not.
SubmitLocal ==
    /\ nextRequestId <= MaxIds
    /\ nextRequestId' = nextRequestId + 1
    /\ panelIds' = panelIds \union {nextRequestId}
    /\ Post(<<Response(nextRequestId)>>)
    /\ UNCHANGED <<pending, ripe, subscribeId, socketFrames, linkVars, eventVars,
                   answers, page, toggles>>

\* Bug: a request is accepted whether or not there is a console.
SubmitUnconnected ==
    /\ Cardinality(PendingIds) < MaxPending
    /\ nextRequestId <= MaxIds
    /\ nextRequestId' = nextRequestId + 1
    /\ pending' = [pending EXCEPT ![nextRequestId] = "panel"]
    /\ panelIds' = panelIds \union {nextRequestId}
    /\ socketFrames' = Append(socketFrames, nextRequestId)
    /\ UNCHANGED <<ripe, subscribeId, linkVars, queueVars, eventVars, answers,
                   page, toggles>>

\* submit, proxied to the console.
Submit ==
    /\ connected
    /\ Cardinality(PendingIds) < MaxPending
    /\ nextRequestId <= MaxIds
    /\ nextRequestId' = nextRequestId + 1
    /\ pending' = [pending EXCEPT ![nextRequestId] = "panel"]
    /\ panelIds' = panelIds \union {nextRequestId}
    /\ socketFrames' = Append(socketFrames, nextRequestId)
    /\ UNCHANGED <<ripe, subscribeId, linkVars, queueVars, eventVars, answers,
                   page, toggles>>

\* attach_panel: the page loaded, or loaded again.
AttachPanel ==
    /\ Toggle
    /\ attached' = TRUE
    /\ visible' = TRUE
    /\ page' = BlankPage
    /\ IF connected THEN Subscribe ELSE UNCHANGED requestVars
    /\ LET posts == Replay(connected, subscribed)
           over  == Overflow(posts)
       IN  /\ jsQueue' = SubSeq(posts, over + 1, Len(posts))
           /\ droppedEvents' = droppedEvents + over
           /\ evicted' = (over > 0)
    /\ gone' = gone \union ResponseIds(jsQueue)
    /\ UNCHANGED <<connected, subscribed, eventVars, panelIds, answers>>

\* detach_panel: what was owed to the page goes with it.
DetachPanel ==
    /\ Toggle
    /\ attached' = FALSE
    /\ visible' = FALSE
    /\ subscribed' = FALSE
    /\ subscribeId' = 0
    /\ pending' = [id \in Ids |-> "none"]
    /\ ripe' = {}
    /\ gone' = gone \union ResponseIds(jsQueue)
                    \union {id \in Ids : pending[id] = "panel"}
    /\ jsQueue' = <<>>
    /\ UNCHANGED <<nextRequestId, socketFrames, connected, droppedEvents, evicted,
                   eventVars, pageVars>>

\* set_panel_visible, on a change; shown again, the page gets a replay.
SetPanelVisible ==
    /\ Toggle
    /\ visible' = ~visible
    /\ Post(IF visible' THEN Replay(connected, subscribed) ELSE <<>>)
    /\ UNCHANGED <<requestVars, connected, subscribed, attached, eventVars, pageVars>>

----------------------------------------------------------------------------
\* The ids of S, oldest first, as a walk over pending_ meets them.
Ascending(S) ==
    [n \in 1..Cardinality(S) |-> CHOOSE id \in S : Cardinality({i \in S : i < id}) = n - 1]

\* Bug: the bridge's own subscribe changes the status without a word.
SettlementPostsOfPanel(S, ok) ==
    LET order == Ascending({id \in S : pending[id] = "panel"})
    IN  [i \in DOMAIN order |-> Response(order[i])]

\* settle_locked for the requests in S, oldest first, which leave pending_: the
\* panel's are posted, the bridge's own subscribe decides whether it is
\* subscribed and is posted only as a change of status.
SettlementPosts(S, ok) ==
    LET changes    == subscribed # ok
        posted     == {id \in S : pending[id] = "panel" \/ changes}
        message(id) == IF pending[id] = "panel" THEN Response(id)
                                                ELSE Status(connected, ok)
        order      == Ascending(posted)
    IN  [i \in DOMAIN order |-> message(order[i])]

\* Bug: what is settled stays in the table.
SettleKeeping(S) ==
    /\ subscribeId' = IF subscribeId \in S THEN 0 ELSE subscribeId
    /\ UNCHANGED <<nextRequestId, socketFrames, pending, ripe>>

Settle(S) ==
    /\ pending' = [id \in Ids |-> IF id \in S THEN "none" ELSE pending[id]]
    /\ ripe' = ripe \ S
    /\ subscribeId' = IF subscribeId \in S THEN 0 ELSE subscribeId
    /\ UNCHANGED <<nextRequestId, socketFrames>>

SettleAndPost(S, ok) ==
    /\ Settle(S)
    /\ subscribed' = IF \E id \in S : pending[id] = "bridge" THEN ok ELSE subscribed
    /\ Post(SettlementPosts(S, ok))
    /\ UNCHANGED <<connected, attached, visible, eventVars, pageVars, toggles>>

\* on_socket_frame with the answer to a request it was sent; an answer to an id
\* that is not pending any more settles nothing.
GuiResponse ==
    \E id \in PendingIds, ok \in BOOLEAN :
        id \notin ToSet(socketFrames) /\ SettleAndPost({id}, ok)

\* Bug: deadlines are looked at only while the panel shows.
TickExpiresShown == visible /\ ripe # {} /\ SettleAndPost(ripe, FALSE)

\* tick, when deadlines have passed.
TickExpires == ripe # {} /\ SettleAndPost(ripe, FALSE)

\* A deadline passes.
DeadlinePasses ==
    /\ \E id \in PendingIds \ ripe : ripe' = ripe \union {id}
    /\ UNCHANGED <<nextRequestId, pending, subscribeId, socketFrames, linkVars,
                   queueVars, eventVars, pageVars, toggles>>

\* on_socket_frame with an event: cached, owed to the notifier, and posted to a
\* page that can see it; superseding one that no page saw is counted.
CacheEvent(name, payload) ==
    LET held == {i \in DOMAIN cache : cache[i].name = name}
        e    == [name |-> name, payload |-> payload]
    IN  cache' = IF held = {} THEN Append(cache, e)
                 ELSE [i \in DOMAIN cache |-> IF i \in held THEN e ELSE cache[i]]

GuiEvent ==
    /\ heard < MaxEvents
    /\ heard' = heard + 1
    /\ \E name \in EventNames :
         LET e     == [name |-> name, payload |-> heard']
             posts == IF attached /\ visible THEN <<EventPost(e)>> ELSE <<>>
             unseen == (\E i \in DOMAIN cache : cache[i].name = name)
                         /\ ~(attached /\ visible)
             owed  == Append(notifyQueue, e)
         IN  /\ CacheEvent(name, heard')
             /\ notifyQueue' = SubSeq(owed, Overflow(owed) + 1, Len(owed))
             /\ Enqueue(posts, IF unseen THEN 1 ELSE 0)
    /\ UNCHANGED <<requestVars, linkVars, pageVars, toggles>>

\* set_connected(true): an attached panel's subscription is asserted again.
SetConnected ==
    /\ ~connected
    /\ Toggle
    /\ connected' = TRUE
    /\ IF attached THEN Subscribe ELSE UNCHANGED requestVars
    /\ Post(<<Status(TRUE, subscribed)>>)
    /\ UNCHANGED <<subscribed, attached, visible, eventVars, pageVars>>

\* set_connected(false): fail_all_locked settles everything as failed.  The
\* subscription is gone first, so the bridge's own subscribe posts nothing.
SetDisconnected ==
    /\ connected
    /\ Toggle
    /\ connected' = FALSE
    /\ subscribed' = FALSE
    /\ Settle(PendingIds)
    /\ LET mine == Ascending({id \in Ids : pending[id] = "panel"})
       IN  Post([i \in DOMAIN mine |-> Response(mine[i])] \o <<Status(FALSE, FALSE)>>)
    /\ UNCHANGED <<attached, visible, eventVars, pageVars>>

----------------------------------------------------------------------------
TakeSocketFrames ==
    /\ socketFrames # <<>>
    /\ socketFrames' = <<>>
    /\ UNCHANGED <<nextRequestId, pending, ripe, subscribeId, linkVars, queueVars,
                   eventVars, pageVars, toggles>>

\* What a page shows after one more message.
Shows(shown, message) ==
    CASE message.kind = "status"   -> [shown EXCEPT !.status = message]
      [] message.kind = "event"    ->
           [shown EXCEPT !.events = [@ EXCEPT ![message.name] = message.payload]]
      [] message.kind = "response" -> shown

\* take_js_messages and the posts of tick_skyscript_panel, a message at a time:
\* how many fit in a frame is not something the page can tell.
TakeJsMessage ==
    /\ jsQueue # <<>>
    /\ jsQueue' = Tail(jsQueue)
    /\ page' = Shows(page, Head(jsQueue))
    /\ answers' = IF Head(jsQueue).kind = "response"
                    THEN [answers EXCEPT ![Head(jsQueue).id] = @ + 1]
                    ELSE answers
    /\ UNCHANGED <<requestVars, linkVars, droppedEvents, gone, evicted,
                   eventVars, panelIds, toggles>>

TakeNotificationEvent ==
    /\ notifyQueue # <<>>
    /\ notifyQueue' = Tail(notifyQueue)
    /\ UNCHANGED <<requestVars, linkVars, queueVars, cache, heard, pageVars, toggles>>

Next ==
    \/ SubmitLocal \/ Submit \/ AttachPanel \/ DetachPanel \/ SetPanelVisible
    \/ GuiResponse \/ GuiEvent \/ SetConnected \/ SetDisconnected
    \/ TickExpires \/ DeadlinePasses
    \/ TakeSocketFrames \/ TakeJsMessage \/ TakeNotificationEvent

\* The flight loop runs every frame and time passes; nothing is owed of the
\* console or of the page.
Fairness == WF_vars(TickExpires) /\ WF_vars(TakeJsMessage)
            /\ WF_vars(DeadlinePasses)

Spec == Init /\ [][Next]_vars /\ Fairness
----------------------------------------------------------------------------
TypeOK ==
    /\ nextRequestId \in 1..(MaxIds + 1)
    /\ pending \in [Ids -> Owners]
    /\ ripe \subseteq PendingIds
    /\ subscribeId \in 0..MaxIds
    /\ {connected, subscribed, attached, visible, evicted} \subseteq BOOLEAN
    /\ socketFrames \in Seq(Ids)
    /\ jsQueue \in Seq(Messages) /\ Len(jsQueue) <= MaxJsQueue
    /\ notifyQueue \in Seq(CachedEvents) /\ Len(notifyQueue) <= MaxJsQueue
    /\ cache \in Seq(CachedEvents)
    /\ panelIds \subseteq 1..(nextRequestId - 1)
    /\ answers \in [Ids -> Nat]
    /\ gone \subseteq Ids
    /\ {droppedEvents, heard, toggles} \subseteq Nat

\* No request outlives the socket it was sent on, and the panel is never told it
\* is subscribed to a console that does not know it: whatever the order of
\* reconnects, attaches, timeouts and late answers (set_connected, settle_locked).
NothingOwedWithoutLink ==
    /\ ~connected => PendingIds = {}
    /\ subscribed => connected /\ attached

\* Resubscribing retires the subscribe still outstanding instead of stacking a
\* new one behind it (subscribe_locked): the bridge's own pending entry is the
\* one subscribe_request_id_ names, so a panel cannot run the table full of them.
OneSubscribeOutstanding ==
    /\ {id \in Ids : pending[id] = "bridge"} = IF subscribeId = 0 THEN {} ELSE {subscribeId}
    /\ subscribeId # 0 => attached /\ connected
    /\ Cardinality(PendingIds) <= MaxPending + 1

One(b) == IF b THEN 1 ELSE 0

\* Ids are never taken twice, and an id the page holds a receipt for is in one
\* place: awaited, on its way to the page, answered once, or its page or its
\* place in the queue is gone.  No answer, timeout and disconnect settle it
\* twice between them (on_socket_frame, tick, fail_all_locked, detach_panel).
AnsweredOnce ==
    \A id \in Ids :
        LET places == One(pending[id] = "panel") + answers[id] + One(id \in gone)
                        + Cardinality({i \in DOMAIN jsQueue : jsQueue[i] = Response(id)})
        IN  places = One(id \in panelIds)

\* What the page shows of one thing once it has been posted what the queue holds:
\* the last message of S in it, or else what the page shows already.
LastQueued(S, shown) ==
    LET places == {i \in DOMAIN jsQueue : jsQueue[i] \in S}
    IN  IF places = {} THEN shown
        ELSE jsQueue[CHOOSE i \in places : \A j \in places : i >= j]

Shown(name)     == EventPost([name |-> name, payload |-> page.events[name]])
StatusToBe      == LastQueued(Statuses, page.status)
EventToBe(name) == LastQueued(EventsOf(name), Shown(name))

\* The status line does not lie: however connects, subscribes, timeouts and
\* reloads interleave, the last status the page is owed is the current one
\* (enqueue_status_locked after every change), unless the queue overflowed.
StatusIsCurrent ==
    attached /\ ~evicted => StatusToBe = Status(connected, subscribed)

\* A panel that is showing is owed the newest payload of every event, also of
\* those pushed while it was hidden or not yet loaded (replay_locked).
ShownPanelIsCurrent ==
    attached /\ visible /\ ~evicted =>
        \A i \in DOMAIN cache : EventToBe(cache[i].name) = EventPost(cache[i])

\* The bridge implements RequestBroker: the panel's pending requests are what is
\* owed, and every other id it was given a receipt for is settled for good.
PanelPending == {id \in Ids : pending[id] = "panel"}
Broker == INSTANCE RequestBroker WITH
              linked <- connected, next <- nextRequestId, owed <- PanelPending,
              settled <- panelIds \ PanelPending
ImplementsBroker == Broker!Spec

\* "A promise that never settles is worse than a refusal" (gui_bridge.hpp:37-39):
\* an accepted request leaves the table, by an answer, a timeout or its page's end.
RequestsDoNotLinger ==
    \A id \in Ids : pending[id] # "none" ~> pending[id] = "none"
============================================================================
