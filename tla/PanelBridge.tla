----------------------------- MODULE PanelBridge -----------------------------
(***************************************************************************)
(* ConsoleBridge (gui/zoal-atc/src/bridge/ConsoleBridge.ts): the page's    *)
(* half of a request.  A request is posted to the plugin, waits for its    *)
(* receipt, which names its id, and then for the answer to that id; both   *)
(* come through the Skyscript host, in either order or not at all.         *)
(*                                                                         *)
(* A step is one task of the page, or the microtask that goes on after an  *)
(* await; tasks may come between a receipt and that microtask, timers not. *)
(* A request and the id the plugin gives it are the same number; 0 is the  *)
(* id of a request made before the page was reloaded.                      *)
(***************************************************************************)
EXTENDS Naturals

CONSTANTS
    Requests,         \* the requests the page may make
    AckTimeout,       \* ACK_TIMEOUT_MS
    RequestTimeout,   \* REQUEST_TIMEOUT_MS
    EarlyAnswerTtl    \* EARLY_ANSWER_TTL_MS

\* 5, 15 and 30 seconds in the code.
ASSUME PanelAssumption ==
    /\ Requests \subseteq Nat \ {0}
    /\ {AckTimeout, RequestTimeout, EarlyAnswerTtl} \subseteq Nat \ {0}
    /\ AckTimeout < EarlyAnswerTtl

VARIABLES
    started, disposed,
    stage,     \* where request() is for each request, and how it ended
    receipt,   \* the receipt that has come: whether the plugin accepted
    age,       \* how long its timer has run
    early,     \* the ids in earlyAnswers
    heldFor,   \* how long each has been held
    posted     \* history: the ids whose answer was posted to the page

vars == <<started, disposed, stage, receipt, age, early, heldFor, posted>>

Ids       == Requests \union {0}
Underway  == {"asked", "receipt", "waiting"}   \* "waiting": its id is in pending
Settled   == {"answered", "refused", "no receipt", "unanswered", "shut down"}
Running   == {"asked", "waiting"}              \* with a timer
Limit(r)  == IF stage[r] = "asked" THEN AckTimeout ELSE RequestTimeout

Init ==
    /\ started = FALSE /\ disposed = FALSE
    /\ stage = [r \in Requests |-> "idle"]
    /\ receipt = [r \in Requests |-> FALSE]
    /\ age = [r \in Requests |-> 0]
    /\ early = {} /\ heldFor = [id \in Ids |-> 0]
    /\ posted = {}
-----------------------------------------------------------------------------
Start ==
    /\ ~started /\ ~disposed
    /\ started' = TRUE
    /\ UNCHANGED <<disposed, stage, receipt, age, early, heldFor, posted>>

\* request: refused at once, and nothing changes, unless the page listens.
Request(r) ==
    /\ started /\ ~disposed
    /\ stage[r] = "idle"
    /\ stage' = [stage EXCEPT ![r] = "asked"]
    /\ age' = [age EXCEPT ![r] = 0]
    /\ UNCHANGED <<started, disposed, receipt, early, heldFor, posted>>

\* The host returns a receipt, or throws, or returns nothing of use.
ReceiptComes(r) ==
    /\ stage[r] = "asked"
    /\ stage' = [stage EXCEPT ![r] = "receipt"]
    /\ \E accepted \in BOOLEAN : receipt' = [receipt EXCEPT ![r] = accepted]
    /\ UNCHANGED <<started, disposed, age, early, heldFor, posted>>

\* request goes on: the answer may have come before its receipt.
Continue(r) ==
    /\ stage[r] = "receipt"
    /\ stage' = [stage EXCEPT ![r] =
                   CASE ~receipt[r]                              -> "refused"
                     [] receipt[r] /\ disposed                   -> "shut down"
                     [] receipt[r] /\ ~disposed /\ r \in early   -> "answered"
                     [] OTHER                                    -> "waiting"]
    /\ early' = early \ (IF receipt[r] THEN {r} ELSE {})
    /\ age' = [age EXCEPT ![r] = 0]
    /\ UNCHANGED <<started, disposed, receipt, heldFor, posted>>

\* dispatch of a response: it settles the request that waits for it, or is held.
Dispatch(id) ==
    /\ posted' = posted \union {id}
    /\ IF disposed \/ ~started THEN UNCHANGED <<stage, early, heldFor>>
       ELSE IF id \in Requests /\ stage[id] = "waiting"
         THEN /\ stage' = [stage EXCEPT ![id] = "answered"]
              /\ UNCHANGED <<early, heldFor>>
         ELSE /\ early' = early \union {id}
              /\ heldFor' = [heldFor EXCEPT ![id] = 0]
              /\ UNCHANGED stage
    /\ UNCHANGED <<started, disposed, receipt, age>>

\* The plugin answers what it was asked, once, and may answer a former page.
Answer(id) ==
    /\ id \notin posted
    /\ id \in Requests => stage[id] # "idle"
    /\ Dispatch(id)

\* Bug: pending is cleared, and the promises in it with it.
DisposeForgetting ==
    /\ ~disposed
    /\ disposed' = TRUE
    /\ stage' = [r \in Requests |-> IF stage[r] = "waiting" THEN "idle" ELSE stage[r]]
    /\ early' = {}
    /\ UNCHANGED <<started, receipt, age, heldFor, posted>>

Dispose ==
    /\ ~disposed
    /\ disposed' = TRUE
    /\ stage' = [r \in Requests |->
                   IF stage[r] = "waiting" THEN "shut down" ELSE stage[r]]
    /\ early' = {}
    /\ UNCHANGED <<started, receipt, age, heldFor, posted>>

\* The three timers.
RequestEnds(r, at, limit, ending) ==
    /\ stage[r] = at
    /\ age[r] = limit
    /\ stage' = [stage EXCEPT ![r] = ending]
    /\ UNCHANGED <<started, disposed, receipt, age, early, heldFor, posted>>

AckTimesOut(r)     == RequestEnds(r, "asked", AckTimeout, "no receipt")
RequestTimesOut(r) == RequestEnds(r, "waiting", RequestTimeout, "unanswered")

\* Bug: a held answer is dropped when a receipt would be.
EarlyAnswerExpiresSoon(id) ==
    /\ id \in early
    /\ heldFor[id] = AckTimeout
    /\ early' = early \ {id}
    /\ UNCHANGED <<started, disposed, stage, receipt, age, heldFor, posted>>

EarlyAnswerExpires(id) ==
    /\ id \in early
    /\ heldFor[id] = EarlyAnswerTtl
    /\ early' = early \ {id}
    /\ UNCHANGED <<started, disposed, stage, receipt, age, heldFor, posted>>

\* Time passes: no timer is overdue, and microtasks run before any timer.
Tick ==
    /\ \A r \in Requests :
         /\ stage[r] # "receipt"
         /\ stage[r] \in Running => age[r] < Limit(r)
    /\ \A id \in early : heldFor[id] < EarlyAnswerTtl
    /\ age' = [r \in Requests |-> IF stage[r] \in Running THEN age[r] + 1 ELSE age[r]]
    /\ heldFor' = [id \in Ids |-> IF id \in early THEN heldFor[id] + 1 ELSE heldFor[id]]
    /\ UNCHANGED <<started, disposed, stage, receipt, early, posted>>

Timer ==
    \/ \E r \in Requests : AckTimesOut(r) \/ RequestTimesOut(r)
    \/ \E id \in Ids : EarlyAnswerExpires(id)

Next ==
    \/ Start \/ Dispose \/ Timer \/ Tick
    \/ \E r \in Requests : Request(r) \/ ReceiptComes(r) \/ Continue(r)
    \/ \E id \in Ids : Answer(id)

\* The page's own tasks and timers run; nothing is owed of the host.
Fairness == /\ WF_vars(\E r \in Requests : Continue(r))
            /\ WF_vars(Timer) /\ WF_vars(Tick)

Spec == Init /\ [][Next]_vars /\ Fairness
-----------------------------------------------------------------------------
TypeOK ==
    /\ started \in BOOLEAN /\ disposed \in BOOLEAN
    /\ stage \in [Requests -> {"idle"} \union Underway \union Settled]
    /\ receipt \in [Requests -> BOOLEAN]
    /\ age \in [Requests -> Nat]
    /\ \A r \in Requests : stage[r] \in Running => age[r] <= Limit(r)
    /\ early \subseteq Ids
    /\ heldFor \in [Ids -> 0..EarlyAnswerTtl]
    /\ posted \subseteq Ids

\* Answer and receipt race: a request is never left waiting for an answer that
\* has already come, as it would be told there was none (holdEarlyAnswer and the
\* claim in request).  It rests on a receipt being given up before an answer is.
AnswerIsNotLost ==
    \A r \in Requests : stage[r] = "waiting" => r \notin posted

\* Nothing of a page that was disposed lives on, whatever it had asked, been
\* promised or was about to wait for when it went (dispose, request).
NothingOutlivesThePage ==
    disposed => early = {} /\ \A r \in Requests : stage[r] # "waiting"

\* "the panel is never left holding a promise that will not settle"
\* (ConsoleBridge.ts:145-147), whatever the host does or fails to do.
PromisesSettle ==
    \A r \in Requests : stage[r] = "asked" ~> stage[r] \in Settled
=============================================================================
