--------------------------- MODULE RequestBroker ---------------------------
(***************************************************************************)
(* What the GUI bridge promises of the panel's requests, whatever queues,  *)
(* deadlines and subscriptions it keeps: ids are handed out in order, a    *)
(* request is owed an answer only while the console can be reached, it is  *)
(* settled once, and losing the console settles all of them.               *)
(***************************************************************************)
EXTENDS Naturals

CONSTANT MaxIds   \* bound of the implementation's ids

VARIABLES
    linked,   \* whether the console can be reached
    next,     \* the next id to hand out
    owed,     \* the requests that are owed an answer
    settled   \* the requests that never will be again

brokerVars == <<linked, next, owed, settled>>

Init == linked = FALSE /\ next = 1 /\ owed = {} /\ settled = {}

\* An id may also be used up by the broker itself: nothing is owed for it.
MayUseId == next' \in {next, next + 1}

Accept ==
    /\ linked
    /\ owed' = owed \union {next}
    /\ next' = next + 1
    /\ UNCHANGED <<linked, settled>>

AnswerAtOnce ==
    /\ settled' = settled \union {next}
    /\ next' = next + 1
    /\ UNCHANGED <<linked, owed>>

Finish ==
    /\ \E ids \in SUBSET owed : owed' = owed \ ids /\ settled' = settled \union ids
    /\ UNCHANGED <<linked, next>>

LinkUp   == linked' = TRUE /\ MayUseId /\ UNCHANGED <<owed, settled>>
LinkDown == /\ linked' = FALSE
            /\ owed' = {}
            /\ settled' = settled \union owed
            /\ UNCHANGED next

Next == Accept \/ AnswerAtOnce \/ Finish \/ LinkUp \/ LinkDown

Spec == Init /\ [][Next]_brokerVars
============================================================================
