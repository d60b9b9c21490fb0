---------------------------- MODULE TurnDialogue ----------------------------
(***************************************************************************)
(* What the plugin promises a console of the pilot's turns, whatever       *)
(* queues and threads are between the button and the socket: a turn's      *)
(* beginning is told before its end, in the order of the turns, and only   *)
(* turns the recogniser is still at are passed by the beginning of a later *)
(* one; each is told once, or lost and counted, and words are told of long *)
(* enough turns alone, in the order they were said.                        *)
(***************************************************************************)
EXTENDS Naturals

CONSTANT Turns   \* the turns that may be taken, numbered from 1

VARIABLES
    phase,       \* of each turn: "none", "open" or how it ended
    opened,      \* the turns whose beginning the console was told
    unopened,    \* ... and those whose beginning was lost
    heard,       \* the turns it was told the words of
    cancelled,   \* the turns it was told to forget
    unclosed     \* the turns whose end was lost

dialogueVars == <<phase, opened, unopened, heard, cancelled, unclosed>>

Over == {n \in Turns : phase[n] \notin {"none", "open"}}

\* What the console was told or will never be told, and what is still to be told.
OpenSettled  == opened \union unopened
CloseSettled == heard \union cancelled \union unclosed
OpenPending  == {n \in Turns : phase[n] # "none"} \ OpenSettled
ClosePending == Over \ CloseSettled

Init ==
    /\ phase = [n \in Turns |-> "none"]
    /\ opened = {} /\ unopened = {}
    /\ heard = {} /\ cancelled = {} /\ unclosed = {}

Losing ==
    /\ \E lost \in SUBSET OpenPending : unopened' = unopened \union lost
    /\ \E lost \in SUBSET ClosePending : unclosed' = unclosed \union lost
    /\ UNCHANGED <<opened, heard, cancelled>>

\* The pilot speaks, and what is still to be told may get lost over it.
Begin(n) ==
    /\ phase[n] = "none"
    /\ \A m \in Turns : m < n => m \in Over
    /\ phase' = [phase EXCEPT ![n] = "open"]

Decide(n) ==
    /\ phase[n] = "open"
    /\ \E how \in {"ready", "cancelled", "error"} : phase' = [phase EXCEPT ![n] = how]

Speak == Losing /\ \E n \in Turns : Begin(n) \/ Decide(n)
Lose  == Losing /\ UNCHANGED phase

TellOpen ==
    /\ \E n \in OpenPending :
         /\ n \notin heard \union cancelled
         /\ \A m \in Turns : m < n =>
              /\ m \in OpenSettled
              /\ m \in CloseSettled \/ phase[m] = "ready"
         /\ opened' = opened \union {n}
    /\ UNCHANGED <<phase, unopened, heard, cancelled, unclosed>>

TellWords ==
    /\ \E n \in ClosePending \intersect OpenSettled :
         /\ phase[n] = "ready"
         /\ \A m \in heard : m < n
         /\ heard' = heard \union {n}
    /\ UNCHANGED <<phase, opened, unopened, cancelled, unclosed>>

TellCancel ==
    /\ \E n \in ClosePending \intersect OpenSettled : cancelled' = cancelled \union {n}
    /\ UNCHANGED <<phase, opened, unopened, heard, unclosed>>

Next == Speak \/ Lose \/ TellOpen \/ TellWords \/ TellCancel

Spec == Init /\ [][Next]_dialogueVars
=============================================================================
