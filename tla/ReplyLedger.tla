---------------------------- MODULE ReplyLedger ----------------------------
(***************************************************************************)
(* What the plugin promises a console of its replies, whatever queues,     *)
(* threads and sentences it keeps: one reply is on the air at a time, each *)
(* is answered once or dropped before its turn, the answer is not taken    *)
(* back, and the console is led to believe that a reply it wanted spoken   *)
(* was heard only after some of it was, and never of one that was cut off. *)
(***************************************************************************)
EXTENDS Naturals

CONSTANT Replies   \* the replies that may arrive, numbered from 1

VARIABLES
    spoken,     \* the replies that are to be spoken, the others are noted
    arrived,    \* how many have arrived
    speaking,   \* the one on the air, 0 for none
    heard,      \* those of which a sentence was played
    dropped,    \* those that were never begun, and will not be
    answered,   \* those the console was told about ...
    believed    \* ... and of these, those it was told are done

ledgerVars == <<spoken, arrived, speaking, heard, dropped, answered, believed>>

Init ==
    /\ spoken \subseteq Replies
    /\ arrived = 0 /\ speaking = 0
    /\ heard = {} /\ dropped = {} /\ answered = {} /\ believed = {}

Waiting == {r \in Replies : r <= arrived} \ ({speaking} \union dropped \union answered)

Arrive ==
    /\ arrived + 1 \in Replies
    /\ arrived' = arrived + 1
    /\ UNCHANGED <<spoken, speaking, heard, dropped, answered, believed>>

Drop ==
    /\ \E r \in Waiting : dropped' = dropped \union {r}
    /\ UNCHANGED <<spoken, arrived, speaking, heard, answered, believed>>

\* A reply is answered, as done or not, or goes on the air.
Note(r, before) ==
    /\ r \in Waiting \ spoken
    /\ answered' = answered \union before \union {r}
    /\ believed' \in {believed, believed \union {r}}
    /\ speaking' = 0

Begin(r, before) ==
    /\ r \in Waiting \intersect spoken
    /\ answered' = answered \union before
    /\ speaking' = r
    /\ UNCHANGED believed

Start ==
    /\ speaking = 0
    /\ \E r \in Waiting : Note(r, {}) \/ Begin(r, {})
    /\ UNCHANGED <<spoken, arrived, heard, dropped>>

\* Another takes the place of the one on the air, which was not heard out.
Interrupt ==
    /\ speaking # 0
    /\ \E r \in Waiting : Note(r, {speaking}) \/ Begin(r, {speaking})
    /\ UNCHANGED <<spoken, arrived, heard, dropped>>

Play ==
    /\ speaking # 0
    /\ heard' = heard \union {speaking}
    /\ UNCHANGED <<spoken, arrived, speaking, dropped, answered, believed>>

Finish ==
    /\ speaking # 0
    /\ speaking' = 0
    /\ answered' = answered \union {speaking}
    /\ believed' \in {believed, believed \union ({speaking} \intersect heard)}
    /\ UNCHANGED <<spoken, arrived, heard, dropped>>

Next == Arrive \/ Drop \/ Start \/ Interrupt \/ Play \/ Finish

Spec == Init /\ [][Next]_ledgerVars
============================================================================
