------------------------------ MODULE Traffic ------------------------------
(***************************************************************************)
(* Which aircraft the plugin tells the console of (extract_targets in      *)
(* src/telemetry/traffic.cpp), as operators.  A sky is what X-Plane gives: *)
(* one slot per aircraft, the first of them the pilot's own, and a count.  *)
(* Places are numbers on a line; a value that is not a number, or not a    *)
(* place on earth, is {}.                                                  *)
(***************************************************************************)
EXTENDS Integers, FiniteSets, SequencesExt

CONSTANTS
    Bounds      \* TrafficBounds: [radius_nm, vertical_ft, max_targets]

ASSUME BoundsAssumption ==
    /\ Bounds.radius_nm \in Nat /\ Bounds.vertical_ft \in Nat
    /\ Bounds.max_targets \in Nat

\* What X-Plane may give: a slot of the arrays, and a sky of them; there is
\* always the pilot's own (kTcasSlots).
Slot == [at : SUBSET Int, alt : SUBSET Int, fast : BOOLEAN, low : SUBSET BOOLEAN,
         wheels : BOOLEAN]
Sky  == [slots : Seq(Slot) \ {<<>>}, num_acf : Int, own : [at : Int, alt : Int],
         resolved : BOOLEAN]

Apart(p, q) == IF p <= q THEN q - p ELSE p - q

\* A comparison with what is not a number is false, so the slot is kept.
Beyond(values, reference, bound) == \E v \in values : Apart(v, reference) > bound

\* slot_populated.
Populated(slot) == slot.at # {}

\* target_on_ground: what moves like nothing on wheels flies; then the height
\* decides where it was measured, and the flag elsewhere.
OnGround(slot) ==
    /\ ~slot.fast
    /\ IF slot.low # {} THEN TRUE \in slot.low ELSE slot.wheels

Target(sky, i) ==
    [slot     |-> i,
     distance |-> CHOOSE d \in {Apart(p, sky.own.at) : p \in sky.slots[i].at} : TRUE,
     onGround |-> OnGround(sky.slots[i])]
-----------------------------------------------------------------------------
Nothing == [seen |-> 0, vertical |-> 0, range |-> 0, found |-> <<>>]

\* One turn of the loop over the slots: num_acf is a count, and only stops it
\* early.
Counted(scan, sky, i) ==
    /\ sky.num_acf > 0 => scan.seen < sky.num_acf
    /\ Populated(sky.slots[i])

ScanSlot(scan, sky, i) ==
    LET slot == sky.slots[i]
        seen == [scan EXCEPT !.seen = @ + 1]
    IN IF ~Counted(scan, sky, i) THEN scan
       ELSE IF Beyond(slot.alt, sky.own.alt, Bounds.vertical_ft)
         THEN [seen EXCEPT !.vertical = @ + 1]
       ELSE IF Beyond(slot.at, sky.own.at, Bounds.radius_nm)
         THEN [seen EXCEPT !.range = @ + 1]
       ELSE [seen EXCEPT !.found = Append(@, Target(sky, i))]

\* The own aircraft's slot, the first, is left out.
ScanSlots(sky) ==
    LET scan[i \in 1..Len(sky.slots)] ==
            IF i = 1 THEN Nothing ELSE ScanSlot(scan[i - 1], sky, i)
    IN scan[Len(sky.slots)]

\* Bug: the targets stay in the order of their slots.
InSlotOrder(found) == found

\* The stable sort, nearest first.
NearestFirst(found) ==
    LET Before(i) == {j \in DOMAIN found :
                        \/ found[j].distance < found[i].distance
                        \/ found[j].distance = found[i].distance /\ j < i}
    IN [n \in DOMAIN found |->
          found[CHOOSE i \in DOMAIN found : Cardinality(Before(i)) = n - 1]]

\* How many the cap drops; no cap is no limit.
OverCap(found) ==
    IF Bounds.max_targets > 0 /\ Len(found) > Bounds.max_targets
    THEN Len(found) - Bounds.max_targets ELSE 0

Unavailable == [status |-> "unavailable", targets |-> <<>>, truncated |-> FALSE,
                reported |-> 0, seen |-> 0, vertical |-> 0, range |-> 0, cap |-> 0]

Picture(sky) ==
    LET scan == ScanSlots(sky)
        over == OverCap(scan.found)
        kept == SubSeq(NearestFirst(scan.found), 1, Len(scan.found) - over)
    IN IF ~sky.resolved THEN Unavailable
       ELSE [status    |-> IF kept = <<>> THEN "known_empty" ELSE "current",
             targets   |-> kept,
             truncated |-> over > 0,
             reported  |-> sky.num_acf,
             seen      |-> scan.seen,
             vertical  |-> scan.vertical,
             range     |-> scan.range,
             cap       |-> over]
-----------------------------------------------------------------------------
\* The reference: the other aircraft, and those in reach, whatever X-Plane's
\* count says of them.
Others(sky) == {i \in 2..Len(sky.slots) : Populated(sky.slots[i])}

InReach(sky) ==
    {i \in Others(sky) :
        /\ ~Beyond(sky.slots[i].alt, sky.own.alt, Bounds.vertical_ft)
        /\ ~Beyond(sky.slots[i].at, sky.own.at, Bounds.radius_nm)}

Away(sky, i) == Target(sky, i).distance

\* The count stopped the scan, or would have at the next aircraft: the frame
\* carries both numbers, and a count that includes the own aircraft is larger.
MayBeCut(picture) == picture.reported > 0 /\ picture.seen >= picture.reported

\* The console can tell from a picture what it leaves out: nobody in reach is
\* missing unless the picture is truncated or the count may have cut it, and
\* if it did not, nobody missing is nearer than anybody shown; a truncated
\* picture is a full one; the own aircraft is not in it; and no picture is not an
\* empty sky (traffic.cpp:140-225).  known_empty alone is not the header's "no
\* slot holds a valid target" (traffic.hpp:34): it is said of aircraft out of
\* reach too, and what says that there are none is a census of nobody seen.
IsHonest(sky) ==
    LET picture == Picture(sky)
        slots   == {t.slot : t \in ToSet(picture.targets)}
        missing == InReach(sky) \ slots
    IN IF ~sky.resolved THEN picture.status = "unavailable" /\ slots = {}
       ELSE /\ slots \subseteq InReach(sky)
            /\ Cardinality(slots) = Len(picture.targets)
            /\ missing # {} => picture.truncated \/ MayBeCut(picture)
            /\ ~MayBeCut(picture) =>
                 \A i \in slots, j \in missing : Away(sky, i) <= Away(sky, j)
            /\ picture.truncated => Len(picture.targets) = Bounds.max_targets
            /\ \A m, n \in DOMAIN picture.targets :
                 m < n => picture.targets[m].distance <= picture.targets[n].distance
            /\ picture.seen = Cardinality(Others(sky)) \/ MayBeCut(picture)
            /\ picture.seen = 0 <=> Others(sky) = {}
            /\ picture.seen = Len(picture.targets) + picture.vertical
                              + picture.range + picture.cap
            /\ IF slots # {} THEN picture.status = "current"
               ELSE /\ picture.status = "known_empty"
                    /\ InReach(sky) = {} \/ MayBeCut(picture)
=============================================================================
