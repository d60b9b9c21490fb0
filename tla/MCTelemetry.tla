---------------------------- MODULE MCTelemetry ----------------------------
\* One sky in the behaviours, and, to take pictures of, every sky of the own
\* aircraft and up to four others.
EXTENDS Telemetry

SlotAt(p, height) ==
    [at |-> p, alt |-> height, fast |-> FALSE, low |-> {}, wheels |-> FALSE]
SkyOf(others, count) ==
    [slots |-> <<SlotAt({0}, {0})>> \o others, num_acf |-> count,
     own |-> [at |-> 0, alt |-> 0], resolved |-> TRUE]

Aircraft == {SlotAt({}, {0}), SlotAt({0}, {0}), SlotAt({1}, {}), SlotAt({2}, {0}), SlotAt({2}, {9}),
             SlotAt({9}, {0})}

MCBounds  == [radius_nm |-> 2, vertical_ft |-> 3, max_targets |-> 2]
MCSkies   == {SkyOf(<<SlotAt({2}, {0}), SlotAt({1}, {0})>>, 3)}
MCSamples ==
    {SkyOf(others, count) : others \in UNION {[1..n -> Aircraft] : n \in 0..4}, count \in 0..5}
      \union {[SkyOf(<<SlotAt({1}, {0})>>, 2) EXCEPT !.resolved = FALSE]}
MCTunedFor == {<<0, "standby">>, <<2, "standby">>}
=============================================================================
