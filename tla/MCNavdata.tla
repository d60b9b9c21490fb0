----------------------------- MODULE MCNavdata -----------------------------
\* Two airports of one text each; and, to take texts from, every apt.dat of up
\* to four rows about them, and every two of up to two, with fix files in two
\* copies around one of them.
EXTENDS Navdata

Copy(source, rows) == [source |-> source, rows |-> rows]

Installation(apt, nav) ==
    [apt      |-> apt,
     cifp     |-> [icao \in Airports |-> <<>>],
     airspace |-> <<>>,
     atc      |-> <<>>,
     vrp      |-> <<>>,
     fixes    |-> [fix |-> <<>>, nav |-> nav]]

MCDataFiles ==
    [here |-> Installation(<<Copy("global", <<Header("A"), Plain("a"), End, Header("B"), Place(0)>>)>>,
                           <<>>)]

Rows == {Header("A"), Header("B"), End, Plain("x"), Place(0), Place(1), Place(9)}
Files(most) == UNION {[1..n -> Rows] : n \in 0..most}

Apts == {<<Copy("global", file)>> : file \in Files(4)}
        \union {<<Copy("custom", one), Copy("global", other)>> : one, other \in Files(2)}

MCSamples ==
    {Installation(apt, <<Copy("custom", <<Place(0)>>), Copy("global", <<Place(1), Place(9)>>)>>) :
        apt \in Apts}
=============================================================================
