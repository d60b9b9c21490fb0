---------------------------- MODULE NavdataFiles ----------------------------
(***************************************************************************)
(* What the plugin takes out of X-Plane's data files for one airport       *)
(* (src/navdata/navdata_service.cpp), as operators.                        *)
(*                                                                         *)
(* A file is a sequence of rows: the header of an airport, the end of one, *)
(* or a row that may say where it is.  Places are numbers on a line, and a *)
(* row that gives no valid place has none, {}; the place of a runway, the  *)
(* mean of its two ends, is taken as the code gives it.  The hash of a     *)
(* text is the text: MD5 is taken to be injective.                         *)
(***************************************************************************)
EXTENDS Integers, FiniteSets, SequencesExt

CONSTANTS
    kRegionalAptRadiusNm,   \* 100 in the code
    kFixBoxRadiusNm         \* 150 in the code

ASSUME RadiusAssumption == kRegionalAptRadiusNm \in Nat \ {0} /\ kFixBoxRadiusNm \in Nat

Header(icao) == [kind |-> "header", icao |-> icao, at |-> {}]
End          == [kind |-> "end", icao |-> "", at |-> {}]
Place(p)     == [kind |-> "row", icao |-> "", at |-> {p}]
Plain(name)  == [kind |-> "row", icao |-> name, at |-> {}]

\* What a file is, and an installation: a row that heads an airport has no place,
\* and there are two kinds of fix files.
IsList(list) == list \in Seq(ToSet(list))

IsFile(rows) ==
    /\ IsList(rows)
    /\ \A i \in DOMAIN rows :
         /\ rows[i].kind \in {"header", "end", "row"}
         /\ rows[i].kind = "header" => rows[i].at = {}

IsInstallation(install) ==
    /\ IsList(install.apt) /\ \A a \in DOMAIN install.apt : IsFile(install.apt[a].rows)
    /\ DOMAIN install.fixes = {"fix", "nav"}
    /\ \A file \in DOMAIN install.fixes :
         /\ IsList(install.fixes[file])
         /\ \A i \in DOMAIN install.fixes[file] : IsList(install.fixes[file][i].rows)

Distance(p, q) == IF p <= q THEN q - p ELSE p - q
Within(P, Q, radius) == \E p \in P, q \in Q : Distance(p, q) <= radius
-----------------------------------------------------------------------------
NoBlock == [icao |-> "", rows |-> <<>>, at |-> {}]

Flush(scan) ==
    [blocks |-> IF scan.active THEN Append(scan.blocks, scan.block) ELSE scan.blocks,
     active |-> FALSE,
     block  |-> NoBlock]

\* A block with one row more: the first that has a place places the airport
\* (update_block_reference).
With(block, row) ==
    [icao |-> block.icao, rows |-> Append(block.rows, row),
     at   |-> IF block.at = {} THEN row.at ELSE block.at]

\* Bug: the block goes on after its terminator.
ScanRowOn(scan, row) ==
    CASE row.kind = "header" ->
            [Flush(scan) EXCEPT !.active = TRUE,
                                !.block = [icao |-> row.icao, rows |-> <<row>>, at |-> {}]]
      [] row.kind = "end" -> scan
      [] OTHER ->
            IF ~scan.active THEN scan
            ELSE [scan EXCEPT !.block = With(@, row)]

\* scan_airport_blocks: a header opens the block of an airport and closes the
\* one before, and a terminator closes it.
ScanRow(scan, row) ==
    CASE row.kind = "header" ->
            [Flush(scan) EXCEPT !.active = TRUE,
                                !.block = [icao |-> row.icao, rows |-> <<row>>, at |-> {}]]
      [] row.kind = "end" -> Flush(scan)
      [] OTHER ->
            IF ~scan.active THEN scan
            ELSE [scan EXCEPT !.block = With(@, row)]

Blocks(file) ==
    LET scan[n \in 0..Len(file)] ==
            IF n = 0 THEN [blocks |-> <<>>, active |-> FALSE, block |-> NoBlock]
            ELSE ScanRow(scan[n - 1], file[n])
    IN Flush(scan[Len(file)]).blocks

\* The elements of a list at some of its places, in the list's order.
InOrder(list, S) ==
    [n \in 1..Cardinality(S) |->
        list[CHOOSE i \in S : Cardinality({j \in S : j < i}) = n - 1]]

\* The rows of the k-th block are added if k is chosen.
TextOf(blocks, chosen) ==
    LET text[n \in 0..Len(blocks)] ==
            IF n = 0 THEN <<>>
            ELSE IF n \in chosen THEN text[n - 1] \o blocks[n].rows ELSE text[n - 1]
    IN text[Len(blocks)]

\* extract_regional_airport_blocks: the airport's own blocks and those of every
\* airport around a place of it, in the file's order; without a place only its
\* own.
InRegion(blocks, icao) ==
    {k \in DOMAIN blocks :
        \/ blocks[k].icao = icao
        \/ \E ref \in DOMAIN blocks :
             /\ blocks[ref].icao = icao
             /\ Within(blocks[ref].at, blocks[k].at, kRegionalAptRadiusNm)}

Regional(file, icao) == TextOf(Blocks(file), InRegion(Blocks(file), icao))

\* find_airport_reference, in the text that was taken.
Reference(text, icao) ==
    LET blocks  == Blocks(text)
        located == {k \in DOMAIN blocks : blocks[k].icao = icao /\ blocks[k].at # {}}
    IN IF located = {} THEN {} ELSE blocks[Min(located)].at

\* extract_rows_in_box.
RowsInBox(file, at) ==
    InOrder(file, {i \in DOMAIN file : Within(file[i].at, at, kFixBoxRadiusNm)})
-----------------------------------------------------------------------------
(***************************************************************************)
(* An installation has apt.dat files in the order of apt_candidates,       *)
(* custom scenery before the global one, a procedures file per airport,    *)
(* three files of the whole world, and two kinds of fix files in the order *)
(* of fix_candidates.  A file that is missing or unreadable is empty.      *)
(***************************************************************************)
Offer(kind, icao, source, text, file) ==
    [kind |-> kind, icao |-> icao, source |-> source, text |-> text, file |-> file]

AptOffers(install, icao) ==
    LET texts == [i \in DOMAIN install.apt |->
                    Offer("apt", icao, install.apt[i].source,
                          Regional(install.apt[i].rows, icao), "")]
    IN InOrder(texts, {i \in DOMAIN texts : texts[i].text # <<>>})

WholeFile(kind, icao, text) ==
    IF text = <<>> THEN <<>> ELSE <<Offer(kind, icao, "global", text, "")>>

\* publish_fixes, one kind of file: the first copy that has rows around the
\* airport.
FixOffers(install, file, at) ==
    LET copies == install.fixes[file]
        hits   == {i \in DOMAIN copies : RowsInBox(copies[i].rows, at) # <<>>}
        first  == copies[Min(hits)]
    IN IF hits = {} THEN <<>>
       ELSE <<Offer("fixes", "", first.source, RowsInBox(first.rows, at), file)>>

\* publish_for_airport: everything offered for an airport, in order.  Its place
\* is the one the first apt text that has the airport gives, whichever names
\* one first.
Offers(install, icao) ==
    LET apt    == AptOffers(install, icao)
        placed == {i \in DOMAIN apt : Reference(apt[i].text, icao) # {}}
    IN apt
       \o WholeFile("cifp", icao, install.cifp[icao])
       \o WholeFile("airspace", "", install.airspace)
       \o WholeFile("atc", "", install.atc)
       \o WholeFile("vrp", "", install.vrp)
       \o (IF placed = {} THEN <<>>
           ELSE LET at == Reference(apt[Min(placed)].text, icao)
                IN FixOffers(install, "fix", at) \o FixOffers(install, "nav", at))
-----------------------------------------------------------------------------
\* The reference: a row belongs to the last header before it that no
\* terminator and no other header separates from it.
Owner(file, i) ==
    {h \in DOMAIN file :
        /\ h <= i /\ file[h].kind = "header"
        /\ \A j \in (h + 1)..i : file[j].kind = "row"}

PlaceOfAirport(file, h) ==
    LET placed == {i \in DOMAIN file : h \in Owner(file, i) /\ file[i].at # {}}
    IN IF placed = {} THEN {} ELSE file[Min(placed)].at

Headers(file, icao) == {h \in DOMAIN file : file[h].kind = "header" /\ file[h].icao = icao}

RowsOfRegion(file, icao) ==
    {i \in DOMAIN file : \E h \in Owner(file, i) :
        \/ file[h].icao = icao
        \/ \E ref \in Headers(file, icao) :
             Within(PlaceOfAirport(file, ref), PlaceOfAirport(file, h), kRegionalAptRadiusNm)}

\* Where a file has an airport, and where an installation does: where the first
\* of its files says that says it.
PlaceIn(file, icao) ==
    LET placed == {h \in Headers(file, icao) : PlaceOfAirport(file, h) # {}}
    IN IF placed = {} THEN {} ELSE PlaceOfAirport(file, Min(placed))

AirportAt(install, icao) ==
    LET placed == {a \in DOMAIN install.apt : PlaceIn(install.apt[a].rows, icao) # {}}
    IN IF placed = {} THEN {} ELSE PlaceIn(install.apt[Min(placed)].rows, icao)

\* Every airport near the wanted one is in the text whole, nothing of any other
\* airport is, and the rows keep the file's order, whatever the file leaves out
\* or repeats (extract_regional_airport_blocks).
RegionIsWhole(install, icao) ==
    \A a \in DOMAIN install.apt :
        LET file == install.apt[a].rows
        IN Regional(file, icao) = InOrder(file, RowsOfRegion(file, icao))

\* Of each kind of fix file one copy is offered, the first, in order of
\* priority, that has a row around the airport ("highest-priority existing copy
\* wins", navdata_service.cpp:673), with the rows it has there; none only where
\* none has, or where no apt.dat says where the airport is.
OneCopyOfFixes(install, icao) ==
    LET all == Offers(install, icao)
        at  == AirportAt(install, icao)
    IN \A file \in DOMAIN install.fixes :
         LET copies  == install.fixes[file]
             hits    == {i \in DOMAIN copies : RowsInBox(copies[i].rows, at) # <<>>}
             offered == {n \in DOMAIN all : all[n].file = file}
         IN /\ Cardinality(offered) <= 1
            /\ hits # {} => offered # {}
            /\ \A n \in offered : \E i \in hits :
                 /\ all[n].source = copies[i].source
                 /\ all[n].text = RowsInBox(copies[i].rows, at)
                 /\ \A j \in hits : i <= j
=============================================================================
