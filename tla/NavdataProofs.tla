---------------------------- MODULE NavdataProofs ----------------------------
(***************************************************************************)
(* What the plugin takes from X-Plane's data files is what it should, for  *)
(* any files, and what the console was told of it can have, for any        *)
(* number of scans, losses and requests.                                   *)
(*                                                                         *)
(* The first part is about the operators of NavdataFiles.  A text is read  *)
(* from a file at some of its places (Reads).  Row by row, the scan keeps  *)
(* one block for each header so far, which reads the rows of that airport  *)
(* (Scanned), so that the text of a region reads the rows of its airports, *)
(* and says of each where it is what the file says.  The second part is    *)
(* about the steps.                                                        *)
(***************************************************************************)
EXTENDS Navdata, SequenceTheorems, FiniteSetTheorems, WellFoundedInduction, TLAPS

LEMMA LeastOne ==
    ASSUME NEW S \in SUBSET Nat, S # {}
    PROVE  \E n \in S : \A m \in S : n <= m
  <1>1. PICK n \in S : \A m \in S : <<m, n>> \notin OpToRel(<, Nat)
    BY NatLessThanWellFounded, WFMin, Zenon
  <1>2. \A m \in S : ~(m < n)
    BY <1>1, Zenon DEF OpToRel
  <1> QED
    BY <1>2

LEMMA MinIsLeast ==
    ASSUME NEW S \in SUBSET Nat, S # {}
    PROVE  Min(S) \in S /\ \A m \in S : Min(S) <= m
  BY LeastOne DEF Min

LEMMA MinIsTheOne ==
    ASSUME NEW S \in SUBSET Nat, NEW i \in S, \A m \in S : i <= m
    PROVE  Min(S) = i
  <1>1. Min(S) \in S /\ \A m \in S : Min(S) <= m
    BY MinIsLeast
  <1>2. Min(S) \in Nat /\ i \in Nat /\ Min(S) <= i /\ i <= Min(S)
    BY <1>1
  <1> QED
    BY <1>2
-----------------------------------------------------------------------------
(* A text reads a list at some of its places: which of them, in order. *)
Follows(text, list, S, f) ==
    /\ text \in Seq(ToSet(list))
    /\ f \in [1..Len(text) -> S]
    /\ \A m, n \in 1..Len(text) : m < n => f[m] < f[n]
    /\ \A i \in S : \E n \in 1..Len(text) : f[n] = i
    /\ \A n \in 1..Len(text) : text[n] = list[f[n]]

Reads(text, list, S) == \E f : Follows(text, list, S, f)

LEMMA ReadsNothing ==
    ASSUME NEW list
    PROVE  Reads(<<>>, list, {})
  <1> DEFINE f == [n \in 1..0 |-> 0]
  <1>1. <<>> \in Seq(ToSet(list)) /\ Len(<<>>) = 0 /\ 1..0 = {}
    OBVIOUS
  <1>2. f \in [1..0 -> {}]
    BY <1>1
  <1> HIDE DEF f
  <1>3. Follows(<<>>, list, {}, f)
    BY <1>1, <1>2 DEF Follows
  <1> QED
    BY <1>3 DEF Reads

LEMMA ReadsOne ==
    ASSUME NEW list, NEW i \in DOMAIN list
    PROVE  Reads(<<list[i]>>, list, {i})
  <1> DEFINE f == [n \in 1..1 |-> i]
             text == <<list[i]>>
  <1>1. list[i] \in ToSet(list)
    BY DEF ToSet
  <1>2. text \in Seq(ToSet(list)) /\ Len(text) = 1 /\ text[1] = list[i]
    BY <1>1
  <1>3. f \in [1..1 -> {i}] /\ f[1] = i
    OBVIOUS
  <1>4. \A n \in 1..1 : n = 1
    OBVIOUS
  <1> HIDE DEF f, text
  <1>5. Follows(text, list, {i}, f)
    BY <1>2, <1>3, <1>4 DEF Follows
  <1> QED
    BY <1>5 DEF Reads, text

LEMMA ReadsOn ==
    ASSUME NEW list, NEW S \in SUBSET Nat, NEW T \in SUBSET Nat, NEW text, NEW more,
           Reads(text, list, S), Reads(more, list, T),
           \A i \in S, j \in T : i < j
    PROVE  Reads(text \o more, list, S \union T)
  <1>1. PICK f : Follows(text, list, S, f)
    BY DEF Reads
  <1>2. PICK g : Follows(more, list, T, g)
    BY DEF Reads
  <1> DEFINE a == Len(text)
             b == Len(more)
             all == text \o more
             h == [n \in 1..(a + b) |-> IF n <= a THEN f[n] ELSE g[n - a]]
  <1>3. text \in Seq(ToSet(list)) /\ more \in Seq(ToSet(list))
    BY <1>1, <1>2 DEF Follows
  <1>4. /\ a \in Nat /\ b \in Nat /\ all \in Seq(ToSet(list)) /\ Len(all) = a + b
        /\ \A n \in 1..(a + b) : all[n] = IF n <= a THEN text[n] ELSE more[n - a]
    BY <1>3, ConcatProperties
  <1>5. /\ f \in [1..a -> S]
        /\ \A m, n \in 1..a : m < n => f[m] < f[n]
        /\ \A i \in S : \E n \in 1..a : f[n] = i
        /\ \A n \in 1..a : text[n] = list[f[n]]
    BY <1>1 DEF Follows
  <1>6. /\ g \in [1..b -> T]
        /\ \A m, n \in 1..b : m < n => g[m] < g[n]
        /\ \A i \in T : \E n \in 1..b : g[n] = i
        /\ \A n \in 1..b : more[n] = list[g[n]]
    BY <1>2 DEF Follows
  <1> HIDE DEF a, b, all
  <1>7. \A n \in 1..(a + b) : IF n <= a THEN n \in 1..a ELSE n - a \in 1..b
    BY <1>4
  <1>8. \A n \in 1..(a + b) : h[n] = IF n <= a THEN f[n] ELSE g[n - a]
    OBVIOUS
  <1>9. h \in [1..(a + b) -> S \union T]
    BY <1>5, <1>6, <1>7
  <1> HIDE DEF h
  <1>10. ASSUME NEW m \in 1..(a + b), NEW n \in 1..(a + b), m < n PROVE h[m] < h[n]
    <2>1. CASE n <= a
      <3>1. m <= a
        BY <1>4, <1>10, <2>1
      <3> QED
        BY <1>5, <1>7, <1>8, <1>10, <2>1, <3>1
    <2>2. CASE ~(n <= a) /\ m <= a
      <3>1. h[m] = f[m] /\ h[n] = g[n - a] /\ f[m] \in S /\ g[n - a] \in T
        BY <1>5, <1>6, <1>7, <1>8, <2>2
      <3> QED
        BY <3>1
    <2>3. CASE ~(n <= a) /\ ~(m <= a)
      <3>1. h[m] = g[m - a] /\ h[n] = g[n - a] /\ m - a \in 1..b /\ n - a \in 1..b
        BY <1>7, <1>8, <2>3
      <3>2. m - a < n - a
        BY <1>4, <1>10
      <3> QED
        BY <1>6, <3>1, <3>2
    <2> QED
      BY <2>1, <2>2, <2>3
  <1>11. ASSUME NEW i \in S \union T PROVE \E n \in 1..(a + b) : h[n] = i
    <2>1. CASE i \in S
      <3>1. PICK n \in 1..a : f[n] = i
        BY <1>5, <2>1
      <3>2. n \in 1..(a + b) /\ n <= a
        BY <1>4
      <3> QED
        BY <1>8, <3>1, <3>2
    <2>2. CASE i \in T
      <3>1. PICK n \in 1..b : g[n] = i
        BY <1>6, <2>2
      <3>2. n + a \in 1..(a + b) /\ ~(n + a <= a) /\ (n + a) - a = n
        BY <1>4
      <3> QED
        BY <1>8, <3>1, <3>2
    <2> QED
      BY <2>1, <2>2
  <1>12. ASSUME NEW n \in 1..(a + b) PROVE all[n] = list[h[n]]
    <2>1. CASE n <= a
      BY <1>4, <1>5, <1>7, <1>8, <2>1
    <2>2. CASE ~(n <= a)
      BY <1>4, <1>6, <1>7, <1>8, <2>2
    <2> QED
      BY <2>1, <2>2
  <1>13. Follows(all, list, S \union T, h)
    BY <1>4, <1>9, <1>10, <1>11, <1>12 DEF Follows
  <1> QED
    BY <1>13 DEF Reads, all

\* What reads a list at some places is the list at these, in order.
LEMMA ReadsInOrder ==
    ASSUME NEW list, NEW S \in SUBSET Nat, NEW text, Reads(text, list, S)
    PROVE  text = InOrder(list, S)
  <1>1. PICK f : Follows(text, list, S, f)
    BY DEF Reads
  <1> DEFINE N == Len(text)
             Less(i) == {j \in S : j < i}
             at(n) == CHOOSE i \in S : Cardinality(Less(i)) = n - 1
  <1>2. /\ text \in Seq(ToSet(list)) /\ f \in [1..N -> S]
        /\ \A m, n \in 1..N : m < n => f[m] < f[n]
        /\ \A i \in S : \E n \in 1..N : f[n] = i
        /\ \A n \in 1..N : text[n] = list[f[n]]
    BY <1>1 DEF Follows
  <1>3. N \in Nat /\ text = [n \in 1..N |-> text[n]]
    BY <1>2
  <1> HIDE DEF N
  <1>4. \A n \in 1..N : f[n] \in Nat
    BY <1>2
  <1>5. \A m, n \in 1..N : f[m] < f[n] <=> m < n
    BY <1>2, <1>3, <1>4
  <1>6. \A m, n \in 1..N : f[m] = f[n] => m = n
    BY <1>3, <1>4, <1>5
  <1>7. \A k \in 0..N : IsFiniteSet(1..k) /\ Cardinality(1..k) = k
    <2> TAKE k \in 0..N
    <2>1. 1 \in Int /\ k \in Int /\ (1 > k => k = 0) /\ k - 1 + 1 = k
      BY <1>3
    <2>2. IsFiniteSet(1..k) /\ Cardinality(1..k) = IF 1 > k THEN 0 ELSE k - 1 + 1
      BY <2>1, FS_Interval
    <2> QED
      BY <2>1, <2>2
  <1>8. Cardinality(S) = N
    <2>1. f \in Bijection(1..N, S)
      BY <1>2, <1>6 DEF Bijection, Injection, Surjection, IsInjective
    <2>2. ExistsBijection(1..N, S)
      BY <2>1 DEF ExistsBijection
    <2>3. IsFiniteSet(1..N) /\ Cardinality(1..N) = N
      BY <1>3, <1>7
    <2> QED
      BY <2>2, <2>3, FS_Bijection
  <1>9. ASSUME NEW n \in 1..N PROVE Cardinality(Less(f[n])) = n - 1
    <2> DEFINE k == n - 1
               g == [m \in 1..k |-> f[m]]
               less == Less(f[n])
    <2>1. k \in 0..N /\ \A m : m \in 1..k <=> m \in 1..N /\ m < n
      BY <1>3
    <2>2. \A m \in 1..k : f[m] \in S /\ f[m] < f[n]
      BY <1>2, <2>1
    <2>3. \A i \in less : \E m \in 1..k : f[m] = i
      BY <1>2, <1>5, <2>1
    <2>4. \A m \in 1..k : f[m] \in less
      BY <2>2
    <2> HIDE DEF k, less
    <2>5. g \in [1..k -> less] /\ \A m \in 1..k : g[m] = f[m]
      BY <2>4
    <2> HIDE DEF g
    <2>6. \A m, l \in 1..k : g[m] = g[l] => m = l
      BY <1>6, <2>1, <2>5
    <2>7. \A i \in less : \E m \in 1..k : g[m] = i
      BY <2>3, <2>5
    <2>8. g \in Bijection(1..k, less)
      BY <2>5, <2>6, <2>7 DEF Bijection, Injection, Surjection, IsInjective
    <2>9. ExistsBijection(1..k, less)
      BY <2>8 DEF ExistsBijection
    <2>10. IsFiniteSet(1..k) /\ Cardinality(1..k) = k
      BY <1>7, <2>1
    <2> QED
      BY <2>9, <2>10, FS_Bijection DEF k, less
  <1>10. ASSUME NEW n \in 1..N PROVE at(n) = f[n]
    <2>1. f[n] \in S /\ Cardinality(Less(f[n])) = n - 1
      BY <1>2, <1>9
    <2>2. at(n) \in S /\ Cardinality(Less(at(n))) = n - 1
      BY <2>1
    <2>3. PICK m \in 1..N : f[m] = at(n)
      BY <1>2, <2>2
    <2>4. m - 1 = n - 1
      BY <1>9, <2>2, <2>3
    <2>5. m = n
      BY <1>3, <2>4
    <2> QED
      BY <2>3, <2>5
  <1>11. InOrder(list, S) = [n \in 1..N |-> list[at(n)]]
    BY <1>8 DEF InOrder
  <1> HIDE DEF at
  <1> QED
    BY <1>2, <1>3, <1>10, <1>11

\* Any list can be read at any of its places.
LEMMA ReadsAny ==
    ASSUME NEW list, IsList(list), NEW S \in SUBSET DOMAIN list
    PROVE  Reads(InOrder(list, S), list, S)
  <1> DEFINE N == Len(list)
             Upto(n) == {i \in S : i <= n}
             unread == {n \in 0..N : ~\E text : Reads(text, list, Upto(n))}
  <1>1. N \in Nat /\ DOMAIN list = 1..N
    BY DEF IsList
  <1> HIDE DEF N
  <1>2. unread = {}
    <2> SUFFICES ASSUME unread # {} PROVE FALSE
      OBVIOUS
    <2>1. unread \in SUBSET Nat
      BY <1>1
    <2>2. \E n \in unread : \A m \in unread : n <= m
      BY <2>1, LeastOne
    <2>3. PICK n \in 0..N : /\ ~\E text : Reads(text, list, Upto(n))
                            /\ \A m \in 0..N : (~\E text : Reads(text, list, Upto(m))) => n <= m
      BY <2>2
    <2>4. CASE n = 0
      <3>1. Upto(0) = {}
        BY <1>1
      <3> QED
        BY <2>3, <2>4, <3>1, ReadsNothing
    <2>5. CASE n # 0
      <3>1. n - 1 \in 0..N /\ ~(n <= n - 1) /\ n \in 1..N
        BY <1>1, <2>5
      <3>2. PICK text : Reads(text, list, Upto(n - 1))
        BY <2>3, <3>1
      <3>3. \A i \in S : i \in Nat /\ (i <= n <=> i <= n - 1 \/ i = n)
        BY <1>1, <3>1
      <3>4. CASE n \in S
        <4>1. Upto(n) = Upto(n - 1) \union {n} /\ \A i \in Upto(n - 1), j \in {n} : i < j
          BY <3>1, <3>3, <3>4
        <4>2. Upto(n - 1) \in SUBSET Nat /\ {n} \in SUBSET Nat
          BY <3>1, <3>3
        <4>3. Reads(<<list[n]>>, list, {n})
          BY <1>1, <3>1, ReadsOne
        <4> HIDE DEF Upto
        <4>4. Reads(text \o <<list[n]>>, list, Upto(n - 1) \union {n})
          BY <3>2, <4>1, <4>2, <4>3, ReadsOn
        <4> QED
          BY <2>3, <4>1, <4>4
      <3>5. CASE n \notin S
        <4>1. Upto(n) = Upto(n - 1)
          BY <3>3, <3>5
        <4> QED
          BY <2>3, <3>2, <4>1
      <3> QED
        BY <3>4, <3>5
    <2> QED
      BY <2>4, <2>5
  <1>3. N \in 0..N /\ Upto(N) = S
    BY <1>1
  <1>4. PICK text : Reads(text, list, S)
    BY <1>2, <1>3
  <1>5. S \in SUBSET Nat
    BY <1>1
  <1>6. text = InOrder(list, S)
    BY <1>4, <1>5, ReadsInOrder
  <1> QED
    BY <1>4, <1>6
-----------------------------------------------------------------------------
(* What the scan of a file knows. *)
OwnedTo(file, h, n) == {i \in DOMAIN file : i <= n /\ h \in Owner(file, i)}
PlacedTo(file, h, n) == {i \in OwnedTo(file, h, n) : file[i].at # {}}
PlaceTo(file, h, n) ==
    IF PlacedTo(file, h, n) = {} THEN {} ELSE file[Min(PlacedTo(file, h, n))].at
HeadersTo(file, n) == {h \in DOMAIN file : h <= n /\ file[h].kind = "header"}

LEMMA FilesAreLists ==
    ASSUME NEW file, IsFile(file)
    PROVE  /\ Len(file) \in Nat /\ DOMAIN file = 1..Len(file)
           /\ \A i \in 1..Len(file) : /\ file[i] \in ToSet(file)
                                      /\ file[i].kind \in {"header", "end", "row"}
                                      /\ file[i].kind = "header" => file[i].at = {}
  <1>1. file \in Seq(ToSet(file))
    BY DEF IsFile, IsList
  <1> QED
    BY <1>1 DEF IsFile

LEMMA Owners ==
    ASSUME NEW file, IsFile(file), NEW n \in DOMAIN file
    PROVE  /\ file[n].kind = "header" => Owner(file, n) = {n}
           /\ file[n].kind = "end" => Owner(file, n) = {}
           /\ file[n].kind = "row" => Owner(file, n) = Owner(file, n - 1)
           /\ \A h \in Owner(file, n) : h <= n /\ h \in DOMAIN file /\ file[h].kind = "header"
  <1>1. Len(file) \in Nat /\ DOMAIN file = 1..Len(file)
    BY FilesAreLists
  <1>2. \A h \in DOMAIN file : h < n => n \in (h + 1)..n
    BY <1>1
  <1>3. \A h \in DOMAIN file : h \in Owner(file, n) => h = n \/ file[n].kind = "row"
    BY <1>1, <1>2 DEF Owner
  <1>4. (n + 1)..n = {}
    BY <1>1
  <1>5. file[n].kind = "header" => Owner(file, n) = {n}
    BY <1>1, <1>3, <1>4 DEF Owner
  <1>6. file[n].kind = "end" => Owner(file, n) = {}
    BY <1>1, <1>3 DEF Owner
  <1>7. ASSUME file[n].kind = "row" PROVE Owner(file, n) = Owner(file, n - 1)
    <2>1. \A h \in DOMAIN file : file[h].kind = "header" => (h <= n <=> h <= n - 1)
      BY <1>1, <1>7
    <2>2. \A h \in DOMAIN file : \A j \in (h + 1)..n : j \in (h + 1)..(n - 1) \/ j = n
      BY <1>1
    <2>3. \A h \in DOMAIN file : \A j \in (h + 1)..(n - 1) : j \in (h + 1)..n
      BY <1>1
    <2> QED
      BY <1>7, <2>1, <2>2, <2>3 DEF Owner
  <1>8. \A h \in Owner(file, n) : h <= n /\ h \in DOMAIN file /\ file[h].kind = "header"
    BY DEF Owner
  <1> QED
    BY <1>5, <1>6, <1>7, <1>8

LEMMA OwnedGrows ==
    ASSUME NEW file, IsFile(file), NEW n \in DOMAIN file, NEW h
    PROVE  /\ h \notin Owner(file, n) => OwnedTo(file, h, n) = OwnedTo(file, h, n - 1)
           /\ h \in Owner(file, n) => OwnedTo(file, h, n) = OwnedTo(file, h, n - 1) \union {n}
           /\ OwnedTo(file, h, n - 1) \in SUBSET Nat
           /\ \A i \in OwnedTo(file, h, n - 1) : i < n
  <1>1. Len(file) \in Nat /\ DOMAIN file = 1..Len(file)
    BY FilesAreLists
  <1>2. \A i \in DOMAIN file : i \in Nat /\ (i <= n <=> i <= n - 1 \/ i = n) /\ (i <= n - 1 => i < n)
    BY <1>1
  <1> QED
    BY <1>2 DEF OwnedTo

LEMMA PlaceGrows ==
    ASSUME NEW file, IsFile(file), NEW n \in DOMAIN file, NEW h
    PROVE  /\ h \notin Owner(file, n) => PlaceTo(file, h, n) = PlaceTo(file, h, n - 1)
           /\ h \in Owner(file, n) =>
                PlaceTo(file, h, n) = IF PlaceTo(file, h, n - 1) = {} THEN file[n].at
                                      ELSE PlaceTo(file, h, n - 1)
  <1> DEFINE before == PlacedTo(file, h, n - 1)
             now    == PlacedTo(file, h, n)
  <1>1. Len(file) \in Nat /\ DOMAIN file = 1..Len(file) /\ n \in Nat
    BY FilesAreLists
  <1>2. before \in SUBSET Nat /\ \A i \in before : i < n /\ file[i].at # {}
    BY OwnedGrows DEF PlacedTo
  <1>3. h \notin Owner(file, n) => now = before
    BY OwnedGrows DEF PlacedTo
  <1>4. h \in Owner(file, n) => now = IF file[n].at = {} THEN before ELSE before \union {n}
    BY OwnedGrows DEF PlacedTo
  <1>5. PlaceTo(file, h, n) = IF now = {} THEN {} ELSE file[Min(now)].at
    BY DEF PlaceTo
  <1>6. PlaceTo(file, h, n - 1) = IF before = {} THEN {} ELSE file[Min(before)].at
    BY DEF PlaceTo
  <1> HIDE DEF before, now
  <1>7. before # {} => Min(before) \in before /\ \A i \in before : Min(before) <= i
    BY <1>2, MinIsLeast
  <1>8. ASSUME h \in Owner(file, n)
        PROVE  PlaceTo(file, h, n) = IF PlaceTo(file, h, n - 1) = {} THEN file[n].at
                                     ELSE PlaceTo(file, h, n - 1)
    <2>1. CASE file[n].at = {}
      <3>1. now = before
        BY <1>4, <1>8, <2>1
      <3>2. before # {} => PlaceTo(file, h, n - 1) # {}
        BY <1>2, <1>6, <1>7
      <3> QED
        BY <1>5, <1>6, <2>1, <3>1, <3>2
    <2>2. CASE file[n].at # {} /\ before = {}
      <3>1. now = {n}
        BY <1>4, <1>8, <2>2
      <3>2. Min(now) = n
        BY <1>1, <3>1, MinIsTheOne
      <3> QED
        BY <1>5, <1>6, <2>2, <3>1, <3>2
    <2>3. CASE file[n].at # {} /\ before # {}
      <3>1. now = before \union {n}
        BY <1>4, <1>8, <2>3
      <3>2. now \in SUBSET Nat /\ Min(before) \in now
        BY <1>1, <1>2, <1>7, <2>3, <3>1
      <3>3. \A i \in now : Min(before) <= i
        <4>1. Min(before) \in Nat /\ Min(before) < n
          BY <1>2, <1>7, <2>3
        <4>2. Min(before) <= n
          BY <1>1, <4>1
        <4> QED
          BY <1>7, <2>3, <3>1, <4>2
      <3>4. Min(now) = Min(before)
        BY <3>2, <3>3, MinIsTheOne
      <3>5. file[Min(before)].at # {}
        BY <1>2, <1>7, <2>3
      <3>6. PlaceTo(file, h, n - 1) = file[Min(before)].at /\ PlaceTo(file, h, n) = file[Min(before)].at
        BY <1>5, <1>6, <2>3, <3>2, <3>4
      <3> QED
        BY <3>5, <3>6
    <2> QED
      BY <2>1, <2>2, <2>3
  <1> QED
    BY <1>3, <1>5, <1>6, <1>8

\* A block is that of the header h, as far as row n.
BlockOf(file, block, h, n) ==
    /\ block.icao = file[h].icao
    /\ block.at = PlaceTo(file, h, n)
    /\ Reads(block.rows, file, OwnedTo(file, h, n))

LEMMA BlockStays ==
    ASSUME NEW file, IsFile(file), NEW n \in DOMAIN file, NEW h, NEW block,
           h \notin Owner(file, n), BlockOf(file, block, h, n - 1)
    PROVE  BlockOf(file, block, h, n)
  BY OwnedGrows, PlaceGrows DEF BlockOf

LEMMA BlockGrows ==
    ASSUME NEW file, IsFile(file), NEW n \in DOMAIN file, NEW h, NEW block,
           block.rows \in Seq(ToSet(file)),
           h \in Owner(file, n), BlockOf(file, block, h, n - 1)
    PROVE  BlockOf(file, [icao |-> block.icao, rows |-> Append(block.rows, file[n]),
                          at |-> IF block.at = {} THEN file[n].at ELSE block.at], h, n)
  <1> DEFINE rows == Append(block.rows, file[n])
             place == IF block.at = {} THEN file[n].at ELSE block.at
             next == [icao |-> block.icao, rows |-> rows, at |-> place]
  <1>1. /\ block.icao = file[h].icao /\ block.at = PlaceTo(file, h, n - 1)
        /\ Reads(block.rows, file, OwnedTo(file, h, n - 1))
    BY DEF BlockOf
  <1>2. /\ OwnedTo(file, h, n) = OwnedTo(file, h, n - 1) \union {n}
        /\ OwnedTo(file, h, n - 1) \in SUBSET Nat /\ \A i \in OwnedTo(file, h, n - 1) : i < n
    BY OwnedGrows
  <1>3. file[n] \in ToSet(file) /\ n \in Nat /\ {n} \in SUBSET Nat
    BY FilesAreLists
  <1>4. rows = block.rows \o <<file[n]>>
    BY <1>3, AppendIsConcat
  <1>5. Reads(<<file[n]>>, file, {n})
    BY ReadsOne
  <1>6. \A i \in OwnedTo(file, h, n - 1), j \in {n} : i < j
    BY <1>2
  <1>7. Reads(rows, file, OwnedTo(file, h, n))
    BY <1>1, <1>2, <1>3, <1>4, <1>5, <1>6, ReadsOn
  <1>8. place = PlaceTo(file, h, n)
    BY <1>1, PlaceGrows
  <1> HIDE DEF rows, place
  <1>9. BlockOf(file, next, h, n)
    BY <1>1, <1>7, <1>8 DEF BlockOf
  <1> QED
    BY <1>9 DEF rows, place

LEMMA BlockStarts ==
    ASSUME NEW file, IsFile(file), NEW n \in DOMAIN file, file[n].kind = "header"
    PROVE  BlockOf(file, [icao |-> file[n].icao, rows |-> <<file[n]>>, at |-> {}], n, n)
  <1>1. Len(file) \in Nat /\ DOMAIN file = 1..Len(file) /\ file[n].at = {}
    BY FilesAreLists
  <1>2. Owner(file, n) = {n}
    BY Owners
  <1>3. OwnedTo(file, n, n) = {n}
    <2>1. \A i \in DOMAIN file : n \in Owner(file, i) => n <= i
      BY DEF Owner
    <2> QED
      BY <1>1, <1>2, <2>1 DEF OwnedTo
  <1>4. PlaceTo(file, n, n) = {}
    BY <1>1, <1>3 DEF PlaceTo, PlacedTo
  <1>5. Reads(<<file[n]>>, file, {n})
    BY ReadsOne
  <1> QED
    BY <1>3, <1>4, <1>5 DEF BlockOf

BlockType(file) == [icao : {""} \union {file[i].icao : i \in DOMAIN file},
                    rows : Seq(ToSet(file)),
                    at   : {{}} \union {file[i].at : i \in DOMAIN file}]
ScanType(file) == [blocks : Seq(BlockType(file)), active : BOOLEAN, block : BlockType(file)]

\* The blocks of a scan, the one that is open included.
AllBlocks(scan) == Flush(scan).blocks

LEMMA NoBlockIsABlock == ASSUME NEW file PROVE NoBlock \in BlockType(file)
  <1>1. <<>> \in Seq(ToSet(file))
    OBVIOUS
  <1> QED
    BY <1>1 DEF NoBlock, BlockType

LEMMA FlushIs ==
    ASSUME NEW file, NEW scan \in ScanType(file)
    PROVE  /\ AllBlocks(scan) \in Seq(BlockType(file))
           /\ AllBlocks(scan) = IF scan.active THEN Append(scan.blocks, scan.block) ELSE scan.blocks
           /\ Flush(scan) = [blocks |-> AllBlocks(scan), active |-> FALSE, block |-> NoBlock]
           /\ Flush(scan) \in ScanType(file)
  <1>1. scan.blocks \in Seq(BlockType(file)) /\ scan.block \in BlockType(file) /\ scan.active \in BOOLEAN
    BY DEF ScanType
  <1>2. AllBlocks(scan) = IF scan.active THEN Append(scan.blocks, scan.block) ELSE scan.blocks
    BY DEF AllBlocks, Flush
  <1>3. Append(scan.blocks, scan.block) \in Seq(BlockType(file))
    BY <1>1
  <1>4. AllBlocks(scan) \in Seq(BlockType(file))
    BY <1>1, <1>2, <1>3
  <1>5. Flush(scan) = [blocks |-> AllBlocks(scan), active |-> FALSE, block |-> NoBlock]
    BY DEF AllBlocks, Flush
  <1> QED
    BY <1>2, <1>4, <1>5, NoBlockIsABlock DEF ScanType

Opened(scan, block) == [scan EXCEPT !.active = TRUE, !.block = block]
Grown(scan, block)  == [scan EXCEPT !.block = block]

LEMMA OpenedIs ==
    ASSUME NEW file, NEW scan \in ScanType(file), NEW block \in BlockType(file)
    PROVE  /\ Opened(scan, block) \in ScanType(file)
           /\ Opened(scan, block).active = TRUE
           /\ Opened(scan, block).blocks = scan.blocks
           /\ Opened(scan, block).block = block
  BY DEF ScanType, Opened

LEMMA GrownIs ==
    ASSUME NEW file, NEW scan \in ScanType(file), NEW block \in BlockType(file)
    PROVE  /\ Grown(scan, block) \in ScanType(file)
           /\ Grown(scan, block).active = scan.active
           /\ Grown(scan, block).blocks = scan.blocks
           /\ Grown(scan, block).block = block
  BY DEF ScanType, Grown

LEMMA HeaderOpens ==
    ASSUME NEW file, NEW scan \in ScanType(file), NEW n \in DOMAIN file, file[n].kind = "header"
    PROVE  /\ ScanRow(scan, file[n]) \in ScanType(file)
           /\ ScanRow(scan, file[n]).active = TRUE
           /\ AllBlocks(ScanRow(scan, file[n])) =
                Append(AllBlocks(scan), [icao |-> file[n].icao, rows |-> <<file[n]>>, at |-> {}])
  <1> DEFINE block == [icao |-> file[n].icao, rows |-> <<file[n]>>, at |-> {}]
             next == ScanRow(scan, file[n])
             shut == Flush(scan)
             all == AllBlocks(scan)
  <1>1. file[n] \in ToSet(file)
    BY DEF ToSet
  <1>2. <<file[n]>> \in Seq(ToSet(file))
    BY <1>1
  <1>3. block \in BlockType(file)
    BY <1>2 DEF BlockType
  <1>4. shut \in ScanType(file) /\ shut.blocks = all
    BY FlushIs DEF AllBlocks
  <1>5. next = Opened(shut, block)
    BY DEF ScanRow, Opened
  <1> HIDE DEF block, next, all, shut
  <1>6. next \in ScanType(file) /\ next.active = TRUE /\ next.blocks = all /\ next.block = block
    BY <1>3, <1>4, <1>5, OpenedIs
  <1>7. AllBlocks(next) = Append(all, block)
    BY <1>6, FlushIs
  <1> QED
    BY <1>6, <1>7 DEF block, next, all

LEMMA EndCloses ==
    ASSUME NEW file, NEW scan \in ScanType(file), NEW n \in DOMAIN file, file[n].kind = "end"
    PROVE  /\ ScanRow(scan, file[n]) \in ScanType(file)
           /\ ScanRow(scan, file[n]).active = FALSE
           /\ AllBlocks(ScanRow(scan, file[n])) = AllBlocks(scan)
  <1> DEFINE next == ScanRow(scan, file[n])
  <1>1. next = Flush(scan)
    BY DEF ScanRow
  <1>2. /\ next \in ScanType(file)
        /\ next = [blocks |-> AllBlocks(scan), active |-> FALSE, block |-> NoBlock]
    BY <1>1, FlushIs
  <1> HIDE DEF next
  <1>3. next.active = FALSE /\ next.blocks = AllBlocks(scan)
    BY <1>2
  <1>4. AllBlocks(next) = AllBlocks(scan)
    BY <1>2, <1>3, FlushIs
  <1> QED
    BY <1>2, <1>3, <1>4 DEF next

LEMMA RowIsTaken ==
    ASSUME NEW file, NEW scan \in ScanType(file), NEW n \in DOMAIN file, file[n].kind = "row"
    PROVE  /\ ScanRow(scan, file[n]) \in ScanType(file)
           /\ ScanRow(scan, file[n]).active = scan.active
           /\ ~scan.active => AllBlocks(ScanRow(scan, file[n])) = AllBlocks(scan)
           /\ scan.active =>
                /\ scan.blocks \in Seq(BlockType(file)) /\ scan.block \in BlockType(file)
                /\ With(scan.block, file[n]) \in BlockType(file)
                /\ AllBlocks(scan) = Append(scan.blocks, scan.block)
                /\ AllBlocks(ScanRow(scan, file[n])) = Append(scan.blocks, With(scan.block, file[n]))
  <1> DEFINE next  == ScanRow(scan, file[n])
             rows  == Append(scan.block.rows, file[n])
             place == IF scan.block.at = {} THEN file[n].at ELSE scan.block.at
             block == With(scan.block, file[n])
  <1>1. next = IF ~scan.active THEN scan ELSE Grown(scan, block)
    BY DEF ScanRow, Grown
  <1>2. CASE ~scan.active
    BY <1>1, <1>2
  <1>3. CASE scan.active
    <2>1. scan.block \in BlockType(file) /\ scan.blocks \in Seq(BlockType(file)) /\ scan.active \in BOOLEAN
      BY DEF ScanType
    <2>2. /\ scan.block.rows \in Seq(ToSet(file))
          /\ scan.block.icao \in {""} \union {file[i].icao : i \in DOMAIN file}
          /\ scan.block.at \in {{}} \union {file[i].at : i \in DOMAIN file}
      BY <2>1 DEF BlockType
    <2>3. file[n] \in ToSet(file)
      BY DEF ToSet
    <2>4. rows \in Seq(ToSet(file))
      BY <2>2, <2>3, AppendProperties
    <2>5. place \in {{}} \union {file[i].at : i \in DOMAIN file}
      BY <2>2
    <2>6. block = [icao |-> scan.block.icao, rows |-> rows, at |-> place]
      BY DEF With
    <2> HIDE DEF next, rows, place, block
    <2>7. block \in BlockType(file)
      BY <2>2, <2>4, <2>5, <2>6 DEF BlockType
    <2>8. /\ next \in ScanType(file) /\ next.active = scan.active
          /\ next.blocks = scan.blocks /\ next.block = block
      BY <1>1, <1>3, <2>7, GrownIs
    <2>9. AllBlocks(next) = Append(scan.blocks, block) /\ AllBlocks(scan) = Append(scan.blocks, scan.block)
      BY <1>3, <2>8, FlushIs
    <2> QED
      BY <1>3, <2>1, <2>7, <2>8, <2>9 DEF next, block
  <1> QED
    BY <1>2, <1>3

\* The blocks are those of the headers so far, one each and in their order.
Blocked(file, blocks, heads, n) ==
    /\ blocks \in Seq(BlockType(file)) /\ heads \in Seq(Nat) /\ Len(heads) = Len(blocks)
    /\ \A k \in 1..Len(heads) : heads[k] \in HeadersTo(file, n)
    /\ \A h \in HeadersTo(file, n) : \E k \in 1..Len(heads) : heads[k] = h
    /\ \A k, l \in 1..Len(heads) : k < l => heads[k] < heads[l]
    /\ \A k \in 1..Len(heads) : BlockOf(file, blocks[k], heads[k], n)

\* What the scan knows after n rows: also, whose the last row is.
Scanned(file, scan, heads, n) ==
    /\ scan \in ScanType(file)
    /\ Blocked(file, AllBlocks(scan), heads, n)
    /\ ~scan.active => Owner(file, n) = {}
    /\ scan.active => Len(heads) > 0 /\ Owner(file, n) = {heads[Len(heads)]}

LEMMA HeadersGrow ==
    ASSUME NEW file, IsFile(file), NEW n \in DOMAIN file
    PROVE  /\ HeadersTo(file, n) = IF file[n].kind = "header" THEN HeadersTo(file, n - 1) \union {n}
                                   ELSE HeadersTo(file, n - 1)
           /\ \A h \in HeadersTo(file, n - 1) : h < n
  <1>1. Len(file) \in Nat /\ DOMAIN file = 1..Len(file)
    BY FilesAreLists
  <1>2. \A i \in DOMAIN file : (i <= n <=> i <= n - 1 \/ i = n) /\ (i <= n - 1 => i < n)
    BY <1>1
  <1> QED
    BY <1>2 DEF HeadersTo

LEMMA AfterHeader ==
    ASSUME NEW file, IsFile(file), NEW n \in DOMAIN file, NEW scan, NEW heads,
           Scanned(file, scan, heads, n - 1), file[n].kind = "header"
    PROVE  Scanned(file, ScanRow(scan, file[n]), Append(heads, n), n)
  <1> DEFINE next == ScanRow(scan, file[n])
             block == [icao |-> file[n].icao, rows |-> <<file[n]>>, at |-> {}]
             all == AllBlocks(scan)
             more == Append(heads, n)
             N == Len(heads)
  <1>1. /\ scan \in ScanType(file) /\ all \in Seq(BlockType(file)) /\ heads \in Seq(Nat) /\ N = Len(all)
        /\ \A k \in 1..N : heads[k] \in HeadersTo(file, n - 1)
        /\ \A h \in HeadersTo(file, n - 1) : \E k \in 1..N : heads[k] = h
        /\ \A k, l \in 1..N : k < l => heads[k] < heads[l]
        /\ \A k \in 1..N : BlockOf(file, all[k], heads[k], n - 1)
    BY DEF Scanned, Blocked
  <1>2. next \in ScanType(file) /\ next.active = TRUE /\ AllBlocks(next) = Append(all, block)
    BY <1>1, HeaderOpens
  <1>3. AllBlocks(next) \in Seq(BlockType(file))
    BY <1>2, FlushIs
  <1>4. n \in Nat
    BY FilesAreLists
  <1>5. /\ N \in Nat /\ more \in Seq(Nat) /\ Len(more) = N + 1 /\ more[N + 1] = n
        /\ \A k \in 1..N : more[k] = heads[k]
    BY <1>1, <1>4
  <1>6. /\ Len(AllBlocks(next)) = N + 1 /\ AllBlocks(next)[N + 1] = block
        /\ \A k \in 1..N : AllBlocks(next)[k] = all[k]
    BY <1>1, <1>2
  <1>7. Owner(file, n) = {n}
    BY Owners
  <1>8. HeadersTo(file, n) = HeadersTo(file, n - 1) \union {n} /\ \A h \in HeadersTo(file, n - 1) : h < n
    BY HeadersGrow
  <1>9. BlockOf(file, block, n, n)
    BY BlockStarts
  <1> HIDE DEF next, block, all, more, N
  <1>10. \A k \in 1..(N + 1) : k \in 1..N \/ k = N + 1
    BY <1>5
  <1>11. \A k \in 1..(N + 1) : more[k] \in HeadersTo(file, n)
    BY <1>1, <1>5, <1>8, <1>10
  <1>12. ASSUME NEW h \in HeadersTo(file, n) PROVE \E k \in 1..(N + 1) : more[k] = h
    <2>1. CASE h = n
      BY <1>5, <2>1
    <2>2. CASE h # n
      <3>1. PICK k \in 1..N : heads[k] = h
        BY <1>1, <1>8, <2>2
      <3>2. k \in 1..(N + 1)
        BY <1>5
      <3> QED
        BY <1>5, <3>1, <3>2
    <2> QED
      BY <2>1, <2>2
  <1>13. ASSUME NEW k \in 1..(N + 1), NEW l \in 1..(N + 1), k < l PROVE more[k] < more[l]
    <2>1. k \in 1..N
      BY <1>5, <1>13
    <2>2. CASE l \in 1..N
      BY <1>1, <1>5, <1>13, <2>1, <2>2
    <2>3. CASE l = N + 1
      <3>1. heads[k] < n
        BY <1>1, <1>8, <2>1
      <3> QED
        BY <1>5, <2>1, <2>3, <3>1
    <2> QED
      BY <1>10, <2>2, <2>3
  <1>14. ASSUME NEW k \in 1..(N + 1) PROVE BlockOf(file, AllBlocks(next)[k], more[k], n)
    <2>1. CASE k \in 1..N
      <3>1. heads[k] # n
        <4>1. heads[k] < n
          BY <1>1, <1>8, <2>1
        <4> QED
          BY <1>4, <4>1
      <3>2. heads[k] \notin Owner(file, n) /\ BlockOf(file, all[k], heads[k], n - 1)
        BY <1>1, <1>7, <2>1, <3>1
      <3>3. BlockOf(file, all[k], heads[k], n)
        BY <3>2, BlockStays
      <3> QED
        BY <1>5, <1>6, <2>1, <3>3
    <2>2. CASE k = N + 1
      BY <1>5, <1>6, <1>9, <2>2
    <2> QED
      BY <1>10, <2>1, <2>2
  <1>15. Blocked(file, AllBlocks(next), more, n)
    BY <1>3, <1>5, <1>6, <1>11, <1>12, <1>13, <1>14 DEF Blocked
  <1>16. Scanned(file, next, more, n)
    BY <1>2, <1>5, <1>7, <1>15 DEF Scanned
  <1> QED
    BY <1>16 DEF next, more

LEMMA AfterOther ==
    ASSUME NEW file, IsFile(file), NEW n \in DOMAIN file, NEW scan, NEW heads,
           Scanned(file, scan, heads, n - 1),
           file[n].kind = "end" \/ (file[n].kind = "row" /\ ~scan.active)
    PROVE  Scanned(file, ScanRow(scan, file[n]), heads, n)
  <1> DEFINE next == ScanRow(scan, file[n])
             all == AllBlocks(scan)
  <1>1. scan \in ScanType(file) /\ Blocked(file, all, heads, n - 1)
    BY DEF Scanned
  <1>2. next \in ScanType(file) /\ ~next.active /\ AllBlocks(next) = all
    <2>1. CASE file[n].kind = "end"
      BY <1>1, <2>1, EndCloses
    <2>2. CASE file[n].kind = "row" /\ ~scan.active
      BY <1>1, <2>2, RowIsTaken
    <2> QED
      BY <2>1, <2>2
  <1>3. Owner(file, n) = {}
    BY Owners DEF Scanned
  <1>4. HeadersTo(file, n) = HeadersTo(file, n - 1)
    BY HeadersGrow
  <1> HIDE DEF next, all
  <1>5. ASSUME NEW k \in 1..Len(heads) PROVE BlockOf(file, all[k], heads[k], n)
    <2>1. BlockOf(file, all[k], heads[k], n - 1) /\ heads[k] \notin Owner(file, n)
      BY <1>1, <1>3 DEF Blocked
    <2> QED
      BY <2>1, BlockStays
  <1>6. Blocked(file, all, heads, n)
    BY <1>1, <1>4, <1>5 DEF Blocked
  <1>7. Scanned(file, next, heads, n)
    BY <1>2, <1>3, <1>6 DEF Scanned
  <1> QED
    BY <1>7 DEF next

LEMMA AfterRow ==
    ASSUME NEW file, IsFile(file), NEW n \in DOMAIN file, NEW scan, NEW heads,
           Scanned(file, scan, heads, n - 1), file[n].kind = "row", scan.active
    PROVE  Scanned(file, ScanRow(scan, file[n]), heads, n)
  <1> DEFINE next == ScanRow(scan, file[n])
             block == With(scan.block, file[n])
             all == AllBlocks(scan)
             N == Len(heads)
             M == Len(scan.blocks)
  <1>1. /\ scan \in ScanType(file) /\ Blocked(file, all, heads, n - 1)
        /\ N > 0 /\ Owner(file, n - 1) = {heads[N]}
    BY DEF Scanned
  <1>2. /\ next \in ScanType(file) /\ next.active
        /\ scan.blocks \in Seq(BlockType(file)) /\ scan.block \in BlockType(file) /\ block \in BlockType(file)
        /\ all = Append(scan.blocks, scan.block) /\ AllBlocks(next) = Append(scan.blocks, block)
    BY <1>1, RowIsTaken
  <1>3. /\ heads \in Seq(Nat) /\ N = Len(all)
        /\ \A k, l \in 1..N : k < l => heads[k] < heads[l]
        /\ \A k \in 1..N : BlockOf(file, all[k], heads[k], n - 1)
    BY <1>1 DEF Blocked
  <1>4. /\ N = M + 1 /\ M \in Nat /\ all[N] = scan.block /\ AllBlocks(next)[N] = block
        /\ AllBlocks(next) \in Seq(BlockType(file)) /\ Len(AllBlocks(next)) = N
        /\ \A k \in 1..M : AllBlocks(next)[k] = all[k]
    BY <1>2, <1>3
  <1>5. Owner(file, n) = {heads[N]}
    BY <1>1, Owners
  <1>6. HeadersTo(file, n) = HeadersTo(file, n - 1)
    BY HeadersGrow
  <1>7. scan.block.rows \in Seq(ToSet(file))
    BY <1>2 DEF BlockType
  <1> HIDE DEF next, all, N, M
  <1>8. \A k \in 1..N : k \in 1..M \/ k = N
    BY <1>4
  <1>9. \A k \in 1..N : heads[k] \in Nat
    BY <1>3 DEF N
  <1>10. ASSUME NEW k \in 1..N PROVE BlockOf(file, AllBlocks(next)[k], heads[k], n)
    <2>1. CASE k \in 1..M
      <3>1. k < N /\ N \in 1..N
        BY <1>4, <2>1
      <3>2. heads[k] < heads[N]
        BY <1>3, <3>1
      <3>3. heads[k] \notin Owner(file, n)
        BY <1>5, <1>9, <3>1, <3>2
      <3>4. BlockOf(file, all[k], heads[k], n)
        BY <1>3, <3>3, BlockStays
      <3> QED
        BY <1>4, <2>1, <3>4
    <2>2. CASE k = N
      <3>1. BlockOf(file, scan.block, heads[N], n - 1) /\ heads[N] \in Owner(file, n)
        BY <1>3, <1>4, <1>5, <2>2
      <3>2. BlockOf(file, block, heads[N], n)
        BY <1>7, <3>1, BlockGrows DEF With
      <3> QED
        BY <1>4, <2>2, <3>2
    <2> QED
      BY <1>8, <2>1, <2>2
  <1>11. Blocked(file, AllBlocks(next), heads, n)
    BY <1>1, <1>3, <1>4, <1>6, <1>10 DEF Blocked, N
  <1>12. Scanned(file, next, heads, n)
    BY <1>1, <1>2, <1>5, <1>11 DEF Scanned, N
  <1> QED
    BY <1>12 DEF next
-----------------------------------------------------------------------------
(* The scan, as a function of how many rows it has read. *)
BeforeAll == [blocks |-> <<>>, active |-> FALSE, block |-> NoBlock]

IsScan(scan, file, m) ==
    scan = [n \in 0..m |-> IF n = 0 THEN BeforeAll ELSE ScanRow(scan[n - 1], file[n])]

LEMMA ScanGoesOn ==
    ASSUME NEW file, NEW m \in Nat, m > 0, NEW scan, IsScan(scan, file, m - 1)
    PROVE  \E longer : IsScan(longer, file, m)
  <1> DEFINE longer == [n \in 0..m |-> IF n = m THEN ScanRow(scan[m - 1], file[m]) ELSE scan[n]]
  <1>1. ASSUME NEW n \in 0..m
        PROVE  longer[n] = IF n = 0 THEN BeforeAll ELSE ScanRow(longer[n - 1], file[n])
    <2>1. CASE n = m
      BY <2>1
    <2>2. CASE n # m
      <3>1. n \in 0..(m - 1) /\ (n # 0 => n - 1 \in 0..m /\ n - 1 # m)
        BY <2>2
      <3>2. scan[n] = IF n = 0 THEN BeforeAll ELSE ScanRow(scan[n - 1], file[n])
        BY <3>1 DEF IsScan
      <3> QED
        BY <2>2, <3>1, <3>2
    <2> QED
      BY <2>1, <2>2
  <1>2. longer = [n \in 0..m |-> IF n = 0 THEN BeforeAll ELSE ScanRow(longer[n - 1], file[n])]
    BY <1>1
  <1> HIDE DEF longer
  <1>3. IsScan(longer, file, m)
    BY <1>2 DEF IsScan
  <1> QED
    BY <1>3

LEMMA ScanExists ==
    ASSUME NEW file, NEW m \in Nat
    PROVE  \E scan : IsScan(scan, file, m)
  <1> DEFINE missing == {n \in Nat : ~\E scan : IsScan(scan, file, n)}
  <1> SUFFICES ASSUME missing # {} PROVE FALSE
    OBVIOUS
  <1>1. \E n \in missing : \A k \in missing : n <= k
    BY LeastOne
  <1>2. PICK n \in Nat : /\ ~\E scan : IsScan(scan, file, n)
                         /\ \A k \in Nat : (~\E scan : IsScan(scan, file, k)) => n <= k
    BY <1>1
  <1>3. CASE n = 0
    <2> DEFINE scan == [k \in 0..0 |-> BeforeAll]
    <2>1. scan = [k \in 0..0 |-> IF k = 0 THEN BeforeAll ELSE ScanRow(scan[k - 1], file[k])]
      OBVIOUS
    <2> HIDE DEF scan
    <2>2. IsScan(scan, file, 0)
      BY <2>1 DEF IsScan
    <2> QED
      BY <1>2, <1>3, <2>2
  <1>4. CASE n > 0
    <2>1. n - 1 \in Nat /\ ~(n <= n - 1)
      BY <1>4
    <2>2. PICK scan : IsScan(scan, file, n - 1)
      BY <1>2, <2>1
    <2> QED
      BY <1>2, <1>4, <2>2, ScanGoesOn
  <1> QED
    BY <1>2, <1>3, <1>4

ScanOf(file) == CHOOSE scan : IsScan(scan, file, Len(file))

LEMMA FileIsScanned ==
    ASSUME NEW file, Len(file) \in Nat
    PROVE  /\ Blocks(file) = AllBlocks(ScanOf(file)[Len(file)])
           /\ ScanOf(file)[0] = BeforeAll
           /\ \A n \in 1..Len(file) : ScanOf(file)[n] = ScanRow(ScanOf(file)[n - 1], file[n])
  <1>1. IsScan(ScanOf(file), file, Len(file))
    BY ScanExists DEF ScanOf
  <1>2. Blocks(file) = AllBlocks(ScanOf(file)[Len(file)])
    BY DEF Blocks, AllBlocks, IsScan, ScanOf, BeforeAll
  <1>3. \A n \in 1..Len(file) : n \in 0..Len(file) /\ n # 0
    OBVIOUS
  <1> QED
    BY <1>1, <1>2, <1>3 DEF IsScan

LEMMA NothingIsScanned ==
    ASSUME NEW file, IsFile(file)
    PROVE  Scanned(file, BeforeAll, <<>>, 0)
  <1>1. DOMAIN file = 1..Len(file) /\ Len(file) \in Nat
    BY FilesAreLists
  <1>2. NoBlock \in BlockType(file)
    BY NoBlockIsABlock
  <1>3. BeforeAll \in ScanType(file) /\ BeforeAll.active = FALSE /\ BeforeAll.blocks = <<>>
    BY <1>2 DEF BeforeAll, ScanType
  <1>4. AllBlocks(BeforeAll) = <<>>
    BY <1>3, FlushIs
  <1>5. Owner(file, 0) = {} /\ HeadersTo(file, 0) = {}
    BY <1>1 DEF Owner, HeadersTo
  <1>6. <<>> \in Seq(Nat) /\ <<>> \in Seq(BlockType(file)) /\ Len(<<>>) = 0 /\ 1..0 = {}
    OBVIOUS
  <1>7. Blocked(file, <<>>, <<>>, 0)
    BY <1>5, <1>6 DEF Blocked
  <1> QED
    BY <1>3, <1>4, <1>5, <1>7 DEF Scanned

\* scan_airport_blocks, from the first row of a file to the last.
LEMMA BlocksAreBlocked ==
    ASSUME NEW file, IsFile(file)
    PROVE  \E heads : Blocked(file, Blocks(file), heads, Len(file))
  <1> DEFINE N == Len(file)
             scan == ScanOf(file)
             lost == {n \in 0..N : ~\E heads : Scanned(file, scan[n], heads, n)}
  <1>1. N \in Nat /\ DOMAIN file = 1..N /\ \A n \in 1..N : file[n].kind \in {"header", "end", "row"}
    BY FilesAreLists
  <1>2. /\ Blocks(file) = AllBlocks(scan[N]) /\ scan[0] = BeforeAll
        /\ \A n \in 1..N : scan[n] = ScanRow(scan[n - 1], file[n])
    BY <1>1, FileIsScanned
  <1> HIDE DEF N, scan
  <1>3. lost = {}
    <2> SUFFICES ASSUME lost # {} PROVE FALSE
      OBVIOUS
    <2>1. lost \in SUBSET Nat
      BY <1>1
    <2>2. \E n \in lost : \A m \in lost : n <= m
      BY <2>1, LeastOne
    <2>3. PICK n \in 0..N : /\ ~\E heads : Scanned(file, scan[n], heads, n)
                            /\ \A m \in 0..N : (~\E heads : Scanned(file, scan[m], heads, m)) => n <= m
      BY <2>2
    <2> HIDE DEF lost
    <2>4. n # 0
      BY <1>2, <2>3, NothingIsScanned
    <2>5. n \in 1..N /\ n - 1 \in 0..N /\ ~(n <= n - 1)
      BY <1>1, <2>4
    <2>6. PICK heads : Scanned(file, scan[n - 1], heads, n - 1)
      BY <2>3, <2>5
    <2>7. n \in DOMAIN file /\ file[n].kind \in {"header", "end", "row"}
      BY <1>1, <2>5
    <2>8. \E more : Scanned(file, ScanRow(scan[n - 1], file[n]), more, n)
      BY <2>6, <2>7, AfterHeader, AfterOther, AfterRow
    <2> QED
      BY <1>2, <2>3, <2>5, <2>8
  <1>4. N \in 0..N
    BY <1>1
  <1>5. PICK heads : Scanned(file, scan[N], heads, N)
    BY <1>3, <1>4
  <1> QED
    BY <1>2, <1>5 DEF Scanned, N
-----------------------------------------------------------------------------
(* The text, as a function of how many blocks it is made of. *)
IsText(text, blocks, chosen, m) ==
    text = [n \in 0..m |-> IF n = 0 THEN <<>>
                           ELSE IF n \in chosen THEN text[n - 1] \o blocks[n].rows ELSE text[n - 1]]

LEMMA TextGoesOn ==
    ASSUME NEW blocks, NEW chosen, NEW m \in Nat, m > 0, NEW text, IsText(text, blocks, chosen, m - 1)
    PROVE  \E longer : IsText(longer, blocks, chosen, m)
  <1> DEFINE last == IF m \in chosen THEN text[m - 1] \o blocks[m].rows ELSE text[m - 1]
             longer == [n \in 0..m |-> IF n = m THEN last ELSE text[n]]
  <1>1. ASSUME NEW n \in 0..m
        PROVE  longer[n] = IF n = 0 THEN <<>>
                           ELSE IF n \in chosen THEN longer[n - 1] \o blocks[n].rows ELSE longer[n - 1]
    <2>1. CASE n = m
      <3>1. n # 0 /\ n - 1 \in 0..m /\ n - 1 # m
        BY <2>1
      <3>2. longer[n - 1] = text[n - 1] /\ longer[n] = last
        BY <2>1, <3>1
      <3> HIDE DEF longer
      <3> QED
        BY <2>1, <3>1, <3>2
    <2>2. CASE n # m
      <3>1. n \in 0..(m - 1) /\ (n # 0 => n - 1 \in 0..m /\ n - 1 # m)
        BY <2>2
      <3>2. text[n] = IF n = 0 THEN <<>>
                      ELSE IF n \in chosen THEN text[n - 1] \o blocks[n].rows ELSE text[n - 1]
        BY <3>1 DEF IsText
      <3>3. longer[n] = text[n] /\ (n # 0 => longer[n - 1] = text[n - 1])
        BY <2>2, <3>1
      <3> HIDE DEF longer
      <3> QED
        BY <3>2, <3>3
    <2> QED
      BY <2>1, <2>2
  <1>2. longer = [n \in 0..m |-> IF n = 0 THEN <<>>
                    ELSE IF n \in chosen THEN longer[n - 1] \o blocks[n].rows ELSE longer[n - 1]]
    BY <1>1
  <1> HIDE DEF longer
  <1>3. IsText(longer, blocks, chosen, m)
    BY <1>2 DEF IsText
  <1> QED
    BY <1>3

LEMMA TextExists ==
    ASSUME NEW blocks, NEW chosen, NEW m \in Nat
    PROVE  \E text : IsText(text, blocks, chosen, m)
  <1> DEFINE missing == {n \in Nat : ~\E text : IsText(text, blocks, chosen, n)}
  <1> SUFFICES ASSUME missing # {} PROVE FALSE
    OBVIOUS
  <1>1. \E n \in missing : \A k \in missing : n <= k
    BY LeastOne
  <1>2. PICK n \in Nat : /\ ~\E text : IsText(text, blocks, chosen, n)
                         /\ \A k \in Nat : (~\E text : IsText(text, blocks, chosen, k)) => n <= k
    BY <1>1
  <1>3. CASE n = 0
    <2> DEFINE text == [k \in 0..0 |-> <<>>]
    <2>1. \A k \in 0..0 : k = 0 /\ text[k] = <<>>
      OBVIOUS
    <2>2. text = [k \in 0..0 |-> IF k = 0 THEN <<>>
                    ELSE IF k \in chosen THEN text[k - 1] \o blocks[k].rows ELSE text[k - 1]]
      BY <2>1
    <2> HIDE DEF text
    <2>3. IsText(text, blocks, chosen, 0)
      BY <2>2 DEF IsText
    <2> QED
      BY <1>2, <1>3, <2>3
  <1>4. CASE n > 0
    <2>1. n - 1 \in Nat /\ ~(n <= n - 1)
      BY <1>4
    <2>2. PICK text : IsText(text, blocks, chosen, n - 1)
      BY <1>2, <2>1
    <2> QED
      BY <1>2, <1>4, <2>2, TextGoesOn
  <1> QED
    BY <1>2, <1>3, <1>4

TextsOf(blocks, chosen) == CHOOSE text : IsText(text, blocks, chosen, Len(blocks))

LEMMA TextIsMade ==
    ASSUME NEW blocks, NEW chosen, Len(blocks) \in Nat
    PROVE  /\ TextOf(blocks, chosen) = TextsOf(blocks, chosen)[Len(blocks)]
           /\ TextsOf(blocks, chosen)[0] = <<>>
           /\ \A n \in 1..Len(blocks) :
                TextsOf(blocks, chosen)[n] =
                  IF n \in chosen THEN TextsOf(blocks, chosen)[n - 1] \o blocks[n].rows
                  ELSE TextsOf(blocks, chosen)[n - 1]
  <1>1. IsText(TextsOf(blocks, chosen), blocks, chosen, Len(blocks))
    BY TextExists DEF TextsOf
  <1>2. TextOf(blocks, chosen) = TextsOf(blocks, chosen)[Len(blocks)]
    BY DEF TextOf, IsText, TextsOf
  <1>3. \A n \in 1..Len(blocks) : n \in 0..Len(blocks) /\ n # 0
    OBVIOUS
  <1>4. 0 \in 0..Len(blocks)
    OBVIOUS
  <1> QED
    BY <1>1, <1>2, <1>3, <1>4 DEF IsText
-----------------------------------------------------------------------------
\* The rows of an airport come before those of a later one.
LEMMA AirportsAreApart ==
    ASSUME NEW file, IsFile(file), NEW i \in DOMAIN file, NEW j \in DOMAIN file,
           NEW h \in Owner(file, i), NEW g \in Owner(file, j), h < g
    PROVE  i < j
  <1>1. DOMAIN file = 1..Len(file) /\ Len(file) \in Nat
    BY FilesAreLists
  <1>2. h \in DOMAIN file /\ g \in DOMAIN file /\ g <= j /\ file[g].kind = "header"
        /\ \A k \in (h + 1)..i : file[k].kind = "row"
    BY DEF Owner
  <1>3. ~(g <= i)
    <2>1. g \in (h + 1)..i => file[g].kind = "row"
      BY <1>2
    <2>2. g <= i => g \in (h + 1)..i
      BY <1>1, <1>2
    <2> QED
      BY <1>2, <2>1, <2>2
  <1> QED
    BY <1>1, <1>2, <1>3

\* A text takes the rows of the airports whose blocks are chosen.
LEMMA TextTakesBlocks ==
    ASSUME NEW file, IsFile(file), NEW blocks, NEW heads, Blocked(file, blocks, heads, Len(file)),
           NEW chosen \in SUBSET DOMAIN blocks
    PROVE  Reads(TextOf(blocks, chosen), file,
                 {i \in DOMAIN file : \E k \in chosen : heads[k] \in Owner(file, i)})
  <1> DEFINE L == Len(file)
             K == Len(blocks)
             text == TextsOf(blocks, chosen)
             Taken(n) == {i \in DOMAIN file : \E k \in chosen : k <= n /\ heads[k] \in Owner(file, i)}
             wrong == {n \in 0..K : ~Reads(text[n], file, Taken(n))}
  <1>1. DOMAIN file = 1..L /\ L \in Nat
    BY FilesAreLists
  <1>2. blocks \in Seq(BlockType(file)) /\ Len(heads) = Len(blocks)
        /\ (\A k \in 1..Len(heads) : heads[k] \in HeadersTo(file, L))
        /\ (\A k, l \in 1..Len(heads) : k < l => heads[k] < heads[l])
        /\ \A k \in 1..Len(heads) : BlockOf(file, blocks[k], heads[k], L)
    BY DEF Blocked
  <1>3. K \in Nat /\ DOMAIN blocks = 1..K /\ Len(heads) = K
    BY <1>2
  <1>4. /\ TextOf(blocks, chosen) = text[K]
        /\ text[0] = <<>>
        /\ \A n \in 1..K : text[n] = IF n \in chosen THEN text[n - 1] \o blocks[n].rows
                                     ELSE text[n - 1]
    BY <1>3, TextIsMade
  <1> HIDE DEF K, L, text
  <1>5. \A n \in 0..K : Taken(n) \in SUBSET Nat
    BY <1>1
  <1>6. wrong = {}
    <2> SUFFICES ASSUME wrong # {} PROVE FALSE
      OBVIOUS
    <2>1. wrong \in SUBSET Nat
      BY <1>3
    <2>2. \E n \in wrong : \A m \in wrong : n <= m
      BY <2>1, LeastOne
    <2>3. PICK n \in 0..K : /\ ~Reads(text[n], file, Taken(n))
                            /\ \A m \in 0..K : ~Reads(text[m], file, Taken(m)) => n <= m
      BY <2>2
    <2>4. CASE n = 0
      <3>1. Taken(0) = {}
        BY <1>3
      <3> QED
        BY <1>4, <2>3, <2>4, <3>1, ReadsNothing
    <2>5. CASE n # 0
      <3>1. n - 1 \in 0..K /\ ~(n <= n - 1) /\ n \in 1..K
        BY <1>3, <2>5
      <3>2. Reads(text[n - 1], file, Taken(n - 1))
        BY <2>3, <3>1
      <3>3. \A k \in chosen : k \in 1..K /\ (k <= n <=> k <= n - 1 \/ k = n)
        BY <1>3, <3>1
      <3>4. CASE n \in chosen
        <4> DEFINE own == OwnedTo(file, heads[n], L)
        <4>1. Reads(blocks[n].rows, file, own)
          BY <1>2, <1>3, <3>1 DEF BlockOf
        <4>2. own = {i \in DOMAIN file : heads[n] \in Owner(file, i)}
          BY <1>1 DEF OwnedTo
        <4>3. Taken(n) = Taken(n - 1) \union own
          <5>1. \A i \in DOMAIN file : (\E k \in chosen : k <= n /\ heads[k] \in Owner(file, i))
                  <=> \/ \E k \in chosen : k <= n - 1 /\ heads[k] \in Owner(file, i)
                      \/ heads[n] \in Owner(file, i)
            BY <3>3, <3>4
          <5> QED
            BY <4>2, <5>1
        <4>4. own \in SUBSET Nat
          BY <1>1, <4>2
        <4>5. ASSUME NEW i \in Taken(n - 1), NEW j \in own PROVE i < j
          <5>1. PICK k \in chosen : k <= n - 1 /\ heads[k] \in Owner(file, i)
            OBVIOUS
          <5>2. heads[n] \in Owner(file, j) /\ i \in DOMAIN file /\ j \in DOMAIN file
            BY <4>2
          <5>3. k \in 1..K /\ k < n
            BY <1>3, <3>1, <3>3, <5>1
          <5>4. heads[k] < heads[n]
            BY <1>2, <1>3, <3>1, <5>3
          <5> QED
            BY <5>1, <5>2, <5>4, AirportsAreApart
        <4>6. text[n] = text[n - 1] \o blocks[n].rows
          BY <1>4, <3>1, <3>4
        <4>7. Taken(n - 1) \in SUBSET Nat
          BY <1>5, <3>1
        <4> HIDE DEF Taken, own
        <4>8. Reads(text[n - 1] \o blocks[n].rows, file, Taken(n - 1) \union own)
          BY <3>2, <4>1, <4>4, <4>5, <4>7, ReadsOn
        <4> QED
          BY <2>3, <4>3, <4>6, <4>8
      <3>5. CASE n \notin chosen
        <4>1. \A k \in chosen : k <= n <=> k <= n - 1
          BY <3>3, <3>5
        <4>2. Taken(n) = Taken(n - 1)
          BY <4>1
        <4>3. text[n] = text[n - 1]
          BY <1>4, <3>1, <3>5
        <4> QED
          BY <2>3, <3>2, <4>2, <4>3
      <3> QED
        BY <3>4, <3>5
    <2> QED
      BY <2>4, <2>5
  <1>7. K \in 0..K /\ \A k \in chosen : k <= K
    BY <1>3
  <1>8. Taken(K) = {i \in DOMAIN file : \E k \in chosen : heads[k] \in Owner(file, i)}
    BY <1>7
  <1>9. Reads(text[K], file, Taken(K))
    BY <1>6, <1>7
  <1> QED
    BY <1>4, <1>8, <1>9

LEMMA PlaceIsWhole ==
    ASSUME NEW file, IsFile(file), NEW h
    PROVE  PlaceOfAirport(file, h) = PlaceTo(file, h, Len(file))
  <1>1. \A i \in DOMAIN file : i <= Len(file)
    BY FilesAreLists
  <1>2. PlacedTo(file, h, Len(file)) = {i \in DOMAIN file : h \in Owner(file, i) /\ file[i].at # {}}
    BY <1>1 DEF PlacedTo, OwnedTo
  <1> QED
    BY <1>2 DEF PlaceTo, PlaceOfAirport

\* The blocks of a file, by their headers.
LEMMA BlocksOfHeaders ==
    ASSUME NEW file, IsFile(file)
    PROVE  \E heads :
             /\ Blocked(file, Blocks(file), heads, Len(file))
             /\ DOMAIN Blocks(file) = 1..Len(heads) /\ Len(heads) \in Nat
             /\ \A k \in 1..Len(heads) :
                  /\ heads[k] \in DOMAIN file /\ file[heads[k]].kind = "header"
                  /\ Blocks(file)[k].icao = file[heads[k]].icao
                  /\ Blocks(file)[k].at = PlaceOfAirport(file, heads[k])
             /\ \A h \in DOMAIN file : file[h].kind = "header" => \E k \in 1..Len(heads) : heads[k] = h
             /\ \A k, l \in 1..Len(heads) : k < l => heads[k] < heads[l]
  <1> DEFINE L == Len(file)
             blocks == Blocks(file)
  <1>1. PICK heads : Blocked(file, blocks, heads, L)
    BY BlocksAreBlocked
  <1> HIDE DEF blocks
  <1>2. blocks \in Seq(BlockType(file)) /\ heads \in Seq(Nat) /\ Len(heads) = Len(blocks)
        /\ (\A k \in 1..Len(heads) : heads[k] \in HeadersTo(file, L))
        /\ (\A h \in HeadersTo(file, L) : \E k \in 1..Len(heads) : heads[k] = h)
        /\ (\A k, l \in 1..Len(heads) : k < l => heads[k] < heads[l])
        /\ \A k \in 1..Len(heads) : BlockOf(file, blocks[k], heads[k], L)
    BY <1>1 DEF Blocked
  <1>3. DOMAIN blocks = 1..Len(heads) /\ Len(heads) \in Nat
    BY <1>2
  <1>4. HeadersTo(file, L) = {h \in DOMAIN file : file[h].kind = "header"}
    BY FilesAreLists DEF HeadersTo
  <1>5. \A k \in 1..Len(heads) : blocks[k].icao = file[heads[k]].icao
                                 /\ blocks[k].at = PlaceOfAirport(file, heads[k])
    BY <1>2, PlaceIsWhole DEF BlockOf
  <1> QED
    BY <1>1, <1>2, <1>3, <1>4, <1>5 DEF blocks

LEMMA RegionIsRead ==
    ASSUME NEW file, IsFile(file), NEW icao
    PROVE  Reads(Regional(file, icao), file, RowsOfRegion(file, icao))
  <1> DEFINE blocks == Blocks(file)
             chosen == InRegion(blocks, icao)
             radius == kRegionalAptRadiusNm
  <1>1. PICK heads :
             /\ Blocked(file, blocks, heads, Len(file))
             /\ DOMAIN blocks = 1..Len(heads) /\ Len(heads) \in Nat
             /\ \A k \in 1..Len(heads) :
                  /\ heads[k] \in DOMAIN file /\ file[heads[k]].kind = "header"
                  /\ blocks[k].icao = file[heads[k]].icao
                  /\ blocks[k].at = PlaceOfAirport(file, heads[k])
             /\ \A h \in DOMAIN file : file[h].kind = "header" => \E k \in 1..Len(heads) : heads[k] = h
             /\ \A k, l \in 1..Len(heads) : k < l => heads[k] < heads[l]
    BY BlocksOfHeaders
  <1> HIDE DEF blocks
  <1>2. chosen \in SUBSET DOMAIN blocks
    BY DEF InRegion
  <1> DEFINE Near(h) == \/ file[h].icao = icao
                        \/ \E ref \in Headers(file, icao) :
                             Within(PlaceOfAirport(file, ref), PlaceOfAirport(file, h), radius)
  <1>3. ASSUME NEW k \in 1..Len(heads)
        PROVE  k \in chosen <=> Near(heads[k])
    <2>1. k \in chosen <=> \/ blocks[k].icao = icao
                           \/ \E ref \in 1..Len(heads) :
                                blocks[ref].icao = icao /\ Within(blocks[ref].at, blocks[k].at, radius)
      BY <1>1 DEF InRegion
    <2> HIDE DEF chosen, radius
    <2>2. ASSUME NEW ref \in 1..Len(heads), blocks[ref].icao = icao, Within(blocks[ref].at, blocks[k].at, radius)
          PROVE  Near(heads[k])
      <3>1. heads[ref] \in Headers(file, icao)
        BY <1>1, <2>2 DEF Headers
      <3>2. Within(PlaceOfAirport(file, heads[ref]), PlaceOfAirport(file, heads[k]), radius)
        BY <1>1, <2>2
      <3> QED
        BY <3>1, <3>2
    <2>3. ASSUME NEW h \in Headers(file, icao),
                 Within(PlaceOfAirport(file, h), PlaceOfAirport(file, heads[k]), radius)
          PROVE  \E ref \in 1..Len(heads) :
                   blocks[ref].icao = icao /\ Within(blocks[ref].at, blocks[k].at, radius)
      <3>1. h \in DOMAIN file /\ file[h].kind = "header" /\ file[h].icao = icao
        BY DEF Headers
      <3>2. PICK ref \in 1..Len(heads) : heads[ref] = h
        BY <1>1, <3>1
      <3>3. blocks[ref].icao = icao /\ blocks[ref].at = PlaceOfAirport(file, h)
            /\ blocks[k].at = PlaceOfAirport(file, heads[k])
        BY <1>1, <3>1, <3>2
      <3> QED
        BY <2>3, <3>3
    <2>4. blocks[k].icao = file[heads[k]].icao
      BY <1>1
    <2> QED
      BY <2>1, <2>2, <2>3, <2>4
  <1> HIDE DEF chosen, radius
  <1>4. \A i \in DOMAIN file : (\E k \in chosen : heads[k] \in Owner(file, i))
                                 <=> \E h \in Owner(file, i) : Near(h)
    <2> TAKE i \in DOMAIN file
    <2>1. ASSUME NEW h \in Owner(file, i), Near(h)
          PROVE  \E k \in chosen : heads[k] \in Owner(file, i)
      <3>1. h \in DOMAIN file /\ file[h].kind = "header"
        BY DEF Owner
      <3>2. PICK k \in 1..Len(heads) : heads[k] = h
        BY <1>1, <3>1
      <3>3. k \in chosen
        BY <1>3, <2>1, <3>2
      <3> QED
        BY <3>2, <3>3
    <2>2. ASSUME NEW k \in chosen, heads[k] \in Owner(file, i)
          PROVE  Near(heads[k])
      BY <1>1, <1>2, <1>3
    <2> HIDE DEF Near
    <2> QED
      BY <2>1, <2>2
  <1>5. RowsOfRegion(file, icao) = {i \in DOMAIN file : \E h \in Owner(file, i) : Near(h)}
    BY DEF RowsOfRegion, radius
  <1> HIDE DEF Near
  <1>6. RowsOfRegion(file, icao) = {i \in DOMAIN file : \E k \in chosen : heads[k] \in Owner(file, i)}
    BY <1>4, <1>5
  <1>7. Regional(file, icao) = TextOf(blocks, chosen)
    BY DEF Regional, blocks, chosen
  <1> QED
    BY <1>1, <1>2, <1>6, <1>7, TextTakesBlocks

LEMMA RegionIsTaken ==
    ASSUME NEW install, IsInstallation(install), NEW icao
    PROVE  RegionIsWhole(install, icao)
  <1> SUFFICES ASSUME NEW a \in DOMAIN install.apt
               PROVE  Regional(install.apt[a].rows, icao)
                        = InOrder(install.apt[a].rows, RowsOfRegion(install.apt[a].rows, icao))
    BY DEF RegionIsWhole
  <1> DEFINE file == install.apt[a].rows
  <1>1. IsFile(file)
    BY DEF IsInstallation
  <1> HIDE DEF file
  <1>2. RowsOfRegion(file, icao) \in SUBSET Nat
    BY <1>1, FilesAreLists DEF RowsOfRegion
  <1> QED
    BY <1>1, <1>2, RegionIsRead, ReadsInOrder DEF file
-----------------------------------------------------------------------------
\* What is known of a text that reads a list.
Places(text, list, S, f) ==
    /\ Len(text) \in Nat /\ DOMAIN text = 1..Len(text) /\ IsList(text)
    /\ \A n \in 1..Len(text) : f[n] \in S /\ f[n] \in Nat /\ text[n] = list[f[n]]
    /\ \A m, n \in 1..Len(text) : (f[m] < f[n] <=> m < n) /\ (f[m] <= f[n] <=> m <= n)
    /\ \A i \in S : \E n \in 1..Len(text) : f[n] = i

\* U is where T is read from.
Image(U, T, f) == \A i : i \in U <=> \E n \in T : f[n] = i

LEMMA Followed ==
    ASSUME NEW text, NEW list, NEW S \in SUBSET Nat, NEW f, Follows(text, list, S, f)
    PROVE  Places(text, list, S, f)
  <1> DEFINE N == Len(text)
  <1>1. /\ text \in Seq(ToSet(list)) /\ f \in [1..N -> S]
        /\ \A m, n \in 1..N : m < n => f[m] < f[n]
        /\ \A i \in S : \E n \in 1..N : f[n] = i
        /\ \A n \in 1..N : text[n] = list[f[n]]
    BY DEF Follows
  <1>2. N \in Nat /\ DOMAIN text = 1..N /\ text = [n \in 1..N |-> text[n]]
    BY <1>1
  <1>3. \A n \in 1..N : text[n] \in ToSet(text)
    BY <1>2 DEF ToSet
  <1>4. text \in Seq(ToSet(text))
    <2>1. text \in [1..N -> ToSet(text)]
      BY <1>2, <1>3
    <2> QED
      BY <1>2, <2>1, SeqDef
  <1> HIDE DEF N
  <1>5. \A n \in 1..N : f[n] \in S /\ f[n] \in Nat
    BY <1>1
  <1>6. \A m, n \in 1..N : (f[m] < f[n] <=> m < n) /\ (f[m] <= f[n] <=> m <= n)
    BY <1>1, <1>2, <1>5
  <1> QED
    BY <1>1, <1>2, <1>4, <1>5, <1>6 DEF IsList, N, Places

LEMMA MinIsKept ==
    ASSUME NEW text, NEW list, NEW S \in SUBSET Nat, NEW f, Follows(text, list, S, f),
           NEW T \in SUBSET (1..Len(text)), T # {}, NEW U,
           Image(U, T, f)
    PROVE  /\ Min(T) \in T /\ Min(U) = f[Min(T)] /\ U # {}
  <1>1. T \in SUBSET Nat
    OBVIOUS
  <1>2. Min(T) \in T /\ \A m \in T : Min(T) <= m
    BY <1>1, MinIsLeast
  <1>p. Places(text, list, S, f)
    BY Followed
  <1>i. \A i : i \in U <=> \E n \in T : f[n] = i
    BY DEF Image
  <1>3. f[Min(T)] \in U
    BY <1>2, <1>i
  <1>4. U \in SUBSET Nat
    BY <1>i, <1>p DEF Places
  <1>5. ASSUME NEW i \in U PROVE f[Min(T)] <= i
    <2>1. PICK n \in T : f[n] = i
      BY <1>i
    <2>2. Min(T) <= n /\ n \in 1..Len(text) /\ Min(T) \in 1..Len(text)
      BY <1>2
    <2> HIDE DEF Min
    <2>3. f[Min(T)] <= f[n]
      BY <1>p, <2>2 DEF Places
    <2> QED
      BY <2>1, <2>3
  <1>6. Min(U) = f[Min(T)]
    BY <1>3, <1>4, <1>5, MinIsTheOne
  <1> QED
    BY <1>2, <1>3, <1>6
-----------------------------------------------------------------------------
LEMMA OneOwner ==
    ASSUME NEW file, IsFile(file), NEW i \in DOMAIN file, NEW h \in Owner(file, i), NEW g \in Owner(file, i)
    PROVE  h = g
  <1>1. DOMAIN file = 1..Len(file) /\ Len(file) \in Nat
    BY FilesAreLists
  <1>2. h \in 1..Len(file) /\ g \in 1..Len(file)
    BY <1>1 DEF Owner
  <1>3. ~(h < g) /\ ~(g < h)
    BY <1>1, AirportsAreApart
  <1> QED
    BY <1>2, <1>3

LEMMA HeadersOwnThemselves ==
    ASSUME NEW file, IsFile(file), NEW h \in DOMAIN file, file[h].kind = "header"
    PROVE  h \in Owner(file, h)
  BY Owners

\* Places of a file that hold an airport whole or not at all.
Whole(file, S) ==
    /\ S \in SUBSET DOMAIN file
    /\ \A i \in S : \E h \in Owner(file, i) : h \in S
    /\ \A i \in DOMAIN file : \A h \in Owner(file, i) : h \in S => i \in S

LEMMA RegionsAreWhole ==
    ASSUME NEW file, IsFile(file), NEW icao
    PROVE  Whole(file, RowsOfRegion(file, icao))
           /\ Headers(file, icao) \subseteq RowsOfRegion(file, icao)
  <1> DEFINE S == RowsOfRegion(file, icao)
             Near(h) == \/ file[h].icao = icao
                        \/ \E ref \in Headers(file, icao) :
                             Within(PlaceOfAirport(file, ref), PlaceOfAirport(file, h), kRegionalAptRadiusNm)
  <1>1. \A i \in DOMAIN file : i \in S <=> \E h \in Owner(file, i) : Near(h)
    BY DEF RowsOfRegion
  <1>2. S \in SUBSET DOMAIN file
    BY DEF RowsOfRegion
  <1>3. \A h \in Headers(file, icao) : h \in DOMAIN file /\ file[h].kind = "header" /\ Near(h)
    BY DEF Headers
  <1> HIDE DEF S, Near
  <1>4. \A h \in DOMAIN file : file[h].kind = "header" => h \in Owner(file, h)
    BY HeadersOwnThemselves
  <1>5. \A i \in DOMAIN file : \A h \in Owner(file, i) : h \in DOMAIN file /\ file[h].kind = "header"
    BY DEF Owner
  <1>6. ASSUME NEW i \in S PROVE \E h \in Owner(file, i) : h \in S
    BY <1>1, <1>2, <1>4, <1>5
  <1>7. ASSUME NEW i \in DOMAIN file, NEW h \in Owner(file, i), h \in S PROVE i \in S
    <2>1. h \in DOMAIN file /\ h \in Owner(file, h)
      BY <1>4, <1>5
    <2>2. PICK g \in Owner(file, h) : Near(g)
      BY <1>1, <1>7, <2>1
    <2>3. g = h
      BY <2>1, OneOwner
    <2> QED
      BY <1>1, <2>2, <2>3
  <1>8. Headers(file, icao) \subseteq S
    BY <1>1, <1>3, <1>4
  <1> QED
    BY <1>2, <1>6, <1>7, <1>8 DEF Whole, S

LEMMA OwnersInText ==
    ASSUME NEW file, IsFile(file), NEW S \in SUBSET Nat, Whole(file, S), NEW text, NEW f,
           Follows(text, file, S, f), NEW m \in 1..Len(text), NEW n \in 1..Len(text)
    PROVE  m \in Owner(text, n) <=> f[m] \in Owner(file, f[n])
  <1> DEFINE N == Len(text)
             L == Len(file)
  <1>p. Places(text, file, S, f)
    BY Followed
  <1>1. /\ N \in Nat /\ DOMAIN text = 1..N
        /\ \A k \in 1..N : f[k] \in S /\ f[k] \in Nat /\ text[k] = file[f[k]]
        /\ \A k, l \in 1..N : (f[k] < f[l] <=> k < l) /\ (f[k] <= f[l] <=> k <= l)
        /\ \A i \in S : \E k \in 1..N : f[k] = i
    BY <1>p DEF Places
  <1>2. DOMAIN file = 1..L /\ L \in Nat
    BY FilesAreLists
  <1>3. S \subseteq DOMAIN file
    BY DEF Whole
  <1> HIDE DEF N, L
  <1>4. m \in 1..N /\ n \in 1..N
    BY DEF N
  <1>5. f[m] \in DOMAIN file /\ f[n] \in DOMAIN file
    BY <1>1, <1>3, <1>4
  <1>6. m \in Owner(text, n) <=> /\ m <= n /\ text[m].kind = "header"
                                 /\ \A k \in (m + 1)..n : text[k].kind = "row"
    BY <1>1, <1>4 DEF Owner
  <1>7. \A h : h \in Owner(file, f[n]) <=> /\ h \in DOMAIN file /\ h <= f[n] /\ file[h].kind = "header"
                                           /\ \A k \in (h + 1)..f[n] : file[k].kind = "row"
    BY DEF Owner
  <1>8. \A k \in (m + 1)..n : k \in 1..N /\ m < k /\ k <= n
    BY <1>1, <1>4
  <1>9. ASSUME m \in Owner(text, n) PROVE f[m] \in Owner(file, f[n])
    <2>1. PICK h \in Owner(file, f[n]) : h \in S
      BY <1>1, <1>4 DEF Whole
    <2>2. PICK k \in 1..N : f[k] = h
      BY <1>1, <2>1
    <2>3. h \in DOMAIN file /\ h <= f[n] /\ file[h].kind = "header"
      BY <1>7, <2>1
    <2>4. k <= n /\ text[k].kind = "header"
      BY <1>1, <1>4, <2>2, <2>3
    <2>5. k <= m
      <3>1. ~(k \in (m + 1)..n)
        BY <1>6, <1>9, <2>4
      <3> QED
        BY <1>1, <1>4, <2>4, <3>1
    <2>6. h <= f[m] /\ f[m] <= f[n] /\ file[f[m]].kind = "header"
      BY <1>1, <1>4, <1>6, <1>9, <2>2, <2>5
    <2>7. ~(f[m] \in (h + 1)..f[n])
      BY <1>7, <2>1, <2>6
    <2>8. f[m] = h
      BY <1>2, <1>5, <2>3, <2>6, <2>7
    <2> QED
      BY <2>1, <2>8
  <1>10. ASSUME f[m] \in Owner(file, f[n]) PROVE m \in Owner(text, n)
    <2>1. f[m] <= f[n] /\ file[f[m]].kind = "header" /\ \A k \in (f[m] + 1)..f[n] : file[k].kind = "row"
      BY <1>7, <1>10
    <2>2. m <= n /\ text[m].kind = "header"
      BY <1>1, <1>4, <2>1
    <2>3. ASSUME NEW k \in (m + 1)..n PROVE text[k].kind = "row"
      <3>1. k \in 1..N /\ m < k /\ k <= n
        BY <1>8
      <3>2. f[m] < f[k] /\ f[k] <= f[n] /\ text[k] = file[f[k]] /\ f[k] \in Nat /\ f[m] \in Nat /\ f[n] \in Nat
        BY <1>1, <1>4, <3>1
      <3>3. f[k] \in (f[m] + 1)..f[n]
        BY <3>2
      <3> QED
        BY <2>1, <3>2, <3>3
    <2> QED
      BY <1>6, <2>2, <2>3
  <1> QED
    BY <1>9, <1>10

LEMMA TextIsFile ==
    ASSUME NEW file, IsFile(file), NEW S \in SUBSET DOMAIN file, NEW text, NEW f,
           Follows(text, file, S, f)
    PROVE  IsFile(text)
  <1>1. DOMAIN file = 1..Len(file) /\ Len(file) \in Nat
    BY FilesAreLists
  <1>2. S \in SUBSET Nat
    BY <1>1
  <1>p. Places(text, file, S, f)
    BY <1>2, Followed
  <1>3. /\ DOMAIN text = 1..Len(text) /\ IsList(text)
        /\ \A n \in 1..Len(text) : f[n] \in DOMAIN file /\ text[n] = file[f[n]]
    BY <1>p DEF Places
  <1> QED
    BY <1>3 DEF IsFile

LEMMA PlacesInText ==
    ASSUME NEW file, IsFile(file), NEW S \in SUBSET Nat, Whole(file, S), NEW text, NEW f,
           Follows(text, file, S, f), NEW m \in 1..Len(text), file[f[m]].kind = "header"
    PROVE  PlaceOfAirport(text, m) = PlaceOfAirport(file, f[m])
  <1> DEFINE T == {n \in DOMAIN text : m \in Owner(text, n) /\ text[n].at # {}}
             U == {i \in DOMAIN file : f[m] \in Owner(file, i) /\ file[i].at # {}}
  <1>p. Places(text, file, S, f)
    BY Followed
  <1>1. /\ DOMAIN text = 1..Len(text)
        /\ \A k \in 1..Len(text) : f[k] \in S /\ text[k] = file[f[k]]
        /\ \A i \in S : \E k \in 1..Len(text) : f[k] = i
    BY <1>p DEF Places
  <1>2. S \subseteq DOMAIN file
    BY DEF Whole
  <1>3. \A n \in 1..Len(text) : n \in T <=> f[n] \in U
    BY <1>1, <1>2, OwnersInText
  <1>4. U \subseteq S
    BY <1>1 DEF Whole
  <1>5. T \in SUBSET (1..Len(text))
    BY <1>1
  <1>6. PlaceOfAirport(text, m) = IF T = {} THEN {} ELSE text[Min(T)].at
    BY DEF PlaceOfAirport
  <1>7. PlaceOfAirport(file, f[m]) = IF U = {} THEN {} ELSE file[Min(U)].at
    BY DEF PlaceOfAirport
  <1> HIDE DEF T, U
  <1>8. \A i : i \in U <=> \E n \in T : f[n] = i
    BY <1>1, <1>3, <1>4, <1>5
  <1>i. Image(U, T, f)
    BY <1>8 DEF Image
  <1>9. CASE T = {}
    <2>1. U = {}
      BY <1>8, <1>9
    <2> QED
      BY <1>6, <1>7, <1>9, <2>1
  <1>10. CASE T # {}
    <2>1. Min(T) \in T /\ Min(U) = f[Min(T)] /\ U # {}
      BY <1>5, <1>i, <1>10, MinIsKept
    <2>2. text[Min(T)] = file[f[Min(T)]]
      BY <1>1, <1>5, <2>1
    <2> QED
      BY <1>6, <1>7, <1>10, <2>1, <2>2
  <1> QED
    BY <1>9, <1>10

\* find_airport_reference, in any text.
LEMMA ReferenceIsPlace ==
    ASSUME NEW file, IsFile(file), NEW icao
    PROVE  Reference(file, icao) = PlaceIn(file, icao)
  <1> DEFINE blocks == Blocks(file)
             T == {k \in DOMAIN blocks : blocks[k].icao = icao /\ blocks[k].at # {}}
             U == {h \in Headers(file, icao) : PlaceOfAirport(file, h) # {}}
  <1>1. PICK heads :
             /\ DOMAIN blocks = 1..Len(heads) /\ Len(heads) \in Nat
             /\ \A k \in 1..Len(heads) :
                  /\ heads[k] \in DOMAIN file /\ file[heads[k]].kind = "header"
                  /\ blocks[k].icao = file[heads[k]].icao
                  /\ blocks[k].at = PlaceOfAirport(file, heads[k])
             /\ \A h \in DOMAIN file : file[h].kind = "header" => \E k \in 1..Len(heads) : heads[k] = h
             /\ \A k, l \in 1..Len(heads) : k < l => heads[k] < heads[l]
    BY BlocksOfHeaders
  <1>2. Reference(file, icao) = IF T = {} THEN {} ELSE blocks[Min(T)].at
    BY DEF Reference
  <1>3. PlaceIn(file, icao) = IF U = {} THEN {} ELSE PlaceOfAirport(file, Min(U))
    BY DEF PlaceIn
  <1> HIDE DEF blocks
  <1>4. T \in SUBSET Nat /\ U \in SUBSET Nat /\ DOMAIN file \subseteq Nat
    BY <1>1, FilesAreLists DEF Headers
  <1>5. \A k \in 1..Len(heads) : k \in T <=> heads[k] \in U
    BY <1>1 DEF Headers
  <1>6. \A h \in U : \E k \in 1..Len(heads) : heads[k] = h
    BY <1>1 DEF Headers
  <1>7. T \subseteq 1..Len(heads)
    BY <1>1
  <1> HIDE DEF T, U
  <1>8. CASE T = {}
    <2>1. U = {}
      BY <1>5, <1>6, <1>8
    <2> QED
      BY <1>2, <1>3, <1>8, <2>1
  <1>9. CASE T # {}
    <2> DEFINE first == Min(T)
    <2>1. first \in T /\ \A k \in T : first <= k
      BY <1>4, <1>9, MinIsLeast
    <2> HIDE DEF first
    <2>2. heads[first] \in U /\ blocks[first].at = PlaceOfAirport(file, heads[first])
      BY <1>1, <1>5, <1>7, <2>1
    <2>3. ASSUME NEW h \in U PROVE heads[first] <= h
      <3>1. PICK k \in 1..Len(heads) : heads[k] = h
        BY <1>6
      <3>2. k \in T /\ first <= k /\ first \in 1..Len(heads)
        BY <1>5, <1>7, <2>1, <3>1
      <3>3. first = k \/ first < k
        BY <1>1, <3>2
      <3>4. heads[first] \in Nat /\ heads[k] \in Nat
        BY <1>1, <1>4, <3>2
      <3> QED
        BY <1>1, <3>1, <3>2, <3>3, <3>4
    <2>4. Min(U) = heads[first]
      BY <1>4, <2>2, <2>3, MinIsTheOne
    <2> QED
      BY <1>2, <1>3, <1>9, <2>2, <2>4 DEF first
  <1> QED
    BY <1>8, <1>9

\* The text of a region says of the airport what the file does.
LEMMA TextsPlaceAirports ==
    ASSUME NEW file, IsFile(file), NEW icao
    PROVE  Reference(Regional(file, icao), icao) = PlaceIn(file, icao)
  <1> DEFINE text == Regional(file, icao)
             S == RowsOfRegion(file, icao)
             T == {m \in Headers(text, icao) : PlaceOfAirport(text, m) # {}}
             U == {h \in Headers(file, icao) : PlaceOfAirport(file, h) # {}}
  <1>1. PICK f : Follows(text, file, S, f)
    BY RegionIsRead DEF Reads
  <1>2. Whole(file, S) /\ Headers(file, icao) \subseteq S
    BY RegionsAreWhole
  <1> HIDE DEF text, S
  <1>3. S \in SUBSET DOMAIN file
    BY <1>2 DEF Whole
  <1>4. S \in SUBSET Nat
    BY <1>3, FilesAreLists
  <1>5. IsFile(text)
    BY <1>1, <1>3, TextIsFile
  <1>6. Reference(text, icao) = IF T = {} THEN {} ELSE PlaceOfAirport(text, Min(T))
    BY <1>5, ReferenceIsPlace DEF PlaceIn
  <1>7. PlaceIn(file, icao) = IF U = {} THEN {} ELSE PlaceOfAirport(file, Min(U))
    BY DEF PlaceIn
  <1>p. Places(text, file, S, f)
    BY <1>1, <1>4, Followed
  <1>8. /\ DOMAIN text = 1..Len(text)
        /\ \A k \in 1..Len(text) : f[k] \in S /\ text[k] = file[f[k]]
        /\ \A i \in S : \E k \in 1..Len(text) : f[k] = i
    BY <1>p DEF Places
  <1>9. \A m \in 1..Len(text) : m \in Headers(text, icao) <=> f[m] \in Headers(file, icao)
    BY <1>3, <1>8 DEF Headers
  <1>10. \A m \in 1..Len(text) : f[m] \in Headers(file, icao) =>
            PlaceOfAirport(text, m) = PlaceOfAirport(file, f[m])
    BY <1>1, <1>2, <1>4, PlacesInText DEF Headers
  <1>11. T \in SUBSET (1..Len(text)) /\ \A m \in 1..Len(text) : m \in T <=> f[m] \in U
    <2>1. T \in SUBSET (1..Len(text))
      BY <1>8 DEF Headers
    <2> QED
      BY <1>9, <1>10, <2>1
  <1>12. \A i : i \in U <=> \E m \in T : f[m] = i
    <2>1. U \subseteq S
      BY <1>2
    <2> HIDE DEF T, U
    <2> QED
      BY <1>8, <1>11, <2>1
  <1>i. Image(U, T, f)
    BY <1>12 DEF Image
  <1>13. T \subseteq {m \in 1..Len(text) : PlaceOfAirport(text, m) = PlaceOfAirport(file, f[m])}
    <2>1. \A m \in T : m \in Headers(text, icao) /\ m \in 1..Len(text)
      BY <1>11
    <2> HIDE DEF T
    <2> QED
      BY <1>9, <1>10, <2>1
  <1> HIDE DEF T, U
  <1>14. CASE T = {}
    <2>1. U = {}
      BY <1>12, <1>14
    <2> QED
      BY <1>6, <1>7, <1>14, <2>1 DEF text
  <1>15. CASE T # {}
    <2>1. Min(T) \in T /\ Min(U) = f[Min(T)] /\ U # {}
      BY <1>1, <1>4, <1>11, <1>i, <1>15, MinIsKept
    <2>2. PlaceOfAirport(text, Min(T)) = PlaceOfAirport(file, f[Min(T)])
      BY <1>13, <2>1
    <2> QED
      BY <1>6, <1>7, <1>15, <2>1, <2>2 DEF text
  <1> QED
    BY <1>14, <1>15
-----------------------------------------------------------------------------
\* A list offers nothing of a kind of file, or one thing.
OffersNone(list, file) == IsList(list) /\ \A n \in DOMAIN list : list[n].file # file

OffersOne(list, file, offer) ==
    /\ IsList(list) /\ offer.file = file
    /\ \E n \in DOMAIN list : list[n] = offer /\ \A m \in DOMAIN list : list[m].file = file => m = n

LEMMA ListsJoin ==
    ASSUME NEW s, NEW t, IsList(s), IsList(t)
    PROVE  /\ IsList(s \o t)
           /\ Len(s) \in Nat /\ Len(t) \in Nat /\ DOMAIN s = 1..Len(s) /\ DOMAIN t = 1..Len(t)
           /\ DOMAIN (s \o t) = 1..(Len(s) + Len(t))
           /\ \A n \in 1..(Len(s) + Len(t)) : (s \o t)[n] = IF n <= Len(s) THEN s[n] ELSE t[n - Len(s)]
  <1> DEFINE a == Len(s)
             b == Len(t)
             all == s \o t
             E == ToSet(s) \union ToSet(t)
  <1>1. s \in Seq(ToSet(s)) /\ t \in Seq(ToSet(t))
    BY DEF IsList
  <1>2. s \in Seq(E) /\ t \in Seq(E)
    <2>1. ToSet(s) \subseteq E /\ ToSet(t) \subseteq E
      OBVIOUS
    <2> QED
      BY <1>1, <2>1, SeqMonotonic
  <1>3. a \in Nat /\ b \in Nat /\ DOMAIN s = 1..a /\ DOMAIN t = 1..b
    BY <1>1
  <1> HIDE DEF E, all, a, b
  <1>4. /\ all \in Seq(E) /\ Len(all) = a + b
        /\ \A n \in 1..(a + b) : all[n] = IF n <= a THEN s[n] ELSE t[n - a]
    BY <1>2, ConcatProperties DEF all, a, b
  <1>5. DOMAIN all = 1..(a + b) /\ all = [n \in 1..(a + b) |-> all[n]]
    BY <1>3, <1>4
  <1>6. \A n \in 1..(a + b) : all[n] \in ToSet(all)
    BY <1>5 DEF ToSet
  <1>7. all \in Seq(ToSet(all))
    <2>1. all \in [1..(a + b) -> ToSet(all)] /\ a + b \in Nat
      BY <1>3, <1>5, <1>6
    <2> QED
      BY <2>1, SeqDef
  <1> QED
    BY <1>3, <1>4, <1>5, <1>7 DEF IsList, all, a, b

LEMMA NoneAndNone ==
    ASSUME NEW s, NEW t, NEW file, OffersNone(s, file), OffersNone(t, file)
    PROVE  OffersNone(s \o t, file)
  <1>1. IsList(s) /\ IsList(t)
    BY DEF OffersNone
  <1> DEFINE a == Len(s)
             b == Len(t)
             all == s \o t
  <1>2. /\ IsList(all) /\ a \in Nat /\ b \in Nat /\ DOMAIN s = 1..a /\ DOMAIN t = 1..b
        /\ DOMAIN all = 1..(a + b)
        /\ \A n \in 1..(a + b) : all[n] = IF n <= a THEN s[n] ELSE t[n - a]
    BY <1>1, ListsJoin
  <1> HIDE DEF a, b, all
  <1>3. \A n \in 1..(a + b) : IF n <= a THEN n \in 1..a ELSE n - a \in 1..b
    BY <1>2
  <1>4. (\A n \in 1..a : s[n].file # file) /\ \A n \in 1..b : t[n].file # file
    BY <1>2 DEF OffersNone
  <1>5. ASSUME NEW n \in 1..(a + b) PROVE all[n].file # file
    BY <1>2, <1>3, <1>4
  <1>6. OffersNone(all, file)
    BY <1>2, <1>5 DEF OffersNone
  <1> QED
    BY <1>6 DEF all

LEMMA OneAndNone ==
    ASSUME NEW s, NEW t, NEW file, NEW offer, OffersOne(s, file, offer), OffersNone(t, file)
    PROVE  OffersOne(s \o t, file, offer)
  <1>1. IsList(s) /\ IsList(t) /\ offer.file = file
    BY DEF OffersNone, OffersOne
  <1> DEFINE a == Len(s)
             b == Len(t)
             all == s \o t
  <1>2. /\ IsList(all) /\ a \in Nat /\ b \in Nat /\ DOMAIN s = 1..a /\ DOMAIN t = 1..b
        /\ DOMAIN all = 1..(a + b)
        /\ \A n \in 1..(a + b) : all[n] = IF n <= a THEN s[n] ELSE t[n - a]
    BY <1>1, ListsJoin
  <1> HIDE DEF a, b, all
  <1>3. \A n \in 1..(a + b) : IF n <= a THEN n \in 1..a ELSE n - a \in 1..b
    BY <1>2
  <1>4. \A n \in 1..b : t[n].file # file
    BY <1>2 DEF OffersNone
  <1>5. PICK n \in 1..a : s[n] = offer /\ \A m \in 1..a : s[m].file = file => m = n
    BY <1>2 DEF OffersOne
  <1>6. n \in 1..(a + b) /\ n <= a
    BY <1>2
  <1>7. all[n] = offer
    BY <1>2, <1>5, <1>6
  <1>8. ASSUME NEW m \in 1..(a + b), all[m].file = file PROVE m = n
    BY <1>2, <1>3, <1>4, <1>5, <1>8
  <1>9. OffersOne(all, file, offer)
    BY <1>1, <1>2, <1>6, <1>7, <1>8 DEF OffersOne
  <1> QED
    BY <1>9 DEF all

LEMMA NoneAndOne ==
    ASSUME NEW s, NEW t, NEW file, NEW offer, OffersNone(s, file), OffersOne(t, file, offer)
    PROVE  OffersOne(s \o t, file, offer)
  <1>1. IsList(s) /\ IsList(t) /\ offer.file = file
    BY DEF OffersNone, OffersOne
  <1> DEFINE a == Len(s)
             b == Len(t)
             all == s \o t
  <1>2. /\ IsList(all) /\ a \in Nat /\ b \in Nat /\ DOMAIN s = 1..a /\ DOMAIN t = 1..b
        /\ DOMAIN all = 1..(a + b)
        /\ \A n \in 1..(a + b) : all[n] = IF n <= a THEN s[n] ELSE t[n - a]
    BY <1>1, ListsJoin
  <1> HIDE DEF a, b, all
  <1>3. \A n \in 1..(a + b) : IF n <= a THEN n \in 1..a ELSE n - a \in 1..b
    BY <1>2
  <1>4. \A n \in 1..a : s[n].file # file
    BY <1>2 DEF OffersNone
  <1>5. PICK n \in 1..b : t[n] = offer /\ \A m \in 1..b : t[m].file = file => m = n
    BY <1>2 DEF OffersOne
  <1>6. n + a \in 1..(a + b) /\ ~(n + a <= a) /\ (n + a) - a = n
    BY <1>2
  <1>7. all[n + a] = offer
    BY <1>2, <1>5, <1>6
  <1>8. ASSUME NEW m \in 1..(a + b), all[m].file = file PROVE m = n + a
    <2>1. ~(m <= a)
      BY <1>2, <1>3, <1>4, <1>8
    <2>2. m - a \in 1..b /\ t[m - a].file = file
      BY <1>2, <1>3, <1>8, <2>1
    <2>3. m - a = n
      BY <1>5, <2>2
    <2> QED
      BY <1>2, <2>3
  <1>9. OffersOne(all, file, offer)
    BY <1>1, <1>2, <1>6, <1>7, <1>8 DEF OffersOne
  <1> QED
    BY <1>9 DEF all

LEMMA ShortLists ==
    ASSUME NEW offer, NEW file
    PROVE  /\ OffersNone(<<>>, file)
           /\ offer.file # file => OffersNone(<<offer>>, file)
           /\ offer.file = file => OffersOne(<<offer>>, file, offer)
  <1>1. IsList(<<>>) /\ DOMAIN <<>> = {}
    BY DEF IsList
  <1>2. DOMAIN <<offer>> = {1} /\ <<offer>>[1] = offer /\ offer \in ToSet(<<offer>>)
    BY DEF ToSet
  <1>3. IsList(<<offer>>)
    BY <1>2 DEF IsList
  <1> QED
    BY <1>1, <1>2, <1>3 DEF OffersNone, OffersOne
-----------------------------------------------------------------------------
LEMMA WholeFilesAreNoFixes ==
    ASSUME NEW kind, NEW icao, NEW text, NEW file, file # ""
    PROVE  OffersNone(WholeFile(kind, icao, text), file)
  <1>1. Offer(kind, icao, "global", text, "").file # file
    BY DEF Offer
  <1> QED
    BY <1>1, ShortLists DEF WholeFile

Texts(install, icao) ==
    [i \in DOMAIN install.apt |-> Offer("apt", icao, install.apt[i].source,
                                        Regional(install.apt[i].rows, icao), "")]

Taken(install, icao) == {i \in DOMAIN Texts(install, icao) : Texts(install, icao)[i].text # <<>>}

LEMMA TextsAreRead ==
    ASSUME NEW install, IsInstallation(install), NEW icao
    PROVE  /\ Reads(AptOffers(install, icao), Texts(install, icao), Taken(install, icao))
           /\ Taken(install, icao) \in SUBSET Nat /\ Taken(install, icao) \subseteq DOMAIN install.apt
           /\ \A i \in DOMAIN install.apt :
                /\ Texts(install, icao)[i].file = ""
                /\ Texts(install, icao)[i].text = Regional(install.apt[i].rows, icao)
  <1> DEFINE texts == Texts(install, icao)
             N == Len(install.apt)
  <1>1. IsList(install.apt)
    BY DEF IsInstallation
  <1>2. DOMAIN install.apt = 1..N /\ N \in Nat
    BY <1>1 DEF IsList
  <1>3. DOMAIN texts = 1..N
    BY <1>2 DEF Texts
  <1>4. \A i \in DOMAIN install.apt : texts[i].file = "" /\ texts[i].text = Regional(install.apt[i].rows, icao)
    BY DEF Texts, Offer
  <1>5. AptOffers(install, icao) = InOrder(texts, Taken(install, icao))
    BY DEF AptOffers, Taken, Texts
  <1>6. texts = [i \in 1..N |-> texts[i]]
    BY <1>2 DEF Texts
  <1> HIDE DEF texts, N
  <1>7. \A i \in 1..N : texts[i] \in ToSet(texts)
    BY <1>3 DEF ToSet
  <1>8. IsList(texts)
    <2>1. texts \in [1..N -> ToSet(texts)]
      BY <1>6, <1>7
    <2>2. texts \in Seq(ToSet(texts))
      BY <1>2, <2>1, SeqDef
    <2> QED
      BY <2>2 DEF IsList
  <1>9. Taken(install, icao) \in SUBSET DOMAIN texts
    BY DEF Taken, texts
  <1>10. Reads(AptOffers(install, icao), texts, Taken(install, icao))
    BY <1>5, <1>8, <1>9, ReadsAny
  <1>11. Taken(install, icao) \in SUBSET Nat /\ Taken(install, icao) \subseteq DOMAIN install.apt
    BY <1>2, <1>3, <1>9
  <1> QED
    BY <1>4, <1>10, <1>11 DEF texts

LEMMA TextsAreNoFixes ==
    ASSUME NEW install, IsInstallation(install), NEW icao, NEW file, file # ""
    PROVE  OffersNone(AptOffers(install, icao), file)
  <1> DEFINE apt == AptOffers(install, icao)
             texts == Texts(install, icao)
             S == Taken(install, icao)
  <1>1. /\ Reads(apt, texts, S) /\ S \in SUBSET Nat /\ S \subseteq DOMAIN install.apt
        /\ \A i \in DOMAIN install.apt : texts[i].file = ""
    BY TextsAreRead
  <1> HIDE DEF apt, texts, S
  <1>2. PICK f : Follows(apt, texts, S, f)
    BY <1>1 DEF Reads
  <1>3. Places(apt, texts, S, f)
    BY <1>1, <1>2, Followed
  <1>4. IsList(apt) /\ \A n \in DOMAIN apt : f[n] \in S /\ apt[n] = texts[f[n]]
    BY <1>3 DEF Places
  <1>5. \A n \in DOMAIN apt : apt[n].file = ""
    BY ONLY <1>1, <1>4
  <1>6. OffersNone(apt, file)
    BY <1>4, <1>5 DEF OffersNone
  <1> QED
    BY <1>6 DEF apt

LEMMA NothingIsNowhere ==
    ASSUME NEW icao
    PROVE  Reference(<<>>, icao) = {}
  <1>1. IsFile(<<>>) /\ DOMAIN <<>> = {}
    BY DEF IsFile, IsList
  <1>2. Headers(<<>>, icao) = {}
    BY <1>1 DEF Headers
  <1>3. PlaceIn(<<>>, icao) = {}
    BY <1>2 DEF PlaceIn
  <1> QED
    BY <1>1, <1>3, ReferenceIsPlace

\* The place found in the texts is the place in the files.
LEMMA AirportIsPlaced ==
    ASSUME NEW install, IsInstallation(install), NEW icao, NEW T,
           T = {i \in DOMAIN AptOffers(install, icao) : Reference(AptOffers(install, icao)[i].text, icao) # {}}
    PROVE  AirportAt(install, icao)
             = IF T = {} THEN {} ELSE Reference(AptOffers(install, icao)[Min(T)].text, icao)
  <1> DEFINE apt == AptOffers(install, icao)
             texts == Texts(install, icao)
             S == Taken(install, icao)
             U == {a \in DOMAIN install.apt : PlaceIn(install.apt[a].rows, icao) # {}}
  <1>1. /\ Reads(apt, texts, S) /\ S \in SUBSET Nat /\ S \subseteq DOMAIN install.apt
        /\ \A i \in DOMAIN install.apt : texts[i].text = Regional(install.apt[i].rows, icao)
    BY TextsAreRead
  <1>2. S = {i \in DOMAIN install.apt : texts[i].text # <<>>}
    BY DEF Taken, Texts
  <1>3. T = {i \in DOMAIN apt : Reference(apt[i].text, icao) # {}}
    OBVIOUS
  <1> HIDE DEF apt, texts, S
  <1>4. PICK f : Follows(apt, texts, S, f)
    BY <1>1 DEF Reads
  <1>5. Places(apt, texts, S, f)
    BY <1>1, <1>4, Followed
  <1>6. /\ DOMAIN apt = 1..Len(apt)
        /\ \A n \in 1..Len(apt) : f[n] \in S /\ apt[n] = texts[f[n]]
        /\ \A i \in S : \E n \in 1..Len(apt) : f[n] = i
    BY <1>5 DEF Places
  <1>7. \A a \in DOMAIN install.apt : Reference(texts[a].text, icao) = PlaceIn(install.apt[a].rows, icao)
    <2> TAKE a \in DOMAIN install.apt
    <2>1. IsFile(install.apt[a].rows)
      BY DEF IsInstallation
    <2>2. texts[a].text = Regional(install.apt[a].rows, icao)
      BY <1>1
    <2> QED
      BY <2>1, <2>2, TextsPlaceAirports
  <1>8. U \subseteq S
    <2>1. \A a \in U : texts[a].text # <<>>
      BY <1>7, NothingIsNowhere
    <2> QED
      BY <1>2, <2>1
  <1>9. \A n \in 1..Len(apt) : n \in T <=> f[n] \in U
    BY <1>1, <1>3, <1>6, <1>7
  <1>10. T \in SUBSET (1..Len(apt))
    BY <1>3, <1>6
  <1>11. AirportAt(install, icao) = IF U = {} THEN {} ELSE PlaceIn(install.apt[Min(U)].rows, icao)
    BY DEF AirportAt
  <1>12. U \subseteq DOMAIN install.apt
    OBVIOUS
  <1> HIDE DEF U
  <1>13. \A i : i \in U <=> \E n \in T : f[n] = i
    BY <1>6, <1>8, <1>9, <1>10
  <1>14. Image(U, T, f)
    BY <1>13 DEF Image
  <1>15. CASE T = {}
    <2>1. U = {}
      BY <1>13, <1>15
    <2> QED
      BY <1>11, <1>15, <2>1
  <1>16. CASE T # {}
    <2>1. Min(T) \in T /\ Min(U) = f[Min(T)] /\ U # {}
      BY ONLY <1>1, <1>4, <1>10, <1>14, <1>16, MinIsKept
    <2>2. Min(U) \in U
      BY <1>13, <2>1
    <2>3. apt[Min(T)] = texts[Min(U)]
      BY <1>6, <1>10, <2>1
    <2>4. Reference(apt[Min(T)].text, icao) = PlaceIn(install.apt[Min(U)].rows, icao)
      BY <1>7, <1>12, <2>2, <2>3
    <2> QED
      BY <1>11, <1>16, <2>1, <2>4 DEF apt
  <1> QED
    BY <1>15, <1>16
-----------------------------------------------------------------------------
\* The copies of a fix file that have rows around a place.
Hits(install, file, at) ==
    {i \in DOMAIN install.fixes[file] : RowsInBox(install.fixes[file][i].rows, at) # <<>>}

FirstHit(install, file, at) ==
    LET first == install.fixes[file][Min(Hits(install, file, at))]
    IN Offer("fixes", "", first.source, RowsInBox(first.rows, at), file)

LEMMA NoPlaceNoHits ==
    ASSUME NEW install, NEW file
    PROVE  Hits(install, file, {}) = {}
  <1> SUFFICES ASSUME NEW i \in DOMAIN install.fixes[file]
               PROVE  RowsInBox(install.fixes[file][i].rows, {}) = <<>>
    BY DEF Hits
  <1> DEFINE rows == install.fixes[file][i].rows
  <1>1. {n \in DOMAIN rows : Within(rows[n].at, {}, kFixBoxRadiusNm)} = {}
    BY DEF Within
  <1> HIDE DEF rows
  <1>2. RowsInBox(rows, {}) = InOrder(rows, {})
    BY <1>1 DEF RowsInBox
  <1>3. Reads(<<>>, rows, {})
    BY ReadsNothing
  <1>4. {} \in SUBSET Nat
    OBVIOUS
  <1>5. <<>> = InOrder(rows, {})
    BY <1>3, <1>4, ReadsInOrder
  <1> QED
    BY <1>2, <1>5 DEF rows

LEMMA FixesAreOffered ==
    ASSUME NEW install, NEW file, NEW at, NEW other
    PROVE  /\ Hits(install, file, at) = {} => OffersNone(FixOffers(install, file, at), other)
           /\ other # file => OffersNone(FixOffers(install, file, at), other)
           /\ Hits(install, file, at) # {} =>
                OffersOne(FixOffers(install, file, at), file, FirstHit(install, file, at))
  <1>1. FixOffers(install, file, at) = IF Hits(install, file, at) = {} THEN <<>>
                                       ELSE <<FirstHit(install, file, at)>>
    BY DEF FixOffers, Hits, FirstHit
  <1>2. FirstHit(install, file, at).file = file
    BY DEF FirstHit, Offer
  <1> QED
    BY <1>1, <1>2, ShortLists

\* What the offers have of one kind of fix file.
LEMMA OffersOfAFile ==
    ASSUME NEW install, IsInstallation(install), NEW icao, NEW file \in {"fix", "nav"}, NEW at,
           at = AirportAt(install, icao)
    PROVE  /\ Hits(install, file, at) = {} => OffersNone(Offers(install, icao), file)
           /\ Hits(install, file, at) # {} =>
                OffersOne(Offers(install, icao), file, FirstHit(install, file, at))
  <1> DEFINE apt == AptOffers(install, icao)
             T == {i \in DOMAIN apt : Reference(apt[i].text, icao) # {}}
             place == Reference(apt[Min(T)].text, icao)
             w1 == WholeFile("cifp", icao, install.cifp[icao])
             w2 == WholeFile("airspace", "", install.airspace)
             w3 == WholeFile("atc", "", install.atc)
             w4 == WholeFile("vrp", "", install.vrp)
             fix == FixOffers(install, "fix", place)
             nav == FixOffers(install, "nav", place)
             fixes == IF T = {} THEN <<>> ELSE fix \o nav
             before == apt \o w1 \o w2 \o w3 \o w4
  <1>1. at = IF T = {} THEN {} ELSE place
    BY AirportIsPlaced
  <1>2. Offers(install, icao) = before \o fixes
    BY DEF Offers
  <1>3. OffersNone(apt, file)
    BY TextsAreNoFixes
  <1>4. OffersNone(w1, file) /\ OffersNone(w2, file) /\ OffersNone(w3, file) /\ OffersNone(w4, file)
    BY WholeFilesAreNoFixes
  <1>5. OffersNone(before, file)
    <2> HIDE DEF apt, w1, w2, w3, w4
    <2>1. OffersNone(apt \o w1, file)
      BY <1>3, <1>4, NoneAndNone
    <2>2. OffersNone(apt \o w1 \o w2, file)
      BY <1>4, <2>1, NoneAndNone
    <2>3. OffersNone(apt \o w1 \o w2 \o w3, file)
      BY <1>4, <2>2, NoneAndNone
    <2> QED
      BY <1>4, <2>3, NoneAndNone
  <1>6. CASE T = {}
    <2>1. Hits(install, file, at) = {}
      BY <1>1, <1>6, NoPlaceNoHits
    <2>2. OffersNone(fixes, file)
      BY <1>6, ShortLists
    <2> HIDE DEF before, fixes
    <2>3. OffersNone(before \o fixes, file)
      BY <1>5, <2>2, NoneAndNone
    <2> QED
      BY <1>2, <2>1, <2>3
  <1>7. CASE T # {}
    <2>1. at = place /\ fixes = fix \o nav
      BY <1>1, <1>7
    <2> HIDE DEF before, T, place
    <2>2. /\ Hits(install, "fix", at) = {} => OffersNone(fix, "fix")
          /\ Hits(install, "fix", at) # {} => OffersOne(fix, "fix", FirstHit(install, "fix", at))
          /\ OffersNone(fix, "nav")
          /\ Hits(install, "nav", at) = {} => OffersNone(nav, "nav")
          /\ Hits(install, "nav", at) # {} => OffersOne(nav, "nav", FirstHit(install, "nav", at))
          /\ OffersNone(nav, "fix")
      BY <2>1, FixesAreOffered
    <2> HIDE DEF fix, nav, fixes
    <2>3. /\ Hits(install, file, at) = {} => OffersNone(fix \o nav, file)
          /\ Hits(install, file, at) # {} => OffersOne(fix \o nav, file, FirstHit(install, file, at))
      BY <2>2, NoneAndNone, OneAndNone, NoneAndOne
    <2>4. /\ Hits(install, file, at) = {} => OffersNone(before \o fixes, file)
          /\ Hits(install, file, at) # {} => OffersOne(before \o fixes, file, FirstHit(install, file, at))
      BY <1>5, <2>1, <2>3, NoneAndNone, NoneAndOne
    <2> QED
      BY <1>2, <2>4
  <1> QED
    BY <1>6, <1>7

LEMMA FixesAreTaken ==
    ASSUME NEW install, IsInstallation(install), NEW icao
    PROVE  OneCopyOfFixes(install, icao)
  <1> DEFINE all == Offers(install, icao)
             at == AirportAt(install, icao)
  <1> SUFFICES ASSUME NEW file \in DOMAIN install.fixes
               PROVE  LET copies  == install.fixes[file]
                          hits    == {i \in DOMAIN copies : RowsInBox(copies[i].rows, at) # <<>>}
                          offered == {n \in DOMAIN all : all[n].file = file}
                      IN /\ Cardinality(offered) <= 1
                         /\ hits # {} => offered # {}
                         /\ \A n \in offered : \E i \in hits :
                              /\ all[n].source = copies[i].source
                              /\ all[n].text = RowsInBox(copies[i].rows, at)
                              /\ \A j \in hits : i <= j
    BY DEF OneCopyOfFixes
  <1> DEFINE copies == install.fixes[file]
             hits == Hits(install, file, at)
             offered == {n \in DOMAIN all : all[n].file = file}
             offer == FirstHit(install, file, at)
  <1>1. file \in {"fix", "nav"} /\ IsList(copies)
    BY DEF IsInstallation
  <1>2. hits = {i \in DOMAIN copies : RowsInBox(copies[i].rows, at) # <<>>}
    BY DEF Hits
  <1>3. hits \in SUBSET Nat
    BY <1>1 DEF Hits, IsList
  <1>4. /\ hits = {} => OffersNone(all, file)
        /\ hits # {} => OffersOne(all, file, offer)
    BY <1>1, OffersOfAFile
  <1>5. offer.source = copies[Min(hits)].source /\ offer.text = RowsInBox(copies[Min(hits)].rows, at)
    BY DEF FirstHit, Offer
  <1> HIDE DEF all, at, copies, hits, offer
  <1>6. /\ Cardinality(offered) <= 1
        /\ hits # {} => offered # {}
        /\ \A n \in offered : \E i \in hits :
             /\ all[n].source = copies[i].source
             /\ all[n].text = RowsInBox(copies[i].rows, at)
             /\ \A j \in hits : i <= j
    <2>1. CASE hits = {}
      <3>1. offered = {}
        BY <1>4, <2>1 DEF OffersNone
      <3>2. Cardinality(offered) = 0
        BY <3>1, FS_EmptySet
      <3> QED
        BY <2>1, <3>1, <3>2
    <2>2. CASE hits # {}
      <3>1. PICK n \in DOMAIN all : all[n] = offer /\ \A m \in DOMAIN all : all[m].file = file => m = n
        BY <1>4, <2>2 DEF OffersOne
      <3>2. offer.file = file
        BY <1>4, <2>2 DEF OffersOne
      <3>3. offered = {n}
        BY <3>1, <3>2
      <3>4. Cardinality(offered) = 1
        BY <3>3, FS_Singleton
      <3>5. Min(hits) \in hits /\ \A j \in hits : Min(hits) <= j
        BY <1>3, <2>2, MinIsLeast
      <3> HIDE DEF offered
      <3>6. \A m \in offered : /\ all[m].source = copies[Min(hits)].source
                               /\ all[m].text = RowsInBox(copies[Min(hits)].rows, at)
        BY <1>5, <3>1, <3>3
      <3>7. \A m \in offered : \E i \in hits :
              /\ all[m].source = copies[i].source
              /\ all[m].text = RowsInBox(copies[i].rows, at)
              /\ \A j \in hits : i <= j
        BY <3>5, <3>6
      <3> QED
        BY <2>2, <3>3, <3>4, <3>7
    <2> QED
      BY <2>1, <2>2
  <1> QED
    BY <1>2, <1>6 DEF all, at, copies
-----------------------------------------------------------------------------
\* What the console knows of, or has asked for and not yet been answered.
Awaited ==
    heard \union {o \in AllOffers : \/ receiver = <<Request(o)>>
                                    \/ \E i \in DOMAIN jobs : jobs[i] = Request(o)}

\* It is entered, or about to be.
Answerable(offer) == Entered(offer) \/ offer = announced

IInv == TypeOK /\ \A offer \in Awaited : Answerable(offer)
-----------------------------------------------------------------------------
LEMMA OffersAreOffers ==
    ASSUME NEW i \in Installations, NEW icao \in Airports
    PROVE  OffersOf[i][icao] \in Seq(AllOffers)
  <1>1. IsInstallation(DataFiles[i])
    BY NavdataAssumption DEF NavdataAssumption, Installations
  <1>2. IsList(Offers(DataFiles[i], icao))
    BY <1>1, OffersOfAFile DEF OffersNone, OffersOne
  <1>3. OffersOf[i][icao] \in Seq(ToSet(OffersOf[i][icao]))
    BY <1>2 DEF OffersOf, IsList
  <1>4. ToSet(OffersOf[i][icao]) \subseteq AllOffers
    BY DEF AllOffers
  <1> QED
    BY <1>3, <1>4, SeqMonotonic

LEMMA NoOfferIsNone == NoOffer \notin AllOffers
  BY OffersAssumption DEF OffersAssumption, AllOffers

LEMMA KindsOfJobs ==
    /\ \A icao \in Airports : Scan(icao) \in Jobs /\ Scan(icao).icao = icao
    /\ Metar \in Jobs
    /\ \A o \in AllOffers : Request(o) \in Jobs /\ Request(o).about = o
    /\ \A job \in Jobs : job.kind = "scan" => job.icao \in Airports
    /\ \A job \in Jobs : job.kind = "request" => job.about \in AllOffers /\ job = Request(job.about)
    /\ \A icao \in Airports, o \in AllOffers : Scan(icao) # Request(o)
    /\ \A o \in AllOffers : Metar # Request(o)
  <1>1. /\ \A icao \in Airports : Scan(icao) \in Jobs
        /\ Metar \in Jobs
        /\ \A o \in AllOffers : Request(o) \in Jobs
    BY DEF Jobs
  <1>2. ASSUME NEW job \in Jobs
        PROVE  /\ job.kind = "scan" => job.icao \in Airports
               /\ job.kind = "request" => job.about \in AllOffers /\ job = Request(job.about)
    <2>1. CASE \E icao \in Airports : job = Scan(icao)
      BY <2>1 DEF Scan
    <2>2. CASE job = Metar
      BY <2>2 DEF Metar
    <2>3. CASE \E o \in AllOffers : job = Request(o)
      <3>1. PICK o \in AllOffers : job = Request(o)
        BY <2>3
      <3>2. job.kind = "request" /\ job.about = o
        BY <3>1 DEF Request
      <3> QED
        BY <3>1, <3>2
    <2> QED
      BY <2>1, <2>2, <2>3 DEF Jobs
  <1>3. /\ \A icao, o : Scan(icao).icao = icao /\ Request(o).about = o /\ Scan(icao) # Request(o)
        /\ \A o : Metar # Request(o)
    BY DEF Scan, Metar, Request
  <1> QED
    BY <1>1, <1>2, <1>3

\* What is queued adds nothing to what is awaited but itself.
LEMMA QueuedJobs ==
    ASSUME NEW queue \in Seq(Jobs), NEW more \in Seq(Jobs)
    PROVE  /\ Push(queue, more) \in Seq(Jobs)
           /\ \A i \in DOMAIN Push(queue, more) :
                \/ \E j \in DOMAIN queue : Push(queue, more)[i] = queue[j]
                \/ \E j \in DOMAIN more : Push(queue, more)[i] = more[j]
  <1>1. CASE stage # "on"
    BY <1>1 DEF Push
  <1>2. CASE stage = "on"
    <2>1. /\ queue \o more \in Seq(Jobs)
          /\ Len(queue \o more) = Len(queue) + Len(more)
          /\ \A i \in 1..(Len(queue) + Len(more)) :
               (queue \o more)[i] = IF i <= Len(queue) THEN queue[i] ELSE more[i - Len(queue)]
      BY ConcatProperties
    <2>2. ASSUME NEW i \in DOMAIN (queue \o more)
          PROVE  \/ \E j \in DOMAIN queue : (queue \o more)[i] = queue[j]
                 \/ \E j \in DOMAIN more : (queue \o more)[i] = more[j]
      <3>1. i \in 1..(Len(queue) + Len(more)) /\ Len(queue) \in Nat /\ Len(more) \in Nat
        BY <2>1
      <3>2. CASE i <= Len(queue)
        BY <2>1, <3>1, <3>2
      <3>3. CASE i > Len(queue)
        <4>1. i - Len(queue) \in DOMAIN more /\ (queue \o more)[i] = more[i - Len(queue)]
          BY <2>1, <3>1, <3>3
        <4> QED
          BY <4>1
      <3> QED
        BY <3>1, <3>2, <3>3
    <2> QED
      BY <1>2, <2>1, <2>2 DEF Push
  <1> QED
    BY <1>1, <1>2

LEMMA TakenJob ==
    ASSUME NEW queue \in Seq(Jobs), queue # <<>>
    PROVE  /\ Head(queue) \in Jobs /\ Tail(queue) \in Seq(Jobs)
           /\ \A i \in DOMAIN Tail(queue) : i + 1 \in DOMAIN queue /\ Tail(queue)[i] = queue[i + 1]
  BY HeadTailProperties

\* The invariant goes on holding while nothing new is awaited, nothing entered
\* goes, and what is announced stays so.
LEMMA NothingNew ==
    ASSUME IInv, TypeOK', Awaited' \subseteq Awaited, announced' = announced, byHash' = byHash
    PROVE  IInv'
  BY DEF IInv, Answerable, Entered

LEMMA Bounds == MaxFlights \in Nat /\ MaxEvents \in Nat
  BY NavdataAssumption DEF NavdataAssumption

LEMMA InitInvariant == Init => IInv
  <1> SUFFICES ASSUME Init PROVE IInv
    OBVIOUS
  <1>1. FlightOK
    BY DEF Init, FlightOK
  <1>5. CountsOK
    <2>1. flights = 0 /\ events = 0
      BY DEF Init
    <2> QED
      BY <2>1, Bounds DEF CountsOK
  <1>2. WorkOK
    BY EmptySeq DEF Init, WorkOK
  <1>3. FlagsOK
    BY DEF Init, FlagsOK
  <1>4. Awaited = {}
    <2>1. heard = {} /\ jobs = <<>> /\ receiver = <<>>
      BY DEF Init
    <2>2. DOMAIN jobs = {}
      BY <2>1
    <2>3. \A o : receiver # <<Request(o)>>
      <3>1. \A job : <<>> # <<job>>
        OBVIOUS
      <3> QED
        BY <2>1, <3>1
    <2> QED
      BY <2>1, <2>2, <2>3 DEF Awaited
  <1> QED
    BY <1>1, <1>2, <1>3, <1>4, <1>5 DEF IInv, TypeOK

\* Queueing scans and weather, which nobody awaits.
LEMMA QueueKeeps ==
    ASSUME IInv, NEW more \in Seq(Jobs),
           \A j \in DOMAIN more : \A o \in AllOffers : more[j] # Request(o),
           jobs' = Push(jobs, more),
           UNCHANGED <<offers, announced, byHash, receiver, heard>>
    PROVE  WorkOK' /\ Awaited' \subseteq Awaited
  <1>1. /\ jobs' \in Seq(Jobs)
        /\ \A i \in DOMAIN jobs' : \/ \E j \in DOMAIN jobs : jobs'[i] = jobs[j]
                                  \/ \E j \in DOMAIN more : jobs'[i] = more[j]
    BY QueuedJobs DEF IInv, TypeOK, WorkOK
  <1>2. WorkOK'
    BY <1>1 DEF IInv, TypeOK, WorkOK
  <1>3. Awaited' \subseteq Awaited
    BY <1>1 DEF Awaited
  <1> QED
    BY <1>2, <1>3

LEMMA ScanAndMetar ==
    ASSUME NEW icao \in Airports
    PROVE  /\ <<Scan(icao), Metar>> \in Seq(Jobs) /\ <<Metar>> \in Seq(Jobs)
           /\ \A j \in DOMAIN <<Scan(icao), Metar>> : \A o \in AllOffers :
                <<Scan(icao), Metar>>[j] # Request(o)
           /\ \A j \in DOMAIN <<Metar>> : \A o \in AllOffers : <<Metar>>[j] # Request(o)
  BY KindsOfJobs

LEMMA CheckKeeps == ASSUME IInv, Check PROVE IInv'
  <1>1. FlightOK' /\ CountsOK'
    BY DEF IInv, TypeOK, FlightOK, CountsOK, Check, EnqueueScan, counts
  <1>2. FlagsOK'
    BY DEF IInv, TypeOK, FlagsOK, Check, EnqueueScan, link
  <1>3. WorkOK' /\ Awaited' \subseteq Awaited
    <2>1. UNCHANGED <<offers, announced, byHash, receiver, heard>>
      BY DEF Check, link
    <2>2. CASE checkDue /\ near \notin {"", airport}
      <3>1. near \in Airports /\ jobs' = Push(jobs, <<Scan(near), Metar>>)
        BY <2>2 DEF IInv, TypeOK, FlightOK, Check, EnqueueScan
      <3> QED
        BY <2>1, <3>1, ScanAndMetar, QueueKeeps
    <2>3. CASE ~(checkDue /\ near \notin {"", airport})
      <3>1. jobs' = jobs
        BY <2>3 DEF Check
      <3> QED
        BY <2>1, <3>1 DEF IInv, TypeOK, WorkOK, Awaited
    <2> QED
      BY <2>2, <2>3
  <1> QED
    BY <1>1, <1>2, <1>3, NothingNew DEF Check, TypeOK

LEMMA RefreshKeeps ==
    ASSUME IInv, Refresh, UNCHANGED <<offers, announced, byHash, receiver, heard, flights>>
    PROVE  WorkOK' /\ Awaited' \subseteq Awaited /\ CountsOK'
  <1>1. CountsOK'
    <2>1. flights' = flights /\ flights \in 0..MaxFlights /\ events \in 0..MaxEvents
      BY DEF IInv, TypeOK, CountsOK
    <2>2. events' = events \/ (events' = events + 1 /\ events < MaxEvents)
      BY DEF Refresh
    <2> QED
      BY <2>1, <2>2, Bounds DEF CountsOK
  <1>2. CASE jobs' = jobs
    BY <1>1, <1>2 DEF IInv, TypeOK, WorkOK, Awaited
  <1>3. CASE jobs' = Push(jobs, <<Metar>>)
    <2>1. <<Metar>> \in Seq(Jobs) /\ \A j \in DOMAIN <<Metar>> : \A o \in AllOffers : <<Metar>>[j] # Request(o)
      BY KindsOfJobs
    <2> QED
      BY <1>1, <1>3, <2>1, QueueKeeps
  <1> QED
    BY <1>2, <1>3 DEF Refresh

LEMMA RetryKeeps == ASSUME IInv, RetryLost \/ RetryConnected PROVE IInv'
  <1>1. UNCHANGED <<offers, announced, byHash, receiver, heard, flights>>
    BY DEF RetryLost, RetryConnected, link
  <1>2. /\ WorkOK' /\ Awaited' \subseteq Awaited
        /\ CountsOK' /\ scanned' \in Airports \union {""}
    <2>1. CASE RetryLost \/ (RetryConnected /\ ~Rescans)
      BY <1>1, <2>1, RefreshKeeps DEF IInv, TypeOK, FlightOK, RetryLost, RetryConnected
    <2>2. CASE RetryConnected /\ Rescans
      <3>1. /\ airport \in Airports /\ jobs' = Push(jobs, <<Scan(airport), Metar>>)
            /\ scanned' = airport /\ events' = events
        BY <2>2 DEF IInv, TypeOK, FlightOK, RetryConnected, Rescans, EnqueueScan
      <3>2. WorkOK' /\ Awaited' \subseteq Awaited
        BY <1>1, <3>1, ScanAndMetar, QueueKeeps
      <3> QED
        BY <1>1, <3>1, <3>2 DEF IInv, TypeOK, CountsOK
    <2> QED
      BY <2>1, <2>2
  <1>3. FlightOK'
    BY <1>2 DEF IInv, TypeOK, FlightOK, RetryLost, RetryConnected
  <1>4. FlagsOK'
    BY DEF IInv, TypeOK, FlagsOK, RetryLost, RetryConnected, EnqueueScan, link
  <1> QED
    BY <1>1, <1>2, <1>3, <1>4, NothingNew DEF TypeOK

LEMMA ClockKeeps ==
    ASSUME IInv, Tick \/ Fly \/ StopWorker \/ StopSink \/ WorkerExits \/ Connect PROVE IInv'
  <1>1. FlightOK'
    BY DEF IInv, TypeOK, FlightOK, Tick, Fly, StopWorker, StopSink, WorkerExits, Connect, flight
  <1>5. CountsOK'
    BY Bounds DEF IInv, TypeOK, CountsOK, Tick, Fly, StopWorker, StopSink, WorkerExits, Connect,
                  counts
  <1>2. UNCHANGED <<worker, receiver, heard>>
    BY DEF Tick, Fly, StopWorker, StopSink, WorkerExits, Connect, link
  <1>3. WorkOK' /\ Awaited' \subseteq Awaited
    BY <1>2 DEF IInv, TypeOK, WorkOK, Awaited, worker
  <1>4. FlagsOK'
    BY DEF IInv, TypeOK, FlagsOK, Tick, Fly, StopWorker, StopSink, WorkerExits, Connect, flight, link
  <1> QED
    BY <1>1, <1>2, <1>3, <1>4, <1>5, NothingNew DEF TypeOK, worker

LEMMA DropKeeps == ASSUME IInv, Drop PROVE IInv'
  <1>1. FlightOK'
    BY DEF IInv, TypeOK, FlightOK, Drop, flight
  <1>4. CountsOK'
    BY Bounds DEF IInv, TypeOK, CountsOK, Drop
  <1>2. WorkOK' /\ Awaited' \subseteq Awaited
    BY DEF IInv, TypeOK, WorkOK, Awaited, Drop, worker
  <1>3. FlagsOK'
    BY DEF IInv, TypeOK, FlagsOK, Drop, flight
  <1> QED
    BY <1>1, <1>2, <1>3, <1>4, NothingNew DEF TypeOK, Drop, worker

LEMMA WorkerTakesKeeps == ASSUME IInv, WorkerScans \/ WorkerAnswers PROVE IInv'
  <1>1. FlightOK' /\ CountsOK' /\ FlagsOK'
    <2>1. UNCHANGED <<here, flight, link, stage, counts>>
      BY DEF WorkerScans, WorkerAnswers
    <2>2. FlightOK'
      BY <2>1 DEF IInv, TypeOK, FlightOK, flight
    <2>3. CountsOK'
      BY <2>1 DEF IInv, TypeOK, CountsOK, counts
    <2>4. FlagsOK'
      BY <2>1 DEF IInv, TypeOK, FlagsOK, flight, link
    <2> QED
      BY <2>2, <2>3, <2>4
  <1>2. /\ jobs # <<>> /\ jobs' = Tail(jobs)
        /\ UNCHANGED <<announced, byHash, receiver, heard>>
    BY DEF WorkerScans, WorkerAnswers, link
  <1>3. offers' \in Seq(AllOffers)
    <2>1. CASE WorkerAnswers
      BY <2>1 DEF IInv, TypeOK, WorkOK, WorkerAnswers
    <2>2. CASE WorkerScans
      <3>1. Head(jobs).icao \in Airports /\ here \in Installations
        BY <2>2, TakenJob, KindsOfJobs DEF IInv, TypeOK, WorkOK, FlightOK, WorkerScans
      <3> QED
        BY <2>2, <3>1, OffersAreOffers DEF WorkerScans
    <2> QED
      BY <2>1, <2>2
  <1>4. /\ jobs' \in Seq(Jobs)
        /\ \A i \in DOMAIN jobs' : i + 1 \in DOMAIN jobs /\ jobs'[i] = jobs[i + 1]
    BY <1>2, TakenJob DEF IInv, TypeOK, WorkOK
  <1>5. WorkOK' /\ Awaited' \subseteq Awaited
    BY <1>2, <1>3, <1>4 DEF IInv, TypeOK, WorkOK, Awaited
  <1> QED
    BY <1>1, <1>2, <1>5, NothingNew DEF TypeOK

LEMMA AnnounceKeeps == ASSUME IInv, WorkerAnnounces PROVE IInv'
  <1>1. FlightOK' /\ CountsOK' /\ FlagsOK'
    <2>1. FlightOK'
      BY DEF IInv, TypeOK, FlightOK, WorkerAnnounces, flight
    <2>2. CountsOK'
      BY DEF IInv, TypeOK, CountsOK, WorkerAnnounces, counts
    <2>3. FlagsOK'
      BY DEF IInv, TypeOK, FlagsOK, WorkerAnnounces, flight
    <2> QED
      BY <2>1, <2>2, <2>3
  <1>2. /\ Head(offers) \in AllOffers /\ Tail(offers) \in Seq(AllOffers)
    BY HeadTailProperties DEF IInv, TypeOK, WorkOK, WorkerAnnounces
  <1>3. WorkOK'
    BY <1>2 DEF IInv, TypeOK, WorkOK, WorkerAnnounces
  <1>4. Awaited' \subseteq Awaited \union {announced'} /\ byHash' = byHash /\ announced = NoOffer
    BY DEF Awaited, WorkerAnnounces
  <1>5. Awaited \subseteq AllOffers
    BY DEF IInv, TypeOK, WorkOK, Awaited
  <1>6. \A offer \in Awaited : Entered(offer)
    BY <1>4, <1>5, NoOfferIsNone DEF IInv, Answerable
  <1> QED
    BY <1>1, <1>3, <1>4, <1>6 DEF IInv, TypeOK, Answerable, Entered

LEMMA EnterKeeps == ASSUME IInv, WorkerEnters PROVE IInv'
  <1>1. FlightOK' /\ CountsOK' /\ FlagsOK'
    <2>1. FlightOK'
      BY DEF IInv, TypeOK, FlightOK, WorkerEnters, flight, link
    <2>2. CountsOK'
      BY DEF IInv, TypeOK, CountsOK, WorkerEnters, counts
    <2>3. FlagsOK'
      BY DEF IInv, TypeOK, FlagsOK, WorkerEnters, flight, link
    <2> QED
      BY <2>1, <2>2, <2>3
  <1>2. WorkOK'
    BY DEF IInv, TypeOK, WorkOK, WorkerEnters, link
  <1>3. Awaited' \subseteq Awaited
    BY DEF Awaited, WorkerEnters, link
  <1>4. \A offer : Answerable(offer) => Entered(offer)'
    BY DEF Answerable, Entered, WorkerEnters
  <1> QED
    BY <1>1, <1>2, <1>3, <1>4 DEF IInv, TypeOK, Answerable

LEMMA TakeKeeps == ASSUME IInv, ReceiverTakes PROVE IInv'
  <1>4. FlightOK' /\ FlagsOK'
    BY DEF IInv, TypeOK, FlightOK, FlagsOK, ReceiverTakes, flight, link
  <1>5. CountsOK'
    BY Bounds DEF IInv, TypeOK, CountsOK, ReceiverTakes
  <1>1. FlightOK' /\ CountsOK' /\ FlagsOK'
    BY <1>4, <1>5
  <1>2. CASE \E offer \in heard : receiver' = <<Request(offer)>>
    <2>1. PICK offer \in heard : receiver' = <<Request(offer)>>
      BY <1>2
    <2>2. \A o : Request(o) = Request(offer) => o = offer
      BY DEF Request
    <2>3. WorkOK'
      BY <2>1, KindsOfJobs DEF IInv, TypeOK, WorkOK, ReceiverTakes, worker, link
    <2>4. Awaited' \subseteq Awaited
      BY <2>1, <2>2 DEF Awaited, ReceiverTakes, worker, link
    <2> QED
      BY <1>1, <2>3, <2>4, NothingNew DEF TypeOK, ReceiverTakes, worker
  <1>3. CASE \E icao \in Airports : receiver' = <<Scan(icao)>>
    <2>1. WorkOK'
      BY <1>3, KindsOfJobs DEF IInv, TypeOK, WorkOK, ReceiverTakes, worker, link
    <2>2. Awaited' \subseteq Awaited
      BY <1>3, KindsOfJobs DEF Awaited, ReceiverTakes, worker, link
    <2> QED
      BY <1>1, <2>1, <2>2, NothingNew DEF TypeOK, ReceiverTakes, worker
  <1> QED
    BY <1>2, <1>3 DEF ReceiverTakes

LEMMA PushKeeps == ASSUME IInv, ReceiverPushes PROVE IInv'
  <1>1. FlightOK' /\ CountsOK' /\ FlagsOK'
    <2>1. FlightOK'
      BY DEF IInv, TypeOK, FlightOK, ReceiverPushes, flight, link
    <2>2. CountsOK'
      BY DEF IInv, TypeOK, CountsOK, ReceiverPushes, counts
    <2>3. FlagsOK'
      BY DEF IInv, TypeOK, FlagsOK, ReceiverPushes, flight, link
    <2> QED
      BY <2>1, <2>2, <2>3
  <1>2. PICK job \in Jobs : receiver = <<job>>
    BY DEF IInv, TypeOK, WorkOK, ReceiverPushes
  <1>3. <<job>> \in Seq(Jobs) /\ \A j \in DOMAIN <<job>> : <<job>>[j] = job
    OBVIOUS
  <1>4. /\ jobs' \in Seq(Jobs)
        /\ \A i \in DOMAIN jobs' : jobs'[i] = job \/ \E j \in DOMAIN jobs : jobs'[i] = jobs[j]
    <2>1. jobs' = Push(jobs, <<job>>) /\ jobs \in Seq(Jobs)
      BY <1>2 DEF IInv, TypeOK, WorkOK, ReceiverPushes
    <2>2. /\ Push(jobs, <<job>>) \in Seq(Jobs)
          /\ \A i \in DOMAIN Push(jobs, <<job>>) :
               \/ \E j \in DOMAIN jobs : Push(jobs, <<job>>)[i] = jobs[j]
               \/ \E j \in DOMAIN <<job>> : Push(jobs, <<job>>)[i] = <<job>>[j]
      BY <1>3, <2>1, QueuedJobs
    <2> QED
      BY <1>3, <2>1, <2>2
  <1>5. WorkOK'
    BY <1>4 DEF IInv, TypeOK, WorkOK, ReceiverPushes, link
  <1>6. Awaited' \subseteq Awaited
    BY <1>2, <1>4 DEF Awaited, ReceiverPushes, link
  <1> QED
    BY <1>1, <1>5, <1>6, NothingNew DEF TypeOK, ReceiverPushes

LEMMA PushIntoNothingKeeps == ASSUME IInv, ReceiverPushesIntoNothing PROVE IInv'
  <1>1. FlightOK' /\ CountsOK' /\ FlagsOK'
    <2>1. FlightOK'
      BY DEF IInv, TypeOK, FlightOK, ReceiverPushesIntoNothing, flight, link
    <2>2. CountsOK'
      BY DEF IInv, TypeOK, CountsOK, ReceiverPushesIntoNothing, counts
    <2>3. FlagsOK'
      BY DEF IInv, TypeOK, FlagsOK, ReceiverPushesIntoNothing, flight, link
    <2> QED
      BY <2>1, <2>2, <2>3
  <1>2. WorkOK' /\ Awaited' \subseteq Awaited
    BY DEF IInv, TypeOK, WorkOK, Awaited, ReceiverPushesIntoNothing, worker, link
  <1> QED
    BY <1>1, <1>2, NothingNew DEF TypeOK, ReceiverPushesIntoNothing, worker

LEMMA StepInvariant == IInv /\ [Next]_vars => IInv'
  <1> SUFFICES ASSUME IInv, [Next]_vars PROVE IInv'
    OBVIOUS
  <1>1. CASE Loop
    BY <1>1, CheckKeeps, RetryKeeps DEF Loop
  <1>2. CASE WorkerStep
    BY <1>2, WorkerTakesKeeps, AnnounceKeeps, EnterKeeps, ClockKeeps DEF WorkerStep
  <1>3. CASE Tick \/ Fly \/ Drop \/ Connect \/ StopWorker \/ StopSink
    BY <1>3, ClockKeeps, DropKeeps
  <1>4. CASE ReceiverTakes \/ Receive
    BY <1>4, TakeKeeps, PushKeeps, PushIntoNothingKeeps DEF Receive
  <1>5. CASE UNCHANGED vars
    <2>1. FlightOK'
      BY <1>5 DEF vars, flight, IInv, TypeOK, FlightOK
    <2>2. CountsOK'
      BY <1>5 DEF vars, counts, IInv, TypeOK, CountsOK
    <2>3. WorkOK' /\ Awaited' = Awaited
      BY <1>5 DEF vars, worker, link, IInv, TypeOK, WorkOK, Awaited
    <2>4. FlagsOK'
      BY <1>5 DEF vars, flight, link, IInv, TypeOK, FlagsOK
    <2>5. announced' = announced /\ byHash' = byHash
      BY <1>5 DEF vars, worker
    <2> QED
      BY <2>1, <2>2, <2>3, <2>4, <2>5, NothingNew DEF TypeOK
  <1> QED
    BY <1>1, <1>2, <1>3, <1>4, <1>5 DEF Next

LEMMA Invariance == Spec => []IInv
  BY InitInvariant, StepInvariant, PTL DEF Spec

\* Every variable of the navdata's supply keeps its type.
THEOREM TypeCorrect == Spec => []TypeOK
  <1>1. IInv => TypeOK
    BY DEF IInv
  <1> QED
    BY <1>1, Invariance, PTL

\* Announcing a hash before the text is entered under it harms nobody, because
\* one worker does both and answers: every request it comes to, and every text
\* the console has heard of, is there (NavdataPublisher::offer, NavdataWorker).
THEOREM RequestsAreAnswerable == Spec => []AnnouncedIsAnswerable
  <1>1. ASSUME IInv PROVE AnnouncedIsAnswerable
    <2>1. ASSUME NEW i \in DOMAIN jobs, jobs[i].kind = "request", Idle
          PROVE  Entered(jobs[i].about)
      <3>1. jobs[i] \in Jobs
        BY <1>1, <2>1, ElementOfSeq DEF IInv, TypeOK, WorkOK
      <3>2. jobs[i].about \in AllOffers /\ jobs[i] = Request(jobs[i].about)
        BY <2>1, <3>1, KindsOfJobs
      <3>3. jobs[i].about \in Awaited
        BY <3>2 DEF Awaited
      <3> QED
        BY <1>1, <2>1, <3>2, <3>3, NoOfferIsNone DEF IInv, Answerable, Idle
    <2>2. \A offer \in heard : Entered(offer) \/ offer = announced
      BY <1>1 DEF IInv, Awaited, Answerable
    <2> QED
      BY <2>1, <2>2 DEF AnnouncedIsAnswerable
  <1> QED
    BY <1>1, Invariance, PTL

\* Of every apt.dat the plugin takes the airport's region, each airport of it
\* whole and none besides, in the file's order, and of each kind of fix file the
\* first copy that has something around the airport, whatever the files are
\* (scan_airport_blocks, extract_regional_airport_blocks, publish_fixes).
THEOREM TextsAreTaken == Spec => []TextsAreTheRegion
  <1>1. \A install : IsInstallation(install) => WellTaken(install)
    BY RegionIsTaken, FixesAreTaken DEF WellTaken
  <1>2. WellTakenSamples
    BY <1>1, NavdataAssumption DEF NavdataAssumption, WellTakenSamples
  <1>3. WellTakenHere = Installations
    BY <1>1, NavdataAssumption DEF NavdataAssumption, WellTakenHere, Installations
  <1>4. TypeOK => TextsAreTheRegion
    BY <1>2, <1>3 DEF TypeOK, FlightOK, TextsAreTheRegion
  <1> QED
    BY <1>4, TypeCorrect, PTL
=============================================================================
