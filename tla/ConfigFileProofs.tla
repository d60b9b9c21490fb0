-------------------------- MODULE ConfigFileProofs --------------------------
(***************************************************************************)
(* Theorems about ConfigFile, for any words, any files and lines the pilot *)
(* may write, and any number of starts, saves, edits and failures.         *)
(***************************************************************************)
EXTENDS ConfigFile, WellFoundedInduction, SequenceTheorems, FiniteSetTheorems, TLAPS

Saving == {"write", "remove", "rename"}

Files == [there : BOOLEAN, text : Seq(Line)]

Fields == {"host", "port", "path", "auth_token", "client_id", "simbrief_id"}

IsEndpoint(value) == value = [field \in Fields |-> value[field]]

\* The part of the type invariant that the file's story needs.
FilesOK ==
    /\ disk \in Files /\ temp \in Files
    /\ job.read \in Seq(Line) /\ job.text \in Seq(Line)
    /\ edits \in Nat /\ starts \in Nat
    /\ IsEndpoint(endpoint) /\ ignored \in BOOLEAN
    /\ saved \in [PanelKeys -> SUBSET Seq(Words)]

\* What the plugin is about to write is the text it read with one value in it,
\* and what it is about to put in the file's place is all of that.
SaveInHand ==
    /\ pc \in Saving =>
         /\ job.key \in PanelKeys /\ job.value \in Seq(Words)
         /\ job.text = Upsert(job.read, job.key, job.value)
    /\ pc \in {"remove", "rename"} => temp = File(job.text)
    /\ pc = "remove" => windows

IInv == FilesOK /\ SaveInHand
-----------------------------------------------------------------------------
(* The text. *)

\* The live lines that assign a value by any of the keys.
SaidBy(text, keys) ==
    {i \in DOMAIN text :
        ~text[i].commented /\ text[i].separator # "" /\ ToLower(text[i].key) \in keys}

\* The one live line by which the file says the value of a key of the panel.
SaysOnly(text, key, value) ==
    \E i \in DOMAIN text :
        /\ SaidBy(text, Aliases(key)) = {i}
        /\ text[i] = Assignment(key, value)

LEMMA FirstOfIsOne ==
    ASSUME NEW places \in SUBSET Nat, places # {}
    PROVE  FirstOf(places) \in places /\ \A j \in places : FirstOf(places) <= j
  <1>1. PICK i \in places : \A j \in places : <<j, i>> \notin OpToRel(<, Nat)
    BY NatLessThanWellFounded, WFMin
  <1>2. \A j \in places : ~(j < i)
    BY <1>1, Zenon DEF OpToRel
  <1>3. \A j \in places : i <= j
    BY <1>2
  <1> QED
    BY <1>3 DEF FirstOf

LEMMA LastOfSome ==
    ASSUME NEW n \in Nat, NEW places \in SUBSET (0..n), places # {}
    PROVE  \E i \in places : \A j \in places : j <= i
  <1> DEFINE gaps == {n - i : i \in places}
  <1>1. \A i \in places : i \in Int /\ n - i \in Nat
    OBVIOUS
  <1>2. gaps \in SUBSET Nat
    BY <1>1
  <1>3. gaps # {}
    OBVIOUS
  <1>4. FirstOf(gaps) \in gaps /\ \A gap \in gaps : FirstOf(gaps) <= gap
    BY <1>2, <1>3, FirstOfIsOne
  <1>5. PICK i \in places : FirstOf(gaps) = n - i
    BY <1>4
  <1>6. \A j \in places : n - i <= n - j
    BY <1>4, <1>5
  <1>7. \A j \in places : j <= i
    BY <1>1, <1>6
  <1> QED
    BY <1>7

\* What no step from the i-th to the n-th changes is the same after them.
LEMMA StaysTheSame ==
    ASSUME NEW n \in Nat, NEW i \in 0..n, NEW f,
           \A m \in (i + 1)..n : f[m] = f[m - 1]
    PROVE  f[n] = f[i]
  <1> DEFINE changed == {m \in i..n : f[m] # f[i]}
  <1> SUFFICES ASSUME changed # {} PROVE FALSE
    OBVIOUS
  <1>1. changed \in SUBSET Nat
    OBVIOUS
  <1>2. FirstOf(changed) \in changed /\ \A m \in changed : FirstOf(changed) <= m
    BY <1>1, FirstOfIsOne
  <1>3. PICK m \in i..n : f[m] # f[i] /\ \A k \in i..n : f[k] # f[i] => m <= k
    BY <1>2
  <1>4. m # i
    BY <1>3
  <1>5. m - 1 \in i..n /\ ~(m <= m - 1)
    BY <1>4
  <1>6. f[m - 1] = f[i]
    BY <1>3, <1>5
  <1>7. m \in (i + 1)..n
    BY <1>4
  <1> QED
    BY <1>3, <1>6, <1>7

LEMMA TargetLineIsALine ==
    ASSUME NEW text \in Seq(Line), NEW key
    PROVE  TargetLine(text, key) \in {0} \union DOMAIN text
  <1>1. DOMAIN text \subseteq Nat
    OBVIOUS
  <1>2. LiveLines(text, key) \subseteq DOMAIN text /\ CommentedLines(text, key) \subseteq DOMAIN text
    BY DEF LiveLines, CommentedLines
  <1> QED
    BY <1>1, <1>2, FirstOfIsOne DEF TargetLine

LEMMA AssignmentIsALine ==
    ASSUME NEW key \in Words, NEW value \in Seq(Words)
    PROVE  Assignment(key, value) \in Line
  BY DEF Assignment, Line

LEMMA AppendingIsOneLine ==
    ASSUME NEW text \in Seq(Line), NEW line \in Line
    PROVE  /\ Append(text, line) \in Seq(Line)
           /\ OneLineDiffers(text, Append(text, line))
  <1> DEFINE new == Append(text, line)
  <1>1. new \in Seq(Line) /\ Len(text) + 1 \in DOMAIN new /\ new[Len(text) + 1] = line
    OBVIOUS
  <1> QED
    BY <1>1 DEF OneLineDiffers

\* upsert_config_value adds a line or rewrites one.
LEMMA UpsertIsOneLine ==
    ASSUME NEW text \in Seq(Line), NEW key \in Words, NEW value \in Seq(Words)
    PROVE  /\ Upsert(text, key, value) \in Seq(Line)
           /\ OneLineDiffers(text, Upsert(text, key, value))
  <1> DEFINE line == Assignment(key, value)
             i    == TargetLine(text, key)
             new  == [text EXCEPT ![i] = line]
  <1>1. line \in Line
    BY AssignmentIsALine
  <1>2. CASE i = 0
    BY <1>1, <1>2, AppendingIsOneLine DEF Upsert
  <1>3. CASE i \in DOMAIN text
    <2>1. new \in Seq(Line) /\ DOMAIN new = DOMAIN text /\ new[i] = line
      BY <1>1, <1>3
    <2>2. OneLineDiffers(text, new)
      BY <1>3, <2>1 DEF OneLineDiffers
    <2>3. Upsert(text, key, value) = new
      BY <1>3 DEF Upsert
    <2> QED
      BY <2>1, <2>2, <2>3
  <1> QED
    BY <1>2, <1>3, TargetLineIsALine

LEMMA CommentIsALine ==
    ASSUME NEW key \in Words, NEW value \in Seq(Words)
    PROVE  Comment(key, value) \in Line
  <1>1. Assignment(key, value) \in Line
    BY AssignmentIsALine
  <1> QED
    BY <1>1 DEF Comment, Line

LEMMA TemplateIsText ==
    Template \in Seq(Line) /\ SubSeq(Template, 1, 1) \in Seq(Line) /\ <<>> \in Seq(Line)
  <1>1. /\ <<"ws", "://", "127.0.0.1", ":", "8765", "/", "plugin">> \in Seq(Words)
        /\ <<"your-shared-secret">> \in Seq(Words)
        /\ <<"0123456789abcdef">> \in Seq(Words)
        /\ <<"your-simbrief-id">> \in Seq(Words)
    BY WordsAssumption DEF OwnWords
  <1>2. {"url", "token", "client_id", "simbrief_id"} \subseteq Words
    BY WordsAssumption DEF OwnWords
  <1>3. /\ Comment("url", <<"ws", "://", "127.0.0.1", ":", "8765", "/", "plugin">>) \in Line
        /\ Comment("token", <<"your-shared-secret">>) \in Line
        /\ Comment("client_id", <<"0123456789abcdef">>) \in Line
        /\ Comment("simbrief_id", <<"your-simbrief-id">>) \in Line
    BY <1>1, <1>2, CommentIsALine
  <1>4. ASSUME NEW a \in Line, NEW b \in Line, NEW c \in Line, NEW d \in Line
        PROVE  <<a, b, c, d>> \in Seq(Line) /\ Len(<<a, b, c, d>>) = 4
    OBVIOUS
  <1>5. Template \in Seq(Line) /\ Len(Template) = 4
    BY <1>3, <1>4 DEF Template
  <1> QED
    BY <1>5

LEMMA IdentityIsALine ==
    ASSUME NEW n \in Nat
    PROVE  /\ Assignment("client_id", ClientId(n)) \in Line
           /\ Assignment("client_id", CutShort(ClientId(n))) \in Line
  <1>1. {"f", "cut", "client_id"} \subseteq Words
    BY WordsAssumption DEF OwnWords
  <1>2. ClientId(n) \in Seq(Words)
    BY <1>1 DEF ClientId
  <1>3. <<"cut">> \in Seq(Words)
    BY <1>1
  <1>4. CutShort(ClientId(n)) \in Seq(Words)
    BY <1>2, <1>3, ConcatProperties DEF CutShort
  <1> QED
    BY <1>1, <1>2, <1>4, AssignmentIsALine
-----------------------------------------------------------------------------
(* What the file says. *)

\* A reading of the first m lines: what is said after each of them.
IsReading(said, text, base, m) ==
    said = [n \in 0..m |-> IF n = 0 THEN base ELSE ApplyLine(said[n - 1], text[n])]

LEMMA ReadingGoesOn ==
    ASSUME NEW text, NEW base, NEW m \in Nat, m > 0,
           NEW said, IsReading(said, text, base, m - 1)
    PROVE  \E longer : IsReading(longer, text, base, m)
  <1> DEFINE longer == [n \in 0..m |-> IF n = m THEN ApplyLine(said[m - 1], text[m]) ELSE said[n]]
  <1>1. ASSUME NEW n \in 0..m
        PROVE  longer[n] = IF n = 0 THEN base ELSE ApplyLine(longer[n - 1], text[n])
    <2>1. CASE n = m
      BY <2>1
    <2>2. CASE n # m
      <3>1. n \in 0..(m - 1) /\ (n # 0 => n - 1 \in 0..m /\ n - 1 # m)
        BY <2>2
      <3>2. said[n] = IF n = 0 THEN base ELSE ApplyLine(said[n - 1], text[n])
        BY <3>1 DEF IsReading
      <3> QED
        BY <2>2, <3>1, <3>2
    <2> QED
      BY <2>1, <2>2
  <1>2. longer = [n \in 0..m |-> IF n = 0 THEN base ELSE ApplyLine(longer[n - 1], text[n])]
    BY <1>1
  <1> HIDE DEF longer
  <1>3. IsReading(longer, text, base, m)
    BY <1>2 DEF IsReading
  <1> QED
    BY <1>3

LEMMA ReadingExists ==
    ASSUME NEW text, NEW base, NEW m \in Nat
    PROVE  \E said : IsReading(said, text, base, m)
  <1> DEFINE unread == {n \in Nat : ~\E said : IsReading(said, text, base, n)}
  <1> SUFFICES ASSUME unread # {} PROVE FALSE
    OBVIOUS
  <1>1. FirstOf(unread) \in unread /\ \A n \in unread : FirstOf(unread) <= n
    BY FirstOfIsOne
  <1>2. PICK n \in Nat : /\ ~\E said : IsReading(said, text, base, n)
                         /\ \A k \in Nat : (~\E said : IsReading(said, text, base, k)) => n <= k
    BY <1>1
  <1>3. CASE n = 0
    <2> DEFINE said == [k \in 0..0 |-> base]
    <2>1. said = [k \in 0..0 |-> IF k = 0 THEN base ELSE ApplyLine(said[k - 1], text[k])]
      OBVIOUS
    <2> HIDE DEF said
    <2>2. IsReading(said, text, base, 0)
      BY <2>1 DEF IsReading
    <2> QED
      BY <1>2, <1>3, <2>2
  <1>4. CASE n > 0
    <2>1. n - 1 \in Nat /\ ~(n <= n - 1)
      BY <1>4
    <2>2. PICK said : IsReading(said, text, base, n - 1)
      BY <1>2, <2>1
    <2> QED
      BY <1>2, <1>4, <2>2, ReadingGoesOn
  <1> QED
    BY <1>3, <1>4

Reading(text, base) == CHOOSE said : IsReading(said, text, base, Len(text))

LEMMA TextIsRead ==
    ASSUME NEW text, NEW base, Len(text) \in Nat
    PROVE  /\ ApplyConfigText(text, base) = Reading(text, base)[Len(text)]
           /\ Reading(text, base)[0] = base
           /\ \A n \in 1..Len(text) :
                Reading(text, base)[n] = ApplyLine(Reading(text, base)[n - 1], text[n])
  <1>1. IsReading(Reading(text, base), text, base, Len(text))
    BY ReadingExists DEF Reading
  <1>2. ApplyConfigText(text, base) = Reading(text, base)[Len(text)]
    BY DEF ApplyConfigText, IsReading, Reading
  <1> QED
    BY <1>1, <1>2 DEF IsReading

Assigns(line, keys) == ~line.commented /\ line.separator # "" /\ ToLower(line.key) \in keys

LEMMA UrlIsSomething == ~ParseUrl(<<>>).ok
  <1>1. Find(<<>>, "://", 1) = 0
    BY DEF Find
  <1>2. WithoutScheme(<<>>).rest = <<>>
    BY <1>1 DEF WithoutScheme
  <1>3. ParseUrl(<<>>) = Refused
    BY <1>2 DEF ParseUrl
  <1> QED
    BY <1>3 DEF Refused

\* apply_config_text's line: each key has its own field, and touches no other.
LEMMA LineSays ==
    ASSUME NEW said, IsEndpoint(said), NEW line
    PROVE  /\ IsEndpoint(ApplyLine(said, line))
           /\ ApplyLine(said, line).auth_token =
                IF Assigns(line, TokenKeys) THEN line.value ELSE said.auth_token
           /\ ApplyLine(said, line).client_id =
                IF Assigns(line, {"client_id"}) THEN line.value ELSE said.client_id
           /\ ApplyLine(said, line).simbrief_id =
                IF Assigns(line, PilotKeys) THEN line.value ELSE said.simbrief_id
           /\ ApplyLine(said, line).host =
                IF Assigns(line, UrlKeys) THEN ParseUrl(line.value).host ELSE said.host
  <1> DEFINE key    == ToLower(line.key)
             parsed == ParseUrl(line.value)
             silent == line.commented \/ line.separator = ""
  <1>1. ApplyLine(said, line) =
          IF silent THEN said
          ELSE IF key \in UrlKeys
               THEN [said EXCEPT !.host = parsed.host, !.port = parsed.port, !.path = parsed.path]
          ELSE IF key \in TokenKeys THEN [said EXCEPT !.auth_token = line.value]
          ELSE IF key = "client_id" THEN [said EXCEPT !.client_id = line.value]
          ELSE IF key \in PilotKeys THEN [said EXCEPT !.simbrief_id = line.value]
          ELSE said
    BY DEF ApplyLine
  <1>2. \A keys : Assigns(line, keys) <=> (~silent /\ key \in keys)
    BY DEF Assigns
  <1> HIDE DEF key, parsed, silent
  <1>3. CASE ~silent /\ key \in UrlKeys
    <2>1. ApplyLine(said, line) =
            [said EXCEPT !.host = parsed.host, !.port = parsed.port, !.path = parsed.path]
      BY <1>1, <1>3
    <2>2. /\ IsEndpoint(ApplyLine(said, line))
          /\ ApplyLine(said, line).host = parsed.host
          /\ ApplyLine(said, line).auth_token = said.auth_token
          /\ ApplyLine(said, line).client_id = said.client_id
          /\ ApplyLine(said, line).simbrief_id = said.simbrief_id
      BY <2>1 DEF IsEndpoint, Fields
    <2>3. key \notin TokenKeys /\ key # "client_id" /\ key \notin PilotKeys
      BY <1>3 DEF UrlKeys, TokenKeys, PilotKeys
    <2> QED
      BY <1>2, <1>3, <2>2, <2>3 DEF parsed
  <1>4. CASE ~silent /\ key \in TokenKeys
    <2>1. key \notin UrlKeys /\ key # "client_id" /\ key \notin PilotKeys
      BY <1>4 DEF UrlKeys, TokenKeys, PilotKeys
    <2>2. ApplyLine(said, line) = [said EXCEPT !.auth_token = line.value]
      BY <1>1, <1>4, <2>1
    <2>3. /\ IsEndpoint(ApplyLine(said, line))
          /\ ApplyLine(said, line).auth_token = line.value
          /\ ApplyLine(said, line).host = said.host
          /\ ApplyLine(said, line).client_id = said.client_id
          /\ ApplyLine(said, line).simbrief_id = said.simbrief_id
      BY <2>2 DEF IsEndpoint, Fields
    <2> QED
      BY <1>2, <1>4, <2>1, <2>3
  <1>5. CASE ~silent /\ key = "client_id"
    <2>1. key \notin UrlKeys /\ key \notin TokenKeys /\ key \notin PilotKeys
      BY <1>5 DEF UrlKeys, TokenKeys, PilotKeys
    <2>2. ApplyLine(said, line) = [said EXCEPT !.client_id = line.value]
      BY <1>1, <1>5, <2>1
    <2>3. /\ IsEndpoint(ApplyLine(said, line))
          /\ ApplyLine(said, line).client_id = line.value
          /\ ApplyLine(said, line).host = said.host
          /\ ApplyLine(said, line).auth_token = said.auth_token
          /\ ApplyLine(said, line).simbrief_id = said.simbrief_id
      BY <2>2 DEF IsEndpoint, Fields
    <2> QED
      BY <1>2, <1>5, <2>1, <2>3
  <1>6. CASE ~silent /\ key \in PilotKeys
    <2>1. key \notin UrlKeys /\ key \notin TokenKeys /\ key # "client_id"
      BY <1>6 DEF UrlKeys, TokenKeys, PilotKeys
    <2>2. ApplyLine(said, line) = [said EXCEPT !.simbrief_id = line.value]
      BY <1>1, <1>6, <2>1
    <2>3. /\ IsEndpoint(ApplyLine(said, line))
          /\ ApplyLine(said, line).simbrief_id = line.value
          /\ ApplyLine(said, line).host = said.host
          /\ ApplyLine(said, line).auth_token = said.auth_token
          /\ ApplyLine(said, line).client_id = said.client_id
      BY <2>2 DEF IsEndpoint, Fields
    <2> QED
      BY <1>2, <1>6, <2>1, <2>3
  <1>7. CASE silent \/ key \notin UrlKeys \union TokenKeys \union PilotKeys \union {"client_id"}
    BY <1>1, <1>2, <1>7
  <1> QED
    BY <1>3, <1>4, <1>5, <1>6, <1>7

LEMMA DefaultIsEndpoint == IsEndpoint(DefaultEndpoint)
  BY DEF IsEndpoint, Fields, DefaultEndpoint

LEMMA LastValueIsSaid ==
    ASSUME NEW text \in Seq(Line), NEW keys
    PROVE  /\ SaidBy(text, keys) \in SUBSET (0..Len(text))
           /\ SaidBy(text, keys) = {} => LastValue(text, keys) = <<>>
           /\ \A i \in SaidBy(text, keys) :
                (\A j \in SaidBy(text, keys) : j <= i) => LastValue(text, keys) = text[i].value
  <1> DEFINE lines == UNION {LiveLines(text, key) : key \in keys}
  <1>1. lines = SaidBy(text, keys)
    <2>1. ASSUME NEW i
          PROVE  i \in lines <=> i \in SaidBy(text, keys)
      <3>1. i \in lines <=> \E key \in keys : i \in LiveLines(text, key)
        OBVIOUS
      <3>2. \A key : i \in LiveLines(text, key) <=>
               /\ i \in DOMAIN text /\ ~text[i].commented
               /\ text[i].separator # "" /\ ToLower(text[i].key) = key
        BY DEF LiveLines, AssignsKey
      <3>3. i \in SaidBy(text, keys) <=>
               /\ i \in DOMAIN text /\ ~text[i].commented
               /\ text[i].separator # "" /\ ToLower(text[i].key) \in keys
        BY DEF SaidBy
      <3> HIDE DEF lines
      <3> QED
        BY <3>1, <3>2, <3>3
    <2> HIDE DEF lines
    <2> QED
      BY <2>1
  <1>2. SaidBy(text, keys) \in SUBSET (0..Len(text))
    <2>1. SaidBy(text, keys) \subseteq DOMAIN text
      BY DEF SaidBy
    <2>2. DOMAIN text = 1..Len(text) /\ Len(text) \in Nat
      OBVIOUS
    <2> QED
      BY <2>1, <2>2
  <1>3. (\A key \in keys : LiveLines(text, key) = {}) <=> lines = {}
    OBVIOUS
  <1>4. LastValue(text, keys) =
          IF lines = {} THEN <<>> ELSE text[CHOOSE i \in lines : \A j \in lines : i >= j].value
    BY <1>3 DEF LastValue, LastOf
  <1> HIDE DEF lines
  <1>5. ASSUME NEW i \in SaidBy(text, keys), \A j \in SaidBy(text, keys) : j <= i
        PROVE  LastValue(text, keys) = text[i].value
    <2> DEFINE last == CHOOSE k \in lines : \A j \in lines : k >= j
    <2>1. i \in lines /\ \A j \in lines : i >= j
      BY <1>1, <1>2, <1>5
    <2>2. last \in lines /\ \A j \in lines : last >= j
      BY <2>1
    <2>3. last = i
      <3> HIDE DEF last
      <3>1. last \in Int /\ i \in Int
        BY <1>1, <1>2, <1>5, <2>2
      <3> QED
        BY <2>1, <2>2, <3>1
    <2> QED
      BY <1>4, <2>1, <2>3
  <1> QED
    BY <1>1, <1>2, <1>4, <1>5

\* A field that each of some lines replaces, and no other, ends up as the last
\* of them says.
Follows(field, lines, given, n) ==
    \A m \in 1..n : field[m] = IF m \in lines THEN given[m] ELSE field[m - 1]

EndsAsLast(field, lines, given, n) ==
    /\ lines = {} => field[n] = field[0]
    /\ \A i \in lines : (\A j \in lines : j <= i) => field[n] = given[i]

LEMMA LastOneIsSaid ==
    ASSUME NEW n, NEW lines, NEW given, NEW field, n \in Nat, lines \subseteq 1..n,
           Follows(field, lines, given, n)
    PROVE  EndsAsLast(field, lines, given, n)
  <1>1. ASSUME lines = {} PROVE field[n] = field[0]
    <2>1. \A m \in (0 + 1)..n : field[m] = field[m - 1]
      BY <1>1 DEF Follows
    <2>2. 0 \in 0..n
      OBVIOUS
    <2> QED
      BY <2>1, <2>2, StaysTheSame
  <1>2. ASSUME NEW i \in lines, \A j \in lines : j <= i
        PROVE  field[n] = given[i]
    <2>1. i \in 0..n /\ i \in 1..n
      OBVIOUS
    <2>2. \A m \in (i + 1)..n : m \in 1..n /\ m \notin lines
      BY <1>2, <2>1
    <2>3. \A m \in (i + 1)..n : field[m] = field[m - 1]
      BY <2>2 DEF Follows
    <2>4. field[n] = field[i]
      BY <2>1, <2>3, StaysTheSame
    <2> QED
      BY <2>1, <2>4 DEF Follows
  <1> QED
    BY <1>1, <1>2 DEF EndsAsLast

LEMMA EndpointsOnTheWay ==
    ASSUME NEW text, NEW n \in Nat, NEW said, IsEndpoint(said[0]),
           \A m \in 1..n : said[m] = ApplyLine(said[m - 1], text[m])
    PROVE  \A m \in 0..n : IsEndpoint(said[m])
  <1> DEFINE broken == {m \in 0..n : ~IsEndpoint(said[m])}
  <1> SUFFICES ASSUME broken # {} PROVE FALSE
    OBVIOUS
  <1>1. broken \in SUBSET Nat
    OBVIOUS
  <1>2. FirstOf(broken) \in broken /\ \A m \in broken : FirstOf(broken) <= m
    BY <1>1, FirstOfIsOne
  <1>3. PICK m \in 0..n : ~IsEndpoint(said[m]) /\ \A k \in 0..n : ~IsEndpoint(said[k]) => m <= k
    BY <1>2
  <1>4. m # 0
    BY <1>3
  <1>5. m \in 1..n /\ m - 1 \in 0..n /\ ~(m <= m - 1)
    BY <1>4
  <1> HIDE DEF broken
  <1>6. IsEndpoint(said[m - 1])
    BY <1>3, <1>5
  <1>7. IsEndpoint(ApplyLine(said[m - 1], text[m]))
    BY ONLY <1>6, LineSays
  <1> QED
    BY <1>3, <1>5, <1>7

\* apply_config_text: what a file says is the last live line of each key, in
\* whatever order the keys come.
LEMMA FileSays ==
    ASSUME NEW text \in Seq(Line)
    PROVE  LET said == ApplyConfigText(text, DefaultEndpoint)
           IN /\ IsEndpoint(said)
              /\ said.auth_token = LastValue(text, TokenKeys)
              /\ said.client_id = LastValue(text, {"client_id"})
              /\ said.simbrief_id = LastValue(text, PilotKeys)
              /\ Accepted(text) =>
                   said.host = IF LastValue(text, UrlKeys) = <<>> THEN DefaultEndpoint.host
                               ELSE ParseUrl(LastValue(text, UrlKeys)).host
  <1> DEFINE n == Len(text)
  <1>1. n \in Nat /\ DOMAIN text = 1..n
    OBVIOUS
  <1> DEFINE said == Reading(text, DefaultEndpoint)
  <1>2. /\ ApplyConfigText(text, DefaultEndpoint) = said[n]
        /\ said[0] = DefaultEndpoint
        /\ \A m \in 1..n : said[m] = ApplyLine(said[m - 1], text[m])
    BY <1>1, TextIsRead
  <1> HIDE DEF said
  <1>3. \A m \in 0..n : IsEndpoint(said[m])
    BY <1>1, <1>2, DefaultIsEndpoint, EndpointsOnTheWay
  <1>4. \A keys : \A m \in 1..n : m \in SaidBy(text, keys) <=> Assigns(text[m], keys)
    BY <1>1 DEF SaidBy, Assigns
  <1>5. \A keys : SaidBy(text, keys) \in SUBSET (1..n)
    BY <1>1 DEF SaidBy
  <1>6. \A m \in 1..n : m - 1 \in 0..n
    BY <1>1
  <1> DEFINE value == [m \in 1..n |-> text[m].value]
  <1>7. \A keys :
          /\ SaidBy(text, keys) = {} => LastValue(text, keys) = <<>>
          /\ SaidBy(text, keys) # {} =>
               \E i \in SaidBy(text, keys) :
                  (\A j \in SaidBy(text, keys) : j <= i) /\ LastValue(text, keys) = value[i]
    <2> TAKE keys
    <2>1. SaidBy(text, keys) \in SUBSET (0..n)
      BY LastValueIsSaid
    <2>2. SaidBy(text, keys) # {} =>
            \E i \in SaidBy(text, keys) : \A j \in SaidBy(text, keys) : j <= i
      BY <1>1, <2>1, LastOfSome
    <2>3. \A i \in SaidBy(text, keys) : value[i] = text[i].value
      BY <1>5
    <2> QED
      BY <2>2, <2>3, LastValueIsSaid
  <1> HIDE DEF n, value
  <1>8. ASSUME NEW keys, NEW field,
               field[0] = <<>>,
               Follows(field, SaidBy(text, keys), value, n)
        PROVE  field[n] = LastValue(text, keys)
    <2>1. n \in Nat /\ SaidBy(text, keys) \subseteq 1..n
      BY <1>1, <1>5
    <2>2. Follows(field, SaidBy(text, keys), value, n)
      BY <1>8
    <2>3. EndsAsLast(field, SaidBy(text, keys), value, n)
      BY ONLY <2>1, <2>2, LastOneIsSaid
    <2> QED
      BY <1>7, <1>8, <2>3 DEF EndsAsLast
  <1>9. IsEndpoint(said[n])
    BY <1>1, <1>3
  <1>10. \A m \in 1..n : value[m] = text[m].value
    BY DEF value
  <1>11. \A m \in 1..n :
           /\ said[m].auth_token =
                IF m \in SaidBy(text, TokenKeys) THEN value[m] ELSE said[m - 1].auth_token
           /\ said[m].client_id =
                IF m \in SaidBy(text, {"client_id"}) THEN value[m] ELSE said[m - 1].client_id
           /\ said[m].simbrief_id =
                IF m \in SaidBy(text, PilotKeys) THEN value[m] ELSE said[m - 1].simbrief_id
           /\ said[m].host =
                IF m \in SaidBy(text, UrlKeys) THEN ParseUrl(value[m]).host ELSE said[m - 1].host
    <2> TAKE m \in 1..n
    <2>1. IsEndpoint(said[m - 1])
      BY <1>3, <1>6
    <2>2. said[m] = ApplyLine(said[m - 1], text[m])
      BY <1>2
    <2>3. /\ said[m].auth_token =
                IF Assigns(text[m], TokenKeys) THEN text[m].value ELSE said[m - 1].auth_token
          /\ said[m].client_id =
                IF Assigns(text[m], {"client_id"}) THEN text[m].value ELSE said[m - 1].client_id
          /\ said[m].simbrief_id =
                IF Assigns(text[m], PilotKeys) THEN text[m].value ELSE said[m - 1].simbrief_id
          /\ said[m].host =
                IF Assigns(text[m], UrlKeys) THEN ParseUrl(text[m].value).host ELSE said[m - 1].host
      <3>1. /\ ApplyLine(said[m - 1], text[m]).auth_token =
                  IF Assigns(text[m], TokenKeys) THEN text[m].value ELSE said[m - 1].auth_token
            /\ ApplyLine(said[m - 1], text[m]).client_id =
                  IF Assigns(text[m], {"client_id"}) THEN text[m].value ELSE said[m - 1].client_id
            /\ ApplyLine(said[m - 1], text[m]).simbrief_id =
                  IF Assigns(text[m], PilotKeys) THEN text[m].value ELSE said[m - 1].simbrief_id
            /\ ApplyLine(said[m - 1], text[m]).host =
                  IF Assigns(text[m], UrlKeys) THEN ParseUrl(text[m].value).host ELSE said[m - 1].host
        BY ONLY <2>1, LineSays, Zenon
      <3> QED
        BY <2>2, <3>1, Zenon
    <2> QED
      BY <1>4, <1>10, <2>3
  <1>12. said[n].auth_token = LastValue(text, TokenKeys)
    <2> DEFINE field == [m \in 0..n |-> said[m].auth_token]
    <2>1. field[0] = <<>> /\ field[n] = said[n].auth_token
      BY <1>1, <1>2 DEF DefaultEndpoint
    <2>2. Follows(field, SaidBy(text, TokenKeys), value, n)
      BY <1>1, <1>6, <1>11 DEF Follows
    <2> HIDE DEF field
    <2> QED
      BY <1>8, <2>1, <2>2
  <1>13. said[n].client_id = LastValue(text, {"client_id"})
    <2> DEFINE field == [m \in 0..n |-> said[m].client_id]
    <2>1. field[0] = <<>> /\ field[n] = said[n].client_id
      BY <1>1, <1>2 DEF DefaultEndpoint
    <2>2. Follows(field, SaidBy(text, {"client_id"}), value, n)
      BY <1>1, <1>6, <1>11 DEF Follows
    <2> HIDE DEF field
    <2> QED
      BY <1>8, <2>1, <2>2
  <1>14. said[n].simbrief_id = LastValue(text, PilotKeys)
    <2> DEFINE field == [m \in 0..n |-> said[m].simbrief_id]
    <2>1. field[0] = <<>> /\ field[n] = said[n].simbrief_id
      BY <1>1, <1>2 DEF DefaultEndpoint
    <2>2. Follows(field, SaidBy(text, PilotKeys), value, n)
      BY <1>1, <1>6, <1>11 DEF Follows
    <2> HIDE DEF field
    <2> QED
      BY <1>8, <2>1, <2>2
  <1>15. ASSUME Accepted(text)
         PROVE  said[n].host = IF LastValue(text, UrlKeys) = <<>> THEN DefaultEndpoint.host
                               ELSE ParseUrl(LastValue(text, UrlKeys)).host
    <2> DEFINE field == [m \in 0..n |-> said[m].host]
               host  == [m \in 1..n |-> ParseUrl(value[m]).host]
               lines == SaidBy(text, UrlKeys)
    <2>1. field[0] = DefaultEndpoint.host /\ field[n] = said[n].host
      BY <1>1, <1>2
    <2>2. Follows(field, lines, host, n)
      BY <1>1, <1>6, <1>11 DEF Follows
    <2>3. \A i \in lines : host[i] = ParseUrl(value[i]).host
      BY <1>5
    <2>4. ASSUME NEW i \in lines PROVE value[i] # <<>>
      <3>1. i \in DOMAIN text /\ Assigns(text[i], UrlKeys) /\ value[i] = text[i].value
        BY <1>1, <1>4, <1>5, <1>10 DEF n
      <3>2. ParseUrl(text[i].value).ok
        BY <1>15, <3>1 DEF Accepted, LineIsRefused, Assigns
      <3> QED
        BY <3>1, <3>2, UrlIsSomething
    <2> HIDE DEF field, host, lines
    <2>5. lines \subseteq 1..n
      BY <1>5 DEF lines
    <2>6. EndsAsLast(field, lines, host, n)
      BY ONLY <1>1, <2>2, <2>5, LastOneIsSaid
    <2>7. CASE lines = {}
      BY <1>7, <2>1, <2>6, <2>7 DEF lines, EndsAsLast
    <2>8. CASE lines # {}
      <3>1. PICK i \in lines : (\A j \in lines : j <= i) /\ LastValue(text, UrlKeys) = value[i]
        BY <1>7, <2>8 DEF lines
      <3> QED
        BY <2>1, <2>3, <2>4, <2>6, <3>1 DEF EndsAsLast
    <2> QED
      BY <2>7, <2>8
  <1> QED
    BY <1>2, <1>9, <1>12, <1>13, <1>14, <1>15 DEF n

-----------------------------------------------------------------------------
(* What a change of the file leaves said. *)

SaidAlike(old, new, keys) ==
    /\ SaidBy(new, keys) = SaidBy(old, keys)
    /\ \A i \in SaidBy(old, keys) : new[i] = old[i]

LEMMA SaidAlikeIsSame ==
    ASSUME NEW old \in Seq(Line), NEW new \in Seq(Line), NEW keys, SaidAlike(old, new, keys)
    PROVE  LastValue(new, keys) = LastValue(old, keys)
  <1> DEFINE lines == SaidBy(old, keys)
  <1>1. SaidBy(new, keys) = lines /\ \A i \in lines : new[i] = old[i]
    BY DEF SaidAlike
  <1>2. lines \in SUBSET (0..Len(old)) /\ Len(old) \in Nat
    BY LastValueIsSaid
  <1>3. lines # {} => \E i \in lines : \A j \in lines : j <= i
    BY <1>2, LastOfSome
  <1>4. /\ lines = {} => LastValue(old, keys) = <<>>
        /\ \A i \in lines : (\A j \in lines : j <= i) => LastValue(old, keys) = old[i].value
    BY LastValueIsSaid
  <1>5. /\ lines = {} => LastValue(new, keys) = <<>>
        /\ \A i \in lines : (\A j \in lines : j <= i) => LastValue(new, keys) = new[i].value
    BY <1>1, LastValueIsSaid
  <1> HIDE DEF lines
  <1> QED
    BY <1>1, <1>3, <1>4, <1>5

LEMMA SaysOnlyAlike ==
    ASSUME NEW old, NEW new, NEW key, NEW value,
           SaidAlike(old, new, Aliases(key)), SaysOnly(old, key, value)
    PROVE  SaysOnly(new, key, value)
  <1>1. PICK i \in DOMAIN old : SaidBy(old, Aliases(key)) = {i} /\ old[i] = Assignment(key, value)
    BY DEF SaysOnly
  <1>2. SaidBy(new, Aliases(key)) = {i} /\ new[i] = Assignment(key, value)
    BY <1>1 DEF SaidAlike
  <1>3. i \in DOMAIN new
    BY <1>2 DEF SaidBy
  <1> QED
    BY <1>2, <1>3 DEF SaysOnly

LEMMA LineIsLine ==
    ASSUME NEW text, NEW keys, NEW i
    PROVE  i \in SaidBy(text, keys) <=> i \in DOMAIN text /\ Assigns(text[i], keys)
  BY DEF SaidBy, Assigns

LEMMA AppendedLine ==
    ASSUME NEW text \in Seq(Line), NEW line \in Line, NEW keys
    PROVE  /\ ~Assigns(line, keys) => SaidAlike(text, Append(text, line), keys)
           /\ Assigns(line, keys) =>
                /\ SaidBy(Append(text, line), keys) = SaidBy(text, keys) \union {Len(text) + 1}
                /\ LastValue(Append(text, line), keys) = line.value
  <1> DEFINE new == Append(text, line)
             n   == Len(text)
  <1>1. /\ new \in Seq(Line) /\ n \in Nat
        /\ DOMAIN text = 1..n /\ DOMAIN new = 1..(n + 1)
        /\ new[n + 1] = line
        /\ \A i \in 1..n : new[i] = text[i]
    OBVIOUS
  <1> HIDE DEF new, n
  <1>2. \A i : i \in SaidBy(text, keys) <=> i \in 1..n /\ Assigns(text[i], keys)
    BY <1>1, LineIsLine
  <1>3. \A i : i \in SaidBy(new, keys) <=> i \in 1..(n + 1) /\ Assigns(new[i], keys)
    BY <1>1, LineIsLine
  <1>4. \A i : i \in 1..(n + 1) <=> i \in 1..n \/ i = n + 1
    BY <1>1
  <1>5. \A i : i \in SaidBy(new, keys) <=>
                 i \in SaidBy(text, keys) \/ (i = n + 1 /\ Assigns(line, keys))
    BY <1>1, <1>2, <1>3, <1>4
  <1>6. ASSUME ~Assigns(line, keys) PROVE SaidAlike(text, new, keys)
    <2>1. SaidBy(new, keys) = SaidBy(text, keys)
      BY <1>5, <1>6
    <2> QED
      BY <1>1, <1>2, <2>1 DEF SaidAlike
  <1>7. ASSUME Assigns(line, keys)
        PROVE  SaidBy(new, keys) = SaidBy(text, keys) \union {n + 1} /\ LastValue(new, keys) = line.value
    <2>1. SaidBy(new, keys) = SaidBy(text, keys) \union {n + 1}
      BY <1>5, <1>7
    <2>2. n + 1 \in SaidBy(new, keys) /\ \A j \in SaidBy(new, keys) : j <= n + 1
      BY <1>1, <1>2, <2>1
    <2>3. LastValue(new, keys) = new[n + 1].value
      BY <1>1, <2>2, LastValueIsSaid
    <2> QED
      BY <1>1, <2>1, <2>3
  <1> QED
    BY <1>6, <1>7 DEF new, n

SaidAsWell(old, new, keys, i) == SaidBy(new, keys) = SaidBy(old, keys) \union {i}

LEMMA RewrittenLine ==
    ASSUME NEW text \in Seq(Line), NEW i \in DOMAIN text, NEW line \in Line, NEW keys
    PROVE  /\ ~Assigns(line, keys) /\ ~Assigns(text[i], keys) =>
                SaidAlike(text, [text EXCEPT ![i] = line], keys)
           /\ Assigns(line, keys) =>
                SaidAsWell(text, [text EXCEPT ![i] = line], keys, i)
  <1> DEFINE new == [text EXCEPT ![i] = line]
  <1>1. /\ DOMAIN new = DOMAIN text /\ new[i] = line
        /\ \A j \in DOMAIN text : j # i => new[j] = text[j]
    OBVIOUS
  <1> HIDE DEF new
  <1>2. \A j : j \in SaidBy(text, keys) <=> j \in DOMAIN text /\ Assigns(text[j], keys)
    BY LineIsLine
  <1>3. \A j : j \in SaidBy(new, keys) <=> j \in DOMAIN new /\ Assigns(new[j], keys)
    BY LineIsLine
  <1>4. ASSUME ~Assigns(line, keys), ~Assigns(text[i], keys) PROVE SaidAlike(text, new, keys)
    <2>1. SaidBy(new, keys) = SaidBy(text, keys)
      BY <1>1, <1>2, <1>3, <1>4
    <2> QED
      BY <1>1, <1>2, <1>4, <2>1 DEF SaidAlike
  <1>5. ASSUME Assigns(line, keys) PROVE SaidAsWell(text, new, keys, i)
    BY <1>1, <1>2, <1>3, <1>5 DEF SaidAsWell
  <1> QED
    BY <1>4, <1>5 DEF new

LEMMA PanelKeysAreWords ==
    ASSUME NEW key \in PanelKeys
    PROVE  /\ key \in Words /\ ToLower(key) = key
           /\ ToLower("client_id") = "client_id" /\ "client_id" \in Words
           /\ key \in Aliases(key) /\ key # "client_id" /\ "client_id" \notin Aliases(key)
  <1>1. key \in OwnWords /\ "client_id" \in OwnWords
    BY DEF PanelKeys, OwnWords
  <1>2. \A word \in OwnWords : word \in Words /\ word \notin DOMAIN LowerCase
    BY WordsAssumption
  <1>3. Aliases(key) \in {TokenKeys, PilotKeys} /\ key \in Aliases(key)
    <2> DEFINE known == {UrlKeys, TokenKeys, PilotKeys, {"client_id"}}
    <2>1. \E keys \in known : key \in keys
      BY DEF PanelKeys, TokenKeys, PilotKeys
    <2>2. Aliases(key) \in known /\ key \in Aliases(key)
      BY <2>1 DEF Aliases
    <2>3. key \notin UrlKeys /\ key \notin {"client_id"}
      BY DEF PanelKeys, UrlKeys
    <2> QED
      BY <2>2, <2>3
  <1>4. "client_id" \notin TokenKeys /\ "client_id" \notin PilotKeys /\ key # "client_id"
    BY DEF TokenKeys, PilotKeys, PanelKeys
  <1> QED
    BY <1>1, <1>2, <1>3, <1>4 DEF ToLower

LEMMA TokenAliases == Aliases("token") = TokenKeys
  <1> DEFINE known == {UrlKeys, TokenKeys, PilotKeys, {"client_id"}}
  <1>1. TokenKeys \in known /\ "token" \in TokenKeys
    BY DEF TokenKeys
  <1>2. Aliases("token") \in known /\ "token" \in Aliases("token")
    BY <1>1 DEF Aliases
  <1>3. "token" \notin UrlKeys /\ "token" \notin PilotKeys /\ "token" \notin {"client_id"}
    BY DEF UrlKeys, PilotKeys
  <1> QED
    BY <1>2, <1>3

LEMMA PilotAliases == Aliases("simbrief_id") = PilotKeys
  <1> DEFINE known == {UrlKeys, TokenKeys, PilotKeys, {"client_id"}}
  <1>1. PilotKeys \in known /\ "simbrief_id" \in PilotKeys
    BY DEF PilotKeys
  <1>2. Aliases("simbrief_id") \in known /\ "simbrief_id" \in Aliases("simbrief_id")
    BY <1>1 DEF Aliases
  <1>3. "simbrief_id" \notin UrlKeys \union TokenKeys \union {"client_id"}
    BY DEF UrlKeys, TokenKeys
  <1> QED
    BY <1>2, <1>3

LEMMA OtherKeys ==
    ASSUME NEW key \in PanelKeys, NEW other \in PanelKeys, other # key
    PROVE  other \notin Aliases(key)
  <1>1. Aliases("token") = TokenKeys /\ Aliases("simbrief_id") = PilotKeys
    BY TokenAliases, PilotAliases
  <1> QED
    BY <1>1 DEF PanelKeys, TokenKeys, PilotKeys

LEMMA AssignmentAssigns ==
    ASSUME NEW key \in Words, ToLower(key) = key, NEW value \in Seq(Words), NEW keys
    PROVE  /\ Assignment(key, value) \in Line /\ Assignment(key, value).value = value
           /\ Assigns(Assignment(key, value), keys) <=> key \in keys
  BY AssignmentIsALine DEF Assignment, Assigns

\* The line upsert_config_value rewrites is one of its own key, or a comment.
LEMMA TargetLineIsOurs ==
    ASSUME NEW text \in Seq(Line), NEW key, NEW keys, key \notin keys, TargetLine(text, key) # 0
    PROVE  ~Assigns(text[TargetLine(text, key)], keys)
  <1> DEFINE i == TargetLine(text, key)
  <1>1. LiveLines(text, key) \in SUBSET Nat /\ CommentedLines(text, key) \in SUBSET Nat
    BY DEF LiveLines, CommentedLines
  <1>2. i \in LiveLines(text, key) \/ i \in CommentedLines(text, key)
    BY <1>1, FirstOfIsOne DEF TargetLine
  <1>3. text[i].commented \/ ToLower(text[i].key) = key
    BY <1>2 DEF LiveLines, CommentedLines, AssignsKey
  <1> QED
    BY <1>3 DEF Assigns

LEMMA UpsertLeavesOthers ==
    ASSUME NEW text \in Seq(Line), NEW key \in PanelKeys, NEW value \in Seq(Words),
           NEW keys, key \notin keys
    PROVE  SaidAlike(text, Upsert(text, key, value), keys)
  <1> DEFINE line == Assignment(key, value)
             i    == TargetLine(text, key)
  <1>1. line \in Line /\ ~Assigns(line, keys)
    BY PanelKeysAreWords, AssignmentAssigns
  <1>2. i \in {0} \union DOMAIN text
    BY TargetLineIsALine
  <1>3. i # 0 => ~Assigns(text[i], keys)
    BY TargetLineIsOurs
  <1>4. Upsert(text, key, value) = IF i = 0 THEN Append(text, line) ELSE [text EXCEPT ![i] = line]
    BY DEF Upsert
  <1> HIDE DEF line, i
  <1>5. CASE i = 0
    BY <1>1, <1>4, <1>5, AppendedLine
  <1>6. CASE i # 0
    <2>1. i \in DOMAIN text /\ ~Assigns(text[i], keys)
      BY <1>2, <1>3, <1>6
    <2>2. SaidAlike(text, [text EXCEPT ![i] = line], keys)
      BY <1>1, <2>1, RewrittenLine
    <2> QED
      BY <1>4, <1>6, <2>2
  <1> QED
    BY <1>5, <1>6

LEMMA UnambiguousIsOneLine ==
    ASSUME NEW text \in Seq(Line), NEW key, key \in Aliases(key), ~Ambiguous(text, key)
    PROVE  /\ SaidBy(text, Aliases(key)) = LiveLines(text, key)
           /\ \A i \in LiveLines(text, key), j \in LiveLines(text, key) : i = j
  <1> DEFINE lines == LiveLines(text, key)
  <1>1. \A i, alias : i \in LiveLines(text, alias) <=>
             i \in DOMAIN text /\ Assigns(text[i], {alias})
    BY DEF LiveLines, AssignsKey, Assigns
  <1>2. \A i : i \in SaidBy(text, Aliases(key)) <=> i \in DOMAIN text /\ Assigns(text[i], Aliases(key))
    BY LineIsLine
  <1>3. \A line : Assigns(line, Aliases(key)) <=> \E alias \in Aliases(key) : Assigns(line, {alias})
    BY DEF Assigns
  <1>4. \A alias \in Aliases(key) : alias # key => LiveLines(text, alias) = {}
    BY DEF Ambiguous
  <1>5. SaidBy(text, Aliases(key)) = lines
    BY <1>1, <1>2, <1>3, <1>4
  <1>6. IsFiniteSet(lines)
    <2>1. lines \subseteq 1..Len(text) /\ 1 \in Int /\ Len(text) \in Int
      BY DEF LiveLines
    <2>2. IsFiniteSet(1..Len(text))
      BY <2>1, FS_Interval
    <2> HIDE DEF lines
    <2> QED
      BY <2>1, <2>2, FS_Subset
  <1>7. Cardinality(lines) \in Nat /\ ~(Cardinality(lines) > 1)
    BY <1>6, FS_CardinalityType DEF Ambiguous
  <1> HIDE DEF lines
  <1>8. ASSUME NEW i \in lines, NEW j \in lines, i # j PROVE FALSE
    <2>1. IsFiniteSet(lines \ {i}) /\ Cardinality(lines \ {i}) = Cardinality(lines) - 1
      BY <1>6, FS_RemoveElement
    <2>2. Cardinality(lines \ {i}) = 0
      BY <1>7, <2>1, FS_CardinalityType
    <2>3. lines \ {i} = {}
      BY <2>1, <2>2, FS_EmptySet
    <2> QED
      BY <1>8, <2>3
  <1> QED
    BY <1>5, <1>8 DEF lines

IsTheLine(text, key, value, i) ==
    i \in DOMAIN text /\ SaidBy(text, Aliases(key)) = {i} /\ text[i] = Assignment(key, value)

\* A value saved in a file that assigns its key no more than once is the only
\* one the file says.
LEMMA UpsertSaysOnly ==
    ASSUME NEW text \in Seq(Line), NEW key \in PanelKeys, NEW value \in Seq(Words),
           ~Ambiguous(text, key)
    PROVE  SaysOnly(Upsert(text, key, value), key, value)
  <1> DEFINE line == Assignment(key, value)
             i    == TargetLine(text, key)
             keys == Aliases(key)
             new  == Upsert(text, key, value)
             said == SaidBy(text, keys)
  <1>1. line \in Line /\ Assigns(line, keys)
    BY PanelKeysAreWords, AssignmentAssigns
  <1>2. said = LiveLines(text, key) /\ \A j \in said, k \in said : j = k
    BY PanelKeysAreWords, UnambiguousIsOneLine
  <1>3. LiveLines(text, key) \in SUBSET Nat /\ CommentedLines(text, key) \in SUBSET Nat
    BY DEF LiveLines, CommentedLines
  <1>4. said # {} => i \in said
    BY <1>2, <1>3, FirstOfIsOne DEF TargetLine
  <1>5. said \subseteq {i}
    BY <1>2, <1>4
  <1>6. new = IF i = 0 THEN Append(text, line) ELSE [text EXCEPT ![i] = line]
    BY DEF Upsert
  <1>7. i \in {0} \union DOMAIN text
    BY TargetLineIsALine
  <1>8. \A j : IsTheLine(new, key, value, j) => SaysOnly(new, key, value)
    BY DEF IsTheLine, SaysOnly
  <1>9. DOMAIN text = 1..Len(text) /\ Len(text) \in Nat /\ 0 \notin said
    <2>1. DOMAIN text = 1..Len(text) /\ Len(text) \in Nat
      OBVIOUS
    <2>2. \A j \in said : j \in DOMAIN text
      BY DEF SaidBy
    <2> HIDE DEF said
    <2> QED
      BY <2>1, <2>2
  <1> HIDE DEF line, i, keys, new, said
  <1>10. CASE i = 0
    <2>1. said = {}
      BY <1>5, <1>9, <1>10
    <2>2. SaidBy(new, keys) = {Len(text) + 1}
      BY <1>1, <1>6, <1>10, <2>1, AppendedLine DEF said
    <2>3. Len(text) + 1 \in DOMAIN new /\ new[Len(text) + 1] = line
      BY <1>1, <1>6, <1>10
    <2>4. IsTheLine(new, key, value, Len(text) + 1)
      BY <2>2, <2>3 DEF IsTheLine, keys, line
    <2> QED
      BY <1>8, <2>4 DEF new
  <1>11. CASE i # 0
    <2>1. i \in DOMAIN text /\ new = [text EXCEPT ![i] = line]
      BY <1>6, <1>7, <1>11
    <2>2. SaidAsWell(text, [text EXCEPT ![i] = line], keys, i)
      BY <1>1, <2>1, RewrittenLine
    <2>3. SaidBy(new, keys) = {i}
      BY <1>5, <2>1, <2>2 DEF said, SaidAsWell
    <2>4. i \in DOMAIN new /\ new[i] = line
      BY <2>1
    <2>5. IsTheLine(new, key, value, i)
      BY <2>3, <2>4 DEF IsTheLine, keys, line
    <2> QED
      BY <1>8, <2>5 DEF new
  <1> QED
    BY <1>10, <1>11

\* The file is obeyed, and shown by the panel.
LEMMA SaysOnlyIsObeyed ==
    ASSUME NEW text \in Seq(Line), NEW key \in PanelKeys, NEW value \in Seq(Words),
           SaysOnly(text, key, value)
    PROVE  /\ LastValue(text, Aliases(key)) = value
           /\ Find(value, "#", 1) = 0 => ConfigValue(text, key) = value
  <1>1. PICK i \in DOMAIN text : SaidBy(text, Aliases(key)) = {i} /\ text[i] = Assignment(key, value)
    BY DEF SaysOnly
  <1>2. text[i].value = value /\ text[i].separator = "=" /\ text[i].key = key /\ ~text[i].commented
    BY <1>1 DEF Assignment
  <1>3. LastValue(text, Aliases(key)) = value
    BY <1>1, <1>2, LastValueIsSaid
  <1> DEFINE places == {j \in DOMAIN text : /\ ~text[j].commented
                                            /\ text[j].separator = "="
                                            /\ text[j].key = key}
             last   == CHOOSE j \in places : \A k \in places : j >= k
  <1>4. places = {i}
    <2>1. ASSUME NEW j \in places PROVE j \in SaidBy(text, Aliases(key))
      BY PanelKeysAreWords DEF SaidBy
    <2>2. i \in places
      BY <1>2
    <2> QED
      BY <1>1, <2>1, <2>2
  <1>5. ConfigValue(text, key) =
          IF places = {} THEN <<>>
          ELSE IF Find(text[last].value, "#", 1) = 0 THEN text[last].value
               ELSE Before(text[last].value, Find(text[last].value, "#", 1))
    BY DEF ConfigValue
  <1> HIDE DEF places
  <1>6. last = i
    BY <1>4
  <1> HIDE DEF last
  <1>7. Find(value, "#", 1) = 0 => ConfigValue(text, key) = value
    BY <1>2, <1>4, <1>5, <1>6
  <1> QED
    BY <1>3, <1>7

-----------------------------------------------------------------------------
(* The steps. *)

LEMMA FilesAreFiles ==
    /\ Absent \in Files
    /\ \A text \in Seq(Line) : File(text) \in Files
    /\ NoJob.read \in Seq(Line) /\ NoJob.text \in Seq(Line)
  BY DEF Absent, File, Files, NoJob

LEMMA NothingIsSaved == Nothing \in [PanelKeys -> SUBSET Seq(Words)]
  BY DEF Nothing

\* resolve_console_endpoint, of a file or of none.
LEMMA StartReads ==
    ASSUME IInv, Start
    PROVE  /\ IsEndpoint(endpoint')
           /\ disk.there /\ Accepted(disk.text) =>
                /\ endpoint'.client_id = LastValue(disk.text, {"client_id"})
                /\ endpoint'.auth_token = LastValue(disk.text, TokenKeys)
           /\ ~(disk.there /\ Accepted(disk.text)) => endpoint'.client_id = <<>>
  <1>1. disk.text \in Seq(Line)
    BY DEF IInv, FilesOK, Files
  <1>2. CASE disk.there /\ Accepted(disk.text)
    <2>1. endpoint' = ApplyConfigText(disk.text, DefaultEndpoint)
      BY <1>2 DEF Start
    <2> QED
      BY <1>1, <1>2, <2>1, FileSays
  <1>3. CASE ~(disk.there /\ Accepted(disk.text))
    <2>1. endpoint' = DefaultEndpoint
      BY <1>3 DEF Start
    <2>2. DefaultEndpoint.client_id = <<>>
      BY DEF DefaultEndpoint
    <2> QED
      BY <1>3, <2>1, <2>2, DefaultIsEndpoint
  <1> QED
    BY <1>2, <1>3

\* The environment changes the address and the token, and no identity.
LEMMA OverrideCarries ==
    ASSUME IInv, Override
    PROVE  /\ IsEndpoint(endpoint')
           /\ endpoint'.client_id = endpoint.client_id
           /\ env.token = <<>> => endpoint'.auth_token = endpoint.auth_token
  <1> DEFINE url  == ParseUrl(env.url)
             base == IF EnvironmentUrl
                     THEN [endpoint EXCEPT !.host = url.host, !.port = url.port,
                                           !.path = url.path, !.simbrief_id = <<>>]
                     ELSE endpoint
  <1>1. IsEndpoint(endpoint)
    BY DEF IInv, FilesOK
  <1>2. endpoint' = IF env.token = <<>> THEN base ELSE [base EXCEPT !.auth_token = env.token]
    BY DEF Override
  <1>3. /\ IsEndpoint(base)
        /\ base.client_id = endpoint.client_id /\ base.auth_token = endpoint.auth_token
    <2>1. CASE EnvironmentUrl
      <3>1. base = [endpoint EXCEPT !.host = url.host, !.port = url.port,
                                    !.path = url.path, !.simbrief_id = <<>>]
        BY <2>1
      <3> HIDE DEF base, url
      <3> QED
        BY <1>1, <3>1 DEF IsEndpoint, Fields
    <2>2. CASE ~EnvironmentUrl
      BY <1>1, <2>2
    <2> QED
      BY <2>1, <2>2
  <1> HIDE DEF base
  <1>4. CASE env.token = <<>>
    BY <1>2, <1>3, <1>4
  <1>5. CASE env.token # <<>>
    <2>1. endpoint' = [base EXCEPT !.auth_token = env.token]
      BY <1>2, <1>5
    <2>2. /\ IsEndpoint(endpoint') /\ endpoint'.client_id = base.client_id
          /\ endpoint'.auth_token = env.token
      BY ONLY <1>3, <2>1 DEF IsEndpoint, Fields
    <2> QED
      BY <1>3, <1>5, <2>2
  <1> QED
    BY <1>4, <1>5

LEMMA TakeIdentityNames ==
    ASSUME IInv, TakeIdentity
    PROVE  /\ IsEndpoint(endpoint')
           /\ endpoint'.auth_token = endpoint.auth_token
           /\ endpoint.client_id # <<>> => UNCHANGED <<endpoint, disk, recorded>>
           /\ endpoint.client_id = <<>> => endpoint'.client_id = ClientId(starts)
  <1>1. IsEndpoint(endpoint)
    BY DEF IInv, FilesOK
  <1>2. CASE endpoint.client_id # <<>>
    BY <1>1, <1>2 DEF TakeIdentity
  <1>3. CASE endpoint.client_id = <<>>
    <2>1. endpoint' = [endpoint EXCEPT !.client_id = ClientId(starts)]
      BY <1>3 DEF TakeIdentity
    <2>2. /\ IsEndpoint(endpoint') /\ endpoint'.auth_token = endpoint.auth_token
          /\ endpoint'.client_id = ClientId(starts)
      BY ONLY <1>1, <2>1 DEF IsEndpoint, Fields
    <2> QED
      BY ONLY <1>1, <1>3, <2>1, <2>2
  <1> QED
    BY <1>2, <1>3

LEMMA RenameUses ==
    ASSUME IInv, Rename
    PROVE  /\ IsEndpoint(endpoint')
           /\ endpoint'.client_id = endpoint.client_id
           /\ \/ UNCHANGED <<disk, saved, endpoint, ignored>>
              \/ /\ disk' = File(job.text)
                 /\ saved' = [saved EXCEPT ![job.key] =
                                 IF Ambiguous(job.read, job.key) THEN {} ELSE {job.value}]
                 /\ job.key = "token" => endpoint'.auth_token = job.value
                 /\ job.key # "token" => endpoint' = endpoint /\ ignored' = ignored
  <1>1. IsEndpoint(endpoint)
    BY DEF IInv, FilesOK
  <1>2. temp = File(job.text)
    BY DEF IInv, SaveInHand, Rename
  <1>3. CASE UNCHANGED <<disk, saved, endpoint, ignored>>
    BY <1>1, <1>3
  <1>4. CASE /\ disk' = temp
             /\ saved' = [saved EXCEPT ![job.key] =
                             IF Ambiguous(job.read, job.key) THEN {} ELSE {job.value}]
             /\ endpoint' = IF job.key = "token"
                            THEN [endpoint EXCEPT !.auth_token = job.value]
                            ELSE endpoint
             /\ ignored' = (ignored /\ job.key # "token")
    <2>1. CASE job.key = "token"
      <3>1. endpoint' = [endpoint EXCEPT !.auth_token = job.value]
        BY <1>4, <2>1
      <3>2. /\ IsEndpoint(endpoint')
            /\ endpoint'.client_id = endpoint.client_id /\ endpoint'.auth_token = job.value
        BY ONLY <1>1, <3>1 DEF IsEndpoint, Fields
      <3> QED
        BY <1>2, <1>4, <2>1, <3>2
    <2>2. CASE job.key # "token"
      <3>1. ignored' = ignored
        BY <1>4, <2>2 DEF IInv, FilesOK
      <3> QED
        BY <1>1, <1>2, <1>4, <2>2, <3>1
    <2> QED
      BY <2>1, <2>2
  <1> QED
    BY <1>3, <1>4 DEF Rename

LEMMA InitKeeps == Init => IInv
  <1> SUFFICES ASSUME Init PROVE IInv
    OBVIOUS
  <1>1. disk \in Files
    BY FilesAreFiles, ConfigFileAssumption DEF Init
  <1>2. FilesOK
    BY <1>1, FilesAreFiles, DefaultIsEndpoint, NothingIsSaved DEF Init, FilesOK
  <1>3. SaveInHand
    BY DEF Init, SaveInHand, Saving
  <1> QED
    BY <1>2, <1>3 DEF IInv

LEMMA StartKeeps == IInv /\ Start => IInv'
  <1> SUFFICES ASSUME IInv, Start PROVE IInv'
    OBVIOUS
  <1>1. IsEndpoint(endpoint')
    BY StartReads
  <1>2. FilesOK'
    BY <1>1 DEF IInv, FilesOK, Start, files
  <1>3. SaveInHand'
    BY DEF SaveInHand, Saving, Start
  <1> QED
    BY <1>2, <1>3 DEF IInv

LEMMA WriteTemplateKeeps == IInv /\ WriteTemplate => IInv'
  <1> SUFFICES ASSUME IInv, WriteTemplate PROVE IInv'
    OBVIOUS
  <1>1. disk' \in Files
    BY TemplateIsText, FilesAreFiles DEF IInv, FilesOK, WriteTemplate
  <1> QED
    BY <1>1 DEF IInv, FilesOK, SaveInHand, Saving, WriteTemplate, session

LEMMA TakeIdentityKeeps == IInv /\ TakeIdentity => IInv'
  <1> SUFFICES ASSUME IInv, TakeIdentity PROVE IInv'
    OBVIOUS
  <1>1. disk' \in Files
    <2>1. disk.text \in Seq(Line)
      BY DEF IInv, FilesOK, Files
    <2>2. \A line \in Line : File(Append(disk.text, line)) \in Files
      BY <2>1, FilesAreFiles, AppendingIsOneLine
    <2>3. /\ Assignment("client_id", ClientId(starts)) \in Line
          /\ Assignment("client_id", CutShort(ClientId(starts))) \in Line
      BY IdentityIsALine DEF IInv, FilesOK
    <2> QED
      BY <2>2, <2>3 DEF IInv, FilesOK, TakeIdentity
  <1>2. IsEndpoint(endpoint')
    BY TakeIdentityNames
  <1>3. FilesOK'
    BY <1>1, <1>2 DEF IInv, FilesOK, TakeIdentity, session
  <1>4. SaveInHand'
    BY DEF SaveInHand, Saving, TakeIdentity
  <1> QED
    BY <1>3, <1>4 DEF IInv

LEMMA OverrideKeeps == IInv /\ Override => IInv'
  <1> SUFFICES ASSUME IInv, Override PROVE IInv'
    OBVIOUS
  <1>1. IsEndpoint(endpoint')
    BY OverrideCarries
  <1>2. FilesOK'
    BY <1>1 DEF IInv, FilesOK, Override, files, counters, session
  <1>3. SaveInHand'
    BY DEF SaveInHand, Saving, Override
  <1> QED
    BY <1>2, <1>3 DEF IInv

LEMMA SaveKeeps ==
    ASSUME IInv, NEW key \in PanelKeys, NEW value \in Seq(Words), Save(key, value)
    PROVE  IInv'
  <1>1. disk.text \in Seq(Line) /\ key \in Words
    BY WordsAssumption DEF IInv, FilesOK, Files, PanelKeys, OwnWords
  <1>2. Upsert(disk.text, key, value) \in Seq(Line)
    BY <1>1, UpsertIsOneLine
  <1>3. /\ job'.read = disk.text /\ job'.text = Upsert(disk.text, key, value) /\ pc' = "write"
        /\ job'.key = key /\ job'.value = value
    BY DEF Save
  <1>4. FilesOK'
    BY <1>1, <1>2, <1>3 DEF IInv, FilesOK, Save, files, session
  <1>5. SaveInHand'
    BY <1>3 DEF SaveInHand, Saving
  <1> QED
    BY <1>4, <1>5 DEF IInv

LEMMA WriteTempKeeps == IInv /\ WriteTemp => IInv'
  <1> SUFFICES ASSUME IInv, WriteTemp PROVE IInv'
    OBVIOUS
  <1>1. temp' \in Files
    BY FilesAreFiles DEF IInv, FilesOK, WriteTemp
  <1>2. FilesOK'
    BY <1>1, FilesAreFiles DEF IInv, FilesOK, WriteTemp, session
  <1>3. SaveInHand'
    BY DEF IInv, SaveInHand, Saving, WriteTemp, session, machine
  <1> QED
    BY <1>2, <1>3 DEF IInv

LEMMA RemoveTargetKeeps == IInv /\ RemoveTarget => IInv'
  <1> SUFFICES ASSUME IInv, RemoveTarget PROVE IInv'
    OBVIOUS
  <1>1. FilesOK'
    BY FilesAreFiles, NothingIsSaved DEF IInv, FilesOK, RemoveTarget, counters, session
  <1>2. SaveInHand'
    BY DEF IInv, SaveInHand, Saving, RemoveTarget
  <1> QED
    BY <1>1, <1>2 DEF IInv

LEMMA RenameKeeps == IInv /\ Rename => IInv'
  <1> SUFFICES ASSUME IInv, Rename PROVE IInv'
    OBVIOUS
  <1>1. job.key \in PanelKeys /\ job.value \in Seq(Words)
    BY DEF IInv, SaveInHand, Saving, Rename
  <1>2. saved' \in [PanelKeys -> SUBSET Seq(Words)]
    BY <1>1 DEF IInv, FilesOK, Rename
  <1>3. IsEndpoint(endpoint')
    BY RenameUses
  <1>4. FilesOK'
    BY <1>2, <1>3, FilesAreFiles DEF IInv, FilesOK, Rename
  <1>5. SaveInHand'
    BY DEF SaveInHand, Saving, Rename
  <1> QED
    BY <1>4, <1>5 DEF IInv

LEMMA QuitKeeps == IInv /\ Quit => IInv'
  <1> SUFFICES ASSUME IInv, Quit PROVE IInv'
    OBVIOUS
  <1>1. temp' \in Files
    BY FilesAreFiles, TemplateIsText DEF IInv, FilesOK, Quit
  <1>2. FilesOK'
    BY <1>1, FilesAreFiles, DefaultIsEndpoint DEF IInv, FilesOK, Quit, counters, session
  <1>3. SaveInHand'
    BY DEF SaveInHand, Saving, Quit
  <1> QED
    BY <1>2, <1>3 DEF IInv

LEMMA EditKeeps == IInv /\ Edit => IInv'
  <1> SUFFICES ASSUME IInv, Edit PROVE IInv'
    OBVIOUS
  <1>1. disk.text \in Seq(Line)
    BY DEF IInv, FilesOK, Files
  <1>2. disk' \in Files
    <2>1. PICK line \in HandLines :
            \/ disk' = File(Append(disk.text, line))
            \/ \E i \in DOMAIN disk.text : disk' = File([disk.text EXCEPT ![i] = line])
      BY DEF Edit
    <2>2. line \in Line
      BY ConfigFileAssumption
    <2>3. Append(disk.text, line) \in Seq(Line)
      BY <1>1, <2>2, AppendingIsOneLine
    <2>4. \A i \in DOMAIN disk.text : [disk.text EXCEPT ![i] = line] \in Seq(Line)
      BY <1>1, <2>2
    <2> QED
      BY <2>1, <2>3, <2>4, FilesAreFiles
  <1>3. FilesOK'
    BY <1>2, NothingIsSaved DEF IInv, FilesOK, Edit, session
  <1>4. SaveInHand'
    BY DEF IInv, SaveInHand, Saving, Edit, session, machine
  <1> QED
    BY <1>3, <1>4 DEF IInv

LEMMA NextKeeps == IInv /\ [Next]_vars => IInv'
  <1> SUFFICES ASSUME IInv, [Next]_vars PROVE IInv'
    OBVIOUS
  <1>1. CASE SaveToken
    BY <1>1, SaveKeeps, ConfigFileAssumption DEF SaveToken, PanelKeys
  <1>2. CASE SavePilotId
    BY <1>2, SaveKeeps, ConfigFileAssumption DEF SavePilotId, PanelKeys
  <1>3. CASE UNCHANGED vars
    BY <1>3 DEF vars, IInv, FilesOK, SaveInHand, Saving
  <1> QED
    BY <1>1, <1>2, <1>3, StartKeeps, WriteTemplateKeeps, TakeIdentityKeeps, OverrideKeeps,
       WriteTempKeeps, RemoveTargetKeeps, RenameKeeps, QuitKeeps, EditKeeps DEF Next

\* The files are texts, and a save in hand is one value in the text it read.
THEOREM SavesAreWhole == Spec => []IInv
  <1>1. IInv /\ [Next]_vars => IInv'
    BY NextKeeps
  <1> QED
    BY InitKeeps, <1>1, PTL DEF Spec
-----------------------------------------------------------------------------
LEMMA RenameChangesOneLine ==
    ASSUME IInv, Rename, disk' # disk, disk.text = job.read
    PROVE  OneLineDiffers(disk.text, disk'.text)
  <1>1. disk' = File(job.text)
    BY DEF IInv, SaveInHand, Rename
  <1>2. /\ job.text = Upsert(disk.text, job.key, job.value)
        /\ job.key \in PanelKeys /\ job.value \in Seq(Words)
    BY DEF IInv, SaveInHand, Saving, Rename
  <1>3. disk.text \in Seq(Line) /\ job.key \in Words
    BY <1>2, PanelKeysAreWords DEF IInv, FilesOK, Files
  <1>4. disk'.text = job.text
    BY <1>1 DEF File
  <1> QED
    BY <1>2, <1>3, <1>4, UpsertIsOneLine

LEMMA IdentityIsOneLine ==
    ASSUME IInv, TakeIdentity, disk' # disk
    PROVE  OneLineDiffers(disk.text, disk'.text)
  <1>1. disk.text \in Seq(Line) /\ starts \in Nat
    BY DEF IInv, FilesOK, Files
  <1>2. \E line \in Line : disk' = File(Append(disk.text, line))
    BY <1>1, IdentityIsALine DEF TakeIdentity
  <1> QED
    BY <1>1, <1>2, AppendingIsOneLine DEF File

LEMMA StepChangesOneLine ==
    IInv /\ [Next]_vars =>
        (disk.there /\ disk' # disk /\ edits' = edits /\ disk'.there
           /\ (pc = "rename" => disk.text = job.read)
         => OneLineDiffers(disk.text, disk'.text))
  <1> SUFFICES ASSUME IInv, [Next]_vars,
                      disk.there, disk' # disk, edits' = edits, disk'.there,
                      pc = "rename" => disk.text = job.read
               PROVE  OneLineDiffers(disk.text, disk'.text)
    OBVIOUS
  <1>1. CASE TakeIdentity
    BY <1>1, IdentityIsOneLine
  <1>2. CASE Rename
    BY <1>2, RenameChangesOneLine DEF Rename
  <1>3. CASE RemoveTarget
    BY <1>3 DEF RemoveTarget, Absent
  <1>4. CASE Edit
    BY <1>4 DEF Edit, IInv, FilesOK
  <1>5. ASSUME Start \/ WriteTemplate \/ Override \/ SaveToken \/ SavePilotId
               \/ WriteTemp \/ Quit \/ UNCHANGED vars
        PROVE  FALSE
    BY <1>5 DEF Start, WriteTemplate, Override, SaveToken, SavePilotId, Save, WriteTemp,
                Quit, vars, files
  <1> QED
    BY <1>1, <1>2, <1>3, <1>4, <1>5 DEF Next

\* No step of the plugin touches more of the pilot's file than one line
\* (upsert_config_value, write_config_atomically).
THEOREM FileSurvives == Spec => OnlyOneLineChanges
  <1>1. IInv /\ [Next]_vars =>
          [disk.there /\ disk' # disk /\ edits' = edits /\ disk'.there
             /\ (pc = "rename" => disk.text = job.read)
           => OneLineDiffers(disk.text, disk'.text)]_vars
    BY StepChangesOneLine
  <1> QED
    BY SavesAreWhole, <1>1, PTL DEF Spec, OnlyOneLineChanges
-----------------------------------------------------------------------------
\* What a file that is accepted says is the last live line of each key
\* (apply_config_text), of every text the file may ever be.
THEOREM OrderDecidesNothing == Spec => []LastAssignmentWins
  <1>1. IInv => LastAssignmentWins
    <2> SUFFICES ASSUME IInv, Accepted(disk.text)
                 PROVE  LET said == ApplyConfigText(disk.text, DefaultEndpoint)
                            url  == LastValue(disk.text, UrlKeys)
                        IN /\ said.auth_token = LastValue(disk.text, TokenKeys)
                           /\ said.client_id = LastValue(disk.text, {"client_id"})
                           /\ said.simbrief_id = LastValue(disk.text, PilotKeys)
                           /\ said.host = IF url = <<>> THEN DefaultEndpoint.host
                                          ELSE ParseUrl(url).host
      BY DEF LastAssignmentWins
    <2>1. disk.text \in Seq(Line)
      BY DEF IInv, FilesOK, Files
    <2> QED
      BY <2>1, FileSays
  <1> QED
    BY SavesAreWhole, <1>1, PTL
-----------------------------------------------------------------------------
(* The identity. *)

\* The identity on record is the last one the file says, the one this session
\* has, and the save in hand is a change of just that file.
IdentityStory ==
    recorded # <<>> /\ ~windows =>
        /\ disk.there
        /\ LastValue(disk.text, {"client_id"}) = recorded
        /\ pc # "template"
        /\ pc = "identity" => endpoint.client_id \in {<<>>, recorded}
        /\ pc \in {"environment", "running", "write", "rename"} => endpoint.client_id = recorded
        /\ pc \in Saving => disk.text = job.read

LEMMA IdentityLine ==
    ASSUME NEW text \in Seq(Line), NEW n \in Nat
    PROVE  LastValue(Append(text, Assignment("client_id", ClientId(n))), {"client_id"}) = ClientId(n)
  <1> DEFINE id   == ClientId(n)
             line == Assignment("client_id", id)
  <1>1. line \in Line /\ line.value = id
    BY IdentityIsALine DEF Assignment
  <1>2. ToLower("client_id") = "client_id"
    BY WordsAssumption DEF OwnWords, ToLower
  <1>3. Assigns(line, {"client_id"})
    BY <1>2 DEF Assigns, Assignment
  <1> HIDE DEF line, id
  <1>4. LastValue(Append(text, line), {"client_id"}) = line.value
    BY <1>1, <1>3, AppendedLine
  <1> QED
    BY <1>1, <1>4 DEF line, id

LEMMA StartKeepsIdentity == IInv /\ IdentityStory /\ Start => IdentityStory'
  <1> SUFFICES ASSUME IInv, IdentityStory, Start, recorded' # <<>>, ~windows'
               PROVE  IdentityStory'
    BY DEF IdentityStory
  <1>1. /\ windows' = windows /\ disk' = disk
        /\ recorded' = (IF recorded = <<>> THEN endpoint'.client_id ELSE recorded)
        /\ pc' = (IF disk.there THEN "identity" ELSE "template")
    BY DEF Start, machine, files
  <1>2. /\ disk.there /\ Accepted(disk.text) =>
             endpoint'.client_id = LastValue(disk.text, {"client_id"})
        /\ ~(disk.there /\ Accepted(disk.text)) => endpoint'.client_id = <<>>
    BY StartReads
  <1>3. disk.there /\ LastValue(disk.text, {"client_id"}) = recorded'
    BY <1>1, <1>2 DEF IdentityStory
  <1> QED
    BY <1>1, <1>2, <1>3 DEF IdentityStory, Saving

LEMMA TakeIdentityKeepsIdentity == IInv /\ IdentityStory /\ TakeIdentity => IdentityStory'
  <1> SUFFICES ASSUME IInv, IdentityStory, TakeIdentity, recorded' # <<>>, ~windows'
               PROVE  IdentityStory'
    BY DEF IdentityStory
  <1>1. windows' = windows /\ pc = "identity" /\ pc' = "environment"
    BY DEF TakeIdentity, session, machine
  <1>2. disk.text \in Seq(Line) /\ starts \in Nat
    BY DEF IInv, FilesOK, Files
  <1>3. CASE endpoint.client_id # <<>>
    <2>1. UNCHANGED <<endpoint, disk, recorded>>
      BY <1>3, TakeIdentityNames
    <2> QED
      BY <1>1, <1>3, <2>1 DEF IdentityStory, Saving
  <1>4. CASE endpoint.client_id = <<>>
    <2> DEFINE text == Append(disk.text, Assignment("client_id", ClientId(starts)))
    <2>1. disk' = File(text) /\ recorded' = ClientId(starts)
      BY <1>4 DEF TakeIdentity
    <2>2. endpoint'.client_id = ClientId(starts)
      BY <1>4, TakeIdentityNames
    <2>3. LastValue(text, {"client_id"}) = ClientId(starts)
      BY <1>2, IdentityLine
    <2> HIDE DEF text
    <2>4. disk'.there /\ disk'.text = text
      BY <2>1 DEF File
    <2> QED
      BY <1>1, <2>1, <2>2, <2>3, <2>4 DEF IdentityStory, Saving
  <1> QED
    BY <1>3, <1>4

LEMMA RenameKeepsIdentity == IInv /\ IdentityStory /\ Rename => IdentityStory'
  <1> SUFFICES ASSUME IInv, IdentityStory, Rename, recorded # <<>>, ~windows
               PROVE  IdentityStory'
    BY DEF IdentityStory, Rename, session, machine
  <1>1. /\ windows' = windows /\ recorded' = recorded
        /\ pc = "rename" /\ pc' = "running"
    BY DEF Rename, session, machine
  <1>2. endpoint'.client_id = endpoint.client_id
    BY RenameUses
  <1>3. /\ disk.there /\ LastValue(disk.text, {"client_id"}) = recorded
        /\ endpoint.client_id = recorded /\ disk.text = job.read
    BY <1>1 DEF IdentityStory, Saving
  <1>4. disk'.there /\ LastValue(disk'.text, {"client_id"}) = recorded
    <2>1. CASE disk' = disk
      BY <1>3, <2>1
    <2>2. CASE disk' = File(job.text)
      <3>1. /\ job.key \in PanelKeys /\ job.value \in Seq(Words) /\ disk.text \in Seq(Line)
            /\ job.text = Upsert(disk.text, job.key, job.value) /\ job.text \in Seq(Line)
        BY <1>1, <1>3 DEF IInv, SaveInHand, FilesOK, Files, Saving
      <3>2. job.key \notin {"client_id"}
        BY <3>1, PanelKeysAreWords
      <3>3. SaidAlike(disk.text, job.text, {"client_id"})
        BY <3>1, <3>2, UpsertLeavesOthers
      <3>4. LastValue(job.text, {"client_id"}) = recorded
        BY <1>3, <3>1, <3>3, SaidAlikeIsSame
      <3> QED
        BY <2>2, <3>4 DEF File
    <2> QED
      BY <2>1, <2>2, RenameUses
  <1> QED
    BY <1>1, <1>2, <1>3, <1>4 DEF IdentityStory, Saving

LEMMA NextKeepsIdentity == IInv /\ IdentityStory /\ [Next]_vars => IdentityStory'
  <1> SUFFICES ASSUME IInv, IdentityStory, [Next]_vars PROVE IdentityStory'
    OBVIOUS
  <1>1. CASE WriteTemplate
    BY <1>1 DEF IdentityStory, WriteTemplate, session, machine
  <1>2. CASE Override
    <2>1. endpoint'.client_id = endpoint.client_id
      BY <1>2, OverrideCarries
    <2> QED
      BY <1>2, <2>1 DEF IdentityStory, Override, Saving, session, machine, files
  <1>3. ASSUME NEW key, NEW value, Save(key, value) PROVE IdentityStory'
    BY <1>3 DEF IdentityStory, Save, Saving, session, machine, files
  <1>4. CASE WriteTemp
    BY <1>4 DEF IdentityStory, WriteTemp, Saving, session, machine
  <1>5. CASE RemoveTarget
    BY <1>5 DEF IInv, SaveInHand, IdentityStory, RemoveTarget, session, machine
  <1>6. CASE Quit
    BY <1>6 DEF IdentityStory, Quit, Saving, session, machine
  <1>7. CASE Edit
    BY <1>7 DEF IdentityStory, Edit
  <1>8. CASE UNCHANGED vars
    BY <1>8 DEF IdentityStory, vars
  <1> QED
    BY <1>1, <1>2, <1>3, <1>4, <1>5, <1>6, <1>7, <1>8, StartKeepsIdentity,
       TakeIdentityKeepsIdentity, RenameKeepsIdentity DEF Next, SaveToken, SavePilotId

\* The identity a session has is the one of the session before, until the pilot
\* changes the file or it cannot be written.
THEOREM IdentityLasts == Spec => []IdentityIsKept
  <1>1. Init => IdentityStory
    BY DEF Init, IdentityStory
  <1>2. IInv /\ IdentityStory /\ [Next]_vars => IdentityStory'
    BY NextKeepsIdentity
  <1>3. IdentityStory => IdentityIsKept
    BY DEF IdentityStory, IdentityIsKept
  <1> QED
    BY SavesAreWhole, <1>1, <1>2, <1>3, PTL DEF Spec
-----------------------------------------------------------------------------
(* The saves. *)

\* What was saved of a key is the only thing the file says of it, what this
\* session uses, and the save in hand is a change of just that file.
SavedStory ==
    \A key \in PanelKeys : \A value \in saved[key] :
        /\ saved[key] = {value}
        /\ disk.there
        /\ SaysOnly(disk.text, key, value)
        /\ pc # "template"
        /\ pc \in Saving => disk.text = job.read
        /\ key = "token" /\ ~ignored /\ env.token = <<>> /\ pc # "down" =>
             endpoint.auth_token = value

LEMMA SavedAreTexts ==
    ASSUME IInv, NEW key \in PanelKeys, NEW value \in saved[key]
    PROVE  value \in Seq(Words)
  BY DEF IInv, FilesOK

LEMMA NothingSavedKeeps == saved' = Nothing => SavedStory'
  BY DEF Nothing, SavedStory

LEMMA StartKeepsSaved == IInv /\ SavedStory /\ Start => SavedStory'
  <1> SUFFICES ASSUME IInv, SavedStory, Start, NEW key \in PanelKeys, NEW value \in saved'[key]
               PROVE  /\ saved'[key] = {value}
                      /\ disk'.there
                      /\ SaysOnly(disk'.text, key, value)
                      /\ pc' # "template"
                      /\ pc' \in Saving => disk'.text = job'.read
                      /\ key = "token" /\ ~ignored' /\ env'.token = <<>> /\ pc' # "down" =>
                           endpoint'.auth_token = value
    BY DEF SavedStory
  <1>1. saved' = saved /\ disk' = disk /\ ignored' = (disk.there /\ ~Accepted(disk.text))
    BY DEF Start, files
  <1>2. saved[key] = {value} /\ disk.there /\ SaysOnly(disk.text, key, value)
    BY <1>1 DEF SavedStory
  <1>3. pc' = "identity"
    BY <1>2 DEF Start
  <1>4. ASSUME key = "token", ~ignored' PROVE endpoint'.auth_token = value
    <2>1. endpoint'.auth_token = LastValue(disk.text, TokenKeys)
      BY <1>1, <1>2, <1>4, StartReads
    <2>2. disk.text \in Seq(Line) /\ value \in Seq(Words)
      BY <1>1, SavedAreTexts DEF IInv, FilesOK, Files
    <2>3. LastValue(disk.text, Aliases(key)) = value
      BY <1>2, <2>2, SaysOnlyIsObeyed
    <2> QED
      BY <1>4, <2>1, <2>3, TokenAliases
  <1> QED
    BY <1>1, <1>2, <1>3, <1>4 DEF Saving

LEMMA IdentityLeavesSaid ==
    ASSUME NEW text \in Seq(Line), NEW id, Assignment("client_id", id) \in Line,
           NEW key \in PanelKeys
    PROVE  SaidAlike(text, Append(text, Assignment("client_id", id)), Aliases(key))
  <1>1. ToLower("client_id") = "client_id" /\ "client_id" \notin Aliases(key)
    BY PanelKeysAreWords
  <1>2. ~Assigns(Assignment("client_id", id), Aliases(key))
    BY <1>1 DEF Assigns, Assignment
  <1> QED
    BY <1>2, AppendedLine

LEMMA TakeIdentityKeepsSaved == IInv /\ SavedStory /\ TakeIdentity => SavedStory'
  <1> SUFFICES ASSUME IInv, SavedStory, TakeIdentity,
                      NEW key \in PanelKeys, NEW value \in saved'[key]
               PROVE  /\ saved'[key] = {value}
                      /\ disk'.there
                      /\ SaysOnly(disk'.text, key, value)
                      /\ pc' # "template"
                      /\ pc' \in Saving => disk'.text = job'.read
                      /\ key = "token" /\ ~ignored' /\ env'.token = <<>> /\ pc' # "down" =>
                           endpoint'.auth_token = value
    BY DEF SavedStory
  <1>1. saved' = saved /\ ignored' = ignored /\ env' = env /\ pc = "identity" /\ pc' = "environment"
    BY DEF TakeIdentity, session, machine
  <1>2. /\ saved[key] = {value} /\ disk.there /\ SaysOnly(disk.text, key, value)
        /\ key = "token" /\ ~ignored /\ env.token = <<>> => endpoint.auth_token = value
    BY <1>1 DEF SavedStory
  <1>3. endpoint'.auth_token = endpoint.auth_token
    BY TakeIdentityNames
  <1>4. disk.text \in Seq(Line) /\ starts \in Nat
    BY DEF IInv, FilesOK, Files
  <1>5. \/ disk' = disk
        \/ \E id : /\ Assignment("client_id", id) \in Line
                   /\ disk' = File(Append(disk.text, Assignment("client_id", id)))
    BY <1>4, IdentityIsALine DEF TakeIdentity
  <1>6. disk'.there /\ SaysOnly(disk'.text, key, value)
    <2>1. CASE disk' = disk
      BY <1>2, <2>1
    <2>2. ASSUME NEW id, Assignment("client_id", id) \in Line,
                 disk' = File(Append(disk.text, Assignment("client_id", id)))
          PROVE  disk'.there /\ SaysOnly(disk'.text, key, value)
      <3> DEFINE text == Append(disk.text, Assignment("client_id", id))
      <3>1. SaidAlike(disk.text, text, Aliases(key))
        BY <1>4, <2>2, IdentityLeavesSaid
      <3>2. disk'.there /\ disk'.text = text
        BY <2>2 DEF File
      <3> HIDE DEF text
      <3>3. SaysOnly(text, key, value)
        BY <1>2, <3>1, SaysOnlyAlike
      <3> QED
        BY <3>2, <3>3
    <2> QED
      BY <1>5, <2>1, <2>2
  <1> QED
    BY <1>1, <1>2, <1>3, <1>6 DEF Saving

LEMMA RenameKeepsSaved == IInv /\ SavedStory /\ Rename => SavedStory'
  <1> SUFFICES ASSUME IInv, SavedStory, Rename, NEW key \in PanelKeys, NEW value \in saved'[key]
               PROVE  /\ saved'[key] = {value}
                      /\ disk'.there
                      /\ SaysOnly(disk'.text, key, value)
                      /\ pc' # "template"
                      /\ pc' \in Saving => disk'.text = job'.read
                      /\ key = "token" /\ ~ignored' /\ env'.token = <<>> /\ pc' # "down" =>
                           endpoint'.auth_token = value
    BY DEF SavedStory
  <1>1. env' = env /\ pc = "rename" /\ pc' = "running"
    BY DEF Rename, machine
  <1>2. /\ job.key \in PanelKeys /\ job.value \in Seq(Words) /\ job.read \in Seq(Line)
        /\ job.text = Upsert(job.read, job.key, job.value)
    BY <1>1 DEF IInv, SaveInHand, FilesOK, Saving
  <1>3. saved \in [PanelKeys -> SUBSET Seq(Words)]
    BY DEF IInv, FilesOK
  <1>4. ASSUME NEW old \in saved[key]
        PROVE  /\ saved[key] = {old} /\ disk.there /\ SaysOnly(disk.text, key, old)
               /\ disk.text = job.read
               /\ key = "token" /\ ~ignored /\ env.token = <<>> => endpoint.auth_token = old
    BY <1>1 DEF SavedStory, Saving
  <1>5. CASE UNCHANGED <<disk, saved, endpoint, ignored>>
    <2>1. value \in saved[key]
      BY <1>5
    <2> QED
      BY <1>1, <1>4, <1>5, <2>1 DEF Saving
  <1>6. CASE /\ disk' = File(job.text)
             /\ saved' = [saved EXCEPT ![job.key] =
                             IF Ambiguous(job.read, job.key) THEN {} ELSE {job.value}]
             /\ job.key = "token" => endpoint'.auth_token = job.value
             /\ job.key # "token" => endpoint' = endpoint /\ ignored' = ignored
    <2>1. disk'.there /\ disk'.text = job.text
      BY <1>6 DEF File
    <2>2. CASE key = job.key
      <3>1. saved'[key] = IF Ambiguous(job.read, job.key) THEN {} ELSE {job.value}
        BY <1>2, <1>3, <1>6, <2>2
      <3>2. ~Ambiguous(job.read, job.key) /\ value = job.value
        BY <3>1
      <3>3. SaysOnly(job.text, key, value)
        BY <1>2, <2>2, <3>2, UpsertSaysOnly
      <3> QED
        BY <1>1, <1>6, <2>1, <2>2, <3>1, <3>2, <3>3 DEF Saving
    <2>3. CASE key # job.key
      <3>1. saved'[key] = saved[key]
        BY <1>2, <1>3, <1>6, <2>3
      <3>2. /\ saved[key] = {value} /\ SaysOnly(job.read, key, value)
            /\ key = "token" /\ ~ignored /\ env.token = <<>> => endpoint.auth_token = value
        BY <1>4, <3>1
      <3>3. job.key \notin Aliases(key)
        BY <1>2, <2>3, OtherKeys
      <3>4. SaidAlike(job.read, job.text, Aliases(key))
        BY <1>2, <3>3, UpsertLeavesOthers
      <3>5. SaysOnly(job.text, key, value)
        BY <3>2, <3>4, SaysOnlyAlike
      <3>6. key = "token" => endpoint' = endpoint /\ ignored' = ignored
        BY <1>6, <2>3
      <3> QED
        BY <1>1, <2>1, <3>1, <3>2, <3>5, <3>6 DEF Saving
    <2> QED
      BY <2>2, <2>3
  <1> QED
    BY <1>5, <1>6, RenameUses

LEMMA NextKeepsSaved == IInv /\ SavedStory /\ [Next]_vars => SavedStory'
  <1> SUFFICES ASSUME IInv, SavedStory, [Next]_vars PROVE SavedStory'
    OBVIOUS
  <1>1. CASE WriteTemplate
    BY <1>1 DEF SavedStory, WriteTemplate
  <1>2. CASE Override
    <2>1. env.token = <<>> => endpoint'.auth_token = endpoint.auth_token
      BY <1>2, OverrideCarries
    <2> QED
      BY <1>2, <2>1 DEF SavedStory, Override, Saving, session, machine, files
  <1>3. ASSUME NEW key, NEW value, Save(key, value) PROVE SavedStory'
    BY <1>3 DEF SavedStory, Save, Saving, session, machine, files
  <1>4. CASE WriteTemp
    BY <1>4 DEF SavedStory, WriteTemp, Saving, session, machine
  <1>5. CASE RemoveTarget \/ Edit
    BY <1>5, NothingSavedKeeps DEF RemoveTarget, Edit
  <1>6. CASE Quit
    BY <1>6 DEF SavedStory, Quit, Saving, session, machine
  <1>7. CASE UNCHANGED vars
    BY <1>7 DEF SavedStory, vars
  <1> QED
    BY <1>1, <1>2, <1>3, <1>4, <1>5, <1>6, <1>7, StartKeepsSaved,
       TakeIdentityKeepsSaved, RenameKeepsSaved DEF Next, SaveToken, SavePilotId

LEMMA StoryIsObeyed == IInv /\ SavedStory => SavedIsObeyed
  <1> SUFFICES ASSUME IInv, SavedStory, NEW key \in PanelKeys, saved[key] # {}
               PROVE  /\ LastValue(disk.text, Aliases(key)) \in saved[key]
                      /\ key = "token" /\ pc = "running" /\ ~ignored /\ env.token = <<>> =>
                           endpoint.auth_token \in saved[key]
                      /\ key = "simbrief_id" =>
                           \A value \in saved[key] :
                               Find(value, "#", 1) = 0 => ConfigValue(disk.text, key) = value
    BY DEF SavedIsObeyed
  <1>1. PICK value \in saved[key] : TRUE
    OBVIOUS
  <1>2. /\ saved[key] = {value} /\ SaysOnly(disk.text, key, value)
        /\ key = "token" /\ ~ignored /\ env.token = <<>> /\ pc # "down" =>
             endpoint.auth_token = value
    BY DEF SavedStory
  <1>3. disk.text \in Seq(Line) /\ value \in Seq(Words)
    BY SavedAreTexts DEF IInv, FilesOK, Files
  <1>4. /\ LastValue(disk.text, Aliases(key)) = value
        /\ Find(value, "#", 1) = 0 => ConfigValue(disk.text, key) = value
    BY <1>2, <1>3, SaysOnlyIsObeyed
  <1> QED
    BY <1>2, <1>4

\* What was saved last is what the file says, what the session uses and what the
\* panel shows, through every failure and end of the plugin.
THEOREM SavesAreObeyed == Spec => []SavedIsObeyed
  <1>1. Init => SavedStory
    BY DEF Init, SavedStory, Nothing
  <1>2. IInv /\ SavedStory /\ [Next]_vars => SavedStory'
    BY NextKeepsSaved
  <1> QED
    BY SavesAreWhole, <1>1, <1>2, StoryIsObeyed, PTL DEF Spec
=============================================================================
