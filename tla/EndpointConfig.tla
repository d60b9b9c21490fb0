--------------------------- MODULE EndpointConfig ---------------------------
(***************************************************************************)
(* The console's address and the plugin's configuration file               *)
(* (src/transport/endpoint_config.cpp), as operators.                      *)
(*                                                                         *)
(* A value or a URL is the sequence of the marks and words it is made of:  *)
(* <<"ws", "://", "host", ":", "8765">>.  A line of the file is a record:  *)
(* commented or not, the key as typed, the separator ("" for a line that   *)
(* assigns nothing) and the value.                                         *)
(***************************************************************************)
EXTENDS Naturals, FiniteSets, SequencesExt

CONSTANTS
    Words,       \* the marks and words there are
    LowerCase,   \* to_lower, for the words that have capitals
    Number,      \* what the numerals among the words stand for
    Control,     \* the words that hold a control character
    Forging      \* the words that hold a quote or a backslash

\* The words the plugin itself writes into the file.
OwnWords ==
    {"url", "token", "client_id", "simbrief_id", "f", "cut", "ws", "://", "127.0.0.1", ":",
     "8765", "/", "plugin", "your-shared-secret", "0123456789abcdef", "your-simbrief-id"}

ASSUME WordsAssumption ==
    /\ OwnWords \subseteq Words
    /\ \A word \in DOMAIN Number : Number[word] \in Nat
    /\ \A word \in DOMAIN LowerCase : LowerCase[word] \notin DOMAIN LowerCase
    /\ OwnWords \intersect DOMAIN LowerCase = {}

kDefaultWsPort == 80
kDefaultPath   == <<"/", "plugin">>

ToLower(word) == IF word \in DOMAIN LowerCase THEN LowerCase[word] ELSE word

\* The place of the first mark at or after from, 0 when there is none; and of
\* the last.
Find(text, mark, from) ==
    LET places == {i \in DOMAIN text : i >= from /\ text[i] = mark}
    IN IF places = {} THEN 0 ELSE CHOOSE i \in places : \A j \in places : i <= j

FindLast(text, mark) ==
    LET places == {i \in DOMAIN text : text[i] = mark}
    IN IF places = {} THEN 0 ELSE CHOOSE i \in places : \A j \in places : i >= j

Before(text, i) == SubSeq(text, 1, i - 1)
After(text, i)  == SubSeq(text, i + 1, Len(text))
-----------------------------------------------------------------------------
\* parse_websocket_url: the steps answer a record whose ok says whether the
\* URL is still acceptable.
Refused == [ok |-> FALSE]

\* split_authority: host and port, the host in brackets or up to the last colon.
SplitAuthority(authority) ==
    LET close == Find(authority, "]", 1)
        rest  == After(authority, close)
        colon == FindLast(authority, ":")
    IN IF authority # <<>> /\ Head(authority) = "["
       THEN IF close = 0 \/ (rest # <<>> /\ Head(rest) # ":")
            THEN Refused
            ELSE [ok   |-> TRUE,
                  host |-> SubSeq(authority, 2, close - 1),
                  port |-> IF rest = <<>> THEN <<>> ELSE Tail(rest)]
       ELSE IF colon = 0
            THEN [ok |-> TRUE, host |-> authority, port |-> <<>>]
            ELSE [ok   |-> TRUE,
                  host |-> Before(authority, colon),
                  port |-> After(authority, colon)]

\* parse_port, of a port that is written: one numeral from 1 to 65535.
PortOk(port) ==
    /\ Len(port) = 1
    /\ Head(port) \in DOMAIN Number
    /\ Number[Head(port)] \in 1..65535

PortOf(port) == IF port = <<>> THEN kDefaultWsPort ELSE Number[Head(port)]

\* What is left of a URL without its scheme, which may only be ws.
WithoutScheme(url) ==
    LET at == Find(url, "://", 1)
    IN IF at = 0
       THEN [ok |-> TRUE, rest |-> url]
       ELSE [ok   |-> at = 2 /\ ToLower(Head(url)) = "ws",
             rest |-> After(url, at)]

ParseUrl(url) ==
    LET cut     == WithoutScheme(url)
        rest    == cut.rest
        bracket == rest # <<>> /\ Head(rest) = "["
        close   == Find(rest, "]", 1)
        slash   == Find(rest, "/", IF bracket THEN close ELSE 1)
        parts   == SplitAuthority(IF slash = 0 THEN rest ELSE Before(rest, slash))
    IN IF \/ ~cut.ok \/ rest = <<>> \/ (bracket /\ close = 0)
          \/ ~parts.ok
       THEN Refused
       ELSE IF parts.host = <<>> \/ ~(parts.port = <<>> \/ PortOk(parts.port))
            THEN Refused
            ELSE [ok   |-> TRUE,
                  host |-> parts.host,
                  port |-> PortOf(parts.port),
                  path |-> IF slash = 0 THEN kDefaultPath
                           ELSE SubSeq(rest, slash, Len(rest))]

-----------------------------------------------------------------------------
\* The file.
Line == [commented : BOOLEAN, key : Words, separator : {"", "=", ":"}, value : Seq(Words)]

Assignment(key, value) ==
    [commented |-> FALSE, key |-> key, separator |-> "=", value |-> value]

Comment(key, value) == [Assignment(key, value) EXCEPT !.commented = TRUE]

\* assigns_key, of the line without its comment mark.
AssignsKey(line, key) == line.separator # "" /\ ToLower(line.key) = key

LiveLines(text, key) ==
    {i \in DOMAIN text : ~text[i].commented /\ AssignsKey(text[i], key)}

CommentedLines(text, key) ==
    {i \in DOMAIN text : text[i].commented /\ AssignsKey(text[i], key)}

FirstOf(places) == CHOOSE i \in places : \A j \in places : i <= j

\* Bug: the commented line of the template is preferred to the live one.
TargetLineCommented(text, key) ==
    IF CommentedLines(text, key) # {} THEN FirstOf(CommentedLines(text, key))
    ELSE IF LiveLines(text, key) # {} THEN FirstOf(LiveLines(text, key))
    ELSE 0

\* upsert_config_value: the line it rewrites is the first live one of the key,
\* else the first commented one, 0 when there is neither.
TargetLine(text, key) ==
    IF LiveLines(text, key) # {} THEN FirstOf(LiveLines(text, key))
    ELSE IF CommentedLines(text, key) # {} THEN FirstOf(CommentedLines(text, key))
    ELSE 0

\* Bug: the file is cut after the line that was rewritten.
UpsertCutting(text, key, value) ==
    IF TargetLine(text, key) = 0
    THEN Append(text, Assignment(key, value))
    ELSE Append(SubSeq(text, 1, TargetLine(text, key) - 1), Assignment(key, value))

Upsert(text, key, value) ==
    IF TargetLine(text, key) = 0
    THEN Append(text, Assignment(key, value))
    ELSE [text EXCEPT ![TargetLine(text, key)] = Assignment(key, value)]

\* token_is_safe.
TokenIsSafe(value) == \A i \in DOMAIN value : value[i] \notin Control

\* The fence of client_id and simbrief_id, which go into a JSON frame.
IdentityIsSafe(value) ==
    TokenIsSafe(value) /\ \A i \in DOMAIN value : value[i] \notin Forging

UrlKeys   == {"url", "console_url"}
TokenKeys == {"token", "auth_token"}
PilotKeys == {"simbrief_id", "simbrief_pilot_id"}
Aliases(key) == CHOOSE keys \in {UrlKeys, TokenKeys, PilotKeys, {"client_id"}} : key \in keys

\* What makes apply_config_text give the file up at a line.
LineIsRefused(line) ==
    LET key == ToLower(line.key)
    IN /\ ~line.commented /\ line.separator # ""
       /\ \/ key \in UrlKeys /\ ~ParseUrl(line.value).ok
          \/ key \in TokenKeys /\ ~TokenIsSafe(line.value)
          \/ key \in {"client_id"} \union PilotKeys /\ ~IdentityIsSafe(line.value)

\* Bug: a url line forgets the identity read before it.
ApplyLineAfresh(endpoint, line) ==
    LET key    == ToLower(line.key)
        parsed == ParseUrl(line.value)
    IN IF line.commented \/ line.separator = "" THEN endpoint
       ELSE IF key \in UrlKeys
            THEN [endpoint EXCEPT !.host = parsed.host, !.port = parsed.port,
                                  !.path = parsed.path, !.client_id = <<>>]
       ELSE IF key \in TokenKeys THEN [endpoint EXCEPT !.auth_token = line.value]
       ELSE IF key = "client_id" THEN [endpoint EXCEPT !.client_id = line.value]
       ELSE IF key \in PilotKeys THEN [endpoint EXCEPT !.simbrief_id = line.value]
       ELSE endpoint

\* One line over what the lines before it said: a url rebuilds the endpoint
\* and carries the token and the identities over.
ApplyLine(endpoint, line) ==
    LET key    == ToLower(line.key)
        parsed == ParseUrl(line.value)
    IN IF line.commented \/ line.separator = "" THEN endpoint
       ELSE IF key \in UrlKeys
            THEN [endpoint EXCEPT !.host = parsed.host, !.port = parsed.port,
                                  !.path = parsed.path]
       ELSE IF key \in TokenKeys THEN [endpoint EXCEPT !.auth_token = line.value]
       ELSE IF key = "client_id" THEN [endpoint EXCEPT !.client_id = line.value]
       ELSE IF key \in PilotKeys THEN [endpoint EXCEPT !.simbrief_id = line.value]
       ELSE endpoint

Accepted(text) == \A i \in DOMAIN text : ~LineIsRefused(text[i])

\* apply_config_text, of a text it accepts; it refuses any other as a whole.
ApplyConfigText(text, base) ==
    LET said[n \in 0..Len(text)] ==
            IF n = 0 THEN base ELSE ApplyLine(said[n - 1], text[n])
    IN said[Len(text)]

\* default_config_template: every key commented out.
Template ==
    << Comment("url", <<"ws", "://", "127.0.0.1", ":", "8765", "/", "plugin">>),
       Comment("token", <<"your-shared-secret">>),
       Comment("client_id", <<"0123456789abcdef">>),
       Comment("simbrief_id", <<"your-simbrief-id">>) >>

\* config_value, by which the panel shows the file: only "=" separates, the key
\* is compared as it is typed, and the line ends at a #.
ConfigValue(text, key) ==
    LET places == {i \in DOMAIN text : /\ ~text[i].commented
                                       /\ text[i].separator = "="
                                       /\ text[i].key = key}
        last   == CHOOSE i \in places : \A j \in places : i >= j
        hash   == Find(text[last].value, "#", 1)
    IN IF places = {} THEN <<>>
       ELSE IF hash = 0 THEN text[last].value ELSE Before(text[last].value, hash)
=============================================================================
