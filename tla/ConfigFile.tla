----------------------------- MODULE ConfigFile -----------------------------
(***************************************************************************)
(* zoal_atc.cfg and who writes it (src/xplane/xplane_plugin.cpp): the      *)
(* plugin's start, which reads the file, leaves a template where there is  *)
(* none and appends an identity where there is none; the panel's settings, *)
(* saved through a temporary file and a rename; the pilot with an editor;  *)
(* and X-Plane, which may end between any two of these steps.              *)
(***************************************************************************)
EXTENDS EndpointConfig

CONSTANTS
    HandFiles,   \* the files the pilot may have written before the first start
    HandLines,   \* the lines the pilot writes by hand
    Tokens,      \* the tokens the pilot types in the panel
    PilotIds,    \* the pilot IDs the pilot types in the panel
    Environments,\* ZOAL_ATC_CONSOLE_URL and _TOKEN as X-Plane may find them,
                 \* <<>> for unset
    MaxStarts,   \* bound: starts of the plugin
    MaxSaves,    \* bound: saves from the panel
    MaxEdits,    \* bound: lines changed by hand
    MaxFaults    \* bound: writes that fail

ASSUME ConfigFileAssumption ==
    /\ HandFiles \subseteq Seq(Line) /\ HandLines \subseteq Line
    /\ Tokens \subseteq Seq(Words) /\ PilotIds \subseteq Seq(Words)
    /\ {MaxStarts, MaxSaves, MaxEdits, MaxFaults} \subseteq Nat

VARIABLES
    windows,    \* whether this is the Windows build
    env,        \* the environment X-Plane is started in
    disk,       \* the file: whether it is there, and its lines
    temp,       \* the temporary file beside it, likewise
    endpoint,   \* what the plugin dials and says in its hello
    ignored,    \* ghost: whether it refused the file when it started, and has
                \* been given no token since
    pc,         \* what the plugin is doing
    job,        \* the save in hand: key, value, the text read and the new one
    recorded,   \* ghost: the identity the file is known to hold, or <<>>
    saved,      \* ghost: per key of the panel, the value saved last, or {}
    starts, saves, edits, faults

vars == <<windows, env, disk, temp, endpoint, ignored, pc, job, recorded, saved,
          starts, saves, edits, faults>>
machine  == <<windows, env>>
session  == <<machine, ignored>>
files    == <<disk, temp>>
counters == <<starts, saves, edits, faults>>

Absent     == [there |-> FALSE, text |-> <<>>]
File(text) == [there |-> TRUE, text |-> text]

\* WebSocketEndpoint: the hosted console, and nobody in particular.
DefaultEndpoint ==
    [host |-> <<"atc.zoal.app">>, port |-> kDefaultWsPort, path |-> kDefaultPath,
     auth_token |-> <<>>, client_id |-> <<>>, simbrief_id |-> <<>>]

\* generate_client_id: random digits, never twice the same.
ClientId(n)  == [digit \in 1..n |-> "f"]
CutShort(id) == <<"cut">> \o id

NoJob     == [key |-> "", value |-> <<>>, read |-> <<>>, text |-> <<>>]
PanelKeys == {"token", "simbrief_id"}
Nothing   == [key \in PanelKeys |-> {}]

Init ==
    /\ windows \in BOOLEAN
    /\ env \in Environments
    /\ disk \in {Absent} \union {File(text) : text \in HandFiles}
    /\ temp = Absent
    /\ endpoint = DefaultEndpoint
    /\ ignored = FALSE
    /\ pc = "down"
    /\ job = NoJob
    /\ recorded = <<>>
    /\ saved = Nothing
    /\ starts = 0 /\ saves = 0 /\ edits = 0 /\ faults = 0
-----------------------------------------------------------------------------
Fault == faults < MaxFaults /\ faults' = faults + 1
NoFault == UNCHANGED faults

\* resolve_console_endpoint reads the file.  One it refuses is ignored as a
\* whole.
Start ==
    /\ pc = "down"
    /\ starts < MaxStarts
    /\ starts' = starts + 1
    /\ endpoint' = IF disk.there /\ Accepted(disk.text)
                   THEN ApplyConfigText(disk.text, DefaultEndpoint)
                   ELSE DefaultEndpoint
    /\ ignored' = (disk.there /\ ~Accepted(disk.text))
    /\ recorded' = IF recorded = <<>> THEN endpoint'.client_id ELSE recorded
    /\ pc' = IF disk.there THEN "identity" ELSE "template"
    /\ UNCHANGED <<machine, files, job, saved, saves, edits, faults>>

\* write_config_template_if_missing: only a file that is still missing is
\* created; the disk may fill up on the way, or refuse it.
WriteTemplate ==
    /\ pc = "template"
    /\ pc' = "identity"
    /\ \/ NoFault /\ disk' = IF disk.there THEN disk ELSE File(Template)
       \/ /\ Fault
          /\ ~disk.there
          /\ disk' \in {disk, File(<<>>), File(SubSeq(Template, 1, 1))}
    /\ UNCHANGED <<session, temp, endpoint, job, recorded, saved, starts, saves, edits>>

\* The identity the file has, or a new one that is appended to it; the
\* appended line may be missing, or cut short by a full disk.
TakeIdentity ==
    /\ pc = "identity"
    /\ pc' = "environment"
    /\ IF endpoint.client_id # <<>>
       THEN UNCHANGED <<endpoint, disk, recorded, faults>>
       ELSE LET new == ClientId(starts)
                Appended(id) == File(Append(disk.text, Assignment("client_id", id)))
            IN /\ endpoint' = [endpoint EXCEPT !.client_id = new]
               /\ \/ NoFault /\ disk' = Appended(new) /\ recorded' = new
                  \/ Fault /\ disk' \in {disk, Appended(CutShort(new))} /\ recorded' = <<>>
    /\ UNCHANGED <<session, temp, job, saved, starts, saves, edits>>

\* ZOAL_ATC_CONSOLE_URL's address, when it is one.
EnvironmentUrl == env.url # <<>> /\ ParseUrl(env.url).ok

\* Bug: the address given in the environment comes with no identity.
OverrideAnonymously ==
    /\ pc = "environment"
    /\ pc' = "running"
    /\ endpoint' = [endpoint EXCEPT
                       !.host = IF EnvironmentUrl THEN ParseUrl(env.url).host ELSE @,
                       !.client_id = IF EnvironmentUrl THEN <<>> ELSE @]
    /\ UNCHANGED <<session, files, job, recorded, saved, counters>>

\* Another address, with the token and the client's identity carried over; the
\* pilot ID is not.  And another token.
Override ==
    /\ pc = "environment"
    /\ pc' = "running"
    /\ LET url  == ParseUrl(env.url)
           base == IF EnvironmentUrl
                   THEN [endpoint EXCEPT !.host = url.host, !.port = url.port,
                                         !.path = url.path, !.simbrief_id = <<>>]
                   ELSE endpoint
       IN endpoint' = IF env.token = <<>> THEN base ELSE [base EXCEPT !.auth_token = env.token]
    /\ UNCHANGED <<session, files, job, recorded, saved, counters>>
-----------------------------------------------------------------------------
Save(key, value) ==
    /\ pc = "running"
    /\ saves < MaxSaves
    /\ TokenIsSafe(value)
    /\ saves' = saves + 1
    /\ job' = [key |-> key, value |-> value, read |-> disk.text,
               text |-> Upsert(disk.text, key, value)]
    /\ pc' = "write"
    /\ UNCHANGED <<session, files, endpoint, recorded, saved, starts, edits, faults>>

\* The panel's save_connection_settings and save_settings: both go by
\* token_is_safe alone.  A file that is missing is read as an empty one.
SaveToken == \E token \in Tokens : Save("token", token)
SavePilotId == \E id \in PilotIds : Save("simbrief_id", id)

\* write_config_atomically: the temporary file first; without it nothing
\* happens.  One that cannot be opened stays as it was, one that cannot be
\* written to its end is removed.
WriteTemp ==
    /\ pc = "write"
    /\ \/ NoFault /\ temp' = File(job.text) /\ job' = job
          /\ pc' = IF windows THEN "remove" ELSE "rename"
       \/ Fault /\ temp' \in {temp, Absent} /\ job' = NoJob /\ pc' = "running"
    /\ UNCHANGED <<session, disk, endpoint, recorded, saved, starts, saves, edits>>

\* Windows will not rename over a file: it goes first, with all it held.
RemoveTarget ==
    /\ pc = "remove"
    /\ disk' = Absent
    /\ saved' = Nothing
    /\ pc' = "rename"
    /\ UNCHANGED <<session, temp, endpoint, job, recorded, counters>>

\* Whether a file assigns a key of the panel twice, or by its other name.
Ambiguous(text, key) ==
    \/ Cardinality(LiveLines(text, key)) > 1
    \/ \E alias \in Aliases(key) \ {key} : LiveLines(text, alias) # {}

\* Then the rename; a token is used at once (reauthenticate).  A rename that
\* fails takes the temporary file with it.
Rename ==
    /\ pc = "rename"
    /\ pc' = "running"
    /\ job' = NoJob
    /\ temp' = Absent
    /\ \/ /\ NoFault
          /\ disk' = temp
          /\ saved' = [saved EXCEPT ![job.key] =
                          IF Ambiguous(job.read, job.key) THEN {} ELSE {job.value}]
          /\ endpoint' = IF job.key = "token"
                         THEN [endpoint EXCEPT !.auth_token = job.value]
                         ELSE endpoint
          /\ ignored' = (ignored /\ job.key # "token")
       \/ Fault /\ UNCHANGED <<disk, saved, endpoint, ignored>>
    /\ UNCHANGED <<machine, recorded, starts, saves, edits>>

\* X-Plane ends, or the plugin is stopped, wherever it is; a temporary file
\* being written stays behind as far as it got.
Quit ==
    /\ pc # "down"
    /\ pc' = "down"
    /\ endpoint' = DefaultEndpoint
    /\ job' = NoJob
    /\ temp' \in {temp} \union (IF pc = "write" THEN {File(<<>>), File(job.text)} ELSE {})
    /\ UNCHANGED <<session, disk, recorded, saved, counters>>

\* The pilot adds a line, or changes one, at any time.
Edit ==
    /\ edits < MaxEdits
    /\ edits' = edits + 1
    /\ \E line \in HandLines :
         \/ disk' = File(Append(disk.text, line))
         \/ \E i \in DOMAIN disk.text : disk' = File([disk.text EXCEPT ![i] = line])
    /\ recorded' = <<>>
    /\ saved' = Nothing
    /\ UNCHANGED <<session, temp, endpoint, pc, job, starts, saves, faults>>

Next ==
    \/ Start \/ WriteTemplate \/ TakeIdentity \/ Override
    \/ SaveToken \/ SavePilotId \/ WriteTemp \/ RemoveTarget \/ Rename
    \/ Quit \/ Edit

Spec == Init /\ [][Next]_vars
-----------------------------------------------------------------------------
LastOf(text, keys) ==
    CHOOSE i \in UNION {LiveLines(text, key) : key \in keys} :
        \A j \in UNION {LiveLines(text, key) : key \in keys} : i >= j

LastValue(text, keys) ==
    IF \A key \in keys : LiveLines(text, key) = {} THEN <<>>
    ELSE text[LastOf(text, keys)].value

\* What a file that is accepted says is the last live line of each key, and in
\* no way the order in which the keys come ("or key order in the file decides
\* whether the plugin has one", endpoint_config.cpp:306-308).
LastAssignmentWins ==
    Accepted(disk.text) =>
        LET said == ApplyConfigText(disk.text, DefaultEndpoint)
            url  == LastValue(disk.text, UrlKeys)
        IN /\ said.auth_token = LastValue(disk.text, TokenKeys)
           /\ said.client_id = LastValue(disk.text, {"client_id"})
           /\ said.simbrief_id = LastValue(disk.text, PilotKeys)
           /\ said.host = IF url = <<>> THEN DefaultEndpoint.host ELSE ParseUrl(url).host

\* What was saved last is what the file says, through every failure and end of
\* the plugin; a token is the one this session uses too, if it was given it or
\* could read the file when it began, and a pilot ID the one the panel shows, which
\* ends at a #.
\* Unless the file assigned the key twice, or by its other name, when it was
\* saved: then the line that is rewritten is not the one that is obeyed
\* (endpoint_config.cpp:99-103).
SavedIsObeyed ==
    \A key \in PanelKeys :
        saved[key] # {} /\ disk.there /\ Accepted(disk.text)
          => /\ LastValue(disk.text, Aliases(key)) \in saved[key]
             /\ key = "token" /\ pc = "running" /\ ~ignored /\ env.token = <<>> =>
                  endpoint.auth_token \in saved[key]
             /\ key = "simbrief_id" =>
                  \A value \in saved[key] :
                      Find(value, "#", 1) = 0 => ConfigValue(disk.text, key) = value

\* The identity a session has is the one of the session before, unless the
\* pilot changed the file or it could not be written: whatever else was saved,
\* wherever the plugin ended ("it has to be stable across restarts",
\* xplane_plugin.cpp:264-266).  On Windows the file may be gone between
\* RemoveTarget and Rename.
IdentityIsKept ==
    recorded # <<>> /\ ~windows =>
        /\ disk.there
        /\ Accepted(disk.text) => LastValue(disk.text, {"client_id"}) = recorded
        /\ pc \in {"environment", "running", "write", "rename"} =>
             endpoint.client_id = recorded

\* The identity never changes while the pilot leaves the file alone and every
\* write succeeds ("so it has to be stable across restarts, which means it lives
\* in the config file", xplane_plugin.cpp:265-266).
IdentityIsStable ==
    [][recorded # <<>> /\ edits' = edits /\ faults' = faults /\ ~windows
         => recorded' = recorded]_vars

OneLineDiffers(old, new) ==
    \/ \E line \in {new[i] : i \in DOMAIN new} : new = Append(old, line)
    \/ \E i \in DOMAIN new : \E j \in DOMAIN old : i = j /\ new = [old EXCEPT ![i] = new[i]]

\* No step of the plugin touches more of the pilot's file than one line: it
\* adds one or rewrites one, and creates a file only where there is none
\* ("their comments, their ordering and every key we did not touch survive",
\* endpoint_config.hpp:52-54).
OnlyOneLineChanges ==
    [][disk.there /\ disk' # disk /\ edits' = edits /\ disk'.there
       /\ (pc = "rename" => disk.text = job.read)
         => OneLineDiffers(disk.text, disk'.text)]_vars
=============================================================================
