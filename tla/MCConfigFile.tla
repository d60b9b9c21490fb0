---------------------------- MODULE MCConfigFile ----------------------------
EXTENDS ConfigFile

MCWords     == STRING
MCLowerCase == [Token |-> "token", WS |-> "ws"]
MCNumber    == "0" :> 0 @@ "80" :> 80 @@ "8765" :> 8765 @@ "65535" :> 65535 @@ "65536" :> 65536
MCControl   == {"<nl>"}
MCForging   == {"<quote>", "<backslash>"}

MCHandFiles ==
    { << [Assignment("Token", <<"T">>) EXCEPT !.separator = ":"],
         Assignment("client_id", <<"mine">>),
         Assignment("url", <<"host", ":", "8765">>) >> }

MCHandLines ==
    { Assignment("url", <<"WS", "://", "[", ":", ":", "1", "]">>),
      Assignment("url", <<"wss", "://", "host">>),
      Assignment("auth_token", <<"T">>),
      Assignment("simbrief_id", <<"7", "#", "8">>) }

MCTokens   == {<<"A">>, <<>>, <<"B", "<nl>">>}
MCPilotIds == {<<"1">>}
QuotedPilotIds == {<<"1", "<quote>">>}

MCEnvironments ==
    { [url |-> <<>>, token |-> <<>>],
      [url |-> <<"host", ":", "80", "/", "x">>, token |-> <<"E">>] }
=============================================================================
