--------------------------- MODULE WebSocketClient ---------------------------
(***************************************************************************)
(* The one connection to the console (src/transport/websocket_client.cpp)  *)
(* and the gate that paces dialling it (transport/reconnect_gate.hpp), as  *)
(* its threads use them: the reply receiver (xplane_plugin.cpp:861-978),   *)
(* the senders of the push-to-talk sink, and X-Plane's main thread, which  *)
(* changes the token and unloads the plugin.                               *)
(*                                                                         *)
(* mutex_ is held across a whole dial and across the send that follows it; *)
(* every other locked section is one step.  A socket is known by a handle  *)
(* the operating system reuses.  Time is counted in coarse ticks.          *)
(***************************************************************************)
EXTENDS Naturals, Sequences

CONSTANTS
    Senders,         \* the threads that call send_text
    Handles,         \* socket handles
    InitialDelay,    \* kInitialDelayMs
    MaxDelay,        \* kMaxDelayMs
    ConnectTimeout,  \* kConnectTimeoutMs, per address
    MaxAddresses,    \* how many addresses getaddrinfo returns
    MaxConnections,  \* bound: connections the console accepts
    MaxTexts,        \* bound: how many texts are sent
    MaxTokens        \* bound: how often the pilot saves another token

ASSUME ClientAssumption ==
    /\ Senders \intersect {"free", "receiver"} = {}
    /\ Handles \subseteq Nat \ {0} /\ Handles # {}
    /\ InitialDelay \in Nat \ {0} /\ MaxDelay \in Nat /\ InitialDelay <= MaxDelay
    /\ {ConnectTimeout, MaxConnections, MaxTexts, MaxTokens} \subseteq Nat
    /\ MaxAddresses \in Nat \ {0}

VARIABLES
    lock,          \* who holds mutex_ between two steps
    dial,          \* how far connect_locked is: "none", "tcp", "upgrade"
    address,       \* the address it tries
    stageAge,      \* how long it has tried it
    conn,          \* the current connection, 0 for none: connected_ and socket_
    handle,        \* socket_, 0 for -1
    alive,         \* whether the console still holds its end
    connToken,     \* the token the connection was opened with
    token,         \* endpoint_.auth_token
    blocked, delay, wait,  \* the gate: blocked_, delay_ms_, retry_at_ms_ - now
    sender,        \* what each sender is doing
    receiver,      \* where the receiver loop is
    reading,       \* the handle its recv was given
    main,          \* what the main thread does with the client
    \* history
    dialAge,       \* time since the last dial began
    opened,        \* connections opened
    closedAt,      \* connections opened when XPluginStop closed the client
    texts          \* texts asked to be sent

gateVars   == <<blocked, delay, wait>>
socketVars == <<conn, handle, alive, connToken>>
dialVars   == <<dial, address, stageAge, dialAge>>
vars == <<lock, dial, address, stageAge, conn, handle, alive, connToken, token,
          blocked, delay, wait, sender, receiver, reading, main, dialAge,
          opened, closedAt, texts>>

Init ==
    /\ lock = "free" /\ dial = "none" /\ address = 0 /\ stageAge = 0
    /\ conn = 0 /\ handle = 0 /\ alive = FALSE /\ connToken = 0 /\ token = 0
    /\ blocked = FALSE /\ delay = 0 /\ wait = 0
    /\ sender = [s \in Senders |-> "idle"]
    /\ receiver = "top" /\ reading = 0
    /\ main = "flying"
    /\ dialAge = MaxDelay
    /\ opened = 0 /\ closedAt = 0 /\ texts = 0
------------------------------------------------------------------------------
\* Bug: once blocked, the gate looks at no clock.
ReadyNever == ~blocked

\* ReconnectGate.
Ready == ~blocked \/ wait = 0

NoteFailure ==
    LET next == IF delay = 0 THEN InitialDelay
                ELSE IF 2 * delay > MaxDelay THEN MaxDelay ELSE 2 * delay
    IN  /\ blocked' = TRUE
        /\ delay' = next
        \* retry_at_ms_ counts from the time connect_locked read at its start
        /\ wait' = IF next > dialAge THEN next - dialAge ELSE 0

ResetGate == blocked' = FALSE /\ delay' = 0 /\ wait' = 0

\* close_locked.
CloseSocket == conn' = 0 /\ handle' = 0 /\ alive' = FALSE /\ UNCHANGED connToken

\* Where a thread goes when its connect_locked is done.
Return(t, receiverTo, senderTo) ==
    /\ receiver' = IF t = "receiver" THEN receiverTo ELSE receiver
    /\ sender' = IF t = "receiver" THEN sender ELSE [sender EXCEPT ![t] = senderTo]

Threads    == Senders \union {"receiver"}
Calling(t) == IF t = "receiver" THEN receiver = "connecting" ELSE sender[t] = "calling"

\* connect_locked: refused by the gate.
GateRefuses(t) ==
    /\ lock = "free" /\ Calling(t)
    /\ conn = 0 /\ ~Ready
    /\ Return(t, "failed", "idle")
    /\ UNCHANGED <<lock, dialVars, socketVars, token, gateVars, reading, main,
                   opened, closedAt, texts>>

\* Bug: the gate is not asked.
BeginDialAtOnce(t) ==
    /\ lock = "free" /\ Calling(t)
    /\ conn = 0
    /\ lock' = t
    /\ dial' = "tcp" /\ address' = 1 /\ stageAge' = 0 /\ dialAge' = 0
    /\ UNCHANGED <<socketVars, token, gateVars, sender, receiver, reading, main, opened, closedAt, texts>>

\* connect_locked: a dial, which keeps the lock.
BeginDial(t) ==
    /\ lock = "free" /\ Calling(t)
    /\ conn = 0 /\ Ready
    /\ lock' = t
    /\ dial' = "tcp" /\ address' = 1 /\ stageAge' = 0 /\ dialAge' = 0
    /\ UNCHANGED <<socketVars, token, gateVars, sender, receiver, reading, main, opened, closedAt, texts>>

\* connect_within succeeded: send_handshake_locked, and wait for the answer.
TcpConnects ==
    /\ dial = "tcp"
    /\ dial' = "upgrade"
    /\ UNCHANGED <<lock, address, stageAge, dialAge, socketVars, token,
                   gateVars, sender, receiver, reading, main, opened, closedAt,
                   texts>>

\* The upgrade was accepted and the hello sent.
DialSucceeds ==
    /\ dial = "upgrade"
    /\ opened < MaxConnections
    /\ opened' = opened + 1
    /\ conn' = opened + 1 /\ handle' \in Handles /\ alive' = TRUE /\ connToken' = token
    /\ dial' = "none" /\ address' = 0 /\ stageAge' = 0
    /\ ResetGate
    /\ Return(lock, "peeking", "sending")
    /\ lock' = IF lock = "receiver" THEN "free" ELSE lock
    /\ UNCHANGED <<token, reading, main, dialAge, closedAt, texts>>

\* Refused, timed out, rejected or cut off, also during the hello: on to the
\* next address, or, like a name that does not resolve, a failure.
AddressFails ==
    /\ dial # "none"
    /\ address < MaxAddresses
    /\ address' = address + 1 /\ dial' = "tcp" /\ stageAge' = 0
    /\ UNCHANGED <<lock, dialAge, socketVars, token, gateVars, sender,
                   receiver, reading, main, opened, closedAt, texts>>

DialFails ==
    /\ \/ dial # "none" /\ address = MaxAddresses
       \/ dial = "tcp" /\ address = 1 /\ stageAge = 0
    /\ dial' = "none" /\ address' = 0 /\ stageAge' = 0
    /\ NoteFailure
    /\ Return(lock, "failed", "idle")
    /\ lock' = "free"
    /\ UNCHANGED <<dialAge, socketVars, token, reading, main, opened, closedAt,
                   texts>>
------------------------------------------------------------------------------
\* send_text, from a sender that the sink still runs.
SenderCalls(s) ==
    /\ main \in {"flying", "saving"}
    /\ sender[s] = "idle"
    /\ texts < MaxTexts
    /\ texts' = texts + 1
    /\ sender' = [sender EXCEPT ![s] = "calling"]
    /\ UNCHANGED <<lock, dialVars, socketVars, token, gateVars, receiver, reading,
                   main, opened, closedAt>>

\* send_text_locked: a connection whose console is gone may still take a frame,
\* and any send may fail, which closes the connection.
SenderSends(s) ==
    /\ \/ lock = "free" /\ sender[s] = "calling"
       \/ lock = s /\ sender[s] = "sending"
    /\ conn # 0
    /\ UNCHANGED socketVars \/ CloseSocket
    /\ sender' = [sender EXCEPT ![s] = "idle"]
    /\ lock' = "free"
    /\ UNCHANGED <<dialVars, token, gateVars, receiver, reading, main, opened,
                   closedAt, texts>>

------------------------------------------------------------------------------
\* reply_receiver_loop and receive_text.
Stopping == main \notin {"flying", "saving"}

ReceiverGoes(from, to) ==
    /\ receiver = from
    /\ receiver' = to
    /\ UNCHANGED <<lock, dialVars, socketVars, token, gateVars, sender, main, opened,
                   closedAt, texts>>

\* The flag is read before the call, and again after it.
ReceiverLoops ==
    ReceiverGoes("top", IF Stopping THEN "exited" ELSE "connecting") /\ UNCHANGED reading

ReceiverConnected ==
    /\ lock = "free" /\ conn # 0
    /\ ReceiverGoes("connecting", "peeking") /\ UNCHANGED reading

\* recv_exact: the handle is read under the lock and used after it.
ReceiverPeeks ==
    /\ lock = "free"
    /\ IF conn = 0 THEN ReceiverGoes("peeking", "failed") /\ UNCHANGED reading
       ELSE ReceiverGoes("peeking", "receiving") /\ reading' = handle

\* Bytes arrived: more of them are needed, or they complete a frame.  They are
\* those of whatever connection has the handle now.
Readable == conn # 0 /\ handle = reading

ReceiverReceives ==
    /\ Readable
    /\ \/ ReceiverGoes("receiving", "peeking")
       \/ ReceiverGoes("receiving", "received")
    /\ reading' = 0

ReceiverHandles ==
    ReceiverGoes("received", IF Stopping THEN "exited" ELSE "top") /\ UNCHANGED reading

\* recv returns an error or the end of the stream.
ReceiverBroken ==
    /\ ~Readable \/ ~alive
    /\ ReceiverGoes("receiving", "closing") /\ UNCHANGED reading

\* The end of recv_exact, and the cases of receive_text that close the
\* connection: a close frame, a fragment, a frame too large.
ReceiverCloses ==
    /\ lock = "free"
    /\ \/ receiver = "closing" /\ IF handle = reading THEN CloseSocket
                                                      ELSE UNCHANGED socketVars
       \/ receiver = "received" /\ CloseSocket
    /\ receiver' = "failed"
    /\ reading' = 0
    /\ UNCHANGED <<lock, dialVars, token, gateVars, sender, main, opened, closedAt,
                   texts>>

\* After a failure the loop sleeps for a second.
ReceiverSleeps ==
    ReceiverGoes("failed", IF Stopping THEN "exited" ELSE "sleeping") /\ UNCHANGED reading

ReceiverWakes == ReceiverGoes("sleeping", "top") /\ UNCHANGED reading

ReceiverStep ==
    \/ ReceiverLoops \/ ReceiverConnected \/ ReceiverPeeks \/ ReceiverHandles
    \/ ReceiverBroken \/ ReceiverCloses \/ ReceiverSleeps \/ ReceiverWakes
    \/ GateRefuses("receiver") \/ BeginDial("receiver")

------------------------------------------------------------------------------
\* apply_settings on the main thread: the pilot saves another token.
MainSaves ==
    /\ main = "flying"
    /\ token < MaxTokens
    /\ main' = "saving"
    /\ UNCHANGED <<lock, dialVars, socketVars, token, gateVars, sender, receiver,
                   reading, opened, closedAt, texts>>

\* Bug: the connection is kept.
ReauthenticateLater ==
    /\ main = "saving"
    /\ lock = "free"
    /\ token' = token + 1
    /\ ResetGate
    /\ main' = "flying"
    /\ UNCHANGED <<lock, dialVars, socketVars, sender, receiver, reading, opened,
                   closedAt, texts>>

Reauthenticate ==
    /\ main = "saving"
    /\ lock = "free"
    /\ token' = token + 1
    /\ ResetGate
    /\ CloseSocket
    /\ main' = "flying"
    /\ UNCHANGED <<lock, dialVars, sender, receiver, reading, opened, closedAt,
                   texts>>

\* stop_reply_receiver, after the sink's threads are gone: set the flag, close
\* the client, join the receiver.
MainStops ==
    /\ main = "flying"
    /\ \A s \in Senders : sender[s] = "idle"
    /\ main' = "closing"
    /\ UNCHANGED <<lock, dialVars, socketVars, token, gateVars, sender, receiver,
                   reading, opened, closedAt, texts>>

\* Bug: the receiver is joined with its connection open.
MainJoinsOpen ==
    /\ main = "closing"
    /\ lock = "free"
    /\ closedAt' = opened
    /\ main' = "joining"
    /\ UNCHANGED <<lock, dialVars, socketVars, token, gateVars, sender, receiver,
                   reading, opened, texts>>

MainCloses ==
    /\ main = "closing"
    /\ lock = "free"
    /\ CloseSocket
    /\ closedAt' = opened
    /\ main' = "joining"
    /\ UNCHANGED <<lock, dialVars, token, gateVars, sender, receiver, reading,
                   opened, texts>>

MainJoins ==
    /\ main = "joining"
    /\ receiver = "exited"
    /\ main' = "stopped"
    /\ UNCHANGED <<lock, dialVars, socketVars, token, gateVars, sender, receiver,
                   reading, opened, closedAt, texts>>

\* The console closes its end, or the network does.
ConsoleDrops ==
    /\ alive
    /\ alive' = FALSE
    /\ UNCHANGED <<lock, dialVars, conn, handle, connToken, token, gateVars, sender,
                   receiver, reading, main, opened, closedAt, texts>>

\* Time passes; connect_within gives an address no more than its time, nothing
\* bounds the recv of the handshake.
Older(age) == IF age < MaxDelay THEN age + 1 ELSE age

Tick ==
    /\ dial = "tcp" => stageAge < ConnectTimeout
    /\ stageAge' = IF dial = "tcp" THEN stageAge + 1 ELSE stageAge
    /\ dialAge' = Older(dialAge)
    /\ wait' = IF wait > 0 THEN wait - 1 ELSE 0
    /\ UNCHANGED <<lock, dial, address, socketVars, token, blocked, delay, sender,
                   receiver, reading, main, opened, closedAt, texts>>

DialStep    == TcpConnects \/ DialSucceeds \/ AddressFails \/ DialFails
SenderDials == \E s \in Senders : GateRefuses(s) \/ BeginDial(s)
SenderStep  == SenderDials \/ \E s \in Senders : SenderSends(s)
MainStep    == Reauthenticate \/ MainCloses \/ MainJoins

Next == \/ DialStep \/ ReceiverStep \/ ReceiverReceives \/ SenderStep
        \/ (\E s \in Senders : SenderCalls(s))
        \/ MainSaves \/ MainStops \/ MainStep \/ ConsoleDrops \/ Tick

\* Threads run, time passes, and an address that does not connect is given up;
\* nothing is owed of the console, which may hold an upgrade or a send for ever.
Fairness == /\ WF_vars(ReceiverStep) /\ WF_vars(SenderDials) /\ WF_vars(MainStep)
            /\ WF_vars(Tick) /\ WF_vars(dial = "tcp" /\ DialStep)

Spec == Init /\ [][Next]_vars /\ Fairness
------------------------------------------------------------------------------
TypeOK ==
    /\ lock \in Threads \union {"free"}
    /\ dial \in {"none", "tcp", "upgrade"} /\ address \in 0..MaxAddresses
    /\ stageAge \in 0..ConnectTimeout
    /\ conn \in 0..opened /\ handle \in Handles \union {0} /\ alive \in BOOLEAN
    /\ connToken \in 0..token /\ token \in 0..MaxTokens
    /\ blocked \in BOOLEAN /\ delay \in 0..MaxDelay /\ wait \in 0..delay
    /\ sender \in [Senders -> {"idle", "calling", "sending"}]
    /\ receiver \in {"top", "connecting", "peeking", "receiving", "received",
                     "closing", "failed", "sleeping", "exited"}
    /\ reading \in Handles \union {0}
    /\ main \in {"flying", "saving", "closing", "joining", "stopped"}
    /\ dialAge \in 0..MaxDelay
    /\ opened \in 0..MaxConnections /\ closedAt \in 0..opened
    /\ texts \in 0..MaxTexts

\* A connection is never left running on a token the pilot has replaced, and the
\* gate holds nothing against a console that answers: a drop is followed by a
\* prompt first retry (reauthenticate, note_success).
ConnectionIsFresh ==
    conn # 0 => connToken = token /\ ~blocked /\ delay = 0

\* However many threads ask for it, a dial begins no sooner after the last
\* failed one began than the wait in force, and waits double up to the limit;
\* only a new token cuts one short (ReconnectGate, connect_locked).
DialStartsArePaced ==
    [][/\ dial = "none" /\ dial' = "tcp" /\ blocked => dialAge >= delay
       /\ blocked /\ blocked' /\ delay' # delay =>
            delay' >= delay /\ (delay' = 2 * delay \/ delay' = MaxDelay)
       /\ blocked /\ ~blocked' => conn' # 0 \/ token' # token]_vars

\* The plugin does not give up: without a connection, one is dialled again,
\* until the plugin is unloaded.
KeepsTrying ==
    conn = 0 ~> (dial # "none" \/ conn # 0 \/ Stopping)

\* Unloading joins the receiver.  It is held only by a console that never
\* answers an upgrade, or by a connection that stays, which the receiver opened
\* because it had read the flag before it was set (stop_reply_receiver,
\* receive_text).
StopReturnsUnlessHeld ==
    main = "closing" ~> \/ main = "stopped"
                        \/ [](dial = "upgrade")
                        \/ [](conn > closedAt /\ receiver \in {"peeking", "receiving"})
==============================================================================
