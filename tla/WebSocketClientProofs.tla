------------------------ MODULE WebSocketClientProofs ------------------------
(***************************************************************************)
(* The connection's freshness and the pace of its dials, for any number of *)
(* senders, addresses, connections and tokens.                             *)
(***************************************************************************)
EXTENDS WebSocketClient, TLAPS

\* Who holds the lock between two steps is dialling, without a connection, or
\* is a sender about to send on the one it opened.
LockHeld ==
    /\ dial # "none" => lock \in Threads /\ conn = 0
    /\ lock # "free" /\ dial = "none" => lock \in Senders

\* When nobody dials, what is left to wait makes up the age of the last dial
\* to the whole delay.
GatePaced ==
    /\ blocked => delay > 0
    /\ blocked /\ dial = "none" => wait + dialAge >= delay

\* The pilot saves only while there is a token left.
SavesBounded == main = "saving" => token < MaxTokens

IInv == TypeOK /\ LockHeld /\ GatePaced /\ SavesBounded /\ ConnectionIsFresh
------------------------------------------------------------------------------
\* The type invariant, in the parts that the steps disturb.
Numbers ==
    /\ address \in 0..MaxAddresses /\ stageAge \in 0..ConnectTimeout
    /\ token \in 0..MaxTokens /\ connToken \in 0..token
    /\ opened \in 0..MaxConnections /\ conn \in 0..opened /\ closedAt \in 0..opened
    /\ texts \in 0..MaxTexts

Gate == delay \in 0..MaxDelay /\ wait \in 0..delay /\ dialAge \in 0..MaxDelay

Flags == alive \in BOOLEAN /\ blocked \in BOOLEAN

Places ==
    /\ lock \in Threads \union {"free"}
    /\ dial \in {"none", "tcp", "upgrade"}
    /\ handle \in Handles \union {0} /\ reading \in Handles \union {0}
    /\ sender \in [Senders -> {"idle", "calling", "sending"}]
    /\ receiver \in {"top", "connecting", "peeking", "receiving", "received",
                     "closing", "failed", "sleeping", "exited"}
    /\ main \in {"flying", "saving", "closing", "joining", "stopped"}

LEMMA TypeParts == TypeOK <=> Numbers /\ Gate /\ Flags /\ Places
  BY DEF TypeOK, Numbers, Gate, Flags, Places

LEMMA Together ==
    ASSUME Numbers', Gate', Flags', Places', LockHeld', GatePaced', SavesBounded',
           ConnectionIsFresh'
    PROVE  IInv'
  BY DEF TypeOK, IInv, Numbers, Gate, Flags, Places

LEMMA Bounds ==
    /\ MaxAddresses \in Nat \ {0} /\ ConnectTimeout \in Nat /\ MaxTokens \in Nat
    /\ MaxConnections \in Nat /\ MaxTexts \in Nat
    /\ InitialDelay \in Nat \ {0} /\ MaxDelay \in Nat /\ InitialDelay <= MaxDelay
  BY ClientAssumption DEF ClientAssumption

\* What a failed dial does to the gate.
LEMMA Backoff ==
    ASSUME Gate, NoteFailure
    PROVE  /\ blocked' = TRUE /\ delay' > 0 /\ delay' \in 0..MaxDelay /\ wait' \in 0..delay'
           /\ wait' + dialAge >= delay'
           /\ delay > 0 => delay' >= delay /\ (delay' = 2 * delay \/ delay' = MaxDelay)
  <1> DEFINE next == IF delay = 0 THEN InitialDelay
                     ELSE IF 2 * delay > MaxDelay THEN MaxDelay ELSE 2 * delay
  <1>1. blocked' = TRUE /\ delay' = next /\ wait' = IF next > dialAge THEN next - dialAge ELSE 0
    BY DEF NoteFailure
  <1>2. delay \in Nat /\ delay <= MaxDelay /\ dialAge \in 0..MaxDelay
    BY Bounds DEF Gate
  <1>3. /\ next \in 0..MaxDelay /\ next > 0
        /\ delay > 0 => next >= delay /\ (next = 2 * delay \/ next = MaxDelay)
    BY <1>2, Bounds
  <1> HIDE DEF next
  <1>4. /\ (IF next > dialAge THEN next - dialAge ELSE 0) \in 0..next
        /\ (IF next > dialAge THEN next - dialAge ELSE 0) + dialAge >= next
    BY <1>2, <1>3, Bounds
  <1>5. delay' \in 0..MaxDelay /\ wait' \in 0..delay' /\ wait' + dialAge >= delay'
    BY <1>1, <1>3, <1>4
  <1> QED
    BY <1>1, <1>3, <1>5

LEMMA Returning ==
    ASSUME Places, NEW t \in Threads, NEW to \in {"failed", "peeking"},
           NEW onto \in {"idle", "sending"}, Return(t, to, onto)
    PROVE  /\ receiver' \in {"top", "connecting", "peeking", "receiving", "received",
                             "closing", "failed", "sleeping", "exited"}
           /\ sender' \in [Senders -> {"idle", "calling", "sending"}]
  <1>1. t = "receiver" \/ t \in Senders
    BY DEF Threads
  <1> QED
    BY <1>1 DEF Return, Places
------------------------------------------------------------------------------
LEMMA InitInvariant == Init => IInv
  <1> SUFFICES ASSUME Init PROVE IInv
    OBVIOUS
  <1>1. Numbers
    <2>1. address = 0 /\ stageAge = 0 /\ token = 0 /\ connToken = 0 /\ opened = 0 /\ conn = 0
          /\ closedAt = 0 /\ texts = 0
      BY DEF Init
    <2> QED
      BY <2>1, Bounds DEF Numbers
  <1>2. Gate /\ GatePaced
    <2>1. delay = 0 /\ wait = 0 /\ dialAge = MaxDelay /\ blocked = FALSE
      BY DEF Init
    <2> QED
      BY <2>1, Bounds DEF Gate, GatePaced
  <1>3. Flags
    BY DEF Init, Flags
  <1>4. Places
    BY DEF Init, Places
  <1>5. LockHeld /\ ConnectionIsFresh /\ SavesBounded
    BY DEF Init, LockHeld, ConnectionIsFresh, SavesBounded
  <1> QED
    BY <1>1, <1>2, <1>3, <1>4, <1>5, TypeParts DEF IInv

\* Closing the socket disturbs nothing that the dial and the gate keep.
LEMMA Closing ==
    ASSUME IInv, UNCHANGED socketVars \/ CloseSocket,
           UNCHANGED <<dialVars, token, gateVars, opened>>,
           closedAt' \in {closedAt, opened},
           lock' = lock \/ (lock' = "free" /\ dial = "none"),
           texts' = texts, Places', main' = "saving" => token < MaxTokens
    PROVE  IInv'
  <1>1. /\ UNCHANGED <<dial, address, stageAge, dialAge, token, blocked, delay, wait, opened>>
        /\ connToken' = connToken /\ conn' \in {conn, 0} /\ alive' \in {alive, FALSE}
    BY DEF socketVars, CloseSocket, dialVars, gateVars
  <1>2. Numbers'
    <2>1. Numbers
      BY TypeParts DEF IInv
    <2> QED
      BY <1>1, <2>1, Bounds DEF Numbers
  <1>3. Gate' /\ GatePaced'
    BY <1>1, TypeParts DEF IInv, Gate, GatePaced
  <1>4. Flags'
    BY <1>1, TypeParts DEF IInv, Flags
  <1>5. LockHeld'
    BY <1>1 DEF IInv, LockHeld
  <1>6. ConnectionIsFresh' /\ SavesBounded'
    BY <1>1 DEF IInv, ConnectionIsFresh, SavesBounded
  <1> QED
    BY <1>2, <1>3, <1>4, <1>5, <1>6, Together

\* The steps that leave the connection, the dial and the gate alone.
LEMMA StayingKeeps ==
    ASSUME IInv, UNCHANGED <<lock, dialVars, socketVars, token, gateVars, opened, closedAt, texts>>,
           Places', main' = "saving" => token < MaxTokens
    PROVE  IInv'
  BY Closing

LEMMA ReceiverKeeps ==
    ASSUME IInv,
           \/ ReceiverLoops \/ ReceiverConnected \/ ReceiverPeeks \/ ReceiverReceives
           \/ ReceiverHandles \/ ReceiverBroken \/ ReceiverSleeps \/ ReceiverWakes
    PROVE  IInv'
  <1>1. UNCHANGED <<lock, dialVars, socketVars, token, gateVars, sender, main, opened, closedAt, texts>>
    BY DEF ReceiverLoops, ReceiverConnected, ReceiverPeeks, ReceiverReceives, ReceiverHandles,
           ReceiverBroken, ReceiverSleeps, ReceiverWakes, ReceiverGoes
  <1>2. receiver' \in {"exited", "connecting", "peeking", "failed", "receiving", "received",
                       "top", "closing", "sleeping"}
    BY DEF ReceiverLoops, ReceiverConnected, ReceiverPeeks, ReceiverReceives, ReceiverHandles,
           ReceiverBroken, ReceiverSleeps, ReceiverWakes, ReceiverGoes
  <1>3. reading' \in {reading, handle, 0}
    BY DEF ReceiverLoops, ReceiverConnected, ReceiverPeeks, ReceiverReceives, ReceiverHandles,
           ReceiverBroken, ReceiverSleeps, ReceiverWakes
  <1>4. Places'
    <2>1. dial' = dial /\ handle' = handle
      BY <1>1 DEF dialVars, socketVars
    <2> QED
      BY <1>1, <1>2, <1>3, <2>1, TypeParts DEF IInv, Places
  <1> QED
    BY <1>1, <1>4, StayingKeeps DEF IInv, SavesBounded

LEMMA ReceiverClosesKeeps == ASSUME IInv, ReceiverCloses PROVE IInv'
  <1>1. UNCHANGED socketVars \/ CloseSocket
    BY DEF ReceiverCloses
  <1>2. Places'
    <2>1. dial' = dial /\ handle' \in {handle, 0}
      BY <1>1 DEF ReceiverCloses, dialVars, socketVars, CloseSocket
    <2> QED
      BY <2>1, TypeParts DEF IInv, Places, ReceiverCloses
  <1> QED
    BY <1>1, <1>2, Closing DEF ReceiverCloses, IInv, SavesBounded

LEMMA GateRefusesKeeps == ASSUME IInv, NEW t \in Threads, GateRefuses(t) PROVE IInv'
  <1>1. Places'
    <2>1. dial' = dial /\ handle' = handle
      BY DEF GateRefuses, dialVars, socketVars
    <2> QED
      BY <2>1, Returning, TypeParts DEF IInv, Places, GateRefuses
  <1> QED
    BY <1>1, StayingKeeps DEF GateRefuses, IInv, SavesBounded

LEMMA SenderKeeps ==
    ASSUME IInv, NEW s \in Senders, SenderCalls(s) \/ SenderSends(s) PROVE IInv'
  <1>1. CASE SenderCalls(s)
    <2>1. texts' \in 0..MaxTexts
      <3>1. texts \in 0..MaxTexts /\ texts < MaxTexts /\ texts' = texts + 1
        BY <1>1 DEF IInv, TypeOK, SenderCalls
      <3> QED
        BY <3>1, Bounds
    <2>2. UNCHANGED <<lock, dialVars, socketVars, token, gateVars, receiver, reading, main,
                      opened, closedAt>>
      BY <1>1 DEF SenderCalls
    <2>3. UNCHANGED <<lock, dial, address, stageAge, dialAge, conn, handle, alive, connToken,
                      token, blocked, delay, wait, receiver, reading, main, opened, closedAt>>
      BY <2>2 DEF dialVars, socketVars, gateVars
    <2>4. Numbers'
      BY <2>1, <2>3, TypeParts DEF IInv, Numbers
    <2>5. Gate' /\ GatePaced' /\ LockHeld' /\ SavesBounded' /\ ConnectionIsFresh'
      BY <2>3, TypeParts DEF IInv, Gate, GatePaced, LockHeld, SavesBounded, ConnectionIsFresh
    <2>6. Flags'
      BY <2>3, TypeParts DEF IInv, Flags
    <2>7. Places'
      BY <1>1, <2>3, TypeParts DEF IInv, Places, SenderCalls
    <2> QED
      BY <2>4, <2>5, <2>6, <2>7, Together
  <1>2. CASE SenderSends(s)
    <2>1. lock' = "free" /\ dial = "none"
      BY <1>2 DEF IInv, LockHeld, SenderSends
    <2>2. Places'
      <3>1. dial' = dial /\ handle' \in {handle, 0}
        BY <1>2 DEF SenderSends, dialVars, socketVars, CloseSocket
      <3> QED
        BY <1>2, <3>1, TypeParts DEF IInv, Places, SenderSends
    <2> QED
      BY <1>2, <2>1, <2>2, Closing DEF SenderSends, IInv, SavesBounded
  <1> QED
    BY <1>1, <1>2

LEMMA MainKeeps ==
    ASSUME IInv, MainSaves \/ MainStops \/ MainCloses \/ MainJoins \/ ConsoleDrops PROVE IInv'
  <1>1. CASE MainSaves \/ MainStops \/ MainJoins
    <2>1. /\ UNCHANGED <<lock, dialVars, socketVars, token, gateVars, sender, receiver, reading,
                         opened, closedAt, texts>>
          /\ main' \in {"saving", "closing", "stopped"}
          /\ main' = "saving" => token < MaxTokens
      BY <1>1 DEF MainSaves, MainStops, MainJoins
    <2>2. Places'
      <3>1. dial' = dial /\ handle' = handle
        BY <2>1 DEF dialVars, socketVars
      <3> QED
        BY <2>1, <3>1, TypeParts DEF IInv, Places
    <2> QED
      BY <2>1, <2>2, StayingKeeps
  <1>2. CASE MainCloses
    <2>1. Places'
      <3>1. dial' = dial /\ handle' = 0
        BY <1>2 DEF MainCloses, dialVars, CloseSocket
      <3> QED
        BY <1>2, <3>1, TypeParts DEF IInv, Places, MainCloses
    <2> QED
      BY <1>2, <2>1, Closing DEF MainCloses
  <1>3. CASE ConsoleDrops
    <2>1. /\ UNCHANGED <<lock, dial, address, stageAge, dialAge, conn, handle, connToken, token,
                         blocked, delay, wait, sender, receiver, reading, main, opened, closedAt, texts>>
          /\ alive' = FALSE
      BY <1>3 DEF ConsoleDrops, dialVars, gateVars
    <2>2. Numbers' /\ Gate' /\ GatePaced' /\ LockHeld' /\ SavesBounded' /\ ConnectionIsFresh'
      BY <2>1, TypeParts DEF IInv, Numbers, Gate, GatePaced, LockHeld, SavesBounded, ConnectionIsFresh
    <2>3. Flags'
      BY <2>1, TypeParts DEF IInv, Flags
    <2>4. Places'
      BY <2>1, TypeParts DEF IInv, Places
    <2> QED
      BY <2>2, <2>3, <2>4, Together
  <1> QED
    BY <1>1, <1>2, <1>3

LEMMA ReauthenticateKeeps == ASSUME IInv, Reauthenticate PROVE IInv'
  <1>1. /\ UNCHANGED <<lock, dial, address, stageAge, dialAge, sender, receiver, reading,
                       opened, closedAt, texts, connToken>>
        /\ token' = token + 1 /\ conn' = 0 /\ handle' = 0 /\ alive' = FALSE
        /\ blocked' = FALSE /\ delay' = 0 /\ wait' = 0 /\ main' = "flying"
    BY DEF Reauthenticate, CloseSocket, ResetGate, dialVars
  <1>2. Numbers'
    <2>1. token \in 0..MaxTokens /\ token < MaxTokens /\ connToken \in 0..token
      BY TypeParts DEF IInv, SavesBounded, Numbers, Reauthenticate
    <2>2. token' \in 0..MaxTokens /\ connToken' \in 0..token'
      BY <1>1, <2>1, Bounds
    <2> QED
      BY <1>1, <2>2, TypeParts, Bounds DEF IInv, Numbers
  <1>3. Gate'
    BY <1>1, TypeParts, Bounds DEF IInv, Gate
  <1>4. Flags'
    BY <1>1 DEF Flags
  <1>5. Places'
    BY <1>1, TypeParts DEF IInv, Places
  <1>6. LockHeld' /\ ConnectionIsFresh' /\ SavesBounded' /\ GatePaced'
    BY <1>1 DEF IInv, LockHeld, ConnectionIsFresh, SavesBounded, GatePaced
  <1> QED
    BY <1>2, <1>3, <1>4, <1>5, <1>6, Together

LEMMA BeginDialKeeps == ASSUME IInv, NEW t \in Threads, BeginDial(t) PROVE IInv'
  <1>1. /\ UNCHANGED <<conn, handle, alive, connToken, token, blocked, delay, wait, sender,
                       receiver, reading, main, opened, closedAt, texts>>
        /\ lock' = t /\ dial' = "tcp" /\ address' = 1 /\ stageAge' = 0 /\ dialAge' = 0
        /\ conn = 0
    BY DEF BeginDial, socketVars, gateVars
  <1>2. Numbers'
    BY <1>1, TypeParts, Bounds DEF IInv, Numbers
  <1>3. Gate' /\ GatePaced'
    BY <1>1, TypeParts, Bounds DEF IInv, Gate, GatePaced
  <1>4. Flags'
    BY <1>1, TypeParts DEF IInv, Flags
  <1>5. Places'
    BY <1>1, TypeParts DEF IInv, Places
  <1>6. LockHeld' /\ ConnectionIsFresh'
    BY <1>1 DEF LockHeld, ConnectionIsFresh
  <1>7. SavesBounded'
    BY <1>1 DEF IInv, SavesBounded
  <1> QED
    BY <1>2, <1>3, <1>4, <1>5, <1>6, <1>7, Together

LEMMA TickKeeps == ASSUME IInv, Tick PROVE IInv'
  <1>1. /\ UNCHANGED <<lock, dial, address, conn, handle, alive, connToken, token, blocked,
                       delay, sender, receiver, reading, main, opened, closedAt, texts>>
        /\ dial = "tcp" => stageAge < ConnectTimeout
        /\ stageAge' = IF dial = "tcp" THEN stageAge + 1 ELSE stageAge
        /\ dialAge' = IF dialAge < MaxDelay THEN dialAge + 1 ELSE dialAge
        /\ wait' = IF wait > 0 THEN wait - 1 ELSE 0
    BY DEF Tick, socketVars, Older
  <1>2. Numbers'
    <2>1. stageAge' \in 0..ConnectTimeout
      <3>1. stageAge \in 0..ConnectTimeout
        BY TypeParts DEF IInv, Numbers
      <3>2. stageAge' = stageAge \/ (stageAge' = stageAge + 1 /\ stageAge < ConnectTimeout)
        BY <1>1
      <3> QED
        BY <3>1, <3>2, Bounds
    <2> QED
      BY <1>1, <2>1, TypeParts DEF IInv, Numbers
  <1>3. Gate' /\ GatePaced'
    <2>1. /\ delay \in 0..MaxDelay /\ wait \in 0..delay /\ dialAge \in 0..MaxDelay
          /\ blocked => delay > 0
          /\ blocked /\ dial = "none" => wait + dialAge >= delay
      BY TypeParts DEF IInv, Gate, GatePaced
    <2>2. wait' \in 0..delay /\ dialAge' \in 0..MaxDelay
      BY <1>1, <2>1, Bounds
    <2>3. wait + dialAge >= delay => wait' + dialAge' >= delay
      BY <1>1, <2>1, Bounds
    <2> QED
      BY <1>1, <2>1, <2>2, <2>3 DEF Gate, GatePaced
  <1>4. Flags'
    BY <1>1, TypeParts DEF IInv, Flags
  <1>5. Places'
    BY <1>1, TypeParts DEF IInv, Places
  <1>6. LockHeld' /\ ConnectionIsFresh' /\ SavesBounded'
    BY <1>1 DEF IInv, LockHeld, ConnectionIsFresh, SavesBounded
  <1> QED
    BY <1>2, <1>3, <1>4, <1>5, <1>6, Together

LEMMA TcpConnectsKeeps == ASSUME IInv, TcpConnects PROVE IInv'
  <1>1. /\ UNCHANGED <<lock, address, stageAge, dialAge, conn, handle, alive, connToken, token,
                       blocked, delay, wait, sender, receiver, reading, main, opened, closedAt, texts>>
        /\ dial = "tcp" /\ dial' = "upgrade"
    BY DEF TcpConnects, socketVars, gateVars
  <1>2. Numbers' /\ Gate' /\ GatePaced'
    BY <1>1, TypeParts DEF IInv, Numbers, Gate, GatePaced
  <1>3. Flags'
    BY <1>1, TypeParts DEF IInv, Flags
  <1>4. Places'
    BY <1>1, TypeParts DEF IInv, Places
  <1>5. LockHeld' /\ ConnectionIsFresh' /\ SavesBounded'
    BY <1>1 DEF IInv, LockHeld, ConnectionIsFresh, SavesBounded
  <1> QED
    BY <1>2, <1>3, <1>4, <1>5, Together

LEMMA AddressFailsKeeps == ASSUME IInv, AddressFails PROVE IInv'
  <1>1. /\ UNCHANGED <<lock, dialAge, conn, handle, alive, connToken, token, blocked, delay, wait,
                       sender, receiver, reading, main, opened, closedAt, texts>>
        /\ dial # "none" /\ dial' = "tcp" /\ stageAge' = 0
        /\ address < MaxAddresses /\ address' = address + 1
    BY DEF AddressFails, socketVars, gateVars
  <1>2. Numbers'
    BY <1>1, TypeParts, Bounds DEF IInv, Numbers
  <1>3. Gate' /\ GatePaced'
    BY <1>1, TypeParts DEF IInv, Gate, GatePaced
  <1>4. Flags'
    BY <1>1, TypeParts DEF IInv, Flags
  <1>5. Places'
    BY <1>1, TypeParts DEF IInv, Places
  <1>6. LockHeld' /\ ConnectionIsFresh' /\ SavesBounded'
    BY <1>1 DEF IInv, LockHeld, ConnectionIsFresh, SavesBounded
  <1> QED
    BY <1>2, <1>3, <1>4, <1>5, <1>6, Together

LEMMA DialSucceedsKeeps == ASSUME IInv, DialSucceeds PROVE IInv'
  <1>1. /\ UNCHANGED <<token, reading, main, dialAge, closedAt, texts>>
        /\ dial' = "none" /\ address' = 0 /\ stageAge' = 0 /\ dial # "none"
        /\ opened < MaxConnections /\ opened' = opened + 1 /\ conn' = opened + 1
        /\ handle' \in Handles /\ alive' = TRUE /\ connToken' = token
        /\ blocked' = FALSE /\ delay' = 0 /\ wait' = 0
    BY DEF DialSucceeds, ResetGate
  <1>2. Numbers'
    BY <1>1, TypeParts, Bounds DEF IInv, Numbers
  <1>3. Gate' /\ GatePaced'
    BY <1>1, TypeParts, Bounds DEF IInv, Gate, GatePaced
  <1>4. Flags'
    BY <1>1 DEF Flags
  <1>5. lock \in Threads /\ lock' = IF lock = "receiver" THEN "free" ELSE lock
    BY <1>1 DEF IInv, LockHeld, DialSucceeds
  <1>6. Places'
    <2>1. Places
      BY TypeParts DEF IInv
    <2> QED
      BY <1>1, <1>5, <2>1, Returning DEF Places, DialSucceeds
  <1>7. LockHeld'
    BY <1>1, <1>5 DEF LockHeld, Threads
  <1>8. ConnectionIsFresh' /\ SavesBounded'
    BY <1>1 DEF IInv, ConnectionIsFresh, SavesBounded
  <1> QED
    BY <1>2, <1>3, <1>4, <1>6, <1>7, <1>8, Together

LEMMA DialFailsKeeps == ASSUME IInv, DialFails PROVE IInv'
  <1>1. /\ UNCHANGED <<dialAge, conn, handle, alive, connToken, token, reading, main, opened,
                       closedAt, texts>>
        /\ dial # "none" /\ dial' = "none" /\ address' = 0 /\ stageAge' = 0 /\ lock' = "free"
    BY DEF DialFails, socketVars
  <1>2. Numbers'
    BY <1>1, TypeParts, Bounds DEF IInv, Numbers
  <1>3. Gate' /\ GatePaced' /\ blocked' = TRUE
    <2>1. /\ blocked' = TRUE /\ delay' > 0 /\ delay' \in 0..MaxDelay /\ wait' \in 0..delay'
          /\ wait' + dialAge >= delay'
      BY TypeParts, Backoff DEF IInv, DialFails
    <2> QED
      BY <1>1, <2>1, TypeParts DEF IInv, Gate, GatePaced
  <1>4. Flags'
    BY <1>1, <1>3, TypeParts DEF IInv, Flags
  <1>5. lock \in Threads /\ conn = 0
    BY <1>1 DEF IInv, LockHeld
  <1>6. Places'
    <2>1. Places
      BY TypeParts DEF IInv
    <2> QED
      BY <1>1, <1>5, <2>1, Returning DEF Places, DialFails
  <1>7. LockHeld' /\ ConnectionIsFresh' /\ SavesBounded'
    BY <1>1, <1>5 DEF IInv, LockHeld, ConnectionIsFresh, SavesBounded
  <1> QED
    BY <1>2, <1>3, <1>4, <1>6, <1>7, Together

LEMMA StutterKeeps == ASSUME IInv, UNCHANGED vars PROVE IInv'
  <1>1. UNCHANGED <<lock, dialVars, socketVars, token, gateVars, opened, closedAt, texts>>
    BY DEF vars, dialVars, socketVars, gateVars
  <1>2. Places'
    BY TypeParts DEF IInv, vars, Places
  <1>3. main' = main
    BY DEF vars
  <1> QED
    BY <1>1, <1>2, <1>3, StayingKeeps DEF IInv, SavesBounded

LEMMA StepInvariant == IInv /\ [Next]_vars => IInv'
  <1> SUFFICES ASSUME IInv, [Next]_vars PROVE IInv'
    OBVIOUS
  <1>1. CASE DialStep
    BY <1>1, TcpConnectsKeeps, DialSucceedsKeeps, AddressFailsKeeps, DialFailsKeeps DEF DialStep
  <1>2. CASE ReceiverStep \/ ReceiverReceives
    <2>1. "receiver" \in Threads
      BY DEF Threads
    <2> QED
      BY <1>2, <2>1, ReceiverKeeps, ReceiverClosesKeeps, GateRefusesKeeps, BeginDialKeeps
      DEF ReceiverStep
  <1>3. CASE SenderStep \/ \E s \in Senders : SenderCalls(s)
    BY <1>3, SenderKeeps, GateRefusesKeeps, BeginDialKeeps DEF SenderStep, SenderDials, Threads
  <1>4. CASE MainSaves \/ MainStops \/ MainStep \/ ConsoleDrops
    BY <1>4, MainKeeps, ReauthenticateKeeps DEF MainStep
  <1>5. CASE Tick
    BY <1>5, TickKeeps
  <1>6. CASE UNCHANGED vars
    BY <1>6, StutterKeeps
  <1> QED
    BY <1>1, <1>2, <1>3, <1>4, <1>5, <1>6 DEF Next

LEMMA Invariance == Spec => []IInv
  BY InitInvariant, StepInvariant, PTL DEF Spec

\* Every variable of the client and its threads keeps its type; so the wait never
\* exceeds the delay, nor the delay kMaxDelayMs.
THEOREM TypeCorrect == Spec => []TypeOK
  <1>1. IInv => TypeOK
    BY DEF IInv
  <1> QED
    BY <1>1, Invariance, PTL

\* However many threads send, read and save, no connection is left running on a
\* token that was replaced, and none with a gate that remembers a failure.
THEOREM ConnectionFresh == Spec => []ConnectionIsFresh
  <1>1. IInv => ConnectionIsFresh
    BY DEF IInv
  <1> QED
    BY <1>1, Invariance, PTL
------------------------------------------------------------------------------
\* What a step may do to the gate and the dial.
Paced ==
    /\ dial = "none" /\ dial' = "tcp" /\ blocked => dialAge >= delay
    /\ blocked /\ blocked' /\ delay' # delay =>
         delay' >= delay /\ (delay' = 2 * delay \/ delay' = MaxDelay)
    /\ blocked /\ ~blocked' => conn' # 0 \/ token' # token

LEMMA PacedUnmoved ==
    ASSUME UNCHANGED <<blocked, delay>>, dial' = dial \/ dial # "none"
    PROVE  Paced
  BY DEF Paced

LEMMA StepPaced == IInv /\ [Next]_vars => Paced
  <1> SUFFICES ASSUME IInv, [Next]_vars PROVE Paced
    OBVIOUS
  <1>1. CASE TcpConnects \/ AddressFails
    BY <1>1, PacedUnmoved DEF TcpConnects, AddressFails, gateVars
  <1>2. CASE DialSucceeds
    <2>1. dial' = "none" /\ blocked' = FALSE /\ conn' = opened + 1 /\ opened \in Nat
      BY <1>2, TypeParts, Bounds DEF IInv, Numbers, DialSucceeds, ResetGate
    <2> QED
      BY <2>1 DEF Paced
  <1>3. CASE DialFails
    <2>1. blocked' = TRUE /\ dial' = "none"
          /\ (delay > 0 => delay' >= delay /\ (delay' = 2 * delay \/ delay' = MaxDelay))
      BY <1>3, TypeParts, Backoff DEF IInv, DialFails
    <2>2. blocked => delay > 0
      BY DEF IInv, GatePaced
    <2> QED
      BY <2>1, <2>2 DEF Paced
  <1>4. CASE \E t \in Threads : BeginDial(t)
    <2>1. UNCHANGED <<blocked, delay>> /\ (blocked => wait = 0)
      BY <1>4 DEF BeginDial, Ready, gateVars
    <2>2. blocked /\ dial = "none" => dialAge >= delay
      <3>1. blocked /\ dial = "none" => wait + dialAge >= delay /\ wait = 0
        BY <2>1 DEF IInv, GatePaced
      <3>2. dialAge \in Nat /\ delay \in Nat
        BY TypeParts, Bounds DEF IInv, Gate
      <3> QED
        BY <3>1, <3>2
    <2> QED
      BY <2>1, <2>2 DEF Paced
  <1>5. CASE Reauthenticate
    <2>1. dial' = dial /\ blocked' = FALSE /\ token' = token + 1 /\ token \in Nat
      BY <1>5, TypeParts, Bounds DEF IInv, Numbers, Reauthenticate, ResetGate, dialVars
    <2> QED
      BY <2>1 DEF Paced
  <1>6. CASE \/ ReceiverLoops \/ ReceiverConnected \/ ReceiverPeeks \/ ReceiverReceives
             \/ ReceiverHandles \/ ReceiverBroken \/ ReceiverSleeps \/ ReceiverWakes
             \/ ReceiverCloses
    <2>1. UNCHANGED <<dialVars, gateVars>>
      BY <1>6 DEF ReceiverLoops, ReceiverConnected, ReceiverPeeks, ReceiverReceives, ReceiverHandles,
             ReceiverBroken, ReceiverSleeps, ReceiverWakes, ReceiverGoes, ReceiverCloses
    <2> QED
      BY <2>1, PacedUnmoved DEF dialVars, gateVars
  <1>7. CASE \E t \in Threads : GateRefuses(t)
    BY <1>7, PacedUnmoved DEF GateRefuses, dialVars, gateVars
  <1>8. CASE \E s \in Senders : SenderCalls(s) \/ SenderSends(s)
    BY <1>8, PacedUnmoved DEF SenderCalls, SenderSends, dialVars, gateVars
  <1>9. CASE MainSaves \/ MainStops \/ MainCloses \/ MainJoins \/ ConsoleDrops
    BY <1>9, PacedUnmoved DEF MainSaves, MainStops, MainCloses, MainJoins, ConsoleDrops,
       dialVars, gateVars
  <1>10. CASE Tick
    BY <1>10, PacedUnmoved DEF Tick
  <1>11. CASE UNCHANGED vars
    BY <1>11, PacedUnmoved DEF vars
  <1>12. "receiver" \in Threads /\ Senders \subseteq Threads
    BY DEF Threads
  <1> QED
    BY <1>1, <1>2, <1>3, <1>4, <1>5, <1>6, <1>7, <1>8, <1>9, <1>10, <1>11, <1>12
    DEF Next, DialStep, ReceiverStep, SenderStep, SenderDials, MainStep

\* Whoever asks, and in whatever order, no dial begins before the delay since the
\* one that failed is over, and only a connection or a new token forgives one.
THEOREM DialsArePaced == Spec => DialStartsArePaced
  <1>1. IInv /\ [Next]_vars => [Paced]_vars
    BY StepPaced
  <1>2. Spec => [][Paced]_vars
    BY <1>1, Invariance, PTL DEF Spec
  <1> QED
    BY <1>2 DEF DialStartsArePaced, Paced
==============================================================================
