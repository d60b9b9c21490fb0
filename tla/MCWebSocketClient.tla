-------------------------- MODULE MCWebSocketClient --------------------------
\* The receiver and both sending threads of the sink over three connections.
EXTENDS WebSocketClient
==============================================================================
