---------------------------- MODULE MCPanelBridge ----------------------------
\* Two requests and the answer to one of a former page.
EXTENDS PanelBridge
==============================================================================
