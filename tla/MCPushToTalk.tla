---------------------------- MODULE MCPushToTalk ----------------------------
\* Two turns through a two-message queue and one waiting transcription: the
\* queue overflows, the recogniser's backlog fills, and stop() meets each stage.
EXTENDS PushToTalk
=============================================================================
