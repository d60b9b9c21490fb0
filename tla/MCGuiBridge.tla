---------------------------- MODULE MCGuiBridge ----------------------------
\* Two events' names and two request ids through queues that overflow.
EXTENDS GuiBridge
============================================================================
