-------------------------- MODULE MCSynthesisQueue --------------------------
\* Four replies of at most one sentence for a deque of two.
EXTENDS SynthesisQueue
=============================================================================
