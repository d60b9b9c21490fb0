-------------------------- MODULE MCSpeechDelivery --------------------------
\* Three replies of every kind through queues that overflow.
EXTENDS SpeechDelivery
=============================================================================
