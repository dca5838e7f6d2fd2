--------------------------- MODULE MCOrderedQueue ---------------------------
EXTENDS OrderedQueue
=============================================================================
