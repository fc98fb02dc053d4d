\* Two calls of one provider, also at the same time; nothing is assumed of the
\* threads.  When each has its verdict and its thread is over there is nothing
\* left to do.
SPECIFICATION FairProvider
CONSTANTS
    g1 = g1
    g2 = g2
    NoCall = NoCall
    Call <- Calls
CHECK_DEADLOCK FALSE
PROPERTIES
    CallsImplemented
    EveryCallReturns
