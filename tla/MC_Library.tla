----------------------------- MODULE MC_Library -----------------------------
EXTENDS Library

MCNoSeed == [given |-> FALSE, s |-> 4, b |-> 9]
MCSeeds == {[given |-> TRUE, s |-> 2, b |-> 3], [given |-> TRUE, s |-> 5, b |-> 30]}

\* A hash that is zero, and one that is not below the order, for some.
MCMsgHash(r, msg) == (r * 5 + msg * 3) % 32

MCNonceRuns == {<<8>>, <<0, 31, 6>>, <<21, 4>>, <<>>}

MCEncodings ==
    {[head |-> h, x |-> x, y |-> 0] : h \in {2, 3}, x \in {0, 2, 7, 32, 42, 45}}
    \cup {[head |-> h, x |-> x, y |-> y] : h \in 4..7, x \in {2, 45}, y \in {12, 31, 55, 1}}
=============================================================================
