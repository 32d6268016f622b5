------------------------------ MODULE MC_FileWrite ------------------------------
EXTENDS FileWrite

\* Four versions: the initial one and three writes, so that both clients
\* can write after the node's first fsync.
MC_MaxVer == 3

\* Two tokens: a lock, an unlock and a second lock.
MC_MaxTok == 2

\* One challenge per transaction exercises the 401 loop.
MC_MaxChallenges == 1
=============================================================================
