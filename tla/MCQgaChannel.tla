---------------------------- MODULE MCQgaChannel ----------------------------
\* Four pings, so that the late replies to some can answer the open and each
\* write, with one to spare.
EXTENDS QgaChannel

MCMaxPings == 4
MCChunks == 2
MCMaxPolls == 2
=============================================================================
