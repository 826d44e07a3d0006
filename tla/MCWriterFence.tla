--------------------------- MODULE MCWriterFence ---------------------------
EXTENDS WriterFence, TLC

\* The cloud instances are interchangeable.
Symmetric == Permutations(CloudApps)
=============================================================================
