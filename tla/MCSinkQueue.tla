---------------------------- MODULE MCSinkQueue ----------------------------
EXTENDS SinkQueue, TLC

Symmetry == Permutations(Record)
=============================================================================
