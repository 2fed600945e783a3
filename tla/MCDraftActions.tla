---------------------------- MODULE MCDraftActions ----------------------------
\* Every operation, asked for by two requests at a time.
EXTENDS DraftActions, TLC

MCAllOps == Op
MCRequests == Permutations(Process)
=============================================================================
