--------------------------- MODULE MCMemoryStore ---------------------------
(* The store on small instances. *)
EXTENDS MemoryStore, TLC

CONSTANTS h, ua

\* The client <<h>> with the tag ua and the client <<h, ua>> without a tag share
\* a conversation id.
MCClientId == {<<h>>, <<h, ua>>}
MCTags == {<<>>, <<ua>>}
MCOneClient == {<<h>>}
MCNoTags == {<<>>}

Symmetry == Permutations(ExId)
=============================================================================
