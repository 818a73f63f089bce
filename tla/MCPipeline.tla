----------------------------- MODULE MCPipeline -----------------------------
(* The pipeline over the store, on small instances. *)
EXTENDS Pipeline, TLC

CONSTANTS h, ua

MCClientId == {<<h>>, <<h, ua>>}
MCTags == {<<>>, <<ua>>}
MCOneClient == {<<h>>}
MCNoTags == {<<>>}

Symmetry == Permutations(ExId)
=============================================================================
