------------------------ MODULE MCCapabilityCache ------------------------
(* Two workflows under two names, made of nodes of the repository's        *)
(* template and others, given by the keywords they contain.                *)
EXTENDS CapabilityCache, TLC

CONSTANTS a, b, small, large

Some == {{"ksampler", "sampler"}, {"previewimage"}}

MCNodes ==
  small :> Some
  @@ large :> Some \cup {{"flux", "unetloader"}, {"latentimage"}, {"flux", "saveimage"},
                    {"cliptextencode", "prompt", "textencode"}, {"controlnet"}}

(* The large workflow's manifests are of one length, the small one's not.  *)
MCPieces == [m \in Manifest |-> IF m.of = small /\ m.named = a THEN 1 ELSE 2]

SameHandlers == Permutations(Handler)
=============================================================================
