------------------------- MODULE MCPortfolioImages -------------------------
(***************************************************************************)
(* One portfolio with an image, and requests to replace its images.        *)
(***************************************************************************)
EXTENDS PortfolioImages, TLC

CONSTANTS req1, req2

MCRequests == {req1, req2}

\* None, one or two images.
MCImageCounts == {0, 1, 2}

Symmetry == Permutations(MCRequests)
=============================================================================
