--------------------------- MODULE MCRegionFiles ---------------------------
(***************************************************************************)
(* Small instances of RegionFiles: two chunks of one region, and one       *)
(* holder for each, or a holder and its successor for the first.           *)
(***************************************************************************)
EXTENDS RegionFiles, TLC

CONSTANTS a, b, r1, h1, h2, h3

OneRegion == (a :> r1) @@ (b :> r1)
TwoHolders == (h1 :> a) @@ (h2 :> b)
ThreeHolders == (h1 :> a) @@ (h2 :> a) @@ (h3 :> b)

HolderSymmetry == Permutations({h1, h2})
=============================================================================
