--------------------------- MODULE OfferImportMC ---------------------------
(* TLC instance of OfferImport. *)
EXTENDS OfferImport, TLC

CONSTANTS rose, lily, ean1, ean2

Names == {rose, lily}
Eans == {ean1, ean2}
Costs == {1, 2}
Targets == 1 :> 11 @@ 2 :> 22
AdminPrices == {5}

Renaming == Permutations(Names) \cup Permutations(Eans)
=============================================================================
