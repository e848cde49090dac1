--------------------------- MODULE MCKroProvider ---------------------------
(***************************************************************************)
(* Instances of KroProvider for TLC: two versions, two entries, and the    *)
(* ProviderConfigs an operator may move between.                           *)
(***************************************************************************)
EXTENDS KroProvider, TLC

CONSTANTS v1, v2, c1, c2

\* Each version has its entry.
Full == (v1 :> c1) @@ (v2 :> c2)

\* v1 is served from another entry, and v2 is no longer on offer.
Changed == (v1 :> c2) @@ (v2 :> NoChart)

MCOffers == {Full, Changed}

\* No change but a deletion of the ProviderConfig.
MCSingleOffer == {Full}

\* One version, served from one entry.
MCMinimalOffer == {v1 :> c1}
=============================================================================
