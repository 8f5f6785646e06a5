----------------------------- MODULE PrefixesMC -----------------------------
(***************************************************************************)
(* The instances of Prefixes that TLC checks: a namespace that two entries *)
(* share, a prefix of it that is also declared for another namespace, and  *)
(* a prefix of the prefix.                                                 *)
(***************************************************************************)
EXTENDS Prefixes, TLC

CONSTANTS e1, e2, e3, crypto, geo, c, d, hash, agg

OfferMC == (e1 :> {hash, agg}) @@ (e2 :> {hash}) @@ (e3 :> {})
NamespaceMC == (e1 :> crypto) @@ (e2 :> crypto) @@ (e3 :> NoSchema)
DeclarationsMC == {<<c, crypto>>, <<c, geo>>, <<d, c>>}
=============================================================================
