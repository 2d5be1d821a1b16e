---------------------------- MODULE MCBundleRepo ----------------------------
(* Instances of the central bundle repository for TLC. Trust domains are   *)
(* interchangeable: no definition orders or names them.                    *)
EXTENDS BundleRepo, TLC

CONSTANTS r1, x, y, s1

OneRead == {r1}
NoRead == {}
OneSubscriber == {s1}
NoSubscriber == {}
Pair == {x, y}

Symmetry == Permutations(TrustDomain)
=============================================================================
