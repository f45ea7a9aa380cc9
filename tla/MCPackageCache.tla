--------------------------- MODULE MCPackageCache ---------------------------
(* Three works for PackageCache: two share a package, one needs it twice.  *)
EXTENDS PackageCache, TLC

CONSTANTS w1, w2, w3, p1, p2

MCNeeds == w1 :> <<p1, p2>> @@ w2 :> <<p2, p1>> @@ w3 :> <<p1, p1>>
=============================================================================
