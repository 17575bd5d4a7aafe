------------------------ MODULE MCPackageVerification ------------------------
(* Two keys, the second of which has a short fingerprint, and public keys of    *)
(* both and one that gpg cannot import.                                         *)
EXTENDS PackageVerification

CONSTANTS k1, k2, p1, p2, p3

MCIsOf == p1 :> k1 @@ p2 :> k2 @@ p3 :> "none"
===============================================================================
