--------------------------- MODULE MCMediumAccess ---------------------------
(* Instances of MediumAccess for TLC.                                      *)
EXTENDS MediumAccess, TLC

CONSTANTS a, b, c

\* c is heard by a and b.  They are hidden from each other and too faint for c
\* to defer to one of them, but not to both at once.
Star == (a :> (a :> 0 @@ b :> 0 @@ c :> 2)) @@ (b :> (a :> 0 @@ b :> 0 @@ c :> 2))
            @@ (c :> (a :> 3 @@ b :> 3 @@ c :> 0))

AAndB == Permutations({a, b})
=============================================================================
