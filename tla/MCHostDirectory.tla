---------------------------- MODULE MCHostDirectory ----------------------------
EXTENDS HostDirectory, TLC

CONSTANTS h1, h2, h3, i1, i2, i3, n1, n2, n3

(* Every host its own identity and its own file.                              *)
OwnInstance == h1 :> i1 @@ h2 :> i2 @@ h3 :> i3
OwnName == h1 :> n1 @@ h2 :> n2 @@ h3 :> n3

(* Every host claims one identity, and the third one takes the first one's    *)
(* file name over.                                                            *)
AllOfOne == h1 :> i1 @@ h2 :> i1 @@ h3 :> i1
ReusedName == h1 :> n1 @@ h2 :> n2 @@ h3 :> n1

(* The first and the third host then differ in nothing.                       *)
Symmetry == Permutations({h1, h3})
=============================================================================
