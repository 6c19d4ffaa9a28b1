------------------------------ MODULE MCDbInit ------------------------------
(***************************************************************************)
(* DbInit for TLC: three servers with two vnodes each, hashed in every way *)
(* into a ring of a few positions, so that vnodes collide as well as not.  *)
(***************************************************************************)
EXTENDS DbInit

CONSTANTS s1, s2, s3

Configured == <<s1, s2, s3>>

=============================================================================
