---------------------------- MODULE MCHttpEngine ----------------------------
(***************************************************************************)
(* HttpEngine on a small instance: a header block that fits tx, and may be *)
(* sent in two parts, and one that does not fit; bodies that are empty,    *)
(* shorter than tx, longer than tx and not a multiple of it.               *)
(***************************************************************************)
EXTENDS HttpEngine

MCHeaderLens == {2, 3}
MCBodyLens == {0, 1, 4}
=============================================================================
