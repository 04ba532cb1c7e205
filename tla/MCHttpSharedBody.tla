-------------------------- MODULE MCHttpSharedBody --------------------------
(***************************************************************************)
(* HttpSharedBody with two clients and a body of two chunks.               *)
(***************************************************************************)
EXTENDS HttpSharedBody

OneHeaderLen == {1}
OneBodyLen == {3}
=============================================================================
