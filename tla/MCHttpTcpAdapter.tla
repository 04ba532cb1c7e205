-------------------------- MODULE MCHttpTcpAdapter --------------------------
(***************************************************************************)
(* HttpTcpAdapter on small instances, with a send buffer that does not     *)
(* hold a whole response: bodies empty, of one chunk, and of two.          *)
(***************************************************************************)
EXTENDS HttpTcpAdapter

MCHeaderLens == {1, 2}
OneHeaderLen == {1}
ShortBodyLen == {2}
OneBodyLen == {3}
FewBodyLens == {0, 3}
=============================================================================
