---------------------------- MODULE MCHttpServer ----------------------------
(***************************************************************************)
(* HttpServer with short responses: what matters here is where begin() and *)
(* stop() interrupt the exchange, not how many chunks it takes.            *)
(***************************************************************************)
EXTENDS HttpServer

OneLen == {1}
=============================================================================
