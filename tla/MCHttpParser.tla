---------------------------- MODULE MCHttpParser ----------------------------
(***************************************************************************)
(* HttpParser on inputs of bounded length, with limits small enough to be  *)
(* reached one by one and together: a line of exactly the maximum length,  *)
(* header storage filled exactly, one header too many, a Content-Length    *)
(* at and beyond the limit, and one that replaces another.                 *)
(***************************************************************************)
EXTENDS HttpParserReference

Header(kind, name, value, number) ==
  [kind |-> kind, name |-> name, value |-> value, number |-> number]

MCHeaders == {Header("header", 1, 0, 0), Header("header", 1, 2, 0),
              Header("length", 1, 1, 0), Header("length", 1, 1, 2),
              Header("length", 1, 1, 3)}
=============================================================================
