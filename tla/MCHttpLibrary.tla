--------------------------- MODULE MCHttpLibrary ---------------------------
(***************************************************************************)
(* The components of the library that share no state with any other:       *)
(* router, static files, response and request.  Steps of components that   *)
(* share nothing cannot disturb each other, so a behaviour is about one of *)
(* them, its part, and leaves the others as they begin.                    *)
(***************************************************************************)
EXTENDS HttpRouter, HttpStaticFiles, HttpResponse, HttpRequest

(* Exact routes and one that matches every path.                           *)
EachOrAll == {{p} : p \in Paths} \cup {Paths}

(* Prefixes that are nested ("/a", "/a/a") and that only look so ("/a",    *)
(* "/aa"); directories with and without a last slash; unsafe index names.  *)
SomeMounts ==
  {[prefix |-> <<"/", "a">>, root |-> <<"/", "a">>, index |-> <<"a", ".", "a">>],
   [prefix |-> <<"/", "a", "/", "a">>, root |-> <<"/">>, index |-> <<>>],
   [prefix |-> <<"/", "a", "a">>, root |-> <<"/", "a", "/">>, index |-> <<".", ".">>]}
OneExtension == {<<".", "a">>}

(* Parameters without a name and with one.                                 *)
ShortNames == {<<>>, <<"1">>}

ASSUME LibraryAssumption == RootsClean /\ DotsInFront

VARIABLE part

vars == <<part, router_vars, files_vars, response_vars, request_vars>>

AnyCall == CHOOSE c \in Calls : c.text = <<>>

Init == /\ part \in {"router", "files", "response", "request"}
        /\ call \in IF part = "request" THEN Calls ELSE {AnyCall}
        /\ RouterInit /\ FilesInit /\ ResponseInit /\ RequestInit

Next == \/ /\ part = "router" /\ RouterNext
           /\ UNCHANGED <<part, files_vars, response_vars, request_vars>>
        \/ /\ part = "files" /\ FilesNext
           /\ UNCHANGED <<part, router_vars, response_vars, request_vars>>
        \/ /\ part = "response" /\ ResponseNext
           /\ UNCHANGED <<part, router_vars, files_vars, request_vars>>
        \/ /\ part = "request" /\ RequestNext
           /\ UNCHANGED <<part, router_vars, files_vars, response_vars>>

(* A call of the request is run to its end.                                *)
Spec == Init /\ [][Next]_vars /\ WF_vars(part = "request" /\ Next)

(* HttpRequest: the two nested scans come to an end.                       *)
CallReturns == part = "request" => Returns
=============================================================================
