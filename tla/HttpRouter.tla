----------------------------- MODULE HttpRouter -----------------------------
(***************************************************************************)
(* http_router.cpp and the choice HttpEngine::dispatch makes with it: the  *)
(* application task adds routes, the network task resolves a request with  *)
(* two loops over the table, and what comes of it is a handler, a file or  *)
(* an error.  A step of a loop looks at one route.                         *)
(*                                                                         *)
(* A route is its method and the set of paths its matcher accepts with its *)
(* pattern: one path for http_route_match_exact, any for a matcher of the  *)
(* application.  The fields of a new route and count_ are written at once. *)
(***************************************************************************)
EXTENDS Integers, Sequences

CONSTANTS
  Methods, GET,     (* HttpMethod.                                         *)
  Paths,            (* Paths of requests.                                  *)
  Matches,          (* Sets of paths a route may match.                    *)
  FilePaths,        (* Paths HttpStaticFiles::resolve_open finds a file for*)
  HTTP_MAX_ROUTES

ASSUME RouterAssumption ==
  /\ GET \in Methods
  /\ Matches \subseteq SUBSET Paths
  /\ FilePaths \subseteq Paths
  /\ HTTP_MAX_ROUTES \in Nat

VARIABLES
  routes,   (* routes_[0 .. count_ - 1]                                    *)
  request,  (* the request being resolved                                  *)
  router_pc,  (* the loop resolve() is in, or "idle"                        *)
  i,        (* its index                                                   *)
  answer,   (* what dispatch decided                                       *)
  known     (* history: count_ when the request came                       *)

router_vars == <<routes, request, router_pc, i, answer, known>>

Answers == [kind: {"none", "handler", "file", "404", "405"}, route: 0 .. HTTP_MAX_ROUTES]
Answer(kind) == [kind |-> kind, route |-> 0]

-----------------------------------------------------------------------------
(* Mutant: a full table takes the new route in place of its last.          *)
AddedOverLast(r) == IF Len(routes) < HTTP_MAX_ROUTES THEN Append(routes, r)
                    ELSE [routes EXCEPT ![HTTP_MAX_ROUTES] = r]

(* ROUTE_FULL leaves the table as it is, as does INVALID_ARG.              *)
Added(r) == IF Len(routes) < HTTP_MAX_ROUTES THEN Append(routes, r) ELSE routes

(* on() does not ask whether the server is started.                        *)
AddRoute(method, matches) ==
  /\ routes' = Added([method |-> method, matches |-> matches])
  /\ UNCHANGED <<request, router_pc, i, answer, known>>

Dispatch(method, path) ==
  /\ router_pc = "idle"
  /\ request' = [method |-> method, path |-> path]
  /\ router_pc' = "same_method"
  /\ i' = 1
  /\ answer' = Answer("none")
  /\ known' = Len(routes)
  /\ UNCHANGED routes

MatchesPath(k) == request.path \in routes[k].matches

(* The first loop: the first route of the method that matches is taken.    *)
SameMethod ==
  /\ router_pc = "same_method"
  /\ IF i > Len(routes)
     THEN router_pc' = "any_method" /\ i' = 1 /\ UNCHANGED answer
     ELSE IF routes[i].method = request.method /\ MatchesPath(i)
     THEN router_pc' = "idle" /\ answer' = [kind |-> "handler", route |-> i] /\ UNCHANGED i
     ELSE i' = i + 1 /\ UNCHANGED <<router_pc, answer>>
  /\ UNCHANGED <<routes, request, known>>

(* NOT_FOUND: a file, for GET only.                                        *)
NotFound == Answer(IF request.method = GET /\ request.path \in FilePaths
                   THEN "file" ELSE "404")

(* Mutant: files are looked for before other methods of the path.          *)
EndsLoopForFile == i > Len(routes) \/ NotFound = Answer("file")
EndsLoop == i > Len(routes)

(* The second loop: METHOD_NOT_ALLOWED if any route matches.               *)
AnyMethod ==
  /\ router_pc = "any_method"
  /\ IF EndsLoop
     THEN router_pc' = "idle" /\ answer' = NotFound /\ UNCHANGED i
     ELSE IF MatchesPath(i)
     THEN router_pc' = "idle" /\ answer' = Answer("405") /\ UNCHANGED i
     ELSE i' = i + 1 /\ UNCHANGED <<router_pc, answer>>
  /\ UNCHANGED <<routes, request, known>>

-----------------------------------------------------------------------------
RouterInit ==
  /\ routes = <<>>
  /\ request = [method |-> GET, path |-> CHOOSE p \in Paths : TRUE]
  /\ router_pc = "idle"
  /\ i = 1
  /\ answer = Answer("none")
  /\ known = 0

RouterNext ==
  \/ \E method \in Methods, matches \in Matches : AddRoute(method, matches)
  \/ \E method \in Methods, path \in Paths : Dispatch(method, path)
  \/ SameMethod
  \/ AnyMethod

RouterSpec == RouterInit /\ [][RouterNext]_router_vars

-----------------------------------------------------------------------------
(* Properties.                                                             *)

RoutesTypeOK ==
  /\ routes \in Seq([method: Methods, matches: Matches])
  /\ Len(routes) <= HTTP_MAX_ROUTES
  /\ request \in [method: Methods, path: Paths]
  /\ router_pc \in {"idle", "same_method", "any_method"}
  /\ i \in 1 .. HTTP_MAX_ROUTES + 1
  /\ answer \in Answers
  /\ known \in 0 .. HTTP_MAX_ROUTES

(* The routes that match the path of the request, and those of its method. *)
Matching == {k \in DOMAIN routes : MatchesPath(k)}
Own == {k \in Matching : routes[k].method = request.method}

(* The order of docs/api.md:36-45, though routes are added between any two *)
(* steps of the loops: a route of the method, the one registered first;    *)
(* 405 if the path has routes, none of the method, even if there is a      *)
(* file; a file, for GET; 404.  A route registered while the request is    *)
(* being resolved may be missed, and may then even turn the answer to 405, *)
(* but no route registered before it is.                                   *)
AnswersAsDocumented ==
  [][answer.kind = "none" /\ answer'.kind # "none" =>
       CASE answer'.kind = "handler" -> answer'.route \in Own /\ \A k \in Own : answer'.route <= k
         [] answer'.kind = "405" -> Matching # {} /\ \A k \in Own : k > known
         [] OTHER -> /\ Matching = {}
                     /\ answer'.kind = "file" <=> request.method = GET /\ request.path \in FilePaths]_router_vars

(* dispatch keeps a pointer into the table until the handler has returned: *)
(* whatever is added meanwhile, it is within the table and still the route *)
(* of the request.                                                         *)
ResolvedStaysValid ==
  answer.kind = "handler" => answer.route \in Own /\ answer.route <= HTTP_MAX_ROUTES
=============================================================================
