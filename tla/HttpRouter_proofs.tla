------------------------- MODULE HttpRouter_proofs -------------------------
(***************************************************************************)
(* What is proved of HttpRouter, for any methods, paths, matchers, files   *)
(* and size of the table.                                                  *)
(***************************************************************************)
EXTENDS HttpRouter, TLAPS

Routes == [method: Methods, matches: Matches]

-----------------------------------------------------------------------------
(* Lemmas about the operators of the model.                                *)

(* add() keeps every route where it is, and appends at most one.           *)
LEMMA AddedKeeps ==
  ASSUME routes \in Seq(Routes), NEW r \in Routes
  PROVE  /\ Added(r) \in Seq(Routes)
         /\ Len(Added(r)) >= Len(routes)
         /\ \A k \in 1 .. Len(routes) : Added(r)[k] = routes[k]
         /\ Len(routes) <= HTTP_MAX_ROUTES /\ HTTP_MAX_ROUTES \in Nat
              => Len(Added(r)) <= HTTP_MAX_ROUTES
  <1>1. CASE Len(routes) < HTTP_MAX_ROUTES
    <2>1. Added(r) = Append(routes, r)  BY <1>1 DEF Added
    <2>2. /\ Append(routes, r) \in Seq(Routes)
          /\ Len(Append(routes, r)) = Len(routes) + 1
          /\ \A k \in 1 .. Len(routes) : Append(routes, r)[k] = routes[k]
      OBVIOUS
    <2> QED  BY <1>1, <2>1, <2>2
  <1>2. CASE ~(Len(routes) < HTTP_MAX_ROUTES)
    BY <1>2 DEF Added
  <1> QED  BY <1>1, <1>2

-----------------------------------------------------------------------------
(* The invariant.                                                          *)

(* The table, and the moment the request came.                             *)
TableInv ==
  /\ routes \in Seq(Routes)
  /\ Len(routes) <= HTTP_MAX_ROUTES
  /\ known \in 0 .. Len(routes)
  /\ router_pc \in {"idle", "same_method", "any_method"}

(* The index of a loop; no answer before the loops are left.               *)
LoopInv ==
  /\ i \in 1 .. Len(routes) + 1
  /\ router_pc # "idle" => answer = Answer("none")
  /\ answer \in Answers

(* What the loops have found so far: the first passes routes that are not  *)
(* of the request, and the second starts when every route there was at the *)
(* request has been passed; it passes those that do not match the path.    *)
SearchInv ==
  /\ router_pc = "same_method" => \A k \in Own : k >= i
  /\ router_pc = "any_method" =>
       /\ \A k \in Own : k > known
       /\ \A k \in Matching : k >= i

IInv == TableInv /\ LoopInv /\ SearchInv /\ ResolvedStaysValid

LEMMA InitInv ==
  ASSUME RouterInit
  PROVE  IInv
  <1>1. TableInv /\ LoopInv
    BY RouterAssumption DEF RouterInit, TableInv, LoopInv, Answer, Answers
  <1>2. SearchInv /\ ResolvedStaysValid
    BY DEF RouterInit, SearchInv, ResolvedStaysValid, Answer
  <1> QED  BY <1>1, <1>2 DEF IInv

(* A route added between two steps of a loop is behind the loop's index.   *)
LEMMA AddInv ==
  ASSUME IInv,
         NEW method \in Methods, NEW matches \in Matches, AddRoute(method, matches)
  PROVE  IInv'
  <1> DEFINE r == [method |-> method, matches |-> matches]
  <1>1. routes' = Added(r) /\ UNCHANGED <<request, router_pc, i, answer, known>>
    BY DEF AddRoute
  <1>2. r \in Routes  BY DEF Routes
  <1>3. /\ routes' \in Seq(Routes)
        /\ Len(routes') >= Len(routes)
        /\ \A k \in 1 .. Len(routes) : routes'[k] = routes[k]
        /\ Len(routes') <= HTTP_MAX_ROUTES
    <2> HIDE DEF r
    <2> QED  BY <1>1, <1>2, AddedKeeps, RouterAssumption DEF IInv, TableInv
  <1>4. DOMAIN routes = 1 .. Len(routes) /\ DOMAIN routes' = 1 .. Len(routes')
    BY <1>3 DEF IInv, TableInv
  <1>5. TableInv' /\ LoopInv'
    BY <1>1, <1>3 DEF IInv, TableInv, LoopInv, Answer, Answers, Routes
  <1>6. \A k \in 1 .. Len(routes) :
          (k \in Own' <=> k \in Own) /\ (k \in Matching' <=> k \in Matching)
    BY <1>1, <1>3, <1>4 DEF Own, Matching, MatchesPath, IInv, TableInv
  <1>7. \A k : (k \in Own' \/ k \in Matching') => k \in 1 .. Len(routes')
    BY <1>4 DEF Own, Matching
  <1>8. SearchInv'
    BY <1>1, <1>3, <1>6, <1>7 DEF IInv, TableInv, LoopInv, SearchInv
  <1>9. ResolvedStaysValid'
    <2>1. Own \subseteq 1 .. Len(routes)  BY <1>4 DEF Own, Matching
    <2> QED  BY <1>1, <1>6, <2>1 DEF IInv, ResolvedStaysValid
  <1> QED  BY <1>5, <1>8, <1>9 DEF IInv

LEMMA DispatchInv ==
  ASSUME IInv,
         NEW method \in Methods, NEW url \in Paths, Dispatch(method, url)
  PROVE  IInv'
  <1>1. TableInv' /\ LoopInv'
    BY RouterAssumption DEF IInv, TableInv, LoopInv, Dispatch, Answer, Answers
  <1>2. \A k \in Own' : k \in 1 .. Len(routes)
    BY DEF Own, Matching, Dispatch, IInv, TableInv
  <1>3. SearchInv' /\ ResolvedStaysValid'
    BY <1>2 DEF Dispatch, SearchInv, ResolvedStaysValid, Answer, IInv, TableInv
  <1> QED  BY <1>1, <1>3 DEF IInv

LEMMA SameMethodInv ==
  ASSUME IInv, SameMethod
  PROVE  IInv'
  <1> USE DEF IInv
  <1>1. UNCHANGED <<routes, request, known>> /\ Own' = Own /\ Matching' = Matching
    BY DEF SameMethod, Own, Matching, MatchesPath
  <1>2. /\ DOMAIN routes = 1 .. Len(routes) /\ Own \subseteq 1 .. Len(routes)
        /\ Matching \subseteq 1 .. Len(routes) /\ Len(routes) \in Nat
    BY DEF TableInv, Own, Matching
  <1>3. CASE i > Len(routes)
    <2>1. router_pc' = "any_method" /\ i' = 1 /\ UNCHANGED answer
      BY <1>3 DEF SameMethod
    <2>2. TableInv' /\ LoopInv'
      BY <1>1, <2>1 DEF TableInv, LoopInv, Answer, Answers, SameMethod
    <2>3. Own = {}  BY <1>2, <1>3 DEF SearchInv, SameMethod, LoopInv
    <2> QED  BY <1>1, <1>2, <2>1, <2>2, <2>3 DEF SearchInv, ResolvedStaysValid
  <1>4. CASE i <= Len(routes) /\ routes[i].method = request.method /\ MatchesPath(i)
    <2>1. router_pc' = "idle" /\ answer' = [kind |-> "handler", route |-> i] /\ UNCHANGED i
      BY <1>4 DEF SameMethod, TableInv, LoopInv
    <2>2. TableInv' /\ LoopInv'
      BY <1>1, <1>2, <1>4, <2>1, RouterAssumption DEF TableInv, LoopInv, Answers
    <2>3. i \in Own  BY <1>2, <1>4 DEF Own, Matching, LoopInv
    <2> QED  BY <1>1, <1>4, <2>1, <2>2, <2>3, RouterAssumption DEF SearchInv, ResolvedStaysValid, TableInv, LoopInv
  <1>5. CASE i <= Len(routes) /\ ~(routes[i].method = request.method /\ MatchesPath(i))
    <2>1. i' = i + 1 /\ UNCHANGED <<router_pc, answer>>
      BY <1>5 DEF SameMethod, TableInv, LoopInv
    <2>2. TableInv' /\ LoopInv'
      BY <1>1, <1>2, <1>5, <2>1 DEF TableInv, LoopInv
    <2>3. i \notin Own  BY <1>5 DEF Own, Matching
    <2>4. SearchInv'
      BY <1>1, <1>2, <2>1, <2>3 DEF SearchInv, LoopInv, SameMethod
    <2> QED  BY <1>1, <2>1, <2>2, <2>4 DEF ResolvedStaysValid
  <1> QED  BY <1>2, <1>3, <1>4, <1>5 DEF LoopInv

LEMMA AnyMethodInv ==
  ASSUME IInv, AnyMethod
  PROVE  IInv'
  <1> USE DEF IInv
  <1>1. UNCHANGED <<routes, request, known>> /\ Own' = Own /\ Matching' = Matching
    BY DEF AnyMethod, Own, Matching, MatchesPath
  <1>2. /\ DOMAIN routes = 1 .. Len(routes)
        /\ Matching \subseteq 1 .. Len(routes) /\ Len(routes) \in Nat
    BY DEF TableInv, Matching
  <1>3. CASE EndsLoop \/ MatchesPath(i)
    <2>1. /\ router_pc' = "idle" /\ UNCHANGED i
          /\ answer' \in {Answer("405"), Answer("file"), Answer("404")}
      BY <1>3 DEF AnyMethod, NotFound
    <2>2. TableInv' /\ LoopInv'
      BY <1>1, <2>1, RouterAssumption DEF TableInv, LoopInv, Answer, Answers
    <2> QED  BY <2>1, <2>2 DEF SearchInv, ResolvedStaysValid, Answer
  <1>4. CASE ~EndsLoop /\ ~MatchesPath(i)
    <2>1. i' = i + 1 /\ UNCHANGED <<router_pc, answer>> /\ i <= Len(routes)
      BY <1>2, <1>4 DEF AnyMethod, EndsLoop, LoopInv
    <2>2. TableInv' /\ LoopInv'
      BY <1>1, <1>2, <2>1 DEF TableInv, LoopInv
    <2>3. i \notin Matching  BY <1>4 DEF Matching
    <2>4. SearchInv'
      BY <1>1, <1>2, <2>1, <2>3 DEF SearchInv, LoopInv, AnyMethod
    <2> QED  BY <1>1, <2>1, <2>2, <2>4 DEF ResolvedStaysValid
  <1> QED  BY <1>3, <1>4

LEMMA NextInv ==
  IInv /\ [RouterNext]_router_vars => IInv'
  <1> SUFFICES ASSUME IInv, [RouterNext]_router_vars
               PROVE  IInv'
    OBVIOUS
  <1>1. ASSUME NEW method \in Methods, NEW matches \in Matches, AddRoute(method, matches)
        PROVE  IInv'
    BY <1>1, AddInv
  <1>2. ASSUME NEW method \in Methods, NEW url \in Paths, Dispatch(method, url)
        PROVE  IInv'
    BY <1>2, DispatchInv
  <1>3. CASE SameMethod  BY <1>3, SameMethodInv
  <1>4. CASE AnyMethod  BY <1>4, AnyMethodInv
  <1>5. CASE UNCHANGED router_vars
    BY <1>5 DEF router_vars, IInv, TableInv, LoopInv, SearchInv, ResolvedStaysValid, Own, Matching,
         MatchesPath
  <1> QED  BY <1>1, <1>2, <1>3, <1>4, <1>5 DEF RouterNext

LEMMA RouterInv ==
  RouterSpec => []IInv
  <1>1. RouterInit => IInv  BY InitInv
  <1>2. IInv /\ [RouterNext]_router_vars => IInv'  BY NextInv
  <1> QED  BY <1>1, <1>2, PTL DEF RouterSpec

-----------------------------------------------------------------------------
(* Theorems.                                                               *)

(* The route of a handler that runs is the one resolved, and within the    *)
(* table, whatever is registered while it runs: dispatch may keep its      *)
(* pointer.                                                                *)
THEOREM ResolvedCorrect ==
  RouterSpec => []ResolvedStaysValid
  <1>1. IInv => ResolvedStaysValid  BY DEF IInv
  <1> QED  BY <1>1, RouterInv, PTL

(* The step that decides is one that leaves a loop.                        *)
LEMMA AnswerStep ==
  ASSUME IInv, RouterNext, answer.kind = "none", answer'.kind # "none"
  PROVE  \/ /\ answer' = [kind |-> "handler", route |-> i]
            /\ i \in Own /\ \A k \in Own : i <= k
         \/ /\ answer' = Answer("405")
            /\ i \in Matching /\ \A k \in Own : k > known
         \/ answer' = NotFound /\ Matching = {}
  <1> USE DEF IInv
  <1>0. DOMAIN routes = 1 .. Len(routes) /\ Len(routes) \in Nat
    BY DEF TableInv
  <1>1. CASE \E method \in Methods, matches \in Matches : AddRoute(method, matches)
    BY <1>1 DEF AddRoute
  <1>2. CASE \E method \in Methods, url \in Paths : Dispatch(method, url)
    BY <1>2 DEF Dispatch, Answer
  <1>3. CASE SameMethod
    <2>1. i <= Len(routes) /\ routes[i].method = request.method /\ MatchesPath(i)
      BY <1>0, <1>3 DEF SameMethod, LoopInv
    <2>2. answer' = [kind |-> "handler", route |-> i]
      BY <1>0, <1>3, <2>1 DEF SameMethod, LoopInv
    <2>3. i \in Own  BY <1>0, <2>1 DEF Own, Matching, LoopInv
    <2>4. \A k \in Own : i <= k
      BY <1>0, <1>3 DEF SearchInv, SameMethod, LoopInv, Own, Matching
    <2> QED  BY <2>2, <2>3, <2>4
  <1>4. CASE AnyMethod
    <2>1. CASE EndsLoop
      <3>1. answer' = NotFound  BY <1>4, <2>1 DEF AnyMethod
      <3>2. Matching = {}
        BY <1>0, <1>4, <2>1 DEF SearchInv, AnyMethod, LoopInv, Matching, EndsLoop
      <3> QED  BY <3>1, <3>2
    <2>2. CASE ~EndsLoop
      <3>1. MatchesPath(i) /\ answer' = Answer("405")
        BY <1>4, <2>2 DEF AnyMethod
      <3>2. i \in Matching
        BY <1>0, <2>2, <3>1 DEF Matching, EndsLoop, LoopInv
      <3> QED  BY <1>4, <3>1, <3>2 DEF SearchInv, AnyMethod
    <2> QED  BY <2>1, <2>2
  <1> QED  BY <1>1, <1>2, <1>3, <1>4 DEF RouterNext

(* The answer is the one docs/api.md:36-45 gives, even if the application  *)
(* registers routes between any two steps of the loops: the first route of *)
(* the method, 405, a file, 404, in this order.                            *)
THEOREM AnswersCorrect ==
  RouterSpec => AnswersAsDocumented
  <1> DEFINE Decided ==
        CASE answer'.kind = "handler" -> answer'.route \in Own /\ \A k \in Own : answer'.route <= k
          [] answer'.kind = "405" -> Matching # {} /\ \A k \in Own : k > known
          [] OTHER -> /\ Matching = {}
                      /\ answer'.kind = "file" <=> request.method = GET /\ request.path \in FilePaths
  <1>1. ASSUME IInv, [RouterNext]_router_vars, answer.kind = "none", answer'.kind # "none"
        PROVE  Decided
    <2>1. RouterNext  BY <1>1 DEF router_vars
    <2>2. CASE /\ answer' = [kind |-> "handler", route |-> i]
               /\ i \in Own /\ \A k \in Own : i <= k
      BY <2>2
    <2>3. CASE /\ answer' = Answer("405")
               /\ i \in Matching /\ \A k \in Own : k > known
      BY <2>3 DEF Answer
    <2>4. CASE answer' = NotFound /\ Matching = {}
      BY <2>4 DEF Answer, NotFound
    <2> QED  BY <1>1, <2>1, <2>2, <2>3, <2>4, AnswerStep
  <1>2. IInv /\ [RouterNext]_router_vars => [answer.kind = "none" /\ answer'.kind # "none" => Decided]_router_vars
    BY <1>1
  <1> QED  BY <1>2, RouterInv, PTL DEF RouterSpec, AnswersAsDocumented
=============================================================================
