------------------------------ MODULE Caddyfile ------------------------------
(***************************************************************************)
(* What the routes of one host become: renderCaddyfile, validatePublication *)
(* and caddyPathMatcher in internal/route_runtime/docker_caddy.go, and what *)
(* Caddy does with the text.  A path is a sequence of characters.          *)
(***************************************************************************)
EXTENDS Naturals, Sequences, FiniteSets, SequencesExt

CONSTANTS
    ValidHost,    \* the hosts validCaddyHost matches
    Globs(_, _)   \* the glob, of any kind, takes the request

Slash == <<"/">>

Star == <<"*">>

Port == 1..65535

\* What would end the path in the text of the Caddyfile.
Breaks == {" ", "{", "}"}

validatePublication(host, routes) ==
    /\ host \in ValidHost
    /\ \A i \in DOMAIN routes :
        /\ routes[i].port \in Port
        /\ IsPrefix(Slash, routes[i].path)
        /\ \A j \in DOMAIN routes[i].path : routes[i].path[j] \notin Breaks

\* Mutant of caddyPathMatcher: the path as it is.
exactPathMatcher(path) == path

caddyPathMatcher(path) == IF IsSuffix(Star, path) THEN path ELSE path \o Star

\* The stable sort of the routes: the longest path first, routes of one length
\* in their order.  The place of a route is one after those before it.
Before(routes, i, j) ==
    \/ Len(routes[i].path) > Len(routes[j].path)
    \/ Len(routes[i].path) = Len(routes[j].path) /\ i < j

Place(routes, i) == Cardinality({j \in DOMAIN routes : Before(routes, j, i)}) + 1

\* "/" becomes a block without a matcher.
Block(route) ==
    [matcher |-> IF route.path = Slash THEN << >> ELSE caddyPathMatcher(route.path),
     route   |-> route]

renderCaddyfile(routes) ==
    [n \in DOMAIN routes |->
        Block(routes[CHOOSE i \in DOMAIN routes : Place(routes, i) = n])]

-----------------------------------------------------------------------------
(* Caddy: `handle' blocks exclude each other.                              *)

Trimmed(path) == IF IsSuffix(Star, path) THEN Front(path) ELSE path

\* One star at the end makes a prefix of the matcher; any other matcher goes
\* to path.Match.
Takes(matcher, request) ==
    \/ matcher = << >>
    \/ IF IsSuffix(Star, matcher) /\ "*" \notin Range(Front(matcher))
       THEN IsPrefix(Front(matcher), request)
       ELSE Globs(matcher, request)

\* The Caddyfile adapter tries the longest matcher first, of two that differ
\* in their star the exact one, and blocks without a matcher last.
Ahead(a, b) ==
    IF a = << >> \/ b = << >> THEN a # << >> /\ b = << >>
    ELSE IF Trimmed(a) = Trimmed(b) THEN Len(a) < Len(b) ELSE Len(a) > Len(b)

\* The block that answers a request: none that would is tried before it.
Handles(blocks, n, request) ==
    /\ Takes(blocks[n].matcher, request)
    /\ \A m \in DOMAIN blocks \ {n} :
           Takes(blocks[m].matcher, request) =>
               /\ ~Ahead(blocks[m].matcher, blocks[n].matcher)
               /\ m < n => Ahead(blocks[n].matcher, blocks[m].matcher)

-----------------------------------------------------------------------------
(* Which requests a path stands for: the routing rules of the RFC.         *)

\* "root is /, non-root paths have no trailing slash".
Normal(path) == IF path # Slash /\ IsSuffix(Slash, path) THEN Front(path) ELSE path

\* "matching is by path-segment boundary, not raw text prefix".
Under(request, path) ==
    \/ Normal(path) \in {Slash, request}
    \/ IsPrefix(Normal(path) \o Slash, request)

\* The text of the paths says of this request what their segments say.  It
\* does not of /api2 beside a route /api, nor of /api beside a route /api/;
\* and stars, which the rules do not speak of, are not in play.
SegmentsDecide(request, routes) ==
    \A i \in DOMAIN routes :
        LET path == routes[i].path
        IN  IF "*" \in Range(path)
            THEN ~Takes(caddyPathMatcher(path), request) /\ ~Under(request, path)
            ELSE IsPrefix(path, request) <=> Under(request, path)
=============================================================================
