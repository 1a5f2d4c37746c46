------------------------------- MODULE Router -------------------------------
(***************************************************************************)
(* How busl answers a request before a handler of its own sees it          *)
(* (server/server.go app, server/middleware.go): the standard library's    *)
(* mux, enforceHTTPS, gorilla/mux with its routes, and basic auth.         *)
(*                                                                         *)
(* A path is the sequence of its slashes and of the names between them:    *)
(* "/streams//a" is <<"/", "streams", "/", "/", "a">>.  A template is cut  *)
(* the same way, with its braces and the colon as tokens; no template of   *)
(* busl has more than one variable.                                        *)
(***************************************************************************)
EXTENDS Integers, Sequences

CONSTANTS
  Creds,         \* util.Creds cut at "|", each entry cut at its first ":"
  EnforceHTTPS   \* util.EnforceHTTPS

\* What flags give: a string, cut into strings, and a switch.
ASSUME RouterAssumption == Creds \in Seq(Seq(STRING)) /\ EnforceHTTPS \in BOOLEAN

-----------------------------------------------------------------------------
(* Paths.                                                                  *)

\* path.Clean of a rooted path: the names that remain.
Names(path) ==
  LET kept[i \in 0..Len(path)] ==
        IF i = 0 THEN << >>
        ELSE LET k == kept[i - 1]
             IN  CASE path[i] \in {"/", "."} -> k
                   [] path[i] = ".." -> SubSeq(k, 1, Len(k) - 1)
                   [] OTHER -> Append(k, path[i])
  IN  kept[Len(path)]

Rooted(names) ==
  IF names = << >> THEN <<"/">>
  ELSE [i \in 1..(2 * Len(names)) |-> IF i % 2 = 1 THEN "/" ELSE names[i \div 2]]

\* The canonical form of a path, which keeps a slash at its end.
cleanPath(path) ==
  LET np == Rooted(Names(path))
  IN  IF path # << >> /\ path[Len(path)] = "/" /\ np # <<"/">> THEN np \o <<"/">> ELSE np

-----------------------------------------------------------------------------
(* Templates.                                                              *)

\* Nesting of the braces after each token.
Level(tpl) ==
  LET level[i \in 0..Len(tpl)] ==
        IF i = 0 THEN 0
        ELSE CASE tpl[i] = "{" -> level[i - 1] + 1
               [] tpl[i] = "}" -> level[i - 1] - 1
               [] OTHER -> level[i - 1]
  IN  level

Balanced(tpl) ==
  (\A i \in DOMAIN tpl : Level(tpl)[i] >= 0) /\ Level(tpl)[Len(tpl)] = 0

\* braceIndices: where the outermost braces open and close.
Braces(tpl) ==
  {b \in (DOMAIN tpl) \X (DOMAIN tpl) :
     /\ b[1] < b[2]
     /\ Level(tpl)[b[1] - 1] = 0 /\ Level(tpl)[b[2]] = 0
     /\ \A i \in b[1]..(b[2] - 1) : Level(tpl)[i] > 0}

\* A routeRegexp that is none.
BadTemplate == [ok |-> FALSE, raw |-> << >>, name |-> "", patt |-> "", rest |-> << >>]

\* What is between the braces: a name, and a pattern behind a colon.
WithVariable(raw, parts, rest) ==
  IF parts = << >> \/ parts[1] = ":" \/ parts[Len(parts)] = ":" THEN BadTemplate
  ELSE [ok |-> TRUE, raw |-> raw, name |-> parts[1],
        patt |-> IF Len(parts) > 1 THEN parts[3] ELSE "[^/]+", rest |-> rest]

\* newRouteRegexp: raw text, a variable with its pattern, the remaining text.
Regexp(tpl) ==
  LET Cut(b) == WithVariable(SubSeq(tpl, 1, b[1] - 1), SubSeq(tpl, b[1] + 1, b[2] - 1),
                             SubSeq(tpl, b[2] + 1, Len(tpl)))
  IN  IF tpl = << >> \/ tpl[1] # "/" \/ ~Balanced(tpl) THEN BadTemplate
      ELSE IF Braces(tpl) = {} THEN [BadTemplate EXCEPT !.ok = TRUE, !.raw = tpl]
      ELSE Cut(CHOOSE b \in Braces(tpl) : TRUE)

\* "." matches everything but a newline.
Fits(patt, text) ==
  /\ text # << >>
  /\ \A i \in DOMAIN text : text[i] # (IF patt = ".+" THEN "\n" ELSE "/")

\* What the variable of re stands for if path is to match.
Variable(re, path) == SubSeq(path, Len(re.raw) + 1, Len(path) - Len(re.rest))

\* The regular expression, anchored at both ends, matches.
Matches(re, path) ==
  /\ path = re.raw \o Variable(re, path) \o re.rest
  /\ IF re.name = "" THEN Variable(re, path) = << >>
     ELSE Fits(re.patt, Variable(re, path))

-----------------------------------------------------------------------------
(* Credentials.                                                            *)

\* NewBasicAuthFromString accepts them; auth ends the process otherwise.
CredsOK ==
  \A i \in DOMAIN Creds : Len(Creds[i]) = 2 /\ Creds[i][1] # "" /\ Creds[i][2] # ""

\* AddPrincipal: a user may have several passwords.
Passwords(user) == {Creds[i][2] : i \in {i \in DOMAIN Creds : Creds[i][1] = user}}

\* req.cred is << >> when the request has no Authorization header.
Authenticate(req) == req.cred # << >> /\ req.cred[2] \in Passwords(req.cred[1])

\* Mutant: who names a user is let in.
AllowedByName(handler, req) ==
  ~handler.auth \/ (req.cred # << >> /\ Passwords(req.cred[1]) # {})

\* WrapAuth.
Allowed(handler, req) == ~handler.auth \/ Authenticate(req)

\* auth wraps a handler only if credentials are configured.
auth(fn) == [fn |-> fn, auth |-> Creds # << >>]

plain(fn) == [fn |-> fn, auth |-> FALSE]

-----------------------------------------------------------------------------
(* Building routes.  One whose template is bad keeps the error, gets       *)
(* neither handler nor matchers, and matches nothing.                      *)

NoHandler == plain("none")

\* Matchers, of the kinds busl asks for.
PathMatcher(re) == [kind |-> "path", re |-> re, methods |-> {}]

MethodMatcher(methods) == [kind |-> "methods", re |-> BadTemplate, methods |-> methods]

\* Router.NewRoute: the last of the routes so far.
NewRoute == [err |-> FALSE, handler |-> NoHandler, matchers |-> << >>, path |-> BadTemplate]

addMatcher(route, m) == IF route.err THEN route ELSE [route EXCEPT !.matchers = Append(@, m)]

addRegexpMatcher(route, re) ==
  IF re.ok /\ ~route.err THEN [addMatcher(route, PathMatcher(re)) EXCEPT !.path = re]
                          ELSE [route EXCEPT !.err = TRUE]

\* Route.Path.
Path(route, tpl) == addRegexpMatcher(route, Regexp(tpl))

HandlerFunc(route, handler) == IF route.err THEN route ELSE [route EXCEPT !.handler = handler]

Methods(route, methods) == addMatcher(route, MethodMatcher(methods))

\* Router.HandleFunc.
HandleFunc(path, handler) == HandlerFunc(Path(NewRoute, path), handler)

-----------------------------------------------------------------------------
(* The routes of busl, in the order in which they are tried.               *)

Streams == <<"/", "streams">>
Keyed == Streams \o <<"/", "{", "key", ":", ".+", "}">>

\* A route without methods answers to all of them.
Routes == <<
  HandleFunc(<<"/", "health">>, plain("health")),
  HandleFunc(Streams, auth("mkstream")),
  Methods(HandleFunc(Keyed, plain("sub")), {"GET"}),
  Methods(HandleFunc(Keyed, plain("pub")), {"POST"}),
  Methods(HandleFunc(Keyed, auth("put")), {"PUT"}) >>

\* matchInArray, or the regular expression.
MatcherMatches(m, req) ==
  CASE m.kind = "path" -> Matches(m.re, req.path) [] m.kind = "methods" -> req.method \in m.methods

\* Route.Match: all matchers match.
RouteMatches(route, req) ==
  ~route.err /\ \A i \in DOMAIN route.matchers : MatcherMatches(route.matchers[i], req)

Hits(req) == {i \in DOMAIN Routes : RouteMatches(Routes[i], req)}

\* Router.Match: the first that matches.
First(hits) == CHOOSE i \in hits : \A k \in hits : i <= k

Matched(req) == Routes[First(Hits(req))]

\* setMatch: the variables of the path, which mux.Vars finds in the context.
Vars(route, path) ==
  IF route.path.name = "" THEN << >> ELSE [name \in {route.path.name} |-> Variable(route.path, path)]

\* mux.Vars(r)["key"]
key(vars) == IF "key" \in DOMAIN vars THEN vars["key"] ELSE << >>

-----------------------------------------------------------------------------
(* The answer to a request: a handler, a status, or where to ask again.    *)

Reply(handler, k) == [handler |-> handler, key |-> k, next |-> << >>]

Redirect(req) == [handler |-> "301", key |-> << >>, next |-> req]

\* The handler of a route, behind its check of the credentials.
Handled(route, req) ==
  IF Allowed(route.handler, req) THEN Reply(route.handler.fn, key(Vars(route, req.path)))
                                 ELSE Reply("401", << >>)

\* gorilla/mux: Router.ServeHTTP.
RouterServe(req) ==
  CASE cleanPath(req.path) # req.path -> Redirect([req EXCEPT !.path = cleanPath(@)])
    [] cleanPath(req.path) = req.path /\ Hits(req) = {} -> Reply("404", << >>)
    [] OTHER -> Handled(Matched(req), req)

\* Mutant: the URL to ask again keeps its scheme.
SchemeKept(req) ==
  IF EnforceHTTPS /\ req.proto # "https" THEN Redirect(req) ELSE RouterServe(req)

enforceHTTPS(req) ==
  IF EnforceHTTPS /\ req.proto # "https"
    THEN Redirect([req EXCEPT !.proto = "https"]) ELSE RouterServe(req)

\* The standard library's mux, where app is registered for "/", redirects to
\* the clean path itself, but for CONNECT.
Answer(req) ==
  IF req.method # "CONNECT" /\ cleanPath(req.path) # req.path
    THEN Redirect([req EXCEPT !.path = cleanPath(@)]) ELSE enforceHTTPS(req)
=============================================================================
