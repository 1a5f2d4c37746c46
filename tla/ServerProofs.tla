---------------------------- MODULE ServerProofs ----------------------------
(***************************************************************************)
(* Proofs about the routes and the process that serves them, for any       *)
(* credentials, requests and connections and any length of Rollbar's       *)
(* queue.                                                                  *)
(***************************************************************************)
EXTENDS Server, FiniteSetTheorems, TLAPS

-----------------------------------------------------------------------------
(* Induction over a set of numbers, which Names walks along a path with.   *)

LEMMA Least ==
  ASSUME NEW S, S \subseteq Nat, S # {}
  PROVE  \E m \in S : \A k \in S : m <= k
<1>1. PICK m \in S : \A k \in S : <<k, m>> \notin OpToRel(<, Nat)
  BY WFMin, NatLessThanWellFounded, Zenon
<1>2. ASSUME NEW k \in S, k < m
      PROVE  FALSE
  <2>1. <<k, m>> \in Nat \X Nat /\ <<k, m>>[1] < <<k, m>>[2]
    BY <1>2
  <2>2. <<k, m>> \in OpToRel(<, Nat)
    BY <2>1, Zenon DEF OpToRel
  <2> QED
    BY <1>1, <1>2, <2>2
<1> QED
  BY <1>2

\* Induction, for a set of numbers.
LEMMA AllNumbers ==
  ASSUME NEW S, S \subseteq Nat, 0 \in S, \A n \in S : n + 1 \in S
  PROVE  S = Nat
<1>1. SUFFICES ASSUME Nat \ S # {} PROVE FALSE
  OBVIOUS
<1>2. PICK m \in Nat \ S : \A k \in Nat \ S : m <= k
  BY <1>1, Least
<1>3. m # 0 /\ m - 1 \in Nat /\ (m - 1) + 1 = m
  BY <1>2
<1>4. m - 1 \in S
  BY <1>2, <1>3
<1> QED
  BY <1>2, <1>3, <1>4

-----------------------------------------------------------------------------
(* Paths: what is clean stays as it is.                                    *)

\* What a path is made of.
Token == STRING \cup {"/", ".", ".."}

Name == Token \ {"/", ".", ".."}

\* What one token does to the names before it.
Walked(names, token) ==
  CASE token \in {"/", "."} -> names
    [] token = ".." -> SubSeq(names, 1, Len(names) - 1)
    [] OTHER -> Append(names, token)

Walk(f, path, n) == f = [i \in 0..n |-> IF i = 0 THEN << >> ELSE Walked(f[i - 1], path[i])]

LEMMA WalkExists ==
  ASSUME NEW path, NEW n \in Nat
  PROVE  \E f : Walk(f, path, n)
<1> DEFINE S == {k \in Nat : \E f : Walk(f, path, k)}
<1>1. 0 \in S
  <2> DEFINE f == [i \in 0..0 |-> << >>]
  <2>1. Walk(f, path, 0)
    BY DEF Walk
  <2> QED
    BY <2>1
<1>2. ASSUME NEW k \in S
      PROVE  k + 1 \in S
  <2>1. PICK f : Walk(f, path, k)
    OBVIOUS
  <2> DEFINE g == [i \in 0..(k + 1) |-> IF i = k + 1 THEN Walked(f[k], path[k + 1]) ELSE f[i]]
             F(i) == IF i = 0 THEN << >> ELSE Walked(g[i - 1], path[i])
  <2>2. k \in Nat /\ \A i \in 0..k : f[i] = IF i = 0 THEN << >> ELSE Walked(f[i - 1], path[i])
    BY <2>1 DEF Walk
  <2>3. \A i \in 0..(k + 1) : g[i] = F(i)
    <3> SUFFICES ASSUME NEW i \in 0..(k + 1) PROVE g[i] = F(i)
      OBVIOUS
    <3>1. CASE i = 0
      BY <2>2, <3>1
    <3>2. CASE i \in 1..k
      <4>1. i \in 0..k /\ i - 1 \in 0..k /\ i # k + 1 /\ i - 1 # k + 1 /\ i # 0
        BY <2>2, <3>2
      <4>2. g[i] = f[i] /\ g[i - 1] = f[i - 1]
        BY <2>2, <4>1
      <4> HIDE DEF g
      <4> QED
        BY <2>2, <4>1, <4>2
    <3>3. CASE i = k + 1
      <4>1. g[k + 1] = Walked(f[k], path[k + 1]) /\ g[k] = f[k] /\ i - 1 = k /\ i # 0
        BY <2>2, <3>3
      <4> HIDE DEF g
      <4> QED
        BY <3>3, <4>1
    <3> QED
      BY <2>2, <3>1, <3>2, <3>3
  <2>4. g = [i \in 0..(k + 1) |-> F(i)]
    <3>1. g = [i \in 0..(k + 1) |-> g[i]]
      OBVIOUS
    <3> HIDE DEF g
    <3> QED
      BY <2>3, <3>1
  <2>5. Walk(g, path, k + 1)
    BY <2>4 DEF Walk
  <2> QED
    BY <2>2, <2>5
<1>3. S = Nat
  <2> HIDE DEF S
  <2>1. S \subseteq Nat
    BY DEF S
  <2> QED
    BY <1>1, <1>2, <2>1, AllNumbers
<1> QED
  BY <1>3

\* Names walks along the path.
LEMMA NamesIs ==
  ASSUME NEW path \in Seq(Token)
  PROVE  \E f : /\ f[0] = << >>
                /\ \A i \in 1..Len(path) : f[i] = Walked(f[i - 1], path[i])
                /\ Names(path) = f[Len(path)]
<1> DEFINE kept == CHOOSE f : Walk(f, path, Len(path))
<1>1. Names(path) = kept[Len(path)]
  BY DEF Names, Walk, Walked
<1>2. Walk(kept, path, Len(path))
  BY WalkExists
<1> HIDE DEF kept
<1>3. Len(path) \in Nat
  OBVIOUS
<1>4. \A i \in 0..Len(path) : kept[i] = IF i = 0 THEN << >> ELSE Walked(kept[i - 1], path[i])
  BY <1>2, <1>3 DEF Walk
<1> QED
  BY <1>1, <1>3, <1>4

LEMMA OneSlash == <<"/">> \in Seq(Token) /\ Len(<<"/">>) = 1 /\ <<"/">>[1] = "/"
BY DEF Token

\* What a path is reduced to contains only names.
LEMMA NamesAreNames ==
  ASSUME NEW path \in Seq(Token)
  PROVE  Names(path) \in Seq(Name)
<1>1. PICK f : /\ f[0] = << >>
               /\ \A i \in 1..Len(path) : f[i] = Walked(f[i - 1], path[i])
               /\ Names(path) = f[Len(path)]
  BY NamesIs
<1> DEFINE S == {n \in Nat : n <= Len(path) => f[n] \in Seq(Name)}
<1>2. 0 \in S
  <2>1. << >> \in Seq(Name)
    OBVIOUS
  <2> QED
    BY <1>1, <2>1
<1>3. ASSUME NEW n \in S
      PROVE  n + 1 \in S
  <2>1. n \in Nat /\ n + 1 \in Nat
    OBVIOUS
  <2>2. SUFFICES ASSUME n + 1 <= Len(path) PROVE f[n + 1] \in Seq(Name)
    BY <2>1
  <2>3. n + 1 \in 1..Len(path) /\ (n + 1) - 1 = n /\ f[n] \in Seq(Name) /\ path[n + 1] \in Token
    BY <2>1, <2>2
  <2>4. f[n + 1] = Walked(f[n], path[n + 1])
    BY <1>1, <2>3
  <2>5. ASSUME NEW s \in Seq(Name), NEW token \in Token
        PROVE  Walked(s, token) \in Seq(Name)
    <3>1. SubSeq(s, 1, Len(s) - 1) \in Seq(Name)
      OBVIOUS
    <3> QED
      BY <3>1 DEF Walked, Name
  <2> QED
    BY <2>3, <2>4, <2>5
<1>4. S = Nat
  <2> HIDE DEF S
  <2>1. S \subseteq Nat
    BY DEF S
  <2> QED
    BY <1>2, <1>3, <2>1, AllNumbers
<1> QED
  BY <1>1, <1>4

\* A path whose tokens are, in turn, a slash and the next of the names.
Alternates(path, names) ==
  \A j \in 1..Len(names) : path[2 * j - 1] = "/" /\ path[2 * j] = names[j]

LEMMA RootedAlternates ==
  ASSUME NEW names \in Seq(Name), names # << >>
  PROVE  /\ Rooted(names) \in Seq(Token)
         /\ Len(Rooted(names)) = 2 * Len(names)
         /\ Alternates(Rooted(names), names)
<1> DEFINE L == Len(names)
<1>1. L \in Nat \ {0}
  OBVIOUS
<1> HIDE DEF L
<1>2. Rooted(names) = [i \in 1..(2 * L) |-> IF i % 2 = 1 THEN "/" ELSE names[i \div 2]]
  BY DEF Rooted, L
<1>3. 2 * L \in Nat
  BY <1>1
<1>4. \A i \in 1..(2 * L) : i % 2 = 1 \/ i \div 2 \in 1..L
  BY <1>1
<1>5. \A i \in 1..(2 * L) : Rooted(names)[i] \in Token
  <2>1. \A k \in 1..L : names[k] \in Token
    BY DEF Name, L
  <2> SUFFICES ASSUME NEW i \in 1..(2 * L) PROVE Rooted(names)[i] \in Token
    OBVIOUS
  <2>2. Rooted(names)[i] = IF i % 2 = 1 THEN "/" ELSE names[i \div 2]
    BY <1>2
  <2>3. CASE i % 2 = 1
    BY <2>2, <2>3 DEF Token
  <2>4. CASE i % 2 # 1
    <3>1. i \div 2 \in 1..L /\ Rooted(names)[i] = names[i \div 2]
      BY <1>4, <2>2, <2>4
    <3> QED
      BY <2>1, <3>1
  <2> QED
    BY <2>3, <2>4
<1>6. Rooted(names) \in [1..(2 * L) -> Token]
  BY <1>2, <1>5
<1>7. Rooted(names) \in Seq(Token) /\ Len(Rooted(names)) = 2 * L
  BY <1>2, <1>3, <1>6
<1>8. ASSUME NEW j \in 1..L
      PROVE  Rooted(names)[2 * j - 1] = "/" /\ Rooted(names)[2 * j] = names[j]
  <2>1. /\ 2 * j - 1 \in 1..(2 * L) /\ (2 * j - 1) % 2 = 1
        /\ 2 * j \in 1..(2 * L) /\ (2 * j) % 2 # 1 /\ (2 * j) \div 2 = j
    BY <1>1
  <2> QED
    BY <1>2, <2>1
<1> QED
  BY <1>7, <1>8 DEF Alternates, L

\* Of such a path the names remain.
LEMMA NamesOfAlternating ==
  ASSUME NEW path \in Seq(Token), NEW names \in Seq(Name), Alternates(path, names),
         \/ Len(path) = 2 * Len(names)
         \/ Len(path) = 2 * Len(names) + 1 /\ path[2 * Len(names) + 1] = "/"
  PROVE  Names(path) = names
<1>1. PICK f : /\ f[0] = << >>
               /\ \A i \in 1..Len(path) : f[i] = Walked(f[i - 1], path[i])
               /\ Names(path) = f[Len(path)]
  BY NamesIs
<1>2. Len(names) \in Nat /\ Len(path) \in Nat
  OBVIOUS
<1> DEFINE S == {n \in Nat : n <= Len(names) => f[2 * n] = SubSeq(names, 1, n)}
<1>3. 0 \in S
  <2>1. SubSeq(names, 1, 0) = << >> /\ 2 * 0 = 0
    OBVIOUS
  <2> QED
    BY <1>1, <2>1
<1>4. ASSUME NEW n \in S
      PROVE  n + 1 \in S
  <2>1. n \in Nat /\ n + 1 \in Nat
    OBVIOUS
  <2>2. SUFFICES ASSUME n + 1 <= Len(names) PROVE f[2 * (n + 1)] = SubSeq(names, 1, n + 1)
    BY <2>1
  <2>3. /\ n + 1 \in 1..Len(names) /\ n <= Len(names)
        /\ 2 * (n + 1) \in 1..Len(path) /\ 2 * (n + 1) - 1 \in 1..Len(path)
        /\ (2 * (n + 1) - 1) - 1 = 2 * n
    BY <1>2, <2>1, <2>2
  <2>4. f[2 * (n + 1) - 1] = Walked(f[2 * n], path[2 * (n + 1) - 1])
    BY <1>1, <2>3
  <2>5. f[2 * (n + 1)] = Walked(f[2 * (n + 1) - 1], path[2 * (n + 1)])
    BY <1>1, <2>3
  <2>6. path[2 * (n + 1) - 1] = "/" /\ path[2 * (n + 1)] = names[n + 1]
    BY <2>3 DEF Alternates
  <2>7. names[n + 1] \in Name
    BY <2>3
  <2>8. f[2 * n] = SubSeq(names, 1, n)
    BY <2>1, <2>3
  <2>9. f[2 * (n + 1) - 1] = SubSeq(names, 1, n)
    BY <2>4, <2>6, <2>8 DEF Walked
  <2>10. f[2 * (n + 1)] = Append(SubSeq(names, 1, n), names[n + 1])
    BY <2>5, <2>6, <2>7, <2>9 DEF Walked, Name
  <2>11. SubSeq(names, 1, n + 1) = Append(SubSeq(names, 1, n), names[n + 1])
    BY <2>1, <2>2
  <2> QED
    BY <2>10, <2>11
<1>5. S = Nat
  <2> HIDE DEF S
  <2>1. S \subseteq Nat
    BY DEF S
  <2> QED
    BY <1>3, <1>4, <2>1, AllNumbers
<1>6. f[2 * Len(names)] = names
  <2>1. SubSeq(names, 1, Len(names)) = names
    OBVIOUS
  <2>2. Len(names) \in S
    BY <1>2, <1>5
  <2> QED
    BY <2>1, <2>2
<1>7. CASE Len(path) = 2 * Len(names)
  BY <1>1, <1>6, <1>7
<1>8. CASE Len(path) = 2 * Len(names) + 1 /\ path[2 * Len(names) + 1] = "/"
  <2>1. Len(path) \in 1..Len(path) /\ Len(path) - 1 = 2 * Len(names)
    BY <1>2, <1>8
  <2>2. f[Len(path)] = Walked(f[2 * Len(names)], path[Len(path)])
    BY <1>1, <2>1
  <2> QED
    BY <1>1, <1>6, <1>8, <2>2 DEF Walked
<1> QED
  BY <1>7, <1>8

\* A clean path is its own canonical form: neither mux sends anybody on from it.
LEMMA CleanTwice ==
  ASSUME NEW path \in Seq(Token)
  PROVE  cleanPath(path) \in Seq(Token) /\ cleanPath(cleanPath(path)) = cleanPath(path)
<1> DEFINE names == Names(path)
           np == Rooted(names)
           p == cleanPath(path)
<1>1. names \in Seq(Name)
  BY NamesAreNames
<1>2. p = np \/ (np # <<"/">> /\ p = np \o <<"/">>)
  BY DEF cleanPath
<1>3. CASE names = << >>
  <2>1. np = <<"/">> /\ p = <<"/">>
    BY <1>2, <1>3 DEF Rooted
  <2> HIDE DEF p, np, names
  <2>2. p \in Seq(Token) /\ Len(p) = 1 /\ p[1] = "/"
    BY <2>1, OneSlash
  <2>3. Len(names) = 0
    BY <1>3
  <2>4. Alternates(p, names) /\ Len(p) = 2 * Len(names) + 1 /\ p[2 * Len(names) + 1] = "/"
    BY <2>2, <2>3 DEF Alternates
  <2>5. Names(p) = names
    BY <1>1, <2>2, <2>4, NamesOfAlternating
  <2>6. cleanPath(p) = p
    BY <1>3, <2>1, <2>5 DEF cleanPath, Rooted
  <2> QED
    BY <2>2, <2>6 DEF p
<1>4. CASE names # << >>
  <2> HIDE DEF names
  <2>1. np \in Seq(Token) /\ Len(np) = 2 * Len(names) /\ Alternates(np, names)
    BY <1>1, <1>4, RootedAlternates
  <2>2. Len(names) \in Nat \ {0} /\ \A j \in 1..Len(names) : names[j] \in Name
    BY <1>1, <1>4
  <2>3. np # <<"/">>
    <3>1. Len(np) # 1
      BY <2>1, <2>2
    <3> HIDE DEF np
    <3> QED
      BY <3>1, OneSlash
  <2>4. np[Len(np)] # "/"
    <3>1. Len(names) \in 1..Len(names)
      BY <2>2
    <3> QED
      BY <2>1, <2>2, <3>1 DEF Alternates, Name
  <2>5. np # << >>
    BY <2>1, <2>2
  <2> HIDE DEF np
  <2>6. CASE p = np
    <3>1. Names(np) = names
      BY <1>1, <2>1, NamesOfAlternating
    <3>2. cleanPath(np) = np
      BY <2>4, <3>1 DEF cleanPath, np
    <3> QED
      BY <2>1, <2>6, <3>2
  <2>7. CASE p = np \o <<"/">>
    <3> DEFINE q == np \o <<"/">>
    <3>1. /\ q \in Seq(Token) /\ Len(q) = Len(np) + 1 /\ q[Len(np) + 1] = "/"
          /\ \A i \in 1..Len(np) : q[i] = np[i]
      BY <2>1, OneSlash
    <3> HIDE DEF q
    <3>2. Alternates(q, names)
      <4>1. \A j \in 1..Len(names) : 2 * j - 1 \in 1..Len(np) /\ 2 * j \in 1..Len(np)
        BY <2>1, <2>2
      <4> QED
        BY <2>1, <3>1, <4>1 DEF Alternates
    <3>3. Names(q) = names
      BY <1>1, <2>1, <3>1, <3>2, NamesOfAlternating
    <3>4. q # << >> /\ q[Len(q)] = "/"
      BY <2>1, <3>1
    <3>5. cleanPath(q) = q
      BY <2>3, <3>3, <3>4 DEF cleanPath, np, q
    <3>6. p = q
      BY <2>7 DEF q
    <3> HIDE DEF p
    <3> QED
      BY <3>1, <3>5, <3>6 DEF p
  <2> QED
    BY <1>2, <2>6, <2>7 DEF np
<1> QED
  BY <1>3, <1>4

-----------------------------------------------------------------------------
(* What the routes answer.                                                 *)

IsRequest(req) ==
  /\ req = [method |-> req.method, path |-> req.path, proto |-> req.proto, cred |-> req.cred]
  /\ req.path \in Seq(Token)
  /\ req.cred = << >> \/ req.cred \in STRING \X STRING

IsRoute(route) ==
  route = [err |-> route.err, handler |-> route.handler,
           matchers |-> route.matchers, path |-> route.path]

LEMMA RouteFields ==
  ASSUME NEW route, IsRoute(route), NEW x
  PROVE  /\ IsRoute([route EXCEPT !.err = x]) /\ [route EXCEPT !.err = x].err = x
         /\ IsRoute([route EXCEPT !.matchers = x]) /\ [route EXCEPT !.matchers = x].err = route.err
         /\ [route EXCEPT !.matchers = x].handler = route.handler
         /\ IsRoute([route EXCEPT !.path = x]) /\ [route EXCEPT !.path = x].err = route.err
         /\ IsRoute([route EXCEPT !.handler = x]) /\ [route EXCEPT !.handler = x].err = route.err
         /\ [route EXCEPT !.handler = x].handler = x
<1> DEFINE R(a, b, c, d) == [err |-> a, handler |-> b, matchers |-> c, path |-> d]
<1>1. PICK a, b, c, d : route = R(a, b, c, d)
  BY DEF IsRoute
<1>2. /\ [route EXCEPT !.err = x] = R(x, b, c, d)
      /\ [route EXCEPT !.handler = x] = R(a, x, c, d)
      /\ [route EXCEPT !.matchers = x] = R(a, b, x, d)
      /\ [route EXCEPT !.path = x] = R(a, b, c, x)
  BY <1>1
<1>3. \A p, q, r, s : R(p, q, r, s).err = p /\ R(p, q, r, s).handler = q /\ IsRoute(R(p, q, r, s))
  BY DEF IsRoute
<1> HIDE DEF R
<1> QED
  BY <1>1, <1>2, <1>3

\* A route whose template is good has the handler it was given.
LEMMA HandleFuncIs ==
  ASSUME NEW tpl, NEW handler
  PROVE  /\ IsRoute(HandleFunc(tpl, handler))
         /\ ~HandleFunc(tpl, handler).err => HandleFunc(tpl, handler).handler = handler
<1> DEFINE re == Regexp(tpl)
           p == Path(NewRoute, tpl)
<1>1. IsRoute(NewRoute) /\ NewRoute.err = FALSE
  BY DEF NewRoute, IsRoute
<1>2. IsRoute(addMatcher(NewRoute, PathMatcher(re))) /\ addMatcher(NewRoute, PathMatcher(re)).err = FALSE
  BY <1>1, RouteFields DEF addMatcher
<1> HIDE DEF re
<1>3. IsRoute(p)
  BY <1>1, <1>2, RouteFields DEF Path, addRegexpMatcher, re
<1> HIDE DEF p
<1>4. HandleFunc(tpl, handler) = IF p.err THEN p ELSE [p EXCEPT !.handler = handler]
  BY DEF HandleFunc, HandlerFunc, p
<1>5. /\ IsRoute([p EXCEPT !.handler = handler]) /\ [p EXCEPT !.handler = handler].err = p.err
      /\ [p EXCEPT !.handler = handler].handler = handler
  BY <1>3, RouteFields
<1> QED
  BY <1>3, <1>4, <1>5

LEMMA MethodsIs ==
  ASSUME NEW route, IsRoute(route), NEW methods
  PROVE  IsRoute(Methods(route, methods)) /\ Methods(route, methods).err = route.err
         /\ Methods(route, methods).handler = route.handler
BY RouteFields DEF Methods, addMatcher

\* The handlers behind a check are those that create streams.
LEMMA RoutesAre ==
  ASSUME NEW i \in DOMAIN Routes, ~Routes[i].err
  PROVE  Routes[i].handler \in {plain("health"), plain("sub"), plain("pub"),
                                auth("mkstream"), auth("put")}
<1>1. i \in 1..5
  BY DEF Routes
<1> DEFINE h == HandleFunc(<<"/", "health">>, plain("health"))
           m == HandleFunc(Streams, auth("mkstream"))
           s == HandleFunc(Keyed, plain("sub"))
           p == HandleFunc(Keyed, plain("pub"))
           t == HandleFunc(Keyed, auth("put"))
<1>2. /\ Routes[1] = h /\ Routes[2] = m /\ Routes[3] = Methods(s, {"GET"})
      /\ Routes[4] = Methods(p, {"POST"}) /\ Routes[5] = Methods(t, {"PUT"})
  BY DEF Routes
<1>3. /\ ~h.err => h.handler = plain("health")
      /\ ~m.err => m.handler = auth("mkstream")
      /\ IsRoute(s) /\ (~s.err => s.handler = plain("sub"))
      /\ IsRoute(p) /\ (~p.err => p.handler = plain("pub"))
      /\ IsRoute(t) /\ (~t.err => t.handler = auth("put"))
  BY HandleFuncIs
<1> HIDE DEF h, m, s, p, t
<1> QED
  BY <1>1, <1>2, <1>3, MethodsIs

\* Router.Match finds a route that matches, if there is one.
LEMMA MatchedIs ==
  ASSUME NEW req, Hits(req) # {}
  PROVE  \E i \in DOMAIN Routes : Matched(req) = Routes[i] /\ ~Routes[i].err
<1>1. Hits(req) \subseteq 1..5
  BY DEF Hits, Routes
<1>2. \E i \in Hits(req) : \A k \in Hits(req) : i <= k
  <2>1. \A i \in Hits(req) : i = 1 \/ i = 2 \/ i = 3 \/ i = 4 \/ i = 5
    BY <1>1
  <2> QED
    BY <2>1
<1>3. First(Hits(req)) \in Hits(req)
  BY <1>2 DEF First
<1> QED
  BY <1>3 DEF Matched, Hits, RouteMatches

\* A request that Authenticate lets in shows one of the credentials.
LEMMA AuthenticateShows ==
  ASSUME CredsOK, NEW req, IsRequest(req), Authenticate(req)
  PROVE  \E i \in DOMAIN Creds : Creds[i] = req.cred
<1>1. PICK i \in DOMAIN Creds : Creds[i][1] = req.cred[1] /\ Creds[i][2] = req.cred[2]
  BY DEF Authenticate, Passwords
<1>2. req.cred \in STRING \X STRING
  BY DEF IsRequest, Authenticate
<1>3. Creds[i] \in Seq(STRING) /\ Len(Creds[i]) = 2
  <2>1. Creds \in Seq(Seq(STRING))
    BY RouterAssumption
  <2>2. Creds[i] \in Seq(STRING)
    BY <2>1
  <2> QED
    BY <2>2 DEF CredsOK
<1>4. Creds[i] = <<Creds[i][1], Creds[i][2]>>
  BY <1>3
<1> QED
  BY <1>1, <1>2, <1>4

\* What a redirect makes of a request.
LEMMA CleanedIs ==
  ASSUME NEW req, IsRequest(req)
  PROVE  LET new == [req EXCEPT !.path = cleanPath(@)]
         IN  /\ IsRequest(new) /\ new.cred = req.cred /\ new.proto = req.proto
             /\ new.path = cleanPath(req.path)
<1>1. PICK a, b, c, d : /\ req = [method |-> a, path |-> b, proto |-> c, cred |-> d]
                        /\ d = << >> \/ d \in STRING \X STRING
                        /\ b \in Seq(Token)
  BY DEF IsRequest
<1>2. cleanPath(b) \in Seq(Token)
  BY <1>1, CleanTwice
<1>3. [req EXCEPT !.path = cleanPath(@)] = [method |-> a, path |-> cleanPath(b), proto |-> c, cred |-> d]
  BY <1>1
<1> QED
  BY <1>1, <1>2, <1>3 DEF IsRequest

LEMMA SecuredIs ==
  ASSUME NEW req, IsRequest(req)
  PROVE  LET new == [req EXCEPT !.proto = "https"]
         IN  /\ IsRequest(new) /\ new.cred = req.cred /\ new.proto = "https"
             /\ new.path = req.path
<1>1. PICK a, b, c, d : /\ req = [method |-> a, path |-> b, proto |-> c, cred |-> d]
                        /\ d = << >> \/ d \in STRING \X STRING
                        /\ b \in Seq(Token)
  BY DEF IsRequest
<1>2. [req EXCEPT !.proto = "https"] = [method |-> a, path |-> b, proto |-> "https", cred |-> d]
  BY <1>1
<1> QED
  BY <1>1, <1>2 DEF IsRequest

BuslHandler == {"health", "mkstream", "sub", "pub", "put"}

\* The answers to a request: busl's handlers, those that create streams only
\* with a credential, a refusal, or a redirect to a request of the same client.
LEMMA AnswerIs ==
  ASSUME CredsOK, NEW req, IsRequest(req)
  PROVE  /\ Answer(req).handler \in {"301", "401", "404"} \cup BuslHandler
         /\ Answer(req).handler \in {"mkstream", "put"} => Trusted(req, Answer(req))
         /\ Answer(req).handler = "301" =>
              /\ IsRequest(Answer(req).next)
              /\ Answer(req).next.cred = req.cred
<1> DEFINE Good(a) == /\ a.handler \in {"301", "401", "404"} \cup BuslHandler
                      /\ a.handler \in {"mkstream", "put"} => Trusted(req, a)
                      /\ a.handler = "301" => IsRequest(a.next) /\ a.next.cred = req.cred
<1>1. /\ Good(Redirect([req EXCEPT !.path = cleanPath(@)]))
      /\ Good(Redirect([req EXCEPT !.proto = "https"]))
  BY CleanedIs, SecuredIs DEF Redirect
<1>2. Good(Reply("401", << >>)) /\ Good(Reply("404", << >>))
  BY DEF Reply
<1>3. ASSUME Hits(req) # {}
      PROVE  Good(Handled(Matched(req), req))
  <2>1. PICK i \in DOMAIN Routes : Matched(req) = Routes[i] /\ ~Routes[i].err
    BY <1>3, MatchedIs
  <2> DEFINE h == Matched(req).handler
  <2>2. h \in {plain("health"), plain("sub"), plain("pub"), auth("mkstream"), auth("put")}
    BY <2>1, RoutesAre
  <2>3. h.fn \in BuslHandler /\ (h.fn \in {"mkstream", "put"} => h.auth = (Creds # << >>))
    BY <2>2 DEF plain, auth, BuslHandler
  <2> HIDE DEF h
  <2>4. CASE Allowed(h, req)
    <3> DEFINE a == Handled(Matched(req), req)
    <3>1. a.handler = h.fn
      BY <2>4 DEF Handled, Reply, h
    <3>2. h.fn \in {"mkstream", "put"} => Trusted(req, a)
      BY <2>3, <2>4, <3>1, AuthenticateShows DEF Allowed, Trusted
    <3> HIDE DEF a
    <3> QED
      BY <2>3, <3>1, <3>2 DEF BuslHandler, a
  <2>5. CASE ~Allowed(h, req)
    BY <1>2, <2>5 DEF Handled, h
  <2> QED
    BY <2>4, <2>5
<1> HIDE DEF Good
<1>4. Good(RouterServe(req))
  BY <1>1, <1>2, <1>3 DEF RouterServe
<1>5. Good(enforceHTTPS(req))
  BY <1>1, <1>4 DEF enforceHTTPS
<1>6. Good(Answer(req))
  BY <1>1, <1>5 DEF Answer
<1> QED
  BY <1>6 DEF Good

\* Why a request is sent elsewhere.
Clean(req) == cleanPath(req.path) = req.path

Secure(req) == EnforceHTTPS => req.proto = "https"

\* After n redirects so many of the reasons are gone.
Near(n, req) ==
  \/ n = 0
  \/ n = 1 /\ (Clean(req) \/ Secure(req))
  \/ n = 2 /\ Clean(req) /\ Secure(req)

\* A redirect removes a reason and keeps the other away.
LEMMA RedirectNears ==
  ASSUME NEW req, IsRequest(req), NEW n, Near(n, req), Answer(req).handler = "301"
  PROVE  n \in 0..1 /\ Near(n + 1, Answer(req).next)
<1> DEFINE cleaned == [req EXCEPT !.path = cleanPath(@)]
           secured == [req EXCEPT !.proto = "https"]
<1>1. /\ Clean(cleaned) /\ (Secure(req) => Secure(cleaned))
      /\ Secure(secured) /\ (Clean(req) => Clean(secured))
  <2>1. cleanPath(cleanPath(req.path)) = cleanPath(req.path)
    BY CleanTwice DEF IsRequest
  <2>2. cleaned.path = cleanPath(req.path) /\ cleaned.proto = req.proto
    BY CleanedIs
  <2>3. secured.path = req.path /\ secured.proto = "https"
    BY SecuredIs
  <2> HIDE DEF cleaned, secured
  <2> QED
    BY <2>1, <2>2, <2>3 DEF Clean, Secure
<1> HIDE DEF cleaned, secured
<1>2. \/ ~Clean(req) /\ Answer(req) = Redirect(cleaned)
      \/ ~Secure(req) /\ Answer(req) = Redirect(secured)
  <2>1. CASE RouterServe(req).handler # "301"
    BY <2>1 DEF Answer, enforceHTTPS, Clean, Secure, cleaned, secured
  <2>2. CASE RouterServe(req).handler = "301" /\ cleanPath(req.path) # req.path
    BY <2>2 DEF Answer, enforceHTTPS, RouterServe, Clean, Secure, cleaned, secured
  <2>3. CASE RouterServe(req).handler = "301" /\ cleanPath(req.path) = req.path
    <3>1. Reply("404", << >>).handler # "301"
      BY DEF Reply
    <3>2. Hits(req) # {} /\ Handled(Matched(req), req).handler = "301"
      BY <2>3, <3>1 DEF RouterServe
    <3>3. PICK i \in DOMAIN Routes : Matched(req) = Routes[i] /\ ~Routes[i].err
      BY <3>2, MatchedIs
    <3>4. Matched(req).handler.fn # "301"
      BY <3>3, RoutesAre DEF plain, auth
    <3> QED
      BY <3>2, <3>4 DEF Handled, Reply
  <2> QED
    BY <2>1, <2>2, <2>3
<1>3. Redirect(cleaned).next = cleaned /\ Redirect(secured).next = secured
  BY DEF Redirect
<1> QED
  BY <1>1, <1>2, <1>3 DEF Near

-----------------------------------------------------------------------------
(* The inductive invariant.                                                *)

\* A connection that the WaitGroup counts: accepted and not closed.
Open(k) == k.at \notin {"none", "backlog", "closed"}

Counted == {c \in Conn : Open(conn[c])}

\* The signal is handed over by a process that listens, and closes the
\* listener's flag; before that process listens there are no connections.
ShutdownInv ==
  /\ shutdown = "handed" => ~listener.open
  /\ main = "config" => /\ shutdown \notin {"disabled", "handed"}
                        /\ ~listener.locked /\ ~listener.socket
                        /\ \A c \in Conn : conn[c].at = "none"
  /\ main = "fatal" => shutdown # "handed"
  /\ main \in {"accept", "drain"} => CredsOK

CountInv ==
  /\ IsFiniteSet(Counted)
  /\ wg = Cardinality(Counted)
  /\ main = "exited" => Counted = {}

\* A connection's record; a redirect is to a request, and a handler that is to
\* create a stream has been shown a credential.
ConnOK(k) ==
  /\ k = [at |-> k.at, answer |-> k.answer, trusted |-> k.trusted, hops |-> k.hops]
  /\ k.answer.handler = "301" =>
       /\ IsRequest(k.answer.next)
       /\ k.hops \in 0..1 /\ Near(k.hops + 1, k.answer.next)
  /\ k.at \in {"mkstream", "put"} => k.trusted = TRUE

IsCreated(streams, k) == \E e \in streams : e.key = k

ConnInv ==
  /\ conn = [c \in Conn |-> conn[c]]
  /\ \A c \in Conn : ConnOK(conn[c])
  /\ \A c \in Conn : conn[c].at = "publishing" => IsCreated(created, conn[c].answer.key)

HistoryInv ==
  /\ \A e \in created : e.trusted = TRUE
  /\ \A k \in published : IsCreated(created, k)

ServerInv == ServerTypeOK /\ ShutdownInv /\ CountInv /\ ConnInv /\ HistoryInv

-----------------------------------------------------------------------------
(* Steps.                                                                  *)

LEMMA CountStep ==
  ASSUME CountInv, ConnInv, NEW c \in Conn, NEW k,
         conn' = [conn EXCEPT ![c] = k], main' # "exited",
         \/ (Open(conn[c]) <=> Open(k)) /\ wg' = wg
         \/ ~Open(conn[c]) /\ Open(k) /\ wg' = wg + 1
         \/ Open(conn[c]) /\ ~Open(k) /\ wg' = wg - 1
  PROVE  CountInv' /\ wg' \in Nat
<1>1. conn'[c] = k /\ \A d \in Conn : d # c => conn'[d] = conn[d]
  BY DEF ConnInv
<1>2. IsFiniteSet(Counted) /\ wg = Cardinality(Counted) /\ wg \in Nat
  BY FS_CardinalityType DEF CountInv
<1>3. CASE (Open(conn[c]) <=> Open(k)) /\ wg' = wg
  <2>1. Counted' = Counted
    BY <1>1, <1>3 DEF Counted, Open
  <2> QED
    BY <1>2, <1>3, <2>1 DEF CountInv
<1>4. CASE ~Open(conn[c]) /\ Open(k) /\ wg' = wg + 1
  <2>1. Counted' = Counted \cup {c} /\ c \notin Counted
    BY <1>1, <1>4 DEF Counted, Open
  <2>2. IsFiniteSet(Counted') /\ Cardinality(Counted') = Cardinality(Counted) + 1
    BY <1>2, <2>1, FS_AddElement
  <2> QED
    BY <1>2, <1>4, <2>2 DEF CountInv
<1>5. CASE Open(conn[c]) /\ ~Open(k) /\ wg' = wg - 1
  <2>1. Counted' = Counted \ {c} /\ c \in Counted
    BY <1>1, <1>5 DEF Counted, Open
  <2>2. IsFiniteSet(Counted') /\ Cardinality(Counted') = Cardinality(Counted) - 1
    BY <1>2, <2>1, FS_RemoveElement
  <2>3. Cardinality(Counted') \in Nat
    BY <2>2, FS_CardinalityType
  <2> QED
    BY <1>2, <1>5, <2>2, <2>3 DEF CountInv
<1> QED
  BY <1>3, <1>4, <1>5

\* A step of connection c once the server runs.
LEMMA ConnStep ==
  ASSUME ServerInv, NEW c \in Conn, NEW k, ConnOK(k),
         conn' = [conn EXCEPT ![c] = k], Running, main # "config",
         UNCHANGED <<main, shutdown, listener, keepalive>>,
         \/ (Open(conn[c]) <=> Open(k)) /\ wg' = wg
         \/ ~Open(conn[c]) /\ Open(k) /\ wg' = wg + 1
         \/ Open(conn[c]) /\ ~Open(k) /\ wg' = wg - 1,
         k.at = "publishing" => IsCreated(created, k.answer.key),
         queue' \in 0..Buffer, posting' \in BOOLEAN,
         created \subseteq created', HistoryInv'
  PROVE  ServerInv'
<1>1. CountInv' /\ wg' \in Nat
  BY CountStep DEF ServerInv, Running
<1>2. ServerTypeOK'
  BY <1>1 DEF ServerInv, ServerTypeOK
<1>3. ShutdownInv'
  BY DEF ServerInv, ShutdownInv
<1>4. ConnInv'
  <2>1. conn' = [d \in Conn |-> conn'[d]]
    BY DEF ServerInv, ConnInv
  <2>2. conn'[c] = k /\ \A d \in Conn : d # c => conn'[d] = conn[d]
    BY DEF ServerInv, ConnInv
  <2>3. \A d \in Conn : ConnOK(conn'[d])
    BY <2>2 DEF ServerInv, ConnInv
  <2>4. ASSUME NEW d \in Conn, conn'[d].at = "publishing"
        PROVE  IsCreated(created', conn'[d].answer.key)
    <3>1. IsCreated(created, conn'[d].answer.key)
      BY <2>2, <2>4 DEF ServerInv, ConnInv
    <3> QED
      BY <3>1 DEF IsCreated
  <2> QED
    BY <2>1, <2>3, <2>4 DEF ConnInv
<1> QED
  BY <1>1, <1>2, <1>3, <1>4 DEF ServerInv

\* A step that leaves the connections alone.
LEMMA QuietStep ==
  ASSUME ServerInv, ServerTypeOK', ShutdownInv', UNCHANGED <<wg, conn, history>>,
         main' = "exited" => main = "exited" \/ wg = 0
  PROVE  ServerInv'
<1>1. CountInv'
  <2>1. Counted' = Counted
    BY DEF Counted, Open
  <2>2. wg = 0 => Counted = {}
    BY FS_EmptySet DEF ServerInv, CountInv
  <2> QED
    BY <2>1, <2>2 DEF ServerInv, CountInv
<1>2. ConnInv' /\ HistoryInv'
  BY DEF ServerInv, ConnInv, HistoryInv, history
<1> QED
  BY <1>1, <1>2 DEF ServerInv
-----------------------------------------------------------------------------
(* main and the signal.                                                    *)

LEMMA MainInv ==
  ASSUME ServerInv,
         MainStep \/ AcceptFails(TRUE) \/ Signal \/ ShutdownStep
  PROVE  ServerInv'
<1> USE DEF ServerTypeOK, ShutdownInv, reports, history
<1>1. wg \in Nat /\ listener \in [open : BOOLEAN, locked : BOOLEAN, socket : BOOLEAN]
  BY DEF ServerInv
<1>2. ASSUME NEW free \in BOOLEAN, Start(free)
      PROVE  ServerInv'
  <2>1. ServerTypeOK'
    <3> DEFINE up == [open |-> TRUE, locked |-> FALSE, socket |-> TRUE]
    <3>1. listener' = up \/ listener' = listener
      BY <1>2, Zenon DEF Start
    <3>2. up \in [open : BOOLEAN, locked : BOOLEAN, socket : BOOLEAN]
      OBVIOUS
    <3> HIDE DEF up
    <3>3. listener' \in [open : BOOLEAN, locked : BOOLEAN, socket : BOOLEAN]
      BY <1>1, <3>1, <3>2
    <3> QED
      BY <1>2, <3>3 DEF Start, ServerInv
  <2>2. ShutdownInv' /\ UNCHANGED <<wg, conn, history>> /\ main' # "exited"
    BY <1>2 DEF Start, ServerInv
  <2> QED
    BY <2>1, <2>2, QuietStep
<1>3. ASSUME NEW broken \in BOOLEAN, AcceptFails(broken)
      PROVE  ServerInv'
  <2>1. ServerTypeOK'
    BY <1>3 DEF AcceptFails, AcceptError, ServerInv
  <2>2. ShutdownInv' /\ UNCHANGED <<wg, conn, history>> /\ main' # "exited"
    BY <1>3 DEF AcceptFails, AcceptError, ServerInv
  <2> QED
    BY <2>1, <2>2, QuietStep
<1>4. CASE Exit
  <2>1. ServerTypeOK' /\ ShutdownInv' /\ UNCHANGED <<wg, conn, history>> /\ wg = 0
    BY <1>4 DEF Exit, AllFinished, ServerInv
  <2> QED
    BY <2>1, QuietStep
<1>5. CASE Signal \/ Received \/ DisableKeepAlives
  <2>1. ServerTypeOK' /\ UNCHANGED <<main, wg, conn, history>>
    BY <1>5 DEF Signal, Received, DisableKeepAlives, ServerInv
  <2>2. ShutdownInv'
    BY <1>5 DEF Signal, Received, DisableKeepAlives, ServerInv
  <2> QED
    BY <2>1, <2>2, QuietStep
<1>6. CASE CloseFlag \/ CloseSocket
  <2>1. /\ listener' \in [open : BOOLEAN, locked : BOOLEAN, socket : BOOLEAN]
        /\ listener'.open = FALSE
    <3>1. PICK a, b, c \in BOOLEAN : listener = [open |-> a, locked |-> b, socket |-> c]
      BY <1>1
    <3>2. \/ listener' = [open |-> FALSE, locked |-> TRUE, socket |-> c]
          \/ listener' = [open |-> FALSE, locked |-> FALSE, socket |-> FALSE]
      BY <1>6, <3>1 DEF CloseFlag, CloseSocket
    <3>3. CASE listener' = [open |-> FALSE, locked |-> TRUE, socket |-> c]
      BY <3>3
    <3>4. CASE listener' = [open |-> FALSE, locked |-> FALSE, socket |-> FALSE]
      BY <3>4
    <3> QED
      BY <3>2, <3>3, <3>4
  <2>2. /\ UNCHANGED <<main, wg, conn, history, keepalive, queue, posting>>
        /\ shutdown' = "handed" \/ UNCHANGED shutdown
        /\ main # "config"
        /\ shutdown' = "handed" => main # "fatal"
    BY <1>6 DEF CloseFlag, CloseSocket, ServerInv, Running
  <2>3. ServerTypeOK' /\ ShutdownInv'
    BY <2>1, <2>2 DEF ServerInv
  <2> QED
    BY <2>2, <2>3, QuietStep
<1> QED
  BY <1>2, <1>3, <1>4, <1>5, <1>6 DEF MainStep, ShutdownStep

-----------------------------------------------------------------------------
(* Connections.                                                            *)

\* A connection whose record is replaced by one that differs in at.
LEMMA AtIs ==
  ASSUME NEW k, ConnOK(k), NEW where
  PROVE  LET new == [k EXCEPT !.at = where]
         IN  /\ where \notin {"mkstream", "put"} => ConnOK(new)
             /\ new.at = where /\ new.answer = k.answer
<1>1. PICK a, b, c, d : k = [at |-> a, answer |-> b, trusted |-> c, hops |-> d]
  BY DEF ConnOK
<1>2. [k EXCEPT !.at = where] = [at |-> where, answer |-> b, trusted |-> c, hops |-> d]
  BY <1>1
<1> QED
  BY <1>1, <1>2 DEF ConnOK

LEMMA NewConnIs ==
  ASSUME NEW where
  PROVE  LET new == [NewConn EXCEPT !.at = where]
         IN  /\ where \notin {"mkstream", "put"} => ConnOK(new)
             /\ new.at = where
<1>1. ConnOK(NewConn)
  BY DEF NewConn, ConnOK, Reply
<1> QED
  BY <1>1, AtIs

LEMMA LeavesIs ==
  ASSUME ServerInv, NEW c \in Conn, NEW where, where \notin {"mkstream", "put"}, Leaves(c, where)
  PROVE  \E k : ConnOK(k) /\ k.at = where /\ conn' = [conn EXCEPT ![c] = k]
<1>1. ConnOK(conn[c])
  BY DEF ServerInv, ConnInv
<1>2. conn' = [conn EXCEPT ![c] = IF conn[c].answer.handler = "301"
                                    THEN [conn[c] EXCEPT !.at = where]
                                    ELSE [NewConn EXCEPT !.at = where]]
  BY DEF Leaves, ServerInv, ConnInv
<1>3. CASE conn[c].answer.handler = "301"
  BY <1>1, <1>2, <1>3, AtIs
<1>4. CASE conn[c].answer.handler # "301"
  <2>1. ConnOK([NewConn EXCEPT !.at = where]) /\ [NewConn EXCEPT !.at = where].at = where
    BY NewConnIs
  <2> QED
    BY <1>2, <1>4, <2>1
<1> QED
  BY <1>3, <1>4

\* A handler step that neither opens nor closes the connection.
LEMMA LeavingStep ==
  ASSUME ServerInv, NEW c \in Conn, NEW where, Leaves(c, where), Running,
         where \in {"answered", "push", "sending", "idle"}, Open(conn[c]),
         UNCHANGED <<main, shutdown, listener, keepalive, wg>>,
         queue' \in 0..Buffer, posting' \in BOOLEAN,
         created \subseteq created', HistoryInv'
  PROVE  ServerInv'
<1>1. PICK k : ConnOK(k) /\ k.at = where /\ conn' = [conn EXCEPT ![c] = k]
  BY LeavesIs
<1>2. main # "config"
  BY DEF ServerInv, ShutdownInv, Open
<1>3. Open(k) /\ k.at # "publishing"
  BY <1>1 DEF Open
<1> QED
  BY <1>1, <1>2, <1>3, ConnStep
\* Asked: the router's answer is taken by its handler, or given at once.
LEMMA AskedInv ==
  ASSUME ServerInv, NEW c \in Conn, NEW req, IsRequest(req), NEW n, Near(n, req),
         Running, conn[c].at = "idle", Asked(c, req, Answer(req), n)
  PROVE  ServerInv'
<1> DEFINE answer == Answer(req)
           full == [at |-> Served(answer), answer |-> answer,
                    trusted |-> Trusted(req, answer), hops |-> n]
           k == IF answer.handler \in {"pub", "put", "mkstream", "301"} THEN full
                ELSE [NewConn EXCEPT !.at = Served(answer)]
<1>1. main # "config" /\ main # "fatal" /\ main # "exited" /\ CredsOK
  BY DEF Running, ServerInv, ShutdownInv, ServerTypeOK
<1>2. /\ answer.handler \in {"301", "401", "404"} \cup BuslHandler
      /\ answer.handler \in {"mkstream", "put"} => Trusted(req, answer)
      /\ answer.handler = "301" => IsRequest(answer.next) /\ n \in 0..1 /\ Near(n + 1, answer.next)
  BY <1>1, AnswerIs, RedirectNears
<1> HIDE DEF answer
<1>3. /\ Served(answer) \in {"answered"} \cup BuslHandler
      /\ Served(answer) \in {"mkstream", "put"} => Served(answer) = answer.handler
  BY <1>2 DEF Served, BuslHandler
<1>4. ConnOK(full) /\ full.at = Served(answer)
  <2>1. Trusted(req, answer) => full.trusted = TRUE
    BY DEF Trusted
  <2> QED
    BY <1>2, <1>3, <2>1 DEF ConnOK
<1>5. ConnOK(k) /\ k.at = Served(answer)
  <2>1. CASE answer.handler \in {"pub", "put", "mkstream", "301"}
    BY <1>4, <2>1
  <2>2. CASE answer.handler \notin {"pub", "put", "mkstream", "301"}
    <3>1. Served(answer) \notin {"mkstream", "put"}
      BY <1>3, <2>2
    <3>2. /\ ConnOK([NewConn EXCEPT !.at = Served(answer)])
          /\ [NewConn EXCEPT !.at = Served(answer)].at = Served(answer)
      BY <3>1, NewConnIs
    <3> QED
      BY <2>2, <3>2
  <2> QED
    BY <2>1, <2>2
<1>6. /\ conn' = [conn EXCEPT ![c] = k]
      /\ UNCHANGED <<main, shutdown, listener, wg, keepalive, reports, history>>
  BY DEF Asked, answer
<1> HIDE DEF k, full
<1>7. Open(conn[c]) /\ Open(k) /\ k.at # "publishing"
  BY <1>3, <1>5 DEF Open, BuslHandler
<1>8. queue' \in 0..Buffer /\ posting' \in BOOLEAN /\ HistoryInv' /\ created \subseteq created'
  BY <1>6 DEF ServerInv, ServerTypeOK, HistoryInv, reports, history
<1> QED
  BY <1>1, <1>5, <1>6, <1>7, <1>8, ConnStep

LEMMA AskInv ==
  ASSUME ServerInv, NEW c \in Conn,
         Follow(c) \/ \E req \in Request : Ask(c, req)
  PROVE  ServerInv'
<1>1. ASSUME NEW req \in Request, Ask(c, req)
      PROVE  ServerInv'
  <2>1. req \in HttpRequest
    BY ServerAssumption
  <2>2. IsRequest(req) /\ Near(0, req)
    BY <2>1 DEF HttpRequest, IsRequest, Token, Near
  <2>3. Answers[req] = Answer(req)
    BY DEF Answers
  <2> QED
    BY <1>1, <2>2, <2>3, AskedInv DEF Ask
<1>2. ASSUME Follow(c)
      PROVE  ServerInv'
  <2>1. PICK method : LET req == [conn[c].answer.next EXCEPT !.method = method]
                      IN  Asked(c, req, Answer(req), conn[c].hops + 1)
    BY <1>2 DEF Follow
  <2> DEFINE req == [conn[c].answer.next EXCEPT !.method = method]
  <2>2. IsRequest(req) /\ Near(conn[c].hops + 1, req)
    <3>1. IsRequest(conn[c].answer.next) /\ Near(conn[c].hops + 1, conn[c].answer.next)
      BY <1>2 DEF Follow, ServerInv, ConnInv, ConnOK
    <3>2. PICK p, q, r, s : /\ conn[c].answer.next = [method |-> p, path |-> q, proto |-> r, cred |-> s]
                            /\ s = << >> \/ s \in STRING \X STRING
                            /\ q \in Seq(Token)
      BY <3>1 DEF IsRequest
    <3>3. req = [method |-> method, path |-> q, proto |-> r, cred |-> s]
      BY <3>2
    <3>4. req.path = conn[c].answer.next.path /\ req.proto = conn[c].answer.next.proto
      BY <3>2, <3>3
    <3> HIDE DEF req
    <3>5. Near(conn[c].hops + 1, req)
      BY <3>1, <3>4 DEF Near, Clean, Secure
    <3> QED
      BY <3>2, <3>3, <3>5 DEF IsRequest
  <2>3. Asked(c, req, Answer(req), conn[c].hops + 1)
    BY <2>1
  <2> HIDE DEF req
  <2> QED
    BY <1>2, <2>2, <2>3, AskedInv DEF Follow
<1> QED
  BY <1>1, <1>2
\* A step of a connection that is up changes no history: what it says.
LEMMA SameHistory ==
  ASSUME ServerInv, UNCHANGED history
  PROVE  created \subseteq created' /\ HistoryInv'
BY DEF ServerInv, HistoryInv, history

LEMMA ConnectInv ==
  ASSUME ServerInv, NEW c \in Conn, Connect(c) \/ Accept(c)
  PROVE  ServerInv'
<1>1. PICK where \in {"backlog", "idle"} :
        /\ At(c, where) /\ Running /\ main # "config"
        /\ UNCHANGED <<main, shutdown, listener, keepalive, reports, history>>
        /\ \/ where = "backlog" /\ conn[c].at = "none" /\ wg' = wg
           \/ where = "idle" /\ conn[c].at = "backlog" /\ wg' = wg + 1
  BY DEF Connect, Accept, StartRoutine, Running, ServerInv, ShutdownInv
<1> DEFINE k == [conn[c] EXCEPT !.at = where]
<1>2. ConnOK(k) /\ k.at = where
  BY AtIs DEF ServerInv, ConnInv
<1>3. conn' = [conn EXCEPT ![c] = k]
  BY <1>1 DEF At
<1> HIDE DEF k
<1>4. \/ ~Open(conn[c]) /\ ~Open(k) /\ wg' = wg
      \/ ~Open(conn[c]) /\ Open(k) /\ wg' = wg + 1
  BY <1>1, <1>2 DEF Open
<1>5. queue' \in 0..Buffer /\ posting' \in BOOLEAN
  BY <1>1 DEF ServerInv, ServerTypeOK, reports
<1> QED
  BY <1>1, <1>2, <1>3, <1>4, <1>5, SameHistory, ConnStep

LEMMA CreateInv ==
  ASSUME ServerInv, NEW c \in Conn, NEW yes \in BOOLEAN, Create(c, yes)
  PROVE  ServerInv'
<1>1. /\ Running /\ Open(conn[c]) /\ conn[c].trusted = TRUE
      /\ UNCHANGED <<main, shutdown, listener, keepalive, wg, reports, published>>
      /\ Leaves(c, Reporting(~yes)) /\ Reporting(~yes) \in {"push", "answered"}
  BY DEF Create, Open, Reporting, ServerInv, ConnInv, ConnOK
<1>2. created' = created \/ created' = created \cup {[key |-> KeyOf(c), trusted |-> conn[c].trusted]}
  BY DEF Create
<1>3. created \subseteq created' /\ HistoryInv'
  BY <1>1, <1>2 DEF HistoryInv, IsCreated, ServerInv
<1>4. queue' \in 0..Buffer /\ posting' \in BOOLEAN
  BY <1>1 DEF ServerInv, ServerTypeOK, reports
<1> QED
  BY <1>1, <1>3, <1>4, LeavingStep

LEMMA PublishInv ==
  ASSUME ServerInv, NEW c \in Conn, NEW yes \in BOOLEAN, Publish(c, yes)
  PROVE  ServerInv'
<1>1. /\ Running /\ Open(conn[c]) /\ main # "config"
      /\ UNCHANGED <<main, shutdown, listener, keepalive, wg, reports, history>>
  BY DEF Publish, Open, ServerInv, ShutdownInv
<1>2. queue' \in 0..Buffer /\ posting' \in BOOLEAN
  BY <1>1 DEF ServerInv, ServerTypeOK, reports
<1>3. CASE yes
  <2> DEFINE k == [conn[c] EXCEPT !.at = "publishing"]
  <2>1. ConnOK(k) /\ k.at = "publishing" /\ k.answer = conn[c].answer
    BY AtIs DEF ServerInv, ConnInv
  <2>2. conn' = [conn EXCEPT ![c] = k]
    BY <1>3 DEF Publish, At
  <2> HIDE DEF k
  <2>3. Open(k) /\ IsCreated(created, k.answer.key)
    BY <1>3, <2>1 DEF Open, Publish, IsCreated
  <2> QED
    BY <1>1, <1>2, <2>1, <2>2, <2>3, SameHistory, ConnStep
<1>4. CASE ~yes
  BY <1>1, <1>2, <1>4, SameHistory, LeavingStep DEF Publish
<1> QED
  BY <1>3, <1>4

LEMMA PublishWritesInv ==
  ASSUME ServerInv, NEW c \in Conn, PublishWrites(c)
  PROVE  ServerInv'
<1>1. /\ published' = published \cup {conn[c].answer.key}
      /\ IsCreated(created, conn[c].answer.key)
      /\ UNCHANGED <<main, shutdown, listener, wg, keepalive, conn, reports, created>>
  BY DEF PublishWrites, ServerInv, ConnInv
<1>2. HistoryInv'
  BY <1>1 DEF ServerInv, HistoryInv
<1>3. ServerTypeOK' /\ ShutdownInv'
  BY <1>1 DEF ServerInv, ServerTypeOK, ShutdownInv, reports
<1>4. CountInv'
  BY <1>1 DEF ServerInv, CountInv, Counted, Open
<1>5. ConnInv'
  BY <1>1 DEF ServerInv, ConnInv
<1> QED
  BY <1>2, <1>3, <1>4, <1>5 DEF ServerInv

\* Handlers that return, and reports that are queued.
LEMMA LeaveInv ==
  ASSUME ServerInv, NEW c \in Conn, NEW yes \in BOOLEAN,
         PublishEnds(c, yes) \/ SubEnds(c) \/ PushLooks(c) \/ PushSends(c)
  PROVE  ServerInv'
<1>1. /\ Running /\ Open(conn[c])
      /\ UNCHANGED <<main, shutdown, listener, keepalive, wg, posting, history>>
      /\ \E where \in {"answered", "push", "sending"} : Leaves(c, where)
  BY DEF PublishEnds, SubEnds, PushLooks, PushSends, Reporting, Open, reports
<1>2. queue' \in 0..Buffer /\ posting' \in BOOLEAN
  BY ServerAssumption
     DEF PublishEnds, SubEnds, PushLooks, PushSends, Place, ServerInv, ServerTypeOK, reports
<1> QED
  BY <1>1, <1>2, SameHistory, LeavingStep

LEMMA HangupInv ==
  ASSUME ServerInv, NEW c \in Conn, Hangup(c), Running, Open(conn[c]),
         UNCHANGED <<main, shutdown, listener, keepalive, reports, history>>
  PROVE  ServerInv'
<1> DEFINE k == [NewConn EXCEPT !.at = "closed"]
<1>1. ConnOK(k) /\ k.at = "closed"
  BY NewConnIs
<1>2. conn' = [conn EXCEPT ![c] = k] /\ wg' = wg - 1
  BY DEF Hangup, FinishRoutine
<1> HIDE DEF k
<1>3. ~Open(k) /\ main # "config"
  BY <1>1 DEF Open, ServerInv, ShutdownInv
<1>4. queue' \in 0..Buffer /\ posting' \in BOOLEAN
  BY DEF ServerInv, ServerTypeOK, reports
<1> QED
  BY <1>1, <1>2, <1>3, <1>4, SameHistory, ConnStep

LEMMA FinishInv ==
  ASSUME ServerInv, NEW c \in Conn, NEW yes \in BOOLEAN, Finish(c, yes) \/ IdleEnds(c)
  PROVE  ServerInv'
<1>1. /\ Running
      /\ UNCHANGED <<main, shutdown, listener, keepalive, reports, history>>
      /\ Hangup(c) \/ (Leaves(c, "idle") /\ UNCHANGED wg)
  <2>1. CASE Finish(c, yes)
    <3>1. Running
      BY <2>1 DEF Finish
    <3>2. UNCHANGED <<main, shutdown, listener, keepalive, reports, history>>
      BY <2>1 DEF Finish
    <3>3. Hangup(c) \/ (Leaves(c, "idle") /\ UNCHANGED wg)
      BY <2>1 DEF Finish
    <3> QED
      BY <3>1, <3>2, <3>3
  <2>2. CASE IdleEnds(c)
    BY <2>2, Zenon DEF IdleEnds
  <2> QED
    BY <2>1, <2>2
<1>4. Open(conn[c])
  <2>1. conn[c].at = "answered" \/ conn[c].at = "idle"
    BY Zenon DEF Finish, IdleEnds
  <2> QED
    BY <2>1 DEF Open
<1>2. CASE Hangup(c)
  BY <1>1, <1>2, <1>4, HangupInv
<1>3. CASE Leaves(c, "idle") /\ UNCHANGED wg
  <2>1. queue' \in 0..Buffer /\ posting' \in BOOLEAN
    BY <1>1 DEF ServerInv, ServerTypeOK, reports
  <2> QED
    BY <1>1, <1>3, <1>4, <2>1, SameHistory, LeavingStep
<1> QED
  BY <1>1, <1>2, <1>3

LEMMA ReporterInv ==
  ASSUME ServerInv, Reporter
  PROVE  ServerInv'
<1>1. /\ Running
      /\ UNCHANGED <<main, shutdown, listener, wg, keepalive, history>>
      /\ posting' \in BOOLEAN
      /\ \/ UNCHANGED conn
         \/ \E c \in Waiting : Leaves(c, "answered")
  BY DEF Reporter, PostBegins, PostEnds
<1>2. queue' \in 0..Buffer
  BY ServerAssumption DEF Reporter, PostBegins, PostEnds, ServerInv, ServerTypeOK
<1>3. CASE UNCHANGED conn
  <2>1. ServerTypeOK' /\ ShutdownInv'
    BY <1>1, <1>2, <1>3 DEF ServerInv, ServerTypeOK, ShutdownInv
  <2> QED
    BY <1>1, <1>3, <2>1, QuietStep
<1>4. ASSUME NEW c \in Waiting, Leaves(c, "answered")
      PROVE  ServerInv'
  <2>1. c \in Conn /\ Open(conn[c])
    BY DEF Waiting, Open
  <2> QED
    BY <1>1, <1>2, <1>4, <2>1, SameHistory, LeavingStep
<1> QED
  BY <1>1, <1>3, <1>4

-----------------------------------------------------------------------------
(* Theorems.                                                               *)

LEMMA ServerInvInit ==
  ASSUME ServerInit
  PROVE  ServerInv
<1>1. ServerTypeOK
  <2> DEFINE down == [open |-> FALSE, locked |-> FALSE, socket |-> FALSE]
  <2>1. down \in [open : BOOLEAN, locked : BOOLEAN, socket : BOOLEAN]
    OBVIOUS
  <2>2. listener = down
    BY DEF ServerInit
  <2> HIDE DEF down
  <2>3. listener \in [open : BOOLEAN, locked : BOOLEAN, socket : BOOLEAN]
    BY <2>1, <2>2
  <2>4. keepalive \in BOOLEAN /\ posting \in BOOLEAN
    BY DEF ServerInit
  <2>5. main = "config" /\ shutdown = "no" /\ wg \in Nat /\ queue \in 0..Buffer
    BY ServerAssumption DEF ServerInit
  <2> QED
    BY <2>3, <2>4, <2>5 DEF ServerTypeOK
<1>2. NewConn.at = "none" /\ ConnOK(NewConn)
  BY DEF NewConn, ConnOK, Reply
<1>3. Counted = {} /\ ConnInv /\ ShutdownInv
  BY <1>2 DEF Counted, Open, ConnInv, ShutdownInv, ServerInit
<1>4. CountInv
  BY <1>3, FS_EmptySet DEF CountInv, ServerInit
<1> QED
  BY <1>1, <1>3, <1>4 DEF ServerInv, HistoryInv, ServerInit

LEMMA ServerInvNext ==
  ASSUME ServerInv, [ServerNext]_serverVars
  PROVE  ServerInv'
<1>1. CASE MainStep \/ AcceptFails(TRUE) \/ Signal \/ ShutdownStep
  BY <1>1, MainInv
<1>2. CASE Reporter
  BY <1>2, ReporterInv
<1>3. ASSUME NEW c \in Conn,
             \/ Connect(c) \/ Accept(c)
             \/ \E req \in Request : Ask(c, req)
             \/ Follow(c) \/ PublishWrites(c) \/ IdleEnds(c)
      PROVE  ServerInv'
  BY <1>3, ConnectInv, AskInv, PublishWritesInv, FinishInv
<1>4. ASSUME NEW c \in Conn, HandlerStep(c)
      PROVE  ServerInv'
  BY <1>4, CreateInv, PublishInv, LeaveInv, FinishInv DEF HandlerStep
<1>5. CASE UNCHANGED serverVars
  <2>1. ServerTypeOK' /\ ShutdownInv' /\ UNCHANGED <<main, wg, conn, history>>
    BY <1>5 DEF ServerInv, ServerTypeOK, ShutdownInv, serverVars, reports, history
  <2> QED
    BY <2>1, QuietStep
<1> QED
  BY <1>1, <1>2, <1>3, <1>4, <1>5 DEF ServerNext

LEMMA ServerInvCorrect == ServerSpec => []ServerInv
BY ServerInvInit, ServerInvNext, PTL DEF ServerSpec

\* The states of the process have their types; in particular the WaitGroup
\* never goes below zero, which would be a panic, and the reports fit their
\* queue.
THEOREM ServerTypeCorrect == ServerSpec => []ServerTypeOK
<1>1. ServerInv => ServerTypeOK
  BY DEF ServerInv
<1> QED
  BY <1>1, ServerInvCorrect, PTL

\* When main returns no accepted connection is open, and a socket closed by
\* the signal is not taken for a failure: the WaitGroup is the number of open
\* connections.
THEOREM GracefulExitCorrect == ServerSpec => []GracefulExit
<1>1. ServerInv => GracefulExit
  BY DEF ServerInv, ShutdownInv, CountInv, Counted, Open, GracefulExit
<1> QED
  BY <1>1, ServerInvCorrect, PTL

\* Streams are created by who knows a credential, and written only when
\* created, for any requests, credentials and connections.
THEOREM OnlyTrustedCorrect == ServerSpec => []OnlyTrustedCreate
<1>1. ServerInv => OnlyTrustedCreate
  BY DEF ServerInv, HistoryInv, IsCreated, OnlyTrustedCreate
<1> QED
  BY <1>1, ServerInvCorrect, PTL

\* Whoever of the three redirects first, and whatever the client makes of its
\* method: a request is sent on to https and to the clean path at most once each.
THEOREM RedirectsSettleCorrect == ServerSpec => []RedirectsSettle
<1>1. ServerInv => RedirectsSettle
  BY DEF ServerInv, ConnInv, ConnOK, RedirectsSettle
<1> QED
  BY <1>1, ServerInvCorrect, PTL
=============================================================================
