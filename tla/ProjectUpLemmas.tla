--------------------------- MODULE ProjectUpLemmas ---------------------------
(***************************************************************************)
(* What the operators behind `zerobased up' compute, whatever they are     *)
(* given: the order in which routes are rendered and tried, the nearest    *)
(* zerobased.yaml, and the services and files that come along.  Each       *)
(* argument rests on finite sets having a least element, in some order.    *)
(***************************************************************************)
EXTENDS ProjectUp, SequenceTheorems, FiniteSetTheorems, TLAPS

-----------------------------------------------------------------------------
(* Finite strict orders, as sets of pairs.                                 *)

Orders(R, S) ==
    /\ \A x \in S : <<x, x>> \notin R
    /\ \A x, y, z \in S : <<x, y>> \in R /\ <<y, z>> \in R => <<x, z>> \in R
    /\ \A x, y \in S : x = y \/ <<x, y>> \in R \/ <<y, x>> \in R

Below(R, S, x) == {y \in S : <<y, x>> \in R}

\* Counting those before an element numbers the elements from 1 on, without a
\* gap and in their order.
LEMMA RanksAreDense ==
  ASSUME NEW S, NEW R, IsFiniteSet(S), Orders(R, S)
  PROVE  /\ Cardinality(S) \in Nat
         /\ \A x \in S : Cardinality(Below(R, S, x)) + 1 \in 1..Cardinality(S)
         /\ \A x, y \in S :
                <<x, y>> \in R => Cardinality(Below(R, S, x)) < Cardinality(Below(R, S, y))
         /\ \A n \in 1..Cardinality(S) :
                \E x \in S : Cardinality(Below(R, S, x)) + 1 = n
  <1> DEFINE N == Cardinality(S)
             rank == [x \in S |-> Cardinality(Below(R, S, x)) + 1]
  <1>1. N \in Nat
    BY FS_CardinalityType
  <1>2. \A x \in S : /\ IsFiniteSet(Below(R, S, x))
                     /\ Cardinality(Below(R, S, x)) \in Nat
                     /\ Cardinality(Below(R, S, x)) < N
    <2> SUFFICES ASSUME NEW x \in S
                 PROVE  /\ IsFiniteSet(Below(R, S, x))
                        /\ Cardinality(Below(R, S, x)) \in Nat
                        /\ Cardinality(Below(R, S, x)) < N
      OBVIOUS
    <2>1. Below(R, S, x) \in SUBSET S /\ x \notin Below(R, S, x)
      BY DEF Below, Orders
    <2>2. /\ IsFiniteSet(Below(R, S, x))
          /\ Cardinality(Below(R, S, x)) <= N
          /\ N = Cardinality(Below(R, S, x)) => S = Below(R, S, x)
      BY <2>1, FS_Subset
    <2>3. Cardinality(Below(R, S, x)) \in Nat
      BY <2>2, FS_CardinalityType
    <2>4. Cardinality(Below(R, S, x)) # N
      BY <2>1, <2>2
    <2> QED BY <1>1, <2>2, <2>3, <2>4
  <1>3. ASSUME NEW x \in S, NEW y \in S, <<x, y>> \in R
        PROVE  Cardinality(Below(R, S, x)) < Cardinality(Below(R, S, y))
    <2>1. Below(R, S, x) \in SUBSET Below(R, S, y)
      BY <1>3 DEF Below, Orders
    <2>2. x \in Below(R, S, y) /\ x \notin Below(R, S, x)
      BY <1>3 DEF Below, Orders
    <2>3. /\ Cardinality(Below(R, S, x)) <= Cardinality(Below(R, S, y))
          /\ Cardinality(Below(R, S, y)) = Cardinality(Below(R, S, x))
                 => Below(R, S, y) = Below(R, S, x)
      BY <1>2, <2>1, FS_Subset
    <2> QED BY <1>2, <2>2, <2>3
  <1>4. rank \in [S -> 1..N]
    BY <1>1, <1>2
  <1>5. rank \in Injection(S, 1..N)
    <2>1. ASSUME NEW x \in S, NEW y \in S, x # y
          PROVE  rank[x] # rank[y]
      <3>1. \/ Cardinality(Below(R, S, x)) < Cardinality(Below(R, S, y))
            \/ Cardinality(Below(R, S, y)) < Cardinality(Below(R, S, x))
        BY <1>3, <2>1 DEF Orders
      <3> QED BY <1>2, <3>1
    <2> QED BY <1>4, <2>1 DEF Injection, IsInjective
  <1>6. IsFiniteSet(1..N) /\ Cardinality(1..N) = N
    BY <1>1, FS_Interval
  <1> HIDE DEF rank
  <1>7. rank \in Surjection(S, 1..N)
    BY <1>5, <1>6, FS_Injection
  <1>8. \A n \in 1..N : \E x \in S : rank[x] = n
    BY <1>7 DEF Surjection
  <1>9. \A n \in 1..N : \E x \in S : Cardinality(Below(R, S, x)) + 1 = n
    BY <1>8 DEF rank
  <1> QED BY <1>1, <1>2, <1>3, <1>9

\* A finite set that is not empty has a first element.
LEMMA FirstExists ==
  ASSUME NEW S, NEW R, IsFiniteSet(S), S # {}, Orders(R, S)
  PROVE  \E x \in S : \A y \in S \ {x} : <<x, y>> \in R
  <1>1. Cardinality(S) \in Nat /\ Cardinality(S) # 0
    BY FS_CardinalityType, FS_EmptySet
  <1>2. 1 \in 1..Cardinality(S)
    BY <1>1
  <1>3. PICK x \in S : Cardinality(Below(R, S, x)) + 1 = 1
    BY <1>2, RanksAreDense
  <1>4. IsFiniteSet(Below(R, S, x))
    BY FS_Subset DEF Below
  <1>5. Cardinality(Below(R, S, x)) = 0
    BY <1>3, <1>4, FS_CardinalityType
  <1>6. Below(R, S, x) = {}
    BY <1>4, <1>5, FS_EmptySet
  <1> QED BY <1>6 DEF Below, Orders

\* So have finite sets of numbers, from below and from above.
LEMMA LeastNumber ==
  ASSUME NEW S, S # {}, NEW N \in Nat, \A n \in S : n \in Nat /\ n <= N
  PROVE  \E n \in S : \A m \in S : n <= m
  <1> DEFINE less == {p \in Nat \X Nat : p[1] < p[2]}
  <1>1. IsFiniteSet(S)
    BY FS_BoundedSetOfNaturals
  <1>2. \A x, y \in Nat : <<x, y>> \in less <=> x < y
    OBVIOUS
  <1> HIDE DEF less
  <1>3. Orders(less, S)
    BY <1>2 DEF Orders
  <1>4. \E x \in S : \A y \in S \ {x} : <<x, y>> \in less
    BY <1>1, <1>3, FirstExists
  <1>5. PICK x \in S : \A y \in S \ {x} : <<x, y>> \in less
    BY <1>4
  <1>6. \A y \in S \ {x} : x < y
    BY <1>2, <1>5
  <1> QED BY <1>6

LEMMA GreatestNumber ==
  ASSUME NEW S, S # {}, NEW N \in Nat, \A n \in S : n \in Nat /\ n <= N
  PROVE  \E n \in S : \A m \in S : m <= n
  <1> DEFINE less == {p \in Nat \X Nat : p[1] > p[2]}
  <1>1. IsFiniteSet(S)
    BY FS_BoundedSetOfNaturals
  <1>2. \A x, y \in Nat : <<x, y>> \in less <=> x > y
    OBVIOUS
  <1> HIDE DEF less
  <1>3. Orders(less, S)
    BY <1>2 DEF Orders
  <1>4. \E x \in S : \A y \in S \ {x} : <<x, y>> \in less
    BY <1>1, <1>3, FirstExists
  <1>5. PICK x \in S : \A y \in S \ {x} : <<x, y>> \in less
    BY <1>4
  <1>6. \A y \in S \ {x} : x > y
    BY <1>2, <1>5
  <1> QED BY <1>6

-----------------------------------------------------------------------------
(* Paths and matchers.                                                     *)

Starred(path) == path # << >> /\ path[Len(path)] = "*"

LEMMA PrefixElements ==
  ASSUME NEW Char, NEW s \in Seq(Char), NEW t \in Seq(Char)
  PROVE  IsPrefix(s, t) <=> Len(s) <= Len(t) /\ \A i \in 1..Len(s) : s[i] = t[i]
  <1>1. SubSeq(s, 1, Len(s)) = s
    BY SubSeqFull
  <1>2. ASSUME Len(s) <= Len(t)
        PROVE  s = SubSeq(t, 1, Len(s)) <=> \A i \in 1..Len(s) : s[i] = t[i]
    <2> DEFINE u == SubSeq(t, 1, Len(s))
    <2>1. u \in Seq(Char) /\ Len(u) = Len(s) /\ \A i \in 1..Len(s) : u[i] = t[i]
      BY <1>2
    <2> HIDE DEF u
    <2>2. (\A i \in 1..Len(s) : s[i] = t[i]) => s = u
      BY <2>1, SeqEqual
    <2> QED BY <2>1, <2>2 DEF u
  <1> QED BY <1>1, <1>2 DEF IsPrefix

LEMMA StarSuffix ==
  ASSUME NEW Char, NEW path \in Seq(Char)
  PROVE  IsSuffix(Star, path) <=> Starred(path)
  <1> DEFINE back == Reverse(path)
             star == Reverse(Star)
  <1>1. Star \in Seq({"*"}) /\ Len(Star) = 1 /\ Star[1] = "*"
    BY DEF Star
  <1>2. star \in Seq({"*"}) /\ Len(star) = 1 /\ star[1] = "*"
    BY <1>1 DEF Reverse
  <1>3. /\ back \in Seq(Char) /\ Len(back) = Len(path)
        /\ path # << >> => back[1] = path[Len(path)]
    BY DEF Reverse
  <1> HIDE DEF back, star
  <1>4. star \in Seq(Char \union {"*"}) /\ back \in Seq(Char \union {"*"})
    BY <1>2, <1>3, SeqMonotonic
  <1>5. IsPrefix(star, back) <=> Len(star) <= Len(back) /\ \A i \in 1..Len(star) : star[i] = back[i]
    BY <1>4, PrefixElements
  <1>6. IsPrefix(star, back) <=> path # << >> /\ path[Len(path)] = "*"
    BY <1>2, <1>3, <1>5
  <1> QED BY <1>6 DEF IsSuffix, back, star, Starred

\* A path without its star, and its matcher, which has one.
LEMMA TrimmedPath ==
  ASSUME NEW Char, NEW path \in Seq(Char)
  PROVE  /\ Trimmed(path) \in Seq(Char)
         /\ Len(Trimmed(path)) = IF Starred(path) THEN Len(path) - 1 ELSE Len(path)
         /\ \A i \in 1..Len(Trimmed(path)) : Trimmed(path)[i] = path[i]
  <1>1. CASE Starred(path)
    <2> DEFINE n == Len(path) - 1
               front == SubSeq(path, 1, n)
    <2>1. n \in Nat /\ n <= Len(path)
      BY <1>1 DEF Starred
    <2>2. Trimmed(path) = front
      BY <1>1, StarSuffix DEF Trimmed, Front
    <2> HIDE DEF n
    <2>3. front \in Seq(Char) /\ Len(front) = n /\ \A i \in 1..n : front[i] = path[i]
      BY <2>1
    <2> QED BY <1>1, <2>2, <2>3 DEF n
  <1>2. CASE ~Starred(path)
    <2>1. Trimmed(path) = path
      BY <1>2, StarSuffix DEF Trimmed
    <2> QED BY <1>2, <2>1
  <1> QED BY <1>1, <1>2

LEMMA MatcherOfPath ==
  ASSUME NEW Char, "*" \in Char, NEW path \in Seq(Char)
  PROVE  LET m == caddyPathMatcher(path)
         IN  /\ m \in Seq(Char)
             /\ Len(m) = IF Starred(path) THEN Len(path) ELSE Len(path) + 1
             /\ IsSuffix(Star, m)
             /\ m # << >>
             /\ Front(m) = Trimmed(path)
             /\ Trimmed(m) = Trimmed(path)
             /\ Len(m) = Len(Trimmed(path)) + 1
  <1> DEFINE m == caddyPathMatcher(path)
  <1>1. /\ m \in Seq(Char)
        /\ Len(m) = IF Starred(path) THEN Len(path) ELSE Len(path) + 1
        /\ Starred(m)
        /\ \A i \in 1..Len(path) : m[i] = path[i]
    <2>1. CASE Starred(path)
      <3>1. m = path
        BY <2>1, StarSuffix DEF caddyPathMatcher
      <3> QED BY <2>1, <3>1
    <2>2. CASE ~Starred(path)
      <3>1. m = path \o Star
        BY <2>2, StarSuffix DEF caddyPathMatcher
      <3>2. Star \in Seq(Char) /\ Len(Star) = 1 /\ Star[1] = "*"
        BY DEF Star
      <3>3. /\ m \in Seq(Char) /\ Len(m) = Len(path) + 1
            /\ \A i \in 1..Len(path) : m[i] = path[i]
            /\ m[Len(path) + 1] = "*"
        <4>1. /\ path \o Star \in Seq(Char)
              /\ Len(path \o Star) = Len(path) + Len(Star)
              /\ \A i \in 1 .. Len(path) + Len(Star) : (path \o Star)[i] =
                     IF i <= Len(path) THEN path[i] ELSE Star[i - Len(path)]
          BY <3>2, ConcatProperties
        <4>2. Len(path) \in Nat
          OBVIOUS
        <4> HIDE DEF m
        <4> QED BY <3>1, <3>2, <4>1, <4>2
      <3> HIDE DEF m
      <3>4. m # << >> /\ m[Len(m)] = "*"
        BY <3>3
      <3> QED BY <2>2, <3>3, <3>4 DEF Starred
    <2> QED BY <2>1, <2>2
  <1> HIDE DEF m
  <1>2. IsSuffix(Star, m) /\ m # << >>
    BY <1>1, StarSuffix DEF Starred
  <1>3. /\ Trimmed(m) \in Seq(Char) /\ Len(Trimmed(m)) = Len(m) - 1
        /\ \A i \in 1..Len(Trimmed(m)) : Trimmed(m)[i] = m[i]
    BY <1>1, TrimmedPath
  <1>4. /\ Trimmed(path) \in Seq(Char)
        /\ Len(Trimmed(path)) = IF Starred(path) THEN Len(path) - 1 ELSE Len(path)
        /\ \A i \in 1..Len(Trimmed(path)) : Trimmed(path)[i] = path[i]
    BY TrimmedPath
  <1>5. Len(path) \in Nat
    OBVIOUS
  <1>6. Len(Trimmed(m)) = Len(Trimmed(path))
    BY <1>1, <1>3, <1>4, <1>5
  <1>7. \A i \in 1..Len(Trimmed(m)) : Trimmed(m)[i] = Trimmed(path)[i]
    BY <1>1, <1>3, <1>4, <1>5, <1>6
  <1>8. Trimmed(m) = Trimmed(path)
    BY <1>3, <1>4, <1>6, <1>7, SeqEqual
  <1>9. Front(m) = Trimmed(m)
    BY <1>2 DEF Trimmed
  <1>10. Len(m) = Len(Trimmed(path)) + 1
    BY <1>1, <1>4, <1>5
  <1> QED BY <1>1, <1>2, <1>8, <1>9, <1>10 DEF m

-----------------------------------------------------------------------------
(* The blocks of a host.                                                   *)

\* A block takes what begins with the path of its route, which has no star.
LEMMA BlockOfRoute ==
  ASSUME NEW Char, "*" \in Char, NEW route,
         route.path \in Seq(Char), IsPrefix(Slash, route.path)
  PROVE  LET m == Block(route).matcher
         IN  /\ Len(m) \in Nat
             /\ Len(route.path) \in Nat \ {0}
             /\ route.path = Slash => Len(route.path) = 1 /\ m = << >> /\ Len(m) = 0
             /\ route.path # Slash =>
                    /\ m # << >>
                    /\ m = caddyPathMatcher(route.path)
                    /\ Len(m) \in {Len(route.path), Len(route.path) + 1}
                    /\ Len(route.path) > 1
             /\ "*" \notin Range(route.path) =>
                    \A q \in Seq(Char) :
                        IsPrefix(Slash, q) => (Takes(m, q) <=> IsPrefix(route.path, q))
  <1> DEFINE path == route.path
             m == Block(route).matcher
             t == Trimmed(path)
  <1>1. path \in Seq(Char) /\ IsPrefix(Slash, path)
    OBVIOUS
  <1>2. m = IF path = Slash THEN << >> ELSE caddyPathMatcher(path)
    BY DEF Block
  <1>4. Slash = <<"/">> /\ Len(Slash) = 1 /\ Slash[1] = "/"
    BY DEF Slash
  <1>5. Slash \in Seq(Char \union {"/"}) /\ path \in Seq(Char \union {"/"})
    BY <1>1, <1>4, SeqMonotonic
  <1>6. Len(path) \in Nat \ {0} /\ path[1] = "/"
    <2> HIDE DEF path
    <2>1. Len(Slash) <= Len(path) /\ \A i \in 1..Len(Slash) : Slash[i] = path[i]
      BY <1>1, <1>5, PrefixElements
    <2>2. Len(path) \in Nat
      BY <1>1
    <2> QED BY <1>4, <2>1, <2>2
  <1>7. path # Slash => Len(path) > 1
    <2> HIDE DEF path
    <2>1. ASSUME Len(path) = 1
          PROVE  path = Slash
      <3>1. Len(path) = Len(Slash) /\ \A i \in 1..Len(path) : path[i] = Slash[i]
        BY <1>4, <1>6, <2>1
      <3> QED BY <1>5, <3>1, SeqEqual
    <2> QED BY <1>6, <2>1
  <1> HIDE DEF path, m, t
  <1>8. CASE path = Slash
    <2>1. Trimmed(Slash) = Slash
      BY <1>4, <1>5, StarSuffix DEF Trimmed, Starred
    <2>2. t = Slash /\ m = << >> /\ Len(m) = 0
      BY <1>2, <1>8, <2>1 DEF t
    <2>3. \A q : Takes(m, q)
      BY <2>2 DEF Takes
    <2>4. Len(path) = 1
      BY <1>4, <1>8
    <2> QED BY <1>6, <1>8, <2>2, <2>3, <2>4 DEF path, m
  <1>9. CASE path # Slash
    <2>1. m = caddyPathMatcher(path)
      BY <1>2, <1>9
    <2>2. /\ m \in Seq(Char)
          /\ Len(m) = IF Starred(path) THEN Len(path) ELSE Len(path) + 1
          /\ IsSuffix(Star, m) /\ m # << >> /\ Front(m) = t /\ Trimmed(m) = t
          /\ Len(m) = Len(t) + 1
      BY <1>1, <2>1, MatcherOfPath DEF t, path
    <2>3. Len(m) \in {Len(path), Len(path) + 1} /\ Len(m) \in Nat
      BY <1>6, <2>2
    <2>4. ASSUME "*" \notin Range(path)
          PROVE  \A q : Takes(m, q) <=> IsPrefix(path, q)
      <3>1. ~Starred(path)
        <4>1. ASSUME Starred(path) PROVE path[Len(path)] \in Range(path)
          BY <1>1, <1>6, <4>1 DEF Range, Starred
        <4> QED BY <2>4, <4>1 DEF Starred
      <3>2. Front(m) = path
        <4>1. Trimmed(path) = path
          BY <1>1, <3>1, StarSuffix DEF Trimmed
        <4> QED BY <2>2, <4>1 DEF t
      <3> QED BY <2>2, <2>4, <3>2 DEF Takes
    <2> QED BY <1>6, <1>7, <1>9, <2>1, <2>2, <2>3, <2>4 DEF path, m
  <1> QED BY <1>8, <1>9

\* Caddy tries one block before another just when its matcher is longer.
LEMMA AheadIsLonger ==
  ASSUME NEW Char, "*" \in Char, NEW a, NEW b,
         a.path \in Seq(Char), IsPrefix(Slash, a.path),
         b.path \in Seq(Char), IsPrefix(Slash, b.path)
  PROVE  Ahead(Block(a).matcher, Block(b).matcher)
             <=> Len(Block(a).matcher) > Len(Block(b).matcher)
  <1> DEFINE ma == Block(a).matcher
             mb == Block(b).matcher
  <1>1. /\ Len(ma) \in Nat
        /\ a.path = Slash => ma = << >> /\ Len(ma) = 0
        /\ a.path # Slash => /\ ma # << >> /\ ma = caddyPathMatcher(a.path)
                             /\ Len(ma) \in {Len(a.path), Len(a.path) + 1}
                             /\ Len(a.path) > 1
        /\ Len(a.path) \in Nat
    BY BlockOfRoute
  <1>2. /\ Len(mb) \in Nat
        /\ b.path = Slash => mb = << >> /\ Len(mb) = 0
        /\ b.path # Slash => /\ mb # << >> /\ mb = caddyPathMatcher(b.path)
                             /\ Len(mb) \in {Len(b.path), Len(b.path) + 1}
                             /\ Len(b.path) > 1
        /\ Len(b.path) \in Nat
    BY BlockOfRoute
  <1>3. a.path # Slash => Len(ma) = Len(Trimmed(ma)) + 1 /\ Len(Trimmed(ma)) \in Nat
    <2>1. LET m == caddyPathMatcher(a.path)
          IN  Trimmed(m) = Trimmed(a.path) /\ Len(m) = Len(Trimmed(a.path)) + 1
      BY MatcherOfPath
    <2>2. Trimmed(a.path) \in Seq(Char)
      BY TrimmedPath
    <2> QED BY <1>1, <2>1, <2>2
  <1>4. b.path # Slash => Len(mb) = Len(Trimmed(mb)) + 1 /\ Len(Trimmed(mb)) \in Nat
    <2>1. LET m == caddyPathMatcher(b.path)
          IN  Trimmed(m) = Trimmed(b.path) /\ Len(m) = Len(Trimmed(b.path)) + 1
      BY MatcherOfPath
    <2>2. Trimmed(b.path) \in Seq(Char)
      BY TrimmedPath
    <2> QED BY <1>2, <2>1, <2>2
  <1> HIDE DEF ma, mb
  <1>5. CASE a.path = Slash \/ b.path = Slash
    <2>1. ma = << >> <=> a.path = Slash
      BY <1>1
    <2>2. mb = << >> <=> b.path = Slash
      BY <1>2
    <2>3. Ahead(ma, mb) <=> a.path # Slash /\ b.path = Slash
      BY <1>5, <2>1, <2>2 DEF Ahead
    <2>4. Len(ma) > Len(mb) <=> a.path # Slash /\ b.path = Slash
      BY <1>1, <1>2, <1>5
    <2> QED BY <2>3, <2>4 DEF ma, mb
  <1>6. CASE a.path # Slash /\ b.path # Slash
    <2>1. ma # << >> /\ mb # << >>
      BY <1>1, <1>2, <1>6
    <2>2. Ahead(ma, mb) <=> IF Trimmed(ma) = Trimmed(mb) THEN Len(ma) < Len(mb)
                            ELSE Len(ma) > Len(mb)
      BY <2>1 DEF Ahead
    <2>3. Trimmed(ma) = Trimmed(mb) => Len(ma) = Len(mb)
      BY <1>3, <1>4, <1>6
    <2> QED BY <1>1, <1>2, <2>2, <2>3 DEF ma, mb
  <1> QED BY <1>5, <1>6

\* Routes that pass validation.
Valid(routes) ==
    /\ Len(routes) \in Nat
    /\ DOMAIN routes = 1..Len(routes)
    /\ \A i \in DOMAIN routes :
           routes[i].path \in Seq(STRING) /\ IsPrefix(Slash, routes[i].path)

\* The stable sort puts every route in a place of its own.
LEMMA PlacesAreDense ==
  ASSUME NEW routes, Valid(routes)
  PROVE  /\ \A i \in DOMAIN routes : Place(routes, i) \in DOMAIN routes
         /\ \A i, j \in DOMAIN routes :
                Before(routes, i, j) => Place(routes, i) < Place(routes, j)
         /\ \A n \in DOMAIN routes : \E i \in DOMAIN routes : Place(routes, i) = n
  <1> DEFINE D == DOMAIN routes
             R == {p \in D \X D : Before(routes, p[1], p[2])}
  <1>1. \A i, j \in D : <<i, j>> \in R <=> Before(routes, i, j)
    OBVIOUS
  <1> HIDE DEF R
  <1>2. D = 1..Len(routes) /\ Len(routes) \in Nat
    BY DEF Valid
  <1>3. \A i \in D : Len(routes[i].path) \in Nat
    BY DEF Valid
  <1>4. IsFiniteSet(D) /\ Cardinality(D) = Len(routes)
    <2>1. /\ IsFiniteSet(1..Len(routes))
          /\ Cardinality(1..Len(routes)) = IF 1 > Len(routes) THEN 0 ELSE Len(routes) - 1 + 1
      BY <1>2, FS_Interval
    <2> QED BY <1>2, <2>1
  <1>5. \A i \in D : i \in Nat
    BY <1>2
  <1> HIDE DEF D
  <1>6. Orders(R, D)
    <2>1. \A i \in D : ~Before(routes, i, i)
      BY <1>3, <1>5 DEF Before
    <2>2. \A i, j, k \in D :
              Before(routes, i, j) /\ Before(routes, j, k) => Before(routes, i, k)
      <3> SUFFICES ASSUME NEW i \in D, NEW j \in D, NEW k \in D,
                          Before(routes, i, j), Before(routes, j, k)
                   PROVE  Before(routes, i, k)
        OBVIOUS
      <3> DEFINE a == Len(routes[i].path)
                 b == Len(routes[j].path)
                 c == Len(routes[k].path)
      <3>1. a \in Nat /\ b \in Nat /\ c \in Nat /\ i \in Nat /\ j \in Nat /\ k \in Nat
        BY <1>3, <1>5
      <3>2. (a > b \/ (a = b /\ i < j)) /\ (b > c \/ (b = c /\ j < k))
        BY <3>1 DEF Before
      <3>3. SUFFICES a > c \/ (a = c /\ i < k)
        BY DEF Before
      <3> HIDE DEF a, b, c
      <3> QED
        BY <3>1, <3>2
    <2>3. \A i, j \in D : i = j \/ Before(routes, i, j) \/ Before(routes, j, i)
      BY <1>3, <1>5 DEF Before
    <2> QED BY <1>1, <2>1, <2>2, <2>3 DEF Orders
  <1>7. \A i \in D : Cardinality(Below(R, D, i)) + 1 = Place(routes, i)
    <2> SUFFICES ASSUME NEW i \in D
                 PROVE  Cardinality(Below(R, D, i)) + 1 = Place(routes, i)
      OBVIOUS
    <2>1. Below(R, D, i) = {j \in D : Before(routes, j, i)}
      BY <1>1 DEF Below
    <2> QED BY <2>1 DEF Place, D
  <1>8. /\ \A i \in D : Cardinality(Below(R, D, i)) + 1 \in 1..Cardinality(D)
        /\ \A i, j \in D :
               <<i, j>> \in R => Cardinality(Below(R, D, i)) < Cardinality(Below(R, D, j))
        /\ \A n \in 1..Cardinality(D) : \E i \in D : Cardinality(Below(R, D, i)) + 1 = n
    BY <1>4, <1>6, RanksAreDense
  <1>9. \A i \in D : Place(routes, i) \in D
    BY <1>2, <1>4, <1>7, <1>8
  <1>10. \A n \in D : \E i \in D : Place(routes, i) = n
    BY <1>2, <1>4, <1>7, <1>8
  <1>11. \A i \in D : Cardinality(Below(R, D, i)) \in Int
    <2> SUFFICES ASSUME NEW i \in D PROVE Cardinality(Below(R, D, i)) \in Int
      OBVIOUS
    <2>1. Below(R, D, i) \in SUBSET D
      BY DEF Below
    <2> QED BY <1>4, <2>1, FS_Subset, FS_CardinalityType
  <1>12. \A i, j \in D : Before(routes, i, j) => Place(routes, i) < Place(routes, j)
    <2> SUFFICES ASSUME NEW i \in D, NEW j \in D, Before(routes, i, j)
                 PROVE  Place(routes, i) < Place(routes, j)
      OBVIOUS
    <2>1. Cardinality(Below(R, D, i)) < Cardinality(Below(R, D, j))
      BY <1>1, <1>8
    <2>2. /\ Place(routes, i) = Cardinality(Below(R, D, i)) + 1
          /\ Place(routes, j) = Cardinality(Below(R, D, j)) + 1
      BY <1>7
    <2> QED BY <1>11, <2>1, <2>2
  <1> QED BY <1>9, <1>10, <1>12 DEF D

LEMMA RenderedBlocks ==
  ASSUME NEW routes, Valid(routes)
  PROVE  LET blocksOf == renderCaddyfile(routes)
         IN  /\ DOMAIN blocksOf = DOMAIN routes
             /\ \A n \in DOMAIN routes :
                    \E i \in DOMAIN routes :
                        Place(routes, i) = n /\ blocksOf[n] = Block(routes[i])
             /\ \A i \in DOMAIN routes : blocksOf[Place(routes, i)] = Block(routes[i])
  <1> DEFINE D == DOMAIN routes
             at(n) == CHOOSE i \in D : Place(routes, i) = n
             blocksOf == renderCaddyfile(routes)
  <1>1. DOMAIN blocksOf = D /\ \A n \in D : blocksOf[n] = Block(routes[at(n)])
    BY DEF renderCaddyfile
  <1>2. \A n \in D : at(n) \in D /\ Place(routes, at(n)) = n
    BY PlacesAreDense
  <1>3. \A i, j \in D : i = j \/ Before(routes, i, j) \/ Before(routes, j, i)
    <2>1. \A i \in D : Len(routes[i].path) \in Nat /\ i \in Nat
      BY DEF Valid
    <2> HIDE DEF D
    <2> QED BY <2>1 DEF Before
  <1>4. \A i \in D : Place(routes, i) \in D /\ Place(routes, i) \in Int
    <2>1. \A i \in D : Place(routes, i) \in D
      BY PlacesAreDense
    <2>2. \A n \in D : n \in Int
      BY DEF Valid
    <2> HIDE DEF D
    <2> QED BY <2>1, <2>2
  <1>5. \A i, j \in D : Place(routes, i) = Place(routes, j) => i = j
    <2>1. \A i, j \in D : Before(routes, i, j) => Place(routes, i) < Place(routes, j)
      BY PlacesAreDense
    <2> QED BY <1>3, <1>4, <2>1
  <1>6. \A i \in D : at(Place(routes, i)) = i
    BY <1>2, <1>4, <1>5
  <1> QED BY <1>1, <1>2, <1>4, <1>6

\* What MostSpecificRouteServes says of one table and one request.
ServesMostSpecific(routes, served, q) ==
    LET fits == {i \in DOMAIN routes : Under(q, routes[i].path)}
        specific(i) == Len(Normal(routes[i].path))
    IN  /\ fits # {} => \E n \in DOMAIN served : Handles(served, n, q)
        /\ \A n \in DOMAIN served : Handles(served, n, q) =>
               \E i \in fits :
                   /\ served[n].route = routes[i]
                   /\ \A j \in fits : specific(j) <= specific(i)

\* Of two prefixes of a request, the longer one is at least as specific.
LEMMA LongerIsSpecific ==
  ASSUME NEW Char, NEW a \in Seq(Char), NEW b \in Seq(Char), NEW q \in Seq(Char),
         a # << >>, b # << >>, IsPrefix(a, q), IsPrefix(b, q), Len(b) <= Len(a)
  PROVE  Len(Normal(b)) <= Len(Normal(a))
  <1>1. ASSUME NEW p \in Seq(Char), p # << >>
        PROVE  Len(Normal(p)) \in {Len(p), Len(p) - 1}
    <2> DEFINE n == Len(p) - 1
    <2>1. n \in Nat /\ n <= Len(p)
      BY <1>1
    <2> HIDE DEF n
    <2>2. Len(SubSeq(p, 1, n)) = n
      BY <2>1
    <2>3. Front(p) = SubSeq(p, 1, n)
      BY DEF Front, n
    <2> QED BY <2>2, <2>3 DEF Normal, n
  <1>2. CASE Len(b) = Len(a)
    <2>1. \A i \in 1..Len(a) : a[i] = q[i]
      BY PrefixElements
    <2>2. \A i \in 1..Len(b) : b[i] = q[i]
      BY PrefixElements
    <2>3. a = b
      BY <1>2, <2>1, <2>2, SeqEqual
    <2>4. Len(Normal(a)) \in Int
      BY <1>1
    <2> QED BY <2>3, <2>4
  <1>3. CASE Len(b) # Len(a)
    <2>1. Len(Normal(a)) \in {Len(a), Len(a) - 1} /\ Len(Normal(b)) \in {Len(b), Len(b) - 1}
      BY <1>1
    <2>2. Len(a) \in Nat /\ Len(b) \in Nat /\ Len(b) < Len(a)
      BY <1>3
    <2> QED BY <2>1, <2>2
  <1> QED BY <1>2, <1>3

LEMMA RenderedServes ==
  ASSUME NEW routes, Valid(routes), NEW q \in Seq(STRING), IsPrefix(Slash, q),
         SegmentsDecide(q, routes)
  PROVE  ServesMostSpecific(routes, renderCaddyfile(routes), q)
  <1> DEFINE D == DOMAIN routes
             Char == STRING \union {"*"}
             served == renderCaddyfile(routes)
             length(n) == Len(served[n].matcher)
             fits == {i \in D : Under(q, routes[i].path)}
             taking == {n \in D : Takes(served[n].matcher, q)}
             place(i) == Place(routes, i)
  <1>1. /\ DOMAIN served = D
        /\ \A n \in D : \E i \in D : place(i) = n /\ served[n] = Block(routes[i])
        /\ \A i \in D : place(i) \in D /\ served[place(i)] = Block(routes[i])
    BY RenderedBlocks, PlacesAreDense
  <1>2. D = 1..Len(routes) /\ Len(routes) \in Nat /\ \A i \in D : i \in Nat
    BY DEF Valid
  <1>3. /\ \A i \in D : routes[i].path \in Seq(Char) /\ IsPrefix(Slash, routes[i].path)
        /\ q \in Seq(Char)
    <2>1. \A i \in D : routes[i].path \in Seq(STRING) /\ IsPrefix(Slash, routes[i].path)
      BY DEF Valid
    <2>2. \A s \in Seq(STRING) : s \in Seq(Char)
      BY SeqMonotonic
    <2> HIDE DEF D, Char
    <2> QED BY <2>1, <2>2
  <1>4. "*" \in Char
    OBVIOUS
  <1> HIDE DEF Char
  <1>5. ASSUME NEW i \in D
        PROVE  LET m == Block(routes[i]).matcher
               IN  /\ Len(m) \in Nat
                   /\ Len(routes[i].path) \in Nat \ {0}
                   /\ routes[i].path = Slash => Len(routes[i].path) = 1 /\ Len(m) = 0
                   /\ routes[i].path # Slash =>
                          Len(m) \in {Len(routes[i].path), Len(routes[i].path) + 1}
                   /\ Takes(m, q) <=> Under(q, routes[i].path)
                   /\ Under(q, routes[i].path) => IsPrefix(routes[i].path, q)
    <2> DEFINE m == Block(routes[i]).matcher
               path == routes[i].path
    <2>1. /\ Len(m) \in Nat
          /\ Len(path) \in Nat \ {0}
          /\ path = Slash => Len(path) = 1 /\ Len(m) = 0
          /\ path # Slash => Len(m) \in {Len(path), Len(path) + 1} /\ m = caddyPathMatcher(path)
          /\ "*" \notin Range(path) => (Takes(m, q) <=> IsPrefix(path, q))
      BY <1>3, <1>4, BlockOfRoute
    <2>2. IF "*" \in Range(path)
          THEN ~Takes(caddyPathMatcher(path), q) /\ ~Under(q, path)
          ELSE IsPrefix(path, q) <=> Under(q, path)
      BY DEF SegmentsDecide
    <2>3. "*" \notin Range(Slash)
      BY DEF Slash, Range
    <2> HIDE DEF m, path
    <2>4. Takes(m, q) <=> Under(q, path)
      BY <2>1, <2>2, <2>3
    <2>5. Under(q, path) => IsPrefix(path, q)
      BY <2>2
    <2> QED BY <2>1, <2>4, <2>5 DEF m, path
  <1>6. ASSUME NEW i \in D, NEW j \in D
        PROVE  Ahead(Block(routes[i]).matcher, Block(routes[j]).matcher)
                   <=> Len(Block(routes[i]).matcher) > Len(Block(routes[j]).matcher)
    BY <1>3, <1>4, AheadIsLonger
  <1> HIDE DEF D, served, length, place
  <1>7. \A n, m \in D :
            Ahead(served[n].matcher, served[m].matcher) <=> length(n) > length(m)
    BY <1>1, <1>6 DEF length
  <1>8. \A n \in D : length(n) \in Nat
    BY <1>1, <1>5 DEF length
  <1>9. \A n \in D : Handles(served, n, q) <=>
            /\ n \in taking
            /\ \A m \in taking \ {n} :
                   length(m) <= length(n) /\ (m < n => length(n) > length(m))
    <2> SUFFICES ASSUME NEW n \in D
                 PROVE  Handles(served, n, q) <=>
                            /\ n \in taking
                            /\ \A m \in taking \ {n} :
                                   length(m) <= length(n) /\ (m < n => length(n) > length(m))
      OBVIOUS
    <2>1. \A m \in D : /\ ~Ahead(served[m].matcher, served[n].matcher) <=> length(m) <= length(n)
                       /\ Ahead(served[n].matcher, served[m].matcher) <=> length(n) > length(m)
      BY <1>7, <1>8
    <2> QED BY <1>1, <2>1 DEF Handles
  <1>10. fits # {} => \E n \in D : Handles(served, n, q)
    <2> SUFFICES ASSUME fits # {} PROVE \E n \in D : Handles(served, n, q)
      OBVIOUS
    <2> DEFINE first == {p \in D \X D : \/ length(p[1]) > length(p[2])
                                        \/ length(p[1]) = length(p[2]) /\ p[1] < p[2]}
    <2>1. \A n, m \in D :
              <<n, m>> \in first <=> \/ length(n) > length(m)
                                     \/ length(n) = length(m) /\ n < m
      OBVIOUS
    <2> HIDE DEF first
    <2>2. taking # {}
      <3>1. PICK i \in D : Under(q, routes[i].path)
        OBVIOUS
      <3> QED BY <1>1, <1>5, <3>1
    <2>3. IsFiniteSet(taking) /\ taking \subseteq D
      <3>1. IsFiniteSet(D)
        BY <1>2, FS_Interval
      <3> QED BY <3>1, FS_Subset
    <2> HIDE DEF taking
    <2>4. \A n \in taking : n \in D /\ n \in Nat /\ length(n) \in Nat
      BY <1>2, <1>8, <2>3
    <2>5. Orders(first, taking)
      <3>1. \A n \in taking : <<n, n>> \notin first
        BY <2>1, <2>4
      <3>2. \A n, m, k \in taking :
                <<n, m>> \in first /\ <<m, k>> \in first => <<n, k>> \in first
        BY <2>1, <2>4
      <3>3. ASSUME NEW n \in taking, NEW m \in taking
            PROVE  n = m \/ <<n, m>> \in first \/ <<m, n>> \in first
        <4>1. n \in D /\ m \in D /\ n \in Nat /\ m \in Nat
          BY <2>4
        <4>2. length(n) \in Nat /\ length(m) \in Nat
          BY <2>4
        <4>3. /\ <<n, m>> \in first
                     <=> length(n) > length(m) \/ (length(n) = length(m) /\ n < m)
              /\ <<m, n>> \in first
                     <=> length(m) > length(n) \/ (length(m) = length(n) /\ m < n)
          BY <2>1, <4>1
        <4> QED BY <4>1, <4>2, <4>3
      <3> QED BY <3>1, <3>2, <3>3 DEF Orders
    <2>6. PICK n \in taking : \A m \in taking \ {n} : <<n, m>> \in first
      BY <2>2, <2>3, <2>5, FirstExists
    <2>7. ASSUME NEW m \in taking \ {n}
          PROVE  length(m) <= length(n) /\ (m < n => length(n) > length(m))
      <3>1. n \in D /\ m \in D /\ n \in Nat /\ m \in Nat
        BY <2>4
      <3>2. length(n) \in Nat /\ length(m) \in Nat
        BY <2>4
      <3>3. length(n) > length(m) \/ (length(n) = length(m) /\ n < m)
        BY <2>1, <2>6, <3>1
      <3> QED BY <3>1, <3>2, <3>3
    <2> QED BY <1>9, <2>3, <2>6, <2>7
  <1>11. ASSUME NEW n \in D, Handles(served, n, q)
         PROVE  \E i \in fits :
                    /\ served[n].route = routes[i]
                    /\ \A j \in fits : Len(Normal(routes[j].path)) <= Len(Normal(routes[i].path))
    <2>1. PICK i \in D : place(i) = n /\ served[n] = Block(routes[i])
      BY <1>1
    <2>2. n \in taking
      BY <1>9, <1>11
    <2>3. i \in fits
      BY <1>5, <2>1, <2>2
    <2>4. served[n].route = routes[i]
      BY <2>1 DEF Block
    <2>5. ASSUME NEW j \in fits, Before(routes, j, i), i # j
          PROVE  length(n) > Len(Block(routes[j]).matcher)
      <3>1. place(j) \in D /\ served[place(j)] = Block(routes[j])
        BY <1>1
      <3>2. place(j) \in taking
        BY <1>5, <3>1
      <3>3. place(j) < n
        BY <2>1, <2>5, PlacesAreDense DEF place, D
      <3>4. place(j) # n
        BY <1>2, <2>1, <3>1, <3>3
      <3>5. length(n) > length(place(j))
        BY <1>9, <1>11, <3>2, <3>3, <3>4
      <3> QED BY <3>1, <3>5 DEF length
    <2>6. length(n) = Len(Block(routes[i]).matcher)
      BY <2>1 DEF length
    <2>7. ASSUME NEW j \in fits, Len(routes[j].path) > Len(routes[i].path)
          PROVE  FALSE
      <3>1. Before(routes, j, i) /\ i # j
        BY <1>5, <2>7 DEF Before
      <3>2. Len(Block(routes[i]).matcher) > Len(Block(routes[j]).matcher)
        BY <2>5, <2>6, <3>1
      <3>3. /\ Len(Block(routes[i]).matcher) \in Nat
            /\ Len(routes[i].path) \in Nat \ {0}
            /\ routes[i].path = Slash => Len(Block(routes[i]).matcher) = 0
            /\ routes[i].path # Slash => Len(Block(routes[i]).matcher)
                                             \in {Len(routes[i].path), Len(routes[i].path) + 1}
        BY <1>5
      <3>4. /\ Len(Block(routes[j]).matcher) \in Nat
            /\ Len(routes[j].path) \in Nat
            /\ routes[j].path = Slash => Len(routes[j].path) = 1
            /\ routes[j].path # Slash => Len(Block(routes[j]).matcher)
                                             \in {Len(routes[j].path), Len(routes[j].path) + 1}
        BY <1>5
      <3> DEFINE a == Len(Block(routes[i]).matcher)
                 b == Len(Block(routes[j]).matcher)
                 c == Len(routes[i].path)
                 d == Len(routes[j].path)
      <3>5. a \in Nat /\ c \in Nat \ {0} /\ a <= c + 1
        BY <3>3
      <3>6. b \in Nat /\ d \in Nat /\ (d = 1 \/ d <= b)
        BY <3>4
      <3>7. a > b /\ d > c
        BY <2>7, <3>2
      <3> HIDE DEF a, b, c, d
      <3> QED BY <3>5, <3>6, <3>7
    <2>8. ASSUME NEW j \in fits
          PROVE  Len(Normal(routes[j].path)) <= Len(Normal(routes[i].path))
      <3>1. /\ routes[i].path \in Seq(Char) /\ routes[j].path \in Seq(Char) /\ q \in Seq(Char)
            /\ IsPrefix(routes[i].path, q) /\ IsPrefix(routes[j].path, q)
        BY <1>3, <1>5, <2>3
      <3>2. Len(routes[i].path) \in Nat \ {0} /\ Len(routes[j].path) \in Nat \ {0}
        BY <1>5
      <3>3. Len(routes[j].path) <= Len(routes[i].path)
        BY <2>7, <3>2
      <3>4. routes[i].path # << >> /\ routes[j].path # << >>
        BY <3>2
      <3> QED BY <3>1, <3>3, <3>4, LongerIsSpecific
    <2> QED BY <2>3, <2>4, <2>8
  <1> QED
    <2>1. fits = {i \in DOMAIN routes : Under(q, routes[i].path)}
      BY DEF D
    <2> HIDE DEF fits
    <2> QED BY <1>1, <1>10, <1>11, <2>1 DEF ServesMostSpecific, served

-----------------------------------------------------------------------------
(* The nearest zerobased.yaml.                                             *)

LEMMA NearestRoot ==
  ASSUME NEW start \in Seq(STRING), Roots(start) # {}
  PROVE  /\ findProjectRoot(start) \in Roots(start)
         /\ findProjectRoot(start) \in HasConfig
         /\ \A d \in Roots(start) : Len(d) <= Len(findProjectRoot(start))
  <1> DEFINE R == Roots(start)
             lengths == {n \in 0..Len(start) : \E d \in R : Len(d) = n}
  <1>1. Len(start) \in Nat
    OBVIOUS
  <1>2. \A d \in R : Len(d) \in 0..Len(start)
    <2> SUFFICES ASSUME NEW d \in R PROVE Len(d) \in 0..Len(start)
      OBVIOUS
    <2>1. PICK k \in 0..Len(start) : d = SubSeq(start, 1, k)
      BY DEF Roots
    <2> QED BY <1>1, <2>1
  <1> HIDE DEF R
  <1>3. lengths # {}
    BY <1>2 DEF R
  <1>4. \A n \in lengths : n \in Nat /\ n <= Len(start)
    BY <1>1
  <1> HIDE DEF lengths
  <1>5. PICK n \in lengths : \A m \in lengths : m <= n
    BY <1>1, <1>3, <1>4, GreatestNumber
  <1>6. \E d \in R : \A e \in R : Len(e) <= Len(d)
    BY <1>2, <1>5 DEF lengths
  <1>7. findProjectRoot(start) = CHOOSE d \in R : \A e \in R : Len(e) <= Len(d)
    BY DEF findProjectRoot, R
  <1> QED BY <1>6, <1>7 DEF R, Roots

-----------------------------------------------------------------------------
(* Closures.                                                               *)

\* What holds of the start of an interval, and of the next number whenever of
\* a number, holds of all of it.
LEMMA Upto ==
  ASSUME NEW N \in Nat, NEW P, 0 \in P, \A k \in 0..N : k \in P /\ k < N => k + 1 \in P
  PROVE  \A k \in 0..N : k \in P
  <1> DEFINE bad == {k \in 0..N : k \notin P}
  <1> SUFFICES ASSUME bad # {} PROVE FALSE
    OBVIOUS
  <1>1. \A k \in bad : k \in Nat /\ k <= N
    OBVIOUS
  <1>2. PICK k \in bad : \A j \in bad : k <= j
    <2> HIDE DEF bad
    <2> QED BY <1>1, LeastNumber
  <1>3. k # 0 /\ k \in 1..N /\ k - 1 \in 0..N
    BY <1>2
  <1>4. k - 1 \in P
    BY <1>2, <1>3
  <1> QED BY <1>2, <1>3, <1>4

Grown(next, W) == W \union UNION {next[x] : x \in W}

Chain(start, next, n, f) ==
    f = [k \in 0..n |-> IF k = 0 THEN start ELSE Grown(next, f[k - 1])]

LEMMA ChainExists ==
  ASSUME NEW start, NEW next, NEW N \in Nat
  PROVE  \E f : Chain(start, next, N, f)
  <1> DEFINE P == {n \in 0..N : \E f : Chain(start, next, n, f)}
  <1>1. 0 \in P
    <2> DEFINE f == [k \in 0..0 |-> start]
    <2>1. Chain(start, next, 0, f)
      BY DEF Chain
    <2> QED BY <2>1
  <1>2. ASSUME NEW n \in 0..N, n \in P, n < N
        PROVE  n + 1 \in P
    <2>1. PICK f : Chain(start, next, n, f)
      BY <1>2
    <2> DEFINE g == [k \in 0..(n + 1) |-> IF k = n + 1 THEN Grown(next, f[n]) ELSE f[k]]
    <2>2. /\ f[0] = start
          /\ \A k \in 0..n : k # 0 => f[k] = Grown(next, f[k - 1])
      BY <2>1 DEF Chain
    <2>3. g[n + 1] = Grown(next, f[n]) /\ \A k \in 0..n : g[k] = f[k]
      OBVIOUS
    <2>4. \A k \in 0..(n + 1) : g[k] = IF k = 0 THEN start ELSE Grown(next, g[k - 1])
      <3> HIDE DEF g
      <3> SUFFICES ASSUME NEW k \in 0..(n + 1)
                   PROVE  g[k] = IF k = 0 THEN start ELSE Grown(next, g[k - 1])
        OBVIOUS
      <3>1. CASE k = 0
        BY <2>2, <2>3, <3>1
      <3>2. CASE k \in 1..n
        <4>1. k - 1 \in 0..n /\ k \in 0..n
          BY <3>2
        <4> QED BY <2>2, <2>3, <3>2, <4>1
      <3>3. CASE k = n + 1
        <4>1. k - 1 = n /\ n \in 0..n /\ k # 0
          BY <3>3
        <4> QED BY <2>3, <3>3, <4>1
      <3> QED BY <3>1, <3>2, <3>3
    <2>5. g = [k \in 0..(n + 1) |-> IF k = 0 THEN start ELSE Grown(next, g[k - 1])]
      BY <2>4
    <2> HIDE DEF g
    <2>6. Chain(start, next, n + 1, g)
      BY <2>5 DEF Chain
    <2> QED BY <1>2, <2>6
  <1>3. \A n \in 0..N : n \in P
    <2> HIDE DEF P
    <2> QED BY <1>1, <1>2, Upto
  <1> QED BY <1>3

\* A closure is the last link of a chain of growing sets.
LEMMA ClosureIsChained ==
  ASSUME NEW all, IsFiniteSet(all), NEW start, NEW next
  PROVE  \E f : /\ f[0] = start
                /\ \A k \in 0..Cardinality(all) :
                       k # 0 => f[k] = Grown(next, f[k - 1])
                /\ Closure(all, start, next) = f[Cardinality(all)]
  <1> DEFINE N == Cardinality(all)
             link == CHOOSE f : Chain(start, next, N, f)
  <1>1. N \in Nat
    BY FS_CardinalityType
  <1>2. Chain(start, next, N, link)
    BY <1>1, ChainExists
  <1>3. Closure(all, start, next) = link[N]
    BY DEF Closure, Chain, Grown
  <1> HIDE DEF link, N
  <1>4. /\ link[0] = start
        /\ \A k \in 0..N : k # 0 => link[k] = Grown(next, link[k - 1])
    BY <1>1, <1>2 DEF Chain
  <1> QED BY <1>3, <1>4 DEF N

\* It is the least set that holds start and is closed under next.
LEMMA ClosureIsLeast ==
  ASSUME NEW all, IsFiniteSet(all), NEW start \in SUBSET all, NEW next,
         \A x \in all : next[x] \subseteq all
  PROVE  LET C == Closure(all, start, next)
         IN  /\ start \subseteq C
             /\ C \subseteq all
             /\ \A x \in C : next[x] \subseteq C
             /\ \A S : start \subseteq S /\ (\A x \in S : next[x] \subseteq S) => C \subseteq S
  <1> DEFINE N == Cardinality(all)
             C == Closure(all, start, next)
  <1>1. N \in Nat
    BY FS_CardinalityType
  <1>2. PICK f : /\ f[0] = start
                 /\ \A k \in 0..N : k # 0 => f[k] = Grown(next, f[k - 1])
                 /\ C = f[N]
    BY ClosureIsChained
  <1> HIDE DEF C, N
  <1>3. \A k \in 0..N : k < N => k + 1 \in 0..N /\ f[k + 1] = Grown(next, f[k])
    <2> SUFFICES ASSUME NEW k \in 0..N, k < N
                 PROVE  k + 1 \in 0..N /\ f[k + 1] = Grown(next, f[k])
      OBVIOUS
    <2>1. k + 1 \in 0..N /\ k + 1 # 0 /\ (k + 1) - 1 = k
      BY <1>1
    <2> QED BY <1>2, <2>1
  <1>4. \A k \in 0..N : start \subseteq f[k] /\ f[k] \subseteq all
    <2> DEFINE P == {k \in 0..N : start \subseteq f[k] /\ f[k] \subseteq all}
    <2>1. 0 \in P
      BY <1>1, <1>2
    <2>2. \A k \in 0..N : k \in P /\ k < N => k + 1 \in P
      BY <1>3 DEF Grown
    <2> HIDE DEF P
    <2>3. \A k \in 0..N : k \in P
      BY <1>1, <2>1, <2>2, Upto
    <2> QED BY <2>3 DEF P
  <1>5. ASSUME NEW S, start \subseteq S, \A x \in S : next[x] \subseteq S
        PROVE  C \subseteq S
    <2> DEFINE P == {k \in 0..N : f[k] \subseteq S}
    <2>1. 0 \in P
      BY <1>1, <1>2, <1>5
    <2>2. \A k \in 0..N : k \in P /\ k < N => k + 1 \in P
      BY <1>3, <1>5 DEF Grown
    <2> HIDE DEF P
    <2>3. N \in P
      BY <1>1, <2>1, <2>2, Upto
    <2> QED BY <1>2, <2>3 DEF P
  <1>6. \A x \in C : next[x] \subseteq C
    <2>1. CASE \E k \in 0..N : k < N /\ f[k + 1] = f[k]
      <3>1. PICK k \in 0..N : k < N /\ f[k + 1] = f[k]
        BY <2>1
      <3>2. Grown(next, f[k]) = f[k]
        BY <1>3, <3>1
      <3> DEFINE P == {j \in 0..N : j <= k \/ f[j] = f[k]}
      <3>3. 0 \in P
        BY <1>1
      <3>4. ASSUME NEW j \in 0..N, j \in P, j < N
            PROVE  j + 1 \in P
        <4>1. j + 1 \in 0..N /\ f[j + 1] = Grown(next, f[j])
          BY <1>3, <3>4
        <4>2. CASE j < k
          BY <4>1, <4>2
        <4>3. CASE ~(j < k)
          <5>1. f[j] = f[k]
            BY <3>4, <4>3
          <5> QED BY <3>2, <4>1, <5>1
        <4> QED BY <4>2, <4>3
      <3>5. N \in P
        <4> HIDE DEF P
        <4> QED BY <1>1, <3>3, <3>4, Upto
      <3>6. C = f[k]
        BY <1>1, <1>2, <3>1, <3>5
      <3> QED BY <3>2, <3>6 DEF Grown
    <2>2. CASE \A k \in 0..N : k < N => f[k + 1] # f[k]
      <3>1. \A k \in 0..N : IsFiniteSet(f[k]) /\ Cardinality(f[k]) \in Nat
        BY <1>4, FS_Subset, FS_CardinalityType
      <3> DEFINE P == {k \in 0..N : k <= Cardinality(f[k])}
      <3>2. 0 \in P
        BY <1>1, <3>1
      <3>3. ASSUME NEW k \in 0..N, k \in P, k < N
            PROVE  k + 1 \in P
        <4>1. k + 1 \in 0..N /\ f[k] \in SUBSET f[k + 1] /\ f[k] # f[k + 1]
          BY <1>3, <2>2, <3>3 DEF Grown
        <4>2. /\ Cardinality(f[k]) <= Cardinality(f[k + 1])
              /\ Cardinality(f[k]) # Cardinality(f[k + 1])
          BY <3>1, <4>1, FS_Subset
        <4> QED BY <3>1, <3>3, <4>1, <4>2
      <3>4. N \in P
        <4> HIDE DEF P
        <4> QED BY <1>1, <3>2, <3>3, Upto
      <3>5. N <= Cardinality(C) /\ C \in SUBSET all
        BY <1>1, <1>2, <1>4, <3>4
      <3>6. Cardinality(C) <= N /\ (N = Cardinality(C) => all = C)
        BY <3>5, FS_Subset DEF N
      <3>7. Cardinality(C) \in Nat
        BY <1>1, <1>2, <3>1
      <3> QED BY <1>1, <3>5, <3>6, <3>7
    <2> QED BY <2>1, <2>2
  <1>7. start \subseteq C /\ C \subseteq all
    BY <1>1, <1>2, <1>4
  <1> QED BY <1>5, <1>6, <1>7 DEF C

-----------------------------------------------------------------------------
(* What Load returns.                                                      *)

LEMMA NamesAreServices ==
  ASSUME NEW files
  PROVE  Names(files) \subseteq Service /\ IsFiniteSet(Names(files))
  <1>1. Names(files) \in SUBSET Service
    BY DEF Names
  <1> QED BY <1>1, FS_Subset, ComposeAssumption

\* The services asked for and all that they depend on, and no others.
LEMMA SelectionIsLeast ==
  ASSUME NEW req, Resolves(req)
  PROVE  /\ req.services \subseteq Selected(req)
         /\ Selected(req) \subseteq Names(req.files)
         /\ \A s \in Selected(req) :
                Merged(req.files, s, "depends_on") \subseteq Selected(req)
         /\ req.services # {} =>
                \A S : /\ req.services \subseteq S
                       /\ \A s \in S \intersect Names(req.files) :
                              Merged(req.files, s, "depends_on") \subseteq S
                       => Selected(req) \subseteq S
  <1> DEFINE all == Names(req.files)
             next == [s \in all |-> Merged(req.files, s, "depends_on")]
  <1>1. req.services \in SUBSET all /\ \A s \in all : next[s] \subseteq all
    BY DEF Resolves
  <1>2. CASE req.services = {}
    <2>1. Selected(req) = all
      BY <1>2 DEF Selected
    <2> QED BY <1>1, <1>2, <2>1
  <1>3. CASE req.services # {}
    <2> DEFINE C == Closure(all, req.services, next)
    <2>1. Selected(req) = C
      BY <1>3 DEF Selected
    <2>2. IsFiniteSet(all)
      BY NamesAreServices
    <2> HIDE DEF all, C
    <2>3. /\ req.services \subseteq C
          /\ C \subseteq all
          /\ \A x \in C : next[x] \subseteq C
          /\ \A S : req.services \subseteq S /\ (\A x \in S : next[x] \subseteq S)
                        => C \subseteq S
      <3> HIDE DEF next
      <3> QED BY <1>1, <2>2, ClosureIsLeast DEF C
    <2>4. \A s \in C : Merged(req.files, s, "depends_on") \subseteq C
      BY <2>3
    <2>5. ASSUME NEW S, req.services \subseteq S,
                 \A s \in S \intersect all : Merged(req.files, s, "depends_on") \subseteq S
          PROVE  C \subseteq S
      <3> DEFINE T == S \intersect all
      <3>1. req.services \subseteq T
        BY <1>1, <2>5
      <3>2. \A x \in T : next[x] \subseteq T
        BY <1>1, <2>5
      <3> HIDE DEF T
      <3>3. C \subseteq T
        BY <2>3, <3>1, <3>2
      <3> QED BY <3>3 DEF T
    <2> QED BY <2>1, <2>3, <2>4, <2>5 DEF all
  <1> QED BY <1>2, <1>3

\* What Compose is told to run is all that was asked for and all that it
\* depends on, down to the last dependency, and every one of it was judged.
THEOREM LoadSelectsTheLot ==
  ASSUME NEW req, Load(req).error = Nil
  PROVE  /\ req.services \subseteq Load(req).services
         /\ Load(req).services \subseteq Service
         /\ \A s \in Load(req).services :
                /\ Merged(req.files, s, "depends_on") \subseteq Load(req).services
                /\ req.ownership = "owned" => Merged(req.files, s, "traits") = {}
  <1>1. Refused("ModelInvalid").error # Nil /\ Refused("IsolationRejected").error # Nil
    <2>1. \A code : New("compose_backend", code, Nil) # << >>
      <3> SUFFICES ASSUME NEW code PROVE New("compose_backend", code, Nil) # << >>
        OBVIOUS
      <3> DEFINE rec == [layer |-> "compose_backend", code |-> code, origin |-> << >>]
      <3>1. New("compose_backend", code, Nil) = <<rec>> \o << >>
        BY DEF New, Nil
      <3>2. <<rec>> \in Seq({rec}) /\ << >> \in Seq({rec}) /\ Len(<<rec>>) = 1
        OBVIOUS
      <3>3. Len(<<rec>> \o << >>) = 1
        BY <3>2
      <3> QED BY <3>1, <3>3
    <2> QED BY <2>1 DEF Refused, Nil
  <1>2. Resolves(req) /\ validateIsolation(req) /\ Load(req).services = Selected(req)
    BY <1>1 DEF Load
  <1>3. Selected(req) \subseteq Service
    BY <1>2, SelectionIsLeast, NamesAreServices
  <1> QED BY <1>2, <1>3, SelectionIsLeast DEF validateIsolation

\* And a file that is included, from wherever, counts like one that is given.
LEMMA InclusionIsLeast ==
  ASSUME NEW files, Range(files) \subseteq File
  PROVE  /\ Range(files) \subseteq WithIncluded(files)
         /\ WithIncluded(files) \subseteq File
         /\ \A f \in WithIncluded(files) : Content[f].include \subseteq WithIncluded(files)
  <1> DEFINE start == Range(files)
             next == [f \in File |-> Content[f].include]
  <1>1. start \in SUBSET File /\ IsFiniteSet(File) /\ \A f \in File : next[f] \subseteq File
    BY ComposeAssumption
  <1> HIDE DEF start
  <1>2. LET C == Closure(File, start, next)
        IN  start \subseteq C /\ C \subseteq File /\ \A f \in C : next[f] \subseteq C
    <2> HIDE DEF next
    <2> QED BY <1>1, ClosureIsLeast
  <1> QED BY <1>2 DEF WithIncluded, start
=============================================================================
