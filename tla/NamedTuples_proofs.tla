-------------------------- MODULE NamedTuples_proofs --------------------------
(***************************************************************************)
(* Proofs about the comparison of names, for strings of any length, and    *)
(* about the queries of a daemon that compares names so.                   *)
(***************************************************************************)
EXTENDS NamedTuples, Tsd_proofs

-------------------------------------------------------------------------------
(* _match and the pieces of a name *)

(* The entry for the i-th suffix of the expression and the j-th of the name, *)
(* of a table f.                                                             *)
Step(f, expr, name, i, j) ==
    IF At(expr, i) = At(name, j)
    THEN IF At(name, j) = NUL THEN 0 ELSE f[i + 1][j + 1]
    ELSE CASE At(expr, i) = "?" /\ At(name, j) # NUL -> f[i + 1][j + 1]
           [] At(expr, i) = "*" ->
                IF \E k \in Suffixes(name, j) : f[i + 1][k] = 0 THEN 0 ELSE 1
           [] OTHER -> 1

IsTable(f, expr, name) ==
    f = [i \in 1..Len(expr) + 1 |-> [j \in 1..Len(name) + 1 |-> Step(f, expr, name, i, j)]]

(* One piece of a name, its symbols from a + 1 to b, for the symbol e.       *)
Piece(e, a, b, name) ==
    CASE e = "*" -> a <= b
      [] e = "?" -> b = a + 1
      [] OTHER -> b = a + 1 /\ name[b] = e

(* The rest of the name behind its first a symbols can be cut into pieces    *)
(* for the rest of the expression from its i-th symbol.                      *)
CutFrom(expr, name, i, a) ==
    \E cut \in [i..Len(expr) + 1 -> 0..Len(name)] :
        /\ cut[i] = a
        /\ cut[Len(expr) + 1] = Len(name)
        /\ \A k \in i..Len(expr) : Piece(expr[k], cut[k], cut[k + 1], name)

Says(expr, name, i, a) == IF CutFrom(expr, name, i, a) THEN 0 ELSE 1

LEMMA MatchIs ==
    ASSUME NEW expr, NEW name
    PROVE  _match(expr, name) = (CHOOSE f : IsTable(f, expr, name))[1][1]
  BY DEF _match, IsTable, Step

LEMMA NoEnd == NUL \notin Symbols /\ NUL # "*" /\ NUL # "?"
  BY Zenon DEF Symbols, NUL

LEMMA TextIs ==
    ASSUME NEW s, Text(s)
    PROVE  /\ Len(s) \in Nat /\ DOMAIN s = 1..Len(s)
           /\ \A k \in 1..Len(s) : At(s, k) = s[k] /\ s[k] # NUL
           /\ At(s, Len(s) + 1) = NUL
<1>1. Len(s) \in Nat /\ DOMAIN s = 1..Len(s) /\ s \in [1..Len(s) -> Symbols]
  BY LenProperties DEF Text
<1>2. \A k \in 1..Len(s) : s[k] # NUL
  BY <1>1, NoEnd
<1> QED BY <1>1, <1>2 DEF At

LEMMA WildcardIsCut ==
    ASSUME NEW expr, Text(expr), NEW name
    PROVE  WildcardMatches(expr, name) <=> CutFrom(expr, name, 1, 0)
<1>1. DOMAIN expr = 1..Len(expr)
  BY TextIs
<1> QED BY <1>1 DEF WildcardMatches, CutFrom, Piece

LEMMA CutEnd ==
    ASSUME NEW expr, Text(expr), NEW name, Text(name), NEW a \in 0..Len(name)
    PROVE  CutFrom(expr, name, Len(expr) + 1, a) <=> a = Len(name)
<1>1. Len(expr) \in Nat /\ Len(name) \in Nat
  BY TextIs
<1>2. ASSUME a = Len(name) PROVE CutFrom(expr, name, Len(expr) + 1, a)
  <2> DEFINE cut == [k \in Len(expr) + 1..Len(expr) + 1 |-> a]
  <2>1. cut \in [Len(expr) + 1..Len(expr) + 1 -> 0..Len(name)] /\ cut[Len(expr) + 1] = a
    BY <1>1
  <2>2. Len(expr) + 1..Len(expr) = {}
    BY <1>1
  <2> QED BY <1>2, <2>1, <2>2 DEF CutFrom
<1> QED BY <1>2 DEF CutFrom

LEMMA CutStep ==
    ASSUME NEW expr, Text(expr), NEW name, Text(name),
           NEW i \in 1..Len(expr), NEW a \in 0..Len(name)
    PROVE  CutFrom(expr, name, i, a) <=>
             \E b \in 0..Len(name) : Piece(expr[i], a, b, name) /\ CutFrom(expr, name, i + 1, b)
<1>1. PICK m, n : m = Len(expr) /\ n = Len(name)
  OBVIOUS
<1>2. m \in Nat /\ n \in Nat /\ i \in 1..m /\ a \in 0..n
  BY <1>1, TextIs
<1>3. ASSUME CutFrom(expr, name, i, a)
      PROVE  \E b \in 0..n : Piece(expr[i], a, b, name) /\ CutFrom(expr, name, i + 1, b)
  <2>1. PICK cut \in [i..m + 1 -> 0..n] :
          /\ cut[i] = a /\ cut[m + 1] = n
          /\ \A k \in i..m : Piece(expr[k], cut[k], cut[k + 1], name)
    BY <1>1, <1>3 DEF CutFrom
  <2>2. PICK rest : rest = [k \in i + 1..m + 1 |-> cut[k]]
    OBVIOUS
  <2>3. /\ rest \in [i + 1..m + 1 -> 0..n]
        /\ \A k \in i + 1..m + 1 : rest[k] = cut[k]
    BY <1>2, <2>2
  <2>4. i + 1 \in i + 1..m + 1 /\ m + 1 \in i + 1..m + 1 /\ i \in i..m
    BY <1>2
  <2>5. \A k \in i + 1..m : k \in i..m /\ k \in i + 1..m + 1 /\ k + 1 \in i + 1..m + 1
    BY <1>2
  <2>6. \A k \in i + 1..m : Piece(expr[k], rest[k], rest[k + 1], name)
    BY <2>1, <2>3, <2>5
  <2>7. CutFrom(expr, name, i + 1, cut[i + 1])
    BY <1>1, <2>1, <2>3, <2>4, <2>6 DEF CutFrom
  <2>8. cut[i + 1] \in 0..n /\ Piece(expr[i], a, cut[i + 1], name)
    BY <1>2, <2>1, <2>4
  <2> QED BY <2>7, <2>8
<1>4. ASSUME NEW b \in 0..n, Piece(expr[i], a, b, name), CutFrom(expr, name, i + 1, b)
      PROVE  CutFrom(expr, name, i, a)
  <2>1. PICK rest \in [i + 1..m + 1 -> 0..n] :
          /\ rest[i + 1] = b /\ rest[m + 1] = n
          /\ \A k \in i + 1..m : Piece(expr[k], rest[k], rest[k + 1], name)
    BY <1>1, <1>4 DEF CutFrom
  <2>2. PICK cut : cut = [k \in i..m + 1 |-> IF k = i THEN a ELSE rest[k]]
    OBVIOUS
  <2>3. /\ i \in i..m + 1 /\ i + 1 \in i + 1..m + 1 /\ m + 1 \in i + 1..m + 1
        /\ \A k \in i..m + 1 : k # i => k \in i + 1..m + 1
        /\ \A k \in i + 1..m + 1 : k # i /\ k \in i..m + 1
        /\ \A k \in i..m : k # i => k \in i + 1..m
        /\ \A k \in i + 1..m : k \in i + 1..m + 1 /\ k + 1 \in i + 1..m + 1
    BY <1>2
  <2>4. /\ cut \in [i..m + 1 -> 0..n] /\ cut[i] = a
        /\ \A k \in i + 1..m + 1 : cut[k] = rest[k]
    BY <1>2, <2>2, <2>3
  <2>5. \A k \in i..m : Piece(expr[k], cut[k], cut[k + 1], name)
    BY <1>4, <2>1, <2>3, <2>4
  <2> QED BY <1>1, <2>1, <2>3, <2>4, <2>5 DEF CutFrom
<1> QED BY <1>1, <1>3, <1>4

LEMMA StepIsCut ==
    ASSUME NEW expr, Text(expr), NEW name, Plain(name), NEW f,
           NEW i \in 1..Len(expr) + 1, NEW j \in 1..Len(name) + 1,
           i <= Len(expr) =>
             \A k \in 1..Len(name) + 1 : f[i + 1][k] = Says(expr, name, i + 1, k - 1)
    PROVE  Step(f, expr, name, i, j) = Says(expr, name, i, j - 1)
<1>1. PICK m, n : m = Len(expr) /\ n = Len(name)
  OBVIOUS
<1>2. Text(name) /\ \A k \in 1..n : name[k] # "*" /\ name[k] # "?"
  BY <1>1, TextIs DEF Plain
<1>3. /\ m \in Nat /\ n \in Nat /\ i \in 1..m + 1 /\ j \in 1..n + 1
      /\ \A k \in 1..m : At(expr, k) = expr[k] /\ expr[k] # NUL
      /\ \A k \in 1..n : At(name, k) = name[k] /\ name[k] # NUL
      /\ At(expr, m + 1) = NUL /\ At(name, n + 1) = NUL
  BY <1>1, <1>2, TextIs
<1>4. j - 1 \in 0..n
  BY <1>3
<1>5. CASE i = m + 1
  <2>1. CutFrom(expr, name, i, j - 1) <=> j = n + 1
    BY <1>1, <1>2, <1>3, <1>4, <1>5, CutEnd
  <2>2. CASE j = n + 1
    BY <1>3, <1>5, <2>1, <2>2 DEF Step, Says
  <2>3. CASE j # n + 1
    <3>1. j \in 1..n
      BY <1>3, <2>3
    <3> QED BY <1>3, <1>5, <2>1, <2>3, <3>1, NoEnd DEF Step, Says
  <2> QED BY <2>2, <2>3
<1>6. CASE i # m + 1
  <2>1. i \in 1..m /\ At(expr, i) = expr[i] /\ expr[i] # NUL
    BY <1>3, <1>6
  <2>2. \A k \in 1..n + 1 : f[i + 1][k] = Says(expr, name, i + 1, k - 1)
    BY <1>1, <2>1
  <2>3. CutFrom(expr, name, i, j - 1) <=>
          \E b \in 0..n : Piece(expr[i], j - 1, b, name) /\ CutFrom(expr, name, i + 1, b)
    BY <1>1, <1>2, <1>4, <2>1, CutStep
  <2>4. CASE expr[i] = "*"
    <3>1. At(expr, i) # At(name, j) /\ At(expr, i) = "*"
      <4>1. CASE j \in 1..n
        BY <1>2, <1>3, <2>1, <2>4, <4>1
      <4>2. CASE j = n + 1
        BY <1>3, <2>1, <2>4, <4>2
      <4> QED BY <1>3, <4>1, <4>2
    <3>2. \A b : Piece(expr[i], j - 1, b, name) <=> j - 1 <= b
      BY <2>4 DEF Piece
    <3>3. CutFrom(expr, name, i, j - 1) <=> \E k \in Suffixes(name, j) : f[i + 1][k] = 0
      <4>1. ASSUME NEW b \in 0..n, j - 1 <= b, CutFrom(expr, name, i + 1, b)
            PROVE  \E k \in Suffixes(name, j) : f[i + 1][k] = 0
        <5>1. b + 1 \in j..n + 1 /\ b + 1 \in 1..n + 1 /\ b + 1 - 1 = b
          BY <1>3, <4>1
        <5>2. f[i + 1][b + 1] = Says(expr, name, i + 1, b + 1 - 1)
          BY <2>2, <5>1
        <5> QED BY <1>1, <4>1, <5>1, <5>2 DEF Suffixes, Says
      <4>2. ASSUME NEW k \in Suffixes(name, j), f[i + 1][k] = 0
            PROVE  k - 1 \in 0..n /\ j - 1 <= k - 1 /\ CutFrom(expr, name, i + 1, k - 1)
        <5>1. k \in 1..n + 1 /\ k - 1 \in 0..n /\ j - 1 <= k - 1
          BY <1>1, <1>3, <4>2 DEF Suffixes
        <5> QED BY <2>2, <4>2, <5>1 DEF Says
      <4> QED BY <2>3, <3>2, <4>1, <4>2
    <3> QED BY <1>3, <3>1, <3>3 DEF Step, Says
  <2>5. CASE expr[i] # "*"
    <3>1. \A b \in 0..n : Piece(expr[i], j - 1, b, name) <=>
                            b = j /\ (expr[i] = "?" \/ name[j] = expr[i])
      BY <1>3, <2>5 DEF Piece
    <3>2. CASE j = n + 1
      <4>1. ~CutFrom(expr, name, i, j - 1)
        BY <1>3, <2>3, <3>1, <3>2
      <4>2. At(name, j) = NUL /\ At(expr, i) # NUL /\ At(expr, i) # "*"
        BY <1>3, <2>1, <2>5, <3>2
      <4> QED BY <4>1, <4>2 DEF Step, Says
    <3>3. CASE j # n + 1
      <4>1. j \in 1..n /\ j \in 0..n /\ j + 1 \in 1..n + 1 /\ j + 1 - 1 = j
        BY <1>3, <3>3
      <4>2. At(name, j) = name[j] /\ name[j] # NUL
        BY <1>3, <4>1
      <4>3. CutFrom(expr, name, i, j - 1) <=>
              (expr[i] = "?" \/ name[j] = expr[i]) /\ CutFrom(expr, name, i + 1, j)
        BY <2>3, <3>1, <4>1
      <4>4. f[i + 1][j + 1] = Says(expr, name, i + 1, j)
        BY <2>2, <4>1
      <4>5. CASE expr[i] = "?" \/ name[j] = expr[i]
        BY <2>1, <2>5, <4>2, <4>3, <4>4, <4>5 DEF Step, Says
      <4>6. CASE ~(expr[i] = "?" \/ name[j] = expr[i])
        BY <2>1, <2>5, <4>2, <4>3, <4>6 DEF Step, Says
      <4> QED BY <4>5, <4>6
    <3> QED BY <3>2, <3>3
  <2> QED BY <2>4, <2>5
<1> QED BY <1>5, <1>6

LEMMA TableExists ==
    ASSUME NEW expr, Text(expr), NEW name, Plain(name)
    PROVE  \E f : IsTable(f, expr, name)
<1>1. PICK f : f = [i \in 1..Len(expr) + 1 |-> [j \in 1..Len(name) + 1 |->
                      Says(expr, name, i, j - 1)]]
  OBVIOUS
<1>2. Len(expr) \in Nat /\ Len(name) \in Nat
  BY TextIs DEF Plain
<1>3. ASSUME NEW i \in 1..Len(expr) + 1, NEW j \in 1..Len(name) + 1
      PROVE  Step(f, expr, name, i, j) = Says(expr, name, i, j - 1)
  <2>1. i <= Len(expr) => i + 1 \in 1..Len(expr) + 1
    BY <1>2
  <2>2. i <= Len(expr) =>
          \A k \in 1..Len(name) + 1 : f[i + 1][k] = Says(expr, name, i + 1, k - 1)
    BY <1>1, <2>1
  <2> QED BY <2>2, StepIsCut
<1> QED BY <1>1, <1>3 DEF IsTable

LEMMA TableIsCut ==
    ASSUME NEW expr, Text(expr), NEW name, Plain(name), NEW f, IsTable(f, expr, name)
    PROVE  \A i \in 1..Len(expr) + 1, j \in 1..Len(name) + 1 :
             f[i][j] = Says(expr, name, i, j - 1)
<1>1. PICK m : m = Len(expr)
  OBVIOUS
<1>2. m \in Nat
  BY <1>1, TextIs
<1> DEFINE Right(i) == \A j \in 1..Len(name) + 1 : f[i][j] = Says(expr, name, i, j - 1)
<1>3. \A i \in 1..m + 1, j \in 1..Len(name) + 1 : f[i][j] = Step(f, expr, name, i, j)
  <2>1. PICK g : g = f
    OBVIOUS
  <2>2. g = [i \in 1..m + 1 |-> [j \in 1..Len(name) + 1 |-> Step(f, expr, name, i, j)]]
    BY <1>1, <2>1, Zenon DEF IsTable
  <2>3. \A i \in 1..m + 1, j \in 1..Len(name) + 1 : g[i][j] = Step(f, expr, name, i, j)
    BY <2>2
  <2> QED BY <2>1, <2>3
<1>4. ASSUME NEW i \in 1..m + 1, i <= m => Right(i + 1) PROVE Right(i)
  <2> SUFFICES ASSUME NEW j \in 1..Len(name) + 1 PROVE f[i][j] = Says(expr, name, i, j - 1)
    OBVIOUS
  <2>1. Step(f, expr, name, i, j) = Says(expr, name, i, j - 1)
    BY <1>1, <1>4, StepIsCut
  <2> QED BY <1>3, <2>1
<1> DEFINE Wrong == {d \in Nat : d <= m /\ ~Right(m + 1 - d)}
<1> HIDE DEF Right
<1>5. CASE Wrong # {}
  <2>1. PICK d \in Wrong : \A e \in Wrong : d <= e
    BY <1>5, LeastExists
  <2>2. PICK i : i = m + 1 - d
    OBVIOUS
  <2>3. i \in 1..m + 1 /\ ~Right(i) /\ d \in Nat
    BY <1>2, <2>1, <2>2
  <2>4. i <= m /\ ~Right(i + 1)
    BY <1>4, <2>3
  <2>5. d - 1 \in Nat /\ d - 1 <= m /\ m + 1 - (d - 1) = i + 1 /\ ~(d <= d - 1)
    BY <1>2, <2>2, <2>3, <2>4
  <2>6. d - 1 \in Wrong
    BY <2>4, <2>5
  <2> QED BY <2>1, <2>5, <2>6
<1>6. CASE Wrong = {}
  <2>1. ASSUME NEW i \in 1..m + 1 PROVE Right(i)
    <3>1. m + 1 - i \in Nat /\ m + 1 - i <= m /\ m + 1 - (m + 1 - i) = i
      BY <1>2
    <3> QED BY <1>6, <3>1
  <2> QED BY <1>1, <2>1 DEF Right
<1> QED BY <1>5, <1>6

(* _match decides wildcard expressions: it returns 0 for a name without      *)
(* wildcards just if the name can be cut into one piece for each symbol of   *)
(* the expression, any string for a '*', a symbol for a '?'.                 *)
THEOREM MatchDecidesWildcards ==
    ASSUME NEW expr, Text(expr), NEW name, Plain(name)
    PROVE  _match(expr, name) = 0 <=> WildcardMatches(expr, name)
<1> DEFINE f == CHOOSE g : IsTable(g, expr, name)
<1>1. _match(expr, name) = f[1][1]
  BY MatchIs
<1>2. IsTable(f, expr, name)
  BY TableExists
<1> HIDE DEF f
<1>3. Len(expr) \in Nat /\ Len(name) \in Nat
  BY TextIs DEF Plain
<1>4. 1 \in 1..Len(expr) + 1 /\ 1 \in 1..Len(name) + 1
  BY <1>3
<1>5. f[1][1] = Says(expr, name, 1, 1 - 1) /\ 1 - 1 = 0
  BY <1>2, <1>4, TableIsCut
<1>7. f[1][1] = 0 <=> CutFrom(expr, name, 1, 0)
  BY <1>5 DEF Says
<1> QED BY <1>1, <1>7, WildcardIsCut

(* A comparison of two names says the same whichever of them is the query:   *)
(* a waiting request is compared with a new tuple (blckcmp_str), and a       *)
(* stored tuple with a new query.                                            *)
THEOREM ComparisonIsSymmetric ==
    ASSUME NEW s, NEW t
    PROVE  tplcmp(s, t) = tplcmp(t, s)
  BY DEF tplcmp

LEMMA TextTail ==
    ASSUME NEW s, Text(s), s # <<>>
    PROVE  Text(Tail(s))
  BY HeadTailProperties DEF Text

(* A query that finds a name asks for it.                                    *)
THEOREM ComparisonIsWhatIsAsked ==
    ASSUME NEW query, Text(query), query # <<>>,
           NEW name, Plain(name), name # <<>>, name[1] \notin {":", "!"}
    PROVE  tplcmp(query, name) = 0 <=> Asks(query, name)
<1>1. name # <<"*">>
  BY DEF Plain
<1>2. Text(Tail(query))
  BY TextTail
<1>3. _match(Tail(query), name) = 0 <=> WildcardMatches(Tail(query), name)
  BY <1>2, MatchDecidesWildcards
<1> QED BY <1>1, <1>3 DEF tplcmp, Asks, tplregex

-------------------------------------------------------------------------------
(* Queries and tuples *)

LEMMA MatchIsAsked ==
    ASSUME NEW query, NEW name, <<query, name>> \in Matches
    PROVE  query \in Patterns /\ name \in Names /\ Asks(query, name)
<1>1. query \in Patterns /\ name \in Names /\ tplcmp(query, name) = 0
  BY NamesAssumption DEF TplMatches
<1> QED BY <1>1, NamesAssumption, ComparisonIsWhatIsAsked

LEMMA AskedIsMatch ==
    ASSUME NEW query \in Patterns, NEW name \in Names, Asks(query, name)
    PROVE  <<query, name>> \in Matches
<1>1. tplcmp(query, name) = 0
  BY NamesAssumption, ComparisonIsWhatIsAsked
<1> QED BY <1>1, NamesAssumption DEF TplMatches

(* Who reads or gets by a query waits only while no tuple has a name it asks *)
(* for, and is answered with one that has: named_queue_read_handler and      *)
(* match_blocking_requests, with the names compared as the code does, for    *)
(* names and queries of any length.                                          *)
THEOREM QueriesGetWhatTheyAsk ==
    ASSUME NobodyCloses
    PROVE  Spec => []QueriesMeetTuples
<1>1. ASSUME TsdInv, NoMissedMatch, Phases PROVE QueriesMeetTuples
  <2>1. ASSUME NEW q \in named_queue_requests, NEW t \in named_queue,
               q.cmd \in Reads, q.arg # None, t.name # None, Asks(q.arg, t.name)
        PROVE  FALSE
    <3>1. q.arg \in Patterns /\ t.name \in Names
      BY <1>1, <2>1 DEF TsdInv, TypeOK, Request, Tuple
    <3>2. <<q.arg, t.name>> \in Matches
      BY <2>1, <3>1, AskedIsMatch
    <3> QED BY <1>1, <3>2 DEF NoMissedMatch, RequestMatches
  <2>2. ASSUME NEW c \in Clients, NEW k \in DOMAIN outbox[c],
               outbox[c][k].re = "TsAck", call[c].cmd \in Reads
        PROVE  Asks(call[c].arg, outbox[c][k].name)
    <3>1. pc[c] = "calling"
      <4>1. outbox[c] # <<>> /\ Phase(c)
        BY <1>1, <2>2 DEF Phases
      <4> QED BY <4>1 DEF Phase, New, Between, Idle, Connecting, Connected, Asking, Asked
    <3>2. <<call[c].arg, outbox[c][k].name>> \in Matches
      BY <1>1, <2>2, <3>1, PhasesAgree DEF RepliesInStep
    <3> QED BY <3>2, MatchIsAsked
  <2> QED BY <2>1, <2>2 DEF QueriesMeetTuples
<1> QED BY <1>1, TsdInvariant, NobodyIsMissed, PhaseInvariant, PTL
===============================================================================
