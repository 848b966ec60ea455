------------------------------ MODULE TupleMatch ------------------------------
(***************************************************************************)
(* How tuple names are compared (tuple_utils.h).  A name is a sequence of  *)
(* symbols; a query's name may be a pattern: "*" for any tuple, ":" and a  *)
(* regular expression, or "!" and a wildcard expression.  As in C, a       *)
(* comparison is 0 when the two match.                                     *)
(***************************************************************************)
EXTENDS Integers, Sequences

CONSTANT Regexec(_, _)  (* regexec finds the expression somewhere in the name *)

(* The character of s at place k; the one behind the last ends the string.   *)
NUL == ""

At(s, k) == IF k <= Len(s) THEN s[k] ELSE NUL

(* _match(&expr[i], &name[j]).  Equal characters are skipped first, a '*' or *)
(* '?' of the name included; then '?' skips one character, and '*' is tried  *)
(* with every suffix of the name, the empty one too.  A variant tries '*'    *)
(* with at least one character.                                              *)
SuffixesAfter(name, j) == (j + 1)..(Len(name) + 1)

Suffixes(name, j) == j..(Len(name) + 1)

_match(expr, name) ==
    LET from[i \in 1..Len(expr) + 1] ==
            [j \in 1..Len(name) + 1 |->
                IF At(expr, i) = At(name, j)
                THEN IF At(name, j) = NUL THEN 0 ELSE from[i + 1][j + 1]
                ELSE CASE At(expr, i) = "?" /\ At(name, j) # NUL -> from[i + 1][j + 1]
                       [] At(expr, i) = "*" ->
                            IF \E k \in Suffixes(name, j) : from[i + 1][k] = 0 THEN 0 ELSE 1
                       [] OTHER -> 1]
    IN  from[1][1]

(* tplregex: an expression that does not compile would match nothing.        *)
tplregex(query, name) == IF Regexec(Tail(query), name) THEN 0 ELSE 1

(* tplcmp for two names, each at least one symbol long and neither of an     *)
(* anonymous tuple.  The expression of a ':' or a '!' counts when the other  *)
(* side is not of its kind.                                                  *)
tplcmp(name1, name2) ==
    IF name1 = <<"*">> \/ name2 = <<"*">> THEN 0
    ELSE IF name1[1] = ":" /\ name2[1] # ":" THEN tplregex(name1, name2)
    ELSE IF name1[1] # ":" /\ name2[1] = ":" THEN tplregex(name2, name1)
    ELSE IF name2[1] = "!" /\ name1[1] # "!" THEN _match(Tail(name2), name1)
    ELSE IF name1[1] = "!" /\ name2[1] # "!" THEN _match(Tail(name1), name2)
    ELSE IF name1 = name2 THEN 0 ELSE 1

-------------------------------------------------------------------------------
(* Strings, and those without wildcards.                                     *)
Symbols == STRING \ {NUL}

Text(s) == s \in Seq(Symbols)

Plain(s) == Text(s) /\ \A k \in DOMAIN s : s[k] \notin {"*", "?"}

(* The wildcard expressions by what they mean: a way to cut the name into    *)
(* one piece for each symbol of the expression, so that a piece for '*' is   *)
(* any string, one for '?' is a single symbol and any other is its symbol.   *)
(* cut[k] is the number of symbols of the name before the k-th piece.        *)
WildcardMatches(expr, name) ==
    \E cut \in [1..Len(expr) + 1 -> 0..Len(name)] :
        /\ cut[1] = 0
        /\ cut[Len(expr) + 1] = Len(name)
        /\ \A k \in DOMAIN expr :
              CASE expr[k] = "*" -> cut[k] <= cut[k + 1]
                [] expr[k] = "?" -> cut[k + 1] = cut[k] + 1
                [] OTHER -> cut[k + 1] = cut[k] + 1 /\ name[cut[k + 1]] = expr[k]

(* What a query asks for.                                                    *)
Asks(query, name) ==
    CASE query = <<"*">>  -> TRUE
      [] query[1] = ":"   -> Regexec(Tail(query), name)
      [] query[1] = "!"   -> WildcardMatches(Tail(query), name)
      [] OTHER            -> query = name
===============================================================================
