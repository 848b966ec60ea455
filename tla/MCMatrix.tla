------------------------------- MODULE MCMatrix -------------------------------
(***************************************************************************)
(* Two workers and four parts of three rows, one for the master itself.    *)
(***************************************************************************)
EXTENDS Matrix

CONSTANTS worker1, worker2

MCNames == {BName} \union {_get_name(p) : p \in Parts} \union {_get_name1(p) : p \in Parts}

MCPatterns == MCNames \union {AnyPart}

(* "A_*" as a regular expression: an A and any number of underscores.        *)
MCRegexec(expr, name) == \E k \in DOMAIN name : name[k] = "A"

MCWorkload == [c \in Clients |-> {[cmd |-> "TsTerm", arg |-> None]}]

MCranks == [c \in Clients |-> IF c = worker2 THEN 3 ELSE 2]

(* TLC evaluates these two for all strings of up to four symbols: _match     *)
(* decides wildcard expressions for every name without wildcards, and tplcmp *)
(* says the same whichever argument is the query.                            *)
Strings == UNION {[1..n -> {"x", "y", "*", "?"}] : n \in 0..4}

ASSUME MatchIsWildcard ==
    \A expr \in Strings, name \in Strings :
        Plain(name) => ((_match(expr, name) = 0) <=> WildcardMatches(expr, name))

ASSUME MatchIsSymmetric ==
    \A s, t \in UNION {[1..n -> {"x", "*", "!"}] : n \in 1..4} : tplcmp(s, t) = tplcmp(t, s)
===============================================================================
