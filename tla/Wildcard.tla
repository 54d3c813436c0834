------------------------------ MODULE Wildcard ------------------------------
(***************************************************************************)
(* The matchers of activable-iam-engine: action_matcher.rs,                *)
(* resource_matcher.rs, and the two shorter ones of                        *)
(* resource_policy_evaluator.rs and dangerous_actions.rs.  A pattern and a *)
(* text are sequences of characters, which are strings of length one.      *)
(***************************************************************************)
EXTENDS Naturals, Sequences

AnyWord == <<"*">>

HasChar(word, char) == \E i \in DOMAIN word : word[i] = char

\* Mutant: a `*` in front of another character stands for one character at least.
GreedyFrom(pattern, text, p, later) ==
    IF p > Len(pattern)
    THEN {Len(text) + 1}
    ELSE IF pattern[p] = "*"
         THEN {t \in 1..Len(text) + 1 : p = Len(pattern) \/ \E next \in later : next > t}
         ELSE {t \in 1..Len(text) : pattern[p] \in {"?", text[t]} /\ t + 1 \in later}

\* The characters of the text from which the pattern matches from its character p on, by those
\* from which it matches from its next one on.
MatchedFrom(pattern, text, p, later) ==
    IF p > Len(pattern)
    THEN {Len(text) + 1}
    ELSE IF pattern[p] = "*"
         THEN {t \in 1..Len(text) + 1 : p = Len(pattern) \/ \E next \in later : next >= t}
         ELSE {t \in 1..Len(text) : pattern[p] \in {"?", text[t]} /\ t + 1 \in later}

\* match_recursive
WildcardMatch(pattern, text) ==
    LET from[p \in 1..Len(pattern) + 1] == MatchedFrom(pattern, text, p, from[p + 1])
    IN  1 \in from[1]

\* What the matchers are for, without their recursion: the text is cut into one piece per
\* character of the pattern, a `*` takes any piece, a `?` one of length one.
Denotes(pattern, text) ==
    \E cut \in [0..Len(pattern) -> 0..Len(text)] :
        /\ cut[0] = 0
        /\ cut[Len(pattern)] = Len(text)
        /\ \A i \in 1..Len(pattern) :
              IF pattern[i] = "*"
              THEN cut[i - 1] <= cut[i]
              ELSE /\ cut[i] = cut[i - 1] + 1
                   /\ pattern[i] \in {"?", text[cut[i]]}

\* A character in lower case; the alphabet of the models has two letters of two cases.
LowerChar(char) == CASE char = "A" -> "a" [] char = "B" -> "b" [] OTHER -> char

Lower(word) == [i \in DOMAIN word |-> LowerChar(word[i])]

\* IAM actions are compared without case.
ActionMatches(pattern, action) ==
    IF HasChar(pattern, "*") \/ HasChar(pattern, "?")
    THEN WildcardMatch(Lower(pattern), Lower(action))
    ELSE Lower(pattern) = Lower(action)

\* ARNs are compared with case.
ResourceMatches(pattern, resource) ==
    \/ pattern = AnyWord
    \/ IF HasChar(pattern, "*") \/ HasChar(pattern, "?")
       THEN WildcardMatch(pattern, resource)
       ELSE pattern = resource

Prefix(pattern) == SelectSeq(
    [i \in DOMAIN pattern |-> IF \E j \in 1..i : pattern[j] = "*" THEN "*" ELSE pattern[i]],
    LAMBDA char : char # "*")

\* Whatever follows the first `*` is passed over, and a `?` is a character like any other.
PrefixMatches(pattern, text) ==
    IF HasChar(pattern, "*")
    THEN /\ Len(Prefix(pattern)) <= Len(text)
         /\ SubSeq(text, 1, Len(Prefix(pattern))) = Prefix(pattern)
    ELSE pattern = text
=============================================================================
