---------------------------- MODULE MCQueryClient ----------------------------
(* Instances of QueryClient for TLC. *)
EXTENDS QueryClient

CONSTANTS c1, c2, d1, p1, p2, s1, s2

ToS1 == [d \in Domains |-> s1]

(* Answers that refer back and forth.  One that names the server that is    *)
(* asked ends the search as one without a referral does.                    *)
AnswersBothWays ==
  {[registrar |-> None, whois |-> s2], [registrar |-> s1, whois |-> None]}

Symmetry == Permutations(Callers)

FilesTwoOrNone == {<<p1, p2>>, <<>>}
==============================================================================
