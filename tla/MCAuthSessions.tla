---------------------------- MODULE MCAuthSessions ----------------------------
(* TLC instance of AuthSessions. *)
EXTENDS AuthSessions, TLC
Symmetry == Permutations(Passwords) \cup Permutations(Tokens)
            \cup Permutations(ResetTokens) \cup Permutations(Handlers)

\* Bounds: verification, which touches nothing else, is explored before the
\* first session, and a live token has expired only while the third is unissued.
FewSideShows ==
  /\ (account # None /\ account.verified) \/ On({"verify.write"}) # {}
       => \A t \in Tokens : token[t] = None
  /\ (\E t \in Tokens : Live(t) /\ token[t].expired)
       => Cardinality({t \in Tokens : Live(t) /\ token[t].expired}) = 1
          /\ \E t \in Tokens : token[t] = None
=============================================================================
