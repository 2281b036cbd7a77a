-------------------------- MODULE MCPostEngagement --------------------------
(* TLC instance of PostEngagement: every post is written by the first user. *)
EXTENDS PostEngagement, TLC

CONSTANTS u1, p1
MCAuthor == [p \in Posts |-> u1]
Symmetry == Permutations(Handlers) \cup Permutations(Comments)

\* The other posts are there for the comments that name a parent elsewhere:
\* no reaction, reply, failure or removal of theirs is explored.
OtherPostsOnlyHoldComments ==
  \A p \in Posts \ {p1} :
    /\ On(p, ReactPCs) = {} /\ reactors[p] = {}
    /\ failures[p] = 0 /\ p \notin deleted
    /\ On(p, {"post.delete", "comment.parent", "remove.tally"}) = {}
=============================================================================
