----------------------------- MODULE CallGraph -----------------------------
(* Who is affected when functions change: the recursive query of             *)
(* internal/impact/store.go over call_edges, whose pairs are caller and      *)
(* callee.                                                                   *)
EXTENDS Naturals

\* Rows of the recursion by depth.  A row carries its depth, so that UNION
\* removes duplicates within a level only and a cycle is followed round and
\* round up to the bound.
Levels(edges, changed, bound) ==
  LET level[d \in 0..bound] ==
        IF d = 0 THEN changed
        ELSE {e[1] : e \in {e \in edges : e[2] \in level[d - 1]}}
  IN  level

\* MAX(depth) per function; Analyze leaves out those of depth 0.
GetCallersByDepth(edges, changed, bound) ==
  LET level    == Levels(edges, changed, bound)
      depths(f) == {d \in DOMAIN level : f \in level[d]}
      longest(f) == CHOOSE d \in depths(f) : \A c \in depths(f) : c <= d
  IN  {<<f, longest(f)>> : f \in UNION {level[d] : d \in 1..bound}}

\* What "callers up to a depth" means: the ends of chains of calls that lead
\* to a changed function.
Chain(edges, walk, n) == \A i \in 1..n : <<walk[i], walk[i - 1]>> \in edges
ChainLengths(edges, changed, bound, nodes, f) ==
  {n \in 1..bound :
     \E walk \in [0..n -> nodes] :
       walk[0] \in changed /\ walk[n] = f /\ Chain(edges, walk, n)}
=============================================================================
