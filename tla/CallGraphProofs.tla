--------------------------- MODULE CallGraphProofs ---------------------------
(***************************************************************************)
(* The recursive query of internal/impact/store.go computes what it is     *)
(* meant to, on any graph, with cycles or without, and for any bound: the  *)
(* ends of chains of calls, each with the length of the longest.           *)
(***************************************************************************)
EXTENDS CallGraph, NaturalOrder

Callers(edges, S) == {e[1] : e \in {e \in edges : e[2] \in S}}

-----------------------------------------------------------------------------
(* The recursion.                                                           *)

\* Every level but the first is computed from the one before.
IsLevels(level, edges, changed, n) ==
  /\ level[0] = changed
  /\ \A d \in 1..n : level[d] = Callers(edges, level[d - 1])

LEMMA LevelsExist ==
  ASSUME NEW edges, NEW changed, NEW bound \in Nat
  PROVE  \E level : level = [d \in 0..bound |->
                       IF d = 0 THEN changed ELSE Callers(edges, level[d - 1])]
<1> DEFINE all  == SUBSET (changed \cup {e[1] : e \in edges})
           good == {n \in Nat : \E level \in [0..n -> all] :
                                  IsLevels(level, edges, changed, n)}
<1>1. 0 \in good
  <2> DEFINE level == [d \in 0..0 |-> changed]
  <2>1. level \in [0..0 -> all] /\ IsLevels(level, edges, changed, 0)
    BY DEF IsLevels
  <2>. QED BY <2>1
<1>2. ASSUME NEW n \in Nat, n \in good PROVE n + 1 \in good
  <2>1. PICK level \in [0..n -> all] : IsLevels(level, edges, changed, n)
    BY <1>2
  <2> DEFINE longer == [d \in 0..(n + 1) |->
                          IF d <= n THEN level[d] ELSE Callers(edges, level[n])]
  <2>2. Callers(edges, level[n]) \in all
    BY DEF Callers
  <2>3. longer \in [0..(n + 1) -> all]
    BY <2>1, <2>2
  <2>4. IsLevels(longer, edges, changed, n + 1)
    <3>1. longer[0] = changed
      BY <2>1 DEF IsLevels
    <3>2. ASSUME NEW d \in 1..(n + 1)
          PROVE  longer[d] = Callers(edges, longer[d - 1])
      <4>1. CASE d = n + 1
        BY <4>1
      <4>2. CASE d # n + 1
        <5>1. /\ d \in 1..n /\ d \in 0..(n + 1) /\ d - 1 \in 0..(n + 1)
              /\ d <= n /\ d - 1 <= n
          BY <4>2
        <5>2. longer[d] = level[d] /\ longer[d - 1] = level[d - 1]
          BY <5>1
        <5>. QED BY <2>1, <5>1, <5>2 DEF IsLevels
      <4>. QED BY <4>1, <4>2
    <3>. QED BY <3>1, <3>2 DEF IsLevels
  <2>. QED BY <2>3, <2>4
<1>3. bound \in good
  <2> HIDE DEF good
  <2>. QED BY <1>1, <1>2, SuccessorsHeld
<1>4. PICK level \in [0..bound -> all] : IsLevels(level, edges, changed, bound)
  BY <1>3
<1>5. level = [d \in 0..bound |->
                 IF d = 0 THEN changed ELSE Callers(edges, level[d - 1])]
  BY <1>4 DEF IsLevels
<1>. QED BY <1>5

LEMMA LevelsAre ==
  ASSUME NEW edges, NEW changed, NEW bound \in Nat
  PROVE  LET level == Levels(edges, changed, bound)
         IN  DOMAIN level = 0..bound /\ IsLevels(level, edges, changed, bound)
<1> DEFINE IsFix(g) == g = [d \in 0..bound |->
                         IF d = 0 THEN changed ELSE Callers(edges, g[d - 1])]
           level == Levels(edges, changed, bound)
<1>1. level = CHOOSE g : IsFix(g)
  BY DEF Levels, Callers
<1>2. IsFix(level)
  BY <1>1, LevelsExist
<1> HIDE DEF level
<1>3. DOMAIN level = 0..bound /\ level[0] = changed
  BY <1>2
<1>4. ASSUME NEW d \in 1..bound PROVE level[d] = Callers(edges, level[d - 1])
  BY <1>2
<1>. QED BY <1>3, <1>4 DEF IsLevels, level

-----------------------------------------------------------------------------
(* Levels and chains of calls.                                              *)

Reaches(edges, changed, nodes, f, n) ==
  \E walk \in [0..n -> nodes] :
    walk[0] \in changed /\ walk[n] = f /\ Chain(edges, walk, n)

LEMMA NoCallReaches ==
  ASSUME NEW nodes, NEW changed \in SUBSET nodes, NEW edges, NEW f
  PROVE  f \in changed <=> Reaches(edges, changed, nodes, f, 0)
<1>1. ASSUME f \in changed PROVE Reaches(edges, changed, nodes, f, 0)
  <2> DEFINE walk == [i \in 0..0 |-> f]
  <2>1. /\ walk \in [0..0 -> nodes] /\ walk[0] \in changed /\ walk[0] = f
        /\ Chain(edges, walk, 0)
    BY <1>1 DEF Chain
  <2>. QED BY <2>1 DEF Reaches
<1>2. ASSUME Reaches(edges, changed, nodes, f, 0) PROVE f \in changed
  BY <1>2 DEF Reaches
<1>. QED BY <1>1, <1>2

\* A chain is a call and a chain that is shorter by one.
LEMMA OneCallMore ==
  ASSUME NEW nodes, NEW edges \in SUBSET (nodes \X nodes), NEW changed,
         NEW f, NEW n \in Nat
  PROVE  Reaches(edges, changed, nodes, f, n + 1) <=>
           \E e \in edges : /\ e[1] = f
                            /\ Reaches(edges, changed, nodes, e[2], n)
<1>1. ASSUME NEW e \in edges, Reaches(edges, changed, nodes, e[2], n)
      PROVE  Reaches(edges, changed, nodes, e[1], n + 1)
  <2>1. PICK walk \in [0..n -> nodes] :
          walk[0] \in changed /\ walk[n] = e[2] /\ Chain(edges, walk, n)
    BY <1>1 DEF Reaches
  <2>2. e[1] \in nodes /\ e = <<e[1], e[2]>>
    OBVIOUS
  <2> DEFINE longer == [i \in 0..(n + 1) |-> IF i <= n THEN walk[i] ELSE e[1]]
  <2>3. /\ longer \in [0..(n + 1) -> nodes]
        /\ longer[0] = walk[0] /\ longer[n] = walk[n] /\ longer[n + 1] = e[1]
    BY <2>1, <2>2
  <2>4. ASSUME NEW i \in 1..(n + 1)
        PROVE  <<longer[i], longer[i - 1]>> \in edges
    <3>1. CASE i = n + 1
      BY <2>1, <2>2, <2>3, <3>1
    <3>2. CASE i # n + 1
      <4>1. /\ i \in 1..n /\ i \in 0..(n + 1) /\ i - 1 \in 0..(n + 1)
            /\ i <= n /\ i - 1 <= n
        BY <3>2
      <4>2. longer[i] = walk[i] /\ longer[i - 1] = walk[i - 1]
        BY <4>1
      <4>. QED BY <2>1, <4>1, <4>2 DEF Chain
    <3>. QED BY <3>1, <3>2
  <2> HIDE DEF longer
  <2>5. Chain(edges, longer, n + 1)
    BY <2>4 DEF Chain
  <2>. QED BY <2>1, <2>3, <2>5 DEF Reaches
<1>2. ASSUME Reaches(edges, changed, nodes, f, n + 1)
      PROVE  \E e \in edges : /\ e[1] = f
                              /\ Reaches(edges, changed, nodes, e[2], n)
  <2>1. PICK walk \in [0..(n + 1) -> nodes] :
          /\ walk[0] \in changed /\ walk[n + 1] = f
          /\ Chain(edges, walk, n + 1)
    BY <1>2 DEF Reaches
  <2> DEFINE shorter == [i \in 0..n |-> walk[i]]
  <2>2. /\ shorter \in [0..n -> nodes] /\ shorter[0] = walk[0]
        /\ shorter[n] = walk[n]
    BY <2>1
  <2>3. ASSUME NEW i \in 1..n PROVE <<shorter[i], shorter[i - 1]>> \in edges
    BY <2>1 DEF Chain
  <2>4. <<f, walk[n]>> \in edges
    <3>1. n + 1 \in 1..(n + 1) /\ (n + 1) - 1 = n
      OBVIOUS
    <3>. QED BY <2>1, <3>1 DEF Chain
  <2> HIDE DEF shorter
  <2>5. Reaches(edges, changed, nodes, walk[n], n)
    BY <2>1, <2>2, <2>3 DEF Reaches, Chain
  <2>. QED BY <2>4, <2>5
<1>. QED BY <1>1, <1>2

LEMMA LevelsReach ==
  ASSUME NEW nodes, NEW edges \in SUBSET (nodes \X nodes),
         NEW changed \in SUBSET nodes, NEW bound \in Nat, NEW d \in 0..bound
  PROVE  Levels(edges, changed, bound)[d]
           = {f \in nodes : Reaches(edges, changed, nodes, f, d)}
<1> DEFINE level == Levels(edges, changed, bound)
           reached(n) == {f \in nodes : Reaches(edges, changed, nodes, f, n)}
           good == {n \in Nat : n <= bound => level[n] = reached(n)}
<1>1. /\ level[0] = changed
      /\ \A n \in 1..bound : level[n] = Callers(edges, level[n - 1])
  BY LevelsAre DEF IsLevels
<1> HIDE DEF level
<1>2. 0 \in good
  BY <1>1, NoCallReaches
<1>3. ASSUME NEW n \in Nat, n \in good PROVE n + 1 \in good
  <2> SUFFICES ASSUME n + 1 <= bound PROVE level[n + 1] = reached(n + 1)
    OBVIOUS
  <2>1. level[n + 1] = Callers(edges, level[n]) /\ level[n] = reached(n)
    BY <1>1, <1>3
  <2>2. \A f : f \in Callers(edges, reached(n)) <=> f \in reached(n + 1)
    BY OneCallMore DEF Callers
  <2>. QED BY <2>1, <2>2
<1>4. d \in good
  <2> HIDE DEF good
  <2>. QED BY <1>2, <1>3, SuccessorsHeld
<1>. QED BY <1>4 DEF level

-----------------------------------------------------------------------------
(* The longest chain.                                                       *)

LEMMA GreatestNatural ==
  ASSUME NEW bound \in Nat, NEW S \in SUBSET (0..bound), S # {}
  PROVE  \E m \in S : \A k \in S : k <= m
<1> DEFINE below == {bound - k : k \in S}
<1>1. below \subseteq Nat /\ below # {}
  <2>1. \A k \in S : k \in Nat /\ k <= bound /\ bound - k \in Nat
    OBVIOUS
  <2>. QED BY <2>1
<1>2. PICK b \in below : \A c \in below : b <= c
  BY <1>1, LeastNatural
<1>3. PICK m \in S : b = bound - m
  OBVIOUS
<1>4. ASSUME NEW k \in S PROVE k <= m
  <2>1. bound - k \in below
    OBVIOUS
  <2>. QED BY <1>2, <1>3, <2>1
<1>. QED BY <1>4

\* The query answers the ends of the chains of one call or more that lead to a
\* changed function, each with the length of its longest within the bound.
THEOREM CallersExact ==
  ASSUME NEW nodes, NEW edges \in SUBSET (nodes \X nodes),
         NEW changed \in SUBSET nodes, NEW bound \in Nat
  PROVE  /\ GetCallersByDepth(edges, changed, bound) \subseteq nodes \X (1..bound)
         /\ \A f \in nodes, d \in 1..bound :
              LET lengths == ChainLengths(edges, changed, bound, nodes, f)
              IN  <<f, d>> \in GetCallersByDepth(edges, changed, bound) <=>
                    d \in lengths /\ \A n \in lengths : n <= d
<1> DEFINE level      == Levels(edges, changed, bound)
           lengths(f) == ChainLengths(edges, changed, bound, nodes, f)
           depths(f)  == {d \in DOMAIN level : f \in level[d]}
           longest(f) == CHOOSE d \in depths(f) : \A c \in depths(f) : c <= d
           callers    == UNION {level[d] : d \in 1..bound}
<1>1. GetCallersByDepth(edges, changed, bound)
        = {<<f, longest(f)>> : f \in callers}
  BY DEF GetCallersByDepth
<1>2. /\ DOMAIN level = 0..bound
      /\ \A d \in 0..bound :
           level[d] = {f \in nodes : Reaches(edges, changed, nodes, f, d)}
  BY LevelsAre, LevelsReach
<1> HIDE DEF level
<1>3. \A f \in nodes : lengths(f) = {n \in 1..bound : f \in level[n]}
  BY <1>2 DEF ChainLengths, Reaches
<1>4. \A f \in nodes : lengths(f) = depths(f) \ {0} /\ depths(f) \subseteq 0..bound
  BY <1>2, <1>3
<1>5. \A f : f \in callers <=> f \in nodes /\ lengths(f) # {}
  BY <1>2, <1>3
<1> HIDE DEF lengths, depths, callers
<1>6. ASSUME NEW f \in callers
      PROVE  longest(f) \in lengths(f) /\ \A n \in lengths(f) : n <= longest(f)
  <2>1. depths(f) \subseteq 0..bound /\ depths(f) # {}
    BY <1>4, <1>5
  <2>2. \E d \in depths(f) : \A c \in depths(f) : c <= d
    BY <2>1, GreatestNatural
  <2>3. longest(f) \in depths(f) /\ \A c \in depths(f) : c <= longest(f)
    BY <2>2
  <2> HIDE DEF longest
  <2>4. PICK n \in lengths(f) : n \in depths(f) /\ n # 0
    BY <1>4, <1>5
  <2>5. longest(f) # 0
    BY <2>1, <2>3, <2>4
  <2>. QED BY <1>4, <1>5, <2>3, <2>5
<1>7. \A f \in callers : longest(f) \in 1..bound
  BY <1>3, <1>5, <1>6
<1> HIDE DEF longest
<1>8. GetCallersByDepth(edges, changed, bound) \subseteq nodes \X (1..bound)
  BY <1>1, <1>5, <1>7
<1>9. ASSUME NEW f \in nodes, NEW d \in 1..bound
      PROVE  <<f, d>> \in GetCallersByDepth(edges, changed, bound) <=>
               d \in lengths(f) /\ \A n \in lengths(f) : n <= d
  <2>1. <<f, d>> \in GetCallersByDepth(edges, changed, bound) <=>
          f \in callers /\ d = longest(f)
    BY <1>1
  <2>2. ASSUME d \in lengths(f), \A n \in lengths(f) : n <= d
        PROVE  f \in callers /\ d = longest(f)
    <3>1. f \in callers
      BY <1>5, <2>2
    <3>2. longest(f) \in lengths(f) /\ d <= longest(f) /\ longest(f) <= d
      BY <1>6, <2>2, <3>1
    <3>. QED BY <1>7, <3>1, <3>2
  <2>. QED BY <1>6, <2>1, <2>2
<1>. QED BY <1>8, <1>9 DEF lengths
=============================================================================
