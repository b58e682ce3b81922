----------------------------- MODULE MCIndexRun -----------------------------
(* Small instances of IndexRun: two files, and what is written to them.     *)
EXTENDS IndexRun, TLC

CONSTANTS f1, f2, a, b, x, j1, j2, j3

Def(name, first, last) == [name |-> name, first |-> first, last |-> last]
Calling(target, line)  == [target |-> target, line |-> line]

\* A function that calls b.
FuncA == [defs |-> <<Def(a, 1, 2)>>, calls |-> <<Calling(b, 1)>>]

\* A function that calls a and an external x; then the same with a call made
\* by an arrow function inside it; and a text that defines b twice.
FuncB == [defs  |-> <<Def(b, 1, 2)>>,
          calls |-> <<Calling(a, 1), Calling(x, 2)>>]
ArrowInB == [defs  |-> <<Def(b, 1, 4), Def(NoName, 2, 3)>>,
             calls |-> <<Calling(x, 2), Calling(a, 4)>>]
TwoBs == [defs  |-> <<Def(b, 1, 2), Def(b, 3, 4)>>, calls |-> << >>]

\* Defines a as well, so that its calls are ambiguous.
AlsoA == [defs  |-> <<Def(a, 1, 2), Def(b, 3, 4)>>,
          calls |-> <<Calling(a, 2), Calling(a, 3)>>]

\* Each file defines a function that calls the other's.
Mutual == (f1 :> [t \in 1..MaxWrites |-> FuncA])
       @@ (f2 :> [t \in 1..MaxWrites |-> FuncB])

\* As Mutual, but the second file does not stay the same.
Edited == (f1 :> [t \in 1..MaxWrites |-> FuncA])
       @@ (f2 :> [t \in 1..MaxWrites |-> CASE t = 1 -> FuncB
                                            [] t = 2 -> TwoBs
                                            [] OTHER -> ArrowInB])

Ambiguous == (f1 :> [t \in 1..MaxWrites |-> FuncA])
          @@ (f2 :> [t \in 1..MaxWrites |-> AlsoA])

Store      == {"store"}
StoreCrash == {"store", "crash"}
Parse      == {"parse"}
None       == {}

Full       == {"full"}
Default    == {"default"}
FullOrDefault == {"full", "default"}
AnyKind    == FullOrDefault \cup {"incremental"}
=============================================================================
