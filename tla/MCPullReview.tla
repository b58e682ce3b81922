---------------------------- MODULE MCPullReview ----------------------------
(* Small instances of PullReview: three functions, the first of them in a    *)
(* file of the root, the others one directory below.                         *)
EXTENDS PullReview, TLC

CONSTANTS r1

Fn(file, name) == [file |-> file, name |-> name]
save == Fn(<<"h">>, "save")
load == Fn(<<"api", "h">>, "load")
main == Fn(<<"api", "m">>, "main")
Three == {save, load, main}

\* load and main call save, main also by way of load; or two call each other
\* and are called by the third; or one calls itself.
Diamond == {<<load, save>>, <<main, load>>, <<main, save>>}
Cycle   == {<<load, save>>, <<save, load>>, <<main, load>>}
Loop    == {<<save, save>>, <<main, load>>}
Shapes  == {Diamond, Cycle, Loop}

\* An absolute path, and a relative one that is a prefix of a file's name.
AnyRoot      == {<<"srv", "api">>, <<"api">>}
AbsoluteRoot == {<<"srv", "api">>}
=============================================================================
