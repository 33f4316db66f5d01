------------------------------ MODULE MCPlanner -----------------------------
(* Sets of operations on which TLC checks CyclePlanner. *)
EXTENDS CyclePlanner

CONSTANTS k1, k2

KeySet == {k1, k2}
IdSet  == {"x", "y"}
AnyOf3 == <<KeySet, KeySet, KeySet>>

\* /a: incremental, publishes x; /b/{x}: one-shot, publishes y, accepts only k1;
\* /c/{x}/{y}: full-reload; /d: one-shot, without its auth variable.
\* Producers sort before consumers.
SortedModes     == <<"incremental", "one_shot", "full_reload", "one_shot">>
SortedParams    == <<{}, {"x"}, {"x", "y"}, {}>>
SortedPublishes == <<{"x"}, {"y"}, {}, {}>>
SortedFilter    == <<KeySet, {k1}, KeySet, {}>>

\* /a/{x}: full-reload, publishes y; /b: incremental, publishes x;
\* /c/{y}: one-shot, publishes x.  A consumer sorts before its producer, and
\* the operations depend on each other in a cycle.
TangledModes     == <<"full_reload", "incremental", "one_shot">>
TangledParams    == <<{"x"}, {}, {"y"}>>
TangledPublishes == <<{"y"}, {"x"}, {"x"}>>

\* A single operation without parameters.
ReloadModes == <<"full_reload">>
NoParams    == <<{}>>
AnyOf1      == <<KeySet>>
=============================================================================
