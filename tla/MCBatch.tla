------------------------------- MODULE MCBatch -------------------------------
(* Batches for TLC. *)
EXTENDS Batch

Does(kind, expect) == [kind |-> kind, expect |-> expect, captures |-> FALSE, needs |-> {}]

\* A value is captured and asserted on, then the target is run; the cleanup restores by the
\* captured value and runs the target again.
Patch == [steps  |-> <<[Does("query", <<"eval", "eval">>) EXCEPT !.captures = TRUE],
                       Does("execution", <<"text">>)>>,
          always |-> <<[Does("query", <<"eval", "eval">>) EXCEPT !.needs = {<<"steps", 1>>}],
                       Does("execution", <<>>)>>]

\* A run whose assertion asks the engine, and a cleanup that lets the target go.
Release == [steps  |-> <<Does("execution", <<"eval">>)>>,
            always |-> <<Does("release", <<>>), Does("query", <<>>)>>]

\* Nothing to undo.
Bare == [steps |-> <<Does("release", <<>>), Does("query", <<>>)>>, always |-> <<>>]

MCPlans == {Patch, Release, Bare}
==============================================================================
