------------------------------- MODULE MCShootout -------------------------------
EXTENDS Shootout

Timing(id, ns) == [id |-> id, flat |-> FALSE, status |-> "supported", ns |-> ns]
Older(id, ns) == [id |-> id, flat |-> TRUE, status |-> "", ns |-> ns]
Unsupported(id) == [id |-> id, flat |-> FALSE, status |-> "unsupported", ns |-> NoTime]

MCContractIds == <<"a", "b">>

Failing == [Nothing EXCEPT !.exit = FALSE]
NoBundle == {Nothing, [Nothing EXCEPT !.text = "garbage"], [Nothing EXCEPT !.text = "other"]}

\* Rows of either shape, a workload twice, one only this member has, timings of
\* zero and less, none at all, a row without a key, and a time that is no number,
\* in the last word on a workload and in one that is replaced.
MCNative ==
    NoBundle \cup {Failing}
    \cup {Bundle(rows) : rows \in {
            <<>>, <<Timing("a", 1), Unsupported("b")>>, <<Older("a", 2), Timing("b", NoTime)>>,
            <<Timing("a", 2), Timing("a", 1)>>, <<Timing("c", 1), Older("b", 0)>>,
            <<Timing("a", 1), Timing(NoKey, 1)>>, <<Older("a", -1), Older("b", -2)>>,
            <<Older("a", Malformed), Timing("a", 3)>>, <<Timing("b", Malformed)>>}}

MCBench ==
    NoBundle \cup {Failing}
    \cup {Bundle(rows) : rows \in {
            <<Timing("a", 3), Unsupported("b")>>, <<Timing("b", 1)>>, <<Timing(NoKey, 1)>>,
            <<Older("a", Malformed)>>}}
================================================================================
