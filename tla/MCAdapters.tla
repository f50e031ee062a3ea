------------------------------- MODULE MCAdapters -------------------------------
EXTENDS Adapters

\* A fixture check, the oracle of a workload three families measure, and the
\* oracle of one only Rust measures.
MCSuspects == {Check("fk"), Check("jacobian"), Measure("inertia"), Measure("motors256")}
================================================================================
