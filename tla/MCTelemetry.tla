---------------------------- MODULE MCTelemetry ----------------------------
(* Telemetry for TLC. *)
EXTENDS Telemetry, TLC

\* Snapshots of a clock ahead by less and by more than the tolerance, and of figures the
\* API refuses; without a value where the run is not about rules.
Reads(value, skew, bad) == [value |-> value, skew |-> skew, bad |-> bad]

Uploads == {Reads(None, 2, FALSE), Reads(None, 0, TRUE)}
Values  == {Reads(2, 0, FALSE), Reads(2, 1, FALSE), Reads(0, 0, FALSE)}

\* Rules that trigger on high values, twice in a row, and on low ones, at once.
High    == [operator |-> "greaterThanOrEqual", threshold |-> 2, recovery |-> 1, required |-> 2]
Low     == [operator |-> "lessThan", threshold |-> 1, recovery |-> None, required |-> 1]
OneRule == {Low}
Rules   == {High, Low}

\* Requests differ in nothing but their names.
Symmetry == Permutations(Request)

=============================================================================
