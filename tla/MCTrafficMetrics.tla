-------------------------- MODULE MCTrafficMetrics --------------------------
(* Instances of TrafficMetrics for TLC. *)
EXTENDS TrafficMetrics

CONSTANTS a1, a2, h1, h2, l1, x1, n1, Null, Dash

\* A large transfer that failed, and a small one whose answer has no size.
Flows == {[orig |-> 5, resp |-> 2, missed |-> 1, failed |-> TRUE],
          [orig |-> 1, resp |-> Dash, missed |-> Dash, failed |-> FALSE]}
\* Rows of all kinds of ends; two of them are cut short.
Ends == ({h1, h2, l1, x1} \X {h1, l1, x1}) \cup {<<Dash, h1>>, <<h2, Dash>>}
FewRows == {[src |-> e[1], dst |-> e[2]] @@ f : e \in Ends, f \in Flows}

Interchangeable == Permutations({a1, a2})

=============================================================================
