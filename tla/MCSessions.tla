----------------------------- MODULE MCSessions -----------------------------
(* Sessions for TLC.                                                       *)
EXTENDS Sessions

\* k of the sessions, their activity, and the bounds.
Activity(k, does, a, s, c, f) ==
  [by |-> CHOOSE b \in SUBSET Sessions : Cardinality(b) = k,
   does |-> does, asks |-> a, shares |-> s, controls |-> c, faults |-> f]

\* Two sessions that receive, also while one leaves or gives up; one that
\* fetches what it is told of, while answers are lost or the call ends; one
\* whose bridge watches the call.
AllWorkloads ==
  {Activity(2, "recv", 3, 2, 0, 0),
   Activity(2, "recv", 3, 1, 1, 0),
   Activity(2, "recv", 2, 2, 0, 1),
   Activity(1, "fetch", 2, 2, 0, 1),
   Activity(1, "fetch", 1, 1, 2, 0),
   Activity(1, "watch", 0, 0, 2, 0)}
============================================================================
