--------------------------- MODULE MCJobRegistry ---------------------------
(***************************************************************************)
(* Instances of JobRegistry: the two jobs of a multi-request, and one id   *)
(* that is submitted twice.                                                *)
(***************************************************************************)
EXTENDS JobRegistry

\* The ids m_0 and m_1 of a multi-request m: a stop names m, m_0 or m_1.
MultiJob == [t \in Task |-> IF t = "first" THEN "m_0" ELSE "m_1"]

\* One id, submitted again.
SameJob == [t \in Task |-> "m_0"]

BothJobs == {MultiJob, SameJob}
OneJob == {SameJob}

MultiStop == {{"m_0"}, {"m_1"}, {"m_0", "m_1"}}
SameStop == {{"m_0"}}
=============================================================================
