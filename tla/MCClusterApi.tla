---------------------------- MODULE MCClusterApi ----------------------------
(***************************************************************************)
(* Two calls to two nodes: a test, and one more call of any kind, which may *)
(* be about the test.                                                      *)
(***************************************************************************)
EXTENDS ClusterApi

CONSTANTS n1, n2, c1, c2

Test == {[op |-> "test", checks |-> <<ok>>, query |-> NoParams] : ok \in BOOLEAN}
Tests == [op : {"tests"}, checks : {<<TRUE, TRUE>>, <<TRUE, FALSE>>},
          query : {NoParams}]
Stop == [op |-> "stop", checks |-> <<>>, query |-> NoParams]
Upload == [op |-> "upload", checks |-> <<>>, query |-> NoParams]
Status ==
  [op : {"status"}, checks : {<<>>},
   query : {[job_id |-> 1, offset |-> None, limit |-> None]}
             \cup [job_id : {None}, offset : {None, Bad, 1},
                   limit : {None, 0, 1}]]

\* c1 starts a test or several, c2 is any call.
SmallWorkloads ==
  {[c \in Call |-> IF c = c1 THEN first ELSE second] :
     first \in Test \cup Tests,
     second \in Test \cup Tests \cup {Stop, Upload} \cup Status}

\* No definition names a node.
NodeSymmetry == Permutations(Node)
=============================================================================
