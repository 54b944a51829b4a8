-------------------------- MODULE MCCodegenCommit --------------------------
(* c1 and c2 generate the same story, c3 is malformed; o1 is the commit of *)
(* another story, o2 somebody's push to the first story's folder.          *)
EXTENDS CodegenCommit, TLC

CONSTANTS c1, c2, c3, o1, o2, pom, main, tests

MCWrites ==
  c1 :> {pom, main} @@ c2 :> {main} @@ c3 :> {pom, tests}
    @@ o1 :> {tests} @@ o2 :> {main}
=============================================================================
