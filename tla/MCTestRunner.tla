---------------------------- MODULE MCTestRunner ----------------------------
(***************************************************************************)
(* Instances of TestRunner for TLC: three units, with a sanity test each   *)
(* of two groups, a brute-force test and a performance group that two      *)
(* units contribute to.                                                    *)
(***************************************************************************)
EXTENDS TestRunner

MCUnits == [vector |-> <<"vector", "perf_vector">>,
            list   |-> <<"list", "perf_vector_bis">>,
            cvt    |-> <<"brute_cvt">>]

MCCategory == [t \in Tests |->
  CASE t \in {"vector", "list"} -> ""
    [] t = "brute_cvt" -> "1-bruteforce"
    [] OTHER -> "2-perf"]

MCGroup == [t \in Tests |->
  CASE t = "list" -> "list"
    [] t = "brute_cvt" -> "string"
    [] OTHER -> "vector"]

MCSortedNames == <<"", "1-bruteforce", "2-perf", "list", "string", "vector">>

MCPatterns == {"brute", "perf", "info", "vec"}

MCOccurs == {<<"brute", "1-bruteforce">>, <<"perf", "2-perf">>, <<"vec", "vector">>}

\* Without options; everything; all but a group; one group of two categories.
MCOptions ==
  {NoOptions,
   [NoOptions EXCEPT !.include_category = {"brute", "perf"}],
   [NoOptions EXCEPT !.include_category = {"brute", "perf"}, !.exclude_group = {"vec"}],
   [NoOptions EXCEPT !.include_category = {"brute", "perf"}, !.include_group = {"vec"}],
   [NoOptions EXCEPT !.include_category = {"brute", "perf"},
                     !.exclude_category = {"perf"}]}

=============================================================================
