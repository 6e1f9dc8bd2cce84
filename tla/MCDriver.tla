------------------------------- MODULE MCDriver -------------------------------
(***************************************************************************)
(* Small instances of Driver: two source files, of which one may be of any *)
(* text, and output names, some of which look like options.                *)
(***************************************************************************)
EXTENDS Driver

MCJoined == [a \in {"-ox"} |-> "x"]

\* Vectors of up to four arguments.
Vectors ==
  UNION {[1 .. n -> {"-s", "-c", "-o", "-ox", "y", "a.mug"}] : n \in 0 .. 4}

\* Runs with every mode and several outputs.
Working ==
  {<<"a.mug">>, <<"-c", "a.mug">>, <<"-s", "-o", "y", "a.mug">>,
   <<"-x", "-ox", "a.mug">>, <<"-o", "y", "a.mug">>, <<"-c", "-ox", "b.mug">>, <<"-s", "b.mug">>, <<"b.mug">>}

\* Runs with -s and different outputs have no file in common.
MCShareable == {<<"-s", "-ox", "a.mug">>, <<"-s", "-o", "y", "b.mug">>}

\* All vectors are tried in a fresh directory, and those that work on the
\* files of the runs before.
MCArgvs(n) == Working \cup MCShareable \cup (IF n = 1 THEN Vectors ELSE {})

WorkingOnly(n) == Working
=============================================================================
