------------------------- MODULE MCGuardedExecution -------------------------
(***************************************************************************)
(* Small warehouses for GuardedExecution: three rows, two of which look    *)
(* alike but for a column, and three columns, two of which have one name.  *)
(***************************************************************************)
EXTENDS GuardedExecution

CONSTANTS r1, r2, r3

\* "n" may be written "N" by a statement: the comparison does not tell them apart.
MCColumns == {"id", "n", "N"}
MCNameOf == [c \in MCColumns |-> IF c = "N" THEN "n" ELSE c]

\* r1 and r2 are one row twice to who does not see N, which is where r1 holds a NULL.
MCKeyAt ==
    [r \in {r1, r2, r3} |->
        [c \in MCColumns |-> CASE c = "id" -> IF r = r3 THEN "b" ELSE "a"
                               [] c = "n" -> "7.5"
                               [] c = "N" -> IF r = r1 THEN "None" ELSE "7.5"]]

\* In one order and in the other; a column too few; the other spelling; a name twice.
MCProjections == {<<"id", "n">>, <<"n", "id">>, <<"n">>, <<"id", "N">>, <<"id", "n", "N">>}
MCOneColumn == {<<"n">>}
=============================================================================
