------------------------------ MODULE MCPages ------------------------------
(* Pages on a small instance.                                              *)
EXTENDS Pages, MCAlertsList

\* The second framework has only a base for the first platform.
MCCmpPlatforms == <<"l", "w">>
MCSidesOf ==
    [k \in {1, 2} \X {1} |->
        [row \in {"p"} \X {"l", "w"} |->
            CASE k[1] = 1 -> {"base", "new"}
              [] k[1] = 2 /\ row[2] = "l" -> {"base"}
              [] OTHER -> {}]]
MCComparable == {<<"p", "l">>}

\* A revision of the one project is not among the recent ones of the other.
MCRecentOf == [p \in {"try", "m"} |-> IF p = "try" THEN {"x"} ELSE {}]
MCPushedTo == [p \in {"try", "m"} |-> IF p = "try" THEN {"x"} ELSE {"y"}]

\* A test whose job was retriggered, and one whose job ran once.
MCRunsOf == [t \in {"a", "b"} |-> IF t = "a" THEN <<"1", "2">> ELSE <<"3">>]
=============================================================================
