---------------------------- MODULE MCAlertsList ----------------------------
(* AlertsList on a small instance.                                         *)
EXTENDS AlertsList

\* Two lists of summaries, one of a page in another order.
MCSummariesOf == [f |-> <<<<"s1">>, <<"s2">>>>, g |-> <<<<"s2", "s1">>, <<>>>>]
MCAlertsOf == [s1 |-> {"a", "b"}, s2 |-> {"c"}]
=============================================================================
