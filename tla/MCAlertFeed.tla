----------------------------- MODULE MCAlertFeed -----------------------------
(***************************************************************************)
(* Small instances of AlertFeed for TLC.  Rows 1 to 3 are roots, 4 to 6    *)
(* shocks of one topic, 7 and 8 the rows of one story.                     *)
(***************************************************************************)
EXTENDS AlertFeed

MCKindOf  == [r \in Rows |-> IF r < 4 THEN "root" ELSE IF r < 7 THEN "shock" ELSE "news"]
MCTsOf    == [r \in Rows |-> IF r \in {3, 5, 8} THEN 1 ELSE IF r = 6 THEN 2 ELSE 0]
MCGroupOf == [r \in Rows |-> IF r \in {4, 5, 6} THEN 4 ELSE IF r = 8 THEN 7 ELSE r]
MCScore   == [r \in Rows |-> IF r = 7 THEN 1 ELSE 0]
MCNotable == Rows \cap {5, 6}
MCFactor  == [root |-> 3, shock |-> 1, news |-> 2]
MCSize    == [r \in Rows |-> IF r \in {4, 6} THEN "strong" ELSE "weak"]
=============================================================================
