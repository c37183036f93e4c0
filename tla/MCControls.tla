----------------------------- MODULE MCControls -----------------------------
(* The two files of the repository, two issues of its registry, and a      *)
(* baseline that had vulnerability alerts on.                              *)
EXTENDS GithubControls

MCIssues == <<"issue26", "issue27">>
MCBaseline ==
  [reporting |-> FALSE, discussions |-> FALSE, alerts |-> FALSE, updates |-> FALSE,
   scanning |-> TRUE, push |-> TRUE, ruleset |-> "baseline", branch |-> "main", bypass |-> 0]
MCWatchedBaseline == [MCBaseline EXCEPT !["alerts"] = TRUE]
MCContract == [f \in Restored |-> IF f = "ruleset" THEN "contract" ELSE
                                  IF f \in {"branch", "bypass"} THEN MCBaseline[f] ELSE TRUE]
=============================================================================
