---------------------------- MODULE MCToolSession ---------------------------
(* Three requests and one completion on a pool of two workers.             *)
EXTENDS ToolSession

MCRequests == 1..3
MCCalls == {4}
MCJobs == 1..4

Sound == [known |-> TRUE, approved |-> TRUE, credentials |-> TRUE, safeUrl |-> TRUE,
          timeoutOk |-> TRUE, required |-> FALSE]
Required == [Sound EXCEPT !.required = TRUE]
Refused == [Sound EXCEPT !.credentials = FALSE, !.timeoutOk = FALSE]
MCProfiles == <<{Sound, Required}, {Required, Refused}, {Sound}>>
MCAdapters == <<Outcomes, {"success", "Error"}, {"partial", "TimeoutError"}>>
=============================================================================
