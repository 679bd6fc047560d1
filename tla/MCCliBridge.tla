------------------------------- MODULE MCCliBridge -------------------------------
EXTENDS CliBridge
(* Each of the faults in company of one it meets; "late" stands for every end that  *)
(* the monitor or the deadline gives to an invocation.                              *)
MCCliBudgets == {[faults |-> f] : f \in {{"hangup", "reload"}, {"close", "late"},
                                         {"emit", "late"}, {"close", "crash"}}}
===================================================================================
