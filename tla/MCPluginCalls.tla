------------------------------ MODULE MCPluginCalls ------------------------------
EXTENDS PluginCalls

CONSTANTS px, py, i, j

B(calls, ids, targets, says, requests, context, faulty, faults) ==
    [calls |-> calls, ids |-> ids, targets |-> targets, says |-> says,
     requests |-> requests, context |-> context, faulty |-> faulty,
     faults |-> faults]
\* One id used twice; two callers of a process that is stopped; every way a process
\* ends; a request without a context; deadlines of nested calls; a full write
\* queue; calls that go to another plugin and back.
MCBudgets == {
    B({1, 2}, {i}, {px}, {"result", "event"}, {}, TRUE, {}, {"late", "cancel"}),
    B({1, 2}, {i, j}, {px}, {}, {}, TRUE, {px}, {"stop"}),
    B({1}, {i}, {px}, {"result"}, {}, TRUE, {px}, {"stop", "crash", "garbage", "unkillable"}),
    B({1}, {}, {px}, {}, {11}, FALSE, {px}, {"stop", "crash"}),
    B({1, 2}, {i}, {px}, {}, {11}, TRUE, {}, {"late"}),
    B({1}, {i}, {px}, {"result"}, {11, 12}, TRUE, {}, {"cancel"}),
    B({1, 2, 3}, {i}, {px}, {}, {11, 12}, TRUE, {px}, {"crash"})}
===================================================================================
