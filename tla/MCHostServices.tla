------------------------------ MODULE MCHostServices ------------------------------
EXTENDS HostServices, TLC

CONSTANTS c1, c2,      \* a call from the desktop, and one from a device
          d            \* the device

MCDevice == (c1 :> None) @@ (c2 :> d)
B(methods, requests, ctxs, ends, lates, faults) ==
    [methods |-> methods, requests |-> requests, ctxs |-> ctxs, ends |-> ends,
     lates |-> lates, faults |-> faults]

MCBudgets == {
    B({"open_write", "write", "finish"}, 1 .. 4, {c1}, {}, {}, {"disk"}),
    B({"open_write", "write", "close", "finish"}, 1 .. 3, {c1}, {c1, None}, {}, {}),
    B({"http", "read", "close"}, 1 .. 3, {c1}, {c1}, {2}, {"net"}),
    B({"http", "read"}, 1 .. 3, {None, c1}, {c1}, {}, {}),
    B({"open_read", "read", "close"}, 1 .. 3, {c1}, {c1}, {3}, {"disk"}),
    B({"create_spool", "finish", "upload"}, 1 .. 3, {c1}, {c1}, {1}, {"net"}),
    B({"export_open", "open_read", "read", "finish"}, 1 .. 2, {c1, c2}, {c2}, {}, {}),
    B({"pick", "take", "chunk"}, 1 .. 3, {c1}, {c1}, {1}, {}),
    B({"window", "navigate", "shut"}, 1 .. 2, {None, c1}, {c1}, {1}, {})}
================================================================================
