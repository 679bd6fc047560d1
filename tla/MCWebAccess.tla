------------------------------ MODULE MCWebAccess ------------------------------
EXTENDS WebAccess, TLC

CONSTANTS a, b,     \* root calls
          n,        \* a call nested in a
          k1, k2,   \* request keys
          w1, w2, s1, s2

MCParent == [c \in Contexts |-> IF c = n THEN a ELSE None]
MCKey == [c \in Roots |-> k1]

\* Bound: nested calls and downloads are explored apart.
MCApart == n \in born => creds = {} /\ \A s \in Streams : stream[s] = NoStream
================================================================================
