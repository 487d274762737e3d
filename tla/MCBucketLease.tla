---------------------------- MODULE MCBucketLease ----------------------------
EXTENDS BucketLease

CONSTANTS a, b

MCTtl  == [i \in Instances |-> 3]
\* b's clock runs a third of a TTL ahead of a's.
MCSkew == [i \in Instances |-> IF i = b THEN 1 ELSE 0]

Service(c, u) == [create |-> c, update |-> u]
Rec(age, ttl, parses) ==
    [id |-> Stranger, age |-> age, ttl |-> ttl, parses |-> parses, there |-> TRUE]

\* No record on a service that honours both preconditions, with faults.
\* Without: a record stamped more than its TTL in the future, one with an absurd
\* TTL, one that does not parse, and the services that honour less.
Honest == Service("honours", "honours")
MCStarts ==
    [service : {Honest}, lease : {NoLease}, faults : {0}]
    \cup [service : {Honest}, faults : {MaxFaults},
          lease : {Rec(-5, 3, TRUE), Rec(0, 99, TRUE), Rec(0, 0, FALSE)}]
    \cup [service : {Service("none", "none"), Service("honours", "none"),
                     Service("ignores", "honours"), Service("honours", "ignores")},
          lease : {NoLease}, faults : {MaxFaults}]
=============================================================================
