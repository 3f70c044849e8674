------------------------ MODULE MCSubscriptionMonitor ------------------------
(* SubscriptionMonitor for TLC: two assets, `tank` and `pump`, that share  *)
(* a sensor.                                                               *)
EXTENDS SubscriptionMonitor, TLC

CONSTANTS tank, pump, level, flow

MCElements == {tank, pump}
MCSources == {level, flow}

\* The same sources at every depth: tank has both, pump has one of them.
SameAtEveryDepth ==
  [e \in MCElements |-> [d \in Depths |->
    IF e = pump THEN {flow} ELSE {level, flow}]]

\* One shared sensor, which tank reaches at depth 2 only.
SharedAtDepth2 ==
  [e \in MCElements |-> [d \in Depths |->
    IF e = pump \/ d = 2 THEN {flow} ELSE {}]]

\* A data source whose runtimes can always, or never, be created.
AlwaysOrNever == {{"native"}, {"rejects"}}

\* A data source that may refuse a runtime and grant the next.
Sometimes == {{"native", "rejects"}}

RequestSymmetry == Permutations(Requests)
=============================================================================
