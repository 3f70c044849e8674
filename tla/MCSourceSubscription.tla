------------------------ MODULE MCSourceSubscription ------------------------
(* Two sources with two values, three calls, every implementation.         *)
EXTENDS SourceSubscription

MCImpls == {"opcua", "events", "polling"}
MCValues == {"off", "on"}
MCInitial == [s \in Sources |-> "off"]
=============================================================================
