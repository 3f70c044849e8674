------------------------ MODULE MCSubscriptionStream ------------------------
(* SubscriptionStream for TLC: interchangeable SSE requests. *)
EXTENDS SubscriptionStream, TLC

StreamSymmetry == Permutations(Streams)
=============================================================================
