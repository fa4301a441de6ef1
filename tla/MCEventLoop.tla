---------------------------- MODULE MCEventLoop ----------------------------
(* Instances of EventLoop for TLC: both targets in one registry, or apart. *)
EXTENDS EventLoop
CONSTANTS t1, t2
OneRegistry == [t \in {t1, t2} |-> 1]
TwoRegistries == (t1 :> 1) @@ (t2 :> 2)
NoRegistry == <<>>
LoneRegistry == (t1 :> 1)
=============================================================================
