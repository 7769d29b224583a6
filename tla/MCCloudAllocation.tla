------------------------- MODULE MCCloudAllocation -------------------------
(* Instance of CloudAllocation for TLC. *)
EXTENDS CloudAllocation, TLC

CONSTANTS cheap, large  \* two providers

AnyProvider == [t \in Tasks |-> Providers]
CheapFirst == cheap :> 2 @@ large :> 1
OneNodeEach == [p \in Providers |-> 1]
OneOperation == [p \in Providers |-> 1]
=============================================================================
