----------------------------- MODULE MCSessions -----------------------------
(* Constant values for model-checking Sessions. *)
EXTENDS Sessions, TLC

MCConfigs == {[seed |-> 0, start |-> 0]}

MCServiceDefault == {}

\* Requests differ only in their name.
ReqSymmetry == Permutations(Req)
=============================================================================
