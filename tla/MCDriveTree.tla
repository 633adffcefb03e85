---------------------------- MODULE MCDriveTree ----------------------------
(* Constant values for model-checking DriveTree. *)
EXTENDS DriveTree

\* One number that a seed names, and one id that is not an item_<n>.
CONSTANT Docs
MCSeedId == {2, Docs}
=============================================================================
