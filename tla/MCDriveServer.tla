---------------------------- MODULE MCDriveServer ----------------------------
(* Constant values for model-checking DriveServer. *)
EXTENDS DriveServer

CONSTANTS ta, tb, alice,  \* tokens, and an actor that is not the system's
          Docs           \* an id that is not an item_<n>

\* One token is alice's, the other gets an actor from its hash.
MCTokenActor == ta :> alice
MCHashActor == [t \in Token |-> System]
=============================================================================
