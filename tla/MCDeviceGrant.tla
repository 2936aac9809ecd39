--------------------------- MODULE MCDeviceGrant ---------------------------
(***************************************************************************)
(* Values for checking DeviceGrant.  No formula names an element of the    *)
(* symmetric sets.                                                         *)
(***************************************************************************)
EXTENDS DeviceGrant, TLC

Symmetry == Permutations(Code) \cup Permutations(User) \cup Permutations(Service)
            \cup Permutations(Request)
=============================================================================
