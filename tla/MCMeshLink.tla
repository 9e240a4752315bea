------------------------------ MODULE MCMeshLink ------------------------------
(***************************************************************************)
(* Small instance of MeshLink for TLC: two devices, three starts of the    *)
(* link.                                                                   *)
(***************************************************************************)
EXTENDS MeshLink

CONSTANTS usb0, usb1

MCDevices == {usb0, usb1}
===============================================================================
