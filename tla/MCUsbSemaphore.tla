---------------------------- MODULE MCUsbSemaphore ----------------------------
(***************************************************************************)
(* UsbSemaphore for model checking.                                        *)
(***************************************************************************)
EXTENDS UsbSemaphore

CONSTANTS a, b, c

Three == {a, b, c}
=============================================================================
