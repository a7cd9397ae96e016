---------------------------- MODULE MCUsbDevice ----------------------------
(* Model-checking root for UsbDevice; the instances are the cfg files. *)
EXTENDS UsbDevice
=============================================================================
