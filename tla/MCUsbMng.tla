------------------------------ MODULE MCUsbMng ------------------------------
(* Model-checking root for UsbMng; the instances are the cfg files. *)
EXTENDS UsbMng
=============================================================================
