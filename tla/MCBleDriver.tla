------------------------------ MODULE MCBleDriver ------------------------------
(* Model checking of BleDriver; the configurations choose the bounds.          *)
EXTENDS BleDriver
================================================================================
