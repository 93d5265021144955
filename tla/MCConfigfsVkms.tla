-------------------------- MODULE MCConfigfsVkms --------------------------
(* ConfigfsVkms for TLC: two names, so that one can be left half-made.     *)
EXTENDS ConfigfsVkms

TwoSlots == 0..1
=============================================================================
