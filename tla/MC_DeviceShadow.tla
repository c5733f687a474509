--------------------------- MODULE MC_DeviceShadow ---------------------------
(* Sets of properties, values and binder threads for the runs of            *)
(* DeviceShadow.                                                            *)
EXTENDS DeviceShadow, TLC

CONSTANTS temp, volume, period, b1, b2, zero, one, none

Names1 == {volume}
Names2 == {temp, volume}
UrgentNames == {volume}
Values2 == {zero, one}
Binders1 == {b1}
Binders2 == {b1, b2}
BinderSymmetry == Permutations(Binder)
=============================================================================
