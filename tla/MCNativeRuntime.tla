-------------------------- MODULE MCNativeRuntime --------------------------
(***************************************************************************)
(* Small instances of NativeRuntime.                                       *)
(***************************************************************************)
EXTENDS NativeRuntime

CONSTANTS i1, i2, image

OneInstance  == {i1}
TwoInstances == {i1, i2}
JustOne      == {i1}
OneImage     == {image}
AllOfImage   == [i \in Instances |-> image]
=============================================================================
