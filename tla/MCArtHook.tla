------------------------------ MODULE MCArtHook ------------------------------
(***************************************************************************)
(* ArtHook on a small instance.                                            *)
(***************************************************************************)
EXTENDS ArtHook, TLC

CONSTANTS c1, c2

AllKinds == {"compiled", "interpreted", "native"}
AllVersions == {"M", "N"}
MaySuspend == {TRUE, FALSE}
CanSuspend == {TRUE}
=============================================================================
