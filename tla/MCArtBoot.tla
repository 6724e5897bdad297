------------------------------ MODULE MCArtBoot ------------------------------
(***************************************************************************)
(* ArtBoot on a small instance; its ASSUME is evaluated here.              *)
(***************************************************************************)
EXTENDS ArtBoot, TLC
=============================================================================
