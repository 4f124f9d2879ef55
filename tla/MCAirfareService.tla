-------------------------- MODULE MCAirfareService --------------------------
(***************************************************************************)
(* AirfareService for TLC: one slot with two windows, so that a failed or  *)
(* empty attempt comes before another one.                                 *)
(***************************************************************************)
EXTENDS AirfareService

JustTwo == <<2>>
=============================================================================
