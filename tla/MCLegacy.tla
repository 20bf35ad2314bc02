------------------------------- MODULE MCLegacy ------------------------------
(***************************************************************************)
(* An instance of LegacyRequest for TLC.                                   *)
(***************************************************************************)
EXTENDS LegacyRequest

(* No body, and a byte more than fills one message and two. *)
Lengths == {0, PayloadSize + 1, 2 * PayloadSize + 1}
=============================================================================
