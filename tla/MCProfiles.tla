----------------------------- MODULE MCProfiles -----------------------------
(* Two users for TLC.                                                      *)
EXTENDS Profiles

CONSTANTS u1, u2
=============================================================================
