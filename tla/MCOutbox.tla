----------------------------- MODULE MCOutbox -----------------------------
(***************************************************************************)
(* Outbox for TLC.  Relays are interchangeable, and so are events: no      *)
(* action and no safety property orders them.  The symmetry is used in the *)
(* safety run only.                                                        *)
(***************************************************************************)
EXTENDS Outbox, TLC

Symmetry == Permutations(Events) \cup Permutations(Relays)
=============================================================================
