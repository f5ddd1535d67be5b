----------------------------- MODULE MCPublishing -----------------------------
(* Two parents who share one device token, two sends at once and two askings in all:    *)
(* a second send, a second dispatch, or a rescheduling of what was sent.                 *)
EXTENDS Publishing, TLC

Symmetry == Permutations(Users) \cup Permutations(Senders)
=============================================================================
