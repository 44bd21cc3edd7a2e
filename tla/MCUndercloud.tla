---------------------------- MODULE MCUndercloud ----------------------------
(* A small instance of Undercloud for TLC. *)
EXTENDS Undercloud

\* A flavor that is created after one with a profile, and one without a profile.
MCProfiles == <<"control", "compute", "baremetal">>
=============================================================================
