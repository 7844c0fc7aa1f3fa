------------------------------ MODULE MCSignIns ------------------------------
(* Two servers, two sign-ins, five calls of users, browsers and agents. *)
EXTENDS SignIns
=============================================================================
