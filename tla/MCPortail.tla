----------------------------- MODULE MCPortail -----------------------------
(* Every role, an account with two, one with none; a late answer, a change  *)
(* of account in another tab, an expired session.                           *)
EXTENDS Portail

MCComptes == {{r} : r \in RolesConnus} \cup {{}, {"AGENT_FODIP", "COMITE_FINANCEMENT"}}
=============================================================================
