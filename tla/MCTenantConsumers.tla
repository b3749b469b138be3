-------------------------- MODULE MCTenantConsumers --------------------------
(* An instance of TenantConsumers for TLC.*)
EXTENDS TenantConsumers
=============================================================================
