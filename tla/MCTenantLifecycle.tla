------------------------- MODULE MCTenantLifecycle -------------------------
(* Instances of TenantLifecycle: the owner and one more user.  No symmetry *)
(* of the requests or of the sweeps is used, since liveness is checked.    *)
EXTENDS TenantLifecycle
=============================================================================
