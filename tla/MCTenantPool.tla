----------------------------- MODULE MCTenantPool -----------------------------
(* Instances of TenantPool for TLC. *)
EXTENDS TenantPool, TLC

CONSTANTS t1, t2, p1, p2, p3, p4, c1, c2, e1, e2
=============================================================================
