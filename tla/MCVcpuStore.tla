----------------------------- MODULE MCVcpuStore -----------------------------
(* VcpuStore for TLC: three vCPUs that start concurrently. *)
EXTENDS VcpuStore
=============================================================================
