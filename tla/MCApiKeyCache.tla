---------------------------- MODULE MCApiKeyCache ----------------------------
(* Instances of ApiKeyCache for TLC. *)
EXTENDS ApiKeyCache, TLC

CONSTANTS k1, k2, v1, v2, r1, r2, w1, w2
=============================================================================
