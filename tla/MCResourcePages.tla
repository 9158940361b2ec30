--------------------------- MODULE MCResourcePages ---------------------------
(* Instances of ResourcePages for TLC: a kind for each way to be updated. *)
EXTENDS ResourcePages

KindsPerMethod == {"Project", "CloudOSO", "VaultKV"}

\* A text, a reference, and two lists, of which the handler ignores one.
FieldsPerEntry == {"displayName", "cloudRef", "vaultAdminRbac", "vaultOpsRbac"}
=============================================================================
