----------------------------- MODULE GrantIds -----------------------------
(* The grants as the parts of the extension name them: one set for the     *)
(* vault that times them out and the router that negotiates them.          *)
CONSTANT Grants     \* grant ids
=============================================================================
