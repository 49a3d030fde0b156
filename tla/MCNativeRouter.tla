--------------------------- MODULE MCNativeRouter ---------------------------
(* Instances of NativeRouter with concurrent callers.                      *)
EXTENDS NativeRouter
=============================================================================
