---------------------------- MODULE MCQuickJsPool ----------------------------
(***************************************************************************)
(* QuickJsPool with more calls than workers, and any thread free to fail.  *)
(***************************************************************************)
EXTENDS QuickJsPool
=============================================================================
