--------------------------- MODULE RpcDispatchMC ---------------------------
(***************************************************************************)
(* RpcDispatch with 4-bit int32, 6-bit int64 and varints of 2-bit groups.  *)
(***************************************************************************)
EXTENDS RpcDispatch

MCNumbers == {-1, 5}
MCStrings == {"key"}
==============================================================================
