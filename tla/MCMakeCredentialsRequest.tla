--------------------- MODULE MCMakeCredentialsRequest ---------------------
(***************************************************************************)
(* Model-checking instance of MakeCredentialsRequest: two tokens under     *)
(* each of the two pin/uv auth protocols.                                  *)
(***************************************************************************)
EXTENDS MakeCredentialsRequest

MCPinProtocols == {1, 2}
=============================================================================
