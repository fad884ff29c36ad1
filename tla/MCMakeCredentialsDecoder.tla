--------------------- MODULE MCMakeCredentialsDecoder ---------------------
(***************************************************************************)
(* Model-checking instance of MakeCredentialsDecoder: integer keys 1-3     *)
(* plus key 4 (epAtt in CTAP 2.1, unknown to this visitor), one text key,  *)
(* the three known format strings and one unknown one ("tpm").             *)
(***************************************************************************)
EXTENDS MakeCredentialsDecoder

MCIntKeys == {1, 2, 3, 4}
MCTextStrings == {"none", "packed", "fido-u2f", "tpm"}
=============================================================================
