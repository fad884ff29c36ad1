--------------------- MODULE MCMakeCredentialsResponse ---------------------
(***************************************************************************)
(* Model-checking instance of MakeCredentialsResponse.  The collaborators  *)
(* of from_ctap1 are reduced to the first check each makes: a DER         *)
(* certificate starts with the SEQUENCE tag 0x30, an uncompressed SEC1     *)
(* point with 0x04.                                                        *)
(***************************************************************************)
EXTENDS MakeCredentialsResponse

MCCertParses(s) == Len(s) > 0 /\ s[1] = 48

MCKeyParses(k) == Len(k) > 0 /\ k[1] = 4

\* Every combination of the request fields finalize_result reads.
MCRequests == [rk : OptBool, credProps : OptBool, hmacSecret : OptBool]

\* One request asking for both extensions, for the legacy-layout run.
MCLegacyRequests == [rk : {None}, credProps : {TRUE}, hmacSecret : {TRUE}]

\* No snapshot, or a snapshot with any version list and any values of the
\* two options finalize_result reads (the uv options do not matter here).
MCDeviceInfos ==
  {None} \cup
  [versions : (SUBSET VersionSet) \ {{}}, platformDevice : BOOLEAN, rk : BOOLEAN,
   uv : {None}, clientPin : {None}, makeCredUvNotRqd : {None}, alwaysUv : {None}]
=============================================================================
