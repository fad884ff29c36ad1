-------------------------- MODULE AuthenticatorInfo --------------------------
(***************************************************************************)
(* The device capability snapshot the command reads (AuthenticatorInfo of  *)
(* get_info.rs, which is not among the sources: modelled from spec.md      *)
(* section 3, "Device Capability Snapshot").  Only the fields this command *)
(* reads are kept; options that are Option<bool> range over OptBool.       *)
(***************************************************************************)
EXTENDS Naturals

CONSTANT None

OptBool == {None, TRUE, FALSE}

\* AuthenticatorVersion, oldest first.
Versions == <<"U2F_V2", "FIDO_2_0", "FIDO_2_1_PRE", "FIDO_2_1">>
VersionSet == {Versions[i] : i \in 1..4}

Infos ==
  [ versions : (SUBSET VersionSet) \ {{}},
    platformDevice : BOOLEAN,      \* options.platform_device
    rk : BOOLEAN,                  \* options.resident_key
    uv : OptBool,                  \* options.user_verification
    clientPin : OptBool,           \* options.client_pin
    makeCredUvNotRqd : OptBool,    \* options.make_cred_uv_not_rqd
    alwaysUv : OptBool ]           \* options.always_uv

\* AuthenticatorInfo::max_supported_version: the newest version listed.
MaxSupportedVersion(info) ==
  Versions[CHOOSE i \in 1..4 :
             /\ Versions[i] \in info.versions
             /\ \A j \in 1..4 : Versions[j] \in info.versions => j <= i]

\* UserVerificationRequirement of the relying party.
UvRequirements == {"Required", "Preferred", "Discouraged"}
=============================================================================
