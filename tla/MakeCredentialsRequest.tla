------------------------ MODULE MakeCredentialsRequest ------------------------
(***************************************************************************)
(* The MakeCredentials request value (make_credentials.rs 206-309) and the *)
(* operations that change or read it before it is sent: attaching the      *)
(* pinUvAuthParam (set_pin_uv_auth_param, 358-372), setting the uv option  *)
(* (set_uv_option, 374-376), the CTAP2 CBOR encoding (Serialize for        *)
(* MakeCredentials, 415-463, through wire_format, 518-520) and the         *)
(* user-verification skip policy (can_skip_user_verification, 382-408).    *)
(* A CBOR map is a sequence of entries [key, val]: the data of an entry is *)
(* abstracted to what the encoding tests (presence, which fields of a      *)
(* nested map are written, the pin protocol of the auth param).            *)
(***************************************************************************)
EXTENDS Integers, Sequences, AuthenticatorInfo

CONSTANTS
  TokenIds,      \* PinUvAuthTokens the caller may hold
  PinProtocols   \* pin/uv auth protocol ids (1 and 2)

ASSUME RequestAssumption ==
  /\ PinProtocols \subseteq Nat
  /\ None \notin Nat \cup BOOLEAN

\* A token, and the PinUvAuthParam derived from it: the token's protocol
\* travels with the param (pin_uv_auth_param.pin_protocol).
Tokens == [id : TokenIds, proto : PinProtocols]
Params == [token : TokenIds, proto : PinProtocols]
\* Mutant: the param forgets the protocol of its token.
DeriveNoProtocol(t) == [token |-> t.id]

Derive(t) == [token |-> t.id, proto |-> t.proto]

\* MakeCredentialsExtensions: cred_props is never serialized.
ExtensionInputs ==
  [credProps : {None, TRUE}, credProtect : {None, "policy"},
   hmacSecret : {None, TRUE}, minPinLength : {None, TRUE}]

\* MakeCredentialsOptions.
OptionInputs == [rk : OptBool, uv : OptBool]

\* The requests a caller builds with MakeCredentials::new (pinUvAuthParam
\* None); enterprise_attestation is a public field a caller may set.
Requests ==
  [user : {None, "user"}, excludeList : {{}, {"cred"}},
   extensions : ExtensionInputs, options : OptionInputs,
   pinUvAuthParam : {None}, enterpriseAttestation : {None, 1}]

\* struct MakeCredentials: the fields the encoding and the policy read, with
\* any param set_pin_uv_auth_param may have attached.
RequestValues ==
  [user : {None, "user"}, excludeList : {{}, {"cred"}},
   extensions : ExtensionInputs, options : OptionInputs,
   pinUvAuthParam : Params \cup {None}, enterpriseAttestation : {None, 1}]

-----------------------------------------------------------------------------
(* The CBOR encoding.                                                      *)

\* Mutant: cred_props counted as content although it is never serialized.
HasContentWithCredProps(ext) ==
  ext.credProps # None \/ ext.credProtect # None \/ ext.hmacSecret # None
    \/ ext.minPinLength # None

\* MakeCredentialsExtensions::has_content.
HasContent(ext) ==
  ext.credProtect # None \/ ext.hmacSecret # None \/ ext.minPinLength # None

\* MakeCredentialsOptions::has_some.
HasSome(opts) == opts.rk # None \/ opts.uv # None

\* The names written for the extensions map (skip_serializing_if is_none;
\* cred_props is skip_serializing).
ExtensionsMap(ext) ==
  {n \in {"credProtect", "hmac-secret", "minPinLength"} :
     CASE n = "credProtect" -> ext.credProtect # None
       [] n = "hmac-secret" -> ext.hmacSecret # None
       [] OTHER -> ext.minPinLength # None}

\* The options map: the options that are Some, with their values.
OptionsMap(opts) ==
  {<<"rk", opts.rk>>, <<"uv", opts.uv>>} \ {<<"rk", None>>, <<"uv", None>>}

Entry(k, v) == [key |-> k, val |-> v]

\* Entries written only when cond holds.
If(cond, s) == IF cond THEN s ELSE <<>>

\* Mutant: the pinUvAuthParam group counted as one entry.
MapLenAuthOne(r) ==
  4 + (IF r.excludeList # {} THEN 1 ELSE 0)
    + (IF HasContent(r.extensions) THEN 1 ELSE 0)
    + (IF HasSome(r.options) THEN 1 ELSE 0)
    + (IF r.pinUvAuthParam # None THEN 1 ELSE 0)
    + (IF r.enterpriseAttestation # None THEN 1 ELSE 0)

\* The map length declared to the serializer before any entry is written.
MapLen(r) ==
  4 + (IF r.excludeList # {} THEN 1 ELSE 0)
    + (IF HasContent(r.extensions) THEN 1 ELSE 0)
    + (IF HasSome(r.options) THEN 1 ELSE 0)
    + (IF r.pinUvAuthParam # None THEN 2 ELSE 0)
    + (IF r.enterpriseAttestation # None THEN 1 ELSE 0)

\* Mutant: enterpriseAttestation written before the auth param.
MapEntriesEaFirst(r) ==
  << Entry(1, "clientDataHash"), Entry(2, "rp"), Entry(3, r.user),
     Entry(4, "pubCredParams") >>
  \o If(r.excludeList # {}, << Entry(5, r.excludeList) >>)
  \o If(HasContent(r.extensions), << Entry(6, ExtensionsMap(r.extensions)) >>)
  \o If(HasSome(r.options), << Entry(7, OptionsMap(r.options)) >>)
  \o If(r.enterpriseAttestation # None, << Entry(10, r.enterpriseAttestation) >>)
  \o If(r.pinUvAuthParam # None,
        << Entry(8, r.pinUvAuthParam), Entry(9, r.pinUvAuthParam.proto) >>)

\* The entries serialize_entry writes, in order.
MapEntries(r) ==
  << Entry(1, "clientDataHash"), Entry(2, "rp"), Entry(3, r.user),
     Entry(4, "pubCredParams") >>
  \o If(r.excludeList # {}, << Entry(5, r.excludeList) >>)
  \o If(HasContent(r.extensions), << Entry(6, ExtensionsMap(r.extensions)) >>)
  \o If(HasSome(r.options), << Entry(7, OptionsMap(r.options)) >>)
  \o If(r.pinUvAuthParam # None,
        << Entry(8, r.pinUvAuthParam), Entry(9, r.pinUvAuthParam.proto) >>)
  \o If(r.enterpriseAttestation # None, << Entry(10, r.enterpriseAttestation) >>)

\* Serialize for MakeCredentials: a map of MapLen entries.
Encode(r) == [declared |-> MapLen(r), entries |-> MapEntries(r)]

\* Mutant: `resident_key != Some(true)` written as `resident_key == Some(false)`.
CanSkipRkFalseOnly(r, info, uvReq) ==
  LET deviceProtected == info.uv = TRUE \/ info.clientPin = TRUE
      makeCredUvNotRequired ==
        /\ info.makeCredUvNotRqd = TRUE
        /\ r.options.rk = FALSE
        /\ uvReq = "Discouraged"
  IN  info.alwaysUv # TRUE /\ (~deviceProtected \/ makeCredUvNotRequired)

\* Option::None is not an encoding: wire_format returns a Vec<u8>.
ASSUME EncodingAssumption == \A r \in RequestValues : Encode(r) # None

-----------------------------------------------------------------------------
(* can_skip_user_verification: may the command be sent without a          *)
(* pinUvAuthParam?  `x == Some(true)` is written x = TRUE.                  *)
CanSkipUserVerification(r, info, uvReq) ==
  LET supportsUv == info.uv = TRUE
      pinConfigured == info.clientPin = TRUE
      deviceProtected == supportsUv \/ pinConfigured
      makeCredUvNotRequired ==
        /\ info.makeCredUvNotRqd = TRUE
        /\ r.options.rk # TRUE
        /\ uvReq = "Discouraged"
      alwaysUv == info.alwaysUv = TRUE
  IN  ~alwaysUv /\ (~deviceProtected \/ makeCredUvNotRequired)

-----------------------------------------------------------------------------
VARIABLES
  req,        \* the MakeCredentials value
  wire,       \* the last CTAP2 encoding produced, or None
  authResult  \* what the last set_pin_uv_auth_param returned, or None

reqVars == <<req, wire, authResult>>

ReqInit ==
  /\ req \in Requests
  /\ wire = None
  /\ authResult = None

\* set_pin_uv_auth_param(None) clears the param.
ClearPinUvAuthParam ==
  /\ req' = [req EXCEPT !.pinUvAuthParam = None]
  /\ authResult' = "ok"
  /\ UNCHANGED wire

\* Mutant: the old param is dropped before the derivation can fail.
SetPinUvAuthParamClearFirst(t) ==
  \/ /\ req' = [req EXCEPT !.pinUvAuthParam = Derive(t)]
     /\ authResult' = "ok"
     /\ UNCHANGED wire
  \/ /\ req' = [req EXCEPT !.pinUvAuthParam = None]
     /\ authResult' = "crypto_error"
     /\ UNCHANGED wire

\* set_pin_uv_auth_param(Some(token)): derive the param from the token and
\* the clientDataHash; a derivation error returns early, before the field
\* is assigned, so the request keeps whatever param it had.
SetPinUvAuthParam(t) ==
  \/ /\ req' = [req EXCEPT !.pinUvAuthParam = Derive(t)]
     /\ authResult' = "ok"
     /\ UNCHANGED wire
  \/ /\ authResult' = "crypto_error"
     /\ UNCHANGED <<req, wire>>

SetUvOption(uv) ==
  /\ req' = [req EXCEPT !.options.uv = uv]
  /\ UNCHANGED <<wire, authResult>>

\* wire_format: the request serialized to CBOR.
WireFormat ==
  /\ wire' = Encode(req)
  /\ UNCHANGED <<req, authResult>>

ReqNext ==
  \/ ClearPinUvAuthParam
  \/ \E t \in Tokens : SetPinUvAuthParam(t)
  \/ \E uv \in OptBool : SetUvOption(uv)
  \/ WireFormat

ReqSpec == ReqInit /\ [][ReqNext]_reqVars

-----------------------------------------------------------------------------
\* The value each key of the encoded map carries.
EntryOK(e) ==
  \/ e.key \in {1, 2, 4}
  \/ e.key = 3 /\ e.val \in {None, "user"}
  \/ e.key = 5 /\ e.val \in SUBSET {"cred"}
  \/ e.key = 6 /\ e.val \in SUBSET {"credProtect", "hmac-secret", "minPinLength"}
  \/ e.key = 7 /\ e.val \in SUBSET ({"rk", "uv"} \X BOOLEAN)
  \/ e.key = 8 /\ e.val \in Params
  \/ e.key = 9 /\ e.val \in PinProtocols
  \/ e.key = 10 /\ e.val = 1

ReqTypeOK ==
  /\ req \in RequestValues
  /\ wire = None \/ (wire.declared \in Nat /\ \A i \in DOMAIN wire.entries : EntryOK(wire.entries[i]))
  /\ authResult \in {None, "ok", "crypto_error"}

WireKeys(w) == {w.entries[i].key : i \in DOMAIN w.entries}

(***************************************************************************)
(* The map length Serialize declares up front (map_len, lines 423-439)     *)
(* equals the number of entries it then writes (lines 441-460), for every  *)
(* request and every sequence of setter calls before wire_format: the      *)
(* serializer commits to the length before writing (spec.md 4.1, 8).       *)
(***************************************************************************)
DeclaredLengthMatches ==
  wire # None => wire.declared = Len(wire.entries)

(***************************************************************************)
(* The encoded map is canonical: keys strictly increasing, so each key is  *)
(* written once and in the order CTAP2 canonical CBOR requires.            *)
(***************************************************************************)
CanonicalKeyOrder ==
  wire # None =>
    \A i, j \in DOMAIN wire.entries :
      i < j => wire.entries[i].key < wire.entries[j].key

(***************************************************************************)
(* The optional groups excludeList (0x05), extensions (0x06) and options   *)
(* (0x07) are written only when they have content: the presence tests of  *)
(* map_len and of the entries (is_empty, has_content, has_some) agree with *)
(* what the nested serializers then write (spec.md 6: "omitted if empty"). *)
(***************************************************************************)
NoEmptyOptionalGroups ==
  wire # None =>
    \A i \in DOMAIN wire.entries :
      wire.entries[i].key \in {5, 6, 7} => wire.entries[i].val # {}

(***************************************************************************)
(* spec.md 3: "the encoded wire map must include only fields that are      *)
(* semantically present -- omitted optional fields are not encoded as      *)
(* null"; spec.md 6: key 3 is "omitted => legacy-compatibility mode".      *)
(* No entry of the encoded map is null.                                    *)
(***************************************************************************)
NoNullEntries ==
  wire # None =>
    \A i \in DOMAIN wire.entries : wire.entries[i].val # None

(***************************************************************************)
(* can_skip_user_verification agrees with the decision table of spec.md    *)
(* 4.4 for every combination of the four option flags of the device and   *)
(* every relying-party requirement, given the request's resident-key       *)
(* option.                                                                 *)
(***************************************************************************)
SpecMaySkip(r, info, uvReq) ==
  IF info.alwaysUv = TRUE THEN FALSE
  ELSE IF ~(info.uv = TRUE \/ info.clientPin = TRUE) THEN TRUE
  ELSE info.makeCredUvNotRqd = TRUE /\ r.options.rk # TRUE /\ uvReq = "Discouraged"

UvOptionInfos ==
  [uv : OptBool, clientPin : OptBool, makeCredUvNotRqd : OptBool, alwaysUv : OptBool]

CanSkipMatchesSpec ==
  \A info \in UvOptionInfos, uvReq \in UvRequirements :
    CanSkipUserVerification(req, info, uvReq) = SpecMaySkip(req, info, uvReq)


-----------------------------------------------------------------------------
(* Refinement: the request encoder implements RequestEncoding.  The wire   *)
(* map is read back as a map from the keys written to the value written    *)
(* under each, with the length declared in its header.                     *)

\* The value written under key k.
WireValue(w, k) ==
  w.entries[CHOOSE i \in DOMAIN w.entries : w.entries[i].key = k].val

WireAsMap ==
  IF wire = None THEN None
  ELSE [count |-> wire.declared,
        map   |-> [k \in WireKeys(wire) |-> WireValue(wire, k)]]

AbsReq == INSTANCE RequestEncoding
            WITH areq <- req, awire <- WireAsMap, aresult <- authResult,
                 InitialRequests <- Requests, Tags <- Params, UvValues <- OptBool

(***************************************************************************)
(* Every behaviour of the encoder and its setters is one of RequestEncoding *)
(* under the mapping above: each wire_format call (Serialize, lines        *)
(* 415-463) sends exactly the fields that are semantically present under   *)
(* their fixed keys, with their current values and the true entry count,  *)
(* and set_pin_uv_auth_param / set_uv_option change the request as         *)
(* spec.md 4.4 says, a failed derivation leaving it as it was.             *)
(***************************************************************************)
EncodeRefinesRequest == AbsReq!ASpec

=============================================================================
