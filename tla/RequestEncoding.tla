--------------------------- MODULE RequestEncoding ---------------------------
(***************************************************************************)
(* What spec.md (sections 3, 4.1, 4.4 and 6) promises of a credential      *)
(* creation request between its construction and its sending, stated over *)
(* whole values: the request is a record of fields, the encoding a map     *)
(* from the fixed integer keys of the fields that are semantically present *)
(* to their values, with the entry count the serializer declares.          *)
(* MakeCredentialsRequest writes the encoding entry by entry and is shown  *)
(* to implement this specification.                                        *)
(*                                                                         *)
(* One departure from spec.md 6: key 3 (the user entity) is part of the    *)
(* encoding whether or not the request has a user.  spec.md says an absent *)
(* user is omitted; the encoder writes it as null (run request_null).  The *)
(* present specification records the encoder as it is on that point so    *)
(* that the refinement speaks of everything else.                          *)
(***************************************************************************)
EXTENDS Naturals, FiniteSets

CONSTANTS
  None,             \* Option::None
  InitialRequests,  \* the requests a caller can construct
  Tokens,           \* tokens a tag can be derived from, each with a proto
  Tags,             \* authentication tags, each with its proto
  UvValues          \* the values the uv option can be set to

VARIABLES
  areq,     \* the request
  awire,    \* the last encoding sent, or None
  aresult   \* the answer of the last set_auth_tag, or None

avars == <<areq, awire, aresult>>

\* CTAP2 identifiers of the extension inputs that have one (credProps is
\* answered by the client and has no authenticator input).
ExtensionIds ==
  [credProtect |-> "credProtect", hmacSecret |-> "hmac-secret",
   minPinLength |-> "minPinLength"]

\* The extension-input map: the identifiers of the inputs the caller gave.
ExtensionInputMap(ext) ==
  {ExtensionIds[f] : f \in {g \in DOMAIN ExtensionIds : ext[g] # None}}

\* The options map: the options the caller gave, with their values.
OptionsInputMap(opts) ==
  {<<n, opts[n]>> : n \in {m \in {"rk", "uv"} : opts[m] # None}}

\* The value of each field under its key (spec.md 4.1: hash=1, rp=2, user=3,
\* algorithms=4, exclusion list=5, extensions=6, options=7, tag=8, tag
\* version=9, enterprise attestation=10).
FieldValue(r) ==
  << "clientDataHash", "rp", r.user, "pubCredParams", r.excludeList,
     ExtensionInputMap(r.extensions), OptionsInputMap(r.options),
     r.pinUvAuthParam,
     IF r.pinUvAuthParam = None THEN None ELSE r.pinUvAuthParam.proto,
     r.enterpriseAttestation >>

\* Keys 1-4 are always present; the groups 5-7 are omitted when empty, the
\* tag (with its version) and enterprise attestation when absent.
PresentKeys(r) ==
  (1..10) \ ({k \in 5..7 : FieldValue(r)[k] = {}}
             \cup {k \in 8..10 : FieldValue(r)[k] = None})

\* The modern encoding: a map over the present keys, declared with as many
\* entries as there are present fields.
Encoded(r) ==
  [count |-> Cardinality(PresentKeys(r)),
   map   |-> [k \in PresentKeys(r) |-> FieldValue(r)[k]]]

AInit ==
  /\ areq \in InitialRequests
  /\ awire = None
  /\ aresult = None

\* set_auth_tag(request, token): a tag bound to the request that carries
\* the protocol version of the token it was derived from.
AttachTag(t) ==
  /\ \E tag \in Tags :
       /\ tag.proto = t.proto
       /\ areq' = [areq EXCEPT !.pinUvAuthParam = tag]
  /\ aresult' = "ok"
  /\ UNCHANGED awire

\* set_auth_tag(request, none) clears the tag.
ClearTag ==
  /\ areq' = [areq EXCEPT !.pinUvAuthParam = None]
  /\ aresult' = "ok"
  /\ UNCHANGED awire

\* A derivation failure surfaces as a cryptographic error; the request is
\* not changed by the failed call.
TagFailure ==
  /\ aresult' = "crypto_error"
  /\ UNCHANGED <<areq, awire>>

\* The caller's user-verification request.
SetUv(uv) ==
  /\ areq' = [areq EXCEPT !.options.uv = uv]
  /\ UNCHANGED <<awire, aresult>>

\* The request is consumed by the encoder.
Send ==
  /\ awire' = Encoded(areq)
  /\ UNCHANGED <<areq, aresult>>

ANext ==
  \/ \E t \in Tokens : AttachTag(t)
  \/ ClearTag
  \/ TagFailure
  \/ \E uv \in UvValues : SetUv(uv)
  \/ Send

ASpec == AInit /\ [][ANext]_avars

=============================================================================
