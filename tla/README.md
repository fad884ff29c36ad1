# TLA+ models of the MakeCredentials command

This directory holds TLA+ models, TLC configurations and TLAPS proofs for
`src/src/ctap2/commands/make_credentials.rs`. That file is the command a
client sends to a security key to create a credential. It covers:

- **building the request**: `MakeCredentials::new`, the option and extension
  groups, and `set_pin_uv_auth_param`/`set_uv_option`;
- **encoding the request**: `Serialize`, with its CTAP2 integer-keyed CBOR map
  (`map_len` and the entries), and `wire_format`;
- **choosing whether user verification may be skipped**:
  `can_skip_user_verification`;
- **turning the device's answer into a `MakeCredentialsResult`**:
  - the CTAP2 path: `handle_response_ctap2` and the serde visitor `visit_map`;
  - the CTAP1/U2F path: `handle_response_ctap1` and `from_ctap1`;
  - the virtual-device path: `send_to_virtual_device`;
  - `finalize_result`, which reconciles the result with the request and the
    device's capability snapshot.

The transport, the CBOR library (serde_cbor), the crypto backend, the
`AuthenticatorInfo` type and the CTAP1 APDU type live outside `src/`.

## Inventory

| Part of the system | Source lines | Module | Status |
|---|---|---|---|
| Response map decoder (`MakeCredentialsResultVisitor::visit_map`, with `from_slice`'s trailing-data check) | 115-202, 541 | `MakeCredentialsDecoder`, abstract `AttestationObjectFormat`, proofs `MakeCredentialsDecoderProofs` | modelled, refinement proved |
| Request construction (`new`, options, extensions) | 206-309 | `MakeCredentialsRequest`, proofs `MakeCredentialsRequestProofs` | modelled, invariants proved |
| Request encoding (`Serialize`, `wire_format`) | 415-463, 518-520 | `MakeCredentialsRequest`, abstract `RequestEncoding`, proofs `MakeCredentialsRequestProofs`, `RequestRefinementProofs` | modelled, invariants and refinement proved |
| PIN/UV auth binding (`set_pin_uv_auth_param`, `set_uv_option`) | 358-376 | `MakeCredentialsRequest`, abstract `RequestEncoding`, proofs `MakeCredentialsRequestProofs`, `RequestRefinementProofs` | modelled, invariants and refinement proved |
| UV skip policy (`can_skip_user_verification`) | 382-408 | `MakeCredentialsRequest`, proofs `MakeCredentialsRequestProofs` | modelled, table proved |
| Legacy response parser (`from_ctap1`) | 44-112 | `MakeCredentialsResponse`, proofs `LegacyLayoutProofs` | modelled, layout proved |
| Answer handlers (`handle_response_ctap2`, `handle_response_ctap1`, both `send_to_virtual_device`) | 481-509, 522-561 | `MakeCredentialsResponse`, abstract `ResponseContract`, proofs `MakeCredentialsResponseProofs`, `ResponseContractProofs` | modelled, invariants and refinement proved |
| Result reconciliation (`finalize_result`) | 311-354 | `MakeCredentialsResponse`, proofs `MakeCredentialsResponseProofs` | modelled, table proved |
| Capability snapshot (`AuthenticatorInfo`, `max_supported_version`) | outside `src/` | `AuthenticatorInfo` | modelled from spec.md section 3 |
| Legacy request formatting (`ctap1_format`) | 469-479 | none | not modelled: fixed concatenation of two hashes, no branch, no state |
| Unit tests and fixtures | 564-1063 | none | not modelled |

## How the modules correspond to the code

### `AttestationObjectFormat` (abstract)

This module states what decoding an attestation-object map promises, as one
step. The input is a finite sequence of `[key, val]` entries.

- The decode ends in `Ok(authData, attStmt)` when the input is `WellFormed`.
- Otherwise it ends in some error that `Justified` allows: an error that names
  a real defect of the input, such as a duplicate, a missing field, a value of
  the wrong kind, an unknown format, or a key other than 1-3.

There are two notions of well formed:

- `FieldsWellFormed` is spec.md's notion (section 4.2): keys other than 1-3
  are ignored.
- `WellFormed` additionally requires that every key is 1, 2 or 3. This
  matches what the code does; see the findings.

### `MakeCredentialsDecoder` (detailed)

This module models the streaming visitor, one map entry per step.

**Variables:**

- `pos`, the number of entries consumed;
- `format`, `authData` and `attStmt`, which are lines 133-135;
- `unread`, which is TRUE after an unknown key was skipped without reading its
  value;
- `input` and `result`, which are shared with the abstract module.

**Actions**, one per arm of the `match` at line 138 and one per early return:

- `ReadBadKey`: a key that is not an integer fails at `next_key` (line 137).
- `ReadFmt`, `ReadAuthData` and `ReadAttStmt` (lines 139-179). Each covers the
  duplicate check, the value's kind and, for attStmt, the
  missing-format/unknown-format/none-must-be-empty branches in code order.
- `SkipEntry` (line 180): `_ => continue` does not call `next_value`.
  serde_cbor's `MapAccess` counts each `next_key` against the map length and
  does not enforce alternation. So the value stays in the stream (`unread`).
- `ReadValueAsKey`: the next `next_key` then decodes that value as an `i32`.
  Every value kind of an attestation object (text, bytes, map) fails there.
- `EndOfMap` (lines 184-196 and 541): first missing authData, then missing
  attStmt; then, when a skipped value is still unread, `from_slice`'s
  trailing-data error; then `Ok`.

The abstract module is instantiated with `input` and `result` and no further
mapping. `DecodeRefinesFormat == Abstract!Spec` is the refinement property.

### `MakeCredentialsRequest`

This module models the request and its encoding.

**The request.** `Requests` enumerates what `MakeCredentials::new` can build.
In each request:

- user is present or absent;
- each option is `None`, `TRUE` or `FALSE`;
- each extension is present or absent;
- enterprise attestation is present or absent.

**Actions.** The state is the request (`req`). The actions are the three
outcomes of `set_pin_uv_auth_param`:

- no token: the param is cleared;
- a token whose derivation succeeds: the param is `Derive(token)`, which
  records the token and its protocol;
- a failing derivation: the request is unchanged, because `?` returns before
  the assignment.

`set_uv_option` is the fourth action.

**Encoding.** `Encode(req)` is `Serialize`:

- `MapLen` is the count at lines 421-439;
- `MapEntries` is the ordered sequence of `(key, value)` pairs written at
  lines 440-461;
- `If` stands for each `if let Some` / `has_some` / `has_content` guard.

**Refinement.** `RequestEncoding` states the request side of spec.md
(sections 3, 4.1, 4.4, 6) over whole values. The encoding there is a map from
the fixed keys of the present fields to their values: keys 1-4 always, 5-7
when the group is non-empty, 8 and 9 with the tag, 10 with enterprise
attestation. Its count is the number of those keys. The setters are the
`set_auth_tag` operations of 4.4, and a failed derivation leaves the request
unchanged. `AbsReq` instantiates it: `wire` is read back as the map
`[k \in WireKeys(wire) |-> WireValue(wire, k)]` with its declared length
(`WireAsMap`). Because that map loses the entry order and counts each key
once, the refinement says that the declared count equals the number of
distinct keys written and that each key holds the right value. It says
neither that no key is written twice nor that the order is canonical:
`CanonicalKeyOrder` (keys strictly increasing) covers both, and with it the
count is also the number of entries. One departure is recorded in the abstract
module: key 3 is present even without a user, as the code writes it (finding
1).

`CanSkipUserVerification` translates lines 382-408 over the fields of the
capability snapshot.

### `AuthenticatorInfo`

This module holds the fields of the snapshot that this file reads: versions
(a non-empty set), options `platformDevice`/`rk`/`uv`/`clientPin`/
`makeCredUvNotRqd`/`alwaysUv`, and `max_supported_version`. It is modelled from spec.md because the type lives
outside `src/`.

### `MakeCredentialsResponse`

One state per exchange. `RespInit` picks:

- a request;
- a capability snapshot (or none);
- a transport (`ctap2`, `ctap1` or `virtual`);
- the device's answer:
  - for CTAP2, a byte string of length 0, 1 or 2+, with an ok or error status
    and a body that decodes to the attestation object, to some other CBOR
    value, or to nothing;
  - for CTAP1, an APDU status and response bytes over a small alphabet.

A single step, `HandleCtap2`, `HandleCtap1` or `HandleVirtual`, sets
`outcome`. Each handler follows its function's early returns in order and
ends, when it succeeds, with `Finalize`, which is `finalize_result`:

- the attachment from the transport;
- credProps when it was requested and the rk outcome is certain;
- hmacCreateSecret when it was requested and the device reported it.

`LegacyParse(bytes)` is `from_ctap1`. It goes through the marker byte, the
65-byte key (`KeyLen` in the model), the id length, the id, the certificate
and the key decode, in that order. Each failure is a `Deserializing` error
that names the field, and a wrong marker also carries the byte received. The
certificate parser and the EC-key decoder are constant predicates
`CertParses` and `KeyParses`, because they are collaborators outside `src/`.
The MC module gives them a concrete meaning: the first byte is 0x30 (DER
SEQUENCE) or 0x04 (uncompressed point).

**Refinement.** `ResponseContract` states spec.md 4.5, 4.6 and 7 for one
exchange. It works over the class of the answer (`ok`, `none` for an empty
CTAP2 frame, `okNoBody` for a CTAP2 frame holding a success status alone,
`conditionsNotSatisfied`, `error`) and its status code:

- `conditionsNotSatisfied`, and only it, gives `Retry`;
- any other error is fatal, and a CTAP1 one is `ApduStatus` with its status;
- `none` and `okNoBody` give `InputTooSmall` (spec.md 7: shorter than the
  minimum viable frame), so a bare success status never reaches the decoder
  (lines 527-535);
- a success answer with a body gives `Deserializing` or a result reconciled
  as in 4.5.

`Contract` instantiates it, and `AnswerClass` reads the class off the APDU
status, the CTAP2 length and status byte, or the virtual device's error.

## Runs

| Run | Config | Expect | What it shows |
|---|---|---|---|
| decoder_maps3 | `MCMakeCredentialsDecoder.cfg` | pass (218,070 states) | every map of at most 3 entries over keys {1,2,3,4} and a text key, and every value kind, decodes as the abstract decode allows (`DecodeRefinesFormat`), type-correctly |
| decoder_maps4 | `MCMakeCredentialsDecoderLong.cfg` | pass (2.6M states) | `DecodeRefinesFormat` with 4 entries: a field can repeat after a complete object, and an unknown key can sit among the three known ones |
| decoder_unknown_keys | `MCMakeCredentialsDecoderUnknownKeys.cfg` | violation | `UnknownKeysIgnored` fails; see finding 2 |
| request | `MCMakeCredentialsRequest.cfg` | pass (188,928 states) | for every request and every sequence of auth-param/uv-option calls: the map header equals the entry count; keys are strictly increasing (canonical CTAP2 order); no empty options or extensions map is written; and the skip policy matches spec.md's table |
| request_refinement | `MCMakeCredentialsRequestRefinement.cfg` | pass (188,928 states) | the same behaviours are behaviours of `RequestEncoding` under `AbsReq` (`EncodeRefinesRequest`) |
| request_null | `MCMakeCredentialsRequestNull.cfg` | violation | `NoNullEntries` fails; see finding 1 |
| response | `MCMakeCredentialsResponse.cfg` | pass (59,292 states) | every CTAP2/virtual answer, request option and snapshot: the outcome is typed, and the result's attachment, credProps and hmacCreateSecret follow spec.md section 4.5 (`ReconciledOutputs`) |
| response_legacy | `MCMakeCredentialsResponseLegacy.cfg` | pass (39,066 states) | every U2F answer of up to 6 bytes over {0,1,4,5,0x30} is accepted exactly when it has the legacy layout, and is cut at the layout's boundaries (`LegacyLayoutParsed`); a wrong marker is reported with the byte received, whatever the length (`LegacyMarkerNamed`) |
| response_contract | `MCMakeCredentialsResponseContract.cfg` | pass (1.19M states) | every answer on the three paths (CTAP1 answers up to 4 bytes with `KeyLen = 1`, so that a well-formed one fits) ends as `ResponseContract` allows (`HandlersMeetContract`) |
| response_status | `MCMakeCredentialsResponseStatus.cfg` | violation | `StatusCodeSurfaces` fails; see finding 3 |

Every property of a passing run has a mutant in `PROJECT.json`: a plausible bug
in the mapped definition that the run then reports.

### Bounds and why they are enough

**Decoder.** A well-formed map needs three entries. Three entries give every
order of the three fields and every early error. Four add a repeat after a
complete object and an unknown key among a complete object, which is the
scenario of finding 2. Values are one of each kind:

- a valid and an invalid authData;
- a text that is a known format and one that is not;
- the three statement maps (empty, packed, u2f).

The decoder branches on nothing finer.

**Request.** Every combination of optional groups, and two tokens with
different protocols. With these, a stale or mismatched protocol shows up.

**Legacy parser.** The key is shortened to `KeyLen = 2` bytes. The offsets are
`1 + KeyLen` and `2 + KeyLen + idLen`, so the arithmetic is the code's at a
smaller constant. Six bytes allow:

- an id of length 0 or 1;
- a certificate byte;
- truncation at every boundary.

The byte alphabet includes the marker, the certificate and key tags, and
values that are neither.

### Fairness and deadlock

Every spec here is a terminating computation: one decode, one sequence of
setter calls, one exchange. No liveness is claimed and no fairness is assumed.
The runs use `CHECK_DEADLOCK FALSE` because a finished decode or exchange
really stops. The request model cycles through its setters forever and has no
deadlock to hide.

## Findings

1. **Null user entry** (`request_null`, line 443). `Serialize` always writes
   key 0x03 with `&self.user`, and `map_len` starts at 4. A request without a
   user therefore carries `3: null`, while spec.md (sections 3 and 6) says
   absent optional fields are omitted.
2. **Unknown response keys are fatal** (`decoder_unknown_keys`, line 180, and
   line 137 for non-integer keys). `continue` skips the key but not its value.
   The value is then read as a key and fails, or it is left as trailing data
   that `from_slice` rejects. spec.md (sections 4.2 and 8) promises that
   unknown keys are ignored. This rests on serde_cbor's `MapAccess` semantics,
   which are outside `src/`: `next_key` does not enforce alternation.
3. **Status code lost** (`response_status`, line 545). An error status whose
   diagnostic body is not CBOR makes `from_slice::<Value>(..)?` return
   `Deserializing`, and the status code is never reported. spec.md (sections
   4.6 and 7) says any non-success status is a `StatusCode` error.

## What is proved

### The response map decoder (`MakeCredentialsDecoderProofs`)

`MakeCredentialsDecoderProofs` proves, for every value of the constants:

- **`DecTypeCorrect`**: `DecSpec => []DecTypeOK`.
- **`DecInvariant`**: `DecSpec => []DecInv`, where `DecInv` is the
  conjunction of two invariants:
  - `PrefixInv` says that while decoding, the state summarises the prefix read
    so far. Every key consumed is 1-3, except a skipped one that is still
    `unread`. Each of `format`, `authData` and `attStmt` is the value of the
    unique entry with its key, or `None` when that key has not occurred.
    attStmt is set only after fmt. Every value held has the right kind.
  - `FinalInv` says that when a result is reached, either it is `Ok` of the
    decoded object of a `WellFormed` input, or it is an error that `Justified`
    allows.
- **`DecRefinement`**: `DecSpec => DecodeRefinesFormat`. The initial states
  map to the abstract initial states, and every step is either a stutter
  (while `result` stays pending) or the abstract `Decode` step (when `result`
  is set).

`DecTypeOK` and `FinalInv` alone are not inductive. A step that ends the
decode must know that the fields it holds are exactly those of the prefix,
which is what `PrefixInv` records. The `unread` conjuncts carry the
unknown-key case to the `ReadValueAsKey` and `EndOfMap` steps. Small lemmas
do one step each: how a read extends the prefix, and why an unread value
justifies `invalid_key`/`trailing_data`. The assumptions are the named `ASSUME`s of `AttestationObjectFormat`:

- `KeysAssumption`: 1, 2 and 3 are integer keys.
- `BoundAssumption`: `MaxEntries \in Nat`.
- `ValuesAssumption`:
  - non-integer keys are not integers;
  - the known formats are texts;
  - the kinds of values (text, bytes, map) are pairwise disjoint;
  - `None` is no value.
- `NoneAssumption`: `None` is no decoded statement.

### The request encoder (`MakeCredentialsRequestProofs`)

- **`ReqInvariant`**: `ReqSpec => []ReqInv`. `ReqInv` says the request is a
  `RequestValues` record (a value `new` builds, with any param attached), and
  `wire` is `None` or `Encode(r)` for some such record `r`.
- **`ReqTypeCorrect`**, **`LengthDeclared`**, **`KeysCanonical`**,
  **`OptionalGroupsNonEmpty`**: `ReqTypeOK`, `DeclaredLengthMatches`,
  `CanonicalKeyOrder` and `NoEmptyOptionalGroups` hold in every state.
  (That keys 8 and 9 are written together, with 9 naming the protocol of
  the param in 8, is part of `EncodeRefinement` below.)
- **`CanSkipCorrect`**: `CanSkipMatchesSpec` holds for every request,
  snapshot and relying-party requirement.

None of the wire properties is inductive on its own: `wire` is produced by
`WireFormat` from whatever `req` holds, so the invariant has to describe every
encoding that can exist. `ReqInv` does that by saying `wire` is an encoding of
a reachable request. The central lemma, `EncodeCorrect`, then states all the
wire properties of `Encode(r)` for every `r \in RequestValues`. Its proof
splits `MapEntries(r)` into the four fixed entries followed by the five
optional groups (`EntriesAsGroups`). It shows that each group is empty or has
the keys of its slot (`GroupFacts`, `GroupLengths`). It then follows the
concatenation one group at a time (`EntriesShape`, using `ConcatIncreasing`),
which gives both the length and the strictly increasing keys. The assumption
is `RequestAssumption`: the pin protocols are naturals, and `None` is neither
a natural nor a Boolean.

### The response handlers (`MakeCredentialsResponseProofs`, `LegacyLayoutProofs`)

- **`ReconciledCorrect`**, **`MarkerNamedCorrect`**, **`RespTypeCorrect`**:
  `ReconciledOutputs`, `LegacyMarkerNamed` and `RespTypeOK` hold in every
  state.
- **`LayoutParsedCorrect`**: `LegacyLayoutParsed` holds in every state, for
  every `KeyLen`, `MaxLen` and byte alphabet.

An exchange takes one handler step and then stops, since every handler is
guarded by `outcome = None`. So the invariant `RespInv` only adds the types of
`rq`, `info` and `transport` and the kinds of outcome to the properties.
`FinalizeTable` evaluates `finalize_result` on a fresh result: it matches the
table of spec.md 4.5. Its proof rests on `MaxVersionIsFido20`: the newest
listed version is FIDO_2_0 exactly when FIDO_2_0 is listed and neither 2.1
revision is.

The layout proof adds `DataTyped` (a legacy answer is a sequence of naturals)
to the invariant. Everything else follows from three lemmas about
`from_ctap1`'s cursor arithmetic:

- `LayoutSplit`: for any `d`, key length `k` and id length `il` with
  `2 + k + il <= Len(d)`, concatenating `<<5>>`, the key slice, `<<il>>`, the
  id slice and the tail gives back `d` exactly when `d[1] = 5` and
  `d[2 + k] = il`.
- `ParseAccepts`: an accepted input has that layout, with `il` equal to the
  length byte, and the result holds those slices.
- `ParseRejects`: an input with the layout for some `il` is accepted, because
  the length byte must then be `il`.

The assumption is `ResponseAssumption`: the key length and the input bound are
naturals, the bytes lie in `0..255`, the requests and snapshots have the types
`finalize_result` reads, and `None` is neither a Boolean nor a snapshot.

One detail matters for the proofs. In `AuthenticatorInfo` the versions field
is written `(SUBSET VersionSet) \ {{}}` with explicit parentheses. Without
them, TLC and the proof system parse the expression differently.

### The refinements (`RequestRefinementProofs`, `ResponseContractProofs`)

- **`EncodeRefinement`**: `ReqSpec => EncodeRefinesRequest`, for every set
  of tokens and pin protocols.
- **`ContractRefinement`**: `RespSpec => HandlersMeetContract`.
- **`FinalizeIdempotent`**: `finalize_result` applied to a result it has
  already completed returns that result unchanged (spec.md 8).

Both refinements follow the usual layout. The initial states map to initial
states (`RefInit`, `ContractInit`). Under the invariant, every step maps to an
abstract step or a stutter (`RefStep`, `ContractStep`). PTL then combines
these with `ReqInvariant` or `RespInv`.

Only the encoding step of the request needs real work, which
`EncodedAgrees` does:

1. `EntriesRange` (the entries written are `EntrySet(r)`) and
   `EntrySetFields` show that the keys written are `PresentByCode(r)`, and
   that each entry holds the field value under its key.
2. `ExtensionMapsAgree` and `OptionMapsAgree` show that `has_content` and
   `has_some` are exactly "the nested map is non-empty".
3. `PresentKeysAgree` then identifies `PresentByCode(r)` with the abstract
   `PresentKeys(r)`.
4. `IncreasingKeysCount` shows that a sequence with strictly increasing keys
   has as many distinct keys as entries, through `FS_CountingElements` of
   `FiniteSetTheorems`.

The refinement rests on one more assumption, `EncodingAssumption`: no
`Encode(r)` equals `None` (`wire_format` returns bytes, not an `Option`).
Without it, the mapping could not tell a produced encoding from "not yet
encoded". TLC evaluates the assumption on every request run.

On the response side, `FinalizeTable` gives the reconciled outputs, and
`LegacyParseKind` shows that a failed legacy parse is `Deserializing`; the
CTAP2 case splits on the frame length so that an empty or bare-status frame
meets the `InputTooSmall` arm of the contract.

## Only model-checked

Every property that a passing run checks now also has a theorem. What stays
with TLC alone:

- `UnknownKeysIgnored`, `NoNullEntries` and `StatusCodeSurfaces`. These are
  violation runs: each shows a disagreement with spec.md on a concrete trace,
  and a false property has no proof.
- The mutants. Each one shows that a plausible bug in the mapped code breaks
  the property of its run.

TLAPS is not used for liveness, for `ENABLED`, or for induction over data. No
property here needs them: an exchange is a single step, and the request
operations are independent single steps.

## Not modelled

- `ctap1_format`: pure byte concatenation.
- The transport loop that resends after `Retry` (outside `src/`).
- The CBOR encoding of values: the model stops at the entry sequence.
- Cryptographic checks of the attestation.
- The unit tests.

## Plan for later work

- Compose the decoder with `HandleCtap2`, so the answer body is a map that is
  decoded step by step instead of a decode outcome.
- Model the caller's retry on `Retry` and the PIN token refresh, so that
  sending the stale auth param of a failed derivation (line 366) can be
  judged. `EncodeRefinesRequest` already pins that the failed call leaves the
  request as it was.
