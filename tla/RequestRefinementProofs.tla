----------------------- MODULE RequestRefinementProofs -----------------------
(***************************************************************************)
(* Proof that the request encoder of MakeCredentialsRequest implements     *)
(* RequestEncoding under the mapping AbsReq: every encoding Serialize      *)
(* writes (lines 415-463), read back as a map from keys to values, is the  *)
(* map of the fields that are semantically present, declared with their    *)
(* number; and each setter is the abstract operation it stands for.       *)
(***************************************************************************)
EXTENDS MakeCredentialsRequestProofs, FiniteSetTheorems

\* The field values of the abstract request, under their keys.
FV(r) == AbsReq!FieldValue(r)

(***************************************************************************)
(* The nested maps agree: the identifiers has_content tests and the        *)
(* extension map Serialize writes are those the specification lists; the   *)
(* options map likewise.                                                   *)
(***************************************************************************)
LEMMA ExtensionMapsAgree ==
  ASSUME NEW ext \in ExtensionInputs
  PROVE  /\ AbsReq!ExtensionInputMap(ext) = ExtensionsMap(ext)
         /\ ExtensionsMap(ext) = {} <=> ~HasContent(ext)
<1>1. AbsReq!ExtensionInputMap(ext) = ExtensionsMap(ext)
  BY DEF AbsReq!ExtensionInputMap, AbsReq!ExtensionIds, ExtensionsMap
<1>2. ExtensionsMap(ext) = {} <=> ~HasContent(ext)
  BY DEF ExtensionsMap, HasContent
<1>3. QED
  BY <1>1, <1>2

LEMMA OptionMapsAgree ==
  ASSUME NEW opts \in OptionInputs
  PROVE  /\ AbsReq!OptionsInputMap(opts) = OptionsMap(opts)
         /\ OptionsMap(opts) = {} <=> ~HasSome(opts)
<1>1. AbsReq!OptionsInputMap(opts) = OptionsMap(opts)
  BY DEF AbsReq!OptionsInputMap, OptionsMap, OptionInputs, OptBool
<1>2. OptionsMap(opts) = {} <=> ~HasSome(opts)
  <2>1. opts.rk # None => <<"rk", opts.rk>> \in OptionsMap(opts)
    BY DEF OptionsMap
  <2>2. opts.uv # None => <<"uv", opts.uv>> \in OptionsMap(opts)
    BY DEF OptionsMap
  <2>3. ~HasSome(opts) => OptionsMap(opts) = {}
    BY DEF OptionsMap, HasSome
  <2>4. QED
    BY <2>1, <2>2, <2>3 DEF HasSome
<1>3. QED
  BY <1>1, <1>2


\* The fields of a request value, key by key, as Serialize tests them.
LEMMA FieldValues ==
  ASSUME NEW r \in RequestValues
  PROVE  /\ FV(r)[3] = r.user
         /\ FV(r)[5] = r.excludeList
         /\ FV(r)[6] = ExtensionsMap(r.extensions)
         /\ FV(r)[7] = OptionsMap(r.options)
         /\ FV(r)[8] = r.pinUvAuthParam
         /\ r.pinUvAuthParam # None => FV(r)[9] = r.pinUvAuthParam.proto
         /\ r.pinUvAuthParam = None => FV(r)[9] = None
         /\ FV(r)[10] = r.enterpriseAttestation
         /\ FV(r)[1] = "clientDataHash" /\ FV(r)[2] = "rp" /\ FV(r)[4] = "pubCredParams"
<1>1. r.extensions \in ExtensionInputs /\ r.options \in OptionInputs
  BY DEF RequestValues
<1>2. QED
  BY <1>1, ExtensionMapsAgree, OptionMapsAgree DEF FV, AbsReq!FieldValue

(***************************************************************************)
(* The keys the specification calls present are the keys map_len counts    *)
(* (lines 423-439): the fixed four, then one per populated group, two for  *)
(* the auth param.                                                         *)
(***************************************************************************)
PresentByCode(r) ==
  {1, 2, 3, 4}
  \cup (IF r.excludeList # {} THEN {5} ELSE {})
  \cup (IF HasContent(r.extensions) THEN {6} ELSE {})
  \cup (IF HasSome(r.options) THEN {7} ELSE {})
  \cup (IF r.pinUvAuthParam # None THEN {8, 9} ELSE {})
  \cup (IF r.enterpriseAttestation # None THEN {10} ELSE {})

LEMMA PresentKeysAgree ==
  ASSUME NEW r \in RequestValues
  PROVE  AbsReq!PresentKeys(r) = PresentByCode(r)
<1>1. r.extensions \in ExtensionInputs /\ r.options \in OptionInputs
  BY DEF RequestValues
<1>2. /\ ExtensionsMap(r.extensions) = {} <=> ~HasContent(r.extensions)
      /\ OptionsMap(r.options) = {} <=> ~HasSome(r.options)
  BY <1>1, ExtensionMapsAgree, OptionMapsAgree
<1>3. r.pinUvAuthParam # None => r.pinUvAuthParam.proto # None
  <2>1. r.pinUvAuthParam # None => r.pinUvAuthParam.proto \in PinProtocols
    BY DEF RequestValues, Params
  <2>2. QED
    BY <2>1, RequestAssumption
<1>4. QED
  BY <1>2, <1>3, FieldValues DEF AbsReq!PresentKeys, PresentByCode, FV


(***************************************************************************)
(* The entries Serialize writes are those of the present keys, each with   *)
(* the field value the specification puts under it.                        *)
(***************************************************************************)
LEMMA EntrySetFields ==
  ASSUME NEW r \in RequestValues
  PROVE  /\ {e.key : e \in EntrySet(r)} = PresentByCode(r)
         /\ \A e \in EntrySet(r) : e.val = FV(r)[e.key]
<1>1. {e.key : e \in EntrySet(r)} = PresentByCode(r)
  <2>1. \A e \in EntrySet(r) : e.key \in PresentByCode(r)
    BY DEF EntrySet, Entry, PresentByCode
  <2>2. ASSUME NEW k \in PresentByCode(r)
        PROVE  \E e \in EntrySet(r) : e.key = k
    <3>1. CASE k \in {1, 2, 3, 4}
      <4>1. {Entry(1, "clientDataHash"), Entry(2, "rp"), Entry(3, r.user),
             Entry(4, "pubCredParams")} \subseteq EntrySet(r)
        BY DEF EntrySet
      <4>2. QED
        BY <3>1, <4>1 DEF Entry
    <3>2. CASE k = 5
      <4>1. r.excludeList # {}
        BY <3>2 DEF PresentByCode
      <4>2. Entry(5, r.excludeList) \in EntrySet(r)
        BY <4>1 DEF EntrySet
      <4>3. QED
        BY <3>2, <4>2 DEF Entry
    <3>3. CASE k = 6
      <4>1. HasContent(r.extensions)
        BY <3>3 DEF PresentByCode
      <4>2. Entry(6, ExtensionsMap(r.extensions)) \in EntrySet(r)
        BY <4>1 DEF EntrySet
      <4>3. QED
        BY <3>3, <4>2 DEF Entry
    <3>4. CASE k = 7
      <4>1. HasSome(r.options)
        BY <3>4 DEF PresentByCode
      <4>2. Entry(7, OptionsMap(r.options)) \in EntrySet(r)
        BY <4>1 DEF EntrySet
      <4>3. QED
        BY <3>4, <4>2 DEF Entry
    <3>5. CASE k \in {8, 9}
      <4>1. r.pinUvAuthParam # None
        BY <3>5 DEF PresentByCode
      <4>2. Entry(8, r.pinUvAuthParam) \in EntrySet(r)
            /\ Entry(9, r.pinUvAuthParam.proto) \in EntrySet(r)
        BY <4>1 DEF EntrySet
      <4>3. QED
        BY <3>5, <4>2 DEF Entry
    <3>6. CASE k = 10
      <4>1. r.enterpriseAttestation # None
        BY <3>6 DEF PresentByCode
      <4>2. Entry(10, r.enterpriseAttestation) \in EntrySet(r)
        BY <4>1 DEF EntrySet
      <4>3. QED
        BY <3>6, <4>2 DEF Entry
    <3>7. QED
      BY <3>1, <3>2, <3>3, <3>4, <3>5, <3>6 DEF PresentByCode
  <2>3. QED
    BY <2>1, <2>2
<1>2. \A e \in EntrySet(r) : e.val = FV(r)[e.key]
  BY FieldValues DEF EntrySet, Entry
<1>3. QED
  BY <1>1, <1>2

(***************************************************************************)
(* A sequence whose keys strictly increase has as many distinct keys as    *)
(* entries.                                                                *)
(***************************************************************************)
LEMMA IncreasingKeysCount ==
  ASSUME NEW s, NEW n \in Nat, DOMAIN s = 1..n,
         \A i \in 1..n : s[i].key \in Int,
         \A i, j \in 1..n : i < j => s[i].key < s[j].key
  PROVE  Cardinality({s[i].key : i \in 1..n}) = n
<1> DEFINE K == {s[i].key : i \in 1..n}
           f == [i \in 1..n |-> s[i].key]
<1>1. f \in Injection(1..n, K)
  <2>1. f \in [1..n -> K]
    OBVIOUS
  <2>2. \A i, j \in 1..n : f[i] = f[j] => i = j
    <3> SUFFICES ASSUME NEW i \in 1..n, NEW j \in 1..n, i # j
                 PROVE  f[i] # f[j]
      OBVIOUS
    <3>1. CASE i < j
      BY <3>1
    <3>2. CASE j < i
      BY <3>2
    <3>3. QED
      BY <3>1, <3>2
  <2>3. QED
    BY <2>1, <2>2 DEF Injection, IsInjective
<1>2. f \in Surjection(1..n, K)
  BY DEF Surjection
<1>3. ExistsBijection(1..n, K)
  BY <1>1, <1>2 DEF ExistsBijection, Bijection
<1>4. QED
  BY <1>3, FS_CountingElements


(***************************************************************************)
(* The encoding Serialize writes for a request value, read back as a map,  *)
(* is the encoding of the specification: the same keys, the same value     *)
(* under each, and a declared length equal to the number of keys.          *)
(***************************************************************************)
LEMMA EncodedAgrees ==
  ASSUME NEW r \in RequestValues
  PROVE  [count |-> Encode(r).declared,
          map   |-> [k \in WireKeys(Encode(r)) |-> WireValue(Encode(r), k)]]
         = AbsReq!Encoded(r)
<1> DEFINE w == Encode(r)
           m == MapEntries(r)
<1>1. w.entries = m /\ w.declared = Len(m)
  BY EncodeCorrect DEF EncodingOK, Encode
<1>2. m \in Seq(WireEntries) /\ Increasing(m)
  BY EntriesShape
<1>3. /\ Len(m) \in Nat /\ DOMAIN m = 1..Len(m)
      /\ \A i \in 1..Len(m) : m[i].key \in Int
  <2>1. Len(m) \in Nat /\ DOMAIN m = 1..Len(m)
    BY <1>2, LenProperties
  <2>2. \A i \in 1..Len(m) : m[i] \in WireEntries
    BY <1>2, ElementOfSeq
  <2>3. QED
    BY <2>1, <2>2 DEF WireEntries
<1>4. WireKeys(w) = PresentByCode(r)
  <2>1. WireKeys(w) = {e.key : e \in Range(m)}
    BY <1>1 DEF WireKeys, Range
  <2>2. QED
    BY <2>1, EntriesRange, EntrySetFields
<1>5. Cardinality(WireKeys(w)) = Len(m)
  <2>1. WireKeys(w) = {m[i].key : i \in 1..Len(m)}
    BY <1>1, <1>3 DEF WireKeys
  <2>2. \A i, j \in 1..Len(m) : i < j => m[i].key < m[j].key
    BY <1>2, <1>3 DEF Increasing
  <2>3. QED
    BY <1>3, <2>1, <2>2, IncreasingKeysCount
<1>6. ASSUME NEW k \in WireKeys(w)
      PROVE  WireValue(w, k) = FV(r)[k]
  <2>1. \E i \in DOMAIN m : m[i].key = k
    BY <1>1 DEF WireKeys
  <2> DEFINE i0 == CHOOSE i \in DOMAIN m : m[i].key = k
  <2>2. i0 \in DOMAIN m /\ m[i0].key = k
    BY <2>1
  <2>3. m[i0] \in EntrySet(r)
    BY <2>2, EntriesRange DEF Range
  <2>4. m[i0].val = FV(r)[k]
    BY <2>2, <2>3, EntrySetFields
  <2>5. QED
    BY <1>1, <2>4 DEF WireValue
<1>7. AbsReq!Encoded(r) =
        [count |-> Cardinality(PresentByCode(r)),
         map   |-> [k \in PresentByCode(r) |-> FV(r)[k]]]
  BY PresentKeysAgree DEF AbsReq!Encoded, FV, AbsReq!Cardinality, Cardinality
<1>8. QED
  BY <1>1, <1>4, <1>5, <1>6, <1>7


-----------------------------------------------------------------------------
(* The refinement, step by step.                                           *)

\* The mapped wire only depends on wire.
LEMMA MappedWireUnchanged ==
  ASSUME wire' = wire
  PROVE  WireAsMap' = WireAsMap
BY DEF WireAsMap, WireKeys, WireValue

LEMMA RefInit ==
  ASSUME ReqInit
  PROVE  AbsReq!AInit
BY DEF ReqInit, AbsReq!AInit, WireAsMap

LEMMA RefStep ==
  ASSUME ReqInv, [ReqNext]_reqVars
  PROVE  [AbsReq!ANext]_AbsReq!avars
<1>1. CASE ClearPinUvAuthParam
  <2>1. WireAsMap' = WireAsMap
    BY <1>1, MappedWireUnchanged DEF ClearPinUvAuthParam
  <2>2. AbsReq!ClearTag
    BY <1>1, <2>1 DEF ClearPinUvAuthParam, AbsReq!ClearTag
  <2>3. QED
    BY <2>2 DEF AbsReq!ANext
<1>2. ASSUME NEW t \in Tokens, SetPinUvAuthParam(t)
      PROVE  [AbsReq!ANext]_AbsReq!avars
  <2>1. WireAsMap' = WireAsMap
    BY <1>2, MappedWireUnchanged DEF SetPinUvAuthParam
  <2>2. CASE req' = [req EXCEPT !.pinUvAuthParam = Derive(t)] /\ authResult' = "ok"
    <3>1. Derive(t) \in Params /\ Derive(t).proto = t.proto
      BY DEF Derive, Tokens, Params
    <3>2. AbsReq!AttachTag(t)
      BY <2>1, <2>2, <3>1 DEF AbsReq!AttachTag
    <3>3. QED
      BY <3>2 DEF AbsReq!ANext
  <2>3. CASE authResult' = "crypto_error" /\ UNCHANGED <<req, wire>>
    <3>1. AbsReq!TagFailure
      BY <2>1, <2>3 DEF AbsReq!TagFailure
    <3>2. QED
      BY <3>1 DEF AbsReq!ANext
  <2>4. QED
    BY <1>2, <2>2, <2>3 DEF SetPinUvAuthParam
<1>3. ASSUME NEW uv \in OptBool, SetUvOption(uv)
      PROVE  [AbsReq!ANext]_AbsReq!avars
  <2>1. WireAsMap' = WireAsMap
    BY <1>3, MappedWireUnchanged DEF SetUvOption
  <2>2. AbsReq!SetUv(uv)
    BY <1>3, <2>1 DEF SetUvOption, AbsReq!SetUv
  <2>3. QED
    BY <2>2 DEF AbsReq!ANext
<1>4. CASE WireFormat
  <2>1. req \in RequestValues
    BY DEF ReqInv
  <2>2. wire' = Encode(req) /\ Encode(req) # None
    BY <1>4, <2>1, EncodingAssumption DEF WireFormat
  <2>3. WireAsMap' = AbsReq!Encoded(req)
    BY <2>1, <2>2, EncodedAgrees DEF WireAsMap
  <2>4. AbsReq!Send
    BY <1>4, <2>3 DEF WireFormat, AbsReq!Send
  <2>5. QED
    BY <2>4 DEF AbsReq!ANext
<1>5. CASE UNCHANGED reqVars
  <2>1. WireAsMap' = WireAsMap
    BY <1>5, MappedWireUnchanged DEF reqVars
  <2>2. QED
    BY <1>5, <2>1 DEF reqVars, AbsReq!avars
<1>6. QED
  BY <1>1, <1>2, <1>3, <1>4, <1>5 DEF ReqNext

(***************************************************************************)
(* The request encoder implements RequestEncoding: under the mapping       *)
(* AbsReq, every wire_format call sends the map of the semantically        *)
(* present fields with their current values and their true count, and     *)
(* set_pin_uv_auth_param and set_uv_option are the abstract operations of   *)
(* spec.md 4.4, for every set of tokens and pin protocols.                 *)
(***************************************************************************)
THEOREM EncodeRefinement == ReqSpec => EncodeRefinesRequest
<1>1. ReqSpec => []ReqInv
  BY ReqInvariant
<1>2. QED
  BY <1>1, RefInit, RefStep, PTL DEF ReqSpec, EncodeRefinesRequest, AbsReq!ASpec

=============================================================================
