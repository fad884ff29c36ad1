---------------------- MODULE AttestationObjectFormat ----------------------
(***************************************************************************)
(* What the decoder of a CTAP2 authenticatorMakeCredential response map    *)
(* guarantees, stated over the whole map at once.  A response map is a     *)
(* sequence of entries <<key, value>> in wire order.  The map decodes to   *)
(* an attestation object exactly when it is well formed; otherwise the     *)
(* decoder fails with an error that the map justifies.                     *)
(* MakeCredentialsDecoder streams over the same map and is shown to        *)
(* implement this specification.  spec.md section 4.2 promises more: that  *)
(* keys other than 1-3 are ignored (FieldsWellFormed); the code rejects    *)
(* them, so WellFormed also asks that no other key occurs.                 *)
(***************************************************************************)
EXTENDS Integers, Sequences

CONSTANTS
  MaxEntries,      \* the longest response map considered
  IntKeys,         \* integer map keys a device may send: 1, 2, 3 and others
  NonIntKeys,      \* map keys that are not integers (e.g. text keys)
  TextStrings,     \* CBOR text strings a device may send as the fmt value
  ValidAuthData,   \* byte strings that parse as AuthenticatorData
  MalformedBytes,  \* a byte string that does not parse as AuthenticatorData
  EmptyMap,        \* the CBOR map {}
  PackedMap,       \* a map with the shape of a "packed" attestation statement
  U2fMap,          \* a map with the shape of a "fido-u2f" attestation statement
  None             \* Option::None

\* The three formats the visitor knows (make_credentials.rs lines 157-177).
KnownFormats == {"none", "packed", "fido-u2f"}

MapValues == {EmptyMap, PackedMap, U2fMap}

Values == TextStrings \cup ValidAuthData \cup {MalformedBytes} \cup MapValues

Keys == IntKeys \cup NonIntKeys

ASSUME KeysAssumption == {1, 2, 3} \subseteq IntKeys /\ IntKeys \subseteq Int
ASSUME BoundAssumption == MaxEntries \in Nat
ASSUME ValuesAssumption ==
  /\ NonIntKeys \cap Int = {}
  /\ KnownFormats \subseteq TextStrings
  /\ MalformedBytes \notin ValidAuthData
  /\ EmptyMap # PackedMap /\ EmptyMap # U2fMap /\ PackedMap # U2fMap
  /\ TextStrings \cap (ValidAuthData \cup {MalformedBytes}) = {}
  /\ (TextStrings \cup ValidAuthData \cup {MalformedBytes}) \cap MapValues = {}
  /\ None \notin Values

Entries == [key : Keys, val : Values]

\* The maps of at most MaxEntries entries (written so that TLC tests
\* membership without enumerating the set).
IsInput(inp) == \E n \in 0..MaxEntries : inp \in [1..n -> Entries]

\* The attestation-statement shape each known format decodes with.
StmtShape == [f \in KnownFormats |->
                IF f = "none" THEN EmptyMap
                ELSE IF f = "packed" THEN PackedMap ELSE U2fMap]

\* A decoded attestation statement: its format and the map it came from.
Stmts == [fmt : KnownFormats, body : MapValues]

ASSUME NoneAssumption == None \notin Stmts

FieldKey == [fmt |-> 1, authData |-> 2, attStmt |-> 3]
Fields == DOMAIN FieldKey

Pending == [status |-> "pending"]
Ok(a, s) == [status |-> "ok", authData |-> a, attStmt |-> s]
Err(kind, field) == [status |-> "error", kind |-> kind, field |-> field]

ErrorKinds == {"duplicate_field", "missing_field", "invalid_value",
               "unknown_format", "invalid_key", "trailing_data"}
Errors == [status : {"error"}, kind : ErrorKinds, field : Fields \cup {"key"}]
Results == {Pending} \cup Errors
             \cup [status : {"ok"}, authData : ValidAuthData, attStmt : Stmts]

-----------------------------------------------------------------------------
(* Reference definitions over a whole map inp.                             *)

\* Positions of inp that carry key k.
At(inp, k) == {i \in DOMAIN inp : inp[i].key = k}

\* Each of fmt, authData and attStmt at most once, authData and attStmt
\* present, fmt before attStmt, and every value of the type its key and the
\* format call for: well formed in the sense of spec.md section 4.2, which
\* ignores any other key.
FieldsWellFormed(inp) ==
  /\ \A k \in {1, 2, 3} : \A i, j \in At(inp, k) : i = j
  /\ At(inp, 2) # {} /\ At(inp, 3) # {}
  /\ \A i \in At(inp, 3) : \E j \in At(inp, 1) : j < i
  /\ \A i \in At(inp, 1) : inp[i].val \in KnownFormats
  /\ \A i \in At(inp, 2) : inp[i].val \in ValidAuthData
  /\ \A i \in At(inp, 3), j \in At(inp, 1) : inp[i].val = StmtShape[inp[j].val]

\* The maps the decoder accepts: well formed, and no key other than 1-3.
WellFormed(inp) ==
  /\ \A i \in DOMAIN inp : inp[i].key \in {1, 2, 3}
  /\ FieldsWellFormed(inp)

\* The attestation object a well-formed map carries.
Decoded(inp) ==
  LET a == inp[CHOOSE i \in At(inp, 2) : TRUE]
      f == inp[CHOOSE i \in At(inp, 1) : TRUE]
      s == inp[CHOOSE i \in At(inp, 3) : TRUE]
  IN  Ok(a.val, [fmt |-> f.val, body |-> s.val])

\* An error is justified when the map really has the defect it names.
Justified(inp, e) ==
  \/ /\ e.kind = "duplicate_field" /\ e.field \in Fields
     /\ \E i, j \in At(inp, FieldKey[e.field]) : i # j
  \/ /\ e = Err("missing_field", "fmt")
     /\ \E i \in At(inp, 3) : \A j \in At(inp, 1) : i < j
  \/ /\ e \in {Err("missing_field", "authData"), Err("missing_field", "attStmt")}
     /\ At(inp, FieldKey[e.field]) = {}
  \/ /\ e = Err("invalid_value", "fmt")
     /\ \E i \in At(inp, 1) : inp[i].val \notin TextStrings
  \/ /\ e = Err("invalid_value", "authData")
     /\ \E i \in At(inp, 2) : inp[i].val \notin ValidAuthData
  \/ /\ e = Err("invalid_value", "attStmt")
     /\ \E i \in At(inp, 3), j \in At(inp, 1) :
          j < i /\ inp[j].val \in KnownFormats /\ inp[i].val # StmtShape[inp[j].val]
  \/ /\ e = Err("unknown_format", "attStmt")
     /\ \E j \in At(inp, 1) : inp[j].val \in TextStrings \ KnownFormats
  \/ /\ e \in {Err("invalid_key", "key"), Err("trailing_data", "key")}
     /\ \E i \in DOMAIN inp : inp[i].key \notin {1, 2, 3}

-----------------------------------------------------------------------------
VARIABLES input, result

absVars == <<input, result>>

Init == IsInput(input) /\ result = Pending

\* One decode of the whole map.
Decode ==
  /\ result = Pending
  /\ IF WellFormed(input)
       THEN result' = Decoded(input)
       ELSE result' \in {e \in Errors : Justified(input, e)}
  /\ UNCHANGED input

Spec == Init /\ [][Decode]_absVars

=============================================================================
