----------------------- MODULE MakeCredentialsDecoder -----------------------
(***************************************************************************)
(* The streaming visitor that decodes the CBOR map of a CTAP2              *)
(* authenticatorMakeCredential response into an AttestationObject:         *)
(* MakeCredentialsResultVisitor::visit_map, make_credentials.rs 115-202.   *)
(* One action per arm of the `match key`; each step consumes one key.      *)
(* The map is chosen in Init among all maps of at most MaxEntries entries. *)
(***************************************************************************)
EXTENDS AttestationObjectFormat

VARIABLES
  pos,        \* entries of input consumed so far
  format,     \* `format: Option<&str>`
  authData,   \* `auth_data: Option<AuthenticatorData>`
  attStmt,    \* `att_stmt: Option<AttestationStatement>`
  unread      \* a skipped key's value is still in the stream

vars == <<input, result, pos, format, authData, attStmt, unread>>

DecInit ==
  /\ IsInput(input)
  /\ result = Pending
  /\ pos = 0
  /\ format = None
  /\ authData = None
  /\ attStmt = None
  /\ unread = FALSE

\* `while let Some(key) = map.next_key()?` has produced a key.  serde_cbor
\* counts next_key calls against the map length, so pos is both the number
\* of keys read and of entries consumed as long as every value is read.
Active == result = Pending /\ pos < Len(input) /\ ~unread

Cur == input[pos + 1]

\* An early `return Err(..)` out of visit_map.
Fail(e) ==
  /\ result' = e
  /\ UNCHANGED <<input, pos, format, authData, attStmt, unread>>

\* `next_key()?` fails: the key does not deserialize as an integer.
ReadBadKey ==
  /\ Active
  /\ Cur.key \in NonIntKeys
  /\ Fail(Err("invalid_key", "key"))

(***************************************************************************)
(* Mutants: plausible bugs in the visitor, each defined before the action  *)
(* it replaces.                                                            *)
(***************************************************************************)
\* fmt taken whatever the type of its value.
ReadFmtAnyValue ==
  /\ Active
  /\ Cur.key = 1
  /\ \/ format # None /\ Fail(Err("duplicate_field", "fmt"))
     \/ /\ format = None
        /\ format' = Cur.val
        /\ pos' = pos + 1
        /\ UNCHANGED <<input, result, authData, attStmt, unread>>

\* The `format.is_some()` check dropped: a second fmt overwrites the first.
ReadFmtNoDupCheck ==
  /\ Active
  /\ Cur.key = 1
  /\ \/ Cur.val \notin TextStrings /\ Fail(Err("invalid_value", "fmt"))
     \/ /\ Cur.val \in TextStrings
        /\ format' = Cur.val
        /\ pos' = pos + 1
        /\ UNCHANGED <<input, result, authData, attStmt, unread>>

\* The `!map.is_empty()` check of the "none" format dropped.
ReadAttStmtNoneUnchecked ==
  /\ Active
  /\ Cur.key = 3
  /\ \/ format = None /\ Fail(Err("missing_field", "fmt"))
     \/ format # None /\ attStmt # None /\ Fail(Err("duplicate_field", "attStmt"))
     \/ /\ format # None /\ attStmt = None
        /\ format \notin KnownFormats
        /\ Fail(Err("unknown_format", "attStmt"))
     \/ /\ format \in KnownFormats /\ attStmt = None
        /\ format # "none" /\ Cur.val # StmtShape[format]
        /\ Fail(Err("invalid_value", "attStmt"))
     \/ /\ format \in KnownFormats /\ attStmt = None
        /\ Cur.val = StmtShape[format] \/ (format = "none" /\ Cur.val \in MapValues)
        /\ attStmt' = [fmt |-> format, body |-> Cur.val]
        /\ pos' = pos + 1
        /\ UNCHANGED <<input, result, format, authData, unread>>

\* Key 1 (fmt): reject a repeat, then `map.next_value()?` as a text string.
ReadFmt ==
  /\ Active
  /\ Cur.key = 1
  /\ \/ format # None /\ Fail(Err("duplicate_field", "fmt"))
     \/ /\ format = None
        /\ Cur.val \notin TextStrings
        /\ Fail(Err("invalid_value", "fmt"))
     \/ /\ format = None
        /\ Cur.val \in TextStrings
        /\ format' = Cur.val
        /\ pos' = pos + 1
        /\ UNCHANGED <<input, result, authData, attStmt, unread>>

\* Key 2 (authData): reject a repeat, then parse AuthenticatorData.
ReadAuthData ==
  /\ Active
  /\ Cur.key = 2
  /\ \/ authData # None /\ Fail(Err("duplicate_field", "authData"))
     \/ /\ authData = None
        /\ Cur.val \notin ValidAuthData
        /\ Fail(Err("invalid_value", "authData"))
     \/ /\ authData = None
        /\ Cur.val \in ValidAuthData
        /\ authData' = Cur.val
        /\ pos' = pos + 1
        /\ UNCHANGED <<input, result, format, attStmt, unread>>

\* Key 3 (attStmt): fmt must be known already, no repeat, then the value
\* is decoded with the shape the format string selects.
ReadAttStmt ==
  /\ Active
  /\ Cur.key = 3
  /\ \/ format = None /\ Fail(Err("missing_field", "fmt"))
     \/ format # None /\ attStmt # None /\ Fail(Err("duplicate_field", "attStmt"))
     \/ /\ format # None /\ attStmt = None
        /\ format \notin KnownFormats
        /\ Fail(Err("unknown_format", "attStmt"))
     \/ /\ format \in KnownFormats /\ attStmt = None
        /\ Cur.val # StmtShape[format]
        /\ Fail(Err("invalid_value", "attStmt"))
     \/ /\ format \in KnownFormats /\ attStmt = None
        /\ Cur.val = StmtShape[format]
        /\ attStmt' = [fmt |-> format, body |-> Cur.val]
        /\ pos' = pos + 1
        /\ UNCHANGED <<input, result, format, authData, unread>>

\* Any other integer key: `_ => continue` goes back to next_key without
\* calling next_value, so the key is consumed and its value is not.
SkipEntry ==
  /\ Active
  /\ Cur.key \in IntKeys \ {1, 2, 3}
  /\ pos' = pos + 1
  /\ unread' = TRUE
  /\ UNCHANGED <<input, result, format, authData, attStmt>>

\* The next `map.next_key()?` reads the skipped value as the key; no value a
\* device sends under a key (text, bytes, map, bool) deserializes as i32.
ReadValueAsKey ==
  /\ result = Pending
  /\ pos < Len(input)
  /\ unread
  /\ Fail(Err("invalid_key", "key"))

\* The map is exhausted: authData and attStmt must both have been seen.
\* visit_map then returns Ok, and from_slice (line 541) fails if a skipped
\* value is left over as trailing data.
EndOfMap ==
  /\ result = Pending
  /\ pos = Len(input)
  /\ \/ authData = None /\ Fail(Err("missing_field", "authData"))
     \/ authData # None /\ attStmt = None /\ Fail(Err("missing_field", "attStmt"))
     \/ /\ authData # None /\ attStmt # None
        /\ unread
        /\ Fail(Err("trailing_data", "key"))
     \/ /\ authData # None /\ attStmt # None
        /\ ~unread
        /\ result' = Ok(authData, attStmt)
        /\ UNCHANGED <<input, pos, format, authData, attStmt, unread>>

DecNext ==
  \/ ReadBadKey
  \/ ReadFmt
  \/ ReadAuthData
  \/ ReadAttStmt
  \/ SkipEntry
  \/ ReadValueAsKey
  \/ EndOfMap

DecSpec == DecInit /\ [][DecNext]_vars

-----------------------------------------------------------------------------
DecTypeOK ==
  /\ IsInput(input)
  /\ result \in Results
  /\ pos \in 0..Len(input)
  /\ format \in TextStrings \cup {None}
  /\ authData \in ValidAuthData \cup {None}
  /\ attStmt \in Stmts \cup {None}
  /\ unread \in BOOLEAN

(***************************************************************************)
(* Refinement: the streaming visitor implements the one-step decode of     *)
(* AttestationObjectFormat.  Every visitor step either leaves the result   *)
(* pending (a stutter of the abstract decode) or sets it once: to the      *)
(* object the map carries when the map is well formed, and otherwise to an *)
(* error that names a defect the map really has.  This is what the         *)
(* duplicate checks, the fmt-before-attStmt check and the final presence   *)
(* checks of visit_map together must guarantee.                            *)
(***************************************************************************)
Abstract == INSTANCE AttestationObjectFormat

DecodeRefinesFormat == Abstract!Spec

-----------------------------------------------------------------------------
(***************************************************************************)
(* The inductive invariant behind the refinement.  While the visitor is    *)
(* running, its Option variables summarise the consumed prefix            *)
(* input[1..pos]: only keys 1-3 were read there, except a last skipped     *)
(* key whose value is still unread; each of keys 1-3 was seen at most      *)
(* once; each variable holds the value seen under its key; and attStmt     *)
(* was only accepted after fmt and in the shape of the format.  Once the   *)
(* visitor has stopped, the result is the one the abstract decode allows.  *)
(***************************************************************************)
Seen(k) == {i \in At(input, k) : i <= pos}

PrefixInv ==
  /\ \A i \in 1..pos : input[i].key \in {1, 2, 3} \/ (unread /\ i = pos)
  /\ unread => pos \in 1..Len(input) /\ input[pos].key \notin {1, 2, 3}
  /\ \A k \in {1, 2, 3} : \A i, j \in Seen(k) : i = j
  /\ (format = None) <=> (Seen(1) = {})
  /\ \A i \in Seen(1) : input[i].val = format
  /\ (authData = None) <=> (Seen(2) = {})
  /\ \A i \in Seen(2) : input[i].val = authData
  /\ (attStmt = None) <=> (Seen(3) = {})
  /\ \A i \in Seen(3) :
       /\ format \in KnownFormats
       /\ input[i].val = StmtShape[format]
       /\ attStmt = [fmt |-> format, body |-> input[i].val]
       /\ \E j \in Seen(1) : j < i

FinalInv ==
  \/ WellFormed(input) /\ result = Decoded(input)
  \/ ~WellFormed(input) /\ result \in Errors /\ Justified(input, result)

DecInv ==
  /\ DecTypeOK
  /\ result = Pending => PrefixInv
  /\ result # Pending => FinalInv

(***************************************************************************)
(* spec.md section 4.2 and section 7: keys other than 1-3 are ignored      *)
(* without affecting the outcome, so a map that is well formed in its      *)
(* fields never decodes to an error.  The `_ => continue` arm of visit_map *)
(* (line 180) skips the key but not its value, and a text key fails in     *)
(* next_key (line 137): the run of this property finds the maps for which  *)
(* the code disagrees.                                                     *)
(***************************************************************************)
UnknownKeysIgnored ==
  result \in Errors => ~FieldsWellFormed(input)

=============================================================================
