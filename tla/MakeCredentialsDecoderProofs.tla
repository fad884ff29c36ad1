-------------------- MODULE MakeCredentialsDecoderProofs --------------------
(***************************************************************************)
(* Proofs about the streaming response-map visitor of                      *)
(* MakeCredentialsDecoder, for every bound and every set of keys and       *)
(* values satisfying the assumptions of AttestationObjectFormat.           *)
(***************************************************************************)
EXTENDS MakeCredentialsDecoder, TLAPS

USE KeysAssumption, BoundAssumption, ValuesAssumption, NoneAssumption

\* A map of at most MaxEntries entries is a sequence of entries.
LEMMA InputIsSeq ==
  ASSUME NEW inp, IsInput(inp)
  PROVE  /\ inp \in Seq(Entries)
         /\ Len(inp) \in 0..MaxEntries
         /\ DOMAIN inp = 1..Len(inp)
<1>1. PICK n \in 0..MaxEntries : inp \in [1..n -> Entries]
  BY DEF IsInput
<1>2. inp \in Seq(Entries)
  BY <1>1
<1>3. QED
  BY <1>1, <1>2

\* The names of the error values the visitor returns are results.
LEMMA ErrIsResult ==
  ASSUME NEW k \in ErrorKinds, NEW f \in {"fmt", "authData", "attStmt", "key"}
  PROVE  Err(k, f) \in Results
BY DEF Err, Results, Errors, Fields, FieldKey


\* An early return keeps every variable in its type.
LEMMA FailTypeOK ==
  ASSUME DecTypeOK, NEW k \in ErrorKinds,
         NEW f \in {"fmt", "authData", "attStmt", "key"}, Fail(Err(k, f))
  PROVE  DecTypeOK'
BY ErrIsResult DEF Fail, DecTypeOK, IsInput

\* Every step of the visitor keeps each variable in its type.
LEMMA DecTypeStep == DecTypeOK /\ [DecNext]_vars => DecTypeOK'
  <2> SUFFICES ASSUME DecTypeOK, [DecNext]_vars PROVE DecTypeOK'
    OBVIOUS
  <2>1. input \in Seq(Entries) /\ Len(input) \in 0..MaxEntries
    BY InputIsSeq DEF DecTypeOK
  <2>2. Active => Cur \in Entries /\ pos + 1 \in 1..Len(input)
    BY <2>1 DEF Active, Cur, DecTypeOK
  <2> USE DEF ErrorKinds
  <2>3. CASE ReadBadKey
    BY <2>3, FailTypeOK DEF ReadBadKey
  <2>4. CASE ReadFmt
    <3>1. CASE format # None /\ Fail(Err("duplicate_field", "fmt"))
      BY <3>1, FailTypeOK
    <3>2. CASE format = None /\ Fail(Err("invalid_value", "fmt"))
      BY <3>2, FailTypeOK
    <3>3. CASE Cur.val \in TextStrings /\ format' = Cur.val /\ pos' = pos + 1
               /\ UNCHANGED <<input, result, authData, attStmt, unread>>
      BY <3>3, <2>2, <2>4 DEF ReadFmt, DecTypeOK
    <3>4. QED
      BY <2>4, <3>1, <3>2, <3>3 DEF ReadFmt
  <2>5. CASE ReadAuthData
    <3>1. CASE Fail(Err("duplicate_field", "authData"))
      BY <3>1, FailTypeOK
    <3>2. CASE Fail(Err("invalid_value", "authData"))
      BY <3>2, FailTypeOK
    <3>3. CASE Cur.val \in ValidAuthData /\ authData' = Cur.val /\ pos' = pos + 1
               /\ UNCHANGED <<input, result, format, attStmt, unread>>
      BY <3>3, <2>2, <2>5 DEF ReadAuthData, DecTypeOK
    <3>4. QED
      BY <2>5, <3>1, <3>2, <3>3 DEF ReadAuthData
  <2>6. CASE ReadAttStmt
    <3>1. CASE Fail(Err("missing_field", "fmt"))
      BY <3>1, FailTypeOK
    <3>2. CASE Fail(Err("duplicate_field", "attStmt"))
      BY <3>2, FailTypeOK
    <3>3. CASE Fail(Err("unknown_format", "attStmt"))
      BY <3>3, FailTypeOK
    <3>4. CASE Fail(Err("invalid_value", "attStmt"))
      BY <3>4, FailTypeOK
    <3>5. CASE /\ format \in KnownFormats
               /\ Cur.val = StmtShape[format]
               /\ attStmt' = [fmt |-> format, body |-> Cur.val]
               /\ pos' = pos + 1
               /\ UNCHANGED <<input, result, format, authData, unread>>
      <4>1. StmtShape[format] \in MapValues
        BY <3>5 DEF StmtShape, MapValues, KnownFormats
      <4>2. QED
        BY <3>5, <4>1, <2>2, <2>6 DEF ReadAttStmt, DecTypeOK, Stmts
    <3>6. QED
      BY <2>6, <3>1, <3>2, <3>3, <3>4, <3>5 DEF ReadAttStmt
  <2>7. CASE SkipEntry
    BY <2>7, <2>2 DEF SkipEntry, DecTypeOK
  <2>11. CASE ReadValueAsKey
    BY <2>11, FailTypeOK DEF ReadValueAsKey
  <2>8. CASE EndOfMap
    <3>1. CASE Fail(Err("missing_field", "authData"))
      BY <3>1, FailTypeOK
    <3>2. CASE Fail(Err("missing_field", "attStmt"))
      BY <3>2, FailTypeOK
    <3>5. CASE Fail(Err("trailing_data", "key"))
      BY <3>5, FailTypeOK
    <3>3. CASE authData # None /\ attStmt # None /\ result' = Ok(authData, attStmt)
               /\ UNCHANGED <<input, pos, format, authData, attStmt, unread>>
      BY <3>3 DEF DecTypeOK, Results, Ok
    <3>4. QED
      BY <2>8, <3>1, <3>2, <3>3, <3>5 DEF EndOfMap
  <2>9. CASE UNCHANGED vars
    BY <2>9 DEF vars, DecTypeOK
  <2>10. QED
    BY <2>3, <2>4, <2>5, <2>6, <2>7, <2>8, <2>9, <2>11 DEF DecNext

\* The initial state is typed.
LEMMA InitTypeOK == DecInit => DecTypeOK
<1> SUFFICES ASSUME DecInit PROVE DecTypeOK
  OBVIOUS
<1>1. result \in Results
  BY DEF DecInit, Results
<1>2. pos \in 0..Len(input)
  <2>1. Len(input) \in Nat
    BY InputIsSeq DEF DecInit
  <2>2. QED
    BY <2>1 DEF DecInit
<1>3. unread \in BOOLEAN
  <2>1. unread = FALSE
    BY DEF DecInit
  <2>2. QED
    BY <2>1, Zenon
<1>4. QED
  BY <1>1, <1>2, <1>3 DEF DecInit, DecTypeOK

\* The visitor keeps each variable in its type.
THEOREM DecTypeCorrect == DecSpec => []DecTypeOK
<1>1. DecInit => DecTypeOK
  BY InitTypeOK
<1>2. QED
  BY <1>1, DecTypeStep, PTL DEF DecSpec

-----------------------------------------------------------------------------
(* Facts about the consumed prefix.                                        *)

\* The positions with a given key lie in the map; the consumed ones lie in
\* the prefix.
LEMMA SeenRange ==
  ASSUME DecTypeOK, NEW k
  PROVE  /\ At(input, k) \subseteq 1..Len(input)
         /\ Seen(k) \subseteq 1..pos
         /\ pos = Len(input) => Seen(k) = At(input, k)
BY InputIsSeq DEF DecTypeOK, Seen, At

\* Consuming one entry adds its position to the positions seen of its key.
LEMMA SeenNext ==
  ASSUME DecTypeOK, pos < Len(input), pos' = pos + 1, input' = input, NEW k
  PROVE  Seen(k)' = IF Cur.key = k THEN Seen(k) \cup {pos + 1} ELSE Seen(k)
BY InputIsSeq DEF DecTypeOK, Seen, At, Cur

\* The entry under the cursor is at a position of its key, after the prefix.
LEMMA CurAt ==
  ASSUME DecTypeOK, pos < Len(input)
  PROVE  /\ pos + 1 \in At(input, Cur.key)
         /\ pos + 1 \notin Seen(Cur.key)
         /\ Cur \in Entries
BY InputIsSeq DEF DecTypeOK, Seen, At, Cur

-----------------------------------------------------------------------------
(* Every early return names a defect of the map, and a map with a defect   *)
(* is not well formed.                                                     *)

LEMMA FieldsValues ==
  /\ Fields = {"fmt", "authData", "attStmt"}
  /\ FieldKey["fmt"] = 1 /\ FieldKey["authData"] = 2 /\ FieldKey["attStmt"] = 3
BY DEF Fields, FieldKey

\* A key among 1-3 seen before and met again is a duplicate.
LEMMA DupJustified ==
  ASSUME DecTypeOK, pos < Len(input),
         NEW f \in Fields, Cur.key = FieldKey[f], Seen(FieldKey[f]) # {}
  PROVE  /\ ~WellFormed(input)
         /\ Justified(input, Err("duplicate_field", f))
<1> DEFINE k == FieldKey[f]
<1>1. k \in {1, 2, 3}
  BY FieldsValues
<1>2. PICK i \in Seen(k) : TRUE
  OBVIOUS
<1>3. i \in At(input, k) /\ i <= pos
  BY <1>2 DEF Seen
<1>4. pos + 1 \in At(input, k) /\ i # pos + 1
  BY <1>3, CurAt, SeenRange
<1>5. ~WellFormed(input)
  BY <1>1, <1>3, <1>4 DEF WellFormed, FieldsWellFormed
<1>6. Justified(input, Err("duplicate_field", f))
  BY <1>3, <1>4 DEF Justified, Err
<1>7. QED
  BY <1>5, <1>6

\* A non-integer key.
LEMMA BadKeyJustified ==
  ASSUME DecTypeOK, pos < Len(input), Cur.key \in NonIntKeys
  PROVE  /\ ~WellFormed(input)
         /\ Justified(input, Err("invalid_key", "key"))
<1>1. pos + 1 \in DOMAIN input /\ input[pos + 1] = Cur
  BY CurAt DEF Cur, At
<1>2. Cur.key \notin {1, 2, 3}
  OBVIOUS
<1>3. QED
  BY <1>1, <1>2 DEF WellFormed, Justified, Err

\* A skipped key whose value was left unread, met again by next_key or by
\* the trailing-data check.
LEMMA UnreadJustified ==
  ASSUME PrefixInv, unread,
         NEW e \in {Err("invalid_key", "key"), Err("trailing_data", "key")}
  PROVE  /\ ~WellFormed(input)
         /\ Justified(input, e)
<1>1. pos \in DOMAIN input /\ input[pos].key \notin {1, 2, 3}
  BY DEF PrefixInv
<1>2. QED
  BY <1>1 DEF WellFormed, Justified

\* A value of key 1 that is not a text string.
LEMMA BadFmtJustified ==
  ASSUME DecTypeOK, pos < Len(input), Cur.key = 1, Cur.val \notin TextStrings
  PROVE  /\ ~WellFormed(input)
         /\ Justified(input, Err("invalid_value", "fmt"))
<1>1. pos + 1 \in At(input, 1) /\ input[pos + 1] = Cur
  BY CurAt DEF Cur
<1>2. QED
  BY <1>1 DEF WellFormed, FieldsWellFormed, Justified, Err

\* A value of key 2 that is not authenticator data.
LEMMA BadAuthDataJustified ==
  ASSUME DecTypeOK, pos < Len(input), Cur.key = 2, Cur.val \notin ValidAuthData
  PROVE  /\ ~WellFormed(input)
         /\ Justified(input, Err("invalid_value", "authData"))
<1>1. pos + 1 \in At(input, 2) /\ input[pos + 1] = Cur
  BY CurAt DEF Cur
<1>2. QED
  BY <1>1 DEF WellFormed, FieldsWellFormed, Justified, Err

\* Key 3 met while no key 1 has been seen.
LEMMA MissingFmtJustified ==
  ASSUME DecTypeOK, pos < Len(input), Cur.key = 3, Seen(1) = {}
  PROVE  /\ ~WellFormed(input)
         /\ Justified(input, Err("missing_field", "fmt"))
<1>1. pos + 1 \in At(input, 3)
  BY CurAt
<1>2. \A j \in At(input, 1) : pos + 1 < j
  <2> TAKE j \in At(input, 1)
  <2>1. j \notin Seen(1) /\ j \in 1..Len(input)
    BY SeenRange
  <2>2. j > pos
    BY <2>1, InputIsSeq DEF Seen, DecTypeOK
  <2>3. j # pos + 1
    BY CurAt DEF At, Cur
  <2>4. QED
    BY <2>1, <2>2, <2>3, InputIsSeq DEF DecTypeOK
<1>3. ~\E j \in At(input, 1) : j < pos + 1
  BY <1>2, SeenRange, InputIsSeq DEF DecTypeOK
<1>4. ~WellFormed(input)
  BY <1>1, <1>3 DEF WellFormed, FieldsWellFormed
<1>5. Justified(input, Err("missing_field", "fmt"))
  BY <1>1, <1>2 DEF Justified, Err
<1>6. QED
  BY <1>4, <1>5

\* Key 3 met after a fmt that is not one of the known formats.
LEMMA UnknownFormatJustified ==
  ASSUME DecTypeOK, PrefixInv, format # None, format \notin KnownFormats
  PROVE  /\ ~WellFormed(input)
         /\ Justified(input, Err("unknown_format", "attStmt"))
<1>1. PICK j \in Seen(1) : input[j].val = format
  BY DEF PrefixInv
<1>2. j \in At(input, 1) /\ format \in TextStrings
  BY <1>1 DEF Seen, DecTypeOK
<1>3. ~WellFormed(input)
  BY <1>1, <1>2 DEF WellFormed, FieldsWellFormed
<1>4. Justified(input, Err("unknown_format", "attStmt"))
  BY <1>1, <1>2 DEF Justified, Err
<1>5. QED
  BY <1>3, <1>4

\* Key 3 with a value that does not have the shape of the known format.
LEMMA BadStmtJustified ==
  ASSUME DecTypeOK, PrefixInv, pos < Len(input), Cur.key = 3,
         format \in KnownFormats, Cur.val # StmtShape[format]
  PROVE  /\ ~WellFormed(input)
         /\ Justified(input, Err("invalid_value", "attStmt"))
<1>1. PICK j \in Seen(1) : input[j].val = format
  <2>1. format # None
    BY DEF Values
  <2>2. QED
    BY <2>1 DEF PrefixInv
<1>2. j \in At(input, 1) /\ j < pos + 1
  BY <1>1, SeenRange, InputIsSeq DEF Seen, DecTypeOK
<1>3. pos + 1 \in At(input, 3) /\ input[pos + 1] = Cur
  BY CurAt DEF Cur
<1>4. ~WellFormed(input)
  <2>1. ~(\A i \in At(input, 3), jj \in At(input, 1) :
             input[i].val = StmtShape[input[jj].val])
    BY <1>1, <1>2, <1>3
  <2>2. QED
    BY <2>1 DEF WellFormed, FieldsWellFormed
<1>5. Justified(input, Err("invalid_value", "attStmt"))
  <2>1. \E i \in At(input, 3), jj \in At(input, 1) :
          jj < i /\ input[jj].val \in KnownFormats
          /\ input[i].val # StmtShape[input[jj].val]
    BY <1>1, <1>2, <1>3
  <2>2. QED
    BY <2>1 DEF Justified, Err
<1>6. QED
  BY <1>4, <1>5

\* The map ends with no key 2, or no key 3.
LEMMA MissingJustified ==
  ASSUME DecTypeOK, pos = Len(input), NEW f \in {"authData", "attStmt"},
         Seen(FieldKey[f]) = {}
  PROVE  /\ ~WellFormed(input)
         /\ Justified(input, Err("missing_field", f))
<1>1. At(input, FieldKey[f]) = {}
  BY SeenRange
<1>2. QED
  BY <1>1, FieldsValues DEF WellFormed, FieldsWellFormed, Justified, Err

\* At the end of the map, with authData and attStmt both set and no value
\* left unread, the map is well formed and carries exactly the object the
\* visitor built.
LEMMA OkWellFormed ==
  ASSUME DecTypeOK, PrefixInv, ~unread, pos = Len(input), authData # None,
         attStmt # None
  PROVE  /\ WellFormed(input)
         /\ Decoded(input) = Ok(authData, attStmt)
<1>1. \A k : Seen(k) = At(input, k)
  BY SeenRange
<1>2. PICK i2 \in Seen(2) : input[i2].val = authData
  BY DEF PrefixInv
<1>3. PICK i3 \in Seen(3) : /\ format \in KnownFormats
                            /\ input[i3].val = StmtShape[format]
                            /\ attStmt = [fmt |-> format, body |-> input[i3].val]
                            /\ \E j \in Seen(1) : j < i3
  BY DEF PrefixInv
<1>4. PICK i1 \in Seen(1) : i1 < i3 /\ input[i1].val = format
  BY <1>3 DEF PrefixInv
<1>5. /\ At(input, 1) = {i1}
      /\ At(input, 2) = {i2}
      /\ At(input, 3) = {i3}
  BY <1>1, <1>2, <1>3, <1>4 DEF PrefixInv
<1>6. \A i \in DOMAIN input : input[i].key \in {1, 2, 3}
  BY InputIsSeq DEF DecTypeOK, PrefixInv
<1>7. authData \in ValidAuthData
  BY DEF DecTypeOK
<1>8. WellFormed(input)
  BY <1>2, <1>3, <1>4, <1>5, <1>6, <1>7 DEF WellFormed, FieldsWellFormed
<1>9. Decoded(input) = Ok(input[i2].val, [fmt |-> input[i1].val, body |-> input[i3].val])
  BY <1>5 DEF Decoded
<1>10. QED
  BY <1>2, <1>3, <1>4, <1>8, <1>9

-----------------------------------------------------------------------------
(* The steps that consume an entry keep the summary of the prefix.         *)

\* A key among 1-3 read with its value: the prefix still holds only keys
\* 1-3 and no value is left unread.
LEMMA KeysStep ==
  ASSUME DecTypeOK, PrefixInv, ~unread, pos < Len(input), Cur.key \in {1, 2, 3},
         pos' = pos + 1, input' = input, ~unread'
  PROVE  /\ \A i \in 1..pos' : input'[i].key \in {1, 2, 3} \/ (unread' /\ i = pos')
         /\ unread' => pos' \in 1..Len(input') /\ input'[pos'].key \notin {1, 2, 3}
BY InputIsSeq DEF DecTypeOK, PrefixInv, Cur

\* Key 1 accepted.
LEMMA FmtStepInv ==
  ASSUME DecTypeOK, PrefixInv, ~unread, pos < Len(input), Cur.key = 1,
         format = None, format' = Cur.val, pos' = pos + 1,
         UNCHANGED <<input, result, authData, attStmt, unread>>
  PROVE  PrefixInv'
<1>1. Seen(1) = {} /\ Seen(3) = {}
  BY DEF PrefixInv
<1>2. Seen(1)' = {pos + 1}
  BY <1>1, SeenNext
<1>3. \A k \in {2, 3} : Seen(k)' = Seen(k)
  BY SeenNext
<1>4. pos + 1 \in At(input, 1) /\ input[pos + 1] = Cur /\ Cur.val # None
  BY CurAt DEF Cur, Entries, Values
<1>5. /\ \A i \in 1..pos' : input'[i].key \in {1, 2, 3} \/ (unread' /\ i = pos')
      /\ unread' => pos' \in 1..Len(input') /\ input'[pos'].key \notin {1, 2, 3}
  <2>1. Cur.key \in {1, 2, 3} /\ input' = input /\ ~unread'
    BY Zenon
  <2>2. QED
    BY <2>1, KeysStep
<1>6. \A k \in {1, 2, 3} : \A i, j \in Seen(k)' : i = j
  BY <1>1, <1>2, <1>3 DEF PrefixInv
<1>7. /\ (format' = None) <=> (Seen(1)' = {})
      /\ \A i \in Seen(1)' : input'[i].val = format'
  BY <1>2, <1>4
<1>8. /\ (authData' = None) <=> (Seen(2)' = {})
      /\ \A i \in Seen(2)' : input'[i].val = authData'
  BY <1>3 DEF PrefixInv
<1>9. /\ (attStmt' = None) <=> (Seen(3)' = {})
      /\ \A i \in Seen(3)' :
           /\ format' \in KnownFormats
           /\ input'[i].val = StmtShape[format']
           /\ attStmt' = [fmt |-> format', body |-> input'[i].val]
           /\ \E j \in Seen(1)' : j < i
  BY <1>1, <1>3 DEF PrefixInv
<1>10. QED
  BY <1>5, <1>6, <1>7, <1>8, <1>9 DEF PrefixInv

\* Key 2 accepted.
LEMMA AuthDataStepInv ==
  ASSUME DecTypeOK, PrefixInv, ~unread, pos < Len(input), Cur.key = 2,
         authData = None, authData' = Cur.val, pos' = pos + 1,
         UNCHANGED <<input, result, format, attStmt, unread>>
  PROVE  PrefixInv'
<1>1. Seen(2) = {}
  BY DEF PrefixInv
<1>2. Seen(2)' = {pos + 1}
  BY <1>1, SeenNext
<1>3. \A k \in {1, 3} : Seen(k)' = Seen(k)
  BY SeenNext
<1>4. pos + 1 \in At(input, 2) /\ input[pos + 1] = Cur /\ Cur.val # None
  BY CurAt DEF Cur, Entries, Values
<1>5. /\ \A i \in 1..pos' : input'[i].key \in {1, 2, 3} \/ (unread' /\ i = pos')
      /\ unread' => pos' \in 1..Len(input') /\ input'[pos'].key \notin {1, 2, 3}
  <2>1. Cur.key \in {1, 2, 3} /\ input' = input /\ ~unread'
    BY Zenon
  <2>2. QED
    BY <2>1, KeysStep
<1>6. \A k \in {1, 2, 3} : \A i, j \in Seen(k)' : i = j
  BY <1>2, <1>3 DEF PrefixInv
<1>7. /\ (format' = None) <=> (Seen(1)' = {})
      /\ \A i \in Seen(1)' : input'[i].val = format'
  BY <1>3 DEF PrefixInv
<1>8. /\ (authData' = None) <=> (Seen(2)' = {})
      /\ \A i \in Seen(2)' : input'[i].val = authData'
  BY <1>2, <1>4
<1>9. /\ (attStmt' = None) <=> (Seen(3)' = {})
      /\ \A i \in Seen(3)' :
           /\ format' \in KnownFormats
           /\ input'[i].val = StmtShape[format']
           /\ attStmt' = [fmt |-> format', body |-> input'[i].val]
           /\ \E j \in Seen(1)' : j < i
  BY <1>3 DEF PrefixInv
<1>10. QED
  BY <1>5, <1>6, <1>7, <1>8, <1>9 DEF PrefixInv

\* Key 3 accepted.
LEMMA AttStmtStepInv ==
  ASSUME DecTypeOK, PrefixInv, ~unread, pos < Len(input), Cur.key = 3,
         attStmt = None, format \in KnownFormats, Cur.val = StmtShape[format],
         attStmt' = [fmt |-> format, body |-> Cur.val], pos' = pos + 1,
         UNCHANGED <<input, result, format, authData, unread>>
  PROVE  PrefixInv'
<1>1. Seen(3) = {}
  BY DEF PrefixInv
<1>2. Seen(3)' = {pos + 1}
  BY <1>1, SeenNext
<1>3. \A k \in {1, 2} : Seen(k)' = Seen(k)
  BY SeenNext
<1>4. pos + 1 \in At(input, 3) /\ input[pos + 1] = Cur
  BY CurAt DEF Cur
<1>5. PICK j \in Seen(1) : TRUE
  BY DEF PrefixInv, Values
<1>6. j < pos + 1
  BY <1>5, SeenRange, InputIsSeq DEF DecTypeOK
<1>7. attStmt' # None /\ attStmt' \in Stmts
  BY DEF Stmts, StmtShape, MapValues, KnownFormats
<1>8. /\ \A i \in 1..pos' : input'[i].key \in {1, 2, 3} \/ (unread' /\ i = pos')
      /\ unread' => pos' \in 1..Len(input') /\ input'[pos'].key \notin {1, 2, 3}
  <2>1. Cur.key \in {1, 2, 3} /\ input' = input /\ ~unread'
    BY Zenon
  <2>2. QED
    BY <2>1, KeysStep
<1>9. \A k \in {1, 2, 3} : \A i, jj \in Seen(k)' : i = jj
  BY <1>2, <1>3 DEF PrefixInv
<1>10. /\ (format' = None) <=> (Seen(1)' = {})
       /\ \A i \in Seen(1)' : input'[i].val = format'
       /\ (authData' = None) <=> (Seen(2)' = {})
       /\ \A i \in Seen(2)' : input'[i].val = authData'
  BY <1>3 DEF PrefixInv
<1>11. /\ (attStmt' = None) <=> (Seen(3)' = {})
       /\ \A i \in Seen(3)' :
            /\ format' \in KnownFormats
            /\ input'[i].val = StmtShape[format']
            /\ attStmt' = [fmt |-> format', body |-> input'[i].val]
            /\ \E jj \in Seen(1)' : jj < i
  BY <1>2, <1>3, <1>4, <1>5, <1>6, <1>7
<1>12. QED
  BY <1>8, <1>9, <1>10, <1>11 DEF PrefixInv

\* Another integer key skipped: its position is the last of the prefix and
\* its value is left unread.
LEMMA SkipStepInv ==
  ASSUME DecTypeOK, PrefixInv, ~unread, pos < Len(input),
         Cur.key \in IntKeys \ {1, 2, 3}, pos' = pos + 1, unread' = TRUE,
         UNCHANGED <<input, result, format, authData, attStmt>>
  PROVE  PrefixInv'
<1>1. \A k \in {1, 2, 3} : Seen(k)' = Seen(k)
  BY SeenNext
<1>2. \A i \in 1..pos' : input'[i].key \in {1, 2, 3} \/ (unread' /\ i = pos')
  BY InputIsSeq DEF DecTypeOK, PrefixInv
<1>3. pos' \in 1..Len(input') /\ input'[pos'].key \notin {1, 2, 3}
  BY InputIsSeq DEF DecTypeOK, Cur
<1>4. QED
  BY <1>1, <1>2, <1>3 DEF PrefixInv

-----------------------------------------------------------------------------
(* The invariant and the refinement.                                       *)

\* The map is never changed, and nothing changes once a result is set.
LEMMA Frame ==
  ASSUME [DecNext]_vars
  PROVE  /\ input' = input
         /\ result # Pending => UNCHANGED vars
BY DEF DecNext, ReadBadKey, ReadFmt, ReadAuthData, ReadAttStmt, SkipEntry,
       ReadValueAsKey, EndOfMap, Fail, Active, vars

LEMMA ErrIsError ==
  ASSUME NEW k \in ErrorKinds, NEW f \in {"fmt", "authData", "attStmt", "key"}
  PROVE  Err(k, f) \in Errors /\ Err(k, f) # Pending
BY DEF Err, Errors, Fields, FieldKey, Pending

\* An early return with a justified error establishes the final invariant.
LEMMA FailInv ==
  ASSUME DecTypeOK', NEW k \in ErrorKinds,
         NEW f \in {"fmt", "authData", "attStmt", "key"},
         Fail(Err(k, f)), ~WellFormed(input), Justified(input, Err(k, f))
  PROVE  DecInv'
BY ErrIsError DEF Fail, DecInv, FinalInv

\* The summary of the prefix and the final invariant hold throughout.
THEOREM DecInvariant == DecSpec => []DecInv
<1>1. DecInit => DecInv
  <2> SUFFICES ASSUME DecInit PROVE DecInv
    OBVIOUS
  <2>1. DecTypeOK
    BY InitTypeOK
  <2>2. \A k : Seen(k) = {}
    BY <2>1, SeenRange DEF DecInit
  <2>3. QED
    BY <2>1, <2>2 DEF DecInit, DecInv, PrefixInv
<1>2. DecInv /\ [DecNext]_vars => DecInv'
  <2> SUFFICES ASSUME DecInv, [DecNext]_vars PROVE DecInv'
    OBVIOUS
  <2>1. DecTypeOK /\ DecTypeOK'
    BY DecTypeStep DEF DecInv
  <2>2. CASE result # Pending
    <3>1. input' = input /\ result' = result
      BY <2>2, Frame DEF vars
    <3>2. FinalInv
      BY <2>2 DEF DecInv
    <3>3. FinalInv'
      BY <3>1, <3>2 DEF FinalInv
    <3>4. QED
      BY <2>1, <2>2, <3>1, <3>3 DEF DecInv
  <2>3. CASE result = Pending
    <3> USE DEF ErrorKinds
    <3>1. PrefixInv
      BY <2>3 DEF DecInv
    <3> HIDE DEF DecInv
    <3>2. CASE ReadBadKey
      BY <3>2, <2>1, BadKeyJustified, FailInv DEF ReadBadKey, Active
    <3>3. CASE ReadFmt
      <4>1. CASE format # None /\ Fail(Err("duplicate_field", "fmt"))
        <5>1. Seen(FieldKey["fmt"]) # {}
          BY <3>1, <4>1, FieldsValues DEF PrefixInv
        <5>2. QED
          BY <3>3, <4>1, <5>1, <2>1, DupJustified, FieldsValues, FailInv DEF ReadFmt, Active
      <4>2. CASE format = None /\ Cur.val \notin TextStrings
                 /\ Fail(Err("invalid_value", "fmt"))
        BY <3>3, <4>2, <2>1, BadFmtJustified, FailInv DEF ReadFmt, Active
      <4>3. CASE /\ format = None /\ Cur.val \in TextStrings
                 /\ format' = Cur.val /\ pos' = pos + 1
                 /\ UNCHANGED <<input, result, authData, attStmt, unread>>
        BY <3>3, <4>3, <3>1, <2>1, <2>3, FmtStepInv DEF ReadFmt, Active, DecInv
      <4>4. QED
        BY <3>3, <4>1, <4>2, <4>3 DEF ReadFmt
    <3>4. CASE ReadAuthData
      <4>1. CASE authData # None /\ Fail(Err("duplicate_field", "authData"))
        <5>1. Seen(FieldKey["authData"]) # {}
          BY <3>1, <4>1, FieldsValues DEF PrefixInv
        <5>2. QED
          BY <3>4, <4>1, <5>1, <2>1, DupJustified, FieldsValues, FailInv DEF ReadAuthData, Active
      <4>2. CASE authData = None /\ Cur.val \notin ValidAuthData
                 /\ Fail(Err("invalid_value", "authData"))
        BY <3>4, <4>2, <2>1, BadAuthDataJustified, FailInv DEF ReadAuthData, Active
      <4>3. CASE /\ authData = None /\ Cur.val \in ValidAuthData
                 /\ authData' = Cur.val /\ pos' = pos + 1
                 /\ UNCHANGED <<input, result, format, attStmt, unread>>
        BY <3>4, <4>3, <3>1, <2>1, <2>3, AuthDataStepInv DEF ReadAuthData, Active, DecInv
      <4>4. QED
        BY <3>4, <4>1, <4>2, <4>3 DEF ReadAuthData
    <3>5. CASE ReadAttStmt
      <4>1. CASE format = None /\ Fail(Err("missing_field", "fmt"))
        <5>1. Seen(1) = {}
          BY <3>1, <4>1 DEF PrefixInv
        <5>2. QED
          BY <3>5, <4>1, <5>1, <2>1, MissingFmtJustified, FailInv DEF ReadAttStmt, Active
      <4>2. CASE format # None /\ attStmt # None /\ Fail(Err("duplicate_field", "attStmt"))
        <5>1. Seen(FieldKey["attStmt"]) # {}
          BY <3>1, <4>2, FieldsValues DEF PrefixInv
        <5>2. QED
          BY <3>5, <4>2, <5>1, <2>1, DupJustified, FieldsValues, FailInv DEF ReadAttStmt, Active
      <4>3. CASE format # None /\ format \notin KnownFormats
                 /\ Fail(Err("unknown_format", "attStmt"))
        BY <3>5, <4>3, <3>1, <2>1, UnknownFormatJustified, FailInv DEF ReadAttStmt, Active
      <4>4. CASE format \in KnownFormats /\ Cur.val # StmtShape[format]
                 /\ Fail(Err("invalid_value", "attStmt"))
        BY <3>5, <4>4, <3>1, <2>1, BadStmtJustified, FailInv DEF ReadAttStmt, Active
      <4>5. CASE /\ format \in KnownFormats /\ attStmt = None
                 /\ Cur.val = StmtShape[format]
                 /\ attStmt' = [fmt |-> format, body |-> Cur.val]
                 /\ pos' = pos + 1
                 /\ UNCHANGED <<input, result, format, authData, unread>>
        BY <3>5, <4>5, <3>1, <2>1, <2>3, AttStmtStepInv DEF ReadAttStmt, Active, DecInv
      <4>6. QED
        BY <3>5, <4>1, <4>2, <4>3, <4>4, <4>5 DEF ReadAttStmt
    <3>6. CASE SkipEntry
      BY <3>6, <3>1, <2>1, <2>3, SkipStepInv DEF SkipEntry, Active, DecInv
    <3>10. CASE ReadValueAsKey
      BY <3>10, <3>1, <2>1, UnreadJustified, FailInv DEF ReadValueAsKey
    <3>7. CASE EndOfMap
      <4>1. CASE authData = None /\ Fail(Err("missing_field", "authData"))
        <5>1. Seen(FieldKey["authData"]) = {}
          BY <3>1, <4>1, FieldsValues DEF PrefixInv
        <5>2. QED
          BY <3>7, <4>1, <5>1, <2>1, MissingJustified, FailInv DEF EndOfMap
      <4>2. CASE attStmt = None /\ Fail(Err("missing_field", "attStmt"))
        <5>1. Seen(FieldKey["attStmt"]) = {}
          BY <3>1, <4>2, FieldsValues DEF PrefixInv
        <5>2. QED
          BY <3>7, <4>2, <5>1, <2>1, MissingJustified, FailInv DEF EndOfMap
      <4>5. CASE unread /\ Fail(Err("trailing_data", "key"))
        BY <4>5, <3>1, <2>1, UnreadJustified, FailInv
      <4>3. CASE /\ authData # None /\ attStmt # None /\ ~unread
                 /\ result' = Ok(authData, attStmt)
                 /\ UNCHANGED <<input, pos, format, authData, attStmt, unread>>
        <5>1. WellFormed(input) /\ Decoded(input) = Ok(authData, attStmt)
          BY <3>7, <4>3, <3>1, <2>1, OkWellFormed DEF EndOfMap
        <5>2. result' # Pending
          BY <4>3 DEF Ok, Pending
        <5>3. QED
          BY <4>3, <5>1, <5>2, <2>1 DEF DecInv, FinalInv
      <4>4. QED
        BY <3>7, <4>1, <4>2, <4>3, <4>5 DEF EndOfMap
    <3>8. CASE UNCHANGED vars
      BY <3>8, <3>1, <2>1, <2>3 DEF DecInv, vars, PrefixInv, Seen
    <3>9. QED
      BY <3>2, <3>3, <3>4, <3>5, <3>6, <3>7, <3>8, <3>10 DEF DecNext
  <2>4. QED
    BY <2>2, <2>3
<1>3. QED
  BY <1>1, <1>2, PTL DEF DecSpec

\* The streaming visitor implements the one-step decode of
\* AttestationObjectFormat (the property DecodeRefinesFormat): it ends, if
\* at all, with the attestation object of a well-formed map, or with an
\* error naming a defect of a malformed one, whatever the bound and the sets
\* of keys and values.
THEOREM DecRefinement == DecSpec => DecodeRefinesFormat
<1>1. DecInit => Abstract!Init
  BY DEF DecInit, Abstract!Init, Abstract!IsInput, IsInput, Abstract!Pending, Pending,
         Abstract!Entries, Entries, Abstract!Keys, Keys, Abstract!Values, Values,
         Abstract!MapValues, MapValues
<1>2. DecInv /\ DecInv' /\ [DecNext]_vars => [Abstract!Decode]_(Abstract!absVars)
  <2> SUFFICES ASSUME DecInv, DecInv', [DecNext]_vars
               PROVE  [Abstract!Decode]_(Abstract!absVars)
    OBVIOUS
  <2>1. input' = input
    BY Frame
  <2>2. CASE result' = result
    BY <2>1, <2>2 DEF Abstract!absVars
  <2>3. CASE result' # result
    <3>1. result = Pending
      BY <2>3, Frame DEF vars
    <3>2. result' # Pending
      BY <2>3, <3>1
    <3>3. FinalInv'
      BY <3>2 DEF DecInv
    <3>4. /\ Abstract!Pending = Pending
          /\ Abstract!Errors = Errors
          /\ Abstract!WellFormed(input) = WellFormed(input)
          /\ Abstract!Decoded(input) = Decoded(input)
          /\ \A e : Abstract!Justified(input, e) = Justified(input, e)
      BY DEF Abstract!Pending, Pending, Abstract!Errors, Errors, Abstract!ErrorKinds,
             ErrorKinds, Abstract!Fields, Fields, Abstract!FieldKey, FieldKey,
             Abstract!WellFormed, WellFormed, Abstract!FieldsWellFormed,
             FieldsWellFormed, Abstract!At, At, Abstract!KnownFormats,
             KnownFormats, Abstract!StmtShape, StmtShape, Abstract!Decoded, Decoded,
             Abstract!Ok, Ok, Abstract!Justified, Justified, Abstract!Err, Err
    <3>5. QED
      BY <2>1, <3>1, <3>3, <3>4 DEF FinalInv, Abstract!Decode
  <2>4. QED
    BY <2>2, <2>3
<1>3. QED
  BY <1>1, <1>2, DecInvariant, PTL DEF DecSpec, DecodeRefinesFormat, Abstract!Spec

=============================================================================
