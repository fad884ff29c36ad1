--------------------- MODULE MakeCredentialsRequestProofs ---------------------
(***************************************************************************)
(* Proofs about the request encoder of MakeCredentialsRequest: every       *)
(* encoding Serialize can produce (lines 415-463), for any request value   *)
(* the setters can reach, declares its true length, is canonical and       *)
(* pairs the auth param with its protocol.  The state part is a plain      *)
(* inductive invariant: wire is the encoding of some request value.        *)
(***************************************************************************)
EXTENDS MakeCredentialsRequest, SequenceTheorems, TLAPS

\* The entries written by the optional groups, one name per group.
Fixed(r) == << Entry(1, "clientDataHash"), Entry(2, "rp"), Entry(3, r.user),
              Entry(4, "pubCredParams") >>
G5(r) == If(r.excludeList # {}, << Entry(5, r.excludeList) >>)
G6(r) == If(HasContent(r.extensions), << Entry(6, ExtensionsMap(r.extensions)) >>)
G7(r) == If(HasSome(r.options), << Entry(7, OptionsMap(r.options)) >>)
G89(r) == If(r.pinUvAuthParam # None,
             << Entry(8, r.pinUvAuthParam), Entry(9, r.pinUvAuthParam.proto) >>)
G10(r) == If(r.enterpriseAttestation # None, << Entry(10, r.enterpriseAttestation) >>)

\* The values an entry of the encoded map can carry, and the entries.
PlainValues == {"clientDataHash", "rp", "pubCredParams", "user", None, 1}
ExcludeValues == {{}, {"cred"}}
ExtValues == SUBSET {"credProtect", "hmac-secret", "minPinLength"}
OptValues == SUBSET ({"rk", "uv"} \X OptBool)
WireValues ==
  PlainValues \cup ExcludeValues \cup ExtValues \cup OptValues \cup Params \cup PinProtocols
WireEntries == [key : 1..10, val : WireValues]

\* Option::None is not an encoding: wire_format's Vec<u8> and None differ.
\* Keys strictly increasing along a sequence of entries.
Increasing(s) == \A i, j \in DOMAIN s : i < j => s[i].key < s[j].key

\* Every key of s lies in lo..hi.
KeysIn(s, lo, hi) == \A i \in DOMAIN s : s[i].key \in lo..hi

(***************************************************************************)
(* Concatenating two increasing sequences whose key ranges do not overlap  *)
(* gives an increasing sequence; this is how each `if` block of serialize  *)
(* extends the map already written.                                        *)
(***************************************************************************)
LEMMA ConcatIncreasing ==
  ASSUME NEW S, NEW s \in Seq(S), NEW t \in Seq(S),
         NEW lo \in Int, NEW k \in Int, NEW hi \in Int, lo <= k, k <= hi,
         Increasing(s), Increasing(t), KeysIn(s, lo, k), KeysIn(t, k + 1, hi)
  PROVE  /\ Increasing(s \o t)
         /\ KeysIn(s \o t, lo, hi)
<1>1. /\ s \o t \in Seq(S)
      /\ Len(s \o t) = Len(s) + Len(t)
      /\ \A i \in 1 .. Len(s) + Len(t) :
           (s \o t)[i] = IF i <= Len(s) THEN s[i] ELSE t[i - Len(s)]
  BY ConcatProperties
<1>2. /\ Len(s) \in Nat /\ Len(t) \in Nat
      /\ DOMAIN (s \o t) = 1 .. Len(s) + Len(t)
      /\ DOMAIN s = 1 .. Len(s) /\ DOMAIN t = 1 .. Len(t)
  BY <1>1, LenProperties
<1>3. Increasing(s \o t)
  <2> SUFFICES ASSUME NEW i \in 1 .. Len(s) + Len(t), NEW j \in 1 .. Len(s) + Len(t), i < j
               PROVE  (s \o t)[i].key < (s \o t)[j].key
    BY <1>2 DEF Increasing
  <2>1. CASE j <= Len(s)
    <3>1. i \in DOMAIN s /\ j \in DOMAIN s /\ (s \o t)[i] = s[i] /\ (s \o t)[j] = s[j]
      BY <1>1, <1>2, <2>1
    <3>2. QED
      BY <3>1, Zenon DEF Increasing
  <2>2. CASE i > Len(s)
    <3>1. /\ i - Len(s) \in DOMAIN t /\ j - Len(s) \in DOMAIN t /\ i - Len(s) < j - Len(s)
          /\ (s \o t)[i] = t[i - Len(s)] /\ (s \o t)[j] = t[j - Len(s)]
      BY <1>1, <1>2, <2>2
    <3>2. QED
      BY <3>1, Zenon DEF Increasing
  <2>3. CASE i <= Len(s) /\ j > Len(s)
    <3>1. i \in DOMAIN s /\ j - Len(s) \in DOMAIN t
      BY <1>2, <2>3
    <3>2. s[i].key \in lo..k /\ t[j - Len(s)].key \in k+1..hi
      BY <3>1, Zenon DEF KeysIn
    <3>3. QED
      BY <1>1, <1>2, <2>3, <3>2
  <2>4. QED
    BY <2>1, <2>2, <2>3
<1>4. KeysIn(s \o t, lo, hi)
  <2> SUFFICES ASSUME NEW i \in 1 .. Len(s) + Len(t)
               PROVE  (s \o t)[i].key \in lo..hi
    BY <1>2 DEF KeysIn
  <2>1. CASE i <= Len(s)
    <3>1. (s \o t)[i] = s[i] /\ i \in DOMAIN s
      BY <1>1, <1>2, <2>1
    <3>2. s[i].key \in lo..k
      BY <3>1, Zenon DEF KeysIn
    <3>3. QED
      BY <3>1, <3>2
  <2>2. CASE i > Len(s)
    <3>1. (s \o t)[i] = t[i - Len(s)] /\ i - Len(s) \in DOMAIN t
      BY <1>1, <1>2, <2>2
    <3>2. t[i - Len(s)].key \in k+1..hi
      BY <3>1, Zenon DEF KeysIn
    <3>3. QED
      BY <3>1, <3>2
  <2>3. QED
    BY <2>1, <2>2
<1>5. QED
  BY <1>3, <1>4

\* MapEntries is the concatenation of the groups.
LEMMA EntriesAsGroups ==
  ASSUME NEW r
  PROVE  MapEntries(r) = ((((Fixed(r) \o G5(r)) \o G6(r)) \o G7(r)) \o G89(r)) \o G10(r)
BY DEF MapEntries, Fixed, G5, G6, G7, G89, G10

(***************************************************************************)
(* Each group of entries is a sequence of wire entries with increasing     *)
(* keys in its own key range.                                              *)
(***************************************************************************)
\* A group of one entry written only under a condition.
LEMMA OptionalEntry ==
  ASSUME NEW c, NEW k \in 1..10, NEW v \in WireValues
  PROVE  /\ If(c, << Entry(k, v) >>) \in Seq(WireEntries)
         /\ Increasing(If(c, << Entry(k, v) >>))
         /\ KeysIn(If(c, << Entry(k, v) >>), k, k)
<1>1. CASE c
  <2>1. If(c, << Entry(k, v) >>) = << Entry(k, v) >>
    BY <1>1 DEF If
  <2>2. Entry(k, v) \in WireEntries
    BY DEF Entry, WireEntries
  <2>3. << Entry(k, v) >> \in Seq(WireEntries)
    BY <2>2
  <2>4. Increasing(<< Entry(k, v) >>) /\ KeysIn(<< Entry(k, v) >>, k, k)
    BY DEF Increasing, KeysIn, Entry
  <2>5. QED
    BY <2>1, <2>3, <2>4
<1>2. CASE ~c
  <2>1. If(c, << Entry(k, v) >>) = << >>
    BY <1>2 DEF If
  <2>2. QED
    BY <2>1 DEF Increasing, KeysIn
<1>3. QED
  BY <1>1, <1>2

LEMMA GroupFacts ==
  ASSUME NEW r \in RequestValues
  PROVE  /\ Fixed(r) \in Seq(WireEntries) /\ Increasing(Fixed(r)) /\ KeysIn(Fixed(r), 1, 4)
         /\ G5(r) \in Seq(WireEntries) /\ Increasing(G5(r)) /\ KeysIn(G5(r), 5, 5)
         /\ G6(r) \in Seq(WireEntries) /\ Increasing(G6(r)) /\ KeysIn(G6(r), 6, 6)
         /\ G7(r) \in Seq(WireEntries) /\ Increasing(G7(r)) /\ KeysIn(G7(r), 7, 7)
         /\ G89(r) \in Seq(WireEntries) /\ Increasing(G89(r)) /\ KeysIn(G89(r), 8, 9)
         /\ G10(r) \in Seq(WireEntries) /\ Increasing(G10(r)) /\ KeysIn(G10(r), 10, 10)
<1>1. Fixed(r) \in Seq(WireEntries) /\ Increasing(Fixed(r)) /\ KeysIn(Fixed(r), 1, 4)
  <2>1. r.user \in WireValues /\ "clientDataHash" \in WireValues
        /\ "rp" \in WireValues /\ "pubCredParams" \in WireValues
    <3>1. r.user \in PlainValues
      BY DEF PlainValues, RequestValues
    <3>2. QED
      BY <3>1 DEF WireValues, PlainValues
  <2>2. Fixed(r) \in Seq(WireEntries)
    BY <2>1 DEF Fixed, Entry, WireEntries
  <2>3. QED
    BY <2>2 DEF Fixed, Increasing, KeysIn, Entry
<1>2. G5(r) \in Seq(WireEntries) /\ Increasing(G5(r)) /\ KeysIn(G5(r), 5, 5)
  <2>1. r.excludeList \in WireValues
    <3>1. r.excludeList \in ExcludeValues
      BY DEF ExcludeValues, RequestValues
    <3>2. QED
      BY <3>1 DEF WireValues
  <2>2. QED
    BY <2>1, OptionalEntry DEF G5
<1>3. ExtensionsMap(r.extensions) \in ExtValues
  BY DEF ExtensionsMap, ExtValues
<1>4. G6(r) \in Seq(WireEntries) /\ Increasing(G6(r)) /\ KeysIn(G6(r), 6, 6)
  <2>1. ExtensionsMap(r.extensions) \in WireValues
    BY <1>3 DEF WireValues
  <2>2. QED
    BY <2>1, OptionalEntry DEF G6
<1>5. OptionsMap(r.options) \in OptValues
  BY DEF OptionsMap, RequestValues, OptionInputs, OptValues
<1>6. G7(r) \in Seq(WireEntries) /\ Increasing(G7(r)) /\ KeysIn(G7(r), 7, 7)
  <2>1. OptionsMap(r.options) \in WireValues
    BY <1>5 DEF WireValues
  <2>2. QED
    BY <2>1, OptionalEntry DEF G7
<1>7. G89(r) \in Seq(WireEntries) /\ Increasing(G89(r)) /\ KeysIn(G89(r), 8, 9)
  <2>1. CASE r.pinUvAuthParam = None
    BY <2>1 DEF G89, If, Increasing, KeysIn
  <2>2. CASE r.pinUvAuthParam # None
    <3>1. r.pinUvAuthParam \in Params
      BY <2>2 DEF RequestValues
    <3>2. r.pinUvAuthParam \in WireValues /\ r.pinUvAuthParam.proto \in WireValues
      <4>1. r.pinUvAuthParam.proto \in PinProtocols
        BY <3>1 DEF Params
      <4>2. QED
        BY <3>1, <4>1 DEF WireValues
    <3>3. G89(r) = << Entry(8, r.pinUvAuthParam), Entry(9, r.pinUvAuthParam.proto) >>
      BY <2>2 DEF G89, If
    <3>4. QED
      BY <3>2, <3>3 DEF Increasing, KeysIn, Entry, WireEntries
  <2>3. QED
    BY <2>1, <2>2
<1>8. G10(r) \in Seq(WireEntries) /\ Increasing(G10(r)) /\ KeysIn(G10(r), 10, 10)
  <2>1. r.enterpriseAttestation \in WireValues
    <3>1. r.enterpriseAttestation \in PlainValues
      BY DEF PlainValues, RequestValues
    <3>2. QED
      BY <3>1 DEF WireValues
  <2>2. QED
    BY <2>1, OptionalEntry DEF G10
<1>9. QED
  BY <1>1, <1>2, <1>4, <1>6, <1>7, <1>8

\* The number of entries each group writes.
LEMMA GroupLengths ==
  ASSUME NEW r \in RequestValues
  PROVE  /\ Len(Fixed(r)) = 4
         /\ Len(G5(r)) = IF r.excludeList # {} THEN 1 ELSE 0
         /\ Len(G6(r)) = IF HasContent(r.extensions) THEN 1 ELSE 0
         /\ Len(G7(r)) = IF HasSome(r.options) THEN 1 ELSE 0
         /\ Len(G89(r)) = IF r.pinUvAuthParam # None THEN 2 ELSE 0
         /\ Len(G10(r)) = IF r.enterpriseAttestation # None THEN 1 ELSE 0
BY DEF Fixed, G5, G6, G7, G89, G10, If

(***************************************************************************)
(* The whole map: a sequence of wire entries, keys strictly increasing,    *)
(* and exactly MapLen(r) of them.                                          *)
(***************************************************************************)
LEMMA EntriesShape ==
  ASSUME NEW r \in RequestValues
  PROVE  /\ MapEntries(r) \in Seq(WireEntries)
         /\ Increasing(MapEntries(r))
         /\ Len(MapEntries(r)) = MapLen(r)
<1> DEFINE P5 == Fixed(r) \o G5(r)
           P6 == P5 \o G6(r)
           P7 == P6 \o G7(r)
           P9 == P7 \o G89(r)
           P10 == P9 \o G10(r)
<1> HIDE DEF P5, P6, P7, P9, P10
<1>1. /\ Fixed(r) \in Seq(WireEntries) /\ Increasing(Fixed(r)) /\ KeysIn(Fixed(r), 1, 4)
      /\ G5(r) \in Seq(WireEntries) /\ Increasing(G5(r)) /\ KeysIn(G5(r), 5, 5)
      /\ G6(r) \in Seq(WireEntries) /\ Increasing(G6(r)) /\ KeysIn(G6(r), 6, 6)
      /\ G7(r) \in Seq(WireEntries) /\ Increasing(G7(r)) /\ KeysIn(G7(r), 7, 7)
      /\ G89(r) \in Seq(WireEntries) /\ Increasing(G89(r)) /\ KeysIn(G89(r), 8, 9)
      /\ G10(r) \in Seq(WireEntries) /\ Increasing(G10(r)) /\ KeysIn(G10(r), 10, 10)
  BY GroupFacts
<1>2. P5 \in Seq(WireEntries) /\ Increasing(P5) /\ KeysIn(P5, 1, 5)
      /\ Len(P5) = Len(Fixed(r)) + Len(G5(r))
  BY <1>1, ConcatIncreasing, ConcatProperties DEF P5
<1>3. P6 \in Seq(WireEntries) /\ Increasing(P6) /\ KeysIn(P6, 1, 6)
      /\ Len(P6) = Len(P5) + Len(G6(r))
  <2>1. KeysIn(G6(r), 5 + 1, 6) /\ 1 \in Int /\ 5 \in Int /\ 6 \in Int /\ 1 <= 5 /\ 5 <= 6
    BY <1>1
  <2>2. Increasing(P6) /\ KeysIn(P6, 1, 6)
    BY <1>1, <1>2, <2>1, ConcatIncreasing, Zenon DEF P6
  <2>3. QED
    BY <1>1, <1>2, <2>2, ConcatProperties DEF P6
<1>4. P7 \in Seq(WireEntries) /\ Increasing(P7) /\ KeysIn(P7, 1, 7)
      /\ Len(P7) = Len(P6) + Len(G7(r))
  <2>1. KeysIn(G7(r), 6 + 1, 7) /\ 1 \in Int /\ 6 \in Int /\ 7 \in Int /\ 1 <= 6 /\ 6 <= 7
    BY <1>1
  <2>2. Increasing(P7) /\ KeysIn(P7, 1, 7)
    BY <1>1, <1>3, <2>1, ConcatIncreasing, Zenon DEF P7
  <2>3. QED
    BY <1>1, <1>3, <2>2, ConcatProperties DEF P7
<1>5. P9 \in Seq(WireEntries) /\ Increasing(P9) /\ KeysIn(P9, 1, 9)
      /\ Len(P9) = Len(P7) + Len(G89(r))
  <2>1. KeysIn(G89(r), 7 + 1, 9) /\ 1 \in Int /\ 7 \in Int /\ 9 \in Int /\ 1 <= 7 /\ 7 <= 9
    BY <1>1
  <2>2. Increasing(P9) /\ KeysIn(P9, 1, 9)
    BY <1>1, <1>4, <2>1, ConcatIncreasing, Zenon DEF P9
  <2>3. QED
    BY <1>1, <1>4, <2>2, ConcatProperties DEF P9
<1>6. P10 \in Seq(WireEntries) /\ Increasing(P10) /\ KeysIn(P10, 1, 10)
      /\ Len(P10) = Len(P9) + Len(G10(r))
  <2>1. KeysIn(G10(r), 9 + 1, 10) /\ 1 \in Int /\ 9 \in Int /\ 10 \in Int /\ 1 <= 9 /\ 9 <= 10
    BY <1>1
  <2>2. Increasing(P10) /\ KeysIn(P10, 1, 10)
    BY <1>1, <1>5, <2>1, ConcatIncreasing, Zenon DEF P10
  <2>3. QED
    BY <1>1, <1>5, <2>2, ConcatProperties DEF P10
<1>7. MapEntries(r) = P10
  BY EntriesAsGroups DEF P5, P6, P7, P9, P10
<1>8. Len(P10) = MapLen(r)
  BY <1>2, <1>3, <1>4, <1>5, <1>6, GroupLengths DEF MapLen
<1>9. QED
  BY <1>6, <1>7, <1>8

\* The set of entries Serialize writes for r.
EntrySet(r) ==
  {Entry(1, "clientDataHash"), Entry(2, "rp"), Entry(3, r.user), Entry(4, "pubCredParams")}
  \cup (IF r.excludeList # {} THEN {Entry(5, r.excludeList)} ELSE {})
  \cup (IF HasContent(r.extensions) THEN {Entry(6, ExtensionsMap(r.extensions))} ELSE {})
  \cup (IF HasSome(r.options) THEN {Entry(7, OptionsMap(r.options))} ELSE {})
  \cup (IF r.pinUvAuthParam # None
         THEN {Entry(8, r.pinUvAuthParam), Entry(9, r.pinUvAuthParam.proto)} ELSE {})
  \cup (IF r.enterpriseAttestation # None THEN {Entry(10, r.enterpriseAttestation)} ELSE {})

\* The entries of the map are exactly EntrySet(r).
LEMMA EntriesRange ==
  ASSUME NEW r \in RequestValues
  PROVE  Range(MapEntries(r)) = EntrySet(r)
<1> DEFINE P5 == Fixed(r) \o G5(r)
           P6 == P5 \o G6(r)
           P7 == P6 \o G7(r)
           P9 == P7 \o G89(r)
<1> HIDE DEF P5, P6, P7, P9
<1>1. /\ Fixed(r) \in Seq(WireEntries) /\ Increasing(Fixed(r)) /\ KeysIn(Fixed(r), 1, 4)
      /\ G5(r) \in Seq(WireEntries) /\ Increasing(G5(r)) /\ KeysIn(G5(r), 5, 5)
      /\ G6(r) \in Seq(WireEntries) /\ Increasing(G6(r)) /\ KeysIn(G6(r), 6, 6)
      /\ G7(r) \in Seq(WireEntries) /\ Increasing(G7(r)) /\ KeysIn(G7(r), 7, 7)
      /\ G89(r) \in Seq(WireEntries) /\ Increasing(G89(r)) /\ KeysIn(G89(r), 8, 9)
      /\ G10(r) \in Seq(WireEntries) /\ Increasing(G10(r)) /\ KeysIn(G10(r), 10, 10)
  BY GroupFacts
<1>2. /\ Range(Fixed(r)) = {Entry(1, "clientDataHash"), Entry(2, "rp"), Entry(3, r.user),
                            Entry(4, "pubCredParams")}
      /\ Range(G5(r)) = IF r.excludeList # {} THEN {Entry(5, r.excludeList)} ELSE {}
      /\ Range(G6(r)) = IF HasContent(r.extensions)
                        THEN {Entry(6, ExtensionsMap(r.extensions))} ELSE {}
      /\ Range(G7(r)) = IF HasSome(r.options) THEN {Entry(7, OptionsMap(r.options))} ELSE {}
      /\ Range(G89(r)) = IF r.pinUvAuthParam # None
                         THEN {Entry(8, r.pinUvAuthParam), Entry(9, r.pinUvAuthParam.proto)}
                         ELSE {}
      /\ Range(G10(r)) = IF r.enterpriseAttestation # None
                         THEN {Entry(10, r.enterpriseAttestation)} ELSE {}
  BY DEF Range, Fixed, G5, G6, G7, G89, G10, If
<1>3. P5 \in Seq(WireEntries) /\ Range(P5) = Range(Fixed(r)) \cup Range(G5(r))
  BY <1>1, ConcatProperties, RangeConcatenation DEF P5
<1>4. P6 \in Seq(WireEntries) /\ Range(P6) = Range(P5) \cup Range(G6(r))
  BY <1>1, <1>3, ConcatProperties, RangeConcatenation DEF P6
<1>5. P7 \in Seq(WireEntries) /\ Range(P7) = Range(P6) \cup Range(G7(r))
  BY <1>1, <1>4, ConcatProperties, RangeConcatenation DEF P7
<1>6. P9 \in Seq(WireEntries) /\ Range(P9) = Range(P7) \cup Range(G89(r))
  BY <1>1, <1>5, ConcatProperties, RangeConcatenation DEF P9
<1>7. Range(MapEntries(r)) = Range(P9) \cup Range(G10(r))
  <2>1. MapEntries(r) = P9 \o G10(r)
    BY EntriesAsGroups DEF P5, P6, P7, P9
  <2>2. Range(P9 \o G10(r)) = Range(P9) \cup Range(G10(r))
    BY <1>1, <1>6, RangeConcatenation
  <2>3. QED
    BY <2>1, <2>2
<1>8. QED
  BY <1>2, <1>3, <1>4, <1>5, <1>6, <1>7 DEF EntrySet

(***************************************************************************)
(* What each written entry carries: a value of its key's kind, the auth    *)
(* param and its protocol only from a present param, and a non-empty      *)
(* value in the optional groups.                                           *)
(***************************************************************************)
LEMMA EntrySetFacts ==
  ASSUME NEW r \in RequestValues, NEW e \in EntrySet(r)
  PROVE  /\ EntryOK(e)
         /\ e.key = 8 => r.pinUvAuthParam # None /\ e.val = r.pinUvAuthParam
         /\ e.key = 9 => r.pinUvAuthParam # None /\ e.val = r.pinUvAuthParam.proto
         /\ e.key \in {5, 6, 7} => e.val # {}
<1>1. CASE e \in {Entry(1, "clientDataHash"), Entry(2, "rp"), Entry(3, r.user),
                  Entry(4, "pubCredParams")}
  BY <1>1 DEF Entry, EntryOK, RequestValues
<1>2. CASE r.excludeList # {} /\ e = Entry(5, r.excludeList)
  BY <1>2 DEF Entry, EntryOK, RequestValues
<1>3. CASE HasContent(r.extensions) /\ e = Entry(6, ExtensionsMap(r.extensions))
  <2>1. ExtensionsMap(r.extensions) # {}
    BY <1>3 DEF HasContent, ExtensionsMap
  <2>2. ExtensionsMap(r.extensions) \in SUBSET {"credProtect", "hmac-secret", "minPinLength"}
    BY DEF ExtensionsMap
  <2>3. QED
    BY <1>3, <2>1, <2>2 DEF Entry, EntryOK
<1>4. CASE HasSome(r.options) /\ e = Entry(7, OptionsMap(r.options))
  <2>1. r.options \in OptionInputs
    BY DEF RequestValues
  <2>2. OptionsMap(r.options) # {}
    <3>1. CASE r.options.rk # None
      <4>1. <<"rk", r.options.rk>> \notin {<<"rk", None>>, <<"uv", None>>}
        BY <3>1
      <4>2. QED
        BY <4>1 DEF OptionsMap
    <3>2. CASE r.options.uv # None
      <4>1. <<"uv", r.options.uv>> \notin {<<"rk", None>>, <<"uv", None>>}
        BY <3>2
      <4>2. QED
        BY <4>1 DEF OptionsMap
    <3>3. QED
      BY <1>4, <3>1, <3>2 DEF HasSome
  <2>3. OptionsMap(r.options) \in SUBSET ({"rk", "uv"} \X BOOLEAN)
    <3>1. r.options.rk \in OptBool /\ r.options.uv \in OptBool
      BY <2>1 DEF OptionInputs
    <3>3. SUFFICES ASSUME NEW x \in OptionsMap(r.options)
                   PROVE  x \in {"rk", "uv"} \X BOOLEAN
      OBVIOUS
    <3>4. CASE x = <<"rk", r.options.rk>>
      <4>1. r.options.rk # None
        BY <3>3, <3>4 DEF OptionsMap
      <4>2. QED
        BY <3>1, <3>4, <4>1 DEF OptBool
    <3>5. CASE x = <<"uv", r.options.uv>>
      <4>1. r.options.uv # None
        BY <3>3, <3>5 DEF OptionsMap
      <4>2. QED
        BY <3>1, <3>5, <4>1 DEF OptBool
    <3>6. QED
      BY <3>3, <3>4, <3>5 DEF OptionsMap
  <2>4. QED
    BY <1>4, <2>2, <2>3 DEF Entry, EntryOK
<1>5. CASE r.pinUvAuthParam # None
           /\ e \in {Entry(8, r.pinUvAuthParam), Entry(9, r.pinUvAuthParam.proto)}
  <2>1. r.pinUvAuthParam \in Params
    BY <1>5 DEF RequestValues
  <2>2. r.pinUvAuthParam.proto \in PinProtocols
    BY <2>1 DEF Params
  <2>3. QED
    BY <1>5, <2>1, <2>2 DEF Entry, EntryOK
<1>6. CASE r.enterpriseAttestation # None /\ e = Entry(10, r.enterpriseAttestation)
  BY <1>6 DEF Entry, EntryOK, RequestValues
<1>7. QED
  BY <1>1, <1>2, <1>3, <1>4, <1>5, <1>6 DEF EntrySet

(***************************************************************************)
(* Every encoding of a request value: its declared length, canonical key   *)
(* order, paired auth entries, non-empty optional groups and entry kinds.  *)
(***************************************************************************)
EncodingOK(w) ==
  /\ w.declared \in Nat
  /\ \A i \in DOMAIN w.entries : EntryOK(w.entries[i])
  /\ w.declared = Len(w.entries)
  /\ \A i, j \in DOMAIN w.entries : i < j => w.entries[i].key < w.entries[j].key
  /\ (8 \in WireKeys(w)) <=> (9 \in WireKeys(w))
  /\ \A i, j \in DOMAIN w.entries :
       w.entries[i].key = 8 /\ w.entries[j].key = 9 =>
         w.entries[j].val = w.entries[i].val.proto
  /\ \A i \in DOMAIN w.entries : w.entries[i].key \in {5, 6, 7} => w.entries[i].val # {}

LEMMA EncodeCorrect ==
  ASSUME NEW r \in RequestValues
  PROVE  EncodingOK(Encode(r))
<1> DEFINE m == MapEntries(r)
<1>1. Encode(r).entries = m /\ Encode(r).declared = MapLen(r)
  BY DEF Encode
<1>2. m \in Seq(WireEntries) /\ Increasing(m) /\ Len(m) = MapLen(r)
  BY EntriesShape
<1>3. DOMAIN m = 1..Len(m) /\ Len(m) \in Nat
  BY <1>2, LenProperties
<1>4. Range(m) = EntrySet(r)
  BY EntriesRange
<1>5. \A i \in DOMAIN m : m[i] \in EntrySet(r)
  BY <1>4 DEF Range
<1>6. \A i \in DOMAIN m :
        /\ EntryOK(m[i])
        /\ m[i].key = 8 => r.pinUvAuthParam # None /\ m[i].val = r.pinUvAuthParam
        /\ m[i].key = 9 => r.pinUvAuthParam # None /\ m[i].val = r.pinUvAuthParam.proto
        /\ m[i].key \in {5, 6, 7} => m[i].val # {}
  BY <1>5, EntrySetFacts
<1>7. (\E i \in DOMAIN m : m[i].key = 8) <=> r.pinUvAuthParam # None
  <2>1. r.pinUvAuthParam # None => Entry(8, r.pinUvAuthParam) \in Range(m)
    BY <1>4 DEF EntrySet
  <2>2. QED
    BY <1>6, <2>1 DEF Range, Entry
<1>8. (\E i \in DOMAIN m : m[i].key = 9) <=> r.pinUvAuthParam # None
  <2>1. r.pinUvAuthParam # None => Entry(9, r.pinUvAuthParam.proto) \in Range(m)
    BY <1>4 DEF EntrySet
  <2>2. QED
    BY <1>6, <2>1 DEF Range, Entry
<1>9. QED
  BY <1>1, <1>2, <1>3, <1>6, <1>7, <1>8 DEF EncodingOK, Increasing, WireKeys

-----------------------------------------------------------------------------
(* The state: the request stays a request value and wire is always the     *)
(* encoding of some request value (the one current when wire_format ran).  *)

ReqInv ==
  /\ req \in RequestValues
  /\ authResult \in {None, "ok", "crypto_error"}
  /\ wire = None \/ \E r \in RequestValues : wire = Encode(r)

LEMMA ReqInitInv ==
  ASSUME ReqInit
  PROVE  ReqInv
BY DEF ReqInit, ReqInv, Requests, RequestValues

LEMMA ReqNextInv ==
  ASSUME ReqInv, [ReqNext]_reqVars
  PROVE  ReqInv'
<1>1. CASE ClearPinUvAuthParam
  BY <1>1 DEF ClearPinUvAuthParam, ReqInv, RequestValues
<1>2. ASSUME NEW t \in Tokens, SetPinUvAuthParam(t)
      PROVE  ReqInv'
  <2>1. Derive(t) \in Params
    BY DEF Derive, Tokens, Params
  <2>2. QED
    BY <1>2, <2>1 DEF SetPinUvAuthParam, ReqInv, RequestValues
<1>3. ASSUME NEW uv \in OptBool, SetUvOption(uv)
      PROVE  ReqInv'
  BY <1>3 DEF SetUvOption, ReqInv, RequestValues, OptionInputs
<1>4. CASE WireFormat
  BY <1>4 DEF WireFormat, ReqInv
<1>5. CASE UNCHANGED reqVars
  BY <1>5 DEF reqVars, ReqInv
<1>6. QED
  BY <1>1, <1>2, <1>3, <1>4, <1>5 DEF ReqNext

(***************************************************************************)
(* ReqInv holds in every reachable state of the request.                   *)
(***************************************************************************)
THEOREM ReqInvariant == ReqSpec => []ReqInv
BY ReqInitInv, ReqNextInv, PTL DEF ReqSpec

(***************************************************************************)
(* Type correctness of the request and of every encoding wire_format       *)
(* produces, whatever setter calls came before (Serialize, 415-463).       *)
(***************************************************************************)
THEOREM ReqTypeCorrect == ReqSpec => []ReqTypeOK
<1>1. ReqInv => ReqTypeOK
  BY EncodeCorrect DEF ReqInv, ReqTypeOK, EncodingOK
<1>2. QED
  BY <1>1, ReqInvariant, PTL

\* The wire properties in every state where ReqInv holds.
LEMMA WireProperties ==
  ASSUME ReqInv
  PROVE  /\ DeclaredLengthMatches /\ CanonicalKeyOrder
         /\ NoEmptyOptionalGroups
<1>1. CASE wire = None
  BY <1>1 DEF DeclaredLengthMatches, CanonicalKeyOrder, NoEmptyOptionalGroups
<1>2. CASE wire # None
  <2>1. EncodingOK(wire)
    BY <1>2, EncodeCorrect DEF ReqInv
  <2>2. QED
    BY <2>1 DEF EncodingOK, DeclaredLengthMatches, CanonicalKeyOrder,
                NoEmptyOptionalGroups
<1>3. QED
  BY <1>1, <1>2

(***************************************************************************)
(* The map length Serialize declares before writing (map_len, 423-439)     *)
(* equals the number of entries it writes, for every request value.        *)
(***************************************************************************)
THEOREM LengthDeclared == ReqSpec => []DeclaredLengthMatches
BY ReqInvariant, WireProperties, PTL

(***************************************************************************)
(* Serialize writes its keys in strictly increasing order (canonical CTAP2 *)
(* CBOR), whatever groups are present.                                     *)
(***************************************************************************)
THEOREM KeysCanonical == ReqSpec => []CanonicalKeyOrder
BY ReqInvariant, WireProperties, PTL

(***************************************************************************)
THEOREM OptionalGroupsNonEmpty == ReqSpec => []NoEmptyOptionalGroups
BY ReqInvariant, WireProperties, PTL

(***************************************************************************)
(* can_skip_user_verification (382-408) is the decision table of spec.md   *)
(* 4.4, for every request value, capability flags and requirement.         *)
(***************************************************************************)
LEMMA CanSkipTable ==
  ASSUME NEW r, NEW info, NEW uvReq
  PROVE  CanSkipUserVerification(r, info, uvReq) = SpecMaySkip(r, info, uvReq)
BY DEF CanSkipUserVerification, SpecMaySkip

THEOREM CanSkipCorrect == ReqSpec => []CanSkipMatchesSpec
<1>1. CanSkipMatchesSpec
  BY CanSkipTable DEF CanSkipMatchesSpec
<1>2. QED
  BY <1>1, PTL

=============================================================================
