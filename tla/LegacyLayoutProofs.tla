------------------------- MODULE LegacyLayoutProofs -------------------------
(***************************************************************************)
(* The cursor arithmetic of MakeCredentialsResult::from_ctap1 (lines      *)
(* 44-112), for every key length and every byte sequence: the parser       *)
(* accepts an input exactly when it has the legacy layout, and then cuts   *)
(* it where the layout says.  The argument rests on one fact about         *)
(* sequences (LayoutSplit): cutting d after byte 1, after 1 + k bytes, at  *)
(* the length byte and after il more bytes and concatenating the pieces    *)
(* with 5 and il in place of the first and the length byte gives back d    *)
(* exactly when d starts with 5 and its length byte is il.                 *)
(***************************************************************************)
EXTENDS MakeCredentialsResponseProofs, SequenceTheorems

\* The pieces of d for key length k and credential id length il, put back
\* together with the marker and the length byte (the right side of
\* IsLegacyLayout for LegacySplit).
Rebuilt(d, k, il) ==
  <<5>> \o SubSeq(d, 2, 1 + k) \o <<il>> \o SubSeq(d, 3 + k, 2 + k + il)
    \o SubSeq(d, 3 + k + il, Len(d))

\* Concatenation of two byte sequences, position by position.
LEMMA ConcatAt ==
  ASSUME NEW s1 \in Seq(Nat), NEW s2 \in Seq(Nat)
  PROVE  /\ s1 \o s2 \in Seq(Nat)
         /\ Len(s1 \o s2) = Len(s1) + Len(s2)
         /\ \A i \in 1 .. Len(s1) + Len(s2) :
               (s1 \o s2)[i] = IF i <= Len(s1) THEN s1[i] ELSE s2[i - Len(s1)]
BY ConcatProperties

\* Rebuilding d from its pieces gives d back exactly when its first byte is
\* the marker and its length byte is il.
LEMMA LayoutSplit ==
  ASSUME NEW d \in Seq(Nat), NEW k \in Nat, NEW il \in Nat,
         2 + k + il <= Len(d)
  PROVE  Rebuilt(d, k, il) = d <=> d[1] = 5 /\ d[2 + k] = il
<1> DEFINE L == Len(d)
           K == SubSeq(d, 2, 1 + k)
           C == SubSeq(d, 3 + k, 2 + k + il)
           T == SubSeq(d, 3 + k + il, L)
           S1 == <<5>> \o K
           S2 == S1 \o <<il>>
           S3 == S2 \o C
<1> HIDE DEF K, C, T, S1, S2, S3
<1>1. L \in Nat /\ \A i \in 1 .. L : d[i] \in Nat
  BY LenProperties
<1>2. /\ K \in Seq(Nat) /\ Len(K) = k /\ \A i \in 1 .. k : K[i] = d[1 + i]
      /\ C \in Seq(Nat) /\ Len(C) = il /\ \A i \in 1 .. il : C[i] = d[2 + k + i]
      /\ T \in Seq(Nat) /\ Len(T) = L - (2 + k + il)
      /\ \A i \in 1 .. L - (2 + k + il) : T[i] = d[2 + k + il + i]
  <2>1. \A i \in 2 .. 1 + k : d[i] \in Nat
    BY <1>1
  <2>2. \A i \in 3 + k .. 2 + k + il : d[i] \in Nat
    BY <1>1
  <2>3. \A i \in 3 + k + il .. L : d[i] \in Nat
    BY <1>1
  <2>4. QED
    BY <2>1, <2>2, <2>3, SubSeqProperties DEF K, C, T
<1>3. /\ S1 \in Seq(Nat) /\ Len(S1) = 1 + k
      /\ \A i \in 1 .. 1 + k : S1[i] = IF i = 1 THEN 5 ELSE d[i]
  <2>1. <<5>> \in Seq(Nat) /\ Len(<<5>>) = 1 /\ <<5>>[1] = 5
    OBVIOUS
  <2>2. /\ S1 \in Seq(Nat) /\ Len(S1) = Len(<<5>>) + Len(K)
        /\ \A i \in 1 .. Len(<<5>>) + Len(K) :
              S1[i] = IF i <= Len(<<5>>) THEN <<5>>[i] ELSE K[i - Len(<<5>>)]
    <3>1. K \in Seq(Nat)
      BY <1>2
    <3>2. QED
      BY <2>1, <3>1, ConcatAt DEF S1
  <2>3. QED
    BY <1>2, <2>1, <2>2
<1>4. /\ S2 \in Seq(Nat) /\ Len(S2) = 2 + k
      /\ \A i \in 1 .. 2 + k : S2[i] = IF i = 2 + k THEN il ELSE S1[i]
  <2>1. <<il>> \in Seq(Nat) /\ Len(<<il>>) = 1 /\ <<il>>[1] = il
    OBVIOUS
  <2>2. /\ S2 \in Seq(Nat) /\ Len(S2) = Len(S1) + Len(<<il>>)
        /\ \A i \in 1 .. Len(S1) + Len(<<il>>) :
              S2[i] = IF i <= Len(S1) THEN S1[i] ELSE <<il>>[i - Len(S1)]
    <3>1. S1 \in Seq(Nat)
      BY <1>3
    <3>2. QED
      BY <2>1, <3>1, ConcatAt DEF S2
  <2>3. QED
    BY <1>3, <2>1, <2>2
<1>5. /\ S3 \in Seq(Nat) /\ Len(S3) = 2 + k + il
      /\ \A i \in 1 .. 2 + k + il : S3[i] = IF i <= 2 + k THEN S2[i] ELSE d[i]
  <2>1. /\ S3 \in Seq(Nat) /\ Len(S3) = Len(S2) + Len(C)
        /\ \A i \in 1 .. Len(S2) + Len(C) :
              S3[i] = IF i <= Len(S2) THEN S2[i] ELSE C[i - Len(S2)]
    <3>1. S2 \in Seq(Nat) /\ C \in Seq(Nat)
      BY <1>2, <1>4
    <3>2. QED
      BY <3>1, ConcatAt DEF S3
  <2>2. ASSUME NEW i \in 1 .. 2 + k + il, i > 2 + k
        PROVE  S3[i] = d[i]
    <3>1. S3[i] = C[i - (2 + k)]
      BY <1>2, <1>4, <2>1, <2>2
    <3>2. i - (2 + k) \in 1 .. il
      BY <2>2
    <3>3. C[i - (2 + k)] = d[2 + k + (i - (2 + k))]
      BY <1>2, <3>2
    <3>4. QED
      BY <3>1, <3>3
  <2>3. ASSUME NEW i \in 1 .. 2 + k + il, i <= 2 + k
        PROVE  S3[i] = S2[i]
    BY <1>2, <1>4, <2>1, <2>3
  <2>4. QED
    BY <1>2, <1>4, <2>1, <2>2, <2>3
<1>6. /\ Rebuilt(d, k, il) \in Seq(Nat) /\ Len(Rebuilt(d, k, il)) = L
      /\ \A i \in 1 .. L : Rebuilt(d, k, il)[i] = IF i <= 2 + k + il THEN S3[i] ELSE d[i]
  <2>1. Rebuilt(d, k, il) = S3 \o T
    BY DEF Rebuilt, K, C, T, S1, S2, S3
  <2>2. /\ S3 \o T \in Seq(Nat) /\ Len(S3 \o T) = Len(S3) + Len(T)
        /\ \A i \in 1 .. Len(S3) + Len(T) : (S3 \o T)[i] =
               IF i <= Len(S3) THEN S3[i] ELSE T[i - Len(S3)]
    <3>1. S3 \in Seq(Nat) /\ T \in Seq(Nat)
      BY <1>2, <1>5
    <3>2. QED
      BY <3>1, ConcatAt
  <2>3. Len(S3) + Len(T) = L
    BY <1>1, <1>2, <1>5
  <2>4. ASSUME NEW i \in 1 .. L, ~(i <= 2 + k + il)
        PROVE  (S3 \o T)[i] = d[i]
    <3>0. /\ i \in 1 .. Len(S3) + Len(T) /\ ~(i <= Len(S3))
          /\ i - Len(S3) = i - (2 + k + il)
      BY <1>5, <2>3, <2>4
    <3>1. (S3 \o T)[i] = T[i - (2 + k + il)]
      <4>1. (S3 \o T)[i] = T[i - Len(S3)]
        BY <2>2, <3>0
      <4>2. QED
        BY <4>1, <3>0
    <3>2. i - (2 + k + il) \in 1 .. L - (2 + k + il)
      BY <2>4
    <3>3. T[i - (2 + k + il)] = d[2 + k + il + (i - (2 + k + il))]
      BY <1>2, <3>2
    <3>4. QED
      BY <3>1, <3>3
  <2>5. ASSUME NEW i \in 1 .. L, i <= 2 + k + il
        PROVE  (S3 \o T)[i] = S3[i]
    BY <1>5, <2>2, <2>3, <2>5
  <2>6. \A i \in 1 .. L : (S3 \o T)[i] = IF i <= 2 + k + il THEN S3[i] ELSE d[i]
    <3> SUFFICES ASSUME NEW i \in 1 .. L
                 PROVE  (S3 \o T)[i] = IF i <= 2 + k + il THEN S3[i] ELSE d[i]
      OBVIOUS
    <3>1. CASE i <= 2 + k + il
      BY <2>5, <3>1, Zenon
    <3>2. CASE ~(i <= 2 + k + il)
      BY <2>4, <3>2, Zenon
    <3>3. QED
      BY <3>1, <3>2
  <2>7. QED
    BY <2>1, <2>2, <2>3, <2>6
<1>7. \A i \in 1 .. L : Rebuilt(d, k, il)[i] =
        IF i = 1 THEN 5 ELSE IF i = 2 + k THEN il ELSE d[i]
  <2> SUFFICES ASSUME NEW i \in 1 .. L
               PROVE  Rebuilt(d, k, il)[i] =
                        IF i = 1 THEN 5 ELSE IF i = 2 + k THEN il ELSE d[i]
    OBVIOUS
  <2>1. CASE i <= 2 + k + il
    <3>1. Rebuilt(d, k, il)[i] = S3[i]
      BY <1>6, <2>1
    <3>2. CASE i > 2 + k
      BY <1>5, <2>1, <3>1, <3>2
    <3>3. CASE i <= 2 + k /\ i > 1 + k
      BY <1>4, <1>5, <3>1, <3>3
    <3>4. CASE i <= 1 + k
      <4>1. S3[i] = S2[i]
        BY <1>5, <2>1, <3>4
      <4>2. S2[i] = S1[i]
        BY <1>4, <3>4
      <4>3. S1[i] = IF i = 1 THEN 5 ELSE d[i]
        BY <1>3, <3>4
      <4>4. QED
        BY <3>1, <3>4, <4>1, <4>2, <4>3
    <3>5. QED
      BY <3>2, <3>3, <3>4
  <2>2. CASE i > 2 + k + il
    BY <1>6, <2>2
  <2>3. QED
    BY <2>1, <2>2
<1>8. ASSUME Rebuilt(d, k, il) = d PROVE d[1] = 5 /\ d[2 + k] = il
  BY <1>7, <1>8
<1>9. ASSUME d[1] = 5, d[2 + k] = il PROVE Rebuilt(d, k, il) = d
  <2>1. \A i \in 1 .. L : Rebuilt(d, k, il)[i] = d[i]
    BY <1>7, <1>9
  <2>2. QED
    BY <1>6, <2>1, SeqEqual
<1>10. QED
  BY <1>8, <1>9

-----------------------------------------------------------------------------
\* What an accepted input's attestation object holds (the right side of
\* the first disjunct of LegacyLayoutParsed).
ParsedLayout(d, a) ==
  /\ IsLegacyLayout(d, [key |-> a.key, credId |-> a.credId, certSig |-> a.certSig])
  /\ a.flags = {"UP", "AT"} /\ a.counter = 0 /\ a.raw = d

\* No cut of d has the legacy layout.
NoLayout(d) ==
  ~\E il \in 0 .. Len(d) :
     /\ 2 + KeyLen + il <= Len(d)
     /\ IsLegacyLayout(d, LegacySplit(d, il))

\* Two cuts of a sequence with equal bounds are equal.
LEMMA SubSeqCongruence ==
  ASSUME NEW s, NEW a, NEW b, NEW c, NEW e, a = b, c = e
  PROVE  SubSeq(s, a, c) = SubSeq(s, b, e)
BY Zenon

\* from_ctap1 accepts only inputs with the legacy layout, and cuts them
\* where the layout says.
LEMMA ParseAccepts ==
  \A d \in Seq(Nat) :
    LegacyParse(d).kind = "Result" => ParsedLayout(d, LegacyParse(d).att)
<1> SUFFICES ASSUME NEW d \in Seq(Nat), LegacyParse(d).kind = "Result"
             PROVE  ParsedLayout(d, LegacyParse(d).att)
  OBVIOUS
\* The cursor positions of from_ctap1, as LegacyParse names them.
<1> DEFINE k == KeyLen
           keyEnd == 1 + KeyLen
           n == d[keyEnd + 1]
           idEnd == keyEnd + 1 + n
           key == SubSeq(d, 2, keyEnd)
           credId == SubSeq(d, keyEnd + 2, idEnd)
           rest == SubSeq(d, idEnd + 1, Len(d))
<1>1. k \in Nat /\ Len(d) \in Nat
  BY ResponseAssumption, LenProperties
<1>2. /\ Len(d) # 0 /\ d[1] = 5 /\ Len(d) >= k + 2 /\ n \in Nat
      /\ Len(d) >= 2 + k + n
  <2>1. Len(d) # 0
    BY DEF LegacyParse, Deserializing
  <2>2. d[1] = 5
    BY <2>1 DEF LegacyParse, Deserializing
  <2>3. Len(d) >= k + 2
    BY <1>1, <2>1, <2>2 DEF LegacyParse, Deserializing
  <2>4. n \in Nat
    BY <1>1, <2>3, LenProperties
  <2>5. Len(d) >= 2 + k + n
    BY <1>1, <2>1, <2>2, <2>3, <2>4 DEF LegacyParse, Deserializing
  <2>6. QED
    BY <2>1, <2>2, <2>3, <2>4, <2>5
<1>3. LegacyParse(d) =
        Fresh([fmt |-> "fido-u2f", hmacSecret |-> None, key |-> key, credId |-> credId,
               certSig |-> rest, flags |-> {"UP", "AT"}, counter |-> 0, raw |-> d])
      /\ CertParses(rest) /\ KeyParses(key)
  BY <1>1, <1>2 DEF LegacyParse, Deserializing
<1> HIDE DEF key, credId, rest
<1>4. /\ key = SubSeq(d, 2, 1 + k)
      /\ credId = SubSeq(d, 3 + k, 2 + k + n)
      /\ rest = SubSeq(d, 3 + k + n, Len(d))
  <2>0. n \in Nat /\ KeyLen \in Nat
    BY <1>1, <1>2
  <2>1. keyEnd + 2 = 3 + k /\ idEnd = 2 + k + n /\ idEnd + 1 = 3 + k + n
    BY <2>0, SMT
  <2>2. QED
    BY <2>1, SubSeqCongruence, Zenon DEF key, credId, rest
<1>5. Len(key) = k /\ Len(credId) = n
  <2>0. n \in Nat /\ KeyLen \in Nat /\ Len(d) >= 2 + k + n
    BY <1>1, <1>2
  <2>1. \A i \in 2 .. 1 + k : d[i] \in Nat
    BY <2>0, LenProperties
  <2>2. \A i \in 3 + k .. 2 + k + n : d[i] \in Nat
    BY <2>0, LenProperties
  <2>3. Len(SubSeq(d, 2, 1 + k)) = k
    BY <2>0, <2>1, SubSeqProperties
  <2>4. Len(SubSeq(d, 3 + k, 2 + k + n)) = n
    BY <2>0, <2>2, SubSeqProperties
  <2>5. QED
    BY <1>4, <2>3, <2>4
<1>6. Rebuilt(d, k, n) = d
  <2>1. d[2 + k] = n
    BY <1>1
  <2>2. QED
    BY <1>1, <1>2, <2>1, LayoutSplit
<1>7. d = <<5>> \o key \o <<Len(credId)>> \o credId \o rest
  BY <1>4, <1>5, <1>6 DEF Rebuilt
<1>8. /\ LegacyParse(d).att.key = key /\ LegacyParse(d).att.credId = credId
      /\ LegacyParse(d).att.certSig = rest /\ LegacyParse(d).att.raw = d
      /\ LegacyParse(d).att.flags = {"UP", "AT"} /\ LegacyParse(d).att.counter = 0
  BY <1>3 DEF Fresh
<1>9. QED
  BY <1>3, <1>5, <1>7, <1>8 DEF ParsedLayout, IsLegacyLayout

\* An input that has the legacy layout for some cut is accepted.
LEMMA ParseRejects ==
  \A d \in Seq(Nat) : LegacyParse(d).kind # "Result" => NoLayout(d)
<1> SUFFICES ASSUME NEW d \in Seq(Nat), NEW il \in 0 .. Len(d),
                    2 + KeyLen + il <= Len(d),
                    IsLegacyLayout(d, LegacySplit(d, il))
             PROVE  LegacyParse(d).kind = "Result"
  BY DEF NoLayout
<1> DEFINE k == KeyLen
<1>1. k \in Nat /\ Len(d) \in Nat /\ il \in Nat
  BY ResponseAssumption, LenProperties
<1>2. Len(SubSeq(d, 3 + k, 2 + k + il)) = il
  <2>1. \A i \in 3 + k .. 2 + k + il : d[i] \in Nat
    BY <1>1, LenProperties
  <2>2. QED
    BY <1>1, <2>1, SubSeqProperties
<1>3. /\ Rebuilt(d, k, il) = d
      /\ KeyParses(SubSeq(d, 2, 1 + k))
      /\ CertParses(SubSeq(d, 3 + k + il, Len(d)))
  BY <1>2 DEF IsLegacyLayout, LegacySplit, Rebuilt
<1>4. d[1] = 5 /\ d[2 + k] = il
  BY <1>1, <1>3, LayoutSplit
\* The cursor positions of from_ctap1, as LegacyParse names them.
<1> DEFINE keyEnd == 1 + KeyLen
           n == d[keyEnd + 1]
           idEnd == keyEnd + 1 + n
<1>5. n = il /\ idEnd = 2 + k + il
  BY <1>1, <1>4
<1>6. /\ KeyParses(SubSeq(d, 2, keyEnd))
      /\ CertParses(SubSeq(d, idEnd + 1, Len(d)))
  <2>1. keyEnd = 1 + k /\ idEnd + 1 = 3 + k + il
    BY <1>1, <1>5
  <2>2. SubSeq(d, 2, keyEnd) = SubSeq(d, 2, 1 + k)
        /\ SubSeq(d, idEnd + 1, Len(d)) = SubSeq(d, 3 + k + il, Len(d))
    BY <2>1, SubSeqCongruence, Zenon
  <2>3. QED
    BY <1>3, <2>2, Zenon
<1>7. /\ Len(d) # 0 /\ d[1] = 5 /\ ~(Len(d) < keyEnd) /\ Len(d) # keyEnd
      /\ ~(Len(d) < idEnd)
  BY <1>1, <1>4, <1>5
<1>8. QED
  BY <1>6, <1>7 DEF LegacyParse, Fresh

-----------------------------------------------------------------------------
\* A legacy answer's data is a byte sequence.
DataTyped == transport = "ctap1" => response.data \in Seq(Nat)

\* The response invariant, the type of the legacy data, and the property.
LayoutInv == RespInv /\ DataTyped /\ LegacyLayoutParsed

\* No exchange has finished in the initial state, and every legacy answer
\* the environment can give is a byte sequence.
LEMMA LayoutInitInv ==
  ASSUME RespInit
  PROVE  LayoutInv
<1>1. RespInv
  BY RespInitInv
<1>2. DataTyped
  <2>1. ASSUME NEW n \in 0 .. MaxLen, NEW f \in [1 .. n -> ByteVals]
        PROVE  f \in Seq(Nat)
    <3>1. ByteVals \subseteq Nat /\ n \in Nat
      BY ResponseAssumption
    <3>2. f \in [1 .. n -> Nat]
      BY <3>1
    <3>3. QED
      BY <3>1, <3>2
  <2>2. ASSUME transport = "ctap1" PROVE response.data \in Seq(Nat)
    <3>1. CASE response \in [apdu : ApduStatuses, data : {<<>>}]
      <4>1. response.data = <<>>
        BY <3>1
      <4>2. <<>> \in Seq(Nat)
        BY EmptySeq
      <4>3. QED
        BY <4>1, <4>2
    <3>2. CASE \E n \in 0 .. MaxLen : \E f \in [1 .. n -> ByteVals] :
                 response = [apdu |-> "ok", data |-> f]
      <4>1. PICK n \in 0 .. MaxLen : \E f \in [1 .. n -> ByteVals] :
                   response = [apdu |-> "ok", data |-> f]
        BY <3>2
      <4>2. PICK f \in [1 .. n -> ByteVals] : response = [apdu |-> "ok", data |-> f]
        BY <4>1
      <4>3. f \in Seq(Nat)
        BY <2>1, Zenon
      <4>4. QED
        BY <4>2, <4>3
    <3>3. QED
      BY <2>2, <3>1, <3>2 DEF RespInit
  <2>3. QED
    BY <2>2 DEF DataTyped
<1>3. LegacyLayoutParsed
  BY DEF RespInit, LegacyLayoutParsed
<1>4. QED
  BY <1>1, <1>2, <1>3 DEF LayoutInv

\* Each handler, and a stutter, keeps the invariant.
LEMMA LayoutNextInv ==
  ASSUME LayoutInv, [RespNext]_respVars
  PROVE  LayoutInv'
<1>1. RespInv'
  BY RespNextInv DEF LayoutInv
<1>2. transport' = transport /\ response' = response
  BY DEF RespNext, HandleCtap2, HandleCtap1, HandleVirtual, respVars
<1>3. DataTyped'
  BY <1>2 DEF LayoutInv, DataTyped
<1>4. LegacyLayoutParsed'
  <2>1. CASE HandleCtap1
    <3> SUFFICES ASSUME response.apdu = "ok", outcome' # None
                 PROVE  LegacyLayoutParsed'
      BY <1>2 DEF LegacyLayoutParsed
    <3> DEFINE d == response.data
    <3>1. d \in Seq(Nat)
      BY <2>1 DEF HandleCtap1, LayoutInv, DataTyped
    <3>2. CASE LegacyParse(d).kind = "Result"
      <4>1. outcome' = Finalize(rq, info, LegacyParse(d))
        BY <2>1, <3>2 DEF HandleCtap1
      <4>2. PICK a : LegacyParse(d) = Fresh(a)
        BY <3>2, LegacyParseFresh
      <4>3. a = LegacyParse(d).att
        BY <4>2 DEF Fresh
      <4>4. rq \in [rk : OptBool, credProps : OptBool, hmacSecret : OptBool]
            /\ info \in Infos \cup {None}
        BY ResponseAssumption DEF LayoutInv, RespInv
      <4>5. outcome'.kind = "Result" /\ outcome'.att = a
        BY <4>1, <4>2, <4>4, FinalizeTable DEF FinalizedAsTable
      <4>6. ParsedLayout(d, a)
        BY <3>1, <3>2, <4>3, ParseAccepts
      <4>7. QED
        BY <1>2, <4>5, <4>6 DEF LegacyLayoutParsed, IsResult, ParsedLayout
    <3>3. CASE LegacyParse(d).kind # "Result"
      <4>1. outcome' = LegacyParse(d)
        BY <2>1, <3>3 DEF HandleCtap1
      <4>2. NoLayout(d)
        BY <3>1, <3>3, ParseRejects
      <4>3. QED
        BY <1>2, <3>3, <4>1, <4>2 DEF LegacyLayoutParsed, IsResult, NoLayout
    <3>4. QED
      BY <3>2, <3>3
  <2>2. CASE HandleCtap2 \/ HandleVirtual
    BY <1>2, <2>2 DEF HandleCtap2, HandleVirtual, LegacyLayoutParsed
  <2>3. CASE UNCHANGED respVars
    BY <2>3 DEF respVars, LayoutInv, LegacyLayoutParsed, IsResult
  <2>4. QED
    BY <2>1, <2>2, <2>3 DEF RespNext
<1>5. QED
  BY <1>1, <1>3, <1>4 DEF LayoutInv

(***************************************************************************)
(* For every key length, every bound on the input and every byte sequence *)
(* the device can send, handle_response_ctap1 (481-499) through from_ctap1 *)
(* (44-112) accepts an answer exactly when it has the legacy register      *)
(* layout 0x05 || key || n || credential id (n bytes) || certificate and   *)
(* signature, and then returns a result cut where the layout says, with    *)
(* flags UP|AT, counter 0 and the whole input as raw data.                 *)
(***************************************************************************)
THEOREM LayoutParsedCorrect == RespSpec => []LegacyLayoutParsed
<1>1. LayoutInv => LegacyLayoutParsed
  BY DEF LayoutInv
<1>2. QED
  BY <1>1, LayoutInitInv, LayoutNextInv, PTL DEF RespSpec

=============================================================================
