-------------------- MODULE MakeCredentialsResponseProofs --------------------
(***************************************************************************)
(* Proofs about MakeCredentialsResponse for every value of the constants:  *)
(* finalize_result implements the reconciliation table of spec.md 4.5, and *)
(* a legacy answer with a wrong marker is always reported with the byte    *)
(* it carried.  An exchange takes one handler step and then stops, so a    *)
(* property of the outcome is inductive once the handlers are shown to     *)
(* establish it; the invariant adds only the types of the fixed inputs.    *)
(***************************************************************************)
EXTENDS MakeCredentialsResponse, TLAPS

\* The newest version the snapshot lists is FIDO_2_0 exactly when FIDO_2_0
\* is listed and neither 2.1 revision is (max_supported_version).
LEMMA MaxVersionIsFido20 ==
  \A i \in Infos :
    MaxSupportedVersion(i) = "FIDO_2_0" <=>
      /\ "FIDO_2_0" \in i.versions
      /\ \A v \in {"FIDO_2_1_PRE", "FIDO_2_1"} : v \notin i.versions
<1> SUFFICES ASSUME NEW i \in Infos
             PROVE  MaxSupportedVersion(i) = "FIDO_2_0" <=>
                      /\ "FIDO_2_0" \in i.versions
                      /\ \A v \in {"FIDO_2_1_PRE", "FIDO_2_1"} : v \notin i.versions
  OBVIOUS
<1> DEFINE Top(k) == /\ Versions[k] \in i.versions
                     /\ \A j \in 1..4 : Versions[j] \in i.versions => j <= k
<1>1. i.versions \subseteq VersionSet /\ i.versions # {}
  <2>1. i.versions \in (SUBSET VersionSet) \ {{}}
    BY Zenon DEF Infos
  <2>2. QED
    BY <2>1
<1>2. \E k \in 1..4 : Top(k)
  <2>1. CASE "FIDO_2_1" \in i.versions
    <3>1. Top(4)
      BY <2>1 DEF Versions
    <3>2. QED
      BY <3>1
  <2>2. CASE "FIDO_2_1" \notin i.versions /\ "FIDO_2_1_PRE" \in i.versions
    <3>1. Top(3)
      BY <2>2 DEF Versions
    <3>2. QED
      BY <3>1
  <2>3. CASE "FIDO_2_1" \notin i.versions /\ "FIDO_2_1_PRE" \notin i.versions
             /\ "FIDO_2_0" \in i.versions
    <3>1. Top(2)
      BY <2>3 DEF Versions
    <3>2. QED
      BY <3>1
  <2>4. CASE "FIDO_2_1" \notin i.versions /\ "FIDO_2_1_PRE" \notin i.versions
             /\ "FIDO_2_0" \notin i.versions
    <3>1. "U2F_V2" \in i.versions
      BY <1>1, <2>4 DEF VersionSet, Versions
    <3>2. \A j \in 1..4 : j = 1 \/ j = 2 \/ j = 3 \/ j = 4
      OBVIOUS
    <3>3. Top(1)
      BY <2>4, <3>1, <3>2 DEF Versions
    <3>4. QED
      BY <3>3
  <2>5. QED
    BY <2>1, <2>2, <2>3, <2>4
<1>3. PICK k \in 1..4 : Top(k) /\ MaxSupportedVersion(i) = Versions[k]
  BY <1>2 DEF MaxSupportedVersion
<1>4. QED
  BY <1>3 DEF Versions

(***************************************************************************)
(* finalize_result applied to a fresh result gives the outputs of the      *)
(* reconciliation table and keeps the attestation object.                  *)
(***************************************************************************)
FinalizedAsTable(q, i, a) ==
  LET f == Finalize(q, i, Fresh(a)) IN
  /\ f.kind = "Result" /\ f.att = a
  /\ f.attachment = (IF i = None THEN "Unknown"
                     ELSE IF i.platformDevice THEN "Platform" ELSE "CrossPlatform")
  /\ f.credProps = (IF q.credProps = TRUE /\ ~SpecRkUncertain(q, i)
                    THEN q.rk = TRUE ELSE None)
  /\ f.hmacCreateSecret = (IF q.hmacSecret = TRUE /\ a.hmacSecret \in BOOLEAN
                           THEN a.hmacSecret ELSE None)

\* Every request, snapshot and attestation object finalize_result can meet
\* gives the table's outputs.
LEMMA FinalizeTable ==
  \A q \in [rk : OptBool, credProps : OptBool, hmacSecret : OptBool],
    i \in Infos \cup {None} : \A a : FinalizedAsTable(q, i, a)
<1> SUFFICES ASSUME NEW q \in [rk : OptBool, credProps : OptBool, hmacSecret : OptBool],
                    NEW i \in Infos \cup {None}, NEW a
             PROVE  FinalizedAsTable(q, i, a)
  OBVIOUS
<1> USE DEF FinalizedAsTable
<1>1. CASE i = None
  BY <1>1 DEF Finalize, Fresh, SpecRkUncertain
<1>2. CASE i \in Infos
  <2>1. MaxSupportedVersion(i) = "FIDO_2_0" <=>
          /\ "FIDO_2_0" \in i.versions
          /\ \A v \in {"FIDO_2_1_PRE", "FIDO_2_1"} : v \notin i.versions
    BY <1>2, MaxVersionIsFido20
  <2>2. i # None /\ i.rk \in BOOLEAN
    <3>1. i # None
      BY <1>2, ResponseAssumption
    <3>2. i.rk \in BOOLEAN
      BY <1>2, Zenon DEF Infos
    <3>3. QED
      BY <3>1, <3>2
  <2>3. QED
    BY <2>1, <2>2 DEF Finalize, Fresh, SpecRkUncertain
<1>3. QED
  BY <1>1, <1>2

\* A legacy parse that succeeds yields a fresh result; one that fails does
\* not have kind "Result".
LEMMA LegacyParseFresh ==
  \A d : LegacyParse(d).kind = "Result" => \E a : LegacyParse(d) = Fresh(a)
<1> SUFFICES ASSUME NEW d, LegacyParse(d).kind = "Result"
             PROVE  \E a : LegacyParse(d) = Fresh(a)
  OBVIOUS
<1> DEFINE keyEnd == 1 + KeyLen
           idEnd == keyEnd + 1 + d[keyEnd + 1]
           key == SubSeq(d, 2, keyEnd)
           rest == SubSeq(d, idEnd + 1, Len(d))
           att == [fmt |-> "fido-u2f", hmacSecret |-> None,
                   key |-> key, credId |-> SubSeq(d, keyEnd + 2, idEnd),
                   certSig |-> rest, flags |-> {"UP", "AT"}, counter |-> 0,
                   raw |-> d]
<1>1. \A w : Deserializing(w).kind # "Result"
  BY DEF Deserializing
<1>2. LegacyParse(d) = Fresh(att)
  BY <1>1 DEF LegacyParse
<1>3. QED
  BY <1>2

\* A failed legacy parse is a Deserializing error.
LEMMA LegacyParseKind ==
  \A d : LegacyParse(d).kind \in {"Result", "Deserializing"}
BY DEF LegacyParse, Fresh, Deserializing

\* finalize_result keeps the kind of the value it completes.
LEMMA FinalizeKind ==
  \A q, i, a : Finalize(q, i, Fresh(a)).kind = "Result"
BY DEF Finalize, Fresh

-----------------------------------------------------------------------------
\* The kinds of outcome the three handlers return.
OutcomeKinds ==
  {"Result", "InputTooSmall", "StatusCode", "Deserializing",
   "Retry", "ApduStatus", "VirtualDevice"}

\* The inputs keep their types, the outcome is one of the handlers' kinds,
\* and the two outcome properties hold.
RespInv ==
  /\ rq \in Requests
  /\ info \in DeviceInfos
  /\ transport \in Transports
  /\ outcome = None \/ outcome.kind \in OutcomeKinds
  /\ ReconciledOutputs
  /\ LegacyMarkerNamed

\* A handler that ends in finalize_result establishes ReconciledOutputs.
LEMMA FinalizedStep ==
  ASSUME RespInv, NEW a, outcome' = Finalize(rq, info, Fresh(a)),
         rq' = rq, info' = info
  PROVE  ReconciledOutputs'
<1>1. rq \in [rk : OptBool, credProps : OptBool, hmacSecret : OptBool]
      /\ info \in Infos \cup {None}
  BY ResponseAssumption DEF RespInv
<1>2. /\ outcome'.kind = "Result" /\ outcome'.att = a
      /\ outcome'.attachment = (IF info = None THEN "Unknown"
                                ELSE IF info.platformDevice THEN "Platform"
                                ELSE "CrossPlatform")
      /\ outcome'.credProps = (IF rq.credProps = TRUE /\ ~SpecRkUncertain(rq, info)
                               THEN rq.rk = TRUE ELSE None)
      /\ outcome'.hmacCreateSecret = (IF rq.hmacSecret = TRUE /\ a.hmacSecret \in BOOLEAN
                                      THEN a.hmacSecret ELSE None)
  <2>1. FinalizedAsTable(rq, info, a)
    BY <1>1, FinalizeTable
  <2>2. QED
    BY <2>1 DEF FinalizedAsTable
<1>3. QED
  BY <1>2 DEF ReconciledOutputs, IsResult

\* No exchange has finished in the initial state.
LEMMA RespInitInv ==
  ASSUME RespInit
  PROVE  RespInv
BY DEF RespInit, RespInv, OutcomeKinds, ReconciledOutputs, IsResult, LegacyMarkerNamed

\* Each handler, and a stutter, keeps the invariant.
LEMMA RespNextInv ==
  ASSUME RespInv, [RespNext]_respVars
  PROVE  RespInv'
<1>1. CASE HandleCtap2
  <2>1. rq' = rq /\ info' = info /\ transport' = transport /\ transport = "ctap2"
    BY <1>1 DEF HandleCtap2
  <2>2. ReconciledOutputs'
    <3>1. CASE outcome'.kind = "Result"
      <4>1. outcome' = Finalize(rq, info, Fresh(response.body.att))
        BY <1>1, <3>1 DEF HandleCtap2, Deserializing
      <4>2. QED
        BY <2>1, <4>1, FinalizedStep
    <3>2. CASE outcome'.kind # "Result"
      BY <3>2 DEF ReconciledOutputs, IsResult
    <3>3. QED
      BY <3>1, <3>2
  <2>3. outcome'.kind \in OutcomeKinds
    <3>1. Finalize(rq, info, Fresh(response.body.att)).kind = "Result"
      BY FinalizeKind
    <3>2. QED
      BY <1>1, <3>1 DEF HandleCtap2, Deserializing, OutcomeKinds
  <2>4. QED
    BY <2>1, <2>2, <2>3 DEF RespInv, LegacyMarkerNamed
<1>2. CASE HandleVirtual
  <2>1. rq' = rq /\ info' = info /\ transport' = transport /\ transport = "virtual"
    BY <1>2 DEF HandleVirtual
  <2>2. ReconciledOutputs'
    <3>1. CASE outcome'.kind = "Result"
      <4>1. outcome' = Finalize(rq, info, Fresh(response.att))
        BY <1>2, <3>1 DEF HandleVirtual
      <4>2. QED
        BY <2>1, <4>1, FinalizedStep
    <3>2. CASE outcome'.kind # "Result"
      BY <3>2 DEF ReconciledOutputs, IsResult
    <3>3. QED
      BY <3>1, <3>2
  <2>3. outcome'.kind \in OutcomeKinds
    <3>1. Finalize(rq, info, Fresh(response.att)).kind = "Result"
      BY FinalizeKind
    <3>2. QED
      BY <1>2, <3>1 DEF HandleVirtual, OutcomeKinds
  <2>4. QED
    BY <2>1, <2>2, <2>3 DEF RespInv, LegacyMarkerNamed
<1>3. CASE HandleCtap1
  <2>1. rq' = rq /\ info' = info /\ transport' = transport /\ response' = response
    BY <1>3 DEF HandleCtap1
  <2>2. ReconciledOutputs'
    <3>1. CASE outcome'.kind = "Result"
      <4>1. /\ response.apdu = "ok" /\ LegacyParse(response.data).kind = "Result"
            /\ outcome' = Finalize(rq, info, LegacyParse(response.data))
        BY <1>3, <3>1 DEF HandleCtap1
      <4>2. PICK a : LegacyParse(response.data) = Fresh(a)
        BY <4>1, LegacyParseFresh
      <4>3. QED
        BY <2>1, <4>1, <4>2, FinalizedStep
    <3>2. CASE outcome'.kind # "Result"
      BY <3>2 DEF ReconciledOutputs, IsResult
    <3>3. QED
      BY <3>1, <3>2
  <2>3. LegacyMarkerNamed'
    <3> SUFFICES ASSUME response.apdu = "ok", Len(response.data) > 0,
                        response.data[1] # 5
                 PROVE  outcome' = [kind |-> "Deserializing", what |-> "magic",
                                    got |-> response.data[1]]
      BY <2>1 DEF LegacyMarkerNamed
    <3>1. LegacyParse(response.data) =
            [kind |-> "Deserializing", what |-> "magic", got |-> response.data[1]]
      BY DEF LegacyParse
    <3>2. QED
      BY <1>3, <3>1 DEF HandleCtap1
  <2>4. outcome'.kind \in OutcomeKinds
    <3>1. CASE LegacyParse(response.data).kind = "Result"
      <4>1. PICK a : LegacyParse(response.data) = Fresh(a)
        BY <3>1, LegacyParseFresh
      <4>2. Finalize(rq, info, LegacyParse(response.data)).kind = "Result"
        BY <4>1, FinalizeKind
      <4>3. QED
        BY <1>3, <3>1, <4>2 DEF HandleCtap1, OutcomeKinds
    <3>2. CASE LegacyParse(response.data).kind # "Result"
      <4>1. LegacyParse(response.data).kind = "Deserializing"
        BY <3>2, LegacyParseKind
      <4>2. QED
        BY <1>3, <3>2, <4>1 DEF HandleCtap1, OutcomeKinds
    <3>3. QED
      BY <3>1, <3>2
  <2>5. QED
    BY <2>1, <2>2, <2>3, <2>4 DEF RespInv
<1>4. CASE UNCHANGED respVars
  BY <1>4 DEF respVars, RespInv, OutcomeKinds, ReconciledOutputs, IsResult, LegacyMarkerNamed
<1>5. QED
  BY <1>1, <1>2, <1>3, <1>4 DEF RespNext

(***************************************************************************)
(* Every result a handler hands back (handle_response_ctap2, _ctap1 and    *)
(* send_to_virtual_device, each through finalize_result 311-354) has the  *)
(* attachment, credProps and hmacCreateSecret outputs of spec.md 4.5, for  *)
(* every request, snapshot and answer.                                     *)
(***************************************************************************)
THEOREM ReconciledCorrect == RespSpec => []ReconciledOutputs
<1>1. RespInv => ReconciledOutputs
  BY DEF RespInv
<1>2. QED
  BY <1>1, RespInitInv, RespNextInv, PTL DEF RespSpec

(***************************************************************************)
(* A legacy answer whose first byte is not the marker 0x05 is rejected     *)
(* with an error naming that byte, whatever its length (from_ctap1 46-53). *)
(***************************************************************************)
THEOREM MarkerNamedCorrect == RespSpec => []LegacyMarkerNamed
<1>1. RespInv => LegacyMarkerNamed
  BY DEF RespInv
<1>2. QED
  BY <1>1, RespInitInv, RespNextInv, PTL DEF RespSpec

(***************************************************************************)
(* Type correctness of an exchange: the handlers return one of their      *)
(* error kinds or a result, and a result's attachment, credProps and       *)
(* hmacCreateSecret outputs have the types of spec.md 3 (a value, or       *)
(* absent), for every request, snapshot and answer.                        *)
(***************************************************************************)
THEOREM RespTypeCorrect == RespSpec => []RespTypeOK
<1>1. RespInv => RespTypeOK
  <2> SUFFICES ASSUME RespInv PROVE RespTypeOK
    OBVIOUS
  <2>1. rq \in [rk : OptBool, credProps : OptBool, hmacSecret : OptBool]
    BY ResponseAssumption DEF RespInv
  <2>2. QED
    BY <2>1 DEF RespInv, RespTypeOK, OutcomeKinds, ReconciledOutputs, Attachments
<1>2. QED
  BY <1>1, RespInitInv, RespNextInv, PTL DEF RespSpec

=============================================================================
