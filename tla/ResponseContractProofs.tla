------------------------ MODULE ResponseContractProofs ------------------------
(***************************************************************************)
(* Proof that the response handlers of MakeCredentialsResponse implement   *)
(* ResponseContract under the mapping Contract: the answer read as its     *)
(* class and status, the outcome as what the caller receives.  The         *)
(* invariant RespInv of MakeCredentialsResponseProofs supplies the types   *)
(* of the request and snapshot that finalize_result reads.                 *)
(***************************************************************************)
EXTENDS MakeCredentialsResponseProofs

\* The two statements of the resident-key uncertainty agree.
LEMMA RkUncertainAgree ==
  \A r, i : Contract!RkUncertain(r, i) = SpecRkUncertain(r, i)
BY DEF Contract!RkUncertain, SpecRkUncertain

(***************************************************************************)
(* A handler that ends in finalize_result hands back a result reconciled   *)
(* as the contract says.                                                   *)
(***************************************************************************)
LEMMA FinalizedMeetsContract ==
  ASSUME RespInv, NEW a
  PROVE  LET o == Finalize(rq, info, Fresh(a))
         IN  o.kind = "Result" /\ Contract!Reconciled(rq, info, o)
<1>1. rq \in [rk : OptBool, credProps : OptBool, hmacSecret : OptBool]
      /\ info \in Infos \cup {None}
  BY ResponseAssumption DEF RespInv
<1>2. FinalizedAsTable(rq, info, a)
  BY <1>1, FinalizeTable
<1>3. QED
  BY <1>2, RkUncertainAgree DEF FinalizedAsTable, Contract!Reconciled

\* The status codes of the initial answers.
LEMMA ContractInit ==
  ASSUME RespInit
  PROVE  Contract!CInit
<1>1. AnswerClass \in [class : Contract!AnswerClasses,
                       code : ApduStatuses \cup {"ok", "err"}]
  BY DEF RespInit, AnswerClass, Contract!AnswerClasses, Ctap2Responses, Ctap2Bodies,
         ApduStatuses
<1>2. AnswerClass.class = "conditionsNotSatisfied" => transport = "ctap1"
  BY DEF RespInit, AnswerClass
<1>3. QED
  BY <1>1, <1>2, ResponseAssumption DEF RespInit, Contract!CInit

LEMMA ContractStep ==
  ASSUME RespInv, [RespNext]_respVars
  PROVE  [Contract!Handle]_Contract!cvars
<1>1. CASE HandleCtap2
  <2>1. /\ transport = "ctap2" /\ outcome = None
        /\ UNCHANGED <<rq, info, transport, response>>
    BY <1>1 DEF HandleCtap2
  <2>2. AnswerClass' = AnswerClass
    BY <2>1 DEF AnswerClass
  <2> DEFINE a == AnswerClass
  <2>3. CASE response.len = 0
    <3>1. a.class = "none" /\ outcome' = [kind |-> "InputTooSmall"]
      BY <1>1, <2>1, <2>3 DEF HandleCtap2, AnswerClass
    <3>2. QED
      BY <2>1, <2>2, <3>1 DEF Contract!Acceptable, Contract!TooShort, Contract!Handle
  <2>4. CASE response.len = 1 /\ response.status = "ok"
    <3>1. a.class = "okNoBody" /\ outcome' = [kind |-> "InputTooSmall"]
      BY <1>1, <2>1, <2>4 DEF HandleCtap2, AnswerClass
    <3>2. QED
      BY <2>1, <2>2, <3>1 DEF Contract!Acceptable, Contract!TooShort, Contract!Handle
  <2>7. CASE response.len \notin {0, 1} /\ response.status = "ok"
    <3>1. a.class = "ok"
      BY <2>1, <2>7 DEF AnswerClass
    <3>2. CASE response.body.kind # "attObj"
      <4>1. outcome'.kind = "Deserializing"
        BY <1>1, <2>7, <3>2 DEF HandleCtap2, Deserializing
      <4>2. QED
        BY <2>1, <2>2, <3>1, <4>1 DEF Contract!Acceptable, Contract!TooShort,
                                     Contract!Handle
    <3>3. CASE response.body.kind = "attObj"
      <4>1. outcome' = Finalize(rq, info, Fresh(response.body.att))
        BY <1>1, <2>7, <3>3 DEF HandleCtap2
      <4>2. outcome'.kind = "Result" /\ Contract!Reconciled(rq, info, outcome')
        BY <4>1, FinalizedMeetsContract
      <4>3. QED
        BY <2>1, <2>2, <3>1, <4>2 DEF Contract!Acceptable, Contract!TooShort,
                                     Contract!Handle
    <3>4. QED
      BY <3>2, <3>3
  <2>5. CASE response.len # 0 /\ response.status # "ok"
    <3>1. a.class = "error"
      BY <2>1, <2>5 DEF AnswerClass
    <3>2. outcome'.kind \in {"StatusCode", "Deserializing"}
      BY <1>1, <2>5 DEF HandleCtap2, Deserializing
    <3>3. QED
      BY <2>1, <2>2, <3>1, <3>2 DEF Contract!Acceptable, Contract!TooShort, Contract!Handle
  <2>6. QED
    BY <2>3, <2>4, <2>5, <2>7
<1>2. CASE HandleVirtual
  <2>1. /\ transport = "virtual" /\ outcome = None
        /\ UNCHANGED <<rq, info, transport, response>>
    BY <1>2 DEF HandleVirtual
  <2>2. AnswerClass' = AnswerClass
    BY <2>1 DEF AnswerClass
  <2> DEFINE a == AnswerClass
  <2>3. CASE response.kind = "garbage"
    <3>1. a.class = "error" /\ outcome' = [kind |-> "VirtualDevice"]
      BY <1>2, <2>1, <2>3 DEF HandleVirtual, AnswerClass
    <3>2. QED
      BY <2>1, <2>2, <3>1 DEF Contract!Acceptable, Contract!TooShort, Contract!Handle
  <2>4. CASE response.kind # "garbage"
    <3>1. a.class = "ok"
      BY <2>1, <2>4 DEF AnswerClass
    <3>2. outcome' = Finalize(rq, info, Fresh(response.att))
      BY <1>2, <2>4 DEF HandleVirtual
    <3>3. outcome'.kind = "Result" /\ Contract!Reconciled(rq, info, outcome')
      BY <3>2, FinalizedMeetsContract
    <3>4. QED
      BY <2>1, <2>2, <3>1, <3>3 DEF Contract!Acceptable, Contract!TooShort,
                                   Contract!Handle
  <2>5. QED
    BY <2>3, <2>4
<1>3. CASE HandleCtap1
  <2>1. /\ transport = "ctap1" /\ outcome = None
        /\ UNCHANGED <<rq, info, transport, response>>
    BY <1>3 DEF HandleCtap1
  <2>2. AnswerClass' = AnswerClass
    BY <2>1 DEF AnswerClass
  <2> DEFINE a == AnswerClass
  <2>3. CASE response.apdu = "ConditionsNotSatisfied"
    <3>1. a.class = "conditionsNotSatisfied" /\ outcome' = [kind |-> "Retry"]
      BY <1>3, <2>1, <2>3 DEF HandleCtap1, AnswerClass
    <3>2. QED
      BY <2>1, <2>2, <3>1 DEF Contract!Acceptable, Contract!TooShort, Contract!Handle
  <2>4. CASE response.apdu \notin {"ok", "ConditionsNotSatisfied"}
    <3>1. a = [class |-> "error", code |-> response.apdu]
      BY <2>1, <2>4 DEF AnswerClass
    <3>2. outcome' = [kind |-> "ApduStatus", status |-> response.apdu]
      BY <1>3, <2>4 DEF HandleCtap1
    <3>3. QED
      BY <2>1, <2>2, <3>1, <3>2 DEF Contract!Acceptable, Contract!TooShort, Contract!Handle
  <2>5. CASE response.apdu = "ok"
    <3>1. a.class = "ok"
      BY <2>1, <2>5 DEF AnswerClass
    <3>2. CASE LegacyParse(response.data).kind = "Result"
      <4>1. PICK r : LegacyParse(response.data) = Fresh(r)
        BY <3>2, LegacyParseFresh
      <4>2. outcome' = Finalize(rq, info, Fresh(r))
        BY <1>3, <2>5, <3>2, <4>1 DEF HandleCtap1
      <4>3. outcome'.kind = "Result" /\ Contract!Reconciled(rq, info, outcome')
        BY <4>2, FinalizedMeetsContract
      <4>4. QED
        BY <2>1, <2>2, <3>1, <4>3 DEF Contract!Acceptable, Contract!TooShort,
                                     Contract!Handle
    <3>3. CASE LegacyParse(response.data).kind # "Result"
      <4>1. outcome'.kind = "Deserializing"
        <5>1. LegacyParse(response.data).kind = "Deserializing"
          BY <3>3, LegacyParseKind
        <5>2. QED
          BY <1>3, <2>5, <3>3, <5>1 DEF HandleCtap1
      <4>2. QED
        BY <2>1, <2>2, <3>1, <4>1 DEF Contract!Acceptable, Contract!TooShort,
                                     Contract!Handle
    <3>4. QED
      BY <3>2, <3>3
  <2>6. QED
    BY <2>3, <2>4, <2>5
<1>4. CASE UNCHANGED respVars
  BY <1>4 DEF respVars, AnswerClass, Contract!cvars
<1>5. QED
  BY <1>1, <1>2, <1>3, <1>4 DEF RespNext

(***************************************************************************)
(* The handlers implement ResponseContract: ConditionsNotSatisfied, and    *)
(* nothing else, becomes Retry (handle_response_ctap1 488-490); any other  *)
(* device error is fatal, the CTAP1 one as ApduStatus with its status;     *)
(* a modern frame too short for a body is InputTooSmall and never reaches *)
(* the decoder (527-535); every success answer with a body ends in a      *)
(* Deserializing error or in a result reconciled as spec.md 4.5 says, on  *)
(* each of the three paths, for every request, snapshot and answer.       *)
(***************************************************************************)
THEOREM ContractRefinement == RespSpec => HandlersMeetContract
<1>1. RespSpec => []RespInv
  BY RespInitInv, RespNextInv, PTL DEF RespSpec
<1>2. QED
  BY <1>1, ContractInit, ContractStep, PTL
     DEF RespSpec, HandlersMeetContract, Contract!CSpec


(***************************************************************************)
(* spec.md 8: reconciliation is idempotent.  finalize_result (311-354)     *)
(* applied to a result it has already completed changes nothing, for every *)
(* request, snapshot and attestation object: it reads only the request,   *)
(* the snapshot and the authenticator data, never its own outputs.         *)
(***************************************************************************)
THEOREM FinalizeIdempotent ==
  \A q, i, a : Finalize(q, i, Finalize(q, i, Fresh(a))) = Finalize(q, i, Fresh(a))
<1> SUFFICES ASSUME NEW q, NEW i, NEW a
             PROVE  Finalize(q, i, Finalize(q, i, Fresh(a))) = Finalize(q, i, Fresh(a))
  OBVIOUS
<1> DEFINE f1 == Finalize(q, i, Fresh(a))
<1>1. f1 = [Fresh(a) EXCEPT !.attachment = f1.attachment, !.credProps = f1.credProps,
                            !.hmacCreateSecret = f1.hmacCreateSecret]
  BY DEF Finalize, Fresh
<1>2. f1.att = a
  BY DEF Finalize, Fresh
<1>3. Finalize(q, i, f1) = [f1 EXCEPT !.attachment = f1.attachment,
                                      !.credProps = f1.credProps,
                                      !.hmacCreateSecret = f1.hmacCreateSecret]
  BY <1>2 DEF Finalize, Fresh
<1>4. QED
  BY <1>1, <1>3 DEF Fresh

=============================================================================
