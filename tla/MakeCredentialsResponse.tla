----------------------- MODULE MakeCredentialsResponse -----------------------
(***************************************************************************)
(* What the command does with the device's answer: the CTAP2 response      *)
(* framing (handle_response_ctap2, make_credentials.rs 522-552), the CTAP1 *)
(* status classification (handle_response_ctap1, 481-499), the legacy     *)
(* register-response parser (MakeCredentialsResult::from_ctap1, 44-112),   *)
(* the virtual-device path (send_to_virtual_device, 501-509 and 554-561)   *)
(* and the reconciliation every successful path ends with                  *)
(* (finalize_result, 311-354).  One exchange: the response is chosen in    *)
(* Init and one handler turns it into the outcome the caller receives.     *)
(* The CBOR body of a CTAP2 answer is abstracted to whether it decodes     *)
(* (MakeCredentialsDecoder models that decode); a CTAP1 answer is a byte   *)
(* sequence, parsed byte by byte.                                          *)
(***************************************************************************)
EXTENDS Integers, Sequences, AuthenticatorInfo

CONSTANTS
  KeyLen,          \* bytes of the uncompressed public key (65 in the code)
  MaxLen,          \* longest CTAP1 register response considered
  ByteVals,        \* the byte values CTAP1 responses are built from
  CertParses(_),   \* parse_u2f_der_certificate accepts these bytes
  KeyParses(_),    \* COSEEC2Key::from_sec1_uncompressed accepts this key
  Transports,      \* the paths exercised: "ctap1", "ctap2", "virtual"
  Requests,        \* the request fields finalize_result reads
  DeviceInfos      \* capability snapshots, or None when the device has none

ASSUME ResponseAssumption ==
  /\ KeyLen \in Nat /\ MaxLen \in Nat
  /\ ByteVals \subseteq 0..255
  /\ Transports \subseteq {"ctap1", "ctap2", "virtual"}
  /\ None \notin BOOLEAN
  /\ Requests \subseteq [rk : OptBool, credProps : OptBool, hmacSecret : OptBool]
  /\ DeviceInfos \subseteq Infos \cup {None} /\ None \notin Infos

\* AuthenticatorAttachment.
Attachments == {"Platform", "CrossPlatform", "Unknown"}

\* HmacSecretResponse in the authenticator data's extensions: absent
\* (None), or Confirmed(flag).
HmacFlags == {None, TRUE, FALSE}

\* A decoded CTAP2 attestation object, abstracted to what finalize reads.
Ctap2AttObjs == [fmt : {"packed"}, hmacSecret : HmacFlags]

\* A fresh MakeCredentialsResult: attachment Unknown, default extensions.
Fresh(att) ==
  [kind |-> "Result", att |-> att, attachment |-> "Unknown",
   credProps |-> None, hmacCreateSecret |-> None]

\* The CTAP2 answers: length 0, 1 (status byte only) or more; status byte
\* ok or an error code; a body that decodes as a MakeCredentialsResult
\* (with the hmac flag it carries), as some other CBOR value, or not at all.
Ctap2Bodies ==
  {[kind |-> "attObj", att |-> a] : a \in Ctap2AttObjs}
    \cup {[kind |-> "value"], [kind |-> "garbage"]}
Ctap2Responses ==
  [len : {0, 1}, status : {"ok", "err"}, body : {[kind |-> "garbage"]}]
    \cup [len : {2}, status : {"ok", "err"}, body : Ctap2Bodies]

\* The CTAP1 answers: the APDU status and the response data.
ApduStatuses == {"ok", "ConditionsNotSatisfied", "WrongData"}

-----------------------------------------------------------------------------
(* from_ctap1: the fixed legacy layout read front to back; every read that *)
(* runs past the end returns a Deserializing error.                        *)

Deserializing(what) == [kind |-> "Deserializing", what |-> what]

\* Mutant: the credential id taken from one byte early (it includes its
\* own length byte).
LegacyParseIdOffByOne(inp) ==
  LET keyEnd == 1 + KeyLen
      n == inp[keyEnd + 1]
      idEnd == keyEnd + 1 + n
      key == SubSeq(inp, 2, keyEnd)
      rest == SubSeq(inp, idEnd + 1, Len(inp))
  IN  IF Len(inp) = 0 THEN Deserializing("magic")
      ELSE IF inp[1] # 5 THEN [kind |-> "Deserializing", what |-> "magic", got |-> inp[1]]
      ELSE IF Len(inp) < keyEnd THEN Deserializing("PublicKey")
      ELSE IF Len(inp) = keyEnd THEN Deserializing("credentialIdLen")
      ELSE IF Len(inp) < idEnd THEN Deserializing("CredentialId")
      ELSE IF ~CertParses(rest) THEN Deserializing("Certificate and Signature")
      ELSE IF ~KeyParses(key) THEN Deserializing("EC2 Key")
      ELSE Fresh([fmt |-> "fido-u2f", hmacSecret |-> None,
                  key |-> key, credId |-> SubSeq(inp, keyEnd + 1, idEnd),
                  certSig |-> rest, flags |-> {"UP", "AT"}, counter |-> 0,
                  raw |-> inp])

\* Mutant: the public key read before the marker byte is checked.
LegacyParseKeyFirst(inp) ==
  LET keyEnd == 1 + KeyLen
      n == inp[keyEnd + 1]
      idEnd == keyEnd + 1 + n
      key == SubSeq(inp, 2, keyEnd)
      rest == SubSeq(inp, idEnd + 1, Len(inp))
  IN  IF Len(inp) = 0 THEN Deserializing("magic")
      ELSE IF Len(inp) < keyEnd THEN Deserializing("PublicKey")
      ELSE IF inp[1] # 5 THEN [kind |-> "Deserializing", what |-> "magic", got |-> inp[1]]
      ELSE IF Len(inp) = keyEnd THEN Deserializing("credentialIdLen")
      ELSE IF Len(inp) < idEnd THEN Deserializing("CredentialId")
      ELSE IF ~CertParses(rest) THEN Deserializing("Certificate and Signature")
      ELSE IF ~KeyParses(key) THEN Deserializing("EC2 Key")
      ELSE Fresh([fmt |-> "fido-u2f", hmacSecret |-> None,
                  key |-> key, credId |-> SubSeq(inp, keyEnd + 2, idEnd),
                  certSig |-> rest, flags |-> {"UP", "AT"}, counter |-> 0,
                  raw |-> inp])

LegacyParse(inp) ==
  LET keyEnd == 1 + KeyLen
      n == inp[keyEnd + 1]
      idEnd == keyEnd + 1 + n
      key == SubSeq(inp, 2, keyEnd)
      rest == SubSeq(inp, idEnd + 1, Len(inp))
  IN  IF Len(inp) = 0 THEN Deserializing("magic")
      ELSE IF inp[1] # 5 THEN [kind |-> "Deserializing", what |-> "magic", got |-> inp[1]]
      ELSE IF Len(inp) < keyEnd THEN Deserializing("PublicKey")
      ELSE IF Len(inp) = keyEnd THEN Deserializing("credentialIdLen")
      ELSE IF Len(inp) < idEnd THEN Deserializing("CredentialId")
      ELSE IF ~CertParses(rest) THEN Deserializing("Certificate and Signature")
      ELSE IF ~KeyParses(key) THEN Deserializing("EC2 Key")
      ELSE Fresh([fmt |-> "fido-u2f", hmacSecret |-> None,
                  key |-> key, credId |-> SubSeq(inp, keyEnd + 2, idEnd),
                  certSig |-> rest, flags |-> {"UP", "AT"}, counter |-> 0,
                  raw |-> inp])

-----------------------------------------------------------------------------
(* finalize_result: attachment from the snapshot, then the credProps and   *)
(* hmac-secret outputs that are not on the wire.                           *)
\* Mutant: rk_uncertain without the `dev_supports_rk` conjunct.
FinalizeNoRkSupportCheck(rq, info, r) ==
  LET requestedRk == rq.rk = TRUE
      maxVersion == IF info = None THEN "U2F_V2" ELSE MaxSupportedVersion(info)
      rkUncertain == maxVersion = "FIDO_2_0" /\ ~requestedRk
  IN  [r EXCEPT
         !.attachment = IF info = None THEN "Unknown"
                        ELSE IF info.platformDevice THEN "Platform"
                        ELSE "CrossPlatform",
         !.credProps = IF rq.credProps = TRUE /\ ~rkUncertain THEN requestedRk ELSE @,
         !.hmacCreateSecret = IF rq.hmacSecret = TRUE /\ r.att.hmacSecret \in BOOLEAN
                              THEN r.att.hmacSecret ELSE @]

Finalize(rq, info, r) ==
  LET devSupportsRk == info # None /\ info.rk
      requestedRk == rq.rk = TRUE
      maxVersion == IF info = None THEN "U2F_V2" ELSE MaxSupportedVersion(info)
      rkUncertain == maxVersion = "FIDO_2_0" /\ devSupportsRk /\ ~requestedRk
  IN  [r EXCEPT
         !.attachment = IF info = None THEN "Unknown"
                        ELSE IF info.platformDevice THEN "Platform"
                        ELSE "CrossPlatform",
         !.credProps = IF rq.credProps = TRUE /\ ~rkUncertain THEN requestedRk ELSE @,
         !.hmacCreateSecret = IF rq.hmacSecret = TRUE /\ r.att.hmacSecret \in BOOLEAN
                              THEN r.att.hmacSecret ELSE @]

-----------------------------------------------------------------------------
VARIABLES
  rq,         \* the request (the fields finalize_result reads)
  info,       \* dev.get_authenticator_info()
  transport,  \* which handler the answer goes to
  response,   \* the device's answer
  outcome     \* what the handler returns, None before it ran

respVars == <<rq, info, transport, response, outcome>>

RespInit ==
  /\ rq \in Requests
  /\ info \in DeviceInfos
  /\ transport \in Transports
  /\ \/ transport = "ctap2" /\ response \in Ctap2Responses
     \/ transport = "ctap1" /\ response \in [apdu : ApduStatuses, data : {<<>>}]
     \/ transport = "ctap1"
        /\ \E n \in 0..MaxLen : \E d \in [1..n -> ByteVals] :
             response = [apdu |-> "ok", data |-> d]
     \/ transport = "virtual" /\ response \in Ctap2Bodies \ {[kind |-> "value"]}
  /\ outcome = None

\* Mutant: an undecodable diagnostic handed back as it came.
HandleCtap2RawBody ==
  /\ transport = "ctap2" /\ outcome = None
  /\ outcome' =
       IF response.len = 0 THEN [kind |-> "InputTooSmall"]
       ELSE IF response.len = 1 THEN
         IF response.status = "ok" THEN [kind |-> "InputTooSmall"]
         ELSE [kind |-> "StatusCode", status |-> response.status, data |-> None]
       ELSE IF response.status = "ok" THEN
         IF response.body.kind = "attObj"
           THEN Finalize(rq, info, Fresh(response.body.att))
           ELSE Deserializing("MakeCredentialsResult")
       ELSE IF response.body.kind = "garbage" THEN response.body
       ELSE [kind |-> "StatusCode", status |-> response.status, data |-> response.body]
  /\ UNCHANGED <<rq, info, transport, response>>

\* handle_response_ctap2: the early returns on a short answer, then the
\* body decoded as a result (ok status) or as a diagnostic value.
HandleCtap2 ==
  /\ transport = "ctap2" /\ outcome = None
  /\ outcome' =
       IF response.len = 0 THEN [kind |-> "InputTooSmall"]
       ELSE IF response.len = 1 THEN
         IF response.status = "ok" THEN [kind |-> "InputTooSmall"]
         ELSE [kind |-> "StatusCode", status |-> response.status, data |-> None]
       ELSE IF response.status = "ok" THEN
         IF response.body.kind = "attObj"
           THEN Finalize(rq, info, Fresh(response.body.att))
           ELSE Deserializing("MakeCredentialsResult")
       ELSE IF response.body.kind = "garbage" THEN Deserializing("Value")
       ELSE [kind |-> "StatusCode", status |-> response.status, data |-> response.body]
  /\ UNCHANGED <<rq, info, transport, response>>

\* Mutant: the generic error check made before the retry check.
HandleCtap1ErrorFirst ==
  /\ transport = "ctap1" /\ outcome = None
  /\ outcome' =
       IF response.apdu # "ok" THEN [kind |-> "ApduStatus", status |-> response.apdu]
       ELSE IF response.apdu = "ConditionsNotSatisfied" THEN [kind |-> "Retry"]
       ELSE IF LegacyParse(response.data).kind = "Result"
         THEN Finalize(rq, info, LegacyParse(response.data))
         ELSE LegacyParse(response.data)
  /\ UNCHANGED <<rq, info, transport, response>>

\* handle_response_ctap1: ConditionsNotSatisfied asks the caller to retry,
\* any other APDU error is fatal, and an ok answer is parsed and finalized.
HandleCtap1 ==
  /\ transport = "ctap1" /\ outcome = None
  /\ outcome' =
       IF response.apdu = "ConditionsNotSatisfied" THEN [kind |-> "Retry"]
       ELSE IF response.apdu # "ok" THEN [kind |-> "ApduStatus", status |-> response.apdu]
       ELSE IF LegacyParse(response.data).kind = "Result"
         THEN Finalize(rq, info, LegacyParse(response.data))
         ELSE LegacyParse(response.data)
  /\ UNCHANGED <<rq, info, transport, response>>

\* send_to_virtual_device: the virtual device's error is passed on, its
\* result finalized.
HandleVirtual ==
  /\ transport = "virtual" /\ outcome = None
  /\ outcome' = IF response.kind = "garbage" THEN [kind |-> "VirtualDevice"]
                ELSE Finalize(rq, info, Fresh(response.att))
  /\ UNCHANGED <<rq, info, transport, response>>

RespNext == HandleCtap2 \/ HandleCtap1 \/ HandleVirtual

RespSpec == RespInit /\ [][RespNext]_respVars

-----------------------------------------------------------------------------
\* Whether the outcome is a reconciled result.
IsResult == outcome # None /\ outcome.kind = "Result"

RespTypeOK ==
  /\ rq \in Requests
  /\ info \in DeviceInfos
  /\ transport \in Transports
  /\ outcome = None
     \/ outcome.kind \in {"Result", "InputTooSmall", "StatusCode", "Deserializing",
                          "Retry", "ApduStatus", "VirtualDevice"}
  /\ IsResult => /\ outcome.attachment \in Attachments
                 /\ outcome.credProps \in BOOLEAN \cup {None}
                 /\ outcome.hmacCreateSecret \in BOOLEAN \cup {None}

(***************************************************************************)
(* spec.md 4.5: every successful path hands back a result whose client    *)
(* outputs follow the reconciliation table: attachment Platform,           *)
(* CrossPlatform or Unknown from the snapshot; credProps present exactly   *)
(* when the caller asked for it and the resident-key outcome is not        *)
(* uncertain (newest version FIDO_2_0, device supports rk, rk not          *)
(* requested), and then equal to the requested rk; hmac-secret present     *)
(* exactly when asked for and confirmed by the authenticator data.  Covers *)
(* the three handlers that call finalize_result and the conditions of     *)
(* lines 328-353.                                                          *)
(***************************************************************************)
SpecRkUncertain(r, i) ==
  /\ i # None
  /\ "FIDO_2_0" \in i.versions
  /\ \A v \in {"FIDO_2_1_PRE", "FIDO_2_1"} : v \notin i.versions
  /\ i.rk
  /\ r.rk # TRUE

ReconciledOutputs ==
  IsResult =>
    /\ outcome.attachment = (IF info = None THEN "Unknown"
                             ELSE IF info.platformDevice THEN "Platform"
                             ELSE "CrossPlatform")
    /\ outcome.credProps = (IF rq.credProps = TRUE /\ ~SpecRkUncertain(rq, info)
                            THEN rq.rk = TRUE ELSE None)
    /\ outcome.hmacCreateSecret = (IF rq.hmacSecret = TRUE /\ outcome.att.hmacSecret \in BOOLEAN
                                   THEN outcome.att.hmacSecret ELSE None)

(***************************************************************************)
(* spec.md 4.3: a legacy register response is accepted exactly when it    *)
(* has the layout marker 0x05 || public key (KeyLen bytes) || id length n  *)
(* || credential id (n bytes) || certificate and signature, with a key and *)
(* a certificate the collaborators accept; the result then carries those  *)
(* parts, the fixed flags UP|AT, counter 0 and the whole input as raw      *)
(* data.  The cursor arithmetic of from_ctap1 (lines 45-68) must cut the   *)
(* input at exactly these places.                                          *)
(***************************************************************************)
LegacySplit(d, il) ==
  [key |-> SubSeq(d, 2, 1 + KeyLen),
   credId |-> SubSeq(d, 3 + KeyLen, 2 + KeyLen + il),
   certSig |-> SubSeq(d, 3 + KeyLen + il, Len(d))]

IsLegacyLayout(d, p) ==
  /\ d = <<5>> \o p.key \o <<Len(p.credId)>> \o p.credId \o p.certSig
  /\ Len(p.key) = KeyLen
  /\ KeyParses(p.key) /\ CertParses(p.certSig)

LegacyLayoutParsed ==
  transport = "ctap1" /\ response.apdu = "ok" /\ outcome # None =>
    \/ /\ IsResult
       /\ IsLegacyLayout(response.data, [key |-> outcome.att.key,
                                         credId |-> outcome.att.credId,
                                         certSig |-> outcome.att.certSig])
       /\ outcome.att.flags = {"UP", "AT"} /\ outcome.att.counter = 0
       /\ outcome.att.raw = response.data
    \/ /\ ~IsResult
       /\ ~\E il \in 0..Len(response.data) :
             /\ 2 + KeyLen + il <= Len(response.data)
             /\ IsLegacyLayout(response.data, LegacySplit(response.data, il))

(***************************************************************************)
(* spec.md 8: a legacy response whose first byte is not the marker 0x05    *)
(* always fails with a decode error naming the received byte, whatever its *)
(* length (lines 46-53 run before any other read).                         *)
(***************************************************************************)
LegacyMarkerNamed ==
  /\ transport = "ctap1" /\ response.apdu = "ok" /\ outcome # None
  /\ Len(response.data) > 0 /\ response.data[1] # 5
  => outcome = [kind |-> "Deserializing", what |-> "magic", got |-> response.data[1]]

(***************************************************************************)
(* spec.md 4.6 and 7: a non-success CTAP2 status is a fatal StatusCode     *)
(* error carrying the device's status, with the decoded diagnostic when    *)
(* there is one.  handle_response_ctap2 decodes the diagnostic with `?`    *)
(* (line 545) before it builds that error.                                 *)
(***************************************************************************)
StatusCodeSurfaces ==
  /\ transport = "ctap2" /\ outcome # None
  /\ response.len > 0 /\ response.status # "ok"
  => outcome.kind = "StatusCode" /\ outcome.status = response.status


-----------------------------------------------------------------------------
(* Refinement: the handlers implement ResponseContract.  The answer is     *)
(* read as its class (the APDU status of a CTAP1 answer, the status byte   *)
(* of a CTAP2 one, none when the CTAP2 frame is empty, okNoBody when it    *)
(* holds a success status alone, error when the virtual device failed) and *)
(* the status it carries.                                                  *)

AnswerClass ==
  CASE transport = "ctap1" ->
         [class |-> IF response.apdu = "ok" THEN "ok"
                    ELSE IF response.apdu = "ConditionsNotSatisfied"
                      THEN "conditionsNotSatisfied" ELSE "error",
          code |-> response.apdu]
    [] transport = "ctap2" ->
         [class |-> IF response.len = 0 THEN "none"
                    ELSE IF response.status # "ok" THEN "error"
                    ELSE IF response.len = 1 THEN "okNoBody" ELSE "ok",
          code |-> response.status]
    [] OTHER ->
         [class |-> IF response.kind = "garbage" THEN "error" ELSE "ok",
          code |-> IF response.kind = "garbage" THEN "err" ELSE "ok"]

Contract == INSTANCE ResponseContract
              WITH areq <- rq, ainfo <- info, path <- transport,
                   answer <- AnswerClass, out <- outcome,
                   StatusCodes <- ApduStatuses \cup {"ok", "err"}

(***************************************************************************)
(* Every exchange ends as spec.md 4.5, 4.6 and 7 promise: the legacy       *)
(* ConditionsNotSatisfied status, and no other answer, becomes a retry     *)
(* signal (handle_response_ctap1, lines 488-490); every other device error *)
(* is fatal, a legacy one as ApduStatus (491-493); a modern frame with no  *)
(* body is InputTooSmall, never handed to the decoder (527-535); a success *)
(* answer with a body gives Deserializing or a result reconciled by        *)
(* finalize_result, on each of the three handlers.                         *)
(***************************************************************************)
HandlersMeetContract == Contract!CSpec

=============================================================================
