--------------------------- MODULE ResponseContract ---------------------------
(***************************************************************************)
(* What the caller receives for one exchange, as spec.md 4.5, 4.6 and 7    *)
(* describe it, stated over the class of the device's answer rather than   *)
(* its bytes: the legacy "condition not satisfied" status, and only it, is *)
(* a retry signal; any other device error is fatal (the legacy one as an   *)
(* ApduStatus error carrying the status); a modern frame too short to hold *)
(* a body is InputTooSmall; a success answer with a body yields either a   *)
(* Deserializing error or a result reconciled with the capability snapshot.*)
(* MakeCredentialsResponse is shown to implement this specification.       *)
(***************************************************************************)
EXTENDS AuthenticatorInfo

CONSTANTS
  Requests,      \* the request fields reconciliation reads
  DeviceInfos,   \* capability snapshots, or None when there is none
  StatusCodes    \* the status codes a device reports

VARIABLES
  areq,    \* the request
  ainfo,   \* the capability snapshot
  path,    \* the protocol: "ctap1" (legacy), "ctap2" (modern) or "virtual"
  answer,  \* the device's answer: its class and its status code
  out      \* what the caller receives, None before the answer is handled

cvars == <<areq, ainfo, path, answer, out>>

\* "none": the answer has no status at all (an empty modern frame);
\* "okNoBody": a modern frame holding a success status and nothing after it.
AnswerClasses == {"ok", "none", "okNoBody", "conditionsNotSatisfied", "error"}

\* spec.md 4.5: the resident-key outcome is uncertain when the newest
\* version the device supports is the older modern revision, the device
\* supports resident keys and the caller did not ask for one.
RkUncertain(r, i) ==
  /\ i # None
  /\ "FIDO_2_0" \in i.versions
  /\ "FIDO_2_1_PRE" \notin i.versions /\ "FIDO_2_1" \notin i.versions
  /\ i.rk
  /\ r.rk # TRUE

\* spec.md 4.5: the client outputs of a reconciled result.
Reconciled(r, i, o) ==
  /\ o.attachment = (IF i = None THEN "Unknown"
                     ELSE IF i.platformDevice THEN "Platform" ELSE "CrossPlatform")
  /\ o.credProps = (IF r.credProps = TRUE /\ ~RkUncertain(r, i) THEN r.rk = TRUE ELSE None)
  /\ o.hmacCreateSecret = (IF r.hmacSecret = TRUE /\ o.att.hmacSecret \in BOOLEAN
                           THEN o.att.hmacSecret ELSE None)

\* spec.md 7: InputTooSmall is the answer shorter than the minimum viable
\* frame, Deserializing the malformed one.
TooShort == {"none", "okNoBody"}

\* The outcomes the contract allows for an answer of class a on path p.
Acceptable(r, i, p, a, o) ==
  CASE a.class = "conditionsNotSatisfied" -> o = [kind |-> "Retry"]
    [] a.class = "error" ->
         /\ o.kind \notin {"Result", "Retry"}
         /\ p = "ctap1" => o = [kind |-> "ApduStatus", status |-> a.code]
    [] a.class \in TooShort -> o = [kind |-> "InputTooSmall"]
    [] OTHER ->
         \/ o.kind = "Deserializing"
         \/ o.kind = "Result" /\ Reconciled(r, i, o)

CInit ==
  /\ areq \in Requests
  /\ ainfo \in DeviceInfos
  /\ path \in {"ctap1", "ctap2", "virtual"}
  /\ answer \in [class : AnswerClasses, code : StatusCodes]
  /\ answer.class = "conditionsNotSatisfied" => path = "ctap1"
  /\ out = None

\* The answer is handled once.
Handle ==
  /\ out = None
  /\ Acceptable(areq, ainfo, path, answer, out')
  /\ UNCHANGED <<areq, ainfo, path, answer>>

CSpec == CInit /\ [][Handle]_cvars

=============================================================================
