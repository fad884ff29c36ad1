\* Every request MakeCredentials::new can build, then any sequence of
\* set_pin_uv_auth_param, set_uv_option and wire_format calls.
CONSTANTS
  None = None
  TokenIds = {T1, T2}
  PinProtocols <- MCPinProtocols

INIT ReqInit
NEXT ReqNext

INVARIANT ReqTypeOK
INVARIANT DeclaredLengthMatches
INVARIANT CanonicalKeyOrder
INVARIANT NoEmptyOptionalGroups
INVARIANT CanSkipMatchesSpec
