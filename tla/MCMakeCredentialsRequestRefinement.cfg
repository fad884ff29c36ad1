\* Every request MakeCredentials::new can build, then any sequence of
\* setter and wire_format calls, read through the refinement mapping
\* into RequestEncoding.
CONSTANTS
  None = None
  TokenIds = {T1, T2}
  PinProtocols <- MCPinProtocols

INIT ReqInit
NEXT ReqNext

PROPERTY EncodeRefinesRequest
