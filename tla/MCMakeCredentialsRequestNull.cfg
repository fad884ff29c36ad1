\* spec.md 3 and 6 against Serialize: is any entry of the map null?
CONSTANTS
  None = None
  TokenIds = {T1}
  PinProtocols <- MCPinProtocols

INIT ReqInit
NEXT ReqNext

INVARIANT NoNullEntries
