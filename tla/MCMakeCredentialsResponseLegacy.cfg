\* Every CTAP1 register response of up to six bytes over the byte values
\* that matter to the layout (marker 0x05, key prefix 0x04, certificate tag
\* 0x30, id lengths 0 and 1), with a two-byte public key.
CONSTANTS
  None = None
  KeyLen = 2
  MaxLen = 6
  ByteVals = {0, 1, 4, 5, 48}
  CertParses <- MCCertParses
  KeyParses <- MCKeyParses
  Transports = {"ctap1"}
  Requests <- MCLegacyRequests
  DeviceInfos = {None}

INIT RespInit
NEXT RespNext

INVARIANT LegacyLayoutParsed
INVARIANT LegacyMarkerNamed

CHECK_DEADLOCK FALSE
