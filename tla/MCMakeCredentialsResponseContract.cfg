\* Every answer on each of the three paths: CTAP1 register responses of up
\* to four bytes with a one-byte public key (long enough for a well-formed
\* one: marker, key, id length 0, certificate), every CTAP2 and virtual
\* answer, every request option and every capability snapshot.
CONSTANTS
  None = None
  KeyLen = 1
  MaxLen = 4
  ByteVals = {0, 4, 5, 48}
  CertParses <- MCCertParses
  KeyParses <- MCKeyParses
  Transports = {"ctap1", "ctap2", "virtual"}
  Requests <- MCRequests
  DeviceInfos <- MCDeviceInfos

INIT RespInit
NEXT RespNext

PROPERTY HandlersMeetContract

CHECK_DEADLOCK FALSE
