\* Every CTAP2 and virtual-device answer, against the promise of spec.md
\* that a device error status reaches the caller as a StatusCode error.
CONSTANTS
  None = None
  KeyLen = 2
  MaxLen = 0
  ByteVals = {}
  CertParses <- MCCertParses
  KeyParses <- MCKeyParses
  Transports = {"ctap2", "virtual"}
  Requests <- MCRequests
  DeviceInfos <- MCDeviceInfos

INIT RespInit
NEXT RespNext

INVARIANT StatusCodeSurfaces

CHECK_DEADLOCK FALSE
