\* Every CTAP2 and virtual-device answer, for every request option and every
\* capability snapshot finalize_result can read.
CONSTANTS
  None = None
  KeyLen = 2
  MaxLen = 0
  ByteVals = {}
  CertParses <- MCCertParses
  KeyParses <- MCKeyParses
  Transports = {"ctap2", "virtual"}
  Requests <- MCRequests
  DeviceInfos <- MCDeviceInfos

INIT RespInit
NEXT RespNext

INVARIANT RespTypeOK
INVARIANT ReconciledOutputs

CHECK_DEADLOCK FALSE
