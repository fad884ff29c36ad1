\* All response maps of up to four entries over integer keys 1-4 and the
\* three known format strings: long enough for a key to repeat after a
\* complete attestation object, or for an unknown key to sit among the
\* three known ones.
CONSTANTS
  MaxEntries = 4
  IntKeys <- MCIntKeys
  TextStrings = {"none", "packed", "fido-u2f"}
  NonIntKeys = {}
  ValidAuthData = {AuthData1}
  MalformedBytes = MalformedBytes
  EmptyMap = EmptyMap
  PackedMap = PackedMap
  U2fMap = U2fMap
  None = None

INIT DecInit
NEXT DecNext

PROPERTY DecodeRefinesFormat

CHECK_DEADLOCK FALSE
