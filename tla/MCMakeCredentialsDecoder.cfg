\* All response maps of up to three entries.
CONSTANTS
  MaxEntries = 3
  IntKeys <- MCIntKeys
  TextStrings <- MCTextStrings
  NonIntKeys = {TextKey}
  ValidAuthData = {AuthData1}
  MalformedBytes = MalformedBytes
  EmptyMap = EmptyMap
  PackedMap = PackedMap
  U2fMap = U2fMap
  None = None

INIT DecInit
NEXT DecNext

INVARIANT DecTypeOK
PROPERTY DecodeRefinesFormat

CHECK_DEADLOCK FALSE
