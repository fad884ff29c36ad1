\* Response maps of up to four entries, against the promise of spec.md
\* that keys other than 1-3 are ignored.
CONSTANTS
  MaxEntries = 4
  IntKeys <- MCIntKeys
  TextStrings = {"none", "packed", "fido-u2f"}
  NonIntKeys = {}
  ValidAuthData = {AuthData1}
  MalformedBytes = MalformedBytes
  EmptyMap = EmptyMap
  PackedMap = PackedMap
  U2fMap = U2fMap
  None = None

INIT DecInit
NEXT DecNext

INVARIANT UnknownKeysIgnored

CHECK_DEADLOCK FALSE
