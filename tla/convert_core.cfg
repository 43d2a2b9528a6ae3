CONSTANTS
  Account <- MCAccount
  Versions = {51, 52}
  Pdus <- MCPdus
  Chunk <- MCChunk
  Size <- MCSize
  Numeric = {"12", "123456", "20digits"}
  DcsCoding <- MCDcsCoding
  Masks = {"NOTHING", "SUCCESS", "FAIL", "BUFFERED", "SMSC_SUCCESS", "SMSC_FAIL"}
  Texts <- MCReports
  Foreign <- MCForeign
  Now = 100000
  Clock <- MCClock
  Zone = 7200
  PartSize = 2
SPECIFICATION Spec
INVARIANTS
  AddressesComeBack
  
  
  
  ReplyKept
  ValidityKept
