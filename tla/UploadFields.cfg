SPECIFICATION UploadSpec
CONSTANTS
  Parts <- MCParts
  Limits <- MCLimits
  Unlimited = 99
  Wanted <- MCWanted
  MaxParts = 2
INVARIANT FieldsLimited
CHECK_DEADLOCK FALSE
