SPECIFICATION RegistrationSpec
CONSTANTS
  Exts = {e1}
  MaxForeign = 1
PROPERTY PerceivedTypeKept
