SPECIFICATION Spec
CONSTANTS
  MaxFiles = 2
  Names <- MCSlashNames
  Top = "disk"
INVARIANT SlashesAllowed
CHECK_DEADLOCK FALSE
