CONSTANTS
  Issues = {1, 2}
  Projects = {1, 2}
  DEV = DEV
  DEV2 = DEV2
  DEV22 = DEV22
  development = development
  Names = {development}
  Keys = {DEV, DEV2, DEV22}
  DeriveKey <- MCDeriveKey
  Variants <- MCVariants
  Limits = {0, 2}
  MaxComments = 5
  MaxNotes = 2
  None = None
SPECIFICATION MCSpec
INVARIANTS
  IdentifiersUnique
  MigrationChain
  MovesAreNoted
  ListingComplete
PROPERTY ChangesAreRecorded
CHECK_DEADLOCK FALSE
