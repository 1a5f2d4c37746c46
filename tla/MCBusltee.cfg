SPECIFICATION BuslteeFairSpec
CONSTANTS
  Retry = 2
  Token <- Tokens
  MaxTokens = 4
  MaxOutput = 4
  MaxSignals = 2
INVARIANTS
  BuslteeTypeOK
  UploadComplete
  NoDuplicates
PROPERTIES
  LineObeyed
  CommandProceeds
  EndsWithCommand
CHECK_DEADLOCK FALSE
