SPECIFICATION Spec
CONSTANTS
  Settings <- MCSettings
  Forms <- MCForms
  MaxSubmits = 2
INVARIANTS TypeOK ErrorsShown SentIsAccepted SavedReopens InstallerIntact
PROPERTIES LeavesAsked ResetConsent CancelMeansCancel UploadsSettle
CHECK_DEADLOCK FALSE
