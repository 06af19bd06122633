SPECIFICATION Spec
CONSTANTS
  PrintScreen = PrintScreen
  printscreen = printscreen
  dotted = dotted
  fps = fps
  Names = {PrintScreen, printscreen, dotted}
  Fold <- MCFold
  Keys = {fps}
  LegacyFiles <- MCLegacyFiles
INVARIANTS SavedWhatWasSet SomeCopySurvives MigrationKeepsNewest
PROPERTY FileNeverTorn
