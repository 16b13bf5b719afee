CONSTANTS
  Null = Null
  None = None
  Typo = Typo
  r1 = r1
  r2 = r2
  p1 = p1
  n1 = n1
  Built = Built
  Rooms = {r1, r2}
  Pins = {p1}
  Names = {n1}
  Forms <- MCForms
  Launches <- MCLaunches
  MaxSaves = 3
SPECIFICATION GlassesSpec
INVARIANTS
  GlassesTypeOK
  LastSaveWins
  SavedSettingsSurvive
