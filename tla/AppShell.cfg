CONSTANTS
  Null = Null
  Builds = 3
  Root = Root
  Link = Link
  Icon = Icon
  Glasses = Glasses
  GlassesMiss = GlassesMiss
  Health = Health
  Room = Room
SPECIFICATION ShellSpec
INVARIANTS
  ShellTypeOK
  ScriptsAreCode
  GlassesIsNeverTheSpotter
