CONSTANTS
  Procs = {p1, p2}
SYMMETRY Symmetry
SPECIFICATION AlembicSpec
INVARIANTS
  SchemaIsVersion
  HeadMatchesModels
  FailsOnlyBesideAnother
PROPERTY
  VersionByOneRun
