\* Complete and incomplete files, networks of up to three layers, both targets,
\* and any CUDA call failing.
CONSTANTS
  Files <- MCFiles
  Networks <- MCNetworks
  Magic = 16855
  Junk = Junk
SPECIFICATION Spec
INVARIANT LoadsContents
INVARIANT RefusesOnlyUnknown
INVARIANT WeightsInPlace
INVARIANT CopiesFill
INVARIANT ReleasesAll
