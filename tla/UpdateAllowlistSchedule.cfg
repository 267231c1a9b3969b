SPECIFICATION Spec
CONSTANTS
  Components = {orca, codex}
  Manifests <- MCManifests
PROPERTY
  ScheduledRunWithinManifest
