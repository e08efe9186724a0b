SPECIFICATION SSpec
CONSTANTS
  Ident = {"daemon", "worker"}
  Priority = {0, 7}
  Facility = {0, 16}
  MaxNest = 2
  Size = {0, 4096}
  Seconds <- MCSeconds
  OnOff = {0, 1}
  MaxSet = 2
INVARIANTS TypeOK MaskRestored OptionsInEffect
PROPERTY RecordedAsAsked
