\* A TUI and a CLI process, from everything that can go wrong to nothing.
SPECIFICATION Spec
SYMMETRY Symmetry
CONSTRAINT FewReferences
CONSTANTS
  h1 = h1  h2 = h2  u1 = u1  u2 = u2  u3 = u3
  NoHyper = NoHyper  Plain = Plain
  Tuis = {"tui"}
  Clis = {"cli"}
  Hypers = {h1, h2}
  Uuids = {u1, u2, u3}
  UseKeyring = TRUE
  FaultSets = {{"keyring", "crash", "torn", "race"}, {"crash", "torn", "race"}, {"crash"}, {}}
INVARIANTS
  NeverAnothersSecret
  AddedIsStored
  TakenSecretStaysOffDisk
  NoStraySecret
CHECK_DEADLOCK FALSE
