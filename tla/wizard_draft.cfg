CONSTANTS
  a = a
  b = b
  Tabs = {a, b}
  Flavors = {"first-run", "mode"}
  Modes = {"rx-only", "advanced"}
  SetUp = {TRUE}
  Arrays = {1, 2, 3, 4}
  Objs = {1, 2}
  MaxSaves = 1
  MaxCommits = 1
  Strays = FALSE
SPECIFICATION WizardSpec
SYMMETRY TabsAlike
INVARIANTS DraftIsPrivate
