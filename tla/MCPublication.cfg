SPECIFICATION Spec
CONSTANTS
  Builtins = {"Some"}
  Sources <- MCSources
  Program <- MCProgram
  Shells = {"s1", "unsafe"}
  InitialShell = "s1"
  Escapes = {"unsafe"}
  Requests <- MCRequests
  Builders = {b1, b2}
  MaxEdits = 1
  MaxUpgrades = 1
  MaxDamage = 1
  None = None
  Kernels = {"k1", "k2", "low", "drift"}
  Decls <- MCDecls
  Checked <- MCChecked
  Registry <- MCRegistry
  Exports = {"policy"}
  Trees = {"t1", "t2", "dud"}
  Boots <- MCBoots
  MaxKernelEdits = 3
  MaxImageBuilds = 2
SYMMETRY Interchangeable
INVARIANTS PublishedIsProved AcceptedIsWhole
PROPERTY PublishedStays
CHECK_DEADLOCK FALSE
