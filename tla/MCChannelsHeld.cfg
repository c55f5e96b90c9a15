SPECIFICATION Spec
CONSTANTS
  s1 = s1  s2 = s2  t1 = t1
  p1 = p1  p2 = p2
  None = None
  SDCCH = {s1, s2}  TCH = {t1}
  Phone = {p1, p2}
  LUR = {p2}
  SDCCHReserve = 1
  PromptSetup = FALSE
  PromptPhone = TRUE
  CertainRelease = TRUE
SYMMETRY MCSymmetry
INVARIANTS OneHolder
