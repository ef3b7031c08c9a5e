CONSTANTS
  Threads = {t1, t2}
  Hosts = {h1}
  Slots = 1
  MaxTickets = 2
SPECIFICATION Spec
INVARIANT ValidSlotsAreWhole
