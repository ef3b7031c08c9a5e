CONSTANTS
  Threads = {t1}
  Hosts = {h1, h2, h3, h4}
  Slots = 3
  MaxTickets = 6
SPECIFICATION Spec
SYMMETRY HostSymmetry
INVARIANT TypeOK
INVARIANT ValidSlotsAreWhole
INVARIANT NewestTicketKept
