SPECIFICATION Spec
CONSTANTS
  open = open
  stat = stat
INVARIANTS TypeOK NoLostCall CallerAwaited 
