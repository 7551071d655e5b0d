SPECIFICATION Spec
CONSTANTS
  h1 = h1
  h2 = h2
  h3 = h3
  Handler = {h1, h2, h3}
  Uploads <- SmallUploads
  MaxFaults = 2
  Absent = Absent
SYMMETRY HandlerSymmetry
INVARIANTS
  
  CopyWhole
 
CHECK_DEADLOCK FALSE
