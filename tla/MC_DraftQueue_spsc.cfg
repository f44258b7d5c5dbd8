CONSTANTS
  w1 = w1
  w2 = w2
  r1 = r1
  r2 = r2
  Capacity <- Ring_Four
  Writers <- One_Writer
  Readers <- One_Reader
  Input <- Five_Handles
  Reads <- Reads_Six
  Width <- Width_Eight
SPECIFICATION Spec
INVARIANT TypeOK
PROPERTY FifoRefined
