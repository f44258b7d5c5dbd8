CONSTANTS
  w1 = w1
  w2 = w2
  r1 = r1
  r2 = r2
  Capacity <- Ring_Four
  Writers <- Two_Writers
  Readers <- One_Reader
  Input <- Three_Handles
  Reads <- Reads_Three
  Width <- Width_Eight
SPECIFICATION Spec
PROPERTY FifoRefined
