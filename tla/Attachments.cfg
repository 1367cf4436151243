CONSTANTS
  a1 = a1
  a2 = a2
  a3 = a3
  w1 = w1
  w2 = w2
  Attachment = {a1, a2, a3}
  Cleaner = {w1, w2}
  MaxObjects = 2
  MaxFaults = 2
SPECIFICATION AttachmentSpec
INVARIANTS AttachmentTypeOK ReadyStored RowsAgree
PROPERTIES EventuallyReclaimed
CHECK_DEADLOCK FALSE
