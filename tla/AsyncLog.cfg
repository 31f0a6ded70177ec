CONSTANTS
  Writers = {w1, w2}
  Flusher = Flusher
  Readers <- MCReaders
  Items <- Lines
  NoItem = NoItem
  m_max_size = 2
  MaxLines = 2
  m_split_lines = 2
  Days = 2
SPECIFICATION Spec
INVARIANTS TypeOK LinesKept FilesRight
PROPERTIES ImplementsFifo QueueDrains
CHECK_DEADLOCK FALSE
