CONSTANTS
  READ_BUFFER_SIZE = 12
  ET = FALSE
  RequestLines <- MCRequestLines
  ContentLengths <- MCContentLengths
  FileSize <- MCFileSize
  HeaderLen = 3
  FormLen = 1
  Requests <- MCRequests
  MaxRequests = 2
SPECIFICATION Spec
INVARIANTS TypeOK AnsweredAsSent SentExact MappingsReturned
PROPERTIES SendingEnds
CHECK_DEADLOCK FALSE
