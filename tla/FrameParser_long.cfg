CONSTANTS
  BufSize = 10
  Streams <- MCLongStreams
SPECIFICATION ParserSpec
INVARIANTS WholeFrames
