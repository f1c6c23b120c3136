CONSTANTS
  BufSize = 10
  Streams <- MCStreams
SPECIFICATION ParserSpec
INVARIANTS ParserTypeOK PortionsDontMatter OneErrorOneFrame
PROPERTIES EverythingParsed
