SPECIFICATION MCSpec
CONSTANTS
  Streams <- MCStreams
  FrameMax = 320
  ChunkSizes = {1, 6}
  LongStream = 90
  LongChunks = {100}
  Behind <- MCBehind
  EncodedPayload <- EncodeContent
  DecodedPayload <- DecodeContent
  CopiedTable <- CloneTable
  Copyable <- Keyed
  Key <- MCKeys
  Value = {"v", "w"}
  Hash <- MCHash
  Primes <- MCPrimes
  ArraySize = 2
  Nothing = "nothing"
  MaxHeld = 2
  MaxItems = 4
CHECK_DEADLOCK FALSE
INVARIANTS FramesIntact MalformedRefused RequestsComplete PublishedWhole ServerPropertiesKept
INVARIANT DumpReadsBack
PROPERTY ImplementsContainer
