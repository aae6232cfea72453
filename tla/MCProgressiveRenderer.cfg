CONSTANTS
  a = a
  b = b
  c = c
  Nothing = Nothing
  Images <- MCImages
  Streams <- MCStreams
  StreamInfo <- MCStreamInfo
  FirstStream <- MCFirstStream
  Pages <- MCPages
  Devices = {1, 3}
  Limit = 4
  MaxEntries = 1
  StepLimit = 2
  BlendSteps = 1
  EditWhileLoading = FALSE
  MaxRenders = 3
  MaxEdits = 1
SPECIFICATION Spec
CHECK_DEADLOCK FALSE
INVARIANTS TypeOK LoadGoesOn SizeIsEnough PaintedInOrder
PROPERTIES Implements LimitKept OldestGoFirst EventuallyDone
