SPECIFICATION Spec
CONSTANTS
  Segment = 8
  RecordBytes = 4
  Starts = {0, 4, 8}
  MaxLen = 18
  BigWords = 4
  SmallWords = 2
  FirstSmall = 2
  NumBlks = 4
  BufferWords = 2
  MaxFlashings = 2
  IntRange = 64
  Sizes = {0, 1, 2, 3, 4, 5, 6, 7, 8, 9, 10, 11, 12, 13, 14, 15, 16, 17, 18, 19, 20, 21, 22,
           23, 24, 25, 26, 31, 32, 45, 63, 64, 66, 71, 90}
  NumMarks = 8
INVARIANTS ImageLoaded FileBurned OthersKept RefusedRight MarksArrive
CHECK_DEADLOCK FALSE
