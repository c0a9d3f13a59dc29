SPECIFICATION Spec
CONSTANTS
  NULL = NULL
  VIRTQUEUE_MAX_SIZE = 99
  Num = 2
  IdxMod = 4
  Buf = {b1, b2}
  Shapes <- MCShapes
  Length <- MCLength
INVARIANT RingSound
PROPERTIES BuffersReturn QueueSpec
CHECK_DEADLOCK TRUE
