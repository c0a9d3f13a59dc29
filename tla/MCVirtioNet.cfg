CONSTANTS
  NULL = NULL
  IdxMod = 4
  VIRTQUEUE_MAX_SIZE = 32768
  RxNum = 4
  TxNum = 4
  Buf = {1, 2}
  sizeof_hdr = 2
  VTNET_RX_HEADER_PAD = 1
  VIRTIO_HDR_LEN = 3
  UK_ETH_HDR_UNTAGGED_LEN = 1
  VIRTIO_PKT_BUFFER_LEN = 6
  UKNETDEV_BUFLEN = 10
  RX_FILLUP_BATCHLEN = 1
  RxLen = {4, 7}
  TxLen = {2, 5}
  Splits = {0, 1}
  Csum = {NULL, 1}
  Wired = {TRUE, FALSE}
SPECIFICATION Spec
INVARIANTS OneOwner FrameExact
PROPERTY CallsProgress
CHECK_DEADLOCK FALSE
