SPECIFICATION PartsSpec
CONSTANTS
  Slot <- MCSlot
  Devices = 2
  Window = 5
  Populated <- MCPopulated
  Addresses <- MCAddresses
  PhaSet = TRUE
  Offers <- MCOffers
  Sizes <- MCSizes
  NULL = NULL
  n1 = n1
  n2 = n2
  n3 = n3
  heap = heap
INVARIANTS
  BusSound
  StackReady
  ReadWhole
  NetbufsSound
  ReadersExact
  AddressExact
PROPERTY SglistExact
CHECK_DEADLOCK FALSE
