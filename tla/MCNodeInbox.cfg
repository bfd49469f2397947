\* Competing calls, timeouts and cleanup, with up to four messages.
SPECIFICATION FairSpec
CONSTANTS
  NoBucket = NoBucket
  Kinds <- MCKinds
  Buckets <- MCBuckets
  BucketOf <- MCBucketOf
  LayerOf <- MCLayerOf
  InstanceOf <- MCInstanceOf
  Receivers <- MCReceivers
  Wanted <- MCWanted
  Index <- MCIndex
  Need <- MCNeed
  CleanLayers = {1}
  CleanInstances = {"vss"}
  MaxMessages = 4
INVARIANTS
  Mirror
  DeliveredOnce
  NoLostWakeup
PROPERTIES
  ImplementsMailbox
  EnoughIsReceived
CHECK_DEADLOCK FALSE
