SPECIFICATION FairSpec
PROPERTIES
  ForwarderUnblocks
