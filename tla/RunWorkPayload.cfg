SPECIFICATION FairSpec
PROPERTIES
  GraceDelayKills
