SPECIFICATION EdgeFairSpec
CONSTANTS
  MaxEdges = 1
PROPERTIES
  AgentEndsWithEdge
