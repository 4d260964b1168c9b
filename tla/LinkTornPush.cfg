SPECIFICATION Spec
CONSTANTS
  History <- OneEdit
  Conns = {c1, c2}
  None = None
  Packets = 0
  QueueCapacity = 1
  WireMax = 1
  Mishaps <- Tears
PROPERTIES PushedIsTaken
