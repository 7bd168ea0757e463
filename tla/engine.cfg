SPECIFICATION Spec
CONSTANTS
  CertSlots = 3
  MaxPosted = 20
  Scenes <- MCScenes
  Conf <- MCConf
  XTRA_SERVER <- MCXtraServers
  NoFate <- MCNoFate
CHECK_DEADLOCK FALSE
INVARIANT EventsFollow
INVARIANT SessionFollows
 
