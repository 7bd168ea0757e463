SPECIFICATION FairSpec
CONSTANTS
  OduEnable = TRUE
  OduRouter = TRUE
  OduEmbms = TRUE
  Ifaces <- MCIfaces
  Kinds <- MCKinds
  Scenes <- MCScenes
  Cast <- MCCast
  Plays <- MCPlays
  MaxPlays <- MCMaxPlays
  Nobody = Nobody
INVARIANTS NoFreed ObjectsRight
PROPERTIES ImplementsContract EverServed
CHECK_DEADLOCK FALSE
