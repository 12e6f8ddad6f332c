SPECIFICATION Spec
CONSTANTS
  Handle = {h1, h2}
  NoHandle = NoHandle
  MaxRtt = 2
  Faulty = {"mode", "driver", "ifaces", "no_ifaces"}
INVARIANTS
  OneEventLoop
  LateAnswersFit
  StoppedIsOff
  CombosRespected
PROPERTIES
  StoppingEnds
