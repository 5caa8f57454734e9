SPECIFICATION FairSpec
CONSTANTS
  m1 = m1
  m2 = m2
  host = host
  Mac = {m1, m2, host}
  GatewayMac = {m1, m2}
  NoMac = NoMac
  Noise <- MCNoise
  RxSize = 2
INVARIANTS
  TypeOK
  SentToGateway
  NothingForgotten
PROPERTIES
  NoUnaskedSend
  AskingAgainHelps
