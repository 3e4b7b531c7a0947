SPECIFICATION FairSpec
CONSTANTS
  Pdu = {p}
  NoPdu = NoPdu
  PVAR = "ITUT_96"
  PCR = FALSE
  HSL = FALSE
  MPLEV = FALSE
  Mod = 4
  BsntMod = 4
  CtrMod = 8
  N1 = 1
  M = 1
  Tin = 2
  Tie = 1
  T = 2
  D = 2
  Te = 1
  De = 1
  Ue = 1
  RbAbate = 0
  RbAccept = 9
  RbDiscard = 9
  TbMax = 1
  WqMax = 2
  TbAbate <- MCAbate
  TbOnset <- MCOnset
  TbDiscd <- MCDiscd
  Requests = {"PDU", "STOP", "RETRIEVAL"}
  Priority = {"STOP"}
  PeerSios = {}
  Expiring = {}
PROPERTY RetrievalAnswered
