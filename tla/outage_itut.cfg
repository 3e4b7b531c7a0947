SPECIFICATION Spec
CONSTANTS
  Pdu = {p}
  NoPdu = NoPdu
  PVAR = "ITUT_96"
  PCR = FALSE
  HSL = TRUE
  MPLEV = FALSE
  Mod = 2
  BsntMod = 2
  CtrMod = 4
  N1 = 1
  M = 1
  Tin = 2
  Tie = 1
  T = 2
  D = 2
  Te = 2
  De = 1
  Ue = 1
  RbAbate = 0
  RbAccept = 1
  RbDiscard = 2
  TbMax = 0
  WqMax = 0
  SuErrors = TRUE
  MaxPend = 1
  MaxRtb = 1
  MaxRb = 1
  MaxCa = 2
  TbAbate <- MCAbate
  TbOnset <- MCOnset
  TbDiscd <- MCDiscd
  Requests <- OutageRequests
  PeerSus <- NoBusySus
  FlowStates <- Free
INVARIANTS ErrorsMonitored AcksSupervised
