SPECIFICATION Spec
CONSTANTS
  NoPdu = NoPdu
  PVAR = "ITUT_96"
  PCR = FALSE
  HSL = FALSE
  MPLEV = FALSE
  Mod = 8
  BsntMod = 8
  CtrMod = 16
  N1 = 2
  M = 1
  Tin = 2
  Tie = 1
  T = 2
  D = 2
  Te = 1
  De = 1
  Ue = 1
  RbAbate = 0
  RbAccept = 1
  RbDiscard = 1
  TbMax = 8
  WqMax = 0
  MaxMsg = 2
  MaxChan = 1
  MaxLoss = 1
  Expiring = {"t7"}
  Pdu <- MCPdu
  TbAbate <- MCAbate
  TbOnset <- MCOnset
  TbDiscd <- MCDiscd
  FlowStates <- NextFlow
INVARIANTS TypeOK ChangeoverComplete
