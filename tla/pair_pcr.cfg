SPECIFICATION FairSpec
CONSTANTS
  NoPdu = NoPdu
  PVAR = "ITUT_96"
  PCR = TRUE
  HSL = FALSE
  MPLEV = TRUE
  Mod = 8
  BsntMod = 8
  CtrMod = 16
  N1 = 3
  M = 1
  Tin = 2
  Tie = 1
  T = 2
  D = 2
  Te = 1
  De = 1
  Ue = 1
  RbAbate = 0
  RbAccept = 9
  RbDiscard = 9
  TbMax = 8
  WqMax = 0
  MaxMsg = 4
  MaxChan = 2
  MaxLoss = 2
  Expiring = {}
  Pdu <- MCPdu
  TbAbate <- MCAbate
  TbOnset <- MCOnset
  TbDiscd <- MCDiscd
  FlowStates <- Free
INVARIANTS ChangeoverComplete NeverFails CongestionTold
PROPERTY ImplementsService
