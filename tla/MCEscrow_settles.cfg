\* The keeper and time are fair: every payment is settled.
SPECIFICATION FairSpec

CONSTANTS
  Users = {u1}
  NoUser = NoUser
  MaxConversations = 1
  MaxMessages = 3
  MaxTriggers = 0
  EscrowAccount = escrow
  Treasuries = {treasury}
  InitialBalance = 4
  PromptFees = {1, 2}
  CancellationFees = {1}
  MetadataUpdateFees = {1}
  BranchFees = {0}
  Allowances = {3}
  Expiries = {2}
  CANCELLATION_TIMEOUT = 1
  REFUND_TIMEOUT = 2
  MaxTime = 3

PROPERTIES
  EveryPaymentSettles
