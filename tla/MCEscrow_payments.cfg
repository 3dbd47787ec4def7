\* One user who pays for up to four messages while the owner changes the fees.
SPECIFICATION Spec

CONSTANTS
  Users = {u1}
  NoUser = NoUser
  MaxConversations = 2
  MaxMessages = 4
  MaxTriggers = 0
  EscrowAccount = escrow
  Treasuries = {treasury}
  InitialBalance = 4
  PromptFees = {1, 2}
  CancellationFees = {1}
  MetadataUpdateFees = {1}
  BranchFees = {0}
  Allowances = {3}
  Expiries = {3}
  CANCELLATION_TIMEOUT = 1
  REFUND_TIMEOUT = 2
  MaxTime = 4

INVARIANTS
  TypeOK
  NothingStranded
  SpentIsNetOutlay
  AnsweredIffPaid
  OneRegenerationAtATime

PROPERTIES
  SettledForGood
