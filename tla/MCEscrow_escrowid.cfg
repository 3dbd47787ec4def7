\* An agent job takes the ID of an existing escrow.
SPECIFICATION Spec

CONSTANTS
  Users = {u1}
  NoUser = NoUser
  MaxConversations = 1
  MaxMessages = 2
  MaxTriggers = 2
  EscrowAccount = escrow
  Treasuries = {treasury}
  InitialBalance = 4
  PromptFees = {1}
  CancellationFees = {1}
  MetadataUpdateFees = {1}
  BranchFees = {0}
  Allowances = {3}
  Expiries = {2}
  CANCELLATION_TIMEOUT = 1
  REFUND_TIMEOUT = 2
  MaxTime = 3

PROPERTIES
  EscrowIdUnique
