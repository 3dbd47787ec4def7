\* Agent jobs, whose escrows take trigger IDs, beside prompts; two treasuries; every fee changes.
SPECIFICATION Spec

CONSTANTS
  Users = {u1}
  NoUser = NoUser
  MaxConversations = 1
  MaxMessages = 2
  MaxTriggers = 2
  EscrowAccount = escrow
  Treasuries = {t1, t2}
  InitialBalance = 4
  PromptFees = {1, 2}
  CancellationFees = {0, 1}
  MetadataUpdateFees = {0, 1}
  BranchFees = {0, 1}
  Allowances = {3}
  Expiries = {2}
  CANCELLATION_TIMEOUT = 1
  REFUND_TIMEOUT = 2
  MaxTime = 2

INVARIANTS
  Solvent
  PendingCounted
