\* Two users whose payments interleave in one contract, which keeps its promise
\* while the prompt fee changes.
SPECIFICATION Spec

CONSTANTS
  Users = {u1, u2}
  NoUser = NoUser
  MaxConversations = 2
  MaxMessages = 4
  MaxTriggers = 0
  EscrowAccount = escrow
  Treasuries = {treasury}
  InitialBalance = 4
  PromptFees = {1, 2}
  CancellationFees = {1}
  MetadataUpdateFees = {1}
  BranchFees = {0}
  Allowances = {3}
  Expiries = {2}
  CANCELLATION_TIMEOUT = 1
  REFUND_TIMEOUT = 2
  MaxTime = 2

SYMMETRY Symmetry
INVARIANTS
  RefundsCovered

PROPERTIES
  KeepsPromise
