\* Three transactions at once: two kinds that append before they lock the
\* session row, one that locks it first, one that only references it.
CONSTANTS
  Txs = {t1, t2, t3}
  NoHash = "none"
  Kinds = {"consent", "hook", "override", "upload"}
SPECIFICATION FairSpec
INVARIANTS
  TypeOK
  ChainVerifies
  AllOrNothing
  LockedReadsLast
PROPERTIES
  AppendsOnly
  EveryTransactionEnds
\* Every transaction has ended.
CHECK_DEADLOCK FALSE
