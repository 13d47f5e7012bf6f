SPECIFICATION ClientSpec
CONSTANTS
  c1 = c1
  c2 = c2
  c3 = c3
  c4 = c4
  old = old
  NoTag = NoTag
  Latest = Latest
  Calls = {c1, c2, c3, c4}
  Batchable = {c1, c2, c3}
  Reverting = {c2}
  BlockTag <- MCTags
  t1 = t1
  t2 = t2
  t3 = t3
  stake = stake
  trove = trove
  NoTx = NoTx
  Txs = {t1, t2, t3}
  IdOf <- MCIdOf
  Guarded = {t3}
  MaxReconnects = 1
  MaxChanges = 5
  price = price
  total = total
  v1 = v1
  v2 = v2
  NoBlock = NoBlock
  Fields = {price, total}
  Content <- MCContent
  MaxBlock = 2
  Views = {v1, v2}
  Selects <- MCSelects
  Slots = {s1, s2}
  MaxFailures = 1
  MaxStops = 1
INVARIANTS ClientTypeOK OwnAnswerAtOwnBlock ReadsOneBlock ShownUnlessMissed WaitingIsWatched ViewMatchesTrove
PROPERTIES EveryReadSettles RoundsEnd CatchesUp TransactionsEnd
CHECK_DEADLOCK FALSE
