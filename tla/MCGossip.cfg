SPECIFICATION FairSpec
CONSTANTS
  Senders = {2, 9}
  Voters = {1, 2, 3}
  Width <- MCWidth
  MaxSeq <- MCMaxSeq
  MaxQueue <- MCMaxQueue
INVARIANTS TypeOK
PROPERTIES ViewSettles NewestArrives
