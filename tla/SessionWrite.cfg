SPECIFICATION FairSpec
CONSTANTS
  s1 = s1  s2 = s2
  m1 = m1  m2 = m2  m3 = m3  m4 = m4
  Session <- Sessions
  Message = {m1, m2, m3, m4}
  sessionOf <- Owners
  size <- Sizes
  SendBuffer <- Buffers
  Reader <- Readers
  Worker = {w1, w2}
  None = None
CHECK_DEADLOCK FALSE
INVARIANTS AnswerInv CutOnlyByEnd MixedOnlyIfOverlapped
PROPERTY PushedIsDone
