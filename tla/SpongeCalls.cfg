SPECIFICATION SpongeFairSpec
CONSTANTS
  Dom = Dom
  End = End
  Rate = 4
  MaxIn = 9
  MaxOut = 13
INVARIANTS
  AbsorbsPadded
  StreamInOrder
  ExactlyAsked
PROPERTY
  Returns
