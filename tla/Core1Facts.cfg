CONSTANTS
  Facts = {DRAINED, HELD}
  NoFact = NONE
  Slots = 2
  IdxMod = 4
SPECIFICATION FairSpec
INVARIANTS
  TypeOK
  SlotNotShared
  DropNotForgotten
  WipeExcludesCore1
  FlashExcludesCore1
PROPERTIES
  IsFactQueue
  FactsArePopped
  HandshakesEnd
