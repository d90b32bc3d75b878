\* Two characters who know each other, no items: what is left of a deleted one.
SPECIFICATION BooksSpec
CONSTANTS
  Item = {}
  Glasses = none
  Stamp = none
  RowMax = 1
  Slot <- MCSlot
  NoUnequip = {}
  NoTrade = {}
  Account = {a1, a2}
  MaxId = 2
  MaxCharacters = 1
  Initial = {}
  Accessory = {}
  Uniform = {}
  Consumable = {}
  Prizes = {}
  NoLocker = {}
  Goods = {}
  Tearable <- AllButIndex
  None = none
  Torn = torn
  Absent = absent
  NotLoaded = notloaded
PROPERTY
  DeletedLeavesEveryBook
