\* Two accounts with two notebooks each, two charaIds, one item; a dying
\* process can tear any file but charas.json.
SPECIFICATION BooksSpec
CONSTANTS
  Item = {glasses, stamp}
  Glasses = glasses
  Stamp = stamp
  RowMax = 1
  Slot <- MCSlot
  NoUnequip = {}
  NoTrade = {stamp}
  NoLocker = {stamp}
  Account = {a1, a2}
  MaxId = 2
  MaxCharacters = 2
  Initial = {glasses}
  Accessory = {glasses}
  Uniform = {}
  Consumable = {stamp}
  Prizes = {stamp}
  Goods <- MCGoods
  Tearable <- AllButIndex
  None = none
  Torn = torn
  Absent = absent
  NotLoaded = notloaded
SYMMETRY Accounts
INVARIANTS
  LooksAreWorn
  BooksAreKept

  
