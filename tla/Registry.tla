------------------------------- MODULE Registry -------------------------------
(***************************************************************************)
(* What survives the server: the books accounts.AccountStore keeps, and    *)
(* the files behind them.                                                  *)
(*                                                                         *)
(*   charas.json             charaids.CharaIndex: owners and the counter   *)
(*   <account>/characters    characters.CharacterStore: records and bags   *)
(*   <account>/locker        item.Locker, one per account                  *)
(*   friends.json            friends.FriendBook: directed edges            *)
(*                                                                         *)
(* A handler changes its books in memory and writes each file it touched,  *)
(* one after the other (write_text: truncate, then write).  No other       *)
(* handler runs in between, but the process can die in between, or inside  *)
(* one write, and what it finds when it starts again is the files.         *)
(***************************************************************************)
EXTENDS Inventory, Sequences, FiniteSets

CONSTANTS
  Account,       \* account ids
  MaxId,         \* CHARA_ID_MAX, counting from CHARA_ID_BASE = 1
  MaxCharacters, \* notebooks of an account; 3 in the code
  Initial,       \* INITIAL_LOCKER: items a locker without a file starts with
  Accessory,     \* items a new character can be registered wearing
  Uniform,       \* items of UNIFORM_CATEGORIES
  Consumable,    \* items of the consumable tab
  Prizes,        \* items the school gives away
  NoLocker,      \* items that may not be stored
  Goods,         \* shop.GOODS: [item, bill], what each costs in other items
  Tearable,      \* files a dying process can leave truncated
  Torn, Absent, NotLoaded

ASSUME NotebookAssumption == MaxId \in Nat \ {0} /\ MaxCharacters \in Nat

Id == 1..MaxId

IndexFile == <<"index", None>>
FriendsFile == <<"friends", None>>
CharsFile(a) == <<"chars", a>>
LockerFile(a) == <<"locker", a>>

File == {IndexFile, FriendsFile} \union ({"chars", "locker"} \X Account)

VARIABLES
  owner,    \* CharaIndex.owners
  next,     \* CharaIndex.next_id
  record,   \* record[a][c]: c's bag and looks, None if a has no c
  locker,   \* locker[a]: counts, NotLoaded until the account asks for it
  book,     \* FriendBook.edges: <<c, d>> when d is in c's address book
  disk,     \* what each file says
  due,      \* the writes the running handler still has to make
  up,       \* the process is running
  school,   \* school[a]: the character a is at school with, or None
  enrolled  \* history: every charaId a record was ever saved under

memory == <<owner, next, record, locker, book>>
booksVars == <<owner, next, record, locker, book, disk, due, up, school, enrolled>>

Shelf == [Item -> 0..RowMax]
Record == [bag : Bag, looks : SUBSET Accessory]
Records == [Id -> Record \union {None}]
IndexData == [owner : [Id -> Account \union {None}], next : 1..MaxId + 1]
Edges == SUBSET (Id \X Id)

EmptyShelf == [i \in Item |-> 0]
NoRecords == [c \in Id |-> None]
NoIndex == [owner |-> [c \in Id |-> None], next |-> 1]
InitialShelf == [i \in Item |-> IF i \in Initial THEN 1 ELSE 0]

(* What is nobody, no record, no contents or no locker yet is none of       *)
(* those; and nothing a character is drawn with pays for the goods.        *)
ASSUME ValueAssumption ==
  /\ None \notin Account /\ None \notin Id /\ None \notin Record
  /\ NotLoaded \notin Shelf /\ Torn # Absent
  /\ \A d \in {Torn, Absent} :
       /\ d \notin IndexData /\ d \notin Records /\ d \notin Shelf
       /\ \A edges \in Edges : d # edges
ASSUME GoodsAssumption ==
  /\ Accessory \subseteq Item
  /\ \A g \in Goods : /\ g.item \in Item /\ g.bill \in Shelf
                      /\ \A i \in Accessory : g.bill[i] = 0

BooksTypeOK ==
  /\ owner \in [Id -> Account \union {None}] /\ next \in 1..MaxId + 1
  /\ record \in [Account -> Records]
  /\ locker \in [Account -> Shelf \union {NotLoaded}]
  /\ book \in Edges
  /\ disk[IndexFile] \in IndexData \union {Torn, Absent}
  /\ disk[FriendsFile] \in Edges \union {Torn, Absent}
  /\ \A a \in Account : disk[CharsFile(a)] \in Records \union {Torn, Absent}
  /\ \A a \in Account : disk[LockerFile(a)] \in Shelf \union {Torn, Absent}
  /\ up \in BOOLEAN
  /\ school \in [Account -> Id \union {None}]
  /\ enrolled \in SUBSET Id

Forgotten ==
  /\ owner' = NoIndex.owner /\ next' = NoIndex.next
  /\ record' = [a \in Account |-> NoRecords]
  /\ locker' = [a \in Account |-> NotLoaded]
  /\ book' = {}
  /\ school' = [a \in Account |-> None]

BooksInit ==
  /\ owner = NoIndex.owner /\ next = NoIndex.next
  /\ record = [a \in Account |-> NoRecords]
  /\ locker = [a \in Account |-> NotLoaded]
  /\ book = {}
  /\ disk = [f \in File |-> Absent]
  /\ due = <<>>
  /\ up = FALSE
  /\ school = [a \in Account |-> None]
  /\ enrolled = {}

-----------------------------------------------------------------------------
(* The writes.                                                             *)

Written(f, data) == [file |-> f, data |-> data]

SaveIndex(o, n) == Written(IndexFile, [owner |-> o, next |-> n])
SaveChars(a, records) == Written(CharsFile(a), records)
SaveLocker(a, shelf) == Written(LockerFile(a), shelf)
SaveFriends(edges) == Written(FriendsFile, edges)

If(condition, writes) == IF condition THEN writes ELSE <<>>

(* A handler starts, owing these writes.                                   *)
Owes(writes) ==
  /\ up /\ due = <<>>
  /\ due' = writes
  /\ UNCHANGED <<disk, up>>

(* A handler of the school, or of the screen that chooses a character.     *)
AtSchool(a, c) == school[a] = c /\ UNCHANGED school
AtTheGate(a) == school[a] = None /\ UNCHANGED school

Write ==
  /\ due # <<>>
  /\ disk' = [disk EXCEPT ![Head(due).file] = Head(due).data]
  /\ due' = Tail(due)
  /\ enrolled' = enrolled \union
       (IF Head(due).file[1] = "chars"
        THEN {c \in Id : Head(due).data[c] # None} ELSE {})
  /\ UNCHANGED <<memory, up, school>>

(* The process ends: between two writes, or inside one.                    *)
Dies ==
  /\ up /\ up' = FALSE
  /\ due' = <<>>
  /\ Forgotten
  /\ UNCHANGED enrolled

Crash == Dies /\ UNCHANGED disk

CrashInsideWrite ==
  /\ due # <<>> /\ Head(due).file \in Tearable
  /\ Dies
  /\ disk' = [disk EXCEPT ![Head(due).file] = Torn]

(* A file that is absent or unreadable reads as nothing at all.            *)
Read(f, nothing) == IF disk[f] \in {Torn, Absent} THEN nothing ELSE disk[f]

(* _saved_chara_ids: the records of every account, off the files.          *)
Found == [a \in Account |-> Read(CharsFile(a), NoRecords)]

(* AccountStore.__init__: load the books, then CharaIndex.backfill.        *)
Boot ==
  LET index == Read(IndexFile, NoIndex)
      Holders(c) == {a \in Account : Found[a][c] # None}
      seen == {c \in Id : Holders(c) # {}}
      owners == [c \in Id |-> IF c \in seen THEN CHOOSE a \in Holders(c) : TRUE
                                            ELSE index.owner[c]]
      counter == CHOOSE n \in {index.next} \union {c + 1 : c \in seen} :
                   n >= index.next /\ \A c \in seen : n > c
      changed == disk[IndexFile] = Absent \/ owners # index.owner
                                          \/ counter # index.next
  IN  /\ ~ up /\ up' = TRUE
      /\ owner' = owners /\ next' = counter
      /\ record' = Found
      /\ book' = Read(FriendsFile, {})
      /\ due' = If(changed, <<SaveIndex(owners, counter)>>)
      /\ UNCHANGED <<locker, disk, school, enrolled>>

(* AccountStore.locker: only a missing file is a new account's.            *)
OpenLocker(a) ==
  /\ locker[a] = NotLoaded
  /\ LET shelf == IF disk[LockerFile(a)] = Absent
                  THEN InitialShelf ELSE Read(LockerFile(a), EmptyShelf)
     IN  /\ locker' = [locker EXCEPT ![a] = shelf]
         /\ Owes(If(disk[LockerFile(a)] = Absent, <<SaveLocker(a, shelf)>>))
  /\ UNCHANGED <<owner, next, record, book, school, enrolled>>

-----------------------------------------------------------------------------
(* Characters.                                                             *)

Characters(a) == {c \in Id : record[a][c] # None}
Exists(c) == \E a \in Account : record[a][c] # None

(* Variant: the lowest number nobody owns, the deleted ones included.       *)
Unowned == {c \in Id : owner[c] = None}

(* CharaIndex.mint: past the counter and past anything claimed.            *)
Unclaimed == {c \in Id : c >= next /\ owner[c] = None}
Minted == CHOOSE c \in Unclaimed : \A d \in Unclaimed : c <= d

(* Variant: the record is written before its id is.                         *)
IndexLast(a, owners, n, records) ==
  <<SaveChars(a, records), SaveIndex(owners, n)>>

(* CharacterStore.add: mint writes the index, then the record is written.  *)
IndexFirst(a, owners, n, records) ==
  <<SaveIndex(owners, n), SaveChars(a, records)>>

(* creation_accessories: one for each slot, which the locker holds.        *)
Offered(a, picks) ==
  /\ \A i \in picks : i \in Accessory /\ locker[a][i] >= 1
  /\ \A i, j \in picks : Slot[i] = Slot[j] => i = j

(* 0x030C: the index, the record, then the accessories out of the locker.  *)
Create(a, picks) ==
  LET c == Minted
      owners == [owner EXCEPT ![c] = a]
      shelf == [i \in Item |-> locker[a][i] - (IF i \in picks THEN 1 ELSE 0)]
      dressed == [held |-> [i \in Item |-> IF i \in picks THEN 1 ELSE 0],
                  worn |-> picks]
      With(bag) == [record[a] EXCEPT ![c] = [bag |-> bag, looks |-> picks]]
  IN  /\ AtTheGate(a) /\ locker[a] # NotLoaded
      /\ Unclaimed # {} /\ Cardinality(Characters(a)) < MaxCharacters
      /\ Offered(a, picks)
      /\ owner' = owners /\ next' = c + 1
      /\ record' = [record EXCEPT ![a] = With(dressed)]
      /\ locker' = [locker EXCEPT ![a] = shelf]
      /\ Owes(IndexFirst(a, owners, c + 1, With(EmptyHanded))
              \o If(picks # {}, <<SaveChars(a, With(dressed)), SaveLocker(a, shelf)>>))
      /\ UNCHANGED <<book, enrolled>>

(* item.surrender_to_locker: what fits, less the uniform being worn.       *)
Surrendered(bag, shelf, i) ==
  LET left == bag.held[i] - (IF i \in Uniform THEN WornCopy(bag, i) ELSE 0)
      room == RowMax - shelf[i]
  IN  IF left < room THEN left ELSE room

(* friends.FriendBook.forget: its own book, and the books of those in it.  *)
Listed(c) == {d \in Id : <<c, d>> \in book}
ForgetFriends(c) ==
  {e \in book : e[1] # c /\ ~ (e[2] = c /\ e[1] \in Listed(c))}

(* CharacterStore.remove: the record goes; its id does not come back.      *)
Removed(a, c) == [record[a] EXCEPT ![c] = None]

(* 0x030F: the locker, the record, the index, the address books.           *)
Destroy(a, c) ==
  LET bag == record[a][c].bag
      moved == {i \in Item : Surrendered(bag, locker[a], i) > 0}
      shelf == [i \in Item |-> locker[a][i] + Surrendered(bag, locker[a], i)]
      kept == Removed(a, c)
      owners == [owner EXCEPT ![c] = None]
  IN  /\ AtTheGate(a) /\ locker[a] # NotLoaded /\ c \in Characters(a)
      /\ locker' = [locker EXCEPT ![a] = shelf]
      /\ record' = [record EXCEPT ![a] = kept]
      /\ owner' = owners
      /\ book' = ForgetFriends(c)
      /\ Owes(If(moved # {}, <<SaveLocker(a, shelf)>>)
              \o <<SaveChars(a, kept)>>
              \o If(owner[c] # None, <<SaveIndex(owners, next)>>)
              \o If(Listed(c) # {}, <<SaveFriends(ForgetFriends(c))>>))
      /\ UNCHANGED <<next, enrolled>>

(* FriendBook.link: both books, when either of them changes.               *)
Befriend(c, d) ==
  /\ c # d /\ {c, d} \subseteq {school[a] : a \in Account}
  /\ ~ {<<c, d>>, <<d, c>>} \subseteq book
  /\ book' = book \union {<<c, d>>, <<d, c>>}
  /\ Owes(<<SaveFriends(book')>>)
  /\ UNCHANGED <<owner, next, record, locker, school, enrolled>>

(* FriendBook.unlink: one direction only.                                  *)
Unfriend(c, d) ==
  /\ <<c, d>> \in book /\ c \in {school[a] : a \in Account}
  /\ book' = book \ {<<c, d>>}
  /\ Owes(<<SaveFriends(book')>>)
  /\ UNCHANGED <<owner, next, record, locker, school, enrolled>>

-----------------------------------------------------------------------------
(* Items.                                                                  *)

Items(c) == record[CHOOSE a \in Account : school[a] = c][c].bag
Drawn(bag) == bag.worn \intersect Accessory                  \* worn_accessories

Stores(a, shelf) == locker' = [locker EXCEPT ![a] = shelf]
OnlyItems == UNCHANGED <<owner, next, book, enrolled>>

(* Variant: the looks of who took it off are not written.                   *)
BagsOnly(a, c, bag, writes) ==
  LET bagged == [record[a] EXCEPT ![c].bag = bag]
  IN  /\ record' = [record EXCEPT ![a] = bagged]
      /\ Owes(<<SaveChars(a, bagged)>> \o writes)

(* The item operations: the bag is saved, then the locker an item went to, *)
(* then the looks, when what is worn has changed them.                     *)
BagThenLooks(a, c, bag, writes) ==
  LET bagged == [record[a] EXCEPT ![c].bag = bag]
      drawn == [bagged EXCEPT ![c].looks = Drawn(bag)]
  IN  /\ record' = [record EXCEPT ![a] = drawn]
      /\ Owes(<<SaveChars(a, bagged)>> \o writes
              \o If(drawn # bagged, <<SaveChars(a, drawn)>>))

(* 0x4D04: an accessory goes on or comes off.                              *)
Equip(a, c, i) ==
  /\ AtSchool(a, c) /\ i \in Accessory
  /\ \/ CanWear(Items(c), i) /\ BagThenLooks(a, c, Wear(Items(c), i), <<>>)
     \/ CanTakeOff(Items(c), i) /\ BagThenLooks(a, c, TakeOff(Items(c), i), <<>>)
  /\ UNCHANGED locker /\ OnlyItems

(* 0x4D07: one of a kind is eaten, drunk or read.                          *)
Use(a, c, i) ==
  /\ AtSchool(a, c) /\ i \in Consumable
  /\ CanTake(Items(c), i, 1)
  /\ BagThenLooks(a, c, Take(Items(c), i, 1), <<>>)
  /\ UNCHANGED locker /\ OnlyItems

(* 0x4D0D: thrown away, unless it is worn for good.                        *)
Discard(a, c, i) ==
  /\ AtSchool(a, c)
  /\ CanTake(Items(c), i, 1) /\ ~ Fixed(Items(c), i)
  /\ BagThenLooks(a, c, Take(Items(c), i, 1), <<>>)
  /\ UNCHANGED locker /\ OnlyItems

LockerToo(a, shelf) == <<SaveLocker(a, shelf)>>

(* 0x4D0A: into the locker.                                                *)
PutInLocker(a, c, i) ==
  LET shelf == [locker[a] EXCEPT ![i] = @ + 1]
  IN  /\ AtSchool(a, c) /\ locker[a] # NotLoaded
      /\ i \notin NoLocker
      /\ CanTake(Items(c), i, 1) /\ ~ Fixed(Items(c), i)
      /\ locker[a][i] < RowMax
      /\ BagThenLooks(a, c, Take(Items(c), i, 1), LockerToo(a, shelf))
      /\ Stores(a, shelf) /\ OnlyItems

(* 0x040A: out of the locker; the locker is saved first.                   *)
LockerTake(a, c, i) ==
  /\ AtSchool(a, c) /\ locker[a] # NotLoaded
  /\ locker[a][i] >= 1 /\ Fits(Items(c), i, 1)
  /\ record' = [record EXCEPT ![a][c].bag = Receive(@, i, 1)]
  /\ Stores(a, [locker[a] EXCEPT ![i] = @ - 1])
  /\ Owes(<<SaveLocker(a, locker'[a]), SaveChars(a, record'[a])>>)
  /\ OnlyItems

(* 0x040D: thrown away without taking it out.                              *)
LockerDel(a, i) ==
  /\ school[a] # None /\ locker[a] # NotLoaded /\ locker[a][i] >= 1
  /\ Stores(a, [locker[a] EXCEPT ![i] = @ - 1])
  /\ Owes(<<SaveLocker(a, locker'[a])>>)
  /\ UNCHANGED <<record, school>> /\ OnlyItems

(* CharacterStore.set_items, and nothing after it.                         *)
SetItems(a, c, bag) ==
  /\ AtSchool(a, c)
  /\ record' = [record EXCEPT ![a][c].bag = bag]
  /\ Owes(<<SaveChars(a, record'[a])>>)
  /\ UNCHANGED locker /\ OnlyItems

(* 0x4F07: one of the goods for its bill.                                  *)
ShopTrade(a, c, g) ==
  /\ school[a] = c
  /\ CanPay(Items(c), g.bill) /\ Fits(Items(c), g.item, 1)
  /\ SetItems(a, c, Bartered(Items(c), g.bill, g.item))

(* _lesson_rewards and a bout's payout: what fits is received.             *)
Awarded(a, c, i) ==
  /\ school[a] = c /\ i \in Prizes
  /\ Fits(Items(c), i, 1)
  /\ SetItems(a, c, Receive(Items(c), i, 1))

(* _trade_execute: two characters, two stores; whoever had the last word   *)
(* is saved first.  The worn copy is not given.                            *)
TradeExecute(a, c, b, d, i) ==
  LET given == [record EXCEPT ![a][c].bag = Take(@, i, 1)]
      received == [record EXCEPT ![b][d].bag = Receive(@, i, 1)]
      whole == [given EXCEPT ![b][d].bag = Receive(@, i, 1)]
  IN  /\ a # b /\ school[a] = c /\ school[b] = d /\ UNCHANGED school
      /\ i \notin NoTrade
      /\ Items(c).held[i] - WornCopy(Items(c), i) >= 1
      /\ Fits(Items(d), i, 1)
      /\ record' = whole
      /\ \/ Owes(<<SaveChars(a, given[a]), SaveChars(b, whole[b])>>)
         \/ Owes(<<SaveChars(b, received[b]), SaveChars(a, whole[a])>>)
      /\ UNCHANGED locker /\ OnlyItems

(* item.adopt_registered_accessories: what the looks say and the bag does  *)
(* not is put on, from the bag, the locker or nowhere.                     *)
Unseen(r) ==
  {i \in r.looks : \A j \in r.bag.worn : Slot[j] # Slot[i]}
Settled(r) ==
  [held |-> [i \in Item |-> IF i \in Unseen(r) /\ r.bag.held[i] = 0 THEN 1
                            ELSE r.bag.held[i]],
   worn |-> r.bag.worn \union Unseen(r)]

(* 0x0306, _settle_accessories: then the looks are what is worn.           *)
Login(a, c) ==
  LET bag == record[a][c].bag
      settled == Settled(record[a][c])
      shelf == [i \in Item |->
                  IF settled.held[i] > bag.held[i] /\ locker[a][i] > 0
                  THEN locker[a][i] - 1 ELSE locker[a][i]]
      bagged == [record[a] EXCEPT ![c].bag = settled]
      drawn == [bagged EXCEPT ![c].looks = Drawn(settled)]
  IN  /\ c \in Characters(a) /\ school[a] = None /\ locker[a] # NotLoaded
      /\ school' = [school EXCEPT ![a] = c]
      /\ record' = [record EXCEPT ![a] = drawn]
      /\ Stores(a, shelf)
      /\ Owes(If(settled # bag, <<SaveChars(a, bagged), SaveLocker(a, shelf)>>)
              \o If(drawn # bagged, <<SaveChars(a, drawn)>>))
      /\ OnlyItems

Logout(a) ==
  /\ school[a] # None /\ Owes(<<>>)
  /\ school' = [school EXCEPT ![a] = None]
  /\ UNCHANGED <<memory, enrolled>>

-----------------------------------------------------------------------------
BooksNext ==
  \/ Write \/ Crash \/ CrashInsideWrite \/ Boot
  \/ \E a \in Account :
       \/ OpenLocker(a) \/ Logout(a)
       \/ \E picks \in SUBSET Item : Create(a, picks)
       \/ \E i \in Item : LockerDel(a, i)
       \/ \E c \in Id :
            \/ Destroy(a, c) \/ Login(a, c)
            \/ \E g \in Goods : ShopTrade(a, c, g)
            \/ \E i \in Item :
                 \/ PutInLocker(a, c, i) \/ LockerTake(a, c, i)
                 \/ Equip(a, c, i) \/ Use(a, c, i) \/ Discard(a, c, i) \/ Awarded(a, c, i)
  \/ \E c, d \in Id :
       \/ Befriend(c, d) \/ Unfriend(c, d)
       \/ \E a, b \in Account, i \in Item : TradeExecute(a, c, b, d, i)

BooksSpec == BooksInit /\ [][BooksNext]_booksVars

-----------------------------------------------------------------------------
(* Every mutation writes the file: at any moment a book that differs from  *)
(* its file is one the running handler still owes a write, so a server     *)
(* that stops between two messages loses nothing.                          *)
Memory(f) ==
  CASE f = IndexFile -> [owner |-> owner, next |-> next]
    [] f = FriendsFile -> book
    [] f[1] = "chars" -> record[f[2]]
    [] f[1] = "locker" -> locker[f[2]]

Nothing(f) ==
  CASE f = IndexFile -> NoIndex
    [] f = FriendsFile -> {}
    [] f[1] = "chars" -> NoRecords
    [] f[1] = "locker" -> EmptyShelf

Owed(f) == \E k \in DOMAIN due : due[k].file = f

SavedOrOwed ==
  up => \A f \in File :
    \/ Owed(f)
    \/ f[1] = "locker" /\ locker[f[2]] = NotLoaded
    \/ IF disk[f] \in {Torn, Absent} THEN Memory(f) = Nothing(f)
                                     ELSE Memory(f) = disk[f]

(* The index on disk covers the records on disk, whenever both can be      *)
(* read: mint writes before the record does and release after it, so a     *)
(* process that dies in between leaves no orphaned character.              *)
IndexCoversRecords ==
  \A a \in Account, c \in Id :
    /\ disk[IndexFile] \notin {Torn, Absent}
    /\ disk[CharsFile(a)] \notin {Torn, Absent}
    /\ disk[CharsFile(a)][c] # None
    => disk[IndexFile].owner[c] = a

(* charaids.py: a charaId is never handed out twice, because address books *)
(* and groups hold it outside the record it names.  Once a record was      *)
(* saved under an id, no create ever uses it again, whatever is deleted    *)
(* and wherever the process dies.                                          *)
NeverHandedOutTwice ==
  [][\A c \in enrolled : up /\ up' /\ ~ Exists(c) => ~ Exists(c)']_booksVars

(* FriendBook.forget takes a deleted character out of everybody's book.    *)
DeletedLeavesEveryBook ==
  [][\A c \in Id : Exists(c) /\ ~ Exists(c)' /\ up' =>
       \A e \in book' : e[2] # c]_booksVars

(* Whoever is at school is drawn with the accessories their bag says they   *)
(* wear, through every item operation, barter and trade, and wherever the  *)
(* process died the time before; and nothing is worn that is not carried.  *)
LooksAreWorn ==
  \A a \in Account : school[a] # None =>
    LET r == record[a][school[a]]
    IN  /\ r.looks = Drawn(r.bag)
        /\ \A i \in r.bag.worn : r.bag.held[i] > 0

(* Ids and records are kept together, in memory and on disk, and no row of *)
(* a bag or a locker leaves its byte.                                      *)
RecordsAreKept == BooksTypeOK /\ IndexCoversRecords

(* The books: memory is on disk or still owed to it, the index covers every *)
(* record, and every value is one the file can hold.                       *)
BooksAreKept == RecordsAreKept /\ SavedOrOwed
=============================================================================
