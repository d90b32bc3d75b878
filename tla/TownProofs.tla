----------------------------- MODULE TownProofs -----------------------------
(***************************************************************************)
(* Why the town agrees with its boards, for any number of people, maps and *)
(* rooms: every room has one window, everybody sits in one room of a kind, *)
(* every head wears the icon of what its owner is doing.                   *)
(*                                                                         *)
(* The invariant has a part for each board and one for what the clients    *)
(* draw.  That of the fights says that whoever fights is still in the room *)
(* the fight started from (FightHolds), and that whoever logged out is out *)
(* of everything (GoneIsGone): it is what fails, and the theorems with it, *)
(* when somebody logs in again while a fight they left is on.              *)
(***************************************************************************)
EXTENDS Town, FiniteSetTheorems, SequenceTheorems, WellFoundedInduction, TLAPS

Among(s) == {s[i] : i \in DOMAIN s}

(* A board: each list is filed under one who is on it, and nobody is on two. *)
Filed(L) ==
  /\ L \in [Players -> Seq(Players)]
  /\ \A l \in Players : L[l] # <<>> => l \in Among(L[l])
  /\ \A l, k \in Players : l # k => Among(L[l]) \cap Among(L[k]) = {}

Lists(rooms) == [l \in Players |-> rooms[l].members]

RoomsTyped ==
  /\ training \in [Players -> RoomType]
  /\ \A l \in Players : training[l].ready \cup training[l].sideA \subseteq Ids(training[l])

RosterTyped == roster \in [Players -> SUBSET (Players \X BOOLEAN \X BOOLEAN)]

(* A training room's window is the room.                                   *)
RosterShows ==
  \A c \in Players :
    /\ \A l \in Players : c \in Ids(training[l]) => roster[c] = Rows(training[l])
    /\ (\A l \in Players : c \notin Ids(training[l])) => roster[c] = {}

TrainingInv ==
  RoomsTyped /\ Filed(Lists(training)) /\ RosterTyped /\ RosterShows /\ SidesFit

(* And a chat room's.                                                      *)
SeatsShow ==
  \A c \in Players :
    /\ \A o \in Players : c \in ChatSeats(o) => seats[c] = ChatSeats(o)
    /\ (\A o \in Players : c \notin ChatSeats(o)) => seats[c] = {}

ChatsInv == Filed(chats) /\ seats \in [Players -> SUBSET Players] /\ SeatsShow

MapTyped ==
  /\ place \in [Players -> Maps \cup {Nowhere}]
  /\ lesson \subseteq Players /\ signs \subseteq Players /\ reading \subseteq Players
  /\ fights \subseteq [all : SUBSET Players, gone : SUBSET Players]
  /\ screen \in [Players -> {"off", "map", "loading", "lesson", "fight"}]

IconsTyped ==
  /\ owed \in [Players -> Icons \cup {Absent}]
  /\ drawn \in [Players -> [Players -> Icons \cup {Absent}]]
  /\ inherited \subseteq Players

(* Whoever has left the school has left everything.                        *)
GoneIsGone ==
  \A c \in Players :
    /\ screen[c] = "off" <=> place[c] = Nowhere
    /\ place[c] = Nowhere =>
         /\ \A l \in Players : c \notin Ids(training[l]) /\ c \notin ChatSeats(l)
         /\ c \notin signs /\ c \notin lesson
         /\ owed[c] = Absent

(* A fight's people sit in rooms of that fight, and have its screen up.    *)
FightHolds(f) ==
  /\ f.gone \subseteq f.all
  /\ \A c \in f.all \ f.gone : /\ screen[c] = "fight"
                               /\ \E l \in Players : c \in Ids(training[l])
  /\ \A c \in f.gone : place[c] = Nowhere
  /\ \A l \in Players :
       Ids(training[l]) \cap f.all # {} => Ids(training[l]) \subseteq f.all

FightsHold ==
  /\ \A f \in fights : FightHolds(f)
  /\ \A f, g \in fights : f.all \cap g.all # {} => f = g
  /\ FightsAreFought

(* What each client draws, wherever it is looking.                         *)
Shows(c, icon) == icon = Action(c) \/ c \in inherited

ScenesAreTrue ==
  \A q \in Players : screen[q] = "map" =>
    \A c \in Players \ {q} :
      /\ drawn[q][c] # Absent => place[c] = place[q]
      /\ place[c] = place[q] /\ screen[c] = "map" => drawn[q][c] # Absent
      /\ drawn[q][c] # Absent /\ ~Hidden(q) => Shows(c, drawn[q][c])

OwnIsTrue ==
  \A c \in Players : ~Hidden(c) =>
    /\ owed[c] # Absent => Shows(c, owed[c])
    /\ owed[c] = Absent /\ screen[c] = "map" => Shows(c, drawn[c][c])

RoomsInv == TrainingInv /\ ChatsInv /\ MapTyped /\ GoneIsGone /\ FightsHold
IconsInv == IconsTyped /\ ScenesAreTrue /\ OwnIsTrue
IInv == RoomsInv /\ IconsInv

-----------------------------------------------------------------------------
(* Lists of members.                                                       *)
LEMMA FirstBad ==
  ASSUME NEW S \in SUBSET Nat, S # {}
  PROVE  \E n \in S : n = 0 \/ (n - 1 \in Nat /\ n - 1 \notin S)
<1> DEFINE R == {pair \in Nat \X Nat : pair[1] < pair[2]}
<1>1. IsWellFoundedOn(R, Nat)
  BY NatLessThanWellFounded DEF OpToRel
<1>2. \A i, j \in Nat : i < j => <<i, j>> \in R
  OBVIOUS
<1> HIDE DEF R
<1>3. PICK n \in S : \A m \in S : ~ (<<m, n>> \in R)
  BY <1>1, WFMin
<1>4. \A m \in S : ~ (m < n)
  BY <1>2, <1>3
<1>5. n = 0 \/ n - 1 \in Nat
  BY <1>3
<1> QED BY <1>3, <1>4, <1>5

LEMMA AmongOne ==
  ASSUME NEW c
  PROVE  Among(<<c>>) = {c}
BY DEF Among

LEMMA AmongNone == Among(<<>>) = {}
BY DEF Among

LEMMA AmongAppended ==
  ASSUME NEW s \in Seq(Players), NEW c \in Players
  PROVE  /\ Append(s, c) \in Seq(Players)
         /\ Among(Append(s, c)) = Among(s) \cup {c}
         /\ Append(s, c) # <<>>
<1>1. Append(s, c) \in Seq(Players) /\ Append(s, c) # <<>>
  BY AppendProperties
<1>2. DOMAIN Append(s, c) = 1..(Len(s) + 1) /\ DOMAIN s = 1..Len(s) /\ Len(s) \in Nat
  OBVIOUS
<1>3. \A i \in 1..Len(s) : Append(s, c)[i] = s[i]
  OBVIOUS
<1>4. Append(s, c)[Len(s) + 1] = c
  OBVIOUS
<1>5. 1..(Len(s) + 1) = 1..Len(s) \cup {Len(s) + 1}
  BY <1>2
<1> QED BY <1>1, <1>2, <1>3, <1>4, <1>5 DEF Among

LEMMA AmongEmpty ==
  ASSUME NEW s \in Seq(Players)
  PROVE  /\ Among(s) \subseteq Players
         /\ s = <<>> <=> Among(s) = {}
         /\ s # <<>> => Head(s) \in Among(s)
<1>1. DOMAIN s = 1..Len(s) /\ Len(s) \in Nat
  OBVIOUS
<1>2. \A i \in 1..Len(s) : s[i] \in Players
  OBVIOUS
<1>3. s # <<>> => 1 \in 1..Len(s) /\ Head(s) = s[1]
  OBVIOUS
<1>4. s # <<>> => Head(s) \in Among(s)
  BY <1>1, <1>3 DEF Among
<1>5. s = <<>> => Among(s) = {}
  BY <1>1 DEF Among
<1>6. Among(s) \subseteq Players
  BY <1>1, <1>2 DEF Among
<1> QED BY <1>4, <1>5, <1>6

(* The list after the i-th of its people, given that after the one before. *)
Sifted(s, gone, list, i) == IF s[i] \in gone THEN list ELSE Append(list, s[i])

Sifting(s, gone, g, n) ==
  g = [i \in 0..n |-> IF i = 0 THEN <<>> ELSE Sifted(s, gone, g[i - 1], i)]

LEMMA SiftingExtends ==
  ASSUME NEW s, NEW gone, NEW n \in Nat, n > 0, NEW g, Sifting(s, gone, g, n - 1)
  PROVE  \E h : Sifting(s, gone, h, n)
<1> DEFINE next(G, i) == Sifted(s, gone, G, i)
           last == next(g[n - 1], n)
           h == [i \in 0..n |-> IF i = n THEN last ELSE g[i]]
<1>1. g = [i \in 0..(n - 1) |-> IF i = 0 THEN <<>> ELSE next(g[i - 1], i)]
  BY Zenon DEF Sifting
<1> HIDE DEF next
<1>2. \A i \in 0..(n - 1) : h[i] = g[i]
  OBVIOUS
<1>3. h[n] = last
  OBVIOUS
<1> HIDE DEF last
<1>4. \A i \in 0..n : h[i] = IF i = 0 THEN <<>> ELSE next(h[i - 1], i)
  <2> TAKE i \in 0..n
  <2>1. CASE i = n
    <3>1. n - 1 \in 0..(n - 1) /\ h[n - 1] = g[n - 1]
      BY <1>2
    <3>2. h[n] = next(h[n - 1], n)
      BY <1>3, <3>1 DEF last
    <3> HIDE DEF h
    <3> QED BY <2>1, <3>2
  <2>2. CASE i # n
    <3>1. i \in 0..(n - 1) /\ (i # 0 => i - 1 \in 0..(n - 1))
      BY <2>2
    <3>2. g[i] = IF i = 0 THEN <<>> ELSE next(g[i - 1], i)
      BY <1>1, <3>1
    <3>3. h[i] = g[i] /\ (i # 0 => h[i - 1] = g[i - 1])
      BY <1>2, <3>1
    <3> HIDE DEF h
    <3> QED BY <3>2, <3>3
  <2> QED BY <2>1, <2>2
<1>5. h = [i \in 0..n |-> h[i]]
  OBVIOUS
<1> HIDE DEF h
<1>6. h = [i \in 0..n |-> IF i = 0 THEN <<>> ELSE next(h[i - 1], i)]
  BY <1>4, <1>5
<1>7. Sifting(s, gone, h, n)
  BY <1>6 DEF Sifting, next
<1> QED BY <1>7

LEMMA SiftingExists ==
  ASSUME NEW s, NEW gone, NEW n \in Nat
  PROVE  \E g : Sifting(s, gone, g, n)
<1> DEFINE Bad == {m \in Nat : ~ \E g : Sifting(s, gone, g, m)}
<1> SUFFICES ASSUME n \in Bad
             PROVE  FALSE
  OBVIOUS
<1>1. PICK m \in Bad : m = 0 \/ (m - 1 \in Nat /\ m - 1 \notin Bad)
  BY FirstBad
<1>2. CASE m = 0
  <2> DEFINE g == [i \in 0..0 |-> <<>>]
  <2>1. g = [i \in 0..0 |-> IF i = 0 THEN <<>> ELSE Sifted(s, gone, g[i - 1], i)]
    OBVIOUS
  <2>2. Sifting(s, gone, g, 0)
    BY <2>1 DEF Sifting
  <2> QED BY <1>1, <1>2, <2>2
<1>3. CASE m # 0
  <2>1. PICK g : Sifting(s, gone, g, m - 1)
    BY <1>1, <1>3
  <2>2. \E h : Sifting(s, gone, h, m)
    BY <1>1, <1>3, <2>1, SiftingExtends
  <2> QED BY <1>1, <2>2
<1> QED BY <1>2, <1>3

(* Rest takes exactly those in `gone` off a list.                          *)
LEMMA RestIsRest ==
  ASSUME NEW s \in Seq(Players), NEW gone
  PROVE  Rest(s, gone) \in Seq(Players) /\ Among(Rest(s, gone)) = Among(s) \ gone
<1> DEFINE g == CHOOSE h : Sifting(s, gone, h, Len(s))
           Bad == {i \in Nat : /\ i <= Len(s)
                               /\ ~ (/\ g[i] \in Seq(Players)
                                     /\ Among(g[i]) = {s[j] : j \in 1..i} \ gone)}
<1>0. Len(s) \in Nat /\ DOMAIN s = 1..Len(s) /\ \A i \in 1..Len(s) : s[i] \in Players
  OBVIOUS
<1>1. Sifting(s, gone, g, Len(s))
  <2>1. \E h : Sifting(s, gone, h, Len(s))
    BY <1>0, SiftingExists
  <2> QED BY <2>1, Zenon
<1>2. Rest(s, gone) = g[Len(s)]
  BY Zenon DEF Rest, Sifting, Sifted
<1> HIDE DEF g
<1>3. g = [i \in 0..Len(s) |-> IF i = 0 THEN <<>> ELSE Sifted(s, gone, g[i - 1], i)]
  BY <1>1, Zenon DEF Sifting
<1>4. Bad = {}
  <2> SUFFICES ASSUME Bad # {}
               PROVE  FALSE
    OBVIOUS
  <2>1. PICK i \in Bad : i = 0 \/ (i - 1 \in Nat /\ i - 1 \notin Bad)
    BY FirstBad
  <2>2. i \in 0..Len(s)
    BY <1>0, <2>1
  <2>3. CASE i = 0
    <3>1. g[0] = <<>>
      BY <1>3, <2>2, <2>3
    <3>2. Among(<<>>) = {} /\ <<>> \in Seq(Players)
      BY AmongNone
    <3>3. {s[j] : j \in 1..0} \ gone = {}
      OBVIOUS
    <3> QED BY <2>1, <2>3, <3>1, <3>2, <3>3
  <2>4. CASE i # 0
    <3>1. i - 1 \in 0..Len(s) /\ g[i - 1] \in Seq(Players)
          /\ Among(g[i - 1]) = {s[j] : j \in 1..(i - 1)} \ gone
      BY <1>0, <2>1, <2>2, <2>4
    <3>2. g[i] = Sifted(s, gone, g[i - 1], i)
      BY <1>3, <2>2, <2>4
    <3>3. s[i] \in Players
      BY <1>0, <2>2, <2>4
    <3>4. {s[j] : j \in 1..i} = {s[j] : j \in 1..(i - 1)} \cup {s[i]}
      <4>1. 1..i = 1..(i - 1) \cup {i}
        BY <2>2, <2>4
      <4> QED BY <4>1
    <3>5. g[i] \in Seq(Players) /\ Among(g[i]) = {s[j] : j \in 1..i} \ gone
      <4>1. CASE s[i] \in gone
        BY <3>1, <3>2, <3>4, <4>1 DEF Sifted
      <4>2. CASE s[i] \notin gone
        <5>1. Among(Append(g[i - 1], s[i])) = Among(g[i - 1]) \cup {s[i]}
              /\ Append(g[i - 1], s[i]) \in Seq(Players)
          BY <3>1, <3>3, AmongAppended
        <5> QED BY <3>1, <3>2, <3>4, <4>2, <5>1 DEF Sifted
      <4> QED BY <4>1, <4>2
    <3> QED BY <2>1, <3>5
  <2> QED BY <2>3, <2>4
<1>5. g[Len(s)] \in Seq(Players) /\ Among(g[Len(s)]) = {s[j] : j \in 1..Len(s)} \ gone
  <2>1. Len(s) \in Nat /\ Len(s) <= Len(s)
    BY <1>0
  <2>2. Len(s) \notin Bad
    BY <1>4
  <2> QED BY <2>1, <2>2
<1> QED BY <1>0, <1>2, <1>5 DEF Among

-----------------------------------------------------------------------------
(* A board some people are taken off.                                      *)
Leads(L, gone, l) == HeirOf(l, L[l], gone)
Survives(L, gone, l) == Among(L[l]) \ gone # {}
Picked(S) == CHOOSE l \in S : TRUE
From(L, gone, k) == {l \in Players : Rest(L[l], gone) # <<>> /\ HeirOf(l, L[l], gone) = k}

LEMMA HeirIsThere ==
  ASSUME NEW L, Filed(L), NEW gone, NEW l \in Players
  PROVE  /\ Rest(L[l], gone) \in Seq(Players)
         /\ Among(Rest(L[l], gone)) = Among(L[l]) \ gone
         /\ Rest(L[l], gone) # <<>> <=> Survives(L, gone, l)
         /\ Survives(L, gone, l) =>
              Leads(L, gone, l) \in Among(L[l]) \ gone /\ Leads(L, gone, l) \in Players
         /\ l \notin gone => Leads(L, gone, l) = l
<1> DEFINE rest == Rest(L[l], gone)
<1>1. L[l] \in Seq(Players)
  BY DEF Filed
<1>2. rest \in Seq(Players) /\ Among(rest) = Among(L[l]) \ gone
  BY <1>1, RestIsRest
<1> HIDE DEF rest
<1>3. Among(rest) \subseteq Players /\ (rest = <<>> <=> Among(rest) = {})
      /\ (rest # <<>> => Head(rest) \in Among(rest))
  BY <1>2, AmongEmpty
<1>4. Among(L[l]) # {} => l \in Among(L[l])
  BY <1>1, AmongEmpty DEF Filed
<1>5. Leads(L, gone, l) = IF l \in gone THEN Head(rest) ELSE l
  BY DEF Leads, HeirOf, rest
<1>6. Survives(L, gone, l) <=> rest # <<>>
  BY <1>2, <1>3 DEF Survives
<1>7. Survives(L, gone, l) => Leads(L, gone, l) \in Among(L[l]) \ gone
  BY <1>2, <1>3, <1>4, <1>5, <1>6 DEF Survives
<1>8. Survives(L, gone, l) => Leads(L, gone, l) \in Players
  BY <1>2, <1>3, <1>7
<1> QED BY <1>2, <1>5, <1>6, <1>7, <1>8 DEF rest

LEMMA HeirsDiffer ==
  ASSUME NEW L, Filed(L), NEW gone, NEW l \in Players, NEW k \in Players,
         Survives(L, gone, l), Survives(L, gone, k), Leads(L, gone, l) = Leads(L, gone, k)
  PROVE  l = k
<1>1. Leads(L, gone, l) \in Among(L[l]) /\ Leads(L, gone, k) \in Among(L[k])
  BY HeirIsThere
<1> QED BY <1>1 DEF Filed

LEMMA FromIsOne ==
  ASSUME NEW L, Filed(L), NEW gone, NEW k
  PROVE  /\ From(L, gone, k) = {l \in Players : Survives(L, gone, l) /\ Leads(L, gone, l) = k}
         /\ \A l \in From(L, gone, k) : Picked(From(L, gone, k)) = l
<1>1. From(L, gone, k) = {l \in Players : Survives(L, gone, l) /\ Leads(L, gone, l) = k}
  BY HeirIsThere DEF From, Leads
<1>2. \A l, m \in From(L, gone, k) : l = m
  BY <1>1, HeirsDiffer
<1> QED BY <1>1, <1>2 DEF Picked

(* What it leaves of one list, at whoever leads it now.                    *)
PartedList(L, M, gone) ==
  /\ M \in [Players -> Seq(Players)]
  /\ \A k \in Players : M[k] # <<>> =>
       \E l \in Players : Survives(L, gone, l) /\ k = Leads(L, gone, l) /\ M[k] = Rest(L[l], gone)
  /\ \A l \in Players : Survives(L, gone, l) => M[Leads(L, gone, l)] = Rest(L[l], gone)

LEMMA PartedIsFiled ==
  ASSUME NEW L, Filed(L), NEW M, NEW gone, PartedList(L, M, gone)
  PROVE  Filed(M)
<1>1. ASSUME NEW k \in Players, M[k] # <<>>
      PROVE  k \in Among(M[k])
  <2>1. PICK l \in Players : Survives(L, gone, l) /\ k = Leads(L, gone, l) /\ M[k] = Rest(L[l], gone)
    BY <1>1 DEF PartedList
  <2> QED BY <2>1, HeirIsThere
<1>2. ASSUME NEW j \in Players, NEW k \in Players, NEW c \in Among(M[j]), c \in Among(M[k])
      PROVE  j = k
  <2>1. M[j] # <<>> /\ M[k] # <<>>
    BY <1>2, AmongNone
  <2>2. PICK l \in Players : Survives(L, gone, l) /\ j = Leads(L, gone, l) /\ M[j] = Rest(L[l], gone)
    BY <2>1 DEF PartedList
  <2>3. PICK m \in Players : Survives(L, gone, m) /\ k = Leads(L, gone, m) /\ M[k] = Rest(L[m], gone)
    BY <2>1 DEF PartedList
  <2>4. Among(M[j]) = Among(L[l]) \ gone /\ Among(M[k]) = Among(L[m]) \ gone
    <3>1. /\ Among(Rest(L[l], gone)) = Among(L[l]) \ gone
          /\ Among(Rest(L[m], gone)) = Among(L[m]) \ gone
      BY HeirIsThere
    <3> QED BY <2>2, <2>3, <3>1
  <2>5. l = m
    BY <1>2, <2>4 DEF Filed
  <2> QED BY <2>2, <2>3, <2>5
<1> QED BY <1>1, <1>2 DEF Filed, PartedList

(* Who is on what is left of it.                                           *)
LEMMA PartedHas ==
  ASSUME NEW L, Filed(L), NEW M, NEW gone, PartedList(L, M, gone)
  PROVE  /\ \A c \in Players, k \in Players : c \in Among(M[k]) =>
              c \notin gone /\ \E l \in Players : c \in Among(L[l]) /\ Survives(L, gone, l)
                                                /\ k = Leads(L, gone, l)
         /\ \A c \in Players, l \in Players : c \in Among(L[l]) \ gone =>
              Survives(L, gone, l) /\ c \in Among(M[Leads(L, gone, l)])
         /\ \A l \in Players \ gone : L[l] # <<>> => M[l] # <<>>
<1>1. ASSUME NEW c \in Players, NEW k \in Players, c \in Among(M[k])
      PROVE  c \notin gone /\ \E l \in Players : c \in Among(L[l]) /\ Survives(L, gone, l)
                                                 /\ k = Leads(L, gone, l)
  <2>1. M[k] # <<>>
    BY <1>1, AmongNone
  <2>2. PICK l \in Players : Survives(L, gone, l) /\ k = Leads(L, gone, l) /\ M[k] = Rest(L[l], gone)
    BY <2>1 DEF PartedList
  <2> QED BY <1>1, <2>2, HeirIsThere
<1>2. ASSUME NEW c \in Players, NEW l \in Players, c \in Among(L[l]) \ gone
      PROVE  Survives(L, gone, l) /\ c \in Among(M[Leads(L, gone, l)])
  <2>1. Survives(L, gone, l)
    BY <1>2 DEF Survives
  <2>2. M[Leads(L, gone, l)] = Rest(L[l], gone)
    BY <2>1 DEF PartedList
  <2> QED BY <1>2, <2>1, <2>2, HeirIsThere
<1>3. ASSUME NEW l \in Players \ gone, L[l] # <<>>
      PROVE  M[l] # <<>>
  <2>1. l \in Among(L[l]) \ gone /\ Leads(L, gone, l) = l
    BY <1>3, HeirIsThere DEF Filed
  <2>2. l \in Among(M[l])
    BY <1>2, <2>1
  <2> QED BY <2>2, AmongNone
<1> QED BY <1>1, <1>2, <1>3

LEMMA ChatsPart ==
  ASSUME Filed(chats), NEW gone
  PROVE  PartedList(chats, PartChat(gone), gone)
<1> DEFINE at(k) == IF From(chats, gone, k) = {} THEN <<>>
                    ELSE Rest(chats[Picked(From(chats, gone, k))], gone)
           M == PartChat(gone)
<1>1. M = [k \in Players |-> at(k)]
  BY Zenon DEF PartChat, From, Picked
<1>2. ASSUME NEW k \in Players, NEW l \in Players, Survives(chats, gone, l), k = Leads(chats, gone, l)
      PROVE  at(k) = Rest(chats[l], gone)
  <2>1. l \in From(chats, gone, k)
    BY <1>2, FromIsOne
  <2>2. Picked(From(chats, gone, k)) = l
    BY <2>1, FromIsOne
  <2> QED BY <2>1, <2>2
<1>3. ASSUME NEW k \in Players
      PROVE  \/ at(k) = <<>>
             \/ \E l \in Players : Survives(chats, gone, l) /\ k = Leads(chats, gone, l) /\ at(k) = Rest(chats[l], gone)
  <2>1. CASE From(chats, gone, k) = {}
    BY <2>1
  <2>2. CASE From(chats, gone, k) # {}
    <3>1. PICK l \in Players : Survives(chats, gone, l) /\ Leads(chats, gone, l) = k
      BY <2>2, FromIsOne
    <3>2. at(k) = Rest(chats[l], gone)
      BY <1>2, <3>1
    <3> QED BY <3>1, <3>2
  <2> QED BY <2>1, <2>2
<1> HIDE DEF at, M
<1>4. \A k \in Players : at(k) \in Seq(Players)
  <2> TAKE k \in Players
  <2>1. CASE at(k) = <<>>
    BY <2>1
  <2>2. CASE at(k) # <<>>
    <3>1. PICK l \in Players : at(k) = Rest(chats[l], gone)
      BY <1>3, <2>2
    <3>2. Rest(chats[l], gone) \in Seq(Players)
      BY HeirIsThere
    <3> QED BY <3>1, <3>2
  <2> QED BY <2>1, <2>2
<1>5. M \in [Players -> Seq(Players)] /\ \A k \in Players : M[k] = at(k)
  BY <1>1, <1>4
<1>6. \A l \in Players : Survives(chats, gone, l) => M[Leads(chats, gone, l)] = Rest(chats[l], gone)
  BY <1>2, <1>5, HeirIsThere
<1>7. PartedList(chats, M, gone)
  BY <1>3, <1>5, <1>6 DEF PartedList
<1> QED BY <1>7 DEF M

(* A room without those in `gone`.                                         *)
LEMMA RoomParts ==
  ASSUME NEW room \in RoomType, room.ready \cup room.sideA \subseteq Ids(room), NEW gone
  PROVE  /\ PartRoom(room, gone) \in RoomType
         /\ PartRoom(room, gone).members = Rest(room.members, gone)
         /\ PartRoom(room, gone).ready = room.ready \ gone
         /\ PartRoom(room, gone).sideA = room.sideA \ gone
         /\ Ids(PartRoom(room, gone)) = Ids(room) \ gone
<1>1. room.members \in Seq(Players) /\ room.ready \subseteq Players /\ room.sideA \subseteq Players
  BY DEF RoomType
<1>2. /\ Rest(room.members, gone) \in Seq(Players)
      /\ Among(Rest(room.members, gone)) = Among(room.members) \ gone
  BY <1>1, RestIsRest
<1>3. PartRoom(room, gone) \in RoomType
  BY <1>1, <1>2 DEF PartRoom, RoomType
<1> QED BY <1>2, <1>3 DEF PartRoom, Ids, Among

LEMMA NoRoomIsEmpty ==
  NoRoom \in RoomType /\ NoRoom.members = <<>> /\ Ids(NoRoom) = {}
  /\ NoRoom.ready = {} /\ NoRoom.sideA = {} /\ Rows(NoRoom) = {}
<1>1. NoRoom.members = <<>> /\ NoRoom.ready = {} /\ NoRoom.sideA = {}
  BY DEF NoRoom
<1>2. Ids(NoRoom) = {}
  BY <1>1 DEF Ids
<1>3. NoRoom \in RoomType
  BY DEF NoRoom, RoomType
<1> QED BY <1>1, <1>2, <1>3 DEF Rows

PartedRooms(R, gone) ==
  /\ R \in [Players -> RoomType]
  /\ PartedList(Lists(training), Lists(R), gone)
  /\ \A l \in Players : Survives(Lists(training), gone, l) =>
       R[Leads(Lists(training), gone, l)] = PartRoom(training[l], gone)
  /\ \A k \in Players :
       \/ R[k] = NoRoom
       \/ \E l \in Players : /\ Survives(Lists(training), gone, l)
                             /\ k = Leads(Lists(training), gone, l)
                             /\ R[k] = PartRoom(training[l], gone)

LEMMA TrainingParts ==
  ASSUME RoomsTyped, Filed(Lists(training)), NEW gone
  PROVE  PartedRooms(PartTraining(gone), gone)
<1> DEFINE T == Lists(training)
           at(k) == IF From(T, gone, k) = {} THEN NoRoom
                    ELSE PartRoom(training[Picked(From(T, gone, k))], gone)
           R == PartTraining(gone)
<1>1. T \in [Players -> Seq(Players)] /\ \A l \in Players : T[l] = training[l].members
  BY DEF Lists, RoomsTyped, RoomType
<1>2. R = [k \in Players |-> at(k)]
  <2> DEFINE heirs(k) == {l \in Players : /\ Rest(training[l].members, gone) # <<>>
                                         /\ HeirOf(l, training[l].members, gone) = k}
             was(k) == IF heirs(k) = {} THEN NoRoom
                       ELSE PartRoom(training[Picked(heirs(k))], gone)
  <2>1. R = [k \in Players |-> was(k)]
    BY Zenon DEF PartTraining, Picked
  <2>2. \A k : heirs(k) = From(T, gone, k)
    BY <1>1 DEF From
  <2> HIDE DEF heirs, T
  <2>3. \A k : was(k) = at(k)
    BY <2>2
  <2> HIDE DEF was, at
  <2> QED BY <2>1, <2>3
<1> HIDE DEF T
<1>3. Filed(T)
  BY DEF T
<1>4. ASSUME NEW k \in Players, NEW l \in Players, Survives(T, gone, l), k = Leads(T, gone, l)
      PROVE  at(k) = PartRoom(training[l], gone)
  <2>1. l \in From(T, gone, k)
    BY <1>3, <1>4, FromIsOne
  <2>2. Picked(From(T, gone, k)) = l
    BY <1>3, <2>1, FromIsOne
  <2> QED BY <2>1, <2>2
<1>5. ASSUME NEW k \in Players
      PROVE  \/ at(k) = NoRoom
             \/ \E l \in Players : /\ Survives(T, gone, l) /\ k = Leads(T, gone, l)
                                   /\ at(k) = PartRoom(training[l], gone)
  <2>1. CASE From(T, gone, k) = {}
    BY <2>1
  <2>2. CASE From(T, gone, k) # {}
    <3>1. PICK l \in Players : Survives(T, gone, l) /\ Leads(T, gone, l) = k
      BY <1>3, <2>2, FromIsOne
    <3>2. at(k) = PartRoom(training[l], gone)
      BY <1>4, <3>1
    <3> QED BY <3>1, <3>2
  <2> QED BY <2>1, <2>2
<1> HIDE DEF at, R
<1>6. \A l \in Players : PartRoom(training[l], gone) \in RoomType
                         /\ PartRoom(training[l], gone).members = Rest(T[l], gone)
  BY <1>1, RoomParts DEF RoomsTyped
<1>7. \A k \in Players : at(k) \in RoomType
  <2> TAKE k \in Players
  <2>1. CASE at(k) = NoRoom
    BY <2>1, NoRoomIsEmpty
  <2>2. CASE at(k) # NoRoom
    <3>1. PICK l \in Players : at(k) = PartRoom(training[l], gone)
      BY <1>5, <2>2
    <3> QED BY <1>6, <3>1
  <2> QED BY <2>1, <2>2
<1>8. R \in [Players -> RoomType] /\ \A k \in Players : R[k] = at(k)
  BY <1>2, <1>7
<1>9. \A l \in Players : Survives(T, gone, l) => R[Leads(T, gone, l)] = PartRoom(training[l], gone)
  <2> TAKE l \in Players
  <2>1. Survives(T, gone, l) => Leads(T, gone, l) \in Players
    BY <1>3, HeirIsThere
  <2> QED BY <1>4, <1>8, <2>1
<1>10. PartedList(T, Lists(R), gone)
  <2>1. Lists(R) \in [Players -> Seq(Players)] /\ \A k \in Players : Lists(R)[k] = R[k].members
    BY <1>8 DEF Lists, RoomType
  <2>2. ASSUME NEW k \in Players, R[k].members # <<>>
        PROVE  \E l \in Players : Survives(T, gone, l) /\ k = Leads(T, gone, l)
                                  /\ R[k].members = Rest(T[l], gone)
    <3>1. R[k] # NoRoom
      BY <2>2, NoRoomIsEmpty
    <3>2. PICK l \in Players : /\ Survives(T, gone, l) /\ k = Leads(T, gone, l)
                               /\ at(k) = PartRoom(training[l], gone)
      BY <1>5, <1>8, <3>1
    <3> QED BY <1>6, <1>8, <3>2
  <2>3. ASSUME NEW l \in Players, Survives(T, gone, l)
        PROVE  R[Leads(T, gone, l)].members = Rest(T[l], gone) /\ Leads(T, gone, l) \in Players
    BY <1>3, <1>6, <1>9, <2>3, HeirIsThere
  <2>4. \A k \in Players : Lists(R)[k] # <<>> =>
          \E l \in Players : /\ Survives(T, gone, l) /\ k = Leads(T, gone, l)
                            /\ Lists(R)[k] = Rest(T[l], gone)
    <3> TAKE k \in Players
    <3>1. Lists(R)[k] = R[k].members
      BY <2>1
    <3> QED BY <2>2, <3>1
  <2>5. \A l \in Players : Survives(T, gone, l) => Lists(R)[Leads(T, gone, l)] = Rest(T[l], gone)
    BY <2>1, <2>3
  <2> QED BY <2>1, <2>4, <2>5 DEF PartedList
<1>11. PartedList(Lists(training), Lists(R), gone)
  BY <1>10 DEF T
<1>12. \A l \in Players : Survives(Lists(training), gone, l) =>
         R[Leads(Lists(training), gone, l)] = PartRoom(training[l], gone)
  BY <1>9 DEF T
<1>13. ASSUME NEW k \in Players
       PROVE  \/ R[k] = NoRoom
              \/ \E l \in Players : /\ Survives(Lists(training), gone, l)
                                    /\ k = Leads(Lists(training), gone, l)
                                    /\ R[k] = PartRoom(training[l], gone)
  <2>1. R[k] = at(k)
    BY <1>8
  <2> QED BY <1>5, <2>1 DEF T
<1>14. PartedRooms(R, gone)
  BY <1>8, <1>11, <1>12, <1>13 DEF PartedRooms
<1> QED BY <1>14 DEF R

-----------------------------------------------------------------------------
(* The two sides of a room.                                                *)
LEMMA AmongFinite ==
  ASSUME NEW s \in Seq(Players)
  PROVE  IsFiniteSet(Among(s)) /\ Cardinality(Among(s)) <= Len(s) /\ Cardinality(Among(s)) \in Nat
<1>1. Len(s) \in Nat /\ DOMAIN s = 1..Len(s)
  OBVIOUS
<1>2. IsFiniteSet(1..Len(s)) /\ Cardinality(1..Len(s)) = Len(s)
  <2>1. 1 \in Int /\ Len(s) \in Int
    BY <1>1
  <2>2. IsFiniteSet(1..Len(s)) /\ Cardinality(1..Len(s)) = IF 1 > Len(s) THEN 0 ELSE Len(s) - 1 + 1
    BY <2>1, FS_Interval
  <2> QED BY <1>1, <2>2
<1>3. s \in Surjection(1..Len(s), Among(s))
  <2>1. s \in [1..Len(s) -> Among(s)]
    <3>1. s \in [1..Len(s) -> Players]
      OBVIOUS
    <3>2. \A i \in 1..Len(s) : s[i] \in Among(s)
      BY <1>1 DEF Among
    <3> QED BY <3>1, <3>2
  <2>2. \A c \in Among(s) : \E i \in 1..Len(s) : s[i] = c
    BY <1>1 DEF Among
  <2> QED BY <2>1, <2>2 DEF Surjection
<1>4. IsFiniteSet(Among(s)) /\ Cardinality(Among(s)) <= Cardinality(1..Len(s))
  BY <1>2, <1>3, FS_Surjection
<1> QED BY <1>1, <1>2, <1>4, FS_CardinalityType

Fits(room) == \A a \in BOOLEAN : Cardinality(Side(room, a)) <= TeamMax

LEMMA SideIsFinite ==
  ASSUME NEW room \in RoomType, room.sideA \subseteq Ids(room), NEW a
  PROVE  /\ Side(room, a) \subseteq Ids(room) /\ IsFiniteSet(Ids(room)) /\ IsFiniteSet(Side(room, a))
         /\ Cardinality(Side(room, a)) \in Nat /\ Cardinality(Ids(room)) \in Nat
         /\ Cardinality(Ids(room)) <= Len(room.members)
<1>1. room.members \in Seq(Players) /\ Ids(room) = Among(room.members)
  BY DEF RoomType, Ids, Among
<1>2. IsFiniteSet(Ids(room)) /\ Cardinality(Ids(room)) <= Len(room.members)
  BY <1>1, AmongFinite
<1>3. Side(room, a) \subseteq Ids(room)
  BY DEF Side
<1>4. IsFiniteSet(Side(room, a))
  BY <1>2, <1>3, FS_Subset
<1> QED BY <1>2, <1>3, <1>4, FS_CardinalityType

LEMMA TeamLimits == TeamMax \in Nat /\ TeamMax >= 1 /\ Limit \in Nat /\ Limit <= 2 * TeamMax
BY TownAssumption

(* Fewer people, on the sides they were on.                                *)
LEMMA FewerFit ==
  ASSUME NEW room \in RoomType, room.sideA \subseteq Ids(room), Fits(room),
         NEW after, \A a \in BOOLEAN : Side(after, a) \subseteq Side(room, a)
  PROVE  Fits(after)
<1>1. ASSUME NEW a \in BOOLEAN
      PROVE  Cardinality(Side(after, a)) <= TeamMax
  <2> DEFINE S == Side(room, a)
             T == Side(after, a)
  <2>1. IsFiniteSet(S) /\ T \in SUBSET S /\ Cardinality(S) <= TeamMax
    BY SideIsFinite DEF Fits
  <2> HIDE DEF S, T
  <2>2. IsFiniteSet(T) /\ Cardinality(T) <= Cardinality(S)
    BY <2>1, FS_Subset
  <2>3. Cardinality(T) \in Nat /\ Cardinality(S) \in Nat
    BY <2>1, <2>2, FS_CardinalityType
  <2>4. Cardinality(T) <= TeamMax
    BY <2>1, <2>2, <2>3, TeamLimits
  <2> QED BY <2>4 DEF T
<1> QED BY <1>1 DEF Fits

LEMMA PartFits ==
  ASSUME NEW room \in RoomType, room.ready \cup room.sideA \subseteq Ids(room), Fits(room), NEW gone
  PROVE  Fits(PartRoom(room, gone))
<1>1. \A a \in BOOLEAN : Side(PartRoom(room, gone), a) = Side(room, a) \ gone
  BY RoomParts DEF Side
<1> QED BY <1>1, FewerFit

LEMMA OneMoreFits ==
  ASSUME NEW S, IsFiniteSet(S), Cardinality(S) < TeamMax, NEW c
  PROVE  Cardinality(S \cup {c}) <= TeamMax
BY FS_AddElement, FS_CardinalityType, TeamLimits

(* A joiner takes the smaller side, and there is room on it.               *)
LEMMA SeatedFits ==
  ASSUME NEW room \in RoomType, room.ready \cup room.sideA \subseteq Ids(room), Fits(room),
         Len(room.members) < Limit, NEW p \in Players, p \notin Ids(room)
  PROVE  /\ Seated(room, p) \in RoomType
         /\ Seated(room, p).members = Append(room.members, p)
         /\ Ids(Seated(room, p)) = Ids(room) \cup {p}
         /\ Seated(room, p).ready = room.ready
         /\ Seated(room, p).sideA \ {p} = room.sideA
         /\ Seated(room, p).ready \cup Seated(room, p).sideA \subseteq Ids(Seated(room, p))
         /\ Fits(Seated(room, p))
<1> DEFINE after == Seated(room, p)
           members == Append(room.members, p)
           sideA == IF JoinsSideA(room) THEN room.sideA \cup {p} ELSE room.sideA
<1>1. room.members \in Seq(Players) /\ room.ready \subseteq Players /\ room.sideA \subseteq Players
      /\ Len(room.members) \in Nat /\ Ids(room) = Among(room.members)
  BY DEF RoomType, Ids, Among
<1>2. members \in Seq(Players) /\ Among(members) = Among(room.members) \cup {p}
  BY <1>1, AmongAppended
<1>3. sideA \subseteq Players
  BY <1>1
<1>4. after = [room EXCEPT !.members = members, !.sideA = sideA]
  BY DEF Seated
<1> HIDE DEF members
<1>5. after \in RoomType /\ after.members = members /\ after.ready = room.ready /\ after.sideA = sideA
  <2> HIDE DEF sideA, after
  <2> QED BY <1>2, <1>3, <1>4 DEF RoomType
<1> HIDE DEF after
<1>6. Ids(after) = Ids(room) \cup {p}
  BY <1>1, <1>2, <1>5 DEF Ids, Among
<1>7. after.sideA \ {p} = room.sideA /\ after.ready \cup after.sideA \subseteq Ids(after)
  BY <1>5, <1>6
<1>8. Fits(after)
  <2> DEFINE A == room.sideA
             B == Ids(room) \ room.sideA
  <2>1. /\ IsFiniteSet(Ids(room)) /\ IsFiniteSet(A) /\ IsFiniteSet(B)
        /\ Cardinality(A) \in Nat /\ Cardinality(B) \in Nat
        /\ Cardinality(Ids(room)) \in Nat /\ Cardinality(Ids(room)) <= Len(room.members)
    <3>1. Side(room, TRUE) = A /\ Side(room, FALSE) = B
      BY DEF Side
    <3> QED BY <3>1, SideIsFinite
  <2>2. Cardinality(A) + Cardinality(B) = Cardinality(Ids(room))
    <3>1. Cardinality(Ids(room) \ A) = Cardinality(Ids(room)) - Cardinality(Ids(room) \cap A)
      BY <2>1, FS_Difference
    <3>2. Ids(room) \cap A = A
      OBVIOUS
    <3> DEFINE a == Cardinality(A)
               b == Cardinality(B)
               n == Cardinality(Ids(room))
    <3>3. b = n - a /\ a \in Nat /\ b \in Nat /\ n \in Nat
      BY <2>1, <3>1, <3>2
    <3> HIDE DEF a, b, n
    <3>4. a + b = n
      BY <3>3
    <3> QED BY <3>4 DEF a, b, n
  <2>3. Cardinality(A) <= TeamMax /\ Cardinality(B) <= TeamMax
    <3>1. Side(room, TRUE) = A /\ Side(room, FALSE) = B
      BY DEF Side
    <3> QED BY <3>1 DEF Fits
  <2>4. JoinsSideA(room) <=> Cardinality(A) <= Cardinality(B)
    BY DEF JoinsSideA
  <2>5. CASE JoinsSideA(room)
    <3>1. Side(after, TRUE) = A \cup {p} /\ Side(after, FALSE) = B
      BY <1>5, <1>6, <2>5 DEF Side
    <3> HIDE DEF A, B
    <3>2. Cardinality(A) < TeamMax
      BY <1>1, <2>1, <2>2, <2>4, <2>5, TeamLimits
    <3>3. Cardinality(A \cup {p}) <= TeamMax
      BY <2>1, <3>2, OneMoreFits
    <3> QED BY <2>3, <3>1, <3>3 DEF Fits
  <2>6. CASE ~JoinsSideA(room)
    <3>1. Side(after, TRUE) = A /\ Side(after, FALSE) = B \cup {p}
      BY <1>5, <1>6, <2>6 DEF Side
    <3> HIDE DEF A, B
    <3>2. Cardinality(B) < TeamMax
      BY <1>1, <2>1, <2>2, <2>3, <2>4, <2>6, TeamLimits
    <3>3. Cardinality(B \cup {p}) <= TeamMax
      BY <2>1, <3>2, OneMoreFits
    <3> QED BY <2>3, <3>1, <3>3 DEF Fits
  <2> QED BY <2>5, <2>6
<1> QED BY <1>5, <1>6, <1>7, <1>8 DEF after, members

-----------------------------------------------------------------------------
(* What happens to the training rooms.                                     *)
LEMMA RowsAre ==
  ASSUME NEW room, NEW c
  PROVE  /\ Row(room, c) = <<c, c \in room.sideA, c \in room.ready>>
         /\ Row(room, c)[1] = c
         /\ c \in Ids(room) => Row(room, c) \in Rows(room)
         /\ \A r \in Rows(room) : r[1] \in Ids(room) /\ r = Row(room, r[1])
<1>1. \A d : Row(room, d)[1] = d
  BY DEF Row
<1>2. \A r \in Rows(room) : r[1] \in Ids(room) /\ r = Row(room, r[1])
  <2> TAKE r \in Rows(room)
  <2>1. PICK d \in Ids(room) : r = Row(room, d)
    BY Zenon DEF Rows
  <2> QED BY <1>1, <2>1
<1>3. c \in Ids(room) => Row(room, c) \in Rows(room)
  BY Zenon DEF Rows
<1>4. Row(room, c) = <<c, c \in room.sideA, c \in room.ready>>
  BY Zenon DEF Row
<1> QED BY <1>1, <1>2, <1>3, <1>4

LEMMA RowsTyped ==
  ASSUME NEW room \in RoomType
  PROVE  /\ Ids(room) \subseteq Players
         /\ Rows(room) \subseteq Players \X BOOLEAN \X BOOLEAN
<1>1. Ids(room) \subseteq Players
  BY DEF RoomType, Ids
<1>2. \A c \in Players : Row(room, c) \in Players \X BOOLEAN \X BOOLEAN
  <2> TAKE c \in Players
  <2> DEFINE a == c \in room.sideA
             b == c \in room.ready
  <2>1. a \in BOOLEAN /\ b \in BOOLEAN
    OBVIOUS
  <2>2. Row(room, c) = <<c, a, b>>
    BY Zenon DEF Row
  <2> HIDE DEF a, b
  <2> QED BY <2>1, <2>2
<1>3. \A r \in Rows(room) : r[1] \in Ids(room) /\ r = Row(room, r[1])
  BY RowsAre
<1> QED BY <1>1, <1>2, <1>3

(* Rooms in a window: the same people as rows say the same.                *)
LEMMA RowsAgree ==
  ASSUME NEW rows, NEW room, \A c \in Ids(room) : Row(room, c) \in rows,
         \A r \in rows : r[1] \in Ids(room) /\ r = Row(room, r[1])
  PROVE  rows = Rows(room)
<1>1. \A r \in Rows(room) : r[1] \in Ids(room) /\ r = Row(room, r[1])
  BY RowsAre
<1>2. \A c \in Ids(room) : Row(room, c) \in Rows(room)
  BY RowsAre
<1> QED BY <1>1, <1>2

LEMMA RoomsAreFiled ==
  ASSUME TrainingInv
  PROVE  /\ \A l \in Players : /\ training[l] \in RoomType /\ Ids(training[l]) \subseteq Players
                               /\ training[l].members \in Seq(Players)
                               /\ Lists(training)[l] = training[l].members
                               /\ Ids(training[l]) = Among(Lists(training)[l])
                               /\ training[l].ready \cup training[l].sideA \subseteq Ids(training[l])
                               /\ training[l].members # <<>> => l \in Ids(training[l])
                               /\ training[l].members = <<>> <=> Ids(training[l]) = {}
                               /\ Fits(training[l])
         /\ \A l, k \in Players : \A c : c \in Ids(training[l]) /\ c \in Ids(training[k]) => l = k
<1>1. Filed(Lists(training)) /\ RoomsTyped
  BY DEF TrainingInv
<1>2. ASSUME NEW l \in Players
      PROVE  /\ training[l] \in RoomType /\ training[l].members \in Seq(Players)
             /\ Lists(training)[l] = training[l].members
             /\ Ids(training[l]) = Among(Lists(training)[l])
             /\ training[l].ready \cup training[l].sideA \subseteq Ids(training[l])
  BY <1>1 DEF RoomsTyped, RoomType, Lists, Ids, Among
<1>3. \A l \in Players : Ids(training[l]) \subseteq Players
                         /\ (training[l].members = <<>> <=> Ids(training[l]) = {})
  BY <1>2, AmongEmpty
<1>4. \A l \in Players : training[l].members # <<>> => l \in Ids(training[l])
  BY <1>1, <1>2 DEF Filed
<1>5. \A l, k \in Players : \A c : c \in Ids(training[l]) /\ c \in Ids(training[k]) => l = k
  BY <1>1, <1>2 DEF Filed
<1>6. \A l \in Players : Fits(training[l])
  BY DEF TrainingInv, SidesFit, Fits
<1> QED BY <1>2, <1>3, <1>4, <1>5, <1>6

(* The window of everybody shows only who is in a room with them.          *)
LEMMA RosterIs ==
  ASSUME TrainingInv, NEW q \in Players, NEW l \in Players, q \in Ids(training[l])
  PROVE  roster[q] = Rows(training[l])
BY DEF TrainingInv, RosterShows

(* A person's room, whichever way it came about: rooms typed and filed.     *)
LEMMA RoomsFrom ==
  ASSUME NEW R, R \in [Players -> RoomType],
         \A l \in Players : /\ R[l].ready \cup R[l].sideA \subseteq Ids(R[l])
                            /\ R[l].members # <<>> => l \in Ids(R[l])
                            /\ Fits(R[l]),
         \A l, k \in Players : \A c : c \in Ids(R[l]) /\ c \in Ids(R[k]) => l = k
  PROVE  Filed(Lists(R))
<1>1. \A l \in Players : /\ Lists(R)[l] = R[l].members /\ R[l].members \in Seq(Players)
                         /\ Ids(R[l]) = Among(Lists(R)[l])
  BY DEF Lists, RoomType, Ids, Among
<1>2. Lists(R) \in [Players -> Seq(Players)]
  BY DEF Lists, RoomType
<1>3. \A l \in Players : Lists(R)[l] # <<>> => l \in Among(Lists(R)[l])
  BY <1>1
<1>4. \A l, k \in Players : l # k => Among(Lists(R)[l]) \cap Among(Lists(R)[k]) = {}
  <2> SUFFICES ASSUME NEW l \in Players, NEW k \in Players,
                      NEW c \in Among(Lists(R)[l]) \cap Among(Lists(R)[k])
               PROVE  l = k
    OBVIOUS
  <2>1. c \in Ids(R[l]) /\ c \in Ids(R[k])
    BY <1>1
  <2> QED BY <2>1
<1> QED BY <1>2, <1>3, <1>4 DEF Filed

LEMMA TrainingIs ==
  ASSUME training' \in [Players -> RoomType],
         \A l \in Players : /\ training'[l].ready \cup training'[l].sideA \subseteq Ids(training'[l])
                            /\ training'[l].members # <<>> => l \in Ids(training'[l])
                            /\ Fits(training'[l]),
         \A l, k \in Players : \A c : c \in Ids(training'[l]) /\ c \in Ids(training'[k]) => l = k,
         roster' \in [Players -> SUBSET (Players \X BOOLEAN \X BOOLEAN)],
         \A c \in Players :
           /\ \A l \in Players : c \in Ids(training'[l]) => roster'[c] = Rows(training'[l])
           /\ (\A l \in Players : c \notin Ids(training'[l])) => roster'[c] = {}
  PROVE  TrainingInv'
<1>1. Filed(Lists(training'))
  <2> DEFINE R == training'
  <2>1. R \in [Players -> RoomType]
    OBVIOUS
  <2>2. \A l \in Players : /\ R[l].ready \cup R[l].sideA \subseteq Ids(R[l])
                           /\ R[l].members # <<>> => l \in Ids(R[l])
                           /\ Fits(R[l])
    OBVIOUS
  <2>3. \A l, k \in Players : \A c : c \in Ids(R[l]) /\ c \in Ids(R[k]) => l = k
    OBVIOUS
  <2> HIDE DEF R
  <2>4. Filed(Lists(R))
    BY <2>1, <2>2, <2>3, RoomsFrom
  <2> QED BY <2>4 DEF R
<1>2. Filed(Lists(training))'
  BY <1>1 DEF Filed, Lists
<1>3. RoomsTyped' /\ RosterTyped' /\ RosterShows'
  BY DEF RoomsTyped, RosterTyped, RosterShows
<1>4. SidesFit'
  BY DEF SidesFit, Fits
<1> QED BY <1>2, <1>3, <1>4 DEF TrainingInv

(* Some leave: their rooms are the old ones without them.                  *)
LEMMA PartedRoomsAre ==
  ASSUME TrainingInv, NEW gone, training' = PartTraining(gone)
  PROVE  /\ training' \in [Players -> RoomType]
         /\ \A k \in Players : \A c : c \in Ids(training'[k]) =>
              /\ c \notin gone
              /\ \E l \in Players : /\ c \in Ids(training[l])
                                    /\ training'[k] = PartRoom(training[l], gone)
                                    /\ Ids(training'[k]) = Ids(training[l]) \ gone
         /\ \A l \in Players : \A c : c \in Ids(training[l]) \ gone =>
              \E k \in Players : c \in Ids(training'[k])
         /\ \A l \in Players \ gone : training[l].members # <<>> => training'[l].members # <<>>
         /\ Filed(Lists(training'))
<1> DEFINE T == Lists(training)
           R == training'
<1>1. RoomsTyped /\ Filed(T)
  BY DEF TrainingInv
<1>2. PartedRooms(R, gone)
  BY <1>1, TrainingParts
<1>3. R \in [Players -> RoomType] /\ PartedList(T, Lists(R), gone)
  BY <1>2 DEF PartedRooms
<1>4. /\ \A l \in Players : /\ Ids(training[l]) = Among(T[l]) /\ training[l] \in RoomType
                            /\ Ids(training[l]) \subseteq Players
                            /\ training[l].ready \cup training[l].sideA \subseteq Ids(training[l])
                            /\ T[l] = training[l].members
  BY RoomsAreFiled
<1>5. \A k \in Players : Ids(R[k]) = Among(Lists(R)[k]) /\ Lists(R)[k] = R[k].members
  BY <1>3 DEF Lists, Ids, Among
<1>6. \A l \in Players : Ids(PartRoom(training[l], gone)) = Ids(training[l]) \ gone
  BY <1>4, RoomParts
<1>7. \A k \in Players : R[k] = NoRoom
                         \/ \E l \in Players : R[k] = PartRoom(training[l], gone)
  BY <1>2 DEF PartedRooms
<1>8. /\ \A c \in Players, k \in Players : c \in Among(Lists(R)[k]) => c \notin gone
      /\ \A c \in Players, l \in Players : c \in Among(T[l]) \ gone =>
              Survives(T, gone, l) /\ c \in Among(Lists(R)[Leads(T, gone, l)])
      /\ \A l \in Players \ gone : T[l] # <<>> => Lists(R)[l] # <<>>
  BY <1>1, <1>3, PartedHas
<1>9. \A l \in Players : Survives(T, gone, l) => Leads(T, gone, l) \in Players
  BY <1>1, HeirIsThere
<1>10. Filed(Lists(R))
  BY <1>1, <1>3, PartedIsFiled
<1> HIDE DEF T, R
<1>11. \A k \in Players : \A c : c \in Ids(R[k]) =>
              \E l \in Players : /\ c \in Ids(training[l]) \ gone
                                 /\ R[k] = PartRoom(training[l], gone)
                                 /\ Ids(R[k]) = Ids(training[l]) \ gone
  BY <1>6, <1>7, NoRoomIsEmpty
<1>12. \A l \in Players : \A c : c \in Ids(training[l]) \ gone => \E k \in Players : c \in Ids(R[k])
  BY <1>4, <1>5, <1>8, <1>9
<1>13. \A l \in Players \ gone : training[l].members # <<>> => R[l].members # <<>>
  BY <1>4, <1>5, <1>8
<1> QED BY <1>3, <1>10, <1>11, <1>12, <1>13 DEF R

PartedRoster(gone) ==
  /\ roster' \in [Players -> SUBSET (Players \X BOOLEAN \X BOOLEAN)]
  /\ \A q \in Players \cap gone : roster'[q] = {}
  /\ \A q \in Players \ gone : roster'[q] = {r \in roster[q] : r[1] \notin gone}

LEMMA RowsWithout ==
  ASSUME NEW room \in RoomType, room.ready \cup room.sideA \subseteq Ids(room), NEW gone
  PROVE  Rows(PartRoom(room, gone)) = {r \in Rows(room) : r[1] \notin gone}
<1> DEFINE after == PartRoom(room, gone)
           rows == {r \in Rows(room) : r[1] \notin gone}
<1>1. after.ready = room.ready \ gone /\ after.sideA = room.sideA \ gone
      /\ Ids(after) = Ids(room) \ gone
  BY RoomParts
<1> HIDE DEF after
<1>2. \A c : c \notin gone => Row(after, c) = Row(room, c)
  <2> TAKE c
  <2> HAVE c \notin gone
  <2>1. (c \in after.sideA <=> c \in room.sideA) /\ (c \in after.ready <=> c \in room.ready)
    BY <1>1
  <2>2. (c \in after.sideA) = (c \in room.sideA) /\ (c \in after.ready) = (c \in room.ready)
    BY <2>1
  <2> DEFINE a == c \in after.sideA
             b == c \in room.sideA
             x == c \in after.ready
             y == c \in room.ready
  <2>3. a = b /\ x = y
    BY <2>2
  <2>4. Row(after, c) = <<c, a, x>> /\ Row(room, c) = <<c, b, y>>
    BY Zenon DEF Row
  <2> HIDE DEF a, b, x, y
  <2> QED BY <2>3, <2>4
<1>3. \A c \in Ids(after) : Row(after, c) \in rows
  BY <1>1, <1>2, RowsAre
<1>4. \A r \in rows : r[1] \in Ids(after) /\ r = Row(after, r[1])
  BY <1>1, <1>2, RowsAre
<1> HIDE DEF rows
<1>5. rows = Rows(after)
  BY <1>3, <1>4, RowsAgree
<1> QED BY <1>5 DEF rows, after

LEMMA TrainingParted ==
  ASSUME TrainingInv, NEW gone, training' = PartTraining(gone), PartedRoster(gone)
  PROVE  TrainingInv'
<1> DEFINE R == training'
<1>1. /\ R \in [Players -> RoomType]
      /\ \A k \in Players : \A c : c \in Ids(R[k]) =>
           /\ c \notin gone
           /\ \E l \in Players : /\ c \in Ids(training[l])
                                 /\ R[k] = PartRoom(training[l], gone)
                                 /\ Ids(R[k]) = Ids(training[l]) \ gone
      /\ \A l \in Players : \A c : c \in Ids(training[l]) \ gone => \E k \in Players : c \in Ids(R[k])
      /\ Filed(Lists(R))
  BY PartedRoomsAre
<1>2. \A l \in Players : /\ training[l] \in RoomType
                         /\ training[l].ready \cup training[l].sideA \subseteq Ids(training[l])
                         /\ Fits(training[l])
  BY RoomsAreFiled
<1>3. \A k \in Players : Lists(R)[k] = R[k].members /\ Ids(R[k]) = Among(Lists(R)[k])
  BY <1>1 DEF Lists, Ids, Among
<1>31. \A k \in Players : R[k] # NoRoom => \E l \in Players : R[k] = PartRoom(training[l], gone)
  <2>1. RoomsTyped /\ Filed(Lists(training))
    BY DEF TrainingInv
  <2>2. PartedRooms(R, gone)
    BY <2>1, TrainingParts
  <2> QED BY <2>2 DEF PartedRooms
<1> HIDE DEF R
<1>4. \A k \in Players : /\ R[k].ready \cup R[k].sideA \subseteq Ids(R[k])
                         /\ Fits(R[k])
  <2> TAKE k \in Players
  <2>1. CASE R[k] = NoRoom
    <3>1. Ids(NoRoom) = {} /\ NoRoom.ready = {} /\ NoRoom.sideA = {}
      BY NoRoomIsEmpty
    <3>2. \A a \in BOOLEAN : Side(NoRoom, a) = {}
      BY <3>1 DEF Side
    <3>3. Fits(NoRoom)
      BY <3>2, FS_EmptySet, TeamLimits DEF Fits
    <3> QED BY <2>1, <3>1, <3>3
  <2>2. CASE R[k] # NoRoom
    <3>1. PICK l \in Players : R[k] = PartRoom(training[l], gone)
      BY <1>31, <2>2
    <3>2. Fits(PartRoom(training[l], gone))
      BY <1>2, PartFits
    <3>3. PartRoom(training[l], gone).ready \cup PartRoom(training[l], gone).sideA
            \subseteq Ids(PartRoom(training[l], gone))
      <4> DEFINE room == training[l]
                 after == PartRoom(room, gone)
      <4>1. room \in RoomType /\ room.ready \cup room.sideA \subseteq Ids(room)
        BY <1>2
      <4> HIDE DEF room
      <4>2. /\ after.ready = room.ready \ gone /\ after.sideA = room.sideA \ gone
            /\ Ids(after) = Ids(room) \ gone
        BY <4>1, RoomParts
      <4> HIDE DEF after
      <4>3. after.ready \cup after.sideA \subseteq Ids(after)
        BY <4>1, <4>2
      <4> QED BY <4>3 DEF after, room
    <3> QED BY <3>1, <3>2, <3>3
  <2> QED BY <2>1, <2>2
<1>5. \A k \in Players : R[k].members # <<>> => k \in Ids(R[k])
  BY <1>1, <1>3 DEF Filed
<1>6. \A l, k \in Players : \A c : c \in Ids(R[l]) /\ c \in Ids(R[k]) => l = k
  BY <1>1, <1>3 DEF Filed
<1>7. ASSUME NEW q \in Players, NEW k \in Players, q \in Ids(R[k])
      PROVE  roster'[q] = Rows(R[k])
  <2>1. q \notin gone
    BY <1>1, <1>7
  <2>2. PICK l \in Players : q \in Ids(training[l]) /\ R[k] = PartRoom(training[l], gone)
    BY <1>1, <1>7
  <2>3. roster[q] = Rows(training[l])
    BY <2>2, RosterIs
  <2>4. Rows(PartRoom(training[l], gone)) = {r \in Rows(training[l]) : r[1] \notin gone}
    BY <1>2, RowsWithout
  <2> QED BY <2>1, <2>2, <2>3, <2>4 DEF PartedRoster
<1>8. ASSUME NEW q \in Players, \A k \in Players : q \notin Ids(R[k])
      PROVE  roster'[q] = {}
  <2>1. CASE q \in gone
    BY <2>1 DEF PartedRoster
  <2>2. CASE q \notin gone
    <3>1. \A l \in Players : q \notin Ids(training[l])
      BY <1>1, <1>8, <2>2
    <3>2. roster[q] = {}
      BY <3>1 DEF TrainingInv, RosterShows
    <3> QED BY <2>2, <3>2 DEF PartedRoster
  <2> QED BY <2>1, <2>2
<1>9. roster' \in [Players -> SUBSET (Players \X BOOLEAN \X BOOLEAN)]
  BY DEF PartedRoster
<1> QED BY <1>1, <1>4, <1>5, <1>6, <1>7, <1>8, <1>9, TrainingIs DEF R

LEMMA RosterWithoutOne ==
  ASSUME TrainingInv, NEW p \in Players, roster' = RosterWithout(p)
  PROVE  PartedRoster({p})
<1>1. roster \in [Players -> SUBSET (Players \X BOOLEAN \X BOOLEAN)]
  BY DEF TrainingInv, RosterTyped
<1> DEFINE without(q) == IF q = p THEN {} ELSE WithoutRow(roster[q], p)
<1>2. roster' = [q \in Players |-> without(q)]
  BY Zenon DEF RosterWithout
<1>3. \A q \in Players : WithoutRow(roster[q], p) = {r \in roster[q] : r[1] \notin {p}}
  BY DEF WithoutRow
<1>4. \A q \in Players : without(q) \in SUBSET (Players \X BOOLEAN \X BOOLEAN)
  BY <1>1, <1>3
<1> HIDE DEF without
<1>5. roster' \in [Players -> SUBSET (Players \X BOOLEAN \X BOOLEAN)]
      /\ \A q \in Players : roster'[q] = without(q)
  BY <1>2, <1>4
<1>6. without(p) = {} /\ \A q \in Players \ {p} : without(q) = {r \in roster[q] : r[1] \notin {p}}
  BY <1>3 DEF without
<1> QED BY <1>5, <1>6 DEF PartedRoster

(* A room that opens, is joined, or changes a row.                         *)
LEMMA OneRow ==
  ASSUME NEW room, NEW after, NEW p, Ids(after) = Ids(room) \cup {p},
         after.sideA \ {p} = room.sideA \ {p}, after.ready \ {p} = room.ready \ {p}
  PROVE  Rows(after) = WithoutRow(Rows(room), p) \cup {Row(after, p)}
<1> DEFINE rows == WithoutRow(Rows(room), p) \cup {Row(after, p)}
<1>1. ASSUME NEW c, c # p
      PROVE  Row(after, c) = Row(room, c)
  <2> DEFINE a == c \in after.sideA
             b == c \in room.sideA
             x == c \in after.ready
             y == c \in room.ready
  <2>1. a = b /\ x = y
    BY <1>1
  <2>2. Row(after, c) = <<c, a, x>> /\ Row(room, c) = <<c, b, y>>
    BY Zenon DEF Row
  <2> HIDE DEF a, b, x, y
  <2> QED BY <2>1, <2>2
<1>2. \A r : r \in rows <=> (r \in Rows(room) /\ r[1] # p) \/ r = Row(after, p)
  BY DEF WithoutRow
<1>3. \A c \in Ids(after) : Row(after, c) \in rows
  BY <1>1, <1>2, RowsAre
<1>4. \A r \in rows : r[1] \in Ids(after) /\ r = Row(after, r[1])
  BY <1>1, <1>2, RowsAre
<1> HIDE DEF rows
<1>5. rows = Rows(after)
  BY <1>3, <1>4, RowsAgree
<1> QED BY <1>5 DEF rows

LEMMA RoomChanged ==
  ASSUME TrainingInv, NEW l \in Players, NEW room \in RoomType,
         room.ready \cup room.sideA \subseteq Ids(room), Fits(room), l \in Ids(room),
         training' = [training EXCEPT ![l] = room],
         Ids(training[l]) \subseteq Ids(room),
         \A c \in Ids(room), k \in Players \ {l} : c \notin Ids(training[k]),
         roster' \in [Players -> SUBSET (Players \X BOOLEAN \X BOOLEAN)],
         \A q \in Ids(room) : roster'[q] = Rows(room),
         \A q \in Players \ Ids(room) : roster'[q] = roster[q]
  PROVE  TrainingInv' /\ training'[l] = room /\ \A k \in Players \ {l} : training'[k] = training[k]
<1> DEFINE R == training'
<1>1. training \in [Players -> RoomType]
  BY DEF TrainingInv, RoomsTyped
<1>2. R \in [Players -> RoomType] /\ R[l] = room /\ \A k \in Players \ {l} : R[k] = training[k]
  BY <1>1
<1>3. /\ \A k \in Players : /\ training[k].ready \cup training[k].sideA \subseteq Ids(training[k])
                            /\ training[k].members # <<>> => k \in Ids(training[k])
                            /\ Fits(training[k])
      /\ \A j, k \in Players : \A c : c \in Ids(training[j]) /\ c \in Ids(training[k]) => j = k
  BY RoomsAreFiled
<1> HIDE DEF R
<1>4. \A k \in Players : /\ R[k].ready \cup R[k].sideA \subseteq Ids(R[k])
                         /\ R[k].members # <<>> => k \in Ids(R[k])
                         /\ Fits(R[k])
  <2> TAKE k \in Players
  <2>1. CASE k = l
    BY <1>2, <2>1
  <2>2. CASE k # l
    <3>1. R[k] = training[k]
      BY <1>2, <2>2
    <3> QED BY <1>3, <3>1
  <2> QED BY <2>1, <2>2
<1>5. \A j, k \in Players : \A c : c \in Ids(R[j]) /\ c \in Ids(R[k]) => j = k
  <2> TAKE j \in Players, k \in Players
  <2> TAKE c
  <2>1. CASE j = l
    BY <1>2, <2>1
  <2>2. CASE k = l
    BY <1>2, <2>2
  <2>3. CASE j # l /\ k # l
    BY <1>2, <1>3, <2>3
  <2> QED BY <2>1, <2>2, <2>3
<1>6. ASSUME NEW q \in Players
      PROVE  /\ \A k \in Players : q \in Ids(R[k]) => roster'[q] = Rows(R[k])
             /\ (\A k \in Players : q \notin Ids(R[k])) => roster'[q] = {}
  <2>1. CASE q \in Ids(room)
    <3>1. \A k \in Players : q \in Ids(R[k]) => k = l
      BY <1>2, <1>5, <2>1
    <3> QED BY <1>2, <2>1, <3>1
  <2>2. CASE q \notin Ids(room)
    <3>1. roster'[q] = roster[q]
      BY <2>2
    <3>2. \A k \in Players : q \in Ids(R[k]) => q \in Ids(training[k]) /\ R[k] = training[k]
      BY <1>2, <2>2
    <3>3. \A k \in Players : q \in Ids(training[k]) => q \in Ids(R[k])
      BY <1>2, <2>2
    <3> QED BY <3>1, <3>2, <3>3 DEF TrainingInv, RosterShows
  <2> QED BY <2>1, <2>2
<1>7. TrainingInv'
  BY <1>2, <1>4, <1>5, <1>6, TrainingIs DEF R
<1> QED BY <1>2, <1>7 DEF R

(* The rooms as the ids in them say, everywhere but in one.                *)
RoomGrown(l, more) ==
  /\ Ids(training'[l]) = Ids(training[l]) \cup more
  /\ training'[l].members # <<>>
  /\ \A k \in Players \ {l} : training'[k] = training[k]

LEMMA NoRoomOf ==
  ASSUME NEW p, TrainingRoomOf(p) = {}
  PROVE  \A k \in Players : p \notin Ids(training[k])
BY DEF TrainingRoomOf

LEMMA AddTraining ==
  ASSUME RoomsInv, NEW p \in Players, TrainingAdd(p)
  PROVE  TrainingInv' /\ RoomGrown(p, {p})
<1>1. TrainingInv
  BY DEF RoomsInv
<1> DEFINE room == [members |-> <<p>>, ready |-> {}, sideA |-> {p}]
<1>2. /\ training' = [training EXCEPT ![p] = room]
      /\ roster' = [roster EXCEPT ![p] = Rows(training'[p])]
  BY DEF TrainingAdd
<1>3. \A k \in Players : p \notin Ids(training[k])
  BY NoRoomOf DEF TrainingAdd
<1>4. training \in [Players -> RoomType] /\ roster \in [Players -> SUBSET (Players \X BOOLEAN \X BOOLEAN)]
  BY <1>1 DEF TrainingInv, RoomsTyped, RosterTyped
<1>5. room \in RoomType /\ room.members = <<p>> /\ room.ready = {} /\ room.sideA = {p}
  BY DEF RoomType
<1> HIDE DEF room
<1>6. Ids(room) = {p} /\ room.members # <<>>
  BY <1>5, AmongOne DEF Ids, Among
<1>7. Fits(room)
  <2>1. Side(room, TRUE) = {p} /\ Side(room, FALSE) = {}
    BY <1>5, <1>6 DEF Side
  <2>2. Cardinality({p}) = 1 /\ Cardinality({}) = 0
    BY FS_Singleton, FS_EmptySet
  <2>3. Cardinality(Side(room, TRUE)) <= TeamMax /\ Cardinality(Side(room, FALSE)) <= TeamMax
    <3>1. Cardinality(Side(room, TRUE)) = 1 /\ Cardinality(Side(room, FALSE)) = 0
      BY <2>1, <2>2, Zenon
    <3>2. 1 <= TeamMax /\ 0 <= TeamMax
      BY TeamLimits
    <3> QED BY <3>1, <3>2
  <2> QED BY <2>3 DEF Fits
<1>8. Ids(training[p]) = {}
  <2>1. training[p].members = <<>> <=> Ids(training[p]) = {}
    BY <1>1, RoomsAreFiled
  <2>2. training[p].members # <<>> => p \in Ids(training[p])
    BY <1>1, RoomsAreFiled
  <2> QED BY <1>3, <2>1, <2>2
<1>9. training'[p] = room
  BY <1>2, <1>4
<1>10. Rows(room) \in SUBSET (Players \X BOOLEAN \X BOOLEAN)
  BY <1>5, RowsTyped
<1>11. /\ roster' \in [Players -> SUBSET (Players \X BOOLEAN \X BOOLEAN)]
       /\ roster'[p] = Rows(room)
       /\ \A q \in Players \ {p} : roster'[q] = roster[q]
  BY <1>2, <1>4, <1>9, <1>10
<1>12. TrainingInv' /\ training'[p] = room /\ \A k \in Players \ {p} : training'[k] = training[k]
  <2>1. room.ready \cup room.sideA \subseteq Ids(room) /\ p \in Ids(room)
    BY <1>5, <1>6
  <2>2. Ids(training[p]) \subseteq Ids(room)
    BY <1>8
  <2>3. \A c \in Ids(room), k \in Players \ {p} : c \notin Ids(training[k])
    BY <1>3, <1>6
  <2>4. (\A q \in Ids(room) : roster'[q] = Rows(room))
        /\ \A q \in Players \ Ids(room) : roster'[q] = roster[q]
    BY <1>6, <1>11
  <2> QED BY <1>1, <1>2, <1>5, <1>7, <1>11, <2>1, <2>2, <2>3, <2>4, RoomChanged
<1> QED BY <1>6, <1>8, <1>12 DEF RoomGrown

LEMMA JoinTraining ==
  ASSUME RoomsInv, NEW p \in Players, NEW l \in Players, TrainingJoin(p, l)
  PROVE  TrainingInv' /\ RoomGrown(l, {p}) /\ training[l].members # <<>>
<1>1. TrainingInv
  BY DEF RoomsInv
<1> DEFINE old == training[l]
           room == Seated(old, p)
<1>2. /\ training' = [training EXCEPT ![l] = room] /\ RosterSeated(l, p)
      /\ old.members # <<>> /\ Len(old.members) < Limit
  BY DEF TrainingJoin
<1>3. \A k \in Players : p \notin Ids(training[k])
  BY NoRoomOf DEF TrainingJoin
<1>4. training \in [Players -> RoomType] /\ roster \in [Players -> SUBSET (Players \X BOOLEAN \X BOOLEAN)]
  BY <1>1 DEF TrainingInv, RoomsTyped, RosterTyped
<1>5. /\ old \in RoomType /\ old.ready \cup old.sideA \subseteq Ids(old) /\ Fits(old)
      /\ l \in Ids(old) /\ Ids(old) \subseteq Players
      /\ \A c \in Ids(old), k \in Players : c \in Ids(training[k]) => k = l
  BY <1>1, <1>2, RoomsAreFiled
<1>6. old.members \in Seq(Players)
  BY <1>5 DEF RoomType
<1>7. p \notin Ids(old)
  BY <1>3
<1> HIDE DEF old
<1>8. /\ room \in RoomType /\ room.members = Append(old.members, p)
      /\ Ids(room) = Ids(old) \cup {p} /\ room.ready = old.ready /\ room.sideA \ {p} = old.sideA
      /\ room.ready \cup room.sideA \subseteq Ids(room) /\ Fits(room)
  BY <1>2, <1>5, <1>7, SeatedFits
<1> HIDE DEF room
<1>9. room.members # <<>>
  BY <1>6, <1>8, AmongAppended
<1>10. training'[l] = room
  BY <1>2, <1>4
<1>11. Rows(room) = Rows(old) \cup {Row(room, p)}
  <2>1. room.sideA \ {p} = old.sideA \ {p} /\ room.ready \ {p} = old.ready \ {p}
    BY <1>5, <1>7, <1>8
  <2>2. Rows(room) = WithoutRow(Rows(old), p) \cup {Row(room, p)}
    BY <1>8, <2>1, OneRow
  <2>3. \A r \in Rows(old) : r[1] \in Ids(old)
    BY RowsAre
  <2>4. WithoutRow(Rows(old), p) = Rows(old)
    BY <1>7, <2>3 DEF WithoutRow
  <2> QED BY <2>2, <2>4
<1>12. Rows(room) \in SUBSET (Players \X BOOLEAN \X BOOLEAN)
  BY <1>8, RowsTyped
<1>13. \A q \in Ids(old) : roster[q] = Rows(old)
  BY <1>1, <1>5, RosterIs DEF old
<1>14. /\ roster' \in [Players -> SUBSET (Players \X BOOLEAN \X BOOLEAN)]
       /\ \A q \in Ids(room) : roster'[q] = Rows(room)
       /\ \A q \in Players \ Ids(room) : roster'[q] = roster[q]
  <2> DEFINE new == training'[l]
             shown(q) == IF q = p THEN Rows(new)
                         ELSE IF q \in Ids(old) THEN roster[q] \cup {Row(new, p)} ELSE roster[q]
  <2>1. roster' = [q \in Players |-> shown(q)]
    BY <1>2, Zenon DEF RosterSeated, old
  <2>0. new = room
    BY <1>10
  <2> HIDE DEF new
  <2>2. \A q \in Ids(room) : shown(q) = Rows(room)
    BY <1>8, <1>11, <1>13, <2>0
  <2>3. \A q \in Players \ Ids(room) : shown(q) = roster[q]
    BY <1>8
  <2> HIDE DEF shown
  <2>4. \A q \in Players : shown(q) \in SUBSET (Players \X BOOLEAN \X BOOLEAN)
    BY <1>4, <1>12, <2>2, <2>3
  <2>5. Ids(room) \subseteq Players
    BY <1>5, <1>8
  <2> QED BY <2>1, <2>2, <2>3, <2>4, <2>5
<1>15. \A c \in Ids(room), k \in Players \ {l} : c \notin Ids(training[k])
  BY <1>3, <1>5, <1>8
<1>16. Ids(training[l]) \subseteq Ids(room) /\ l \in Ids(room)
  BY <1>5, <1>8 DEF old
<1>17. TrainingInv' /\ training'[l] = room /\ \A k \in Players \ {l} : training'[k] = training[k]
  BY <1>1, <1>2, <1>8, <1>14, <1>15, <1>16, RoomChanged
<1> QED BY <1>2, <1>8, <1>9, <1>17 DEF RoomGrown, old

LEMMA RowChanged ==
  ASSUME TrainingInv, NEW l \in Players, NEW p \in Players, p \in Ids(training[l]),
         NEW room \in RoomType, room.members = training[l].members,
         room.sideA \ {p} = training[l].sideA \ {p}, room.ready \ {p} = training[l].ready \ {p},
         Fits(room), training' = [training EXCEPT ![l] = room], RowSaid(l, p)
  PROVE  TrainingInv' /\ RoomGrown(l, {}) /\ training[l].members # <<>>
<1> DEFINE old == training[l]
<1>1. training \in [Players -> RoomType] /\ roster \in [Players -> SUBSET (Players \X BOOLEAN \X BOOLEAN)]
  BY DEF TrainingInv, RoomsTyped, RosterTyped
<1>2. /\ old \in RoomType /\ old.ready \cup old.sideA \subseteq Ids(old)
      /\ l \in Ids(old) /\ Ids(old) \subseteq Players /\ old.members # <<>>
      /\ \A c \in Ids(old), k \in Players : c \in Ids(training[k]) => k = l
  <2>1. old.members = <<>> <=> Ids(old) = {}
    BY RoomsAreFiled
  <2> QED BY <2>1, RoomsAreFiled
<1>3. p \in Ids(old) /\ room.members = old.members
      /\ room.sideA \ {p} = old.sideA \ {p} /\ room.ready \ {p} = old.ready \ {p}
  OBVIOUS
<1>4. training'[l] = room
  BY <1>1
<1>5. \A q \in Ids(old) : roster[q] = Rows(old)
  BY <1>2, RosterIs
<1> DEFINE new == training'[l]
           shown(q) == IF q \in Ids(old) THEN WithoutRow(roster[q], p) \cup {Row(new, p)} ELSE roster[q]
<1>6. roster' = [q \in Players |-> shown(q)]
  BY Zenon DEF RowSaid
<1>61. new = room
  BY <1>4
<1> HIDE DEF old, new
<1>7. Ids(room) = Ids(old)
  BY <1>3 DEF Ids
<1>8. Rows(room) = WithoutRow(Rows(old), p) \cup {Row(room, p)}
  <2>1. Ids(room) = Ids(old) \cup {p}
    BY <1>3, <1>7
  <2> QED BY <1>3, <2>1, OneRow
<1>9. room.ready \cup room.sideA \subseteq Ids(room)
  BY <1>2, <1>3, <1>7
<1>10. Rows(room) \in SUBSET (Players \X BOOLEAN \X BOOLEAN)
  BY RowsTyped
<1>11. \A q \in Ids(old) : shown(q) = Rows(room)
  BY <1>5, <1>61, <1>8
<1>12. \A q \in Players \ Ids(old) : shown(q) = roster[q]
  OBVIOUS
<1> HIDE DEF shown
<1>13. \A q \in Players : shown(q) \in SUBSET (Players \X BOOLEAN \X BOOLEAN)
  BY <1>1, <1>10, <1>11, <1>12
<1>14. roster' \in [Players -> SUBSET (Players \X BOOLEAN \X BOOLEAN)]
       /\ (\A q \in Ids(room) : roster'[q] = Rows(room))
       /\ \A q \in Players \ Ids(room) : roster'[q] = roster[q]
  BY <1>2, <1>6, <1>7, <1>11, <1>12, <1>13
<1>15. l \in Ids(room) /\ Ids(training[l]) \subseteq Ids(room)
       /\ \A c \in Ids(room), k \in Players \ {l} : c \notin Ids(training[k])
  BY <1>2, <1>7 DEF old
<1>16. TrainingInv' /\ training'[l] = room /\ \A k \in Players \ {l} : training'[k] = training[k]
  BY <1>9, <1>14, <1>15, RoomChanged
<1> QED BY <1>2, <1>3, <1>7, <1>16 DEF RoomGrown, old

LEMMA ReadyTraining ==
  ASSUME RoomsInv, NEW p \in Players, NEW on \in BOOLEAN, TrainingReady(p, on)
  PROVE  TrainingInv' /\ \E l \in Players : RoomGrown(l, {}) /\ training[l].members # <<>>
<1>1. TrainingInv
  BY DEF RoomsInv
<1>2. PICK l \in TrainingRoomOf(p) \ {p} :
        /\ training' = [training EXCEPT ![l].ready = IF on THEN @ \cup {p} ELSE @ \ {p}]
        /\ RowSaid(l, p)
  BY DEF TrainingReady
<1>3. l \in Players /\ p \in Ids(training[l])
  BY <1>2 DEF TrainingRoomOf
<1> DEFINE old == training[l]
           ready == IF on THEN old.ready \cup {p} ELSE old.ready \ {p}
           room == [old EXCEPT !.ready = ready]
<1>4. old \in RoomType /\ old.ready \cup old.sideA \subseteq Ids(old) /\ Fits(old)
  BY <1>1, <1>3, RoomsAreFiled
<1>5. training \in [Players -> RoomType]
  BY <1>1 DEF TrainingInv, RoomsTyped
<1>6. training' = [training EXCEPT ![l] = room]
  BY <1>2, <1>5
<1>7. ready \subseteq Players /\ ready \ {p} = old.ready \ {p}
  <2>1. old.ready \subseteq Players
    BY <1>4 DEF RoomType
  <2> QED BY <2>1
<1> HIDE DEF ready
<1>8. /\ room \in RoomType /\ room.members = old.members /\ room.sideA = old.sideA
      /\ room.ready = ready
  <2> HIDE DEF old
  <2> QED BY <1>4, <1>7 DEF RoomType
<1> HIDE DEF room
<1>9. Fits(room)
  <2>1. Ids(room) = Ids(old)
    BY <1>8 DEF Ids
  <2>2. \A a \in BOOLEAN : Side(room, a) = Side(old, a)
    BY <1>8, <2>1 DEF Side
  <2> QED BY <1>4, <2>2 DEF Fits
<1>10. room.sideA \ {p} = old.sideA \ {p} /\ room.ready \ {p} = old.ready \ {p}
  BY <1>7, <1>8
<1>11. TrainingInv' /\ RoomGrown(l, {}) /\ training[l].members # <<>>
  BY <1>1, <1>2, <1>3, <1>6, <1>8, <1>9, <1>10, RowChanged
<1> QED BY <1>3, <1>11

LEMMA TeamTraining ==
  ASSUME RoomsInv, NEW p \in Players, NEW a \in BOOLEAN, TrainingTeam(p, a)
  PROVE  TrainingInv' /\ \E l \in Players : RoomGrown(l, {}) /\ training[l].members # <<>>
<1>1. TrainingInv
  BY DEF RoomsInv
<1>2. PICK l \in TrainingRoomOf(p) :
        /\ p \in Side(training[l], a) \/ Cardinality(Side(training[l], a)) < TeamMax
        /\ training' = [training EXCEPT ![l].sideA = IF a THEN @ \cup {p} ELSE @ \ {p}]
        /\ RowSaid(l, p)
  BY DEF TrainingTeam
<1>3. l \in Players /\ p \in Ids(training[l])
  BY <1>2 DEF TrainingRoomOf
<1> DEFINE old == training[l]
           sideA == IF a THEN old.sideA \cup {p} ELSE old.sideA \ {p}
           room == [old EXCEPT !.sideA = sideA]
<1>4. old \in RoomType /\ old.ready \cup old.sideA \subseteq Ids(old) /\ Fits(old)
  BY <1>1, <1>3, RoomsAreFiled
<1>5. training \in [Players -> RoomType]
  BY <1>1 DEF TrainingInv, RoomsTyped
<1>6. training' = [training EXCEPT ![l] = room]
  BY <1>2, <1>5
<1>7. sideA \subseteq Players /\ sideA \ {p} = old.sideA \ {p}
  <2>1. old.sideA \subseteq Players
    BY <1>4 DEF RoomType
  <2> QED BY <2>1
<1>8. /\ room \in RoomType /\ room.members = old.members /\ room.ready = old.ready
      /\ room.sideA = sideA
  <2> HIDE DEF old, sideA
  <2> QED BY <1>4, <1>7 DEF RoomType
<1> HIDE DEF room
<1>9. Fits(room)
  <2>1. Ids(room) = Ids(old)
    BY <1>8 DEF Ids
  <2>2. p \in Side(old, a) \/ Cardinality(Side(old, a)) < TeamMax
    BY <1>2
  <2>3. p \in Ids(old) /\ old.sideA \subseteq Ids(old)
    BY <1>3, <1>4
  <2> HIDE DEF old
  <2>4. Side(room, a) = Side(old, a) \cup {p}
    BY <1>8, <2>1, <2>3 DEF Side
  <2>5. Side(room, ~a) \subseteq Side(old, ~a)
    BY <1>8, <2>1, <2>3 DEF Side
  <2>6. \A b \in BOOLEAN : /\ Side(old, b) \subseteq Ids(old) /\ IsFiniteSet(Side(old, b))
                           /\ Cardinality(Side(old, b)) \in Nat
                           /\ Cardinality(Side(old, b)) <= TeamMax
    BY <1>4, <2>3, SideIsFinite DEF Fits
  <2>7. Cardinality(Side(room, a)) <= TeamMax
    <3>1. CASE p \in Side(old, a)
      <4>1. Side(room, a) = Side(old, a)
        BY <2>4, <3>1
      <4> QED BY <2>6, <4>1
    <3>2. CASE Cardinality(Side(old, a)) < TeamMax
      BY <2>4, <2>6, <3>2, OneMoreFits
    <3> QED BY <2>2, <3>1, <3>2
  <2>8. Cardinality(Side(room, ~a)) <= TeamMax
    <3> DEFINE S == Side(old, ~a)
               T == Side(room, ~a)
    <3>1. IsFiniteSet(S) /\ Cardinality(S) \in Nat /\ Cardinality(S) <= TeamMax /\ T \in SUBSET S
      BY <2>5, <2>6
    <3> HIDE DEF S, T
    <3>2. IsFiniteSet(T) /\ Cardinality(T) <= Cardinality(S)
      BY <3>1, FS_Subset
    <3>3. Cardinality(T) \in Nat
      BY <3>2, FS_CardinalityType
    <3>4. Cardinality(T) <= TeamMax
      BY <3>1, <3>2, <3>3, TeamLimits
    <3> QED BY <3>4 DEF T
  <2>9. \A b \in BOOLEAN : b = a \/ b = ~a
    OBVIOUS
  <2> QED BY <2>7, <2>8, <2>9 DEF Fits
<1>10. room.sideA \ {p} = old.sideA \ {p} /\ room.ready \ {p} = old.ready \ {p}
  BY <1>7, <1>8
<1>11. TrainingInv' /\ RoomGrown(l, {}) /\ training[l].members # <<>>
  BY <1>1, <1>2, <1>3, <1>6, <1>8, <1>9, <1>10, RowChanged
<1> QED BY <1>3, <1>11

-----------------------------------------------------------------------------
(* What happens to the chat rooms.                                         *)
LEMMA ChatsAreFiled ==
  ASSUME ChatsInv
  PROVE  /\ \A o \in Players : /\ chats[o] \in Seq(Players) /\ ChatSeats(o) = Among(chats[o])
                               /\ ChatSeats(o) \subseteq Players
                               /\ chats[o] # <<>> => o \in ChatSeats(o)
                               /\ chats[o] = <<>> <=> ChatSeats(o) = {}
         /\ \A o, k \in Players : \A c : c \in ChatSeats(o) /\ c \in ChatSeats(k) => o = k
         /\ \A o \in Players, c \in Players : c \in ChatSeats(o) => seats[c] = ChatSeats(o)
<1>1. \A o \in Players : chats[o] \in Seq(Players) /\ ChatSeats(o) = Among(chats[o])
  BY DEF ChatsInv, Filed, ChatSeats, Among
<1>2. \A o \in Players : ChatSeats(o) \subseteq Players /\ (chats[o] = <<>> <=> ChatSeats(o) = {})
  BY <1>1, AmongEmpty
<1>3. /\ \A o \in Players : chats[o] # <<>> => o \in Among(chats[o])
      /\ \A o, k \in Players : o # k => Among(chats[o]) \cap Among(chats[k]) = {}
  BY DEF ChatsInv, Filed
<1>4. \A o \in Players, c \in Players : c \in ChatSeats(o) => seats[c] = ChatSeats(o)
  BY DEF ChatsInv, SeatsShow
<1>5. ASSUME NEW o \in Players, NEW k \in Players, NEW c, c \in ChatSeats(o), c \in ChatSeats(k)
      PROVE  o = k
  <2>1. c \in Among(chats[o]) \cap Among(chats[k])
    BY <1>1, <1>5
  <2> QED BY <1>3, <2>1
<1> QED BY <1>1, <1>2, <1>3, <1>4, <1>5

LEMMA ChatsIs ==
  ASSUME Filed(chats'), seats' \in [Players -> SUBSET Players],
         \A c \in Players :
           /\ \A o \in Players : c \in Among(chats'[o]) => seats'[c] = Among(chats'[o])
           /\ (\A o \in Players : c \notin Among(chats'[o])) => seats'[c] = {}
  PROVE  ChatsInv'
<1>1. \A o \in Players : ChatSeats(o)' = Among(chats'[o])
  BY DEF ChatSeats, Among
<1>2. Filed(chats)'
  BY DEF Filed
<1>3. SeatsShow'
  BY <1>1 DEF SeatsShow
<1> QED BY <1>2, <1>3 DEF ChatsInv

(* Somebody leaves: their chat room is the old one without them.           *)
LEMMA PartedChatsAre ==
  ASSUME ChatsInv, NEW p \in Players, chats' = PartChat({p}), seats' = SeatsWithout(p)
  PROVE  /\ ChatsInv'
         /\ \A k \in Players : \A c : c \in ChatSeats(k)' =>
              c # p /\ \E o \in Players : c \in ChatSeats(o)
         /\ \A o \in Players : \A c : c \in ChatSeats(o) /\ c # p => \E k \in Players : c \in ChatSeats(k)'
         /\ \A o \in Players \ {p} : chats[o] # <<>> => chats'[o] # <<>>
<1> DEFINE M == chats'
           gone == {p}
<1>1. Filed(chats) /\ seats \in [Players -> SUBSET Players]
  BY DEF ChatsInv
<1>0. \A c : c \in gone <=> c = p
  OBVIOUS
<1> HIDE DEF gone, M
<1>2. PartedList(chats, M, gone)
  BY <1>1, ChatsPart DEF gone, M
<1>3. Filed(M)
  BY <1>1, <1>2, PartedIsFiled
<1>4. /\ \A c \in Players, k \in Players : c \in Among(M[k]) =>
              c \notin gone /\ \E o \in Players : c \in Among(chats[o]) /\ Survives(chats, gone, o)
                                                /\ k = Leads(chats, gone, o)
      /\ \A c \in Players, o \in Players : c \in Among(chats[o]) \ gone =>
              Survives(chats, gone, o) /\ c \in Among(M[Leads(chats, gone, o)])
      /\ \A o \in Players \ gone : chats[o] # <<>> => M[o] # <<>>
  BY <1>1, <1>2, PartedHas
<1>5. \A o \in Players : Survives(chats, gone, o) =>
        /\ Leads(chats, gone, o) \in Players
        /\ Among(M[Leads(chats, gone, o)]) = Among(chats[o]) \ gone
  <2> TAKE o \in Players
  <2> HAVE Survives(chats, gone, o)
  <2>1. Leads(chats, gone, o) \in Players /\ Among(Rest(chats[o], gone)) = Among(chats[o]) \ gone
    BY <1>1, HeirIsThere
  <2>2. M[Leads(chats, gone, o)] = Rest(chats[o], gone)
    BY <1>2 DEF PartedList
  <2> QED BY <2>1, <2>2
<1>6. \A k \in Players : ChatSeats(k)' = Among(M[k])
  BY DEF ChatSeats, Among, M
<1>7. \A o \in Players : ChatSeats(o) = Among(chats[o]) /\ ChatSeats(o) \subseteq Players
  BY ChatsAreFiled
<1>8. \A k \in Players : Among(M[k]) \subseteq Players
  BY <1>3, AmongEmpty DEF Filed
<1> DEFINE shown(q) == IF q = p THEN {} ELSE seats[q] \ {p}
<1>9. seats' = [q \in Players |-> shown(q)]
  BY DEF SeatsWithout
<1>10. \A q \in Players : shown(q) \in SUBSET Players
  BY <1>1
<1>11. shown(p) = {} /\ \A q \in Players \ {p} : shown(q) = seats[q] \ {p}
  OBVIOUS
<1> HIDE DEF shown
<1>12. /\ seats' \in [Players -> SUBSET Players] /\ \A q \in Players : seats'[q] = shown(q)
  BY <1>9, <1>10
<1>13. ASSUME NEW q \in Players, NEW k \in Players, q \in Among(M[k])
       PROVE  seats'[q] = Among(M[k])
  <2>1. PICK o \in Players : q \in Among(chats[o]) /\ Survives(chats, gone, o) /\ k = Leads(chats, gone, o)
    BY <1>4, <1>13
  <2>2. q # p
    BY <1>0, <1>4, <1>13
  <2>3. seats[q] = Among(chats[o])
    BY <1>7, <2>1 DEF ChatsInv, SeatsShow
  <2>4. Among(M[k]) = Among(chats[o]) \ {p}
    BY <1>0, <1>5, <2>1
  <2> QED BY <1>11, <1>12, <2>2, <2>3, <2>4
<1>14. ASSUME NEW q \in Players, \A k \in Players : q \notin Among(M[k])
       PROVE  seats'[q] = {}
  <2>1. CASE q = p
    BY <1>11, <1>12, <2>1
  <2>2. CASE q # p
    <3>1. \A o \in Players : q \notin Among(chats[o])
      BY <1>0, <1>4, <1>5, <1>14, <2>2
    <3>2. seats[q] = {}
      BY <1>7, <3>1 DEF ChatsInv, SeatsShow
    <3> QED BY <1>11, <1>12, <2>2, <3>2
  <2> QED BY <2>1, <2>2
<1>15. ChatsInv'
  BY <1>3, <1>12, <1>13, <1>14, ChatsIs DEF M
<1>16. \A k \in Players : \A c : c \in Among(M[k]) => c # p /\ \E o \in Players : c \in Among(chats[o])
  BY <1>0, <1>4, <1>8
<1>17. \A o \in Players : \A c : c \in Among(chats[o]) /\ c # p => \E k \in Players : c \in Among(M[k])
  BY <1>0, <1>4, <1>5, <1>7
<1>18. \A o \in Players \ {p} : chats[o] # <<>> => M[o] # <<>>
  BY <1>0, <1>4
<1>19. \A k \in Players : \A c : c \in ChatSeats(k)' => c # p /\ \E o \in Players : c \in ChatSeats(o)
  BY <1>6, <1>7, <1>16
<1>20. \A o \in Players : \A c : c \in ChatSeats(o) /\ c # p => \E k \in Players : c \in ChatSeats(k)'
  BY <1>6, <1>7, <1>17
<1> QED BY <1>15, <1>18, <1>19, <1>20 DEF M

(* A chat room that opens or is joined.                                    *)
ChatGrown(o, p) ==
  /\ ChatSeats(o)' = ChatSeats(o) \cup {p}
  /\ chats'[o] # <<>>
  /\ \A k \in Players \ {o} : chats'[k] = chats[k]

LEMMA ChatChanged ==
  ASSUME ChatsInv, NEW o \in Players, NEW p \in Players, NEW list \in Seq(Players),
         \A k \in Players : p \notin ChatSeats(k),
         Among(list) = ChatSeats(o) \cup {p}, list # <<>>, o \in Among(list),
         chats' = [chats EXCEPT ![o] = list],
         seats' \in [Players -> SUBSET Players],
         \A q \in Among(list) : seats'[q] = Among(list),
         \A q \in Players \ Among(list) : seats'[q] = seats[q]
  PROVE  ChatsInv' /\ ChatGrown(o, p)
<1> DEFINE M == chats'
           all == Among(list)
<1>1. chats \in [Players -> Seq(Players)]
  BY DEF ChatsInv, Filed
<1>2. M \in [Players -> Seq(Players)] /\ M[o] = list /\ \A k \in Players \ {o} : M[k] = chats[k]
  BY <1>1
<1>3. /\ \A k \in Players : /\ ChatSeats(k) = Among(chats[k]) /\ ChatSeats(k) \subseteq Players
                            /\ chats[k] # <<>> => k \in ChatSeats(k)
      /\ \A j, k \in Players : \A c : c \in ChatSeats(j) /\ c \in ChatSeats(k) => j = k
  BY ChatsAreFiled
<1> HIDE DEF M
<1>4. Among(M[o]) = all /\ \A k \in Players \ {o} : Among(M[k]) = ChatSeats(k)
  BY <1>2, <1>3
<1>5. all = ChatSeats(o) \cup {p} /\ o \in all
  OBVIOUS
<1> HIDE DEF all
<1>6. \A j, k \in Players : \A c : c \in Among(M[j]) /\ c \in Among(M[k]) => j = k
  <2> SUFFICES ASSUME NEW j \in Players, NEW k \in Players, NEW c,
                      c \in Among(M[j]), c \in Among(M[k])
               PROVE  j = k
    OBVIOUS
  <2>1. CASE j = o /\ k # o
    BY <1>3, <1>4, <1>5, <2>1
  <2>2. CASE k = o /\ j # o
    BY <1>3, <1>4, <1>5, <2>2
  <2>3. CASE j # o /\ k # o
    BY <1>3, <1>4, <2>3
  <2> QED BY <2>1, <2>2, <2>3
<1>7. Filed(M)
  <2>1. ASSUME NEW k \in Players, M[k] # <<>>
        PROVE  k \in Among(M[k])
    <3>1. CASE k = o
      BY <1>4, <1>5, <3>1
    <3>2. CASE k # o
      <4>1. M[k] = chats[k] /\ Among(M[k]) = ChatSeats(k)
        BY <1>2, <1>4, <3>2
      <4> QED BY <1>3, <2>1, <4>1
    <3> QED BY <3>1, <3>2
  <2>2. \A j, k \in Players : j # k => Among(M[j]) \cap Among(M[k]) = {}
    BY <1>6
  <2> QED BY <1>2, <2>1, <2>2 DEF Filed
<1>8. (\A q \in all : seats'[q] = all) /\ \A q \in Players \ all : seats'[q] = seats[q]
  BY DEF all
<1>9. ASSUME NEW q \in Players
      PROVE  /\ \A k \in Players : q \in Among(M[k]) => seats'[q] = Among(M[k])
             /\ (\A k \in Players : q \notin Among(M[k])) => seats'[q] = {}
  <2>1. CASE q \in all
    <3>1. \A k \in Players : q \in Among(M[k]) => k = o
      BY <1>4, <1>6, <2>1
    <3> QED BY <1>4, <1>8, <2>1, <3>1
  <2>2. CASE q \notin all
    <3>1. seats'[q] = seats[q]
      BY <1>8, <2>2
    <3>2. \A k \in Players : q \in Among(M[k]) <=> q \in ChatSeats(k)
      BY <1>4, <1>5, <2>2
    <3>3. \A k \in Players : q \in Among(M[k]) => Among(M[k]) = ChatSeats(k)
      BY <1>4, <2>2
    <3> QED BY <3>1, <3>2, <3>3 DEF ChatsInv, SeatsShow
  <2> QED BY <2>1, <2>2
<1>10. ChatsInv'
  BY <1>7, <1>9, ChatsIs DEF M
<1>11. ChatSeats(o)' = Among(M[o])
  BY DEF ChatSeats, Among, M
<1> QED BY <1>2, <1>4, <1>5, <1>10, <1>11 DEF ChatGrown, M

LEMMA AddChat ==
  ASSUME RoomsInv, NEW p \in Players, ChatAdd(p)
  PROVE  ChatsInv' /\ ChatGrown(p, p) /\ chats[p] = <<>>
<1>1. ChatsInv
  BY DEF RoomsInv
<1>2. /\ chats' = [chats EXCEPT ![p] = <<p>>] /\ seats' = [seats EXCEPT ![p] = {p}]
      /\ \A k \in Players : p \notin ChatSeats(k)
  BY DEF ChatAdd, ChatRoomOf
<1>3. chats[p] = <<>> /\ ChatSeats(p) = {}
  BY <1>1, <1>2, ChatsAreFiled
<1> DEFINE list == <<p>>
<1>4. list \in Seq(Players) /\ list # <<>> /\ Among(list) = {p}
  BY AmongOne
<1>5. seats \in [Players -> SUBSET Players]
  BY <1>1 DEF ChatsInv
<1>6. /\ seats' \in [Players -> SUBSET Players] /\ seats'[p] = {p}
      /\ \A q \in Players \ {p} : seats'[q] = seats[q]
  BY <1>2, <1>5
<1>7. chats' = [chats EXCEPT ![p] = list]
  BY <1>2
<1> HIDE DEF list
<1>8. ChatsInv' /\ ChatGrown(p, p)
  <2>1. Among(list) = ChatSeats(p) \cup {p} /\ p \in Among(list)
    BY <1>3, <1>4
  <2>2. (\A q \in Among(list) : seats'[q] = Among(list))
        /\ \A q \in Players \ Among(list) : seats'[q] = seats[q]
    BY <1>4, <1>6
  <2> QED BY <1>1, <1>2, <1>4, <1>6, <1>7, <2>1, <2>2, ChatChanged
<1> QED BY <1>3, <1>8

LEMMA JoinChat ==
  ASSUME RoomsInv, NEW p \in Players, NEW o \in Players, ChatJoin(p, o)
  PROVE  ChatsInv' /\ ChatGrown(o, p) /\ chats[o] # <<>>
<1>1. ChatsInv
  BY DEF RoomsInv
<1> DEFINE list == Append(chats[o], p)
<1>2. /\ chats' = [chats EXCEPT ![o] = Append(chats[o], p)] /\ ChatSeated(o, p) /\ chats[o] # <<>>
      /\ \A k \in Players : p \notin ChatSeats(k)
  BY DEF ChatJoin, ChatRoomOf
<1>3. chats' = [chats EXCEPT ![o] = list]
  BY <1>2
<1>4. /\ chats[o] \in Seq(Players) /\ ChatSeats(o) = Among(chats[o]) /\ ChatSeats(o) \subseteq Players
      /\ o \in ChatSeats(o)
  BY <1>1, <1>2, ChatsAreFiled
<1>5. list \in Seq(Players) /\ Among(list) = ChatSeats(o) \cup {p} /\ list # <<>>
  BY <1>4, AmongAppended
<1> HIDE DEF list
<1>6. seats \in [Players -> SUBSET Players]
  BY <1>1 DEF ChatsInv
<1>7. \A q \in ChatSeats(o) : seats[q] = ChatSeats(o)
  BY <1>1, <1>4, ChatsAreFiled
<1> DEFINE all == ChatSeats(o) \cup {p}
           shown(q) == IF q = p THEN ChatSeats(o) \cup {p}
                       ELSE IF q \in ChatSeats(o) THEN seats[q] \cup {p} ELSE seats[q]
<1>8. seats' = [q \in Players |-> shown(q)]
  BY <1>2, Zenon DEF ChatSeated
<1>9. (\A q \in all : shown(q) = all) /\ \A q \in Players \ all : shown(q) = seats[q]
  BY <1>7
<1>10. all \subseteq Players
  BY <1>4
<1>11. Among(list) = all /\ o \in all
  BY <1>4, <1>5
<1> HIDE DEF shown, all
<1>12. /\ seats' \in [Players -> SUBSET Players]
       /\ \A q \in all : seats'[q] = all
       /\ \A q \in Players \ all : seats'[q] = seats[q]
  BY <1>6, <1>8, <1>9, <1>10
<1>13. ChatsInv' /\ ChatGrown(o, p)
  <2>1. (\A q \in Among(list) : seats'[q] = Among(list))
        /\ \A q \in Players \ Among(list) : seats'[q] = seats[q]
    BY <1>11, <1>12
  <2> QED BY <1>1, <1>2, <1>3, <1>5, <1>11, <1>12, <2>1, ChatChanged
<1> QED BY <1>2, <1>13

-----------------------------------------------------------------------------
(* What the clients draw.                                                  *)
LEMMA ActionTyped ==
  ASSUME NEW c
  PROVE  Action(c) \in Icons /\ Action(c)' \in Icons /\ Absent \notin Icons
BY DEF Action, Icons, Absent, NoIcon

(* An icon moves only with what it stands for.                             *)
LEMMA ActionKept ==
  ASSUME NEW c \in Players, c \in lesson' <=> c \in lesson, InFight(c)' <=> InFight(c),
         training'[c].members # <<>> <=> training[c].members # <<>>,
         chats'[c] # <<>> <=> chats[c] # <<>>, c \in signs' <=> c \in signs,
         ChatRoomOf(c)' # {} <=> ChatRoomOf(c) # {}, c \in reading' <=> c \in reading
  PROVE  Action(c)' = Action(c)
BY DEF Action

LEMMA ShownIs ==
  ASSUME IconsTyped, NEW p \in Players, NEW who, NEW skip, ShowIcons(p, who, skip)
  PROVE  /\ IconsTyped'
         /\ inherited' = inherited \ who
         /\ \A c \in Players : owed'[c] = IF c = p THEN Absent ELSE OwedTo(c, who, skip)
         /\ \A q \in Players : \A c \in Players \ {q} :
              screen'[q] = "map" => drawn'[q][c] = DrawnBy(q, c, who, skip)
         /\ \A q \in Players : screen'[q] = "map" =>
              drawn'[q][q] = IF q = p /\ OwedTo(q, who, skip) # Absent THEN OwedTo(q, who, skip)
                             ELSE drawn[q][q]
<1> DEFINE due(c) == OwedTo(c, who, skip)
           by(q, c) == DrawnBy(q, c, who, skip)
           then(c) == IF c = p THEN Absent ELSE due(c)
           show(q, c) == IF screen'[q] # "map" THEN Absent
                         ELSE IF c # q THEN by(q, c)
                         ELSE IF q = p /\ due(q) # Absent THEN due(q)
                         ELSE drawn[q][q]
<1>1. /\ owed' = [c \in Players |-> then(c)]
      /\ drawn' = [q \in Players |-> [c \in Players |-> show(q, c)]]
      /\ inherited' = inherited \ who
  BY Zenon DEF ShowIcons
<1>2. \A c \in Players : due(c) \in Icons \cup {Absent}
  BY ActionTyped DEF OwedTo, IconsTyped
<1>3. \A q, c \in Players : by(q, c) \in Icons \cup {Absent} /\ drawn[q][q] \in Icons \cup {Absent}
  BY ActionTyped DEF DrawnBy, IconsTyped
<1> HIDE DEF due, by
<1>4. \A c \in Players : then(c) \in Icons \cup {Absent}
  BY <1>2
<1>5. \A q, c \in Players : show(q, c) \in Icons \cup {Absent}
  BY <1>2, <1>3
<1>6. \A q \in Players : \A c \in Players \ {q} : screen'[q] = "map" => show(q, c) = by(q, c)
  OBVIOUS
<1>7. \A q \in Players : screen'[q] = "map" =>
         show(q, q) = IF q = p /\ due(q) # Absent THEN due(q) ELSE drawn[q][q]
  OBVIOUS
<1> HIDE DEF show
<1>8. \A q, c \in Players : drawn'[q][c] = show(q, c)
  BY <1>1
<1>9. drawn' \in [Players -> [Players -> Icons \cup {Absent}]]
  BY <1>1, <1>5
<1>10. owed' \in [Players -> Icons \cup {Absent}] /\ \A c \in Players : owed'[c] = then(c)
  BY <1>1, <1>4
<1>11. IconsTyped'
  BY <1>1, <1>9, <1>10 DEF IconsTyped
<1> QED BY <1>1, <1>6, <1>7, <1>8, <1>10, <1>11 DEF due, by

(* A step that shows the icons of `who`, where nobody comes back to a map,  *)
(* keeps every scene true: whoever's icon moved is in `who`, and whoever is *)
(* passed over has no map up.                                              *)
LEMMA IconsShown ==
  ASSUME GoneIsGone, IconsInv, NEW p \in Players, NEW who, NEW skip,
         ShowIcons(p, who, skip), place' = place,
         \A q \in Players : screen'[q] = "map" =>
            screen[q] = "map" /\ (~Hidden(q)' => ~Hidden(q)),
         \A c \in Players : ~Hidden(c)' => ~Hidden(c) \/ c \in who \ skip \/ owed[c] = Absent,
         \A q \in Players : q \in skip => Hidden(q)' \/ (owed[q] = Absent /\ screen'[q] # "map"),
         \A c \in Players \ who : place[c] # Nowhere => Action(c)' = Action(c)
  PROVE  IconsInv'
<1>1. /\ IconsTyped' /\ inherited' = inherited \ who
      /\ \A c \in Players : owed'[c] = IF c = p THEN Absent ELSE OwedTo(c, who, skip)
      /\ \A q \in Players : \A c \in Players \ {q} :
              screen'[q] = "map" => drawn'[q][c] = DrawnBy(q, c, who, skip)
      /\ \A q \in Players : screen'[q] = "map" =>
              drawn'[q][q] = IF q = p /\ OwedTo(q, who, skip) # Absent THEN OwedTo(q, who, skip)
                             ELSE drawn[q][q]
  BY ShownIs DEF IconsInv
<1>2. /\ \A c : Action(c)' # Absent
      /\ \A c \in Players : (place[c] = Nowhere => owed[c] = Absent) /\ (screen[c] = "off" <=> place[c] = Nowhere)
  BY ActionTyped DEF GoneIsGone
<1>3. \A c \in Players \ who : \A icon : place[c] # Nowhere /\ Shows(c, icon) => icon = Action(c)' \/ c \in inherited'
  BY <1>1 DEF Shows
<1>4. ASSUME NEW q \in Players, screen'[q] = "map", NEW c \in Players \ {q}
      PROVE  /\ drawn'[q][c] # Absent => place'[c] = place'[q]
             /\ place'[c] = place'[q] /\ screen'[c] = "map" => drawn'[q][c] # Absent
             /\ drawn'[q][c] # Absent /\ ~Hidden(q)' => drawn'[q][c] = Action(c)' \/ c \in inherited'
  <2>1. /\ screen[q] = "map" /\ place[q] # Nowhere
        /\ drawn'[q][c] = DrawnBy(q, c, who, skip)
    BY <1>1, <1>2, <1>4
  <2>2. /\ drawn[q][c] # Absent => place[c] = place[q]
        /\ place[c] = place[q] /\ screen[c] = "map" => drawn[q][c] # Absent
        /\ drawn[q][c] # Absent /\ ~Hidden(q) => Shows(c, drawn[q][c])
    BY <2>1 DEF IconsInv, ScenesAreTrue
  <2>3. drawn'[q][c] # Absent <=> drawn[q][c] # Absent
    BY <1>2, <2>1 DEF DrawnBy
  <2>4. ASSUME drawn'[q][c] # Absent, ~Hidden(q)'
        PROVE  drawn'[q][c] = Action(c)' \/ c \in inherited'
    <3>1. drawn[q][c] # Absent /\ place[c] = place[q] /\ ~Hidden(q) /\ q \notin skip
      BY <1>4, <2>2, <2>3, <2>4
    <3>2. CASE c \in who
      BY <1>4, <2>1, <3>1, <3>2 DEF DrawnBy
    <3>3. CASE c \notin who
      <4>1. drawn'[q][c] = drawn[q][c]
        BY <2>1, <3>3 DEF DrawnBy
      <4> QED BY <1>3, <2>1, <2>2, <3>1, <3>3, <4>1
    <3> QED BY <3>2, <3>3
  <2> QED BY <1>4, <2>2, <2>3, <2>4
<1>5. ASSUME NEW c \in Players, ~Hidden(c)'
      PROVE  /\ owed'[c] # Absent => owed'[c] = Action(c)' \/ c \in inherited'
             /\ owed'[c] = Absent /\ screen'[c] = "map" => drawn'[c][c] = Action(c)' \/ c \in inherited'
  <2> DEFINE due == OwedTo(c, who, skip)
  <2>1. due # Absent => due = Action(c)' \/ c \in inherited'
    <3>1. CASE c \in who /\ c \notin skip
      BY <1>5, <3>1 DEF OwedTo
    <3>2. CASE ~(c \in who /\ c \notin skip)
      <4>1. due = owed[c]
        BY <3>2 DEF OwedTo
      <4>2. CASE owed[c] = Absent
        BY <4>1, <4>2
      <4>3. CASE owed[c] # Absent
        <5>1. ~Hidden(c) /\ place[c] # Nowhere
          BY <1>2, <1>5, <3>2, <4>3
        <5>2. c \notin who
          BY <1>5, <3>2, <4>3
        <5>3. Shows(c, owed[c])
          BY <4>3, <5>1 DEF IconsInv, OwnIsTrue
        <5> QED BY <1>3, <4>1, <5>1, <5>2, <5>3
      <4> QED BY <4>2, <4>3
    <3> QED BY <3>1, <3>2
  <2>2. ASSUME due = Absent, screen'[c] = "map"
        PROVE  drawn[c][c] = Action(c)' \/ c \in inherited'
    <3>1. c \notin who
      BY <1>2, <1>5, <2>2 DEF OwedTo
    <3>2. owed[c] = Absent /\ ~Hidden(c) /\ screen[c] = "map" /\ place[c] # Nowhere
      BY <1>2, <1>5, <2>2, <3>1 DEF OwedTo
    <3>3. Shows(c, drawn[c][c])
      BY <3>2 DEF IconsInv, OwnIsTrue
    <3> QED BY <1>3, <3>1, <3>2, <3>3
  <2>3. owed'[c] = IF c = p THEN Absent ELSE due
    BY <1>1
  <2>4. screen'[c] = "map" => drawn'[c][c] = IF c = p /\ due # Absent THEN due ELSE drawn[c][c]
    BY <1>1
  <2> HIDE DEF due
  <2> QED BY <2>1, <2>2, <2>3, <2>4
<1>6. ScenesAreTrue'
  BY <1>4 DEF ScenesAreTrue, Shows
<1>7. OwnIsTrue'
  BY <1>5 DEF OwnIsTrue, Shows
<1> QED BY <1>1, <1>6, <1>7 DEF IconsInv

-----------------------------------------------------------------------------
(* Fights, and who is gone.                                                *)
LEMMA FreeOnMap ==
  ASSUME RoomsInv, NEW p \in Players, OnMap(p)
  PROVE  ~InFight(p) /\ place[p] # Nowhere /\ screen[p] = "map"
<1>1. ASSUME NEW f \in fights, p \in f.all
      PROVE  FALSE
  <2>1. FightHolds(f)
    BY DEF RoomsInv, FightsHold
  <2> QED BY <1>1, <2>1 DEF FightHolds, OnMap
<1> QED BY <1>1 DEF InFight, OnMap

(* A room with a fighter in it is all in that fight.                       *)
LEMMA FreeRoom ==
  ASSUME RoomsInv, NEW l \in Players, NEW c \in Ids(training[l]), ~InFight(c), NEW f \in fights
  PROVE  Ids(training[l]) \cap f.all = {}
<1>1. FightHolds(f)
  BY DEF RoomsInv, FightsHold
<1>2. c \notin f.all
  BY DEF InFight
<1> QED BY <1>1, <1>2 DEF FightHolds

LEMMA FightsStay ==
  ASSUME FightsHold, MapTyped, fights' = fights,
         \A c \in Players : place[c] = Nowhere => place'[c] = Nowhere \/ ~InFight(c),
         \A c \in Players : screen'[c] = "fight" <=> screen[c] = "fight",
         \A c \in Players, l \in Players : InFight(c) /\ c \in Ids(training[l]) =>
            \E k \in Players : c \in Ids(training'[k]),
         \A f \in fights, l \in Players :
            Ids(training'[l]) \cap f.all # {} => Ids(training'[l]) \subseteq f.all
  PROVE  FightsHold'
<1>1. \A f \in fights : f.all \subseteq Players /\ f.gone \subseteq Players
  BY DEF MapTyped
<1>2. ASSUME NEW f \in fights
      PROVE  FightHolds(f)'
  <2>1. FightHolds(f)
    BY DEF FightsHold
  <2>2. \A c \in f.all : InFight(c)
    BY DEF InFight
  <2>3. ASSUME NEW c \in f.all \ f.gone
        PROVE  screen'[c] = "fight" /\ \E k \in Players : c \in Ids(training'[k])
    <3>1. c \in Players /\ InFight(c)
      BY <1>1, <2>2
    <3> QED BY <2>1, <3>1 DEF FightHolds
  <2>4. \A c \in f.gone : place'[c] = Nowhere
    BY <1>1, <2>1, <2>2 DEF FightHolds
  <2> QED BY <2>1, <2>3, <2>4 DEF FightHolds, Ids
<1>3. FightsAreFought'
  <2>1. FightsAreFought
    BY DEF FightsHold
  <2> QED BY <2>1 DEF FightsAreFought
<1>4. \A f, g \in fights : f.all \cap g.all # {} => f = g
  BY DEF FightsHold
<1> QED BY <1>2, <1>3, <1>4 DEF FightsHold

LEMMA GoneStays ==
  ASSUME GoneIsGone, IconsTyped, NEW p \in Players, NEW who, NEW skip,
         ShowIcons(p, who, skip), place' = place,
         \A c \in Players : screen'[c] = "off" <=> screen[c] = "off",
         \A c \in who : place[c] # Nowhere,
         \A c \in Players : place[c] = Nowhere =>
            /\ \A l \in Players : c \notin Ids(training'[l]) /\ c \notin ChatSeats(l)'
            /\ c \notin signs' /\ c \notin lesson'
  PROVE  GoneIsGone'
<1>1. \A c \in Players : owed'[c] = IF c = p THEN Absent ELSE OwedTo(c, who, skip)
  BY ShownIs
<1>2. \A c \in Players : place[c] = Nowhere => OwedTo(c, who, skip) = Absent
  BY DEF OwedTo, GoneIsGone
<1>3. \A c \in Players : place[c] = Nowhere => owed'[c] = Absent
  BY <1>1, <1>2
<1>4. \A c \in Players : screen'[c] = "off" <=> place'[c] = Nowhere
  BY DEF GoneIsGone
<1> QED BY <1>3, <1>4 DEF GoneIsGone, Ids

(* A handler that only puts people in or takes them out of rooms, or off    *)
(* the sign list: whoever's standing changed is told of.                   *)
SeatedOnlyMore(p) ==
  /\ \A l \in Players, c \in Players : c \in Ids(training'[l]) =>
       c = p \/ \E k \in Players : c \in Ids(training[k])
  /\ \A l \in Players, c \in Players : c \in ChatSeats(l)' =>
       c = p \/ \E k \in Players : c \in ChatSeats(k)
  /\ signs' \subseteq signs \cup {p}

ToldOf(who) ==
  \A c \in Players \ who : place[c] # Nowhere =>
    /\ training'[c].members # <<>> <=> training[c].members # <<>>
    /\ chats'[c] # <<>> <=> chats[c] # <<>>
    /\ c \in signs' <=> c \in signs
    /\ ChatRoomOf(c)' # {} <=> ChatRoomOf(c) # {}

LEMMA StillKeeps ==
  ASSUME IInv, NEW p \in Players, OnMap(p), UNCHANGED still, NEW who, NEW skip,
         ShowIcons(p, who, skip), skip = {} \/ skip = Blocked',
         TrainingInv', ChatsInv', FightsHold', SeatedOnlyMore(p), ToldOf(who),
         \A c \in who : place[c] # Nowhere
  PROVE  IInv'
<1>1. RoomsInv /\ IconsInv /\ MapTyped /\ GoneIsGone
  BY DEF IInv, RoomsInv
<1>2. /\ place' = place /\ lesson' = lesson /\ fights' = fights /\ reading' = reading
      /\ screen' = screen
  BY DEF still
<1>3. place[p] # Nowhere /\ screen[p] = "map"
  BY DEF OnMap
<1>4. \A c : InFight(c)' <=> InFight(c)
  BY <1>2 DEF InFight
<1>5. \A c : Hidden(c)' <=> Hidden(c)
  BY <1>2, <1>4 DEF Hidden
<1>6. MapTyped'
  BY <1>1, <1>2 DEF MapTyped, SeatedOnlyMore
<1>7. GoneIsGone'
  <2>1. ASSUME NEW c \in Players, place[c] = Nowhere
        PROVE  /\ \A l \in Players : c \notin Ids(training'[l]) /\ c \notin ChatSeats(l)'
               /\ c \notin signs' /\ c \notin lesson'
    <3>1. c # p
      BY <1>3, <2>1
    <3>2. /\ \A l \in Players : c \notin Ids(training[l]) /\ c \notin ChatSeats(l)
          /\ c \notin signs /\ c \notin lesson
      BY <1>1, <2>1 DEF GoneIsGone
    <3> QED BY <1>2, <3>1, <3>2 DEF SeatedOnlyMore
  <2>2. \A c \in Players : screen'[c] = "off" <=> screen[c] = "off"
    BY <1>2
  <2>3. IconsTyped
    BY <1>1 DEF IconsInv
  <2> QED BY <1>1, <1>2, <2>1, <2>2, <2>3, GoneStays
<1>8. IconsInv'
  <2>1. \A c \in Players \ who : place[c] # Nowhere => Action(c)' = Action(c)
    BY <1>2, <1>4, ActionKept DEF ToldOf
  <2>2. \A q \in Players : screen'[q] = "map" =>
            screen[q] = "map" /\ (~Hidden(q)' => ~Hidden(q))
    BY <1>2, <1>5
  <2>3. \A c \in Players : ~Hidden(c)' => ~Hidden(c) \/ c \in who \ skip \/ owed[c] = Absent
    BY <1>5
  <2>4. \A q \in Players : q \in skip => Hidden(q)' \/ (owed[q] = Absent /\ screen'[q] # "map")
    BY DEF Blocked
  <2> QED BY <1>1, <1>2, <2>1, <2>2, <2>3, <2>4, IconsShown
<1> QED BY <1>6, <1>7, <1>8 DEF IInv, RoomsInv

LEMMA TrainingSame ==
  ASSUME TrainingInv, training' = training, roster' = roster
  PROVE  TrainingInv'
<1>1. Filed(Lists(training))' <=> Filed(Lists(training))
  BY DEF Filed, Lists
<1>2. RoomsTyped' /\ RosterTyped' /\ RosterShows'
  BY DEF TrainingInv, RoomsTyped, RosterTyped, RosterShows
<1>3. SidesFit'
  BY DEF TrainingInv, SidesFit
<1> QED BY <1>1, <1>2, <1>3 DEF TrainingInv

LEMMA ChatsSame ==
  ASSUME ChatsInv, chats' = chats, seats' = seats
  PROVE  ChatsInv' /\ \A o : ChatSeats(o)' = ChatSeats(o)
<1>1. \A o : ChatSeats(o)' = ChatSeats(o)
  BY DEF ChatSeats
<1>2. Filed(chats)'
  BY DEF ChatsInv, Filed
<1> QED BY <1>1, <1>2 DEF ChatsInv, SeatsShow

LEMMA NewLeadersAre ==
  ASSUME NEW k
  PROVE  /\ k \in NewLeaders <=> k \in Players /\ training'[k].members # <<>> /\ training[k].members = <<>>
         /\ k \in NewOwners <=> k \in Players /\ chats'[k] # <<>> /\ chats[k] = <<>>
BY DEF NewLeaders, NewOwners, Promoted

LEMMA FightsStill ==
  ASSUME RoomsInv, UNCHANGED still,
         \A c \in Players, l \in Players : InFight(c) /\ c \in Ids(training[l]) =>
            \E k \in Players : c \in Ids(training'[k]),
         \A f \in fights, l \in Players :
            Ids(training'[l]) \cap f.all # {} => Ids(training'[l]) \subseteq f.all
  PROVE  FightsHold'
BY FightsStay DEF still, RoomsInv

LEMMA FightsSame ==
  ASSUME RoomsInv, UNCHANGED still, training' = training
  PROVE  FightsHold'
<1>1. \A f \in fights, l \in Players :
            Ids(training'[l]) \cap f.all # {} => Ids(training'[l]) \subseteq f.all
  BY DEF RoomsInv, FightsHold, FightHolds
<1> QED BY <1>1, FightsStill

(* A room opens, is joined, or changes a row.                              *)
LEMMA FightsGrown ==
  ASSUME RoomsInv, UNCHANGED still, NEW l \in Players, NEW more, RoomGrown(l, more),
         more # {} => \A c \in Ids(training'[l]) : ~InFight(c)
  PROVE  /\ FightsHold'
         /\ \A k \in Players, c \in Players : c \in Ids(training'[k]) =>
              c \in more \/ c \in Ids(training[k])
<1>1. /\ Ids(training'[l]) = Ids(training[l]) \cup more
      /\ \A k \in Players \ {l} : training'[k] = training[k]
  BY DEF RoomGrown
<1>2. ASSUME NEW c \in Players, NEW k \in Players, c \in Ids(training[k])
      PROVE  c \in Ids(training'[k])
  BY <1>1, <1>2
<1>3. ASSUME NEW f \in fights, NEW k \in Players, Ids(training'[k]) \cap f.all # {}
      PROVE  Ids(training'[k]) \subseteq f.all
  <2>1. Ids(training[k]) \cap f.all # {} => Ids(training[k]) \subseteq f.all
    BY DEF RoomsInv, FightsHold, FightHolds
  <2>2. CASE k # l \/ more = {}
    <3>1. Ids(training'[k]) = Ids(training[k])
      BY <1>1, <2>2
    <3> QED BY <1>3, <2>1, <3>1
  <2>3. CASE k = l /\ more # {}
    <3>1. \A c \in Ids(training'[k]) : c \notin f.all
      BY <2>3 DEF InFight
    <3> QED BY <1>3, <3>1
  <2> QED BY <2>2, <2>3
<1>4. FightsHold'
  BY <1>2, <1>3, FightsStill
<1>5. \A k \in Players, c \in Players : c \in Ids(training'[k]) => c \in more \/ c \in Ids(training[k])
  BY <1>1
<1> QED BY <1>4, <1>5

LEMMA AddKeeps ==
  ASSUME IInv, NEW p \in Players, TrainingAdd(p)
  PROVE  IInv'
<1>1. RoomsInv /\ ChatsInv
  BY DEF IInv, RoomsInv
<1>2. TrainingInv' /\ RoomGrown(p, {p})
  BY <1>1, AddTraining
<1>3. OnMap(p) /\ UNCHANGED still /\ chats' = chats /\ signs' = signs /\ seats' = seats
      /\ ShowIcons(p, {p}, Blocked') /\ TrainingRoomOf(p) = {}
  BY DEF TrainingAdd, ShowOnlookers
<1>4. ChatsInv' /\ \A o : ChatSeats(o)' = ChatSeats(o)
  BY <1>1, <1>3, ChatsSame
<1>5. ~InFight(p) /\ place[p] # Nowhere
  BY <1>1, <1>3, FreeOnMap
<1>6. Ids(training'[p]) = {p}
  <2>1. training[p].members = <<>> <=> Ids(training[p]) = {}
    BY <1>1, RoomsAreFiled DEF RoomsInv
  <2>2. training[p].members # <<>> => p \in Ids(training[p])
    BY <1>1, RoomsAreFiled DEF RoomsInv
  <2>3. Ids(training[p]) = {}
    BY <1>3, <2>1, <2>2, NoRoomOf
  <2> QED BY <1>2, <2>3 DEF RoomGrown
<1>7. FightsHold' /\ \A k \in Players, c \in Players : c \in Ids(training'[k]) =>
         c \in {p} \/ c \in Ids(training[k])
  BY <1>1, <1>2, <1>3, <1>5, <1>6, FightsGrown
<1>8. SeatedOnlyMore(p)
  BY <1>3, <1>4, <1>7 DEF SeatedOnlyMore
<1>9. ToldOf({p})
  <2>1. \A c : ChatRoomOf(c)' = ChatRoomOf(c)
    BY <1>4 DEF ChatRoomOf
  <2>2. \A c \in Players \ {p} : training'[c] = training[c]
    BY <1>2 DEF RoomGrown
  <2> QED BY <1>3, <2>1, <2>2 DEF ToldOf
<1> QED BY <1>2, <1>3, <1>4, <1>5, <1>7, <1>8, <1>9, StillKeeps

LEMMA JoinKeeps ==
  ASSUME IInv, NEW p \in Players, NEW l \in Players, TrainingJoin(p, l)
  PROVE  IInv'
<1>1. RoomsInv /\ ChatsInv
  BY DEF IInv, RoomsInv
<1>2. TrainingInv' /\ RoomGrown(l, {p}) /\ training[l].members # <<>>
  BY <1>1, JoinTraining
<1>3. OnMap(p) /\ UNCHANGED still /\ chats' = chats /\ signs' = signs /\ seats' = seats
      /\ ShowIcons(p, {}, {}) /\ \A c \in Ids(training[l]) : ~InFight(c)
  BY DEF TrainingJoin
<1>4. ChatsInv' /\ \A o : ChatSeats(o)' = ChatSeats(o)
  BY <1>1, <1>3, ChatsSame
<1>5. ~InFight(p) /\ place[p] # Nowhere
  BY <1>1, <1>3, FreeOnMap
<1>6. \A c \in Ids(training'[l]) : ~InFight(c)
  BY <1>2, <1>3, <1>5 DEF RoomGrown
<1>7. FightsHold' /\ \A k \in Players, c \in Players : c \in Ids(training'[k]) =>
         c \in {p} \/ c \in Ids(training[k])
  BY <1>1, <1>2, <1>3, <1>6, FightsGrown
<1>8. SeatedOnlyMore(p)
  BY <1>3, <1>4, <1>7 DEF SeatedOnlyMore
<1>9. ToldOf({})
  <2>1. \A c : ChatRoomOf(c)' = ChatRoomOf(c)
    BY <1>4 DEF ChatRoomOf
  <2>2. \A c \in Players : training'[c].members # <<>> <=> training[c].members # <<>>
    BY <1>2 DEF RoomGrown
  <2> QED BY <1>3, <2>1, <2>2 DEF ToldOf
<1> QED BY <1>2, <1>3, <1>4, <1>7, <1>8, <1>9, StillKeeps

(* A row of the window changes.                                            *)
LEMMA RowKeeps ==
  ASSUME IInv, NEW p \in Players, OnMap(p), UNCHANGED still,
         chats' = chats, signs' = signs, seats' = seats, ShowIcons(p, {}, {}),
         TrainingInv', NEW l \in Players, RoomGrown(l, {}), training[l].members # <<>>
  PROVE  IInv'
<1>1. RoomsInv /\ ChatsInv
  BY DEF IInv, RoomsInv
<1>4. ChatsInv' /\ \A o : ChatSeats(o)' = ChatSeats(o)
  BY <1>1, ChatsSame
<1>7. FightsHold' /\ \A k \in Players, c \in Players : c \in Ids(training'[k]) =>
         c \in {} \/ c \in Ids(training[k])
  BY <1>1, FightsGrown
<1>8. SeatedOnlyMore(p)
  BY <1>4, <1>7 DEF SeatedOnlyMore
<1>9. ToldOf({})
  <2>1. \A c : ChatRoomOf(c)' = ChatRoomOf(c)
    BY <1>4 DEF ChatRoomOf
  <2>2. \A c \in Players : training'[c].members # <<>> <=> training[c].members # <<>>
    BY DEF RoomGrown
  <2> QED BY <2>1, <2>2 DEF ToldOf
<1> QED BY <1>4, <1>7, <1>8, <1>9, StillKeeps

LEMMA ReadyKeeps ==
  ASSUME IInv, NEW p \in Players, NEW on \in BOOLEAN, TrainingReady(p, on)
  PROVE  IInv'
<1>1. PICK l \in Players : RoomGrown(l, {}) /\ training[l].members # <<>>
  BY ReadyTraining DEF IInv
<1>2. TrainingInv'
  BY ReadyTraining DEF IInv
<1>3. OnMap(p) /\ UNCHANGED still /\ chats' = chats /\ signs' = signs /\ seats' = seats
      /\ ShowIcons(p, {}, {})
  BY DEF TrainingReady
<1> QED BY <1>1, <1>2, <1>3, RowKeeps

LEMMA TeamKeeps ==
  ASSUME IInv, NEW p \in Players, NEW a \in BOOLEAN, TrainingTeam(p, a)
  PROVE  IInv'
<1>1. PICK l \in Players : RoomGrown(l, {}) /\ training[l].members # <<>>
  BY TeamTraining DEF IInv
<1>2. TrainingInv'
  BY TeamTraining DEF IInv
<1>3. OnMap(p) /\ UNCHANGED still /\ chats' = chats /\ signs' = signs /\ seats' = seats
      /\ ShowIcons(p, {}, {})
  BY DEF TrainingTeam
<1> QED BY <1>1, <1>2, <1>3, RowKeeps

(* Somebody leaves their training room, or is sent out of it.              *)
LEMMA FightsParted ==
  ASSUME RoomsInv, UNCHANGED still, NEW c \in Players, ~InFight(c),
         training' = PartTraining({c}), roster' = RosterWithout(c)
  PROVE  /\ TrainingInv' /\ FightsHold'
         /\ \A k \in Players, d \in Players : d \in Ids(training'[k]) =>
              d # c /\ \E l \in Players : d \in Ids(training[l])
         /\ \A l \in Players \ {c} : training[l].members # <<>> => training'[l].members # <<>>
<1>1. TrainingInv
  BY DEF RoomsInv
<1>2. TrainingInv'
  <2> DEFINE gone == {c}
  <2>1. training' = PartTraining(gone) /\ PartedRoster(gone)
    BY <1>1, RosterWithoutOne
  <2> HIDE DEF gone
  <2> QED BY <1>1, <2>1, TrainingParted
<1> DEFINE gone == {c}
           R == training'
<1>3. /\ \A k \in Players : \A d : d \in Ids(R[k]) =>
           /\ d \notin gone
           /\ \E l \in Players : /\ d \in Ids(training[l])
                                 /\ Ids(R[k]) = Ids(training[l]) \ gone
      /\ \A l \in Players : \A d : d \in Ids(training[l]) \ gone => \E k \in Players : d \in Ids(R[k])
      /\ \A l \in Players \ gone : training[l].members # <<>> => R[l].members # <<>>
  <2>1. R = PartTraining(gone)
    OBVIOUS
  <2> HIDE DEF gone
  <2>2. /\ \A k \in Players : \A d : d \in Ids(training'[k]) =>
              /\ d \notin gone
              /\ \E l \in Players : /\ d \in Ids(training[l])
                                    /\ training'[k] = PartRoom(training[l], gone)
                                    /\ Ids(training'[k]) = Ids(training[l]) \ gone
        /\ \A l \in Players : \A d : d \in Ids(training[l]) \ gone =>
              \E k \in Players : d \in Ids(training'[k])
        /\ \A l \in Players \ gone : training[l].members # <<>> => training'[l].members # <<>>
    BY <1>1, <2>1, PartedRoomsAre
  <2> QED BY <2>2
<1>4. \A d : d \in gone <=> d = c
  OBVIOUS
<1> HIDE DEF gone, R
<1>5. \A d \in Players, l \in Players : InFight(d) /\ d \in Ids(training[l]) =>
            \E k \in Players : d \in Ids(R[k])
  BY <1>3, <1>4
<1>6. ASSUME NEW f \in fights, NEW k \in Players, Ids(R[k]) \cap f.all # {}
      PROVE  Ids(R[k]) \subseteq f.all
  <2>1. PICK d : d \in Ids(R[k]) /\ d \in f.all
    BY <1>6
  <2>2. PICK l \in Players : d \in Ids(training[l]) /\ Ids(R[k]) = Ids(training[l]) \ gone
    BY <1>3, <2>1
  <2>3. Ids(training[l]) \subseteq f.all
    BY <2>1, <2>2 DEF RoomsInv, FightsHold, FightHolds
  <2> QED BY <2>2, <2>3
<1>7. FightsHold'
  BY <1>5, <1>6, FightsStill DEF R
<1>8. \A k \in Players, d \in Players : d \in Ids(R[k]) =>
              d # c /\ \E l \in Players : d \in Ids(training[l])
  BY <1>3, <1>4
<1>9. \A l \in Players \ {c} : training[l].members # <<>> => R[l].members # <<>>
  BY <1>3, <1>4
<1> QED BY <1>2, <1>7, <1>8, <1>9 DEF R

LEMMA PartKeeps ==
  ASSUME IInv, NEW p \in Players, TrainingPart(p)
  PROVE  IInv'
<1>1. RoomsInv /\ ChatsInv /\ GoneIsGone
  BY DEF IInv, RoomsInv
<1> DEFINE who == {p} \cup NewLeaders
<1>2. OnMap(p) /\ UNCHANGED still /\ chats' = chats /\ signs' = signs /\ seats' = seats
      /\ training' = PartTraining({p}) /\ roster' = RosterWithout(p)
      /\ ShowIcons(p, who, Blocked')
  BY DEF TrainingPart, ShowOnlookers
<1> HIDE DEF who
<1>3. ChatsInv' /\ \A o : ChatSeats(o)' = ChatSeats(o)
  BY <1>1, <1>2, ChatsSame
<1>4. ~InFight(p) /\ place[p] # Nowhere
  BY <1>1, <1>2, FreeOnMap
<1>5. /\ TrainingInv' /\ FightsHold'
      /\ \A k \in Players, d \in Players : d \in Ids(training'[k]) =>
              d # p /\ \E l \in Players : d \in Ids(training[l])
      /\ \A l \in Players \ {p} : training[l].members # <<>> => training'[l].members # <<>>
  BY <1>1, <1>2, <1>4, FightsParted
<1>6. SeatedOnlyMore(p)
  BY <1>2, <1>3, <1>5 DEF SeatedOnlyMore
<1>7. ToldOf(who)
  <2>1. \A c : ChatRoomOf(c)' = ChatRoomOf(c)
    BY <1>3 DEF ChatRoomOf
  <2>2. \A c \in Players \ who : training'[c].members # <<>> <=> training[c].members # <<>>
    BY <1>5, NewLeadersAre DEF who
  <2> QED BY <1>2, <2>1, <2>2 DEF ToldOf
<1>8. \A c \in who : place[c] # Nowhere
  <2>1. \A c \in NewLeaders : c \in Players /\ c \in Ids(training'[c])
    <3>1. \A c \in Players : training'[c].members # <<>> => c \in Ids(training'[c])
      BY <1>5 DEF TrainingInv, Filed, Lists, Among, Ids
    <3> QED BY <3>1, NewLeadersAre
  <2>2. \A c \in NewLeaders : place[c] # Nowhere
    BY <1>1, <1>5, <2>1 DEF GoneIsGone
  <2> QED BY <1>4, <2>2 DEF who
<1> QED BY <1>2, <1>3, <1>5, <1>6, <1>7, <1>8, StillKeeps

LEMMA KickKeeps ==
  ASSUME IInv, NEW p \in Players, NEW c \in Players, TrainingKick(p, c)
  PROVE  IInv'
<1>1. RoomsInv /\ ChatsInv /\ TrainingInv
  BY DEF IInv, RoomsInv
<1>2. OnMap(p) /\ UNCHANGED still /\ chats' = chats /\ signs' = signs /\ seats' = seats
      /\ training' = PartTraining({c}) /\ roster' = RosterWithout(c)
      /\ ShowIcons(p, {}, {}) /\ c # p /\ c \in Ids(training[p])
  BY DEF TrainingKick
<1>3. ChatsInv' /\ \A o : ChatSeats(o)' = ChatSeats(o)
  BY <1>1, <1>2, ChatsSame
<1>4. /\ \A l \in Players : training[l].members # <<>> => l \in Ids(training[l])
      /\ \A l \in Players : training[l].members = <<>> <=> Ids(training[l]) = {}
      /\ \A l, k \in Players : \A d : d \in Ids(training[l]) /\ d \in Ids(training[k]) => l = k
  BY <1>1, RoomsAreFiled
<1>5. ~InFight(c)
  <2>1. ~InFight(p)
    BY <1>1, <1>2, FreeOnMap
  <2>2. p \in Ids(training[p])
    BY <1>2, <1>4
  <2>3. \A f \in fights : Ids(training[p]) \cap f.all = {}
    BY <1>1, <2>1, <2>2, FreeRoom
  <2> QED BY <1>2, <2>3 DEF InFight
<1>6. /\ TrainingInv' /\ FightsHold'
      /\ \A k \in Players, d \in Players : d \in Ids(training'[k]) =>
              d # c /\ \E l \in Players : d \in Ids(training[l])
      /\ \A l \in Players \ {c} : training[l].members # <<>> => training'[l].members # <<>>
  BY <1>1, <1>2, <1>5, FightsParted
<1>7. \A k \in Players : training'[k].members # <<>> <=> training[k].members # <<>>
  <2> TAKE k \in Players
  <2>1. training[k].members # <<>> => k # c
    BY <1>2, <1>4
  <2>2. ASSUME training'[k].members # <<>>
        PROVE  training[k].members # <<>>
    <3>1. training' = PartTraining({c}) /\ RoomsTyped /\ Filed(Lists(training))
      BY <1>1, <1>2 DEF TrainingInv
    <3> DEFINE gone == {c}
               T == Lists(training)
               R == training'
    <3>2. PartedList(T, Lists(R), gone)
      <4>1. R = PartTraining(gone)
        BY <3>1
      <4> HIDE DEF gone
      <4>2. PartedRooms(R, gone)
        BY <3>1, <4>1, TrainingParts
      <4> QED BY <4>2 DEF PartedRooms
    <3>3. Lists(R)[k] # <<>> /\ \A d : d \in gone <=> d = c
      BY <2>2 DEF Lists
    <3>4. Filed(T) /\ \A l \in Players : T[l] = training[l].members /\ Among(T[l]) = Ids(training[l])
      BY <1>1, <3>1, RoomsAreFiled
    <3> HIDE DEF gone, T, R
    <3>5. PICK l \in Players : Survives(T, gone, l) /\ k = Leads(T, gone, l)
      BY <3>2, <3>3 DEF PartedList
    <3>6. CASE l = c
      <4>1. Among(T[l]) # {}
        BY <3>5 DEF Survives
      <4> QED BY <1>2, <1>4, <3>4, <3>6, <4>1
    <3>7. CASE l # c
      <4>1. k = l
        BY <3>3, <3>4, <3>5, <3>7, HeirIsThere
      <4>2. Among(T[l]) # {}
        BY <3>5 DEF Survives
      <4> QED BY <1>4, <3>4, <4>1, <4>2
    <3> QED BY <3>6, <3>7
  <2> QED BY <1>6, <2>1, <2>2
<1>8. SeatedOnlyMore(p)
  BY <1>2, <1>3, <1>6 DEF SeatedOnlyMore
<1>9. ToldOf({})
  <2>1. \A d : ChatRoomOf(d)' = ChatRoomOf(d)
    BY <1>3 DEF ChatRoomOf
  <2> QED BY <1>2, <1>7, <2>1 DEF ToldOf
<1> QED BY <1>2, <1>3, <1>6, <1>8, <1>9, StillKeeps

(* The chat rooms.                                                         *)
LEMMA ChatGrowsKeeps ==
  ASSUME IInv, NEW p \in Players, OnMap(p), UNCHANGED still, training' = training,
         signs' = signs, roster' = roster, ShowIcons(p, {p}, Blocked'),
         ChatsInv', NEW o \in Players, ChatGrown(o, p), o = p \/ chats[o] # <<>>
  PROVE  IInv'
<1>1. RoomsInv /\ TrainingInv
  BY DEF IInv, RoomsInv
<1>2. TrainingInv' /\ FightsHold'
  BY <1>1, TrainingSame, FightsSame
<1>3. place[p] # Nowhere
  BY DEF OnMap
<1>4. \A k \in Players : ChatSeats(k)' = IF k = o THEN ChatSeats(k) \cup {p} ELSE ChatSeats(k)
  BY DEF ChatGrown, ChatSeats
<1>5. SeatedOnlyMore(p)
  BY <1>4 DEF SeatedOnlyMore
<1>6. ToldOf({p})
  <2>1. ASSUME NEW c \in Players, c # p
        PROVE  ChatRoomOf(c)' = ChatRoomOf(c) /\ (chats'[c] # <<>> <=> chats[c] # <<>>)
    <3>1. ChatRoomOf(c)' = ChatRoomOf(c)
      BY <1>4, <2>1 DEF ChatRoomOf
    <3>2. chats'[c] # <<>> <=> chats[c] # <<>>
      BY <2>1 DEF ChatGrown
    <3> QED BY <3>1, <3>2
  <2> QED BY <2>1 DEF ToldOf
<1> QED BY <1>2, <1>3, <1>5, <1>6, StillKeeps

LEMMA ChatAddKeeps ==
  ASSUME IInv, NEW p \in Players, ChatAdd(p)
  PROVE  IInv'
<1>1. ChatsInv' /\ ChatGrown(p, p)
  BY AddChat DEF IInv
<1>2. OnMap(p) /\ UNCHANGED still /\ training' = training /\ signs' = signs /\ roster' = roster
      /\ ShowIcons(p, {p}, Blocked')
  BY DEF ChatAdd, ShowOnlookers
<1> QED BY <1>1, <1>2, ChatGrowsKeeps

LEMMA ChatJoinKeeps ==
  ASSUME IInv, NEW p \in Players, NEW o \in Players, ChatJoin(p, o)
  PROVE  IInv'
<1>1. ChatsInv' /\ ChatGrown(o, p) /\ chats[o] # <<>>
  BY JoinChat DEF IInv
<1>2. OnMap(p) /\ UNCHANGED still /\ training' = training /\ signs' = signs /\ roster' = roster
      /\ ShowIcons(p, {p}, Blocked')
  BY DEF ChatJoin, ShowOnlookers
<1> QED BY <1>1, <1>2, ChatGrowsKeeps

LEMMA ChatPartKeeps ==
  ASSUME IInv, NEW p \in Players, ChatPart(p)
  PROVE  IInv'
<1>1. RoomsInv /\ TrainingInv /\ ChatsInv /\ GoneIsGone
  BY DEF IInv, RoomsInv
<1> DEFINE who == {p} \cup NewOwners
<1>2. OnMap(p) /\ UNCHANGED still /\ training' = training /\ signs' = signs /\ roster' = roster
      /\ chats' = PartChat({p}) /\ seats' = SeatsWithout(p) /\ ShowIcons(p, who, Blocked')
  BY DEF ChatPart, ShowOnlookers
<1>3. TrainingInv' /\ FightsHold'
  BY <1>1, <1>2, TrainingSame, FightsSame
<1>4. /\ ChatsInv'
      /\ \A k \in Players : \A c : c \in ChatSeats(k)' => c # p /\ \E o \in Players : c \in ChatSeats(o)
      /\ \A o \in Players : \A c : c \in ChatSeats(o) /\ c # p => \E k \in Players : c \in ChatSeats(k)'
      /\ \A o \in Players \ {p} : chats[o] # <<>> => chats'[o] # <<>>
  BY <1>1, <1>2, PartedChatsAre
<1>5. SeatedOnlyMore(p)
  BY <1>2, <1>4 DEF SeatedOnlyMore
<1>6. ToldOf(who)
  <2>1. ASSUME NEW c \in Players, c \notin who
        PROVE  (ChatRoomOf(c)' # {} <=> ChatRoomOf(c) # {}) /\ (chats'[c] # <<>> <=> chats[c] # <<>>)
    <3>1. c # p /\ c \notin NewOwners
      BY <2>1
    <3>2. chats'[c] # <<>> <=> chats[c] # <<>>
      BY <1>4, <3>1, NewLeadersAre
    <3>3. (\E k \in Players : c \in ChatSeats(k)') <=> \E k \in Players : c \in ChatSeats(k)
      BY <1>4, <3>1
    <3>4. (ChatRoomOf(c) # {} <=> \E k \in Players : c \in ChatSeats(k))
          /\ (ChatRoomOf(c)' # {} <=> \E k \in Players : c \in ChatSeats(k)')
      BY DEF ChatRoomOf
    <3> QED BY <3>2, <3>3, <3>4
  <2> QED BY <1>2, <2>1 DEF ToldOf
<1>7. \A c \in who : place[c] # Nowhere
  <2>1. \A c \in Players : chats'[c] # <<>> => c \in ChatSeats(c)'
    BY <1>4 DEF ChatsInv, Filed, ChatSeats, Among
  <2>2. \A c \in NewOwners : \E o \in Players : c \in ChatSeats(o)
    BY <1>4, <2>1, NewLeadersAre
  <2>3. \A c \in NewOwners : c \in Players
    BY NewLeadersAre
  <2>4. \A c \in NewOwners : place[c] # Nowhere
    BY <1>1, <2>2, <2>3 DEF GoneIsGone
  <2>5. place[p] # Nowhere
    BY <1>2 DEF OnMap
  <2> QED BY <2>4, <2>5
<1> HIDE DEF who
<1> QED BY <1>2, <1>3, <1>4, <1>5, <1>6, <1>7, StillKeeps

(* The notice board.                                                       *)
LEMMA SignKeeps ==
  ASSUME IInv, NEW p \in Players, SignUp(p) \/ SignDown(p)
  PROVE  IInv'
<1>1. RoomsInv /\ TrainingInv /\ ChatsInv
  BY DEF IInv, RoomsInv
<1>2. /\ OnMap(p) /\ UNCHANGED still /\ training' = training /\ chats' = chats
      /\ roster' = roster /\ seats' = seats /\ ShowIcons(p, {p}, Blocked')
      /\ signs' = signs \cup {p} \/ signs' = signs \ {p}
  BY DEF SignUp, SignDown, ShowOnlookers, windows
<1>3. TrainingInv' /\ FightsHold' /\ ChatsInv' /\ \A o : ChatSeats(o)' = ChatSeats(o)
  BY <1>1, <1>2, TrainingSame, FightsSame, ChatsSame
<1>4. SeatedOnlyMore(p)
  BY <1>2, <1>3 DEF SeatedOnlyMore
<1>5. ToldOf({p})
  <2>1. \A c : ChatRoomOf(c)' = ChatRoomOf(c)
    BY <1>3 DEF ChatRoomOf
  <2>2. \A c \in Players \ {p} : c \in signs' <=> c \in signs
    BY <1>2
  <2> QED BY <1>2, <2>1, <2>2 DEF ToldOf
<1>6. place[p] # Nowhere
  BY <1>2 DEF OnMap
<1> QED BY <1>2, <1>3, <1>4, <1>5, <1>6, StillKeeps

-----------------------------------------------------------------------------
(* What takes the map away and gives it back.                              *)
LEMMA ElsewhereKeeps ==
  ASSUME IInv, NEW p \in Players, NEW who, NEW skip, place' = place,
         UNCHANGED <<boards, windows>>, ShowIcons(p, who, skip), MapTyped', FightsHold',
         \A c \in who : place[c] # Nowhere,
         \A c \in Players : screen'[c] = "off" <=> screen[c] = "off",
         \A c \in Players : place[c] = Nowhere => c \notin lesson',
         \A q \in Players : screen'[q] = "map" =>
            screen[q] = "map" /\ (~Hidden(q)' => ~Hidden(q)),
         \A c \in Players : ~Hidden(c)' => ~Hidden(c) \/ c \in who \ skip,
         \A q \in skip : Hidden(q)',
         \A c \in Players \ who :
            /\ c \in lesson' <=> c \in lesson
            /\ InFight(c)' <=> InFight(c)
            /\ c \in reading' <=> c \in reading
  PROVE  IInv'
<1>1. RoomsInv /\ TrainingInv /\ ChatsInv /\ GoneIsGone /\ IconsInv /\ IconsTyped
  BY DEF IInv, RoomsInv, IconsInv
<1>2. training' = training /\ chats' = chats /\ signs' = signs /\ roster' = roster /\ seats' = seats
  BY DEF boards, windows
<1>3. TrainingInv' /\ ChatsInv' /\ \A o : ChatSeats(o)' = ChatSeats(o)
  BY <1>1, <1>2, TrainingSame, ChatsSame
<1>4. \A c : ChatRoomOf(c)' = ChatRoomOf(c)
  BY <1>3 DEF ChatRoomOf
<1>5. GoneIsGone'
  <2>1. \A c \in Players : place[c] = Nowhere =>
            /\ \A l \in Players : c \notin Ids(training'[l]) /\ c \notin ChatSeats(l)'
            /\ c \notin signs' /\ c \notin lesson'
    BY <1>1, <1>2, <1>3 DEF GoneIsGone
  <2> QED BY <1>1, <2>1, GoneStays
<1>6. \A c \in Players \ who : place[c] # Nowhere => Action(c)' = Action(c)
  BY <1>2, <1>4, ActionKept
<1>7. IconsInv'
  BY <1>1, <1>6, IconsShown
<1> QED BY <1>3, <1>5, <1>7 DEF IInv, RoomsInv

LEMMA ReadKeeps ==
  ASSUME IInv, NEW p \in Players, NEW open \in BOOLEAN, Read(p, open)
  PROVE  IInv'
<1>1. RoomsInv /\ MapTyped /\ FightsHold
  BY DEF IInv, RoomsInv
<1>2. /\ OnMap(p) /\ ShowIcons(p, {p}, Blocked')
      /\ place' = place /\ lesson' = lesson /\ fights' = fights /\ screen' = screen
      /\ UNCHANGED <<boards, windows>> /\ training' = training /\ signs' = signs
      /\ reading' = reading \cup {p} \/ reading' = reading \ {p}
  BY DEF Read, ShowOnlookers, boards
<1>3. \A c : (InFight(c)' <=> InFight(c)) /\ (Hidden(c)' <=> Hidden(c))
  BY <1>2 DEF InFight, Hidden
<1>4. MapTyped'
  BY <1>1, <1>2 DEF MapTyped
<1>5. FightsHold'
  <2>1. \A f \in fights, l \in Players :
            Ids(training'[l]) \cap f.all # {} => Ids(training'[l]) \subseteq f.all
    BY <1>1, <1>2 DEF FightsHold, FightHolds
  <2> QED BY <1>1, <1>2, <2>1, FightsStay
<1>6. place[p] # Nowhere
  BY <1>2 DEF OnMap
<1>7. \A c \in Players : place[c] = Nowhere => c \notin lesson'
  BY <1>1, <1>2 DEF RoomsInv, GoneIsGone
<1>8. \A q \in Blocked' : Hidden(q)'
  BY DEF Blocked
<1>9. \A c \in Players \ {p} : c \in reading' <=> c \in reading
  BY <1>2
<1> QED BY <1>2, <1>3, <1>4, <1>5, <1>6, <1>7, <1>8, <1>9, ElsewhereKeeps

LEMMA AttendKeeps ==
  ASSUME IInv, NEW p \in Players, Attend(p)
  PROVE  IInv'
<1>1. RoomsInv /\ MapTyped /\ FightsHold
  BY DEF IInv, RoomsInv
<1>2. /\ OnMap(p) /\ ShowIcons(p, {p}, Blocked')
      /\ place' = place /\ lesson' = lesson \cup {p} /\ fights' = fights
      /\ screen' = [screen EXCEPT ![p] = "lesson"]
      /\ UNCHANGED <<boards, windows>> /\ training' = training /\ signs' = signs
      /\ reading' = reading \ {p}
  BY DEF Attend, ShowOnlookers, boards
<1>3. /\ \A c : InFight(c)' <=> InFight(c)
      /\ Hidden(p)' /\ \A c : Hidden(c)' <=> Hidden(c) \/ c = p
  BY <1>2 DEF InFight, Hidden
<1>4. MapTyped'
  BY <1>1, <1>2 DEF MapTyped
<1>5. place[p] # Nowhere /\ screen[p] = "map"
  BY <1>2 DEF OnMap
<1>6. screen'[p] = "lesson" /\ \A c \in Players \ {p} : screen'[c] = screen[c]
  BY <1>1, <1>2 DEF MapTyped
<1>7. FightsHold'
  <2>1. \A f \in fights, l \in Players :
            Ids(training'[l]) \cap f.all # {} => Ids(training'[l]) \subseteq f.all
    BY <1>1, <1>2 DEF FightsHold, FightHolds
  <2>2. \A c \in Players : screen'[c] = "fight" <=> screen[c] = "fight"
    BY <1>5, <1>6
  <2> QED BY <1>1, <1>2, <2>1, <2>2, FightsStay
<1>8. \A c \in Players : place[c] = Nowhere => c \notin lesson'
  BY <1>1, <1>2, <1>5 DEF RoomsInv, GoneIsGone
<1>9. \A q \in Blocked' : Hidden(q)'
  BY DEF Blocked
<1>10. \A c \in Players \ {p} : (c \in reading' <=> c \in reading) /\ (c \in lesson' <=> c \in lesson)
  BY <1>2
<1>11. \A c \in Players : /\ screen'[c] = "off" <=> screen[c] = "off"
                          /\ screen'[c] = "map" => screen[c] = "map" /\ (~Hidden(c)' => ~Hidden(c))
                          /\ ~Hidden(c)' => ~Hidden(c)
  BY <1>3, <1>5, <1>6
<1> QED BY <1>2, <1>3, <1>4, <1>5, <1>7, <1>8, <1>9, <1>10, <1>11, ElsewhereKeeps

LEMMA LessonEndsKeeps ==
  ASSUME IInv, LessonEnds
  PROVE  IInv'
<1>1. RoomsInv /\ MapTyped /\ FightsHold /\ GoneIsGone
  BY DEF IInv, RoomsInv
<1> DEFINE shown(q) == IF q \in lesson /\ screen[q] # "fight" THEN "loading" ELSE screen[q]
<1>2. PICK p \in lesson : ShowOnlookers(p, lesson)
  BY DEF LessonEnds
<1>3. /\ place' = place /\ lesson' = {} /\ fights' = fights /\ reading' = reading
      /\ screen' = [q \in Players |-> shown(q)]
      /\ UNCHANGED <<boards, windows>> /\ training' = training /\ signs' = signs
  BY DEF LessonEnds, boards
<1>4. p \in Players /\ ShowIcons(p, lesson, Blocked') /\ lesson \subseteq Players
  BY <1>1, <1>2 DEF MapTyped, ShowOnlookers
<1>5. \A c \in lesson : place[c] # Nowhere /\ screen[c] # "off"
  BY <1>1, <1>4 DEF GoneIsGone
<1>6. \A c \in Players : shown(c) \in {"off", "map", "loading", "lesson", "fight"}
  BY <1>1 DEF MapTyped
<1>7. \A c \in Players : /\ shown(c) = "fight" <=> screen[c] = "fight"
                         /\ shown(c) = "off" <=> screen[c] = "off"
                         /\ shown(c) = "map" => screen[c] = "map" /\ c \notin lesson
  BY <1>5
<1> HIDE DEF shown
<1>8. /\ screen' \in [Players -> {"off", "map", "loading", "lesson", "fight"}]
      /\ \A c \in Players : screen'[c] = shown(c)
  BY <1>3, <1>6
<1>9. \A c : (InFight(c)' <=> InFight(c)) /\ (Hidden(c)' <=> InFight(c)) /\ (Hidden(c) <=> InFight(c) \/ c \in lesson)
  BY <1>3 DEF InFight, Hidden
<1>10. MapTyped'
  BY <1>1, <1>3, <1>8 DEF MapTyped
<1>11. FightsHold'
  <2>1. \A f \in fights, l \in Players :
            Ids(training'[l]) \cap f.all # {} => Ids(training'[l]) \subseteq f.all
    BY <1>1, <1>3 DEF FightsHold, FightHolds
  <2>2. \A c \in Players : screen'[c] = "fight" <=> screen[c] = "fight"
    BY <1>7, <1>8
  <2> QED BY <1>1, <1>3, <2>1, <2>2, FightsStay
<1>12. \A q \in Blocked' : Hidden(q)'
  BY DEF Blocked
<1>13. \A c \in Players : ~Hidden(c)' => ~Hidden(c) \/ c \in lesson \ Blocked'
  BY <1>9, <1>12
<1>14. \A c \in Players : /\ screen'[c] = "off" <=> screen[c] = "off"
                          /\ screen'[c] = "map" => screen[c] = "map" /\ (~Hidden(c)' => ~Hidden(c))
  BY <1>7, <1>8, <1>9
<1>15. \A c \in Players \ lesson : (c \in reading' <=> c \in reading) /\ (c \in lesson' <=> c \in lesson)
  BY <1>3
<1> QED BY <1>3, <1>4, <1>5, <1>9, <1>10, <1>11, <1>12, <1>13, <1>14, <1>15, ElsewhereKeeps

LEMMA StartKeeps ==
  ASSUME IInv, NEW p \in Players, TrainingStart(p)
  PROVE  IInv'
<1>1. RoomsInv /\ MapTyped /\ FightsHold /\ GoneIsGone /\ TrainingInv
  BY DEF IInv, RoomsInv
<1> DEFINE all == Ids(training[p])
           shown(q) == IF q \in all THEN "fight" ELSE screen[q]
           skip == Blocked' \cup all
<1>0. PICK new : new = [all |-> all, gone |-> {}]
  OBVIOUS
<1>2. /\ OnMap(p) /\ training[p].members # <<>>
      /\ place' = place /\ lesson' = lesson /\ fights' = OpenFight(all) /\ reading' = reading
      /\ screen' = [q \in Players |-> shown(q)]
      /\ UNCHANGED <<boards, windows>> /\ training' = training /\ signs' = signs
      /\ ShowIcons(p, all, skip)
  BY Zenon DEF TrainingStart, boards
<1>3. /\ p \in all /\ all \subseteq Players
      /\ \A l \in Players : \A c : c \in Ids(training[l]) /\ c \in all => l = p
  BY <1>1, <1>2, RoomsAreFiled
<1>4. ~InFight(p) /\ \A f \in fights : f.all \cap all = {}
  <2>1. ~InFight(p)
    BY <1>1, <1>2, FreeOnMap
  <2> QED BY <1>1, <1>3, <2>1, FreeRoom
<1>5. \A c \in all : place[c] # Nowhere /\ screen[c] # "off"
  BY <1>1, <1>3 DEF GoneIsGone
<1>6. \A q \in Players \cap all : shown(q) = "fight"
  OBVIOUS
<1>7. \A q \in Players \ all : shown(q) = screen[q]
  OBVIOUS
<1>8. \A c \in Players : shown(c) \in {"off", "map", "loading", "lesson", "fight"}
  BY <1>1 DEF MapTyped
<1> HIDE DEF shown
<1>9. /\ screen' \in [Players -> {"off", "map", "loading", "lesson", "fight"}]
      /\ \A c \in Players : screen'[c] = shown(c)
  BY <1>2, <1>8
<1>10. fights' = fights \cup {new} /\ new.all = all /\ new.gone = {}
       /\ new \in [all : SUBSET Players, gone : SUBSET Players]
  <2>1. OpenFight(all) = {f \in fights : f.all \cap all = {}} \cup {new}
    BY <1>0, Zenon DEF OpenFight
  <2>2. {f \in fights : f.all \cap all = {}} = fights
    BY <1>4
  <2> QED BY <1>0, <1>2, <1>3, <2>1, <2>2
<1> HIDE DEF all
<1>11. MapTyped'
  BY <1>1, <1>2, <1>9, <1>10 DEF MapTyped
<1>12. FightHolds(new)'
  <2>1. \A c \in all : screen'[c] = "fight" /\ c \in Ids(training'[p])
    BY <1>2, <1>3, <1>6, <1>9 DEF all
  <2>2. \A l \in Players : Ids(training'[l]) \cap all # {} => Ids(training'[l]) \subseteq all
    BY <1>2, <1>3 DEF all
  <2>3. /\ new.gone \subseteq new.all
        /\ \A c \in new.all \ new.gone : screen'[c] = "fight" /\ \E l \in Players : c \in Ids(training'[l])
        /\ \A c \in new.gone : place'[c] = Nowhere
        /\ \A l \in Players : Ids(training'[l]) \cap new.all # {} => Ids(training'[l]) \subseteq new.all
    BY <1>10, <2>1, <2>2
  <2> QED BY <2>3 DEF FightHolds, Ids
<1>13. ASSUME NEW f \in fights
       PROVE  FightHolds(f)'
  <2>1. FightHolds(f) /\ f.all \cap all = {} /\ f.all \subseteq Players
    BY <1>1, <1>4 DEF FightsHold, MapTyped
  <2>2. \A c \in f.all : screen'[c] = screen[c]
    BY <1>7, <1>9, <2>1
  <2>3. training' = training /\ place' = place
    BY <1>2
  <2> QED BY <2>1, <2>2, <2>3 DEF FightHolds
<1>14. FightsHold'
  <2>1. \A f, g \in fights' : f.all \cap g.all # {} => f = g
    <3>1. \A f, g \in fights : f.all \cap g.all # {} => f = g
      BY <1>1 DEF FightsHold
    <3> QED BY <1>4, <1>10, <3>1
  <2>2. ASSUME NEW q \in Players, screen'[q] = "fight"
        PROVE  \E f \in fights' : q \in f.all \ f.gone
    <3>1. CASE q \in all
      BY <1>10, <3>1
    <3>2. CASE q \notin all
      <4>1. screen[q] = "fight"
        BY <1>7, <1>9, <2>2, <3>2
      <4>2. PICK f \in fights : q \in f.all \ f.gone
        BY <1>1, <4>1 DEF FightsHold, FightsAreFought
      <4> QED BY <1>10, <4>2
    <3> QED BY <3>1, <3>2
  <2>3. FightsAreFought'
    BY <2>2 DEF FightsAreFought
  <2>4. \A f \in fights' : FightHolds(f)'
    <3>1. \A f \in fights : FightHolds(f)'
      BY <1>13
    <3> QED BY <1>10, <1>12, <3>1
  <2> QED BY <2>1, <2>3, <2>4 DEF FightsHold
<1>15. \A c : (InFight(c)' <=> InFight(c) \/ c \in all) /\ (Hidden(c)' <=> Hidden(c) \/ c \in all)
  <2>1. \A c : InFight(c)' <=> InFight(c) \/ c \in all
    BY <1>10 DEF InFight
  <2> QED BY <1>2, <2>1 DEF Hidden
<1>16. \A q \in skip : Hidden(q)'
  BY <1>15 DEF Blocked
<1>17. \A c \in Players : /\ screen'[c] = "off" <=> screen[c] = "off"
                          /\ screen'[c] = "map" => screen[c] = "map" /\ (~Hidden(c)' => ~Hidden(c))
                          /\ ~Hidden(c)' => ~Hidden(c)
  BY <1>5, <1>6, <1>7, <1>9, <1>15
<1>18. \A c \in Players : place[c] = Nowhere => c \notin lesson'
  BY <1>1, <1>2 DEF GoneIsGone
<1>19. \A c \in Players \ all :
            /\ c \in lesson' <=> c \in lesson
            /\ InFight(c)' <=> InFight(c)
            /\ c \in reading' <=> c \in reading
  BY <1>2, <1>15
<1> HIDE DEF skip
<1> QED BY <1>2, <1>5, <1>11, <1>14, <1>16, <1>17, <1>18, <1>19, ElsewhereKeeps

LEMMA EndKeeps ==
  ASSUME IInv, NEW f \in fights, FightEnds(f)
  PROVE  IInv'
<1>1. RoomsInv /\ MapTyped /\ FightsHold /\ GoneIsGone /\ TrainingInv /\ ChatsInv /\ IconsInv /\ IconsTyped
  BY DEF IInv, RoomsInv, IconsInv
<1> DEFINE all == f.all
           seated == {c \in all : TrainingRoomOf(c) # {}}
           who == seated \cup NewLeaders
           shown(q) == IF q \in all /\ screen[q] = "fight" THEN "loading" ELSE screen[q]
           window(q) == IF q \in all /\ screen[q] = "fight" THEN {} ELSE roster[q]
<1>2. PICK p \in all \ f.gone : ShowIcons(p, who, all)
  BY Zenon DEF FightEnds
<1>3. /\ \A q \in all \ f.gone : owed[q] = Absent
      /\ fights' = fights \ {f} /\ training' = PartTraining(all)
      /\ screen' = [q \in Players |-> shown(q)]
      /\ roster' = [q \in Players |-> window(q)]
      /\ place' = place /\ lesson' = lesson /\ reading' = reading
      /\ chats' = chats /\ signs' = signs /\ seats' = seats
  BY Zenon DEF FightEnds
<1>4. /\ all \subseteq Players /\ f.gone \subseteq all
      /\ \A c \in all \ f.gone : screen[c] = "fight" /\ \E l \in Players : c \in Ids(training[l])
      /\ \A c \in f.gone : place[c] = Nowhere
      /\ \A l \in Players : Ids(training[l]) \cap all # {} => Ids(training[l]) \subseteq all
      /\ \A g \in fights : g.all \cap all # {} => g = f
  BY <1>1 DEF FightsHold, FightHolds, MapTyped
<1>5. \A c \in Players : /\ place[c] = Nowhere => /\ owed[c] = Absent /\ c \notin lesson /\ c \notin signs
                                                  /\ \A l \in Players : c \notin Ids(training[l]) /\ c \notin ChatSeats(l)
                         /\ screen[c] = "off" <=> place[c] = Nowhere
  BY <1>1 DEF GoneIsGone
<1>6. \A c \in Players : shown(c) \in {"off", "map", "loading", "lesson", "fight"}
  BY <1>1 DEF MapTyped
<1>7. \A c \in all : owed[c] = Absent /\ (shown(c) = "loading" \/ (shown(c) = "off" /\ place[c] = Nowhere))
  BY <1>3, <1>4, <1>5
<1>8. \A c \in Players \ all : shown(c) = screen[c]
  OBVIOUS
<1>9. \A c \in Players : shown(c) = "off" <=> screen[c] = "off"
  BY <1>4, <1>5
<1>10. \A q \in all : window(q) = {}
  <2>1. \A q \in f.gone : roster[q] = {}
    BY <1>1, <1>4, <1>5 DEF TrainingInv, RosterShows
  <2> QED BY <1>4, <2>1
<1>11. \A q \in Players \ all : window(q) = roster[q]
  OBVIOUS
<1> HIDE DEF shown, window
<1>12. /\ screen' \in [Players -> {"off", "map", "loading", "lesson", "fight"}]
       /\ \A c \in Players : screen'[c] = shown(c)
  BY <1>3, <1>6
<1>13. PartedRoster(all)
  <2>1. roster \in [Players -> SUBSET (Players \X BOOLEAN \X BOOLEAN)]
    BY <1>1 DEF TrainingInv, RosterTyped
  <2>2. \A q \in Players : window(q) \in SUBSET (Players \X BOOLEAN \X BOOLEAN)
    BY <1>10, <1>11, <2>1
  <2>3. roster' \in [Players -> SUBSET (Players \X BOOLEAN \X BOOLEAN)]
        /\ \A q \in Players : roster'[q] = window(q)
    BY <1>3, <2>2
  <2>4. ASSUME NEW q \in Players \ all
        PROVE  roster[q] = {r \in roster[q] : r[1] \notin all}
    <3>1. \A r \in roster[q] : r[1] \notin all
      <4>1. CASE \E l \in Players : q \in Ids(training[l])
        <5>1. PICK l \in Players : q \in Ids(training[l])
          BY <4>1
        <5>2. Ids(training[l]) \cap all = {}
          BY <1>4, <5>1
        <5>3. roster[q] = Rows(training[l])
          BY <1>1, <5>1, RosterIs
        <5>4. \A r \in Rows(training[l]) : r[1] \in Ids(training[l])
          BY RowsAre
        <5> QED BY <5>2, <5>3, <5>4
      <4>2. CASE \A l \in Players : q \notin Ids(training[l])
        BY <1>1, <4>2 DEF TrainingInv, RosterShows
      <4> QED BY <4>1, <4>2
    <3> QED BY <3>1
  <2> QED BY <1>4, <1>10, <1>11, <2>3, <2>4 DEF PartedRoster
<1> DEFINE R == training'
<1>14. /\ \A k \in Players : \A c : c \in Ids(R[k]) =>
            /\ c \notin all
            /\ \E l \in Players : c \in Ids(training[l]) /\ Ids(R[k]) = Ids(training[l]) \ all
       /\ \A l \in Players : \A c : c \in Ids(training[l]) \ all => \E k \in Players : c \in Ids(R[k])
       /\ \A l \in Players \ all : training[l].members # <<>> => R[l].members # <<>>
  <2> HIDE DEF all, who, seated
  <2>1. /\ \A k \in Players : \A c : c \in Ids(training'[k]) =>
              /\ c \notin all
              /\ \E l \in Players : /\ c \in Ids(training[l])
                                    /\ training'[k] = PartRoom(training[l], all)
                                    /\ Ids(training'[k]) = Ids(training[l]) \ all
        /\ \A l \in Players : \A c : c \in Ids(training[l]) \ all => \E k \in Players : c \in Ids(training'[k])
        /\ \A l \in Players \ all : training[l].members # <<>> => training'[l].members # <<>>
    BY <1>1, <1>3, PartedRoomsAre
  <2> QED BY <2>1
<1>15. TrainingInv'
  BY <1>1, <1>3, <1>13, TrainingParted
<1>16. ChatsInv' /\ \A o : ChatSeats(o)' = ChatSeats(o)
  BY <1>1, <1>3, ChatsSame
<1>17. \A k \in Players : R[k].members # <<>> => k \in Ids(R[k])
  BY <1>15 DEF TrainingInv, Filed, Lists, Among, Ids
<1>18. MapTyped'
  BY <1>1, <1>3, <1>12 DEF MapTyped
<1>19. ASSUME NEW g \in fights, g # f
       PROVE  FightHolds(g)'
  <2>1. FightHolds(g) /\ g.all \cap all = {} /\ g.all \subseteq Players
    BY <1>1, <1>4, <1>19 DEF FightsHold, MapTyped
  <2>2. \A c \in g.all : screen'[c] = screen[c]
    BY <1>8, <1>12, <2>1
  <2>3. \A c \in g.all \ g.gone : screen'[c] = "fight" /\ \E k \in Players : c \in Ids(R[k])
    BY <1>14, <2>1, <2>2 DEF FightHolds
  <2>4. ASSUME NEW k \in Players, Ids(R[k]) \cap g.all # {}
        PROVE  Ids(R[k]) \subseteq g.all
    <3>1. PICK c : c \in Ids(R[k]) /\ c \in g.all
      BY <2>4
    <3>2. PICK l \in Players : c \in Ids(training[l]) /\ Ids(R[k]) = Ids(training[l]) \ all
      BY <1>14, <3>1
    <3> QED BY <2>1, <3>1, <3>2 DEF FightHolds
  <2>5. g.gone \subseteq g.all /\ \A c \in g.gone : place'[c] = Nowhere
    BY <1>3, <2>1 DEF FightHolds
  <2> QED BY <2>3, <2>4, <2>5 DEF FightHolds, Ids
<1>20. FightsHold'
  <2>1. \A g, h \in fights' : g.all \cap h.all # {} => g = h
    BY <1>1, <1>3 DEF FightsHold
  <2>2. FightsAreFought'
    <3>1. ASSUME NEW q \in Players, screen'[q] = "fight"
          PROVE  \E g \in fights' : q \in g.all \ g.gone
      <4>1. q \notin all
        BY <1>7, <1>12, <3>1
      <4>2. screen[q] = "fight"
        BY <1>8, <1>12, <3>1, <4>1
      <4>3. PICK g \in fights : q \in g.all \ g.gone
        BY <1>1, <4>2 DEF FightsHold, FightsAreFought
      <4> QED BY <1>3, <4>1, <4>3
    <3> QED BY <3>1 DEF FightsAreFought
  <2>3. \A g \in fights' : FightHolds(g)'
    <3>1. \A g \in fights : g # f => FightHolds(g)'
      BY <1>19
    <3> QED BY <1>3, <3>1
  <2> QED BY <2>1, <2>2, <2>3 DEF FightsHold
<1>21. \A c \in who : place[c] # Nowhere
  <2>1. \A c \in seated : place[c] # Nowhere
    BY <1>4, <1>5 DEF TrainingRoomOf
  <2>2. \A c \in NewLeaders : c \in Players /\ \E l \in Players : c \in Ids(training[l])
    BY <1>14, <1>17, NewLeadersAre
  <2> QED BY <1>5, <2>1, <2>2
<1>22. \A c \in Players \ all : (InFight(c)' <=> InFight(c)) /\ (Hidden(c)' <=> Hidden(c))
  BY <1>3 DEF InFight, Hidden
<1>23. GoneIsGone'
  <2>1. ASSUME NEW c \in Players, place[c] = Nowhere
        PROVE  /\ \A l \in Players : c \notin Ids(R[l]) /\ c \notin ChatSeats(l)'
               /\ c \notin signs' /\ c \notin lesson'
    BY <1>3, <1>5, <1>14, <1>16, <2>1
  <2>2. \A c \in Players : screen'[c] = "off" <=> screen[c] = "off"
    BY <1>9, <1>12
  <2>3. p \in Players
    BY <1>2, <1>4
  <2> HIDE DEF who
  <2> QED BY <1>1, <1>2, <1>3, <1>21, <2>1, <2>2, <2>3, GoneStays
<1>24. IconsInv'
  <2>1. ASSUME NEW c \in Players, c \notin who, place[c] # Nowhere
        PROVE  Action(c)' = Action(c)
    <3>1. c \notin all
      BY <1>4, <2>1 DEF TrainingRoomOf
    <3>2. c \notin NewLeaders
      BY <2>1
    <3>3. R[c].members # <<>> <=> training[c].members # <<>>
      BY <1>14, <3>1, <3>2, NewLeadersAre, <2>1
    <3>4. ChatRoomOf(c)' = ChatRoomOf(c)
      BY <1>16 DEF ChatRoomOf
    <3> QED BY <1>3, <1>22, <3>1, <3>3, <3>4, ActionKept
  <2>2. \A q \in Players : screen'[q] = "map" =>
            screen[q] = "map" /\ (~Hidden(q)' => ~Hidden(q))
    BY <1>7, <1>8, <1>12, <1>22
  <2>3. \A c \in Players : ~Hidden(c)' => ~Hidden(c) \/ c \in who \ all \/ owed[c] = Absent
    BY <1>7, <1>22
  <2>4. \A q \in Players : q \in all => Hidden(q)' \/ (owed[q] = Absent /\ screen'[q] # "map")
    BY <1>7, <1>12
  <2>5. p \in Players
    BY <1>2, <1>4
  <2> HIDE DEF who
  <2>6. \A c \in Players \ who : place[c] # Nowhere => Action(c)' = Action(c)
    BY <2>1
  <2> QED BY <1>1, <1>2, <1>3, <2>2, <2>3, <2>4, <2>5, <2>6, IconsShown
<1> QED BY <1>15, <1>16, <1>18, <1>20, <1>23, <1>24 DEF IInv, RoomsInv

-----------------------------------------------------------------------------
(* Coming, going and walking about.                                        *)

(* A step that moves one person and leaves what icons stand for alone.     *)
LEMMA WalkKeeps ==
  ASSUME IInv, UNCHANGED <<lesson, fights, boards, reading, windows, inherited>>
  PROVE  /\ TrainingInv' /\ ChatsInv'
         /\ \A c \in Players : Action(c)' = Action(c) /\ (Hidden(c)' <=> Hidden(c))
         /\ \A c \in Players : \A icon : Shows(c, icon) => icon = Action(c)' \/ c \in inherited'
         /\ training' = training /\ signs' = signs /\ lesson' = lesson /\ fights' = fights
         /\ reading' = reading /\ inherited' = inherited
         /\ \A o : ChatSeats(o)' = ChatSeats(o)
<1>1. TrainingInv /\ ChatsInv
  BY DEF IInv, RoomsInv
<1>2. training' = training /\ chats' = chats /\ signs' = signs /\ roster' = roster
      /\ seats' = seats /\ lesson' = lesson /\ fights' = fights /\ reading' = reading
      /\ inherited' = inherited
  BY DEF boards, windows
<1>3. TrainingInv' /\ ChatsInv' /\ \A o : ChatSeats(o)' = ChatSeats(o)
  BY <1>1, <1>2, TrainingSame, ChatsSame
<1>4. \A c : ChatRoomOf(c)' = ChatRoomOf(c)
  BY <1>3 DEF ChatRoomOf
<1>5. \A c : (InFight(c)' <=> InFight(c)) /\ (Hidden(c)' <=> Hidden(c))
  BY <1>2 DEF InFight, Hidden
<1>6. \A c \in Players : Action(c)' = Action(c)
  BY <1>2, <1>4, <1>5, ActionKept
<1>7. \A c \in Players : \A icon : Shows(c, icon) => icon = Action(c)' \/ c \in inherited'
  BY <1>2, <1>6 DEF Shows
<1> QED BY <1>2, <1>3, <1>5, <1>6, <1>7

LEMMA WalkFights ==
  ASSUME IInv, fights' = fights, training' = training,
         \A c \in Players : place[c] = Nowhere => place'[c] = Nowhere \/ ~InFight(c),
         \A c \in Players : screen'[c] = "fight" <=> screen[c] = "fight"
  PROVE  FightsHold'
<1>1. FightsHold /\ MapTyped
  BY DEF IInv, RoomsInv
<1>2. \A f \in fights, l \in Players :
            Ids(training'[l]) \cap f.all # {} => Ids(training'[l]) \subseteq f.all
  BY <1>1 DEF FightsHold, FightHolds
<1> QED BY <1>1, <1>2, FightsStay

LEMMA LoginKeeps ==
  ASSUME IInv, ~MayReturn, NEW p \in Players, NEW m \in Homes, Login(p, m)
  PROVE  IInv'
<1>1. MapTyped /\ GoneIsGone /\ IconsTyped /\ ScenesAreTrue /\ OwnIsTrue
  BY DEF IInv, RoomsInv, IconsInv
<1>2. /\ place[p] = Nowhere /\ ~InFight(p)
      /\ place' = [place EXCEPT ![p] = m] /\ screen' = [screen EXCEPT ![p] = "loading"]
      /\ owed' = owed /\ drawn' = drawn
      /\ UNCHANGED <<lesson, fights, boards, reading, windows, inherited>>
  BY DEF Login
<1>3. m \in Maps /\ m # Nowhere
  BY TownAssumption
<1>4. /\ TrainingInv' /\ ChatsInv'
      /\ \A c \in Players : Action(c)' = Action(c) /\ (Hidden(c)' <=> Hidden(c))
      /\ \A c \in Players : \A icon : Shows(c, icon) => icon = Action(c)' \/ c \in inherited'
      /\ training' = training /\ signs' = signs /\ lesson' = lesson /\ fights' = fights
      /\ reading' = reading /\ inherited' = inherited
      /\ \A o : ChatSeats(o)' = ChatSeats(o)
  BY <1>2, WalkKeeps
<1>5. MapTyped'
  BY <1>1, <1>2, <1>3, <1>4 DEF MapTyped
<1>6. /\ place'[p] = m /\ screen'[p] = "loading" /\ screen[p] = "off"
      /\ \A c \in Players \ {p} : place'[c] = place[c] /\ screen'[c] = screen[c]
  BY <1>1, <1>2 DEF MapTyped, GoneIsGone
<1>7. GoneIsGone'
  BY <1>1, <1>2, <1>3, <1>4, <1>6 DEF GoneIsGone, Ids
<1>8. FightsHold'
  <2>1. \A c \in Players : screen'[c] = "fight" <=> screen[c] = "fight"
    BY <1>6
  <2>2. \A c \in Players : place[c] = Nowhere => place'[c] = Nowhere \/ ~InFight(c)
    BY <1>2, <1>6
  <2> QED BY <1>4, <2>1, <2>2, WalkFights
<1>9. ASSUME NEW q \in Players, screen'[q] = "map", NEW c \in Players \ {q}
      PROVE  /\ drawn'[q][c] # Absent => place'[c] = place'[q]
             /\ place'[c] = place'[q] /\ screen'[c] = "map" => drawn'[q][c] # Absent
             /\ drawn'[q][c] # Absent /\ ~Hidden(q)' => drawn'[q][c] = Action(c)' \/ c \in inherited'
  <2>1. q # p /\ screen[q] = "map" /\ place[q] # Nowhere
    BY <1>1, <1>6, <1>9 DEF GoneIsGone
  <2>2. /\ drawn[q][c] # Absent => place[c] = place[q]
        /\ place[c] = place[q] /\ screen[c] = "map" => drawn[q][c] # Absent
        /\ drawn[q][c] # Absent /\ ~Hidden(q) => Shows(c, drawn[q][c])
    BY <1>1, <2>1 DEF ScenesAreTrue
  <2> QED BY <1>2, <1>4, <1>6, <2>1, <2>2
<1>10. ASSUME NEW c \in Players, ~Hidden(c)'
       PROVE  /\ owed'[c] # Absent => owed'[c] = Action(c)' \/ c \in inherited'
              /\ owed'[c] = Absent /\ screen'[c] = "map" => drawn'[c][c] = Action(c)' \/ c \in inherited'
  <2>1. /\ owed[c] # Absent => Shows(c, owed[c])
        /\ owed[c] = Absent /\ screen[c] = "map" => Shows(c, drawn[c][c])
    BY <1>1, <1>4, <1>10 DEF OwnIsTrue
  <2> QED BY <1>2, <1>4, <1>6, <2>1
<1>11. IconsTyped'
  BY <1>1, <1>2, <1>4 DEF IconsTyped
<1>12. ScenesAreTrue' /\ OwnIsTrue'
  BY <1>9, <1>10 DEF ScenesAreTrue, OwnIsTrue, Shows
<1> QED BY <1>4, <1>5, <1>7, <1>8, <1>11, <1>12 DEF IInv, RoomsInv, IconsInv

LEMMA DrainKeeps ==
  ASSUME IInv, NEW p \in Players, Drain(p)
  PROVE  IInv'
<1>1. MapTyped /\ GoneIsGone /\ IconsTyped /\ ScenesAreTrue /\ OwnIsTrue
  BY DEF IInv, RoomsInv, IconsInv
<1>2. /\ owed[p] # Absent /\ owed' = [owed EXCEPT ![p] = Absent]
      /\ drawn' = IF screen[p] = "map" THEN [drawn EXCEPT ![p][p] = owed[p]] ELSE drawn
      /\ place' = place /\ screen' = screen
      /\ UNCHANGED <<lesson, fights, boards, reading, windows, inherited>>
  BY DEF Drain
<1>3. /\ TrainingInv' /\ ChatsInv'
      /\ \A c \in Players : Action(c)' = Action(c) /\ (Hidden(c)' <=> Hidden(c))
      /\ \A c \in Players : \A icon : Shows(c, icon) => icon = Action(c)' \/ c \in inherited'
      /\ training' = training /\ signs' = signs /\ lesson' = lesson /\ fights' = fights
      /\ reading' = reading /\ inherited' = inherited
      /\ \A o : ChatSeats(o)' = ChatSeats(o)
  BY <1>2, WalkKeeps
<1>4. MapTyped'
  BY <1>1, <1>2, <1>3 DEF MapTyped
<1>5. /\ owed' \in [Players -> Icons \cup {Absent}] /\ owed'[p] = Absent
      /\ \A c \in Players \ {p} : owed'[c] = owed[c]
  BY <1>1, <1>2 DEF IconsTyped
<1>6. /\ drawn' \in [Players -> [Players -> Icons \cup {Absent}]]
      /\ screen[p] = "map" => drawn'[p][p] = owed[p]
      /\ \A q, c \in Players : q # p \/ c # p => drawn'[q][c] = drawn[q][c]
  <2>1. owed[p] \in Icons \cup {Absent} /\ drawn \in [Players -> [Players -> Icons \cup {Absent}]]
    BY <1>1 DEF IconsTyped
  <2>2. CASE screen[p] = "map"
    <3> DEFINE icon == owed[p]
    <3>1. drawn' = [drawn EXCEPT ![p][p] = icon] /\ icon \in Icons \cup {Absent}
      BY <1>2, <2>1, <2>2
    <3> HIDE DEF icon
    <3>2. /\ drawn' \in [Players -> [Players -> Icons \cup {Absent}]] /\ drawn'[p][p] = icon
          /\ \A q, c \in Players : q # p \/ c # p => drawn'[q][c] = drawn[q][c]
      BY <2>1, <3>1
    <3> QED BY <3>2 DEF icon
  <2>3. CASE screen[p] # "map"
    BY <1>2, <2>1, <2>3
  <2> QED BY <2>2, <2>3
<1>7. GoneIsGone'
  BY <1>1, <1>2, <1>3, <1>5 DEF GoneIsGone, Ids
<1>8. FightsHold'
  BY <1>2, <1>3, WalkFights
<1>9. ScenesAreTrue'
  BY <1>1, <1>2, <1>3, <1>6 DEF ScenesAreTrue, Shows
<1>10. ASSUME NEW c \in Players, ~Hidden(c)'
       PROVE  /\ owed'[c] # Absent => owed'[c] = Action(c)' \/ c \in inherited'
              /\ owed'[c] = Absent /\ screen'[c] = "map" => drawn'[c][c] = Action(c)' \/ c \in inherited'
  <2>1. /\ owed[c] # Absent => Shows(c, owed[c])
        /\ owed[c] = Absent /\ screen[c] = "map" => Shows(c, drawn[c][c])
    BY <1>1, <1>3, <1>10 DEF OwnIsTrue
  <2>2. CASE c = p
    BY <1>2, <1>3, <1>5, <1>6, <2>1, <2>2
  <2>3. CASE c # p
    BY <1>2, <1>3, <1>5, <1>6, <2>1, <2>3
  <2> QED BY <2>2, <2>3
<1>11. OwnIsTrue'
  BY <1>10 DEF OwnIsTrue, Shows
<1>12. IconsTyped'
  BY <1>1, <1>3, <1>5, <1>6 DEF IconsTyped
<1> QED BY <1>3, <1>4, <1>7, <1>8, <1>9, <1>11, <1>12 DEF IInv, RoomsInv, IconsInv

(* 0x4000: the scene is built.                                             *)
Entered(p, q, c) ==
  IF q = p THEN IF c = p THEN IF owed[p] # Absent THEN owed[p] ELSE Action(p)
                ELSE IF c \in Peers(p) THEN Action(c) ELSE Absent
  ELSE IF q \in Peers(p) /\ screen[q] = "map" /\ c = p THEN Action(p)
  ELSE drawn[q][c]

LEMMA EnteredIs ==
  ASSUME IconsTyped, NEW p \in Players, Enter(p)
  PROVE  /\ drawn' \in [Players -> [Players -> Icons \cup {Absent}]]
         /\ \A q, c \in Players : drawn'[q][c] = Entered(p, q, c)
<1>1. owed \in [Players -> Icons \cup {Absent}] /\ drawn \in [Players -> [Players -> Icons \cup {Absent}]]
  BY DEF IconsTyped
<1> DEFINE own(c) == IF c = p THEN (IF owed[p] # Absent THEN owed[p] ELSE Action(p))
                     ELSE IF c \in Peers(p) THEN Action(c) ELSE Absent
           mine == [c \in Players |-> own(c)]
           seen == Action(p)
           theirs(q) == [drawn[q] EXCEPT ![p] = seen]
           row(q) == IF q = p THEN mine
                     ELSE IF q \in Peers(p) /\ screen[q] = "map" THEN theirs(q) ELSE drawn[q]
<1>2. drawn' = [q \in Players |-> row(q)]
  BY Zenon DEF Enter
<1>3. \A c \in Players : own(c) \in Icons \cup {Absent} /\ own(c) = Entered(p, p, c)
  BY <1>1, ActionTyped DEF Entered
<1>4. seen \in Icons \cup {Absent}
  BY ActionTyped
<1> HIDE DEF own
<1>5. mine \in [Players -> Icons \cup {Absent}] /\ \A c \in Players : mine[c] = Entered(p, p, c)
  BY <1>3
<1>6. ASSUME NEW q \in Players, q # p
      PROVE  row(q) \in [Players -> Icons \cup {Absent}] /\ \A c \in Players : row(q)[c] = Entered(p, q, c)
  <2>1. CASE q \in Peers(p) /\ screen[q] = "map"
    <3>1. row(q) = theirs(q)
      BY <1>6, <2>1
    <3>2. \A c \in Players : Entered(p, q, c) = IF c = p THEN seen ELSE drawn[q][c]
      BY <1>6, <2>1 DEF Entered
    <3> HIDE DEF seen, row
    <3>3. theirs(q) \in [Players -> Icons \cup {Absent}]
          /\ \A c \in Players : theirs(q)[c] = IF c = p THEN seen ELSE drawn[q][c]
      BY <1>1, <1>4
    <3> QED BY <3>1, <3>2, <3>3
  <2>2. CASE ~(q \in Peers(p) /\ screen[q] = "map")
    <3>1. row(q) = drawn[q]
      BY <1>6, <2>2
    <3>2. \A c \in Players : Entered(p, q, c) = drawn[q][c]
      BY <1>6, <2>2 DEF Entered
    <3> QED BY <1>1, <3>1, <3>2
  <2> QED BY <2>1, <2>2
<1>7. row(p) = mine
  OBVIOUS
<1> HIDE DEF row, mine
<1>8. \A q \in Players : row(q) \in [Players -> Icons \cup {Absent}]
                         /\ \A c \in Players : row(q)[c] = Entered(p, q, c)
  BY <1>5, <1>6, <1>7
<1> QED BY <1>2, <1>8

LEMMA EnterKeeps ==
  ASSUME IInv, NEW p \in Players, Enter(p)
  PROVE  IInv'
<1>1. MapTyped /\ GoneIsGone /\ IconsTyped /\ ScenesAreTrue /\ OwnIsTrue
  BY DEF IInv, RoomsInv, IconsInv
<1>2. /\ place[p] # Nowhere /\ screen[p] = "loading" /\ place' = place
      /\ screen' = [screen EXCEPT ![p] = "map"] /\ owed' = [owed EXCEPT ![p] = Absent]
      /\ UNCHANGED <<lesson, fights, boards, reading, windows, inherited>>
  BY DEF Enter
<1>3. /\ TrainingInv' /\ ChatsInv'
      /\ \A c \in Players : Action(c)' = Action(c) /\ (Hidden(c)' <=> Hidden(c))
      /\ \A c \in Players : \A icon : Shows(c, icon) => icon = Action(c)' \/ c \in inherited'
      /\ training' = training /\ signs' = signs /\ lesson' = lesson /\ fights' = fights
      /\ reading' = reading /\ inherited' = inherited
      /\ \A o : ChatSeats(o)' = ChatSeats(o)
  BY <1>2, WalkKeeps
<1>4. MapTyped'
  BY <1>1, <1>2, <1>3 DEF MapTyped
<1>5. screen'[p] = "map" /\ \A c \in Players \ {p} : screen'[c] = screen[c]
  BY <1>1, <1>2 DEF MapTyped
<1>6. /\ owed' \in [Players -> Icons \cup {Absent}] /\ owed'[p] = Absent
      /\ \A c \in Players \ {p} : owed'[c] = owed[c]
  BY <1>1, <1>2 DEF IconsTyped
<1>7. /\ drawn' \in [Players -> [Players -> Icons \cup {Absent}]]
      /\ \A q, c \in Players : drawn'[q][c] = Entered(p, q, c)
  BY <1>1, EnteredIs
<1>8. GoneIsGone'
  BY <1>1, <1>2, <1>3, <1>5, <1>6 DEF GoneIsGone, Ids
<1>9. FightsHold'
  <2>1. \A c \in Players : screen'[c] = "fight" <=> screen[c] = "fight"
    BY <1>2, <1>5
  <2> QED BY <1>2, <1>3, <2>1, WalkFights
<1>10. \A q : q \in Peers(p) <=> q \in Players /\ q # p /\ place[q] # Nowhere /\ place[q] = place[p]
  BY DEF Peers
<1>11. \A c : Action(c) # Absent
  BY ActionTyped
<1>12. ASSUME NEW q \in Players, screen'[q] = "map", NEW c \in Players \ {q}
      PROVE  /\ drawn'[q][c] # Absent => place'[c] = place'[q]
             /\ place'[c] = place'[q] /\ screen'[c] = "map" => drawn'[q][c] # Absent
             /\ drawn'[q][c] # Absent /\ ~Hidden(q)' => drawn'[q][c] = Action(c)' \/ c \in inherited'
  <2>1. drawn'[q][c] = Entered(p, q, c)
    BY <1>7
  <2>2. CASE q = p
    <3>1. drawn'[q][c] = IF c \in Peers(p) THEN Action(c) ELSE Absent
      BY <2>1, <2>2 DEF Entered
    <3> QED BY <1>2, <1>3, <1>10, <1>11, <2>2, <3>1
  <2>3. CASE q # p
    <3>1. screen[q] = "map" /\ place[q] # Nowhere
      BY <1>1, <1>5, <1>12, <2>3 DEF GoneIsGone
    <3>2. /\ drawn[q][c] # Absent => place[c] = place[q]
          /\ place[c] = place[q] /\ screen[c] = "map" => drawn[q][c] # Absent
          /\ drawn[q][c] # Absent /\ ~Hidden(q) => Shows(c, drawn[q][c])
      BY <1>1, <3>1 DEF ScenesAreTrue
    <3>3. CASE c = p /\ q \in Peers(p)
      <4>1. drawn'[q][c] = Action(c)
        BY <2>1, <2>3, <3>1, <3>3 DEF Entered
      <4> QED BY <1>2, <1>3, <1>10, <1>11, <3>3, <4>1
    <3>4. CASE c # p \/ q \notin Peers(p)
      <4>1. drawn'[q][c] = drawn[q][c]
        BY <2>1, <2>3, <3>4 DEF Entered
      <4>2. c = p => place[c] # place[q]
        BY <1>2, <1>10, <2>3, <3>1, <3>4
      <4> QED BY <1>2, <1>3, <1>5, <3>2, <4>1, <4>2
    <3> QED BY <3>3, <3>4
  <2> QED BY <2>2, <2>3
<1>13. ASSUME NEW c \in Players, ~Hidden(c)'
       PROVE  /\ owed'[c] # Absent => owed'[c] = Action(c)' \/ c \in inherited'
              /\ owed'[c] = Absent /\ screen'[c] = "map" => drawn'[c][c] = Action(c)' \/ c \in inherited'
  <2>1. /\ owed[c] # Absent => Shows(c, owed[c])
        /\ owed[c] = Absent /\ screen[c] = "map" => Shows(c, drawn[c][c])
    BY <1>1, <1>3, <1>13 DEF OwnIsTrue
  <2>2. drawn'[c][c] = Entered(p, c, c)
    BY <1>7
  <2>3. CASE c = p
    <3>1. drawn'[c][c] = IF owed[c] # Absent THEN owed[c] ELSE Action(c)
      BY <2>2, <2>3 DEF Entered
    <3> QED BY <1>3, <1>6, <2>1, <2>3, <3>1
  <2>4. CASE c # p
    <3>1. drawn'[c][c] = drawn[c][c]
      BY <2>2, <2>4 DEF Entered
    <3> QED BY <1>3, <1>5, <1>6, <2>1, <2>4, <3>1
  <2> QED BY <2>3, <2>4
<1>14. IconsTyped'
  BY <1>1, <1>3, <1>6, <1>7 DEF IconsTyped
<1>15. ScenesAreTrue' /\ OwnIsTrue'
  BY <1>12, <1>13 DEF ScenesAreTrue, OwnIsTrue, Shows
<1> QED BY <1>3, <1>4, <1>8, <1>9, <1>14, <1>15 DEF IInv, RoomsInv, IconsInv

Withdrawn(c, watchers, q, d) ==
  IF q = c \/ (q \in watchers /\ d = c) THEN Absent ELSE drawn[q][d]

LEMMA WithdrawnIs ==
  ASSUME IconsTyped, NEW c \in Players, NEW watchers, Withdraw(c, watchers)
  PROVE  /\ drawn' \in [Players -> [Players -> Icons \cup {Absent}]]
         /\ \A q, d \in Players : drawn'[q][d] = Withdrawn(c, watchers, q, d)
<1>1. drawn \in [Players -> [Players -> Icons \cup {Absent}]]
  BY DEF IconsTyped
<1> DEFINE mine == [x \in Players |-> Absent]
           none == Absent
           theirs(q) == [drawn[q] EXCEPT ![c] = none]
           row(q) == IF q = c THEN mine ELSE IF q \in watchers THEN theirs(q) ELSE drawn[q]
<1>2. drawn' = [q \in Players |-> row(q)]
  BY Zenon DEF Withdraw
<1>3. none \in Icons \cup {Absent} /\ none = Absent
  OBVIOUS
<1>4. mine \in [Players -> Icons \cup {Absent}] /\ \A d \in Players : mine[d] = none
  OBVIOUS
<1> HIDE DEF none, mine
<1>5. \A q \in Players : /\ theirs(q) \in [Players -> Icons \cup {Absent}]
                         /\ \A d \in Players : theirs(q)[d] = IF d = c THEN none ELSE drawn[q][d]
  BY <1>1, <1>3
<1> HIDE DEF theirs
<1>6. \A q \in Players : /\ row(q) \in [Players -> Icons \cup {Absent}]
                         /\ \A d \in Players : row(q)[d] = Withdrawn(c, watchers, q, d)
  BY <1>1, <1>3, <1>4, <1>5 DEF Withdrawn
<1> HIDE DEF row
<1> QED BY <1>2, <1>6

LEMMA WarpKeeps ==
  ASSUME IInv, NEW p \in Players, NEW m \in Maps, Warp(p, m)
  PROVE  IInv'
<1>1. MapTyped /\ GoneIsGone /\ IconsTyped /\ ScenesAreTrue /\ OwnIsTrue
  BY DEF IInv, RoomsInv, IconsInv
<1>2. /\ screen[p] = "map" /\ place[p] # m /\ Withdraw(p, Peers(p))
      /\ place' = [place EXCEPT ![p] = m]
      /\ screen' = [screen EXCEPT ![p] = "loading"] /\ owed' = [owed EXCEPT ![p] = Absent]
      /\ UNCHANGED <<lesson, fights, boards, reading, windows, inherited>>
  BY DEF Warp
<1>3. /\ TrainingInv' /\ ChatsInv'
      /\ \A c \in Players : Action(c)' = Action(c) /\ (Hidden(c)' <=> Hidden(c))
      /\ \A c \in Players : \A icon : Shows(c, icon) => icon = Action(c)' \/ c \in inherited'
      /\ training' = training /\ signs' = signs /\ lesson' = lesson /\ fights' = fights
      /\ reading' = reading /\ inherited' = inherited
      /\ \A o : ChatSeats(o)' = ChatSeats(o)
  BY <1>2, WalkKeeps
<1>4. m # Nowhere /\ place[p] # Nowhere
  BY <1>1, <1>2, TownAssumption DEF GoneIsGone
<1>5. MapTyped'
  BY <1>1, <1>2, <1>3 DEF MapTyped
<1>6. /\ screen'[p] = "loading" /\ place'[p] = m
      /\ \A c \in Players \ {p} : screen'[c] = screen[c] /\ place'[c] = place[c]
  BY <1>1, <1>2 DEF MapTyped
<1>7. /\ owed' \in [Players -> Icons \cup {Absent}] /\ owed'[p] = Absent
      /\ \A c \in Players \ {p} : owed'[c] = owed[c]
  BY <1>1, <1>2 DEF IconsTyped
<1>8. /\ drawn' \in [Players -> [Players -> Icons \cup {Absent}]]
      /\ \A q, c \in Players : drawn'[q][c] = Withdrawn(p, Peers(p), q, c)
  BY <1>1, <1>2, WithdrawnIs
<1>9. GoneIsGone'
  BY <1>1, <1>2, <1>3, <1>4, <1>6, <1>7 DEF GoneIsGone, Ids
<1>10. FightsHold'
  <2>1. \A c \in Players : screen'[c] = "fight" <=> screen[c] = "fight"
    BY <1>2, <1>6
  <2>2. \A c \in Players : place[c] = Nowhere => place'[c] = Nowhere \/ ~InFight(c)
    BY <1>4, <1>6
  <2> QED BY <1>3, <2>1, <2>2, WalkFights
<1>11. \A q : q \in Peers(p) <=> q \in Players /\ q # p /\ place[q] # Nowhere /\ place[q] = place[p]
  BY DEF Peers
<1>12. ASSUME NEW q \in Players, screen'[q] = "map", NEW c \in Players \ {q}
      PROVE  /\ drawn'[q][c] # Absent => place'[c] = place'[q]
             /\ place'[c] = place'[q] /\ screen'[c] = "map" => drawn'[q][c] # Absent
             /\ drawn'[q][c] # Absent /\ ~Hidden(q)' => drawn'[q][c] = Action(c)' \/ c \in inherited'
  <2>1. q # p /\ screen[q] = "map" /\ place[q] # Nowhere
    BY <1>1, <1>6, <1>12 DEF GoneIsGone
  <2>2. /\ drawn[q][c] # Absent => place[c] = place[q]
        /\ place[c] = place[q] /\ screen[c] = "map" => drawn[q][c] # Absent
        /\ drawn[q][c] # Absent /\ ~Hidden(q) => Shows(c, drawn[q][c])
    BY <1>1, <2>1 DEF ScenesAreTrue
  <2>3. drawn'[q][c] = IF q \in Peers(p) /\ c = p THEN Absent ELSE drawn[q][c]
    BY <1>8, <2>1 DEF Withdrawn
  <2>4. c = p /\ drawn[q][c] # Absent => q \in Peers(p)
    BY <1>11, <2>1, <2>2
  <2> QED BY <1>3, <1>6, <2>1, <2>2, <2>3, <2>4
<1>13. ASSUME NEW c \in Players, ~Hidden(c)'
       PROVE  /\ owed'[c] # Absent => owed'[c] = Action(c)' \/ c \in inherited'
              /\ owed'[c] = Absent /\ screen'[c] = "map" => drawn'[c][c] = Action(c)' \/ c \in inherited'
  <2>1. /\ owed[c] # Absent => Shows(c, owed[c])
        /\ owed[c] = Absent /\ screen[c] = "map" => Shows(c, drawn[c][c])
    BY <1>1, <1>3, <1>13 DEF OwnIsTrue
  <2>2. c # p => drawn'[c][c] = drawn[c][c]
    BY <1>8, <1>11 DEF Withdrawn
  <2> QED BY <1>3, <1>6, <1>7, <2>1, <2>2
<1>14. IconsTyped'
  BY <1>1, <1>3, <1>7, <1>8 DEF IconsTyped
<1>15. ScenesAreTrue' /\ OwnIsTrue'
  BY <1>12, <1>13 DEF ScenesAreTrue, OwnIsTrue, Shows
<1> QED BY <1>3, <1>5, <1>9, <1>10, <1>14, <1>15 DEF IInv, RoomsInv, IconsInv

(* A logout or a lost connection.                                          *)
LEMMA FightsWithoutAre ==
  ASSUME MapTyped, NEW p \in Players, fights' = FightsWithout(p)
  PROVE  /\ \A g \in fights' : \E f \in fights :
              /\ g.all = f.all /\ g.gone = f.gone \cup ({p} \cap f.all)
              /\ g \in [all : SUBSET Players, gone : SUBSET Players]
         /\ \A f \in fights : f.gone \cup ({p} \cap f.all) # f.all =>
              \E g \in fights' : g.all = f.all /\ g.gone = f.gone \cup ({p} \cap f.all)
         /\ \A g, h \in fights' : g.all = h.all /\ g.gone = h.gone => g = h
<1> DEFINE out(f) == [f EXCEPT !.gone = f.gone \cup ({p} \cap f.all)]
           marked == {out(f) : f \in fights}
<1>1. fights' = {g \in marked : g.gone # g.all}
  BY Zenon DEF FightsWithout
<1>2. \A f \in fights : f \in [all : SUBSET Players, gone : SUBSET Players]
  BY DEF MapTyped
<1>3. \A f \in fights : /\ out(f) \in [all : SUBSET Players, gone : SUBSET Players]
                        /\ out(f).all = f.all /\ out(f).gone = f.gone \cup ({p} \cap f.all)
  BY <1>2
<1> HIDE DEF out
<1>4. \A g \in fights' : \E f \in fights : g = out(f)
  BY <1>1
<1>5. \A f \in fights : out(f).gone # out(f).all => out(f) \in fights'
  BY <1>1
<1>6. \A g, h \in fights' : g.all = h.all /\ g.gone = h.gone => g = h
  <2> TAKE g \in fights', h \in fights'
  <2>1. /\ g \in [all : SUBSET Players, gone : SUBSET Players]
        /\ h \in [all : SUBSET Players, gone : SUBSET Players]
    BY <1>3, <1>4
  <2> QED BY <2>1
<1> HIDE DEF marked
<1>7. \A g \in fights' : \E f \in fights :
              /\ g.all = f.all /\ g.gone = f.gone \cup ({p} \cap f.all)
              /\ g \in [all : SUBSET Players, gone : SUBSET Players]
  BY <1>3, <1>4
<1>8. \A f \in fights : f.gone \cup ({p} \cap f.all) # f.all =>
              \E g \in fights' : g.all = f.all /\ g.gone = f.gone \cup ({p} \cap f.all)
  BY <1>3, <1>5
<1> QED BY <1>6, <1>7, <1>8

LEMMA GoneIs ==
  ASSUME IconsTyped, NEW p \in Players, Gone(p)
  PROVE  /\ IconsTyped'
         /\ owed'[p] = Absent
         /\ \A c \in Players \ {p} : owed'[c] = OwedTo(c, NewOwners, Blocked')
         /\ \A q \in Players \ {p} : /\ drawn'[q][q] = drawn[q][q] /\ drawn'[q][p] = Absent
                                     /\ \A c \in Players \ {p, q} :
                                          drawn'[q][c] = DrawnBy(q, c, NewOwners, Blocked')
<1> DEFINE due(c) == OwedTo(c, NewOwners, Blocked')
           by(q, c) == DrawnBy(q, c, NewOwners, Blocked')
           then(c) == IF c = p THEN Absent ELSE due(c)
           show(q, c) == IF q = p \/ c = p THEN Absent
                         ELSE IF c = q THEN drawn[q][q] ELSE by(q, c)
<1>1. /\ owed' = [c \in Players |-> then(c)]
      /\ drawn' = [q \in Players |-> [c \in Players |-> show(q, c)]]
      /\ inherited' = ((inherited \ NewOwners) \cup NewLeaders) \ {p}
  BY Zenon DEF Gone
<1>2. \A c \in Players : due(c) \in Icons \cup {Absent}
  BY ActionTyped DEF OwedTo, IconsTyped
<1>3. \A q, c \in Players : by(q, c) \in Icons \cup {Absent} /\ drawn[q][q] \in Icons \cup {Absent}
  BY ActionTyped DEF DrawnBy, IconsTyped
<1> HIDE DEF due, by
<1>4. \A c \in Players : then(c) \in Icons \cup {Absent}
  BY <1>2
<1>5. \A q, c \in Players : show(q, c) \in Icons \cup {Absent}
  BY <1>3
<1>6. \A q \in Players \ {p} : /\ show(q, q) = drawn[q][q] /\ show(q, p) = Absent
                               /\ \A c \in Players \ {p, q} : show(q, c) = by(q, c)
  OBVIOUS
<1> HIDE DEF show
<1>7. \A q, c \in Players : drawn'[q][c] = show(q, c)
  BY <1>1
<1>8. drawn' \in [Players -> [Players -> Icons \cup {Absent}]]
  BY <1>1, <1>5
<1>9. owed' \in [Players -> Icons \cup {Absent}] /\ \A c \in Players : owed'[c] = then(c)
  BY <1>1, <1>4
<1>10. inherited' \subseteq Players
  BY <1>1, NewLeadersAre DEF IconsTyped
<1>11. IconsTyped'
  BY <1>8, <1>9, <1>10 DEF IconsTyped
<1>12. \A c \in Players \ {p} : owed'[c] = due(c)
  BY <1>9
<1> QED BY <1>6, <1>7, <1>9, <1>11, <1>12 DEF due, by

LEMMA GoneKeeps ==
  ASSUME IInv, NEW p \in Players, Gone(p)
  PROVE  IInv'
<1>1. /\ RoomsInv /\ TrainingInv /\ ChatsInv /\ MapTyped /\ GoneIsGone /\ FightsHold
      /\ IconsTyped /\ ScenesAreTrue /\ OwnIsTrue
  BY DEF IInv, RoomsInv, IconsInv
<1>2. /\ place[p] # Nowhere /\ fights' = FightsWithout(p)
      /\ lesson' = lesson \ {p} /\ training' = PartTraining({p}) /\ chats' = PartChat({p})
      /\ signs' = signs \ {p} /\ reading' = reading \ {p}
      /\ roster' = RosterWithout(p) /\ seats' = SeatsWithout(p)
      /\ place' = [place EXCEPT ![p] = Nowhere] /\ screen' = [screen EXCEPT ![p] = "off"]
      /\ inherited' = ((inherited \ NewOwners) \cup NewLeaders) \ {p}
  BY DEF Gone
<1>3. /\ place'[p] = Nowhere /\ screen'[p] = "off"
      /\ \A c \in Players \ {p} : place'[c] = place[c] /\ screen'[c] = screen[c]
  BY <1>1, <1>2 DEF MapTyped
<1>4. /\ IconsTyped' /\ owed'[p] = Absent
      /\ \A c \in Players \ {p} : owed'[c] = OwedTo(c, NewOwners, Blocked')
      /\ \A q \in Players \ {p} : /\ drawn'[q][q] = drawn[q][q] /\ drawn'[q][p] = Absent
                                  /\ \A c \in Players \ {p, q} :
                                       drawn'[q][c] = DrawnBy(q, c, NewOwners, Blocked')
  BY <1>1, GoneIs
<1>5. /\ \A g \in fights' : \E f \in fights :
              /\ g.all = f.all /\ g.gone = f.gone \cup ({p} \cap f.all)
              /\ g \in [all : SUBSET Players, gone : SUBSET Players]
      /\ \A f \in fights : f.gone \cup ({p} \cap f.all) # f.all =>
              \E g \in fights' : g.all = f.all /\ g.gone = f.gone \cup ({p} \cap f.all)
      /\ \A g, h \in fights' : g.all = h.all /\ g.gone = h.gone => g = h
  BY <1>1, <1>2, FightsWithoutAre
<1> DEFINE R == training'
<1>6. /\ \A k \in Players : \A d : d \in Ids(R[k]) =>
           d # p /\ \E l \in Players : d \in Ids(training[l]) /\ Ids(R[k]) = Ids(training[l]) \ {p}
      /\ \A l \in Players : \A d : d \in Ids(training[l]) /\ d # p => \E k \in Players : d \in Ids(R[k])
      /\ \A l \in Players \ {p} : training[l].members # <<>> => R[l].members # <<>>
      /\ TrainingInv'
  <2> DEFINE gone == {p}
  <2>1. training' = PartTraining(gone) /\ PartedRoster(gone)
    BY <1>1, <1>2, RosterWithoutOne
  <2>2. \A d : d \in gone <=> d = p
    OBVIOUS
  <2> HIDE DEF gone
  <2>3. /\ \A k \in Players : \A d : d \in Ids(training'[k]) =>
              /\ d \notin gone
              /\ \E l \in Players : /\ d \in Ids(training[l])
                                    /\ training'[k] = PartRoom(training[l], gone)
                                    /\ Ids(training'[k]) = Ids(training[l]) \ gone
        /\ \A l \in Players : \A d : d \in Ids(training[l]) \ gone =>
              \E k \in Players : d \in Ids(training'[k])
        /\ \A l \in Players \ gone : training[l].members # <<>> => training'[l].members # <<>>
    BY <1>1, <2>1, PartedRoomsAre
  <2>4. TrainingInv'
    BY <1>1, <2>1, TrainingParted
  <2>5. \A S : S \ gone = S \ {p}
    BY DEF gone
  <2> QED BY <2>2, <2>3, <2>4, <2>5
<1>7. /\ ChatsInv'
      /\ \A k \in Players : \A c : c \in ChatSeats(k)' => c # p /\ \E o \in Players : c \in ChatSeats(o)
      /\ \A o \in Players : \A c : c \in ChatSeats(o) /\ c # p => \E k \in Players : c \in ChatSeats(k)'
      /\ \A o \in Players \ {p} : chats[o] # <<>> => chats'[o] # <<>>
  BY <1>1, <1>2, PartedChatsAre
<1>8. MapTyped'
  <2>1. fights' \subseteq [all : SUBSET Players, gone : SUBSET Players]
    BY <1>5
  <2> QED BY <1>1, <1>2, <2>1 DEF MapTyped
<1>9. \A f \in fights : FightHolds(f) /\ f.all \subseteq Players
  BY <1>1 DEF FightsHold, MapTyped
<1>10. FightsHold'
  <2>1. ASSUME NEW g \in fights'
        PROVE  FightHolds(g)'
    <3>1. PICK f \in fights : g.all = f.all /\ g.gone = f.gone \cup ({p} \cap f.all)
      BY <1>5
    <3>2. \A c \in g.all \ g.gone : screen'[c] = "fight" /\ \E k \in Players : c \in Ids(R[k])
      BY <1>3, <1>6, <1>9, <3>1 DEF FightHolds
    <3>3. \A c \in g.gone : place'[c] = Nowhere
      BY <1>3, <1>9, <3>1 DEF FightHolds
    <3>4. ASSUME NEW k \in Players, Ids(R[k]) \cap g.all # {}
          PROVE  Ids(R[k]) \subseteq g.all
      <4>1. PICK d : d \in Ids(R[k]) /\ d \in f.all
        BY <3>1, <3>4
      <4>2. PICK l \in Players : d \in Ids(training[l]) /\ Ids(R[k]) = Ids(training[l]) \ {p}
        BY <1>6, <4>1
      <4> QED BY <1>9, <3>1, <4>1, <4>2 DEF FightHolds
    <3>5. g.gone \subseteq g.all
      BY <1>9, <3>1 DEF FightHolds
    <3> QED BY <3>2, <3>3, <3>4, <3>5 DEF FightHolds, Ids
  <2>2. ASSUME NEW g \in fights', NEW h \in fights', g.all \cap h.all # {}
        PROVE  g = h
    <3>1. PICK f \in fights : g.all = f.all /\ g.gone = f.gone \cup ({p} \cap f.all)
      BY <1>5
    <3>2. PICK e \in fights : h.all = e.all /\ h.gone = e.gone \cup ({p} \cap e.all)
      BY <1>5
    <3>3. f = e
      BY <1>1, <2>2, <3>1, <3>2 DEF FightsHold
    <3> QED BY <1>5, <3>1, <3>2, <3>3
  <2>3. ASSUME NEW q \in Players, screen'[q] = "fight"
        PROVE  \E g \in fights' : q \in g.all \ g.gone
    <3>1. q # p /\ screen[q] = "fight"
      BY <1>3, <2>3
    <3>2. PICK f \in fights : q \in f.all \ f.gone
      BY <1>1, <3>1 DEF FightsHold, FightsAreFought
    <3>3. PICK g \in fights' : g.all = f.all /\ g.gone = f.gone \cup ({p} \cap f.all)
      BY <1>5, <3>1, <3>2
    <3> QED BY <3>1, <3>2, <3>3
  <2>4. FightsAreFought'
    BY <2>3 DEF FightsAreFought
  <2> QED BY <2>1, <2>2, <2>4 DEF FightsHold
<1>11. ASSUME NEW c \in Players \ {p}, place[c] # Nowhere
       PROVE  (InFight(c)' <=> InFight(c)) /\ (Hidden(c)' <=> Hidden(c))
  <2>1. ASSUME NEW f \in fights, c \in f.all
        PROVE  \E g \in fights' : c \in g.all
    <3>1. c \notin f.gone
      BY <1>9, <1>11 DEF FightHolds
    <3> QED BY <1>5, <2>1, <3>1
  <2>2. InFight(c)' <=> InFight(c)
    BY <1>5, <2>1 DEF InFight
  <2> QED BY <1>2, <2>2 DEF Hidden
<1>12. \A c \in NewOwners : c \in Players /\ c # p /\ place[c] # Nowhere
  <2>1. \A c \in Players : chats'[c] # <<>> => c \in ChatSeats(c)'
    BY <1>7 DEF ChatsInv, Filed, ChatSeats, Among
  <2>2. \A c \in NewOwners : c \in Players /\ c \in ChatSeats(c)'
    BY <2>1, NewLeadersAre
  <2> QED BY <1>1, <1>7, <2>2 DEF GoneIsGone
<1>13. GoneIsGone'
  <2>1. ASSUME NEW c \in Players
        PROVE  screen'[c] = "off" <=> place'[c] = Nowhere
    BY <1>1, <1>3 DEF GoneIsGone
  <2>2. ASSUME NEW c \in Players, place'[c] = Nowhere
        PROVE  /\ \A l \in Players : c \notin Ids(R[l]) /\ c \notin ChatSeats(l)'
               /\ c \notin signs' /\ c \notin lesson' /\ owed'[c] = Absent
    <3>1. CASE c = p
      BY <1>2, <1>4, <1>6, <1>7, <3>1
    <3>2. CASE c # p
      <4>1. /\ place[c] = Nowhere /\ \A l \in Players : c \notin Ids(training[l]) /\ c \notin ChatSeats(l)
            /\ c \notin signs /\ c \notin lesson /\ owed[c] = Absent
        BY <1>1, <1>3, <2>2, <3>2 DEF GoneIsGone
      <4>2. c \notin NewOwners
        BY <1>12, <4>1
      <4>3. owed'[c] = Absent
        BY <1>4, <3>2, <4>1, <4>2 DEF OwedTo
      <4> QED BY <1>2, <1>6, <1>7, <4>1, <4>3
    <3> QED BY <3>1, <3>2
  <2> QED BY <2>1, <2>2 DEF GoneIsGone, Ids
<1>14. ASSUME NEW c \in Players \ {p}, place[c] # Nowhere, c \notin NewOwners, NEW icon, Shows(c, icon)
       PROVE  icon = Action(c)' \/ c \in inherited'
  <2>1. CASE c \in NewLeaders
    BY <1>2, <2>1
  <2>2. CASE c \in inherited
    BY <1>2, <1>14, <2>2
  <2>3. CASE icon = Action(c) /\ c \notin NewLeaders
    <3>1. R[c].members # <<>> <=> training[c].members # <<>>
      BY <1>6, <2>3, NewLeadersAre
    <3>2. chats'[c] # <<>> <=> chats[c] # <<>>
      BY <1>7, <1>14, NewLeadersAre
    <3>3. ChatRoomOf(c)' # {} <=> ChatRoomOf(c) # {}
      <4>1. (\E k \in Players : c \in ChatSeats(k)') <=> \E k \in Players : c \in ChatSeats(k)
        BY <1>7
      <4>2. (ChatRoomOf(c) # {} <=> \E k \in Players : c \in ChatSeats(k))
            /\ (ChatRoomOf(c)' # {} <=> \E k \in Players : c \in ChatSeats(k)')
        BY DEF ChatRoomOf
      <4> QED BY <4>1, <4>2
    <3>4. InFight(c)' <=> InFight(c)
      BY <1>11, <1>14
    <3>5. c \in Players /\ (c \in lesson' <=> c \in lesson) /\ (c \in signs' <=> c \in signs)
          /\ (c \in reading' <=> c \in reading)
      BY <1>2
    <3>6. Action(c)' = Action(c)
      BY <3>1, <3>2, <3>3, <3>4, <3>5, ActionKept
    <3> QED BY <2>3, <3>6
  <2> QED BY <1>14, <2>1, <2>2, <2>3 DEF Shows
<1>15. \A c : Action(c)' # Absent
  BY ActionTyped
<1>16. ASSUME NEW q \in Players, screen'[q] = "map", NEW c \in Players \ {q}
      PROVE  /\ drawn'[q][c] # Absent => place'[c] = place'[q]
             /\ place'[c] = place'[q] /\ screen'[c] = "map" => drawn'[q][c] # Absent
             /\ drawn'[q][c] # Absent /\ ~Hidden(q)' => drawn'[q][c] = Action(c)' \/ c \in inherited'
  <2>1. q # p /\ screen[q] = "map" /\ place[q] # Nowhere
    BY <1>1, <1>3, <1>16 DEF GoneIsGone
  <2>2. CASE c = p
    BY <1>3, <1>4, <2>1, <2>2
  <2>3. CASE c # p
    <3>1. drawn'[q][c] = DrawnBy(q, c, NewOwners, Blocked')
      BY <1>4, <2>1, <2>3
    <3>2. /\ drawn[q][c] # Absent => place[c] = place[q]
          /\ place[c] = place[q] /\ screen[c] = "map" => drawn[q][c] # Absent
          /\ drawn[q][c] # Absent /\ ~Hidden(q) => Shows(c, drawn[q][c])
      BY <1>1, <2>1 DEF ScenesAreTrue
    <3>3. drawn'[q][c] # Absent <=> drawn[q][c] # Absent
      BY <1>15, <3>1 DEF DrawnBy
    <3>4. ASSUME drawn'[q][c] # Absent, ~Hidden(q)'
          PROVE  drawn'[q][c] = Action(c)' \/ c \in inherited'
      <4>1. drawn[q][c] # Absent /\ place[c] = place[q] /\ ~Hidden(q) /\ q \notin Blocked'
        BY <1>11, <2>1, <3>2, <3>3, <3>4 DEF Blocked
      <4>2. CASE c \in NewOwners
        <5>1. place'[q] = place'[c]
          BY <1>3, <2>1, <2>3, <4>1
        <5> QED BY <1>16, <3>1, <4>1, <4>2, <5>1 DEF DrawnBy
      <4>3. CASE c \notin NewOwners
        <5>1. drawn'[q][c] = drawn[q][c]
          BY <3>1, <4>3 DEF DrawnBy
        <5> QED BY <1>14, <2>1, <2>3, <3>2, <4>1, <4>3, <5>1
      <4> QED BY <4>2, <4>3
    <3> QED BY <1>3, <2>1, <2>3, <3>2, <3>3, <3>4
  <2> QED BY <2>2, <2>3
<1>17. ASSUME NEW c \in Players, ~Hidden(c)'
       PROVE  /\ owed'[c] # Absent => owed'[c] = Action(c)' \/ c \in inherited'
              /\ owed'[c] = Absent /\ screen'[c] = "map" => drawn'[c][c] = Action(c)' \/ c \in inherited'
  <2>1. CASE c = p
    BY <1>3, <1>4, <2>1
  <2>2. CASE c # p /\ c \in NewOwners
    <3>1. c \notin Blocked'
      BY <1>17 DEF Blocked
    <3>2. owed'[c] = Action(c)'
      BY <1>4, <1>17, <2>2, <3>1 DEF OwedTo
    <3> QED BY <1>15, <3>2
  <2>3. CASE c # p /\ c \notin NewOwners
    <3>1. owed'[c] = owed[c]
      BY <1>4, <2>3 DEF OwedTo
    <3>2. drawn'[c][c] = drawn[c][c] /\ screen'[c] = screen[c]
      BY <1>3, <1>4, <2>3
    <3>3. CASE place[c] = Nowhere
      BY <1>1, <3>1, <3>2, <3>3 DEF GoneIsGone
    <3>4. CASE place[c] # Nowhere
      <4>1. ~Hidden(c)
        BY <1>11, <1>17, <2>3, <3>4
      <4>2. /\ owed[c] # Absent => Shows(c, owed[c])
            /\ owed[c] = Absent /\ screen[c] = "map" => Shows(c, drawn[c][c])
        BY <1>1, <4>1 DEF OwnIsTrue
      <4> QED BY <1>14, <2>3, <3>1, <3>2, <3>4, <4>2
    <3> QED BY <3>3, <3>4
  <2> QED BY <2>1, <2>2, <2>3
<1>18. ScenesAreTrue' /\ OwnIsTrue'
  BY <1>16, <1>17 DEF ScenesAreTrue, OwnIsTrue, Shows
<1> QED BY <1>4, <1>6, <1>7, <1>8, <1>10, <1>13, <1>18 DEF IInv, RoomsInv, IconsInv

-----------------------------------------------------------------------------
(* The theorems.                                                           *)
LEMMA Initially == Init => IInv
<1> SUFFICES ASSUME Init PROVE IInv
  OBVIOUS
<1>1. /\ place = [p \in Players |-> Nowhere] /\ lesson = {} /\ fights = {} /\ signs = {} /\ reading = {}
      /\ training = [p \in Players |-> NoRoom] /\ chats = [p \in Players |-> <<>>]
      /\ owed = [p \in Players |-> Absent] /\ screen = [p \in Players |-> "off"]
      /\ drawn = [p \in Players |-> [c \in Players |-> Absent]]
      /\ roster = [p \in Players |-> {}] /\ seats = [p \in Players |-> {}] /\ inherited = {}
  BY DEF Init
<1>2. NoRoom \in RoomType /\ NoRoom.members = <<>> /\ Ids(NoRoom) = {}
      /\ NoRoom.ready = {} /\ NoRoom.sideA = {}
  BY NoRoomIsEmpty
<1>3. training \in [Players -> RoomType] /\ \A l \in Players : training[l] = NoRoom
  BY <1>1, <1>2
<1>4. RoomsTyped
  BY <1>2, <1>3 DEF RoomsTyped
<1>5. Filed(Lists(training))
  <2>1. \A l \in Players : Lists(training)[l] = <<>>
    BY <1>2, <1>3 DEF Lists
  <2>2. Lists(training) \in [Players -> Seq(Players)]
    BY <1>2, <1>3 DEF Lists, RoomType
  <2> QED BY <2>1, <2>2, AmongNone DEF Filed
<1>6. RosterTyped /\ RosterShows
  BY <1>1, <1>2, <1>3 DEF RosterTyped, RosterShows
<1>7. SidesFit
  <2>1. \A a \in BOOLEAN : Side(NoRoom, a) = {}
    BY <1>2 DEF Side
  <2>2. \A l \in Players, a \in BOOLEAN : Cardinality(Side(training[l], a)) = 0
    BY <1>3, <2>1, FS_EmptySet
  <2>3. 0 <= TeamMax
    BY TeamLimits
  <2> QED BY <2>2, <2>3 DEF SidesFit
<1>8. \A o \in Players : chats[o] = <<>> /\ ChatSeats(o) = {}
  BY <1>1 DEF ChatSeats
<1>9. ChatsInv
  <2>1. Filed(chats)
    BY <1>1, <1>8, AmongNone DEF Filed
  <2> QED BY <1>1, <1>8, <2>1 DEF ChatsInv, SeatsShow
<1>10. MapTyped
  BY <1>1 DEF MapTyped
<1>11. GoneIsGone
  BY <1>1, <1>2, <1>3, <1>8 DEF GoneIsGone
<1>12. FightsHold
  BY <1>1 DEF FightsHold, FightsAreFought
<1>13. IconsTyped /\ ScenesAreTrue /\ OwnIsTrue
  BY <1>1 DEF IconsTyped, ScenesAreTrue, OwnIsTrue
<1> QED BY <1>4, <1>5, <1>6, <1>7, <1>9, <1>10, <1>11, <1>12, <1>13
        DEF IInv, RoomsInv, TrainingInv, IconsInv

LEMMA StutterKeeps ==
  ASSUME IInv, UNCHANGED vars
  PROVE  IInv'
<1>1. /\ place' = place /\ screen' = screen /\ owed' = owed /\ drawn' = drawn
      /\ UNCHANGED <<lesson, fights, boards, reading, windows, inherited>>
  BY DEF vars, boards, windows
<1>2. /\ TrainingInv' /\ ChatsInv'
      /\ \A c \in Players : Action(c)' = Action(c) /\ (Hidden(c)' <=> Hidden(c))
      /\ training' = training /\ signs' = signs /\ lesson' = lesson /\ fights' = fights
      /\ reading' = reading /\ inherited' = inherited
      /\ \A o : ChatSeats(o)' = ChatSeats(o)
  BY <1>1, WalkKeeps
<1>3. MapTyped /\ GoneIsGone /\ IconsTyped /\ ScenesAreTrue /\ OwnIsTrue
  BY DEF IInv, RoomsInv, IconsInv
<1>4. MapTyped'
  BY <1>1, <1>2, <1>3 DEF MapTyped
<1>5. GoneIsGone'
  BY <1>1, <1>2, <1>3 DEF GoneIsGone, Ids
<1>6. FightsHold'
  BY <1>1, <1>2, WalkFights
<1>7. IconsTyped'
  BY <1>1, <1>2, <1>3 DEF IconsTyped
<1>8. ScenesAreTrue' /\ OwnIsTrue'
  BY <1>1, <1>2, <1>3 DEF ScenesAreTrue, OwnIsTrue, Shows
<1> QED BY <1>2, <1>4, <1>5, <1>6, <1>7, <1>8 DEF IInv, RoomsInv, IconsInv

LEMMA Inductive ==
  ASSUME ~MayReturn, IInv, [Next]_vars
  PROVE  IInv'
<1>1. CASE \E p \in Players, m \in Homes : Login(p, m)
  BY <1>1, LoginKeeps
<1>2. CASE \E p \in Players, m \in Maps : Warp(p, m)
  BY <1>2, WarpKeeps
<1>3. CASE \E p \in Players : Enter(p)
  BY <1>3, EnterKeeps
<1>4. CASE \E p \in Players : Drain(p)
  BY <1>4, DrainKeeps
<1>5. CASE \E p \in Players : Leave(p)
  BY <1>5, GoneKeeps DEF Leave
<1>6. CASE \E p \in Players : TrainingAdd(p)
  BY <1>6, AddKeeps
<1>7. CASE \E p, l \in Players : TrainingJoin(p, l)
  BY <1>7, JoinKeeps
<1>8. CASE \E p \in Players : TrainingPart(p)
  BY <1>8, PartKeeps
<1>9. CASE \E p \in Players, on \in BOOLEAN : TrainingReady(p, on)
  BY <1>9, ReadyKeeps
<1>10. CASE \E p \in Players, a \in BOOLEAN : TrainingTeam(p, a)
  BY <1>10, TeamKeeps
<1>11. CASE \E p, c \in Players : TrainingKick(p, c)
  BY <1>11, KickKeeps
<1>12. CASE \E p \in Players : TrainingStart(p)
  BY <1>12, StartKeeps
<1>13. CASE \E f \in fights : FightEnds(f)
  BY <1>13, EndKeeps
<1>14. CASE \E p \in Players : ChatAdd(p)
  BY <1>14, ChatAddKeeps
<1>15. CASE \E p, o \in Players : ChatJoin(p, o)
  BY <1>15, ChatJoinKeeps
<1>16. CASE \E p \in Players : ChatPart(p)
  BY <1>16, ChatPartKeeps
<1>17. CASE \E p \in Players : SignUp(p) \/ SignDown(p)
  BY <1>17, SignKeeps
<1>18. CASE \E p \in Players, open \in BOOLEAN : Read(p, open)
  BY <1>18, ReadKeeps
<1>19. CASE \E p \in Players : Attend(p)
  BY <1>19, AttendKeeps
<1>20. CASE LessonEnds
  BY <1>20, LessonEndsKeeps
<1>21. CASE UNCHANGED vars
  BY <1>21, StutterKeeps
<1> QED BY <1>1, <1>2, <1>3, <1>4, <1>5, <1>6, <1>7, <1>8, <1>9, <1>10, <1>11, <1>12, <1>13,
           <1>14, <1>15, <1>16, <1>17, <1>18, <1>19, <1>20, <1>21 DEF Next

LEMMA InvariantHolds == ASSUME ~MayReturn PROVE Spec => []IInv
<1>1. IInv /\ [Next]_vars => IInv'
  BY Inductive
<1> QED BY Initially, <1>1, PTL DEF Spec

LEMMA AtMostOne ==
  ASSUME NEW S, \A a, b \in S : a = b
  PROVE  Cardinality(S) <= 1
<1>1. CASE S = {}
  BY <1>1, FS_EmptySet
<1>2. CASE S # {}
  <2>1. PICK a \in S : TRUE
    BY <1>2
  <2>2. S = {a}
    BY <2>1
  <2> QED BY <2>2, FS_Singleton
<1> QED BY <1>1, <1>2


LEMMA RoomsInvShows ==
  ASSUME IInv
  PROVE  RoomsAreOne /\ FightsAreFair
<1>1. /\ RoomsInv /\ TrainingInv /\ ChatsInv /\ MapTyped /\ GoneIsGone /\ FightsHold /\ IconsTyped
  BY DEF IInv, RoomsInv, IconsInv
<1>2. TypeOK
  BY <1>1 DEF TypeOK, TrainingInv, RoomsTyped, RosterTyped, ChatsInv, Filed, MapTyped, IconsTyped
<1>3. /\ \A l \in Players : training[l].members # <<>> => l \in Ids(training[l])
      /\ \A l, k \in Players : \A c : c \in Ids(training[l]) /\ c \in Ids(training[k]) => l = k
  BY <1>1, RoomsAreFiled
<1>4. /\ \A o \in Players : chats[o] # <<>> => o \in ChatSeats(o)
      /\ \A o, k \in Players : \A c : c \in ChatSeats(o) /\ c \in ChatSeats(k) => o = k
  BY <1>1, ChatsAreFiled
<1>5. RoomsCanBeFound
  <2>1. ASSUME NEW c \in Players
        PROVE  /\ Cardinality(TrainingRoomOf(c)) <= 1 /\ Cardinality(ChatRoomOf(c)) <= 1
               /\ (TrainingRoomOf(c) # {} \/ ChatRoomOf(c) # {} \/ c \in signs) => place[c] # Nowhere
    <3>1. \A a, b \in TrainingRoomOf(c) : a = b
      BY <1>3 DEF TrainingRoomOf
    <3>2. \A a, b \in ChatRoomOf(c) : a = b
      BY <1>4 DEF ChatRoomOf
    <3>3. (TrainingRoomOf(c) # {} \/ ChatRoomOf(c) # {} \/ c \in signs) => place[c] # Nowhere
      BY <1>1 DEF GoneIsGone, TrainingRoomOf, ChatRoomOf
    <3> QED BY <3>1, <3>2, <3>3, AtMostOne
  <2> QED BY <1>3, <1>4, <2>1 DEF RoomsCanBeFound
<1>6. WindowsAreRooms
  <2>1. ASSUME NEW c \in Players
        PROVE  seats[c] = UNION {ChatSeats(o) : o \in ChatRoomOf(c)}
    <3>1. CASE ChatRoomOf(c) = {}
      <4>1. seats[c] = {}
        BY <1>1, <3>1 DEF ChatsInv, SeatsShow, ChatRoomOf
      <4> QED BY <3>1, <4>1
    <3>2. CASE ChatRoomOf(c) # {}
      <4>1. PICK o \in ChatRoomOf(c) : TRUE
        BY <3>2
      <4>2. o \in Players /\ c \in ChatSeats(o)
        BY DEF ChatRoomOf
      <4>3. ChatRoomOf(c) = {o}
        BY <1>4, <4>2 DEF ChatRoomOf
      <4>4. seats[c] = ChatSeats(o)
        BY <1>1, <4>2 DEF ChatsInv, SeatsShow
      <4> QED BY <4>3, <4>4
    <3> QED BY <3>1, <3>2
  <2>2. ASSUME NEW c \in Players
        PROVE  roster[c] = UNION {Rows(training[l]) : l \in TrainingRoomOf(c)}
    <3>1. CASE TrainingRoomOf(c) = {}
      <4>1. roster[c] = {}
        BY <1>1, <3>1 DEF TrainingInv, RosterShows, TrainingRoomOf
      <4> QED BY <3>1, <4>1
    <3>2. CASE TrainingRoomOf(c) # {}
      <4>1. PICK l \in TrainingRoomOf(c) : TRUE
        BY <3>2
      <4>2. l \in Players /\ c \in Ids(training[l])
        BY DEF TrainingRoomOf
      <4>3. TrainingRoomOf(c) = {l}
        BY <1>3, <4>2 DEF TrainingRoomOf
      <4>4. roster[c] = Rows(training[l])
        BY <1>1, <4>2 DEF TrainingInv, RosterShows
      <4> QED BY <4>3, <4>4
    <3> QED BY <3>1, <3>2
  <2> QED BY <2>1, <2>2 DEF WindowsAreRooms
<1>7. FightsAreFair
  BY <1>1 DEF FightsAreFair, TrainingInv, FightsHold
<1> QED BY <1>2, <1>5, <1>6, <1>7 DEF RoomsAreOne

LEMMA IconsInvShows ==
  ASSUME IInv
  PROVE  IconsAreTrue
<1>1. ScenesAreTrue /\ OwnIsTrue
  BY DEF IInv, IconsInv
<1> DEFINE icon == [c \in Players |-> Action(c)]
<1>2. \A c \in Players : icon[c] = Action(c)
  OBVIOUS
<1>3. ASSUME NEW q \in Players, Looking(q), NEW c \in Players \ {q}
      PROVE  IF place[c] = place[q]
               THEN \/ drawn[q][c] = icon[c]
                    \/ c \in inherited
                    \/ drawn[q][c] = Absent /\ screen[c] # "map"
               ELSE drawn[q][c] = Absent
  BY <1>1, <1>2, <1>3 DEF ScenesAreTrue, Looking, Shows
<1>4. ASSUME NEW q \in Players, Looking(q)
      PROVE  \/ q \in inherited
             \/ owed[q] = Absent /\ drawn[q][q] = icon[q]
             \/ owed[q] = icon[q]
  BY <1>1, <1>2, <1>4 DEF OwnIsTrue, Looking, Shows
<1> HIDE DEF icon
<1>5. \A q \in Players : Looking(q) =>
    /\ \A c \in Players \ {q} :
         IF place[c] = place[q]
           THEN \/ drawn[q][c] = icon[c]
                \/ c \in inherited
                \/ drawn[q][c] = Absent /\ screen[c] # "map"
           ELSE drawn[q][c] = Absent
    /\ \/ q \in inherited
       \/ owed[q] = Absent /\ drawn[q][q] = icon[q]
       \/ owed[q] = icon[q]
  BY <1>3, <1>4
<1> QED BY <1>5, Zenon DEF IconsAreTrue, icon

(* A training room and a chat room are filed under a member who is logged   *)
(* in, nobody sits in two of a kind or keeps a seat after leaving, and the  *)
(* window everybody has up is the room as it stands: trainingroom.py,       *)
(* chatroom.py and the handlers of mps_session.py that call them, as long   *)
(* as nobody logs in again while a fight they left is still on.             *)
THEOREM RoomsStayOne == ASSUME ~MayReturn PROVE Spec => []RoomsAreOne
BY InvariantHolds, RoomsInvShows, PTL

(* No side outgrows TEAM_MAX, and whoever has the battle screen up is in a  *)
(* fight that is on the board: smaller_team, the two buttons of a room and  *)
(* BattleBoard's open, leave and close, under the same condition.           *)
THEOREM FightsStayFair == ASSUME ~MayReturn PROVE Spec => []FightsAreFair
BY InvariantHolds, RoomsInvShows, PTL

(* What a client with the map up draws is who is there, under the icon they *)
(* have: _presence_icon and every handler that moves an icon, under the     *)
(* same condition and but for a leader that a lost connection promoted.     *)
THEOREM IconsStayTrue == ASSUME ~MayReturn PROVE Spec => []IconsAreTrue
BY InvariantHolds, IconsInvShows, PTL
=============================================================================
