------------------------------- MODULE Clubs -------------------------------
(***************************************************************************)
(* Clubs (server/club.py, server/gousei.py, the doors to a practice bout   *)
(* and what it pays out in server/mps_session.py): membership and the wait *)
(* before joining again, the cards a character owns and the decks they are *)
(* in, the ladder of practice levels, and the synthesis of a skill out of  *)
(* a book.  The turns of a bout are ClubBattle's; here it is the cards     *)
(* played in it and its payout, which is charged to the body as well.      *)
(***************************************************************************)
EXTENDS Health

CONSTANTS
  ClubKeys,       \* the playable clubs
  Keywords, Skills,
  SkillClub,      \* clubskill.bin: the category, which is the club, of a skill
  ForSex,         \* clubskill.bin: the skills a character's sex may use
  Successors,     \* keyword.bin: what mastering a keyword earns
  FullScale,      \* keyword.bin: the uses that master a keyword
  LadderTop,      \* clubdata.ladder_top
  Decks,          \* 0..DECK_COUNT-1
  Uses,           \* what a deck may be ticked for: practice, self-training
  Granting,       \* the keywords some script hands over
  MaxBooks        \* bound, for the model: books and materials carried

ASSUME ClubsAssumption == FullScale \in Nat /\ LadderTop \in Nat \ {0} /\ MaxBooks \in Nat

NoClub == "none"
Cards == Keywords \cup Skills
Unowned == -1

VARIABLES
  member,   \* on disk, Membership: in_club, left, battle_level, keywords,
            \*   clubSkills, deckItems, deckUse
  satchel,  \* on disk, of the Inventory: books and synthesis materials
  screen,   \* the club window the client has up; session.gousei_npc for its own
  bout      \* the practice bout: level, team's club, items_won

clubVars == <<member, satchel, screen, bout>>
NoBout == [level |-> -1, club |-> NoClub]

ClubsInit ==
  /\ member = [p \in Players |->
       [club |-> NoClub, waits |-> {}, level |-> [c \in ClubKeys |-> 1],
        kw |-> [k \in Keywords |-> Unowned], skill |-> [s \in Skills |-> Unowned],
        deck |-> [d \in Decks |-> {}], use |-> [d \in Decks |-> {}]]]
  /\ satchel = [p \in Players |-> [books |-> [s \in Skills |-> 0], material |-> 0]]
  /\ screen = [p \in Players |-> "none"]
  /\ bout = [p \in Players |-> NoBout]
-----------------------------------------------------------------------------
Owned(m) == {k \in Keywords : m.kw[k] # Unowned} \cup {s \in Skills : m.skill[s] # Unowned}

(* enter_refusal: not in a club, and ten days since leaving this one.      *)
ClubEnter(p, club) ==
  /\ p \in online /\ screen[p] = "none"
  /\ member[p].club = NoClub /\ club \notin member[p].waits
  /\ member' = [member EXCEPT ![p].club = club]
  /\ UNCHANGED <<satchel, screen, bout, healthVars>>

ClubPart(p) ==
  /\ p \in online /\ screen[p] = "none" /\ member[p].club # NoClub
  /\ member' = [member EXCEPT ![p].club = NoClub, ![p].waits = @ \cup {member[p].club}]
  /\ UNCHANGED <<satchel, screen, bout, healthVars>>

(* days_since_leaving: ten days are over.                                  *)
WaitIsOver(p, club) ==
  /\ club \in member[p].waits
  /\ member' = [member EXCEPT ![p].waits = @ \ {club}]
  /\ UNCHANGED <<satchel, screen, bout, healthVars>>

(* Variant: another deck's ticks are not looked at.                        *)
DeckFitsAlone(p, deck, cards, ticks) ==
  LET m == member[p] IN
  /\ cards \subseteq Owned(m) /\ cards \cap Skills \subseteq ForSex[p]
  /\ ticks # {} => \A s \in cards \cap Skills : SkillClub[s] = m.club

(* deck_update_refusal: what the deck window keeps to by itself, judged by *)
(* what the character holds now.                                           *)
DeckFits(p, deck, cards, ticks) ==
  LET m == member[p] IN
  /\ cards \subseteq Owned(m) /\ cards \cap Skills \subseteq ForSex[p]
  /\ ticks # {} => \A s \in cards \cap Skills : SkillClub[s] = m.club
  /\ \A other \in Decks \ {deck} : ticks \cap m.use[other] = {}

ClubDeckUpdate(p, deck, cards, ticks) ==
  /\ p \in online /\ screen[p] = "none"
  /\ DeckFits(p, deck, cards, ticks)
  /\ member' = [member EXCEPT ![p].deck[deck] = cards, ![p].use[deck] = ticks]
  /\ UNCHANGED <<satchel, screen, bout, healthVars>>

(* playable_entries and _practice_deck.                                    *)
Playable(m, deck) == {c \in m.deck[deck] : c \in Skills => SkillClub[c] = m.club}
PracticeDecks(p) ==
  {d \in Decks : "practice" \in member[p].use[d] /\ Playable(member[p], d) # {}}

(* 0x5D00, _npcbattle: the levels to choose from.  Whether the character   *)
(* is hurt is not asked here.                                              *)
NpcBattleStart(p) ==
  /\ p \in online /\ screen[p] = "none" /\ member[p].club # NoClub
  /\ PracticeDecks(p) # {}
  /\ screen' = [screen EXCEPT ![p] = "levels"]
  /\ UNCHANGED <<member, satchel, bout, healthVars>>

(* 0x5C03, _npc_battle_info: the client offers the rungs up to its ceiling.*)
NpcBattleInfo(p, level) ==
  /\ screen[p] = "levels" /\ level < member[p].level[member[p].club]
  /\ bout' = [bout EXCEPT ![p] = [level |-> level, club |-> member[p].club]]
  /\ screen' = [screen EXCEPT ![p] = "bout"]
  /\ UNCHANGED <<member, satchel, healthVars>>

LevelCancel(p) ==
  /\ screen[p] = "levels" /\ screen' = [screen EXCEPT ![p] = "none"]
  /\ UNCHANGED <<member, satchel, bout, healthVars>>

(* Variant: a successor is granted whether it is owned or not.             *)
MasteredAgain(m, k) ==
  IF m.kw[k] \in {Unowned, FullScale} THEN m
  ELSE LET after == m.kw[k] + 1 IN
       [m EXCEPT !.kw = [x \in Keywords |->
          IF x = k THEN after ELSE IF after = FullScale /\ x \in Successors[k] THEN 0
          ELSE m.kw[x]]]

(* _battle_mastery: a keyword played is used once more, up to its scale;   *)
(* reaching it hands over the successors that are not owned yet.           *)
Mastered(m, k) ==
  IF m.kw[k] \in {Unowned, FullScale} THEN m
  ELSE LET after == m.kw[k] + 1 IN
       [m EXCEPT !.kw = [x \in Keywords |->
          IF x = k THEN after
          ELSE IF after = FullScale /\ x \in Successors[k] /\ m.kw[x] = Unowned THEN 0
          ELSE m.kw[x]]]

(* A card of the deck this bout is fought with is played; the credit for   *)
(* it goes to the owner's record at once.                                  *)
PlayCard(p, k) ==
  /\ screen[p] = "bout" /\ \E d \in Decks : k \in member[p].deck[d]
  /\ member' = [member EXCEPT ![p] = Mastered(@, k)]
  /\ UNCHANGED <<satchel, screen, bout, healthVars>>

(* unlock_battle_level: a win at the ceiling opens the next rung.          *)
Unlocked(m, b) ==
  IF b.level + 1 < m.level[b.club] \/ m.level[b.club] >= LadderTop THEN m
  ELSE [m EXCEPT !.level[b.club] = @ + 1]

(* _battle_unlock_level: nothing for the side that lost.                   *)
AfterBout(p, won) == IF won THEN Unlocked(member[p], bout[p]) ELSE member[p]

(* The spoils: a book of the club's or none, and materials off the cards.  *)
Spoils(p) ==
  {satchel[p]} \cup {[satchel[p] EXCEPT !.material = @ + 1]}
    \cup {[satchel[p] EXCEPT !.books[s] = @ + 1] : s \in {s \in Skills : SkillClub[s] = bout[p].club}}
Carried(b) == b.material <= MaxBooks /\ \A s \in Skills : b.books[s] <= MaxBooks

(* _battle_payout: the sheet, then the bag, then the ladder.  A crash      *)
(* leaves the first `written` of the last two.                             *)
BoutPays(p, won, written) ==
  /\ screen[p] = "bout"
  /\ \E s \in AfterClubActivity(sheet[p]) : sheet' = [sheet EXCEPT ![p] = s]
  /\ IF written = 0 THEN UNCHANGED satchel
     ELSE \E b \in Spoils(p) : Carried(b) /\ satchel' = [satchel EXCEPT ![p] = b]
  /\ member' = [member EXCEPT ![p] = IF written = 2 THEN AfterBout(p, won) ELSE @]

BoutEnds(p, won) ==
  /\ BoutPays(p, won, 2)
  /\ bout' = [bout EXCEPT ![p] = NoBout] /\ screen' = [screen EXCEPT ![p] = "none"]
  /\ UNCHANGED seat
-----------------------------------------------------------------------------
(* 0x5300 and 0x5304, the synthesis window.                                *)
GouseiStart(p) ==
  /\ p \in online /\ screen[p] = "none" /\ member[p].club # NoClub
  /\ screen' = [screen EXCEPT ![p] = "gousei"]
  /\ UNCHANGED <<member, satchel, bout, healthVars>>

GouseiEnd(p) ==
  /\ screen[p] = "gousei" /\ screen' = [screen EXCEPT ![p] = "none"]
  /\ UNCHANGED <<member, satchel, bout, healthVars>>

(* grant_club_skill with the better of what was made and what is owned.    *)
Granted(m, s, made) == [m EXCEPT !.skill[s] = IF made > @ THEN made ELSE @]

(* 0x5306, _gousei: book and material are spent, and written, before it is *)
(* known whether it worked.                                                *)
Spends(p, s) ==
  /\ screen[p] = "gousei" /\ member[p].club # NoClub
  /\ satchel[p].books[s] > 0 /\ satchel[p].material > 0
  /\ satchel' = [satchel EXCEPT ![p].books[s] = @ - 1, ![p].material = @ - 1]

Gousei(p, s, made, works) ==
  /\ Spends(p, s)
  /\ member' = [member EXCEPT ![p] = IF works THEN Granted(@, s, made) ELSE @]
  /\ \E left \in AfterGousei(sheet[p]) : sheet' = [sheet EXCEPT ![p] = left]
  /\ UNCHANGED <<screen, bout, seat>>

(* _script_keywords: what a finished script grants this actor, unless it   *)
(* is owned already.                                                       *)
ScriptKeyword(p, k) ==
  /\ p \in online /\ screen[p] = "none" /\ k \in Granting /\ member[p].kw[k] = Unowned
  /\ member' = [member EXCEPT ![p].kw[k] = 0]
  /\ UNCHANGED <<satchel, screen, bout, healthVars>>

ClubsGone(who) ==
  /\ screen' = [p \in Players |-> IF p \in who THEN "none" ELSE screen[p]]
  /\ bout' = [p \in Players |-> IF p \in who THEN NoBout ELSE bout[p]]

(* What a process that dies in the middle of a payout or a synthesis has   *)
(* written by then.                                                        *)
ClubsTorn(p) ==
  \/ \E won \in BOOLEAN, written \in 0..1 : BoutPays(p, won, written)
  \/ \E s \in Skills : Spends(p, s) /\ UNCHANGED <<member, sheet>>
-----------------------------------------------------------------------------
(* Type correctness.                                                       *)
ClubsTypeOK ==
  \A p \in Players :
    /\ member[p].club \in ClubKeys \cup {NoClub} /\ member[p].waits \subseteq ClubKeys
    /\ \A c \in ClubKeys : member[p].level[c] \in 1..LadderTop
    /\ \A k \in Keywords : member[p].kw[k] \in Unowned..FullScale
    /\ Carried(satchel[p])
    /\ screen[p] # "none" => p \in online
    /\ bout[p] # NoBout <=> screen[p] = "bout"

(* The decks are what the deck window may make of them, whatever club the  *)
(* character moves to afterwards: cards that are owned and may be used, no *)
(* use asked of two decks; and whoever fights has a deck to fight with and *)
(* an opponent on the ladder, which the level window offered one message   *)
(* before and nothing asks again.  deck_update_refusal, _practice_deck,    *)
(* _npc_battle_info.                                                       *)
DecksAreSound ==
  \A p \in Players :
    /\ \A d \in Decks :
         /\ member[p].deck[d] \subseteq Owned(member[p])
         /\ member[p].deck[d] \cap Skills \subseteq ForSex[p]
         /\ \A other \in Decks \ {d} : member[p].use[d] \cap member[p].use[other] = {}
    /\ bout[p] # NoBout => /\ PracticeDecks(p) # {} /\ bout[p].club = member[p].club
                           /\ bout[p].level < LadderTop

(* What is learnt stays learnt, through every synthesis that comes out     *)
(* worse, every card earned twice and every crash; a skill is only got for *)
(* a book and a rung of the ladder only by a fight on the rung below.      *)
(* _battle_mastery, _gousei, _battle_unlock_level.                         *)
Grows(p) ==
  LET old == member[p]
      new == member'[p]
  IN new # old =>
     /\ \A k \in Keywords : new.kw[k] >= old.kw[k]
     /\ \A s \in Skills : /\ new.skill[s] >= old.skill[s]
                          /\ new.skill[s] # old.skill[s]
                               => satchel'[p].books[s] = satchel[p].books[s] - 1
     /\ \A c \in ClubKeys :
          \/ new.level[c] = old.level[c]
          \/ new.level[c] = old.level[c] + 1 /\ bout[p] = [level |-> old.level[c] - 1, club |-> c]
=============================================================================
