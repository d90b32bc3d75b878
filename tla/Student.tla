------------------------------ MODULE Student ------------------------------
(***************************************************************************)
(* The composition of what makes a school year: lessons and their helping  *)
(* skills (Helping), exams (Exams), clubs (Clubs), the stress all of them   *)
(* leave on one sheet (Health), and romance (Romance).  They share the      *)
(* ability sheet, the connection and the one screen a client is on at a     *)
(* time; a process that dies takes every connection and whatever was not    *)
(* written yet.                                                             *)
(***************************************************************************)
EXTENDS Helping, Exams, Clubs, Romance

vars == <<online, exists, healthVars, helpingVars, examVars, clubVars, romanceVars>>

Init ==
  /\ online = {} /\ exists = Players
  /\ HealthInit /\ HelpingInit /\ ExamsInit /\ ClubsInit /\ RomanceInit

(* On the map, with no window up: the client has no other way to ask.      *)
Idle(p) == /\ p \in online \ seated /\ screen[p] = "none"
           /\ paper[p] = NoPaper /\ bell[p] = NoBell /\ AtEase(p)

Arrive(p) ==
  /\ p \in exists \ online /\ online' = online \cup {p} /\ ExamsLogin(p) /\ RomanceLogin(p)
  /\ UNCHANGED <<exists, healthVars, helpingVars, clubVars>>

ConnectionsEnd(who) ==
  /\ online' = online \ who
  /\ HealthGone(who) /\ Leaves(who) /\ ExamsGone(who) /\ ClubsGone(who)
  /\ UNCHANGED exists

Leave(p) ==
  /\ p \in online /\ ConnectionsEnd({p}) /\ RomanceGone({p})
  /\ UNCHANGED <<sheet, days, card, papers, first, handedIn, member, satchel, love>>

(* The process dies, at rest or in the middle of something that writes     *)
(* more than one file.                                                     *)
Crash ==
  /\ online # {} /\ ConnectionsEnd(online) /\ RomanceGone(Players)
  /\ \/ UNCHANGED <<sheet, days, card, papers, first, handedIn, member, satchel, love>>
     \/ /\ \E p \in online, score \in Scores, written \in 1..2 : ExamPartTorn(p, score, written)
        /\ UNCHANGED <<member, satchel, love>>
     \/ /\ \E p \in online : ClubsTorn(p)
        /\ UNCHANGED <<days, card, papers, first, handedIn, love>>
     \/ /\ \E p \in online, opened \in BOOLEAN, gain \in Grants : SceneTorn(p, opened, gain)
        /\ UNCHANGED <<sheet, days, card, papers, first, handedIn, member, satchel>>

Body ==
  /\ \E p \in Players :
       \/ DrainVitals(p) \/ StandUp(p) \/ TimePasses(p)
       \/ /\ Idle(p)
          /\ UseRelief(p) \/ \E at \in {"healing", "elsewhere"} : SitDown(p, at)
  /\ UNCHANGED <<online, exists, helpingVars, examVars, clubVars, romanceVars>>

Lesson ==
  /\ \/ \E p \in Players, packed \in BOOLEAN : Idle(p) /\ LessonStart(p, packed)
     \/ \E r \in Choices : Ask(r)
     \/ \E p \in Players :
          \/ \E c \in Choices : TakeAnswer(p, c)
          \/ Feeling(p) \/ Concentrate(p) \/ LessonEnd(p)
          \/ \E works \in BOOLEAN : EatLunch(p, works)
          \/ \E q \in Players : Cheat(p, q) \/ Teach(p, q) \/ Support(p, q)
  /\ UNCHANGED <<online, exists, examVars, clubVars, romanceVars>>

Exam ==
  /\ \/ CalendarMoves
     \/ \E p \in Players :
          \/ \E s \in Subjects : Idle(p) /\ RingExam(p, s)
          \/ ExamStart(p) \/ ExamMissed(p) \/ LookAtCard(p)
          \/ \E score \in Scores : ExamPart(p, score)
  /\ UNCHANGED <<online, exists, helpingVars, clubVars, romanceVars>>

Club ==
  /\ \E p \in Players :
       \/ /\ Idle(p)
          /\ \/ \E c \in ClubKeys : ClubEnter(p, c)
             \/ ClubPart(p) \/ NpcBattleStart(p) \/ GouseiStart(p)
             \/ \E k \in Keywords : ScriptKeyword(p, k)
             \/ \E d \in Decks, cards \in SUBSET Cards, ticks \in SUBSET Uses :
                  ClubDeckUpdate(p, d, cards, ticks)
       \/ \E c \in ClubKeys : WaitIsOver(p, c)
       \/ \E level \in 0..LadderTop - 1 : NpcBattleInfo(p, level)
       \/ LevelCancel(p) \/ GouseiEnd(p)
       \/ \E k \in Keywords : PlayCard(p, k)
       \/ \E won \in BOOLEAN : BoutEnds(p, won)
       \/ \E s \in Skills, made \in 0..1, works \in BOOLEAN : Gousei(p, s, made, works)
  /\ UNCHANGED <<online, exists, helpingVars, examVars, romanceVars>>

Love ==
  /\ \/ Midnight
     \/ \E p \in Players :
          \/ /\ Idle(p)
             /\ \/ LobbyDataStart(p) \/ AskStaff(p)
                \/ \E c \in Candidates :
                     \/ \E answer \in {"none", "talk", "main"} : AskTalk(p, c, answer)
                     \/ OpenLocker(p, c) \/ AskLetter(p, c)
                     \/ \E sure \in BOOLEAN : MeetingStart(p, c, sure)
                \/ \E sure \in BOOLEAN : NpcEventStart(p, sure)
          \/ \E c \in Candidates :
               \/ ReplayStart(p, c) \/ \E sure \in BOOLEAN : TitleEventStart(p, c, sure)
          \/ \E opened, scripts \in BOOLEAN, gain \in Grants : SceneEnds(p, opened, gain, scripts)
          \/ TitleEventEnd(p) \/ ShadowLost(p) \/ ScriptInterrupt(p) \/ NpcEventEnd(p) \/ Reenrol(p)
  /\ UNCHANGED <<online, exists, healthVars, helpingVars, examVars, clubVars>>

Next ==
  \/ \E p \in Players : Arrive(p) \/ Leave(p)
  \/ Crash \/ Body \/ Lesson \/ Exam \/ Club \/ Love

Spec == Init /\ [][Next]_vars
-----------------------------------------------------------------------------
(* Type correctness of the composition; a sheet every part writes is never *)
(* an illness without its stress, and a deck is never more than is owned.  *)
SheetsAreSound ==
  HealthTypeOK /\ ExamsTypeOK /\ ClubsTypeOK /\ IllnessHasStress /\ DecksAreSound

(* An exam counts, and counts once.                                        *)
ExamsCountOnce == SatOnce /\ ResultsAreKept

(* What is learnt stays learnt, through crashes and failed tries: a skill  *)
(* is only made for a book, a rung only won by a bout on the one below.    *)
GrowthIsSteady == [][\A p \in Players : Grows(p)]_vars

(* What was lived through with the candidates stays lived through, however *)
(* a scene was cut off, and no scene pays twice.                           *)
MemoriesStay == [][\A p \in Players : Remembers(p) /\ PaidOnce(p)]_vars
=============================================================================
