------------------------------ MODULE Romance ------------------------------
(***************************************************************************)
(* Romance (server/romance.py, server/cibispawns.py and the scenes of one  *)
(* player alone in server/mps_session.py): what a character and each of    *)
(* the candidates are to each other.  The client plays a scene and reports *)
(* where it is; the server's shadow runs the same script beside it, and    *)
(* when the scene is over takes what the shadow wrote into the save - or   *)
(* decides by itself, where the shadow has lost its place.  Asking for a   *)
(* scene, playing it, being paid for it and, after a letter, the ending    *)
(* are messages of their own, with a save in each.                         *)
(*                                                                         *)
(* What a script decides is a choice here.  The console's /rom is left out.*)
(***************************************************************************)
EXTENDS Online

CONSTANTS
  Candidates, NoOne,
  Tutored,        \* the candidates met in the first day's tutorial
  NewPlayers,     \* those whose first day is still ahead
  Events,         \* Candidate.events: the main events there are
  Needed,         \* intimacy_needed: what each of them waits for
  Grants,         \* what a conversation may be worth
  MaxIntimacy     \* bound: the running total

ASSUME RomanceAssumption ==
  /\ NoOne \notin Candidates /\ Tutored \subseteq Candidates /\ Events \in Nat \ {0}
  /\ Grants \subseteq Nat

VARIABLES
  love,    \* on disk: the debut flag of the record and its Romance
  said,    \* session.talk_key, talking_about, talk_credited; out is the client
           \*   waiting to be let out of an event of a map object
  scene,   \* session.script with its shadow
  title    \* session.title_event, and the tutorial the client was told to play

romanceVars == <<love, said, scene, title>>

NewRow == [debut |-> FALSE, intimacy |-> 0, progress |-> 0, day |-> "older", best |-> 0,
           letter |-> FALSE, ending |-> FALSE, album |-> 0, photos |-> FALSE,
           asked |-> "none", quiet |-> FALSE, marks |-> FALSE]
NoTalk == [of |-> NoOne, what |-> "none"]
NothingSaid == [key |-> NoTalk, about |-> NoTalk, credited |-> FALSE, out |-> FALSE]
NoScene == [of |-> NoOne, what |-> "none", sure |-> FALSE, began |-> "older",
            intimacy |-> 0, best |-> 0]

(* CharacterStore.add: the tutorial is ahead and nobody was met; a record  *)
(* of before may have neither.                                             *)
RomanceInit ==
  /\ love = [p \in Players |-> [pending |-> p \in NewPlayers, row |-> [c \in Candidates |-> NewRow],
                                armed |-> NoOne, captured |-> NoOne]]
  /\ said = [p \in Players |-> NothingSaid]
  /\ scene = [p \in Players |-> NoScene]
  /\ title = [p \in Players |-> "none"]

(* The map is up and the client is in nothing.                             *)
AtEase(p) == scene[p] = NoScene /\ title[p] = "none" /\ ~said[p].out
-----------------------------------------------------------------------------
(* on_stage: while one of them has confessed, nobody is.                   *)
OnStage(l) == IF l.captured # NoOne THEN {} ELSE {c \in Candidates : l.row[c].debut}

(* _saw_up_to: the album only grows.                                       *)
SawUpTo(r) == [r EXCEPT !.album = IF r.progress > @ THEN r.progress ELSE @]

(* see_main_event, for a machine without the scripts: one rung.            *)
SeeMainEvent(r) == IF r.progress >= Events THEN r ELSE SawUpTo([r EXCEPT !.progress = @ + 1])

(* see_ending: kept for ever, and she is the one who confessed.            *)
SeeEnding(l, c) == [l EXCEPT !.row[c].ending = TRUE, !.captured = c]

(* reenroll: her row, her scenes' cells and her letter event are a new     *)
(* game's; what the title page shows of her stays, and whoever is only met *)
(* in the tutorial stays met.                                              *)
Reenrolled(l) ==
  LET her == l.captured IN
  [l EXCEPT !.row[her] = [NewRow EXCEPT !.debut = her \in Tutored, !.ending = l.row[her].ending,
                                        !.album = l.row[her].album, !.photos = l.row[her].photos],
            !.armed = IF @ = her THEN NoOne ELSE @, !.captured = NoOne]

(* 0x031B: asked for on the character page.                                *)
Reenrol(p) ==
  /\ p \in exists \ online /\ title[p] = "none" /\ love[p].captured # NoOne
  /\ love' = [love EXCEPT ![p] = Reenrolled(@)]
  /\ UNCHANGED <<said, scene, title>>
-----------------------------------------------------------------------------
(* The days a save holds are told apart by how long they are past.         *)
Past(day) == IF day = "today" THEN "yesterday" ELSE "older"

Midnight ==
  /\ \A p \in Players : scene[p].what # "none" => scene[p].began = "today"
  /\ love' = [p \in Players |-> [love[p] EXCEPT !.row =
                [c \in Candidates |-> [love[p].row[c] EXCEPT !.day = Past(@)]]]]
  /\ scene' = [p \in Players |-> [scene[p] EXCEPT !.began = Past(@)]]
  /\ UNCHANGED <<said, title>>

(* What of a grant the best one of that day leaves.                        *)
Over(gain, day, best, now) ==
  LET already == IF day = now THEN best ELSE 0 IN IF gain > already THEN gain - already ELSE 0

(* Romance.talk, the server's own rule.                                    *)
Talk(r, gain) ==
  LET credit == Over(gain, r.day, r.best, "today") IN
  IF credit = 0 THEN r
  ELSE [r EXCEPT !.day = "today", !.best = gain, !.intimacy = @ + credit]

(* absorb_talk_day: what the same rule in the script came to, over the     *)
(* cells it was given when the scene began.  Where nothing is left of the  *)
(* grant it writes nothing.                                                *)
AbsorbTalkDay(r, s, gain) ==
  LET credit == Over(gain, r.day, s.best, s.began) IN
  IF credit = 0 THEN r
  ELSE [r EXCEPT !.day = s.began, !.best = gain, !.intimacy = s.intimacy + credit]

(* absorb_main_event: the total the script wrote.                          *)
AbsorbMainEvent(r, s, gain) == [r EXCEPT !.intimacy = s.intimacy + gain]

(* absorb_photos, and absorb_scene_day with the tallies, flags and words   *)
(* of her scenes; which cells are whose is fixed by the scripts.           *)
AbsorbPhotos(r) == [r EXCEPT !.photos = TRUE]
AbsorbMarks(r) == [r EXCEPT !.marks = TRUE]
-----------------------------------------------------------------------------
(* CharacterStore.debut_pending, set_debut_pending: the first day is told  *)
(* once.                                                                   *)
DebutPending(p) == love[p].pending
DebutTold(l) == [l EXCEPT !.pending = FALSE]

(* 登校: told to play the tutorial once, whether or not it then does.      *)
RomanceLogin(p) ==
  /\ title[p] = "none"
  /\ love' = [love EXCEPT ![p] = DebutTold(@)]
  /\ title' = [title EXCEPT ![p] = IF DebutPending(p) THEN "owed" ELSE "none"]
  /\ said' = [said EXCEPT ![p] = NothingSaid]
  /\ UNCHANGED scene

(* cibispawns.on_map: drawing a map places her again.                      *)
LobbyDataStart(p) ==
  /\ p \in online /\ AtEase(p)
  /\ love' = [love EXCEPT ![p].row =
       [c \in Candidates |-> IF c \in OnStage(love[p]) THEN [love[p].row[c] EXCEPT !.quiet = FALSE]
                             ELSE love[p].row[c]]]
  /\ UNCHANGED <<said, scene, title>>

(* What her chooser, one of the original server's scripts, may answer.     *)
Answers(r) ==
  {"none", "talk"} \cup
  IF r.day # "today" /\ ~r.quiet /\ r.progress < Events /\ r.intimacy >= Needed[r.progress]
  THEN {"main"} ELSE {}

(* _run_talk and absorb_talk: the chooser's own memory is saved now, before*)
(* anything is played.  0x6304 on a candidate.                             *)
AskTalk(p, c, answer) ==
  /\ p \in online /\ AtEase(p)
  /\ c \in OnStage(love[p]) /\ answer \in Answers(love[p].row[c])
  /\ love' = [love EXCEPT ![p].row[c].asked = answer]
  /\ said' = [said EXCEPT ![p].key = IF answer = "none" THEN NoTalk ELSE [of |-> c, what |-> answer]]
  /\ UNCHANGED <<scene, title>>

(* Variant: a confession does not close the locker.                        *)
LockerSeesAll(l) ==
  [debut |-> {c \in Candidates : l.row[c].debut}, letter |-> {c \in Candidates : l.row[c].letter}]

(* locker_cells: while a confession waits for the next enrolment the two   *)
(* scripts behind the locker see nobody and no letter.                     *)
LockerSees(l) ==
  IF l.captured # NoOne THEN [debut |-> {}, letter |-> {}]
  ELSE [debut |-> {c \in Candidates : l.row[c].debut}, letter |-> {c \in Candidates : l.row[c].letter}]

(* 0x6301 of the locker: its script may put a letter in.                   *)
OpenLocker(p, c) ==
  /\ p \in online /\ AtEase(p)
  /\ c \in LockerSees(love[p]).debut /\ love[p].row[c].progress = Events
  /\ love' = [love EXCEPT ![p].row[c].letter = TRUE]
  /\ UNCHANGED <<said, scene, title>>

(* 0x6304 of the locker: which letter is read.                             *)
AskLetter(p, c) ==
  /\ p \in online /\ AtEase(p) /\ c \in LockerSees(love[p]).letter
  /\ said' = [said EXCEPT ![p].key = [of |-> c, what |-> "letter"]]
  /\ UNCHANGED <<love, scene, title>>

(* 0x6304 of a teacher or somebody of the staff.                           *)
AskStaff(p) ==
  /\ p \in online /\ AtEase(p)
  /\ said' = [said EXCEPT ![p].key = [of |-> NoOne, what |-> "staff"]]
  /\ UNCHANGED <<love, scene, title>>
-----------------------------------------------------------------------------
(* _script_start and _shadow_start: the shadow is handed what the save     *)
(* holds now; without an export there is none.                             *)
Begun(p, c, what, sure) ==
  [of |-> c, what |-> what, sure |-> sure, began |-> "today",
   intimacy |-> IF c = NoOne THEN 0 ELSE love[p].row[c].intimacy,
   best |-> IF c = NoOne \/ love[p].row[c].day # "today" THEN 0 ELSE love[p].row[c].best]

(* 0x5600: the event just answered is played.  A map object's event leaves *)
(* the client waiting for 0x5603 afterwards.                               *)
NpcEventStart(p, sure) ==
  /\ p \in online /\ AtEase(p) /\ said[p].key # NoTalk
  /\ LET key == said[p].key IN
     /\ said' = [said EXCEPT ![p].about = IF key.what = "staff" THEN NoTalk ELSE key,
                             ![p].key = NoTalk, ![p].out = key.what \in {"letter", "staff"}]
     /\ scene' = [scene EXCEPT ![p] = Begun(p, key.of, key.what, sure)]
  /\ UNCHANGED <<love, title>>

(* 0x6C00: the tutorial of a first day.                                    *)
TitleEventStart(p, c, sure) ==
  /\ p \in online /\ title[p] = "owed" /\ c \in Tutored
  /\ title' = [title EXCEPT ![p] = "tutorial"]
  /\ scene' = [scene EXCEPT ![p] = Begun(p, c, "tutorial", sure)]
  /\ UNCHANGED <<love, said>>

(* 0x6C00 on the title page: an ending that was earned is replayed.        *)
ReplayStart(p, c) ==
  /\ p \in exists \ online /\ title[p] = "none" /\ love[p].row[c].ending
  /\ title' = [title EXCEPT ![p] = "replay"]
  /\ scene' = [scene EXCEPT ![p] = Begun(p, c, "replay", TRUE)]
  /\ UNCHANGED <<love, said>>

TitleEventEnd(p) ==
  /\ title[p] \in {"tutorial", "replay"} /\ scene[p] = NoScene
  /\ title' = [title EXCEPT ![p] = "none"]
  /\ UNCHANGED <<love, said, scene>>

(* A drama event introduces the other candidates; its party is left out.   *)
MeetingStart(p, c, sure) ==
  /\ p \in online /\ AtEase(p) /\ c \in Candidates \ Tutored
  /\ scene' = [scene EXCEPT ![p] = Begun(p, c, "meeting", sure)]
  /\ UNCHANGED <<love, said, title>>

(* Follower.at: an instruction the shadow cannot be at loses it for good.  *)
ShadowLost(p) ==
  /\ scene[p].sure /\ scene' = [scene EXCEPT ![p].sure = FALSE]
  /\ UNCHANGED <<love, said, title>>
-----------------------------------------------------------------------------
(* absorb, for 登場 and for whose letter was opened or put back.           *)
Absorb(l, s, opened) ==
  CASE s.what \in {"tutorial", "meeting"} -> [l EXCEPT !.row[s.of].debut = TRUE]
    [] s.what = "letter" -> [l EXCEPT !.armed = IF opened THEN s.of ELSE NoOne]
    [] OTHER -> l

(* _script_record, _script_scene_day and the three after it.               *)
TakeRecord(l, s) == [l EXCEPT !.row[s.of] = AbsorbPhotos(@)]
TakeMarks(l, s) == [l EXCEPT !.row[s.of] = AbsorbMarks(@)]

(* _script_main_event_credit: the answers of a main event, added up by it. *)
MainEventCredit(l, s, gain) == [l EXCEPT !.row[s.of] = AbsorbMainEvent(@, s, gain)]

(* What the shadow of a finished scene wrote, one save after another.      *)
AbsorbAll(l, s, opened, gain) ==
  CASE ~s.sure -> l
    [] s.sure /\ s.what = "talk" -> [l EXCEPT !.row[s.of] = AbsorbTalkDay(@, s, gain)]
    [] s.sure /\ s.what = "main" ->
         MainEventCredit(TakeMarks(TakeRecord(l, s), s), s, gain)
    [] OTHER -> Absorb(l, s, opened)

(* Variant: the server counts as well.                                     *)
CreditedNot(s) == FALSE

(* _script_talk_credit: the script keeps the daily rule itself, whether it *)
(* wrote anything or not.                                                  *)
Credited(s) == s.sure /\ s.what = "talk"

(* Her bookkeeping script after a main event, through absorb_talk: a rung  *)
(* if it was what her chooser answered.                                    *)
Booked(r) ==
  IF r.asked = "main" /\ r.progress < Events
  THEN SawUpTo([r EXCEPT !.progress = @ + 1, !.quiet = TRUE])
  ELSE r

(* _romance_credit: what the server decides once the scene is over.        *)
RomanceCredit(l, about, credited, gain, scripts) ==
  IF about = NoTalk THEN l
  ELSE IF about.what \in {"main", "letter"}
       THEN [l EXCEPT !.row[about.of] = IF scripts THEN Booked(@) ELSE SeeMainEvent(@)]
  ELSE IF credited THEN l
  ELSE [l EXCEPT !.row[about.of] = Talk(@, gain)]

Bounded(l) == \A c \in Candidates : l.row[c].intimacy <= MaxIntimacy

(* 0x721B with OP_END: the client is at the end of its scene.              *)
SceneEnds(p, opened, gain, scripts) ==
  LET s == scene[p]
      absorbed == AbsorbAll(love[p], s, opened, gain)
      left == RomanceCredit(absorbed, said[p].about, Credited(s), gain, scripts)
  IN /\ s # NoScene /\ Bounded(left)
     /\ love' = [love EXCEPT ![p] = left]
     /\ said' = [said EXCEPT ![p].about = NoTalk]
     /\ scene' = [scene EXCEPT ![p] = NoScene]
     /\ UNCHANGED title

(* The process dies with the shadow's writes saved and nothing credited.   *)
SceneTorn(p, opened, gain) ==
  LET absorbed == AbsorbAll(love[p], scene[p], opened, gain) IN
  /\ scene[p] # NoScene /\ Bounded(absorbed) /\ love' = [love EXCEPT ![p] = absorbed]

(* _script_interrupt: an event watched alone is left; nothing is booked.   *)
ScriptInterrupt(p) ==
  /\ scene[p] # NoScene /\ title[p] # "tutorial"
  /\ scene' = [scene EXCEPT ![p] = NoScene]
  /\ said' = [said EXCEPT ![p] = NothingSaid]
  /\ UNCHANGED <<love, title>>

(* 0x5603: the client asks to be let out, and an opened letter's ending is *)
(* played; the event in flight is over with it.                            *)
NpcEventEnd(p) ==
  /\ p \in online /\ said[p].out /\ scene[p] = NoScene
  /\ love' = [love EXCEPT ![p] = IF @.armed = NoOne THEN @
                                 ELSE [SeeEnding(@, @.armed) EXCEPT !.armed = NoOne]]
  /\ said' = [said EXCEPT ![p].out = FALSE]
  /\ UNCHANGED <<scene, title>>

RomanceGone(who) ==
  /\ said' = [p \in Players |-> IF p \in who THEN NothingSaid ELSE said[p]]
  /\ scene' = [p \in Players |-> IF p \in who THEN NoScene ELSE scene[p]]
  /\ title' = [p \in Players |-> IF p \in who THEN "none" ELSE title[p]]
-----------------------------------------------------------------------------
(* What one confession closes.  Until its player enrols again nobody else's*)
(* letter is opened or kept open and no candidate's event is played, the   *)
(* confession is on the title page, and whoever is met nowhere but in the  *)
(* tutorial has not been lost to it.  on_stage, locker_cells, reenroll,    *)
(* 0x5603.                                                                 *)
OneConfession ==
  \A p \in Players :
    LET l == love[p]
        facing == {said[p].key.what, said[p].about.what, scene[p].what} IN
    /\ l.captured # NoOne => /\ l.row[l.captured].ending /\ l.armed = NoOne
                             /\ facing \cap {"talk", "main", "letter"} = {}
    /\ \A c \in Candidates :
         /\ l.row[c].album >= l.row[c].progress
         /\ l.row[c].ending /\ c \in Tutored => l.row[c].debut
         /\ ~l.row[c].debut => l.row[c].intimacy = 0 /\ l.row[c].progress = 0
         /\ l.armed = c => l.row[c].debut

(* What was lived through stays, but for the one re-enrolment the player   *)
(* asks for, which forgets her who confessed and nobody else; and what the *)
(* title page has to show outlives that as well.                           *)
Remembers(p) ==
  love'[p] # love[p] => \A c \in Candidates :
    LET old == love[p].row[c]
        new == love'[p].row[c]
        forgets == love[p].captured = c /\ love'[p].captured = NoOne
    IN /\ new.album >= old.album /\ (old.ending => new.ending) /\ (old.photos => new.photos)
       /\ forgets \/ /\ old.debut => new.debut
                     /\ new.intimacy >= old.intimacy /\ new.progress >= old.progress
                     /\ old.marks => new.marks

(* Everything is paid at the end of a scene and once: a rung for a main    *)
(* event of hers, and for the talks of one day no more than the best of    *)
(* them, whoever counts, the script or the server, and whatever midnight   *)
(* did in between.  _script_talk_credit, _romance_credit.                  *)
PaidOnce(p) ==
  love'[p] # love[p] => \A c \in Candidates :
    LET old == love[p].row[c]
        new == love'[p].row[c]
        ended == scene[p].of = c /\ scene'[p] = NoScene
    IN /\ new.progress > old.progress
            => new.progress = old.progress + 1 /\ ended /\ said[p].about.what = "main"
       /\ new.intimacy > old.intimacy
            => /\ ended /\ scene[p].what \in {"talk", "main"}
               /\ scene[p].what = "talk"
                    => new.intimacy - old.intimacy
                         <= new.best - (IF new.day = old.day THEN old.best ELSE 0)
=============================================================================
