------------------------- MODULE CharacterCommands --------------------------
(***************************************************************************)
(* Choosing a character: SelectCharacterPacket and the commands of         *)
(* commands/messaging.cpp that change a client's character or restrict the *)
(* characters it may take.  A character's name is its index in the         *)
(* server's list, and the empty name is Area!NoCharacter.                  *)
(***************************************************************************)
EXTENDS Server

\* Mutant: the curse is not looked at.
RefusedUncursed(me, id) == id >= CharCount

\* AOClient::changeCharacter(id) for a client whose record is me.
Refused(me, id) == id >= CharCount \/ (me.cursed /\ id \notin me.curseList)

\* getCharacterById: the empty name for an id out of range.
NameOf(id) == IF id \in Characters THEN id ELSE Area!NoCharacter

\* Mutant: going back to the character selection keeps the character.
AfterChangeKeeping(me, id) ==
  IF Refused(me, id) THEN me
  ELSE [me EXCEPT
          !.charId = id,
          !.character = IF Area!CharacterAdded(areas[me.area], id)
                        THEN NameOf(id) ELSE @]

\* charId changes even when the character is somebody else's already.
AfterChange(me, id) ==
  IF Refused(me, id) THEN me
  ELSE [me EXCEPT
          !.charId = id,
          !.character = IF Area!CharacterAdded(areas[me.area], id)
                        THEN NameOf(id)
                        ELSE IF id < 0 THEN Area!NoCharacter ELSE @]

AreaAfterChange(me, id) ==
  IF Refused(me, id) THEN areas[me.area]
  ELSE Area!ChangeCharacter(areas[me.area], me.character, id)

\* A handler that calls changeCharacter(id) of client d, whose record it has
\* made me.
ChangesCharacter(d, me, id) ==
  Commit(FALSE,
         [areas EXCEPT ![me.area] = AreaAfterChange(me, id)],
         [client EXCEPT ![d] = AfterChange(me, id)],
         news)

-----------------------------------------------------------------------------

\* SelectCharacterPacket: an id out of range closes the socket, and is then
\* passed on all the same.
SelectCharacter(c, id) ==
  /\ Active(c)
  /\ ChangesCharacter(c, client[c], id)

\* /switch <name>
Switch(c, id) ==
  /\ Active(c)
  /\ id \in Characters
  /\ ChangesCharacter(c, client[c], id)

\* /randomchar draws until it draws a free character.  (Without characters
\* the draw is 0, which changeCharacter refuses.)
RandomChar(c) ==
  /\ Active(c)
  /\ \E id \in Characters \ areas[Here(c)].taken :
       ChangesCharacter(c, client[c], id)

RandomCharHangs(c) ==
  /\ Active(c)
  /\ Characters # {}
  /\ Characters \subseteq areas[Here(c)].taken
  /\ process' = "hung"
  /\ UNCHANGED <<idStack, clientMap, client, areas, news>>

\* /charselect
CharSelect(c) ==
  /\ Active(c)
  /\ ChangesCharacter(c, client[c], Area!NoCharacter)

\* /force_charselect <id>
ForceCharSelect(c, t) ==
  /\ Active(c)
  /\ IsModerator(c)
  /\ Found(t)
  /\ ChangesCharacter(clientMap[t], client[clientMap[t]], Area!NoCharacter)

-----------------------------------------------------------------------------
(* Charcurse *)

CursedTo(d, list) ==
  [client[d] EXCEPT !.cursed = TRUE, !.curseList = list]

\* The end of cmdCharCurse: a target whose character is not on the list is
\* sent to the character selection.
Curses(d, list) ==
  LET me == CursedTo(d, list) IN
    IF me.character \in list
    THEN Commit(FALSE, areas, [client EXCEPT ![d] = me], news)
    ELSE ChangesCharacter(d, me, Area!NoCharacter)

MayCurse(c, t) ==
  /\ Active(c)
  /\ IsModerator(c)
  /\ Found(t)
  /\ ~client[clientMap[t]].cursed

\* /charcurse <id>: the character in use joins the list.
CharCurse(c, t) ==
  LET d == clientMap[t] IN
  /\ MayCurse(c, t)
  /\ Curses(d, client[d].curseList \cup {client[d].character})

\* /charcurse <id> <names>
CharCurseTo(c, t, list) ==
  /\ MayCurse(c, t)
  /\ list \in (SUBSET Characters) \ {{}}
  /\ Curses(clientMap[t], list)

\* Mutant: the target is cursed before the names are looked up.
CharCurseFailsLate(c, t, list) ==
  /\ MayCurse(c, t)
  /\ list \in SUBSET Characters
  /\ Commit(FALSE, areas,
            [client EXCEPT ![clientMap[t]] = CursedTo(clientMap[t], list)], news)

\* The same with an unknown name after those in list: it returns with the
\* list filled that far and the target not cursed.
CharCurseFails(c, t, list) ==
  /\ MayCurse(c, t)
  /\ list \in SUBSET Characters
  /\ Commit(FALSE, areas,
            [client EXCEPT ![clientMap[t]].curseList = list], news)

\* /uncharcurse <id>
UnCharCurse(c, t) ==
  /\ Active(c)
  /\ IsModerator(c)
  /\ Found(t)
  /\ client[clientMap[t]].cursed
  /\ Commit(FALSE, areas,
            [client EXCEPT ![clientMap[t]].cursed = FALSE,
                           ![clientMap[t]].curseList = {}], news)

=============================================================================
