------------------------------ MODULE Testimony ------------------------------
(***************************************************************************)
(* The testimony of one area: the recorder of AreaData, the commands that  *)
(* switch it, /savetestimony and /loadtestimony, and the IC messages that  *)
(* record, replace, insert and replay statements.                          *)
(*                                                                         *)
(* The IC handler of this commit is empty and the one it comes from is     *)
(* kept, not compiled, in backup/packet_ms.cpp; Say is translated from     *)
(* there, for nothing else calls addStatement and updateStatement.         *)
(***************************************************************************)
EXTENDS Integers, Sequences, SequencesExt

CONSTANTS
  MaxStatements,  \* maximum_statements in config.ini
  MaxEntries,     \* bound on the testimony, which /add alone never bounds
  Clients,        \* who talks in the area
  Keepers         \* clients whose role holds SAVETEST

ASSUME TestimonyAssumption ==
  /\ MaxStatements \in Nat /\ MaxEntries \in Nat
  /\ MaxEntries >= MaxStatements + 2
  /\ Keepers \subseteq Clients

VARIABLES
  process,    \* "running", or "crashed" by an access out of range
  testimony,  \* m_testimony, every entry a title or a statement
  statement,  \* m_statement, an index that counts from 0
  recording,  \* m_testimonyRecording
  saving,     \* the clients with m_testimony_saving
  file,       \* the file of one name under storage/testimony
  started     \* history: /testify began what is in testimony

vars == <<process, testimony, statement, recording, saving, file, started>>

Recordings == {"STOPPED", "RECORDING", "UPDATE", "ADD", "PLAYBACK"}
Title == "title"           \* a message put between dashes
Statement == "statement"
NoFile == [lines |-> << >>, started |-> FALSE]

\* m_testimonyRecording has no initial value.
Init ==
  /\ process = "running"
  /\ testimony = << >> /\ statement = 0
  /\ recording \in Recordings
  /\ saving = {} /\ file = NoFile
  /\ started = FALSE

Running == process = "running"

\* Index i of m_testimony is position i + 1 of the sequence.
LastIndex == Len(testimony) - 1
InRange(i) == i \in 0..LastIndex

Stays == UNCHANGED <<process, testimony, statement, recording>>
Aside == UNCHANGED <<saving, file, started>>
Crashes == process' = "crashed" /\ UNCHANGED <<testimony, statement, recording>>

-----------------------------------------------------------------------------
(* Commands that switch the recorder *)

\* Mutant: the index of the testimony before is kept.
ClearedKeeping(to) ==
  /\ testimony' = << >> /\ UNCHANGED statement
  /\ recording' = to

\* clearTestimony and what follows it.
Cleared(to) ==
  /\ testimony' = << >> /\ statement' = -1
  /\ recording' = to

Testify ==
  /\ Running /\ recording # "RECORDING"
  /\ Cleared("RECORDING") /\ started' = TRUE
  /\ UNCHANGED <<process, saving, file>>

Examine ==
  /\ Running /\ LastIndex > 0
  /\ recording' = "PLAYBACK" /\ statement' = 0
  /\ Aside /\ UNCHANGED <<process, testimony>>

Pause ==
  /\ Running
  /\ recording' = "STOPPED"
  /\ Aside /\ UNCHANGED <<process, testimony, statement>>

UpdateStatementCommand ==
  /\ Running
  /\ recording' = "UPDATE"
  /\ Aside /\ UNCHANGED <<process, testimony, statement>>

\* /add is refused by the position, not by the number of statements.
AddStatementCommand ==
  /\ Running /\ statement < MaxStatements
  /\ recording' = "ADD"
  /\ Aside /\ UNCHANGED <<process, testimony, statement>>

\* Mutants: the title may be deleted too; the index stays.
DeletableAny == statement >= 0
AfterDeletionStaying == statement

Deletable == statement > 0 /\ Len(testimony) > 2
AfterDeletion == statement - 1

DeleteStatement ==
  /\ Running /\ Deletable
  /\ IF InRange(statement)
     THEN /\ testimony' = RemoveAt(testimony, statement + 1)
          /\ statement' = AfterDeletion
          /\ UNCHANGED <<process, recording>>
     ELSE Crashes
  /\ Aside

-----------------------------------------------------------------------------
(* Files *)

\* /permitsaving gives leave for one file.
PermitSaving(c) ==
  /\ Running
  /\ saving' = saving \cup {c}
  /\ Stays /\ UNCHANGED <<file, started>>

SaveTestimony(c) ==
  /\ Running
  /\ c \in Keepers \cup saving
  /\ LastIndex > 0
  /\ file = NoFile
  /\ file' = [lines |-> testimony, started |-> started]
  /\ saving' = saving \ {c}
  /\ Stays /\ UNCHANGED started

\* A file with more lines than MaxStatements + 1 is given up half way.
LoadTestimony ==
  /\ Running /\ file # NoFile
  /\ testimony' = IF Len(file.lines) <= MaxStatements + 1 THEN file.lines ELSE << >>
  /\ statement' = -1 /\ recording' = "STOPPED"
  /\ started' = file.started
  /\ UNCHANGED <<process, saving, file>>

-----------------------------------------------------------------------------
(* IC messages *)

\* recordStatement, as long as there is room.
Record ==
  /\ recording = "RECORDING"
  /\ IF statement <= MaxStatements
     THEN /\ Len(testimony) < MaxEntries
          /\ testimony' = Append(testimony,
                                 IF statement = -1 THEN Title ELSE Statement)
          /\ statement' = statement + 1
     ELSE UNCHANGED <<testimony, statement>>
  /\ UNCHANGED <<process, recording>>

\* AOClient::addStatement in ADD: the message goes in after the statement shown.
Insert ==
  /\ recording = "ADD" /\ Len(testimony) < MaxEntries
  /\ IF statement + 1 \in 0..Len(testimony)
     THEN /\ testimony' = InsertAt(testimony, statement + 2,
                                   IF statement = -1 THEN Title ELSE Statement)
          /\ recording' = "PLAYBACK"
          /\ UNCHANGED <<process, statement>>
     ELSE Crashes

\* updateStatement: the title cannot be replaced.
Replace ==
  /\ recording = "UPDATE"
  /\ IF statement <= 0 \/ InRange(statement)
     THEN /\ recording' = "PLAYBACK"
          /\ testimony' = IF statement <= 0 THEN testimony
                          ELSE [testimony EXCEPT ![statement + 1] = Statement]
          /\ UNCHANGED <<process, statement>>
     ELSE Crashes

\* jumpToStatement: beyond the end and before the first statement lead to
\* the first, which is read whether there is one or not.
JumpTo(i) ==
  /\ recording = "PLAYBACK"
  /\ statement' = IF i > LastIndex \/ i <= 1 THEN 1 ELSE i
  /\ process' = IF LastIndex < 1 THEN "crashed" ELSE process
  /\ UNCHANGED <<testimony, recording>>

\* A message that the IC handler has accepted: one of witness stand, one from
\* elsewhere, and the ones that steer the playback.  Messages with < or >
\* are not recorded and change nothing.
Say ==
  /\ Running
  /\ \/ Record \/ Insert \/ Replace
     \/ JumpTo(statement + 1) \/ JumpTo(statement - 1)
     \/ \E n \in 0..MaxEntries : JumpTo(n)
  /\ Aside

-----------------------------------------------------------------------------

Next ==
  \/ Testify \/ Examine \/ Pause \/ UpdateStatementCommand
  \/ AddStatementCommand \/ DeleteStatement
  \/ \E c \in Clients : PermitSaving(c) \/ SaveTestimony(c)
  \/ LoadTestimony \/ Say
  \/ process = "crashed" /\ UNCHANGED vars

Spec == Init /\ [][Next]_vars

-----------------------------------------------------------------------------
(* What the recorder keeps to *)

TypeOK ==
  /\ process \in {"running", "crashed"}
  /\ testimony \in Seq({Title, Statement})
  /\ statement \in Int
  /\ recording \in Recordings
  /\ saving \subseteq Clients
  /\ started \in BOOLEAN

\* Once a testimony was begun, the statement shown is one of it, or -1 before
\* the first: recordings, insertions, deletions and jumps keep the index in
\* range, so that deleting, replacing and inserting at it never miss.  (A jump
\* into a testimony without statements misses, and ends the process.)
PositionInRange ==
  Running /\ started => statement \in (-1)..LastIndex

\* While a testimony is recorded the index is that of the last entry, whatever
\* was deleted in between: what is said next goes to the end, and the check
\* of the index against maximum_statements is one of the number of entries.
\* (It lets one statement too many pass: see MCLimits.)
RecordingInStep ==
  Running /\ started /\ recording = "RECORDING" => statement = LastIndex

\* A testimony begins with its title: it cannot be deleted or replaced, and
\* only another title gets before it.
TitleFirst ==
  started /\ testimony # << >> => testimony[1] = Title

=============================================================================
