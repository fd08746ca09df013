-------------------------- MODULE TestimonyProofs ---------------------------
(***************************************************************************)
(* Testimony for every limit: the statement shown is one of the testimony, *)
(* a recording stays within its limit, and the title comes first.          *)
(***************************************************************************)
EXTENDS Testimony, SequenceTheorems, TLAPS

Entries == {Title, Statement}

\* What the variables hold, as far as the proofs need it.
Types ==
  /\ testimony \in Seq(Entries)
  /\ statement \in Int
  /\ file.lines \in Seq(Entries)

Titled(entries) == entries # << >> => entries[1] = Title

\* A file that was saved from a testimony begins with its title as well.
FileTitled == file.started => Titled(file.lines)

Inv == Types /\ PositionInRange /\ RecordingInStep /\ TitleFirst /\ FileTitled

-----------------------------------------------------------------------------
(* Sequences *)

\* What follows a sequence that is not empty leaves its beginning alone.
LEMMA BeginningKept ==
  ASSUME NEW p \in Seq(Entries), NEW q \in Seq(Entries), Len(p) >= 1
  PROVE  /\ p \o q \in Seq(Entries)
         /\ Len(p \o q) = Len(p) + Len(q)
         /\ (p \o q)[1] = p[1]
<1>1. Len(p) \in Nat /\ Len(q) \in Nat
  BY LenProperties
<1>2. /\ p \o q \in Seq(Entries)
      /\ Len(p \o q) = Len(p) + Len(q)
      /\ \A i \in 1..Len(p) + Len(q) :
           (p \o q)[i] = IF i <= Len(p) THEN p[i] ELSE q[i - Len(p)]
  BY ConcatProperties
<1>3. 1 \in 1..Len(p) + Len(q) /\ 1 <= Len(p)
  BY <1>1
<1> QED BY <1>2, <1>3

\* Taking one entry out that is not the first.
LEMMA EntryRemoved ==
  ASSUME NEW q \in Seq(Entries), NEW k \in 2..Len(q)
  PROVE  /\ RemoveAt(q, k) \in Seq(Entries)
         /\ Len(RemoveAt(q, k)) = Len(q) - 1
         /\ RemoveAt(q, k)[1] = q[1]
<1>1. Len(q) \in Nat /\ k \in Nat /\ 2 <= k /\ k <= Len(q)
  BY LenProperties
<1> DEFINE front == SubSeq(q, 1, k - 1)
           back == SubSeq(q, k + 1, Len(q))
<1>2. /\ front \in Seq(Entries) /\ Len(front) = k - 1
      /\ front[1] = q[1]
  BY <1>1, SubSeqProperties
<1>3. back \in Seq(Entries) /\ Len(back) = Len(q) - k
  BY <1>1, SubSeqProperties
<1>4. RemoveAt(q, k) = front \o back
  BY DEF RemoveAt
<1> HIDE DEF front, back
<1>5. /\ front \o back \in Seq(Entries)
      /\ Len(front \o back) = Len(q) - 1
      /\ (front \o back)[1] = front[1]
  <2>1. Len(front) >= 1
    BY <1>1, <1>2
  <2>2. /\ front \o back \in Seq(Entries)
        /\ Len(front \o back) = Len(front) + Len(back)
        /\ (front \o back)[1] = front[1]
    BY <1>2, <1>3, <2>1, BeginningKept
  <2>3. (k - 1) + (Len(q) - k) = Len(q) - 1
    BY <1>1
  <2> QED BY <1>2, <1>3, <2>2, <2>3
<1> QED BY <1>2, <1>4, <1>5

\* Putting one entry in, before the first, between two or at the end.
LEMMA EntryInserted ==
  ASSUME NEW q \in Seq(Entries), NEW k \in 1..(Len(q) + 1), NEW e \in Entries
  PROVE  /\ InsertAt(q, k, e) \in Seq(Entries)
         /\ Len(InsertAt(q, k, e)) = Len(q) + 1
         /\ InsertAt(q, k, e)[1] = IF k = 1 THEN e ELSE q[1]
<1>1. Len(q) \in Nat /\ k \in Nat /\ 1 <= k /\ k <= Len(q) + 1
  BY LenProperties
<1> DEFINE front == SubSeq(q, 1, k - 1)
           back == SubSeq(q, k, Len(q))
<1>2. /\ front \in Seq(Entries) /\ Len(front) = k - 1
      /\ k # 1 => front[1] = q[1]
  BY <1>1, SubSeqProperties
<1>3. back \in Seq(Entries) /\ Len(back) = Len(q) - k + 1
  BY <1>1, SubSeqProperties
<1>4. InsertAt(q, k, e) = (front \o <<e>>) \o back
  BY DEF InsertAt
<1> HIDE DEF front, back
<1>5. <<e>> \in Seq(Entries) /\ Len(<<e>>) = 1 /\ <<e>>[1] = e
  OBVIOUS
<1> DEFINE head == front \o <<e>>
<1>6. /\ head \in Seq(Entries) /\ Len(head) = k
      /\ head[1] = IF k = 1 THEN e ELSE q[1]
  BY <1>1, <1>2, <1>5, ConcatProperties
<1> HIDE DEF head
<1>7. /\ head \o back \in Seq(Entries)
      /\ Len(head \o back) = Len(q) + 1
      /\ (head \o back)[1] = head[1]
  BY <1>1, <1>3, <1>6, BeginningKept
<1> QED BY <1>4, <1>6, <1>7 DEF head

-----------------------------------------------------------------------------
(* The inductive invariant *)

\* A server starts without a testimony and without files.
LEMMA InitInv == Init => Inv
BY DEF Init, Inv, Types, PositionInRange, RecordingInStep, TitleFirst, FileTitled,
       Titled, NoFile

\* The commands that only switch the recorder, and the files.
LEMMA CommandsKeepInv ==
  ASSUME Inv,
         \/ Testify \/ Examine \/ Pause \/ UpdateStatementCommand
         \/ AddStatementCommand \/ UNCHANGED vars
         \/ \E c \in Clients : PermitSaving(c) \/ SaveTestimony(c)
  PROVE  Inv'
<1>1. Len(testimony) \in Nat
  BY LenProperties DEF Inv, Types
<1> USE <1>1
        DEF Inv, Types, PositionInRange, RecordingInStep, TitleFirst, FileTitled,
            Titled, Running, LastIndex
<1>2. CASE Testify
  BY <1>2, TestimonyAssumption DEF Testify, Cleared, TestimonyAssumption
<1>3. CASE Examine
  BY <1>3 DEF Examine, Aside
<1>4. CASE Pause \/ UpdateStatementCommand \/ AddStatementCommand
  BY <1>4 DEF Pause, UpdateStatementCommand, AddStatementCommand, Aside
<1>5. ASSUME NEW c \in Clients, PermitSaving(c) \/ SaveTestimony(c) PROVE Inv'
  BY <1>5 DEF PermitSaving, SaveTestimony, Stays
<1>6. CASE UNCHANGED vars
  BY <1>6 DEF vars
<1> QED BY <1>2, <1>3, <1>4, <1>5, <1>6

\* A file is loaded whole or not at all.
LEMMA LoadKeepsInv == ASSUME Inv, LoadTestimony PROVE Inv'
<1>1. testimony' = file.lines \/ testimony' = << >>
  BY DEF LoadTestimony
<1>2. testimony' \in Seq(Entries) /\ Len(testimony') \in Nat
  <2>1. << >> \in Seq(Entries) /\ file.lines \in Seq(Entries)
    BY DEF Inv, Types
  <2>2. testimony' \in Seq(Entries)
    BY <1>1, <2>1
  <2> QED BY <2>2, LenProperties
<1>3. Types' /\ FileTitled'
  BY <1>2 DEF Inv, Types, FileTitled, LoadTestimony
<1>4. PositionInRange' /\ RecordingInStep'
  BY <1>2 DEF PositionInRange, RecordingInStep, LoadTestimony, LastIndex
<1>5. TitleFirst'
  BY <1>1 DEF Inv, FileTitled, Titled, TitleFirst, LoadTestimony
<1> QED BY <1>3, <1>4, <1>5 DEF Inv

\* A deletion takes the index with it.
LEMMA DeletionKeepsInv == ASSUME Inv, DeleteStatement PROVE Inv'
<1>1. Len(testimony) \in Nat
  BY LenProperties DEF Inv, Types
<1>2. CASE ~InRange(statement)
  BY <1>2 DEF DeleteStatement, Crashes, Aside, Inv, Types, PositionInRange,
              RecordingInStep, TitleFirst, FileTitled, Running
<1>3. CASE InRange(statement)
  <2>1. statement + 1 \in 2..Len(testimony)
    BY <1>1, <1>3 DEF DeleteStatement, Deletable, InRange, LastIndex, Inv, Types
  <2>2. /\ testimony' \in Seq(Entries)
        /\ Len(testimony') = Len(testimony) - 1
        /\ testimony'[1] = testimony[1]
    BY <1>3, <2>1, EntryRemoved DEF DeleteStatement, Inv, Types
  <2>3. /\ statement' = statement - 1
        /\ UNCHANGED <<process, recording, file, started>>
    BY <1>3 DEF DeleteStatement, AfterDeletion, Aside
  <2>4. testimony # << >>
    BY <2>1
  <2>5. Types' /\ FileTitled'
    BY <2>2, <2>3 DEF Inv, Types, FileTitled
  <2>6. PositionInRange' /\ RecordingInStep'
    BY <1>1, <2>1, <2>2, <2>3, TestimonyAssumption
    DEF Inv, Types, PositionInRange, RecordingInStep, Running, LastIndex,
        TestimonyAssumption
  <2>7. TitleFirst'
    BY <2>2, <2>3, <2>4 DEF Inv, TitleFirst
  <2> QED BY <2>5, <2>6, <2>7 DEF Inv
<1> QED BY <1>2, <1>3

\* A recording goes on behind the last entry.
LEMMA RecordKeepsInv == ASSUME Inv, Running, Record, Aside PROVE Inv'
<1>1. Len(testimony) \in Nat
  BY LenProperties DEF Inv, Types
<1>2. CASE ~(statement <= MaxStatements)
  BY <1>2 DEF Record, Aside, Inv, Types, PositionInRange, RecordingInStep,
              TitleFirst, FileTitled, Running, LastIndex
<1>3. CASE statement <= MaxStatements
  <2> DEFINE e == IF statement = -1 THEN Title ELSE Statement
  <2>1. e \in Entries
    BY DEF Entries
  <2>2. /\ testimony' = Append(testimony, e)
        /\ statement' = statement + 1
        /\ UNCHANGED <<process, recording, file, started>>
    BY <1>3 DEF Record, Aside
  <2>3. /\ testimony' \in Seq(Entries)
        /\ Len(testimony') = Len(testimony) + 1
        /\ testimony # << >> => testimony'[1] = testimony[1]
        /\ testimony = << >> => testimony'[1] = e
    BY <2>1, <2>2, <1>1, AppendProperties, EmptySeq DEF Inv, Types
  <2>4. Types' /\ FileTitled'
    BY <2>2, <2>3 DEF Inv, Types, FileTitled
  <2>5. started => statement = Len(testimony) - 1
    BY DEF Record, Inv, RecordingInStep, LastIndex
  <2>6. PositionInRange' /\ RecordingInStep'
    BY <1>1, <1>3, <2>2, <2>3, <2>5, TestimonyAssumption
    DEF PositionInRange, RecordingInStep, Running, LastIndex, TestimonyAssumption
  <2>7. testimony = << >> => Len(testimony) = 0
    OBVIOUS
  <2>8. TitleFirst'
    BY <2>2, <2>3, <2>5, <2>7 DEF Inv, TitleFirst
  <2> QED BY <2>4, <2>6, <2>8 DEF Inv
<1> QED BY <1>2, <1>3

\* An insertion goes behind the statement shown, or is the title.
LEMMA InsertKeepsInv == ASSUME Inv, Insert, Aside PROVE Inv'
<1>1. Len(testimony) \in Nat /\ statement \in Int
  BY LenProperties DEF Inv, Types
<1>2. CASE ~(statement + 1 \in 0..Len(testimony))
  BY <1>2 DEF Insert, Crashes, Aside, Inv, Types, PositionInRange,
              RecordingInStep, TitleFirst, FileTitled, Running
<1>3. CASE statement + 1 \in 0..Len(testimony)
  <2> DEFINE e == IF statement = -1 THEN Title ELSE Statement
  <2>1. e \in Entries /\ statement + 2 \in 1..(Len(testimony) + 1)
    BY <1>1, <1>3 DEF Entries
  <2>2. /\ testimony' = InsertAt(testimony, statement + 2, e)
        /\ recording' = "PLAYBACK"
        /\ UNCHANGED <<process, statement, file, started>>
    BY <1>3 DEF Insert, Aside
  <2>3. /\ testimony' \in Seq(Entries)
        /\ Len(testimony') = Len(testimony) + 1
        /\ testimony'[1] = IF statement + 2 = 1 THEN e ELSE testimony[1]
    BY <2>1, <2>2, EntryInserted DEF Inv, Types
  <2>4. Types' /\ FileTitled'
    BY <2>2, <2>3 DEF Inv, Types, FileTitled
  <2>5. PositionInRange' /\ RecordingInStep'
    BY <1>1, <2>2, <2>3
    DEF Inv, PositionInRange, RecordingInStep, Running, LastIndex
  <2>6. statement + 2 # 1 => testimony # << >>
    BY <1>1, <1>3
  <2>7. TitleFirst'
    BY <1>1, <2>2, <2>3, <2>6 DEF Inv, TitleFirst
  <2> QED BY <2>4, <2>5, <2>7 DEF Inv
<1> QED BY <1>2, <1>3

\* A replacement leaves the title alone.
LEMMA ReplaceKeepsInv == ASSUME Inv, Replace, Aside PROVE Inv'
<1>1. Len(testimony) \in Nat /\ statement \in Int
  BY LenProperties DEF Inv, Types
<1>2. CASE UNCHANGED testimony
  BY <1>2 DEF Replace, Crashes, Aside, Inv, Types, PositionInRange,
              RecordingInStep, TitleFirst, FileTitled, Running, LastIndex
<1>3. CASE testimony' # testimony
  <2>1. /\ testimony' = [testimony EXCEPT ![statement + 1] = Statement]
        /\ recording' = "PLAYBACK"
        /\ ~(statement <= 0) /\ InRange(statement)
        /\ UNCHANGED <<process, statement, file, started>>
    BY <1>3 DEF Replace, Crashes, Aside
  <2>2. /\ testimony' \in Seq(Entries)
        /\ Len(testimony') = Len(testimony)
        /\ testimony'[1] = testimony[1]
    BY <1>1, <2>1, ExceptSeq DEF Inv, Types, Entries, InRange, LastIndex
  <2>3. testimony # << >>
    BY <1>1, <2>1 DEF InRange, LastIndex
  <2> QED BY <1>1, <2>1, <2>2, <2>3
          DEF Inv, Types, PositionInRange, RecordingInStep, TitleFirst,
              FileTitled, Running, LastIndex
<1> QED BY <1>2, <1>3

\* A jump that does not end the process ends at a statement.
LEMMA JumpKeepsInv == ASSUME Inv, NEW i \in Int, JumpTo(i), Aside PROVE Inv'
<1>1. Len(testimony) \in Nat
  BY LenProperties DEF Inv, Types
<1> QED BY <1>1 DEF JumpTo, Aside, Inv, Types, PositionInRange, RecordingInStep,
                    TitleFirst, FileTitled, Running, LastIndex

\* The whole of the recorder.
LEMMA InvStep == Inv /\ [Next]_vars => Inv'
<1> SUFFICES ASSUME Inv, [Next]_vars PROVE Inv'
  OBVIOUS
<1>1. CASE Say
  <2>1. statement \in Int
    BY DEF Inv, Types
  <2>2. MaxEntries \in Nat
    BY TestimonyAssumption DEF TestimonyAssumption
  <2>3. Record \/ Insert \/ Replace \/ \E i \in Int : JumpTo(i)
    BY <1>1, <2>1, <2>2 DEF Say
  <2>4. Running /\ Aside
    BY <1>1 DEF Say
  <2> QED BY <2>3, <2>4, RecordKeepsInv, InsertKeepsInv, ReplaceKeepsInv, JumpKeepsInv
<1>2. CASE ~Say
  <2>1. \/ LoadTestimony \/ DeleteStatement
        \/ Testify \/ Examine \/ Pause \/ UpdateStatementCommand
        \/ AddStatementCommand \/ UNCHANGED vars
        \/ \E c \in Clients : PermitSaving(c) \/ SaveTestimony(c)
    BY <1>2 DEF Next
  <2> QED BY <2>1, LoadKeepsInv, DeletionKeepsInv, CommandsKeepInv
<1> QED BY <1>1, <1>2

\* Whatever is recorded, inserted, deleted, replaced, replayed and loaded, and
\* whatever the limit, the statement shown is one of the testimony.
THEOREM PositionStaysInRange == Spec => []PositionInRange
<1>1. Inv => PositionInRange
  BY DEF Inv
<1> QED BY <1>1, InitInv, InvStep, PTL DEF Spec

\* Whatever is deleted while it is recorded, a testimony goes on at its end.
THEOREM RecordingStaysInStep == Spec => []RecordingInStep
<1>1. Inv => RecordingInStep
  BY DEF Inv
<1> QED BY <1>1, InitInv, InvStep, PTL DEF Spec

\* The title of a testimony stays where it is, also through a file.
THEOREM TitleStaysFirst == Spec => []TitleFirst
<1>1. Inv => TitleFirst
  BY DEF Inv
<1> QED BY <1>1, InitInv, InvStep, PTL DEF Spec

-----------------------------------------------------------------------------
(* Types *)

\* What is beside the entries and the position: a file remembers whether what
\* it holds was begun.
Switches ==
  /\ process \in {"running", "crashed"}
  /\ recording \in Recordings
  /\ saving \subseteq Clients
  /\ started \in BOOLEAN /\ file.started \in BOOLEAN

LEMMA SwitchesStep == Switches /\ [Next]_vars => Switches'
<1> SUFFICES ASSUME Switches, [Next]_vars PROVE Switches'
  OBVIOUS
<1> USE DEF Switches, Recordings
<1>1. CASE Testify \/ Examine \/ Pause \/ UpdateStatementCommand \/ AddStatementCommand
  BY <1>1 DEF Testify, Cleared, Examine, Pause, UpdateStatementCommand,
              AddStatementCommand, Aside
<1>2. CASE DeleteStatement
  BY <1>2 DEF DeleteStatement, Crashes, Aside
<1>3. ASSUME NEW c \in Clients, PermitSaving(c) \/ SaveTestimony(c) PROVE Switches'
  BY <1>3 DEF PermitSaving, SaveTestimony, Stays
<1>4. CASE LoadTestimony
  BY <1>4 DEF LoadTestimony
<1>5. CASE Say
  BY <1>5 DEF Say, Record, Insert, Replace, JumpTo, Crashes, Aside
<1>6. CASE UNCHANGED vars
  BY <1>6 DEF vars
<1> QED BY <1>1, <1>2, <1>3, <1>4, <1>5, <1>6 DEF Next

\* Entries stay titles and statements, also out of a file, and the recorder is
\* in one of its states; the position is an integer and no more (see
\* PositionStaysInRange for when it is one of the testimony).
THEOREM TypeCorrect == Spec => []TypeOK
<1>1. Init => Switches
  <2> SUFFICES ASSUME Init PROVE Switches
    OBVIOUS
  <2>1. file.started = FALSE /\ started = FALSE
    BY DEF Init, NoFile
  <2> QED BY <2>1 DEF Init, Switches
<1>2. Inv /\ Switches => TypeOK
  BY DEF Inv, Types, Switches, TypeOK, Entries
<1> QED BY <1>1, <1>2, SwitchesStep, InitInv, InvStep, PTL DEF Spec

=============================================================================
