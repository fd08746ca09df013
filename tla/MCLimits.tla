------------------------------ MODULE MCLimits ------------------------------
(***************************************************************************)
(* Two numbers of config.ini against what the code does with them: the     *)
(* statements of a testimony (maximum_statements) and the messages that    *)
(* the buffer of the same area stores (logbuffer).                         *)
(***************************************************************************)
EXTENDS Testimony, LogBuffer

CONSTANTS keeper, player

VARIABLE log   \* the buffer of the area; what a line says does not matter

LimitsInit == Init /\ log = << >>

\* Commands and IC messages are logged when they are run.
LimitsNext ==
  \/ Running /\ Next /\ log' = Enqueued(log, "line")
  \/ ~Running /\ UNCHANGED <<vars, log>>

LimitsSpec == LimitsInit /\ [][LimitsNext]_<<vars, log>>

\* What the comments of config.ini say and the code does not keep: "The
\* maximum number of statements that can be recorded in the testimony
\* recorder" and "The amount of logged messages an area should store".  That
\* at least one of the two is kept to fails, so neither is.
SomeLimitHolds ==
  \/ started =>
       Len(SelectSeq(testimony, LAMBDA entry : entry = Statement)) <= MaxStatements
  \/ Len(log) <= LogBuffer

=============================================================================
