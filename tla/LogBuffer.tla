------------------------------ MODULE LogBuffer ------------------------------
(***************************************************************************)
(* The lines ULogger keeps per area, and those of the server, for the      *)
(* modcall log and the webhook (logger/u_logger.cpp).                      *)
(***************************************************************************)
EXTENDS Integers, Sequences

CONSTANT LogBuffer   \* Options/logbuffer

ASSUME LogBufferAssumption == LogBuffer \in Nat

\* Mutant: the dequeued line was the last one to be added.
EnqueuedAtFull(buffer, line) ==
  IF Len(buffer) <= LogBuffer THEN Append(buffer, line)
  ELSE Append(SubSeq(buffer, 1, Len(buffer) - 1), line)

\* updateAreaBuffer
Enqueued(buffer, line) ==
  IF Len(buffer) <= LogBuffer THEN Append(buffer, line)
  ELSE Append(Tail(buffer), line)

\* What the buffer stands for: the newest lines of all, one more than the
\* option says, since a line is dequeued only when there are more than that.
LinesKept == LogBuffer + 1

Newest(lines) ==
  IF Len(lines) <= LinesKept THEN lines
  ELSE SubSeq(lines, Len(lines) - LinesKept + 1, Len(lines))

=============================================================================
