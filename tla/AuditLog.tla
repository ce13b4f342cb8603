----------------------------- MODULE AuditLog -----------------------------
(***************************************************************************)
(* The append-only audit file and its writer (AuditLog in audit.rs) across *)
(* failures and restarts: one unbuffered append per record under a mutex,  *)
(* a failure that is never forgiven, and the check of the last byte when   *)
(* the file is opened.  Of the file only its end matters.                  *)
(***************************************************************************)

VARIABLES
  sink,   \* "ok", AuditWriterState.failed, or "closed": no daemon runs
  tail    \* how the file ends: "whole", "torn", or bytes behind a torn record

logVars == <<sink, tail>>

\* What the file ends with after an append (O_APPEND; external).
Appended(record) == IF tail = "whole" THEN record ELSE "garbled"

\* record: one write took all of it.
RecordWritten == sink = "ok" /\ tail' = Appended("whole") /\ UNCHANGED sink

\* Mutant: a short write is reported, the next record is tried again.
Forgiven == sink
\* What a failed write leaves of the writer.
Sticky == "failed"

\* record: the write fails, or takes only a part (flush does nothing for a file).
RecordFails == sink = "ok" /\ sink' = Sticky /\ tail' \in {tail, Appended("torn")}

\* The daemon dies, maybe in the middle of an append.
Dies ==
  /\ sink # "closed" /\ sink' = "closed"
  /\ \/ UNCHANGED tail
     \/ sink = "ok" /\ tail' = Appended("torn")

\* Mutant: an existing file is taken as it is.
AnyTail == TRUE
\* validate_complete_tail: the file is empty or ends with a newline.
CompleteTail == tail = "whole"

\* open; the owner and mode of the file never change here.
Open == sink = "closed" /\ CompleteTail /\ sink' = "ok" /\ UNCHANGED tail

LogInit == sink = "ok" /\ tail = "whole"
LogNext == RecordWritten \/ RecordFails \/ Dies \/ Open
LogSpec == LogInit /\ [][LogNext]_logVars

LogTypeOK == sink \in {"ok", "failed", "closed"} /\ tail \in {"whole", "torn", "garbled"}

\* A record cut short, by a full disk or by the end of the daemon, is the last
\* thing in the file: nothing is ever written behind it, by any thread or by any
\* later daemon, so every line of the file but the last is a whole record.
TornRecordIsLast == tail # "garbled"
============================================================================
