------------------------------ MODULE LogTail ------------------------------
(***************************************************************************)
(* The log of one execution, written by its worker, read incrementally by  *)
(* the log viewer of the frontend (adapters/output/logs/file_log_store.py, *)
(* GET /executions/{id}/logs, useExecutionLogs and useExecution of         *)
(* frontend/src/features/executions/hooks.ts, ExecutionDetailPage.tsx).    *)
(*                                                                         *)
(* The file is its length: byte i is i, and the viewer's text a sequence   *)
(* of bytes. A read decodes the bytes it has found on its own, with        *)
(* errors="replace": a byte of a character that is not all there becomes a *)
(* mark, 0. Abstraction: a character has one byte or two.                  *)
(*                                                                         *)
(* Answers may come in any order; the interval of the viewer does not wait *)
(* for the answer of the poll before. The status comes by a query of its   *)
(* own, repeated while it is live and whenever the window gets the focus.  *)
(*                                                                         *)
(* Assumed: the file is this execution's alone. Under a reused id it may   *)
(* be what a deleted execution has left, or has a worker that still writes *)
(* (Retention); the text then begins with the log of another.              *)
(***************************************************************************)
EXTENDS Naturals, Sequences, FiniteSets

CONSTANTS
    MaxBytes,   \* bound: length of the log
    Joined,     \* bytes whose character goes on in the next byte
    MaxPolls,   \* bound: polls made
    MaxFlight   \* bound: polls in flight when the interval makes another

Byte == 1..MaxBytes
Poll == 1..MaxPolls

(* Assumed of the constants, by the modules that give them values. *)
TailAssumption ==
    /\ MaxBytes \in Nat /\ MaxPolls \in Nat /\ MaxFlight \in Nat \ {0}
    /\ Joined \subseteq Byte /\ \A i \in Joined : i + 1 \notin Joined

VARIABLES
    writer,   \* the worker: not begun, at work, one write left to a thread, or gone
    written,  \* bytes in the file; each write is flushed
    live,     \* whether the status committed is queued or running
    early,    \* history: whether the worker went on after a terminal status was committed
    heard,    \* what the status query has read and the viewer not yet learnt
    known,    \* the status the viewer has; its effect is on where it is "live"
    flight,   \* polls in flight whose answer will be taken
    final,    \* the poll of an effect that is off; 0: none, or it failed
    due,      \* history: bytes in the file when that poll was made
    offset,   \* offsetRef
    text,     \* what the viewer shows
    cuts,     \* history: characters that the end of a read has cut
    polls,    \* polls made
    overlap   \* history: whether a poll began while another was in flight

execution == <<writer, written, live, early>>
viewer == <<heard, known, final, due>>
shown == <<offset, text, cuts>>
tailVars == <<execution, viewer, shown, flight, polls, overlap>>

-----------------------------------------------------------------------------

(* upto: where the bytes read ended, 0 while the server has not read;      *)
(* kept: made by an effect that is off, which never cancels it.            *)
Ask == [poll : Poll, from : 0..MaxBytes, kept : BOOLEAN, read : BOOLEAN,
        upto : 0..MaxBytes]

TailTypeOK ==
    /\ writer \in {"queued", "running", "late", "gone"} /\ written \in 0..MaxBytes
    /\ live \in BOOLEAN /\ early \in BOOLEAN
    /\ heard \in {"none", "live", "ended"}
    /\ known \in {"closed", "pending", "live", "ended"}
    /\ flight \in SUBSET Ask
    /\ final \in Poll \cup {0} /\ due \in 0..MaxBytes
    /\ offset \in 0..MaxBytes /\ text \in Seq(Byte \cup {0})
    /\ cuts \in SUBSET Joined
    /\ polls \in 0..MaxPolls /\ overlap \in BOOLEAN

TailInit ==
    /\ writer = "queued" /\ written = 0 /\ live = TRUE /\ early = FALSE
    /\ heard = "none" /\ known = "closed" /\ flight = {}
    /\ final = 0 /\ due = 0 /\ offset = 0 /\ text = <<>> /\ cuts = {}
    /\ polls = 0 /\ overlap = FALSE

-----------------------------------------------------------------------------
(* The execution *)

(* _run(), which a victim marked as killed may still reach. *)
WriterStarts ==
    /\ writer = "queued" /\ writer' = "running"
    /\ live' = TRUE /\ early' = (early \/ ~live)
    /\ UNCHANGED <<written, viewer, shown, flight, polls, overlap>>

(* The executor writes a chunk; a reader may find any part of it. *)
Write ==
    /\ writer \in {"running", "late"} /\ written < MaxBytes
    /\ \E n \in (written + 1)..MaxBytes : written' = n
    /\ writer' = IF writer = "late" THEN "gone" ELSE writer
    /\ early' = (early \/ ~live)
    /\ UNCHANGED <<live, viewer, shown, flight, polls, overlap>>

(* Cancelled or timed out in a write: the thread that writes goes on. *)
CutShort ==
    /\ writer = "running" /\ writer' = "late"
    /\ UNCHANGED <<written, live, early, viewer, shown, flight, polls, overlap>>

(* The executor returns or raises, or the thread left ends ... *)
WriterEnds ==
    /\ writer \in {"running", "late"} /\ writer' = "gone"
    /\ UNCHANGED <<written, live, early, viewer, shown, flight, polls, overlap>>

(* ... and _run commits the terminal status once the executor is over, ... *)
Commit ==
    /\ writer \in {"late", "gone"} /\ live /\ live' = FALSE
    /\ UNCHANGED <<writer, written, early, viewer, shown, flight, polls, overlap>>

(* ... but enqueue() that of a victim it has read as queued at once. *)
KillEarly ==
    /\ writer \in {"queued", "running"} /\ live /\ live' = FALSE
    /\ UNCHANGED <<writer, written, early, viewer, shown, flight, polls, overlap>>

-----------------------------------------------------------------------------
(* The viewer *)

Launch(asks, keep) ==
    /\ polls < MaxPolls /\ polls' = polls + 1
    /\ flight' = asks \cup {[poll |-> polls + 1, from |-> offset, kept |-> keep,
                             read |-> FALSE, upto |-> 0]}
    /\ overlap' = (overlap \/ asks # {})

(* A poll of an effect that is off: nothing polls after it. *)
LaunchLast(asks) ==
    /\ Launch(asks, TRUE)
    /\ final' = polls + 1 /\ due' = written

(* The page opens, its status not yet known or cached from a former visit; *)
(* a pending status counts as not live, so one poll is made.               *)
Open ==
    /\ known = "closed"
    /\ \/ /\ known' \in {"pending"} \cup (IF live THEN {} ELSE {"ended"})
          /\ LaunchLast({})
       \/ /\ known' = "live"
          /\ Launch({}, FALSE)
          /\ UNCHANGED <<final, due>>
    /\ UNCHANGED <<heard, execution, shown>>

(* GET /executions/{id} *)
ReadStatus ==
    /\ known # "closed" /\ heard = "none"
    /\ heard' = IF live THEN "live" ELSE "ended"
    /\ UNCHANGED <<execution, known, final, due, shown, flight, polls, overlap>>

(* The viewer learns that the execution is live: the effect goes on. The   *)
(* effect before, which was off, has no cleanup.                           *)
GoLive ==
    /\ heard = "live" /\ known \in {"pending", "ended"}
    /\ heard' = "none" /\ known' = "live"
    /\ Launch(flight, FALSE)
    /\ final' = 0
    /\ UNCHANGED <<due, execution, shown>>

(* It learns that the execution has ended: the effect's cleanup forsakes   *)
(* its polls in flight, and the effect runs once more.                     *)
GoFinal ==
    /\ heard = "ended" /\ known = "live"
    /\ heard' = "none" /\ known' = "ended"
    /\ LaunchLast({a \in flight : a.kept})
    /\ UNCHANGED <<execution, shown>>

(* It learns nothing the effect depends on. *)
LearnSame ==
    /\ \/ heard = "live" /\ known = "live"
       \/ heard = "ended" /\ known \in {"pending", "ended"}
    /\ heard' = "none" /\ known' = heard
    /\ UNCHANGED <<final, due, execution, shown, flight, polls, overlap>>

(* A tick of the interval. *)
PollTick ==
    /\ known = "live" /\ Cardinality(flight) < MaxFlight
    /\ Launch(flight, FALSE)
    /\ UNCHANGED <<execution, viewer, shown>>

(* FileLogStore.read: everything from the offset to the end of the file. *)
ReadUpto(a) == IF a.from < written THEN written ELSE a.from

ServerRead(a) ==
    /\ a \in flight /\ ~a.read
    /\ flight' = (flight \ {a}) \cup {[a EXCEPT !.read = TRUE, !.upto = ReadUpto(a)]}
    /\ UNCHANGED <<execution, viewer, shown, polls, overlap>>

(* The bytes after offset `from` up to offset `upto`, decoded: the first   *)
(* may end a character of the read before, the last begin one.             *)
ChunkRead(from, upto) ==
    [k \in 1..(upto - from) |->
       IF {from, upto} \cap Joined \cap {from + k, from + k - 1} # {} THEN 0
       ELSE from + k]

(* Mutant: the next offset is the size of the file, looked at after the read. *)
NextOffset_size(a) == written

NextOffset(a) == a.upto

(* The answer: the chunk is appended, the offset is the answer's. *)
Answer(a) ==
    /\ a \in flight /\ a.read
    /\ text' = text \o ChunkRead(a.from, a.upto)
    /\ offset' = NextOffset(a)
    /\ cuts' = cuts \cup ({a.upto} \cap Joined)
    /\ flight' = flight \ {a}
    /\ UNCHANGED <<execution, viewer, polls, overlap>>

(* The request fails, or the execution has been purged. *)
PollFails(a) ==
    /\ a \in flight
    /\ flight' = flight \ {a}
    /\ final' = IF a.poll = final THEN 0 ELSE final
    /\ UNCHANGED <<heard, known, due, execution, shown, polls, overlap>>

TailNext ==
    \/ WriterStarts \/ Write \/ CutShort \/ WriterEnds \/ Commit \/ KillEarly
    \/ Open \/ ReadStatus \/ GoLive \/ GoFinal \/ LearnSame \/ PollTick
    \/ \E a \in flight : ServerRead(a) \/ Answer(a) \/ PollFails(a)

TailSpec == TailInit /\ [][TailNext]_tailVars

-----------------------------------------------------------------------------

(* A byte of a character cut by the end of a read. *)
Split(i) == {i, i - 1} \cap cuts # {}

(* The text shown is the log up to the offset, each byte once and in order *)
(* but for the characters that the end of a read has cut, unless a poll    *)
(* was begun before the answer of another (useExecutionLogs appends        *)
(* whatever answers).                                                      *)
DuplicatedOnlyByOverlap ==
    \/ overlap
    \/ text = [i \in 1..offset |-> IF Split(i) THEN 0 ELSE i]

(* When the last poll has answered, nothing is missing of what was in the  *)
(* log as it was made, even if polls overlapped and were forsaken, but for *)
(* characters that the end of a read has cut. That is the whole log if the *)
(* viewer saw the execution end, its poll not being the one made as the    *)
(* page opened, unless the worker went on after a terminal status: a       *)
(* victim of kill_previous marked as killed too early, or a write that was *)
(* cancelled under way (useExecutionLogs, the order of the last write and  *)
(* the terminal status).                                                   *)
FinalTextComplete ==
    final # 0 /\ flight = {} =>
        /\ \A i \in 1..due : Split(i) \/ \E j \in DOMAIN text : text[j] = i
        /\ final > 1 /\ ~early => due = written

(* The viewer shows the log: in the end all of it, and none of it twice    *)
(* where polls do not overlap, with the exceptions above.                  *)
TextFaithful == DuplicatedOnlyByOverlap /\ FinalTextComplete
=============================================================================
