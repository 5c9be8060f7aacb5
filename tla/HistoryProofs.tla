--------------------------- MODULE HistoryProofs ----------------------------
(***************************************************************************)
(* Theorems about what stays of an execution: its row and its log under    *)
(* the purge (Retention), the log in the viewer (LogTail) and the report   *)
(* of a failure (Webhook), for any number of executions, mishaps, bytes,   *)
(* polls and attempts.                                                     *)
(***************************************************************************)
EXTENDS Retention, LogTail, Webhook, SequenceTheorems, WellFoundedInduction, TLAPS

(* The greatest and the least of a set of ids *)

(* The purge handles one of the rows it has listed.                        *)
LEMMA NextIsListed ==
    ASSUME RetentionTypeOK, todo # {}
    PROVE  Next1 \in todo
<1>1. IsWellFoundedOn(OpToRel(<, Nat), Nat)
  BY NatLessThanWellFounded
<1>2. todo \subseteq Nat
  BY DEF RetentionTypeOK, Id
<1>3. PICK m \in todo : \A i \in todo : ~(<<i, m>> \in OpToRel(<, Nat))
  BY <1>1, <1>2, WFMin
<1>4. \A i \in todo : ~(i < m)
  BY <1>2, <1>3 DEF OpToRel
<1>5. \A i \in todo : m <= i
  BY <1>2, <1>4
<1> QED BY <1>5 DEF Next1, Min

(* A new row takes the id of none.                                         *)
LEMMA NewRowIsNew ==
    ASSUME RetentionAssumption PROVE 1 + Max(Rows \cup {0}) \notin Rows
<1> DEFINE S == Rows \cup {0}
           T == {MaxRows - i : i \in S}
           top == Max(S)
<1>1. IsWellFoundedOn(OpToRel(<, Nat), Nat)
  BY NatLessThanWellFounded
<1>2. MaxRows \in Nat /\ S \subseteq 0..MaxRows
  BY DEF RetentionAssumption, Rows, Id
<1>3. T \subseteq Nat /\ T # {}
  BY <1>2
<1>4. PICK t \in T : \A u \in T : ~(<<u, t>> \in OpToRel(<, Nat))
  BY <1>1, <1>3, WFMin
<1>5. \A u \in T : ~(u < t)
  BY <1>3, <1>4 DEF OpToRel
<1>6. PICK m \in S : t = MaxRows - m
  OBVIOUS
<1>7. \A i \in S : m >= i
  BY <1>2, <1>5, <1>6
<1>8. top \in S /\ \A i \in S : top >= i
  BY <1>7 DEF Max
<1> HIDE DEF top
<1>9. top \in Nat /\ \A i \in Rows : top >= i
  BY <1>2, <1>8
<1>10. 1 + top \notin Rows
  BY <1>9
<1> QED BY <1>10 DEF top

-----------------------------------------------------------------------------
(* A worker whose row did not go with its project has it running: the      *)
(* purge never takes the row of one that may still write.                  *)
TaskInv ==
    \A i \in Id \ cascaded : task[i] # "none" => exec[i] = "running"

(* What the purge has listed is still old, and the log of what it has      *)
(* deleted, or is about to, is gone.                                       *)
PurgeInv ==
    /\ purge \in {"unlink", "delete"} => todo # {}
    /\ purge = "commit" => todo = {}
    /\ \A i \in (todo \cup erased) \ cascaded : exec[i] = "old"
    /\ \A i \in erased \ cascaded : ~file[i]
    /\ purge = "delete" /\ Next1 \notin cascaded => ~file[Next1]

RetentionInv == RetentionTypeOK /\ TaskInv /\ PurgeInv /\ NoOrphanLog

LEMMA RetentionInitInv == RetentionAssumption /\ RetentionInit => RetentionInv
  BY DEF RetentionAssumption, RetentionInit, RetentionInv, RetentionTypeOK, TaskInv, PurgeInv,
         NoOrphanLog

(* Every step keeps the types.                                             *)
LEMMA TypesKept ==
    ASSUME RetentionAssumption, RetentionTypeOK, [RetentionNext]_retentionVars
    PROVE  RetentionTypeOK'
<1> USE DEF RetentionTypeOK
<1>1. CASE AddRow \/ CascadeRows
  <2>1. Rows \subseteq Id
    BY DEF Rows
  <2> QED BY <1>1, <2>1 DEF AddRow, CascadeRows
<1>2. ASSUME NEW i \in Id, Dispatch(i) \/ OpenWriter(i) \/ EndTask(i) \/ GrowOld(i)
      PROVE  RetentionTypeOK'
  BY <1>2 DEF Dispatch, OpenWriter, EndTask, GrowOld
<1>3. CASE PurgeBegin \/ Unlink \/ PurgeCommit
  BY <1>3 DEF PurgeBegin, Unlink, PurgeCommit, Candidates
<1>4. CASE DeleteRow
  BY <1>4 DEF DeleteRow, Rows
<1>5. CASE UnlinkFails \/ PurgeFails \/ Die
  BY <1>5 DEF UnlinkFails, PurgeFails, Die, Rollback, Mishap, RetentionAssumption
<1>6. CASE UNCHANGED retentionVars
  BY <1>6 DEF retentionVars
<1> QED BY <1>1, <1>2, <1>3, <1>4, <1>5, <1>6 DEF RetentionNext, PurgeStep

(* Rows added and cascaded.                                                *)
LEMMA RowSteps ==
    ASSUME RetentionAssumption, RetentionInv, RetentionTypeOK', AddRow \/ CascadeRows
    PROVE  RetentionInv'
<1> USE DEF RetentionInv, RetentionTypeOK
<1>1. CASE AddRow
  <2> DEFINE n == 1 + Max(Rows \cup {0})
  <2>1. n \notin Rows
    BY NewRowIsNew
  <2>2. /\ n \in Id /\ exec' = [exec EXCEPT ![n] = "queued"] /\ erased = {}
        /\ UNCHANGED <<file, task, purge, todo, erased, cascaded>>
    BY <1>1 DEF AddRow, Unlocked
  <2> HIDE DEF n
  <2>3. exec[n] = "none"
    BY <2>1, <2>2 DEF Rows
  <2>4. TaskInv'
    BY <2>2, <2>3 DEF TaskInv
  <2>5. PurgeInv'
    BY <2>2, <2>3 DEF PurgeInv, Next1
  <2>6. NoOrphanLog'
    BY <2>2 DEF NoOrphanLog
  <2> QED BY <2>4, <2>5, <2>6
<1>2. CASE CascadeRows
  <2>1. PICK S \in SUBSET Rows :
          /\ exec' = [i \in Id |-> IF i \in S THEN "none" ELSE exec[i]]
          /\ cascaded' = cascaded \cup S
    BY <1>2 DEF CascadeRows
  <2>2. UNCHANGED <<file, task, purge, todo, erased>>
    BY <1>2 DEF CascadeRows
  <2>3. TaskInv' /\ NoOrphanLog'
    BY <2>1, <2>2 DEF TaskInv, NoOrphanLog
  <2>4. PurgeInv'
    BY <2>1, <2>2 DEF PurgeInv, Next1
  <2> QED BY <2>3, <2>4
<1> QED BY <1>1, <1>2

(* A worker's steps, and time.                                             *)
LEMMA TaskSteps ==
    ASSUME RetentionInv, RetentionTypeOK', NEW i \in Id,
           Dispatch(i) \/ OpenWriter(i) \/ EndTask(i) \/ GrowOld(i)
    PROVE  RetentionInv'
<1> USE DEF RetentionInv, RetentionTypeOK
<1>1. purge = "delete" => Next1 \in todo
  BY NextIsListed DEF PurgeInv
<1>2. CASE Dispatch(i)
  <2>1. TaskInv' /\ NoOrphanLog'
    BY <1>2 DEF Dispatch, TaskInv, NoOrphanLog
  <2>2. PurgeInv'
    BY <1>2 DEF Dispatch, PurgeInv, Next1
  <2> QED BY <2>1, <2>2
<1>3. CASE OpenWriter(i)
  <2>1. TaskInv' /\ NoOrphanLog'
    BY <1>3 DEF OpenWriter, TaskInv, NoOrphanLog
  <2>2. i \in cascaded \/ exec[i] # "old"
    BY <1>3 DEF OpenWriter, TaskInv
  <2>3. PurgeInv'
    BY <1>1, <1>3, <2>2 DEF OpenWriter, PurgeInv, Next1
  <2> QED BY <2>1, <2>3
<1>4. CASE EndTask(i)
  <2>1. TaskInv' /\ NoOrphanLog'
    BY <1>4 DEF EndTask, TaskInv, NoOrphanLog
  <2>2. i \in cascaded \/ exec[i] # "old"
    BY <1>4 DEF EndTask, TaskInv
  <2>3. PurgeInv'
    BY <1>4, <2>2 DEF EndTask, PurgeInv, Next1
  <2> QED BY <2>1, <2>3
<1>5. CASE GrowOld(i)
  <2>1. TaskInv' /\ NoOrphanLog'
    BY <1>5 DEF GrowOld, TaskInv, NoOrphanLog
  <2>2. PurgeInv'
    BY <1>5 DEF GrowOld, PurgeInv, Next1
  <2> QED BY <2>1, <2>2
<1> QED BY <1>2, <1>3, <1>4, <1>5

(* The purge, statement by statement.                                      *)
LEMMA PurgeSteps ==
    ASSUME RetentionInv, RetentionTypeOK', PurgeStep
    PROVE  RetentionInv'
<1> USE DEF RetentionInv, RetentionTypeOK
<1>1. CASE PurgeBegin
  <2>1. TaskInv' /\ NoOrphanLog'
    BY <1>1 DEF PurgeBegin, TaskInv, NoOrphanLog
  <2>2. PurgeInv'
    BY <1>1 DEF PurgeBegin, PurgeInv, Candidates
  <2> QED BY <2>1, <2>2
<1>2. CASE Unlink
  <2>1. Next1 \in todo
    BY <1>2, NextIsListed DEF Unlink, PurgeInv
  <2>2. TaskInv' /\ NoOrphanLog'
    BY <1>2 DEF Unlink, TaskInv, NoOrphanLog
  <2>3. PurgeInv'
    BY <1>2, <2>1 DEF Unlink, PurgeInv, Next1
  <2> QED BY <2>2, <2>3
<1>3. CASE DeleteRow
  <2>1. Next1 \in todo
    BY <1>3, NextIsListed DEF DeleteRow, PurgeInv
  <2>2. TaskInv' /\ NoOrphanLog'
    BY <1>3 DEF DeleteRow, TaskInv, NoOrphanLog
  <2> DEFINE n == Next1
  <2>3. /\ n \in todo
        /\ n \notin cascaded => ~file[n]
        /\ erased' \subseteq erased \cup {n} /\ todo' = todo \ {n}
        /\ purge' = IF todo = {n} THEN "commit" ELSE "unlink"
        /\ UNCHANGED <<exec, file, cascaded>>
    BY <1>3, <2>1 DEF DeleteRow, PurgeInv
  <2> HIDE DEF n
  <2>4. PurgeInv'
    BY <2>3 DEF PurgeInv
  <2> QED BY <2>2, <2>4
<1>4. CASE PurgeCommit
  <2>1. TaskInv' /\ NoOrphanLog'
    BY <1>4 DEF PurgeCommit, PurgeInv, TaskInv, NoOrphanLog
  <2>2. PurgeInv'
    BY <1>4 DEF PurgeCommit, PurgeInv
  <2> QED BY <2>1, <2>2
<1> QED BY <1>1, <1>2, <1>3, <1>4 DEF PurgeStep

(* A purge rolled back.                                                    *)
LEMMA MishapSteps ==
    ASSUME RetentionInv, RetentionTypeOK', UnlinkFails \/ PurgeFails \/ Die
    PROVE  RetentionInv'
<1>1. TaskInv' /\ NoOrphanLog'
  BY DEF UnlinkFails, PurgeFails, Die, RetentionInv, RetentionTypeOK, TaskInv, NoOrphanLog
<1>2. PurgeInv'
  BY DEF UnlinkFails, PurgeFails, Die, Rollback, PurgeInv
<1> QED BY <1>1, <1>2 DEF RetentionInv

LEMMA RetentionNextInv ==
    ASSUME RetentionAssumption, RetentionInv, [RetentionNext]_retentionVars
    PROVE  RetentionInv'
<1>1. RetentionTypeOK'
  BY TypesKept DEF RetentionInv
<1>2. CASE RetentionNext
  BY <1>1, <1>2, RowSteps, TaskSteps, PurgeSteps, MishapSteps DEF RetentionNext
<1>3. CASE UNCHANGED retentionVars
  BY <1>1, <1>3 DEF RetentionInv, RetentionTypeOK, TaskInv, PurgeInv, NoOrphanLog,
                    retentionVars, Next1
<1> QED BY <1>2, <1>3

-----------------------------------------------------------------------------

(* The invariant of Retention.                                             *)
LEMMA RetentionInvariant == ASSUME RetentionAssumption PROVE RetentionSpec => []RetentionInv
<1>1. RetentionInit => RetentionInv
  BY RetentionInitInv
<1>2. RetentionInv /\ [RetentionNext]_retentionVars => RetentionInv'
  BY RetentionNextInv
<1> QED BY <1>1, <1>2, PTL DEF RetentionSpec

(* A log whose row is gone lost it with its project, whatever fails and    *)
(* dies in between (docstring of RetentionService.purge).                  *)
THEOREM NoOrphanLogHolds ==
    ASSUME RetentionAssumption PROVE RetentionSpec => []NoOrphanLog
<1>1. RetentionSpec => []RetentionInv
  BY RetentionInvariant
<1>2. RetentionInv => NoOrphanLog
  BY DEF RetentionInv
<1> QED BY <1>1, <1>2, PTL

(* The purge takes nothing but the rows and the logs of old executions,    *)
(* where no id has changed hands (RetentionService.purge).                 *)
THEOREM RetentionSparesLiveHolds ==
    ASSUME RetentionAssumption PROVE RetentionSpec => RetentionSparesLive
<1> DEFINE Spared == \A i \in Id \ cascaded :
             /\ file[i] /\ ~file'[i] => exec[i] = "old"
             /\ exec[i] # "none" /\ exec'[i] = "none" /\ i \notin cascaded' =>
                  exec[i] = "old"
<1>1. RetentionSpec => []RetentionInv
  BY RetentionInvariant
<1>2. RetentionInv /\ [RetentionNext]_retentionVars => [Spared]_retentionVars
  <2> SUFFICES ASSUME RetentionInv, RetentionNext PROVE Spared
    OBVIOUS
  <2> USE DEF RetentionInv, RetentionTypeOK
  <2>1. CASE AddRow \/ CascadeRows
    BY <2>1 DEF AddRow, CascadeRows
  <2>2. ASSUME NEW i \in Id, Dispatch(i) \/ OpenWriter(i) \/ EndTask(i) \/ GrowOld(i)
        PROVE  Spared
    BY <2>2 DEF Dispatch, OpenWriter, EndTask, GrowOld
  <2>3. CASE Unlink
    <3>1. Next1 \in todo
      BY <2>3, NextIsListed DEF Unlink, PurgeInv
    <3> QED BY <2>3, <3>1 DEF Unlink, PurgeInv
  <2>4. CASE PurgeCommit
    BY <2>4 DEF PurgeCommit, PurgeInv
  <2>5. CASE PurgeBegin \/ DeleteRow \/ UnlinkFails \/ PurgeFails \/ Die
    BY <2>5 DEF PurgeBegin, DeleteRow, UnlinkFails, PurgeFails, Die
  <2> QED BY <2>1, <2>2, <2>3, <2>4, <2>5 DEF RetentionNext, PurgeStep
<1> QED BY <1>1, <1>2, PTL DEF RetentionSpec, RetentionSparesLive

-----------------------------------------------------------------------------
(* The log in the viewer *)

(* `n` bytes of the log are shown, wherever they are in the text, but for  *)
(* the characters that the end of a read has cut ...                       *)
Covered(n) == \A i \in 1..n : Split(i) \/ \E j \in DOMAIN text : text[j] = i

(* ... and if the last of them is in the middle of a character, that one   *)
(* counts as cut.                                                          *)
Whole(n) == Covered(n) /\ (n \in Joined => n \in cuts)

(* The log up to offset `n`, as polls that do not overlap show it.         *)
LogUpTo(n) == [i \in 1..n |-> IF Split(i) THEN 0 ELSE i]

(* No offset is ahead of the file, a read never goes back, and a poll has  *)
(* its number to itself.                                                   *)
ReadInv ==
    /\ offset <= written /\ due <= written /\ final <= polls
    /\ known = "closed" => polls = 0 /\ flight = {}
    /\ \A a \in flight :
         /\ a.from <= written /\ a.poll <= polls
         /\ a.read => a.from <= a.upto /\ a.upto <= written
    /\ \A a, b \in flight : a.poll = b.poll => a = b

(* Polls that do not overlap: the text is what the one in flight goes on   *)
(* from.                                                                   *)
AloneInv ==
    ~overlap =>
      /\ text = LogUpTo(offset)
      /\ \A i \in cuts : i <= offset
      /\ \A a \in flight : a.from = offset
      /\ \A a, b \in flight : a = b

(* Nothing before an offset is missing from the text, whatever else is in  *)
(* it twice: an offset is an answer's, and goes with its text.             *)
CoverInv == Whole(offset) /\ \A a \in flight : Whole(a.from)

(* The viewer believes the execution over only if it is, or went on.       *)
SeenInv ==
    (heard = "ended" \/ known = "ended" \/ final > 1) /\ ~early => ~live

(* The last poll reads at least what was in the log as it was made, and    *)
(* once it has answered all that is covered.                               *)
FinalInv ==
    final # 0 =>
      /\ \A a \in flight : a.poll = final /\ a.read => due <= a.upto
      /\ (\A a \in flight : a.poll # final) => Covered(due)
      /\ final > 1 /\ ~early => due = written

TailInv == TailTypeOK /\ ReadInv /\ AloneInv /\ CoverInv /\ SeenInv /\ FinalInv

(* A chunk decoded is a sequence, with every byte at its place or a mark.  *)
IsChunk(m, n, c) ==
    /\ c \in Seq(Byte \cup {0}) /\ Len(c) = n - m
    /\ \A k \in 1..(n - m) :
         c[k] = IF {m, n} \cap Joined \cap {m + k, m + k - 1} # {} THEN 0 ELSE m + k

LEMMA ChunkIs ==
    ASSUME TailAssumption, NEW m \in 0..MaxBytes, NEW n \in m..MaxBytes
    PROVE  IsChunk(m, n, ChunkRead(m, n))
<1>1. n - m \in Nat /\ \A k \in 1..(n - m) : m + k \in Byte
  BY DEF TailAssumption, Byte
<1> QED BY <1>1 DEF ChunkRead, IsChunk

(* The cuts a read adds to those it found are at its two ends.             *)
LEMMA CutsMeet ==
    ASSUME TailAssumption, NEW m \in 0..MaxBytes, NEW n \in m..MaxBytes,
           cuts \in SUBSET Joined, \A i \in cuts : i <= m,
           m \in Joined => m \in cuts,
           NEW k \in 1..(n - m)
    PROVE  {m, n} \cap Joined \cap {m + k, m + k - 1} # {}
           <=> {m + k, m + k - 1} \cap (cuts \cup ({n} \cap Joined)) # {}
<1>1. \A i \in cuts : i \in Nat /\ i <= m
  BY DEF TailAssumption, Byte
<1>2. m \in Nat /\ n \in Nat /\ k \in Nat /\ k >= 1
  BY DEF TailAssumption
<1>3. \A i \in cuts : i # m + k
  BY <1>1, <1>2
<1>4. \A i \in cuts : i = m + k - 1 => i = m
  BY <1>1, <1>2
<1> QED BY <1>3, <1>4

(* What a poll reads continues the log up to where it begins.              *)
LEMMA TextMeets ==
    ASSUME TailAssumption, TailTypeOK, NEW n \in offset..MaxBytes,
           text = LogUpTo(offset), \A i \in cuts : i <= offset,
           offset \in Joined => offset \in cuts,
           cuts' = cuts \cup ({n} \cap Joined),
           text' = text \o ChunkRead(offset, n)
    PROVE  text' = LogUpTo(n)'
<1> DEFINE t == ChunkRead(offset, n)
           Cut(i) == {i, i - 1} \cap (cuts \cup ({n} \cap Joined)) # {}
           u == [i \in 1..n |-> IF Cut(i) THEN 0 ELSE i]
<1>1. /\ offset \in 0..MaxBytes /\ offset \in Nat /\ n \in Nat /\ n - offset \in Nat
      /\ text \in Seq(Byte \cup {0}) /\ cuts \in SUBSET Joined
  BY DEF TailAssumption, TailTypeOK
<1>2. text = [i \in 1..offset |-> IF {i, i - 1} \cap cuts # {} THEN 0 ELSE i]
  BY DEF LogUpTo, Split
<1>3. Len(text) = offset /\ \A i \in 1..offset :
        text[i] = IF {i, i - 1} \cap cuts # {} THEN 0 ELSE i
  BY <1>1, <1>2
<1>4. /\ t \in Seq(Byte \cup {0}) /\ Len(t) = n - offset
      /\ \A k \in 1..(n - offset) :
           t[k] = IF {offset, n} \cap Joined \cap {offset + k, offset + k - 1} # {} THEN 0
                  ELSE offset + k
  BY <1>1, ChunkIs DEF IsChunk
<1>5. \A k \in 1..(n - offset) :
        {offset, n} \cap Joined \cap {offset + k, offset + k - 1} # {} <=> Cut(offset + k)
  BY <1>1, CutsMeet
<1>6. \A i \in 1..offset : {i, i - 1} \cap cuts # {} <=> Cut(i)
  <2> SUFFICES ASSUME NEW i \in 1..offset, n \in {i, i - 1}, n \in Joined
               PROVE  {i, i - 1} \cap cuts # {}
    OBVIOUS
  <2>1. n = offset /\ i = n
    BY <1>1
  <2> QED BY <2>1
<1>7. LogUpTo(n)' = u
  BY DEF LogUpTo, Split
<1>8. u \in Seq(Byte \cup {0}) /\ Len(u) = n /\ \A i \in 1..n : u[i] = IF Cut(i) THEN 0 ELSE i
  <2>1. \A i \in 1..n : i \in Byte
    BY <1>1 DEF Byte, TailAssumption
  <2> QED BY <1>1, <2>1
<1> HIDE DEF t, u, Cut
<1>9. /\ text \o t \in Seq(Byte \cup {0}) /\ Len(text \o t) = offset + (n - offset)
      /\ \A i \in 1..(offset + (n - offset)) :
           (text \o t)[i] = IF i <= offset THEN text[i] ELSE t[i - offset]
  <2>1. /\ text \o t \in Seq(Byte \cup {0}) /\ Len(text \o t) = Len(text) + Len(t)
        /\ \A i \in 1..(Len(text) + Len(t)) :
             (text \o t)[i] = IF i <= Len(text) THEN text[i] ELSE t[i - Len(text)]
    BY <1>1, <1>4, ConcatProperties
  <2> QED BY <1>3, <1>4, <2>1
<1>10. offset + (n - offset) = n
  BY <1>1
<1>11. \A i \in 1..n : (text \o t)[i] = u[i]
  <2> SUFFICES ASSUME NEW i \in 1..n PROVE (text \o t)[i] = u[i]
    OBVIOUS
  <2>1. CASE i <= offset
    <3>1. i \in 1..offset
      BY <1>1, <2>1
    <3> QED BY <1>3, <1>6, <1>8, <1>9, <1>10, <2>1, <3>1
  <2>2. CASE ~(i <= offset)
    <3>1. i - offset \in 1..(n - offset) /\ offset + (i - offset) = i
          /\ offset + (i - offset) - 1 = i - 1
      BY <1>1, <2>2
    <3>2. t[i - offset] = IF Cut(i) THEN 0 ELSE i
      BY <1>4, <1>5, <3>1
    <3> QED BY <1>8, <1>9, <1>10, <2>2, <3>2
  <2> QED BY <2>1, <2>2
<1>12. text \o t = u
  BY <1>8, <1>9, <1>10, <1>11, SeqEqual
<1> QED BY <1>7, <1>12 DEF t

(* An answer appends its bytes: what was covered up to its offset is       *)
(* covered up to where the read ended, and nothing covered is lost.        *)
LEMMA AnswerCovers ==
    ASSUME TailAssumption, TailTypeOK, ReadInv,
           NEW a \in flight, a.read, text' = text \o ChunkRead(a.from, a.upto),
           cuts' = cuts \cup ({a.upto} \cap Joined)
    PROVE  /\ text' \in Seq(Byte \cup {0})
           /\ \A n \in 0..MaxBytes : Covered(n) => Covered(n)'
           /\ Whole(a.from) => Whole(a.upto)'
<1>1. /\ a.from \in 0..MaxBytes /\ a.upto \in a.from..MaxBytes
      /\ a.from \in Nat /\ a.upto \in Nat
  BY DEF TailTypeOK, ReadInv, Ask, TailAssumption
<1> DEFINE c == ChunkRead(a.from, a.upto)
<1>2. /\ c \in Seq(Byte \cup {0}) /\ Len(c) = a.upto - a.from
       /\ \A k \in 1..(a.upto - a.from) :
            c[k] = IF {a.from, a.upto} \cap Joined \cap {a.from + k, a.from + k - 1} # {} THEN 0
                   ELSE a.from + k
  <2>1. IsChunk(a.from, a.upto, ChunkRead(a.from, a.upto))
    BY <1>1, ChunkIs
  <2> QED BY <2>1 DEF IsChunk
<1>3. text \in Seq(Byte \cup {0})
  BY DEF TailTypeOK
<1> HIDE DEF c
<1>4. /\ text \o c \in Seq(Byte \cup {0}) /\ Len(text \o c) = Len(text) + Len(c)
      /\ \A i \in 1..(Len(text) + Len(c)) :
           (text \o c)[i] = IF i <= Len(text) THEN text[i] ELSE c[i - Len(text)]
  BY <1>2, <1>3, ConcatProperties
<1>5. text' = text \o c
  BY DEF c
<1>6. /\ DOMAIN text = 1..Len(text) /\ Len(text) \in Nat
      /\ DOMAIN text' = 1..(Len(text) + (a.upto - a.from))
  BY <1>1, <1>2, <1>3, <1>4, <1>5
<1>7. \A j \in DOMAIN text : j \in DOMAIN text' /\ text'[j] = text[j]
  BY <1>1, <1>2, <1>4, <1>5, <1>6
<1>8. \A n \in 0..MaxBytes : Covered(n) => Covered(n)'
  BY <1>7 DEF Covered, Split
<1>9. ASSUME Whole(a.from) PROVE Covered(a.upto)'
  <2> SUFFICES ASSUME NEW i \in 1..a.upto, ~Split(i)'
               PROVE  \E j \in DOMAIN text' : text'[j] = i
    BY DEF Covered
  <2>1. CASE i <= a.from
    <3>1. i \in 1..a.from /\ ~Split(i)
      BY <1>1, <2>1 DEF Split
    <3> QED BY <1>7, <1>9, <3>1 DEF Covered, Whole
  <2>2. CASE ~(i <= a.from)
    <3> DEFINE j == Len(text) + (i - a.from)
    <3>1. /\ j \in 1..(Len(text) + (a.upto - a.from)) /\ ~(j <= Len(text))
          /\ j - Len(text) = i - a.from /\ i - a.from \in 1..(a.upto - a.from)
          /\ a.from + (i - a.from) = i /\ a.from + (i - a.from) - 1 = i - 1
      BY <1>1, <1>6, <2>2
    <3> HIDE DEF j
    <3>2. text'[j] = c[i - a.from]
      BY <1>2, <1>4, <1>5, <3>1
    <3>3. {a.from, a.upto} \cap Joined \subseteq cuts'
      BY <1>9 DEF Whole
    <3>4. {a.from, a.upto} \cap Joined \cap {i, i - 1} = {}
      BY <3>3 DEF Split
    <3>5. c[i - a.from] = i
      BY <1>2, <3>1, <3>4
    <3> QED BY <1>6, <3>1, <3>2, <3>5
  <2> QED BY <2>1, <2>2
<1>10. Whole(a.from) => Whole(a.upto)'
  BY <1>9 DEF Whole, Covered
<1> QED BY <1>4, <1>5, <1>8, <1>10

LEMMA TailInitInv == ASSUME TailAssumption, TailInit PROVE TailInv
<1> USE DEF TailInit, TailAssumption
<1>1. TailTypeOK
  <2>1. text \in Seq(Byte \cup {0})
    BY EmptySeq
  <2>2. live \in BOOLEAN /\ early \in BOOLEAN /\ overlap \in BOOLEAN
    OBVIOUS
  <2>3. /\ flight \in SUBSET Ask /\ cuts \in SUBSET Joined
        /\ writer \in {"queued", "running", "late", "gone"}
        /\ heard \in {"none", "live", "ended"}
        /\ known \in {"closed", "pending", "live", "ended"}
    OBVIOUS
  <2>4. /\ written \in 0..MaxBytes /\ offset \in 0..MaxBytes /\ polls \in 0..MaxPolls
        /\ final \in Poll \cup {0} /\ due \in 0..MaxBytes
    OBVIOUS
  <2> QED BY <2>1, <2>2, <2>3, <2>4 DEF TailTypeOK
<1>2. ReadInv /\ SeenInv /\ FinalInv
  BY DEF ReadInv, SeenInv, FinalInv
<1>3. AloneInv
  BY DEF AloneInv, LogUpTo
<1>4. CoverInv
  BY DEF CoverInv, Whole, Covered, Byte
<1> QED BY <1>1, <1>2, <1>3, <1>4 DEF TailInv

(* The execution writes, is killed and ends.                               *)
LEMMA WriterKeeps ==
    ASSUME TailAssumption, TailInv,
           WriterStarts \/ Write \/ CutShort \/ WriterEnds \/ Commit \/ KillEarly
    PROVE  TailInv'
<1> USE DEF TailInv
<1>1. /\ written' \in 0..MaxBytes /\ written <= written'
      /\ writer' \in {"queued", "running", "late", "gone"}
      /\ UNCHANGED <<heard, known, final, due, offset, text, cuts, flight, polls, overlap>>
  <2>1. CASE Write
    BY <2>1 DEF Write, viewer, shown, TailTypeOK, TailAssumption
  <2>2. CASE WriterStarts \/ CutShort \/ WriterEnds \/ Commit \/ KillEarly
    <3>1. written' = written /\ written \in 0..MaxBytes
      BY <2>2 DEF WriterStarts, CutShort, WriterEnds, Commit, KillEarly, TailTypeOK
    <3>2. /\ writer' \in {"queued", "running", "late", "gone"}
          /\ UNCHANGED <<heard, known, final, due, offset, text, cuts, flight, polls, overlap>>
      BY <2>2 DEF WriterStarts, CutShort, WriterEnds, Commit, KillEarly, viewer, shown,
                  TailTypeOK
    <3> QED BY <3>1, <3>2 DEF TailAssumption
  <2> QED BY <2>1, <2>2
<1>2. /\ live' \in BOOLEAN /\ early' \in BOOLEAN /\ (~early' => ~early)
      /\ (~early' /\ ~live => ~live' /\ written' = written)
  <2>1. CASE WriterStarts \/ Write
    BY <2>1 DEF WriterStarts, Write, TailTypeOK
  <2>2. CASE CutShort \/ WriterEnds
    BY <2>2 DEF CutShort, WriterEnds, TailTypeOK
  <2>3. CASE Commit \/ KillEarly
    BY <2>3 DEF Commit, KillEarly, TailTypeOK
  <2> QED BY <2>1, <2>2, <2>3
<1>3. TailTypeOK'
  BY <1>1, <1>2 DEF TailTypeOK
<1>4. ReadInv'
  BY <1>1 DEF ReadInv, TailTypeOK, TailAssumption, Ask
<1>5. AloneInv' /\ CoverInv'
  BY <1>1 DEF AloneInv, LogUpTo, CoverInv, Whole, Covered, Split
<1>6. SeenInv'
  BY <1>1, <1>2 DEF SeenInv
<1>7. FinalInv'
  BY <1>1, <1>2 DEF FinalInv, SeenInv, Covered, Split
<1> QED BY <1>3, <1>4, <1>5, <1>6, <1>7

(* A poll is begun, among those of `asks` or after they were forsaken.     *)
LEMMA LaunchReads ==
    ASSUME TailAssumption, TailInv, NEW asks \in SUBSET flight, NEW keep \in BOOLEAN,
           Launch(asks, keep), UNCHANGED <<execution, shown>>,
           known' \in {"pending", "live", "ended"}, heard' \in {"none", "live", "ended"},
           final' \in {final, 0, polls + 1}, due' \in {due, written}
    PROVE  TailTypeOK' /\ ReadInv' /\ AloneInv' /\ CoverInv'
<1> USE DEF TailInv
<1> DEFINE new == [poll |-> polls + 1, from |-> offset, kept |-> keep,
                   read |-> FALSE, upto |-> 0]
<1>1. /\ polls \in Nat /\ polls + 1 \in Poll /\ polls' = polls + 1
      /\ written \in Nat /\ polls' \in 0..MaxPolls
  BY DEF Launch, Poll, TailTypeOK, TailAssumption
<1>2. new \in Ask
  BY <1>1 DEF Ask, TailTypeOK, TailAssumption
<1>3. new.poll = polls + 1 /\ new.from = offset /\ new.read = FALSE
  OBVIOUS
<1>4. flight' = asks \cup {new} /\ overlap' = (overlap \/ asks # {})
  BY DEF Launch
<1>5. UNCHANGED <<writer, written, live, early, offset, text, cuts>>
  BY DEF execution, shown
<1> HIDE DEF new
<1>6. TailTypeOK'
  <2>1. overlap' \in BOOLEAN
    BY <1>4 DEF TailTypeOK
  <2>2. final' \in Poll \cup {0} /\ due' \in 0..MaxBytes
    BY <1>1 DEF TailTypeOK
  <2>3. flight' \in SUBSET Ask
    BY <1>2, <1>4 DEF TailTypeOK
  <2> QED BY <1>1, <1>5, <2>1, <2>2, <2>3 DEF TailTypeOK
<1>7. ReadInv'
  <2>1. \A a \in asks : a.poll \in Nat /\ a.poll <= polls /\ a.poll # polls + 1
    BY <1>1 DEF ReadInv, TailTypeOK, Ask, Poll
  <2>2. final' <= polls'
    BY <1>1 DEF ReadInv, TailTypeOK, Poll
  <2>3. \A a, b \in flight' : a.poll = b.poll => a = b
    BY <1>3, <1>4, <2>1 DEF ReadInv
  <2>4. \A a \in flight' : a.poll <= polls'
    BY <1>1, <1>3, <1>4, <2>1
  <2>5. \A a \in flight' : a.from <= written /\ (a.read => a.from <= a.upto /\ a.upto <= written)
    BY <1>3, <1>4 DEF ReadInv
  <2>6. offset <= written /\ due' <= written
    BY <1>1 DEF ReadInv
  <2> QED BY <1>5, <2>2, <2>3, <2>4, <2>5, <2>6 DEF ReadInv
<1>8. CoverInv'
  BY <1>3, <1>4, <1>5 DEF CoverInv, Whole, Covered, Split
<1>9. AloneInv'
  <2> SUFFICES ASSUME ~overlap' PROVE AloneInv'
    BY DEF AloneInv
  <2>1. ~overlap /\ flight' = {new}
    BY <1>4
  <2> QED BY <1>3, <1>5, <2>1 DEF AloneInv, LogUpTo, Split
<1> QED BY <1>6, <1>7, <1>8, <1>9

(* The polls of the interval and those of the effect going on or off.      *)
LEMMA LaunchKeeps ==
    ASSUME TailAssumption, TailInv, Open \/ GoLive \/ GoFinal \/ PollTick
    PROVE  TailInv'
<1> USE DEF TailInv
<1>1. /\ polls \in Nat /\ final \in Nat /\ final <= polls /\ polls + 1 # 0
      /\ \A a \in flight : a.poll <= polls /\ a.poll \in Nat
  BY DEF TailTypeOK, ReadInv, Ask, Poll, TailAssumption
<1>2. CASE LaunchLast({}) /\ known = "closed" /\ known' \in {"pending", "ended"}
           /\ (known' = "ended" => ~live) /\ UNCHANGED <<heard, execution, shown>>
  <2>1. /\ Launch({}, TRUE) /\ final' = polls + 1 /\ due' = written /\ polls = 0
        /\ heard' \in {"none", "live", "ended"}
    BY <1>2 DEF LaunchLast, ReadInv, TailTypeOK
  <2>2. TailTypeOK' /\ ReadInv' /\ AloneInv' /\ CoverInv'
    BY <1>2, <2>1, LaunchReads
  <2>3. SeenInv'
    BY <1>2, <2>1 DEF SeenInv, execution
  <2>4. FinalInv'
    BY <1>2, <2>1 DEF Launch, FinalInv, execution
  <2> QED BY <2>2, <2>3, <2>4
<1>3. CASE Launch({}, FALSE) /\ known = "closed" /\ known' = "live"
           /\ UNCHANGED <<final, due, heard, execution, shown>>
  <2>1. flight = {} /\ heard' \in {"none", "live", "ended"}
    BY <1>3 DEF ReadInv, TailTypeOK
  <2>2. TailTypeOK' /\ ReadInv' /\ AloneInv' /\ CoverInv'
    BY <1>3, <2>1, LaunchReads
  <2>3. SeenInv'
    BY <1>3 DEF SeenInv, execution
  <2>4. FinalInv'
    BY <1>1, <1>3, <2>1 DEF Launch, FinalInv, Covered, Split, execution, shown
  <2> QED BY <2>2, <2>3, <2>4
<1>4. CASE GoLive
  <2>1. /\ Launch(flight, FALSE) /\ final' = 0 /\ known' = "live" /\ heard' = "none"
        /\ UNCHANGED <<due, execution, shown>>
    BY <1>4 DEF GoLive
  <2>2. TailTypeOK' /\ ReadInv' /\ AloneInv' /\ CoverInv'
    BY <2>1, LaunchReads
  <2>3. SeenInv' /\ FinalInv'
    BY <2>1 DEF SeenInv, FinalInv
  <2> QED BY <2>2, <2>3
<1>5. CASE GoFinal
  <2> DEFINE asks == {a \in flight : a.kept}
  <2>1. /\ Launch(asks, TRUE) /\ final' = polls + 1 /\ due' = written
        /\ heard = "ended" /\ known' = "ended" /\ heard' = "none"
        /\ UNCHANGED <<execution, shown>>
    BY <1>5 DEF GoFinal, LaunchLast
  <2>2. asks \in SUBSET flight
    OBVIOUS
  <2> HIDE DEF asks
  <2>3. TailTypeOK' /\ ReadInv' /\ AloneInv' /\ CoverInv'
    BY <2>1, <2>2, LaunchReads
  <2>4. SeenInv'
    BY <2>1 DEF SeenInv, execution
  <2>5. FinalInv'
    <3>1. /\ \A a \in flight' : a.poll = polls + 1 => ~a.read
          /\ \E a \in flight' : a.poll = polls + 1
      <4> DEFINE new == [poll |-> polls + 1, from |-> offset, kept |-> TRUE,
                         read |-> FALSE, upto |-> 0]
      <4>1. flight' = asks \cup {new} /\ new.poll = polls + 1 /\ new.read = FALSE
        BY <2>1 DEF Launch
      <4> HIDE DEF new
      <4>2. \A a \in asks : a.poll # polls + 1
        BY <1>1, <2>2
      <4> QED BY <4>1, <4>2
    <3>2. \A a \in flight' : a.poll = final' /\ a.read => due' <= a.upto
      BY <2>1, <3>1
    <3>3. ~(\A a \in flight' : a.poll # final')
      BY <2>1, <3>1
    <3>4. due' = written'
      BY <2>1 DEF execution
    <3> QED BY <3>2, <3>3, <3>4 DEF FinalInv
  <2> QED BY <2>3, <2>4, <2>5
<1>6. CASE PollTick
  <2>1. /\ Launch(flight, FALSE) /\ known' = "live" /\ known = "live"
        /\ UNCHANGED <<heard, final, due, execution, shown>>
    BY <1>6 DEF PollTick, viewer
  <2>2. heard' \in {"none", "live", "ended"}
    BY <2>1 DEF TailTypeOK
  <2>3. TailTypeOK' /\ ReadInv' /\ AloneInv' /\ CoverInv'
    BY <2>1, <2>2, LaunchReads
  <2>4. SeenInv'
    BY <2>1 DEF SeenInv, execution
  <2>5. FinalInv'
    BY <1>1, <2>1 DEF Launch, FinalInv, Covered, Split, execution, shown
  <2> QED BY <2>3, <2>4, <2>5
<1> QED BY <1>2, <1>3, <1>4, <1>5, <1>6 DEF Open

(* The status is read, and tells the viewer nothing new.                   *)
LEMMA StatusKeeps ==
    ASSUME TailAssumption, TailInv, ReadStatus \/ LearnSame
    PROVE  TailInv'
<1> USE DEF TailInv
<1>1. /\ UNCHANGED <<execution, final, due, shown, flight, polls, overlap>>
      /\ heard' \in {"none", "live", "ended"}
      /\ known \in {"pending", "live", "ended"} /\ known' \in {"pending", "live", "ended"}
      /\ (heard' = "ended" => heard = "ended" \/ ~live)
      /\ (known' = "ended" => known = "ended" \/ heard = "ended")
  BY DEF ReadStatus, LearnSame, TailTypeOK
<1>2. UNCHANGED <<writer, written, live, early, offset, text, cuts>>
  BY <1>1 DEF execution, shown
<1>3. TailTypeOK'
  BY <1>1, <1>2 DEF TailTypeOK
<1>4. ReadInv' /\ AloneInv' /\ CoverInv' /\ FinalInv'
  BY <1>1, <1>2 DEF ReadInv, AloneInv, LogUpTo, CoverInv, Whole, Covered, Split, FinalInv
<1>5. SeenInv'
  BY <1>1, <1>2 DEF SeenInv
<1> QED BY <1>3, <1>4, <1>5

(* The server reads the file for a poll.                                   *)
LEMMA ReadKeeps ==
    ASSUME TailAssumption, TailInv, NEW a \in flight, ServerRead(a)
    PROVE  TailInv'
<1> USE DEF TailInv
<1> DEFINE b == [a EXCEPT !.read = TRUE, !.upto = ReadUpto(a)]
<1>1. a \in Ask /\ a.from <= written /\ written \in 0..MaxBytes
  BY DEF TailTypeOK, ReadInv
<1>2. ReadUpto(a) = written
  BY <1>1 DEF ReadUpto, Ask, TailAssumption
<1>3. /\ b \in Ask /\ b.poll = a.poll /\ b.from = a.from /\ b.read
      /\ b.upto = written
  BY <1>1, <1>2 DEF Ask
<1>4. /\ flight' = (flight \ {a}) \cup {b}
      /\ UNCHANGED <<writer, written, live, early, heard, known, final, due, offset,
                     text, cuts, polls, overlap>>
  BY DEF ServerRead, execution, viewer, shown
<1> HIDE DEF b
<1>5. TailTypeOK'
  BY <1>3, <1>4 DEF TailTypeOK
<1>6. ReadInv'
  BY <1>1, <1>3, <1>4 DEF ReadInv, TailAssumption
<1>7. AloneInv'
  BY <1>3, <1>4 DEF AloneInv, LogUpTo, Split
<1>8. CoverInv'
  BY <1>3, <1>4 DEF CoverInv, Whole, Covered, Split
<1>9. SeenInv'
  BY <1>4 DEF SeenInv
<1>10. FinalInv'
  BY <1>3, <1>4 DEF FinalInv, ReadInv, Covered, Split
<1> QED BY <1>5, <1>6, <1>7, <1>8, <1>9, <1>10

(* A poll is answered.                                                     *)
LEMMA AnswerKeeps ==
    ASSUME TailAssumption, TailInv, NEW a \in flight, Answer(a)
    PROVE  TailInv'
<1> USE DEF TailInv
<1>1. /\ a.read /\ text' = text \o ChunkRead(a.from, a.upto) /\ offset' = a.upto
      /\ cuts' = cuts \cup ({a.upto} \cap Joined) /\ flight' = flight \ {a}
      /\ UNCHANGED <<writer, written, live, early, heard, known, final, due, polls, overlap>>
  BY DEF Answer, NextOffset, execution, viewer
<1>2. /\ a \in Ask /\ a.from \in 0..MaxBytes /\ a.upto \in a.from..MaxBytes
      /\ a.upto \in 0..MaxBytes /\ a.upto <= written /\ written \in 0..MaxBytes
      /\ due \in Nat /\ due \in 0..MaxBytes
  BY <1>1 DEF TailTypeOK, ReadInv, Ask, TailAssumption
<1>3. /\ text' \in Seq(Byte \cup {0})
      /\ \A n \in 0..MaxBytes : Covered(n) => Covered(n)'
      /\ Whole(a.from) => Whole(a.upto)'
  BY <1>1, AnswerCovers
<1>4. TailTypeOK'
  BY <1>1, <1>2, <1>3 DEF TailTypeOK
<1>5. ReadInv'
  BY <1>1, <1>2 DEF ReadInv
<1>6. AloneInv'
  <2> SUFFICES ASSUME ~overlap PROVE AloneInv'
    BY <1>1 DEF AloneInv
  <2>1. /\ a.from = offset /\ text = LogUpTo(offset) /\ flight' = {}
        /\ \A i \in cuts : i <= offset
    BY <1>1 DEF AloneInv
  <2>2. text' = LogUpTo(a.upto)'
    <3>1. offset \in Joined => offset \in cuts
      BY DEF CoverInv, Whole
    <3> QED BY <1>1, <1>2, <2>1, <3>1, TextMeets
  <2>3. \A i \in cuts' : i <= a.upto
    <3>1. \A i \in cuts : i \in Nat /\ i <= a.from
      BY <2>1 DEF TailTypeOK, TailAssumption, Byte
    <3> QED BY <1>1, <1>2, <3>1
  <2>4. LogUpTo(offset)' = LogUpTo(a.upto)'
    BY <1>1 DEF LogUpTo
  <2> QED BY <1>1, <2>1, <2>2, <2>3, <2>4 DEF AloneInv
<1>7. CoverInv'
  <2>1. \A b \in flight' : Whole(b.from)'
    <3>1. \A b \in flight : b.from \in 0..MaxBytes /\ Whole(b.from)
      BY DEF CoverInv, TailTypeOK, Ask
    <3> QED BY <1>1, <1>3, <3>1 DEF Whole
  <2>2. Whole(a.upto)'
    BY <1>3 DEF CoverInv
  <2> QED BY <1>1, <2>1, <2>2 DEF CoverInv, Whole, Covered
<1>8. SeenInv'
  BY <1>1 DEF SeenInv
<1>9. FinalInv'
  <2> SUFFICES ASSUME final # 0 PROVE FinalInv'
    BY <1>1 DEF FinalInv
  <2>1. ASSUME \A b \in flight' : b.poll # final PROVE Covered(due)'
    <3>1. CASE a.poll = final
      <4>1. due <= a.upto /\ Covered(a.upto)'
        BY <1>1, <1>3, <3>1 DEF FinalInv, CoverInv, Whole
      <4> QED BY <1>1, <1>2, <4>1 DEF Covered
    <3>2. CASE a.poll # final
      <4>1. Covered(due)
        BY <1>1, <2>1, <3>2 DEF FinalInv
      <4>2. \A n \in 0..MaxBytes : Covered(n) => Covered(n)'
        BY <1>3
      <4> QED BY <1>1, <1>2, <4>1, <4>2 DEF Covered
    <3> QED BY <3>1, <3>2
  <2> QED BY <1>1, <2>1 DEF FinalInv
<1> QED BY <1>4, <1>5, <1>6, <1>7, <1>8, <1>9

(* A poll fails.                                                           *)
LEMMA FailureKeeps ==
    ASSUME TailAssumption, TailInv, NEW a \in flight, PollFails(a)
    PROVE  TailInv'
<1> USE DEF TailInv
<1>1. /\ flight' = flight \ {a} /\ final' = IF a.poll = final THEN 0 ELSE final
      /\ UNCHANGED <<writer, written, live, early, heard, known, due, offset, text,
                     cuts, polls, overlap>>
  BY DEF PollFails, execution, shown
<1>2. TailTypeOK'
  BY <1>1 DEF TailTypeOK
<1>3. ReadInv'
  BY <1>1 DEF ReadInv, TailTypeOK, TailAssumption
<1>4. AloneInv' /\ CoverInv'
  BY <1>1 DEF AloneInv, LogUpTo, CoverInv, Whole, Covered, Split
<1>5. SeenInv'
  BY <1>1 DEF SeenInv
<1>6. FinalInv'
  BY <1>1 DEF FinalInv, Covered, Split
<1> QED BY <1>2, <1>3, <1>4, <1>5, <1>6

LEMMA TailNextInv == ASSUME TailAssumption, TailInv, [TailNext]_tailVars PROVE TailInv'
<1>1. CASE WriterStarts \/ Write \/ CutShort \/ WriterEnds \/ Commit \/ KillEarly
  BY <1>1, WriterKeeps
<1>2. CASE Open \/ GoLive \/ GoFinal \/ PollTick
  BY <1>2, LaunchKeeps
<1>3. CASE ReadStatus \/ LearnSame
  BY <1>3, StatusKeeps
<1>4. ASSUME NEW a \in flight, ServerRead(a) PROVE TailInv'
  BY <1>4, ReadKeeps
<1>5. ASSUME NEW a \in flight, Answer(a) PROVE TailInv'
  BY <1>5, AnswerKeeps
<1>6. ASSUME NEW a \in flight, PollFails(a) PROVE TailInv'
  BY <1>6, FailureKeeps
<1>7. CASE UNCHANGED tailVars
  BY <1>7 DEF tailVars, execution, viewer, shown, TailInv, TailTypeOK, ReadInv, AloneInv,
              LogUpTo, CoverInv, Whole, Covered, Split, SeenInv, FinalInv
<1> QED BY <1>1, <1>2, <1>3, <1>4, <1>5, <1>6, <1>7 DEF TailNext

(* The invariant of LogTail.                                               *)
LEMMA TailInvariant == ASSUME TailAssumption PROVE TailSpec => []TailInv
<1>1. TailInit => TailInv
  BY TailInitInv
<1>2. TailInv /\ [TailNext]_tailVars => TailInv'
  BY TailNextInv
<1> QED BY <1>1, <1>2, PTL DEF TailSpec

(* The text shown is the log up to the offset, each byte once, unless      *)
(* polls overlapped; and once the last poll has answered nothing is missing*)
(* of what was in the log as it was made, nor of the whole log if the      *)
(* worker did not go on after a terminal status; but for characters cut by *)
(* the end of a read (useExecutionLogs, FileLogStore.read).                *)
THEOREM TextFaithfulHolds == ASSUME TailAssumption PROVE TailSpec => []TextFaithful
<1>1. TailSpec => []TailInv
  BY TailInvariant
<1>2. TailInv => TextFaithful
  BY DEF TailInv, AloneInv, LogUpTo, FinalInv, Covered, TextFaithful,
         DuplicatedOnlyByOverlap, FinalTextComplete
<1> QED BY <1>1, <1>2, PTL

-----------------------------------------------------------------------------
(* The report of a failure *)

(* Nothing is sent before the notification has read the row, and one post  *)
(* is under way while it posts.                                            *)
NoticeInv ==
    /\ notice \in {"none", "read"} => attempt = 0
    /\ notice = "post" => attempt \in Post
    /\ notice = "none" => cause # "cancelled"
    /\ notice # "none" => cause # "none"
    /\ notice \in {"read", "post"} => cause \in {"failed", "timeout"}
    /\ cause = "cancelled" => attempt = 0

(* Before the notification reads the row, its status tells how the worker  *)
(* ended, if no rival has written over it.                                 *)
RowInv ==
    /\ cause = "failed" /\ status = "killed" => rival = "overwrote"
    /\ cause = "timeout" => status \in {"killed", "absent"}
    /\ cause = "none" => status \in {"running", "absent"} /\ rival \in {"idle", "read"}

(* A post is handled once: it has no reply while it is on its way.         *)
WireInv ==
    \A n \in Post : /\ n \in wire => n <= attempt /\ reply[n] = "none"
                    /\ attempt < n => reply[n] = "none"

(* ClaimTrue alone is not inductive: the cause must not change any more,   *)
(* nor the rival's overwriting be undone.                                  *)
ReportInv == WebhookTypeOK /\ NoticeInv /\ RowInv /\ WireInv /\ ReportTruthful

LEMMA ReportInitInv == WebhookAssumption /\ WebhookInit => ReportInv
  BY DEF WebhookAssumption, WebhookInit, ReportInv, WebhookTypeOK, NoticeInv, RowInv,
         WireInv, ReportTruthful, ClaimTrue, GivenUpLast, Post

(* The steps of the worker and of the rival: no post is made or forgotten. *)
LEMMA ReportedRowSteps ==
    ASSUME ReportInv,
           \/ WorkerEnds \/ RivalReads \/ RivalCancels \/ RivalInterrupts
           \/ RivalSaves \/ CascadeRow \/ Schedule
    PROVE  ReportInv'
<1>1. WireInv'
  <2>1. UNCHANGED postVars
    BY DEF WorkerEnds, RivalReads, RivalCancels, RivalInterrupts, RivalSaves,
       CascadeRow, Schedule
  <2> QED BY <2>1 DEF ReportInv, WireInv, postVars
<1>2. CASE WorkerEnds
  <2>1. WebhookTypeOK' /\ NoticeInv' /\ RowInv'
    BY <1>2 DEF WorkerEnds, ReportInv, WebhookTypeOK, NoticeInv, RowInv, postVars, rowVars
  <2>2. ReportTruthful'
    BY <1>2 DEF WorkerEnds, ReportInv, NoticeInv, ReportTruthful, ClaimTrue, GivenUpLast,
       postVars, rowVars
  <2> QED BY <1>1, <2>1, <2>2 DEF ReportInv
<1>3. CASE RivalReads
  <2>1. WebhookTypeOK' /\ NoticeInv' /\ RowInv'
    BY <1>3 DEF RivalReads, ReportInv, WebhookTypeOK, NoticeInv, RowInv, postVars, rowVars
  <2>2. ReportTruthful'
    BY <1>3 DEF RivalReads, ReportInv, NoticeInv, ReportTruthful, ClaimTrue, GivenUpLast,
       postVars, rowVars
  <2> QED BY <1>1, <2>1, <2>2 DEF ReportInv
<1>4. CASE RivalCancels
  <2>1. WebhookTypeOK' /\ NoticeInv' /\ RowInv'
    BY <1>4 DEF RivalCancels, Spare, Overwrite, ReportInv, WebhookTypeOK, NoticeInv, RowInv, postVars, rowVars
  <2>2. ReportTruthful'
    BY <1>4 DEF RivalCancels, Spare, Overwrite, ReportInv, NoticeInv, ReportTruthful, ClaimTrue, GivenUpLast,
       postVars, rowVars
  <2> QED BY <1>1, <2>1, <2>2 DEF ReportInv
<1>5. CASE RivalInterrupts
  <2>1. WebhookTypeOK' /\ NoticeInv' /\ RowInv'
    BY <1>5 DEF RivalInterrupts, Spare, Overwrite, ReportInv, WebhookTypeOK, NoticeInv, RowInv, postVars, rowVars
  <2>2. ReportTruthful'
    BY <1>5 DEF RivalInterrupts, Spare, Overwrite, ReportInv, NoticeInv, ReportTruthful, ClaimTrue, GivenUpLast,
       postVars, rowVars
  <2> QED BY <1>1, <2>1, <2>2 DEF ReportInv
<1>6. CASE RivalSaves
  <2>1. WebhookTypeOK' /\ NoticeInv' /\ RowInv'
    BY <1>6 DEF RivalSaves, Overwrite, ReportInv, WebhookTypeOK, NoticeInv, RowInv, postVars, rowVars
  <2>2. ReportTruthful'
    BY <1>6 DEF RivalSaves, Overwrite, ReportInv, NoticeInv, ReportTruthful, ClaimTrue, GivenUpLast,
       postVars, rowVars
  <2> QED BY <1>1, <2>1, <2>2 DEF ReportInv
<1>7. CASE CascadeRow
  <2>1. WebhookTypeOK' /\ NoticeInv' /\ RowInv'
    BY <1>7 DEF CascadeRow, ReportInv, WebhookTypeOK, NoticeInv, RowInv, postVars, rowVars
  <2>2. ReportTruthful'
    BY <1>7 DEF CascadeRow, ReportInv, NoticeInv, ReportTruthful, ClaimTrue, GivenUpLast,
       postVars, rowVars
  <2> QED BY <1>1, <2>1, <2>2 DEF ReportInv
<1>8. CASE Schedule
  <2>1. WebhookTypeOK' /\ NoticeInv' /\ RowInv'
    BY <1>8 DEF Schedule, ReportInv, WebhookTypeOK, NoticeInv, RowInv, postVars, rowVars
  <2>2. ReportTruthful'
    BY <1>8 DEF Schedule, ReportInv, NoticeInv, ReportTruthful, ClaimTrue, GivenUpLast,
       postVars, rowVars
  <2> QED BY <1>1, <2>1, <2>2 DEF ReportInv
<1> QED BY <1>2, <1>3, <1>4, <1>5, <1>6, <1>7, <1>8

(* A turn of the loop ends, or begins another of those left.               *)
LEMMA NextAttemptInv ==
    ASSUME WebhookAssumption, ReportInv, notice = "post", NEW sent \in SUBSET wire,
           NextAttempt(sent), UNCHANGED <<url, rowVars, claim, reply>>
    PROVE  ReportInv'
<1>1. attempt \in Post /\ wire \in SUBSET Post /\ MaxPosts \in Nat
  BY DEF WebhookAssumption, ReportInv, WebhookTypeOK, NoticeInv
<1>2. /\ attempt' \in Post /\ wire' \in SUBSET Post
      /\ notice' \in {"post", "ended"}
      /\ notice' = "ended" => attempt' = MaxPosts
      /\ attempt <= attempt'
      /\ \A n \in wire' : n \in wire \/ (n = attempt' /\ attempt < n)
  <2>1. CASE MoreAttempts
    <3>1. /\ attempt' = attempt + 1 /\ attempt' \in Post
          /\ wire' = sent \cup {attempt'} /\ notice' = "post"
      BY <1>1, <2>1 DEF MoreAttempts, NextAttempt, Post
    <3> QED BY <1>1, <3>1 DEF Post
  <2>2. CASE ~MoreAttempts
    <3>1. attempt = MaxPosts
      BY <1>1, <2>2 DEF MoreAttempts, Post
    <3>2. attempt' = attempt /\ wire' = sent /\ notice' = "ended"
      BY <2>2 DEF NextAttempt
    <3> QED BY <1>1, <3>1, <3>2 DEF Post
  <2> QED BY <2>1, <2>2
<1>3. WebhookTypeOK'
  BY <1>2 DEF Post, ReportInv, WebhookTypeOK, rowVars
<1>4. NoticeInv' /\ RowInv' /\ ClaimTrue'
  BY <1>1, <1>2 DEF Post, ReportInv, NoticeInv, RowInv, ReportTruthful, ClaimTrue, rowVars
<1>5. WireInv'
  BY <1>1, <1>2 DEF Post, ReportInv, WireInv
<1> QED BY <1>2, <1>3, <1>4, <1>5 DEF ReportInv, ReportTruthful, GivenUpLast

(* The steps of the notification and of the receiver.                      *)
LEMMA NoticeSteps ==
    ASSUME WebhookAssumption, ReportInv,
           NotifyFailure \/ Receive \/ Respond \/ PostRaises \/ NoticeDies
    PROVE  ReportInv'
<1>1. CASE NotifyFailure
  <2>1. CASE status = "absent" \/ url = "unset"
    <3>1. /\ notice = "read" /\ notice' = "ended"
          /\ UNCHANGED <<url, status, cause, rival, claim, attempt, wire, reply>>
      BY <1>1, <2>1 DEF NotifyFailure, rowVars, postVars
    <3>2. attempt = 0
      BY <3>1 DEF ReportInv, NoticeInv
    <3> QED
      BY <3>1, <3>2 DEF ReportInv, WebhookTypeOK, NoticeInv, RowInv, WireInv,
         ReportTruthful, ClaimTrue, GivenUpLast
  <2>2. CASE ~(status = "absent" \/ url = "unset")
    <3>1. /\ notice = "read" /\ notice' = "post" /\ claim' = TimedOut
          /\ attempt' = 1 /\ wire' = {1}
          /\ UNCHANGED <<url, status, cause, rival, reply>>
          /\ status # "absent"
      BY <1>1, <2>2 DEF NotifyFailure, rowVars
    <3>2. /\ attempt = 0 /\ cause \in {"failed", "timeout"}
      BY <3>1 DEF ReportInv, NoticeInv
    <3>3. 1 \in Post /\ MaxPosts \in Nat
      BY DEF WebhookAssumption, Post
    <3>4. WebhookTypeOK'
      BY <3>1, <3>3 DEF TimedOut, Post, ReportInv, WebhookTypeOK
    <3>5. NoticeInv' /\ RowInv'
      BY <3>1, <3>2, <3>3 DEF ReportInv, NoticeInv, RowInv
    <3>6. WireInv'
      BY <3>1, <3>2, <3>3 DEF Post, ReportInv, WireInv
    <3>7. ClaimTrue'
      BY <3>1, <3>2 DEF TimedOut, ReportInv, WebhookTypeOK, RowInv, ClaimTrue
    <3> QED BY <3>1, <3>4, <3>5, <3>6, <3>7 DEF ReportInv, ReportTruthful, GivenUpLast
  <2> QED BY <2>1, <2>2
<1>2. CASE Receive
  <2>1. PICK n \in wire, r \in Reply :
          wire' = wire \ {n} /\ reply' = [reply EXCEPT ![n] = r]
    BY <1>2 DEF Receive
  <2>2. WebhookTypeOK' /\ NoticeInv' /\ RowInv' /\ ClaimTrue'
    BY <1>2, <2>1 DEF Receive, ReportInv, WebhookTypeOK, NoticeInv, RowInv,
       ReportTruthful, ClaimTrue, rowVars
  <2>3. n \in Post /\ reply[n] = "none" /\ n <= attempt
    BY <2>1 DEF ReportInv, WebhookTypeOK, WireInv
  <2>4. WireInv'
    BY <1>2, <2>1, <2>3 DEF Receive, ReportInv, WebhookTypeOK, WireInv, Post, rowVars
  <2>5. GivenUpLast'
    <3> SUFFICES ASSUME notice = "ended", attempt > 0, attempt # MaxPosts
                 PROVE  reply'[attempt] \in {"below 400", "4xx"}
      BY <1>2 DEF Receive, GivenUpLast
    <3>1. reply[attempt] \in {"below 400", "4xx"}
      BY DEF ReportInv, ReportTruthful, GivenUpLast
    <3>2. n # attempt
      BY <2>3, <3>1 DEF WebhookAssumption, Reply
    <3>3. attempt \in Post /\ reply \in [Post -> Reply \cup {"none"}]
      BY DEF WebhookAssumption, ReportInv, WebhookTypeOK, Post
    <3> QED BY <2>1, <3>1, <3>2, <3>3
  <2> QED BY <2>2, <2>4, <2>5 DEF ReportInv, ReportTruthful
<1>3. CASE Respond
  <2>1. CASE reply[attempt] = "5xx"
    BY <1>3, <2>1, NextAttemptInv DEF Respond, ReportInv, WebhookTypeOK
  <2>2. CASE reply[attempt] # "5xx"
    <3>1. reply[attempt] \in {"below 400", "4xx"}
      BY <1>3, <2>2 DEF Respond, ReportInv, WebhookTypeOK, NoticeInv, Reply
    <3> QED
      BY <1>3, <2>2, <3>1 DEF Respond, ReportInv, WebhookTypeOK,
         NoticeInv, RowInv, WireInv, ReportTruthful, ClaimTrue, GivenUpLast, rowVars
  <2> QED BY <2>1, <2>2
<1>4. CASE PostRaises
  <2>1. PICK sent \in {wire, wire \ {attempt}} : NextAttempt(sent)
    BY <1>4 DEF PostRaises
  <2> QED BY <1>4, <2>1, NextAttemptInv DEF PostRaises
<1>5. CASE NoticeDies
  BY <1>5 DEF NoticeDies, ReportInv, WebhookTypeOK, NoticeInv, RowInv, WireInv, ReportTruthful,
     ClaimTrue, GivenUpLast, postVars, rowVars
<1> QED BY <1>1, <1>2, <1>3, <1>4, <1>5

(* The invariant of Webhook.                                               *)
LEMMA ReportInvariant == ASSUME WebhookAssumption PROVE WebhookSpec => []ReportInv
<1>1. WebhookInit => ReportInv
  BY ReportInitInv
<1>2. ReportInv /\ [WebhookNext]_webhookVars => ReportInv'
  <2> SUFFICES ASSUME ReportInv, [WebhookNext]_webhookVars PROVE ReportInv'
    OBVIOUS
  <2>1. CASE WebhookNext
    BY <2>1, ReportedRowSteps, NoticeSteps DEF WebhookNext
  <2>2. CASE UNCHANGED webhookVars
    <3>1. UNCHANGED <<url, rowVars, notice, postVars>>
      BY <2>2 DEF webhookVars, rowVars, postVars
    <3>2. WebhookTypeOK' /\ NoticeInv' /\ RowInv' /\ WireInv' /\ ClaimTrue'
      BY <3>1 DEF ReportInv, WebhookTypeOK, NoticeInv, RowInv, WireInv, ReportTruthful,
         ClaimTrue, rowVars, postVars
    <3>3. GivenUpLast'
      BY <3>1 DEF ReportInv, ReportTruthful, GivenUpLast, rowVars, postVars
    <3> QED BY <3>2, <3>3 DEF ReportInv, ReportTruthful
  <2> QED BY <2>1, <2>2
<1> QED BY <1>1, <1>2, PTL DEF WebhookSpec

(* Whatever the number of attempts, `timed_out` is true of the execution   *)
(* but for the race with kill_previous, and no report is given up early    *)
(* (_build_payload, _post_with_retry).                                     *)
THEOREM ReportTruthfulHolds ==
    ASSUME WebhookAssumption PROVE WebhookSpec => []ReportTruthful
<1>1. WebhookSpec => []ReportInv
  BY ReportInvariant
<1>2. ReportInv => ReportTruthful
  BY DEF ReportInv
<1> QED BY <1>1, <1>2, PTL
=============================================================================
