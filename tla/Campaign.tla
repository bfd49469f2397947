------------------------------ MODULE Campaign ------------------------------
(***************************************************************************)
(* The result files of a benchmark campaign (main in                       *)
(* benchmarks/run_mpc_stage_raw.py): one launch after the other over the   *)
(* same files, the later ones with --resume or not.  A launch runs repeat  *)
(* after repeat, writes the rows of each into the buffers of several files *)
(* and flushes these one by one.  It may be killed, which loses what is in *)
(* the buffers, or interrupted, which closes the files in order.           *)
(*                                                                         *)
(* A repeat is its key (n, d, repeat_id), numbered in the order of the     *)
(* loops; all launches are given the same options.  Of a row matters the   *)
(* repeat, the file, and whether the attempt it is about succeeded.        *)
(***************************************************************************)
EXTENDS Naturals, Sequences, FiniteSets

CONSTANTS
  Repeats,     \* keys of the campaign
  StageRows,   \* batch rows of one attempt
  MayFail,     \* bound: repeats whose attempts may fail
  MaxLaunches  \* bound

Key == 1..Repeats

ASSUME CampaignAssumption ==
  Repeats \in Nat /\ StageRows \in Nat \ {0} /\ MayFail \subseteq Key /\ MaxLaunches \in Nat

File == {"batch", "count", "comm", "summary"}

Order_CountsFirst == <<"count", "batch", "comm", "summary">>
Order_CommFirst == <<"batch", "comm", "count", "summary">>

\* The order in which files are opened, written, flushed and closed.
Order == <<"batch", "count", "comm", "summary">>

Outcome == {"ok", "failed"}

\* Rows of an attempt in a file: stage_summary has none for one that failed.
Rows(f, x) ==
  IF f = "batch" THEN StageRows ELSE IF f = "summary" /\ x = "failed" THEN 0 ELSE 1

VARIABLES
  phase,      \* what the launch is doing, "off" between launches
  pos,        \* place in Order
  repeat,     \* the repeat the loops are at
  completed,  \* completed_keys
  outcome,    \* of the attempt
  buffer,     \* buffer[f]: rows of the attempt that are not in the file yet
  disk,       \* disk[f][k][x]: rows in file f of attempts of k with outcome x
  launches,   \* launches so far
  ended,      \* launches that were killed or interrupted
  cut,        \* a launch was killed while it emptied or created the files, and no
              \* fresh one has got past that since
  header      \* the count file: "none" yet, its header "lost", or "there"

vars == <<phase, pos, repeat, completed, outcome, buffer, disk, launches, ended, cut, header>>

NoRows == [k \in Key |-> [x \in Outcome |-> 0]]
Empty == [f \in File |-> 0]

\* What a reader finds: without the header it takes the first row for it.
Counted(k) == header = "there" /\ disk["count"][k]["ok"] > 0

Init ==
  /\ phase = "off" /\ pos = 1 /\ repeat = 1
  /\ completed = {} /\ outcome = "failed"
  /\ buffer = Empty
  /\ disk = [f \in File |-> NoRows]
  /\ launches = 0 /\ ended = 0 /\ cut = FALSE /\ header = "none"

-----------------------------------------------------------------------------
(* Starting.                                                               *)

\* Before rows are kept apart by their success: keys with any batch row.
CompletedKeys_AnyRow == {k \in Key : disk["batch"][k] # NoRows[k]}
CompletedKeys_None == {}

\* _completed_count_keys
CompletedKeys == {k \in Key : Counted(k)}

Launch(resume) ==
  /\ phase = "off"
  /\ launches < MaxLaunches
  /\ launches' = launches + 1
  /\ phase' = IF resume THEN "pruning" ELSE "opening"
  /\ completed' = IF resume THEN CompletedKeys ELSE {}
  /\ pos' = 1 /\ repeat' = 1
  /\ UNCHANGED <<outcome, buffer, disk, ended, cut, header>>

\* _prune_batch_rows_to_completed_counts: what is kept is written to another file,
\* which then replaces the batch file.  Files that do not exist are created with
\* their header, and all are opened to append.
Prune ==
  /\ phase = "pruning"
  /\ disk' = [disk EXCEPT !["batch"] =
                [k \in Key |-> IF k \in completed THEN @[k] ELSE NoRows[k]]]
  /\ header' = IF header = "none" THEN "there" ELSE header
  /\ phase' = "ready"
  /\ UNCHANGED <<pos, repeat, completed, outcome, buffer, launches, ended, cut>>

\* _open_writer truncates the file and writes its header.
OpenWriter ==
  /\ phase = "opening"
  /\ disk' = [disk EXCEPT ![Order[pos]] = NoRows]
  /\ header' = IF Order[pos] = "count" THEN "there" ELSE header
  /\ IF pos = Len(Order)
     THEN phase' = "ready" /\ pos' = 1 /\ cut' = FALSE
     ELSE pos' = pos + 1 /\ UNCHANGED <<phase, cut>>
  /\ UNCHANGED <<repeat, completed, outcome, buffer, launches, ended>>

-----------------------------------------------------------------------------
(* The loops over n, depth and repeat.                                     *)

Skip ==
  /\ phase = "ready"
  /\ repeat \in completed
  /\ repeat' = repeat + 1
  /\ UNCHANGED <<phase, pos, completed, outcome, buffer, disk, launches, ended, cut, header>>

\* _run_one_repeat; one that raises leaves the rows of a failed attempt.
RunOneRepeat(x) ==
  /\ phase = "ready"
  /\ repeat \in Key \ completed
  /\ x = "failed" => repeat \in MayFail
  /\ outcome' = x
  /\ phase' = "writing" /\ pos' = 1
  /\ UNCHANGED <<repeat, completed, buffer, disk, launches, ended, cut, header>>

\* writerow and writerows of one writer.
Write ==
  /\ phase = "writing"
  /\ buffer' = [buffer EXCEPT ![Order[pos]] = Rows(Order[pos], outcome)]
  /\ IF pos = Len(Order)
     THEN /\ phase' = "flushing" /\ pos' = 1
          /\ completed' = IF outcome = "ok" THEN completed \union {repeat} ELSE completed
     ELSE pos' = pos + 1 /\ UNCHANGED <<phase, completed>>
  /\ UNCHANGED <<repeat, outcome, disk, launches, ended, cut, header>>

\* Rows leave a buffer for the file.
Out(f, m) ==
  /\ buffer' = [buffer EXCEPT ![f] = @ - m]
  /\ disk' = [disk EXCEPT ![f][repeat][outcome] = @ + m]

\* The rows of the stages outgrow the buffer of their file, so some are written
\* before it is flushed; the single rows of the other files do not.
Spill ==
  /\ phase \in {"writing", "flushing", "closing"}
  /\ buffer["batch"] > 0
  /\ Out("batch", 1)
  /\ UNCHANGED <<phase, pos, repeat, completed, outcome, launches, ended, cut, header>>

\* flush of one file after the other.
Flush ==
  /\ phase = "flushing"
  /\ Out(Order[pos], buffer[Order[pos]])
  /\ IF pos = Len(Order)
     THEN phase' = "ready" /\ pos' = 1 /\ repeat' = repeat + 1
     ELSE pos' = pos + 1 /\ UNCHANGED <<phase, repeat>>
  /\ UNCHANGED <<completed, outcome, launches, ended, cut, header>>

-----------------------------------------------------------------------------
(* The end of a launch.                                                    *)

\* The loops are over; nothing is left to write when the files are closed.
Finish ==
  /\ phase = "ready"
  /\ repeat > Repeats
  /\ phase' = "off"
  /\ UNCHANGED <<pos, repeat, completed, outcome, buffer, disk, launches, ended, cut, header>>

\* An exception that the loop over repeats does not catch, while it runs one,
\* writes (and a part of the rows has been handed over) or flushes.
Interrupt ==
  /\ phase \in {"ready", "writing", "flushing"}
  /\ \E m \in IF phase = "writing" THEN 0..Rows(Order[pos], outcome) ELSE {buffer[Order[pos]]} :
       buffer' = [buffer EXCEPT ![Order[pos]] = m]
  /\ phase' = "closing" /\ pos' = 1
  /\ ended' = ended + 1
  /\ UNCHANGED <<repeat, completed, outcome, disk, launches, cut, header>>

\* The finally clause: close writes what the buffer holds.
Close ==
  /\ phase = "closing"
  /\ IF buffer[Order[pos]] = 0 THEN UNCHANGED <<buffer, disk>>
     ELSE Out(Order[pos], buffer[Order[pos]])
  /\ IF pos = Len(Order) THEN phase' = "off" /\ pos' = 1
     ELSE pos' = pos + 1 /\ UNCHANGED phase
  /\ UNCHANGED <<repeat, completed, outcome, launches, ended, cut, header>>

\* The process is killed: the buffers are lost.
Crash ==
  /\ phase # "off"
  /\ phase' = "off"
  /\ buffer' = Empty
  /\ ended' = ended + 1
  /\ IF phase = "opening" /\ pos > 1 THEN cut' = TRUE ELSE UNCHANGED cut
  /\ UNCHANGED <<pos, repeat, completed, outcome, disk, launches, header>>

\* The process is killed between opening the count file, which empties or creates
\* it, and the header's way to the disk.  By then the batch file has no rows.
CrashInHeader ==
  /\ \/ phase = "opening" /\ Order[pos] = "count"
     \/ phase = "pruning" /\ header = "none"
  /\ phase' = "off"
  /\ disk' = [disk EXCEPT !["batch"] = NoRows, !["count"] = NoRows]
  /\ header' = "lost" /\ cut' = TRUE
  /\ ended' = ended + 1
  /\ UNCHANGED <<pos, repeat, completed, outcome, buffer, launches>>

Next ==
  \/ \E resume \in BOOLEAN : Launch(resume)
  \/ Prune
  \/ OpenWriter
  \/ Skip
  \/ \E x \in Outcome : RunOneRepeat(x)
  \/ Write
  \/ Spill
  \/ Flush
  \/ Finish
  \/ Interrupt
  \/ Close
  \/ Crash
  \/ CrashInHeader

Spec == Init /\ [][Next]_vars

-----------------------------------------------------------------------------
(* Properties.                                                             *)

\* The files as they are between a fresh launch and its first repeat, or after
\* it ended there, are of no campaign; nor are those of which a launch that was
\* killed has left one without a header.
Whole == ~cut /\ phase # "opening"

\* A repeat that counts as done, and that --resume will not run again, has all
\* its batch rows, and no rows of an attempt that failed or was cut short.
CountedHasRows ==
  Whole => \A k \in Key : Counted(k) =>
    disk["batch"][k] = [x \in Outcome |-> IF x = "ok" THEN StageRows ELSE 0]

\* A repeat that succeeded is not run again, however often the campaign is
\* resumed: no file has the rows of two successful attempts.
NothingRunTwice ==
  Whole => \A k \in Key : disk["count"][k]["ok"] <= 1

\* Each attempt that is counted has its row of communication cost, but for one
\* at most per launch that ended early; a cost without its count is never left.
\* (--resume does not add the missing rows.)
Uncosted ==
  {a \in Key \X Outcome : disk["comm"][a[1]][a[2]] # disk["count"][a[1]][a[2]]}

CostsFollowCounts ==
  Whole =>
    /\ \A k \in Key, x \in Outcome : disk["comm"][k][x] <= disk["count"][k][x]
    /\ phase = "off" => Cardinality(Uncosted) <= ended

\* A launch that runs to its end leaves no repeat out, whatever earlier launches
\* left of it, except those that failed.  (Of a file whose header is lost nothing
\* counts, however often it is resumed.)
AllCounted ==
  phase = "ready" /\ repeat > Repeats /\ header # "lost" =>
    \A k \in Key \ MayFail : Counted(k)
=============================================================================
