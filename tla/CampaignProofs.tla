--------------------------- MODULE CampaignProofs ---------------------------
(***************************************************************************)
(* Theorems about module Campaign, for any number of repeats, of batch     *)
(* rows and of launches, whichever repeats fail.                           *)
(***************************************************************************)
EXTENDS Campaign, FiniteSetTheorems, TLAPS

Phase == {"off", "pruning", "opening", "ready", "writing", "flushing", "closing"}
Table == [Key -> [Outcome -> Nat]]

Typed ==
  /\ phase \in Phase
  /\ pos \in 1..4
  /\ repeat \in Nat \ {0}
  /\ completed \subseteq Key
  /\ outcome \in Outcome
  /\ buffer \in [File -> Nat]
  /\ disk \in [File -> Table]

\* What is in the buffers: nothing between attempts, and only what a launch has
\* not flushed or closed yet.
Buffers ==
  /\ phase \in {"off", "pruning", "opening", "ready"} => buffer = Empty
  /\ phase \in {"writing", "flushing"} => repeat \in Key
  /\ phase = "writing" => \A i \in pos..4 : buffer[Order[i]] = 0
  /\ phase \in {"flushing", "closing"} => \A i \in 1..(pos - 1) : buffer[Order[i]] = 0
  /\ phase = "closing" /\ buffer # Empty => repeat \in Key

Absent(k) == disk["batch"][k]["ok"] = 0 /\ disk["batch"][k]["failed"] = 0
Present(k) == disk["batch"][k]["ok"] = StageRows /\ disk["batch"][k]["failed"] = 0

\* Buffer and file together have all batch rows of the attempt.
AllThere ==
  /\ disk["batch"][repeat][outcome] + buffer["batch"] = StageRows
  /\ \A x \in Outcome \ {outcome} : disk["batch"][repeat][x] = 0

\* Before a fresh launch has truncated the first file, the files are those of
\* the launch before.
Opening ==
  phase = "opening" =>
    completed = {} /\ repeat = 1 /\ \A i \in 1..(pos - 1) : disk[Order[i]] = NoRows

Kept == ~cut /\ (phase = "opening" => pos = 1)

\* Counted repeats have their rows, and the others none once they are to be run.
Files ==
  /\ \A k \in Key : Counted(k) => Present(k) /\ disk["count"][k]["ok"] <= 1
  /\ phase = "pruning" => completed = CompletedKeys
  /\ phase \in {"ready", "writing", "flushing"} =>
       /\ \A k \in Key : Counted(k) => k \in completed
       /\ \A k \in Key \ completed :
            k > repeat \/ (k = repeat /\ phase = "ready") => Absent(k)

\* What is known of the repeat whose rows are being written.
Attempt ==
  /\ phase = "writing" => ~Counted(repeat) /\ repeat \notin completed
  /\ phase = "writing" /\ pos = 1 => Absent(repeat)
  /\ phase = "writing" /\ pos > 1 => AllThere
  /\ phase = "flushing" => AllThere /\ (outcome = "ok" => repeat \in completed)
  /\ phase = "flushing" /\ pos <= 2 => ~Counted(repeat)
  /\ buffer["batch"] > 0 => ~Counted(repeat)
  /\ buffer["count"] > 0 => AllThere /\ ~Counted(repeat) /\ buffer["count"] = 1

Core == Typed /\ Buffers /\ Opening /\ (Kept => Files /\ Attempt)

\* The count file exists once its rows may be written, and its header is lost
\* only to a kill.
Headed ==
  /\ header \in {"none", "lost", "there"}
  /\ header = "none" => disk["count"] = NoRows /\ phase \in {"off", "pruning", "opening"}
  /\ phase = "opening" /\ pos > 2 => header = "there"
  /\ header = "lost" => cut

IInv == Core /\ Headed

-----------------------------------------------------------------------------
LEMMA OrderFacts ==
  /\ Len(Order) = 4
  /\ Order[1] = "batch" /\ Order[2] = "count" /\ Order[3] = "comm" /\ Order[4] = "summary"
  /\ \A i \in 1..4 : Order[i] \in File
  /\ \A f \in File : \E i \in 1..4 : f = Order[i]
  /\ \A i, j \in 1..4 : i # j => Order[i] # Order[j]
BY DEF Order, File

LEMMA RowsFacts ==
  \A f \in File, g \in Outcome :
    Rows(f, g) \in Nat /\ Rows("batch", g) = StageRows /\ Rows("count", g) = 1
BY CampaignAssumption DEF Rows

LEMMA EmptyIs == Empty \in [File -> Nat] /\ \A f \in File : Empty[f] = 0
BY DEF Empty

LEMMA NoRowsIs == NoRows \in Table /\ \A k \in Key : NoRows[k]["ok"] = 0 /\ NoRows[k]["failed"] = 0
BY DEF NoRows, Table, Outcome

\* What moving rows from a buffer to its file does.
LEMMA OutFacts ==
  ASSUME Typed, repeat \in Key, NEW f \in File, NEW m \in Nat, m <= buffer[f], Out(f, m)
  PROVE  /\ buffer' \in [File -> Nat] /\ disk' \in [File -> Table]
         /\ buffer'[f] = buffer[f] - m
         /\ disk'[f][repeat][outcome] = disk[f][repeat][outcome] + m
         /\ \A x \in Outcome \ {outcome} : disk'[f][repeat][x] = disk[f][repeat][x]
         /\ \A k \in Key \ {repeat} : disk'[f][k] = disk[f][k]
         /\ \A h \in File \ {f} : buffer'[h] = buffer[h] /\ disk'[h] = disk[h]
<1>1. /\ buffer \in [File -> Nat] /\ disk \in [File -> Table] /\ outcome \in Outcome
      /\ buffer[f] - m \in Nat
  BY DEF Typed
<1>2. disk[f] \in Table /\ disk[f][repeat] \in [Outcome -> Nat]
  BY <1>1 DEF Table
<1> DEFINE row == [disk[f][repeat] EXCEPT ![outcome] = @ + m]
           tab == [disk[f] EXCEPT ![repeat] = row]
<1>3. row \in [Outcome -> Nat]
  BY <1>1, <1>2
<1>4. tab \in Table
  BY <1>2, <1>3 DEF Table
<1>5. disk' = [disk EXCEPT ![f] = tab] /\ buffer' = [buffer EXCEPT ![f] = @ - m]
  BY DEF Out
<1>6. row[outcome] = disk[f][repeat][outcome] + m /\ \A x \in Outcome \ {outcome} : row[x] = disk[f][repeat][x]
  BY <1>1, <1>2
<1>7. tab[repeat] = row /\ \A k \in Key \ {repeat} : tab[k] = disk[f][k]
  BY <1>2 DEF Table
<1> HIDE DEF row, tab
<1> QED BY <1>1, <1>4, <1>5, <1>6, <1>7

-----------------------------------------------------------------------------
(* Each step keeps the invariant.                                          *)

LEMMA InitInv == Init => IInv
<1> SUFFICES ASSUME Init PROVE IInv
  OBVIOUS
<1>1. Typed
  BY EmptyIs, NoRowsIs DEF Init, Typed, Phase, Outcome
<1>2. Buffers /\ Opening
  BY DEF Init, Buffers, Opening
<1>3. \A k \in Key : ~Counted(k)
  BY NoRowsIs DEF Init, Counted, File
<1>4. buffer["batch"] = 0 /\ buffer["count"] = 0
  BY EmptyIs DEF Init, File
<1>5. Files /\ Attempt
  BY <1>3, <1>4 DEF Init, Files, Attempt
<1>6. Headed
  BY NoRowsIs DEF Init, Headed, File
<1> QED BY <1>1, <1>2, <1>5, <1>6 DEF IInv, Core

LEMMA LaunchStep ==
  ASSUME IInv, NEW resume \in BOOLEAN, Launch(resume)
  PROVE  Core'
<1>0. header' = header
  BY DEF Launch
<1>1. Typed' /\ Buffers' /\ Opening'
  BY DEF IInv, Core, Launch, Typed, Phase, Buffers, Opening, CompletedKeys
<1>2. ASSUME Kept' PROVE Files' /\ Attempt'
  <2>1. Files /\ buffer = Empty /\ disk' = disk /\ buffer' = buffer
    BY <1>2 DEF IInv, Core, Launch, Kept, Buffers
  <2>2. phase' \in {"pruning", "opening"} /\ (phase' = "pruning" => completed' = CompletedKeys)
    BY DEF Launch
  <2>3. Files'
    BY <1>0, <2>1, <2>2 DEF Files, Counted, Present, CompletedKeys
  <2>4. Attempt'
    BY <2>1, <2>2, EmptyIs DEF Attempt, File
  <2> QED BY <2>3, <2>4
<1> QED BY <1>1, <1>2 DEF Core

LEMMA PruneStep ==
  ASSUME IInv, Prune
  PROVE  Core'
<1>0. IF header = "none" THEN disk["count"] = NoRows /\ header' = "there" ELSE header' = header
  BY DEF IInv, Headed, Prune
<1>1. /\ disk["batch"] \in Table
      /\ disk'["batch"] = [k \in Key |-> IF k \in completed THEN disk["batch"][k] ELSE NoRows[k]]
      /\ \A f \in File \ {"batch"} : disk'[f] = disk[f]
  BY DEF IInv, Core, Typed, Prune, File
<1>2. disk' \in [File -> Table]
  <2>1. disk'["batch"] \in Table
    BY <1>1, NoRowsIs DEF Table
  <2> QED BY <1>1, <2>1 DEF IInv, Core, Typed, Prune
<1>3. Typed' /\ Buffers' /\ Opening'
  BY <1>2 DEF IInv, Core, Prune, Typed, Phase, Buffers, Opening
<1>4. ASSUME Kept' PROVE Files' /\ Attempt'
  <2>1. Files /\ completed = CompletedKeys
    BY <1>4 DEF IInv, Core, Prune, Kept, Files
  <2>2. \A k \in Key : (Counted(k) <=> k \in completed) /\ (Counted(k)' <=> Counted(k))
    BY <1>0, <1>1, <2>1, NoRowsIs DEF CompletedKeys, Counted, File
  <2>3. \A k \in Key : IF k \in completed THEN disk'["batch"][k] = disk["batch"][k]
                                          ELSE Absent(k)'
    BY <1>1, NoRowsIs DEF Absent
  <2>4. Files'
    BY <1>1, <2>1, <2>2, <2>3 DEF Prune, Files, Present, File
  <2>5. Attempt'
    BY <1>3, EmptyIs DEF Prune, Attempt, Buffers, File
  <2> QED BY <2>4, <2>5
<1> QED BY <1>3, <1>4 DEF Core

LEMMA OpenStep ==
  ASSUME IInv, OpenWriter
  PROVE  Core'
<1>1. disk' \in [File -> Table]
  BY NoRowsIs, OrderFacts DEF IInv, Core, Typed, OpenWriter
<1>2. Typed'
  <2>1. pos' \in 1..4 /\ phase' \in Phase 
    BY OrderFacts DEF IInv, Core, OpenWriter, Typed, Phase
  <2> QED BY <1>1, <2>1 DEF IInv, Core, OpenWriter, Typed
<1>3. Buffers'
  BY OrderFacts DEF IInv, Core, OpenWriter, Buffers
<1>4. \A i \in 1..pos : disk'[Order[i]] = NoRows
  BY OrderFacts DEF IInv, Core, OpenWriter, Typed, Opening
<1>5. Opening'
  BY <1>4, OrderFacts DEF IInv, Core, OpenWriter, Typed, Opening
<1>6. ASSUME Kept' PROVE Files' /\ Attempt'
  <2>1. pos = 4 /\ phase' = "ready" /\ completed' = {} /\ repeat' = 1
    BY <1>6, OrderFacts DEF IInv, Core, OpenWriter, Kept, Opening, Typed
  <2>2. disk'["batch"] = NoRows /\ disk'["count"] = NoRows
    BY <1>4, <2>1, OrderFacts
  <2>3. Files'
    <3>1. \A k \in Key : ~Counted(k)' /\ Absent(k)'
      BY <2>2, NoRowsIs DEF Counted, Absent
    <3> QED BY <2>1, <3>1 DEF Files
  <2>4. Attempt'
    BY <1>3, <2>1, EmptyIs DEF Attempt, Buffers, File
  <2> QED BY <2>3, <2>4
<1> QED BY <1>2, <1>3, <1>5, <1>6 DEF Core

LEMMA SkipStep ==
  ASSUME IInv, Skip
  PROVE  Core'
<1>0. header' = header
  BY DEF Skip
<1>1. Typed' /\ Buffers' /\ Opening'
  BY DEF IInv, Core, Skip, Typed, Buffers, Opening
<1>2. ASSUME Kept' PROVE Files' /\ Attempt'
  <2>1. Files'
    <3>1. Files /\ phase = "ready" /\ phase' = "ready" /\ repeat \in completed
      BY <1>2 DEF IInv, Core, Skip, Kept
    <3>2. completed' = completed /\ repeat' = repeat + 1 /\ disk' = disk
      BY DEF Skip
    <3>3. \A k \in Key : k > repeat' \/ k = repeat' => k > repeat
      BY <3>2, CampaignAssumption DEF IInv, Core, Typed, Key
    <3> QED BY <1>0, <3>1, <3>2, <3>3 DEF Files, Counted, Absent, Present
  <2>2. Attempt'
    BY <1>1, EmptyIs DEF Skip, Attempt, Buffers, File
  <2> QED BY <2>1, <2>2
<1> QED BY <1>1, <1>2 DEF Core

LEMMA RunStep ==
  ASSUME IInv, NEW x \in Outcome, RunOneRepeat(x)
  PROVE  Core'
<1>0. header' = header
  BY DEF RunOneRepeat
<1>1. Typed' /\ Opening'
  BY DEF IInv, Core, RunOneRepeat, Typed, Phase, Opening
<1>2. Buffers'
  BY EmptyIs, OrderFacts DEF IInv, Core, RunOneRepeat, Buffers
<1>3. ASSUME Kept' PROVE Files' /\ Attempt'
  <2>1. buffer["batch"] = 0 /\ buffer["count"] = 0
    BY EmptyIs DEF IInv, Core, RunOneRepeat, Buffers, File
  <2>2. Files /\ repeat \in Key \ completed /\ phase = "ready"
    BY <1>3 DEF IInv, Core, RunOneRepeat, Kept
  <2>3. /\ phase' = "writing" /\ pos' = 1 /\ completed' = completed /\ repeat' = repeat
        /\ buffer' = buffer /\ disk' = disk
    BY DEF RunOneRepeat
  <2>4. Files'
    BY <1>0, <2>2, <2>3 DEF Files, Counted, Present, Absent
  <2>5. Attempt'
    BY <1>0, <2>1, <2>2, <2>3 DEF Files, Attempt, Counted, Absent
  <2> QED BY <2>4, <2>5
<1> QED BY <1>1, <1>2, <1>3 DEF Core

LEMMA WriteStep ==
  ASSUME IInv, Write
  PROVE  Core'
<1>0. header' = header
  BY DEF Write
<1>1. /\ repeat \in Key /\ pos \in 1..4 /\ Order[pos] \in File
      /\ buffer' \in [File -> Nat] /\ buffer'[Order[pos]] = Rows(Order[pos], outcome)
      /\ \A f \in File \ {Order[pos]} : buffer'[f] = buffer[f]
      /\ disk' = disk /\ repeat' = repeat /\ outcome' = outcome
  BY RowsFacts, OrderFacts DEF IInv, Core, Write, Typed, Buffers
<1>2. Typed'
  <2>1. pos' \in 1..4 /\ phase' \in Phase /\ completed' \subseteq Key
    <3>1. pos' = IF pos = 4 THEN 1 ELSE pos + 1
      BY OrderFacts DEF Write
    <3>2. phase' \in {"writing", "flushing"} /\ completed' \in {completed, completed \union {repeat}}
      BY DEF Write
    <3>3. completed \subseteq Key
      BY DEF IInv, Core, Typed
    <3> QED BY <1>1, <3>1, <3>2, <3>3 DEF Phase
  <2> QED BY <1>1, <2>1 DEF IInv, Core, Write, Typed
<1>3. Buffers'
  BY <1>1, OrderFacts DEF IInv, Core, Write, Buffers
<1>4. Opening'
  BY DEF IInv, Core, Write, Opening
<1>5. ASSUME Kept' PROVE Files' /\ Attempt'
  <2>1. Files /\ Attempt /\ phase = "writing"
    BY <1>5 DEF IInv, Core, Write, Kept
  <2>2. Files'
    <3>1. \A k \in Key : Counted(k) => Present(k) /\ disk["count"][k]["ok"] <= 1
      BY <2>1 DEF Files
    <3>2. /\ \A k \in Key : Counted(k) => k \in completed
          /\ \A k \in Key \ completed : k > repeat => Absent(k)
      BY <2>1 DEF Files
    <3>3. phase' \in {"writing", "flushing"} /\ completed \subseteq completed'
      BY <2>1 DEF Write
    <3> QED BY <1>0, <1>1, <3>1, <3>2, <3>3 DEF Files, Counted, Present, Absent
  <2>3. AllThere'
    <3>1. CASE pos = 1
      <4>1. buffer'["batch"] = StageRows
        BY <1>1, <3>1, OrderFacts, RowsFacts DEF IInv, Core, Typed
      <4>2. \A x \in Outcome : disk["batch"][repeat][x] = 0
        BY <2>1, <3>1 DEF Attempt, Absent, Outcome
      <4> QED BY <1>1, <4>1, <4>2, CampaignAssumption DEF AllThere, IInv, Core, Typed
    <3>2. CASE pos > 1
      <4>1. buffer'["batch"] = buffer["batch"]
        BY <1>1, <3>2, OrderFacts DEF File
      <4> QED BY <1>1, <2>1, <3>2, <4>1 DEF Attempt, AllThere
    <3> QED BY <1>1, <3>1, <3>2
  <2>4. buffer'["count"] > 0 => buffer'["count"] = 1
    BY <1>1, <2>1, OrderFacts, RowsFacts DEF Attempt, IInv, Core, Typed, File
  <2>5. ~Counted(repeat)' /\ (phase' = "flushing" /\ outcome = "ok" => repeat \in completed')
    BY <1>0, <1>1, <2>1, OrderFacts DEF Write, Attempt, Counted
  <2>6. /\ phase' \in {"writing", "flushing"} /\ (phase' = "writing" => pos' > 1)
        /\ phase' = "writing" => completed' = completed
    BY <1>1, <2>1, OrderFacts DEF Write
  <2> QED BY <1>1, <2>1, <2>2, <2>3, <2>4, <2>5, <2>6 DEF Attempt
<1> QED BY <1>2, <1>3, <1>4, <1>5 DEF Core

\* While rows are on their way the count file has its header.
LEMMA HeaderThere ==
  ASSUME IInv, Kept, phase \in {"ready", "writing", "flushing", "closing"}
  PROVE  header = "there"
BY DEF IInv, Headed, Kept

\* Rows that leave a buffer, the count only after the batch rows.
LEMMA OutKeeps ==
  ASSUME IInv, Kept, repeat \in Key, repeat' = repeat, outcome' = outcome,
         header = "there", header' = header,
         NEW f \in File, NEW m \in Nat, m <= buffer[f], Out(f, m),
         f = "batch" /\ m > 0 => ~Counted(repeat),
         f = "count" => buffer["batch"] = 0 /\ m = buffer["count"]
  PROVE  /\ \A k \in Key : Counted(k)' => Present(k)' /\ disk'["count"][k]["ok"] <= 1
         /\ \A k \in Key \ {repeat} : (Counted(k)' <=> Counted(k)) /\ (Absent(k)' <=> Absent(k))
         /\ Counted(repeat)' => Counted(repeat) \/ (f = "count" /\ outcome = "ok")
         /\ AllThere => AllThere'
         /\ buffer'["batch"] > 0 => ~Counted(repeat)'
         /\ buffer'["count"] > 0 => AllThere' /\ ~Counted(repeat)' /\ buffer'["count"] = 1
<1>1. Typed /\ Files /\ Attempt
  BY DEF IInv, Core
<1>2. /\ buffer' \in [File -> Nat] /\ disk' \in [File -> Table]
      /\ buffer'[f] = buffer[f] - m
      /\ disk'[f][repeat][outcome] = disk[f][repeat][outcome] + m
      /\ \A x \in Outcome \ {outcome} : disk'[f][repeat][x] = disk[f][repeat][x]
      /\ \A k \in Key \ {repeat} : disk'[f][k] = disk[f][k]
      /\ \A h \in File \ {f} : buffer'[h] = buffer[h] /\ disk'[h] = disk[h]
  BY <1>1, OutFacts
<1>3. /\ \A h \in File, k \in Key : disk[h][k] \in [Outcome -> Nat]
      /\ \A h \in File : buffer[h] \in Nat
      /\ outcome \in Outcome
  BY <1>1 DEF Typed, Table
<1>4. \A k \in Key \ {repeat} : /\ disk'["batch"][k] = disk["batch"][k]
                               /\ disk'["count"][k] = disk["count"][k]
  BY <1>2 DEF File
<1>5. \A k \in Key \ {repeat} :
        /\ Counted(k)' <=> Counted(k)
        /\ Absent(k)' <=> Absent(k)
        /\ Present(k)' <=> Present(k)
  BY <1>4 DEF Counted, Absent, Present
<1>6. AllThere => AllThere'
  <2>1. CASE f = "batch"
    BY <1>2, <1>3, <2>1 DEF AllThere, File
  <2>2. CASE f # "batch"
    BY <1>2, <2>2 DEF AllThere, File
  <2> QED BY <2>1, <2>2
<1>7. CASE f = "count" /\ m > 0
  <2>1. AllThere /\ ~Counted(repeat) /\ m = 1 /\ buffer["batch"] = 0
    BY <1>1, <1>7 DEF Attempt
  <2>2. disk'["batch"] = disk["batch"] /\ buffer'["batch"] = 0 /\ buffer'["count"] = 0
    BY <1>2, <1>3, <1>7, <2>1 DEF File
  <2>3. disk["count"][repeat]["ok"] = 0
    BY <1>3, <2>1 DEF Counted, File, Outcome
  <2>4. CASE outcome = "ok"
    <3>1. Present(repeat)'
      BY <1>3, <2>1, <2>2, <2>4 DEF AllThere, Present, File, Outcome
    <3>2. disk'["count"][repeat]["ok"] <= 1
      BY <1>2, <1>7, <2>1, <2>3, <2>4
    <3> QED BY <1>1, <1>4, <1>5, <1>6, <1>7, <2>2, <2>4, <3>1, <3>2 DEF Files
  <2>5. CASE outcome # "ok"
    <3>1. disk'["count"][repeat]["ok"] = 0
      BY <1>2, <1>7, <2>3, <2>5 DEF Outcome
    <3>2. ~Counted(repeat)'
      BY <3>1 DEF Counted
    <3> QED BY <1>1, <1>4, <1>5, <1>6, <2>2, <3>2 DEF Files
  <2> QED BY <2>4, <2>5
<1>8. CASE ~(f = "count" /\ m > 0)
  <2>1. disk'["count"][repeat] = disk["count"][repeat] /\ buffer'["count"] = buffer["count"]
    <3>1. CASE f # "count"
      BY <1>2, <3>1 DEF File
    <3>2. CASE f = "count"
      <4>1. m = 0
        BY <1>8, <3>2
      <4>2. \A x \in Outcome : disk'["count"][repeat][x] = disk["count"][repeat][x]
        BY <1>2, <1>3, <3>2, <4>1 DEF File
      <4>3. disk'["count"][repeat] \in [Outcome -> Nat]
        BY <1>2 DEF File, Table
      <4>4. disk["count"][repeat] \in [Outcome -> Nat]
        BY <1>3 DEF File
      <4>5. buffer'["count"] = buffer["count"]
        BY <1>2, <1>3, <3>2, <4>1
      <4> QED BY <4>2, <4>3, <4>4, <4>5
    <3> QED BY <3>1, <3>2
  <2>2. Counted(repeat)' <=> Counted(repeat)
    BY <2>1 DEF Counted
  <2>3. buffer'["batch"] > 0 => buffer["batch"] > 0
    <3>1. CASE f = "batch"
      BY <1>2, <1>3, <3>1
    <3>2. CASE f # "batch"
      BY <1>2, <3>2 DEF File
    <3> QED BY <3>1, <3>2
  <2>4. Counted(repeat) => Present(repeat)'
    <3>1. SUFFICES ASSUME Counted(repeat) PROVE Present(repeat)'
      OBVIOUS
    <3>2. Present(repeat)
      BY <1>1, <3>1 DEF Files
    <3>3. CASE f = "batch"
      <4>1. m = 0
        BY <3>1, <3>3
      <4> QED BY <1>2, <1>3, <3>2, <3>3, <4>1 DEF Present, Outcome, File
    <3>4. CASE f # "batch"
      BY <1>2, <3>2, <3>4 DEF Present, File
    <3> QED BY <3>3, <3>4
  <2> QED BY <1>1, <1>4, <1>5, <1>6, <2>1, <2>2, <2>3, <2>4 DEF Files, Attempt
<1> QED BY <1>7, <1>8

LEMMA SpillStep ==
  ASSUME IInv, Spill
  PROVE  Core'
<1>0. header' = header
  BY DEF Spill
<1>1. /\ phase \in {"writing", "flushing", "closing"} /\ buffer["batch"] > 0
      /\ Out("batch", 1)
      /\ UNCHANGED <<phase, pos, repeat, completed, outcome, cut>>
  BY DEF Spill
<1>2. Typed /\ Buffers /\ "batch" \in File /\ buffer["batch"] \in Nat
  BY DEF IInv, Core, Typed, File
<1>3. repeat \in Key
  BY <1>1, <1>2, EmptyIs DEF Buffers
<1>4. /\ buffer' \in [File -> Nat] /\ disk' \in [File -> Table]
      /\ buffer'["batch"] = buffer["batch"] - 1
      /\ \A h \in File \ {"batch"} : buffer'[h] = buffer[h]
  BY <1>1, <1>2, <1>3, OutFacts
<1>5. Typed' /\ Opening'
  BY <1>1, <1>4 DEF IInv, Core, Typed, Opening
<1>6. Buffers'
  <2>1. phase = "writing" => pos > 1
    BY <1>1, <1>2, OrderFacts DEF Buffers, Typed
  <2>2. phase \in {"flushing", "closing"} => pos = 1
    BY <1>1, <1>2, OrderFacts DEF Buffers, Typed
  <2>3. \A i \in 2..4 : buffer'[Order[i]] = buffer[Order[i]]
    BY <1>4, OrderFacts
  <2> QED BY <1>1, <1>2, <1>3, <2>1, <2>2, <2>3 DEF Buffers, Typed
<1>7. ASSUME Kept' PROVE Files' /\ Attempt'
  <2>1. Kept /\ Files /\ Attempt
    BY <1>1, <1>7 DEF IInv, Core, Kept
  <2>0. header = "there" /\ header' = header
    BY <1>0, <1>1, <2>1, HeaderThere
  <2>2. ~Counted(repeat)
    BY <1>1, <2>1 DEF Attempt
  <2>3. /\ \A k \in Key : Counted(k)' => Present(k)' /\ disk'["count"][k]["ok"] <= 1
        /\ \A k \in Key \ {repeat} : (Counted(k)' <=> Counted(k)) /\ (Absent(k)' <=> Absent(k))
        /\ ~Counted(repeat)'
        /\ AllThere => AllThere'
        /\ buffer'["count"] > 0 => AllThere' /\ ~Counted(repeat)' /\ buffer'["count"] = 1
    BY <1>1, <1>2, <1>3, <2>0, <2>1, <2>2, OutKeeps
  <2>4. Files'
    BY <1>1, <1>2, <1>3, <2>1, <2>3 DEF Files, Typed, Key
  <2>5. phase = "writing" => pos # 1
    BY <1>1, <1>2, OrderFacts DEF Buffers, Typed
  <2>6. Attempt'
    BY <1>1, <2>1, <2>3, <2>5 DEF Attempt
  <2> QED BY <2>4, <2>6
<1> QED BY <1>5, <1>6, <1>7 DEF Core

LEMMA FlushStep ==
  ASSUME IInv, Flush
  PROVE  Core'
<1>0. header' = header
  BY DEF Flush
<1> DEFINE f == Order[pos]
<1>1. /\ phase = "flushing" /\ Out(f, buffer[f])
      /\ pos = 4 => phase' = "ready" /\ pos' = 1 /\ repeat' = repeat + 1
      /\ pos # 4 => phase' = "flushing" /\ pos' = pos + 1 /\ repeat' = repeat
      /\ UNCHANGED <<completed, outcome, cut>>
  BY OrderFacts DEF Flush
<1>2. /\ Typed /\ Buffers /\ repeat \in Key /\ f \in File /\ buffer[f] \in Nat
      /\ buffer[f] <= buffer[f]
  BY <1>1, OrderFacts DEF IInv, Core, Typed, Buffers
<1> HIDE DEF f
<1>3. /\ buffer' \in [File -> Nat] /\ disk' \in [File -> Table]
      /\ buffer'[f] = 0
      /\ \A h \in File \ {f} : buffer'[h] = buffer[h] /\ disk'[h] = disk[h]
  BY <1>1, <1>2, OutFacts
<1>4. Typed' /\ Opening'
  BY <1>1, <1>2, <1>3 DEF Typed, Opening, Phase, Key
<1>5. \A i \in 1..pos : buffer'[Order[i]] = 0
  BY <1>1, <1>2, <1>3, OrderFacts DEF Buffers, Typed, f
<1>6. Buffers'
  <2>1. CASE pos = 4
    <3>1. \A h \in File : buffer'[h] = 0
      BY <1>5, <2>1, OrderFacts
    <3>2. buffer' = Empty
      BY <1>3, <3>1 DEF Empty
    <3> QED BY <1>1, <2>1, <3>2 DEF Buffers
  <2>2. CASE pos # 4
    BY <1>1, <1>2, <1>5, <2>2 DEF Buffers, Typed
  <2> QED BY <2>1, <2>2
<1>7. ASSUME Kept' PROVE Files' /\ Attempt'
  <2>1. Kept /\ Files /\ Attempt
    BY <1>1, <1>7 DEF IInv, Core, Kept
  <2>0. header = "there" /\ header' = header
    BY <1>0, <1>1, <2>1, HeaderThere
  <2>2. f = "batch" => ~Counted(repeat)
    BY <1>1, <1>2, <2>1, OrderFacts DEF Attempt, Typed, f
  <2>3. f = "count" => buffer["batch"] = 0
    BY <1>1, <1>2, OrderFacts DEF Buffers, Typed, f
  <2> DEFINE kept ==
        /\ \A k \in Key : Counted(k)' => Present(k)' /\ disk'["count"][k]["ok"] <= 1
        /\ \A k \in Key \ {repeat} : (Counted(k)' <=> Counted(k)) /\ (Absent(k)' <=> Absent(k))
        /\ \A k \in Key :
             Counted(k)' => Counted(k) \/ (k = repeat /\ f = "count" /\ outcome = "ok")
  <2>4. /\ kept
        /\ pos # 4 =>
             /\ AllThere => AllThere'
             /\ buffer'["batch"] > 0 => ~Counted(repeat)'
             /\ buffer'["count"] > 0 => AllThere' /\ ~Counted(repeat)' /\ buffer'["count"] = 1
    <3>1. CASE pos # 4
      <4>1. /\ \A k \in Key : Counted(k)' => Present(k)' /\ disk'["count"][k]["ok"] <= 1
            /\ \A k \in Key \ {repeat} :
                 (Counted(k)' <=> Counted(k)) /\ (Absent(k)' <=> Absent(k))
            /\ Counted(repeat)' => Counted(repeat) \/ (f = "count" /\ outcome = "ok")
            /\ AllThere => AllThere'
            /\ buffer'["batch"] > 0 => ~Counted(repeat)'
            /\ buffer'["count"] > 0 => AllThere' /\ ~Counted(repeat)' /\ buffer'["count"] = 1
        BY <1>1, <1>2, <2>0, <2>1, <2>2, <2>3, <3>1, OutKeeps
      <4>2. repeat' = repeat
        BY <1>1, <3>1
      <4>3. \A k \in Key :
              Counted(k)' => Counted(k) \/ (k = repeat /\ f = "count" /\ outcome = "ok")
        <5>1. Counted(repeat)' <=> disk'["count"][repeat]["ok"] > 0
          BY <2>0, <4>2 DEF Counted
        <5> QED BY <4>1, <5>1 DEF Counted
      <4> QED BY <4>1, <4>3
    <3>2. CASE pos = 4
      <4>1. f = "summary"
        BY <3>2, OrderFacts DEF f
      <4>2. disk'["batch"] = disk["batch"] /\ disk'["count"] = disk["count"]
        BY <1>3, <4>1 DEF File
      <4>3. \A k \in Key :
              /\ Counted(k)' <=> Counted(k)
              /\ Absent(k)' <=> Absent(k)
              /\ Present(k)' <=> Present(k)
        BY <2>0, <4>2 DEF Counted, Present, Absent
      <4>4. \A k \in Key : Counted(k) => Present(k) /\ disk'["count"][k]["ok"] <= 1
        BY <2>1, <4>2 DEF Files
      <4> QED BY <1>2, <3>2, <4>3, <4>4
    <3> QED BY <3>1, <3>2
  <2>5. \A k \in Key : Counted(k)' => k \in completed
    <3>1. outcome = "ok" => repeat \in completed
      BY <1>1, <2>1 DEF Attempt
    <3>2. \A k \in Key : Counted(k) => k \in completed
      BY <1>1, <2>1 DEF Files
    <3>3. \A k \in Key : Counted(k)' => Counted(k) \/ (k = repeat /\ outcome = "ok")
      BY <2>4
    <3> QED BY <3>1, <3>2, <3>3
  <2>6. \A k \in Key \ completed : k > repeat => Absent(k)'
    <3>1. \A k \in Key : k > repeat => k # repeat
      BY <1>2 DEF Typed, Key
    <3> QED BY <1>1, <2>1, <2>4, <3>1 DEF Files
  <2>7. Files'
    <3>1. \A k \in Key : k > repeat' \/ (k = repeat' /\ phase' = "ready") => k > repeat
      BY <1>1, <1>2, CampaignAssumption DEF Key, Typed
    <3> QED BY <1>1, <2>4, <2>5, <2>6, <3>1 DEF Files
  <2>8. Attempt'
    <3>1. CASE pos = 4
      BY <1>1, <1>6, <3>1, EmptyIs DEF Buffers, Attempt, File
    <3>2. CASE pos # 4
      <4>1. pos' <= 2 => f = "batch" /\ ~Counted(repeat)
        BY <1>1, <1>2, <2>1, <3>2, OrderFacts DEF Attempt, Typed, f
      <4>2. Counted(repeat)' => Counted(repeat) \/ f = "count"
        BY <1>1, <1>2, <2>4, <3>2 DEF Counted
      <4> QED BY <1>1, <2>1, <2>4, <3>2, <4>1, <4>2 DEF Attempt
    <3> QED BY <3>1, <3>2
  <2> QED BY <2>7, <2>8
<1> QED BY <1>4, <1>6, <1>7 DEF Core

LEMMA FinishStep == ASSUME IInv, Finish PROVE Core'
<1>0. header' = header
  BY DEF Finish
<1>1. Typed' /\ Buffers' /\ Opening'
  BY DEF IInv, Core, Finish, Typed, Phase, Buffers, Opening
<1>2. ASSUME Kept' PROVE Files' /\ Attempt'
  <2>1. Files /\ buffer' = Empty /\ disk' = disk /\ phase' = "off"
    BY <1>2 DEF IInv, Core, Finish, Kept, Buffers
  <2> QED BY <1>0, <2>1, EmptyIs DEF Files, Attempt, Counted, Present, File
<1> QED BY <1>1, <1>2 DEF Core

LEMMA InterruptStep ==
  ASSUME IInv, Interrupt
  PROVE  Core'
<1>0. header' = header
  BY DEF Interrupt
<1> DEFINE f == Order[pos]
<1>1. /\ phase \in {"ready", "writing", "flushing"}
      /\ phase' = "closing" /\ pos' = 1
      /\ UNCHANGED <<repeat, completed, outcome, disk, cut>>
  BY DEF Interrupt
<1>2. PICK m \in IF phase = "writing" THEN 0..Rows(f, outcome) ELSE {buffer[f]} :
        buffer' = [buffer EXCEPT ![f] = m]
  BY DEF Interrupt
<1>3. Typed /\ Buffers /\ f \in File
  BY OrderFacts DEF IInv, Core, Typed
<1> HIDE DEF f
<1>4. m \in Nat /\ (phase # "writing" => buffer' = buffer)
  BY <1>2, <1>3, RowsFacts DEF Typed
<1>5. Typed' /\ Opening'
  BY <1>1, <1>2, <1>3, <1>4 DEF Typed, Phase, Opening
<1>6. Buffers'
  BY <1>1, <1>3, <1>4 DEF Buffers, Typed
<1>7. ASSUME Kept' PROVE Files' /\ Attempt'
  <2>1. Files /\ Attempt
    BY <1>1, <1>7 DEF IInv, Core, Kept
  <2>2. Files'
    BY <1>0, <1>1, <2>1 DEF Files, Counted, Present
  <2>3. buffer'["batch"] > 0 => ~Counted(repeat)'
    BY <1>0, <1>1, <1>4, <2>1 DEF Attempt, Counted
  <2>4. ASSUME buffer'["count"] > 0
        PROVE  AllThere' /\ ~Counted(repeat)' /\ buffer'["count"] = 1
    <3>1. CASE phase # "writing"
      BY <1>0, <1>1, <1>4, <2>1, <2>4, <3>1 DEF Attempt, AllThere, Counted
    <3>2. CASE phase = "writing" /\ f = "count"
      <4>1. pos > 1 /\ f # "batch"
        BY <1>3, <3>2, OrderFacts DEF Typed, f
      <4>2. AllThere /\ ~Counted(repeat)
        BY <2>1, <3>2, <4>1 DEF Attempt
      <4>3. buffer'["count"] = m /\ buffer'["batch"] = buffer["batch"]
        BY <1>2, <1>3, <3>2, <4>1 DEF Typed, File
      <4>4. m <= 1
        BY <1>2, <3>2, RowsFacts, <1>3 DEF Typed
      <4> QED BY <1>0, <1>1, <1>4, <2>4, <4>2, <4>3, <4>4 DEF AllThere, Counted
    <3>3. CASE phase = "writing" /\ f # "count"
      <4>1. buffer'["count"] = buffer["count"]
        BY <1>2, <1>3, <3>3 DEF Typed, File
      <4>2. f # "batch"
        <5>1. pos = 1 => buffer["count"] = 0
          BY <1>3, <3>3, OrderFacts DEF Buffers
        <5> QED BY <1>3, <2>4, <4>1, <5>1, OrderFacts DEF Typed, f
      <4>3. buffer'["batch"] = buffer["batch"]
        BY <1>2, <1>3, <4>2 DEF Typed, File
      <4> QED BY <1>0, <1>1, <2>1, <2>4, <4>1, <4>3 DEF Attempt, AllThere, Counted
    <3> QED BY <3>1, <3>2, <3>3
  <2> QED BY <1>1, <2>2, <2>3, <2>4 DEF Attempt
<1> QED BY <1>5, <1>6, <1>7 DEF Core

LEMMA CloseStep ==
  ASSUME IInv, Close
  PROVE  Core'
<1>0. header' = header
  BY DEF Close
<1> DEFINE f == Order[pos]
<1>1. /\ phase = "closing"
      /\ IF buffer[f] = 0 THEN UNCHANGED <<buffer, disk>> ELSE Out(f, buffer[f])
      /\ pos = 4 => phase' = "off" /\ pos' = 1
      /\ pos # 4 => phase' = "closing" /\ pos' = pos + 1
      /\ UNCHANGED <<repeat, completed, outcome, cut>>
  BY OrderFacts DEF Close
<1>2. /\ Typed /\ Buffers /\ f \in File /\ buffer[f] \in Nat
      /\ buffer[f] <= buffer[f]
  BY OrderFacts DEF IInv, Core, Typed
<1>3. buffer[f] # 0 => repeat \in Key
  BY <1>1, <1>2, EmptyIs DEF Buffers
<1> HIDE DEF f
<1>4. /\ buffer' \in [File -> Nat] /\ disk' \in [File -> Table]
      /\ buffer'[f] = 0
      /\ \A h \in File \ {f} : buffer'[h] = buffer[h]
  <2>1. CASE buffer[f] = 0
    BY <1>1, <1>2, <2>1 DEF Typed
  <2>2. CASE buffer[f] # 0
    BY <1>1, <1>2, <1>3, <2>2, OutFacts
  <2> QED BY <2>1, <2>2
<1>5. Typed' /\ Opening'
  BY <1>1, <1>2, <1>4 DEF Typed, Opening, Phase
<1>6. \A i \in 1..pos : buffer'[Order[i]] = 0
  BY <1>1, <1>2, <1>4, OrderFacts DEF Buffers, Typed, f
<1>7. Buffers'
  <2>1. CASE pos = 4
    <3>1. \A h \in File : buffer'[h] = 0
      BY <1>6, <2>1, OrderFacts
    <3>2. buffer' = Empty
      BY <1>4, <3>1 DEF Empty
    <3> QED BY <1>1, <2>1, <3>2 DEF Buffers
  <2>2. CASE pos # 4
    <3>1. buffer' # Empty => buffer # Empty
      <4>1. buffer = Empty => \A h \in File : buffer'[h] = 0
        BY <1>4, EmptyIs
      <4> QED BY <1>4, <4>1 DEF Empty
    <3> QED BY <1>1, <1>2, <1>6, <2>2, <3>1 DEF Buffers, Typed
  <2> QED BY <2>1, <2>2
<1>8. ASSUME Kept' PROVE Files' /\ Attempt'
  <2>1. Kept /\ Files /\ Attempt
    BY <1>1, <1>8 DEF IInv, Core, Kept
  <2>0. header = "there" /\ header' = header
    BY <1>0, <1>1, <2>1, HeaderThere
  <2>2. /\ \A k \in Key : Counted(k)' => Present(k)' /\ disk'["count"][k]["ok"] <= 1
        /\ buffer'["batch"] > 0 => ~Counted(repeat)'
        /\ buffer'["count"] > 0 => AllThere' /\ ~Counted(repeat)' /\ buffer'["count"] = 1
    <3>1. CASE buffer[f] = 0
      BY <1>1, <2>0, <2>1, <3>1 DEF Files, Attempt, Counted, Present, AllThere
    <3>2. CASE buffer[f] # 0
      <4>1. f = "batch" => ~Counted(repeat)
        BY <1>2, <2>1, <3>2 DEF Attempt
      <4>2. f = "count" => buffer["batch"] = 0
        BY <1>1, <1>2, OrderFacts DEF Buffers, Typed, f
      <4> QED BY <1>1, <1>2, <1>3, <2>0, <2>1, <3>2, <4>1, <4>2, OutKeeps
    <3> QED BY <3>1, <3>2
  <2>3. phase' \in {"off", "closing"}
    BY <1>1
  <2> QED BY <2>2, <2>3 DEF Files, Attempt
<1> QED BY <1>5, <1>7, <1>8 DEF Core

LEMMA CrashStep == ASSUME IInv, Crash PROVE Core'
<1>0. header' = header
  BY DEF Crash
<1>1. Typed' /\ Buffers' /\ Opening'
  BY EmptyIs DEF IInv, Core, Crash, Typed, Phase, Buffers, Opening
<1>2. ASSUME Kept' PROVE Files' /\ Attempt'
  <2>1. Kept
    BY <1>2 DEF IInv, Core, Crash, Kept, Typed
  <2>2. Files /\ buffer' = Empty /\ disk' = disk /\ phase' = "off"
    BY <2>1 DEF IInv, Core, Crash
  <2> QED BY <1>0, <2>2, EmptyIs DEF Files, Attempt, Counted, Present, File
<1> QED BY <1>1, <1>2 DEF Core

LEMMA HeaderCrashStep == ASSUME IInv, CrashInHeader PROVE Core'
<1>1. /\ phase' = "off" /\ buffer' = buffer /\ cut' /\ phase \in {"opening", "pruning"}
      /\ UNCHANGED <<pos, repeat, completed, outcome>>
  BY DEF CrashInHeader
<1>2. disk' \in [File -> Table]
  BY NoRowsIs DEF IInv, Core, Typed, CrashInHeader
<1> QED BY <1>1, <1>2 DEF IInv, Core, Typed, Phase, Buffers, Opening, Kept

LEMMA HeadedStep == IInv /\ [Next]_vars => Headed'
<1> SUFFICES ASSUME IInv, [Next]_vars PROVE Headed'
  OBVIOUS
<1>1. Typed /\ Opening /\ Headed
  BY DEF IInv, Core
<1>2. CASE Prune
  BY <1>1, <1>2 DEF Prune, Headed
<1>3. CASE OpenWriter
  <2>1. /\ phase = "opening" /\ pos \in 1..4
        /\ pos = 4 => phase' = "ready"
        /\ pos # 4 => phase' = "opening" /\ pos' = pos + 1 /\ cut' = cut
        /\ disk' = [disk EXCEPT ![Order[pos]] = NoRows]
        /\ header' = IF pos = 2 THEN "there" ELSE header
    BY <1>1, <1>3, OrderFacts DEF OpenWriter, Typed
  <2>2. pos # 2 => disk'["count"] = disk["count"]
    BY <1>1, <2>1, OrderFacts DEF Typed, File
  <2> QED BY <1>1, <2>1, <2>2 DEF Headed
<1>4. CASE CrashInHeader
  BY <1>4 DEF CrashInHeader, Headed
<1>5. CASE Crash
  <2>1. phase' = "off" /\ disk' = disk /\ header' = header /\ (cut => cut')
    BY <1>5 DEF Crash
  <2> QED BY <1>1, <2>1 DEF Headed
<1>6. CASE Flush \/ Close \/ Spill
  <2>1. header' = header /\ cut' = cut /\ phase \in {"writing", "flushing", "closing"}
        /\ phase' # "opening"
    BY <1>6 DEF Flush, Close, Spill
  <2> QED BY <1>1, <2>1 DEF Headed
<1>7. CASE \/ \E resume \in BOOLEAN : Launch(resume)
           \/ Skip \/ Write \/ Finish \/ Interrupt
           \/ \E x \in Outcome : RunOneRepeat(x)
           \/ UNCHANGED vars
  <2>1. /\ header' = header /\ cut' = cut /\ disk' = disk
        /\ \/ phase = "off" /\ phase' \in {"pruning", "opening"} /\ pos' = 1
           \/ phase \in {"ready", "writing", "flushing"} /\ phase' # "opening"
           \/ phase' = phase /\ pos' = pos
    BY <1>7 DEF Launch, Skip, Write, Finish, Interrupt, RunOneRepeat, vars
  <2> QED BY <1>1, <2>1 DEF Headed
<1> QED BY <1>2, <1>3, <1>4, <1>5, <1>6, <1>7 DEF Next

LEMMA StepInv == IInv /\ [Next]_vars => IInv'
<1> SUFFICES ASSUME IInv, [Next]_vars PROVE IInv'
  OBVIOUS
<1>1. CASE UNCHANGED vars
  BY <1>1 DEF vars, IInv, Core, Headed, Typed, Buffers, Opening, Kept, Files, Attempt, Counted, Present,
              Absent, AllThere, CompletedKeys
<1> QED BY <1>1, LaunchStep, PruneStep, OpenStep, SkipStep, RunStep, WriteStep, SpillStep,
           FlushStep, FinishStep, InterruptStep, CloseStep, CrashStep, HeaderCrashStep, HeadedStep
           DEF Next, IInv, Core

LEMMA Invariance == Spec => []IInv
BY InitInv, StepInv, PTL DEF Spec

-----------------------------------------------------------------------------
(* The theorems.                                                           *)

\* Whenever a launch is killed or interrupted, and however it is resumed, a repeat
\* that --resume skips has exactly the batch rows of one successful attempt.
THEOREM CompleteRows == Spec => []CountedHasRows
<1>1. IInv => CountedHasRows
  <2> SUFFICES ASSUME IInv, Whole, NEW k \in Key, Counted(k)
               PROVE  disk["batch"][k] = [x \in Outcome |-> IF x = "ok" THEN StageRows ELSE 0]
    BY DEF CountedHasRows
  <2>1. Present(k)
    BY DEF IInv, Core, Whole, Kept, Files
  <2>2. disk["batch"][k] \in [Outcome -> Nat]
    BY DEF IInv, Core, Typed, Table, File
  <2> QED BY <2>1, <2>2 DEF Present, Outcome
<1> QED BY <1>1, Invariance, PTL

\* No repeat that succeeded is run, and counted, a second time.
THEOREM OnlyOnce == Spec => []NothingRunTwice
<1>1. IInv => NothingRunTwice
  <2> SUFFICES ASSUME IInv, Whole, NEW k \in Key
               PROVE  disk["count"][k]["ok"] <= 1
    BY DEF NothingRunTwice
  <2>1. Counted(k) => disk["count"][k]["ok"] <= 1
    BY DEF IInv, Core, Whole, Kept, Files
  <2>2. disk["count"][k]["ok"] \in Nat
    BY DEF IInv, Core, Typed, Table, File, Outcome
  <2>3. IF header = "there" THEN TRUE ELSE disk["count"] = NoRows
    BY DEF IInv, Headed, Whole
  <2> QED BY <2>1, <2>2, <2>3, NoRowsIs DEF Counted
<1> QED BY <1>1, Invariance, PTL
-----------------------------------------------------------------------------
(* Nothing is left out, and costs follow counts.                           *)

Cur == <<repeat, outcome>>

\* A buffer that has been written and not flushed has the attempt's row.
Filled ==
  /\ phase = "writing" => (pos > 2 => buffer["count"] = 1) /\ (pos > 3 => buffer["comm"] = 1)
  /\ phase = "flushing" => (pos <= 2 => buffer["count"] = 1) /\ (pos <= 3 => buffer["comm"] = 1)

\* Whom the loops have passed has succeeded, now or before, or may fail; and what
\* counts as completed is in the file, or on its way there.
Progress ==
  /\ phase \in {"writing", "flushing"} =>
       /\ outcome = "failed" => repeat \in MayFail
       /\ outcome = "ok" /\ phase = "flushing" <=> repeat \in completed
  /\ phase \in {"ready", "writing", "flushing"} =>
       \A k \in Key \ MayFail : k < repeat => k \in completed
  /\ phase \in {"pruning", "ready", "writing", "flushing"} /\ header # "lost" =>
       \A k \in completed : Counted(k) \/ (k = repeat /\ phase = "flushing" /\ pos <= 2)
  /\ phase = "pruning" => repeat = 1

PInv == IInv /\ Filled /\ Progress

LEMMA FilledStep == IInv /\ Filled /\ [Next]_vars => Filled'
<1> SUFFICES ASSUME IInv, Filled, [Next]_vars PROVE Filled'
  OBVIOUS
<1>1. Typed /\ Buffers
  BY DEF IInv, Core
<1>2. CASE Write
  <2>1. /\ phase = "writing" /\ pos \in 1..4
        /\ buffer' = [buffer EXCEPT ![Order[pos]] = Rows(Order[pos], outcome)]
        /\ pos = 4 => phase' = "flushing" /\ pos' = 1
        /\ pos # 4 => phase' = "writing" /\ pos' = pos + 1
    BY <1>1, <1>2, OrderFacts DEF Write, Typed
  <2>2. buffer \in [File -> Nat] /\ outcome \in Outcome
    BY <1>1 DEF Typed
  <2>3. Rows("count", outcome) = 1 /\ Rows("comm", outcome) = 1
    BY DEF Rows
  <2>4. /\ pos = 2 => buffer'["count"] = 1
        /\ pos = 3 => buffer'["comm"] = 1
        /\ pos # 2 => buffer'["count"] = buffer["count"]
        /\ pos # 3 => buffer'["comm"] = buffer["comm"]
    BY <2>1, <2>2, <2>3, OrderFacts DEF File
  <2> QED BY <2>1, <2>4 DEF Filled
<1>3. CASE Flush
  <2>1. /\ phase = "flushing" /\ pos \in 1..4
        /\ buffer' = [buffer EXCEPT ![Order[pos]] = @ - buffer[Order[pos]]]
        /\ pos = 4 => phase' = "ready"
        /\ pos # 4 => phase' = "flushing" /\ pos' = pos + 1
    BY <1>1, <1>3, OrderFacts DEF Flush, Out, Typed
  <2>2. /\ pos # 2 => buffer'["count"] = buffer["count"]
        /\ pos # 3 => buffer'["comm"] = buffer["comm"]
    BY <1>1, <2>1, OrderFacts DEF Typed, File
  <2> QED BY <2>1, <2>2 DEF Filled
<1>4. CASE Spill
  BY <1>1, <1>4 DEF Spill, Out, Filled, Typed, File
<1>5. CASE \E x \in Outcome : RunOneRepeat(x)
  BY <1>5 DEF RunOneRepeat, Filled
<1>6. CASE \E resume \in BOOLEAN : Launch(resume)
  BY <1>6 DEF Launch, Filled
<1>7. CASE Prune \/ OpenWriter \/ Skip
  <2>1. phase' \in {"opening", "ready"}
    BY <1>7 DEF Prune, OpenWriter, Skip
  <2> QED BY <2>1 DEF Filled
<1>8. CASE Finish \/ Interrupt \/ Close \/ Crash \/ CrashInHeader
  <2>1. phase' \in {"off", "closing"}
    BY <1>8 DEF Finish, Interrupt, Close, Crash, CrashInHeader
  <2> QED BY <2>1 DEF Filled
<1>9. CASE UNCHANGED vars
  BY <1>9 DEF vars, Filled
<1> QED BY <1>2, <1>3, <1>4, <1>5, <1>6, <1>7, <1>8, <1>9 DEF Next

LEMMA ProgressStep == PInv /\ [Next]_vars => Progress'
<1> SUFFICES ASSUME PInv, [Next]_vars PROVE Progress'
  OBVIOUS
<1>1. Typed /\ Buffers /\ Opening /\ Filled /\ Progress
  BY DEF PInv, IInv, Core
<1>2. CASE \E resume \in BOOLEAN : Launch(resume)
  <2>1. PICK resume \in BOOLEAN : Launch(resume)
    BY <1>2
  <2>2. /\ phase' = "pruning" => completed' = CompletedKeys
        /\ disk' = disk /\ phase' \in {"pruning", "opening"} /\ repeat' = 1
        /\ header' = header
    BY <2>1 DEF Launch
  <2> QED BY <2>2 DEF Progress, CompletedKeys, Counted
<1>3. CASE Prune
  <2>1. /\ phase = "pruning" /\ phase' = "ready" /\ completed' = completed /\ repeat' = repeat
        /\ disk'["count"] = disk["count"]
    BY <1>1, <1>3 DEF Prune, Typed, File
  <2>2. header' = header \/ (header = "none" /\ header' = "there")
    BY <1>3 DEF Prune
  <2>3. \A k \in Key : Counted(k) => Counted(k)'
    BY <2>1, <2>2 DEF Counted
  <2>4. completed \subseteq Key
    BY <1>1 DEF Typed
  <2> QED BY <1>1, <2>1, <2>2, <2>3, <2>4 DEF Progress, Key
<1>4. CASE OpenWriter
  <2>1. completed' = {} /\ repeat' = 1 /\ phase' \in {"opening", "ready"}
    BY <1>1, <1>4 DEF OpenWriter, Opening
  <2> QED BY <2>1 DEF Progress, Key
<1>5. CASE Skip
  <2>1. /\ phase = "ready" /\ phase' = "ready" /\ repeat \in completed /\ repeat' = repeat + 1
        /\ completed' = completed /\ disk' = disk /\ header' = header
    BY <1>5 DEF Skip
  <2>2. \A k \in Key : k < repeat + 1 => k < repeat \/ k = repeat
    BY <1>1 DEF Typed, Key
  <2> QED BY <1>1, <2>1, <2>2 DEF Progress, Counted
<1>6. CASE \E x \in Outcome : RunOneRepeat(x)
  BY <1>1, <1>6 DEF RunOneRepeat, Progress, Counted
<1>7. CASE Write
  <2>1. /\ phase = "writing" /\ disk' = disk /\ header' = header /\ repeat' = repeat /\ outcome' = outcome
        /\ phase' = "writing" => completed' = completed
        /\ phase' = "flushing" =>
             /\ pos' = 1
             /\ completed' = IF outcome = "ok" THEN completed \union {repeat} ELSE completed
        /\ phase' \in {"writing", "flushing"}
    BY <1>7 DEF Write
  <2> QED BY <1>1, <2>1 DEF Progress, Counted
<1>8. CASE Spill
  <2>1. /\ UNCHANGED <<phase, pos, repeat, completed, outcome, header>>
        /\ disk'["count"] = disk["count"]
    BY <1>1, <1>8 DEF Spill, Out, Typed, File
  <2> QED BY <1>1, <2>1 DEF Progress, Counted
<1>9. CASE Flush
  <2>1. /\ phase = "flushing" /\ UNCHANGED <<completed, outcome, header>> /\ pos \in 1..4
        /\ pos = 4 => phase' = "ready" /\ repeat' = repeat + 1
        /\ pos # 4 => phase' = "flushing" /\ pos' = pos + 1 /\ repeat' = repeat
        /\ repeat \in Key /\ outcome \in Outcome /\ header \in {"lost", "there"}
    BY <1>1, <1>9, OrderFacts DEF Flush, Typed, Buffers, PInv, IInv, Headed
  <2>2. Out(Order[pos], buffer[Order[pos]]) /\ Order[pos] \in File
    BY <1>9, <2>1, OrderFacts DEF Flush
  <2>3. /\ disk'[Order[pos]][repeat][outcome] = disk[Order[pos]][repeat][outcome] + buffer[Order[pos]]
        /\ \A x \in Outcome \ {outcome} : disk'[Order[pos]][repeat][x] = disk[Order[pos]][repeat][x]
        /\ \A k \in Key \ {repeat} : disk'[Order[pos]][k] = disk[Order[pos]][k]
        /\ \A h \in File \ {Order[pos]} : disk'[h] = disk[h]
    <3>1. buffer[Order[pos]] \in Nat /\ buffer[Order[pos]] <= buffer[Order[pos]]
      BY <1>1, <2>2 DEF Typed
    <3> QED BY <1>1, <2>1, <2>2, <3>1, OutFacts
  <2>4. /\ \A k \in Key : Counted(k) => Counted(k)'
        /\ pos = 2 /\ outcome = "ok" /\ header # "lost" => Counted(repeat)'
    <3>1. CASE pos = 2
      <4>1. Order[pos] = "count" /\ buffer["count"] = 1
        BY <1>1, <2>1, <3>1, OrderFacts DEF Filled
      <4>2. \A k \in Key : disk["count"][k]["ok"] \in Nat
        BY <1>1 DEF Typed, Table, File, Outcome
      <4>3. \A k \in Key \ {repeat} : disk'["count"][k] = disk["count"][k]
        BY <2>3, <4>1
      <4>4. outcome = "ok" => disk'["count"][repeat]["ok"] > 0
        BY <2>1, <2>3, <4>1, <4>2
      <4>5. outcome # "ok" => disk'["count"][repeat]["ok"] = disk["count"][repeat]["ok"]
        BY <2>1, <2>3, <4>1 DEF Outcome
      <4>6. header' = header /\ repeat' = repeat /\ (header # "lost" => header = "there")
        BY <2>1, <3>1
      <4>7. \A k \in Key : disk["count"][k]["ok"] > 0 => disk'["count"][k]["ok"] > 0
        BY <2>1, <4>3, <4>4, <4>5
      <4>8. \A k \in Key : Counted(k) => Counted(k)'
        BY <4>6, <4>7 DEF Counted
      <4>9. outcome = "ok" /\ header # "lost" => Counted(repeat)'
        BY <4>4, <4>6 DEF Counted
      <4> QED BY <4>8, <4>9
    <3>2. CASE pos # 2
      <4>1. disk'["count"] = disk["count"]
        BY <2>1, <2>3, <3>2, OrderFacts DEF File
      <4> QED BY <2>1, <3>2, <4>1 DEF Counted
    <3> QED BY <3>1, <3>2
  <2>5. completed \subseteq Key /\ repeat \in Nat
    BY <1>1 DEF Typed
  <2>6. CASE pos = 4
    <3>1. outcome = "failed" => repeat \in MayFail
      BY <1>1, <2>1 DEF Progress
    <3>2. outcome = "ok" => repeat \in completed
      BY <1>1, <2>1 DEF Progress
    <3>3. \A k \in Key : k < repeat + 1 => k < repeat \/ k = repeat
      BY <2>5 DEF Key
    <3>4. \A k \in Key \ MayFail : k < repeat' => k \in completed'
      BY <1>1, <2>1, <2>6, <3>1, <3>2, <3>3 DEF Progress, Outcome
    <3>5. header' # "lost" => \A k \in completed' : Counted(k)'
      BY <1>1, <2>1, <2>4, <2>5, <2>6 DEF Progress
    <3> QED BY <2>1, <2>6, <3>4, <3>5 DEF Progress
  <2>7. CASE pos # 4
    <3>1. header' # "lost" =>
            \A k \in completed' : Counted(k)' \/ (k = repeat' /\ pos' <= 2)
      <4> SUFFICES ASSUME header # "lost", NEW k \in completed, ~ Counted(k)' PROVE k = repeat /\ pos' <= 2
        BY <2>1, <2>7
      <4>1. k = repeat /\ pos <= 2 /\ outcome = "ok"
        BY <1>1, <2>1, <2>4, <2>5 DEF Progress
      <4> QED BY <2>1, <2>4, <2>7, <4>1
    <3> QED BY <1>1, <2>1, <2>7, <3>1 DEF Progress
  <2> QED BY <2>6, <2>7
<1>10. CASE Finish \/ Interrupt \/ Close \/ Crash \/ CrashInHeader
  <2>1. phase' \in {"off", "closing"}
    BY <1>10 DEF Finish, Interrupt, Close, Crash, CrashInHeader
  <2> QED BY <2>1 DEF Progress
<1>11. CASE UNCHANGED vars
  BY <1>1, <1>11 DEF vars, Progress, Counted
<1> QED BY <1>2, <1>3, <1>4, <1>5, <1>6, <1>7, <1>8, <1>9, <1>10, <1>11 DEF Next

LEMMA PInvariance == Spec => []PInv
<1>1. Init => PInv
  BY InitInv DEF Init, PInv, Filled, Progress
<1>2. PInv /\ [Next]_vars => PInv'
  BY StepInv, FilledStep, ProgressStep DEF PInv
<1> QED BY <1>1, <1>2, PTL DEF Spec

\* When the loops are over, each repeat is counted or one whose attempts may fail:
\* what _completed_count_keys makes main skip is in the file already, also when a
\* kill cut the files while main emptied them, unless the count file lost its header.
THEOREM NoneLeftOut == Spec => []AllCounted
<1>1. PInv => AllCounted
  <2> SUFFICES ASSUME PInv, phase = "ready", repeat > Repeats, header # "lost",
                      NEW k \in Key \ MayFail
               PROVE  Counted(k)
    BY DEF AllCounted
  <2>1. k < repeat
    BY CampaignAssumption DEF PInv, IInv, Core, Typed, Key
  <2>2. k \in completed
    BY <2>1 DEF PInv, Progress
  <2> QED BY <2>2 DEF PInv, Progress
<1> QED BY <1>1, PInvariance, PTL
-----------------------------------------------------------------------------
(* Costs follow counts.                                                    *)

Pair == Key \X Outcome
Cost(a)  == disk["comm"][a[1]][a[2]]
Count(a) == disk["count"][a[1]][a[2]]

\* The attempts without their cost once the one in progress has got its own.
Owing == {a \in Pair : Cost(a) + (IF a = Cur THEN 1 ELSE 0) # Count(a)}

\* The attempts that may lack their cost when the launch ends here.
Late ==
  IF phase = "closing" THEN Uncosted \union {Cur}
  ELSE IF phase = "flushing" /\ pos = 3 THEN Owing
  ELSE Uncosted

\* Rows that are in a file or on their way to it, and what early ends have cost.
Costs ==
  /\ ended \in Nat
  /\ Kept =>
       /\ \A a \in Pair : Cost(a) <= Count(a)
       /\ repeat \in Key => Cost(Cur) + buffer["comm"] <= Count(Cur) + buffer["count"]
       /\ Cardinality(Late) <= ended

CInv == IInv /\ Filled /\ Costs

LEMMA PairSets ==
  /\ IsFiniteSet(Pair)
  /\ \A S \in SUBSET Pair : \A x :
       /\ IsFiniteSet(S) /\ IsFiniteSet(S \union {x})
       /\ Cardinality(S) \in Nat
       /\ Cardinality(S \union {x}) \in Nat
       /\ Cardinality(S) <= Cardinality(S \union {x})
       /\ Cardinality(S \union {x}) <= Cardinality(S) + 1
       /\ \A T \in SUBSET (S \union {x}) : Cardinality(T) <= Cardinality(S \union {x})
<1>1. IsFiniteSet(Key) /\ IsFiniteSet(Outcome)
  <2>1. IsFiniteSet(1..Repeats)
    BY CampaignAssumption, FS_Interval
  <2>2. IsFiniteSet({"failed"}) /\ Outcome = {"failed"} \union {"ok"}
    BY FS_Singleton DEF Outcome
  <2> QED BY <2>1, <2>2, FS_AddElement DEF Key
<1>2. IsFiniteSet(Pair)
  BY <1>1, FS_Product DEF Pair
<1>3. ASSUME NEW S \in SUBSET Pair, NEW x
      PROVE  /\ IsFiniteSet(S) /\ IsFiniteSet(S \union {x})
             /\ Cardinality(S) \in Nat
             /\ Cardinality(S \union {x}) \in Nat
             /\ Cardinality(S) <= Cardinality(S \union {x})
             /\ Cardinality(S \union {x}) <= Cardinality(S) + 1
             /\ \A T \in SUBSET (S \union {x}) : Cardinality(T) <= Cardinality(S \union {x})
  <2>1. IsFiniteSet(S) /\ Cardinality(S) \in Nat
    BY <1>2, FS_Subset, FS_CardinalityType
  <2>2. /\ IsFiniteSet(S \union {x})
        /\ Cardinality(S \union {x}) = IF x \in S THEN Cardinality(S) ELSE Cardinality(S) + 1
    BY <2>1, FS_AddElement
  <2>3. \A T \in SUBSET (S \union {x}) : Cardinality(T) <= Cardinality(S \union {x})
    BY <2>2, FS_Subset
  <2> QED BY <2>1, <2>2, <2>3
<1> QED BY <1>2, <1>3

LEMMA CostTypes ==
  ASSUME Typed
  PROVE  /\ \A a \in Pair : Cost(a) \in Nat /\ Count(a) \in Nat
         /\ repeat \in Key => Cur \in Pair
         /\ Uncosted = {a \in Pair : Cost(a) # Count(a)}
         /\ Uncosted \in SUBSET Pair /\ Owing \in SUBSET Pair
         /\ buffer["comm"] \in Nat /\ buffer["count"] \in Nat
<1>1. \A a \in Pair : Cost(a) \in Nat /\ Count(a) \in Nat
  BY DEF Typed, Table, File, Pair, Cost, Count
<1> QED BY <1>1 DEF Typed, File, Pair, Cur, Uncosted, Cost, Count, Owing

\* Steps that leave both files as they are, and end no launch early.
LEMMA SameFiles ==
  ASSUME CInv, Kept, IInv', UNCHANGED ended,
         disk'["comm"] = disk["comm"], disk'["count"] = disk["count"],
         ~ (phase = "flushing" /\ pos = 3), ~ (phase' = "flushing" /\ pos' = 3),
         phase' = "closing" => phase = "closing" /\ Cur' = Cur,
         repeat' \in Key =>
           \/ buffer'["comm"] <= buffer'["count"]
           \/ Cur' = Cur /\ buffer'["comm"] = buffer["comm"] /\ buffer'["count"] = buffer["count"]
  PROVE  Costs'
<1>1. Typed /\ Typed' /\ Costs
  BY DEF CInv, IInv, Core
<1>2. \A a \in Pair : Cost(a)' = Cost(a) /\ Count(a)' = Count(a)
  BY DEF Cost, Count
<1>3. \A a \in Pair : Cost(a) <= Count(a)
  BY <1>1 DEF Costs
<1>4. /\ repeat' \in Key => Cur' \in Pair
      /\ buffer'["comm"] \in Nat /\ buffer'["count"] \in Nat
  BY <1>1, CostTypes DEF Cur, Pair, Typed, File
<1>5. ASSUME repeat' \in Key
      PROVE  Cost(Cur)' + buffer'["comm"] <= Count(Cur)' + buffer'["count"]
  <2>1. CASE buffer'["comm"] <= buffer'["count"]
    <3>1. Cost(Cur)' = Cost(Cur') /\ Count(Cur)' = Count(Cur')
      BY DEF Cost, Count
    <3>2. Cost(Cur') \in Nat /\ Count(Cur') \in Nat /\ Cost(Cur') <= Count(Cur')
      BY <1>1, <1>3, <1>4, <1>5, CostTypes
    <3> QED BY <1>4, <2>1, <3>1, <3>2
  <2>2. CASE /\ Cur' = Cur
             /\ buffer'["comm"] = buffer["comm"] /\ buffer'["count"] = buffer["count"]
    <3>1. repeat = repeat'
      BY <2>2 DEF Cur
    <3> QED BY <1>1, <1>5, <2>2, <3>1 DEF Costs, Cost, Count
  <2> QED BY <1>5, <2>1, <2>2
<1>6. Uncosted' = Uncosted
  BY DEF Uncosted
<1>7. Cardinality(Late') <= ended
  <2>1. Cardinality(Late) <= ended /\ ended \in Nat
    BY <1>1 DEF Costs
  <2>2. CASE phase' = "closing"
    BY <1>6, <2>1, <2>2 DEF Late
  <2>3. CASE phase' # "closing"
    <3>1. Late' = Uncosted
      BY <1>6, <2>3 DEF Late
    <3>2. Late = Uncosted \/ Late = Uncosted \union {Cur}
      BY DEF Late
    <3>3. Uncosted \in SUBSET Pair
      BY <1>1, CostTypes
    <3>4. /\ Cardinality(Uncosted) \in Nat
          /\ Cardinality(Uncosted \union {Cur}) \in Nat
          /\ Cardinality(Uncosted) <= Cardinality(Uncosted \union {Cur})
      BY <3>3, PairSets
    <3> QED BY <2>1, <3>1, <3>2, <3>4
  <2> QED BY <2>2, <2>3
<1>8. (\A a \in Pair : Cost(a) <= Count(a))'
  BY <1>2, <1>3
<1> QED BY <1>1, <1>5, <1>7, <1>8 DEF Costs

LEMMA QuietCosts ==
  ASSUME CInv, [Next]_vars, IInv',
         \/ \E resume \in BOOLEAN : Launch(resume)
         \/ Prune \/ Skip \/ Finish \/ Spill
         \/ \E x \in Outcome : RunOneRepeat(x)
         \/ UNCHANGED vars
  PROVE  Costs'
<1>1. Typed /\ Buffers /\ Costs
  BY DEF CInv, IInv, Core
<1>2. ended' = ended
  BY DEF Launch, Prune, Skip, Finish, Spill, RunOneRepeat, vars
<1>3. disk'["comm"] = disk["comm"] /\ disk'["count"] = disk["count"]
  <2>1. CASE Prune
    BY <1>1, <2>1 DEF Prune, Typed, File
  <2>2. CASE Spill
    BY <1>1, <2>2 DEF Spill, Out, Typed, File
  <2> QED BY <2>1, <2>2 DEF Launch, Skip, Finish, RunOneRepeat, vars
<1>4. Kept' => Kept
  BY DEF Kept, Launch, Prune, Skip, Finish, Spill, RunOneRepeat, vars
<1>5. CASE \/ \E resume \in BOOLEAN : Launch(resume)
           \/ Prune \/ Skip \/ Finish
           \/ \E x \in Outcome : RunOneRepeat(x)
  <2>1. /\ phase \in {"off", "pruning", "ready"} /\ buffer' = buffer
        /\ phase' \in {"pruning", "opening", "ready", "off", "writing"}
    BY <1>5 DEF Launch, Prune, Skip, Finish, RunOneRepeat
  <2>2. buffer'["comm"] = 0 /\ buffer'["count"] = 0
    BY <1>1, <2>1, EmptyIs DEF Buffers, File
  <2> QED BY <1>1, <1>2, <1>3, <1>4, <2>1, <2>2, SameFiles DEF Costs
<1>6. CASE Spill \/ UNCHANGED vars
  <2>1. /\ UNCHANGED <<phase, pos, repeat, outcome>>
        /\ buffer'["comm"] = buffer["comm"] /\ buffer'["count"] = buffer["count"]
    BY <1>1, <1>6 DEF Spill, Out, Typed, File, vars
  <2>2. Cur' = Cur
    BY <2>1 DEF Cur
  <2>3. CASE ~ (phase = "flushing" /\ pos = 3)
    BY <1>1, <1>2, <1>3, <1>4, <2>1, <2>2, <2>3, SameFiles DEF Costs
  <2>4. CASE phase = "flushing" /\ pos = 3
    <3>1. Late' = Late
      <4>1. Owing' = Owing
        BY <1>3, <2>2 DEF Owing, Cost, Count
      <4> QED BY <2>1, <2>4, <4>1 DEF Late
    <3> QED BY <1>1, <1>2, <1>3, <1>4, <2>1, <2>2, <3>1 DEF Costs, Cost, Count
  <2> QED BY <2>3, <2>4
<1> QED BY <1>5, <1>6
LEMMA OpenCosts == ASSUME CInv, OpenWriter, IInv' PROVE Costs'
<1>1. Typed /\ Opening /\ Buffers /\ Costs /\ Typed'
  BY DEF CInv, IInv, Core
<1>2. ended' = ended /\ ended \in Nat
  BY <1>1 DEF OpenWriter, Costs
<1> SUFFICES ASSUME Kept'
             PROVE  /\ \A a \in Pair : Cost(a)' <= Count(a)'
                    /\ repeat' \in Key =>
                         Cost(Cur)' + buffer'["comm"] <= Count(Cur)' + buffer'["count"]
                    /\ Cardinality(Late') <= ended
  BY <1>2 DEF Costs
<1>3. pos = 4 /\ phase' = "ready" /\ repeat' = 1 /\ buffer' = Empty
  BY <1>1, OrderFacts DEF OpenWriter, Kept, Opening, Typed, Buffers
<1>4. disk'["comm"] = NoRows /\ disk'["count"] = NoRows
  BY <1>1, <1>3, OrderFacts DEF OpenWriter, Opening, Typed
<1>5. \A a \in Pair : Cost(a)' = 0 /\ Count(a)' = 0
  BY <1>4 DEF NoRows, Pair, Cost, Count
<1>6. Uncosted' = {}
  BY <1>5 DEF Uncosted, Pair, Cost, Count
<1>7. Cardinality(Late') = 0
  BY <1>3, <1>6, FS_EmptySet DEF Late
<1>8. repeat' \in Key => Cost(Cur)' = 0 /\ Count(Cur)' = 0
  <2>1. repeat' \in Key => Cur' \in Pair
    BY <1>1 DEF Cur, Pair, Typed
  <2> QED BY <1>4, <2>1 DEF NoRows, Pair, Cost, Count
<1> QED BY <1>2, <1>3, <1>5, <1>7, <1>8, EmptyIs DEF File

LEMMA WriteCosts == ASSUME CInv, Write, IInv' PROVE Costs'
<1>1. Typed /\ Typed' /\ Buffers /\ Costs /\ Filled
  BY DEF CInv, IInv, Core
<1>2. /\ phase = "writing" /\ phase' \in {"writing", "flushing"}
      /\ phase' = "flushing" => pos' = 1
      /\ UNCHANGED <<repeat, outcome, disk, ended, cut>>
      /\ buffer' = [buffer EXCEPT ![Order[pos]] = Rows(Order[pos], outcome)]
      /\ pos \in 1..4
  BY <1>1 DEF Write, Typed
<1>3. Kept' => Kept
  BY <1>2 DEF Kept
<1>4. \/ buffer'["comm"] <= buffer'["count"]
      \/ buffer'["comm"] = buffer["comm"] /\ buffer'["count"] = buffer["count"]
  <2>1. CASE pos \in {2, 3}
    <3>1. Rows("comm", outcome) = 1 /\ Rows("count", outcome) = 1
      BY DEF Rows
    <3>2. CASE pos = 2
      <4>1. Order[pos] = "count" /\ buffer["comm"] = 0
        BY <1>1, <1>2, <3>2, OrderFacts DEF Buffers
      <4> QED BY <1>1, <1>2, <3>1, <4>1 DEF Typed, File
    <3>3. CASE pos = 3
      <4>1. Order[pos] = "comm" /\ buffer["count"] = 1
        BY <1>1, <1>2, <3>3, OrderFacts DEF Filled
      <4> QED BY <1>1, <1>2, <3>1, <4>1 DEF Typed, File
    <3> QED BY <2>1, <3>2, <3>3
  <2>2. CASE pos \notin {2, 3}
    BY <1>1, <1>2, <2>2, OrderFacts DEF Typed, File
  <2> QED BY <2>1, <2>2
<1>5. Cur' = Cur
  BY <1>2 DEF Cur
<1> QED BY <1>1, <1>2, <1>3, <1>4, <1>5, SameFiles DEF Costs

LEMMA FlushCosts == ASSUME CInv, Flush, IInv' PROVE Costs'
<1> DEFINE f == Order[pos]
<1>1. Typed /\ Typed' /\ Buffers /\ Costs /\ Filled
  BY DEF CInv, IInv, Core
<1>2. /\ phase = "flushing" /\ pos \in 1..4 /\ repeat \in Key
      /\ pos = 4 => phase' = "ready"
      /\ pos # 4 => phase' = "flushing" /\ pos' = pos + 1 /\ repeat' = repeat
      /\ UNCHANGED <<outcome, ended, cut>>
      /\ f \in File /\ Out(f, buffer[f])
  BY <1>1, OrderFacts DEF Flush, Typed, Buffers
<1>3. Kept' => Kept
  BY <1>2 DEF Kept
<1>4. buffer[f] \in Nat /\ buffer[f] <= buffer[f]
  BY <1>1, <1>2 DEF Typed
<1> HIDE DEF f
<1>5. /\ buffer'[f] = 0
      /\ disk'[f][repeat][outcome] = disk[f][repeat][outcome] + buffer[f]
      /\ \A x \in Outcome \ {outcome} : disk'[f][repeat][x] = disk[f][repeat][x]
      /\ \A k \in Key \ {repeat} : disk'[f][k] = disk[f][k]
      /\ \A h \in File \ {f} : buffer'[h] = buffer[h] /\ disk'[h] = disk[h]
  BY <1>1, <1>2, <1>4, OutFacts
<1>6. CASE pos \in {1, 4}
  <2>1. f \notin {"count", "comm"}
    BY <1>6, OrderFacts DEF f
  <2>2. /\ disk'["comm"] = disk["comm"] /\ disk'["count"] = disk["count"]
        /\ buffer'["comm"] = buffer["comm"] /\ buffer'["count"] = buffer["count"]
    BY <1>5, <2>1 DEF File
  <2>3. CASE pos = 1
    <3>1. Cur' = Cur
      BY <1>2, <2>3 DEF Cur
    <3> QED BY <1>1, <1>2, <1>3, <2>2, <2>3, <3>1, SameFiles DEF Costs
  <2>4. CASE pos = 4
    <3>1. phase' = "ready" /\ buffer' = Empty
      BY <1>2, <2>4 DEF CInv, IInv, Core, Buffers
    <3> QED BY <1>1, <1>2, <1>3, <2>2, <2>4, <3>1, EmptyIs, SameFiles DEF Costs, File
  <2> QED BY <1>6, <2>3, <2>4
<1>7. CASE pos \in {2, 3}
  <2>1. /\ f = IF pos = 2 THEN "count" ELSE "comm"
        /\ phase' = "flushing" /\ pos' = pos + 1 /\ Cur' = Cur /\ repeat' = repeat
        /\ buffer[f] = 1
    BY <1>1, <1>2, <1>7, OrderFacts DEF f, Cur, Filled
  <2>2. Cur \in Pair /\ Cur[1] = repeat /\ Cur[2] = outcome
    BY <1>1, <1>2 DEF Pair, Cur, Typed
  <2>3. \A a \in Pair :
          /\ Cost(a)' = Cost(a) + (IF pos = 3 /\ a = Cur THEN 1 ELSE 0)
          /\ Count(a)' = Count(a) + (IF pos = 2 /\ a = Cur THEN 1 ELSE 0)
    <3> SUFFICES ASSUME NEW a \in Pair
                 PROVE  /\ Cost(a)' = Cost(a) + (IF pos = 3 /\ a = Cur THEN 1 ELSE 0)
                        /\ Count(a)' = Count(a) + (IF pos = 2 /\ a = Cur THEN 1 ELSE 0)
      OBVIOUS
    <3>1. Cost(a) \in Nat /\ Count(a) \in Nat
      BY <1>1, CostTypes
    <3>2. a = Cur <=> a[1] = repeat /\ a[2] = outcome
      BY DEF Pair, Cur
    <3>3. a[1] \in Key /\ a[2] \in Outcome
      BY DEF Pair
    <3>4. disk'[f][a[1]][a[2]] = disk[f][a[1]][a[2]] + (IF a = Cur THEN 1 ELSE 0)
      <4>1. disk[f][a[1]][a[2]] \in Nat
        <5>1. disk[f] \in [Key -> [Outcome -> Nat]]
          BY <1>1, <1>2 DEF Typed, Table
        <5> QED BY <3>3, <5>1
      <4> QED BY <1>5, <2>1, <3>2, <3>3, <4>1
    <3>5. \A h \in {"count", "comm"} \ {f} : disk'[h] = disk[h]
      BY <1>5 DEF File
    <3> QED BY <1>7, <2>1, <3>1, <3>4, <3>5 DEF Cost, Count
  <2>4. ASSUME Kept' PROVE Cardinality(Late') <= ended
    <3>1. Cardinality(Late) <= ended
      BY <1>1, <1>3, <2>4 DEF Costs
    <3>2. Uncosted = {a \in Pair : Cost(a) # Count(a)} /\ Uncosted' = {a \in Pair : Cost(a)' # Count(a)'}
      BY DEF Uncosted, Pair, Cost, Count
    <3>3. \A a \in Pair : Cost(a) \in Nat /\ Count(a) \in Nat
      BY <1>1, CostTypes
    <3>4. CASE pos = 2
      <4>1. Late = Uncosted /\ Late' = Owing'
        BY <1>2, <2>1, <3>4 DEF Late
      <4>2. Owing' = {a \in Pair : Cost(a)' + (IF a = Cur THEN 1 ELSE 0) # Count(a)'}
        BY <2>1 DEF Owing
      <4>3. \A a \in Pair : Cost(a)' + (IF a = Cur THEN 1 ELSE 0) # Count(a)' <=> Cost(a) # Count(a)
        BY <2>3, <3>3, <3>4
      <4> QED BY <3>1, <3>2, <4>1, <4>2, <4>3
    <3>5. CASE pos = 3
      <4>1. Late = Owing /\ Late' = Uncosted'
        BY <1>2, <2>1, <3>5 DEF Late
      <4>2. \A a \in Pair : Cost(a)' # Count(a)' <=> Cost(a) + (IF a = Cur THEN 1 ELSE 0) # Count(a)
        BY <2>3, <3>3, <3>5
      <4> QED BY <3>1, <3>2, <4>1, <4>2 DEF Owing
    <3> QED BY <1>7, <3>4, <3>5
  <2>5. ASSUME Kept' PROVE Cost(Cur)' + buffer'["comm"] <= Count(Cur)' + buffer'["count"]
    <3>1. Cost(Cur)' = Cost(Cur)  + (IF pos = 3 THEN 1 ELSE 0)
          /\ Count(Cur)' = Count(Cur) + (IF pos = 2 THEN 1 ELSE 0)
      <4>1. disk'["comm"][repeat][outcome] = disk["comm"][repeat][outcome] + (IF pos = 3 THEN 1 ELSE 0)
            /\ disk'["count"][repeat][outcome] = disk["count"][repeat][outcome] + (IF pos = 2 THEN 1 ELSE 0)
        BY <2>2, <2>3 DEF Cost, Count
      <4> QED BY <1>2, <2>1, <2>2, <4>1 DEF Cost, Count
    <3>2. buffer'["comm"] = buffer["comm"] - (IF pos = 3 THEN 1 ELSE 0)
          /\ buffer'["count"] = buffer["count"] - (IF pos = 2 THEN 1 ELSE 0)
      BY <1>1, <1>5, <1>7, <2>1 DEF Typed, File
    <3>3. Cost(Cur) + buffer["comm"] <= Count(Cur) + buffer["count"]
      BY <1>1, <1>2, <1>3, <2>5 DEF Costs
    <3>4. /\ Cost(Cur) \in Nat /\ Count(Cur) \in Nat
          /\ buffer["comm"] \in Nat /\ buffer["count"] \in Nat
      BY <1>1, <2>2, CostTypes
    <3> QED BY <3>1, <3>2, <3>3, <3>4
  <2>6. ASSUME Kept' PROVE \A a \in Pair : Cost(a)' <= Count(a)'
    <3>1. \A a \in Pair : Cost(a) \in Nat /\ Count(a) \in Nat /\ Cost(a) <= Count(a)
      BY <1>1, <1>3, <2>6, CostTypes DEF Costs
    <3>2. pos = 3 => Cost(Cur) + 1 <= Count(Cur)
      <4>1. pos = 3 => buffer["count"] = 0 /\ buffer["comm"] = 1
        BY <1>1, <1>2, <2>1, OrderFacts DEF Buffers
      <4> QED BY <1>1, <1>2, <1>3, <2>2, <2>6, <3>1, <4>1 DEF Costs
    <3> QED BY <2>2, <2>3, <3>1, <3>2
  <2> QED BY <1>1, <1>2, <2>1, <2>4, <2>5, <2>6 DEF Costs
<1> QED BY <1>2, <1>6, <1>7
\* A launch that ends early may cost the attempt in progress its row, no other.
LEMMA OneMore ==
  ASSUME CInv, Kept
  PROVE  /\ Uncosted \in SUBSET Pair
         /\ Cardinality(Uncosted) <= ended + 1
         /\ Cardinality(Uncosted \union {Cur}) <= ended + 1
<1>1. Typed /\ Costs /\ ended \in Nat /\ Cardinality(Late) <= ended
  BY DEF CInv, IInv, Core, Costs
<1>2. /\ Uncosted \in SUBSET Pair /\ Owing \in SUBSET Pair
      /\ \A a \in Pair : Cost(a) \in Nat
      /\ Uncosted = {a \in Pair : Cost(a) # Count(a)}
  BY <1>1, CostTypes
<1>3. Uncosted \union {Cur} \subseteq Owing \union {Cur}
  BY <1>2 DEF Owing
<1>4. \A S \in SUBSET Pair :
        /\ Cardinality(S) \in Nat /\ Cardinality(S \union {Cur}) \in Nat
        /\ Cardinality(S) <= Cardinality(S \union {Cur})
        /\ Cardinality(S \union {Cur}) <= Cardinality(S) + 1
        /\ \A T \in SUBSET (S \union {Cur}) : Cardinality(T) <= Cardinality(S \union {Cur})
  BY PairSets
<1>5. CASE Late = Uncosted \union {Cur}
  <2>1. /\ Cardinality(Uncosted) \in Nat /\ Cardinality(Uncosted \union {Cur}) \in Nat
        /\ Cardinality(Uncosted) <= Cardinality(Uncosted \union {Cur})
    BY <1>2, <1>4
  <2> QED BY <1>1, <1>2, <1>5, <2>1
<1>6. CASE Late = Owing
  <2>1. Cardinality(Uncosted \union {Cur}) <= Cardinality(Owing \union {Cur})
    BY <1>2, <1>3, <1>4
  <2>2. Cardinality(Owing \union {Cur}) <= Cardinality(Owing) + 1
    BY <1>2, <1>4
  <2>3. /\ Cardinality(Uncosted) \in Nat /\ Cardinality(Uncosted \union {Cur}) \in Nat
        /\ Cardinality(Uncosted) <= Cardinality(Uncosted \union {Cur})
        /\ Cardinality(Owing) \in Nat /\ Cardinality(Owing \union {Cur}) \in Nat
    BY <1>2, <1>4
  <2> QED BY <1>1, <1>2, <1>6, <2>1, <2>2, <2>3
<1>7. CASE Late = Uncosted
  <2>1. /\ Cardinality(Uncosted) \in Nat /\ Cardinality(Uncosted \union {Cur}) \in Nat
        /\ Cardinality(Uncosted \union {Cur}) <= Cardinality(Uncosted) + 1
    BY <1>2, <1>4
  <2> QED BY <1>1, <1>2, <1>7, <2>1
<1> QED BY <1>5, <1>6, <1>7 DEF Late

LEMMA InterruptCosts == ASSUME CInv, Interrupt, IInv' PROVE Costs'
<1>1. Typed /\ Typed' /\ Buffers /\ Costs /\ Filled
  BY DEF CInv, IInv, Core
<1>2. /\ phase \in {"ready", "writing", "flushing"} /\ phase' = "closing"
      /\ UNCHANGED <<repeat, outcome, disk, cut>>
      /\ ended' = ended + 1 /\ pos \in 1..4
  BY <1>1 DEF Interrupt, Typed
<1>3. Kept' => Kept
  BY <1>2 DEF Kept
<1>4. /\ Cur' = Cur /\ Uncosted' = Uncosted
      /\ \A a \in Pair : Cost(a)' = Cost(a) /\ Count(a)' = Count(a)
      /\ Cost(Cur)' = Cost(Cur) /\ Count(Cur)' = Count(Cur)
  BY <1>2 DEF Cur, Uncosted, Cost, Count
<1>5. ASSUME Kept' PROVE Cardinality(Late') <= ended'
  <2>1. Late' = Uncosted \union {Cur}
    BY <1>2, <1>4 DEF Late
  <2> QED BY <1>2, <1>3, <1>5, <2>1, OneMore
<1>6. ASSUME Kept', repeat \in Key
      PROVE  Cost(Cur) + buffer'["comm"] <= Count(Cur) + buffer'["count"]
  <2>1. /\ Cost(Cur) \in Nat /\ Count(Cur) \in Nat /\ Cost(Cur) <= Count(Cur)
        /\ Cost(Cur) + buffer["comm"] <= Count(Cur) + buffer["count"]
    BY <1>1, <1>3, <1>6, CostTypes DEF Costs
  <2>2. /\ buffer["comm"] \in Nat /\ buffer["count"] \in Nat
        /\ buffer'["comm"] \in Nat /\ buffer'["count"] \in Nat
    BY <1>1 DEF Typed, File
  <2>3. PICK m \in IF phase = "writing" THEN 0..Rows(Order[pos], outcome) ELSE {buffer[Order[pos]]} :
          buffer' = [buffer EXCEPT ![Order[pos]] = m]
    BY DEF Interrupt
  <2>4. CASE phase # "writing" \/ pos \in {1, 4}
    <3>1. buffer'["comm"] = buffer["comm"] /\ buffer'["count"] = buffer["count"]
      BY <1>1, <1>2, <2>3, <2>4, OrderFacts DEF Typed, File
    <3> QED BY <2>1, <3>1
  <2>5. CASE phase = "writing" /\ pos = 2
    <3>1. buffer["comm"] = 0 /\ Order[pos] = "count"
      BY <1>1, <2>5, OrderFacts DEF Buffers
    <3>2. buffer'["comm"] = 0
      BY <1>1, <2>3, <3>1 DEF Typed, File
    <3> QED BY <2>1, <2>2, <3>2
  <2>6. CASE phase = "writing" /\ pos = 3
    <3>1. buffer["count"] = 1 /\ Order[pos] = "comm" /\ Rows("comm", outcome) = 1
      BY <1>1, <2>6, OrderFacts DEF Filled, Rows
    <3>2. buffer'["count"] = 1 /\ buffer'["comm"] <= 1
      BY <1>1, <2>3, <2>6, <3>1 DEF Typed, File
    <3> QED BY <2>1, <2>2, <3>2
  <2> QED BY <1>2, <2>4, <2>5, <2>6
<1> QED BY <1>1, <1>2, <1>3, <1>4, <1>5, <1>6 DEF Costs

LEMMA CloseCosts == ASSUME CInv, Close, IInv' PROVE Costs'
<1> DEFINE f == Order[pos]
<1>1. Typed /\ Typed' /\ Buffers /\ Costs
  BY DEF CInv, IInv, Core
<1>2. /\ phase = "closing" /\ pos \in 1..4 /\ phase' \in {"closing", "off"}
      /\ UNCHANGED <<repeat, outcome, ended, cut>>
      /\ IF buffer[f] = 0 THEN UNCHANGED <<buffer, disk>> ELSE Out(f, buffer[f])
      /\ f \in File /\ buffer[f] \in Nat /\ buffer[f] <= buffer[f]
  BY <1>1, OrderFacts DEF Close, Typed
<1>3. (Kept' => Kept) /\ Cur' = Cur
  BY <1>2 DEF Kept, Cur
<1>4. buffer[f] # 0 => repeat \in Key
  BY <1>1, <1>2, EmptyIs DEF Buffers
<1>5. f = "comm" => buffer["count"] = 0
  BY <1>1, <1>2, OrderFacts DEF Buffers
<1> HIDE DEF f
<1>6. CASE buffer[f] = 0
  <2>1. disk' = disk /\ buffer' = buffer
    BY <1>2, <1>6
  <2> QED BY <1>1, <1>2, <1>3, <2>1, SameFiles DEF Costs
<1>7. CASE buffer[f] # 0
  <2>1. /\ buffer'[f] = 0 /\ repeat \in Key
        /\ disk'[f][repeat][outcome] = disk[f][repeat][outcome] + buffer[f]
        /\ \A x \in Outcome \ {outcome} : disk'[f][repeat][x] = disk[f][repeat][x]
        /\ \A k \in Key \ {repeat} : disk'[f][k] = disk[f][k]
        /\ \A h \in File \ {f} : buffer'[h] = buffer[h] /\ disk'[h] = disk[h]
    BY <1>1, <1>2, <1>4, <1>7, OutFacts
  <2>2. Cur \in Pair /\ Cur[1] = repeat /\ Cur[2] = outcome
    BY <1>1, <2>1 DEF Pair, Cur, Typed
  <2>3. \A a \in Pair \ {Cur} : Cost(a)' = Cost(a) /\ Count(a)' = Count(a)
    <3> SUFFICES ASSUME NEW a \in Pair, a # Cur, NEW h \in File
                 PROVE  disk'[h][a[1]][a[2]] = disk[h][a[1]][a[2]]
      BY DEF Cost, Count, File
    <3>1. a[1] \in Key /\ a[2] \in Outcome /\ (a[1] # repeat \/ a[2] # outcome)
      BY DEF Pair, Cur
    <3> QED BY <2>1, <3>1
  <2>4. /\ Cost(Cur)' = Cost(Cur) + (IF f = "comm" THEN buffer["comm"] ELSE 0)
        /\ Count(Cur)' = Count(Cur) + (IF f = "count" THEN buffer["count"] ELSE 0)
        /\ buffer'["comm"] = IF f = "comm" THEN 0 ELSE buffer["comm"]
        /\ buffer'["count"] = IF f = "count" THEN 0 ELSE buffer["count"]
    <3>1. /\ Cost(Cur) \in Nat /\ Count(Cur) \in Nat
          /\ Cost(Cur)' = disk'["comm"][repeat][outcome]
          /\ Count(Cur)' = disk'["count"][repeat][outcome]
          /\ Cost(Cur) = disk["comm"][repeat][outcome]
          /\ Count(Cur) = disk["count"][repeat][outcome]
      BY <1>1, <1>2, <1>3, <2>2, CostTypes DEF Cost, Count
    <3> QED BY <2>1, <3>1 DEF File
  <2>5. ASSUME Kept'
        PROVE  /\ Cost(Cur)' <= Count(Cur)'
               /\ Cost(Cur)' + buffer'["comm"] <= Count(Cur)' + buffer'["count"]
    <3>1. /\ Cost(Cur) <= Count(Cur)
          /\ Cost(Cur) + buffer["comm"] <= Count(Cur) + buffer["count"]
      BY <1>1, <1>3, <2>1, <2>2, <2>5 DEF Costs
    <3>2. /\ Cost(Cur) \in Nat /\ Count(Cur) \in Nat
          /\ buffer["comm"] \in Nat /\ buffer["count"] \in Nat
      BY <1>1, <2>2, CostTypes
    <3> QED BY <1>5, <2>4, <3>1, <3>2
  <2>6. ASSUME Kept' PROVE \A a \in Pair : Cost(a)' <= Count(a)'
    <3>1. \A a \in Pair : Cost(a) <= Count(a)
      BY <1>1, <1>3, <2>6 DEF Costs
    <3>2. Cost(Cur') = Cost(Cur) /\ Count(Cur') = Count(Cur)
      BY <1>3
    <3>3. ASSUME NEW a \in Pair, a = Cur PROVE Cost(a)' <= Count(a)'
      <4>1. Cost(a)' = Cost(Cur)' /\ Count(a)' = Count(Cur)'
        BY <1>3, <3>3 DEF Cost, Count
      <4> QED BY <2>5, <2>6, <4>1
    <3> QED BY <2>3, <3>1, <3>3
  <2>7. ASSUME Kept' PROVE Cardinality(Late') <= ended
    <3>1. Uncosted' \union {Cur} = Uncosted \union {Cur} /\ Uncosted \in SUBSET Pair
      <4>1. Uncosted = {a \in Pair : Cost(a) # Count(a)} /\ Uncosted' = {a \in Pair : Cost(a)' # Count(a)'}
        BY DEF Uncosted, Pair, Cost, Count
      <4> QED BY <2>2, <2>3, <4>1
    <3>2. Late = Uncosted \union {Cur} /\ (Late' = Uncosted' \union {Cur} \/ Late' = Uncosted')
      BY <1>2, <1>3 DEF Late
    <3>3. Cardinality(Late) <= ended /\ ended \in Nat
      BY <1>1, <1>3, <2>7 DEF Costs
    <3>4. /\ Cardinality(Uncosted \union {Cur}) \in Nat
          /\ \A T \in SUBSET (Uncosted \union {Cur}) :
               Cardinality(T) <= Cardinality(Uncosted \union {Cur}) /\ Cardinality(T) \in Nat
      <4>1. IsFiniteSet(Uncosted \union {Cur})
        BY <3>1, PairSets
      <4> QED BY <4>1, FS_Subset, FS_CardinalityType
    <3>5. Late' \in SUBSET (Uncosted \union {Cur})
      BY <3>1, <3>2
    <3>6. Cardinality(Late') <= Cardinality(Late) /\ Cardinality(Late') \in Nat /\ Cardinality(Late) \in Nat
      BY <3>2, <3>4, <3>5
    <3> QED BY <3>3, <3>6
  <2> QED BY <1>1, <1>2, <2>5, <2>6, <2>7 DEF Costs
<1> QED BY <1>6, <1>7

LEMMA CrashCosts == ASSUME CInv, Crash, IInv' PROVE Costs'
<1>1. Typed /\ Typed' /\ Buffers /\ Costs
  BY DEF CInv, IInv, Core
<1>2. /\ phase' = "off" /\ buffer' = Empty /\ ended' = ended + 1
      /\ UNCHANGED <<repeat, outcome, disk>>
  BY DEF Crash
<1>3. Kept' => Kept
  BY <1>1 DEF Crash, Kept, Typed
<1>4. /\ Uncosted' = Uncosted
      /\ \A a \in Pair : Cost(a)' = Cost(a) /\ Count(a)' = Count(a)
      /\ Cost(Cur)' = Cost(Cur) /\ Count(Cur)' = Count(Cur)
  BY <1>2 DEF Cur, Uncosted, Cost, Count
<1>5. ASSUME Kept' PROVE Cardinality(Late') <= ended'
  BY <1>2, <1>3, <1>4, <1>5, OneMore DEF Late
<1>6. ASSUME Kept', repeat' \in Key
      PROVE  Cost(Cur)' + buffer'["comm"] <= Count(Cur)' + buffer'["count"]
  <2>1. Cost(Cur) \in Nat /\ Count(Cur) \in Nat /\ Cost(Cur) <= Count(Cur)
    BY <1>1, <1>2, <1>3, <1>6, CostTypes DEF Costs
  <2> QED BY <1>2, <1>4, <2>1, EmptyIs DEF File
<1> QED BY <1>1, <1>2, <1>3, <1>4, <1>5, <1>6 DEF Costs

LEMMA HeaderCrashCosts == ASSUME CInv, CrashInHeader PROVE Costs'
<1>1. cut' /\ ended' = ended + 1 /\ ended \in Nat
  BY DEF CInv, Costs, CrashInHeader
<1> QED BY <1>1 DEF Costs, Kept

LEMMA CInvariance == Spec => []CInv
<1>1. Init => CInv
  <2> SUFFICES ASSUME Init PROVE CInv
    OBVIOUS
  <2>1. IInv /\ Filled /\ ended = 0
    BY InitInv DEF Init, Filled
  <2>2. \A a \in Pair : Cost(a) = 0 /\ Count(a) = 0
    BY DEF Init, NoRows, File, Pair, Cost, Count
  <2>3. Late = {}
    BY <2>2 DEF Init, Late, Uncosted, Pair, Cost, Count
  <2>4. repeat \in Key => Cost(Cur) = 0 /\ Count(Cur) = 0
    BY <2>1, <2>2 DEF IInv, Core, Typed, Cur, Pair
  <2>5. buffer["comm"] = 0 /\ buffer["count"] = 0 /\ Cardinality({}) = 0
    BY EmptyIs, FS_EmptySet DEF Init, File
  <2> QED BY <2>1, <2>2, <2>3, <2>4, <2>5 DEF CInv, Costs
<1>2. CInv /\ [Next]_vars => CInv'
  <2> SUFFICES ASSUME CInv, [Next]_vars PROVE CInv'
    OBVIOUS
  <2>1. IInv' /\ Filled'
    BY StepInv, FilledStep DEF CInv
  <2>2. Costs'
    BY <2>1, QuietCosts, OpenCosts, WriteCosts, FlushCosts, InterruptCosts, CloseCosts, CrashCosts,
       HeaderCrashCosts DEF Next
  <2> QED BY <2>1, <2>2 DEF CInv
<1> QED BY <1>1, <1>2, PTL DEF Spec

\* The costs never run ahead of the counts, and of the attempts counted no more
\* lack their cost than launches were killed or interrupted.
THEOREM CostsBehind == Spec => []CostsFollowCounts
<1>1. CInv => CostsFollowCounts
  <2> SUFFICES ASSUME CInv, Whole
               PROVE  /\ \A k \in Key, x \in Outcome : disk["comm"][k][x] <= disk["count"][k][x]
                      /\ phase = "off" => Cardinality(Uncosted) <= ended
    BY DEF CostsFollowCounts
  <2>1. Costs /\ Kept
    BY DEF CInv, Whole, Kept
  <2>2. \A a \in Pair : Cost(a) <= Count(a)
    BY <2>1 DEF Costs
  <2>3. \A k \in Key, x \in Outcome : disk["comm"][k][x] <= disk["count"][k][x]
    <3> SUFFICES ASSUME NEW k \in Key, NEW x \in Outcome
                 PROVE  disk["comm"][k][x] <= disk["count"][k][x]
      OBVIOUS
    <3>1. <<k, x>> \in Pair
      BY DEF Pair
    <3> QED BY <2>2, <3>1 DEF Cost, Count
  <2>4. phase = "off" => Cardinality(Uncosted) <= ended
    BY <2>1 DEF Costs, Late
  <2> QED BY <2>3, <2>4
<1> QED BY <1>1, CInvariance, PTL
=============================================================================
