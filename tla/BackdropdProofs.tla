-------------------------- MODULE BackdropdProofs --------------------------
(***************************************************************************)
(* For any number of outputs, backdrops, signals and failures:             *)
(* ChildrenInvariant is inductive, and OneBackdrop and NoneForgotten       *)
(* follow; with StreamInvariant and MirrorInvariant, so does ShowsNewest.  *)
(***************************************************************************)
EXTENDS Backdropd, TLAPS, SequenceTheorems

\* Changing one child's state keeps the table's shape and everything else in it.
LEMMA StateChange ==
    ASSUME NEW table \in Seq(Children), NEW i \in 1..Len(table), NEW s \in ChildStates,
           NEW new, new = [table EXCEPT ![i].state = s]
    PROVE  /\ new \in Seq(Children)
           /\ Len(new) = Len(table)
           /\ \A j \in 1..Len(table) : new[j].value = table[j].value
           /\ \A j \in 1..Len(table) : j # i => new[j] = table[j]
           /\ new[i].state = s
<1>6. table[i] \in Children
  OBVIOUS
<1>1. [table[i] EXCEPT !.state = s] \in Children
  BY <1>6 DEF Children
<1>2. new = [table EXCEPT ![i] = [table[i] EXCEPT !.state = s]]
  OBVIOUS
<1>3. new \in Seq(Children) /\ Len(new) = Len(table)
  BY <1>1, <1>2, ExceptSeq
<1>4. new[i] = [table[i] EXCEPT !.state = s]
  BY <1>2
<1>5. \A j \in 1..Len(table) : j # i => new[j] = table[j]
  BY <1>2
<1>7. table[i] = [output |-> table[i].output, state |-> table[i].state, value |-> table[i].value]
  BY <1>6 DEF Children
<1>8. new[i].state = s /\ new[i].value = table[i].value
  BY <1>4, <1>7
<1> QED BY <1>3, <1>5, <1>8

\* A probe's table has the layout's length and only children of the current backdrop.
LEMMA ProbeTable ==
    ASSUME NEW layout \in Layouts, value \in Values, BackdropdAssumption,
           NEW table, table = EmptyTable(layout)
    PROVE  /\ table \in Seq(Children)
           /\ Len(table) = Len(layout)
           /\ \A i \in 1..Len(layout) : table[i].value = value
<1>1. layout \in Seq(STRING) /\ Len(layout) \in Nat
  BY DEF BackdropdAssumption
<1>2. \A i \in 1..Len(layout) : layout[i] \in STRING
  BY <1>1
<1>3. table \in [1..Len(layout) -> Children]
  BY <1>2 DEF EmptyTable, Children, ChildStates
<1>4. table \in Seq(Children) /\ Len(table) = Len(layout)
  BY <1>1, <1>3
<1> QED BY <1>4 DEF EmptyTable

\* The initial states have an empty table.
LEMMA InitChildren == Init => ChildrenInvariant
<1> SUFFICES ASSUME Init PROVE ChildrenInvariant
  OBVIOUS
<1> USE DEF Init
<1>1. processes = <<>> /\ Len(processes) = 0 /\ slot = 1
  OBVIOUS
<1>2. TypeOK
  <2>1. events \in Seq(Values) /\ socket \in Seq(Values) /\ processes \in Seq(Children)
    OBVIOUS
  <2>2. slot \in 1..Len(processes) + 1
    BY <1>1
  <2>3. changes \in 0..MaxChanges /\ faults \in 0..MaxFaults /\ signals \in 0..MaxSignals
    BY BackdropdAssumption DEF BackdropdAssumption
  <2>4. mirror \in [value: Values \cup {NoValue}, outputs: Layouts \cup {<<>>}]
    OBVIOUS
  <2> QED BY <2>1, <2>2, <2>3, <2>4 DEF TypeOK, DaemonTypeOK, TableTypeOK
<1>3. NoneForgotten
  BY <1>1 DEF NoneForgotten
<1> QED BY <1>1, <1>2, <1>3 DEF ChildrenInvariant, TableInvariant
\* A step that leaves the table, the index and the orphans alone, and goes to a program
\* counter outside the stop loop, keeps what is known about the children.
LEMMA ChildrenKept ==
    ASSUME ChildrenInvariant, TypeOK', UNCHANGED <<processes, orphans, onceMode>>,
           running' => running,
           pc' \notin {"query", "failed"} => value' \in Values,
           \/ pc' = pc /\ slot' = slot
           \/ pc' = "stop" /\ slot' = 1
           \/ pc' \notin {"stop", "wait", "probe", "ended"}
           \/ pc = "stop" /\ slot > Len(processes) /\ pc' \in {"probe", "ended"}
           \/ onceMode /\ pc' = "ended"
    PROVE  ChildrenInvariant'
<1>1. Len(processes) \in Nat /\ slot \in 1..Len(processes) + 1
  BY DEF ChildrenInvariant, TypeOK, TableTypeOK
<1>2. AllReaped(processes', 0)
  BY DEF AllReaped
<1>3. \A n : AllReaped(processes', n) <=> AllReaped(processes, n)
  BY DEF AllReaped
<1>4. TableInvariant'
  BY <1>1, <1>2, <1>3 DEF ChildrenInvariant, TableInvariant
<1>5. pc = "stop" /\ slot > Len(processes) => AllReaped(processes, Len(processes))
  BY <1>1 DEF ChildrenInvariant, TableInvariant, AllReaped
<1>6. NoneForgotten'
  BY <1>3, <1>5 DEF ChildrenInvariant, NoneForgotten
<1> QED BY <1>4, <1>6 DEF ChildrenInvariant

\* One child changes its state: what is known of the others stays, and a reaped prefix
\* that does not hold the child stays reaped.
LEMMA ChildChanged ==
    ASSUME ChildrenInvariant, NEW i \in 1..Len(processes), NEW s \in ChildStates,
           processes' = [processes EXCEPT ![i].state = s]
    PROVE  /\ processes' \in Seq(Children)
           /\ Len(processes') = Len(processes)
           /\ \A j, k \in 1..Len(processes) : processes'[j].value = processes'[k].value
           /\ \A n \in Nat : n <= Len(processes) /\ AllReaped(processes, n) /\ (n < i \/ s = "none")
                            => AllReaped(processes', n)
           /\ \A n \in Nat : AllReaped(processes, n) /\ processes[i].state # "none" => n < i
           /\ s = "none" /\ AllReaped(processes, i - 1) => AllReaped(processes', i)
<1>1. processes \in Seq(Children) /\ Len(processes) \in Nat
  BY DEF ChildrenInvariant, TypeOK, TableTypeOK
<1>2. /\ processes' \in Seq(Children)
      /\ Len(processes') = Len(processes)
      /\ \A j \in 1..Len(processes) : processes'[j].value = processes[j].value
      /\ \A j \in 1..Len(processes) : j # i => processes'[j] = processes[j]
      /\ processes'[i].state = s
  BY <1>1, StateChange
<1>3. \A j, k \in 1..Len(processes) : processes[j].value = processes[k].value
  BY DEF ChildrenInvariant, TableInvariant
<1>4. ASSUME NEW n \in Nat, n <= Len(processes), AllReaped(processes, n), n < i \/ s = "none"
      PROVE  AllReaped(processes', n)
  BY <1>1, <1>2, <1>4 DEF AllReaped
<1>5. ASSUME NEW n \in Nat, AllReaped(processes, n), processes[i].state # "none"
      PROVE  n < i
  BY <1>5 DEF AllReaped
<1>6. ASSUME s = "none", AllReaped(processes, i - 1)
      PROVE  AllReaped(processes', i)
  BY <1>1, <1>2, <1>6 DEF AllReaped
<1>7. \A j, k \in 1..Len(processes) : processes'[j].value = processes'[k].value
  BY <1>2, <1>3
<1>8. processes' \in Seq(Children) /\ Len(processes') = Len(processes)
  BY <1>2
<1> QED BY <1>4, <1>5, <1>6, <1>7, <1>8

\* The parts of TypeOK that a step of a child or of the replacement can disturb.
LEMMA TypesKept ==
    ASSUME TypeOK, TableTypeOK', UNCHANGED <<daemonVars, leaving, onceMode, value, mirror, changes>>,
           pc' \in {"stop", "wait", "probe", "spawn", "check", "drain", "ended"} \cup {pc},
           running' \in BOOLEAN, faults' \in 0..MaxFaults, signals' \in 0..MaxSignals
    PROVE  TypeOK'
<1>1. DaemonTypeOK'
  BY DEF TypeOK, DaemonTypeOK, daemonVars
<1>2. pc' \in {"query", "stop", "wait", "probe", "spawn", "check", "subscribe", "watch",
               "poll", "drain", "ended", "failed"}
  BY DEF TypeOK
<1> QED BY <1>1, <1>2 DEF TypeOK

\* The kill marks the child the loop is at, which is not in the reaped prefix.
LEMMA KillChildKeeps == ChildrenInvariant /\ KillChild => ChildrenInvariant'
<1> SUFFICES ASSUME ChildrenInvariant, KillChild PROVE ChildrenInvariant'
  OBVIOUS
<1>1. slot \in 1..Len(processes) /\ TypeOK /\ Len(processes) \in Nat
  BY DEF KillChild, ChildrenInvariant, TypeOK, TableTypeOK
<1>2. AllReaped(processes, slot - 1)
  BY DEF KillChild, ChildrenInvariant, TableInvariant
<1>3. /\ processes' \in Seq(Children) /\ Len(processes') = Len(processes)
      /\ \A j, k \in 1..Len(processes) : processes'[j].value = processes'[k].value
      /\ AllReaped(processes', slot - 1)
  <2>1. CASE UNCHANGED processes
    BY <1>1, <1>2, <2>1 DEF ChildrenInvariant, TypeOK, TableTypeOK, TableInvariant, AllReaped
  <2>2. CASE \E s \in {"forked", "dying"} : SetState(s)
    <3>1. PICK s \in {"forked", "dying"} : SetState(s)
      BY <2>2
    <3>2. s \in ChildStates /\ slot - 1 \in Nat /\ slot - 1 <= Len(processes) /\ slot - 1 < slot
      BY <1>1 DEF ChildStates
    <3> QED BY <1>1, <1>2, <3>1, <3>2, ChildChanged DEF SetState
  <2> QED BY <2>1, <2>2 DEF KillChild
<1>4. pc' = "wait" /\ UNCHANGED <<slot, orphans, running, value>>
  BY DEF KillChild, mainVars
<1>5. TypeOK'
  <2>1. TableTypeOK'
    BY <1>1, <1>3, <1>4 DEF TypeOK, TableTypeOK
  <2> QED BY <1>1, <2>1, TypesKept DEF KillChild, TypeOK, boundVars
<1>6. TableInvariant'
  BY <1>1, <1>3, <1>4 DEF TableInvariant
<1>7. NoneForgotten'
  BY <1>4 DEF ChildrenInvariant, NoneForgotten
<1> QED BY <1>4, <1>5, <1>6, <1>7 DEF ChildrenInvariant, KillChild

\* The loop moves past an empty slot, which extends the reaped prefix.
LEMMA SkipEmptySlotKeeps == ChildrenInvariant /\ SkipEmptySlot => ChildrenInvariant'
<1> SUFFICES ASSUME ChildrenInvariant, SkipEmptySlot PROVE ChildrenInvariant'
  OBVIOUS
<1>1. slot \in 1..Len(processes) /\ TypeOK /\ Len(processes) \in Nat
  BY DEF SkipEmptySlot, ChildrenInvariant, TypeOK, TableTypeOK
<1>2. AllReaped(processes, slot)
  BY <1>1 DEF SkipEmptySlot, ChildrenInvariant, TableInvariant, AllReaped
<1>3. /\ pc = "stop" /\ slot' = slot + 1
      /\ UNCHANGED <<pc, processes, orphans, running, value>>
  BY DEF SkipEmptySlot
<1>4. TypeOK'
  <2>1. TableTypeOK'
    BY <1>1, <1>3 DEF TypeOK, TableTypeOK
  <2> QED BY <1>1, <2>1, TypesKept DEF SkipEmptySlot, TypeOK, boundVars
<1>5. AllReaped(processes', slot' - 1)
  BY <1>1, <1>2, <1>3 DEF AllReaped
<1>6. TableInvariant'
  BY <1>3, <1>5 DEF ChildrenInvariant, TableInvariant
<1>7. NoneForgotten'
  BY <1>3 DEF ChildrenInvariant, NoneForgotten
<1> QED BY <1>3, <1>4, <1>6, <1>7 DEF ChildrenInvariant

\* waitpid empties the slot of the loop: by the child's end, or by a signal that makes it
\* an orphan; in both cases the loop goes on.
LEMMA WaitEnds ==
    ASSUME ChildrenInvariant, pc = "wait", SetState("none"), slot' = slot + 1, pc' = "stop",
           UNCHANGED <<daemonVars, leaving, onceMode, value, mirror, changes, faults>>,
           running' \in BOOLEAN, signals' \in 0..MaxSignals,
           \/ UNCHANGED <<running, orphans>>
           \/ running' = FALSE /\ orphans' = orphans \cup {processes[slot]}
    PROVE  ChildrenInvariant'
<1>1. slot \in 1..Len(processes) /\ TypeOK /\ Len(processes) \in Nat /\ AllReaped(processes, slot - 1)
  BY DEF ChildrenInvariant, TypeOK, TableTypeOK, TableInvariant
<1>2. "none" \in ChildStates
  BY DEF ChildStates
<1>3. /\ processes' \in Seq(Children) /\ Len(processes') = Len(processes)
      /\ \A j, k \in 1..Len(processes) : processes'[j].value = processes'[k].value
      /\ AllReaped(processes', slot)
  BY <1>1, <1>2, ChildChanged DEF SetState
<1>4. TypeOK'
  <2>1. processes[slot] \in Children
    BY <1>1 DEF TypeOK, TableTypeOK
  <2>2. TableTypeOK'
    BY <1>1, <1>3, <2>1 DEF TypeOK, TableTypeOK
  <2> QED BY <1>1, <2>2, TypesKept DEF TypeOK
<1>5. AllReaped(processes', slot' - 1)
  BY <1>1, <1>3 DEF AllReaped
<1>6. TableInvariant'
  BY <1>3, <1>5 DEF TableInvariant
<1>7. NoneForgotten'
  BY DEF ChildrenInvariant, NoneForgotten
<1> QED BY <1>4, <1>6, <1>7 DEF ChildrenInvariant

\* A probe starts from a reaped table and makes one of the current backdrop.
LEMMA ProbeKeeps == ChildrenInvariant /\ Probe => ChildrenInvariant'
<1> SUFFICES ASSUME ChildrenInvariant, Probe PROVE ChildrenInvariant'
  OBVIOUS
<1>1. value \in Values /\ TypeOK
  BY DEF Probe, ChildrenInvariant
<1>2. PICK layout \in Layouts : processes' = EmptyTable(layout) /\ WriteMirror(layout)
  BY DEF Probe
<1>3. /\ processes' \in Seq(Children) /\ Len(processes') = Len(layout)
      /\ \A i \in 1..Len(layout) : processes'[i].value = value
  BY <1>1, <1>2, BackdropdAssumption, ProbeTable
<1>4. /\ pc' = "spawn" /\ slot' = 1
      /\ UNCHANGED <<daemonVars, running, leaving, onceMode, value, orphans, boundVars>>
  BY DEF Probe
<1>5. TypeOK'
  <2>1. TableTypeOK'
    BY <1>1, <1>3, <1>4 DEF TypeOK, TableTypeOK
  <2>2. DaemonTypeOK'
    BY <1>1, <1>4 DEF TypeOK, DaemonTypeOK, daemonVars
  <2>3. mirror' \in [value: Values \cup {NoValue}, outputs: Layouts \cup {<<>>}]
    BY <1>1, <1>2 DEF WriteMirror
  <2> QED BY <1>1, <1>4, <2>1, <2>2, <2>3 DEF TypeOK, boundVars
<1>6. TableInvariant'
  BY <1>3, <1>4 DEF TableInvariant
<1>7. NoneForgotten'
  BY <1>4 DEF ChildrenInvariant, NoneForgotten
<1> QED BY <1>1, <1>4, <1>5, <1>6, <1>7 DEF ChildrenInvariant

\* A fork fills a slot of the new table, or fails and leaves it empty.
LEMMA SpawnChildKeeps == ChildrenInvariant /\ SpawnChild => ChildrenInvariant'
<1> SUFFICES ASSUME ChildrenInvariant, SpawnChild PROVE ChildrenInvariant'
  OBVIOUS
<1>1. slot \in 1..Len(processes) /\ TypeOK /\ Len(processes) \in Nat
  BY DEF SpawnChild, ChildrenInvariant, TypeOK, TableTypeOK
<1>2. /\ processes' \in Seq(Children) /\ Len(processes') = Len(processes)
      /\ \A j, k \in 1..Len(processes) : processes'[j].value = processes'[k].value
  <2>1. CASE SetState("forked")
    <3>1. "forked" \in ChildStates
      BY DEF ChildStates
    <3> QED BY <1>1, <2>1, <3>1, ChildChanged DEF SetState
  <2>2. CASE UNCHANGED processes
    BY <2>2 DEF ChildrenInvariant, TypeOK, TableTypeOK, TableInvariant
  <2> QED BY <2>1, <2>2 DEF SpawnChild
<1>3. faults' \in 0..MaxFaults
  BY <1>1, BackdropdAssumption DEF SpawnChild, Fault, TypeOK, BackdropdAssumption
<1>4. /\ pc = "spawn" /\ slot' = slot + 1
      /\ UNCHANGED <<daemonVars, pc, running, leaving, onceMode, value, mirror, orphans, changes, signals>>
  BY DEF SpawnChild
<1>5. TypeOK'
  <2>1. TableTypeOK'
    BY <1>1, <1>2, <1>4 DEF TypeOK, TableTypeOK
  <2> QED BY <1>1, <1>3, <1>4, <2>1, TypesKept DEF TypeOK
<1>6. TableInvariant'
  BY <1>2, <1>4 DEF TableInvariant
<1>7. NoneForgotten'
  BY <1>4 DEF ChildrenInvariant, NoneForgotten
<1> QED BY <1>4, <1>5, <1>6, <1>7 DEF ChildrenInvariant

\* A child moves on by itself or fails: a reaped slot has no child that could.
LEMMA ChildStepKeeps ==
    ASSUME ChildrenInvariant, NEW i \in Nat \ {0}, i <= Len(processes),
           NEW s \in ChildStates, processes' = [processes EXCEPT ![i].state = s],
           processes[i].state # "none", faults' \in 0..MaxFaults,
           UNCHANGED <<daemonVars, pc, slot, running, leaving, onceMode, value, mirror, orphans,
                       changes, signals>>
    PROVE  ChildrenInvariant'
<1>1. slot \in 1..Len(processes) + 1 /\ TypeOK /\ Len(processes) \in Nat /\ i \in 1..Len(processes)
  BY DEF ChildrenInvariant, TypeOK, TableTypeOK
<1>2. /\ processes' \in Seq(Children) /\ Len(processes') = Len(processes)
      /\ \A j, k \in 1..Len(processes) : processes'[j].value = processes'[k].value
      /\ \A n \in 0..Len(processes) : AllReaped(processes, n) => AllReaped(processes', n)
  <2>1. /\ processes' \in Seq(Children) /\ Len(processes') = Len(processes)
        /\ \A j, k \in 1..Len(processes) : processes'[j].value = processes'[k].value
    BY <1>1, ChildChanged
  <2>2. /\ \A n \in Nat : AllReaped(processes, n) => n < i
        /\ \A n \in Nat : n <= Len(processes) /\ AllReaped(processes, n) /\ n < i
                         => AllReaped(processes', n)
    BY <1>1, ChildChanged
  <2>3. ASSUME NEW n \in 0..Len(processes), AllReaped(processes, n)
        PROVE  AllReaped(processes', n)
    <3>1. n \in Nat /\ n <= Len(processes)
      BY <1>1
    <3> QED BY <2>2, <2>3, <3>1
  <2> QED BY <2>1, <2>3
<1>3. TypeOK'
  <2>1. TableTypeOK'
    BY <1>1, <1>2 DEF TypeOK, TableTypeOK
  <2> QED BY <1>1, <2>1, TypesKept DEF TypeOK
<1>4. TableInvariant'
  <2>1. slot - 1 \in 0..Len(processes)
    BY <1>1
  <2>2. pc' \in {"stop", "wait"} => AllReaped(processes, slot - 1)
    BY DEF ChildrenInvariant, TableInvariant
  <2> QED BY <1>2, <2>1, <2>2 DEF ChildrenInvariant, TableInvariant
<1>5. NoneForgotten'
  <2>1. AllReaped(processes, Len(processes)) => AllReaped(processes', Len(processes))
    <3>1. Len(processes) \in 0..Len(processes)
      BY <1>1
    <3> QED BY <1>2, <3>1
  <2> QED BY <1>2, <2>1 DEF ChildrenInvariant, NoneForgotten, AllReaped
<1> QED BY <1>3, <1>4, <1>5 DEF ChildrenInvariant

\* The rest of main and the daemon's steps leave the table alone.
LEMMA OtherStepsKeep ==
    ASSUME ChildrenInvariant,
           \/ StopEnds \/ SpawnEnds \/ ApplyEnvironment \/ Query \/ QueryGivesUp
           \/ LoopTest \/ Subscribe \/ EnterPoll \/ PollReturns \/ ReadFrame \/ DrainEnds
           \/ TopicChanges \/ ServeSubscription \/ DaemonStops \/ DaemonStarts
    PROVE  ChildrenInvariant'
<1> USE DEF ChildrenInvariant, TypeOK, TableTypeOK, daemonVars, mainVars, boundVars
<1>0. <<>> \in Seq(Values) /\ Len(processes) \in Nat
  OBVIOUS
<1>1. CASE StopEnds
  <2>1. DaemonTypeOK'
    BY <1>0, <1>1 DEF StopEnds, DaemonTypeOK
  <2>2. TypeOK'
    BY <1>1, <2>1 DEF StopEnds
  <2> QED BY <1>1, <2>2, ChildrenKept DEF StopEnds
<1>2. CASE SpawnEnds
  <2>1. DaemonTypeOK'
    BY <1>0, <1>2 DEF SpawnEnds, DaemonTypeOK
  <2>2. TypeOK'
    BY <1>2, <2>1 DEF SpawnEnds
  <2> QED BY <1>2, <2>2, ChildrenKept DEF SpawnEnds
<1>3. CASE ApplyEnvironment
  <2>1. DaemonTypeOK'
    BY <1>0, <1>3 DEF ApplyEnvironment, DaemonTypeOK, Apply
  <2>2. TypeOK'
    BY <1>3, <2>1 DEF ApplyEnvironment, Apply
  <2> QED BY <1>3, <2>2, ChildrenKept DEF ApplyEnvironment, Apply
<1>4. CASE Query
  <2>1. DaemonTypeOK'
    BY <1>0, <1>4 DEF Query, DaemonTypeOK, Apply
  <2>2. value' \in Values \/ UNCHANGED <<value, pc>>
    BY <1>4 DEF Query, Apply, DaemonTypeOK
  <2>3. TypeOK'
    BY <1>4, <2>1, <2>2 DEF Query, Apply
  <2> QED BY <1>4, <2>2, <2>3, ChildrenKept DEF Query, Apply
<1>5. CASE QueryGivesUp
  <2>1. DaemonTypeOK'
    BY <1>0, <1>5 DEF QueryGivesUp, DaemonTypeOK
  <2>2. TypeOK'
    BY <1>5, <2>1 DEF QueryGivesUp
  <2> QED BY <1>5, <2>2, ChildrenKept DEF QueryGivesUp
<1>6. CASE LoopTest
  <2>1. DaemonTypeOK'
    <3>1. connection' \in {"none", connection} /\ events' \in {<<>>, events} /\ socket' \in {<<>>, socket}
      BY <1>6 DEF LoopTest
    <3> QED BY <1>0, <1>6, <3>1 DEF LoopTest, DaemonTypeOK
  <2>2. slot' \in 1..Len(processes) + 1
    BY <1>0, <1>6 DEF LoopTest
  <2>3. pc' \in {"subscribe", "watch", "stop"} /\ leaving' \in BOOLEAN
    BY <1>6 DEF LoopTest
  <2>4. TypeOK'
    BY <1>6, <2>1, <2>2, <2>3 DEF LoopTest
  <2> QED BY <1>6, <2>4, ChildrenKept DEF LoopTest
<1>7. CASE Subscribe
  <2>1. DaemonTypeOK'
    BY <1>0, <1>7 DEF Subscribe, DaemonTypeOK
  <2>2. TypeOK'
    BY <1>7, <2>1 DEF Subscribe
  <2> QED BY <1>7, <2>2, ChildrenKept DEF Subscribe
<1>8. CASE EnterPoll
  <2>1. DaemonTypeOK'
    BY <1>0, <1>8 DEF EnterPoll, DaemonTypeOK
  <2>2. TypeOK'
    BY <1>8, <2>1 DEF EnterPoll
  <2> QED BY <1>8, <2>2, ChildrenKept DEF EnterPoll
<1>9. CASE PollReturns
  <2>1. DaemonTypeOK'
    BY <1>0, <1>9 DEF PollReturns, DaemonTypeOK
  <2>2. TypeOK'
    BY <1>9, <2>1 DEF PollReturns
  <2> QED BY <1>9, <2>2, ChildrenKept DEF PollReturns
<1>10. CASE ReadFrame
  <2>1. DaemonTypeOK'
    BY <1>0, <1>10 DEF ReadFrame, DaemonTypeOK, Apply
  <2>2. value' \in Values \/ UNCHANGED <<value, pc>>
    BY <1>10 DEF ReadFrame, Apply, DaemonTypeOK
  <2>3. TypeOK'
    BY <1>10, <2>1, <2>2 DEF ReadFrame, Apply
  <2> QED BY <1>10, <2>2, <2>3, ChildrenKept DEF ReadFrame, Apply
<1>11. CASE DrainEnds
  <2>1. DaemonTypeOK'
    BY <1>0, <1>11 DEF DrainEnds, DaemonTypeOK
  <2>2. TypeOK'
    BY <1>11, <2>1 DEF DrainEnds
  <2> QED BY <1>11, <2>2, ChildrenKept DEF DrainEnds
<1>12. CASE TopicChanges
  <2>1. DaemonTypeOK'
    BY <1>0, <1>12 DEF TopicChanges, DaemonTypeOK
  <2>2. changes' \in 0..MaxChanges
    BY <1>12, BackdropdAssumption DEF TopicChanges, BackdropdAssumption
  <2>3. TypeOK'
    BY <1>12, <2>1, <2>2 DEF TopicChanges
  <2> QED BY <1>12, <2>3, ChildrenKept DEF TopicChanges
<1>13. CASE ServeSubscription
  <2>1. DaemonTypeOK'
    <3>1. CASE connection = "asked"
      BY <1>13, <3>1 DEF ServeSubscription, DaemonTypeOK
    <3>2. CASE connection = "registered"
      <4>1. Append(socket, topic) \in Seq(Values)
        BY AppendProperties DEF DaemonTypeOK
      <4> QED BY <1>13, <3>2, <4>1 DEF ServeSubscription, DaemonTypeOK
    <3>3. CASE connection = "streaming"
      <4>1. Head(events) \in Values /\ Tail(events) \in Seq(Values)
        BY <1>13, <3>3 DEF ServeSubscription, DaemonTypeOK
      <4>2. Append(socket, Head(events)) \in Seq(Values)
        BY <4>1, AppendProperties DEF DaemonTypeOK
      <4> QED BY <1>13, <3>3, <4>1, <4>2 DEF ServeSubscription, DaemonTypeOK
    <3> QED BY <1>13, <3>1, <3>2, <3>3 DEF ServeSubscription
  <2>2. TypeOK'
    BY <1>13, <2>1 DEF ServeSubscription
  <2> QED BY <1>13, <2>2, ChildrenKept DEF ServeSubscription
<1>14. CASE DaemonStops
  <2>1. DaemonTypeOK'
    BY <1>0, <1>14 DEF DaemonStops, DaemonTypeOK
  <2>2. faults' \in 0..MaxFaults
    BY <1>14, BackdropdAssumption DEF DaemonStops, Fault, BackdropdAssumption
  <2>3. TypeOK'
    BY <1>14, <2>1, <2>2 DEF DaemonStops
  <2> QED BY <1>14, <2>3, ChildrenKept DEF DaemonStops
<1>15. CASE DaemonStarts
  <2>1. DaemonTypeOK'
    BY <1>0, <1>15 DEF DaemonStarts, DaemonTypeOK
  <2>2. TypeOK'
    BY <1>15, <2>1 DEF DaemonStarts
  <2> QED BY <1>15, <2>2, ChildrenKept DEF DaemonStarts
<1> QED BY <1>1, <1>2, <1>3, <1>4, <1>5, <1>6, <1>7, <1>8, <1>9, <1>10, <1>11, <1>12,
          <1>13, <1>14, <1>15

\* A signal that interrupts waitpid is WaitEnds; any other one only clears running.
LEMMA SignalKeeps == ChildrenInvariant /\ Signal => ChildrenInvariant'
<1> SUFFICES ASSUME ChildrenInvariant, Signal PROVE ChildrenInvariant'
  OBVIOUS
<1>1. signals' \in 0..MaxSignals /\ running' = FALSE
  BY BackdropdAssumption DEF Signal, ChildrenInvariant, TypeOK, BackdropdAssumption
<1>2. CASE pc = "wait" /\ processes[slot].state # "dead"
  <2>1. /\ orphans' = orphans \cup {processes[slot]}
        /\ SetState("none") /\ slot' = slot + 1 /\ pc' = "stop"
    BY <1>2 DEF Signal
  <2> QED BY <1>1, <1>2, <2>1, WaitEnds DEF Signal
<1>3. CASE ~(pc = "wait" /\ processes[slot].state # "dead")
  <2>1. UNCHANGED <<slot, processes, orphans>> /\ (pc' = pc \/ (pc = "poll" /\ pc' = "check"))
    <3>1. CASE pc = "poll"
      BY <3>1 DEF Signal
    <3>2. CASE pc # "poll"
      BY <1>3, <3>2 DEF Signal
    <3> QED BY <3>1, <3>2
  <2>2. TypeOK'
    <3>1. TableTypeOK'
      BY <2>1 DEF ChildrenInvariant, TypeOK, TableTypeOK
    <3> QED BY <1>1, <2>1, <3>1, TypesKept DEF Signal, ChildrenInvariant, TypeOK
  <2>3. value' = value /\ onceMode' = onceMode
    BY DEF Signal
  <2> QED BY <1>1, <2>1, <2>2, <2>3, ChildrenKept DEF ChildrenInvariant
<1> QED BY <1>2, <1>3

\* The children in the table and the orphans.
LEMMA ChildrenStepsKeep ==
    ASSUME ChildrenInvariant,
           \/ \E i \in 1..MaxOutputs : ChildRuns(i) \/ ChildFails(i)
           \/ \E child \in orphans : OrphanRuns(child)
    PROVE  ChildrenInvariant'
<1>1. ASSUME NEW i \in 1..MaxOutputs, ChildRuns(i)
      PROVE  ChildrenInvariant'
  <2>1. /\ Progress[processes[i].state] \in ChildStates
        /\ processes' = [processes EXCEPT ![i].state = Progress[processes[i].state]]
        /\ processes[i].state # "none"
    BY <1>1 DEF ChildRuns, Progress, ChildStates
  <2>2. faults' \in 0..MaxFaults /\ UNCHANGED <<changes, signals>>
    BY <1>1 DEF ChildRuns, boundVars, ChildrenInvariant, TypeOK
  <2>3. i \in Nat \ {0} /\ i <= Len(processes)
    BY <1>1, BackdropdAssumption DEF ChildRuns, BackdropdAssumption
  <2>4. UNCHANGED <<daemonVars, pc, slot, running, leaving, onceMode, value, mirror, orphans,
                    changes, signals>>
    BY <1>1, <2>2 DEF ChildRuns
  <2> QED BY <2>1, <2>2, <2>3, <2>4, ChildStepKeeps
<1>2. ASSUME NEW i \in 1..MaxOutputs, ChildFails(i)
      PROVE  ChildrenInvariant'
  <2>1. /\ "dead" \in ChildStates
        /\ processes' = [processes EXCEPT ![i].state = "dead"]
        /\ processes[i].state # "none"
    BY <1>2 DEF ChildFails, ChildStates
  <2>2. faults' \in 0..MaxFaults
    BY <1>2, BackdropdAssumption DEF ChildFails, Fault, ChildrenInvariant, TypeOK, BackdropdAssumption
  <2>3. i \in Nat \ {0} /\ i <= Len(processes)
    BY <1>2, BackdropdAssumption DEF ChildFails, BackdropdAssumption
  <2>4. UNCHANGED <<daemonVars, pc, slot, running, leaving, onceMode, value, mirror, orphans,
                    changes, signals>>
    BY <1>2, <2>2 DEF ChildFails
  <2> QED BY <2>1, <2>2, <2>3, <2>4, ChildStepKeeps
<1>3. ASSUME NEW child \in orphans, OrphanRuns(child)
      PROVE  ChildrenInvariant'
  <2>1. child \in Children /\ UNCHANGED <<daemonVars, mainVars, mirror, boundVars>>
    BY <1>3 DEF OrphanRuns, ChildrenInvariant, TypeOK, TableTypeOK
  <2>2. [child EXCEPT !.state = "showing"] \in Children
    BY <2>1 DEF Children, ChildStates
  <2>3. orphans' \subseteq Children
    BY <1>3, <2>2 DEF OrphanRuns, ChildrenInvariant, TypeOK, TableTypeOK
  <2>4. TypeOK'
    <3>1. TableTypeOK'
      BY <2>1, <2>3 DEF mainVars, ChildrenInvariant, TypeOK, TableTypeOK
    <3> QED BY <2>1, <3>1, TypesKept DEF mainVars, boundVars, ChildrenInvariant, TypeOK
  <2>5. NoneForgotten'
    BY <1>3, <2>1 DEF ChildrenInvariant, NoneForgotten, mainVars
  <2> QED BY <2>1, <2>4, <2>5 DEF ChildrenInvariant, TableInvariant, mainVars
<1> QED BY <1>1, <1>2, <1>3

LEMMA NextKeepsChildren == ChildrenInvariant /\ [Next]_vars => ChildrenInvariant'
<1> SUFFICES ASSUME ChildrenInvariant, [Next]_vars PROVE ChildrenInvariant'
  OBVIOUS
<1>1. CASE KillChild
  BY <1>1, KillChildKeeps
<1>2. CASE SkipEmptySlot
  BY <1>2, SkipEmptySlotKeeps
<1>3. CASE ReapChild
  <2>1. running' \in BOOLEAN /\ signals' \in 0..MaxSignals
    BY <1>3 DEF ReapChild, boundVars, ChildrenInvariant, TypeOK
  <2> QED BY <1>3, <2>1, WaitEnds DEF ReapChild, boundVars
<1>4. CASE Probe
  BY <1>4, ProbeKeeps
<1>5. CASE SpawnChild
  BY <1>5, SpawnChildKeeps
<1>6. CASE Signal
  BY <1>6, SignalKeeps
<1>7. CASE \/ \E i \in 1..MaxOutputs : ChildRuns(i) \/ ChildFails(i)
           \/ \E child \in orphans : OrphanRuns(child)
  BY <1>7, ChildrenStepsKeep
<1>8. CASE \/ StopEnds \/ SpawnEnds \/ ApplyEnvironment \/ Query \/ QueryGivesUp
           \/ LoopTest \/ Subscribe \/ EnterPoll \/ PollReturns \/ ReadFrame \/ DrainEnds
           \/ TopicChanges \/ ServeSubscription \/ DaemonStops \/ DaemonStarts
  BY <1>8, OtherStepsKeep
<1>9. CASE UNCHANGED vars
  BY <1>9 DEF vars, daemonVars, mainVars, boundVars, ChildrenInvariant, TypeOK, DaemonTypeOK,
              TableTypeOK, TableInvariant, NoneForgotten, AllReaped
<1> QED BY <1>1, <1>2, <1>3, <1>4, <1>5, <1>6, <1>7, <1>8, <1>9 DEF Next, Main

\* The table holds children of one backdrop, and running there are no orphans.
LEMMA ChildrenImplyOneBackdrop == ChildrenInvariant => OneBackdrop
  BY DEF ChildrenInvariant, TableInvariant, NoneForgotten, OneBackdrop, LiveChildren

\* The state of backdropd has its type.
THEOREM TypesHold == Spec => []TypeOK
<1>1. Spec => []ChildrenInvariant
  BY InitChildren, NextKeepsChildren, PTL DEF Spec
<1>2. ChildrenInvariant => TypeOK
  BY DEF ChildrenInvariant
<1> QED BY <1>1, <1>2, PTL

\* Until it is told to stop, backdropd never has swaybg processes of two backdrops alive.
THEOREM BackdropsDoNotMix == Spec => []OneBackdrop
<1>1. Spec => []ChildrenInvariant
  BY InitChildren, NextKeepsChildren, PTL DEF Spec
<1> QED BY <1>1, ChildrenImplyOneBackdrop, PTL

\* No child is forgotten before that, and an orderly end leaves none that it knows.
THEOREM ChildrenAreReaped == Spec => []NoneForgotten
<1>1. Spec => []ChildrenInvariant
  BY InitChildren, NextKeepsChildren, PTL DEF Spec
<1>2. ChildrenInvariant => NoneForgotten
  BY DEF ChildrenInvariant
<1> QED BY <1>1, <1>2, PTL

-----------------------------------------------------------------------------
(* What is shown is the newest value: StreamInvariant follows the value     *)
(* through the event queue and the socket, MirrorInvariant from backdropd   *)
(* to the table and the environment file.                                   *)

\* The value backdropd will hold when it has received everything that is on its way.
Newest ==
    IF events # <<>> THEN events[Len(events)]
    ELSE IF socket # <<>> THEN socket[Len(socket)] ELSE value

\* A subscription that is served leads to the topic; one that is not has nothing under way.
StreamInvariant ==
    /\ connection \in {"none", "asked"} => socket = <<>> /\ events = <<>>
    /\ connection = "registered" => /\ socket = <<>>
                                    /\ events # <<>> => events[Len(events)] = topic
    /\ connection = "streaming" => Newest = topic
    /\ connection = "hangup" => events = <<>>
    /\ pc \in {"query", "subscribe"} => connection = "none"
    /\ ~daemonUp => connection \in {"none", "hangup"}

OutputsOf(table) == [i \in 1..Len(table) |-> table[i].output]

\* The table and the environment file say what backdropd holds.
Mirrored ==
    /\ mirror = [value |-> value, outputs |-> OutputsOf(processes)]
    /\ \A i \in 1..Len(processes) : processes[i].value = value

\* They do so whenever the children are not being replaced.
MirrorInvariant ==
    pc \in {"spawn", "check", "subscribe", "watch", "poll", "drain"} => Mirrored

\* Appending makes the appended value the last one.
LEMMA LastOfAppend ==
    ASSUME NEW S, NEW seq \in Seq(S), NEW v \in S
    PROVE  /\ Append(seq, v) # <<>>
           /\ Append(seq, v)[Len(Append(seq, v))] = v
<1>1. Len(Append(seq, v)) = Len(seq) + 1 /\ Len(seq) \in Nat
  BY AppendProperties
<1>2. Append(seq, v)[Len(seq) + 1] = v
  BY AppendProperties
<1> QED BY <1>1, <1>2

\* Taking the first value leaves the last one last, if there is another.
LEMMA LastOfTail ==
    ASSUME NEW S, NEW seq \in Seq(S), seq # <<>>
    PROVE  /\ Head(seq) \in S /\ Tail(seq) \in Seq(S)
           /\ Tail(seq) = <<>> => Head(seq) = seq[Len(seq)]
           /\ Tail(seq) # <<>> => Tail(seq)[Len(Tail(seq))] = seq[Len(seq)]
<1>1. Len(seq) \in Nat \ {0} /\ Head(seq) = seq[1]
  OBVIOUS
<1>2. /\ Tail(seq) \in Seq(S) /\ Len(Tail(seq)) = Len(seq) - 1 /\ Head(seq) \in S
      /\ \A i \in 1..Len(seq) - 1 : Tail(seq)[i] = seq[i + 1]
  BY HeadTailProperties
<1>3. ASSUME Tail(seq) = <<>>
      PROVE  Head(seq) = seq[Len(seq)]
  <2>1. Len(seq) - 1 = 0
    BY <1>2, <1>3
  <2>2. Len(seq) = 1
    BY <1>1, <2>1
  <2> QED BY <1>1, <2>2
<1>4. ASSUME Tail(seq) # <<>>
      PROVE  Tail(seq)[Len(Tail(seq))] = seq[Len(seq)]
  <2>1. Len(Tail(seq)) # 0
    BY <1>2, <1>4
  <2>2. Len(seq) - 1 \in 1..Len(seq) - 1
    BY <1>1, <1>2, <2>1
  <2> QED BY <1>1, <1>2, <2>2
<1> QED BY <1>2, <1>3, <1>4

\* The daemon's steps lead to the topic they announce.
LEMMA DaemonKeepsStream ==
    ASSUME ChildrenInvariant, StreamInvariant,
           TopicChanges \/ ServeSubscription \/ DaemonStops \/ DaemonStarts
    PROVE  StreamInvariant'
<1>0. events \in Seq(Values) /\ socket \in Seq(Values) /\ topic \in Values
  BY DEF ChildrenInvariant, TypeOK, DaemonTypeOK
<1>1. CASE TopicChanges
  <2>1. /\ topic' \in Values
        /\ UNCHANGED <<daemonUp, connection, socket, pc, value>>
        /\ connection \in {"registered", "streaming"} => events' = Append(events, topic')
        /\ connection \notin {"registered", "streaming"} => events' = events
    BY <1>1 DEF TopicChanges, mainVars
  <2>2. CASE connection \in {"registered", "streaming"}
    <3>1. events' # <<>> /\ events'[Len(events')] = topic'
      BY <1>0, <2>1, <2>2, LastOfAppend
    <3> QED BY <2>1, <2>2, <3>1 DEF StreamInvariant, Newest
  <2>3. CASE connection \notin {"registered", "streaming"}
    BY <2>1, <2>3 DEF StreamInvariant
  <2> QED BY <2>2, <2>3
<1>2. CASE ServeSubscription
  <2>1. UNCHANGED <<topic, daemonUp, pc, value>>
    BY <1>2 DEF ServeSubscription, mainVars
  <2>2. CASE connection = "asked"
    <3>1. connection' = "registered" /\ events' = <<>> /\ socket' = <<>>
      BY <1>2, <2>2 DEF ServeSubscription, StreamInvariant
    <3> QED BY <2>1, <2>2, <3>1 DEF StreamInvariant
  <2>3. CASE connection = "registered"
    <3>1. connection' = "streaming" /\ socket' = Append(socket, topic) /\ events' = events
      BY <1>2, <2>3 DEF ServeSubscription
    <3>2. socket' # <<>> /\ socket'[Len(socket')] = topic
      BY <1>0, <3>1, LastOfAppend
    <3>3. events # <<>> => events[Len(events)] = topic
      BY <2>3 DEF StreamInvariant
    <3> QED BY <2>1, <2>3, <3>1, <3>2, <3>3 DEF StreamInvariant, Newest
  <2>4. CASE connection = "streaming"
    <3>1. /\ events # <<>> /\ socket' = Append(socket, Head(events)) /\ events' = Tail(events)
          /\ connection' = "streaming"
      BY <1>2, <2>4 DEF ServeSubscription
    <3>2. events[Len(events)] = topic
      BY <2>4, <3>1 DEF StreamInvariant, Newest
    <3>3. /\ Head(events) \in Values
          /\ events' = <<>> => Head(events) = topic
          /\ events' # <<>> => events'[Len(events')] = topic
      BY <1>0, <3>1, <3>2, LastOfTail
    <3>4. socket' # <<>> /\ socket'[Len(socket')] = Head(events)
      BY <1>0, <3>1, <3>3, LastOfAppend
    <3> QED BY <2>1, <2>4, <3>1, <3>3, <3>4 DEF StreamInvariant, Newest
  <2> QED BY <1>2, <2>2, <2>3, <2>4 DEF ServeSubscription
<1>3. CASE DaemonStops
  <2>1. /\ UNCHANGED <<topic, socket, pc, value>> /\ events' = <<>>
        /\ connection' = IF connection = "none" THEN "none" ELSE "hangup"
    BY <1>3 DEF DaemonStops, mainVars
  <2> QED BY <2>1 DEF StreamInvariant
<1>4. CASE DaemonStarts
  BY <1>4 DEF DaemonStarts, mainVars, StreamInvariant
<1> QED BY <1>1, <1>2, <1>3, <1>4

\* backdropd's value follows what it takes from the socket, and changes otherwise only
\* when it has no subscription.
LEMMA MainKeepsStream == ChildrenInvariant /\ StreamInvariant /\ Main => StreamInvariant'
<1> SUFFICES ASSUME ChildrenInvariant, StreamInvariant, Main PROVE StreamInvariant'
  OBVIOUS
<1>1. CASE /\ UNCHANGED <<daemonVars, value>>
           /\ pc' \notin {"query", "subscribe"}
  BY <1>1 DEF StreamInvariant, Newest, daemonVars
<1>2. CASE ApplyEnvironment \/ Query
  <2>1. UNCHANGED daemonVars /\ connection = "none" /\ pc' = "stop"
    BY <1>2 DEF ApplyEnvironment, Query, Apply, StreamInvariant
  <2> QED BY <2>1 DEF StreamInvariant, daemonVars
<1>3. CASE LoopTest
  <2>1. UNCHANGED <<topic, daemonUp, value>> /\ pc' # "query"
    BY <1>3 DEF LoopTest
  <2>2. CASE running
    <3>1. UNCHANGED <<connection, events, socket>> /\ (pc' = "subscribe" => connection = "none")
      BY <1>3, <2>2 DEF LoopTest
    <3> QED BY <2>1, <3>1 DEF StreamInvariant, Newest
  <2>3. CASE ~running
    BY <1>3, <2>1, <2>3 DEF LoopTest, StreamInvariant
  <2> QED BY <2>2, <2>3
<1>4. CASE Subscribe
  <2>1. UNCHANGED <<topic, daemonUp, events, socket, value>> /\ connection = "none"
    BY <1>4 DEF Subscribe, StreamInvariant
  <2>2. \/ daemonUp /\ connection' = "asked" /\ pc' = "watch"
        \/ ~daemonUp /\ pc' = "failed" /\ UNCHANGED connection
    BY <1>4 DEF Subscribe
  <2> QED BY <2>1, <2>2 DEF StreamInvariant
<1>5. CASE ReadFrame
  <2>1. /\ socket # <<>> /\ socket' = Tail(socket) /\ value' = Head(socket)
        /\ UNCHANGED <<topic, daemonUp, connection, events>>
        /\ pc' \in {"stop", "drain"}
    BY <1>5 DEF ReadFrame, Apply
  <2>2. socket \in Seq(Values)
    BY DEF ChildrenInvariant, TypeOK, DaemonTypeOK
  <2>3. /\ socket' = <<>> => value' = socket[Len(socket)]
        /\ socket' # <<>> => socket'[Len(socket')] = socket[Len(socket)]
    BY <2>1, <2>2, LastOfTail
  <2>4. Newest' = Newest
    BY <2>1, <2>3 DEF Newest
  <2> QED BY <2>1, <2>4 DEF StreamInvariant
<1>6. CASE DrainEnds
  <2>1. /\ UNCHANGED <<topic, daemonUp, events, socket, value>>
        /\ socket = <<>> /\ pc' = "check"
        /\ connection' = IF connection = "hangup" THEN "none" ELSE connection
    BY <1>6 DEF DrainEnds
  <2>2. Newest' = Newest
    BY <2>1 DEF Newest
  <2> QED BY <2>1, <2>2 DEF StreamInvariant
<1>7. CASE \/ KillChild \/ SkipEmptySlot \/ ReapChild \/ StopEnds \/ Probe \/ SpawnChild
           \/ SpawnEnds \/ QueryGivesUp \/ EnterPoll \/ PollReturns
  <2>1. UNCHANGED <<daemonVars, value>> /\ pc' \notin {"query", "subscribe"}
    BY <1>7 DEF KillChild, SkipEmptySlot, ReapChild, StopEnds, Probe, SpawnChild, SpawnEnds,
                QueryGivesUp, EnterPoll, PollReturns
  <2> QED BY <1>1, <2>1
<1> QED BY <1>2, <1>3, <1>4, <1>5, <1>6, <1>7 DEF Main

LEMMA NextKeepsStream == ChildrenInvariant /\ StreamInvariant /\ [Next]_vars => StreamInvariant'
<1> SUFFICES ASSUME ChildrenInvariant, StreamInvariant, [Next]_vars PROVE StreamInvariant'
  OBVIOUS
<1>1. CASE Main
  BY <1>1, MainKeepsStream
<1>2. CASE TopicChanges \/ ServeSubscription \/ DaemonStops \/ DaemonStarts
  BY <1>2, DaemonKeepsStream
<1>3. CASE \/ Signal \/ UNCHANGED vars
           \/ \E i \in 1..MaxOutputs : ChildRuns(i) \/ ChildFails(i)
           \/ \E child \in orphans : OrphanRuns(child)
  <2>1. UNCHANGED <<daemonVars, value>> /\ (pc' = pc \/ pc' \notin {"query", "subscribe"})
    BY <1>3 DEF Signal, ChildRuns, ChildFails, OrphanRuns, mainVars, vars
  <2> QED BY <2>1 DEF StreamInvariant, Newest, daemonVars
<1> QED BY <1>1, <1>2, <1>3 DEF Next

\* A state change of one child leaves the outputs and the values of the table.
LEMMA OutputsKept ==
    ASSUME NEW table \in Seq(Children), NEW i \in 1..Len(table), NEW s \in ChildStates,
           NEW new, new = [table EXCEPT ![i].state = s]
    PROVE  /\ Len(new) = Len(table)
           /\ \A j \in 1..Len(table) : new[j].output = table[j].output /\ new[j].value = table[j].value
<1>1. Len(table) \in Nat /\ \A j \in 1..Len(table) : table[j] \in Children
  OBVIOUS
<1>2. Len(new) = Len(table)
  OBVIOUS
<1>3. new = [table EXCEPT ![i] = [table[i] EXCEPT !.state = s]]
  OBVIOUS
<1>4. \A j \in 1..Len(table) : j # i => new[j] = table[j]
  BY <1>3
<1>5. new[i] = [table[i] EXCEPT !.state = s]
  BY <1>3
<1>6. table[i] = [output |-> table[i].output, state |-> table[i].state, value |-> table[i].value]
  BY <1>1 DEF Children
<1>7. new[i].output = table[i].output /\ new[i].value = table[i].value
  BY <1>5, <1>6
<1>8. \A j \in 1..Len(table) : new[j].output = table[j].output /\ new[j].value = table[j].value
  BY <1>4, <1>7
<1> QED BY <1>2, <1>8

\* A step that changes the state of at most one child, and neither the value nor the
\* environment file, leaves them in agreement.
LEMMA MirroredKept ==
    ASSUME ChildrenInvariant, Mirrored, UNCHANGED <<value, mirror>>,
           \/ UNCHANGED processes
           \/ \E i \in 1..Len(processes), s \in ChildStates :
                 processes' = [processes EXCEPT ![i].state = s]
    PROVE  Mirrored'
<1>1. CASE UNCHANGED processes
  BY <1>1 DEF Mirrored, OutputsOf
<1>2. CASE \E i \in 1..Len(processes), s \in ChildStates :
              processes' = [processes EXCEPT ![i].state = s]
  <2>1. processes \in Seq(Children)
    BY DEF ChildrenInvariant, TypeOK, TableTypeOK
  <2>2. /\ Len(processes') = Len(processes)
        /\ \A j \in 1..Len(processes) : /\ processes'[j].output = processes[j].output
                                        /\ processes'[j].value = processes[j].value
    BY <1>2, <2>1, OutputsKept
  <2>3. OutputsOf(processes)' = OutputsOf(processes)
    BY <2>2 DEF OutputsOf
  <2> QED BY <2>2, <2>3 DEF Mirrored
<1> QED BY <1>1, <1>2

\* A probe writes the table it makes.
LEMMA ProbeMirrors == ChildrenInvariant /\ Probe => Mirrored'
<1> SUFFICES ASSUME ChildrenInvariant, Probe PROVE Mirrored'
  OBVIOUS
<1>1. value \in Values /\ value' = value
  BY DEF Probe, ChildrenInvariant
<1>2. PICK layout \in Layouts : processes' = EmptyTable(layout) /\ WriteMirror(layout)
  BY DEF Probe
<1>3. /\ processes' \in Seq(Children) /\ Len(processes') = Len(layout)
      /\ \A i \in 1..Len(layout) : processes'[i].value = value
  BY <1>1, <1>2, BackdropdAssumption, ProbeTable
<1>4. layout \in Seq(STRING)
  BY BackdropdAssumption DEF BackdropdAssumption
<1>5. layout = [i \in 1..Len(layout) |-> layout[i]]
  BY <1>4
<1>6. \A i \in 1..Len(layout) : processes'[i].output = layout[i]
  BY <1>2 DEF EmptyTable
<1>7. OutputsOf(processes)' = layout
  BY <1>3, <1>5, <1>6 DEF OutputsOf
<1>8. mirror' = [value |-> value', outputs |-> OutputsOf(processes)']
  BY <1>1, <1>2, <1>7 DEF WriteMirror
<1> QED BY <1>1, <1>3, <1>8 DEF Mirrored

LEMMA NextKeepsMirror == ChildrenInvariant /\ MirrorInvariant /\ [Next]_vars => MirrorInvariant'
<1> SUFFICES ASSUME ChildrenInvariant, MirrorInvariant, [Next]_vars,
                    pc' \in {"spawn", "check", "subscribe", "watch", "poll", "drain"}
             PROVE  Mirrored'
  BY DEF MirrorInvariant
<1>0. Len(processes) \in Nat
  BY DEF ChildrenInvariant, TypeOK, TableTypeOK
<1>1. CASE Probe
  BY <1>1, ProbeMirrors
<1>2. CASE SpawnChild
  <2>1. Mirrored /\ UNCHANGED <<value, mirror>> /\ slot \in 1..Len(processes)
    BY <1>2 DEF SpawnChild, MirrorInvariant, ChildrenInvariant, TypeOK, TableTypeOK
  <2>2. UNCHANGED processes \/ processes' = [processes EXCEPT ![slot].state = "forked"]
    BY <1>2 DEF SpawnChild, SetState
  <2>3. "forked" \in ChildStates
    BY DEF ChildStates
  <2> QED BY <2>1, <2>2, <2>3, MirroredKept
<1>3. CASE \/ SpawnEnds \/ LoopTest \/ Subscribe \/ EnterPoll \/ PollReturns \/ ReadFrame \/ DrainEnds
  <2>1. UNCHANGED <<value, mirror, processes>> /\ pc \in {"spawn", "check", "subscribe", "watch", "poll", "drain"}
    BY <1>3 DEF SpawnEnds, LoopTest, Subscribe, EnterPoll, PollReturns, ReadFrame, DrainEnds, Apply
  <2> QED BY <2>1, MirroredKept DEF MirrorInvariant
<1>4. CASE \/ KillChild \/ SkipEmptySlot \/ ReapChild \/ StopEnds \/ ApplyEnvironment \/ Query \/ QueryGivesUp
  BY <1>4 DEF KillChild, SkipEmptySlot, ReapChild, StopEnds, ApplyEnvironment, Query, QueryGivesUp, Apply
<1>5. CASE Signal
  <2>1. UNCHANGED <<value, mirror, processes>> /\ pc \in {"spawn", "check", "subscribe", "watch", "poll", "drain"}
    BY <1>5 DEF Signal
  <2> QED BY <2>1, MirroredKept DEF MirrorInvariant
<1>6. CASE \E i \in 1..MaxOutputs : ChildRuns(i) \/ ChildFails(i)
  <2>1. PICK i \in 1..MaxOutputs : ChildRuns(i) \/ ChildFails(i)
    BY <1>6
  <2>2. UNCHANGED <<pc, value, mirror>> /\ i \in 1..Len(processes)
    BY <1>0, <2>1, BackdropdAssumption DEF ChildRuns, ChildFails, BackdropdAssumption
  <2>3. PICK s \in ChildStates : processes' = [processes EXCEPT ![i].state = s]
    <3>1. CASE ChildRuns(i)
      <4>1. Progress[processes[i].state] \in ChildStates
        BY <3>1 DEF ChildRuns, Progress, ChildStates
      <4>2. processes' = [processes EXCEPT ![i].state = Progress[processes[i].state]]
        BY <3>1 DEF ChildRuns
      <4> QED BY <4>1, <4>2
    <3>2. CASE ChildFails(i)
      <4>1. "dead" \in ChildStates
        BY DEF ChildStates
      <4> QED BY <3>2, <4>1 DEF ChildFails
    <3> QED BY <2>1, <3>1, <3>2
  <2> QED BY <2>2, <2>3, MirroredKept DEF MirrorInvariant
<1>7. CASE \/ \E child \in orphans : OrphanRuns(child)
           \/ TopicChanges \/ ServeSubscription \/ DaemonStops \/ DaemonStarts \/ UNCHANGED vars
  <2>1. UNCHANGED <<pc, value, mirror, processes>>
    BY <1>7 DEF OrphanRuns, TopicChanges, ServeSubscription, DaemonStops, DaemonStarts, vars, mainVars
  <2> QED BY <2>1, MirroredKept DEF MirrorInvariant
<1> QED BY <1>1, <1>2, <1>3, <1>4, <1>5, <1>6, <1>7 DEF Next, Main

\* Whenever backdropd waits with nothing left to receive, its children and backdrops.env
\* show the newest value of the topic.
THEOREM NewestIsShown == Spec => []ShowsNewest
<1>1. Init => ChildrenInvariant /\ StreamInvariant /\ MirrorInvariant
  BY InitChildren DEF Init, StreamInvariant, MirrorInvariant
<1>2. ChildrenInvariant /\ StreamInvariant /\ MirrorInvariant /\ [Next]_vars
      => (ChildrenInvariant /\ StreamInvariant /\ MirrorInvariant)'
  BY NextKeepsChildren, NextKeepsStream, NextKeepsMirror
<1>3. StreamInvariant /\ MirrorInvariant => ShowsNewest
  BY DEF StreamInvariant, Newest, MirrorInvariant, Mirrored, OutputsOf, ShowsNewest
<1> QED BY <1>1, <1>2, <1>3, PTL DEF Spec
=============================================================================
