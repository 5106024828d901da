------------------------- MODULE RuntimeDaemonProofs -------------------------
(***************************************************************************)
(* BusInvariant is inductive, for any set of threads, subscriptions and    *)
(* commands, so no event the daemon issues is lost.  One lemma per action  *)
(* of RuntimeDaemon; NextKeepsBus puts them together.                      *)
(* DeliveryInvariant, OrderInvariant, CurrentInvariant, FailuresInvariant  *)
(* and OneWriterInvariant build on it in the same way.                     *)
(***************************************************************************)
EXTENDS RuntimeDaemon, RuntimeCommandsProofs, FiniteSetTheorems

\* Sequences over any set, for the operators of Sequences, whose facts need a set.
LEMMA SeqIsSequence ==
    ASSUME NEW S, NEW q \in Seq(S)
    PROVE  Sequence(q) /\ DOMAIN q = 1..Len(q)
  BY DEF Sequence

\* Append keeps the elements and adds one behind them.
LEMMA SequenceAppend ==
    ASSUME NEW q, Sequence(q), NEW x
    PROVE  /\ Sequence(Append(q, x))
           /\ Len(Append(q, x)) = Len(q) + 1
           /\ \A i \in 1..Len(q) : Append(q, x)[i] = q[i]
           /\ Append(q, x)[Len(q) + 1] = x
<1> DEFINE S == {q[i] : i \in 1..Len(q)} \cup {x}
<1>1. q \in Seq(S)
  BY DEF Sequence
<1>2. x \in S
  OBVIOUS
<1> HIDE DEF S
<1>3. Append(q, x) \in Seq(S)
  BY <1>1, <1>2
<1>4. Sequence(Append(q, x))
  BY <1>3, SeqIsSequence
<1> QED BY <1>1, <1>2, <1>4, AppendProperties

\* Concatenation keeps the elements of both parts in place.
LEMMA SequenceConcat ==
    ASSUME NEW q, Sequence(q), NEW r, Sequence(r)
    PROVE  /\ Sequence(q \o r)
           /\ Len(q \o r) = Len(q) + Len(r)
           /\ \A i \in 1..Len(q) : (q \o r)[i] = q[i]
           /\ \A i \in 1..Len(r) : (q \o r)[Len(q) + i] = r[i]
<1> DEFINE S == {q[i] : i \in 1..Len(q)} \cup {r[i] : i \in 1..Len(r)}
<1>1. q \in Seq(S) /\ r \in Seq(S)
  BY DEF Sequence
<1> HIDE DEF S
<1>2. q \o r \in Seq(S)
  BY <1>1
<1>3. Len(q) \in Nat /\ Len(r) \in Nat
  BY DEF Sequence
<1>4. \A i \in 1..(Len(q) + Len(r)) :
         (q \o r)[i] = IF i <= Len(q) THEN q[i] ELSE r[i - Len(q)]
  BY <1>1, ConcatProperties
<1>5. Sequence(q \o r)
  BY <1>2, SeqIsSequence
<1>6. Len(q \o r) = Len(q) + Len(r)
  BY <1>1, ConcatProperties
<1> QED BY <1>3, <1>4, <1>5, <1>6

\* Tail drops the first element and moves the others up.
LEMMA SequenceTail ==
    ASSUME NEW q, Sequence(q), q # <<>>
    PROVE  /\ Sequence(Tail(q))
           /\ Len(Tail(q)) = Len(q) - 1
           /\ \A i \in 2..Len(q) : Tail(q)[i - 1] = q[i]
           /\ Head(q) = q[1] /\ Len(q) >= 1
<1> DEFINE S == {q[i] : i \in 1..Len(q)}
<1>1. q \in Seq(S)
  BY DEF Sequence
<1> HIDE DEF S
<1>2. Tail(q) \in Seq(S) /\ Len(Tail(q)) = Len(q) - 1 /\ Head(q) = q[1]
  BY <1>1, HeadTailProperties
<1>3. \A i \in 1..(Len(q) - 1) : Tail(q)[i] = q[i + 1]
  BY <1>1, HeadTailProperties
<1>4. Len(q) \in Nat /\ Len(q) >= 1
  BY <1>1
<1>5. Sequence(Tail(q))
  BY <1>2, SeqIsSequence
<1>6. ASSUME NEW i \in 2..Len(q)
      PROVE  Tail(q)[i - 1] = q[i]
  <2>1. i - 1 \in 1..(Len(q) - 1) /\ (i - 1) + 1 = i
    BY <1>4
  <2> QED BY <1>3, <2>1
<1> QED BY <1>2, <1>4, <1>5, <1>6

\* Every handler's event deltas are a sequence, whatever the command and the state.
LEMMA DeltasAreSequences ==
    ASSUME NEW command, NEW s, NEW file
    PROVE  Sequence(Handle(command, s, file).deltas)
<1> DEFINE Good(transition) == Sequence(transition.deltas)
<1>1. \A list, t, f, e : Len(list) \in Nat => Good(Announce(t, f, list, e))
  BY DEF Announce, Transition, ResetDeltas, Sequence
<1>2. \A t, f : Good(Unchanged(t, f))
  BY DEF Unchanged, Transition, Sequence
<1>3. \A e, t, f : Good(EffectOnly(e, t, f))
  BY DEF EffectOnly, Transition, Sequence
<1>4. Good(WorkspaceSwitch(command, s, file))
  BY <1>1, <1>2 DEF WorkspaceSwitch, ChangedWorkspaceTopics
<1>5. Good(WorkspaceRename(command, s, file))
  BY <1>1, <1>2 DEF WorkspaceRename, ChangedWorkspaceTopics
<1>6. Good(PublishWindows(command, s, file))
  BY <1>1 DEF PublishWindows
<1>7. Good(PublishWorkspaces(command, s, file))
  BY <1>1 DEF PublishWorkspaces, ChangedWorkspaceTopics
<1>8. \A f, e : Good(StyleTransition(s, f, e))
  <2>1. \A old, new : Len(ChangedStyleTopics(old, new)) \in Nat
    BY DEF ChangedStyleTopics
  <2> QED BY <1>1, <2>1 DEF StyleTransition
<1>9. /\ Good(ColorSelect(command, s, file))
      /\ Good(BackdropSelect(command, s, file))
      /\ Good(StyleSet(command, s, file))
      /\ Good(StyleApply(command, s, file))
  BY <1>2, <1>8 DEF ColorSelect, BackdropSelect, StyleSet, StyleApply
<1>10. Good(Refresh(command, s, file))
  BY DEF Refresh, Transition, Sequence
<1>11. Good(Reload(command, s, file))
  BY DEF Reload, Transition, ReloadTargets, Sequence
<1> HIDE DEF Good
<1>12. Good(Handle(command, s, file))
  BY <1>2, <1>3, <1>4, <1>5, <1>6, <1>7, <1>9, <1>10, <1>11 DEF Handle
<1> QED BY <1>12 DEF Good

-----------------------------------------------------------------------------
\* The daemon starts without events, frames and subscriptions.
LEMMA InitBus == Init => BusInvariant
<1> SUFFICES ASSUME Init PROVE BusInvariant
  OBVIOUS
<1>1. Sequence(<<>>) /\ Len(<<>>) = 0 /\ \A i : i \notin DOMAIN <<>>
  BY DEF Sequence
<1>2. EventsAreNumbered
  <2>1. issued = <<>> /\ nextEventSeq = 1 /\ frames = [t \in Threads |-> <<>>]
    BY DEF Init
  <2>2. Sequence(issued) /\ Len(issued) = nextEventSeq - 1
    BY <1>1, <2>1
  <2> QED BY <1>1, <2>1, <2>2 DEF EventsAreNumbered
<1>3. ThreadsHoldFrames
  BY <1>1 DEF Init, ThreadsHoldFrames, PCs
<1>4. SubscriptionsAreListed
  BY <1>1 DEF Init, SubscriptionsAreListed, Phases
<1>5. NoEventLost
  BY <1>1 DEF Init, NoEventLost
<1> QED BY <1>2, <1>3, <1>4, <1>5 DEF BusInvariant

\* What BusInvariant reads.
busPart == <<nextEventSeq, issued, pc, failed, frames, todo, subscribers, request, phase,
             registeredAt, queue, received>>

\* Steps of the FIFO, of the effects of others and of a peer touch nothing of the bus.
LEMMA UnchangedBus == BusInvariant /\ UNCHANGED busPart => BusInvariant'
  BY DEF BusInvariant, busPart, EventsAreNumbered, ThreadsHoldFrames, SubscriptionsAreListed,
         NoEventLost, Owed, Served, Holds, Carries, WantsEvents, WantsTopic

\* What an event leaves in the log.
Entry(t, delta) ==
    [topic |-> delta.topic, reset |-> delta.reset, value |-> delta.value, by |-> t]

\* New events stand behind the issued ones, in the order of the deltas.
LEMMA IssuedLog ==
    ASSUME BusInvariant, NEW t \in Threads,
           NEW deltas, Sequence(deltas), IssueEvents(t, deltas)
    PROVE  /\ Sequence(issued') /\ Len(issued') = nextEventSeq - 1 + Len(deltas)
           /\ DOMAIN issued' = 1..(nextEventSeq - 1 + Len(deltas))
           /\ DOMAIN issued = 1..(nextEventSeq - 1)
           /\ nextEventSeq \in Nat \ {0} /\ Len(deltas) \in Nat
           /\ \A q \in 1..(nextEventSeq - 1) : issued'[q] = issued[q]
           /\ \A i \in 1..Len(deltas) :
                 issued'[nextEventSeq - 1 + i] = Entry(t, deltas[i])
<1> DEFINE n == Len(deltas)
           new == [i \in 1..n |-> Entry(t, deltas[i])]
<1>1. n \in Nat /\ nextEventSeq \in Nat \ {0} /\ Len(issued) = nextEventSeq - 1
  BY DEF Sequence, BusInvariant, EventsAreNumbered
<1>2. Sequence(new) /\ Len(new) = n
  BY <1>1 DEF Sequence
<1>3. Sequence(issued) /\ DOMAIN issued = 1..(nextEventSeq - 1)
  BY <1>1 DEF Sequence, BusInvariant, EventsAreNumbered
<1>4. issued' = issued \o new
  BY DEF IssueEvents, Entry
<1>5. \A i \in 1..n : new[i] = Entry(t, deltas[i])
  OBVIOUS
<1> HIDE DEF new
<1>6. /\ Sequence(issued') /\ Len(issued') = nextEventSeq - 1 + n
      /\ \A q \in 1..(nextEventSeq - 1) : issued'[q] = issued[q]
      /\ \A i \in 1..n : issued'[nextEventSeq - 1 + i] = new[i]
  <2>1. /\ Sequence(issued \o new)
        /\ Len(issued \o new) = Len(issued) + Len(new)
        /\ \A q \in 1..Len(issued) : (issued \o new)[q] = issued[q]
        /\ \A i \in 1..Len(new) : (issued \o new)[Len(issued) + i] = new[i]
    <3>1. Sequence(issued) /\ Sequence(new)
      BY <1>2, <1>3
    <3>2. Sequence(issued \o new)
      BY <3>1, SequenceConcat
    <3>3. Len(issued \o new) = Len(issued) + Len(new)
      BY <3>1, SequenceConcat
    <3>4. \A q \in 1..Len(issued) : (issued \o new)[q] = issued[q]
      BY <3>1, SequenceConcat
    <3>5. \A i \in 1..Len(new) : (issued \o new)[Len(issued) + i] = new[i]
      BY <3>1, SequenceConcat
    <3> QED BY <3>2, <3>3, <3>4, <3>5
  <2> QED BY <1>1, <1>2, <1>4, <2>1
<1>7. DOMAIN issued' = 1..(nextEventSeq - 1 + n)
  BY <1>6 DEF Sequence
<1> QED BY <1>1, <1>3, <1>5, <1>6, <1>7

\* New events take the numbers behind the issued ones and are held by the thread.
LEMMA IssueEventsFacts ==
    ASSUME BusInvariant, NEW t \in Threads, frames[t] = <<>>,
           NEW deltas, Sequence(deltas), IssueEvents(t, deltas)
    PROVE  /\ EventsAreNumbered'
           /\ \A q \in DOMAIN issued : q \in DOMAIN issued' /\ issued'[q] = issued[q]
           /\ \A q \in (DOMAIN issued') \ DOMAIN issued :
                 /\ issued'[q].by = t
                 /\ \E i \in DOMAIN frames'[t] : frames'[t][i].seq = q
           /\ \A u \in Threads : u # t => frames'[u] = frames[u]
<1> DEFINE n == Len(deltas)
           new == [i \in 1..n |-> Entry(t, deltas[i])]
<1>1. n \in Nat /\ nextEventSeq \in Nat \ {0}
  BY IssuedLog
<1>2. DOMAIN issued = 1..(nextEventSeq - 1)
  BY IssuedLog
<1>3. /\ Sequence(issued') /\ Len(issued') = nextEventSeq - 1 + n
      /\ \A q \in 1..(nextEventSeq - 1) : issued'[q] = issued[q]
      /\ \A i \in 1..n : issued'[nextEventSeq - 1 + i] = new[i]
  BY IssuedLog
<1>4. DOMAIN issued' = 1..(nextEventSeq - 1 + n)
  BY IssuedLog
<1>5. \A i \in 1..n : new[i].by = t /\ new[i].topic = deltas[i].topic
  BY DEF Entry
<1> HIDE DEF new
<1>6. /\ nextEventSeq' = nextEventSeq + n
      /\ frames'[t] = [i \in 1..n |-> EventFrame(nextEventSeq + i - 1, deltas[i])]
      /\ DOMAIN frames' = Threads
      /\ \A u \in Threads : u # t => frames'[u] = frames[u]
  BY DEF IssueEvents, RealizeEvents, BusInvariant, EventsAreNumbered
<1>7. \A i \in 1..n : /\ frames'[t][i].seq = nextEventSeq + i - 1
                      /\ frames'[t][i].topic = deltas[i].topic
  BY <1>6 DEF EventFrame
<1>8. ASSUME NEW q \in (DOMAIN issued') \ DOMAIN issued
       PROVE  /\ issued'[q].by = t
              /\ \E i \in DOMAIN frames'[t] : frames'[t][i].seq = q
  <2> DEFINE i == q - (nextEventSeq - 1)
  <2>1. i \in 1..n /\ q = nextEventSeq - 1 + i /\ q = nextEventSeq + i - 1
    BY <1>1, <1>2, <1>4
  <2>2. issued'[q].by = t
    BY <1>3, <1>5, <2>1
  <2>3. i \in DOMAIN frames'[t] /\ frames'[t][i].seq = q
    BY <1>6, <1>7, <2>1
  <2> QED BY <2>2, <2>3
<1>9. \A q \in DOMAIN issued : q \in DOMAIN issued' /\ issued'[q] = issued[q]
  BY <1>1, <1>2, <1>3, <1>4
<1>10. \A q \in DOMAIN issued' : issued'[q].by \in Threads
  BY <1>8, <1>9 DEF BusInvariant, EventsAreNumbered
<1>11. ASSUME NEW u \in Threads, NEW i \in DOMAIN frames'[u]
       PROVE  /\ frames'[u][i].seq \in DOMAIN issued'
              /\ frames'[u][i].topic = issued'[frames'[u][i].seq].topic
  <2>1. CASE u = t
    <3>1. i \in 1..n
      BY <1>6, <2>1
    <3>2. nextEventSeq + i - 1 \in DOMAIN issued' /\ nextEventSeq + i - 1 = nextEventSeq - 1 + i
      BY <1>1, <1>4, <3>1
    <3> QED BY <1>3, <1>7, <1>5, <2>1, <3>1, <3>2
  <2>2. CASE u # t
    BY <1>6, <1>9, <2>2 DEF BusInvariant, EventsAreNumbered
  <2> QED BY <2>1, <2>2
<1>12. EventsAreNumbered'
  BY <1>1, <1>3, <1>6, <1>10, <1>11 DEF EventsAreNumbered
<1> QED BY <1>6, <1>8, <1>9, <1>12

-----------------------------------------------------------------------------
(* Handlers *)

\* A commit (modifyMVar of a request, a frame or a FIFO line) leaves its events with
\* its own thread.
LEMMA CommitKeepsBus ==
    ASSUME BusInvariant, NEW t \in Threads, NEW command, Commit(t, command)
    PROVE  BusInvariant'
<1> DEFINE result == Handle(command, runtimeState, styleFile)
<1>1. pc[t] = "idle" /\ frames[t] = <<>>
  BY DEF Commit, BusInvariant, ThreadsHoldFrames
<1>2. Sequence(result.deltas)
  BY DeltasAreSequences
<1>3. IssueEvents(t, result.deltas)
  BY DEF Commit
<1>4. /\ EventsAreNumbered'
      /\ \A q \in DOMAIN issued : q \in DOMAIN issued' /\ issued'[q] = issued[q]
      /\ \A q \in (DOMAIN issued') \ DOMAIN issued :
            /\ issued'[q].by = t
            /\ \E i \in DOMAIN frames'[t] : frames'[t][i].seq = q
      /\ \A u \in Threads : u # t => frames'[u] = frames[u]
  BY <1>1, <1>2, <1>3, IssueEventsFacts
<1>5. /\ pc' = [pc EXCEPT ![t] = IF result.effects = <<>> THEN "topics" ELSE "effects"]
      /\ UNCHANGED <<todo, failed, subVars, queue>>
  BY DEF Commit
<1> HIDE DEF result
<1>6. ThreadsHoldFrames'
  BY <1>1, <1>4, <1>5 DEF BusInvariant, ThreadsHoldFrames, PCs
<1>7. SubscriptionsAreListed'
  BY <1>5 DEF BusInvariant, SubscriptionsAreListed, subVars
<1>8. ASSUME NEW s \in Subs, NEW q \in DOMAIN issued', Owed(s, q)'
      PROVE  (\/ Holds(issued[q].by, s, q) \/ Carries(queue[s], q)
              \/ Carries(received[s], q) \/ pc[issued[q].by] = "dead")'
  <2>1. CASE q \in DOMAIN issued
    <3>1. Owed(s, q)
      BY <1>4, <1>5, <1>8, <2>1 DEF Owed, Served, WantsEvents, WantsTopic, subVars
    <3>2. issued[q].by \in Threads
      BY <2>1 DEF BusInvariant, EventsAreNumbered
    <3>3. issued[q].by = t => frames[t] = <<>> /\ todo[t] = <<>> /\ pc[t] # "dead"
      BY <1>1 DEF BusInvariant, ThreadsHoldFrames
    <3>4. \/ Holds(issued[q].by, s, q) \/ Carries(queue[s], q)
          \/ Carries(received[s], q) \/ pc[issued[q].by] = "dead"
      BY <2>1, <3>1 DEF BusInvariant, NoEventLost
    <3>5. \A i : i \notin DOMAIN <<>>
      OBVIOUS
    <3> QED
      BY <1>4, <1>5, <2>1, <3>2, <3>3, <3>4, <3>5
      DEF Holds, Carries, subVars, BusInvariant, ThreadsHoldFrames
  <2>2. CASE q \notin DOMAIN issued
    BY <1>4, <2>2 DEF Holds
  <2> QED BY <2>1, <2>2
<1>9. NoEventLost'
  BY <1>8 DEF NoEventLost
<1> QED BY <1>4, <1>6, <1>7, <1>9 DEF BusInvariant

\* An exception in modifyMVar issues nothing; at most the FIFO or producer thread ends.
LEMMA CommitAbortsKeepsBus ==
    ASSUME BusInvariant, NEW t \in Threads, NEW command, CommitAborts(t, command)
    PROVE  BusInvariant'
<1>1. /\ pc[t] = "idle" /\ frames[t] = <<>> /\ todo[t] = <<>>
      /\ pc' = [pc EXCEPT ![t] = IF t \in Clients THEN "idle" ELSE "dead"]
      /\ UNCHANGED <<nextEventSeq, issued, frames, todo, failed, subVars, queue>>
  BY DEF CommitAborts, BusInvariant, ThreadsHoldFrames
<1>2. EventsAreNumbered'
  BY <1>1 DEF BusInvariant, EventsAreNumbered
<1>3. ThreadsHoldFrames'
  BY <1>1 DEF BusInvariant, ThreadsHoldFrames, PCs
<1>4. SubscriptionsAreListed'
  BY <1>1 DEF BusInvariant, SubscriptionsAreListed, subVars
<1>5. NoEventLost'
  BY <1>1 DEF BusInvariant, EventsAreNumbered, ThreadsHoldFrames, NoEventLost, Owed, Served,
              Holds, Carries, WantsEvents, WantsTopic, subVars
<1> QED BY <1>2, <1>3, <1>4, <1>5 DEF BusInvariant

\* The effects of a handler move its program counter and drop its frames only with the
\* thread.
LEMMA EffectsKeepBus ==
    ASSUME BusInvariant, NEW t \in Threads,
           EffectSucceeds(t) \/ EffectFails(t) \/ EffectThrows(t)
    PROVE  BusInvariant'
<1>1. /\ pc[t] = "effects" /\ todo[t] = <<>>
      /\ UNCHANGED <<nextEventSeq, issued, todo, subVars, queue>>
      /\ failed' \in [Threads -> Nat]
  <2>1. /\ pc[t] = "effects"
        /\ UNCHANGED <<nextEventSeq, issued, todo, subVars, queue>>
    BY DEF EffectSucceeds, EffectFails, EffectThrows, EffectOver, serverVars
  <2>2. todo[t] = <<>>
    BY <2>1 DEF BusInvariant, ThreadsHoldFrames
  <2>3. failed' \in [Threads -> Nat]
    <3>1. failed \in [Threads -> Nat]
      BY DEF BusInvariant, ThreadsHoldFrames
    <3>2. \/ failed' = failed
          \/ failed' = [failed EXCEPT ![t] = @ + 1]
          \/ failed' = [failed EXCEPT ![t] = 0]
      BY DEF EffectSucceeds, EffectFails, EffectThrows
    <3> QED BY <3>1, <3>2
  <2> QED BY <2>1, <2>2, <2>3
<1>2. /\ \/ frames' = frames /\ pc' = [pc EXCEPT ![t] = "effects"]
         \/ frames' = frames /\ pc' = [pc EXCEPT ![t] = "topics"]
         \/ frames' = [frames EXCEPT ![t] = <<>>] /\ pc' = [pc EXCEPT ![t] = "dead"]
  BY DEF EffectSucceeds, EffectFails, EffectThrows, EffectOver
<1>3. \A i : i \notin DOMAIN <<>>
  OBVIOUS
<1>4. EventsAreNumbered'
  BY <1>1, <1>2, <1>3 DEF BusInvariant, EventsAreNumbered
<1>5. ThreadsHoldFrames'
  <2>1. pc' \in [Threads -> PCs]
    BY <1>2 DEF BusInvariant, ThreadsHoldFrames, PCs
  <2>2. ASSUME NEW u \in Threads, frames'[u] # <<>>
        PROVE  pc'[u] \in {"effects", "topics", "events"}
    <3>1. CASE u = t
      BY <1>2, <2>2, <3>1 DEF BusInvariant, EventsAreNumbered, ThreadsHoldFrames
    <3>2. CASE u # t
      BY <1>2, <2>2, <3>2 DEF BusInvariant, EventsAreNumbered, ThreadsHoldFrames
    <3> QED BY <3>1, <3>2
  <2>3. \A u \in Threads : todo'[u] # <<>> => pc'[u] \in {"events", "status"}
    BY <1>1, <1>2 DEF BusInvariant, ThreadsHoldFrames
  <2> QED BY <1>1, <2>1, <2>2, <2>3 DEF BusInvariant, ThreadsHoldFrames
<1>6. SubscriptionsAreListed'
  BY <1>1 DEF BusInvariant, SubscriptionsAreListed, subVars
<1>7. ASSUME NEW s \in Subs, NEW q \in DOMAIN issued', Owed(s, q)'
      PROVE  (\/ Holds(issued[q].by, s, q) \/ Carries(queue[s], q)
              \/ Carries(received[s], q) \/ pc[issued[q].by] = "dead")'
  <2>1. Owed(s, q) /\ q \in DOMAIN issued
    BY <1>1, <1>7 DEF Owed, Served, WantsEvents, WantsTopic, subVars
  <2>2. \/ Holds(issued[q].by, s, q) \/ Carries(queue[s], q)
        \/ Carries(received[s], q) \/ pc[issued[q].by] = "dead"
    BY <2>1 DEF BusInvariant, NoEventLost
  <2>3. CASE issued[q].by # t
    BY <1>1, <1>2, <2>2, <2>3
    DEF Holds, Carries, subVars, BusInvariant, EventsAreNumbered, ThreadsHoldFrames
  <2>4. CASE issued[q].by = t
    BY <1>1, <1>2, <2>2, <2>4
    DEF Holds, Carries, subVars, BusInvariant, EventsAreNumbered, ThreadsHoldFrames
  <2> QED BY <2>3, <2>4
<1>8. NoEventLost'
  BY <1>7 DEF NoEventLost
<1> QED BY <1>4, <1>5, <1>6, <1>8 DEF BusInvariant

\* State frames carry no event: broadcastTopics replaces work that was already done.
LEMMA BroadcastTopicsKeepsBus ==
    ASSUME BusInvariant, NEW t \in Threads, BroadcastTopics(t)
    PROVE  BusInvariant'
<1>1. /\ pc[t] = "topics" /\ todo[t] = <<>>
      /\ pc' = [pc EXCEPT ![t] = "events"]
      /\ UNCHANGED <<nextEventSeq, issued, frames, failed, subVars, queue>>
  BY DEF BroadcastTopics, BusInvariant, ThreadsHoldFrames, serverVars
<1>2. /\ DOMAIN todo' = Threads
      /\ \A u \in Threads : u # t => todo'[u] = todo[u]
      /\ \A i \in DOMAIN todo'[t] :
            todo'[t][i] = [frame |-> todo'[t][i].frame, to |-> todo'[t][i].to]
  <2> DEFINE Sent(i) == [frame |-> StateFrame("state", topics[t][i]),
                         to |-> {s \in subscribers : WantsSnapshots(s, topics[t][i])}]
  <2>1. DOMAIN todo = Threads
    BY DEF BusInvariant, ThreadsHoldFrames
  <2>2. todo' = [todo EXCEPT ![t] = [i \in DOMAIN topics[t] |-> Sent(i)]]
    BY DEF BroadcastTopics
  <2> QED BY <2>1, <2>2
<1>3. EventsAreNumbered'
  BY <1>1 DEF BusInvariant, EventsAreNumbered
<1>4. ThreadsHoldFrames'
  BY <1>1, <1>2 DEF BusInvariant, EventsAreNumbered, ThreadsHoldFrames, PCs
<1>5. SubscriptionsAreListed'
  BY <1>1 DEF BusInvariant, SubscriptionsAreListed, subVars
<1>6. ASSUME NEW s \in Subs, NEW q \in DOMAIN issued', Owed(s, q)'
      PROVE  (\/ Holds(issued[q].by, s, q) \/ Carries(queue[s], q)
              \/ Carries(received[s], q) \/ pc[issued[q].by] = "dead")'
  <2>1. Owed(s, q) /\ q \in DOMAIN issued
    BY <1>1, <1>6 DEF Owed, Served, WantsEvents, WantsTopic, subVars
  <2>2. \/ Holds(issued[q].by, s, q) \/ Carries(queue[s], q)
        \/ Carries(received[s], q) \/ pc[issued[q].by] = "dead"
    BY <2>1 DEF BusInvariant, NoEventLost
  <2>3. issued[q].by \in Threads
    BY <2>1 DEF BusInvariant, EventsAreNumbered
  <2>4. \A i : i \notin DOMAIN <<>>
    OBVIOUS
  <2>5. Holds(issued[q].by, s, q) => Holds(issued[q].by, s, q)'
    BY <1>1, <1>2, <2>3, <2>4 DEF Holds
  <2> QED BY <1>1, <2>2, <2>3, <2>5 DEF Carries, subVars, BusInvariant, ThreadsHoldFrames
<1>7. NoEventLost'
  BY <1>6 DEF NoEventLost
<1> QED BY <1>3, <1>4, <1>5, <1>7 DEF BusInvariant

\* From the commit to this step the frames are with t; now each is addressed to the
\* subscriptions of the list, among them every one that is served.
LEMMA BroadcastEventsKeepsBus ==
    ASSUME BusInvariant, NEW t \in Threads, BroadcastEvents(t)
    PROVE  BusInvariant'
<1> DEFINE addressed ==
             [i \in DOMAIN frames[t] |->
                 [frame |-> frames[t][i],
                  to |-> {s \in subscribers : WantsEvents(s, frames[t][i].topic)}]]
<1>1. /\ pc[t] = "events" /\ AllSent(t)
      /\ pc' = [pc EXCEPT ![t] = "status"]
      /\ frames' = [frames EXCEPT ![t] = <<>>]
      /\ UNCHANGED <<nextEventSeq, issued, failed, subVars, queue>>
      /\ todo' = [todo EXCEPT ![t] = addressed]
  BY DEF BroadcastEvents, serverVars
<1>2. /\ DOMAIN todo' = Threads
      /\ \A u \in Threads : u # t => todo'[u] = todo[u] /\ frames'[u] = frames[u]
      /\ frames'[t] = <<>>
      /\ todo'[t] = addressed
  BY <1>1 DEF BusInvariant, EventsAreNumbered, ThreadsHoldFrames
<1> HIDE DEF addressed
<1>3. \A i : i \notin DOMAIN <<>>
  OBVIOUS
<1>4. EventsAreNumbered'
  BY <1>1, <1>3 DEF BusInvariant, EventsAreNumbered
<1>5. ThreadsHoldFrames'
  <2>1. pc' \in [Threads -> PCs] /\ failed' \in [Threads -> Nat]
    BY <1>1 DEF BusInvariant, ThreadsHoldFrames, PCs
  <2>2. ASSUME NEW u \in Threads
        PROVE  /\ frames'[u] # <<>> => pc'[u] \in {"effects", "topics", "events"}
               /\ todo'[u] # <<>> => pc'[u] \in {"events", "status"}
    BY <1>1, <1>2 DEF BusInvariant, ThreadsHoldFrames
  <2>3. ASSUME NEW u \in Threads, NEW i \in DOMAIN todo'[u]
        PROVE  todo'[u][i] = [frame |-> todo'[u][i].frame, to |-> todo'[u][i].to]
    <3>1. CASE u = t
      BY <1>2, <3>1 DEF addressed
    <3>2. CASE u # t
      BY <1>2, <3>2 DEF BusInvariant, ThreadsHoldFrames
    <3> QED BY <3>1, <3>2
  <2> QED BY <1>2, <2>1, <2>2, <2>3 DEF ThreadsHoldFrames
<1>6. SubscriptionsAreListed'
  BY <1>1 DEF BusInvariant, SubscriptionsAreListed, subVars
<1>7. ASSUME NEW s \in Subs, NEW q \in DOMAIN issued', Owed(s, q)'
      PROVE  (\/ Holds(issued[q].by, s, q) \/ Carries(queue[s], q)
              \/ Carries(received[s], q) \/ pc[issued[q].by] = "dead")'
  <2>1. Owed(s, q) /\ q \in DOMAIN issued
    BY <1>1, <1>7 DEF Owed, Served, WantsEvents, WantsTopic, subVars
  <2>2. \/ Holds(issued[q].by, s, q) \/ Carries(queue[s], q)
        \/ Carries(received[s], q) \/ pc[issued[q].by] = "dead"
    BY <2>1 DEF BusInvariant, NoEventLost
  <2>3. issued[q].by \in Threads
    BY <2>1 DEF BusInvariant, EventsAreNumbered
  <2>4. CASE issued[q].by # t
    BY <1>1, <1>2, <2>2, <2>3, <2>4
    DEF Holds, Carries, subVars, BusInvariant, ThreadsHoldFrames
  <2>5. CASE issued[q].by = t /\ Holds(t, s, q)
    <3>1. PICK i \in DOMAIN frames[t] : frames[t][i].seq = q
      BY <1>1, <2>5 DEF Holds, AllSent
    <3>2. frames[t][i].topic = issued[q].topic
      BY <3>1 DEF BusInvariant, EventsAreNumbered
    <3>3. s \in subscribers
      BY <2>1 DEF Owed, Served, BusInvariant, SubscriptionsAreListed
    <3>4. /\ i \in DOMAIN addressed
          /\ addressed[i].frame.seq = q
          /\ s \in addressed[i].to
      BY <2>1, <3>1, <3>2, <3>3 DEF Owed, addressed
    <3>5. Holds(t, s, q)'
      BY <1>2, <3>4 DEF Holds
    <3> QED BY <1>1, <2>5, <3>5
  <2>6. CASE issued[q].by = t /\ ~ Holds(t, s, q)
    BY <1>1, <2>2, <2>6 DEF Carries, subVars, BusInvariant, ThreadsHoldFrames
  <2> QED BY <2>4, <2>5, <2>6
<1>8. NoEventLost'
  BY <1>7 DEF NoEventLost
<1> QED BY <1>4, <1>5, <1>6, <1>8 DEF BusInvariant

\* A frame leaves the thread for the queue of the subscription it is written to.
LEMMA SendFrameKeepsBus ==
    ASSUME BusInvariant, NEW t \in Threads, NEW r \in Subs, SendFrame(t, r)
    PROVE  BusInvariant'
<1>1. PICK i \in DOMAIN todo[t] :
         /\ r \in todo[t][i].to
         /\ queue' = [queue EXCEPT ![r] = Append(@, todo[t][i].frame)]
         /\ todo' = [todo EXCEPT ![t][i].to = @ \ {r}]
         /\ UNCHANGED <<nextEventSeq, issued, pc, frames, failed, subVars>>
  BY DEF SendFrame, serverVars
<1>2. /\ DOMAIN todo' = Threads
      /\ \A u \in Threads : DOMAIN todo'[u] = DOMAIN todo[u]
      /\ \A u \in Threads : u # t => todo'[u] = todo[u]
      /\ \A j \in DOMAIN todo[t] : j # i => todo'[t][j] = todo[t][j]
      /\ todo'[t][i] = [frame |-> todo[t][i].frame, to |-> todo[t][i].to \ {r}]
  <2>1. DOMAIN todo = Threads
    BY DEF BusInvariant, ThreadsHoldFrames
  <2>2. todo[t][i] = [frame |-> todo[t][i].frame, to |-> todo[t][i].to]
    BY DEF BusInvariant, ThreadsHoldFrames
  <2>3. [todo[t][i] EXCEPT !.to = @ \ {r}]
            = [frame |-> todo[t][i].frame, to |-> todo[t][i].to \ {r}]
    BY <2>2
  <2> QED BY <1>1, <2>1, <2>3
<1>3. \A s \in Subs : /\ s # r => queue'[s] = queue[s]
                      /\ Sequence(queue'[s])
                      /\ \A q : Carries(queue[s], q) => Carries(queue'[s], q)
  <2>1. DOMAIN queue = Subs /\ Sequence(queue[r])
    BY DEF BusInvariant, SubscriptionsAreListed
  <2>2. /\ Sequence(queue'[r]) /\ Len(queue'[r]) = Len(queue[r]) + 1
        /\ \A j \in 1..Len(queue[r]) : queue'[r][j] = queue[r][j]
    BY <1>1, <2>1, SequenceAppend
  <2>3. \A j \in DOMAIN queue[r] : j \in DOMAIN queue'[r] /\ queue'[r][j] = queue[r][j]
    BY <2>1, <2>2 DEF Sequence
  <2> QED BY <1>1, <2>1, <2>2, <2>3 DEF Carries, BusInvariant, SubscriptionsAreListed
<1>4. Carries(queue'[r], todo[t][i].frame.seq)
  <2>1. DOMAIN queue = Subs /\ Sequence(queue[r])
    BY DEF BusInvariant, SubscriptionsAreListed
  <2>2. queue'[r] = Append(queue[r], todo[t][i].frame)
    BY <1>1, <2>1
  <2>3. Len(queue[r]) + 1 \in DOMAIN queue'[r]
    <3>1. Sequence(queue'[r]) /\ Len(queue'[r]) = Len(queue[r]) + 1 /\ Len(queue[r]) \in Nat
      BY <2>1, <2>2, SequenceAppend DEF Sequence
    <3> QED BY <3>1 DEF Sequence
  <2>4. queue'[r][Len(queue[r]) + 1] = todo[t][i].frame
    BY <2>1, <2>2, SequenceAppend
  <2> QED BY <2>3, <2>4 DEF Carries
<1>5. EventsAreNumbered'
  BY <1>1 DEF BusInvariant, EventsAreNumbered
<1>6. ThreadsHoldFrames'
  <2>1. ASSUME NEW u \in Threads
        PROVE  todo'[u] # <<>> => pc'[u] \in {"events", "status"}
    <3>1. CASE u = t
      BY <1>1, <3>1 DEF BusInvariant, ThreadsHoldFrames
    <3>2. CASE u # t
      BY <1>1, <1>2, <3>2 DEF BusInvariant, ThreadsHoldFrames
    <3> QED BY <3>1, <3>2
  <2>2. ASSUME NEW u \in Threads, NEW j \in DOMAIN todo'[u]
        PROVE  todo'[u][j] = [frame |-> todo'[u][j].frame, to |-> todo'[u][j].to]
    <3>1. CASE u = t /\ j = i
      BY <1>2, <3>1
    <3>2. CASE ~ (u = t /\ j = i)
      BY <1>2, <3>2 DEF BusInvariant, ThreadsHoldFrames
    <3> QED BY <3>1, <3>2
  <2> QED BY <1>1, <1>2, <2>1, <2>2 DEF BusInvariant, ThreadsHoldFrames
<1>7. SubscriptionsAreListed'
  BY <1>1, <1>3 DEF BusInvariant, SubscriptionsAreListed, subVars
<1>8. ASSUME NEW s \in Subs, NEW q \in DOMAIN issued', Owed(s, q)'
      PROVE  (\/ Holds(issued[q].by, s, q) \/ Carries(queue[s], q)
              \/ Carries(received[s], q) \/ pc[issued[q].by] = "dead")'
  <2>1. Owed(s, q) /\ q \in DOMAIN issued
    BY <1>1, <1>8 DEF Owed, Served, WantsEvents, WantsTopic, subVars
  <2>2. \/ Holds(issued[q].by, s, q) \/ Carries(queue[s], q)
        \/ Carries(received[s], q) \/ pc[issued[q].by] = "dead"
    BY <2>1 DEF BusInvariant, NoEventLost
  <2>3. issued[q].by \in Threads
    BY <2>1 DEF BusInvariant, EventsAreNumbered
  <2>4. ASSUME Holds(issued[q].by, s, q), ~ Holds(issued[q].by, s, q)'
        PROVE  Carries(queue'[s], q)
    <3>0. issued' = issued /\ frames' = frames
      BY <1>1
    <3>1. PICK j \in DOMAIN todo[issued[q].by] :
             todo[issued[q].by][j].frame.seq = q /\ s \in todo[issued[q].by][j].to
      BY <2>4, <3>0 DEF Holds
    <3>2. issued'[q].by = issued[q].by
      BY <3>0, Zenon
    <3>3. ~ (/\ j \in DOMAIN todo'[issued[q].by]
             /\ todo'[issued[q].by][j].frame.seq = q /\ s \in todo'[issued[q].by][j].to)
      BY <2>4, <3>2, Zenon DEF Holds
    <3>4. issued[q].by = t
      <4>1. \A u \in Threads : u # t => todo'[u] = todo[u]
        BY <1>2
      <4> QED BY <2>3, <3>1, <3>3, <4>1
    <3>5. j = i
      <4>1. /\ DOMAIN todo'[t] = DOMAIN todo[t]
            /\ \A k \in DOMAIN todo[t] : k # i => todo'[t][k] = todo[t][k]
        BY <1>2
      <4> QED BY <3>1, <3>3, <3>4, <4>1
    <3>6. s = r
      <4>1. todo'[t][i].frame = todo[t][i].frame /\ todo'[t][i].to = todo[t][i].to \ {r}
        BY <1>2
      <4> QED BY <1>2, <2>3, <3>1, <3>3, <3>4, <3>5, <4>1
    <3> QED BY <1>4, <3>1, <3>4, <3>5, <3>6
  <2> QED BY <1>1, <1>3, <2>2, <2>4 DEF subVars
<1>9. NoEventLost'
  BY <1>8 DEF NoEventLost
<1> QED BY <1>5, <1>6, <1>7, <1>9 DEF BusInvariant

\* A failed effect's event is held by the thread that reports it.
LEMMA IssueStatusKeepsBus ==
    ASSUME BusInvariant, NEW t \in Threads, IssueStatus(t)
    PROVE  BusInvariant'
<1> DEFINE deltas == [i \in 1..failed[t] |-> ActionFailed]
<1>1. /\ pc[t] = "status" /\ AllSent(t) /\ frames[t] = <<>>
      /\ pc' = [pc EXCEPT ![t] = "events"]
      /\ failed' = [failed EXCEPT ![t] = 0]
      /\ UNCHANGED <<todo, subVars, queue>>
  BY DEF IssueStatus, BusInvariant, ThreadsHoldFrames
<1>2. Sequence(deltas)
  BY DEF Sequence, BusInvariant, ThreadsHoldFrames
<1>3. IssueEvents(t, deltas)
  BY DEF IssueStatus
<1> HIDE DEF deltas
<1>4. /\ EventsAreNumbered'
      /\ \A q \in DOMAIN issued : q \in DOMAIN issued' /\ issued'[q] = issued[q]
      /\ \A q \in (DOMAIN issued') \ DOMAIN issued :
            /\ issued'[q].by = t
            /\ \E i \in DOMAIN frames'[t] : frames'[t][i].seq = q
      /\ \A u \in Threads : u # t => frames'[u] = frames[u]
  BY <1>1, <1>2, <1>3, IssueEventsFacts
<1>5. ThreadsHoldFrames'
  <2>1. pc' \in [Threads -> PCs] /\ failed' \in [Threads -> Nat]
    BY <1>1 DEF BusInvariant, ThreadsHoldFrames, PCs
  <2>2. ASSUME NEW u \in Threads
        PROVE  /\ frames'[u] # <<>> => pc'[u] \in {"effects", "topics", "events"}
               /\ todo'[u] # <<>> => pc'[u] \in {"events", "status"}
    BY <1>1, <1>4 DEF BusInvariant, ThreadsHoldFrames
  <2> QED BY <1>1, <2>1, <2>2 DEF BusInvariant, ThreadsHoldFrames
<1>6. SubscriptionsAreListed'
  BY <1>1 DEF BusInvariant, SubscriptionsAreListed, subVars
<1>7. ASSUME NEW s \in Subs, NEW q \in DOMAIN issued', Owed(s, q)'
      PROVE  (\/ Holds(issued[q].by, s, q) \/ Carries(queue[s], q)
              \/ Carries(received[s], q) \/ pc[issued[q].by] = "dead")'
  <2>1. CASE q \in DOMAIN issued
    <3>1. Owed(s, q)
      BY <1>1, <1>4, <1>7, <2>1 DEF Owed, Served, WantsEvents, WantsTopic, subVars
    <3>2. issued[q].by \in Threads /\ issued'[q].by = issued[q].by
      BY <1>4, <2>1 DEF BusInvariant, EventsAreNumbered
    <3>3. \/ Holds(issued[q].by, s, q) \/ Carries(queue[s], q)
          \/ Carries(received[s], q) \/ pc[issued[q].by] = "dead"
      BY <2>1, <3>1 DEF BusInvariant, NoEventLost
    <3>4. issued[q].by = t => ~ Holds(issued[q].by, s, q)
      BY <1>1 DEF Holds, AllSent
    <3>5. issued[q].by # t /\ Holds(issued[q].by, s, q) => Holds(issued[q].by, s, q)'
      BY <1>1, <1>4, <3>2 DEF Holds
    <3>6. UNCHANGED queue /\ UNCHANGED received
      BY <1>1 DEF subVars
    <3>7. pc[issued[q].by] = "dead" => pc'[issued'[q].by] = "dead"
      BY <1>1, <3>2 DEF BusInvariant, ThreadsHoldFrames
    <3> QED BY <3>3, <3>4, <3>5, <3>6, <3>7
  <2>2. CASE q \notin DOMAIN issued
    BY <1>4, <2>2 DEF Holds
  <2> QED BY <2>1, <2>2
<1>8. NoEventLost'
  BY <1>7 DEF NoEventLost
<1> QED BY <1>4, <1>5, <1>6, <1>8 DEF BusInvariant

\* A handler ends after its last frame has reached the queues.
LEMMA FinishKeepsBus ==
    ASSUME BusInvariant, NEW t \in Threads, Finish(t)
    PROVE  BusInvariant'
<1>1. /\ pc[t] = "status" /\ AllSent(t) /\ frames[t] = <<>>
      /\ pc' = [pc EXCEPT ![t] = "idle"]
      /\ todo' = [todo EXCEPT ![t] = <<>>]
      /\ UNCHANGED <<nextEventSeq, issued, frames, failed, subVars, queue>>
  BY DEF Finish, BusInvariant, ThreadsHoldFrames, serverVars
<1>2. /\ DOMAIN todo' = Threads /\ todo'[t] = <<>>
      /\ \A u \in Threads : u # t => todo'[u] = todo[u]
  BY <1>1 DEF BusInvariant, ThreadsHoldFrames
<1>3. EventsAreNumbered'
  BY <1>1 DEF BusInvariant, EventsAreNumbered
<1>4. ThreadsHoldFrames'
  <2>1. pc' \in [Threads -> PCs]
    BY <1>1 DEF BusInvariant, ThreadsHoldFrames, PCs
  <2>2. ASSUME NEW u \in Threads
        PROVE  /\ frames'[u] # <<>> => pc'[u] \in {"effects", "topics", "events"}
               /\ todo'[u] # <<>> => pc'[u] \in {"events", "status"}
    BY <1>1, <1>2 DEF BusInvariant, ThreadsHoldFrames
  <2>3. \A i : i \notin DOMAIN <<>>
    OBVIOUS
  <2> QED BY <1>1, <1>2, <2>1, <2>2, <2>3 DEF BusInvariant, ThreadsHoldFrames
<1>5. SubscriptionsAreListed'
  BY <1>1 DEF BusInvariant, SubscriptionsAreListed, subVars
<1>6. ASSUME NEW s \in Subs, NEW q \in DOMAIN issued', Owed(s, q)'
      PROVE  (\/ Holds(issued[q].by, s, q) \/ Carries(queue[s], q)
              \/ Carries(received[s], q) \/ pc[issued[q].by] = "dead")'
  <2>1. Owed(s, q) /\ q \in DOMAIN issued
    BY <1>1, <1>6 DEF Owed, Served, WantsEvents, WantsTopic, subVars
  <2>2. \/ Holds(issued[q].by, s, q) \/ Carries(queue[s], q)
        \/ Carries(received[s], q) \/ pc[issued[q].by] = "dead"
    BY <2>1 DEF BusInvariant, NoEventLost
  <2>3. issued[q].by \in Threads
    BY <2>1 DEF BusInvariant, EventsAreNumbered
  <2>4. issued[q].by = t => ~ Holds(issued[q].by, s, q)
    BY <1>1 DEF Holds, AllSent
  <2>5. issued[q].by # t /\ Holds(issued[q].by, s, q) => Holds(issued[q].by, s, q)'
    BY <1>1, <1>2, <2>3 DEF Holds
  <2> QED
    BY <1>1, <2>2, <2>3, <2>4, <2>5 DEF Carries, subVars, BusInvariant, ThreadsHoldFrames
<1>7. NoEventLost'
  BY <1>6 DEF NoEventLost
<1> QED BY <1>3, <1>4, <1>5, <1>7 DEF BusInvariant

-----------------------------------------------------------------------------
(* Subscriptions *)

\* Nothing is owed to a new subscription: every event so far has a smaller number.
LEMMA RegisterKeepsBus ==
    ASSUME BusInvariant, NEW r \in Subs, Register(r)
    PROVE  BusInvariant'
<1>1. PICK wanted : request' = [request EXCEPT ![r] = wanted]
  BY DEF Register
<1>2. /\ phase[r] = "absent" /\ phase' = [phase EXCEPT ![r] = "registered"]
      /\ subscribers' = subscribers \cup {r}
      /\ registeredAt' = [registeredAt EXCEPT ![r] = nextEventSeq]
      /\ UNCHANGED <<nextEventSeq, issued, pc, frames, todo, failed, queue, received>>
  BY DEF Register, serverVars, threadVars
<1>3. EventsAreNumbered'
  BY <1>2 DEF BusInvariant, EventsAreNumbered
<1>4. ThreadsHoldFrames'
  BY <1>2 DEF BusInvariant, ThreadsHoldFrames
<1>5. SubscriptionsAreListed'
  <2>1. nextEventSeq \in Nat
    BY DEF BusInvariant, EventsAreNumbered
  <2>2. request' \in [Subs -> SubRequests \cup {NoRequest}]
    BY DEF Register, BusInvariant, SubscriptionsAreListed
  <2> QED BY <1>2, <2>1, <2>2 DEF BusInvariant, SubscriptionsAreListed, Phases
<1>6. ASSUME NEW s \in Subs, NEW q \in DOMAIN issued', Owed(s, q)'
      PROVE  (\/ Holds(issued[q].by, s, q) \/ Carries(queue[s], q)
              \/ Carries(received[s], q) \/ pc[issued[q].by] = "dead")'
  <2>1. q \in 1..(nextEventSeq - 1) /\ nextEventSeq \in Nat
    BY <1>2 DEF BusInvariant, EventsAreNumbered, Sequence
  <2>2. s # r
    BY <1>2, <1>6, <2>1 DEF Owed, BusInvariant, SubscriptionsAreListed
  <2>3. Owed(s, q)
    BY <1>1, <1>2, <1>6, <2>2
    DEF Owed, Served, WantsEvents, WantsTopic, BusInvariant, SubscriptionsAreListed
  <2> QED BY <1>2, <2>3 DEF BusInvariant, NoEventLost, Holds, Carries
<1>7. NoEventLost'
  BY <1>6 DEF NoEventLost
<1> QED BY <1>3, <1>4, <1>5, <1>7 DEF BusInvariant

\* The initial state is written before anything is read from the queue.
LEMMA SendInitialStateKeepsBus ==
    ASSUME BusInvariant, NEW r \in Subs, SendInitialState(r)
    PROVE  BusInvariant'
<1>1. /\ phase[r] = "registered" /\ received[r] = <<>>
      /\ UNCHANGED <<nextEventSeq, issued, pc, frames, todo, failed, queue, subscribers,
                     request, registeredAt>>
  BY DEF SendInitialState, serverVars, threadVars, BusInvariant, SubscriptionsAreListed
<1>2. /\ phase' \in [Subs -> Phases] /\ phase'[r] \in {"initial", "streaming", "leaving"}
      /\ \A s \in Subs : s # r => phase'[s] = phase[s]
  BY DEF SendInitialState, BusInvariant, SubscriptionsAreListed, Phases
<1>3. /\ DOMAIN received' = Subs /\ Sequence(received'[r])
      /\ \A i \in DOMAIN received'[r] :
            received'[r][i].type # "event" /\ received'[r][i].seq = 0
      /\ \A s \in Subs : s # r => received'[s] = received[s]
  <2> DEFINE Initial(type) == [i \in 1..Len(request[r].topics) |->
                                  StateFrame(type, request[r].topics[i])]
  <2>1. DOMAIN received = Subs /\ Sequence(received[r])
    BY DEF BusInvariant, SubscriptionsAreListed
  <2>2. Sequence(<<>>)
    BY DEF Sequence
  <2>3. \A type : Sequence(Initial(type))
    <3>1. request[r] \in SubRequests \cup {NoRequest}
      BY DEF BusInvariant, SubscriptionsAreListed
    <3>2. Len(request[r].topics) \in Nat
      BY <3>1, RuntimeDaemonAssumption DEF NoRequest
    <3> QED BY <3>2 DEF Sequence
  <2>4. \/ received' = received
        \/ received' = [received EXCEPT ![r] = <<>>]
        \/ received' = [received EXCEPT ![r] = Initial("state")]
        \/ received' = [received EXCEPT ![r] = Initial("snapshot")]
    BY DEF SendInitialState, InitialFrames
  <2>5. \A type \in {"state", "snapshot"} : \A i \in DOMAIN Initial(type) :
           Initial(type)[i].type # "event" /\ Initial(type)[i].seq = 0
    BY DEF StateFrame
  <2>6. \A i : i \notin DOMAIN <<>>
    OBVIOUS
  <2> HIDE DEF Initial
  <2> QED BY <1>1, <2>1, <2>2, <2>3, <2>4, <2>5, <2>6
<1>4. EventsAreNumbered'
  BY <1>1 DEF BusInvariant, EventsAreNumbered
<1>5. ThreadsHoldFrames'
  BY <1>1 DEF BusInvariant, ThreadsHoldFrames
<1>6. SubscriptionsAreListed'
  <2>1. ASSUME NEW s \in Subs
        PROVE  /\ Sequence(queue'[s]) /\ Sequence(received'[s])
               /\ s \in subscribers'
                     <=> phase'[s] \in {"registered", "initial", "streaming", "leaving"}
               /\ phase'[s] \in {"absent", "registered"} => received'[s] = <<>>
               /\ phase'[s] = "initial" =>
                     \A i \in DOMAIN received'[s] :
                         received'[s][i].type # "event" /\ received'[s][i].seq = 0
    <3>1. CASE s = r
      BY <1>1, <1>2, <1>3, <3>1 DEF BusInvariant, SubscriptionsAreListed
    <3>2. CASE s # r
      BY <1>1, <1>2, <1>3, <3>2 DEF BusInvariant, SubscriptionsAreListed
    <3> QED BY <3>1, <3>2
  <2> QED BY <1>1, <1>2, <1>3, <2>1 DEF BusInvariant, SubscriptionsAreListed
<1>7. ASSUME NEW s \in Subs, NEW q \in DOMAIN issued', Owed(s, q)'
      PROVE  (\/ Holds(issued[q].by, s, q) \/ Carries(queue[s], q)
              \/ Carries(received[s], q) \/ pc[issued[q].by] = "dead")'
  <2>1. Owed(s, q) /\ q \in DOMAIN issued
    BY <1>1, <1>2, <1>7 DEF Owed, Served, WantsEvents, WantsTopic
  <2>2. \/ Holds(issued[q].by, s, q) \/ Carries(queue[s], q)
        \/ Carries(received[s], q) \/ pc[issued[q].by] = "dead"
    BY <2>1 DEF BusInvariant, NoEventLost
  <2>3. \A i : i \notin DOMAIN <<>>
    OBVIOUS
  <2>4. Carries(received[s], q) => Carries(received'[s], q)
    BY <1>1, <1>3, <2>3 DEF Carries
  <2> QED BY <1>1, <2>2, <2>4 DEF Holds, Carries
<1>8. NoEventLost'
  BY <1>7 DEF NoEventLost
<1> QED BY <1>4, <1>5, <1>6, <1>8 DEF BusInvariant

\* The turn of style gives the frames of style another value: none carries a number, and
\* none is added.
LEMMA InitialStyleFrames ==
    ASSUME BusInvariant, NEW r \in Subs, SendInitialStyle(r)
    PROVE  /\ phase[r] = "initial" /\ phase'[r] \in {"streaming", "leaving"}
           /\ phase' \in [Subs -> Phases]
           /\ DOMAIN received' = Subs /\ Sequence(received[r]) /\ Sequence(received'[r])
           /\ Len(received'[r]) = Len(received[r]) /\ DOMAIN received'[r] = DOMAIN received[r]
           /\ \A i \in DOMAIN received[r] :
                 /\ received[r][i].type # "event" /\ received[r][i].seq = 0
                 /\ received'[r][i].seq = 0
                 /\ received'[r][i].type = received[r][i].type
                 /\ received'[r][i].topic = received[r][i].topic
           /\ \A s \in Subs : s # r => received'[s] = received[s] /\ phase'[s] = phase[s]
           /\ UNCHANGED <<runtimeState, styleFile, nextEventSeq, issued, pc, frames, todo, failed,
                          queue, subscribers, request, registeredAt>>
<1>1. /\ phase[r] = "initial"
      /\ \/ /\ received' = [received EXCEPT ![r] =
                               [i \in 1..Len(received[r]) |->
                                   IF received[r][i].topic = "style"
                                   THEN StateFrame(received[r][i].type, "style")
                                   ELSE received[r][i]]]
            /\ phase' = [phase EXCEPT ![r] = "streaming"]
         \/ received' = received /\ phase' = [phase EXCEPT ![r] = "leaving"]
      /\ UNCHANGED <<runtimeState, styleFile, nextEventSeq, issued, pc, frames, todo, failed,
                     queue, subscribers, request, registeredAt>>
  BY DEF SendInitialStyle, serverVars, threadVars
<1>2. /\ DOMAIN received = Subs /\ phase \in [Subs -> Phases] /\ Sequence(received[r])
      /\ \A i \in DOMAIN received[r] : received[r][i].type # "event" /\ received[r][i].seq = 0
  BY <1>1 DEF BusInvariant, SubscriptionsAreListed
<1>3. DOMAIN received[r] = 1..Len(received[r]) /\ Len(received[r]) \in Nat
  BY <1>2 DEF Sequence
<1>4. CASE received' = received /\ phase' = [phase EXCEPT ![r] = "leaving"]
  BY <1>1, <1>2, <1>4 DEF Phases
<1>5. CASE /\ received' = [received EXCEPT ![r] =
                               [i \in 1..Len(received[r]) |->
                                   IF received[r][i].topic = "style"
                                   THEN StateFrame(received[r][i].type, "style")
                                   ELSE received[r][i]]]
           /\ phase' = [phase EXCEPT ![r] = "streaming"]
  <2>1. received'[r] = [i \in 1..Len(received[r]) |->
                           IF received[r][i].topic = "style"
                           THEN StateFrame(received[r][i].type, "style") ELSE received[r][i]]
    BY <1>2, <1>5
  <2>2. Len(received'[r]) = Len(received[r]) /\ DOMAIN received'[r] = DOMAIN received[r]
    BY <1>3, <2>1
  <2>3. Sequence(received'[r])
    BY <1>3, <2>1, <2>2 DEF Sequence
  <2>4. \A i \in DOMAIN received[r] :
           /\ received'[r][i].seq = 0
           /\ received'[r][i].type = received[r][i].type
           /\ received'[r][i].topic = received[r][i].topic
    BY <1>2, <1>3, <2>1 DEF StateFrame
  <2>5. /\ DOMAIN received' = Subs /\ phase' \in [Subs -> Phases] /\ phase'[r] = "streaming"
        /\ \A s \in Subs : s # r => received'[s] = received[s] /\ phase'[s] = phase[s]
    BY <1>2, <1>5 DEF Phases
  <2> QED BY <1>1, <1>2, <2>2, <2>3, <2>4, <2>5
<1> QED BY <1>1, <1>4, <1>5

\* Writing the frame of style moves no event.
LEMMA SendInitialStyleKeepsBus ==
    ASSUME BusInvariant, NEW r \in Subs, SendInitialStyle(r)
    PROVE  BusInvariant'
<1>1. /\ phase[r] = "initial" /\ phase'[r] \in {"streaming", "leaving"}
      /\ phase' \in [Subs -> Phases]
      /\ DOMAIN received' = Subs /\ Sequence(received'[r])
      /\ DOMAIN received'[r] = DOMAIN received[r]
      /\ \A i \in DOMAIN received[r] : received'[r][i].seq = received[r][i].seq
      /\ \A s \in Subs : s # r => received'[s] = received[s] /\ phase'[s] = phase[s]
      /\ UNCHANGED <<nextEventSeq, issued, pc, frames, todo, failed, queue, subscribers,
                     request, registeredAt>>
  BY InitialStyleFrames
<1>4. EventsAreNumbered'
  BY <1>1 DEF BusInvariant, EventsAreNumbered
<1>5. ThreadsHoldFrames'
  BY <1>1 DEF BusInvariant, ThreadsHoldFrames
<1>6. SubscriptionsAreListed'
  <2>1. ASSUME NEW s \in Subs
        PROVE  /\ Sequence(queue'[s]) /\ Sequence(received'[s])
               /\ s \in subscribers'
                     <=> phase'[s] \in {"registered", "initial", "streaming", "leaving"}
               /\ phase'[s] \in {"absent", "registered"} => received'[s] = <<>>
               /\ phase'[s] = "initial" =>
                     \A i \in DOMAIN received'[s] :
                         received'[s][i].type # "event" /\ received'[s][i].seq = 0
    <3>1. CASE s = r
      BY <1>1, <3>1 DEF BusInvariant, SubscriptionsAreListed
    <3>2. CASE s # r
      BY <1>1, <3>2 DEF BusInvariant, SubscriptionsAreListed
    <3> QED BY <3>1, <3>2
  <2> QED BY <1>1, <2>1 DEF BusInvariant, SubscriptionsAreListed
<1>7. ASSUME NEW s \in Subs, NEW q \in DOMAIN issued', Owed(s, q)'
      PROVE  (\/ Holds(issued[q].by, s, q) \/ Carries(queue[s], q)
              \/ Carries(received[s], q) \/ pc[issued[q].by] = "dead")'
  <2>1. Owed(s, q) /\ q \in DOMAIN issued
    BY <1>1, <1>7 DEF Owed, Served, WantsEvents, WantsTopic
  <2>2. \/ Holds(issued[q].by, s, q) \/ Carries(queue[s], q)
        \/ Carries(received[s], q) \/ pc[issued[q].by] = "dead"
    BY <2>1 DEF BusInvariant, NoEventLost
  <2>4. Carries(received[s], q) => Carries(received'[s], q)
    BY <1>1 DEF Carries
  <2> QED BY <1>1, <2>2, <2>4 DEF Holds, Carries
<1>8. NoEventLost'
  BY <1>7 DEF NoEventLost
<1> QED BY <1>4, <1>5, <1>6, <1>8 DEF BusInvariant

\* The first frame of the queue is received, or the subscription is no longer served.
LEMMA DeliverKeepsBus ==
    ASSUME BusInvariant, NEW r \in Subs, Deliver(r)
    PROVE  BusInvariant'
<1>1. /\ phase[r] = "streaming" /\ queue[r] # <<>>
      /\ queue' = [queue EXCEPT ![r] = Tail(queue[r])]
      /\ \/ received' = [received EXCEPT ![r] = Append(received[r], Head(queue[r]))]
            /\ phase' = phase
         \/ received' = received /\ phase' = [phase EXCEPT ![r] = "leaving"]
      /\ UNCHANGED <<nextEventSeq, issued, pc, frames, todo, failed, subscribers, request,
                     registeredAt>>
  BY DEF Deliver, serverVars, threadVars
<1>2. DOMAIN queue = Subs /\ Sequence(queue[r]) /\ DOMAIN received = Subs /\ Sequence(received[r])
  BY DEF BusInvariant, SubscriptionsAreListed
<1>3. /\ Sequence(Tail(queue[r]))
      /\ Len(Tail(queue[r])) = Len(queue[r]) - 1
      /\ \A i \in 2..Len(queue[r]) : Tail(queue[r])[i - 1] = queue[r][i]
      /\ Head(queue[r]) = queue[r][1]
  BY <1>1, <1>2, SequenceTail
<1>4. LET appended == Append(received[r], Head(queue[r]))
      IN  /\ Sequence(appended)
          /\ Len(appended) = Len(received[r]) + 1
          /\ \A i \in 1..Len(received[r]) : appended[i] = received[r][i]
          /\ appended[Len(received[r]) + 1] = Head(queue[r])
  BY <1>2, SequenceAppend
<1>5. EventsAreNumbered'
  BY <1>1 DEF BusInvariant, EventsAreNumbered
<1>6. ThreadsHoldFrames'
  BY <1>1 DEF BusInvariant, ThreadsHoldFrames
<1>7. SubscriptionsAreListed'
  <2>1. /\ phase' \in [Subs -> Phases] /\ phase'[r] \in {"streaming", "leaving"}
        /\ \A s \in Subs : s # r => phase'[s] = phase[s]
    BY <1>1 DEF BusInvariant, SubscriptionsAreListed, Phases
  <2>2. /\ DOMAIN queue' = Subs /\ DOMAIN received' = Subs
        /\ \A s \in Subs : Sequence(queue'[s]) /\ Sequence(received'[s])
        /\ \A s \in Subs : s # r => received'[s] = received[s]
    BY <1>1, <1>2, <1>3, <1>4 DEF BusInvariant, SubscriptionsAreListed
  <2> QED BY <1>1, <2>1, <2>2 DEF BusInvariant, SubscriptionsAreListed
<1>8. ASSUME NEW s \in Subs, NEW q \in DOMAIN issued', Owed(s, q)'
      PROVE  (\/ Holds(issued[q].by, s, q) \/ Carries(queue[s], q)
              \/ Carries(received[s], q) \/ pc[issued[q].by] = "dead")'
  <2>1. Owed(s, q) /\ q \in DOMAIN issued
    BY <1>1, <1>8 DEF Owed, Served, WantsEvents, WantsTopic, BusInvariant, SubscriptionsAreListed
  <2>2. \/ Holds(issued[q].by, s, q) \/ Carries(queue[s], q)
        \/ Carries(received[s], q) \/ pc[issued[q].by] = "dead"
    BY <2>1 DEF BusInvariant, NoEventLost
  <2>3. CASE s # r
    <3>1. queue'[s] = queue[s] /\ received'[s] = received[s]
      BY <1>1, <1>2, <2>3
    <3> QED BY <1>1, <2>2, <3>1 DEF Holds
  <2>4. CASE s = r
    <3>1. received'[r] = Append(received[r], Head(queue[r]))
      BY <1>1, <1>2, <1>8, <2>4
      DEF Owed, Served, BusInvariant, SubscriptionsAreListed
    <3>2. Carries(received[r], q) => Carries(received'[r], q)
      <4>1. \A i \in DOMAIN received[r] :
               i \in DOMAIN received'[r] /\ received'[r][i] = received[r][i]
        BY <1>2, <1>4, <3>1 DEF Sequence
      <4> QED BY <4>1 DEF Carries
    <3>3. ASSUME Carries(queue[r], q)
          PROVE  Carries(queue'[r], q) \/ Carries(received'[r], q)
      <4>1. PICK i \in 1..Len(queue[r]) : queue[r][i].seq = q
        BY <1>2, <3>3 DEF Carries, Sequence
      <4>2. CASE i = 1
        <5>1. received'[r][Len(received[r]) + 1].seq = q
          BY <1>3, <1>4, <3>1, <4>1, <4>2
        <5>2. Len(received[r]) + 1 \in DOMAIN received'[r]
          BY <1>2, <1>4, <3>1 DEF Sequence
        <5> QED BY <5>1, <5>2 DEF Carries
      <4>3. CASE i # 1
        <5>1. i - 1 \in DOMAIN Tail(queue[r]) /\ Tail(queue[r])[i - 1].seq = q
          BY <1>2, <1>3, <4>1, <4>3 DEF Sequence
        <5>2. queue'[r] = Tail(queue[r])
          BY <1>1, <1>2
        <5> QED BY <5>1, <5>2 DEF Carries
      <4> QED BY <4>2, <4>3
    <3> QED BY <1>1, <2>2, <2>4, <3>2, <3>3 DEF Holds
  <2> QED BY <2>3, <2>4
<1>9. NoEventLost'
  BY <1>8 DEF NoEventLost
<1> QED BY <1>5, <1>6, <1>7, <1>9 DEF BusInvariant

\* A subscription that leaves the list is owed nothing.
LEMMA RemoveSubscriberKeepsBus ==
    ASSUME BusInvariant, NEW r \in Subs, RemoveSubscriber(r)
    PROVE  BusInvariant'
<1>1. /\ phase[r] = "leaving" /\ phase' = [phase EXCEPT ![r] = "gone"]
      /\ subscribers' = subscribers \ {r}
      /\ UNCHANGED <<nextEventSeq, issued, pc, frames, todo, failed, request, registeredAt,
                     queue, received>>
  BY DEF RemoveSubscriber, serverVars, threadVars
<1>2. EventsAreNumbered'
  BY <1>1 DEF BusInvariant, EventsAreNumbered
<1>3. ThreadsHoldFrames'
  BY <1>1 DEF BusInvariant, ThreadsHoldFrames
<1>4. SubscriptionsAreListed'
  BY <1>1 DEF BusInvariant, SubscriptionsAreListed, Phases
<1>5. ASSUME NEW s \in Subs, NEW q \in DOMAIN issued', Owed(s, q)'
      PROVE  (\/ Holds(issued[q].by, s, q) \/ Carries(queue[s], q)
              \/ Carries(received[s], q) \/ pc[issued[q].by] = "dead")'
  <2>1. Owed(s, q)
    BY <1>1, <1>5 DEF Owed, Served, WantsEvents, WantsTopic, BusInvariant, SubscriptionsAreListed
  <2> QED BY <1>1, <2>1 DEF BusInvariant, NoEventLost, Holds
<1>6. NoEventLost'
  BY <1>5 DEF NoEventLost
<1> QED BY <1>2, <1>3, <1>4, <1>6 DEF BusInvariant

-----------------------------------------------------------------------------
(* The theorems *)

\* Every step of the daemon keeps BusInvariant: it is inductive.
LEMMA NextKeepsBus == BusInvariant /\ [Next]_vars => BusInvariant'
<1> SUFFICES ASSUME BusInvariant, [Next]_vars PROVE BusInvariant'
  OBVIOUS
<1>1. ASSUME NEW c \in Clients, ClientCommand(c) PROVE BusInvariant'
  BY <1>1, CommitKeepsBus, CommitAbortsKeepsBus DEF ClientCommand, Threads
<1>2. ASSUME NEW p \in Producers, ProducerFrame(p) PROVE BusInvariant'
  BY <1>2, CommitKeepsBus, CommitAbortsKeepsBus DEF ProducerFrame, Threads
<1>3. CASE FifoLine
  BY <1>3, CommitKeepsBus, CommitAbortsKeepsBus DEF FifoLine, Threads
<1>4. CASE WriteLine
  BY <1>4, UnchangedBus DEF WriteLine, busPart, serverVars, threadVars, subVars
<1>9. CASE FifoReopens
  BY <1>9, UnchangedBus DEF FifoReopens, busPart, serverVars, threadVars, subVars
<1>5. ASSUME NEW t \in Threads, HandlerStep(t) PROVE BusInvariant'
  <2>1. CASE EffectSucceeds(t) \/ EffectFails(t) \/ EffectThrows(t)
    BY <2>1, EffectsKeepBus
  <2>2. CASE BroadcastTopics(t)
    BY <2>2, BroadcastTopicsKeepsBus
  <2>3. CASE BroadcastEvents(t)
    BY <2>3, BroadcastEventsKeepsBus
  <2>4. CASE \E s \in Subs : SendFrame(t, s)
    BY <2>4, SendFrameKeepsBus
  <2>5. CASE IssueStatus(t)
    BY <2>5, IssueStatusKeepsBus
  <2>6. CASE Finish(t)
    BY <2>6, FinishKeepsBus
  <2> QED BY <1>5, <2>1, <2>2, <2>3, <2>4, <2>5, <2>6 DEF HandlerStep
<1>6. ASSUME NEW s \in Subs, Register(s) \/ SubscriptionStep(s) PROVE BusInvariant'
  BY <1>6, RegisterKeepsBus, SendInitialStateKeepsBus, SendInitialStyleKeepsBus,
     DeliverKeepsBus, RemoveSubscriberKeepsBus DEF SubscriptionStep
<1>7. ASSUME NEW s \in Subs, PeerCloses(s) PROVE BusInvariant'
  BY <1>7, UnchangedBus DEF PeerCloses, busPart, serverVars, threadVars
<1>8. CASE Rest \/ UNCHANGED vars
  BY <1>8, UnchangedBus DEF Rest, vars, busPart, serverVars, threadVars, subVars
<1> QED BY <1>1, <1>2, <1>3, <1>4, <1>5, <1>6, <1>7, <1>8, <1>9 DEF Next

\* Numbers, holders and subscriptions always agree: BusInvariant is inductive.
THEOREM BusIsConsistent == Spec => []BusInvariant
<1>1. Init => BusInvariant
  BY InitBus
<1>2. BusInvariant /\ [Next]_vars => BusInvariant'
  BY NextKeepsBus
<1> QED BY <1>1, <1>2, PTL DEF Spec

\* For every number of handlers and subscriptions, whatever they do and however often
\* effects, commits and connections fail: broadcasting after the MVar was released
\* loses no event of a subscription that was registered when the event was issued.
THEOREM EventsAreNotLost == Spec => []NoEventLost
<1>1. BusInvariant => NoEventLost
  BY DEF BusInvariant
<1> QED BY <1>1, BusIsConsistent, PTL

-----------------------------------------------------------------------------
(* The event bus: who holds which event on its way to a subscription *)

\* The sequence numbers of the events among some frames.
Numbers(q) == {q[i].seq : i \in {j \in DOMAIN q : q[j].type = "event"}}

\* No two of these frames are the same event.
Once(q) ==
    \A i, j \in DOMAIN q :
        q[i].type = "event" /\ q[j].type = "event" /\ q[i].seq = q[j].seq => i = j

\* If it is an event, it is an issued one that the subscription asked for.
EventFor(s, f) ==
    f.type = "event" => /\ f.seq \in DOMAIN issued
                        /\ issued[f.seq].topic \in Wanted(s)

TopicsAreKnown == \A q \in DOMAIN issued : issued[q].topic \in Topics

\* A thread's frames are its own events, each one once.
OwnsFrames(t) ==
    /\ Once(frames[t])
    /\ \A i \in DOMAIN frames[t] :
          frames[t][i].type = "event" /\ issued[frames[t][i].seq].by = t

\* So are the events it sends, which are no longer among its frames.
SendsOwn(t) ==
    \A i \in DOMAIN todo[t] : todo[t][i].frame.type = "event" =>
        LET q == todo[t][i].frame.seq
        IN  /\ q \in DOMAIN issued /\ issued[q].by = t
            /\ \A j \in DOMAIN frames[t] : frames[t][j].seq # q
            /\ \A j \in DOMAIN todo[t] :
                  todo[t][j].frame.type = "event" /\ todo[t][j].frame.seq = q => i = j

\* What it sends goes to subscriptions that asked for it.
SendsWanted(t) ==
    \A i \in DOMAIN todo[t] : \A s \in todo[t][i].to :
        s \in Subs /\ phase[s] # "absent" /\ EventFor(s, todo[t][i].frame)

\* A queue holds an event once, and one that was asked for.
QueueIsWanted(s) ==
    /\ Once(queue[s])
    /\ \A i \in DOMAIN queue[s] : EventFor(s, queue[s][i])
    /\ phase[s] = "absent" => queue[s] = <<>> /\ registeredAt[s] = 0

\* An event in the queue has not been received.
QueuedIsNew(s) ==
    /\ Numbers(received[s]) \subseteq DOMAIN issued
    /\ Numbers(queue[s]) \cap Numbers(received[s]) = {}

\* An event that thread t has yet to send to s is neither in its queue nor received.
UnsentIsNew(t, s) ==
    /\ \A i \in DOMAIN frames[t] :
          frames[t][i].seq \notin Numbers(queue[s]) \cup Numbers(received[s])
    /\ \A i \in DOMAIN todo[t] :
          s \in todo[t][i].to /\ todo[t][i].frame.type = "event" =>
          todo[t][i].frame.seq \notin Numbers(queue[s]) \cup Numbers(received[s])

DeliveryInvariant ==
    /\ BusInvariant
    /\ subscribers \subseteq Subs
    /\ TopicsAreKnown
    /\ \A t \in Threads : OwnsFrames(t) /\ SendsOwn(t) /\ SendsWanted(t)
    /\ \A s \in Subs : QueueIsWanted(s) /\ QueuedIsNew(s)
    /\ \A t \in Threads, s \in Subs : UnsentIsNew(t, s)

-----------------------------------------------------------------------------
(* Frames and their numbers *)

\* A frame that is appended adds its number.
LEMMA NumbersAppend ==
    ASSUME NEW q, Sequence(q), NEW f
    PROVE  /\ Numbers(Append(q, f)) \subseteq Numbers(q) \cup {f.seq}
           /\ f.type # "event" => Numbers(Append(q, f)) = Numbers(q)
           /\ f.type = "event" => Numbers(Append(q, f)) = Numbers(q) \cup {f.seq}
           /\ Once(q) /\ (f.type = "event" => f.seq \notin Numbers(q)) => Once(Append(q, f))
<1> DEFINE r == Append(q, f)
           n == Len(q)
<1>1. /\ DOMAIN q = 1..n /\ n \in Nat /\ DOMAIN r = 1..(n + 1) /\ r[n + 1] = f
      /\ \A i \in 1..n : r[i] = q[i]
  BY SequenceAppend DEF Sequence
<1> HIDE DEF r, n
<1>2. \A i \in 1..(n + 1) : i \in 1..n \/ i = n + 1
  BY <1>1
<1>3. n + 1 \in 1..(n + 1) /\ \A i \in 1..n : i \in 1..(n + 1)
  BY <1>1
<1>4. Numbers(q) \subseteq Numbers(r)
  BY <1>1, <1>3 DEF Numbers
<1>5. Numbers(r) \subseteq Numbers(q) \cup {f.seq}
  BY <1>1, <1>2 DEF Numbers
<1>6. f.type = "event" => f.seq \in Numbers(r)
  BY <1>1, <1>3 DEF Numbers
<1>7. f.type # "event" => Numbers(r) \subseteq Numbers(q)
  BY <1>1, <1>2 DEF Numbers
<1>8. ASSUME Once(q), f.type = "event" => f.seq \notin Numbers(q)
      PROVE  Once(r)
  <2> SUFFICES ASSUME NEW i \in DOMAIN r, NEW j \in DOMAIN r,
                      r[i].type = "event", r[j].type = "event", r[i].seq = r[j].seq
               PROVE  i = j
    BY DEF Once
  <2>1. CASE i \in 1..n /\ j \in 1..n
    BY <1>1, <1>8, <2>1 DEF Once
  <2>2. CASE i = n + 1 /\ j \in 1..n
    BY <1>1, <1>8, <2>2 DEF Numbers
  <2>3. CASE i \in 1..n /\ j = n + 1
    BY <1>1, <1>8, <2>3 DEF Numbers
  <2> QED BY <1>1, <1>2, <2>1, <2>2, <2>3
<1> QED BY <1>4, <1>5, <1>6, <1>7, <1>8 DEF r

\* Without its head a queue has no other numbers, and not the head's.
LEMMA NumbersTail ==
    ASSUME NEW q, Sequence(q), q # <<>>, Once(q)
    PROVE  /\ Numbers(Tail(q)) \subseteq Numbers(q)
           /\ Once(Tail(q))
           /\ \A i \in DOMAIN Tail(q) : \E j \in DOMAIN q : Tail(q)[i] = q[j]
           /\ Head(q).type = "event" => /\ Head(q).seq \in Numbers(q)
                                        /\ Head(q).seq \notin Numbers(Tail(q))
<1> DEFINE r == Tail(q)
           n == Len(q)
           h == Head(q)
<1>1. /\ DOMAIN q = 1..n /\ n \in Nat /\ n >= 1 /\ h = q[1]
      /\ Sequence(r) /\ Len(r) = n - 1
      /\ \A i \in 2..n : r[i - 1] = q[i]
  BY SequenceTail DEF Sequence
<1>2. DOMAIN r = 1..(n - 1)
  BY <1>1 DEF Sequence
<1> HIDE DEF r, n, h
<1>3. ASSUME NEW i \in DOMAIN r
      PROVE  i + 1 \in DOMAIN q /\ r[i] = q[i + 1] /\ i + 1 # 1
  <2>1. i + 1 \in 2..n /\ (i + 1) - 1 = i
    BY <1>1, <1>2
  <2> QED BY <1>1, <2>1
<1>4. Numbers(r) \subseteq Numbers(q)
  BY <1>3 DEF Numbers
<1>5. Once(r)
  <2> SUFFICES ASSUME Once(q), NEW i \in DOMAIN r, NEW j \in DOMAIN r,
                      r[i].type = "event", r[j].type = "event", r[i].seq = r[j].seq
               PROVE  i = j
    BY DEF Once
  <2>1. i + 1 = j + 1
    BY <1>3 DEF Once
  <2> QED BY <1>2, <2>1
<1>6. h.type = "event" => h.seq \in Numbers(q)
  BY <1>1 DEF Numbers
<1>7. ASSUME h.type = "event", h.seq \in Numbers(r)
      PROVE  FALSE
  <2>1. PICK i \in DOMAIN r : r[i].type = "event" /\ r[i].seq = h.seq
    BY <1>7 DEF Numbers
  <2>2. 1 \in DOMAIN q
    BY <1>1
  <2> QED BY <1>1, <1>3, <1>7, <2>1, <2>2 DEF Once
<1> QED BY <1>3, <1>4, <1>5, <1>6, <1>7 DEF r, h

-----------------------------------------------------------------------------
(* What a step does not touch *)

\* The events issued stay what they are, and a subscription keeps its request.
Keeps ==
    /\ \A q \in DOMAIN issued : q \in DOMAIN issued' /\ issued'[q] = issued[q]
    /\ \A s \in Subs :
          phase[s] # "absent" => phase'[s] # "absent" /\ request'[s] = request[s]

\* Frames that were fit for a subscription stay so.
LEMMA FitStays ==
    ASSUME Keeps, NEW s \in Subs, phase[s] # "absent", NEW f, EventFor(s, f)
    PROVE  EventFor(s, f)'
  BY DEF Keeps, EventFor, Wanted

\* A thread that keeps its frames and its work, or drops them.
LEMMA OtherThreads ==
    ASSUME Keeps, NEW t \in Threads, OwnsFrames(t), SendsOwn(t), SendsWanted(t),
           \A i \in DOMAIN frames[t] : frames[t][i].seq \in DOMAIN issued,
           frames'[t] = frames[t] \/ frames'[t] = <<>>,
           todo'[t] = todo[t] \/ todo'[t] = <<>>
    PROVE  (OwnsFrames(t) /\ SendsOwn(t) /\ SendsWanted(t))'
<1>1. \A i : i \notin DOMAIN <<>>
  OBVIOUS
<1>2. \A i : i \in DOMAIN frames'[t] => i \in DOMAIN frames[t] /\ frames'[t] = frames[t]
  BY <1>1
<1>3. \A i : i \in DOMAIN todo'[t] => i \in DOMAIN todo[t] /\ todo'[t] = todo[t]
  BY <1>1
<1>4. OwnsFrames(t)'
  BY <1>2 DEF OwnsFrames, Once, Keeps
<1>5. SendsOwn(t)'
  BY <1>2, <1>3 DEF SendsOwn, Keeps
<1>6. SendsWanted(t)'
  <2> SUFFICES ASSUME NEW i \in DOMAIN todo'[t], NEW s \in todo'[t][i].to
               PROVE  s \in Subs /\ phase'[s] # "absent" /\ EventFor(s, todo[t][i].frame)'
                      /\ todo'[t][i].frame = todo[t][i].frame
    BY DEF SendsWanted, EventFor, Wanted
  <2>1. s \in Subs /\ phase[s] # "absent" /\ EventFor(s, todo[t][i].frame)
    BY <1>3 DEF SendsWanted
  <2>2. todo'[t] = todo[t]
    BY <1>3
  <2> QED BY <2>1, <2>2 DEF Keeps, EventFor, Wanted
<1> QED BY <1>4, <1>5, <1>6

\* A queue nobody writes or reads.
LEMMA OtherQueues ==
    ASSUME Keeps, NEW s \in Subs, QueueIsWanted(s), QueuedIsNew(s),
           queue'[s] = queue[s], Numbers(received[s])' \subseteq Numbers(received[s]),
           phase'[s] = "absent" => phase[s] = "absent" /\ registeredAt'[s] = registeredAt[s]
    PROVE  (QueueIsWanted(s) /\ QueuedIsNew(s))'
<1>1. \A i : i \notin DOMAIN <<>>
  OBVIOUS
<1>2. QueueIsWanted(s)'
  BY <1>1 DEF QueueIsWanted, Once, EventFor, Wanted, Keeps
<1>3. QueuedIsNew(s)'
  <2>1. Numbers(queue[s])' = Numbers(queue[s])
    BY DEF Numbers
  <2> QED BY <2>1 DEF QueuedIsNew, Keeps
<1> QED BY <1>2, <1>3

\* A thread that sends nothing new, and a queue that holds nothing new.
LEMMA OtherPairs ==
    ASSUME NEW t \in Threads, NEW s \in Subs, UnsentIsNew(t, s),
           frames'[t] = frames[t] \/ frames'[t] = <<>>,
           todo'[t] = todo[t] \/ todo'[t] = <<>>,
           (Numbers(queue[s]) \cup Numbers(received[s]))'
              \subseteq Numbers(queue[s]) \cup Numbers(received[s])
    PROVE  UnsentIsNew(t, s)'
<1>1. \A i : i \notin DOMAIN <<>>
  OBVIOUS
<1>2. \A i : i \in DOMAIN frames'[t] => i \in DOMAIN frames[t] /\ frames'[t] = frames[t]
  BY <1>1
<1>3. \A i : i \in DOMAIN todo'[t] => i \in DOMAIN todo[t] /\ todo'[t] = todo[t]
  BY <1>1
<1> DEFINE old == Numbers(queue[s]) \cup Numbers(received[s])
           new == (Numbers(queue[s]) \cup Numbers(received[s]))'
<1>4. new \subseteq old
  OBVIOUS
<1>5. \A i \in DOMAIN frames'[t] : frames'[t][i].seq \notin new
  BY <1>2, <1>4 DEF UnsentIsNew
<1>6. \A i \in DOMAIN todo'[t] :
         s \in todo'[t][i].to /\ todo'[t][i].frame.type = "event"
         => todo'[t][i].frame.seq \notin new
  BY <1>3, <1>4 DEF UnsentIsNew
<1> QED BY <1>5, <1>6 DEF UnsentIsNew

\* Steps that at most drop what a thread had to send.
LEMMA DropsKeepDelivery ==
    ASSUME DeliveryInvariant, BusInvariant', Keeps,
           UNCHANGED <<issued, queue>>, subscribers' \subseteq Subs,
           \A s \in Subs :
              /\ Numbers(received[s])' \subseteq Numbers(received[s])
              /\ phase'[s] = "absent" => /\ phase[s] = "absent"
                                         /\ registeredAt'[s] = registeredAt[s],
           \A t \in Threads : /\ frames'[t] = frames[t] \/ frames'[t] = <<>>
                              /\ todo'[t] = todo[t] \/ todo'[t] = <<>>
    PROVE  DeliveryInvariant'
<1>1. TopicsAreKnown'
  BY DEF DeliveryInvariant, TopicsAreKnown
<1>2. ASSUME NEW t \in Threads
      PROVE  (OwnsFrames(t) /\ SendsOwn(t) /\ SendsWanted(t))'
  BY OtherThreads DEF DeliveryInvariant, BusInvariant, EventsAreNumbered
<1>3. ASSUME NEW s \in Subs
      PROVE  (QueueIsWanted(s) /\ QueuedIsNew(s))'
  BY OtherQueues DEF DeliveryInvariant
<1>4. ASSUME NEW t \in Threads, NEW s \in Subs
      PROVE  UnsentIsNew(t, s)'
  <2>1. (Numbers(queue[s]) \cup Numbers(received[s]))'
           \subseteq Numbers(queue[s]) \cup Numbers(received[s])
    <3>1. Numbers(queue[s])' = Numbers(queue[s])
      BY DEF Numbers
    <3> QED BY <3>1
  <2> QED BY <2>1, OtherPairs DEF DeliveryInvariant
<1> QED BY <1>1, <1>2, <1>3, <1>4 DEF DeliveryInvariant

-----------------------------------------------------------------------------
(* The actions *)

\* Nothing is sent when the daemon starts.
LEMMA InitDelivery == Init => DeliveryInvariant
<1> SUFFICES ASSUME Init PROVE DeliveryInvariant
  OBVIOUS
<1>1. \A i : i \notin DOMAIN <<>>
  OBVIOUS
<1>2. Numbers(<<>>) = {} /\ Once(<<>>)
  BY <1>1 DEF Numbers, Once
<1>3. BusInvariant /\ subscribers \subseteq Subs
  BY InitBus DEF Init
<1>4. TopicsAreKnown
  BY <1>1 DEF Init, TopicsAreKnown
<1>5. \A t \in Threads : OwnsFrames(t) /\ SendsOwn(t) /\ SendsWanted(t)
  BY <1>1, <1>2 DEF Init, OwnsFrames, SendsOwn, SendsWanted
<1>6. \A s \in Subs : QueueIsWanted(s) /\ QueuedIsNew(s)
  BY <1>1, <1>2 DEF Init, QueueIsWanted, QueuedIsNew
<1>7. \A t \in Threads, s \in Subs : UnsentIsNew(t, s)
  BY <1>1 DEF Init, UnsentIsNew
<1> QED BY <1>3, <1>4, <1>5, <1>6, <1>7 DEF DeliveryInvariant

\* New events take numbers that no other event has, and only their thread has them.
LEMMA IssueKeepsDelivery ==
    ASSUME DeliveryInvariant, BusInvariant', NEW t \in Threads, frames[t] = <<>>,
           NEW deltas, Sequence(deltas), IssueEvents(t, deltas),
           \A i \in 1..Len(deltas) : deltas[i].topic \in Topics,
           UNCHANGED <<todo, subVars, queue>>
    PROVE  DeliveryInvariant'
<1>1. BusInvariant
  BY DEF DeliveryInvariant
<1>2. /\ \A q \in DOMAIN issued : q \in DOMAIN issued' /\ issued'[q] = issued[q]
      /\ \A q \in (DOMAIN issued') \ DOMAIN issued :
            /\ issued'[q].by = t
            /\ \E i \in DOMAIN frames'[t] : frames'[t][i].seq = q
      /\ \A u \in Threads : u # t => frames'[u] = frames[u]
  BY <1>1, IssueEventsFacts
<1>3. Keeps
  BY <1>2 DEF Keeps, subVars
<1>4. /\ nextEventSeq \in Nat \ {0} /\ Len(deltas) \in Nat
      /\ DOMAIN issued = 1..(nextEventSeq - 1)
      /\ DOMAIN frames = Threads
  BY <1>1 DEF BusInvariant, EventsAreNumbered, Sequence
<1>5. frames'[t] = RealizeEvents(nextEventSeq, deltas)
  BY <1>4 DEF IssueEvents
<1>6. /\ DOMAIN frames'[t] = 1..Len(deltas)
      /\ \A i \in 1..Len(deltas) : /\ frames'[t][i].type = "event"
                                   /\ frames'[t][i].seq = nextEventSeq + i - 1
                                   /\ frames'[t][i].topic = deltas[i].topic
  BY <1>5 DEF RealizeEvents, EventFrame
<1>7. \A i \in DOMAIN frames'[t] : frames'[t][i].seq \notin DOMAIN issued
  BY <1>4, <1>6
<1>8. \A i \in DOMAIN frames'[t] :
         /\ frames'[t][i].seq \in DOMAIN issued'
         /\ issued'[frames'[t][i].seq].topic = frames'[t][i].topic
  BY DEF BusInvariant, EventsAreNumbered
<1>9. TopicsAreKnown'
  <2> SUFFICES ASSUME NEW q \in DOMAIN issued' PROVE issued'[q].topic \in Topics
    BY DEF TopicsAreKnown
  <2>1. CASE q \in DOMAIN issued
    BY <1>2, <2>1 DEF DeliveryInvariant, TopicsAreKnown
  <2>2. CASE q \notin DOMAIN issued
    BY <1>2, <1>6, <1>8, <2>2
  <2> QED BY <2>1, <2>2
<1>10. ASSUME NEW u \in Threads
       PROVE  (OwnsFrames(u) /\ SendsOwn(u) /\ SendsWanted(u))'
  <2>1. CASE u # t
    BY <1>1, <1>2, <1>3, <2>1, OtherThreads
    DEF DeliveryInvariant, BusInvariant, EventsAreNumbered
  <2>2. CASE u = t
    <3>1. Once(frames[t])'
      <4> SUFFICES ASSUME NEW i \in DOMAIN frames'[t], NEW j \in DOMAIN frames'[t],
                          frames'[t][i].seq = frames'[t][j].seq
                   PROVE  i = j
        BY DEF Once
      <4>1. nextEventSeq + i - 1 = nextEventSeq + j - 1 /\ i \in Nat /\ j \in Nat
        BY <1>6
      <4> QED BY <1>4, <4>1
    <3>2. OwnsFrames(t)'
      BY <1>2, <1>6, <1>7, <1>8, <3>1 DEF OwnsFrames
    <3>3. SendsOwn(t)'
      <4>1. SendsOwn(t) /\ todo' = todo
        BY DEF DeliveryInvariant
      <4> QED BY <1>2, <1>7, <4>1 DEF SendsOwn
    <3>4. SendsWanted(t)'
      <4>1. SendsWanted(t) /\ todo' = todo
        BY DEF DeliveryInvariant
      <4> QED BY <1>2, <4>1 DEF SendsWanted, EventFor, Wanted, subVars
    <3> QED BY <2>2, <3>2, <3>3, <3>4
  <2> QED BY <2>1, <2>2
<1>11. ASSUME NEW s \in Subs
       PROVE  (QueueIsWanted(s) /\ QueuedIsNew(s))'
  <2>1. Numbers(received[s])' = Numbers(received[s])
    BY DEF Numbers, subVars
  <2> QED BY <1>3, <2>1, OtherQueues DEF DeliveryInvariant, subVars
<1>12. ASSUME NEW u \in Threads, NEW s \in Subs
       PROVE  UnsentIsNew(u, s)'
  <2>1. queue'[s] = queue[s] /\ received'[s] = received[s]
    BY DEF subVars
  <2>2. Numbers(queue[s])' = Numbers(queue[s]) /\ Numbers(received[s])' = Numbers(received[s])
    BY <2>1 DEF Numbers
  <2>3. Numbers(queue[s]) \cup Numbers(received[s]) \subseteq DOMAIN issued
    BY DEF DeliveryInvariant, QueueIsWanted, QueuedIsNew, EventFor, Numbers
  <2>4. CASE u # t
    BY <1>2, <2>2, <2>4, OtherPairs DEF DeliveryInvariant
  <2>5. CASE u = t
    <3>1. UnsentIsNew(t, s) /\ todo' = todo
      BY DEF DeliveryInvariant
    <3> QED BY <1>7, <2>2, <2>3, <2>5, <3>1 DEF UnsentIsNew
  <2> QED BY <2>4, <2>5
<1> QED BY <1>9, <1>10, <1>11, <1>12 DEF DeliveryInvariant, subVars

\* A commit leaves its events with its thread.
LEMMA CommitKeepsDelivery ==
    ASSUME DeliveryInvariant, BusInvariant', NEW t \in Threads, NEW command,
           Commit(t, command)
    PROVE  DeliveryInvariant'
<1> DEFINE deltas == Handle(command, runtimeState, styleFile).deltas
<1>1. Sequence(deltas)
  BY DeltasAreSequences
<1>2. \A i \in 1..Len(deltas) : deltas[i].topic \in Topics
  BY DeltasHaveTopics
<1>3. /\ pc[t] = "idle" /\ IssueEvents(t, deltas)
      /\ UNCHANGED <<todo, subVars, queue>>
  BY DEF Commit
<1>4. frames[t] = <<>>
  BY <1>3 DEF DeliveryInvariant, BusInvariant, ThreadsHoldFrames
<1> HIDE DEF deltas
<1> QED BY <1>1, <1>2, <1>3, <1>4, IssueKeepsDelivery

\* So does the report of failed effects.
LEMMA IssueStatusKeepsDelivery ==
    ASSUME DeliveryInvariant, BusInvariant', NEW t \in Threads, IssueStatus(t)
    PROVE  DeliveryInvariant'
<1> DEFINE deltas == [i \in 1..failed[t] |-> ActionFailed]
<1>1. Sequence(deltas) /\ Len(deltas) = failed[t]
  BY DEF Sequence, DeliveryInvariant, BusInvariant, ThreadsHoldFrames
<1>2. \A i \in 1..Len(deltas) : deltas[i].topic \in Topics
  BY <1>1 DEF ActionFailed, Topics
<1>3. /\ pc[t] = "status" /\ IssueEvents(t, deltas)
      /\ UNCHANGED <<todo, subVars, queue>>
  BY DEF IssueStatus
<1>4. frames[t] = <<>>
  BY <1>3 DEF DeliveryInvariant, BusInvariant, ThreadsHoldFrames
<1> HIDE DEF deltas
<1> QED BY <1>1, <1>2, <1>3, <1>4, IssueKeepsDelivery

\* The frames of broadcastTopics are no events.
LEMMA BroadcastTopicsKeepsDelivery ==
    ASSUME DeliveryInvariant, BusInvariant', NEW t \in Threads, BroadcastTopics(t)
    PROVE  DeliveryInvariant'
<1> DEFINE sent == [i \in DOMAIN topics[t] |->
                       [frame |-> StateFrame("state", topics[t][i]),
                        to |-> {s \in subscribers : WantsSnapshots(s, topics[t][i])}]]
<1>1. /\ todo' = [todo EXCEPT ![t] = sent]
      /\ UNCHANGED <<issued, frames, subVars, queue>>
  BY DEF BroadcastTopics, serverVars
<1>2. /\ todo'[t] = sent
      /\ \A u \in Threads : u # t => todo'[u] = todo[u]
  BY <1>1 DEF DeliveryInvariant, BusInvariant, ThreadsHoldFrames
<1>3. \A i \in DOMAIN sent : sent[i].frame.type = "state" /\ sent[i].to \subseteq subscribers
  BY DEF StateFrame
<1> HIDE DEF sent
<1>4. Keeps
  BY <1>1 DEF Keeps, subVars
<1>5. ASSUME NEW u \in Threads
      PROVE  (OwnsFrames(u) /\ SendsOwn(u) /\ SendsWanted(u))'
  <2>1. CASE u # t
    BY <1>1, <1>2, <1>4, <2>1, OtherThreads
    DEF DeliveryInvariant, BusInvariant, EventsAreNumbered
  <2>2. CASE u = t
    <3>1. OwnsFrames(t)'
      BY <1>1 DEF OwnsFrames, DeliveryInvariant, Once
    <3>2. SendsOwn(t)'
      BY <1>2, <1>3 DEF SendsOwn
    <3>3. \A s \in subscribers : s \in Subs /\ phase'[s] # "absent"
      BY <1>1 DEF DeliveryInvariant, BusInvariant, SubscriptionsAreListed, subVars
    <3>4. SendsWanted(t)'
      BY <1>2, <1>3, <3>3 DEF SendsWanted, EventFor
    <3> QED BY <2>2, <3>1, <3>2, <3>4
  <2> QED BY <2>1, <2>2
<1>6. ASSUME NEW s \in Subs
      PROVE  /\ Numbers(queue[s])' = Numbers(queue[s])
             /\ Numbers(received[s])' = Numbers(received[s])
  BY <1>1 DEF Numbers, subVars
<1>7. ASSUME NEW s \in Subs
      PROVE  (QueueIsWanted(s) /\ QueuedIsNew(s))'
  BY <1>1, <1>4, <1>6, OtherQueues DEF DeliveryInvariant, subVars
<1>8. ASSUME NEW u \in Threads, NEW s \in Subs
      PROVE  UnsentIsNew(u, s)'
  <2>1. CASE u # t
    BY <1>1, <1>2, <1>6, <2>1, OtherPairs DEF DeliveryInvariant
  <2>2. CASE u = t
    BY <1>1, <1>2, <1>3, <1>6, <2>2 DEF DeliveryInvariant, UnsentIsNew
  <2> QED BY <2>1, <2>2
<1> QED BY <1>1, <1>5, <1>7, <1>8 DEF DeliveryInvariant, TopicsAreKnown, subVars

\* Each of the thread's events is addressed once, to those who asked for it.
LEMMA BroadcastEventsKeepsDelivery ==
    ASSUME DeliveryInvariant, BusInvariant', NEW t \in Threads, BroadcastEvents(t)
    PROVE  DeliveryInvariant'
<1> DEFINE sent == [i \in DOMAIN frames[t] |->
                       [frame |-> frames[t][i],
                        to |-> {s \in subscribers : WantsEvents(s, frames[t][i].topic)}]]
<1>1. /\ todo' = [todo EXCEPT ![t] = sent] /\ frames' = [frames EXCEPT ![t] = <<>>]
      /\ UNCHANGED <<issued, subVars, queue>>
  BY DEF BroadcastEvents, serverVars
<1>2. /\ todo'[t] = sent /\ frames'[t] = <<>>
      /\ \A u \in Threads : u # t => todo'[u] = todo[u] /\ frames'[u] = frames[u]
  BY <1>1 DEF DeliveryInvariant, BusInvariant, ThreadsHoldFrames, EventsAreNumbered
<1>3. /\ DOMAIN sent = DOMAIN frames[t]
      /\ \A i \in DOMAIN sent :
            /\ sent[i].frame = frames[t][i]
            /\ sent[i].to = {s \in subscribers : WantsEvents(s, frames[t][i].topic)}
  OBVIOUS
<1> HIDE DEF sent
<1>4. Keeps
  BY <1>1 DEF Keeps, subVars
<1>5. \A i : i \notin DOMAIN <<>>
  OBVIOUS
<1>6. OwnsFrames(t) /\ \A i \in DOMAIN frames[t] :
         /\ frames[t][i].seq \in DOMAIN issued
         /\ frames[t][i].topic = issued[frames[t][i].seq].topic
  BY DEF DeliveryInvariant, BusInvariant, EventsAreNumbered
<1>7. ASSUME NEW u \in Threads
      PROVE  (OwnsFrames(u) /\ SendsOwn(u) /\ SendsWanted(u))'
  <2>1. CASE u # t
    BY <1>1, <1>2, <1>4, <2>1, OtherThreads
    DEF DeliveryInvariant, BusInvariant, EventsAreNumbered
  <2>2. CASE u = t
    <3>1. OwnsFrames(t)'
      BY <1>2, <1>5 DEF OwnsFrames, Once
    <3>2. SendsOwn(t)'
      <4> SUFFICES ASSUME NEW i \in DOMAIN sent
                   PROVE  LET q == frames[t][i].seq
                          IN  /\ q \in DOMAIN issued /\ issued[q].by = t
                              /\ \A j \in DOMAIN sent :
                                    sent[j].frame.type = "event" /\ sent[j].frame.seq = q
                                    => i = j
        BY <1>1, <1>2, <1>3, <1>5 DEF SendsOwn
      <4> QED BY <1>3, <1>6 DEF OwnsFrames, Once
    <3>3. SendsWanted(t)'
      <4> SUFFICES ASSUME NEW i \in DOMAIN todo'[t], NEW s \in todo'[t][i].to
                   PROVE  s \in Subs /\ phase'[s] # "absent" /\ EventFor(s, todo[t][i].frame)'
        BY DEF SendsWanted
      <4>1. /\ i \in DOMAIN sent /\ todo'[t][i].frame = frames[t][i]
            /\ s \in subscribers /\ WantsEvents(s, frames[t][i].topic)
        BY <1>2, <1>3
      <4>2. s \in Subs /\ phase[s] # "absent"
        BY <4>1 DEF DeliveryInvariant, BusInvariant, SubscriptionsAreListed
      <4>3. EventFor(s, frames[t][i])
        BY <1>3, <1>6, <4>1 DEF EventFor, Wanted, WantsEvents, WantsTopic
      <4> QED BY <4>1, <1>4, <4>2, <4>3 DEF Keeps, EventFor, Wanted
    <3> QED BY <2>2, <3>1, <3>2, <3>3
  <2> QED BY <2>1, <2>2
<1>8. ASSUME NEW s \in Subs
      PROVE  /\ Numbers(queue[s])' = Numbers(queue[s])
             /\ Numbers(received[s])' = Numbers(received[s])
  BY <1>1 DEF Numbers, subVars
<1>9. ASSUME NEW s \in Subs
      PROVE  (QueueIsWanted(s) /\ QueuedIsNew(s))'
  BY <1>1, <1>4, <1>8, OtherQueues DEF DeliveryInvariant, subVars
<1>10. ASSUME NEW u \in Threads, NEW s \in Subs
       PROVE  UnsentIsNew(u, s)'
  <2>1. CASE u # t
    BY <1>1, <1>2, <1>8, <2>1, OtherPairs DEF DeliveryInvariant
  <2>2. CASE u = t
    BY <1>2, <1>3, <1>5, <1>8, <2>2 DEF DeliveryInvariant, UnsentIsNew
  <2> QED BY <2>1, <2>2
<1> QED BY <1>1, <1>7, <1>9, <1>10 DEF DeliveryInvariant, TopicsAreKnown, subVars

\* An event goes from its thread to the queue of one subscription.
LEMMA SendFrameKeepsDelivery ==
    ASSUME DeliveryInvariant, BusInvariant', NEW t \in Threads, NEW r \in Subs,
           SendFrame(t, r)
    PROVE  DeliveryInvariant'
<1>1. PICK i \in DOMAIN todo[t] :
         /\ r \in todo[t][i].to
         /\ queue' = [queue EXCEPT ![r] = Append(@, todo[t][i].frame)]
         /\ todo' = [todo EXCEPT ![t][i].to = @ \ {r}]
         /\ UNCHANGED <<issued, frames, subVars>>
  BY DEF SendFrame, serverVars
<1> DEFINE f == todo[t][i].frame
<1>2. /\ \A u \in Threads : DOMAIN todo'[u] = DOMAIN todo[u]
      /\ \A u \in Threads : u # t => todo'[u] = todo[u]
      /\ \A j \in DOMAIN todo[t] : j # i => todo'[t][j] = todo[t][j]
      /\ todo'[t][i] = [frame |-> todo[t][i].frame, to |-> todo[t][i].to \ {r}]
  <2>1. DOMAIN todo = Threads
    BY DEF DeliveryInvariant, BusInvariant, ThreadsHoldFrames
  <2>2. todo[t][i] = [frame |-> todo[t][i].frame, to |-> todo[t][i].to]
    BY DEF DeliveryInvariant, BusInvariant, ThreadsHoldFrames
  <2>3. [todo[t][i] EXCEPT !.to = @ \ {r}]
            = [frame |-> todo[t][i].frame, to |-> todo[t][i].to \ {r}]
    BY <2>2
  <2> QED BY <1>1, <2>1, <2>3
<1>3. \A u \in Threads : \A j \in DOMAIN todo'[u] :
         /\ j \in DOMAIN todo[u]
         /\ todo'[u][j].frame = todo[u][j].frame
         /\ todo'[u][j].to \subseteq todo[u][j].to
  BY <1>2
<1>4. /\ Sequence(queue[r]) /\ queue'[r] = Append(queue[r], f)
      /\ \A s \in Subs : s # r => queue'[s] = queue[s]
  BY <1>1 DEF DeliveryInvariant, BusInvariant, SubscriptionsAreListed
<1>5. /\ Numbers(queue'[r]) \subseteq Numbers(queue[r]) \cup {f.seq}
      /\ f.type # "event" => Numbers(queue'[r]) = Numbers(queue[r])
      /\ Once(queue[r]) /\ (f.type = "event" => f.seq \notin Numbers(queue[r]))
         => Once(queue'[r])
  BY <1>4, NumbersAppend
<1>6. Keeps
  BY <1>1 DEF Keeps, subVars
<1>7. EventFor(r, f) /\ phase[r] # "absent"
  BY <1>1 DEF DeliveryInvariant, SendsWanted
<1>8. f.type = "event" => f.seq \notin Numbers(queue[r]) \cup Numbers(received[r])
  BY <1>1 DEF DeliveryInvariant, UnsentIsNew
<1>9. \A s \in Subs : received'[s] = received[s] /\ Numbers(received[s])' = Numbers(received[s])
  BY <1>1 DEF Numbers, subVars
<1>10. ASSUME NEW u \in Threads
       PROVE  (OwnsFrames(u) /\ SendsOwn(u) /\ SendsWanted(u))'
  <2>1. CASE u # t
    BY <1>1, <1>2, <1>6, <2>1, OtherThreads
    DEF DeliveryInvariant, BusInvariant, EventsAreNumbered
  <2>2. CASE u = t
    <3>1. OwnsFrames(t) /\ SendsOwn(t) /\ SendsWanted(t)
      BY DEF DeliveryInvariant
    <3>2. OwnsFrames(t)'
      BY <1>1, <3>1 DEF OwnsFrames, Once
    <3>3. SendsOwn(t)'
      BY <1>1, <1>3, <3>1 DEF SendsOwn
    <3>4. SendsWanted(t)'
      <4> SUFFICES ASSUME NEW j \in DOMAIN todo'[t], NEW s \in todo'[t][j].to
                   PROVE  s \in Subs /\ phase'[s] # "absent" /\ EventFor(s, todo[t][j].frame)'
        BY DEF SendsWanted
      <4>1. /\ j \in DOMAIN todo[t] /\ todo'[t][j].frame = todo[t][j].frame
            /\ s \in todo[t][j].to
        BY <1>3
      <4>2. s \in Subs /\ phase[s] # "absent" /\ EventFor(s, todo[t][j].frame)
        BY <3>1, <4>1 DEF SendsWanted
      <4> QED BY <1>6, <4>1, <4>2 DEF Keeps, EventFor, Wanted
    <3> QED BY <2>2, <3>2, <3>3, <3>4
  <2> QED BY <2>1, <2>2
<1>11. ASSUME NEW s \in Subs
       PROVE  (QueueIsWanted(s) /\ QueuedIsNew(s))'
  <2>1. CASE s # r
    BY <1>1, <1>4, <1>6, <1>9, <2>1, OtherQueues DEF DeliveryInvariant, subVars
  <2>2. CASE s = r
    <3>1. QueueIsWanted(r) /\ QueuedIsNew(r)
      BY DEF DeliveryInvariant
    <3>2. Once(queue'[r])
      BY <1>5, <1>8, <3>1 DEF QueueIsWanted
    <3>3. ASSUME NEW j \in DOMAIN queue'[r]
          PROVE  EventFor(r, queue[r][j])'
      <4>1. queue'[r][j] = f \/ (j \in DOMAIN queue[r] /\ queue'[r][j] = queue[r][j])
        <5>1. /\ Len(queue[r]) \in Nat /\ DOMAIN queue[r] = 1..Len(queue[r])
              /\ DOMAIN queue'[r] = 1..(Len(queue[r]) + 1)
              /\ queue'[r][Len(queue[r]) + 1] = f
              /\ \A k \in 1..Len(queue[r]) : queue'[r][k] = queue[r][k]
          BY <1>4, SequenceAppend DEF Sequence
        <5> QED BY <5>1
      <4>2. EventFor(r, queue'[r][j])
        BY <1>7, <3>1, <4>1 DEF QueueIsWanted
      <4> QED BY <1>6, <1>7, <4>2 DEF Keeps, EventFor, Wanted
    <3>4. QueueIsWanted(r)'
      BY <1>6, <1>7, <3>2, <3>3 DEF QueueIsWanted, Once, Keeps
    <3>5. Numbers(queue[r])' = Numbers(queue'[r])
      BY DEF Numbers
    <3>6. QueuedIsNew(r)'
      BY <1>1, <1>5, <1>8, <1>9, <3>1, <3>5 DEF QueuedIsNew
    <3> QED BY <2>2, <3>4, <3>6
  <2> QED BY <2>1, <2>2
<1>12. ASSUME NEW u \in Threads, NEW s \in Subs
       PROVE  UnsentIsNew(u, s)'
  <2>1. UnsentIsNew(u, s)
    BY DEF DeliveryInvariant
  <2>2. CASE s # r
    <3>1. Numbers(queue[s])' = Numbers(queue[s])
      BY <1>4, <2>2 DEF Numbers
    <3>2. frames' = frames
      BY <1>1
    <3> QED BY <1>3, <1>9, <2>1, <3>1, <3>2 DEF UnsentIsNew
  <2>3. CASE s = r
    <3>1. Numbers(queue[r])' = Numbers(queue'[r]) /\ frames' = frames
      BY <1>1 DEF Numbers
    <3>2. SendsOwn(t) /\ SendsOwn(u) /\ OwnsFrames(u)
      BY DEF DeliveryInvariant
    <3>3. \A k \in DOMAIN frames[u] : f.type = "event" => frames[u][k].seq # f.seq
      BY <3>2 DEF SendsOwn, OwnsFrames
    <3>4. \A k \in DOMAIN todo'[u] :
             /\ f.type = "event" /\ todo'[u][k].frame.type = "event" /\ r \in todo'[u][k].to
             => todo'[u][k].frame.seq # f.seq
      <4> SUFFICES ASSUME NEW k \in DOMAIN todo'[u], f.type = "event",
                          todo'[u][k].frame.type = "event", r \in todo'[u][k].to,
                          todo'[u][k].frame.seq = f.seq
                   PROVE  FALSE
        OBVIOUS
      <4>1. k \in DOMAIN todo[u] /\ todo'[u][k].frame = todo[u][k].frame
        BY <1>3
      <4>2. u = t
        BY <3>2, <4>1 DEF SendsOwn
      <4>3. k = i
        BY <3>2, <4>1, <4>2 DEF SendsOwn
      <4> QED BY <1>2, <4>2, <4>3
    <3> DEFINE old == Numbers(queue[r]) \cup Numbers(received[r])
               new == (Numbers(queue[r]) \cup Numbers(received[r]))'
    <3>5. new \subseteq old \cup {f.seq} /\ (f.type # "event" => new \subseteq old)
      BY <1>5, <1>9, <3>1
    <3>6. \A k \in DOMAIN frames'[u] : frames'[u][k].seq \notin new
      BY <2>1, <2>3, <3>1, <3>3, <3>5 DEF UnsentIsNew
    <3>7. \A k \in DOMAIN todo'[u] :
             r \in todo'[u][k].to /\ todo'[u][k].frame.type = "event"
             => todo'[u][k].frame.seq \notin new
      BY <1>3, <2>1, <2>3, <3>4, <3>5 DEF UnsentIsNew
    <3> QED BY <2>3, <3>6, <3>7 DEF UnsentIsNew
  <2> QED BY <2>2, <2>3
<1> QED BY <1>1, <1>10, <1>11, <1>12 DEF DeliveryInvariant, TopicsAreKnown, subVars

\* The first frame of a queue is received or lost with its connection.
LEMMA DeliverKeepsDelivery ==
    ASSUME DeliveryInvariant, BusInvariant', NEW r \in Subs, Deliver(r)
    PROVE  DeliveryInvariant'
<1> DEFINE f == Head(queue[r])
<1>1. /\ phase[r] = "streaming" /\ queue[r] # <<>>
      /\ queue' = [queue EXCEPT ![r] = Tail(queue[r])]
      /\ \/ received' = [received EXCEPT ![r] = Append(received[r], f)] /\ phase' = phase
         \/ received' = received /\ phase' = [phase EXCEPT ![r] = "leaving"]
      /\ UNCHANGED <<issued, frames, todo, subscribers, request, registeredAt>>
  BY DEF Deliver, serverVars, threadVars
<1>2. /\ DOMAIN queue = Subs /\ Sequence(queue[r])
      /\ DOMAIN received = Subs /\ Sequence(received[r])
      /\ phase \in [Subs -> Phases]
  BY DEF DeliveryInvariant, BusInvariant, SubscriptionsAreListed
<1>3. QueueIsWanted(r) /\ QueuedIsNew(r)
  BY DEF DeliveryInvariant
<1>4. /\ Numbers(Tail(queue[r])) \subseteq Numbers(queue[r])
      /\ Once(Tail(queue[r]))
      /\ \A i \in DOMAIN Tail(queue[r]) : \E j \in DOMAIN queue[r] : Tail(queue[r])[i] = queue[r][j]
      /\ f.type = "event" => f.seq \in Numbers(queue[r]) /\ f.seq \notin Numbers(Tail(queue[r]))
  BY <1>1, <1>2, <1>3, NumbersTail DEF QueueIsWanted
<1>5. /\ queue'[r] = Tail(queue[r])
      /\ \A s \in Subs : s # r => queue'[s] = queue[s] /\ received'[s] = received[s]
      /\ received'[r] = received[r] \/ received'[r] = Append(received[r], f)
      /\ phase'[r] # "absent"
      /\ \A s \in Subs : s # r => phase'[s] = phase[s]
  BY <1>1, <1>2
<1>6. /\ Numbers(received'[r]) \subseteq Numbers(received[r]) \cup {f.seq}
      /\ f.type # "event" => Numbers(received'[r]) = Numbers(received[r])
  <2>1. /\ Numbers(Append(received[r], f)) \subseteq Numbers(received[r]) \cup {f.seq}
        /\ f.type # "event" => Numbers(Append(received[r], f)) = Numbers(received[r])
    BY <1>2, NumbersAppend
  <2> HIDE DEF f
  <2> QED BY <1>5, <2>1
<1> HIDE DEF f
<1>7. Keeps
  BY <1>1, <1>5 DEF Keeps
<1>8. /\ \A s \in Subs : s # r => Numbers(queue[s])' = Numbers(queue[s])
                               /\ Numbers(received[s])' = Numbers(received[s])
      /\ Numbers(queue[r])' = Numbers(Tail(queue[r]))
      /\ Numbers(received[r])' = Numbers(received'[r])
  BY <1>5 DEF Numbers
<1>9. ASSUME NEW u \in Threads
      PROVE  (OwnsFrames(u) /\ SendsOwn(u) /\ SendsWanted(u))'
  BY <1>1, <1>7, OtherThreads DEF DeliveryInvariant, BusInvariant, EventsAreNumbered
<1>10. ASSUME NEW s \in Subs
       PROVE  (QueueIsWanted(s) /\ QueuedIsNew(s))'
  <2>1. CASE s # r
    BY <1>1, <1>5, <1>7, <1>8, <2>1, OtherQueues DEF DeliveryInvariant
  <2>2. CASE s = r
    <3>1. \A i \in DOMAIN queue'[r] : EventFor(r, queue[r][i])'
      <4> SUFFICES ASSUME NEW i \in DOMAIN queue'[r] PROVE EventFor(r, queue[r][i])'
        OBVIOUS
      <4>1. EventFor(r, queue'[r][i])
        BY <1>3, <1>4, <1>5 DEF QueueIsWanted
      <4> QED BY <1>1, <1>7, <4>1 DEF Keeps, EventFor, Wanted
    <3>2. QueueIsWanted(r)'
      BY <1>4, <1>5, <3>1 DEF QueueIsWanted, Once
    <3>3. Numbers(queue[r]) \subseteq DOMAIN issued
      BY <1>3 DEF QueueIsWanted, EventFor, Numbers
    <3>4. QueuedIsNew(r)'
      BY <1>1, <1>3, <1>4, <1>6, <1>8, <3>3 DEF QueuedIsNew
    <3> QED BY <2>2, <3>2, <3>4
  <2> QED BY <2>1, <2>2
<1>11. ASSUME NEW u \in Threads, NEW s \in Subs
       PROVE  UnsentIsNew(u, s)'
  <2>1. (Numbers(queue[s]) \cup Numbers(received[s]))'
           \subseteq Numbers(queue[s]) \cup Numbers(received[s])
    <3>1. CASE s # r
      BY <1>8, <3>1
    <3>2. CASE s = r
      BY <1>4, <1>6, <1>8, <3>2
    <3> QED BY <3>1, <3>2
  <2> QED BY <1>1, <2>1, OtherPairs DEF DeliveryInvariant
<1> QED BY <1>1, <1>9, <1>10, <1>11 DEF DeliveryInvariant, TopicsAreKnown

\* The initial state has no events.
LEMMA SendInitialStateKeepsDelivery ==
    ASSUME DeliveryInvariant, BusInvariant', NEW r \in Subs, SendInitialState(r)
    PROVE  DeliveryInvariant' /\ Numbers(received[r])' = {} /\ Numbers(received[r]) = {}
           /\ \A s \in Subs : s # r => received'[s] = received[s]
<1>1. /\ phase[r] = "registered" /\ received[r] = <<>>
      /\ UNCHANGED <<issued, frames, todo, queue, subscribers, request, registeredAt>>
  BY DEF SendInitialState, serverVars, threadVars, DeliveryInvariant, BusInvariant,
         SubscriptionsAreListed
<1>2. /\ DOMAIN received = Subs /\ phase \in [Subs -> Phases]
  BY DEF DeliveryInvariant, BusInvariant, SubscriptionsAreListed
<1>3. /\ phase'[r] # "absent"
      /\ \A s \in Subs : s # r => phase'[s] = phase[s] /\ received'[s] = received[s]
  BY <1>2 DEF SendInitialState
<1>4. \A i \in DOMAIN received'[r] : received'[r][i].type # "event"
  <2> DEFINE Initial(type) == [i \in 1..Len(request[r].topics) |->
                                  StateFrame(type, request[r].topics[i])]
  <2>1. \A i \in DOMAIN Initial("state") : Initial("state")[i].type = "state"
    BY DEF StateFrame
  <2>2. \A i \in DOMAIN Initial("snapshot") : Initial("snapshot")[i].type = "snapshot"
    BY DEF StateFrame
  <2>3. \/ received' = received
        \/ received' = [received EXCEPT ![r] = <<>>]
        \/ received' = [received EXCEPT ![r] = Initial("state")]
        \/ received' = [received EXCEPT ![r] = Initial("snapshot")]
    BY DEF SendInitialState, InitialFrames
  <2> HIDE DEF Initial
  <2>4. received'[r] \in {<<>>, Initial("state"), Initial("snapshot")}
    BY <1>1, <1>2, <2>3
  <2>5. \A i : i \notin DOMAIN <<>>
    OBVIOUS
  <2> QED BY <2>1, <2>2, <2>4, <2>5
<1>5. Numbers(received[r])' = {}
  BY <1>4 DEF Numbers
<1>6. Numbers(received[r]) = {}
  BY <1>1 DEF Numbers
<1>7. Keeps
  BY <1>1, <1>3 DEF Keeps
<1>8. \A s \in Subs : Numbers(received[s])' \subseteq Numbers(received[s])
  <2> SUFFICES ASSUME NEW s \in Subs PROVE Numbers(received[s])' \subseteq Numbers(received[s])
    OBVIOUS
  <2>1. CASE s = r
    BY <1>5, <2>1
  <2>2. CASE s # r
    BY <1>3, <2>2 DEF Numbers
  <2> QED BY <2>1, <2>2
<1>9. subscribers' \subseteq Subs
  BY <1>1 DEF DeliveryInvariant
<1>10. DeliveryInvariant'
  BY <1>1, <1>3, <1>7, <1>8, <1>9, DropsKeepDelivery
<1> QED BY <1>3, <1>5, <1>6, <1>10

\* Nor has its frame of style.
LEMMA SendInitialStyleKeepsDelivery ==
    ASSUME DeliveryInvariant, BusInvariant', NEW r \in Subs, SendInitialStyle(r)
    PROVE  DeliveryInvariant' /\ Numbers(received[r])' = {} /\ Numbers(received[r]) = {}
           /\ \A s \in Subs : s # r => received'[s] = received[s]
<1>1. /\ phase'[r] # "absent" /\ DOMAIN received'[r] = DOMAIN received[r]
      /\ \A i \in DOMAIN received[r] :
            received[r][i].type # "event" /\ received'[r][i].type = received[r][i].type
      /\ \A s \in Subs : s # r => received'[s] = received[s] /\ phase'[s] = phase[s]
      /\ UNCHANGED <<issued, frames, todo, queue, subscribers, request, registeredAt>>
  BY InitialStyleFrames DEF DeliveryInvariant
<1>2. Numbers(received[r])' = {} /\ Numbers(received[r]) = {}
  BY <1>1 DEF Numbers
<1>3. Keeps
  BY <1>1 DEF Keeps
<1>4. \A s \in Subs : Numbers(received[s])' \subseteq Numbers(received[s])
  <2> SUFFICES ASSUME NEW s \in Subs PROVE Numbers(received[s])' \subseteq Numbers(received[s])
    OBVIOUS
  <2>1. CASE s = r
    BY <1>2, <2>1
  <2>2. CASE s # r
    BY <1>1, <2>2 DEF Numbers
  <2> QED BY <2>1, <2>2
<1>5. subscribers' \subseteq Subs
  BY <1>1 DEF DeliveryInvariant
<1>6. DeliveryInvariant'
  BY <1>1, <1>3, <1>4, <1>5, DropsKeepDelivery
<1> QED BY <1>1, <1>2, <1>6

-----------------------------------------------------------------------------
(* The theorem *)

\* Every step of the daemon keeps DeliveryInvariant: it is inductive.
LEMMA NextKeepsDelivery == DeliveryInvariant /\ [Next]_vars => DeliveryInvariant'
<1> SUFFICES ASSUME DeliveryInvariant, [Next]_vars PROVE DeliveryInvariant'
  OBVIOUS
<1>1. BusInvariant'
  BY NextKeepsBus DEF DeliveryInvariant
<1>2. ASSUME UNCHANGED <<issued, frames, todo, queue, received, phase, request, subscribers,
                         registeredAt>>
      PROVE  DeliveryInvariant'
  <2>1. Keeps /\ subscribers' \subseteq Subs
    BY <1>2 DEF Keeps, DeliveryInvariant
  <2>2. \A s \in Subs : Numbers(received[s])' = Numbers(received[s])
    BY <1>2 DEF Numbers
  <2> QED BY <1>1, <1>2, <2>1, <2>2, DropsKeepDelivery
<1>3. ASSUME NEW t \in Threads, NEW command, Commit(t, command) \/ CommitAborts(t, command)
      PROVE  DeliveryInvariant'
  <2>1. CASE Commit(t, command)
    BY <1>1, <2>1, CommitKeepsDelivery
  <2>2. CASE CommitAborts(t, command)
    BY <1>2, <2>2 DEF CommitAborts, subVars
  <2> QED BY <1>3, <2>1, <2>2
<1>4. CASE \E c \in Clients : ClientCommand(c)
  BY <1>3, <1>4 DEF ClientCommand, Threads
<1>5. CASE \E p \in Producers : ProducerFrame(p)
  BY <1>3, <1>5 DEF ProducerFrame, Threads
<1>6. CASE FifoLine
  BY <1>3, <1>6 DEF FifoLine, Threads
<1>7. CASE FifoReopens \/ WriteLine \/ Rest \/ UNCHANGED vars
  BY <1>2, <1>7
  DEF FifoReopens, WriteLine, Rest, vars, serverVars, threadVars, subVars
<1>8. ASSUME NEW t \in Threads, HandlerStep(t)
      PROVE  DeliveryInvariant'
  <2>1. CASE EffectSucceeds(t) \/ EffectFails(t) \/ EffectThrows(t) \/ Finish(t)
    <3>1. /\ UNCHANGED <<issued, queue, subVars>>
          /\ \A u \in Threads : /\ frames'[u] = frames[u] \/ frames'[u] = <<>>
                                /\ todo'[u] = todo[u] \/ todo'[u] = <<>>
      <4>1. DOMAIN frames = Threads /\ DOMAIN todo = Threads
        BY DEF DeliveryInvariant, BusInvariant, EventsAreNumbered, ThreadsHoldFrames
      <4> QED BY <2>1, <4>1
              DEF EffectSucceeds, EffectFails, EffectThrows, EffectOver, Finish, serverVars
    <3>2. Keeps /\ subscribers' \subseteq Subs
      BY <3>1 DEF Keeps, DeliveryInvariant, subVars
    <3>3. \A s \in Subs : Numbers(received[s])' = Numbers(received[s])
      BY <3>1 DEF Numbers, subVars
    <3> QED BY <1>1, <3>1, <3>2, <3>3, DropsKeepDelivery DEF subVars
  <2>2. CASE BroadcastTopics(t)
    BY <1>1, <2>2, BroadcastTopicsKeepsDelivery
  <2>3. CASE BroadcastEvents(t)
    BY <1>1, <2>3, BroadcastEventsKeepsDelivery
  <2>4. CASE \E s \in Subs : SendFrame(t, s)
    BY <1>1, <2>4, SendFrameKeepsDelivery
  <2>5. CASE IssueStatus(t)
    BY <1>1, <2>5, IssueStatusKeepsDelivery
  <2> QED BY <1>8, <2>1, <2>2, <2>3, <2>4, <2>5 DEF HandlerStep
<1>9. ASSUME NEW s \in Subs, Register(s) \/ RemoveSubscriber(s)
      PROVE  DeliveryInvariant'
  <2>1. phase \in [Subs -> Phases] /\ DOMAIN request = Subs /\ DOMAIN registeredAt = Subs
    BY DEF DeliveryInvariant, BusInvariant, SubscriptionsAreListed
  <2>2. /\ UNCHANGED <<issued, queue, received, frames, todo>>
        /\ phase'[s] # "absent" /\ subscribers' \subseteq Subs
        /\ phase[s] # "absent" => request'[s] = request[s]
        /\ \A r \in Subs : r # s => /\ phase'[r] = phase[r] /\ request'[r] = request[r]
                                    /\ registeredAt'[r] = registeredAt[r]
    BY <1>9, <2>1
    DEF Register, RemoveSubscriber, serverVars, threadVars, DeliveryInvariant
  <2>3. Keeps
    BY <2>2 DEF Keeps
  <2>4. \A r \in Subs : Numbers(received[r])' = Numbers(received[r])
    BY <2>2 DEF Numbers
  <2>5. \A r \in Subs : phase'[r] = "absent" =>
           phase[r] = "absent" /\ registeredAt'[r] = registeredAt[r]
    BY <2>2
  <2> QED BY <1>1, <2>2, <2>3, <2>4, <2>5, DropsKeepDelivery
<1>10. ASSUME NEW s \in Subs,
              SendInitialState(s) \/ SendInitialStyle(s) \/ Deliver(s) \/ PeerCloses(s)
       PROVE  DeliveryInvariant'
  <2>1. CASE SendInitialState(s)
    BY <1>1, <2>1, SendInitialStateKeepsDelivery
  <2>2. CASE Deliver(s)
    BY <1>1, <2>2, DeliverKeepsDelivery
  <2>3. CASE PeerCloses(s)
    BY <1>2, <2>3 DEF PeerCloses, serverVars, threadVars
  <2>4. CASE SendInitialStyle(s)
    BY <1>1, <2>4, SendInitialStyleKeepsDelivery
  <2> QED BY <1>10, <2>1, <2>2, <2>3, <2>4
<1> QED BY <1>4, <1>5, <1>6, <1>7, <1>8, <1>9, <1>10 DEF Next, SubscriptionStep

\* The variables of the bus.
BusLog == [q \in DOMAIN issued |-> issued[q].topic]
BusWants == [s \in Subs |-> Wanted(s)]
BusGot == [s \in Subs |-> Arrivals(received[s])]

\* An event that is appended arrives at a new place, and any other frame does not.
LEMMA ArrivalsAppend ==
    ASSUME NEW q, Sequence(q), NEW f
    PROVE  LET arrival == [place |-> Len(q) + 1, seq |-> f.seq]
           IN  /\ f.type # "event" => Arrivals(Append(q, f)) = Arrivals(q)
               /\ f.type = "event" => Arrivals(Append(q, f)) = Arrivals(q) \cup {arrival}
               /\ arrival \notin Arrivals(q)
               /\ \A a \in Arrivals(q) : a.seq \in Numbers(q)
<1> DEFINE r == Append(q, f)
           n == Len(q)
<1>1. /\ DOMAIN q = 1..n /\ n \in Nat /\ DOMAIN r = 1..(n + 1) /\ r[n + 1] = f
      /\ \A i \in 1..n : r[i] = q[i]
  BY SequenceAppend DEF Sequence
<1> HIDE DEF r, n
<1>2. \A i \in 1..(n + 1) : i \in 1..n \/ i = n + 1
  BY <1>1
<1>3. n + 1 \in 1..(n + 1) /\ n + 1 \notin 1..n /\ \A i \in 1..n : i \in 1..(n + 1)
  BY <1>1
<1>4. Arrivals(q) \subseteq Arrivals(r)
  BY <1>1, <1>3 DEF Arrivals
<1>5. Arrivals(r) \subseteq Arrivals(q) \cup {[place |-> n + 1, seq |-> f.seq]}
  BY <1>1, <1>2 DEF Arrivals
<1>6. f.type = "event" => [place |-> n + 1, seq |-> f.seq] \in Arrivals(r)
  BY <1>1, <1>3 DEF Arrivals
<1>7. f.type # "event" => Arrivals(r) \subseteq Arrivals(q)
  BY <1>1, <1>2 DEF Arrivals
<1>8. [place |-> n + 1, seq |-> f.seq] \notin Arrivals(q)
  BY <1>1, <1>3 DEF Arrivals
<1>9. \A a \in Arrivals(q) : a.seq \in Numbers(q)
  BY DEF Arrivals, Numbers
<1> QED BY <1>4, <1>5, <1>6, <1>7, <1>8, <1>9 DEF r, n

\* Steps the bus does not see.
LEMMA StepsUnseen ==
    ASSUME UNCHANGED <<issued, subscribers, request, registeredAt>>,
           \A s \in Subs : Arrivals(received[s])' = Arrivals(received[s])
    PROVE  UNCHANGED Bus!busVars
<1>1. UNCHANGED BusLog
  BY DEF BusLog
<1>2. UNCHANGED BusWants
  BY DEF BusWants, Wanted
<1>3. UNCHANGED BusGot
  BY DEF BusGot
<1> QED BY <1>1, <1>2, <1>3 DEF Bus!busVars, BusLog, BusWants, BusGot

\* The log has an entry for every event issued.
LEMMA LogShape ==
    ASSUME NEW list, NEW n, n \in Nat \ {0}, Sequence(list), Len(list) = n - 1,
           \A q \in DOMAIN list : list[q].topic \in Topics
    PROVE  LET log == [q \in DOMAIN list |-> list[q].topic]
           IN  log \in Seq(Topics) /\ Len(log) = n - 1 /\ DOMAIN list = 1..(n - 1)
<1>1. n - 1 \in Nat /\ DOMAIN list = 1..(n - 1)
  BY DEF Sequence
<1> HIDE DEF Topics
<1> QED BY <1>1

\* Nothing is added to an initial part, or something.
LEMMA PartOrMore ==
    ASSUME NEW n \in Nat \ {0}, NEW m \in Nat \ {0},
           \A q \in 1..(n - 1) : q \in 1..(m - 1)
    PROVE  n = m \/ m - 1 > n - 1
<1>1. ASSUME m < n PROVE FALSE
  <2>1. n - 1 \in 1..(n - 1)
    BY <1>1
  <2> QED BY <1>1, <2>1
<1> QED BY <1>1

\* New events are one step of the bus, or none.
LEMMA IssueIsABusStep ==
    ASSUME DeliveryInvariant, DeliveryInvariant', Keeps,
           UNCHANGED <<subscribers, request, registeredAt, received>>
    PROVE  [Bus!Next]_(Bus!busVars)
<1>1. /\ nextEventSeq \in Nat \ {0} /\ nextEventSeq' \in Nat \ {0}
      /\ DOMAIN issued = 1..(nextEventSeq - 1) /\ DOMAIN issued' = 1..(nextEventSeq' - 1)
      /\ Len(BusLog) = nextEventSeq - 1 /\ Len(BusLog') = nextEventSeq' - 1
      /\ BusLog' \in Seq(Topics)
  <2>1. /\ nextEventSeq \in Nat \ {0} /\ Sequence(issued)
        /\ Len(issued) = nextEventSeq - 1
        /\ \A q \in DOMAIN issued : issued[q].topic \in Topics
    BY DEF DeliveryInvariant, BusInvariant, EventsAreNumbered, TopicsAreKnown
  <2>2. /\ nextEventSeq' \in Nat \ {0} /\ Sequence(issued')
        /\ Len(issued') = nextEventSeq' - 1
        /\ \A q \in DOMAIN issued' : issued'[q].topic \in Topics
    BY DEF DeliveryInvariant, BusInvariant, EventsAreNumbered, TopicsAreKnown
  <2>3. Len(BusLog) = nextEventSeq - 1 /\ DOMAIN issued = 1..(nextEventSeq - 1)
    BY <2>1, LogShape DEF BusLog
  <2>4. /\ BusLog' \in Seq(Topics) /\ Len(BusLog') = nextEventSeq' - 1
        /\ DOMAIN issued' = 1..(nextEventSeq' - 1)
    BY <2>2, LogShape DEF BusLog
  <2> QED BY <2>1, <2>2, <2>3, <2>4
<1>2. DOMAIN BusLog = DOMAIN issued /\ DOMAIN BusLog' = DOMAIN issued'
  BY DEF BusLog
<1>3. \A q \in DOMAIN BusLog : q \in DOMAIN BusLog' /\ BusLog'[q] = BusLog[q]
  BY DEF BusLog, Keeps
<1>4. UNCHANGED <<BusWants, BusGot>>
  BY DEF BusWants, BusGot, Wanted, Arrivals
<1>5. nextEventSeq = nextEventSeq' \/ nextEventSeq' - 1 > nextEventSeq - 1
  BY <1>1, PartOrMore DEF Keeps
<1>6. CASE nextEventSeq = nextEventSeq'
  <2>1. DOMAIN issued' = DOMAIN issued
    BY <1>1, <1>6
  <2>2. BusLog' = BusLog
    BY <2>1 DEF BusLog, Keeps
  <2> QED BY <1>4, <2>2 DEF Bus!busVars, BusLog, BusWants, BusGot
<1>7. CASE nextEventSeq' - 1 > nextEventSeq - 1
  <2>1. Len(BusLog') > Len(BusLog)
    BY <1>1, <1>7
  <2>2. Bus!Issue
    BY <1>1, <1>3, <1>4, <2>1 DEF Bus!Issue, BusLog, BusWants, BusGot
  <2> QED BY <2>2 DEF Bus!Next
<1> QED BY <1>5, <1>6, <1>7

\* A registration joins the bus, from the number the next event will have.
LEMMA RegisterIsABusStep ==
    ASSUME DeliveryInvariant, DeliveryInvariant', NEW r \in Subs, Register(r)
    PROVE  Bus!Next
<1>1. PICK wanted \in SubRequests : request' = [request EXCEPT ![r] = wanted]
  BY DEF Register
<1>2. /\ phase[r] = "absent"
      /\ subscribers' = subscribers \cup {r}
      /\ registeredAt' = [registeredAt EXCEPT ![r] = nextEventSeq]
      /\ UNCHANGED <<issued, received>>
  BY DEF Register, serverVars
<1>3. registeredAt[r] = 0 /\ DOMAIN request = Subs /\ nextEventSeq \in Nat
  BY <1>2 DEF DeliveryInvariant, QueueIsWanted, BusInvariant, SubscriptionsAreListed,
              EventsAreNumbered
<1>4. Len(BusLog) + 1 = nextEventSeq
  <2>1. /\ nextEventSeq \in Nat \ {0} /\ Sequence(issued)
        /\ Len(issued) = nextEventSeq - 1
        /\ \A q \in DOMAIN issued : issued[q].topic \in Topics
    BY DEF DeliveryInvariant, BusInvariant, EventsAreNumbered, TopicsAreKnown
  <2>2. Len(BusLog) = nextEventSeq - 1
    BY <2>1, LogShape DEF BusLog
  <2> QED BY <2>1, <2>2
<1>5. UNCHANGED <<BusLog, BusGot>>
  BY <1>2 DEF BusLog, BusGot, Arrivals
<1>6. request'[r] = wanted /\ \A s \in Subs : s # r => request'[s] = request[s]
  BY <1>1, <1>3
<1>7. Range(wanted.topics) \subseteq Topics
  <2>1. wanted.topics \in Seq(Topics)
    BY RuntimeDaemonAssumption
  <2> QED BY <2>1, SeqIsList
<1> DEFINE w == IF wanted.mode = "events" THEN Range(wanted.topics) ELSE {}
<1>8. w \in SUBSET Topics
  BY <1>7
<1>9. BusWants' = [BusWants EXCEPT ![r] = w]
  BY <1>6 DEF BusWants, Wanted
<1> HIDE DEF w
<1>10. Bus!Join(r)
  BY <1>2, <1>3, <1>4, <1>5, <1>8, <1>9 DEF Bus!Join, BusLog, BusWants, BusGot
<1> QED BY <1>10 DEF Bus!Next

\* An event that is written to the connection is received once.
LEMMA DeliverIsABusStep ==
    ASSUME DeliveryInvariant, DeliveryInvariant', NEW r \in Subs, Deliver(r)
    PROVE  [Bus!Next]_(Bus!busVars)
<1> DEFINE f == Head(queue[r])
<1>1. /\ phase[r] = "streaming" /\ queue[r] # <<>>
      /\ received' = [received EXCEPT ![r] = Append(received[r], f)] \/ received' = received
      /\ UNCHANGED <<issued, subscribers, request, registeredAt>>
  BY DEF Deliver, serverVars
<1>2. /\ DOMAIN received = Subs /\ Sequence(received[r]) /\ Sequence(queue[r])
      /\ r \in subscribers
  BY <1>1 DEF DeliveryInvariant, BusInvariant, SubscriptionsAreListed
<1>3. QueueIsWanted(r) /\ QueuedIsNew(r)
  BY DEF DeliveryInvariant
<1>4. f.type = "event" => f.seq \in Numbers(queue[r])
  BY <1>1, <1>2, <1>3, NumbersTail DEF QueueIsWanted
<1>5. \E j \in DOMAIN queue[r] : queue[r][j] = f
  BY <1>1, <1>2, SequenceTail DEF Sequence
<1>6. EventFor(r, f)
  BY <1>3, <1>5 DEF QueueIsWanted
<1> DEFINE arrival == [place |-> Len(received[r]) + 1, seq |-> f.seq]
<1>7. /\ f.type # "event" => Arrivals(Append(received[r], f)) = Arrivals(received[r])
      /\ f.type = "event" =>
            Arrivals(Append(received[r], f)) = Arrivals(received[r]) \cup {arrival}
      /\ arrival \notin Arrivals(received[r]) /\ arrival.seq = f.seq
      /\ \A a \in Arrivals(received[r]) : a.seq \in Numbers(received[r])
  BY <1>2, ArrivalsAppend
<1> HIDE DEF f, arrival
<1>8. CASE received' = received
  BY <1>1, <1>8, StepsUnseen DEF Arrivals
<1>9. CASE received' = [received EXCEPT ![r] = Append(received[r], f)]
  <2>1. /\ received'[r] = Append(received[r], f)
        /\ \A s \in Subs : s # r => received'[s] = received[s]
    BY <1>2, <1>9
  <2>2. /\ Arrivals(received[r])' = Arrivals(Append(received[r], f))
        /\ \A s \in Subs : s # r => Arrivals(received[s])' = Arrivals(received[s])
    BY <2>1 DEF Arrivals
  <2>3. CASE f.type # "event"
    BY <1>1, <1>7, <2>2, <2>3, StepsUnseen
  <2>4. CASE f.type = "event"
    <3>1. /\ BusGot' = [BusGot EXCEPT ![r] = @ \cup {arrival}]
          /\ arrival \in BusGot'[r] \ BusGot[r]
      <4>1. /\ BusGot[r] = Arrivals(received[r])
            /\ BusGot'[r] = Arrivals(received[r]) \cup {arrival}
            /\ \A s \in Subs : s # r => BusGot'[s] = BusGot[s]
        BY <1>7, <2>2, <2>4 DEF BusGot
      <4> QED BY <1>7, <4>1 DEF BusGot
    <3>2. \A a \in BusGot[r] : a.seq # arrival.seq
      BY <1>3, <1>4, <1>7, <2>4 DEF BusGot, QueuedIsNew
    <3>3. arrival.seq \in DOMAIN BusLog /\ BusLog[arrival.seq] \in BusWants[r]
      BY <1>6, <1>7, <2>4 DEF BusLog, BusWants, EventFor
    <3>4. UNCHANGED <<BusLog, BusWants>>
      BY <1>1 DEF BusLog, BusWants, Wanted
    <3>5. Bus!Receive(r)
      BY <1>1, <1>2, <3>1, <3>2, <3>3, <3>4 DEF Bus!Receive, BusLog, BusWants, BusGot
    <3> QED BY <3>5 DEF Bus!Next
  <2> QED BY <2>3, <2>4
<1> QED BY <1>1, <1>8, <1>9

\* Every step of the daemon is a step of the bus or one it does not see.
LEMMA StepsAreBusSteps ==
    DeliveryInvariant /\ DeliveryInvariant' /\ [Next]_vars => [Bus!Next]_(Bus!busVars)
<1> SUFFICES ASSUME DeliveryInvariant, DeliveryInvariant', [Next]_vars
             PROVE  [Bus!Next]_(Bus!busVars)
  OBVIOUS
<1>1. ASSUME UNCHANGED <<issued, subscribers, request, registeredAt, received>>
      PROVE  [Bus!Next]_(Bus!busVars)
  BY <1>1, StepsUnseen DEF Arrivals
<1>2. ASSUME NEW t \in Threads, NEW deltas, Sequence(deltas), frames[t] = <<>>,
             IssueEvents(t, deltas), UNCHANGED subVars
      PROVE  [Bus!Next]_(Bus!busVars)
  <2>1. BusInvariant
    BY DEF DeliveryInvariant
  <2>2. \A q \in DOMAIN issued : q \in DOMAIN issued' /\ issued'[q] = issued[q]
    BY <1>2, <2>1, IssueEventsFacts
  <2>3. Keeps
    BY <1>2, <2>2 DEF Keeps, subVars
  <2> QED BY <1>2, <2>3, IssueIsABusStep DEF subVars
<1>3. ASSUME NEW t \in Threads, NEW command, Commit(t, command) \/ CommitAborts(t, command)
      PROVE  [Bus!Next]_(Bus!busVars)
  <2>1. CASE Commit(t, command)
    <3>1. Sequence(Handle(command, runtimeState, styleFile).deltas)
      BY DeltasAreSequences
    <3>2. /\ pc[t] = "idle" /\ UNCHANGED subVars
          /\ IssueEvents(t, Handle(command, runtimeState, styleFile).deltas)
      BY <2>1 DEF Commit
    <3>3. frames[t] = <<>>
      BY <3>2 DEF DeliveryInvariant, BusInvariant, ThreadsHoldFrames
    <3> QED BY <1>2, <3>1, <3>2, <3>3
  <2>2. CASE CommitAborts(t, command)
    BY <1>1, <2>2 DEF CommitAborts, subVars
  <2> QED BY <1>3, <2>1, <2>2
<1>4. CASE \E c \in Clients : ClientCommand(c)
  BY <1>3, <1>4 DEF ClientCommand, Threads
<1>5. CASE \E p \in Producers : ProducerFrame(p)
  BY <1>3, <1>5 DEF ProducerFrame, Threads
<1>6. CASE FifoLine
  BY <1>3, <1>6 DEF FifoLine, Threads
<1>7. CASE FifoReopens \/ WriteLine \/ Rest \/ UNCHANGED vars
  BY <1>1, <1>7 DEF FifoReopens, WriteLine, Rest, vars, serverVars, subVars
<1>8. ASSUME NEW t \in Threads, HandlerStep(t)
      PROVE  [Bus!Next]_(Bus!busVars)
  <2>1. CASE EffectSucceeds(t) \/ EffectFails(t) \/ EffectThrows(t)
    BY <1>1, <2>1 DEF EffectSucceeds, EffectFails, EffectThrows, EffectOver, serverVars, subVars
  <2>2. CASE BroadcastTopics(t) \/ BroadcastEvents(t) \/ Finish(t)
    BY <1>1, <2>2 DEF BroadcastTopics, BroadcastEvents, Finish, serverVars, subVars
  <2>3. CASE \E s \in Subs : SendFrame(t, s)
    BY <1>1, <2>3 DEF SendFrame, serverVars, subVars
  <2>4. CASE IssueStatus(t)
    <3>1. Sequence([i \in 1..failed[t] |-> ActionFailed])
      BY DEF Sequence, DeliveryInvariant, BusInvariant, ThreadsHoldFrames
    <3>2. /\ pc[t] = "status" /\ UNCHANGED subVars
          /\ IssueEvents(t, [i \in 1..failed[t] |-> ActionFailed])
      BY <2>4 DEF IssueStatus
    <3>3. frames[t] = <<>>
      BY <3>2 DEF DeliveryInvariant, BusInvariant, ThreadsHoldFrames
    <3> QED BY <1>2, <3>1, <3>2, <3>3
  <2> QED BY <1>8, <2>1, <2>2, <2>3, <2>4 DEF HandlerStep
<1>9. ASSUME NEW s \in Subs, Register(s)
      PROVE  Bus!Next
  BY <1>9, RegisterIsABusStep
<1>10. ASSUME NEW s \in Subs, SendInitialState(s) \/ SendInitialStyle(s)
       PROVE  [Bus!Next]_(Bus!busVars)
  <2>1. UNCHANGED <<issued, subscribers, request, registeredAt>>
    BY <1>10 DEF SendInitialState, SendInitialStyle, serverVars
  <2>2. \A r \in Subs : Arrivals(received[r])' = Arrivals(received[r])
    <3>1. BusInvariant'
      BY DEF DeliveryInvariant
    <3>2. /\ Numbers(received[s])' = {} /\ Numbers(received[s]) = {}
          /\ \A r \in Subs : r # s => received'[r] = received[r]
      BY <1>10, <3>1, SendInitialStateKeepsDelivery, SendInitialStyleKeepsDelivery
    <3>3. Arrivals(received[s])' = {} /\ Arrivals(received[s]) = {}
      BY <3>2 DEF Arrivals, Numbers
    <3> QED BY <3>2, <3>3 DEF Arrivals
  <2> QED BY <2>1, <2>2, StepsUnseen
<1>11. ASSUME NEW s \in Subs, Deliver(s)
       PROVE  [Bus!Next]_(Bus!busVars)
  BY <1>11, DeliverIsABusStep
<1>12. ASSUME NEW s \in Subs, RemoveSubscriber(s)
       PROVE  Bus!Next
  <2>1. /\ phase[s] = "leaving" /\ subscribers' = subscribers \ {s}
        /\ UNCHANGED <<issued, request, registeredAt, received>>
    BY <1>12 DEF RemoveSubscriber, serverVars
  <2>2. s \in subscribers
    BY <2>1 DEF DeliveryInvariant, BusInvariant, SubscriptionsAreListed
  <2>3. UNCHANGED <<BusLog, BusWants, BusGot>>
    BY <2>1 DEF BusLog, BusWants, BusGot, Wanted, Arrivals
  <2>4. Bus!Leave(s)
    BY <2>1, <2>2, <2>3 DEF Bus!Leave, BusLog, BusWants, BusGot
  <2> QED BY <2>4 DEF Bus!Next
<1>13. ASSUME NEW s \in Subs, PeerCloses(s)
       PROVE  [Bus!Next]_(Bus!busVars)
  BY <1>1, <1>13 DEF PeerCloses, serverVars
<1> QED BY <1>4, <1>5, <1>6, <1>7, <1>8, <1>9, <1>10, <1>11, <1>12, <1>13
        DEF Next, SubscriptionStep

\* The daemon implements the event bus, whatever its clients do and however often
\* commits, effects and connections fail: an event reaches a subscription at most once,
\* only while it is listed and only if it asked for the event's topic.
THEOREM DeliveredOnce == Spec => ImplementsBus
<1>1. Init => DeliveryInvariant
  BY InitDelivery
<1>2. DeliveryInvariant /\ [Next]_vars => DeliveryInvariant'
  BY NextKeepsDelivery
<1>3. Init => Bus!Init
  <2> SUFFICES ASSUME Init PROVE Bus!Init
    OBVIOUS
  <2>1. \A i : i \notin DOMAIN <<>>
    OBVIOUS
  <2>2. Arrivals(<<>>) = {}
    BY <2>1 DEF Arrivals
  <2>3. \A s \in Subs : Wanted(s) = {}
    BY DEF Init, Wanted, NoRequest
  <2>4. BusLog = <<>>
    <3>1. issued = <<>>
      BY DEF Init
    <3> QED BY <3>1 DEF BusLog
  <2> QED BY <2>2, <2>3, <2>4 DEF Init, Bus!Init, BusLog
<1>4. DeliveryInvariant /\ DeliveryInvariant' /\ [Next]_vars => [Bus!Next]_(Bus!busVars)
  BY StepsAreBusSteps
<1> QED BY <1>1, <1>2, <1>3, <1>4, PTL DEF Spec, ImplementsBus, Bus!Spec

-----------------------------------------------------------------------------
(* The serial machine: what the threads carry out was asked for *)

\* A thread is at its effects as long as it has any, and they carry accepted commands.
EffectsAreAccepted(t) ==
    /\ IsList(effects[t])
    /\ \A e \in Range(effects[t]) : e.command \in Requests
    /\ pc[t] = "effects" <=> effects[t] # <<>>

\* So do the lines of the FIFO, the daemon's own among them.
RequestsAreAccepted ==
    /\ IsList(fifo) /\ Range(fifo) \subseteq Requests
    /\ pc \in [Threads -> PCs] /\ DOMAIN effects = Threads
    /\ \A t \in Threads : EffectsAreAccepted(t)

\* The daemon starts with nothing to do.
LEMMA InitAccepts == Init => RequestsAreAccepted
<1> SUFFICES ASSUME Init PROVE RequestsAreAccepted
  OBVIOUS
<1> USE EmptyList
<1>1. IsList(fifo) /\ Range(fifo) \subseteq Requests
  BY DEF Init
<1>2. \A t \in Threads : EffectsAreAccepted(t)
  BY DEF Init, EffectsAreAccepted
<1> QED BY <1>1, <1>2 DEF Init, RequestsAreAccepted, PCs

\* A commit leaves the effects of an accepted command with the thread.
LEMMA CommitAccepts ==
    ASSUME RequestsAreAccepted, NEW t \in Threads, NEW command \in Requests,
           Commit(t, command) \/ CommitAborts(t, command),
           IsList(fifo'), Range(fifo') \subseteq Requests
    PROVE  RequestsAreAccepted'
<1> DEFINE list == Handle(command, runtimeState, styleFile).effects
<1>1. CASE Commit(t, command)
  <2>1. /\ effects' = [effects EXCEPT ![t] = list]
        /\ pc' = [pc EXCEPT ![t] = IF list = <<>> THEN "topics" ELSE "effects"]
    BY <1>1 DEF Commit
  <2>2. IsList(list) /\ \A e \in Range(list) : e.command \in Requests
    BY EffectsCarryCommand
  <2> HIDE DEF list
  <2>3. ASSUME NEW u \in Threads
        PROVE  EffectsAreAccepted(u)'
    <3>1. CASE u = t
      BY <2>1, <2>2, <3>1 DEF RequestsAreAccepted, EffectsAreAccepted
    <3>2. CASE u # t
      BY <2>1, <3>2 DEF RequestsAreAccepted, EffectsAreAccepted
    <3> QED BY <3>1, <3>2
  <2> QED BY <2>1, <2>3 DEF RequestsAreAccepted, PCs
<1>2. CASE CommitAborts(t, command)
  <2>1. /\ pc[t] = "idle" /\ UNCHANGED effects
        /\ pc' = [pc EXCEPT ![t] = IF t \in Clients THEN "idle" ELSE "dead"]
    BY <1>2 DEF CommitAborts
  <2>2. ASSUME NEW u \in Threads
        PROVE  EffectsAreAccepted(u)'
    <3>1. CASE u = t
      BY <2>1, <3>1 DEF RequestsAreAccepted, EffectsAreAccepted
    <3>2. CASE u # t
      BY <2>1, <3>2 DEF RequestsAreAccepted, EffectsAreAccepted
    <3> QED BY <3>1, <3>2
  <2> QED BY <2>1, <2>2 DEF RequestsAreAccepted, PCs
<1> QED BY <1>1, <1>2

\* An effect that is over leaves the others, and writes an accepted command.
LEMMA EffectsAccept ==
    ASSUME RequestsAreAccepted, NEW t \in Threads,
           EffectSucceeds(t) \/ EffectFails(t) \/ EffectThrows(t)
    PROVE  RequestsAreAccepted'
<1> DEFINE list == effects[t]
<1>1. /\ pc[t] = "effects" /\ list # <<>> /\ IsList(list)
      /\ \A e \in Range(list) : e.command \in Requests
  BY DEF EffectSucceeds, EffectFails, EffectThrows, EffectOver, RequestsAreAccepted,
         EffectsAreAccepted
<1>2. /\ IsList(Tail(list)) /\ Range(Tail(list)) \subseteq Range(list)
      /\ Head(list) \in Range(list)
  BY <1>1, TailList
<1>3. Tail(list) = <<>> <=> Len(list) = 1
  BY <1>1, TailOfOne
<1>4. \/ /\ effects' = [effects EXCEPT ![t] = Tail(list)]
         /\ pc' = [pc EXCEPT ![t] = IF Len(list) = 1 THEN "topics" ELSE "effects"]
      \/ /\ effects' = [effects EXCEPT ![t] = <<>>]
         /\ pc' = [pc EXCEPT ![t] = "dead"] \/ pc' = [pc EXCEPT ![t] = "topics"]
  BY DEF EffectSucceeds, EffectFails, EffectThrows, EffectOver
<1>5. fifo' = fifo \/ fifo' = Append(fifo, Head(list).command)
  BY DEF EffectSucceeds, EffectFails, EffectThrows
<1> HIDE DEF list
<1>6. IsList(fifo') /\ Range(fifo') \subseteq Requests
  <2> DEFINE line == Head(list).command
  <2>1. line \in Requests /\ IsList(fifo) /\ Range(fifo) \subseteq Requests
    BY <1>1, <1>2 DEF RequestsAreAccepted
  <2> HIDE DEF line
  <2>2. IsList(Append(fifo, line)) /\ Range(Append(fifo, line)) \subseteq Requests
    BY <2>1, AppendList
  <2> QED BY <1>5, <2>1, <2>2 DEF line
<1>7. ASSUME NEW u \in Threads
      PROVE  EffectsAreAccepted(u)'
  <2>1. CASE u = t
    BY <1>1, <1>2, <1>3, <1>4, <2>1, EmptyList DEF RequestsAreAccepted, EffectsAreAccepted, list
  <2>2. CASE u # t
    BY <1>4, <2>2 DEF RequestsAreAccepted, EffectsAreAccepted
  <2> QED BY <2>1, <2>2
<1> QED BY <1>4, <1>6, <1>7 DEF RequestsAreAccepted, PCs

\* No other step touches the effects, or takes a thread there.
LEMMA OthersAccept ==
    ASSUME RequestsAreAccepted, effects' = effects, pc' \in [Threads -> PCs],
           \A t \in Threads : pc'[t] = pc[t] \/ (pc[t] # "effects" /\ pc'[t] # "effects"),
           IsList(fifo'), Range(fifo') \subseteq Requests
    PROVE  RequestsAreAccepted'
  BY DEF RequestsAreAccepted, EffectsAreAccepted

\* Whatever a thread takes up was asked for.
LEMMA NextAccepts == RequestsAreAccepted /\ [Next]_vars => RequestsAreAccepted'
<1> SUFFICES ASSUME RequestsAreAccepted, [Next]_vars PROVE RequestsAreAccepted'
  OBVIOUS
<1>0. /\ IsList(fifo) /\ Range(fifo) \subseteq Requests
      /\ pc \in [Threads -> PCs]
  BY DEF RequestsAreAccepted
<1>1. ASSUME NEW c \in Clients, ClientCommand(c) PROVE RequestsAreAccepted'
  BY <1>0, <1>1, CommitAccepts, RuntimeDaemonAssumption DEF ClientCommand, Threads
<1>2. ASSUME NEW p \in Producers, ProducerFrame(p) PROVE RequestsAreAccepted'
  BY <1>0, <1>2, CommitAccepts, RuntimeDaemonAssumption DEF ProducerFrame, Threads
<1>3. CASE FifoLine
  <2>1. /\ Head(fifo) \in Requests
        /\ IsList(Tail(fifo)) /\ Range(Tail(fifo)) \subseteq Requests
    BY <1>0, <1>3, TailList DEF FifoLine
  <2> QED BY <1>3, <2>1, CommitAccepts DEF FifoLine, Threads
<1>4. CASE FifoReopens
  BY <1>0, <1>4, EmptyList, OthersAccept DEF FifoReopens, threadVars
<1>5. CASE WriteLine
  <2>1. PICK line \in CompatLines : fifo' = Append(fifo, line)
    BY <1>5 DEF WriteLine
  <2>2. IsList(fifo') /\ Range(fifo') \subseteq Requests
    BY <1>0, <2>1, AppendList, RuntimeDaemonAssumption
  <2> QED BY <1>0, <1>5, <2>2, OthersAccept DEF WriteLine, threadVars
<1>6. ASSUME NEW t \in Threads, HandlerStep(t) PROVE RequestsAreAccepted'
  <2>1. CASE EffectSucceeds(t) \/ EffectFails(t) \/ EffectThrows(t)
    BY <2>1, EffectsAccept
  <2>2. CASE BroadcastTopics(t) \/ BroadcastEvents(t) \/ IssueStatus(t) \/ Finish(t)
    <3>1. /\ UNCHANGED <<effects, fifo>> /\ pc[t] # "effects"
          /\ \E to \in PCs \ {"effects"} : pc' = [pc EXCEPT ![t] = to]
      BY <2>2 DEF BroadcastTopics, BroadcastEvents, IssueStatus, Finish, PCs
    <3> QED BY <1>0, <3>1, OthersAccept
  <2>3. CASE \E s \in Subs : SendFrame(t, s)
    <3>1. UNCHANGED <<effects, fifo, pc>>
      BY <2>3 DEF SendFrame
    <3> QED BY <1>0, <3>1, OthersAccept
  <2> QED BY <1>6, <2>1, <2>2, <2>3 DEF HandlerStep
<1>7. ASSUME NEW s \in Subs, Register(s) \/ SubscriptionStep(s) \/ PeerCloses(s)
      PROVE  RequestsAreAccepted'
  <2>1. UNCHANGED <<effects, fifo, pc>>
    BY <1>7 DEF Register, SubscriptionStep, SendInitialState, SendInitialStyle,
                Deliver, RemoveSubscriber, PeerCloses, threadVars
  <2> QED BY <1>0, <2>1, OthersAccept
<1>8. CASE Rest \/ UNCHANGED vars
  <2>1. UNCHANGED <<effects, fifo, pc>>
    BY <1>8 DEF Rest, vars, threadVars
  <2> QED BY <1>0, <2>1, OthersAccept
<1> QED BY <1>1, <1>2, <1>3, <1>4, <1>5, <1>6, <1>7, <1>8 DEF Next

\* A commit is one command of the serial machine; one that aborts left the file behind it
\* or did nothing.
LEMMA CommitIsSerial ==
    ASSUME NEW t, NEW command \in Requests, Commit(t, command) \/ CommitAborts(t, command)
    PROVE  [SerialNext]_stateVars
<1>1. CASE Commit(t, command)
  BY <1>1 DEF Commit, SerialNext, Execute
<1>2. CASE CommitAborts(t, command)
  BY <1>2
  DEF CommitAborts, SerialNext, AbortAfterWrite, stateVars
<1> QED BY <1>1, <1>2

\* Every step of the daemon is a command of the serial machine, an abort, or nothing.
LEMMA StepsAreSerial ==
    RequestsAreAccepted /\ [Next]_vars => [SerialNext]_stateVars
<1> SUFFICES ASSUME RequestsAreAccepted, [Next]_vars
             PROVE  [SerialNext]_stateVars
  OBVIOUS
<1>1. CASE UNCHANGED <<runtimeState, styleFile>>
  BY <1>1 DEF stateVars
<1>2. CASE \E c \in Clients : ClientCommand(c)
  BY <1>2, CommitIsSerial, RuntimeDaemonAssumption DEF ClientCommand
<1>3. CASE \E p \in Producers : ProducerFrame(p)
  BY <1>3, CommitIsSerial, RuntimeDaemonAssumption DEF ProducerFrame
<1>4. CASE FifoLine
  <2>1. Head(fifo) \in Requests
    BY <1>4, TailList DEF FifoLine, RequestsAreAccepted
  <2> QED BY <1>4, <2>1, CommitIsSerial DEF FifoLine
<1>5. CASE FifoReopens \/ WriteLine \/ Rest \/ UNCHANGED vars
  BY <1>1, <1>5 DEF FifoReopens, WriteLine, Rest, vars, serverVars
<1>6. ASSUME NEW t \in Threads, HandlerStep(t)
      PROVE  UNCHANGED <<runtimeState, styleFile>>
  BY <1>6 DEF HandlerStep, EffectSucceeds, EffectFails, EffectThrows, EffectOver,
              BroadcastTopics, BroadcastEvents, SendFrame, IssueStatus, Finish, serverVars
<1>7. ASSUME NEW s \in Subs, Register(s) \/ SubscriptionStep(s) \/ PeerCloses(s)
      PROVE  UNCHANGED <<runtimeState, styleFile>>
  BY <1>7 DEF Register, SubscriptionStep, SendInitialState, SendInitialStyle, Deliver,
              RemoveSubscriber, PeerCloses, serverVars
<1> QED BY <1>1, <1>2, <1>3, <1>4, <1>5, <1>6, <1>7 DEF Next

\* However many clients, producers and FIFO lines are served at once, and however often a
\* commit aborts, an effect fails or a peer goes away: runtimeState and style.env only
\* ever go the way of the commands of RuntimeCommands, carried out one at a time.
THEOREM CommitsAreSerial == Spec => ImplementsSerial
<1>1. Init => SerialInit
  <2> SUFFICES ASSUME Init PROVE SerialInit
    OBVIOUS
  <2>1. InitialNames[1] \in Names
    BY RuntimeCommandsAssumption
  <2> QED BY <2>1 DEF Init, SerialInit
<1>2. RequestsAreAccepted /\ [Next]_vars => RequestsAreAccepted'
  BY NextAccepts
<1>3. RequestsAreAccepted /\ [Next]_vars => [SerialNext]_stateVars
  BY StepsAreSerial
<1> QED BY <1>1, <1>2, <1>3, InitAccepts, PTL DEF Spec, ImplementsSerial, SerialSpec

\* So all that RuntimeCommandsProofs shows of the serial machine holds of the concurrent
\* daemon: between any two of its threads' steps the backdrop plan is the one of the
\* state, the style is the one style.env had when it was read, what a command would
\* change it would announce, the current workspace stays listed and desks follow their
\* names.
THEOREM DaemonKeepsState ==
    Spec => /\ []BackdropsFollowState /\ []ChangesAreAnnounced /\ []StateTypeOK
            /\ []DesksFollowNames /\ StyleFollowsFile /\ CurrentStaysListed
<1>1. Spec => SerialSpec
  BY CommitsAreSerial DEF ImplementsSerial
<1> QED BY <1>1, BackdropsAreFollowed, ChangesAreSeen, CommandTypesHold, StyleIsRead,
           CurrentIsKept, DesksAreKept

-----------------------------------------------------------------------------
(* The shape of the daemon's variables *)

\* What TypeOK says beyond the invariants of the bus and of the requests.
CountsAreNumbers ==
    peerUp \in [Subs -> BOOLEAN] /\ effectFailures \in [Threads -> Nat] /\ faults \in Nat

\* A step counts one failure or fault at most, and a peer goes away at most.
LEMMA NextCounts == CountsAreNumbers /\ [Next]_vars => CountsAreNumbers'
<1> SUFFICES ASSUME CountsAreNumbers, [Next]_vars PROVE CountsAreNumbers'
  OBVIOUS
<1> USE DEF CountsAreNumbers
<1>1. ASSUME NEW t, NEW command, Commit(t, command) \/ CommitAborts(t, command)
      PROVE  CountsAreNumbers'
  BY <1>1 DEF Commit, CommitAborts, subVars
<1>2. CASE \E c \in Clients : ClientCommand(c)
  BY <1>1, <1>2 DEF ClientCommand
<1>3. CASE \E p \in Producers : ProducerFrame(p)
  BY <1>1, <1>3 DEF ProducerFrame
<1>4. CASE FifoLine
  BY <1>1, <1>4 DEF FifoLine
<1>5. CASE FifoReopens \/ WriteLine \/ Rest \/ UNCHANGED vars
  BY <1>5 DEF FifoReopens, WriteLine, Rest, vars, subVars
<1>6. ASSUME NEW t \in Threads, HandlerStep(t) PROVE CountsAreNumbers'
  BY <1>6 DEF HandlerStep, EffectSucceeds, EffectFails, EffectThrows, EffectOver,
              BroadcastTopics, BroadcastEvents, SendFrame, IssueStatus, Finish, subVars
<1>7. ASSUME NEW s \in Subs, Register(s) \/ SubscriptionStep(s) \/ PeerCloses(s)
      PROVE  CountsAreNumbers'
  <2>1. \/ UNCHANGED <<peerUp, effectFailures, faults>>
        \/ /\ peerUp' = [peerUp EXCEPT ![s] = FALSE]
           /\ faults' = faults + 1 /\ UNCHANGED effectFailures
    BY <1>7 DEF Register, SubscriptionStep, SendInitialState, SendInitialStyle,
                Deliver, RemoveSubscriber, PeerCloses
  <2>2. [peerUp EXCEPT ![s] = FALSE] \in [Subs -> BOOLEAN]
    BY Zenon
  <2>3. effectFailures' \in [Threads -> Nat] /\ faults' \in Nat
    BY <2>1
  <2>4. peerUp' \in [Subs -> BOOLEAN]
    BY <2>1, <2>2, Zenon
  <2> QED BY <2>3, <2>4
<1> QED BY <1>2, <1>3, <1>4, <1>5, <1>6, <1>7 DEF Next

\* Nothing has failed yet and every peer is there.
LEMMA InitCounts == Init => CountsAreNumbers
<1> SUFFICES ASSUME Init PROVE CountsAreNumbers
  OBVIOUS
<1>1. /\ peerUp = [s \in Subs |-> TRUE]
      /\ effectFailures = [t \in Threads |-> 0] /\ faults = 0
  BY DEF Init
<1>2. peerUp \in [Subs -> BOOLEAN]
  BY <1>1, Zenon
<1> QED BY <1>1, <1>2 DEF CountsAreNumbers

\* TypeOK, for any threads, subscriptions and commands: a thread is at its effects exactly
\* as long as it has any, a request is one that was made, the counters are numbers.
THEOREM DaemonTypesHold == Spec => []TypeOK
<1>1. Init => CountsAreNumbers
  BY InitCounts
<1>2. DeliveryInvariant /\ RequestsAreAccepted /\ CountsAreNumbers => TypeOK
  BY DEF DeliveryInvariant, BusInvariant, EventsAreNumbered, ThreadsHoldFrames,
         SubscriptionsAreListed, RequestsAreAccepted, EffectsAreAccepted, CountsAreNumbers,
         TypeOK
<1>3. CountsAreNumbers /\ [Next]_vars => CountsAreNumbers'
  BY NextCounts
<1>4. DeliveryInvariant /\ [Next]_vars => DeliveryInvariant'
  BY NextKeepsDelivery
<1>5. RequestsAreAccepted /\ [Next]_vars => RequestsAreAccepted'
  BY NextAccepts
<1> QED BY <1>1, <1>2, <1>3, <1>4, <1>5, InitDelivery, InitAccepts, PTL DEF Spec

-----------------------------------------------------------------------------
(* The order of one thread's events *)

\* The events of thread t among these frames have numbers below n.
Below(t, q, n) == \A i \in DOMAIN q : EventOf(t, q[i]) => q[i].seq < n

\* A thread hands out its events in order.
HandsOutInOrder(t) ==
    /\ \A i \in DOMAIN frames[t], j \in DOMAIN frames[t] :
          i < j => frames[t][i].seq < frames[t][j].seq
    /\ DOMAIN frames[t] \subseteq Nat \ {0}
    /\ \A i \in DOMAIN todo[t] : todo[t][i].frame.type = "event" => i \in Nat \ {0}
    /\ \A i \in DOMAIN todo[t], j \in DOMAIN todo[t] :
          i < j /\ todo[t][i].frame.type = "event" /\ todo[t][j].frame.type = "event"
          => todo[t][i].frame.seq < todo[t][j].frame.seq
    /\ \A i \in DOMAIN todo[t], j \in DOMAIN frames[t] :
          todo[t][i].frame.type = "event" => todo[t][i].frame.seq < frames[t][j].seq

\* What s received of thread t is older than what is queued for it, and both are older
\* than what t has yet to send it.
ReachesInOrder(t, s) ==
    /\ Ascending(t, received[s]) /\ Ascending(t, queue[s])
    /\ \A i \in DOMAIN queue[s] :
          EventOf(t, queue[s][i]) => Below(t, received[s], queue[s][i].seq)
    /\ \A i \in DOMAIN frames[t] :
          /\ Below(t, received[s], frames[t][i].seq)
          /\ Below(t, queue[s], frames[t][i].seq)
    /\ \A i \in DOMAIN todo[t] :
          s \in todo[t][i].to /\ todo[t][i].frame.type = "event" =>
          /\ Below(t, received[s], todo[t][i].frame.seq)
          /\ Below(t, queue[s], todo[t][i].frame.seq)

OrderInvariant ==
    /\ DeliveryInvariant
    /\ \A t \in Threads : HandsOutInOrder(t)
    /\ \A t \in Threads, s \in Subs : ReachesInOrder(t, s)

\* A frame that is appended has to be newer than its thread's events before it.
LEMMA AscendingAppend ==
    ASSUME NEW t, NEW q, Sequence(q), NEW f
    PROVE  /\ Ascending(t, q) /\ (EventOf(t, f) => Below(t, q, f.seq))
              => Ascending(t, Append(q, f))
           /\ \A n : Below(t, q, n) /\ (EventOf(t, f) => f.seq < n) => Below(t, Append(q, f), n)
<1> DEFINE r == Append(q, f)
           n == Len(q)
<1>1. /\ DOMAIN q = 1..n /\ n \in Nat /\ DOMAIN r = 1..(n + 1) /\ r[n + 1] = f
      /\ \A i \in 1..n : r[i] = q[i]
  BY SequenceAppend DEF Sequence
<1> HIDE DEF r, n
<1>2. \A i \in 1..(n + 1) : i \in 1..n \/ i = n + 1
  BY <1>1
<1>3. ASSUME Ascending(t, q), EventOf(t, f) => Below(t, q, f.seq)
      PROVE  Ascending(t, r)
  <2> SUFFICES ASSUME NEW i \in DOMAIN r, NEW j \in DOMAIN r, i < j,
                      EventOf(t, r[i]), EventOf(t, r[j])
               PROVE  r[i].seq < r[j].seq
    BY DEF Ascending
  <2>1. i \in 1..n
    BY <1>1
  <2>2. CASE j \in 1..n
    BY <1>1, <1>3, <2>1, <2>2 DEF Ascending
  <2>3. CASE j = n + 1
    BY <1>1, <1>3, <2>1, <2>3 DEF Below
  <2> QED BY <1>1, <1>2, <2>2, <2>3
<1>4. ASSUME NEW m, Below(t, q, m), EventOf(t, f) => f.seq < m
      PROVE  Below(t, r, m)
  BY <1>1, <1>2, <1>4 DEF Below
<1> QED BY <1>3, <1>4 DEF r

\* Without its head a queue stays in order, and the head's event is the oldest.
LEMMA AscendingTail ==
    ASSUME NEW t, NEW q, Sequence(q), q # <<>>
    PROVE  /\ Ascending(t, q) =>
                 /\ Ascending(t, Tail(q))
                 /\ \A i \in DOMAIN Tail(q) :
                       EventOf(t, Head(q)) /\ EventOf(t, Tail(q)[i])
                       => Head(q).seq < Tail(q)[i].seq
           /\ \A n : Below(t, q, n) =>
                 Below(t, Tail(q), n) /\ (EventOf(t, Head(q)) => Head(q).seq < n)
           /\ \A i \in DOMAIN Tail(q) : \E j \in DOMAIN q : Tail(q)[i] = q[j]
           /\ \E j \in DOMAIN q : Head(q) = q[j]
<1> DEFINE r == Tail(q)
           n == Len(q)
           h == Head(q)
<1>1. /\ DOMAIN q = 1..n /\ n \in Nat /\ n >= 1 /\ h = q[1]
      /\ Sequence(r) /\ Len(r) = n - 1
      /\ \A i \in 2..n : r[i - 1] = q[i]
  BY SequenceTail DEF Sequence
<1>2. DOMAIN r = 1..(n - 1)
  BY <1>1 DEF Sequence
<1> HIDE DEF r, n, h
<1>3. ASSUME NEW i \in DOMAIN r
      PROVE  i + 1 \in DOMAIN q /\ r[i] = q[i + 1] /\ 1 < i + 1 /\ i \in Nat
  <2>1. i + 1 \in 2..n /\ (i + 1) - 1 = i
    BY <1>1, <1>2
  <2> QED BY <1>1, <2>1
<1>4. 1 \in DOMAIN q
  BY <1>1
<1>5. ASSUME Ascending(t, q)
      PROVE  /\ Ascending(t, r)
             /\ \A i \in DOMAIN r : EventOf(t, h) /\ EventOf(t, r[i]) => h.seq < r[i].seq
  <2>1. ASSUME NEW i \in DOMAIN r, NEW j \in DOMAIN r, i < j
        PROVE  i + 1 < j + 1
    BY <1>3, <2>1
  <2> QED BY <1>1, <1>3, <1>4, <1>5, <2>1 DEF Ascending
<1>6. ASSUME NEW m, Below(t, q, m)
      PROVE  Below(t, r, m) /\ (EventOf(t, h) => h.seq < m)
  BY <1>1, <1>3, <1>4, <1>6 DEF Below
<1> QED BY <1>1, <1>3, <1>4, <1>5, <1>6 DEF r, h

\* One part in order, then another whose events are all newer.
LEMMA AscendingConcat ==
    ASSUME NEW t, NEW q, Sequence(q), NEW r, Sequence(r), Ascending(t, q), Ascending(t, r),
           \A i \in DOMAIN r : EventOf(t, r[i]) => Below(t, q, r[i].seq)
    PROVE  Ascending(t, q \o r)
<1> DEFINE m == Len(q)
           n == Len(r)
           p == q \o r
<1>1. /\ m \in Nat /\ n \in Nat /\ DOMAIN q = 1..m /\ DOMAIN r = 1..n
      /\ DOMAIN p = 1..(m + n)
      /\ \A i \in 1..m : p[i] = q[i]
      /\ \A i \in 1..n : p[m + i] = r[i]
  BY SequenceConcat DEF Sequence
<1> HIDE DEF m, n, p
<1>2. ASSUME NEW i \in DOMAIN p, i \notin 1..m
      PROVE  i - m \in 1..n /\ p[i] = r[i - m] /\ i > m /\ i \in Nat
  <2>1. i - m \in 1..n /\ m + (i - m) = i /\ i > m /\ i \in Nat
    BY <1>1, <1>2
  <2> QED BY <1>1, <2>1
<1> SUFFICES ASSUME NEW i \in DOMAIN p, NEW j \in DOMAIN p, i < j,
                    EventOf(t, p[i]), EventOf(t, p[j])
             PROVE  p[i].seq < p[j].seq
  BY DEF Ascending, p
<1>3. CASE i \in 1..m /\ j \in 1..m
  BY <1>1, <1>3 DEF Ascending
<1>4. CASE i \in 1..m /\ j \notin 1..m
  BY <1>1, <1>2, <1>4 DEF Below
<1>5. CASE i \notin 1..m
  <2>1. i > m /\ i \in Nat /\ j \in Nat
    BY <1>1, <1>2, <1>5
  <2>2. j \notin 1..m
    BY <1>1, <2>1
  <2>3. i - m < j - m
    BY <1>1, <2>1
  <2> QED BY <1>1, <1>2, <1>5, <2>2, <2>3 DEF Ascending
<1> QED BY <1>3, <1>4, <1>5

\* The frames of a stream are issued events, or none.
LEMMA StreamIsIssued ==
    ASSUME DeliveryInvariant, NEW s \in Subs
    PROVE  /\ \A i \in DOMAIN queue[s] :
                 queue[s][i].type = "event" => queue[s][i].seq \in DOMAIN issued
           /\ \A i \in DOMAIN received[s] :
                 received[s][i].type = "event" => received[s][i].seq \in DOMAIN issued
  BY DEF DeliveryInvariant, QueueIsWanted, QueuedIsNew, EventFor, Numbers

\* Steps that leave the streams alone and at most drop what a thread had to send.
LEMMA DropsKeepOrder ==
    ASSUME OrderInvariant, DeliveryInvariant', Keeps, queue' = queue,
           \A s \in Subs : \/ received'[s] = received[s]
                          \/ \A i \in DOMAIN received'[s] : received'[s][i].type # "event",
           \A t \in Threads : /\ frames'[t] = frames[t] \/ frames'[t] = <<>>
                              /\ todo'[t] = todo[t] \/ todo'[t] = <<>>
    PROVE  OrderInvariant'
<1>1. \A i : i \notin DOMAIN <<>>
  OBVIOUS
<1>2. ASSUME NEW t \in Threads
      PROVE  /\ \A i : i \in DOMAIN frames'[t] => i \in DOMAIN frames[t] /\ frames'[t] = frames[t]
             /\ \A i : i \in DOMAIN todo'[t] => i \in DOMAIN todo[t] /\ todo'[t] = todo[t]
  BY <1>1
<1>3. ASSUME NEW t \in Threads
      PROVE  HandsOutInOrder(t)'
  <2>1. HandsOutInOrder(t)
    BY DEF OrderInvariant
  <2> QED BY <1>2, <2>1 DEF HandsOutInOrder
<1>4. ASSUME NEW t \in Threads, NEW s \in Subs
      PROVE  ReachesInOrder(t, s)'
  <2>1. ReachesInOrder(t, s) /\ DeliveryInvariant
    BY DEF OrderInvariant
  <2>2. \A i \in DOMAIN queue'[s] : EventOf(t, queue[s][i])' <=> EventOf(t, queue[s][i])
    BY <2>1, StreamIsIssued DEF EventOf, Keeps
  <2>3. Ascending(t, queue[s])'
    BY <2>1, <2>2 DEF ReachesInOrder, Ascending
  <2>4. ASSUME NEW i, i \in DOMAIN received'[s], EventOf(t, received[s][i])'
        PROVE  received'[s] = received[s] /\ EventOf(t, received[s][i])
    BY <2>1, <2>4, StreamIsIssued DEF EventOf, Keeps
  <2>5. Ascending(t, received[s])'
    BY <2>1, <2>4 DEF ReachesInOrder, Ascending
  <2>6. ASSUME NEW n, Below(t, received[s], n), NEW i \in DOMAIN received'[s],
               EventOf(t, received[s][i])'
        PROVE  received'[s][i].seq < n
    BY <2>4, <2>6 DEF Below
  <2>7. ASSUME NEW n, Below(t, queue[s], n), NEW i \in DOMAIN queue'[s],
               EventOf(t, queue[s][i])'
        PROVE  queue'[s][i].seq < n
    BY <2>2, <2>7 DEF Below
  <2>8. \A i \in DOMAIN queue'[s] :
           EventOf(t, queue[s][i])' => Below(t, received[s], queue[s][i].seq)'
    BY <2>1, <2>2, <2>6 DEF ReachesInOrder, Below
  <2>9. \A i \in DOMAIN frames'[t] :
           Below(t, received[s], frames[t][i].seq)' /\ Below(t, queue[s], frames[t][i].seq)'
    BY <1>2, <2>1, <2>6, <2>7 DEF ReachesInOrder, Below
  <2>10. \A i \in DOMAIN todo'[t] :
            s \in todo'[t][i].to /\ todo'[t][i].frame.type = "event" =>
            /\ Below(t, received[s], todo[t][i].frame.seq)'
            /\ Below(t, queue[s], todo[t][i].frame.seq)'
    BY <1>2, <2>1, <2>6, <2>7 DEF ReachesInOrder, Below
  <2> QED BY <2>3, <2>5, <2>8, <2>9, <2>10 DEF ReachesInOrder
<1> QED BY <1>3, <1>4 DEF OrderInvariant

\* New events are the newest of all, and stand in the order of their numbers.
LEMMA IssueKeepsOrder ==
    ASSUME OrderInvariant, DeliveryInvariant', NEW t \in Threads, frames[t] = <<>>,
           NEW deltas, Sequence(deltas), IssueEvents(t, deltas),
           UNCHANGED <<todo, subVars, queue>>
    PROVE  OrderInvariant'
<1>1. DeliveryInvariant /\ BusInvariant
  BY DEF OrderInvariant, DeliveryInvariant
<1>2. /\ \A q \in DOMAIN issued : q \in DOMAIN issued' /\ issued'[q] = issued[q]
      /\ \A u \in Threads : u # t => frames'[u] = frames[u]
  BY <1>1, IssueEventsFacts
<1>3. Keeps
  BY <1>2 DEF Keeps, subVars
<1>4. /\ nextEventSeq \in Nat \ {0} /\ Len(deltas) \in Nat
      /\ DOMAIN issued = 1..(nextEventSeq - 1)
      /\ DOMAIN frames = Threads
  BY <1>1 DEF BusInvariant, EventsAreNumbered, Sequence
<1>5. frames'[t] = RealizeEvents(nextEventSeq, deltas)
  BY <1>4 DEF IssueEvents
<1>6. /\ DOMAIN frames'[t] = 1..Len(deltas)
      /\ \A i \in 1..Len(deltas) : frames'[t][i].seq = nextEventSeq + i - 1
  BY <1>5 DEF RealizeEvents, EventFrame
<1>7. ASSUME NEW u \in Threads
      PROVE  HandsOutInOrder(u)'
  <2>1. HandsOutInOrder(u) /\ todo' = todo
    BY DEF OrderInvariant
  <2>2. \A i \in DOMAIN frames'[u], j \in DOMAIN frames'[u] :
           i < j => frames'[u][i].seq < frames'[u][j].seq
    <3>1. CASE u # t
      BY <1>2, <2>1, <3>1 DEF HandsOutInOrder
    <3>2. CASE u = t
      <4> SUFFICES ASSUME NEW i \in 1..Len(deltas), NEW j \in 1..Len(deltas), i < j
                   PROVE  frames'[t][i].seq < frames'[t][j].seq
        BY <1>6, <3>2
      <4>1. nextEventSeq + i - 1 < nextEventSeq + j - 1
        BY <1>4
      <4> QED BY <1>6, <4>1
    <3> QED BY <3>1, <3>2
  <2>3. DOMAIN frames'[u] \subseteq Nat \ {0}
    <3>1. CASE u # t
      BY <1>2, <2>1, <3>1 DEF HandsOutInOrder
    <3>2. CASE u = t
      BY <1>4, <1>6, <3>2
    <3> QED BY <3>1, <3>2
  <2>4. \A i \in DOMAIN todo'[u], j \in DOMAIN frames'[u] :
           todo'[u][i].frame.type = "event" => todo'[u][i].frame.seq < frames'[u][j].seq
    <3>1. CASE u # t
      BY <1>2, <2>1, <3>1 DEF HandsOutInOrder
    <3>2. CASE u = t
      <4>1. \A i \in DOMAIN todo[t] : todo[t][i].frame.type = "event" =>
               todo[t][i].frame.seq \in 1..(nextEventSeq - 1)
        BY <1>1, <1>4 DEF DeliveryInvariant, SendsOwn
      <4> QED BY <1>4, <1>6, <2>1, <3>2, <4>1
    <3> QED BY <3>1, <3>2
  <2> QED BY <2>1, <2>2, <2>3, <2>4 DEF HandsOutInOrder
<1>8. ASSUME NEW u \in Threads, NEW s \in Subs
      PROVE  ReachesInOrder(u, s)'
  <2>1. ReachesInOrder(u, s) /\ queue'[s] = queue[s] /\ received'[s] = received[s] /\ todo' = todo
    BY DEF OrderInvariant, subVars
  <2>2. /\ \A i \in DOMAIN queue[s] : EventOf(u, queue[s][i])' <=> EventOf(u, queue[s][i])
        /\ \A i \in DOMAIN received[s] :
              EventOf(u, received[s][i])' <=> EventOf(u, received[s][i])
    BY <1>1, <1>3, <2>1, StreamIsIssued DEF EventOf, Keeps
  <2>3. /\ Ascending(u, received[s])' /\ Ascending(u, queue[s])'
        /\ \A i \in DOMAIN queue'[s] :
              EventOf(u, queue[s][i])' => Below(u, received[s], queue[s][i].seq)'
        /\ \A i \in DOMAIN todo'[u] :
              s \in todo'[u][i].to /\ todo'[u][i].frame.type = "event" =>
              /\ Below(u, received[s], todo[u][i].frame.seq)'
              /\ Below(u, queue[s], todo[u][i].frame.seq)'
    BY <2>1, <2>2 DEF ReachesInOrder, Ascending, Below
  <2>4. \A i \in DOMAIN frames'[u] :
           Below(u, received[s], frames[u][i].seq)' /\ Below(u, queue[s], frames[u][i].seq)'
    <3>1. CASE u # t
      BY <1>2, <2>1, <2>2, <3>1 DEF ReachesInOrder, Below
    <3>2. CASE u = t
      <4>1. /\ \A i \in DOMAIN queue[s] :
                  EventOf(t, queue[s][i]) => queue[s][i].seq \in 1..(nextEventSeq - 1)
            /\ \A i \in DOMAIN received[s] :
                  EventOf(t, received[s][i]) => received[s][i].seq \in 1..(nextEventSeq - 1)
        BY <1>1, <1>4, StreamIsIssued DEF EventOf
      <4>2. \A i \in DOMAIN frames'[t] :
               /\ \A j \in DOMAIN queue[s] :
                     EventOf(t, queue[s][j]) => queue[s][j].seq < frames'[t][i].seq
               /\ \A j \in DOMAIN received[s] :
                     EventOf(t, received[s][j]) => received[s][j].seq < frames'[t][i].seq
        BY <1>4, <1>6, <4>1
      <4> QED BY <2>1, <2>2, <3>2, <4>2 DEF Below
    <3> QED BY <3>1, <3>2
  <2> QED BY <2>3, <2>4 DEF ReachesInOrder
<1> QED BY <1>7, <1>8 DEF OrderInvariant

\* A commit issues its events in order.
LEMMA CommitKeepsOrder ==
    ASSUME OrderInvariant, DeliveryInvariant', NEW t \in Threads, NEW command,
           Commit(t, command)
    PROVE  OrderInvariant'
<1> DEFINE deltas == Handle(command, runtimeState, styleFile).deltas
<1>1. Sequence(deltas)
  BY DeltasAreSequences
<1>2. /\ pc[t] = "idle" /\ IssueEvents(t, deltas)
      /\ UNCHANGED <<todo, subVars, queue>>
  BY DEF Commit
<1>3. frames[t] = <<>>
  BY <1>2 DEF OrderInvariant, DeliveryInvariant, BusInvariant, ThreadsHoldFrames
<1> HIDE DEF deltas
<1> QED BY <1>1, <1>2, <1>3, IssueKeepsOrder

\* So does the report of failed effects, after the events of the commit were sent.
LEMMA IssueStatusKeepsOrder ==
    ASSUME OrderInvariant, DeliveryInvariant', NEW t \in Threads, IssueStatus(t)
    PROVE  OrderInvariant'
<1> DEFINE deltas == [i \in 1..failed[t] |-> ActionFailed]
<1>1. Sequence(deltas)
  BY DEF Sequence, OrderInvariant, DeliveryInvariant, BusInvariant, ThreadsHoldFrames
<1>2. /\ pc[t] = "status" /\ IssueEvents(t, deltas)
      /\ UNCHANGED <<todo, subVars, queue>>
  BY DEF IssueStatus
<1>3. frames[t] = <<>>
  BY <1>2 DEF OrderInvariant, DeliveryInvariant, BusInvariant, ThreadsHoldFrames
<1> HIDE DEF deltas
<1> QED BY <1>1, <1>2, <1>3, IssueKeepsOrder

\* broadcastTopics sends no events.
LEMMA BroadcastTopicsKeepsOrder ==
    ASSUME OrderInvariant, DeliveryInvariant', NEW t \in Threads, BroadcastTopics(t)
    PROVE  OrderInvariant'
<1> DEFINE sent == [i \in DOMAIN topics[t] |->
                       [frame |-> StateFrame("state", topics[t][i]),
                        to |-> {s \in subscribers : WantsSnapshots(s, topics[t][i])}]]
<1>1. /\ todo' = [todo EXCEPT ![t] = sent]
      /\ UNCHANGED <<issued, frames, queue, received>>
  BY DEF BroadcastTopics, serverVars, subVars
<1>2. /\ todo'[t] = sent
      /\ \A u \in Threads : u # t => todo'[u] = todo[u]
  BY <1>1 DEF OrderInvariant, DeliveryInvariant, BusInvariant, ThreadsHoldFrames
<1>3. \A i \in DOMAIN sent : sent[i].frame.type # "event"
  BY DEF StateFrame
<1> HIDE DEF sent
<1>4. ASSUME NEW u \in Threads
      PROVE  HandsOutInOrder(u)'
  <2>1. HandsOutInOrder(u)
    BY DEF OrderInvariant
  <2> QED BY <1>1, <1>2, <1>3, <2>1 DEF HandsOutInOrder
<1>5. ASSUME NEW u \in Threads, NEW s \in Subs
      PROVE  ReachesInOrder(u, s)'
  <2>1. ReachesInOrder(u, s)
    BY DEF OrderInvariant
  <2>2. CASE u # t
    BY <1>1, <1>2, <2>1, <2>2 DEF ReachesInOrder, Ascending, Below, EventOf
  <2>3. CASE u = t
    BY <1>1, <1>2, <1>3, <2>1, <2>3 DEF ReachesInOrder, Ascending, Below, EventOf
  <2> QED BY <2>2, <2>3
<1> QED BY <1>4, <1>5 DEF OrderInvariant

\* What the thread held in order it sends in order.
LEMMA BroadcastEventsKeepsOrder ==
    ASSUME OrderInvariant, DeliveryInvariant', NEW t \in Threads, BroadcastEvents(t)
    PROVE  OrderInvariant'
<1> DEFINE sent == [i \in DOMAIN frames[t] |->
                       [frame |-> frames[t][i],
                        to |-> {s \in subscribers : WantsEvents(s, frames[t][i].topic)}]]
<1>1. /\ todo' = [todo EXCEPT ![t] = sent] /\ frames' = [frames EXCEPT ![t] = <<>>]
      /\ UNCHANGED <<issued, queue, received>>
  BY DEF BroadcastEvents, serverVars, subVars
<1>2. /\ todo'[t] = sent /\ frames'[t] = <<>>
      /\ \A u \in Threads : u # t => todo'[u] = todo[u] /\ frames'[u] = frames[u]
  BY <1>1 DEF OrderInvariant, DeliveryInvariant, BusInvariant, ThreadsHoldFrames,
              EventsAreNumbered
<1>3. DOMAIN sent = DOMAIN frames[t] /\ \A i \in DOMAIN sent : sent[i].frame = frames[t][i]
  OBVIOUS
<1> HIDE DEF sent
<1>4. \A i : i \notin DOMAIN <<>>
  OBVIOUS
<1>5. DOMAIN frames[t] \subseteq Nat \ {0}
  BY DEF OrderInvariant, HandsOutInOrder
<1>6. ASSUME NEW u \in Threads
      PROVE  HandsOutInOrder(u)'
  <2>1. HandsOutInOrder(u)
    BY DEF OrderInvariant
  <2> QED BY <1>1, <1>2, <1>3, <1>4, <1>5, <2>1 DEF HandsOutInOrder
<1>7. ASSUME NEW u \in Threads, NEW s \in Subs
      PROVE  ReachesInOrder(u, s)'
  <2>1. ReachesInOrder(u, s)
    BY DEF OrderInvariant
  <2>2. CASE u # t
    BY <1>1, <1>2, <2>1, <2>2 DEF ReachesInOrder, Ascending, Below, EventOf
  <2>3. CASE u = t
    BY <1>1, <1>2, <1>3, <1>4, <2>1, <2>3 DEF ReachesInOrder, Ascending, Below, EventOf
  <2> QED BY <2>2, <2>3
<1> QED BY <1>6, <1>7 DEF OrderInvariant

\* A frame goes to a subscription after every older event of its thread.
LEMMA SendFrameKeepsOrder ==
    ASSUME OrderInvariant, DeliveryInvariant', NEW t \in Threads, NEW r \in Subs,
           SendFrame(t, r)
    PROVE  OrderInvariant'
<1>1. PICK i \in DOMAIN todo[t] :
         /\ r \in todo[t][i].to
         /\ \A j \in 1..(i - 1) : todo[t][j].to = {}
         /\ queue' = [queue EXCEPT ![r] = Append(@, todo[t][i].frame)]
         /\ todo' = [todo EXCEPT ![t][i].to = @ \ {r}]
         /\ UNCHANGED <<issued, frames, subVars>>
  BY DEF SendFrame, serverVars
<1> DEFINE f == todo[t][i].frame
<1>2. /\ \A u \in Threads : DOMAIN todo'[u] = DOMAIN todo[u]
      /\ \A u \in Threads : u # t => todo'[u] = todo[u]
      /\ \A j \in DOMAIN todo[t] : j # i => todo'[t][j] = todo[t][j]
      /\ todo'[t][i] = [frame |-> todo[t][i].frame, to |-> todo[t][i].to \ {r}]
  <2>1. DOMAIN todo = Threads
    BY DEF OrderInvariant, DeliveryInvariant, BusInvariant, ThreadsHoldFrames
  <2>2. todo[t][i] = [frame |-> todo[t][i].frame, to |-> todo[t][i].to]
    BY DEF OrderInvariant, DeliveryInvariant, BusInvariant, ThreadsHoldFrames
  <2>3. [todo[t][i] EXCEPT !.to = @ \ {r}]
            = [frame |-> todo[t][i].frame, to |-> todo[t][i].to \ {r}]
    BY <2>2
  <2> QED BY <1>1, <2>1, <2>3
<1>3. \A u \in Threads : \A j \in DOMAIN todo'[u] :
         /\ j \in DOMAIN todo[u]
         /\ todo'[u][j].frame = todo[u][j].frame
         /\ todo'[u][j].to \subseteq todo[u][j].to
  BY <1>2
<1>4. /\ Sequence(queue[r]) /\ queue'[r] = Append(queue[r], f)
      /\ \A s \in Subs : s # r => queue'[s] = queue[s]
      /\ UNCHANGED <<issued, frames, received>>
  BY <1>1 DEF OrderInvariant, DeliveryInvariant, BusInvariant, SubscriptionsAreListed, subVars
<1>5. f.type = "event" => issued[f.seq].by = t
  BY DEF OrderInvariant, DeliveryInvariant, SendsOwn
<1>6. \A j \in DOMAIN todo'[t] :
         f.type = "event" /\ r \in todo'[t][j].to /\ todo[t][j].frame.type = "event"
         => f.seq < todo[t][j].frame.seq
  <2> SUFFICES ASSUME NEW j \in DOMAIN todo'[t], f.type = "event", r \in todo'[t][j].to,
                      todo[t][j].frame.type = "event"
               PROVE  f.seq < todo[t][j].frame.seq
    OBVIOUS
  <2>1. HandsOutInOrder(t)
    BY DEF OrderInvariant
  <2>2. j \in DOMAIN todo[t] /\ j # i /\ r \in todo[t][j].to
    BY <1>2, <1>3
  <2>3. i \in Nat \ {0} /\ j \in Nat \ {0}
    BY <2>1, <2>2 DEF HandsOutInOrder
  <2>4. j \notin 1..(i - 1)
    BY <1>1, <2>2
  <2>5. i < j
    BY <2>2, <2>3, <2>4
  <2> QED BY <2>1, <2>2, <2>5 DEF HandsOutInOrder
<1>7. ASSUME NEW u \in Threads
      PROVE  HandsOutInOrder(u)'
  <2>1. HandsOutInOrder(u) /\ DOMAIN todo'[u] = DOMAIN todo[u] /\ frames' = frames
    BY <1>2, <1>4 DEF OrderInvariant
  <2> QED BY <1>3, <2>1 DEF HandsOutInOrder
<1>8. ASSUME NEW u \in Threads, NEW s \in Subs
      PROVE  ReachesInOrder(u, s)'
  <2>1. ReachesInOrder(u, s) /\ ReachesInOrder(u, r) /\ HandsOutInOrder(u)
    BY DEF OrderInvariant
  <2>2. CASE s # r
    <3>1. queue'[s] = queue[s]
      BY <1>4, <2>2
    <3>2. \A q, n : /\ Below(u, q, n)' <=> Below(u, q, n)
                    /\ Ascending(u, q)' <=> Ascending(u, q)
      BY <1>4 DEF Below, Ascending, EventOf
    <3> QED BY <1>3, <1>4, <2>1, <3>1 DEF ReachesInOrder, Below, Ascending, EventOf
  <2>3. CASE s = r
    <3> DEFINE q == Append(queue[r], f)
    <3> HIDE DEF f
    <3>1. EventOf(u, f) => u = t /\ f.type = "event"
      BY <1>5 DEF EventOf
    <3>2. EventOf(u, f) => Below(u, queue[r], f.seq) /\ Below(u, received[r], f.seq)
      BY <1>1, <2>1, <3>1 DEF ReachesInOrder, f
    <3>3. Ascending(u, q)
      BY <1>4, <2>1, <3>2, AscendingAppend DEF ReachesInOrder
    <3>4. \A n : Below(u, queue[r], n) /\ (EventOf(u, f) => f.seq < n) => Below(u, q, n)
      BY <1>4, AscendingAppend
    <3>5. \A k \in DOMAIN q : EventOf(u, q[k]) => Below(u, received[r], q[k].seq)
      <4>1. \A k \in DOMAIN q :
               (k \in DOMAIN queue[r] /\ q[k] = queue[r][k]) \/ q[k] = f
        BY <1>4, SequenceAppend DEF Sequence
      <4> HIDE DEF q
      <4> QED BY <2>1, <3>2, <4>1 DEF ReachesInOrder
    <3>6. \A j \in DOMAIN frames[u] :
             Below(u, received[r], frames[u][j].seq) /\ Below(u, q, frames[u][j].seq)
      BY <1>1, <2>1, <3>1, <3>4 DEF ReachesInOrder, HandsOutInOrder, f
    <3>7. \A j \in DOMAIN todo'[u] :
             r \in todo'[u][j].to /\ todo'[u][j].frame.type = "event" =>
             /\ Below(u, received[r], todo'[u][j].frame.seq)
             /\ Below(u, q, todo'[u][j].frame.seq)
      BY <1>3, <1>6, <2>1, <3>1, <3>4 DEF ReachesInOrder
    <3>8. queue'[r] = q /\ received'[r] = received[r] /\ issued' = issued /\ frames' = frames
      BY <1>4
    <3> HIDE DEF q
    <3> QED BY <2>1, <2>3, <3>3, <3>5, <3>6, <3>7, <3>8
            DEF ReachesInOrder, Below, Ascending, EventOf
  <2> QED BY <2>2, <2>3
<1> QED BY <1>7, <1>8 DEF OrderInvariant

\* What leaves the queue is newer than what was received and older than what stays.
LEMMA DeliverKeepsOrder ==
    ASSUME OrderInvariant, DeliveryInvariant', NEW r \in Subs, Deliver(r)
    PROVE  OrderInvariant'
<1> DEFINE f == Head(queue[r])
           rest == Tail(queue[r])
<1>1. /\ queue[r] # <<>> /\ queue' = [queue EXCEPT ![r] = rest]
      /\ \/ received' = [received EXCEPT ![r] = Append(received[r], f)]
         \/ received' = received
      /\ UNCHANGED <<issued, frames, todo>>
  BY DEF Deliver, serverVars, threadVars
<1>2. /\ DOMAIN queue = Subs /\ Sequence(queue[r])
      /\ DOMAIN received = Subs /\ Sequence(received[r])
  BY DEF OrderInvariant, DeliveryInvariant, BusInvariant, SubscriptionsAreListed
<1>3. /\ queue'[r] = rest
      /\ \A s \in Subs : s # r => queue'[s] = queue[s] /\ received'[s] = received[s]
      /\ received'[r] = received[r] \/ received'[r] = Append(received[r], f)
  BY <1>1, <1>2
<1>4. ASSUME NEW u \in Threads
      PROVE  HandsOutInOrder(u)'
  BY <1>1 DEF OrderInvariant, HandsOutInOrder
<1>5. ASSUME NEW u \in Threads, NEW s \in Subs
      PROVE  ReachesInOrder(u, s)'
  <2>1. ReachesInOrder(u, s) /\ ReachesInOrder(u, r)
    BY DEF OrderInvariant
  <2>2. CASE s # r
    <3>1. /\ queue'[s] = queue[s] /\ received'[s] = received[s]
          /\ frames' = frames /\ todo' = todo /\ issued' = issued
      BY <1>1, <1>3, <2>2
    <3> HIDE DEF f, rest
    <3>2. (Ascending(u, received[s]) /\ Ascending(u, queue[s]))'
      <4>1. Ascending(u, received'[s]) /\ Ascending(u, queue'[s])
        BY <2>1, <3>1 DEF ReachesInOrder
      <4> QED BY <3>1, <4>1 DEF Ascending, EventOf
    <3>3. (\A i \in DOMAIN queue[s] :
              EventOf(u, queue[s][i]) => Below(u, received[s], queue[s][i].seq))'
      <4>1. \A i \in DOMAIN queue'[s] :
               EventOf(u, queue'[s][i]) => Below(u, received'[s], queue'[s][i].seq)
        BY <2>1, <3>1 DEF ReachesInOrder
      <4> QED BY <3>1, <4>1 DEF Below, EventOf
    <3>4. (\A i \in DOMAIN frames[u] :
              /\ Below(u, received[s], frames[u][i].seq)
              /\ Below(u, queue[s], frames[u][i].seq))'
      <4>1. \A i \in DOMAIN frames'[u] :
               /\ Below(u, received'[s], frames'[u][i].seq)
               /\ Below(u, queue'[s], frames'[u][i].seq)
        BY <2>1, <3>1 DEF ReachesInOrder
      <4> QED BY <3>1, <4>1 DEF Below, EventOf
    <3>5. (\A i \in DOMAIN todo[u] :
              s \in todo[u][i].to /\ todo[u][i].frame.type = "event" =>
              /\ Below(u, received[s], todo[u][i].frame.seq)
              /\ Below(u, queue[s], todo[u][i].frame.seq))'
      <4>1. \A i \in DOMAIN todo'[u] :
               s \in todo'[u][i].to /\ todo'[u][i].frame.type = "event" =>
               /\ Below(u, received'[s], todo'[u][i].frame.seq)
               /\ Below(u, queue'[s], todo'[u][i].frame.seq)
        BY <2>1, <3>1 DEF ReachesInOrder
      <4> QED BY <3>1, <4>1 DEF Below, EventOf
    <3> QED BY <3>2, <3>3, <3>4, <3>5 DEF ReachesInOrder
  <2>3. CASE s = r
    <3> DEFINE got == received'[r]
    <3>1. /\ Ascending(u, rest)
          /\ \A i \in DOMAIN rest : EventOf(u, f) /\ EventOf(u, rest[i]) => f.seq < rest[i].seq
          /\ \A n : Below(u, queue[r], n) =>
                Below(u, rest, n) /\ (EventOf(u, f) => f.seq < n)
          /\ \A i \in DOMAIN rest : \E j \in DOMAIN queue[r] : rest[i] = queue[r][j]
          /\ \E j \in DOMAIN queue[r] : f = queue[r][j]
      BY <1>1, <1>2, <2>1, AscendingTail DEF ReachesInOrder
    <3> HIDE DEF f, rest
    <3>2. EventOf(u, f) => Below(u, received[r], f.seq)
      BY <2>1, <3>1 DEF ReachesInOrder
    <3>3. Ascending(u, got)
      BY <1>2, <1>3, <2>1, <3>2, AscendingAppend DEF ReachesInOrder
    <3>4. \A n : Below(u, received[r], n) /\ (EventOf(u, f) => f.seq < n) => Below(u, got, n)
      BY <1>2, <1>3, AscendingAppend
    <3>5. \A i \in DOMAIN rest : EventOf(u, rest[i]) => Below(u, got, rest[i].seq)
      BY <2>1, <3>1, <3>4 DEF ReachesInOrder
    <3>6. \A i \in DOMAIN frames[u] :
             Below(u, got, frames[u][i].seq) /\ Below(u, rest, frames[u][i].seq)
      BY <2>1, <3>1, <3>4 DEF ReachesInOrder
    <3>7. \A i \in DOMAIN todo[u] :
             r \in todo[u][i].to /\ todo[u][i].frame.type = "event" =>
             Below(u, got, todo[u][i].frame.seq) /\ Below(u, rest, todo[u][i].frame.seq)
      BY <2>1, <3>1, <3>4 DEF ReachesInOrder
    <3>8. queue'[r] = rest /\ received'[r] = got /\ UNCHANGED <<issued, frames, todo>>
      BY <1>1, <1>3
    <3> HIDE DEF got
    <3> QED BY <2>3, <3>1, <3>3, <3>5, <3>6, <3>7, <3>8
            DEF ReachesInOrder, Below, Ascending, EventOf
  <2> QED BY <2>2, <2>3
<1> QED BY <1>4, <1>5 DEF OrderInvariant

\* Nothing has been issued or sent yet.
LEMMA InitOrder == Init => OrderInvariant
<1> SUFFICES ASSUME Init PROVE OrderInvariant
  OBVIOUS
<1>1. \A i : i \notin DOMAIN <<>>
  OBVIOUS
<1>2. \A t \in Threads : HandsOutInOrder(t)
  BY <1>1 DEF Init, HandsOutInOrder
<1>3. \A t \in Threads, s \in Subs : ReachesInOrder(t, s)
  BY <1>1 DEF Init, ReachesInOrder, Below, Ascending
<1> QED BY <1>2, <1>3, InitDelivery DEF OrderInvariant

LEMMA NextKeepsOrder == OrderInvariant /\ [Next]_vars => OrderInvariant'
<1> SUFFICES ASSUME OrderInvariant, [Next]_vars PROVE OrderInvariant'
  OBVIOUS
<1>1. DeliveryInvariant /\ DeliveryInvariant' /\ BusInvariant'
  BY NextKeepsDelivery DEF OrderInvariant, DeliveryInvariant
<1>2. ASSUME UNCHANGED <<issued, frames, todo, queue, received, phase, request>>
      PROVE  OrderInvariant'
  <2>1. Keeps
    BY <1>2 DEF Keeps
  <2> QED BY <1>1, <1>2, <2>1, DropsKeepOrder
<1>3. ASSUME NEW t \in Threads, NEW command, Commit(t, command) \/ CommitAborts(t, command)
      PROVE  OrderInvariant'
  <2>1. CASE Commit(t, command)
    BY <1>1, <2>1, CommitKeepsOrder
  <2>2. CASE CommitAborts(t, command)
    BY <1>2, <2>2 DEF CommitAborts, subVars
  <2> QED BY <1>3, <2>1, <2>2
<1>4. CASE \E c \in Clients : ClientCommand(c)
  BY <1>3, <1>4 DEF ClientCommand, Threads
<1>5. CASE \E p \in Producers : ProducerFrame(p)
  BY <1>3, <1>5 DEF ProducerFrame, Threads
<1>6. CASE FifoLine
  BY <1>3, <1>6 DEF FifoLine, Threads
<1>7. CASE FifoReopens \/ WriteLine \/ Rest \/ UNCHANGED vars
  BY <1>2, <1>7
  DEF FifoReopens, WriteLine, Rest, vars, serverVars, threadVars, subVars
<1>8. ASSUME NEW t \in Threads, HandlerStep(t)
      PROVE  OrderInvariant'
  <2>1. CASE EffectSucceeds(t) \/ EffectFails(t) \/ EffectThrows(t) \/ Finish(t)
    <3>1. /\ UNCHANGED <<issued, queue, subVars>>
          /\ \A u \in Threads : /\ frames'[u] = frames[u] \/ frames'[u] = <<>>
                                /\ todo'[u] = todo[u] \/ todo'[u] = <<>>
      <4>1. DOMAIN frames = Threads /\ DOMAIN todo = Threads
        BY <1>1 DEF DeliveryInvariant, BusInvariant, EventsAreNumbered, ThreadsHoldFrames
      <4> QED BY <2>1, <4>1
              DEF EffectSucceeds, EffectFails, EffectThrows, EffectOver, Finish, serverVars
    <3>2. Keeps /\ received' = received
      BY <3>1 DEF Keeps, subVars
    <3> QED BY <1>1, <3>1, <3>2, DropsKeepOrder
  <2>2. CASE BroadcastTopics(t)
    BY <1>1, <2>2, BroadcastTopicsKeepsOrder
  <2>3. CASE BroadcastEvents(t)
    BY <1>1, <2>3, BroadcastEventsKeepsOrder
  <2>4. CASE \E s \in Subs : SendFrame(t, s)
    BY <1>1, <2>4, SendFrameKeepsOrder
  <2>5. CASE IssueStatus(t)
    BY <1>1, <2>5, IssueStatusKeepsOrder
  <2> QED BY <1>8, <2>1, <2>2, <2>3, <2>4, <2>5 DEF HandlerStep
<1>9. ASSUME NEW s \in Subs, Register(s) \/ RemoveSubscriber(s)
      PROVE  OrderInvariant'
  <2>1. phase \in [Subs -> Phases] /\ DOMAIN request = Subs
    BY <1>1 DEF DeliveryInvariant, BusInvariant, SubscriptionsAreListed
  <2>2. /\ UNCHANGED <<issued, queue, received, frames, todo>>
        /\ phase'[s] # "absent"
        /\ phase[s] # "absent" => request'[s] = request[s]
        /\ \A r \in Subs : r # s => phase'[r] = phase[r] /\ request'[r] = request[r]
    BY <1>9, <2>1 DEF Register, RemoveSubscriber, serverVars, threadVars
  <2>3. Keeps
    BY <2>2 DEF Keeps
  <2> QED BY <1>1, <2>2, <2>3, DropsKeepOrder
<1>10. ASSUME NEW s \in Subs,
              SendInitialState(s) \/ SendInitialStyle(s) \/ Deliver(s) \/ PeerCloses(s)
       PROVE  OrderInvariant'
  <2>1. CASE SendInitialState(s) \/ SendInitialStyle(s)
    <3>1. /\ Numbers(received[s])' = {}
          /\ \A r \in Subs : r # s => received'[r] = received[r]
      BY <1>1, <2>1, SendInitialStateKeepsDelivery, SendInitialStyleKeepsDelivery
    <3>2. \A i \in DOMAIN received'[s] : received'[s][i].type # "event"
      BY <3>1 DEF Numbers
    <3>3. phase \in [Subs -> Phases] /\ UNCHANGED <<issued, frames, todo, queue, request>>
      BY <1>1, <2>1 DEF SendInitialState, SendInitialStyle, serverVars, threadVars,
                        DeliveryInvariant, BusInvariant, SubscriptionsAreListed
    <3>4. \A r \in Subs : phase[r] # "absent" => phase'[r] # "absent"
      BY <2>1, <3>3 DEF SendInitialState, SendInitialStyle
    <3>5. Keeps
      BY <3>3, <3>4 DEF Keeps
    <3>6. \A r \in Subs : \/ received'[r] = received[r]
                          \/ \A i \in DOMAIN received'[r] : received'[r][i].type # "event"
      BY <3>1, <3>2
    <3> QED BY <1>1, <3>3, <3>5, <3>6, DropsKeepOrder
  <2>2. CASE Deliver(s)
    BY <1>1, <2>2, DeliverKeepsOrder
  <2>3. CASE PeerCloses(s)
    BY <1>2, <2>3 DEF PeerCloses, serverVars, threadVars
  <2> QED BY <1>10, <2>1, <2>2, <2>3
<1> QED BY <1>4, <1>5, <1>6, <1>7, <1>8, <1>9, <1>10 DEF Next, SubscriptionStep

LEMMA OrderIsKept == Spec => []OrderInvariant
<1> QED BY InitOrder, NextKeepsOrder, PTL DEF Spec

\* The events of one thread (a client's connection, a producer's stream, the command
\* FIFO) reach every subscription in the order of their numbers and each at most once,
\* for any threads, subscriptions, requests and bounds: broadcastFrame writes frame by
\* frame and a queue is read from its front.
THEOREM ThreadsStayInOrder == Spec => []SourceOrder
<1>1. OrderInvariant => SourceOrder
  <2> SUFFICES ASSUME OrderInvariant, NEW s \in Subs, NEW t \in Threads
               PROVE  Ascending(t, Stream(s))
    BY DEF SourceOrder
  <2>1. Sequence(received[s]) /\ Sequence(queue[s])
    BY DEF OrderInvariant, DeliveryInvariant, BusInvariant, SubscriptionsAreListed
  <2>2. /\ Ascending(t, received[s]) /\ Ascending(t, queue[s])
        /\ \A i \in DOMAIN queue[s] :
              EventOf(t, queue[s][i]) => Below(t, received[s], queue[s][i].seq)
    BY DEF OrderInvariant, ReachesInOrder
  <2>3. Ascending(t, received[s] \o queue[s])
    BY <2>1, <2>2, AscendingConcat
  <2> QED BY <2>3 DEF Stream
<1> QED BY <1>1, OrderIsKept, PTL

-----------------------------------------------------------------------------
(* What the frames say and what the daemon shows *)

\* The frames in the hands of a thread, queued for a subscription or received by one.
Shown(f) ==
    \/ \E t \in Threads : \E i \in DOMAIN frames[t] : f = frames[t][i]
    \/ \E t \in Threads : \E i \in DOMAIN todo[t] : f = todo[t][i].frame
    \/ \E s \in Subs : \E i \in DOMAIN queue[s] : f = queue[s][i]
    \/ \E s \in Subs : \E i \in DOMAIN received[s] : f = received[s][i]

\* An event frame is the event its number names; only events have a number.
Honest(f) ==
    /\ f.type = "event" =>
          /\ f.seq \in DOMAIN issued
          /\ f.topic = issued[f.seq].topic
          /\ f.reset = issued[f.seq].reset
          /\ f.value = issued[f.seq].value
    /\ f.type # "event" => f.seq = 0

FramesAreHonest ==
    /\ \A t \in Threads : \A i \in DOMAIN frames[t] : Honest(frames[t][i])
    /\ \A t \in Threads : \A i \in DOMAIN todo[t] : Honest(todo[t][i].frame)
    /\ \A s \in Subs : \A i \in DOMAIN queue[s] : Honest(queue[s][i])
    /\ \A s \in Subs : \A i \in DOMAIN received[s] : Honest(received[s][i])

\* The newest RESET event of a topic carries the topic's entries.
NewestEventIsCurrent ==
    \A q \in DOMAIN issued :
        /\ issued[q].reset /\ issued[q].topic # "session"
        /\ \A p \in DOMAIN issued :
              issued[p].reset /\ issued[p].topic = issued[q].topic => p <= q
        => issued[q].value = Current(issued[q].topic)

\* The RESET events of a topic since the registration of s.
ResetsSince(s, topic) ==
    {q \in DOMAIN issued :
        q >= registeredAt[s] /\ issued[q].reset /\ issued[q].topic = topic}

\* s has the initial entries of the topic, which hold until the first of those.
InitialHolds(s, topic) ==
    \E i \in DOMAIN received[s] :
        /\ received[s][i].topic = topic /\ received[s][i].reset /\ received[s][i].seq = 0
        /\ received[s][i].value = Current(topic) \/ ResetsSince(s, topic) # {}

Bootstrapped(s) ==
    /\ phase[s] \in {"initial", "streaming"}
    /\ request[s].mode = "events" /\ request[s].bootstrap

\* Without exceptions, which change style.env behind the state's back.
NothingLost ==
    /\ NewestEventIsCurrent
    /\ \A s \in Subs : Bootstrapped(s) =>
          \A topic \in Range(request[s].topics) \ {"session"} : InitialHolds(s, topic)
    /\ \A t \in Threads : pc[t] # "dead"

CurrentInvariant ==
    /\ DeliveryInvariant
    /\ CountsAreNumbers
    /\ Shaped(runtimeState) /\ Planned(runtimeState)
    /\ FramesAreHonest
    /\ \A s \in Subs : registeredAt[s] <= nextEventSeq
    /\ faults = 0 => NothingLost

\* FramesAreHonest, said of every frame.
LEMMA ShownAreHonest == FramesAreHonest <=> \A f : Shown(f) => Honest(f)
  BY DEF FramesAreHonest, Shown

\* Steps that issue nothing and change neither state nor file.
LEMMA MovesStayCurrent ==
    ASSUME CurrentInvariant, DeliveryInvariant', CountsAreNumbers',
           UNCHANGED <<runtimeState, styleFile, issued, nextEventSeq>>,
           \A f : Shown(f)' => Shown(f) \/ (f.type # "event" /\ f.seq = 0),
           faults' = 0 => faults = 0 /\ \A t \in Threads : pc'[t] = "dead" => pc[t] = "dead",
           \A s \in Subs : registeredAt'[s] \in {registeredAt[s], nextEventSeq},
           faults' = 0 => \A s \in Subs : Bootstrapped(s)' =>
              \/ /\ Bootstrapped(s) /\ request'[s] = request[s]
                 /\ registeredAt'[s] = registeredAt[s]
                 /\ \A i \in DOMAIN received[s] :
                       i \in DOMAIN received'[s] /\ received'[s][i] = received[s][i]
              \/ \A topic \in Range(request'[s].topics) \ {"session"} : InitialHolds(s, topic)'
    PROVE  CurrentInvariant'
<1>1. (Shaped(runtimeState) /\ Planned(runtimeState))'
  BY DEF CurrentInvariant
<1>2. FramesAreHonest'
  <2>1. \A f : Honest(f)' <=> Honest(f)
    BY DEF Honest
  <2>2. \A f : Shown(f) => Honest(f)
    BY ShownAreHonest DEF CurrentInvariant
  <2>3. \A f : (f.type # "event" /\ f.seq = 0) => Honest(f)
    BY DEF Honest
  <2>4. \A f : Shown(f)' => Honest(f)'
    BY <2>1, <2>2, <2>3
  <2>5. (FramesAreHonest <=> \A f : Shown(f) => Honest(f))'
    BY ShownAreHonest, PTL
  <2> QED BY <2>4, <2>5
<1>3. \A s \in Subs : registeredAt'[s] <= nextEventSeq'
  BY DEF CurrentInvariant, DeliveryInvariant, BusInvariant, EventsAreNumbered
<1>4. ASSUME faults' = 0
      PROVE  NothingLost'
  <2>1. NothingLost /\ \A t \in Threads : pc'[t] = "dead" => pc[t] = "dead"
    BY <1>4 DEF CurrentInvariant
  <2>2. \A topic : Current(topic)' = Current(topic)
    BY DEF Current
  <2>3. NewestEventIsCurrent'
    BY <2>1, <2>2 DEF NothingLost, NewestEventIsCurrent
  <2>4. ASSUME NEW s \in Subs, Bootstrapped(s)',
               NEW topic \in Range(request'[s].topics) \ {"session"}
        PROVE  InitialHolds(s, topic)'
    <3>1. CASE /\ Bootstrapped(s) /\ request'[s] = request[s]
               /\ registeredAt'[s] = registeredAt[s]
               /\ \A i \in DOMAIN received[s] :
                     i \in DOMAIN received'[s] /\ received'[s][i] = received[s][i]
      <4>1. InitialHolds(s, topic)
        BY <2>1, <2>4, <3>1 DEF NothingLost
      <4>2. ResetsSince(s, topic)' = ResetsSince(s, topic)
        BY <3>1 DEF ResetsSince
      <4> QED BY <2>2, <3>1, <4>1, <4>2 DEF InitialHolds
    <3> QED BY <1>4, <2>4, <3>1
  <2> QED BY <2>1, <2>3, <2>4 DEF NothingLost
<1> QED BY <1>1, <1>2, <1>3, <1>4 DEF CurrentInvariant

\* The topics of a subscription are topics of the daemon.
LEMMA WantedAreTopics ==
    ASSUME BusInvariant, NEW s \in Subs
    PROVE  IsList(request[s].topics) /\ Range(request[s].topics) \subseteq Topics
<1>1. request[s] \in SubRequests \cup {NoRequest}
  BY DEF BusInvariant, SubscriptionsAreListed
<1>2. CASE request[s] \in SubRequests
  <2>1. SubRequests \subseteq [mode: Modes, bootstrap: BOOLEAN, topics: Seq(Topics) \ {<<>>}]
    BY RuntimeDaemonAssumption
  <2>2. request[s] \in [mode: Modes, bootstrap: BOOLEAN, topics: Seq(Topics) \ {<<>>}]
    BY <1>2, <2>1
  <2>3. request[s].topics \in Seq(Topics)
    BY <2>2
  <2> QED BY <2>3, SeqIsList
<1>3. CASE request[s] = NoRequest
  BY <1>3, EmptyList DEF NoRequest
<1> QED BY <1>1, <1>2, <1>3

\* Steps that issue the events of what they change.
LEMMA IssueStaysCurrent ==
    ASSUME CurrentInvariant, DeliveryInvariant', CountsAreNumbers',
           NEW t \in Threads, frames[t] = <<>>,
           NEW deltas, Sequence(deltas), IssueEvents(t, deltas),
           Shaped(runtimeState'), Planned(runtimeState'),
           \A i \in 1..Len(deltas) : deltas[i].reset =>
              deltas[i].value = TopicEntries(deltas[i].topic, runtimeState', styleFile'),
           \A topic \in Topics \ {"session"} : Current(topic)' # Current(topic) =>
              \E i \in 1..Len(deltas) : deltas[i].reset /\ deltas[i].topic = topic,
           UNCHANGED <<todo, subVars, queue, faults>>,
           \A u \in Threads : pc'[u] # "dead" \/ pc[u] = "dead"
    PROVE  CurrentInvariant'
<1> DEFINE n == nextEventSeq
           m == Len(deltas)
<1>1. DeliveryInvariant /\ BusInvariant
  BY DEF CurrentInvariant, DeliveryInvariant
<1>2. /\ DOMAIN issued' = 1..(n - 1 + m) /\ DOMAIN issued = 1..(n - 1)
      /\ n \in Nat \ {0} /\ m \in Nat
      /\ \A q \in 1..(n - 1) : issued'[q] = issued[q]
      /\ \A i \in 1..m : issued'[n - 1 + i] = Entry(t, deltas[i])
  BY <1>1, IssuedLog
<1>3. /\ frames'[t] = RealizeEvents(n, deltas) /\ nextEventSeq' = n + m
      /\ \A u \in Threads : u # t => frames'[u] = frames[u]
      /\ UNCHANGED <<todo, queue, received, request, registeredAt, phase>>
  BY <1>1 DEF IssueEvents, subVars, BusInvariant, EventsAreNumbered
<1> HIDE DEF n, m
<1>9. ASSUME NEW i \in 1..m
      PROVE  /\ issued'[n - 1 + i].reset = deltas[i].reset
             /\ issued'[n - 1 + i].topic = deltas[i].topic
             /\ issued'[n - 1 + i].value = deltas[i].value
  <2>1. issued'[n - 1 + i] = Entry(t, deltas[i])
    BY <1>2
  <2> QED BY <2>1 DEF Entry
<1>10. ASSUME NEW q \in DOMAIN issued', q \notin DOMAIN issued
       PROVE  \E i \in 1..m : q = n - 1 + i
  <2>1. q - n + 1 \in 1..m /\ n - 1 + (q - n + 1) = q
    BY <1>2, <1>10
  <2> QED BY <2>1
<1>5. /\ DOMAIN frames'[t] = 1..m
      /\ \A i \in 1..m : frames'[t][i] = EventFrame(n + i - 1, deltas[i])
  BY <1>3 DEF RealizeEvents, m
<1>6. FramesAreHonest'
  <2>1. \A f : Honest(f) => Honest(f)'
    BY <1>2 DEF Honest
  <2>2. ASSUME NEW i \in 1..m
        PROVE  Honest(frames[t][i])'
    <3>1. n - 1 + i \in DOMAIN issued' /\ n + i - 1 = n - 1 + i
      <4>1. DOMAIN issued' = 1..(n - 1 + m) /\ n \in Nat \ {0} /\ m \in Nat
        BY <1>2
      <4> QED BY <4>1
    <3>2. /\ frames'[t][i].type = "event" /\ frames'[t][i].seq = n - 1 + i
          /\ frames'[t][i].topic = deltas[i].topic
          /\ frames'[t][i].reset = deltas[i].reset
          /\ frames'[t][i].value = deltas[i].value
      <4>1. frames'[t][i] = EventFrame(n - 1 + i, deltas[i])
        BY <1>5, <3>1
      <4> QED BY <4>1 DEF EventFrame
    <3> QED BY <1>9, <3>1, <3>2 DEF Honest
  <2> QED BY <1>3, <1>5, <2>1, <2>2 DEF CurrentInvariant, FramesAreHonest
<1>7. \A s \in Subs : registeredAt'[s] \in Nat /\ registeredAt'[s] <= n
                      /\ registeredAt'[s] <= nextEventSeq'
  BY <1>1, <1>2, <1>3
  DEF CurrentInvariant, BusInvariant, SubscriptionsAreListed, n
<1>8. ASSUME faults' = 0
      PROVE  NothingLost'
  <2>1. NothingLost
    BY <1>8 DEF CurrentInvariant
  <2>2. \A i \in 1..m : deltas[i].reset => deltas[i].value = Current(deltas[i].topic)'
    BY DEF Current, m
  <2>3. NewestEventIsCurrent'
    <3> SUFFICES ASSUME NEW q \in DOMAIN issued', issued'[q].reset,
                        issued'[q].topic # "session",
                        \A p \in DOMAIN issued' :
                           issued'[p].reset /\ issued'[p].topic = issued'[q].topic => p <= q
                 PROVE  issued'[q].value = Current(issued[q].topic)'
      BY DEF NewestEventIsCurrent
    <3>1. CASE q \notin DOMAIN issued
      <4>1. PICK i \in 1..m : q = n - 1 + i
        BY <1>10, <3>1
      <4>2. issued'[q].reset = deltas[i].reset
        BY <1>9, <4>1
      <4>3. issued'[q].value = deltas[i].value /\ issued'[q].topic = deltas[i].topic
        BY <1>9, <4>1
      <4>4. deltas[i].value = Current(deltas[i].topic)'
        BY <2>2, <4>2
      <4> QED BY <4>3, <4>4
    <3>2. CASE q \in DOMAIN issued
      <4>1. issued'[q] = issued[q] /\ q <= n - 1 /\ issued[q].topic \in Topics
        BY <1>1, <1>2, <3>2 DEF DeliveryInvariant, TopicsAreKnown
      <4>2. issued[q].value = Current(issued[q].topic)
        BY <1>2, <2>1, <3>2, <4>1 DEF NothingLost, NewestEventIsCurrent
      <4>3. ASSUME NEW i \in 1..m, deltas[i].reset, deltas[i].topic = issued[q].topic
            PROVE  FALSE
        <5>1. n - 1 + i \in DOMAIN issued' /\ n - 1 + i > q
          BY <1>2, <4>1
        <5>2. issued'[n - 1 + i].reset /\ issued'[n - 1 + i].topic = issued'[q].topic
          BY <1>9, <4>1, <4>3
        <5>3. n - 1 + i <= q
          BY <5>1, <5>2
        <5> QED BY <1>2, <3>2, <5>1, <5>3
      <4>4. Current(issued[q].topic)' = Current(issued[q].topic)
        BY <4>1, <4>3 DEF m
      <4> QED BY <4>1, <4>2, <4>4
    <3> QED BY <3>1, <3>2
  <2>4. ASSUME NEW s \in Subs, Bootstrapped(s)',
               NEW topic \in Range(request'[s].topics) \ {"session"}
        PROVE  InitialHolds(s, topic)'
    <3>1. InitialHolds(s, topic)
      BY <1>3, <2>1, <2>4 DEF NothingLost, Bootstrapped
    <3>2. ResetsSince(s, topic) \subseteq ResetsSince(s, topic)'
      BY <1>2, <1>3 DEF ResetsSince
    <3>3. CASE \E i \in 1..m : deltas[i].reset /\ deltas[i].topic = topic
      <4>1. PICK i \in 1..m : deltas[i].reset /\ deltas[i].topic = topic
        BY <3>3
      <4>2. n - 1 + i \in DOMAIN issued' /\ n - 1 + i >= registeredAt'[s]
        BY <1>2, <1>7
      <4>3. n - 1 + i \in ResetsSince(s, topic)'
        BY <1>9, <4>1, <4>2 DEF ResetsSince
      <4> QED BY <1>3, <3>1, <4>3 DEF InitialHolds
    <3>4. CASE ~ \E i \in 1..m : deltas[i].reset /\ deltas[i].topic = topic
      <4>1. topic \in Topics
        BY <1>1, <1>3, <2>4, WantedAreTopics
      <4>2. Current(topic)' = Current(topic)
        BY <3>4, <4>1 DEF m
      <4> QED BY <1>3, <3>1, <3>2, <4>2 DEF InitialHolds
    <3> QED BY <3>3, <3>4
  <2> QED BY <2>1, <2>3, <2>4 DEF NothingLost
<1> QED BY <1>6, <1>7, <1>8 DEF CurrentInvariant

\* A commit announces what it changes.
LEMMA CommitStaysCurrent ==
    ASSUME CurrentInvariant, DeliveryInvariant', CountsAreNumbers', NEW t \in Threads,
           NEW command, Commit(t, command)
    PROVE  CurrentInvariant'
<1> DEFINE result == Handle(command, runtimeState, styleFile)
           deltas == result.deltas
<1>1. Sequence(deltas)
  BY DeltasAreSequences
<1>2. /\ pc[t] = "idle" /\ IssueEvents(t, deltas)
      /\ runtimeState' = result.state /\ styleFile' = result.file
      /\ pc' = [pc EXCEPT ![t] = IF result.effects = <<>> THEN "topics" ELSE "effects"]
      /\ UNCHANGED <<todo, subVars, queue, faults>>
  BY DEF Commit
<1>3. frames[t] = <<>> /\ \A u \in Threads : pc'[u] # "dead" \/ pc[u] = "dead"
  BY <1>2 DEF CurrentInvariant, DeliveryInvariant, BusInvariant, ThreadsHoldFrames
<1>4. Shaped(runtimeState') /\ Planned(runtimeState')
  BY <1>2, HandlersFollow DEF CurrentInvariant, Follows
<1>5. \A i \in 1..Len(deltas) : deltas[i].reset =>
         deltas[i] = ResetDelta(deltas[i].topic, runtimeState', styleFile')
  BY <1>2, ResetsAreNew
<1>6. Announces(result, runtimeState, styleFile)
  BY HandlersAnnounce DEF CurrentInvariant
<1>7. \A topic \in Topics \ {"session"} : Current(topic)' # Current(topic) =>
         ResetDelta(topic, runtimeState', styleFile') \in Range(deltas)
  BY <1>2, <1>6 DEF Announces, Current
<1> HIDE DEF result, deltas
<1>8. \A topic, r, f : /\ ResetDelta(topic, r, f).topic = topic
                       /\ ResetDelta(topic, r, f).reset
                       /\ ResetDelta(topic, r, f).value = TopicEntries(topic, r, f)
  BY DEF ResetDelta
<1>9. \A i \in 1..Len(deltas) : deltas[i].reset =>
         deltas[i].value = TopicEntries(deltas[i].topic, runtimeState', styleFile')
  BY <1>5, <1>8
<1>10. ASSUME NEW topic \in Topics \ {"session"}, Current(topic)' # Current(topic)
       PROVE  \E i \in 1..Len(deltas) : deltas[i].reset /\ deltas[i].topic = topic
  <2>1. PICK i \in DOMAIN deltas : deltas[i] = ResetDelta(topic, runtimeState', styleFile')
    BY <1>7, <1>10 DEF Range
  <2>2. i \in 1..Len(deltas)
    BY <1>1, <2>1 DEF Sequence
  <2>3. deltas[i].reset /\ deltas[i].topic = topic
    BY <1>8, <2>1
  <2> QED BY <2>2, <2>3
<1> QED BY <1>1, <1>2, <1>3, <1>4, <1>9, <1>10, IssueStaysCurrent

\* The report of failed effects changes nothing.
LEMMA IssueStatusStaysCurrent ==
    ASSUME CurrentInvariant, DeliveryInvariant', CountsAreNumbers', NEW t \in Threads,
           IssueStatus(t)
    PROVE  CurrentInvariant'
<1> DEFINE deltas == [i \in 1..failed[t] |-> ActionFailed]
<1>1. failed[t] \in Nat /\ pc \in [Threads -> PCs] /\ (frames[t] # <<>> => pc[t] # "status")
  BY DEF CurrentInvariant, DeliveryInvariant, BusInvariant, ThreadsHoldFrames
<1>2. Sequence(deltas) /\ Len(deltas) = failed[t]
  BY <1>1 DEF Sequence
<1>3. \A i \in 1..failed[t] : deltas[i] = ActionFailed
  OBVIOUS
<1>4. /\ pc[t] = "status" /\ IssueEvents(t, deltas)
      /\ UNCHANGED <<runtimeState, styleFile>>
      /\ pc' = [pc EXCEPT ![t] = "events"]
      /\ UNCHANGED <<todo, subVars, queue, faults>>
  BY DEF IssueStatus
<1> HIDE DEF deltas
<1>5. \A i \in 1..Len(deltas) : ~ deltas[i].reset
  BY <1>2, <1>3 DEF ActionFailed
<1>6. \A topic : Current(topic)' = Current(topic)
  BY <1>4 DEF Current
<1>7. \A u \in Threads : pc'[u] # "dead" \/ pc[u] = "dead"
  BY <1>1, <1>4
<1>8. Shaped(runtimeState') /\ Planned(runtimeState')
  BY <1>4 DEF CurrentInvariant
<1> QED BY <1>1, <1>2, <1>4, <1>5, <1>6, <1>7, <1>8, IssueStaysCurrent

\* An aborted commit leaves the state and the frames alone.
LEMMA AbortStaysCurrent ==
    ASSUME CurrentInvariant, DeliveryInvariant', CountsAreNumbers', NEW t \in Threads,
           NEW command, CommitAborts(t, command)
    PROVE  CurrentInvariant'
<1>1. /\ faults' = faults + 1
      /\ UNCHANGED <<runtimeState, nextEventSeq, issued, frames, todo, subVars, queue>>
  BY DEF CommitAborts
<1>2. faults' # 0
  BY <1>1 DEF CurrentInvariant, CountsAreNumbers
<1>3. \A f : Honest(f)' <=> Honest(f)
  BY <1>1 DEF Honest
<1>4. FramesAreHonest'
  BY <1>1, <1>3 DEF CurrentInvariant, FramesAreHonest, subVars
<1> QED BY <1>1, <1>2, <1>4 DEF CurrentInvariant, subVars

\* The steps of a handler that issue nothing only pass frames on, or drop them.
LEMMA HandlerStaysCurrent ==
    ASSUME CurrentInvariant, DeliveryInvariant', CountsAreNumbers', NEW t \in Threads,
           HandlerStep(t)
    PROVE  CurrentInvariant'
<1>1. /\ DeliveryInvariant /\ BusInvariant /\ faults \in Nat
      /\ DOMAIN frames = Threads /\ DOMAIN todo = Threads /\ pc \in [Threads -> PCs]
      /\ DOMAIN queue = Subs
  BY DEF CurrentInvariant, DeliveryInvariant, BusInvariant, EventsAreNumbered,
         ThreadsHoldFrames, SubscriptionsAreListed, CountsAreNumbers
<1>2. ASSUME UNCHANGED <<serverVars, subVars>>,
             faults' = 0 => faults = 0 /\ \A u \in Threads : pc'[u] = "dead" => pc[u] = "dead",
             \A f : Shown(f)' => Shown(f) \/ (f.type # "event" /\ f.seq = 0)
      PROVE  CurrentInvariant'
  <2>1. \A s \in Subs : registeredAt'[s] \in {registeredAt[s], nextEventSeq}
    BY <1>2 DEF subVars
  <2>2. \A s \in Subs : Bootstrapped(s)' =>
           /\ Bootstrapped(s) /\ request'[s] = request[s]
           /\ registeredAt'[s] = registeredAt[s]
           /\ \A i \in DOMAIN received[s] :
                 i \in DOMAIN received'[s] /\ received'[s][i] = received[s][i]
    BY <1>2 DEF Bootstrapped, subVars
  <2>3. UNCHANGED <<runtimeState, styleFile, issued, nextEventSeq>>
    BY <1>2 DEF serverVars
  <2> QED BY <1>2, <2>1, <2>2, <2>3, MovesStayCurrent
<1>3. CASE EffectSucceeds(t) \/ EffectFails(t) \/ EffectThrows(t) \/ Finish(t)
  <2>1. /\ UNCHANGED <<serverVars, subVars, queue>>
        /\ \A u \in Threads : /\ frames'[u] = frames[u] \/ frames'[u] = <<>>
                              /\ todo'[u] = todo[u] \/ todo'[u] = <<>>
    BY <1>1, <1>3
    DEF EffectSucceeds, EffectFails, EffectThrows, EffectOver, Finish
  <2>2. \A i : i \notin DOMAIN <<>>
    OBVIOUS
  <2>3. \A f : Shown(f)' => Shown(f)
    BY <2>1, <2>2 DEF Shown, subVars
  <2>4. faults' = 0 => faults = 0 /\ \A u \in Threads : pc'[u] = "dead" => pc[u] = "dead"
    BY <1>1, <1>3
    DEF EffectSucceeds, EffectFails, EffectThrows, EffectOver, Finish
  <2> QED BY <1>2, <2>1, <2>3, <2>4
<1>4. CASE BroadcastTopics(t)
  <2> DEFINE sent == [i \in DOMAIN topics[t] |->
                         [frame |-> StateFrame("state", topics[t][i]),
                          to |-> {s \in subscribers : WantsSnapshots(s, topics[t][i])}]]
  <2>1. /\ UNCHANGED <<serverVars, subVars, queue, frames, faults>>
        /\ todo' = [todo EXCEPT ![t] = sent]
        /\ pc' = [pc EXCEPT ![t] = "events"]
    BY <1>4 DEF BroadcastTopics
  <2>2. \A i \in DOMAIN sent : sent[i].frame.type # "event" /\ sent[i].frame.seq = 0
    BY DEF StateFrame
  <2> HIDE DEF sent
  <2>3. \A u \in Threads : todo'[u] = todo[u] \/ todo'[u] = sent
    BY <1>1, <2>1
  <2>4. ASSUME NEW f, Shown(f)'
        PROVE  Shown(f) \/ (f.type # "event" /\ f.seq = 0)
    <3>1. CASE \E u \in Threads : \E i \in DOMAIN todo'[u] : f = todo'[u][i].frame
      BY <2>2, <2>3, <3>1 DEF Shown
    <3> QED BY <2>1, <2>4, <3>1 DEF Shown, subVars
  <2>5. \A u \in Threads : pc'[u] = "dead" => pc[u] = "dead"
    BY <1>1, <2>1
  <2> QED BY <1>2, <2>1, <2>4, <2>5
<1>5. CASE BroadcastEvents(t)
  <2> DEFINE sent == [i \in DOMAIN frames[t] |->
                         [frame |-> frames[t][i],
                          to |-> {s \in subscribers : WantsEvents(s, frames[t][i].topic)}]]
  <2>1. /\ UNCHANGED <<serverVars, subVars, queue, faults>>
        /\ todo' = [todo EXCEPT ![t] = sent] /\ frames' = [frames EXCEPT ![t] = <<>>]
        /\ pc' = [pc EXCEPT ![t] = "status"]
    BY <1>5 DEF BroadcastEvents
  <2>2. \A i \in DOMAIN sent : i \in DOMAIN frames[t] /\ sent[i].frame = frames[t][i]
    OBVIOUS
  <2> HIDE DEF sent
  <2>3. \A i : i \notin DOMAIN <<>>
    OBVIOUS
  <2>4. \A u \in Threads : /\ todo'[u] = todo[u] \/ (u = t /\ todo'[u] = sent)
                           /\ frames'[u] = frames[u] \/ frames'[u] = <<>>
    BY <1>1, <2>1
  <2>5. ASSUME NEW f, Shown(f)'
        PROVE  Shown(f)
    <3>1. CASE \E u \in Threads : \E i \in DOMAIN todo'[u] : f = todo'[u][i].frame
      BY <2>2, <2>4, <3>1 DEF Shown
    <3>2. CASE \E u \in Threads : \E i \in DOMAIN frames'[u] : f = frames'[u][i]
      BY <2>3, <2>4, <3>2 DEF Shown
    <3> QED BY <2>1, <2>5, <3>1, <3>2 DEF Shown, subVars
  <2>6. \A u \in Threads : pc'[u] = "dead" => pc[u] = "dead"
    BY <1>1, <2>1
  <2> QED BY <1>2, <2>1, <2>5, <2>6
<1>6. ASSUME NEW r \in Subs, SendFrame(t, r)
      PROVE  CurrentInvariant'
  <2>1. PICK i \in DOMAIN todo[t] :
           /\ queue' = [queue EXCEPT ![r] = Append(queue[r], todo[t][i].frame)]
           /\ todo' = [todo EXCEPT ![t][i].to = @ \ {r}]
           /\ UNCHANGED <<serverVars, pc, frames, subVars, faults>>
    BY <1>6 DEF SendFrame
  <2>2. \A u \in Threads : \A j \in DOMAIN todo'[u] :
           j \in DOMAIN todo[u] /\ todo'[u][j].frame = todo[u][j].frame
    <3>1. /\ \A u \in Threads : DOMAIN todo'[u] = DOMAIN todo[u]
          /\ \A u \in Threads : u # t => todo'[u] = todo[u]
          /\ \A j \in DOMAIN todo[t] : j # i => todo'[t][j] = todo[t][j]
          /\ todo'[t][i] = [todo[t][i] EXCEPT !.to = @ \ {r}]
      BY <1>1, <2>1
    <3>2. todo[t][i] = [frame |-> todo[t][i].frame, to |-> todo[t][i].to]
      BY <1>1 DEF BusInvariant, ThreadsHoldFrames
    <3>3. todo'[t][i].frame = todo[t][i].frame
      BY <3>1, <3>2
    <3> QED BY <3>1, <3>3
  <2>3. /\ Sequence(queue[r]) /\ queue'[r] = Append(queue[r], todo[t][i].frame)
        /\ \A s \in Subs : s # r => queue'[s] = queue[s]
    BY <1>1, <2>1 DEF BusInvariant, SubscriptionsAreListed
  <2>4. \A k \in DOMAIN queue'[r] :
           (k \in DOMAIN queue[r] /\ queue'[r][k] = queue[r][k])
           \/ queue'[r][k] = todo[t][i].frame
    BY <2>3, SequenceAppend DEF Sequence
  <2>5. ASSUME NEW f, Shown(f)'
        PROVE  Shown(f)
    <3>1. CASE \E u \in Threads : \E j \in DOMAIN todo'[u] : f = todo'[u][j].frame
      BY <2>2, <3>1 DEF Shown
    <3>2. CASE \E s \in Subs : \E k \in DOMAIN queue'[s] : f = queue'[s][k]
      BY <2>3, <2>4, <3>2 DEF Shown
    <3> QED BY <2>1, <2>5, <3>1, <3>2 DEF Shown, subVars
  <2> QED BY <1>2, <2>1, <2>5
<1>7. CASE IssueStatus(t)
  BY <1>7, IssueStatusStaysCurrent
<1> QED BY <1>3, <1>4, <1>5, <1>6, <1>7 DEF HandlerStep

\* A subscription registers after every event so far, and starts from the state as it is.
LEMMA SubscriptionStaysCurrent ==
    ASSUME CurrentInvariant, DeliveryInvariant', CountsAreNumbers', NEW s \in Subs,
           Register(s) \/ SubscriptionStep(s) \/ PeerCloses(s)
    PROVE  CurrentInvariant'
<1>1. /\ DeliveryInvariant /\ BusInvariant /\ faults \in Nat
      /\ DOMAIN queue = Subs /\ DOMAIN received = Subs
      /\ Sequence(queue[s]) /\ Sequence(received[s])
      /\ phase \in [Subs -> Phases] /\ DOMAIN request = Subs /\ DOMAIN registeredAt = Subs
  BY DEF CurrentInvariant, DeliveryInvariant, BusInvariant, SubscriptionsAreListed,
         CountsAreNumbers
<1>2. /\ UNCHANGED <<runtimeState, styleFile, issued, nextEventSeq, frames, todo, pc>>
      /\ faults' = 0 => faults = 0
  BY <1>1 DEF Register, SubscriptionStep, SendInitialState, SendInitialStyle, Deliver,
              RemoveSubscriber, PeerCloses, serverVars, threadVars
<1>3. ASSUME \A f : Shown(f)' => Shown(f) \/ (f.type # "event" /\ f.seq = 0),
             \A r \in Subs : registeredAt'[r] \in {registeredAt[r], nextEventSeq},
             faults' = 0 => \A r \in Subs : Bootstrapped(r)' =>
                \/ /\ Bootstrapped(r) /\ request'[r] = request[r]
                   /\ registeredAt'[r] = registeredAt[r]
                   /\ \A i \in DOMAIN received[r] :
                         i \in DOMAIN received'[r] /\ received'[r][i] = received[r][i]
                \/ \A topic \in Range(request'[r].topics) \ {"session"} :
                       InitialHolds(r, topic)'
      PROVE  CurrentInvariant'
  BY <1>2, <1>3, MovesStayCurrent
<1>4. CASE Register(s) \/ RemoveSubscriber(s) \/ PeerCloses(s)
  <2>1. /\ UNCHANGED <<queue, received>>
        /\ \A r \in Subs : /\ registeredAt'[r] \in {registeredAt[r], nextEventSeq}
                           /\ phase'[r] \in {"initial", "streaming"} =>
                              /\ phase[r] = phase'[r] /\ request'[r] = request[r]
                              /\ registeredAt'[r] = registeredAt[r]
    BY <1>1, <1>4 DEF Register, RemoveSubscriber, PeerCloses
  <2>2. \A f : Shown(f)' => Shown(f)
    BY <1>2, <2>1 DEF Shown
  <2>3. \A r \in Subs : Bootstrapped(r)' =>
           /\ Bootstrapped(r) /\ request'[r] = request[r]
           /\ registeredAt'[r] = registeredAt[r]
           /\ \A i \in DOMAIN received[r] :
                 i \in DOMAIN received'[r] /\ received'[r][i] = received[r][i]
    BY <2>1 DEF Bootstrapped
  <2> QED BY <1>3, <2>1, <2>2, <2>3
<1>5. CASE SendInitialState(s)
  <2> DEFINE Initial(type) == [i \in 1..Len(request[s].topics) |->
                                  StateFrame(type, request[s].topics[i])]
             list == request[s].topics
  <2>1. /\ UNCHANGED <<queue, request, registeredAt>>
        /\ phase[s] = "registered" /\ received[s] = <<>>
        /\ \A r \in Subs : r # s => received'[r] = received[r] /\ phase'[r] = phase[r]
    BY <1>1, <1>5 DEF SendInitialState, BusInvariant, SubscriptionsAreListed
  <2>2. \/ received' = received /\ phase'[s] = "leaving"
        \/ received'[s] = <<>> /\ ~ request[s].bootstrap
        \/ received'[s] = Initial("state") /\ request[s].mode = "snapshots"
        \/ received'[s] = Initial("snapshot")
    <3>1. \/ /\ received' = received
             /\ phase' = [phase EXCEPT ![s] = "leaving"]
          \/ /\ received' = [received EXCEPT ![s] = <<>>]
             /\ ~ request[s].bootstrap
          \/ /\ received' = [received EXCEPT ![s] = Initial("state")]
             /\ request[s].mode = "snapshots"
          \/ received' = [received EXCEPT ![s] = Initial("snapshot")]
      BY <1>5 DEF SendInitialState, InitialFrames
    <3> HIDE DEF Initial
    <3> QED BY <1>1, <3>1
  <2>3. IsList(list)
    BY <1>1, WantedAreTopics
  <2>4. \A type : /\ DOMAIN Initial(type) = DOMAIN list
                  /\ \A i \in DOMAIN list : Initial(type)[i] = StateFrame(type, list[i])
    BY <2>3, ListShape
  <2> HIDE DEF Initial, list
  <2>5. \A type, topic : LET f == StateFrame(type, topic)
                         IN  /\ f.type = type /\ f.seq = 0 /\ f.topic = topic /\ f.reset
                             /\ f.value = Current(topic)
    BY DEF StateFrame, Current
  <2>6. \A i : i \notin DOMAIN <<>>
    OBVIOUS
  <2>7. \A i \in DOMAIN received'[s] : received'[s][i].type # "event" /\ received'[s][i].seq = 0
    BY <2>1, <2>2, <2>4, <2>5, <2>6
  <2>8. ASSUME NEW f, Shown(f)'
        PROVE  Shown(f) \/ (f.type # "event" /\ f.seq = 0)
    <3>1. CASE \E r \in Subs : \E i \in DOMAIN received'[r] : f = received'[r][i]
      BY <2>1, <2>7, <3>1 DEF Shown
    <3> QED BY <1>2, <2>1, <2>8, <3>1 DEF Shown
  <2>9. ASSUME NEW r \in Subs, Bootstrapped(r)'
        PROVE  \/ /\ Bootstrapped(r) /\ request'[r] = request[r]
                  /\ registeredAt'[r] = registeredAt[r]
                  /\ \A i \in DOMAIN received[r] :
                        i \in DOMAIN received'[r] /\ received'[r][i] = received[r][i]
               \/ \A topic \in Range(request'[r].topics) : InitialHolds(r, topic)'
    <3>1. CASE r # s
      BY <2>1, <2>9, <3>1 DEF Bootstrapped
    <3>2. CASE r = s
      <4>1. received'[s] = Initial("snapshot")
        BY <2>1, <2>2, <2>9, <3>2 DEF Bootstrapped
      <4>2. ASSUME NEW topic \in Range(request'[s].topics)
            PROVE  InitialHolds(s, topic)'
        <5>1. PICK i \in DOMAIN list : list[i] = topic
          BY <2>1 DEF Range, list
        <5>2. /\ i \in DOMAIN received'[s] /\ received'[s][i] = StateFrame("snapshot", topic)
          BY <2>4, <4>1, <5>1
        <5>3. /\ received'[s][i].topic = topic /\ received'[s][i].reset
              /\ received'[s][i].seq = 0 /\ received'[s][i].value = Current(topic)
          BY <2>5, <5>2
        <5>4. Current(topic)' = Current(topic)
          BY <1>2 DEF Current
        <5> QED BY <5>2, <5>3, <5>4 DEF InitialHolds
      <4> QED BY <3>2, <4>2
    <3> QED BY <3>1, <3>2
  <2>10. \A r \in Subs : registeredAt'[r] \in {registeredAt[r], nextEventSeq}
    BY <2>1
  <2> QED BY <1>3, <2>8, <2>9, <2>10
<1>6. CASE Deliver(s)
  <2> DEFINE f == Head(queue[s])
             rest == Tail(queue[s])
  <2>1. /\ queue[s] # <<>> /\ queue' = [queue EXCEPT ![s] = rest]
        /\ \/ received' = [received EXCEPT ![s] = Append(received[s], f)] /\ phase' = phase
           \/ received' = received /\ phase' = [phase EXCEPT ![s] = "leaving"]
        /\ UNCHANGED <<request, registeredAt>>
    BY <1>6 DEF Deliver
  <2>2. /\ queue'[s] = rest
        /\ \A r \in Subs : r # s => queue'[r] = queue[r] /\ received'[r] = received[r]
        /\ received'[s] = received[s] \/ received'[s] = Append(received[s], f)
        /\ \A r \in Subs : phase'[r] \in {"initial", "streaming"} => phase'[r] = phase[r]
    BY <1>1, <2>1
  <2>3. /\ \A i \in DOMAIN rest : \E j \in DOMAIN queue[s] : rest[i] = queue[s][j]
        /\ \E j \in DOMAIN queue[s] : f = queue[s][j]
    BY <1>1, <2>1, AscendingTail
  <2> HIDE DEF f, rest
  <2>4. /\ \A i \in DOMAIN received[s] :
              i \in DOMAIN received'[s] /\ received'[s][i] = received[s][i]
        /\ \A i \in DOMAIN received'[s] :
              (i \in DOMAIN received[s] /\ received'[s][i] = received[s][i])
              \/ received'[s][i] = f
    BY <1>1, <2>2, SequenceAppend DEF Sequence
  <2>5. ASSUME NEW g, Shown(g)'
        PROVE  Shown(g)
    <3>1. CASE \E r \in Subs : \E i \in DOMAIN received'[r] : g = received'[r][i]
      BY <2>2, <2>3, <2>4, <3>1 DEF Shown
    <3>2. CASE \E r \in Subs : \E i \in DOMAIN queue'[r] : g = queue'[r][i]
      BY <2>2, <2>3, <3>2 DEF Shown
    <3> QED BY <1>2, <2>5, <3>1, <3>2 DEF Shown
  <2>6. \A r \in Subs : Bootstrapped(r)' =>
           /\ Bootstrapped(r) /\ request'[r] = request[r]
           /\ registeredAt'[r] = registeredAt[r]
           /\ \A i \in DOMAIN received[r] :
                 i \in DOMAIN received'[r] /\ received'[r][i] = received[r][i]
    BY <2>1, <2>2, <2>4 DEF Bootstrapped
  <2>7. \A r \in Subs : registeredAt'[r] \in {registeredAt[r], nextEventSeq}
    BY <2>1
  <2> QED BY <1>3, <2>5, <2>6, <2>7
<1>7. CASE SendInitialStyle(s)
  <2>1. /\ UNCHANGED <<queue, request, registeredAt>>
        /\ phase[s] = "initial" /\ phase'[s] \in {"streaming", "leaving"}
        /\ DOMAIN received'[s] = DOMAIN received[s]
        /\ \A i \in DOMAIN received[s] :
              received'[s][i].type # "event" /\ received'[s][i].seq = 0
        /\ \A r \in Subs : r # s => received'[r] = received[r] /\ phase'[r] = phase[r]
    BY <1>1, <1>7, InitialStyleFrames
  <2>2. phase'[s] = "streaming" =>
           \A i \in DOMAIN received[s] :
              received'[s][i] = IF received[s][i].topic = "style"
                                THEN StateFrame(received[s][i].type, "style")
                                ELSE received[s][i]
    <3>1. DOMAIN received[s] = 1..Len(received[s])
      BY <1>1 DEF Sequence
    <3> QED BY <1>1, <1>7, <3>1 DEF SendInitialStyle
  <2>3. ASSUME NEW f, Shown(f)'
        PROVE  Shown(f) \/ (f.type # "event" /\ f.seq = 0)
    <3>1. CASE \E r \in Subs : \E i \in DOMAIN received'[r] : f = received'[r][i]
      BY <2>1, <3>1 DEF Shown
    <3> QED BY <1>2, <2>1, <2>3, <3>1 DEF Shown
  <2>4. ASSUME faults' = 0, NEW r \in Subs, Bootstrapped(r)'
        PROVE  \/ /\ Bootstrapped(r) /\ request'[r] = request[r]
                  /\ registeredAt'[r] = registeredAt[r]
                  /\ \A i \in DOMAIN received[r] :
                        i \in DOMAIN received'[r] /\ received'[r][i] = received[r][i]
               \/ \A topic \in Range(request'[r].topics) \ {"session"} :
                      InitialHolds(r, topic)'
    <3>1. CASE r # s
      BY <2>1, <2>4, <3>1 DEF Bootstrapped
    <3>2. CASE r = s
      <4>1. Bootstrapped(s) /\ NothingLost /\ phase'[s] = "streaming"
        BY <1>2, <2>1, <2>4, <3>2 DEF Bootstrapped, CurrentInvariant
      <4>2. ASSUME NEW topic \in Range(request'[s].topics) \ {"session"}
            PROVE  InitialHolds(s, topic)'
        <5>1. PICK i \in DOMAIN received[s] :
                 /\ received[s][i].topic = topic /\ received[s][i].reset
                 /\ received[s][i].seq = 0
                 /\ received[s][i].value = Current(topic) \/ ResetsSince(s, topic) # {}
          BY <2>1, <4>1, <4>2 DEF NothingLost, InitialHolds
        <5>2. Current(topic)' = Current(topic) /\ ResetsSince(s, topic)' = ResetsSince(s, topic)
          BY <1>2, <2>1 DEF Current, ResetsSince
        <5>3. CASE topic = "style"
          <6>1. received'[s][i] = StateFrame(received[s][i].type, topic)
            BY <2>2, <4>1, <5>1, <5>3
          <6>2. /\ received'[s][i].topic = topic /\ received'[s][i].reset
                /\ received'[s][i].seq = 0 /\ received'[s][i].value = Current(topic)
            BY <6>1 DEF StateFrame, Current
          <6> QED BY <2>1, <5>1, <5>2, <6>2 DEF InitialHolds
        <5>4. CASE topic # "style"
          <6>1. received'[s][i] = received[s][i]
            BY <2>2, <4>1, <5>1, <5>4
          <6> QED BY <2>1, <5>1, <5>2, <6>1 DEF InitialHolds
        <5> QED BY <5>3, <5>4
      <4> QED BY <3>2, <4>2
    <3> QED BY <3>1, <3>2
  <2>5. \A r \in Subs : registeredAt'[r] \in {registeredAt[r], nextEventSeq}
    BY <2>1
  <2> QED BY <1>3, <2>3, <2>4, <2>5
<1> QED BY <1>4, <1>5, <1>6, <1>7 DEF SubscriptionStep

LEMMA NextStaysCurrent ==
    CurrentInvariant /\ [Next]_vars => CurrentInvariant'
<1> SUFFICES ASSUME CurrentInvariant, [Next]_vars PROVE CurrentInvariant'
  OBVIOUS
<1>1. DeliveryInvariant' /\ CountsAreNumbers'
  BY NextKeepsDelivery, NextCounts DEF CurrentInvariant
<1>2. ASSUME NEW t \in Threads, NEW command, Commit(t, command) \/ CommitAborts(t, command)
      PROVE  CurrentInvariant'
  BY <1>1, <1>2, CommitStaysCurrent, AbortStaysCurrent
<1>3. CASE \E c \in Clients : ClientCommand(c)
  BY <1>2, <1>3 DEF ClientCommand, Threads
<1>4. CASE \E p \in Producers : ProducerFrame(p)
  BY <1>2, <1>4 DEF ProducerFrame, Threads
<1>5. CASE FifoLine
  BY <1>2, <1>5 DEF FifoLine, Threads
<1>6. CASE FifoReopens \/ WriteLine \/ Rest \/ UNCHANGED vars
  <2>1. UNCHANGED <<serverVars, threadVars, subVars, queue, faults>>
    BY <1>6 DEF FifoReopens, WriteLine, Rest, vars
  <2>2. \A f : Shown(f)' => Shown(f)
    BY <2>1 DEF Shown, threadVars, subVars
  <2>3. \A s \in Subs : registeredAt'[s] \in {registeredAt[s], nextEventSeq}
    BY <2>1 DEF subVars
  <2>4. \A s \in Subs : Bootstrapped(s)' =>
           /\ Bootstrapped(s) /\ request'[s] = request[s]
           /\ registeredAt'[s] = registeredAt[s]
           /\ \A i \in DOMAIN received[s] :
                 i \in DOMAIN received'[s] /\ received'[s][i] = received[s][i]
    BY <2>1 DEF Bootstrapped, subVars
  <2>5. UNCHANGED <<runtimeState, styleFile, issued, nextEventSeq, pc, faults>>
    BY <2>1 DEF serverVars, threadVars
  <2> QED BY <1>1, <2>2, <2>3, <2>4, <2>5, MovesStayCurrent
<1>7. CASE \E t \in Threads : HandlerStep(t)
  BY <1>1, <1>7, HandlerStaysCurrent
<1>8. CASE \E s \in Subs : Register(s) \/ SubscriptionStep(s) \/ PeerCloses(s)
  BY <1>1, <1>8, SubscriptionStaysCurrent
<1> QED BY <1>3, <1>4, <1>5, <1>6, <1>7, <1>8 DEF Next

\* The daemon starts with a planned state and no events.
LEMMA InitIsCurrent == Init => CurrentInvariant
<1> SUFFICES ASSUME Init PROVE CurrentInvariant
  OBVIOUS
<1>1. \A i : i \notin DOMAIN <<>>
  OBVIOUS
<1>2. Shaped(runtimeState) /\ Planned(runtimeState)
  BY RefreshedIsPlanned DEF Init, LoadRuntimeState, Shaped
<1>3. FramesAreHonest
  BY <1>1 DEF Init, FramesAreHonest
<1>4. \A s \in Subs : registeredAt[s] <= nextEventSeq
  <2>1. registeredAt = [s \in Subs |-> 0] /\ nextEventSeq = 1
    BY DEF Init
  <2> QED BY <2>1
<1>5. NothingLost
  BY <1>1 DEF Init, NothingLost, NewestEventIsCurrent, Bootstrapped
<1> QED BY <1>2, <1>3, <1>4, <1>5, InitDelivery, InitCounts DEF CurrentInvariant

\* At rest every event since its registration has reached a client that is served.
LEMMA CurrentAtRest ==
    ASSUME CurrentInvariant, faults = 0
    PROVE  NewestIsCurrent
<1> SUFFICES ASSUME NEW s \in Subs, Settled(s), request[s].mode = "events",
                    NEW topic \in Range(request[s].topics) \ {"session"}
             PROVE  \E i \in Resets(s, topic) :
                       /\ \A j \in Resets(s, topic) : received[s][j].seq <= received[s][i].seq
                       /\ received[s][i].value = Current(topic)
  BY DEF NewestIsCurrent
<1> DEFINE S == ResetsSince(s, topic)
<1>1. /\ DeliveryInvariant /\ BusInvariant /\ FramesAreHonest /\ NothingLost
      /\ Sequence(issued) /\ registeredAt[s] \in Nat
      /\ \A q \in DOMAIN issued : issued[q].by \in Threads
  BY DEF CurrentInvariant, DeliveryInvariant, BusInvariant, SubscriptionsAreListed,
         EventsAreNumbered
<1>2. /\ phase[s] = "streaming" /\ request[s].bootstrap /\ queue[s] = <<>>
      /\ \A t \in Threads : pc[t] = "idle"
  BY <1>1 DEF Settled, Quiescent, NothingLost
<1>3. /\ \A t \in Threads : frames[t] = <<>> /\ todo[t] = <<>>
      /\ \A i : i \notin DOMAIN <<>>
  BY <1>1, <1>2 DEF BusInvariant, ThreadsHoldFrames
<1>4. PICK a \in DOMAIN received[s] :
         /\ received[s][a].topic = topic /\ received[s][a].reset /\ received[s][a].seq = 0
         /\ received[s][a].value = Current(topic) \/ S # {}
  BY <1>1, <1>2 DEF NothingLost, Bootstrapped, InitialHolds
<1>5. \A j \in DOMAIN received[s] : Honest(received[s][j])
  BY <1>1 DEF FramesAreHonest
<1>6. \A j \in Resets(s, topic) : received[s][j].seq = 0 \/ received[s][j].seq \in S
  BY <1>5 DEF Honest, Resets, ResetsSince
<1>7. CASE S = {}
  <2>1. a \in Resets(s, topic)
    BY <1>4 DEF Resets
  <2> QED BY <1>4, <1>6, <1>7, <2>1
<1>8. CASE S # {}
  <2>1. S \subseteq 0..Len(issued) /\ Len(issued) \in Nat /\ DOMAIN issued = 1..Len(issued)
    BY <1>1 DEF Sequence, ResetsSince
  <2>2. PICK q \in S : \A p \in S : p <= q
    BY <1>8, <2>1, LargestExists
  <2>3. /\ q \in DOMAIN issued /\ issued[q].reset /\ issued[q].topic = topic
        /\ q >= registeredAt[s] /\ q \in Nat \ {0}
    BY <2>1, <2>2 DEF ResetsSince
  <2>4. Owed(s, q)
    BY <1>2, <2>3 DEF Owed, Served, WantsEvents, WantsTopic
  <2>5. ~ Holds(issued[q].by, s, q) /\ ~ Carries(queue[s], q) /\ pc[issued[q].by] # "dead"
    BY <1>1, <1>2, <1>3, <2>3 DEF Holds, Carries
  <2>6. PICK i \in DOMAIN received[s] : received[s][i].seq = q
    BY <1>1, <2>3, <2>4, <2>5 DEF BusInvariant, NoEventLost, Carries
  <2>7. /\ received[s][i].topic = topic /\ received[s][i].reset
        /\ received[s][i].value = issued[q].value
    BY <1>5, <2>3, <2>6 DEF Honest
  <2>8. issued[q].value = Current(topic)
    <3>1. ASSUME NEW p \in DOMAIN issued, issued[p].reset, issued[p].topic = topic
          PROVE  p <= q
      <4>1. p \in Nat
        BY <2>1
      <4>2. CASE p >= registeredAt[s]
        BY <2>2, <3>1, <4>2 DEF ResetsSince
      <4>3. CASE ~ (p >= registeredAt[s])
        BY <1>1, <2>3, <4>1, <4>3
      <4> QED BY <4>2, <4>3
    <3> QED BY <1>1, <2>3, <3>1 DEF NothingLost, NewestEventIsCurrent
  <2>9. i \in Resets(s, topic)
    BY <2>3, <2>6, <2>7 DEF Resets
  <2>10. \A j \in Resets(s, topic) : received[s][j].seq <= received[s][i].seq
    BY <1>6, <2>2, <2>3, <2>6
  <2> QED BY <2>7, <2>8, <2>9, <2>10
<1> QED BY <1>7, <1>8

LEMMA CurrentInvariantIsKept == Spec => []CurrentInvariant
<1> QED BY InitIsCurrent, NextStaysCurrent, PTL DEF Spec

\* A client that was given the initial state, keeps for every topic the RESET event with
\* the highest number, and ignores those older than its registration, shows the daemon's
\* state when the daemon is at rest: for any threads, subscriptions, requests and
\* bounds, and any interleaving of the commits with the broadcasts, the initial frames
\* and the failures of effects that are reported.  The hypothesis leaves out exceptions,
\* which change style.env and no state, and peers that go away.
THEOREM UpToDateAtRest == Spec => [](faults = 0 => NewestIsCurrent)
<1>1. CurrentInvariant => (faults = 0 => NewestIsCurrent)
  BY CurrentAtRest
<1> QED BY <1>1, CurrentInvariantIsKept, PTL

-----------------------------------------------------------------------------
(* Failed effects and their reports *)

\* A failed effect is counted with its thread until the report is issued.
FailuresCounted(t) ==
    /\ pc[t] # "dead"
    /\ effectFailures[t] = failed[t] + Cardinality(Reports(t))

\* A thread that is idle owes no report, and nothing is forgotten without an exception.
FailuresInvariant ==
    /\ DeliveryInvariant
    /\ RequestsAreAccepted
    /\ CountsAreNumbers
    /\ \A t \in Threads : pc[t] = "idle" => failed[t] = 0
    /\ faults = 0 => \A t \in Threads : FailuresCounted(t)

\* Does event q of the log, issued from delta, report a failure?
IsReport(delta) == ~ delta.reset /\ delta.value = ActionFailed.value

\* Reports are events, so there are finitely many.
LEMMA ReportsAreFinite ==
    ASSUME BusInvariant, NEW t
    PROVE  IsFiniteSet(Reports(t)) /\ Cardinality(Reports(t)) \in Nat
           /\ Reports(t) \subseteq 1..(nextEventSeq - 1)
<1>1. Reports(t) \subseteq 1..(nextEventSeq - 1) /\ nextEventSeq - 1 \in Int
  BY DEF Reports, BusInvariant, EventsAreNumbered, Sequence
<1>2. IsFiniteSet(1..(nextEventSeq - 1))
  BY <1>1, FS_Interval
<1>3. IsFiniteSet(Reports(t))
  BY <1>1, <1>2, FS_Subset
<1> QED BY <1>1, <1>3, FS_CardinalityType

\* Events that are no reports leave the reports of every thread.
LEMMA ReportsStay ==
    ASSUME BusInvariant, NEW t \in Threads, NEW deltas, Sequence(deltas),
           IssueEvents(t, deltas), \A i \in 1..Len(deltas) : ~ IsReport(deltas[i])
    PROVE  \A u : Reports(u)' = Reports(u)
<1> DEFINE k == nextEventSeq - 1
           n == Len(deltas)
<1>1. /\ k \in Nat /\ n \in Nat /\ DOMAIN issued' = 1..(k + n) /\ DOMAIN issued = 1..k
      /\ \A q \in 1..k : issued'[q] = issued[q]
      /\ \A i \in 1..n : issued'[k + i] = Entry(t, deltas[i])
  <2>1. k \in Nat /\ n \in Nat
    BY IssuedLog
  <2>2. DOMAIN issued' = 1..(k + n) /\ DOMAIN issued = 1..k
    BY IssuedLog
  <2>3. \A q \in 1..k : issued'[q] = issued[q]
    BY IssuedLog
  <2>4. \A i \in 1..n : issued'[k + i] = Entry(t, deltas[i])
    BY IssuedLog
  <2> QED BY <2>1, <2>2, <2>3, <2>4
<1> HIDE DEF k, n
<1>2. \A i \in 1..n : ~ (~ issued'[k + i].reset /\ issued'[k + i].value = ActionFailed.value)
  <2>1. \A i \in 1..n : /\ Entry(t, deltas[i]).reset = deltas[i].reset
                        /\ Entry(t, deltas[i]).value = deltas[i].value
    BY DEF Entry
  <2> QED BY <1>1, <2>1 DEF IsReport, n
<1>3. ASSUME NEW q \in DOMAIN issued', q \notin DOMAIN issued
      PROVE  ~ (~ issued'[q].reset /\ issued'[q].value = ActionFailed.value)
  <2>1. q - k \in 1..n /\ q = k + (q - k)
    BY <1>1, <1>3
  <2> QED BY <1>2, <2>1
<1>4. DOMAIN issued \subseteq DOMAIN issued'
  BY <1>1
<1> QED BY <1>1, <1>3, <1>4 DEF Reports

\* The reports of n failures are n more reports of that thread.
LEMMA ReportsGrow ==
    ASSUME BusInvariant, NEW t \in Threads, NEW n \in Nat,
           IssueEvents(t, [i \in 1..n |-> ActionFailed]), NEW u \in Threads, BusInvariant'
    PROVE  Cardinality(Reports(u)') = Cardinality(Reports(u)) + (IF u = t THEN n ELSE 0)
<1> DEFINE k == nextEventSeq - 1
           deltas == [i \in 1..n |-> ActionFailed]
           new == (k + 1)..(k + n)
<1>1. Sequence(deltas) /\ Len(deltas) = n /\ \A i \in 1..n : deltas[i] = ActionFailed
  BY DEF Sequence
<1> HIDE DEF deltas
<1>2. /\ k \in Nat /\ DOMAIN issued' = 1..(k + n) /\ DOMAIN issued = 1..k
      /\ \A q \in 1..k : issued'[q] = issued[q]
      /\ \A i \in 1..n : issued'[k + i] = Entry(t, deltas[i])
  <2>1. IssueEvents(t, deltas)
    BY DEF deltas
  <2>2. k \in Nat
    BY <1>1, <2>1, IssuedLog
  <2>3. DOMAIN issued' = 1..(k + n) /\ DOMAIN issued = 1..k
    BY <1>1, <2>1, IssuedLog
  <2>4. \A q \in 1..k : issued'[q] = issued[q]
    BY <1>1, <2>1, IssuedLog
  <2>5. \A i \in 1..n : issued'[k + i] = Entry(t, deltas[i])
    BY <1>1, <2>1, IssuedLog
  <2> QED BY <2>2, <2>3, <2>4, <2>5
<1> HIDE DEF k
<1>3. \A q \in new : q \in DOMAIN issued' /\ issued'[q] = Entry(t, ActionFailed)
  <2> SUFFICES ASSUME NEW q \in new
               PROVE  q \in DOMAIN issued' /\ issued'[q] = Entry(t, ActionFailed)
    OBVIOUS
  <2>1. q - k \in 1..n /\ q = k + (q - k) /\ q \in 1..(k + n)
    BY <1>2
  <2> QED BY <1>1, <1>2, <2>1
<1>4. /\ Entry(t, ActionFailed).by = t /\ ~ Entry(t, ActionFailed).reset
      /\ Entry(t, ActionFailed).value = ActionFailed.value
  BY DEF Entry, ActionFailed
<1>5. DOMAIN issued' = DOMAIN issued \cup new /\ DOMAIN issued \cap new = {}
  BY <1>2
<1>6. CASE u = t
  <2>1. Reports(u)' = Reports(u) \cup new
    <3>1. \A q \in new : /\ issued'[q].by = u /\ ~ issued'[q].reset
                         /\ issued'[q].value = ActionFailed.value
      BY <1>3, <1>4, <1>6
    <3> HIDE DEF new
    <3> QED BY <1>2, <1>5, <3>1 DEF Reports
  <2>2. Reports(u) \cap new = {}
    BY <1>5 DEF Reports
  <2>3. IsFiniteSet(new) /\ Cardinality(new) = n
    BY <1>2, FS_Interval
  <2> HIDE DEF new
  <2>4. IsFiniteSet(Reports(u)) /\ Cardinality(Reports(u)) \in Nat
    BY ReportsAreFinite
  <2>5. Cardinality(Reports(u) \cup new)
            = Cardinality(Reports(u)) + Cardinality(new) - Cardinality(Reports(u) \cap new)
    BY <2>3, <2>4, FS_Union
  <2>6. Cardinality(Reports(u) \cap new) = 0
    BY <2>2, FS_EmptySet
  <2> QED BY <1>6, <2>1, <2>3, <2>4, <2>5, <2>6
<1>7. CASE u # t
  <2>1. Reports(u)' = Reports(u)
    BY <1>2, <1>3, <1>4, <1>5, <1>7 DEF Reports
  <2>2. Cardinality(Reports(u)) \in Nat
    BY ReportsAreFinite
  <2> QED BY <1>7, <2>1, <2>2
<1> QED BY <1>6, <1>7

\* A commit issues no reports and leaves the counts.
LEMMA CommitKeepsFailures ==
    ASSUME FailuresInvariant, DeliveryInvariant', RequestsAreAccepted', CountsAreNumbers',
           NEW t \in Threads, NEW command \in Requests, Commit(t, command)
    PROVE  FailuresInvariant'
<1> DEFINE deltas == Handle(command, runtimeState, styleFile).deltas
<1>1. /\ BusInvariant /\ pc \in [Threads -> PCs]
      /\ command \in Commands
  BY RuntimeCommandsAssumption DEF FailuresInvariant, DeliveryInvariant, RequestsAreAccepted
<1>2. /\ IssueEvents(t, deltas) /\ UNCHANGED <<failed, effectFailures, faults>>
      /\ \E to \in {"topics", "effects"} : pc' = [pc EXCEPT ![t] = to]
  BY DEF Commit
<1>3. Sequence(deltas)
  BY DeltasAreSequences
<1>4. \A i \in 1..Len(deltas) : ~ IsReport(deltas[i])
  <2>1. \A i \in 1..Len(deltas) :
           \/ deltas[i].reset
           \/ \E target \in RefreshTargets : deltas[i] = ArtifactRefreshed(target)
    BY <1>1, OverlaysAreArtifacts
  <2> HIDE DEF deltas
  <2>2. \A target \in RefreshTargets : ArtifactRefreshed(target).value # ActionFailed.value
    BY DEF RefreshTargets, ArtifactRefreshed, ActionFailed
  <2> QED BY <2>1, <2>2 DEF IsReport
<1> HIDE DEF deltas
<1>5. \A u : Reports(u)' = Reports(u)
  BY <1>1, <1>2, <1>3, <1>4, ReportsStay
<1>6. \A u \in Threads : /\ pc'[u] = "idle" => pc[u] = "idle"
                         /\ pc'[u] = "dead" => pc[u] = "dead"
  BY <1>1, <1>2
<1>7. \A u \in Threads : FailuresCounted(u) => FailuresCounted(u)'
  BY <1>2, <1>5, <1>6 DEF FailuresCounted
<1> QED BY <1>2, <1>6, <1>7 DEF FailuresInvariant

\* An exception in a commit is a fault.
LEMMA AbortKeepsFailures ==
    ASSUME FailuresInvariant, DeliveryInvariant', RequestsAreAccepted', CountsAreNumbers',
           NEW t \in Threads, NEW command, CommitAborts(t, command)
    PROVE  FailuresInvariant'
<1>1. faults' # 0
  <2>1. faults \in Nat /\ faults' = faults + 1
    BY DEF CommitAborts, FailuresInvariant, CountsAreNumbers
  <2> QED BY <2>1
<1>2. /\ pc \in [Threads -> PCs] /\ failed' = failed /\ pc[t] = "idle"
      /\ \E to \in {"idle", "dead"} : pc' = [pc EXCEPT ![t] = to]
  BY DEF FailuresInvariant, RequestsAreAccepted, CommitAborts
<1>3. \A u \in Threads : pc'[u] = "idle" => pc[u] = "idle"
  BY <1>2
<1> QED BY <1>1, <1>2, <1>3 DEF FailuresInvariant

\* A failed effect is counted twice, in the handler and by the history; its report takes
\* it from the first count.
LEMMA HandlerKeepsFailures ==
    ASSUME FailuresInvariant, DeliveryInvariant', RequestsAreAccepted', CountsAreNumbers',
           NEW t \in Threads, HandlerStep(t)
    PROVE  FailuresInvariant'
<1>1. /\ BusInvariant /\ BusInvariant' /\ pc \in [Threads -> PCs] /\ faults \in Nat
      /\ failed \in [Threads -> Nat] /\ effectFailures \in [Threads -> Nat]
      /\ \A u \in Threads : Cardinality(Reports(u)) \in Nat
  BY ReportsAreFinite DEF FailuresInvariant, DeliveryInvariant, BusInvariant, ThreadsHoldFrames,
                          CountsAreNumbers
<1>2. ASSUME issued' = issued, failed' = failed, effectFailures' = effectFailures, faults' = faults,
             \A u \in Threads : /\ pc'[u] = "dead" => pc[u] = "dead"
                                /\ pc'[u] = "idle" => pc[u] = "idle" \/ failed[u] = 0
      PROVE  FailuresInvariant'
  <2>1. \A u : Reports(u)' = Reports(u)
    BY <1>2 DEF Reports
  <2>2. \A u \in Threads : FailuresCounted(u) => FailuresCounted(u)'
    BY <1>2, <2>1 DEF FailuresCounted
  <2> QED BY <1>2, <2>2 DEF FailuresInvariant
<1>3. CASE EffectSucceeds(t) \/ BroadcastTopics(t) \/ BroadcastEvents(t)
  <2>1. /\ UNCHANGED <<issued, failed, effectFailures, faults>>
        /\ \E to \in {"topics", "effects", "events", "status"} : pc' = [pc EXCEPT ![t] = to]
    BY <1>3 DEF EffectSucceeds, EffectOver, BroadcastTopics, BroadcastEvents, serverVars
  <2> QED BY <1>1, <1>2, <2>1
<1>4. CASE EffectFails(t)
  <2>1. /\ UNCHANGED <<issued, faults>>
        /\ failed' = [failed EXCEPT ![t] = @ + 1]
        /\ effectFailures' = [effectFailures EXCEPT ![t] = @ + 1]
        /\ \E to \in {"topics", "effects"} : pc' = [pc EXCEPT ![t] = to]
    BY <1>4 DEF EffectFails, EffectOver, serverVars
  <2>2. \A u : Reports(u)' = Reports(u)
    BY <2>1 DEF Reports
  <2>3. ASSUME NEW u \in Threads
        PROVE  /\ pc'[u] = "idle" => failed'[u] = 0
               /\ FailuresCounted(u) => FailuresCounted(u)'
    <3>1. CASE u = t
      BY <1>1, <2>1, <2>2, <3>1 DEF FailuresCounted
    <3>2. CASE u # t
      BY <1>1, <2>1, <2>2, <3>2 DEF FailuresCounted, FailuresInvariant
    <3> QED BY <3>1, <3>2
  <2> QED BY <2>1, <2>3 DEF FailuresInvariant
<1>5. CASE EffectThrows(t)
  <2>1. /\ faults' = faults + 1 /\ failed' = [failed EXCEPT ![t] = 0]
        /\ \E to \in {"topics", "dead"} : pc' = [pc EXCEPT ![t] = to]
    BY <1>5 DEF EffectThrows
  <2>2. faults' # 0
    BY <1>1, <2>1
  <2>3. \A u \in Threads : pc'[u] = "idle" => failed'[u] = 0
    BY <1>1, <2>1 DEF FailuresInvariant
  <2> QED BY <2>2, <2>3 DEF FailuresInvariant
<1>6. CASE \E s \in Subs : SendFrame(t, s)
  <2>1. UNCHANGED <<issued, failed, effectFailures, faults, pc>>
    BY <1>6 DEF SendFrame, serverVars
  <2> QED BY <1>2, <2>1
<1>7. CASE IssueStatus(t)
  <2>1. /\ IssueEvents(t, [i \in 1..failed[t] |-> ActionFailed])
        /\ failed' = [failed EXCEPT ![t] = 0] /\ pc' = [pc EXCEPT ![t] = "events"]
        /\ UNCHANGED <<effectFailures, faults>>
    BY <1>7 DEF IssueStatus
  <2>2. \A u \in Threads : Cardinality(Reports(u)') =
                              Cardinality(Reports(u)) + (IF u = t THEN failed[t] ELSE 0)
    BY <1>1, <2>1, ReportsGrow
  <2>3. ASSUME NEW u \in Threads
        PROVE  /\ pc'[u] = "idle" => failed'[u] = 0
               /\ FailuresCounted(u) => FailuresCounted(u)'
    <3>1. Cardinality(Reports(u))' = Cardinality(Reports(u)) + (IF u = t THEN failed[t] ELSE 0)
      BY <2>2
    <3>2. CASE u = t
      BY <1>1, <2>1, <3>1, <3>2 DEF FailuresCounted
    <3>3. CASE u # t
      BY <1>1, <2>1, <3>1, <3>3 DEF FailuresCounted, FailuresInvariant
    <3> QED BY <3>2, <3>3
  <2> QED BY <2>1, <2>3 DEF FailuresInvariant
<1>8. CASE Finish(t)
  <2>1. /\ UNCHANGED <<issued, failed, effectFailures, faults>> /\ failed[t] = 0
        /\ pc' = [pc EXCEPT ![t] = "idle"]
    BY <1>8 DEF Finish, serverVars
  <2> QED BY <1>1, <1>2, <2>1
<1> QED BY <1>3, <1>4, <1>5, <1>6, <1>7, <1>8 DEF HandlerStep

LEMMA NextKeepsFailures == FailuresInvariant /\ [Next]_vars => FailuresInvariant'
<1> SUFFICES ASSUME FailuresInvariant, [Next]_vars PROVE FailuresInvariant'
  OBVIOUS
<1>1. DeliveryInvariant' /\ RequestsAreAccepted' /\ CountsAreNumbers'
  BY NextKeepsDelivery, NextAccepts, NextCounts DEF FailuresInvariant
<1>2. ASSUME NEW t \in Threads, NEW command \in Requests,
             Commit(t, command) \/ CommitAborts(t, command)
      PROVE  FailuresInvariant'
  BY <1>1, <1>2, CommitKeepsFailures, AbortKeepsFailures
<1>3. CASE \E c \in Clients : ClientCommand(c)
  BY <1>2, <1>3, RuntimeDaemonAssumption DEF ClientCommand, Threads
<1>4. CASE \E p \in Producers : ProducerFrame(p)
  BY <1>2, <1>4, RuntimeDaemonAssumption DEF ProducerFrame, Threads
<1>5. CASE FifoLine
  <2>1. Head(fifo) \in Requests
    BY <1>5, TailList DEF FifoLine, FailuresInvariant, RequestsAreAccepted
  <2> QED BY <1>2, <1>5, <2>1 DEF FifoLine, Threads
<1>6. ASSUME UNCHANGED <<issued, failed, effectFailures, pc>>, faults' = 0 => faults = 0
      PROVE  FailuresInvariant'
  BY <1>1, <1>6 DEF FailuresInvariant, FailuresCounted, Reports
<1>7. CASE FifoReopens \/ WriteLine \/ Rest \/ UNCHANGED vars
  BY <1>6, <1>7 DEF FifoReopens, WriteLine, Rest, vars, serverVars, threadVars
<1>8. CASE \E t \in Threads : HandlerStep(t)
  BY <1>1, <1>8, HandlerKeepsFailures
<1>9. CASE \E s \in Subs : Register(s) \/ SubscriptionStep(s) \/ PeerCloses(s)
  <2>1. faults \in Nat
    BY DEF FailuresInvariant, CountsAreNumbers
  <2> QED BY <1>6, <1>9, <2>1 DEF Register, SubscriptionStep, SendInitialState,
                              SendInitialStyle, Deliver, RemoveSubscriber, PeerCloses,
                              serverVars, threadVars
<1> QED BY <1>3, <1>4, <1>5, <1>7, <1>8, <1>9 DEF Next

LEMMA InitFailures == Init => FailuresInvariant
<1> SUFFICES ASSUME Init PROVE FailuresInvariant
  OBVIOUS
<1>1. /\ pc = [t \in Threads |-> "idle"] /\ failed = [t \in Threads |-> 0]
      /\ effectFailures = [t \in Threads |-> 0] /\ issued = <<>>
  BY DEF Init
<1>2. \A t : Reports(t) = {}
  BY <1>1 DEF Reports
<1>3. \A t \in Threads : FailuresCounted(t)
  BY <1>1, <1>2, FS_EmptySet DEF FailuresCounted
<1> QED BY <1>1, <1>3, InitDelivery, InitAccepts, InitCounts DEF FailuresInvariant

\* When the daemon is at rest, every effect of a thread that failed has been reported by
\* an event of its own, and nothing else was reported: for any threads, commands and
\* bounds.  Without the hypothesis the run daemon_unsurfaced shows a failure that no
\* event reports, of an effect that throws.
THEOREM FailuresAreReported == Spec => [](faults = 0 => FailuresSurfaced)
<1>1. FailuresInvariant => (faults = 0 => FailuresSurfaced)
  <2> SUFFICES ASSUME FailuresInvariant, faults = 0, Quiescent, NEW t \in Threads
               PROVE  effectFailures[t] = Cardinality(Reports(t))
    BY DEF FailuresSurfaced
  <2>1. pc[t] = "idle" /\ effectFailures[t] = failed[t] + Cardinality(Reports(t))
    BY DEF FailuresInvariant, FailuresCounted, Quiescent
  <2>2. failed[t] = 0 /\ Cardinality(Reports(t)) \in Nat
    BY <2>1, ReportsAreFinite DEF FailuresInvariant, DeliveryInvariant
  <2> QED BY <2>1, <2>2
<1> QED BY <1>1, InitFailures, NextKeepsFailures, PTL DEF Spec

-----------------------------------------------------------------------------
(* A single writer *)

Tells(f, topic) == f.topic = topic /\ f.reset

\* The last frame of these that has all of the topic has this value.
LastSays(q, topic, v) ==
    \A i \in DOMAIN q :
        Tells(q[i], topic) /\ (\A j \in DOMAIN q : Tells(q[j], topic) => j <= i) => q[i].value = v

\* A frame of the topic is on its way to s, or will be when a broadcast begins.
Awaits(s, topic) ==
    \E t \in Threads :
        \/ WantsSnapshots(s, topic) /\ topic \in Range(topics[t])
        \/ WantsEvents(s, topic) /\ \E i \in DOMAIN frames[t] : Tells(frames[t][i], topic)
        \/ \E i \in DOMAIN todo[t] : s \in todo[t][i].to /\ Tells(todo[t][i].frame, topic)

\* What a thread has in its hands.
Held(f) ==
    \E t \in Threads : \/ \E i \in DOMAIN frames[t] : f = frames[t][i]
                       \/ \E i \in DOMAIN todo[t] : f = todo[t][i].frame

HoldsAny(t) == topics[t] # <<>> \/ frames[t] # <<>> \/ todo[t] # <<>>

Fresh(f) == f.reset /\ f.topic \in Topics \ {"session"} => f.value = Current(f.topic)

Leads(s, topic) == Awaits(s, topic) \/ LastSays(Stream(s), topic, Current(topic))

\* A served client was given all its topics.
InitialKept(s) ==
    /\ phase[s] \in {"initial", "streaming"}
    /\ request[s].mode = "snapshots" \/ request[s].bootstrap
    =>
    \A topic \in Range(request[s].topics) :
        \E i \in DOMAIN received[s] : Tells(received[s][i], topic)

\* What is held is the state of now, and for each topic a frame of it is on its way, or the
\* last one in the stream is.
OneWriterLeads ==
    /\ \A f : Held(f) => Fresh(f)
    /\ \A s \in Subs : Served(s) =>
          \A topic \in Range(request[s].topics) \ {"session"} : Leads(s, topic)

\* A thread that has something in its hands has issued events, and is then the only one.
OneWriterInvariant ==
    /\ CurrentInvariant
    /\ DOMAIN topics = Threads
    /\ \A t \in Threads : topics[t] # <<>> => pc[t] \in {"effects", "topics"}
    /\ \A t \in Threads : HoldsAny(t) => \E q \in DOMAIN issued : issued[q].by = t
    /\ \A s \in Subs : InitialKept(s)
    /\ OneWriter /\ faults = 0 => OneWriterLeads

\* A frame behind the others is the last of its topic.
LEMMA SaysAppend ==
    ASSUME NEW q, Sequence(q), NEW f, NEW topic, NEW v
    PROVE  /\ Tells(f, topic) /\ f.value = v => LastSays(Append(q, f), topic, v)
           /\ ~ Tells(f, topic) /\ LastSays(q, topic, v) => LastSays(Append(q, f), topic, v)
<1> DEFINE r == Append(q, f)
           n == Len(q)
<1>1. /\ DOMAIN q = 1..n /\ n \in Nat /\ DOMAIN r = 1..(n + 1) /\ r[n + 1] = f
      /\ \A i \in 1..n : r[i] = q[i]
  BY SequenceAppend DEF Sequence
<1> HIDE DEF r, n
<1>2. /\ n + 1 \in 1..(n + 1)
      /\ \A i \in 1..(n + 1) : i \in 1..n \/ i = n + 1
      /\ \A i \in 1..n : i \in 1..(n + 1) /\ ~ (n + 1 <= i)
  BY <1>1
<1>3. ASSUME Tells(f, topic), f.value = v
      PROVE  LastSays(r, topic, v)
  BY <1>1, <1>2, <1>3 DEF LastSays
<1>4. ASSUME ~ Tells(f, topic), LastSays(q, topic, v)
      PROVE  LastSays(r, topic, v)
  BY <1>1, <1>2, <1>4 DEF LastSays
<1> QED BY <1>3, <1>4 DEF r

\* Frames in front of others that all have the value.
LEMMA SaysConcat ==
    ASSUME NEW q, Sequence(q), NEW r, Sequence(r), NEW topic, NEW v,
           \A i \in DOMAIN q : Tells(q[i], topic) => q[i].value = v,
           LastSays(r, topic, v)
    PROVE  LastSays(q \o r, topic, v)
<1> DEFINE m == Len(q)
           n == Len(r)
           p == q \o r
<1>1. /\ m \in Nat /\ n \in Nat /\ DOMAIN q = 1..m /\ DOMAIN r = 1..n
      /\ DOMAIN p = 1..(m + n)
      /\ \A i \in 1..m : p[i] = q[i]
      /\ \A i \in 1..n : p[m + i] = r[i]
  BY SequenceConcat DEF Sequence
<1> HIDE DEF m, n, p
<1> SUFFICES ASSUME NEW i \in DOMAIN p, Tells(p[i], topic),
                    \A j \in DOMAIN p : Tells(p[j], topic) => j <= i
             PROVE  p[i].value = v
  BY DEF LastSays, p
<1>2. CASE i \in 1..m
  BY <1>1, <1>2
<1>3. CASE i \notin 1..m
  <2>1. i - m \in 1..n /\ m + (i - m) = i /\ i \in Nat
    BY <1>1, <1>3
  <2>2. p[i] = r[i - m]
    BY <1>1, <2>1
  <2>3. ASSUME NEW j \in DOMAIN r, Tells(r[j], topic)
        PROVE  j <= i - m
    <3>1. m + j \in DOMAIN p /\ p[m + j] = r[j]
      BY <1>1
    <3>2. m + j <= i
      BY <2>3, <3>1
    <3> QED BY <1>1, <2>1, <3>2
  <2> QED BY <1>1, <2>1, <2>2, <2>3 DEF LastSays
<1> QED BY <1>2, <1>3

\* Frames in front of others, of which some are replaced by ones that have the value.
LEMMA SaysReplaced ==
    ASSUME NEW a, Sequence(a), NEW b, Sequence(b), Len(b) = Len(a), NEW r, Sequence(r),
           NEW topic, NEW v,
           \A i \in DOMAIN a : /\ Tells(a[i], topic) => Tells(b[i], topic)
                               /\ b[i] = a[i] \/ (Tells(b[i], topic) => b[i].value = v),
           LastSays(a \o r, topic, v)
    PROVE  LastSays(b \o r, topic, v)
<1>0. ASSUME NEW c, Sequence(c)
      PROVE  /\ Len(c) \in Nat /\ DOMAIN c = 1..Len(c)
             /\ DOMAIN (c \o r) = 1..(Len(c) + Len(r))
             /\ \A i \in 1..Len(c) : (c \o r)[i] = c[i]
             /\ \A i \in 1..Len(r) : (c \o r)[Len(c) + i] = r[i]
  BY <1>0, SequenceConcat DEF Sequence
<1> DEFINE m == Len(a)
           n == Len(r)
           p == a \o r
           q == b \o r
<1>1. /\ m \in Nat /\ n \in Nat /\ DOMAIN a = 1..m /\ DOMAIN b = 1..m /\ DOMAIN r = 1..n
      /\ DOMAIN p = 1..(m + n)
      /\ \A i \in 1..m : p[i] = a[i]
      /\ \A i \in 1..n : p[m + i] = r[i]
  BY <1>0 DEF Sequence
<1>2. /\ DOMAIN q = 1..(m + n)
      /\ \A i \in 1..m : q[i] = b[i]
      /\ \A i \in 1..n : q[m + i] = r[i]
  BY <1>0
<1>3. LastSays(p, topic, v)
  OBVIOUS
<1> HIDE DEF m, n, p, q
<1>4. \A i \in 1..(m + n) : \/ i \in 1..m
                            \/ i - m \in 1..n /\ m + (i - m) = i
  BY <1>1
<1>5. ASSUME NEW i \in DOMAIN q
      PROVE  /\ i \in DOMAIN p
             /\ Tells(p[i], topic) => Tells(q[i], topic)
             /\ q[i] = p[i] \/ (Tells(q[i], topic) => q[i].value = v)
  <2>1. CASE i \in 1..m
    BY <1>1, <1>2, <2>1
  <2>2. CASE i - m \in 1..n /\ m + (i - m) = i
    <3>1. q[i] = p[i]
      BY <1>1, <1>2, <2>2
    <3> QED BY <1>1, <1>2, <3>1
  <2> QED BY <1>2, <1>4, <2>1, <2>2
<1>6. LastSays(q, topic, v)
  BY <1>1, <1>2, <1>3, <1>5 DEF LastSays
<1> QED BY <1>6 DEF q

\* Sequences with the same elements.
LEMMA SameSequence ==
    ASSUME NEW q, Sequence(q), NEW r, Sequence(r), Len(q) = Len(r),
           \A i \in 1..Len(q) : q[i] = r[i]
    PROVE  q = r
  BY DEF Sequence

\* What is appended to the second of two is appended to both.
LEMMA AppendBehind ==
    ASSUME NEW q, Sequence(q), NEW r, Sequence(r), NEW f
    PROVE  q \o Append(r, f) = Append(q \o r, f) /\ Sequence(q \o r)
<1> DEFINE m == Len(q)
           n == Len(r)
           a == Append(r, f)
           p == q \o r
           x == q \o a
           y == Append(p, f)
<1>1. /\ Sequence(a) /\ Len(a) = n + 1 /\ a[n + 1] = f /\ \A i \in 1..n : a[i] = r[i]
      /\ m \in Nat /\ n \in Nat
  BY SequenceAppend DEF Sequence
<1>2. /\ Sequence(p) /\ Len(p) = m + n
      /\ \A i \in 1..m : p[i] = q[i]
      /\ \A i \in 1..n : p[m + i] = r[i]
  BY SequenceConcat
<1>3. /\ Sequence(x) /\ Len(x) = m + Len(a)
      /\ \A i \in 1..m : x[i] = q[i]
      /\ \A i \in 1..Len(a) : x[m + i] = a[i]
  <2> HIDE DEF a
  <2>1. Sequence(q) /\ Sequence(a)
    BY <1>1
  <2>2. Sequence(q \o a)
    BY <2>1, SequenceConcat
  <2>3. Len(q \o a) = Len(q) + Len(a)
    BY <2>1, SequenceConcat
  <2>4. \A i \in 1..Len(q) : (q \o a)[i] = q[i]
    BY <2>1, SequenceConcat
  <2>5. \A i \in 1..Len(a) : (q \o a)[Len(q) + i] = a[i]
    BY <2>1, SequenceConcat
  <2> QED BY <2>2, <2>3, <2>4, <2>5
<1>4. /\ Sequence(y) /\ Len(y) = Len(p) + 1 /\ y[Len(p) + 1] = f
      /\ \A i \in 1..Len(p) : y[i] = p[i]
  <2> HIDE DEF p
  <2> QED BY <1>2, SequenceAppend
<1> HIDE DEF m, n, a, p, x, y
<1>5. ASSUME NEW i \in 1..(m + n + 1)
      PROVE  x[i] = y[i]
  <2>1. CASE i \in 1..m
    BY <1>1, <1>2, <1>3, <1>4, <2>1
  <2>2. CASE i \notin 1..m
    <3>1. i - m \in 1..(n + 1) /\ m + (i - m) = i
      BY <1>1, <2>2
    <3>2. x[i] = a[i - m]
      BY <1>1, <1>3, <3>1
    <3>3. CASE i - m \in 1..n
      <4>1. i \in 1..(m + n)
        BY <1>1, <3>1, <3>3
      <4>2. p[i] = r[i - m]
        BY <1>2, <3>1, <3>3
      <4> QED BY <1>1, <1>2, <1>4, <3>2, <3>3, <4>1, <4>2
    <3>4. CASE i - m \notin 1..n
      <4>1. i - m = n + 1 /\ i = m + n + 1
        BY <1>1, <3>1, <3>4
      <4> QED BY <1>1, <1>2, <1>4, <3>2, <4>1
    <3> QED BY <3>3, <3>4
  <2> QED BY <2>1, <2>2
<1>6. Len(x) = m + n + 1 /\ Len(y) = m + n + 1
  BY <1>1, <1>2, <1>3, <1>4
<1>7. x = y
  BY <1>3, <1>4, <1>5, <1>6, SameSequence
<1> QED BY <1>2, <1>7 DEF x, y, a, p

\* The first of the second moves behind the first.
LEMMA MoveOver ==
    ASSUME NEW q, Sequence(q), NEW r, Sequence(r), r # <<>>
    PROVE  Append(q, Head(r)) \o Tail(r) = q \o r
<1> DEFINE m == Len(q)
           n == Len(r)
           a == Append(q, Head(r))
           b == Tail(r)
           x == a \o b
           y == q \o r
<1>1. /\ Sequence(a) /\ Len(a) = m + 1 /\ a[m + 1] = Head(r) /\ \A i \in 1..m : a[i] = q[i]
      /\ m \in Nat /\ n \in Nat
  BY SequenceAppend DEF Sequence
<1>2. /\ Sequence(b) /\ Len(b) = n - 1 /\ Head(r) = r[1] /\ n >= 1
      /\ \A i \in 2..n : b[i - 1] = r[i]
  BY SequenceTail
<1>3. /\ Sequence(y) /\ Len(y) = m + n
      /\ \A i \in 1..m : y[i] = q[i]
      /\ \A i \in 1..n : y[m + i] = r[i]
  BY SequenceConcat
<1>4. /\ Sequence(x) /\ Len(x) = Len(a) + Len(b)
      /\ \A i \in 1..Len(a) : x[i] = a[i]
      /\ \A i \in 1..Len(b) : x[Len(a) + i] = b[i]
  <2> HIDE DEF a, b
  <2>1. Sequence(a) /\ Sequence(b)
    BY <1>1, <1>2
  <2>2. Sequence(a \o b)
    BY <2>1, SequenceConcat
  <2>3. Len(a \o b) = Len(a) + Len(b)
    BY <2>1, SequenceConcat
  <2>4. \A i \in 1..Len(a) : (a \o b)[i] = a[i]
    BY <2>1, SequenceConcat
  <2>5. \A i \in 1..Len(b) : (a \o b)[Len(a) + i] = b[i]
    BY <2>1, SequenceConcat
  <2> QED BY <2>2, <2>3, <2>4, <2>5
<1> HIDE DEF m, n, a, b, x, y
<1>5. ASSUME NEW i \in 1..(m + n)
      PROVE  x[i] = y[i]
  <2>1. CASE i \in 1..m
    BY <1>1, <1>3, <1>4, <2>1
  <2>2. CASE i = m + 1
    <3>1. x[i] = Head(r)
      BY <1>1, <1>4, <2>2
    <3>2. y[m + 1] = r[1]
      BY <1>2, <1>3
    <3> QED BY <1>2, <2>2, <3>1, <3>2
  <2>3. CASE i \notin 1..(m + 1)
    <3>1. i - m \in 2..n /\ m + (i - m) = i /\ (i - m) - 1 \in 1..(n - 1)
          /\ (m + 1) + ((i - m) - 1) = i /\ i - m \in 1..n
      BY <1>1, <1>2, <2>3
    <3>2. x[i] = b[(i - m) - 1]
      BY <1>1, <1>2, <1>4, <3>1
    <3>3. y[i] = r[i - m]
      BY <1>3, <3>1
    <3> QED BY <1>2, <3>1, <3>2, <3>3
  <2> QED BY <1>1, <2>1, <2>2, <2>3
<1>6. Len(x) = m + n /\ Len(y) = m + n
  BY <1>1, <1>2, <1>3, <1>4
<1>7. x = y
  BY <1>3, <1>4, <1>5, <1>6, SameSequence
<1> QED BY <1>7 DEF x, y, a, b

\* Nothing stands in front of the frames of an empty sequence.
LEMMA EmptyFront ==
    ASSUME NEW q, Sequence(q)
    PROVE  <<>> \o q = q /\ q \o <<>> = q
<1>1. q \in Seq({q[i] : i \in 1..Len(q)})
  BY DEF Sequence
<1> QED BY <1>1, ConcatEmptySeq

\* A client that looks at the last frame of a topic sees what it says.
LEMMA ViewIsLast ==
    ASSUME NEW s, NEW topic, NEW v, Sequence(received[s]), LastSays(received[s], topic, v),
           \E i \in DOMAIN received[s] : Tells(received[s][i], topic)
    PROVE  View(s, topic) = v
<1> DEFINE I == {i \in 1..Len(received[s]) : received[s][i].topic = topic /\ received[s][i].reset}
<1>1. DOMAIN received[s] = 1..Len(received[s]) /\ Len(received[s]) \in Nat
  BY DEF Sequence
<1>2. \A i : i \in I <=> i \in DOMAIN received[s] /\ Tells(received[s][i], topic)
  BY <1>1 DEF Tells
<1>3. I # {} /\ I \subseteq 0..Len(received[s])
  BY <1>1, <1>2
<1>4. View(s, topic) = IF Max(I) = 0 THEN <<>> ELSE received[s][Max(I)].value
  <2>1. SelectLastInSeq(received[s], LAMBDA f : f.topic = topic /\ f.reset) = Max(I)
    BY <1>3 DEF SelectLastInSeq
  <2> QED BY <2>1 DEF View
<1> HIDE DEF I
<1>5. PICK x \in I : \A y \in I : y <= x
  BY <1>1, <1>3, LargestExists
<1>6. \A y \in I : x >= y
  BY <1>1, <1>3, <1>5
<1>7. Max(I) \in I /\ \A y \in I : Max(I) >= y
  BY <1>5, <1>6 DEF Max
<1>8. Max(I) # 0 /\ \A y \in I : y <= Max(I)
  BY <1>1, <1>2, <1>3, <1>7
<1>9. received[s][Max(I)].value = v
  BY <1>2, <1>7, <1>8 DEF LastSays
<1> QED BY <1>4, <1>8, <1>9

\* A subscription that asks for a topic wants snapshots of it or events.
LEMMA WantsOne ==
    ASSUME BusInvariant, NEW s \in Subs, NEW topic \in Range(request[s].topics)
    PROVE  WantsSnapshots(s, topic) \/ WantsEvents(s, topic)
<1>1. request[s] \in SubRequests \cup {NoRequest}
  BY DEF BusInvariant, SubscriptionsAreListed
<1>2. request[s].mode \in Modes
  <2>1. CASE request[s] \in SubRequests
    <3>1. SubRequests \subseteq [mode: Modes, bootstrap: BOOLEAN, topics: Seq(Topics) \ {<<>>}]
      BY RuntimeDaemonAssumption
    <3>2. request[s] \in [mode: Modes, bootstrap: BOOLEAN, topics: Seq(Topics) \ {<<>>}]
      BY <2>1, <3>1
    <3> QED BY <3>2
  <2>2. CASE request[s] = NoRequest
    BY <2>2 DEF NoRequest, Modes
  <2> QED BY <1>1, <2>1, <2>2
<1> QED BY <1>2 DEF WantsSnapshots, WantsEvents, WantsTopic, Modes

\* Steps that issue nothing and change neither state nor file.
LEMMA MovesKeepWriter ==
    ASSUME OneWriterInvariant, CurrentInvariant',
           UNCHANGED <<runtimeState, styleFile, issued>>,
           faults' = 0 => faults = 0,
           DOMAIN topics' = Threads,
           \A t \in Threads : topics'[t] # <<>> => pc'[t] \in {"effects", "topics"},
           \A t \in Threads : HoldsAny(t)' => HoldsAny(t),
           \A s \in Subs : InitialKept(s)',
           \A f : Held(f)' => Held(f) \/ Fresh(f),
           faults' = 0 /\ OneWriterLeads =>
              \A s \in Subs : Served(s)' =>
                 \A topic \in Range(request'[s].topics) \ {"session"} : Leads(s, topic)'
    PROVE  OneWriterInvariant'
<1>1. \A f : Fresh(f)' <=> Fresh(f)
  BY DEF Fresh, Current
<1>2. OneWriter' <=> OneWriter
  BY DEF OneWriter
<1>3. ASSUME OneWriter', faults' = 0
      PROVE  OneWriterLeads'
  <2>1. OneWriterLeads
    BY <1>2, <1>3 DEF OneWriterInvariant
  <2>2. \A f : Held(f)' => Fresh(f)'
    BY <1>1, <2>1 DEF OneWriterLeads
  <2>3. \A s \in Subs : Served(s)' =>
           \A topic \in Range(request'[s].topics) \ {"session"} : Leads(s, topic)'
    BY <1>3, <2>1
  <2> QED BY <2>2, <2>3 DEF OneWriterLeads
<1>4. \A t \in Threads : HoldsAny(t)' => \E q \in DOMAIN issued' : issued'[q].by = t
  BY DEF OneWriterInvariant
<1> QED BY <1>3, <1>4 DEF OneWriterInvariant

\* A stream that stays leads where it led, unless a frame is no longer awaited.
LEMMA SameStream ==
    ASSUME NEW s, NEW topic, UNCHANGED <<runtimeState, styleFile, received, queue>>,
           Leads(s, topic), Awaits(s, topic) => Awaits(s, topic)'
    PROVE  Leads(s, topic)'
<1>1. UNCHANGED <<Stream(s), Current(topic)>>
  BY DEF Stream, Current
<1>2. LastSays(Stream(s), topic, Current(topic)) => LastSays(Stream(s), topic, Current(topic))'
  BY <1>1 DEF LastSays
<1> QED BY <1>2 DEF Leads

\* Thread t issues these deltas for the state and the file of now, and will broadcast these
\* topics: together they name all that the step changes.
IssuesChanges(t, deltas, list) ==
    /\ frames[t] = <<>> /\ topics[t] = <<>>
    /\ todo[t] = <<>> \/ UNCHANGED <<runtimeState, styleFile>>
    /\ Sequence(deltas) /\ IssueEvents(t, deltas)
    /\ topics'[t] = list /\ (list # <<>> => deltas # <<>>)
    /\ DOMAIN topics' = Threads /\ \A u \in Threads : u # t => topics'[u] = topics[u]
    /\ \A u \in Threads : topics'[u] # <<>> => pc'[u] \in {"effects", "topics"}
    /\ \A i \in 1..Len(deltas) : deltas[i].reset =>
          deltas[i].value = TopicEntries(deltas[i].topic, runtimeState', styleFile')
    /\ \A topic \in Topics \ {"session"} : Current(topic)' # Current(topic) =>
          /\ topic \in Range(list)
          /\ \E i \in 1..Len(deltas) : deltas[i].reset /\ deltas[i].topic = topic
    /\ UNCHANGED <<todo, subVars, queue, faults>>

LEMMA IssueKeepsWriter ==
    ASSUME OneWriterInvariant, CurrentInvariant', NEW t \in Threads,
           NEW deltas, NEW list, IssuesChanges(t, deltas, list)
    PROVE  OneWriterInvariant'
<1>0. /\ frames[t] = <<>> /\ topics[t] = <<>>
      /\ todo[t] = <<>> \/ UNCHANGED <<runtimeState, styleFile>>
      /\ Sequence(deltas) /\ IssueEvents(t, deltas)
      /\ topics'[t] = list /\ (list # <<>> => deltas # <<>>)
      /\ DOMAIN topics' = Threads /\ \A u \in Threads : u # t => topics'[u] = topics[u]
      /\ \A u \in Threads : topics'[u] # <<>> => pc'[u] \in {"effects", "topics"}
      /\ \A i \in 1..Len(deltas) : deltas[i].reset =>
            deltas[i].value = TopicEntries(deltas[i].topic, runtimeState', styleFile')
      /\ \A topic \in Topics \ {"session"} : Current(topic)' # Current(topic) =>
            /\ topic \in Range(list)
            /\ \E i \in 1..Len(deltas) : deltas[i].reset /\ deltas[i].topic = topic
      /\ UNCHANGED <<todo, subVars, queue, faults>>
  BY DEF IssuesChanges
<1> DEFINE n == nextEventSeq
           m == Len(deltas)
<1>1. BusInvariant /\ DOMAIN topics = Threads
  BY DEF OneWriterInvariant, CurrentInvariant, DeliveryInvariant
<1>2. /\ DOMAIN issued' = 1..(n - 1 + m) /\ DOMAIN issued = 1..(n - 1)
      /\ n \in Nat \ {0} /\ m \in Nat
      /\ \A q \in 1..(n - 1) : issued'[q] = issued[q]
      /\ \A i \in 1..m : issued'[n - 1 + i] = Entry(t, deltas[i])
  BY <1>0, <1>1, IssuedLog
<1>3. /\ frames'[t] = RealizeEvents(n, deltas)
      /\ \A u \in Threads : u # t => frames'[u] = frames[u] /\ topics'[u] = topics[u]
      /\ topics'[t] = list /\ DOMAIN topics' = Threads
  BY <1>0, <1>1 DEF IssueEvents, BusInvariant, EventsAreNumbered
<1>4. m = 0 => deltas = <<>>
  <2>1. deltas \in Seq({deltas[i] : i \in 1..Len(deltas)})
    BY <1>0 DEF Sequence
  <2> QED BY <2>1
<1> HIDE DEF n, m
<1>5. /\ DOMAIN frames'[t] = 1..m
      /\ \A i \in 1..m : /\ frames'[t][i].topic = deltas[i].topic
                         /\ frames'[t][i].reset = deltas[i].reset
                         /\ frames'[t][i].value = deltas[i].value
  <2>1. /\ DOMAIN frames'[t] = 1..m
        /\ \A i \in 1..m : frames'[t][i] = EventFrame(n + i - 1, deltas[i])
    BY <1>3 DEF RealizeEvents, m
  <2>2. \A seq, d : EventFrame(seq, d).topic = d.topic
    BY DEF EventFrame
  <2>3. \A seq, d : EventFrame(seq, d).reset = d.reset
    BY DEF EventFrame
  <2>4. \A seq, d : EventFrame(seq, d).value = d.value
    BY DEF EventFrame
  <2> QED BY <2>1, <2>2, <2>3, <2>4
<1>6. /\ DOMAIN issued \subseteq DOMAIN issued'
      /\ \A q \in DOMAIN issued : issued'[q] = issued[q]
      /\ m # 0 => n \in DOMAIN issued' /\ issued'[n].by = t
  <2>1. m # 0 => 1 \in 1..m /\ n - 1 + 1 = n /\ n \in 1..(n - 1 + m)
    BY <1>2
  <2>2. m # 0 => issued'[n] = Entry(t, deltas[1])
    BY <1>2, <2>1
  <2> QED BY <1>2, <2>1, <2>2 DEF Entry
<1>7. m = 0 => frames'[t] = <<>>
  BY <1>3, <1>4 DEF RealizeEvents
<1>8. ASSUME NEW u \in Threads, HoldsAny(u)'
      PROVE  \E q \in DOMAIN issued' : issued'[q].by = u
  <2>1. CASE HoldsAny(u)
    <3>1. PICK q \in DOMAIN issued : issued[q].by = u
      BY <2>1 DEF OneWriterInvariant
    <3> QED BY <1>6, <3>1
  <2>2. CASE ~ HoldsAny(u)
    <3>1. u = t /\ (list # <<>> \/ frames'[t] # <<>>)
      BY <1>0, <1>3, <1>8, <2>2 DEF HoldsAny
    <3>2. m # 0
      BY <1>0, <1>4, <1>7, <3>1
    <3> QED BY <1>6, <3>1, <3>2
  <2> QED BY <2>1, <2>2
<1>9. \A s \in Subs : InitialKept(s)'
  BY <1>0 DEF OneWriterInvariant, InitialKept, subVars
<1>10. ASSUME OneWriter', faults' = 0
       PROVE  OneWriterLeads'
  <2>1. OneWriter
    BY <1>6, <1>10 DEF OneWriter
  <2>2. OneWriterLeads
    BY <1>0, <1>10, <2>1 DEF OneWriterInvariant
  <2>3. ASSUME m # 0, NEW u \in Threads, u # t
        PROVE  ~ HoldsAny(u)
    <3>1. SUFFICES ASSUME HoldsAny(u) PROVE FALSE
      OBVIOUS
    <3>2. PICK q \in DOMAIN issued : issued[q].by = u
      BY <3>1 DEF OneWriterInvariant
    <3>3. issued'[q].by = issued'[n].by
      BY <1>6, <1>10, <2>3, <3>2 DEF OneWriter
    <3> QED BY <1>6, <2>3, <3>2, <3>3
  <2>4. ASSUME m = 0, NEW topic \in Topics \ {"session"}
        PROVE  Current(topic)' = Current(topic)
    <3>1. \A i : i \notin 1..0
      OBVIOUS
    <3> QED BY <1>0, <2>4, <3>1 DEF m
  <2>5. ASSUME NEW f, Held(f)'
        PROVE  Fresh(f)'
    <3>1. CASE \E i \in DOMAIN frames'[t] : f = frames'[t][i]
      <4>1. PICK i \in 1..m : f = frames'[t][i]
        BY <1>5, <3>1
      <4>2. f.reset => f.value = TopicEntries(f.topic, runtimeState', styleFile')
        BY <1>0, <1>5, <4>1 DEF m
      <4> QED BY <4>2 DEF Fresh, Current
    <3>2. CASE \E i \in DOMAIN todo[t] : f = todo[t][i].frame
      <4>1. UNCHANGED <<runtimeState, styleFile>>
        BY <1>0, <3>2, EmptyList
      <4>2. Fresh(f)
        BY <2>2, <3>2 DEF Held, OneWriterLeads
      <4> QED BY <4>1, <4>2 DEF Fresh, Current
    <3>3. CASE \E u \in Threads : u # t /\ \/ \E i \in DOMAIN frames[u] : f = frames[u][i]
                                           \/ \E i \in DOMAIN todo[u] : f = todo[u][i].frame
      <4>1. PICK u \in Threads : u # t /\ \/ \E i \in DOMAIN frames[u] : f = frames[u][i]
                                          \/ \E i \in DOMAIN todo[u] : f = todo[u][i].frame
        BY <3>3
      <4>2. HoldsAny(u)
        BY <4>1, EmptyList DEF HoldsAny
      <4>3. m = 0
        BY <2>3, <4>1, <4>2
      <4>4. Fresh(f)
        BY <2>2, <4>1 DEF Held, OneWriterLeads
      <4>5. f.topic \in Topics \ {"session"} => Current(f.topic)' = Current(f.topic)
        BY <2>4, <4>3
      <4> QED BY <4>4, <4>5 DEF Fresh
    <3> QED BY <1>0, <1>3, <2>5, <3>1, <3>2, <3>3 DEF Held
  <2>6. ASSUME NEW s \in Subs, Served(s)', NEW topic \in Range(request'[s].topics) \ {"session"}
        PROVE  Leads(s, topic)'
    <3>1. /\ Served(s) /\ topic \in Range(request[s].topics) \ {"session"}
          /\ UNCHANGED <<received, queue, todo, request>>
      BY <1>0, <2>6 DEF Served, subVars
    <3>2. /\ WantsSnapshots(s, topic)' <=> WantsSnapshots(s, topic)
          /\ WantsEvents(s, topic)' <=> WantsEvents(s, topic)
      BY <3>1 DEF WantsSnapshots, WantsEvents, WantsTopic
    <3>3. topic \in Topics \ {"session"}
      BY <1>1, <3>1, WantedAreTopics
    <3>4. CASE Current(topic)' # Current(topic)
      <4>1. PICK i \in 1..m : deltas[i].reset /\ deltas[i].topic = topic
        BY <1>0, <3>3, <3>4 DEF m
      <4>2. i \in DOMAIN frames'[t] /\ Tells(frames'[t][i], topic)
        BY <1>5, <4>1 DEF Tells
      <4>3. topic \in Range(topics'[t])
        BY <1>0, <1>3, <3>3, <3>4
      <4>4. Awaits(s, topic)'
        BY <1>1, <3>1, <3>2, <4>2, <4>3, WantsOne DEF Awaits
      <4> QED BY <4>4 DEF Leads
    <3>5. CASE Current(topic)' = Current(topic)
      <4>1. ASSUME Awaits(s, topic)
            PROVE  Awaits(s, topic)'
        <5>1. PICK u \in Threads :
                 \/ WantsSnapshots(s, topic) /\ topic \in Range(topics[u])
                 \/ WantsEvents(s, topic) /\ \E i \in DOMAIN frames[u] : Tells(frames[u][i], topic)
                 \/ \E i \in DOMAIN todo[u] : s \in todo[u][i].to /\ Tells(todo[u][i].frame, topic)
          BY <4>1 DEF Awaits
        <5>2. CASE u = t
          BY <1>0, <3>1, <5>1, <5>2, EmptyList DEF Awaits
        <5>3. CASE u # t
          BY <1>3, <3>1, <3>2, <5>1, <5>3 DEF Awaits
        <5> QED BY <5>2, <5>3
      <4>2. UNCHANGED Stream(s)
        BY <3>1 DEF Stream
      <4>3. Leads(s, topic)
        BY <2>2, <3>1 DEF OneWriterLeads
      <4>4. LastSays(Stream(s), topic, Current(topic)) =>
                LastSays(Stream(s), topic, Current(topic))'
        BY <3>5, <4>2 DEF LastSays
      <4> QED BY <4>1, <4>3, <4>4 DEF Leads
    <3> QED BY <3>4, <3>5
  <2> QED BY <2>5, <2>6 DEF OneWriterLeads
<1> QED BY <1>0, <1>8, <1>9, <1>10 DEF OneWriterInvariant

\* A commit announces what it changes, and announces nothing without an event.
LEMMA CommitKeepsWriter ==
    ASSUME OneWriterInvariant, CurrentInvariant', NEW t \in Threads,
           NEW command, Commit(t, command)
    PROVE  OneWriterInvariant'
<1> DEFINE result == Handle(command, runtimeState, styleFile)
           deltas == result.deltas
           list == result.topics
<1>1. Sequence(deltas) /\ (list # <<>> => deltas # <<>>)
  BY DeltasAreSequences, TopicsHaveEvents
<1>2. /\ pc[t] = "idle" /\ IssueEvents(t, deltas)
      /\ runtimeState' = result.state /\ styleFile' = result.file
      /\ topics' = [topics EXCEPT ![t] = list]
      /\ pc' = [pc EXCEPT ![t] = IF result.effects = <<>> THEN "topics" ELSE "effects"]
      /\ UNCHANGED <<todo, subVars, queue, faults>>
  BY DEF Commit
<1>3. /\ Shaped(runtimeState) /\ DOMAIN topics = Threads /\ pc \in [Threads -> PCs]
      /\ frames[t] = <<>> /\ todo[t] = <<>> /\ topics[t] = <<>>
  BY <1>2 DEF OneWriterInvariant, CurrentInvariant, DeliveryInvariant, BusInvariant,
              ThreadsHoldFrames
<1>4. \A u \in Threads : topics'[u] # <<>> => pc'[u] \in {"effects", "topics"}
  BY <1>2, <1>3 DEF OneWriterInvariant
<1>5. \A i \in 1..Len(deltas) : deltas[i].reset =>
         deltas[i] = ResetDelta(deltas[i].topic, runtimeState', styleFile')
  BY <1>2, ResetsAreNew
<1>6. Announces(result, runtimeState, styleFile)
  BY <1>3, HandlersAnnounce
<1>7. \A topic \in Topics \ {"session"} : Current(topic)' # Current(topic) =>
         topic \in Range(list) /\ ResetDelta(topic, runtimeState', styleFile') \in Range(deltas)
  BY <1>2, <1>6 DEF Announces, Current
<1> HIDE DEF result, deltas, list
<1>8. \A topic, r, f : /\ ResetDelta(topic, r, f).topic = topic
                       /\ ResetDelta(topic, r, f).reset
                       /\ ResetDelta(topic, r, f).value = TopicEntries(topic, r, f)
  BY DEF ResetDelta
<1>9. \A i \in 1..Len(deltas) : deltas[i].reset =>
         deltas[i].value = TopicEntries(deltas[i].topic, runtimeState', styleFile')
  BY <1>5, <1>8
<1>10. ASSUME NEW topic \in Topics \ {"session"}, Current(topic)' # Current(topic)
       PROVE  /\ topic \in Range(list)
              /\ \E i \in 1..Len(deltas) : deltas[i].reset /\ deltas[i].topic = topic
  <2>1. PICK i \in DOMAIN deltas : deltas[i] = ResetDelta(topic, runtimeState', styleFile')
    BY <1>7, <1>10 DEF Range
  <2>2. i \in 1..Len(deltas)
    BY <1>1, <2>1 DEF Sequence
  <2>3. deltas[i].reset /\ deltas[i].topic = topic
    BY <1>8, <2>1
  <2> QED BY <1>7, <1>10, <2>2, <2>3
<1>11. /\ topics'[t] = list /\ DOMAIN topics' = Threads
       /\ \A u \in Threads : u # t => topics'[u] = topics[u]
  BY <1>2, <1>3
<1>12. IssuesChanges(t, deltas, list)
  BY <1>1, <1>2, <1>3, <1>4, <1>9, <1>10, <1>11 DEF IssuesChanges
<1> QED BY <1>12, IssueKeepsWriter

\* The report of failed effects changes nothing.
LEMMA IssueStatusKeepsWriter ==
    ASSUME OneWriterInvariant, CurrentInvariant', NEW t \in Threads, IssueStatus(t)
    PROVE  OneWriterInvariant'
<1> DEFINE deltas == [i \in 1..failed[t] |-> ActionFailed]
<1>1. /\ failed[t] \in Nat /\ pc \in [Threads -> PCs] /\ (frames[t] # <<>> => pc[t] # "status")
      /\ DOMAIN topics = Threads /\ (topics[t] # <<>> => pc[t] # "status")
  BY DEF OneWriterInvariant, CurrentInvariant, DeliveryInvariant, BusInvariant, ThreadsHoldFrames
<1>2. Sequence(deltas) /\ Len(deltas) = failed[t]
  BY <1>1 DEF Sequence
<1>3. \A i \in 1..failed[t] : deltas[i] = ActionFailed
  OBVIOUS
<1>4. /\ pc[t] = "status" /\ IssueEvents(t, deltas)
      /\ UNCHANGED <<runtimeState, styleFile, topics>>
      /\ pc' = [pc EXCEPT ![t] = "events"]
      /\ UNCHANGED <<todo, subVars, queue, faults>>
  BY DEF IssueStatus
<1> HIDE DEF deltas
<1>5. \A i \in 1..Len(deltas) : ~ deltas[i].reset
  BY <1>2, <1>3 DEF ActionFailed
<1>6. \A topic : Current(topic)' = Current(topic)
  BY <1>4 DEF Current
<1>7. frames[t] = <<>> /\ topics[t] = <<>>
  BY <1>1, <1>4
<1>8. topics'[t] = <<>> /\ DOMAIN topics' = Threads
  BY <1>1, <1>4, <1>7
<1>9. \A u \in Threads : topics'[u] # <<>> => pc'[u] \in {"effects", "topics"}
  BY <1>1, <1>4, <1>7 DEF OneWriterInvariant
<1>10. IssuesChanges(t, deltas, <<>>)
  BY <1>2, <1>4, <1>5, <1>6, <1>7, <1>8, <1>9 DEF IssuesChanges
<1> QED BY <1>10, IssueKeepsWriter

\* An exception leaves the promise.
LEMMA FaultKeepsWriter ==
    ASSUME OneWriterInvariant, CurrentInvariant', NEW t \in Threads,
           NEW command, CommitAborts(t, command)
    PROVE  OneWriterInvariant'
<1>1. /\ pc[t] = "idle" /\ faults' = faults + 1
      /\ \A u \in Threads : u # t => pc'[u] = pc[u]
      /\ UNCHANGED <<issued, frames, topics, todo, subVars>>
  BY DEF CommitAborts, OneWriterInvariant, CurrentInvariant, DeliveryInvariant, BusInvariant,
         ThreadsHoldFrames
<1>2. faults' # 0
  BY <1>1 DEF OneWriterInvariant, CurrentInvariant, CountsAreNumbers
<1>3. \A u \in Threads : topics'[u] # <<>> => pc'[u] \in {"effects", "topics"}
  BY <1>1 DEF OneWriterInvariant
<1>4. \A u \in Threads : HoldsAny(u)' => \E q \in DOMAIN issued' : issued'[q].by = u
  BY <1>1 DEF OneWriterInvariant, HoldsAny
<1>5. \A s \in Subs : InitialKept(s)'
  BY <1>1 DEF OneWriterInvariant, InitialKept, subVars
<1> QED BY <1>1, <1>2, <1>3, <1>4, <1>5 DEF OneWriterInvariant

\* The steps of a handler pass on what it holds, and a broadcast adds frames of the state of
\* now.
LEMMA HandlerKeepsWriter ==
    ASSUME OneWriterInvariant, CurrentInvariant', NEW t \in Threads, HandlerStep(t)
    PROVE  OneWriterInvariant'
<1>1. /\ DeliveryInvariant /\ BusInvariant /\ faults \in Nat
      /\ DOMAIN frames = Threads /\ DOMAIN todo = Threads /\ DOMAIN topics = Threads
      /\ pc \in [Threads -> PCs] /\ DOMAIN queue = Subs
      /\ \A u \in Threads : topics[u] # <<>> => pc[u] \in {"effects", "topics"}
      /\ \A u \in Threads : todo[u] # <<>> => pc[u] \in {"events", "status"}
  BY DEF OneWriterInvariant, CurrentInvariant, DeliveryInvariant, BusInvariant,
         EventsAreNumbered, ThreadsHoldFrames, SubscriptionsAreListed, CountsAreNumbers
<1>2. ASSUME UNCHANGED <<serverVars, subVars>>, faults' = 0 => faults = 0,
             DOMAIN topics' = Threads,
             \A u \in Threads : topics'[u] # <<>> => pc'[u] \in {"effects", "topics"},
             \A u \in Threads : HoldsAny(u)' => HoldsAny(u),
             \A f : Held(f)' => Held(f) \/ Fresh(f),
             faults' = 0 /\ OneWriterLeads =>
                \A s \in Subs : Served(s) =>
                   \A topic \in Range(request[s].topics) \ {"session"} : Leads(s, topic)'
      PROVE  OneWriterInvariant'
  <2>1. UNCHANGED <<runtimeState, styleFile, issued, request, phase, received>>
    BY <1>2 DEF serverVars, subVars
  <2>2. \A s \in Subs : InitialKept(s)'
    BY <2>1 DEF OneWriterInvariant, InitialKept
  <2>3. faults' = 0 /\ OneWriterLeads =>
           \A s \in Subs : Served(s)' =>
              \A topic \in Range(request'[s].topics) \ {"session"} : Leads(s, topic)'
    BY <1>2, <2>1 DEF Served
  <2> QED BY <1>2, <2>1, <2>2, <2>3, MovesKeepWriter
<1>3. ASSUME UNCHANGED <<serverVars, subVars, queue>>,
             \A s \in Subs : Served(s) => \A topic : Awaits(s, topic) => Awaits(s, topic)'
      PROVE  OneWriterLeads =>
                \A s \in Subs : Served(s) =>
                   \A topic \in Range(request[s].topics) \ {"session"} : Leads(s, topic)'
  <2>1. UNCHANGED <<runtimeState, styleFile, received, queue>>
    BY <1>3 DEF serverVars, subVars
  <2> QED BY <1>3, <2>1, SameStream DEF OneWriterLeads
<1>4. \A u \in Threads : ~ \E i \in DOMAIN <<>> : TRUE
  OBVIOUS
<1>5. ASSUME UNCHANGED request, NEW s, NEW topic
      PROVE  /\ WantsSnapshots(s, topic)' <=> WantsSnapshots(s, topic)
             /\ WantsEvents(s, topic)' <=> WantsEvents(s, topic)
  BY <1>5 DEF WantsSnapshots, WantsEvents, WantsTopic
<1>6. CASE EffectSucceeds(t) \/ EffectFails(t)
  <2>1. /\ UNCHANGED <<serverVars, subVars, queue, topics, frames, todo, faults>>
        /\ pc[t] = "effects" /\ pc'[t] \in {"effects", "topics"}
        /\ \A u \in Threads : u # t => pc'[u] = pc[u]
    BY <1>1, <1>6 DEF EffectSucceeds, EffectFails, EffectOver
  <2>2. \A u \in Threads : topics'[u] # <<>> => pc'[u] \in {"effects", "topics"}
    BY <1>1, <2>1
  <2>3. \A u : HoldsAny(u)' <=> HoldsAny(u)
    BY <2>1 DEF HoldsAny
  <2>4. \A f : Held(f)' <=> Held(f)
    BY <2>1 DEF Held
  <2>5. \A s, topic : Awaits(s, topic) => Awaits(s, topic)'
    BY <1>5, <2>1 DEF Awaits, subVars
  <2> QED BY <1>1, <1>2, <1>3, <2>1, <2>2, <2>3, <2>4, <2>5
<1>7. CASE EffectThrows(t)
  <2>1. /\ UNCHANGED <<serverVars, subVars, queue, todo>>
        /\ faults' # 0
        /\ \A u \in Threads : /\ frames'[u] = frames[u] \/ frames'[u] = <<>>
                              /\ topics'[u] = topics[u] \/ topics'[u] = <<>>
                              /\ pc'[u] = pc[u] \/ pc'[u] = "topics" \/ topics'[u] = <<>>
        /\ DOMAIN topics' = Threads
    BY <1>1, <1>7 DEF EffectThrows
  <2>2. \A u \in Threads : topics'[u] # <<>> => pc'[u] \in {"effects", "topics"}
    BY <1>1, <2>1
  <2>3. \A u \in Threads : HoldsAny(u)' => HoldsAny(u)
    BY <2>1 DEF HoldsAny
  <2>4. \A f : Held(f)' => Held(f)
    BY <1>4, <2>1 DEF Held
  <2> QED BY <1>2, <2>1, <2>2, <2>3, <2>4
<1>8. CASE Finish(t)
  <2>1. /\ UNCHANGED <<serverVars, subVars, queue, topics, frames, faults>>
        /\ pc[t] = "status" /\ AllSent(t) /\ todo'[t] = <<>>
        /\ \A u \in Threads : u # t => pc'[u] = pc[u] /\ todo'[u] = todo[u]
    BY <1>1, <1>8 DEF Finish
  <2>2. \A u \in Threads : topics'[u] # <<>> => pc'[u] \in {"effects", "topics"}
    BY <1>1, <2>1
  <2>3. \A u \in Threads : HoldsAny(u)' => HoldsAny(u)
    BY <2>1 DEF HoldsAny
  <2>4. \A f : Held(f)' => Held(f)
    BY <1>4, <2>1 DEF Held
  <2>5. ASSUME NEW s, NEW topic, Awaits(s, topic)
        PROVE  Awaits(s, topic)'
    <3>1. UNCHANGED request
      BY <2>1 DEF subVars
    <3>2. ~ \E i \in DOMAIN todo[t] : s \in todo[t][i].to
      BY <2>1 DEF AllSent
    <3> QED BY <1>5, <2>1, <2>5, <3>1, <3>2 DEF Awaits
  <2> QED BY <1>1, <1>2, <1>3, <2>1, <2>2, <2>3, <2>4, <2>5
<1>9. CASE BroadcastTopics(t)
  <2> DEFINE sent == [i \in DOMAIN topics[t] |->
                         [frame |-> StateFrame("state", topics[t][i]),
                          to |-> {s \in subscribers : WantsSnapshots(s, topics[t][i])}]]
  <2>1. /\ UNCHANGED <<serverVars, subVars, queue, frames, faults>>
        /\ pc[t] = "topics" /\ todo'[t] = sent /\ topics'[t] = <<>>
        /\ \A u \in Threads : u # t => /\ pc'[u] = pc[u] /\ todo'[u] = todo[u]
                                       /\ topics'[u] = topics[u]
        /\ DOMAIN topics' = Threads
    BY <1>1, <1>9 DEF BroadcastTopics
  <2>2. /\ DOMAIN sent = DOMAIN topics[t]
        /\ \A i \in DOMAIN topics[t] :
              /\ sent[i].frame = StateFrame("state", topics[t][i])
              /\ sent[i].to = {s \in subscribers : WantsSnapshots(s, topics[t][i])}
    OBVIOUS
  <2>3. topics[t] = <<>> => sent = <<>>
    OBVIOUS
  <2> HIDE DEF sent
  <2>4. \A u \in Threads : topics'[u] # <<>> => pc'[u] \in {"effects", "topics"}
    BY <1>1, <2>1
  <2>5. \A u \in Threads : HoldsAny(u)' => HoldsAny(u)
    BY <2>1, <2>3 DEF HoldsAny
  <2>6. \A topic : LET f == StateFrame("state", topic)
                   IN  f.topic = topic /\ f.reset /\ f.value = Current(topic)
    BY DEF StateFrame, Current
  <2>7. ASSUME NEW f, Held(f)'
        PROVE  Held(f) \/ Fresh(f)
    <3>1. CASE \E i \in DOMAIN sent : f = sent[i].frame
      BY <2>2, <2>6, <3>1 DEF Fresh
    <3> QED BY <2>1, <2>7, <3>1 DEF Held
  <2>8. ASSUME NEW s \in Subs, Served(s), NEW topic, Awaits(s, topic)
        PROVE  Awaits(s, topic)'
    <3>1. UNCHANGED request /\ s \in subscribers
      BY <1>1, <2>1, <2>8 DEF subVars, Served, BusInvariant, SubscriptionsAreListed
    <3>2. todo[t] = <<>>
      BY <1>1, <2>1
    <3>3. ASSUME WantsSnapshots(s, topic), topic \in Range(topics[t])
          PROVE  Awaits(s, topic)'
      <4>1. PICK i \in DOMAIN topics[t] : topics[t][i] = topic
        BY <3>3 DEF Range
      <4>2. i \in DOMAIN todo'[t] /\ s \in todo'[t][i].to /\ Tells(todo'[t][i].frame, topic)
        BY <2>1, <2>2, <2>6, <3>1, <3>3, <4>1 DEF Tells
      <4> QED BY <4>2 DEF Awaits
    <3> QED BY <1>4, <1>5, <2>1, <2>8, <3>1, <3>2, <3>3 DEF Awaits
  <2> QED BY <1>1, <1>2, <1>3, <2>1, <2>4, <2>5, <2>7, <2>8
<1>10. CASE BroadcastEvents(t)
  <2> DEFINE sent == [i \in DOMAIN frames[t] |->
                         [frame |-> frames[t][i],
                          to |-> {s \in subscribers : WantsEvents(s, frames[t][i].topic)}]]
  <2>1. /\ UNCHANGED <<serverVars, subVars, queue, topics, faults>>
        /\ pc[t] = "events" /\ AllSent(t) /\ todo'[t] = sent /\ frames'[t] = <<>>
        /\ \A u \in Threads : u # t => /\ pc'[u] = pc[u] /\ todo'[u] = todo[u]
                                       /\ frames'[u] = frames[u]
    BY <1>1, <1>10 DEF BroadcastEvents
  <2>2. /\ DOMAIN sent = DOMAIN frames[t]
        /\ \A i \in DOMAIN frames[t] :
              /\ sent[i].frame = frames[t][i]
              /\ sent[i].to = {s \in subscribers : WantsEvents(s, frames[t][i].topic)}
    OBVIOUS
  <2>3. frames[t] = <<>> => sent = <<>>
    OBVIOUS
  <2> HIDE DEF sent
  <2>4. \A u \in Threads : topics'[u] # <<>> => pc'[u] \in {"effects", "topics"}
    BY <1>1, <2>1
  <2>5. \A u \in Threads : HoldsAny(u)' => HoldsAny(u)
    BY <2>1, <2>3 DEF HoldsAny
  <2>6. ASSUME NEW f, Held(f)'
        PROVE  Held(f)
    <3>1. CASE \E i \in DOMAIN sent : f = sent[i].frame
      BY <2>2, <3>1 DEF Held
    <3> QED BY <1>4, <2>1, <2>6, <3>1 DEF Held
  <2>7. ASSUME NEW s \in Subs, Served(s), NEW topic, Awaits(s, topic)
        PROVE  Awaits(s, topic)'
    <3>1. UNCHANGED request /\ s \in subscribers
      BY <1>1, <2>1, <2>7 DEF subVars, Served, BusInvariant, SubscriptionsAreListed
    <3>2. ~ \E i \in DOMAIN todo[t] : s \in todo[t][i].to
      BY <2>1 DEF AllSent
    <3>3. ASSUME WantsEvents(s, topic), NEW i \in DOMAIN frames[t], Tells(frames[t][i], topic)
          PROVE  Awaits(s, topic)'
      <4>1. i \in DOMAIN todo'[t] /\ s \in todo'[t][i].to /\ Tells(todo'[t][i].frame, topic)
        BY <2>1, <2>2, <3>1, <3>3 DEF Tells
      <4> QED BY <4>1 DEF Awaits
    <3> QED BY <1>5, <2>1, <2>7, <3>1, <3>2, <3>3 DEF Awaits
  <2> QED BY <1>1, <1>2, <1>3, <2>1, <2>4, <2>5, <2>6, <2>7
<1>11. ASSUME NEW r \in Subs, SendFrame(t, r)
       PROVE  OneWriterInvariant'
  <2>1. PICK i \in DOMAIN todo[t] :
           /\ r \in todo[t][i].to
           /\ queue' = [queue EXCEPT ![r] = Append(queue[r], todo[t][i].frame)]
           /\ todo' = [todo EXCEPT ![t][i].to = @ \ {r}]
           /\ UNCHANGED <<serverVars, pc, topics, frames, subVars, faults>>
    BY <1>11 DEF SendFrame
  <2>2. /\ \A u \in Threads : DOMAIN todo'[u] = DOMAIN todo[u]
        /\ \A u \in Threads : u # t => todo'[u] = todo[u]
        /\ \A j \in DOMAIN todo[t] : j # i => todo'[t][j] = todo[t][j]
        /\ todo'[t][i] = [todo[t][i] EXCEPT !.to = @ \ {r}]
    BY <1>1, <2>1
  <2>3. /\ todo'[t][i].frame = todo[t][i].frame
        /\ todo'[t][i].to = todo[t][i].to \ {r}
    <3>1. todo[t][i] = [frame |-> todo[t][i].frame, to |-> todo[t][i].to]
      BY <1>1 DEF BusInvariant, ThreadsHoldFrames
    <3> QED BY <2>2, <3>1
  <2>4. \A u \in Threads : \A j \in DOMAIN todo'[u] :
           /\ j \in DOMAIN todo[u] /\ todo'[u][j].frame = todo[u][j].frame
           /\ todo[u][j].to \ {r} \subseteq todo'[u][j].to
           /\ u # t \/ j # i => todo'[u][j].to = todo[u][j].to
    BY <2>2, <2>3
  <2>5. /\ Sequence(queue[r]) /\ queue'[r] = Append(queue[r], todo[t][i].frame)
        /\ Sequence(received[r])
        /\ \A s \in Subs : s # r => queue'[s] = queue[s]
    BY <1>1, <2>1 DEF BusInvariant, SubscriptionsAreListed
  <2>6. \A u \in Threads : HoldsAny(u)' => HoldsAny(u)
    <3>1. \A u \in Threads : todo[u] = <<>> => todo'[u] = todo[u]
      BY <1>4, <2>1, <2>2
    <3> QED BY <2>1, <3>1 DEF HoldsAny
  <2>7. \A f : Held(f)' => Held(f)
    BY <2>1, <2>4 DEF Held
  <2>8. /\ UNCHANGED <<runtimeState, styleFile, request, received>>
        /\ \A topic : Current(topic)' = Current(topic)
    BY <2>1 DEF serverVars, subVars, Current
  <2>9. ASSUME OneWriterLeads, NEW s \in Subs, Served(s),
               NEW topic \in Range(request[s].topics) \ {"session"}
        PROVE  Leads(s, topic)'
    <3>1. Leads(s, topic) /\ topic \in Topics \ {"session"}
      BY <1>1, <2>9, WantedAreTopics DEF OneWriterLeads
    <3>2. CASE s # r
      <4>1. Awaits(s, topic) => Awaits(s, topic)'
        BY <1>5, <2>1, <2>2, <2>4, <2>8, <3>2 DEF Awaits
      <4>2. UNCHANGED Stream(s)
        BY <2>5, <2>8, <3>2 DEF Stream
      <4>3. LastSays(Stream(s), topic, Current(topic)) =>
                LastSays(Stream(s), topic, Current(topic))'
        BY <2>8, <4>2 DEF LastSays
      <4> QED BY <3>1, <4>1, <4>3 DEF Leads
    <3>3. CASE s = r
      <4>1. /\ Stream(r)' = Append(Stream(r), todo[t][i].frame)
            /\ Sequence(Stream(r))
        <5> DEFINE a == received[r]
                   b == queue[r]
                   f == todo[t][i].frame
        <5>1. Sequence(a) /\ Sequence(b)
          BY <2>5
        <5> HIDE DEF a, b, f
        <5>2. a \o Append(b, f) = Append(a \o b, f)
          BY <5>1, AppendBehind
        <5>3. Sequence(a \o b)
          BY <5>1, AppendBehind
        <5> USE DEF a, b, f
        <5>4. Stream(r)' = received[r] \o queue'[r]
          BY <2>8 DEF Stream
        <5> QED BY <2>5, <5>2, <5>3, <5>4 DEF Stream
      <4>2. CASE Tells(todo[t][i].frame, topic)
        <5>1. todo[t][i].frame.value = Current(topic)
          BY <2>9, <3>1, <4>2 DEF OneWriterLeads, Held, Fresh, Tells
        <5>2. LastSays(Append(Stream(r), todo[t][i].frame), topic, Current(topic))
          BY <4>1, <4>2, <5>1, SaysAppend
        <5>3. LastSays(Stream(r)', topic, Current(topic)')
          BY <2>8, <4>1, <5>2
        <5> QED BY <3>3, <5>3 DEF Leads, LastSays
      <4>3. CASE ~ Tells(todo[t][i].frame, topic)
        <5>1. Awaits(r, topic) => Awaits(r, topic)'
          BY <1>5, <2>1, <2>2, <2>4, <2>8, <4>3 DEF Awaits
        <5>2. LastSays(Stream(r), topic, Current(topic)) =>
                 LastSays(Append(Stream(r), todo[t][i].frame), topic, Current(topic))
          BY <4>1, <4>3, SaysAppend
        <5>3. LastSays(Stream(r), topic, Current(topic)) =>
                 LastSays(Stream(r)', topic, Current(topic)')
          BY <2>8, <4>1, <5>2
        <5> QED BY <3>1, <3>3, <5>1, <5>3 DEF Leads, LastSays
      <4> QED BY <4>2, <4>3
    <3> QED BY <3>2, <3>3
  <2>10. \A u \in Threads : topics'[u] # <<>> => pc'[u] \in {"effects", "topics"}
    BY <1>1, <2>1
  <2> QED BY <1>1, <1>2, <2>1, <2>6, <2>7, <2>9, <2>10
<1>12. CASE IssueStatus(t)
  BY <1>12, IssueStatusKeepsWriter
<1> QED BY <1>6, <1>7, <1>8, <1>9, <1>10, <1>11, <1>12 DEF HandlerStep

\* A subscription starts with the state of now in front of what it will be sent, and takes
\* its frames in the order in which they were queued.
LEMMA SubscriptionKeepsWriter ==
    ASSUME OneWriterInvariant, CurrentInvariant', NEW s \in Subs,
           Register(s) \/ SubscriptionStep(s) \/ PeerCloses(s)
    PROVE  OneWriterInvariant'
<1>1. /\ DeliveryInvariant /\ BusInvariant /\ faults \in Nat
      /\ DOMAIN queue = Subs /\ DOMAIN received = Subs
      /\ \A r \in Subs : Sequence(queue[r]) /\ Sequence(received[r])
      /\ phase \in [Subs -> Phases] /\ DOMAIN request = Subs /\ DOMAIN topics = Threads
  BY DEF OneWriterInvariant, CurrentInvariant, DeliveryInvariant, BusInvariant,
         SubscriptionsAreListed, CountsAreNumbers
<1>2. /\ UNCHANGED <<runtimeState, styleFile, issued, topics, frames, todo, pc>>
      /\ faults' = 0 => faults = 0
      /\ \A topic : Current(topic)' = Current(topic)
  BY <1>1 DEF Register, SubscriptionStep, SendInitialState, SendInitialStyle, Deliver,
              RemoveSubscriber, PeerCloses, serverVars, threadVars, Current
<1>3. /\ \A r \in Subs : r # s => /\ request'[r] = request[r] /\ phase'[r] = phase[r]
                                  /\ queue'[r] = queue[r] /\ received'[r] = received[r]
      /\ phase[s] # "absent" => request'[s] = request[s]
  BY <1>1 DEF Register, SubscriptionStep, SendInitialState, SendInitialStyle, Deliver,
              RemoveSubscriber, PeerCloses
<1>4. ASSUME NEW r \in Subs, request'[r] = request[r], NEW topic, Awaits(r, topic)
      PROVE  Awaits(r, topic)'
  <2>1. /\ WantsSnapshots(r, topic)' <=> WantsSnapshots(r, topic)
        /\ WantsEvents(r, topic)' <=> WantsEvents(r, topic)
    BY <1>4 DEF WantsSnapshots, WantsEvents, WantsTopic
  <2> QED BY <1>2, <1>4, <2>1 DEF Awaits
<1>5. ASSUME InitialKept(s)',
             OneWriterLeads /\ Served(s)' =>
                \A topic \in Range(request'[s].topics) \ {"session"} : Leads(s, topic)'
      PROVE  OneWriterInvariant'
  <2>1. \A u : HoldsAny(u)' <=> HoldsAny(u)
    BY <1>2 DEF HoldsAny
  <2>2. \A f : Held(f)' <=> Held(f)
    BY <1>2 DEF Held
  <2>3. \A r \in Subs : InitialKept(r)'
    BY <1>3, <1>5 DEF OneWriterInvariant, InitialKept
  <2>4. ASSUME OneWriterLeads, NEW r \in Subs, Served(r)',
               NEW topic \in Range(request'[r].topics) \ {"session"}
        PROVE  Leads(r, topic)'
    <3>1. CASE r = s
      BY <1>5, <2>4, <3>1
    <3>2. CASE r # s
      <4>1. Leads(r, topic)
        BY <1>3, <2>4, <3>2 DEF OneWriterLeads, Served
      <4>2. UNCHANGED Stream(r)
        BY <1>3, <3>2 DEF Stream
      <4>3. LastSays(Stream(r), topic, Current(topic)) =>
                LastSays(Stream(r), topic, Current(topic))'
        BY <1>2, <4>2 DEF LastSays
      <4> QED BY <1>3, <1>4, <3>2, <4>1, <4>3 DEF Leads
    <3> QED BY <3>1, <3>2
  <2>5. \A t \in Threads : topics'[t] # <<>> => pc'[t] \in {"effects", "topics"}
    BY <1>2 DEF OneWriterInvariant
  <2>6. UNCHANGED <<runtimeState, styleFile, issued>> /\ DOMAIN topics' = Threads
    BY <1>1, <1>2
  <2> QED BY <1>2, <2>1, <2>2, <2>3, <2>4, <2>5, <2>6, MovesKeepWriter
<1>6. ASSUME phase[s] # "absent", NEW topic, Leads(s, topic),
             LastSays(Stream(s), topic, Current(topic)) =>
                LastSays(Stream(s)', topic, Current(topic))
      PROVE  Leads(s, topic)'
  <2>1. LastSays(Stream(s), topic, Current(topic)) =>
           LastSays(Stream(s), topic, Current(topic))'
    BY <1>2, <1>6 DEF LastSays
  <2> QED BY <1>3, <1>4, <1>6, <2>1 DEF Leads
<1>7. CASE Register(s)
  <2>1. /\ phase[s] = "absent" /\ phase'[s] = "registered"
        /\ queue'[s] = queue[s] /\ received'[s] = received[s]
    BY <1>1, <1>7 DEF Register
  <2>2. queue[s] = <<>> /\ received[s] = <<>>
    BY <1>1, <2>1 DEF DeliveryInvariant, QueueIsWanted, BusInvariant, SubscriptionsAreListed
  <2>3. Stream(s)' = <<>>
    <3>1. Sequence(<<>>)
      BY <1>1, <2>2
    <3> QED BY <2>1, <2>2, <3>1, EmptyFront DEF Stream
  <2>4. \A i : i \notin DOMAIN <<>>
    OBVIOUS
  <2>5. \A topic : Leads(s, topic)'
    BY <2>3, <2>4 DEF Leads, LastSays
  <2>6. InitialKept(s)'
    BY <2>1 DEF InitialKept
  <2> QED BY <1>5, <2>5, <2>6
<1>8. CASE PeerCloses(s) \/ RemoveSubscriber(s)
  <2>1. /\ phase[s] # "absent"
        /\ phase'[s] \in {"registered", "initial", "streaming"} => phase'[s] = phase[s]
        /\ queue'[s] = queue[s] /\ received'[s] = received[s]
    BY <1>1, <1>8 DEF PeerCloses, RemoveSubscriber, Served
  <2>2. InitialKept(s)'
    BY <1>3, <2>1 DEF OneWriterInvariant, InitialKept
  <2>3. Stream(s)' = Stream(s)
    BY <2>1 DEF Stream
  <2>4. ASSUME OneWriterLeads, Served(s)',
               NEW topic \in Range(request'[s].topics) \ {"session"}
        PROVE  Leads(s, topic)'
    <3>1. Leads(s, topic)
      BY <1>3, <2>1, <2>4 DEF OneWriterLeads, Served
    <3> QED BY <1>6, <2>1, <2>3, <3>1
  <2> QED BY <1>5, <2>2, <2>4
<1>9. CASE SendInitialState(s)
  <2> DEFINE Initial(type) == [i \in 1..Len(request[s].topics) |->
                                  StateFrame(type, request[s].topics[i])]
             list == request[s].topics
  <2>1. /\ phase[s] = "registered" /\ received[s] = <<>>
        /\ queue'[s] = queue[s] /\ request'[s] = request[s]
    BY <1>1, <1>9 DEF SendInitialState, BusInvariant, SubscriptionsAreListed
  <2>2. \/ phase'[s] = "leaving"
        \/ /\ received'[s] = <<>>
           /\ request[s].mode # "snapshots" /\ ~ request[s].bootstrap
        \/ received'[s] = Initial("state")
        \/ received'[s] = Initial("snapshot")
    <3>1. \/ /\ received' = received
             /\ phase' = [phase EXCEPT ![s] = "leaving"]
          \/ /\ received' = [received EXCEPT ![s] = <<>>]
             /\ request[s].mode # "snapshots" /\ ~ request[s].bootstrap
          \/ received' = [received EXCEPT ![s] = Initial("state")]
          \/ received' = [received EXCEPT ![s] = Initial("snapshot")]
      BY <1>9 DEF SendInitialState, InitialFrames
    <3> HIDE DEF Initial
    <3> QED BY <1>1, <3>1
  <2>3. IsList(list)
    BY <1>1, WantedAreTopics
  <2>4. \A type : /\ Sequence(Initial(type)) /\ DOMAIN Initial(type) = DOMAIN list
                  /\ \A i \in DOMAIN list : Initial(type)[i] = StateFrame(type, list[i])
    BY <2>3, ListShape DEF Sequence
  <2> HIDE DEF Initial, list
  <2>5. \A type, topic : LET f == StateFrame(type, topic)
                         IN  f.topic = topic /\ f.reset /\ f.value = Current(topic)
    BY DEF StateFrame, Current
  <2>6. CASE phase'[s] = "leaving"
    BY <1>5, <2>6 DEF InitialKept, Served
  <2>7. CASE /\ received'[s] = <<>>
             /\ request[s].mode # "snapshots" /\ ~ request[s].bootstrap
    <3>1. InitialKept(s)'
      BY <2>1, <2>7 DEF InitialKept
    <3>2. Stream(s)' = Stream(s)
      BY <2>1, <2>7 DEF Stream
    <3>3. ASSUME OneWriterLeads, Served(s)',
                 NEW topic \in Range(request'[s].topics) \ {"session"}
          PROVE  Leads(s, topic)'
      <4>1. Leads(s, topic)
        BY <2>1, <3>3 DEF OneWriterLeads, Served
      <4> QED BY <1>6, <2>1, <3>2, <4>1
    <3> QED BY <1>5, <3>1, <3>3
  <2>8. ASSUME NEW type, received'[s] = Initial(type)
        PROVE  OneWriterInvariant'
    <3>1. InitialKept(s)'
      <4>1. ASSUME NEW topic \in Range(list)
            PROVE  \E i \in DOMAIN received'[s] : Tells(received'[s][i], topic)
        <5>1. PICK i \in DOMAIN list : list[i] = topic
          BY DEF Range
        <5> QED BY <2>4, <2>5, <2>8, <5>1 DEF Tells
      <4> QED BY <2>1, <4>1 DEF InitialKept, list
    <3>2. Stream(s) = queue[s] /\ Stream(s)' = Initial(type) \o queue[s]
      BY <1>1, <2>1, <2>8, EmptyFront DEF Stream
    <3>3. ASSUME OneWriterLeads, Served(s)',
                 NEW topic \in Range(request'[s].topics) \ {"session"}
          PROVE  Leads(s, topic)'
      <4>1. Leads(s, topic)
        BY <2>1, <3>3 DEF OneWriterLeads, Served
      <4>2. Sequence(Initial(type)) /\ Sequence(queue[s])
        BY <1>1, <2>4
      <4>3. \A i \in DOMAIN Initial(type) :
               Tells(Initial(type)[i], topic) => Initial(type)[i].value = Current(topic)
        BY <2>4, <2>5 DEF Tells
      <4>4. LastSays(queue[s], topic, Current(topic)) =>
               LastSays(Initial(type) \o queue[s], topic, Current(topic))
        BY <4>2, <4>3, SaysConcat
      <4> QED BY <1>6, <2>1, <3>2, <4>1, <4>4
    <3> QED BY <1>5, <3>1, <3>3
  <2> QED BY <2>2, <2>6, <2>7, <2>8
<1>10. CASE Deliver(s)
  <2>1. /\ phase[s] = "streaming" /\ queue[s] # <<>> /\ queue'[s] = Tail(queue[s])
        /\ \/ received'[s] = Append(received[s], Head(queue[s])) /\ phase'[s] = phase[s]
           \/ phase'[s] = "leaving"
    BY <1>1, <1>10 DEF Deliver
  <2>2. CASE phase'[s] = "leaving"
    BY <1>5, <2>2 DEF InitialKept, Served
  <2>3. CASE received'[s] = Append(received[s], Head(queue[s])) /\ phase'[s] = phase[s]
    <3>1. \A i \in DOMAIN received[s] :
             i \in DOMAIN received'[s] /\ received'[s][i] = received[s][i]
      BY <1>1, <2>3, SequenceAppend DEF Sequence
    <3>2. InitialKept(s)'
      BY <1>3, <2>1, <2>3, <3>1 DEF OneWriterInvariant, InitialKept
    <3>3. Stream(s)' = Stream(s)
      BY <1>1, <2>1, <2>3, MoveOver DEF Stream
    <3>4. ASSUME OneWriterLeads, Served(s)',
                 NEW topic \in Range(request'[s].topics) \ {"session"}
          PROVE  Leads(s, topic)'
      <4>1. Leads(s, topic)
        BY <1>3, <2>1, <3>4 DEF OneWriterLeads, Served
      <4> QED BY <1>6, <2>1, <3>3, <4>1
    <3> QED BY <1>5, <3>2, <3>4
  <2> QED BY <2>1, <2>2, <2>3
<1>11. CASE SendInitialStyle(s)
  <2>1. /\ phase[s] = "initial" /\ phase'[s] \in {"streaming", "leaving"}
        /\ queue'[s] = queue[s] /\ request'[s] = request[s]
        /\ DOMAIN received'[s] = DOMAIN received[s] /\ Sequence(received'[s])
        /\ Len(received'[s]) = Len(received[s])
    BY <1>1, <1>11, InitialStyleFrames
  <2>2. CASE phase'[s] = "leaving"
    BY <1>5, <2>2 DEF InitialKept, Served
  <2>3. CASE phase'[s] = "streaming"
    <3>1. \A i \in DOMAIN received[s] :
             received'[s][i] = IF received[s][i].topic = "style"
                               THEN StateFrame(received[s][i].type, "style")
                               ELSE received[s][i]
      <4>1. DOMAIN received[s] = 1..Len(received[s])
        BY <1>1 DEF Sequence
      <4> QED BY <1>1, <1>11, <2>3, <4>1 DEF SendInitialStyle
    <3>2. \A type : LET f == StateFrame(type, "style")
                    IN  f.topic = "style" /\ f.reset /\ f.value = Current("style")
      BY DEF StateFrame, Current
    <3>3. ASSUME NEW topic, NEW i \in DOMAIN received[s]
          PROVE  /\ Tells(received[s][i], topic) => Tells(received'[s][i], topic)
                 /\ \/ received'[s][i] = received[s][i]
                    \/ Tells(received'[s][i], topic) => received'[s][i].value = Current(topic)
      BY <3>1, <3>2 DEF Tells
    <3>4. InitialKept(s)'
      BY <1>3, <2>1, <3>3 DEF OneWriterInvariant, InitialKept
    <3>5. ASSUME OneWriterLeads, Served(s)',
                 NEW topic \in Range(request'[s].topics) \ {"session"}
          PROVE  Leads(s, topic)'
      <4>1. Leads(s, topic)
        BY <1>3, <2>1, <3>5 DEF OneWriterLeads, Served
      <4>2. Sequence(received[s]) /\ Sequence(queue[s])
        BY <1>1
      <4>3. LastSays(received[s] \o queue[s], topic, Current(topic)) =>
               LastSays(received'[s] \o queue[s], topic, Current(topic))
        BY <2>1, <3>3, <4>2, SaysReplaced
      <4>4. /\ Stream(s) = received[s] \o queue[s]
            /\ Stream(s)' = received'[s] \o queue[s]
        BY <2>1 DEF Stream
      <4> QED BY <1>6, <2>1, <4>1, <4>3, <4>4
    <3> QED BY <1>5, <3>4, <3>5
  <2> QED BY <2>1, <2>2, <2>3
<1> QED BY <1>7, <1>8, <1>9, <1>10, <1>11 DEF SubscriptionStep

LEMMA NextKeepsWriter == OneWriterInvariant /\ [Next]_vars => OneWriterInvariant'
<1> SUFFICES ASSUME OneWriterInvariant, [Next]_vars PROVE OneWriterInvariant'
  OBVIOUS
<1>1. CurrentInvariant'
  BY NextStaysCurrent DEF OneWriterInvariant
<1>2. ASSUME NEW t \in Threads, NEW command, Commit(t, command) \/ CommitAborts(t, command)
      PROVE  OneWriterInvariant'
  BY <1>1, <1>2, CommitKeepsWriter, FaultKeepsWriter
<1>3. CASE \E c \in Clients : ClientCommand(c)
  BY <1>2, <1>3 DEF ClientCommand, Threads
<1>4. CASE \E p \in Producers : ProducerFrame(p)
  BY <1>2, <1>4 DEF ProducerFrame, Threads
<1>5. CASE FifoLine
  BY <1>2, <1>5 DEF FifoLine, Threads
<1>6. CASE FifoReopens \/ WriteLine \/ Rest \/ UNCHANGED vars
  <2>1. UNCHANGED <<serverVars, threadVars, subVars, queue, faults>>
    BY <1>6 DEF FifoReopens, WriteLine, Rest, vars
  <2>2. UNCHANGED <<runtimeState, styleFile, issued, topics, frames, todo, pc, received, request,
                    phase, queue, faults>>
    BY <2>1 DEF serverVars, threadVars, subVars
  <2>3. /\ \A t : HoldsAny(t)' <=> HoldsAny(t)
        /\ \A f : Held(f)' <=> Held(f)
        /\ \A s : Served(s)' <=> Served(s)
        /\ \A s : InitialKept(s)' <=> InitialKept(s)
    BY <2>2 DEF HoldsAny, Held, Served, InitialKept
  <2>4. ASSUME NEW s, NEW topic, Leads(s, topic)
        PROVE  Leads(s, topic)'
    <3>1. /\ WantsSnapshots(s, topic)' <=> WantsSnapshots(s, topic)
          /\ WantsEvents(s, topic)' <=> WantsEvents(s, topic)
      BY <2>2 DEF WantsSnapshots, WantsEvents, WantsTopic
    <3>2. Awaits(s, topic) => Awaits(s, topic)'
      BY <2>2, <3>1 DEF Awaits
    <3> QED BY <2>2, <2>4, <3>2, SameStream
  <2>5. OneWriterLeads => \A s \in Subs : Served(s)' =>
           \A topic \in Range(request'[s].topics) \ {"session"} : Leads(s, topic)'
    BY <2>2, <2>3, <2>4 DEF OneWriterLeads
  <2>6. /\ DOMAIN topics' = Threads
        /\ \A t \in Threads : topics'[t] # <<>> => pc'[t] \in {"effects", "topics"}
        /\ \A s \in Subs : InitialKept(s)'
    BY <2>2, <2>3 DEF OneWriterInvariant
  <2> QED BY <1>1, <2>2, <2>3, <2>5, <2>6, MovesKeepWriter
<1>7. CASE \E t \in Threads : HandlerStep(t)
  BY <1>1, <1>7, HandlerKeepsWriter
<1>8. CASE \E s \in Subs : Register(s) \/ SubscriptionStep(s) \/ PeerCloses(s)
  BY <1>1, <1>8, SubscriptionKeepsWriter
<1> QED BY <1>3, <1>4, <1>5, <1>6, <1>7, <1>8 DEF Next

LEMMA InitWriter == Init => OneWriterInvariant
<1> SUFFICES ASSUME Init PROVE OneWriterInvariant
  OBVIOUS
<1>1. /\ \A t \in Threads : topics[t] = <<>> /\ frames[t] = <<>> /\ todo[t] = <<>>
      /\ DOMAIN topics = Threads /\ \A s \in Subs : phase[s] = "absent"
      /\ \A i : i \notin DOMAIN <<>>
  <2>1. /\ topics = [t \in Threads |-> <<>>] /\ frames = [t \in Threads |-> <<>>]
        /\ todo = [t \in Threads |-> <<>>] /\ phase = [s \in Subs |-> "absent"]
    BY DEF Init
  <2>2. \A i : i \notin DOMAIN <<>>
    OBVIOUS
  <2> QED BY <2>1, <2>2
<1>2. \A f : ~ Held(f)
  BY <1>1 DEF Held
<1>3. \A s \in Subs : ~ Served(s) /\ InitialKept(s)
  BY <1>1 DEF Served, InitialKept
<1>4. \A t \in Threads : ~ HoldsAny(t)
  BY <1>1 DEF HoldsAny
<1> QED BY <1>1, <1>2, <1>3, <1>4, InitIsCurrent DEF OneWriterInvariant, OneWriterLeads

LEMMA OneWriterIsKept == Spec => []OneWriterInvariant
<1> QED BY InitWriter, NextKeepsWriter, PTL DEF Spec

\* At rest nothing is on its way, and what was received last is the state.
LEMMA OneWriterIsShown ==
    ASSUME OneWriterInvariant, OneWriter, faults = 0
    PROVE  StaysCurrent
<1> SUFFICES ASSUME NEW s \in Subs, Settled(s),
                    NEW topic \in Range(request[s].topics) \ {"session"}
             PROVE  View(s, topic) = Current(topic)
  BY DEF StaysCurrent
<1>1. /\ BusInvariant /\ NothingLost /\ OneWriterLeads /\ InitialKept(s)
      /\ Sequence(received[s])
      /\ \A t \in Threads : topics[t] # <<>> => pc[t] \in {"effects", "topics"}
  BY DEF OneWriterInvariant, CurrentInvariant, DeliveryInvariant, BusInvariant,
         SubscriptionsAreListed
<1>2. /\ phase[s] = "streaming" /\ queue[s] = <<>>
      /\ request[s].mode = "snapshots" \/ request[s].bootstrap
      /\ \A t \in Threads : pc[t] = "idle"
  BY <1>1 DEF Settled, Quiescent, NothingLost
<1>3. /\ \A t \in Threads : frames[t] = <<>> /\ todo[t] = <<>> /\ topics[t] = <<>>
      /\ \A i : i \notin DOMAIN <<>>
  BY <1>1, <1>2 DEF BusInvariant, ThreadsHoldFrames
<1>4. ~ Awaits(s, topic)
  BY <1>3, EmptyList DEF Awaits
<1>5. LastSays(Stream(s), topic, Current(topic))
  BY <1>1, <1>2, <1>4 DEF OneWriterLeads, Leads, Served
<1>6. Stream(s) = received[s]
  BY <1>1, <1>2, EmptyFront DEF Stream
<1>7. \E i \in DOMAIN received[s] : Tells(received[s][i], topic)
  BY <1>1, <1>2 DEF InitialKept
<1> QED BY <1>1, <1>5, <1>6, <1>7, ViewIsLast

\* The events of a single writer come in the order of their numbers.
LEMMA OneWriterIsSequenced ==
    ASSUME OrderInvariant, SourceOrder, OneWriter
    PROVE  SequencedDelivery
<1> SUFFICES ASSUME NEW s \in Subs, NEW i \in DOMAIN Stream(s), NEW j \in DOMAIN Stream(s),
                    i < j, Stream(s)[i].type = "event", Stream(s)[j].type = "event"
             PROVE  Stream(s)[i].seq < Stream(s)[j].seq
  BY DEF SequencedDelivery
<1>1. /\ DeliveryInvariant /\ Sequence(received[s]) /\ Sequence(queue[s])
      /\ \A q \in DOMAIN issued : issued[q].by \in Threads
  BY DEF OrderInvariant, DeliveryInvariant, BusInvariant, SubscriptionsAreListed,
         EventsAreNumbered
<1>2. ASSUME NEW k \in DOMAIN Stream(s), Stream(s)[k].type = "event"
      PROVE  Stream(s)[k].seq \in DOMAIN issued
  <2> DEFINE a == received[s]
             b == queue[s]
  <2>1. /\ DOMAIN a = 1..Len(a) /\ DOMAIN b = 1..Len(b) /\ Len(a) \in Nat /\ Len(b) \in Nat
    BY <1>1 DEF Sequence
  <2>2. Sequence(a) /\ Sequence(b)
    BY <1>1
  <2> HIDE DEF a, b
  <2>3. Sequence(a \o b)
    BY <2>2, SequenceConcat
  <2>4. Len(a \o b) = Len(a) + Len(b)
    BY <2>2, SequenceConcat
  <2>5. \A m \in 1..Len(a) : (a \o b)[m] = a[m]
    BY <2>2, SequenceConcat
  <2>6. \A m \in 1..Len(b) : (a \o b)[Len(a) + m] = b[m]
    BY <2>2, SequenceConcat
  <2>7. k \in 1..(Len(a) + Len(b)) /\ Stream(s) = a \o b
    BY <2>3, <2>4 DEF Sequence, Stream, a, b
  <2>8. \/ k \in 1..Len(a)
        \/ k - Len(a) \in 1..Len(b) /\ Len(a) + (k - Len(a)) = k
    BY <2>1, <2>7
  <2>9. \/ \E m \in DOMAIN a : Stream(s)[k] = a[m]
        \/ \E m \in DOMAIN b : Stream(s)[k] = b[m]
    BY <2>1, <2>5, <2>6, <2>7, <2>8
  <2> QED BY <1>1, <1>2, <2>9, StreamIsIssued DEF a, b
<1>3. PICK t \in Threads : issued[Stream(s)[i].seq].by = t
  BY <1>1, <1>2
<1>4. EventOf(t, Stream(s)[i]) /\ EventOf(t, Stream(s)[j])
  BY <1>2, <1>3 DEF EventOf, OneWriter
<1> QED BY <1>4 DEF SourceOrder, Ascending

\* As long as no exception occurs and no peer goes away, a single writing thread is enough
\* for both promises of the documents, whatever the interleaving of its broadcasts with
\* the subscriptions: a client that shows the last RESET frame of a topic shows the daemon's
\* state at rest, and events arrive in the order of their SEQ numbers.
THEOREM OneWriterIsEnough == Spec => [](faults = 0 => OneWriterSuffices)
<1>1. OneWriterInvariant /\ OrderInvariant /\ SourceOrder => (faults = 0 => OneWriterSuffices)
  BY OneWriterIsShown, OneWriterIsSequenced DEF OneWriterSuffices
<1> QED BY <1>1, OneWriterIsKept, OrderIsKept, ThreadsStayInOrder, PTL
=============================================================================
