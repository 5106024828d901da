--------------------------- MODULE WindowSyncProofs ---------------------------
(***************************************************************************)
(* For any windows, commands and faults and any size of the table, the     *)
(* pipe and its reads:                                                     *)
(*                                                                         *)
(* 1. A window command reaches the window that was meant, unless a window  *)
(*    has left the bridge's table since.  A place in a list means the same *)
(*    window for as long as no window leaves the table; the invariant says *)
(*    this of every copy of a list or a number that is on its way.         *)
(*                                                                         *)
(* 2. Everything keeps its type.  That the table has no window twice takes *)
(*    what the compositor has announced into account: an announcement on   *)
(*    its way is the first event about its window, which is not in the     *)
(*    table yet.                                                           *)
(*                                                                         *)
(* 3. The topic shows the compositor's windows once everything has         *)
(*    arrived.  The table and the events on their way are compared with    *)
(*    the compositor: the last event of a kind says how it is there now,   *)
(*    and while the table says something else, such an event is coming.    *)
(***************************************************************************)
EXTENDS WindowSync, ListFacts

\* The slots are records, and as many of them are in use as there are.
TableShape ==
    /\ MaxSlots \in Nat /\ count \in 0..MaxSlots /\ epoch \in Nat
    /\ DOMAIN slots = 1..MaxSlots /\ slots = [i \in 1..MaxSlots |-> slots[i]]
    /\ \A i \in 1..MaxSlots :
          slots[i] = [handle |-> slots[i].handle, title |-> slots[i].title,
                      activated |-> slots[i].activated]

\* A state frame of this epoch shows windows in the slots where they still are.
Shows(frame) ==
    /\ frame.epoch \in Nat /\ frame.epoch <= epoch
    /\ DOMAIN frame.windows \subseteq Nat \ {0}
    /\ frame.epoch = epoch =>
          \A i \in DOMAIN frame.windows : i <= count /\ frame.windows[i].handle = slots[i].handle

\* A line of this epoch has the number of the window that was meant.
Means(line) ==
    /\ line = [verb |-> line.verb, id |-> line.id, meant |-> line.meant, epoch |-> line.epoch]
    /\ line.id \in Nat /\ line.epoch \in Int /\ line.epoch <= epoch
    /\ line.epoch = epoch => line.id < count /\ slots[line.id + 1].handle = line.meant

Acts(request) == ~request.stale => request.handle = request.meant

CopiesAgree ==
    /\ IsList(frames) /\ (\A frame \in Range(frames) : Shows(frame)) /\ Shows(shown)
    /\ IsList(fifo) /\ \A line \in Range(fifo) : Means(line)
    /\ IsList(lines) /\ \A line \in Range(lines) : Means(line)
    /\ pending # NoCommand => Means(pending)

RequestsAct == IsList(requests) /\ \A request \in Range(requests) : Acts(request)

CommandInvariant ==
    /\ TableShape /\ CopiesAgree /\ RequestsAct
    /\ (pc = "carry" => lines # <<>>) /\ resume # "carry"

\* What the invariant reads beside the table.
copyVars == <<frames, shown, fifo, lines, pending, requests>>

-----------------------------------------------------------------------------
\* At the start there are no windows and no commands.
LEMMA InitMeans == Init => CommandInvariant
<1> SUFFICES ASSUME Init PROVE CommandInvariant
  OBVIOUS
<1>1. TableShape
  <2>1. slots = [i \in 1..MaxSlots |-> EmptySlot] /\ count = 0 /\ epoch = 0 /\ MaxSlots \in Nat
    BY ToplevelAssumption DEF Init, ToplevelInit
  <2>2. EmptySlot = [handle |-> EmptySlot.handle, title |-> EmptySlot.title,
                     activated |-> EmptySlot.activated]
    BY DEF EmptySlot, Slot
  <2> QED BY <2>1, <2>2 DEF TableShape
<1>2. Shows(shown)
  <2>1. shown.epoch = 0 /\ shown.windows = <<>> /\ epoch = 0
    BY DEF Init, ToplevelInit, NoWindows
  <2>2. DOMAIN shown.windows = {}
    BY <2>1, EmptyList
  <2> QED BY <2>1, <2>2 DEF Shows
<1>3. CopiesAgree
  BY <1>2, EmptyList DEF Init, ToplevelInit, CopiesAgree
<1>4. RequestsAct
  BY EmptyList DEF Init, ToplevelInit, RequestsAct
<1> QED BY <1>1, <1>3, <1>4 DEF CommandInvariant, Init, ToplevelInit

-----------------------------------------------------------------------------
(* The table *)

\* Two tables agree for the copies when windows only joined, or when the epoch is another.
Later == \/ /\ epoch' = epoch /\ count' >= count
            /\ \A i \in 1..count : slots'[i].handle = slots[i].handle
         \/ epoch' = epoch + 1

\* Such a change keeps what is true of every copy.
LEMMA LaterKeeps ==
    ASSUME TableShape, TableShape', Later
    PROVE  /\ \A frame : Shows(frame) => Shows(frame)'
           /\ \A line : Means(line) => Means(line)'
<1>1. epoch \in Nat /\ epoch' \in Nat /\ count \in Nat /\ count' \in Nat
  BY DEF TableShape
<1>2. ASSUME NEW frame, Shows(frame) PROVE Shows(frame)'
  <2>1. frame.epoch \in Nat /\ frame.epoch <= epoch'
    BY <1>1, <1>2 DEF Shows, Later
  <2>2. ASSUME frame.epoch = epoch', NEW i \in DOMAIN frame.windows
        PROVE  i <= count' /\ frame.windows[i].handle = slots'[i].handle
    <3>1. epoch' = epoch /\ frame.epoch = epoch
      BY <1>1, <1>2, <2>2 DEF Shows, Later
    <3>2. i \in Nat \ {0} /\ i <= count /\ frame.windows[i].handle = slots[i].handle
      BY <1>2, <2>2, <3>1 DEF Shows
    <3>3. i \in 1..count /\ count' >= count /\ slots'[i].handle = slots[i].handle
      BY <1>1, <3>1, <3>2 DEF Later
    <3> QED BY <1>1, <3>2, <3>3
  <2> QED BY <1>2, <2>1, <2>2 DEF Shows
<1>3. ASSUME NEW line, Means(line) PROVE Means(line)'
  <2>1. line.epoch \in Int /\ line.epoch <= epoch' /\ line.id \in Nat
    BY <1>1, <1>3 DEF Means, Later
  <2>2. ASSUME line.epoch = epoch'
        PROVE  line.id < count' /\ slots'[line.id + 1].handle = line.meant
    <3>1. epoch' = epoch /\ line.epoch = epoch
      BY <1>1, <1>3, <2>2 DEF Means, Later
    <3>2. line.id < count /\ slots[line.id + 1].handle = line.meant
      BY <1>3, <3>1 DEF Means
    <3>3. line.id + 1 \in 1..count /\ count' >= count
      BY <1>1, <2>1, <3>1, <3>2 DEF Later
    <3>4. slots'[line.id + 1].handle = slots[line.id + 1].handle
      BY <1>1, <3>1, <3>3 DEF Later
    <3> QED BY <1>1, <2>1, <3>2, <3>3, <3>4
  <2> QED BY <1>3, <2>1, <2>2 DEF Means
<1> QED BY <1>2, <1>3

\* So a step that changes the table in such a way and no copy keeps the invariant.
LEMMA TableStep ==
    ASSUME CommandInvariant, TableShape', Later, UNCHANGED copyVars,
           pc' = "carry" => pc = "carry", resume' # "carry"
    PROVE  CommandInvariant'
<1>1. /\ \A frame : Shows(frame) => Shows(frame)'
      /\ \A line : Means(line) => Means(line)'
  BY LaterKeeps DEF CommandInvariant
<1>2. CopiesAgree'
  BY <1>1 DEF CommandInvariant, CopiesAgree, copyVars
<1>3. RequestsAct' /\ (pc' = "carry" => lines' # <<>>)
  BY DEF CommandInvariant, RequestsAct, Acts, copyVars
<1> QED BY <1>2, <1>3 DEF CommandInvariant

\* A change of a slot in use that leaves its window alone.
LEMMA SlotChange ==
    ASSUME TableShape, UNCHANGED <<count, epoch>>, NEW i, NEW title, NEW activated,
           \/ slots' = slots
           \/ slots' = [slots EXCEPT ![i].title = title]
           \/ slots' = [slots EXCEPT ![i].activated = activated]
    PROVE  TableShape' /\ Later
<1>1. ASSUME NEW j \in 1..MaxSlots
      PROVE  /\ slots'[j] = [handle |-> slots'[j].handle, title |-> slots'[j].title,
                             activated |-> slots'[j].activated]
             /\ slots'[j].handle = slots[j].handle
  <2>1. slots[j] = [handle |-> slots[j].handle, title |-> slots[j].title,
                    activated |-> slots[j].activated]
    BY <1>1 DEF TableShape
  <2>2. \/ slots'[j] = slots[j]
        \/ slots'[j] = [slots[j] EXCEPT !.title = title]
        \/ slots'[j] = [slots[j] EXCEPT !.activated = activated]
    BY <1>1 DEF TableShape
  <2> QED BY <2>1, <2>2
<1>2. DOMAIN slots' = 1..MaxSlots /\ slots' = [j \in 1..MaxSlots |-> slots'[j]]
  BY DEF TableShape
<1>3. TableShape'
  BY <1>1, <1>2 DEF TableShape
<1>4. \A j \in 1..count : slots'[j].handle = slots[j].handle
  BY <1>1 DEF TableShape
<1>5. count' >= count
  BY DEF TableShape
<1> QED BY <1>3, <1>4, <1>5 DEF Later

\* A window that joins takes a slot behind the ones in use.
LEMMA AddKeeps ==
    ASSUME TableShape, NEW h, AddToplevel(h), UNCHANGED epoch
    PROVE  TableShape' /\ Later
<1>1. CASE count = MaxSlots
  <2>1. UNCHANGED <<slots, count>>
    BY <1>1 DEF AddToplevel
  <2> QED BY <2>1 DEF TableShape, Later
<1>2. CASE count # MaxSlots
  <2> DEFINE slot == Slot(h)
  <2>1. slots' = [slots EXCEPT ![count + 1] = slot] /\ count' = count + 1
    BY <1>2 DEF AddToplevel
  <2>2. slot = [handle |-> slot.handle, title |-> slot.title, activated |-> slot.activated]
    BY DEF Slot
  <2> HIDE DEF slot
  <2>3. count \in Nat /\ count + 1 \in 1..MaxSlots
    BY <1>2 DEF TableShape
  <2>4. \A j \in 1..MaxSlots : slots'[j] = IF j = count + 1 THEN slot ELSE slots[j]
    BY <2>1 DEF TableShape
  <2>5. DOMAIN slots' = 1..MaxSlots /\ slots' = [j \in 1..MaxSlots |-> slots'[j]]
    BY <2>1 DEF TableShape
  <2>6. \A j \in 1..MaxSlots :
          slots'[j] = [handle |-> slots'[j].handle, title |-> slots'[j].title,
                       activated |-> slots'[j].activated]
    BY <2>2, <2>4 DEF TableShape
  <2>7. TableShape'
    BY <2>1, <2>3, <2>5, <2>6 DEF TableShape
  <2>8. \A j \in 1..count : j \in 1..MaxSlots /\ j # count + 1
    <3>1. MaxSlots \in Nat /\ count < MaxSlots
      BY <1>2 DEF TableShape
    <3> QED BY <2>3, <3>1
  <2>9. \A j \in 1..count : slots'[j].handle = slots[j].handle
    BY <2>4, <2>8
  <2> QED BY <2>1, <2>3, <2>7, <2>9 DEF Later
<1> QED BY <1>1, <1>2

\* A window that leaves begins another epoch.
LEMMA RemoveKeeps ==
    ASSUME TableShape, NEW h, RemoveToplevel(h)
    PROVE  TableShape' /\ Later
<1> DEFINE of == {i \in 1..count : slots[i].handle = h}
           gone == CHOOSE i \in of : \A j \in of : i <= j
<1>1. CASE of = {}
  <2>1. UNCHANGED <<slots, count, epoch>>
    BY <1>1 DEF RemoveToplevel
  <2> QED BY <2>1 DEF TableShape, Later
<1>2. CASE of # {}
  <2>1. /\ slots' = [i \in 1..MaxSlots |->
                        IF i \in gone..(count - 1) THEN slots[i + 1] ELSE slots[i]]
        /\ count' = count - 1 /\ epoch' = epoch + 1
    BY <1>2 DEF RemoveToplevel
  <2>2. count \in 0..MaxSlots /\ MaxSlots \in Nat /\ count >= 1
    BY <1>2 DEF TableShape
  <2>3. \A i \in gone..(count - 1) : i \in 1..MaxSlots => i + 1 \in 1..MaxSlots
    BY <2>2
  <2> HIDE DEF gone, of
  <2>4. \A i \in 1..MaxSlots : \E k \in 1..MaxSlots : slots'[i] = slots[k]
    <3> TAKE i \in 1..MaxSlots
    <3>1. CASE i \in gone..(count - 1)
      BY <2>1, <2>3, <3>1
    <3>2. CASE i \notin gone..(count - 1)
      BY <2>1, <3>2
    <3> QED BY <3>1, <3>2
  <2>5. DOMAIN slots' = 1..MaxSlots /\ slots' = [i \in 1..MaxSlots |-> slots'[i]]
    BY <2>1
  <2>6. ASSUME NEW i \in 1..MaxSlots
        PROVE  slots'[i] = [handle |-> slots'[i].handle, title |-> slots'[i].title,
                            activated |-> slots'[i].activated]
    <3>1. PICK k \in 1..MaxSlots : slots'[i] = slots[k]
      BY <2>4
    <3> QED BY <3>1 DEF TableShape
  <2>7. count' \in 0..MaxSlots /\ epoch' \in Nat
    BY <2>1, <2>2 DEF TableShape
  <2> QED BY <2>1, <2>2, <2>5, <2>6, <2>7 DEF TableShape, Later
<1> QED BY <1>1, <1>2

-----------------------------------------------------------------------------
(* The steps *)

\* What else a step may change that the invariant does not read.
tableParts == <<slots, count, epoch>>

\* A step that leaves the table and the copies alone.
LEMMA StillKeeps ==
    ASSUME CommandInvariant, UNCHANGED <<tableParts, copyVars>>,
           pc' = "carry" => pc = "carry", resume' # "carry"
    PROVE  CommandInvariant'
<1>1. TableShape' /\ Later
  BY DEF CommandInvariant, TableShape, Later, tableParts
<1> QED BY <1>1, TableStep

\* A step that leaves the table alone keeps what is true of every copy.
LEMMA TableStill ==
    ASSUME TableShape, UNCHANGED tableParts
    PROVE  /\ TableShape'
           /\ \A frame : Shows(frame) <=> Shows(frame)'
           /\ \A line : Means(line) <=> Means(line)'
  BY DEF TableShape, Shows, Means, tableParts

\* The requests for a line that means a window are about that window, or are stale.
LEMMA AskedActs ==
    ASSUME TableShape, NEW line, Means(line), NEW i, i = SlotOfId(line.id), i # 0
    PROVE  LET asked == Asked(line.verb, slots[i].handle, line)
           IN  IsList(asked) /\ \A request \in Range(asked) : Acts(request)
<1> DEFINE r(v) == Request(v, slots[i].handle, line)
           asked == Asked(line.verb, slots[i].handle, line)
<1>1. i = line.id + 1
  BY DEF SlotOfId
<1>2. ASSUME NEW v PROVE Acts(r(v))
  <2>1. /\ r(v).handle = slots[i].handle /\ r(v).meant = line.meant
        /\ r(v).stale <=> line.epoch # epoch
    BY DEF Request
  <2> HIDE DEF r
  <2> QED BY <1>1, <2>1 DEF Means, Acts
<1>3. \E p, q : /\ asked = p \o q
                /\ p \in {<<>>, <<r(line.verb)>>} /\ q \in {<<>>, <<r("activate")>>}
  BY DEF Asked
<1> HIDE DEF r, asked
<1>4. ASSUME NEW v, NEW p \in {<<>>, <<r(v)>>}
      PROVE  IsList(p) /\ \A request \in Range(p) : Acts(request)
  <2>1. Acts(r(v)) /\ IsList(<<r(v)>>) /\ Range(<<r(v)>>) = {r(v)}
    BY <1>2, OneList
  <2> QED BY <1>4, <2>1, EmptyList
<1>5. PICK p, q : /\ asked = p \o q
                  /\ p \in {<<>>, <<r(line.verb)>>} /\ q \in {<<>>, <<r("activate")>>}
  BY <1>3
<1>6. /\ IsList(p) /\ \A request \in Range(p) : Acts(request)
      /\ IsList(q) /\ \A request \in Range(q) : Acts(request)
  BY <1>4, <1>5
<1>7. IsList(asked) /\ \A request \in Range(asked) : Acts(request)
  BY <1>5, <1>6, ConcatList
<1> QED BY <1>7 DEF asked

\* A cut line means no window of any epoch.
LEMMA CutMeans ==
    ASSUME TableShape, NEW line, Means(line)
    PROVE  Means(Cut(line))
  BY DEF Means, Cut, TableShape

\* The listeners change the table only, and never carry out lines.
LEMMA ListenersKeep ==
    CommandInvariant /\ (HandleToplevel \/ HandleTitle \/ HandleState \/ HandleClosed)
        /\ UNCHANGED <<shown, pending>>
    => CommandInvariant'
<1> SUFFICES ASSUME CommandInvariant, UNCHANGED <<shown, pending>>,
                    HandleToplevel \/ HandleTitle \/ HandleState \/ HandleClosed
             PROVE  CommandInvariant'
  OBVIOUS
<1>1. TableShape
  BY DEF CommandInvariant
<1>2. UNCHANGED outsideVars /\ pc' # "carry" /\ resume' # "carry"
  BY DEF HandleToplevel, HandleTitle, HandleState, HandleClosed, Take, Dispatching, CommandInvariant
<1>3. UNCHANGED copyVars
  BY <1>2 DEF outsideVars, requestVars, fifoVars, linkVars, copyVars
<1>4. TableShape' /\ Later
  <2> DEFINE h == Head(events).handle
  <2>1. CASE HandleToplevel
    <3>1. AddToplevel(h) /\ UNCHANGED epoch
      BY <2>1 DEF HandleToplevel
    <3> QED BY <1>1, <3>1, AddKeeps
  <2>2. CASE HandleTitle
    <3> DEFINE title == Head(events).title
    <3>1. /\ UNCHANGED <<count, epoch>>
          /\ slots' = slots \/ slots' = [slots EXCEPT ![slotOf[h]].title = title]
      BY <2>2 DEF HandleTitle
    <3> HIDE DEF title, h
    <3> QED BY <1>1, <3>1, SlotChange
  <2>3. CASE HandleState
    <3> DEFINE activated == Head(events).activated
    <3>1. /\ UNCHANGED <<count, epoch>>
          /\ slots' = slots \/ slots' = [slots EXCEPT ![slotOf[h]].activated = activated]
      BY <2>3 DEF HandleState
    <3> HIDE DEF activated, h
    <3> QED BY <1>1, <3>1, SlotChange
  <2>4. CASE HandleClosed
    <3>1. RemoveToplevel(h) \/ UNCHANGED <<slots, count, epoch>>
      BY <2>4 DEF HandleClosed
    <3>2. CASE RemoveToplevel(h)
      BY <1>1, <3>2, RemoveKeeps
    <3>3. CASE UNCHANGED <<slots, count, epoch>>
      BY <1>1, <3>3 DEF TableShape, Later
    <3> QED BY <3>1, <3>2, <3>3
  <2> QED BY <2>1, <2>2, <2>3, <2>4
<1> QED BY <1>2, <1>3, <1>4, TableStep

\* A read of the FIFO: whole lines, and at most one that is cut and means no window.
LEMMA ReadFifoKeeps ==
    CommandInvariant /\ ReadFifo /\ UNCHANGED <<shown, pending>> => CommandInvariant'
<1> SUFFICES ASSUME CommandInvariant, ReadFifo, UNCHANGED <<shown, pending>>
             PROVE  CommandInvariant'
  OBVIOUS
<1> DEFINE n == IF Len(fifo) < LinesPerRead THEN Len(fifo) ELSE LinesPerRead
           whole == SubSeq(fifo, 1, n)
           rest == SubSeq(fifo, n + 1, Len(fifo))
           cut == Cut(Head(rest))
<1>1. IsList(fifo) /\ (\A line \in Range(fifo) : Means(line)) /\ fifo # <<>> /\ Len(fifo) \in Nat
  BY ListShape DEF CommandInvariant, CopiesAgree, ReadFifo
<1>2. UNCHANGED <<slots, count, epoch, frames, requests, resume>>
  BY DEF ReadFifo, tableVars, linkVars
<1>3. /\ TableShape' /\ \A frame : Shows(frame) <=> Shows(frame)'
      /\ \A line : Means(line) <=> Means(line)'
  BY <1>2, TableStill DEF CommandInvariant, tableParts
<1>4. n \in 1..Len(fifo) /\ n \in Nat
  <2>1. Len(fifo) >= 1
    BY <1>1 DEF IsList
  <2>2. LinesPerRead \in Nat \ {0}
    BY ToplevelAssumption
  <2> QED BY <1>1, <2>1, <2>2
<1>5. \/ lines' = whole /\ fifo' = rest
      \/ rest # <<>> /\ fifo' = Tail(rest) /\ lines' = Append(whole, cut)
  BY DEF ReadFifo
<1> HIDE DEF n
<1>6. IsList(whole) /\ Range(whole) \subseteq Range(fifo) /\ whole # <<>>
  <2>1. IsList(whole) /\ Range(whole) \subseteq Range(fifo)
    BY <1>1, <1>4, PartList
  <2>2. Len(whole) = n
    BY <1>1, <1>4 DEF IsList
  <2> QED BY <1>4, <2>1, <2>2
<1>7. IsList(rest) /\ Range(rest) \subseteq Range(fifo)
  BY <1>1, <1>4, PartList
<1> HIDE DEF whole, rest
<1>8. CASE lines' = whole /\ fifo' = rest
  <2>1. CopiesAgree'
    BY <1>1, <1>2, <1>3, <1>6, <1>7, <1>8 DEF CommandInvariant, CopiesAgree
  <2> QED BY <1>2, <1>3, <1>6, <1>8, <2>1 DEF CommandInvariant, RequestsAct, Acts
<1>9. CASE rest # <<>> /\ fifo' = Tail(rest) /\ lines' = Append(whole, cut)
  <2>1. IsList(Tail(rest)) /\ Range(Tail(rest)) \subseteq Range(fifo) /\ Head(rest) \in Range(fifo)
    BY <1>7, <1>9, TailList
  <2>2. Means(cut)
    BY <1>1, <2>1, CutMeans DEF CommandInvariant
  <2> HIDE DEF cut
  <2>3. IsList(lines') /\ Range(lines') \subseteq Range(whole) \cup {cut}
    BY <1>6, <1>9, AppendList
  <2>4. lines' # <<>>
    BY <1>6, <1>9 DEF IsList
  <2>5. CopiesAgree'
    BY <1>1, <1>2, <1>3, <1>6, <1>9, <2>1, <2>2, <2>3 DEF CommandInvariant, CopiesAgree
  <2> QED BY <1>2, <1>3, <2>4, <2>5 DEF CommandInvariant, RequestsAct, Acts
<1> QED BY <1>5, <1>8, <1>9

\* A line is carried out about the window in the slot it names.
LEMMA CarryOutKeeps ==
    CommandInvariant /\ CarryOut /\ UNCHANGED <<shown, pending>> => CommandInvariant'
<1> SUFFICES ASSUME CommandInvariant, CarryOut, UNCHANGED <<shown, pending>>
             PROVE  CommandInvariant'
  OBVIOUS
<1> DEFINE line == Head(lines)
           i == SlotOfId(line.id)
           asked == Asked(line.verb, slots[i].handle, line)
<1>1. UNCHANGED <<slots, count, epoch, frames, fifo, resume>>
  BY DEF CarryOut, tableVars, linkVars, fifoVars
<1>2. /\ TableShape' /\ \A frame : Shows(frame) <=> Shows(frame)'
      /\ \A other : Means(other) <=> Means(other)'
  BY <1>1, TableStill DEF CommandInvariant, tableParts
<1>3. IsList(lines) /\ (\A other \in Range(lines) : Means(other)) /\ lines # <<>>
  BY DEF CommandInvariant, CopiesAgree, CarryOut
<1>4. /\ lines' = Tail(lines) /\ (pc' = "carry" => lines' # <<>>)
      /\ requests' = IF i = 0 THEN requests ELSE requests \o asked
  BY DEF CarryOut
<1>5. IsList(Tail(lines)) /\ Range(Tail(lines)) \subseteq Range(lines) /\ Means(line)
  BY <1>3, TailList
<1> HIDE DEF line
<1>6. i # 0 => IsList(asked) /\ \A request \in Range(asked) : Acts(request)
  BY <1>5, AskedActs DEF CommandInvariant
<1> HIDE DEF i, asked
<1>7. RequestsAct'
  <2>1. IsList(requests) /\ \A request \in Range(requests) : Acts(request)
    BY DEF CommandInvariant, RequestsAct
  <2>2. IsList(requests') /\ \A request \in Range(requests') : Acts(request)
    <3>1. CASE i = 0
      BY <1>4, <2>1, <3>1
    <3>2. CASE i # 0
      <4>1. IsList(requests \o asked) /\ Range(requests \o asked) \subseteq Range(requests) \cup Range(asked)
        BY <1>6, <2>1, <3>2, ConcatList
      <4> QED BY <1>4, <1>6, <2>1, <3>2, <4>1
    <3> QED BY <3>1, <3>2
  <2> QED BY <2>2 DEF RequestsAct, Acts
<1>8. CopiesAgree'
  BY <1>1, <1>2, <1>3, <1>4, <1>5 DEF CommandInvariant, CopiesAgree
<1> QED BY <1>1, <1>2, <1>4, <1>7, <1>8 DEF CommandInvariant

\* What is published shows the windows in their slots.
LEMMA FrameShows == TableShape => Shows(Frame)
<1> SUFFICES ASSUME TableShape PROVE Shows(Frame)
  OBVIOUS
<1> DEFINE windows == SubSeq(slots, 1, count)
<1>1. slots \in Seq(Range(slots)) /\ Len(slots) = MaxSlots /\ count \in 0..MaxSlots /\ MaxSlots \in Nat
  <2>1. \A i \in 1..MaxSlots : slots[i] \in Range(slots)
    BY DEF TableShape, Range
  <2> QED BY <2>1 DEF TableShape
<1>2. DOMAIN windows = 1..count /\ \A i \in 1..count : windows[i] = slots[i]
  BY <1>1
<1>3. Frame.windows = windows /\ Frame.epoch = epoch
  BY DEF Frame
<1> HIDE DEF windows
<1>4. \A i \in DOMAIN Frame.windows :
        i \in Nat \ {0} /\ i <= count /\ Frame.windows[i].handle = slots[i].handle
  BY <1>1, <1>2, <1>3
<1> QED BY <1>3, <1>4 DEF Shows, TableShape

\* A publication adds what the table shows to the frames.
LEMMA UpdateStateKeeps ==
    CommandInvariant /\ UpdateState /\ UNCHANGED <<shown, pending>> => CommandInvariant'
<1> SUFFICES ASSUME CommandInvariant, UpdateState, UNCHANGED <<shown, pending>>
             PROVE  CommandInvariant'
  OBVIOUS
<1>1. /\ UNCHANGED <<slots, count, epoch, fifo, lines, requests>>
      /\ frames' = Append(frames, Frame) \/ frames' = frames
  BY DEF UpdateState, tableVars, requestVars
<1>2. /\ TableShape' /\ \A frame : Shows(frame) <=> Shows(frame)'
      /\ \A line : Means(line) <=> Means(line)'
  BY <1>1, TableStill DEF CommandInvariant, tableParts
<1>3. pc' # "carry" /\ resume' # "carry"
  BY DEF UpdateState, Loop, CommandInvariant
<1>4. IsList(frames) /\ Shows(Frame) /\ \A frame \in Range(frames) : Shows(frame)
  BY FrameShows DEF CommandInvariant, CopiesAgree
<1>5. IsList(frames') /\ \A frame \in Range(frames') : Shows(frame)
  <2>1. IsList(Append(frames, Frame)) /\ Range(Append(frames, Frame)) \subseteq Range(frames) \cup {Frame}
    BY <1>4, AppendList
  <2> QED BY <1>1, <1>4, <2>1
<1>6. CopiesAgree'
  BY <1>1, <1>2, <1>5 DEF CommandInvariant, CopiesAgree
<1> QED BY <1>1, <1>2, <1>3, <1>6 DEF CommandInvariant, RequestsAct, Acts

\* The rest of the bridge's steps leave the table and the copies alone.
LEMMA OthersKeep ==
    CommandInvariant
        /\ \/ UNCHANGED <<shown, pending>>
              /\ (HandleDone \/ HandleSync \/ HandleFinished \/ EndDispatch \/ FifoHangup
                     \/ OpenFifo \/ OpenPublisher \/ ToplevelFaults)
           \/ UserActivates \/ Opens \/ Retitles \/ UserCloses \/ Finishes
    => CommandInvariant'
<1> SUFFICES ASSUME CommandInvariant,
                    \/ UNCHANGED <<shown, pending>>
                       /\ (HandleDone \/ HandleSync \/ HandleFinished \/ EndDispatch \/ FifoHangup
                              \/ OpenFifo \/ OpenPublisher \/ ToplevelFaults)
                    \/ UserActivates \/ Opens \/ Retitles \/ UserCloses \/ Finishes
             PROVE  CommandInvariant'
  OBVIOUS
<1>1. /\ UNCHANGED <<slots, count, epoch, frames, shown, fifo, lines, pending, requests>>
      /\ pc' = "carry" => pc = "carry"
      /\ resume' # "carry"
  <2>1. CASE UNCHANGED <<shown, pending>> /\ (HandleDone \/ HandleSync \/ HandleFinished)
    BY <2>1 DEF HandleDone, HandleSync, HandleFinished, Take, Dispatching, CommandInvariant,
                outsideVars, requestVars, fifoVars, linkVars, tableVars
  <2>2. CASE UNCHANGED <<shown, pending>> /\ (EndDispatch \/ FifoHangup \/ OpenFifo \/ OpenPublisher)
    BY <2>2 DEF EndDispatch, FifoHangup, OpenFifo, OpenPublisher, Loop, CommandInvariant,
                requestVars, fifoVars, linkVars, tableVars
  <2>3. CASE UNCHANGED <<shown, pending>> /\ ToplevelFaults
    BY <2>3 DEF ToplevelFaults, Killed, Signal, WaylandFails, CommandInvariant,
                requestVars, fifoVars, linkVars, tableVars
  <2>4. CASE UserActivates \/ Opens \/ Retitles \/ UserCloses \/ Finishes
    BY <2>4 DEF UserActivates, Opens, Retitles, UserCloses, Finishes, CompositorChange,
                CommandInvariant, requestVars, fifoVars, linkVars, tableVars
  <2> QED BY <2>1, <2>2, <2>3, <2>4
<1> QED BY <1>1, StillKeeps DEF tableParts, copyVars

\* The compositor takes the oldest request.
LEMMA HandleRequestKeeps == CommandInvariant /\ HandleRequest => CommandInvariant'
<1> SUFFICES ASSUME CommandInvariant, HandleRequest PROVE CommandInvariant'
  OBVIOUS
<1>1. /\ UNCHANGED <<slots, count, epoch, frames, shown, fifo, lines, pending, pc, resume>>
      /\ requests # <<>> /\ requests' = Tail(requests)
  BY DEF HandleRequest, fifoVars, linkVars, tableVars
<1>2. /\ TableShape' /\ \A frame : Shows(frame) <=> Shows(frame)'
      /\ \A line : Means(line) <=> Means(line)'
  BY <1>1, TableStill DEF CommandInvariant, tableParts
<1>3. IsList(requests) /\ \A request \in Range(requests) : Acts(request)
  BY DEF CommandInvariant, RequestsAct
<1>4. IsList(requests') /\ Range(requests') \subseteq Range(requests)
  BY <1>1, <1>3, TailList
<1>5. RequestsAct'
  BY <1>3, <1>4 DEF RequestsAct, Acts
<1>6. CopiesAgree'
  BY <1>1, <1>2 DEF CommandInvariant, CopiesAgree
<1> QED BY <1>1, <1>2, <1>5, <1>6 DEF CommandInvariant

\* The daemon's steps: frames reach the topic, numbers of windows the FIFO.
LEMMA DaemonKeeps ==
    CommandInvariant /\ (PublishWindows \/ Command \/ WriteCommand \/ DaemonStops \/ DaemonStarts)
    => CommandInvariant'
<1> SUFFICES ASSUME CommandInvariant,
                    PublishWindows \/ Command \/ WriteCommand \/ DaemonStops \/ DaemonStarts
             PROVE  CommandInvariant'
  OBVIOUS
<1>1. UNCHANGED <<slots, count, epoch, lines, requests, pc, resume>>
  BY DEF PublishWindows, Command, WriteCommand, DaemonStops, DaemonStarts, tableVars, requestVars
<1>2. /\ TableShape' /\ \A frame : Shows(frame) <=> Shows(frame)'
      /\ \A line : Means(line) <=> Means(line)'
  BY <1>1, TableStill DEF CommandInvariant, tableParts
<1>3. /\ IsList(frames) /\ (\A frame \in Range(frames) : Shows(frame)) /\ Shows(shown)
      /\ IsList(fifo) /\ (\A line \in Range(fifo) : Means(line))
      /\ pending # NoCommand => Means(pending)
  BY DEF CommandInvariant, CopiesAgree
<1>4. /\ IsList(frames') /\ (\A frame \in Range(frames') : Shows(frame)) /\ Shows(shown')
      /\ IsList(fifo') /\ (\A line \in Range(fifo') : Means(line))
      /\ pending' # NoCommand => Means(pending')
  <2>1. CASE PublishWindows
    <3>1. /\ frames # <<>> /\ frames' = Tail(frames) /\ shown' = Head(frames)
          /\ UNCHANGED <<fifo, pending>>
      BY <2>1 DEF PublishWindows, fifoVars
    <3>2. /\ IsList(Tail(frames)) /\ Range(Tail(frames)) \subseteq Range(frames)
          /\ Head(frames) \in Range(frames)
      BY <1>3, <3>1, TailList
    <3> QED BY <1>3, <3>1, <3>2
  <2>2. CASE Command
    <3>1. PICK i \in DOMAIN shown.windows, verb \in UsedVerbs :
             pending' = [verb |-> verb, id |-> i - 1, meant |-> shown.windows[i].handle,
                         epoch |-> shown.epoch]
      BY <2>2 DEF Command
    <3>2. /\ pending'.id = i - 1 /\ pending'.meant = shown.windows[i].handle
          /\ pending'.epoch = shown.epoch
          /\ pending' = [verb |-> pending'.verb, id |-> pending'.id, meant |-> pending'.meant,
                         epoch |-> pending'.epoch]
      BY <3>1
    <3>3. i \in Nat \ {0} /\ shown.epoch \in Nat /\ shown.epoch <= epoch
          /\ (shown.epoch = epoch => i <= count /\ shown.windows[i].handle = slots[i].handle)
      BY <1>3, <3>1 DEF Shows
    <3>4. pending'.id + 1 = i /\ pending'.id \in Nat
      BY <3>2, <3>3
    <3>5. pending'.epoch = epoch => pending'.id < count /\ slots[pending'.id + 1].handle = pending'.meant
      BY <3>2, <3>3, <3>4 DEF CommandInvariant, TableShape
    <3>6. Means(pending')
      BY <3>2, <3>3, <3>4, <3>5 DEF Means
    <3>7. UNCHANGED <<frames, shown, fifo>>
      BY <2>2 DEF Command, fifoVars, linkVars
    <3> QED BY <1>3, <3>6, <3>7
  <2>3. CASE WriteCommand
    <3>1. /\ UNCHANGED <<frames, shown>> /\ pending # NoCommand
          /\ \/ UNCHANGED <<fifo, pending>>
             \/ fifo' = Append(fifo, pending) /\ UNCHANGED pending
             \/ pending' = NoCommand /\ UNCHANGED fifo
      BY <2>3 DEF WriteCommand, linkVars
    <3>2. IsList(Append(fifo, pending)) /\ Range(Append(fifo, pending)) \subseteq Range(fifo) \cup {pending}
      BY <1>3, AppendList
    <3> QED BY <1>3, <3>1, <3>2
  <2>4. CASE DaemonStops
    <3>1. frames' = <<>> /\ pending' = NoCommand /\ UNCHANGED <<shown, fifo>>
      BY <2>4 DEF DaemonStops
    <3> QED BY <1>3, <3>1, EmptyList
  <2>5. CASE DaemonStarts
    <3>1. shown' = NoWindows /\ UNCHANGED <<frames, fifo, pending>>
      BY <2>5 DEF DaemonStarts, fifoVars
    <3>2. NoWindows.epoch = 0 /\ NoWindows.windows = <<>>
      BY DEF NoWindows
    <3>3. Shows(NoWindows)
      <4>1. epoch \in Nat /\ DOMAIN NoWindows.windows = {}
        BY <3>2, EmptyList DEF CommandInvariant, TableShape
      <4> QED BY <3>2, <4>1 DEF Shows
    <3> QED BY <1>3, <3>1, <3>3
  <2> QED BY <2>1, <2>2, <2>3, <2>4, <2>5
<1>5. CopiesAgree'
  BY <1>1, <1>2, <1>4 DEF CommandInvariant, CopiesAgree
<1> QED BY <1>1, <1>2, <1>5 DEF CommandInvariant, RequestsAct, Acts

-----------------------------------------------------------------------------
\* No step breaks the invariant.
LEMMA NextKeeps == CommandInvariant /\ [Next]_syncVars => CommandInvariant'
<1> SUFFICES ASSUME CommandInvariant, [Next]_syncVars PROVE CommandInvariant'
  OBVIOUS
<1>1. CASE ToplevelStep
  <2>1. UNCHANGED <<shown, pending>>
    BY <1>1 DEF ToplevelStep
  <2> QED BY <1>1, <2>1, ListenersKeep, ReadFifoKeeps, CarryOutKeeps, UpdateStateKeeps, OthersKeep
          DEF ToplevelStep, Toplevel
<1>2. CASE UserActivates \/ Opens \/ Retitles \/ UserCloses \/ Finishes
  BY <1>2, OthersKeep
<1>3. CASE HandleRequest
  BY <1>3, HandleRequestKeeps
<1>4. CASE PublishWindows \/ Command \/ WriteCommand \/ DaemonStops \/ DaemonStarts
  BY <1>4, DaemonKeeps
<1>5. CASE UNCHANGED syncVars
  <2>1. UNCHANGED <<tableParts, copyVars, pc, resume>>
    BY <1>5 DEF syncVars, vars, outsideVars, requestVars, fifoVars, linkVars, tableVars, tableParts,
                copyVars
  <2> QED BY <2>1, StillKeeps DEF CommandInvariant
<1> QED BY <1>1, <1>2, <1>3, <1>4, <1>5 DEF Next

\* ActsOnMeant, for any table, pipe and number of windows, commands and faults: what the
\* bridge asks of the compositor is about the window the command meant, unless a window
\* has left the table (remove_toplevel) since the list it was picked from, or the line was
\* cut.
THEOREM CommandsReachTheMeant == Spec => []ActsOnMeant
<1>1. CommandInvariant => ActsOnMeant
  <2> SUFFICES ASSUME CommandInvariant, NEW i \in DOMAIN requests, ~requests[i].stale
               PROVE  requests[i].handle = requests[i].meant
    BY DEF ActsOnMeant
  <2>1. requests[i] \in Range(requests)
    BY DEF Range
  <2> QED BY <2>1 DEF CommandInvariant, RequestsAct, Acts
<1> QED BY <1>1, InitMeans, NextKeeps, PTL DEF Spec

-----------------------------------------------------------------------------
(* The table, the compositor's windows and the events between them *)

Of(type, h) == {e \in EventTypes : e.type = type /\ e.handle = h}

About(h) == {e \in EventTypes : e.handle = h}

\* What the compositor sends is about a window, but for the ends of roundtrips and of all.
Sent == {e \in EventTypes :
            IF e.type \in {"sync", "finished"} THEN e.handle = "none" ELSE e.handle \in Handles}

InTable(h) == \E i \in 1..count : slots[i].handle = h

Coming(h) == Meets(events, Of("toplevel", h))

\* Each window in the table has one slot, and a listener that points to some slot.
InUse ==
    /\ \A i \in 1..count : slots[i].handle \in Handles /\ slotOf[slots[i].handle] # 0
    /\ \A i, j \in 1..count : slots[i].handle = slots[j].handle => i = j

\* The compositor has each window once, with a title, and one of them or none is active.
DesktopOK ==
    /\ order \in Seq(Handles) /\ IsInjective(order)
    /\ titleOf \in [Handles -> Strings] /\ \A h \in Existing : titleOf[h] \in Titles
    /\ active \in Existing \cup {"none"}

\* A window is announced before anything else is said of it, with its title and state, and
\* nothing is known of one that was never opened.
Announced(h) ==
    /\ FirstIn(events, Of("toplevel", h), About(h))
    /\ Coming(h) => /\ ~InTable(h)
                    /\ Meets(events, Of("title", h)) /\ Meets(events, Of("state", h))
    /\ titleOf[h] = "" => ~InTable(h) /\ ~Meets(events, About(h))

World ==
    /\ TableTypeOK /\ InUse /\ DesktopOK
    /\ events \in Seq(Sent) /\ \A h \in Handles : Announced(h)

-----------------------------------------------------------------------------
\* An event about a window says what it is made of.
LEMMA EventFacts ==
    ASSUME NEW h \in Handles, NEW title \in Strings, NEW now
    PROVE  /\ Ev("toplevel", h) \in Sent \cap Of("toplevel", h) /\ Ev("closed", h) \in Sent \cap Of("closed", h)
           /\ Done(h) \in Sent \cap Of("done", h)
           /\ TitleEvent(h, title) \in Sent \cap Of("title", h) /\ TitleEvent(h, title).title = title
           /\ StateEvent(h, now) \in Sent \cap Of("state", h)
           /\ StateEvent(h, now).activated <=> h = now
<1>1. ASSUME NEW type \in {"toplevel", "closed", "done", "title", "state"},
             NEW text \in Strings, NEW flag \in BOOLEAN, NEW e,
             e = [type |-> type, handle |-> h, title |-> text, activated |-> flag]
      PROVE  e \in Sent \cap Of(type, h) /\ e.title = text /\ e.activated = flag
  <2>1. e \in EventTypes
    BY <1>1 DEF EventTypes
  <2>2. e.type = type /\ e.handle = h /\ e.title = text /\ e.activated = flag
    BY <1>1
  <2>3. type \notin {"sync", "finished"}
    BY <1>1
  <2> QED BY <2>1, <2>2, <2>3 DEF Sent, Of
<1>2. "" \in Strings
  BY DEF Strings
<1>3. ASSUME NEW type \in {"toplevel", "closed", "done", "title", "state"}
      PROVE  Ev(type, h) \in Sent \cap Of(type, h)
  <2>1. Ev(type, h) = [type |-> type, handle |-> h, title |-> "", activated |-> FALSE]
    BY DEF Ev
  <2> QED BY <1>1, <1>2, <2>1
<1>4. TitleEvent(h, title) = [type |-> "title", handle |-> h, title |-> title, activated |-> FALSE]
  <2>1. TitleEvent(h, title) = [Ev("title", h) EXCEPT !.title = title]
    BY DEF TitleEvent
  <2> QED BY <2>1 DEF Ev
<1>5. TitleEvent(h, title) \in Sent \cap Of("title", h) /\ TitleEvent(h, title).title = title
  BY <1>1, <1>4
<1>6. PICK flag \in BOOLEAN : flag = (h = now)
  OBVIOUS
<1>7. PICK e : e = StateEvent(h, now)
  OBVIOUS
<1>8. e = [Ev("state", h) EXCEPT !.activated = flag]
  BY <1>6, <1>7 DEF StateEvent
<1>9. e = [type |-> "state", handle |-> h, title |-> "", activated |-> flag]
  BY <1>8 DEF Ev
<1>10. e \in Sent \cap Of("state", h) /\ e.activated = flag
  <2>1. e.activated = flag
    BY <1>9
  <2>2. e \in EventTypes
    BY <1>2, <1>9 DEF EventTypes
  <2>3. e.type = "state" /\ e.handle = h
    BY <1>9
  <2> QED BY <2>1, <2>2, <2>3 DEF Sent, Of
<1> QED BY <1>3, <1>5, <1>6, <1>7, <1>10 DEF Done

\* The oldest event, when a listener takes it.
LEMMA TakeFacts ==
    ASSUME events \in Seq(Sent), NEW type, Take(type)
    PROVE  /\ events # <<>> /\ events' = Tail(events) /\ Head(events) \in Sent
           /\ Head(events).type = type
           /\ type \notin {"sync", "finished"} =>
                 LET h == Head(events).handle
                 IN  h \in Handles /\ Head(events) \in Of(type, h) /\ Head(events) \in About(h)
<1>1. events # <<>> /\ events' = Tail(events) /\ Head(events).type = type
  BY DEF Take
<1>2. Head(events) \in Sent
  BY <1>1, QueueTaken
<1> QED BY <1>1, <1>2 DEF Sent, Of, About

\* Kinds of events of different windows, and different kinds, have nothing in common.
LEMMA KindFacts ==
    ASSUME NEW g, NEW h, NEW s, NEW t, NEW e
    PROVE  /\ e \in Of(s, g) => e \in About(g)
           /\ e \in Of(s, g) /\ e \in Of(t, h) => s = t /\ g = h
           /\ e \in Of(s, g) /\ e \in About(h) => g = h
  BY DEF Of, About

-----------------------------------------------------------------------------
\* Taking the oldest event keeps it all, if the table gains at most the window announced.
LEMMA TakeKeepsWorld ==
    ASSUME World, events # <<>>, events' = Tail(events), UNCHANGED compositorVars,
           TableTypeOK', InUse',
           \A g \in Handles : InTable(g)' => InTable(g) \/ Head(events) \in Of("toplevel", g)
    PROVE  World'
<1> DEFINE e == Head(events)
<1>1. /\ events' \in Seq(Sent)
      /\ \A T : Meets(events, T) <=> e \in T \/ Meets(events', T)
      /\ \A T, A : FirstIn(events, T, A) => FirstIn(events', T, A) /\ (e \in A => ~Meets(events', T))
  BY QueueTaken DEF World
<1>2. DesktopOK'
  BY DEF World, DesktopOK, compositorVars, Existing
<1>3. titleOf' = titleOf
  BY DEF compositorVars
<1> HIDE DEF e
<1>4. ASSUME NEW g \in Handles PROVE Announced(g)'
  <2> DEFINE T == Of("toplevel", g)
  <2>1. /\ FirstIn(events, T, About(g))
        /\ Meets(events, T) => ~InTable(g) /\ Meets(events, Of("title", g)) /\ Meets(events, Of("state", g))
        /\ titleOf[g] = "" => ~InTable(g) /\ ~Meets(events, About(g))
    BY DEF World, Announced, Coming
  <2>2. InTable(g)' => InTable(g) \/ e \in T
    BY DEF e
  <2>3. /\ e \in T => e \in About(g)
        /\ e \in Of("title", g) \/ e \in Of("state", g) => e \in About(g)
    BY KindFacts
  <2>4. FirstIn(events', T, About(g)) /\ (e \in About(g) => ~Meets(events', T))
    BY <1>1, <2>1
  <2> HIDE DEF T
  <2>5. Meets(events', T) => /\ ~InTable(g)'
                             /\ Meets(events', Of("title", g)) /\ Meets(events', Of("state", g))
    BY <1>1, <2>1, <2>2, <2>3, <2>4
  <2>6. titleOf'[g] = "" => ~InTable(g)' /\ ~Meets(events', About(g))
    BY <1>1, <1>3, <2>1, <2>2, <2>3
  <2> QED BY <2>4, <2>5, <2>6 DEF T, Announced, Coming, Meets, FirstIn, Of, About
<1> QED BY <1>1, <1>2, <1>4 DEF World

\* Such a step, when the table stays.
LEMMA TakeStill ==
    ASSUME World, events # <<>>, events' = Tail(events), UNCHANGED <<compositorVars, tableVars>>
    PROVE  World'
<1>1. TableTypeOK' /\ InUse' /\ \A g \in Handles : InTable(g)' => InTable(g)
  BY DEF World, TableTypeOK, InUse, InTable, tableVars
<1> QED BY <1>1, TakeKeepsWorld

-----------------------------------------------------------------------------
(* What the listeners do to the slots *)

Slots == [1..MaxSlots -> SlotTypes]

\* A window that joins ...
LEMMA AddShape ==
    ASSUME TableTypeOK, NEW h \in Handles, AddToplevel(h), count # MaxSlots
    PROVE  /\ count' = count + 1 /\ count + 1 \in 1..MaxSlots /\ slots' \in Slots
           /\ \A i \in 1..count : slots'[i] = slots[i]
           /\ slots'[count + 1] = Slot(h) /\ UNCHANGED excuses
           /\ slotOf' \in [Handles -> 0..MaxSlots]
           /\ \A g \in Handles : slotOf'[g] = IF g = h THEN count + 1 ELSE slotOf[g]
<1>1. /\ slots' = [slots EXCEPT ![count + 1] = Slot(h)] /\ count' = count + 1
      /\ slotOf' = [slotOf EXCEPT ![h] = count + 1] /\ UNCHANGED excuses
  BY DEF AddToplevel
<1>2. count \in 0..MaxSlots /\ MaxSlots \in Nat /\ slots \in Slots /\ slotOf \in [Handles -> 0..MaxSlots]
  BY ToplevelAssumption DEF TableTypeOK, Slots
<1>3. count + 1 \in 1..MaxSlots
  BY <1>2
<1>4. Slot(h) \in SlotTypes
  BY DEF Slot, SlotTypes, Strings
<1>5. slots' \in Slots
  BY <1>1, <1>2, <1>4 DEF Slots
<1>6. \A i \in 1..MaxSlots : slots'[i] = IF i = count + 1 THEN Slot(h) ELSE slots[i]
  BY <1>1, <1>2 DEF Slots
<1>7. \A i \in 1..count : i \in 1..MaxSlots /\ i # count + 1
  BY <1>2
<1>8. slotOf' \in [Handles -> 0..MaxSlots]
  BY <1>1, <1>2, <1>3
<1> QED BY <1>1, <1>2, <1>3, <1>5, <1>6, <1>7, <1>8

\* ... and one that leaves.
LEMMA RemoveShape ==
    ASSUME TableTypeOK, NEW h \in Handles, InTable(h), RemoveToplevel(h)
    PROVE  \E gone \in 1..count :
               /\ slots[gone].handle = h /\ \A j \in 1..count : slots[j].handle = h => gone <= j
               /\ slots' \in Slots /\ count' = count - 1 /\ dirty' = TRUE /\ epoch' = epoch + 1
               /\ \A i \in 1..(count - 1) : slots'[i] = IF i < gone THEN slots[i] ELSE slots[i + 1]
               /\ excuses' = IF gone - 1 <= focused THEN excuses \cup {"focus"} ELSE excuses
<1> DEFINE of == {i \in 1..count : slots[i].handle = h}
           gone == CHOOSE i \in of : \A j \in of : i <= j
<1>1. of # {} /\ of \subseteq Nat
  BY DEF InTable
<1>2. /\ slots' = [i \in 1..MaxSlots |-> IF i \in gone..(count - 1) THEN slots[i + 1] ELSE slots[i]]
      /\ count' = count - 1 /\ dirty' = TRUE /\ epoch' = epoch + 1
      /\ excuses' = IF gone - 1 <= focused THEN excuses \cup {"focus"} ELSE excuses
  BY <1>1 DEF RemoveToplevel
<1>3. gone \in of /\ \A j \in of : gone <= j
  <2> HIDE DEF of
  <2>1. \E i \in of : \A j \in of : i <= j
    BY <1>1, SmallestExists
  <2> QED BY <2>1
<1>4. gone \in 1..count /\ slots[gone].handle = h
  BY <1>3
<1>5. \A j \in 1..count : slots[j].handle = h => gone <= j
  BY <1>3
<1> HIDE DEF of, gone
<1>6. count \in 0..MaxSlots /\ MaxSlots \in Nat /\ slots \in Slots
  BY ToplevelAssumption DEF TableTypeOK, Slots
<1>7. \A i \in 1..MaxSlots : i \in gone..(count - 1) => i + 1 \in 1..MaxSlots
  BY <1>4, <1>6
<1>8. slots' \in Slots
  BY <1>2, <1>6, <1>7 DEF Slots
<1>9. ASSUME NEW i \in 1..(count - 1)
      PROVE  slots'[i] = IF i < gone THEN slots[i] ELSE slots[i + 1]
  <2>1. i \in 1..MaxSlots /\ (i \in gone..(count - 1) <=> ~(i < gone))
    BY <1>4, <1>6
  <2> QED BY <1>2, <2>1
<1> QED BY <1>2, <1>4, <1>5, <1>8, <1>9

-----------------------------------------------------------------------------
(* What the compositor does at once, and the events that report it *)

Told(h) == {e \in Of("title", h) : e.title = titleOf[h]}

Seen(h) == {e \in Of("state", h) : e.activated <=> h = active}

Before(g, h) == \E i, j \in DOMAIN order : i < j /\ order[i] = g /\ order[j] = h

\* A window that opens is announced, one that goes is closed, and a title or an activation
\* that changes is reported as it is now.
Reported(r, h) ==
    /\ Meets(r, About(h)) => h \in Existing \/ h \in Existing'
    /\ Meets(r, Of("toplevel", h)) => h \notin Existing /\ h \in Existing'
    /\ h \in Existing' /\ h \notin Existing =>
          /\ titleOf[h] = "" /\ FirstIn(r, Of("toplevel", h), About(h))
          /\ Meets(r, Of("toplevel", h)) /\ Meets(r, Of("title", h)) /\ Meets(r, Of("state", h))
    /\ titleOf'[h] = "" => titleOf[h] = "" /\ ~Meets(r, About(h))
    /\ ~Meets(r, Of("title", h) \ Told(h)')
    /\ titleOf'[h] # titleOf[h] => Meets(r, Of("title", h))
    /\ ~Meets(r, Of("state", h) \ Seen(h)')
    /\ h \in Existing' /\ ~((h = active') <=> (h = active)) => Meets(r, Of("state", h))
    /\ Meets(r, Of("closed", h)) => h \notin Existing'
    /\ h \in Existing /\ h \notin Existing' => Meets(r, Of("closed", h))

Change(r) ==
    /\ r \in Seq(Sent) /\ events' = events \o r
    /\ DesktopOK' /\ UNCHANGED tableVars
    /\ \A h \in Handles : Reported(r, h)
    /\ \A g, h \in Handles : Before(g, h)' => Before(g, h) \/ (g \in Existing /\ h \notin Existing)

-----------------------------------------------------------------------------
\* A change and its events keep the world.
LEMMA ChangeKeepsWorld ==
    ASSUME World, NEW r, Change(r)
    PROVE  World'
<1>1. /\ events \in Seq(Sent) /\ r \in Seq(Sent) /\ events' = events \o r
      /\ UNCHANGED tableVars /\ DesktopOK'
  BY DEF World, Change
<1>2. /\ events' \in Seq(Sent)
      /\ \A T : Meets(events', T) <=> Meets(events, T) \/ Meets(r, T)
      /\ \A T, A : FirstIn(events, T, A) /\ ~Meets(r, T) => FirstIn(events', T, A)
      /\ \A T, A : ~Meets(events, A) /\ T \subseteq A /\ FirstIn(r, T, A) => FirstIn(events', T, A)
  BY <1>1, QueueGrown
<1>3. TableTypeOK' /\ InUse'
  BY <1>1 DEF World, TableTypeOK, InUse, tableVars
<1>4. ASSUME NEW h \in Handles PROVE Announced(h)'
  <2> DEFINE T == Of("toplevel", h)
             A == About(h)
             U == Of("title", h)
             V == Of("state", h)
  <2>1. /\ FirstIn(events, T, A)
        /\ Meets(events, T) => ~InTable(h) /\ Meets(events, U) /\ Meets(events, V)
        /\ titleOf[h] = "" => ~InTable(h) /\ ~Meets(events, A)
    BY DEF World, Announced, Coming
  <2>2. /\ Meets(r, T) => h \notin Existing /\ h \in Existing'
        /\ h \in Existing' /\ h \notin Existing =>
              /\ titleOf[h] = "" /\ FirstIn(r, T, A)
              /\ Meets(r, T) /\ Meets(r, U) /\ Meets(r, V)
        /\ titleOf'[h] = "" => titleOf[h] = "" /\ ~Meets(r, A)
    BY DEF Change, Reported
  <2>3. T \subseteq A
    BY DEF Of, About
  <2>4. InTable(h)' = InTable(h)
    BY <1>1 DEF InTable, tableVars
  <2> HIDE DEF T, A, U, V
  <2>5. FirstIn(events', T, A)
    BY <1>2, <2>1, <2>2, <2>3
  <2>6. Meets(events', T) => ~InTable(h)' /\ Meets(events', U) /\ Meets(events', V)
    BY <1>2, <2>1, <2>2, <2>4
  <2>7. titleOf'[h] = "" => ~InTable(h)' /\ ~Meets(events', A)
    BY <1>2, <2>1, <2>2, <2>4
  <2> QED BY <2>5, <2>6, <2>7 DEF T, A, U, V, Announced, Coming, Meets, FirstIn, Of, About
<1> QED BY <1>1, <1>2, <1>3, <1>4 DEF World

-----------------------------------------------------------------------------
(* The compositor's changes *)

\* Nothing is reported of windows without a title, which are not there.
LEMMA ExistingTitled ==
    ASSUME DesktopOK, NEW h \in Existing
    PROVE  /\ h \in Handles /\ h # "none" /\ titleOf[h] \in Titles /\ titleOf[h] \in Strings
           /\ titleOf[h] # ""
<1>1. h \in Handles /\ titleOf[h] \in Titles
  BY DEF DesktopOK, Existing, Range
<1> QED BY <1>1, ToplevelAssumption, WindowSyncAssumption DEF Strings

\* Reports of windows that stay: with their state or their title.
LEMMA StayingReported ==
    ASSUME DesktopOK, DesktopOK', Existing' = Existing, NEW h \in Handles, NEW r,
           \A e \in Range(r) :
               \E g \in Existing : e \in {StateEvent(g, active'), TitleEvent(g, titleOf'[g]), Done(g)},
           titleOf'[h] # titleOf[h] => TitleEvent(h, titleOf'[h]) \in Range(r),
           h \in Existing /\ ~((h = active') <=> (h = active)) => StateEvent(h, active') \in Range(r),
           \A g \in Handles : titleOf[g] # "" => titleOf'[g] # ""
    PROVE  Reported(r, h)
<1>1. ASSUME NEW e \in Range(r)
      PROVE  /\ e \in Sent
             /\ e \in About(h) => h \in Existing
             /\ e \notin Of("toplevel", h) /\ e \notin Of("closed", h)
             /\ e \in Of("title", h) => e.title = titleOf'[h]
             /\ e \in Of("state", h) => (e.activated <=> h = active')
  <2>1. PICK g \in Existing : e \in {StateEvent(g, active'), TitleEvent(g, titleOf'[g]), Done(g)}
    OBVIOUS
  <2>2. g \in Handles /\ titleOf'[g] \in Strings
    BY ExistingTitled DEF DesktopOK
  <2>3. /\ StateEvent(g, active') \in Sent \cap Of("state", g)
        /\ StateEvent(g, active').activated <=> g = active'
        /\ TitleEvent(g, titleOf'[g]) \in Sent \cap Of("title", g)
        /\ TitleEvent(g, titleOf'[g]).title = titleOf'[g]
        /\ Done(g) \in Sent \cap Of("done", g)
    BY <2>2, EventFacts
  <2>4. CASE e = StateEvent(g, active')
    BY <2>1, <2>3, <2>4 DEF Of, About
  <2>5. CASE e = TitleEvent(g, titleOf'[g])
    BY <2>1, <2>3, <2>5 DEF Of, About
  <2>6. CASE e = Done(g)
    BY <2>1, <2>3, <2>6 DEF Of, About
  <2> QED BY <2>1, <2>4, <2>5, <2>6
<1>2. titleOf'[h] \in Strings
  BY DEF DesktopOK
<1>3. /\ TitleEvent(h, titleOf'[h]) \in Of("title", h)
      /\ StateEvent(h, active') \in Of("state", h)
  BY <1>2, EventFacts
<1>4. titleOf'[h] = "" => titleOf[h] = "" /\ ~Meets(r, About(h))
  BY <1>1, ExistingTitled, MeetsRange
<1>5. /\ Meets(r, About(h)) => h \in Existing
      /\ ~Meets(r, Of("toplevel", h)) /\ ~Meets(r, Of("closed", h))
  BY <1>1, MeetsRange
<1>6. ~Meets(r, Of("title", h) \ Told(h)')
  BY <1>1, MeetsRange DEF Told, Of
<1>7. ~Meets(r, Of("state", h) \ Seen(h)')
  BY <1>1, MeetsRange DEF Seen, Of
<1>8. titleOf'[h] # titleOf[h] => Meets(r, Of("title", h))
  BY <1>3, MeetsRange
<1>9. h \in Existing' /\ ~((h = active') <=> (h = active)) => Meets(r, Of("state", h))
  BY <1>3, MeetsRange
<1> QED BY <1>4, <1>5, <1>6, <1>7, <1>8, <1>9 DEF Reported

-----------------------------------------------------------------------------
\* A change of the active window, of those there are.
LEMMA ActivatesChange ==
    ASSUME World, NEW h \in Existing \cup {"none"}, Activates(h),
           UNCHANGED <<order, titleOf, tableVars>>
    PROVE  \E r : Change(r)
<1> DEFINE p == IF active \in Range(order') /\ active # h
                THEN <<StateEvent(active, h), Done(active)>> ELSE <<>>
           s == IF h # "none" /\ active # h THEN <<StateEvent(h, h), Done(h)>> ELSE <<>>
           r == p \o s
<1>1. active' = h /\ events' = events \o p \o s /\ Existing' = Existing
  BY DEF Activates, Existing
<1>2. DesktopOK /\ events \in Seq(Sent) /\ DesktopOK'
  BY <1>1 DEF World, DesktopOK
<1>3. active # h => active \in Existing \/ active = "none"
  BY <1>2 DEF DesktopOK
<1>4. /\ IsList(p) /\ Range(p) \subseteq {StateEvent(active, h), Done(active)}
      /\ (active \notin Existing \/ active = h) => Range(p) = {}
      /\ (active \in Existing /\ active # h) => StateEvent(active, h) \in Range(p)
  <2> DEFINE a == StateEvent(active, h)
             d == Done(active)
  <2>1. CASE active \in Existing /\ active # h
    <3>1. p = <<a, d>>
      BY <2>1 DEF Existing
    <3> HIDE DEF p, a, d
    <3>2. IsList(p) /\ Range(p) = {a, d}
      BY <3>1, PairList
    <3> QED BY <2>1, <3>2 DEF a, d
  <2>2. CASE ~(active \in Existing /\ active # h)
    <3>1. p = <<>>
      BY <2>2 DEF Existing
    <3> HIDE DEF p
    <3> QED BY <2>2, <3>1, EmptyList
  <2> QED BY <2>1, <2>2
<1>5. /\ IsList(s) /\ Range(s) \subseteq {StateEvent(h, h), Done(h)}
      /\ (h = "none" \/ active = h) => Range(s) = {}
      /\ (h # "none" /\ active # h) => StateEvent(h, h) \in Range(s)
  <2> DEFINE a == StateEvent(h, h)
             d == Done(h)
  <2>1. CASE h # "none" /\ active # h
    <3>1. s = <<a, d>>
      BY <2>1
    <3> HIDE DEF s, a, d
    <3>2. IsList(s) /\ Range(s) = {a, d}
      BY <3>1, PairList
    <3> QED BY <2>1, <3>2 DEF a, d
  <2>2. CASE ~(h # "none" /\ active # h)
    <3>1. s = <<>>
      BY <2>2
    <3> HIDE DEF s
    <3> QED BY <2>2, <3>1, EmptyList
  <2> QED BY <2>1, <2>2
<1> HIDE DEF p, s
<1>6. IsList(r) /\ Range(r) = Range(p) \cup Range(s)
  BY <1>4, <1>5, ConcatList
<1>7. ASSUME NEW e \in Range(r)
      PROVE  \E g \in Existing : e \in {StateEvent(g, h), Done(g)}
  <2>1. CASE e \in Range(p)
    BY <1>4, <2>1
  <2>2. CASE e \in Range(s)
    BY <1>5, <2>2
  <2> QED BY <1>6, <2>1, <2>2
<1>8. Range(p) \subseteq Sent /\ Range(s) \subseteq Sent
  <2>1. \A g \in Existing : g \in Handles
    BY <1>2, ExistingTitled
  <2>2. "" \in Strings
    BY DEF Strings
  <2>3. \A g \in Existing : StateEvent(g, h) \in Sent /\ Done(g) \in Sent
    BY <2>1, <2>2, EventFacts
  <2> QED BY <1>6, <1>7, <2>3
<1>9. p \in Seq(Sent) /\ s \in Seq(Sent)
  BY <1>4, <1>5, <1>8, ListOver
<1>10. r \in Seq(Sent) /\ events' = events \o r
  BY <1>1, <1>2, <1>9, ConcatAssociative
<1>11. ASSUME NEW k \in Handles PROVE Reported(r, k)
  <2>1. \A e \in Range(r) :
           \E g \in Existing : e \in {StateEvent(g, active'), TitleEvent(g, titleOf'[g]), Done(g)}
    BY <1>1, <1>7
  <2>2. k \in Existing /\ ~((k = active') <=> (k = active)) => StateEvent(k, active') \in Range(r)
    <3>1. ASSUME k \in Existing, k = active, k # h
          PROVE  StateEvent(k, h) \in Range(r)
      BY <1>4, <1>6, <3>1
    <3>2. ASSUME k \in Existing, k # active, k = h
          PROVE  StateEvent(k, h) \in Range(r)
      <4>1. k # "none"
        BY WindowSyncAssumption
      <4> QED BY <1>5, <1>6, <3>2, <4>1
    <3> QED BY <1>1, <3>1, <3>2
  <2> HIDE DEF r
  <2> QED BY <1>1, <1>2, <2>1, <2>2, StayingReported
<1>12. \A f, g \in Handles : Before(f, g)' => Before(f, g)
  BY DEF Before
<1> HIDE DEF r
<1>13. UNCHANGED tableVars
  OBVIOUS
<1> QED BY <1>2, <1>10, <1>11, <1>12, <1>13 DEF Change

\* A new title, a state that is reported again, and the end of it all.
LEMMA RetitlesChange ==
    ASSUME World, Retitles
    PROVE  \E r : Change(r)
<1>1. PICK h \in Existing, title \in Titles :
         /\ title # titleOf[h] /\ titleOf' = [titleOf EXCEPT ![h] = title]
         /\ events' = events \o <<TitleEvent(h, title), Done(h)>>
  BY DEF Retitles
<1>2. UNCHANGED <<order, active, tableVars>> /\ Existing' = Existing
  BY DEF Retitles, CompositorChange, Existing
<1> DEFINE r == <<TitleEvent(h, title), Done(h)>>
<1>3. DesktopOK /\ h \in Handles /\ title \in Strings /\ titleOf \in [Handles -> Strings]
  BY ExistingTitled DEF World, DesktopOK, Strings
<1>4. \A g \in Handles : titleOf'[g] = IF g = h THEN title ELSE titleOf[g]
  BY <1>1, <1>3
<1>5. DesktopOK'
  <2>1. titleOf' \in [Handles -> Strings]
    BY <1>1, <1>3
  <2>2. \A g \in Existing : g \in Handles /\ titleOf'[g] \in Titles
    BY <1>3, <1>4, ExistingTitled
  <2> QED BY <1>2, <1>3, <2>1, <2>2 DEF DesktopOK
<1>6. IsList(r) /\ Range(r) = {TitleEvent(h, title), Done(h)}
  BY PairList
<1>7. r \in Seq(Sent)
  BY <1>3, <1>6, EventFacts, ListOver
<1>8. events' = events \o r
  BY <1>1
<1> HIDE DEF r
<1>9. ASSUME NEW k \in Handles PROVE Reported(r, k)
  <2>1. \A e \in Range(r) :
           \E g \in Existing : e \in {StateEvent(g, active'), TitleEvent(g, titleOf'[g]), Done(g)}
    BY <1>3, <1>4, <1>6
  <2>2. titleOf'[k] # titleOf[k] => TitleEvent(k, titleOf'[k]) \in Range(r)
    BY <1>4, <1>6
  <2>3. \A g \in Handles : titleOf[g] # "" => titleOf'[g] # ""
    BY <1>4, ToplevelAssumption
  <2> QED BY <1>2, <1>3, <1>5, <2>1, <2>2, <2>3, StayingReported
<1>10. \A f, g \in Handles : Before(f, g)' => Before(f, g)
  BY <1>2 DEF Before
<1> QED BY <1>2, <1>5, <1>7, <1>8, <1>9, <1>10 DEF Change

LEMMA RepeatsChange ==
    ASSUME World, NEW h \in Existing, UNCHANGED <<compositorVars, tableVars>>,
           events' = events \o <<StateEvent(h, active), Done(h)>>
    PROVE  \E r : Change(r)
<1> DEFINE r == <<StateEvent(h, active), Done(h)>>
<1>1. UNCHANGED <<order, titleOf, active, tableVars>> /\ Existing' = Existing
  BY DEF compositorVars, Existing
<1>2. DesktopOK /\ DesktopOK' /\ h \in Handles /\ "" \in Strings
  BY <1>1, ExistingTitled DEF World, DesktopOK, Strings
<1>3. IsList(r) /\ Range(r) = {StateEvent(h, active), Done(h)}
  BY PairList
<1>4. r \in Seq(Sent)
  <2>1. StateEvent(h, active) \in Sent /\ Done(h) \in Sent
    BY <1>2, EventFacts
  <2> HIDE DEF r
  <2> QED BY <1>3, <2>1, ListOver
<1>5. events' = events \o r
  OBVIOUS
<1> HIDE DEF r
<1>6. ASSUME NEW k \in Handles PROVE Reported(r, k)
  BY <1>1, <1>2, <1>3, StayingReported
<1>7. \A f, g \in Handles : Before(f, g)' => Before(f, g)
  BY <1>1 DEF Before
<1> QED BY <1>1, <1>2, <1>4, <1>5, <1>6, <1>7 DEF Change

LEMMA FinishesChange ==
    ASSUME World, Finishes
    PROVE  \E r : Change(r)
<1> DEFINE e == Ev("finished", "none")
           r == <<e>>
<1>1. /\ UNCHANGED <<order, titleOf, active, tableVars>> /\ Existing' = Existing
      /\ events' = events \o r
  BY DEF Finishes, CompositorChange, compositorVars, Existing
<1>2. e \in Sent /\ e.type = "finished" /\ e.handle = "none"
  <2>1. e = [type |-> "finished", handle |-> "none", title |-> "", activated |-> FALSE]
    BY DEF Ev
  <2> HIDE DEF e
  <2>2. e.type = "finished" /\ e.handle = "none"
    BY <2>1
  <2>3. "" \in Strings
    BY DEF Strings
  <2>4. e \in EventTypes
    BY <2>1, <2>3 DEF EventTypes
  <2> QED BY <2>2, <2>4 DEF Sent
<1> HIDE DEF e
<1>3. IsList(r) /\ Range(r) = {e}
  BY OneList
<1>4. r \in Seq(Sent)
  BY <1>2, <1>3, ListOver
<1>5. DesktopOK /\ DesktopOK'
  BY <1>1 DEF World, DesktopOK
<1> HIDE DEF r
<1>6. ASSUME NEW k \in Handles PROVE Reported(r, k)
  <2>1. k # "none"
    BY WindowSyncAssumption
  <2>2. \A T : Meets(r, T) <=> e \in T
    BY <1>3, MeetsRange
  <2>3. \A t : ~Meets(r, Of(t, k)) /\ ~Meets(r, About(k))
    BY <1>2, <2>1, <2>2 DEF Of, About
  <2>4. ~Meets(r, Of("title", k) \ Told(k)') /\ ~Meets(r, Of("state", k) \ Seen(k)')
    BY <1>2, <2>1, <2>2 DEF Of
  <2> QED BY <1>1, <2>3, <2>4 DEF Reported
<1>7. \A f, g \in Handles : Before(f, g)' => Before(f, g)
  BY <1>1 DEF Before
<1> QED BY <1>1, <1>4, <1>5, <1>6, <1>7 DEF Change

-----------------------------------------------------------------------------
\* A window goes, and with the active one another becomes active.
LEMMA CloseChange ==
    ASSUME World, NEW h \in Existing, Close(h), UNCHANGED <<titleOf, tableVars>>
    PROVE  \E r : Change(r)
<1> DEFINE c == Ev("closed", h)
           a == StateEvent(active', active')
           d == Done(active')
           p == <<c>>
           s == IF active # h \/ order' = <<>> THEN <<>> ELSE <<a, d>>
           r == p \o s
<1>1. DesktopOK /\ events \in Seq(Sent) /\ h \in Handles /\ order \in Seq(Handles) /\ IsInjective(order)
  BY ExistingTitled DEF World, DesktopOK
<1>2. /\ order' = RemoveFirst(order, h) /\ titleOf' = titleOf
      /\ active' = IF active # h THEN active ELSE IF order' = <<>> THEN "none" ELSE Head(order')
      /\ events' = events \o p \o s
  BY DEF Close
<1>3. /\ order' \in Seq(Handles) /\ IsInjective(order') /\ Existing' = Existing \ {h}
      /\ \E i \in 1..Len(order) :
            /\ order[i] = h /\ Len(order') = Len(order) - 1
            /\ \A j \in 1..Len(order') : order'[j] = IF j < i THEN order[j] ELSE order[j + 1]
  BY <1>1, <1>2, RemovedShape DEF Existing
<1>4. order' # <<>> => Head(order') \in Existing'
  <2>1. order' # <<>> => 1 \in DOMAIN order' /\ Head(order') = order'[1]
    BY <1>3
  <2> QED BY <2>1 DEF Existing, Range
<1>5. active \in Existing \cup {"none"}
  BY <1>1 DEF DesktopOK
<1>6. active' \in Existing' \cup {"none"}
  BY <1>2, <1>3, <1>4, <1>5
<1>7. DesktopOK'
  <2>1. \A g \in Existing' : titleOf'[g] \in Titles
    BY <1>1, <1>2, <1>3 DEF DesktopOK
  <2>2. titleOf' \in [Handles -> Strings]
    BY <1>1, <1>2 DEF DesktopOK
  <2> QED BY <1>3, <1>6, <2>1, <2>2 DEF DesktopOK
<1>8. \A g \in Existing' : g \in Handles /\ g # h /\ g \in Existing /\ titleOf[g] # ""
  BY <1>1, <1>3, ExistingTitled
<1>9. "" \in Strings
  BY DEF Strings
<1>10. c \in Sent \cap Of("closed", h)
  BY <1>1, <1>9, EventFacts
<1>11. active' \in Existing' => /\ a \in Sent \cap Of("state", active') /\ a.activated
                                /\ d \in Sent \cap Of("done", active')
  BY <1>8, <1>9, EventFacts
<1>12. active = h /\ order' # <<>> => active' \in Existing'
  BY <1>2, <1>4
<1>13. /\ IsList(s) /\ Range(s) \subseteq {a, d}
       /\ (active # h \/ order' = <<>>) => Range(s) = {}
       /\ (active = h /\ order' # <<>>) => a \in Range(s)
  <2>1. CASE active = h /\ order' # <<>>
    <3>1. s = <<a, d>>
      BY <2>1
    <3> HIDE DEF s, a, d
    <3>2. IsList(s) /\ Range(s) = {a, d}
      BY <3>1, PairList
    <3> QED BY <2>1, <3>2
  <2>2. CASE ~(active = h /\ order' # <<>>)
    <3>1. s = <<>>
      BY <2>2
    <3> HIDE DEF s
    <3> QED BY <2>2, <3>1, EmptyList
  <2> QED BY <2>1, <2>2
<1>14. IsList(p) /\ Range(p) = {c}
  BY OneList
<1> HIDE DEF p, s, a, d, c
<1>15. Range(s) # {} => active = h /\ active' \in Existing'
  BY <1>12, <1>13
<1>16. p \in Seq(Sent) /\ s \in Seq(Sent)
  <2>1. Range(p) \subseteq Sent /\ Range(s) \subseteq Sent
    BY <1>10, <1>11, <1>13, <1>14, <1>15
  <2> QED BY <1>13, <1>14, <2>1, ListOver
<1>17. r \in Seq(Sent) /\ events' = events \o r
  BY <1>1, <1>2, <1>16, ConcatAssociative
<1>18. IsList(r) /\ Range(r) = {c} \cup Range(s)
  BY <1>13, <1>14, ConcatList
<1> HIDE DEF r
<1>19. ASSUME NEW k \in Handles PROVE Reported(r, k)
  <2>1. \A T : Meets(r, T) <=> c \in T \/ (\E e \in Range(s) : e \in T)
    BY <1>18, MeetsRange
  <2>2. \A T : (\E e \in Range(s) : e \in T) => active = h /\ active' \in Existing' /\ (a \in T \/ d \in T)
    BY <1>13, <1>15
  <2>3. Meets(r, About(k)) => k = h \/ (k = active' /\ active' \in Existing')
    <3>1. c \in About(k) => k = h
      BY <1>10 DEF Of, About
    <3>2. active' \in Existing' /\ (a \in About(k) \/ d \in About(k)) => k = active'
      BY <1>11 DEF Of, About
    <3> QED BY <2>1, <2>2, <3>1, <3>2
  <2>4. ~Meets(r, Of("toplevel", k)) /\ ~Meets(r, Of("title", k) \ Told(k)')
    <3>1. ~(c \in Of("toplevel", k)) /\ ~(c \in Of("title", k))
      BY <1>10 DEF Of
    <3>2. active' \in Existing' => /\ ~(a \in Of("toplevel", k)) /\ ~(a \in Of("title", k))
                                  /\ ~(d \in Of("toplevel", k)) /\ ~(d \in Of("title", k))
      BY <1>11 DEF Of
    <3> QED BY <2>1, <2>2, <3>1, <3>2
  <2>5. Meets(r, Of("closed", k)) => k = h
    BY <1>10, <1>11, <2>1, <2>2 DEF Of
  <2>6. ~Meets(r, Of("state", k) \ Seen(k)')
    <3>1. ~(c \in Of("state", k))
      BY <1>10 DEF Of
    <3>2. active' \in Existing' => ~(d \in Of("state", k)) /\ ~(a \in Of("state", k) \ Seen(k)')
      BY <1>11 DEF Of, Seen
    <3> QED BY <2>1, <2>2, <3>1, <3>2
  <2>7. ASSUME k \in Existing', ~((k = active') <=> (k = active))
        PROVE  Meets(r, Of("state", k))
    <3>1. k # h /\ k # "none" /\ active = h
      BY <1>2, <1>8, <2>7, WindowSyncAssumption
    <3>2. k = active' /\ order' # <<>>
      BY <1>2, <2>7, <3>1
    <3> QED BY <1>11, <1>13, <2>1, <2>7, <3>1, <3>2
  <2>8. k \in Existing /\ k \notin Existing' => Meets(r, Of("closed", k))
    BY <1>3, <1>10, <2>1
  <2>9. titleOf'[k] = "" => titleOf[k] = "" /\ ~Meets(r, About(k))
    <3>1. titleOf[h] # ""
      BY <1>1, ExistingTitled
    <3> QED BY <1>2, <1>8, <2>3, <3>1
  <2> QED BY <1>2, <1>3, <1>8, <2>3, <2>4, <2>5, <2>6, <2>7, <2>8, <2>9 DEF Reported
<1>20. ASSUME NEW f \in Handles, NEW g \in Handles, Before(f, g)' PROVE Before(f, g)
  <2>1. PICK i \in DOMAIN order', j \in DOMAIN order' : i < j /\ order'[i] = f /\ order'[j] = g
    BY <1>20 DEF Before
  <2>2. PICK n \in 1..Len(order) :
           /\ order[n] = h /\ Len(order') = Len(order) - 1
           /\ \A m \in 1..Len(order') : order'[m] = IF m < n THEN order[m] ELSE order[m + 1]
    BY <1>3
  <2>3. /\ Len(order) \in Nat /\ DOMAIN order = 1..Len(order)
        /\ DOMAIN order' = 1..Len(order') /\ Len(order') \in Nat
    BY <1>1, <1>3
  <2> DEFINE x == IF i < n THEN i ELSE i + 1
             y == IF j < n THEN j ELSE j + 1
  <2>4. x \in DOMAIN order /\ y \in DOMAIN order /\ x < y
    BY <2>1, <2>2, <2>3
  <2>5. order[x] = f /\ order[y] = g
    BY <2>1, <2>2, <2>3
  <2> HIDE DEF x, y
  <2> QED BY <2>4, <2>5 DEF Before
<1>21. UNCHANGED tableVars
  OBVIOUS
<1> QED BY <1>7, <1>17, <1>19, <1>20, <1>21 DEF Change

\* A window that was not known before comes behind the others.
LEMMA OpensChange ==
    ASSUME World, Opens
    PROVE  \E r : Change(r)
<1>1. PICK h \in Handles, title \in Titles :
         /\ titleOf[h] = "" /\ order' = Append(order, h) /\ titleOf' = [titleOf EXCEPT ![h] = title]
         /\ events' = events \o Announcement(h, title, active)
  BY DEF Opens
<1>2. active' = active /\ UNCHANGED tableVars
  BY DEF Opens, CompositorChange
<1>3. /\ DesktopOK /\ order \in Seq(Handles) /\ IsInjective(order)
      /\ titleOf \in [Handles -> Strings] /\ active \in Existing \cup {"none"}
  BY DEF World, DesktopOK
<1>4. h \notin Existing
  BY <1>1, <1>3, ExistingTitled
<1>5. /\ order' \in Seq(Handles) /\ Len(order) \in Nat /\ Len(order') = Len(order) + 1
      /\ DOMAIN order = 1..Len(order) /\ DOMAIN order' = 1..(Len(order) + 1)
      /\ \A i \in 1..Len(order) : order'[i] = order[i] /\ order[i] \in Existing
      /\ order'[Len(order) + 1] = h
  <2>1. /\ order' \in Seq(Handles) /\ Len(order) \in Nat /\ Len(order') = Len(order) + 1
        /\ DOMAIN order = 1..Len(order)
        /\ \A i \in 1..Len(order) : order'[i] = order[i]
        /\ order'[Len(order) + 1] = h
    <3>1. order' = Append(order, h) /\ order \in Seq(Handles)
      BY <1>1, <1>3
    <3>2. order' \in Seq(Handles)
      BY <3>1
    <3>3. IsList(order) /\ DOMAIN order = 1..Len(order) /\ Len(order) \in Nat
      BY <3>1, SeqIsList
    <3> QED BY <3>1, <3>2, <3>3, AppendShape
  <2>2. DOMAIN order' = 1..Len(order')
    BY <2>1
  <2>3. \A i \in 1..Len(order) : order[i] \in Existing
    BY <2>1 DEF Existing, Range
  <2> QED BY <2>1, <2>2, <2>3
<1>6. Existing' = Existing \cup {h}
  <2>1. Existing' \subseteq Existing \cup {h}
    <3> SUFFICES ASSUME NEW i \in DOMAIN order' PROVE order'[i] \in Existing \cup {h}
      BY DEF Existing, Range
    <3>1. i \in 1..Len(order) \/ i = Len(order) + 1
      BY <1>5
    <3> QED BY <1>5, <3>1
  <2>2. \A i \in DOMAIN order : i \in DOMAIN order' /\ order[i] = order'[i]
    BY <1>5
  <2>3. Len(order) + 1 \in DOMAIN order'
    BY <1>5
  <2> QED BY <1>5, <2>1, <2>2, <2>3 DEF Existing, Range
<1>7. title \in Strings /\ title # "" /\ "" \in Strings
  BY ToplevelAssumption DEF Strings
<1>8. \A g \in Handles : titleOf'[g] = IF g = h THEN title ELSE titleOf[g]
  BY <1>1, <1>3
<1>9. IsInjective(order')
  <2> SUFFICES ASSUME NEW i \in 1..(Len(order) + 1), NEW j \in 1..(Len(order) + 1), order'[i] = order'[j]
               PROVE  i = j
    BY <1>5 DEF IsInjective
  <2>1. (i \in 1..Len(order) \/ i = Len(order) + 1) /\ (j \in 1..Len(order) \/ j = Len(order) + 1)
    BY <1>5
  <2>2. CASE i \in 1..Len(order) /\ j \in 1..Len(order)
    BY <1>3, <1>5, <2>2 DEF IsInjective
  <2> QED BY <1>4, <1>5, <2>1, <2>2
<1>10. DesktopOK'
  <2>1. \A g \in Existing : g \in Handles /\ titleOf[g] \in Titles
    BY <1>3, ExistingTitled
  <2>2. \A g \in Existing' : titleOf'[g] \in Titles
    BY <1>1, <1>6, <1>8, <2>1
  <2>3. titleOf' \in [Handles -> Strings]
    BY <1>1, <1>3, <1>7
  <2> QED BY <1>2, <1>3, <1>5, <1>6, <1>9, <2>2, <2>3 DEF DesktopOK
<1> DEFINE a == Ev("toplevel", h)
           b == TitleEvent(h, title)
           c == StateEvent(h, active)
           d == Done(h)
           r == <<a, b, c, d>>
<1>11. events' = events \o r
  BY <1>1 DEF Announcement
<1>12. /\ a \in Sent \cap Of("toplevel", h) /\ b \in Sent \cap Of("title", h) /\ b.title = title
       /\ c \in Sent \cap Of("state", h) /\ (c.activated <=> h = active) /\ d \in Sent \cap Of("done", h)
  BY <1>7, EventFacts
<1> HIDE DEF a, b, c, d
<1>13. r \in Seq(Sent) /\ DOMAIN r = 1..4 /\ r[1] = a /\ r[2] = b /\ r[3] = c /\ r[4] = d
  BY <1>12
<1> HIDE DEF r
<1>14. \A T : Meets(r, T) <=> a \in T \/ b \in T \/ c \in T \/ d \in T
  <2> TAKE T
  <2>1. 1 \in 1..4 /\ 2 \in 1..4 /\ 3 \in 1..4 /\ 4 \in 1..4 /\ \A j \in 1..4 : j \in {1, 2, 3, 4}
    OBVIOUS
  <2>2. Meets(r, T) => a \in T \/ b \in T \/ c \in T \/ d \in T
    BY <1>13, <2>1 DEF Meets
  <2>3. a \in T \/ b \in T \/ c \in T \/ d \in T => Meets(r, T)
    BY <1>13, <2>1 DEF Meets
  <2> QED BY <2>2, <2>3
<1>15. FirstIn(r, Of("toplevel", h), About(h))
  <2> SUFFICES ASSUME NEW m \in 1..4, NEW n \in 1..4, r[m] \in Of("toplevel", h) PROVE m <= n
    BY <1>13 DEF FirstIn
  <2>1. m \in {1, 2, 3, 4}
    OBVIOUS
  <2>2. m = 1
    BY <1>12, <1>13, <2>1, Zenon DEF Of
  <2> QED BY <2>2
<1>16. ASSUME NEW k \in Handles PROVE Reported(r, k)
  <2>1. CASE k # h
    <3>1. \A T : T \subseteq About(k) => ~Meets(r, T)
      BY <1>12, <1>14, <2>1 DEF Of, About
    <3>2. \A t : Of(t, k) \subseteq About(k)
      BY DEF Of, About
    <3>3. \A t : ~Meets(r, Of(t, k)) /\ \A T : ~Meets(r, Of(t, k) \ T)
      BY <3>1, <3>2
    <3>4. ~Meets(r, About(k))
      BY <3>1
    <3>5. (k \in Existing' <=> k \in Existing) /\ titleOf'[k] = titleOf[k]
      BY <1>6, <1>8, <2>1
    <3> QED BY <1>2, <3>3, <3>4, <3>5 DEF Reported
  <2>2. CASE k = h
    <3>1. Meets(r, Of("toplevel", h)) /\ Meets(r, Of("title", h)) /\ Meets(r, Of("state", h))
      BY <1>12, <1>14
    <3>2. ~Meets(r, Of("closed", h))
      BY <1>12, <1>14 DEF Of
    <3>3. ~Meets(r, Of("title", h) \ Told(h)')
      <4>1. b \in Told(h)'
        BY <1>8, <1>12 DEF Told, Of
      <4> QED BY <1>12, <1>14, <4>1 DEF Of
    <3>4. ~Meets(r, Of("state", h) \ Seen(h)')
      <4>1. c \in Seen(h)'
        BY <1>2, <1>12 DEF Seen, Of
      <4> QED BY <1>12, <1>14, <4>1 DEF Of
    <3>5. titleOf'[h] = title /\ h \in Existing'
      BY <1>6, <1>8
    <3> QED BY <1>1, <1>2, <1>4, <1>7, <1>15, <2>2, <3>1, <3>2, <3>3, <3>4, <3>5 DEF Reported
  <2> QED BY <2>1, <2>2
<1>17. ASSUME NEW f \in Handles, NEW g \in Handles, Before(f, g)'
       PROVE  Before(f, g) \/ (f \in Existing /\ g \notin Existing)
  <2>1. PICK i \in DOMAIN order', j \in DOMAIN order' : i < j /\ order'[i] = f /\ order'[j] = g
    BY <1>17 DEF Before
  <2>2. CASE j = Len(order) + 1
    <3>1. i \in 1..Len(order) /\ order[i] = f
      BY <1>5, <2>1, <2>2
    <3>2. f \in Existing
      BY <1>3, <3>1 DEF Existing, Range
    <3> QED BY <1>4, <1>5, <2>1, <2>2, <3>2
  <2>3. CASE j # Len(order) + 1
    <3>1. i \in DOMAIN order /\ j \in DOMAIN order /\ order[i] = f /\ order[j] = g
      BY <1>5, <2>1, <2>3
    <3> QED BY <2>1, <3>1 DEF Before
  <2> QED BY <2>2, <2>3
<1> QED BY <1>2, <1>10, <1>11, <1>13, <1>16, <1>17 DEF Change

\* Every step of the compositor is such a change, and so is a request that it carries out.
LEMMA CompositorChanges ==
    ASSUME World, UserActivates \/ Opens \/ Retitles \/ UserCloses \/ Finishes
    PROVE  \E r : Change(r)
<1>1. UNCHANGED tableVars
  BY DEF UserActivates, Opens, Retitles, UserCloses, Finishes, CompositorChange
<1>2. CASE UserActivates
  <2>1. PICK h \in Existing \cup {"none"} : Activates(h)
    BY <1>2 DEF UserActivates
  <2> QED BY <1>1, <1>2, <2>1, ActivatesChange DEF UserActivates
<1>3. CASE UserCloses
  <2>1. PICK h \in Existing : Close(h)
    BY <1>3 DEF UserCloses
  <2> QED BY <1>1, <1>3, <2>1, CloseChange DEF UserCloses
<1>4. CASE Opens \/ Retitles \/ Finishes
  BY <1>4, OpensChange, RetitlesChange, FinishesChange
<1> QED BY <1>2, <1>3, <1>4

LEMMA RequestChanges ==
    ASSUME World, HandleRequest
    PROVE  UNCHANGED <<events, compositorVars>> \/ \E r : Change(r)
<1>1. PICK h : h = Head(requests).handle
  OBVIOUS
<1>2. UNCHANGED titleOf /\ UNCHANGED tableVars
  BY DEF HandleRequest
<1>3. \/ UNCHANGED <<order, active, events>>
      \/ h \in Existing /\ UNCHANGED order /\ Activates(h)
      \/ h \in Existing /\ Close(h)
      \/ /\ h \in Existing /\ UNCHANGED <<order, active>>
         /\ events' = events \o <<StateEvent(h, active), Done(h)>>
  BY <1>1 DEF HandleRequest
<1>4. CASE UNCHANGED <<order, active, events>>
  BY <1>2, <1>4 DEF compositorVars
<1>5. CASE h \in Existing /\ UNCHANGED order /\ Activates(h)
  BY <1>2, <1>5, ActivatesChange
<1>6. CASE h \in Existing /\ Close(h)
  BY <1>2, <1>6, CloseChange
<1>7. CASE /\ h \in Existing /\ UNCHANGED <<order, active>>
           /\ events' = events \o <<StateEvent(h, active), Done(h)>>
  BY <1>2, <1>7, RepeatsChange DEF compositorVars
<1> QED BY <1>3, <1>4, <1>5, <1>6, <1>7

-----------------------------------------------------------------------------
\* A title or an activation that is stored leaves the rest of the table as it is.
LEMMA StoreShape ==
    ASSUME slots \in Slots, NEW i \in 1..MaxSlots, NEW title \in Strings, NEW flag \in BOOLEAN,
           \/ slots' = [slots EXCEPT ![i].title = title]
           \/ slots' = [slots EXCEPT ![i].activated = flag]
    PROVE  /\ slots' \in Slots
           /\ \A j \in 1..MaxSlots :
                 /\ slots'[j].handle = slots[j].handle
                 /\ j # i => slots'[j] = slots[j]
           /\ slots' = [slots EXCEPT ![i].title = title] =>
                 slots'[i].title = title /\ slots'[i].activated = slots[i].activated
           /\ slots' = [slots EXCEPT ![i].activated = flag] =>
                 slots'[i].activated = flag /\ slots'[i].title = slots[i].title
<1>1. slots[i] \in SlotTypes /\ DOMAIN slots = 1..MaxSlots
  BY DEF Slots
<1>2. PICK x : x = slots'[i]
  OBVIOUS
<1>3. \A j \in 1..MaxSlots : j # i => slots'[j] = slots[j]
  BY DEF Slots
<1>4. CASE slots' = [slots EXCEPT ![i].title = title]
  <2>1. x = [slots[i] EXCEPT !.title = title]
    BY <1>1, <1>2, <1>4
  <2>2. x \in SlotTypes /\ x.handle = slots[i].handle /\ x.title = title /\ x.activated = slots[i].activated
    BY <1>1, <2>1 DEF SlotTypes
  <2>3. slots' \in Slots
    <3>1. slots' = [slots EXCEPT ![i] = x]
      BY <1>4, <2>1
    <3> QED BY <2>2, <3>1 DEF Slots
  <2>4. slots' = [slots EXCEPT ![i].activated = flag] => x.activated = flag
    <3>1. slots' = [slots EXCEPT ![i].activated = flag] => x = [slots[i] EXCEPT !.activated = flag]
      BY <1>1, <1>2
    <3> QED BY <1>1, <3>1 DEF SlotTypes
  <2>5. slots' = [slots EXCEPT ![i].activated = flag] => x.title = slots[i].title
    <3>1. slots' = [slots EXCEPT ![i].activated = flag] => x = [slots[i] EXCEPT !.activated = flag]
      BY <1>1, <1>2
    <3> QED BY <1>1, <3>1 DEF SlotTypes
  <2> QED BY <1>2, <1>3, <2>2, <2>3, <2>4, <2>5
<1>5. CASE slots' = [slots EXCEPT ![i].activated = flag]
  <2>1. x = [slots[i] EXCEPT !.activated = flag]
    BY <1>1, <1>2, <1>5
  <2>2. x \in SlotTypes /\ x.handle = slots[i].handle /\ x.activated = flag /\ x.title = slots[i].title
    BY <1>1, <2>1 DEF SlotTypes
  <2>3. slots' \in Slots
    <3>1. slots' = [slots EXCEPT ![i] = x]
      BY <1>5, <2>1
    <3> QED BY <2>2, <3>1 DEF Slots
  <2>4. slots' = [slots EXCEPT ![i].title = title] =>
          x.title = title /\ x.activated = slots[i].activated
    <3>1. slots' = [slots EXCEPT ![i].title = title] => x = [slots[i] EXCEPT !.title = title]
      BY <1>1, <1>2
    <3> QED BY <1>1, <3>1 DEF SlotTypes
  <2> QED BY <1>2, <1>3, <2>2, <2>3, <2>4
<1> QED BY <1>4, <1>5

\* A window that has been announced is not in the table and joins it.
LEMMA ToplevelWorld ==
    ASSUME World, HandleToplevel, UNCHANGED compositorVars
    PROVE  World'
<1> DEFINE e == Head(events)
           h == e.handle
<1>1. /\ Take("toplevel") /\ AddToplevel(h)
      /\ UNCHANGED <<focused, focusedTitle, epoch>> /\ events \in Seq(Sent) /\ TableTypeOK /\ InUse
  BY DEF HandleToplevel, World
<1>2. events # <<>> /\ events' = Tail(events) /\ h \in Handles /\ e \in Of("toplevel", h)
  <2>1. "toplevel" \notin {"sync", "finished"}
    OBVIOUS
  <2> QED BY <1>1, <2>1, TakeFacts
<1>3. ~InTable(h)
  BY <1>1, <1>2, QueueTaken DEF World, Announced, Coming
<1> HIDE DEF h, e
<1>4. MaxSlots \in Nat /\ count \in 0..MaxSlots
  BY <1>1, ToplevelAssumption DEF TableTypeOK
<1>5. TableTypeOK' /\ InUse' /\ \A g \in Handles : InTable(g)' => InTable(g) \/ g = h
  <2>1. CASE count = MaxSlots
    <3>1. UNCHANGED <<slots, count, slotOf>>
      BY <1>1, <2>1 DEF AddToplevel
    <3> QED BY <1>1, <3>1 DEF TableTypeOK, InUse, InTable
  <2>2. CASE count # MaxSlots
    <3>1. /\ count' = count + 1 /\ count + 1 \in 1..MaxSlots /\ slots' \in Slots
          /\ \A i \in 1..count : slots'[i] = slots[i]
          /\ slots'[count + 1] = Slot(h)
          /\ slotOf' \in [Handles -> 0..MaxSlots]
          /\ \A g \in Handles : slotOf'[g] = IF g = h THEN count + 1 ELSE slotOf[g]
      BY <1>1, <1>2, <2>2, AddShape
    <3>2. TableTypeOK'
      BY <1>1, <1>4, <3>1 DEF TableTypeOK, Slots
    <3>3. Slot(h).handle = h
      BY DEF Slot
    <3>4. \A i \in 1..count' : i \in 1..count \/ i = count + 1
      BY <1>4, <3>1
    <3>5. \A i \in 1..count : slots[i].handle \in Handles /\ slots[i].handle # h /\ slotOf[slots[i].handle] # 0
      BY <1>1, <1>3 DEF InUse, InTable
    <3>6. \A i \in 1..count' : slots'[i].handle \in Handles /\ slotOf'[slots'[i].handle] # 0
      BY <1>2, <1>4, <3>1, <3>3, <3>4, <3>5
    <3>7. \A i, j \in 1..count' : slots'[i].handle = slots'[j].handle => i = j
      BY <1>1, <3>1, <3>3, <3>4, <3>5 DEF InUse
    <3>8. \A g \in Handles : InTable(g)' => InTable(g) \/ g = h
      BY <3>1, <3>3, <3>4 DEF InTable
    <3> QED BY <3>2, <3>6, <3>7, <3>8 DEF InUse
  <2> QED BY <2>1, <2>2
<1>6. \A g \in Handles : InTable(g)' => InTable(g) \/ Head(events) \in Of("toplevel", g)
  BY <1>2, <1>5 DEF e
<1> QED BY <1>2, <1>5, <1>6, TakeKeepsWorld

\* What is stored for a window changes no other part of the world.
LEMMA StoreWorld ==
    ASSUME World, HandleTitle \/ HandleState, UNCHANGED compositorVars
    PROVE  World'
<1> DEFINE e == Head(events)
           h == e.handle
           i == slotOf[h]
<1>1. events \in Seq(Sent) /\ TableTypeOK /\ InUse /\ MaxSlots \in Nat /\ slots \in Slots
  BY ToplevelAssumption DEF World, TableTypeOK, Slots
<1>2. /\ events # <<>> /\ events' = Tail(events) /\ h \in Handles /\ e \in Sent
  <2>1. "title" \notin {"sync", "finished"} /\ "state" \notin {"sync", "finished"}
    OBVIOUS
  <2> QED BY <1>1, <2>1, TakeFacts DEF HandleTitle, HandleState
<1>3. e.title \in Strings /\ e.activated \in BOOLEAN
  BY <1>2 DEF Sent, EventTypes
<1>4. i \in 0..MaxSlots
  BY <1>1, <1>2 DEF TableTypeOK
<1>5. /\ UNCHANGED <<count, slotOf, epoch>>
      /\ \/ UNCHANGED <<slots, focused, focusedTitle>>
         \/ /\ i # 0 /\ slots' = [slots EXCEPT ![i].title = e.title]
            /\ UNCHANGED <<focused, focusedTitle>>
         \/ /\ i # 0 /\ slots' = [slots EXCEPT ![i].activated = e.activated]
            /\ focused' = IF e.activated /\ i <= count THEN i - 1 ELSE focused
            /\ focusedTitle' = IF e.activated THEN slots[i].title ELSE focusedTitle
  BY DEF HandleTitle, HandleState
<1> HIDE DEF i, h, e
<1>6. /\ slots' \in Slots /\ \A j \in 1..MaxSlots : slots'[j].handle = slots[j].handle
      /\ focused' \in 0..(MaxSlots - 1) /\ focusedTitle' \in Strings
  <2>1. focused \in 0..(MaxSlots - 1) /\ focusedTitle \in Strings
    BY <1>1 DEF TableTypeOK
  <2>2. CASE UNCHANGED <<slots, focused, focusedTitle>>
    BY <1>1, <2>1, <2>2
  <2>3. CASE i # 0 /\ ~UNCHANGED <<slots, focused, focusedTitle>>
    <3>1. i \in 1..MaxSlots
      BY <1>4, <2>3
    <3>2. slots' \in Slots /\ \A j \in 1..MaxSlots : slots'[j].handle = slots[j].handle
      BY <1>1, <1>3, <1>5, <2>3, <3>1, StoreShape
    <3>3. slots[i].title \in Strings /\ i - 1 \in 0..(MaxSlots - 1)
      BY <1>1, <3>1 DEF Slots, SlotTypes
    <3> QED BY <1>5, <2>1, <2>3, <3>2, <3>3
  <2> QED BY <1>5, <2>2, <2>3
<1>7. TableTypeOK'
  BY <1>1, <1>5, <1>6 DEF TableTypeOK, Slots
<1>8. count \in 0..MaxSlots /\ \A j \in 1..count : j \in 1..MaxSlots
  BY <1>1 DEF TableTypeOK
<1>9. InUse' /\ \A g \in Handles : InTable(g)' => InTable(g)
  BY <1>1, <1>5, <1>6, <1>8 DEF InUse, InTable
<1> QED BY <1>2, <1>7, <1>9, TakeKeepsWorld

\* A window that leaves makes room and adds nothing.
LEMMA ClosedWorld ==
    ASSUME World, HandleClosed, UNCHANGED compositorVars
    PROVE  World'
<1> DEFINE h == Head(events).handle
<1>1. events \in Seq(Sent) /\ TableTypeOK /\ InUse /\ MaxSlots \in Nat
  BY ToplevelAssumption DEF World, TableTypeOK
<1>2. events # <<>> /\ events' = Tail(events) /\ h \in Handles
  <2>1. "closed" \notin {"sync", "finished"}
    OBVIOUS
  <2> QED BY <1>1, <2>1, TakeFacts DEF HandleClosed
<1>3. /\ UNCHANGED <<slotOf, focused, focusedTitle>>
      /\ UNCHANGED <<slots, count, epoch>> \/ RemoveToplevel(h)
  BY DEF HandleClosed
<1> HIDE DEF h
<1>4. CASE UNCHANGED <<slots, count, epoch>>
  <2>1. UNCHANGED tableVars
    BY <1>3, <1>4 DEF tableVars
  <2> QED BY <1>2, <2>1, TakeStill
<1>5. CASE RemoveToplevel(h) /\ ~InTable(h)
  <2>1. UNCHANGED <<slots, count, epoch>>
    BY <1>5 DEF RemoveToplevel, InTable
  <2>2. UNCHANGED tableVars
    BY <1>3, <2>1 DEF tableVars
  <2> QED BY <1>2, <2>2, TakeStill
<1>6. CASE RemoveToplevel(h) /\ InTable(h)
  <2>1. PICK gone \in 1..count :
           /\ slots' \in Slots /\ count' = count - 1 /\ epoch' = epoch + 1
           /\ \A i \in 1..(count - 1) : slots'[i] = IF i < gone THEN slots[i] ELSE slots[i + 1]
    BY <1>1, <1>2, <1>6, RemoveShape
  <2>2. count \in Nat /\ count <= MaxSlots /\ epoch \in Nat /\ MaxSlots \in Nat
    BY <1>1 DEF TableTypeOK
  <2>3. count' \in 0..MaxSlots /\ epoch' \in Nat
    BY <2>1, <2>2
  <2>4. TableTypeOK'
    BY <1>1, <1>3, <2>1, <2>3 DEF TableTypeOK, Slots
  <2> DEFINE old(i) == IF i < gone THEN i ELSE i + 1
  <2>5. \A i \in 1..count' : old(i) \in 1..count /\ slots'[i] = slots[old(i)]
    BY <2>1, <2>2
  <2>6. \A i, j \in 1..count' : old(i) = old(j) => i = j
    BY <2>1, <2>2
  <2> HIDE DEF old
  <2>7. InUse'
    BY <1>1, <1>3, <2>5, <2>6 DEF InUse
  <2>8. \A g \in Handles : InTable(g)' => InTable(g)
    BY <2>5 DEF InTable
  <2> QED BY <1>2, <2>4, <2>7, <2>8, TakeKeepsWorld
<1> QED BY <1>3, <1>4, <1>5, <1>6

-----------------------------------------------------------------------------
\* At the start each window's announcement stands at four places of its own.
LEMMA InitEvents ==
    ASSUME Init
    PROVE  /\ DesktopOK /\ events \in Seq(Sent) /\ Len(order) \in Nat /\ DOMAIN order = 1..Len(order)
           /\ \A i \in 1..Len(order) :
                 /\ {4 * i - 3, 4 * i - 2, 4 * i - 1, 4 * i} \subseteq DOMAIN events
                 /\ events[4 * i - 3] \in Of("toplevel", order[i])
                 /\ events[4 * i - 2] \in Of("title", order[i]) /\ events[4 * i - 2].title = titleOf[order[i]]
                 /\ events[4 * i - 1] \in Of("state", order[i])
                 /\ events[4 * i - 1].activated <=> order[i] = active
                 /\ events[4 * i] \in Of("done", order[i])
           /\ \A j \in DOMAIN events :
                 \/ events[j].type = "sync" /\ events[j].handle = "none"
                 \/ \E i \in 1..Len(order) : j \in {4 * i - 3, 4 * i - 2, 4 * i - 1, 4 * i}
<1>a. PICK n : n = Len(order)
  OBVIOUS
<1>b. PICK blocks : blocks = [i \in DOMAIN order |-> Announcement(order[i], InitialTitle, active)]
  OBVIOUS
<1>c. PICK t : t = FlattenSeq(blocks)
  OBVIOUS
<1>d. PICK last : last = Ev("sync", "none")
  OBVIOUS
<1>1. /\ order = InitialHandles /\ active = IF InitialHandles = <<>> THEN "none" ELSE Head(InitialHandles)
      /\ titleOf = [h \in Handles |-> IF h \in Range(InitialHandles) THEN InitialTitle ELSE ""]
      /\ events = t \o <<last>>
  BY <1>b, <1>c, <1>d DEF Init
<1>2. /\ order \in Seq(Handles) /\ IsInjective(order) /\ n \in Nat /\ DOMAIN order = 1..n
      /\ InitialTitle \in Titles /\ InitialTitle \in Strings /\ "" \in Strings
  <2>1. order \in Seq(Handles) /\ IsInjective(order)
    BY <1>1, WindowSyncAssumption
  <2>2. n \in Nat /\ DOMAIN order = 1..n
    BY <1>a, <2>1
  <2> QED BY <2>1, <2>2, WindowSyncAssumption DEF Strings
<1>e. order \in Seq(Handles) /\ n \in Nat /\ DOMAIN order = 1..n
  BY <1>2
<1>3. \A i \in 1..n : order[i] \in Handles /\ order[i] \in Existing
  <2>1. \A i \in 1..n : order[i] \in Handles
    BY <1>e
  <2>2. \A i \in 1..n : order[i] \in Existing
    BY <1>e DEF Existing, Range
  <2> QED BY <2>1, <2>2
<1>4. DesktopOK
  <2>1. titleOf \in [Handles -> Strings] /\ \A h \in Existing : titleOf[h] \in Titles
    <3>1. \A h \in Existing : h \in Handles
      BY <1>e DEF Existing, Range
    <3>2. \A h \in Handles : titleOf[h] = IF h \in Existing THEN InitialTitle ELSE ""
      BY <1>1 DEF Existing
    <3>3. titleOf \in [Handles -> Strings]
      BY <1>1, <1>2
    <3> QED BY <1>2, <3>1, <3>2, <3>3
  <2>2. active \in Existing \cup {"none"}
    <3>1. CASE order = <<>>
      BY <1>1, <3>1
    <3>2. CASE order # <<>>
      <4>1. 1 \in 1..n /\ Head(order) = order[1]
        BY <1>a, <1>e, <3>2
      <4> QED BY <1>1, <1>3, <3>2, <4>1
    <3> QED BY <3>1, <3>2
  <2> QED BY <1>2, <2>1, <2>2 DEF DesktopOK
<1>5. \A i \in 1..n : titleOf[order[i]] = InitialTitle
  BY <1>1, <1>3 DEF Existing
<1>6. ASSUME NEW i \in 1..n
      PROVE  /\ blocks[i] \in Seq(Sent) /\ Len(blocks[i]) = 4
             /\ blocks[i][1] \in Of("toplevel", order[i])
             /\ blocks[i][2] \in Of("title", order[i]) /\ blocks[i][2].title = titleOf[order[i]]
             /\ blocks[i][3] \in Of("state", order[i]) /\ (blocks[i][3].activated <=> order[i] = active)
             /\ blocks[i][4] \in Of("done", order[i])
  <2> DEFINE h == order[i]
             a == Ev("toplevel", h)
             b == TitleEvent(h, InitialTitle)
             c == StateEvent(h, active)
             d == Done(h)
  <2>1. blocks[i] = <<a, b, c, d>>
    BY <1>b, <1>2 DEF Announcement
  <2>2. h \in Handles
    BY <1>3
  <2>3. /\ a \in Sent \cap Of("toplevel", h) /\ b \in Sent \cap Of("title", h) /\ b.title = InitialTitle
        /\ c \in Sent \cap Of("state", h) /\ (c.activated <=> h = active) /\ d \in Sent \cap Of("done", h)
    BY <1>2, <2>2, EventFacts
  <2> HIDE DEF a, b, c, d
  <2>4. /\ blocks[i] \in Seq(Sent) /\ Len(blocks[i]) = 4
        /\ blocks[i][1] = a /\ blocks[i][2] = b /\ blocks[i][3] = c /\ blocks[i][4] = d
    BY <2>1, <2>3
  <2> QED BY <1>5, <2>3, <2>4
<1>7. last \in Sent /\ last.type = "sync" /\ last.handle = "none"
  <2>1. last = [type |-> "sync", handle |-> "none", title |-> "", activated |-> FALSE]
    BY <1>d DEF Ev
  <2>2. last.type = "sync" /\ last.handle = "none"
    BY <2>1
  <2>3. last \in EventTypes
    BY <1>2, <2>1 DEF EventTypes
  <2> QED BY <2>2, <2>3 DEF Sent
<1>8. blocks = [i \in 1..n |-> blocks[i]]
  BY <1>b, <1>2
<1>9. /\ t \in Seq(Sent) /\ Len(t) = 4 * n
      /\ \A i \in 1..n : \A c \in 1..4 : t[4 * (i - 1) + c] = blocks[i][c]
  <2>1. \A i \in 1..n : blocks[i] \in Seq(Sent) /\ Len(blocks[i]) = 4
    BY <1>6
  <2>2. n \in Nat
    BY <1>2
  <2>4. blocks \in Seq(Seq(Sent)) /\ Len(blocks) = n
    BY <1>8, <2>1, <2>2
  <2>3. LET u == FlattenSeq(blocks)
        IN  /\ u \in Seq(Sent) /\ Len(u) = 4 * n
            /\ \A i \in 1..n : \A c \in 1..4 : u[4 * (i - 1) + c] = blocks[i][c]
    BY <2>1, <2>2, <2>4, FlattenedFours
  <2> QED BY <1>c, <2>3
<1>10. /\ <<last>> \in Seq(Sent) /\ Len(<<last>>) = 1 /\ <<last>>[1] = last /\ DOMAIN <<last>> = {1}
  BY <1>7
<1>11. /\ events \in Seq(Sent) /\ DOMAIN t = 1..(4 * n) /\ DOMAIN events = 1..(4 * n + 1)
       /\ \A j \in 1..(4 * n) : events[j] = t[j]
       /\ events[4 * n + 1] = last
  <2> DEFINE u == <<last>>
  <2>1. u \in Seq(Sent) /\ Len(u) = 1 /\ u[1] = last /\ 1 \in DOMAIN u
    BY <1>10
  <2> HIDE DEF u
  <2>2. /\ t \o u \in Seq(Sent) /\ Len(t \o u) = Len(t) + Len(u)
        /\ DOMAIN t = 1..Len(t) /\ DOMAIN (t \o u) = 1..Len(t \o u)
        /\ \A j \in DOMAIN t : (t \o u)[j] = t[j]
        /\ \A c \in DOMAIN u : (t \o u)[Len(t) + c] = u[c]
    <3>1. t \in Seq(Sent)
      BY <1>9
    <3> QED BY <2>1, <3>1, ConcatShape
  <2>3. events = t \o u
    BY <1>1 DEF u
  <2>4. Len(t) = 4 * n
    BY <1>9
  <2>5. DOMAIN t = 1..(4 * n) /\ Len(events) = 4 * n + 1 /\ events \in Seq(Sent)
    BY <2>1, <2>2, <2>3, <2>4
  <2>6. DOMAIN events = 1..(4 * n + 1)
    BY <2>2, <2>3, <2>5
  <2>7. \A j \in 1..(4 * n) : events[j] = t[j]
    BY <2>2, <2>3, <2>5
  <2>8. events[4 * n + 1] = last
    BY <2>1, <2>2, <2>3, <2>4
  <2> QED BY <2>5, <2>6, <2>7, <2>8
<1>12. ASSUME NEW i \in 1..n
       PROVE  /\ {4 * i - 3, 4 * i - 2, 4 * i - 1, 4 * i} \subseteq DOMAIN events
              /\ events[4 * i - 3] = blocks[i][1] /\ events[4 * i - 2] = blocks[i][2]
              /\ events[4 * i - 1] = blocks[i][3] /\ events[4 * i] = blocks[i][4]
  <2>0. n \in Nat
    BY <1>2
  <2>1. /\ 4 * (i - 1) + 1 = 4 * i - 3 /\ 4 * (i - 1) + 2 = 4 * i - 2
        /\ 4 * (i - 1) + 3 = 4 * i - 1 /\ 4 * (i - 1) + 4 = 4 * i
    BY <2>0
  <2>2. {4 * i - 3, 4 * i - 2, 4 * i - 1, 4 * i} \subseteq 1..(4 * n)
    BY <2>0
  <2>3. 1 \in 1..4 /\ 2 \in 1..4 /\ 3 \in 1..4 /\ 4 \in 1..4
    OBVIOUS
  <2>4. /\ t[4 * i - 3] = blocks[i][1] /\ t[4 * i - 2] = blocks[i][2]
        /\ t[4 * i - 1] = blocks[i][3] /\ t[4 * i] = blocks[i][4]
    <3>1. \A c \in 1..4 : t[4 * (i - 1) + c] = blocks[i][c]
      BY <1>9
    <3> QED BY <2>1, <2>3, <3>1
  <2>5. 1..(4 * n) \subseteq DOMAIN events
    <3>1. DOMAIN events = 1..(4 * n + 1)
      BY <1>11
    <3> QED BY <2>0, <3>1
  <2>6. \A j \in 1..(4 * n) : events[j] = t[j]
    BY <1>11
  <2> QED BY <2>2, <2>4, <2>5, <2>6
<1>13. ASSUME NEW j \in DOMAIN events
       PROVE  \/ events[j].type = "sync" /\ events[j].handle = "none"
              \/ \E i \in 1..n : j \in {4 * i - 3, 4 * i - 2, 4 * i - 1, 4 * i}
  <2>1. j \in 1..(4 * n) \/ j = 4 * n + 1
    <3>1. n \in Nat /\ DOMAIN events = 1..(4 * n + 1)
      BY <1>2, <1>11
    <3> QED BY <3>1
  <2>2. CASE j = 4 * n + 1
    BY <1>7, <1>11, <2>2
  <2>3. CASE j \in 1..(4 * n)
    <3>1. \A m \in Nat : \A k \in 1..(4 * m) :
             /\ (k - 1) \div 4 + 1 \in 1..m
             /\ \/ k = 4 * ((k - 1) \div 4 + 1) - 3 \/ k = 4 * ((k - 1) \div 4 + 1) - 2
                \/ k = 4 * ((k - 1) \div 4 + 1) - 1 \/ k = 4 * ((k - 1) \div 4 + 1)
      OBVIOUS
    <3>2. n \in Nat
      BY <1>2
    <3>3. PICK i : i = (j - 1) \div 4 + 1
      OBVIOUS
    <3>4. i \in 1..n /\ j \in {4 * i - 3, 4 * i - 2, 4 * i - 1, 4 * i}
      BY <2>3, <3>1, <3>2, <3>3
    <3> QED BY <3>4
  <2> QED BY <2>1, <2>2, <2>3
<1>14. \A i \in 1..n :
          /\ events[4 * i - 3] \in Of("toplevel", order[i])
          /\ events[4 * i - 2] \in Of("title", order[i]) /\ events[4 * i - 2].title = titleOf[order[i]]
          /\ events[4 * i - 1] \in Of("state", order[i])
          /\ events[4 * i - 1].activated <=> order[i] = active
          /\ events[4 * i] \in Of("done", order[i])
  BY <1>6, <1>12
<1>15. events \in Seq(Sent)
  BY <1>11
<1>16. \A i \in 1..n : {4 * i - 3, 4 * i - 2, 4 * i - 1, 4 * i} \subseteq DOMAIN events
  BY <1>12
<1> QED BY <1>a, <1>2, <1>4, <1>13, <1>14, <1>15, <1>16

\* Which windows' events stand where.
LEMMA InitPlaces ==
    ASSUME Init
    PROVE  /\ \A h, j : j \in DOMAIN events /\ events[j] \in Of("toplevel", h) =>
                 \E i \in 1..Len(order) : order[i] = h /\ j = 4 * i - 3
           /\ \A h \in Handles : \A j : j \in DOMAIN events /\ events[j] \in About(h) =>
                 \E i \in 1..Len(order) : order[i] = h /\ 4 * i - 3 <= j
           /\ \A h, j : j \in DOMAIN events /\ events[j] \in Of("title", h) => events[j].title = titleOf[h]
           /\ \A h, j : j \in DOMAIN events /\ events[j] \in Of("state", h) =>
                 (events[j].activated <=> h = active)
           /\ \A h, j : j \in DOMAIN events => events[j] \notin Of("closed", h)
<1> DEFINE n == Len(order)
<1>1. /\ n \in Nat
      /\ \A i \in 1..n :
            /\ events[4 * i - 3] \in Of("toplevel", order[i])
            /\ events[4 * i - 2] \in Of("title", order[i]) /\ events[4 * i - 2].title = titleOf[order[i]]
            /\ events[4 * i - 1] \in Of("state", order[i])
            /\ events[4 * i - 1].activated <=> order[i] = active
            /\ events[4 * i] \in Of("done", order[i])
      /\ \A j \in DOMAIN events :
            \/ events[j].type = "sync" /\ events[j].handle = "none"
            \/ \E i \in 1..n : j \in {4 * i - 3, 4 * i - 2, 4 * i - 1, 4 * i}
  BY InitEvents
<1> HIDE DEF n
<1>2. ASSUME NEW j \in DOMAIN events, NEW h, events[j] \in About(h), h # "none"
      PROVE  \E i \in 1..n : order[i] = h /\ j \in {4 * i - 3, 4 * i - 2, 4 * i - 1, 4 * i}
  <2>1. ~(events[j].type = "sync" /\ events[j].handle = "none")
    BY <1>2 DEF About
  <2>2. PICK i \in 1..n : j \in {4 * i - 3, 4 * i - 2, 4 * i - 1, 4 * i}
    BY <1>1, <2>1
  <2>3. events[j].handle = order[i]
    BY <1>1, <2>2 DEF Of
  <2> QED BY <1>2, <2>2, <2>3 DEF About
<1>3. ASSUME NEW j \in DOMAIN events, NEW h, NEW t \in {"toplevel", "title", "state", "closed"},
             events[j] \in Of(t, h)
      PROVE  \E i \in 1..n : /\ order[i] = h /\ j \in {4 * i - 3, 4 * i - 2, 4 * i - 1, 4 * i}
                             /\ t = "toplevel" => j = 4 * i - 3
                             /\ t = "title" => j = 4 * i - 2
                             /\ t = "state" => j = 4 * i - 1
                             /\ t # "closed"
  <2>1. events[j].type = t /\ events[j].handle = h /\ t # "sync"
    BY <1>3 DEF Of
  <2>2. PICK i \in 1..n : j \in {4 * i - 3, 4 * i - 2, 4 * i - 1, 4 * i}
    BY <1>1, <2>1
  <2>3. /\ events[4 * i - 3].type = "toplevel" /\ events[4 * i - 3].handle = order[i]
        /\ events[4 * i - 2].type = "title" /\ events[4 * i - 2].handle = order[i]
        /\ events[4 * i - 1].type = "state" /\ events[4 * i - 1].handle = order[i]
        /\ events[4 * i].type = "done" /\ events[4 * i].handle = order[i]
    BY <1>1 DEF Of
  <2>4. CASE j = 4 * i - 3
    BY <2>1, <2>2, <2>3, <2>4
  <2>5. CASE j = 4 * i - 2
    BY <2>1, <2>2, <2>3, <2>5
  <2>6. CASE j = 4 * i - 1
    BY <2>1, <2>2, <2>3, <2>6
  <2>7. CASE j = 4 * i
    BY <1>3, <2>1, <2>2, <2>3, <2>7
  <2> QED BY <2>2, <2>4, <2>5, <2>6, <2>7
<1>4. \A h \in Handles : \A j : j \in DOMAIN events /\ events[j] \in About(h) =>
         \E i \in 1..n : order[i] = h /\ 4 * i - 3 <= j
  <2> SUFFICES ASSUME NEW h \in Handles, NEW j \in DOMAIN events, events[j] \in About(h)
               PROVE  \E i \in 1..n : order[i] = h /\ 4 * i - 3 <= j
    OBVIOUS
  <2>1. h # "none"
    BY WindowSyncAssumption
  <2>2. PICK i \in 1..n : order[i] = h /\ j \in {4 * i - 3, 4 * i - 2, 4 * i - 1, 4 * i}
    BY <1>2, <2>1
  <2>3. 4 * i - 3 <= j
    BY <1>1, <2>2
  <2> QED BY <2>2, <2>3
<1>5. \A h, j : j \in DOMAIN events /\ events[j] \in Of("toplevel", h) =>
         \E i \in 1..n : order[i] = h /\ j = 4 * i - 3
  BY <1>3
<1>6. \A h, j : j \in DOMAIN events /\ events[j] \in Of("title", h) => events[j].title = titleOf[h]
  BY <1>1, <1>3
<1>7. \A h, j : j \in DOMAIN events /\ events[j] \in Of("state", h) => (events[j].activated <=> h = active)
  BY <1>1, <1>3
<1>8. \A h, j : j \in DOMAIN events => events[j] \notin Of("closed", h)
  BY <1>3
<1> QED BY <1>4, <1>5, <1>6, <1>7, <1>8 DEF n

-----------------------------------------------------------------------------
\* At the start the table is empty and the windows are announced.
LEMMA InitTable ==
    ASSUME Init
    PROVE  TableTypeOK /\ count = 0 /\ InUse /\ \A h : ~InTable(h)
<1>1. count = 0 /\ focused = 0 /\ epoch = 0 /\ MaxSlots \in Nat \ {0}
  BY ToplevelAssumption DEF Init, ToplevelInit
<1>2. EmptySlot \in SlotTypes
  BY DEF EmptySlot, Slot, SlotTypes, Strings
<1>3. slots \in [1..MaxSlots -> SlotTypes]
  <2>1. slots = [i \in 1..MaxSlots |-> EmptySlot]
    BY DEF Init, ToplevelInit
  <2> QED BY <1>2, <2>1
<1>4. slotOf \in [Handles -> 0..MaxSlots]
  <2>1. slotOf = [h \in Handles |-> 0]
    BY DEF Init, ToplevelInit
  <2> QED BY <1>1, <2>1
<1>5. count \in 0..MaxSlots /\ epoch \in Nat /\ focused \in 0..(MaxSlots - 1)
  BY <1>1
<1>6. TableTypeOK
  <2>1. focusedTitle \in Strings
    BY DEF Strings, Init, ToplevelInit
  <2> QED BY <1>3, <1>4, <1>5, <2>1 DEF TableTypeOK
<1>7. 1..count = {}
  BY <1>1
<1> QED BY <1>1, <1>6, <1>7 DEF InUse, InTable

LEMMA InitWorld == Init => World
<1> SUFFICES ASSUME Init PROVE World
  OBVIOUS
<1>1. DesktopOK /\ events \in Seq(Sent)
  BY InitEvents
<1>2. TableTypeOK /\ InUse /\ \A h : ~InTable(h)
  BY InitTable
<1>3. ASSUME NEW h \in Handles PROVE Announced(h)
  <2>1. order \in Seq(Handles) /\ Len(order) \in Nat
    BY <1>1 DEF DesktopOK
  <2>2. ASSUME NEW m \in DOMAIN events, NEW n \in DOMAIN events,
               events[m] \in Of("toplevel", h), events[n] \in About(h)
        PROVE  m <= n
    <3>1. PICK i \in 1..Len(order) : order[i] = h /\ m = 4 * i - 3
      BY <2>2, InitPlaces
    <3>2. PICK j \in 1..Len(order) : order[j] = h /\ 4 * j - 3 <= n
      BY <2>2, InitPlaces
    <3>3. i = j
      BY <1>1, <2>1, <3>1, <3>2 DEF DesktopOK, IsInjective
    <3> QED BY <3>1, <3>2, <3>3
  <2>3. FirstIn(events, Of("toplevel", h), About(h))
    BY <2>2 DEF FirstIn
  <2>4. ASSUME Coming(h)
        PROVE  Meets(events, Of("title", h)) /\ Meets(events, Of("state", h))
    <3>1. PICK m \in DOMAIN events : events[m] \in Of("toplevel", h)
      BY <2>4 DEF Coming, Meets
    <3>2. PICK i \in 1..Len(order) : order[i] = h
      BY <3>1, InitPlaces
    <3>3. /\ {4 * i - 3, 4 * i - 2, 4 * i - 1, 4 * i} \subseteq DOMAIN events
          /\ events[4 * i - 2] \in Of("title", h) /\ events[4 * i - 1] \in Of("state", h)
      BY <3>2, InitEvents
    <3> QED BY <3>3 DEF Meets
  <2>5. ASSUME Meets(events, About(h)) PROVE titleOf[h] # ""
    <3>1. PICK n \in DOMAIN events : events[n] \in About(h)
      BY <2>5 DEF Meets
    <3>2. PICK i \in 1..Len(order) : order[i] = h
      BY <3>1, InitPlaces
    <3>3. h \in Existing
      BY <2>1, <3>2 DEF Existing, Range
    <3> QED BY <1>1, <3>3, ExistingTitled
  <2> QED BY <1>2, <2>3, <2>4, <2>5 DEF Announced
<1> QED BY <1>1, <1>2, <1>3 DEF World

-----------------------------------------------------------------------------
\* Steps of nobody in it leave the world as it is.
LEMMA WorldStays ==
    ASSUME World, UNCHANGED <<events, compositorVars, tableVars>>
    PROVE  World'
<1>1. TableTypeOK' /\ InUse' /\ \A g : InTable(g)' <=> InTable(g)
  BY DEF World, TableTypeOK, InUse, InTable, tableVars
<1>2. DesktopOK'
  BY DEF World, DesktopOK, compositorVars, Existing
<1>3. ASSUME NEW h \in Handles PROVE Announced(h)'
  <2>1. Announced(h) /\ titleOf' = titleOf /\ events' = events
    BY DEF World, compositorVars
  <2> QED BY <1>1, <2>1 DEF Announced, Coming
<1>4. events' \in Seq(Sent)
  BY DEF World
<1> QED BY <1>1, <1>2, <1>3, <1>4 DEF World

\* The loop's other steps and the faults, which may lose what was on its way.
LEMMA LoopWorld ==
    ASSUME World, UNCHANGED compositorVars, UNCHANGED tableVars,
           \/ HandleDone \/ HandleSync \/ HandleFinished
           \/ EndDispatch \/ ReadFifo \/ CarryOut \/ FifoHangup \/ OpenFifo \/ OpenPublisher
           \/ UpdateState \/ Killed \/ Signal \/ WaylandFails
    PROVE  World'
<1>1. CASE HandleDone \/ HandleSync \/ HandleFinished
  <2>1. events # <<>> /\ events' = Tail(events)
    BY <1>1 DEF HandleDone, HandleSync, HandleFinished, Take
  <2> QED BY <2>1, TakeStill
<1>2. CASE \/ EndDispatch \/ ReadFifo \/ CarryOut \/ FifoHangup \/ OpenFifo \/ OpenPublisher
           \/ UpdateState \/ Killed \/ Signal
  <2>1. UNCHANGED events
    BY <1>2 DEF EndDispatch, ReadFifo, CarryOut, FifoHangup, OpenFifo, OpenPublisher, UpdateState,
                Killed, Signal
  <2> QED BY <2>1, WorldStays
<1>3. CASE WaylandFails
  <2>1. events' = <<>>
    BY <1>3 DEF WaylandFails
  <2>2. events' \in Seq(Sent) /\ \A j : j \notin DOMAIN events'
    BY <2>1
  <2>3. TableTypeOK' /\ InUse' /\ \A g : InTable(g)' <=> InTable(g)
    BY DEF World, TableTypeOK, InUse, InTable, tableVars
  <2>4. DesktopOK'
    BY DEF World, DesktopOK, compositorVars, Existing
  <2>5. ASSUME NEW h \in Handles PROVE Announced(h)'
    <3>1. (titleOf[h] = "" => ~InTable(h)) /\ titleOf' = titleOf
      BY DEF World, Announced, compositorVars
    <3> QED BY <2>2, <2>3, <3>1 DEF Announced, Coming, Meets, FirstIn
  <2> QED BY <2>2, <2>3, <2>4, <2>5 DEF World
<1> QED BY <1>1, <1>2, <1>3

LEMMA StepWorld == World /\ [Next]_syncVars => World'
<1> SUFFICES ASSUME World, [Next]_syncVars PROVE World'
  OBVIOUS
<1>1. ASSUME ToplevelStep PROVE World'
  <2>1. UNCHANGED compositorVars
    BY <1>1 DEF ToplevelStep
  <2>2. CASE HandleToplevel
    BY <2>1, <2>2, ToplevelWorld
  <2>3. CASE HandleTitle \/ HandleState
    BY <2>1, <2>3, StoreWorld
  <2>4. CASE HandleClosed
    BY <2>1, <2>4, ClosedWorld
  <2>5. CASE \/ HandleDone \/ HandleSync \/ HandleFinished
             \/ EndDispatch \/ ReadFifo \/ CarryOut \/ FifoHangup \/ OpenFifo \/ OpenPublisher
             \/ UpdateState \/ Killed \/ Signal \/ WaylandFails
    <3>1. UNCHANGED tableVars
      BY <2>5 DEF HandleDone, HandleSync, HandleFinished, EndDispatch, ReadFifo, CarryOut, FifoHangup,
                  OpenFifo, OpenPublisher, UpdateState, Killed, Signal, WaylandFails
    <3> QED BY <2>1, <2>5, <3>1, LoopWorld
  <2> QED BY <1>1, <2>2, <2>3, <2>4, <2>5 DEF ToplevelStep, Toplevel, ToplevelFaults
<1>2. ASSUME UserActivates \/ Opens \/ Retitles \/ UserCloses \/ Finishes PROVE World'
  BY <1>2, CompositorChanges, ChangeKeepsWorld
<1>3. ASSUME HandleRequest PROVE World'
  <2>1. CASE UNCHANGED <<events, compositorVars>>
    <3>1. UNCHANGED tableVars
      BY <1>3 DEF HandleRequest
    <3> QED BY <2>1, <3>1, WorldStays
  <2> QED BY <1>3, <2>1, RequestChanges, ChangeKeepsWorld
<1>4. ASSUME \/ PublishWindows \/ Command \/ WriteCommand \/ DaemonStops \/ DaemonStarts
             \/ UNCHANGED syncVars
      PROVE  World'
  <2>1. UNCHANGED <<events, compositorVars, tableVars>>
    BY <1>4 DEF PublishWindows, Command, WriteCommand, DaemonStops, DaemonStarts, syncVars, vars
  <2> QED BY <2>1, WorldStays
<1> QED BY <1>1, <1>2, <1>3, <1>4 DEF Next

-----------------------------------------------------------------------------
(* Everything keeps its type *)

QueueTypes ==
    /\ requests \in Seq(RequestTypes) /\ frames \in Seq(StateFrames) /\ shown \in StateFrames
    /\ fifo \in Seq(Lines) /\ lines \in Seq(Lines) /\ pending \in Lines \cup {NoCommand}

LinkTypes ==
    /\ live \in BOOLEAN /\ publisher \in BOOLEAN /\ up \in BOOLEAN /\ (live => publisher /\ up)
    /\ hup \in BOOLEAN /\ reading \in BOOLEAN /\ writer \in {"none", "open", "written"}
    /\ hup => writer = "none"

LoopTypes ==
    /\ dirty \in BOOLEAN /\ running \in BOOLEAN /\ sigpipe \in BOOLEAN
    /\ pc \in {"roundtrip", "synced", "open", "update", "poll", "carry", "dispatch", "over"}
    /\ resume \in {"none", "loop", "roundtrip", "synced", "dispatch"}
    /\ pc = "carry" <=> lines # <<>>
    /\ pc = "update" => resume # "none"

TypesInvariant == World /\ QueueTypes /\ LinkTypes /\ LoopTypes

-----------------------------------------------------------------------------
\* Which steps move what.
LEMMA Touched ==
    ASSUME [Next]_syncVars
    PROVE  /\ UNCHANGED requests \/ CarryOut \/ HandleRequest
           /\ UNCHANGED lines \/ ReadFifo \/ CarryOut
           /\ UNCHANGED fifo \/ ReadFifo \/ WriteCommand
           /\ UNCHANGED pending \/ Command \/ WriteCommand \/ DaemonStops
           /\ UNCHANGED frames \/ UpdateState \/ PublishWindows \/ DaemonStops
           /\ UNCHANGED shown \/ PublishWindows \/ DaemonStarts
           /\ UNCHANGED <<publisher, live, up>> \/ OpenPublisher \/ DaemonStops \/ DaemonStarts
           /\ UNCHANGED <<writer, hup>> \/ WriteCommand \/ DaemonStops
<1>1. ASSUME ToplevelStep
      PROVE  /\ UNCHANGED requests \/ CarryOut
             /\ UNCHANGED lines \/ ReadFifo \/ CarryOut
             /\ UNCHANGED fifo \/ ReadFifo
             /\ UNCHANGED frames \/ UpdateState
             /\ UNCHANGED <<publisher, live, up>> \/ OpenPublisher
             /\ UNCHANGED <<writer, hup, shown, pending>>
  <2>1. UNCHANGED shown /\ UNCHANGED pending
    BY <1>1 DEF ToplevelStep
  <2>2. CASE \/ HandleToplevel \/ HandleTitle \/ HandleState \/ HandleDone \/ HandleClosed
             \/ HandleSync \/ HandleFinished
    <3>1. UNCHANGED <<requestVars, fifoVars, linkVars>>
      BY <2>2 DEF HandleToplevel, HandleTitle, HandleState, HandleDone, HandleClosed, HandleSync,
                  HandleFinished, outsideVars
    <3> QED BY <2>1, <3>1 DEF requestVars, fifoVars, linkVars
  <2>3. CASE EndDispatch \/ FifoHangup \/ OpenFifo \/ Killed \/ Signal \/ WaylandFails
    <3>1. UNCHANGED <<requestVars, fifo, writer, hup, linkVars>>
      BY <2>3 DEF EndDispatch, FifoHangup, OpenFifo, Killed, Signal, WaylandFails, fifoVars
    <3> QED BY <2>1, <3>1 DEF requestVars, linkVars
  <2>4. CASE ReadFifo
    <3>1. UNCHANGED <<requests, writer, hup, linkVars>>
      BY <2>4 DEF ReadFifo
    <3> QED BY <2>1, <2>4, <3>1 DEF linkVars
  <2>5. CASE CarryOut
    <3>1. UNCHANGED <<fifoVars, linkVars>>
      BY <2>5 DEF CarryOut
    <3> QED BY <2>1, <2>5, <3>1 DEF linkVars, fifoVars
  <2>6. CASE OpenPublisher \/ UpdateState
    <3>1. UNCHANGED <<requestVars, fifo, writer, hup>> /\ (UNCHANGED frames \/ UpdateState)
          /\ (UNCHANGED <<publisher, live, up>> \/ OpenPublisher)
      BY <2>6 DEF OpenPublisher, UpdateState
    <3> QED BY <2>1, <3>1 DEF requestVars
  <2> QED BY <1>1, <2>2, <2>3, <2>4, <2>5, <2>6 DEF ToplevelStep, Toplevel, ToplevelFaults
<1>2. ASSUME UserActivates \/ Opens \/ Retitles \/ UserCloses \/ Finishes
      PROVE  /\ UNCHANGED <<requests, lines, fifo, pending, frames, shown>>
             /\ UNCHANGED <<publisher, live, up, writer, hup>>
  <2>1. CompositorChange
    BY <1>2 DEF UserActivates, Opens, Retitles, UserCloses, Finishes
  <2> QED BY <2>1 DEF CompositorChange, requestVars, fifoVars, linkVars
<1>3. ASSUME HandleRequest
      PROVE  /\ UNCHANGED <<lines, fifo, pending, frames, shown>>
             /\ UNCHANGED <<publisher, live, up, writer, hup>>
  BY <1>3 DEF HandleRequest, fifoVars, linkVars
<1>4. ASSUME PublishWindows
      PROVE  /\ UNCHANGED <<requests, lines, fifo, pending>>
             /\ UNCHANGED <<publisher, live, up, writer, hup>>
  BY <1>4 DEF PublishWindows, requestVars, fifoVars
<1>5. ASSUME Command
      PROVE  /\ UNCHANGED <<requests, lines, fifo, frames, shown>>
             /\ UNCHANGED <<publisher, live, up, writer, hup>>
  BY <1>5 DEF Command, requestVars, fifoVars, linkVars
<1>6. ASSUME WriteCommand
      PROVE  /\ UNCHANGED <<requests, lines, frames, shown>>
             /\ UNCHANGED <<publisher, live, up>>
  BY <1>6 DEF WriteCommand, requestVars, linkVars
<1>7. ASSUME DaemonStops
      PROVE  UNCHANGED <<requests, lines, fifo, shown>>
  BY <1>7 DEF DaemonStops, requestVars
<1>8. ASSUME DaemonStarts
      PROVE  UNCHANGED <<requests, lines, fifo, frames, pending, writer, hup>>
  BY <1>8 DEF DaemonStarts, requestVars, fifoVars
<1>9. ASSUME UNCHANGED syncVars
      PROVE  /\ UNCHANGED <<requests, lines, fifo, pending, frames, shown>>
             /\ UNCHANGED <<publisher, live, up, writer, hup>>
  BY <1>9 DEF syncVars, vars, outsideVars, requestVars, fifoVars, linkVars
<1>10. CASE ToplevelStep
  BY <1>1, <1>10
<1>11. CASE UserActivates \/ Opens \/ Retitles \/ UserCloses \/ Finishes \/ HandleRequest
  BY <1>2, <1>3, <1>11
<1>12. CASE PublishWindows \/ Command \/ WriteCommand
  BY <1>4, <1>5, <1>6, <1>12
<1>13. CASE DaemonStops \/ DaemonStarts \/ UNCHANGED syncVars
  BY <1>7, <1>8, <1>9, <1>13
<1> QED BY <1>10, <1>11, <1>12, <1>13 DEF Next

-----------------------------------------------------------------------------
LEMMA AskedTyped ==
    ASSUME NEW verb \in Verbs, NEW handle \in Handles, NEW line \in Lines
    PROVE  Asked(verb, handle, line) \in Seq(RequestTypes)
<1>1. ASSUME NEW v \in Verbs PROVE Request(v, handle, line) \in RequestTypes
  <2>1. PICK flag \in BOOLEAN : flag = (line.epoch # epoch)
    OBVIOUS
  <2>2. line.meant \in Handles
    BY DEF Lines
  <2>3. Request(v, handle, line) = [verb |-> v, handle |-> handle, meant |-> line.meant, stale |-> flag]
    BY <2>1 DEF Request
  <2> QED BY <2>2, <2>3 DEF RequestTypes
<1>2. "activate" \in Verbs
  BY DEF Verbs
<1> DEFINE a == Request(verb, handle, line)
           b == Request("activate", handle, line)
           p == IF verb = "activate" THEN <<>> ELSE <<a>>
           s == IF verb \in {"activate", "restore"} /\ HasSeat THEN <<b>> ELSE <<>>
<1>3. a \in RequestTypes /\ b \in RequestTypes
  BY <1>1, <1>2
<1>4. Asked(verb, handle, line) = p \o s
  BY DEF Asked
<1> HIDE DEF a, b
<1>5. p \in Seq(RequestTypes) /\ s \in Seq(RequestTypes)
  BY <1>3
<1> HIDE DEF p, s
<1> QED BY <1>4, <1>5

LEMMA RequestsTyped ==
    ASSUME TypesInvariant, [Next]_syncVars
    PROVE  requests' \in Seq(RequestTypes)
<1>1. requests \in Seq(RequestTypes)
  BY DEF TypesInvariant, QueueTypes
<1>2. CASE UNCHANGED requests
  BY <1>1, <1>2
<1>3. CASE HandleRequest
  BY <1>1, <1>3 DEF HandleRequest
<1>4. CASE CarryOut
  <2> DEFINE line == Head(lines)
             i == SlotOfId(line.id)
  <2>1. lines # <<>> /\ lines \in Seq(Lines)
    BY <1>4 DEF CarryOut, TypesInvariant, QueueTypes, LoopTypes
  <2>2. line \in Lines
    BY <2>1
  <2>3. requests' = IF i = 0 THEN requests ELSE requests \o Asked(line.verb, slots[i].handle, line)
    BY <1>4 DEF CarryOut
  <2>4. line.verb \in Verbs /\ line.id \in Nat
    BY <2>2 DEF Lines
  <2> HIDE DEF line
  <2>5. i # 0 => i \in 1..count
    <3>1. count \in Nat
      BY DEF TypesInvariant, World, TableTypeOK
    <3> QED BY <2>4, <3>1 DEF SlotOfId
  <2> HIDE DEF i
  <2>6. CASE i = 0
    BY <1>1, <2>3, <2>6
  <2>7. CASE i # 0
    <3>1. slots[i].handle \in Handles
      BY <2>5, <2>7 DEF TypesInvariant, World, InUse
    <3>2. Asked(line.verb, slots[i].handle, line) \in Seq(RequestTypes)
      BY <2>2, <2>4, <3>1, AskedTyped
    <3> QED BY <1>1, <2>3, <2>7, <3>2
  <2> QED BY <2>6, <2>7
<1> QED BY <1>2, <1>3, <1>4, Touched

-----------------------------------------------------------------------------
LEMMA CutTyped == \A line \in Lines : Cut(line) \in Lines
<1> SUFFICES ASSUME NEW line \in Lines PROVE Cut(line) \in Lines
  OBVIOUS
<1>1. line.verb \in Verbs /\ line.meant \in Handles
  BY DEF Lines
<1>2. 0 \in 0..(MaxSlots - 1) /\ -1 \in Nat \cup {-1}
  <2>1. MaxSlots \in Nat \ {0}
    BY ToplevelAssumption
  <2> QED BY <2>1
<1> QED BY <1>1, <1>2 DEF Cut, Lines

\* A read of the FIFO takes one line at least.
LEMMA ReadTyped ==
    ASSUME TypesInvariant, ReadFifo
    PROVE  fifo' \in Seq(Lines) /\ lines' \in Seq(Lines) /\ lines' # <<>>
<1> DEFINE n == IF Len(fifo) < LinesPerRead THEN Len(fifo) ELSE LinesPerRead
           whole == SubSeq(fifo, 1, n)
           rest == SubSeq(fifo, n + 1, Len(fifo))
           cut == Cut(Head(rest))
<1>1. fifo \in Seq(Lines) /\ fifo # <<>>
  BY DEF TypesInvariant, QueueTypes, ReadFifo
<1>2. n \in 1..Len(fifo) /\ Len(fifo) \in Nat
  <2>1. Len(fifo) \in Nat /\ Len(fifo) >= 1
    BY <1>1
  <2>2. LinesPerRead \in Nat \ {0}
    BY ToplevelAssumption
  <2> QED BY <2>1, <2>2
<1>3. \/ lines' = whole /\ fifo' = rest
      \/ rest # <<>> /\ fifo' = Tail(rest) /\ lines' = Append(whole, cut)
  BY DEF ReadFifo
<1> HIDE DEF n
<1>4. whole \in Seq(Lines) /\ whole # <<>>
  <2>1. whole \in Seq(Lines) /\ Len(whole) = n
    BY <1>1, <1>2
  <2> HIDE DEF whole
  <2> QED BY <1>2, <2>1
<1>5. rest \in Seq(Lines)
  BY <1>1, <1>2
<1> HIDE DEF whole, rest
<1>6. rest # <<>> => cut \in Lines /\ Tail(rest) \in Seq(Lines)
  BY <1>5, CutTyped
<1> HIDE DEF cut
<1>7. cut \in Lines => Append(whole, cut) \in Seq(Lines) /\ Append(whole, cut) # <<>>
  BY <1>4
<1> QED BY <1>3, <1>4, <1>5, <1>6, <1>7

LEMMA CommandTyped ==
    ASSUME TypesInvariant, Command
    PROVE  pending' \in Lines
<1>1. PICK i \in DOMAIN shown.windows, verb \in UsedVerbs :
         pending' = [verb |-> verb, id |-> i - 1, meant |-> shown.windows[i].handle,
                     epoch |-> shown.epoch]
  BY DEF Command
<1>2. PICK n \in 0..MaxSlots : shown.windows \in [1..n -> WindowTypes]
  BY DEF TypesInvariant, QueueTypes, StateFrames
<1>3. shown.epoch \in Nat /\ MaxSlots \in Nat /\ verb \in Verbs
  BY ToplevelAssumption, WindowSyncAssumption DEF TypesInvariant, QueueTypes, StateFrames
<1>4. i \in 1..n /\ shown.windows[i] \in WindowTypes
  BY <1>2
<1>5. shown.windows[i].handle \in Handles
  BY <1>4 DEF WindowTypes
<1>6. i - 1 \in 0..(MaxSlots - 1)
  BY <1>2, <1>3, <1>4
<1> QED BY <1>1, <1>3, <1>5, <1>6 DEF Lines

LEMMA LinesTyped ==
    ASSUME TypesInvariant, [Next]_syncVars
    PROVE  fifo' \in Seq(Lines) /\ lines' \in Seq(Lines) /\ pending' \in Lines \cup {NoCommand}
<1>1. fifo \in Seq(Lines) /\ lines \in Seq(Lines) /\ pending \in Lines \cup {NoCommand}
  BY DEF TypesInvariant, QueueTypes
<1>2. fifo' \in Seq(Lines)
  <2>1. CASE WriteCommand
    <3>1. pending # NoCommand /\ (UNCHANGED fifo \/ fifo' = Append(fifo, pending))
      BY <2>1 DEF WriteCommand
    <3> QED BY <1>1, <3>1
  <2> QED BY <1>1, <2>1, ReadTyped, Touched
<1>3. lines' \in Seq(Lines)
  <2>1. CASE CarryOut
    <3>1. lines # <<>> /\ lines' = Tail(lines)
      BY <2>1 DEF CarryOut, TypesInvariant, LoopTypes
    <3> QED BY <1>1, <3>1
  <2> QED BY <1>1, <2>1, ReadTyped, Touched
<1>4. pending' \in Lines \cup {NoCommand}
  <2>1. CASE WriteCommand \/ DaemonStops
    <3>1. UNCHANGED pending \/ pending' = NoCommand
      BY <2>1 DEF WriteCommand, DaemonStops
    <3> QED BY <1>1, <3>1
  <2> QED BY <1>1, <2>1, CommandTyped, Touched
<1> QED BY <1>2, <1>3, <1>4

-----------------------------------------------------------------------------
\* The table in use holds windows.
LEMMA FrameTyped ==
    ASSUME TypesInvariant
    PROVE  Frame \in StateFrames
<1>1. /\ slots \in [1..MaxSlots -> SlotTypes] /\ count \in 0..MaxSlots /\ epoch \in Nat
      /\ focused \in 0..(MaxSlots - 1) /\ focusedTitle \in Strings
  BY DEF TypesInvariant, World, TableTypeOK
<1>2. MaxSlots \in Nat
  BY ToplevelAssumption
<1>3. ASSUME NEW i \in 1..count PROVE slots[i] \in WindowTypes
  <2>1. slots[i] \in SlotTypes
    BY <1>1, <1>2
  <2>2. slots[i].handle \in Handles
    BY DEF TypesInvariant, World, InUse
  <2> QED BY <2>1, <2>2 DEF SlotTypes, WindowTypes
<1> DEFINE w == SubSeq(slots, 1, count)
<1>4. w \in [1..count -> WindowTypes]
  <2>1. w = [i \in 1..count |-> slots[i]]
    <3>1. slots \in Seq(SlotTypes) /\ count \in 0..Len(slots)
      BY <1>1, <1>2
    <3>2. w \in Seq(SlotTypes) /\ Len(w) = count /\ \A i \in 1..count : w[i] = slots[i]
      BY <3>1
    <3> HIDE DEF w
    <3>3. DOMAIN w = 1..count /\ w = [i \in DOMAIN w |-> w[i]]
      BY <3>2
    <3> QED BY <3>2, <3>3
  <2> HIDE DEF w
  <2> QED BY <1>3, <2>1
<1> HIDE DEF w
<1>5. w \in UNION {[1..n -> WindowTypes] : n \in 0..MaxSlots}
  BY <1>1, <1>4
<1>6. Frame = [windows |-> w, focused |-> focused, title |-> focusedTitle, epoch |-> epoch]
  BY DEF Frame, w
<1> QED BY <1>1, <1>5, <1>6 DEF StateFrames

LEMMA NoWindowsTyped == NoWindows \in StateFrames
<1>1. MaxSlots \in Nat \ {0}
  BY ToplevelAssumption
<1>2. <<>> \in [1..0 -> WindowTypes] /\ 0 \in 0..MaxSlots /\ 0 \in 0..(MaxSlots - 1) /\ 0 \in Nat
  BY <1>1
<1>3. <<>> \in UNION {[1..n -> WindowTypes] : n \in 0..MaxSlots}
  BY <1>2
<1>4. "" \in Strings
  BY DEF Strings
<1>5. PICK text \in Strings : text = ""
  BY <1>4
<1>6. NoWindows = [windows |-> <<>>, focused |-> 0, title |-> text, epoch |-> 0]
  BY <1>5 DEF NoWindows
<1>7. [windows |-> <<>>, focused |-> 0, title |-> text, epoch |-> 0] \in StateFrames
  BY <1>2, <1>3 DEF StateFrames
<1> QED BY <1>6, <1>7

LEMMA FramesTyped ==
    ASSUME TypesInvariant, [Next]_syncVars
    PROVE  frames' \in Seq(StateFrames) /\ shown' \in StateFrames
<1>1. frames \in Seq(StateFrames) /\ shown \in StateFrames
  BY DEF TypesInvariant, QueueTypes
<1>2. CASE PublishWindows
  <2>1. frames # <<>> /\ shown' = Head(frames) /\ frames' = Tail(frames)
    BY <1>2 DEF PublishWindows
  <2> QED BY <1>1, <2>1
<1>3. ASSUME UpdateState \/ DaemonStops PROVE frames' \in Seq(StateFrames)
  <2>1. UNCHANGED frames \/ frames' = Append(frames, Frame) \/ frames' = <<>>
    BY <1>3 DEF UpdateState, DaemonStops
  <2>2. PICK f \in StateFrames : f = Frame
    BY FrameTyped
  <2>3. Append(frames, f) \in Seq(StateFrames) /\ <<>> \in Seq(StateFrames)
    BY <1>1
  <2> QED BY <1>1, <2>1, <2>2, <2>3
<1>4. ASSUME DaemonStarts PROVE shown' \in StateFrames
  BY <1>4, NoWindowsTyped DEF DaemonStarts
<1>5. CASE ~PublishWindows
  <2>1. frames' \in Seq(StateFrames)
    BY <1>1, <1>3, <1>5, Touched
  <2>2. shown' \in StateFrames
    BY <1>1, <1>4, <1>5, Touched
  <2> QED BY <2>1, <2>2
<1> QED BY <1>2, <1>5

-----------------------------------------------------------------------------
LEMMA LinkTyped ==
    ASSUME TypesInvariant, [Next]_syncVars
    PROVE  LinkTypes'
<1>1. LinkTypes
  BY DEF TypesInvariant
<1>2. live' \in BOOLEAN /\ publisher' \in BOOLEAN /\ up' \in BOOLEAN /\ (live' => publisher' /\ up')
  <2>1. CASE UNCHANGED <<publisher, live, up>>
    BY <1>1, <2>1 DEF LinkTypes
  <2>2. CASE OpenPublisher
    <3>1. UNCHANGED up /\ \/ UNCHANGED <<publisher, live>>
                          \/ up /\ publisher' = TRUE /\ live' = TRUE
      BY <2>2 DEF OpenPublisher
    <3>2. CASE UNCHANGED <<publisher, live>>
      BY <1>1, <3>1, <3>2 DEF LinkTypes
    <3>3. CASE up /\ publisher' = TRUE /\ live' = TRUE
      BY <1>1, <3>1, <3>3 DEF LinkTypes
    <3> QED BY <3>1, <3>2, <3>3
  <2>3. CASE DaemonStops
    <3>1. live' = FALSE /\ up' = FALSE /\ UNCHANGED publisher
      BY <2>3 DEF DaemonStops
    <3> QED BY <1>1, <3>1 DEF LinkTypes
  <2>4. CASE DaemonStarts
    <3>1. ~up /\ up' = TRUE /\ UNCHANGED <<publisher, live>>
      BY <2>4 DEF DaemonStarts
    <3> QED BY <1>1, <3>1 DEF LinkTypes
  <2> QED BY <2>1, <2>2, <2>3, <2>4, Touched
<1>3. hup' \in BOOLEAN /\ writer' \in {"none", "open", "written"} /\ (hup' => writer' = "none")
  <2>1. CASE UNCHANGED <<writer, hup>>
    BY <1>1, <2>1 DEF LinkTypes
  <2>2. CASE WriteCommand
    <3>1. \/ writer' = "open" /\ hup' = FALSE
          \/ writer = "open" /\ writer' = "written" /\ UNCHANGED hup
          \/ writer' = "none" /\ hup' = reading
      BY <2>2 DEF WriteCommand
    <3>2. CASE writer' = "open" /\ hup' = FALSE
      BY <3>2
    <3>3. CASE writer = "open" /\ writer' = "written" /\ UNCHANGED hup
      BY <1>1, <3>3 DEF LinkTypes
    <3>4. CASE writer' = "none" /\ hup' = reading
      BY <1>1, <3>4 DEF LinkTypes
    <3> QED BY <3>1, <3>2, <3>3, <3>4
  <2>3. CASE DaemonStops
    <3>1. writer' = "none" /\ hup' = (hup \/ (writer # "none" /\ reading))
      BY <2>3 DEF DaemonStops
    <3> QED BY <3>1
  <2> QED BY <2>1, <2>2, <2>3, Touched
<1>4. reading' \in BOOLEAN
  <2>1. reading \in BOOLEAN
    BY <1>1 DEF LinkTypes
  <2>2. reading' = reading \/ reading' = TRUE \/ reading' = FALSE
    <3>1. ASSUME ToplevelStep PROVE reading' = reading \/ reading' = TRUE \/ reading' = FALSE
      <4>1. CASE \/ HandleToplevel \/ HandleTitle \/ HandleState \/ HandleDone \/ HandleClosed
                 \/ HandleSync \/ HandleFinished \/ ReadFifo \/ CarryOut \/ FifoHangup
        BY <4>1 DEF HandleToplevel, HandleTitle, HandleState, HandleDone, HandleClosed, HandleSync,
                    HandleFinished, ReadFifo, CarryOut, FifoHangup, outsideVars, fifoVars
      <4>2. CASE EndDispatch \/ OpenFifo \/ OpenPublisher \/ UpdateState
        BY <4>2 DEF EndDispatch, OpenFifo, OpenPublisher, UpdateState, Loop
      <4>3. CASE Killed \/ Signal \/ WaylandFails
        BY <4>3 DEF Killed, Signal, WaylandFails
      <4> QED BY <3>1, <4>1, <4>2, <4>3 DEF ToplevelStep, Toplevel, ToplevelFaults
    <3>2. ASSUME UserActivates \/ Opens \/ Retitles \/ UserCloses \/ Finishes PROVE reading' = reading
      BY <3>2 DEF UserActivates, Opens, Retitles, UserCloses, Finishes, CompositorChange, fifoVars
    <3>3. ASSUME \/ HandleRequest \/ PublishWindows \/ Command \/ WriteCommand \/ DaemonStops
                 \/ DaemonStarts \/ UNCHANGED syncVars
          PROVE  reading' = reading
      BY <3>3 DEF HandleRequest, PublishWindows, Command, WriteCommand, DaemonStops, DaemonStarts,
                  syncVars, vars, outsideVars, fifoVars
    <3> QED BY <3>1, <3>2, <3>3 DEF Next
  <2> QED BY <2>1, <2>2
<1> QED BY <1>2, <1>3, <1>4 DEF LinkTypes

LEMMA LoopTyped ==
    ASSUME TypesInvariant, [Next]_syncVars
    PROVE  LoopTypes'
<1>1. LoopTypes
  BY DEF TypesInvariant
<1>2. ASSUME \/ HandleToplevel \/ HandleTitle \/ HandleState \/ HandleDone \/ HandleClosed
             \/ HandleSync \/ HandleFinished
      PROVE  LoopTypes'
  <2>1. /\ pc \in {"roundtrip", "synced", "poll", "dispatch"} /\ UNCHANGED lines
        /\ UNCHANGED sigpipe /\ running' \in {running, FALSE}
    BY <1>2 DEF HandleToplevel, HandleTitle, HandleState, HandleDone, HandleClosed, HandleSync,
                HandleFinished, Take, outsideVars, requestVars
  <2>2. /\ pc' \in {"roundtrip", "synced", "dispatch", "update"}
        /\ resume' \in {resume, "roundtrip", "synced", "dispatch"}
        /\ pc' = "update" => resume' # "none"
    BY <1>2, <2>1 DEF HandleToplevel, HandleTitle, HandleState, HandleDone, HandleClosed, HandleSync,
                HandleFinished, Dispatching
  <2>3. dirty' \in {dirty, TRUE}
    BY <1>2 DEF HandleToplevel, HandleTitle, HandleState, HandleDone, HandleClosed, HandleSync,
                HandleFinished, RemoveToplevel, outsideVars
  <2> QED BY <1>1, <2>1, <2>2, <2>3 DEF LoopTypes
<1>3. ASSUME EndDispatch \/ FifoHangup \/ OpenFifo \/ OpenPublisher \/ UpdateState
      PROVE  LoopTypes'
  <2>1. pc \in {"dispatch", "poll", "synced", "open", "update"} /\ UNCHANGED <<lines>>
    BY <1>3 DEF EndDispatch, FifoHangup, OpenFifo, OpenPublisher, UpdateState, requestVars
  <2>2. CASE UpdateState
    <3>1. pc = "update" /\ resume' = "none" /\ (pc' \in {"poll", "over"} \/ (resume # "loop" /\ pc' = resume))
      BY <2>2 DEF UpdateState, Loop
    <3>2. resume \in {"loop", "roundtrip", "synced", "dispatch"}
      BY <1>1, <3>1 DEF LoopTypes
    <3>3. dirty' = FALSE /\ running' = running /\ sigpipe' \in BOOLEAN
      BY <1>1, <2>2 DEF UpdateState, LoopTypes
    <3>4. pc' \in {"poll", "over", "roundtrip", "synced", "dispatch"}
      BY <3>1, <3>2
    <3> QED BY <1>1, <2>1, <3>1, <3>3, <3>4 DEF LoopTypes
  <2>3. CASE EndDispatch \/ FifoHangup \/ OpenFifo \/ OpenPublisher
    <3>1. /\ pc' \in {"update", "poll", "over", "dispatch", "open"} /\ resume' \in {resume, "loop"}
          /\ pc' = "update" => resume' # "none"
      BY <2>3 DEF EndDispatch, FifoHangup, OpenFifo, OpenPublisher, Loop
    <3>2. UNCHANGED <<dirty, sigpipe>> /\ running' \in {running, FALSE}
      BY <2>3 DEF EndDispatch, FifoHangup, OpenFifo, OpenPublisher
    <3> QED BY <1>1, <2>1, <3>1, <3>2 DEF LoopTypes
  <2> QED BY <1>3, <2>2, <2>3
<1>4. ASSUME Killed \/ Signal \/ WaylandFails
      PROVE  LoopTypes'
  <2>1. pc \in {"update", "poll", "dispatch", "roundtrip", "synced"} /\ UNCHANGED lines
    BY <1>4 DEF Killed, Signal, WaylandFails, requestVars
  <2>2. /\ pc' \in {pc, "over"} /\ UNCHANGED <<resume, dirty, sigpipe>>
        /\ running' \in {running, FALSE}
    BY <1>4 DEF Killed, Signal, WaylandFails
  <2> QED BY <1>1, <2>1, <2>2 DEF LoopTypes
<1>5. ASSUME ReadFifo PROVE LoopTypes'
  <2>1. pc' = "carry" /\ UNCHANGED <<dirty, running, sigpipe, resume>>
    BY <1>5 DEF ReadFifo
  <2>2. lines' # <<>>
    BY <1>5, ReadTyped
  <2> QED BY <1>1, <2>1, <2>2 DEF LoopTypes
<1>6. ASSUME CarryOut PROVE LoopTypes'
  <2>1. /\ pc' = IF lines' = <<>> THEN "poll" ELSE "carry"
        /\ UNCHANGED <<dirty, running, sigpipe, resume>>
    BY <1>6 DEF CarryOut
  <2> QED BY <1>1, <2>1 DEF LoopTypes
<1>7. ASSUME UNCHANGED <<dirty, running, sigpipe, pc, resume, lines>> PROVE LoopTypes'
  BY <1>1, <1>7 DEF LoopTypes
<1>8. ASSUME UserActivates \/ Opens \/ Retitles \/ UserCloses \/ Finishes PROVE LoopTypes'
  <2>1. UNCHANGED <<dirty, running, sigpipe, pc, resume, lines>>
    BY <1>8 DEF UserActivates, Opens, Retitles, UserCloses, Finishes, CompositorChange, requestVars
  <2> QED BY <1>7, <2>1
<1>9. ASSUME \/ HandleRequest \/ PublishWindows \/ Command \/ WriteCommand \/ DaemonStops
             \/ DaemonStarts \/ UNCHANGED syncVars
      PROVE  LoopTypes'
  <2>1. UNCHANGED <<dirty, running, sigpipe, pc, resume, lines>>
    BY <1>9 DEF HandleRequest, PublishWindows, Command, WriteCommand, DaemonStops, DaemonStarts,
                requestVars, syncVars, vars, outsideVars
  <2> QED BY <1>7, <2>1
<1> QED
  BY <1>2, <1>3, <1>4, <1>5, <1>6, <1>8, <1>9 DEF Next, ToplevelStep, Toplevel, ToplevelFaults

-----------------------------------------------------------------------------
LEMMA InitTypes == Init => TypesInvariant
<1> SUFFICES ASSUME Init PROVE TypesInvariant
  OBVIOUS
<1>1. QueueTypes
  <2>1. /\ requests = <<>> /\ frames = <<>> /\ fifo = <<>> /\ lines = <<>>
        /\ shown = NoWindows /\ pending = NoCommand
    BY DEF Init, ToplevelInit
  <2>2. \A S : <<>> \in Seq(S)
    OBVIOUS
  <2> QED BY <2>1, <2>2, NoWindowsTyped DEF QueueTypes
<1>2. LinkTypes
  BY DEF Init, ToplevelInit, LinkTypes
<1>3. LoopTypes
  BY DEF Init, ToplevelInit, LoopTypes
<1> QED BY <1>1, <1>2, <1>3, InitWorld DEF TypesInvariant

LEMMA StepTypes == TypesInvariant /\ [Next]_syncVars => TypesInvariant'
<1> SUFFICES ASSUME TypesInvariant, [Next]_syncVars PROVE TypesInvariant'
  OBVIOUS
<1>1. World'
  BY StepWorld DEF TypesInvariant
<1>2. QueueTypes'
  BY RequestsTyped, LinesTyped, FramesTyped DEF QueueTypes
<1> QED BY <1>1, <1>2, LinkTyped, LoopTyped DEF TypesInvariant

LEMMA TypesFollow == TypesInvariant => TypeOK
<1> SUFFICES ASSUME TypesInvariant PROVE TypeOK
  OBVIOUS
<1>1. events \in Seq(EventTypes)
  <2>1. events \in Seq(Sent) /\ Sent \subseteq EventTypes
    BY DEF TypesInvariant, World, Sent
  <2> QED BY <2>1
<1>2. InterfaceTypeOK
  BY <1>1 DEF TypesInvariant, QueueTypes, InterfaceTypeOK
<1>3. ControlTypeOK
  BY DEF TypesInvariant, LinkTypes, LoopTypes, ControlTypeOK
<1>4. TableTypeOK /\ \A i, j \in 1..count : slots[i].handle = slots[j].handle => i = j
  BY DEF TypesInvariant, World, InUse
<1>5. (live => publisher /\ up) /\ (pc = "carry" <=> lines # <<>>) /\ (hup => writer = "none")
  BY DEF TypesInvariant, LinkTypes, LoopTypes
<1> QED BY <1>2, <1>3, <1>4, <1>5 DEF TypeOK

\* TypeOK holds in every state, of any number of windows, slots and lines.
THEOREM WindowTypesHold == Spec => []TypeOK
<1>1. TypesInvariant => TypeOK
  BY TypesFollow
<1> QED BY <1>1, InitTypes, StepTypes, PTL DEF Spec

-----------------------------------------------------------------------------
(* While nothing has gone wrong, the table and the events on their way lead to the desktop *)

Sound == running /\ pc # "over" /\ excuses \cap {"full", "slots"} = {}

\* A window that exists is in the table or announced, and one that does not will be closed.
Membership(h) ==
    /\ h \in Existing => InTable(h) \/ Coming(h)
    /\ (InTable(h) \/ Coming(h)) /\ h \notin Existing => Meets(events, Of("closed", h))
    /\ Meets(events, Of("closed", h)) => h \notin Existing

Precedes(g, h) == \A i, j \in 1..count : slots[i].handle = g /\ slots[j].handle = h => i < j

InOrder(g, h) ==
    Before(g, h) => /\ Precedes(g, h) /\ (InTable(h) => ~Coming(g))
                    /\ AllBefore(events, Of("toplevel", g), Of("toplevel", h))

\* The last title on its way is the window's, and one is on its way if the slot has another.
TitleComes(h) ==
    h \in Existing =>
        /\ EndsIn(events, Of("title", h), Told(h))
        /\ \A i \in 1..count : slots[i].handle = h /\ slots[i].title # titleOf[h]
                               => Meets(events, Of("title", h))

StateComes(h) ==
    h \in Existing =>
        /\ EndsIn(events, Of("state", h), Seen(h))
        /\ \A i \in 1..count : slots[i].handle = h /\ ~(slots[i].activated <=> h = active)
                               => Meets(events, Of("state", h))

Agreement ==
    /\ \A h \in Handles : Membership(h) /\ TitleComes(h) /\ StateComes(h)
    /\ \A g, h \in Handles : InOrder(g, h)

\* What a listener makes of the oldest event in the slot of the window it is about.
Handled ==
    LET e == Head(events)
    IN  /\ events # <<>> /\ events' = Tail(events) /\ UNCHANGED compositorVars
        /\ \A i \in 1..count' :
              \/ e \in Of("toplevel", slots'[i].handle)
              \/ \E k \in 1..count :
                    LET h == slots[k].handle
                    IN  /\ slots'[i].handle = h
                        /\ slots'[i].title = IF e \in Of("title", h) THEN e.title ELSE slots[k].title
                        /\ slots'[i].activated = IF e \in Of("state", h) THEN e.activated
                                                 ELSE slots[k].activated
        /\ \A h \in Handles :
              /\ InTable(h) /\ e \notin Of("closed", h) => InTable(h)'
              /\ e \in Of("toplevel", h) => InTable(h)'
              /\ e \in Of("closed", h) => ~InTable(h)'
        /\ \A g, h \in Handles :
              Precedes(g, h) /\ g # h /\ (e \in Of("toplevel", g) => ~InTable(h)) => Precedes(g, h)'

LEMMA HandledAgrees ==
    ASSUME World, Agreement, Handled
    PROVE  Agreement'
<1>a. PICK e : e = Head(events)
  OBVIOUS
<1>b. PICK t : t = Tail(events)
  OBVIOUS
<1>1. /\ events' = t /\ UNCHANGED <<order, titleOf, active>> /\ Existing' = Existing
      /\ \A g, h : Before(g, h)' <=> Before(g, h)
  BY <1>b DEF Handled, compositorVars, Existing, Before
<1>2. /\ \A T : Meets(events, T) <=> e \in T \/ Meets(t, T)
      /\ \A T, G : EndsIn(events, T, G) => EndsIn(t, T, G) /\ (e \in T \ G => Meets(t, T))
      /\ \A T, U : AllBefore(events, T, U) => AllBefore(t, T, U) /\ (e \in U => ~Meets(t, T))
      /\ \A T, A : FirstIn(events, T, A) => (e \in A => ~Meets(t, T))
  <2>1. events \in Seq(Sent) /\ events # <<>>
    BY DEF World, Handled
  <2> QED BY <1>a, <1>b, <2>1, QueueTaken
<1>3. \A i \in 1..count' :
         \/ e \in Of("toplevel", slots'[i].handle)
         \/ \E k \in 1..count :
               /\ slots'[i].handle = slots[k].handle
               /\ slots'[i].title = IF e \in Of("title", slots[k].handle) THEN e.title ELSE slots[k].title
               /\ slots'[i].activated = IF e \in Of("state", slots[k].handle) THEN e.activated
                                        ELSE slots[k].activated
  BY <1>a DEF Handled
<1>4. ASSUME NEW h \in Handles
      PROVE  /\ InTable(h) /\ e \notin Of("closed", h) => InTable(h)'
             /\ e \in Of("toplevel", h) => InTable(h)'
             /\ e \in Of("closed", h) => ~InTable(h)'
             /\ InTable(h)' => InTable(h) \/ e \in Of("toplevel", h)
  <2>1. InTable(h)' => InTable(h) \/ e \in Of("toplevel", h)
    BY <1>3 DEF InTable
  <2> QED BY <1>a, <2>1 DEF Handled
<1>5. ASSUME NEW h \in Handles
      PROVE  /\ FirstIn(events, Of("toplevel", h), About(h))
             /\ Coming(h) => Meets(events, Of("title", h)) /\ Meets(events, Of("state", h))
  BY DEF World, Announced
<1>6. \A h : Coming(h)' <=> Meets(t, Of("toplevel", h))
  BY <1>1 DEF Coming, Meets, Of
<1>7. ASSUME NEW h \in Handles PROVE Membership(h)'
  <2>1. Membership(h)
    BY DEF Agreement
  <2>2. h \in Existing => InTable(h)' \/ Meets(t, Of("toplevel", h))
    BY <1>2, <1>4, <2>1 DEF Membership, Coming
  <2>3. ASSUME InTable(h)' \/ Meets(t, Of("toplevel", h)), h \notin Existing
        PROVE  Meets(t, Of("closed", h))
    <3>1. InTable(h) \/ Coming(h)
      BY <1>2, <1>4, <2>3 DEF Coming
    <3>2. Meets(events, Of("closed", h))
      BY <2>1, <2>3, <3>1 DEF Membership
    <3>3. e \notin Of("closed", h)
      BY <1>2, <1>4, <1>5, <2>3, KindFacts
    <3> QED BY <1>2, <3>2, <3>3
  <2>4. Meets(t, Of("closed", h)) => h \notin Existing
    BY <1>2, <2>1 DEF Membership
  <2> QED BY <1>1, <1>6, <2>2, <2>3, <2>4 DEF Membership, Meets, Of
<1>8. ASSUME NEW h \in Handles PROVE TitleComes(h)'
  <2> SUFFICES ASSUME h \in Existing
               PROVE  /\ EndsIn(t, Of("title", h), Told(h))
                      /\ \A i \in 1..count' : slots'[i].handle = h /\ slots'[i].title # titleOf[h]
                                              => Meets(t, Of("title", h))
    BY <1>1 DEF TitleComes, Told, Meets, EndsIn, Of
  <2>1. /\ EndsIn(events, Of("title", h), Told(h))
        /\ \A i \in 1..count : slots[i].handle = h /\ slots[i].title # titleOf[h]
                               => Meets(events, Of("title", h))
    BY DEF Agreement, TitleComes
  <2>2. ASSUME NEW i \in 1..count', slots'[i].handle = h, slots'[i].title # titleOf[h]
        PROVE  Meets(t, Of("title", h))
    <3>1. CASE e \in Of("toplevel", h)
      <4>1. Meets(events, Of("title", h))
        BY <1>2, <1>5, <3>1 DEF Coming
      <4>2. e \notin Of("title", h)
        BY <3>1 DEF Of
      <4> QED BY <1>2, <4>1, <4>2
    <3>2. CASE e \notin Of("toplevel", h)
      <4>1. PICK k \in 1..count :
               /\ slots[k].handle = h
               /\ slots'[i].title = IF e \in Of("title", h) THEN e.title ELSE slots[k].title
        BY <1>3, <2>2, <3>2
      <4>2. CASE e \in Of("title", h)
        <5>1. e \notin Told(h)
          BY <2>2, <4>1, <4>2 DEF Told
        <5> QED BY <1>2, <2>1, <4>2, <5>1
      <4>3. CASE e \notin Of("title", h)
        BY <1>2, <2>1, <2>2, <4>1, <4>3
      <4> QED BY <4>2, <4>3
    <3> QED BY <3>1, <3>2
  <2> QED BY <1>2, <2>1, <2>2
<1>9. ASSUME NEW h \in Handles PROVE StateComes(h)'
  <2> SUFFICES ASSUME h \in Existing
               PROVE  /\ EndsIn(t, Of("state", h), Seen(h))
                      /\ \A i \in 1..count' : slots'[i].handle = h /\ ~(slots'[i].activated <=> h = active)
                                              => Meets(t, Of("state", h))
    BY <1>1 DEF StateComes, Seen, Meets, EndsIn, Of
  <2>1. /\ EndsIn(events, Of("state", h), Seen(h))
        /\ \A i \in 1..count : slots[i].handle = h /\ ~(slots[i].activated <=> h = active)
                               => Meets(events, Of("state", h))
    BY DEF Agreement, StateComes
  <2>2. ASSUME NEW i \in 1..count', slots'[i].handle = h, ~(slots'[i].activated <=> h = active)
        PROVE  Meets(t, Of("state", h))
    <3>1. CASE e \in Of("toplevel", h)
      <4>1. Meets(events, Of("state", h))
        BY <1>2, <1>5, <3>1 DEF Coming
      <4>2. e \notin Of("state", h)
        BY <3>1 DEF Of
      <4> QED BY <1>2, <4>1, <4>2
    <3>2. CASE e \notin Of("toplevel", h)
      <4>1. PICK k \in 1..count :
               /\ slots[k].handle = h
               /\ slots'[i].activated = IF e \in Of("state", h) THEN e.activated ELSE slots[k].activated
        BY <1>3, <2>2, <3>2
      <4>2. CASE e \in Of("state", h)
        <5>1. slots'[i].activated = e.activated
          BY <4>1, <4>2
        <5>2. e \notin Seen(h)
          BY <2>2, <5>1 DEF Seen
        <5> QED BY <1>2, <2>1, <4>2, <5>2
      <4>3. CASE e \notin Of("state", h)
        <5>1. slots'[i].activated = slots[k].activated
          BY <4>1, <4>3
        <5> QED BY <1>2, <2>1, <2>2, <4>1, <4>3, <5>1
      <4> QED BY <4>2, <4>3
    <3> QED BY <3>1, <3>2
  <2> QED BY <1>2, <2>1, <2>2
<1>10. ASSUME NEW g \in Handles, NEW h \in Handles PROVE InOrder(g, h)'
  <2> SUFFICES ASSUME Before(g, h)
               PROVE  /\ Precedes(g, h)' /\ (InTable(h)' => ~Meets(t, Of("toplevel", g)))
                      /\ AllBefore(t, Of("toplevel", g), Of("toplevel", h))
    BY <1>1, <1>6 DEF InOrder, AllBefore, Of
  <2>1. /\ Precedes(g, h) /\ (InTable(h) => ~Coming(g))
        /\ AllBefore(events, Of("toplevel", g), Of("toplevel", h))
    BY DEF Agreement, InOrder
  <2>2. g # h
    BY DEF Before, World, DesktopOK, IsInjective
  <2>3. e \in Of("toplevel", g) => ~InTable(h)
    BY <1>2, <2>1 DEF Coming
  <2>4. Precedes(g, h)'
    BY <1>a, <2>1, <2>2, <2>3 DEF Handled
  <2>5. InTable(h)' => ~Meets(t, Of("toplevel", g))
    BY <1>2, <1>4, <2>1 DEF Coming
  <2> QED BY <1>2, <2>1, <2>4, <2>5
<1> QED BY <1>7, <1>8, <1>9, <1>10 DEF Agreement

-----------------------------------------------------------------------------
(* What the compositor changes, it reports *)

Activations == {e \in EventTypes : e.type = "state" /\ e.activated}

FocusShown ==
    /\ focused + 1 \in 1..count /\ slots[focused + 1].handle = active
    /\ focusedTitle = slots[focused + 1].title

\* The last activation on its way is the active window's; with none on its way, and no
\* removal or new title in between, the focus is on its slot already.
FocusComes ==
    active # "none" =>
        /\ EndsIn(events, Activations, About(active))
        /\ "focus" \notin excuses => Meets(events, Activations) \/ FocusShown

LEMMA ChangeAgrees ==
    ASSUME World, Agreement, NEW r, Change(r)
    PROVE  Agreement'
<1>1. /\ events \in Seq(Sent) /\ r \in Seq(Sent) /\ events' = events \o r
      /\ UNCHANGED tableVars /\ DesktopOK'
  BY DEF World, Change
<1>2. /\ \A T : Meets(events', T) <=> Meets(events, T) \/ Meets(r, T)
      /\ \A T, G, H : EndsIn(events, T, G) /\ ~Meets(r, T \ H) /\ (Meets(r, T) \/ G \subseteq H)
                      => EndsIn(events', T, H)
      /\ \A T, U : AllBefore(events, T, U) /\ ~Meets(r, T) => AllBefore(events', T, U)
  BY <1>1, QueueGrown
<1>3. /\ UNCHANGED <<slots, count>> /\ \A h : InTable(h)' <=> InTable(h)
      /\ \A g, h : Precedes(g, h)' <=> Precedes(g, h)
  BY <1>1 DEF InTable, Precedes, tableVars
<1>4. ASSUME NEW h \in Handles PROVE Coming(h)' <=> Meets(events', Of("toplevel", h))
  BY DEF Coming, Meets, Of
<1>5. ASSUME NEW h \in Handles, titleOf[h] = ""
      PROVE  ~InTable(h) /\ ~Meets(events, About(h)) /\ \A t : ~Meets(events, Of(t, h))
  <2>1. ~InTable(h) /\ ~Meets(events, About(h))
    BY <1>5 DEF World, Announced
  <2> QED BY <2>1 DEF Meets, Of, About
<1>6. ASSUME NEW h \in Handles PROVE Reported(r, h)
  BY DEF Change
<1>7. ASSUME NEW h \in Handles PROVE Membership(h)'
  <2>1. Membership(h)
    BY DEF Agreement
  <2>2. h \in Existing' => InTable(h) \/ Meets(events', Of("toplevel", h))
    BY <1>2, <1>6, <2>1 DEF Membership, Coming, Reported
  <2>3. ASSUME InTable(h) \/ Meets(events', Of("toplevel", h)), h \notin Existing'
        PROVE  Meets(events', Of("closed", h))
    BY <1>2, <1>6, <2>1, <2>3 DEF Membership, Coming, Reported
  <2>4. Meets(events', Of("closed", h)) => h \notin Existing'
    BY <1>2, <1>5, <1>6, <2>1 DEF Membership, Reported
  <2> QED BY <1>3, <1>4, <2>2, <2>3, <2>4 DEF Membership, Meets, Of
<1>8. ASSUME NEW h \in Handles PROVE TitleComes(h)'
  <2> DEFINE T == Of("title", h)
             G == Told(h)
             H == Told(h)'
  <2> SUFFICES ASSUME h \in Existing'
               PROVE  /\ EndsIn(events', T, H)
                      /\ \A i \in 1..count : slots[i].handle = h /\ slots[i].title # titleOf'[h]
                                             => Meets(events', T)
    BY <1>3 DEF TitleComes, Told, Meets, EndsIn, Of
  <2>1. h \in Existing => /\ EndsIn(events, T, G)
                          /\ \A i \in 1..count : slots[i].handle = h /\ slots[i].title # titleOf[h]
                                                 => Meets(events, T)
    BY DEF Agreement, TitleComes
  <2>2. /\ ~Meets(r, T \ H) /\ (titleOf'[h] # titleOf[h] => Meets(r, T))
        /\ h \notin Existing => titleOf[h] = "" /\ Meets(r, T)
    BY <1>6 DEF Reported
  <2>3. titleOf'[h] = titleOf[h] => G \subseteq H
    BY DEF Told, Of
  <2>4. ASSUME h \notin Existing PROVE EndsIn(events, T, G)
    BY <1>5, <2>2, <2>4 DEF EndsIn, Meets
  <2> HIDE DEF T, G, H
  <2>5. EndsIn(events', T, H)
    BY <1>2, <2>1, <2>2, <2>3, <2>4
  <2>6. ASSUME NEW i \in 1..count, slots[i].handle = h, slots[i].title # titleOf'[h]
        PROVE  Meets(events', T)
    BY <1>2, <2>1, <2>2, <2>6
  <2> QED BY <2>5, <2>6
<1>9. ASSUME NEW h \in Handles PROVE StateComes(h)'
  <2> DEFINE T == Of("state", h)
             G == Seen(h)
             H == Seen(h)'
  <2> SUFFICES ASSUME h \in Existing'
               PROVE  /\ EndsIn(events', T, H)
                      /\ \A i \in 1..count : slots[i].handle = h /\ ~(slots[i].activated <=> h = active')
                                             => Meets(events', T)
    BY <1>3 DEF StateComes, Seen, Meets, EndsIn, Of
  <2>1. h \in Existing => /\ EndsIn(events, T, G)
                          /\ \A i \in 1..count : slots[i].handle = h /\ ~(slots[i].activated <=> h = active)
                                                 => Meets(events, T)
    BY DEF Agreement, StateComes
  <2>2. /\ ~Meets(r, T \ H) /\ (~((h = active') <=> (h = active)) => Meets(r, T))
        /\ h \notin Existing => titleOf[h] = "" /\ Meets(r, T)
    BY <1>6 DEF Reported
  <2>3. ((h = active') <=> (h = active)) => G \subseteq H
    BY DEF Seen, Of
  <2>4. ASSUME h \notin Existing PROVE EndsIn(events, T, G)
    BY <1>5, <2>2, <2>4 DEF EndsIn, Meets
  <2> HIDE DEF T, G, H
  <2>5. EndsIn(events', T, H)
    BY <1>2, <2>1, <2>2, <2>3, <2>4
  <2>6. ASSUME NEW i \in 1..count, slots[i].handle = h, ~(slots[i].activated <=> h = active')
        PROVE  Meets(events', T)
    BY <1>2, <2>1, <2>2, <2>6
  <2> QED BY <2>5, <2>6
<1>10. ASSUME NEW g \in Handles, NEW h \in Handles, Before(g, h)' PROVE InOrder(g, h)'
  <2>1. Before(g, h) \/ (g \in Existing /\ h \notin Existing)
    BY <1>10 DEF Change
  <2>2. Before(g, h)' => h \in Existing'
    BY DEF Before, Existing, Range
  <2>3. Before(g, h) => g \in Existing
    BY DEF Before, Existing, Range
  <2>4. ~Meets(r, Of("toplevel", g))
    BY <1>6, <2>1, <2>3 DEF Reported
  <2>5. /\ Precedes(g, h) /\ (InTable(h) => ~Coming(g))
        /\ AllBefore(events, Of("toplevel", g), Of("toplevel", h))
    <3>1. CASE Before(g, h)
      BY <3>1 DEF Agreement, InOrder
    <3>2. CASE h \notin Existing
      <4>1. ~InTable(h) /\ ~Meets(events, Of("toplevel", h))
        BY <1>5, <1>6, <1>10, <2>2, <3>2 DEF Reported
      <4>2. Precedes(g, h)
        BY <4>1 DEF Precedes, InTable
      <4>3. AllBefore(events, Of("toplevel", g), Of("toplevel", h))
        BY <4>1 DEF AllBefore, Meets
      <4> QED BY <4>1, <4>2, <4>3
    <3> QED BY <2>1, <3>1, <3>2
  <2>6. AllBefore(events', Of("toplevel", g), Of("toplevel", h))
    BY <1>2, <2>4, <2>5
  <2>7. InTable(h)' => ~Meets(events', Of("toplevel", g))
    BY <1>2, <1>3, <2>4, <2>5 DEF Coming
  <2> QED BY <1>3, <1>4, <2>5, <2>6, <2>7 DEF InOrder, AllBefore, Of
<1>11. \A g, h \in Handles : InOrder(g, h)'
  BY <1>10 DEF InOrder
<1> QED BY <1>7, <1>8, <1>9, <1>11 DEF Agreement

LEMMA ChangeFocus ==
    ASSUME World, FocusComes, NEW r, Change(r), UNCHANGED excuses
    PROVE  FocusComes'
<1>1. /\ events \in Seq(Sent) /\ r \in Seq(Sent) /\ events' = events \o r
      /\ UNCHANGED tableVars /\ DesktopOK'
  BY DEF World, Change
<1>2. /\ \A T : Meets(events', T) <=> Meets(events, T) \/ Meets(r, T)
      /\ \A T, G, H : EndsIn(events, T, G) /\ ~Meets(r, T \ H) /\ (Meets(r, T) \/ G \subseteq H)
                      => EndsIn(events', T, H)
  BY <1>1, QueueGrown
<1>3. /\ active # "none" => active \in Handles
      /\ active' # "none" => active' \in Handles /\ active' \in Existing'
  BY <1>1 DEF World, DesktopOK, Existing, Range
<1>4. ~Meets(r, Activations \ About(active'))
  <2> SUFFICES ASSUME NEW j \in DOMAIN r, r[j] \in Activations PROVE r[j].handle = active'
    BY DEF Meets, Activations, About
  <2>1. r[j] \in Sent
    BY <1>1
  <2>2. r[j].handle \in Handles /\ r[j] \in Of("state", r[j].handle)
    BY <2>1 DEF Sent, Activations, Of
  <2>3. r[j] \in Seen(r[j].handle)'
    BY <2>2 DEF Change, Reported, Meets
  <2> QED BY <2>3 DEF Seen, Activations
<1>5. ASSUME active' # "none", active' # active
      PROVE  Meets(r, Activations)
  <2>1. PICK h \in Handles : h = active' /\ h # active /\ h \in Existing'
    BY <1>3, <1>5
  <2>2. Reported(r, h)
    BY DEF Change
  <2>3. Meets(r, Of("state", h))
    BY <2>1, <2>2 DEF Reported
  <2>4. PICK j \in DOMAIN r : r[j] \in Of("state", h)
    BY <2>3 DEF Meets
  <2>5. r[j] \in Seen(h)'
    BY <2>2, <2>4 DEF Reported, Meets
  <2> QED BY <2>1, <2>4, <2>5 DEF Seen, Of, Activations, Meets
<1>6. UNCHANGED <<slots, count, focused, focusedTitle>>
  BY <1>1 DEF tableVars
<1> SUFFICES ASSUME active' # "none" PROVE FocusComes'
  BY DEF FocusComes
<1>7. EndsIn(events', Activations, About(active'))
  <2>1. CASE active' = active
    BY <1>2, <1>4, <2>1 DEF FocusComes
  <2>2. CASE active' # active /\ active # "none"
    BY <1>2, <1>4, <1>5, <2>2 DEF FocusComes
  <2>3. CASE active' # active /\ active = "none"
    <3>1. EndsIn(events, Activations, Activations)
      BY DEF EndsIn
    <3> QED BY <1>2, <1>4, <1>5, <2>3, <3>1
  <2> QED BY <2>1, <2>2, <2>3
<1>8. "focus" \notin excuses' => Meets(events', Activations) \/ FocusShown'
  <2>1. CASE active' = active
    BY <1>2, <1>6, <2>1 DEF FocusComes, FocusShown
  <2>2. CASE active' # active
    BY <1>2, <1>5, <2>2
  <2> QED BY <2>1, <2>2
<1> QED BY <1>7, <1>8 DEF FocusComes, Activations, About, EndsIn, Meets

-----------------------------------------------------------------------------
(* The listeners *)

\* An event that concerns no slot leaves the table.
LEMMA HandledStill ==
    ASSUME World, events # <<>>, events' = Tail(events), UNCHANGED <<compositorVars, slots, count>>,
           \A h \in Handles :
               /\ Head(events) \notin Of("toplevel", h)
               /\ \A type \in {"title", "state", "closed"} :
                     Head(events) \in Of(type, h) => ~InTable(h)
    PROVE  Handled
<1>1. PICK e : e = Head(events)
  OBVIOUS
<1>2. \A i \in 1..count : slots[i].handle \in Handles /\ InTable(slots[i].handle)
  BY DEF World, InUse, InTable
<1>3. \A h : InTable(h)' <=> InTable(h)
  BY DEF InTable
<1>4. \A g, h : Precedes(g, h)' <=> Precedes(g, h)
  BY DEF Precedes
<1>5. \A i \in 1..count : e \notin Of("title", slots[i].handle) /\ e \notin Of("state", slots[i].handle)
  BY <1>1, <1>2
<1>6. ASSUME NEW i \in 1..count'
      PROVE  \E k \in 1..count :
                LET h == slots[k].handle
                IN  /\ slots'[i].handle = h
                    /\ slots'[i].title = IF e \in Of("title", h) THEN e.title ELSE slots[k].title
                    /\ slots'[i].activated = IF e \in Of("state", h) THEN e.activated
                                             ELSE slots[k].activated
  BY <1>5, <1>6
<1> QED BY <1>1, <1>3, <1>4, <1>6 DEF Handled

\* The focus follows the activations.
LEMMA TakeFocus ==
    ASSUME World, FocusComes, events # <<>>, events' = Tail(events), UNCHANGED compositorVars,
           active # "none" /\ Head(events) \in Activations \cap About(active) => FocusShown',
           active # "none" /\ Head(events) \notin Activations /\ "focus" \notin excuses' =>
               "focus" \notin excuses /\ (FocusShown => FocusShown' \/ Meets(events, Activations))
    PROVE  FocusComes'
<1> SUFFICES ASSUME active # "none" PROVE FocusComes'
  BY DEF FocusComes, compositorVars
<1>1. PICK e : e = Head(events)
  OBVIOUS
<1>2. /\ \A T : Meets(events, T) <=> e \in T \/ Meets(events', T)
      /\ \A T, G : EndsIn(events, T, G) => EndsIn(events', T, G) /\ (e \in T \ G => Meets(events', T))
  BY <1>1, QueueTaken DEF World
<1>3. active' = active
  BY DEF compositorVars
<1>4. EndsIn(events, Activations, About(active))
  BY DEF FocusComes
<1>5. EndsIn(events', Activations, About(active))
  BY <1>2, <1>4
<1>6. "focus" \notin excuses' => Meets(events', Activations) \/ FocusShown'
  <2>1. CASE e \in Activations
    BY <1>1, <1>2, <1>4, <2>1
  <2>2. CASE e \notin Activations
    BY <1>1, <1>2, <2>2 DEF FocusComes
  <2> QED BY <2>1, <2>2
<1> QED BY <1>3, <1>5, <1>6 DEF FocusComes, Activations, About, EndsIn, Meets

-----------------------------------------------------------------------------
\* Nothing of a window that has not been announced comes before its announcement.
LEMMA NotComing ==
    ASSUME World, events # <<>>, NEW h \in Handles, Head(events) \in About(h),
           Head(events) \notin Of("toplevel", h)
    PROVE  ~Coming(h)
<1>1. FirstIn(events, Of("toplevel", h), About(h))
  BY DEF World, Announced
<1> QED BY <1>1, QueueTaken DEF World, Coming

LEMMA ToplevelHandled ==
    ASSUME World, FocusComes, HandleToplevel, UNCHANGED compositorVars, "full" \notin excuses'
    PROVE  Handled /\ FocusComes'
<1> DEFINE e == Head(events)
           h == e.handle
<1>1. /\ Take("toplevel") /\ AddToplevel(h)
      /\ UNCHANGED <<focused, focusedTitle>> /\ events \in Seq(Sent) /\ TableTypeOK /\ InUse
  BY DEF HandleToplevel, World
<1>2. events # <<>> /\ events' = Tail(events) /\ h \in Handles /\ e \in Of("toplevel", h)
  <2>1. "toplevel" \notin {"sync", "finished"}
    OBVIOUS
  <2> QED BY <1>1, <2>1, TakeFacts
<1>3. ~InTable(h)
  BY <1>1, <1>2, QueueTaken DEF World, Announced, Coming
<1>4. \A g : /\ e \notin Of("title", g) /\ e \notin Of("state", g) /\ e \notin Of("closed", g)
             /\ e \in Of("toplevel", g) => g = h
  BY <1>2 DEF Of
<1>5. e \notin Activations
  BY <1>2 DEF Of, Activations
<1> HIDE DEF h, e
<1>7. MaxSlots \in Nat /\ count \in 0..MaxSlots
  BY <1>1, ToplevelAssumption DEF TableTypeOK
<1>8. count # MaxSlots
  BY <1>1 DEF AddToplevel
<1>9. /\ count' = count + 1 /\ \A i \in 1..count : slots'[i] = slots[i]
      /\ slots'[count + 1] = Slot(h) /\ UNCHANGED excuses
  BY <1>1, <1>2, <1>8, AddShape
<1>10. Slot(h).handle = h
  BY DEF Slot
<1>11. \A i \in 1..count' : i \in 1..count \/ i = count + 1
  BY <1>7, <1>9
<1>12. \A i \in 1..count : i \in 1..count' /\ i < count + 1 /\ slots[i].handle # h
  BY <1>3, <1>7, <1>9 DEF InTable
<1>13. count + 1 \in 1..count'
  BY <1>7, <1>9
<1>14. ASSUME NEW i \in 1..count'
       PROVE  \/ e \in Of("toplevel", slots'[i].handle)
              \/ \E k \in 1..count :
                    LET g == slots[k].handle
                    IN  /\ slots'[i].handle = g
                        /\ slots'[i].title = IF e \in Of("title", g) THEN e.title ELSE slots[k].title
                        /\ slots'[i].activated = IF e \in Of("state", g) THEN e.activated
                                                 ELSE slots[k].activated
  <2>1. CASE i \in 1..count
    BY <1>4, <1>9, <2>1
  <2>2. CASE i = count + 1
    BY <1>2, <1>9, <1>10, <2>2
  <2> QED BY <1>11, <2>1, <2>2
<1>15. ASSUME NEW g \in Handles
       PROVE  /\ InTable(g) /\ e \notin Of("closed", g) => InTable(g)'
              /\ e \in Of("toplevel", g) => InTable(g)'
              /\ e \in Of("closed", g) => ~InTable(g)'
  <2>1. InTable(g) => InTable(g)'
    BY <1>9, <1>12 DEF InTable
  <2>2. g = h => InTable(g)'
    BY <1>9, <1>10, <1>13 DEF InTable
  <2> QED BY <1>4, <2>1, <2>2
<1>16. ASSUME NEW f \in Handles, NEW g \in Handles, f # g, Precedes(f, g), e \in Of("toplevel", f) => ~InTable(g)
       PROVE  Precedes(f, g)'
  <2> SUFFICES ASSUME NEW i \in 1..count', NEW j \in 1..count', slots'[i].handle = f, slots'[j].handle = g
               PROVE  i < j
    BY DEF Precedes
  <2>1. CASE i \in 1..count /\ j \in 1..count
    BY <1>9, <1>16, <2>1 DEF Precedes
  <2>2. CASE i \in 1..count /\ j = count + 1
    BY <1>12, <2>2
  <2>3. CASE i = count + 1
    <3>1. f = h
      BY <1>9, <1>10, <2>3
    <3>2. ~InTable(g) /\ g # h
      BY <1>2, <1>16, <3>1
    <3>3. j \in 1..count
      BY <1>9, <1>10, <1>11, <3>2
    <3> QED BY <1>9, <3>2, <3>3 DEF InTable
  <2> QED BY <1>11, <2>1, <2>2, <2>3
<1>17. Handled
  BY <1>2, <1>14, <1>15, <1>16 DEF Handled, e
<1>18. FocusComes'
  <2>1. FocusShown => FocusShown'
    BY <1>1, <1>9, <1>12 DEF FocusShown, compositorVars
  <2> QED BY <1>2, <1>5, <1>9, <2>1, TakeFocus DEF e
<1> QED BY <1>17, <1>18

-----------------------------------------------------------------------------
\* An event about the window of a slot, stored in it.
LEMMA StoreHandled ==
    ASSUME World, HandleTitle \/ HandleState, UNCHANGED compositorVars, "slots" \notin excuses'
    PROVE  Handled
<1>1. PICK h : h = Head(events).handle
  OBVIOUS
<1>2. PICK i : i = slotOf[h]
  OBVIOUS
<1>3. PICK e : e = Head(events)
  OBVIOUS
<1>4. events \in Seq(Sent) /\ TableTypeOK /\ InUse /\ slots \in Slots /\ MaxSlots \in Nat
  BY ToplevelAssumption DEF World, TableTypeOK, Slots
<1>5. /\ events # <<>> /\ events' = Tail(events) /\ h \in Handles /\ e \in Sent /\ e.handle = h
      /\ HandleTitle => e.type = "title" 
      /\ HandleState => e.type = "state"
  <2>1. "title" \notin {"sync", "finished"} /\ "state" \notin {"sync", "finished"}
    OBVIOUS
  <2> QED BY <1>1, <1>3, <1>4, <2>1, TakeFacts DEF HandleTitle, HandleState
<1>6. e.title \in Strings /\ e.activated \in BOOLEAN /\ e \in EventTypes
  BY <1>5 DEF Sent, EventTypes
<1>7. count' = count
  BY DEF HandleTitle, HandleState
<1>8. \A g : e \notin Of("toplevel", g) /\ e \notin Of("closed", g)
  BY <1>5 DEF Of
<1>9. CASE i = 0
  <2>1. UNCHANGED slots
    BY <1>1, <1>2, <1>9 DEF HandleTitle, HandleState
  <2>2. ~InTable(h)
    BY <1>2, <1>4, <1>9 DEF InTable, InUse
  <2>3. \A g, t : e \in Of(t, g) => g = h
    BY <1>5 DEF Of
  <2>4. \A g \in Handles :
           /\ e \notin Of("toplevel", g)
           /\ \A type \in {"title", "state", "closed"} : e \in Of(type, g) => ~InTable(g)
    BY <1>8, <2>2, <2>3
  <2> QED BY <1>3, <1>5, <1>7, <2>1, <2>4, HandledStill
<1>10. CASE i # 0
  <2>1. i \in 1..count /\ i \in 1..MaxSlots /\ slots[i].handle = h
    <3>1. excuses' = excuses \cup {"slots"} \/ ~Strays(h) \/ "slots" \in excuses'
      BY <1>1, <1>2, <1>10 DEF HandleTitle, HandleState
    <3>2. ~Strays(h)
      BY <3>1
    <3>3. i \in 0..MaxSlots /\ count \in 0..MaxSlots
      BY <1>2, <1>4, <1>5 DEF TableTypeOK
    <3> QED BY <1>2, <1>4, <1>10, <3>2, <3>3 DEF Strays
  <2>2. \A j \in 1..count : j \in 1..MaxSlots /\ (j # i => slots[j].handle # h)
    BY <1>4, <2>1 DEF InUse, TableTypeOK
  <2>3. /\ HandleTitle => slots' = [slots EXCEPT ![i].title = e.title]
        /\ HandleState => slots' = [slots EXCEPT ![i].activated = e.activated]
    BY <1>1, <1>2, <1>3, <1>10 DEF HandleTitle, HandleState
  <2>4. /\ \A j \in 1..MaxSlots : slots'[j].handle = slots[j].handle /\ (j # i => slots'[j] = slots[j])
        /\ HandleTitle => slots'[i].title = e.title /\ slots'[i].activated = slots[i].activated
        /\ HandleState => slots'[i].activated = e.activated /\ slots'[i].title = slots[i].title
    BY <1>4, <1>6, <2>1, <2>3, StoreShape
  <2>5. \A t, g : e \in Of(t, g) <=> e.type = t /\ g = h
    BY <1>5, <1>6 DEF Of
  <2>6. ASSUME NEW j \in 1..count
        PROVE  /\ slots'[j].title = IF e \in Of("title", slots[j].handle) THEN e.title ELSE slots[j].title
               /\ slots'[j].activated = IF e \in Of("state", slots[j].handle) THEN e.activated
                                        ELSE slots[j].activated
    <3>1. CASE j = i /\ HandleTitle
      <4>1. e \in Of("title", h) /\ e \notin Of("state", h)
        BY <1>5, <2>5, <3>1
      <4> QED BY <2>1, <2>4, <3>1, <4>1
    <3>2. CASE j = i /\ HandleState
      <4>1. e \in Of("state", h) /\ e \notin Of("title", h)
        BY <1>5, <2>5, <3>2
      <4> QED BY <2>1, <2>4, <3>2, <4>1
    <3>3. CASE j # i
      BY <2>2, <2>4, <2>5, <3>3
    <3> QED BY <3>1, <3>2, <3>3
  <2>7. \A g : (InTable(g)' <=> InTable(g))
    BY <1>7, <2>2, <2>4 DEF InTable
  <2>8. \A f, g : Precedes(f, g)' <=> Precedes(f, g)
    BY <1>7, <2>2, <2>4 DEF Precedes
  <2>9. \A j \in 1..count : slots'[j].handle = slots[j].handle
    BY <2>2, <2>4
  <2>10. ASSUME NEW j \in 1..count'
         PROVE  \E k \in 1..count :
                   LET g == slots[k].handle
                   IN  /\ slots'[j].handle = g
                       /\ slots'[j].title = IF e \in Of("title", g) THEN e.title ELSE slots[k].title
                       /\ slots'[j].activated = IF e \in Of("state", g) THEN e.activated
                                                ELSE slots[k].activated
    BY <1>7, <2>6, <2>9
  <2> QED BY <1>3, <1>5, <1>8, <2>7, <2>8, <2>10 DEF Handled
<1> QED BY <1>9, <1>10

\* A new title of the focused window that is not activated: its state is on its way.
LEMMA TitleFocus ==
    ASSUME World, Agreement, FocusComes, HandleTitle, UNCHANGED compositorVars,
           "slots" \notin excuses'
    PROVE  FocusComes'
<1>1. PICK h : h = Head(events).handle
  OBVIOUS
<1>2. PICK i : i = slotOf[h]
  OBVIOUS
<1>3. PICK e : e = Head(events)
  OBVIOUS
<1>4. events \in Seq(Sent) /\ TableTypeOK /\ InUse /\ slots \in Slots /\ MaxSlots \in Nat
  BY ToplevelAssumption DEF World, TableTypeOK, Slots
<1>5. /\ events # <<>> /\ events' = Tail(events) /\ h \in Handles /\ e \in Sent /\ e.handle = h
      /\ e.type = "title"
  <2>1. "title" \notin {"sync", "finished"}
    OBVIOUS
  <2> QED BY <1>1, <1>3, <1>4, <2>1, TakeFacts DEF HandleTitle
<1>6. e.title \in Strings /\ e \notin Activations /\ UNCHANGED <<count, focused, focusedTitle>>
  BY <1>5 DEF Sent, EventTypes, Activations, HandleTitle
<1>7. CASE i = 0
  <2>1. UNCHANGED <<slots, excuses>>
    BY <1>1, <1>2, <1>7 DEF HandleTitle
  <2>2. FocusShown => FocusShown'
    BY <1>6, <2>1 DEF FocusShown, compositorVars
  <2> QED BY <1>3, <1>5, <1>6, <2>1, <2>2, TakeFocus
<1>8. CASE i # 0
  <2>1. /\ slots' = [slots EXCEPT ![i].title = e.title]
        /\ excuses' = excuses \cup (IF Strays(h) THEN {"slots"} ELSE {})
                              \cup (IF slots[i].activated THEN {"focus"} ELSE {})
    BY <1>1, <1>2, <1>3, <1>8 DEF HandleTitle
  <2>2. ~Strays(h)
    BY <2>1
  <2>3. i \in 1..count /\ i \in 1..MaxSlots /\ slots[i].handle = h
    <3>1. i \in 0..MaxSlots /\ count \in 0..MaxSlots
      BY <1>2, <1>4, <1>5 DEF TableTypeOK
    <3> QED BY <1>2, <1>4, <1>8, <2>2, <3>1 DEF Strays
  <2>4. \A j \in 1..MaxSlots : slots'[j].handle = slots[j].handle /\ (j # i => slots'[j] = slots[j])
    <3>1. FALSE \in BOOLEAN
      OBVIOUS
    <3> QED BY <1>4, <1>6, <2>1, <2>3, <3>1, StoreShape
  <2>5. ASSUME active # "none", "focus" \notin excuses', FocusShown
        PROVE  FocusShown' \/ Meets(events, Activations)
    <3>1. ~slots[i].activated
      BY <2>1, <2>5
    <3>2. focused + 1 \in 1..MaxSlots
      BY <1>4, <2>5 DEF FocusShown, TableTypeOK
    <3>3. CASE focused + 1 # i
      BY <1>6, <2>4, <2>5, <3>2, <3>3 DEF FocusShown, compositorVars
    <3>4. CASE focused + 1 = i
      <4>1. h = active /\ h \in Existing
        BY <2>3, <2>5, <3>4 DEF FocusShown, World, DesktopOK
      <4>2. Meets(events, Of("state", h)) /\ EndsIn(events, Of("state", h), Seen(h))
        BY <1>5, <2>3, <3>1, <4>1 DEF Agreement, StateComes
      <4>3. Meets(events, Of("state", h) \cap Seen(h))
        BY <1>4, <4>2, LastIn
      <4> QED BY <4>1, <4>3 DEF Meets, Seen, Of, Activations
    <3> QED BY <3>3, <3>4
  <2>6. "focus" \notin excuses' => "focus" \notin excuses
    BY <2>1
  <2> QED BY <1>3, <1>5, <1>6, <2>5, <2>6, TakeFocus
<1> QED BY <1>7, <1>8

\* An activation is of a window in the table, where it has been announced by then.
LEMMA StateFocus ==
    ASSUME World, Agreement, FocusComes, HandleState, UNCHANGED compositorVars,
           "slots" \notin excuses'
    PROVE  FocusComes'
<1>1. PICK h : h = Head(events).handle
  OBVIOUS
<1>2. PICK i : i = slotOf[h]
  OBVIOUS
<1>3. PICK e : e = Head(events)
  OBVIOUS
<1>4. events \in Seq(Sent) /\ TableTypeOK /\ InUse /\ slots \in Slots /\ MaxSlots \in Nat
  BY ToplevelAssumption DEF World, TableTypeOK, Slots
<1>5. /\ events # <<>> /\ events' = Tail(events) /\ h \in Handles /\ e \in Sent /\ e.handle = h
      /\ e.type = "state"
  <2>1. "state" \notin {"sync", "finished"}
    OBVIOUS
  <2> QED BY <1>1, <1>3, <1>4, <2>1, TakeFacts DEF HandleState
<1>6. e.activated \in BOOLEAN /\ (e \in Activations <=> e.activated) /\ UNCHANGED count
  BY <1>5 DEF Sent, EventTypes, Activations, HandleState
<1>7. CASE i = 0
  <2>1. UNCHANGED <<slots, focused, focusedTitle, excuses>>
    BY <1>1, <1>2, <1>7 DEF HandleState
  <2>2. FocusShown => FocusShown'
    BY <1>6, <2>1 DEF FocusShown, compositorVars
  <2>3. ~InTable(h)
    BY <1>2, <1>4, <1>7 DEF InTable, InUse
  <2>4. ~Coming(h)
    <3>1. e \in About(h) /\ e \notin Of("toplevel", h)
      BY <1>5 DEF Sent, About, Of
    <3> QED BY <1>3, <1>5, <3>1, NotComing
  <2>5. h \notin Existing
    BY <1>5, <2>3, <2>4 DEF Agreement, Membership
  <2>6. active # "none" => e \notin About(active)
    BY <1>5, <2>5 DEF About, World, DesktopOK
  <2> QED BY <1>3, <1>5, <2>1, <2>2, <2>6, TakeFocus
<1>8. CASE i # 0
  <2>1. /\ slots' = [slots EXCEPT ![i].activated = e.activated]
        /\ focused' = IF e.activated /\ i <= count THEN i - 1 ELSE focused
        /\ focusedTitle' = IF e.activated THEN slots[i].title ELSE focusedTitle
        /\ excuses' = (excuses \ (IF e.activated THEN {"focus"} ELSE {}))
                         \cup (IF Strays(h) THEN {"slots"} ELSE {})
    BY <1>1, <1>2, <1>3, <1>8 DEF HandleState
  <2>2. ~Strays(h)
    BY <2>1
  <2>3. i \in 1..count /\ i \in 1..MaxSlots /\ slots[i].handle = h /\ count \in 0..MaxSlots
    <3>1. i \in 0..MaxSlots /\ count \in 0..MaxSlots
      BY <1>2, <1>4, <1>5 DEF TableTypeOK
    <3> QED BY <1>2, <1>4, <1>8, <2>2, <3>1 DEF Strays
  <2>4. /\ \A j \in 1..MaxSlots : slots'[j].handle = slots[j].handle /\ (j # i => slots'[j] = slots[j])
        /\ slots'[i].title = slots[i].title
    <3>1. PICK title \in Strings : TRUE
      BY DEF Strings
    <3> QED BY <1>4, <1>6, <2>1, <2>3, <3>1, StoreShape
  <2>5. ASSUME active # "none", e \in Activations, e \in About(active) PROVE FocusShown'
    <3>1. h = active
      BY <1>5, <2>5 DEF About
    <3>2. focused' = i - 1 /\ focusedTitle' = slots[i].title
      BY <1>6, <2>1, <2>3, <2>5
    <3>3. focused' + 1 = i
      BY <2>3, <3>2
    <3> QED BY <1>6, <2>3, <2>4, <3>1, <3>2, <3>3 DEF FocusShown, compositorVars
  <2>6. ASSUME e \notin Activations, "focus" \notin excuses'
        PROVE  "focus" \notin excuses /\ (FocusShown => FocusShown')
    <3>1. focused' = focused /\ focusedTitle' = focusedTitle /\ "focus" \notin excuses
      BY <1>6, <2>1, <2>6
    <3>2. FocusShown => focused + 1 \in 1..MaxSlots
      BY <1>4, <2>3 DEF FocusShown
    <3>3. \A j \in 1..MaxSlots : slots'[j].title = slots[j].title
      BY <2>4
    <3> QED BY <1>6, <2>4, <3>1, <3>2, <3>3 DEF FocusShown, compositorVars
  <2> QED BY <1>3, <1>5, <2>5, <2>6, TakeFocus
<1> QED BY <1>7, <1>8

-----------------------------------------------------------------------------
\* A window leaves; the others close up in their order.
LEMMA ClosedHandled ==
    ASSUME World, FocusComes, HandleClosed, UNCHANGED compositorVars
    PROVE  Handled /\ FocusComes'
<1>1. PICK h : h = Head(events).handle
  OBVIOUS
<1>2. PICK e : e = Head(events)
  OBVIOUS
<1>3. events \in Seq(Sent) /\ TableTypeOK /\ InUse /\ MaxSlots \in Nat /\ count \in 0..MaxSlots
  BY ToplevelAssumption DEF World, TableTypeOK
<1>4. events # <<>> /\ events' = Tail(events) /\ h \in Handles /\ e \in Of("closed", h)
  <2>1. "closed" \notin {"sync", "finished"}
    OBVIOUS
  <2> QED BY <1>1, <1>2, <1>3, <2>1, TakeFacts DEF HandleClosed
<1>5. /\ e \notin Activations
      /\ \A g : /\ e \notin Of("toplevel", g) /\ e \notin Of("title", g) /\ e \notin Of("state", g)
                /\ e \in Of("closed", g) => g = h
  BY <1>4 DEF Of, Activations
<1>6. UNCHANGED <<focused, focusedTitle>>
  BY DEF HandleClosed
<1>7. CASE ~InTable(h)
  <2>1. UNCHANGED <<slots, count, excuses>>
    BY <1>1, <1>7 DEF HandleClosed, RemoveToplevel, InTable
  <2>2. FocusShown => FocusShown'
    BY <1>6, <2>1 DEF FocusShown, compositorVars
  <2>3. \A g \in Handles :
           /\ e \notin Of("toplevel", g)
           /\ \A type \in {"title", "state", "closed"} : e \in Of(type, g) => ~InTable(g)
    BY <1>5, <1>7
  <2>4. Handled
    BY <1>2, <1>4, <2>1, <2>3, HandledStill
  <2> QED BY <1>2, <1>4, <1>5, <2>1, <2>2, <2>4, TakeFocus
<1>8. CASE InTable(h)
  <2>1. slotOf[h] # 0
    BY <1>3, <1>8 DEF InTable, InUse
  <2>2. RemoveToplevel(h)
    BY <1>1, <2>1 DEF HandleClosed
  <2>3. PICK gone \in 1..count :
           /\ slots[gone].handle = h /\ count' = count - 1
           /\ \A i \in 1..(count - 1) : slots'[i] = IF i < gone THEN slots[i] ELSE slots[i + 1]
           /\ excuses' = IF gone - 1 <= focused THEN excuses \cup {"focus"} ELSE excuses
    BY <1>3, <1>4, <1>8, <2>2, RemoveShape
  <2> DEFINE old(i) == IF i < gone THEN i ELSE i + 1
             new(j) == IF j < gone THEN j ELSE j - 1
  <2>4. \A i \in 1..count' : old(i) \in 1..count /\ old(i) # gone /\ slots'[i] = slots[old(i)]
    BY <1>3, <2>3
  <2>5. \A i, j \in 1..count' : old(i) < old(j) => i < j
    BY <1>3, <2>3
  <2>6. \A j \in 1..count : j # gone => new(j) \in 1..count' /\ old(new(j)) = j
    BY <1>3, <2>3
  <2> HIDE DEF old, new
  <2>7. \A j \in 1..count : j # gone => slots[j].handle # h
    BY <1>3, <2>3 DEF InUse
  <2>8. ASSUME NEW i \in 1..count'
        PROVE  \E k \in 1..count :
                  LET g == slots[k].handle
                  IN  /\ slots'[i].handle = g
                      /\ slots'[i].title = IF e \in Of("title", g) THEN e.title ELSE slots[k].title
                      /\ slots'[i].activated = IF e \in Of("state", g) THEN e.activated
                                               ELSE slots[k].activated
    BY <1>5, <2>4
  <2>9. ASSUME NEW g \in Handles
        PROVE  /\ InTable(g) /\ e \notin Of("closed", g) => InTable(g)'
               /\ e \in Of("toplevel", g) => InTable(g)'
               /\ e \in Of("closed", g) => ~InTable(g)'
    <3>1. ASSUME InTable(g), g # h PROVE InTable(g)'
      <4>1. PICK j \in 1..count : slots[j].handle = g /\ j # gone
        BY <2>3, <3>1 DEF InTable
      <4> QED BY <2>4, <2>6, <4>1 DEF InTable
    <3>2. g = h => ~InTable(g)'
      BY <2>4, <2>7 DEF InTable
    <3> QED BY <1>4, <1>5, <3>1, <3>2
  <2>10. \A f, g \in Handles : Precedes(f, g) => Precedes(f, g)'
    <3> SUFFICES ASSUME NEW f \in Handles, NEW g \in Handles, Precedes(f, g),
                        NEW i \in 1..count', NEW j \in 1..count',
                        slots'[i].handle = f, slots'[j].handle = g
                 PROVE  i < j
      BY DEF Precedes
    <3>1. old(i) < old(j)
      BY <2>4 DEF Precedes
    <3> QED BY <2>5, <3>1
  <2>11. Handled
    BY <1>2, <1>4, <2>8, <2>9, <2>10 DEF Handled
  <2>12. ASSUME "focus" \notin excuses'
         PROVE  "focus" \notin excuses /\ (FocusShown => FocusShown')
    <3>1. ~(gone - 1 <= focused) /\ "focus" \notin excuses
      BY <2>3, <2>12
    <3>2. focused \in Nat
      BY <1>3 DEF TableTypeOK
    <3>3. focused + 1 < gone /\ focused + 1 \in 1..(count - 1)
      BY <1>3, <2>3, <3>1, <3>2
    <3>4. slots'[focused + 1] = slots[focused + 1]
      BY <2>3, <3>3
    <3> QED BY <1>6, <2>3, <3>1, <3>3, <3>4 DEF FocusShown, compositorVars
  <2> QED BY <1>2, <1>4, <1>5, <2>11, <2>12, TakeFocus
<1> QED BY <1>7, <1>8

\* The ends of reports and of roundtrips concern no slot.
LEMMA EndHandled ==
    ASSUME World, FocusComes, HandleDone \/ HandleSync, UNCHANGED compositorVars
    PROVE  Handled /\ FocusComes'
<1>1. PICK e : e = Head(events)
  OBVIOUS
<1>2. events # <<>> /\ events' = Tail(events) /\ e.type \in {"done", "sync"} /\ UNCHANGED <<tableVars, excuses>>
  BY <1>1 DEF HandleDone, HandleSync, Take
<1>3. e \notin Activations /\ \A t, g : t \notin {"done", "sync"} => e \notin Of(t, g)
  BY <1>2 DEF Of, Activations
<1>4. UNCHANGED <<slots, count, focused, focusedTitle>>
  BY <1>2 DEF tableVars
<1>5. FocusShown => FocusShown'
  BY <1>4 DEF FocusShown, compositorVars
<1>6. \A g \in Handles :
         /\ e \notin Of("toplevel", g)
         /\ \A type \in {"title", "state", "closed"} : e \in Of(type, g) => ~InTable(g)
  BY <1>3
<1>7. Handled
  BY <1>1, <1>2, <1>4, <1>6, HandledStill
<1> QED BY <1>1, <1>2, <1>3, <1>5, <1>7, TakeFocus

-----------------------------------------------------------------------------
\* Steps that move neither the events nor the table nor the desktop.
LEMMA AgreementStays ==
    ASSUME Agreement, FocusComes, UNCHANGED <<events, compositorVars, tableVars, excuses>>
    PROVE  Agreement' /\ FocusComes'
<1>1. UNCHANGED <<order, titleOf, active, slots, count, focused, focusedTitle>> /\ Existing' = Existing
  BY DEF compositorVars, tableVars, Existing
<1>2. \A h : (InTable(h)' <=> InTable(h)) /\ (Coming(h)' <=> Coming(h))
  BY <1>1 DEF InTable, Coming
<1>3. \A g, h : (Before(g, h)' <=> Before(g, h)) /\ (Precedes(g, h)' <=> Precedes(g, h))
  BY <1>1 DEF Before, Precedes
<1>4. ASSUME NEW h \in Handles PROVE Membership(h)' /\ TitleComes(h)' /\ StateComes(h)'
  <2>1. Membership(h) /\ TitleComes(h) /\ StateComes(h)
    BY DEF Agreement
  <2>2. Membership(h)'
    BY <1>1, <1>2, <2>1 DEF Membership
  <2>3. TitleComes(h)'
    BY <1>1, <2>1 DEF TitleComes, Told
  <2>4. StateComes(h)'
    BY <1>1, <2>1 DEF StateComes, Seen
  <2> QED BY <2>2, <2>3, <2>4
<1>5. ASSUME NEW g \in Handles, NEW h \in Handles PROVE InOrder(g, h)'
  BY <1>1, <1>2, <1>3 DEF Agreement, InOrder
<1>6. FocusComes'
  <2>1. FocusShown' <=> FocusShown
    BY <1>1 DEF FocusShown
  <2> QED BY <1>1, <2>1 DEF FocusComes
<1> QED BY <1>4, <1>5, <1>6 DEF Agreement

-----------------------------------------------------------------------------
\* What has gone wrong stays so.
LEMMA SoundBefore ==
    ASSUME [Next]_syncVars, Sound'
    PROVE  Sound
<1>1. CASE ToplevelStep
  <2>1. CASE \/ HandleToplevel \/ HandleTitle \/ HandleState \/ HandleClosed
    <3>1. pc # "over" /\ running' = running
      BY <2>1 DEF HandleToplevel, HandleTitle, HandleState, HandleClosed, Take, outsideVars
    <3>2. excuses \cap {"full", "slots"} \subseteq excuses'
      BY <2>1 DEF HandleToplevel, HandleTitle, HandleState, HandleClosed, AddToplevel, RemoveToplevel
    <3> QED BY <3>1, <3>2 DEF Sound
  <2>2. CASE \/ HandleDone \/ HandleSync \/ HandleFinished
    <3>1. pc # "over" /\ UNCHANGED excuses /\ (running' => running)
      BY <2>2 DEF HandleDone, HandleSync, HandleFinished, Take, outsideVars, Sound
    <3> QED BY <3>1 DEF Sound
  <2>3. CASE \/ EndDispatch \/ ReadFifo \/ CarryOut \/ OpenFifo \/ OpenPublisher
             \/ UpdateState \/ Killed \/ Signal
    <3>1. pc # "over" /\ UNCHANGED <<excuses, running>>
      BY <2>3 DEF EndDispatch, ReadFifo, CarryOut, OpenFifo, OpenPublisher, UpdateState, Killed, Signal
    <3> QED BY <3>1 DEF Sound
  <2>4. CASE FifoHangup \/ WaylandFails
    <3>1. pc' = "over" \/ running' = FALSE
      BY <2>4 DEF FifoHangup, WaylandFails
    <3> QED BY <3>1 DEF Sound
  <2> QED BY <1>1, <2>1, <2>2, <2>3, <2>4 DEF ToplevelStep, Toplevel, ToplevelFaults
<1>2. CASE UserActivates \/ Opens \/ Retitles \/ UserCloses \/ Finishes
  <2>1. UNCHANGED <<running, pc, excuses>>
    BY <1>2 DEF UserActivates, Opens, Retitles, UserCloses, Finishes, CompositorChange
  <2> QED BY <2>1 DEF Sound
<1>3. CASE \/ HandleRequest \/ PublishWindows \/ Command \/ WriteCommand \/ DaemonStops \/ DaemonStarts
           \/ UNCHANGED syncVars
  <2>1. UNCHANGED <<running, pc, excuses>>
    BY <1>3 DEF HandleRequest, PublishWindows, Command, WriteCommand, DaemonStops, DaemonStarts,
                syncVars, vars, outsideVars
  <2> QED BY <2>1 DEF Sound
<1> QED BY <1>1, <1>2, <1>3 DEF Next

\* Who waits in poll goes on.
Waits == pc \in {"poll", "carry"} => running

LEMMA StepWaits ==
    ASSUME LoopTypes, Waits, [Next]_syncVars
    PROVE  Waits'
<1>1. CASE ToplevelStep
  <2>1. CASE \/ HandleToplevel \/ HandleTitle \/ HandleState \/ HandleClosed
             \/ HandleDone \/ HandleSync \/ HandleFinished
    <3>1. pc' \notin {"poll", "carry"}
      BY <2>1 DEF HandleToplevel, HandleTitle, HandleState, HandleClosed, HandleDone, HandleSync,
                  HandleFinished, Take, Dispatching
    <3> QED BY <3>1 DEF Waits
  <2>2. CASE EndDispatch \/ UpdateState
    <3>1. pc' = "poll" => running
      BY <2>2 DEF EndDispatch, UpdateState, Loop, LoopTypes
    <3>2. pc' # "carry" /\ running' = running
      BY <2>2 DEF EndDispatch, UpdateState, Loop, LoopTypes
    <3> QED BY <3>1, <3>2 DEF Waits
  <2>3. CASE ReadFifo \/ CarryOut
    <3>1. pc \in {"poll", "carry"} /\ running' = running
      BY <2>3 DEF ReadFifo, CarryOut, LoopTypes
    <3> QED BY <3>1 DEF Waits
  <2>4. CASE FifoHangup \/ OpenFifo \/ OpenPublisher \/ Killed \/ Signal \/ WaylandFails
    <3>1. pc' \notin {"poll", "carry"}
      BY <2>4 DEF FifoHangup, OpenFifo, OpenPublisher, Killed, Signal, WaylandFails
    <3> QED BY <3>1 DEF Waits
  <2> QED BY <1>1, <2>1, <2>2, <2>3, <2>4 DEF ToplevelStep, Toplevel, ToplevelFaults
<1>2. CASE UserActivates \/ Opens \/ Retitles \/ UserCloses \/ Finishes
  <2>1. UNCHANGED <<running, pc>>
    BY <1>2 DEF UserActivates, Opens, Retitles, UserCloses, Finishes, CompositorChange
  <2> QED BY <2>1 DEF Waits
<1>3. CASE \/ HandleRequest \/ PublishWindows \/ Command \/ WriteCommand \/ DaemonStops \/ DaemonStarts
           \/ UNCHANGED syncVars
  <2>1. UNCHANGED <<running, pc>>
    BY <1>3 DEF HandleRequest, PublishWindows, Command, WriteCommand, DaemonStops, DaemonStarts,
                syncVars, vars, outsideVars
  <2> QED BY <2>1 DEF Waits
<1> QED BY <1>1, <1>2, <1>3 DEF Next

-----------------------------------------------------------------------------
LEMMA ChangeCase ==
    ASSUME World, Agreement, FocusComes, UNCHANGED excuses, \E r : Change(r)
    PROVE  Agreement' /\ FocusComes'
<1>1. PICK r : Change(r)
  OBVIOUS
<1> QED BY <1>1, ChangeAgrees, ChangeFocus

\* While nothing goes wrong, the table and the events on their way keep leading there.
LEMMA StepAgrees ==
    ASSUME World, Agreement, FocusComes, [Next]_syncVars, Sound'
    PROVE  Agreement' /\ FocusComes'
<1>1. CASE ToplevelStep
  <2>1. UNCHANGED compositorVars
    BY <1>1 DEF ToplevelStep
  <2>2. "full" \notin excuses' /\ "slots" \notin excuses'
    BY DEF Sound
  <2>3. CASE HandleToplevel
    BY <2>1, <2>2, <2>3, ToplevelHandled, HandledAgrees
  <2>4. CASE HandleTitle
    BY <2>1, <2>2, <2>4, StoreHandled, TitleFocus, HandledAgrees
  <2>5. CASE HandleState
    BY <2>1, <2>2, <2>5, StoreHandled, StateFocus, HandledAgrees
  <2>6. CASE HandleClosed
    BY <2>1, <2>6, ClosedHandled, HandledAgrees
  <2>7. CASE HandleDone \/ HandleSync
    BY <2>1, <2>7, EndHandled, HandledAgrees
  <2>8. CASE HandleFinished \/ FifoHangup \/ WaylandFails
    <3>1. pc' = "over" \/ running' = FALSE
      BY <2>8 DEF HandleFinished, FifoHangup, WaylandFails
    <3> QED BY <3>1 DEF Sound
  <2>9. CASE \/ EndDispatch \/ ReadFifo \/ CarryOut \/ OpenFifo \/ OpenPublisher
             \/ UpdateState \/ Killed \/ Signal
    <3>1. UNCHANGED events /\ UNCHANGED tableVars /\ UNCHANGED excuses
      BY <2>9 DEF EndDispatch, ReadFifo, CarryOut, OpenFifo, OpenPublisher, UpdateState, Killed, Signal
    <3> QED BY <2>1, <3>1, AgreementStays
  <2> QED BY <1>1, <2>3, <2>4, <2>5, <2>6, <2>7, <2>8, <2>9 DEF ToplevelStep, Toplevel, ToplevelFaults
<1>2. CASE UserActivates \/ Opens \/ Retitles \/ UserCloses \/ Finishes
  <2>1. UNCHANGED excuses
    BY <1>2 DEF UserActivates, Opens, Retitles, UserCloses, Finishes, CompositorChange
  <2> QED BY <1>2, <2>1, CompositorChanges, ChangeCase
<1>3. CASE HandleRequest
  <2>1. UNCHANGED excuses /\ UNCHANGED tableVars
    BY <1>3 DEF HandleRequest
  <2>2. CASE UNCHANGED <<events, compositorVars>>
    BY <2>1, <2>2, AgreementStays
  <2>3. CASE \E r : Change(r)
    BY <2>1, <2>3, ChangeCase
  <2> QED BY <1>3, <2>2, <2>3, RequestChanges
<1>4. CASE \/ PublishWindows \/ Command \/ WriteCommand \/ DaemonStops \/ DaemonStarts
           \/ UNCHANGED syncVars
  <2>1. UNCHANGED <<events, compositorVars, tableVars, excuses>>
    BY <1>4 DEF PublishWindows, Command, WriteCommand, DaemonStops, DaemonStarts, syncVars, vars
  <2> QED BY <2>1, AgreementStays
<1> QED BY <1>1, <1>2, <1>3, <1>4 DEF Next

-----------------------------------------------------------------------------
(* The newest frame shows the table *)

Newest == IF frames = <<>> THEN shown ELSE frames[Len(frames)]

\* Titles that some slot waits for.
Awaited == {e \in EventTypes : e.type = "title" /\ e.handle \in Handles /\ slotOf[e.handle] # 0}

\* Without a publication due, the newest frame is the table's, unless a window has joined
\* whose title is still on its way.
FrameComes == live /\ pc # "update" /\ ~dirty => Newest = Frame \/ Meets(events, Awaited)

\* Steps that leave the table, or ask for a publication.
LEMMA FrameStays ==
    ASSUME FrameComes, UNCHANGED tableVars,
           live' => live, ~dirty' => ~dirty, pc' # "update" => pc # "update",
           live' => Newest' = Newest, Meets(events, Awaited) => Meets(events', Awaited)
    PROVE  FrameComes'
<1>1. UNCHANGED <<slots, count, slotOf, focused, focusedTitle, epoch>>
  BY DEF tableVars
<1>2. Frame' = Frame
  BY <1>1 DEF Frame
<1>3. Meets(events, Awaited)' <=> Meets(events', Awaited)
  BY <1>1 DEF Meets, Awaited
<1> QED BY <1>2, <1>3 DEF FrameComes

\* The listeners.
LEMMA ListenerFrame ==
    ASSUME World, FrameComes, UNCHANGED <<compositorVars, shown>>, "full" \notin excuses',
           \/ HandleToplevel \/ HandleTitle \/ HandleState \/ HandleDone \/ HandleClosed \/ HandleSync
    PROVE  FrameComes'
<1>1. PICK e : e = Head(events)
  OBVIOUS
<1>2. PICK h : h = e.handle
  OBVIOUS
<1>3. events \in Seq(Sent) /\ TableTypeOK /\ InUse /\ MaxSlots \in Nat
  BY ToplevelAssumption DEF World, TableTypeOK
<1>4. events # <<>> /\ events' = Tail(events) /\ UNCHANGED <<live, frames>> /\ pc # "update"
  BY DEF HandleToplevel, HandleTitle, HandleState, HandleDone, HandleClosed, HandleSync, Take,
         outsideVars, linkVars
<1>5. \A T : Meets(events, T) <=> e \in T \/ Meets(events', T)
  BY <1>1, <1>3, <1>4, QueueTaken
<1>6. Newest' = Newest
  BY <1>4 DEF Newest
<1>7. e \in Sent
  BY <1>1, <1>3, <1>4, QueueTaken
<1>8. CASE UNCHANGED tableVars /\ dirty' = dirty /\ e \notin Awaited
  BY <1>4, <1>5, <1>6, <1>8, FrameStays
<1>9. CASE dirty' = TRUE
  BY <1>9 DEF FrameComes
<1>10. CASE HandleToplevel
  <2>1. Take("toplevel") /\ AddToplevel(h) /\ UNCHANGED <<focused, focusedTitle, epoch, dirty>>
    BY <1>1, <1>2, <1>10 DEF HandleToplevel
  <2>2. h \in Handles /\ e \in Of("toplevel", h)
    <3>1. "toplevel" \notin {"sync", "finished"}
      OBVIOUS
    <3> QED BY <1>1, <1>2, <1>3, <2>1, <3>1, TakeFacts
  <2>3. count # MaxSlots
    BY <2>1 DEF AddToplevel
  <2>4. slotOf'[h] = count + 1 /\ count \in Nat
    BY <1>3, <2>1, <2>2, <2>3, AddShape DEF TableTypeOK
  <2>5. Meets(events, Of("title", h))
    BY <1>5, <2>2 DEF World, Announced, Coming
  <2>6. e \notin Of("title", h)
    BY <2>2 DEF Of
  <2>7. Meets(events', Of("title", h))
    BY <1>5, <2>5, <2>6
  <2>8. Of("title", h) \subseteq Awaited'
    BY <2>2, <2>4 DEF Of, Awaited
  <2>9. Meets(events', Awaited')
    BY <2>7, <2>8 DEF Meets
  <2>10. Meets(events, Awaited)'
    BY <2>9 DEF Meets
  <2> QED BY <2>10 DEF FrameComes
<1>11. CASE HandleTitle
  <2>1. UNCHANGED <<count, slotOf, focused, focusedTitle, epoch>>
    BY <1>11 DEF HandleTitle
  <2>2. slotOf[h] # 0 => dirty' = TRUE
    BY <1>1, <1>2, <1>11 DEF HandleTitle
  <2>3. slotOf[h] = 0 => UNCHANGED <<slots, dirty>>
    BY <1>1, <1>2, <1>11 DEF HandleTitle
  <2>4. slotOf[h] = 0 => e \notin Awaited
    BY <1>2 DEF Awaited
  <2> QED BY <1>8, <1>9, <2>1, <2>2, <2>3, <2>4 DEF tableVars
<1>12. CASE HandleState
  <2>1. UNCHANGED <<count, slotOf, epoch>> /\ e \notin Awaited
    BY <1>1, <1>12 DEF HandleState, Take, Awaited
  <2>2. dirty' = TRUE \/ UNCHANGED <<slots, focused, focusedTitle, dirty>>
    BY <1>12 DEF HandleState
  <2> QED BY <1>8, <1>9, <2>1, <2>2 DEF tableVars
<1>13. CASE HandleClosed
  <2>1. UNCHANGED <<slotOf, focused, focusedTitle>> /\ e \notin Awaited
    BY <1>1, <1>13 DEF HandleClosed, Take, Awaited
  <2>2. dirty' = TRUE \/ UNCHANGED <<slots, count, epoch, dirty>>
    BY <1>13 DEF HandleClosed, RemoveToplevel
  <2> QED BY <1>8, <1>9, <2>1, <2>2 DEF tableVars
<1>14. CASE HandleDone \/ HandleSync
  <2>1. UNCHANGED tableVars /\ UNCHANGED dirty /\ e \notin Awaited
    BY <1>1, <1>14 DEF HandleDone, HandleSync, Take, Awaited
  <2> QED BY <1>8, <2>1
<1> QED BY <1>10, <1>11, <1>12, <1>13, <1>14

\* A frame that is published shows the table; what the daemon takes in stays the newest.
LEMMA StepFrames ==
    ASSUME TypesInvariant, FrameComes, [Next]_syncVars, Sound'
    PROVE  FrameComes'
<1>1. CASE ToplevelStep
  <2>1. UNCHANGED compositorVars /\ UNCHANGED shown
    BY <1>1 DEF ToplevelStep
  <2>2. "full" \notin excuses' /\ pc' # "over" /\ running' # FALSE
    BY DEF Sound
  <2>3. CASE \/ HandleToplevel \/ HandleTitle \/ HandleState \/ HandleDone \/ HandleClosed \/ HandleSync
    BY <2>1, <2>2, <2>3, ListenerFrame DEF TypesInvariant
  <2>4. CASE HandleFinished \/ FifoHangup \/ WaylandFails
    <3>1. pc' = "over" \/ running' = FALSE
      BY <2>4 DEF HandleFinished, FifoHangup, WaylandFails
    <3> QED BY <2>2, <3>1
  <2>5. CASE \/ EndDispatch \/ ReadFifo \/ CarryOut \/ OpenFifo
    <3>1. UNCHANGED <<events, tableVars, dirty, linkVars>> /\ pc # "update"
      BY <2>5 DEF EndDispatch, ReadFifo, CarryOut, OpenFifo
    <3>2. Newest' = Newest /\ live' = live /\ events' = events
      BY <2>1, <3>1 DEF Newest, linkVars
    <3> QED BY <3>1, <3>2, FrameStays
  <2>6. CASE OpenPublisher
    <3>1. pc' = "update"
      BY <2>2, <2>6 DEF OpenPublisher
    <3> QED BY <3>1 DEF FrameComes
  <2>7. CASE UpdateState
    <3>1. live' = live /\ UNCHANGED tableVars /\ (live => frames' = Append(frames, Frame))
      BY <2>7 DEF UpdateState
    <3>2. UNCHANGED <<slots, count, slotOf, focused, focusedTitle, epoch>>
      BY <3>1 DEF tableVars
    <3>3. Frame' = Frame
      BY <3>2 DEF Frame
    <3>4. PICK f : f = Frame
      OBVIOUS
    <3>5. frames \in Seq(StateFrames)
      BY DEF TypesInvariant, QueueTypes
    <3>6. IsList(frames) /\ Len(frames) \in Nat
      BY <3>5, SeqIsList
    <3>7. ASSUME live PROVE Newest' = f
      <4>1. frames' = Append(frames, f)
        BY <3>1, <3>4, <3>7
      <4>2. Len(frames') = Len(frames) + 1 /\ frames'[Len(frames) + 1] = f
        BY <3>5, <4>1
      <4>3. frames' # <<>>
        BY <3>6, <4>2
      <4> QED BY <4>2, <4>3 DEF Newest
    <3> QED BY <3>1, <3>3, <3>4, <3>7 DEF FrameComes
  <2>8. CASE Killed \/ Signal
    <3>1. pc' = "over"
      BY <2>8 DEF Killed, Signal
    <3> QED BY <2>2, <3>1
  <2> QED BY <1>1, <2>3, <2>4, <2>5, <2>6, <2>7, <2>8 DEF ToplevelStep, Toplevel, ToplevelFaults
<1>2. CASE UserActivates \/ Opens \/ Retitles \/ UserCloses \/ Finishes \/ HandleRequest
  <2>1. UNCHANGED <<tableVars, dirty, linkVars, pc, shown>>
    BY <1>2 DEF UserActivates, Opens, Retitles, UserCloses, Finishes, HandleRequest, CompositorChange
  <2>2. Newest' = Newest /\ live' = live
    BY <2>1 DEF Newest, linkVars
  <2>3. events' = events \/ \E r : Change(r)
    BY <1>2, CompositorChanges, RequestChanges DEF TypesInvariant
  <2>4. Meets(events, Awaited) => Meets(events', Awaited)
    <3>1. CASE events' = events
      BY <3>1
    <3>2. CASE \E r : Change(r)
      <4>1. PICK r : Change(r)
        BY <3>2
      <4>2. events \in Seq(Sent) /\ r \in Seq(Sent) /\ events' = events \o r
        BY <4>1 DEF TypesInvariant, World, Change
      <4> QED BY <4>2, QueueGrown
    <3> QED BY <2>3, <3>1, <3>2
  <2> QED BY <2>1, <2>2, <2>4, FrameStays
<1>3. CASE PublishWindows
  <2>1. /\ UNCHANGED <<events, tableVars, dirty, live, pc>>
        /\ frames # <<>> /\ shown' = Head(frames) /\ frames' = Tail(frames)
    BY <1>3 DEF PublishWindows
  <2>2. frames \in Seq(StateFrames)
    BY DEF TypesInvariant, QueueTypes
  <2>3. Newest' = Newest
    <3>1. /\ Len(frames) \in Nat \ {0} /\ Len(frames') = Len(frames) - 1
          /\ DOMAIN frames' = 1..Len(frames') /\ shown' = frames[1]
          /\ \A j \in DOMAIN frames' : frames'[j] = frames[j + 1]
      BY <2>1, <2>2, TailShape
    <3>2. CASE Len(frames) = 1
      <4>1. frames' = <<>>
        BY <2>1, <2>2, <3>2
      <4> QED BY <2>1, <3>1, <3>2, <4>1 DEF Newest
    <3>3. CASE Len(frames) # 1
      <4>1. Len(frames') \in DOMAIN frames' /\ Len(frames') + 1 = Len(frames)
        BY <3>1, <3>3
      <4>2. frames' # <<>>
        BY <4>1
      <4> QED BY <2>1, <3>1, <4>1, <4>2 DEF Newest
    <3> QED BY <3>2, <3>3
  <2> QED BY <2>1, <2>3, FrameStays
<1>4. CASE Command \/ WriteCommand \/ UNCHANGED syncVars
  <2>1. UNCHANGED <<events, tableVars, dirty, linkVars, pc, shown>>
    BY <1>4 DEF Command, WriteCommand, syncVars, vars, outsideVars
  <2>2. Newest' = Newest /\ live' = live
    BY <2>1 DEF Newest, linkVars
  <2> QED BY <2>1, <2>2, FrameStays
<1>5. CASE DaemonStops \/ DaemonStarts
  <2>1. ~live'
    BY <1>5 DEF DaemonStops, DaemonStarts, TypesInvariant, LinkTypes
  <2> QED BY <2>1 DEF FrameComes
<1> QED BY <1>1, <1>2, <1>3, <1>4, <1>5 DEF Next

-----------------------------------------------------------------------------
LEMMA InitAgrees ==
    ASSUME Init
    PROVE  Agreement /\ FocusComes
<1>1. DesktopOK /\ Len(order) \in Nat /\ DOMAIN order = 1..Len(order) /\ count = 0 /\ \A h : ~InTable(h)
  BY InitEvents, InitTable
<1>2. \A i \in 1..Len(order) :
         /\ {4 * i - 3, 4 * i - 2, 4 * i - 1, 4 * i} \subseteq DOMAIN events
         /\ events[4 * i - 3] \in Of("toplevel", order[i])
         /\ events[4 * i - 1] \in Of("state", order[i])
         /\ events[4 * i - 1].activated <=> order[i] = active
  BY InitEvents
<1>3. \A h : Existing = Range(order) /\ (h \in Existing <=> \E i \in 1..Len(order) : order[i] = h)
  BY <1>1 DEF Existing, Range
<1>4. 1..count = {}
  BY <1>1
<1>5. ASSUME NEW h \in Handles PROVE Membership(h)
  <2>1. h \in Existing => Coming(h)
    BY <1>2, <1>3 DEF Coming, Meets
  <2>2. Coming(h) => h \in Existing
    BY <1>3, InitPlaces DEF Coming, Meets
  <2>3. ~Meets(events, Of("closed", h))
    BY InitPlaces DEF Meets
  <2> QED BY <1>1, <2>1, <2>2, <2>3 DEF Membership
<1>6. ASSUME NEW h \in Handles PROVE TitleComes(h)
  <2>1. EndsIn(events, Of("title", h), Told(h))
    BY InitPlaces DEF EndsIn, Told
  <2> QED BY <1>4, <2>1 DEF TitleComes
<1>7. ASSUME NEW h \in Handles PROVE StateComes(h)
  <2>1. EndsIn(events, Of("state", h), Seen(h))
    BY InitPlaces DEF EndsIn, Seen
  <2> QED BY <1>4, <2>1 DEF StateComes
<1>8. ASSUME NEW g \in Handles, NEW h \in Handles, Before(g, h) PROVE InOrder(g, h)
  <2>1. Precedes(g, h) /\ ~InTable(h)
    BY <1>1, <1>4 DEF Precedes
  <2>2. PICK i \in DOMAIN order, j \in DOMAIN order : i < j /\ order[i] = g /\ order[j] = h
    BY <1>8 DEF Before
  <2>3. ASSUME NEW m \in DOMAIN events, NEW n \in DOMAIN events,
               events[m] \in Of("toplevel", g), events[n] \in Of("toplevel", h)
        PROVE  m < n
    <3>1. PICK k \in 1..Len(order) : order[k] = g /\ m = 4 * k - 3
      BY <2>3, InitPlaces
    <3>2. PICK l \in 1..Len(order) : order[l] = h /\ n = 4 * l - 3
      BY <2>3, InitPlaces
    <3>3. k = i /\ l = j
      BY <1>1, <2>2, <3>1, <3>2 DEF DesktopOK, IsInjective
    <3> QED BY <1>1, <2>2, <3>1, <3>2, <3>3
  <2> QED BY <2>1, <2>3 DEF InOrder, AllBefore
<1>9. FocusComes
  <2> SUFFICES ASSUME active # "none" PROVE FocusComes
    BY DEF FocusComes
  <2>1. events \in Seq(Sent)
    BY InitEvents
  <2>2. ASSUME NEW j \in DOMAIN events, events[j] \in Activations PROVE events[j] \in About(active)
    <3>1. events[j] \in Of("state", events[j].handle) /\ events[j].activated /\ events[j] \in EventTypes
      BY <2>2 DEF Of, Activations
    <3>2. events[j].handle = active
      BY <3>1, InitPlaces
    <3> QED BY <3>1, <3>2 DEF About
  <2>3. PICK i \in 1..Len(order) : order[i] = active
    BY <1>1, <1>3 DEF DesktopOK
  <2>4. 4 * i - 1 \in DOMAIN events /\ events[4 * i - 1] \in Activations
    BY <1>2, <2>3 DEF Of, Activations
  <2> QED BY <2>2, <2>4 DEF FocusComes, EndsIn, Meets
<1> QED BY <1>5, <1>6, <1>7, <1>8, <1>9 DEF Agreement, InOrder

-----------------------------------------------------------------------------
ShownInvariant ==
    TypesInvariant /\ Waits /\ (Sound => Agreement /\ FocusComes /\ FrameComes)

LEMMA ShownFollows == ShownInvariant => ShownAtRest
<1> SUFFICES ASSUME ShownInvariant, AtRest, live, excuses \cap {"full", "slots"} = {}
             PROVE  /\ shown.windows = [i \in DOMAIN order |->
                                           [handle |-> order[i], title |-> titleOf[order[i]],
                                            activated |-> order[i] = active]]
                    /\ (active # "none" /\ "focus" \notin excuses) =>
                           /\ order[shown.focused + 1] = active
                           /\ shown.title = titleOf[active]
  BY DEF ShownAtRest
<1>1. events = <<>> /\ frames = <<>> /\ pc = "poll" /\ ~dirty
  BY DEF AtRest
<1>2. Agreement /\ FocusComes /\ FrameComes
  BY <1>1 DEF ShownInvariant, Waits, Sound
<1>3. \A T : ~Meets(events, T)
  BY <1>1 DEF Meets
<1>4. shown = Frame
  BY <1>1, <1>2, <1>3 DEF FrameComes, Newest
<1>5. /\ DesktopOK /\ TableTypeOK /\ InUse /\ slots \in Slots /\ count \in 0..MaxSlots
      /\ count \in Nat /\ MaxSlots \in Nat
  <2>1. MaxSlots \in Nat
    BY ToplevelAssumption
  <2>2. DesktopOK /\ TableTypeOK /\ InUse
    BY DEF ShownInvariant, TypesInvariant, World
  <2> QED BY <2>1, <2>2 DEF TableTypeOK, Slots
<1>6. PICK w : w = SubSeq(slots, 1, count)
  OBVIOUS
<1>7. w = [i \in 1..count |-> slots[i]]
  BY <1>5, <1>6
<1>8. shown.windows = w /\ shown.focused = focused /\ shown.title = focusedTitle
  BY <1>4, <1>6 DEF Frame
<1>9. PICK r : r = [i \in 1..count |-> slots[i].handle]
  OBVIOUS
<1>10. /\ r \in Seq(Handles) /\ Len(r) = count /\ DOMAIN r = 1..count
       /\ \A i \in 1..count : r[i] = slots[i].handle
  <2>1. \A i \in 1..count : slots[i].handle \in Handles
    BY <1>5 DEF InUse
  <2> QED BY <1>5, <1>9, <2>1
<1>11. IsInjective(r)
  BY <1>5, <1>10 DEF InUse, IsInjective
<1>12. order \in Seq(Handles) /\ IsInjective(order)
  BY <1>5 DEF DesktopOK
<1>13. Range(order) = Range(r)
  <2>1. \A h \in Handles : h \in Existing <=> InTable(h)
    BY <1>2, <1>3 DEF Agreement, Membership, Coming
  <2>2. \A h : InTable(h) <=> h \in Range(r)
    BY <1>10 DEF InTable, Range
  <2>3. Range(order) \subseteq Handles
    BY <1>12 DEF Range
  <2>4. Range(r) \subseteq Handles
    BY <1>10 DEF Range
  <2> QED BY <2>1, <2>2, <2>3, <2>4 DEF Existing
<1>14. ASSUME NEW i \in DOMAIN order, NEW j \in DOMAIN order, NEW m \in DOMAIN r, NEW n \in DOMAIN r,
              i < j, r[m] = order[i], r[n] = order[j]
       PROVE  m < n
  <2>1. order[i] \in Handles /\ order[j] \in Handles
    BY <1>12
  <2>2. Before(order[i], order[j])
    BY <1>14 DEF Before
  <2>3. Precedes(order[i], order[j])
    BY <1>2, <2>1, <2>2 DEF Agreement, InOrder
  <2> QED BY <1>10, <1>14, <2>3 DEF Precedes
<1>15. order = r
  BY <1>10, <1>11, <1>12, <1>13, <1>14, SameOrder
<1>16. ASSUME NEW i \in 1..count
       PROVE  /\ slots[i] \in SlotTypes /\ slots[i].handle = order[i]
              /\ slots[i].title = titleOf[order[i]] /\ (slots[i].activated <=> order[i] = active)
  <2>1. slots[i] \in SlotTypes /\ slots[i].handle = order[i]
    BY <1>5, <1>10, <1>15 DEF Slots
  <2>2. order[i] \in Existing /\ order[i] \in Handles
    BY <1>10, <1>12, <1>15 DEF Existing, Range
  <2>3. TitleComes(order[i]) /\ StateComes(order[i])
    BY <1>2, <2>2 DEF Agreement
  <2>4. slots[i].title = titleOf[order[i]]
    BY <1>3, <2>1, <2>2, <2>3 DEF TitleComes
  <2>5. slots[i].activated <=> order[i] = active
    BY <1>3, <2>1, <2>2, <2>3 DEF StateComes
  <2> QED BY <2>1, <2>4, <2>5
<1>17. ASSUME NEW i \in 1..count
       PROVE  slots[i] = [handle |-> order[i], title |-> titleOf[order[i]], activated |-> order[i] = active]
  <2>1. PICK flag \in BOOLEAN : flag = (order[i] = active)
    OBVIOUS
  <2>2. slots[i].activated = flag
    BY <1>16, <2>1 DEF SlotTypes
  <2>3. slots[i] = [handle |-> order[i], title |-> titleOf[order[i]], activated |-> flag]
    BY <1>16, <2>2 DEF SlotTypes
  <2> QED BY <2>1, <2>3
<1>18. shown.windows = [i \in DOMAIN order |->
                           [handle |-> order[i], title |-> titleOf[order[i]],
                            activated |-> order[i] = active]]
  BY <1>7, <1>8, <1>10, <1>15, <1>17, Zenon
<1>19. ASSUME active # "none", "focus" \notin excuses
       PROVE  order[shown.focused + 1] = active /\ shown.title = titleOf[active]
  <2>1. FocusShown
    BY <1>2, <1>3, <1>19 DEF FocusComes
  <2> QED BY <1>8, <1>16, <2>1 DEF FocusShown
<1> QED BY <1>18, <1>19

\* ShownAtRest: while the stream lives and nothing has gone wrong that cannot be mended, the
\* topic shows the compositor's windows, in their order and as they are, once everything
\* has arrived, and the active one as the focused (the listeners, nscde_toplevel.c;
\* update_state).
THEOREM ShowsTheWindows == Spec => []ShownAtRest
<1>1. Init => ShownInvariant
  <2> SUFFICES ASSUME Init PROVE ShownInvariant
    OBVIOUS
  <2>1. TypesInvariant
    BY InitTypes
  <2>2. Agreement /\ FocusComes
    BY InitAgrees
  <2>3. live = FALSE /\ pc = "roundtrip"
    BY DEF Init, ToplevelInit
  <2> QED BY <2>1, <2>2, <2>3 DEF ShownInvariant, Waits, FrameComes
<1>2. ShownInvariant /\ [Next]_syncVars => ShownInvariant'
  <2> SUFFICES ASSUME ShownInvariant, [Next]_syncVars PROVE ShownInvariant'
    OBVIOUS
  <2>1. TypesInvariant'
    BY StepTypes DEF ShownInvariant
  <2>2. Waits'
    BY StepWaits DEF ShownInvariant, TypesInvariant
  <2>3. ASSUME Sound' PROVE Agreement' /\ FocusComes' /\ FrameComes'
    <3>1. Agreement /\ FocusComes /\ FrameComes
      BY <2>3, SoundBefore DEF ShownInvariant
    <3> QED BY <2>3, <3>1, StepAgrees, StepFrames DEF ShownInvariant, TypesInvariant
  <2> QED BY <2>1, <2>2, <2>3 DEF ShownInvariant
<1> QED BY <1>1, <1>2, ShownFollows, PTL DEF Spec
=============================================================================
