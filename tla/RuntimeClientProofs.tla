------------------------ MODULE RuntimeClientProofs ------------------------
(***************************************************************************)
(* The stream of frames stays in order and the topic cache keeps its       *)
(* contract, for any topics, keys and values, however many frames there    *)
(* are and wherever the reads cut them.                                    *)
(***************************************************************************)
EXTENDS RuntimeClient, TLAPS, SequenceTheorems

-----------------------------------------------------------------------------
(* The invariant *)

\* The last of the first n frames of s that is on topic t is the j-th.
Latest(s, j, n, t) ==
    j \in 1..n /\ s[j].topic = t /\ \A k \in (j + 1)..n : s[k].topic # t

\* contents are what the last of the first n frames says topic t is.
Known(s, n, contents, t) ==
    \/ \E j \in 1..n : Latest(s, j, n, t) /\ contents = s[j].state
    \/ (\A j \in 1..n : s[j].topic # t) /\ contents = Nothing

\* Frame i of s says all of its topic, or what has changed since the one before.
SaysState(s, i) ==
    /\ s[i] \in Frames
    /\ Replaces(s[i]) => s[i].body = s[i].state
    /\ s[i].type # "error" /\ ~Replaces(s[i]) =>
          /\ s[i].topic \in OverlayTopics
          /\ \E k \in 1..(i - 1) : s[k].topic = s[i].topic
          /\ \A j \in 1..(i - 1) : Latest(s, j, i - 1, s[i].topic)
                                      => Merged(s[j].state, s[i]) = s[i].state

Shapes ==
    /\ sent \in Seq(Frames) /\ buffer \in Seq(Frames) /\ socket \in Seq(Frames)
    /\ taken \in Nat /\ taken <= Len(sent)
    /\ store \in [Topics -> Contents] /\ cache \in [Topics -> Contents]
    /\ handed \in [Topics -> Contents]
    /\ missed \subseteq Topics

\* What is not handed over yet is in the buffer, then in the socket.
Aligned ==
    /\ Len(sent) = taken + Len(buffer) + Len(socket)
    /\ \A i \in 1..Len(buffer) : buffer[i] = sent[taken + i]
    /\ \A i \in 1..Len(socket) : socket[i] = sent[taken + Len(buffer) + i]

\* Nothing is written before the subscription is served, and then every topic is known.
Served ==
    /\ pc = "subscribe" => sent = <<>> /\ peer = "none"
    /\ peer = "asked" => sent = <<>>
    /\ peer = "served" =>
          \A t \in Topics :
              /\ \E j \in 1..Len(sent) : sent[j].topic = t
              /\ \A j \in 1..Len(sent) : Latest(sent, j, Len(sent), t) => sent[j].state = store[t]

FramesSayState == \A i \in 1..Len(sent) : SaysState(sent, i)

CacheIsKnown == \A t \in Topics \ missed : Known(sent, taken, cache[t], t)

HandedIsKnown == \A t \in Topics \ OverlayTopics : Known(sent, taken, handed[t], t)

\* FramesInOrder and CacheContract, and what they need to be inductive.
ClientInvariant ==
    /\ Shapes
    /\ pc # "over" => Aligned
    /\ Served
    /\ FramesSayState
    /\ pc # "over" => CacheIsKnown
    /\ HandedIsKnown

-----------------------------------------------------------------------------
(* Sequences *)

\* What Seq says of a sequence.
LEMMA SeqFacts ==
    ASSUME NEW S, NEW q \in Seq(S)
    PROVE  /\ Len(q) \in Nat /\ DOMAIN q = 1..Len(q)
           /\ \A i \in 1..Len(q) : q[i] \in S
           /\ (Len(q) = 0 <=> q = <<>>)
  OBVIOUS

\* Concatenation keeps the elements of both parts in their order.
LEMMA ConcatFacts ==
    ASSUME NEW S, NEW q \in Seq(S), NEW r \in Seq(S)
    PROVE  /\ q \o r \in Seq(S)
           /\ Len(q \o r) = Len(q) + Len(r)
           /\ \A i \in 1..Len(q) : (q \o r)[i] = q[i]
           /\ \A i \in 1..Len(r) : (q \o r)[Len(q) + i] = r[i]
<1>1. q \o r \in Seq(S) /\ Len(q \o r) = Len(q) + Len(r)
  BY ConcatProperties
<1>2. \A i \in 1..(Len(q) + Len(r)) :
         (q \o r)[i] = IF i <= Len(q) THEN q[i] ELSE r[i - Len(q)]
  BY ConcatProperties
<1>3. Len(q) \in Nat /\ Len(r) \in Nat
  BY SeqFacts
<1>4. \A i \in 1..Len(r) : Len(q) + i \in 1..(Len(q) + Len(r)) /\ ~(Len(q) + i <= Len(q))
                            /\ (Len(q) + i) - Len(q) = i
  BY <1>3
<1> QED BY <1>1, <1>2, <1>3, <1>4

\* A part of a sequence, from a to its end.
LEMMA RestFacts ==
    ASSUME NEW S, NEW q \in Seq(S), NEW n \in 0..Len(q)
    PROVE  /\ SubSeq(q, n + 1, Len(q)) \in Seq(S)
           /\ Len(SubSeq(q, n + 1, Len(q))) = Len(q) - n
           /\ \A i \in 1..(Len(q) - n) : SubSeq(q, n + 1, Len(q))[i] = q[n + i]
<1>1. Len(q) \in Nat /\ n \in Nat
  BY SeqFacts
<1> DEFINE r == SubSeq(q, n + 1, Len(q))
<1>2. r = [i \in 1..(Len(q) - n) |-> q[n + i]]
  BY <1>1, SubSeqProperties
<1> QED BY <1>1, <1>2

\* The first n elements of a sequence.
LEMMA FirstFacts ==
    ASSUME NEW S, NEW q \in Seq(S), NEW n \in 0..Len(q)
    PROVE  /\ SubSeq(q, 1, n) \in Seq(S)
           /\ Len(SubSeq(q, 1, n)) = n
           /\ \A i \in 1..n : SubSeq(q, 1, n)[i] = q[i]
<1>1. Len(q) \in Nat /\ n \in Nat
  BY SeqFacts
<1>2. SubSeq(q, 1, n) = [i \in 1..n |-> q[i]]
  BY <1>1
<1> QED BY <1>1, <1>2

\* Tail drops the first element and moves the others up.
LEMMA TailFacts ==
    ASSUME NEW S, NEW q \in Seq(S), q # <<>>
    PROVE  /\ Head(q) = q[1] /\ Tail(q) \in Seq(S)
           /\ Len(Tail(q)) = Len(q) - 1 /\ Len(q) >= 1
           /\ \A i \in 1..(Len(q) - 1) : Tail(q)[i] = q[i + 1]
  BY HeadTailProperties, SeqFacts

\* Sequences with the same elements are the same.
LEMMA SameSequence ==
    ASSUME NEW S, NEW q \in Seq(S), NEW r \in Seq(S), Len(q) = Len(r),
           \A i \in 1..Len(q) : q[i] = r[i]
    PROVE  q = r
  BY SeqFacts

-----------------------------------------------------------------------------
(* Contents and frames *)

\* Contents are functions on keys.
LEMMA ContentsFacts ==
    /\ Nothing \in Contents
    /\ \A c \in Contents : DOMAIN c \subseteq Keys /\ c = [k \in DOMAIN c |-> c[k]]
                           /\ \A k \in DOMAIN c : c[k] \in Values
    /\ \A present \in SUBSET Keys : [present -> Values] \subseteq Contents
<1>1. \A present \in SUBSET Keys : [present -> Values] \subseteq Contents
  BY DEF Contents
<1>2. ASSUME NEW c \in Contents
      PROVE  DOMAIN c \subseteq Keys /\ c = [k \in DOMAIN c |-> c[k]]
             /\ \A k \in DOMAIN c : c[k] \in Values
  <2>1. PICK present \in SUBSET Keys : c \in [present -> Values]
    BY <1>2 DEF Contents
  <2> QED BY <2>1
<1>3. Nothing \in [{} -> Values]
  BY DEF Nothing
<1> QED BY <1>1, <1>2, <1>3

\* A merge of contents gives contents, whatever the frame removes.
LEMMA MergedIsContents ==
    ASSUME NEW old \in Contents, NEW f \in Frames
    PROVE  Merged(old, f) \in Contents
<1> DEFINE base == IF f.type = "snapshot" \/ f.reset THEN Nothing ELSE old
           kept == WithoutKeys(base, f.unset)
<1>1. base \in Contents /\ f.body \in Contents
  BY ContentsFacts DEF Frames
<1> HIDE DEF base
<1>2. DOMAIN kept = DOMAIN base \ f.unset /\ \A k \in DOMAIN kept : kept[k] = base[k]
  BY DEF WithoutKeys
<1>3. DOMAIN kept \subseteq Keys /\ \A k \in DOMAIN kept : kept[k] \in Values
  BY <1>1, <1>2, ContentsFacts
<1>4. DOMAIN f.body \subseteq Keys /\ \A k \in DOMAIN f.body : f.body[k] \in Values
  BY <1>1, ContentsFacts
<1> HIDE DEF kept
<1>5. WithKeys(kept, f.body) \in [DOMAIN kept \cup DOMAIN f.body -> Values]
  BY <1>3, <1>4 DEF WithKeys
<1>6. WithKeys(kept, f.body) \in Contents
  BY <1>3, <1>4, <1>5, ContentsFacts
<1> QED BY <1>6 DEF Merged, kept, base

\* A frame that replaces the topic leaves its body, whatever was there.
LEMMA MergedReplaces ==
    ASSUME NEW old, NEW f \in Frames, Replaces(f)
    PROVE  Merged(old, f) = f.body
<1>1. f.body = [k \in DOMAIN f.body |-> f.body[k]]
  BY ContentsFacts DEF Frames
<1>2. WithoutKeys(Nothing, f.unset) = [k \in {} |-> Nothing[k]]
  BY DEF WithoutKeys, Nothing
<1>3. Merged(old, f) = WithKeys(WithoutKeys(Nothing, f.unset), f.body)
  BY DEF Merged, Replaces
<1>4. WithKeys([k \in {} |-> Nothing[k]], f.body) = [k \in DOMAIN f.body |-> f.body[k]]
  BY DEF WithKeys
<1> QED BY <1>1, <1>2, <1>3, <1>4

\* What Announce puts into an overlay's frame takes one state of a topic to the next.
LEMMA OverlayMerges ==
    ASSUME NEW old \in Contents, NEW new \in Contents
    PROVE  LET changed == {k \in DOMAIN new : k \in DOMAIN old => old[k] # new[k]}
           IN  WithKeys(WithoutKeys(old, DOMAIN old \ DOMAIN new),
                        [k \in changed |-> new[k]]) = new
<1> DEFINE changed == {k \in DOMAIN new : k \in DOMAIN old => old[k] # new[k]}
           kept == WithoutKeys(old, DOMAIN old \ DOMAIN new)
           body == [k \in changed |-> new[k]]
<1>1. DOMAIN kept = DOMAIN old \cap DOMAIN new /\ \A k \in DOMAIN kept : kept[k] = old[k]
  BY DEF WithoutKeys
<1>2. DOMAIN kept \cup DOMAIN body = DOMAIN new
  BY <1>1
<1>3. \A k \in DOMAIN new : (IF k \in DOMAIN body THEN body[k] ELSE kept[k]) = new[k]
  BY <1>1
<1>4. new = [k \in DOMAIN new |-> new[k]]
  BY ContentsFacts
<1> HIDE DEF kept, body
<1>5. WithKeys(kept, body) = [k \in DOMAIN new |-> new[k]]
  BY <1>2, <1>3 DEF WithKeys
<1> QED BY <1>4, <1>5 DEF kept, body, changed

-----------------------------------------------------------------------------
(* What is known of a topic *)

\* Of a sequence that goes on, the first n frames say what they said.
LEMMA KnownStays ==
    ASSUME NEW s, NEW r, NEW n \in Nat, \A i \in 1..n : r[i] = s[i],
           NEW contents, NEW t, Known(s, n, contents, t)
    PROVE  Known(r, n, contents, t)
<1>1. CASE \E j \in 1..n : Latest(s, j, n, t) /\ contents = s[j].state
  <2>1. PICK j \in 1..n : Latest(s, j, n, t) /\ contents = s[j].state
    BY <1>1
  <2>2. \A k \in (j + 1)..n : k \in 1..n
    OBVIOUS
  <2>3. Latest(r, j, n, t) /\ contents = r[j].state
    BY <2>1, <2>2 DEF Latest
  <2> QED BY <2>3 DEF Known
<1>2. CASE (\A j \in 1..n : s[j].topic # t) /\ contents = Nothing
  BY <1>2 DEF Known
<1> QED BY <1>1, <1>2 DEF Known

\* A frame on another topic changes nothing about t.
LEMMA KnownOfOther ==
    ASSUME NEW s, NEW n \in Nat, NEW contents, NEW t, Known(s, n, contents, t),
           s[n + 1].topic # t
    PROVE  Known(s, n + 1, contents, t)
<1>1. CASE \E j \in 1..n : Latest(s, j, n, t) /\ contents = s[j].state
  <2>1. PICK j \in 1..n : Latest(s, j, n, t) /\ contents = s[j].state
    BY <1>1
  <2>2. \A k \in (j + 1)..(n + 1) : k \in (j + 1)..n \/ k = n + 1
    OBVIOUS
  <2>3. Latest(s, j, n + 1, t)
    BY <2>1, <2>2 DEF Latest
  <2> QED BY <2>1, <2>3 DEF Known
<1>2. CASE (\A j \in 1..n : s[j].topic # t) /\ contents = Nothing
  <2>1. \A j \in 1..(n + 1) : j \in 1..n \/ j = n + 1
    OBVIOUS
  <2> QED BY <1>2, <2>1 DEF Known
<1> QED BY <1>1, <1>2 DEF Known

\* A frame on t says what t is.
LEMMA KnownOfThis ==
    ASSUME NEW s, NEW n \in Nat, NEW contents, NEW t, s[n + 1].topic = t,
           contents = s[n + 1].state
    PROVE  Known(s, n + 1, contents, t)
<1>1. n + 1 \in 1..(n + 1) /\ \A k \in (n + 2)..(n + 1) : FALSE
  OBVIOUS
<1>2. Latest(s, n + 1, n + 1, t)
  BY <1>1 DEF Latest
<1> QED BY <1>1, <1>2 DEF Known

\* Known is the definition of HandedState.
LEMMA KnownIsHandedState ==
    ASSUME NEW contents, NEW t, taken \in Nat, Known(sent, taken, contents, t)
    PROVE  contents = HandedState(t)
<1> DEFINE of == {i \in 1..taken : sent[i].topic = t}
<1>1. CASE \E j \in 1..taken : Latest(sent, j, taken, t) /\ contents = sent[j].state
  <2>1. PICK j \in 1..taken : Latest(sent, j, taken, t) /\ contents = sent[j].state
    BY <1>1
  <2>2. j \in of /\ \A k \in (j + 1)..taken : k \notin of
    BY <2>1 DEF Latest
  <2>3. \A i \in of : i <= j
    <3>1. \A i \in of : i \in 1..taken /\ i \notin (j + 1)..taken
      BY <2>2
    <3> HIDE DEF of
    <3> QED BY <2>1, <3>1
  <2>4. \A i \in of : (\A k \in of : k <= i) => i = j
    <3>1. ASSUME NEW i \in of, \A k \in of : k <= i
          PROVE  i = j
      <4>1. j <= i /\ i <= j /\ i \in Nat /\ j \in Nat
        BY <2>2, <2>3, <3>1
      <4> QED BY <4>1
    <3> QED BY <3>1
  <2>5. (CHOOSE i \in of : \A k \in of : k <= i) = j
    <3> DEFINE m == CHOOSE i \in of : \A k \in of : k <= i
    <3> HIDE DEF of
    <3>1. \E i \in of : \A k \in of : k <= i
      BY <2>2, <2>3
    <3>2. m \in of /\ \A k \in of : k <= m
      BY <3>1
    <3> QED BY <2>4, <3>2
  <2>6. HandedState(t) = IF of = {} THEN Nothing
                         ELSE sent[CHOOSE i \in of : \A k \in of : k <= i].state
    BY DEF HandedState
  <2>7. of # {}
    BY <2>2
  <2> HIDE DEF of
  <2> QED BY <2>1, <2>5, <2>6, <2>7
<1>2. CASE (\A j \in 1..taken : sent[j].topic # t) /\ contents = Nothing
  BY <1>2 DEF HandedState
<1> QED BY <1>1, <1>2 DEF Known

-----------------------------------------------------------------------------
(* The daemon's steps *)

\* What a frame says depends on the frames up to it only.
LEMMA SaysStateStays ==
    ASSUME NEW s, NEW r, NEW i \in Nat \ {0}, \A j \in 1..i : r[j] = s[j], SaysState(s, i)
    PROVE  SaysState(r, i)
<1>1. r[i] = s[i] /\ \A j \in 1..(i - 1) : r[j] = s[j]
  OBVIOUS
<1>2. ASSUME NEW t, NEW j \in 1..(i - 1), Latest(r, j, i - 1, t)
      PROVE  Latest(s, j, i - 1, t)
  <2>1. \A k \in (j + 1)..(i - 1) : k \in 1..(i - 1)
    OBVIOUS
  <2> QED BY <1>1, <1>2, <2>1 DEF Latest
<1> QED BY <1>1, <1>2 DEF SaysState

\* What the library has handed over is not changed by frames that are written later.
LEMMA WrittenKeepsClient ==
    ASSUME ClientInvariant, NEW more \in Seq(Frames),
           sent' = sent \o more, socket' = socket \o more, store' \in [Topics -> Contents],
           UNCHANGED <<buffer, taken, cache, handed, missed, pc>>
    PROVE  /\ Shapes'
           /\ (pc # "over" => Aligned)'
           /\ (pc # "over" => CacheIsKnown)'
           /\ HandedIsKnown'
           /\ \A i \in 1..Len(sent) : SaysState(sent', i)
<1> USE DEF ClientInvariant
<1>1. /\ sent \in Seq(Frames) /\ buffer \in Seq(Frames) /\ socket \in Seq(Frames)
      /\ Len(sent) \in Nat /\ Len(buffer) \in Nat /\ Len(socket) \in Nat /\ Len(more) \in Nat
      /\ taken \in Nat /\ taken <= Len(sent)
  BY SeqFacts DEF Shapes
<1>2. /\ sent' \in Seq(Frames) /\ Len(sent') = Len(sent) + Len(more)
      /\ \A i \in 1..Len(sent) : sent'[i] = sent[i]
      /\ \A i \in 1..Len(more) : sent'[Len(sent) + i] = more[i]
  BY <1>1, ConcatFacts
<1>3. /\ socket' \in Seq(Frames) /\ Len(socket') = Len(socket) + Len(more)
      /\ \A i \in 1..Len(socket) : socket'[i] = socket[i]
      /\ \A i \in 1..Len(more) : socket'[Len(socket) + i] = more[i]
  BY <1>1, ConcatFacts
<1>4. Shapes'
  BY <1>1, <1>2, <1>3 DEF Shapes
<1>5. ASSUME pc # "over" PROVE Aligned'
  <2>1. Len(sent) = taken + Len(buffer) + Len(socket)
    BY <1>5 DEF Aligned
  <2>2. \A i \in 1..Len(buffer) : buffer[i] = sent'[taken + i]
    <3>1. \A i \in 1..Len(buffer) : taken + i \in 1..Len(sent)
      BY <1>1, <2>1
    <3> QED BY <1>2, <1>5, <3>1 DEF Aligned
  <2>3. ASSUME NEW i \in 1..Len(socket')
        PROVE  socket'[i] = sent'[taken + Len(buffer) + i]
    <3>1. CASE i \in 1..Len(socket)
      <4>1. taken + Len(buffer) + i \in 1..Len(sent)
        BY <1>1, <2>1, <3>1
      <4> QED BY <1>2, <1>3, <1>5, <3>1, <4>1 DEF Aligned
    <3>2. CASE i \notin 1..Len(socket)
      <4>1. i - Len(socket) \in 1..Len(more) /\ Len(socket) + (i - Len(socket)) = i
        BY <1>1, <1>3, <3>2
      <4>2. Len(sent) + (i - Len(socket)) = taken + Len(buffer) + i
        BY <1>1, <1>3, <2>1
      <4>3. socket'[Len(socket) + (i - Len(socket))] = more[i - Len(socket)]
            /\ sent'[Len(sent) + (i - Len(socket))] = more[i - Len(socket)]
        BY <1>2, <1>3, <4>1
      <4> QED BY <4>1, <4>2, <4>3
    <3> QED BY <3>1, <3>2
  <2>4. Len(sent') = taken + Len(buffer) + Len(socket')
    BY <1>1, <1>2, <1>3, <2>1
  <2>5. taken' = taken /\ buffer' = buffer
    OBVIOUS
  <2> QED BY <2>2, <2>3, <2>4, <2>5 DEF Aligned
<1>6. \A i \in 1..taken : sent'[i] = sent[i]
  BY <1>1, <1>2
<1>7. ASSUME NEW c, NEW t, Known(sent, taken, c, t) PROVE Known(sent', taken', c, t)
  BY <1>1, <1>6, <1>7, KnownStays
<1>8. (pc # "over" => CacheIsKnown)'
  BY <1>7 DEF CacheIsKnown
<1>9. HandedIsKnown'
  BY <1>7 DEF HandedIsKnown
<1>10. ASSUME NEW i \in 1..Len(sent) PROVE SaysState(sent', i)
  <2>1. i \in Nat \ {0} /\ \A j \in 1..i : sent'[j] = sent[j]
    BY <1>1, <1>2
  <2> QED BY <2>1, SaysStateStays DEF FramesSayState
<1> QED BY <1>4, <1>5, <1>8, <1>9, <1>10

\* The bootstrap: every topic's snapshot, before anything else.
LEMMA ServeKeeps ==
    ASSUME ClientInvariant, Serve
    PROVE  ClientInvariant'
<1> DEFINE more == [i \in DOMAIN TopicList |-> Snapshot(TopicList[i])]
<1>0. \A t : /\ Snapshot(t).type = "snapshot" /\ Snapshot(t).topic = t
             /\ Snapshot(t).body = store[t] /\ Snapshot(t).state = store[t]
  BY DEF Snapshot
<1>1. TopicList \in Seq(STRING) /\ Len(TopicList) \in Nat /\ DOMAIN TopicList = 1..Len(TopicList)
  BY RuntimeClientAssumption, SeqFacts
<1>2. \A i \in DOMAIN TopicList : Snapshot(TopicList[i]) \in Frames
  <2>1. \A i \in DOMAIN TopicList : TopicList[i] \in Topics
    BY DEF Topics
  <2>2. \A t \in Topics : store[t] \in Contents
    BY DEF ClientInvariant, Shapes
  <2> QED BY <2>1, <2>2 DEF Snapshot, Frames
<1>3. more \in Seq(Frames) /\ Len(more) = Len(TopicList)
  BY <1>1, <1>2
<1>4. sent = <<>>
  BY DEF ClientInvariant, Served, Serve
<1>5. sent' = sent \o more /\ socket' = socket \o more
  BY DEF Serve, Write
<1>6. UNCHANGED <<buffer, taken, cache, handed, missed, pc, store>>
  BY DEF Serve, bufferVars, userVars, handedVars
<1> HIDE DEF more
<1>7. store' \in [Topics -> Contents]
  BY <1>6 DEF ClientInvariant, Shapes
<1>8. /\ Shapes' /\ (pc # "over" => Aligned)' /\ (pc # "over" => CacheIsKnown)'
      /\ HandedIsKnown'
  BY <1>3, <1>5, <1>6, <1>7, WrittenKeepsClient
<1>9. Len(sent') = Len(more) /\ \A i \in 1..Len(more) : sent'[i] = more[i]
  <2>1. sent \in Seq(Frames) /\ Len(sent) = 0
    BY <1>4 DEF ClientInvariant, Shapes
  <2>2. \A i \in 1..Len(more) : Len(sent) + i = i
    BY <2>1, <1>3
  <2> QED BY <1>1, <1>3, <1>5, <2>1, <2>2, ConcatFacts
<1>10. \A i \in 1..Len(sent') : sent'[i] = Snapshot(TopicList[i]) /\ i \in DOMAIN TopicList
  BY <1>1, <1>3, <1>9 DEF more
<1>11. FramesSayState'
  <2>1. \A i \in 1..Len(sent') : sent'[i] \in Frames
    BY <1>2, <1>10
  <2>2. \A i \in 1..Len(sent') : Replaces(sent'[i]) /\ sent'[i].body = sent'[i].state
    BY <1>0, <1>10 DEF Replaces
  <2> QED BY <2>1, <2>2 DEF FramesSayState, SaysState
<1>12. Served'
  <2>1. \A i \in 1..Len(sent') : sent'[i].topic = TopicList[i]
                                 /\ sent'[i].state = store[TopicList[i]]
    BY <1>0, <1>10
  <2>2. ASSUME NEW t \in Topics
        PROVE  \E j \in 1..Len(sent') : sent'[j].topic = t
    <3>1. PICK j \in DOMAIN TopicList : TopicList[j] = t
      BY DEF Topics
    <3> QED BY <1>1, <1>3, <1>9, <2>1, <3>1
  <2>3. \A t \in Topics : \A j \in 1..Len(sent') :
            Latest(sent', j, Len(sent'), t) => sent'[j].state = store'[t]
    BY <1>6, <2>1 DEF Latest
  <2>4. peer' = "served"
    BY DEF Serve
  <2>5. pc' # "subscribe"
    BY <1>6 DEF ClientInvariant, Served, Serve
  <2> QED BY <2>2, <2>3, <2>4, <2>5 DEF Served
<1> QED BY <1>8, <1>11, <1>12 DEF ClientInvariant

\* The refusal: an error frame, of which nothing is handed over.
LEMMA RejectKeeps ==
    ASSUME ClientInvariant, Reject
    PROVE  ClientInvariant'
<1>1. PICK topic \in Topics : Write(<<[Snapshot(topic) EXCEPT !.type = "error"]>>)
  BY DEF Reject
<1> DEFINE f == [Snapshot(topic) EXCEPT !.type = "error"]
<1>2. f \in Frames /\ f.type = "error" /\ f.reset = FALSE
  <2>1. store[topic] \in Contents
    BY DEF ClientInvariant, Shapes
  <2> QED BY <2>1 DEF Snapshot, Frames
<1>3. sent' = sent \o <<f>> /\ socket' = socket \o <<f>>
  BY <1>1 DEF Write
<1>4. sent = <<>> /\ peer' = "hangup" /\ pc # "subscribe"
  BY DEF ClientInvariant, Served, Reject
<1>5. UNCHANGED <<buffer, taken, cache, handed, missed, pc, store>>
  BY DEF Reject, bufferVars, userVars, handedVars
<1> HIDE DEF f
<1>6. store' \in [Topics -> Contents]
  BY <1>5 DEF ClientInvariant, Shapes
<1>7. <<f>> \in Seq(Frames) /\ Len(<<f>>) = 1 /\ <<f>>[1] = f
  BY <1>2
<1>8. /\ Shapes' /\ (pc # "over" => Aligned)' /\ (pc # "over" => CacheIsKnown)'
      /\ HandedIsKnown'
  BY <1>3, <1>5, <1>6, <1>7, WrittenKeepsClient
<1>9. Len(sent') = 1 /\ sent'[1] = f
  <2>1. sent \in Seq(Frames) /\ Len(sent) = 0
    BY <1>4 DEF ClientInvariant, Shapes
  <2> QED BY <1>3, <1>7, <2>1, ConcatFacts
<1>10. FramesSayState'
  BY <1>2, <1>9 DEF FramesSayState, SaysState, Replaces
<1>11. Served'
  BY <1>4, <1>5 DEF Served
<1> QED BY <1>8, <1>10, <1>11 DEF ClientInvariant

\* A topic's new state is announced by a frame that leads to it, whole or as an overlay.
LEMMA AnnounceKeeps ==
    ASSUME ClientInvariant, NEW topic \in Topics, NEW contents \in Contents,
           peer = "served", Announce(topic, contents),
           UNCHANGED <<peer, buffer, taken, cache, handed, missed, pc>>
    PROVE  ClientInvariant'
<1> DEFINE n == Len(sent)
           old == store[topic]
           changed == {k \in DOMAIN contents : k \in DOMAIN old => old[k] # contents[k]}
           overlay == topic \in OverlayTopics
           f == [type |-> "event", topic |-> topic, reset |-> ~overlay,
                 unset |-> IF overlay THEN DOMAIN old \ DOMAIN contents ELSE {},
                 body |-> IF overlay THEN [k \in changed |-> contents[k]] ELSE contents,
                 state |-> contents]
<1>1. old \in Contents /\ store \in [Topics -> Contents]
  BY DEF ClientInvariant, Shapes
<1>2. sent' = sent \o <<f>> /\ socket' = socket \o <<f>>
  BY DEF Announce, Write
<1>3. store' = [store EXCEPT ![topic] = contents]
  BY DEF Announce
<1>4. [k \in changed |-> contents[k]] \in Contents
  <2>1. DOMAIN contents \subseteq Keys /\ \A k \in DOMAIN contents : contents[k] \in Values
    BY ContentsFacts
  <2>2. changed \in SUBSET Keys /\ [k \in changed |-> contents[k]] \in [changed -> Values]
    BY <2>1
  <2> QED BY <2>2, ContentsFacts
<1>5. overlay => Merged(old, f) = contents
  BY <1>1, OverlayMerges DEF Merged
<1>6. f \in Frames
  <2>1. DOMAIN old \subseteq Keys
    BY <1>1, ContentsFacts
  <2> HIDE DEF changed
  <2>2. f.body \in Contents /\ f.unset \in SUBSET Keys
    BY <1>4, <2>1
  <2>3. f = [type |-> "event", topic |-> topic, reset |-> ~overlay, unset |-> f.unset,
             body |-> f.body, state |-> contents]
    OBVIOUS
  <2>4. (~overlay) \in BOOLEAN
    OBVIOUS
  <2> HIDE DEF f, old, overlay
  <2>5. \A reset \in BOOLEAN, unset \in SUBSET Keys, body \in Contents :
            [type |-> "event", topic |-> topic, reset |-> reset, unset |-> unset,
             body |-> body, state |-> contents] \in Frames
    BY DEF Frames
  <2> QED BY <2>2, <2>3, <2>4, <2>5
<1>7. /\ f.type = "event" /\ f.topic = topic /\ f.state = contents
      /\ ~overlay => f.reset /\ f.body = contents
      /\ overlay => ~f.reset
  OBVIOUS
<1> HIDE DEF f, old, changed
<1>8. <<f>> \in Seq(Frames) /\ Len(<<f>>) = 1 /\ <<f>>[1] = f
  BY <1>6
<1>9. store' \in [Topics -> Contents]
  BY <1>1, <1>3
<1>10. /\ Shapes' /\ (pc # "over" => Aligned)' /\ (pc # "over" => CacheIsKnown)'
       /\ HandedIsKnown' /\ \A i \in 1..Len(sent) : SaysState(sent', i)
  BY <1>2, <1>8, <1>9, WrittenKeepsClient
<1>11. /\ n \in Nat /\ Len(sent') = n + 1 /\ sent'[n + 1] = f
       /\ \A i \in 1..n : sent'[i] = sent[i]
  <2>1. sent \in Seq(Frames) /\ n \in Nat
    BY SeqFacts DEF ClientInvariant, Shapes
  <2> QED BY <1>2, <1>8, <2>1, ConcatFacts
<1> HIDE DEF n
<1>12. ASSUME NEW j \in 1..n, NEW t, Latest(sent', j, n, t)
       PROVE  Latest(sent, j, n, t)
  <2>1. \A k \in (j + 1)..n : k \in 1..n
    BY <1>11
  <2> QED BY <1>11, <1>12, <2>1 DEF Latest
<1>13. ASSUME NEW t \in Topics
       PROVE  /\ \E j \in 1..n : sent[j].topic = t
              /\ \A j \in 1..n : Latest(sent, j, n, t) => sent[j].state = store[t]
  BY DEF ClientInvariant, Served, n
<1>14. SaysState(sent', n + 1)
  <2>1. (n + 1) - 1 = n
    BY <1>11
  <2>2. CASE overlay
    <3>1. f.type # "error" /\ ~Replaces(f)
      BY <1>7, <2>2 DEF Replaces
    <3>2. PICK k \in 1..n : sent[k].topic = topic
      BY <1>13
    <3>3. \E i \in 1..n : sent'[i].topic = topic
      BY <1>11, <3>2
    <3>4. ASSUME NEW j \in 1..n, Latest(sent', j, n, topic)
          PROVE  Merged(sent'[j].state, f) = contents
      BY <1>5, <1>11, <1>12, <1>13, <2>2, <3>4 DEF old
    <3> QED BY <1>6, <1>7, <1>11, <2>1, <2>2, <3>1, <3>3, <3>4 DEF SaysState
  <2>3. CASE ~overlay
    BY <1>6, <1>7, <1>11, <2>3 DEF SaysState, Replaces
  <2> QED BY <2>2, <2>3
<1>15. FramesSayState'
  <2>1. \A i \in 1..(n + 1) : i \in 1..n \/ i = n + 1
    BY <1>11
  <2> QED BY <1>10, <1>11, <1>14, <2>1 DEF FramesSayState, n
<1>16. Served'
  <2>1. ASSUME NEW t \in Topics
        PROVE  \E j \in 1..(n + 1) : sent'[j].topic = t
    <3>1. PICK j \in 1..n : sent[j].topic = t
      BY <1>13
    <3> QED BY <1>11, <3>1
  <2>2. ASSUME NEW t \in Topics, NEW j \in 1..(n + 1), Latest(sent', j, n + 1, t)
        PROVE  sent'[j].state = store'[t]
    <3>1. CASE t = topic
      <4>1. j = n + 1
        <5>1. j \notin 1..n
          <6>1. j \in 1..n => n + 1 \in (j + 1)..(n + 1)
            BY <1>11
          <6> QED BY <1>7, <1>11, <2>2, <3>1, <6>1 DEF Latest
        <5> QED BY <1>11, <5>1
      <4> QED BY <1>1, <1>3, <1>7, <1>11, <3>1, <4>1
    <3>2. CASE t # topic
      <4>1. j # n + 1
        BY <1>7, <1>11, <2>2, <3>2 DEF Latest
      <4>2. j \in 1..n
        BY <1>11, <4>1
      <4>3. \A k \in (j + 1)..n : k \in (j + 1)..(n + 1)
        BY <1>11
      <4>4. Latest(sent', j, n, t)
        BY <2>2, <4>2, <4>3 DEF Latest
      <4> QED BY <1>1, <1>3, <1>11, <1>12, <1>13, <3>2, <4>2, <4>4
    <3> QED BY <3>1, <3>2
  <2>3. peer' = "served" /\ pc' # "subscribe"
    BY DEF ClientInvariant, Served
  <2> QED BY <1>11, <2>1, <2>2, <2>3 DEF Served
<1> QED BY <1>10, <1>15, <1>16 DEF ClientInvariant

-----------------------------------------------------------------------------
(* The library's steps *)

\* The subscription is served as before when neither its frames nor the topics change.
LEMMA ServedStays ==
    ASSUME Served, UNCHANGED <<sent, store>>,
           peer' = peer \/ peer' \in {"none", "hangup"},
           pc' = "subscribe" => pc = "subscribe" /\ (peer' = peer \/ peer' = "none")
    PROVE  Served'
  BY DEF Served

\* Steps that move neither frames nor contents.
LEMMA QuietKeeps ==
    ASSUME ClientInvariant, UNCHANGED <<sent, store, socket, buffer, cache, handed, taken, missed>>,
           pc = "over" => pc' = "over", Served'
    PROVE  ClientInvariant'
<1>1. Shapes'
  BY DEF ClientInvariant, Shapes
<1>2. (pc # "over" => Aligned)'
  BY DEF ClientInvariant, Aligned
<1>3. FramesSayState' /\ HandedIsKnown'
  BY DEF ClientInvariant, FramesSayState, HandedIsKnown
<1>4. (pc # "over" => CacheIsKnown)'
  BY DEF ClientInvariant, CacheIsKnown
<1> QED BY <1>1, <1>2, <1>3, <1>4 DEF ClientInvariant

\* The end of the client.
LEMMA CloseKeeps ==
    ASSUME ClientInvariant, Close, UNCHANGED <<sent, store, handed, taken, missed>>
    PROVE  ClientInvariant'
<1>1. pc' = "over" /\ peer' = "none"
  BY DEF Close
<1>2. Shapes'
  <2>1. buffer' \in Seq(Frames) /\ socket' \in Seq(Frames)
    BY DEF Close
  <2>2. cache' \in [Topics -> Contents]
    BY ContentsFacts DEF Close
  <2> QED BY <2>1, <2>2 DEF ClientInvariant, Shapes
<1>3. FramesSayState' /\ HandedIsKnown'
  BY DEF ClientInvariant, FramesSayState, HandedIsKnown
<1>4. Served'
  BY <1>1, ServedStays DEF ClientInvariant
<1> QED BY <1>1, <1>2, <1>3, <1>4 DEF ClientInvariant

\* A frame is handed over: what its topic is known to be, for all of them.
LEMMA HandOverKeeps ==
    ASSUME ClientInvariant, pc # "over", NEW frame, NEW contents \in Contents,
           taken + 1 \in 1..Len(sent), frame = sent[taken + 1],
           HandOver(frame, contents), sent' = sent,
           frame.topic \notin OverlayTopics => contents = frame.state
    PROVE  HandedIsKnown' /\ taken' = taken + 1 /\ handed' \in [Topics -> Contents]
<1>1. handed' = [handed EXCEPT ![frame.topic] = contents] /\ taken' = taken + 1
  BY DEF HandOver
<1>2. taken \in Nat /\ handed \in [Topics -> Contents] /\ sent \in Seq(Frames)
  BY DEF ClientInvariant, Shapes
<1>3. frame \in Frames
  BY <1>2, SeqFacts
<1>4. ASSUME NEW t \in Topics \ OverlayTopics
      PROVE  Known(sent, taken + 1, handed'[t], t)
  <2>1. CASE t = frame.topic
    BY <1>1, <1>2, <2>1, KnownOfThis
  <2>2. CASE t # frame.topic
    <3>1. Known(sent, taken, handed[t], t)
      BY DEF ClientInvariant, HandedIsKnown
    <3>2. handed'[t] = handed[t] /\ sent[taken + 1].topic # t
      BY <1>1, <1>2, <2>2
    <3> QED BY <1>2, <3>1, <3>2, KnownOfOther
  <2> QED BY <2>1, <2>2
<1>5. HandedIsKnown'
  BY <1>1, <1>4 DEF HandedIsKnown
<1>6. handed' \in [Topics -> Contents]
  BY <1>1, <1>2
<1> QED BY <1>1, <1>5, <1>6

\* A frame from the buffer: the cache misses it.
LEMMA ReadBufferedKeeps ==
    ASSUME ClientInvariant, ReadBuffered
    PROVE  ClientInvariant'
<1>1. pc = "drain" /\ buffer # <<>> /\ UNCHANGED <<store, sent>>
  BY DEF ReadBuffered
<1>2. CASE Head(buffer).type = "error"
  BY <1>1, <1>2, CloseKeeps DEF ReadBuffered
<1>3. CASE Head(buffer).type # "error"
  <2> DEFINE frame == Head(buffer)
  <2>1. /\ buffer' = Tail(buffer) /\ HandOver(frame, frame.body)
        /\ missed' = missed \cup {frame.topic}
        /\ UNCHANGED <<pc, peer, socket, cache>>
    BY <1>3 DEF ReadBuffered
  <2>2. /\ sent \in Seq(Frames) /\ buffer \in Seq(Frames) /\ socket \in Seq(Frames)
        /\ Len(sent) \in Nat /\ Len(buffer) \in Nat /\ Len(socket) \in Nat /\ taken \in Nat
    BY SeqFacts DEF ClientInvariant, Shapes
  <2>3. /\ frame = buffer[1] /\ Tail(buffer) \in Seq(Frames)
        /\ Len(Tail(buffer)) = Len(buffer) - 1 /\ Len(buffer) >= 1
        /\ \A i \in 1..(Len(buffer) - 1) : Tail(buffer)[i] = buffer[i + 1]
    BY <1>1, <2>2, TailFacts
  <2>4. Aligned
    BY <1>1 DEF ClientInvariant
  <2>5. taken + 1 \in 1..Len(sent) /\ frame = sent[taken + 1]
    BY <2>2, <2>3, <2>4 DEF Aligned
  <2>6. frame \in Frames
    BY <2>2, <2>5, SeqFacts
  <2> HIDE DEF frame
  <2>7. SaysState(sent, taken + 1)
    BY <2>5 DEF ClientInvariant, FramesSayState
  <2>8. frame.topic \notin OverlayTopics => frame.body = frame.state
    BY <1>3, <2>5, <2>7 DEF SaysState, frame
  <2>9. frame.body \in Contents /\ frame.topic \in Topics
    BY <2>6 DEF Frames
  <2>10. HandedIsKnown' /\ taken' = taken + 1 /\ handed' \in [Topics -> Contents]
    BY <1>1, <2>1, <2>5, <2>8, <2>9, HandOverKeeps
  <2>11. Shapes'
    BY <1>1, <2>1, <2>2, <2>3, <2>5, <2>9, <2>10 DEF ClientInvariant, Shapes
  <2>12. Aligned'
    <3>1. Len(sent) = taken' + Len(buffer') + Len(socket)
      BY <2>1, <2>2, <2>3, <2>4, <2>10 DEF Aligned
    <3>2. ASSUME NEW i \in 1..Len(buffer')
          PROVE  buffer'[i] = sent[taken' + i]
      <4> DEFINE length == Len(buffer)
      <4>0. i \in 1..(length - 1) /\ length \in Nat /\ taken \in Nat /\ taken' = taken + 1
        BY <2>1, <2>2, <2>3, <2>10
      <4> HIDE DEF length
      <4>1. i \in 1..(length - 1) /\ i + 1 \in 1..length /\ taken + (i + 1) = taken' + i
        BY <4>0
      <4> USE DEF length
      <4>2. buffer'[i] = buffer[i + 1] /\ buffer[i + 1] = sent[taken + (i + 1)]
        BY <2>1, <2>3, <2>4, <4>1 DEF Aligned
      <4> QED BY <4>1, <4>2
    <3>3. ASSUME NEW i \in 1..Len(socket)
          PROVE  socket[i] = sent[taken' + Len(buffer') + i]
      <4>1. taken' + Len(buffer') + i = taken + Len(buffer) + i
        BY <2>1, <2>2, <2>3, <2>10
      <4> QED BY <2>4, <4>1 DEF Aligned
    <3> QED BY <1>1, <2>1, <3>1, <3>2, <3>3 DEF Aligned
  <2>13. CacheIsKnown'
    <3>1. ASSUME NEW t \in Topics \ missed'
          PROVE  Known(sent, taken + 1, cache[t], t)
      <4>1. t \notin missed /\ t # frame.topic
        BY <2>1
      <4>2. Known(sent, taken, cache[t], t)
        BY <1>1, <4>1 DEF ClientInvariant, CacheIsKnown
      <4> QED BY <2>2, <2>5, <4>1, <4>2, KnownOfOther
    <3> QED BY <1>1, <2>1, <2>10, <3>1 DEF CacheIsKnown
  <2>14. FramesSayState' /\ Served'
    BY <1>1, <2>1, ServedStays DEF ClientInvariant, FramesSayState
  <2> QED BY <2>10, <2>11, <2>12, <2>13, <2>14 DEF ClientInvariant
<1> QED BY <1>2, <1>3

\* A frame from the socket: merged into what is known of its topic, it is the topic.
LEMMA MergedIsState ==
    ASSUME ClientInvariant, pc # "over", taken + 1 \in 1..Len(sent),
           NEW frame \in Frames, frame = sent[taken + 1], frame.type # "error"
    PROVE  /\ Replaces(frame) \/ frame.topic \notin OverlayTopics
                  => \A old : Merged(old, frame) = frame.state
           /\ frame.topic \notin missed => Merged(cache[frame.topic], frame) = frame.state
<1>1. taken \in Nat /\ (taken + 1) - 1 = taken
  BY DEF ClientInvariant, Shapes
<1>2. SaysState(sent, taken + 1)
  BY DEF ClientInvariant, FramesSayState
<1>3. Replaces(frame) => \A old : Merged(old, frame) = frame.state
  BY <1>2, MergedReplaces DEF SaysState
<1>4. ~Replaces(frame) =>
          /\ frame.topic \in OverlayTopics
          /\ \E k \in 1..taken : sent[k].topic = frame.topic
          /\ \A j \in 1..taken : Latest(sent, j, taken, frame.topic)
                                    => Merged(sent[j].state, frame) = frame.state
  BY <1>1, <1>2 DEF SaysState
<1>5. ASSUME frame.topic \notin missed, ~Replaces(frame)
      PROVE  Merged(cache[frame.topic], frame) = frame.state
  <2>1. frame.topic \in Topics
    BY DEF Frames
  <2>2. Known(sent, taken, cache[frame.topic], frame.topic)
    BY <1>5, <2>1 DEF ClientInvariant, CacheIsKnown
  <2>3. PICK j \in 1..taken : Latest(sent, j, taken, frame.topic)
                              /\ cache[frame.topic] = sent[j].state
    BY <1>4, <1>5, <2>2 DEF Known
  <2> QED BY <1>4, <1>5, <2>3
<1> QED BY <1>3, <1>4, <1>5

\* A read of the socket: its first frame is merged and handed over, the others are buffered.
LEMMA ReadFrameKeeps ==
    ASSUME ClientInvariant, ReadFrame
    PROVE  ClientInvariant'
<1>1. pc = "drain" /\ buffer = <<>> /\ UNCHANGED <<store, sent>>
  BY DEF ReadFrame
<1>2. PICK n \in 1..MaxPerRead :
        /\ n <= Len(socket)
        /\ IF Head(Received(n)).type = "error"
           THEN Close /\ UNCHANGED <<handed, taken, missed>>
           ELSE /\ buffer' = Tail(Received(n))
                /\ socket' = SubSeq(socket, n + 1, Len(socket))
                /\ MergeAndHandOver(Head(Received(n)))
                /\ UNCHANGED <<pc, peer>>
  BY DEF ReadFrame
<1>3. CASE Head(Received(n)).type = "error"
  BY <1>1, <1>2, <1>3, CloseKeeps
<1>4. CASE Head(Received(n)).type # "error"
  <2> DEFINE frame == Head(Received(n))
             contents == Merged(cache[frame.topic], frame)
  <2>1. /\ sent \in Seq(Frames) /\ buffer \in Seq(Frames) /\ socket \in Seq(Frames)
        /\ Len(sent) \in Nat /\ Len(socket) \in Nat /\ taken \in Nat /\ Len(buffer) = 0
        /\ n \in Nat /\ n >= 1 /\ n <= Len(socket)
    BY <1>1, <1>2, SeqFacts, RuntimeClientAssumption DEF ClientInvariant, Shapes
  <2>2. /\ SubSeq(socket, 1, n) \in Seq(Frames) /\ Len(SubSeq(socket, 1, n)) = n
        /\ \A i \in 1..n : SubSeq(socket, 1, n)[i] = socket[i]
    BY <2>1, FirstFacts
  <2>3. /\ Received(n) \in Seq(Frames) /\ Len(Received(n)) = n
        /\ \A i \in 1..n : Received(n)[i] = socket[i]
    <3>1. /\ Received(n) \in Seq(Frames) /\ Len(Received(n)) = 0 + n
          /\ \A i \in 1..n : Received(n)[0 + i] = SubSeq(socket, 1, n)[i]
      BY <2>1, <2>2, ConcatFacts DEF Received
    <3>2. \A i \in 1..n : 0 + i = i
      OBVIOUS
    <3> QED BY <2>1, <2>2, <3>1, <3>2
  <2>4. /\ frame = socket[1] /\ Tail(Received(n)) \in Seq(Frames)
        /\ Len(Tail(Received(n))) = n - 1
        /\ \A i \in 1..(n - 1) : Tail(Received(n))[i] = socket[i + 1]
    <3>1. Received(n) # <<>>
      BY <2>1, <2>3
    <3>2. \A i \in 1..(n - 1) : i + 1 \in 1..n
      BY <2>1
    <3> QED BY <2>1, <2>3, <3>1, <3>2, TailFacts
  <2>5. /\ SubSeq(socket, n + 1, Len(socket)) \in Seq(Frames)
        /\ Len(SubSeq(socket, n + 1, Len(socket))) = Len(socket) - n
        /\ \A i \in 1..(Len(socket) - n) : SubSeq(socket, n + 1, Len(socket))[i] = socket[n + i]
    BY <2>1, RestFacts
  <2>6. /\ Len(sent) = taken + Len(socket)
        /\ \A i \in 1..Len(socket) : socket[i] = sent[taken + i]
    <3>1. Aligned
      BY <1>1 DEF ClientInvariant
    <3>2. taken + Len(buffer) = taken
      BY <2>1
    <3> QED BY <2>1, <3>1, <3>2 DEF Aligned
  <2>7. taken + 1 \in 1..Len(sent) /\ frame = sent[taken + 1]
    BY <2>1, <2>4, <2>6
  <2>8. /\ buffer' = Tail(Received(n)) /\ socket' = SubSeq(socket, n + 1, Len(socket))
        /\ MergeAndHandOver(frame) /\ UNCHANGED <<pc, peer>>
    BY <1>2, <1>4
  <2>9. frame \in Frames /\ frame.type # "error"
    BY <1>4, <2>1, <2>7, SeqFacts
  <2> HIDE DEF frame
  <2>10. frame.topic \in Topics /\ cache \in [Topics -> Contents]
    BY <2>9 DEF Frames, ClientInvariant, Shapes
  <2>11. /\ cache' = [cache EXCEPT ![frame.topic] = contents]
         /\ HandOver(frame, contents)
         /\ missed' = IF Replaces(frame) THEN missed \ {frame.topic} ELSE missed
    BY <2>8, <2>10 DEF MergeAndHandOver
  <2>12. contents \in Contents
    BY <2>9, <2>10, MergedIsContents
  <2>13. /\ Replaces(frame) \/ frame.topic \notin OverlayTopics => contents = frame.state
         /\ frame.topic \notin missed => contents = frame.state
    BY <1>1, <2>7, <2>9, MergedIsState
  <2> HIDE DEF contents
  <2>14. HandedIsKnown' /\ taken' = taken + 1 /\ handed' \in [Topics -> Contents]
    BY <1>1, <2>7, <2>11, <2>12, <2>13, HandOverKeeps
  <2>15. Shapes'
    <3>1. cache' \in [Topics -> Contents] /\ missed' \subseteq Topics
      BY <2>10, <2>11, <2>12 DEF ClientInvariant, Shapes
    <3>2. taken' \in Nat /\ taken' <= Len(sent)
      BY <2>1, <2>7, <2>14
    <3> QED BY <1>1, <2>1, <2>4, <2>5, <2>8, <2>14, <3>1, <3>2 DEF ClientInvariant, Shapes
  <2>16. Aligned'
    <3> DEFINE length == Len(socket)
    <3>0. length \in Nat /\ Len(buffer') = n - 1 /\ Len(socket') = length - n /\ n <= length
          /\ taken' = taken + 1 /\ taken \in Nat /\ n \in Nat /\ n >= 1
          /\ Len(sent) = taken + length
      BY <2>1, <2>4, <2>5, <2>6, <2>8, <2>14
    <3>1. Len(sent) = taken' + Len(buffer') + Len(socket')
      <4> HIDE DEF length
      <4> QED BY <3>0
    <3>2. ASSUME NEW i \in 1..(n - 1)
          PROVE  buffer'[i] = sent[taken' + i]
      <4>1. i + 1 \in 1..length /\ taken + (i + 1) = taken' + i
        <5> HIDE DEF length
        <5> QED BY <3>0
      <4> QED BY <2>4, <2>6, <2>8, <4>1
    <3>3. ASSUME NEW i \in 1..(length - n)
          PROVE  socket'[i] = sent[taken' + Len(buffer') + i]
      <4>1. n + i \in 1..length /\ taken + (n + i) = taken' + Len(buffer') + i
        <5> HIDE DEF length
        <5> QED BY <3>0
      <4> QED BY <2>5, <2>6, <2>8, <4>1
    <3> QED BY <1>1, <3>0, <3>1, <3>2, <3>3 DEF Aligned
  <2>17. CacheIsKnown'
    <3>1. ASSUME NEW t \in Topics \ missed'
          PROVE  Known(sent, taken + 1, cache'[t], t)
      <4>1. CASE t = frame.topic
        <5>1. contents = frame.state
          BY <2>11, <2>13, <3>1, <4>1
        <5> QED BY <2>1, <2>7, <2>10, <2>11, <4>1, <5>1, KnownOfThis
      <4>2. CASE t # frame.topic
        <5>1. t \notin missed /\ cache'[t] = cache[t]
          BY <2>10, <2>11, <3>1, <4>2
        <5>2. Known(sent, taken, cache[t], t)
          BY <1>1, <3>1, <5>1 DEF ClientInvariant, CacheIsKnown
        <5> QED BY <2>1, <2>7, <4>2, <5>1, <5>2, KnownOfOther
      <4> QED BY <4>1, <4>2
    <3> QED BY <1>1, <2>14, <3>1 DEF CacheIsKnown
  <2>18. FramesSayState' /\ Served'
    BY <1>1, <2>8, ServedStays DEF ClientInvariant, FramesSayState
  <2> QED BY <2>14, <2>15, <2>16, <2>17, <2>18 DEF ClientInvariant
<1> QED BY <1>3, <1>4

-----------------------------------------------------------------------------
(* The specification *)

\* Nothing is written and nothing known at the start.
LEMMA InitKeeps ==
    ASSUME Init
    PROVE  ClientInvariant
<1>1. Nothing \in Contents /\ store \in [Topics -> Contents]
  BY ContentsFacts, RuntimeClientAssumption DEF Init
<1>2. sent = <<>> /\ buffer = <<>> /\ socket = <<>> /\ taken = 0 /\ Len(sent) = 0
  BY DEF Init
<1>3. cache = [t \in Topics |-> Nothing] /\ handed = [t \in Topics |-> Nothing]
  BY DEF Init
<1>4. Shapes
  BY <1>1, <1>2, <1>3 DEF Shapes, Init
<1>5. Aligned /\ FramesSayState
  BY <1>2 DEF Aligned, FramesSayState
<1>6. Served
  BY <1>2 DEF Served, Init
<1>7. \A t \in Topics : Known(sent, taken, Nothing, t)
  BY <1>2 DEF Known
<1>8. CacheIsKnown /\ HandedIsKnown
  BY <1>3, <1>7 DEF CacheIsKnown, HandedIsKnown
<1> QED BY <1>4, <1>5, <1>6, <1>8 DEF ClientInvariant

\* Every step of the daemon, the library and its user.
LEMMA NextKeeps ==
    ASSUME ClientInvariant, [Next]_vars
    PROVE  ClientInvariant'
<1> USE DEF daemonVars, bufferVars, userVars, handedVars
<1>0. Served
  BY DEF ClientInvariant
<1>1. CASE Serve
  BY <1>1, ServeKeeps
<1>2. CASE Reject
  BY <1>2, RejectKeeps
<1>3. CASE TopicChanges
  <2>1. PICK t \in Topics, contents \in Contents : Announce(t, contents)
    BY <1>3 DEF TopicChanges
  <2> QED BY <1>3, <2>1, AnnounceKeeps DEF TopicChanges
<1>4. CASE Execute
  <2>1. UNCHANGED <<peer, buffer, taken, cache, handed, missed, pc>>
    BY <1>4 DEF Execute
  <2>2. CASE UNCHANGED <<store, socket, sent>>
    BY <1>0, <2>1, <2>2, ServedStays, QuietKeeps
  <2>3. CASE \E t \in Topics : \E contents \in Contents : peer = "served" /\ Announce(t, contents)
    BY <2>1, <2>3, AnnounceKeeps
  <2> QED BY <1>4, <2>2, <2>3 DEF Execute
<1>5. CASE Answer
  BY <1>0, <1>5, ServedStays, QuietKeeps DEF Answer
<1>6. CASE DaemonStops
  <2>1. /\ UNCHANGED <<sent, store, socket, buffer, cache, handed, taken, missed, pc>>
        /\ peer' \in {"none", "hangup"} /\ (peer = "none" => peer' = "none")
    BY <1>6 DEF DaemonStops
  <2>2. Served'
    BY <1>0, <2>1 DEF Served
  <2> QED BY <2>1, <2>2, QuietKeeps
<1>7. CASE Subscribe
  <2>1. /\ UNCHANGED <<sent, store, socket, buffer, cache, handed, taken, missed>>
        /\ pc = "subscribe" /\ pc' # "subscribe"
        /\ peer' = "asked" \/ peer' = peer
    BY <1>7 DEF Subscribe
  <2>2. Served'
    BY <1>0, <2>1 DEF Served
  <2> QED BY <2>1, <2>2, QuietKeeps
<1>8. CASE PollReturns
  BY <1>0, <1>8, ServedStays, QuietKeeps DEF PollReturns
<1>9. CASE ReadBuffered
  BY <1>9, ReadBufferedKeeps
<1>10. CASE ReadFrame
  BY <1>10, ReadFrameKeeps
<1>11. CASE ReadPart
  BY <1>0, <1>11, ServedStays, QuietKeeps DEF ReadPart
<1>12. CASE ReadNothing
  <2>1. CASE peer = "hangup"
    BY <1>12, <2>1, CloseKeeps DEF ReadNothing
  <2>2. CASE peer # "hangup"
    BY <1>0, <1>12, <2>2, ServedStays, QuietKeeps DEF ReadNothing
  <2> QED BY <2>1, <2>2
<1>13. CASE Return
  BY <1>0, <1>13, ServedStays, QuietKeeps DEF Return
<1>14. CASE QueryTopic \/ CtlWorkspaceSwitch
  <2>1. PICK kind \in {"query", "ctl"} : Ask(kind)
    BY <1>14 DEF QueryTopic, CtlWorkspaceSwitch
  <2>2. /\ UNCHANGED <<sent, store, socket, buffer, cache, handed, taken, missed, peer>>
        /\ pc = "poll" /\ pc' \in {"poll", "call"}
    BY <2>1 DEF Ask
  <2> QED BY <1>0, <2>2, ServedStays, QuietKeeps
<1>15. CASE UNCHANGED vars
  BY <1>0, <1>15, ServedStays, QuietKeeps DEF vars
<1> QED BY <1>1, <1>2, <1>3, <1>4, <1>5, <1>6, <1>7, <1>8, <1>9, <1>10, <1>11, <1>12, <1>13,
           <1>14, <1>15 DEF Next, Client

\* The invariant holds in every state the client can be in.
THEOREM InvariantHolds == Spec => []ClientInvariant
<1>1. Init => ClientInvariant
  BY InitKeeps
<1>2. ClientInvariant /\ [Next]_vars => ClientInvariant'
  BY NextKeeps
<1> QED BY <1>1, <1>2, PTL DEF Spec

\* No frame is lost, repeated or moved, however the reads of nscde_runtime_subscription_read
\* cut the stream.
THEOREM FramesStayInOrder == Spec => []FramesInOrder
<1>1. ASSUME ClientInvariant PROVE FramesInOrder
  <2> SUFFICES ASSUME pc # "over"
               PROVE  sent = SubSeq(sent, 1, taken) \o buffer \o socket
    BY DEF FramesInOrder
  <2> DEFINE first == SubSeq(sent, 1, taken)
             middle == first \o buffer
  <2>1. /\ sent \in Seq(Frames) /\ buffer \in Seq(Frames) /\ socket \in Seq(Frames)
        /\ Len(sent) \in Nat /\ Len(buffer) \in Nat /\ Len(socket) \in Nat
        /\ taken \in 0..Len(sent)
    BY <1>1, SeqFacts DEF ClientInvariant, Shapes
  <2>2. /\ first \in Seq(Frames) /\ Len(first) = taken /\ \A i \in 1..taken : first[i] = sent[i]
    BY <2>1, FirstFacts
  <2> HIDE DEF first
  <2>3. /\ middle \in Seq(Frames) /\ Len(middle) = taken + Len(buffer)
        /\ \A i \in 1..taken : middle[i] = first[i]
        /\ \A i \in 1..Len(buffer) : middle[taken + i] = buffer[i]
    <3>0. first \in Seq(Frames) /\ buffer \in Seq(Frames)
      BY <2>1, <2>2
    <3>1. /\ middle \in Seq(Frames) /\ Len(middle) = Len(first) + Len(buffer)
          /\ \A i \in 1..Len(first) : middle[i] = first[i]
          /\ \A i \in 1..Len(buffer) : middle[Len(first) + i] = buffer[i]
      BY <3>0, ConcatFacts
    <3>2. Len(first) = taken
      BY <2>2
    <3> HIDE DEF middle
    <3> QED BY <3>1, <3>2
  <2> HIDE DEF middle
  <2>4. /\ middle \o socket \in Seq(Frames)
        /\ Len(middle \o socket) = taken + Len(buffer) + Len(socket)
        /\ \A i \in 1..(taken + Len(buffer)) : (middle \o socket)[i] = middle[i]
        /\ \A i \in 1..Len(socket) : (middle \o socket)[taken + Len(buffer) + i] = socket[i]
    <3> DEFINE all == middle \o socket
    <3>0. middle \in Seq(Frames) /\ socket \in Seq(Frames)
      BY <2>1, <2>3
    <3>1. /\ all \in Seq(Frames) /\ Len(all) = Len(middle) + Len(socket)
          /\ \A i \in 1..Len(middle) : all[i] = middle[i]
          /\ \A i \in 1..Len(socket) : all[Len(middle) + i] = socket[i]
      BY <3>0, ConcatFacts
    <3> HIDE DEF all
    <3>2. /\ all \in Seq(Frames) /\ Len(all) = taken + Len(buffer) + Len(socket)
          /\ \A i \in 1..(taken + Len(buffer)) : all[i] = middle[i]
          /\ \A i \in 1..Len(socket) : all[taken + Len(buffer) + i] = socket[i]
      <4>1. Len(middle) = taken + Len(buffer)
        BY <2>3
      <4> QED BY <3>1, <4>1
    <3> QED BY <3>2 DEF all
  <2>5. Aligned
    BY <1>1 DEF ClientInvariant
  <2>6. ASSUME NEW i \in 1..Len(sent)
        PROVE  sent[i] = (middle \o socket)[i]
    <3> DEFINE b == Len(buffer)
               l == Len(socket)
    <3>0. /\ taken \in Nat /\ b \in Nat /\ l \in Nat /\ Len(sent) = taken + b + l
      BY <2>1, <2>5 DEF Aligned
    <3>1. CASE i \in 1..taken
      <4>1. i \in 1..(taken + Len(buffer))
        BY <2>1, <3>1
      <4> QED BY <2>2, <2>3, <2>4, <3>1, <4>1
    <3>2. CASE i - taken \in 1..b
      <4>1. taken + (i - taken) = i /\ i \in 1..(taken + b)
        <5> HIDE DEF b, l
        <5> QED BY <3>0, <3>2
      <4>2. middle[taken + (i - taken)] = buffer[i - taken]
            /\ buffer[i - taken] = sent[taken + (i - taken)]
        BY <2>3, <2>5, <3>2 DEF Aligned
      <4> QED BY <2>4, <4>1, <4>2
    <3>3. CASE i - (taken + b) \in 1..l
      <4>1. taken + b + (i - (taken + b)) = i
        <5> HIDE DEF b, l
        <5> QED BY <3>0, <3>3
      <4>2. (middle \o socket)[taken + b + (i - (taken + b))] = socket[i - (taken + b)]
            /\ socket[i - (taken + b)] = sent[taken + b + (i - (taken + b))]
        BY <2>4, <2>5, <3>3 DEF Aligned
      <4> QED BY <4>1, <4>2
    <3>4. i \in 1..taken \/ i - taken \in 1..b \/ i - (taken + b) \in 1..l
      <4> HIDE DEF b, l
      <4> QED BY <2>6, <3>0
    <3> QED BY <3>1, <3>2, <3>3, <3>4
  <2>7. Len(sent) = Len(middle \o socket)
    BY <2>1, <2>4, <2>5 DEF Aligned
  <2>8. sent = middle \o socket
    BY <2>1, <2>4, <2>6, <2>7, SameSequence
  <2> QED BY <2>8 DEF middle, first
<1> QED BY <1>1, InvariantHolds, PTL

\* A topic's cache is the daemon's topic, overlays and UNSET included, for every topic
\* without a frame that went past it: merge_topic_cache undoes no change and loses none.
THEOREM CacheKeepsContract == Spec => []CacheContract
<1>1. ASSUME ClientInvariant PROVE CacheContract
  <2> SUFFICES ASSUME pc # "over", NEW t \in Topics \ missed
               PROVE  cache[t] = HandedState(t)
    BY DEF CacheContract
  <2>1. Known(sent, taken, cache[t], t) /\ taken \in Nat
    BY <1>1 DEF ClientInvariant, CacheIsKnown, Shapes
  <2> QED BY <2>1, KnownIsHandedState
<1> QED BY <1>1, InvariantHolds, PTL

\* What the C daemons are handed is the daemon's topic, whether it came raw from the
\* buffer or through the cache.
THEOREM HandedStaysState == Spec => []HandedIsState
<1>1. ASSUME ClientInvariant PROVE HandedIsState
  <2> SUFFICES ASSUME NEW t \in Topics \ OverlayTopics
               PROVE  handed[t] = HandedState(t)
    BY DEF HandedIsState
  <2>1. Known(sent, taken, handed[t], t) /\ taken \in Nat
    BY <1>1 DEF ClientInvariant, HandedIsKnown, Shapes
  <2> QED BY <2>1, KnownIsHandedState
<1> QED BY <1>1, InvariantHolds, PTL

-----------------------------------------------------------------------------
(* Types, and the end of the client *)

\* Only a refusal writes an error frame, a client at its end waits for nothing, and one
\* that drains has taken everything.
EndInvariant ==
    /\ ~rejected => \A i \in 1..Len(sent) : sent[i].type # "error"
    /\ pc = "over" => peer \in {"none", "hangup"}
    /\ DrainedAtEnd

\* A call goes from stage to stage, and a caller waits for it without a result.
LEMMA CallsKeepTypes ==
    ASSUME CallTypeOK, [Next]_vars
    PROVE  CallTypeOK'
<1> USE RuntimeClientAssumption DEF CallTypeOK
<1> DEFINE Stages == {"none", "asked", "executed", "answered", "lost", "cut"}
           Ends == {"none", "failed", "cut", "whole"}
<1>1. ASSUME UNCHANGED <<call, calls>>, pc' = "call" => pc = "call"
      PROVE  CallTypeOK'
  BY <1>1
<1>2. ASSUME NEW stage \in Stages \ {"none"}, call' = [call EXCEPT !.stage = stage],
             UNCHANGED <<pc, calls>>
      PROVE  CallTypeOK'
  BY <1>2
<1>3. CASE Execute
  BY <1>2, <1>3 DEF Execute, userVars
<1>4. CASE Answer
  BY <1>2, <1>4 DEF Answer, userVars
<1>5. CASE DaemonStops
  <2>1. CASE call.stage = "asked"
    BY <1>2, <1>5, <2>1 DEF DaemonStops, userVars
  <2>2. CASE call.stage = "executed"
    BY <1>2, <1>5, <2>2 DEF DaemonStops, userVars
  <2>3. CASE call.stage \notin {"asked", "executed"}
    <3>1. call' = [call EXCEPT !.stage = call.stage] /\ UNCHANGED <<pc, calls>>
      BY <1>5, <2>3 DEF DaemonStops, userVars
    <3>2. call' = call
      BY <3>1
    <3> QED BY <1>1, <3>1, <3>2
  <2> QED BY <2>1, <2>2, <2>3
<1>6. CASE Return
  <2>1. PICK result \in Results[call.stage] : call' = [call EXCEPT !.result = result]
    BY <1>6 DEF Return
  <2>2. call.stage \in {"answered", "lost", "cut"}
    BY <1>6 DEF Return, Results
  <2>3. result \in Ends
    BY <2>1, <2>2 DEF Results
  <2>4. pc' = "poll" /\ calls' = calls
    BY <1>6 DEF Return
  <2> QED BY <2>1, <2>3, <2>4
<1>7. CASE QueryTopic \/ CtlWorkspaceSwitch
  <2>1. PICK kind \in {"query", "ctl"} : Ask(kind)
    BY <1>7 DEF QueryTopic, CtlWorkspaceSwitch
  <2> QED BY <2>1 DEF Ask
<1>8. CASE \/ Serve \/ Reject \/ TopicChanges \/ Subscribe \/ PollReturns \/ ReadBuffered
           \/ ReadFrame \/ ReadPart \/ ReadNothing \/ UNCHANGED vars
  <2>1. UNCHANGED <<call, calls>> /\ (pc' = "call" => pc = "call")
    BY <1>8 DEF Serve, Reject, TopicChanges, Subscribe, PollReturns, ReadBuffered, ReadFrame,
                ReadPart, ReadNothing, Close, vars, userVars
  <2> QED BY <1>1, <2>1
<1> QED BY <1>3, <1>4, <1>5, <1>6, <1>7, <1>8 DEF Next, Client

\* What Shapes says, and the rest of StreamTypeOK step by step.
LEMMA NextKeepsTypes ==
    ASSUME ClientInvariant', TypeOK, [Next]_vars
    PROVE  TypeOK'
<1> USE DEF userVars, bufferVars, daemonVars
<1>1. CallTypeOK'
  BY CallsKeepTypes DEF TypeOK
<1>2. /\ (sent \in Seq(Frames))' /\ (buffer \in Seq(Frames))' /\ (socket \in Seq(Frames))'
      /\ (store \in [Topics -> Contents])' /\ (cache \in [Topics -> Contents])'
      /\ (handed \in [Topics -> Contents])' /\ (missed \subseteq Topics)'
      /\ (taken \in 0..Len(sent))'
  <2>1. Shapes'
    BY DEF ClientInvariant
  <2>2. Len(sent)' \in Nat
    BY <2>1 DEF Shapes
  <2> QED BY <2>1, <2>2 DEF Shapes
<1>3. up' \in BOOLEAN /\ drainsOnError' \in BOOLEAN /\ rejected' \in BOOLEAN
  BY DEF TypeOK, StreamTypeOK, Next, Client, Serve, Reject, TopicChanges, Execute, Answer,
         DaemonStops, Subscribe, PollReturns, ReadBuffered, ReadFrame, ReadPart, ReadNothing,
         Return, QueryTopic, CtlWorkspaceSwitch, Ask, vars
<1>4. peer' \in {"none", "asked", "served", "hangup"}
  BY DEF TypeOK, StreamTypeOK, Next, Client, Serve, Reject, TopicChanges, Execute, Answer,
         DaemonStops, Subscribe, PollReturns, ReadBuffered, ReadFrame, ReadPart, ReadNothing,
         Return, QueryTopic, CtlWorkspaceSwitch, Ask, Close, vars
<1>5. /\ partial' \in BOOLEAN
      /\ pc' \in {"subscribe", "poll", "drain", "call", "over"}
      /\ pc' # "drain" => buffer' = <<>>
  BY DEF TypeOK, StreamTypeOK, Next, Client, Serve, Reject, TopicChanges, Execute, Answer,
         DaemonStops, Subscribe, PollReturns, ReadBuffered, ReadFrame, ReadPart, ReadNothing,
         Return, QueryTopic, CtlWorkspaceSwitch, Ask, Close, vars
<1>6. StreamTypeOK'
  BY <1>2, <1>3, <1>4, <1>5 DEF StreamTypeOK
<1> QED BY <1>1, <1>5, <1>6 DEF TypeOK

\* Frames that are no errors are added to frames that are no errors.
LEMMA NoErrorsAdded ==
    ASSUME NEW q \in Seq(Frames), NEW r \in Seq(Frames),
           \A i \in 1..Len(q) : q[i].type # "error", \A i \in 1..Len(r) : r[i].type # "error"
    PROVE  \A i \in 1..Len(q \o r) : (q \o r)[i].type # "error"
<1>1. /\ Len(q) \in Nat /\ Len(r) \in Nat /\ Len(q \o r) = Len(q) + Len(r)
      /\ \A i \in 1..Len(q) : (q \o r)[i] = q[i]
      /\ \A i \in 1..Len(r) : (q \o r)[Len(q) + i] = r[i]
  BY ConcatFacts, SeqFacts
<1> SUFFICES ASSUME NEW i \in 1..(Len(q) + Len(r)) PROVE (q \o r)[i].type # "error"
  BY <1>1
<1>2. CASE i \in 1..Len(q)
  BY <1>1, <1>2
<1>3. CASE i \notin 1..Len(q)
  <2>1. i - Len(q) \in 1..Len(r) /\ i = Len(q) + (i - Len(q))
    BY <1>1, <1>3
  <2> QED BY <1>1, <2>1
<1> QED BY <1>2, <1>3

\* An event is no error.
LEMMA AnnounceWritesNoError ==
    ASSUME ClientInvariant, NEW t \in Topics, NEW contents \in Contents, Announce(t, contents),
           ClientInvariant', \A i \in 1..Len(sent) : sent[i].type # "error"
    PROVE  \A i \in 1..Len(sent') : sent'[i].type # "error"
<1>1. PICK f : sent' = sent \o <<f>> /\ f.type = "event"
  <2> DEFINE overlay == t \in OverlayTopics
             changed == {k \in DOMAIN contents :
                            k \in DOMAIN store[t] => store[t][k] # contents[k]}
             f == [type |-> "event", topic |-> t, reset |-> ~overlay,
                   unset |-> IF overlay THEN DOMAIN store[t] \ DOMAIN contents ELSE {},
                   body |-> IF overlay THEN [k \in changed |-> contents[k]] ELSE contents,
                   state |-> contents]
  <2>1. sent' = sent \o <<f>>
    BY DEF Announce, Write
  <2>2. f.type = "event"
    OBVIOUS
  <2> HIDE DEF f
  <2> QED BY <2>1, <2>2
<1>2. sent \in Seq(Frames) /\ sent' \in Seq(Frames) /\ Len(sent) \in Nat
  BY SeqFacts DEF ClientInvariant, Shapes
<1>3. Len(sent') = Len(sent) + 1 /\ sent'[Len(sent) + 1] = f
      /\ \A i \in 1..Len(sent) : sent'[i] = sent[i]
  BY <1>1, <1>2
<1>4. \A i \in 1..(Len(sent) + 1) : i \in 1..Len(sent) \/ i = Len(sent) + 1
  BY <1>2
<1> QED BY <1>1, <1>3, <1>4

\* Whatever ends the client, what is left is nothing or the refusal.
LEMMA NextKeepsEnd ==
    ASSUME ClientInvariant, ClientInvariant', EndInvariant, TypeOK, [Next]_vars
    PROVE  EndInvariant'
<1> USE DEF userVars, bufferVars, daemonVars, handedVars
<1>1. ASSUME UNCHANGED <<sent, rejected>>,
             pc' = "over" => /\ peer' \in {"none", "hangup"}
                             /\ drainsOnError' /\ ~rejected => taken' = Len(sent)
      PROVE  EndInvariant'
  BY <1>1 DEF EndInvariant, DrainedAtEnd
<1>2. ASSUME UNCHANGED <<taken, pc, drainsOnError, rejected>>, pc # "over",
             (\A i \in 1..Len(sent) : sent[i].type # "error")
                => \A i \in 1..Len(sent') : sent'[i].type # "error"
      PROVE  EndInvariant'
  BY <1>2 DEF EndInvariant, DrainedAtEnd
<1>3. CASE Serve
  <2> DEFINE more == [i \in DOMAIN TopicList |-> Snapshot(TopicList[i])]
  <2>1. /\ sent = <<>> /\ sent' = sent \o more /\ pc # "over"
        /\ UNCHANGED <<taken, pc, drainsOnError, rejected>>
    BY <1>3 DEF Serve, Write, ClientInvariant, Served, EndInvariant
  <2>2. more \in Seq(Frames)
    <3>1. Len(TopicList) \in Nat /\ DOMAIN TopicList = 1..Len(TopicList)
      BY RuntimeClientAssumption, SeqFacts
    <3>2. \A i \in DOMAIN TopicList : TopicList[i] \in Topics
      BY DEF Topics
    <3>3. \A t \in Topics : store[t] \in Contents
      BY DEF ClientInvariant, Shapes
    <3>4. \A i \in DOMAIN TopicList : Snapshot(TopicList[i]) \in Frames
      BY <3>2, <3>3 DEF Snapshot, Frames
    <3> QED BY <3>1, <3>4
  <2>3. \A i \in 1..Len(more) : more[i].type # "error"
    <3>1. \A t : Snapshot(t).type = "snapshot"
      BY DEF Snapshot
    <3>2. \A i \in DOMAIN more : more[i].type # "error"
      BY <3>1
    <3>3. DOMAIN more = 1..Len(more)
      <4> HIDE DEF more
      <4> QED BY <2>2
    <3> QED BY <3>2, <3>3
  <2> HIDE DEF more
  <2>4. \A i \in 1..Len(sent') : sent'[i].type # "error"
    <3>1. sent \in Seq(Frames)
      BY DEF ClientInvariant, Shapes
    <3>2. Len(sent) = 0
      BY <2>1
    <3> QED BY <2>1, <2>2, <2>3, <3>1, <3>2, NoErrorsAdded
  <2> QED BY <1>2, <2>1, <2>4
<1>4. CASE Reject
  <2>1. rejected' /\ pc # "over" /\ pc' = pc
    BY <1>4 DEF Reject, EndInvariant
  <2> QED BY <2>1 DEF EndInvariant, DrainedAtEnd
<1>5. ASSUME NEW t \in Topics, NEW contents \in Contents, Announce(t, contents),
             peer = "served", UNCHANGED <<taken, pc, drainsOnError, rejected>>
      PROVE  EndInvariant'
  <2>1. pc # "over"
    BY <1>5 DEF EndInvariant
  <2> QED BY <1>2, <1>5, <2>1, AnnounceWritesNoError
<1>6. CASE TopicChanges
  BY <1>5, <1>6 DEF TopicChanges
<1>7. CASE Execute
  BY <1>1, <1>5, <1>7 DEF Execute, EndInvariant, DrainedAtEnd
<1>8. CASE Answer \/ DaemonStops \/ UNCHANGED vars
  <2>1. /\ UNCHANGED <<sent, taken, pc, drainsOnError, rejected>>
        /\ peer' = peer \/ peer' \in {"none", "hangup"}
    BY <1>8 DEF Answer, DaemonStops, vars
  <2> QED BY <1>1, <2>1 DEF EndInvariant, DrainedAtEnd
<1>9. CASE Subscribe
  <2>1. pc = "subscribe" /\ UNCHANGED <<sent, taken, drainsOnError, rejected>>
        /\ (pc' = "over" => peer' = peer)
    BY <1>9 DEF Subscribe
  <2>2. sent = <<>> /\ peer = "none" /\ taken \in 0..Len(sent)
    BY <2>1 DEF ClientInvariant, Served, TypeOK, StreamTypeOK
  <2>3. Len(sent) = 0 /\ taken = 0
    BY <2>2
  <2> QED BY <1>1, <2>1, <2>2, <2>3
<1>10. CASE PollReturns
  <2>1. /\ UNCHANGED <<sent, taken, drainsOnError, rejected, peer>>
        /\ pc' = "over" => peer = "hangup" /\ ~drainsOnError
    BY <1>10 DEF PollReturns
  <2> QED BY <1>1, <2>1
<1>11. ASSUME Close, pc = "drain", UNCHANGED <<sent, taken, drainsOnError, rejected>>,
              \/ buffer = <<>> /\ socket = <<>>
              \/ \E i \in 1..Len(sent) : sent[i].type = "error"
       PROVE  EndInvariant'
  <2>1. peer' = "none"
    BY <1>11 DEF Close
  <2>2. CASE buffer = <<>> /\ socket = <<>>
    <3>1. Len(sent) = taken + Len(buffer) + Len(socket)
      BY <1>11 DEF ClientInvariant, Aligned
    <3>2. taken = Len(sent)
      BY <2>2, <3>1 DEF TypeOK, StreamTypeOK
    <3> QED BY <1>1, <1>11, <2>1, <3>2
  <2>3. CASE \E i \in 1..Len(sent) : sent[i].type = "error"
    <3>1. rejected
      BY <2>3 DEF EndInvariant
    <3> QED BY <1>1, <1>11, <2>1, <3>1
  <2> QED BY <1>11, <2>2, <2>3
<1>12. /\ Len(sent) = taken + Len(buffer) + Len(socket)
       /\ taken \in Nat /\ Len(sent) \in Nat /\ Len(buffer) \in Nat /\ Len(socket) \in Nat
       /\ buffer \in Seq(Frames) /\ socket \in Seq(Frames)
       /\ \A i \in 1..Len(buffer) : buffer[i] = sent[taken + i]
       /\ \A i \in 1..Len(socket) : socket[i] = sent[taken + Len(buffer) + i]
       \/ pc = "over"
  <2>1. CASE pc # "over"
    <3>1. Aligned /\ Shapes
      BY <2>1 DEF ClientInvariant
    <3> QED BY <3>1, SeqFacts DEF Aligned, Shapes
  <2> QED BY <2>1
<1>13. CASE ReadBuffered
  <2>1. pc = "drain" /\ buffer # <<>> /\ UNCHANGED <<sent, drainsOnError, rejected>>
    BY <1>13 DEF ReadBuffered
  <2>2. CASE Head(buffer).type = "error"
    <3>1. Close /\ taken' = taken
      BY <1>13, <2>2 DEF ReadBuffered
    <3>2. Head(buffer) = buffer[1] /\ Len(buffer) >= 1
      BY <1>12, <2>1, TailFacts
    <3>3. taken + 1 \in 1..Len(sent) /\ sent[taken + 1].type = "error"
      BY <1>12, <2>1, <2>2, <3>2
    <3> QED BY <1>11, <2>1, <3>1, <3>3
  <2>3. CASE Head(buffer).type # "error"
    <3>1. pc' = pc
      BY <1>13, <2>3 DEF ReadBuffered
    <3> QED BY <1>1, <2>1, <3>1
  <2> QED BY <2>2, <2>3
<1>14. CASE ReadFrame
  <2>1. pc = "drain" /\ buffer = <<>> /\ UNCHANGED <<sent, drainsOnError, rejected>>
    BY <1>14 DEF ReadFrame
  <2>2. PICK n \in 1..MaxPerRead :
          /\ n <= Len(socket)
          /\ IF Head(Received(n)).type = "error" THEN Close /\ taken' = taken ELSE pc' = pc
    BY <1>14 DEF ReadFrame
  <2>3. CASE Head(Received(n)).type = "error"
    <3>1. n \in 1..Len(socket) /\ Len(buffer) = 0
      BY <1>12, <2>1, <2>2, RuntimeClientAssumption
    <3>2. /\ SubSeq(socket, 1, n) \in Seq(Frames) /\ Len(SubSeq(socket, 1, n)) = n
          /\ SubSeq(socket, 1, n)[1] = socket[1]
      BY <1>12, <2>1, <3>1, FirstFacts
    <3>3. Received(n) \in Seq(Frames) /\ Len(Received(n)) = n /\ Received(n)[1] = socket[1]
      BY <1>12, <2>1, <3>1, <3>2, ConcatFacts DEF Received
    <3>4. Head(Received(n)) = socket[1]
      BY <3>1, <3>3
    <3>5. taken + 1 \in 1..Len(sent) /\ sent[taken + 1].type = "error"
      BY <1>12, <2>1, <2>3, <3>1, <3>4
    <3> QED BY <1>11, <2>1, <2>2, <2>3, <3>5
  <2>4. CASE Head(Received(n)).type # "error"
    BY <1>1, <2>1, <2>2, <2>4
  <2> QED BY <2>3, <2>4
<1>15. CASE ReadPart \/ Return \/ QueryTopic \/ CtlWorkspaceSwitch
  <2>1. UNCHANGED <<sent, rejected>> /\ pc' # "over"
    BY <1>15 DEF ReadPart, Return, QueryTopic, CtlWorkspaceSwitch, Ask
  <2> QED BY <1>1, <2>1
<1>16. CASE ReadNothing
  <2>1. /\ pc = "drain" /\ buffer = <<>> /\ socket = <<>>
        /\ UNCHANGED <<sent, taken, drainsOnError, rejected>>
        /\ Close \/ pc' = "poll"
    BY <1>16 DEF ReadNothing
  <2> QED BY <1>1, <1>11, <2>1
<1> QED BY <1>3, <1>4, <1>6, <1>7, <1>8, <1>9, <1>10, <1>13, <1>14, <1>15, <1>16 DEF Next, Client

\* What a client starts with.
LEMMA InitTypes == Init => TypeOK /\ EndInvariant
<1> SUFFICES ASSUME Init PROVE TypeOK /\ EndInvariant
  OBVIOUS
<1>1. ClientInvariant
  BY InitKeeps
<1>2. StreamTypeOK
  <2>1. sent \in Seq(Frames) /\ Len(sent) = 0 /\ taken = 0 /\ Shapes
    BY <1>1 DEF ClientInvariant, Shapes, Init
  <2>2. taken \in 0..Len(sent)
    BY <2>1
  <2>3. /\ up \in BOOLEAN /\ partial \in BOOLEAN /\ drainsOnError \in BOOLEAN
        /\ rejected \in BOOLEAN
    BY DEF Init
  <2>4. /\ peer \in {"none", "asked", "served", "hangup"}
        /\ pc \in {"subscribe", "poll", "drain", "call", "over"}
    BY DEF Init
  <2> QED BY <2>1, <2>2, <2>3, <2>4 DEF StreamTypeOK, Shapes
<1>3. CallTypeOK
  BY RuntimeClientAssumption DEF Init, CallTypeOK, NoCall
<1>4. EndInvariant
  <2>1. sent = <<>> /\ pc # "over" /\ Len(<<>>) = 0
    BY DEF Init
  <2> QED BY <2>1 DEF EndInvariant, DrainedAtEnd
<1> QED BY <1>2, <1>3, <1>4 DEF Init, TypeOK

\* The types, for any topics, keys, values and reads: the counters and lists have their
\* shape, a blocked caller waits for an answer that is still to come, and outside a drain
\* no whole frame is left in the library's buffer, where poll would not see it.
THEOREM ClientTypesHold == Spec => []TypeOK
<1>1. TypeOK /\ ClientInvariant' /\ [Next]_vars => TypeOK'
  BY NextKeepsTypes
<1> QED BY <1>1, InitTypes, InvariantHolds, PTL DEF Spec

\* A client whose on_error drains the subscription has handed over every frame the daemon
\* wrote before it ended, wherever the hangup meets the reads; only a refusal leaves a
\* frame that is not handed over, the error itself.
THEOREM DrainsToTheEnd == Spec => []DrainedAtEnd
<1>1. /\ EndInvariant /\ TypeOK /\ ClientInvariant /\ ClientInvariant' /\ [Next]_vars
      => EndInvariant'
  BY NextKeepsEnd
<1>2. EndInvariant => DrainedAtEnd
  BY DEF EndInvariant
<1> QED BY <1>1, <1>2, InitTypes, ClientTypesHold, InvariantHolds, PTL DEF Spec
=============================================================================
