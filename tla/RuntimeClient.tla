--------------------------- MODULE RuntimeClient ---------------------------
(***************************************************************************)
(* The C client library (runtime-client.c) in a daemon of the panel's      *)
(* kind: one thread that polls a subscription, drains it when there is     *)
(* something to read, and from time to time makes a blocking request of    *)
(* its own on another connection.  The runtime daemon at the other end     *)
(* writes whole frames; reads cut the stream anywhere.                     *)
(*                                                                         *)
(* A topic's contents are a function on the keys that are present.  The    *)
(* frame's own lines (TYPE, SEQ, ...), which the cache keeps like any      *)
(* other, and allocation failures are left out.                            *)
(***************************************************************************)
EXTENDS Integers, Sequences, FiniteSets

CONSTANTS TopicList,       \* the topics subscribed to, in the order of the request
          OverlayTopics,   \* those whose events are overlays (RESET=0), as session's
          Keys, Values,
          InitialStores,   \* what the topics may be when the client starts
          CacheMax,        \* NSCDE_RUNTIME_TOPIC_CACHE_MAX
          MaxPerRead,      \* frames that fit into one read of FRAME_CHUNK_SIZE
          MaxFrames,       \* bound on the frames of a behaviour
          MaxCalls         \* bound on requests

Topics == {TopicList[i] : i \in DOMAIN TopicList}

Contents == UNION {[present -> Values] : present \in SUBSET Keys}
Nothing == [k \in {} |-> k]

ASSUME RuntimeClientAssumption ==
    /\ TopicList \in Seq(STRING) /\ OverlayTopics \subseteq Topics
    /\ InitialStores \subseteq [Topics -> Contents]
    /\ Cardinality(Topics) <= CacheMax                  \* 11 topics exist
    /\ MaxPerRead \in Nat \ {0} /\ MaxFrames \in Nat /\ MaxCalls \in Nat

\* "state" is no part of the frame: the topic's contents after it, for the properties.
Frames == [type: {"snapshot", "event", "error"}, topic: Topics, reset: BOOLEAN,
           unset: SUBSET Keys, body: Contents, state: Contents]

VARIABLES
    \* the daemon: running, its topics, its end of the subscription, bytes on the way
    up, store, peer, socket,
    \* the library: subscription buffer (whole frames, and whether part of one follows),
    \* topic caches
    buffer, partial, cache,
    \* its user: program counter, what on_error does, contents last handed over per topic
    pc, drainsOnError, handed,
    \* a blocking request: kind, and how far the daemon and the caller are
    call,
    \* history: frames written, number handed over, topics with an overlay the cache missed
    sent, taken, missed, calls, rejected

daemonVars == <<up, store, peer, socket>>
bufferVars == <<buffer, partial>>
userVars == <<pc, drainsOnError>>
handedVars == <<cache, handed, taken, missed>>
vars == <<daemonVars, bufferVars, userVars, handedVars, call, calls, sent, rejected>>

NoCall == [kind |-> "none", stage |-> "none", result |-> "none"]

Init ==
    /\ up = TRUE /\ store \in InitialStores /\ peer = "none" /\ socket = <<>>
    /\ buffer = <<>> /\ partial = FALSE /\ cache = [t \in Topics |-> Nothing]
    /\ pc = "subscribe" /\ drainsOnError \in BOOLEAN
    /\ handed = [t \in Topics |-> Nothing]
    /\ call = NoCall
    /\ sent = <<>> /\ taken = 0 /\ missed = {} /\ calls = 0 /\ rejected = FALSE

-----------------------------------------------------------------------------
(* The daemon *)

Write(frames) == socket' = socket \o frames /\ sent' = sent \o frames

Snapshot(t) == [type |-> "snapshot", topic |-> t, reset |-> FALSE, unset |-> {},
                body |-> store[t], state |-> store[t]]

\* Registration and bootstrap: one snapshot per topic, in the order asked for.
Serve ==
    /\ up /\ peer = "asked"
    /\ Write([i \in DOMAIN TopicList |-> Snapshot(TopicList[i])])
    /\ peer' = "served"
    /\ UNCHANGED <<up, store, bufferVars, userVars, handedVars, call, calls, rejected>>

\* The request is refused: an error frame and the end of the connection.
Reject ==
    /\ up /\ peer = "asked"
    /\ \E t \in Topics : Write(<<[Snapshot(t) EXCEPT !.type = "error"]>>)
    /\ peer' = "hangup" /\ rejected' = TRUE
    /\ UNCHANGED <<up, store, bufferVars, userVars, handedVars, call, calls>>

\* The topic becomes contents: its event carries all of it, or what has changed.
Announce(t, contents) ==
    /\ store' = [store EXCEPT ![t] = contents]
    /\ LET changed == {k \in DOMAIN contents : k \in DOMAIN store[t] => store[t][k] # contents[k]}
           overlay == t \in OverlayTopics
       IN  Write(<<[type |-> "event", topic |-> t, reset |-> ~overlay,
                    unset |-> IF overlay THEN DOMAIN store[t] \ DOMAIN contents ELSE {},
                    body |-> IF overlay THEN [k \in changed |-> contents[k]] ELSE contents,
                    state |-> contents]>>)

\* Seen from here a change before the snapshots is another initial store.
TopicChanges ==
    /\ up /\ peer = "served" /\ Len(sent) < MaxFrames
    /\ \E t \in Topics : \E contents \in Contents \ {store[t]} : Announce(t, contents)
    /\ UNCHANGED <<up, peer, bufferVars, userVars, handedVars, call, calls, rejected>>

\* A request is executed, and then answered.
Execute ==
    /\ up /\ call.stage = "asked"
    /\ call' = [call EXCEPT !.stage = "executed"]
    /\ \/ UNCHANGED <<store, socket, sent>>
       \/ /\ call.kind = "ctl" /\ peer = "served" /\ Len(sent) < MaxFrames
          /\ \E t \in Topics : \E contents \in Contents \ {store[t]} : Announce(t, contents)
    /\ UNCHANGED <<up, peer, bufferVars, userVars, handedVars, calls, rejected>>

Answer ==
    /\ up /\ call.stage = "executed"
    /\ call' = [call EXCEPT !.stage = "answered"]
    /\ UNCHANGED <<daemonVars, bufferVars, userVars, handedVars, calls, sent, rejected>>

\* The daemon ends; an answer may have been written in part.
DaemonStops ==
    /\ up /\ up' = FALSE
    /\ peer' = IF peer = "none" THEN "none" ELSE "hangup"
    /\ call' = [call EXCEPT !.stage =
                  IF @ = "asked" THEN "lost"
                  ELSE IF @ = "executed" THEN "cut" ELSE @]
    /\ UNCHANGED <<store, socket, bufferVars, userVars, handedVars, calls, sent, rejected>>

-----------------------------------------------------------------------------
(* The topic cache *)

\* topic_cache_remove_key, for each key of UNSET.
WithoutKeys(contents, keys) == [k \in DOMAIN contents \ keys |-> contents[k]]

\* topic_cache_set_key, for each line of the frame.
WithKeys(contents, body) ==
    [k \in DOMAIN contents \cup DOMAIN body |-> IF k \in DOMAIN body THEN body[k] ELSE contents[k]]

\* Variant: RESET is parsed and forgotten.
MergedIgnoringReset(old, frame) ==
    LET base == IF frame.type = "snapshot" THEN Nothing ELSE old
    IN  WithKeys(WithoutKeys(base, frame.unset), frame.body)

\* Variant: UNSET is parsed and forgotten.
MergedIgnoringUnset(old, frame) ==
    WithKeys(IF frame.type = "snapshot" \/ frame.reset THEN Nothing ELSE old, frame.body)

\* merge_topic_cache.
Merged(old, frame) ==
    LET base == IF frame.type = "snapshot" \/ frame.reset THEN Nothing ELSE old
    IN  WithKeys(WithoutKeys(base, frame.unset), frame.body)

Replaces(frame) == frame.type = "snapshot" \/ frame.reset

-----------------------------------------------------------------------------
(* The subscription *)

\* connect_runtime_socket succeeds while a daemon listens.
Connects == up

\* nscde_runtime_subscribe_topics, on a fresh subscription.
Subscribe ==
    /\ pc = "subscribe"
    /\ \/ Connects /\ peer' = "asked" /\ pc' = "poll"
       \/ ~Connects /\ pc' = "over" /\ UNCHANGED peer
    /\ UNCHANGED <<up, store, socket, bufferVars, drainsOnError, handedVars, call, calls, sent, rejected>>

\* Variant: on_error takes a hangup for the end of the data.
PollReturnsAtOnce ==
    /\ pc = "poll"
    /\ \/ peer = "hangup" /\ pc' = "over"
       \/ peer = "served" /\ socket # <<>> /\ pc' = "drain"
    /\ UNCHANGED <<daemonVars, bufferVars, drainsOnError, handedVars, call, calls, sent, rejected>>

\* nscde_fd_reactor_run_once: a hangup is for on_error alone, which drains as well
\* (paneld) or ends the program (backdropd).
PollReturns ==
    /\ pc = "poll"
    /\ \/ peer = "hangup" /\ pc' = IF drainsOnError THEN "drain" ELSE "over"
       \/ peer = "served" /\ socket # <<>> /\ pc' = "drain"
    /\ UNCHANGED <<daemonVars, bufferVars, drainsOnError, handedVars, call, calls, sent, rejected>>

\* nscde_runtime_subscription_close and the end of its user.
Close ==
    /\ pc' = "over" /\ buffer' = <<>> /\ partial' = FALSE /\ socket' = <<>> /\ peer' = "none"
    /\ cache' = [t \in Topics |-> Nothing]

\* The handler gets these contents with the frame.
HandOver(frame, contents) ==
    /\ handed' = [handed EXCEPT ![frame.topic] = contents]
    /\ taken' = taken + 1

\* A frame that is complete in the buffer is handed over as it came.  The cache misses it.
ReadBuffered ==
    /\ pc = "drain" /\ buffer # <<>>
    /\ LET frame == Head(buffer)
       IN  IF frame.type = "error"
           THEN Close /\ UNCHANGED <<handed, taken, missed>>
           ELSE /\ buffer' = Tail(buffer)
                /\ HandOver(frame, frame.body)
                /\ missed' = missed \cup {frame.topic}
                /\ UNCHANGED <<pc, peer, socket, partial, cache>>
    /\ UNCHANGED <<up, store, drainsOnError, call, calls, sent, rejected>>

\* append_bytes: the buffer with the n frames that a read has completed.
Received(n) == buffer \o SubSeq(socket, 1, n)

\* merge_topic_cache, find_topic_cache and the copy of the cache that is handed over.
MergeAndHandOver(frame) ==
    /\ cache' = [cache EXCEPT ![frame.topic] = Merged(@, frame)]
    /\ HandOver(frame, cache'[frame.topic])
    /\ missed' = IF Replaces(frame) THEN missed \ {frame.topic} ELSE missed

\* Variant: what follows the first frame in the chunk is lost with it.
ReadFrameOnly ==
    /\ pc = "drain" /\ buffer = <<>>
    /\ \E n \in 1..MaxPerRead :
          /\ n <= Len(socket)
          /\ socket' = SubSeq(socket, n + 1, Len(socket))
          /\ MergeAndHandOver(socket[1])
    /\ UNCHANGED <<up, store, peer, bufferVars, pc, drainsOnError, call, calls, sent, rejected>>

\* Variant: one frame for each time that poll returns.
ReadFrameThenPoll ==
    /\ pc = "drain" /\ buffer = <<>>
    /\ \E n \in 1..MaxPerRead :
          /\ n <= Len(socket)
          /\ buffer' = Tail(Received(n))
          /\ socket' = SubSeq(socket, n + 1, Len(socket))
          /\ MergeAndHandOver(Head(Received(n)))
    /\ pc' = "poll"
    /\ UNCHANGED <<up, store, peer, partial, drainsOnError, call, calls, sent, rejected>>

\* One read of the socket that completes n frames: the first one is merged into its
\* topic's cache and handed over as the cache then stands; the others wait in the buffer.
ReadFrame ==
    /\ pc = "drain" /\ buffer = <<>>
    /\ \E n \in 1..MaxPerRead :
          /\ n <= Len(socket)
          /\ LET frame == Head(Received(n))
             IN  IF frame.type = "error"
                 THEN Close /\ UNCHANGED <<handed, taken, missed>>
                 ELSE /\ buffer' = Tail(Received(n))
                      /\ partial' \in {p \in BOOLEAN : p => n < Len(socket)}
                      /\ socket' = SubSeq(socket, n + 1, Len(socket))
                      /\ MergeAndHandOver(frame)
                      /\ UNCHANGED <<pc, peer>>
    /\ UNCHANGED <<up, store, drainsOnError, call, calls, sent, rejected>>

\* A read that completes no frame ends the drain; poll reports the rest.
ReadPart ==
    /\ pc = "drain" /\ buffer = <<>> /\ socket # <<>> /\ ~partial
    /\ partial' = TRUE /\ pc' = "poll"
    /\ UNCHANGED <<daemonVars, buffer, drainsOnError, handedVars, call, calls, sent, rejected>>

\* Nothing to read: back to poll, or the end of a closed connection.
ReadNothing ==
    /\ pc = "drain" /\ buffer = <<>> /\ socket = <<>>
    /\ IF peer = "hangup" THEN Close
       ELSE pc' = "poll" /\ UNCHANGED <<peer, socket, bufferVars, cache>>
    /\ UNCHANGED <<up, store, drainsOnError, handed, taken, missed, call, calls, sent, rejected>>

-----------------------------------------------------------------------------
(* Requests: nscde_runtime_query_topic, nscde_runtime_ctl_workspace_switch *)

\* An input handler asks for something and blocks in read_response_frame.
Ask(kind) ==
    /\ pc = "poll" /\ calls < MaxCalls
    /\ calls' = calls + 1
    /\ call' = [kind |-> kind, stage |-> IF Connects THEN "asked" ELSE "none",
                result |-> IF Connects THEN "none" ELSE "failed"]
    /\ pc' = IF Connects THEN "call" ELSE "poll"
    /\ UNCHANGED <<daemonVars, bufferVars, drainsOnError, handedVars, sent, rejected>>

QueryTopic == Ask("query")
CtlWorkspaceSwitch == Ask("ctl")

\* Variant: only the delimiter ends the wait for an answer.
ResultsAtDelimiter == [answered |-> {"whole"}]

\* read_response_frame returns at the delimiter, or at the end of the connection with
\* what there is: an answer that was cut may be none, fail to parse, or pass for whole.
Results ==
    [answered |-> {"whole"}, lost |-> {"failed"}, cut |-> {"failed", "cut"}]

Return ==
    /\ pc = "call" /\ call.stage \in DOMAIN Results
    /\ \E result \in Results[call.stage] : call' = [call EXCEPT !.result = result]
    /\ pc' = "poll"
    /\ UNCHANGED <<daemonVars, bufferVars, drainsOnError, handedVars, calls, sent, rejected>>

Client ==
    \/ Subscribe \/ PollReturns \/ ReadBuffered \/ ReadFrame \/ ReadPart \/ ReadNothing \/ Return

Next == Serve \/ Reject \/ TopicChanges \/ Execute \/ Answer \/ DaemonStops \/ Client
    \/ QueryTopic \/ CtlWorkspaceSwitch

Spec == Init /\ [][Next]_vars

FairSpec == Spec /\ WF_vars(Client) /\ WF_vars(Serve) /\ WF_vars(Execute) /\ WF_vars(Answer)

-----------------------------------------------------------------------------
(* Properties *)

CallTypeOK ==
    /\ call \in [kind: {"none", "query", "ctl"},
                 stage: {"none", "asked", "executed", "answered", "lost", "cut"},
                 result: {"none", "failed", "cut", "whole"}]
    /\ calls \in 0..MaxCalls
    /\ pc = "call" => call.stage # "none" /\ call.result = "none"

StreamTypeOK ==
    /\ socket \in Seq(Frames) /\ buffer \in Seq(Frames) /\ sent \in Seq(Frames)
    /\ store \in [Topics -> Contents] /\ cache \in [Topics -> Contents] /\ handed \in [Topics -> Contents]
    /\ up \in BOOLEAN /\ partial \in BOOLEAN /\ drainsOnError \in BOOLEAN /\ rejected \in BOOLEAN
    /\ peer \in {"none", "asked", "served", "hangup"}
    /\ pc \in {"subscribe", "poll", "drain", "call", "over"}
    /\ taken \in 0..Len(sent) /\ missed \subseteq Topics

\* The library waits in poll, or anywhere outside a drain, with no whole frame in its
\* buffer: nothing that poll does not know of is left unread.
TypeOK ==
    /\ CallTypeOK
    /\ StreamTypeOK
    /\ pc # "drain" => buffer = <<>>

\* However the reads cut the stream, what was handed over, the buffer and the socket are
\* the stream as it was written: no frame is lost, repeated or moved.
FramesInOrder == pc # "over" => sent = SubSeq(sent, 1, taken) \o buffer \o socket

\* What the daemon's topic t was when it wrote the last frame on t that was handed over.
HandedState(t) ==
    LET of == {i \in 1..taken : sent[i].topic = t}
    IN  IF of = {} THEN Nothing
        ELSE sent[CHOOSE i \in of : \A j \in of : j <= i].state

\* The two ways a frame is handed over (raw from the buffer, or as the cache stands after
\* the merge) give the same contents, the daemon's, for every topic whose events carry
\* all of it: all those the C daemons subscribe to.
HandedIsState == \A t \in Topics \ OverlayTopics : handed[t] = HandedState(t)

\* doc/README.haskell-runtime-architecture.md:308-312, the topic cache contract, with the
\* frames the code does not merge as its exception: a topic's cache is the daemon's topic,
\* overlays and UNSET included, unless a frame of it was complete in the buffer before
\* the read (and no snapshot or RESET was merged since).
CacheContract == pc # "over" => \A t \in Topics \ missed : cache[t] = HandedState(t)

\* A client whose on_error drains has handed over every frame the daemon wrote before it
\* ended; a refused one has nothing to show.
DrainedAtEnd == (pc = "over" /\ drainsOnError /\ ~rejected) => taken = Len(sent)

\* A frame is handed over unless the client ends: no poll waits with a frame in the
\* buffer, no request blocks for ever.
FramesHandedOver ==
    \A n \in 1..MaxFrames : (Len(sent) >= n) ~> (taken >= n \/ pc = "over")
=============================================================================
