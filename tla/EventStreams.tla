---------------------------- MODULE EventStreams ----------------------------
(***************************************************************************)
(* Live events on their way to a browser.  The sink of the publisher cuts  *)
(* large events, groups a batch by its channels and hands the payloads to  *)
(* Litestar Channels; a WebSocket or a server-sent stream subscribes to    *)
(* one channel, replays its history, and relays what it reads, each event  *)
(* once, between heartbeats.                                               *)
(***************************************************************************)
EXTENDS Integers, Sequences, FiniteSets, SequencesExt, Deployments

CONSTANTS
    Channel,      \* the channel of the stream
    MaxBytes,     \* max_payload_bytes of the sink
    Window,       \* _STREAM_DEDUP_MAX_KEYS
    Nothing       \* no event; the payload that is none

ASSUME WindowAssumption == Window \in Nat \ {0}

\* A deployment says which batches are published and how many events they may
\* hold in all, which transports and replay_limit the streams have, whether
\* heartbeats are sent, and whether others publish on the channel.
VARIABLES
    publisher,   \* payloads that the sink has yet to hand over; events so far
    published,   \* the channel: what its backend has taken
    stream       \* one connection

streamVars == <<publisher, published, stream>>

StreamInit ==
    /\ publisher = [outgoing |-> <<>>, taken |-> 0]
    /\ published = <<>>
    /\ stream = [pc |-> "none", transport |-> "sse", wire |-> <<>>, next |-> Nothing, seen |-> <<>>, read |-> <<>>,
                 sending |-> Nothing, sent |-> <<>>, ping |-> "asleep", writers |-> {}]

----------------------------------------------------------------------------
\* The sink.

Total(items) == FoldLeft(LAMBDA sum, item : sum + item, 0, items)
Fits(items) == Total(items) <= MaxBytes

\* split_event_batch_by_size: items are added while they fit, then a new
\* payload begins; Nothing stands for the ValueError of an item too large.
Chunked(chunks, item) ==
    IF chunks = Nothing \/ ~Fits(<<item>>) THEN Nothing
    ELSE IF chunks # <<>> /\ Fits(Append(Last(chunks), item)) THEN Append(Front(chunks), Append(Last(chunks), item))
    ELSE Append(chunks, <<item>>)

\* Only a package batch is cut: _extract_batch_items finds no items in another.
SplitBySize(event) ==
    IF ~event.batch \/ Fits(event.items) THEN <<event.items>> ELSE FoldLeft(Chunked, <<>>, event.items)

\* _replace_batch_items: a copy of the event, its id and key included, so that
\* the pieces of one event have one key.
EventChunks(event) ==
    IF SplitBySize(event) = Nothing THEN Nothing
    ELSE [i \in DOMAIN SplitBySize(event) |-> [event EXCEPT !.items = SplitBySize(event)[i]]]

\* The channel tuples of a batch in the order of their first event.
Distinct(groups, entry) == IF entry.channels \in Range(groups) THEN groups ELSE Append(groups, entry.channels)

InGroup(batch, channels) ==
    FoldLeft(LAMBDA payloads, entry :
                 IF entry.channels # channels THEN payloads
                 ELSE payloads \o [i \in DOMAIN EventChunks(entry.event) |->
                                     [event |-> EventChunks(entry.event)[i], channels |-> channels]],
             <<>>, batch)

Grouped(batch) == FlattenSeq([i \in DOMAIN FoldLeft(Distinct, <<>>, batch) |-> InGroup(batch, FoldLeft(Distinct, <<>>, batch)[i])])

\* publish_many: every event is cut before the first one is handed over.
PublishMany(batch) ==
    /\ publisher.outgoing = <<>> /\ publisher.taken + Len(batch) <= config.events
    /\ publisher' = [taken |-> publisher.taken + Len(batch),
                     outgoing |-> IF \E i \in DOMAIN batch : EventChunks(batch[i].event) = Nothing THEN <<>> ELSE Grouped(batch)]
    /\ UNCHANGED <<published, stream>>

\* A payload reaches the subscribers that are there.
Subscribed == stream.pc \in {"replay", "open"}
Delivered(raw) == stream' = IF Subscribed THEN [stream EXCEPT !.wire = Append(@, raw)] ELSE stream

\* _publish_one, or one payload of publish_many; other channels are not ours.
PublishOne ==
    /\ publisher.outgoing # <<>>
    /\ publisher' = [publisher EXCEPT !.outgoing = Tail(@)]
    /\ IF Channel \in Range(Head(publisher.outgoing).channels)
       THEN published' = Append(published, Head(publisher.outgoing).event) /\ Delivered(Head(publisher.outgoing).event)
       ELSE UNCHANGED <<published, stream>>

\* The backend raises: the rest of the batch is not published.
PublishFails ==
    /\ publisher.outgoing # <<>>
    /\ publisher' = [publisher EXCEPT !.outgoing = <<>>]
    /\ UNCHANGED <<published, stream>>

\* Somebody else publishes what is no event.
ForeignPublishes ==
    /\ Subscribed /\ config.foreign /\ Nothing \notin Range(published)
    /\ published' = Append(published, Nothing) /\ Delivered(Nothing)
    /\ UNCHANGED publisher

----------------------------------------------------------------------------
\* The connection.

\* The authorizer, and the subscription.
Connect ==
    /\ stream.pc = "none"
    /\ \E transport \in config.transports, allowed \in BOOLEAN :
         stream' = [stream EXCEPT !.transport = transport, !.pc = IF allowed THEN "replay" ELSE "denied"]
    /\ UNCHANGED <<publisher, published>>

\* The channel's history is put behind what arrived in the meantime.
Replay ==
    /\ stream.pc = "replay"
    /\ stream' = [stream EXCEPT !.pc = "open", !.wire = @ \o SubSeq(published, Max({1, Len(published) - config.replay_limit + 1}), Len(published))]
    /\ UNCHANGED <<publisher, published>>

DedupKey(event) == IF event.event_key # Nothing THEN event.event_key ELSE event.id

\* Fault: a repeated key keeps its place.
SeenInOrder(seen, key) ==
    LET added == IF Contains(seen, key) THEN seen ELSE Append(seen, key)
    IN  IF Len(added) > Window THEN Tail(added) ELSE added

\* The keys seen, oldest first: the one just seen moves to the end, and the
\* oldest leaves beyond the limit.
Place(seen, key) == CHOOSE i \in DOMAIN seen : seen[i] = key
OtherKeys(seen, key) == IF Contains(seen, key) THEN RemoveAt(seen, Place(seen, key)) ELSE seen
Seen(seen, key) ==
    LET added == Append(OtherKeys(seen, key), key)
    IN  IF Len(added) > Window THEN Tail(added) ELSE added

\* A payload is decoded; a key that is remembered is not sent again.
Relayed(s, event) ==
    IF event = Nothing THEN s
    ELSE [s EXCEPT !.seen = Seen(@, DedupKey(event)),
                   !.read = Append(@, event),
                   !.sending = IF Contains(s.seen, DedupKey(event)) THEN Nothing ELSE event]

\* _pump_events: the next event is read when the last one was sent.
PumpReads ==
    /\ stream.pc = "open" /\ stream.transport = "websocket"
    /\ stream.sending = Nothing /\ stream.wire # <<>>
    /\ stream' = Relayed([stream EXCEPT !.wire = Tail(@)], Head(stream.wire))
    /\ UNCHANGED <<publisher, published>>

\* _sse_event_frames: one event is read ahead.
SseReadsAhead ==
    /\ stream.pc = "open" /\ stream.transport = "sse"
    /\ stream.next = Nothing /\ stream.wire # <<>>
    /\ stream' = [stream EXCEPT !.next = [raw |-> Head(stream.wire)], !.wire = Tail(@)]
    /\ UNCHANGED <<publisher, published>>

SseFrame ==
    /\ stream.pc = "open" /\ stream.next # Nothing /\ stream.sending = Nothing /\ stream.writers = {}
    /\ stream' = Relayed([stream EXCEPT !.next = Nothing], stream.next.raw)
    /\ UNCHANGED <<publisher, published>>

\* send_lock; the generator of server-sent events has a single writer.
LockFree(writer) == stream.writers = {}

\* _send_json.
SendStarts(writer) ==
    /\ stream.pc = "open" /\ writer \notin stream.writers /\ LockFree(writer)
    /\ IF writer = "event" THEN stream.sending # Nothing ELSE stream.ping = "due"
    /\ stream' = [stream EXCEPT !.writers = @ \cup {writer}]
    /\ UNCHANGED <<publisher, published>>

SendEnds(writer) ==
    /\ stream.pc = "open" /\ writer \in stream.writers
    /\ stream' = IF writer = "event"
                 THEN [stream EXCEPT !.writers = @ \ {writer}, !.sent = Append(@, stream.sending), !.sending = Nothing]
                 ELSE [stream EXCEPT !.writers = @ \ {writer}, !.ping = "asleep"]
    /\ UNCHANGED <<publisher, published>>

\* _pump_heartbeat; a server-sent stream yields a ping while it waits.
HeartbeatDue ==
    /\ config.heartbeats /\ stream.pc = "open" /\ stream.ping = "asleep"
    /\ stream.transport = "sse" => stream.next = Nothing /\ stream.sending = Nothing
    /\ stream' = [stream EXCEPT !.ping = "due"]
    /\ UNCHANGED <<publisher, published>>

\* max_stream_duration is over, the client has gone, a send fails or the
\* subscription ends: both pumps stop where they are and the subscription is
\* left, with what it holds.
StreamEnds ==
    /\ stream.pc = "open"
    /\ stream' = [stream EXCEPT !.pc = "ended", !.wire = <<>>, !.next = Nothing, !.sending = Nothing, !.writers = {}, !.ping = "asleep"]
    /\ UNCHANGED <<publisher, published>>

StreamNext ==
    \/ \E batch \in config.batches : PublishMany(batch)
    \/ PublishOne \/ PublishFails \/ ForeignPublishes
    \/ Connect \/ Replay \/ PumpReads \/ SseReadsAhead \/ SseFrame \/ HeartbeatDue \/ StreamEnds
    \/ \E writer \in {"event", "ping"} : SendStarts(writer) \/ SendEnds(writer)

\* A stream that is watched on its own.
StreamSpec ==
    /\ config \in Configs /\ StreamInit
    /\ [][StreamNext /\ UNCHANGED config]_<<config, streamVars>>

----------------------------------------------------------------------------
\* The keys read between two positions.
Between(read, i, j) == {DedupKey(read[m]) : m \in (i + 1)..(j - 1)}

\* An event is new when fewer than Window other keys came since its key did.
IsNew(read, j) ==
    ~\E i \in 1..(j - 1) :
        /\ DedupKey(read[i]) = DedupKey(read[j])
        /\ DedupKey(read[j]) \notin Between(read, i, j)
        /\ Cardinality(Between(read, i, j)) < Window

\* The n-th of some positions, and the new events in order.
Nth(positions, n) == CHOOSE j \in positions : Cardinality({i \in positions : i <= j}) = n
NewPositions(read) == {j \in 1..Len(read) : IsNew(read, j)}
NewEvents(read) == [n \in 1..Cardinality(NewPositions(read)) |-> read[Nth(NewPositions(read), n)]]

\* What the client has been shown, or is about to be.
Shown == stream.sent \o (IF stream.sending = Nothing THEN <<>> ELSE <<stream.sending>>)

\* A payload that is not among those shown has a namesake before it that is
\* another payload: the stream tells the two apart by nothing but their key.
OnlyNamesakesAreLost(read, shown) ==
    \A j \in 1..Len(read) : read[j] \notin shown =>
        \E i \in 1..(j - 1) :
            DedupKey(read[i]) = DedupKey(read[j]) /\ read[i] # read[j] /\ read[i] \in shown

\* A stream shows the first payload of every key it reads, in order, and again
\* when Window others came in between, be an event published twice, replayed
\* behind what came live, or repeated after others; and it writes one frame at a
\* time.  The pieces of a cut event share its key, so only the first is shown:
\* what is lost in this way, and to an event with the key of another, is all
\* that an open stream loses.
StreamShowsOnce ==
    /\ Cardinality(stream.writers) <= 1
    /\ stream.pc = "ended" => IsPrefix(stream.sent, NewEvents(stream.read)) /\ Len(stream.sent) >= Len(NewEvents(stream.read)) - 1
    /\ stream.pc = "open" => NewEvents(stream.read) = Shown /\ OnlyNamesakesAreLost(stream.read, Range(Shown))
=============================================================================
