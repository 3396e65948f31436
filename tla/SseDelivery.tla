----------------------------- MODULE SseDelivery -----------------------------
(***************************************************************************)
(* How the notifications of upstream servers reach the client of one       *)
(* session: the event ids, the replay queue and the SSE streams of         *)
(* src/transport/http-transport.ts and the NotificationQueue that holds    *)
(* what comes while no stream is open                                      *)
(* (src/upstream/upstream-notification-queue.ts).                          *)
(*                                                                         *)
(* The client reads one stream at a time and opens the next when it has    *)
(* seen the end of the last, giving the id of the event it read last.  An  *)
(* end of a stream may close long before the other end knows; what is on   *)
(* its way then is lost.  Notifications are numbered as they arrive.       *)
(***************************************************************************)
EXTENDS Naturals, Sequences, FiniteSetsExt

CONSTANTS
    QueueMax,      \* events the replay queue keeps (100)
    BufferMax,     \* entries the notification queue keeps (50)
    MaxNotices,    \* bound on the notifications that arrive
    MaxPostId,     \* bound: responses to POST take no higher event id
    MaxHalfOpen,   \* bound on the streams only the server takes for open
    TracksPosts    \* the client resumes from the ids of POST responses too

ASSUME SseAssumption ==
    /\ QueueMax \in Nat \ {0} /\ BufferMax \in Nat \ {0}
    /\ MaxNotices \in Nat /\ MaxPostId \in Nat /\ MaxHalfOpen \in Nat
    /\ TracksPosts \in BOOLEAN

VARIABLES
    nextEventId,   \* the last event id given
    replayQueue,   \* the events that can be replayed
    buffer,        \* the notification queue
    halfOpen,      \* the streams active at the server that the client has lost
    link,          \* the client's stream
    wire,          \* the events on their way on it
    posts,         \* the ids of POST responses on their way
    lastId,        \* the id the client will resume from
    got,           \* the notifications the client has read
    arrived,       \* how many have arrived from upstream
    dropped        \* those a full queue or the TTL has dropped

sseVars == <<nextEventId, replayQueue, buffer, halfOpen, link, wire, posts,
          lastId, got, arrived, dropped>>
client == <<lastId, got>>

----------------------------------------------------------------------------
Notice == 1 .. MaxNotices
EventId == 1 .. MaxNotices + MaxPostId
NoId == 0
Event == [id : EventId, notice : Notice]

\* "up": open at both ends; "cut": the server has seen it close, the client
\* has not; "none": the client has no stream.
Link == {"none", "up", "cut"}

SseInit ==
    /\ nextEventId = 0 /\ replayQueue = <<>> /\ buffer = <<>>
    /\ halfOpen = 0 /\ link = "none" /\ wire = <<>> /\ posts = {}
    /\ lastId = NoId /\ got = <<>>
    /\ arrived = 0 /\ dropped = {}

----------------------------------------------------------------------------
(* The server *)

Elements(q) == {q[i] : i \in DOMAIN q}
Newest(q, n) == IF Len(q) <= n THEN q ELSE SubSeq(q, Len(q) - n + 1, Len(q))
Overflow(q, n) == SubSeq(q, 1, Len(q) - Len(Newest(q, n)))
Notices(q) == {e.notice : e \in Elements(q)}

\* sendToClient, once for every notification of the sequence: the events.
Numbered(ns) == [i \in DOMAIN ns |-> [id |-> nextEventId + i, notice |-> ns[i]]]

\* sendToClient: what becomes of the ids and the replay queue.
Queue(events) ==
    /\ nextEventId' = nextEventId + Len(events)
    /\ replayQueue' = Newest(replayQueue \o events, QueueMax)
    /\ dropped' = dropped \cup Notices(Overflow(replayQueue \o events, QueueMax))

HasActiveStream == link = "up" \/ halfOpen > 0

\* handleUpstreamNotification: forwarded to every active stream
Forward ==
    LET events == Numbered(<<arrived + 1>>) IN
    /\ arrived < MaxNotices /\ HasActiveStream
    /\ arrived' = arrived + 1
    /\ Queue(events)
    /\ wire' = IF link = "up" THEN wire \o events ELSE wire
    /\ UNCHANGED <<buffer, halfOpen, link, posts, client>>

\* handleUpstreamNotification: kept for the next stream (NotificationQueue.push)
Buffer ==
    LET full == Append(buffer, arrived + 1) IN
    /\ arrived < MaxNotices /\ ~HasActiveStream
    /\ arrived' = arrived + 1
    /\ buffer' = Newest(full, BufferMax)
    /\ dropped' = dropped \cup Elements(Overflow(full, BufferMax))
    /\ UNCHANGED <<nextEventId, replayQueue, halfOpen, link, wire, posts, client>>

\* The oldest entry outlives ttlMs; push and drain pass over it from now on.
Outlive ==
    /\ buffer # <<>>
    /\ buffer' = Tail(buffer) /\ dropped' = dropped \cup {Head(buffer)}
    /\ UNCHANGED <<nextEventId, replayQueue, halfOpen, link, wire, posts, client, arrived>>

\* replayMessages, for a request with a Last-Event-ID header: the events of a
\* higher id, which are the end of the queue, for ids ascend in it.
After(seen) == SubSeq(replayQueue, Max({0} \cup seen) + 1, Len(replayQueue))
MissedOrLast(last) == After({i \in DOMAIN replayQueue : replayQueue[i].id < last})
Missed(last) == After({i \in DOMAIN replayQueue : replayQueue[i].id <= last})
Resent == IF lastId = NoId THEN <<>> ELSE Missed(lastId)

\* startSSEStream: replays, then drains the notification queue
OpenStream ==
    LET events == Numbered(buffer) IN
    /\ link = "none"
    /\ link' = "up"
    /\ wire' = Resent \o events
    /\ buffer' = <<>>
    /\ Queue(events)
    /\ UNCHANGED <<halfOpen, posts, client, arrived>>

\* startSSEResponse: the answer to a POST
RespondOnPost ==
    /\ nextEventId < MaxPostId
    /\ nextEventId' = nextEventId + 1
    /\ posts' = posts \cup {nextEventId'}
    /\ UNCHANGED <<replayQueue, buffer, halfOpen, link, wire, client, arrived, dropped>>

\* The 'close' handler, or a write that throws, for a stream the client has
\* lost and for the one it still reads.
DetectLoss ==
    /\ halfOpen > 0 /\ halfOpen' = halfOpen - 1
    /\ UNCHANGED <<nextEventId, replayQueue, buffer, link, wire, posts, client, arrived, dropped>>
CloseStream ==
    /\ link = "up" /\ link' = "cut"
    /\ UNCHANGED <<nextEventId, replayQueue, buffer, halfOpen, wire, posts, client, arrived, dropped>>

----------------------------------------------------------------------------
(* The client and the network *)

Read ==
    /\ wire # <<>>
    /\ wire' = Tail(wire)
    /\ lastId' = Head(wire).id /\ got' = Append(got, Head(wire).notice)
    /\ UNCHANGED <<nextEventId, replayQueue, buffer, halfOpen, link, posts, arrived, dropped>>

\* A POST response is read, or lost with its connection.
ReadPost(id) ==
    /\ id \in posts /\ posts' = posts \ {id}
    /\ lastId' = IF TracksPosts THEN id ELSE lastId
    /\ UNCHANGED <<nextEventId, replayQueue, buffer, halfOpen, link, wire, got, arrived, dropped>>
LosePost(id) ==
    /\ id \in posts /\ posts' = posts \ {id}
    /\ UNCHANGED <<nextEventId, replayQueue, buffer, halfOpen, link, wire, client, arrived, dropped>>

\* The client's end closes, and what is on its way is lost.
LoseStream ==
    /\ link # "none" /\ link' = "none" /\ wire' = <<>>
    /\ halfOpen' = IF link = "up" THEN halfOpen + 1 ELSE halfOpen
    /\ halfOpen' <= MaxHalfOpen
    /\ UNCHANGED <<nextEventId, replayQueue, buffer, posts, client, arrived, dropped>>

SseNext ==
    \/ Forward \/ Buffer \/ Outlive \/ OpenStream \/ RespondOnPost
    \/ DetectLoss \/ CloseStream \/ Read \/ LoseStream
    \/ \E id \in EventId : ReadPost(id) \/ LosePost(id)

SseSpec == SseInit /\ [][SseNext]_sseVars

----------------------------------------------------------------------------
(* Properties *)

\* The state is of its types, neither queue outgrows its cap, and the replay
\* queue holds events in the order of their ids.
SseTypeOK ==
    /\ nextEventId \in EventId \cup {NoId} /\ lastId \in 0 .. nextEventId
    /\ replayQueue \in Seq(Event) /\ Len(replayQueue) <= QueueMax
    /\ \A i, j \in DOMAIN replayQueue : i < j => replayQueue[i].id < replayQueue[j].id
    /\ buffer \in Seq(Notice) /\ Len(buffer) <= BufferMax
    /\ halfOpen \in 0 .. MaxHalfOpen /\ link \in Link
    /\ wire \in Seq(Event) /\ posts \subseteq EventId
    /\ got \in Seq(Notice) /\ arrived \in 0 .. MaxNotices /\ dropped \subseteq Notice

\* The client reads notifications in the order they arrived, none twice,
\* however many streams it took and whatever replay and buffer each began
\* with (startSSEStream).
InOrder == \A i, j \in DOMAIN got : i < j => got[i] < got[j]

\* A client with an open stream and nothing on its way has every notification
\* that arrived since the first it read, but those a full queue or the TTL has
\* dropped (replayMessages, sendToClient).
UpToDate == link = "up" /\ wire = <<>>
NoGap ==
    UpToDate /\ got # <<>> =>
        Head(got) .. arrived \subseteq Elements(got) \cup dropped

\* What the client reads is the stream of notifications: in order, and whole
\* from the first it read on.
Delivered == InOrder /\ NoGap

\* The same of every notification, from the first that arrived: "client can
\* reconnect and receive missed messages" (replayMessages), and notifications
\* drained from the buffer "survive a second reconnect" (CHANGELOG).
NothingMissed == UpToDate => 1 .. arrived \subseteq Elements(got) \cup dropped

=============================================================================
