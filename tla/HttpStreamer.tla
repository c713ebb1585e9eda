---- MODULE HttpStreamer ----
(***************************************************************************)
(* cHttpStreamer (tools/http.c): a thread of its own per HTTP client that  *)
(* sends a media file to a slave stream, and the list of all streamers.    *)
(* One streamer is modelled in detail, the others by their state in the    *)
(* list.  File offsets and lengths are small numbers; a request's range is *)
(* what ParseRange() makes of it, End = -1 for none.                       *)
(***************************************************************************)
EXTENDS Integers, Sequences, SequencesExt

CONSTANTS FileSize,       \* of the file that is streamed
          MaxStreamers,   \* more than this cancels the first one (20 in the code)
          WaitSeconds     \* a kept connection waits so long for a request (30)

VARIABLES streamers,   \* the list m_Streamers: "active" and "finished" threads; the last is this one
          http         \* the fields of this one, and the reply it is sending

httpVars == <<streamers, http>>

Ranges == [from : 0 .. FileSize, to : -1 .. FileSize]

\* cHttpStreamer(): CloseAll(true) takes the finished ones off the list
Purged(list) == SelectSeq(list, LAMBDA s : s = "active")
Added(list) ==
  LET all == Append(Purged(list), "active") IN IF Len(all) > MaxStreamers THEN Tail(all) ELSE all

HttpInit ==
  /\ streamers \in {Added(list) : list \in SeqOf({"active", "finished"}, MaxStreamers)}
  /\ http = [at |-> "request", m_Start |-> 0, m_End |-> -1, m_KeepOpen |-> TRUE, open |-> FALSE,
             start |-> 0, replies |-> 0, length |-> 0, sent |-> 0, wait |-> 0]

\* ParseRequest(): without a Range header the old range stays
Parsed(h, range, keep) ==
  [(IF range = <<>> THEN h ELSE [h EXCEPT !.m_Start = range[1].from, !.m_End = range[1].to])
     EXCEPT !.m_KeepOpen = keep]

Satisfiable(h) == h.m_Start < FileSize

\* Wrong variant, for the sensitivity checks: the file's length is
\* announced for a range with a start but no end
RepliedWhole(h) ==
  LET end == IF h.m_Start > 0 /\ (h.m_End >= FileSize \/ h.m_End < 0) THEN FileSize - 1 ELSE h.m_End
  IN  [h EXCEPT !.m_End = end, !.open = TRUE, !.replies = IF @ < 2 THEN @ + 1 ELSE @,
                !.length = FileSize, !.sent = 0]

\* Seek(): the end is cut to the file only for a range that does not begin at 0
Replied(h) ==
  LET end == IF h.m_Start > 0 /\ (h.m_End >= FileSize \/ h.m_End < 0) THEN FileSize - 1 ELSE h.m_End
      size == IF end >= 0 THEN end + 1 ELSE FileSize
  IN  [h EXCEPT !.m_End = end, !.open = TRUE, !.replies = IF @ < 2 THEN @ + 1 ELSE @,
                !.length = size - h.m_Start, !.sent = 0]

\* the headers end in one of these ways; a header may be missing
RangeHeaders == {<<>>} \cup {<<r>> : r \in Ranges}

\* Action(): the request the server has read
FirstRequest ==
  /\ http.at = "request"
  /\ \E range \in RangeHeaders, keep \in BOOLEAN :
       LET h == Parsed(http, range, keep)
       IN  http' = IF Satisfiable(h) THEN [Replied(h) EXCEPT !.at = "send", !.start = h.m_Start]
                   ELSE [h EXCEPT !.at = "close"]
  /\ UNCHANGED streamers

\* how much is left of the range
Left == IF http.m_End > 0 THEN http.m_End - http.start + 1 ELSE FileSize - http.start

\* sendfile(): some of it, none of it yet (the socket is full), or the end of the file
SendSome ==
  /\ http.at = "send" /\ Left > 0
  /\ \/ \E n \in 1 .. Left :
          /\ http.start + n <= FileSize
          /\ http' = [http EXCEPT !.start = @ + n, !.sent = @ + n]
     \/ http.start >= FileSize /\ http' = [http EXCEPT !.at = "close"]
  /\ UNCHANGED streamers

\* the client has gone: sendfile() or readline() fails
HttpGone ==
  /\ http.at \in {"send", "wait"}
  /\ http' = [http EXCEPT !.at = "close"]
  /\ UNCHANGED streamers

RangeDone ==
  /\ http.at = "send" /\ Left <= 0
  /\ http' = IF http.m_KeepOpen THEN [http EXCEPT !.at = "wait", !.wait = WaitSeconds]
             ELSE [http EXCEPT !.at = "close"]
  /\ UNCHANGED streamers

\* one turn of the waiting loop; a request that is read is answered with its
\* headers, and the loop goes on waiting
Counted(h) == IF h.wait = 1 THEN [h EXCEPT !.at = "close", !.wait = 0] ELSE [h EXCEPT !.wait = @ - 1]

WaitSecond == http.at = "wait" /\ http' = Counted(http) /\ UNCHANGED streamers

PipelinedRequest ==
  /\ http.at = "wait"
  /\ \E range \in RangeHeaders, keep \in BOOLEAN :
       LET h == Parsed(http, range, keep)
       IN  http' = IF Satisfiable(h) THEN Counted(Replied(h)) ELSE [h EXCEPT !.at = "close"]
  /\ UNCHANGED streamers

\* the thread's end: both descriptors are closed
CloseFiles ==
  /\ http.at = "close"
  /\ http' = [http EXCEPT !.at = "finished", !.open = FALSE]
  /\ streamers' = [streamers EXCEPT ![Len(streamers)] = "finished"]

\* another streamer ends, or a new one is made for another client: this one is
\* purged when it has finished
OtherEnds == \E i \in 1 .. Len(streamers) - 1 :
  /\ streamers[i] = "active" /\ streamers' = [streamers EXCEPT ![i] = "finished"] /\ UNCHANGED http
NextStreamer ==
  /\ http.at = "finished"
  /\ streamers' = Added(streamers)
  /\ http' = [at |-> "request", m_Start |-> 0, m_End |-> -1, m_KeepOpen |-> TRUE, open |-> FALSE,
              start |-> 0, replies |-> 0, length |-> 0, sent |-> 0, wait |-> 0]

HttpNext == FirstRequest \/ SendSome \/ HttpGone \/ RangeDone \/ WaitSecond \/ PipelinedRequest
            \/ CloseFiles \/ OtherEnds \/ NextStreamer

---------------------------------------------------------------------------
HttpTypeOK ==
  /\ http.at \in {"request", "send", "wait", "close", "finished"}
  /\ http.sent \in 0 .. FileSize /\ http.wait \in 0 .. WaitSeconds
  /\ Len(streamers) \in 1 .. MaxStreamers
  /\ http.open => http.at # "finished"

\* ranges an HTTP client may ask for: within the file, not empty; "bytes=0-0" is
\* taken for a range without an end by Action() but not by Seek()
ProperRange == http.m_End = -1 \/ (http.m_End > 0 /\ http.m_Start <= http.m_End /\ http.m_End < FileSize)

\* The body of the first reply is never longer than its Content-Length says, and
\* a connection is kept only when the body was sent to its last byte: Seek()
\* announces, and Action() sends, the same part of the file.
BodyAsAnnounced ==
  (http.at \in {"send", "wait"} /\ http.replies = 1 /\ ProperRange) =>
    /\ http.sent <= http.length
    /\ http.at = "wait" => http.sent = http.length
====
