--------------------------- MODULE InputBuffers ----------------------------
(***************************************************************************)
(* The input plugin's buffers (xine_input_vdr.c).  Blocks of the stream    *)
(* wait for the demuxer in block_buffer; their memory comes from the pool  *)
(* of xine's video fifo, for HD streams from a larger pool of the plugin,  *)
(* for big packets from block_buffer itself, as a last resort from the     *)
(* audio fifo.  VDR is told to wait (Poll) before a pool runs dry, since   *)
(* control buffers (blanking, decoder flush) come from the same pool and   *)
(* are dropped when there is none left.  What is reserved depends on the   *)
(* stream (HD, radio) and on live mode, which VDR's commands change while  *)
(* data is queued.                                                         *)
(***************************************************************************)
EXTENDS Integers, FiniteSets

CONSTANTS PoolSize,     \* buffers of the video fifo
          HdSize,       \* buffers of the HD pool (media.xvdr.num_buffers_hd)
          RadioMax,     \* RADIO_MAX_BUFFERS (10)
          Reserve,      \* kept for control messages and the TS demuxer (10)
          BufRemote     \* the plugin plays over the network

ASSUME BufAssumption ==
  PoolSize \in Nat /\ HdSize \in Nat /\ RadioMax \in Nat /\ Reserve \in Nat
  /\ RadioMax + Reserve <= PoolSize /\ RadioMax + Reserve <= HdSize

VARIABLES
  lim,      \* the kind of the stream, and reserved_buffers
  pool,     \* per pool: free buffers
  queued,   \* block_buffer: waiting blocks per pool, and control buffers
  poll      \* a POLL that waits: the pool and the limit it has looked up

bufVars == <<lim, pool, queued, poll>>

Pools == {"sd", "hd", "block", "audio"}
Capacity == [sd |-> PoolSize, hd |-> HdSize, block |-> 1, audio |-> 1]

(* Packet sizes: up to HD_BUF_ELEM_SIZE, up to 8000 bytes, up to 64 k.     *)
PacketSizes == {"small", "medium", "big"}

-----------------------------------------------------------------------------
(* set_buffer_limits().                                                    *)

(* Wrong variant, for the sensitivity checks: nothing is kept for control  *)
(* messages; the sanity check of the code makes it two.                    *)
LimitsUnreserved(l) ==
  LET capacity == IF l.hd_stream THEN HdSize ELSE PoolSize
  IN [l EXCEPT !.reserved = IF l.no_video THEN capacity - RadioMax
                            ELSE IF ~l.live_mode /\ ~BufRemote THEN capacity \div 4 ELSE 0]

SetBufferLimits(l) ==
  LET capacity == IF l.hd_stream THEN HdSize ELSE PoolSize
  IN [l EXCEPT !.reserved = IF l.no_video THEN capacity - RadioMax
                            ELSE Reserve + IF ~l.live_mode /\ ~BufRemote
                                           THEN capacity \div 4 ELSE 0]

HDMODE == /\ \E on \in BOOLEAN : lim' = SetBufferLimits([lim EXCEPT !.hd_stream = on])
          /\ UNCHANGED <<pool, queued, poll>>

NOVIDEO == /\ \E on \in BOOLEAN : lim' = SetBufferLimits([lim EXCEPT !.no_video = on])
           /\ UNCHANGED <<pool, queued, poll>>

LiveMode == /\ \E on \in BOOLEAN : lim' = SetBufferLimits([lim EXCEPT !.live_mode = on])
            /\ UNCHANGED <<pool, queued, poll>>

-----------------------------------------------------------------------------
(* get_buf_element(), without force.  The pool a packet gets its buffer    *)
(* from, "none" when the data has to wait.                                 *)
Fallback(p) == IF p # "none" /\ pool[p] > 0 THEN p
               ELSE IF pool["audio"] > 0 THEN "audio" ELSE "none"

GetBufElement(size) ==
  IF lim.hd_stream /\ size = "small"
  THEN IF pool["hd"] > lim.reserved /\ pool["hd"] > 0 THEN "hd" ELSE "none"
  ELSE IF pool["sd"] < lim.reserved THEN "none"
  ELSE Fallback(IF size = "big" THEN "block" ELSE "sd")

(* vdr_plugin_write(), or the network reader: a packet is queued, or is    *)
(* offered again later.  A big packet that got only a small buffer is      *)
(* dropped.                                                                *)
BufWrite ==
  \E size \in PacketSizes :
    LET p == GetBufElement(size)
    IN /\ p # "none" /\ ~(size = "big" /\ p = "audio")
       /\ pool' = [pool EXCEPT ![p] = @ - 1]
       /\ queued' = [queued EXCEPT ![p] = @ + 1]
       /\ UNCHANGED <<lim, poll>>

(* put_control_buf(): dropped when the pool is empty.                      *)
PutControlBuf ==
  /\ pool["sd"] > 0
  /\ pool' = [pool EXCEPT !["sd"] = @ - 1]
  /\ queued' = [queued EXCEPT !.control = @ + 1]
  /\ UNCHANGED <<lim, poll>>

(* The demuxer takes a buffer and frees it (buffer_pool_free()): control   *)
(* buffers are those of the video fifo.                                    *)
BufRead ==
  \/ /\ queued.control > 0
     /\ queued' = [queued EXCEPT !.control = @ - 1]
     /\ pool' = [pool EXCEPT !["sd"] = @ + 1]
     /\ UNCHANGED <<lim, poll>>
  \/ \E p \in Pools : /\ queued[p] > 0
                      /\ queued' = [queued EXCEPT ![p] = @ - 1]
                      /\ pool' = [pool EXCEPT ![p] = @ + 1]
                      /\ UNCHANGED <<lim, poll>>

(* flush_all_fifos(): the reader's block and block_buffer go back to the   *)
(* pools they came from.                                                   *)
FlushAllFifos ==
  /\ pool' = [p \in Pools |-> pool[p] + queued[p] + IF p = "sd" THEN queued.control ELSE 0]
  /\ queued' = [c \in DOMAIN queued |-> 0]
  /\ UNCHANGED <<lim, poll>>

(* vdr_plugin_poll(): the pool and its limit are looked up, then the entry *)
(* lock is given up while there is no room.                                *)
PollPool == IF lim.hd_stream THEN "hd" ELSE "sd"

BufPoll ==
  /\ poll = [pool |-> "none", reserved |-> 0]
  /\ pool[PollPool] - lim.reserved <= 0
  /\ poll' = [pool |-> PollPool, reserved |-> lim.reserved]
  /\ UNCHANGED <<lim, pool, queued>>

(* There is room, or the time is over.                                     *)
BufPollEnds ==
  /\ poll.pool # "none"
  /\ poll' = [pool |-> "none", reserved |-> 0]
  /\ UNCHANGED <<lim, pool, queued>>

(* vdr_plugin_open(): as for radio, until VDR tells what the stream is.    *)
BufInit ==
  /\ lim = [hd_stream |-> FALSE, no_video |-> FALSE, live_mode |-> FALSE,
            reserved |-> PoolSize - RadioMax]
  /\ pool = Capacity
  /\ queued = [sd |-> 0, hd |-> 0, block |-> 0, audio |-> 0, control |-> 0]
  /\ poll = [pool |-> "none", reserved |-> 0]

BufNext == \/ HDMODE \/ NOVIDEO \/ LiveMode \/ BufWrite \/ PutControlBuf
           \/ BufRead \/ FlushAllFifos \/ BufPoll \/ BufPollEnds

-----------------------------------------------------------------------------
(* Type invariant.                                                         *)
BufTypeOK ==
  /\ \A p \in Pools : pool[p] \in 0..Capacity[p]
  /\ lim.reserved \in 0..(PoolSize + HdSize)
  /\ poll.pool \in Pools \cup {"none"}

(* Control messages find a buffer.  Whatever the stream was when its       *)
(* blocks were queued, and however often HDMODE, NOVIDEO and LIVE changed  *)
(* the limits since (an HD stream's limits decide about the video fifo     *)
(* too, for its larger packets), blocks never take more of the video       *)
(* fifo's pool than set_buffer_limits() leaves to them: the reserve is     *)
(* there for control buffers.  (One block may start at the limit: the      *)
(* comparison of the video fifo's pool is not strict.)                     *)
ControlHasRoom == queued["sd"] <= PoolSize - Reserve + 1
=============================================================================
