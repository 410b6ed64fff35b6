----------------------------- MODULE FrameStream -----------------------------
(***************************************************************************)
(* From the bytes of the server to its frames (fifo.c, memb.c, usart6.c,    *)
(* task_tcp_client.c, task_4g.c, task_handle_server_frame.c).               *)
(*                                                                          *)
(* Bytes arrive in pieces cut anywhere: those of the 4G module in its       *)
(* interrupt, those of the Ethernet link in the TCP client's task.  Both    *)
(* put each piece into one pool of blocks.  The task of whichever link is    *)
(* connected takes one block a pass, appends it to the one receive buffer   *)
(* and cuts frames from it; what stays without an end is thrown away after  *)
(* three seconds.  The 4G task preempts the TCP client's, which may be in   *)
(* the middle of putting a piece; the mutex covers the taking, not that.    *)
(*                                                                          *)
(* Bytes are numbers: H for 0x02, T for 0x03, n for the escaped contents of *)
(* the server's n-th frame, in which neither can occur.                     *)
(***************************************************************************)
EXTENDS Integers, Sequences, SequencesExt, FiniteSetsExt

CONSTANTS
  NFrame,      \* bound: frames the server sends
  NBlock,      \* blocks of dl_buf (3)
  PieceMax,    \* bound: bytes of a piece
  QueueLen,    \* of xQueue_ServerFrameRx
  Timeout,     \* seconds after which an incomplete frame is thrown away (3)
  MaxLink      \* bound: changes of a link

H == 0
T == -1
Byte == T .. NFrame
Frame(n) == <<H, n, T>>
Link == {"4G", "ETH"}
Block == 1 .. NBlock

ASSUME StreamAssumption ==
  NFrame \in Nat /\ NBlock \in Nat \ {0} /\ PieceMax \in Nat \ {0}
  /\ QueueLen \in Nat \ {0} /\ Timeout \in Nat \ {0} /\ MaxLink \in Nat

VARIABLES
  sent,      \* frames the server has sent
  wire,      \* per link: the bytes on their way
  blocks,    \* dl_buf: [count, data]
  put,       \* fifo_put of the TCP client: [at, block, piece]
  eth,       \* where the TCP client's loop is
  up4g,      \* EC20ConnectState = CONNECTED
  recv_buf, age,  \* its first recv_pos bytes; GetSysTick1s() - time_r
  queue,     \* xQueue_ServerFrameRx
  links,     \* changes of a link so far
  arrived,   \* for the properties: every byte put, in the order of arrival
  handled,   \* for the properties: numbers of the frames that were handled
  trouble    \* for the properties: "none", "rough", or "torn"

net   == <<sent, wire>>
pool  == <<blocks, put>>
frame == <<recv_buf, age, queue>>
ghost == <<arrived, handled, trouble>>
vars  == <<net, pool, eth, up4g, frame, links, ghost>>

NoPut == [at |-> "none", block |-> 0, piece |-> << >>]

Init ==
  /\ sent = 0 /\ wire = [l \in Link |-> << >>]
  /\ blocks = [b \in Block |-> [count |-> 0, data |-> << >>]] /\ put = NoPut
  /\ eth = "connect" /\ up4g = FALSE
  /\ recv_buf = << >> /\ age = 0 /\ queue = << >>
  /\ links = 0
  /\ arrived = << >> /\ handled = << >> /\ trouble = "none"

(* Trouble never heals; torn is worse than rough.                           *)
Worse(what, holds) ==
  IF trouble = "torn" \/ ~holds THEN trouble ELSE what

-----------------------------------------------------------------------------
(* The server sends a frame on a link; a link breaks and what is under way  *)
(* is lost; the state of the 4G link is refreshed.                          *)
ServerSends ==
  /\ sent < NFrame /\ sent' = sent + 1
  /\ \E l \in Link : wire' = [wire EXCEPT ![l] = @ \o Frame(sent + 1)]
  /\ UNCHANGED <<pool, eth, up4g, frame, links, ghost>>

Change == links < MaxLink /\ links' = links + 1

LinkChanges ==
  /\ Change
  /\ up4g' = ~up4g
  /\ \E lost \in BOOLEAN :
       /\ wire' = IF lost THEN [wire EXCEPT !["4G"] = << >>] ELSE wire
       /\ trouble' = Worse("rough", wire' # wire)
  /\ UNCHANGED <<sent, pool, eth, frame, arrived, handled>>

-----------------------------------------------------------------------------
(* fifo_put: the first block that is free, or the piece is lost.            *)
Free == {b \in Block : blocks[b].count = 0}
Used == Block \ Free

Marked(b) == [blocks EXCEPT ![b].count = @ + 1]
Filled(bs, b, piece) == [bs EXCEPT ![b].data = piece]

PieceOf(l) == {k \in 1 .. PieceMax : k <= Len(wire[l])}

Arrive(l, k) ==
  /\ wire' = [wire EXCEPT ![l] = SubSeq(@, k + 1, Len(@))]
  /\ arrived' = arrived \o SubSeq(wire[l], 1, k)

(* A frame of the other link has partly arrived.                            *)
OtherInside(l) == \E o \in Link \ {l} : wire[o] # << >> /\ Head(wire[o]) # H

(* USART6_IRQHandler, in one go.                                            *)
USART6_IRQHandler ==
  \E k \in PieceOf("4G") :
    /\ Arrive("4G", k)
    /\ blocks' = IF Free = {} THEN blocks
                 ELSE Filled(Marked(Min(Free)), Min(Free), SubSeq(wire["4G"], 1, k))
    /\ trouble' = Worse("rough", Used # {} \/ put # NoPut \/ OtherInside("4G"))
    /\ UNCHANGED <<sent, put, eth, up4g, frame, links, handled>>

(* The TCP client: netconn_recv, then fifo_put for each part.               *)
Receive ==
  /\ eth = "receive"
  /\ \E k \in PieceOf("ETH") :
       /\ Arrive("ETH", k)
       /\ put' = [at |-> "find", block |-> 0, piece |-> SubSeq(wire["ETH"], 1, k)]
       /\ trouble' = Worse("rough", Used # {} \/ OtherInside("ETH"))
  /\ eth' = "put"
  /\ UNCHANGED <<sent, blocks, up4g, frame, links, handled>>

Find ==
  /\ eth = "put" /\ put.at = "find"
  /\ IF Free = {} THEN put' = NoPut /\ eth' = "receive"
     ELSE put' = [put EXCEPT !.at = "mark", !.block = Min(Free)] /\ UNCHANGED eth
  /\ trouble' = Worse("rough", Free = {})
  /\ UNCHANGED <<net, blocks, up4g, frame, links, arrived, handled>>

Mark ==
  /\ eth = "put" /\ put.at = "mark"
  /\ blocks' = Marked(put.block)
  /\ put' = [put EXCEPT !.at = "fill"]
  /\ trouble' = Worse("torn", put.block \in Used)
  /\ UNCHANGED <<net, eth, up4g, frame, links, arrived, handled>>

Fill ==
  /\ eth = "put" /\ put.at = "fill"
  /\ blocks' = Filled(blocks, put.block, put.piece)
  /\ put' = NoPut /\ eth' = "receive"
  /\ UNCHANGED <<net, up4g, frame, links, ghost>>

-----------------------------------------------------------------------------
(* RecvNetFrameAndPushToRxQueue.                                            *)
(* fifo_get: the first block in use, whichever arrived first.               *)
GetTwice(b) == blocks
Get(b) == [blocks EXCEPT ![b].count = @ - 1]

FirstPos(buf, byte) == IF \E i \in DOMAIN buf : buf[i] = byte
                       THEN Min({i \in DOMAIN buf : buf[i] = byte}) ELSE 0

(* Without another turn of the loop.                                        *)
CutFirst(buf) ==
  LET head == FirstPos(buf, H)
      tail == FirstPos(buf, T)
  IN IF head # 0 /\ tail > head
     THEN [frames |-> <<SubSeq(buf, head, tail)>>, rest |-> << >>]
     ELSE [frames |-> << >>, rest |-> buf]

(* ANALYSIS_LOOP: the frames in the buffer, and what stays.  An end before *)
(* the first start hides all that follows.                                  *)
Cut[buf \in Seq(Int)] ==
  LET head == FirstPos(buf, H)
      tail == FirstPos(buf, T)
      frame_len == tail + 1 - head
      more == Cut[SubSeq(buf, tail + 1, Len(buf))]
  IN IF ~(head # 0 /\ tail > head) THEN [frames |-> << >>, rest |-> buf]
     ELSE IF Len(buf) > frame_len
          THEN [frames |-> <<SubSeq(buf, head, tail)>> \o more.frames, rest |-> more.rest]
          ELSE [frames |-> <<SubSeq(buf, head, tail)>>, rest |-> << >>]

Analysis(buf) == Cut[buf]

(* A frame the queue has no room for is deleted.                            *)
Kept(frames) == SubSeq(queue \o frames, 1, Min({QueueLen, Len(queue \o frames)}))

Push(frames) ==
  /\ queue' = Kept(frames)
  /\ trouble' = Worse("rough", Len(queue) + Len(frames) > QueueLen)

KeepForEver == FALSE
Expired == age >= Timeout

TakeBlock ==
  LET b == Min(Used)
      cut == Analysis(recv_buf \o blocks[b].data)
  IN /\ blocks' = Get(b)
     /\ recv_buf' = cut.rest /\ age' = 0
     /\ IF put.at = "fill" /\ put.block = b
        THEN trouble' = "torn" /\ queue' = Kept(cut.frames)
        ELSE Push(cut.frames)

TakeNothing ==
  /\ IF Expired THEN recv_buf' = << >> ELSE UNCHANGED recv_buf
  /\ trouble' = Worse("rough", recv_buf' # recv_buf)
  /\ UNCHANGED <<blocks, age, queue>>

RecvNetFrameAndPushToRxQueue ==
  /\ (Used # {} /\ TakeBlock) \/ (Used = {} /\ TakeNothing)
  /\ UNCHANGED <<net, put, links, arrived, handled>>

Poll4G ==
  /\ up4g
  /\ RecvNetFrameAndPushToRxQueue
  /\ UNCHANGED <<eth, up4g>>

PollEth ==
  /\ eth = "receive" /\ put = NoPut
  /\ RecvNetFrameAndPushToRxQueue
  /\ eth' = "check"
  /\ UNCHANGED up4g

-----------------------------------------------------------------------------
(* The TCP client stays away while the 4G link is up.                       *)
Connect ==
  /\ eth = "connect" /\ ~up4g
  /\ eth' = "receive"
  /\ UNCHANGED <<net, pool, up4g, frame, links, ghost>>

Check ==
  /\ eth = "check"
  /\ IF up4g
     THEN /\ eth' = "connect"
          /\ wire' = [wire EXCEPT !["ETH"] = << >>]
     ELSE eth' = "receive" /\ UNCHANGED wire
  /\ trouble' = Worse("rough", wire' # wire)
  /\ UNCHANGED <<sent, pool, up4g, frame, links, arrived, handled>>

(* vTaskHANDLE_SERVER_FRAME: a frame whose CRC is wrong is dropped.         *)
ServerFrameHandle ==
  /\ queue # << >> /\ queue' = Tail(queue)
  /\ handled' = IF \E n \in 1 .. NFrame : Head(queue) = Frame(n)
                THEN Append(handled, Head(queue)[2]) ELSE handled
  /\ UNCHANGED <<net, pool, eth, up4g, recv_buf, age, links, arrived, trouble>>

Second ==
  /\ age < Timeout /\ recv_buf # << >> /\ age' = age + 1
  /\ UNCHANGED <<net, pool, eth, up4g, recv_buf, queue, links, ghost>>

TcpClient == Connect \/ Check \/ Receive \/ Find \/ Mark \/ Fill \/ PollEth

Next ==
  \/ ServerSends \/ LinkChanges \/ USART6_IRQHandler
  \/ Connect \/ Check \/ Receive \/ Find \/ Mark \/ Fill \/ PollEth
  \/ Poll4G \/ ServerFrameHandle \/ Second

Spec == Init /\ [][Next]_vars

(* The tasks are scheduled, time passes; bytes need not arrive.             *)
FairSpec ==
  /\ Spec
  /\ WF_vars(Poll4G) /\ WF_vars(Second) /\ WF_vars(ServerFrameHandle)
  /\ WF_vars(Connect) /\ WF_vars(Check) /\ WF_vars(Find) /\ WF_vars(Mark) /\ WF_vars(Fill)
  /\ SF_vars(PollEth)

-----------------------------------------------------------------------------
TypeOK ==
  /\ sent \in 0 .. NFrame /\ wire \in [Link -> Seq(Byte)]
  /\ blocks \in [Block -> [count : 0 .. 2, data : Seq(Byte)]]
  /\ put \in [at : {"none", "find", "mark", "fill"}, block : 0 .. NBlock, piece : Seq(Byte)]
  /\ eth \in {"connect", "check", "receive", "put"} /\ up4g \in BOOLEAN
  /\ recv_buf \in Seq(Byte) /\ age \in 0 .. Timeout
  /\ queue \in Seq(Seq(Byte)) /\ Len(queue) <= QueueLen
  /\ links \in 0 .. MaxLink /\ trouble \in {"none", "rough", "torn"}
  /\ arrived \in Seq(Byte) /\ handled \in Seq(1 .. NFrame)

(* What a block holds: a marked one that is still to be filled holds nothing *)
(* yet.                                                                     *)
Live(b) == IF b \in Used /\ ~(put.at = "fill" /\ put.block = b) THEN blocks[b].data ELSE << >>

(* While pieces are taken before the next arrives, on one link at a time,   *)
(* and nothing times out or overflows, no byte is lost, repeated or moved,  *)
(* however the frames are cut: what was handled, what waits in the queue,   *)
(* the buffer, the blocks and the put are together all that arrived.        *)
ExactStream ==
  trouble = "none" =>
    arrived = FlattenSeq([i \in DOMAIN handled |-> Frame(handled[i])]) \o FlattenSeq(queue)
              \o recv_buf \o FlattenSeq([b \in Block |-> Live(b)]) \o put.piece

(* A request of the server is handled at most once, whatever was lost and   *)
(* reordered, unless the 4G task took a block the TCP client was filling or *)
(* the interrupt took the one it had found.                                 *)
HandledOnce ==
  trouble # "torn" => IsInjective(handled)

(* What never gets an end does not stay: once the server is silent the      *)
(* buffer empties and the next frame meets the state of the start.          *)
Resynchronises == (recv_buf # << >>) ~> (recv_buf = << >>)
=============================================================================
