---------------------------- MODULE ServerSession ----------------------------
(***************************************************************************)
(* The two links to the server and the login (task_4g.c, ec20.c, usart6.c,   *)
(* task_tcp_client.c, server_protocol.c, concentrator_comm.c).              *)
(*                                                                          *)
(* The 4G task asks its modem for the state of the socket and drives it by  *)
(* AT commands; the interrupt writes the same state when the modem says the  *)
(* socket is closed.  The TCP client connects over Ethernet, in the mode    *)
(* "inside" only while 4G is not connected.  The concentrator task logs in  *)
(* again while LoginResponse is 0.  That one flag stands for the session on *)
(* either link, and for whichever connection was there when it was set.     *)
(***************************************************************************)
EXTENDS Integers, Sequences

CONSTANTS
  Modes,         \* the values of connection_mode that are configured
  TxLen,         \* of xQueue_4gFrameTx and xQueue_EthFrameTx (25)
  RxLen,         \* of xQueue_ServerFrameRx (20)
  NBlock,        \* blocks of dl_buf (3)
  Times,         \* command_retransmission_times
  MaxChange      \* bound: failures, closed connections, messages

ASSUME SessionAssumption ==
  /\ Modes \subseteq {"INSIDE", "4G", "ETH"}
  /\ TxLen \in Nat \ {0} /\ RxLen \in Nat \ {0} /\ Times \in Nat \ {0} /\ MaxChange \in Nat
  /\ NBlock \in Nat \ {0}

Link == {"4G", "ETH"}
State == {"UNKNOW", "INITIAL", "OPENING", "GOT_IP", "CONNECTED", "CLOSING"}

VARIABLES
  connection_mode,
  LoginResponse, retry_times1,
  FlagReConnectToServer,
  EC20ConnectState,
  task4G, asked,   \* where the 4G task is; while it asks, what the modem answered
  socket, pdp,     \* of the modem: "none", "open" or "closed" by the server
  urc,             \* "closed" is on its way to the interrupt
  eth,             \* of the TCP client: "none", "open", "closed" so that it is told,
                   \* or "reset" while it was not waiting to receive
  tx,              \* per link: login frames in its queue
  up,              \* per link: a login is on its way
  down,            \* an answer to one waits in the connection of the TCP client
  dl_buf,          \* per block: the answer in it; both links share them
  rx,              \* answers to logins in xQueue_ServerFrameRx
  known,           \* per link: the server accepted a login on this connection
  changes,
  again,           \* for the properties: the socket was there since RE_INIT, and is not
  excused          \* for the properties, see KnownUnlessExcused

login  == <<LoginResponse, retry_times1>>
ec20   == <<EC20ConnectState, task4G, asked>>
modem  == <<socket, pdp, urc>>
net    == <<up, down, dl_buf, rx, known>>
vars == <<connection_mode, login, FlagReConnectToServer, ec20, modem, eth, tx, net, changes,
          again, excused>>

Both(v) == [l \in Link |-> v]

Blocks == 1 .. NBlock
(* An answer to a login is told by the link it came over, and is "old" once *)
(* the connection it came over has ended.                                   *)
Answers == Link \cup {"old"}
Free == "free"
Lowest(S) == CHOOSE b \in S : \A c \in S : b <= c

Init ==
  /\ connection_mode \in Modes
  /\ LoginResponse = 0 /\ retry_times1 = 0 /\ FlagReConnectToServer = 0
  /\ EC20ConnectState = "UNKNOW" /\ task4G = "init" /\ asked = "UNKNOW"
  /\ socket = "none" /\ pdp = FALSE /\ urc = FALSE /\ eth = "none"
  /\ tx = Both(0) /\ up = Both(FALSE) /\ down = FALSE /\ known = Both(FALSE)
  /\ dl_buf = [b \in Blocks |-> Free] /\ rx = << >>
  /\ changes = 0 /\ again = FALSE /\ excused = FALSE

Change == changes < MaxChange /\ changes' = changes + 1

-----------------------------------------------------------------------------
(* InitServerFrameStruct: the link a frame that is built now goes to.       *)
LinkFor(mode, state, ethState) ==
  IF mode = "ETH" \/ (mode = "INSIDE" /\ state # "CONNECTED" /\ ethState # "none")
  THEN "ETH" ELSE "4G"
Use == LinkFor(connection_mode, EC20ConnectState, eth)

(* A login answered on one connection is credited to another.               *)
Credit(elsewhere) ==
  excused' = (LoginResponse' = 1 /\ (excused \/ elsewhere \/ Use' # Use))

(* The connection of l ends: what is under way on it is lost, what is in a  *)
(* block or in the queue is not.                                            *)
Outdated(l, a) == IF a = l THEN "old" ELSE a

Ends(l) ==
  /\ known' = [known EXCEPT ![l] = FALSE]
  /\ up' = [up EXCEPT ![l] = FALSE] /\ down' = (down /\ l # "ETH")
  /\ dl_buf' = [b \in Blocks |-> Outdated(l, dl_buf[b])]
  /\ rx' = [i \in DOMAIN rx |-> Outdated(l, rx[i])]

-----------------------------------------------------------------------------
(* RE_INIT of vTask4G, then ec20_soft_init.                                 *)
KeepLogin == LoginResponse' = LoginResponse
ClearLogin == LoginResponse' = 0

ReInit ==
  /\ ClearLogin
  /\ EC20ConnectState' = "UNKNOW" /\ task4G' = "init"
  /\ socket' = "none" /\ pdp' = FALSE /\ urc' = FALSE
  /\ again' = FALSE
  /\ Ends("4G")
  /\ UNCHANGED <<retry_times1, asked>>

Initialised ==
  /\ task4G = "init" /\ task4G' = "loop"
  /\ UNCHANGED <<connection_mode, login, FlagReConnectToServer, EC20ConnectState, asked, modem,
                 eth, tx, net, changes, again, excused>>

Turns == task4G = "loop" /\ connection_mode # "ETH"

ReConnect4G ==
  /\ Turns /\ FlagReConnectToServer = 2
  /\ FlagReConnectToServer' = 0
  /\ ReInit
  /\ UNCHANGED <<connection_mode, eth, tx, changes>>
  /\ Credit(FALSE)

(* The state is asked for whenever it is not CONNECTED, and every 30 s.     *)
OnlyUnconnected == EC20ConnectState # "CONNECTED"
Refresh == TRUE

Answer == CASE socket = "open" -> "CONNECTED"
            [] socket = "closed" -> "CLOSING"
            [] OTHER -> IF pdp THEN "GOT_IP" ELSE "UNKNOW"

ec20_get_AT_QISTATE ==
  /\ Turns /\ FlagReConnectToServer # 2 /\ Refresh
  /\ task4G' = "asking"
  /\ \/ asked' = Answer /\ UNCHANGED changes
     \/ Change /\ asked' \in {"UNKNOW", "INITIAL", "OPENING", "GOT_IP"} \ {Answer}
                                                       \* no answer, or in between
  /\ UNCHANGED <<connection_mode, login, FlagReConnectToServer, EC20ConnectState, modem, eth, tx,
                 net, again, excused>>

Asked ==
  /\ task4G = "asking" /\ task4G' = "switch"
  /\ EC20ConnectState' = asked /\ asked' = "UNKNOW"
  /\ UNCHANGED <<connection_mode, login, FlagReConnectToServer, modem, eth, tx, net, changes,
                 again>>
  /\ Credit(FALSE)

NotYet ==
  /\ Turns /\ FlagReConnectToServer # 2 /\ EC20ConnectState = "CONNECTED"
  /\ task4G' = "switch"
  /\ UNCHANGED <<connection_mode, login, FlagReConnectToServer, EC20ConnectState, asked, modem,
                 eth, tx, net, changes, again, excused>>

(* The switch: an AT command that fails leads to RE_INIT.                   *)
Fails == Change /\ ReInit /\ UNCHANGED tx
Succeeds == UNCHANGED <<changes, login, EC20ConnectState, asked>> /\ task4G' = "loop"

Left == again' = (again \/ socket # "none")

(* QIACT that does not succeed at once is tried again after QIDEACT, which   *)
(* ends the socket.                                                         *)
ec20_set_AT_QIACT ==
  \/ Fails
  \/ /\ Succeeds /\ pdp' = TRUE
     /\ \/ UNCHANGED <<socket, net, again>>
        \/ socket' = "none" /\ Left /\ Ends("4G")
     /\ UNCHANGED <<urc, tx>>

ec20_set_AT_QICLOSE ==
  \/ Fails
  \/ Succeeds /\ socket' = "none" /\ Left /\ Ends("4G") /\ UNCHANGED <<pdp, urc, tx>>

(* QIOPEN closes a socket that is open and opens it once more.              *)
ec20_set_AT_QIOPEN ==
  \/ Fails
  \/ /\ Succeeds
     /\ socket' = "open" /\ pdp' = TRUE /\ again' = FALSE /\ Ends("4G")
     /\ UNCHANGED <<urc, tx>>

Opening ==
  \/ Fails
  \/ Succeeds /\ UNCHANGED <<modem, tx, net, again>>

(* The blocks: an answer that finds none free is lost; the task of either   *)
(* link takes whatever is in the lowest one.                                *)
fifo_put(l, buf) ==
  LET free == {b \in Blocks : buf[b] = Free}
  IN IF free = {} THEN buf ELSE [buf EXCEPT ![Lowest(free)] = l]

RecvNetFrameAndPushToRxQueue(buf) ==
  LET used == {b \in Blocks : buf[b] # Free}
  IN IF used = {} THEN dl_buf' = buf /\ UNCHANGED rx
     ELSE /\ dl_buf' = [buf EXCEPT ![Lowest(used)] = Free]
          /\ rx' = IF Len(rx) < RxLen THEN Append(rx, buf[Lowest(used)]) ELSE rx

(* One frame is sent, on a connection that is no longer open to nowhere.    *)
PullTxQueueAndSendFrame(l, open) ==
  /\ IF tx[l] > 0
     THEN /\ tx' = [tx EXCEPT ![l] = @ - 1]
          /\ up' = IF open THEN [up EXCEPT ![l] = TRUE] ELSE up
     ELSE UNCHANGED <<tx, up>>
  /\ UNCHANGED known

(* CONNECTED: one block is taken, one frame is sent.                        *)
Poll4G ==
  /\ RecvNetFrameAndPushToRxQueue(dl_buf) /\ PullTxQueueAndSendFrame("4G", socket = "open")
  /\ Succeeds /\ UNCHANGED <<down, modem, again>>

Switch ==
  /\ task4G = "switch"
  /\ CASE EC20ConnectState = "UNKNOW" -> ec20_set_AT_QIACT
       [] EC20ConnectState \in {"INITIAL", "CLOSING"} -> ec20_set_AT_QICLOSE
       [] EC20ConnectState = "GOT_IP" -> ec20_set_AT_QIOPEN
       [] EC20ConnectState = "OPENING" -> Opening
       [] OTHER -> Poll4G
  /\ UNCHANGED <<connection_mode, FlagReConnectToServer, eth>>
  /\ Credit(EC20ConnectState = "GOT_IP" /\ socket' = "open" /\ (again \/ socket # "none"))

(* The interrupt, when the modem reports the socket closed.                 *)
Closed ==
  /\ urc /\ urc' = FALSE
  /\ EC20ConnectState' = "CLOSING"
  /\ UNCHANGED <<connection_mode, login, FlagReConnectToServer, task4G, asked, socket, pdp, eth,
                 tx, net, changes, again>>
  /\ Credit(FALSE)

-----------------------------------------------------------------------------
(* The TCP client.                                                          *)
KeptOff == connection_mode = "4G"
           \/ (connection_mode = "INSIDE" /\ EC20ConnectState = "CONNECTED")

(* An attempt that fails changes nothing.                                   *)
EthConnect ==
  /\ eth = "none" /\ ~KeptOff
  /\ eth' = "open"
  /\ UNCHANGED <<connection_mode, login, FlagReConnectToServer, ec20, modem, tx, net, changes,
                 again>>
  /\ Credit(FALSE)

EthClose ==
  /\ LoginResponse' = 0 /\ eth' = "none"
  /\ Ends("ETH")
  /\ UNCHANGED <<connection_mode, retry_times1, FlagReConnectToServer, ec20, modem, changes, again>>
  /\ Credit(FALSE)

EthKeptOff == eth # "none" /\ KeptOff /\ EthClose /\ UNCHANGED tx

(* netconn_recv answers ERR_RST for ever on a connection that was reset     *)
(* while the task was not in it, and the loop goes on.                      *)
EthLoop ==
  /\ eth \in {"open", "reset"} /\ ~KeptOff
  /\ RecvNetFrameAndPushToRxQueue(IF down THEN fifo_put("ETH", dl_buf) ELSE dl_buf)
  /\ down' = FALSE
  /\ PullTxQueueAndSendFrame("ETH", eth = "open")
  /\ UNCHANGED <<connection_mode, login, FlagReConnectToServer, ec20, modem, eth, changes, again,
                 excused>>

(* ERR_CLSD or ERR_ABRT: one block is taken and one frame sent before the   *)
(* connection is closed.                                                    *)
EthClosed ==
  /\ eth = "closed" /\ ~KeptOff
  /\ LoginResponse' = 0 /\ eth' = "none"
  /\ RecvNetFrameAndPushToRxQueue(dl_buf) /\ PullTxQueueAndSendFrame("ETH", FALSE)
  /\ UNCHANGED <<connection_mode, retry_times1, FlagReConnectToServer, ec20, modem, down,
                 changes, again>>
  /\ Credit(FALSE)

-----------------------------------------------------------------------------
(* The server, and the end of a connection.                                 *)
(* The interrupt puts what the modem delivers into a block; over Ethernet    *)
(* the task has to ask for it.                                              *)
Delivered(l) ==
  \/ l = "4G" /\ dl_buf' = fifo_put(l, dl_buf) /\ UNCHANGED down
  \/ l = "ETH" /\ down' = TRUE /\ UNCHANGED dl_buf

ServerAccepts(l) ==
  /\ up[l] /\ up' = [up EXCEPT ![l] = FALSE]
  /\ known' = [known EXCEPT ![l] = TRUE]
  /\ Delivered(l)
  /\ UNCHANGED <<connection_mode, login, FlagReConnectToServer, ec20, modem, eth, tx, rx,
                 changes, again, excused>>

ServerCloses ==
  /\ Change
  /\ \/ socket = "open" /\ socket' = "closed" /\ urc' \in BOOLEAN /\ Ends("4G") /\ UNCHANGED eth
     \/ eth = "open" /\ eth' \in {"closed", "reset"} /\ Ends("ETH") /\ UNCHANGED <<socket, urc>>
  /\ UNCHANGED <<connection_mode, login, FlagReConnectToServer, ec20, pdp, tx, again, excused>>

-----------------------------------------------------------------------------
(* The concentrator: AutoSendFrameToServer, each command_response_timeout.  *)
CountOn == retry_times1
StartAgain == 0

SendLogin ==
  /\ LoginResponse = 0
  /\ IF retry_times1 < Times
     THEN /\ retry_times1' = retry_times1 + 1
          /\ tx' = [tx EXCEPT ![Use] = IF @ < TxLen THEN @ + 1 ELSE @]
     ELSE retry_times1' = StartAgain /\ UNCHANGED tx
  /\ UNCHANGED <<connection_mode, LoginResponse, FlagReConnectToServer, ec20, modem, eth, net,
                 changes, again, excused>>

LoggedIn ==
  /\ LoginResponse = 1 /\ retry_times1' = 0
  /\ UNCHANGED <<connection_mode, LoginResponse, FlagReConnectToServer, ec20, modem, eth, tx, net,
                 changes, again, excused>>

(* Message 0x00E0, whatever login it answers.                               *)
HandleLogin ==
  /\ rx # << >> /\ rx' = Tail(rx)
  /\ LoginResponse' = 1
  /\ UNCHANGED <<connection_mode, retry_times1, FlagReConnectToServer, ec20, modem, eth, tx, up,
                 down, dl_buf, known, changes, again>>
  /\ Credit(Head(rx) # Use)

(* From the server or the panel; five seconds later it is passed on.        *)
ReConnectToServer ==
  /\ Change /\ FlagReConnectToServer' = 1
  /\ UNCHANGED <<connection_mode, login, ec20, modem, eth, tx, net, again, excused>>

PassOn ==
  /\ FlagReConnectToServer = 1 /\ FlagReConnectToServer' = 2
  /\ LoginResponse' = 0
  /\ UNCHANGED <<connection_mode, retry_times1, ec20, modem, eth, tx, net, changes, again>>
  /\ Credit(FALSE)

SetBasicConfiguration ==
  /\ Change /\ connection_mode' \in Modes \ {connection_mode}
  /\ UNCHANGED <<login, FlagReConnectToServer, ec20, modem, eth, tx, net, again>>
  /\ Credit(FALSE)

-----------------------------------------------------------------------------
Next ==
  \/ Initialised \/ ReConnect4G \/ ec20_get_AT_QISTATE \/ Asked \/ NotYet \/ Switch
  \/ Closed
  \/ EthConnect \/ EthKeptOff \/ EthLoop \/ EthClosed
  \/ \E l \in Link : ServerAccepts(l)
  \/ ServerCloses
  \/ SendLogin \/ LoggedIn \/ HandleLogin \/ ReConnectToServer \/ PassOn \/ SetBasicConfiguration

Spec == Init /\ [][Next]_vars

(* The tasks loop for ever, 30 s pass, the server answers.  The TCP client  *)
(* and the 4G task leave the state they loop in again and again.            *)
FairSpec ==
  /\ Spec
  /\ WF_vars(Initialised) /\ WF_vars(ReConnect4G) /\ SF_vars(ec20_get_AT_QISTATE)
  /\ WF_vars(Asked) /\ WF_vars(Switch)
  /\ SF_vars(EthConnect) /\ WF_vars(EthKeptOff) /\ SF_vars(EthLoop) /\ WF_vars(EthClosed)
  /\ \A l \in Link : WF_vars(ServerAccepts(l))
  /\ SF_vars(SendLogin) /\ WF_vars(LoggedIn) /\ WF_vars(HandleLogin) /\ WF_vars(PassOn)

-----------------------------------------------------------------------------
TypeOK ==
  /\ connection_mode \in Modes
  /\ LoginResponse \in 0 .. 1 /\ retry_times1 \in 0 .. Times
  /\ FlagReConnectToServer \in 0 .. 2
  /\ EC20ConnectState \in State /\ asked \in State
  /\ task4G \in {"init", "loop", "asking", "switch"}
  /\ socket \in {"none", "open", "closed"} /\ eth \in {"none", "open", "closed", "reset"}
  /\ pdp \in BOOLEAN /\ urc \in BOOLEAN
  /\ tx \in [Link -> 0 .. TxLen]
  /\ up \in [Link -> BOOLEAN] /\ down \in BOOLEAN /\ known \in [Link -> BOOLEAN]
  /\ dl_buf \in [Blocks -> Answers \cup {Free}]
  /\ rx \in Seq(Answers) /\ Len(rx) <= RxLen
  /\ changes \in 0 .. MaxChange /\ again \in BOOLEAN /\ excused \in BOOLEAN

Open(l) == (l = "4G" /\ socket = "open") \/ (l = "ETH" /\ eth = "open")

(* A device that takes itself for logged in is known to the server on the   *)
(* connection it uses, unless since its login the link in use has changed,  *)
(* or the 4G socket was reopened without RE_INIT, or the answer it believed *)
(* came from another connection: only these leave the flag behind.          *)
KnownUnlessExcused ==
  LoginResponse = 1 /\ Open(Use) /\ ~excused => known[Use]

(* Once nothing changes any more the server knows the device on the         *)
(* connection it uses (violated: LoginResponse survives a socket that the   *)
(* server closed and the modem reopened).                                   *)
EventuallyKnown == <>[](Open(Use) => known[Use])

(* A socket the server closed does not stay: even when the answer of the    *)
(* modem overwrites what the interrupt wrote, or it wrote nothing.          *)
LostLinkNoticed == (socket = "closed") ~> (socket # "closed" \/ connection_mode = "ETH")

(* Whatever was lost and however often the attempts ran out, once links     *)
(* and commands rest the device is logged in, or is kept by a connection    *)
(* that was reset: over Ethernet alone, for with the mode "inside" the 4G   *)
(* link ends that.                                                          *)
LoginSettles == <>[](LoginResponse = 1 \/ (eth = "reset" /\ connection_mode = "ETH"))

(* ... and without that exception (violated: the loop of the TCP client     *)
(* leaves a connection for ERR_CLSD and ERR_ABRT, not for ERR_RST).         *)
LoginAlwaysSettles == <>[](LoginResponse = 1)
=============================================================================
