------------------------------- MODULE CcClients -------------------------------
(***************************************************************************)
(* TCP and UDP clients and the TCP server of the Adafruit CC3000 library   *)
(* (Adafruit_CC3000.cpp, Adafruit_CC3000_Server.cpp) over the calls of the *)
(* host driver.  A call is one request and one answer; the answer and the  *)
(* chip's "peer has closed" events reach the host in the order the chip    *)
(* sent them, the events in the interrupt routine, whatever the main       *)
(* program does (module Cc3000 is the driver that makes this so).  The     *)
(* chip and the peers are external.                                        *)
(***************************************************************************)
EXTENDS Integers, Sequences

CONSTANTS Sds,                 \* the chip's socket descriptors
          MAX_SERVER_CLIENTS   \* 3 in Adafruit_CC3000_Server.h

None    == -1                           \* _socket of a client without one
Clients == 0..MAX_SERVER_CLIENTS        \* 0 is the sketch's, the rest the server's
GONE    == -57                          \* the chip's answer on a dead socket

VARIABLES
  at,       \* where the main program is in the library
  how,      \* the method it was called for
  self,     \* the client it works on
  sd,       \* the local tcp_socket, udp_socket, soc
  call,     \* the driver call it waits for: function and socket
  ret,      \* the answer of the last one
  client,   \* _socket and bufsiz - _rx_buf_idx of each client
  listener, \* _listenSocket
  closed,   \* closed_sockets
  transit,  \* answers and close events on their way to the host
  sock,     \* the chip's sockets: state, unread data, peer gone
  via,      \* history: how each client got its socket
  dropped,  \* history: sockets the library has dropped without closing
  late      \* history: data has come since the select in progress was answered

prog   == <<at, how, self, sd>>
object == <<client, listener, via, dropped>>
vars   == <<prog, call, ret, object, closed, transit, sock, late>>

Socket(state) == [state |-> state, data |-> 0, gone |-> FALSE]
Idle    == [fn |-> "none", sd |-> None]
At(l)   == at = l /\ call = Idle
Leave   == ret' = 0 /\ late' = FALSE
Go(l)   == at' = l /\ call' = Idle /\ Leave
Invoke(fn, s, l) == at' = l /\ call' = [fn |-> fn, sd |-> s] /\ Leave
Within  == UNCHANGED <<how, self, sd>>
Return  == Go("sketch") /\ how' = "none" /\ self' = 0 /\ sd' = None

-------------------------------------------------------------------------------
(* Opening: connectTCP, connectUDP, connect and the server's begin.        *)

\* The sketch connects with connectTCP or connectUDP when it has no socket.
connectTCP ==
  /\ At("sketch") /\ client[0].sock = None
  /\ how' \in {"TCP", "UDP"}
  /\ self' = 0
  /\ Invoke("socket", None, "opened")
  /\ UNCHANGED <<sd, object, closed, transit, sock>>

\* connect() empties the client's buffer first.  (Bound: the sketch calls it
\* on its own client, not on one of the server's.)
connect ==
  /\ \/ At("sketch") /\ self' = 0
     \/ At("resolved") /\ ret # 0 /\ self' = self
  /\ how' = "connect"
  /\ client' = [client EXCEPT ![self'].buffered = 0]
  /\ Invoke("socket", None, "opened")
  /\ UNCHANGED <<sd, listener, via, dropped, closed, transit, sock>>

connectHost ==
  /\ At("sketch")
  /\ self' = 0
  /\ Invoke("gethostbyname", None, "resolved")
  /\ UNCHANGED <<how, sd, object, closed, transit, sock>>

Unresolved ==
  /\ At("resolved") /\ ret = 0
  /\ Return
  /\ UNCHANGED <<object, closed, transit, sock>>

\* Mutant: nobody clears what an earlier connection left behind.
ForgetCloseNever == closed' = closed

\* "Clear any previous closed event": not for UDP.
ForgetClose == closed' = IF how = "UDP" THEN closed ELSE closed \ {ret}

Opened ==
  /\ At("opened") /\ ret # -1
  /\ sd' = ret
  /\ ForgetClose
  /\ Invoke("connect", ret, "connected")
  /\ UNCHANGED <<how, self, object, transit, sock>>

\* A client that failed to connect has no socket; the buffer counters of one
\* that connectTCP returns were never initialised.
Without(c) ==
  \E n \in IF how = "connect" THEN {0} ELSE {0, 1} :
     client' = IF how = "connect" THEN client
               ELSE [client EXCEPT ![c] = [sock |-> None, buffered |-> n]]

NotOpened ==
  /\ At("opened") /\ ret = -1
  /\ Without(self)
  /\ Return
  /\ UNCHANGED <<listener, via, dropped, closed, transit, sock>>

Holds(s) == IF s = None THEN {} ELSE {s}

Linked ==
  /\ At("connected") /\ ret # -1
  /\ client' = [client EXCEPT ![self] = [sock |-> sd, buffered |-> 0]]
  /\ via' = [via EXCEPT ![self] = IF how = "UDP" THEN "stale" ELSE "fresh"]
  /\ dropped' = dropped \cup Holds(client[self].sock)
  /\ Return
  /\ UNCHANGED <<listener, closed, transit, sock>>

NotLinked ==
  /\ At("connected") /\ ret = -1
  /\ Invoke("closesocket", sd, "unlinked")
  /\ UNCHANGED <<how, self, sd, object, closed, transit, sock>>

Unlinked ==
  /\ At("unlinked")
  /\ Without(self)
  /\ Return
  /\ UNCHANGED <<listener, via, dropped, closed, transit, sock>>

\* begin(): one call after another, and a return at the first that fails,
\* also when the socket has been opened already.
Steps == <<"timeouts", "socket", "setsockopt", "bind", "listen">>

begin ==
  /\ At("sketch") /\ listener = None
  /\ self' = 1 /\ sd' = None /\ how' = "begin"
  /\ Invoke(Steps[1], None, "begin")
  /\ UNCHANGED <<object, closed, transit, sock>>

beginStep ==
  /\ At("begin")
  /\ \/ /\ ret >= 0 /\ self < Len(Steps)
        /\ sd' = IF Steps[self] = "socket" THEN ret ELSE sd
        /\ self' = self + 1 /\ how' = how
        /\ Invoke(Steps[self + 1], sd', "begin")
        /\ UNCHANGED <<listener, dropped>>
     \/ /\ ret >= 0 /\ self = Len(Steps)
        /\ listener' = sd /\ Return /\ UNCHANGED dropped
     \/ ret < 0 /\ dropped' = dropped \cup Holds(sd) /\ Return /\ UNCHANGED listener
  /\ UNCHANGED <<client, via, closed, transit, sock>>

-------------------------------------------------------------------------------
(* connected() and available(), for the sketch and in the server's loops.  *)

\* Where a method goes when it has its answer for client self.
Resume(yes) ==
  \/ how = "connected" /\ Return
  \/ how = "accept" /\ ~yes /\ Invoke("accept", listener, "accepted") /\ Within
  \/ how = "index" /\ yes /\ Go("available") /\ Within
  \/ how = "write" /\ yes /\ Invoke("send", client[self].sock, "written") /\ Within
  \/ how \in (IF yes THEN {"accept"} ELSE {"index", "write"}) /\ Go("next") /\ Within

connected ==
  /\ At("sketch")
  /\ \E c \in Clients : self' = c
  /\ how' = "connected" /\ Go("test")
  /\ UNCHANGED <<sd, object, closed, transit, sock>>

HasNone  == client[self].sock = None
Buffered == client[self].buffered > 0

TestAtOnce ==
  /\ At("test") /\ (HasNone \/ Buffered)
  /\ Resume(~HasNone)
  /\ UNCHANGED <<sd, object, closed, transit, sock>>

TestSelects ==
  /\ At("test") /\ ~HasNone /\ ~Buffered
  /\ Invoke("select", client[self].sock, "selected")
  /\ UNCHANGED <<how, self, sd, object, closed, transit, sock>>

\* No more data, and closed.
IsOver == ret # 1 /\ client[self].sock \in closed

TestStillOpen ==
  /\ At("selected") /\ ~IsOver
  /\ Resume(TRUE)
  /\ UNCHANGED <<sd, object, closed, transit, sock>>

TestCloses ==
  /\ At("selected") /\ IsOver
  /\ Invoke("closesocket", client[self].sock, "over")
  /\ UNCHANGED <<how, self, sd, object, closed, transit, sock>>

TestClosed ==
  /\ At("over")
  /\ closed' = closed \ {client[self].sock}
  /\ client' = [client EXCEPT ![self].sock = None]
  /\ via' = [via EXCEPT ![self] = "none"]
  /\ Resume(FALSE)
  /\ UNCHANGED <<sd, listener, dropped, transit, sock>>

\* available(): the sketch's own call ends like any other.
available ==
  /\ At("sketch")
  /\ \E c \in Clients : self' = c
  /\ how' = "available" /\ Go("available")
  /\ UNCHANGED <<sd, object, closed, transit, sock>>

AvailableAtOnce ==
  /\ At("available") /\ (HasNone \/ Buffered)
  /\ IF ~HasNone \/ how = "available" THEN Return ELSE Go("next") /\ Within
  /\ UNCHANGED <<object, closed, transit, sock>>

AvailableSelects ==
  /\ At("available") /\ ~HasNone /\ ~Buffered
  /\ Invoke("select", client[self].sock, "counted")
  /\ UNCHANGED <<how, self, sd, object, closed, transit, sock>>

Counted ==
  /\ At("counted")
  /\ IF ret = 1 \/ how = "available" THEN Return ELSE Go("next") /\ Within
  /\ UNCHANGED <<object, closed, transit, sock>>

-------------------------------------------------------------------------------
(* Reading, writing, closing.                                              *)

\* Mutant: read() takes a byte from a buffer that may be empty.
readBufferedUnchecked ==
  /\ At("sketch")
  /\ \E c \in Clients : client' = [client EXCEPT ![c].buffered = @ - 1]
  /\ Return
  /\ UNCHANGED <<listener, via, dropped, closed, transit, sock>>

\* read() and peek() use the buffer first, read(buf) never does.
readBuffered ==
  /\ At("sketch")
  /\ \E c \in Clients, consume \in BOOLEAN :
        /\ client[c].buffered > 0
        /\ client' = IF consume THEN [client EXCEPT ![c].buffered = @ - 1] ELSE client
  /\ Return
  /\ UNCHANGED <<listener, via, dropped, closed, transit, sock>>

read ==
  /\ At("sketch")
  /\ \E c \in Clients : /\ self' = c
                        /\ how' \in {"read", "peek", "readBuf"}
                        /\ how' # "readBuf" => client[c].buffered = 0
                        /\ Invoke("recv", client[c].sock, "received")
  /\ UNCHANGED <<sd, object, closed, transit, sock>>

Filled ==
  /\ At("received") /\ ret > 0
  /\ client' = IF how = "readBuf" THEN client
               ELSE [client EXCEPT ![self].buffered = IF how = "peek" THEN ret ELSE ret - 1]
  /\ Return
  /\ UNCHANGED <<listener, via, dropped, closed, transit, sock>>

\* Mutant: read() goes on asking a dead socket.
IsDeadNever == FALSE

\* What ends read() and peek() without a byte.
IsDead == ret = GONE

NotFilled ==
  /\ At("received") /\ ret <= 0
  /\ client' = IF how = "readBuf" THEN client ELSE [client EXCEPT ![self].buffered = 0]
  /\ \/ how = "readBuf" /\ Return
     \/ how # "readBuf" /\ IsDead /\ Invoke("closesocket", client[self].sock, "shut") /\ Within
     \/ how # "readBuf" /\ ~IsDead /\ Invoke("recv", client[self].sock, "received") /\ Within
  /\ UNCHANGED <<listener, via, dropped, closed, transit, sock>>

write ==
  /\ At("sketch")
  /\ \E c \in Clients : Invoke("send", client[c].sock, "sent")
  /\ Within
  /\ UNCHANGED <<object, closed, transit, sock>>

\* Also for a client that has no socket any more: closesocket(-1).
close ==
  /\ At("sketch")
  /\ \E c \in Clients : self' = c /\ Invoke("closesocket", client[c].sock, "shut")
  /\ UNCHANGED <<how, sd, object, closed, transit, sock>>

\* Mutant: the client keeps the number of the closed socket.
ShutKeeps ==
  /\ At("shut")
  /\ Return
  /\ UNCHANGED <<object, closed, transit, sock>>

Shut ==
  /\ At("shut")
  /\ client' = [client EXCEPT ![self].sock = None]
  /\ via' = [via EXCEPT ![self] = "none"]
  /\ Return
  /\ UNCHANGED <<listener, dropped, closed, transit, sock>>

-------------------------------------------------------------------------------
(* The server's loops over its clients: acceptNewConnections, the search of *)
(* availableIndex, which follows it, and write.                             *)
serve ==
  /\ At("sketch") /\ MAX_SERVER_CLIENTS > 0
  /\ how' \in {"accept", "write"} /\ self' = 1
  /\ Go("test")
  /\ UNCHANGED <<sd, object, closed, transit, sock>>

NextClient ==
  /\ At("next")
  /\ \/ /\ self < MAX_SERVER_CLIENTS
        /\ self' = self + 1 /\ Go("test") /\ UNCHANGED <<how, sd>>
     \/ /\ self = MAX_SERVER_CLIENTS /\ how = "accept"
        /\ self' = 1 /\ how' = "index" /\ Go("test") /\ UNCHANGED sd
     \/ self = MAX_SERVER_CLIENTS /\ how # "accept" /\ Return
  /\ UNCHANGED <<object, closed, transit, sock>>

Accepted ==
  /\ At("accepted")
  /\ IF ret > -1
     THEN /\ client' = [client EXCEPT ![self] = [sock |-> ret, buffered |-> 0]]
          /\ via' = [via EXCEPT ![self] = "stale"]
     ELSE UNCHANGED <<client, via>>
  /\ Go("next")
  /\ UNCHANGED <<how, self, sd, listener, dropped, closed, transit, sock>>

Written ==
  /\ \/ At("written") /\ Go("next") /\ Within
     \/ At("sent") /\ Return
  /\ UNCHANGED <<object, closed, transit, sock>>

Main == \/ connectTCP \/ connect \/ connectHost \/ Unresolved \/ Opened \/ NotOpened
        \/ Linked \/ NotLinked \/ Unlinked \/ begin \/ beginStep
        \/ connected \/ TestAtOnce \/ TestSelects \/ TestStillOpen \/ TestCloses \/ TestClosed
        \/ available \/ AvailableAtOnce \/ AvailableSelects \/ Counted
        \/ readBuffered \/ read \/ Filled \/ NotFilled \/ write \/ close \/ Shut
        \/ serve \/ NextClient \/ Accepted \/ Written

-------------------------------------------------------------------------------
(* CC3000_UsynchCallback for HCI_EVNT_BSD_TCP_CLOSE_WAIT, and the answer    *)
(* that ends a call.                                                        *)
Deliver ==
  /\ transit # <<>>
  /\ transit' = Tail(transit)
  /\ LET m == Head(transit)
     IN  IF m.what = "close"
         THEN closed' = closed \cup {m.sd} /\ UNCHANGED <<call, ret>>
         ELSE ret' = m.sd /\ call' = Idle /\ UNCHANGED closed
  /\ UNCHANGED <<prog, object, sock, late>>

-------------------------------------------------------------------------------
(* The chip and the peers (external).                                       *)
Asked(fn)  == call.fn = fn /\ \A i \in 1..Len(transit) : transit[i].what # "answer"
Answer(n)  == transit' = Append(transit, [what |-> "answer", sd |-> n])
IsOpen(s)  == s \in Sds /\ sock[s].state # "free"
IsUp(s)    == s \in Sds /\ sock[s].state = "up"
Put(s, st) == sock' = [sock EXCEPT ![s] = Socket(st)]

ChipSocket ==
  /\ Asked("socket")
  /\ \/ \E s \in Sds : ~IsOpen(s) /\ Put(s, "new") /\ Answer(s)
     \/ Answer(-1) /\ UNCHANGED sock

ChipConnect ==
  /\ Asked("connect")
  /\ \/ Put(call.sd, "up") /\ Answer(0)
     \/ Answer(-1) /\ UNCHANGED sock

ChipClose ==
  /\ Asked("closesocket")
  /\ IF IsOpen(call.sd) THEN Put(call.sd, "free") /\ Answer(0)
                        ELSE Answer(GONE) /\ UNCHANGED sock

ChipListen ==
  /\ call.fn \in {"timeouts", "setsockopt", "bind", "listen"} /\ Asked(call.fn)
  /\ \/ Answer(0) /\ (IF call.fn = "listen" THEN Put(call.sd, "listening") ELSE UNCHANGED sock)
     \/ Answer(-1) /\ UNCHANGED sock

ChipAccept ==
  /\ Asked("accept")
  /\ \/ /\ IsOpen(call.sd)
        /\ \E s \in Sds : ~IsOpen(s) /\ Put(s, "up") /\ Answer(s)
     \/ Answer(-2) /\ UNCHANGED sock

ChipSelect ==
  /\ Asked("select")
  /\ Answer(IF IsUp(call.sd) THEN sock[call.sd].data ELSE 0)
  /\ UNCHANGED sock

\* recv answers when there is data or when there will be none; and it may fail
\* at any time, with 0 or -1.
HasData(s)   == IsUp(s) /\ sock[s].data > 0
IsSilent(s)  == IsUp(s) /\ sock[s].data = 0 /\ ~sock[s].gone
PeerIsSilent == call.fn = "recv" /\ IsSilent(call.sd)

ChipRecv ==
  /\ Asked("recv")
  /\ \/ /\ HasData(call.sd)
        /\ sock' = [sock EXCEPT ![call.sd].data = 0] /\ Answer(sock[call.sd].data)
     \/ ~HasData(call.sd) /\ ~IsSilent(call.sd) /\ Answer(GONE) /\ UNCHANGED sock
     \/ \E n \in {-1, 0} : Answer(n) /\ UNCHANGED sock

ChipSend ==
  /\ Asked("send")
  /\ \E n \in IF IsUp(call.sd) /\ ~sock[call.sd].gone THEN {1} ELSE {GONE} : Answer(n)
  /\ UNCHANGED sock

ChipName == Asked("gethostbyname") /\ \E n \in {0, 1} : Answer(n) /\ UNCHANGED sock

Chip == /\ \/ ChipSocket \/ ChipConnect \/ ChipClose \/ ChipListen \/ ChipAccept
           \/ ChipSelect \/ ChipRecv \/ ChipSend \/ ChipName
        /\ UNCHANGED <<prog, call, ret, object, closed, late>>

PeerSends ==
  /\ \E s \in Sds : /\ IsUp(s) /\ ~sock[s].gone /\ sock[s].data = 0
                    /\ sock' = [sock EXCEPT ![s].data = 1]
                    /\ late' = (late \/ (at = "selected" /\ ~Asked("select")
                                         /\ s = client[self].sock))
  /\ UNCHANGED <<prog, call, ret, object, closed, transit>>

PeerCloses ==
  /\ \E s \in Sds : /\ IsUp(s) /\ ~sock[s].gone
                    /\ sock' = [sock EXCEPT ![s].gone = TRUE]
                    /\ transit' = Append(transit, [what |-> "close", sd |-> s])
  /\ UNCHANGED <<prog, call, ret, object, closed, late>>

Peer == PeerSends \/ PeerCloses

-------------------------------------------------------------------------------
Init ==
  /\ at = "sketch" /\ how = "none" /\ self = 0 /\ sd = None
  /\ call = Idle /\ ret = 0
  /\ client = [c \in Clients |-> [sock |-> None, buffered |-> 0]]
  /\ listener = None /\ via = [c \in Clients |-> "none"] /\ dropped = {}
  /\ closed = {} /\ transit = <<>>
  /\ sock = [s \in Sds |-> Socket("free")] /\ late = FALSE

Next == Main \/ Deliver \/ Chip \/ Peer

Spec == Init /\ [][Next]_vars

\* The chip answers every call, but a recv from a silent peer need not end.
ChipAnswers == Chip /\ ~PeerIsSilent

FairSpec == Spec /\ WF_vars(Main) /\ WF_vars(Deliver) /\ WF_vars(ChipAnswers)

-------------------------------------------------------------------------------
ClientsTypeOK ==
  /\ at \in {"sketch", "resolved", "opened", "connected", "unlinked", "begin", "test",
             "selected", "over", "available", "counted", "received", "shut", "next",
             "accepted", "written", "sent"}
  /\ self \in Clients \cup 1..Len(Steps) /\ sd \in Sds \cup {None}
  /\ call.sd \in Sds \cup {None} /\ ret \in Sds \cup {GONE, -2, -1, 0, 1}
  /\ client \in [Clients -> [sock : Sds \cup {None}, buffered : {0, 1}]]
  /\ listener \in Sds \cup {None}
  /\ closed \subseteq Sds /\ dropped \subseteq Sds /\ late \in BOOLEAN
  /\ sock \in [Sds -> [state : {"free", "new", "up", "listening"}, data : {0, 1}, gone : BOOLEAN]]

Busy == at # "sketch"
Owners(s) == {c \in Clients : client[c].sock = s}
InHand(s) == \/ sd = s
             \/ /\ at \in {"opened", "accepted", "begin"}
                /\ \/ call = Idle /\ ret = s
                   \/ [what |-> "answer", sd |-> s] \in {transit[i] : i \in 1..Len(transit)}

\* A socket that is open on the chip belongs to exactly one client, to the
\* server or to the method at work, unless a failed begin() or a connect() of
\* a connected client has dropped it; what the library frees it also forgets.
SocketsAreOwned ==
  \A s \in Sds :
    /\ IsOpen(s) => Owners(s) # {} \/ listener = s \/ InHand(s) \/ s \in dropped
    /\ \A c, d \in Owners(s) : c = d

\* A client that was connected by connectTCP or connect is taken for closed
\* only when its own peer has closed, whoever had the socket before it.
FlagIsOwn ==
  \A c \in Clients :
    via[c] = "fresh" /\ client[c].sock \in closed /\ IsOpen(client[c].sock)
      => sock[client[c].sock].gone

\* connected() throws data away only if it came after select was answered.
ClosesOnlyEmpty ==
  at = "selected" /\ call = Idle /\ IsOver
    => sock[client[self].sock].data = 0 \/ late

\* read() and peek() ask again after every answer but data and -57.
ReadsNothing == At("received") /\ how # "readBuf" /\ ret \in {-1, 0}

\* Every method returns, unless it reads from a peer that is silent, or is
\* read() or peek() and the chip keeps failing it with 0 or -1.
MethodReturns == []<>(~Busy \/ PeerIsSilent \/ ReadsNothing)
===============================================================================
