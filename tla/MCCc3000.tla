------------------------------- MODULE MCCc3000 -------------------------------
EXTENDS Cc3000

\* A call of each kind: with a socket to open and to close, with data to
\* come, with a data packet, and with one that overruns the buffer.
MCCalls == {socket, closesocket, recv, send(4), send(486)}

-------------------------------------------------------------------------------
\* What the calls have to do with each other is the same for all of them; what
\* each call's numbers have to satisfy is checked here for all of them.
AllCalls == CallsUpTo(32, 64, 469)

\* No answer is longer than the variable that the function hands over for it,
\* and none that is awaited is taken for an unsolicited event (evnt_handler.cpp:225-560).
ASSUME AnswersFit ==
  \A c \in AllCalls : Stores(c.event) <= c.room /\ ~Unsolicited(c.event, 0, c.event)

\* A packet declares the bytes that its function has written, also where a
\* UINT8 holds the length, and stays below the end of the buffer (hci.cpp).
ASSUME PacketsAreWhole ==
  \A c \in AllCalls : c.declared = c.written /\ ~OverrunsBuffer(c)

\* But for these, whose packets end in bytes of an earlier one, and for longer
\* blocks (socket.cpp:826-831, netapp.cpp netapp_timeout_values).
ASSUME PacketsThatAreNot ==
  /\ \A c \in {select(FALSE), netapp_timeout_values} : c.declared > c.written
  /\ OverrunsBuffer(send(486)) /\ OverrunsBuffer(sendto(470, ADDRESS))
===============================================================================
