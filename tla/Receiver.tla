------------------------------- MODULE Receiver -------------------------------
(***************************************************************************)
(* The receiving station (Receiver/Receiver.ino): setup() runs through a   *)
(* chain of stages, fetches the time over HTTP and tunes a panStamp modem  *)
(* with AT commands (libraries/PanstampHelper); loop() collects the lines  *)
(* the modem prints for the packets it receives and posts each of them to  *)
(* a server.  A post blocks the loop for seconds, while the modem goes on  *)
(* printing into a buffer of 128 characters.                               *)
(*                                                                         *)
(* The line is modelled character by character: it is received, dropped,   *)
(* read and cut by a timeout at any of them.  The lengths of lines and the *)
(* texts of answers are constants.  External, and modelled from how the    *)
(* code uses them: the modem's firmware, the UART, the name server, the    *)
(* HTTP server and the CC3000 library's sockets.                           *)
(***************************************************************************)
EXTENDS Naturals, Sequences, FiniteSets, SequencesExt

CONSTANTS
  Dialogue,    \* the commands setup() sends to the modem, in order
  Tuned,       \* the synchronization word it asks for: "6432"
  StateLen,    \* characters of the line of a state message: 18
  DataLen,     \* characters of the line of a data message: 40
  Ok, OkCommand, OkData,  \* "OK", "OK-Command mode", "OK-Data mode"
  Value,       \* an answer to a query, all of whose characters are alike here
  MinValue,    \* a line end that early in a response to a query is skipped: 3
  RxCap,       \* characters the receive buffer of Serial2 holds: 128
  MaxLines,    \* bound: packets the modem prints
  MaxChunks    \* bound: characters of one HTTP response

\* It begins with switchToCommandMode, sets the synchronization word, and
\* ends with its one switchToDataMode.
ASSUME DialogueAssumption ==
  /\ Dialogue \in Seq(STRING) /\ Dialogue # <<>>
  /\ Dialogue[1] = "+++"
  /\ \E i \in DOMAIN Dialogue : Dialogue[i] = "ATSW=6432"
  /\ \A i \in DOMAIN Dialogue : Dialogue[i] = "ATO" <=> i = Len(Dialogue)
ASSUME SizeAssumption     == RxCap \in Nat \ {0} /\ MaxLines \in Nat
                               /\ MaxChunks \in Nat

\* Packets of either kind: a state message and a data message.
Kinds   == {"state", "data"}
Answers == {Ok, OkCommand, OkData, Value}

\* An answer of the modem is shorter than the line of any packet.
ASSUME TextAssumption ==
  /\ StateLen \in Nat /\ DataLen \in Nat /\ StateLen < DataLen
  /\ MinValue \in Nat
  /\ \A a \in Answers : /\ a \in Seq(STRING \ (Kinds \cup {"cr", "lf"}))
                        /\ Len(a) \in 1..StateLen - 1

VARIABLES
  \* the modem and the serial line
  mode,        \* the modem prints packets ("data") or obeys ("command")
  word,        \* its synchronization word
  inbox,       \* commands on their way to it
  wire,        \* characters it is sending
  begun,       \* Serial2.begin has been called
  uart,        \* the receive buffer of Serial2
  lines,       \* packets printed so far; numbers them
  \* the sketch
  pc,          \* where setup() or loop() is
  caller,      \* what the HTTP exchange is for: "time" or "post"
  command,     \* position in Dialogue
  response,    \* characters the helper has collected for it
  text,        \* ReceivedData
  elapsed,     \* the timeout of the current wait has passed
  chunks,      \* characters of the HTTP response read so far
  \* history, read by properties only
  posted,      \* texts of the posts handed to a connection
  skipped,     \* packets printed before loop() began to listen
  overrun,     \* the receive buffer has dropped a character
  failed,      \* a post got no connection
  missed       \* the modem has missed a command

modem  == <<mode, word, inbox, lines>>
serial == <<wire, uart>>
http   == <<caller, elapsed, chunks>>
sketch == <<begun, command, response, text>>
past   == <<posted, skipped, overrun, failed, missed>>
vars   == <<modem, serial, pc, http, sketch, past>>

\* A character: of the line of packet n or of an answer (0), what it says and
\* its place in the line or answer.
Char(n, what, at) == [line |-> n, what |-> what, at |-> at]
LineEnd == <<Char(0, "cr", 0), Char(0, "lf", 0)>>

Size(kind) == IF kind = "state" THEN StateLen ELSE DataLen
Line(n, kind) == [i \in 1..Size(kind) |-> Char(n, kind, i)] \o LineEnd
Said(answer) == [i \in DOMAIN answer |-> Char(0, answer[i], i)] \o LineEnd

-----------------------------------------------------------------------------
(* The modem and the UART.                                                 *)

\* A packet of the tuned network, printed in data mode only.
Packet(kind) ==
  /\ mode = "data" /\ word = Tuned /\ lines < MaxLines
  /\ lines' = lines + 1
  /\ wire' = wire \o Line(lines + 1, kind)
  /\ UNCHANGED <<mode, word, inbox, uart, pc, http, sketch, past>>

\* A command: in data mode only the escape sequence is one.
Obeys(c) == mode = "command" \/ c = "+++"
Reply(c) == IF c = "+++" THEN OkCommand
            ELSE IF c = "ATO" THEN OkData
            ELSE IF c = "ATSW=6432" THEN Ok ELSE Value

Obey ==
  /\ inbox # <<>>
  /\ inbox' = Tail(inbox)
  /\ LET c == Head(inbox) IN
     /\ mode' = IF ~Obeys(c) THEN mode
                ELSE IF c = "+++" THEN "command"
                ELSE IF c = "ATO" THEN "data" ELSE mode
     /\ word' = IF Obeys(c) /\ c = "ATSW=6432" THEN Tuned ELSE word
     /\ wire' = IF Obeys(c) THEN wire \o Said(Reply(c)) ELSE wire
  /\ UNCHANGED <<lines, uart, pc, http, sketch, past>>

MissCommand ==
  /\ inbox # <<>>
  /\ inbox' = Tail(inbox)
  /\ missed' = TRUE
  /\ UNCHANGED <<mode, word, lines, serial, pc, http, sketch, posted, skipped,
                 overrun, failed>>

\* The next character arrives: unheard before Serial2.begin, dropped when the
\* buffer is full.  A helper and loop() look at the buffer all the time, so that
\* it fills up only while the board is elsewhere.
Arrive ==
  /\ wire # <<>>
  /\ Len(uart) < RxCap \/ pc \notin {"answer", "loop"}
  /\ wire' = Tail(wire)
  /\ uart' = IF begun /\ Len(uart) < RxCap THEN Append(uart, Head(wire))
             ELSE uart
  /\ overrun' = (overrun \/ (begun /\ Len(uart) = RxCap))
  /\ UNCHANGED <<modem, pc, http, sketch, posted, skipped, failed, missed>>

Modem == (\E kind \in Kinds : Packet(kind)) \/ Obey \/ MissCommand

-----------------------------------------------------------------------------
(* setup(): each stage is entered only when the one before succeeded; when *)
(* one fails setup() returns, and loop() runs all the same.                *)

Stages == <<"sdBegin", "configExists", "configLoad", "wifiBegin",
            "wifiConnect">>

Stage(i, ok) ==
  /\ pc = Stages[i]
  /\ pc' = IF ~ok THEN "loop"
           ELSE IF i < Len(Stages) THEN Stages[i + 1] ELSE "dns"
  /\ caller' = "time" /\ elapsed' = FALSE /\ chunks' = 0
  /\ UNCHANGED <<modem, serial, sketch, past>>

\* The GET has returned, with a time for the real-time clock (which
\* nothing reads back) or without; then it is the modem's turn.
TimeDone ==
  /\ pc = "timeDone"
  /\ begun' = TRUE
  /\ pc' = "ask"
  /\ UNCHANGED <<modem, serial, http, command, response, text, past>>

-----------------------------------------------------------------------------
(* PanstampHelper: clear the buffer, send the command, collect characters  *)
(* until the answer is recognised or PANSTAMP_HELPER_TIMEOUT has passed.   *)

Ask ==
  /\ pc = "ask"
  /\ uart' = <<>>
  /\ inbox' = Append(inbox, Dialogue[command])
  /\ pc' = "answer"
  /\ UNCHANGED <<mode, word, lines, wire, http, begun, command, response,
                 text, past>>

\* indexOf: the text stands anywhere in the response.
indexOf(r, a) == \E k \in 0..Len(r) - Len(a) :
                   \A i \in DOMAIN a : r[k + i].what = a[i]

\* A command waits for its text; a query takes whatever stands before a
\* carriage return.
Recognised(c, r) ==
  CASE c = "+++"       -> indexOf(r, OkCommand)
    [] c = "ATO"       -> indexOf(r, OkData)
    [] c = "ATSW=6432" -> indexOf(r, Ok)
    [] OTHER           -> Last(r).what = "cr" /\ Len(r) > MinValue + 1

\* Mutant: setup() stops one command early.
NextCommandShort ==
  IF command < Len(Dialogue) - 1
  THEN pc' = "ask" /\ command' = command + 1 /\ UNCHANGED skipped
  ELSE pc' = "loop" /\ skipped' = lines /\ UNCHANGED command

\* Mutant: one command too many.
NextCommandOneMore ==
  IF command <= Len(Dialogue)
  THEN pc' = "ask" /\ command' = command + 1 /\ UNCHANGED skipped
  ELSE pc' = "loop" /\ skipped' = lines /\ UNCHANGED command

\* The results of the calls are printed or dropped; setup() goes on.
NextCommand ==
  IF command < Len(Dialogue)
  THEN pc' = "ask" /\ command' = command + 1 /\ UNCHANGED skipped
  ELSE pc' = "loop" /\ skipped' = lines /\ UNCHANGED command

\* One character, whether or not the timeout has passed meanwhile.
ReadAnswer ==
  /\ pc = "answer" /\ uart # <<>>
  /\ uart' = Tail(uart)
  /\ LET collected == Append(response, Head(uart)) IN
       IF Recognised(Dialogue[command], collected)
       THEN NextCommand /\ response' = <<>> /\ elapsed' = FALSE
       ELSE /\ response' = collected
            /\ UNCHANGED <<pc, command, skipped, elapsed>>
  /\ UNCHANGED <<modem, wire, caller, chunks, begun, text, posted,
                 overrun, failed, missed>>

\* The timeout is looked at between any two of them.
AnswerTimeout ==
  /\ pc = "answer" /\ elapsed
  /\ NextCommand
  /\ response' = <<>> /\ elapsed' = FALSE
  /\ UNCHANGED <<modem, serial, caller, chunks, begun, text, posted,
                 overrun, failed, missed>>

-----------------------------------------------------------------------------
(* loop(): one character at a time; a complete line of 18 or 40 characters *)
(* is posted.                                                              *)

\* Mutant: whatever ends with a line end is posted.
ReadLineAnyLength ==
  /\ pc = "loop" /\ uart # <<>>
  /\ uart' = Tail(uart)
  /\ IF Head(uart).what # "lf"
     THEN /\ text' = IF Head(uart).what = "cr" THEN text
                     ELSE Append(text, Head(uart))
          /\ UNCHANGED <<pc, http>>
     ELSE IF text # <<>>
     THEN /\ pc' = "dns"
          /\ caller' = "post" /\ elapsed' = FALSE /\ chunks' = 0
          /\ UNCHANGED text
     ELSE text' = <<>> /\ UNCHANGED <<pc, http>>
  /\ UNCHANGED <<modem, wire, begun, command, response, past>>

ReadLine ==
  /\ pc = "loop" /\ uart # <<>>
  /\ uart' = Tail(uart)
  /\ IF Head(uart).what # "lf"
     THEN /\ text' = IF Head(uart).what = "cr" THEN text
                     ELSE Append(text, Head(uart))
          /\ UNCHANGED <<pc, http>>
     ELSE IF Len(text) \in {StateLen, DataLen}
     THEN /\ pc' = "dns"
          /\ caller' = "post" /\ elapsed' = FALSE /\ chunks' = 0
          /\ UNCHANGED text
     ELSE text' = <<>> /\ UNCHANGED <<pc, http>>
  /\ UNCHANGED <<modem, wire, begun, command, response, past>>

-----------------------------------------------------------------------------
(* HttpGetRequest and HttpPostRequest.                                     *)

\* Mutant: the text is not forgotten.
ReturnKeepsText ==
  /\ pc' = IF caller = "time" THEN "timeDone" ELSE "loop"
  /\ text' = text
  /\ elapsed' = FALSE
  /\ chunks' = 0

\* Back in setup(), or in loop(), which forgets the line.
Return ==
  /\ pc' = IF caller = "time" THEN "timeDone" ELSE "loop"
  /\ text' = IF caller = "post" THEN <<>> ELSE text
  /\ elapsed' = FALSE
  /\ chunks' = 0

HttpUnchanged == <<modem, serial, caller, begun, command, response,
                   skipped, overrun, missed>>

\* getHostByName: an address; 0 when the module is not connected; a negative
\* value and no address when the name is not resolved.  Only a result of 0
\* makes the loop look at the clock.
Resolved ==
  /\ pc = "dns"
  /\ pc' = "connect"
  /\ UNCHANGED <<HttpUnchanged, elapsed, chunks, text, posted, failed>>

Unresolved(r) ==
  /\ pc = "dns"
  /\ IF r = "zero" /\ elapsed
     THEN Return /\ failed' = (failed \/ caller = "post")
     ELSE pc' = "dnsDelay" /\ UNCHANGED <<text, elapsed, chunks, failed>>
  /\ UNCHANGED <<HttpUnchanged, posted>>

DnsDelay ==
  /\ pc = "dnsDelay"
  /\ pc' = "dns"
  /\ UNCHANGED <<HttpUnchanged, elapsed, chunks, text, posted, failed>>

NoConnection ==
  /\ pc = "connect"
  /\ Return
  /\ failed' = (failed \/ caller = "post")
  /\ UNCHANGED <<HttpUnchanged, posted>>

\* Connected: the request and its data are printed to the socket.
Request ==
  /\ pc = "connect"
  /\ posted' = IF caller = "post" THEN Append(posted, text) ELSE posted
  /\ elapsed' = FALSE
  /\ pc' = "read"
  /\ UNCHANGED <<HttpUnchanged, chunks, text, failed>>

\* HttpReadResponse.  available() says there is something to read ...
Available ==
  /\ pc = "read" /\ chunks < MaxChunks
  /\ pc' = "receive"
  /\ UNCHANGED <<HttpUnchanged, elapsed, chunks, text, posted, failed>>

\* ... and read() asks recv until it gets something, restarting the timeout.
Received ==
  /\ pc = "receive"
  /\ chunks' = chunks + 1
  /\ elapsed' = FALSE
  /\ pc' = "read"
  /\ UNCHANGED <<HttpUnchanged, text, posted, failed>>

\* Mutant: the timeout is restarted with every look at the socket.
ReadTimeoutRestarts ==
  /\ pc = "read" /\ elapsed
  /\ elapsed' = FALSE
  /\ UNCHANGED <<HttpUnchanged, pc, chunks, text, posted, failed>>

ReadTimeout ==
  /\ pc = "read" /\ elapsed
  /\ Return
  /\ UNCHANGED <<HttpUnchanged, posted, failed>>

ServerClosed ==
  /\ pc = "read"
  /\ Return
  /\ UNCHANGED <<HttpUnchanged, posted, failed>>

\* The wait of the helper, of the name lookup or of the response is over.
TimePasses ==
  /\ pc \in {"answer", "dns", "dnsDelay", "read"}
  /\ ~elapsed
  /\ elapsed' = TRUE
  /\ UNCHANGED <<modem, serial, pc, caller, chunks, sketch, past>>

Lookup == Resolved \/ (\E r \in {"zero", "negative"} : Unresolved(r))

Board == \/ \E i \in DOMAIN Stages, ok \in BOOLEAN : Stage(i, ok)
         \/ TimeDone
         \/ Ask \/ ReadAnswer \/ AnswerTimeout
         \/ ReadLine
         \/ Lookup \/ DnsDelay \/ NoConnection \/ Request
         \/ ReadTimeout

-----------------------------------------------------------------------------
\* Power on.  The modem keeps its synchronization word in EEPROM.
Init ==
  /\ mode = "data" /\ word \in {"0000", Tuned} /\ inbox = <<>>
  /\ wire = <<>> /\ begun = FALSE /\ uart = <<>> /\ lines = 0
  /\ pc = Stages[1] /\ caller = "time" /\ command = 1 /\ response = <<>>
  /\ text = <<>> /\ elapsed = FALSE /\ chunks = 0
  /\ posted = <<>> /\ skipped = 0
  /\ overrun = FALSE /\ failed = FALSE /\ missed = FALSE

Next == Board \/ Modem \/ Arrive \/ TimePasses \/ Available \/ Received
          \/ ServerClosed

Spec == Init /\ [][Next]_vars

\* The sketch keeps running, time passes and the UART delivers.  Neither the
\* modem nor the name server nor the HTTP server owes us an answer.
Fairness == WF_vars(Board) /\ WF_vars(TimePasses) /\ WF_vars(Arrive)

FairSpec == Spec /\ Fairness

-----------------------------------------------------------------------------
(* Properties.                                                             *)

\* What a character of an answer says.
Letters  == UNION {{a[i] : i \in DOMAIN a} : a \in Answers}
Chars    == [line : Nat, what : Kinds \cup Letters \cup {"cr", "lf"}, at : Nat]
HttpPcs  == {"dns", "dnsDelay", "connect", "read", "receive"}

ModemTypeOK ==
  /\ mode \in {"data", "command"} /\ word \in {"0000", Tuned}
  /\ inbox \in Seq(ToSet(Dialogue))
  /\ wire \in Seq(Chars) /\ lines \in Nat

SketchTypeOK ==
  /\ begun \in BOOLEAN /\ uart \in Seq(Chars) /\ Len(uart) <= RxCap
  /\ pc \in ToSet(Stages) \cup HttpPcs
              \cup {"timeDone", "ask", "answer", "loop"}
  /\ caller \in {"time", "post"}
  /\ command \in DOMAIN Dialogue /\ response \in Seq(Chars)
  /\ text \in Seq(Chars)
  /\ elapsed \in BOOLEAN /\ chunks \in 0..MaxChunks

HistoryTypeOK ==
  /\ posted \in Seq(Seq(Chars)) /\ skipped \in Nat
  /\ overrun \in BOOLEAN /\ failed \in BOOLEAN /\ missed \in BOOLEAN

\* Type invariant of the modem, the sketch and the histories.
TypeOK == ModemTypeOK /\ SketchTypeOK /\ HistoryTypeOK

\* A packet, from its first character to its last.
Whole(t) == \E kind \in Kinds :
  /\ Len(t) = Size(kind)
  /\ \A i \in DOMAIN t : t[i] = Char(t[1].line, kind, i)

\* The end of a data message, as long as a state message.
Remnant(t) ==
  /\ Len(t) = StateLen
  /\ \A i \in DOMAIN t : t[i] = Char(t[1].line, "data", DataLen - StateLen + i)

\* As long as the receive buffer has not overrun, every post carries the
\* characters of one packet, and packets are posted in the order the modem
\* printed them, none twice: neither the answers of the dialogue nor what the
\* helper left of a line end up in a post.  There is one exception: the line
\* that is coming in when loop() takes over from the helper may be cut so that
\* eighteen of its forty characters are left.  It can only be the first post,
\* of a packet printed before loop() listened.
PostsWholeInOrder ==
  ~overrun =>
    /\ \A i \in DOMAIN posted :
         \/ Whole(posted[i])
         \/ i = 1 /\ Remnant(posted[1]) /\ posted[1][1].line <= skipped
    /\ \A i, j \in DOMAIN posted :
         i < j => posted[i][1].line < posted[j][1].line

\* When the line is quiet and the loop idle, every packet printed since the
\* loop began to listen has been posted, whole, unless the buffer has overrun
\* or a post got no connection.
NothingLostSilently ==
  pc = "loop" /\ begun /\ wire = <<>> /\ uart = <<>> /\ ~overrun /\ ~failed
    => \A n \in skipped + 1 .. lines :
         \E i \in DOMAIN posted : posted[i][1].line = n /\ Whole(posted[i])

\* Once the dialogue is over and the modem has worked through its commands,
\* however late it answered them, it prints the packets of the tuned network,
\* unless it has missed a command.
TunedUnlessMissed ==
  begun /\ pc \notin {"ask", "answer"} /\ inbox = <<>> /\ ~missed
    => mode = "data" /\ word = Tuned

\* The board always comes back to loop(), whatever fails, unless it asks the
\* name server, or the socket, over and over again.
LoopComesBack == \/ []<>(pc = "loop")
                 \/ <>[](pc \in {"dns", "dnsDelay"})
                 \/ <>[](pc = "receive")

-----------------------------------------------------------------------------
(* What the code says, and does not do.                                    *)

\* Receiver.ino:585-591 (dnsTimeout, "FEHLER (DNS)"): the lookup of a name
\* gives up after ten seconds.  (socket.cpp:480-482: a name that is not
\* resolved yields a negative value and the address zero.)
LookupEnds == pc = "dns" ~> pc \notin {"dns", "dnsDelay"}
=============================================================================
