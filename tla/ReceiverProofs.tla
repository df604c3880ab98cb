---------------------------- MODULE ReceiverProofs ----------------------------
(* What the receiving station promises, for every dialogue of the helper,  *)
(* every text of its answers, every length of a state and of a data line,  *)
(* every size of the receive buffer and any number of packets.             *)
EXTENDS Receiver, SequenceTheorems, FiniteSetTheorems, TLAPS

-----------------------------------------------------------------------------
(* The inductive invariants.                                               *)

\* How far setup() has come, told from more than pc: Serial2 is opened once,
\* before the dialogue; a time is fetched before that, posts are sent after.
BoardInv ==
  /\ ~begun => uart = <<>> /\ text = <<>> /\ command = 1
  /\ pc \in ToSet(Stages) \cup {"timeDone"} => ~begun
  /\ pc \in {"ask", "answer"} => begun
  /\ pc \in HttpPcs => (caller = "post" <=> begun)
  /\ text # <<>> => pc \in HttpPcs \cup {"loop"}
  /\ ~begun \/ pc \in {"ask", "answer"} => posted = <<>>

\* How many commands the dialogue has.
Commands == Len(Dialogue)

\* The commands sent so far, and those the modem has taken.
Sent  == IF pc = "ask" THEN command - 1
         ELSE IF pc = "answer" THEN command
         ELSE IF begun THEN Commands ELSE 0
Taken == Sent - Len(inbox)

\* The modem works through the dialogue in order, however late: what waits
\* for it, its mode and its word are told by the number it has taken.
ModemInv ==
  /\ Taken \in Nat
  /\ \A i \in 1..Len(inbox) : inbox[i] = Dialogue[Taken + i]
  /\ mode = "command" <=> Taken \in 1..Commands - 1
  /\ (\E i \in 1..Taken : Dialogue[i] = "ATSW=6432") => word = Tuned

Ends == {"cr", "lf"}

\* Each character stands within its line or answer.
Placed(c) ==
  IF c.what \in Kinds THEN c.at \in 1..Size(c.what)
  ELSE c.what \in Ends \/ c.at \in 1..StateLen - 1

\* What the modem prints after c: the next character of the same text, or the
\* line end; after that, the first character of another one.
Adjacent(c, d) ==
  IF c.what = "lf" THEN d.what \notin Ends /\ d.at = 1
  ELSE IF c.what = "cr" THEN d.what = "lf"
  ELSE IF d.what \in Ends THEN c.what \in Kinds => c.at = Size(c.what)
  ELSE /\ d.at = c.at + 1
       /\ IF c.what \in Kinds THEN d.what = c.what /\ d.line = c.line
          ELSE d.what \notin Kinds

First(c) == c.what \in Kinds /\ c.at = 1

\* The packets with their first character in s, and with any.
Packets(s) == {s[i].line : i \in {j \in 1..Len(s) : First(s[j])}}
Named(s)   == {s[i].line : i \in {j \in 1..Len(s) : s[j].what \in Kinds}}

\* Characters that follow one another as the modem prints them, perhaps
\* without the first ones, up to the end of a line, and packets in their order.
Printed(s) ==
  /\ \A i \in 1..Len(s) : Placed(s[i])
  /\ \A i \in 1..Len(s) : i < Len(s) => Adjacent(s[i], s[i + 1])
  /\ \A i \in 1..Len(s) : i = Len(s) => s[i].what = "lf"
  /\ \A i, j \in 1..Len(s) :
       i < j /\ s[i].what \in Kinds /\ First(s[j]) => s[i].line < s[j].line

\* Consecutive characters of one text.
Run(t) ==
  \A i \in 1..Len(t) :
    /\ t[i].what \notin Ends
    /\ t[i].at = t[1].at + (i - 1)
    /\ IF t[1].what \in Kinds
       THEN t[i].what = t[1].what /\ t[i].line = t[1].line
       ELSE t[i].what \notin Kinds

\* What the loop has read of a line, what waits for it, what is on its way.
Begun  == IF pc = "loop" THEN text ELSE <<>>
Stream == Begun \o (uart \o wire)

\* A packet is posted, in hand, or in the stream.
Coming  == Packets(Stream)
Names   == Named(Stream)
Gone    == {posted[i][1].line : i \in DOMAIN posted}
Posting == pc \in HttpPcs /\ caller = "post"
Held    == Posting /\ pc \notin {"read", "receive"}
InHand  == IF Held THEN {text[1].line} ELSE {}

Older(A, B) == \A a \in A, b \in B : a < b

\* The stream begins within a packet.
Cut(s) == Len(s) > 0 /\ s[1].what \in Kinds /\ s[1].at # 1

\* Only the loop comes upon such a stream, once it listens, and has then posted
\* nothing: it has been printed before.
Listening == begun /\ pc \notin {"ask", "answer"}
FrontInv  == Listening /\ Cut(Stream)
               => pc = "loop" /\ posted = <<>> /\ Stream[1].line <= skipped

\* What is in hand is a packet, or what is left of such a one.
HeldInv == Held => \/ Whole(text)
                   \/ Remnant(text) /\ posted = <<>> /\ text[1].line <= skipped

\* The posts: whole, but for the first, and in order.
PostInv ==
  /\ \A i \in DOMAIN posted :
       \/ Whole(posted[i])
       \/ i = 1 /\ Remnant(posted[1]) /\ posted[1][1].line <= skipped
  /\ \A i, j \in DOMAIN posted : i < j => posted[i][1].line < posted[j][1].line

\* Nothing stands in two places, and all of it is in order.
OrderInv ==
  /\ Older(Gone, InHand) /\ Older(Gone, Coming) /\ Older(InHand, Coming)
  /\ Older(Gone \cup InHand \cup Names, {lines + 1})

\* While the buffer has not overrun: what is in hand and in the stream are
\* lines in the order of printing.
LineInv ==
  /\ Printed(Stream)
  /\ pc = "loop" => Run(text)
  /\ FrontInv /\ HeldInv /\ PostInv /\ OrderInv

\* Once the loop listens a packet is nowhere else, unless a post fails.
LossInv ==
  Listening /\ ~failed
    => \A n \in Nat : skipped < n /\ n <= lines
         => n \in Gone \cup InHand \cup Coming

-----------------------------------------------------------------------------
(* Types.                                                                  *)

\* What the code says of lengths and texts.
LEMMA SizeFacts ==
  /\ StateLen \in Nat /\ DataLen \in Nat /\ StateLen < DataLen /\ 0 < StateLen
  /\ Size("state") = StateLen /\ Size("data") = DataLen
  /\ \A kind \in Kinds : Size(kind) \in Nat /\ 0 < Size(kind)
  /\ "cr" \notin Kinds /\ "lf" \notin Kinds /\ "cr" # "lf"
<1>1. StateLen \in Nat /\ DataLen \in Nat /\ StateLen < DataLen
  BY TextAssumption
<1>2. Len(Ok) \in 1..StateLen - 1
  BY TextAssumption DEF Answers
<1>3. 0 < StateLen
  BY <1>1, <1>2
<1> QED
  BY <1>1, <1>3 DEF Size, Kinds

\* An answer: each character in its place, none of them of a packet or of a
\* line end.
LEMMA AnswerFacts ==
  ASSUME NEW a \in Answers
  PROVE  /\ Len(a) \in Nat /\ 0 < Len(a) /\ Len(a) < StateLen
         /\ DOMAIN a = 1..Len(a)
         /\ \A i \in 1..Len(a) : /\ a[i] \notin Kinds /\ a[i] \notin Ends
                                  /\ a[i] \in Letters
<1>1. a \in Seq(STRING \ (Kinds \cup {"cr", "lf"})) /\ Len(a) \in 1..StateLen - 1
  BY TextAssumption
<1>2. /\ Len(a) \in Nat /\ DOMAIN a = 1..Len(a)
      /\ \A i \in 1..Len(a) : a[i] \in STRING \ (Kinds \cup {"cr", "lf"})
  BY <1>1
<1>3. \A i \in 1..Len(a) : a[i] \in Letters
  BY <1>2 DEF Letters
<1> QED
  BY <1>1, <1>2, <1>3, SizeFacts DEF Ends

\* The characters of two streams, one after the other.
LEMMA Joined ==
  ASSUME NEW t \in Seq(Chars), NEW u \in Seq(Chars)
  PROVE  /\ t \o u \in Seq(Chars)
         /\ Len(t) \in Nat /\ Len(u) \in Nat
         /\ Len(t \o u) = Len(t) + Len(u)
         /\ \A i \in 1..Len(t) : (t \o u)[i] = t[i]
         /\ \A i \in 1..Len(u) : (t \o u)[Len(t) + i] = u[i]
         /\ Packets(t \o u) = Packets(t) \cup Packets(u)
         /\ Named(t \o u) = Named(t) \cup Named(u)
<1> DEFINE s == t \o u
           n == Len(t)
           m == Len(u)
<1>1. /\ s \in Seq(Chars) /\ Len(s) = n + m /\ n \in Nat /\ m \in Nat
      /\ \A i \in 1..n + m : s[i] = IF i <= n THEN t[i] ELSE u[i - n]
  BY ConcatProperties
<1> HIDE DEF s, n, m
<1>2. \A i \in 1..n : i \in 1..n + m /\ s[i] = t[i]
  BY <1>1
<1>3. \A i \in 1..m : n + i \in 1..n + m /\ s[n + i] = u[i]
  <2>1. ASSUME NEW i \in 1..m PROVE n + i \in 1..n + m /\ s[n + i] = u[i]
    <3>1. n + i \in 1..n + m /\ ~(n + i <= n) /\ (n + i) - n = i
      BY <1>1
    <3> QED
      BY <1>1, <3>1
  <2> QED
    BY <2>1
<1>4. \A i \in 1..n + m : i \in 1..n \/ \E j \in 1..m : i = n + j
  <2>1. ASSUME NEW i \in 1..n + m, i \notin 1..n
        PROVE  i - n \in 1..m /\ i = n + (i - n)
    BY <1>1, <2>1
  <2> QED
    BY <2>1
<1>5. /\ Packets(s) = {s[i].line : i \in {j \in 1..n + m : First(s[j])}}
      /\ Named(s) = {s[i].line : i \in {j \in 1..n + m : s[j].what \in Kinds}}
  BY <1>1 DEF Packets, Named
<1>6. /\ Packets(t) = {t[i].line : i \in {j \in 1..n : First(t[j])}}
      /\ Named(t) = {t[i].line : i \in {j \in 1..n : t[j].what \in Kinds}}
      /\ Packets(u) = {u[i].line : i \in {j \in 1..m : First(u[j])}}
      /\ Named(u) = {u[i].line : i \in {j \in 1..m : u[j].what \in Kinds}}
  BY DEF Packets, Named, n, m
<1>7. Packets(t) \subseteq Packets(s) /\ Named(t) \subseteq Named(s)
  BY <1>2, <1>5, <1>6
<1>8. Packets(u) \subseteq Packets(s) /\ Named(u) \subseteq Named(s)
  BY <1>3, <1>5, <1>6
<1>9. /\ Packets(s) \subseteq Packets(t) \cup Packets(u)
      /\ Named(s) \subseteq Named(t) \cup Named(u)
  <2>1. ASSUME NEW i \in 1..n + m
        PROVE  /\ First(s[i]) => s[i].line \in Packets(t) \cup Packets(u)
               /\ s[i].what \in Kinds => s[i].line \in Named(t) \cup Named(u)
    <3>1. CASE i \in 1..n
      BY <1>2, <1>6, <3>1
    <3>2. CASE \E j \in 1..m : i = n + j
      BY <1>3, <1>6, <3>2
    <3> QED
      BY <1>4, <3>1, <3>2
  <2> QED
    BY <1>5, <2>1
<1> QED
  BY <1>1, <1>2, <1>3, <1>7, <1>8, <1>9 DEF s, n, m

\* What a character says of itself.
LEMMA CharFields ==
  ASSUME NEW c, NEW n, NEW what, NEW at, c = Char(n, what, at)
  PROVE  c.line = n /\ c.what = what /\ c.at = at
BY DEF Char

\* A text and its line end.
LEMMA PrintText ==
  ASSUME NEW n \in Nat, n # 0, NEW f \in [1..n -> Chars], NEW l, l = f \o LineEnd
  PROVE  /\ l \in Seq(Chars) /\ Len(l) = n + 2
         /\ \A i \in 1..n : l[i] = f[i]
         /\ l[n + 1].what = "cr" /\ l[n + 2].what = "lf"
<1>1. Char(0, "cr", 0) \in Chars /\ Char(0, "lf", 0) \in Chars
  BY DEF Char, Chars
<1>2. LineEnd \in Seq(Chars) /\ Len(LineEnd) = 2
      /\ LineEnd[1].what = "cr" /\ LineEnd[2].what = "lf"
  BY <1>1 DEF LineEnd, Char
<1>3. f \in Seq(Chars) /\ Len(f) = n
  OBVIOUS
<1>4. /\ l \in Seq(Chars) /\ Len(l) = n + 2
      /\ \A i \in 1..n : l[i] = f[i]
      /\ \A i \in 1..2 : l[n + i] = LineEnd[i]
  <2>1. PICK t \in Seq(Chars), e \in Seq(Chars) :
          t = f /\ e = LineEnd /\ Len(t) = n /\ Len(e) = 2
    BY <1>2, <1>3
  <2>2. l = t \o e
    BY <2>1
  <2>3. /\ l \in Seq(Chars) /\ Len(l) = Len(t) + Len(e)
        /\ \A i \in 1..Len(t) : l[i] = t[i]
        /\ \A i \in 1..Len(e) : l[Len(t) + i] = e[i]
    BY <2>2, Joined
  <2>4. Len(t) = n /\ Len(e) = 2 /\ t = f /\ e = LineEnd
    BY <2>1
  <2> QED
    BY <2>3, <2>4
<1> QED
  BY <1>2, <1>4

\* What the modem prints for a packet.
LEMMA PrintLine ==
  ASSUME NEW n \in Nat, NEW kind \in Kinds, NEW l, l = Line(n, kind)
  PROVE  /\ l \in Seq(Chars) /\ Len(l) = Size(kind) + 2
         /\ \A i \in 1..Size(kind) : l[i] = Char(n, kind, i)
         /\ l[Size(kind) + 1].what = "cr" /\ l[Size(kind) + 2].what = "lf"
<1> DEFINE f == [i \in 1..Size(kind) |-> Char(n, kind, i)]
<1>1. Size(kind) \in Nat /\ Size(kind) # 0
  BY SizeFacts
<1>2. \A i \in 1..Size(kind) : Char(n, kind, i) \in Chars
  BY <1>1 DEF Char, Chars
<1>3. f \in [1..Size(kind) -> Chars] /\ \A i \in 1..Size(kind) : f[i] = Char(n, kind, i)
  BY <1>2
<1>4. l = f \o LineEnd
  BY DEF Line
<1> HIDE DEF f
<1>5. /\ l \in Seq(Chars) /\ Len(l) = Size(kind) + 2
      /\ \A i \in 1..Size(kind) : l[i] = f[i]
      /\ l[Size(kind) + 1].what = "cr" /\ l[Size(kind) + 2].what = "lf"
  BY <1>1, <1>3, <1>4, PrintText
<1> QED
  BY <1>3, <1>5

\* What it prints for a command.
LEMMA PrintAnswer ==
  ASSUME NEW a \in Answers, NEW l, l = Said(a)
  PROVE  /\ l \in Seq(Chars) /\ Len(l) = Len(a) + 2
         /\ \A i \in 1..Len(a) : l[i] = Char(0, a[i], i)
         /\ l[Len(a) + 1].what = "cr" /\ l[Len(a) + 2].what = "lf"
<1> DEFINE f == [i \in DOMAIN a |-> Char(0, a[i], i)]
<1>1. Len(a) \in Nat /\ Len(a) # 0 /\ DOMAIN a = 1..Len(a)
  BY AnswerFacts
<1>2. \A i \in 1..Len(a) : Char(0, a[i], i) \in Chars
  BY <1>1, AnswerFacts DEF Char, Chars
<1>3. f \in [1..Len(a) -> Chars] /\ \A i \in 1..Len(a) : f[i] = Char(0, a[i], i)
  BY <1>1, <1>2
<1>4. l = f \o LineEnd
  BY DEF Said
<1> HIDE DEF f
<1>5. /\ l \in Seq(Chars) /\ Len(l) = Len(a) + 2
      /\ \A i \in 1..Len(a) : l[i] = f[i]
      /\ l[Len(a) + 1].what = "cr" /\ l[Len(a) + 2].what = "lf"
  BY <1>1, <1>3, <1>4, PrintText
<1> QED
  BY <1>3, <1>5

\* Every command has an answer.
LEMMA ReplyFacts == \A c : Reply(c) \in Answers
BY DEF Reply, Answers

\* The types, and the bound on the characters of a response while one more
\* is asked for.
TypeInv == TypeOK /\ (pc = "receive" => chunks < MaxChunks)

\* What a variable is reset to has its type.
LEMMA Zeros == /\ 0 \in 0..MaxChunks /\ 0 <= RxCap /\ 0 \in Nat
               /\ <<>> \in Seq(Chars)
<1>1. \A S : <<>> \in Seq(S)
  OBVIOUS
<1> QED
  BY <1>1, SizeAssumption

\* The types hold at power on.
LEMMA InitTypeOK == Init => TypeInv
<1>1. SUFFICES ASSUME Init PROVE TypeInv
  OBVIOUS
<1>2. 1 \in DOMAIN Dialogue
  BY DialogueAssumption
<1>3. Stages[1] \in ToSet(Stages) /\ Stages[1] # "receive"
  BY DEF Stages, ToSet
<1>4. 0 \in 0..MaxChunks /\ 0 <= RxCap
  BY Zeros
<1>5. \A S : <<>> \in Seq(S) /\ Len(<<>>) = 0
  OBVIOUS
<1> QED
  BY <1>1, <1>2, <1>3, <1>4, <1>5
     DEF Init, TypeInv, TypeOK, ModemTypeOK, SketchTypeOK, HistoryTypeOK

\* The modem and the UART.
LEMMA ModemTypes ==
  ASSUME TypeInv, Modem \/ Arrive
  PROVE  TypeInv'
<1> USE Zeros DEF modem, serial, http, sketch, past, TypeInv
<1>1. CASE \E kind \in Kinds : Packet(kind)
  <2>1. PICK kind \in Kinds : Packet(kind)
    BY <1>1
  <2>2. lines + 1 \in Nat /\ Line(lines + 1, kind) \in Seq(Chars)
    BY PrintLine DEF TypeOK, ModemTypeOK
  <2>3. wire' \in Seq(Chars)
    BY <2>1, <2>2, ConcatProperties DEF Packet, TypeOK, ModemTypeOK
  <2> QED
    BY <2>1, <2>2, <2>3
       DEF Packet, TypeOK, ModemTypeOK, SketchTypeOK, HistoryTypeOK
<1>2. CASE Obey
  <2>1. inbox' \in Seq(ToSet(Dialogue))
    BY <1>2 DEF Obey, TypeOK, ModemTypeOK
  <2>2. wire' \in Seq(Chars)
    <3> DEFINE said == Said(Reply(Head(inbox)))
    <3>1. said \in Seq(Chars)
      BY ReplyFacts, PrintAnswer
    <3> HIDE DEF said
    <3>2. wire \o said \in Seq(Chars) /\ wire \in Seq(Chars)
      BY <3>1, ConcatProperties DEF TypeOK, ModemTypeOK
    <3>3. wire' = wire \o said \/ wire' = wire
      BY <1>2 DEF Obey, said
    <3> QED
      BY <3>2, <3>3
  <2>3. mode' \in {"data", "command"} /\ word' \in {"0000", Tuned}
    BY <1>2 DEF Obey, TypeOK, ModemTypeOK
  <2> QED
    BY <1>2, <2>1, <2>2, <2>3
       DEF Obey, TypeOK, ModemTypeOK, SketchTypeOK, HistoryTypeOK
<1>3. CASE MissCommand
  BY <1>3 DEF MissCommand, TypeOK, ModemTypeOK, SketchTypeOK, HistoryTypeOK
<1>4. CASE Arrive
  <2>1. wire' \in Seq(Chars) /\ Head(wire) \in Chars
    BY <1>4 DEF Arrive, TypeOK, ModemTypeOK
  <2>2. uart' \in Seq(Chars) /\ Len(uart') <= RxCap
    BY <1>4, <2>1, SizeAssumption DEF Arrive, TypeOK, SketchTypeOK
  <2>3. overrun' \in BOOLEAN
    BY <1>4 DEF Arrive, TypeOK, HistoryTypeOK, SketchTypeOK
  <2> QED
    BY <1>4, <2>1, <2>2, <2>3
       DEF Arrive, TypeOK, ModemTypeOK, SketchTypeOK, HistoryTypeOK
<1> QED
  BY <1>1, <1>2, <1>3, <1>4 DEF Modem

\* The stages, the dialogue and the loop.
LEMMA SketchTypes ==
  ASSUME TypeInv,
         \/ \E i \in DOMAIN Stages, ok \in BOOLEAN : Stage(i, ok)
         \/ TimeDone \/ Ask \/ ReadAnswer \/ AnswerTimeout \/ ReadLine
  PROVE  TypeInv'
<1> USE Zeros DEF modem, serial, http, sketch, past, TypeInv
<1>1. CASE \E i \in DOMAIN Stages, ok \in BOOLEAN : Stage(i, ok)
  <2>1. PICK i \in DOMAIN Stages, ok \in BOOLEAN : Stage(i, ok)
    BY <1>1
  <2>2. pc' \in (ToSet(Stages) \cup {"loop", "dns"}) \ {"receive"}
    BY <2>1 DEF Stage, Stages, ToSet
  <2> QED
    BY <2>1, <2>2, SizeAssumption
       DEF Stage, TypeOK, ModemTypeOK, SketchTypeOK, HistoryTypeOK, HttpPcs
<1>2. CASE TimeDone
  BY <1>2 DEF TimeDone, TypeOK, ModemTypeOK, SketchTypeOK, HistoryTypeOK
<1>3. CASE Ask
  <2>1. inbox' \in Seq(ToSet(Dialogue)) /\ uart' = <<>> /\ Len(uart') = 0
    BY <1>3 DEF Ask, TypeOK, ModemTypeOK, SketchTypeOK, ToSet
  <2> QED
    BY <1>3, <2>1, SizeAssumption
       DEF Ask, TypeOK, ModemTypeOK, SketchTypeOK, HistoryTypeOK
<1>4. ASSUME NextCommand
      PROVE  /\ pc' \in {"ask", "loop"} /\ command' \in DOMAIN Dialogue
             /\ skipped' \in Nat
  BY <1>4, DialogueAssumption
     DEF NextCommand, TypeOK, SketchTypeOK, ModemTypeOK, HistoryTypeOK
<1>5. CASE ReadAnswer
  <2>1. /\ Head(uart) \in Chars /\ Tail(uart) \in Seq(Chars)
        /\ Len(Tail(uart)) <= RxCap
    BY <1>5, SizeAssumption DEF ReadAnswer, TypeOK, SketchTypeOK
  <2>2. Append(response, Head(uart)) \in Seq(Chars)
    BY <2>1 DEF TypeOK, SketchTypeOK
  <2>3. /\ response' \in Seq(Chars) /\ elapsed' \in BOOLEAN
        /\ NextCommand \/ UNCHANGED <<pc, command, skipped>>
    BY <1>5, <2>2 DEF ReadAnswer, TypeOK, SketchTypeOK
  <2> QED
    BY <1>4, <1>5, <2>1, <2>3
       DEF ReadAnswer, TypeOK, ModemTypeOK, SketchTypeOK, HistoryTypeOK
<1>6. CASE AnswerTimeout
  BY <1>4, <1>6
     DEF AnswerTimeout, TypeOK, ModemTypeOK, SketchTypeOK, HistoryTypeOK
<1>7. CASE ReadLine
  <2>1. /\ Head(uart) \in Chars /\ uart' \in Seq(Chars)
        /\ Len(uart') <= RxCap
    BY <1>7, SizeAssumption DEF ReadLine, TypeOK, SketchTypeOK
  <2>2. text' \in Seq(Chars)
    <3>1. Append(text, Head(uart)) \in Seq(Chars) /\ text \in Seq(Chars)
      BY <2>1 DEF TypeOK, SketchTypeOK
    <3>2. text' \in {Append(text, Head(uart)), text, <<>>}
      BY <1>7 DEF ReadLine
    <3> QED
      BY <3>1, <3>2
  <2>3. /\ pc' \in {pc, "dns"} /\ caller' \in {"time", "post"}
        /\ elapsed' \in BOOLEAN /\ chunks' \in 0..MaxChunks
    BY <1>7, SizeAssumption DEF ReadLine, TypeOK, SketchTypeOK
  <2> QED
    BY <1>7, <2>1, <2>2, <2>3
       DEF ReadLine, TypeOK, ModemTypeOK, SketchTypeOK, HistoryTypeOK, HttpPcs
<1> QED
  BY <1>1, <1>2, <1>3, <1>5, <1>6, <1>7

\* The HTTP exchange and the clock.
LEMMA HttpTypes ==
  ASSUME TypeInv,
         \/ Lookup \/ DnsDelay \/ NoConnection \/ Request \/ Available
         \/ Received \/ ReadTimeout \/ ServerClosed \/ TimePasses
  PROVE  TypeInv'
<1> USE Zeros DEF modem, serial, http, sketch, past, TypeInv, HttpUnchanged, HttpPcs
<1>1. ASSUME Return
      PROVE  /\ pc' \in {"timeDone", "loop"} /\ text' \in Seq(Chars)
             /\ elapsed' \in BOOLEAN /\ chunks' \in 0..MaxChunks
  BY <1>1, SizeAssumption DEF Return, TypeOK, SketchTypeOK
<1>2. (failed \/ caller = "post") \in BOOLEAN
  OBVIOUS
<1>3. CASE Lookup
  <2>1. CASE Resolved
    BY <2>1 DEF Resolved, TypeOK, ModemTypeOK, SketchTypeOK, HistoryTypeOK
  <2>2. CASE \E r \in {"zero", "negative"} : Unresolved(r)
    <3>1. /\ UNCHANGED <<HttpUnchanged, posted>> /\ failed' \in BOOLEAN
          /\ Return \/ (pc' = "dnsDelay" /\ UNCHANGED <<text, elapsed, chunks>>)
      BY <1>2, <2>2 DEF Unresolved, TypeOK, HistoryTypeOK
    <3> QED
      BY <1>1, <3>1 DEF TypeOK, ModemTypeOK, SketchTypeOK, HistoryTypeOK
  <2> QED
    BY <1>3, <2>1, <2>2 DEF Lookup
<1>4. CASE DnsDelay
  BY <1>4 DEF DnsDelay, TypeOK, ModemTypeOK, SketchTypeOK, HistoryTypeOK
<1>5. CASE NoConnection
  BY <1>1, <1>2, <1>5
     DEF NoConnection, TypeOK, ModemTypeOK, SketchTypeOK, HistoryTypeOK
<1>6. CASE Request
  <2>1. posted' \in Seq(Seq(Chars))
    BY <1>6 DEF Request, TypeOK, SketchTypeOK, HistoryTypeOK
  <2> QED
    BY <1>6, <2>1
       DEF Request, TypeOK, ModemTypeOK, SketchTypeOK, HistoryTypeOK
<1>7. CASE Available
  BY <1>7 DEF Available, TypeOK, ModemTypeOK, SketchTypeOK, HistoryTypeOK
<1>8. CASE Received
  <2>1. chunks + 1 \in 0..MaxChunks
    BY <1>8, SizeAssumption DEF Received, TypeOK, SketchTypeOK
  <2> QED
    BY <1>8, <2>1 DEF Received, TypeOK, ModemTypeOK, SketchTypeOK, HistoryTypeOK
<1>9. CASE ReadTimeout \/ ServerClosed
  BY <1>1, <1>9 DEF ReadTimeout, ServerClosed, TypeOK, ModemTypeOK,
                    SketchTypeOK, HistoryTypeOK
<1>10. CASE TimePasses
  BY <1>10 DEF TimePasses, TypeOK, ModemTypeOK, SketchTypeOK, HistoryTypeOK
<1> QED
  BY <1>3, <1>4, <1>5, <1>6, <1>7, <1>8, <1>9, <1>10

\* Every step keeps the types.
LEMMA TypeStep == TypeInv /\ [Next]_vars => TypeInv'
<1>1. SUFFICES ASSUME TypeInv, [Next]_vars PROVE TypeInv'
  OBVIOUS
<1>2. CASE UNCHANGED vars
  BY <1>1, <1>2 DEF vars, modem, serial, http, sketch, past, TypeInv, TypeOK,
                    ModemTypeOK, SketchTypeOK, HistoryTypeOK, HttpPcs
<1>3. CASE Next
  BY <1>1, <1>3, ModemTypes, SketchTypes, HttpTypes DEF Next, Board
<1> QED
  BY <1>1, <1>2, <1>3

\* Every variable keeps its type, for any dialogue, buffer and traffic.
THEOREM TypeCorrect == Spec => []TypeOK
<1>1. Spec => []TypeInv
  BY InitTypeOK, TypeStep, PTL DEF Spec
<1> QED
  BY <1>1, PTL DEF TypeInv

-----------------------------------------------------------------------------
(* The dialogue.                                                           *)

\* At power on nothing has been opened or sent.
LEMMA InitBoard == Init => BoardInv /\ ModemInv
<1>1. SUFFICES ASSUME Init PROVE BoardInv /\ ModemInv
  OBVIOUS
<1>2. pc = "sdBegin" /\ Len(inbox) = 0
  BY <1>1 DEF Init, Stages
<1> QED
  BY <1>1, <1>2 DEF Init, Stages, HttpPcs, BoardInv, ModemInv, Taken, Sent

\* Every step keeps setup() on its way.
LEMMA BoardStep ==
  TypeInv /\ BoardInv /\ [Next]_vars => BoardInv'
<1>1. SUFFICES ASSUME TypeInv, BoardInv, [Next]_vars PROVE BoardInv'
  OBVIOUS
<1> USE <1>1 DEF BoardInv, modem, serial, http, sketch, past, HttpPcs
<1>2. DOMAIN Stages = 1..5 /\ Len(Stages) = 5
      /\ Stages[1] = "sdBegin" /\ Stages[2] = "configExists"
      /\ Stages[3] = "configLoad" /\ Stages[4] = "wifiBegin"
      /\ Stages[5] = "wifiConnect"
  BY DEF Stages
<1>3. ToSet(Stages) = {"sdBegin", "configExists", "configLoad", "wifiBegin",
                       "wifiConnect"}
  BY <1>2 DEF ToSet
<1>4. CASE UNCHANGED vars
  BY <1>4 DEF vars
<1>5. CASE Modem
  BY <1>5 DEF Modem, Packet, Obey, MissCommand
<1>6. CASE Arrive
  BY <1>6 DEF Arrive
<1>7. CASE \E i \in DOMAIN Stages, ok \in BOOLEAN : Stage(i, ok)
  <2>1. PICK i \in DOMAIN Stages, ok \in BOOLEAN : Stage(i, ok)
    BY <1>7
  <2>2. /\ ~begun /\ text = <<>> /\ caller' = "time"
        /\ pc' \in ToSet(Stages) \cup {"loop", "dns"}
    BY <1>2, <1>3, <2>1 DEF Stage
  <2> QED
    BY <1>3, <2>1, <2>2 DEF Stage
<1>8. CASE TimeDone \/ Ask
  BY <1>3, <1>8 DEF TimeDone, Ask
<1>9. CASE ReadAnswer \/ AnswerTimeout
  <2>1. pc = "answer" /\ pc' \in {"answer", "ask", "loop"} /\ begun /\ begun'
        /\ UNCHANGED <<text, posted>> /\ text = <<>> /\ posted = <<>>
    BY <1>3, <1>9 DEF ReadAnswer, AnswerTimeout, NextCommand
  <2> QED
    BY <1>3, <2>1
<1>10. CASE ReadLine
  <2>1. begun /\ begun' /\ pc = "loop"
    BY <1>10 DEF ReadLine
  <2>2. pc' = "loop" \/ (pc' = "dns" /\ caller' = "post")
    BY <1>10, <2>1 DEF ReadLine
  <2> QED
    BY <1>3, <2>1, <2>2
<1>11. ASSUME pc \in HttpPcs, Return, UNCHANGED <<HttpUnchanged, posted>>
       PROVE  BoardInv'
  BY <1>3, <1>11 DEF Return, HttpUnchanged, TypeInv, TypeOK, SketchTypeOK
<1>12. CASE Lookup
  <2>1. CASE Resolved
    BY <1>3, <2>1 DEF Resolved, HttpUnchanged
  <2>2. CASE \E r \in {"zero", "negative"} : Unresolved(r)
    BY <1>3, <1>11, <2>2 DEF Unresolved, HttpUnchanged
  <2> QED
    BY <1>12, <2>1, <2>2 DEF Lookup
<1>13. CASE NoConnection \/ ReadTimeout \/ ServerClosed
  BY <1>11, <1>13 DEF NoConnection, ReadTimeout, ServerClosed, HttpUnchanged
<1>14. CASE DnsDelay \/ Request \/ Available \/ Received \/ TimePasses
  BY <1>3, <1>14 DEF DnsDelay, Request, Available, Received, TimePasses,
                     HttpUnchanged
<1> QED
  BY <1>4, <1>5, <1>6, <1>7, <1>8, <1>9, <1>10, <1>12, <1>13, <1>14
     DEF Next, Board

\* What the code says of the dialogue.
LEMMA DialogueFacts ==
  /\ Commands \in Nat /\ Commands > 1 /\ DOMAIN Dialogue = 1..Commands
  /\ Dialogue[1] = "+++"
  /\ \A i \in 1..Commands : Dialogue[i] = "ATO" <=> i = Commands
  /\ \E i \in 1..Commands : Dialogue[i] = "ATSW=6432"
<1>1. /\ Commands \in Nat /\ Commands # 0 /\ DOMAIN Dialogue = 1..Commands
      /\ \A i \in DOMAIN Dialogue : Dialogue[i] = "ATO" <=> i = Commands
      /\ Dialogue[1] = "+++"
  BY DialogueAssumption DEF Commands
<1>2. Commands # 1
  BY <1>1
<1> QED
  BY <1>1, <1>2, DialogueAssumption

\* Only a request of the helper adds a command to those sent.
LEMMA SentMoves ==
  ASSUME TypeInv, BoardInv, [Next]_vars
  PROVE  /\ Sent \in 0..Commands
         /\ Ask => Sent' = Sent + 1 /\ Sent + 1 = command
         /\ ~Ask => Sent' = Sent
<1> USE DEF modem, serial, http, sketch, past, HttpPcs
<1>1. /\ Commands \in Nat /\ Commands > 1
      /\ DOMAIN Dialogue = 1..Commands
  BY DialogueFacts
<1>2. command \in 1..Commands
  BY <1>1 DEF TypeInv, TypeOK, SketchTypeOK
<1>3. Sent \in 0..Commands
  BY <1>1, <1>2 DEF Sent
<1>4. ASSUME Ask PROVE Sent' = Sent + 1 /\ Sent + 1 = command
  BY <1>1, <1>2, <1>3, <1>4 DEF Ask, Sent
<1>5. ASSUME UNCHANGED <<begun, command>>, pc \notin {"ask", "answer"},
             pc' \notin {"ask", "answer"}
      PROVE  Sent' = Sent
  BY <1>5 DEF Sent
<1>6. ASSUME UNCHANGED <<begun, command, pc>>
      PROVE  Sent' = Sent
  BY <1>6 DEF Sent
<1>7. ASSUME UNCHANGED vars PROVE Sent' = Sent
  BY <1>6, <1>7 DEF vars
<1>8. ASSUME Modem \/ Arrive \/ TimePasses PROVE Sent' = Sent
  BY <1>6, <1>8 DEF Modem, Packet, Obey, MissCommand, Arrive, TimePasses
<1>9. ASSUME \E i \in DOMAIN Stages, ok \in BOOLEAN : Stage(i, ok) PROVE Sent' = Sent
  BY <1>5, <1>9 DEF Stage, Stages
<1>10. ASSUME TimeDone PROVE Sent' = Sent
  <2>1. ~begun /\ command = 1
    BY <1>10 DEF TimeDone, BoardInv
  <2> QED
    BY <1>10, <2>1 DEF TimeDone, Sent
<1>11. ASSUME pc = "answer", NextCommand, UNCHANGED begun
       PROVE  Sent' = Sent
  <2>1. begun /\ begun'
    BY <1>11 DEF BoardInv
  <2>2. IF command < Commands THEN pc' = "ask" /\ command' = command + 1
        ELSE pc' = "loop"
    BY <1>11 DEF NextCommand, Commands
  <2> QED
    BY <1>1, <1>2, <1>11, <2>1, <2>2 DEF Sent
<1>12. ASSUME ReadAnswer \/ AnswerTimeout PROVE Sent' = Sent
  BY <1>6, <1>11, <1>12 DEF ReadAnswer, AnswerTimeout
<1>13. ASSUME ReadLine PROVE Sent' = Sent
  <2>1. pc = "loop" /\ pc' \in {"loop", "dns"} /\ UNCHANGED <<begun, command>>
    BY <1>13 DEF ReadLine
  <2> QED
    BY <1>5, <2>1
<1>14. ASSUME \/ Lookup \/ DnsDelay \/ NoConnection \/ Request \/ ReadTimeout
              \/ Available \/ Received \/ ServerClosed
       PROVE  Sent' = Sent
  <2>1. /\ pc \in HttpPcs /\ pc' \in HttpPcs \cup {"loop", "timeDone"}
        /\ UNCHANGED <<begun, command>>
    BY <1>14 DEF Lookup, Resolved, Unresolved, DnsDelay, NoConnection, Request,
                 ReadTimeout, Available, Received, ServerClosed, Return,
                 HttpUnchanged
  <2> QED
    BY <1>5, <2>1
<1> QED
  BY <1>3, <1>4, <1>7, <1>8, <1>9, <1>10, <1>12, <1>13, <1>14
     DEF Next, Board, Ask

\* Every step keeps the modem where the dialogue is, unless a command is lost.
LEMMA ModemStep ==
  TypeInv /\ BoardInv /\ ModemInv /\ [Next]_vars /\ ~missed' => ModemInv'
<1>1. SUFFICES ASSUME TypeInv, BoardInv, ModemInv, [Next]_vars, ~missed'
               PROVE  ModemInv'
  OBVIOUS
<1> USE DEF modem, serial, http, sketch, past
<1>2. /\ Commands \in Nat /\ Commands > 1
      /\ DOMAIN Dialogue = 1..Commands /\ Dialogue[1] = "+++"
      /\ \A i \in 1..Commands : Dialogue[i] = "ATO" <=> i = Commands
  BY DialogueFacts
<1>3. /\ inbox \in Seq(ToSet(Dialogue)) /\ Len(inbox) \in Nat
      /\ Sent \in 0..Commands /\ mode \in {"data", "command"}
  BY <1>1, SentMoves DEF TypeInv, TypeOK, ModemTypeOK
<1>4. CASE UNCHANGED <<inbox, mode, word>> /\ ~Ask
  <2>1. Sent' = Sent /\ Taken' = Taken
    BY <1>1, <1>4, SentMoves DEF Taken
  <2> QED
    BY <1>1, <1>4, <2>1 DEF ModemInv
<1>5. CASE Ask
  <2>1. Sent' = Sent + 1 /\ Sent + 1 = command
        /\ inbox' = Append(inbox, Dialogue[command])
    BY <1>1, <1>5, SentMoves DEF Ask
  <2>2. command \in 1..Commands /\ Dialogue[command] \in ToSet(Dialogue)
    BY <1>1, <1>2 DEF TypeInv, TypeOK, SketchTypeOK, ToSet
  <2>3. /\ Len(inbox') = Len(inbox) + 1
        /\ \A i \in 1..Len(inbox) : inbox'[i] = inbox[i]
        /\ inbox'[Len(inbox) + 1] = Dialogue[command]
    BY <1>3, <2>1, <2>2, AppendProperties
  <2>4. Taken' = Taken /\ Taken + Len(inbox) + 1 = command /\ Taken \in Nat
    BY <1>1, <1>3, <2>1, <2>3 DEF Taken, ModemInv
  <2>5. ASSUME NEW i \in 1..Len(inbox') PROVE inbox'[i] = Dialogue[Taken + i]
    <3>1. CASE i \in 1..Len(inbox)
      BY <1>1, <2>3, <3>1 DEF ModemInv
    <3>2. CASE i = Len(inbox) + 1
      BY <1>3, <2>3, <2>4, <3>2
    <3> QED
      BY <1>3, <2>3, <3>1, <3>2
  <2>6. UNCHANGED <<mode, word>>
    BY <1>5 DEF Ask
  <2> QED
    BY <1>1, <2>4, <2>5, <2>6 DEF ModemInv
<1>6. CASE Obey
  <2> DEFINE c == Head(inbox)
  <2>0. PICK k : k = Taken + 1
    OBVIOUS
  <2>1. /\ Len(inbox) > 0 /\ inbox' = Tail(inbox) /\ c = inbox[1]
        /\ Len(inbox') = Len(inbox) - 1
        /\ \A i \in 1..Len(inbox') : inbox'[i] = inbox[i + 1]
    BY <1>3, <1>6, HeadTailProperties DEF Obey
  <2>2. ~Ask
    BY <1>6 DEF Obey, Ask
  <2>3. /\ Sent' = Sent /\ Taken' = k /\ k = Taken + 1
        /\ Taken \in Nat /\ k \in Nat /\ k <= Commands
    <3>1. Sent' = Sent /\ Len(inbox') = Len(inbox) - 1 /\ Len(inbox) > 0
      BY <1>1, <2>1, <2>2, SentMoves
    <3>2. Taken = Sent - Len(inbox) /\ Taken' = Sent' - Len(inbox')
      BY DEF Taken
    <3>3. Taken \in Nat
      BY <1>1 DEF ModemInv
    <3> QED
      BY <1>2, <1>3, <2>0, <3>1, <3>2, <3>3
  <2>4. c = Dialogue[k] /\ k \in 1..Commands
    <3>1. 1 \in 1..Len(inbox) /\ inbox[1] = Dialogue[Taken + 1]
      BY <1>1, <1>3, <2>1 DEF ModemInv
    <3> QED
      BY <1>2, <2>1, <2>3, <2>0, <3>1
  <2>5. ASSUME NEW i \in 1..Len(inbox') PROVE inbox'[i] = Dialogue[k + i]
    <3>1. i + 1 \in 1..Len(inbox) /\ inbox'[i] = inbox[i + 1]
      BY <1>3, <2>1
    <3>2. inbox[i + 1] = Dialogue[Taken + (i + 1)]
      BY <1>1, <3>1 DEF ModemInv
    <3> QED
      <4>1. Taken + (i + 1) = k + i
        BY <2>3, <3>1
      <4> QED
        BY <3>1, <3>2, <4>1
  <2>6. Obeys(c)
    <3>1. CASE Taken = 0
      BY <1>2, <2>3, <2>4, <3>1 DEF Obeys
    <3>2. CASE Taken # 0
      <4>1. Taken \in 1..Commands - 1
        BY <1>2, <2>3, <3>2
      <4> QED
        BY <1>1, <4>1 DEF ModemInv, Obeys
    <3> QED
      BY <3>1, <3>2
  <2>7. /\ mode' = IF c = "+++" THEN "command" ELSE IF c = "ATO" THEN "data"
                   ELSE mode
        /\ word' = IF c = "ATSW=6432" THEN Tuned ELSE word
    BY <1>6, <2>6 DEF Obey
  <2>8. mode' = "command" <=> k \in 1..Commands - 1
    <3>1. CASE c = "ATO"
      BY <1>2, <2>3, <2>4, <2>7, <3>1
    <3>2. CASE c # "ATO"
      <4>1. k \in 1..Commands - 1
        BY <1>2, <2>4, <3>2
      <4>2. c = "+++" \/ mode = "command"
        BY <2>6 DEF Obeys
      <4> QED
        BY <2>7, <3>2, <4>1, <4>2
    <3> QED
      BY <3>1, <3>2
  <2>9. ASSUME NEW i \in 1..k, Dialogue[i] = "ATSW=6432" PROVE word' = Tuned
    <3>1. CASE i = k
      BY <2>4, <2>7, <2>9, <3>1
    <3>2. CASE i # k
      <4>1. i \in 1..Taken
        BY <2>3, <3>2
      <4> QED
        BY <1>1, <2>7, <2>9, <4>1 DEF ModemInv
    <3> QED
      BY <3>1, <3>2
  <2> QED
    BY <2>3, <2>5, <2>8, <2>9 DEF ModemInv
<1>7. CASE MissCommand
  BY <1>1, <1>7 DEF MissCommand
<1>8. UNCHANGED <<inbox, mode, word>> \/ Ask \/ Obey \/ MissCommand
  BY <1>1 DEF vars, Next, Board, Modem, Packet, Arrive, Stage, TimeDone,
       ReadAnswer, AnswerTimeout, ReadLine, Lookup, Resolved, Unresolved,
       DnsDelay, NoConnection, Request, ReadTimeout, Available, Received,
       ServerClosed, TimePasses, HttpUnchanged
<1> QED
  BY <1>4, <1>5, <1>6, <1>7, <1>8

\* A command that has been missed stays missed.
LEMMA MissedStays == TypeInv /\ [Next]_vars /\ ~missed' => ~missed
<1>1. SUFFICES ASSUME TypeInv, [Next]_vars, missed PROVE missed'
  BY DEF TypeInv, TypeOK, HistoryTypeOK
<1> USE DEF past
<1>2. CASE MissCommand
  BY <1>2 DEF MissCommand
<1>3. CASE ~MissCommand
  <2>1. missed' = missed
    BY <1>1, <1>3 DEF vars, Next, Board, Modem, Packet, Obey, Arrive, Stage,
         TimeDone, Ask, ReadAnswer, AnswerTimeout, ReadLine, Lookup, Resolved,
         Unresolved, DnsDelay, NoConnection, Request, ReadTimeout, Available,
         Received, ServerClosed, TimePasses, HttpUnchanged, NextCommand
  <2> QED
    BY <1>1, <2>1
<1> QED
  BY <1>2, <1>3

-----------------------------------------------------------------------------
(* Lines.                                                                  *)

\* What is left of a stream of lines when the first characters are gone.
LEMMA DropChars ==
  ASSUME NEW t \in Seq(Chars), NEW u \in Seq(Chars), Printed(t \o u)
  PROVE  Printed(u) /\ Older(Named(t), Packets(u))
<1> DEFINE s == t \o u
           n == Len(t)
           m == Len(u)
<1>1. /\ Len(s) = n + m /\ n \in Nat /\ m \in Nat /\ Printed(s)
      /\ \A i \in 1..n : s[i] = t[i]
      /\ \A i \in 1..m : s[n + i] = u[i]
  BY Joined
<1>2. Len(t) = n /\ Len(u) = m
  OBVIOUS
<1> HIDE DEF s, n, m
<1>3. ASSUME NEW i \in 1..m
      PROVE  /\ Placed(u[i])
             /\ i < m => Adjacent(u[i], u[i + 1])
             /\ i = m => u[i].what = "lf"
  <2>1. PICK k \in 1..n + m : k = n + i
    BY <1>1
  <2>2. s[k] = u[i] /\ (k < n + m <=> i < m) /\ (k = n + m <=> i = m)
    BY <1>1, <2>1
  <2>3. i < m => s[k + 1] = u[i + 1]
    <3>1. SUFFICES ASSUME i < m PROVE s[k + 1] = u[i + 1]
      OBVIOUS
    <3>2. i + 1 \in 1..m /\ n + (i + 1) = k + 1
      BY <1>1, <2>1, <3>1
    <3> QED
      BY <1>1, <3>2
  <2>4. /\ Placed(s[k])
        /\ k < n + m => Adjacent(s[k], s[k + 1])
        /\ k = n + m => s[k].what = "lf"
    BY <1>1 DEF Printed
  <2> QED
    BY <2>2, <2>3, <2>4
<1>4. ASSUME NEW i \in 1..m, NEW j \in 1..m, i < j,
             u[i].what \in Kinds, First(u[j])
      PROVE  u[i].line < u[j].line
  <2>1. /\ n + i \in 1..n + m /\ n + j \in 1..n + m /\ n + i < n + j
        /\ s[n + i] = u[i] /\ s[n + j] = u[j]
    BY <1>1, <1>4
  <2> QED
    BY <1>1, <1>4, <2>1 DEF Printed
<1>5. Printed(u)
  BY <1>2, <1>3, <1>4 DEF Printed
<1>6. ASSUME NEW i \in 1..n, NEW j \in 1..m, t[i].what \in Kinds, First(u[j])
      PROVE  t[i].line < u[j].line
  <2>1. /\ i \in 1..n + m /\ n + j \in 1..n + m /\ i < n + j
        /\ s[i] = t[i] /\ s[n + j] = u[j]
    BY <1>1
  <2> QED
    BY <1>1, <1>6, <2>1 DEF Printed
<1> QED
  BY <1>2, <1>5, <1>6 DEF Older, Packets, Named

\* A whole line, or a whole answer, more.
LEMMA AddChars ==
  ASSUME NEW t \in Seq(Chars), NEW u \in Seq(Chars),
         Printed(t), Printed(u), Older(Named(t), Packets(u)),
         Len(u) > 0, u[1].what \notin Ends, u[1].at = 1
  PROVE  Printed(t \o u)
<1> DEFINE s == t \o u
           n == Len(t)
           m == Len(u)
<1>1. /\ Len(s) = n + m /\ n \in Nat /\ m \in Nat /\ m > 0
      /\ \A i \in 1..n : s[i] = t[i]
      /\ \A i \in 1..m : s[n + i] = u[i]
  BY Joined
<1>2. Len(t) = n /\ Len(u) = m
  OBVIOUS
<1> HIDE DEF s, n, m
<1>3. \A i \in 1..n + m : i \in 1..n \/ \E j \in 1..m : i = n + j
  <2>1. ASSUME NEW i \in 1..n + m, i \notin 1..n
        PROVE  i - n \in 1..m /\ i = n + (i - n)
    BY <1>1, <2>1
  <2> QED
    BY <2>1
<1>4. ASSUME NEW i \in 1..n + m
      PROVE  /\ Placed(s[i])
             /\ i < n + m => Adjacent(s[i], s[i + 1])
             /\ i = n + m => s[i].what = "lf"
  <2>1. CASE i \in 1..n /\ i # n
    <3>0. i < n /\ i # n + m /\ i + 1 \in 1..n
      BY <1>1, <2>1
    <3>1. s[i] = t[i] /\ s[i + 1] = t[i + 1]
      BY <1>1, <2>1, <3>0
    <3>2. Placed(t[i]) /\ Adjacent(t[i], t[i + 1])
      BY <1>2, <2>1, <3>0 DEF Printed
    <3> QED
      BY <3>0, <3>1, <3>2
  <2>2. CASE i = n
    <3>1. i \in 1..n /\ i # n + m
      BY <1>1, <2>2
    <3>2. Placed(t[i]) /\ t[i].what = "lf"
      BY <1>2, <2>2, <3>1 DEF Printed
    <3>3. s[i] = t[i] /\ s[i + 1] = u[1]
      BY <1>1, <2>2, <3>1
    <3>4. Adjacent(t[i], u[1])
      BY <3>2 DEF Adjacent
    <3> QED
      BY <3>1, <3>2, <3>3, <3>4
  <2>3. ASSUME NEW j \in 1..m, i = n + j
        PROVE  /\ s[i] = u[j] /\ (i < n + m <=> j < m) /\ (i = n + m <=> j = m)
               /\ j < m => s[i + 1] = u[j + 1]
    <3>1. s[i] = u[j] /\ (i < n + m <=> j < m) /\ (i = n + m <=> j = m)
      BY <1>1, <2>3
    <3>2. ASSUME j < m PROVE s[i + 1] = u[j + 1]
      <4>1. j + 1 \in 1..m /\ n + (j + 1) = i + 1
        BY <1>1, <2>3, <3>2
      <4> QED
        BY <1>1, <4>1
    <3> QED
      BY <3>1, <3>2
  <2>4. CASE \E j \in 1..m : i = n + j
    <3>1. PICK j \in 1..m : i = n + j
      BY <2>4
    <3>2. /\ s[i] = u[j] /\ (i < n + m <=> j < m) /\ (i = n + m <=> j = m)
          /\ j < m => s[i + 1] = u[j + 1]
      BY <2>3, <3>1
    <3>3. /\ Placed(u[j]) /\ (j < m => Adjacent(u[j], u[j + 1]))
          /\ (j = m => u[j].what = "lf")
      BY <1>2 DEF Printed
    <3> QED
      BY <3>2, <3>3
  <2> QED
    BY <1>3, <2>1, <2>2, <2>4
<1>5. ASSUME NEW i \in 1..n + m, NEW j \in 1..n + m, i < j,
             s[i].what \in Kinds, First(s[j])
      PROVE  s[i].line < s[j].line
  <2>1. CASE i \in 1..n /\ j \in 1..n
    BY <1>1, <1>2, <1>5, <2>1 DEF Printed
  <2>2. CASE i \in 1..n /\ \E k \in 1..m : j = n + k
    <3>1. PICK k \in 1..m : j = n + k
      BY <2>2
    <3>2. t[i].line \in Named(t) /\ u[k].line \in Packets(u)
      BY <1>1, <1>2, <1>5, <2>2, <3>1 DEF Packets, Named
    <3> QED
      BY <1>1, <2>2, <3>1, <3>2 DEF Older
  <2>3. CASE (\E k \in 1..m : i = n + k) /\ (\E k \in 1..m : j = n + k)
    <3>1. PICK k \in 1..m, l \in 1..m : i = n + k /\ j = n + l
      BY <2>3
    <3>2. k < l
      BY <1>1, <1>5, <3>1
    <3>3. s[i] = u[k] /\ s[j] = u[l]
      BY <1>1, <3>1
    <3>4. u[k].line < u[l].line
      BY <1>2, <1>5, <3>2, <3>3 DEF Printed
    <3> QED
      BY <3>3, <3>4
  <2>4. CASE (\E k \in 1..m : i = n + k) /\ j \in 1..n
    BY <1>1, <1>5, <2>4
  <2> QED
    BY <1>3, <2>1, <2>2, <2>3, <2>4
<1> QED
  BY <1>1, <1>4, <1>5 DEF Printed, s

\* What follows the first character of a stream.
LEMMA AfterFirst ==
  ASSUME NEW c \in Chars, NEW r \in Seq(Chars), NEW u, u = <<c>> \o r, Printed(u)
  PROVE  /\ c.what # "lf" => Len(r) > 0
         /\ Len(r) > 0 => Adjacent(c, r[1])
<1>1. <<c>> \in Seq(Chars) /\ Len(<<c>>) = 1 /\ <<c>>[1] = c
  OBVIOUS
<1>2. /\ Len(u) = 1 + Len(r) /\ Len(r) \in Nat
      /\ \A i \in 1..1 : u[i] = <<c>>[i]
      /\ \A i \in 1..Len(r) : u[1 + i] = r[i]
  BY <1>1, Joined
<1>3. 1 \in 1..Len(u) /\ u[1] = c
  BY <1>1, <1>2
<1>4. ASSUME c.what # "lf" PROVE Len(r) > 0
  <2>1. Len(u) # 1
    BY <1>3, <1>4 DEF Printed
  <2> QED
    BY <1>2, <2>1
<1>5. ASSUME Len(r) > 0 PROVE Adjacent(c, r[1])
  <2>1. 1 < Len(u) /\ 1 \in 1..Len(r) /\ 1 + 1 = 2
    BY <1>2, <1>5
  <2>2. Adjacent(u[1], u[1 + 1])
    BY <1>3, <2>1 DEF Printed
  <2>3. u[1 + 1] = r[1]
    BY <1>2, <2>1
  <2> QED
    BY <1>3, <2>2, <2>3
<1> QED
  BY <1>4, <1>5

\* A stream w of a text t, a carriage return c and r, and s without the return.
Passed(t, c, e, r, u, w, s) ==
  /\ t \in Seq(Chars) /\ c \in Chars /\ r \in Seq(Chars)
  /\ c.what = "cr" /\ e = <<c>> /\ e \in Seq(Chars)
  /\ u = e \o r /\ u \in Seq(Chars) /\ Run(t) /\ w = t \o u /\ Printed(w)
  /\ s = t \o r

\* The loop passes over a carriage return: the text it has read so far stands
\* before the line feed.
LEMMA SkipReturn ==
  ASSUME NEW t, NEW c, NEW e, NEW r, NEW u, NEW w, NEW s,
         Passed(t, c, e, r, u, w, s)
  PROVE  /\ Printed(s)
         /\ Packets(s) = Packets(w) /\ Named(s) = Named(w)
         /\ Cut(s) => Cut(w) /\ s[1] = w[1]
<1>0. /\ t \in Seq(Chars) /\ c \in Chars /\ r \in Seq(Chars)
      /\ c.what = "cr" /\ e = <<c>> /\ e \in Seq(Chars)
      /\ u = e \o r /\ u \in Seq(Chars) /\ Run(t) /\ w = t \o u /\ Printed(w)
      /\ s = t \o r
  BY DEF Passed
<1> USE <1>0
<1>1. <<c>> \in Seq(Chars) /\ Len(<<c>>) = 1 /\ <<c>>[1] = c
  OBVIOUS
<1>2. /\ Len(u) = 1 + Len(r) /\ Len(r) \in Nat /\ u[1] = c
      /\ Packets(u) = Packets(<<c>>) \cup Packets(r)
      /\ Named(u) = Named(<<c>>) \cup Named(r)
  <2>1. /\ Len(u) = 1 + Len(r) /\ Len(r) \in Nat
        /\ \A i \in 1..1 : u[i] = <<c>>[i]
        /\ Packets(u) = Packets(<<c>>) \cup Packets(r)
        /\ Named(u) = Named(<<c>>) \cup Named(r)
    BY <1>1, Joined
  <2>2. u[1] = c
    BY <1>1, <2>1
  <2> QED
    BY <2>1, <2>2
<1>3. Printed(u) /\ Older(Named(t), Packets(u))
  BY DropChars
<1>4. Len(r) > 0 /\ r[1].what = "lf"
  <2>1. Len(r) > 0 /\ Adjacent(c, r[1])
    BY <1>3, AfterFirst
  <2> QED
    BY <2>1 DEF Adjacent
<1>5. Printed(r)
  BY <1>1, <1>3, DropChars
<1>6. c.what \notin Kinds
  BY SizeFacts
<1>7. Packets(<<c>>) = {} /\ Named(<<c>>) = {}
  BY <1>1, <1>6 DEF Packets, Named, First
<1>8. Packets(u) = Packets(r) /\ Named(u) = Named(r)
  BY <1>2, <1>7
<1> DEFINE n == Len(t)
           m == Len(r)
<1>9. /\ Len(s) = n + m /\ n \in Nat /\ m \in Nat /\ m > 0
      /\ \A i \in 1..n : s[i] = t[i]
      /\ \A i \in 1..m : s[n + i] = r[i]
  BY <1>4, Joined
<1>10. /\ Len(w) = n + (m + 1)
       /\ \A i \in 1..n : w[i] = t[i]
       /\ w[n + 1] = c
       /\ Printed(w)
  <2>1. /\ Len(w) = n + Len(u) /\ Len(u) = m + 1
        /\ \A i \in 1..n : w[i] = t[i]
        /\ \A i \in 1..Len(u) : w[n + i] = u[i]
    BY <1>2, Joined
  <2>2. 1 \in 1..Len(u)
    BY <1>9, <2>1
  <2> QED
    BY <1>2, <2>1, <2>2
<1>11. Len(t) = n /\ Len(r) = m
  OBVIOUS
<1>11a. Packets(s) = Packets(w) /\ Named(s) = Named(w)
  <2>1. Packets(s) = Packets(t) \cup Packets(r) /\ Named(s) = Named(t) \cup Named(r)
    BY Joined
  <2>2. Packets(w) = Packets(t) \cup Packets(u) /\ Named(w) = Named(t) \cup Named(u)
    BY Joined
  <2> QED
    BY <1>8, <2>1, <2>2
<1> HIDE DEF n, m
<1>12. ASSUME NEW i \in 1..n
       PROVE  /\ Placed(s[i]) /\ Adjacent(s[i], s[i + 1])
  <2>0. i \in 1..Len(w) /\ i < Len(w)
    BY <1>9, <1>10
  <2>1. /\ w[i] = t[i] /\ s[i] = t[i]
        /\ Placed(w[i]) /\ Adjacent(w[i], w[i + 1])
    BY <1>9, <1>10, <2>0 DEF Printed
  <2>2. CASE i # n
    <3>1. i + 1 \in 1..n
      BY <1>9, <2>2
    <3>2. w[i + 1] = s[i + 1]
      BY <1>9, <1>10, <3>1
    <3> QED
      BY <2>1, <3>2
  <2>3. CASE i = n
    <3>1. 1 \in 1..m
      BY <1>9
    <3>2. s[i + 1] = r[1] /\ w[i + 1] = c
      BY <1>9, <1>10, <2>3, <3>1
    <3>3. t[i].what \notin Ends /\ c.what \in Ends /\ r[1].what \in Ends
      BY <1>4, <1>11 DEF Ends, Run
    <3>4. t[i].what # "lf" /\ t[i].what # "cr"
      BY <3>3 DEF Ends
    <3>5. Adjacent(t[i], c) => Adjacent(t[i], r[1])
      BY <3>3, <3>4 DEF Adjacent
    <3> QED
      BY <2>1, <3>2, <3>5
  <2> QED
    BY <2>2, <2>3
<1>13. ASSUME NEW i \in 1..m
       PROVE  /\ Placed(s[n + i])
              /\ i < m => Adjacent(s[n + i], s[(n + i) + 1])
              /\ i = m => s[n + i].what = "lf"
  <2>1. s[n + i] = r[i] /\ Placed(r[i]) /\ (i = m => r[i].what = "lf")
    BY <1>5, <1>9, <1>11 DEF Printed
  <2>2. ASSUME i < m PROVE Adjacent(s[n + i], s[(n + i) + 1])
    <3>1. Adjacent(r[i], r[i + 1])
      BY <1>5, <1>11, <2>2 DEF Printed
    <3>2. i + 1 \in 1..m /\ n + (i + 1) = (n + i) + 1
      BY <1>9, <2>2
    <3>3. s[(n + i) + 1] = r[i + 1]
      BY <1>9, <3>2
    <3> QED
      BY <2>1, <3>1, <3>3
  <2> QED
    BY <2>1, <2>2
<1>14. \A i \in 1..n + m : i \in 1..n \/ \E j \in 1..m : i = n + j
  <2>1. ASSUME NEW i \in 1..n + m, i \notin 1..n
        PROVE  i - n \in 1..m /\ i = n + (i - n)
    BY <1>9, <2>1
  <2> QED
    BY <2>1
<1>15. ASSUME NEW i \in 1..n + m
       PROVE  /\ Placed(s[i])
              /\ i < n + m => Adjacent(s[i], s[i + 1])
              /\ i = n + m => s[i].what = "lf"
  <2>1. CASE i \in 1..n
    <3>1. i # n + m
      BY <1>9, <2>1
    <3> QED
      BY <1>12, <2>1, <3>1
  <2>2. CASE \E j \in 1..m : i = n + j
    <3>1. PICK j \in 1..m : i = n + j
      BY <2>2
    <3>2. (i < n + m <=> j < m) /\ (i = n + m <=> j = m)
      BY <1>9, <3>1
    <3> QED
      BY <1>13, <3>1, <3>2
  <2> QED
    BY <1>14, <2>1, <2>2
<1>16. ASSUME NEW i \in 1..n + m, NEW j \in 1..n + m, i < j,
              s[i].what \in Kinds, First(s[j])
       PROVE  s[i].line < s[j].line
  <2>1. CASE i \in 1..n /\ j \in 1..n
    <3>0. i \in 1..Len(w) /\ j \in 1..Len(w)
      BY <1>9, <1>10, <2>1
    <3>1. i \in 1..Len(w) /\ j \in 1..Len(w) /\ w[i] = s[i] /\ w[j] = s[j]
      BY <1>9, <1>10, <2>1, <3>0
    <3> QED
      BY <1>10, <1>16, <3>1 DEF Printed
  <2>2. CASE i \in 1..n /\ \E k \in 1..m : j = n + k
    <3>1. PICK k \in 1..m : j = n + k
      BY <2>2
    <3>2. t[i].line \in Named(t) /\ r[k].line \in Packets(r)
      BY <1>9, <1>11, <1>16, <2>2, <3>1 DEF Packets, Named
    <3>3. t[i].line < r[k].line
      BY <1>3, <1>8, <3>2 DEF Older
    <3> QED
      BY <1>9, <2>2, <3>1, <3>3
  <2>3. CASE (\E k \in 1..m : i = n + k) /\ (\E k \in 1..m : j = n + k)
    <3>1. PICK k \in 1..m, l \in 1..m : i = n + k /\ j = n + l
      BY <2>3
    <3>2. k < l
      BY <1>9, <1>16, <3>1
    <3>3. s[i] = r[k] /\ s[j] = r[l]
      BY <1>9, <3>1
    <3>4. r[k].line < r[l].line
      BY <1>5, <1>11, <1>16, <3>2, <3>3 DEF Printed
    <3> QED
      BY <3>3, <3>4
  <2>4. CASE (\E k \in 1..m : i = n + k) /\ j \in 1..n
    BY <1>9, <1>16, <2>4
  <2> QED
    BY <1>14, <2>1, <2>2, <2>3, <2>4
<1>18. Printed(s)
  BY <1>9, <1>15, <1>16 DEF Printed
<1>19. ASSUME Cut(s) PROVE Cut(w) /\ s[1] = w[1]
  <2>1. CASE n = 0
    <3>1. 1 \in 1..m /\ n + 1 = 1
      BY <1>9, <2>1
    <3>2. s[1] = r[1]
      BY <1>9, <3>1
    <3> QED
      BY <1>4, <1>19, <3>2, SizeFacts DEF Cut
  <2>2. CASE n # 0
    <3>1. 1 \in 1..n /\ Len(w) > 0
      BY <1>9, <1>10, <2>2
    <3>2. s[1] = w[1]
      BY <1>9, <1>10, <3>1
    <3> QED
      BY <1>19, <3>1, <3>2 DEF Cut
  <2> QED
    BY <2>1, <2>2
<1> QED
  BY <1>11a, <1>18, <1>19

\* A character more of the text the loop is reading.
LEMMA RunOn ==
  ASSUME NEW t \in Seq(Chars), NEW c \in Chars, NEW u \in Seq(Chars),
         Len(u) > 0, u[1] = c, Printed(t \o u), Run(t), c.what \notin Ends,
         NEW x, x = Append(t, c)
  PROVE  Run(x)
<1> DEFINE s == t \o u
           n == Len(t)
<1>1. /\ n \in Nat /\ Len(x) = n + 1
      /\ \A i \in 1..n : x[i] = t[i]
      /\ x[n + 1] = c
      /\ \A i \in 1..n : t[i] \in Chars
  BY AppendProperties
<1>2. /\ Len(s) = n + Len(u) /\ Len(u) \in Nat
      /\ \A i \in 1..n : s[i] = t[i]
      /\ \A i \in 1..Len(u) : s[n + i] = u[i]
  BY Joined
<1>3. Printed(s) /\ Run(t) /\ Len(t) = n
  OBVIOUS
<1> HIDE DEF s, n
<1>4. s[n + 1] = c
  <2>1. 1 \in 1..Len(u)
    BY <1>2
  <2> QED
    BY <1>2, <2>1
<1>5. CASE n = 0
  <2>1. \A i \in 1..Len(x) : i = 1
    BY <1>1, <1>5
  <2>2. x[1] = c /\ c.at \in Nat
    BY <1>1, <1>5 DEF Chars
  <2>3. c.at = c.at + (1 - 1)
    BY <2>2
  <2> QED
    BY <2>1, <2>2, <2>3 DEF Run
<1>6. CASE n # 0
  <2>1. n \in 1..n /\ 1 \in 1..n /\ n \in 1..Len(s) /\ n < Len(s)
    BY <1>1, <1>2, <1>6
  <2>2. Adjacent(t[n], c)
    BY <1>2, <1>3, <1>4, <2>1 DEF Printed
  <2>3. /\ t[n].what \notin Ends
        /\ t[n].at = t[1].at + (n - 1)
        /\ IF t[1].what \in Kinds
           THEN t[n].what = t[1].what /\ t[n].line = t[1].line
           ELSE t[n].what \notin Kinds
    BY <1>3, <2>1 DEF Run
  <2>4. /\ c.at = t[n].at + 1
        /\ IF t[n].what \in Kinds THEN c.what = t[n].what /\ c.line = t[n].line
           ELSE c.what \notin Kinds
    BY <2>2, <2>3 DEF Adjacent, Ends
  <2>5. c.at = t[1].at + ((n + 1) - 1)
    <3>1. PICK a \in Nat : a = t[1].at
      BY <1>1, <2>1 DEF Chars
    <3>2. t[n].at = a + (n - 1) /\ c.at = t[n].at + 1
      BY <2>3, <2>4, <3>1
    <3>3. c.at = (a + (n - 1)) + 1
      BY <3>2
    <3>4. (a + (n - 1)) + 1 = a + ((n + 1) - 1)
      BY <1>1
    <3> QED
      BY <3>1, <3>3, <3>4
  <2>6. x[1] = t[1]
    BY <1>1, <2>1
  <2>7. ASSUME NEW i \in 1..Len(x)
        PROVE  /\ x[i].what \notin Ends
               /\ x[i].at = x[1].at + (i - 1)
               /\ IF x[1].what \in Kinds
                  THEN x[i].what = x[1].what /\ x[i].line = x[1].line
                  ELSE x[i].what \notin Kinds
    <3>1. CASE i \in 1..n
      <4>1. x[i] = t[i]
        BY <1>1, <3>1
      <4> QED
        BY <1>3, <2>6, <3>1, <4>1 DEF Run
    <3>2. CASE i = n + 1
      <4>1. x[i] = c
        BY <1>1, <3>2
      <4> QED
        BY <2>3, <2>4, <2>5, <2>6, <3>2, <4>1
    <3> QED
      BY <1>1, <3>1, <3>2
  <2> QED
    BY <2>7 DEF Run
<1> QED
  BY <1>5, <1>6

\* What ends a line the loop has read: the text has one of the two lengths
\* just when it is a whole packet, or what is left of a data message after all
\* but as many characters as a state message has.
LEMMA EndOfLine ==
  ASSUME NEW t \in Seq(Chars), NEW u \in Seq(Chars), Printed(t \o u), Run(t),
         Len(u) > 0, u[1].what = "lf"
  PROVE  IF Len(t) \in {StateLen, DataLen}
         THEN /\ Len(t) > 0 /\ t[1].what \in Kinds
              /\ \/ Whole(t) /\ Packets(t) = {t[1].line}
                 \/ Remnant(t) /\ Packets(t) = {} /\ t[1].at # 1
         ELSE Packets(t) = {}
<1> DEFINE s == t \o u
           n == Len(t)
<1>1. /\ n \in Nat /\ Len(s) = n + Len(u) /\ Len(u) \in Nat
      /\ \A i \in 1..n : s[i] = t[i]
      /\ s[n + 1].what = "lf"
      /\ \A i \in 1..n : t[i] \in Chars
  <2>1. /\ n \in Nat /\ Len(s) = n + Len(u) /\ Len(u) \in Nat
        /\ \A i \in 1..n : s[i] = t[i]
        /\ \A i \in 1..Len(u) : s[n + i] = u[i]
    BY Joined
  <2>2. 1 \in 1..Len(u)
    BY <2>1
  <2> QED
    BY <2>1, <2>2
<1>2. Printed(s) /\ Run(t) /\ Len(t) = n
  OBVIOUS
<1> HIDE DEF s, n
<1>3. CASE n = 0
  <2>1. Packets(t) = {}
    BY <1>2, <1>3 DEF Packets
  <2>2. n \notin {StateLen, DataLen}
    BY <1>3, SizeFacts
  <2> QED
    BY <1>2, <2>1, <2>2
<1>4. CASE n # 0
  <2>1. n \in 1..n /\ 1 \in 1..n /\ n \in 1..Len(s) /\ n < Len(s) /\ 1 \in 1..Len(s)
    BY <1>1, <1>4
  <2>2. /\ t[1].what \notin Ends /\ t[n].what \notin Ends
        /\ t[n].at = t[1].at + (n - 1)
        /\ IF t[1].what \in Kinds THEN t[n].what = t[1].what
           ELSE t[n].what \notin Kinds
    BY <1>2, <2>1 DEF Run
  <2>3. Placed(t[1]) /\ Placed(t[n]) /\ Adjacent(t[n], s[n + 1])
    BY <1>1, <1>2, <2>1 DEF Printed
  <2>4. t[1].at \in Nat /\ t[1].line \in Nat
    BY <1>1, <2>1 DEF Chars
  <2>5. s[n + 1].what \in Ends
    BY <1>1 DEF Ends
  <2>6. t[n].what # "lf" /\ t[n].what # "cr"
    BY <2>2 DEF Ends
  <2>7. CASE t[1].what \in Kinds
    <3>1. PICK kind \in Kinds : kind = t[1].what
      BY <2>7
    <3>2. PICK z \in Nat : z = Size(kind)
      BY SizeFacts
    <3>3. t[1].at >= 1
      BY <2>3, <2>7 DEF Placed
    <3>4. t[n].at = z
      BY <2>2, <2>3, <2>5, <2>6, <2>7, <3>1, <3>2 DEF Adjacent
    <3>5. n = z - t[1].at + 1
      <4>1. PICK a \in Nat : a = t[1].at
        BY <2>4
      <4>2. z = a + (n - 1)
        BY <2>2, <3>4, <4>1
      <4>3. n = z - a + 1
        BY <1>1, <4>2
      <4> QED
        BY <4>1, <4>3
    <3>6. ASSUME NEW i \in 1..n
          PROVE  t[i] = Char(t[1].line, kind, t[1].at + (i - 1))
      <4>1. /\ t[i].what = kind /\ t[i].line = t[1].line
            /\ t[i].at = t[1].at + (i - 1)
        BY <1>2, <2>7, <3>1 DEF Run
      <4>2. t[i] \in Chars
        BY <1>1
      <4> QED
        BY <4>1, <4>2 DEF Chars, Char
    <3>7. DOMAIN t = 1..n
      BY <1>2
    <3>8. \A i \in 2..n : ~First(t[i])
      <4>1. ASSUME NEW i \in 2..n PROVE t[i].at # 1
        <5>1. i \in 1..n
          BY <1>1
        <5>2. t[i].at = t[1].at + (i - 1)
          BY <1>2, <5>1 DEF Run
        <5> QED
          BY <2>4, <3>3, <5>2
      <4> QED
        BY <4>1 DEF First
    <3>9. Packets(t) = IF t[1].at = 1 THEN {t[1].line} ELSE {}
      <4>1. \A i \in 1..n : i = 1 \/ i \in 2..n
        BY <1>1
      <4>2. First(t[1]) <=> t[1].at = 1
        BY <2>7 DEF First
      <4>3. {j \in 1..n : First(t[j])} = IF t[1].at = 1 THEN {1} ELSE {}
        BY <2>1, <3>8, <4>1, <4>2
      <4> QED
        BY <1>2, <4>3 DEF Packets
    <3>10. CASE t[1].at = 1
      <4>1. n = z
        BY <3>2, <3>5, <3>10
      <4>2. ASSUME NEW i \in 1..n PROVE t[i] = Char(t[1].line, kind, i)
        <5>1. 1 + (i - 1) = i
          OBVIOUS
        <5> QED
          BY <3>6, <3>10, <5>1
      <4>3. Whole(t)
        BY <1>2, <3>2, <3>7, <4>1, <4>2 DEF Whole
      <4>4. n \in {StateLen, DataLen}
        BY <3>2, <4>1, SizeFacts DEF Kinds
      <4>5. Len(t) > 0
        BY <1>1, <1>2, <1>4
      <4> QED
        BY <1>2, <2>7, <3>9, <3>10, <4>3, <4>4, <4>5
    <3>11. CASE t[1].at # 1
      <4>1. n < z
        BY <1>1, <2>4, <3>2, <3>3, <3>5, <3>11
      <4>2. CASE n \in {StateLen, DataLen}
        <5>1. StateLen \in Nat /\ DataLen \in Nat /\ StateLen < DataLen
          BY SizeFacts
        <5>2. z \in {StateLen, DataLen}
          BY <3>2, SizeFacts DEF Kinds
        <5>3. n = StateLen /\ z = DataLen
          BY <1>1, <3>2, <4>1, <4>2, <5>1, <5>2
        <5>4. kind = "data"
          <6>1. Size(kind) # StateLen
            BY <3>2, <5>1, <5>3
          <6>2. kind # "state"
            BY <6>1, SizeFacts
          <6> QED
            BY <3>1, <6>2 DEF Kinds
        <5>5. t[1].at = DataLen - StateLen + 1
          <6>1. PICK a \in Nat : a = t[1].at
            BY <2>4
          <6>2. StateLen = DataLen - a + 1
            BY <3>5, <5>3, <6>1
          <6>3. a = DataLen - StateLen + 1
            BY <5>1, <6>1, <6>2
          <6> QED
            BY <6>1, <6>3
        <5>6. ASSUME NEW i \in 1..n
              PROVE  t[i] = Char(t[1].line, "data", DataLen - StateLen + i)
          <6>1. t[1].at + (i - 1) = DataLen - StateLen + i
            BY <5>1, <5>5
          <6> QED
            BY <3>6, <5>4, <6>1
        <5>7. Remnant(t)
          BY <1>2, <3>7, <5>3, <5>6 DEF Remnant
        <5>8. Len(t) > 0
          BY <1>1, <1>2, <1>4
        <5> QED
          BY <1>2, <2>7, <3>9, <3>11, <4>2, <5>7, <5>8
      <4>3. CASE n \notin {StateLen, DataLen}
        BY <1>2, <3>9, <3>11, <4>3
      <4> QED
        BY <4>2, <4>3
    <3> QED
      BY <3>10, <3>11
  <2>8. CASE t[1].what \notin Kinds
    <3>1. \A i \in 1..n : t[i].what \notin Kinds
      BY <1>2, <2>8 DEF Run
    <3>2. Packets(t) = {}
      BY <1>2, <3>1 DEF Packets, First
    <3>3. t[1].at \in 1..StateLen - 1 /\ t[n].at \in 1..StateLen - 1
      BY <2>2, <2>3, <2>8 DEF Placed
    <3>4. n < StateLen
      BY <1>1, <2>2, <2>4, <3>3, SizeFacts
    <3>5. n \notin {StateLen, DataLen}
      BY <1>1, <3>4, SizeFacts
    <3> QED
      BY <1>2, <3>2, <3>5
  <2> QED
    BY <2>7, <2>8
<1> QED
  BY <1>3, <1>4

\* The line of a packet.
LEMMA LinePrinted ==
  ASSUME NEW n \in Nat, NEW kind \in Kinds, NEW l, l = Line(n, kind)
  PROVE  /\ l \in Seq(Chars) /\ Printed(l) /\ Packets(l) = {n} /\ Named(l) = {n}
         /\ Len(l) > 0 /\ l[1].what \notin Ends /\ l[1].at = 1
<1>1. PICK z \in Nat : z = Size(kind) /\ 0 < z
  BY SizeFacts
<1>2. /\ l \in Seq(Chars) /\ Len(l) = z + 2
      /\ \A i \in 1..z : l[i] = Char(n, kind, i)
      /\ l[z + 1].what = "cr" /\ l[z + 2].what = "lf"
  BY <1>1, PrintLine
<1>3. /\ kind \notin Ends /\ "cr" \notin Kinds /\ "lf" \notin Kinds /\ "cr" # "lf"
      /\ "cr" \in Ends /\ "lf" \in Ends
  BY SizeFacts DEF Ends
<1>4. ASSUME NEW i \in 1..z
      PROVE  l[i].what = kind /\ l[i].line = n /\ l[i].at = i
  <2>1. l[i] = Char(n, kind, i)
    BY <1>2
  <2> QED
    BY <2>1, CharFields
<1>5. \A i \in 1..z + 2 : i \in 1..z \/ i = z + 1 \/ i = z + 2
  BY <1>1
<1>6. /\ 1 \in 1..z /\ 1 \in 1..z + 2 /\ z + 1 \in 1..z + 2 /\ z + 2 \in 1..z + 2
      /\ 1..z \subseteq 1..z + 2 /\ (z + 1) + 1 = z + 2
  BY <1>1
<1>7. ASSUME NEW i \in 1..z + 2
      PROVE  /\ Placed(l[i])
             /\ i < z + 2 => Adjacent(l[i], l[i + 1])
             /\ i = z + 2 => l[i].what = "lf"
  <2>1. CASE i \in 1..z
    <3>1. Placed(l[i])
      BY <1>1, <1>4, <2>1 DEF Placed
    <3>2. CASE i = z
      <4>1. l[i].what = kind /\ l[i].at = Size(kind)
        BY <1>1, <1>4, <2>1, <3>2
      <4>2. l[i + 1].what \in Ends /\ i # z + 2
        BY <1>1, <1>2, <1>3, <3>2
      <4>3. kind # "lf" /\ kind # "cr"
        BY <1>3
      <4>4. Adjacent(l[i], l[i + 1])
        BY <4>1, <4>2, <4>3 DEF Adjacent
      <4> QED
        BY <3>1, <4>2, <4>4
    <3>3. CASE i # z
      <4>1. i + 1 \in 1..z
        BY <1>1, <2>1, <3>3
      <4>2. l[i + 1].what = kind /\ l[i + 1].line = n /\ l[i + 1].at = i + 1
        BY <1>4, <4>1
      <4>3. l[i].what = kind /\ l[i].line = n /\ l[i].at = i
        BY <1>4, <2>1
      <4>4. kind # "lf" /\ kind # "cr"
        BY <1>3
      <4>5. Adjacent(l[i], l[i + 1])
        BY <1>3, <4>2, <4>3, <4>4 DEF Adjacent
      <4>6. i # z + 2
        BY <1>1, <2>1
      <4> QED
        BY <3>1, <4>5, <4>6
    <3>4. i # z + 2
      BY <1>1, <2>1
    <3> QED
      BY <3>1, <3>2, <3>3, <3>4
  <2>2. CASE i = z + 1
    <3>1. l[i].what = "cr" /\ l[i + 1].what = "lf" /\ i # z + 2
      BY <1>1, <1>2, <1>6, <2>2
    <3> QED
      BY <1>3, <3>1 DEF Placed, Adjacent
  <2>3. CASE i = z + 2
    BY <1>1, <1>2, <1>3, <2>3 DEF Placed
  <2> QED
    BY <1>5, <2>1, <2>2, <2>3
<1>8. \A i \in 1..z + 2 : /\ l[i].what \in Kinds => l[i].line = n
                          /\ First(l[i]) <=> i = 1
  <2>1. ASSUME NEW i \in 1..z + 2
        PROVE  (l[i].what \in Kinds => l[i].line = n) /\ (First(l[i]) <=> i = 1)
    <3>1. CASE i \in 1..z
      BY <1>4, <3>1 DEF First
    <3>2. CASE i \notin 1..z
      <4>1. l[i].what \notin Kinds /\ i # 1
        BY <1>2, <1>3, <1>5, <1>6, <3>2
      <4> QED
        BY <4>1 DEF First
    <3> QED
      BY <3>1, <3>2
  <2> QED
    BY <2>1
<1>9. \A i, j \in 1..z + 2 : ~(i < j /\ First(l[j]))
  BY <1>1, <1>8
<1>10. Printed(l)
  BY <1>2, <1>7, <1>9 DEF Printed
<1>11. l[1].what = kind /\ l[1].line = n /\ l[1].at = 1
  BY <1>4, <1>6
<1>12. {j \in 1..z + 2 : First(l[j])} = {1}
  BY <1>6, <1>8
<1>13. Packets(l) = {n}
  BY <1>2, <1>11, <1>12 DEF Packets
<1>14. Named(l) = {n}
  BY <1>2, <1>6, <1>8, <1>11 DEF Named
<1>15. Len(l) > 0
  BY <1>1, <1>2
<1> QED
  BY <1>2, <1>3, <1>10, <1>11, <1>13, <1>14, <1>15

\* An answer.
LEMMA AnswerPrinted ==
  ASSUME NEW a \in Answers, NEW l, l = Said(a)
  PROVE  /\ l \in Seq(Chars) /\ Printed(l) /\ Packets(l) = {} /\ Named(l) = {}
         /\ Len(l) > 0 /\ l[1].what \notin Ends /\ l[1].at = 1
<1>1. PICK z \in Nat : z = Len(a) /\ 0 < z /\ z < StateLen
  BY AnswerFacts
<1>2. /\ l \in Seq(Chars) /\ Len(l) = z + 2
      /\ \A i \in 1..z : l[i] = Char(0, a[i], i)
      /\ l[z + 1].what = "cr" /\ l[z + 2].what = "lf"
  BY <1>1, PrintAnswer
<1>3. /\ "cr" \notin Kinds /\ "lf" \notin Kinds /\ "cr" # "lf"
      /\ "cr" \in Ends /\ "lf" \in Ends
  BY SizeFacts DEF Ends
<1>4. ASSUME NEW i \in 1..z
      PROVE  l[i].what \notin Kinds /\ l[i].what \notin Ends /\ l[i].at = i
  <2>1. l[i] = Char(0, a[i], i)
    BY <1>2
  <2>2. l[i].what = a[i] /\ l[i].at = i
    BY <2>1, CharFields
  <2>3. a[i] \notin Kinds /\ a[i] \notin Ends
    BY <1>1, AnswerFacts
  <2> QED
    BY <2>2, <2>3
<1>5. \A i \in 1..z + 2 : i \in 1..z \/ i = z + 1 \/ i = z + 2
  BY <1>1
<1>6. 1 \in 1..z /\ (z + 1) + 1 = z + 2
  BY <1>1
<1>7. ASSUME NEW i \in 1..z + 2
      PROVE  /\ Placed(l[i]) /\ l[i].what \notin Kinds
             /\ i < z + 2 => Adjacent(l[i], l[i + 1])
             /\ i = z + 2 => l[i].what = "lf"
  <2>1. CASE i \in 1..z
    <3>1. l[i].what \notin Kinds /\ l[i].what \notin Ends /\ l[i].at = i
      BY <1>4, <2>1
    <3>2. l[i].what # "lf" /\ l[i].what # "cr"
      BY <3>1 DEF Ends
    <3>3. i \in 1..StateLen - 1 /\ i # z + 2
      BY <1>1, <2>1, SizeFacts
    <3>4. Placed(l[i])
      BY <3>1, <3>3 DEF Placed
    <3>5. CASE i = z
      <4>1. l[i + 1].what \in Ends
        BY <1>2, <1>3, <3>5
      <4>2. Adjacent(l[i], l[i + 1])
        BY <3>1, <3>2, <4>1 DEF Adjacent
      <4> QED
        BY <3>1, <3>3, <3>4, <4>2
    <3>6. CASE i # z
      <4>1. i + 1 \in 1..z
        BY <1>1, <2>1, <3>6
      <4>2. l[i + 1].what \notin Kinds /\ l[i + 1].what \notin Ends /\ l[i + 1].at = i + 1
        BY <1>4, <4>1
      <4>3. Adjacent(l[i], l[i + 1])
        BY <3>1, <3>2, <4>2 DEF Adjacent
      <4> QED
        BY <3>1, <3>3, <3>4, <4>3
    <3> QED
      BY <3>5, <3>6
  <2>2. CASE i = z + 1
    <3>1. l[i].what = "cr" /\ l[i + 1].what = "lf" /\ i # z + 2
      BY <1>1, <1>2, <1>6, <2>2
    <3> QED
      BY <1>3, <3>1 DEF Placed, Adjacent
  <2>3. CASE i = z + 2
    BY <1>1, <1>2, <1>3, <2>3 DEF Placed
  <2> QED
    BY <1>5, <2>1, <2>2, <2>3
<1>8. Printed(l)
  BY <1>2, <1>7 DEF Printed
<1>9. Packets(l) = {} /\ Named(l) = {}
  BY <1>2, <1>7 DEF Packets, Named, First
<1>10. Len(l) > 0 /\ l[1].what \notin Ends /\ l[1].at = 1
  <2>1. Len(l) > 0
    BY <1>1, <1>2
  <2> QED
    BY <1>4, <1>6, <2>1
<1> QED
  BY <1>2, <1>8, <1>9, <1>10

\* The parts of the stream, before and after a step.
LEMMA StreamTypes ==
  ASSUME TypeInv
  PROVE  /\ Begun \in Seq(Chars) /\ uart \in Seq(Chars)
         /\ wire \in Seq(Chars) /\ text \in Seq(Chars)
         /\ uart \o wire \in Seq(Chars) /\ Stream \in Seq(Chars)
<1>1. /\ Begun \in Seq(Chars) /\ uart \in Seq(Chars)
      /\ wire \in Seq(Chars) /\ text \in Seq(Chars)
  BY Zeros DEF TypeInv, TypeOK, ModemTypeOK, SketchTypeOK, Begun
<1>2. uart \o wire \in Seq(Chars)
  BY <1>1, ConcatProperties
<1>3. Stream \in Seq(Chars)
  BY <1>1, <1>2, ConcatProperties DEF Stream
<1> QED
  BY <1>1, <1>2, <1>3

\* What a step makes of the stream.
LEMMA StreamMoves ==
  ASSUME NEW s, Stream' = s
  PROVE  Coming' = Packets(s) /\ Names' = Named(s)
BY DEF Coming, Names, Packets, Named

\* A step that takes characters from the stream's front, or a packet in hand,
\* and posts nothing: what it has to see to.
LEMMA LineKept ==
  ASSUME TypeInv, LineInv, UNCHANGED <<posted, lines>>,
         posted = <<>> \/ UNCHANGED skipped,
         Printed(Stream'), Coming' \subseteq Coming, Names' \subseteq Names,
         \/ InHand' \subseteq InHand
         \/ /\ InHand' \subseteq Names
            /\ Older(InHand', Coming') /\ Older(Gone, InHand'),
         pc' = "loop" => Run(text'), HeldInv', FrontInv'
  PROVE  LineInv'
<1>1. Gone' = Gone
  BY DEF Gone
<1>2. Printed(Stream)'
  OBVIOUS
<1>3. PostInv'
  <2>1. CASE posted = <<>>
    BY <2>1 DEF PostInv
  <2>2. CASE UNCHANGED skipped
    BY <2>2 DEF LineInv, PostInv
  <2> QED
    BY <2>1, <2>2
<1>4. OrderInv'
  BY <1>1 DEF LineInv, OrderInv, Older
<1>5. (pc = "loop" => Run(text))'
  OBVIOUS
<1> QED
  BY <1>2, <1>3, <1>4, <1>5 DEF LineInv

\* A step that loses nothing: what it has to see to.
LEMMA LossKept ==
  ASSUME TypeInv, LossInv, UNCHANGED lines,
         Listening' /\ ~failed' =>
           \/ skipped' = lines
           \/ /\ Listening /\ ~failed /\ UNCHANGED skipped
              /\ Gone \cup InHand \cup Coming
                   \subseteq Gone' \cup InHand' \cup Coming'
  PROVE  LossInv'
<1>1. lines \in Nat
  BY DEF TypeInv, TypeOK, ModemTypeOK
<1>2. SUFFICES ASSUME Listening', ~failed', NEW n \in Nat, skipped' < n, n <= lines'
               PROVE  n \in Gone' \cup InHand' \cup Coming'
  BY DEF LossInv
<1>3. CASE skipped' = lines
  BY <1>1, <1>2, <1>3
<1>4. CASE /\ Listening /\ ~failed /\ UNCHANGED skipped
           /\ Gone \cup InHand \cup Coming
                \subseteq Gone' \cup InHand' \cup Coming'
  BY <1>2, <1>4 DEF LossInv
<1> QED
  BY <1>2, <1>3, <1>4

\* A step that leaves the stream and the posts alone.
LEMMA StreamRests ==
  ASSUME TypeInv, LineInv, LossInv,
         UNCHANGED <<uart, wire, posted, lines, skipped>>, Begun' = Begun,
         Held' => Held /\ text' = text,
         pc' = "loop" => (pc = "loop" /\ text' = text) \/ text' = <<>>,
         Listening' => Listening /\ (pc = "loop" => pc' = "loop"),
         Listening' /\ ~failed' => ~failed /\ InHand' = InHand
  PROVE  LineInv' /\ LossInv'
<1>1. Stream' = Stream
  BY DEF Stream
<1>2. Coming' = Coming /\ Names' = Names
  BY <1>1, StreamMoves DEF Coming, Names
<1>3. Printed(Stream')
  BY <1>1 DEF LineInv
<1>4. pc' = "loop" => Run(text')
  <2>1. Run(<<>>)
    BY DEF Run
  <2> QED
    BY <2>1 DEF LineInv
<1>5. HeldInv'
  BY DEF LineInv, HeldInv
<1>6. FrontInv'
  BY <1>1 DEF LineInv, FrontInv
<1>7. InHand' \subseteq InHand
  BY DEF InHand
<1>8. LineInv'
  BY <1>2, <1>3, <1>4, <1>5, <1>6, <1>7, LineKept
<1>9. Gone' = Gone
  BY DEF Gone
<1> QED
  BY <1>2, <1>8, <1>9, LossKept

\* The stages, the waits, and what happens between the calls of an exchange.
LEMMA QuietSteps ==
  ASSUME TypeInv, BoardInv, LineInv, LossInv,
         \/ \E i \in DOMAIN Stages, ok \in BOOLEAN : Stage(i, ok)
         \/ TimeDone \/ TimePasses \/ Resolved \/ DnsDelay \/ Available
         \/ Received \/ MissCommand \/ UNCHANGED vars
         \/ (\E r \in {"zero", "negative"} : Unresolved(r)) /\ pc' = "dnsDelay"
  PROVE  LineInv' /\ LossInv'
<1> USE DEF modem, serial, http, sketch, past, Posting, Held, InHand, Begun,
            Listening, HttpPcs
<1>1. CASE \E i \in DOMAIN Stages, ok \in BOOLEAN : Stage(i, ok)
  <2>1. /\ UNCHANGED <<uart, wire, posted, lines, skipped, begun, text, failed>>
        /\ pc \in ToSet(Stages) /\ pc \notin HttpPcs \cup {"loop"}
        /\ pc' \in {"loop"} \cup HttpPcs \cup ToSet(Stages) /\ caller' = "time"
    BY <1>1 DEF Stage, Stages, ToSet
  <2>2. text = <<>> /\ ~begun
    BY <2>1 DEF BoardInv
  <2>3. InHand' = {} /\ InHand = {} /\ Begun' = <<>> /\ Begun = <<>> /\ ~Held'
        /\ ~Listening'
    BY <2>1, <2>2
  <2> QED
    BY <2>1, <2>2, <2>3, StreamRests
<1>2. CASE TimeDone
  <2>1. /\ UNCHANGED <<uart, wire, posted, lines, skipped, failed>>
        /\ InHand' = {} /\ InHand = {} /\ Begun' = <<>> /\ Begun = <<>>
        /\ ~Held' /\ pc' = "ask" /\ ~Listening'
    BY <1>2 DEF TimeDone
  <2> QED
    BY <2>1, StreamRests
<1>3. ASSUME UNCHANGED <<uart, wire, posted, lines, skipped, failed, begun,
                         text, caller, pc>>
      PROVE  LineInv' /\ LossInv'
  <2>1. InHand' = InHand /\ Begun' = Begun /\ Held' = Held /\ Listening' = Listening
    BY <1>3
  <2> QED
    BY <1>3, <2>1, StreamRests
<1>4. CASE TimePasses \/ MissCommand \/ UNCHANGED vars
  BY <1>3, <1>4 DEF TimePasses, MissCommand, vars
<1>5. CASE \/ Resolved \/ DnsDelay \/ Available \/ Received
           \/ (\E r \in {"zero", "negative"} : Unresolved(r)) /\ pc' = "dnsDelay"
  <2>1. /\ UNCHANGED <<uart, wire, posted, lines, skipped, begun, text, caller>>
        /\ \/ pc \in {"dns", "dnsDelay", "connect"}
                 /\ pc' \in {"dns", "dnsDelay", "connect"}
           \/ pc \in {"read", "receive"} /\ pc' \in {"read", "receive"}
    BY <1>5 DEF Resolved, DnsDelay, Available, Received, Unresolved,
                HttpUnchanged, Return
  <2>2. InHand' = InHand /\ Begun' = Begun /\ Held' = Held /\ Listening' = Listening
    BY <2>1
  <2>3. failed' = failed
    BY <1>5 DEF Resolved, DnsDelay, Available, Received, Unresolved, Return
  <2>4. pc # "loop" /\ pc' # "loop"
    BY <2>1
  <2> QED
    BY <2>1, <2>2, <2>3, <2>4, StreamRests
<1> QED
  BY <1>1, <1>2, <1>4, <1>5

\* The exchange returns: the loop forgets the line, which has been posted, or
\* else the post has failed.
LEMMA ReturnSteps ==
  ASSUME TypeInv, BoardInv, LineInv, LossInv,
         \/ NoConnection \/ ReadTimeout \/ ServerClosed
         \/ (\E r \in {"zero", "negative"} : Unresolved(r)) /\ pc' # "dnsDelay"
  PROVE  LineInv' /\ LossInv'
<1> USE DEF modem, serial, http, sketch, past, HttpPcs
<1>1. /\ UNCHANGED <<uart, wire, posted, lines, skipped, begun, caller>>
      /\ Return /\ pc \in HttpPcs
  BY DEF NoConnection, ReadTimeout, ServerClosed, Unresolved, HttpUnchanged
<1>2. (pc \in {"read", "receive"} /\ failed' = failed)
        \/ (caller = "post" => failed')
  BY DEF NoConnection, ReadTimeout, ServerClosed, Unresolved
<1>3. text' = <<>> /\ pc' \in {"timeDone", "loop"}
  <2>1. caller \in {"time", "post"}
    BY DEF TypeInv, TypeOK, SketchTypeOK
  <2>2. caller # "post" => ~begun
    BY <1>1 DEF BoardInv
  <2> QED
    BY <1>1, <2>1, <2>2 DEF Return, BoardInv
<1>4. InHand' = {} /\ Begun' = <<>> /\ Begun = <<>> /\ ~Held'
      /\ (Listening' => Listening) /\ pc # "loop"
  BY <1>1, <1>3 DEF InHand, Begun, Held, Posting, Listening
<1>5. Listening' /\ ~failed' => ~failed /\ InHand = {}
  <2>1. SUFFICES ASSUME begun', ~failed' PROVE ~failed /\ InHand = {}
    BY DEF Listening
  <2>2. begun /\ caller = "post"
    BY <1>1, <2>1 DEF BoardInv
  <2>3. pc \in {"read", "receive"} /\ ~failed
    BY <1>2, <2>1, <2>2
  <2> QED
    BY <2>2, <2>3 DEF InHand, Held
<1> QED
  BY <1>1, <1>3, <1>4, <1>5, StreamRests

\* A post that gets its connection: the packet in hand is gone.
LEMMA RequestStep ==
  ASSUME TypeInv, BoardInv, LineInv, LossInv, Request
  PROVE  LineInv' /\ LossInv'
<1> USE DEF modem, serial, http, sketch, past, HttpPcs
<1>1. /\ UNCHANGED <<uart, wire, lines, skipped, begun, caller, text, failed>>
      /\ pc = "connect" /\ pc' = "read"
      /\ posted' = IF caller = "post" THEN Append(posted, text) ELSE posted
  BY DEF Request, HttpUnchanged
<1>2. /\ InHand' = {} /\ Begun' = <<>> /\ Begun = <<>> /\ ~Held'
      /\ Listening' = Listening
  BY <1>1 DEF InHand, Begun, Held, Posting, Listening
<1>3. CASE caller # "post"
  <2>1. ~begun /\ ~Held /\ UNCHANGED posted /\ InHand = {} /\ ~Listening'
    BY <1>1, <1>2, <1>3 DEF BoardInv, Held, Posting, InHand, Listening
  <2> QED
    BY <1>1, <1>2, <2>1, StreamRests
<1>4. CASE caller = "post"
  <2> DEFINE n == Len(posted)
  <2>1. Stream' = Stream
    BY <1>1, <1>2 DEF Stream
  <2>2. Coming' = Coming /\ Names' = Names
    BY <2>1, StreamMoves DEF Coming, Names
  <2>3. /\ Held /\ InHand = {text[1].line}
        /\ \/ Whole(text)
           \/ Remnant(text) /\ posted = <<>> /\ text[1].line <= skipped
    BY <1>1, <1>4 DEF Held, Posting, InHand, LineInv, HeldInv
  <2>4. /\ n \in Nat /\ DOMAIN posted = 1..n /\ DOMAIN posted' = 1..n + 1
        /\ \A i \in 1..n : posted'[i] = posted[i]
        /\ posted'[n + 1] = text /\ (posted = <<>> => n = 0)
    BY <1>1, <1>4 DEF TypeInv, TypeOK, HistoryTypeOK
  <2> HIDE DEF n
  <2>5. \A i \in 1..n + 1 : i \in 1..n \/ i = n + 1
    BY <2>4
  <2>6. Gone' = Gone \cup InHand
    <3>1. Gone' = {posted'[i][1].line : i \in 1..n + 1}
      BY <2>4 DEF Gone
    <3>2. Gone = {posted[i][1].line : i \in 1..n}
      BY <2>4 DEF Gone
    <3>3. n + 1 \in 1..n + 1 /\ 1..n \subseteq 1..n + 1
      BY <2>4
    <3> QED
      BY <2>3, <2>4, <2>5, <3>1, <3>2, <3>3
  <2>7. OrderInv'
    BY <1>1, <1>2, <2>2, <2>6 DEF LineInv, OrderInv, Older
  <2>8. ASSUME NEW i \in 1..n + 1
        PROVE  \/ Whole(posted'[i])
               \/ /\ i = 1 /\ Remnant(posted'[1])
                  /\ posted'[1][1].line <= skipped'
    <3>1. CASE i \in 1..n
      BY <1>1, <2>4, <3>1 DEF LineInv, PostInv
    <3>2. CASE i = n + 1
      <4>1. CASE Whole(text)
        BY <2>4, <3>2, <4>1
      <4>2. CASE Remnant(text) /\ posted = <<>> /\ text[1].line <= skipped
        <5>1. i = 1
          BY <2>4, <3>2, <4>2
        <5> QED
          BY <1>1, <2>4, <3>2, <4>2, <5>1
      <4> QED
        BY <2>3, <4>1, <4>2
    <3> QED
      BY <2>5, <3>1, <3>2
  <2>9. ASSUME NEW i \in 1..n + 1, NEW j \in 1..n + 1, i < j
        PROVE  posted'[i][1].line < posted'[j][1].line
    <3>1. i \in 1..n
      BY <2>4, <2>9
    <3>2. CASE j \in 1..n
      BY <2>4, <2>9, <3>1, <3>2 DEF LineInv, PostInv
    <3>3. CASE j = n + 1
      <4>1. posted[i][1].line \in Gone /\ text[1].line \in InHand
        BY <2>3, <2>4, <3>1 DEF Gone
      <4>2. posted[i][1].line < text[1].line
        BY <4>1 DEF LineInv, OrderInv, Older
      <4> QED
        BY <2>4, <3>1, <3>3, <4>2
    <3> QED
      BY <2>5, <3>2, <3>3
  <2>10. PostInv'
    BY <2>4, <2>8, <2>9 DEF PostInv
  <2>11. Printed(Stream)'
    BY <2>1 DEF LineInv
  <2>12. FrontInv'
    BY <1>1, <1>2, <2>1 DEF LineInv, FrontInv
  <2>13. HeldInv'
    BY <1>2 DEF HeldInv
  <2>14. LineInv'
    BY <1>1, <2>7, <2>10, <2>11, <2>12, <2>13 DEF LineInv
  <2>15. LossInv'
    BY <1>1, <1>2, <2>2, <2>6, LossKept
  <2> QED
    BY <2>14, <2>15
<1> QED
  BY <1>3, <1>4

\* The helper empties the buffer, asks, and reads answers: characters are taken
\* from the front of the stream while nothing is in hand.
LEMMA HelperSteps ==
  ASSUME TypeInv, BoardInv, LineInv, LossInv,
         Ask \/ ReadAnswer \/ AnswerTimeout
  PROVE  LineInv' /\ LossInv'
<1> USE DEF modem, serial, http, sketch, past, HttpPcs
<1>1. /\ UNCHANGED <<wire, posted, lines, text, failed>>
      /\ pc \in {"ask", "answer"} /\ pc' \in {"ask", "answer", "loop"}
      /\ pc' = "loop" => skipped' = lines
  BY DEF Ask, ReadAnswer, AnswerTimeout, NextCommand
<1>2. text = <<>> /\ posted = <<>>
  BY <1>1 DEF BoardInv
<1>3. /\ Begun = <<>> /\ Begun' = <<>> /\ InHand = {} /\ InHand' = {}
      /\ ~Held' /\ (Listening' => pc' = "loop")
  BY <1>1, <1>2 DEF Begun, InHand, Held, Posting, Listening
<1>4. /\ uart \in Seq(Chars) /\ wire \in Seq(Chars)
      /\ Stream = uart \o wire
  BY <1>3, StreamTypes, ConcatEmptySeq DEF Stream
<1>5. uart' \in Seq(Chars) /\ Stream' = uart' \o wire
  <2>1. uart' \in Seq(Chars)
    BY <1>4, HeadTailProperties, Zeros DEF Ask, ReadAnswer, AnswerTimeout
  <2>2. uart' \o wire \in Seq(Chars)
    BY <1>4, <2>1, ConcatProperties
  <2>3. Stream' = <<>> \o (uart' \o wire)
    BY <1>1, <1>3 DEF Stream
  <2> QED
    BY <2>1, <2>2, <2>3, ConcatEmptySeq
<1>6. \E t \in Seq(Chars) : Stream = t \o Stream'
  <2>1. CASE Ask
    <3>1. Stream' = wire
      BY <1>4, <1>5, <2>1, ConcatEmptySeq DEF Ask
    <3> QED
      BY <1>4, <3>1
  <2>2. CASE ReadAnswer
    <3> DEFINE h == <<Head(uart)>>
    <3>1. /\ uart' = Tail(uart) /\ h \in Seq(Chars)
          /\ uart = h \o uart'
      BY <1>4, <2>2 DEF ReadAnswer
    <3> HIDE DEF h
    <3>2. Stream = h \o (uart' \o wire)
      <4>1. \A a, b, c \in Seq(Chars) : (a \o b) \o c = a \o (b \o c)
        BY ConcatAssociative
      <4>2. (h \o uart') \o wire = h \o (uart' \o wire)
        BY <1>4, <1>5, <3>1, <4>1
      <4> QED
        BY <1>4, <3>1, <4>2
    <3> QED
      BY <1>5, <3>1, <3>2
  <2>3. CASE AnswerTimeout
    <3>1. Stream' = Stream /\ <<>> \o Stream = Stream
      BY <1>4, <1>5, <2>3, StreamTypes, ConcatEmptySeq DEF AnswerTimeout
    <3> QED
      BY <3>1, Zeros
  <2> QED
    BY <2>1, <2>2, <2>3
<1>7. PICK t \in Seq(Chars), s \in Seq(Chars) : Stream = t \o s /\ s = Stream'
  <2>1. Stream' \in Seq(Chars)
    BY <1>4, <1>5, ConcatProperties
  <2> QED
    BY <1>6, <2>1
<1>8. /\ Printed(s) /\ Packets(s) \subseteq Coming /\ Named(s) \subseteq Names
  <2>1. Printed(t \o s)
    BY <1>7 DEF LineInv
  <2>2. Printed(s)
    BY <2>1, DropChars
  <2>3. Packets(t \o s) = Packets(t) \cup Packets(s)
        /\ Named(t \o s) = Named(t) \cup Named(s)
    BY Joined
  <2> QED
    BY <1>7, <2>2, <2>3 DEF Coming, Names
<1>9. Printed(Stream') /\ Coming' = Packets(s) /\ Names' = Named(s)
  BY <1>7, <1>8, StreamMoves
<1>10. Run(text')
  <2>1. Run(<<>>)
    BY DEF Run
  <2> QED
    BY <1>1, <1>2, <2>1
<1>11. HeldInv'
  BY <1>3 DEF HeldInv
<1>12. FrontInv'
  <2>1. SUFFICES ASSUME Listening', Cut(s)
                 PROVE  pc' = "loop" /\ posted' = <<>> /\ s[1].line <= skipped'
    BY <1>7 DEF FrontInv
  <2>2. 1 \in 1..Len(s) /\ s[1].what \in Kinds
    BY <2>1 DEF Cut
  <2>3. s[1].line \in Names
    BY <1>8, <2>2 DEF Named
  <2>4. s[1].line < lines + 1
    BY <2>3 DEF LineInv, OrderInv, Older
  <2>5. s[1].line \in Nat /\ lines \in Nat
    <3>1. s[1] \in Chars
      BY <2>2
    <3> QED
      BY <3>1 DEF Chars, TypeInv, TypeOK, ModemTypeOK
  <2>6. s[1].line <= lines
    BY <2>4, <2>5
  <2> QED
    BY <1>1, <1>2, <1>3, <2>1, <2>6
<1>13. LineInv'
  BY <1>1, <1>2, <1>3, <1>8, <1>9, <1>10, <1>11, <1>12, LineKept
<1> QED
  BY <1>1, <1>3, <1>13, LossKept

\* The loop reads a character: it belongs to the text, is a carriage return, or
\* ends the line.
LEMMA ReadLineStep ==
  ASSUME TypeInv, BoardInv, LineInv, LossInv, ReadLine
  PROVE  LineInv' /\ LossInv'
<1> USE DEF modem, serial, http, sketch, past, HttpPcs
<1>1. /\ UNCHANGED <<wire, posted, lines, skipped, begun, failed>>
      /\ pc = "loop" /\ uart # <<>> /\ uart' = Tail(uart)
  BY DEF ReadLine
<1>2. /\ text \in Seq(Chars) /\ uart \in Seq(Chars) /\ wire \in Seq(Chars)
      /\ uart \o wire \in Seq(Chars)
      /\ Stream = text \o (uart \o wire)
      /\ Run(text) /\ Printed(Stream)
  BY <1>1, StreamTypes DEF Begun, Stream, LineInv
<1>3. PICK h \in Chars : h = Head(uart)
  <2>1. Head(uart) \in Chars
    BY <1>1, <1>2
  <2> QED
    BY <2>1
<1>4. \A a, b, c \in Seq(Chars) : (a \o b) \o c = a \o (b \o c)
  BY ConcatAssociative
<1>5. PICK e \in Seq(Chars) : e = <<h>>
  <2>1. <<h>> \in Seq(Chars)
    BY <1>3
  <2> QED
    BY <2>1
<1>6. uart' \in Seq(Chars) /\ uart = e \o uart'
  BY <1>1, <1>2, <1>3, <1>5
<1>7. PICK r \in Seq(Chars) : r = uart' \o wire
  BY <1>2, <1>6, ConcatProperties
<1>8. PICK u \in Seq(Chars) : u = uart \o wire
  BY <1>2
<1>9. u = e \o r
  <2>1. (e \o uart') \o wire = e \o (uart' \o wire)
    BY <1>2, <1>4, <1>6
  <2> QED
    BY <1>6, <1>7, <1>8, <2>1
<1>10. Stream = text \o u /\ Printed(text \o u)
  BY <1>2, <1>8
<1>11. Len(u) > 0 /\ u[1] = h
  <2>1. Len(e) = 1 /\ e[1] = h
    BY <1>5
  <2>2. Len(u) = Len(e) + Len(r) /\ Len(r) \in Nat /\ \A i \in 1..Len(e) : u[i] = e[i]
    BY <1>9, Joined
  <2> QED
    BY <2>1, <2>2
<1>12. InHand = {} /\ Listening /\ Gone' = Gone
  <2>1. begun
    BY <1>1 DEF BoardInv
  <2> QED
    BY <1>1, <2>1 DEF InHand, Held, Posting, Listening, Gone
<1>13. CASE h.what \notin Ends
  <2>1. text' = Append(text, h) /\ UNCHANGED <<pc, caller>>
    BY <1>3, <1>13 DEF ReadLine, Ends
  <2>2. text' = text \o e /\ text' \in Seq(Chars)
    BY <1>2, <1>5, <2>1, AppendIsConcat, AppendProperties
  <2>3. Stream' = text' \o r
    BY <1>1, <1>7, <2>1 DEF Begun, Stream
  <2>4. (text \o e) \o r = text \o (e \o r)
    BY <1>2, <1>4
  <2>5. Stream' = Stream
    BY <1>9, <1>10, <2>2, <2>3, <2>4
  <2>6. Coming' = Coming /\ Names' = Names /\ Printed(Stream')
    BY <1>2, <2>5, StreamMoves DEF Coming, Names
  <2>7. InHand' = {} /\ ~Held'
    BY <1>1, <2>1 DEF InHand, Held, Posting
  <2>8. Run(text')
    BY <1>2, <1>10, <1>11, <1>13, <2>1, RunOn
  <2>9. HeldInv' /\ FrontInv'
    BY <1>1, <1>12, <2>1, <2>5, <2>7 DEF HeldInv, FrontInv, LineInv, Listening
  <2>10. LineInv'
    BY <1>1, <2>6, <2>7, <2>8, <2>9, LineKept
  <2> QED
    BY <1>1, <1>12, <2>1, <2>6, <2>7, <2>10, LossKept
<1>14. CASE h.what = "cr"
  <2>1. text' = text /\ UNCHANGED <<pc, caller>>
    BY <1>3, <1>14 DEF ReadLine
  <2>2. Stream' = text \o r
    BY <1>1, <1>7, <2>1 DEF Begun, Stream
  <2>3. Run(text)
    BY <1>2
  <2>4. /\ Printed(text \o r)
        /\ Packets(text \o r) = Packets(Stream) /\ Named(text \o r) = Named(Stream)
        /\ Cut(text \o r) => Cut(Stream) /\ (text \o r)[1] = Stream[1]
    <3>1. e = <<h>> /\ u = e \o r /\ Stream = text \o u /\ Printed(text \o u)
      BY <1>5, <1>9, <1>10
    <3>2. text \in Seq(Chars)
      BY <1>2
    <3>3. h \in Chars /\ e \in Seq(Chars) /\ r \in Seq(Chars) /\ u \in Seq(Chars)
      BY <1>3, <1>5, <1>7, <1>8
    <3>4. PICK s : s = text \o r
      OBVIOUS
    <3>5. Passed(text, h, e, r, u, Stream, s)
      BY <1>14, <2>3, <3>1, <3>2, <3>3, <3>4 DEF Passed
    <3>6. /\ Printed(s) /\ Packets(s) = Packets(Stream) /\ Named(s) = Named(Stream)
          /\ Cut(s) => Cut(Stream) /\ s[1] = Stream[1]
      BY <3>5, SkipReturn
    <3> QED
      BY <3>4, <3>6
  <2>5. Coming' = Coming /\ Names' = Names /\ Printed(Stream')
    BY <2>2, <2>4, StreamMoves DEF Coming, Names
  <2>6. InHand' = {} /\ ~Held'
    BY <1>1, <2>1 DEF InHand, Held, Posting
  <2>7. Cut(Stream') => Cut(Stream) /\ Stream'[1] = Stream[1]
    BY <2>2, <2>4
  <2>8. HeldInv' /\ FrontInv'
    BY <1>1, <1>12, <2>1, <2>6, <2>7 DEF HeldInv, FrontInv, LineInv, Listening
  <2>9. LineInv'
    BY <1>1, <1>2, <2>1, <2>5, <2>6, <2>8, LineKept
  <2> QED
    BY <1>1, <1>12, <2>1, <2>5, <2>6, <2>9, LossKept
<1>15. CASE h.what = "lf"
  <2>1. PICK t \in Seq(Chars) : t = text \o e
    <3>1. text \o e \in Seq(Chars)
      BY <1>2, Joined
    <3> QED
      BY <3>1
  <2>2. Stream = t \o r /\ Printed(t \o r)
    <3>1. (text \o e) \o r = text \o (e \o r)
      BY <1>2, <1>4, <1>5, <1>7
    <3> QED
      BY <1>9, <1>10, <2>1, <3>1
  <2>3. Packets(t) = Packets(text) /\ Named(text) \subseteq Named(t)
    <3>1. Packets(t) = Packets(text) \cup Packets(e)
          /\ Named(t) = Named(text) \cup Named(e)
      BY <1>2, <2>1, Joined
    <3>2. Len(e) = 1 /\ e[1].what \notin Kinds
      BY <1>5, <1>15, SizeFacts
    <3>3. Packets(e) = {}
      BY <3>2 DEF Packets, First
    <3> QED
      BY <3>1, <3>3
  <2>4. IF Len(text) \in {StateLen, DataLen}
        THEN /\ Len(text) > 0 /\ text[1].what \in Kinds
             /\ \/ Whole(text) /\ Packets(text) = {text[1].line}
                \/ Remnant(text) /\ Packets(text) = {} /\ text[1].at # 1
        ELSE Packets(text) = {}
    BY <1>2, <1>10, <1>11, <1>15, EndOfLine
  <2>5. Printed(r) /\ Older(Named(t), Packets(r))
    BY <2>2, DropChars
  <2>6. Coming = Packets(text) \cup Packets(r) /\ Named(r) \subseteq Names
    <3>1. Packets(t \o r) = Packets(t) \cup Packets(r)
          /\ Named(t \o r) = Named(t) \cup Named(r)
      BY Joined
    <3> QED
      BY <2>2, <2>3, <3>1 DEF Coming, Names
  <2>7. ~Cut(r)
    <3>1. Printed(u)
      BY <1>2, <1>10, DropChars
    <3>2. Len(r) > 0 => Adjacent(h, r[1])
      BY <1>5, <1>9, <3>1, AfterFirst
    <3> QED
      BY <1>15, <3>2 DEF Adjacent, Cut
  <2>8. IF Len(text) \in {StateLen, DataLen}
        THEN pc' = "dns" /\ caller' = "post" /\ UNCHANGED text
        ELSE text' = <<>> /\ UNCHANGED <<pc, caller>>
    BY <1>3, <1>15 DEF ReadLine
  <2>9. Begun' = <<>>
    BY <1>1, <2>8 DEF Begun
  <2>10. Stream' = r
    <3>1. Stream' = <<>> \o r
      BY <1>1, <1>7, <2>9 DEF Stream
    <3> QED
      BY <3>1, ConcatEmptySeq
  <2>11. Coming' = Packets(r) /\ Names' = Named(r) /\ Printed(Stream')
    BY <2>5, <2>10, StreamMoves
  <2>12. FrontInv'
    BY <2>7, <2>10 DEF FrontInv
  <2>13. CASE Len(text) \in {StateLen, DataLen}
    <3>1. /\ pc' = "dns" /\ caller' = "post" /\ text' = text
          /\ Held' /\ InHand' = {text[1].line} /\ Listening'
      BY <1>1, <1>12, <2>8, <2>13 DEF InHand, Held, Posting, Listening
    <3>2. 1 \in 1..Len(text) /\ text[1].what \in Kinds
      BY <1>2, <2>4, <2>13
    <3>3. text[1].line \in Named(text)
      BY <3>2 DEF Named
    <3>4. InHand' \subseteq Names
      <4>1. Named(text \o u) = Named(text) \cup Named(u)
        BY <1>2, Joined
      <4> QED
        BY <1>10, <3>1, <3>3, <4>1 DEF Names
    <3>5. Older(InHand', Coming')
      BY <2>3, <2>5, <2>11, <3>1, <3>3 DEF Older
    <3>6. CASE Whole(text) /\ Packets(text) = {text[1].line}
      <4>1. HeldInv'
        BY <3>1, <3>6 DEF HeldInv
      <4>2. Older(Gone, InHand')
        BY <2>6, <3>1, <3>6 DEF LineInv, OrderInv, Older
      <4>3. LineInv'
        BY <1>1, <2>6, <2>11, <2>12, <3>1, <3>4, <3>5, <4>1, <4>2, LineKept
      <4> QED
        BY <1>1, <1>12, <2>6, <2>11, <3>1, <3>6, <4>3, LossKept
    <3>7. CASE Remnant(text) /\ Packets(text) = {} /\ text[1].at # 1
      <4>1. Cut(Stream) /\ Stream[1] = text[1]
        <5>1. Len(text \o u) = Len(text) + Len(u) /\ Len(text) \in Nat /\ Len(u) \in Nat
              /\ \A i \in 1..Len(text) : (text \o u)[i] = text[i]
          BY <1>2, Joined
        <5>2. Stream[1] = text[1] /\ Len(Stream) > 0
          BY <1>10, <1>11, <3>2, <5>1
        <5> QED
          BY <3>2, <3>7, <5>2 DEF Cut
      <4>2. posted = <<>> /\ text[1].line <= skipped
        BY <1>12, <4>1 DEF LineInv, FrontInv
      <4>3. HeldInv'
        BY <1>1, <3>1, <3>7, <4>2 DEF HeldInv
      <4>4. Older(Gone, InHand')
        BY <4>2 DEF Gone, Older
      <4>5. LineInv'
        BY <1>1, <2>6, <2>11, <2>12, <3>1, <3>4, <3>5, <4>3, <4>4, LineKept
      <4> QED
        BY <1>1, <1>12, <2>6, <2>11, <3>1, <3>7, <4>5, LossKept
    <3> QED
      BY <2>4, <2>13, <3>6, <3>7
  <2>14. CASE ~(Len(text) \in {StateLen, DataLen})
    <3>1. text' = <<>> /\ pc' = "loop" /\ Packets(text) = {}
      BY <1>1, <2>4, <2>8, <2>14
    <3>2. InHand' = {} /\ ~Held'
      BY <3>1 DEF InHand, Held, Posting
    <3>3. HeldInv' /\ Run(text')
      BY <3>1, <3>2 DEF HeldInv, Run
    <3>4. LineInv'
      BY <1>1, <2>6, <2>11, <2>12, <3>2, <3>3, LineKept
    <3> QED
      BY <1>1, <1>12, <2>6, <2>11, <3>1, <3>2, <3>4, LossKept
  <2> QED
    BY <2>13, <2>14
<1> QED
  BY <1>13, <1>14, <1>15 DEF Ends

\* The modem prints: what it makes of the stream.
LEMMA Prints ==
  ASSUME TypeInv, LineInv, NEW l \in Seq(Chars), wire' = wire \o l,
         UNCHANGED <<uart, pc, text>>, Printed(l), Len(l) > 0,
         l[1].what \notin Ends, l[1].at = 1, Older(Names, Packets(l))
  PROVE  /\ Printed(Stream')
         /\ Coming' = Coming \cup Packets(l) /\ Names' = Names \cup Named(l)
         /\ Cut(Stream') => Cut(Stream) /\ Stream'[1] = Stream[1]
<1>1. /\ Begun \in Seq(Chars) /\ uart \in Seq(Chars) /\ wire \in Seq(Chars)
      /\ uart \o wire \in Seq(Chars) /\ Stream \in Seq(Chars)
      /\ Begun' = Begun
  BY StreamTypes DEF Begun
<1>2. \A a, b, c \in Seq(Chars) : (a \o b) \o c = a \o (b \o c)
  BY ConcatAssociative
<1>3. uart \o (wire \o l) = (uart \o wire) \o l
  BY ZenonT(40), <1>1, <1>2
<1>4. Begun \o ((uart \o wire) \o l) = (Begun \o (uart \o wire)) \o l
  BY ZenonT(40), <1>1, <1>2
<1>5. Stream' = Stream \o l
  BY <1>1, <1>3, <1>4 DEF Stream
<1>6. Printed(Stream \o l)
  BY <1>1, AddChars DEF LineInv, Names
<1>7. /\ Packets(Stream \o l) = Packets(Stream) \cup Packets(l)
      /\ Named(Stream \o l) = Named(Stream) \cup Named(l)
      /\ Len(Stream) \in Nat
      /\ \A i \in 1..Len(Stream) : (Stream \o l)[i] = Stream[i]
      /\ \A i \in 1..Len(l) : (Stream \o l)[Len(Stream) + i] = l[i]
  BY <1>1, Joined
<1>8. Coming' = Packets(Stream \o l) /\ Names' = Named(Stream \o l)
  BY <1>5, StreamMoves
<1>9. ASSUME Cut(Stream') PROVE Cut(Stream) /\ Stream'[1] = Stream[1]
  <2>1. CASE Len(Stream) = 0
    <3>1. 1 \in 1..Len(l) /\ Len(Stream) + 1 = 1
      BY <2>1
    <3>2. Stream'[1] = l[1]
      BY <1>5, <1>7, <3>1
    <3> QED
      BY <1>9, <3>2 DEF Cut
  <2>2. CASE Len(Stream) # 0
    <3>1. 1 \in 1..Len(Stream) /\ Len(Stream) > 0
      BY <1>7, <2>2
    <3>2. Stream'[1] = Stream[1]
      BY <1>5, <1>7, <3>1
    <3> QED
      BY <1>9, <3>1, <3>2 DEF Cut
  <2> QED
    BY <2>1, <2>2
<1> QED
  BY <1>5, <1>6, <1>7, <1>8, <1>9 DEF Coming, Names

\* What is known of any packet has a number.
LEMMA LineNumbers ==
  ASSUME TypeInv, LineInv
  PROVE  Gone \cup InHand \cup Names \subseteq Nat
<1>1. Names \subseteq Nat
  <2>1. Stream \in Seq(Chars)
    BY StreamTypes
  <2>2. \A i \in 1..Len(Stream) : Stream[i].line \in Nat
    <3>1. \A i \in 1..Len(Stream) : Stream[i] \in Chars
      BY <2>1
    <3>2. \A c \in Chars : c.line \in Nat
      BY DEF Chars
    <3> QED
      BY <3>1, <3>2
  <2> QED
    BY <2>2 DEF Names, Named
<1>2. ASSUME NEW t \in Seq(Chars), Whole(t) \/ Remnant(t) PROVE t[1].line \in Nat
  <2>1. Len(t) \in Nat /\ 0 < Len(t)
    BY <1>2, SizeFacts DEF Whole, Remnant
  <2>2. 1 \in 1..Len(t)
    BY <2>1
  <2>3. t[1] \in Chars
    BY <2>2
  <2> QED
    BY <2>3 DEF Chars
<1>3. Gone \subseteq Nat
  <2>1. ASSUME NEW i \in DOMAIN posted PROVE posted[i][1].line \in Nat
    <3>1. posted[i] \in Seq(Chars)
      BY DEF TypeInv, TypeOK, HistoryTypeOK
    <3>2. Whole(posted[i]) \/ Remnant(posted[i])
      BY DEF LineInv, PostInv
    <3> QED
      BY <1>2, <3>1, <3>2
  <2> QED
    BY <2>1 DEF Gone
<1>4. InHand \subseteq Nat
  <2>1. text \in Seq(Chars)
    BY StreamTypes
  <2> QED
    BY <1>2, <2>1 DEF InHand, LineInv, HeldInv
<1> QED
  BY <1>1, <1>3, <1>4

\* A packet, an answer, and the UART.
LEMMA ModemSteps ==
  ASSUME TypeInv, BoardInv, LineInv, LossInv, ~overrun',
         (\E kind \in Kinds : Packet(kind)) \/ Obey \/ Arrive
  PROVE  LineInv' /\ LossInv'
<1> USE DEF modem, serial, http, sketch, past
<1>1. lines \in Nat /\ skipped \in Nat
  BY DEF TypeInv, TypeOK, ModemTypeOK, HistoryTypeOK
<1>2. /\ UNCHANGED <<pc, caller, text, posted, skipped, begun, failed>>
  BY DEF Packet, Obey, Arrive
<1>3. /\ Begun' = Begun /\ Gone' = Gone /\ InHand' = InHand /\ Held' = Held
      /\ Listening' = Listening
  BY <1>2 DEF Begun, Gone, InHand, Held, Posting, Listening
<1>4. (pc' = "loop" => Run(text')) /\ HeldInv' /\ PostInv'
  BY <1>2, <1>3 DEF LineInv, HeldInv, PostInv
<1>5. ASSUME Listening' => (Cut(Stream') => Cut(Stream) /\ Stream'[1] = Stream[1])
      PROVE  FrontInv'
  BY <1>2, <1>3, <1>5 DEF LineInv, FrontInv
<1>6. CASE \E kind \in Kinds : Packet(kind)
  <2>1. PICK kind \in Kinds : Packet(kind)
    BY <1>6
  <2>2. PICK l : l = Line(lines + 1, kind)
    OBVIOUS
  <2>3. /\ wire' = wire \o l /\ UNCHANGED uart /\ lines' = lines + 1
    BY <2>1, <2>2 DEF Packet
  <2>4. /\ l \in Seq(Chars) /\ Printed(l)
        /\ Packets(l) = {lines + 1} /\ Named(l) = {lines + 1}
        /\ Len(l) > 0 /\ l[1].what \notin Ends /\ l[1].at = 1
    <3>1. lines + 1 \in Nat
      BY <1>1
    <3> QED
      BY <2>2, <3>1, LinePrinted
  <2>5. Older(Names, Packets(l))
    BY <2>4 DEF LineInv, OrderInv, Older
  <2>6. /\ Printed(Stream')
        /\ Coming' = Coming \cup {lines + 1} /\ Names' = Names \cup {lines + 1}
        /\ Cut(Stream') => Cut(Stream) /\ Stream'[1] = Stream[1]
    <3>1. UNCHANGED <<uart, pc, text>>
      BY <1>2, <2>3
    <3>2. /\ Printed(Stream')
          /\ Coming' = Coming \cup Packets(l) /\ Names' = Names \cup Named(l)
          /\ Cut(Stream') => Cut(Stream) /\ Stream'[1] = Stream[1]
      BY <2>3, <2>4, <2>5, <3>1, Prints
    <3> QED
      BY <2>4, <3>2
  <2>7. \A x \in Gone \cup InHand \cup Names : x < lines + 1 /\ x \in Nat
    BY LineNumbers DEF LineInv, OrderInv, Older
  <2>8. OrderInv'
    <3>1. \A x \in Gone \cup InHand \cup Names \cup {lines + 1} : x < (lines + 1) + 1
      BY <1>1, <2>7
    <3> QED
      BY <1>3, <2>3, <2>6, <2>7, <3>1 DEF LineInv, OrderInv, Older
  <2>9. Printed(Stream)'
    BY <2>6
  <2>10. FrontInv'
    BY <1>5, <2>6
  <2>11. LineInv'
    BY <1>4, <2>8, <2>9, <2>10 DEF LineInv
  <2>12. LossInv'
    <3>1. SUFFICES ASSUME Listening', ~failed',
                          NEW n \in Nat, skipped' < n, n <= lines'
                   PROVE  n \in Gone' \cup InHand' \cup Coming'
      BY DEF LossInv
    <3>2. CASE n <= lines
      BY <1>2, <1>3, <2>6, <3>1, <3>2 DEF LossInv
    <3>3. CASE n = lines + 1
      BY <2>6, <3>3
    <3> QED
      BY <1>1, <2>3, <3>1, <3>2, <3>3
  <2> QED
    BY <2>11, <2>12
<1>7. CASE Obey
  <2>1. PICK l : l = Said(Reply(Head(inbox)))
    OBVIOUS
  <2>2. /\ wire' = wire \o l \/ wire' = wire
        /\ UNCHANGED <<uart, lines>>
    BY <1>7, <2>1 DEF Obey
  <2>3. /\ l \in Seq(Chars) /\ Printed(l) /\ Packets(l) = {} /\ Named(l) = {}
        /\ Len(l) > 0 /\ l[1].what \notin Ends /\ l[1].at = 1
    BY <2>1, ReplyFacts, AnswerPrinted
  <2>4. /\ Printed(Stream') /\ Coming' = Coming /\ Names' = Names
        /\ Cut(Stream') => Cut(Stream) /\ Stream'[1] = Stream[1]
    <3>1. CASE wire' = wire \o l
      <4>1. Older(Names, Packets(l))
        BY <2>3 DEF Older
      <4>2. UNCHANGED <<uart, pc, text>>
        BY <1>2, <2>2
      <4>3. /\ Printed(Stream')
            /\ Coming' = Coming \cup Packets(l) /\ Names' = Names \cup Named(l)
            /\ Cut(Stream') => Cut(Stream) /\ Stream'[1] = Stream[1]
        BY <2>3, <3>1, <4>1, <4>2, Prints
      <4> QED
        BY <2>3, <4>3
    <3>2. CASE wire' = wire
      <4>1. Stream' = Stream
        BY <1>3, <2>2, <3>2 DEF Stream
      <4> QED
        BY <4>1, StreamMoves DEF LineInv, Coming, Names
    <3> QED
      BY <2>2, <3>1, <3>2
  <2>5. FrontInv'
    BY <1>5, <2>4
  <2>6. LineInv'
    BY <1>2, <1>3, <1>4, <2>2, <2>4, <2>5, LineKept
  <2> QED
    BY <1>2, <1>3, <2>2, <2>4, <2>6, LossKept
<1>8. CASE Arrive
  <2>1. /\ wire # <<>> /\ wire' = Tail(wire) /\ UNCHANGED lines
        /\ uart' = IF begun /\ Len(uart) < RxCap THEN Append(uart, Head(wire)) ELSE uart
        /\ ~(begun /\ Len(uart) = RxCap)
    <3>1. overrun' = (overrun \/ (begun /\ Len(uart) = RxCap))
      BY <1>8 DEF Arrive
    <3>2. ~(begun /\ Len(uart) = RxCap)
      BY <3>1
    <3> QED
      BY <1>8, <3>2 DEF Arrive
  <2>2. /\ Begun \in Seq(Chars) /\ uart \in Seq(Chars) /\ wire \in Seq(Chars)
        /\ uart \o wire \in Seq(Chars) /\ Stream \in Seq(Chars)
    BY StreamTypes
  <2>3. PICK h \in Chars : h = Head(wire)
    <3>1. Head(wire) \in Chars
      BY <2>1, <2>2
    <3> QED
      BY <3>1
  <2>4. PICK e \in Seq(Chars) : e = <<h>>
    <3>1. <<h>> \in Seq(Chars)
      BY <2>3
    <3> QED
      BY <3>1
  <2>5. wire' \in Seq(Chars) /\ wire = e \o wire'
    BY <2>1, <2>2, <2>3, <2>4
  <2>6. \A a, b, c \in Seq(Chars) : (a \o b) \o c = a \o (b \o c)
    BY ConcatAssociative
  <2>7. CASE begun
    <3>1. Len(uart) < RxCap
      BY <2>1, <2>7, SizeAssumption DEF TypeInv, TypeOK, SketchTypeOK
    <3>2. uart' = uart \o e
      <4>1. uart' = Append(uart, h)
        BY <2>1, <2>3, <2>7, <3>1
      <4>2. Append(uart, h) = uart \o <<h>>
        BY <2>2, AppendIsConcat
      <4> QED
        BY <2>4, <4>1, <4>2
    <3>3. (uart \o e) \o wire' = uart \o (e \o wire')
      BY <2>2, <2>4, <2>5, <2>6
    <3>4. Stream' = Stream
      BY <1>3, <2>5, <3>2, <3>3 DEF Stream
    <3>5. Printed(Stream') /\ Coming' = Coming /\ Names' = Names
      BY <3>4, StreamMoves DEF LineInv, Coming, Names
    <3>6. FrontInv'
      BY <1>5, <3>4
    <3>7. LineInv'
      BY <1>2, <1>3, <1>4, <2>1, <3>5, <3>6, LineKept
    <3> QED
      BY <1>2, <1>3, <2>1, <3>5, <3>7, LossKept
  <2>8. CASE ~begun
    <3>1. uart = <<>> /\ text = <<>> /\ uart' = uart
      BY <2>1, <2>8 DEF BoardInv
    <3>2. Begun = <<>>
      BY <3>1 DEF Begun
    <3>3. Stream = wire /\ Stream' = wire'
      BY <1>3, <2>2, <2>5, <3>1, <3>2, ConcatEmptySeq DEF Stream
    <3>4. Printed(Stream') /\ Coming' \subseteq Coming /\ Names' \subseteq Names
      <4>1. PICK w \in Seq(Chars) : w = wire'
        BY <2>5
      <4>2. Printed(e \o w)
        BY <2>5, <3>3, <4>1 DEF LineInv
      <4>3. Printed(w)
        BY <4>2, DropChars
      <4>4. /\ Packets(e \o w) = Packets(e) \cup Packets(w)
            /\ Named(e \o w) = Named(e) \cup Named(w)
        BY Joined
      <4>5. Stream' = w /\ Stream = e \o w
        BY <2>5, <3>3, <4>1
      <4>6. Coming' = Packets(w) /\ Names' = Named(w)
        BY <4>5, StreamMoves
      <4> QED
        BY <4>3, <4>4, <4>5, <4>6 DEF Coming, Names
    <3>5. ~Listening'
      BY <1>2, <2>8 DEF Listening
    <3>6. FrontInv'
      BY <3>5 DEF FrontInv
    <3>7. LineInv'
      BY <1>2, <1>3, <1>4, <2>1, <3>4, <3>6, LineKept
    <3> QED
      BY <3>5, <3>7 DEF LossInv
  <2> QED
    BY <2>7, <2>8
<1> QED
  BY <1>6, <1>7, <1>8

\* Once the buffer has overrun, that is remembered.
LEMMA OverrunStays == TypeInv /\ [Next]_vars /\ ~overrun' => ~overrun
<1>1. SUFFICES ASSUME TypeInv, [Next]_vars, overrun PROVE overrun'
  BY DEF TypeInv, TypeOK, HistoryTypeOK
<1> USE DEF past
<1>2. CASE Arrive
  BY <1>1, <1>2 DEF Arrive
<1>3. CASE ~Arrive
  <2>1. overrun' = overrun
    BY <1>1, <1>3 DEF vars, Next, Board, Modem, Packet, Obey, MissCommand, Stage,
         TimeDone, Ask, ReadAnswer, AnswerTimeout, ReadLine, Lookup, Resolved,
         Unresolved, DnsDelay, NoConnection, Request, ReadTimeout, Available,
         Received, ServerClosed, TimePasses, HttpUnchanged, NextCommand
  <2> QED
    BY <1>1, <2>1
<1> QED
  BY <1>2, <1>3

\* At power on nothing has been printed.
LEMMA InitLine == Init => LineInv /\ LossInv
<1>1. SUFFICES ASSUME Init PROVE LineInv /\ LossInv
  OBVIOUS
<1>2. /\ uart = <<>> /\ wire = <<>> /\ posted = <<>> /\ text = <<>> /\ ~begun
      /\ pc = "sdBegin"
  BY <1>1 DEF Init, Stages
<1>3. <<>> \in Seq(Chars)
  BY Zeros
<1>4. Stream = <<>> /\ Len(<<>>) = 0
  BY <1>2, <1>3, ConcatEmptySeq DEF Stream, Begun
<1>5. Coming = {} /\ Names = {} /\ Gone = {} /\ InHand = {} /\ ~Held /\ ~Listening
  BY <1>2, <1>4 DEF Coming, Names, Packets, Named, Gone, InHand, Held, Posting,
                    Listening, HttpPcs
<1>6. Printed(Stream)
  BY <1>4 DEF Printed
<1>7. PostInv
  BY <1>2 DEF PostInv
<1> QED
  BY <1>2, <1>5, <1>6, <1>7 DEF LineInv, LossInv, OrderInv, FrontInv, HeldInv, Older

\* Every step keeps the lines whole, in order and accounted for, as long as
\* the buffer does not overrun.
LEMMA LineStep ==
  TypeInv /\ BoardInv /\ LineInv /\ LossInv /\ [Next]_vars /\ ~overrun'
    => LineInv' /\ LossInv'
<1>1. SUFFICES ASSUME TypeInv, BoardInv, LineInv, LossInv, [Next]_vars, ~overrun'
               PROVE  LineInv' /\ LossInv'
  OBVIOUS
<1>2. CASE \E r \in {"zero", "negative"} : Unresolved(r)
  BY <1>1, <1>2, QuietSteps, ReturnSteps
<1>3. CASE \/ \E i \in DOMAIN Stages, ok \in BOOLEAN : Stage(i, ok)
           \/ TimeDone \/ TimePasses \/ Resolved \/ DnsDelay \/ Available
           \/ Received \/ MissCommand \/ UNCHANGED vars
  BY <1>1, <1>3, QuietSteps
<1>4. CASE NoConnection \/ ReadTimeout \/ ServerClosed
  BY <1>1, <1>4, ReturnSteps
<1>5. CASE Ask \/ ReadAnswer \/ AnswerTimeout
  BY <1>1, <1>5, HelperSteps
<1>6. CASE (\E kind \in Kinds : Packet(kind)) \/ Obey \/ Arrive
  BY <1>1, <1>6, ModemSteps
<1> QED
  BY <1>1, <1>2, <1>3, <1>4, <1>5, <1>6, RequestStep, ReadLineStep
     DEF Next, Board, Modem, Lookup

\* What holds in every state of the station.
StationInv == /\ TypeInv /\ BoardInv
              /\ ~missed => ModemInv
              /\ ~overrun => LineInv /\ LossInv

\* It is inductive.
LEMMA Inductive == Spec => []StationInv
<1>1. Init => StationInv
  BY InitTypeOK, InitBoard, InitLine DEF StationInv
<1>2. StationInv /\ [Next]_vars => StationInv'
  BY TypeStep, BoardStep, ModemStep, MissedStays, LineStep, OverrunStays
     DEF StationInv
<1> QED
  BY <1>1, <1>2, PTL DEF Spec

\* However late the modem answers, and whatever it prints in between: once
\* the dialogue is over and its commands are taken the modem is in data mode
\* on the word setup() asked for, unless it has missed a command.  For any
\* dialogue that begins, tunes and ends as setup()'s does.
THEOREM ModemIsTuned == Spec => []TunedUnlessMissed
<1>1. StationInv => TunedUnlessMissed
  <2>1. SUFFICES ASSUME StationInv, begun, pc \notin {"ask", "answer"}, inbox = <<>>,
                        ~missed
                 PROVE  mode = "data" /\ word = Tuned
    BY DEF TunedUnlessMissed
  <2>2. Sent = Commands /\ Len(inbox) = 0
    BY <2>1 DEF Sent
  <2>3. Taken = Commands
    BY <2>2, DialogueFacts DEF Taken
  <2>4. mode # "command" /\ word = Tuned
    BY <2>1, <2>3, DialogueFacts DEF StationInv, ModemInv
  <2> QED
    BY <2>1, <2>4 DEF StationInv, TypeInv, TypeOK, ModemTypeOK
<1> QED
  BY <1>1, Inductive, PTL

\* As long as the receive buffer has not overrun, every post carries the
\* characters of one packet, and packets are posted in the order the modem
\* printed them, none twice: whatever answers and packets are mixed on the line,
\* wherever a timeout of the helper cuts them, for any lengths of lines and texts
\* of answers, any buffer and any number of packets.  The one exception is the
\* first post, which may carry the end of a packet printed before the loop
\* listened.
THEOREM PostsAreWhole == Spec => []PostsWholeInOrder
<1>1. StationInv => PostsWholeInOrder
  BY DEF StationInv, LineInv, PostInv, PostsWholeInOrder
<1> QED
  BY <1>1, Inductive, PTL

\* No packet is lost without a trace: once the line is quiet and the loop
\* idle, each one printed since the loop began to listen has been posted, whole,
\* unless the buffer has overrun or a post got no connection.
THEOREM NoPacketIsLost == Spec => []NothingLostSilently
<1>1. StationInv => NothingLostSilently
  <2>1. SUFFICES ASSUME TypeInv, LineInv, LossInv, pc = "loop", begun,
                        wire = <<>>, uart = <<>>, ~failed,
                        NEW n \in skipped + 1 .. lines
                 PROVE  \E i \in DOMAIN posted :
                          posted[i][1].line = n /\ Whole(posted[i])
    BY DEF NothingLostSilently, StationInv
  <2>2. n \in Nat /\ skipped < n /\ n <= lines /\ ~(n <= skipped)
    BY <2>1 DEF TypeInv, TypeOK, ModemTypeOK, HistoryTypeOK
  <2>3. n \in Gone \cup InHand \cup Coming
    BY <2>1, <2>2 DEF LossInv, Listening
  <2>4. InHand = {}
    BY <2>1 DEF InHand, Held, Posting, HttpPcs
  <2>5. Stream = text /\ text \in Seq(Chars)
    <3>1. text \in Seq(Chars) /\ <<>> \in Seq(Chars)
      BY <2>1, StreamTypes, Zeros
    <3> QED
      BY <2>1, <3>1, ConcatEmptySeq DEF Stream, Begun
  <2>6. Len(text) = 0
    <3>1. SUFFICES ASSUME Len(text) # 0 PROVE FALSE
      OBVIOUS
    <3>2. Len(text) \in 1..Len(text)
      BY <2>5, <3>1
    <3>3. Printed(text) /\ Run(text)
      BY <2>1, <2>5 DEF LineInv
    <3>4. text[Len(text)].what = "lf" /\ text[Len(text)].what \notin Ends
      BY <3>2, <3>3 DEF Printed, Run
    <3> QED
      BY <3>4 DEF Ends
  <2>7. Coming = {}
    BY <2>5, <2>6 DEF Coming, Packets
  <2>8. PICK i \in DOMAIN posted : posted[i][1].line = n
    BY <2>3, <2>4, <2>7 DEF Gone
  <2>9. Whole(posted[i])
    BY <2>1, <2>2, <2>8 DEF LineInv, PostInv
  <2> QED
    BY <2>8, <2>9
<1> QED
  BY <1>1, Inductive, PTL
=============================================================================
