----------------------------- MODULE NetworkProofs -----------------------------
(***************************************************************************)
(* Proofs about MCNetwork: the class that joins networks, and the clients  *)
(* and the server, for any number of sockets, clients and attempts.        *)
(***************************************************************************)
EXTENDS MCNetwork, Integers, Sequences, SequenceTheorems, FiniteSetTheorems, TLAPS

-----------------------------------------------------------------------------
(* The bits of the class and the link.                                     *)

\* What is on its way to the class.
News == Station!Events \cup {"ok", "error"}

\* The bits are bound to come right: they are not stale, or the loss of the
\* link, which clears both, is on its way.
Trusted == ~stale \/ \E i \in 1..Len(news) : news[i] = "DISCONNECT"

\* The bits that are bound to come right are what the events will make of them.
LinkInv ==
  /\ news \in Seq(News)
  /\ joined \in BOOLEAN /\ addressed \in BOOLEAN /\ stale \in BOOLEAN
  /\ Trusted => /\ joined <=> Station!Settled("CONNECT", "IsConnected")
                /\ addressed <=> Station!Settled("DHCP", "HasDHCP")

\* An answer changes nothing of what the bits will be.
LEMMA AnswerSaysNothing ==
  ASSUME LinkInv, NEW what \in {"ok", "error"}, NEW event \in Station!Events, NEW bit,
         news' = Append(news, what), UNCHANGED bits
  PROVE  /\ news' \in Seq(News)
         /\ Station!Settled(event, bit)' = Station!Settled(event, bit)
         /\ (\E i \in 1..Len(news') : news'[i] = "DISCONNECT")
              = (\E i \in 1..Len(news) : news[i] = "DISCONNECT")
  BY DEF LinkInv, News, Station!Events, Station!Settled

\* The loss of the link is the last word on it.
LEMMA LossIsLastWord ==
  ASSUME news' \in Seq(News), NEW k \in 1..Len(news'), news'[k] = "DISCONNECT",
         \A j \in k+1..Len(news') : news'[j] \notin Station!Events,
         NEW event \in Station!Events \ {"DISCONNECT"}, NEW bit
  PROVE  ~Station!Settled(event, bit)'
  <1>1. ASSUME NEW i \in 1..Len(news'), news'[i] = event,
               \A j \in i+1..Len(news') : news'[j] # "DISCONNECT"
        PROVE  FALSE
    <2>1. i # k /\ Len(news') \in Nat
      BY <1>1
    <2>2. ~(k \in i+1..Len(news')) /\ ~(i \in k+1..Len(news'))
      BY <1>1
    <2> QED  BY <2>1, <2>2
  <1> QED  BY <1>1 DEF Station!Settled

\* Another event on its way sets its own bit and no other.
LEMMA EventSetsItsBit ==
  ASSUME LinkInv, NEW what \in Station!Events \ {"DISCONNECT"},
         NEW event \in Station!Events \ {"DISCONNECT"}, NEW bit,
         news' = Append(news, what), UNCHANGED bits
  PROVE  /\ news' \in Seq(News)
         /\ Station!Settled(event, bit)' <=> Station!Settled(event, bit) \/ what = event
         /\ (\E i \in 1..Len(news') : news'[i] = "DISCONNECT")
              = (\E i \in 1..Len(news) : news[i] = "DISCONNECT")
  <1> DEFINE n == Len(news) + 1
  <1>1. /\ news' \in Seq(News) /\ Len(news') = n /\ news'[n] = what /\ n \in Nat
        /\ \A i \in 1..Len(news) : news'[i] = news[i]
        /\ what # "DISCONNECT"
    BY DEF LinkInv, News, Station!Events
  <1>2. \A i \in 1..n : i \in 1..Len(news) \/ i = n
    BY DEF LinkInv
  <1>3. (\E i \in 1..Len(news') : news'[i] = "DISCONNECT")
          = (\E i \in 1..Len(news) : news[i] = "DISCONNECT")
    BY <1>1, <1>2
  <1>4. ASSUME Station!Settled(event, bit)', what # event
        PROVE  Station!Settled(event, bit)
    BY <1>1, <1>2, <1>4 DEF Station!Settled
  <1>5. ASSUME what = event
        PROVE  Station!Settled(event, bit)'
    <2>1. n \in 1..Len(news') /\ \A j \in n+1..Len(news') : news'[j] # "DISCONNECT"
      BY <1>1
    <2> QED  BY <2>1, <1>1, <1>5 DEF Station!Settled
  <1>6. ASSUME Station!Settled(event, bit)
        PROVE  Station!Settled(event, bit)'
    BY <1>1, <1>2, <1>6 DEF Station!Settled
  <1> QED  BY <1>1, <1>3, <1>4, <1>5, <1>6

\* Which bit an event sets.
Sets(event, bit) == \/ event = "CONNECT" /\ bit = "IsConnected"
                    \/ event = "DHCP" /\ bit = "HasDHCP"

\* What leaves the queue has its effect on the bits, so that nothing changes in
\* what they will be; an answer has none.
LEMMA DeliveryKeepsPromise ==
  ASSUME LinkInv, news # <<>>, news' = Tail(news),
         bits' = IF Head(news) \in Station!Events THEN Station!After(bits, Head(news)) ELSE bits,
         NEW event, NEW bit, Sets(event, bit)
  PROVE  /\ Station!Settled(event, bit)' <=> Station!Settled(event, bit)
         /\ news' \in Seq(News)
         /\ (\E i \in 1..Len(news') : news'[i] = "DISCONNECT") \/ Head(news) = "DISCONNECT"
              <=> \E i \in 1..Len(news) : news[i] = "DISCONNECT"
  <1> DEFINE n == Len(news)
  <1>1. /\ n \in Nat \ {0} /\ Len(news') = n - 1 /\ news' \in Seq(News)
        /\ \A i \in 1..n-1 : news'[i] = news[i + 1]
        /\ Head(news) = news[1] /\ news[1] \in News
    BY DEF LinkInv
  <1>2. \A i \in 1..n : i = 1 \/ (i - 1 \in 1..n-1 /\ news[i] = news'[i - 1])
    BY <1>1
  <1>3. (\E i \in 1..Len(news') : news'[i] = "DISCONNECT") \/ Head(news) = "DISCONNECT"
          <=> \E i \in 1..Len(news) : news[i] = "DISCONNECT"
    BY <1>1, <1>2
  <1>4. bit \in bits' <=> \/ news[1] = event
                          \/ bit \in bits /\ news[1] # "DISCONNECT"
    BY <1>1 DEF News, Station!Events, Station!After, Sets
  <1>5. event # "DISCONNECT"
    BY DEF Sets
  <1>6. ASSUME Station!Settled(event, bit)
        PROVE  Station!Settled(event, bit)'
    <2>1. CASE bit \in bits /\ \A i \in 1..Len(news) : news[i] # "DISCONNECT"
      BY <2>1, <1>1, <1>4 DEF Station!Settled
    <2>2. ASSUME NEW i \in 1..n, news[i] = event, \A j \in i+1..n : news[j] # "DISCONNECT"
          PROVE  Station!Settled(event, bit)'
      <3>1. CASE i = 1
        BY <3>1, <2>2, <1>1, <1>4 DEF Station!Settled
      <3>2. CASE i # 1
        <4>1. i - 1 \in 1..Len(news') /\ news'[i - 1] = event
          BY <3>2, <2>2, <1>1, <1>2
        <4>2. \A j \in (i-1)+1..Len(news') : news'[j] # "DISCONNECT"
          BY <2>2, <1>1
        <4> QED  BY <4>1, <4>2 DEF Station!Settled
      <3> QED  BY <3>1, <3>2
    <2> QED  BY <1>6, <2>1, <2>2 DEF Station!Settled
  <1>7. ASSUME Station!Settled(event, bit)'
        PROVE  Station!Settled(event, bit)
    <2>1. CASE bit \in bits' /\ \A i \in 1..n-1 : news'[i] # "DISCONNECT"
      <3>1. \A i \in 2..n : news[i] # "DISCONNECT"
        BY <2>1, <1>1, <1>2
      <3>2. CASE news[1] = event
        BY <3>1, <3>2, <1>1 DEF Station!Settled
      <3>3. CASE bit \in bits /\ news[1] # "DISCONNECT"
        BY <3>1, <3>3, <1>1 DEF Station!Settled
      <3> QED  BY <2>1, <3>2, <3>3, <1>4
    <2>2. ASSUME NEW i \in 1..n-1, news'[i] = event, \A j \in i+1..n-1 : news'[j] # "DISCONNECT"
          PROVE  Station!Settled(event, bit)
      <3>1. i + 1 \in 1..n /\ news[i + 1] = event
        BY <2>2, <1>1
      <3>2. \A j \in (i+1)+1..n : news[j] # "DISCONNECT"
        BY <2>2, <1>1, <1>2
      <3> QED  BY <3>1, <3>2 DEF Station!Settled
    <2> QED  BY <1>1, <1>7, <2>1, <2>2 DEF Station!Settled
  <1> QED  BY <1>1, <1>3, <1>6, <1>7

\* Where neither the link nor what is on its way nor the bits change.
LEMMA LinkUntouched ==
  ASSUME LinkInv, UNCHANGED <<bits, joined, addressed, news>>, stale' \in BOOLEAN,
         stale => stale'
  PROVE  LinkInv'
  BY DEF LinkInv, Trusted, Station!Settled

\* Clearing the bits, or an empty queue after a restart: no promise is left but
\* that of a loss that is still on its way.
LEMMA ClearKeepsPromise ==
  ASSUME LinkInv, Station!Clear
  PROVE  LinkInv'
  <1>1. stale' = TRUE /\ UNCHANGED <<joined, addressed, news>>
    BY DEF Station!Clear, Station!chip
  <1>2. ASSUME NEW event, NEW bit, \E i \in 1..Len(news) : news[i] = "DISCONNECT"
        PROVE  Station!Settled(event, bit)' <=> Station!Settled(event, bit)
    BY <1>1, <1>2 DEF Station!Settled
  <1> QED  BY <1>1, <1>2 DEF LinkInv, Trusted

\* wlan_stop drops the link and what was on its way: nothing is promised.
LEMMA StopKeepsPromise ==
  ASSUME LinkInv, Station!wlan_stop
  PROVE  LinkInv'
  <1>1. stale' = TRUE /\ joined' = FALSE /\ addressed' = FALSE /\ news' = <<>>
    BY DEF Station!wlan_stop
  <1>2. news' \in Seq(News) /\ ~\E i \in 1..Len(news') : news'[i] = "DISCONNECT"
    BY <1>1
  <1> QED  BY <1>1, <1>2 DEF LinkInv, Trusted

\* Delivery, to the interrupt routine or to the method that waits.
LEMMA DeliveryKeepsLink ==
  ASSUME LinkInv, Station!CC3000_UsynchCallback \/ Station!DeliverAnswer
  PROVE  LinkInv'
  <1>1. /\ news # <<>> /\ news' = Tail(news) /\ UNCHANGED <<joined, addressed>>
        /\ bits' = IF Head(news) \in Station!Events THEN Station!After(bits, Head(news)) ELSE bits
        /\ stale' = (stale /\ Head(news) # "DISCONNECT")
    BY DEF Station!CC3000_UsynchCallback, Station!DeliverAnswer, Station!chip, Station!object,
           Station!Events, LinkInv
  <1>2. /\ Station!Settled("CONNECT", "IsConnected")' <=> Station!Settled("CONNECT", "IsConnected")
        /\ Station!Settled("DHCP", "HasDHCP")' <=> Station!Settled("DHCP", "HasDHCP")
        /\ news' \in Seq(News)
        /\ Trusted' => Trusted
    BY <1>1, DeliveryKeepsPromise DEF Sets, Trusted
  <1> QED  BY <1>1, <1>2 DEF LinkInv

\* The chip tells of every change of the link, in order.
LEMMA ChipKeepsLink ==
  ASSUME LinkInv, Station!Chip
  PROVE  LinkInv'
  <1> USE DEF Station!Sends, Station!chip, Station!object
  <1>1. ASSUME NEW what \in {"ok", "error"}, news' = Append(news, what),
               UNCHANGED <<bits, joined, addressed, stale>>
        PROVE  LinkInv'
    <2>1. /\ Station!Settled("CONNECT", "IsConnected")' <=> Station!Settled("CONNECT", "IsConnected")
          /\ Station!Settled("DHCP", "HasDHCP")' <=> Station!Settled("DHCP", "HasDHCP")
          /\ news' \in Seq(News)
          /\ Trusted' <=> Trusted
      BY <1>1, AnswerSaysNothing DEF Trusted, Station!Events
    <2> QED  BY <1>1, <2>1 DEF LinkInv
  <1>2. ASSUME news' = Append(news, "CONNECT"), joined' = TRUE,
               UNCHANGED <<bits, addressed, stale>>
        PROVE  LinkInv'
    <2>1. /\ Station!Settled("CONNECT", "IsConnected")'
          /\ Station!Settled("DHCP", "HasDHCP")' <=> Station!Settled("DHCP", "HasDHCP")
          /\ news' \in Seq(News)
          /\ Trusted' <=> Trusted
      BY <1>2, EventSetsItsBit DEF Trusted, Station!Events
    <2> QED  BY <1>2, <2>1 DEF LinkInv
  <1>3. ASSUME news' = Append(news, "DHCP"), addressed' = TRUE,
               UNCHANGED <<bits, joined, stale>>
        PROVE  LinkInv'
    <2>1. /\ Station!Settled("CONNECT", "IsConnected")' <=> Station!Settled("CONNECT", "IsConnected")
          /\ Station!Settled("DHCP", "HasDHCP")'
          /\ news' \in Seq(News)
          /\ Trusted' <=> Trusted
      BY <1>3, EventSetsItsBit DEF Trusted, Station!Events
    <2> QED  BY <1>3, <2>1 DEF LinkInv
  <1>4. ASSUME news' = Append(news, "DONE"), UNCHANGED <<bits, joined, addressed, stale>>
        PROVE  LinkInv'
    <2>1. /\ Station!Settled("CONNECT", "IsConnected")' <=> Station!Settled("CONNECT", "IsConnected")
          /\ Station!Settled("DHCP", "HasDHCP")' <=> Station!Settled("DHCP", "HasDHCP")
          /\ news' \in Seq(News)
          /\ Trusted' <=> Trusted
      <3>1. "DONE" # "CONNECT" /\ "DONE" # "DHCP"
        OBVIOUS
      <3> QED  BY <1>4, <3>1, EventSetsItsBit DEF Trusted, Station!Events
    <2> QED  BY <1>4, <2>1 DEF LinkInv
  <1>5. ASSUME news' \in Seq(News), NEW k \in 1..Len(news'), news'[k] = "DISCONNECT",
               \A j \in k+1..Len(news') : news'[j] \notin Station!Events,
               joined' = FALSE, addressed' = FALSE, UNCHANGED stale
        PROVE  LinkInv'
    <2>1. /\ ~Station!Settled("CONNECT", "IsConnected")'
          /\ ~Station!Settled("DHCP", "HasDHCP")'
      BY <1>5, LossIsLastWord DEF Station!Events
    <2> QED  BY <1>5, <2>1 DEF LinkInv
  <1>6. CASE Station!ChipAnswers
    <2> DEFINE n == Len(news)
    <2>1. UNCHANGED <<bits, initialised, stale>> /\ n \in Nat
      BY <1>6 DEF Station!ChipAnswers, LinkInv
    <2>2. CASE /\ news' = news \o <<"ok", "DISCONNECT">>
               /\ joined' = FALSE /\ addressed' = FALSE
      <3>1. /\ news' \in Seq(News) /\ Len(news') = n + 2
            /\ news'[n + 2] = "DISCONNECT"
        BY <2>2 DEF LinkInv, News, Station!Events
      <3>2. n + 2 \in 1..Len(news') /\ \A j \in (n+2)+1..Len(news') : FALSE
        BY <3>1, <2>1
      <3> QED  BY <2>1, <2>2, <3>1, <3>2, <1>5
    <2>3. CASE /\ news' = news \o <<"DISCONNECT", "ok">>
               /\ joined' = FALSE /\ addressed' = FALSE
      <3>1. /\ news' \in Seq(News) /\ Len(news') = n + 2
            /\ news'[n + 1] = "DISCONNECT" /\ news'[n + 2] = "ok"
        BY <2>3 DEF LinkInv, News, Station!Events
      <3>2. /\ n + 1 \in 1..Len(news')
            /\ \A j \in (n+1)+1..Len(news') : news'[j] \notin Station!Events
        BY <3>1, <2>1 DEF Station!Events
      <3> QED  BY <2>1, <2>3, <3>1, <3>2, <1>5
    <2>4. CASE \E what \in {"ok", "error"} : /\ news' = Append(news, what)
                                             /\ UNCHANGED <<joined, addressed>>
      BY <2>1, <2>4, <1>1
    <2>5. \A what : news \o <<what>> = Append(news, what)
      BY DEF LinkInv
    <2> QED  BY <1>6, <2>2, <2>3, <2>4, <2>5 DEF Station!ChipAnswers
  <1>7. CASE Station!ChipJoins
    BY <1>2, <1>7 DEF Station!ChipJoins, LinkInv
  <1>8. CASE Station!ChipGetsAddress
    BY <1>3, <1>8 DEF Station!ChipGetsAddress, LinkInv
  <1>9. CASE Station!ChipLosesLink
    <2>1. /\ news' \in Seq(News) /\ Len(news') = Len(news) + 1
          /\ news'[Len(news) + 1] = "DISCONNECT" /\ Len(news) \in Nat
      BY <1>9 DEF Station!ChipLosesLink, LinkInv, News, Station!Events
    <2>2. /\ Len(news) + 1 \in 1..Len(news')
          /\ \A j \in (Len(news)+1)+1..Len(news') : FALSE
      BY <2>1
    <2>3. joined' = FALSE /\ addressed' = FALSE /\ stale' = stale
      BY <1>9 DEF Station!ChipLosesLink
    <2> QED  BY <2>1, <2>2, <2>3, <1>5
  <1>10. CASE Station!ChipIsConfigured
    BY <1>4, <1>10 DEF Station!ChipIsConfigured, LinkInv
  <1> QED  BY <1>6, <1>7, <1>8, <1>9, <1>10 DEF Station!Chip

\* Every step keeps it, those of the clients because they leave it alone.
LEMMA LinkStep ==
  ASSUME LinkInv, [Next]_allVars
  PROVE  LinkInv'
  <1> USE DEF stationVars, Station!object, Station!chip
  <1>1. CASE OnStation /\ Station!Main
    <2>1. CASE Station!Clear
      BY <2>1, ClearKeepsPromise
    <2>2. CASE Station!wlan_stop
      BY <2>2, StopKeepsPromise
    <2>3. CASE \/ Station!Begin \/ Station!End \/ Station!Ask \/ Station!Answered
               \/ Station!Waits \/ Station!Attempt \/ Station!Tests
               \/ Station!SetInitialised \/ Station!wlan_start
      <3>1. UNCHANGED <<bits, joined, addressed, news, stale>>
        BY <2>3 DEF Station!Begin, Station!End, Station!Ask, Station!Answered, Station!Waits,
                    Station!Attempt, Station!Tests, Station!SetInitialised, Station!wlan_start
      <3> QED  BY <3>1, LinkUntouched DEF LinkInv
    <2> QED  BY <1>1, <2>1, <2>2, <2>3 DEF Station!Main
  <1>2. CASE OnStation /\ (Station!CC3000_UsynchCallback \/ Station!DeliverAnswer)
    BY <1>2, DeliveryKeepsLink
  <1>3. CASE OnStation /\ Station!Chip
    BY <1>3, ChipKeepsLink
  <1>4. CASE OnClients \/ UNCHANGED allVars
    BY <1>4, LinkUntouched DEF OnClients, allVars, LinkInv
  <1> QED  BY <1>1, <1>2, <1>3, <1>4 DEF Next, Station!Next

\* At first there is no link and no bit.
LEMMA InitLink == Init => LinkInv
  <1> SUFFICES ASSUME Init PROVE LinkInv
    OBVIOUS
  <1>1. /\ news = <<>> /\ bits = {} /\ stale = FALSE /\ joined = FALSE /\ addressed = FALSE
    BY DEF Init, Station!Init
  <1>2. news \in Seq(News) /\ Len(news) = 0
    BY <1>1
  <1>3. \A event, bit : ~Station!Settled(event, bit)
    BY <1>1, <1>2 DEF Station!Settled
  <1> QED  BY <1>1, <1>2, <1>3 DEF LinkInv, Trusted

\* Once the events on their way have come in, the bits of the class say what is
\* true of the link, however often it comes and goes and whatever the methods
\* do: unless a method cleared or outlived them (Adafruit_CC3000.cpp
\* CC3000_UsynchCallback, stop, reboot, startSmartConfig).
THEOREM BitsTellTheLink == Spec => []BitsFollowLink
  <1>1. LinkInv => BitsFollowLink
    BY DEF LinkInv, Trusted, BitsFollowLink, Station!BitsFollowLink, Station!Settled
  <1> QED  BY <1>1, InitLink, LinkStep, PTL DEF Spec

-----------------------------------------------------------------------------
(* The clients and their sockets: the inductive invariant.                 *)

\* What a method has for the answer to its call, delivered or on its way.
Has(n) == IF call = Clients!Idle THEN ret = n
          ELSE \E i \in 1..Len(transit) : transit[i] = [what |-> "answer", sd |-> n]

\* The call has not been answered.
Open(fn) == call # Clients!Idle /\ Clients!Asked(fn)

\* The sets the variables range over.
Refs     == Sds \cup {Clients!None}
Answers  == Sds \cup {Clients!GONE, -2, -1, 0, 1}
Opens    == {"TCP", "UDP", "connect"}
Loops    == {"accept", "index", "write"}
States   == {"free", "new", "up", "listening"}
Served   == 1..MAX_SERVER_CLIENTS

\* What each variable can hold, but for the place of the main program.
Types ==
  /\ ret \in Answers /\ sd \in Refs /\ listener \in Refs
  /\ client \in [Clients!Clients -> [sock : Refs, buffered : {0, 1}]]
  /\ via \in [Clients!Clients -> {"none", "fresh", "stale"}]
  /\ closed \subseteq Sds /\ dropped \subseteq Sds /\ late \in BOOLEAN
  /\ transit \in Seq([what : {"answer", "close"}, sd : Answers])
  /\ sock \in [Sds -> [state : States, data : {0, 1}, gone : BOOLEAN]]

\* Where a method is, and what it can be waiting for there.
Rests(l, hows, selves) == at = l /\ how \in hows /\ self \in selves /\ call = Clients!Idle
Waits(l, fn, s, hows, selves) ==
  /\ at = l /\ how \in hows /\ self \in selves
  /\ call \in {Clients!Idle, [fn |-> fn, sd |-> s]}

\* Where it is in a method that opens sockets, and what it has in hand there.
Opening ==
  \/ Waits("resolved", "gethostbyname", Clients!None, {"none"}, {0}) /\ sd = Clients!None
  \/ /\ \/ Waits("opened", "socket", Clients!None, Opens, {0}) /\ sd = Clients!None
        \/ Waits("connected", "connect", sd, Opens, {0}) /\ sd \in Sds
        \/ Waits("unlinked", "closesocket", sd, Opens, {0}) /\ sd \in Sds
     /\ how # "connect" => client[0].sock = Clients!None
  \/ /\ Waits("begin", Clients!Steps[self], sd, {"begin"}, 1..5)
     /\ listener = Clients!None
     /\ sd \in IF self < 3 THEN {Clients!None} ELSE Sds

\* The socket of the client it works on.
Mine == client[self].sock

\* Where it is in a method of a client that has been opened, and in the sketch.
Using ==
  /\ sd = Clients!None
  /\ \/ Rests("test", {"connected"}, Clients!Clients) \/ Rests("test", Loops, Served)
     \/ /\ \/ Waits("selected", "select", Mine, {"connected"}, Clients!Clients)
           \/ Waits("selected", "select", Mine, Loops, Served)
           \/ Waits("over", "closesocket", Mine, {"connected"}, Clients!Clients)
           \/ Waits("over", "closesocket", Mine, Loops, Served)
        /\ Mine # Clients!None
     \/ Rests("available", {"available"}, Clients!Clients) \/ Rests("available", {"index"}, Served)
     \/ Waits("counted", "select", Mine, {"available"}, Clients!Clients)
     \/ Waits("counted", "select", Mine, {"index"}, Served)
     \/ Waits("received", "recv", Mine, {"read", "peek", "readBuf"}, Clients!Clients)
     \/ Waits("shut", "closesocket", Mine, {"none", "read", "peek"}, Clients!Clients)
     \/ Rests("next", Loops, Served)
     \/ Waits("accepted", "accept", listener, {"accept"}, Served) /\ Mine = Clients!None
     \/ Waits("written", "send", Mine, {"write"}, Served)
     \/ \E s \in Refs : Waits("sent", "send", s, {"none"}, {0})
     \/ Rests("sketch", {"none"}, {0})

\* At most one answer is on its way, and none without a call.
OneAnswer ==
  \A i, j \in 1..Len(transit) :
    transit[i].what = "answer" =>
       /\ call # Clients!Idle
       /\ transit[j].what = "answer" => i = j

\* No one has the socket.
Unheld(s) == /\ \A c \in Clients!Clients : client[c].sock # s
             /\ listener # s /\ sd # s /\ s \notin dropped

\* Where a socket is opened.
Awaits == at \in {"opened", "accepted"} \/ (at = "begin" /\ self = 2)

\* What the answer n says, and what the chip has done for it.
Says(n) ==
  /\ Awaits => \/ n = IF at = "accepted" THEN -2 ELSE -1
               \/ n \in Sds /\ Clients!IsOpen(n) /\ Unheld(n)
                  /\ (at = "accepted" \/ ~Clients!IsUp(n))
  /\ at = "connected" => n \in {0, -1}
  /\ at \in {"selected", "counted"} => n \in {0, 1}
  /\ at = "selected" /\ n = 0 => sock[Mine].data = 0 \/ late
  /\ at = "received" => n \in {1, 0, -1, Clients!GONE}
  /\ at = "unlinked" => ~Clients!IsOpen(sd)
  /\ at \in {"over", "shut"} => ~Clients!IsOpen(Mine)
\* Every answer is true, delivered or on its way.
Truth == \A n \in Answers : Has(n) => Says(n)

\* Whose socket is open; what belongs to two is never closed.
Holding ==
  /\ \A c \in Clients!Clients :
       client[c].sock # Clients!None =>
         /\ Clients!IsOpen(client[c].sock) \/ (c = self /\ at \in {"over", "shut"})
         /\ client[c].sock \notin {listener, sd} \cup dropped
         /\ \A d \in Clients!Clients : client[d].sock = client[c].sock => d = c
  /\ listener # Clients!None => Clients!IsOpen(listener) /\ listener # sd
  /\ \A s \in dropped : Clients!IsOpen(s)
  /\ sd # Clients!None => /\ sd \notin dropped
                          /\ Clients!IsOpen(sd) \/ at = "unlinked"

\* And an open one is someone's.
Owned ==
  \A s \in Sds : Clients!IsOpen(s) => ~Unheld(s) \/ (Awaits /\ Has(s))

\* A socket that is not connected has no data, and its peer has not gone.
Quiet == \A s \in Sds : ~Clients!IsUp(s) => sock[s].data = 0 /\ ~sock[s].gone

\* While it is being connected, or told to listen, a socket is not up.
Virgin == /\ Open("connect") => ~Clients!IsUp(sd)
          /\ at = "begin" /\ sd # Clients!None => ~Clients!IsUp(sd)

\* An event on its way tells of the connection that there is, unless the
\* answer to its closing comes after it.
Current ==
  \A i \in 1..Len(transit) :
    transit[i].what = "close" =>
      /\ transit[i].sd \in Sds
      /\ \/ Clients!IsUp(transit[i].sd) /\ sock[transit[i].sd].gone
         \/ /\ call = [fn |-> "closesocket", sd |-> transit[i].sd]
            /\ \E j \in i+1..Len(transit) : transit[j].what = "answer"
      /\ \A j \in 1..Len(transit) : transit[j] = transit[i] => j = i

\* The flag of a client, and of a socket that is being connected.
FlagInv ==
  /\ Clients!FlagIsOwn
  /\ at = "connected" /\ how # "UDP" /\ sd \in closed
       => Clients!IsUp(sd) /\ sock[sd].gone

\* The main program is at one of these places.
StageInv == Opening \/ Using

-----------------------------------------------------------------------------
(* The clients: the main program's steps.                                  *)

\* What the answer says, once it has been delivered.
LEMMA Delivered ==
  ASSUME Types, Truth, call = Clients!Idle
  PROVE  /\ Awaits => \/ ret = IF at = "accepted" THEN -2 ELSE -1
                      \/ ret \in Sds /\ Clients!IsOpen(ret) /\ Unheld(ret)
                         /\ (at = "accepted" \/ ~Clients!IsUp(ret))
         /\ at = "connected" => ret \in {0, -1}
         /\ at \in {"selected", "counted"} => ret \in {0, 1}
         /\ at = "selected" /\ ret = 0 => sock[Mine].data = 0 \/ late
         /\ at = "received" => ret \in {1, 0, -1, Clients!GONE}
         /\ at = "unlinked" => ~Clients!IsOpen(sd)
         /\ at \in {"over", "shut"} => ~Clients!IsOpen(Mine)
  BY DEF Types, Truth, Says, Has

\* Where a method can be, and with which call, after each step of it.
LEMMA StageStep ==
  ASSUME Types, StageInv, Truth, Clients!Main
  PROVE  StageInv'
  <1> USE DEF StageInv, Clients!At, Clients!Go, Clients!Invoke, Clients!Leave,
              Clients!Return, Clients!Within, Clients!Idle, Clients!None, Clients!object,
              Rests, Waits
  <1>1. CASE Clients!connectTCP
    BY <1>1, Delivered, ServedAssumption
       DEF Clients!connectTCP, Opening, Using, Mine, Opens, Loops, Served, Clients!Clients, Types
  <1>2. CASE Clients!connect
    BY <1>2, Delivered, ServedAssumption
       DEF Clients!connect, Opening, Using, Mine, Opens, Loops, Served, Clients!Clients, Types
  <1>3. CASE Clients!connectHost
    BY <1>3, Delivered, ServedAssumption
       DEF Clients!connectHost, Opening, Using, Mine, Opens, Loops, Served, Clients!Clients, Types
  <1>4. CASE Clients!Unresolved
    BY <1>4, Delivered, ServedAssumption
       DEF Clients!Unresolved, Opening, Using, Mine, Opens, Loops, Served, Clients!Clients, Types
  <1>5. CASE Clients!Opened
    BY <1>5, Delivered, ServedAssumption
       DEF Clients!Opened, Opening, Using, Mine, Opens, Loops, Served, Clients!Clients, Types,
           Clients!ForgetClose, Awaits
  <1>6. CASE Clients!NotOpened
    BY <1>6, Delivered, ServedAssumption
       DEF Clients!NotOpened, Opening, Using, Mine, Opens, Loops, Served, Clients!Clients, Types
  <1>7. CASE Clients!Linked
    BY <1>7, Delivered, ServedAssumption
       DEF Clients!Linked, Opening, Using, Mine, Opens, Loops, Served, Clients!Clients, Types
  <1>8. CASE Clients!NotLinked
    BY <1>8, Delivered, ServedAssumption
       DEF Clients!NotLinked, Opening, Using, Mine, Opens, Loops, Served, Clients!Clients, Types
  <1>9. CASE Clients!Unlinked
    BY <1>9, Delivered, ServedAssumption
       DEF Clients!Unlinked, Opening, Using, Mine, Opens, Loops, Served, Clients!Clients, Types
  <1>10. CASE Clients!begin
    BY <1>10, Delivered, ServedAssumption
       DEF Clients!begin, Opening, Using, Mine, Opens, Loops, Served, Clients!Clients, Types
  <1>11. CASE Clients!beginStep
    BY <1>11, Delivered, ServedAssumption
       DEF Clients!beginStep, Opening, Using, Mine, Opens, Loops, Served, Clients!Clients, Types,
           Clients!Steps, Awaits
  <1>12. CASE Clients!connected
    BY <1>12, Delivered, ServedAssumption
       DEF Clients!connected, Opening, Using, Mine, Opens, Loops, Served, Clients!Clients, Types
  <1>13. CASE Clients!TestAtOnce
    BY <1>13, Delivered, ServedAssumption
       DEF Clients!TestAtOnce, Opening, Using, Mine, Opens, Loops, Served, Clients!Clients, Types,
           Clients!Resume, Clients!HasNone, Clients!Buffered
  <1>14. CASE Clients!TestSelects
    BY <1>14, Delivered, ServedAssumption
       DEF Clients!TestSelects, Opening, Using, Mine, Opens, Loops, Served, Clients!Clients,
           Types, Clients!Resume, Clients!HasNone, Clients!Buffered
  <1>15. CASE Clients!TestStillOpen
    BY <1>15, Delivered, ServedAssumption
       DEF Clients!TestStillOpen, Opening, Using, Mine, Opens, Loops, Served, Clients!Clients,
           Types, Clients!Resume, Clients!HasNone, Clients!Buffered
  <1>16. CASE Clients!TestCloses
    BY <1>16, Delivered, ServedAssumption
       DEF Clients!TestCloses, Opening, Using, Mine, Opens, Loops, Served, Clients!Clients, Types
  <1>17. CASE Clients!TestClosed
    BY <1>17, Delivered, ServedAssumption
       DEF Clients!TestClosed, Opening, Using, Mine, Opens, Loops, Served, Clients!Clients, Types,
           Clients!Resume, Clients!HasNone, Clients!Buffered
  <1>18. CASE Clients!available
    BY <1>18, Delivered, ServedAssumption
       DEF Clients!available, Opening, Using, Mine, Opens, Loops, Served, Clients!Clients, Types
  <1>19. CASE Clients!AvailableAtOnce
    BY <1>19, Delivered, ServedAssumption
       DEF Clients!AvailableAtOnce, Opening, Using, Mine, Opens, Loops, Served, Clients!Clients,
           Types
  <1>20. CASE Clients!AvailableSelects
    BY <1>20, Delivered, ServedAssumption
       DEF Clients!AvailableSelects, Opening, Using, Mine, Opens, Loops, Served, Clients!Clients,
           Types
  <1>21. CASE Clients!Counted
    BY <1>21, Delivered, ServedAssumption
       DEF Clients!Counted, Opening, Using, Mine, Opens, Loops, Served, Clients!Clients, Types
  <1>22. CASE Clients!readBuffered
    BY <1>22, Delivered, ServedAssumption
       DEF Clients!readBuffered, Opening, Using, Mine, Opens, Loops, Served, Clients!Clients,
           Types
  <1>23. CASE Clients!read
    BY <1>23, Delivered, ServedAssumption
       DEF Clients!read, Opening, Using, Mine, Opens, Loops, Served, Clients!Clients, Types
  <1>24. CASE Clients!Filled
    BY <1>24, Delivered, ServedAssumption
       DEF Clients!Filled, Opening, Using, Mine, Opens, Loops, Served, Clients!Clients, Types
  <1>25. CASE Clients!NotFilled
    BY <1>25, Delivered, ServedAssumption
       DEF Clients!NotFilled, Opening, Using, Mine, Opens, Loops, Served, Clients!Clients, Types
  <1>26. CASE Clients!write
    BY <1>26, Delivered, ServedAssumption
       DEF Clients!write, Opening, Using, Mine, Opens, Loops, Served, Clients!Clients, Types, Refs
  <1>27. CASE Clients!close
    BY <1>27, Delivered, ServedAssumption
       DEF Clients!close, Opening, Using, Mine, Opens, Loops, Served, Clients!Clients, Types
  <1>28. CASE Clients!Shut
    BY <1>28, Delivered, ServedAssumption
       DEF Clients!Shut, Opening, Using, Mine, Opens, Loops, Served, Clients!Clients, Types
  <1>29. CASE Clients!serve
    BY <1>29, Delivered, ServedAssumption
       DEF Clients!serve, Opening, Using, Mine, Opens, Loops, Served, Clients!Clients, Types
  <1>30. CASE Clients!NextClient
    BY <1>30, Delivered, ServedAssumption
       DEF Clients!NextClient, Opening, Using, Mine, Opens, Loops, Served, Clients!Clients, Types
  <1>31. CASE Clients!Accepted
    BY <1>31, Delivered, ServedAssumption
       DEF Clients!Accepted, Opening, Using, Mine, Opens, Loops, Served, Clients!Clients, Types
  <1>32. CASE Clients!Written
    BY <1>32, Delivered, ServedAssumption
       DEF Clients!Written, Opening, Using, Mine, Opens, Loops, Served, Clients!Clients, Types
  <1> QED  BY <1>1, <1>2, <1>3, <1>4, <1>5, <1>6, <1>7, <1>8, <1>9, <1>10, <1>11, <1>12, <1>13,
              <1>14, <1>15, <1>16, <1>17, <1>18, <1>19, <1>20, <1>21, <1>22, <1>23, <1>24, <1>25,
              <1>26, <1>27, <1>28, <1>29, <1>30, <1>31, <1>32
              DEF Clients!Main

\* The types after each step of the main program.
LEMMA MainTypes ==
  ASSUME Types, StageInv, Truth, Clients!Main
  PROVE  Types'
  <1> USE SocketsAssumption, ServedAssumption
      DEF Types, Clients!At, Clients!Go, Clients!Invoke, Clients!Leave, Clients!Return,
          Clients!Within, Clients!Idle, Clients!None, Clients!object, Refs, Answers
  <1>1. CASE Clients!connectTCP
    BY <1>1, Delivered
       DEF Clients!connectTCP, StageInv, Opening, Using, Rests, Waits, Mine, Clients!Clients
  <1>2. CASE Clients!connect
    BY <1>2, Delivered
       DEF Clients!connect, StageInv, Opening, Using, Rests, Waits, Mine, Clients!Clients
  <1>3. CASE Clients!connectHost
    BY <1>3, Delivered
       DEF Clients!connectHost, StageInv, Opening, Using, Rests, Waits, Mine, Clients!Clients
  <1>4. CASE Clients!Unresolved
    BY <1>4, Delivered
       DEF Clients!Unresolved, StageInv, Opening, Using, Rests, Waits, Mine, Clients!Clients
  <1>5. CASE Clients!Opened
    BY <1>5, Delivered
       DEF Clients!Opened, StageInv, Opening, Using, Rests, Waits, Mine, Clients!Clients,
           Clients!ForgetClose, Awaits
  <1>6. CASE Clients!NotOpened
    <2>1. 0 \in Clients!Clients /\ self = 0
      BY <1>6, Delivered
         DEF Clients!NotOpened, StageInv, Opening, Using, Rests, Waits, Mine, Clients!Clients
    <2>2. client' \in [Clients!Clients -> [sock : Refs, buffered : {0, 1}]]
      BY <1>6, <2>1 DEF Clients!NotOpened, Clients!Without
    <2> QED  BY <1>6, <2>2 DEF Clients!NotOpened
  <1>7. CASE Clients!Linked
    <2>1. 0 \in Clients!Clients /\ self = 0 /\ sd \in Sds
      BY <1>7, Delivered
         DEF Clients!Linked, StageInv, Opening, Using, Rests, Waits, Mine, Clients!Clients
    <2>2. client' \in [Clients!Clients -> [sock : Refs, buffered : {0, 1}]]
      BY <1>7, <2>1 DEF Clients!Linked
    <2>3. via' \in [Clients!Clients -> {"none", "fresh", "stale"}] /\ dropped' \subseteq Sds
      BY <1>7, <2>1 DEF Clients!Linked, Clients!Holds
    <2> QED  BY <1>7, <2>2, <2>3 DEF Clients!Linked
  <1>8. CASE Clients!NotLinked
    BY <1>8, Delivered
       DEF Clients!NotLinked, StageInv, Opening, Using, Rests, Waits, Mine, Clients!Clients
  <1>9. CASE Clients!Unlinked
    <2>1. 0 \in Clients!Clients /\ self = 0
      BY <1>9, Delivered
         DEF Clients!Unlinked, StageInv, Opening, Using, Rests, Waits, Mine, Clients!Clients
    <2>2. client' \in [Clients!Clients -> [sock : Refs, buffered : {0, 1}]]
      BY <1>9, <2>1 DEF Clients!Unlinked, Clients!Without
    <2> QED  BY <1>9, <2>2 DEF Clients!Unlinked
  <1>10. CASE Clients!begin
    BY <1>10, Delivered
       DEF Clients!begin, StageInv, Opening, Using, Rests, Waits, Mine, Clients!Clients,
           Clients!Steps
  <1>11. CASE Clients!beginStep
    <2>1. ret \in Answers /\ (ret >= 0 /\ self = 2 => ret \in Sds)
      BY <1>11, Delivered DEF Clients!beginStep, Awaits
    <2>2. self \in 1..5 /\ Clients!Steps[2] = "socket" /\ Len(Clients!Steps) = 5
          /\ Clients!Steps[1] # "socket" /\ Clients!Steps[3] # "socket"
          /\ Clients!Steps[4] # "socket" /\ Clients!Steps[5] # "socket"
      BY <1>11
         DEF Clients!beginStep, Clients!Steps, StageInv, Opening, Using, Rests, Waits, Mine,
             Clients!Clients
    <2>3. sd' \in {sd, Clients!None} \/ (sd' = ret /\ ret >= 0 /\ self = 2)
      BY <1>11, <2>2 DEF Clients!beginStep
    <2>4. listener' \in {listener, sd} /\ ret' = 0 /\ late' = FALSE
      BY <1>11 DEF Clients!beginStep
    <2>5. dropped' \subseteq Sds
      BY <1>11 DEF Clients!beginStep, Clients!Holds
    <2> QED  BY <1>11, <2>1, <2>3, <2>4, <2>5 DEF Clients!beginStep
  <1>12. CASE Clients!connected
    BY <1>12, Delivered
       DEF Clients!connected, StageInv, Opening, Using, Rests, Waits, Mine, Clients!Clients
  <1>13. CASE Clients!TestAtOnce
    BY <1>13, Delivered
       DEF Clients!TestAtOnce, StageInv, Opening, Using, Rests, Waits, Mine, Clients!Clients,
           Clients!Resume
  <1>14. CASE Clients!TestSelects
    BY <1>14, Delivered
       DEF Clients!TestSelects, StageInv, Opening, Using, Rests, Waits, Mine, Clients!Clients,
           Clients!Resume
  <1>15. CASE Clients!TestStillOpen
    BY <1>15, Delivered
       DEF Clients!TestStillOpen, StageInv, Opening, Using, Rests, Waits, Mine, Clients!Clients,
           Clients!Resume
  <1>16. CASE Clients!TestCloses
    BY <1>16, Delivered
       DEF Clients!TestCloses, StageInv, Opening, Using, Rests, Waits, Mine, Clients!Clients
  <1>17. CASE Clients!TestClosed
    BY <1>17, Delivered
       DEF Clients!TestClosed, StageInv, Opening, Using, Rests, Waits, Mine, Clients!Clients,
           Clients!Resume
  <1>18. CASE Clients!available
    BY <1>18, Delivered
       DEF Clients!available, StageInv, Opening, Using, Rests, Waits, Mine, Clients!Clients
  <1>19. CASE Clients!AvailableAtOnce
    BY <1>19, Delivered
       DEF Clients!AvailableAtOnce, StageInv, Opening, Using, Rests, Waits, Mine, Clients!Clients
  <1>20. CASE Clients!AvailableSelects
    BY <1>20, Delivered
       DEF Clients!AvailableSelects, StageInv, Opening, Using, Rests, Waits, Mine, Clients!Clients
  <1>21. CASE Clients!Counted
    BY <1>21, Delivered
       DEF Clients!Counted, StageInv, Opening, Using, Rests, Waits, Mine, Clients!Clients
  <1>22. CASE Clients!readBuffered
    <2>1. PICK c \in Clients!Clients, consume \in BOOLEAN :
             /\ client[c].buffered > 0
             /\ client' = IF consume THEN [client EXCEPT ![c].buffered = @ - 1] ELSE client
      BY <1>22 DEF Clients!readBuffered
    <2>2. client[c] \in [sock : Refs, buffered : {0, 1}] /\ client[c].buffered = 1
      BY <2>1
    <2>3. client' \in [Clients!Clients -> [sock : Refs, buffered : {0, 1}]]
      BY <2>1, <2>2
    <2> QED  BY <1>22, <2>3 DEF Clients!readBuffered
  <1>23. CASE Clients!read
    BY <1>23, Delivered
       DEF Clients!read, StageInv, Opening, Using, Rests, Waits, Mine, Clients!Clients
  <1>24. CASE Clients!Filled
    <2>1. self \in Clients!Clients /\ ret = 1
      BY <1>24, Delivered
         DEF Clients!Filled, Clients!GONE, StageInv, Opening, Using, Rests, Waits, Mine,
             Clients!Clients
    <2>2. client' \in [Clients!Clients -> [sock : Refs, buffered : {0, 1}]]
      <3>1. (IF how = "peek" THEN ret ELSE ret - 1) \in {0, 1}
        BY <2>1
      <3> QED  BY <1>24, <2>1, <3>1 DEF Clients!Filled
    <2> QED  BY <1>24, <2>2 DEF Clients!Filled
  <1>25. CASE Clients!NotFilled
    BY <1>25, Delivered
       DEF Clients!NotFilled, StageInv, Opening, Using, Rests, Waits, Mine, Clients!Clients
  <1>26. CASE Clients!write
    BY <1>26, Delivered
       DEF Clients!write, StageInv, Opening, Using, Rests, Waits, Mine, Clients!Clients
  <1>27. CASE Clients!close
    BY <1>27, Delivered
       DEF Clients!close, StageInv, Opening, Using, Rests, Waits, Mine, Clients!Clients
  <1>28. CASE Clients!Shut
    BY <1>28, Delivered
       DEF Clients!Shut, StageInv, Opening, Using, Rests, Waits, Mine, Clients!Clients
  <1>29. CASE Clients!serve
    BY <1>29, Delivered
       DEF Clients!serve, StageInv, Opening, Using, Rests, Waits, Mine, Clients!Clients
  <1>30. CASE Clients!NextClient
    BY <1>30, Delivered
       DEF Clients!NextClient, StageInv, Opening, Using, Rests, Waits, Mine, Clients!Clients
  <1>31. CASE Clients!Accepted
    <2>1. self \in Clients!Clients /\ (ret > -1 => ret \in Sds)
      BY <1>31, Delivered
         DEF Clients!Accepted, Awaits, Served, StageInv, Opening, Using, Rests, Waits, Mine,
             Clients!Clients
    <2>2. CASE ret > -1
      <3>1. client' \in [Clients!Clients -> [sock : Refs, buffered : {0, 1}]]
        BY <1>31, <2>1, <2>2 DEF Clients!Accepted
      <3>2. via' \in [Clients!Clients -> {"none", "fresh", "stale"}]
        BY <1>31, <2>1, <2>2 DEF Clients!Accepted
      <3> QED  BY <1>31, <3>1, <3>2 DEF Clients!Accepted
    <2>3. CASE ~(ret > -1)
      BY <1>31, <2>3 DEF Clients!Accepted
    <2> QED  BY <2>2, <2>3
  <1>32. CASE Clients!Written
    BY <1>32, Delivered
       DEF Clients!Written, StageInv, Opening, Using, Rests, Waits, Mine, Clients!Clients
  <1> QED  BY <1>1, <1>2, <1>3, <1>4, <1>5, <1>6, <1>7, <1>8, <1>9, <1>10, <1>11, <1>12, <1>13,
              <1>14, <1>15, <1>16, <1>17, <1>18, <1>19, <1>20, <1>21, <1>22, <1>23, <1>24, <1>25,
              <1>26, <1>27, <1>28, <1>29, <1>30, <1>31, <1>32
              DEF Clients!Main

\* What every step of the main program does and leaves alone: it begins when
\* the last call has returned, drops that answer, and touches neither the chip
\* nor what is on its way.
LEMMA MainFrame ==
  ASSUME StageInv, Clients!Main
  PROVE  /\ call = Clients!Idle
         /\ ret' = 0 /\ late' = FALSE
         /\ transit' = transit /\ sock' = sock
         /\ call' = Clients!Idle => at' \in {"test", "available", "next", "sketch"}
         /\ closed' \subseteq closed
  <1> USE DEF Clients!At, Clients!Go, Clients!Invoke, Clients!Leave, Clients!Return, Clients!Idle
  <1>1. CASE Clients!connectTCP \/ Clients!connect \/ Clients!connectHost \/
                Clients!Unresolved \/ Clients!Opened \/ Clients!NotOpened \/
                Clients!Linked \/ Clients!NotLinked \/ Clients!Unlinked
    BY <1>1 DEF Clients!connectTCP, Clients!connect, Clients!connectHost,
       Clients!Unresolved, Clients!Opened, Clients!NotOpened, Clients!Linked,
       Clients!NotLinked, Clients!Unlinked, Clients!ForgetClose
  <1>2. CASE Clients!connected \/ Clients!TestAtOnce \/ Clients!TestSelects \/
                Clients!TestStillOpen \/ Clients!TestCloses \/ Clients!TestClosed \/
                Clients!available \/ Clients!AvailableAtOnce \/
                Clients!AvailableSelects \/ Clients!Counted
    BY <1>2 DEF Clients!connected, Clients!TestAtOnce, Clients!TestSelects,
       Clients!TestStillOpen, Clients!TestCloses, Clients!TestClosed,
       Clients!available, Clients!AvailableAtOnce, Clients!AvailableSelects,
       Clients!Counted, Clients!Resume
  <1>3. CASE Clients!readBuffered \/ Clients!read \/ Clients!Filled \/
                Clients!NotFilled \/ Clients!write \/ Clients!close \/ Clients!Shut
                \/ Clients!serve \/ Clients!NextClient \/ Clients!Accepted \/
                Clients!Written
    BY <1>3 DEF Clients!readBuffered, Clients!read, Clients!Filled,
       Clients!NotFilled, Clients!write, Clients!close, Clients!Shut, Clients!serve,
       Clients!NextClient, Clients!Accepted, Clients!Written
  <1>4. CASE Clients!begin
    BY <1>4 DEF Clients!begin, Clients!Steps
  <1>5. CASE Clients!beginStep
    <2>1. self \in 1..5
      BY <1>5 DEF Clients!beginStep, StageInv, Opening, Using, Rests, Waits
    <2>2. self < 5 => Clients!Steps[self + 1] # "none"
      BY <2>1 DEF Clients!Steps
    <2>3. Len(Clients!Steps) = 5
      BY DEF Clients!Steps
    <2> QED  BY <1>5, <2>1, <2>2, <2>3 DEF Clients!beginStep
  <1> QED  BY <1>1, <1>2, <1>3, <1>4, <1>5 DEF Clients!Main

\* The answer is taken and no other is on its way; so what the invariant says
\* of answers, events and the chip's sockets is kept.
LEMMA MainKeepsAnswers ==
  ASSUME Types, StageInv, OneAnswer, Quiet, Current, Clients!Main
  PROVE  OneAnswer' /\ Truth' /\ Quiet' /\ Current' /\ \A n : ~(Awaits /\ Has(n))'
  <1>1. \A i \in 1..Len(transit) : transit[i].what # "answer"
    BY MainFrame DEF OneAnswer
  <1>2. OneAnswer'
    BY <1>1, MainFrame DEF OneAnswer
  <1>3. \A n : Has(n)' => at' \in {"test", "available", "next", "sketch"}
    BY <1>1, MainFrame DEF Has
  <1>4. Truth' /\ \A n : ~(Awaits /\ Has(n))'
    BY <1>3 DEF Truth, Says, Awaits
  <1>5. Quiet'
    BY MainFrame DEF Quiet, Clients!IsUp
  <1>6. Current'
    BY <1>1, MainFrame DEF Current, Clients!IsUp
  <1> QED  BY <1>2, <1>4, <1>5, <1>6

\* The call tells where the method is, and what for.
CallPlace ==
  /\ call.fn = "gethostbyname" => at = "resolved"
  /\ call.fn = "socket" => at = "opened" \/ (at = "begin" /\ self = 2)
  /\ call.fn = "connect" => at = "connected" /\ call.sd = sd
  /\ call.fn \in {"timeouts", "setsockopt", "bind", "listen"}
       => at = "begin" /\ self # 2 /\ call.sd = sd
  /\ call.fn = "listen" => self = 5 /\ sd \in Sds
  /\ call.fn = "closesocket" => \/ at \in {"over", "shut"} /\ call.sd = Mine
                                \/ at = "unlinked" /\ call.sd = sd
  /\ call.fn = "select" => at \in {"selected", "counted"} /\ call.sd = Mine
  /\ call.fn = "recv" => at = "received" /\ call.sd = Mine
  /\ call.fn = "accept" => at = "accepted" /\ call.sd = listener
  /\ call.fn = "send" => at \in {"written", "sent"}
  /\ at = "connected" => call.fn = "connect"
  /\ at = "selected" => call.fn = "select"

\* The call tells where the main program waits for it.
LEMMA CallTellsPlace == StageInv /\ call # Clients!Idle => CallPlace
  <1>1. \A i \in 1..5 : /\ Clients!Steps[i] = "socket" <=> i = 2
                        /\ Clients!Steps[i] = "listen" <=> i = 5
                        /\ Clients!Steps[i] \in {"timeouts", "socket", "setsockopt", "bind", "listen"}
    BY DEF Clients!Steps
  <1> QED  BY <1>1 DEF CallPlace, StageInv, Opening, Using, Rests, Waits

\* A step that gives no socket to anyone and takes none away.
Kept ==
  /\ sd' = sd /\ UNCHANGED <<listener, dropped, via, closed>>
  /\ \A c \in Clients!Clients : client'[c].sock = client[c].sock
  /\ at \notin {"over", "shut", "unlinked"}
  /\ Awaits => ret \notin Sds
  /\ at' # "connected"
  /\ at' = "begin" => at = "begin" \/ sd = Clients!None

\* They keep what the steps that move no socket have to keep.
LEMMA KeptKeeps ==
  ASSUME Types, StageInv, StageInv', Holding, Owned, Virgin, FlagInv, Clients!Main, Kept
  PROVE  Holding' /\ Owned' /\ Virgin' /\ FlagInv'
  <1> USE MainFrame DEF Kept, Clients!IsOpen, Clients!IsUp
  <1>1. Holding'
    BY DEF Holding
  <1>2. Owned'
    <2>1. \A s : Awaits /\ Has(s) => s = ret
      BY DEF Has
    <2>2. \A s : Unheld(s)' => Unheld(s)
      BY DEF Unheld
    <2> QED  BY <2>1, <2>2 DEF Owned
  <1>3. Virgin'
    <2>1. ~Open("connect")'
      <3>1. (StageInv /\ call # Clients!Idle => CallPlace)'
        BY CallTellsPlace, PTL
      <3> QED  BY <3>1 DEF CallPlace, Open, Clients!Asked
    <2>2. at' = "begin" /\ sd' # Clients!None => ~Clients!IsUp(sd)'
      BY DEF Virgin
    <2> QED  BY <2>1, <2>2 DEF Virgin
  <1>4. FlagInv'
    BY DEF FlagInv, Clients!FlagIsOwn
  <1> QED  BY <1>1, <1>2, <1>3, <1>4

\* The steps that are of that kind.
LEMMA MovesAreKept ==
  ASSUME Types, StageInv, Truth,
         Clients!connectHost \/ Clients!connectTCP \/ Clients!Unresolved \/
            Clients!NotLinked \/ Clients!begin \/ Clients!connect \/
            Clients!NotOpened \/ Clients!connected \/ Clients!TestAtOnce \/
            Clients!TestSelects \/ Clients!TestStillOpen \/ Clients!TestCloses \/
            Clients!available \/ Clients!AvailableAtOnce \/ Clients!AvailableSelects
            \/ Clients!Counted \/ Clients!readBuffered \/ Clients!Filled \/
            Clients!NotFilled \/ Clients!read \/ Clients!write \/ Clients!close \/
            Clients!serve \/ Clients!NextClient \/ Clients!Written
  PROVE  Kept
  <1> USE DEF Clients!At, Clients!Go, Clients!Invoke, Clients!Leave, Clients!Return,
              Clients!Within, Clients!Idle, Clients!None, Clients!object, Awaits, Kept
  <1>1. CASE Clients!connectHost \/ Clients!connectTCP \/ Clients!Unresolved \/
                Clients!NotLinked \/ Clients!begin
    BY <1>1 DEF Clients!connectHost, Clients!connectTCP, Clients!Unresolved,
       Clients!NotLinked, Clients!begin, StageInv, Opening, Using, Rests, Waits
  <1>2. CASE Clients!connected \/ Clients!TestAtOnce \/ Clients!TestSelects \/
                Clients!TestStillOpen \/ Clients!TestCloses \/ Clients!available \/
                Clients!AvailableAtOnce \/ Clients!AvailableSelects \/
                Clients!Counted
    BY <1>2 DEF Clients!connected, Clients!TestAtOnce, Clients!TestSelects,
       Clients!TestStillOpen, Clients!TestCloses, Clients!available,
       Clients!AvailableAtOnce, Clients!AvailableSelects, Clients!Counted,
       Clients!Resume, StageInv, Opening, Using, Rests, Waits
  <1>3. CASE Clients!read \/ Clients!write \/ Clients!close \/ Clients!serve \/
                Clients!NextClient \/ Clients!Written
    BY <1>3 DEF Clients!read, Clients!write, Clients!close, Clients!serve,
       Clients!NextClient, Clients!Written, StageInv, Opening, Using, Rests, Waits
  <1>4. CASE Clients!NotOpened
    <2>1. self = 0 /\ sd = Clients!None /\ 0 \in Clients!Clients
          /\ (how # "connect" => client[0].sock = Clients!None)
      BY <1>4, ServedAssumption
         DEF Clients!NotOpened, Clients!Clients, StageInv, Opening, Using, Rests, Waits
    <2>2. \A c \in Clients!Clients : client'[c].sock = client[c].sock
      BY <1>4, <2>1 DEF Clients!NotOpened, Clients!Without, Types
    <2> QED  BY <1>4, <2>1, <2>2, SocketsAssumption DEF Clients!NotOpened
  <1>5. CASE Clients!readBuffered \/ Clients!Filled \/ Clients!NotFilled
    <2>1. sd = Clients!None
      BY <1>5
         DEF Clients!readBuffered, Clients!Filled, Clients!NotFilled, StageInv, Opening, Using,
             Rests, Waits
    <2>2. \A c \in Clients!Clients : client'[c].sock = client[c].sock
      BY <1>5 DEF Clients!readBuffered, Clients!Filled, Clients!NotFilled, Types
    <2> QED  BY <1>5, <2>1, <2>2 DEF Clients!readBuffered, Clients!Filled, Clients!NotFilled
  <1>6. CASE Clients!connect
    <2>1. self' = 0 /\ sd = Clients!None
      BY <1>6 DEF Clients!connect, StageInv, Opening, Using, Rests, Waits
    <2>2. \A c \in Clients!Clients : client'[c].sock = client[c].sock
      BY <1>6, <2>1 DEF Clients!connect, Types
    <2> QED  BY <1>6, <2>1, <2>2 DEF Clients!connect
  <1> QED  BY <1>1, <1>2, <1>3, <1>4, <1>5, <1>6

\* The steps that give a socket to someone, or take one away.
LEMMA OpenedKeeps ==
  ASSUME Types, StageInv, Truth, Holding, Owned, FlagInv, Clients!Opened
  PROVE  Holding' /\ Owned' /\ Virgin' /\ FlagInv'
  <1>1. /\ at = "opened" /\ sd' = ret /\ at' = "connected" /\ how' = how
        /\ UNCHANGED <<client, listener, via, dropped, sock>>
        /\ call = Clients!Idle
        /\ closed' = IF how = "UDP" THEN closed ELSE closed \ {ret}
    BY DEF Clients!Opened, Clients!At, Clients!Invoke, Clients!object, Clients!ForgetClose
  <1>2. ret \in Sds /\ Clients!IsOpen(ret) /\ ~Clients!IsUp(ret) /\ Unheld(ret)
    BY <1>1, Delivered DEF Clients!Opened, Awaits
  <1>3. sd = Clients!None
    BY <1>1 DEF StageInv, Opening, Using, Rests, Waits
  <1> USE <1>1, <1>2, <1>3 DEF Clients!IsOpen, Clients!IsUp, Unheld
  <1>4. Holding'
    BY DEF Holding
  <1>5. Owned'
    <2>1. \A s \in Sds : s # ret /\ Unheld(s)' => Unheld(s)
      BY SocketsAssumption DEF Clients!None
    <2>2. \A s : Has(s) => s = ret
      BY DEF Has
    <2> QED  BY <2>1, <2>2 DEF Owned
  <1>6. Virgin'
    BY DEF Virgin
  <1>7. FlagInv'
    BY DEF FlagInv, Clients!FlagIsOwn
  <1> QED  BY <1>4, <1>5, <1>6, <1>7

\* A socket that is connected goes from the method to its client, and the one the
\* client had is dropped.
LEMMA LinkedKeeps ==
  ASSUME Types, StageInv, Truth, Holding, Owned, FlagInv, Clients!Linked
  PROVE  Holding' /\ Owned' /\ Virgin' /\ FlagInv'
  <1>1. /\ at = "connected" /\ sd \in Sds /\ self = 0 /\ 0 \in Clients!Clients
        /\ call = Clients!Idle /\ how \in Opens
    BY ServedAssumption
       DEF Clients!Linked, Clients!At, Clients!Clients, StageInv, Opening, Using, Rests, Waits
  <1>2. /\ client' = [client EXCEPT ![0] = [sock |-> sd, buffered |-> 0]]
        /\ via' = [via EXCEPT ![0] = IF how = "UDP" THEN "stale" ELSE "fresh"]
        /\ dropped' = dropped \cup Clients!Holds(client[0].sock)
        /\ sd' = Clients!None /\ at' = "sketch" /\ call' = Clients!Idle
        /\ UNCHANGED <<listener, closed, sock>>
    BY <1>1 DEF Clients!Linked, Clients!Return, Clients!Go
  <1>3. /\ client'[0].sock = sd
        /\ \A c \in Clients!Clients : c # 0 => client'[c] = client[c] /\ via'[c] = via[c]
        /\ via'[0] = "fresh" => how # "UDP"
    BY <1>1, <1>2 DEF Types
  <1> USE <1>1, <1>2, <1>3, SocketsAssumption
      DEF Clients!IsOpen, Clients!IsUp, Clients!Holds, Clients!None
  <1>4. Holding'
    <2>1. \A s \in dropped' : Clients!IsOpen(s)'
      BY DEF Holding
    <2>2. \A c \in Clients!Clients :
            client'[c].sock # -1 =>
              /\ Clients!IsOpen(client[c].sock)' \/ c # 0
              /\ client'[c].sock \notin {listener', sd'} \cup dropped'
              /\ \A d \in Clients!Clients : client'[d].sock = client'[c].sock => d = c
      BY DEF Holding
    <2> QED  BY <2>1, <2>2 DEF Holding
  <1>5. Owned'
    BY DEF Owned, Has, Unheld, Awaits
  <1>6. Virgin'
    BY DEF Virgin, Open
  <1>7. FlagInv'
    BY DEF FlagInv, Clients!FlagIsOwn
  <1> QED  BY <1>4, <1>5, <1>6, <1>7

\* A socket that failed to connect has been closed, and nobody keeps its number.
LEMMA UnlinkedKeeps ==
  ASSUME Types, StageInv, Truth, Holding, Owned, FlagInv, Clients!Unlinked
  PROVE  Holding' /\ Owned' /\ Virgin' /\ FlagInv'
  <1>1. /\ at = "unlinked" /\ sd \in Sds /\ self = 0 /\ 0 \in Clients!Clients
        /\ call = Clients!Idle /\ how \in Opens
        /\ how # "connect" => client[0].sock = Clients!None
    BY ServedAssumption
       DEF Clients!Unlinked, Clients!At, Clients!Clients, StageInv, Opening, Using, Rests, Waits
  <1>2. /\ sd' = Clients!None /\ at' = "sketch" /\ call' = Clients!Idle
        /\ UNCHANGED <<listener, via, dropped, closed, sock>>
        /\ ~Clients!IsOpen(sd)
    BY <1>1, Delivered DEF Clients!Unlinked, Clients!Return, Clients!Go
  <1>3. \A c \in Clients!Clients : client'[c].sock = client[c].sock
    BY <1>1 DEF Clients!Unlinked, Clients!Without, Types
  <1> USE <1>1, <1>2, <1>3, SocketsAssumption
      DEF Clients!IsOpen, Clients!IsUp, Clients!None
  <1>4. Holding'
    BY DEF Holding
  <1>5. Owned'
    <2>1. \A s \in Sds : Clients!IsOpen(s) /\ Unheld(s)' => Unheld(s)
      BY DEF Unheld
    <2> QED  BY <2>1 DEF Owned, Awaits
  <1>6. Virgin'
    BY DEF Virgin, Open
  <1>7. FlagInv'
    BY DEF FlagInv, Clients!FlagIsOwn
  <1> QED  BY <1>4, <1>5, <1>6, <1>7

\* TestClosed and Shut: the client that has lost its socket forgets it.
LEMMA ClosedKeeps ==
  ASSUME Types, StageInv, Truth, Holding, Owned, FlagInv,
         Clients!TestClosed \/ Clients!Shut
  PROVE  Holding' /\ Owned' /\ Virgin' /\ FlagInv'
  <1> Served \subseteq Clients!Clients
    BY ServedAssumption DEF Served, Clients!Clients
  <1>1. /\ at \in {"over", "shut"} /\ self \in Clients!Clients /\ sd = Clients!None
        /\ call = Clients!Idle
    BY DEF Clients!TestClosed, Clients!Shut, Clients!At, StageInv, Opening, Using, Rests, Waits
  <1>2. /\ sd' = Clients!None /\ at' \notin {"connected", "begin", "over", "shut"}
        /\ call'.fn # "connect"
        /\ UNCHANGED <<listener, dropped, sock>> /\ closed' \subseteq closed
        /\ client' = [client EXCEPT ![self].sock = Clients!None]
        /\ via' = [via EXCEPT ![self] = "none"]
        /\ ~Clients!IsOpen(client[self].sock)
    BY <1>1, Delivered DEF Clients!TestClosed, Clients!Shut, Clients!Return, Clients!Go,
       Clients!Resume, Clients!Within, Clients!Invoke, Clients!Idle, Mine
  <1>3. /\ client'[self].sock = Clients!None
        /\ \A c \in Clients!Clients : c # self => client'[c] = client[c] /\ via'[c] = via[c]
        /\ via'[self] # "fresh"
    BY <1>1, <1>2 DEF Types
  <1> USE <1>1, <1>2, <1>3, SocketsAssumption
      DEF Clients!IsOpen, Clients!IsUp, Clients!None
  <1>4. Holding'
    BY DEF Holding
  <1>5. Owned'
    <2>1. \A s \in Sds : Clients!IsOpen(s) /\ Unheld(s)' => Unheld(s)
      BY DEF Unheld
    <2> QED  BY <2>1 DEF Owned, Awaits
  <1>6. Virgin'
    BY DEF Virgin, Open
  <1>7. FlagInv'
    BY DEF FlagInv, Clients!FlagIsOwn
  <1> QED  BY <1>4, <1>5, <1>6, <1>7

\* What accept() answers was no one's, and becomes the client's.
LEMMA AcceptedKeeps ==
  ASSUME Types, StageInv, Truth, Holding, Owned, FlagInv, Clients!Accepted
  PROVE  Holding' /\ Owned' /\ Virgin' /\ FlagInv'
  <1>1. /\ at = "accepted" /\ self \in Clients!Clients /\ sd = Clients!None
        /\ call = Clients!Idle /\ client[self].sock = Clients!None
    BY DEF Clients!Accepted, Clients!At, StageInv, Opening, Using, Rests, Waits, Served,
       Clients!Clients, Mine
  <1>2. /\ sd' = Clients!None /\ at' = "next" /\ call' = Clients!Idle
        /\ UNCHANGED <<listener, dropped, closed, sock>>
    BY <1>1 DEF Clients!Accepted, Clients!Go
  <1>3. CASE ret > -1
    <2>1. ret \in Sds /\ Clients!IsOpen(ret) /\ Unheld(ret)
      BY <1>1, <1>3, Delivered DEF Awaits
    <2>2. /\ client'[self].sock = ret
          /\ \A c \in Clients!Clients : c # self => client'[c] = client[c] /\ via'[c] = via[c]
          /\ via'[self] # "fresh"
      BY <1>1, <1>3 DEF Clients!Accepted, Types
    <2> USE <1>1, <1>2, <2>1, <2>2, SocketsAssumption
        DEF Clients!IsOpen, Clients!IsUp, Clients!None, Unheld
    <2>3. Holding'
      BY DEF Holding
    <2>4. Owned'
      <3>1. \A s \in Sds : s # ret /\ Unheld(s)' => Unheld(s)
        OBVIOUS
      <3>2. \A s : Has(s) => s = ret
        BY DEF Has
      <3> QED  BY <3>1, <3>2 DEF Owned
    <2>5. Virgin' /\ FlagInv'
      BY DEF Virgin, Open, FlagInv, Clients!FlagIsOwn
    <2> QED  BY <2>3, <2>4, <2>5
  <1>4. CASE ~(ret > -1)
    <2> USE <1>1, <1>2, <1>4, SocketsAssumption
        DEF Clients!IsOpen, Clients!IsUp, Clients!None
    <2>1. client' = client /\ via' = via
      BY DEF Clients!Accepted
    <2>2. \A s \in Sds : ~Has(s)
      BY DEF Has, Types, Answers, Clients!GONE
    <2>3. Holding' /\ Virgin' /\ FlagInv'
      BY <2>1 DEF Holding, Virgin, Open, FlagInv, Clients!FlagIsOwn
    <2>4. Owned'
      BY <2>1, <2>2 DEF Owned, Unheld
    <2> QED  BY <2>3, <2>4
  <1> QED  BY <1>3, <1>4

\* begin() takes a socket with its second call, gives it to the server after the
\* last, and drops it where a call between them fails.
LEMMA BeginKeeps ==
  ASSUME Types, StageInv, StageInv', Truth, Holding, Owned, Virgin, FlagInv, Clients!beginStep
  PROVE  Holding' /\ Owned' /\ Virgin' /\ FlagInv'
  <1>1. /\ at = "begin" /\ self \in 1..5 /\ call = Clients!Idle
        /\ listener = Clients!None /\ sd \in IF self < 3 THEN {Clients!None} ELSE Sds
        /\ UNCHANGED <<client, via, closed, sock>>
    BY DEF Clients!beginStep, Clients!At, StageInv, Opening, Using, Rests, Waits
  <1>2. /\ self = 2 => \/ ret = -1
                       \/ ret \in Sds /\ Clients!IsOpen(ret) /\ ~Clients!IsUp(ret) /\ Unheld(ret)
        /\ \A s : Has(s) => s = ret
    BY <1>1, Delivered DEF Awaits, Has
  <1>3. /\ Clients!Main
        /\ Len(Clients!Steps) = 5 /\ Clients!Steps[2] = "socket"
        /\ \A i \in 1..5 : Clients!Steps[i] = "socket" => i = 2
        /\ \A i \in 1..5 : Clients!Steps[i] \notin {"none", "connect"}
    BY DEF Clients!Steps, Clients!Main
  <1>8. ret \in Int
    BY SocketsAssumption DEF Types, Answers, Clients!GONE
  <1> USE SocketsAssumption DEF Clients!None
  <1>4. CASE self = 2 /\ ret >= 0
    <2>1. /\ sd' = ret /\ at' = "begin" /\ UNCHANGED <<listener, dropped>>
          /\ call'.fn # "connect"
      BY <1>1, <1>3, <1>4, <1>8 DEF Clients!beginStep, Clients!Invoke
    <2> USE <1>1, <1>2, <1>4, <2>1 DEF Clients!IsOpen, Clients!IsUp, Unheld
    <2>2. Holding'
      BY DEF Holding
    <2>3. Owned'
      <3>1. \A s \in Sds : s # ret /\ Unheld(s)' => Unheld(s)
        OBVIOUS
      <3> QED  BY <3>1 DEF Owned
    <2>4. Virgin' /\ FlagInv'
      BY DEF Virgin, Open, FlagInv, Clients!FlagIsOwn, Clients!Asked
    <2> QED  BY <2>2, <2>3, <2>4
  <1>5. CASE self # 2 /\ self < 5 /\ ret >= 0
    <2>1. Kept
      BY <1>1, <1>3, <1>5, <1>8 DEF Clients!beginStep, Clients!Invoke, Kept, Awaits
    <2> QED  BY <2>1, <1>3, KeptKeeps
  <1>6. CASE self = 5 /\ ret >= 0
    <2>1. /\ listener' = sd /\ sd' = Clients!None /\ at' = "sketch" /\ dropped' = dropped
          /\ call' = Clients!Idle /\ sd \in Sds /\ ~Awaits
      BY <1>1, <1>3, <1>6, <1>8 DEF Clients!beginStep, Clients!Return, Clients!Go, Awaits
    <2> USE <1>1, <2>1 DEF Clients!IsOpen, Clients!IsUp
    <2>2. Holding'
      BY DEF Holding
    <2>3. Owned'
      <3>1. \A s \in Sds : Unheld(s)' => Unheld(s)
        BY DEF Unheld
      <3> QED  BY <3>1 DEF Owned
    <2>4. Virgin' /\ FlagInv'
      BY DEF Virgin, Open, FlagInv, Clients!FlagIsOwn
    <2> QED  BY <2>2, <2>3, <2>4
  <1>7. CASE ret < 0
    <2>1. /\ listener' = listener /\ sd' = Clients!None /\ at' = "sketch"
          /\ dropped' = dropped \cup Clients!Holds(sd) /\ call' = Clients!Idle
      BY <1>1, <1>3, <1>7, <1>8 DEF Clients!beginStep, Clients!Return, Clients!Go
    <2> USE <1>1, <2>1 DEF Clients!IsOpen, Clients!IsUp, Clients!Holds
    <2>2. Holding'
      BY DEF Holding
    <2>3. Owned'
      <3>1. \A s \in Sds : Unheld(s)' => Unheld(s)
        BY DEF Unheld
      <3>2. \A s \in Sds : ~Has(s)
        BY <1>2, <1>7
      <3> QED  BY <3>1, <3>2 DEF Owned
    <2>4. Virgin' /\ FlagInv'
      BY DEF Virgin, Open, FlagInv, Clients!FlagIsOwn
    <2> QED  BY <2>2, <2>3, <2>4
  <1> QED  BY <1>1, <1>8, <1>4, <1>5, <1>6, <1>7

\* What a step of the main program leaves true, in one.
ClientsInv == /\ Types /\ StageInv /\ OneAnswer /\ Truth /\ Holding /\ Owned /\ Quiet
              /\ Virgin /\ Current /\ FlagInv

\* Every step of the main program keeps the invariant.
LEMMA MainStep ==
  ASSUME ClientsInv, Clients!Main
  PROVE  ClientsInv'
  <1> USE DEF ClientsInv
  <1>1. Types' /\ StageInv' /\ OneAnswer' /\ Truth' /\ Quiet' /\ Current'
    BY MainTypes, StageStep, MainKeepsAnswers
  <1>2. Holding' /\ Owned' /\ Virgin' /\ FlagInv'
    BY <1>1, OpenedKeeps, LinkedKeeps, UnlinkedKeeps, ClosedKeeps, AcceptedKeeps, BeginKeeps,
       MovesAreKept, KeptKeeps DEF Clients!Main
  <1> QED  BY <1>1, <1>2

-----------------------------------------------------------------------------
(* The clients: delivery, the chip and the peers.                          *)

\* The first of a row is taken out of it.
LEMMA TakingFirst ==
  ASSUME NEW P, NEW row \in Seq(P), row # <<>>
  PROVE  /\ Len(row) \in Nat \ {0} /\ Head(row) = row[1] /\ row[1] \in P
         /\ Tail(row) \in Seq(P) /\ Len(Tail(row)) = Len(row) - 1
         /\ \A i \in 1..Len(row) - 1 : Tail(row)[i] = row[i + 1]
  <1>1. Len(row) \in Nat \ {0}
    BY LenProperties, EmptySeq
  <1>2. row[1] \in P
    BY <1>1, ElementOfSeq
  <1> QED  BY <1>1, <1>2, HeadTailProperties

\* Whether it has come or is on its way, an answer is an answer.
LEMMA DeliverKeepsAnswer ==
  ASSUME ClientsInv, Clients!Deliver
  PROVE  /\ \A n : Has(n)' <=> Has(n)
         /\ OneAnswer' /\ Types' /\ Current'
         /\ Open("connect")' => Open("connect")
         /\ call' \in {call, Clients!Idle}
         /\ closed' = closed \/ \E s \in Sds : /\ closed' = closed \cup {s}
                                               /\ transit[1] = [what |-> "close", sd |-> s]
         /\ UNCHANGED <<at, how, self, sd, client, listener, via, dropped, sock, late>>
  <1> USE DEF ClientsInv
  <1> DEFINE n == Len(transit)
             m == transit[1]
             Msg == [what : {"answer", "close"}, sd : Answers]
  <1>1. /\ transit \in Seq(Msg) /\ transit # <<>> /\ n \in Nat \ {0}
        /\ m \in Msg /\ Head(transit) = m
        /\ transit' = Tail(transit) /\ transit' \in Seq(Msg) /\ Len(transit') = n - 1
        /\ \A i \in 1..n-1 : transit'[i] = transit[i + 1]
    <2>1. transit \in Seq(Msg) /\ transit # <<>> /\ transit' = Tail(transit)
      BY DEF Clients!Deliver, Types
    <2> QED  BY <2>1, TakingFirst
  <1>2. \A i \in 1..n : i = 1 \/ (i - 1 \in 1..n-1 /\ transit'[i - 1] = transit[i])
    BY <1>1
  <1>3. UNCHANGED <<at, how, self, sd, client, listener, via, dropped, sock, late>>
    BY DEF Clients!Deliver, Clients!prog, Clients!object
  <1>4. CASE m.what = "close"
    <2>1. /\ closed' = closed \cup {m.sd} /\ UNCHANGED <<call, ret>>
      BY <1>1, <1>4 DEF Clients!Deliver
    <2>2. m.sd \in Sds /\ m = [what |-> "close", sd |-> m.sd]
      BY <1>1, <1>4 DEF Current
    <2>3. ASSUME NEW k
          PROVE  Has(k)' <=> Has(k)
      <3> DEFINE a == [what |-> "answer", sd |-> k]
      <3>1. m # a
        BY <1>4
      <3>2. ASSUME NEW i \in 1..n, transit[i] = a
            PROVE  \E j \in 1..n-1 : transit'[j] = a
        <4>1. i - 1 \in 1..n-1 /\ transit'[i - 1] = a
          BY <1>2, <3>1, <3>2
        <4> QED  BY <4>1
      <3>3. ASSUME NEW j \in 1..n-1, transit'[j] = a
            PROVE  \E i \in 1..n : transit[i] = a
        <4>1. j + 1 \in 1..n /\ transit[j + 1] = a
          BY <1>1, <3>3
        <4> QED  BY <4>1
      <3> HIDE DEF a
      <3>4. (\E j \in 1..n-1 : transit'[j] = a) <=> (\E i \in 1..n : transit[i] = a)
        BY <3>2, <3>3
      <3> QED  BY <1>1, <2>1, <3>4 DEF Has, a
    <2>4. OneAnswer'
      <3> SUFFICES ASSUME NEW i \in 1..n-1, NEW j \in 1..n-1, transit'[i].what = "answer"
                   PROVE  call # Clients!Idle /\ (transit'[j].what = "answer" => i = j)
        BY <1>1, <2>1 DEF OneAnswer
      <3>1. i + 1 \in 1..n /\ j + 1 \in 1..n /\ (i + 1 = j + 1 => i = j)
        BY <1>1
      <3> QED  BY <1>1, <3>1 DEF OneAnswer
    <2>5. Types'
      BY <1>1, <1>3, <2>1, <2>2 DEF Types, Refs, Answers
    <2>6. Current'
      <3> SUFFICES ASSUME NEW i \in 1..n-1, transit'[i].what = "close"
                   PROVE  /\ transit'[i].sd \in Sds
                          /\ \/ Clients!IsUp(transit'[i].sd) /\ sock[transit'[i].sd].gone
                             \/ /\ call = [fn |-> "closesocket", sd |-> transit'[i].sd]
                                /\ \E j \in i+1..n-1 : transit'[j].what = "answer"
                          /\ \A j \in 1..n-1 : transit'[j] = transit'[i] => j = i
        BY <1>1, <1>3, <2>1 DEF Current, Clients!IsUp
      <3>1. i + 1 \in 1..n /\ transit'[i] = transit[i + 1]
        BY <1>1
      <3>2. ASSUME NEW j \in (i+1)+1..n, transit[j].what = "answer"
            PROVE  \E k \in i+1..n-1 : transit'[k].what = "answer"
        <4>1. j - 1 \in i+1..n-1 /\ transit'[j - 1] = transit[j]
          BY <1>1, <1>2
        <4> QED  BY <3>2, <4>1
      <3>3. ASSUME NEW j \in 1..n-1, transit'[j] = transit'[i]
            PROVE  j = i
        <4>1. j + 1 \in 1..n /\ transit[j + 1] = transit[i + 1]
          BY <1>1, <3>1, <3>3
        <4>2. j + 1 = i + 1
          BY <3>1, <4>1 DEF Current
        <4> QED  BY <4>2
      <3> QED  BY <3>1, <3>2, <3>3 DEF Current
    <2>7. Open("connect")' => Open("connect")
      BY <1>1, <1>2, <1>4, <2>1 DEF Open, Clients!Asked
    <2> QED  BY <1>3, <2>1, <2>2, <2>3, <2>4, <2>5, <2>6, <2>7
  <1>5. CASE m.what # "close"
    <2>1. /\ ret' = m.sd /\ call' = Clients!Idle /\ closed' = closed
          /\ m.what = "answer" /\ m = [what |-> "answer", sd |-> m.sd]
      BY <1>1, <1>5 DEF Clients!Deliver
    <2>2. \A i \in 1..n : transit[i].what = "answer" => i = 1
      BY <1>1, <2>1 DEF OneAnswer
    <2>3. call # Clients!Idle
      BY <1>1, <2>1 DEF OneAnswer
    <2>4. \A k : Has(k)' <=> Has(k)
      BY <1>1, <2>1, <2>2, <2>3 DEF Has
    <2>5. \A i \in 1..n-1 : transit'[i].what # "answer"
      <3> TAKE i \in 1..n-1
      <3>1. i + 1 \in 1..n /\ i + 1 # 1
        BY <1>1
      <3> QED  BY <1>1, <2>2, <3>1
    <2>6. OneAnswer'
      BY <1>1, <2>5 DEF OneAnswer
    <2>7. Types'
      BY <1>1, <1>3, <2>1 DEF Types
    <2>8. Current'
      <3> SUFFICES ASSUME NEW i \in 1..n-1, transit'[i].what = "close"
                   PROVE  /\ transit'[i].sd \in Sds
                          /\ Clients!IsUp(transit'[i].sd) /\ sock[transit'[i].sd].gone
                          /\ \A j \in 1..n-1 : transit'[j] = transit'[i] => j = i
        BY <1>1, <1>3 DEF Current, Clients!IsUp
      <3>1. i + 1 \in 1..n /\ transit'[i] = transit[i + 1]
        BY <1>1
      <3>2. \A j \in (i+1)+1..n : transit[j].what # "answer"
        BY <1>1, <2>2
      <3>3. ASSUME NEW j \in 1..n-1, transit'[j] = transit'[i]
            PROVE  j = i
        <4>1. j + 1 \in 1..n /\ transit[j + 1] = transit[i + 1]
          BY <1>1, <3>1, <3>3
        <4>2. j + 1 = i + 1
          BY <3>1, <4>1 DEF Current
        <4> QED  BY <4>2
      <3> QED  BY <3>1, <3>2, <3>3 DEF Current
    <2> QED  BY <1>3, <2>1, <2>4, <2>6, <2>7, <2>8 DEF Open
  <1> QED  BY <1>4, <1>5

\* So does what reaches the host, a close event or an answer.
LEMMA DeliverStep ==
  ASSUME ClientsInv, Clients!Deliver
  PROVE  ClientsInv'
  <1> USE DEF ClientsInv
  <1>1. /\ \A n : Has(n)' <=> Has(n)
        /\ OneAnswer' /\ Types' /\ Current'
        /\ Open("connect")' => Open("connect")
        /\ call' \in {call, Clients!Idle}
        /\ UNCHANGED <<at, how, self, sd, client, listener, via, dropped, sock, late>>
    BY DeliverKeepsAnswer
  <1>2. StageInv'
    BY <1>1 DEF StageInv, Opening, Using, Rests, Waits, Mine
  <1>3. Truth'
    BY <1>1 DEF Truth, Says, Awaits, Unheld, Clients!IsOpen, Clients!IsUp, Mine
  <1>4. Holding' /\ Quiet' /\ Virgin'
    BY <1>1 DEF Holding, Quiet, Virgin, Clients!IsOpen, Clients!IsUp
  <1>5. Owned'
    BY <1>1 DEF Owned, Awaits, Unheld, Clients!IsOpen
  <1>6. FlagInv'
    <2>1. CASE closed' = closed
      BY <2>1, <1>1 DEF FlagInv, Clients!FlagIsOwn, Clients!IsOpen, Clients!IsUp
    <2>2. ASSUME NEW s \in Sds, closed' = closed \cup {s},
                 transit[1] = [what |-> "close", sd |-> s]
          PROVE  FlagInv'
      <3>1. 1 \in 1..Len(transit)
        BY TakingFirst DEF Clients!Deliver, Types
      <3>2. CASE Clients!IsUp(s) /\ sock[s].gone
        BY <1>1, <2>2, <3>2 DEF FlagInv, Clients!FlagIsOwn, Clients!IsOpen, Clients!IsUp
      <3>3. ASSUME call = [fn |-> "closesocket", sd |-> s],
                   NEW j \in 1..Len(transit), transit[j].what = "answer"
            PROVE  FlagInv'
        <4>1. transit[j] = [what |-> "answer", sd |-> transit[j].sd] /\ transit[j].sd \in Answers
          <5>1. transit[j] \in [what : {"answer", "close"}, sd : Answers]
            BY ElementOfSeq DEF Types
          <5> QED  BY <5>1, <3>3
        <4>2. call # Clients!Idle
          BY <3>3 DEF Clients!Idle
        <4>3. Has(transit[j].sd)
          BY <4>1, <4>2 DEF Has
        <4>4. ~Clients!IsOpen(s) /\ at # "connected"
          BY <3>3, <4>1, <4>2, <4>3, CallTellsPlace DEF Truth, Says, CallPlace
        <4> QED  BY <1>1, <2>2, <4>4 DEF FlagInv, Clients!FlagIsOwn, Clients!IsOpen
      <3>4. \/ Clients!IsUp(s) /\ sock[s].gone
            \/ /\ call = [fn |-> "closesocket", sd |-> s]
               /\ \E j \in 2..Len(transit) : transit[j].what = "answer"
        BY <2>2, <3>1 DEF Current
      <3> QED  BY <3>1, <3>2, <3>3, <3>4
    <2> QED  BY <2>1, <2>2, DeliverKeepsAnswer
  <1> QED  BY <1>1, <1>2, <1>3, <1>4, <1>5, <1>6

\* An answer of the chip, whatever it does to a socket: one goes on its way,
\* the first to this call.
Answering(n) ==
  /\ n \in Answers
  /\ call # Clients!Idle
  /\ \A i \in 1..Len(transit) : transit[i].what # "answer"
  /\ transit' = Append(transit, [what |-> "answer", sd |-> n])
  /\ UNCHANGED <<at, how, self, sd, call, ret, client, listener, via, dropped, closed, late>>

\* What the invariant asks of the chip's sockets when it answers n.
Answered(n) ==
  /\ sock' \in [Sds -> [state : States, data : {0, 1}, gone : BOOLEAN]]
  /\ \A s \in Sds : sock[s].state = "up" /\ sock[s].gone =>
        \/ sock'[s].state = "up" /\ sock'[s].gone
        \/ call = [fn |-> "closesocket", sd |-> s]
  /\ (Truth /\ Holding /\ Owned /\ Quiet /\ Virgin /\ FlagInv)'

\* An answer that is true keeps what does not depend on the sockets it changes.
LEMMA AnsweringStep ==
  ASSUME ClientsInv, NEW n, Answering(n)
  PROVE  /\ \A k : Has(k)' <=> k = n
         /\ \A k : ~Has(k)
         /\ ~Open("connect")'
         /\ Answered(n) => ClientsInv'
  <1> USE DEF ClientsInv
  <1> DEFINE l == Len(transit)
             a == [what |-> "answer", sd |-> n]
             Msg == [what : {"answer", "close"}, sd : Answers]
  <1>1. /\ transit \in Seq(Msg) /\ a \in Msg /\ transit' = Append(transit, a)
    BY DEF Answering, Types
  <1>2. /\ l \in Nat /\ transit' \in Seq(Msg) /\ Len(transit') = l + 1
        /\ transit'[l + 1] = a
        /\ \A i \in 1..l : transit'[i] = transit[i]
    BY <1>1, AppendProperties, LenProperties
  <1>3. \A i \in 1..l+1 : i \in 1..l \/ i = l + 1
    BY <1>2
  <1>4. \A i \in 1..l : transit[i].what # "answer"
    BY DEF Answering
  <1>5. \A k : ~Has(k)
    <2>1. \A k : [what |-> "answer", sd |-> k].what = "answer"
      OBVIOUS
    <2> QED  BY <2>1, <1>4 DEF Has, Answering
  <1>6. ASSUME NEW k
        PROVE  Has(k)' <=> k = n
    <2>1. \A i \in 1..l : transit'[i] # [what |-> "answer", sd |-> k]
      BY <1>2, <1>4
    <2>2. a = [what |-> "answer", sd |-> k] <=> k = n
      OBVIOUS
    <2>3. l + 1 \in 1..l+1
      BY <1>2
    <2> HIDE DEF a
    <2>4. (\E i \in 1..l+1 : transit'[i] = [what |-> "answer", sd |-> k]) <=> k = n
      BY <1>2, <1>3, <2>1, <2>2, <2>3
    <2> QED  BY <1>2, <2>4 DEF Has, Answering
  <1>7. ~Open("connect")'
    <2>1. l + 1 \in 1..Len(transit') /\ transit'[l + 1].what = "answer"
      BY <1>2
    <2> QED  BY <2>1 DEF Open, Clients!Asked
  <1>8. OneAnswer'
    <2> SUFFICES ASSUME NEW i \in 1..l+1, NEW j \in 1..l+1, transit'[i].what = "answer"
                 PROVE  call # Clients!Idle /\ (transit'[j].what = "answer" => i = j)
      BY <1>2 DEF OneAnswer, Answering
    <2>1. i = l + 1
      BY <1>2, <1>3, <1>4
    <2>2. transit'[j].what = "answer" => j = l + 1
      BY <1>2, <1>3, <1>4
    <2> QED  BY <2>1, <2>2 DEF Answering
  <1>9. StageInv'
    BY DEF Answering, StageInv, Opening, Using, Rests, Waits, Mine
  <1>10. ASSUME Answered(n)
         PROVE  Types'
    <2>1. sock' \in [Sds -> [state : States, data : {0, 1}, gone : BOOLEAN]]
      BY <1>10 DEF Answered
    <2> QED  BY <1>2, <2>1 DEF Types, Answering
  <1>11. ASSUME Answered(n)
         PROVE  Current'
    <2> SUFFICES ASSUME NEW i \in 1..l+1, transit'[i].what = "close"
                 PROVE  /\ transit'[i].sd \in Sds
                        /\ \/ /\ sock'[transit'[i].sd].state = "up"
                              /\ sock'[transit'[i].sd].gone
                           \/ /\ call = [fn |-> "closesocket", sd |-> transit'[i].sd]
                              /\ \E j \in i+1..l+1 : transit'[j].what = "answer"
                        /\ \A j \in 1..l+1 : transit'[j] = transit'[i] => j = i
      BY <1>2 DEF Current, Clients!IsUp, Answering
    <2>1. a.what = "answer"
      OBVIOUS
    <2>2. i \in 1..l /\ transit'[i] = transit[i]
      BY <1>2, <1>3, <2>1
    <2>3. l + 1 \in i+1..l+1 /\ transit'[l + 1].what = "answer"
      BY <1>2, <2>1, <2>2
    <2>4. /\ transit[i].sd \in Sds
          /\ sock[transit[i].sd].state = "up" /\ sock[transit[i].sd].gone
          /\ \A j \in 1..l : transit[j] = transit[i] => j = i
      BY <2>2, <1>2, <1>4 DEF Current, Clients!IsUp
    <2>5. \A j \in 1..l+1 : transit'[j] = transit'[i] => j = i
      BY <1>2, <1>3, <2>1, <2>2, <2>4
    <2>6. \/ sock'[transit[i].sd].state = "up" /\ sock'[transit[i].sd].gone
          \/ call = [fn |-> "closesocket", sd |-> transit[i].sd]
      BY <1>11, <2>4 DEF Answered
    <2>7. \E j \in i+1..l+1 : transit'[j].what = "answer"
      BY <2>3
    <2> QED  BY <2>2, <2>4, <2>5, <2>6, <2>7
  <1>12. ASSUME Answered(n) PROVE ClientsInv'
    <2>1. (Truth /\ Holding /\ Owned /\ Quiet /\ Virgin /\ FlagInv)'
      BY <1>12 DEF Answered
    <2> QED  BY <1>8, <1>9, <1>10, <1>11, <1>12, <2>1
  <1> QED  BY <1>5, <1>6, <1>7, <1>12

\* The chip only answers.
LEMMA AnswerAlone ==
  ASSUME ClientsInv, NEW n, Answering(n), Says(n), sock' = sock
  PROVE  Answered(n)
  <1> USE DEF ClientsInv, Clients!IsOpen, Clients!IsUp
  <1>1. /\ UNCHANGED <<at, how, self, sd, call, ret, client, listener, via, dropped, closed, late>>
        /\ \A k : Has(k)' <=> k = n
        /\ \A k : ~Has(k)
        /\ ~Open("connect")'
    BY AnsweringStep DEF Answering
  <1>2. Truth'
    BY <1>1 DEF Truth, Says, Awaits, Unheld, Mine
  <1>3. Holding' /\ Quiet' /\ Virgin' /\ FlagInv'
    BY <1>1 DEF Holding, Quiet, Virgin, FlagInv, Clients!FlagIsOwn
  <1>4. Owned'
    BY <1>1 DEF Owned, Unheld
  <1> QED  BY <1>1, <1>2, <1>3, <1>4 DEF Answered, Types

\* The chip opens a socket: nobody has it yet.
LEMMA AnswerOpens ==
  ASSUME ClientsInv, NEW s \in Sds, Answering(s), ~Clients!IsOpen(s), Awaits,
         NEW st \in {"new", "up"}, st = "new" \/ at = "accepted",
         sock' = [sock EXCEPT ![s] = Clients!Socket(st)]
  PROVE  Answered(s)
  <1> USE SocketsAssumption DEF ClientsInv, Clients!IsOpen, Clients!IsUp
  <1>1. /\ UNCHANGED <<at, how, self, sd, call, ret, client, listener, via, dropped, closed, late>>
        /\ \A k : Has(k)' <=> k = s
        /\ \A k : ~Has(k)
        /\ ~Open("connect")'
        /\ at \in {"opened", "accepted", "begin"}
    BY AnsweringStep DEF Answering, Awaits
  <1>2. /\ sock' \in [Sds -> [state : States, data : {0, 1}, gone : BOOLEAN]]
        /\ sock'[s].state = st /\ sock'[s].data = 0 /\ sock'[s].gone = FALSE
        /\ \A t \in Sds : t # s => sock'[t] = sock[t]
        /\ sock[s].state = "free"
    BY DEF Types, States, Clients!Socket
  <1>3. Unheld(s)
    BY <1>1, <1>2 DEF Holding, Unheld, Clients!None
  <1>4. Truth'
    BY <1>1, <1>2, <1>3 DEF Truth, Says, Awaits, Unheld
  <1>5. Holding'
    BY <1>1, <1>2, <1>3 DEF Holding, Unheld
  <1>6. Owned'
    BY <1>1, <1>2, <1>3 DEF Owned, Unheld, Awaits
  <1>7. Quiet'
    BY <1>2 DEF Quiet
  <1>8. Virgin' /\ FlagInv'
    BY <1>1, <1>2, <1>3 DEF Virgin, FlagInv, Clients!FlagIsOwn, Unheld
  <1> QED  BY <1>2, <1>4, <1>5, <1>6, <1>7, <1>8 DEF Answered

\* The chip connects the socket of the method at work, or listens with it.
LEMMA AnswerConnects ==
  ASSUME ClientsInv, Answering(0), Says(0), sd \in Sds, ~Clients!IsUp(sd),
         NEW st \in {"up", "listening"},
         at = "connected" \/ (at = "begin" /\ ~Awaits /\ st = "listening"),
         sock' = [sock EXCEPT ![sd] = Clients!Socket(st)]
  PROVE  Answered(0)
  <1> USE SocketsAssumption DEF ClientsInv, Clients!IsOpen, Clients!IsUp
  <1>1. /\ UNCHANGED <<at, how, self, sd, call, ret, client, listener, via, dropped, closed, late>>
        /\ \A k : Has(k)' <=> k = 0
        /\ \A k : ~Has(k)
        /\ ~Open("connect")'
    BY AnsweringStep DEF Answering
  <1>2. /\ sock' \in [Sds -> [state : States, data : {0, 1}, gone : BOOLEAN]]
        /\ sock'[sd].state = st /\ sock'[sd].data = 0 /\ sock'[sd].gone = FALSE
        /\ \A t \in Sds : t # sd => sock'[t] = sock[t]
    BY DEF Types, States, Clients!Socket
  <1>3. sock[sd].state # "free" /\ \A c \in Clients!Clients : client[c].sock # sd
    BY DEF Holding, Clients!None
  <1>4. Truth'
    BY <1>1 DEF Truth, Says, Awaits
  <1>5. Holding'
    BY <1>1, <1>2, <1>3 DEF Holding
  <1>6. Owned'
    BY <1>1, <1>2 DEF Owned, Unheld
  <1>7. Quiet'
    BY <1>2 DEF Quiet
  <1>8. Virgin'
    BY <1>1, <1>2 DEF Virgin
  <1>9. FlagInv'
    BY <1>1, <1>2, <1>3 DEF FlagInv, Clients!FlagIsOwn
  <1> QED  BY <1>2, <1>4, <1>5, <1>6, <1>7, <1>8, <1>9 DEF Answered

\* The chip closes the socket of the call; nothing else was held with it.
LEMMA AnswerCloses ==
  ASSUME ClientsInv, Answering(0), call.fn = "closesocket", call.sd \in Sds,
         call = [fn |-> "closesocket", sd |-> call.sd],
         Clients!IsOpen(call.sd), sock' = [sock EXCEPT ![call.sd] = Clients!Socket("free")]
  PROVE  Answered(0)
  <1> USE SocketsAssumption DEF ClientsInv, Clients!IsOpen, Clients!IsUp
  <1>1. /\ UNCHANGED <<at, how, self, sd, call, ret, client, listener, via, dropped, closed, late>>
        /\ \A k : Has(k)' <=> k = 0
        /\ \A k : ~Has(k)
        /\ ~Open("connect")'
        /\ CallPlace
    BY AnsweringStep, CallTellsPlace DEF Answering
  <1> DEFINE s == call.sd
  <1>2. /\ sock' \in [Sds -> [state : States, data : {0, 1}, gone : BOOLEAN]]
        /\ sock'[s].state = "free" /\ sock'[s].data = 0 /\ sock'[s].gone = FALSE
        /\ \A t \in Sds : t # s => sock'[t] = sock[t]
    BY DEF Types, States, Clients!Socket
  <1>3. \/ /\ at \in {"over", "shut"} /\ self \in Clients!Clients /\ s = client[self].sock
           /\ sd = Clients!None
        \/ at = "unlinked" /\ s = sd
    <2> Served \subseteq Clients!Clients
      BY ServedAssumption DEF Served, Clients!Clients
    <2> QED  BY <1>1 DEF CallPlace, Mine, StageInv, Opening, Using, Rests, Waits
  <1> HIDE DEF s
  <1>4. Truth'
    BY <1>1, <1>2, <1>3 DEF Truth, Says, Awaits, Mine
  <1>5. Holding'
    BY <1>1, <1>2, <1>3 DEF Holding, Clients!None
  <1>6. Owned'
    BY <1>1, <1>2 DEF Owned, Unheld
  <1>7. Quiet'
    BY <1>2 DEF Quiet
  <1>8. Virgin'
    BY <1>1, <1>3 DEF Virgin
  <1>9. FlagInv'
    BY <1>1, <1>2, <1>3 DEF FlagInv, Clients!FlagIsOwn
  <1>10. \A t \in Sds : t # s \/ call = [fn |-> "closesocket", sd |-> t]
    BY DEF s
  <1> QED  BY <1>2, <1>4, <1>5, <1>6, <1>7, <1>8, <1>9, <1>10 DEF Answered

\* The chip hands out the data of a socket.
LEMMA AnswerReceives ==
  ASSUME ClientsInv, NEW n, Answering(n), Says(n), call.fn = "recv", call.sd \in Sds,
         sock' = [sock EXCEPT ![call.sd].data = 0]
  PROVE  Answered(n)
  <1> USE DEF ClientsInv, Clients!IsOpen, Clients!IsUp
  <1>1. /\ UNCHANGED <<at, how, self, sd, call, ret, client, listener, via, dropped, closed, late>>
        /\ \A k : Has(k)' <=> k = n
        /\ \A k : ~Has(k)
        /\ ~Open("connect")'
        /\ at = "received"
    BY AnsweringStep, CallTellsPlace DEF Answering, CallPlace
  <1>2. /\ sock' \in [Sds -> [state : States, data : {0, 1}, gone : BOOLEAN]]
        /\ \A t \in Sds : sock'[t].state = sock[t].state /\ sock'[t].gone = sock[t].gone
        /\ \A t \in Sds : sock'[t].data \in {0, sock[t].data}
    BY DEF Types, States
  <1>3. Truth'
    BY <1>1 DEF Truth, Says, Awaits
  <1>4. Holding' /\ Quiet' /\ Virgin' /\ FlagInv'
    BY <1>1, <1>2 DEF Holding, Quiet, Virgin, FlagInv, Clients!FlagIsOwn
  <1>5. Owned'
    BY <1>1, <1>2 DEF Owned, Unheld
  <1> QED  BY <1>2, <1>3, <1>4, <1>5 DEF Answered

\* Every answer of the chip is of one of these kinds.
LEMMA ChipStep ==
  ASSUME ClientsInv, Clients!Chip
  PROVE  ClientsInv'
  <1> USE DEF ClientsInv
  <1>1. ASSUME NEW n \in Answers, NEW fn, fn # "none", Clients!Asked(fn), Clients!Answer(n),
               UNCHANGED <<at, how, self, sd, call, ret, client, listener, via, dropped, closed,
                           late>>
        PROVE  Answering(n) /\ CallPlace /\ call.fn = fn
    <2>1. call # Clients!Idle
      BY <1>1 DEF Clients!Asked, Clients!Idle
    <2> QED  BY <1>1, <2>1, CallTellsPlace DEF Answering, Clients!Asked, Clients!Answer
  <1>2. UNCHANGED <<at, how, self, sd, call, ret, client, listener, via, dropped, closed, late>>
    BY DEF Clients!Chip, Clients!prog, Clients!object
  <1>3. {-1, 0, 1, -2, Clients!GONE} \subseteq Answers /\ Sds \subseteq Answers
    BY DEF Answers
  <1>4. ASSUME NEW n, Answering(n), Answered(n)
        PROVE  ClientsInv'
    BY <1>4, AnsweringStep
  <1>5. CASE Clients!ChipSocket
    <2>1. ASSUME NEW s \in Sds, ~Clients!IsOpen(s), Clients!Put(s, "new"), Clients!Answer(s),
                 Clients!Asked("socket")
          PROVE  ClientsInv'
      <3>1. Answering(s) /\ Awaits
        BY <1>1, <1>2, <1>3, <2>1 DEF CallPlace, Awaits
      <3>2. sock' = [sock EXCEPT ![s] = Clients!Socket("new")]
        BY <2>1 DEF Clients!Put
      <3> QED  BY <1>4, <2>1, <3>1, <3>2, AnswerOpens
    <2>2. ASSUME Clients!Answer(-1), UNCHANGED sock, Clients!Asked("socket")
          PROVE  ClientsInv'
      <3>1. Answering(-1) /\ Says(-1)
        BY <1>1, <1>2, <1>3, <2>2 DEF CallPlace, Awaits, Says
      <3> QED  BY <1>4, <2>2, <3>1, AnswerAlone
    <2> QED  BY <1>5, <2>1, <2>2 DEF Clients!ChipSocket
  <1>6. CASE Clients!ChipConnect
    <2>1. ASSUME NEW n \in {0, -1}, Clients!Answer(n), Clients!Asked("connect")
          PROVE  /\ Answering(n) /\ Says(n) /\ at = "connected" /\ call.sd = sd
                 /\ sd \in Sds /\ ~Clients!IsUp(sd)
      <3>1. Answering(n) /\ CallPlace /\ call.fn = "connect"
        BY <1>1, <1>2, <1>3, <2>1
      <3>2. at = "connected" /\ call.sd = sd /\ Open("connect")
        BY <2>1, <3>1 DEF CallPlace, Open, Answering
      <3>3. sd \in Sds
        BY <3>2 DEF StageInv, Opening, Using, Rests, Waits
      <3> QED  BY <3>1, <3>2, <3>3 DEF Says, Awaits, Virgin
    <2>2. ASSUME Clients!Put(sd, "up")
          PROVE  sock' = [sock EXCEPT ![sd] = Clients!Socket("up")]
      BY <2>2 DEF Clients!Put
    <2> QED  BY <1>4, <1>6, <2>1, <2>2, AnswerConnects, AnswerAlone DEF Clients!ChipConnect
  <1>7. CASE Clients!ChipClose
    <2>1. CASE Clients!IsOpen(call.sd)
      <3>1. Answering(0) /\ call.fn = "closesocket" /\ call.sd \in Sds
        BY <1>1, <1>2, <1>3, <1>7, <2>1 DEF Clients!ChipClose, Clients!IsOpen
      <3>2. sock' = [sock EXCEPT ![call.sd] = Clients!Socket("free")]
        BY <1>7, <2>1 DEF Clients!ChipClose, Clients!Put
      <3>3. call = [fn |-> "closesocket", sd |-> call.sd]
        <4>1. ASSUME NEW f, NEW t, call = [fn |-> f, sd |-> t]
              PROVE  call = [fn |-> call.fn, sd |-> call.sd]
          BY <4>1
        <4> QED  BY <3>1, <4>1 DEF Answering, StageInv, Opening, Using, Rests, Waits
      <3> QED  BY <1>4, <2>1, <3>1, <3>2, <3>3, AnswerCloses
    <2>2. CASE ~Clients!IsOpen(call.sd)
      <3>1. /\ Answering(Clients!GONE) /\ sock' = sock
            /\ CallPlace /\ call.fn = "closesocket"
        BY <1>1, <1>2, <1>3, <1>7, <2>2 DEF Clients!ChipClose
      <3>2. Says(Clients!GONE)
        BY <2>2, <3>1 DEF Says, CallPlace, Awaits
      <3> QED  BY <1>4, <3>1, <3>2, AnswerAlone
    <2> QED  BY <2>1, <2>2
  <1>8. CASE Clients!ChipListen
    <2>1. PICK n \in {0, -1} : /\ Clients!Answer(n)
                               /\ \/ UNCHANGED sock
                                  \/ n = 0 /\ call.fn = "listen" /\ Clients!Put(call.sd, "listening")
      BY <1>8 DEF Clients!ChipListen
    <2>2. /\ Answering(n) /\ CallPlace
          /\ call.fn \in {"timeouts", "setsockopt", "bind", "listen"}
      BY <1>1, <1>2, <1>3, <1>8, <2>1 DEF Clients!ChipListen
    <2>3. at = "begin" /\ call.sd = sd /\ ~Awaits /\ Says(n)
      BY <2>2 DEF CallPlace, Awaits, Says
    <2>4. CASE UNCHANGED sock
      BY <1>4, <2>2, <2>3, <2>4, AnswerAlone
    <2>5. CASE n = 0 /\ call.fn = "listen" /\ Clients!Put(call.sd, "listening")
      <3>1. sock' = [sock EXCEPT ![sd] = Clients!Socket("listening")]
        BY <2>3, <2>5 DEF Clients!Put
      <3>2. sd \in Sds /\ ~Clients!IsUp(sd)
        BY <2>2, <2>3, <2>5, SocketsAssumption DEF CallPlace, Virgin, Clients!None
      <3> QED  BY <1>4, <2>2, <2>3, <2>5, <3>1, <3>2, AnswerConnects
    <2> QED  BY <2>1, <2>4, <2>5
  <1>9. CASE Clients!ChipAccept
    <2>1. ASSUME NEW s \in Sds, ~Clients!IsOpen(s), Clients!Put(s, "up"), Clients!Answer(s),
                 Clients!Asked("accept")
          PROVE  ClientsInv'
      <3>1. Answering(s) /\ Awaits /\ at = "accepted"
        BY <1>1, <1>2, <1>3, <2>1 DEF CallPlace, Awaits
      <3>2. sock' = [sock EXCEPT ![s] = Clients!Socket("up")]
        BY <2>1 DEF Clients!Put
      <3> QED  BY <1>4, <2>1, <3>1, <3>2, AnswerOpens
    <2>2. ASSUME Clients!Answer(-2), UNCHANGED sock, Clients!Asked("accept")
          PROVE  ClientsInv'
      <3>1. Answering(-2) /\ Says(-2)
        BY <1>1, <1>2, <1>3, <2>2 DEF CallPlace, Awaits, Says
      <3> QED  BY <1>4, <2>2, <3>1, AnswerAlone
    <2> QED  BY <1>9, <2>1, <2>2 DEF Clients!ChipAccept
  <1>10. CASE Clients!ChipSelect
    <2> DEFINE n == IF Clients!IsUp(call.sd) THEN sock[call.sd].data ELSE 0
    <2>1. n \in {0, 1}
      BY DEF Clients!IsUp, Types
    <2>2. Answering(n) /\ CallPlace /\ call.fn = "select" /\ sock' = sock
      BY <1>1, <1>2, <1>3, <1>10, <2>1 DEF Clients!ChipSelect
    <2>3. at = "selected" => Mine \in Sds
      <3> Served \subseteq Clients!Clients
        BY ServedAssumption DEF Served, Clients!Clients
      <3>1. at = "selected" => self \in Clients!Clients /\ Mine # Clients!None
        BY DEF StageInv, Opening, Using, Rests, Waits
      <3> QED  BY <3>1 DEF Mine, Types, Refs
    <2>4. at = "selected" /\ n = 0 => sock[Mine].data = 0
      BY <2>2, <2>3 DEF CallPlace, Quiet
    <2>5. Says(n)
      BY <2>1, <2>2, <2>4 DEF CallPlace, Says, Awaits
    <2> QED  BY <1>4, <2>2, <2>5, AnswerAlone
  <1>11. CASE Clients!ChipRecv
    <2>1. CASE /\ Clients!HasData(call.sd)
               /\ sock' = [sock EXCEPT ![call.sd].data = 0]
               /\ Clients!Answer(sock[call.sd].data)
      <3>1. call.sd \in Sds /\ sock[call.sd].data = 1
        BY <2>1 DEF Clients!HasData, Clients!IsUp, Types
      <3>2. Answering(1) /\ CallPlace /\ call.fn = "recv"
            /\ sock' = [sock EXCEPT ![call.sd].data = 0]
        BY <1>1, <1>2, <1>3, <1>11, <2>1, <3>1 DEF Clients!ChipRecv
      <3>3. Says(1)
        BY <3>2 DEF CallPlace, Says, Awaits
      <3> QED  BY <1>4, <3>1, <3>2, <3>3, AnswerReceives
    <2>2. CASE \E n \in {0, -1, Clients!GONE} : Clients!Answer(n) /\ sock' = sock
      <3>1. PICK n \in {0, -1, Clients!GONE} : Clients!Answer(n) /\ sock' = sock
        BY <2>2
      <3>2. Answering(n) /\ CallPlace /\ call.fn = "recv" /\ sock' = sock
        BY <1>1, <1>2, <1>3, <1>11, <3>1 DEF Clients!ChipRecv
      <3>3. Says(n)
        BY <3>1, <3>2 DEF CallPlace, Says, Awaits
      <3> QED  BY <1>4, <3>1, <3>2, <3>3, AnswerAlone
    <2> QED  BY <1>11, <2>1, <2>2 DEF Clients!ChipRecv
  <1>12. CASE Clients!ChipSend \/ Clients!ChipName
    <2>1. PICK n \in {0, 1, Clients!GONE}, fn \in {"send", "gethostbyname"} :
             Clients!Asked(fn) /\ Clients!Answer(n) /\ sock' = sock
      BY <1>12 DEF Clients!ChipSend, Clients!ChipName
    <2>2. Answering(n) /\ CallPlace /\ call.fn = fn
      BY <1>1, <1>2, <1>3, <2>1
    <2>3. Says(n)
      BY <2>1, <2>2 DEF CallPlace, Says, Awaits
    <2> QED  BY <1>4, <2>1, <2>2, <2>3, AnswerAlone
  <1> QED  BY <1>5, <1>6, <1>7, <1>8, <1>9, <1>10, <1>11, <1>12 DEF Clients!Chip

\* A socket that has been closed is not open, although its events and the
\* answer are still on their way.
LEMMA ClosedIsNotOpen ==
  ASSUME ClientsInv, NEW s, call = [fn |-> "closesocket", sd |-> s],
         NEW j \in 1..Len(transit), transit[j].what = "answer"
  PROVE  ~Clients!IsOpen(s) /\ at # "connected"
  <1> USE DEF ClientsInv
  <1>1. transit[j] = [what |-> "answer", sd |-> transit[j].sd] /\ transit[j].sd \in Answers
    <2>1. transit[j] \in [what : {"answer", "close"}, sd : Answers]
      BY ElementOfSeq DEF Types
    <2> QED  BY <2>1
  <1>2. call # Clients!Idle
    BY DEF Clients!Idle
  <1>3. Has(transit[j].sd)
    BY <1>1, <1>2 DEF Has
  <1> QED  BY <1>1, <1>2, <1>3, CallTellsPlace DEF Truth, Says, CallPlace

\* Data that come in later than the answer to select are late.
LEMMA PeerSendsStep ==
  ASSUME ClientsInv, Clients!PeerSends
  PROVE  ClientsInv'
  <1> USE DEF ClientsInv, Clients!IsOpen, Clients!IsUp
  <1>1. /\ UNCHANGED <<at, how, self, sd, call, ret, client, listener, via, dropped, closed,
                       transit>>
        /\ \A k : Has(k)' <=> Has(k)
    BY DEF Clients!PeerSends, Clients!prog, Clients!object, Has
  <1>2. PICK s \in Sds :
           /\ sock[s].state = "up" /\ ~sock[s].gone
           /\ sock' = [sock EXCEPT ![s].data = 1]
           /\ late' = (late \/ (at = "selected" /\ ~Clients!Asked("select")
                                /\ s = client[self].sock))
    BY DEF Clients!PeerSends
  <1>3. /\ sock' \in [Sds -> [state : States, data : {0, 1}, gone : BOOLEAN]]
        /\ \A t \in Sds : sock'[t].state = sock[t].state /\ sock'[t].gone = sock[t].gone
        /\ \A t : t # s => sock'[t].data = sock[t].data
        /\ late' \in BOOLEAN /\ (late => late')
    BY <1>2 DEF Types, States
  <1>4. Types' /\ StageInv' /\ OneAnswer'
    BY <1>1, <1>3 DEF Types, StageInv, Opening, Using, Rests, Waits, Mine, OneAnswer
  <1>5. Truth'
    <2> SUFFICES ASSUME NEW n \in Answers, Has(n)
                 PROVE  Says(n)'
      BY <1>1 DEF Truth
    <2>1. Says(n)
      BY DEF Truth
    <2>2. ~Clients!Asked("select")
      <3>1. CASE call = Clients!Idle
        BY <3>1 DEF Clients!Asked, Clients!Idle
      <3>2. CASE call # Clients!Idle
        <4>1. PICK i \in 1..Len(transit) : transit[i] = [what |-> "answer", sd |-> n]
          BY <3>2 DEF Has
        <4> QED  BY <4>1 DEF Clients!Asked
      <3> QED  BY <3>1, <3>2
    <2>3. at = "selected" /\ n = 0 => sock'[Mine].data = 0 \/ late'
      BY <1>2, <1>3, <2>1, <2>2 DEF Says, Mine
    <2> QED  BY <1>1, <1>3, <2>1, <2>3 DEF Says, Awaits, Unheld, Mine
  <1>6. Holding' /\ Quiet' /\ FlagInv'
    BY <1>1, <1>2, <1>3 DEF Holding, Quiet, FlagInv, Clients!FlagIsOwn
  <1>7. Virgin'
    BY <1>1, <1>3 DEF Virgin, Open, Clients!Asked
  <1>8. Owned'
    BY <1>1, <1>3 DEF Owned, Unheld, Awaits
  <1>9. Current'
    BY <1>1, <1>3 DEF Current
  <1> QED  BY <1>4, <1>5, <1>6, <1>7, <1>8, <1>9

\* A peer closes once per connection, and the event is on its way behind whatever
\* the chip sent before.
LEMMA PeerClosesStep ==
  ASSUME ClientsInv, Clients!PeerCloses
  PROVE  ClientsInv'
  <1> USE DEF ClientsInv, Clients!IsOpen, Clients!IsUp
  <1>1. UNCHANGED <<at, how, self, sd, call, ret, client, listener, via, dropped, closed, late>>
    BY DEF Clients!PeerCloses, Clients!prog, Clients!object
  <1>2. PICK s \in Sds :
           /\ sock[s].state = "up" /\ ~sock[s].gone
           /\ sock' = [sock EXCEPT ![s].gone = TRUE]
           /\ transit' = Append(transit, [what |-> "close", sd |-> s])
    BY DEF Clients!PeerCloses
  <1> DEFINE l == Len(transit)
             e == [what |-> "close", sd |-> s]
             Msg == [what : {"answer", "close"}, sd : Answers]
  <1>3. /\ sock' \in [Sds -> [state : States, data : {0, 1}, gone : BOOLEAN]]
        /\ \A t \in Sds : sock'[t].state = sock[t].state /\ sock'[t].data = sock[t].data
        /\ \A t \in Sds : sock[t].gone => sock'[t].gone
        /\ \A t \in Sds : t # s => sock'[t] = sock[t]
        /\ sock'[s].gone
    BY <1>2 DEF Types, States
  <1>4. transit \in Seq(Msg) /\ e \in Msg
    BY DEF Types, Answers
  <1>5. /\ l \in Nat /\ transit' \in Seq(Msg) /\ Len(transit') = l + 1
        /\ transit'[l + 1] = e
        /\ \A i \in 1..l : transit'[i] = transit[i]
    BY <1>2, <1>4, AppendProperties, LenProperties
  <1>6. \A i \in 1..l+1 : i \in 1..l \/ i = l + 1
    BY <1>5
  <1>7. e.what = "close" /\ e.sd = s
    OBVIOUS
  <1> HIDE DEF e
  <1>8. \A k : Has(k)' <=> Has(k)
    <2> TAKE k
    <2> DEFINE a == [what |-> "answer", sd |-> k]
    <2>1. e # a
      BY <1>7
    <2> HIDE DEF a
    <2>2. (\E i \in 1..l+1 : transit'[i] = a) <=> (\E i \in 1..l : transit[i] = a)
      BY <1>5, <1>6, <2>1
    <2> QED  BY <1>1, <1>5, <2>2 DEF Has, a
  <1>9. Types' /\ StageInv'
    BY <1>1, <1>3, <1>5 DEF Types, StageInv, Opening, Using, Rests, Waits, Mine
  <1>10. OneAnswer'
    <2> SUFFICES ASSUME NEW i \in 1..l+1, NEW j \in 1..l+1, transit'[i].what = "answer"
                 PROVE  call # Clients!Idle /\ (transit'[j].what = "answer" => i = j)
      BY <1>1, <1>5 DEF OneAnswer
    <2>1. i \in 1..l /\ transit'[i] = transit[i]
      BY <1>5, <1>6, <1>7
    <2>2. transit'[j].what = "answer" => j \in 1..l /\ transit'[j] = transit[j]
      BY <1>5, <1>6, <1>7
    <2> QED  BY <2>1, <2>2 DEF OneAnswer
  <1>11. Truth'
    <2> SUFFICES ASSUME NEW n \in Answers, Has(n)
                 PROVE  Says(n)'
      BY <1>1, <1>8 DEF Truth
    <2>1. Says(n)
      BY DEF Truth
    <2>2. \A t : sock'[t].data = sock[t].data
      BY <1>2 DEF Types
    <2> QED  BY <1>1, <1>3, <2>1, <2>2 DEF Says, Awaits, Unheld, Mine
  <1>12. Holding' /\ Quiet' /\ FlagInv'
    BY <1>1, <1>2, <1>3 DEF Holding, Quiet, FlagInv, Clients!FlagIsOwn
  <1>13. Virgin'
    <2>1. Open("connect")' => Open("connect")
      BY <1>1, <1>5 DEF Open, Clients!Asked
    <2> QED  BY <1>1, <1>3, <2>1 DEF Virgin
  <1>14. Owned'
    BY <1>1, <1>3, <1>8 DEF Owned, Unheld, Awaits
  <1>15. \A i \in 1..l : transit[i] # e
    <2> SUFFICES ASSUME NEW i \in 1..l, transit[i] = e
                 PROVE  FALSE
      OBVIOUS
    <2>1. \/ sock[s].gone
          \/ /\ call = [fn |-> "closesocket", sd |-> s]
             /\ \E j \in i+1..l : transit[j].what = "answer"
      BY <1>7 DEF Current
    <2>2. \A j \in i+1..l : j \in 1..l
      BY <1>5
    <2> QED  BY <1>2, <2>1, <2>2, ClosedIsNotOpen
  <1>16. Current'
    <2> SUFFICES ASSUME NEW i \in 1..l+1, transit'[i].what = "close"
                 PROVE  /\ transit'[i].sd \in Sds
                        /\ \/ /\ sock'[transit'[i].sd].state = "up"
                              /\ sock'[transit'[i].sd].gone
                           \/ /\ call = [fn |-> "closesocket", sd |-> transit'[i].sd]
                              /\ \E j \in i+1..l+1 : transit'[j].what = "answer"
                        /\ \A j \in 1..l+1 : transit'[j] = transit'[i] => j = i
      BY <1>1, <1>5 DEF Current
    <2>1. CASE i = l + 1
      BY <1>2, <1>3, <1>5, <1>6, <1>7, <1>15, <2>1
    <2>2. CASE i \in 1..l
      <3>1. /\ transit'[i] = transit[i] /\ transit[i].sd \in Sds
            /\ \/ sock[transit[i].sd].state = "up" /\ sock[transit[i].sd].gone
               \/ /\ call = [fn |-> "closesocket", sd |-> transit[i].sd]
                  /\ \E j \in i+1..l : transit[j].what = "answer"
            /\ \A j \in 1..l : transit[j] = transit[i] => j = i
        BY <1>5, <2>2 DEF Current
      <3>2. \A j \in i+1..l : j \in i+1..l+1 /\ transit'[j] = transit[j]
        BY <1>5, <2>2
      <3>3. \A j \in 1..l+1 : transit'[j] = transit'[i] => j = i
        BY <1>5, <1>6, <1>15, <2>2, <3>1
      <3> QED  BY <1>3, <3>1, <3>2, <3>3
    <2> QED  BY <1>6, <2>1, <2>2
  <1> QED  BY <1>9, <1>10, <1>11, <1>12, <1>13, <1>14, <1>16

-----------------------------------------------------------------------------
(* The clients: the theorems.                                              *)

\* Every step keeps the invariant, those of the station because they leave the
\* clients alone.
LEMMA ClientsStep == ClientsInv /\ [Next]_allVars => ClientsInv'
  <1> SUFFICES ASSUME ClientsInv, [Next]_allVars
               PROVE  ClientsInv'
    OBVIOUS
  <1>1. CASE Clients!Next
    BY <1>1, MainStep, DeliverStep, ChipStep, PeerSendsStep, PeerClosesStep
       DEF Clients!Next, Clients!Peer
  <1>2. CASE UNCHANGED clientVars
    <2>1. UNCHANGED <<at, how, self, sd, call, ret, client, listener, closed, transit, sock,
                      via, dropped, late>>
      BY <1>2 DEF clientVars
    <2>2. Types' /\ StageInv' /\ OneAnswer' /\ Quiet' /\ Current'
      BY <2>1 DEF ClientsInv, Types, StageInv, Opening, Using, Rests, Waits, Mine, OneAnswer,
                  Quiet, Current, Clients!IsUp
    <2>3. \A n : Has(n)' <=> Has(n)
      BY <2>1 DEF Has
    <2>4. Truth' /\ Owned'
      BY <2>1, <2>3 DEF ClientsInv, Truth, Says, Owned, Awaits, Unheld, Mine, Clients!IsUp,
                        Clients!IsOpen
    <2>5. Holding' /\ Virgin' /\ FlagInv'
      BY <2>1 DEF ClientsInv, Holding, Virgin, FlagInv, Open, Clients!Asked, Clients!FlagIsOwn,
                  Clients!IsUp, Clients!IsOpen
    <2> QED  BY <2>2, <2>4, <2>5 DEF ClientsInv
  <1> QED  BY <1>1, <1>2 DEF Next, OnClients, OnStation, allVars

\* At first the sketch is between calls, and every socket of the chip is free.
LEMMA InitClients == Init => ClientsInv
  <1> SUFFICES ASSUME Init
               PROVE  ClientsInv
    OBVIOUS
  <1> USE DEF Clients!None, Clients!Idle
  <1>1. /\ at = "sketch" /\ how = "none" /\ self = 0 /\ sd = -1
        /\ call = Clients!Idle /\ ret = 0 /\ listener = -1 /\ dropped = {}
        /\ closed = {} /\ transit = <<>> /\ late = FALSE
        /\ client = [c \in Clients!Clients |-> [sock |-> -1, buffered |-> 0]]
        /\ via = [c \in Clients!Clients |-> "none"]
        /\ sock = [s \in Sds |-> [state |-> "free", data |-> 0, gone |-> FALSE]]
    BY DEF Init, Clients!Init, Clients!Socket
  <1>2. 0 \in Clients!Clients /\ -1 \notin Sds /\ Len(transit) = 0
    BY <1>1, SocketsAssumption, ServedAssumption DEF Clients!Clients
  <1>3. Types
    <2>1. transit \in Seq([what : {"answer", "close"}, sd : Answers])
      BY <1>1
    <2>2. closed \subseteq Sds /\ dropped \subseteq Sds /\ late \in BOOLEAN
      BY <1>1
    <2>3. ret \in Answers /\ sd \in Refs /\ listener \in Refs
      BY <1>1 DEF Answers, Refs
    <2>4. client \in [Clients!Clients -> [sock : Refs, buffered : {0, 1}]]
      BY <1>1 DEF Refs
    <2>5. via \in [Clients!Clients -> {"none", "fresh", "stale"}]
      BY <1>1
    <2>6. sock \in [Sds -> [state : States, data : {0, 1}, gone : BOOLEAN]]
      BY <1>1 DEF States
    <2> QED  BY <2>1, <2>2, <2>3, <2>4, <2>5, <2>6 DEF Types
  <1>4. StageInv
    BY <1>1 DEF StageInv, Using, Rests, Refs
  <1>5. OneAnswer /\ Current
    BY <1>2 DEF OneAnswer, Current
  <1>6. Truth /\ Virgin
    BY <1>1 DEF Truth, Says, Awaits, Virgin, Open
  <1>7. Holding /\ Owned /\ Quiet
    BY <1>1 DEF Holding, Owned, Quiet, Clients!IsOpen, Clients!IsUp
  <1>8. FlagInv
    BY <1>1 DEF FlagInv, Clients!FlagIsOwn
  <1> QED  BY <1>3, <1>4, <1>5, <1>6, <1>7, <1>8 DEF ClientsInv

\* A socket that is open on the chip is a client's, the server's or the one the
\* method at work has in hand, or one that connect() or begin() is known to
\* drop; and it is never that of two clients (Adafruit_CC3000.cpp connectTCP,
\* connect, close; Adafruit_CC3000_Server.cpp begin, acceptNewConnections).
THEOREM SocketsHaveOwners == Spec => []SocketsAreOwned
  <1>1. ClientsInv => SocketsAreOwned
    <2> SUFFICES ASSUME ClientsInv, NEW s \in Sds
                 PROVE  /\ Clients!IsOpen(s) => \/ Clients!Owners(s) # {} \/ listener = s
                                                \/ Clients!InHand(s) \/ s \in dropped
                        /\ \A c, d \in Clients!Owners(s) : c = d
      BY DEF SocketsAreOwned, Clients!SocketsAreOwned
    <2>1. Clients!IsOpen(s) => ~Unheld(s) \/ (Awaits /\ Has(s))
      BY DEF ClientsInv, Owned
    <2>2. ~Unheld(s) => \/ Clients!Owners(s) # {} \/ listener = s \/ Clients!InHand(s)
                        \/ s \in dropped
      BY DEF Unheld, Clients!Owners, Clients!InHand
    <2>3. Awaits /\ Has(s) => Clients!InHand(s)
      BY DEF Awaits, Has, Clients!InHand
    <2>4. s # Clients!None
      BY SocketsAssumption DEF Clients!None
    <2>5. \A c, d \in Clients!Owners(s) : c = d
      BY <2>4 DEF ClientsInv, Holding, Clients!Owners
    <2> QED  BY <2>1, <2>2, <2>3, <2>5
  <1> QED  BY <1>1, InitClients, ClientsStep, PTL DEF Spec

\* What closed_sockets says of a socket is what became of this connection,
\* whoever had the number before; and so connected() closes a socket only when
\* nothing is left to read in it but what came after it had asked
\* (Adafruit_CC3000.cpp connectTCP, connect, connected; evnt_handler.cpp).
THEOREM FlagsAreOwn == Spec => []ClosesOnlyItsOwn
  <1>1. ClientsInv => ClosesOnlyItsOwn
    <2> SUFFICES ASSUME ClientsInv
                 PROVE  ClosesOnlyItsOwn
      OBVIOUS
    <2>1. ASSUME at = "selected", call = Clients!Idle, Clients!IsOver
          PROVE  sock[client[self].sock].data = 0 \/ late
      BY <2>1, Delivered DEF ClientsInv, Clients!IsOver, Mine
    <2> QED  BY <2>1 DEF ClosesOnlyItsOwn, Clients!ClosesOnlyEmpty, ClientsInv, FlagInv
  <1> QED  BY <1>1, InitClients, ClientsStep, PTL DEF Spec

-----------------------------------------------------------------------------
(* The types: what is on its way to a client.                              *)

\* The places of what is on its way can be told apart by the socket, and by
\* None for the answer: so there are no more of them than that.
LEMMA TransitIsBounded == ClientsInv => Len(transit) <= Cardinality(Sds) + 1
  <1> SUFFICES ASSUME ClientsInv
               PROVE  Len(transit) <= Cardinality(Sds) + 1
    OBVIOUS
  <1> DEFINE n == Len(transit)
             f == [i \in 1..n |-> IF transit[i].what = "close" THEN transit[i].sd
                                  ELSE Clients!None]
  <1>1. n \in Nat /\ \A i \in 1..n : transit[i] \in [what : {"answer", "close"}, sd : Answers]
    BY ElementOfSeq, LenProperties DEF ClientsInv, Types
  <1>2. Clients!None \notin Sds
    BY SocketsAssumption DEF Clients!None
  <1>3. f \in [1..n -> Refs]
    BY DEF ClientsInv, Current, Refs
  <1>4. ASSUME NEW i \in 1..n, NEW j \in 1..n, f[i] = f[j]
        PROVE  i = j
    <2>1. CASE transit[i].what = "close"
      <3>1. transit[i].sd \in Sds
        BY <2>1 DEF ClientsInv, Current
      <3>2. transit[j].what = "close" /\ transit[j].sd = transit[i].sd
        BY <1>2, <1>4, <2>1, <3>1
      <3>3. transit[j] = transit[i]
        BY <1>1, <2>1, <3>2
      <3> QED  BY <2>1, <3>3 DEF ClientsInv, Current
    <2>2. CASE transit[i].what # "close"
      <3>1. transit[j].what # "close"
        BY <1>2, <1>4, <2>2 DEF ClientsInv, Current
      <3>2. transit[i].what = "answer" /\ transit[j].what = "answer"
        BY <1>1, <2>2, <3>1
      <3> QED  BY <3>2 DEF ClientsInv, OneAnswer
    <2> QED  BY <2>1, <2>2
  <1> HIDE DEF f
  <1>5. f \in Injection(1..n, Refs)
    BY <1>3, <1>4 DEF Injection, IsInjective
  <1>6. IsFiniteSet(Refs) /\ Cardinality(Refs) = Cardinality(Sds) + 1
    BY <1>2, SocketsAssumption, FS_AddElement DEF Refs
  <1>7. Cardinality(1..n) <= Cardinality(Refs)
    BY <1>5, <1>6, FS_Injection
  <1>8. Cardinality(1..n) = n
    <2>1. Cardinality(1..n) = IF 1 > n THEN 0 ELSE n - 1 + 1
      BY <1>1, FS_Interval
    <2> QED  BY <1>1, <2>1
  <1> QED  BY <1>6, <1>7, <1>8

\* Where the invariant has the main program, the variables are of their types.
LEMMA ClientsTypes == ClientsInv => Clients!ClientsTypeOK
  <1> SUFFICES ASSUME ClientsInv
               PROVE  Clients!ClientsTypeOK
    OBVIOUS
  <1>1. self \in Clients!Clients \cup 1..5 /\ Len(Clients!Steps) = 5
    BY ServedAssumption
       DEF ClientsInv, StageInv, Opening, Using, Rests, Waits, Served, Clients!Clients,
           Clients!Steps
  <1>2. at \in {"sketch", "resolved", "opened", "connected", "unlinked", "begin", "test",
                "selected", "over", "available", "counted", "received", "shut", "next",
                "accepted", "written", "sent"}
    BY DEF ClientsInv, StageInv, Opening, Using, Rests, Waits
  <1>3. self \in Clients!Clients => Mine \in Refs
    BY DEF ClientsInv, Types, Mine
  <1>4. call.sd \in Refs
    BY <1>3, ServedAssumption
       DEF ClientsInv, Types, StageInv, Opening, Using, Rests, Waits, Served, Clients!Clients,
           Clients!Idle, Refs
  <1> QED  BY <1>1, <1>2, <1>4 DEF ClientsInv, Types, Clients!ClientsTypeOK, Refs, Answers, States

-----------------------------------------------------------------------------
(* The types: the methods of the class as scripts.                         *)

Jumps  == {"while", "loop", "try", "until", "attempt"}
Plain  == {"must", "call", "wait", "watch", "need", "stop", "start", "ready", "begun",
           "clear", "initialised"}
Words  == {"", "IsConnected", "HasDHCP", "IsSmartConfigFinished", "set_event_mask",
           "nvmem_read", "nvmem_read_sp_version", "manual", "del_profile", "config_mac",
           "netapp_dhcp", "set_scan_params", "scan_results", "join", "leave", "create_entry",
           "write_key", "set_prefix", "smart_config", "smart_config_process", "auto", "mdns",
           "statusget", "ipconfig", "gethostbyname", "ping_send"}
Plains == [do : Plain, arg : Words]

\* A script whose jumps have somewhere to go.
Sound(s) ==
  /\ s \in Seq([do : Plain \cup Jumps, arg : Words])
  /\ \A i \in 1..Len(s) :
       /\ s[i].do = "while" => i + 2 <= Len(s)
       /\ s[i].do = "loop"  => \E j \in 1..Len(s) : s[j].do = "while"
       /\ s[i].do = "try"   => \E j \in 1..Len(s) : s[j].do = "until"
       /\ s[i].do = "until" => \E j \in 1..Len(s) : s[j].do = "attempt"

\* Steps without jumps are steps.
LEMMA PlainsAreSteps ==
  \A s \in Seq(Plains) : s \in Seq([do : Plain \cup Jumps, arg : Words])
  <1>1. Plains \subseteq [do : Plain \cup Jumps, arg : Words]
    BY DEF Plains
  <1> QED  BY <1>1, SeqMonotonic

\* One without jumps is sound, also behind one that is.
LEMMA PlainIsSound ==
  ASSUME NEW s \in Seq(Plains)
  PROVE  Sound(s)
  <1>1. \A i \in 1..Len(s) : s[i].do \in Plain
    <2> TAKE i \in 1..Len(s)
    <2>1. s[i] \in Plains
      BY ElementOfSeq
    <2> QED  BY <2>1 DEF Plains
  <1>2. s \in Seq([do : Plain \cup Jumps, arg : Words])
    BY PlainsAreSteps
  <1> QED  BY <1>1, <1>2 DEF Sound, Plain

\* A sound one stays so with plain steps behind it.
LEMMA PlainBehindSound ==
  ASSUME NEW s, Sound(s), NEW t \in Seq(Plains)
  PROVE  Sound(s \o t)
  <1> DEFINE All == [do : Plain \cup Jumps, arg : Words]
  <1>1. s \in Seq(All) /\ t \in Seq(All)
    BY PlainsAreSteps DEF Sound
  <1>2. /\ s \o t \in Seq(All) /\ Len(s \o t) = Len(s) + Len(t)
        /\ Len(s) \in Nat /\ Len(t) \in Nat
        /\ \A i \in 1..Len(s) + Len(t) : (s \o t)[i] = IF i <= Len(s) THEN s[i] ELSE t[i - Len(s)]
    BY <1>1, ConcatProperties, LenProperties
  <1>3. \A i \in 1..Len(s) : i \in 1..Len(s \o t) /\ (s \o t)[i] = s[i]
    BY <1>2
  <1>4. \A i \in 1..Len(s \o t) : i \in 1..Len(s) \/ (s \o t)[i].do \in Plain
    <2> TAKE i \in 1..Len(s \o t)
    <2>1. CASE i <= Len(s)
      BY <1>2, <2>1
    <2>2. CASE ~(i <= Len(s))
      <3>1. i - Len(s) \in 1..Len(t) /\ (s \o t)[i] = t[i - Len(s)]
        BY <1>2, <2>2
      <3>2. t[i - Len(s)] \in Plains
        BY <3>1, ElementOfSeq
      <3> QED  BY <3>1, <3>2 DEF Plains
    <2> QED  BY <2>1, <2>2
  <1>5. ASSUME NEW i \in 1..Len(s \o t)
        PROVE  /\ (s \o t)[i].do = "while" => i + 2 <= Len(s \o t)
               /\ (s \o t)[i].do = "loop"  => \E j \in 1..Len(s \o t) : (s \o t)[j].do = "while"
               /\ (s \o t)[i].do = "try"   => \E j \in 1..Len(s \o t) : (s \o t)[j].do = "until"
               /\ (s \o t)[i].do = "until" => \E j \in 1..Len(s \o t) : (s \o t)[j].do = "attempt"
    <2>1. CASE (s \o t)[i].do \in Plain
      BY <2>1 DEF Plain
    <2>2. CASE i \in 1..Len(s)
      <3>1. (s \o t)[i] = s[i]
        BY <1>3, <2>2
      <3>2. s[i].do = "while" => i + 2 <= Len(s \o t)
        BY <1>2, <2>2 DEF Sound
      <3> QED  BY <1>3, <2>2, <3>1, <3>2 DEF Sound
    <2> QED  BY <1>4, <2>1, <2>2
  <1> QED  BY <1>2, <1>5 DEF Sound

\* Every step that is not a jump.
LEMMA PlainSteps ==
  /\ \A x \in Words : /\ Station!Must(x) \in Plains /\ Station!Call(x) \in Plains
                       /\ Station!Wait(x) \in Plains /\ Station!Watch(x) \in Plains
                       /\ Station!Need(x) \in Plains
  /\ \A x \in Plain : Station!Do(x) \in Plains
  /\ Station!Ready \in Plains
  /\ Station!Restart \in Seq(Plains) /\ Station!Announce \in Seq(Plains)
  /\ Station!HasLink \in Seq(Plains)
  <1>1. \A x \in Words : /\ Station!Must(x) \in Plains /\ Station!Call(x) \in Plains
                          /\ Station!Wait(x) \in Plains /\ Station!Watch(x) \in Plains
                          /\ Station!Need(x) \in Plains
    BY DEF Plains, Plain, Station!Must, Station!Call, Station!Wait, Station!Watch, Station!Need
  <1>2. \A x \in Plain : Station!Do(x) \in Plains
    <2> TAKE x \in Plain
    <2>1. "" \in Words
      BY DEF Words
    <2> QED  BY <2>1 DEF Plains, Station!Do
  <1>3. Station!Ready \in Plains
    BY <1>2 DEF Station!Ready, Plain
  <1>4. Station!Restart \in Seq(Plains)
    <2>1. Station!Do("stop") \in Plains /\ Station!Do("start") \in Plains
      BY <1>2 DEF Plain
    <2> QED  BY <2>1 DEF Station!Restart
  <1>5. Station!Announce \in Seq(Plains)
    <2>1. Station!Need("HasDHCP") \in Plains /\ Station!Call("mdns") \in Plains
      BY <1>1 DEF Words
    <2> QED  BY <2>1 DEF Station!Announce
  <1>6. Station!HasLink \in Seq(Plains)
    <2>1. Station!Need("IsConnected") \in Plains /\ Station!Need("HasDHCP") \in Plains
      BY <1>1 DEF Words
    <2> QED  BY <1>3, <2>1 DEF Station!HasLink
  <1> QED  BY <1>1, <1>2, <1>3, <1>4, <1>5, <1>6

\* Joining two rows of plain steps gives another.
LEMMA PlainConcat ==
  ASSUME NEW s \in Seq(Plains), NEW t \in Seq(Plains)
  PROVE  s \o t \in Seq(Plains)
  BY ConcatProperties

\* begin() has no jumps.
LEMMA BeginIsPlain ==
  ASSUME NEW smart \in BOOLEAN
  PROVE  Station!begin(smart) \in Seq(Plains)
  <1>1. <<Station!Do("begun"), Station!Do("start")>> \in Seq(Plains)
    <2>1. Station!Do("begun") \in Plains /\ Station!Do("start") \in Plains
      BY PlainSteps DEF Plain
    <2> QED  BY <2>1
  <1> DEFINE b == IF smart THEN <<Station!Call("auto")>>
                  ELSE <<Station!Call("manual"), Station!Call("del_profile")>>
             c == <<Station!Must("set_event_mask"), Station!Do("initialised")>>
             d == IF smart THEN <<Station!Wait("IsConnected")>> \o Station!Announce ELSE <<>>
  <1>2. b \in Seq(Plains)
    <2>1. /\ Station!Call("auto") \in Plains /\ Station!Call("manual") \in Plains
          /\ Station!Call("del_profile") \in Plains
      BY PlainSteps DEF Words
    <2> QED  BY <2>1
  <1>3. c \in Seq(Plains)
    <2>1. Station!Must("set_event_mask") \in Plains /\ Station!Do("initialised") \in Plains
      BY PlainSteps DEF Words, Plain
    <2> QED  BY <2>1
  <1>4. d \in Seq(Plains)
    <2>1. Station!Wait("IsConnected") \in Plains
      BY PlainSteps DEF Words
    <2>2. <<Station!Wait("IsConnected")>> \in Seq(Plains)
      BY <2>1
    <2>3. <<Station!Wait("IsConnected")>> \o Station!Announce \in Seq(Plains)
      BY <2>2, PlainSteps, PlainConcat
    <2>4. <<>> \in Seq(Plains)
      OBVIOUS
    <2> QED  BY <2>3, <2>4
  <1>5. Station!begin(smart) = <<Station!Do("begun"), Station!Do("start")>> \o b \o c \o d
    BY DEF Station!begin
  <1> HIDE DEF b, c, d
  <1> QED  BY <1>1, <1>2, <1>3, <1>4, <1>5, PlainConcat

\* startSmartConfig has one loop, which leaves the network; what follows is plain.
LEMMA SmartConfigIsSound ==
  ASSUME NEW aes \in BOOLEAN
  PROVE  Sound(Station!startSmartConfig(aes))
  <1> DEFINE a == <<Station!Do("clear"), Station!Ready, Station!Must("manual"),
                    Station!Must("del_profile")>>
             k == IF aes THEN <<Station!Must("write_key")>> ELSE <<>>
             w == <<Station!Must("set_prefix"), Station!Must("smart_config"),
                    Station!Wait("IsSmartConfigFinished")>>
             p == IF aes THEN <<Station!Must("smart_config_process")>> ELSE <<>>
             z == <<Station!Must("set_event_mask"), Station!Wait("IsConnected")>>
  <1>1. Sound(a \o Station!Leave)
    <2> DEFINE s == a \o Station!Leave
               All == [do : Plain \cup Jumps, arg : Words]
    <2>1. /\ Station!Do("clear") \in Plains /\ Station!Ready \in Plains
          /\ Station!Must("manual") \in Plains /\ Station!Must("del_profile") \in Plains
          /\ Station!Must("leave") \in Plains
      BY PlainSteps DEF Plain, Words
    <2>2. Plains \subseteq All
      BY DEF Plains
    <2>3. /\ Station!While("IsConnected") \in All /\ Station!Do("loop") \in All
          /\ Station!While("IsConnected").do = "while" /\ Station!Do("loop").do = "loop"
      BY DEF Station!While, Station!Do, Jumps, Words
    <2>4. /\ a \in Seq(All) /\ Len(a) = 4
          /\ a[1] \in Plains /\ a[2] \in Plains /\ a[3] \in Plains /\ a[4] \in Plains
      BY <2>1, <2>2
    <2>5. /\ Station!Leave \in Seq(All) /\ Len(Station!Leave) = 3
          /\ Station!Leave[1].do = "while" /\ Station!Leave[2] \in Plains
          /\ Station!Leave[3].do = "loop"
      BY <2>1, <2>2, <2>3 DEF Station!Leave
    <2> HIDE DEF a, All
    <2>6. /\ s \in Seq(All) /\ Len(s) = 7
          /\ \A i \in 1..7 : s[i] = IF i <= 4 THEN a[i] ELSE Station!Leave[i - 4]
      <3>1. /\ s \in Seq(All) /\ Len(s) = Len(a) + Len(Station!Leave)
            /\ \A i \in 1..Len(a) + Len(Station!Leave) :
                 s[i] = IF i <= Len(a) THEN a[i] ELSE Station!Leave[i - Len(a)]
        BY <2>4, <2>5, ConcatProperties
      <3> HIDE DEF s
      <3> QED  BY <2>4, <2>5, <3>1
    <2> HIDE DEF s
    <2>7. \A x \in Plains : x.do \in Plain
      BY DEF Plains
    <2>8. s[5].do = "while" /\ s[7].do = "loop"
      BY <2>5, <2>6
    <2>9. \A i \in 1..7 : i = 5 \/ i = 7 \/ s[i].do \in Plain
      <3> TAKE i \in 1..7
      <3>1. CASE i <= 4
        <4>1. s[i] = a[i] /\ i \in {1, 2, 3, 4}
          BY <2>6, <3>1
        <4> QED  BY <2>4, <2>7, <4>1
      <3>2. CASE i = 6
        BY <2>5, <2>6, <2>7, <3>2
      <3> QED  BY <3>1, <3>2
    <2>10. \A i \in 1..Len(s) :
             /\ s[i].do = "while" => i + 2 <= Len(s)
             /\ s[i].do \notin {"try", "until"}
      <3> TAKE i \in 1..Len(s)
      <3>1. i = 5 \/ i = 7 \/ s[i].do \in Plain
        BY <2>6, <2>9
      <3> QED  BY <2>6, <2>8, <3>1 DEF Plain
    <2>11. Sound(s)
      BY <2>6, <2>8, <2>10 DEF Sound, All
    <2> QED  BY <2>11 DEF s
  <1>2. k \in Seq(Plains) /\ p \in Seq(Plains)
    <2>1. Station!Must("write_key") \in Plains /\ Station!Must("smart_config_process") \in Plains
      BY PlainSteps DEF Words
    <2> QED  BY <2>1
  <1>3. w \in Seq(Plains)
    <2>1. /\ Station!Must("set_prefix") \in Plains /\ Station!Must("smart_config") \in Plains
          /\ Station!Wait("IsSmartConfigFinished") \in Plains
      BY PlainSteps DEF Words
    <2> QED  BY <2>1
  <1>4. z \in Seq(Plains)
    <2>1. Station!Must("set_event_mask") \in Plains /\ Station!Wait("IsConnected") \in Plains
      BY PlainSteps DEF Words
    <2> QED  BY <2>1
  <1>5. <<Station!Must("create_entry")>> \in Seq(Plains)
        /\ <<Station!Must("auto")>> \in Seq(Plains)
    <2>1. Station!Must("create_entry") \in Plains /\ Station!Must("auto") \in Plains
      BY PlainSteps DEF Words
    <2> QED  BY <2>1
  <1>6. Station!startSmartConfig(aes)
          = a \o Station!Leave \o Station!Restart \o <<Station!Must("create_entry")>> \o k \o w
              \o p \o <<Station!Must("auto")>> \o Station!Restart \o z \o Station!Announce
    BY DEF Station!startSmartConfig
  <1> HIDE DEF a, k, w, p, z
  <1> QED  BY <1>1, <1>2, <1>3, <1>4, <1>5, <1>6, PlainBehindSound, PlainSteps

\* connectToAP goes back to its first step for the next attempt.
LEMMA ConnectIsSound == Sound(Station!connectToAP)
  <1> DEFINE s == Station!connectToAP
             All == [do : Plain \cup Jumps, arg : Words]
  <1>1. /\ Station!Ready \in Plains /\ Station!Call("set_scan_params") \in Plains
        /\ Station!Watch("IsConnected") \in Plains
    BY PlainSteps DEF Words
  <1>2. Plains \subseteq All
    BY DEF Plains
  <1>3. /\ Station!Do("attempt") \in All /\ Station!Try("manual") \in All
        /\ Station!Try("join") \in All /\ Station!Until("IsConnected") \in All
        /\ Station!Do("attempt").do = "attempt" /\ Station!Until("IsConnected").do = "until"
        /\ Station!Try("manual").do = "try" /\ Station!Try("join").do = "try"
    BY DEF Station!Do, Station!Try, Station!Until, Jumps, Words
  <1>4. /\ s \in Seq(All) /\ Len(s) = 8
        /\ s[1] \in Plains /\ s[2].do = "attempt" /\ s[3] \in Plains /\ s[4] \in Plains
        /\ s[5].do = "try" /\ s[6].do = "try" /\ s[7] \in Plains /\ s[8].do = "until"
    BY <1>1, <1>2, <1>3 DEF Station!connectToAP
  <1> HIDE DEF s, All
  <1>5. \A x \in Plains : x.do \in Plain
    BY DEF Plains
  <1>6. \A i \in 1..8 : s[i].do \in Plain \cup {"attempt", "try", "until"}
    BY <1>4, <1>5
  <1>7. \A i \in 1..Len(s) : s[i].do \notin {"while", "loop"}
    BY <1>4, <1>6 DEF Plain
  <1> QED  BY <1>4, <1>7 DEF Sound, s, All

\* All the scripts are sound.
LEMMA ScriptsAreSound == \A m \in DOMAIN Station!Script : Sound(Station!Script[m])
  <1>1. /\ Sound(Station!begin(FALSE)) /\ Sound(Station!begin(TRUE))
        /\ Sound(Station!startSmartConfig(FALSE)) /\ Sound(Station!startSmartConfig(TRUE))
        /\ Sound(Station!connectToAP)
    BY BeginIsPlain, PlainIsSound, SmartConfigIsSound, ConnectIsSound
  <1>2. /\ Sound(Station!reboot) /\ Sound(Station!stop) /\ Sound(Station!setMacAddress)
        /\ Sound(Station!setStaticIPAddress)
    <2>1. /\ Station!Ready \in Plains /\ Station!Do("stop") \in Plains
          /\ Station!Must("config_mac") \in Plains /\ Station!Must("netapp_dhcp") \in Plains
      BY PlainSteps DEF Plain, Words
    <2>2. /\ <<Station!Ready>> \in Seq(Plains) /\ Station!stop \in Seq(Plains)
          /\ <<Station!Ready, Station!Must("config_mac")>> \in Seq(Plains)
          /\ <<Station!Must("netapp_dhcp")>> \in Seq(Plains)
      BY <2>1 DEF Station!stop
    <2> QED  BY <2>2, PlainSteps, PlainConcat, PlainIsSound
             DEF Station!reboot, Station!setMacAddress, Station!setStaticIPAddress
  <1>3. /\ Sound(Station!connectOpen) /\ Sound(Station!disconnect)
        /\ Sound(Station!deleteProfiles) /\ Sound(Station!getMacAddress)
        /\ Sound(Station!getFirmwareVersion) /\ Sound(Station!getStatus)
        /\ Sound(Station!getNextSSID) /\ Sound(Station!checkDHCP)
    <2>1. /\ Station!Ready \in Plains /\ Station!Must("manual") \in Plains
          /\ Station!Must("join") \in Plains /\ Station!Call("leave") \in Plains
          /\ Station!Must("del_profile") \in Plains /\ Station!Must("nvmem_read") \in Plains
          /\ Station!Must("nvmem_read_sp_version") \in Plains
          /\ Station!Call("statusget") \in Plains /\ Station!Must("scan_results") \in Plains
          /\ Station!Need("HasDHCP") \in Plains /\ Station!Call("gethostbyname") \in Plains
      BY PlainSteps DEF Words
    <2>2. /\ Station!connectOpen \in Seq(Plains) /\ Station!disconnect \in Seq(Plains)
          /\ Station!deleteProfiles \in Seq(Plains) /\ Station!getMacAddress \in Seq(Plains)
          /\ Station!getFirmwareVersion \in Seq(Plains) /\ Station!getStatus \in Seq(Plains)
          /\ Station!getNextSSID \in Seq(Plains) /\ Station!checkDHCP \in Seq(Plains)
      BY <2>1 DEF Station!connectOpen, Station!disconnect, Station!deleteProfiles,
                  Station!getMacAddress, Station!getFirmwareVersion, Station!getStatus,
                  Station!getNextSSID, Station!checkDHCP
    <2> QED  BY <2>2, PlainIsSound
  <1>4. /\ Sound(Station!startSSIDscan) /\ Sound(Station!scanSSIDs)
        /\ Sound(Station!getIPConfig) /\ Sound(Station!ping) /\ Sound(Station!getHostByName)
    <2>1. /\ Station!Ready \in Plains /\ Station!Must("set_scan_params") \in Plains
          /\ Station!Must("scan_results") \in Plains /\ Station!Call("ipconfig") \in Plains
          /\ Station!Call("ping_send") \in Plains /\ Station!Call("gethostbyname") \in Plains
      BY PlainSteps DEF Words
    <2>2. /\ Station!scanSSIDs \in Seq(Plains)
          /\ <<Station!Must("scan_results")>> \in Seq(Plains)
          /\ <<Station!Call("ipconfig")>> \in Seq(Plains)
          /\ <<Station!Call("ping_send")>> \in Seq(Plains)
          /\ <<Station!Call("gethostbyname")>> \in Seq(Plains)
      BY <2>1 DEF Station!scanSSIDs
    <2> QED  BY <2>2, PlainSteps, PlainConcat, PlainIsSound
             DEF Station!startSSIDscan, Station!getIPConfig, Station!getIPAddress,
                 Station!ping, Station!getHostByName
  <1>5. DOMAIN Station!Script =
          {"begin", "beginSmart", "startSmartConfig", "startSmartConfigAES", "connectToAP",
           "connectOpen", "disconnect", "reboot", "stop", "deleteProfiles", "setMacAddress",
           "setStaticIPAddress", "getMacAddress", "getFirmwareVersion", "getStatus",
           "startSSIDscan", "stopSSIDscan", "getNextSSID", "getIPConfig", "ping",
           "getHostByName", "checkDHCP"}
    BY DEF Station!Script
  <1>6. /\ Sound(Station!Script["begin"])
        /\ Sound(Station!Script["beginSmart"])
        /\ Sound(Station!Script["startSmartConfig"])
        /\ Sound(Station!Script["startSmartConfigAES"])
        /\ Sound(Station!Script["connectToAP"])
        /\ Sound(Station!Script["connectOpen"])
        /\ Sound(Station!Script["disconnect"])
        /\ Sound(Station!Script["reboot"])
        /\ Sound(Station!Script["stop"])
        /\ Sound(Station!Script["deleteProfiles"])
        /\ Sound(Station!Script["setMacAddress"])
        /\ Sound(Station!Script["setStaticIPAddress"])
        /\ Sound(Station!Script["getMacAddress"])
        /\ Sound(Station!Script["getFirmwareVersion"])
        /\ Sound(Station!Script["getStatus"])
        /\ Sound(Station!Script["startSSIDscan"])
        /\ Sound(Station!Script["stopSSIDscan"])
        /\ Sound(Station!Script["getNextSSID"])
        /\ Sound(Station!Script["getIPConfig"])
        /\ Sound(Station!Script["ping"])
        /\ Sound(Station!Script["getHostByName"])
        /\ Sound(Station!Script["checkDHCP"])
    BY <1>1, <1>2, <1>3, <1>4 DEF Station!Script
  <1> QED  BY <1>5, <1>6

-----------------------------------------------------------------------------
(* The types: the methods of the class at work.                            *)

\* The script that runs, and its step.
Mode   == Station!Script[method]
InStep == Station!Running /\ step \in 1..Len(Mode)

\* The types need more than they say: an answer is on its way or waits to be
\* looked at only where a script has a call, and there is only one.
ScriptInv ==
  /\ Station!StationTypeOK
  /\ asking # Station!NoCall \/ answer # Station!NotYet
       => InStep /\ Mode[step].do \in {"must", "try", "call"}
  /\ \A i, j \in 1..Len(news) :
       news[i] \notin Station!Events =>
         /\ asking # Station!NoCall
         /\ news[j] \notin Station!Events => i = j

\* What runs is sound.
LEMMA RunsSound == ScriptInv /\ Station!Running => Sound(Mode) /\ Len(Mode) \in Nat
  <1> SUFFICES ASSUME ScriptInv, Station!Running
               PROVE  Sound(Mode) /\ Len(Mode) \in Nat
    OBVIOUS
  <1>1. method \in DOMAIN Station!Script
    BY DEF ScriptInv, Station!StationTypeOK, Station!Running
  <1>2. Sound(Mode)
    BY <1>1, ScriptsAreSound DEF Mode
  <1> QED  BY <1>2, LenProperties DEF Sound

\* A step of the main program that is taken without an answer: it stays in the
\* script, or the method ends.
LEMMA MovesInScript ==
  ASSUME ScriptInv, asking = Station!NoCall, answer = Station!NotYet,
         UNCHANGED <<asking, answer>>, bits' \subseteq Station!BitsOf,
         {initialised', power', policy', joining', joined', addressed', stale'} \subseteq BOOLEAN,
         news' \in {news, <<>>},
         \/ Station!Return
         \/ /\ InStep /\ method' = method /\ step' \in 1..Len(Mode) + 1
            /\ attempts' \in -1..MaxAttempts
  PROVE  ScriptInv'
  <1>1. /\ method' \in DOMAIN Station!Script \cup {"none"}
        /\ step' \in 1..(IF Station!Running' THEN Len(Mode)' + 1 ELSE 1)
        /\ attempts' \in -1..MaxAttempts
    BY BoundsAssumption
       DEF ScriptInv, Station!StationTypeOK, Station!Return, InStep, Mode, Station!Running
  <1>2. Len(news') <= MaxNews /\ \A i \in 1..Len(news') : news'[i] \in Station!Events
    <2>1. CASE news' = <<>>
      BY <2>1, BoundsAssumption
    <2>2. CASE news' = news
      BY <2>2 DEF ScriptInv, Station!StationTypeOK
    <2> QED  BY <2>1, <2>2
  <1>3. Station!StationTypeOK'
    BY <1>1, <1>2 DEF ScriptInv, Station!StationTypeOK, Mode
  <1> QED  BY <1>2, <1>3 DEF ScriptInv

\* Where a jump goes.
LEMMA JumpsInScript ==
  ASSUME ScriptInv, InStep
  PROVE  /\ Mode[step].do = "while" => step + 3 \in 1..Len(Mode) + 1
         /\ Mode[step].do = "loop"  => Station!Index("while") \in 1..Len(Mode)
         /\ Mode[step].do = "try"   => Station!Index("until") \in 1..Len(Mode)
         /\ Mode[step].do = "until" => Station!Index("attempt") \in 1..Len(Mode)
  <1>1. Sound(Mode) /\ Len(Mode) \in Nat /\ step \in 1..Len(Mode)
    BY RunsSound DEF InStep
  <1>2. \A what : (\E i \in 1..Len(Mode) : Mode[i].do = what)
                    => Station!Index(what) \in 1..Len(Mode)
    BY DEF Station!Index, Mode
  <1> QED  BY <1>1, <1>2 DEF Sound

\* Every step of the main program stays in its script.
LEMMA ScriptMain ==
  ASSUME ScriptInv, Station!Main
  PROVE  ScriptInv'
  <1> USE DEF Station!object, Station!chip
  <1>1. \A what : Station!Is(what) => /\ InStep /\ Mode[step].do = what
                                      /\ asking = Station!NoCall /\ Len(Mode) \in Nat
                                      /\ answer # Station!NotYet => what \in {"must", "try", "call"}
    <2> SUFFICES ASSUME NEW what, Station!Is(what)
                 PROVE  /\ InStep /\ Mode[step].do = what
                        /\ asking = Station!NoCall /\ Len(Mode) \in Nat
                        /\ answer # Station!NotYet => what \in {"must", "try", "call"}
      OBVIOUS
    <2>1. /\ Station!Running /\ step <= Len(Mode) /\ Mode[step].do = what
          /\ asking = Station!NoCall
      BY DEF Station!Is, Station!Here, Mode
    <2>2. step \in 1..Len(Mode) + 1 /\ Len(Mode) \in Nat
      BY <2>1, RunsSound DEF ScriptInv, Station!StationTypeOK, Mode
    <2>3. InStep
      BY <2>1, <2>2 DEF InStep
    <2> QED  BY <2>1, <2>2, <2>3 DEF ScriptInv
  <1>2. /\ bits \subseteq Station!BitsOf /\ attempts \in -1..MaxAttempts
        /\ {initialised, power, policy, joining, joined, addressed, stale} \subseteq BOOLEAN
    BY DEF ScriptInv, Station!StationTypeOK
  <1>3. ASSUME NEW what, Station!Is(what), what \notin {"must", "try", "call"},
               UNCHANGED <<asking, answer>>, bits' \subseteq Station!BitsOf,
               {initialised', power', policy', joining', joined', addressed', stale'}
                 \subseteq BOOLEAN,
               news' \in {news, <<>>},
               \/ Station!Return \/ Station!Proceed
               \/ /\ method' = method /\ step' \in 1..Len(Mode) + 1
                  /\ attempts' \in -1..MaxAttempts
        PROVE  ScriptInv'
    <2>1. InStep /\ Len(Mode) \in Nat /\ asking = Station!NoCall /\ answer = Station!NotYet
      BY <1>1, <1>3
    <2>2. Station!Proceed => /\ method' = method /\ step' \in 1..Len(Mode) + 1
                             /\ attempts' \in -1..MaxAttempts
      BY <1>2, <2>1 DEF Station!Proceed, InStep
    <2> QED  BY <1>3, <2>1, <2>2, MovesInScript
  <1>4. CASE Station!Begin
    <2>1. /\ ~Station!Running /\ asking = Station!NoCall /\ answer = Station!NotYet /\ step = 1
      BY <1>4 DEF Station!Begin, Station!Running, ScriptInv, InStep, Station!StationTypeOK
    <2>2. /\ method' \in DOMAIN Station!Script /\ step' = 1
          /\ attempts' \in -1..MaxAttempts
      BY <1>4, <2>1, BoundsAssumption DEF Station!Begin
    <2>3. Len(Mode)' \in Nat
      <3>1. Sound(Mode)'
        BY <2>2, ScriptsAreSound DEF Mode
      <3> QED  BY <3>1, LenProperties DEF Sound
    <2>4. Station!StationTypeOK'
      BY <1>4, <2>2, <2>3
         DEF Station!Begin, ScriptInv, Station!StationTypeOK, Mode, Station!Running
    <2> QED  BY <1>4, <2>1, <2>4 DEF Station!Begin, ScriptInv
  <1>5. CASE Station!End
    <2>1. asking = Station!NoCall /\ answer = Station!NotYet
      <3>1. ~InStep
        BY <1>5, RunsSound DEF Station!End, InStep, Mode
      <3> QED  BY <3>1 DEF ScriptInv
    <2> QED  BY <1>2, <1>5, <2>1, MovesInScript DEF Station!End
  <1>6. CASE Station!Ask
    <2>1. InStep /\ Mode[step].do \in {"must", "try", "call"} /\ asking = Station!NoCall
      BY <1>1, <1>6 DEF Station!Ask
    <2>2. UNCHANGED <<method, step, attempts, answer, bits, initialised, power, policy, joining,
                      joined, addressed, news, stale>>
      BY <1>6 DEF Station!Ask
    <2>3. \A i \in 1..Len(news) : news[i] \in Station!Events
      BY <2>1 DEF ScriptInv
    <2> QED  BY <2>1, <2>2, <2>3
             DEF ScriptInv, Station!StationTypeOK, InStep, Mode, Station!Running
  <1>7. CASE Station!Answered
    <2>1. /\ InStep /\ Mode[step].do \in {"must", "try", "call"} /\ asking = Station!NoCall
          /\ Len(Mode) \in Nat
      BY <1>7, RunsSound DEF Station!Answered, ScriptInv, InStep
    <2>2. /\ answer' = Station!NotYet
          /\ UNCHANGED <<asking, bits, initialised, power, policy, joining, joined, addressed,
                         news, stale>>
      BY <1>7 DEF Station!Answered
    <2>3. \/ Station!Return
          \/ /\ method' = method /\ step' \in 1..Len(Mode) + 1 /\ attempts' \in -1..MaxAttempts
      <3>1. CASE Station!Proceed
        BY <1>2, <2>1, <3>1 DEF Station!Proceed, InStep
      <3>2. CASE Station!Is("try") /\ Station!GoBack("until")
        <4>1. Station!Index("until") \in 1..Len(Mode)
          BY <1>1, <3>2, JumpsInScript
        <4> QED  BY <1>2, <2>1, <3>2, <4>1 DEF Station!GoBack
      <3> QED  BY <1>7, <3>1, <3>2 DEF Station!Answered
    <2>4. /\ method' \in DOMAIN Station!Script \cup {"none"}
          /\ step' \in 1..(IF Station!Running' THEN Len(Mode)' + 1 ELSE 1)
          /\ attempts' \in -1..MaxAttempts
      BY <2>1, <2>3, BoundsAssumption
         DEF ScriptInv, Station!StationTypeOK, Station!Return, InStep, Mode, Station!Running
    <2>5. Station!StationTypeOK'
      BY <2>2, <2>4 DEF ScriptInv, Station!StationTypeOK, Mode
    <2> QED  BY <2>1, <2>2, <2>5 DEF ScriptInv
  <1>8. CASE Station!Waits
    BY <1>2, <1>3, <1>8 DEF Station!Waits
  <1>9. CASE Station!Attempt
    <2>1. InStep /\ Len(Mode) \in Nat
      BY <1>1, <1>9 DEF Station!Attempt
    <2>2. Station!Return \/ (/\ method' = method /\ step' \in 1..Len(Mode) + 1
                             /\ attempts' \in -1..MaxAttempts)
      BY <1>2, <1>9, <2>1, BoundsAssumption DEF Station!Attempt, InStep
    <2> QED  BY <1>2, <1>3, <1>9, <2>2 DEF Station!Attempt
  <1>10. CASE Station!Tests
    <2>1. CASE \/ Station!Is("ready") /\ (Station!Proceed \/ Station!Return)
               \/ Station!Is("begun") /\ (Station!Proceed \/ Station!Return)
               \/ Station!Is("need") /\ (Station!Proceed \/ Station!Return)
               \/ Station!Is("until") /\ Station!Return
               \/ Station!Is("while") /\ Station!Proceed
      BY <1>2, <1>3, <1>10, <2>1 DEF Station!Tests
    <2>2. CASE Station!Is("until") /\ Station!GoBack("attempt")
      <3>1. Station!Index("attempt") \in 1..Len(Mode) /\ Len(Mode) \in Nat
        BY <1>1, <2>2, JumpsInScript
      <3> QED  BY <1>2, <1>3, <1>10, <2>2, <3>1 DEF Station!Tests, Station!GoBack
    <2>3. CASE Station!Is("loop") /\ Station!GoBack("while")
      <3>1. Station!Index("while") \in 1..Len(Mode) /\ Len(Mode) \in Nat
        BY <1>1, <2>3, JumpsInScript
      <3> QED  BY <1>2, <1>3, <1>10, <2>3, <3>1 DEF Station!Tests, Station!GoBack
    <2>4. CASE /\ Station!Is("while") /\ step' = step + Len(Station!Leave)
               /\ UNCHANGED <<method, attempts>>
      <3>1. step + 3 \in 1..Len(Mode) + 1
        BY <1>1, <2>4, JumpsInScript
      <3>2. Len(Station!Leave) = 3
        BY DEF Station!Leave
      <3> QED  BY <1>2, <1>3, <1>10, <2>4, <3>1, <3>2 DEF Station!Tests
    <2> QED  BY <1>10, <2>1, <2>2, <2>3, <2>4 DEF Station!Tests
  <1>11. CASE Station!Clear
    BY <1>2, <1>3, <1>11 DEF Station!Clear
  <1>12. CASE Station!SetInitialised
    BY <1>2, <1>3, <1>12 DEF Station!SetInitialised
  <1>13. CASE Station!wlan_stop
    BY <1>2, <1>3, <1>13 DEF Station!wlan_stop
  <1>14. CASE Station!wlan_start
    BY <1>2, <1>3, <1>14 DEF Station!wlan_start
  <1> QED  BY <1>4, <1>5, <1>6, <1>7, <1>8, <1>9, <1>10, <1>11, <1>12, <1>13, <1>14
           DEF Station!Main

\* What is delivered was on its way: an event sets bits of the class, and the
\* answer goes to the call that waits.
LEMMA ScriptDelivery ==
  ASSUME LinkInv, ScriptInv, Station!CC3000_UsynchCallback \/ Station!DeliverAnswer
  PROVE  ScriptInv'
  <1> USE DEF Station!object, Station!chip
  <1> DEFINE n == Len(news)
  <1>1. /\ news # <<>> /\ news' = Tail(news)
        /\ UNCHANGED <<method, step, attempts, initialised, power, policy, joining, joined,
                       addressed>>
    BY DEF Station!CC3000_UsynchCallback, Station!DeliverAnswer
  <1>2. /\ n \in Nat \ {0} /\ Len(news') = n - 1
        /\ \A i \in 1..n-1 : i + 1 \in 1..n /\ news'[i] = news[i + 1]
        /\ Head(news) = news[1] /\ 1 \in 1..n
    BY <1>1 DEF LinkInv
  <1>3. bits' \subseteq Station!BitsOf /\ stale' \in BOOLEAN
    <2>1. CASE Station!CC3000_UsynchCallback
      BY <2>1 DEF Station!CC3000_UsynchCallback, Station!After, Station!Events, Station!BitsOf,
                  ScriptInv, Station!StationTypeOK
    <2>2. CASE Station!DeliverAnswer
      BY <2>2 DEF Station!DeliverAnswer, ScriptInv, Station!StationTypeOK
    <2> QED  BY <2>1, <2>2
  <1> HIDE DEF n
  <1>4. Len(news') <= MaxNews
    <2>1. n <= MaxNews
      BY DEF ScriptInv, Station!StationTypeOK, n
    <2> QED  BY <1>2, <2>1, BoundsAssumption
  <1>5. CASE Station!CC3000_UsynchCallback
    <2>1. UNCHANGED <<asking, answer>>
      BY <1>5 DEF Station!CC3000_UsynchCallback
    <2>2. \A i, j \in 1..n-1 :
            news'[i] \notin Station!Events =>
              /\ asking # Station!NoCall
              /\ news'[j] \notin Station!Events => i = j
      <3> TAKE i, j \in 1..n-1
      <3>1. /\ i + 1 \in 1..n /\ news'[i] = news[i + 1]
            /\ j + 1 \in 1..n /\ news'[j] = news[j + 1]
        BY <1>2
      <3>2. i + 1 = j + 1 => i = j
        OBVIOUS
      <3> QED  BY <3>1, <3>2 DEF ScriptInv, n
    <2>3. Station!StationTypeOK'
      BY <1>1, <1>3, <1>4, <2>1
         DEF ScriptInv, Station!StationTypeOK, Mode, Station!Running
    <2> QED  BY <1>1, <1>2, <2>1, <2>2, <2>3 DEF ScriptInv, InStep, Mode, Station!Running
  <1>6. CASE Station!DeliverAnswer
    <2>1. news[1] \notin Station!Events /\ asking' = Station!NoCall /\ answer' \in {0, -1}
      BY <1>2, <1>6 DEF Station!DeliverAnswer
    <2>2. InStep /\ Mode[step].do \in {"must", "try", "call"}
      BY <1>2, <2>1 DEF ScriptInv, n
    <2>3. \A i \in 1..n-1 : news'[i] \in Station!Events
      <3> TAKE i \in 1..n-1
      <3>1. i + 1 \in 1..n /\ news'[i] = news[i + 1] /\ i + 1 # 1
        BY <1>2
      <3> QED  BY <1>2, <2>1, <3>1 DEF ScriptInv, n
    <2>4. Station!StationTypeOK'
      BY <1>1, <1>3, <1>4, <2>1
         DEF ScriptInv, Station!StationTypeOK, Mode, Station!Running
    <2> QED  BY <1>1, <1>2, <2>2, <2>3, <2>4 DEF ScriptInv, InStep, Mode, Station!Running
  <1> QED  BY <1>5, <1>6

\* The chip answers once, and only what has been asked.
LEMMA ScriptChip ==
  ASSUME LinkInv, ScriptInv, Station!Chip
  PROVE  ScriptInv'
  <1> USE DEF Station!object, Station!chip
  <1> DEFINE n == Len(news)
  <1>1. UNCHANGED <<method, step, attempts, asking, answer, bits, initialised, power, stale>>
    BY DEF Station!Chip, Station!ChipAnswers, Station!ChipJoins, Station!ChipGetsAddress,
           Station!ChipLosesLink, Station!ChipIsConfigured
  <1>2. {policy', joining', joined', addressed'} \subseteq BOOLEAN
    BY DEF Station!Chip, Station!ChipAnswers, Station!ChipJoins, Station!ChipGetsAddress,
           Station!ChipLosesLink, Station!ChipIsConfigured, ScriptInv, Station!StationTypeOK
  <1>3. ASSUME NEW what, Station!Sends(what),
               what \in {<<"CONNECT">>, <<"DHCP">>, <<"DISCONNECT">>, <<"DONE">>}
        PROVE  ScriptInv'
    <2>1. PICK event \in Station!Events : what = <<event>>
      BY <1>3 DEF Station!Events
    <2>2. /\ Len(news') = n + 1 /\ n \in Nat /\ Len(news') <= MaxNews
          /\ news'[n + 1] \in Station!Events
          /\ \A i \in 1..n : news'[i] = news[i]
      BY <1>3, <2>1 DEF Station!Sends, LinkInv
    <2>3. \A i \in 1..n+1 : news'[i] \notin Station!Events
                              => i \in 1..n /\ news'[i] = news[i]
      BY <2>2
    <2>4. Station!StationTypeOK'
      BY <1>1, <1>2, <2>2 DEF ScriptInv, Station!StationTypeOK, Mode, Station!Running
    <2>5. \A i, j \in 1..n+1 :
            news'[i] \notin Station!Events =>
              /\ asking # Station!NoCall
              /\ news'[j] \notin Station!Events => i = j
      BY <2>3 DEF ScriptInv
    <2> QED  BY <1>1, <2>2, <2>4, <2>5 DEF ScriptInv, InStep, Mode, Station!Running
  <1>4. ASSUME NEW what, Station!Sends(what), asking # Station!NoCall, Station!Unanswered,
               what \in {<<"ok">>, <<"error">>, <<"ok", "DISCONNECT">>, <<"DISCONNECT", "ok">>}
        PROVE  ScriptInv'
    <2>1. n \in Nat /\ \A i \in 1..n : news[i] \in Station!Events
      BY <1>4 DEF LinkInv, Station!Unanswered
    <2>2. CASE what \in {<<"ok">>, <<"error">>}
      <3>1. /\ Len(news') = n + 1 /\ Len(news') <= MaxNews
            /\ \A i \in 1..n : news'[i] = news[i]
        BY <1>4, <2>1, <2>2 DEF Station!Sends, LinkInv
      <3>2. \A i \in 1..n+1 : news'[i] \notin Station!Events => i = n + 1
        BY <2>1, <3>1
      <3>3. Station!StationTypeOK'
        BY <1>1, <1>2, <3>1 DEF ScriptInv, Station!StationTypeOK, Mode, Station!Running
      <3> QED  BY <1>1, <1>4, <3>1, <3>2, <3>3 DEF ScriptInv, InStep, Mode, Station!Running
    <2>3. CASE what = <<"ok", "DISCONNECT">>
      <3>1. /\ Len(news') = n + 2 /\ Len(news') <= MaxNews
            /\ \A i \in 1..n : news'[i] = news[i]
            /\ news'[n + 2] = "DISCONNECT"
        BY <1>4, <2>1, <2>3 DEF Station!Sends, LinkInv
      <3>2. \A i \in 1..n+2 : news'[i] \notin Station!Events => i = n + 1
        BY <2>1, <3>1 DEF Station!Events
      <3>3. Station!StationTypeOK'
        BY <1>1, <1>2, <3>1 DEF ScriptInv, Station!StationTypeOK, Mode, Station!Running
      <3> QED  BY <1>1, <1>4, <3>1, <3>2, <3>3 DEF ScriptInv, InStep, Mode, Station!Running
    <2>4. CASE what = <<"DISCONNECT", "ok">>
      <3>1. /\ Len(news') = n + 2 /\ Len(news') <= MaxNews
            /\ \A i \in 1..n : news'[i] = news[i]
            /\ news'[n + 1] = "DISCONNECT"
        BY <1>4, <2>1, <2>4 DEF Station!Sends, LinkInv
      <3>2. \A i \in 1..n+2 : news'[i] \notin Station!Events => i = n + 2
        BY <2>1, <3>1 DEF Station!Events
      <3>3. Station!StationTypeOK'
        BY <1>1, <1>2, <3>1 DEF ScriptInv, Station!StationTypeOK, Mode, Station!Running
      <3> QED  BY <1>1, <1>4, <3>1, <3>2, <3>3 DEF ScriptInv, InStep, Mode, Station!Running
    <2> QED  BY <1>4, <2>2, <2>3, <2>4
  <1>5. CASE Station!ChipAnswers
    BY <1>4, <1>5 DEF Station!ChipAnswers
  <1>6. CASE Station!ChipJoins \/ Station!ChipGetsAddress \/ Station!ChipLosesLink
             \/ Station!ChipIsConfigured
    BY <1>3, <1>6 DEF Station!ChipJoins, Station!ChipGetsAddress, Station!ChipLosesLink,
                      Station!ChipIsConfigured
  <1> QED  BY <1>5, <1>6 DEF Station!Chip

\* The invariant of the class: the link, and the script that runs.
StationInv == LinkInv /\ ScriptInv

\* Every step keeps it.
LEMMA StationStep == StationInv /\ [Next]_allVars => StationInv'
  <1> SUFFICES ASSUME StationInv, [Next]_allVars
               PROVE  ScriptInv'
    BY LinkStep DEF StationInv
  <1>1. CASE Station!Next
    BY <1>1, ScriptMain, ScriptDelivery, ScriptChip DEF Station!Next, StationInv
  <1>2. CASE UNCHANGED stationVars
    BY <1>2 DEF stationVars, StationInv, ScriptInv, Station!StationTypeOK, InStep, Mode,
                Station!Running
  <1> QED  BY <1>1, <1>2 DEF Next, OnClients, OnStation, allVars

\* It holds at first, when no method runs.
LEMMA InitStation == Init => StationInv
  <1> SUFFICES ASSUME Init
               PROVE  ScriptInv
    BY InitLink DEF StationInv
  <1>1. /\ method = "none" /\ step = 1 /\ attempts = 0
        /\ asking = Station!NoCall /\ answer = Station!NotYet
        /\ bits = {} /\ initialised = FALSE /\ power = FALSE /\ policy \in BOOLEAN
        /\ joining = FALSE /\ joined = FALSE /\ addressed = FALSE
        /\ news = <<>> /\ stale = FALSE
    BY DEF Init, Station!Init
  <1>2. Len(news) = 0
    BY <1>1
  <1>3. Station!StationTypeOK
    <2>1. step \in 1..1 /\ attempts \in -1..MaxAttempts /\ Len(news) <= MaxNews
      BY <1>1, <1>2, BoundsAssumption
    <2>2. {initialised, power, policy, joining, joined, addressed, stale} \subseteq BOOLEAN
      BY <1>1
    <2> QED  BY <1>1, <2>1, <2>2 DEF Station!StationTypeOK, Station!Running
  <1> QED  BY <1>1, <1>2, <1>3 DEF ScriptInv

\* The main program is always at a place of the library that waits for the call
\* that is under way, or at a step of the script that runs; and what is on its
\* way is never more than the buffers between the chip and the host have to
\* hold (Adafruit_CC3000.cpp, Adafruit_CC3000_Server.cpp).
THEOREM TypesCorrect == Spec => []NetTypeOK
  <1>1. StationInv /\ ClientsInv => NetTypeOK
    BY ClientsTypes, TransitIsBounded DEF NetTypeOK, StationInv, ScriptInv
  <1> QED  BY <1>1, InitClients, ClientsStep, InitStation, StationStep, PTL DEF Spec
===============================================================================
