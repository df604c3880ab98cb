------------------------------- MODULE MCNetwork -------------------------------
(***************************************************************************)
(* What a sketch calls of the WiFi library, in one run: its clients and    *)
(* its server (CcClients), and the class that joins networks (CcStation).  *)
(* They share no state but the calls of the driver, which Cc3000 models,   *)
(* so that each runs on its own: Init chooses which, and the variables of  *)
(* the other stay as they are.                                             *)
(***************************************************************************)
EXTENDS Naturals, Sequences, FiniteSets

CONSTANTS Sds, MAX_SERVER_CLIENTS,    \* of CcClients
          MaxAttempts, MaxNews        \* of CcStation

\* Descriptors are what the chip hands out: -1 is none of them.
ASSUME SocketsAssumption == Sds \subseteq Nat /\ IsFiniteSet(Sds)
ASSUME ServedAssumption  == MAX_SERVER_CLIENTS \in Nat
ASSUME BoundsAssumption  == MaxAttempts \in Nat /\ MaxNews \in Nat

VARIABLES level,
  at, how, self, sd, call, ret, client, listener, closed, transit, sock, via, dropped, late,
  method, step, attempts, asking, answer, bits, initialised, power, policy, joining,
  joined, addressed, news, stale

Clients == INSTANCE CcClients
Station == INSTANCE CcStation

clientVars  == <<at, how, self, sd, call, ret, client, listener, closed, transit, sock,
                 via, dropped, late>>
stationVars == <<method, step, attempts, asking, answer, bits, initialised, power, policy,
                 joining, joined, addressed, news, stale>>
allVars     == <<level, clientVars, stationVars>>

\* Which policy the chip has matters to the station only.
Init == /\ level \in {"clients", "station"}
        /\ Clients!Init /\ Station!Init
        /\ level = "clients" => policy = FALSE

OnClients == level = "clients" /\ UNCHANGED <<level, stationVars>>
OnStation == level = "station" /\ UNCHANGED <<level, clientVars>>

Next == \/ OnClients /\ Clients!Next
        \/ OnStation /\ Station!Next

\* The fairness of each level, as its FairSpec has it.
Spec == /\ Init /\ [][Next]_allVars
        /\ WF_allVars(OnClients /\ Clients!Main) /\ WF_allVars(OnClients /\ Clients!Deliver)
        /\ WF_allVars(OnClients /\ Clients!ChipAnswers)
        /\ WF_allVars(OnStation /\ Station!Main)
        /\ WF_allVars(OnStation /\ Station!CC3000_UsynchCallback)
        /\ WF_allVars(OnStation /\ Station!DeliverAnswer)
        /\ SF_allVars(OnStation /\ Station!ChipAnswers)

-------------------------------------------------------------------------------
\* The types of both levels; and no more is on its way to a client than an answer
\* and one close event of each socket.
NetTypeOK == /\ Clients!ClientsTypeOK /\ Station!StationTypeOK
             /\ Len(transit) <= Cardinality(Sds) + 1

\* A socket of the chip that is open belongs to one client or to the server, or
\* is one of those that connect() and begin() are known to drop
\* (Adafruit_CC3000.cpp connectTCP, Adafruit_CC3000_Server.cpp begin).
SocketsAreOwned == Clients!SocketsAreOwned

\* closed_sockets says of a socket what became of this connection, not of the
\* one before it under the same number (evnt_handler.cpp, socket.cpp); and so
\* connected() closes a socket only when nothing is left to read in it
\* (Adafruit_CC3000.cpp:1491-1503).
ClosesOnlyItsOwn == Clients!FlagIsOwn /\ Clients!ClosesOnlyEmpty

\* The bits of the class say what the link does once its events have come in
\* (Adafruit_CC3000.cpp CC3000_UsynchCallback and the methods that clear them).
BitsFollowLink == Station!BitsFollowLink

\* Every method of a client, of the server and of the class comes back, but for
\* those that are made to wait for ever: by a silent peer, by a network that is
\* out of reach, or, in read() and peek(), by a chip that answers every recv
\* with 0 or -1 (Adafruit_CC3000.cpp:1622-1628, 1667-1673).
MethodsReturn == Clients!MethodReturns /\ Station!StationReturns
===============================================================================
