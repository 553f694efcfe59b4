--------------------------- MODULE RestApiProofs ---------------------------
(***************************************************************************)
(* For any pool of pcbs: client_pcb names a pcb that lwIP has freed only   *)
(* after a change of address and while nobody is connected, only a reset   *)
(* ends the listening, and clients that come one after the other are       *)
(* answered before they are closed and leave no connection behind that the *)
(* server cannot close.                                                    *)
(***************************************************************************)
EXTENDS RestApi, TLAPS

\* What GiveUp needs: nothing has been sent yet on the connection in the slot,
\* so lwIP, which gives up without emptying the slot, never does so on that one.
NothingSentYet == client_pcb \notin sent

Inv == TypeOK /\ SlotLive /\ NothingSentYet /\ Listening /\ NoOrphan

\* What tcp_client_close establishes: the slot is empty, the LED is off, and no
\* connection is live that was not live before and outside the slot.
LEMMA ClientCloseEffect ==
  ASSUME TypeOK,
         NEW before \in [Pcbs -> {"free", "syn", "open", "half", "closed"}],
         ClientClose(before)
  PROVE  /\ client_pcb' = Null /\ led' = FALSE
         /\ pcb' \in [Pcbs -> {"free", "syn", "open", "half", "closed"}]
         /\ \A c \in Pcbs : Live(c)' => c # client_pcb /\ before[c] \in {"open", "half"}
  BY RestAssumption DEF TypeOK, ClientClose, Closed, EmptySlot, Live

\* Every step of lwIP, a client or the server preserves the invariant.
LEMMA InvStep ==
  ASSUME Inv, [Next]_vars
  PROVE  Inv'
<1> USE RestAssumption DEF Inv
<1>1. CASE AcceptFails
  <2>1. /\ client_pcb' = Null /\ led' = FALSE
        /\ pcb' \in [Pcbs -> {"free", "syn", "open", "half", "closed"}]
        /\ \A c \in Pcbs : Live(c)' => c # client_pcb /\ pcb[c] \in {"open", "half"}
    BY <1>1, ClientCloseEffect DEF AcceptFails, TypeOK
  <2> QED
    BY <1>1, <2>1 DEF AcceptFails, TypeOK, SlotLive, NothingSentYet, Listening, NoOrphan, Live
<1>2. ASSUME NEW c \in Pcbs, Accept(c)
      PROVE  Inv'
  <2>1. TypeOK'
    BY <1>2 DEF Accept, TypeOK
  <2>2. (SlotLive /\ NothingSentYet /\ Listening)'
    BY <1>2 DEF Accept, TypeOK, SlotLive, NothingSentYet, Listening, Live
  <2>3. NoOrphan'
    BY <1>2 DEF Accept, TypeOK, NoOrphan, SomeoneConnected, Live
  <2> QED
    BY <2>1, <2>2, <2>3
<1>3. ASSUME NEW c \in Pcbs, Receive(c)
      PROVE  Inv'
  <2>1. /\ client_pcb' = Null /\ led' = FALSE
        /\ pcb' \in [Pcbs -> {"free", "syn", "open", "half", "closed"}]
        /\ \A d \in Pcbs : Live(d)' => d # client_pcb /\ pcb[d] \in {"open", "half"}
    BY <1>3, ClientCloseEffect DEF Receive, TypeOK
  <2> QED
    BY <1>3, <2>1 DEF Receive, TypeOK, SlotLive, NothingSentYet, Listening, NoOrphan, Live
<1>4. ASSUME NEW c \in Pcbs, ReceiveUnanswered(c)
      PROVE  Inv'
  <2>1. /\ client_pcb' = Null /\ led' = FALSE
        /\ pcb' \in [Pcbs -> {"free", "syn", "open", "half", "closed"}]
        /\ \A d \in Pcbs : Live(d)' => d # client_pcb /\ pcb[d] \in {"open", "half"}
    BY <1>4, ClientCloseEffect DEF ReceiveUnanswered, TypeOK
  <2> QED
    BY <1>4, <2>1 DEF ReceiveUnanswered, TypeOK, SlotLive, NothingSentYet, Listening,
                      NoOrphan, Live
<1>5. ASSUME NEW c \in Pcbs, ClientLeaves(c)
      PROVE  Inv'
  <2> DEFINE before == [pcb EXCEPT ![c] = "half"]
  <2>1. before \in [Pcbs -> {"free", "syn", "open", "half", "closed"}]
    BY DEF TypeOK
  <2>2. /\ client_pcb' = Null /\ led' = FALSE
        /\ pcb' \in [Pcbs -> {"free", "syn", "open", "half", "closed"}]
        /\ \A d \in Pcbs : Live(d)' => d # client_pcb /\ before[d] \in {"open", "half"}
    BY <1>5, <2>1, ClientCloseEffect DEF ClientLeaves, OnEnd
  <2>3. \A d \in Pcbs : before[d] \in {"open", "half"} => Live(d)
    BY <1>5 DEF ClientLeaves, Live, TypeOK
  <2> QED
    BY <1>5, <2>2, <2>3 DEF ClientLeaves, TypeOK, SlotLive, NothingSentYet, Listening,
                            NoOrphan, Live
<1>6. ASSUME NEW c \in Pcbs, ClientResets(c)
      PROVE  Inv'
  <2>1. /\ server_pcb' = "closed" /\ client_pcb' = Null /\ led' = FALSE
        /\ pcb' \in [Pcbs -> {"free", "syn", "open", "half", "closed"}]
        /\ \A d \in Pcbs : Live(d)' => d # client_pcb /\ Live(d)
    BY <1>6 DEF ClientResets, Err, ClosesServer, Closed, EmptySlot, TypeOK, Live
  <2> QED
    BY <1>6, <2>1 DEF ClientResets, TypeOK, SlotLive, NothingSentYet, Listening, NoOrphan, Live
<1>7. ASSUME NEW c \in Pcbs, GiveUp(c)
      PROVE  Inv'
  <2>1. UNCHANGED <<server_pcb, client_pcb, led, sent, left, happened>> /\ TypeOK'
        /\ \A d \in Pcbs : Live(d)' <=> Live(d) /\ d # c
    BY <1>7 DEF GiveUp, Err, ClosesServer, TypeOK, Live
  <2>2. c # client_pcb
    BY <1>7 DEF GiveUp, NothingSentYet
  <2> QED
    BY <2>1, <2>2 DEF TypeOK, SlotLive, SomeoneConnected, NothingSentYet, Listening, NoOrphan
<1>8. ASSUME NEW c \in Pcbs, Release(c)
      PROVE  Inv'
  <2>1. UNCHANGED <<server_pcb, client_pcb, led, sent, left, happened>> /\ TypeOK'
        /\ \A d \in Pcbs : Live(d)' <=> Live(d)
    BY <1>8 DEF Release, TypeOK, Live
  <2> QED
    BY <2>1 DEF TypeOK, SlotLive, SomeoneConnected, NothingSentYet, Listening, NoOrphan
<1>9. ASSUME NEW c \in Pcbs, Syn(c) \/ HandshakeFails(c)
      PROVE  Inv'
  <2>1. /\ UNCHANGED <<server_pcb, client_pcb, led, sent, left, happened>> /\ TypeOK'
        /\ \A d \in Pcbs : Live(d)' <=> Live(d)
    BY <1>9 DEF Syn, HandshakeFails, TypeOK, Live
  <2> QED
    BY <2>1 DEF TypeOK, SlotLive, SomeoneConnected, NothingSentYet, Listening, NoOrphan
<1>10. CASE AddressChanges
  <2>1. /\ UNCHANGED <<server_pcb, client_pcb, led, sent, left>>
        /\ happened' = happened \cup {"address"} /\ TypeOK'
        /\ \A d \in Pcbs : ~Live(d)'
    BY <1>10 DEF AddressChanges, Err, ClosesServer, TypeOK, Live
  <2> QED
    BY <2>1 DEF SlotLive, SomeoneConnected, NothingSentYet, Listening, NoOrphan
<1>11. CASE UNCHANGED vars
  BY <1>11 DEF vars, TypeOK, SlotLive, SomeoneConnected, NothingSentYet, Listening, NoOrphan, Live
<1> QED
  BY <1>1, <1>2, <1>3, <1>4, <1>5, <1>6, <1>7, <1>8, <1>9, <1>10, <1>11 DEF Next

\* What every step that closes a connection does, as long as no clients have
\* overlapped, reset or met a full pool: the connection has been answered on, or
\* its client has left it.
LEMMA ClosesAnswered ==
  ASSUME Inv, [Next]_vars, happened' = {},
         NEW d \in Pcbs, pcb[d] = "open", pcb'[d] # "open"
  PROVE  d \in sent' \cup left'
<1> USE DEF Inv
<1>1. ASSUME "overlap" \notin happened, NEW c \in Pcbs, pcb[c] = "open"
      PROVE  c = d
  BY <1>1 DEF NoOrphan, Live
<1>2. CASE AcceptFails
  BY <1>2 DEF AcceptFails, SomeoneConnected, Live
<1>3. ASSUME NEW c \in Pcbs, Accept(c) PROVE FALSE
  BY <1>3 DEF Accept, TypeOK
<1>4. ASSUME NEW c \in Pcbs, Receive(c) PROVE d \in sent'
  BY <1>1, <1>4 DEF Receive, Responds
<1>5. ASSUME NEW c \in Pcbs, ReceiveUnanswered(c) \/ ClientResets(c) PROVE FALSE
  BY <1>5 DEF ReceiveUnanswered, ClientResets
<1>6. ASSUME NEW c \in Pcbs, ClientLeaves(c) PROVE d \in left'
  BY <1>1, <1>6 DEF ClientLeaves
<1>7. ASSUME NEW c \in Pcbs, GiveUp(c) PROVE d \in sent'
  BY <1>7 DEF GiveUp, Err, ClosesServer, TypeOK
<1>8. ASSUME NEW c \in Pcbs, Release(c) PROVE FALSE
  BY <1>8 DEF Release, TypeOK
<1>9. ASSUME NEW c \in Pcbs, Syn(c) \/ HandshakeFails(c) PROVE FALSE
  BY <1>9 DEF Syn, HandshakeFails, TypeOK
<1>10. CASE AddressChanges
  BY <1>10 DEF AddressChanges
<1>11. CASE UNCHANGED vars
  BY <1>11 DEF vars
<1> QED
  BY <1>2, <1>3, <1>4, <1>5, <1>6, <1>7, <1>8, <1>9, <1>10, <1>11 DEF Next

\* The invariant holds from the start of the server on.
LEMMA Invariant == Spec => []Inv
<1>1. Init => Inv
  BY RestAssumption DEF Init, Inv, TypeOK, SlotLive, NothingSentYet, Listening, NoOrphan, Live
<1>2. Inv /\ [Next]_vars => Inv'
  BY InvStep
<1> QED
  BY <1>1, <1>2, PTL DEF Spec

\* For any pool, the variables keep their types.
THEOREM TypeCorrect == Spec => []TypeOK
  BY Invariant, PTL DEF Inv

\* For any pool, no sequence of accepts, requests, resets, timeouts and changes of
\* address leaves client_pcb pointing to a pcb that lwIP has freed while anyone is
\* connected, and without a change of address none does at any time.
THEOREM SlotIsLive == Spec => []SlotLive
  BY Invariant, PTL DEF Inv

\* For any pool, nothing but a client's reset makes the server stop listening.
THEOREM ListensUntilReset == Spec => []Listening
  BY Invariant, PTL DEF Inv

\* For any pool, as long as no two clients overlap, the live connection is the
\* one in the slot, the one the server closes.
THEOREM NoneOrphaned == Spec => []NoOrphan
  BY Invariant, PTL DEF Inv

\* For any pool, while clients come one after the other and the memory lasts,
\* the server closes no connection that it has not answered on, unless the
\* client has left: the connection in the slot is the only one it can close, and
\* lwIP gives up on none that has nothing to acknowledge.
THEOREM ClosedOnesAreAnswered == Spec => AnsweredFirst
<1>1. ASSUME Inv, [Next]_vars
      PROVE  [\A c \in Pcbs :
                pcb[c] = "open" /\ pcb'[c] # "open" /\ happened' = {} =>
                  c \in sent' \cup left']_vars
  BY <1>1, ClosesAnswered
<1> QED
  BY <1>1, Invariant, PTL DEF Spec, AnsweredFirst

\* A connection's way back to the pool.
Rank(state) ==
  CASE state = "syn" -> 4 [] state = "open" -> 3 [] state = "half" -> 2 [] state = "closed" -> 1 [] OTHER -> 0

\* Only a new handshake, of a free pcb, goes the other way; and where no clients
\* overlap, the end of a stream closes the connection that it ends.
OneWay ==
  /\ []("overlap" \notin happened => \A c \in Pcbs : pcb[c] # "half")
  /\ [][\A c \in Pcbs :
          pcb'[c] # pcb[c] => Syn(c) \/ Rank(pcb'[c]) < Rank(pcb[c])]_vars

\* What tcp_client_close changes is the pcb in the slot, which is not free when the
\* pool is empty or someone is connected.
LEMMA ClientCloseRank ==
  ASSUME Inv, SomeoneConnected \/ \A c \in Pcbs : pcb[c] # "free", ClientClose(pcb),
         NEW d \in Pcbs, pcb'[d] # pcb[d]
  PROVE  d = client_pcb /\ Rank(pcb'[d]) < Rank(pcb[d])
<1>1. d = client_pcb /\ pcb'[d] \in {"closed", "free"} /\ pcb[d] # "free"
  BY RestAssumption DEF Inv, TypeOK, SlotLive, Live, ClientClose, Closed
<1> QED
  BY <1>1 DEF Inv, TypeOK, Rank

\* Every step but a new handshake takes the connections that it changes further.
LEMMA RankStep ==
  ASSUME Inv, [Next]_vars, NEW d \in Pcbs, pcb'[d] # pcb[d], ~Syn(d)
  PROVE  Rank(pcb'[d]) < Rank(pcb[d])
<1> USE RestAssumption DEF Inv
<1>1. CASE AcceptFails
  BY <1>1, ClientCloseRank DEF AcceptFails
<1>2. ASSUME NEW c \in Pcbs, Syn(c) \/ HandshakeFails(c) \/ Accept(c)
      PROVE  Rank(pcb'[d]) < Rank(pcb[d])
  BY <1>2 DEF Syn, HandshakeFails, Accept, TypeOK, Rank
<1>3. ASSUME NEW c \in Pcbs, Receive(c) \/ ReceiveUnanswered(c)
      PROVE  Rank(pcb'[d]) < Rank(pcb[d])
  BY <1>3, ClientCloseRank DEF Receive, ReceiveUnanswered, SomeoneConnected, Live
<1>4. ASSUME NEW c \in Pcbs, ClientLeaves(c)
      PROVE  Rank(pcb'[d]) < Rank(pcb[d])
  <2> DEFINE before == [pcb EXCEPT ![c] = "half"]
  <2>1. pcb[c] = "open" /\ ClientClose(before)
    BY <1>4 DEF ClientLeaves, OnEnd
  <2>2. CASE d = client_pcb
    <3>1. pcb[d] \in {"open", "half"} /\ pcb'[d] \in {"closed", "free"}
      BY <2>1, <2>2 DEF ClientClose, Closed, SlotLive, SomeoneConnected, Live, TypeOK
    <3> QED
      BY <3>1 DEF Rank
  <2>3. CASE d # client_pcb
    <3>1. d = c /\ pcb'[d] = "half"
      BY <2>1, <2>3 DEF ClientClose, TypeOK
    <3> QED
      BY <2>1, <3>1 DEF Rank
  <2> QED
    BY <2>2, <2>3
<1>5. ASSUME NEW c \in Pcbs, ClientResets(c)
      PROVE  Rank(pcb'[d]) < Rank(pcb[d])
  <2>1. Live(d) /\ pcb'[d] \in {"closed", "free"}
    BY <1>5 DEF ClientResets, Err, ClosesServer, Closed, SlotLive, SomeoneConnected, TypeOK
  <2> QED
    BY <2>1 DEF Live, Rank
<1>6. ASSUME NEW c \in Pcbs, GiveUp(c)
      PROVE  Rank(pcb'[d]) < Rank(pcb[d])
  <2>1. Live(d) /\ pcb'[d] = "free"
    BY <1>6 DEF GiveUp, Err, ClosesServer, TypeOK
  <2> QED
    BY <2>1 DEF Live, Rank
<1>7. ASSUME NEW c \in Pcbs, Release(c)
      PROVE  Rank(pcb'[d]) < Rank(pcb[d])
  BY <1>7 DEF Release, TypeOK, Rank
<1>8. CASE AddressChanges
  <2>1. (Live(d) \/ pcb[d] = "syn") /\ pcb'[d] = "free"
    BY <1>8 DEF AddressChanges, Err, ClosesServer, TypeOK
  <2> QED
    BY <2>1 DEF Live, Rank
<1>9. CASE UNCHANGED vars
  BY <1>9 DEF vars
<1> QED
  BY <1>1, <1>2, <1>3, <1>4, <1>5, <1>6, <1>7, <1>8, <1>9 DEF Next

\* A half-closed connection is left behind by overlapping clients only.
LEMMA NoneHalf == Spec => []("overlap" \notin happened => \A c \in Pcbs : pcb[c] # "half")
<1> DEFINE Whole == "overlap" \notin happened => \A c \in Pcbs : pcb[c] # "half"
<1>1. Init => Whole
  BY DEF Init
<1>2. ASSUME Inv, Whole, [Next]_vars PROVE Whole'
  <2> SUFFICES ASSUME "overlap" \notin happened', NEW d \in Pcbs, pcb'[d] = "half"
               PROVE  FALSE
    OBVIOUS
  <2>1. "overlap" \notin happened
    BY <1>2 DEF Next, AcceptFails, Accept, Receive, ReceiveUnanswered, ClientLeaves, ClientResets,
                GiveUp, Release, Syn, HandshakeFails, AddressChanges, vars
  <2>2. pcb[d] # "half" /\ pcb'[d] # pcb[d]
    BY <1>2, <2>1
  <2>3. ~Syn(d) /\ ~Accept(d)
    BY <1>2 DEF Syn, Accept, Inv, TypeOK
  <2>4. pcb[d] = "open"
    <3>1. pcb[d] \in {"syn", "open"}
      BY <1>2, <2>2, <2>3, RankStep DEF Rank, Inv, TypeOK
    <3>2. pcb[d] # "syn"
      BY <1>2, <2>3, RestAssumption
         DEF Next, AcceptFails, Accept, Receive, ReceiveUnanswered, ClientLeaves, ClientResets,
             GiveUp, Release, Syn, HandshakeFails, AddressChanges, OnEnd, ClientClose, Closed, Err,
             ClosesServer, Live, Inv, TypeOK, vars
    <3> QED
      BY <3>1, <3>2
  <2>5. client_pcb = d
    BY <1>2, <2>1, <2>4 DEF Inv, NoOrphan, Live
  <2>6. client_pcb' # client_pcb \/ pcb'[d] = "free"
    BY <1>2, <2>2, <2>5, RestAssumption
       DEF Next, AcceptFails, Accept, Receive, ReceiveUnanswered, ClientLeaves, ClientResets, GiveUp,
           Release, Syn, HandshakeFails, AddressChanges, Live, OnEnd, ClientClose, EmptySlot, Err,
           ClosesServer, Inv, TypeOK, vars
  <2>7. (SlotLive /\ TypeOK /\ NoOrphan)'
    BY <1>2, InvStep DEF Inv
  <2> QED
    BY <2>5, <2>6, <2>7 DEF NoOrphan, Live
<1> QED
  BY <1>1, <1>2, Invariant, PTL DEF Spec

\* For any pool, no pcb is closed that has been closed or freed before: each
\* connection takes at most four steps from its handshake back to the pool.  Of
\* Drains only that clients leave and lwIP frees what is closed is left to fairness.
THEOREM ConnectionsGoOneWay == Spec => OneWay
<1>1. ASSUME Inv, [Next]_vars
      PROVE  [\A c \in Pcbs :
                pcb'[c] # pcb[c] => Syn(c) \/ Rank(pcb'[c]) < Rank(pcb[c])]_vars
  BY <1>1, RankStep
<1> QED
  BY <1>1, NoneHalf, Invariant, PTL DEF Spec, OneWay
============================================================================
