------------------------------ MODULE RestApi ------------------------------
(***************************************************************************)
(* The TCP side of RestApi: lwIP's callbacks, which all run in the lwIP    *)
(* thread and so one after the other, and the two pcbs the server keeps,   *)
(* the one it listens on and one for "the" client.  A request is answered  *)
(* on the pcb it came from; what is closed afterwards is the client_pcb.   *)
(*                                                                         *)
(* lwIP and the clients are the environment: who connects, sends, closes,  *)
(* resets or stops acknowledging, and when the netif gets another address, *)
(* is not the server's choice.                                             *)
(* What the requests ask for is RestApiCommandHandler's business.          *)
(***************************************************************************)
EXTENDS Integers, FiniteSets

CONSTANTS Pcbs,       \* lwIP's pool of connection pcbs, MEMP_NUM_TCP_PCB
          Null

ASSUME RestAssumption == Null \notin Pcbs

VARIABLES
  server_pcb,   \* "listen", or "closed" for good
  client_pcb,
  pcb,          \* state of each pcb of the pool, see TypeOK
  led,          \* led_b, lit while a client is connected
  sent,         \* history: pcbs on which an answer, or its header, was sent
  left,         \* history: pcbs whose client closed before it had an answer
  happened      \* history: "overlap", "reset", "write", "address" once there was one

vars == <<server_pcb, client_pcb, pcb, led, sent, left, happened>>

\* A pcb is in the pool ("free"), in the handshake ("syn"), connected, closed by the
\* client only ("half"), or closed by the server and kept by lwIP for a while.
TypeOK ==
  /\ server_pcb \in {"listen", "closed"}
  /\ client_pcb \in Pcbs \cup {Null}
  /\ pcb \in [Pcbs -> {"free", "syn", "open", "half", "closed"}]
  /\ led \in BOOLEAN
  /\ sent \subseteq Pcbs /\ left \subseteq Pcbs
  /\ happened \subseteq {"overlap", "reset", "write", "address"}

\* Connections whose callbacks are set: closing a pcb clears them first.
Live(c) == pcb[c] \in {"open", "half"}
SomeoneConnected == \E c \in Pcbs : Live(c)

\* start.
Init ==
  /\ server_pcb = "listen" /\ client_pcb = Null
  /\ pcb = [c \in Pcbs |-> "free"]
  /\ led = FALSE
  /\ sent = {} /\ left = {} /\ happened = {}

-----------------------------------------------------------------------------
(* Closing *)

\* Mutation: the connection is shut down but the pcb is not given back.
ShutDown == {"shutdown"}
\* Mutation: the slot is emptied without a tcp_close.
NotClosed == {"open"}
\* tcp_close, or tcp_abort when that fails.
Closed == {"closed", "free"}

\* Mutation: the slot is not emptied.
SlotKept == client_pcb
EmptySlot == Null

\* tcp_client_close when the states are `before`: whatever client_pcb names is
\* closed, which need not be the connection the callback is for.
ClientClose(before) ==
  /\ IF client_pcb = Null
     THEN pcb' = before
     ELSE \E after \in Closed : pcb' = [before EXCEPT ![client_pcb] = after]
  /\ client_pcb' = EmptySlot
  /\ led' = FALSE

-----------------------------------------------------------------------------
(* Callbacks *)

\* A client wants to connect: lwIP takes a pcb for the handshake.
Syn(c) ==
  /\ server_pcb = "listen" /\ pcb[c] = "free"
  /\ pcb' = [pcb EXCEPT ![c] = "syn"]
  /\ UNCHANGED <<server_pcb, client_pcb, led, sent, left, happened>>

\* The handshake is reset or not completed in time, of which lwIP tells nobody.
HandshakeFails(c) ==
  /\ pcb[c] = "syn"
  /\ pcb' = [pcb EXCEPT ![c] = "free"]
  /\ UNCHANGED <<server_pcb, client_pcb, led, sent, left, happened>>

\* The handshake is complete: tcp_server_accept.
Accept(c) ==
  /\ server_pcb = "listen" /\ pcb[c] = "syn"
  /\ pcb' = [pcb EXCEPT ![c] = "open"]
  /\ client_pcb' = c
  /\ led' = TRUE
  /\ sent' = sent \ {c} /\ left' = left \ {c}
  /\ happened' = happened \cup {e \in {"overlap"} : SomeoneConnected}
  /\ UNCHANGED server_pcb

\* tcp_server_accept without a pcb: the pool is empty.
AcceptFails ==
  /\ server_pcb = "listen" /\ \A c \in Pcbs : pcb[c] # "free"
  /\ ClientClose(pcb)
  /\ happened' = happened \cup {e \in {"overlap"} : SomeoneConnected}
  /\ UNCHANGED <<server_pcb, sent, left>>

\* Mutation: a request that is not understood gets no answer.
Understood(valid) == valid
Responds(valid) == TRUE

\* tcp_server_recv with data, a request that is fulfilled or refused.
Receive(c) ==
  /\ pcb[c] = "open"
  /\ \E valid \in BOOLEAN :
       sent' = sent \cup {d \in {c} : Responds(valid)}
  /\ ClientClose(pcb)
  /\ UNCHANGED <<server_pcb, left, happened>>

\* tcp_server_recv when tcp_write has no memory for the answer, or for the
\* data that follows its header.
ReceiveUnanswered(c) ==
  /\ pcb[c] = "open"
  /\ ClientClose(pcb)
  /\ \E header \in SUBSET {c} : sent' = sent \cup header
  /\ happened' = happened \cup {"write"}
  /\ UNCHANGED <<server_pcb, left>>

\* Mutation: tcp_server_recv ignores the end of the stream.
IgnoreEnd(c) ==
  pcb' = [pcb EXCEPT ![c] = "half"] /\ UNCHANGED <<client_pcb, led>>
OnEnd(c) == ClientClose([pcb EXCEPT ![c] = "half"])

\* The client closes; tcp_server_recv without data.
ClientLeaves(c) ==
  /\ pcb[c] = "open"
  /\ OnEnd(c)
  /\ left' = left \cup {c}
  /\ UNCHANGED <<server_pcb, sent, happened>>

\* Mutation: any error closes the server.
AnyError(err) == TRUE
ClosesServer(err) == err # "ERR_ABRT"

\* tcp_server_err for pcbs that lwIP has freed.
Err(lost, err) ==
  IF ClosesServer(err)
  THEN /\ server_pcb' = "closed"
       /\ \E after \in Closed :
            pcb' = [d \in Pcbs |-> IF d \in lost THEN "free"
                                   ELSE IF d = client_pcb THEN after ELSE pcb[d]]
       /\ client_pcb' = EmptySlot
       /\ led' = FALSE
  ELSE /\ pcb' = [d \in Pcbs |-> IF d \in lost THEN "free" ELSE pcb[d]]
       /\ UNCHANGED <<server_pcb, client_pcb, led>>

\* The client resets the connection.
ClientResets(c) ==
  /\ Live(c)
  /\ Err({c}, "ERR_RST")
  /\ happened' = happened \cup {"reset"}
  /\ UNCHANGED <<sent, left>>

\* lwIP gives up on a client that does not acknowledge what it was sent.
GiveUp(c) ==
  /\ Live(c) /\ c \in sent
  /\ Err({c}, "ERR_ABRT")
  /\ UNCHANGED <<sent, left, happened>>

\* The netif gets another address: lwIP aborts every connection to the old one,
\* also the one in the slot, and every handshake.
AddressChanges ==
  /\ SomeoneConnected
  /\ Err({c \in Pcbs : Live(c) \/ pcb[c] = "syn"}, "ERR_ABRT")
  /\ happened' = happened \cup {"address"}
  /\ UNCHANGED <<sent, left>>

\* lwIP is done with a connection the server closed.
Release(c) ==
  /\ pcb[c] = "closed"
  /\ pcb' = [pcb EXCEPT ![c] = "free"]
  /\ UNCHANGED <<server_pcb, client_pcb, led, sent, left, happened>>

Next ==
  \/ AcceptFails \/ AddressChanges
  \/ \E c \in Pcbs :
       \/ Syn(c) \/ HandshakeFails(c)
       \/ Accept(c) \/ Receive(c) \/ ReceiveUnanswered(c) \/ ClientLeaves(c)
       \/ ClientResets(c) \/ GiveUp(c) \/ Release(c)

\* Clients leave in the end, and lwIP frees what has been closed and ends a
\* handshake that takes too long.
Spec ==
  /\ Init /\ [][Next]_vars
  /\ \A c \in Pcbs :
       WF_vars(Release(c)) /\ WF_vars(HandshakeFails(c)) /\ WF_vars(ClientLeaves(c))

-----------------------------------------------------------------------------
(* Properties *)

\* The slot names a connection lwIP still has.  Only a change of address frees the
\* pcb in the slot under the server, and then the stale pointer lasts while nobody
\* is connected: no end of a stream and no request meets it, and the next accept
\* replaces it.  The LED is lit as long as the slot is not empty.
SlotLive ==
  /\ client_pcb # Null => Live(client_pcb) \/ ("address" \in happened /\ ~SomeoneConnected)
  /\ led = (client_pcb # Null)

\* Only a reset stops the server; timeouts, failing writes, clients that overlap
\* and changes of address do not.
Listening == "reset" \notin happened => server_pcb = "listen"

\* While clients come one after the other, the connection that is live is the
\* one the server will close, so none is lost.
NoOrphan == "overlap" \notin happened => \A c \in Pcbs : Live(c) => client_pcb = c

\* And the server closes no connection before it has answered on it, short of
\* memory or of the client's own leaving.
AnsweredFirst ==
  [][\A c \in Pcbs :
       pcb[c] = "open" /\ pcb'[c] # "open" /\ happened' = {} =>
         c \in sent' \cup left']_vars

\* Then every pcb is given back, time and again.
Drains ==
  []("overlap" \notin happened) => \A c \in Pcbs : []<>(pcb[c] = "free")

\* The server goes on listening.
Serving == server_pcb = "listen"
============================================================================
