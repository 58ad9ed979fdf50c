------------------------------ MODULE CommChannel ------------------------------
(***************************************************************************)
(* Requests from one node to its peers and their responses                 *)
(* (internal/db/p2p/message/message.go, protocol/base.go and               *)
(* protocol/comm_channel.go).                                              *)
(*                                                                         *)
(* A request is its message ID, a UUID. The client waits on a channel with *)
(* a buffer of one message that it has put into a table under this ID; a   *)
(* handler of incoming responses looks the channel up and sends to it.     *)
(* Marshalling and signatures are left out: a message that fails to verify *)
(* is a message that is lost.                                              *)
(***************************************************************************)
EXTENDS Naturals, FiniteSets

CONSTANT Request

VARIABLES call,     \* where Send is
          table,    \* baseProto.responseChans: the IDs with an entry
          chan,     \* responseChan: not made, open or closed
          buffer,   \* the responses in responseChan
          server,   \* onRequest of the peer
          applied,  \* requests that the peer has processed without error
          net,      \* responses under way
          handlers, \* goroutines of onResponse
          panicked

vars == <<call, table, chan, buffer, server, applied, net, handlers, panicked>>

\* Mutant: room for another response.
CapacityTwo == 2

Capacity == 1

Ended == {"ok", "failed", "timeout"}
Response == [id : Request, err : BOOLEAN]
Handler == [response : Response, pc : {"put", "delete"}]

Init ==
  /\ call = [r \in Request |-> "idle"]
  /\ table = {}
  /\ chan = [r \in Request |-> "none"]
  /\ buffer = [r \in Request |-> {}]
  /\ server = [r \in Request |-> "none"]
  /\ applied = {}
  /\ net = {}
  /\ handlers = {}
  /\ panicked = FALSE

-----------------------------------------------------------------------------
(* Send, on the client. *)

SetResponseChan(r) ==
  /\ call[r] = "idle"
  /\ call' = [call EXCEPT ![r] = "send"]
  /\ chan' = [chan EXCEPT ![r] = "open"]
  /\ table' = table \cup {r}
  /\ UNCHANGED <<buffer, server, applied, net, handlers, panicked>>

\* Host().Send: the peer may get the request whatever it returns.
HostSend(r) ==
  /\ call[r] = "send"
  /\ \/ call' = [call EXCEPT ![r] = "wait"]
     \/ call' = [call EXCEPT ![r] = "failing"]
  /\ \/ server' = [server EXCEPT ![r] = "process"]
     \/ UNCHANGED server
  /\ UNCHANGED <<table, chan, buffer, applied, net, handlers, panicked>>

\* The error that is looked at is that of the request, which has none.
TakeResponse(r) ==
  /\ call[r] = "wait"
  /\ \E m \in buffer[r] : buffer' = [buffer EXCEPT ![r] = @ \ {m}]
  /\ call' = [call EXCEPT ![r] = "ok"]
  /\ UNCHANGED <<table, chan, server, applied, net, handlers, panicked>>

ContextDone(r) ==
  /\ call[r] = "wait"
  /\ call' = [call EXCEPT ![r] = "expiring"]
  /\ UNCHANGED <<table, chan, buffer, server, applied, net, handlers, panicked>>

\* Mutant: the channel is closed first.
DeleteResponseChanLate(r) ==
  /\ call[r] \in {"failing", "expiring"}
  /\ IF chan[r] = "open"
     THEN /\ chan' = [chan EXCEPT ![r] = "closed"]
          /\ UNCHANGED <<call, table>>
     ELSE /\ call' = [call EXCEPT ![r] = IF @ = "failing" THEN "closeFailed" ELSE "closeExpired"]
          /\ table' = table \ {r}
          /\ UNCHANGED chan
  /\ UNCHANGED <<buffer, server, applied, net, handlers, panicked>>

DeleteResponseChan(r) ==
  /\ call[r] \in {"failing", "expiring"}
  /\ call' = [call EXCEPT ![r] = IF @ = "failing" THEN "closeFailed" ELSE "closeExpired"]
  /\ table' = table \ {r}
  /\ UNCHANGED <<chan, buffer, server, applied, net, handlers, panicked>>

\* Mutant: the channel is left open.
CloseChanNot(r) ==
  /\ call[r] \in {"closeFailed", "closeExpired"}
  /\ call' = [call EXCEPT ![r] = IF @ = "closeFailed" THEN "failed" ELSE "timeout"]
  /\ UNCHANGED <<table, chan, buffer, server, applied, net, handlers, panicked>>

CloseChan(r) ==
  /\ call[r] \in {"closeFailed", "closeExpired"}
  /\ call' = [call EXCEPT ![r] = IF @ = "closeFailed" THEN "failed" ELSE "timeout"]
  /\ chan' = [chan EXCEPT ![r] = "closed"]
  /\ UNCHANGED <<table, buffer, server, applied, net, handlers, panicked>>

-----------------------------------------------------------------------------
(* onRequest, on the peer. *)

ProcessRequest(r) ==
  /\ server[r] = "process"
  /\ \/ /\ server' = [server EXCEPT ![r] = "reply"]
        /\ applied' = applied \cup {r}
     \/ /\ server' = [server EXCEPT ![r] = "error"]
        /\ UNCHANGED applied
  /\ UNCHANGED <<call, table, chan, buffer, net, handlers, panicked>>

\* A reply that SendAndForget fails to send is followed by an error response;
\* either may be lost.
SendReply(r) ==
  /\ server[r] = "reply"
  /\ \/ server' = [server EXCEPT ![r] = "done"]
     \/ server' = [server EXCEPT ![r] = "error"]
  /\ net' \in {net, net \cup {[id |-> r, err |-> FALSE]}}
  /\ UNCHANGED <<call, table, chan, buffer, applied, handlers, panicked>>

SendError(r) ==
  /\ server[r] = "error"
  /\ server' = [server EXCEPT ![r] = "done"]
  /\ net' \in {net, net \cup {[id |-> r, err |-> TRUE]}}
  /\ UNCHANGED <<call, table, chan, buffer, applied, handlers, panicked>>

-----------------------------------------------------------------------------
(* onResponse, on the client: one goroutine for each response. *)

\* GetResponseChan: a response without an entry is dropped.
GetResponseChan(m) ==
  /\ m \in net
  /\ net' = net \ {m}
  /\ handlers' = IF m.id \in table THEN handlers \cup {[response |-> m, pc |-> "put"]}
                 ELSE handlers
  /\ UNCHANGED <<call, table, chan, buffer, server, applied, panicked>>

\* The send to the channel blocks while the buffer is full and panics when
\* the channel is closed.
PutResponse(h) ==
  LET r == h.response.id
  IN  /\ h \in handlers
      /\ h.pc = "put"
      /\ \/ /\ chan[r] = "open"
            /\ Cardinality(buffer[r]) < Capacity
            /\ buffer' = [buffer EXCEPT ![r] = @ \cup {h.response}]
            /\ handlers' = (handlers \ {h}) \cup {[h EXCEPT !.pc = "delete"]}
            /\ UNCHANGED panicked
         \/ /\ chan[r] = "closed"
            /\ panicked' = TRUE
            /\ UNCHANGED <<buffer, handlers>>
      /\ UNCHANGED <<call, table, chan, server, applied, net>>

HandlerDeletes(h) ==
  /\ h \in handlers
  /\ h.pc = "delete"
  /\ table' = table \ {h.response.id}
  /\ handlers' = handlers \ {h}
  /\ UNCHANGED <<call, chan, buffer, server, applied, net, panicked>>

-----------------------------------------------------------------------------
Client(r) ==
  \/ SetResponseChan(r) \/ HostSend(r) \/ TakeResponse(r)
  \/ ContextDone(r) \/ DeleteResponseChan(r) \/ CloseChan(r)

Server(r) == ProcessRequest(r) \/ SendReply(r) \/ SendError(r)

\* A panic ends the process.
Next ==
  /\ ~panicked
  /\ \/ \E r \in Request : Client(r) \/ Server(r)
     \/ \E m \in net : GetResponseChan(m)
     \/ \E h \in handlers : PutResponse(h) \/ HandlerDeletes(h)

Spec == Init /\ [][Next]_vars

\* Goroutines run on, and the context of a request is done in the end:
\* networkRequestTimeout.
FairSpec ==
  /\ Spec
  /\ \A r \in Request : WF_vars(~panicked /\ Client(r))
  /\ \A m \in Response, pc \in {"put", "delete"} :
       LET h == [response |-> m, pc |-> pc]
       IN  WF_vars(~panicked /\ (PutResponse(h) \/ HandlerDeletes(h)))

-----------------------------------------------------------------------------
\* Types. A channel never holds more than the one response it has room for.
TypeOK ==
  /\ call \in [Request -> {"idle", "send", "wait", "failing", "expiring", "closeFailed",
                           "closeExpired"} \cup Ended]
  /\ table \in SUBSET Request
  /\ chan \in [Request -> {"none", "open", "closed"}]
  /\ \A r \in Request : buffer[r] \in SUBSET Response /\ Cardinality(buffer[r]) <= 1
  /\ server \in [Request -> {"none", "process", "reply", "error", "done"}]
  /\ applied \in SUBSET Request
  /\ net \in SUBSET Response
  /\ handlers \in SUBSET Handler
  /\ panicked \in BOOLEAN

\* A channel that a response handler can find in the table is open: Send takes
\* it out of the table before it closes it.
ListedIsOpen == \A r \in table : chan[r] = "open"

\* The table keeps no channel of a Send that has returned, unless the handler
\* whose response it took is about to delete it.
NoStaleEntry ==
  \A r \in table :
    call[r] \in Ended => \E h \in handlers : h.response.id = r /\ h.pc = "delete"

TableIsTrue == ListedIsOpen /\ NoStaleEntry

\* No handler of a response blocks for ever on the channel of a Send that no
\* longer reads it, also when the peer sends a reply and an error.
HandlersReturn ==
  \A m \in Response, pc \in {"put", "delete"} :
    LET h == [response |-> m, pc |-> pc]
    IN  h \in handlers ~> (h \notin handlers \/ panicked)

\* A Send that returns no error was processed by the peer without error: the
\* error message of a response lets the sender know that something went wrong.
OkMeansApplied == \A r \in Request : call[r] = "ok" => r \in applied

\* A response that arrives while Send gives up does no harm.
NoPanic == ~panicked

-----------------------------------------------------------------------------
(* What the proofs rest on. *)

Types ==
  /\ call \in [Request -> {"idle", "send", "wait", "failing", "expiring", "closeFailed",
                           "closeExpired"} \cup Ended]
  /\ table \in SUBSET Request
  /\ buffer \in [Request -> SUBSET Response]
  /\ server \in [Request -> {"none", "process", "reply", "error", "done"}]
  /\ applied \in SUBSET Request
  /\ net \in SUBSET Response
  /\ handlers \in SUBSET Handler
  /\ panicked \in BOOLEAN

\* A channel follows the Send that made it.
ChanInv ==
  chan = [r \in Request |->
            CASE call[r] = "idle" -> "none"
              [] call[r] \in {"failed", "timeout"} -> "closed"
              [] OTHER -> "open"]

\* A handler is about to delete the entry of r.
Deleting(r) == \E h \in handlers : h.response.id = r /\ h.pc = "delete"

\* An entry is made with the channel and deleted before it is closed; once a
\* response is in the channel, and when Send has taken it, the handler that
\* put it there has the deletion before it.
TableInv ==
  \A r \in Request :
    /\ call[r] = "idle" => r \notin table /\ buffer[r] = {}
    /\ call[r] \in {"closeFailed", "closeExpired", "failed", "timeout"} => r \notin table
    /\ r \in table /\ (buffer[r] # {} \/ call[r] = "ok") => Deleting(r)

RoomInv == \A r \in Request : buffer[r] = {} \/ \E m \in Response : buffer[r] = {m}

IndInv == Types /\ ChanInv /\ TableInv /\ RoomInv
=============================================================================
