------------------------------ MODULE EventBus ------------------------------
(***************************************************************************)
(* The node's event bus (event/channel_bus.go): every call puts a command  *)
(* on one bounded channel, and one goroutine, handleChannel, takes the     *)
(* commands off it in order and delivers the messages into the             *)
(* subscribers' bounded channels, blocking on a full one.                  *)
(*                                                                         *)
(* A subscriber is a goroutine that subscribes, reads until its channel is *)
(* closed or until it has had enough, and then unsubscribes without        *)
(* reading any further: that is what handleSubscription does when the      *)
(* client's context ends.                                                  *)
(***************************************************************************)
EXTENDS Naturals, Sequences

CONSTANTS
    Publishers, Subscribers,
    Names,          \* event names without the wildcard
    WildCard,       \* WildCardName
    CommandBuffer, EventBuffer,   \* the capacities of the channels
    MaxPublished    \* bound: messages a publisher publishes

VARIABLES
    commands,           \* commandChannel
    msg, todo,          \* the message being delivered, and to whom still
    subs, events,       \* the maps of the bus; events is a set of <<name, id>>
    value, closed,      \* value[s]: the subscription's channel; closed: those closed
    closing,            \* "open", "locking", "locked", "sent", "closed"
    ppc, published,     \* publishers, and how many messages each has published
    spc, wants,         \* subscribers, and the names each subscribes to
    seen, order         \* history: what s has read; the commands in channel order

bvars == <<commands, msg, todo, subs, events, value, closed, closing,
           ppc, published, spc, wants, seen, order>>

NoMessage == <<>>
Message == [name : Names, by : Publishers, nr : 1 .. MaxPublished]

Init ==
    /\ commands = <<>> /\ msg = NoMessage /\ todo = {}
    /\ subs = {} /\ events = {}
    /\ value = [s \in Subscribers |-> <<>>] /\ closed = {}
    /\ closing = "open"
    /\ ppc = [p \in Publishers |-> NoMessage]
    /\ published = [p \in Publishers |-> 0]
    /\ spc = [s \in Subscribers |-> "new"]
    /\ wants \in [Subscribers -> (SUBSET (Names \cup {WildCard})) \ {{}}]
    /\ seen = [s \in Subscribers |-> <<>>] /\ order = <<>>

handler == <<msg, todo, subs, events, closed>>
readers == <<value, seen>>

\* closeMutex.RLock and the check of isClosed: a pending Lock keeps new
\* readers of the mutex out, and after it they find the bus closed
MayCall == closing = "open"
FoundClosed == closing \in {"sent", "closed"}

\* commandChannel <- cmd, which blocks while the channel is full
Send(cmd) == /\ Len(commands) < CommandBuffer
             /\ commands' = Append(commands, cmd)
             /\ order' = Append(order, cmd)

(***************************************************************************)
(* The callers.  The read lock is held from the call until the command is  *)
(* in the channel.                                                         *)
(***************************************************************************)

CallPublish(p) ==
    /\ ppc[p] = NoMessage /\ published[p] < MaxPublished
    /\ \/ /\ MayCall
          /\ \E n \in Names :
                ppc' = [ppc EXCEPT ![p] = [name |-> n, by |-> p, nr |-> published[p] + 1]]
       \/ FoundClosed /\ UNCHANGED ppc
    /\ published' = [published EXCEPT ![p] = @ + 1]
    /\ UNCHANGED <<commands, order, handler, readers, closing, spc, wants>>

SendPublish(p) ==
    /\ ppc[p] # NoMessage
    /\ Send([op |-> "publish", arg |-> ppc[p]])
    /\ ppc' = [ppc EXCEPT ![p] = NoMessage]
    /\ UNCHANGED <<handler, readers, closing, published, spc, wants>>

CallSubscribe(s) ==
    /\ spc[s] = "new"
    /\ \/ MayCall /\ spc' = [spc EXCEPT ![s] = "subscribing"]
       \/ FoundClosed /\ spc' = [spc EXCEPT ![s] = "refused"]
    /\ UNCHANGED <<commands, order, handler, readers, closing, ppc, published, wants>>

SendSubscribe(s) ==
    /\ spc[s] = "subscribing"
    /\ Send([op |-> "subscribe", arg |-> s])
    /\ spc' = [spc EXCEPT ![s] = "reading"]
    /\ UNCHANGED <<handler, readers, closing, ppc, published, wants>>

Read(s) ==
    /\ spc[s] = "reading" /\ value[s] # <<>>
    /\ seen' = [seen EXCEPT ![s] = Append(@, Head(value[s]))]
    /\ value' = [value EXCEPT ![s] = Tail(@)]
    /\ UNCHANGED <<commands, order, handler, closing, ppc, published, spc, wants>>

\* the reader stops: its channel is closed and empty, or its context is done
Stop(s) ==
    /\ spc[s] = "reading"
    /\ spc' = [spc EXCEPT ![s] = "stopped"]
    /\ UNCHANGED <<commands, order, handler, readers, closing, ppc, published, wants>>

ReadClosed(s) == s \in closed /\ value[s] = <<>> /\ Stop(s)
Leave(s) == ~(s \in closed /\ value[s] = <<>>) /\ Stop(s)

CallUnsubscribe(s) ==
    /\ spc[s] = "stopped"
    /\ \/ MayCall /\ spc' = [spc EXCEPT ![s] = "unsubscribing"]
       \/ FoundClosed /\ spc' = [spc EXCEPT ![s] = "gone"]
    /\ UNCHANGED <<commands, order, handler, readers, closing, ppc, published, wants>>

SendUnsubscribe(s) ==
    /\ spc[s] = "unsubscribing"
    /\ Send([op |-> "unsubscribe", arg |-> s])
    /\ spc' = [spc EXCEPT ![s] = "gone"]
    /\ UNCHANGED <<handler, readers, closing, ppc, published, wants>>

\* Close asks for the write lock, gets it when no call holds the read lock,
\* and waits for the handler to have closed everything
CallClose ==
    /\ closing = "open" /\ closing' = "locking"
    /\ UNCHANGED <<commands, order, handler, readers, ppc, published, spc, wants>>

\* Mutant: Close does not wait for the calls in progress.
LockCloseAtOnce ==
    /\ closing = "locking"
    /\ closing' = "locked"
    /\ UNCHANGED <<commands, order, handler, readers, ppc, published, spc, wants>>

LockClose ==
    /\ closing = "locking"
    /\ \A p \in Publishers : ppc[p] = NoMessage
    /\ \A s \in Subscribers : spc[s] \notin {"subscribing", "unsubscribing"}
    /\ closing' = "locked"
    /\ UNCHANGED <<commands, order, handler, readers, ppc, published, spc, wants>>

SendClose ==
    /\ closing = "locked"
    /\ Send([op |-> "close", arg |-> NoMessage])
    /\ closing' = "sent"
    /\ UNCHANGED <<handler, readers, ppc, published, spc, wants>>

(***************************************************************************)
(* handleChannel                                                           *)
(***************************************************************************)

Listeners(n) == {s \in Subscribers : <<WildCard, s>> \in events \/ <<n, s>> \in events}

\* the handler's loop ends when it has closed the bus
Take(op) == /\ closing # "closed"
            /\ msg = NoMessage /\ commands # <<>> /\ Head(commands).op = op
            /\ commands' = Tail(commands)
            /\ UNCHANGED <<order, ppc, published, spc, wants, seen>>

TakeSubscribe ==
    /\ Take("subscribe")
    /\ LET s == Head(commands).arg IN
        /\ events' = events \cup (wants[s] \X {s})
        /\ subs' = subs \cup {s}
    /\ UNCHANGED <<msg, todo, closed, value, closing>>

\* Mutant: the subscription stays listed under its names.
TakeUnsubscribeListed ==
    /\ Take("unsubscribe")
    /\ LET s == Head(commands).arg IN
        IF s \in subs
        THEN subs' = subs \ {s} /\ closed' = closed \cup {s}
        ELSE UNCHANGED <<subs, closed>>
    /\ UNCHANGED <<msg, todo, events, value, closing>>

TakeUnsubscribe ==
    /\ Take("unsubscribe")
    /\ LET s == Head(commands).arg IN
        IF s \in subs
        THEN /\ events' = events \ (wants[s] \X {s})
             /\ subs' = subs \ {s}
             /\ closed' = closed \cup {s}
        ELSE UNCHANGED <<events, subs, closed>>
    /\ UNCHANGED <<msg, todo, value, closing>>

TakePublish ==
    /\ Take("publish")
    /\ msg' = Head(commands).arg
    /\ todo' = Listeners(Head(commands).arg.name)
    /\ UNCHANGED <<subs, events, closed, value, closing>>

\* one send into a subscriber's channel, the wildcard subscribers first
Deliver(s) ==
    /\ msg # NoMessage /\ s \in todo
    /\ <<WildCard, s>> \in events \/ \A t \in todo : <<WildCard, t>> \notin events
    /\ Len(value[s]) < EventBuffer
    /\ value' = [value EXCEPT ![s] = Append(@, msg)]
    /\ todo' = todo \ {s}
    /\ UNCHANGED <<commands, order, msg, subs, events, closed, closing,
                   ppc, published, spc, wants, seen>>

Delivered ==
    /\ msg # NoMessage /\ todo = {}
    /\ msg' = NoMessage
    /\ UNCHANGED <<commands, order, todo, subs, events, closed, readers, closing,
                   ppc, published, spc, wants>>

\* closing the hasClosedChan lets Close return
TakeClose ==
    /\ Take("close")
    /\ closed' = closed \cup subs
    /\ closing' = "closed"
    /\ UNCHANGED <<msg, todo, subs, events, value>>

Handler == \/ TakeSubscribe \/ TakeUnsubscribe \/ TakePublish \/ TakeClose
           \/ Delivered \/ (\E s \in Subscribers : Deliver(s))

Publisher(p) == CallPublish(p) \/ SendPublish(p)
Subscriber(s) == \/ CallSubscribe(s) \/ SendSubscribe(s) \/ Read(s) \/ ReadClosed(s)
                 \/ CallUnsubscribe(s) \/ SendUnsubscribe(s)

Next == \/ Handler \/ CallClose \/ LockClose \/ SendClose
        \/ (\E p \in Publishers : Publisher(p))
        \/ (\E s \in Subscribers : Subscriber(s) \/ Leave(s))

Going(s) == SendSubscribe(s) \/ Read(s) \/ ReadClosed(s) \/ CallUnsubscribe(s) \/ SendUnsubscribe(s)

\* every goroutine that can go on does; nobody has to close the bus, to
\* publish, to subscribe or to leave
Fairness ==
    /\ WF_bvars(Handler) /\ WF_bvars(LockClose) /\ WF_bvars(SendClose)
    /\ \A p \in Publishers : WF_bvars(SendPublish(p))
    /\ \A s \in Subscribers : WF_bvars(Going(s))

Spec == Init /\ [][Next]_bvars /\ Fairness

TypeOK ==
    /\ Len(commands) <= CommandBuffer
    /\ subs \subseteq Subscribers /\ closed \subseteq Subscribers
    /\ events \subseteq (Names \cup {WildCard}) \X Subscribers
    /\ todo \subseteq Subscribers
    /\ \A s \in Subscribers : Len(value[s]) <= EventBuffer

\* The handler does not panic: whoever it is about to send to is in the map of
\* subscriptions and its channel is open (b.subs[id].value <- ... after an
\* unsubscribe or a close).
SendsToOpenChannels ==
    /\ \A e \in events : e[2] \in subs
    /\ closing # "closed" => subs \cap closed = {}
    /\ todo \subseteq subs

\* a command of s is among the first n of cmds
Asked(cmds, op, s, n) == \E i \in 1 .. n : cmds[i].op = op /\ cmds[i].arg = s

\* where in the channel the messages were that s should see: those after its
\* subscribe command and before its unsubscribe command, under a name it asked for
DueIn(cmds, names, s) ==
    {n \in DOMAIN cmds : /\ cmds[n].op = "publish"
                         /\ names \cap {WildCard, cmds[n].arg.name} # {}
                         /\ Asked(cmds, "subscribe", s, n) /\ ~Asked(cmds, "unsubscribe", s, n)}
Due(s) == DueIn(order, wants[s], s)

Got(s) == seen[s] \o value[s]
IsSent(s, n) == \E i \in DOMAIN Got(s) : Got(s)[i] = order[n].arg

\* Every subscriber is sent the messages published after it subscribed and
\* before it unsubscribed and no others, each once, in the order of the calls
\* and with none left out, however the commands of others are mixed in.
DeliveredInOrder ==
    \A s \in Subscribers :
        /\ \A i \in DOMAIN Got(s) : \E n \in Due(s) : Got(s)[i] = order[n].arg
        /\ \A i, j \in DOMAIN Got(s), m, n \in Due(s) :
             Got(s)[i] = order[m].arg /\ Got(s)[j] = order[n].arg /\ i < j => m < n
        /\ \A m, n \in Due(s) : IsSent(s, n) /\ m < n => IsSent(s, m)
        /\ commands = <<>> /\ msg = NoMessage => \A n \in Due(s) : IsSent(s, n)

\* When Close has returned, every subscription that was handed out is closed:
\* a Subscribe that raced with Close is not left with a channel nobody closes.
CloseReachesEveryone ==
    closing = "closed" =>
        \A s \in Subscribers : spc[s] \notin {"new", "refused"} => s \in closed

\* What the bus promises its users.
BusDelivers == DeliveredInOrder /\ SendsToOpenChannels /\ CloseReachesEveryone

\* a subscriber that no longer reads and whose channel is full
Abandoned == \E s \in todo : spc[s] \notin {"new", "subscribing", "reading"}
                             /\ Len(value[s]) = EventBuffer

Publishing(p) == ppc[p] # NoMessage

\* A call of Publish returns, unless the handler is stuck for good on a
\* subscriber that left without emptying its channel.
PublishReturnsOrAbandoned ==
    \A p \in Publishers : Publishing(p) ~> (~Publishing(p) \/ Abandoned)

\* Publish does not block for good: its comment in event/event.go says it is
\* non-blocking.
PublishReturns == \A p \in Publishers : Publishing(p) ~> ~Publishing(p)

-----------------------------------------------------------------------------
(* What the proofs rest on.                                                *)

Sized == CommandBuffer \in Nat /\ EventBuffer \in Nat /\ MaxPublished \in Nat

Command == [op : {"publish"}, arg : Message]
           \cup [op : {"subscribe", "unsubscribe"}, arg : Subscribers]
           \cup [op : {"close"}, arg : {NoMessage}]

Types ==
    /\ TypeOK
    /\ commands \in Seq(Command) /\ order \in Seq(Command)
    /\ msg \in Message \cup {NoMessage}
    /\ value \in [Subscribers -> Seq(Message)] /\ seen \in [Subscribers -> Seq(Message)]
    /\ closing \in {"open", "locking", "locked", "sent", "closed"}
    /\ ppc \in [Publishers -> Message \cup {NoMessage}]
    /\ published \in [Publishers -> 0 .. MaxPublished]
    /\ spc \in [Subscribers -> {"new", "subscribing", "refused", "reading", "stopped",
                                "unsubscribing", "gone"}]
    /\ wants \in [Subscribers -> SUBSET (Names \cup {WildCard})]

\* how many commands the handler has taken
Taken == Len(order) - Len(commands)

\* The channel holds the last commands; Close's is the last of all, and nobody
\* is in a call by then.
ChannelInv ==
    /\ Len(commands) <= Len(order)
    /\ \A i \in 1 .. Len(commands) : commands[i] = order[Taken + i]
    /\ closing \in {"locked", "sent", "closed"} =>
         /\ \A p \in Publishers : ppc[p] = NoMessage
         /\ \A s \in Subscribers : spc[s] \notin {"subscribing", "unsubscribing"}
    /\ \A i \in DOMAIN order :
         order[i].op = "close" => i = Len(order) /\ closing \in {"sent", "closed"}
    /\ closing = "closed" => commands = <<>>

\* No two messages are alike: nr counts a publisher's calls.
MessageInv ==
    /\ \A p \in Publishers :
         ppc[p] # NoMessage => ppc[p].by = p /\ ppc[p].nr = published[p]
    /\ \A i \in DOMAIN order :
         order[i].op = "publish" =>
             /\ order[i].arg.nr <= published[order[i].arg.by]
             /\ ppc[order[i].arg.by] # NoMessage => order[i].arg.nr < published[order[i].arg.by]
    /\ \A i, j \in DOMAIN order :
         order[i].op = "publish" /\ order[j].op = "publish" /\ order[i].arg = order[j].arg
             => i = j

\* Who subscribed did so once, and before leaving.
CallInv ==
    /\ \A s \in Subscribers :
         /\ spc[s] \in {"new", "subscribing", "refused"}
                <=> ~Asked(order, "subscribe", s, Len(order))
         /\ Asked(order, "unsubscribe", s, Len(order)) => spc[s] = "gone"
    /\ \A i, j \in DOMAIN order :
         order[i].op = "unsubscribe" /\ order[j].op = "subscribe" /\ order[i].arg = order[j].arg
             => j < i

\* who the first n commands have subscribed, and who they have unsubscribed
Joined(n) == {s \in Subscribers : Asked(order, "subscribe", s, n)}
Left(n) == {s \in Subscribers : Asked(order, "unsubscribe", s, n)}

\* The maps say who the commands taken so far have subscribed.
MapInv ==
    /\ subs = Joined(Taken) \ Left(Taken)
    /\ events = {e \in (Names \cup {WildCard}) \X Subscribers : e[2] \in subs /\ e[1] \in wants[e[2]]}
    /\ closed = IF closing = "closed" THEN Joined(Taken) ELSE Left(Taken)
    /\ IF msg = NoMessage THEN todo = {}
       ELSE /\ Taken > 0 /\ order[Taken].op = "publish" /\ order[Taken].arg = msg
            /\ todo \subseteq Listeners(msg.name)

\* The messages of got are those of cmds at the places due up to the k-th, in
\* that order.
Exact(got, cmds, due, k) ==
    /\ \A i \in DOMAIN got : \E n \in due : got[i] = cmds[n].arg
    /\ \A i, j \in DOMAIN got, m, n \in due :
         got[i] = cmds[m].arg /\ got[j] = cmds[n].arg /\ i < j => m < n
    /\ \A n \in due : (\E i \in DOMAIN got : got[i] = cmds[n].arg) <=> n <= k

\* A subscriber has been sent what was due in the commands taken so far, but
\* for the message it is still to be sent.
SentTo(s) == IF s \in todo THEN Taken - 1 ELSE Taken
SentInv == \A s \in Subscribers : Exact(Got(s), order, Due(s), SentTo(s))

IndInv == Types /\ ChannelInv /\ MessageInv /\ CallInv /\ MapInv /\ SentInv
=============================================================================
