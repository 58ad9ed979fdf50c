---------------------------- MODULE ChannelProofs ----------------------------
(***************************************************************************)
(* Proofs about the channels of a node, for any number of their clients.   *)
(* The event bus (EventBus): every subscriber is sent what was published   *)
(* while it was subscribed, once and in order.  Requests and responses     *)
(* (CommChannel): the table of response channels is true to the calls.     *)
(***************************************************************************)
EXTENDS EventBus, TLAPS

(***************************************************************************)
(* Sequences of commands                                                   *)
(***************************************************************************)

\* What a command put on the channel changes.
LEMMA SendAppends ==
    ASSUME Sized, Types, ChannelInv, NEW cmd \in Command, Send(cmd)
    PROVE  /\ order' \in Seq(Command) /\ commands' \in Seq(Command)
           /\ Len(order) \in Nat /\ Len(order') = Len(order) + 1
           /\ Len(commands') <= CommandBuffer /\ commands' # <<>>
           /\ \A i \in 1 .. Len(order) : order'[i] = order[i]
           /\ order'[Len(order) + 1] = cmd
           /\ Taken \in 0 .. Len(order) /\ Taken' = Taken
           /\ Len(commands') <= Len(order')
           /\ \A i \in 1 .. Len(commands') : commands'[i] = order'[Taken' + i]
  <1>1. /\ order \in Seq(Command) /\ commands \in Seq(Command)
        /\ order' = Append(order, cmd) /\ commands' = Append(commands, cmd)
        /\ Len(commands) <= Len(order)
        /\ \A i \in 1 .. Len(commands) : commands[i] = order[Taken + i]
    BY Zenon DEF Types, ChannelInv, Send
  <1>2. /\ order' \in Seq(Command) /\ commands' \in Seq(Command)
        /\ Len(order) \in Nat /\ Len(commands) \in Nat
        /\ Len(order') = Len(order) + 1 /\ Len(commands') = Len(commands) + 1
        /\ \A i \in 1 .. Len(order) : order'[i] = order[i]
        /\ \A i \in 1 .. Len(commands) : commands'[i] = commands[i]
        /\ order'[Len(order) + 1] = cmd /\ commands'[Len(commands) + 1] = cmd
        /\ commands' # <<>>
    BY <1>1
  <1>3. Taken \in 0 .. Len(order) /\ Taken' = Taken BY <1>1, <1>2 DEF Taken
  <1>4. Len(commands') <= CommandBuffer
    <2>1. Len(commands) < CommandBuffer BY Zenon DEF Send
    <2> QED BY <1>2, <2>1 DEF Sized
  <1>5. ASSUME NEW i \in 1 .. Len(commands') PROVE commands'[i] = order'[Taken' + i]
    <2>1. CASE i = Len(commands) + 1 BY <1>2, <1>3, <2>1 DEF Taken
    <2>2. CASE i # Len(commands) + 1
      <3>1. i \in 1 .. Len(commands) /\ Taken + i \in 1 .. Len(order)
        BY <1>1, <1>2, <1>3, <2>2 DEF Taken
      <3> QED BY <1>1, <1>2, <1>3, <3>1, Zenon
    <2> QED BY <2>1, <2>2, Zenon
  <1>6. Len(commands') <= Len(order') BY <1>1, <1>2
  <1> QED BY <1>2, <1>3, <1>4, <1>5, <1>6, Zenon

\* What a command taken off the channel changes.
LEMMA TakeOne ==
    ASSUME Types, ChannelInv, commands # <<>>, commands' = Tail(commands), order' = order
    PROVE  /\ commands' \in Seq(Command) /\ Len(order) \in Nat
           /\ Len(commands') <= Len(commands) /\ Len(commands') <= Len(order')
           /\ Taken \in Nat /\ Taken' = Taken + 1 /\ Taken + 1 \in 1 .. Len(order)
           /\ Head(commands) = order[Taken + 1] /\ Head(commands) \in Command
           /\ \A i \in 1 .. Len(commands') : commands'[i] = order'[Taken' + i]
           /\ commands' = <<>> => Taken + 1 = Len(order)
           /\ Taken + 1 = Len(order) => commands' = <<>>
  <1>1. /\ order \in Seq(Command) /\ commands \in Seq(Command)
        /\ Len(commands) <= Len(order)
        /\ \A i \in 1 .. Len(commands) : commands[i] = order[Taken + i]
    BY Zenon DEF Types, ChannelInv
  <1>2. /\ commands' \in Seq(Command) /\ Head(commands) \in Command
        /\ Len(order) \in Nat /\ Len(commands) \in Nat /\ Len(commands) > 0
        /\ Len(commands') = Len(commands) - 1 /\ Head(commands) = commands[1]
        /\ \A i \in 1 .. Len(commands') : commands'[i] = commands[i + 1]
        /\ commands' = <<>> <=> Len(commands') = 0
    <2>1. Len(order) \in Nat /\ Len(commands) \in Nat /\ Len(commands) > 0 BY <1>1
    <2>2. commands' \in Seq(Command) /\ Len(commands') = Len(commands) - 1 BY <1>1, <2>1
    <2>3. Head(commands) = commands[1] /\ commands[1] \in Command BY <1>1, <2>1
    <2>4. \A i \in 1 .. Len(commands') : commands'[i] = commands[i + 1] BY <1>1, <2>1, <2>2
    <2>5. commands' = <<>> <=> Len(commands') = 0 BY <2>2
    <2> QED BY <2>1, <2>2, <2>3, <2>4, <2>5, Zenon
  <1>3. Taken \in Nat /\ Taken' = Taken + 1 /\ Taken + 1 \in 1 .. Len(order)
    BY <1>1, <1>2 DEF Taken
  <1>4. \A i \in 1 .. Len(commands') : commands'[i] = order'[Taken' + i]
    BY <1>1, <1>2, <1>3
  <1>5. commands' = <<>> <=> Taken + 1 = Len(order) BY <1>1, <1>2, <1>3 DEF Taken
  <1> QED BY <1>1, <1>2, <1>3, <1>4, <1>5

(***************************************************************************)
(* What is sent to one subscriber                                          *)
(***************************************************************************)

\* no two messages of the channel are alike
Unlike(cmds) ==
    \A i, j \in DOMAIN cmds :
        cmds[i].op = "publish" /\ cmds[j].op = "publish" /\ cmds[i].arg = cmds[j].arg => i = j

\* A command put on the channel that is not taken yet changes nothing.
LEMMA ExactSend ==
    ASSUME NEW a \in Seq(Command), NEW b \in Seq(Command), Len(b) = Len(a) + 1,
           \A i \in 1 .. Len(a) : b[i] = a[i], Unlike(b),
           NEW names, NEW s, NEW got \in Seq(Message), NEW k \in 0 .. Len(a),
           Exact(got, a, DueIn(a, names, s), k)
    PROVE  Exact(got, b, DueIn(b, names, s), k)
  <1> DEFINE D == DueIn(a, names, s)
             E == DueIn(b, names, s)
  <1>1. Len(a) \in Nat /\ DOMAIN a = 1 .. Len(a) /\ DOMAIN b = 1 .. (Len(a) + 1) OBVIOUS
  <1>2. ASSUME NEW n \in 1 .. Len(a) PROVE n \in E <=> n \in D
    <2>1. Asked(b, "subscribe", s, n) <=> Asked(a, "subscribe", s, n) BY <1>1 DEF Asked
    <2>2. Asked(b, "unsubscribe", s, n) <=> Asked(a, "unsubscribe", s, n) BY <1>1 DEF Asked
    <2> QED BY <1>1, <2>1, <2>2 DEF DueIn
  <1>3. /\ D \subseteq 1 .. Len(a) /\ E \subseteq 1 .. (Len(a) + 1)
        /\ \A n \in E : b[n].op = "publish"
    BY <1>1, Zenon DEF DueIn
  <1>4. \A n \in E : n \in D \/ n = Len(a) + 1 BY <1>1, <1>2, <1>3
  <1>5. \A n \in D : n \in E /\ b[n] = a[n] BY <1>2, <1>3, Zenon
  <1>6. ASSUME NEW i \in DOMAIN got, NEW n \in E, got[i] = b[n].arg PROVE n \in D
    <2>1. PICK m \in D : got[i] = a[m].arg BY Zenon DEF Exact
    <2>2. m \in E /\ b[m].arg = b[n].arg BY <1>5, <1>6, <2>1, Zenon
    <2>3. m = n BY <1>1, <1>3, <2>2, Zenon DEF Unlike
    <2> QED BY <2>3, Zenon
  <1>7. \A i \in DOMAIN got : \E n \in E : got[i] = b[n].arg BY <1>5 DEF Exact
  <1>8. ASSUME NEW i \in DOMAIN got, NEW j \in DOMAIN got, NEW m \in E, NEW n \in E,
               got[i] = b[m].arg, got[j] = b[n].arg, i < j
        PROVE  m < n
    <2>1. m \in D /\ n \in D BY <1>6, <1>8, Zenon
    <2> QED BY <1>5, <1>8, <2>1, Zenon DEF Exact
  <1>9. ASSUME NEW n \in E
        PROVE  (\E i \in DOMAIN got : got[i] = b[n].arg) <=> n <= k
    <2>1. CASE n \in D BY <1>5, <2>1, Zenon DEF Exact
    <2>2. CASE n \notin D
      <3>1. n = Len(a) + 1 BY <1>4, <2>2, Zenon
      <3>2. ~(n <= k) BY <1>1, <3>1
      <3> QED BY <1>6, <2>2, <3>2, Zenon
    <2> QED BY <2>1, <2>2, Zenon
  <1> HIDE DEF D, E
  <1>10. Exact(got, b, E, k) BY <1>7, <1>8, <1>9 DEF Exact
  <1> QED BY <1>10, Zenon DEF E

\* Taking a command that is not due.
LEMMA ExactTake ==
    ASSUME NEW got, NEW cmds, NEW due \in SUBSET Nat, NEW k \in Nat, k + 1 \notin due,
           Exact(got, cmds, due, k)
    PROVE  Exact(got, cmds, due, k + 1)
  <1>1. \A n \in due : n <= k <=> n <= k + 1 OBVIOUS
  <1> QED BY <1>1, Zenon DEF Exact

\* Sending the pending message.
LEMMA ExactDeliver ==
    ASSUME NEW got \in Seq(Message), NEW cmds \in Seq(Command), Unlike(cmds),
           NEW due \in SUBSET (DOMAIN cmds), \A n \in due : cmds[n].op = "publish",
           NEW k \in due, cmds[k].arg \in Message,
           Exact(got, cmds, due, k - 1)
    PROVE  Exact(Append(got, cmds[k].arg), cmds, due, k)
  <1> DEFINE new == Append(got, cmds[k].arg)
             l == Len(got) + 1
  <1>1. /\ l \in Nat /\ DOMAIN got = 1 .. Len(got) /\ Len(got) \in Nat /\ DOMAIN new = 1 .. l
        /\ new[l] = cmds[k].arg /\ \A i \in DOMAIN got : new[i] = got[i]
    OBVIOUS
  <1>2. \A m, n \in due : cmds[m].arg = cmds[n].arg => m = n BY Zenon DEF Unlike
  <1>3. due \subseteq Nat OBVIOUS
  <1> HIDE DEF new, l
  <1>4. \A i \in DOMAIN new : i \in DOMAIN got \/ i = l BY <1>1 DEF l
  <1>5. ASSUME NEW i \in DOMAIN got, NEW n \in due, got[i] = cmds[n].arg PROVE n < k
    <2>1. n <= k - 1 BY <1>5, Zenon DEF Exact
    <2> QED BY <1>3, <2>1
  <1>6. \A i \in DOMAIN new : \E n \in due : new[i] = cmds[n].arg BY <1>1, <1>4 DEF Exact
  <1>7. ASSUME NEW i \in DOMAIN new, NEW j \in DOMAIN new, NEW m \in due, NEW n \in due,
               new[i] = cmds[m].arg, new[j] = cmds[n].arg, i < j
        PROVE  m < n
    <2>1. i \in DOMAIN got BY <1>1, <1>7 DEF l
    <2>2. CASE j \in DOMAIN got BY <1>1, <1>7, <2>1, <2>2 DEF Exact
    <2>3. CASE j = l
      <3>1. n = k BY <1>1, <1>2, <1>7, <2>3, Zenon
      <3> QED BY <1>1, <1>5, <1>7, <2>1, <3>1, Zenon
    <2> QED BY <1>4, <2>2, <2>3, Zenon
  <1>8. ASSUME NEW n \in due
        PROVE  (\E i \in DOMAIN new : new[i] = cmds[n].arg) <=> n <= k
    <2>1. CASE n = k
      <3>1. l \in DOMAIN new BY <1>1 DEF l
      <3> QED BY <1>1, <1>3, <2>1, <3>1
    <2>2. CASE n # k
      <3>1. (\E i \in DOMAIN new : new[i] = cmds[n].arg) <=> (\E i \in DOMAIN got : got[i] = cmds[n].arg)
        <4>1. new[l] # cmds[n].arg BY <1>1, <1>2, <2>2, Zenon
        <4>2. \A i \in DOMAIN got : i \in DOMAIN new BY <1>1 DEF l
        <4> QED BY <1>1, <1>4, <4>1, <4>2, Zenon
      <3>2. n <= k <=> n <= k - 1 BY <1>3, <2>2
      <3> QED BY <3>1, <3>2, Zenon DEF Exact
    <2> QED BY <2>1, <2>2, Zenon
  <1>9. Exact(new, cmds, due, k) BY <1>6, <1>7, <1>8, Zenon DEF Exact
  <1> QED BY <1>9, Zenon DEF new

(***************************************************************************)
(* Types and the channel                                                   *)
(***************************************************************************)

LEMMA CommandArg ==
    ASSUME NEW c \in Command
    PROVE  /\ c.op = "publish" => c.arg \in Message
           /\ c.op \in {"subscribe", "unsubscribe"} => c.arg \in Subscribers
  BY Zenon DEF Command

LEMMA NoMessageIsNone == NoMessage \notin Message
  <1>1. ASSUME NEW m \in Message PROVE m # <<>>
    <2>1. DOMAIN m = {"name", "by", "nr"} BY Zenon DEF Message
    <2>2. DOMAIN <<>> = {} OBVIOUS
    <2> QED BY <2>1, <2>2, Zenon
  <1> QED BY <1>1, Zenon DEF NoMessage

\* The steps that neither put a command on the channel nor take one off it.
Elsewhere ==
    \/ \E p \in Publishers : CallPublish(p)
    \/ \E s \in Subscribers : CallSubscribe(s) \/ Read(s) \/ ReadClosed(s) \/ Leave(s)
                              \/ CallUnsubscribe(s) \/ Deliver(s)
    \/ Delivered \/ CallClose \/ LockClose

Sends ==
    \/ \E p \in Publishers : SendPublish(p)
    \/ \E s \in Subscribers : SendSubscribe(s) \/ SendUnsubscribe(s)
    \/ SendClose

Takes == TakeSubscribe \/ TakeUnsubscribe \/ TakePublish \/ TakeClose

LEMMA NextIs == Next => Elsewhere \/ Sends \/ Takes
  BY Zenon DEF Next, Handler, Publisher, Subscriber, Elsewhere, Sends, Takes

LEMMA ElsewhereKeeps == Elsewhere => UNCHANGED <<commands, order, wants>>
  BY Zenon DEF Elsewhere, CallPublish, CallSubscribe, Read, ReadClosed, Leave, Stop, CallUnsubscribe,
         Deliver, Delivered, CallClose, LockClose

\* The command that a step sends.
LEMMA SendsCommand ==
    ASSUME Types, Sends
    PROVE  \E cmd \in Command :
             /\ Send(cmd)
             /\ cmd.op = "close" <=> closing' # closing
  <1>1. ASSUME NEW p \in Publishers, SendPublish(p)
        PROVE  LET cmd == [op |-> "publish", arg |-> ppc[p]]
               IN  cmd \in Command /\ Send(cmd) /\ cmd.op # "close" /\ closing' = closing
    <2>1. ppc[p] \in Message BY <1>1, Zenon DEF SendPublish, Types
    <2> QED BY <1>1, <2>1, Zenon DEF SendPublish, Command
  <1>2. ASSUME NEW s \in Subscribers, SendSubscribe(s)
        PROVE  LET cmd == [op |-> "subscribe", arg |-> s]
               IN  cmd \in Command /\ Send(cmd) /\ cmd.op # "close" /\ closing' = closing
    BY <1>2, Zenon DEF SendSubscribe, Command
  <1>3. ASSUME NEW s \in Subscribers, SendUnsubscribe(s)
        PROVE  LET cmd == [op |-> "unsubscribe", arg |-> s]
               IN  cmd \in Command /\ Send(cmd) /\ cmd.op # "close" /\ closing' = closing
    BY <1>3, Zenon DEF SendUnsubscribe, Command
  <1>4. ASSUME SendClose
        PROVE  LET cmd == [op |-> "close", arg |-> NoMessage]
               IN  cmd \in Command /\ Send(cmd) /\ cmd.op = "close" /\ closing' # closing
    BY <1>4, Zenon DEF SendClose, Command
  <1> QED BY <1>1, <1>2, <1>3, <1>4, Zenon DEF Sends

LEMMA TypesStep ==
    ASSUME Sized, Types, ChannelInv, [Next]_bvars
    PROVE  Types'
  <1> DEFINE Channel == Len(commands) <= CommandBuffer
                        /\ commands \in Seq(Command) /\ order \in Seq(Command)
             Handling == /\ msg \in Message \cup {NoMessage} /\ todo \subseteq Subscribers
                         /\ subs \subseteq Subscribers /\ closed \subseteq Subscribers
                         /\ events \subseteq (Names \cup {WildCard}) \X Subscribers
             Reading == /\ \A s \in Subscribers : Len(value[s]) <= EventBuffer
                        /\ value \in [Subscribers -> Seq(Message)]
                        /\ seen \in [Subscribers -> Seq(Message)]
             Calling == /\ closing \in {"open", "locking", "locked", "sent", "closed"}
                        /\ ppc \in [Publishers -> Message \cup {NoMessage}]
                        /\ published \in [Publishers -> 0 .. MaxPublished]
                        /\ spc \in [Subscribers -> {"new", "subscribing", "refused", "reading",
                                                   "stopped", "unsubscribing", "gone"}]
                        /\ wants \in [Subscribers -> SUBSET (Names \cup {WildCard})]
  <1>1. Channel /\ Handling /\ Reading /\ Calling BY Zenon DEF Types, TypeOK
  <1>2. CASE UNCHANGED bvars BY <1>1, <1>2, Zenon DEF bvars, Types, TypeOK
  <1>3. CASE Elsewhere
    <2>1. Channel' BY <1>1, <1>3, ElsewhereKeeps, Zenon
    <2>2. Handling'
      BY <1>1, <1>3, Zenon DEF Elsewhere, CallPublish, CallSubscribe, Read, ReadClosed, Leave, Stop,
            CallUnsubscribe, Deliver, Delivered, CallClose, LockClose, handler
    <2>3. Reading'
      <3>1. ASSUME NEW s \in Subscribers, Read(s) PROVE Reading'
        <4>1. /\ value[s] \in Seq(Message) /\ seen[s] \in Seq(Message) /\ value[s] # <<>>
              /\ seen' = [seen EXCEPT ![s] = Append(seen[s], Head(value[s]))]
              /\ value' = [value EXCEPT ![s] = Tail(value[s])]
          BY <1>1, <3>1, Zenon DEF Read
        <4>2. /\ Append(seen[s], Head(value[s])) \in Seq(Message) /\ Tail(value[s]) \in Seq(Message)
              /\ Len(Tail(value[s])) \in Nat /\ Len(Tail(value[s])) <= Len(value[s])
              /\ Len(value[s]) \in Nat
          BY <4>1
        <4>3. Len(Tail(value[s])) <= EventBuffer BY <1>1, <4>2 DEF Sized
        <4> QED BY <1>1, <4>1, <4>2, <4>3, Zenon
      <3>2. ASSUME NEW s \in Subscribers, Deliver(s) PROVE Reading'
        <4>1. /\ value[s] \in Seq(Message) /\ msg \in Message /\ Len(value[s]) < EventBuffer
              /\ value' = [value EXCEPT ![s] = Append(value[s], msg)] /\ seen' = seen
          BY <1>1, <3>2, Zenon DEF Deliver
        <4>2. /\ Append(value[s], msg) \in Seq(Message) /\ Len(value[s]) \in Nat
              /\ Len(Append(value[s], msg)) = Len(value[s]) + 1
          BY <4>1
        <4>3. Len(Append(value[s], msg)) <= EventBuffer BY <4>1, <4>2 DEF Sized
        <4> QED BY <1>1, <4>1, <4>2, <4>3, Zenon
      <3>3. ASSUME UNCHANGED readers PROVE Reading' BY <1>1, <3>3, Zenon DEF readers
      <3>4. ASSUME ~\E s \in Subscribers : Read(s) \/ Deliver(s) PROVE UNCHANGED readers
        BY <1>3, <3>4, Zenon DEF Elsewhere, CallPublish, CallSubscribe, ReadClosed, Leave, Stop,
            CallUnsubscribe, Delivered, CallClose, LockClose
      <3> HIDE DEF Reading
      <3> QED BY <3>1, <3>2, <3>3, <3>4, Zenon
    <2>4. Calling'
      <3>1. ASSUME NEW p \in Publishers, CallPublish(p) PROVE Calling'
        <4>1. published[p] + 1 \in 1 .. MaxPublished BY <1>1, <3>1 DEF CallPublish, Sized
        <4>2. \A n \in Names : [name |-> n, by |-> p, nr |-> published[p] + 1] \in Message
          BY <4>1, Zenon DEF Message
        <4>3. ppc' \in [Publishers -> Message \cup {NoMessage}]
          BY <1>1, <3>1, <4>2, Zenon DEF CallPublish
        <4>4. published' \in [Publishers -> 0 .. MaxPublished]
          BY <1>1, <3>1, <4>1 DEF CallPublish, Sized
        <4> QED BY <1>1, <3>1, <4>3, <4>4, Zenon DEF CallPublish
      <3>2. ASSUME ~\E p \in Publishers : CallPublish(p) PROVE Calling'
        BY <1>1, <1>3, <3>2, Zenon DEF Elsewhere, CallSubscribe, Read, ReadClosed, Leave, Stop,
            CallUnsubscribe, Deliver, Delivered, CallClose, LockClose
      <3> QED BY <3>1, <3>2, Zenon
    <2> QED BY <2>1, <2>2, <2>3, <2>4, Zenon DEF Types, TypeOK
  <1>4. CASE Sends
    <2>1. PICK cmd \in Command : Send(cmd) BY <1>4, SendsCommand, Zenon
    <2>2. Channel' BY <2>1, SendAppends, Zenon
    <2>3. Handling' /\ Reading' /\ Calling'
      BY <1>1, <1>4, Zenon DEF Sends, SendPublish, SendSubscribe, SendUnsubscribe, SendClose, handler,
            readers
    <2> QED BY <2>2, <2>3, Zenon DEF Types, TypeOK
  <1>5. CASE Takes
    <2>1. /\ commands # <<>> /\ commands' = Tail(commands)
          /\ UNCHANGED <<order, ppc, published, spc, wants, seen, value>>
      BY <1>5, Zenon DEF Takes, TakeSubscribe, TakeUnsubscribe, TakePublish, TakeClose, Take
    <2>2. commands' \in Seq(Command) /\ Len(commands') <= Len(commands) /\ Head(commands) \in Command
      BY <2>1, TakeOne, Zenon
    <2>3. Channel'
      <3>1. Len(commands) \in Nat /\ Len(commands') \in Nat BY <1>1, <2>2
      <3> QED BY <1>1, <2>1, <2>2, <3>1 DEF Sized
    <2>4. Reading' /\ Calling'
      BY <1>1, <1>5, <2>1, Zenon DEF Takes, TakeSubscribe, TakeUnsubscribe, TakePublish, TakeClose
    <2>5. Handling'
      <3>1. CASE TakeSubscribe
        <4>1. Head(commands).arg \in Subscribers
          BY <2>2, <3>1, CommandArg, Zenon DEF TakeSubscribe, Take
        <4> QED BY <1>1, <3>1, <4>1, Zenon DEF TakeSubscribe
      <3>2. CASE TakeUnsubscribe
        <4>1. Head(commands).arg \in Subscribers
          BY <2>2, <3>2, CommandArg, Zenon DEF TakeUnsubscribe, Take
        <4> QED BY <1>1, <3>2, <4>1, Zenon DEF TakeUnsubscribe
      <3>3. CASE TakePublish
        <4>1. Head(commands).arg \in Message
          BY <2>2, <3>3, CommandArg, Zenon DEF TakePublish, Take
        <4> QED BY <1>1, <3>3, <4>1, Zenon DEF TakePublish, Listeners
      <3>4. CASE TakeClose BY <1>1, <3>4, Zenon DEF TakeClose
      <3> QED BY <1>5, <3>1, <3>2, <3>3, <3>4, Zenon DEF Takes
    <2> QED BY <2>3, <2>4, <2>5, Zenon DEF Types, TypeOK
  <1> QED BY <1>2, <1>3, <1>4, <1>5, NextIs, Zenon

\* A caller that sends a command holds the read lock of closeMutex, so that
\* Close has not sent its own.
LEMMA SendersAreOpen ==
    ASSUME ChannelInv, Sends
    PROVE  /\ closing \notin {"sent", "closed"}
           /\ closing' = closing => closing # "locked"
           /\ closing' # closing => closing = "locked" /\ closing' = "sent"
  BY Zenon DEF ChannelInv, Sends, SendPublish, SendSubscribe, SendUnsubscribe, SendClose

LEMMA ChannelStep ==
    ASSUME Sized, Types, ChannelInv, [Next]_bvars
    PROVE  ChannelInv'
  <1> DEFINE Tied == /\ Len(commands) <= Len(order)
                     /\ \A i \in 1 .. Len(commands) : commands[i] = order[Taken + i]
             Quiet == closing \in {"locked", "sent", "closed"} =>
                         /\ \A p \in Publishers : ppc[p] = NoMessage
                         /\ \A s \in Subscribers : spc[s] \notin {"subscribing", "unsubscribing"}
             Last == \A i \in DOMAIN order :
                        order[i].op = "close" => i = Len(order) /\ closing \in {"sent", "closed"}
             Over == closing = "closed" => commands = <<>>
  <1>1. Tied /\ Quiet /\ Last /\ Over /\ order \in Seq(Command) BY Zenon DEF ChannelInv, Types
  <1>2. CASE UNCHANGED bvars BY <1>1, <1>2, Zenon DEF bvars, ChannelInv, Taken
  <1>3. CASE Elsewhere
    <2>1. UNCHANGED <<commands, order>> BY <1>3, ElsewhereKeeps, Zenon
    <2>2. Tied' BY <1>1, <2>1, Zenon DEF Taken
    <2>3. \/ closing' = closing
          \/ closing' \in {"locking", "locked"} /\ closing \in {"open", "locking"}
      <3>1. CASE CallClose \/ LockClose BY <3>1, Zenon DEF CallClose, LockClose
      <3>2. CASE ~(CallClose \/ LockClose)
        BY <1>3, <3>2, Zenon DEF Elsewhere, CallPublish, CallSubscribe, Read, ReadClosed, Leave, Stop,
            CallUnsubscribe, Deliver, Delivered
      <3> QED BY <3>1, <3>2, Zenon
    <2>4. Last' /\ Over' BY <1>1, <2>1, <2>3, Zenon
    <2>5. Quiet'
      <3>1. ASSUME NEW p \in Publishers, CallPublish(p) PROVE Quiet'
        BY <1>1, <3>1, Zenon DEF CallPublish, MayCall, FoundClosed
      <3>2. ASSUME NEW s \in Subscribers, CallSubscribe(s) \/ CallUnsubscribe(s) PROVE Quiet'
        BY <1>1, <3>2, Zenon DEF CallSubscribe, CallUnsubscribe, MayCall, FoundClosed, Types
      <3>3. ASSUME NEW s \in Subscribers, ReadClosed(s) \/ Leave(s) PROVE Quiet'
        BY <1>1, <3>3, Zenon DEF ReadClosed, Leave, Stop, Types
      <3>4. ASSUME NEW s \in Subscribers, Read(s) \/ Deliver(s) PROVE Quiet'
        BY <1>1, <3>4, Zenon DEF Read, Deliver
      <3>5. CASE Delivered \/ CallClose \/ LockClose
        BY <1>1, <3>5, Zenon DEF Delivered, CallClose, LockClose
      <3> HIDE DEF Quiet
      <3> QED BY <1>3, <3>1, <3>2, <3>3, <3>4, <3>5, Zenon DEF Elsewhere
    <2> QED BY <2>2, <2>4, <2>5, Zenon DEF ChannelInv
  <1>4. CASE Sends
    <2>1. PICK cmd \in Command : Send(cmd) /\ (cmd.op = "close" <=> closing' # closing)
      BY <1>4, SendsCommand, Zenon
    <2>2. /\ order' \in Seq(Command) /\ Len(order) \in Nat /\ Len(order') = Len(order) + 1
          /\ \A i \in 1 .. Len(order) : order'[i] = order[i]
          /\ order'[Len(order) + 1] = cmd
      BY <2>1, SendAppends, Zenon
    <2>3. Tied' BY <2>1, SendAppends, Zenon
    <2>4. /\ closing \notin {"sent", "closed"}
          /\ closing' = closing => closing # "locked"
          /\ closing' # closing => closing = "locked" /\ closing' = "sent"
      BY <1>4, SendersAreOpen, Zenon
    <2>5. Over' BY <2>4, Zenon
    <2>6. Last'
      <3>1. ASSUME NEW i \in DOMAIN order', order'[i].op = "close"
            PROVE  i = Len(order') /\ closing' \in {"sent", "closed"}
        <4>1. i \in 1 .. (Len(order) + 1) BY <2>2, <3>1
        <4>2. CASE i \in 1 .. Len(order)
          <5>1. i \in DOMAIN order /\ order[i].op = "close" BY <1>1, <2>2, <3>1, <4>2
          <5> QED BY <1>1, <2>4, <5>1, Zenon
        <4>3. CASE i = Len(order) + 1 BY <2>1, <2>2, <2>4, <3>1, <4>3, Zenon
        <4> QED BY <2>2, <4>1, <4>2, <4>3
      <3> QED BY <3>1, Zenon
    <2>7. Quiet'
      BY <1>1, <1>4, <2>4, Zenon DEF Sends, SendPublish, SendSubscribe, SendUnsubscribe, SendClose
    <2> QED BY <2>3, <2>5, <2>6, <2>7, Zenon DEF ChannelInv
  <1>5. CASE Takes
    <2>1. /\ commands # <<>> /\ commands' = Tail(commands) /\ order' = order
          /\ ppc' = ppc /\ spc' = spc /\ closing # "closed"
          /\ closing' = closing \/ (Head(commands).op = "close" /\ closing' = "closed")
      BY <1>5, Zenon DEF Takes, TakeSubscribe, TakeUnsubscribe, TakePublish, TakeClose, Take
    <2>2. /\ Tied' /\ Head(commands) = order[Taken + 1] /\ Taken + 1 \in 1 .. Len(order)
          /\ Taken + 1 = Len(order) => commands' = <<>>
      BY <2>1, TakeOne, Zenon
    <2>3. Head(commands).op = "close" => Taken + 1 = Len(order) /\ closing = "sent"
      BY <1>1, <2>1, <2>2
    <2>4. Over' BY <2>1, <2>2, <2>3, Zenon
    <2>5. Last' BY <1>1, <2>1, Zenon
    <2>6. Quiet' BY <1>1, <2>1, <2>3, Zenon
    <2> QED BY <2>2, <2>4, <2>5, <2>6, Zenon DEF ChannelInv
  <1> QED BY <1>2, <1>3, <1>4, <1>5, NextIs, Zenon

(***************************************************************************)
(* Messages and subscriptions                                              *)
(***************************************************************************)

LEMMA MessageStep ==
    ASSUME Sized, Types, ChannelInv, MessageInv, [Next]_bvars
    PROVE  MessageInv'
  <1> DEFINE Own == \A p \in Publishers : ppc[p] # NoMessage => ppc[p].by = p /\ ppc[p].nr = published[p]
             Old == \A i \in DOMAIN order : order[i].op = "publish" =>
                        /\ order[i].arg.nr <= published[order[i].arg.by]
                        /\ ppc[order[i].arg.by] # NoMessage
                               => order[i].arg.nr < published[order[i].arg.by]
  <1>1. /\ Own /\ Old /\ Unlike(order) /\ order \in Seq(Command)
        /\ ppc \in [Publishers -> Message \cup {NoMessage}]
        /\ published \in [Publishers -> 0 .. MaxPublished] /\ MaxPublished \in Nat
    BY Zenon DEF MessageInv, Unlike, Types, Sized
  <1>2. SUFFICES Own' /\ Old' /\ Unlike(order') BY Zenon DEF MessageInv, Unlike
  <1>3. ASSUME UNCHANGED <<order, ppc, published>> PROVE Own' /\ Old' /\ Unlike(order')
    BY <1>1, <1>3, Zenon
  <1>4. \A i \in DOMAIN order : order[i].op = "publish" =>
           order[i].arg.by \in Publishers /\ order[i].arg.nr \in Nat
    <2>1. ASSUME NEW i \in DOMAIN order, order[i].op = "publish"
          PROVE  order[i].arg.by \in Publishers /\ order[i].arg.nr \in Nat
      <3>1. order[i] \in Command BY <1>1
      <3>2. order[i].arg \in Message BY <2>1, <3>1, CommandArg, Zenon
      <3> QED BY <1>1, <3>2 DEF Message
    <2> QED BY <2>1, Zenon
  <1>5. ASSUME NEW p \in Publishers, CallPublish(p) PROVE Own' /\ Old' /\ Unlike(order')
    <2>1. /\ order' = order /\ published' = [published EXCEPT ![p] = published[p] + 1]
          /\ ppc[p] = NoMessage
          /\ \/ \E n \in Names :
                  ppc' = [ppc EXCEPT ![p] = [name |-> n, by |-> p, nr |-> published[p] + 1]]
             \/ ppc' = ppc
      BY <1>5, Zenon DEF CallPublish
    <2>2. Own' BY <1>1, <2>1
    <2>3. ASSUME NEW i \in DOMAIN order, order[i].op = "publish"
          PROVE  order[i].arg.nr <= published'[order[i].arg.by] /\
                 (ppc'[order[i].arg.by] # NoMessage => order[i].arg.nr < published'[order[i].arg.by])
      <3> DEFINE q == order[i].arg.by
      <3>1. q \in Publishers /\ order[i].arg.nr \in Nat BY <1>4, <2>3, Zenon
      <3>2. order[i].arg.nr <= published[q] /\ published[q] \in Nat BY <1>1, <2>3, <3>1
      <3>3. CASE q = p
        <4>1. published'[q] = published[q] + 1 BY <1>1, <2>1, <3>1, <3>3, Zenon
        <4>2. order[i].arg.nr < published'[q] BY <3>1, <3>2, <4>1
        <4> QED BY <3>1, <3>2, <4>1, <4>2
      <3>4. CASE q # p
        <4>1. published'[q] = published[q] /\ ppc'[q] = ppc[q] BY <1>1, <2>1, <3>1, <3>4, Zenon
        <4> QED BY <1>1, <2>3, <4>1, Zenon
      <3> QED BY <3>3, <3>4, Zenon
    <2>4. Old' BY <2>1, <2>3, Zenon
    <2> QED BY <1>1, <2>1, <2>2, <2>4, Zenon
  <1>6. ASSUME NEW p \in Publishers, SendPublish(p) PROVE Own' /\ Old' /\ Unlike(order')
    <2> DEFINE cmd == [op |-> "publish", arg |-> ppc[p]]
               l == Len(order) + 1
    <2>1. /\ ppc[p] # NoMessage /\ ppc[p] \in Message /\ Send(cmd)
          /\ ppc' = [ppc EXCEPT ![p] = NoMessage] /\ published' = published
      BY <1>1, <1>6, Zenon DEF SendPublish
    <2>2. cmd \in Command BY <2>1, Zenon DEF Command
    <2>3. /\ order' \in Seq(Command) /\ Len(order) \in Nat /\ Len(order') = l
          /\ \A i \in 1 .. Len(order) : order'[i] = order[i]
          /\ order'[l] = cmd
      BY <2>1, <2>2, SendAppends, Zenon
    <2>4. cmd.op = "publish" /\ cmd.arg = ppc[p] BY Zenon
    <2> HIDE DEF cmd
    <2>5. \A i \in DOMAIN order' : i = l \/ (i \in DOMAIN order /\ order'[i] = order[i])
      BY <1>1, <2>3
    <2>6. ppc[p].by = p /\ ppc[p].nr = published[p] BY <1>1, <2>1, Zenon
    <2>7. Own' BY <1>1, <2>1, Zenon
    <2>8. ASSUME NEW i \in DOMAIN order, order[i].op = "publish"
          PROVE  /\ order[i].arg # ppc[p]
                 /\ order[i].arg.nr <= published'[order[i].arg.by]
                 /\ ppc'[order[i].arg.by] # NoMessage => order[i].arg.nr < published'[order[i].arg.by]
      <3>1. order[i].arg.by \in Publishers /\ order[i].arg.nr \in Nat BY <1>4, <2>8, Zenon
      <3>2. order[i].arg = ppc[p] => order[i].arg.nr < order[i].arg.nr BY <1>1, <2>1, <2>6, <2>8
      <3>3. order[i].arg # ppc[p] BY <3>1, <3>2
      <3> QED BY <1>1, <2>1, <2>8, <3>1, <3>3, Zenon
    <2>9. published[p] \in Nat BY <1>1
    <2>10. Old'
      <3>1. ASSUME NEW i \in DOMAIN order', order'[i].op = "publish"
            PROVE  /\ order'[i].arg.nr <= published'[order'[i].arg.by]
                   /\ ppc'[order'[i].arg.by] # NoMessage
                          => order'[i].arg.nr < published'[order'[i].arg.by]
        <4>1. CASE i = l
          <5>1. order'[i].arg = ppc[p] BY <2>3, <2>4, <4>1, Zenon
          <5>2. ppc'[p] = NoMessage BY <1>1, <2>1, Zenon
          <5> QED BY <2>1, <2>6, <2>9, <5>1, <5>2
        <4>2. CASE i \in DOMAIN order /\ order'[i] = order[i] BY <2>8, <3>1, <4>2, Zenon
        <4> QED BY <2>5, <4>1, <4>2, Zenon
      <3> QED BY <3>1, Zenon
    <2>11. Unlike(order') BY <1>1, <2>3, <2>4, <2>5, <2>8 DEF Unlike
    <2> QED BY <2>7, <2>10, <2>11, Zenon
  <1>7. CASE Sends /\ ~\E p \in Publishers : SendPublish(p)
    <2>1. UNCHANGED <<ppc, published>>
      BY <1>7, Zenon DEF Sends, SendSubscribe, SendUnsubscribe, SendClose
    <2>2. PICK cmd \in Command : Send(cmd) /\ cmd.op # "publish"
      <3>1. CASE SendClose
        <4>1. [op |-> "close", arg |-> NoMessage] \in Command BY Zenon DEF Command
        <4> QED BY <3>1, <4>1, Zenon DEF SendClose
      <3>2. ASSUME NEW s \in Subscribers, SendSubscribe(s)
            PROVE  [op |-> "subscribe", arg |-> s] \in Command /\ Send([op |-> "subscribe", arg |-> s])
        BY <3>2, Zenon DEF SendSubscribe, Command
      <3>3. ASSUME NEW s \in Subscribers, SendUnsubscribe(s)
            PROVE  [op |-> "unsubscribe", arg |-> s] \in Command /\ Send([op |-> "unsubscribe", arg |-> s])
        BY <3>3, Zenon DEF SendUnsubscribe, Command
      <3> QED BY <1>7, <3>1, <3>2, <3>3, Zenon DEF Sends
    <2>3. /\ order' \in Seq(Command) /\ Len(order) \in Nat /\ Len(order') = Len(order) + 1
          /\ \A i \in 1 .. Len(order) : order'[i] = order[i]
          /\ order'[Len(order) + 1] = cmd
      BY <2>2, SendAppends, Zenon
    <2>4. \A i \in DOMAIN order' : order'[i].op = "publish" => i \in DOMAIN order /\ order'[i] = order[i]
      BY <1>1, <2>2, <2>3
    <2> QED BY <1>1, <2>1, <2>4 DEF Unlike
  <1>8. CASE Takes
    <2>1. UNCHANGED <<order, ppc, published>>
      BY <1>8, Zenon DEF Takes, TakeSubscribe, TakeUnsubscribe, TakePublish, TakeClose, Take
    <2> QED BY <1>3, <2>1, Zenon
  <1>9. CASE Elsewhere /\ ~\E p \in Publishers : CallPublish(p)
    <2>1. UNCHANGED <<order, ppc, published>>
      BY <1>9, Zenon DEF Elsewhere, CallSubscribe, Read, ReadClosed, Leave, Stop,
            CallUnsubscribe, Deliver, Delivered, CallClose, LockClose
    <2> QED BY <1>3, <2>1, Zenon
  <1>10. CASE UNCHANGED bvars
    <2>1. UNCHANGED <<order, ppc, published>> BY <1>10, Zenon DEF bvars
    <2> QED BY <1>3, <2>1, Zenon
  <1> HIDE DEF Own, Old
  <1> QED BY <1>5, <1>6, <1>7, <1>8, <1>9, <1>10, NextIs, Zenon

LEMMA CallStep ==
    ASSUME Sized, Types, ChannelInv, CallInv, [Next]_bvars
    PROVE  CallInv'
  <1> DEFINE In(t, x) == t \in {"new", "subscribing", "refused"} <=> ~x
             States == \A s \in Subscribers :
                 /\ In(spc[s], Asked(order, "subscribe", s, Len(order)))
                 /\ Asked(order, "unsubscribe", s, Len(order)) => spc[s] = "gone"
             Before(cmds) == \A i, j \in DOMAIN cmds :
                 cmds[i].op = "unsubscribe" /\ cmds[j].op = "subscribe" /\ cmds[i].arg = cmds[j].arg
                     => j < i
  <1>1. /\ States /\ Before(order) /\ order \in Seq(Command) /\ Len(order) \in Nat
        /\ spc \in [Subscribers -> {"new", "subscribing", "refused", "reading", "stopped",
                                    "unsubscribing", "gone"}]
    BY DEF CallInv, Types
  <1>2. SUFFICES States' /\ Before(order') BY Zenon DEF CallInv
  <1>3. ASSUME order' = order,
               \A s \in Subscribers :
                 \/ spc'[s] = spc[s]
                 \/ spc[s] = "new" /\ spc'[s] \in {"subscribing", "refused"}
                 \/ spc[s] = "reading" /\ spc'[s] = "stopped"
                 \/ spc[s] = "stopped" /\ spc'[s] \in {"unsubscribing", "gone"}
        PROVE  States' /\ Before(order')
    <2>1. Before(order') BY <1>1, <1>3, Zenon
    <2>2. \A op, s : Asked(order', op, s, Len(order')) <=> Asked(order, op, s, Len(order)) BY <1>3, Zenon
    <2>3. States' BY <1>1, <1>3, <2>2, Zenon
    <2> QED BY <2>1, <2>3, Zenon
  <1>4. CASE Elsewhere
    <2>1. order' = order BY <1>4, ElsewhereKeeps, Zenon
    <2> DEFINE Moved == \A s \in Subscribers :
            \/ spc'[s] = spc[s]
            \/ spc[s] = "new" /\ spc'[s] \in {"subscribing", "refused"}
            \/ spc[s] = "reading" /\ spc'[s] = "stopped"
            \/ spc[s] = "stopped" /\ spc'[s] \in {"unsubscribing", "gone"}
    <2>2. Moved
      <3>1. ASSUME NEW t \in Subscribers, CallSubscribe(t) PROVE Moved
        BY <1>1, <3>1, Zenon DEF CallSubscribe
      <3>2. ASSUME NEW t \in Subscribers, ReadClosed(t) \/ Leave(t) PROVE Moved
        BY <1>1, <3>2, Zenon DEF ReadClosed, Leave, Stop
      <3>3. ASSUME NEW t \in Subscribers, CallUnsubscribe(t) PROVE Moved
        BY <1>1, <3>3, Zenon DEF CallUnsubscribe
      <3>4. ASSUME UNCHANGED spc PROVE Moved BY <3>4, Zenon
      <3> HIDE DEF Moved
      <3> QED BY <1>4, <3>1, <3>2, <3>3, <3>4, Zenon DEF Elsewhere, CallPublish, Read, Deliver,
            Delivered, CallClose, LockClose
    <2> QED BY <1>3, <2>1, <2>2, Zenon
  <1>5. CASE Takes
    <2>1. UNCHANGED <<order, spc>>
      BY <1>5, Zenon DEF Takes, TakeSubscribe, TakeUnsubscribe, TakePublish, TakeClose, Take
    <2> QED BY <1>3, <2>1, Zenon
  <1>6. CASE UNCHANGED bvars
    <2>1. UNCHANGED <<order, spc>> BY <1>6, Zenon DEF bvars
    <2> QED BY <1>3, <2>1, Zenon
  <1>7. CASE Sends
    <2> DEFINE l == Len(order) + 1
    <2> DEFINE By(cmd) ==
            \/ cmd.op \in {"publish", "close"} /\ spc' = spc
            \/ /\ cmd.op = "subscribe" /\ cmd.arg \in Subscribers
               /\ spc[cmd.arg] = "subscribing" /\ spc' = [spc EXCEPT ![cmd.arg] = "reading"]
            \/ /\ cmd.op = "unsubscribe" /\ cmd.arg \in Subscribers
               /\ spc[cmd.arg] = "unsubscribing" /\ spc' = [spc EXCEPT ![cmd.arg] = "gone"]
    <2>1. PICK cmd \in Command : Send(cmd) /\ By(cmd)
      <3> DEFINE Found == \E cmd \in Command : Send(cmd) /\ By(cmd)
      <3>1. ASSUME SendClose PROVE Found
        <4>1. [op |-> "close", arg |-> NoMessage] \in Command BY Zenon DEF Command
        <4> QED BY <3>1, <4>1, Zenon DEF SendClose
      <3>2. ASSUME NEW s \in Subscribers, SendSubscribe(s) PROVE Found
        <4>1. [op |-> "subscribe", arg |-> s] \in Command BY Zenon DEF Command
        <4> QED BY <3>2, <4>1, Zenon DEF SendSubscribe
      <3>3. ASSUME NEW s \in Subscribers, SendUnsubscribe(s) PROVE Found
        <4>1. [op |-> "unsubscribe", arg |-> s] \in Command BY Zenon DEF Command
        <4> QED BY <3>3, <4>1, Zenon DEF SendUnsubscribe
      <3>4. ASSUME NEW p \in Publishers, SendPublish(p) PROVE Found
        <4>1. ppc[p] \in Message BY <3>4, Zenon DEF SendPublish, Types
        <4>2. [op |-> "publish", arg |-> ppc[p]] \in Command BY <4>1, Zenon DEF Command
        <4> QED BY <3>4, <4>2, Zenon DEF SendPublish
      <3>5. Found
        <4> HIDE DEF Found
        <4> QED BY <1>7, <3>1, <3>2, <3>3, <3>4, Zenon DEF Sends
      <3> QED BY <3>5, Zenon
    <2>2. /\ order' \in Seq(Command) /\ Len(order') = l
          /\ \A i \in 1 .. Len(order) : order'[i] = order[i]
          /\ order'[l] = cmd
      BY <2>1, SendAppends, Zenon
    <2>3. ASSUME NEW op, NEW s
          PROVE  Asked(order', op, s, Len(order'))
                     <=> Asked(order, op, s, Len(order)) \/ (cmd.op = op /\ cmd.arg = s)
      <3>1. 1 .. Len(order') = (1 .. Len(order)) \cup {l} BY <1>1, <2>2
      <3> QED BY <1>1, <2>2, <3>1, Zenon DEF Asked
    <2>4. States'
      <3>1. ASSUME NEW s \in Subscribers
            PROVE  /\ In(spc'[s], Asked(order', "subscribe", s, Len(order')))
                   /\ Asked(order', "unsubscribe", s, Len(order')) => spc'[s] = "gone"
        <4>1. /\ Asked(order', "subscribe", s, Len(order'))
                     <=> Asked(order, "subscribe", s, Len(order)) \/ (cmd.op = "subscribe" /\ cmd.arg = s)
              /\ Asked(order', "unsubscribe", s, Len(order'))
                     <=> Asked(order, "unsubscribe", s, Len(order)) \/ (cmd.op = "unsubscribe" /\ cmd.arg = s)
          BY <2>3, Zenon
        <4>2. CASE cmd.op \in {"publish", "close"} BY <1>1, <2>1, <4>1, <4>2, Zenon
        <4>3. CASE cmd.op = "subscribe" BY <1>1, <2>1, <4>1, <4>3, Zenon
        <4>4. CASE cmd.op = "unsubscribe" BY <1>1, <2>1, <4>1, <4>4, Zenon
        <4> QED BY <2>1, <4>2, <4>3, <4>4, Zenon
      <3> QED BY <3>1, Zenon
    <2>5. Before(order')
      <3>1. SUFFICES ASSUME NEW i \in DOMAIN order', NEW j \in DOMAIN order',
                            order'[i].op = "unsubscribe", order'[j].op = "subscribe",
                            order'[i].arg = order'[j].arg
                     PROVE  j < i
        BY Zenon
      <3>2. i \in 1 .. l /\ j \in 1 .. l /\ DOMAIN order = 1 .. Len(order) BY <1>1, <2>2
      <3>3. CASE i # l /\ j # l
        <4>1. i \in DOMAIN order /\ j \in DOMAIN order /\ order'[i] = order[i] /\ order'[j] = order[j]
          BY <1>1, <2>2, <3>2, <3>3
        <4> QED BY <1>1, <3>1, <4>1, Zenon
      <3>4. CASE i = l
        <4>1. j # l BY <2>2, <3>1, <3>4, Zenon
        <4> QED BY <1>1, <3>2, <3>4, <4>1
      <3>5. CASE i # l /\ j = l
        <4>1. /\ i \in 1 .. Len(order) /\ order[i].op = "unsubscribe" /\ order[i].arg = cmd.arg
              /\ cmd.op = "subscribe"
          BY <1>1, <2>2, <3>1, <3>2, <3>5
        <4>2. Asked(order, "unsubscribe", cmd.arg, Len(order)) BY <4>1, Zenon DEF Asked
        <4> QED BY <1>1, <2>1, <4>1, <4>2, Zenon
      <3> QED BY <3>3, <3>4, <3>5, Zenon
    <2> QED BY <2>4, <2>5, Zenon
  <1> HIDE DEF States, Before
  <1> QED BY <1>4, <1>5, <1>6, <1>7, NextIs, Zenon

(***************************************************************************)
(* The maps of the handler                                                 *)
(***************************************************************************)

\* Who has unsubscribed had subscribed.
LEMMA LeftJoined ==
    ASSUME Types, CallInv, NEW n \in 0 .. Len(order)
    PROVE  Left(n) \subseteq Joined(n)
  <1>1. SUFFICES ASSUME NEW s \in Subscribers, Asked(order, "unsubscribe", s, n)
                 PROVE  Asked(order, "subscribe", s, n)
    BY Zenon DEF Left, Joined
  <1>2. Len(order) \in Nat /\ DOMAIN order = 1 .. Len(order) BY DEF Types
  <1>3. PICK i \in 1 .. n : order[i].op = "unsubscribe" /\ order[i].arg = s BY <1>1, Zenon DEF Asked
  <1>4. Asked(order, "unsubscribe", s, Len(order)) BY <1>2, <1>3 DEF Asked
  <1>5. Asked(order, "subscribe", s, Len(order)) BY <1>4, Zenon DEF CallInv
  <1>6. PICK j \in 1 .. Len(order) : order[j].op = "subscribe" /\ order[j].arg = s
    BY <1>5, Zenon DEF Asked
  <1>7. i \in 1 .. Len(order) BY <1>2
  <1>8. j < i BY <1>2, <1>3, <1>6, <1>7, Zenon DEF CallInv
  <1>9. j \in 1 .. n BY <1>2, <1>6, <1>8
  <1> QED BY <1>6, <1>9, Zenon DEF Asked

\* Who subscribes with the next command has not left before.
LEMMA JoinsOnce ==
    ASSUME Types, CallInv, NEW n \in Nat, n + 1 \in 1 .. Len(order),
           order[n + 1].op = "subscribe"
    PROVE  order[n + 1].arg \notin Left(n)
  <1>1. SUFFICES ASSUME Asked(order, "unsubscribe", order[n + 1].arg, n) PROVE FALSE
    BY Zenon DEF Left
  <1>2. Len(order) \in Nat /\ DOMAIN order = 1 .. Len(order) BY DEF Types
  <1>3. PICK i \in 1 .. n : order[i].op = "unsubscribe" /\ order[i].arg = order[n + 1].arg
    BY <1>1, Zenon DEF Asked
  <1>4. i \in DOMAIN order /\ n + 1 \in DOMAIN order BY <1>2
  <1>5. n + 1 < i BY <1>3, <1>4, Zenon DEF CallInv
  <1> QED BY <1>5

\* The handler's maps list a subscriber under the names it asked for.
LEMMA ListenersAre ==
    ASSUME Types, MapInv, NEW n \in Names
    PROVE  Listeners(n) = {s \in subs : wants[s] \cap {WildCard, n} # {}}
  <1>1. ASSUME NEW s \in Subscribers, NEW e \in Names \cup {WildCard}
        PROVE  <<e, s>> \in events <=> s \in subs /\ e \in wants[s]
    BY Zenon DEF MapInv
  <1>2. subs \subseteq Subscribers BY Zenon DEF Types, TypeOK
  <1>3. \A s \in Subscribers : <<WildCard, s>> \in events <=> s \in subs /\ WildCard \in wants[s]
    BY <1>1, Zenon
  <1>4. \A s \in Subscribers : <<n, s>> \in events <=> s \in subs /\ n \in wants[s] BY <1>1, Zenon
  <1> QED BY <1>2, <1>3, <1>4, Zenon DEF Listeners

LEMMA MapStep ==
    ASSUME Sized, Types, ChannelInv, CallInv, MapInv, [Next]_bvars
    PROVE  MapInv'
  <1> DEFINE Ev == {e \in (Names \cup {WildCard}) \X Subscribers : e[2] \in subs /\ e[1] \in wants[e[2]]}
             Cl == IF closing = "closed" THEN Joined(Taken) ELSE Left(Taken)
             Del == IF msg = NoMessage THEN todo = {}
                    ELSE /\ Taken > 0 /\ order[Taken].op = "publish" /\ order[Taken].arg = msg
                         /\ todo \subseteq Listeners(msg.name)
  <1>1. /\ subs = Joined(Taken) \ Left(Taken) /\ events = Ev /\ closed = Cl /\ Del
        /\ Len(order) \in Nat /\ Taken \in 0 .. Len(order)
        /\ wants \in [Subscribers -> SUBSET (Names \cup {WildCard})]
        /\ subs \subseteq Subscribers
    BY DEF MapInv, Types, TypeOK, ChannelInv, Taken
  <1>2. SUFFICES subs' = Joined(Taken)' \ Left(Taken)' /\ events' = Ev' /\ closed' = Cl' /\ Del'
    BY Zenon DEF MapInv
  <1>3. wants' = wants
    BY ElsewhereKeeps, NextIs, Zenon DEF Sends, SendPublish, SendSubscribe, SendUnsubscribe, SendClose,
       Takes, TakeSubscribe, TakeUnsubscribe, TakePublish, TakeClose, Take, bvars
  <1>4. ASSUME Taken' = Taken, \A i \in 1 .. Taken : order'[i] = order[i],
               UNCHANGED <<subs, events, closed>>,
               (closing' = "closed") <=> (closing = "closed"),
               \/ UNCHANGED <<msg, todo>>
               \/ msg' = NoMessage /\ todo' = {}
               \/ msg' = msg /\ msg # NoMessage /\ todo' \subseteq todo
        PROVE  subs' = Joined(Taken)' \ Left(Taken)' /\ events' = Ev' /\ closed' = Cl' /\ Del'
    <2>1. \A op, s : Asked(order', op, s, Taken') <=> Asked(order, op, s, Taken)
      BY <1>1, <1>4, Zenon DEF Asked
    <2>2. Joined(Taken)' = Joined(Taken) /\ Left(Taken)' = Left(Taken) BY <2>1, Zenon DEF Joined, Left
    <2>3. Ev' = Ev BY <1>3, <1>4, Zenon
    <2>4. Cl' = Cl BY <1>4, <2>2, Zenon
    <2>5. Del'
      <3>1. \A n : Listeners(n)' = Listeners(n) BY <1>4, Zenon DEF Listeners
      <3>2. msg # NoMessage => order'[Taken'] = order[Taken] BY <1>1, <1>4
      <3> QED BY <1>1, <1>4, <3>1, <3>2, Zenon
    <2> QED BY <1>1, <1>4, <2>2, <2>3, <2>4, <2>5, Zenon
  <1>5. CASE UNCHANGED bvars
    <2>1. UNCHANGED <<commands, order, subs, events, closed, closing, msg, todo>> BY <1>5, Zenon DEF bvars
    <2>2. Taken' = Taken BY <2>1, Zenon DEF Taken
    <2> QED BY <1>4, <2>1, <2>2, Zenon
  <1>6. CASE Elsewhere
    <2>1. UNCHANGED <<commands, order>> BY <1>6, ElsewhereKeeps, Zenon
    <2>2. UNCHANGED <<subs, events, closed>> /\ ((closing' = "closed") <=> (closing = "closed"))
      BY <1>6, Zenon DEF Elsewhere, CallPublish, CallSubscribe, Read, ReadClosed, Leave, Stop,
            CallUnsubscribe, Deliver, Delivered, CallClose, LockClose, handler
    <2>3. \/ UNCHANGED <<msg, todo>>
          \/ msg' = NoMessage /\ todo' = {}
          \/ msg' = msg /\ msg # NoMessage /\ todo' \subseteq todo
      BY <1>6, Zenon DEF Elsewhere, CallPublish, CallSubscribe, Read, ReadClosed, Leave, Stop,
            CallUnsubscribe, Deliver, Delivered, CallClose, LockClose, handler
    <2>4. Taken' = Taken BY <2>1, Zenon DEF Taken
    <2> QED BY <1>4, <2>1, <2>2, <2>3, <2>4, Zenon
  <1>7. CASE Sends
    <2>1. PICK cmd \in Command : Send(cmd) BY <1>7, SendsCommand, Zenon
    <2>2. Taken' = Taken /\ \A i \in 1 .. Len(order) : order'[i] = order[i] BY <2>1, SendAppends, Zenon
    <2>3. \A i \in 1 .. Taken : order'[i] = order[i] BY <1>1, <2>2
    <2>4. UNCHANGED <<subs, events, closed, msg, todo>>
      BY <1>7, Zenon DEF Sends, SendPublish, SendSubscribe, SendUnsubscribe, SendClose, handler
    <2>5. (closing' = "closed") <=> (closing = "closed") BY <1>7, SendersAreOpen, Zenon
    <2> QED BY <1>4, <2>2, <2>3, <2>4, <2>5, Zenon
  <1>8. CASE Takes
    <2> DEFINE c == Head(commands)
    <2>1. /\ commands # <<>> /\ commands' = Tail(commands) /\ order' = order
          /\ closing # "closed" /\ msg = NoMessage
      BY <1>8, Zenon DEF Takes, TakeSubscribe, TakeUnsubscribe, TakePublish, TakeClose, Take
    <2>2. /\ Taken \in Nat /\ Taken' = Taken + 1 /\ Taken + 1 \in 1 .. Len(order)
          /\ c = order[Taken + 1] /\ c \in Command
      BY <2>1, TakeOne, Zenon
    <2>3. ASSUME NEW op, NEW s
          PROVE  Asked(order', op, s, Taken')
                     <=> Asked(order, op, s, Taken) \/ (c.op = op /\ c.arg = s)
      <3>1. 1 .. Taken' = (1 .. Taken) \cup {Taken + 1} BY <2>2
      <3> QED BY <2>1, <2>2, <3>1, Zenon DEF Asked
    <2>4. /\ Joined(Taken)' = {s \in Subscribers : Asked(order', "subscribe", s, Taken')}
          /\ Left(Taken)' = {s \in Subscribers : Asked(order', "unsubscribe", s, Taken')}
      BY Zenon DEF Joined, Left
    <2>5. todo = {} BY <1>1, <2>1, Zenon
    <2>6. closed = Left(Taken) /\ Left(Taken) \subseteq Joined(Taken) BY <1>1, <2>1, LeftJoined, Zenon
    <2> HIDE DEF c
    <2>7. CASE TakeSubscribe
      <3>1. /\ c.op = "subscribe" /\ msg' = msg /\ todo' = todo /\ closed' = closed
            /\ closing' = closing /\ events' = events \cup (wants[c.arg] \X {c.arg})
            /\ subs' = subs \cup {c.arg}
        BY <2>7, Zenon DEF TakeSubscribe, Take, c
      <3>2. c.arg \in Subscribers BY <2>2, <3>1, CommandArg, Zenon
      <3>3. Joined(Taken)' = Joined(Taken) \cup {c.arg} BY <2>3, <2>4, <3>1, <3>2, Zenon DEF Joined
      <3>4. Left(Taken)' = Left(Taken) BY <2>3, <2>4, <3>1, Zenon DEF Left
      <3>5. c.arg \notin Left(Taken) BY <2>2, <3>1, JoinsOnce, Zenon
      <3>6. subs' = Joined(Taken)' \ Left(Taken)' BY <1>1, <3>1, <3>3, <3>4, <3>5, Zenon
      <3>7. events' = Ev'
        <4>1. wants[c.arg] \subseteq Names \cup {WildCard} BY <1>1, <3>2, Zenon
        <4> QED BY <1>1, <1>3, <3>1, <3>2, <4>1, Zenon
      <3>8. closed' = Cl' BY <2>1, <2>6, <3>1, <3>4, Zenon
      <3> QED BY <2>1, <2>5, <3>1, <3>6, <3>7, <3>8, Zenon
    <2>8. CASE TakeUnsubscribe
      <3>1. /\ c.op = "unsubscribe" /\ msg' = msg /\ todo' = todo /\ closing' = closing
            /\ IF c.arg \in subs
               THEN /\ events' = events \ (wants[c.arg] \X {c.arg})
                    /\ subs' = subs \ {c.arg} /\ closed' = closed \cup {c.arg}
               ELSE UNCHANGED <<events, subs, closed>>
        BY <2>8, Zenon DEF TakeUnsubscribe, Take, c
      <3>2. c.arg \in Subscribers BY <2>2, <3>1, CommandArg, Zenon
      <3>3. Left(Taken)' = Left(Taken) \cup {c.arg} BY <2>3, <2>4, <3>1, <3>2, Zenon DEF Left
      <3>4. Joined(Taken)' = Joined(Taken) BY <2>3, <2>4, <3>1, Zenon DEF Joined
      <3>5. c.arg \in Joined(Taken)
        <4>1. Left(Taken + 1) \subseteq Joined(Taken + 1) BY <1>1, <2>2, LeftJoined
        <4>2. Asked(order, "unsubscribe", c.arg, Taken + 1) BY <2>1, <2>2, <2>3, <3>1, Zenon
        <4>3. Asked(order, "subscribe", c.arg, Taken + 1) BY <3>2, <4>1, <4>2, Zenon DEF Left, Joined
        <4>4. Asked(order, "subscribe", c.arg, Taken) BY <2>1, <2>2, <2>3, <3>1, <4>3, Zenon
        <4> QED BY <3>2, <4>4, Zenon DEF Joined
      <3>6. c.arg \notin subs => c.arg \in Left(Taken) BY <1>1, <3>5, Zenon
      <3>7. subs' = Joined(Taken)' \ Left(Taken)' BY <1>1, <3>1, <3>3, <3>4, <3>6, Zenon
      <3>8. events' = Ev'
        <4>1. subs' = subs \ {c.arg} BY <3>1, Zenon
        <4>2. CASE c.arg \in subs
          <5>1. wants[c.arg] \subseteq Names \cup {WildCard} BY <1>1, <3>2, Zenon
          <5> QED BY <1>1, <1>3, <3>1, <3>2, <4>1, <4>2, <5>1, Zenon
        <4>3. CASE c.arg \notin subs BY <1>1, <1>3, <3>1, <4>3, Zenon
        <4> QED BY <4>2, <4>3, Zenon
      <3>9. closed' = Cl' BY <2>1, <2>6, <3>1, <3>3, <3>6, Zenon
      <3> QED BY <2>1, <2>5, <3>1, <3>7, <3>8, <3>9, Zenon
    <2>9. CASE TakePublish
      <3>1. /\ c.op = "publish" /\ msg' = c.arg /\ todo' = Listeners(c.arg.name)
            /\ UNCHANGED <<subs, events, closed, closing>>
        BY <2>9, Zenon DEF TakePublish, Take, c
      <3>2. c.arg \in Message BY <2>2, <3>1, CommandArg, Zenon
      <3>3. Joined(Taken)' = Joined(Taken) /\ Left(Taken)' = Left(Taken)
        BY <2>3, <2>4, <3>1, Zenon DEF Joined, Left
      <3>4. Ev' = Ev BY <1>3, <3>1, Zenon
      <3>5. msg' # NoMessage BY <3>1, <3>2, NoMessageIsNone, Zenon
      <3>6. Listeners(msg.name)' = Listeners(c.arg.name) BY <3>1, Zenon DEF Listeners
      <3>7. Del' BY <2>1, <2>2, <3>1, <3>5, <3>6
      <3> QED BY <1>1, <2>1, <2>6, <3>1, <3>3, <3>4, <3>7, Zenon
    <2>10. CASE TakeClose
      <3>1. /\ c.op = "close" /\ msg' = msg /\ todo' = todo /\ closed' = closed \cup subs
            /\ closing' = "closed" /\ UNCHANGED <<subs, events>>
        BY <2>10, Zenon DEF TakeClose, Take, c
      <3>2. Joined(Taken)' = Joined(Taken) /\ Left(Taken)' = Left(Taken)
        BY <2>3, <2>4, <3>1, Zenon DEF Joined, Left
      <3>3. Ev' = Ev BY <1>3, <3>1, Zenon
      <3>4. closed' = Cl' BY <1>1, <2>6, <3>1, <3>2, Zenon
      <3> QED BY <1>1, <2>1, <2>5, <3>1, <3>2, <3>3, <3>4, Zenon
    <2> HIDE DEF Ev, Cl, Del
    <2> QED BY <1>8, <2>7, <2>8, <2>9, <2>10, Zenon DEF Takes
  <1> HIDE DEF Ev, Cl, Del
  <1> QED BY <1>5, <1>6, <1>7, <1>8, NextIs, Zenon

(***************************************************************************)
(* What the subscribers are sent                                           *)
(***************************************************************************)

\* A send into a channel adds to the end of what a subscriber gets; a read
\* moves a message and changes nothing of it.
LEMMA GotGrows ==
    ASSUME NEW a \in Seq(Message), NEW b \in Seq(Message), NEW m \in Message
    PROVE  a \o Append(b, m) = Append(a \o b, m) /\ a \o b \in Seq(Message)
  OBVIOUS

LEMMA GotMoves ==
    ASSUME NEW a \in Seq(Message), NEW b \in Seq(Message), b # <<>>
    PROVE  Append(a, Head(b)) \o Tail(b) = a \o b
  OBVIOUS

LEMMA SentStep ==
    ASSUME Sized, IndInv, MessageInv', [Next]_bvars
    PROVE  SentInv'
  <1> USE DEF IndInv
  <1>1. /\ order \in Seq(Command) /\ Len(order) \in Nat /\ DOMAIN order = 1 .. Len(order)
        /\ Taken \in 0 .. Len(order)
        /\ value \in [Subscribers -> Seq(Message)] /\ seen \in [Subscribers -> Seq(Message)]
        /\ wants \in [Subscribers -> SUBSET (Names \cup {WildCard})]
        /\ msg \in Message \cup {NoMessage} /\ todo \subseteq Subscribers
    BY DEF Types, TypeOK, ChannelInv, Taken
  <1>2. wants' = wants
    BY ElsewhereKeeps, NextIs, Zenon DEF Sends, SendPublish, SendSubscribe, SendUnsubscribe, SendClose,
       Takes, TakeSubscribe, TakeUnsubscribe, TakePublish, TakeClose, Take, bvars
  <1>3. \A s \in Subscribers : Exact(Got(s), order, Due(s), SentTo(s)) BY Zenon DEF SentInv
  <1>4. SUFFICES ASSUME NEW s \in Subscribers
                 PROVE  Exact(Got(s)', order', Due(s)', SentTo(s)')
    BY Zenon DEF SentInv
  <1>5. Got(s) \in Seq(Message) BY <1>1 DEF Got
  <1>6. Due(s) \subseteq 1 .. Len(order) /\ \A n \in Due(s) : order[n].op = "publish"
    BY <1>1, Zenon DEF Due, DueIn
  <1>7. todo # {} => Taken > 0 /\ msg # NoMessage BY Zenon DEF MapInv
  <1>8. SentTo(s) \in 0 .. Len(order) BY <1>1, <1>7 DEF SentTo
  <1>9. ASSUME UNCHANGED <<commands, order>>, s \in todo' <=> s \in todo, Got(s)' = Got(s)
        PROVE  Exact(Got(s)', order', Due(s)', SentTo(s)')
    <2>1. Due(s)' = Due(s) BY <1>2, <1>9, Zenon DEF Due
    <2>2. SentTo(s)' = SentTo(s) BY <1>9, Zenon DEF SentTo, Taken
    <2> QED BY <1>3, <1>9, <2>1, <2>2, Zenon
  <1>10. CASE UNCHANGED bvars
    <2>1. UNCHANGED <<commands, order, todo, seen, value>> BY <1>10, Zenon DEF bvars
    <2> QED BY <1>9, <2>1, Zenon DEF Got
  <1>11. CASE Elsewhere
    <2>1. UNCHANGED <<commands, order>> BY <1>11, ElsewhereKeeps, Zenon
    <2>2. ASSUME NEW t \in Subscribers, Read(t) PROVE Exact(Got(s)', order', Due(s)', SentTo(s)')
      <3>1. /\ todo' = todo /\ value[t] # <<>>
            /\ seen' = [seen EXCEPT ![t] = Append(seen[t], Head(value[t]))]
            /\ value' = [value EXCEPT ![t] = Tail(value[t])]
        BY <2>2, Zenon DEF Read, handler
      <3>2. CASE t = s
        <4>1. seen'[s] = Append(seen[s], Head(value[s])) /\ value'[s] = Tail(value[s])
          BY <1>1, <3>1, <3>2, Zenon
        <4>2. Got(s)' = Got(s) BY <1>1, <3>1, <3>2, <4>1, GotMoves, Zenon DEF Got
        <4> QED BY <1>9, <2>1, <3>1, <4>2, Zenon
      <3>3. CASE t # s
        <4>1. Got(s)' = Got(s) BY <1>1, <3>1, <3>3, Zenon DEF Got
        <4> QED BY <1>9, <2>1, <3>1, <4>1, Zenon
      <3> QED BY <3>2, <3>3, Zenon
    <2>3. ASSUME NEW t \in Subscribers, Deliver(t) PROVE Exact(Got(s)', order', Due(s)', SentTo(s)')
      <3>1. /\ msg # NoMessage /\ t \in todo /\ todo' = todo \ {t} /\ seen' = seen
            /\ value' = [value EXCEPT ![t] = Append(value[t], msg)]
        BY <2>3, Zenon DEF Deliver
      <3>2. CASE t # s
        <4>1. Got(s)' = Got(s) BY <1>1, <3>1, <3>2, Zenon DEF Got
        <4> QED BY <1>9, <2>1, <3>1, <3>2, <4>1, Zenon
      <3>3. CASE t = s
        <4>1. msg \in Message /\ Got(s)' = Append(Got(s), msg)
          <5>1. msg \in Message BY <1>1, <3>1, Zenon
          <5>2. seen'[s] = seen[s] /\ value'[s] = Append(value[s], msg) BY <1>1, <3>1, <3>3, Zenon
          <5> QED BY <1>1, <5>1, <5>2, GotGrows DEF Got
        <4>2. /\ Taken > 0 /\ order[Taken].op = "publish" /\ order[Taken].arg = msg
              /\ s \in Listeners(msg.name)
          BY <3>1, <3>3, Zenon DEF MapInv
        <4>3. msg.name \in Names BY <4>1, Zenon DEF Message
        <4>4. s \in subs /\ wants[s] \cap {WildCard, msg.name} # {} BY <4>2, <4>3, ListenersAre, Zenon
        <4>5. Asked(order, "subscribe", s, Taken) /\ ~Asked(order, "unsubscribe", s, Taken)
          BY <4>4, Zenon DEF MapInv, Joined, Left
        <4>6. Taken \in Due(s) BY <1>1, <4>2, <4>4, <4>5 DEF Due, DueIn
        <4>7. SentTo(s) = Taken - 1 /\ SentTo(s)' = Taken BY <2>1, <3>1, <3>3, Zenon DEF SentTo, Taken
        <4>8. Due(s)' = Due(s) BY <1>2, <2>1, Zenon DEF Due
        <4>9. Unlike(order) BY Zenon DEF MessageInv, Unlike
        <4>10. Exact(Got(s), order, Due(s), Taken - 1) BY <1>3, <4>7, Zenon
        <4>11. Due(s) \in SUBSET (DOMAIN order) BY <1>1, <1>6, Zenon
        <4>12. Exact(Append(Got(s), order[Taken].arg), order, Due(s), Taken)
          BY <1>1, <1>5, <1>6, <4>1, <4>2, <4>6, <4>9, <4>10, <4>11, ExactDeliver, Zenon
        <4> QED BY <2>1, <4>1, <4>2, <4>7, <4>8, <4>12, Zenon
      <3> QED BY <3>2, <3>3, Zenon
    <2>4. CASE Delivered
      <3>1. UNCHANGED <<todo, seen, value>> BY <2>4, Zenon DEF Delivered, readers
      <3> QED BY <1>9, <2>1, <3>1, Zenon DEF Got
    <2>5. CASE ~(Delivered \/ \E t \in Subscribers : Read(t) \/ Deliver(t))
      <3>1. UNCHANGED <<todo, seen, value>>
        BY <1>11, <2>5, Zenon DEF Elsewhere, CallPublish, CallSubscribe, ReadClosed, Leave, Stop,
              CallUnsubscribe, CallClose, LockClose, handler, readers
      <3> QED BY <1>9, <2>1, <3>1, Zenon DEF Got
    <2> QED BY <2>2, <2>3, <2>4, <2>5, Zenon
  <1>12. CASE Sends
    <2>1. PICK cmd \in Command : Send(cmd) BY <1>12, SendsCommand, Zenon
    <2>2. /\ order' \in Seq(Command) /\ Len(order') = Len(order) + 1
          /\ \A i \in 1 .. Len(order) : order'[i] = order[i]
          /\ Taken' = Taken
      BY <2>1, SendAppends, Zenon
    <2>3. UNCHANGED <<todo, seen, value>>
      BY <1>12, Zenon DEF Sends, SendPublish, SendSubscribe, SendUnsubscribe, SendClose, handler, readers
    <2>4. Got(s)' = Got(s) /\ SentTo(s)' = SentTo(s) BY <2>2, <2>3, Zenon DEF Got, SentTo
    <2>5. Unlike(order') BY Zenon DEF MessageInv, Unlike
    <2>6. Exact(Got(s), order, DueIn(order, wants[s], s), SentTo(s)) BY <1>3, Zenon DEF Due
    <2>7. Exact(Got(s), order', DueIn(order', wants[s], s), SentTo(s))
      BY <1>1, <1>5, <1>8, <2>2, <2>5, <2>6, ExactSend, Zenon
    <2>8. Due(s)' = DueIn(order', wants[s], s) BY <1>2, Zenon DEF Due
    <2> QED BY <2>4, <2>7, <2>8, Zenon
  <1>13. CASE Takes
    <2>1. /\ commands # <<>> /\ commands' = Tail(commands) /\ order' = order
          /\ msg = NoMessage /\ UNCHANGED <<seen, value>>
      BY <1>13, Zenon DEF Takes, TakeSubscribe, TakeUnsubscribe, TakePublish, TakeClose, Take
    <2>2. /\ Taken \in Nat /\ Taken' = Taken + 1 /\ Taken + 1 \in 1 .. Len(order)
          /\ Head(commands) = order[Taken + 1] /\ Head(commands) \in Command
      BY <2>1, TakeOne, Zenon
    <2>3. Got(s)' = Got(s) /\ Due(s)' = Due(s) BY <1>2, <2>1, Zenon DEF Got, Due
    <2>4. todo = {} BY <2>1, Zenon DEF MapInv
    <2>5. SentTo(s) = Taken /\ SentTo(s)' = IF s \in todo' THEN Taken ELSE Taken + 1
      BY <2>2, <2>4 DEF SentTo
    <2>6. Exact(Got(s), order, Due(s), Taken) BY <1>3, <2>5, Zenon
    <2>7. CASE s \in todo' BY <2>1, <2>3, <2>5, <2>6, <2>7, Zenon
    <2>8. CASE s \notin todo'
      <3>1. Taken + 1 \notin Due(s)
        <4>1. CASE ~TakePublish
          <5>1. Head(commands).op # "publish"
            BY <1>13, <4>1, Zenon DEF Takes, TakeSubscribe, TakeUnsubscribe, TakeClose, Take
          <5> QED BY <1>6, <2>2, <5>1, Zenon
        <4>2. CASE TakePublish
          <5>1. /\ order[Taken + 1].op = "publish" /\ todo' = Listeners(order[Taken + 1].arg.name)
            BY <2>2, <4>2, Zenon DEF TakePublish, Take
          <5>2. order[Taken + 1].arg.name \in Names
            BY <2>2, <5>1, CommandArg, Zenon DEF Message
          <5>3. s \notin subs \/ wants[s] \cap {WildCard, order[Taken + 1].arg.name} = {}
            BY <2>8, <5>1, <5>2, ListenersAre, Zenon
          <5>4. ASSUME NEW op \in {"subscribe", "unsubscribe"}
                PROVE  Asked(order, op, s, Taken + 1) <=> Asked(order, op, s, Taken)
            <6>1. 1 .. (Taken + 1) = (1 .. Taken) \cup {Taken + 1} BY <2>2
            <6> QED BY <5>1, <6>1, Zenon DEF Asked
          <5>5. ASSUME Taken + 1 \in Due(s) PROVE FALSE
            <6>1. /\ wants[s] \cap {WildCard, order[Taken + 1].arg.name} # {}
                  /\ Asked(order, "subscribe", s, Taken + 1)
                  /\ ~Asked(order, "unsubscribe", s, Taken + 1)
              BY <5>5, Zenon DEF Due, DueIn
            <6>2. s \in subs BY <5>4, <6>1, Zenon DEF MapInv, Joined, Left
            <6> QED BY <5>3, <6>1, <6>2, Zenon
          <5> QED BY <5>5, Zenon
        <4> QED BY <4>1, <4>2, Zenon
      <3>2. Due(s) \in SUBSET Nat BY <1>1, <1>6
      <3>3. Exact(Got(s), order, Due(s), Taken + 1) BY <2>2, <2>6, <3>1, <3>2, ExactTake, Zenon
      <3> QED BY <2>1, <2>3, <2>5, <2>8, <3>3, Zenon
    <2> QED BY <2>7, <2>8, Zenon
  <1> QED BY <1>10, <1>11, <1>12, <1>13, NextIs, Zenon

(***************************************************************************)
(* The theorems about the bus                                              *)
(***************************************************************************)

LEMMA BusInit == Sized /\ Init => IndInv
  <1> SUFFICES ASSUME Sized, Init PROVE IndInv BY Zenon
  <1>1. Len(order) = 0 /\ Len(commands) = 0 /\ DOMAIN order = {} /\ Taken = 0
    BY DEF Init, Taken
  <1>2. Types BY DEF Init, Types, TypeOK, Sized
  <1>3. ChannelInv BY <1>1 DEF Init, ChannelInv
  <1>4. MessageInv BY <1>1, Zenon DEF Init, MessageInv
  <1>5. \A op, s : ~Asked(order, op, s, 0) BY DEF Asked
  <1>6. CallInv BY <1>1, <1>5, Zenon DEF Init, CallInv
  <1>7. MapInv BY <1>1, <1>5, Zenon DEF Init, MapInv, Joined, Left
  <1>8. SentInv
    <2>1. \A s \in Subscribers : DOMAIN Got(s) = {} /\ Due(s) = {}
      <3>1. ASSUME NEW s \in Subscribers PROVE Got(s) = <<>> BY DEF Init, Got
      <3>2. DOMAIN <<>> = {} OBVIOUS
      <3> QED BY <1>1, <3>1, <3>2, Zenon DEF Due, DueIn
    <2> QED BY <2>1, Zenon DEF SentInv, Exact
  <1> QED BY <1>2, <1>3, <1>4, <1>6, <1>7, <1>8, Zenon DEF IndInv

\* The inductive invariant of the bus.
THEOREM BusInvariance == Sized => (Spec => []IndInv)
  <1> SUFFICES ASSUME Sized PROVE Spec => []IndInv BY Zenon
  <1>1. Init => IndInv BY BusInit, Zenon
  <1>2. IndInv /\ [Next]_bvars => IndInv'
    BY TypesStep, ChannelStep, MessageStep, CallStep, MapStep, SentStep, Zenon DEF IndInv
  <1> QED BY <1>1, <1>2, PTL DEF Spec

LEMMA InOrder == ASSUME IndInv PROVE DeliveredInOrder
  <1>1. SUFFICES ASSUME NEW s \in Subscribers
        PROVE  /\ \A m, n \in Due(s) : IsSent(s, n) /\ m < n => IsSent(s, m)
               /\ commands = <<>> /\ msg = NoMessage => \A n \in Due(s) : IsSent(s, n)
    BY Zenon DEF IndInv, SentInv, Exact, DeliveredInOrder
  <1>2. \A n \in Due(s) : IsSent(s, n) <=> n <= SentTo(s) BY Zenon DEF IndInv, SentInv, Exact, IsSent
  <1>3. Len(order) \in Nat /\ Len(commands) \in Nat /\ Len(commands) <= Len(order)
    BY DEF IndInv, Types, ChannelInv
  <1>4. Due(s) \subseteq 1 .. Len(order) BY DEF Due, DueIn, IndInv, Types
  <1>5. s \in todo => Taken > 0 /\ msg # NoMessage BY Zenon DEF IndInv, MapInv
  <1>6. SentTo(s) \in Nat BY <1>3, <1>5 DEF SentTo, Taken
  <1>7. \A m, n \in Due(s) : n <= SentTo(s) /\ m < n => m <= SentTo(s) BY <1>3, <1>4, <1>6
  <1>8. commands = <<>> /\ msg = NoMessage => SentTo(s) = Len(order)
    BY <1>3, <1>5 DEF SentTo, Taken
  <1>9. \A n \in Due(s) : n <= Len(order) BY <1>3, <1>4
  <1> QED BY <1>2, <1>7, <1>8, <1>9, Zenon

LEMMA OpenChannels == ASSUME IndInv PROVE SendsToOpenChannels
  <1>1. \A e \in events : e[2] \in subs BY Zenon DEF IndInv, MapInv
  <1>2. closing # "closed" => subs \cap closed = {} BY Zenon DEF IndInv, MapInv
  <1>3. todo \subseteq subs
    <2>1. CASE msg = NoMessage BY <2>1, Zenon DEF IndInv, MapInv
    <2>2. CASE msg # NoMessage
      <3>1. msg.name \in Names BY <2>2, Zenon DEF IndInv, Types, Message
      <3>2. todo \subseteq Listeners(msg.name) BY <2>2, Zenon DEF IndInv, MapInv
      <3> QED BY <3>1, <3>2, ListenersAre, Zenon DEF IndInv
    <2> QED BY <2>1, <2>2, Zenon
  <1> QED BY <1>1, <1>2, <1>3, Zenon DEF SendsToOpenChannels

LEMMA ReachesEveryone == ASSUME IndInv PROVE CloseReachesEveryone
  <1>1. SUFFICES ASSUME closing = "closed", NEW s \in Subscribers, spc[s] \notin {"new", "refused"}
                 PROVE  s \in closed
    BY Zenon DEF CloseReachesEveryone
  <1>2. commands = <<>> /\ spc[s] # "subscribing" BY <1>1, Zenon DEF IndInv, ChannelInv
  <1>3. Taken = Len(order) BY <1>2 DEF Taken, IndInv, Types
  <1>4. Asked(order, "subscribe", s, Len(order)) BY <1>1, <1>2, Zenon DEF IndInv, CallInv
  <1> QED BY <1>1, <1>3, <1>4, Zenon DEF IndInv, MapInv, Joined

\* channel_bus.go, for any number of publishers and subscribers and any size of
\* its channels: every subscriber is sent the messages published between its
\* subscribe and its unsubscribe command, each once and in order; the handler
\* sends only to open channels of known subscriptions; and when Close has
\* returned, every subscription that was handed out is closed.
THEOREM BusDelivery == Sized => (Spec => []BusDelivers)
  <1>1. IndInv => BusDelivers BY InOrder, OpenChannels, ReachesEveryone, Zenon DEF BusDelivers
  <1> QED BY <1>1, BusInvariance, PTL

(***************************************************************************)
(* Requests and responses (CommChannel)                                    *)
(***************************************************************************)
CONSTANT Request
VARIABLES call, table, chan, buffer, server, applied, net, handlers, panicked

INSTANCE FiniteSetTheorems
Comm == INSTANCE CommChannel

LEMMA SameCardinality == \A S : Comm!Cardinality(S) = Cardinality(S)
  BY Zenon DEF Comm!Cardinality, Cardinality

\* A channel with room is empty.
LEMMA RoomIsEmpty ==
    ASSUME NEW S, S = {} \/ \E m : S = {m}, Comm!Cardinality(S) < Comm!Capacity
    PROVE  S = {}
  <1>1. \A m : Comm!Cardinality({m}) = 1 BY FS_Singleton, SameCardinality, Zenon
  <1>2. ASSUME NEW m, S = {m} PROVE FALSE BY <1>1, <1>2 DEF Comm!Capacity
  <1> QED BY <1>2, Zenon

LEMMA CommTypes ==
    ASSUME Comm!IndInv, [Comm!Next]_(Comm!vars) PROVE Comm!Types'
  <1> USE DEF Comm!IndInv
  <1>1. CASE UNCHANGED Comm!vars BY <1>1, Zenon DEF Comm!Types, Comm!vars
  <1>2. ASSUME NEW r \in Request, Comm!Client(r) PROVE Comm!Types'
    <2>1. CASE Comm!SetResponseChan(r) BY <2>1, Zenon DEF Comm!SetResponseChan, Comm!Types
    <2>2. CASE Comm!HostSend(r) BY <2>2, Zenon DEF Comm!HostSend, Comm!Types
    <2>3. CASE Comm!TakeResponse(r) BY <2>3, Zenon DEF Comm!TakeResponse, Comm!Types, Comm!Ended
    <2>4. CASE Comm!ContextDone(r) BY <2>4, Zenon DEF Comm!ContextDone, Comm!Types
    <2>5. CASE Comm!DeleteResponseChan(r) BY <2>5, Zenon DEF Comm!DeleteResponseChan, Comm!Types
    <2>6. CASE Comm!CloseChan(r) BY <2>6, Zenon DEF Comm!CloseChan, Comm!Types, Comm!Ended
    <2> QED BY <1>2, <2>1, <2>2, <2>3, <2>4, <2>5, <2>6, Zenon DEF Comm!Client
  <1>3. ASSUME NEW r \in Request, Comm!Server(r) PROVE Comm!Types'
    <2>1. \A e \in BOOLEAN : [id |-> r, err |-> e] \in Comm!Response BY Zenon DEF Comm!Response
    <2>2. CASE Comm!ProcessRequest(r) BY <2>2, Zenon DEF Comm!ProcessRequest, Comm!Types
    <2>3. CASE Comm!SendReply(r) BY <2>1, <2>3, Zenon DEF Comm!SendReply, Comm!Types
    <2>4. CASE Comm!SendError(r) BY <2>1, <2>4, Zenon DEF Comm!SendError, Comm!Types
    <2> QED BY <1>3, <2>2, <2>3, <2>4, Zenon DEF Comm!Server
  <1>4. ASSUME NEW m \in net, Comm!GetResponseChan(m) PROVE Comm!Types'
    <2>1. [response |-> m, pc |-> "put"] \in Comm!Handler BY Zenon DEF Comm!Handler, Comm!Types
    <2> QED BY <1>4, <2>1, Zenon DEF Comm!GetResponseChan, Comm!Types
  <1>5. ASSUME NEW h \in handlers, Comm!PutResponse(h) \/ Comm!HandlerDeletes(h)
        PROVE  Comm!Types'
    <2>1. h \in Comm!Handler /\ h.response \in Comm!Response /\ [h EXCEPT !.pc = "delete"] \in Comm!Handler
      BY Zenon DEF Comm!Types, Comm!Handler
    <2>2. CASE Comm!HandlerDeletes(h) BY <2>2, Zenon DEF Comm!HandlerDeletes, Comm!Types
    <2>3. CASE Comm!PutResponse(h)
      <3>1. UNCHANGED <<call, table, server, applied, net>> BY <2>3, Zenon DEF Comm!PutResponse
      <3>2. handlers' \in SUBSET Comm!Handler /\ panicked' \in BOOLEAN
        BY <2>1, <2>3, Zenon DEF Comm!PutResponse, Comm!Types
      <3>3. buffer' \in [Request -> SUBSET Comm!Response]
        BY <2>1, <2>3 DEF Comm!PutResponse, Comm!Types
      <3> QED BY <3>1, <3>2, <3>3, Zenon DEF Comm!Types
    <2> QED BY <1>5, <2>2, <2>3, Zenon
  <1> QED BY <1>1, <1>2, <1>3, <1>4, <1>5, Zenon DEF Comm!Next

LEMMA CommChan ==
    ASSUME Comm!IndInv, [Comm!Next]_(Comm!vars) PROVE Comm!ChanInv'
  <1> USE DEF Comm!IndInv
  <1>1. call \in [Request -> {"idle", "send", "wait", "failing", "expiring", "closeFailed",
                              "closeExpired", "ok", "failed", "timeout"}]
    BY Zenon DEF Comm!Types, Comm!Ended
  <1>2. ASSUME UNCHANGED <<call, chan>> PROVE Comm!ChanInv'
    BY <1>2, Zenon DEF Comm!ChanInv
  <1>3. CASE \E r \in Request : Comm!Client(r)
    <2>1. PICK r \in Request : Comm!Client(r) BY <1>3, Zenon
    <2>2. CASE Comm!SetResponseChan(r) BY <1>1, <2>2, Zenon DEF Comm!SetResponseChan, Comm!ChanInv
    <2>3. CASE Comm!HostSend(r) BY <1>1, <2>3, Zenon DEF Comm!HostSend, Comm!ChanInv
    <2>4. CASE Comm!TakeResponse(r) BY <1>1, <2>4, Zenon DEF Comm!TakeResponse, Comm!ChanInv
    <2>5. CASE Comm!ContextDone(r) BY <1>1, <2>5, Zenon DEF Comm!ContextDone, Comm!ChanInv
    <2>6. CASE Comm!DeleteResponseChan(r) BY <1>1, <2>6, Zenon DEF Comm!DeleteResponseChan, Comm!ChanInv
    <2>7. CASE Comm!CloseChan(r) BY <1>1, <2>7, Zenon DEF Comm!CloseChan, Comm!ChanInv
    <2> QED BY <2>1, <2>2, <2>3, <2>4, <2>5, <2>6, <2>7, Zenon DEF Comm!Client
  <1>4. CASE ~\E r \in Request : Comm!Client(r)
    <2>1. UNCHANGED <<call, chan>>
      BY <1>4, Zenon DEF Comm!Next, Comm!Server, Comm!ProcessRequest, Comm!SendReply, Comm!SendError,
         Comm!GetResponseChan, Comm!PutResponse, Comm!HandlerDeletes, Comm!vars
    <2> QED BY <1>2, <2>1, Zenon
  <1> QED BY <1>3, <1>4, Zenon

LEMMA CommRoom ==
    ASSUME Comm!IndInv, [Comm!Next]_(Comm!vars) PROVE Comm!RoomInv'
  <1> USE DEF Comm!IndInv
  <1>1. buffer \in [Request -> SUBSET Comm!Response] BY Zenon DEF Comm!Types
  <1>2. ASSUME NEW h \in handlers, Comm!PutResponse(h) PROVE Comm!RoomInv'
    <2>1. h.response \in Comm!Response /\ h.response.id \in Request
      BY Zenon DEF Comm!Types, Comm!Handler, Comm!Response
    <2>2. CASE UNCHANGED buffer BY <2>2, Zenon DEF Comm!RoomInv
    <2>3. CASE ~UNCHANGED buffer
      <3>1. /\ Comm!Cardinality(buffer[h.response.id]) < Comm!Capacity
            /\ buffer' = [buffer EXCEPT ![h.response.id] = @ \cup {h.response}]
        BY <1>2, <2>3, Zenon DEF Comm!PutResponse
      <3>2. buffer[h.response.id] = {} BY <2>1, <3>1, RoomIsEmpty, Zenon DEF Comm!RoomInv
      <3> QED BY <1>1, <2>1, <3>1, <3>2, Zenon DEF Comm!RoomInv
    <2> QED BY <2>2, <2>3, Zenon
  <1>3. ASSUME NEW r \in Request, Comm!TakeResponse(r) PROVE Comm!RoomInv'
    <2>1. PICK m \in buffer[r] : buffer' = [buffer EXCEPT ![r] = @ \ {m}]
      BY <1>3, Zenon DEF Comm!TakeResponse
    <2>2. buffer[r] \ {m} = {} BY <1>3, <2>1, Zenon DEF Comm!RoomInv
    <2> QED BY <1>1, <2>1, <2>2, Zenon DEF Comm!RoomInv
  <1>4. CASE ~((\E h \in handlers : Comm!PutResponse(h)) \/ \E r \in Request : Comm!TakeResponse(r))
    <2>1. UNCHANGED buffer
      BY <1>4, Zenon DEF Comm!Next, Comm!Client, Comm!SetResponseChan, Comm!HostSend, Comm!ContextDone,
         Comm!DeleteResponseChan, Comm!CloseChan, Comm!Server, Comm!ProcessRequest, Comm!SendReply,
         Comm!SendError, Comm!GetResponseChan, Comm!HandlerDeletes, Comm!vars
    <2> QED BY <2>1, Zenon DEF Comm!RoomInv
  <1> QED BY <1>2, <1>3, <1>4, Zenon

LEMMA CommTable ==
    ASSUME Comm!IndInv, [Comm!Next]_(Comm!vars) PROVE Comm!TableInv'
  <1> USE DEF Comm!IndInv
  <1> DEFINE Kept(r) == /\ call[r] = "idle" => r \notin table /\ buffer[r] = {}
                        /\ call[r] \in {"closeFailed", "closeExpired", "failed", "timeout"} => r \notin table
                        /\ r \in table /\ (buffer[r] # {} \/ call[r] = "ok") => Comm!Deleting(r)
  <1>1. /\ call \in [Request -> {"idle", "send", "wait", "failing", "expiring", "closeFailed",
                                 "closeExpired", "ok", "failed", "timeout"}]
        /\ table \in SUBSET Request /\ buffer \in [Request -> SUBSET Comm!Response]
    BY Zenon DEF Comm!Types, Comm!Ended
  <1>2. \A r \in Request : Kept(r) BY Zenon DEF Comm!TableInv
  <1>3. SUFFICES ASSUME NEW r \in Request PROVE Kept(r)' BY Zenon DEF Comm!TableInv
  <1>4. ASSUME UNCHANGED <<table, buffer, handlers>>, call'[r] = call[r] PROVE Kept(r)'
    BY <1>2, <1>4, Zenon DEF Comm!Deleting
  <1>5. CASE UNCHANGED Comm!vars BY <1>4, <1>5, Zenon DEF Comm!vars
  <1>6. ASSUME NEW q \in Request, Comm!Client(q) PROVE Kept(r)'
    <2>1. CASE Comm!SetResponseChan(q)
      <3>1. /\ call[q] = "idle" /\ table' = table \cup {q} /\ UNCHANGED <<buffer, handlers>>
            /\ call' = [call EXCEPT ![q] = "send"]
        BY <2>1, Zenon DEF Comm!SetResponseChan
      <3>2. CASE q = r BY <1>1, <1>2, <3>1, <3>2, Zenon DEF Comm!Deleting
      <3>3. CASE q # r BY <1>1, <1>2, <3>1, <3>3, Zenon DEF Comm!Deleting
      <3> QED BY <3>2, <3>3, Zenon
    <2>2. CASE Comm!HostSend(q)
      <3>1. UNCHANGED <<table, buffer, handlers>> /\ call[q] = "send"
            /\ call' \in {[call EXCEPT ![q] = "wait"], [call EXCEPT ![q] = "failing"]}
        BY <2>2, Zenon DEF Comm!HostSend
      <3> QED BY <1>1, <1>2, <3>1, Zenon DEF Comm!Deleting
    <2>3. CASE Comm!TakeResponse(q)
      <3>1. PICK m \in buffer[q] : buffer' = [buffer EXCEPT ![q] = @ \ {m}]
        BY <2>3, Zenon DEF Comm!TakeResponse
      <3>2. call[q] = "wait" /\ call' = [call EXCEPT ![q] = "ok"] /\ UNCHANGED <<table, handlers>>
        BY <2>3, Zenon DEF Comm!TakeResponse
      <3>3. CASE q = r BY <1>1, <1>2, <3>1, <3>2, <3>3, Zenon DEF Comm!Deleting
      <3>4. CASE q # r BY <1>1, <1>2, <3>1, <3>2, <3>4, Zenon DEF Comm!Deleting
      <3> QED BY <3>3, <3>4, Zenon
    <2>4. CASE Comm!ContextDone(q)
      <3>1. /\ UNCHANGED <<table, buffer, handlers>> /\ call[q] = "wait"
            /\ call' = [call EXCEPT ![q] = "expiring"]
        BY <2>4, Zenon DEF Comm!ContextDone
      <3> QED BY <1>1, <1>2, <3>1, Zenon DEF Comm!Deleting
    <2>5. CASE Comm!DeleteResponseChan(q)
      <3>1. /\ UNCHANGED <<buffer, handlers>> /\ table' = table \ {q} /\ call[q] \in {"failing", "expiring"}
            /\ call' = [call EXCEPT ![q] = IF @ = "failing" THEN "closeFailed" ELSE "closeExpired"]
        BY <2>5, Zenon DEF Comm!DeleteResponseChan
      <3> QED BY <1>1, <1>2, <3>1, Zenon DEF Comm!Deleting
    <2>6. CASE Comm!CloseChan(q)
      <3>1. /\ UNCHANGED <<table, buffer, handlers>> /\ call[q] \in {"closeFailed", "closeExpired"}
            /\ call' = [call EXCEPT ![q] = IF @ = "closeFailed" THEN "failed" ELSE "timeout"]
        BY <2>6, Zenon DEF Comm!CloseChan
      <3> QED BY <1>1, <1>2, <3>1, Zenon DEF Comm!Deleting
    <2> QED BY <1>6, <2>1, <2>2, <2>3, <2>4, <2>5, <2>6, Zenon DEF Comm!Client
  <1>7. ASSUME NEW q \in Request, Comm!Server(q) PROVE Kept(r)'
    <2>1. UNCHANGED <<call, table, buffer, handlers>>
      BY <1>7, Zenon DEF Comm!Server, Comm!ProcessRequest, Comm!SendReply, Comm!SendError
    <2> QED BY <1>4, <2>1, Zenon
  <1>8. ASSUME NEW m \in net, Comm!GetResponseChan(m) PROVE Kept(r)'
    <2>1. UNCHANGED <<call, table, buffer>> /\ handlers \subseteq handlers'
      BY <1>8, Zenon DEF Comm!GetResponseChan
    <2> QED BY <1>2, <2>1, Zenon DEF Comm!Deleting
  <1>9. ASSUME NEW h \in handlers, Comm!PutResponse(h) PROVE Kept(r)'
    <2>1. UNCHANGED <<call, table>> /\ h.pc = "put" BY <1>9, Zenon DEF Comm!PutResponse
    <2>2. h \in Comm!Handler BY Zenon DEF Comm!Types
    <2>3. ASSUME Comm!Deleting(r) PROVE Comm!Deleting(r)'
      <3>1. PICK g \in handlers : g.response.id = r /\ g.pc = "delete" BY <2>3, Zenon DEF Comm!Deleting
      <3>2. g \in handlers' BY <1>9, <2>1, <3>1, Zenon DEF Comm!PutResponse
      <3> QED BY <3>1, <3>2, Zenon DEF Comm!Deleting
    <2>4. CASE buffer'[r] = buffer[r] BY <1>2, <2>1, <2>3, <2>4, Zenon
    <2>5. CASE buffer'[r] # buffer[r]
      <3>1. /\ buffer' = [buffer EXCEPT ![h.response.id] = @ \cup {h.response}]
            /\ chan[h.response.id] = "open" /\ [h EXCEPT !.pc = "delete"] \in handlers'
        BY <1>9, <2>5, Zenon DEF Comm!PutResponse
      <3>2. h.response.id = r BY <1>1, <2>5, <3>1, Zenon
      <3>3. call[r] # "idle" BY <3>1, <3>2, Zenon DEF Comm!ChanInv
      <3>4. [h EXCEPT !.pc = "delete"].response.id = r /\ [h EXCEPT !.pc = "delete"].pc = "delete"
        BY <2>2, <3>2, Zenon DEF Comm!Handler, Comm!Response
      <3>5. Comm!Deleting(r)' BY <3>1, <3>4, Zenon DEF Comm!Deleting
      <3> QED BY <1>2, <2>1, <3>3, <3>5, Zenon
    <2> QED BY <2>4, <2>5, Zenon
  <1>10. ASSUME NEW h \in handlers, Comm!HandlerDeletes(h) PROVE Kept(r)'
    <2>1. /\ UNCHANGED <<call, buffer>> /\ table' = table \ {h.response.id}
          /\ handlers' = handlers \ {h}
      BY <1>10, Zenon DEF Comm!HandlerDeletes
    <2>2. CASE h.response.id = r BY <1>2, <2>1, <2>2, Zenon
    <2>3. CASE h.response.id # r
      <3>1. Comm!Deleting(r) => Comm!Deleting(r)' BY <2>1, <2>3, Zenon DEF Comm!Deleting
      <3> QED BY <1>2, <2>1, <3>1, Zenon
    <2> QED BY <2>2, <2>3, Zenon
  <1> QED BY <1>5, <1>6, <1>7, <1>8, <1>9, <1>10, Zenon DEF Comm!Next

\* The inductive invariant of requests and responses.
THEOREM CommInvariance == Comm!Spec => []Comm!IndInv
  <1>1. Comm!Init => Comm!IndInv
    <2> SUFFICES ASSUME Comm!Init PROVE Comm!IndInv BY Zenon
    <2>1. Comm!Types BY Zenon DEF Comm!Init, Comm!Types
    <2>2. Comm!ChanInv BY Zenon DEF Comm!Init, Comm!ChanInv
    <2>3. Comm!TableInv BY Zenon DEF Comm!Init, Comm!TableInv
    <2>4. Comm!RoomInv BY Zenon DEF Comm!Init, Comm!RoomInv
    <2> QED BY <2>1, <2>2, <2>3, <2>4, Zenon DEF Comm!IndInv
  <1>2. Comm!IndInv /\ [Comm!Next]_(Comm!vars) => Comm!IndInv'
    BY CommTypes, CommChan, CommTable, CommRoom, Zenon DEF Comm!IndInv
  <1> QED BY <1>1, <1>2, PTL DEF Comm!Spec

\* message.go, whatever is lost or late: the table of response channels lists
\* open channels only, and keeps none of a Send that has returned unless the
\* handler of its response is about to delete it; no channel ever holds more
\* than it has room for.
THEOREM CommTableIsTrue == Comm!Spec => [](Comm!TypeOK /\ Comm!TableIsTrue)
  <1>1. Comm!IndInv => Comm!TypeOK
    <2> SUFFICES ASSUME Comm!IndInv PROVE Comm!TypeOK BY Zenon
    <2>1. Comm!Cardinality({}) = 0 /\ \A m : Comm!Cardinality({m}) = 1
      BY FS_EmptySet, FS_Singleton, SameCardinality, Zenon
    <2>2. ASSUME NEW r \in Request PROVE Comm!Cardinality(buffer[r]) <= 1
      <3>1. buffer[r] = {} \/ \E m : buffer[r] = {m} BY Zenon DEF Comm!IndInv, Comm!RoomInv
      <3>2. Comm!Cardinality(buffer[r]) \in {0, 1} BY <2>1, <3>1, Zenon
      <3> QED BY <3>2
    <2>3. \A r \in Request : buffer[r] \in SUBSET Comm!Response BY Zenon DEF Comm!IndInv, Comm!Types
    <2>4. chan \in [Request -> {"none", "open", "closed"}] BY Zenon DEF Comm!IndInv, Comm!ChanInv
    <2> QED BY <2>2, <2>3, <2>4, Zenon DEF Comm!IndInv, Comm!Types, Comm!TypeOK
  <1>2. Comm!IndInv => Comm!TableIsTrue
    <2> SUFFICES ASSUME Comm!IndInv PROVE Comm!TableIsTrue BY Zenon
    <2>1. SUFFICES ASSUME NEW r \in table
                   PROVE  chan[r] = "open" /\ (call[r] \in Comm!Ended => Comm!Deleting(r))
      BY Zenon DEF Comm!TableIsTrue, Comm!ListedIsOpen, Comm!NoStaleEntry, Comm!Deleting
    <2>2. r \in Request BY Zenon DEF Comm!IndInv, Comm!Types
    <2>3. call[r] \notin {"idle", "closeFailed", "closeExpired", "failed", "timeout"}
      BY <2>2, Zenon DEF Comm!IndInv, Comm!TableInv
    <2>4. chan[r] = "open" BY <2>2, <2>3, Zenon DEF Comm!IndInv, Comm!ChanInv
    <2>5. call[r] = "ok" => Comm!Deleting(r) BY <2>2, Zenon DEF Comm!IndInv, Comm!TableInv
    <2> QED BY <2>3, <2>4, <2>5, Zenon DEF Comm!Ended
  <1> QED BY <1>1, <1>2, CommInvariance, PTL

=============================================================================
