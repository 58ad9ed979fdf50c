----------------------------- MODULE PeerProofs -----------------------------
(***************************************************************************)
(* What a node can rely on when it asks other peers, proved for any number *)
(* of peers, documents and requests at the same time.  Every section is    *)
(* about one module, and shows that the inductive invariant at its end     *)
(* holds and implies what the node has to keep.  The modules share no      *)
(* state: what two of them have a name for is a parameter of each.         *)
(***************************************************************************)
EXTENDS KeyRequest, TLAPS

(***************************************************************************)
(* The keys of encrypted blocks (KeyRequest): any graph of blocks.  The    *)
(* invariant says of every call of loadBlockLinks on the stack of a sync   *)
(* which of its links are done with; what lies below a block is the least  *)
(* set closed under links, and the first lemmas are about that.            *)
(***************************************************************************)

\* The blocks below a block are the smallest closed set it is in.
LEMMA BelowLeast ==
    ASSUME NEW S \in SUBSET Blocks, Closed(S), NEW b \in S
    PROVE  Below(b) \subseteq S
  BY Zenon DEF Below

LEMMA BelowClosed ==
    ASSUME Graph, NEW b \in Blocks
    PROVE  /\ b \in Below(b)
           /\ Below(b) \in SUBSET Blocks
           /\ Closed(Below(b))
  <1>1. b \in Below(b) /\ Below(b) \in SUBSET Blocks BY Zenon DEF Below
  <1>2. \A c \in Blocks : Links(c) \subseteq Blocks
    BY DEF Graph, Links
  <1>3. ASSUME NEW c \in Below(b), NEW d \in Links(c) PROVE d \in Below(b)
    <2>1. d \in Blocks BY <1>1, <1>2, <1>3, Zenon
    <2>2. ASSUME NEW S \in SUBSET Blocks, b \in S, Closed(S) PROVE d \in S
      <3>1. c \in S BY <1>3, <2>2, Zenon DEF Below
      <3> QED BY <1>3, <2>2, <3>1, Zenon DEF Closed
    <2> QED BY <2>1, <2>2, Zenon DEF Below
  <1> QED BY <1>1, <1>3, Zenon DEF Closed

\* A block and all that is below its links is all that is below it.
LEMMA BelowLinks ==
    ASSUME Graph, NEW b \in Blocks, NEW S, b \in S,
           \A c \in Links(b) : Below(c) \subseteq S
    PROVE  Below(b) \subseteq S
  <1> DEFINE T == {c \in Blocks : c = b \/ \E l \in Links(b) : c \in Below(l)}
  <1>1. Links(b) \subseteq Blocks BY DEF Graph, Links
  <1>2. ASSUME NEW c \in T, NEW d \in Links(c) PROVE d \in T
    <2>1. CASE c = b
      <3>1. d \in Blocks /\ d \in Links(b) BY <1>1, <1>2, <2>1, Zenon
      <3>2. d \in Below(d) BY <3>1, BelowClosed
      <3> QED BY <3>1, <3>2, Zenon
    <2>2. CASE \E l \in Links(b) : c \in Below(l)
      <3>1. PICK l \in Links(b) : c \in Below(l) BY <2>2, Zenon
      <3>2. l \in Blocks BY <1>1, Zenon
      <3>3. Closed(Below(l)) /\ Below(l) \in SUBSET Blocks BY <3>2, BelowClosed
      <3>4. d \in Below(l) BY <1>2, <3>1, <3>3, Zenon DEF Closed
      <3> QED BY <3>3, <3>4, Zenon
    <2> QED BY <1>2, <2>1, <2>2, Zenon
  <1>3. Closed(T) BY <1>2, Zenon DEF Closed
  <1>4. T \in SUBSET Blocks /\ b \in T BY Zenon
  <1>5. T \subseteq S BY Zenon
  <1> HIDE DEF T
  <1>6. Below(b) \subseteq T BY <1>3, <1>4, BelowLeast
  <1> QED BY <1>5, <1>6, Zenon

\* A sequence with one element more in front.
LEMMA InFront ==
    ASSUME NEW F, NEW s \in Seq(F), NEW e \in F
    PROVE  /\ <<e>> \o s \in Seq(F) /\ <<e>> \o s # <<>>
           /\ Len(<<e>> \o s) = Len(s) + 1
           /\ (<<e>> \o s)[1] = e
           /\ \A i \in 1 .. Len(s) : (<<e>> \o s)[i + 1] = s[i]
           /\ \A i \in 2 .. Len(s) + 1 : (<<e>> \o s)[i] = s[i - 1]
  <1>1. <<e>> \in Seq(F) /\ Len(<<e>>) = 1 OBVIOUS
  <1>2. <<e>> \o s \in Seq(F) /\ Len(<<e>> \o s) = Len(s) + 1 BY <1>1
  <1>3. <<e>> \o s # <<>> BY <1>2
  <1>4. (<<e>> \o s)[1] = e BY <1>1
  <1>5. \A i \in 2 .. Len(s) + 1 : (<<e>> \o s)[i] = s[i - 1] BY <1>1
  <1> QED BY <1>2, <1>3, <1>4, <1>5

\* A sequence whose first element is replaced.
LEMMA InstallFirst ==
    ASSUME NEW F, NEW s \in Seq(F), s # <<>>, NEW e \in F
    PROVE  /\ Tail(s) \in Seq(F) /\ Len(Tail(s)) = Len(s) - 1
           /\ \A i \in 1 .. Len(s) - 1 : Tail(s)[i] = s[i + 1]
           /\ <<e>> \o Tail(s) \in Seq(F) /\ <<e>> \o Tail(s) # <<>>
           /\ Len(<<e>> \o Tail(s)) = Len(s)
           /\ (<<e>> \o Tail(s))[1] = e
           /\ \A i \in 2 .. Len(s) : (<<e>> \o Tail(s))[i] = s[i]
  <1>1. Len(s) \in Nat /\ Len(s) > 0 OBVIOUS
  <1>2. /\ Tail(s) \in Seq(F) /\ Len(Tail(s)) = Len(s) - 1
        /\ \A i \in 1 .. Len(s) - 1 : Tail(s)[i] = s[i + 1]
    BY <1>1
  <1>3. /\ <<e>> \o Tail(s) \in Seq(F) /\ <<e>> \o Tail(s) # <<>>
        /\ Len(<<e>> \o Tail(s)) = Len(s)
        /\ (<<e>> \o Tail(s))[1] = e
        /\ \A i \in 2 .. Len(s) : (<<e>> \o Tail(s))[i] = Tail(s)[i - 1]
    <2>1. PICK t \in Seq(F) : t = Tail(s) BY <1>2, Zenon
    <2>2. Len(t) = Len(s) - 1 BY <1>2, <2>1
    <2> QED BY <1>1, <2>1, <2>2, InFront
  <1> QED BY <1>1, <1>2, <1>3

\* What the types are of, one by one.
LEMMA KeyTyped ==
    ASSUME Types
    PROVE  /\ stored \subseteq Blocks /\ merged \subseteq stored
           /\ encstore \subseteq UNION {has[p] : p \in Peers}
           /\ has \in [Peers -> SUBSET EncryptionKeys]
           /\ status \in [Requests -> {"new", "syncing", "synced", "failed", "merged"}]
           /\ head \in [Requests -> Composites]
           /\ stack \in [Requests -> Seq(Frame)]
           /\ key \in [Requests -> [Blocks -> {"none", "asked", "ok", "error"}]]
           /\ refused \in [Requests -> SUBSET EncryptionKeys]
           /\ \A r \in Requests : stack[r] = <<>> <=> status[r] # "syncing"
  BY Zenon DEF Types, TypeOK

\* A call of loadBlockLinks: it returns at once, or there is one call more.
LEMMA KeyCall ==
    ASSUME Graph, Types, NEW r \in Requests, NEW b \in Blocks,
           NEW below \in Seq(Frame), Call(r, b, below)
    PROVE  /\ stack' \in [Requests -> Seq(Frame)]
           /\ status' \in [Requests -> {"new", "syncing", "synced", "failed", "merged"}]
           /\ key' \in [Requests -> [Blocks -> {"none", "asked", "ok", "error"}]]
           /\ \A q \in Requests \ {r} : stack'[q] = stack[q] /\ status'[q] = status[q]
           /\ stack'[r] = <<>> <=> status'[r] # "syncing"
           /\ \A q \in Requests, c \in Blocks : key'[q][c] = key[q][c] \/ key'[q][c] = "asked"
           /\ \/ b \in merged /\ stack'[r] = below
              \/ /\ stack'[r] = <<[block |-> b, todo |-> AllLinks[b]]>> \o below
                 /\ Encryption[b] = NoKey \/ key'[r][b] = "asked"
  <1>1. /\ status \in [Requests -> {"new", "syncing", "synced", "failed", "merged"}]
        /\ stack \in [Requests -> Seq(Frame)]
        /\ key \in [Requests -> [Blocks -> {"none", "asked", "ok", "error"}]]
    BY KeyTyped, Zenon
  <1>2. AllLinks[b] \in Seq(Blocks) BY DEF Graph
  <1>3. PICK e \in Frame : e = [block |-> b, todo |-> AllLinks[b]]
    BY <1>2, Zenon DEF Frame
  <1>4. <<e>> \o below \in Seq(Frame) /\ <<e>> \o below # <<>> BY InFront
  <1>5. CASE b \in merged
    <2>1. /\ stack' = [stack EXCEPT ![r] = below] /\ key' = key
          /\ status' = [status EXCEPT ![r] = IF below = <<>> THEN "synced" ELSE "syncing"]
      BY <1>5, Zenon DEF Call
    <2>2. stack'[r] = below /\ status'[r] = IF below = <<>> THEN "synced" ELSE "syncing"
      BY <1>1, <2>1
    <2>3. /\ stack' \in [Requests -> Seq(Frame)]
          /\ status' \in [Requests -> {"new", "syncing", "synced", "failed", "merged"}]
          /\ \A q \in Requests \ {r} : stack'[q] = stack[q] /\ status'[q] = status[q]
      BY <1>1, <2>1
    <2> QED BY <1>1, <1>5, <2>1, <2>2, <2>3
  <1>6. CASE b \notin merged
    <2>1. PICK t \in Seq(Frame) : t = <<e>> \o below /\ t # <<>> BY <1>4, Zenon
    <2>2. /\ stack' = [stack EXCEPT ![r] = t]
          /\ status' = [status EXCEPT ![r] = "syncing"]
          /\ key' = IF Encryption[b] = NoKey THEN key ELSE [key EXCEPT ![r][b] = "asked"]
      BY <1>3, <1>6, <2>1, Zenon DEF Call
    <2>3. /\ stack' \in [Requests -> Seq(Frame)] /\ stack'[r] = t
          /\ status' \in [Requests -> {"new", "syncing", "synced", "failed", "merged"}]
          /\ status'[r] = "syncing"
          /\ \A q \in Requests \ {r} : stack'[q] = stack[q] /\ status'[q] = status[q]
      BY <1>1, <2>2
    <2>4. /\ key' \in [Requests -> [Blocks -> {"none", "asked", "ok", "error"}]]
          /\ Encryption[b] = NoKey \/ key'[r][b] = "asked"
          /\ \A q \in Requests, c \in Blocks : key'[q][c] = key[q][c] \/ key'[q][c] = "asked"
      BY <1>1, <2>2
    <2> QED BY <1>3, <2>1, <2>3, <2>4
  <1> QED BY <1>5, <1>6, Zenon

\* A request that fails.
LEMMA KeyFail ==
    ASSUME Types, NEW r \in Requests, Fail(r)
    PROVE  /\ stack' \in [Requests -> Seq(Frame)] /\ stack'[r] = <<>>
           /\ status' \in [Requests -> {"new", "syncing", "synced", "failed", "merged"}]
           /\ status'[r] = "failed"
           /\ \A q \in Requests \ {r} : stack'[q] = stack[q] /\ status'[q] = status[q]
  <1>1. /\ status \in [Requests -> {"new", "syncing", "synced", "failed", "merged"}]
        /\ stack \in [Requests -> Seq(Frame)]
    BY KeyTyped, Zenon
  <1>2. <<>> \in Seq(Frame) OBVIOUS
  <1>3. /\ stack' = [stack EXCEPT ![r] = <<>>] /\ status' = [status EXCEPT ![r] = "failed"]
    BY Zenon DEF Fail
  <1> QED BY <1>1, <1>2, <1>3

\* The call that LoadLink goes on with, and the link that it loads.
LEMMA KeyLink ==
    ASSUME Types, NEW r \in Requests, LoadLink(r)
    PROVE  \E e \in Frame, b \in Blocks, below \in Seq(Frame) :
              /\ stack[r] # <<>>
              /\ e.block = stack[r][1].block /\ e.todo = Tail(stack[r][1].todo)
              /\ stack[r][1].todo # <<>> /\ b = stack[r][1].todo[1]
              /\ below = <<e>> \o Tail(stack[r])
              /\ \/ /\ stored' = stored \cup {b} /\ Call(r, b, below)
                    /\ UNCHANGED <<has, allows, merged, encstore, head, refused>>
                 \/ Fail(r) /\ stored' \in {stored, stored \cup {b}}
  <1>1. stack[r] \in Seq(Frame) /\ stack[r] # <<>>
    <2>1. stack \in [Requests -> Seq(Frame)] BY KeyTyped, Zenon
    <2>2. stack[r] # <<>> BY KeyTyped DEF LoadLink
    <2> QED BY <2>1, <2>2
  <1>2. stack[r][1] \in Frame BY <1>1
  <1>3. stack[r][1].todo # <<>> BY Zenon DEF LoadLink
  <1>4. PICK c \in Frame : c = stack[r][1] BY <1>2, Zenon
  <1>5. c.todo \in Seq(Blocks) /\ c.todo # <<>> BY <1>3, <1>4 DEF Frame
  <1>6. c.todo[1] \in Blocks /\ Tail(c.todo) \in Seq(Blocks) BY <1>5
  <1>7. PICK b \in Blocks : b = c.todo[1] BY <1>6, Zenon
  <1>8. PICK e \in Frame : e = [c EXCEPT !.todo = Tail(c.todo)] BY <1>6, Zenon DEF Frame
  <1>9. e.block = c.block /\ e.todo = Tail(c.todo) BY <1>8 DEF Frame
  <1>10. <<e>> \o Tail(stack[r]) \in Seq(Frame)
    <2>1. PICK s \in Seq(Frame) : s = stack[r] BY <1>1, Zenon
    <2>2. <<e>> \o Tail(s) \in Seq(Frame) BY <1>1, <2>1, InstallFirst
    <2> QED BY <2>1, <2>2, Zenon
  <1>11. \/ /\ stored' = stored \cup {b} /\ Call(r, b, <<e>> \o Tail(stack[r]))
            /\ UNCHANGED <<has, allows, merged, encstore, head, refused>>
         \/ Fail(r) /\ stored' \in {stored, stored \cup {b}}
    BY <1>4, <1>7, <1>8, Zenon DEF LoadLink, peers
  <1> QED BY <1>1, <1>3, <1>4, <1>7, <1>9, <1>10, <1>11, Zenon

\* The answer to a request for a key.
LEMMA KeyAnswer ==
    ASSUME Types, NEW r \in Requests, NEW b \in Blocks, Answered(r, b)
    PROVE  /\ key' \in [Requests -> [Blocks -> {"none", "asked", "ok", "error"}]]
           /\ refused' \in [Requests -> SUBSET EncryptionKeys]
           /\ encstore' \subseteq UNION {has[p] : p \in Peers}
           /\ encstore \subseteq encstore' /\ \A q \in Requests : refused[q] \subseteq refused'[q]
           /\ \A q \in Requests, c \in Blocks :
                  \/ key'[q][c] = key[q][c]
                  \/ key'[q][c] = "error"
                  \/ key'[q][c] = "ok" /\ Encryption[c] \in encstore' \cup refused'[q]
           /\ UNCHANGED <<has, allows, stored, merged, head, stack, status>>
  <1>1. /\ encstore \subseteq UNION {has[p] : p \in Peers}
        /\ has \in [Peers -> SUBSET EncryptionKeys]
        /\ key \in [Requests -> [Blocks -> {"none", "asked", "ok", "error"}]]
        /\ refused \in [Requests -> SUBSET EncryptionKeys]
    BY KeyTyped, Zenon
  <1>2. PICK a \in {"error"} \cup {Reply(p, Encryption[b]) : p \in Peers} :
            HandleAnswer(r, b, a)
    BY Zenon DEF Answered
  <1>3. UNCHANGED <<has, allows, stored, merged, head, stack, status>>
    BY Zenon DEF Answered, peers
  <1>4. a \in {"error", "key", "empty"} /\ (a # "error" => \E p \in Peers : Encryption[b] \in has[p])
    <2>1. CASE a = "error" BY <2>1
    <2>2. CASE \E p \in Peers : a = Reply(p, Encryption[b]) BY <2>2 DEF Reply
    <2> QED BY <1>2, <2>1, <2>2, Zenon
  <1>5. PICK v \in {"ok", "error"} : v = IF a = "error" THEN "error" ELSE "ok" OBVIOUS
  <1>6. /\ key' = [key EXCEPT ![r][b] = v]
        /\ encstore' = IF a = "key" THEN encstore \cup {Encryption[b]} ELSE encstore
        /\ refused' = IF a = "empty" THEN [refused EXCEPT ![r] = @ \cup {Encryption[b]}] ELSE refused
    BY <1>2, <1>5 DEF HandleAnswer
  <1>7. /\ key' \in [Requests -> [Blocks -> {"none", "asked", "ok", "error"}]]
        /\ \A q \in Requests, c \in Blocks :
               key'[q][c] = key[q][c] \/ (q = r /\ c = b /\ key'[q][c] = v)
    <2>1. PICK g \in [Blocks -> {"none", "asked", "ok", "error"}] : g = [key[r] EXCEPT ![b] = v]
      BY <1>1, Zenon
    <2>2. key' = [key EXCEPT ![r] = g] BY <1>6, <2>1
    <2>3. \A c \in Blocks : g[c] = key[r][c] \/ (c = b /\ g[c] = v) BY <1>1, <2>1
    <2> QED BY <1>1, <2>2, <2>3
  <1>8. /\ encstore' \subseteq UNION {has[p] : p \in Peers} /\ encstore \subseteq encstore'
    BY <1>1, <1>4, <1>6
  <1>9. /\ refused' \in [Requests -> SUBSET EncryptionKeys]
        /\ \A q \in Requests : refused[q] \subseteq refused'[q]
        /\ a = "empty" => Encryption[b] \in refused'[r]
    <2>1. a # "error" => Encryption[b] \in EncryptionKeys BY <1>1, <1>4
    <2> QED BY <1>1, <1>6, <2>1
  <1>10. v = "ok" => Encryption[b] \in encstore' \cup refused'[r] BY <1>4, <1>5, <1>6, <1>9
  <1> QED BY <1>3, <1>5, <1>7, <1>8, <1>9, <1>10

\* Whatever the requests do, they take nothing away.
LEMMA KeyGrow ==
    ASSUME Graph, Types, [Next]_vars
    PROVE  /\ head' = head /\ has' = has
           /\ stored \subseteq stored' /\ merged \subseteq merged' /\ encstore \subseteq encstore'
           /\ \A r \in Requests : refused[r] \subseteq refused'[r]
  <1> DEFINE Goal == /\ head' = head /\ has' = has
                     /\ stored \subseteq stored' /\ merged \subseteq merged' /\ encstore \subseteq encstore'
                     /\ \A r \in Requests : refused[r] \subseteq refused'[r]
  <1>1. CASE UNCHANGED vars BY <1>1, Zenon DEF vars
  <1>2. ASSUME NEW r \in Requests, SyncDAG(r) PROVE Goal
    BY <1>2, Zenon DEF SyncDAG, Fail, peers
  <1>3. ASSUME NEW r \in Requests, LoadLink(r) PROVE Goal
    BY <1>3, KeyLink, Zenon DEF Fail, peers
  <1>4. ASSUME NEW r \in Requests, ReturnLinks(r) PROVE Goal
    BY <1>4, Zenon DEF ReturnLinks, Fail, peers
  <1>5. ASSUME NEW r \in Requests, Merge(r) PROVE Goal
    BY <1>5, Zenon DEF Merge, peers
  <1>6. ASSUME NEW r \in Requests, NEW b \in Blocks, Answered(r, b) PROVE Goal
    BY <1>6, KeyAnswer, Zenon
  <1> HIDE DEF Goal
  <1>7. Goal BY <1>1, <1>2, <1>3, <1>4, <1>5, <1>6, Zenon DEF Next, Going, Goal
  <1> QED BY <1>7, Zenon DEF Goal

LEMMA DoneStays ==
    ASSUME Graph, Types, [Next]_vars, NEW r \in Requests
    PROVE  /\ Good(r) \subseteq Good(r)'
           /\ \A b \in Blocks : Done(r, b) => Done(r, b)'
  <1>1. Good(r) \subseteq Good(r)'
    <2>1. /\ stored \subseteq stored' /\ merged \subseteq merged' /\ encstore \subseteq encstore'
          /\ refused[r] \subseteq refused'[r]
      BY KeyGrow, Zenon
    <2> QED BY <2>1, Zenon DEF Good
  <1>2. \A b \in Blocks : Below(b)' = Below(b)
    BY Zenon DEF Below, Closed, Links
  <1> QED BY <1>1, <1>2, Zenon DEF Done

\* The call i of a request that is its call j after a step: what it waits for
\* is above it still, or is done with.
LEMMA CallMoves ==
    ASSUME Graph, Types, [Next]_vars, NEW r \in Requests,
           NEW i \in DOMAIN stack[r], CallOK(r, i),
           \A b \in Blocks : key'[r][b] = "none" => key[r][b] = "none",
           NEW j, stack'[r][j].block = stack[r][i].block,
           \A b \in Blocks : (\E k \in DOMAIN stack[r][i].todo : stack[r][i].todo[k] = b)
               => \/ \E n \in DOMAIN stack'[r][j].todo : stack'[r][j].todo[n] = b
                  \/ j > 1 /\ stack'[r][j - 1].block = b
                  \/ Done(r, b)',
           \A b \in Blocks : i > 1 /\ stack[r][i - 1].block = b
               => (j > 1 /\ stack'[r][j - 1].block = b) \/ Done(r, b)'
    PROVE  CallOK(r, j)'
  <1>1. PICK c \in Frame : c = stack[r][i]
    <2>1. stack[r] \in Seq(Frame) BY KeyTyped
    <2> QED BY <2>1
  <1>2. c.block \in Blocks BY DEF Frame
  <1>3. Links(c.block) \subseteq Blocks BY <1>2 DEF Graph, Links
  <1>4. stored \subseteq stored' BY KeyGrow, Zenon
  <1>5. Links(c.block)' = Links(c.block) BY Zenon DEF Links
  <1>6. /\ c.block \in stored /\ (Encryption[c.block] = NoKey \/ key[r][c.block] # "none")
        /\ \A b \in Links(c.block) :
               \/ \E k \in DOMAIN c.todo : c.todo[k] = b
               \/ i > 1 /\ stack[r][i - 1].block = b
               \/ Done(r, b)
    BY <1>1, Zenon DEF CallOK
  <1>7. /\ c.block \in stored' /\ (Encryption[c.block] = NoKey \/ key'[r][c.block] # "none")
        /\ \A b \in Links(c.block) :
               \/ \E n \in DOMAIN stack'[r][j].todo : stack'[r][j].todo[n] = b
               \/ j > 1 /\ stack'[r][j - 1].block = b
               \/ Done(r, b)'
    <2>1. ASSUME NEW b \in Links(c.block)
          PROVE  \/ \E n \in DOMAIN stack'[r][j].todo : stack'[r][j].todo[n] = b
                 \/ j > 1 /\ stack'[r][j - 1].block = b
                 \/ Done(r, b)'
      <3>1. b \in Blocks BY <1>3, Zenon
      <3>2. CASE \E k \in DOMAIN c.todo : c.todo[k] = b BY <1>1, <3>1, <3>2, Zenon
      <3>3. CASE i > 1 /\ stack[r][i - 1].block = b BY <3>1, <3>3, Zenon
      <3>4. CASE Done(r, b) BY <3>1, <3>4, DoneStays, Zenon
      <3> QED BY <1>6, <3>2, <3>3, <3>4, Zenon
    <2> QED BY <1>2, <1>4, <1>6, <2>1, Zenon
  <1> QED BY <1>1, <1>5, <1>7, Zenon DEF CallOK

\* A call for a block that has been stored and whose key has been asked for.
LEMMA CallBegins ==
    ASSUME Graph, NEW r \in Requests, NEW b \in Blocks,
           stack'[r][1] = [block |-> b, todo |-> AllLinks[b]],
           b \in stored', Encryption[b] = NoKey \/ key'[r][b] # "none"
    PROVE  CallOK(r, 1)'
  <1>1. stack'[r][1].block = b /\ stack'[r][1].todo = AllLinks[b] OBVIOUS
  <1>2. \A c \in Links(b) : \E k \in DOMAIN AllLinks[b] : AllLinks[b][k] = c
    BY Zenon DEF Links
  <1>3. Links(b)' = Links(b) BY Zenon DEF Links
  <1>4. /\ stack'[r][1].block \in stored'
        /\ Encryption[stack'[r][1].block] = NoKey \/ key'[r][stack'[r][1].block] # "none"
        /\ \A c \in Links(stack'[r][1].block) :
               \E k \in DOMAIN stack'[r][1].todo : stack'[r][1].todo[k] = c
    BY <1>1, <1>2
  <1> QED BY <1>4, Zenon DEF CallOK, Links

\* A request for a key that was made stays made, and ends with the key or with
\* a refusal, or in an error.
LEMMA KeyKeys ==
    ASSUME Graph, IndInv, [Next]_vars
    PROVE  /\ KeyInv'
           /\ \A r \in Requests, b \in Blocks : key'[r][b] = "none" => key[r][b] = "none"
  <1>0. Types /\ KeyInv BY Zenon DEF IndInv
  <1>1. \A r \in Requests, b \in Blocks :
            \/ key'[r][b] = key[r][b] \/ key'[r][b] = "asked" \/ key'[r][b] = "error"
            \/ key'[r][b] = "ok" /\ Encryption[b] \in encstore' \cup refused'[r]
    <2> DEFINE Goal == \A r \in Requests, b \in Blocks :
                           \/ key'[r][b] = key[r][b] \/ key'[r][b] = "asked" \/ key'[r][b] = "error"
                           \/ key'[r][b] = "ok" /\ Encryption[b] \in encstore' \cup refused'[r]
    <2>1. CASE UNCHANGED key BY <2>1, Zenon
    <2>2. ASSUME NEW r \in Requests, NEW b \in Blocks, NEW below \in Seq(Frame),
                 Call(r, b, below)
          PROVE  Goal
      BY <1>0, <2>2, KeyCall, Zenon
    <2>3. ASSUME NEW r \in Requests, SyncDAG(r), key' # key PROVE Goal
      <3>1. head[r] \in Blocks BY <1>0, KeyTyped DEF Graph
      <3>2. PICK b \in Blocks : b = head[r] BY <3>1, Zenon
      <3>3. Call(r, b, <<>>) BY <2>3, <3>2, Zenon DEF SyncDAG, Fail
      <3>4. <<>> \in Seq(Frame) OBVIOUS
      <3> QED BY <2>2, <3>3, <3>4, Zenon
    <2>4. ASSUME NEW r \in Requests, LoadLink(r), key' # key PROVE Goal
      BY <1>0, <2>2, <2>4, KeyLink, Zenon DEF Fail
    <2>5. ASSUME NEW r \in Requests, NEW b \in Blocks, Answered(r, b) PROVE Goal
      BY <1>0, <2>5, KeyAnswer, Zenon
    <2>6. ASSUME NEW r \in Requests, ReturnLinks(r) \/ Merge(r) PROVE UNCHANGED key
      BY <2>6, Zenon DEF ReturnLinks, Merge, Fail
    <2>7. CASE UNCHANGED vars BY <2>1, <2>7, Zenon DEF vars
    <2> HIDE DEF Goal
    <2>8. Goal
      BY <2>1, <2>3, <2>4, <2>5, <2>6, <2>7, Zenon DEF Next, Going, Goal
    <2> QED BY <2>8, Zenon DEF Goal
  <1>2. \A r \in Requests, b \in Blocks : key'[r][b] = "none" => key[r][b] = "none" BY <1>1
  <1>3. encstore \subseteq encstore' /\ \A r \in Requests : refused[r] \subseteq refused'[r]
    BY <1>0, KeyGrow, Zenon
  <1>4. \A r \in Requests, b \in Blocks : key'[r][b] = "ok" => Encryption[b] \in encstore' \cup refused'[r]
    BY <1>0, <1>1, <1>3 DEF KeyInv
  <1> QED BY <1>2, <1>4, Zenon DEF KeyInv

LEMMA KeyMerged ==
    ASSUME Graph, IndInv, [Next]_vars
    PROVE  /\ MergedIsReadable'
           /\ merged' \subseteq stored'
  <1>0. Types /\ MergedIsReadable /\ HeadInv BY Zenon DEF IndInv
  <1>1. /\ encstore \subseteq encstore' /\ stored \subseteq stored' BY <1>0, KeyGrow, Zenon
  <1>2. merged \subseteq Blocks /\ merged \subseteq stored BY <1>0, KeyTyped, Zenon
  <1>3. \A b \in merged : Encryption[b] \in encstore \cup {NoKey} /\ Below(b) \subseteq merged
    BY <1>0, Zenon DEF MergedIsReadable
  <1>4. \A b : Below(b)' = Below(b) BY Zenon DEF Below, Closed, Links
  <1>5. SUFFICES
          /\ \A b \in merged' : Encryption[b] \in encstore' \cup {NoKey} /\ Below(b) \subseteq merged'
          /\ merged' \subseteq stored'
    BY <1>4, Zenon DEF MergedIsReadable
  <1>6. CASE merged' = merged BY <1>1, <1>2, <1>3, <1>6, Zenon
  <1>7. CASE merged' # merged
    <2>1. PICK r \in Requests : Merge(r)
      BY <1>0, <1>7, KeyLink, KeyAnswer, Zenon
      DEF Next, Going, vars, SyncDAG, ReturnLinks, Fail
    <2>2. /\ status[r] = "synced" /\ encstore' = encstore /\ stored' = stored
          /\ \A b \in Below(head[r]) \ merged : Readable(b)
          /\ merged' = merged \cup Below(head[r])
      BY <1>7, <2>1, Zenon DEF Merge
    <2>3. PICK h \in Blocks : h = head[r]
      BY <1>0, KeyTyped DEF Graph
    <2>4. Below(h) \in SUBSET Blocks /\ Closed(Below(h)) BY BelowClosed
    <2>5. \A b \in Below(h) : Below(b) \subseteq Below(h) BY <2>4, BelowLeast
    <2>6. \A b \in merged' : Encryption[b] \in encstore' \cup {NoKey}
      BY <1>3, <2>2, <2>3, Zenon DEF Readable
    <2>7. Below(h) \subseteq stored
      BY <1>0, <1>2, <2>2, <2>3, Zenon DEF HeadInv, Done, Good
    <2> QED BY <1>2, <1>3, <2>2, <2>3, <2>5, <2>6, <2>7, Zenon
  <1> QED BY <1>6, <1>7, Zenon

LEMMA KeyTypes ==
    ASSUME Graph, IndInv, [Next]_vars PROVE Types'
  <1>0. Types BY Zenon DEF IndInv
  <1>1. /\ stored \subseteq Blocks /\ merged \subseteq stored
        /\ encstore \subseteq UNION {has[p] : p \in Peers}
        /\ has \in [Peers -> SUBSET EncryptionKeys]
        /\ status \in [Requests -> {"new", "syncing", "synced", "failed", "merged"}]
        /\ head \in [Requests -> Composites]
        /\ stack \in [Requests -> Seq(Frame)]
        /\ key \in [Requests -> [Blocks -> {"none", "asked", "ok", "error"}]]
        /\ refused \in [Requests -> SUBSET EncryptionKeys]
        /\ \A r \in Requests : stack[r] = <<>> <=> status[r] # "syncing"
    BY <1>0, KeyTyped, Zenon
  <1>2. head' = head /\ has' = has /\ merged' \subseteq stored' BY <1>0, KeyGrow, KeyMerged, Zenon
  <1> DEFINE Goal == /\ stored' \subseteq Blocks
                     /\ encstore' \subseteq UNION {has[p] : p \in Peers}
                     /\ status' \in [Requests -> {"new", "syncing", "synced", "failed", "merged"}]
                     /\ stack' \in [Requests -> Seq(Frame)]
                     /\ key' \in [Requests -> [Blocks -> {"none", "asked", "ok", "error"}]]
                     /\ refused' \in [Requests -> SUBSET EncryptionKeys]
                     /\ \A r \in Requests : stack'[r] = <<>> <=> status'[r] # "syncing"
  <1>3. ASSUME UNCHANGED vars PROVE Goal BY <1>1, <1>3 DEF vars
  <1>4. ASSUME NEW r \in Requests, NEW b \in Blocks, NEW below \in Seq(Frame),
               Call(r, b, below), stored' = stored \cup {b}, UNCHANGED <<encstore, refused>>
        PROVE  Goal
    <2>1. /\ stack' \in [Requests -> Seq(Frame)]
          /\ status' \in [Requests -> {"new", "syncing", "synced", "failed", "merged"}]
          /\ key' \in [Requests -> [Blocks -> {"none", "asked", "ok", "error"}]]
          /\ \A q \in Requests \ {r} : stack'[q] = stack[q] /\ status'[q] = status[q]
          /\ stack'[r] = <<>> <=> status'[r] # "syncing"
      BY <1>0, <1>4, KeyCall, Zenon
    <2>2. stored' \subseteq Blocks BY <1>1, <1>4, Zenon
    <2>3. \A q \in Requests : stack'[q] = <<>> <=> status'[q] # "syncing"
      BY <1>1, <2>1, Zenon
    <2> QED BY <1>1, <1>4, <2>1, <2>2, <2>3, Zenon
  <1>5. ASSUME NEW r \in Requests, NEW b \in Blocks, Fail(r),
               stored' \in {stored, stored \cup {b}}
        PROVE  Goal
    <2>1. UNCHANGED <<encstore, key, refused>> BY <1>5, Zenon DEF Fail
    <2>2. /\ stack' \in [Requests -> Seq(Frame)] /\ stack'[r] = <<>>
          /\ status' \in [Requests -> {"new", "syncing", "synced", "failed", "merged"}]
          /\ status'[r] = "failed"
          /\ \A q \in Requests \ {r} : stack'[q] = stack[q] /\ status'[q] = status[q]
      BY <1>0, <1>5, KeyFail, Zenon
    <2>3. stored' \subseteq Blocks BY <1>1, <1>5, Zenon
    <2>4. \A q \in Requests : stack'[q] = <<>> <=> status'[q] # "syncing" BY <1>1, <2>2, Zenon
    <2> QED BY <1>1, <2>1, <2>2, <2>3, <2>4, Zenon
  <1>6. ASSUME NEW r \in Requests, SyncDAG(r) PROVE Goal
    <2>1. PICK b \in Blocks : b = head[r] BY <1>1 DEF Graph
    <2>2. PICK below \in Seq(Frame) : below = <<>>
      <3>1. <<>> \in Seq(Frame) OBVIOUS
      <3> QED BY <3>1, Zenon
    <2>3. \/ /\ Call(r, b, below) /\ stored' = stored \cup {b} /\ UNCHANGED <<encstore, refused>>
          \/ Fail(r) /\ stored' \in {stored, stored \cup {b}}
      BY <1>6, <2>1, <2>2, Zenon DEF SyncDAG
    <2> HIDE DEF Goal
    <2> QED BY <1>4, <1>5, <2>3, Zenon
  <1>7. ASSUME NEW r \in Requests, LoadLink(r) PROVE Goal
    <2>1. \E b \in Blocks, below \in Seq(Frame) :
            \/ /\ Call(r, b, below) /\ stored' = stored \cup {b} /\ UNCHANGED <<encstore, refused>>
            \/ Fail(r) /\ stored' \in {stored, stored \cup {b}}
      BY <1>0, <1>7, KeyLink, Zenon
    <2> HIDE DEF Goal
    <2> QED BY <1>4, <1>5, <2>1, Zenon
  <1>8. ASSUME NEW r \in Requests, ReturnLinks(r) PROVE Goal
    <2>1. CASE Fail(r) /\ UNCHANGED stored
      <3>1. PICK b \in Blocks : b = head[r] BY <1>1 DEF Graph
      <3> HIDE DEF Goal
      <3> QED BY <1>5, <2>1, <3>1, Zenon
    <2>2. CASE /\ stack' = [stack EXCEPT ![r] = Tail(@)]
               /\ status' = [status EXCEPT ![r] = IF stack'[r] = <<>> THEN "synced" ELSE @]
               /\ UNCHANGED <<stored, encstore, key, refused>>
      <3>1. stack[r] # <<>> /\ status[r] = "syncing" BY <1>1, <1>8 DEF ReturnLinks
      <3>2. PICK t \in Seq(Frame) : t = Tail(stack[r])
        <4>1. stack[r] \in Seq(Frame) BY <1>1, Zenon
        <4>2. Tail(stack[r]) \in Seq(Frame) BY <3>1, <4>1
        <4> QED BY <4>2, Zenon
      <3>3. PICK v \in {"synced", "syncing"} : v = IF t = <<>> THEN "synced" ELSE "syncing" OBVIOUS
      <3>4. stack' = [stack EXCEPT ![r] = t] BY <2>2, <3>2
      <3>5. stack'[r] = t BY <1>1, <3>4
      <3>6. status' = [status EXCEPT ![r] = v] BY <1>1, <2>2, <3>1, <3>3, <3>5, Zenon
      <3>7. /\ stack' \in [Requests -> Seq(Frame)]
            /\ status' \in [Requests -> {"new", "syncing", "synced", "failed", "merged"}]
        BY <1>1, <3>4, <3>6
      <3>8. \A q \in Requests : stack'[q] = <<>> <=> status'[q] # "syncing"
        BY <1>1, <3>3, <3>4, <3>6
      <3> QED BY <1>1, <2>2, <3>7, <3>8
    <2> QED BY <1>8, <2>1, <2>2, Zenon DEF ReturnLinks
  <1>9. ASSUME NEW r \in Requests, Merge(r) PROVE Goal
    <2>1. /\ UNCHANGED <<stored, encstore, stack, key, refused>> /\ status[r] = "synced"
          /\ \E v \in {"merged", "failed"} : status' = [status EXCEPT ![r] = v]
      BY <1>9, Zenon DEF Merge
    <2> QED BY <1>1, <2>1
  <1>10. ASSUME NEW r \in Requests, NEW b \in Blocks, Answered(r, b) PROVE Goal
    <2>1. /\ key' \in [Requests -> [Blocks -> {"none", "asked", "ok", "error"}]]
          /\ refused' \in [Requests -> SUBSET EncryptionKeys]
          /\ encstore' \subseteq UNION {has[p] : p \in Peers}
          /\ UNCHANGED <<stored, stack, status>>
      BY <1>0, <1>10, KeyAnswer, Zenon
    <2> QED BY <1>1, <2>1, Zenon
  <1>11. Goal
    <2> HIDE DEF Goal
    <2>1. CASE Next
      BY <1>6, <1>7, <1>8, <1>9, <1>10, <2>1, Zenon DEF Next, Going
    <2>2. CASE UNCHANGED vars BY <1>3, <2>2, Zenon
    <2> QED BY <2>1, <2>2, Zenon
  <1> QED BY <1>1, <1>2, <1>11, Zenon DEF Types, TypeOK, EncryptionKeys, Frame

\* LoadLink: the calls that are under way wait for one link less, and for the
\* call that is made.
LEMMA KeyLoads ==
    ASSUME Graph, IndInv, [Next]_vars, NEW r \in Requests,
           LoadLink(r)
    PROVE  /\ \A i \in DOMAIN stack'[r] : CallOK(r, i)'
           /\ stack'[r] # <<>> => stack'[r][Len(stack'[r])].block = head[r]
           /\ status'[r] # "synced"
  <1>0. Types /\ CallInv /\ HeadInv /\ MergedIsReadable
    BY Zenon DEF IndInv
  <1>1. PICK e \in Frame, b \in Blocks, below \in Seq(Frame) :
              /\ stack[r] # <<>>
              /\ e.block = stack[r][1].block /\ e.todo = Tail(stack[r][1].todo)
              /\ stack[r][1].todo # <<>> /\ b = stack[r][1].todo[1]
              /\ below = <<e>> \o Tail(stack[r])
              /\ \/ /\ stored' = stored \cup {b} /\ Call(r, b, below)
                    /\ UNCHANGED <<has, allows, merged, encstore, head, refused>>
                 \/ Fail(r) /\ stored' \in {stored, stored \cup {b}}
    BY <1>0, KeyLink, Zenon
  <1>2. CASE Fail(r)
    <2>1. stack'[r] = <<>> /\ status'[r] = "failed" BY <1>0, <1>2, KeyFail, Zenon
    <2> QED BY <2>1
  <1>3. CASE stored' = stored \cup {b} /\ Call(r, b, below) /\ merged' = merged
    <2>1. PICK s \in Seq(Frame) : s = stack[r]
      BY <1>0, KeyTyped, Zenon
    <2>2. /\ Len(below) = Len(s) /\ below[1] = e /\ \A i \in 2 .. Len(s) : below[i] = s[i]
          /\ below # <<>>
      BY <1>1, <2>1, InstallFirst
    <2>3. /\ stack'[r] = <<>> <=> status'[r] # "syncing"
          /\ \/ b \in merged /\ stack'[r] = below
             \/ /\ stack'[r] = <<[block |-> b, todo |-> AllLinks[b]]>> \o below
                /\ Encryption[b] = NoKey \/ key'[r][b] = "asked"
      BY <1>0, <1>3, KeyCall, Zenon
    <2>4. Len(s) \in Nat /\ Len(s) > 0 /\ DOMAIN s = 1 .. Len(s) BY <1>1, <2>1
    <2>5. \A i \in DOMAIN s : below[i].block = s[i].block /\ CallOK(r, i)
      <3>1. below[1].block = s[1].block BY <1>1, <2>1, <2>2, Zenon
      <3>2. \A i \in DOMAIN s : i # 1 => below[i] = s[i] BY <2>2, <2>4
      <3> QED BY <1>0, <2>1, <3>1, <3>2, Zenon DEF CallInv
    <2>6. s[Len(s)].block = head[r] BY <1>0, <1>1, <2>1, Zenon DEF HeadInv
    <2>7. below[Len(s)].block = head[r] BY <2>4, <2>5, <2>6
    <2>8. \A c \in Blocks : key'[r][c] = "none" => key[r][c] = "none" BY KeyKeys, Zenon
    <2>9. PICK T \in Seq(Blocks) : T = s[1].todo /\ T # <<>> /\ T[1] = b /\ e.todo = Tail(T)
      <3>1. s[1] \in Frame BY <2>4
      <3>2. s[1].todo \in Seq(Blocks) BY <3>1 DEF Frame
      <3> QED BY <1>1, <2>1, <3>2, Zenon
    <2>10. \A k \in DOMAIN T : T[k] = b \/ \E n \in DOMAIN e.todo : e.todo[n] = T[k]
      <3>1. ASSUME NEW k \in DOMAIN T, k # 1 PROVE \E n \in DOMAIN e.todo : e.todo[n] = T[k]
        <4>1. k - 1 \in DOMAIN Tail(T) /\ Tail(T)[k - 1] = T[k] BY <2>9, <3>1
        <4> QED BY <2>9, <4>1, Zenon
      <3> QED BY <2>9, <3>1, Zenon
    \* the call stack with d calls more on top
    <2>11. ASSUME NEW d \in {0, 1}, \A i \in DOMAIN s : stack'[r][i + d] = below[i],
                  Done(r, b)' \/ (d = 1 /\ stack'[r][1].block = b),
                  NEW i \in DOMAIN s
           PROVE  CallOK(r, i + d)'
      <3>1. PICK j \in Nat : j = i + d BY <2>4
      <3>2. stack'[r][j].block = stack[r][i].block BY <2>1, <2>5, <2>11, <3>1
      <3>3. i > 1 => j > 1 /\ stack'[r][j - 1].block = stack[r][i - 1].block
        <4>1. ASSUME i > 1 PROVE i - 1 \in DOMAIN s /\ (i - 1) + d = j - 1 /\ j > 1
          BY <2>4, <3>1, <4>1
        <4> QED BY <2>1, <2>5, <2>11, <4>1
      <3>4. ASSUME NEW c \in Blocks, NEW k \in DOMAIN stack[r][i].todo, stack[r][i].todo[k] = c
            PROVE  \/ \E n \in DOMAIN stack'[r][j].todo : stack'[r][j].todo[n] = c
                   \/ j > 1 /\ stack'[r][j - 1].block = c
                   \/ Done(r, c)'
        <4>1. CASE i = 1
          <5>1. stack'[r][j] = e /\ stack[r][i].todo = T
            BY <2>1, <2>2, <2>4, <2>9, <2>11, <3>1, <4>1, Zenon
          <5>2. c = b \/ \E n \in DOMAIN stack'[r][j].todo : stack'[r][j].todo[n] = c
            BY <2>10, <3>4, <5>1, Zenon
          <5>3. d = 1 => j > 1 /\ j - 1 = 1 BY <3>1, <4>1
          <5> QED BY <2>11, <5>2, <5>3
        <4>2. CASE i # 1
          <5>0. i \in 2 .. Len(s) BY <2>4, <4>2
          <5>1. stack'[r][j] = s[i] BY <2>2, <2>11, <3>1, <5>0, Zenon
          <5> QED BY <2>1, <3>4, <5>1, Zenon
        <4> QED BY <4>1, <4>2, Zenon
      <3>5. CallOK(r, i) /\ i \in DOMAIN stack[r] BY <2>1, <2>5, <2>11, Zenon
      <3>6. CallOK(r, j)'
        <4>1. \A c \in Blocks : (\E k \in DOMAIN stack[r][i].todo : stack[r][i].todo[k] = c)
                  => \/ \E n \in DOMAIN stack'[r][j].todo : stack'[r][j].todo[n] = c
                     \/ j > 1 /\ stack'[r][j - 1].block = c
                     \/ Done(r, c)'
          BY <3>4, Zenon
        <4>2. \A c \in Blocks : i > 1 /\ stack[r][i - 1].block = c
                  => (j > 1 /\ stack'[r][j - 1].block = c) \/ Done(r, c)'
          BY <3>3, Zenon
        <4> QED BY <1>0, <2>8, <3>2, <3>5, <4>1, <4>2, CallMoves, Zenon
      <3> QED BY <3>1, <3>6, Zenon
    <2>12. CASE b \in merged /\ stack'[r] = below
      <3>1. Done(r, b)
        BY <1>0, <2>12, Zenon DEF MergedIsReadable, Done, Good
      <3>2. Done(r, b)' BY <1>0, <3>1, DoneStays, Zenon
      <3>3. \A i \in DOMAIN s : i + 0 = i /\ stack'[r][i + 0] = below[i] BY <2>4, <2>12
      <3>4. \A i \in DOMAIN s : CallOK(r, i + 0)' BY <2>11, <3>2, <3>3
      <3>5. DOMAIN stack'[r] = DOMAIN s BY <2>2, <2>4, <2>12
      <3>6. \A i \in DOMAIN stack'[r] : CallOK(r, i)' BY <3>3, <3>4, <3>5
      <3>7. stack'[r] # <<>> /\ Len(stack'[r]) = Len(s) BY <2>2, <2>12
      <3> QED BY <2>3, <2>7, <2>12, <3>6, <3>7
    <2>13. CASE /\ stack'[r] = <<[block |-> b, todo |-> AllLinks[b]]>> \o below
                /\ Encryption[b] = NoKey \/ key'[r][b] = "asked"
      <3>1. PICK f \in Frame : f = [block |-> b, todo |-> AllLinks[b]]
        BY Zenon DEF Graph, Frame
      <3>2. /\ stack'[r] \in Seq(Frame) /\ stack'[r] # <<>>
            /\ Len(stack'[r]) = Len(s) + 1 /\ stack'[r][1] = f
            /\ \A i \in 1 .. Len(s) : stack'[r][i + 1] = below[i]
        BY <2>2, <2>13, <3>1, InFront
      <3>3. CallOK(r, 1)'
        <4>1. b \in stored' /\ (Encryption[b] = NoKey \/ key'[r][b] # "none") BY <1>3, <2>13
        <4> QED BY <3>1, <3>2, <4>1, CallBegins
      <3>4. stack'[r][1].block = b BY <3>1, <3>2
      <3>5. \A i \in DOMAIN s : CallOK(r, i + 1)' BY <2>4, <2>11, <3>2, <3>4
      <3>6. ASSUME NEW i \in DOMAIN stack'[r] PROVE CallOK(r, i)'
        <4>1. CASE i = 1 BY <3>3, <4>1, Zenon
        <4>2. CASE i # 1
          <5>1. i - 1 \in DOMAIN s /\ (i - 1) + 1 = i BY <2>4, <3>2, <3>6, <4>2
          <5>2. PICK m \in DOMAIN s : m + 1 = i BY <5>1, Zenon
          <5> QED BY <3>5, <5>2, Zenon
        <4> QED BY <4>1, <4>2, Zenon
      <3>7. stack'[r][Len(stack'[r])].block = head[r] BY <2>4, <2>7, <3>2
      <3> QED BY <2>3, <3>2, <3>6, <3>7
    <2> QED BY <2>3, <2>12, <2>13, Zenon
  <1> QED BY <1>1, <1>2, <1>3, Zenon

\* ReturnLinks: the block of the call that returns is done with.
LEMMA KeyReturns ==
    ASSUME Graph, IndInv, [Next]_vars, NEW r \in Requests,
           ReturnLinks(r)
    PROVE  /\ \A i \in DOMAIN stack'[r] : CallOK(r, i)'
           /\ stack'[r] # <<>> => stack'[r][Len(stack'[r])].block = head[r]
           /\ status'[r] = "synced" => Done(r, head[r])
  <1>0. Types /\ CallInv /\ HeadInv /\ KeyInv
    BY Zenon DEF IndInv
  <1>1. CASE Fail(r)
    <2>1. stack'[r] = <<>> /\ status'[r] = "failed" BY <1>0, <1>1, KeyFail, Zenon
    <2> QED BY <2>1
  <1>2. CASE /\ key[r][stack[r][1].block] \in {"none", "ok"}
             /\ stack' = [stack EXCEPT ![r] = Tail(@)]
             /\ status' = [status EXCEPT ![r] = IF stack'[r] = <<>> THEN "synced" ELSE @]
    <2>1. /\ stack \in [Requests -> Seq(Frame)] /\ stack[r] # <<>>
          /\ status[r] = "syncing" /\ stack[r][1].todo = <<>>
      BY <1>0, KeyTyped, Zenon DEF ReturnLinks
    <2>2. PICK s \in Seq(Frame) : s = stack[r] BY <2>1, Zenon
    <2>3. Len(s) \in Nat /\ Len(s) > 0 /\ DOMAIN s = 1 .. Len(s) /\ s # <<>> BY <2>1, <2>2
    <2>4. /\ stack'[r] = Tail(s) /\ Tail(s) \in Seq(Frame) /\ Len(Tail(s)) = Len(s) - 1
          /\ \A i \in 1 .. Len(s) - 1 : Tail(s)[i] = s[i + 1]
      <3>1. stack'[r] = Tail(s) BY <1>2, <2>1, <2>2
      <3> QED BY <2>3, <3>1
    <2>5. \A i \in DOMAIN s : CallOK(r, i) BY <1>0, <2>2, Zenon DEF CallInv
    <2>6. PICK b \in Blocks : b = s[1].block
      <3>1. s[1] \in Frame BY <2>3
      <3> QED BY <3>1 DEF Frame
    <2>7. Done(r, b)
      <3>1. CallOK(r, 1) BY <2>3, <2>5
      <3>2. /\ b \in stored /\ (Encryption[b] = NoKey \/ key[r][b] # "none")
            /\ \A c \in Links(b) :
                   \/ \E k \in DOMAIN s[1].todo : s[1].todo[k] = c
                   \/ 1 > 1 /\ stack[r][1 - 1].block = c
                   \/ Done(r, c)
        BY <2>2, <2>6, <3>1, Zenon DEF CallOK
      <3>3. s[1].todo = <<>> BY <2>1, <2>2, Zenon
      <3>4. \A c \in Links(b) : Done(r, c) BY <3>2, <3>3
      <3>5. Encryption[b] = NoKey \/ key[r][b] = "ok" BY <1>2, <2>2, <2>6, <3>2
      <3>6. b \in Good(r)
        BY <1>0, <3>2, <3>5, Zenon DEF KeyInv, Good
      <3>7. \A c \in Links(b) : Below(c) \subseteq Good(r)
        BY <3>4, Zenon DEF Done
      <3> QED BY <3>6, <3>7, BelowLinks DEF Done
    <2>8. Done(r, b)' BY <1>0, <2>7, DoneStays, Zenon
    <2>9. \A c \in Blocks : key'[r][c] = "none" => key[r][c] = "none" BY KeyKeys, Zenon
    <2>10. ASSUME NEW j \in DOMAIN stack'[r] PROVE CallOK(r, j)'
      <3>1. j \in 1 .. Len(s) - 1 /\ j \in Nat BY <2>3, <2>4, <2>10
      <3>2. PICK i \in DOMAIN s : i = j + 1 BY <2>3, <3>1
      <3>3. stack'[r][j] = stack[r][i] BY <2>2, <2>4, <3>1, <3>2, Zenon
      <3>4. ASSUME NEW c \in Blocks, i > 1, stack[r][i - 1].block = c
            PROVE  (j > 1 /\ stack'[r][j - 1].block = c) \/ Done(r, c)'
        <4>1. CASE j = 1
          <5>1. i - 1 = 1 BY <3>2, <4>1
          <5>2. c = b BY <2>2, <2>6, <3>4, <5>1
          <5> QED BY <2>8, <5>2, Zenon
        <4>2. CASE j # 1
          <5>1. j - 1 \in 1 .. Len(s) - 1 /\ (j - 1) + 1 = i - 1 /\ j > 1
            BY <2>3, <3>1, <3>2, <4>2
          <5>2. stack'[r][j - 1] = s[i - 1] BY <2>4, <5>1
          <5> QED BY <2>2, <3>4, <5>1, <5>2, Zenon
        <4> QED BY <4>1, <4>2, Zenon
      <3>5. \A c \in Blocks : i > 1 /\ stack[r][i - 1].block = c
                => (j > 1 /\ stack'[r][j - 1].block = c) \/ Done(r, c)'
        BY <3>4, Zenon
      <3>6. \A c \in Blocks : (\E k \in DOMAIN stack[r][i].todo : stack[r][i].todo[k] = c)
                => \/ \E n \in DOMAIN stack'[r][j].todo : stack'[r][j].todo[n] = c
                   \/ j > 1 /\ stack'[r][j - 1].block = c
                   \/ Done(r, c)'
        BY <3>3, Zenon
      <3>7. CallOK(r, i) /\ i \in DOMAIN stack[r] /\ stack'[r][j].block = stack[r][i].block
        BY <2>2, <2>5, <3>3, Zenon
      <3> QED BY <1>0, <2>9, <3>5, <3>6, <3>7, CallMoves
    <2>11. s[Len(s)].block = head[r] BY <1>0, <2>1, <2>2, Zenon DEF HeadInv
    <2>12. stack'[r] # <<>> => stack'[r][Len(stack'[r])].block = head[r]
      <3>1. ASSUME stack'[r] # <<>> PROVE stack'[r][Len(stack'[r])] = s[Len(s)]
        BY <2>3, <2>4, <3>1
      <3> QED BY <2>11, <3>1
    <2>13. status'[r] = "synced" => Done(r, head[r])
      <3>1. ASSUME status'[r] = "synced" PROVE stack'[r] = <<>>
        <4>1. status \in [Requests -> {"new", "syncing", "synced", "failed", "merged"}]
          BY <1>0, KeyTyped, Zenon
        <4> QED BY <1>2, <2>1, <3>1, <4>1
      <3>2. stack'[r] = <<>> => Len(s) = 1 BY <2>3, <2>4
      <3> QED BY <2>6, <2>7, <2>11, <3>1, <3>2
    <2> QED BY <2>10, <2>12, <2>13, Zenon
  <1> QED BY <1>1, <1>2, Zenon DEF ReturnLinks

\* SyncDAG: the first call is for the head, unless the head is merged.
LEMMA KeyBegins ==
    ASSUME Graph, IndInv, [Next]_vars, NEW r \in Requests,
           SyncDAG(r)
    PROVE  /\ \A i \in DOMAIN stack'[r] : CallOK(r, i)'
           /\ stack'[r] # <<>> => stack'[r][Len(stack'[r])].block = head[r]
           /\ status'[r] = "synced" => Done(r, head[r])
  <1>0. Types /\ MergedIsReadable BY Zenon DEF IndInv
  <1>1. CASE Fail(r)
    <2>1. stack'[r] = <<>> /\ status'[r] = "failed" BY <1>0, <1>1, KeyFail, Zenon
    <2> QED BY <2>1
  <1>2. CASE stored' = stored \cup {head[r]} /\ Call(r, head[r], <<>>)
    <2>1. PICK b \in Blocks : b = head[r] BY <1>0, KeyTyped DEF Graph
    <2>2. PICK below \in Seq(Frame) : below = <<>>
      <3>1. <<>> \in Seq(Frame) OBVIOUS
      <3> QED BY <3>1, Zenon
    <2>3. Call(r, b, below) BY <1>2, <2>1, <2>2, Zenon
    <2>4. /\ stack'[r] = <<>> <=> status'[r] # "syncing"
          /\ \/ b \in merged /\ stack'[r] = below
             \/ /\ stack'[r] = <<[block |-> b, todo |-> AllLinks[b]]>> \o below
                /\ Encryption[b] = NoKey \/ key'[r][b] = "asked"
      BY <1>0, <2>3, KeyCall, Zenon
    <2>5. CASE b \in merged /\ stack'[r] = below
      <3>1. Done(r, b)
        BY <1>0, <2>5, Zenon DEF MergedIsReadable, Done, Good
      <3> QED BY <2>1, <2>2, <2>5, <3>1
    <2>6. CASE /\ stack'[r] = <<[block |-> b, todo |-> AllLinks[b]]>> \o below
               /\ Encryption[b] = NoKey \/ key'[r][b] = "asked"
      <3>1. PICK f \in Frame : f = [block |-> b, todo |-> AllLinks[b]]
        BY Zenon DEF Graph, Frame
      <3>2. /\ stack'[r] \in Seq(Frame) /\ stack'[r] # <<>>
            /\ Len(stack'[r]) = Len(below) + 1 /\ stack'[r][1] = f
        BY <2>6, <3>1, InFront
      <3>3. Len(stack'[r]) = 1 /\ \A i \in DOMAIN stack'[r] : i = 1 BY <2>2, <3>2
      <3>4. b \in stored' /\ (Encryption[b] = NoKey \/ key'[r][b] # "none") BY <1>2, <2>1, <2>6
      <3>5. CallOK(r, 1)' BY <3>1, <3>2, <3>4, CallBegins
      <3>6. stack'[r][1].block = b BY <3>1, <3>2
      <3>7. status'[r] # "synced" BY <2>4, <3>2
      <3>8. \A i \in DOMAIN stack'[r] : CallOK(r, i)' BY <3>3, <3>5, Zenon
      <3> QED BY <2>1, <3>3, <3>6, <3>7, <3>8
    <2> QED BY <2>4, <2>5, <2>6, Zenon
  <1> QED BY <1>1, <1>2, Zenon DEF SyncDAG

LEMMA KeyCalls ==
    ASSUME Graph, IndInv, [Next]_vars
    PROVE  CallInv' /\ HeadInv'
  <1>0. Types /\ CallInv /\ HeadInv BY Zenon DEF IndInv
  <1>1. head' = head /\ head \in [Requests -> Composites] BY <1>0, KeyGrow, KeyTyped, Zenon
  <1>2. \A q \in Requests : Done(q, head[q]) => Done(q, head[q])'
    <2>1. \A q \in Requests : head[q] \in Blocks BY <1>1 DEF Graph
    <2> QED BY <1>0, <1>1, <2>1, DoneStays
  <1> DEFINE Ok(q) == /\ \A i \in DOMAIN stack'[q] : CallOK(q, i)'
                      /\ stack'[q] # <<>> => stack'[q][Len(stack'[q])].block = head[q]
                      /\ status'[q] = "synced" => Done(q, head[q])
  <1>3. ASSUME NEW q \in Requests, stack'[q] = stack[q], status'[q] = "synced" => status[q] = "synced"
        PROVE  Ok(q)
    <2>1. \A b \in Blocks : key'[q][b] = "none" => key[q][b] = "none" BY KeyKeys, Zenon
    <2>2. ASSUME NEW i \in DOMAIN stack[q] PROVE CallOK(q, i)'
      <3>1. CallOK(q, i) BY <1>0, <2>2, Zenon DEF CallInv
      <3>2. \A c \in Blocks : (\E k \in DOMAIN stack[q][i].todo : stack[q][i].todo[k] = c)
                => \/ \E n \in DOMAIN stack'[q][i].todo : stack'[q][i].todo[n] = c
                   \/ i > 1 /\ stack'[q][i - 1].block = c
                   \/ Done(q, c)'
        BY <1>3, Zenon
      <3>3. \A c \in Blocks : i > 1 /\ stack[q][i - 1].block = c
                => (i > 1 /\ stack'[q][i - 1].block = c) \/ Done(q, c)'
        BY <1>3, Zenon
      <3>4. stack'[q][i].block = stack[q][i].block BY <1>3, Zenon
      <3> QED BY <1>0, <2>1, <3>1, <3>2, <3>3, <3>4, CallMoves
    <2> QED BY <1>0, <1>3, <2>2, Zenon DEF HeadInv
  <1>4. ASSUME NEW r \in Requests, SyncDAG(r) PROVE Ok(r) BY <1>4, KeyBegins, Zenon
  <1>5. ASSUME NEW r \in Requests, LoadLink(r) PROVE Ok(r) BY <1>5, KeyLoads, Zenon
  <1>6. ASSUME NEW r \in Requests, ReturnLinks(r) PROVE Ok(r) BY <1>6, KeyReturns, Zenon
  <1>7. ASSUME NEW r \in Requests, Merge(r), NEW q \in Requests
        PROVE  stack'[q] = stack[q] /\ (status'[q] = "synced" => status[q] = "synced")
    <2>1. /\ UNCHANGED stack
          /\ \E v \in {"merged", "failed"} : status' = [status EXCEPT ![r] = v]
      BY <1>7, Zenon DEF Merge
    <2>2. status \in [Requests -> {"new", "syncing", "synced", "failed", "merged"}]
      BY <1>0, KeyTyped, Zenon
    <2> QED BY <2>1, <2>2
  <1>8. ASSUME NEW r \in Requests, SyncDAG(r) \/ LoadLink(r) \/ ReturnLinks(r),
               NEW q \in Requests \ {r}
        PROVE  stack'[q] = stack[q] /\ status'[q] = status[q]
    <2>1. CASE Fail(r) BY <1>0, <1>8, <2>1, KeyFail, Zenon
    <2>2. ASSUME NEW b \in Blocks, NEW below \in Seq(Frame), Call(r, b, below)
          PROVE  stack'[q] = stack[q] /\ status'[q] = status[q]
      BY <1>0, <1>8, <2>2, KeyCall, Zenon
    <2>3. CASE LoadLink(r) BY <1>0, <2>1, <2>2, <2>3, KeyLink, Zenon
    <2>4. CASE SyncDAG(r)
      <3>1. PICK b \in Blocks : b = head[r] BY <1>1 DEF Graph
      <3>2. PICK below \in Seq(Frame) : below = <<>>
        <4>1. <<>> \in Seq(Frame) OBVIOUS
        <4> QED BY <4>1, Zenon
      <3> QED BY <2>1, <2>2, <2>4, <3>1, <3>2, Zenon DEF SyncDAG
    <2>5. CASE ReturnLinks(r) /\ ~Fail(r)
      <3>1. /\ stack' = [stack EXCEPT ![r] = Tail(@)]
            /\ status' = [status EXCEPT ![r] = IF stack'[r] = <<>> THEN "synced" ELSE @]
        BY <2>5, Zenon DEF ReturnLinks
      <3>2. /\ stack \in [Requests -> Seq(Frame)]
            /\ status \in [Requests -> {"new", "syncing", "synced", "failed", "merged"}]
        BY <1>0, KeyTyped, Zenon
      <3> QED BY <1>8, <3>1, <3>2
    <2> QED BY <1>8, <2>1, <2>3, <2>4, <2>5, Zenon
  <1>9. ASSUME NEW r \in Requests, NEW b \in Blocks, Answered(r, b)
        PROVE  UNCHANGED <<stack, status>>
    BY <1>9, Zenon DEF Answered
  <1>10. \A q \in Requests : Ok(q)
    <2> HIDE DEF Ok
    <2>1. SUFFICES ASSUME NEW q \in Requests PROVE Ok(q) BY Zenon
    <2>2. CASE UNCHANGED vars BY <1>3, <2>2, Zenon DEF vars
    <2>3. ASSUME NEW r \in Requests, SyncDAG(r) \/ LoadLink(r) \/ ReturnLinks(r)
          PROVE  Ok(q)
      BY <1>3, <1>4, <1>5, <1>6, <1>8, <2>3, Zenon
    <2>4. ASSUME NEW r \in Requests, Merge(r) PROVE Ok(q) BY <1>3, <1>7, <2>4, Zenon
    <2>5. ASSUME NEW r \in Requests, NEW b \in Blocks, Answered(r, b) PROVE Ok(q)
      BY <1>3, <1>9, <2>5, Zenon
    <2> QED BY <2>2, <2>3, <2>4, <2>5, Zenon DEF Next, Going
  <1>11. CallInv' BY <1>10, Zenon DEF CallInv
  <1>12. \A q \in Requests :
            /\ stack'[q] # <<>> => stack'[q][Len(stack'[q])].block = head'[q]
            /\ status'[q] = "synced" => Done(q, head[q])'
    BY <1>1, <1>2, <1>10, Zenon
  <1> QED BY <1>11, <1>12, Zenon DEF HeadInv

\* When a sync has succeeded, the merge will find the key of every block it has
\* to apply, or this node was refused it; and a block that is merged could be
\* read, with all that is below it: for any graph of blocks, any number of
\* peers and of syncs at the same time.
THEOREM KeysCome ==
    Graph =>
        (Spec => [](TypeOK /\ KeysBeforeMerge))
  <1> SUFFICES ASSUME Graph
               PROVE  Spec =>
                          [](TypeOK /\ KeysBeforeMerge)
    OBVIOUS
  <1>1. Init => IndInv
    <2> SUFFICES ASSUME Init PROVE IndInv OBVIOUS
    <2>1. <<>> \in Seq(Frame) OBVIOUS
    <2>2. Types BY <2>1 DEF Init, Types, TypeOK
    <2>3. MergedIsReadable BY DEF Init, MergedIsReadable
    <2>4. KeyInv BY DEF Init, KeyInv
    <2>5. CallInv BY DEF Init, CallInv
    <2>6. HeadInv BY Zenon DEF Init, HeadInv
    <2> QED BY <2>2, <2>3, <2>4, <2>5, <2>6, Zenon DEF IndInv
  <1>2. IndInv /\ [Next]_vars => IndInv'
    BY KeyTypes, KeyMerged, KeyKeys, KeyCalls, Zenon DEF IndInv
  <1>3. IndInv => TypeOK /\ KeysBeforeMerge
    BY Zenon DEF IndInv, Types, HeadInv, Done, Good, SyncedHasKeys, KeysBeforeMerge
  <1> QED BY <1>1, <1>2, <1>3, PTL DEF Spec


(***************************************************************************)
(* Asking the network for documents (DocSync)                              *)
(***************************************************************************)
CONSTANTS Docs, Cids, MaxAnswers
VARIABLES mode, requested, heads, answer, answers, pending, results, failed, gaveUp, told

Sync == INSTANCE DocSync

LEMMA SyncTypes ==
    ASSUME MaxAnswers \in Nat, Sync!IndInv, [Sync!Next]_(Sync!dvars) PROVE Sync!Types'
  <1> USE DEF Sync!IndInv
  <1>1. CASE UNCHANGED Sync!dvars BY <1>1, Zenon DEF Sync!Types, Sync!TypeOK, Sync!dvars
  <1>2. CASE Sync!Request BY <1>2, Zenon DEF Sync!Request, Sync!Types, Sync!TypeOK
  <1>3. CASE Sync!Deadline BY <1>3, Zenon DEF Sync!Deadline, Sync!Types, Sync!TypeOK
  <1>4. ASSUME NEW p \in Peers, Sync!Answer(p) PROVE Sync!Types'
    <2>1. answers' \in [Peers -> 0 .. MaxAnswers]
      BY <1>4 DEF Sync!Answer, Sync!Types
    <2> QED BY <1>4, <2>1, Zenon DEF Sync!Answer, Sync!Types, Sync!TypeOK
  <1>5. ASSUME NEW p \in Peers, Sync!Handle(p) PROVE Sync!Types'
    <2>1. \A d \in Docs : Sync!ToTry(p, d) \subseteq Cids
      BY DEF Sync!ToTry, Sync!Types, Sync!TypeOK
    <2>2. UNION {Sync!ToTry(p, d) : d \in Docs} \subseteq Cids BY <2>1, Zenon
    <2>3. /\ UNCHANGED <<mode, requested, heads, answers>> /\ told' \subseteq Peers
          /\ answer' \in [Peers -> {"none", "sent", "error", "lost", "handled", "refused"}]
      BY <1>5, Zenon DEF Sync!Handle, Sync!Types, Sync!TypeOK
    <2> DEFINE Goal == /\ results' \in [Docs -> SUBSET Cids] /\ pending' \subseteq Peers
                       /\ merged' \cup failed' \cup gaveUp' \subseteq Cids
                       /\ status' \in {"start", "waiting", "ok", "timeout", "error"}
    <2> DEFINE try == UNION {Sync!ToTry(p, d) : d \in Docs}
    <2>a. ASSUME NEW cs, NEW bad, cs \subseteq Cids, bad \subseteq Cids, Sync!Attempt(cs, bad)
          PROVE  merged' \cup failed' \cup gaveUp' \subseteq Cids
      BY <2>a, Zenon DEF Sync!Attempt, Sync!Types, Sync!TypeOK
    <2>4. ASSUME Sync!HandleDocReply(p) PROVE Goal
      <3>1. PICK bad \in SUBSET try : Sync!Attempt(try, bad) BY <2>4, Zenon DEF Sync!HandleDocReply
      <3>2. merged' \cup failed' \cup gaveUp' \subseteq Cids BY <2>2, <2>a, <3>1, Zenon
      <3> QED BY <2>1, <2>4, <3>2, Zenon DEF Sync!HandleDocReply, Sync!Types, Sync!TypeOK
    <2>5. ASSUME Sync!HandleDocError(p) PROVE Goal
      BY <2>5, Zenon DEF Sync!HandleDocError, Sync!Types, Sync!TypeOK
    <2>6. ASSUME Sync!HandleCollectionReply(p) PROVE Goal
      <3>1. PICK cs \in SUBSET try, bad \in SUBSET try : Sync!Attempt(cs, bad)
        BY <2>6, Zenon DEF Sync!HandleCollectionReply
      <3>2. merged' \cup failed' \cup gaveUp' \subseteq Cids BY <2>2, <2>a, <3>1, Zenon
      <3> QED BY <2>1, <2>6, <3>2 DEF Sync!HandleCollectionReply, Sync!Types, Sync!TypeOK
    <2>7. ASSUME Sync!HandleCollectionError(p) PROVE Goal
      BY <2>7, Zenon DEF Sync!HandleCollectionError, Sync!Types, Sync!TypeOK
    <2>8. Goal BY <1>5, <2>4, <2>5, <2>6, <2>7, Zenon DEF Sync!Handle
    <2> QED BY <2>3, <2>8, Zenon DEF Sync!Types, Sync!TypeOK
  <1> QED BY <1>1, <1>2, <1>3, <1>4, <1>5, Zenon DEF Sync!Next

\* What handling the answer of p adds to what was told.
LEMMA ToldGrows ==
    ASSUME Sync!IndInv, NEW p \in Peers, Sync!Handle(p), NEW d \in Docs
    PROVE  /\ Sync!Told(d) \subseteq Sync!Told(d)'
           /\ answer[p] = "sent" => Sync!Told(d)' = Sync!Told(d) \cup heads[p][d]
           /\ answer[p] # "sent" => Sync!Told(d)' = Sync!Told(d)
  <1>1. told' = (IF answer[p] = "sent" THEN told \cup {p} ELSE told) /\ heads' = heads
    BY Zenon DEF Sync!Handle
  <1>2. \A c : c \in Sync!Told(d) <=> \E q \in told : c \in heads[q][d]
    BY Zenon DEF Sync!Told
  <1>3. \A c : c \in Sync!Told(d)' <=> \E q \in told' : c \in heads[q][d]
    BY <1>1, Zenon DEF Sync!Told
  <1> QED BY <1>1, <1>2, <1>3, Zenon

LEMMA SyncRecord ==
    ASSUME Sync!IndInv, [Sync!Next]_(Sync!dvars)
    PROVE  Sync!RecordInv' /\ (merged \subseteq UNION {Sync!Told(d) : d \in requested})'
  <1> USE DEF Sync!IndInv
  <1> DEFINE Asked == merged \subseteq UNION {Sync!Told(d) : d \in requested}
             Tried == gaveUp \cup (IF mode = "documents" THEN failed ELSE {})
  <1>1. /\ requested \subseteq Docs /\ results \in [Docs -> SUBSET Cids]
        /\ heads \in [Peers -> [Docs -> SUBSET Cids]] /\ mode \in {"documents", "collection"}
    BY Zenon DEF Sync!Types, Sync!TypeOK
  <1>2. ASSUME UNCHANGED <<mode, requested, heads, told, results, merged, failed, gaveUp>>,
               status = "error" => status' = "error"
        PROVE  Sync!RecordInv' /\ Asked'
    <2>1. \A d : Sync!Told(d)' = Sync!Told(d) BY <1>2, Zenon DEF Sync!Told
    <2> QED BY <1>2, <2>1, Zenon DEF Sync!RecordInv
  <1>3. CASE UNCHANGED Sync!dvars BY <1>2, <1>3, Zenon DEF Sync!dvars
  <1>4. CASE Sync!Request BY <1>2, <1>4, Zenon DEF Sync!Request
  <1>5. CASE Sync!Deadline BY <1>2, <1>5, Zenon DEF Sync!Deadline
  <1>6. ASSUME NEW p \in Peers, Sync!Answer(p) PROVE Sync!RecordInv' /\ Asked'
    BY <1>2, <1>6, Zenon DEF Sync!Answer
  <1>7. ASSUME NEW p \in Peers, Sync!Handle(p) PROVE Sync!RecordInv' /\ Asked'
    <2> DEFINE try == UNION {Sync!ToTry(p, d) : d \in Docs}
    <2>1. status = "waiting" /\ UNCHANGED <<mode, requested, heads>> BY <1>7, Zenon DEF Sync!Handle
    <2>2. \A d \in requested : Sync!Told(d) \subseteq results[d] BY <2>1, Zenon DEF Sync!RecordInv
    <2>3. \A d \in Docs : results[d] \subseteq merged \cup Tried BY Zenon DEF Sync!RecordInv
    <2>4. ASSUME answer[p] = "sent", merged' \subseteq merged \cup try PROVE Asked'
      <3>1. SUFFICES ASSUME NEW c \in merged' PROVE \E d \in requested : c \in Sync!Told(d)'
        BY <2>1, Zenon
      <3>2. CASE c \in merged
        <4>1. PICK d \in requested : c \in Sync!Told(d) BY <3>2, Zenon
        <4> QED BY <1>1, <1>7, <4>1, ToldGrows, Zenon
      <3>3. CASE c \in try
        <4>1. PICK d \in Docs : c \in Sync!ToTry(p, d) BY <3>3, Zenon
        <4>2. d \in requested /\ c \in heads[p][d] BY <4>1, Zenon DEF Sync!ToTry
        <4> QED BY <1>7, <2>4, <4>1, <4>2, ToldGrows
      <3> QED BY <2>4, <3>1, <3>2, <3>3, Zenon
    <2>5. ASSUME answer[p] = "sent", results' = [d \in Docs |-> results[d] \cup Sync!ToTry(p, d)]
          PROVE  \A d \in requested : Sync!Told(d)' \subseteq results'[d]
      <3>1. TAKE d \in requested
      <3>2. results'[d] = results[d] \cup heads[p][d] BY <1>1, <2>5, Zenon DEF Sync!ToTry
      <3>3. Sync!Told(d)' = Sync!Told(d) \cup heads[p][d] BY <1>1, <1>7, <2>5, ToldGrows, Zenon
      <3> QED BY <2>2, <3>2, <3>3, Zenon
    <2>6. CASE Sync!HandleDocReply(p)
      <3>1. /\ mode = "documents" /\ answer[p] = "sent"
            /\ results' = [d \in Docs |-> results[d] \cup Sync!ToTry(p, d)]
        BY <2>6, Zenon DEF Sync!HandleDocReply
      <3>2. PICK bad \in SUBSET try : Sync!Attempt(try, bad)
        BY <2>6, Zenon DEF Sync!HandleDocReply
      <3>3. \A d \in Docs : results'[d] \subseteq merged' \cup gaveUp' \cup failed'
        <4>1. merged \cup gaveUp \cup failed \cup try \subseteq merged' \cup gaveUp' \cup failed'
          BY <3>2, Zenon DEF Sync!Attempt
        <4>2. \A d \in Docs : Sync!ToTry(p, d) \subseteq try BY Zenon
        <4> HIDE DEF try
        <4> QED BY <2>3, <3>1, <4>1, <4>2, Zenon
      <3>4. \A d \in requested : Sync!Told(d)' \subseteq results'[d] BY <2>5, <3>1, Zenon
      <3>5. merged' \subseteq merged \cup try BY <3>2, Zenon DEF Sync!Attempt
      <3>6. Asked' BY <2>4, <3>1, <3>5, Zenon
      <3> QED BY <2>1, <3>1, <3>3, <3>4, <3>6 DEF Sync!RecordInv
    <2>7. CASE Sync!HandleDocError(p) \/ Sync!HandleCollectionError(p)
      <3>1. answer[p] # "sent" /\ UNCHANGED <<results, merged, failed, gaveUp>>
        BY <2>7, Zenon DEF Sync!HandleDocError, Sync!HandleCollectionError
      <3>2. \A d \in Docs : Sync!Told(d)' = Sync!Told(d) BY <1>7, <3>1, ToldGrows, Zenon
      <3> QED BY <1>1, <2>1, <2>2, <2>3, <3>1, <3>2 DEF Sync!RecordInv
    <2>8. CASE Sync!HandleCollectionReply(p)
      <3>1. mode = "collection" /\ answer[p] = "sent" BY <2>8, Zenon DEF Sync!HandleCollectionReply
      <3>a. ASSUME NEW cs \in SUBSET try, NEW bad \in SUBSET try, Sync!Attempt(cs, bad)
            PROVE  /\ Asked'
                   /\ merged \cup gaveUp \cup (cs \ bad) \subseteq merged' \cup gaveUp'
        <4>1. merged' \subseteq merged \cup try BY <3>a, Zenon DEF Sync!Attempt
        <4>2. Asked' BY <2>4, <3>1, <4>1, Zenon
        <4> QED BY <3>a, <4>2, Zenon DEF Sync!Attempt
      <3>b. \A d \in Docs : results[d] \subseteq merged \cup gaveUp BY <2>3, <3>1, Zenon
      <3>c. \A d \in Docs : Sync!ToTry(p, d) \subseteq try BY Zenon
      <3>2. CASE /\ Sync!Attempt(try, {})
                 /\ results' = [d \in Docs |-> results[d] \cup Sync!ToTry(p, d)]
        <4>0. try \in SUBSET try /\ {} \in SUBSET try BY Zenon
        <4>1. Asked' /\ merged \cup gaveUp \cup try \subseteq merged' \cup gaveUp'
          <5> HIDE DEF Asked, try
          <5>1. Asked' /\ merged \cup gaveUp \cup (try \ {}) \subseteq merged' \cup gaveUp'
            BY ONLY <3>2, <3>a, <4>0, Zenon
          <5> QED BY <5>1, Zenon
        <4>2. \A d \in requested : Sync!Told(d)' \subseteq results'[d] BY <2>5, <3>1, <3>2, Zenon
        <4> HIDE DEF try
        <4>3. \A d \in Docs : results'[d] \subseteq merged' \cup gaveUp'
          BY <3>2, <3>b, <3>c, <4>1, Zenon
        <4>4. requested' = requested /\ mode' = "collection" BY <2>1, <3>1, Zenon
        <4>5. Sync!RecordInv' BY <4>2, <4>3, <4>4, Zenon DEF Sync!RecordInv
        <4> QED BY <4>1, <4>5, Zenon
      <3>3. ASSUME NEW bad \in try, NEW ok \in SUBSET try,
                   /\ bad \notin ok
                   /\ Sync!Attempt(ok \cup {bad}, {bad})
                   /\ results' = [d \in Docs |-> results[d] \cup (Sync!ToTry(p, d) \cap ok)]
                   /\ status' = "error"
            PROVE  Sync!RecordInv' /\ Asked'
        <4>1. ok \cup {bad} \in SUBSET try /\ {bad} \in SUBSET try BY Zenon
        <4>2. Asked' /\ merged \cup gaveUp \cup ok \subseteq merged' \cup gaveUp'
          <5> HIDE DEF Asked, try
          <5>1. Asked' /\ merged \cup gaveUp \cup ((ok \cup {bad}) \ {bad}) \subseteq merged' \cup gaveUp'
            BY ONLY <3>3, <3>a, <4>1, Zenon
          <5> QED BY <3>3, <5>1, Zenon
        <4> HIDE DEF try
        <4>3. \A d \in Docs : results'[d] \subseteq merged' \cup gaveUp'
          BY <3>3, <3>b, <4>2, Zenon
        <4>4. mode' = "collection" BY <2>1, <3>1, Zenon
        <4>5. Sync!RecordInv' BY <3>3, <4>3, <4>4, Zenon DEF Sync!RecordInv
        <4> QED BY <4>2, <4>5, Zenon
      <3> QED BY <2>8, <3>2, <3>3, Zenon DEF Sync!HandleCollectionReply
    <2> QED BY <1>7, <2>6, <2>7, <2>8, Zenon DEF Sync!Handle
  <1> QED BY <1>3, <1>4, <1>5, <1>6, <1>7, Zenon DEF Sync!Next

\* SyncDocuments and SyncBranchableCollection, whichever peers answer, fail,
\* are late, answer again or are lost: a call that succeeds has merged every
\* head it was told of, except those db.Merge gave up without an error and, for
\* documents, those that could not be fetched or merged; and nothing is merged
\* that was not asked for and told of.
THEOREM SyncMerges ==
    MaxAnswers \in Nat => (Sync!Spec => [](Sync!TypeOK /\ Sync!SuccessMeansMerged))
  <1> SUFFICES ASSUME MaxAnswers \in Nat
               PROVE  Sync!Spec => [](Sync!TypeOK /\ Sync!SuccessMeansMerged)
    BY Zenon
  <1>1. Sync!Init => Sync!IndInv
    <2> SUFFICES ASSUME Sync!Init PROVE Sync!IndInv BY Zenon
    <2>0. 0 \in 0 .. MaxAnswers OBVIOUS
    <2>1. Sync!Types BY <2>0, Zenon DEF Sync!Init, Sync!Types, Sync!TypeOK
    <2>2. \A d : Sync!Told(d) = {} BY Zenon DEF Sync!Init, Sync!Told
    <2>3. Sync!RecordInv BY <2>2, Zenon DEF Sync!Init, Sync!RecordInv
    <2> QED BY <2>1, <2>3, Zenon DEF Sync!Init, Sync!IndInv
  <1>2. Sync!IndInv /\ [Sync!Next]_(Sync!dvars) => Sync!IndInv'
    BY SyncTypes, SyncRecord, Zenon DEF Sync!IndInv
  <1>3. Sync!IndInv => Sync!TypeOK BY Zenon DEF Sync!IndInv, Sync!Types
  <1>4. Sync!IndInv => Sync!SuccessMeansMerged
    <2> SUFFICES ASSUME Sync!IndInv PROVE Sync!SuccessMeansMerged BY Zenon
    <2>1. requested \subseteq Docs BY Zenon DEF Sync!IndInv, Sync!Types, Sync!TypeOK
    <2>2. ASSUME status = "ok", NEW d \in requested
          PROVE  Sync!Told(d) \subseteq
                   merged \cup gaveUp \cup (IF mode = "documents" THEN failed ELSE {})
      BY <2>1, <2>2, Zenon DEF Sync!IndInv, Sync!RecordInv
    <2> QED BY <2>2, Zenon DEF Sync!IndInv, Sync!SuccessMeansMerged
  <1> QED BY <1>1, <1>2, <1>3, <1>4, PTL DEF Sync!Spec

(***************************************************************************)
(* The topics a node follows (P2PTopics)                                   *)
(***************************************************************************)
CONSTANTS Ids, Known, Collections, Txns, MaxCalls
VARIABLES up, persisted, topics, mark, queued, running, calls, unsettled

Topics == INSTANCE P2PTopics

\* What a call may do to transaction t: write markers of ids that it accepts,
\* and register callbacks for them.
Registers(t, op, ids) ==
    /\ ids \subseteq Ids \cap Known
    /\ mark' = [mark EXCEPT ![t] = [id \in Ids |-> IF id \in ids THEN op ELSE mark[t][id]]]
    /\ queued' \in {queued, [queued EXCEPT ![t] = @ \cup {[call |-> calls, op |-> op, id |-> i] : i \in ids}]}
    /\ calls < MaxCalls /\ calls' = calls + 1
    /\ up /\ UNCHANGED <<up, persisted, topics, running, unsettled>>

LEMMA FollowRegisters ==
    ASSUME Topics!IndInv, Topics!Follow
    PROVE  \E t \in Txns, op \in {"add", "delete"} : \E ids : Registers(t, op, ids)
  <1>1. PICK t \in Txns, op \in {"add", "delete"}, given \in SUBSET Ids :
             Topics!FollowCollections(t, op, given) \/ Topics!FollowDocuments(t, op, given)
    BY Zenon DEF Topics!Follow
  <1>2. ASSUME given \subseteq Known PROVE Registers(t, op, given)
    BY <1>1, <1>2, Zenon DEF Topics!FollowCollections, Topics!FollowDocuments, Topics!Write, Registers
  <1>3. CASE ~(given \subseteq Known) /\ UNCHANGED <<mark, queued>>
    <2>1. mark[t] = [id \in Ids |-> mark[t][id]] /\ mark \in [Txns -> [Ids -> {"none", "add", "delete"}]]
      BY Zenon DEF Topics!IndInv, Topics!Types
    <2>2. mark = [mark EXCEPT ![t] = mark[t]] BY <2>1, Zenon
    <2>3. [id \in Ids |-> IF id \in {} THEN op ELSE mark[t][id]] = [id \in Ids |-> mark[t][id]] BY Zenon
    <2>4. Registers(t, op, {})
      BY <1>1, <1>3, <2>1, <2>2, <2>3, Zenon DEF Topics!FollowCollections, Topics!FollowDocuments, Registers
    <2> QED BY <2>4, Zenon
  <1>4. CASE ~(given \subseteq Known) /\ ~UNCHANGED <<mark, queued>>
    <2>1. PICK before \in SUBSET (given \cap Known) : Topics!Write(t, op, before) /\ UNCHANGED queued
      BY <1>1, <1>4, Zenon DEF Topics!FollowCollections, Topics!FollowDocuments
    <2>2. Registers(t, op, before)
      BY <1>1, <1>4, <2>1, Zenon DEF Topics!FollowCollections, Topics!FollowDocuments, Topics!Write, Registers
    <2> QED BY <2>2, Zenon
  <1> QED BY <1>2, <1>3, <1>4, Zenon

LEMMA TopicsTypes ==
    ASSUME MaxCalls \in Nat, Topics!IndInv, [Topics!Next]_(Topics!vars) PROVE Topics!Types'
  <1> USE DEF Topics!IndInv
  <1>1. CASE UNCHANGED Topics!vars BY <1>1, Zenon DEF Topics!Types, Topics!Callback, Topics!vars
  <1>2. ASSUME NEW t \in Txns, NEW op \in {"add", "delete"}, NEW ids, Registers(t, op, ids)
        PROVE  Topics!Types'
    <2>1. calls' \in 0 .. MaxCalls /\ 0 .. calls \subseteq 0 .. calls' /\ calls \in 0 .. calls'
      BY <1>2 DEF Registers, Topics!Types
    <2>2. Topics!Callback \subseteq Topics!Callback'
      BY <2>1, Zenon DEF Topics!Callback
    <2>3. \A i \in ids : [call |-> calls, op |-> op, id |-> i] \in Topics!Callback'
      BY <1>2, <2>1, Zenon DEF Registers, Topics!Callback
    <2>4. queued' \in [Txns -> SUBSET Topics!Callback']
      BY <1>2, <2>2, <2>3 DEF Registers, Topics!Types
    <2>5. mark' \in [Txns -> [Ids -> {"none", "add", "delete"}]]
      BY <1>2, Zenon DEF Registers, Topics!Types
    <2> QED BY <1>2, <2>1, <2>2, <2>4, <2>5, Zenon DEF Registers, Topics!Types
  <1>3. calls' = calls => Topics!Callback' = Topics!Callback BY Zenon DEF Topics!Callback
  <1>4. ASSUME NEW t \in Txns, Topics!Commit(t) PROVE Topics!Types'
    <2>1. \A id \in Ids : mark[t][id] # "none" => id \in Known BY Zenon DEF Topics!QueueInv
    <2>2. persisted' \subseteq Known /\ unsettled' \subseteq Known
      BY <1>4, <2>1, Zenon DEF Topics!Commit, Topics!Types
    <2>3. running' \subseteq Topics!Callback BY <1>4, Zenon DEF Topics!Commit, Topics!Types
    <2>4. mark' \in [Txns -> [Ids -> {"none", "add", "delete"}]]
          /\ queued' \in [Txns -> SUBSET Topics!Callback]
      BY <1>4, Zenon DEF Topics!Commit, Topics!Types, Topics!NoMarks
    <2> QED BY <1>3, <1>4, <2>2, <2>3, <2>4, Zenon DEF Topics!Commit, Topics!Types
  <1>5. ASSUME NEW t \in Txns, Topics!Discard(t) PROVE Topics!Types'
    BY <1>3, <1>5, Zenon DEF Topics!Discard, Topics!Types, Topics!NoMarks
  <1>6. ASSUME NEW c \in running, Topics!RunCallback(c) PROVE Topics!Types'
    <2>1. c.id \in Known BY Zenon DEF Topics!Types, Topics!Callback
    <2>2. topics' \subseteq Known /\ unsettled' \subseteq Known
      BY <1>6, <2>1, Zenon DEF Topics!RunCallback, Topics!Types
    <2> QED BY <1>3, <1>6, <2>2, Zenon DEF Topics!RunCallback, Topics!Types
  <1>7. CASE Topics!Stop BY <1>3, <1>7, Zenon DEF Topics!Stop, Topics!Types, Topics!NoMarks
  <1>8. CASE Topics!Start BY <1>3, <1>8, Zenon DEF Topics!Start, Topics!Types
  <1> QED BY <1>1, <1>2, <1>4, <1>5, <1>6, <1>7, <1>8, FollowRegisters, Zenon DEF Topics!Next

LEMMA TopicsQueue ==
    ASSUME Topics!IndInv, [Topics!Next]_(Topics!vars) PROVE Topics!QueueInv'
  <1> USE DEF Topics!IndInv
  <1>1. /\ mark \in [Txns -> [Ids -> {"none", "add", "delete"}]]
        /\ queued \in [Txns -> SUBSET Topics!Callback]
    BY Zenon DEF Topics!Types
  <1>2. CASE UNCHANGED Topics!vars BY <1>2, Zenon DEF Topics!QueueInv, Topics!vars
  <1>3. ASSUME NEW t \in Txns, NEW op \in {"add", "delete"}, NEW ids, Registers(t, op, ids)
        PROVE  Topics!QueueInv'
    <2>1. \A u \in Txns, id \in Ids :
             mark'[u][id] = IF u = t /\ id \in ids THEN op ELSE mark[u][id]
      BY <1>1, <1>3, Zenon DEF Registers
    <2>2. ASSUME NEW u \in Txns, NEW c \in queued'[u] PROVE mark'[u][c.id] # "none"
      <3>1. CASE c \in queued[u]
        <4>1. c.id \in Ids BY <1>1, <3>1 DEF Topics!Callback
        <4> QED BY <2>1, <3>1, <4>1 DEF Topics!QueueInv
      <3>2. CASE c \notin queued[u]
        <4>1. u = t /\ c.id \in ids BY <1>1, <1>3, <2>2, <3>2 DEF Registers
        <4>2. c.id \in Ids BY <1>3, <4>1, Zenon DEF Registers
        <4> QED BY <2>1, <4>1, <4>2, Zenon
      <3> QED BY <3>1, <3>2, Zenon
    <2>3. \A u \in Txns, id \in Ids : mark'[u][id] # "none" => id \in Known
      BY <1>3, <2>1 DEF Registers, Topics!QueueInv
    <2> QED BY <1>3, <2>2, <2>3, Zenon DEF Registers, Topics!QueueInv
  <1>4. ASSUME NEW t \in Txns, Topics!Commit(t) \/ Topics!Discard(t) PROVE Topics!QueueInv'
    <2>1. /\ mark' = [mark EXCEPT ![t] = Topics!NoMarks] /\ queued' = [queued EXCEPT ![t] = {}]
          /\ up /\ up' = up
      BY <1>4, Zenon DEF Topics!Commit, Topics!Discard
    <2> QED BY <1>1, <2>1, Zenon DEF Topics!QueueInv, Topics!NoMarks
  <1>5. ASSUME NEW c \in running, Topics!RunCallback(c) PROVE Topics!QueueInv'
    BY <1>5, Zenon DEF Topics!RunCallback, Topics!QueueInv
  <1>6. CASE Topics!Stop BY <1>6, Zenon DEF Topics!Stop, Topics!QueueInv, Topics!NoMarks
  <1>7. CASE Topics!Start BY <1>7, Zenon DEF Topics!Start, Topics!QueueInv
  <1> QED BY <1>2, <1>3, <1>4, <1>5, <1>6, <1>7, FollowRegisters, Zenon DEF Topics!Next

LEMMA TopicsSettled ==
    ASSUME Topics!IndInv, [Topics!Next]_(Topics!vars) PROVE Topics!SettledInv'
  <1> USE DEF Topics!IndInv
  <1> DEFINE Settled(id) ==
        \/ Topics!OfId(running, id) = {} /\ (id \in topics <=> id \in persisted)
        \/ \E c \in running : Topics!OfId(running, id) = {c} /\ (c.op = "add" <=> id \in persisted)
  <1>1. up => \A id \in Ids \ unsettled : Settled(id) BY Zenon DEF Topics!SettledInv
  <1>2. ASSUME UNCHANGED <<up, persisted, topics, running, unsettled>> PROVE Topics!SettledInv'
    BY <1>2 DEF Topics!SettledInv, Topics!OfId
  <1>3. CASE UNCHANGED Topics!vars BY <1>2, <1>3, Zenon DEF Topics!vars
  <1>4. ASSUME NEW t \in Txns, NEW op \in {"add", "delete"}, NEW ids, Registers(t, op, ids)
        PROVE  Topics!SettledInv'
    BY <1>2, <1>4, Zenon DEF Registers
  <1>5. ASSUME NEW t \in Txns, Topics!Commit(t) PROVE Topics!SettledInv'
    <2>1. /\ up /\ up' /\ topics' = topics /\ running' = running \cup queued[t]
      BY <1>5, Zenon DEF Topics!Commit
    <2>2. SUFFICES ASSUME NEW id \in Ids, id \notin unsettled' PROVE Settled(id)'
      BY Zenon DEF Topics!SettledInv
    <2>3. CASE mark[t][id] = "none"
      <3>1. (id \in persisted' <=> id \in persisted) /\ id \notin unsettled
        BY <1>5, <2>2, <2>3, Zenon DEF Topics!Commit
      <3>2. \A c \in queued[t] : c.id # id BY <2>3, Zenon DEF Topics!QueueInv
      <3>3. Topics!OfId(running', id) = Topics!OfId(running, id) BY <2>1, <3>2, Zenon DEF Topics!OfId
      <3>4. Settled(id) BY <1>1, <2>1, <3>1, Zenon
      <3> QED BY <2>1, <3>1, <3>3, <3>4, Zenon
    <2>4. CASE mark[t][id] # "none"
      <3>1. Topics!Settles(t, id) BY <1>5, <2>2, <2>4, Zenon DEF Topics!Commit
      <3>2. PICK c \in queued[t] :
               Topics!OfId(running \cup queued[t], id) = {c} /\ c.op = mark[t][id]
        BY <3>1, Zenon DEF Topics!Settles
      <3>3. mark[t][id] \in {"add", "delete"} BY <2>4, Zenon DEF Topics!Types
      <3>4. id \in persisted' <=> c.op = "add" BY <1>5, <3>2, <3>3, Zenon DEF Topics!Commit
      <3> QED BY <2>1, <3>2, <3>4, Zenon
    <2> QED BY <2>3, <2>4, Zenon
  <1>6. ASSUME NEW t \in Txns, Topics!Discard(t) PROVE Topics!SettledInv'
    BY <1>2, <1>6, Zenon DEF Topics!Discard
  <1>7. ASSUME NEW c \in running, Topics!RunCallback(c) PROVE Topics!SettledInv'
    <2>1. /\ up /\ running' = running \ {c} /\ persisted' = persisted
          /\ unsettled \subseteq unsettled'
          /\ \/ topics' = IF c.op = "add" THEN topics \cup {c.id} ELSE topics \ {c.id}
             \/ topics' = topics /\ c.id \in unsettled'
      BY <1>7, Zenon DEF Topics!RunCallback
    <2>2. SUFFICES ASSUME NEW id \in Ids, id \notin unsettled' PROVE Settled(id)'
      BY Zenon DEF Topics!SettledInv
    <2>3. Settled(id) BY <1>1, <2>1, <2>2, Zenon
    <2>4. CASE c.id # id
      <3>1. Topics!OfId(running', id) = Topics!OfId(running, id) BY <2>1, <2>4 DEF Topics!OfId
      <3>2. \A d : Topics!OfId(running, id) = {d} => d \in running' BY <3>1, Zenon DEF Topics!OfId
      <3>3. id \in topics' <=> id \in topics BY <2>1, <2>4, Zenon
      <3> QED BY <2>1, <2>3, <3>1, <3>2, <3>3, Zenon
    <2>5. CASE c.id = id
      <3>1. c \in Topics!OfId(running, id) BY <2>5, Zenon DEF Topics!OfId
      <3>2. Topics!OfId(running, id) = {c} /\ (c.op = "add" <=> id \in persisted) BY <2>3, <3>1, Zenon
      <3>3. Topics!OfId(running', id) = {} BY <2>1, <3>2, Zenon DEF Topics!OfId
      <3>4. id \in topics' <=> id \in persisted' BY <2>1, <2>2, <2>5, <3>2, Zenon
      <3> QED BY <3>3, <3>4, Zenon
    <2> QED BY <2>4, <2>5, Zenon
  <1>8. CASE Topics!Stop BY <1>8, Zenon DEF Topics!Stop, Topics!SettledInv
  <1>9. CASE Topics!Start
    <2>1. topics' = persisted' /\ running' = {}
      BY <1>9, Zenon DEF Topics!Start, Topics!QueueInv
    <2> QED BY <2>1, Zenon DEF Topics!SettledInv, Topics!OfId
  <1> QED BY <1>3, <1>4, <1>5, <1>6, <1>7, <1>8, <1>9, FollowRegisters, Zenon DEF Topics!Next

\* p2p.go and txn.go: once the callbacks of an id are done, the node follows
\* its topic exactly when the store has its marker, however calls, commits,
\* callbacks and restarts come; except for ids with callbacks that overlapped
\* or failed, and markers that a refused call left behind.
THEOREM TopicsAgree ==
    MaxCalls \in Nat => (Topics!Spec => [](Topics!TypeOK /\ Topics!TopicsFollowStore))
  <1> SUFFICES ASSUME MaxCalls \in Nat
               PROVE  Topics!Spec => [](Topics!TypeOK /\ Topics!TopicsFollowStore)
    BY Zenon
  <1>1. Topics!Init => Topics!IndInv
    BY DEF Topics!Init, Topics!IndInv, Topics!Types, Topics!QueueInv, Topics!SettledInv,
       Topics!NoMarks, Topics!OfId
  <1>2. Topics!IndInv /\ [Topics!Next]_(Topics!vars) => Topics!IndInv'
    BY TopicsTypes, TopicsQueue, TopicsSettled, Zenon DEF Topics!IndInv
  <1>3. Topics!IndInv => Topics!TypeOK
    BY DEF Topics!IndInv, Topics!Types, Topics!TypeOK, Topics!Callback
  <1>4. Topics!IndInv => Topics!TopicsFollowStore
    BY Zenon DEF Topics!IndInv, Topics!SettledInv, Topics!TopicsFollowStore
  <1> QED BY <1>1, <1>2, <1>3, <1>4, PTL DEF Topics!Spec

=============================================================================
