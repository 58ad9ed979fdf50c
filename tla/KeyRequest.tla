----------------------------- MODULE KeyRequest -----------------------------
(***************************************************************************)
(* Encrypted blocks from the network: while syncDAG walks down from a      *)
(* head, it asks the peers for the key of every encrypted block that is    *)
(* not merged yet (internal/kms), and the merge needs the keys of all of   *)
(* them.  The request for a key is broadcast; a goroutine takes the first  *)
(* answer that comes and no other.  A peer answers with the key, with an   *)
(* empty reply if it does not let this node have it, or with an error if   *)
(* it does not have it itself.                                             *)
(*                                                                         *)
(* A key is the link of its encryption block; several blocks may have the  *)
(* same one.  Sealing a key for the requester is left out: an answer that  *)
(* cannot be opened is an error.                                           *)
(***************************************************************************)
EXTENDS Naturals, Sequences

CONSTANTS
    Requests,   \* the goroutines that sync and merge a head
    Blocks, Composites,
    AllLinks,   \* AllLinks[b]: the blocks b links to, in order
    Encryption, \* Encryption[b]: the key of b, or NoKey
    NoKey,
    Peers

EncryptionKeys == {Encryption[b] : b \in Blocks} \ {NoKey}

VARIABLES
    has, allows,    \* has[p]: the keys p has; allows[p]: those it lets this node have
    stored, merged, \* blocks of this node
    encstore,       \* keys of this node
    head, stack,    \* stack[r]: the calls of loadBlockLinks, [block, todo]
    key,            \* key[r][b]: the request for the key of b, "none", "asked",
                    \* or what its result channel has before it is closed
    status,         \* "new", "syncing", "synced", "failed", "merged"
    refused         \* history: keys a request got an empty reply for

vars == <<has, allows, stored, merged, encstore, head, stack, key, status, refused>>
peers == <<has, allows>>

Links(b) == {AllLinks[b][i] : i \in DOMAIN AllLinks[b]}
Closed(S) == \A b \in S : Links(b) \subseteq S

\* b and all the blocks below it: the smallest set that has b and what its
\* blocks link to
Below(b) == {c \in Blocks : \A S \in SUBSET Blocks : b \in S /\ Closed(S) => c \in S}

Init ==
    /\ has \in [Peers -> SUBSET EncryptionKeys]
    /\ allows \in [Peers -> {{}, EncryptionKeys}]
    /\ stored = {} /\ merged = {} /\ encstore = {}
    /\ head \in [Requests -> Composites]
    /\ stack = [r \in Requests |-> <<>>]
    /\ key = [r \in Requests |-> [b \in Blocks |-> "none"]]
    /\ status = [r \in Requests |-> "new"]
    /\ refused = [r \in Requests |-> {}]

-----------------------------------------------------------------------------
(* syncDAG *)

\* the request fails; what it has stored stays, and so do the requests for keys
Fail(r) ==
    /\ stack' = [stack EXCEPT ![r] = <<>>]
    /\ status' = [status EXCEPT ![r] = "failed"]
    /\ UNCHANGED <<peers, merged, encstore, head, key, refused>>

\* Mutant: a block that is there already is taken for complete.
CallUnlessStored(r, b, calls) ==
    IF b \in stored
    THEN /\ stack' = [stack EXCEPT ![r] = calls]
         /\ status' = [status EXCEPT ![r] = IF calls = <<>> THEN "synced" ELSE "syncing"]
         /\ UNCHANGED key
    ELSE /\ stack' = [stack EXCEPT ![r] = <<[block |-> b, todo |-> AllLinks[b]]>> \o calls]
         /\ status' = [status EXCEPT ![r] = "syncing"]
         /\ key' = IF Encryption[b] = NoKey THEN key ELSE [key EXCEPT ![r][b] = "asked"]

\* loadBlockLinks is called for b, above the calls that are under way: it
\* returns at once if b is merged, and else asks for the key
Call(r, b, calls) ==
    IF b \in merged
    THEN /\ stack' = [stack EXCEPT ![r] = calls]
         /\ status' = [status EXCEPT ![r] = IF calls = <<>> THEN "synced" ELSE "syncing"]
         /\ UNCHANGED key
    ELSE /\ stack' = [stack EXCEPT ![r] = <<[block |-> b, todo |-> AllLinks[b]]>> \o calls]
         /\ status' = [status EXCEPT ![r] = "syncing"]
         /\ key' = IF Encryption[b] = NoKey THEN key ELSE [key EXCEPT ![r][b] = "asked"]

SyncDAG(r) ==
    /\ status[r] = "new"
    /\ \/ /\ stored' = stored \cup {head[r]}
          /\ Call(r, head[r], <<>>)
          /\ UNCHANGED <<peers, merged, encstore, head, refused>>
       \* storing the block, its signature, or PublishToTopic
       \/ Fail(r) /\ stored' \in {stored, stored \cup {head[r]}}

\* the next link of the block is loaded, from here or from a peer, or not
LoadLink(r) ==
    /\ status[r] = "syncing"
    /\ stack[r][1].todo # <<>>
    /\ LET call == stack[r][1]
           b == call.todo[1]
           calls == <<[call EXCEPT !.todo = Tail(call.todo)]>> \o Tail(stack[r])
       IN  \/ /\ stored' = stored \cup {b}
              /\ Call(r, b, calls)
              /\ UNCHANGED <<peers, merged, encstore, head, refused>>
           \/ Fail(r) /\ stored' \in {stored, stored \cup {b}}

\* all links are loaded: the call waits until the result channel is closed
ReturnLinks(r) ==
    /\ status[r] = "syncing"
    /\ stack[r][1].todo = <<>>
    /\ \/ /\ key[r][stack[r][1].block] \in {"none", "ok"}
          /\ stack' = [stack EXCEPT ![r] = Tail(@)]
          /\ status' = [status EXCEPT ![r] = IF stack'[r] = <<>> THEN "synced" ELSE @]
          /\ UNCHANGED <<peers, stored, merged, encstore, head, key, refused>>
       \/ key[r][stack[r][1].block] = "error" /\ Fail(r) /\ UNCHANGED stored

-----------------------------------------------------------------------------
(* GetKeys *)

\* handleRequestFromPeer: what p answers when it is asked for k
Reply(p, k) ==
    IF k \notin has[p] THEN "error" ELSE IF k \in allows[p] THEN "key" ELSE "empty"

\* handleFetchEncryptionKeyResponse
HandleAnswer(r, b, answer) ==
    /\ key' = [key EXCEPT ![r][b] = IF answer = "error" THEN "error" ELSE "ok"]
    /\ encstore' = IF answer = "key" THEN encstore \cup {Encryption[b]} ELSE encstore
    /\ refused' = IF answer = "empty" THEN [refused EXCEPT ![r] = @ \cup {Encryption[b]}]
                  ELSE refused

\* the first answer comes; when none does, the topic closes the channel, which
\* is read as an answer without data
Answered(r, b) ==
    /\ key[r][b] = "asked"
    /\ \E answer \in {"error"} \cup {Reply(p, Encryption[b]) : p \in Peers} :
         HandleAnswer(r, b, answer)
    /\ UNCHANGED <<peers, stored, merged, head, stack, status>>

-----------------------------------------------------------------------------
(* the merge *)

\* processEncryptedBlock: without the key the merge fails
Readable(b) == Encryption[b] \in encstore \cup {NoKey}

Merge(r) ==
    /\ status[r] = "synced"
    /\ IF \A b \in Below(head[r]) \ merged : Readable(b)
       THEN /\ merged' = merged \cup Below(head[r])
            /\ status' = [status EXCEPT ![r] = "merged"]
       ELSE /\ status' = [status EXCEPT ![r] = "failed"]
            /\ UNCHANGED merged
    /\ UNCHANGED <<peers, stored, encstore, head, stack, key, refused>>

Going(r) ==
    \/ SyncDAG(r) \/ LoadLink(r) \/ ReturnLinks(r) \/ Merge(r)
    \/ \E b \in Blocks : Answered(r, b)

Next == \E r \in Requests : Going(r)

Spec == Init /\ [][Next]_vars

TypeOK ==
    /\ stored \subseteq Blocks /\ merged \subseteq stored
    /\ encstore \subseteq UNION {has[p] : p \in Peers}
    /\ status \in [Requests -> {"new", "syncing", "synced", "failed", "merged"}]
    /\ \A r \in Requests : stack[r] = <<>> <=> status[r] # "syncing"

\* When a sync has succeeded, the merge will find the key of every block it has
\* to apply, or this node was refused it: blocks that an earlier sync stored
\* before it failed are asked for again, and answers that are still under way
\* are waited for (loadBlockLinks).
SyncedHasKeys ==
    \A r \in Requests : status[r] = "synced" =>
        \A b \in Below(head[r]) \ merged :
            b \in stored /\ Encryption[b] \in encstore \cup {NoKey} \cup refused[r]

\* A block that is merged could be read, and what it links to is merged: a key
\* that is missing stops the merge instead of leaving a gap in the document
\* (processEncryptedBlock).
MergedIsReadable ==
    \A b \in merged : Encryption[b] \in encstore \cup {NoKey} /\ Below(b) \subseteq merged

\* A sync that succeeds leaves nothing for the merge to miss but what was
\* refused, and nothing is merged without its key (loadBlockLinks and
\* processEncryptedBlock together).
KeysBeforeMerge == SyncedHasKeys /\ MergedIsReadable

\* A key that a peer has and lets this node have is found.
KeyIsFound ==
    \A r \in Requests, b \in Blocks : key[r][b] \in {"ok", "error"} =>
        Encryption[b] \in encstore \/ \A p \in Peers : Encryption[b] \notin has[p] \cap allows[p]

-----------------------------------------------------------------------------
(* What the proofs rest on. *)

\* Links are to blocks, and the heads are blocks.
Graph == AllLinks \in [Blocks -> Seq(Blocks)] /\ Composites \subseteq Blocks

Frame == [block : Blocks, todo : Seq(Blocks)]

Types ==
    /\ TypeOK
    /\ has \in [Peers -> SUBSET EncryptionKeys]
    /\ head \in [Requests -> Composites]
    /\ stack \in [Requests -> Seq(Frame)]
    /\ key \in [Requests -> [Blocks -> {"none", "asked", "ok", "error"}]]
    /\ refused \in [Requests -> SUBSET EncryptionKeys]

\* the blocks that the merge of r can apply, or was refused the key of
Good(r) == merged \cup {b \in stored : Encryption[b] \in encstore \cup {NoKey} \cup refused[r]}
Done(r, b) == Below(b) \subseteq Good(r)

\* Only a key that came, or that was refused, lets a call return.
KeyInv ==
    \A r \in Requests, b \in Blocks : key[r][b] = "ok" => Encryption[b] \in encstore \cup refused[r]

\* A call of loadBlockLinks: the block is stored and its key asked for, and of
\* its links each is still to be loaded, or is what the call above is for, or
\* is done with.
CallOK(r, i) ==
    LET call == stack[r][i]
    IN  /\ call.block \in stored
        /\ Encryption[call.block] = NoKey \/ key[r][call.block] # "none"
        /\ \A b \in Links(call.block) :
               \/ \E k \in DOMAIN call.todo : call.todo[k] = b
               \/ i > 1 /\ stack[r][i - 1].block = b
               \/ Done(r, b)

CallInv == \A r \in Requests : \A i \in DOMAIN stack[r] : CallOK(r, i)

\* The first call is for the head, which is done with when it returns.
HeadInv ==
    \A r \in Requests :
        /\ stack[r] # <<>> => stack[r][Len(stack[r])].block = head[r]
        /\ status[r] = "synced" => Done(r, head[r])

IndInv == Types /\ MergedIsReadable /\ KeyInv /\ CallInv /\ HeadInv
=============================================================================
