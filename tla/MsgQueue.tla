------------------------------ MODULE MsgQueue ------------------------------
(***************************************************************************)
(* The message queues between the threads of a session (queue.c over       *)
(* ldc-mutex.c): send_q, internal_q and external_q.  A push takes an entry *)
(* from the list of unused entries, which all the queues share, or         *)
(* allocates one, fills it, links it and signals the semaphore; a pull     *)
(* waits for the semaphore, unlinks the oldest entry, copies its content   *)
(* and recycles it.  Each call that takes a list's mutex, each access to   *)
(* the content of an entry and each semaphore operation is one step, so    *)
(* the steps of several pushes and pulls interleave.                       *)
(*                                                                         *)
(* Every queue has one consuming thread, named by its queue.  A pull whose *)
(* wait times out changes nothing and is not an action.                    *)
(***************************************************************************)
EXTENDS Naturals, Sequences, FiniteSets

CONSTANTS Queue,      \* the queues, and their consumers
          Producer,   \* the threads that push
          Entry,      \* the memory available for entries
          NoEntry,    \* the NULL entry
          NoMsg,      \* the content of a recycled entry
          MaxPush,    \* bound: pushes of each producer
          MaxFlush    \* bound: flushes

ASSUME QueueAssumption == NoEntry \notin Entry
ASSUME QueueBounds == MaxPush \in Nat /\ MaxFlush \in Nat
ASSUME ProducerAssumption == IsFiniteSet(Producer)

Msg == Producer \X (1 .. MaxPush)
ASSUME NoMsgAssumption == NoMsg \notin Msg

VARIABLES
    list,       \* list[q]: the linked entries of q, oldest first
    no,         \* no[q]: its counter of entries
    sem,        \* sem[q]: value of its semaphore
    unused,     \* the list _unused_msg
    allocated,  \* entries that calloc has returned
    content,    \* content[e]: the message held by e
    push_pc,    \* push_pc[p]: what p does next in a push
    push_q,     \* push_q[p]: the queue p pushes to
    push_item,  \* push_item[p]: the entry p has in hand
    sent,       \* sent[p]: number of pushes p has begun
    pull_pc,    \* pull_pc[q]: what the consumer of q does next
    pull_item,  \* pull_item[q]: the entry the consumer of q has in hand
    got,        \* got[q]: the messages the consumer of q has obtained
    flushing,   \* flushing[q]: a flush of q has emptied the list
    flushes     \* flushes so far

lists == <<list, no, unused>>
pushes == <<push_pc, push_q, push_item, sent>>
pulls == <<pull_pc, pull_item, got>>
flushed == <<flushing, flushes>>
qvars == <<lists, sem, allocated, content, pushes, pulls, flushed>>

QueueTypeOK ==
    /\ list \in [Queue -> Seq(Entry)]
    /\ no \in [Queue -> Nat]
    /\ sem \in [Queue -> Nat]
    /\ unused \in Seq(Entry)
    /\ allocated \in SUBSET Entry
    /\ content \in [Entry -> Msg \cup {NoMsg}]
    /\ push_pc \in [Producer -> {"idle", "fill", "insert", "signal"}]
    /\ push_q \in [Producer -> Queue]
    /\ push_item \in [Producer -> Entry \cup {NoEntry}]
    /\ sent \in [Producer -> 0 .. MaxPush]
    /\ pull_pc \in [Queue -> {"wait", "extract", "copy", "reset", "recycle"}]
    /\ pull_item \in [Queue -> Entry \cup {NoEntry}]
    /\ got \in [Queue -> Seq(Msg)]
    /\ flushing \in [Queue -> BOOLEAN]
    /\ flushes \in 0 .. MaxFlush

QueueInit ==
    /\ list = [q \in Queue |-> <<>>]
    /\ no = [q \in Queue |-> 0]
    /\ sem = [q \in Queue |-> 0]
    /\ unused = <<>>
    /\ allocated = {}
    /\ content = [e \in Entry |-> NoMsg]
    /\ push_pc = [p \in Producer |-> "idle"]
    /\ push_q \in [Producer -> Queue]
    /\ push_item = [p \in Producer |-> NoEntry]
    /\ sent = [p \in Producer |-> 0]
    /\ pull_pc = [q \in Queue |-> "wait"]
    /\ pull_item = [q \in Queue |-> NoEntry]
    /\ got = [q \in Queue |-> <<>>]
    /\ flushing = [q \in Queue |-> FALSE]
    /\ flushes = 0

-----------------------------------------------------------------------------
(* __push.                                                                 *)

(* queue_msg_new takes the oldest unused entry.                            *)
Reuse(p, q) ==
    /\ push_pc[p] = "idle"
    /\ sent[p] < MaxPush
    /\ unused # <<>>
    /\ unused' = Tail(unused)
    /\ push_item' = [push_item EXCEPT ![p] = Head(unused)]
    /\ push_q' = [push_q EXCEPT ![p] = q]
    /\ push_pc' = [push_pc EXCEPT ![p] = "fill"]
    /\ sent' = [sent EXCEPT ![p] = @ + 1]
    /\ UNCHANGED <<list, no, sem, allocated, content, pulls, flushed>>

(* When there is none it allocates; without memory the push fails.         *)
Allocate(p, q) ==
    /\ push_pc[p] = "idle"
    /\ sent[p] < MaxPush
    /\ unused = <<>>
    /\ \E e \in Entry \ allocated :
         /\ allocated' = allocated \cup {e}
         /\ push_item' = [push_item EXCEPT ![p] = e]
    /\ push_q' = [push_q EXCEPT ![p] = q]
    /\ push_pc' = [push_pc EXCEPT ![p] = "fill"]
    /\ sent' = [sent EXCEPT ![p] = @ + 1]
    /\ UNCHANGED <<lists, sem, content, pulls, flushed>>

PushFails(p) ==
    /\ push_pc[p] = "idle"
    /\ sent[p] < MaxPush
    /\ unused = <<>>
    /\ Entry \subseteq allocated
    /\ sent' = [sent EXCEPT ![p] = @ + 1]
    /\ UNCHANGED <<lists, sem, allocated, content, push_pc, push_q, push_item, pulls, flushed>>

Fill(p) ==
    /\ push_pc[p] = "fill"
    /\ content' = [content EXCEPT ![push_item[p]] = <<p, sent[p]>>]
    /\ push_pc' = [push_pc EXCEPT ![p] = "insert"]
    /\ UNCHANGED <<lists, sem, allocated, push_q, push_item, sent, pulls, flushed>>

queue_msg_insert(p) ==
    /\ push_pc[p] = "insert"
    /\ list' = [list EXCEPT ![push_q[p]] = Append(@, push_item[p])]
    /\ no' = [no EXCEPT ![push_q[p]] = @ + 1]
    /\ push_item' = [push_item EXCEPT ![p] = NoEntry]
    /\ push_pc' = [push_pc EXCEPT ![p] = "signal"]
    /\ UNCHANGED <<sem, unused, allocated, content, push_q, sent, pulls, flushed>>

(* Mutant: a queue that is not empty is not signalled.                     *)
semaphore_signal_WhenFirst(p) ==
    /\ push_pc[p] = "signal"
    /\ sem' = [sem EXCEPT ![push_q[p]] = IF no[push_q[p]] = 1 THEN @ + 1 ELSE @]
    /\ push_pc' = [push_pc EXCEPT ![p] = "idle"]
    /\ UNCHANGED <<lists, allocated, content, push_q, push_item, sent, pulls, flushed>>

semaphore_signal(p) ==
    /\ push_pc[p] = "signal"
    /\ sem' = [sem EXCEPT ![push_q[p]] = @ + 1]
    /\ push_pc' = [push_pc EXCEPT ![p] = "idle"]
    /\ UNCHANGED <<lists, allocated, content, push_q, push_item, sent, pulls, flushed>>

-----------------------------------------------------------------------------
(* __pull.                                                                 *)

(* Mutant: the consumer does not wait.                                     *)
semaphore_wait_Never(q) ==
    /\ pull_pc[q] = "wait"
    /\ sem' = [sem EXCEPT ![q] = @ - 1]
    /\ pull_pc' = [pull_pc EXCEPT ![q] = "extract"]
    /\ UNCHANGED <<lists, allocated, content, pushes, pull_item, got, flushed>>

semaphore_wait(q) ==
    /\ pull_pc[q] = "wait"
    /\ sem[q] > 0
    /\ sem' = [sem EXCEPT ![q] = @ - 1]
    /\ pull_pc' = [pull_pc EXCEPT ![q] = "extract"]
    /\ UNCHANGED <<lists, allocated, content, pushes, pull_item, got, flushed>>

(* Mutant: the entry is recycled before it is copied.                      *)
queue_msg_extract_Recycles(q) ==
    /\ pull_pc[q] = "extract"
    /\ list[q] # <<>>
    /\ list' = [list EXCEPT ![q] = Tail(@)]
    /\ no' = [no EXCEPT ![q] = @ - 1]
    /\ unused' = Append(unused, Head(list[q]))
    /\ pull_item' = [pull_item EXCEPT ![q] = Head(list[q])]
    /\ pull_pc' = [pull_pc EXCEPT ![q] = "copy"]
    /\ UNCHANGED <<sem, allocated, content, pushes, got, flushed>>

queue_msg_extract(q) ==
    /\ pull_pc[q] = "extract"
    /\ list[q] # <<>>
    /\ list' = [list EXCEPT ![q] = Tail(@)]
    /\ no' = [no EXCEPT ![q] = @ - 1]
    /\ pull_item' = [pull_item EXCEPT ![q] = Head(list[q])]
    /\ pull_pc' = [pull_pc EXCEPT ![q] = "copy"]
    /\ UNCHANGED <<sem, unused, allocated, content, pushes, got, flushed>>

(* A flush came in between: the pull fails without having waited.          *)
ExtractNothing(q) ==
    /\ pull_pc[q] = "extract"
    /\ list[q] = <<>>
    /\ pull_pc' = [pull_pc EXCEPT ![q] = "wait"]
    /\ UNCHANGED <<lists, sem, allocated, content, pushes, pull_item, got, flushed>>

CopyMsg(q) ==
    /\ pull_pc[q] = "copy"
    /\ got' = [got EXCEPT ![q] = Append(@, content[pull_item[q]])]
    /\ pull_pc' = [pull_pc EXCEPT ![q] = "reset"]
    /\ UNCHANGED <<lists, sem, allocated, content, pushes, pull_item, flushed>>

(* queue_msg_recycle: the content is erased, then the entry linked among   *)
(* the unused ones.                                                        *)
Reset(q) ==
    /\ pull_pc[q] = "reset"
    /\ content' = [content EXCEPT ![pull_item[q]] = NoMsg]
    /\ pull_pc' = [pull_pc EXCEPT ![q] = "recycle"]
    /\ UNCHANGED <<lists, sem, allocated, pushes, pull_item, got, flushed>>

queue_msg_recycle(q) ==
    /\ pull_pc[q] = "recycle"
    /\ unused' = Append(unused, pull_item[q])
    /\ pull_item' = [pull_item EXCEPT ![q] = NoEntry]
    /\ pull_pc' = [pull_pc EXCEPT ![q] = "wait"]
    /\ UNCHANGED <<list, no, sem, allocated, content, pushes, got, flushed>>

-----------------------------------------------------------------------------
(* __flush: the list's mutex is held while its entries are recycled; the   *)
(* semaphore is emptied afterwards.                                        *)

Elems(s) == {s[i] : i \in DOMAIN s}
Linked(q) == Elems(list[q])

(* Mutant: the entries are recycled and stay linked.                       *)
queue_msg_list_flush_StaysLinked(q) ==
    /\ ~flushing[q]
    /\ flushes < MaxFlush
    /\ flushes' = flushes + 1
    /\ flushing' = [flushing EXCEPT ![q] = TRUE]
    /\ unused' = unused \o list[q]
    /\ content' = [e \in Entry |-> IF e \in Linked(q) THEN NoMsg ELSE content[e]]
    /\ UNCHANGED <<list, no, sem, allocated, pushes, pulls>>

queue_msg_list_flush(q) ==
    /\ ~flushing[q]
    /\ flushes < MaxFlush
    /\ flushes' = flushes + 1
    /\ flushing' = [flushing EXCEPT ![q] = TRUE]
    /\ list' = [list EXCEPT ![q] = <<>>]
    /\ no' = [no EXCEPT ![q] = 0]
    /\ unused' = unused \o list[q]
    /\ content' = [e \in Entry |-> IF e \in Linked(q) THEN NoMsg ELSE content[e]]
    /\ UNCHANGED <<sem, allocated, pushes, pulls>>

semaphore_flush(q) ==
    /\ flushing[q]
    /\ sem' = [sem EXCEPT ![q] = 0]
    /\ flushing' = [flushing EXCEPT ![q] = FALSE]
    /\ UNCHANGED <<lists, allocated, content, pushes, pulls, flushes>>

-----------------------------------------------------------------------------
Push(p) ==
    \/ \E q \in Queue : Reuse(p, q) \/ Allocate(p, q)
    \/ PushFails(p)
    \/ Fill(p)
    \/ queue_msg_insert(p)
    \/ semaphore_signal(p)

Pull(q) ==
    \/ semaphore_wait(q)
    \/ queue_msg_extract(q)
    \/ ExtractNothing(q)
    \/ CopyMsg(q)
    \/ Reset(q)
    \/ queue_msg_recycle(q)

Flush(q) == queue_msg_list_flush(q) \/ semaphore_flush(q)

QueueNext ==
    \/ \E p \in Producer : Push(p)
    \/ \E q \in Queue : Pull(q) \/ Flush(q)

QueueSpec == QueueInit /\ [][QueueNext]_qvars

(* A thread that is in a push or in a pull is scheduled until its end.     *)
QueueFairness ==
    /\ \A p \in Producer : WF_qvars(Fill(p) \/ queue_msg_insert(p) \/ semaphore_signal(p))
    /\ \A q \in Queue : WF_qvars(Pull(q))

FairQueueSpec == QueueSpec /\ QueueFairness

-----------------------------------------------------------------------------
(* No entry is in two places at once, whichever threads push, pull and     *)
(* flush meanwhile: a recycled entry that another push fills is in no list *)
(* and in nobody's hand, and none is lost.  This is what makes the         *)
(* unlocked accesses to its content safe.                                  *)
Unused == Elems(unused)
Pushed == {push_item[p] : p \in Producer} \ {NoEntry}
Pulled == {pull_item[q] : q \in Queue} \ {NoEntry}
Injective(s) == \A i, j \in DOMAIN s : s[i] = s[j] => i = j

EntryHeldOnce ==
    /\ Injective(unused)
    /\ \A q \in Queue : Injective(list[q])
    /\ \A q, r \in Queue : q # r => Linked(q) \cap Linked(r) = {}
    /\ \A q \in Queue : Linked(q) \cap (Unused \cup Pushed \cup Pulled) = {}
    /\ \A p, r \in Producer : push_item[p] = push_item[r] => p = r \/ push_item[p] = NoEntry
    /\ \A q, r \in Queue : pull_item[q] = pull_item[r] => q = r \/ pull_item[q] = NoEntry
    /\ Pushed \cap Pulled = {} /\ Pushed \cap Unused = {} /\ Pulled \cap Unused = {}
    /\ \A e \in Entry : e \in allocated <=>
           e \in Unused \cup Pushed \cup Pulled \/ \E q \in Queue : e \in Linked(q)

(* What makes EntryHeldOnce inductive, and the content of a waiting entry  *)
(* a message: a thread has an entry in hand between taking and releasing   *)
(* it, the counter is the length, and an entry is linked once filled.      *)
InHand ==
    /\ \A p \in Producer : push_item[p] # NoEntry <=> push_pc[p] \in {"fill", "insert"}
    /\ \A q \in Queue : pull_item[q] # NoEntry <=> pull_pc[q] \in {"copy", "reset", "recycle"}
    /\ \A p \in Producer : push_pc[p] # "idle" => sent[p] > 0
Counted == \A q \in Queue : no[q] = Len(list[q])
Filled ==
    /\ \A q \in Queue : \A e \in Linked(q) : content[e] \in Msg
    /\ \A p \in Producer : push_pc[p] = "insert" => content[push_item[p]] \in Msg
    /\ \A q \in Queue : pull_pc[q] = "copy" => content[pull_item[q]] \in Msg

QueueInv == QueueTypeOK /\ EntryHeldOnce /\ InHand /\ Counted /\ Filled

(* The semaphore and the list agree up to the threads between the two: the *)
(* consumer that got a token finds an entry, and an entry has a token or   *)
(* one about to be given.  A racing flush breaks this, so it is stated as  *)
(* long as no queue was flushed.                                           *)
Signalling(q) == {p \in Producer : push_pc[p] = "signal" /\ push_q[p] = q}
TokenTaken(q) == IF pull_pc[q] = "extract" THEN 1 ELSE 0

TokenPerMessage ==
    flushes = 0 =>
        \A q \in Queue : sem[q] + Cardinality(Signalling(q)) + TokenTaken(q) = Len(list[q])

(* What makes TokenPerMessage inductive: a flush is counted when it begins.  *)
FlushCounted == flushes = 0 => \A q \in Queue : ~flushing[q]

(* A push takes effect when its entry is linked, a pull when it unlinks    *)
(* one.                                                                    *)
Contents(s, c) == [i \in 1 .. Len(s) |-> c[s[i]]]
Waiting == [q \in Queue |-> Contents(list[q], content)]
Pulls == [q \in Queue |-> IF pull_pc[q] = "copy" THEN Append(got[q], content[pull_item[q]])
                                                 ELSE got[q]]
Channels == INSTANCE Fifo WITH chan <- Waiting, out <- Pulls

(* The queues are FIFOs: with the entries reused and their contents        *)
(* written and read outside any lock, what a pull copies is still what was *)
(* pushed, once and in order.                                              *)
ImplementsFifo == Channels!FifoSpec

(* Every message that was linked is obtained by the consumer, unless a     *)
(* queue is flushed.                                                       *)
Linking(m) == \E q \in Queue : \E e \in Linked(q) : content[e] = m
Obtained(m) == \E q \in Queue : \E i \in DOMAIN got[q] : got[q][i] = m
MessagesDelivered == \A m \in Msg : Linking(m) ~> (Obtained(m) \/ flushes > 0)
=============================================================================
