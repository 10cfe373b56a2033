------------------------------- MODULE Hugger -------------------------------
(***************************************************************************)
(* The treehugger (ibtree/hugger): the current root of the tree, the       *)
(* transactions open on it, and the flush that names the root in storage.  *)
(*                                                                         *)
(* A transaction remembers the root it started from and commits by         *)
(* compare-and-swap of the root pointer, without a lock.  The model keeps, *)
(* in place of pointers, one bit per open transaction: whether the root is *)
(* still the one it started from.  A process keeps its open transactions   *)
(* on a stack, since a failed commit opens another one, into which the     *)
(* change is merged, before the first is closed.                           *)
(*                                                                         *)
(* The module has the state and the steps of one process; the module that  *)
(* composes it says which processes there are and where a step leaves      *)
(* them (the argument next).                                               *)
(***************************************************************************)
EXTENDS Merge, FileData, FiniteSets

CONSTANTS Procs,    \* goroutines that use the tree
          None      \* nobody (a free lock)

VARIABLES root,      \* Hugger.root: the content of the current tree
          oldRoot,   \* Hugger.oldRoot: the content at the last flush
          named,     \* the tree storage holds under RootName
          durable,   \* the tree the backend holds under RootName
          trs,       \* open transactions of each process, a stack
          flushing,  \* Hugger.flushing
          retryLock, \* the owner of transactionRetryLock
          closedWait,\* processes waiting for transactionClosed, in order
          blocks,    \* Hugger.blocks: blocks held for the transactions
          pc         \* where each process is

huggerVars == <<root, oldRoot, named, durable, trs, flushing, retryLock, closedWait, blocks>>

\* A process's transactions, innermost last.
Last(s) == s[Len(s)]
Front(s) == SubSeq(s, 1, Len(s) - 1)

Top(p) == Last(trs[p])

NoTransactions == \A p \in Procs : trs[p] = <<>>

(* newTransaction: the stack of p with a transaction on the current root   *)
(* that has changed it to tree.  GetTransaction waits while a flush is     *)
(* pending; GetNestableTransaction does not.                               *)
newTransaction(p, tree) ==
  Append(trs[p], [src |-> root, dst |-> tree, fresh |-> TRUE])

GetTransaction(p, tree) ==
  /\ ~flushing
  /\ trs' = [trs EXCEPT ![p] = newTransaction(p, tree)]

GetNestableTransaction(p, tree) ==
  trs' = [trs EXCEPT ![p] = newTransaction(p, tree)]

(* SetIfEqualTo: the root becomes that of the transaction, and no open     *)
(* transaction starts from the current root any more.                      *)
SetIfEqualToMut(p) ==
  /\ root' = Top(p).dst
  /\ trs' = [q \in Procs |->
               [i \in DOMAIN trs[q] |-> [trs[q][i] EXCEPT !.fresh = FALSE]]]

SetIfEqualTo(p) ==
  /\ Top(p).fresh
  /\ root' = Top(p).dst
  /\ trs' = [q \in Procs |->
               [i \in DOMAIN trs[q] |-> [trs[q][i] EXCEPT !.fresh = FALSE]]]

(* commit, when it succeeds: nothing was changed, or the swap does it.  A  *)
(* closed transaction is not committed (the code panics).                  *)
CommitSucceeds(p) ==
  /\ trs[p] # <<>>
  /\ IF Top(p).dst = Top(p).src THEN UNCHANGED <<root, trs>> ELSE SetIfEqualTo(p)

CommitFails(p) ==
  /\ trs[p] # <<>>
  /\ Top(p).dst # Top(p).src
  /\ ~Top(p).fresh
  /\ UNCHANGED <<root, trs>>

(* CommitUntilSucceeds: at the first failure take transactionRetryLock;    *)
(* then merge the change into a new transaction and commit that one.       *)
CommitUntilSucceeds(p, next) ==
  \/ /\ CommitSucceeds(p)
     /\ pc' = [pc EXCEPT ![p] = next]
     /\ UNCHANGED <<oldRoot, named, durable, flushing, retryLock, closedWait, blocks>>
  \/ /\ CommitFails(p)
     /\ pc' = [pc EXCEPT ![p] = "merge"]
     /\ UNCHANGED <<oldRoot, named, durable, flushing, retryLock, closedWait, blocks>>

MergeAndRetryMut(p) ==
  /\ pc[p] = "merge"
  /\ retryLock \in {None, p}
  /\ retryLock' = p
  /\ GetNestableTransaction(p, MergeTo3(root, root, Top(p).dst, TRUE))
  /\ pc' = [pc EXCEPT ![p] = "commit"]
  /\ UNCHANGED <<root, oldRoot, named, durable, flushing, closedWait, blocks>>

MergeAndRetry(p) ==
  /\ pc[p] = "merge"
  /\ trs[p] # <<>>
  /\ retryLock \in {None, p}
  /\ retryLock' = p
  /\ GetNestableTransaction(p, MergeTo3(root, Top(p).src, Top(p).dst, TRUE))
  /\ pc' = [pc EXCEPT ![p] = "commit"]
  /\ UNCHANGED <<root, oldRoot, named, durable, flushing, closedWait, blocks>>

(* Update2: run the callback on a nestable transaction, in which it makes  *)
(* tree of the current root; after the first failed commit, run it again   *)
(* with transactionRetryLock held.  The transactions of all the tries stay *)
(* open until the call returns.                                            *)
Update2Try(p, tree) ==
  /\ retryLock' = IF trs[p] = <<>> THEN retryLock ELSE p
  /\ trs[p] # <<>> => retryLock \in {None, p}
  /\ GetNestableTransaction(p, tree)
  /\ UNCHANGED <<root, oldRoot, named, durable, flushing, closedWait, blocks>>

TryCommit(p, done, again) ==
  /\ \/ CommitSucceeds(p) /\ pc' = [pc EXCEPT ![p] = done]
     \/ CommitFails(p) /\ pc' = [pc EXCEPT ![p] = again]
  /\ UNCHANGED <<oldRoot, named, durable, flushing, retryLock, closedWait, blocks>>


Close(p, next) ==
  /\ trs' = [trs EXCEPT ![p] = Front(@)]
  /\ retryLock' = IF retryLock = p /\ Len(trs[p]) <= 2 THEN None ELSE retryLock
  /\ LET wakes == flushing /\ closedWait # <<>>
         moved == IF Len(trs[p]) = 1 THEN [pc EXCEPT ![p] = next] ELSE pc
     IN  /\ closedWait' = IF wakes THEN Tail(closedWait) ELSE closedWait
         /\ pc' = IF wakes THEN [moved EXCEPT ![Head(closedWait)] = "flushCheck"] ELSE moved
  /\ UNCHANGED <<root, oldRoot, named, durable, flushing, blocks>>

(* Flush, with the lock held from the check to the end: name the tree,     *)
(* forget the old root and the temporary blocks, let transactions start.   *)
FlushRootMut(p, next) ==
  /\ flushing' = FALSE
  /\ oldRoot' = root
  /\ named' = root
  /\ blocks' = {}
  /\ pc' = [pc EXCEPT ![p] = next]
  /\ UNCHANGED <<root, durable, trs, retryLock, closedWait>>

FlushRoot(p, next) ==
  /\ NoTransactions
  /\ flushing' = FALSE
  /\ oldRoot' = root
  /\ named' = root
  /\ blocks' = {}
  /\ pc' = [pc EXCEPT ![p] = next]
  /\ UNCHANGED <<root, durable, trs, retryLock, closedWait>>

(* Flush, when transactions are open: wait for one of them to close.  The  *)
(* flag is set once, before the loop that waits.                           *)
FlushWait(p, first) ==
  /\ ~NoTransactions
  /\ flushing' = (first \/ flushing)
  /\ closedWait' = Append(closedWait, p)
  /\ pc' = [pc EXCEPT ![p] = "flushWait"]
  /\ UNCHANGED <<root, oldRoot, named, durable, trs, retryLock, blocks>>

Flush(p, next) == FlushRoot(p, next) \/ FlushWait(p, TRUE)

FlushWoken(p, next) ==
  /\ pc[p] = "flushCheck"
  /\ FlushRoot(p, next) \/ FlushWait(p, FALSE)

(* Storage.Flush as the file system uses it: the name reaches the backend. *)
StorageFlushMut == UNCHANGED durable

StorageFlush == durable' = named

(* GetStorageBlock: a block with this content is held until the next flush.*)
GetStorageBlock(content) == blocks' = blocks \cup {content}

HuggerInit(tree) ==
  /\ root = tree /\ oldRoot = tree /\ named = tree /\ durable = tree
  /\ trs = [p \in Procs |-> <<>>]
  /\ flushing = FALSE
  /\ retryLock = None
  /\ closedWait = <<>>
  /\ blocks = {}
=============================================================================
