----------------------------- MODULE TreeStore -----------------------------
(***************************************************************************)
(* What the treehugger promises its users: each of them asks for a set of  *)
(* changes, and at one instant all of them are in the tree, next to what   *)
(* the others have put there; a flush saves the tree of one instant at     *)
(* which nobody is half way.  For the metadata of an inode the change with *)
(* the later ctime is the one that stays.                                  *)
(***************************************************************************)
EXTENDS Naturals

CONSTANTS Users, IsMeta(_)

VARIABLES tree,   \* the content every new reader sees
          want,   \* per user: the changes it has asked for, <<>> for none
          saved,  \* the content of the last flush
          durable \* the content a restart finds

storeVars == <<tree, want, saved, durable>>

Wins(k, v) == (IsMeta(k) /\ k \in DOMAIN tree) => v.ctime > tree[k].ctime

Applied(d) ==
  [k \in DOMAIN tree \cup DOMAIN d |->
     IF k \in DOMAIN d /\ Wins(k, d[k]) THEN d[k] ELSE tree[k]]

Ask(u) ==
  /\ want[u] = <<>>
  /\ want' = [want EXCEPT ![u] = want'[u]]
  /\ UNCHANGED <<tree, saved, durable>>

Commit(u) ==
  /\ want[u] # <<>>
  /\ tree' = Applied(want[u])
  /\ want' = [want EXCEPT ![u] = <<>>]
  /\ UNCHANGED <<saved, durable>>

(* A user may withdraw what it asked for, to ask again.                    *)
Withdraw(u) ==
  /\ want' = [want EXCEPT ![u] = <<>>]
  /\ UNCHANGED <<tree, saved, durable>>

Save ==
  /\ \A u \in Users : want[u] = <<>>
  /\ saved' = tree
  /\ UNCHANGED <<tree, want, durable>>

Persist == durable' = saved /\ UNCHANGED <<tree, want, saved>>

Next ==
  \/ \E u \in Users : Ask(u) \/ Commit(u) \/ Withdraw(u)
  \/ Save
  \/ Persist

Init ==
  /\ saved = tree
  /\ durable = tree
  /\ want = [u \in Users |-> <<>>]

Spec == Init /\ [][Next]_storeVars
=============================================================================
