------------------------------ MODULE JobPool ------------------------------
(***************************************************************************)
(* What the two MP4 nodes promise together: the jobs are generated in the  *)
(* order of their ids, each is computed at most once and never comes back, *)
(* and each node may lose one job in its life, the one that jammed it.     *)
(***************************************************************************)
EXTENDS Naturals

CONSTANTS Jobs,     \* the ids, 0 .. number of jobs - 1
          Nodes     \* the nodes, each of which may lose a job

VARIABLES status    \* for each job "new", "pending", "done" or the node
                    \* that lost it

PoolInit == status = [j \in Jobs |-> "new"]

Become(j, old, new) == /\ status[j] = old
                       /\ status' = [status EXCEPT ![j] = new]

Create(j) == /\ Become(j, "new", "pending")
             /\ \A k \in Jobs : k < j => status[k] # "new"

Finish(j) == Become(j, "pending", "done")

Lose(j, n) == /\ Become(j, "pending", n)
              /\ \A k \in Jobs : status[k] # n

PoolNext == \E j \in Jobs : \/ Create(j) \/ Finish(j)
                            \/ \E n \in Nodes : Lose(j, n)

PoolSpec == PoolInit /\ [][PoolNext]_status
=============================================================================
