----------------------------- MODULE MCWaitQueue -----------------------------
(* Instances of WaitQueue for TLC. *)
EXTENDS WaitQueue, TLC

CONSTANTS t1, t2, t3, t4, bh_wait, inode_wait, wait_for_request, proc_list

ThreeTasks == {t1, t2, t3}
TaskSymmetry == Permutations(ThreeTasks)
TwoTasks == {t1, t2}
=============================================================================
