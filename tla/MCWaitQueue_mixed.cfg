SPECIFICATION Spec
CONSTANTS
    t1 = t1  t2 = t2  t3 = t3  t4 = t4
    bh_wait = bh_wait  inode_wait = inode_wait
    wait_for_request = wait_for_request  proc_list = proc_list
    Task = {t1, t2, t3}
    Idle = Idle
    NULL = NULL
    SChan = {bh_wait}
    IChan = {proc_list}
    IrqChan = {bh_wait, proc_list}
    OpenChan = {}
    TestChan = {}
INVARIANT NoLostUninterruptible
