\* Both walks over small trees; every call the code makes may fail.
CONSTANTS
    top1 = top1
    sub1 = sub1
    far1 = far1
    proc1 = proc1
    big1 = big1
    big2 = big2
    tiny1 = tiny1
    in_sub = in_sub
    in_big = in_big
    in_back = in_back
    in_copy = in_copy
    in_far = in_far
    in_dot = in_dot
    in_proc = in_proc
    arg_top = arg_top
    arg_sub = arg_sub
    arg_far = arg_far
    arg_big = arg_big
    arg_link = arg_link
    arg_proc = arg_proc
    pat_big = pat_big
    pat_copy = pat_copy
    pat_sub = pat_sub
    Dirs = {top1, sub1, far1, proc1}
    Regs = {big1, big2, tiny1}
    Gone = Gone
    Special = Special
    Names = {in_sub, in_big, in_back, in_copy, in_far, in_dot, in_proc}
    Paths = {arg_top, arg_sub, arg_far, arg_big, arg_link, arg_proc}
    Parent <- TreeParent
    Symlinks = {in_back, arg_link}
    HiddenNames = {in_dot}
    Device <- TreeDevice
    PseudoDirs = {proc1}
    SmallFiles = {tiny1}
    Newline = Newline
    Matching <- NamesMatching
    Scenarios <- Runs
    Workers = {w1, w2}
    None = None
    Faults = {"stat", "open", "readdir", "memory", "glob", "walk", "signal"}
SPECIFICATION FairSpec
INVARIANTS TypeOK SequentialListsOnce ParallelListsPerPath MissingFilesAreExplained
PROPERTIES FindsWhatIsWanted DiscoveryEnds
