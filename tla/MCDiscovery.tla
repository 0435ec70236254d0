---------------------------- MODULE MCDiscovery ----------------------------
(* An instance of Discovery for TLC.                                        *)
EXTENDS Discovery, TLC

CONSTANTS top1, sub1, far1, proc1,                               \* directories
          big1, big2, tiny1,                                     \* files
          in_sub, in_big, in_back, in_copy, in_far, in_dot, in_proc,   \* names
          arg_top, arg_sub, arg_far, arg_big, arg_link, arg_proc,         \* paths
          pat_big, pat_copy, pat_sub                             \* patterns

(* top1 holds the directory sub1, the mount point far1 and a file; sub1      *)
(* holds a symbolic link and a file; far1 is on another device and holds a   *)
(* hidden file; proc1 is on a pseudo file system and holds a file.           *)
TreeParent ==
    (in_sub :> top1) @@ (in_big :> top1) @@ (in_far :> top1)
      @@ (in_back :> sub1) @@ (in_copy :> sub1) @@ (in_dot :> far1) @@ (in_proc :> proc1)

Fixed ==
    (in_sub :> sub1) @@ (in_big :> big1) @@ (in_dot :> big2) @@ (in_proc :> big2)
      @@ (arg_top :> top1) @@ (arg_sub :> sub1) @@ (arg_far :> far1) @@ (arg_big :> big1)
      @@ (arg_link :> top1) @@ (arg_proc :> proc1)

(* The link leads back to the top, nowhere, or to a FIFO; the file in sub1   *)
(* is a hard link of the one in top1, or a small file; below top1 another    *)
(* device is mounted, or a pseudo file system.                               *)
Looped   == Fixed @@ (in_back :> top1) @@ (in_copy :> big1) @@ (in_far :> far1)
Dangling == Fixed @@ (in_back :> Gone) @@ (in_copy :> tiny1) @@ (in_far :> far1)
Virtual  == Fixed @@ (in_back :> Special) @@ (in_copy :> big1) @@ (in_far :> proc1)

TreeDevice == [d \in Dirs |-> CASE d = far1 -> 2 [] d = proc1 -> 3 [] OTHER -> 1]

NamesMatching == (pat_big :> {in_big, in_dot}) @@ (pat_copy :> {in_copy}) @@ (pat_sub :> {in_sub})

Plain(p) == [glob |-> FALSE, paths |-> <<p>>]
Glob(ps) == [glob |-> TRUE, paths |-> ps]
Option(follow, oneFs, hidden, include, exclude) ==
    [follow |-> follow, oneFs |-> oneFs, hidden |-> hidden, include |-> include, exclude |-> exclude]
Scenario(tree, args, opts) == [target |-> tree, inputs |-> args, options |-> opts, opaque |-> {}]
Opaque(s) == [s EXCEPT !.opaque = PseudoDirs]

Anything  == Option(FALSE, FALSE, TRUE, <<>>, <<>>)
Following == Option(TRUE, FALSE, TRUE, <<>>, <<>>)
OneDevice == Option(FALSE, TRUE, TRUE, <<>>, <<>>)

(* Overlapping trees, links in cycles, a device mounted below the argument,  *)
(* files, links and pseudo file systems as arguments, with and without a     *)
(* statfs() that works, a pattern without a match, lists with one, two and   *)
(* empty patterns.                                                           *)
Runs ==
    {Scenario(Looped, <<Plain(arg_sub), Plain(arg_top)>>, Anything),
     Scenario(Looped, <<Plain(arg_sub), Plain(arg_link)>>, Following),
     Scenario(Dangling, <<Plain(arg_top)>>, Following),
     Scenario(Looped, <<Glob(<<arg_top>>)>>, OneDevice),
     Scenario(Looped, <<Glob(<<arg_far>>)>>, OneDevice),
     Scenario(Virtual, <<Plain(arg_big), Plain(arg_link), Plain(arg_proc), Plain(arg_top)>>, Anything),
     Opaque(Scenario(Virtual, <<Plain(arg_top)>>, Anything)),
     Opaque(Scenario(Virtual, <<Glob(<<arg_proc, arg_sub>>)>>, Anything)),
     Scenario(Virtual, <<Plain(arg_sub)>>, Following),
     Scenario(Looped, <<Plain(arg_top), Glob(<<>>)>>, Option(FALSE, FALSE, FALSE, <<pat_big, Newline, pat_copy>>, <<>>)),
     Scenario(Looped, <<Plain(arg_top)>>, Option(FALSE, FALSE, TRUE, <<>>, <<pat_big, Newline, pat_sub>>)),
     Scenario(Looped, <<Plain(arg_top)>>, Option(FALSE, FALSE, TRUE, <<Newline>>, <<pat_sub>>))}

(* Arguments on two devices. *)
TwoDevices == {Scenario(Looped, <<Plain(arg_far), Plain(arg_top)>>, OneDevice)}
=============================================================================
