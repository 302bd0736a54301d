---------------------------- MODULE VirtualDisk ----------------------------
(***************************************************************************)
(* What libvdisk promises to the block layer above it, for any container   *)
(* format (lib/vdisk/include/vdisk.h): a fresh disk reads as zeros, a      *)
(* write changes the sectors it covers, from the first to the last, and    *)
(* nothing else, and one that fails has written a prefix of them.          *)
(***************************************************************************)
EXTENDS Integers

CONSTANTS Sectors,   \* sector addresses, 0 .. n - 1
          Values,    \* contents a caller writes to a sector
          Zero       \* content of a sector never written

VARIABLES content,   \* what a read of each sector returns
          pending    \* what is left of the write in progress

NoWrite == [off |-> 0, end |-> 0, val |-> Zero]

Init ==
    /\ content = [a \in Sectors |-> Zero]
    /\ pending = NoWrite

\* vdisk_write, up to its first change
Begin ==
    /\ pending = NoWrite
    /\ \E off \in Sectors, last \in Sectors, v \in Values :
          /\ off <= last
          /\ pending' = [off |-> off, end |-> last + 1, val |-> v]
    /\ UNCHANGED content

\* The next stretch of the write reaches the disk; the write returns after the last.
Put ==
    /\ \E n \in 1 .. pending.end - pending.off :
          /\ content' = [a \in Sectors |->
                            IF a >= pending.off /\ a < pending.off + n THEN pending.val
                            ELSE content[a]]
          /\ pending' = IF pending.off + n = pending.end THEN NoWrite
                        ELSE [pending EXCEPT !.off = @ + n]

\* The write fails; what it has not reached stays as it was.
Fail ==
    /\ pending # NoWrite
    /\ pending' = NoWrite
    /\ UNCHANGED content

\* vdisk_create over the image
Recreate ==
    /\ pending = NoWrite
    /\ content' = [a \in Sectors |-> Zero]
    /\ UNCHANGED pending

Next == Begin \/ Put \/ Fail \/ Recreate
Spec == Init /\ [][Next]_<<content, pending>>
==============================================================================
