----------------------------- MODULE MCDevices -----------------------------
(***************************************************************************)
(* Instances of Devices: a blank raw image and a VMDK image with an MBR,   *)
(* one primary partition and two logical ones.                             *)
(***************************************************************************)
EXTENDS Devices

MCFormat == [i \in Images |-> IF i = "disk.img" THEN "raw" ELSE "vmdk"]

A == <<"a", <<>>>>
B == <<"b", <<>>>>
MCDisks == {A, B}
MCParts == {<<"a", <<1>>>>}
MCHostFiles == {[at |-> 0, len |-> 2]}

Part(t, a, c) == [type |-> t, lba |-> a, count |-> c]
NoPart == Part("none", 0, 0)

\* Sector 0: a partition at 2 and an extended one at 4.  The EBR at 4 holds a
\* partition one sector further and the link to the EBR at 6, whose partition
\* reaches to the last sector: beyond the end of the smaller disk create makes.
MbrDisk ==
    [a \in 0 .. MaxLba - 1 |->
       CASE a = 0 -> Mbr(<<Part("data", 2, 2), Part("ext", 4, 4), NoPart, NoPart>>)
         [] a = 4 -> Mbr(<<Part("data", 1, 1), Part("ext", 2, 2)>>)
         [] a = 6 -> Mbr(<<Part("data", 1, 2), NoPart>>)
         [] OTHER -> Blank]
BlankDisk == [a \in 0 .. MaxLba - 1 |-> Blank]

MCMedia == [i \in Images |-> IF i = "disk.img" THEN BlankDisk ELSE MbrDisk]
MCMediaSize == [i \in Images |-> MaxLba]

None == [unit |-> "none", n |-> 0]
Amount(u, k) == [unit |-> u, n |-> k]

\* The upper half, two sectors from the first on, one byte at sector 4.
MCRequests ==
    {[start |-> Amount("%", 50), end |-> Amount("%", 100), size |-> None],
     [start |-> Amount("s", 1), end |-> None, size |-> Amount("s", 2)],
     [start |-> Amount("b", 9), end |-> None, size |-> Amount("b", 1)]}

====
