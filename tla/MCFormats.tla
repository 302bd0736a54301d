----------------------------- MODULE MCFormats -----------------------------
(***************************************************************************)
(* Volumes around the sizes at which the FAT type and the size of a FAT    *)
(* change, one where a FAT of 16 bits does not fit its length field, and   *)
(* NTFS volumes just below and above the least that fits.                  *)
(***************************************************************************)
EXTENDS Formats

Volume(base, size, host) == [base |-> base, size |-> size, host |-> host]
FatOption(spc, type, at) == [spc |-> spc, type |-> type, at |-> at]
NtfsOption(bps, spc, mft, mirr, at) == [bps |-> bps, spc |-> spc, mft |-> mft, mirr |-> mirr, at |-> at]

MCVolumes ==
    {Volume(0, n, n) : n \in {99, 100, 223, 224, 448, 1397, 1400, 32767, 32768, 1048576, 16777300}}
    \cup {Volume(63, n, 2000) : n \in {224, 230, 1936, 1937}}
MCFatOptions == {FatOption(0, -1, 0), FatOption(1, 12, 0), FatOption(1, 16, 0), FatOption(1, 32, 0), FatOption(0, 16, 8)}
MCNtfsOptions ==
    {NtfsOption(512, 8, 4, 8, 0), NtfsOption(512, 8, 2, 6, 0), NtfsOption(512, 8, 1, 8, 0),
     NtfsOption(512, 16, 4, 8, 0), NtfsOption(1024, 4, 4, 8, 0), NtfsOption(512, 1, 4, 40, 0),
     NtfsOption(512, 2, 4, 20, 0), NtfsOption(2048, 2, 4, 8, 0), NtfsOption(512, 8, 8, 8, 0),
     NtfsOption(512, 4, 4, 8, 0), NtfsOption(512, 8, 4, 8, 8)}

============================================================================
