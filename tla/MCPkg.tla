------------------------------- MODULE MCPkg -------------------------------
(***************************************************************************)
(* Packages for TLC, after the ones the repository's tests configure:      *)
(* libc6 registers a diversion in its preinst, activates ldconfig and      *)
(* queues libc-upgrade in its postinst, and its library is longer than     *)
(* vfs_read reaches; libc-bin processes ldconfig; foo ships a library and  *)
(* shares an interest in a path with libc-bin.                             *)
(***************************************************************************)
EXTENDS Pkg, TLC

MCPackages == {"libc6", "libc-bin", "foo"}
MCTriggers == {"ldconfig", "libc-upgrade", "/usr"}
MCPreinst == [p \in MCPackages |-> IF p = "libc6" THEN {"/lib64"} ELSE {}]
MCInterests == ("libc6" :> {}) @@ ("libc-bin" :> {"ldconfig", "/usr"}) @@ ("foo" :> {"/usr"})
MCActivates == [p \in MCPackages |-> IF p = "libc-bin" THEN {} ELSE {"ldconfig"}]
MCPostinst == [p \in MCPackages |-> IF p = "libc6" THEN {"libc-upgrade"} ELSE {}]
MCControl == ("libc6" :> {"postinst", "triggers"}) @@
             ("libc-bin" :> {"triggers"}) @@ ("foo" :> {"triggers"})
MCSigned == [p \in MCPackages |-> IF p = "libc6" THEN {"postinst"} ELSE {}]
==============================================================================
