\* Commands that stop anywhere; status files that vfs_read can read.
SPECIFICATION Spec
CONSTANTS
    Packages <- MCPackages
    Triggers <- MCTriggers
    PathTriggers = {"/usr"}
    Diversions = {"/lib64"}
    Preinst <- MCPreinst
    Interests <- MCInterests
    Activates <- MCActivates
    Postinst <- MCPostinst
    Control <- MCControl
    Signed <- MCSigned
    Opaque = {}
    Libs = {"libc6", "foo"}
    Long = {"libc6"}
    LdTrigger = "ldconfig"
    Consumer = "libc-bin"
    ReadLimit = 3
    MaxStanzas = 2
    MaxLosses = 1
INVARIANTS RegisteredComplete LibrariesCached
PROPERTIES StanzasSurvive OnlyLdconfigRetired
