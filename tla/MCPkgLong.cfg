\* A status file longer than vfs_read reaches.
SPECIFICATION Spec
CONSTANTS
    Packages <- MCPackages
    Triggers <- MCTriggers
    PathTriggers = {"/usr"}
    Diversions = {"/lib64"}
    Preinst <- MCPreinst
    Interests <- MCInterests
    Activates <- MCActivates
    Postinst <- MCPostinst
    Control <- MCControl
    Signed <- MCSigned
    Opaque = {}
    Libs = {"libc6", "foo"}
    Long = {"libc6"}
    LdTrigger = "ldconfig"
    Consumer = "libc-bin"
    ReadLimit = 2
    MaxStanzas = 3
    MaxLosses = 0
PROPERTIES StanzasSurvive
