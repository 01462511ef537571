SPECIFICATION Spec
CONSTANTS
    None = None
    t1 = t1
    t2 = t2
    u1 = u1
    Models <- MCModels
    Catalog <- MCCatalog
    OsStatus <- MCOsStatus
    Prerequisites <- MCPrerequisites
    Sorted <- MCSorted
    Kexts <- MCKexts
    KextNames <- MCKextNames
    SmcNamed = {"smcbatterymanager", "smcprocessor", "smcsuperio"}
    Options <- MCOptions
    Defaults = {"profile.graphics", "profile.audio"}
    Releases <- MCReleases
    Reviewed <- MCReviewed
    Policy = "policy"
    Tools = {"iasl", "macserial"}
    ToolFaults = {"interrupt", "rollback"}
    b1 = b1
    b2 = b2
    Builders = {b1, b2}
    Snapshots <- MCSnapshots
    Cases <- MCCases
    Captures = {"u", "c", "d"}
    Identities = {"i"}
    Tables = {t1, t2}
    ToolLosses = {"none"}
    MaxChanges = 2
INVARIANTS
    TypeOK
    PublishedVetted
    
    BindingTruthful
    ToolsRestored
PROPERTY OutputStays
SYMMETRY Alike
