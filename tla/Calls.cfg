SPECIFICATION CallsSpec
CONSTANTS
    Words = 21
    Imms = 12
    Offset = 2
    LibrarySyms <- MCLibrary
    GLSyms = {"glMapBuffer"}
    GLFunction <- MCGLFunction
    VkSyms <- MCVk
    JniSyms = {"FindClass", "NewObject", "AttachCurrentThread"}
    SideEffects = {"FindClass"}
    Own = {"vkCreateInstance", "vkGetDeviceProcAddr"}
    OwnDevice = {}
    Global = {"vkCreateInstance"}
    DeviceLevel = {"vkQueueSubmit", "vkGetDeviceProcAddr"}
    Threads = {main, t1}
    Main = main
    LoadThreads = {t1}
    Devices = {d1, d2}
    Asks <- MCAsks
    Calls = {"glMapBuffer", "vkQueueSubmit", "vkGetDeviceProcAddr"}
    None = None
    Z_NULL = Null
    NumX = 3
    HostInt = 1
    NumV = 1
    MaxArgs = 6
    SaveX = 8
    SaveV = 8
    BufferSlots = 16
    MaxReads = 20
    Streams = {s1, s2}
    Pairs = {f1, f2}
    Opaques = {o1}
    MaxBlocks = 2
    MaxInits = 3
    Callers = {c1, c2}
    HostAnswers <- MCHostAnswers
    GuestHints <- MCGuestHints
    MaxAnswer = 2
CONSTRAINT MCOneApi
SYMMETRY MCSymmetry
INVARIANTS
    RoutesExact CallsReach ReferencesLive
    ArgumentsExact ReadsExact AllocatorsExact AnswersExact
CHECK_DEADLOCK FALSE
