SPECIFICATION BenchSpec
CONSTANTS
    Jobs <- PixelsOnly
    Operands = {15, 102}
    Roms <- AllRoms
    Nibbles = {12, 13, 14, 15}
    ClockBytes = {0, 255}
    MaxIrqs = 258
    LastAddress = 49407
    CURSOR_HOME_X = 1
    CURSOR_HOME_Y = 1
    CURSOR_MAX_X = 2
    CURSOR_MAX_Y = 2
    SCRIPT_FRAME_COUNT = 5
    Presses <- SmokePresses
    Symbols <- MCSymbols
    Program <- MCProgram
    max_frames_per_commit = 2
    BootFrames = 1
    BootromPresent = TRUE
    HeldButtons <- MCButtons
    FlagValues = {}
    LastFrame = 4
    compare_fields <- MCFields
    DutTraces <- MCTraces
    commit_limit = 2
    CollectLimit = 2
    window_radius = 1
    MaxCalls = 6
    OAM_LAST_DOT = 2
    TRANSFER_LAST_DOT = 4
    LINE_LAST_DOT = 7
    VISIBLE_LINES = 2
    TOTAL_LINES = 4
    LycValues = {1, 2}
    Selections <- MCSelections
    WARMUP_HOLD_LAST_DOT = 1
    WARMUP_TRANSFER_LAST_DOT = 3
    WARMUP_LINE_LAST_DOT = 5
    LCD_OFF_LAST_DOT = 0
    TransferEnds = {4, 5}
    PageBytes = 2
    Touched <- MCTouched
    WrittenBytes = {3}
    DmaPages <- MCPages
    MaxTicks = 4
    TickSettings <- MCTickSettings
    HalfCount = 4
    SCREEN_WIDTH = 18
    SCREEN_HEIGHT = 3
    OAM_ENTRIES = 3
    MAX_LINE_OBJS = 2
    DIFF_LIMIT = 2
    VramByte <- MCVram
    Scenes <- ScrollingScenes
    TotalPixels = 5
    FramePixels = 5
    TxHalves = 4
    SleepOut = 1
    Ticks = 2
    InitData <- MCInitData
    FrameData <- MCFrameData
PROPERTY
    ScyReadLive
CHECK_DEADLOCK FALSE
