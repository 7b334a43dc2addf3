---------------------------- MODULE JoypadSmoke ----------------------------
(***************************************************************************)
(* The joypad demonstration ROM (bench/roms/joypad_bg_smoke.asm) beside    *)
(* the Python model its final frame is compared with                       *)
(* (bench/ref/joypad_bg_smoke.py).  Both move a cursor of two by two tiles *)
(* over a checkerboard, once per frame, by the edges of the buttons.  The  *)
(* ROM keeps its screen as a tile map it repairs and redraws; the model    *)
(* recomputes every pixel from its state.                                  *)
(*                                                                         *)
(* Buttons are names; a mask of four is a set of names.  A tile of the ROM *)
(* is of one colour, so a cell of the screen is the colour of its tile.    *)
(***************************************************************************)
EXTENDS Integers

CONSTANTS
    CURSOR_HOME_X, CURSOR_HOME_Y,   \* where the cursor starts and returns to
    CURSOR_MAX_X, CURSOR_MAX_Y,     \* its last column and row
    SCRIPT_FRAME_COUNT,             \* frames the ROM plays before it passes
    Presses                         \* the sets of buttons that may be held

ASSUME SmokeAssumption ==
    /\ CURSOR_MAX_X \in Nat /\ CURSOR_HOME_X \in 0 .. CURSOR_MAX_X
    /\ CURSOR_MAX_Y \in Nat /\ CURSOR_HOME_Y \in 0 .. CURSOR_MAX_Y

VARIABLES
    wram,     \* the variables of the ROM in work RAM
    bgmap,    \* the tile in each cell the cursor can touch
    rBGP,     \* the palette register
    log,      \* the case the ROM logs when it passes, or none yet
    model     \* the state of the Python model after the same frames

smokeVars == <<wram, bgmap, rBGP, log, model>>

Directions == {"right", "left", "up", "down"}
Buttons == {"a", "b", "select", "start"}
Cells == (0 .. CURSOR_MAX_X + 1) \X (0 .. CURSOR_MAX_Y + 1)
Area(x, y) == {x, x + 1} \X {y, y + 1}

(*********************************** the ROM ******************************)

CURSOR_TILE_BASE == 2
CURSOR_TILE_ALT == 6
PaletteTable == <<228, 210, 57, 27, 27, 57, 210, 228>>

\* The colour of each tile from the two bytes FillTile16 repeats.
TileColour == [tile \in 0 .. 9 |-> <<0, 1, 3, 2, 1, 0, 0, 3, 2, 1>>[tile + 1]]

\* WriteMapTile computes the address in HL and DE: `ld de, $9800` leaves 0 in
\* E, whatever the caller kept there.
E_AFTER_WRITE == 0

FillBackgroundMap == [cell \in Cells |-> (cell[1] + cell[2]) % 2]

\* A slip: the cells of the new position are repaired, not of the previous.
RestoreNewCells(map, w) ==
    [cell \in Cells |->
        IF cell \in Area(w.x, w.y) THEN (cell[1] + cell[2]) % 2 ELSE map[cell]]

\* RestoreBackgroundCell at the four cells of the previous position.
RestoreCursorCells(map, w) ==
    [cell \in Cells |->
        IF cell \in Area(w.prevX, w.prevY) THEN (cell[1] + cell[2]) % 2 ELSE map[cell]]

\* The first cell gets the base tile; the next three count from E, which
\* the first call of WriteMapTile has overwritten.
DrawCursorCells(map, w) ==
    LET base == IF w.style = 0 THEN CURSOR_TILE_BASE ELSE CURSOR_TILE_ALT
    IN  [map EXCEPT ![<<w.x, w.y>>] = base,
                    ![<<w.x + 1, w.y>>] = E_AFTER_WRITE + 1,
                    ![<<w.x, w.y + 1>>] = E_AFTER_WRITE + 2,
                    ![<<w.x + 1, w.y + 1>>] = E_AFTER_WRITE + 3]

ApplyPalette(w) == PaletteTable[w.palette + 4 * w.invert + 1]

\* The four comparisons run one after the other on the stored position.
HandleDirectionEdges(w, edges) ==
    LET up    == [w EXCEPT !.y = IF "up" \in edges /\ @ # 0 THEN @ - 1 ELSE @]
        down  == [up EXCEPT !.y = IF "down" \in edges /\ @ # CURSOR_MAX_Y THEN @ + 1 ELSE @]
        left  == [down EXCEPT !.x = IF "left" \in edges /\ @ # 0 THEN @ - 1 ELSE @]
    IN  [left EXCEPT !.x = IF "right" \in edges /\ @ # CURSOR_MAX_X THEN @ + 1 ELSE @]

HandleButtonEdges(w, edges) ==
    LET toggled == [w EXCEPT
            !.palette = IF "a" \in edges THEN (@ + 1) % 4 ELSE @,
            !.style = IF "b" \in edges THEN 1 - @ ELSE @,
            !.invert = IF "select" \in edges THEN 1 - @ ELSE @]
    IN  IF "start" \in edges
        THEN [toggled EXCEPT !.x = CURSOR_HOME_X, !.y = CURSOR_HOME_Y]
        ELSE toggled

\* SampleInputs keeps the masks read; edges are newly held buttons.
HandleInputEdges(w, held) ==
    LET dirs == held \cap Directions
        btns == held \cap Buttons
        sampled == [w EXCEPT !.prevDirections = dirs, !.prevButtons = btns]
    IN  HandleButtonEdges(HandleDirectionEdges(sampled, dirs \ w.prevDirections),
                          btns \ w.prevButtons)

ResetSceneState ==
    [frame |-> 0, palette |-> 0, style |-> 0, invert |-> 0,
     prevDirections |-> {}, prevButtons |-> {},
     x |-> CURSOR_HOME_X, prevX |-> CURSOR_HOME_X,
     y |-> CURSOR_HOME_Y, prevY |-> CURSOR_HOME_Y]

\* ApplyVisualState: repair, redraw, palette, and the position becomes the
\* previous one.
Drawn(map, w) == DrawCursorCells(RestoreCursorCells(map, w), w)
Settled(w) == [w EXCEPT !.prevX = w.x, !.prevY = w.y]

NoLog == [x |-> -1, y |-> -1, flags |-> -1]

(***************************** the Python model ***************************)

JoypadBgSmokeState ==
    [cursor_x |-> CURSOR_HOME_X, cursor_y |-> CURSOR_HOME_Y, palette_index |-> 0,
     cursor_style |-> 0, invert_palette |-> 0, prev_directions |-> {}, prev_buttons |-> {}]

CURSOR_STYLE_COLORS == <<<<3, 2, 1, 0>>, <<0, 1, 3, 2>>>>

\* One frame of the model.
step_joypad_bg_smoke_state(s, names) ==
    LET dirs == names \cap Directions
        btns == names \cap Buttons
        moved == dirs \ s.prev_directions
        edges == btns \ s.prev_buttons
        y1 == IF "up" \in moved /\ s.cursor_y > 0 THEN s.cursor_y - 1 ELSE s.cursor_y
        y2 == IF "down" \in moved /\ y1 < CURSOR_MAX_Y THEN y1 + 1 ELSE y1
        x1 == IF "left" \in moved /\ s.cursor_x > 0 THEN s.cursor_x - 1 ELSE s.cursor_x
        x2 == IF "right" \in moved /\ x1 < CURSOR_MAX_X THEN x1 + 1 ELSE x1
    IN  [cursor_x |-> IF "start" \in edges THEN CURSOR_HOME_X ELSE x2,
         cursor_y |-> IF "start" \in edges THEN CURSOR_HOME_Y ELSE y2,
         palette_index |-> (s.palette_index + IF "a" \in edges THEN 1 ELSE 0) % 4,
         cursor_style |-> IF "b" \in edges THEN 1 - s.cursor_style ELSE s.cursor_style,
         invert_palette |-> IF "select" \in edges THEN 1 - s.invert_palette ELSE s.invert_palette,
         prev_directions |-> dirs,
         prev_buttons |-> btns]

palette_byte_for_state(s) == PaletteTable[s.palette_index + 4 * s.invert_palette + 1]

\* The colour render_joypad_bg_smoke_frame gives to the pixels of a cell.
RenderedColour(s, cell) ==
    LET dx == cell[1] - s.cursor_x
        dy == cell[2] - s.cursor_y
    IN  IF dx \in 0 .. 1 /\ dy \in 0 .. 1
        THEN CURSOR_STYLE_COLORS[s.cursor_style + 1][2 * dy + dx + 1]
        ELSE (cell[1] + cell[2]) % 2

(********************************* frames *********************************)

\* The entry of the ROM, up to the frame loop, and the model's first state.
SmokeInit ==
    /\ wram = ResetSceneState
    /\ bgmap = Drawn(FillBackgroundMap, ResetSceneState)
    /\ rBGP = ApplyPalette(ResetSceneState)
    /\ log = NoLog
    /\ model = JoypadBgSmokeState

\* One pass of MainLoop with the buttons held at the frame boundary; after
\* the last frame of the script the ROM logs its final state and passes.
MainLoop(held) ==
    LET w == HandleInputEdges(wram, held)
    IN  /\ log = NoLog
        /\ bgmap' = Drawn(bgmap, w)
        /\ rBGP' = ApplyPalette(w)
        /\ wram' = [Settled(w) EXCEPT !.frame = @ + 1]
        /\ log' = IF wram.frame + 1 < SCRIPT_FRAME_COUNT
                  THEN NoLog
                  ELSE [x |-> w.x, y |-> w.y, flags |-> w.style + 2 * w.invert]
        /\ model' = step_joypad_bg_smoke_state(model, held)

SmokeNext == \E held \in Presses : MainLoop(held)

SmokeSpec == SmokeInit /\ [][SmokeNext]_smokeVars

(******************************* properties *******************************)

\* The registers of the ROM stay in the ranges its code keeps them in.
SmokeTypeOK ==
    /\ wram.x \in 0 .. CURSOR_MAX_X /\ wram.y \in 0 .. CURSOR_MAX_Y
    /\ wram.palette \in 0 .. 3 /\ wram.style \in 0 .. 1 /\ wram.invert \in 0 .. 1
    /\ wram.frame \in 0 .. SCRIPT_FRAME_COUNT
    /\ bgmap \in [Cells -> 0 .. 9]

\* After every frame the ROM is where the model is: position, palette, style,
\* the masks remembered for the next edges and the case it logs; and every
\* cell outside the cursor shows the background again, so nothing of an
\* earlier position is left behind.
SmokeFollowsReference ==
    /\ [cursor_x |-> wram.x, cursor_y |-> wram.y, palette_index |-> wram.palette,
        cursor_style |-> wram.style, invert_palette |-> wram.invert,
        prev_directions |-> wram.prevDirections, prev_buttons |-> wram.prevButtons] = model
    /\ rBGP = palette_byte_for_state(model)
    /\ log # NoLog => log = [x |-> model.cursor_x, y |-> model.cursor_y,
                             flags |-> model.cursor_style + 2 * model.invert_palette]
    /\ \A cell \in Cells \ Area(wram.x, wram.y) :
        TileColour[bgmap[cell]] = RenderedColour(model, cell)

\* The cells of the cursor have the colours the model renders there.
CursorAsRendered ==
    \A cell \in Area(wram.x, wram.y) : TileColour[bgmap[cell]] = RenderedColour(model, cell)

=============================================================================
