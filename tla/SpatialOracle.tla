---------------------------- MODULE SpatialOracle ----------------------------
(***************************************************************************)
(* The reference for what a line shows (bench/ref/ppu_spatial_oracle.py):  *)
(* a pixel as a function of the registers, the tile memory, the objects    *)
(* and where the window is, without any notion of time.  Colours are 0..3; *)
(* the rendered row holds the greys of the panel.                          *)
(***************************************************************************)
EXTENDS Alu, Sequences, SequencesExt

CONSTANTS
    SCREEN_WIDTH,       \* 160 pixels
    OAM_ENTRIES,        \* 40 objects
    MAX_LINE_OBJS,      \* 10 of them on a line
    DIFF_LIMIT,         \* the differences diff_frame reports, 8
    VramByte(_)         \* what the tile memory holds at an address

\* Where the tile memory is.
VRAM_FIRST == 32768
VRAM_LAST == 40959

ASSUME SpatialAssumption ==
    /\ SCREEN_WIDTH \in Nat \ {0} /\ OAM_ENTRIES \in Nat \ {0} /\ MAX_LINE_OBJS \in Nat \ {0}
    /\ DIFF_LIMIT \in Nat \ {0}
    /\ \A addr \in VRAM_FIRST .. VRAM_LAST : VramByte(addr) \in Bytes

None == [source |-> "none"]
DMG_SHADE_VALUES == <<255, 170, 85, 0>>

palette_lookup(color_idx, palette) == (palette \div 4 ^ color_idx) % 4
dmg_gray(shade) == DMG_SHADE_VALUES[shade + 1]

\* The eight colours of a tile row from its two planes, leftmost first.
decode_tile_row(lo, hi) ==
    [col \in 0 .. 7 |-> 2 * CarryOf(BitOf(hi, 7 - col)) + CarryOf(BitOf(lo, 7 - col))]
_tile_row_from_addr(addr) == decode_tile_row(VramByte(addr), VramByte(addr + 1))

bgwin_tile_addr(regs, tile_id, row) ==
    2 * (row % 8) + 16 * (tile_id % 128)
        + (CASE tile_id >= 128 -> 34816 [] tile_id < 128 /\ regs.bgwin_data_hi -> 32768
           [] OTHER -> 36864)

obj_height(regs) == IF regs.obj_size_8x16 THEN 16 ELSE 8

obj_tile_addr(regs, tile_id, row, y_flip) ==
    LET effective_row == IF y_flip THEN obj_height(regs) - 1 - row ELSE row
        base_tile == IF regs.obj_size_8x16 THEN 2 * (tile_id \div 2) ELSE tile_id
    IN 32768 + 16 * (base_tile + effective_row \div 8) + 2 * (effective_row % 8)

_map_base(high) == IF high THEN 39936 ELSE 38912

\* A pixel of one of the two layers made of tiles, at (gx, gy) of its map.
LayerSample(source, regs, map_hi, gx, gy) ==
    LET tile_id == VramByte(_map_base(map_hi) + 32 * ((gy \div 8) % 32) + ((gx \div 8) % 32))
        color_idx == _tile_row_from_addr(bgwin_tile_addr(regs, tile_id, gy % 8))[gx % 8]
    IN [source |-> source, color_idx |-> color_idx, shade |-> palette_lookup(color_idx, regs.bgp),
        tile_id |-> tile_id]

bg_sample(x, s) ==
    LayerSample("background", s.regs, s.regs.bg_map_hi, Low8(s.regs.scx + x), Low8(s.regs.scy + s.ly))

window_sample(x, s) ==
    IF s.regs.win_enable /\ s.wy_triggered /\ x >= s.regs.wx - 7
    THEN LayerSample("window", s.regs, s.regs.win_map_hi, x - (s.regs.wx - 7), s.window_line_counter)
    ELSE None

\* The first ten objects of the table that meet the line, wherever on it.
_selected_line_sprites(s) ==
    LET meets(i) == s.ly + 16 \in s.oam[i].y .. s.oam[i].y + obj_height(s.regs) - 1
        before(i) == {j \in 0 .. i - 1 : meets(j)}
    IN {i \in 0 .. OAM_ENTRIES - 1 : meets(i) /\ Cardinality(before(i)) < MAX_LINE_OBJS}

ObjColor(x, s, i) ==
    LET obj == s.oam[i]
        row == s.ly - (obj.y - 16)
        col == x - (obj.x - 8)
        pixels == _tile_row_from_addr(obj_tile_addr(s.regs, obj.tile, row, BitOf(obj.flags, 6)))
    IN IF col \notin 0 .. 7 THEN 0
       ELSE pixels[IF BitOf(obj.flags, 5) THEN 7 - col ELSE col]

\* Of the objects with a visible pixel here the one furthest left wins, then
\* the first of the table.
obj_sample(x, s) ==
    LET shown == {i \in _selected_line_sprites(s) : ObjColor(x, s, i) # 0}
        over(i, j) == s.oam[i].x < s.oam[j].x \/ (s.oam[i].x = s.oam[j].x /\ i <= j)
        winner == CHOOSE i \in shown : \A j \in shown : over(i, j)
        obj == s.oam[winner]
    IN IF ~ s.regs.obj_enable \/ shown = {} THEN None
       ELSE [source |-> "object", sprite_index |-> winner, tile_id |-> obj.tile,
             bg_over_obj |-> BitOf(obj.flags, 7),
             shade |-> palette_lookup(ObjColor(x, s, winner),
                                      IF BitOf(obj.flags, 4) THEN s.regs.obp1 ELSE s.regs.obp0)]

PixelResult(x, s) ==
    LET bg == bg_sample(x, s)
        window == window_sample(x, s)
        effective_bg == IF window # None THEN window ELSE bg
        obj == obj_sample(x, s)
        shows_obj == obj # None
            /\ ~ (s.regs.bg_enable /\ effective_bg.color_idx # 0 /\ obj.bg_over_obj)
    IN [x |-> x, y |-> s.ly, bg |-> bg, window |-> window, obj |-> obj,
        source |-> IF shows_obj THEN obj.source ELSE effective_bg.source,
        shade |-> IF shows_obj THEN obj.shade
                  ELSE IF s.regs.bg_enable THEN effective_bg.shade ELSE 0]

\* The report of diff_frame for one pixel: nothing where it is as it should be.
PixelDiff(actual_shade, expected) ==
    LET of(sample) == IF sample = None THEN -1 ELSE sample.tile_id
    IN IF dmg_gray(actual_shade) = dmg_gray(expected.shade) THEN <<>>
       ELSE <<[x |-> expected.x, y |-> expected.y, actual_shade |-> actual_shade,
               expected_shade |-> expected.shade, expected_source |-> expected.source,
               bg_tile_id |-> of(expected.bg), window_tile_id |-> of(expected.window),
               obj_tile_id |-> of(expected.obj)]>>

diff_frame(diffs, actual_shade, expected) ==
    IF Len(diffs) >= DIFF_LIMIT THEN diffs ELSE diffs \o PixelDiff(actual_shade, expected)

\* The snapshots a frame is compared with: the lines the window is on are
\* counted as the tests count them (tools/tests/test_ppu_spatial_oracle_wave_c.py).
LineTriggered(regs, ly) == regs.win_enable /\ ly >= regs.wy

build_scanline(ly, regs, oam, window_lines) ==
    [ly |-> ly, regs |-> regs, oam |-> oam, wy_triggered |-> LineTriggered(regs, ly),
     window_line_counter |-> IF LineTriggered(regs, ly) THEN window_lines ELSE 0]
=============================================================================
