---------------------------- MODULE PixelPipeline ----------------------------
(***************************************************************************)
(* The pixel pipeline of the picture unit, dot by dot: the scan of the     *)
(* object table, the tile fetcher, the two pixel queues, the window and    *)
(* the mixer (ppu/sem/step.spade with ppu/rtl), in its two profiles: the   *)
(* full one and the one of the board, which has no objects.  Each emitted  *)
(* pixel is compared with the reference at the registers of that dot.      *)
(*                                                                         *)
(* A request of a dot is answered in the next one; the last one, made as   *)
(* the line's transfer ends, is not looked at.  The epochs and tags of the *)
(* requests never tell two of them apart here and are left out, like the   *)
(* dots of horizontal and vertical blank, in which nothing moves, the      *)
(* blank first frame and an OAM DMA during the scan.                       *)
(***************************************************************************)
EXTENDS SpatialOracle

CONSTANTS
    SCREEN_HEIGHT,      \* 144 lines
    Scenes              \* what programs show: profile, objects, the registers
                        \* of each line, and what they may be changed to later

PpuRegisters ==
    [bg_enable : BOOLEAN, obj_enable : BOOLEAN, obj_size_8x16 : BOOLEAN, bg_map_hi : BOOLEAN,
     win_map_hi : BOOLEAN, bgwin_data_hi : BOOLEAN, win_enable : BOOLEAN,
     scx : Bytes, scy : Bytes, wx : Bytes, wy : Bytes, bgp : Bytes, obp0 : Bytes, obp1 : Bytes]
ObjectTable == [0 .. OAM_ENTRIES - 1 -> [y : Bytes, x : Bytes, tile : Bytes, flags : Bytes]]

ASSUME ScenesAssumption ==
    /\ SCREEN_HEIGHT \in Nat \ {0}
    /\ \A s \in Scenes :
        /\ s.obj_profile \in BOOLEAN /\ s.oam \in ObjectTable
        /\ s.lines \in [1 .. SCREEN_HEIGHT -> PpuRegisters] /\ s.late \subseteq PpuRegisters

VARIABLES
    scene,
    regs,       \* the registers the picture unit reads
    stage,      \* "OamScan", "Transfer" or "HBlank"
    ly,
    sampled,    \* scx_low3_line, window enable and WY match, sampled in mode 2
    render,     \* PpuRenderState
    reply,      \* the answer to the request of the last dot
    counted,    \* history: window lines the reference has counted in the frame
    diffs       \* history: the differences to the reference on this line

pipelineVars == <<scene, regs, stage, ly, sampled, render, reply, counted, diffs>>

obj_profile_enabled == scene.obj_profile
obj_enabled == obj_profile_enabled /\ regs.obj_enable

NoReply == [to |-> "None", data |-> 0]
Reply(client, byte) == [to |-> client, data |-> byte]

initial_fetcher_state ==
    [source |-> "Background", step |-> "GetTile", step_phase |-> FALSE, pending |-> FALSE,
     tile_id |-> 0, tile_lo |-> 0, tile_hi |-> 0, map_x |-> 0, map_y |-> 0, row |-> 0,
     pending_push |-> FALSE]

zero_obj_pixel == [color |-> 0, palette |-> 0, x |-> 0, rank |-> 0, bg_over_obj |-> FALSE]
empty_obj_fifo == [count |-> 0, pixels |-> [slot \in 0 .. 15 |-> zero_obj_pixel]]
NoTicket == [oam_index |-> 0, x |-> 0, y |-> 0, rank |-> 0]

ppu_render_state ==
    [dot |-> 0, x_out |-> 0, discard |-> 0, stall_dots |-> 0, window |-> "Inactive", window_line |-> 0,
     scan |-> 0, pending_y |-> -1, line_objs |-> <<>>, fetched |-> {},
     ticket |-> NoTicket, obj_flags |-> 0,
     fetcher |-> initial_fetcher_state, bg_fetcher_resume |-> initial_fetcher_state,
     bg_fifo |-> <<>>, obj_fifo |-> empty_obj_fifo]

(************************** the object table *******************************)

live_oam_scan_req(r) ==
    IF ~ obj_profile_enabled \/ r.scan >= OAM_ENTRIES THEN NoReply
    ELSE LET entry == scene.oam[r.scan]
         IN Reply("OamScanner", IF r.pending_y < 0 THEN entry.y ELSE entry.x)

obj_overlaps_scanline(obj_y) == ly + 16 >= obj_y /\ ly + 16 < obj_y + obj_height(regs)

\* The row of the entry is kept until its column has come.
advance_live_oam_scan(r) ==
    LET selected == /\ regs.obj_enable /\ obj_overlaps_scanline(r.pending_y)
                    /\ Len(r.line_objs) < MAX_LINE_OBJS
        ticket == [oam_index |-> r.scan, x |-> reply.data, y |-> r.pending_y, rank |-> Len(r.line_objs)]
    IN IF reply.to # "OamScanner" THEN r
       ELSE IF r.pending_y < 0 THEN [r EXCEPT !.pending_y = reply.data]
       ELSE [r EXCEPT !.scan = @ + 1, !.pending_y = -1,
                      !.line_objs = IF selected THEN Append(@, ticket) ELSE @]

(**************************** the tile fetcher *****************************)

fetcher_reset(source, map_x, map_y, row) ==
    [initial_fetcher_state EXCEPT !.source = source, !.map_x = map_x, !.map_y = map_y, !.row = row]

start_bg_fetcher(tile_x) ==
    LET bg_y == Low8(regs.scy + ly)
    IN fetcher_reset("Background", (regs.scx \div 8 + tile_x) % 32, bg_y \div 8, bg_y % 8)

restart_window_fetcher(line) == fetcher_reset("Window", 0, (line \div 8) % 32, line % 8)

\* What the fetcher asks the memory for in its step.
BgAddress(f) ==
    LET map_hi == IF f.source = "Window" THEN regs.win_map_hi ELSE regs.bg_map_hi
        tile_row == bgwin_tile_addr(regs, f.tile_id, f.row)
    IN CASE f.step = "GetTile" -> _map_base(map_hi) + 32 * f.map_y + f.map_x
         [] f.step = "GetLo" -> tile_row
         [] f.step = "GetHi" -> tile_row + 1

state_after_resp(f, data) ==
    CASE f.step = "GetTile" -> [f EXCEPT !.step = "GetLo", !.pending = FALSE, !.tile_id = data]
      [] f.step = "GetLo" -> [f EXCEPT !.step = "GetHi", !.pending = FALSE, !.tile_lo = data]
      [] f.step = "GetHi" ->
            [f EXCEPT !.step = "Sleep", !.pending = FALSE, !.tile_hi = data, !.pending_push = TRUE]

capture_bg_fetcher_resume_state(f) ==
    IF f.pending /\ reply.to = "BgFetcher" THEN state_after_resp(f, reply.data) ELSE f

\* One dot of the fetcher: its state, what it asks for and the row it pushes.
advance_bg_fetcher(f, fifo) ==
    LET idle(g) == [fetcher |-> g, req |-> NoReply, push |-> <<>>]
    IN IF f.pending THEN idle(capture_bg_fetcher_resume_state(f))
       ELSE
       CASE f.step \in {"GetTile", "GetLo", "GetHi"} ->
               [fetcher |-> [f EXCEPT !.pending = TRUE],
                req |-> Reply("BgFetcher", VramByte(BgAddress(f))), push |-> <<>>]
         [] f.step = "Sleep" /\ ~ f.step_phase -> idle([f EXCEPT !.step_phase = TRUE])
         [] f.step = "Sleep" /\ f.step_phase -> idle([f EXCEPT !.step = "Push", !.step_phase = FALSE])
         [] f.step = "Push" /\ fifo = <<>> /\ f.pending_push ->
               [fetcher |-> fetcher_reset(f.source, (f.map_x + 1) % 32, f.map_y, f.row),
                req |-> NoReply,
                push |-> [i \in 1 .. 8 |-> decode_tile_row(f.tile_lo, f.tile_hi)[i - 1]]]
         [] OTHER -> idle(f)

(******************************* objects ***********************************)

obj_trigger_x(ticket) == IF ticket.x > 8 THEN ticket.x - 8 ELSE 0
line_obj_ticket_precedes(a, b) == a.x < b.x \/ (a.x = b.x /\ a.rank < b.rank)

\* The objects of the line that are due and not yet fetched.
DueTickets(r) ==
    {t \in {r.line_objs[i] : i \in DOMAIN r.line_objs} :
        t.rank \notin r.fetched /\ r.x_out >= obj_trigger_x(t)}
next_due_line_obj_ticket(r) ==
    CHOOSE t \in DueTickets(r) : \A u \in DueTickets(r) : t = u \/ line_obj_ticket_precedes(t, u)

should_start_live_obj_fetch(r) ==
    regs.obj_enable /\ r.fetcher.source # "Object" /\ DueTickets(r) # {}

\* The tile fetcher is put aside, with the answer it has just received.
start_live_obj_fetch(r) ==
    LET ticket == next_due_line_obj_ticket(r)
    IN [r EXCEPT !.stall_dots = @ + (IF ticket.x = 0 THEN 1 ELSE 0),
                 !.ticket = ticket, !.obj_flags = 0,
                 !.bg_fetcher_resume = capture_bg_fetcher_resume_state(r.fetcher),
                 !.fetcher = [initial_fetcher_state EXCEPT !.source = "Object"]]

\* Objects switched off in the middle of a fetch.
cancel_live_obj_fetch(r) ==
    [r EXCEPT !.ticket = NoTicket, !.obj_flags = 0, !.obj_fifo = empty_obj_fifo,
              !.fetcher = IF r.bg_fetcher_resume.source = "Window"
                          THEN restart_window_fetcher(r.window_line)
                          ELSE start_bg_fetcher(r.x_out \div 8)]

row_in_object(ticket) == (ly + 16 - ticket.y) % 16

\* The bytes of an object: tile and flags from the table, then its row.
ObjByte(r) ==
    LET entry == scene.oam[r.ticket.oam_index]
        addr == obj_tile_addr(regs, r.fetcher.tile_id, row_in_object(r.ticket), BitOf(r.obj_flags, 6))
    IN CASE r.fetcher.step = "GetTile" -> entry.tile
         [] r.fetcher.step = "GetLo" -> entry.flags
         [] r.fetcher.step = "GetHi" -> VramByte(addr)
         [] r.fetcher.step = "Sleep" -> VramByte(addr + 1)

ObjAnswered(r) ==
    LET f == r.fetcher
        at(step) == [f EXCEPT !.step = step, !.pending = FALSE]
    IN CASE f.step = "GetTile" -> [r EXCEPT !.fetcher = [at("GetLo") EXCEPT !.tile_id = reply.data]]
         [] f.step = "GetLo" -> [r EXCEPT !.fetcher = at("GetHi"), !.obj_flags = reply.data]
         [] f.step = "GetHi" -> [r EXCEPT !.fetcher = [at("Sleep") EXCEPT !.tile_lo = reply.data]]
         [] f.step = "Sleep" ->
               [r EXCEPT !.fetcher = [at("Push") EXCEPT !.tile_hi = reply.data, !.pending_push = TRUE]]

decode_obj_row(r) ==
    LET colors == decode_tile_row(r.fetcher.tile_lo, r.fetcher.tile_hi)
    IN [col \in 0 .. 7 |->
        [color |-> colors[IF BitOf(r.obj_flags, 5) THEN 7 - col ELSE col],
         palette |-> CarryOf(BitOf(r.obj_flags, 4)), bg_over_obj |-> BitOf(r.obj_flags, 7),
         x |-> r.ticket.x, rank |-> r.ticket.rank]]

\* A slip: among objects the one fetched last is on top.
LastFetchedWins(existing, incoming) == IF incoming.color # 0 THEN incoming ELSE existing

resolve_obj_priority(existing, incoming) ==
    IF \/ existing.color = 0
       \/ incoming.color # 0 /\ line_obj_ticket_precedes(incoming, existing)
    THEN incoming ELSE existing

obj_fifo_start_offset(ticket, x_out) ==
    IF obj_trigger_x(ticket) > x_out THEN obj_trigger_x(ticket) - x_out ELSE 0
obj_fifo_left_clip(ticket, x_out) ==
    LET hidden == IF ticket.x < 8 THEN 8 - ticket.x + x_out
                  ELSE IF x_out > ticket.x - 8 THEN x_out - (ticket.x - 8) ELSE 0
    IN IF hidden > 8 THEN 8 ELSE hidden

obj_fifo_overlay_row_clipped(fifo, pixels, offset, left_clip) ==
    LET cover == IF offset + 8 - left_clip > 16 THEN 16 ELSE offset + 8 - left_clip
        incoming(slot) == IF slot \in offset + left_clip .. offset + 7
                          THEN pixels[slot - offset] ELSE zero_obj_pixel
    IN [count |-> IF fifo.count > cover THEN fifo.count ELSE cover,
        pixels |-> [slot \in 0 .. 15 |-> resolve_obj_priority(fifo.pixels[slot], incoming(slot))]]

complete_live_obj_fetch(r) ==
    [r EXCEPT !.fetched = @ \cup {r.ticket.rank}, !.ticket = NoTicket, !.obj_flags = 0,
              !.fetcher = r.bg_fetcher_resume,
              !.obj_fifo = obj_fifo_overlay_row_clipped(@, decode_obj_row(r),
                                obj_fifo_start_offset(r.ticket, r.x_out),
                                obj_fifo_left_clip(r.ticket, r.x_out))]

\* One dot of an object's fetch: request and answer of each byte in turn, then
\* one dot of rest before the row is laid over the queue.
advance_live_obj_fetch(r) ==
    LET dot(next, req) == [render |-> next, req |-> req, pixel |-> <<>>]
    IN IF r.fetcher.pending THEN dot(ObjAnswered(r), NoReply)
       ELSE IF r.fetcher.step # "Push"
       THEN dot([r EXCEPT !.fetcher.pending = TRUE], Reply("ObjFetcher", ObjByte(r)))
       ELSE IF r.fetcher.pending_push
       THEN dot([r EXCEPT !.fetcher.pending_push = FALSE], NoReply)
       ELSE dot(complete_live_obj_fetch(r), NoReply)

pop_obj_fifo(fifo) ==
    IF fifo.count = 0 THEN fifo
    ELSE [count |-> fifo.count - 1,
          pixels |-> [slot \in 0 .. 15 |-> IF slot = 15 THEN zero_obj_pixel ELSE fifo.pixels[slot + 1]]]

(******************** the queue, the window and the mixer ******************)

window_triggered(r) == r.x_out + 7 >= regs.wx

\* A slip: the window's lines are not counted.
WindowLineKept(r) ==
    IF r.window = "Armed" /\ window_triggered(r)
    THEN [state |-> "Active", window_line |-> r.window_line, restart |-> TRUE]
    ELSE [state |-> r.window, window_line |-> r.window_line, restart |-> FALSE]

step_window_state(r) ==
    IF r.window = "Armed" /\ window_triggered(r)
    THEN [state |-> "Active", window_line |-> Low8(r.window_line + 1), restart |-> TRUE]
    ELSE [state |-> r.window, window_line |-> r.window_line, restart |-> FALSE]

pop_bg_fifo(fifo, discard) ==
    [fifo |-> IF fifo = <<>> THEN fifo ELSE Tail(fifo),
     pixel_valid |-> fifo # <<>> /\ discard = 0,
     discard |-> IF fifo # <<>> /\ discard > 0 THEN discard - 1 ELSE discard]

mix_bg_obj_pixel(color, obj_valid, obj) ==
    IF /\ regs.obj_enable /\ obj_valid /\ obj.color # 0
       /\ ~ (regs.bg_enable /\ color # 0 /\ obj.bg_over_obj)
    THEN palette_lookup(obj.color, IF obj.palette = 1 THEN regs.obp1 ELSE regs.obp0)
    ELSE IF regs.bg_enable THEN palette_lookup(color, regs.bgp) ELSE 0

\* A dot of the tile fetcher and the queues.  A window that begins empties the
\* queue, takes the fetcher over and stalls the line; a row pushed in this dot
\* may give its first pixel at once.
BackgroundDot(r, entering) ==
    LET fetcher0 == IF entering THEN start_bg_fetcher(0) ELSE r.fetcher
        fetched == advance_bg_fetcher(fetcher0, r.bg_fifo)
        window == step_window_state(r)
        fifo == IF window.restart THEN <<>> ELSE r.bg_fifo \o fetched.push
        popped == pop_bg_fifo(fifo, r.discard)
        obj_valid == obj_enabled /\ r.obj_fifo.count > 0
        added == IF window.restart THEN 6 ELSE 0
    IN [render |->
            [r EXCEPT !.window = window.state, !.window_line = window.window_line,
                      !.fetcher = IF window.restart THEN restart_window_fetcher(r.window_line)
                                  ELSE fetched.fetcher,
                      !.stall_dots = IF obj_profile_enabled THEN @ + added ELSE added,
                      !.bg_fifo = popped.fifo, !.discard = popped.discard,
                      !.obj_fifo = IF ~ obj_enabled THEN empty_obj_fifo
                                   ELSE IF popped.pixel_valid THEN pop_obj_fifo(@) ELSE @,
                      !.x_out = IF popped.pixel_valid THEN @ + 1 ELSE @],
        req |-> IF window.restart THEN NoReply ELSE fetched.req,
        pixel |-> IF popped.pixel_valid
                  THEN <<mix_bg_obj_pixel(Head(fifo), obj_valid, r.obj_fifo.pixels[0])>> ELSE <<>>]

(*************************** one dot of a line *****************************)

\* What an object does to the line before the dot proper.
WithObjects(r) ==
    IF ~ obj_enabled /\ r.fetcher.source = "Object" THEN cancel_live_obj_fetch(r)
    ELSE IF should_start_live_obj_fetch(r) THEN start_live_obj_fetch(r)
    ELSE r

apply_live_transfer(r, entering) ==
    LET t == WithObjects(r)
    IN CASE obj_profile_enabled /\ t.stall_dots > 0 ->
               [render |-> [t EXCEPT !.stall_dots = @ - 1], req |-> NoReply, pixel |-> <<>>]
         [] t.stall_dots = 0 /\ obj_enabled /\ t.fetcher.source = "Object" -> advance_live_obj_fetch(t)
         [] OTHER -> BackgroundDot(t, entering)

\* The pixel of the dot, if there is one, goes to the panel and is compared.
Shown(out, x_out) ==
    /\ reply' = out.req
    /\ diffs' = IF out.pixel = <<>> THEN diffs
                ELSE diff_frame(diffs, Head(out.pixel),
                                PixelResult(x_out, build_scanline(ly, regs, scene.oam, counted)))

sample_mode2_window_state(s) ==
    [s EXCEPT !.wy_triggered = @ \/ ly = regs.wy, !.window_enable = regs.win_enable]

OamScanDone == render.dot = 2 * OAM_ENTRIES - 1

OamScanDot ==
    /\ stage = "OamScan" /\ ~ OamScanDone
    /\ sampled' = sample_mode2_window_state(sampled)
    /\ render' = [advance_live_oam_scan(render) EXCEPT !.dot = @ + 1]
    /\ reply' = live_oam_scan_req(render')
    /\ UNCHANGED <<scene, regs, stage, ly, counted, diffs>>

\* The last answer of the scan comes in the dot that begins the transfer.
StartTransfer ==
    /\ stage = "OamScan" /\ OamScanDone
    /\ stage' = "Transfer"
    /\ sampled' = sample_mode2_window_state(sampled)
    /\ LET seed == [advance_live_oam_scan(render) EXCEPT
                        !.dot = @ + 1, !.discard = sampled.scx_low3_line]
           out == apply_live_transfer(seed, TRUE)
       IN render' = out.render /\ Shown(out, 0)
    /\ UNCHANGED <<scene, regs, ly, counted>>

TransferDot ==
    /\ stage = "Transfer" /\ render.x_out < SCREEN_WIDTH
    /\ LET out == apply_live_transfer([render EXCEPT !.dot = @ + 1], FALSE)
       IN render' = out.render /\ Shown(out, render.x_out)
    /\ UNCHANGED <<scene, regs, stage, ly, sampled, counted>>

\* Beyond the last pixel the window may still begin; the full profile also
\* sends a pixel that is not on the line.
EndTransfer ==
    /\ stage = "Transfer" /\ render.x_out >= SCREEN_WIDTH
    /\ stage' = "HBlank"
    /\ LET window == step_window_state(render)
       IN render' = [ppu_render_state EXCEPT !.dot = render.dot + 1, !.window = window.state,
                                             !.window_line = window.window_line]
    /\ reply' = NoReply
    /\ UNCHANGED <<scene, regs, ly, sampled, counted, diffs>>

\* The registers as the profile stores them: the board's knows no objects.
StoredRegs(r) == [r EXCEPT !.obj_enable = @ /\ obj_profile_enabled]
LineRegs(y) == StoredRegs(scene.lines[y + 1])

sample_mode2_state(r, y, wy_triggered) ==
    [scx_low3_line |-> r.scx % 8, wy_triggered |-> wy_triggered \/ y = r.wy,
     window_enable |-> r.win_enable]

line_start_render(s, window_line) ==
    [ppu_render_state EXCEPT !.window_line = window_line,
                             !.window = IF s.window_enable /\ s.wy_triggered THEN "Armed" ELSE "Inactive"]

\* After the last line comes vertical blank and then a new frame.
LineStarts ==
    /\ stage = "HBlank" /\ stage' = "OamScan"
    /\ ly' = (ly + 1) % SCREEN_HEIGHT
    /\ LET frame_start == ly' = 0
       IN /\ regs' = LineRegs(ly')
          /\ sampled' = sample_mode2_state(regs', ly', sampled.wy_triggered /\ ~ frame_start)
          /\ render' = line_start_render(sampled', IF frame_start THEN 0 ELSE render.window_line)
          /\ counted' = IF frame_start THEN 0 ELSE counted + CarryOf(LineTriggered(LineRegs(ly), ly))
    /\ reply' = live_oam_scan_req(ppu_render_state)
    /\ diffs' = <<>> /\ UNCHANGED scene

\* The program changes registers while the line is drawn, once a line.
LateWrite ==
    /\ stage = "Transfer" /\ regs = LineRegs(ly)
    /\ \E r \in scene.late : regs' = StoredRegs(r)
    /\ UNCHANGED <<scene, stage, ly, sampled, render, reply, counted, diffs>>

PixelInit ==
    /\ scene \in Scenes
    /\ stage = "OamScan" /\ ly = 0 /\ counted = 0 /\ diffs = <<>>
    /\ regs = LineRegs(0) /\ sampled = sample_mode2_state(regs, 0, FALSE)
    /\ render = line_start_render(sampled, 0)
    /\ reply = live_oam_scan_req(ppu_render_state)

PixelNext == OamScanDot \/ StartTransfer \/ TransferDot \/ EndTransfer \/ LineStarts \/ LateWrite

PixelSpec == PixelInit /\ [][PixelNext]_pipelineVars
-----------------------------------------------------------------------------
\* The longest line: the scan, a row of tiles with one more of them for the
\* fine scroll and one for the window, each object's fetch, two dots of slack.
LongestLine == 2 * OAM_ENTRIES + 9 * (SCREEN_WIDTH \div 8 + 3) + 6 + 12 * MAX_LINE_OBJS + 2

PixelTypeOK ==
    /\ scene \in Scenes /\ regs.scx \in Bytes /\ regs.scy \in Bytes
    /\ stage \in {"OamScan", "Transfer", "HBlank"} /\ ly \in 0 .. SCREEN_HEIGHT - 1
    /\ sampled.scx_low3_line \in 0 .. 7 /\ sampled.wy_triggered \in BOOLEAN
    /\ render.dot \in 0 .. LongestLine /\ render.x_out \in 0 .. SCREEN_WIDTH
    /\ render.stall_dots \in 0 .. 31 /\ render.discard \in 0 .. 7
    /\ render.window \in {"Inactive", "Armed", "Active"}
    /\ render.scan \in 0 .. OAM_ENTRIES /\ Len(render.line_objs) <= MAX_LINE_OBJS
    /\ Len(render.bg_fifo) <= 8 /\ render.obj_fifo.count \in 0 .. 16
    /\ \A i \in DOMAIN render.bg_fifo : render.bg_fifo[i] \in 0 .. 3
    /\ reply.to \in {"None", "OamScanner", "BgFetcher", "ObjFetcher"} /\ reply.data \in Bytes
    /\ counted \in 0 .. SCREEN_HEIGHT /\ Len(diffs) <= DIFF_LIMIT

\* Where the pipeline is known not to show what the reference does: a window at
\* or beyond the left edge, or left of it with fine scroll; one so far right
\* that it never begins; WY moved between lines, whose match the pipeline keeps
\* and the reference does not; an object that reaches into the left edge; a
\* register other than a palette written while the line is drawn.
WindowInside(r) ==
    r.win_enable => /\ r.wx \in 7 .. SCREEN_WIDTH + 7
                    /\ r.wx = 7 => r.scx % 8 = 0
OnlyPalettes(r, line) ==
    [line EXCEPT !.bgp = r.bgp, !.obp0 = r.obp0, !.obp1 = r.obp1, !.bg_enable = r.bg_enable] = r
OrdinaryScene ==
    /\ \A y \in 0 .. SCREEN_HEIGHT - 1 :
        /\ WindowInside(LineRegs(y)) /\ LineRegs(y).wy = LineRegs(0).wy
        /\ \A r \in scene.late : OnlyPalettes(StoredRegs(r), LineRegs(y))
    /\ obj_profile_enabled => \A i \in DOMAIN scene.oam : scene.oam[i].x > 8

\* What the pipeline sends is what the reference says the line shows: fine and
\* coarse scroll, window lines, objects with their priority and flips, and the
\* palettes of the very dot, however the fetches delay each other.
LineAsReference == diffs # <<>> => ~ OrdinaryScene

\* The same without exception (bench/ref/ppu_spatial_oracle.py:139, 140: the
\* background is the map at SCX + x and SCY + LY).
EveryPixelAsReference == diffs = <<>>

\* SCY is read by every fetch of a tile, not frozen for the line
\* (docs/ppu/behavior_matrix.md:12).
TileMapRead ==
    /\ render'.fetcher.pending /\ ~ render.fetcher.pending
    /\ render'.fetcher.step = "GetTile" /\ render'.fetcher.source = "Background"
ScyReadLive ==
    [][TileMapRead => render'.fetcher.map_y = Low8(regs.scy + ly) \div 8]_pipelineVars
=============================================================================
