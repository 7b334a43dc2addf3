---------------------------- MODULE BenchProofs -----------------------------
(* The test bench.  The demonstration ROM of the joypad goes through the     *)
(* states of the Python model; the oracle hands out its commits in order;    *)
(* what its clients report is the first divergence, and a run replayed from  *)
(* the same start matches; the arithmetic unit agrees with the reference of  *)
(* the tests on every byte, every word and all flags, and its decimal        *)
(* adjustment is right on every pair of decimal bytes.                       *)
EXTENDS JoypadSmoke, Lockstep, Accumulator, WellFoundedInduction, TLAPS

(****************************** the joypad ROM *******************************)
(* The variables of the ROM by name, and the state of the model they are.    *)
Wram(frame, palette, style, invert, dirs, btns, x, prevX, y, prevY) ==
    [frame |-> frame, palette |-> palette, style |-> style, invert |-> invert,
     prevDirections |-> dirs, prevButtons |-> btns, x |-> x, prevX |-> prevX,
     y |-> y, prevY |-> prevY]

WramOK(w) ==
    /\ w = Wram(w.frame, w.palette, w.style, w.invert, w.prevDirections, w.prevButtons,
                w.x, w.prevX, w.y, w.prevY)
    /\ w.x \in 0 .. CURSOR_MAX_X /\ w.y \in 0 .. CURSOR_MAX_Y
    /\ w.palette \in 0 .. 3 /\ w.style \in 0 .. 1 /\ w.invert \in 0 .. 1

ModelOf(w) ==
    [cursor_x |-> w.x, cursor_y |-> w.y, palette_index |-> w.palette,
     cursor_style |-> w.style, invert_palette |-> w.invert,
     prev_directions |-> w.prevDirections, prev_buttons |-> w.prevButtons]

MapOK(map, w) ==
    /\ DOMAIN map = Cells
    /\ \A cell \in Cells \ Area(w.x, w.y) : map[cell] = (cell[1] + cell[2]) % 2

SmokeInv ==
    /\ WramOK(wram) /\ wram.prevX = wram.x /\ wram.prevY = wram.y
    /\ model = ModelOf(wram) /\ rBGP = ApplyPalette(wram) /\ MapOK(bgmap, wram)
    /\ log # NoLog => log = [x |-> wram.x, y |-> wram.y, flags |-> wram.style + 2 * wram.invert]

LEMMA MapAsRendered ==
    ASSUME NEW map, NEW w, WramOK(w), MapOK(map, w), NEW cell \in Cells \ Area(w.x, w.y)
    PROVE  TileColour[map[cell]] = RenderedColour(ModelOf(w), cell)
<1>1. PICK i \in 0 .. CURSOR_MAX_X + 1, j \in 0 .. CURSOR_MAX_Y + 1 : cell = <<i, j>>
  BY DEF Cells
<1>2. i \in Int /\ j \in Int /\ w.x \in Int /\ w.y \in Int
  BY SmokeAssumption DEF WramOK
<1>3. ~ (i \in {w.x, w.x + 1} /\ j \in {w.y, w.y + 1})
  BY <1>1 DEF Area
<1>4. ~ (i - w.x \in 0 .. 1 /\ j - w.y \in 0 .. 1)
  BY <1>2, <1>3
<1>5. RenderedColour(ModelOf(w), cell) = (i + j) % 2
  BY <1>1, <1>4 DEF RenderedColour, ModelOf
<1>6. map[cell] = (i + j) % 2
  BY <1>1 DEF MapOK
<1>7. (i + j) % 2 \in 0 .. 1
  BY <1>2
<1>8. TileColour[0] = 0 /\ TileColour[1] = 1
  BY DEF TileColour
<1> QED
  BY <1>5, <1>6, <1>7, <1>8

LEMMA InputsAsModel ==
    ASSUME NEW w, WramOK(w), NEW held
    PROVE  LET v == HandleInputEdges(w, held)
           IN  /\ WramOK(v) /\ v.frame = w.frame /\ v.prevX = w.prevX /\ v.prevY = w.prevY
               /\ ModelOf(v) = step_joypad_bg_smoke_state(ModelOf(w), held)
<1> DEFINE dirs == held \cap Directions
           btns == held \cap Buttons
           moved == dirs \ w.prevDirections
           edges == btns \ w.prevButtons
           y1 == IF "up" \in moved /\ w.y # 0 THEN w.y - 1 ELSE w.y
           y2 == IF "down" \in moved /\ y1 # CURSOR_MAX_Y THEN y1 + 1 ELSE y1
           x1 == IF "left" \in moved /\ w.x # 0 THEN w.x - 1 ELSE w.x
           x2 == IF "right" \in moved /\ x1 # CURSOR_MAX_X THEN x1 + 1 ELSE x1
           p == IF "a" \in edges THEN (w.palette + 1) % 4 ELSE w.palette
           s == IF "b" \in edges THEN 1 - w.style ELSE w.style
           n == IF "select" \in edges THEN 1 - w.invert ELSE w.invert
           x3 == IF "start" \in edges THEN CURSOR_HOME_X ELSE x2
           y3 == IF "start" \in edges THEN CURSOR_HOME_Y ELSE y2
           v == HandleInputEdges(w, held)
           m == step_joypad_bg_smoke_state(ModelOf(w), held)
<1>1. /\ w = Wram(w.frame, w.palette, w.style, w.invert, w.prevDirections, w.prevButtons,
                  w.x, w.prevX, w.y, w.prevY)
      /\ w.x \in 0 .. CURSOR_MAX_X /\ w.y \in 0 .. CURSOR_MAX_Y
      /\ w.palette \in 0 .. 3 /\ w.style \in 0 .. 1 /\ w.invert \in 0 .. 1
  BY DEF WramOK
<1>2. /\ CURSOR_MAX_X \in Nat /\ CURSOR_HOME_X \in 0 .. CURSOR_MAX_X
      /\ CURSOR_MAX_Y \in Nat /\ CURSOR_HOME_Y \in 0 .. CURSOR_MAX_Y
  BY SmokeAssumption
<1>3. v = Wram(w.frame, p, s, n, dirs, btns, x3, w.prevX, y3, w.prevY)
  <2> DEFINE sampled == [w EXCEPT !.prevDirections = dirs, !.prevButtons = btns]
             up == [sampled EXCEPT !.y = IF "up" \in moved /\ @ # 0 THEN @ - 1 ELSE @]
             down == [up EXCEPT !.y = IF "down" \in moved /\ @ # CURSOR_MAX_Y THEN @ + 1 ELSE @]
             left == [down EXCEPT !.x = IF "left" \in moved /\ @ # 0 THEN @ - 1 ELSE @]
             right == [left EXCEPT !.x = IF "right" \in moved /\ @ # CURSOR_MAX_X THEN @ + 1 ELSE @]
             toggled == [right EXCEPT
                          !.palette = IF "a" \in edges THEN (@ + 1) % 4 ELSE @,
                          !.style = IF "b" \in edges THEN 1 - @ ELSE @,
                          !.invert = IF "select" \in edges THEN 1 - @ ELSE @]
  <2>1. v = IF "start" \in edges THEN [toggled EXCEPT !.x = CURSOR_HOME_X, !.y = CURSOR_HOME_Y]
            ELSE toggled
    BY DEF HandleInputEdges, HandleDirectionEdges, HandleButtonEdges
  <2> DEFINE f == w.frame
             pal == w.palette
             sty == w.style
             inv == w.invert
             px == w.prevX
             py == w.prevY
             x == w.x
             y == w.y
             pd == w.prevDirections
             pb == w.prevButtons
  <2>2. w = Wram(f, pal, sty, inv, pd, pb, x, px, y, py)
    BY <1>1
  <2>3. /\ y1 = (IF "up" \in moved /\ y # 0 THEN y - 1 ELSE y)
        /\ y2 = (IF "down" \in moved /\ y1 # CURSOR_MAX_Y THEN y1 + 1 ELSE y1)
        /\ x1 = (IF "left" \in moved /\ x # 0 THEN x - 1 ELSE x)
        /\ x2 = (IF "right" \in moved /\ x1 # CURSOR_MAX_X THEN x1 + 1 ELSE x1)
        /\ p = (IF "a" \in edges THEN (pal + 1) % 4 ELSE pal)
        /\ s = (IF "b" \in edges THEN 1 - sty ELSE sty)
        /\ n = (IF "select" \in edges THEN 1 - inv ELSE inv)
    OBVIOUS
  <2> HIDE DEF dirs, btns, moved, edges, f, pal, sty, inv, px, py, x, y, pd, pb, v,
           y1, y2, x1, x2, p, s, n
  <2>4. sampled = Wram(f, pal, sty, inv, dirs, btns, x, px, y, py)
    <3> DEFINE first == [w EXCEPT !.prevDirections = dirs]
    <3>1. sampled = [first EXCEPT !.prevButtons = btns]
      OBVIOUS
    <3>2. first = Wram(f, pal, sty, inv, dirs, pb, x, px, y, py)
      BY <2>2 DEF Wram
    <3> HIDE DEF first, sampled
    <3> QED
      BY <3>1, <3>2 DEF Wram
  <2> HIDE DEF sampled
  <2>5. up = Wram(f, pal, sty, inv, dirs, btns, x, px, y1, py)
    BY <2>3, <2>4 DEF Wram
  <2> HIDE DEF up
  <2>6. down = Wram(f, pal, sty, inv, dirs, btns, x, px, y2, py)
    BY <2>3, <2>5 DEF Wram
  <2> HIDE DEF down
  <2>7. left = Wram(f, pal, sty, inv, dirs, btns, x1, px, y2, py)
    BY <2>3, <2>6 DEF Wram
  <2> HIDE DEF left
  <2>8. right = Wram(f, pal, sty, inv, dirs, btns, x2, px, y2, py)
    BY <2>3, <2>7 DEF Wram
  <2> HIDE DEF right
  <2>9. toggled = Wram(f, p, s, n, dirs, btns, x2, px, y2, py)
    <3>1. toggled = [right EXCEPT !.palette = p, !.style = s, !.invert = n]
      BY <2>3, <2>8 DEF Wram
    <3> HIDE DEF toggled
    <3> QED
      BY <2>8, <3>1 DEF Wram
  <2> HIDE DEF toggled
  <2>10. v = Wram(f, p, s, n, dirs, btns, x3, px, y3, py)
    BY <2>1, <2>9 DEF Wram, x3, y3
  <2> QED
    BY <2>10 DEF f, px, py
<1> HIDE DEF v
<1>4. y2 \in 0 .. CURSOR_MAX_Y /\ x2 \in 0 .. CURSOR_MAX_X /\ p \in 0 .. 3 /\ s \in 0 .. 1 /\ n \in 0 .. 1
  <2> HIDE DEF moved, edges
  <2> QED
    BY <1>1, <1>2
<1>5. x3 \in 0 .. CURSOR_MAX_X /\ y3 \in 0 .. CURSOR_MAX_Y
  BY <1>2, <1>4
<1>6. m = [cursor_x |-> x3, cursor_y |-> y3, palette_index |-> p, cursor_style |-> s,
           invert_palette |-> n, prev_directions |-> dirs, prev_buttons |-> btns]
  <2> DEFINE yy1 == IF "up" \in moved /\ w.y > 0 THEN w.y - 1 ELSE w.y
             yy2 == IF "down" \in moved /\ yy1 < CURSOR_MAX_Y THEN yy1 + 1 ELSE yy1
             xx1 == IF "left" \in moved /\ w.x > 0 THEN w.x - 1 ELSE w.x
             xx2 == IF "right" \in moved /\ xx1 < CURSOR_MAX_X THEN xx1 + 1 ELSE xx1
             pp == (w.palette + IF "a" \in edges THEN 1 ELSE 0) % 4
  <2>1. m = [cursor_x |-> IF "start" \in edges THEN CURSOR_HOME_X ELSE xx2,
             cursor_y |-> IF "start" \in edges THEN CURSOR_HOME_Y ELSE yy2,
             palette_index |-> pp,
             cursor_style |-> s, invert_palette |-> n,
             prev_directions |-> dirs, prev_buttons |-> btns]
    BY DEF step_joypad_bg_smoke_state, ModelOf
  <2>2. xx2 = x2 /\ yy2 = y2 /\ pp = p
    <3> HIDE DEF moved, edges
    <3>1. yy1 = y1 /\ y1 \in 0 .. CURSOR_MAX_Y /\ xx1 = x1 /\ x1 \in 0 .. CURSOR_MAX_X
      BY <1>1, <1>2
    <3> HIDE DEF x1, y1, xx1, yy1
    <3>2. xx2 = x2 /\ yy2 = y2
      BY <1>2, <3>1
    <3>3. pp = p
      BY <1>1
    <3> QED
      BY <3>2, <3>3
  <2> HIDE DEF xx2, yy2, pp, p, m
  <2> QED
    BY <2>1, <2>2
<1> HIDE DEF p, s, n, x3, y3, dirs, btns, m
<1>7. /\ v.frame = w.frame /\ v.palette = p /\ v.style = s /\ v.invert = n
      /\ v.prevDirections = dirs /\ v.prevButtons = btns
      /\ v.x = x3 /\ v.prevX = w.prevX /\ v.y = y3 /\ v.prevY = w.prevY
  BY <1>3 DEF Wram
<1>8. WramOK(v)
  BY <1>3, <1>4, <1>5, <1>7 DEF WramOK
<1>9. ModelOf(v) = m
  BY <1>6, <1>7 DEF ModelOf
<1> QED
  BY <1>7, <1>8, <1>9 DEF v, m

LEMMA DrawnOK ==
    ASSUME NEW map, NEW w, WramOK(w), NEW old, MapOK(map, old), old.x = w.prevX, old.y = w.prevY
    PROVE  MapOK(Drawn(map, w), w)
<1> DEFINE restored == RestoreCursorCells(map, w)
           drawn == Drawn(map, w)
<1>1. /\ DOMAIN restored = Cells
      /\ \A cell \in Cells : 
            \/ restored[cell] = (cell[1] + cell[2]) % 2
            \/ cell \notin Area(w.prevX, w.prevY) /\ restored[cell] = map[cell]
  BY DEF RestoreCursorCells
<1>2. \A cell \in Cells : restored[cell] = (cell[1] + cell[2]) % 2
  BY <1>1 DEF MapOK
<1> HIDE DEF restored
<1>3. DOMAIN drawn = Cells
  BY <1>1 DEF Drawn, DrawCursorCells, restored
<1>4. ASSUME NEW cell \in Cells \ Area(w.x, w.y)
      PROVE  drawn[cell] = restored[cell]
  <2>1. /\ cell # <<w.x, w.y>> /\ cell # <<w.x + 1, w.y>>
        /\ cell # <<w.x, w.y + 1>> /\ cell # <<w.x + 1, w.y + 1>>
    BY DEF Area
  <2> QED
    BY <1>1, <2>1 DEF Drawn, DrawCursorCells, restored
<1> HIDE DEF drawn
<1> QED
  BY <1>2, <1>3, <1>4 DEF MapOK, drawn

LEMMA SmokeInvInit == SmokeInit => SmokeInv
<1> SUFFICES ASSUME SmokeInit PROVE SmokeInv
  OBVIOUS
<1>1. /\ wram = ResetSceneState /\ bgmap = Drawn(FillBackgroundMap, ResetSceneState)
      /\ rBGP = ApplyPalette(ResetSceneState) /\ log = NoLog /\ model = JoypadBgSmokeState
  BY DEF SmokeInit
<1>2. WramOK(wram) /\ wram.prevX = wram.x /\ wram.prevY = wram.y
  BY <1>1, SmokeAssumption DEF WramOK, Wram, ResetSceneState
<1>3. model = ModelOf(wram)
  BY <1>1 DEF JoypadBgSmokeState, ModelOf, ResetSceneState
<1>4. MapOK(FillBackgroundMap, wram)
  BY DEF FillBackgroundMap, MapOK
<1>5. MapOK(bgmap, wram)
  BY <1>1, <1>2, <1>4, DrawnOK
<1> QED
  BY <1>1, <1>2, <1>3, <1>5 DEF SmokeInv

LEMMA SmokeInvStep == SmokeInv /\ [SmokeNext]_smokeVars => SmokeInv'
<1> SUFFICES ASSUME SmokeInv, [SmokeNext]_smokeVars PROVE SmokeInv'
  OBVIOUS
<1>1. CASE UNCHANGED smokeVars
  BY <1>1 DEF smokeVars, SmokeInv
<1>2. ASSUME NEW held \in Presses, MainLoop(held)
      PROVE  SmokeInv'
  <2> DEFINE w == HandleInputEdges(wram, held)
             one == wram.frame + 1
  <2>1. /\ bgmap' = Drawn(bgmap, w) /\ rBGP' = ApplyPalette(w)
        /\ wram' = [Settled(w) EXCEPT !.frame = @ + 1]
        /\ log' = (IF wram.frame + 1 < SCRIPT_FRAME_COUNT THEN NoLog
                   ELSE [x |-> w.x, y |-> w.y, flags |-> w.style + 2 * w.invert])
        /\ model' = step_joypad_bg_smoke_state(model, held)
    BY <1>2 DEF MainLoop
  <2>2. WramOK(wram) /\ model = ModelOf(wram) /\ wram.prevX = wram.x /\ wram.prevY = wram.y
    BY DEF SmokeInv
  <2>3. /\ WramOK(w) /\ w.frame = wram.frame /\ w.prevX = wram.x /\ w.prevY = wram.y
        /\ model' = ModelOf(w)
    BY <2>1, <2>2, InputsAsModel
  <2> HIDE DEF w
  <2>4. MapOK(bgmap', w)
    BY <2>1, <2>3, DrawnOK DEF SmokeInv
  <2>5. wram' = Wram(one, w.palette, w.style, w.invert, w.prevDirections, w.prevButtons,
                     w.x, w.x, w.y, w.y)
    <3> DEFINE pal == w.palette
               sty == w.style
               inv == w.invert
               px == w.prevX
               py == w.prevY
               x == w.x
               y == w.y
               pd == w.prevDirections
               pb == w.prevButtons
               f == w.frame
    <3>1. w = Wram(f, pal, sty, inv, pd, pb, x, px, y, py)
      BY <2>3 DEF WramOK
    <3>2. wram' = [[w EXCEPT !.prevX = x, !.prevY = y] EXCEPT !.frame = @ + 1] /\ f + 1 = one
      BY <2>1, <2>3 DEF Settled
    <3> HIDE DEF pal, sty, inv, px, py, x, y, pd, pb, f, one
    <3>3. wram' = Wram(one, pal, sty, inv, pd, pb, x, x, y, y)
      BY <3>1, <3>2 DEF Wram
    <3> QED
      BY <3>3 DEF pal, sty, inv, x, y, pd, pb
  <2>6. PICK u : u = wram'
    OBVIOUS
  <2>7. /\ u.palette = w.palette /\ u.style = w.style /\ u.invert = w.invert
        /\ u.prevDirections = w.prevDirections /\ u.prevButtons = w.prevButtons
        /\ u.x = w.x /\ u.prevX = w.x /\ u.y = w.y /\ u.prevY = w.y /\ u.frame = one
    BY <2>5, <2>6 DEF Wram
  <2>8. WramOK(u)
    BY <2>3, <2>5, <2>6, <2>7 DEF WramOK
  <2>9. ModelOf(u) = model' /\ MapOK(bgmap', u) /\ rBGP' = ApplyPalette(u)
    BY <2>1, <2>3, <2>4, <2>7 DEF ModelOf, MapOK, ApplyPalette
  <2>10. log' # NoLog => log' = [x |-> u.x, y |-> u.y, flags |-> u.style + 2 * u.invert]
    BY <2>1, <2>7
  <2>11. NoLog' = NoLog
    BY DEF NoLog
  <2> QED
    BY <2>6, <2>7, <2>8, <2>9, <2>10, <2>11 DEF SmokeInv, WramOK, ModelOf, MapOK, ApplyPalette
<1> QED
  BY <1>1, <1>2 DEF SmokeNext

(* After every frame the demonstration ROM is where the Python model is, and *)
(* leaves nothing of an earlier position on the screen (joypad_bg_smoke.asm  *)
(* against joypad_bg_smoke.py).                                              *)
THEOREM SmokeTheorem == SmokeSpec => []SmokeFollowsReference
<1>1. SmokeInv => SmokeFollowsReference
  <2> SUFFICES ASSUME SmokeInv PROVE SmokeFollowsReference
    OBVIOUS
  <2>1. WramOK(wram) /\ model = ModelOf(wram) /\ rBGP = ApplyPalette(wram) /\ MapOK(bgmap, wram)
    BY DEF SmokeInv
  <2>2. rBGP = palette_byte_for_state(model)
    BY <2>1 DEF ApplyPalette, palette_byte_for_state, ModelOf
  <2>3. \A cell \in Cells \ Area(wram.x, wram.y) :
           TileColour[bgmap[cell]] = RenderedColour(model, cell)
    BY <2>1, MapAsRendered
  <2>4. log # NoLog => log = [x |-> model.cursor_x, y |-> model.cursor_y,
                              flags |-> model.cursor_style + 2 * model.invert_palette]
    BY DEF SmokeInv, ModelOf
  <2> QED
    BY <2>1, <2>2, <2>3, <2>4 DEF SmokeFollowsReference, ModelOf
<1> QED
  BY <1>1, SmokeInvInit, SmokeInvStep, PTL DEF SmokeSpec

(******************************** the oracle *********************************)
(* A set of naturals has a least element.                                    *)
LEMMA Least ==
    ASSUME NEW T, T \subseteq Nat, T # {}
    PROVE  \E x \in T : \A y \in T : x <= y
<1>1. IsWellFoundedOn(OpToRel(<, Nat), Nat)
  BY NatLessThanWellFounded
<1>2. PICK x \in T : \A y \in T : ~ (<<y, x>> \in OpToRel(<, Nat))
  BY <1>1, WFMin
<1>3. \A y \in T : ~ y < x
  BY <1>2 DEF OpToRel
<1> QED
  BY <1>3

(* Induction, for a property that is a set.                                  *)
LEMMA Induction ==
    ASSUME NEW T, 0 \in T, \A n \in Nat : n \in T => n + 1 \in T
    PROVE  Nat \subseteq T
<1> SUFFICES ASSUME Nat \ T # {} PROVE FALSE
  OBVIOUS
<1>1. PICK x \in Nat \ T : \A y \in Nat \ T : x <= y
  BY Least
<1>2. x # 0 /\ x - 1 \in Nat /\ x - 1 + 1 = x
  BY <1>1
<1>3. x - 1 \in T
  BY <1>1, <1>2
<1> QED
  BY <1>2, <1>3
-----------------------------------------------------------------------------
(* The elements of s that are in D, up to each position: what a recursive    *)
(* definition of them has to satisfy.                                        *)
FilterStep(g, s, D, i) ==
    IF i = 0 THEN <<>>
    ELSE g[i - 1] \o IF s[i] \in D THEN <<s[i]>> ELSE <<>>

Filters(g, s, D) == g = [i \in 0 .. Len(s) |-> FilterStep(g, s, D, i)]

LEMMA FilterExists ==
    ASSUME NEW S, NEW s \in Seq(S), NEW D
    PROVE  \E g : Filters(g, s, D)
<1> DEFINE Upto(n) == \E g : g = [i \in 0 .. n |-> FilterStep(g, s, D, i)]
           T == {n \in Nat : Upto(n)}
<1>1. 0 \in T
  <2> DEFINE g == [i \in 0 .. 0 |-> <<>>]
  <2>1. g = [i \in 0 .. 0 |-> FilterStep(g, s, D, i)]
    BY DEF FilterStep
  <2> QED
    BY <2>1
<1>2. ASSUME NEW n \in Nat, n \in T
      PROVE  n + 1 \in T
  <2>1. PICK g : g = [i \in 0 .. n |-> FilterStep(g, s, D, i)]
    BY <1>2
  <2> DEFINE h == [i \in 0 .. n + 1 |-> IF i <= n THEN g[i] ELSE FilterStep(g, s, D, i)]
  <2>2. ASSUME NEW i \in 0 .. n + 1
        PROVE  h[i] = FilterStep(h, s, D, i)
    <3>1. i # 0 => i - 1 \in 0 .. n /\ h[i - 1] = g[i - 1]
      OBVIOUS
    <3>2. FilterStep(h, s, D, i) = FilterStep(g, s, D, i)
      <4> HIDE DEF h
      <4> QED
        BY <3>1, Zenon DEF FilterStep
    <3>3. i <= n => g[i] = FilterStep(g, s, D, i)
      BY <2>1
    <3>4. h[i] = IF i <= n THEN g[i] ELSE FilterStep(g, s, D, i)
      OBVIOUS
    <3> HIDE DEF h
    <3> QED
      BY <3>2, <3>3, <3>4
  <2>3. h = [i \in 0 .. n + 1 |-> FilterStep(h, s, D, i)]
    BY <2>2
  <2> HIDE DEF h
  <2>4. Upto(n + 1)
    BY <2>3
  <2> QED
    BY <2>4
<1>3. Len(s) \in T
  <2>1. Len(s) \in Nat
    OBVIOUS
  <2> HIDE DEF T
  <2> QED
    BY <1>1, <1>2, <2>1, Induction
<1> QED
  BY <1>3 DEF Filters

LEMMA FilterIsSeq ==
    ASSUME NEW S, NEW s \in Seq(S), NEW D, NEW g, Filters(g, s, D)
    PROVE  g[Len(s)] \in Seq(D)
<1> DEFINE T == {n \in Nat : n <= Len(s) => g[n] \in Seq(D)}
<1>1. Len(s) \in Nat
  OBVIOUS
<1>2. \A i \in 0 .. Len(s) : g[i] = FilterStep(g, s, D, i)
  BY DEF Filters
<1>3. 0 \in T
  <2>1. FilterStep(g, s, D, 0) = <<>>
    BY DEF FilterStep
  <2>2. g[0] = <<>>
    BY <1>1, <1>2, <2>1
  <2>3. <<>> \in Seq(D)
    OBVIOUS
  <2>4. g[0] \in Seq(D)
    BY <2>2, <2>3, Zenon
  <2> QED
    BY <2>4
<1>4. ASSUME NEW n \in Nat, n \in T
      PROVE  n + 1 \in T
  <2>1. CASE n + 1 <= Len(s)
    <3>1. g[n] \in Seq(D)
      BY <1>1, <1>4, <2>1
    <3>2. PICK m \in 0 .. Len(s) : m = n + 1 /\ m # 0 /\ m - 1 = n
      BY <1>1, <2>1
    <3>3. g[m] = FilterStep(g, s, D, m)
      BY <1>2
    <3>4. g[m] = g[n] \o IF s[m] \in D THEN <<s[m]>> ELSE <<>>
      <4>1. FilterStep(g, s, D, m) = g[m - 1] \o IF s[m] \in D THEN <<s[m]>> ELSE <<>>
        BY <3>2, Zenon DEF FilterStep
      <4> QED
        BY <3>2, <3>3, <4>1
    <3> DEFINE more == IF s[m] \in D THEN <<s[m]>> ELSE <<>>
    <3>5. more \in Seq(D)
      <4>1. CASE s[m] \in D
        BY <4>1
      <4>2. CASE s[m] \notin D
        BY <4>2
      <4> QED
        BY <4>1, <4>2, Zenon
    <3>6. g[m] = g[n] \o more
      BY <3>4
    <3> HIDE DEF more
    <3>7. g[m] \in Seq(D)
      BY <3>1, <3>5, <3>6
    <3> QED
      BY <3>2, <3>7
  <2>2. CASE ~ n + 1 <= Len(s)
    BY <2>2
  <2> QED
    BY <2>1, <2>2
<1>5. Len(s) \in T
  <2> HIDE DEF T
  <2> QED
    BY <1>1, <1>3, <1>4, Induction
<1> QED
  BY <1>1, <1>5

(* The program runs for ever: it passes a sequence of addresses every frame. *)
LEMMA PassedIsSeq ==
    ASSUME NEW n \in Int
    PROVE  Passed(n) \in Seq(Nat \X Nat)
<1>1. Len(Program) \in Nat /\ Len(Program) >= 1
  BY OracleAssumption
<1> QED
  BY <1>1, OracleAssumption DEF Passed

LEMMA HooksAreSeq ==
    ASSUME NEW e, NEW n \in Int
    PROVE  HooksIn(e, n) \in Seq(Hooked)
<1> DEFINE passed == Passed(n)
           hooks == CHOOSE g : Filters(g, passed, Hooked)
<1>1. passed \in Seq(Nat \X Nat)
  BY PassedIsSeq
<1>2. Filters(hooks, passed, Hooked)
  BY <1>1, FilterExists
<1>3. hooks[Len(passed)] \in Seq(Hooked)
  <2> HIDE DEF passed, hooks
  <2> QED
    BY <1>1, <1>2, FilterIsSeq
<1>4. HooksIn(e, n) = IF e.hooked THEN hooks[Len(passed)] ELSE <<>>
  BY DEF HooksIn, Filters, FilterStep
<1>5. <<>> \in Seq(Hooked)
  OBVIOUS
<1> HIDE DEF passed, hooks
<1> QED
  BY <1>3, <1>4, <1>5

(* The clock of frames is a number.                                          *)
LEMMA FramesRunNat == FramesRun \in Nat
<1> DEFINE firing == {n \in 1 .. max_frames_per_commit :
                         HooksIn(emulator, emulator.frame + n) # <<>>}
                     \cup {max_frames_per_commit}
<1>1. firing \subseteq Nat /\ firing # {}
  BY OracleAssumption
<1>2. FramesRun = CHOOSE n \in firing : \A m \in firing : n <= m
  BY DEF FramesRun, Min
<1> HIDE DEF firing
<1>3. \E n \in firing : \A m \in firing : n <= m
  BY <1>1, Least
<1> QED
  BY <1>1, <1>2, <1>3
-----------------------------------------------------------------------------
(* Sequences, of whatever they are.                                          *)
Sequence(s) == \E S : s \in Seq(S)

LEMMA SeqOps ==
    ASSUME NEW s, Sequence(s), NEW t, Sequence(t)
    PROVE  /\ Len(s) \in Nat /\ DOMAIN s = 1 .. Len(s)
           /\ Sequence(s \o t) /\ Len(s \o t) = Len(s) + Len(t)
           /\ \A i \in 1 .. Len(s) : (s \o t)[i] = s[i]
           /\ \A i \in 1 .. Len(t) : (s \o t)[Len(s) + i] = t[i]
<1>1. PICK S : s \in Seq(S)
  BY DEF Sequence
<1>2. PICK T : t \in Seq(T)
  BY DEF Sequence
<1>3. s \in Seq(S \cup T) /\ t \in Seq(S \cup T)
  BY <1>1, <1>2
<1>4. s \o t \in Seq(S \cup T)
  BY <1>3
<1>5. Len(s \o t) = Len(s) + Len(t) /\ Len(s) \in Nat /\ DOMAIN s = 1 .. Len(s)
  BY <1>3
<1>6. \A i \in 1 .. Len(s) : (s \o t)[i] = s[i]
  BY <1>3
<1>7. \A i \in 1 .. Len(t) : (s \o t)[Len(s) + i] = t[i]
  BY <1>3
<1> QED
  BY <1>4, <1>5, <1>6, <1>7 DEF Sequence

LEMMA AppendOps ==
    ASSUME NEW s, Sequence(s), NEW x
    PROVE  /\ Sequence(Append(s, x)) /\ Len(Append(s, x)) = Len(s) + 1
           /\ \A i \in 1 .. Len(s) : Append(s, x)[i] = s[i]
           /\ Append(s, x)[Len(s) + 1] = x
<1>1. PICK S : s \in Seq(S)
  BY DEF Sequence
<1>2. s \in Seq(S \cup {x}) /\ x \in S \cup {x}
  BY <1>1
<1>3. Append(s, x) \in Seq(S \cup {x})
  BY <1>2
<1>4. /\ Len(Append(s, x)) = Len(s) + 1
      /\ \A i \in 1 .. Len(s) : Append(s, x)[i] = s[i]
      /\ Append(s, x)[Len(s) + 1] = x
  BY <1>2
<1> QED
  BY <1>3, <1>4 DEF Sequence

(* Taking the first of what waits changes nothing in what there was.         *)
LEMMA TakeOne ==
    ASSUME NEW s, Sequence(s), NEW t, Sequence(t), t # <<>>
    PROVE  /\ Sequence(Tail(t)) /\ Append(s, Head(t)) \o Tail(t) = s \o t
           /\ Head(t) = t[1] /\ Len(t) >= 1 
<1>1. PICK S : s \in Seq(S)
  BY DEF Sequence
<1>2. PICK T : t \in Seq(T)
  BY DEF Sequence
<1>3. s \in Seq(S \cup T) /\ t \in Seq(S \cup T)
  BY <1>1, <1>2
<1>4. Tail(t) \in Seq(S \cup T) /\ Head(t) \in S \cup T
  BY <1>3
<1>5. Append(s, Head(t)) \in Seq(S \cup T)
  BY <1>3, <1>4
<1>6. Append(s, Head(t)) \o Tail(t) = s \o t
  BY <1>3, <1>4, <1>5
<1>7. Head(t) = t[1] /\ Len(t) >= 1
  BY <1>3
<1> QED
  BY <1>4, <1>6, <1>7 DEF Sequence

LEMMA EmptyIsSeq == Sequence(<<>>)
<1>1. <<>> \in Seq({})
  OBVIOUS
<1> QED
  BY <1>1 DEF Sequence

LEMMA EmptyAdds ==
    ASSUME NEW s, Sequence(s)
    PROVE  s \o <<>> = s
<1>1. PICK S : s \in Seq(S)
  BY DEF Sequence
<1> QED
  BY <1>1

(* The commits of one frame are numbered and labelled by their addresses.    *)
LabelsAt(key) == {s.label : s \in {t \in Hookable : Key(t) = key}}

LEMMA CommitsAreSeq ==
    ASSUME NEW keys \in Seq(Hooked), NEW first \in Nat, NEW held, NEW bits
    PROVE  /\ Sequence(Commits(keys, first, held, bits))
           /\ Len(Commits(keys, first, held, bits)) = Len(keys)
           /\ \A i \in 1 .. Len(keys) :
                 /\ Commits(keys, first, held, bits)[i].seq = first + i - 1
                 /\ Commits(keys, first, held, bits)[i].labels =
                       LabelsAt(Commits(keys, first, held, bits)[i].key)
<1> DEFINE c == Commits(keys, first, held, bits)
<1>1. DOMAIN keys = 1 .. Len(keys) /\ Len(keys) \in Nat
  OBVIOUS
<1>2. DOMAIN c = 1 .. Len(keys)
  BY <1>1 DEF Commits
<1>3. ASSUME NEW i \in 1 .. Len(keys)
      PROVE  c[i].seq = first + i - 1 /\ c[i].labels = LabelsAt(c[i].key)
  <2>1. /\ c[i].seq = first + i - 1 /\ c[i].key = keys[i] /\ c[i].labels = HookManifest[keys[i]]
    BY <1>1 DEF Commits
  <2>2. keys[i] \in Hooked
    OBVIOUS
  <2>3. HookManifest[keys[i]] = LabelsAt(keys[i])
    BY <2>2 DEF HookManifest, LabelsAt
  <2> QED
    BY <2>1, <2>3
<1>4. c = [i \in 1 .. Len(keys) |-> c[i]]
  BY <1>1 DEF Commits
<1>5. c \in Seq({c[i] : i \in 1 .. Len(keys)}) /\ Len(c) = Len(keys)
  <2> HIDE DEF c
  <2> DEFINE C == {c[i] : i \in 1 .. Len(keys)}
  <2>1. c \in [1 .. Len(keys) -> C]
    BY <1>4
  <2> HIDE DEF C
  <2>2. c \in Seq(C)
    BY <1>1, <2>1
  <2>3. Len(c) = Len(keys)
    BY <1>1, <1>2, <2>2
  <2> QED
    BY <2>2, <2>3 DEF C
<1> QED
  BY <1>3, <1>5 DEF Sequence
-----------------------------------------------------------------------------
(* What was taken and what waits is what the program has made, each with its *)
(* number and the labels of its address.                                     *)
InOrder(taken, waiting, made, n) ==
    /\ Sequence(taken) /\ Sequence(waiting) /\ Sequence(made)
    /\ taken \o waiting = made /\ n = Len(made)
    /\ \A i \in 1 .. Len(made) : made[i].seq = i - 1 /\ made[i].labels = LabelsAt(made[i].key)

EmulatorOK(e) ==
    /\ e = [frame |-> e.frame, held |-> e.held, events |-> e.events, flags |-> e.flags,
            hooked |-> e.hooked]
    /\ e.frame \in Int /\ e.hooked \in BOOLEAN

OracleInv ==
    /\ EmulatorOK(emulator) /\ InOrder(got, queue, fired, seq)
    /\ saved # NoSnapshot =>
          /\ EmulatorOK(saved.emulator)
          /\ InOrder(saved.got, saved.queue, saved.fired, saved.seq)

LEMMA EmptyInOrder == InOrder(<<>>, <<>>, <<>>, 0)
<1>1. <<>> \o <<>> = <<>> /\ Len(<<>>) = 0
  BY EmptyIsSeq, EmptyAdds
<1>2. 1 .. 0 = {}
  OBVIOUS
<1> QED
  BY <1>1, <1>2, EmptyIsSeq DEF InOrder

(* A step takes the commit that comes after those taken.                     *)
LEMMA StepInOrder ==
    ASSUME OracleInv, step_commit
    PROVE  /\ OracleInv'
           /\ TimedOut => got' = got
           /\ ~ TimedOut => /\ Head(Stepped.commits).seq = Len(got)
                            /\ Len(got') = Len(got) + 1 /\ Len(got) \in Nat
<1> DEFINE c == Stepped.commits
           w == Stepped.new
           n == FramesRun
           held == ApplyEvents(emulator.held, emulator.events)
           keys == HooksIn(emulator, emulator.frame + n)
<1>1. /\ emulator' = Stepped.emulator /\ queue' = TakeFirst(c) /\ seq' = seq + Len(w)
      /\ fired' = fired \o w /\ got' = (IF TimedOut THEN got ELSE Append(got, Head(c)))
      /\ saved' = saved
  BY DEF step_commit
<1>2. /\ Sequence(got) /\ Sequence(queue) /\ Sequence(fired) /\ got \o queue = fired
      /\ seq = Len(fired) /\ Len(fired) \in Nat /\ Len(got) \in Nat
      /\ \A i \in 1 .. Len(fired) :
            fired[i].seq = i - 1 /\ fired[i].labels = LabelsAt(fired[i].key)
  BY SeqOps DEF OracleInv, InOrder
<1>3. emulator.frame \in Int /\ n \in Nat
  BY FramesRunNat DEF OracleInv, EmulatorOK
<1>4. keys \in Seq(Hooked)
  BY <1>3, HooksAreSeq
<1>5. /\ Sequence(c) /\ Sequence(w) /\ got \o c = fired \o w
      /\ \A i \in 1 .. Len(w) :
            w[i].seq = Len(fired) + i - 1 /\ w[i].labels = LabelsAt(w[i].key)
  <2>1. CASE CommitWaits
    <3>1. c = queue /\ w = <<>>
      BY <2>1 DEF Stepped
    <3>2. fired \o <<>> = fired
      BY <1>2, EmptyAdds
    <3>3. 1 .. Len(w) = {}
      BY <3>1
    <3> HIDE DEF c, w
    <3> QED
      BY <1>2, <3>1, <3>2, <3>3, EmptyIsSeq
  <2>2. CASE ~ CommitWaits
    <3>1. c = Commits(keys, seq, held, emulator.flags) /\ w = Commits(keys, seq, held, emulator.flags)
      BY <1>2, <2>2 DEF Stepped
    <3>2. queue = <<>>
      BY <2>2 DEF CommitWaits
    <3>3. got = fired
      BY <1>2, <3>2, EmptyAdds
    <3> HIDE DEF c, w, keys, held
    <3>4. /\ Sequence(w) /\ Len(w) = Len(keys)
          /\ \A i \in 1 .. Len(keys) : w[i].seq = seq + i - 1 /\ w[i].labels = LabelsAt(w[i].key)
      BY <1>2, <1>4, <3>1, CommitsAreSeq
    <3> QED
      BY <1>2, <3>1, <3>3, <3>4
  <2> QED
    BY <2>1, <2>2
<1>6. EmulatorOK(emulator')
  <2>1. CASE CommitWaits
    <3>1. emulator' = emulator
      BY <1>1, <2>1 DEF Stepped
    <3> QED
      BY <3>1 DEF OracleInv
  <2>2. CASE ~ CommitWaits
    <3>1. emulator' = [emulator EXCEPT !.frame = @ + n, !.held = held, !.events = <<>>]
      BY <1>1, <2>2 DEF Stepped
    <3> HIDE DEF n, held
    <3>2. emulator = [frame |-> emulator.frame, held |-> emulator.held, events |-> emulator.events,
                      flags |-> emulator.flags, hooked |-> emulator.hooked]
          /\ emulator.hooked \in BOOLEAN
      BY DEF OracleInv, EmulatorOK
    <3>3. emulator' = [frame |-> emulator.frame + n, held |-> held, events |-> <<>>,
                       flags |-> emulator.flags, hooked |-> emulator.hooked]
      BY <3>1, <3>2
    <3> QED
      BY <1>3, <3>2, <3>3 DEF EmulatorOK
  <2> QED
    BY <2>1, <2>2
<1>7. TimedOut <=> c = <<>>
  BY DEF TimedOut
<1>8. Sequence(got') /\ Sequence(queue') /\ got' \o queue' = got \o c
  <2>1. CASE c = <<>>
    BY <1>1, <1>2, <1>7, <2>1, EmptyIsSeq DEF TakeFirst
  <2>2. CASE c # <<>>
    <3>1. got' = Append(got, Head(c)) /\ queue' = Tail(c)
      BY <1>1, <1>7, <2>2 DEF TakeFirst
    <3> HIDE DEF c
    <3> QED
      BY <1>2, <1>5, <2>2, <3>1, TakeOne, AppendOps
  <2> QED
    BY <2>1, <2>2
<1> HIDE DEF c, w, keys, held, n
<1>9. /\ Sequence(fired') /\ Len(fired') = Len(fired) + Len(w) /\ Len(w) \in Nat
      /\ \A i \in 1 .. Len(fired) : fired'[i] = fired[i]
      /\ \A i \in 1 .. Len(w) : fired'[Len(fired) + i] = w[i]
  BY <1>1, <1>2, <1>5, SeqOps
<1>10. ASSUME NEW i \in 1 .. Len(fired')
       PROVE  fired'[i].seq = i - 1 /\ fired'[i].labels = LabelsAt(fired'[i].key)
  <2>1. CASE i <= Len(fired)
    BY <1>2, <1>9, <2>1
  <2>2. CASE i > Len(fired)
    <3>1. PICK j \in 1 .. Len(w) : i = Len(fired) + j
      <4>1. i - Len(fired) \in 1 .. Len(w) /\ i = Len(fired) + (i - Len(fired))
        BY <1>2, <1>9, <2>2
      <4> QED
        BY <4>1
    <3>2. fired'[i] = w[j]
      BY <1>9, <3>1
    <3>3. w[j].seq = Len(fired) + j - 1 /\ w[j].labels = LabelsAt(w[j].key)
      BY <1>5
    <3>4. Len(fired) + j - 1 = i - 1
      BY <3>1
    <3> QED
      BY <3>2, <3>3, <3>4
  <2> QED
    BY <1>2, <1>9, <2>1, <2>2
<1>11. InOrder(got', queue', fired', seq')
  <2>1. got' \o queue' = fired' /\ seq' = Len(fired')
    BY <1>1, <1>2, <1>5, <1>8, <1>9
  <2> QED
    BY <1>8, <1>9, <1>10, <2>1 DEF InOrder
<1>12. OracleInv'
  <2>1. saved' = saved /\ NoSnapshot' = NoSnapshot
    BY <1>1 DEF NoSnapshot, Off
  <2>2. InOrder(got, queue, fired, seq)' /\ EmulatorOK(emulator)'
    BY <1>6, <1>11
  <2> QED
    BY <1>1, <2>1, <2>2 DEF OracleInv
<1>13. ~ TimedOut => /\ Head(c).seq = Len(got)
                     /\ Len(got') = Len(got) + 1
  <2> SUFFICES ASSUME c # <<>> PROVE Head(c).seq = Len(got) /\ Len(got') = Len(got) + 1
    BY <1>7
  <2>1. got' = Append(got, Head(c)) /\ Len(got') = Len(got) + 1
    BY <1>1, <1>2, <1>7, AppendOps
  <2>2. Head(c) = c[1] /\ Len(c) >= 1 /\ Len(c) \in Nat
    BY <1>2, <1>5, TakeOne, SeqOps
  <2>3. (got \o c)[Len(got) + 1] = c[1] /\ Len(got \o c) = Len(got) + Len(c)
    <3>1. 1 \in 1 .. Len(c)
      BY <2>2
    <3>2. (got \o c)[Len(got) + 1] = c[1]
      <4>1. Sequence(got) /\ Sequence(c)
        BY <1>2, <1>5
      <4>2. \A i \in 1 .. Len(c) : (got \o c)[Len(got) + i] = c[i]
        BY <4>1, SeqOps
      <4> QED
        BY <3>1, <4>2
    <3> QED
      BY <1>2, <1>5, <3>2, SeqOps
  <2>4. fired'[Len(got) + 1] = c[1] /\ Len(got) + 1 \in 1 .. Len(fired')
    BY <1>1, <1>2, <1>5, <2>2, <2>3
  <2>5. fired'[Len(got) + 1].seq = Len(got)
    BY <1>2, <1>10, <2>4
  <2> QED
    BY <2>1, <2>2, <2>4, <2>5
<1> QED
  BY <1>1, <1>2, <1>12, <1>13 DEF c

LEMMA OracleInvInit == OracleInit => OracleInv
<1> SUFFICES ASSUME OracleInit PROVE OracleInv
  OBVIOUS
<1>1. EmulatorOK(emulator)
  BY DEF OracleInit, Off, EmulatorOK
<1>2. InOrder(got, queue, fired, seq)
  BY EmptyInOrder DEF OracleInit
<1>3. saved = NoSnapshot
  BY DEF OracleInit
<1> QED
  BY <1>1, <1>2, <1>3 DEF OracleInv

(* The other calls of the oracle: they set it up, keep it, or change what    *)
(* the program is to see.                                                    *)
LEMMA CallInOrder ==
    ASSUME OracleInv,
           \/ \E machine, profile : reset(machine, profile)
           \/ close \/ snapshot \/ restore
           \/ \E target : write_buttons(target)
           \/ \E bits : write_flags(bits)
           \/ UNCHANGED oracleVars
    PROVE  OracleInv'
<1>1. NoSnapshot' = NoSnapshot
  BY DEF NoSnapshot, Off
<1>2. CASE \E machine, profile : reset(machine, profile)
  <2>1. PICK machine, profile : reset(machine, profile)
    BY <1>2
  <2>2. /\ queue' = <<>> /\ seq' = 0 /\ got' = <<>> /\ fired' = <<>> /\ saved' = saved
    BY <2>1 DEF reset
  <2>3. InOrder(got', queue', fired', seq')
    BY <2>2, EmptyInOrder
  <2>4. EmulatorOK(emulator')
    <3>1. CASE ResetFails(machine, profile) /\ profile = "RawPowerOn"
      BY <2>1, <3>1 DEF reset, EmulatorOK, Off
    <3>2. CASE ~ (ResetFails(machine, profile) /\ profile = "RawPowerOn")
      <4>1. emulator' =
              [frame |-> IF profile = "RawPowerOn" THEN -BootFrames ELSE 0,
               held |-> {}, events |-> <<>>,
               flags |-> IF profile = "SkipBoot" /\ machine = "DMG" THEN {0} ELSE {},
               hooked |-> ~ResetFails(machine, profile)]
        BY <2>1, <3>2 DEF reset
      <4>2. -BootFrames \in Int /\ 0 \in Int
        BY OracleAssumption
      <4>3. (~ResetFails(machine, profile)) \in BOOLEAN
        OBVIOUS
      <4>4. emulator'.frame \in Int /\ emulator'.hooked \in BOOLEAN
        BY <4>1, <4>2, <4>3
      <4>5. emulator' = [frame |-> emulator'.frame, held |-> emulator'.held,
                         events |-> emulator'.events, flags |-> emulator'.flags,
                         hooked |-> emulator'.hooked]
        BY <4>1
      <4> QED
        BY <4>4, <4>5 DEF EmulatorOK
    <3> QED
      BY <3>1, <3>2
  <2>5. InOrder(got, queue, fired, seq)' /\ EmulatorOK(emulator)'
    BY <2>3, <2>4
  <2> QED
    BY <1>1, <2>2, <2>5 DEF OracleInv
<1>3. CASE close
  <2>1. emulator' = Off /\ UNCHANGED <<queue, seq, saved, got, fired>>
    BY <1>3 DEF close
  <2>2. EmulatorOK(emulator')
    BY <2>1 DEF EmulatorOK, Off
  <2>3. InOrder(got', queue', fired', seq')
    BY <2>1 DEF OracleInv
  <2>4. InOrder(got, queue, fired, seq)' /\ EmulatorOK(emulator)'
    BY <2>2, <2>3
  <2> QED
    BY <1>1, <2>1, <2>4 DEF OracleInv
<1>4. CASE snapshot
  <2>1. saved' = Payload /\ UNCHANGED <<emulator, queue, seq, got, fired>>
    BY <1>4 DEF snapshot
  <2>2. /\ saved'.emulator = emulator /\ saved'.got = got /\ saved'.queue = queue
        /\ saved'.fired = fired /\ saved'.seq = seq
    BY <2>1 DEF Payload
  <2>3. EmulatorOK(saved'.emulator) /\ InOrder(saved'.got, saved'.queue, saved'.fired, saved'.seq)
    BY <2>2 DEF OracleInv
  <2>4. EmulatorOK(emulator') /\ InOrder(got', queue', fired', seq')
    BY <2>1 DEF OracleInv
  <2>5. /\ EmulatorOK(emulator)' /\ InOrder(got, queue, fired, seq)'
        /\ EmulatorOK(saved.emulator)' /\ InOrder(saved.got, saved.queue, saved.fired, saved.seq)'
    BY <2>3, <2>4
  <2> QED
    BY <2>5 DEF OracleInv
<1>5. CASE restore
  <2>1. /\ saved # NoSnapshot /\ saved' = saved
        /\ emulator' = [saved.emulator EXCEPT !.hooked = emulator.hooked]
        /\ queue' = saved.queue /\ seq' = saved.seq /\ got' = saved.got /\ fired' = saved.fired
    BY <1>5 DEF restore
  <2>2. /\ EmulatorOK(saved.emulator)
        /\ InOrder(saved.got, saved.queue, saved.fired, saved.seq) /\ emulator.hooked \in BOOLEAN
    BY <2>1 DEF OracleInv, EmulatorOK
  <2>3. EmulatorOK(emulator')
    <3> DEFINE e == saved.emulator
    <3>1. e = [frame |-> e.frame, held |-> e.held, events |-> e.events, flags |-> e.flags,
               hooked |-> e.hooked] /\ e.frame \in Int
      BY <2>2 DEF EmulatorOK
    <3> HIDE DEF e
    <3>2. emulator' = [e EXCEPT !.hooked = emulator.hooked]
      BY <2>1 DEF e
    <3>3. emulator' = [frame |-> e.frame, held |-> e.held, events |-> e.events, flags |-> e.flags,
                       hooked |-> emulator.hooked]
      BY <3>1, <3>2
    <3> QED
      BY <2>2, <3>1, <3>3 DEF EmulatorOK
  <2>4. InOrder(got', queue', fired', seq')
    BY <2>1, <2>2
  <2>5. InOrder(got, queue, fired, seq)' /\ EmulatorOK(emulator)'
    BY <2>3, <2>4
  <2> QED
    BY <1>1, <2>1, <2>5 DEF OracleInv
<1>6. CASE (\E target : write_buttons(target)) \/ \E bits : write_flags(bits)
  <2>1. UNCHANGED <<queue, seq, saved, got, fired>>
    BY <1>6 DEF write_buttons, write_flags
  <2>2. EmulatorOK(emulator')
    <3>1. emulator = [frame |-> emulator.frame, held |-> emulator.held, events |-> emulator.events,
                      flags |-> emulator.flags, hooked |-> emulator.hooked]
          /\ emulator.frame \in Int /\ emulator.hooked \in BOOLEAN
      BY DEF OracleInv, EmulatorOK
    <3>2. \/ \E ev : emulator' = [emulator EXCEPT !.events = ev]
          \/ \E bits : emulator' = [emulator EXCEPT !.flags = bits]
      BY <1>6 DEF write_buttons, write_flags
    <3>3. \E ev, fl : emulator' = [frame |-> emulator.frame, held |-> emulator.held, events |-> ev,
                                   flags |-> fl, hooked |-> emulator.hooked]
      BY <3>1, <3>2
    <3> QED
      BY <3>1, <3>3 DEF EmulatorOK
  <2>3. InOrder(got', queue', fired', seq')
    BY <2>1 DEF OracleInv
  <2>4. InOrder(got, queue, fired, seq)' /\ EmulatorOK(emulator)'
    BY <2>2, <2>3
  <2> QED
    BY <1>1, <2>1, <2>4 DEF OracleInv
<1>7. CASE UNCHANGED oracleVars
  <2>1. UNCHANGED <<emulator, queue, seq, saved, got, fired>>
    BY <1>7 DEF oracleVars
  <2>2. EmulatorOK(emulator') /\ InOrder(got', queue', fired', seq')
    BY <2>1 DEF OracleInv
  <2>3. InOrder(got, queue, fired, seq)' /\ EmulatorOK(emulator)'
    BY <2>2
  <2> QED
    BY <1>1, <2>1, <2>3 DEF OracleInv
<1> QED
  BY <1>2, <1>3, <1>4, <1>5, <1>6, <1>7

LEMMA OracleInvStep == OracleInv /\ [LockstepNext]_lockstepVars => OracleInv'
<1> SUFFICES ASSUME OracleInv, [LockstepNext]_lockstepVars PROVE OracleInv'
  OBVIOUS
<1>1. CASE step_commit
  BY <1>1, StepInOrder
<1>2. CASE ~ step_commit
  <2>1. \/ \E machine, profile : reset(machine, profile)
        \/ close \/ snapshot \/ restore
        \/ \E target : write_buttons(target)
        \/ \E bits : write_flags(bits)
        \/ UNCHANGED oracleVars
    BY <1>2, Zenon DEF LockstepNext, lockstepVars, Reset, Close, Snapshot, Restore, WriteEvent,
       StartCollect, CollectCommit, StartCompare, CompareCommit, StartLockstep, LockstepEvent,
       LockstepCommit
  <2> QED
    BY <2>1, CallInOrder
<1> QED
  BY <1>1, <1>2

(* Commits are handed out once, in order, with their numbers and labels.     *)
THEOREM InOrderTheorem == LockstepSpec => []CommitsInOrder
<1>1. OracleInv => CommitsInOrder
  BY SeqOps DEF OracleInv, InOrder, CommitsInOrder, LabelsAt
<1>2. LockstepInit => OracleInv
  BY OracleInvInit DEF LockstepInit
<1> QED
  BY <1>1, <1>2, OracleInvStep, PTL DEF LockstepSpec

(******************************** the clients ********************************)
(* The clients: what a result says, and what a call has found so far.        *)
VerdictOK(v) ==
    /\ v.kind = "lockstep" =>
        /\ \A i \in 1 .. Len(v.steps) - 1 : StepAgrees(v.steps[i])
        /\ \A i \in 1 .. Len(v.steps) : v.steps[i].commit.seq = v.steps[1].commit.seq + i - 1
        /\ v.matched <=> StepAgrees(v.steps[Len(v.steps)])
        /\ v.matched => Len(v.steps) = commit_limit
    /\ v.kind = "replay" =>
        /\ \A i \in 1 .. Len(v.commits) - 1 : v.commits[i] = v.expected[i]
        /\ v.matched <=> v.commits[Len(v.commits)] = v.expected[Len(v.commits)]
        /\ v.matched => Len(v.commits) = Len(v.expected) \/ is_terminal(v.commits[Len(v.commits)])
        /\ ~ v.matched =>
            /\ Len(v.commits) \in DOMAIN v.window
            /\ \A i \in DOMAIN v.window :
                v.window[i].actual = IF i <= Len(v.commits) THEN <<v.commits[i]>> ELSE <<>>

CollectOK(t) ==
    t.kind = "collect" =>
        t = [kind |-> "collect", origin |-> t.origin, commits |-> t.commits] /\ Sequence(t.commits)

RecordOK(r) == r # NoRecord => Sequence(r.commits) /\ Len(r.commits) >= 1

CompareOK(t) ==
    t.kind = "compare" =>
        /\ t = [kind |-> "compare", commits |-> t.commits, same |-> t.same, expected |-> t.expected]
        /\ Sequence(t.commits) /\ Sequence(t.expected) /\ Len(t.commits) < Len(t.expected)
        /\ \A i \in 1 .. Len(t.commits) : t.commits[i] = t.expected[i]

(* The steps are of the commits taken last.                                  *)
LockstepOK(t, g) ==
    t.kind = "lockstep" =>
        /\ t = [kind |-> "lockstep", wrote |-> t.wrote, steps |-> t.steps]
        /\ Sequence(t.steps)
        /\ \A i \in 1 .. Len(t.steps) :
              /\ StepAgrees(t.steps[i])
              /\ t.steps[i].commit.seq = Len(g) - Len(t.steps) + i - 1

ClientInv ==
    /\ OracleInv /\ VerdictOK(verdict) /\ RecordOK(recorded)
    /\ CollectOK(task) /\ CompareOK(task) /\ LockstepOK(task, got)

LEMMA VerdictIs == VerdictIsFirstDivergence <=> VerdictOK(verdict)
  BY DEF VerdictIsFirstDivergence, VerdictOK

LEMMA AgreesIs ==
    ASSUME NEW step
    PROVE  StepAgrees(step) <=> compare_commit(step.trace) = {}
<1>1. \A field : OracleShows(field) = "same" \/ OracleShows(field) = "unavailable"
  BY DEF OracleShows
<1>2. \A field : FieldAgrees(step, field) <=> step.trace[field] = OracleShows(field)
  BY <1>1 DEF FieldAgrees
<1> QED
  BY <1>2 DEF StepAgrees, compare_commit

(* Nothing to say of a call that has not begun or has failed.                *)
LEMMA OtherKinds ==
    ASSUME NEW t, NEW g
    PROVE  /\ t.kind \notin {"lockstep", "replay"} => VerdictOK(t)
           /\ t.kind \notin {"collect", "compare", "lockstep"} =>
                CollectOK(t) /\ CompareOK(t) /\ LockstepOK(t, g)
           /\ t.kind = "collect" => CompareOK(t) /\ LockstepOK(t, g)
           /\ t.kind = "compare" => CollectOK(t) /\ LockstepOK(t, g)
           /\ t.kind = "lockstep" => CollectOK(t) /\ CompareOK(t)
<1>1. t.kind \notin {"lockstep", "replay"} => VerdictOK(t)
  BY DEF VerdictOK
<1> QED
  BY <1>1 DEF CollectOK, CompareOK, LockstepOK

(* The commits of a recording so far, with the next.                         *)
LEMMA CollectStep ==
    ASSUME ClientInv, CollectCommit
    PROVE  /\ VerdictOK(verdict') /\ RecordOK(recorded')
           /\ CollectOK(task') /\ CompareOK(task') /\ LockstepOK(task', got')
<1> DEFINE commits == Append(task.commits, Head(Stepped.commits))
           done == Len(commits) = CollectLimit \/ is_terminal(commits[Len(commits)])
<1>1. /\ task.kind = "collect" /\ Sequence(task.commits)
      /\ task = [kind |-> "collect", origin |-> task.origin, commits |-> task.commits]
  BY DEF CollectCommit, ClientInv, CollectOK
<1>2. Sequence(commits) /\ Len(commits) = Len(task.commits) + 1 /\ Len(task.commits) \in Nat
  BY <1>1, AppendOps, SeqOps
<1>3. CASE TimedOut
  <2>1. task' = Idle /\ verdict' = [kind |-> "timeout", same |-> FALSE] /\ recorded' = recorded
    BY <1>3 DEF CollectCommit
  <2>2. task'.kind = "idle" /\ verdict'.kind = "timeout"
    BY <2>1 DEF Idle
  <2> QED
    BY <2>1, <2>2, OtherKinds DEF ClientInv
<1>4. CASE ~ TimedOut
  <2>1. /\ task' = IF done THEN Idle ELSE [task EXCEPT !.commits = commits]
        /\ recorded' = IF done THEN [origin |-> task.origin, commits |-> commits] ELSE recorded
        /\ verdict' = verdict
    BY <1>4 DEF CollectCommit
  <2> HIDE DEF commits, done
  <2>2. VerdictOK(verdict')
    BY <2>1 DEF ClientInv
  <2>3. RecordOK(recorded')
    <3>1. CASE done
      <4>1. recorded'.commits = commits
        BY <2>1, <3>1
      <4> QED
        BY <1>2, <4>1 DEF RecordOK
    <3>2. CASE ~ done
      BY <2>1, <3>2 DEF ClientInv
    <3> QED
      BY <3>1, <3>2
  <2>4. CollectOK(task') /\ CompareOK(task') /\ LockstepOK(task', got')
    <3>1. CASE done
      <4>1. task'.kind = "idle"
        BY <2>1, <3>1 DEF Idle
      <4> QED
        BY <4>1, OtherKinds
    <3>2. CASE ~ done
      <4>1. task' = [task EXCEPT !.commits = commits]
        BY <2>1, <3>2
      <4>2. task' = [kind |-> "collect", origin |-> task.origin, commits |-> commits]
        BY <1>1, <4>1
      <4>3. CollectOK(task')
        BY <1>2, <4>2 DEF CollectOK
      <4> QED
        BY <4>2, <4>3, OtherKinds
    <3> QED
      BY <3>1, <3>2
  <2> QED
    BY <2>2, <2>3, <2>4
<1> QED
  BY <1>3, <1>4

(* The window of a mismatch reaches it, and shows what the run has reached.  *)
LEMMA WindowShows ==
    ASSUME NEW expected, Sequence(expected), NEW commits, Sequence(commits),
           Len(commits) >= 1, Len(commits) <= Len(expected)
    PROVE  LET window == CommitWindow(expected, commits, Len(commits))
           IN  /\ Len(commits) \in DOMAIN window
               /\ \A i \in DOMAIN window :
                     window[i].actual = IF i <= Len(commits) THEN <<commits[i]>> ELSE <<>>
<1> DEFINE at == Len(commits)
           first == IF at > window_radius THEN at - window_radius ELSE 1
           last == IF at + window_radius < Len(expected) THEN at + window_radius ELSE Len(expected)
           window == CommitWindow(expected, commits, at)
<1>1. at \in Nat /\ Len(expected) \in Nat /\ at >= 1 /\ at <= Len(expected) /\ window_radius \in Nat
  BY SeqOps, LockstepAssumption
<1>2. at \in first .. last
  <2> HIDE DEF at
  <2> QED
    BY <1>1
<1>3. window = [index \in first .. last |->
                  [expected |-> expected[index],
                   actual |-> IF index <= at THEN <<commits[index]>> ELSE <<>>]]
  BY DEF CommitWindow
<1> HIDE DEF window, first, last, at
<1>4. /\ at \in DOMAIN window
      /\ \A i \in DOMAIN window : window[i].actual = IF i <= at THEN <<commits[i]>> ELSE <<>>
  BY <1>2, <1>3
<1> QED
  BY <1>4 DEF at, window

(* A comparison goes on as long as all agrees.                               *)
LEMMA CompareStep ==
    ASSUME ClientInv, CompareCommit
    PROVE  /\ VerdictOK(verdict') /\ RecordOK(recorded')
           /\ CollectOK(task') /\ CompareOK(task') /\ LockstepOK(task', got')
<1> DEFINE commits == Append(task.commits, Head(Stepped.commits))
           at == Len(commits)
           differs == commits[at] # task.expected[at]
           stops == differs \/ is_terminal(commits[at]) \/ at = Len(task.expected)
           window == IF differs THEN CommitWindow(task.expected, commits, at) ELSE <<>>
<1>1. /\ task.kind = "compare" /\ Sequence(task.commits) /\ Sequence(task.expected)
      /\ Len(task.commits) < Len(task.expected)
      /\ \A i \in 1 .. Len(task.commits) : task.commits[i] = task.expected[i]
      /\ task = [kind |-> "compare", commits |-> task.commits, same |-> task.same,
                 expected |-> task.expected]
  BY DEF CompareCommit, ClientInv, CompareOK
<1>2. /\ Sequence(commits) /\ at = Len(task.commits) + 1 /\ Len(task.commits) \in Nat
      /\ Len(task.expected) \in Nat
      /\ \A i \in 1 .. Len(task.commits) : commits[i] = task.commits[i]
  BY <1>1, AppendOps, SeqOps
<1>3. recorded' = recorded
  BY DEF CompareCommit
<1>4. CASE TimedOut
  <2>1. task' = Idle /\ verdict' = [kind |-> "timeout", same |-> task.same]
    BY <1>4 DEF CompareCommit
  <2>2. task'.kind = "idle" /\ verdict'.kind = "timeout"
    BY <2>1 DEF Idle
  <2> QED
    BY <1>3, <2>2, OtherKinds DEF ClientInv
<1>5. CASE ~ TimedOut /\ stops
  <2>1. /\ task' = Idle
        /\ verdict' = [kind |-> "replay", matched |-> ~differs, same |-> task.same,
                       commits |-> commits, expected |-> task.expected, window |-> window]
    BY <1>5 DEF CompareCommit
  <2>2. task'.kind = "idle"
    BY <2>1 DEF Idle
  <2>3. differs => /\ at \in DOMAIN window
                   /\ \A i \in DOMAIN window :
                         window[i].actual = IF i <= at THEN <<commits[i]>> ELSE <<>>
    <3>1. Sequence(commits) /\ at >= 1 /\ at <= Len(task.expected)
      BY <1>1, <1>2
    <3> HIDE DEF commits
    <3> QED
      BY <1>1, <3>1, WindowShows
  <2>4. \A i \in 1 .. at - 1 : commits[i] = task.expected[i]
    <3> HIDE DEF commits, at
    <3> QED
      BY <1>1, <1>2
  <2>5. /\ verdict'.kind = "replay" /\ verdict'.commits = commits
        /\ verdict'.expected = task.expected /\ verdict'.window = window
        /\ verdict'.matched = ~differs
    BY <2>1
  <2>6. ~differs => at = Len(task.expected) \/ is_terminal(commits[at])
    BY <1>5
  <2>7. VerdictOK(verdict')
    <3> DEFINE v == verdict'
    <3>1. v.matched <=> v.commits[Len(v.commits)] = v.expected[Len(v.commits)]
      BY <2>5
    <3>2. v.matched => Len(v.commits) = Len(v.expected) \/ is_terminal(v.commits[Len(v.commits)])
      BY <2>5, <2>6
    <3>3. ~ v.matched => differs
      BY <2>5
    <3> HIDE DEF commits, window, differs, at, v
    <3>4. ~ v.matched => /\ at \in DOMAIN window
                         /\ \A i \in DOMAIN window :
                               window[i].actual = IF i <= at THEN <<commits[i]>> ELSE <<>>
      BY <2>3, <3>3
    <3> QED
      BY <2>4, <2>5, <3>1, <3>2, <3>4 DEF VerdictOK, at, v
  <2> QED
    BY <1>3, <2>2, <2>7, OtherKinds DEF ClientInv
<1>6. CASE ~ TimedOut /\ ~ stops
  <2>1. task' = [task EXCEPT !.commits = commits] /\ verdict' = verdict
    BY <1>6 DEF CompareCommit
  <2>2. commits[at] = task.expected[at] /\ at # Len(task.expected)
    BY <1>6
  <2> HIDE DEF commits, at
  <2>3. task' = [kind |-> "compare", commits |-> commits, same |-> task.same,
                 expected |-> task.expected]
    BY <1>1, <2>1
  <2>4. \A i \in 1 .. at : commits[i] = task.expected[i]
    BY <1>1, <1>2, <2>2
  <2>5. at < Len(task.expected) /\ at = Len(commits)
    BY <1>1, <1>2, <2>2 DEF at
  <2>6. CompareOK(task')
    BY <1>1, <1>2, <2>3, <2>4, <2>5 DEF CompareOK
  <2>7. task'.kind = "compare"
    BY <2>3
  <2> QED
    BY <1>3, <2>1, <2>6, <2>7, OtherKinds DEF ClientInv
<1> QED
  BY <1>4, <1>5, <1>6

(* A run goes on as long as the fields agree.                                *)
LEMMA LockstepStep ==
    ASSUME ClientInv, LockstepCommit
    PROVE  /\ VerdictOK(verdict') /\ RecordOK(recorded')
           /\ CollectOK(task') /\ CompareOK(task') /\ LockstepOK(task', got')
<1>1. /\ task.kind = "lockstep" /\ Sequence(task.steps)
      /\ \A i \in 1 .. Len(task.steps) :
            /\ StepAgrees(task.steps[i])
            /\ task.steps[i].commit.seq = Len(got) - Len(task.steps) + i - 1
      /\ task = [kind |-> "lockstep", wrote |-> task.wrote, steps |-> task.steps]
  BY DEF LockstepCommit, ClientInv, LockstepOK
<1>2. recorded' = recorded /\ step_commit
  BY DEF LockstepCommit
<1>3. PICK trace \in DutTraces :
        LET commit == Head(Stepped.commits)
            diffs == compare_commit(trace)
            steps == Append(task.steps, [trace |-> trace, commit |-> commit, diffs |-> diffs])
        IN  IF TimedOut
            THEN task' = Idle /\ verdict' = [kind |-> "timeout", same |-> FALSE]
            ELSE IF diffs # {} \/ Len(steps) = commit_limit
                 THEN /\ task' = Idle
                      /\ verdict' = [kind |-> "lockstep", matched |-> diffs = {}, steps |-> steps]
                 ELSE task' = [task EXCEPT !.steps = steps, !.wrote = FALSE] /\ UNCHANGED verdict
  BY DEF LockstepCommit
<1> DEFINE step == [trace |-> trace, commit |-> Head(Stepped.commits), diffs |-> compare_commit(trace)]
           steps == Append(task.steps, step)
           agrees == compare_commit(trace) = {}
<1>4. /\ Sequence(steps) /\ Len(steps) = Len(task.steps) + 1 /\ Len(task.steps) \in Nat
      /\ \A i \in 1 .. Len(task.steps) : steps[i] = task.steps[i]
      /\ steps[Len(task.steps) + 1] = step
  BY <1>1, AppendOps, SeqOps
<1>5. CASE TimedOut
  <2>1. task' = Idle /\ verdict' = [kind |-> "timeout", same |-> FALSE]
    BY <1>3, <1>5
  <2>2. task'.kind = "idle" /\ verdict'.kind = "timeout"
    BY <2>1 DEF Idle
  <2> QED
    BY <1>2, <2>2, OtherKinds DEF ClientInv
<1>6. CASE ~ TimedOut
  <2>1. Head(Stepped.commits).seq = Len(got) /\ Len(got') = Len(got) + 1 /\ Len(got) \in Nat
    BY <1>2, <1>6, StepInOrder DEF ClientInv
  <2>2. step.commit.seq = Len(got) /\ step.trace = trace
    BY <2>1
  <2>3. StepAgrees(step) <=> agrees
    BY <2>2, AgreesIs
  <2> HIDE DEF steps, step
  <2>4. ASSUME NEW i \in 1 .. Len(task.steps)
        PROVE  StepAgrees(steps[i]) /\ steps[i].commit.seq = Len(got') - Len(steps) + i - 1
    <3>1. steps[i] = task.steps[i]
      BY <1>4
    <3>2. task.steps[i].commit.seq = Len(got) - Len(task.steps) + i - 1 /\ StepAgrees(task.steps[i])
      BY <1>1
    <3>3. Len(got') - Len(steps) + i - 1 = Len(got) - Len(task.steps) + i - 1
      BY <1>4, <2>1
    <3> QED
      BY <3>1, <3>2, <3>3
  <2>5. PICK n \in Nat : n = Len(steps) /\ n - 1 = Len(task.steps) /\ steps[n] = step /\ n >= 1
    BY <1>4
  <2>6. steps[n].commit.seq = Len(got') - Len(steps) + n - 1
    <3>1. Len(got') - Len(steps) + n - 1 = Len(got)
      BY <2>1, <2>5
    <3> QED
      BY <2>2, <2>5, <3>1
  <2>7. ASSUME NEW i \in 1 .. Len(steps)
        PROVE  steps[i].commit.seq = Len(got') - Len(steps) + i - 1
    <3>1. i = n \/ i \in 1 .. Len(task.steps)
      BY <2>5
    <3> QED
      BY <2>4, <2>6, <3>1
  <2>8. CASE ~ agrees \/ Len(steps) = commit_limit
    <3>1. task' = Idle /\ verdict' = [kind |-> "lockstep", matched |-> agrees, steps |-> steps]
      BY <1>3, <1>6, <2>8 DEF steps, step
    <3>2. task'.kind = "idle"
      BY <3>1 DEF Idle
    <3> DEFINE v == verdict'
    <3>3. v.kind = "lockstep" /\ v.steps = steps /\ v.matched = agrees
      BY <3>1
    <3>4. \A i \in 1 .. Len(steps) - 1 : StepAgrees(steps[i])
      BY <2>4, <2>5
    <3>5. \A i \in 1 .. Len(steps) : steps[i].commit.seq = steps[1].commit.seq + i - 1
      <4>1. 1 \in 1 .. Len(steps) /\ Len(got') - Len(steps) \in Int /\ Len(steps) \in Nat
        BY <2>1, <2>5
      <4>2. steps[1].commit.seq = Len(got') - Len(steps) + 1 - 1
        BY <2>7, <4>1
      <4>3. steps[1].commit.seq = Len(got') - Len(steps)
        BY <4>1, <4>2
      <4> QED
        BY <2>7, <4>1, <4>3
    <3>6. v.matched <=> StepAgrees(steps[Len(steps)])
      <4>1. steps[Len(steps)] = step
        BY <2>5
      <4> QED
        BY <2>3, <3>3, <4>1
    <3>7. v.matched => Len(steps) = commit_limit
      BY <2>8, <3>3
    <3> HIDE DEF v, agrees
    <3>8. VerdictOK(v)
      BY <3>3, <3>4, <3>5, <3>6, <3>7 DEF VerdictOK
    <3>9. VerdictOK(verdict')
      BY <3>8 DEF v
    <3> QED
      BY <1>2, <3>2, <3>9, OtherKinds DEF ClientInv
  <2>9. CASE agrees /\ Len(steps) # commit_limit
    <3>1. task' = [task EXCEPT !.steps = steps, !.wrote = FALSE] /\ verdict' = verdict
      BY <1>3, <1>6, <2>9 DEF steps, step
    <3>2. task' = [kind |-> "lockstep", wrote |-> FALSE, steps |-> steps]
      BY <1>1, <3>1
    <3>3. ASSUME NEW i \in 1 .. Len(steps)
          PROVE  StepAgrees(steps[i])
      <4>1. i = n \/ i \in 1 .. Len(task.steps)
        BY <2>5
      <4> QED
        BY <2>3, <2>4, <2>5, <2>9, <4>1
    <3> HIDE DEF agrees
    <3>4. LockstepOK(task', got')
      BY <1>4, <2>7, <3>2, <3>3 DEF LockstepOK
    <3>5. task'.kind = "lockstep"
      BY <3>2
    <3> QED
      BY <1>2, <3>1, <3>4, <3>5, OtherKinds DEF ClientInv
  <2> QED
    BY <2>8, <2>9
<1> QED
  BY <1>5, <1>6

(* The calls that take no commit.                                            *)
LEMMA OtherStep ==
    ASSUME ClientInv, [LockstepNext]_lockstepVars,
           ~ CollectCommit, ~ CompareCommit, ~ LockstepCommit
    PROVE  /\ VerdictOK(verdict') /\ RecordOK(recorded')
           /\ CollectOK(task') /\ CompareOK(task') /\ LockstepOK(task', got')
<1>1. /\ VerdictOK(verdict) /\ RecordOK(recorded)
      /\ CollectOK(task) /\ CompareOK(task) /\ LockstepOK(task, got)
  BY DEF ClientInv
<1>2. VerdictOK(NoVerdict) /\ RecordOK(NoRecord)
  <2>1. NoVerdict.kind = "none"
    BY DEF NoVerdict
  <2> QED
    BY <2>1, OtherKinds DEF RecordOK
<1>3. CASE \/ \E machine \in {"DMG", "CGB"}, profile \in {"SkipBoot", "RawPowerOn"} :
                  Reset(machine, profile)
           \/ Close \/ Snapshot \/ Restore \/ WriteEvent
  <2>1. task = Idle /\ task' = task /\ verdict' = NoVerdict
    BY <1>3 DEF Reset, Close, Snapshot, Restore, WriteEvent, Calls
  <2>2. recorded' = recorded \/ recorded' = NoRecord
    BY <1>3 DEF Reset, Close, Snapshot, Restore, WriteEvent
  <2>3. task'.kind = "idle"
    BY <2>1 DEF Idle
  <2> QED
    BY <1>1, <1>2, <2>1, <2>2, <2>3, OtherKinds
<1>4. CASE StartCollect
  <2>1. /\ task' = [kind |-> "collect", origin |-> origin, commits |-> <<>>]
        /\ verdict' = NoVerdict /\ recorded' = recorded
    BY <1>4 DEF StartCollect, Calls
  <2>2. CollectOK(task') /\ task'.kind = "collect"
    BY <2>1, EmptyIsSeq DEF CollectOK
  <2> QED
    BY <1>1, <1>2, <2>1, <2>2, OtherKinds
<1>5. CASE StartCompare
  <2>1. /\ verdict' = NoVerdict /\ recorded' = NoRecord
        /\ Sequence(recorded.commits) /\ Len(recorded.commits) >= 1
    BY <1>1, <1>5 DEF StartCompare, Calls, RecordOK
  <2>2. PICK altered \in 0 .. Len(recorded.commits) :
          task' = [kind |-> "compare", commits |-> <<>>,
                   same |-> altered = 0 /\ origin # "moved" /\ origin = recorded.origin,
                   expected |-> [i \in DOMAIN recorded.commits |->
                                   IF i = altered THEN [recorded.commits[i] EXCEPT !.seq = -1]
                                   ELSE recorded.commits[i]]]
    BY <1>5 DEF StartCompare
  <2> DEFINE e == [i \in DOMAIN recorded.commits |->
                     IF i = altered THEN [recorded.commits[i] EXCEPT !.seq = -1]
                     ELSE recorded.commits[i]]
             n == Len(recorded.commits)
  <2>3. DOMAIN recorded.commits = 1 .. n /\ n \in Nat
    BY <2>1, SeqOps
  <2>4. Sequence(e) /\ Len(e) = n
    <3> DEFINE E == {e[i] : i \in 1 .. n}
    <3>1. e \in [1 .. n -> E]
      BY <2>3
    <3> HIDE DEF e, E, n
    <3>2. e \in Seq(E)
      BY <2>3, <3>1
    <3> QED
      BY <2>3, <3>1, <3>2 DEF Sequence
  <2>5. /\ task' = [kind |-> "compare", commits |-> <<>>, same |-> task'.same, expected |-> e]
        /\ task'.kind = "compare"
    BY <2>2
  <2> HIDE DEF e
  <2>6. Len(<<>>) = 0 /\ 1 .. 0 = {}
    OBVIOUS
  <2>7. Len(<<>>) < Len(e)
    BY <2>1, <2>3, <2>4, <2>6
  <2>8. CompareOK(task')
    BY <2>4, <2>5, <2>6, <2>7, EmptyIsSeq DEF CompareOK
  <2> QED
    BY <1>2, <2>1, <2>5, <2>8, OtherKinds
<1>6. CASE StartLockstep
  <2>1. /\ task' = [kind |-> "lockstep", wrote |-> FALSE, steps |-> <<>>]
        /\ verdict' = NoVerdict /\ recorded' = recorded
    BY <1>6 DEF StartLockstep, Calls
  <2>2. Len(<<>>) = 0 /\ 1 .. 0 = {}
    OBVIOUS
  <2>3. LockstepOK(task', got') /\ task'.kind = "lockstep"
    BY <2>1, <2>2, EmptyIsSeq DEF LockstepOK
  <2> QED
    BY <1>1, <1>2, <2>1, <2>3, OtherKinds
<1>7. CASE LockstepEvent
  <2>1. /\ task.kind = "lockstep" /\ task' \in {[task EXCEPT !.wrote = TRUE], Idle}
        /\ verdict' = verdict /\ recorded' = recorded /\ got' = got
    BY <1>7 DEF LockstepEvent, write_buttons, write_flags
  <2>2. CASE task' = Idle
    <3>1. task'.kind = "idle"
      BY <2>2 DEF Idle
    <3> QED
      BY <1>1, <2>1, <3>1, OtherKinds
  <2>3. CASE task' = [task EXCEPT !.wrote = TRUE]
    <3> DEFINE wrote == task.wrote
               steps == task.steps
               yes == TRUE
    <3>1. task = [kind |-> "lockstep", wrote |-> wrote, steps |-> steps]
      BY <1>1, <2>1 DEF LockstepOK
    <3>2. task' = [task EXCEPT !.wrote = yes]
      BY <2>3
    <3>3. /\ Sequence(steps)
          /\ \A i \in 1 .. Len(steps) :
                /\ StepAgrees(steps[i])
                /\ steps[i].commit.seq = Len(got) - Len(steps) + i - 1
      BY <1>1, <2>1 DEF LockstepOK
    <3> HIDE DEF wrote, steps, yes
    <3>4. task' = [kind |-> "lockstep", wrote |-> yes, steps |-> steps]
      BY <3>1, <3>2
    <3>5. LockstepOK(task', got')
      BY <2>1, <3>3, <3>4 DEF LockstepOK
    <3>6. task'.kind = "lockstep"
      BY <3>4
    <3> QED
      BY <1>1, <2>1, <3>5, <3>6, OtherKinds
  <2> QED
    BY <2>1, <2>2, <2>3
<1>8. CASE UNCHANGED lockstepVars
  <2>1. UNCHANGED <<task, verdict, recorded, got>>
    BY <1>8 DEF lockstepVars, oracleVars
  <2> QED
    BY <1>1, <2>1
<1> QED
  BY <1>3, <1>4, <1>5, <1>6, <1>7, <1>8 DEF LockstepNext

LEMMA ClientInvStep == ClientInv /\ [LockstepNext]_lockstepVars => ClientInv'
<1> SUFFICES ASSUME ClientInv, [LockstepNext]_lockstepVars PROVE ClientInv'
  OBVIOUS
<1>1. OracleInv'
  BY OracleInvStep DEF ClientInv
<1>2. /\ VerdictOK(verdict') /\ RecordOK(recorded')
      /\ CollectOK(task') /\ CompareOK(task') /\ LockstepOK(task', got')
  BY CollectStep, CompareStep, LockstepStep, OtherStep
<1>3. /\ VerdictOK(verdict)' /\ RecordOK(recorded)'
      /\ CollectOK(task)' /\ CompareOK(task)' /\ LockstepOK(task, got)'
  BY <1>2
<1> QED
  BY <1>1, <1>3 DEF ClientInv

LEMMA ClientInvInit == LockstepInit => ClientInv
<1> SUFFICES ASSUME LockstepInit PROVE ClientInv
  OBVIOUS
<1>1. OracleInv
  BY OracleInvInit DEF LockstepInit
<1>2. task.kind = "idle" /\ verdict.kind = "none" /\ recorded = NoRecord
  BY DEF LockstepInit, Idle, NoVerdict
<1> QED
  BY <1>1, <1>2, OtherKinds DEF ClientInv, RecordOK

(* A result names the first divergence and nothing else (compare_commits,    *)
(* run_lockstep).                                                            *)
THEOREM FirstDivergence == LockstepSpec => []VerdictIsFirstDivergence
<1>1. ClientInv => VerdictIsFirstDivergence
  BY VerdictIs DEF ClientInv
<1> QED
  BY <1>1, ClientInvInit, ClientInvStep, PTL DEF LockstepSpec

(********************************** replay ***********************************)
(* The oracle is deterministic: what a step does is a function of emulator,  *)
(* queue and number.                                                         *)
FramesOf(e) ==
    Min({n \in 1 .. max_frames_per_commit : HooksIn(e, e.frame + n) # <<>>}
            \cup {max_frames_per_commit})

State(e, q, n) == [emulator |-> e, queue |-> q, seq |-> n]

Gives(st) ==
    IF st.queue # <<>> THEN st.queue
    ELSE Commits(HooksIn(st.emulator, st.emulator.frame + FramesOf(st.emulator)), st.seq,
                 ApplyEvents(st.emulator.held, st.emulator.events), st.emulator.flags)

Successor(st) ==
    State(IF st.queue # <<>> THEN st.emulator
          ELSE [st.emulator EXCEPT !.frame = @ + FramesOf(st.emulator),
                                   !.held = ApplyEvents(st.emulator.held, st.emulator.events),
                                   !.events = <<>>],
          TakeFirst(Gives(st)),
          IF st.queue # <<>> THEN st.seq ELSE st.seq + Len(Gives(st)))

LEMMA Deterministic ==
    ASSUME OracleInv, step_commit
    PROVE  /\ Stepped.commits = Gives(State(emulator, queue, seq))
           /\ State(emulator', queue', seq') = Successor(State(emulator, queue, seq))
           /\ TimedOut <=> Gives(State(emulator, queue, seq)) = <<>>
<1> DEFINE st == State(emulator, queue, seq)
           new == Commits(HooksIn(emulator, emulator.frame + FramesOf(emulator)), seq,
                          ApplyEvents(emulator.held, emulator.events), emulator.flags)
<1>1. st.emulator = emulator /\ st.queue = queue /\ st.seq = seq
  BY DEF State
<1>2. FramesRun = FramesOf(emulator)
  BY DEF FramesRun, FramesOf
<1>3. seq = Len(fired) /\ seq \in Nat
  BY SeqOps DEF OracleInv, InOrder
<1>4. Gives(st) = IF queue # <<>> THEN queue ELSE new
  BY <1>1 DEF Gives
<1>5. Stepped = IF queue # <<>>
                THEN [commits |-> queue, emulator |-> emulator, new |-> <<>>]
                ELSE [commits |-> new,
                      emulator |-> [emulator EXCEPT !.frame = @ + FramesOf(emulator),
                                       !.held = ApplyEvents(emulator.held, emulator.events),
                                       !.events = <<>>],
                      new |-> new]
  BY <1>2, <1>3 DEF Stepped, CommitWaits
<1>6. /\ emulator' = Stepped.emulator /\ queue' = TakeFirst(Stepped.commits)
      /\ seq' = seq + Len(Stepped.new)
  BY DEF step_commit
<1> HIDE DEF st, new
<1>7. Stepped.commits = Gives(st)
  BY <1>4, <1>5
<1>8. CASE queue # <<>>
  <2>1. emulator' = emulator /\ seq' = seq + Len(<<>>)
    BY <1>5, <1>6, <1>8
  <2>2. seq' = seq
    BY <1>3, <2>1
  <2>3. Successor(st) = State(emulator, TakeFirst(Gives(st)), seq)
    BY <1>1, <1>8 DEF Successor
  <2> QED
    BY <1>6, <1>7, <2>1, <2>2, <2>3 DEF st, TimedOut
<1>9. CASE queue = <<>>
  <2>1. /\ emulator' = [emulator EXCEPT !.frame = @ + FramesOf(emulator),
                          !.held = ApplyEvents(emulator.held, emulator.events), !.events = <<>>]
        /\ seq' = seq + Len(new) /\ Gives(st) = new
    BY <1>4, <1>5, <1>6, <1>9
  <2>2. Successor(st) = State(emulator', TakeFirst(Gives(st)), seq + Len(Gives(st)))
    BY <1>1, <1>9, <2>1 DEF Successor
  <2> QED
    BY <1>6, <1>7, <2>1, <2>2 DEF st, TimedOut
<1> QED
  BY <1>8, <1>9
-----------------------------------------------------------------------------
(* A run through states of the oracle that gives the commits.                *)
Follows(run, commits) ==
    \A i \in 1 .. Len(commits) :
        /\ run[i] = Successor(run[i - 1])
        /\ Gives(run[i - 1]) # <<>> /\ commits[i] = Head(Gives(run[i - 1]))

Runs(start, commits, stop) ==
    \E run : run[0] = start /\ run[Len(commits)] = stop /\ Follows(run, commits)

(* Where the oracle stands when it has just been set up.                     *)
StartOf(o, sv) ==
    IF o = "saved" THEN State(sv.emulator, sv.queue, sv.seq)
    ELSE State([frame |-> IF o = "RawPowerOn" THEN -BootFrames ELSE 0,
                held |-> {}, events |-> <<>>,
                flags |-> IF o = "SkipBoot" THEN {0} ELSE {}, hooked |-> TRUE], <<>>, 0)

AtOrigin(o, sv, st) == o # "moved" => st = StartOf(o, sv)

CollectRuns(t, sv, st) ==
    t.kind = "collect" /\ t.origin # "moved" => Runs(StartOf(t.origin, sv), t.commits, st)

RecordRuns(r, sv) ==
    r # NoRecord /\ r.origin # "moved" =>
        \E stop : Runs(StartOf(r.origin, sv), r.commits, stop)

CompareRuns(t, st) ==
    t.kind = "compare" /\ t.same =>
        \E run : run[Len(t.commits)] = st /\ Follows(run, t.expected)

ReplayOK(v) ==
    v.kind \in {"replay", "timeout"} /\ v.same => v.kind = "replay" /\ v.matched

Parts(o, t, r, v, sv, st) ==
    /\ AtOrigin(o, sv, st) /\ CollectRuns(t, sv, st) /\ RecordRuns(r, sv) /\ CompareRuns(t, st)
    /\ ReplayOK(v)

ReplayInv == ClientInv /\ Parts(origin, task, recorded, verdict, saved, State(emulator, queue, seq))

LEMMA NoneRuns ==
    ASSUME NEW t, NEW sv, NEW st
    PROVE  /\ t.kind \notin {"collect", "compare"} => CollectRuns(t, sv, st) /\ CompareRuns(t, st)
           /\ t.kind = "collect" => CompareRuns(t, st)
           /\ t.kind = "compare" => CollectRuns(t, sv, st)
           /\ t.kind \notin {"replay", "timeout"} => ReplayOK(t)
           /\ RecordRuns(NoRecord, sv) /\ AtOrigin("moved", sv, st)
  BY DEF CollectRuns, CompareRuns, ReplayOK, RecordRuns, AtOrigin

LEMMA RunBegins ==
    ASSUME NEW st
    PROVE  Runs(st, <<>>, st)
<1> DEFINE run == [i \in {0} |-> st]
<1>1. run[0] = st /\ Len(<<>>) = 0 /\ 1 .. 0 = {}
  OBVIOUS
<1> HIDE DEF run
<1> QED
  BY <1>1 DEF Runs, Follows

LEMMA RunGoesOn ==
    ASSUME NEW start, NEW commits, Sequence(commits), NEW st, Runs(start, commits, st),
           Gives(st) # <<>>
    PROVE  Runs(start, Append(commits, Head(Gives(st))), Successor(st))
<1> DEFINE n == Len(commits)
           c == Append(commits, Head(Gives(st)))
<1>1. PICK run : run[0] = start /\ run[n] = st /\ Follows(run, commits)
  BY DEF Runs
<1>2. /\ n \in Nat /\ Len(c) = n + 1 /\ c[n + 1] = Head(Gives(st))
      /\ \A i \in 1 .. n : c[i] = commits[i]
  BY SeqOps, AppendOps
<1> DEFINE longer == [i \in 0 .. n + 1 |-> IF i <= n THEN run[i] ELSE Successor(st)]
<1> HIDE DEF n, c
<1>3. /\ longer[n + 1] = Successor(st)
      /\ \A i \in 0 .. n : longer[i] = run[i]
  BY <1>2
<1> HIDE DEF longer
<1>4. ASSUME NEW i \in 1 .. n + 1
      PROVE  /\ longer[i] = Successor(longer[i - 1])
             /\ Gives(longer[i - 1]) # <<>> /\ c[i] = Head(Gives(longer[i - 1]))
  <2>1. i - 1 \in 0 .. n /\ longer[i - 1] = run[i - 1]
    BY <1>2, <1>3
  <2>2. CASE i <= n
    <3>1. /\ run[i] = Successor(run[i - 1])
          /\ Gives(run[i - 1]) # <<>> /\ commits[i] = Head(Gives(run[i - 1]))
      BY <1>1, <1>2, <2>2 DEF Follows, n
    <3>2. longer[i] = run[i] /\ c[i] = commits[i]
      BY <1>2, <1>3, <2>2
    <3> QED
      BY <2>1, <3>1, <3>2
  <2>3. CASE i = n + 1
    <3>1. i - 1 = n
      BY <1>2, <2>3
    <3>2. longer[i - 1] = st
      BY <1>1, <2>1, <3>1
    <3> QED
      BY <1>2, <1>3, <2>3, <3>2
  <2> QED
    BY <1>2, <2>2, <2>3
<1>5. Follows(longer, c)
  BY <1>2, <1>4 DEF Follows
<1>6. longer[0] = start /\ longer[Len(c)] = Successor(st)
  BY <1>1, <1>2, <1>3
<1> QED
  BY <1>5, <1>6 DEF Runs, c
-----------------------------------------------------------------------------
(* A set-up leaves the oracle where a run from it starts.                    *)
LEMMA ResetStarts ==
    ASSUME NEW machine, NEW profile \in {"SkipBoot", "RawPowerOn"}, Reset(machine, profile)
    PROVE  AtOrigin(origin', saved', State(emulator', queue', seq'))
<1>1. CASE ResetFails(machine, profile)
  <2>1. origin' = "moved"
    BY <1>1 DEF Reset
  <2> QED
    BY <2>1 DEF AtOrigin
<1>2. CASE ~ ResetFails(machine, profile)
  <2>1. origin' = profile /\ profile # "saved"
    BY <1>2 DEF Reset
  <2>2. machine = "DMG"
    BY <1>2 DEF ResetFails
  <2>3. /\ emulator' = [frame |-> IF profile = "RawPowerOn" THEN -BootFrames ELSE 0,
                        held |-> {}, events |-> <<>>,
                        flags |-> IF profile = "SkipBoot" THEN {0} ELSE {}, hooked |-> TRUE]
        /\ queue' = <<>> /\ seq' = 0
    BY <1>2, <2>2 DEF Reset, reset
  <2> QED
    BY <2>1, <2>3 DEF AtOrigin, StartOf
<1> QED
  BY <1>1, <1>2

LEMMA SnapshotStarts ==
    ASSUME Snapshot
    PROVE  AtOrigin(origin', saved', State(emulator', queue', seq'))
<1>1. /\ saved'.emulator = emulator /\ saved'.queue = queue /\ saved'.seq = seq
      /\ emulator' = emulator /\ queue' = queue /\ seq' = seq
  BY DEF Snapshot, snapshot, Payload
<1>2. origin' = "saved" \/ origin' = "moved"
  BY DEF Snapshot
<1> QED
  BY <1>1, <1>2 DEF AtOrigin, StartOf

LEMMA RestoreStarts ==
    ASSUME OracleInv, Restore
    PROVE  AtOrigin(origin', saved', State(emulator', queue', seq'))
<1>1. /\ emulator' = [saved.emulator EXCEPT !.hooked = emulator.hooked]
      /\ queue' = saved.queue /\ seq' = saved.seq /\ saved' = saved /\ saved # NoSnapshot
  BY DEF Restore, restore
<1>2. CASE emulator.hooked /\ saved.emulator.hooked
  <2> DEFINE e == saved.emulator
             h == emulator.hooked
  <2>1. EmulatorOK(e) /\ EmulatorOK(emulator)
    BY <1>1 DEF OracleInv
  <2>2. e.hooked = h
    BY <1>2, <2>1 DEF EmulatorOK
  <2>3. e = [frame |-> e.frame, held |-> e.held, events |-> e.events, flags |-> e.flags,
             hooked |-> h]
    BY <2>1, <2>2 DEF EmulatorOK
  <2>4. emulator' = [e EXCEPT !.hooked = h]
    BY <1>1
  <2> HIDE DEF e, h
  <2>5. emulator' = e
    BY <2>3, <2>4
  <2>6. origin' = "saved"
    BY <1>2 DEF Restore
  <2> QED
    BY <1>1, <2>5, <2>6 DEF AtOrigin, StartOf, e
<1>3. CASE ~ (emulator.hooked /\ saved.emulator.hooked)
  <2>1. origin' = "moved"
    BY <1>3 DEF Restore
  <2> QED
    BY <2>1 DEF AtOrigin
<1> QED
  BY <1>2, <1>3

LEMMA SetUpParts ==
    ASSUME ReplayInv,
           \/ \E machine \in {"DMG", "CGB"}, profile \in {"SkipBoot", "RawPowerOn"} :
                Reset(machine, profile)
           \/ Close \/ Snapshot \/ Restore \/ WriteEvent
    PROVE  Parts(origin', task', recorded', verdict', saved', State(emulator', queue', seq'))
<1>1. task' = Idle /\ verdict' = NoVerdict
  BY DEF Reset, Close, Snapshot, Restore, WriteEvent, Calls
<1>2. task'.kind = "idle" /\ verdict'.kind = "none"
  BY <1>1 DEF Idle, NoVerdict
<1>3. RecordRuns(recorded, saved) /\ OracleInv
  BY DEF ReplayInv, Parts, ClientInv
<1>4. CASE \/ \E machine \in {"DMG", "CGB"}, profile \in {"SkipBoot", "RawPowerOn"} :
                Reset(machine, profile)
           \/ Close \/ Restore \/ WriteEvent
  <2>1. recorded' = recorded /\ saved' = saved
    BY <1>4 DEF Reset, Close, Restore, WriteEvent, reset, close, restore, write_buttons, write_flags
  <2>2. CASE Close \/ WriteEvent
    <3>1. origin' = "moved"
      BY <2>2 DEF Close, WriteEvent
    <3> QED
      BY <1>2, <1>3, <2>1, <3>1, NoneRuns DEF Parts
  <2>3. AtOrigin(origin', saved', State(emulator', queue', seq'))
    <3>1. CASE Close \/ WriteEvent
      BY <3>1, NoneRuns DEF Close, WriteEvent
    <3> QED
      BY <1>3, <1>4, <3>1, ResetStarts, RestoreStarts
  <2> QED
    BY <1>2, <1>3, <2>1, <2>3, NoneRuns DEF Parts
<1>5. CASE Snapshot
  <2>1. recorded' = IF recorded.origin = "saved" THEN NoRecord ELSE recorded
    BY <1>5 DEF Snapshot
  <2>2. RecordRuns(recorded', saved')
    <3>1. CASE recorded.origin = "saved"
      BY <2>1, <3>1, NoneRuns
    <3>2. CASE recorded.origin # "saved"
      <4>1. recorded' = recorded /\ StartOf(recorded.origin, saved') = StartOf(recorded.origin, saved)
        BY <2>1, <3>2 DEF StartOf
      <4> QED
        BY <1>3, <4>1 DEF RecordRuns
    <3> QED
      BY <3>1, <3>2
  <2> QED
    BY <1>2, <1>5, <2>2, SnapshotStarts, NoneRuns DEF Parts
<1> QED
  BY <1>4, <1>5
-----------------------------------------------------------------------------
(* A recording is a run from where it started.                               *)
LEMMA StartCollectParts ==
    ASSUME ReplayInv, StartCollect
    PROVE  Parts(origin', task', recorded', verdict', saved', State(emulator', queue', seq'))
<1> DEFINE st == State(emulator, queue, seq)
<1>1. /\ task' = [kind |-> "collect", origin |-> origin, commits |-> <<>>]
      /\ verdict' = NoVerdict /\ recorded' = recorded /\ origin' = origin /\ saved' = saved
      /\ State(emulator', queue', seq') = st
  BY DEF StartCollect, Calls, oracleVars
<1>2. AtOrigin(origin, saved, st) /\ RecordRuns(recorded, saved)
  BY DEF ReplayInv, Parts
<1>3. verdict'.kind = "none" /\ task'.kind = "collect" /\ task'.origin = origin /\ task'.commits = <<>>
  BY <1>1 DEF NoVerdict
<1> HIDE DEF st
<1>4. CollectRuns(task', saved, st)
  BY <1>2, <1>3, RunBegins DEF CollectRuns, AtOrigin
<1> QED
  BY <1>1, <1>2, <1>3, <1>4, NoneRuns DEF Parts

LEMMA CollectParts ==
    ASSUME ReplayInv, CollectCommit
    PROVE  Parts(origin', task', recorded', verdict', saved', State(emulator', queue', seq'))
<1> DEFINE st == State(emulator, queue, seq)
           next == State(emulator', queue', seq')
           head == Head(Gives(st))
           commits == Append(task.commits, head)
           done == Len(commits) = CollectLimit \/ is_terminal(commits[Len(commits)])
<1>1. /\ task.kind = "collect" /\ Sequence(task.commits)
      /\ task = [kind |-> "collect", origin |-> task.origin, commits |-> task.commits]
  BY DEF CollectCommit, ReplayInv, ClientInv, CollectOK
<1>2. /\ CollectRuns(task, saved, st) /\ RecordRuns(recorded, saved) /\ ReplayOK(verdict)
  BY DEF ReplayInv, Parts
<1>3. /\ Stepped.commits = Gives(st) /\ next = Successor(st) /\ (TimedOut <=> Gives(st) = <<>>)
  BY Deterministic DEF CollectCommit, ReplayInv, ClientInv
<1>4. origin' = "moved" /\ saved' = saved
  BY DEF CollectCommit, step_commit
<1>5. CASE TimedOut
  <2>1. task' = Idle /\ verdict' = [kind |-> "timeout", same |-> FALSE] /\ recorded' = recorded
    BY <1>5 DEF CollectCommit
  <2>2. task'.kind = "idle" /\ ReplayOK(verdict')
    BY <2>1 DEF Idle, ReplayOK
  <2> QED
    BY <1>2, <1>4, <2>1, <2>2, NoneRuns DEF Parts
<1>6. CASE ~ TimedOut
  <2>1. /\ task' = IF done THEN Idle ELSE [task EXCEPT !.commits = commits]
        /\ recorded' = IF done THEN [origin |-> task.origin, commits |-> commits] ELSE recorded
        /\ verdict' = verdict
    BY <1>3, <1>6 DEF CollectCommit
  <2> HIDE DEF st, next
  <2>2. task.origin # "moved" => Runs(StartOf(task.origin, saved), commits, next)
    <3>1. SUFFICES ASSUME task.origin # "moved"
                   PROVE  Runs(StartOf(task.origin, saved), commits, next)
      OBVIOUS
    <3>2. Runs(StartOf(task.origin, saved), task.commits, st)
      BY <1>1, <1>2, <3>1 DEF CollectRuns
    <3>3. Gives(st) # <<>>
      BY <1>3, <1>6
    <3> QED
      BY <1>1, <1>3, <3>2, <3>3, RunGoesOn
  <2> HIDE DEF commits, done
  <2>3. CASE done
    <3>1. /\ recorded'.origin = task.origin /\ recorded'.commits = commits /\ task'.kind = "idle"
      BY <2>1, <2>3 DEF Idle
    <3>2. RecordRuns(recorded', saved)
      BY <2>2, <3>1 DEF RecordRuns
    <3> QED
      BY <1>2, <1>4, <2>1, <3>1, <3>2, NoneRuns DEF Parts, next
  <2>4. CASE ~ done
    <3>1. task' = [task EXCEPT !.commits = commits] /\ recorded' = recorded
      BY <2>1, <2>4
    <3>2. task' = [kind |-> "collect", origin |-> task.origin, commits |-> commits]
      BY <1>1, <3>1
    <3>3. CollectRuns(task', saved, next) /\ task'.kind = "collect"
      BY <2>2, <3>2 DEF CollectRuns
    <3> QED
      BY <1>2, <1>4, <2>1, <3>1, <3>3, NoneRuns DEF Parts, next
  <2> QED
    BY <2>3, <2>4
<1> QED
  BY <1>5, <1>6
-----------------------------------------------------------------------------
(* A comparison that starts where the recording did goes through the same    *)
(* states.                                                                   *)
LEMMA StartCompareParts ==
    ASSUME ReplayInv, StartCompare
    PROVE  Parts(origin', task', recorded', verdict', saved', State(emulator', queue', seq'))
<1> DEFINE st == State(emulator, queue, seq)
           c == recorded.commits
<1>1. /\ verdict' = NoVerdict /\ recorded' = NoRecord /\ origin' = origin /\ saved' = saved
      /\ State(emulator', queue', seq') = st /\ recorded # NoRecord
  BY DEF StartCompare, Calls, oracleVars
<1>2. /\ AtOrigin(origin, saved, st) /\ RecordRuns(recorded, saved) /\ Sequence(c)
  BY <1>1 DEF ReplayInv, Parts, ClientInv, RecordOK
<1>3. PICK altered \in 0 .. Len(c) :
        task' = [kind |-> "compare", commits |-> <<>>,
                 same |-> altered = 0 /\ origin # "moved" /\ origin = recorded.origin,
                 expected |-> [i \in DOMAIN c |->
                                 IF i = altered THEN [c[i] EXCEPT !.seq = -1] ELSE c[i]]]
  BY DEF StartCompare
<1> DEFINE e == [i \in DOMAIN c |-> IF i = altered THEN [c[i] EXCEPT !.seq = -1] ELSE c[i]]
<1>4. /\ task'.kind = "compare" /\ task'.commits = <<>> /\ task'.expected = e
      /\ task'.same <=> altered = 0 /\ origin # "moved" /\ origin = recorded.origin
  BY <1>3
<1>5. DOMAIN c = 1 .. Len(c) /\ Len(c) \in Nat
  BY <1>2, SeqOps
<1>6. altered = 0 => Len(e) = Len(c) /\ \A i \in 1 .. Len(c) : e[i] = c[i]
  <2>1. DOMAIN e = 1 .. Len(c)
    BY <1>5
  <2>2. altered = 0 => \A i \in 1 .. Len(c) : e[i] = c[i]
    BY <1>5
  <2>3. Len(e) = Len(c)
    <3> DEFINE E == {e[i] : i \in 1 .. Len(c)}
               n == Len(c)
    <3>1. e \in [1 .. n -> E]
      BY <2>1
    <3> HIDE DEF e, E, n
    <3>2. e \in Seq(E)
      BY <1>5, <3>1 DEF n
    <3> QED
      BY <1>5, <2>1, <3>2 DEF n
  <2> QED
    BY <2>2, <2>3
<1> HIDE DEF st, c, e
<1>7. CompareRuns(task', st)
  <2>1. SUFFICES ASSUME task'.same
                 PROVE  \E run : run[Len(task'.commits)] = st /\ Follows(run, task'.expected)
    BY <1>4 DEF CompareRuns
  <2>2. altered = 0 /\ origin # "moved" /\ origin = recorded.origin
    BY <1>4, <2>1
  <2>3. PICK stop : Runs(StartOf(origin, saved), c, stop)
    BY <1>1, <1>2, <2>2 DEF RecordRuns, c
  <2>4. PICK run : run[0] = st /\ Follows(run, c)
    BY <1>2, <2>2, <2>3 DEF AtOrigin, Runs
  <2>5. Follows(run, e)
    BY <1>6, <2>2, <2>4 DEF Follows
  <2>6. Len(<<>>) = 0
    OBVIOUS
  <2> QED
    BY <1>4, <2>4, <2>5, <2>6
<1>8. verdict'.kind = "none"
  BY <1>1 DEF NoVerdict
<1> QED
  BY <1>1, <1>2, <1>4, <1>7, <1>8, NoneRuns DEF Parts

LEMMA CompareParts ==
    ASSUME ReplayInv, CompareCommit
    PROVE  Parts(origin', task', recorded', verdict', saved', State(emulator', queue', seq'))
<1> DEFINE st == State(emulator, queue, seq)
           next == State(emulator', queue', seq')
           head == Head(Gives(st))
           commits == Append(task.commits, head)
           at == Len(commits)
           differs == commits[at] # task.expected[at]
           stops == differs \/ is_terminal(commits[at]) \/ at = Len(task.expected)
           window == IF differs THEN CommitWindow(task.expected, commits, at) ELSE <<>>
<1>1. /\ task.kind = "compare" /\ Sequence(task.commits) /\ Sequence(task.expected)
      /\ Len(task.commits) < Len(task.expected)
      /\ task = [kind |-> "compare", commits |-> task.commits, same |-> task.same,
                 expected |-> task.expected]
  BY DEF CompareCommit, ReplayInv, ClientInv, CompareOK
<1>2. /\ CompareRuns(task, st) /\ RecordRuns(recorded, saved) /\ ReplayOK(verdict)
  BY DEF ReplayInv, Parts
<1>3. /\ Stepped.commits = Gives(st) /\ next = Successor(st) /\ (TimedOut <=> Gives(st) = <<>>)
  BY Deterministic DEF CompareCommit, ReplayInv, ClientInv
<1>4. origin' = "moved" /\ saved' = saved /\ recorded' = recorded
  BY DEF CompareCommit, step_commit
<1>5. /\ at = Len(task.commits) + 1 /\ commits[Len(task.commits) + 1] = head
      /\ Len(task.commits) \in Nat /\ Len(task.expected) \in Nat
  BY <1>1, AppendOps, SeqOps
<1>6. task.same => ~ TimedOut /\ ~ differs
  <2> DEFINE k == Len(task.commits)
  <2>1. SUFFICES ASSUME task.same PROVE Gives(st) # <<>> /\ head = task.expected[k + 1]
    BY <1>3, <1>5
  <2>2. PICK run : run[k] = st /\ Follows(run, task.expected)
    BY <1>1, <1>2, <2>1 DEF CompareRuns
  <2> HIDE DEF st
  <2>3. PICK i \in 1 .. Len(task.expected) : i = k + 1 /\ i - 1 = k
    BY <1>1, <1>5
  <2>4. Gives(run[i - 1]) # <<>> /\ task.expected[i] = Head(Gives(run[i - 1]))
    BY <2>2, <2>3 DEF Follows
  <2> QED
    BY <2>2, <2>3, <2>4
<1>7. CASE TimedOut
  <2>1. task' = Idle /\ verdict' = [kind |-> "timeout", same |-> task.same]
    BY <1>7 DEF CompareCommit
  <2>2. task'.kind = "idle" /\ ReplayOK(verdict')
    BY <1>6, <1>7, <2>1 DEF Idle, ReplayOK
  <2> QED
    BY <1>2, <1>4, <2>2, NoneRuns DEF Parts
<1>8. CASE ~ TimedOut /\ stops
  <2>1. /\ task' = Idle
        /\ verdict' = [kind |-> "replay", matched |-> ~differs, same |-> task.same,
                       commits |-> commits, expected |-> task.expected, window |-> window]
    BY <1>3, <1>8 DEF CompareCommit
  <2>2. task'.kind = "idle"
    BY <2>1 DEF Idle
  <2>3. verdict'.kind = "replay" /\ verdict'.matched = ~differs /\ verdict'.same = task.same
    BY <2>1
  <2> HIDE DEF differs
  <2>4. ReplayOK(verdict')
    BY <1>6, <2>3 DEF ReplayOK
  <2> QED
    BY <1>2, <1>4, <2>2, <2>4, NoneRuns DEF Parts
<1>9. CASE ~ TimedOut /\ ~ stops
  <2>1. task' = [task EXCEPT !.commits = commits] /\ verdict' = verdict
    BY <1>3, <1>9 DEF CompareCommit
  <2> DEFINE k == Len(task.commits)
  <2> HIDE DEF st, next, commits, at
  <2>2. task' = [kind |-> "compare", commits |-> commits, same |-> task.same,
                 expected |-> task.expected]
    BY <1>1, <2>1
  <2>3. CompareRuns(task', next)
    <3>1. SUFFICES ASSUME task.same
                   PROVE  \E run : run[at] = next /\ Follows(run, task.expected)
      BY <2>2 DEF CompareRuns, at
    <3>2. PICK run : run[k] = st /\ Follows(run, task.expected)
      BY <1>1, <1>2, <3>1 DEF CompareRuns
    <3>3. at \in 1 .. Len(task.expected) /\ at - 1 = k
      BY <1>1, <1>5
    <3>4. run[at] = next
      BY <1>3, <3>2, <3>3 DEF Follows
    <3> QED
      BY <3>2, <3>4
  <2>4. task'.kind = "compare"
    BY <2>2
  <2> QED
    BY <1>2, <1>4, <2>1, <2>3, <2>4, NoneRuns DEF Parts, next
<1> QED
  BY <1>7, <1>8, <1>9
-----------------------------------------------------------------------------
(* A lockstep run has no part in it.                                         *)
LEMMA LockstepParts ==
    ASSUME ReplayInv,
           StartLockstep \/ LockstepEvent \/ LockstepCommit
    PROVE  Parts(origin', task', recorded', verdict', saved', State(emulator', queue', seq'))
<1>1. /\ RecordRuns(recorded, saved) /\ ReplayOK(verdict)
      /\ AtOrigin(origin, saved, State(emulator, queue, seq))
  BY DEF ReplayInv, Parts
<1>2. recorded' = recorded /\ saved' = saved
  BY DEF StartLockstep, LockstepEvent, LockstepCommit, step_commit, write_buttons, write_flags,
     oracleVars
<1>3. CASE StartLockstep
  <2>1. /\ task' = [kind |-> "lockstep", wrote |-> FALSE, steps |-> <<>>]
        /\ verdict' = NoVerdict /\ origin' = origin
        /\ State(emulator', queue', seq') = State(emulator, queue, seq)
    BY <1>3 DEF StartLockstep, Calls, oracleVars
  <2>2. task'.kind = "lockstep" /\ verdict'.kind = "none"
    BY <2>1 DEF NoVerdict
  <2> QED
    BY <1>1, <1>2, <2>1, <2>2, NoneRuns DEF Parts
<1>4. CASE LockstepEvent \/ LockstepCommit
  <2>1. origin' = "moved" /\ task.kind = "lockstep"
    BY <1>4 DEF LockstepEvent, LockstepCommit
  <2>2. task'.kind \in {"lockstep", "idle"} /\ ReplayOK(verdict')
    <3>1. task = [kind |-> "lockstep", wrote |-> task.wrote, steps |-> task.steps]
      BY <2>1 DEF ReplayInv, ClientInv, LockstepOK
    <3>2. CASE LockstepEvent
      <4>1. verdict' = verdict /\ task' \in {[task EXCEPT !.wrote = TRUE], Idle}
        BY <3>2 DEF LockstepEvent
      <4> QED
        BY <1>1, <3>1, <4>1 DEF Idle
    <3>3. CASE LockstepCommit
      <4>1. PICK trace \in DutTraces :
              LET commit == Head(Stepped.commits)
                  diffs == compare_commit(trace)
                  steps == Append(task.steps, [trace |-> trace, commit |-> commit, diffs |-> diffs])
              IN  IF TimedOut
                  THEN task' = Idle /\ verdict' = [kind |-> "timeout", same |-> FALSE]
                  ELSE IF diffs # {} \/ Len(steps) = commit_limit
                       THEN /\ task' = Idle
                            /\ verdict' = [kind |-> "lockstep", matched |-> diffs = {},
                                           steps |-> steps]
                       ELSE task' = [task EXCEPT !.steps = steps, !.wrote = FALSE]
                            /\ UNCHANGED verdict
        BY <3>3 DEF LockstepCommit
      <4> DEFINE matched == compare_commit(trace) = {}
                 steps == Append(task.steps, [trace |-> trace, commit |-> Head(Stepped.commits),
                                              diffs |-> compare_commit(trace)])
      <4>2. \/ task' = Idle /\ verdict' = [kind |-> "timeout", same |-> FALSE]
            \/ task' = Idle /\ verdict' = [kind |-> "lockstep", matched |-> matched, steps |-> steps]
            \/ task' = [task EXCEPT !.steps = steps, !.wrote = FALSE] /\ verdict' = verdict
        BY <4>1
      <4> HIDE DEF matched, steps
      <4>3. task'.kind \in {"lockstep", "idle"}
        <5>1. CASE task' = [task EXCEPT !.steps = steps, !.wrote = FALSE]
          BY <2>1, <3>1, <5>1
        <5> QED
          BY <4>2, <5>1 DEF Idle
      <4>4. \/ verdict' = verdict
            \/ verdict'.kind = "timeout" /\ verdict'.same = FALSE
            \/ verdict'.kind = "lockstep"
        BY <4>2
      <4> QED
        BY <1>1, <4>3, <4>4 DEF ReplayOK
    <3> QED
      BY <1>4, <3>2, <3>3
  <2> QED
    BY <1>1, <1>2, <2>1, <2>2, NoneRuns DEF Parts
<1> QED
  BY <1>3, <1>4

LEMMA ReplayInvInit == LockstepInit => ReplayInv
<1> SUFFICES ASSUME LockstepInit PROVE ReplayInv
  OBVIOUS
<1>1. task.kind = "idle" /\ verdict.kind = "none" /\ recorded = NoRecord /\ origin = "moved"
  BY DEF LockstepInit, Idle, NoVerdict
<1> QED
  BY <1>1, ClientInvInit, NoneRuns DEF ReplayInv, Parts

LEMMA ReplayInvStep == ReplayInv /\ [LockstepNext]_lockstepVars => ReplayInv'
<1> SUFFICES ASSUME ReplayInv, [LockstepNext]_lockstepVars PROVE ReplayInv'
  OBVIOUS
<1>1. ClientInv'
  BY ClientInvStep DEF ReplayInv
<1>2. Parts(origin', task', recorded', verdict', saved', State(emulator', queue', seq'))
  <2>1. CASE UNCHANGED lockstepVars
    <3>1. UNCHANGED <<origin, task, recorded, verdict, saved, emulator, queue, seq>>
      BY <2>1 DEF lockstepVars, oracleVars
    <3> QED
      BY <3>1 DEF ReplayInv
  <2> QED
    BY <2>1, SetUpParts, StartCollectParts, CollectParts, StartCompareParts, CompareParts,
       LockstepParts DEF LockstepNext
<1>3. Parts(origin, task, recorded, verdict, saved, State(emulator, queue, seq))'
  BY <1>2
<1> QED
  BY <1>1, <1>3 DEF ReplayInv

(* A recording replayed from the same set-up matches and does not time out.  *)
THEOREM ReplayTheorem == LockstepSpec => []ReplayMatches
<1>1. ReplayInv => ReplayMatches
  BY DEF ReplayInv, Parts, ReplayOK, ReplayMatches
<1> QED
  BY <1>1, ReplayInvInit, ReplayInvStep, PTL DEF LockstepSpec

(**************************** the arithmetic unit ****************************)

USE DEF Bytes, Result, Flags, CarryOf

(* Reducing before the borrow is subtracted changes nothing.                 *)
LEMMA BorrowTwice ==
    ASSUME NEW a \in Bytes, NEW b \in Bytes
    PROVE  /\ Low8(Low8(a - b) - 1) = Low8(a - (b + 1))
           /\ Low8(Low8(a - b) - 0) = Low8(a - (b + 0))
           /\ Low8(Low8(a - b) - 0) = Low8(a - b)
<1>1. CASE a < b
  <2>1. Low8(a - b) = a - b + 256
    BY <1>1 DEF Low8
  <2> QED
    BY <1>1, <2>1 DEF Low8
<1>2. CASE a >= b
  <2>1. Low8(a - b) = a - b
    BY <1>2 DEF Low8
  <2> QED
    BY <1>2, <2>1 DEF Low8
<1> QED
  BY <1>1, <1>2

LEMMA AddAgrees ==
    ASSUME NEW a \in Bytes, NEW b \in Bytes
    PROVE  Adc8Result(a, b, FALSE) = add8(a, b)
<1>1. a + b + 0 = a + b /\ LowNibble(a) + LowNibble(b) + 0 = LowNibble(a) + LowNibble(b)
  BY DEF LowNibble
<1> QED
  BY <1>1, Zenon DEF Adc8Result, add8

(* A borrow that comes in turns "less" into "less or equal" (sbc8_result     *)
(* against sbc8).                                                            *)
LEMMA SubtractAgrees ==
    ASSUME NEW a \in Bytes, NEW b \in Bytes, NEW c \in BOOLEAN
    PROVE  Sbc8Result(a, b, c) = sbc8(a, b, c)
<1>1. CASE c = TRUE
  <2>1. /\ (LowNibble(a) <= LowNibble(b)) = (LowNibble(a) < LowNibble(b) + 1)
        /\ (a <= b) = (a < b + 1)
    BY DEF LowNibble
  <2>2. CarryOf(c) = 1
    BY <1>1
  <2>3. Sbc8Result(a, b, TRUE) = sbc8(a, b, TRUE)
    BY <2>1, BorrowTwice DEF Sbc8Result, sbc8
  <2> QED
    BY <1>1, <2>3
<1>2. CASE c = FALSE
  <2>1. LowNibble(b) + 0 = LowNibble(b) /\ b + 0 = b
    BY DEF LowNibble
  <2>2. Sbc8Result(a, b, FALSE) = sbc8(a, b, FALSE)
    BY <2>1, BorrowTwice DEF Sbc8Result, sbc8
  <2> QED
    BY <1>2, <2>2
<1> QED
  BY <1>1, <1>2

LEMMA SubAgrees ==
    ASSUME NEW a \in Bytes, NEW b \in Bytes
    PROVE  Sbc8Result(a, b, FALSE) = sub8(a, b)
  BY BorrowTwice DEF Sbc8Result, sub8

LEMMA LogicAgrees ==
    ASSUME NEW a \in Bytes, NEW b \in Bytes
    PROVE  /\ And8Result(a, b) = and8(a, b)
           /\ Xor8Result(a, b) = xor8(a, b)
           /\ Or8Result(a, b) = or8(a, b)
  BY DEF And8Result, Or8Result, Xor8Result, LogicResult, and8, or8, xor8

(* The adjustment by two independent corrections equals the reference's      *)
(* case split.                                                               *)
LEMMA DaaAgrees ==
    ASSUME NEW a \in Bytes, NEW f \in FlagSet
    PROVE  DaaResult(a, f) = daa(a, f)
<1>1. CASE f.n = TRUE
  BY <1>1, ZenonT(40) DEF DaaResult, daa, FlagSet, Low8, LowNibble
<1>2. CASE f.n = FALSE
  BY <1>2, ZenonT(40) DEF DaaResult, daa, FlagSet, Low8, LowNibble
<1> QED
  BY <1>1, <1>2 DEF FlagSet

LEMMA UnaryLemma ==
    ASSUME NEW a \in Bytes, NEW f \in FlagSet
    PROVE  UnaryAgrees(a, f)
<1>1. Inc8Result(a, f) = inc8(a, f.c) /\ Dec8Result(a, f) = dec8(a, f.c)
  BY DEF Inc8Result, inc8, Dec8Result, dec8
<1>2. /\ CplResult(a, f) = cpl(a, f.z, f.c)
      /\ ScfResult(f).flags = scf(f.z) /\ CcfResult(f).flags = ccf(f.z, f.c)
  BY DEF CplResult, cpl, ScfResult, scf, CcfResult, ccf
<1>3. DaaResult(a, f) = daa(a, f)
  BY DaaAgrees
<1> QED
  BY <1>1, <1>2, <1>3 DEF UnaryAgrees, AluRequest, MiscRequest

(* The carry of a rotation is the top or the bottom bit.                     *)
LEMMA EndBits ==
    ASSUME NEW a \in Bytes
    PROVE  /\ BitOf(a, 7) = (a >= 128) /\ BitOf(a, 0) = (a % 2 = 1)
           /\ CarryOf(BitOf(a, 7)) = a \div 128
           /\ CarryOf(BitOf(a, 0)) = a % 2
           /\ 128 * CarryOf(BitOf(a, 7)) = (IF a >= 128 THEN 128 ELSE 0)
<1>1. BitWeight[8] = 128 /\ BitWeight[1] = 1
  BY DEF BitWeight
<1>2. BitOf(a, 7) = ((a \div 128) % 2 = 1) /\ BitOf(a, 0) = ((a \div 1) % 2 = 1)
  BY <1>1 DEF BitOf
<1>3. a \div 1 = a
  OBVIOUS
<1>0. BitOf(a, 0) = (a % 2 = 1) /\ CarryOf(BitOf(a, 0)) = a % 2
  <2>1. CASE a % 2 = 1
    BY <1>2, <1>3, <2>1
  <2>2. CASE a % 2 = 0
    BY <1>2, <1>3, <2>2
  <2> QED
    BY <2>1, <2>2
<1>4. CASE a >= 128
  <2>1. a \div 128 = 1 /\ (a \div 128) % 2 = 1
    BY <1>4
  <2>2. BitOf(a, 7) = TRUE /\ (a >= 128) = TRUE
    BY <1>2, <1>4, <2>1
  <2>3. CarryOf(BitOf(a, 7)) = 1 /\ 128 * 1 = 128
    BY <2>2
  <2> QED
    BY <1>0, <1>4, <2>1, <2>2, <2>3
<1>5. CASE a < 128
  <2>1. a \div 128 = 0 /\ (a \div 128) % 2 = 0
    BY <1>5
  <2>4. ((a \div 128) % 2 = 1) = FALSE /\ (a >= 128) = FALSE
    <3>1. ~ ((a \div 128) % 2 = 1) /\ ~ (a >= 128)
      BY <1>5, <2>1
    <3> QED
      BY <3>1, SMT
  <2>2. BitOf(a, 7) = FALSE /\ (a >= 128) = FALSE
    BY <1>2, <2>4, Zenon
  <2>3. CarryOf(BitOf(a, 7)) = 0 /\ 128 * 0 = 0
    BY <2>2
  <2> QED
    BY <1>0, <1>5, <2>1, <2>2, <2>3
<1> QED
  BY <1>4, <1>5

(* Left rotations: what enters at bit 0 is 0, the carry or bit 7.            *)
LEMMA LeftLemma ==
    ASSUME NEW a \in Bytes, NEW f \in FlagSet, NEW zero \in BOOLEAN
    PROVE  /\ RotShiftResult("Rlc", a, f, zero) = rlc8(a, zero)
           /\ RotShiftResult("Rl", a, f, zero) = rl8(a, f.c, zero)
           /\ RotShiftResult("Sla", a, f, TRUE) = sla8(a)
<1>1. Low8(2 * a) + 0 = Low8(2 * a)
  BY DEF Low8
<1>2. RotShiftResult("Rlc", a, f, zero) = rlc8(a, zero)
  BY EndBits, Zenon DEF RotShiftResult, Rotated, rlc8
<1>3. RotShiftResult("Rl", a, f, zero) = rl8(a, f.c, zero)
  BY EndBits, Zenon DEF RotShiftResult, Rotated, rl8
<1>4. RotShiftResult("Sla", a, f, TRUE) = sla8(a)
  BY <1>1, EndBits, Zenon DEF RotShiftResult, Rotated, sla8
<1> QED
  BY <1>2, <1>3, <1>4

LEMMA RightLemma ==
    ASSUME NEW a \in Bytes, NEW f \in FlagSet, NEW zero \in BOOLEAN
    PROVE  /\ RotShiftResult("Rrc", a, f, zero) = rrc8(a, zero)
           /\ RotShiftResult("Rr", a, f, zero) = rr8(a, f.c, zero)
           /\ RotShiftResult("Sra", a, f, TRUE) = sra8(a)
           /\ RotShiftResult("Srl", a, f, TRUE) = srl8(a)
<1>1. a \div 2 + 128 * 0 = a \div 2
  OBVIOUS
<1>2. RotShiftResult("Rrc", a, f, zero) = rrc8(a, zero)
  BY EndBits, ZenonT(30) DEF RotShiftResult, Rotated, rrc8
<1>3. RotShiftResult("Rr", a, f, zero) = rr8(a, f.c, zero)
  BY EndBits, ZenonT(30) DEF RotShiftResult, Rotated, rr8
<1>4. RotShiftResult("Sra", a, f, TRUE) = sra8(a)
  BY EndBits, ZenonT(30) DEF RotShiftResult, Rotated, sra8
<1>5. RotShiftResult("Srl", a, f, TRUE) = srl8(a)
  BY <1>1, EndBits, Zenon DEF RotShiftResult, Rotated, srl8
<1> QED
  BY <1>2, <1>3, <1>4, <1>5

LEMMA RotationsLemma ==
    ASSUME NEW a \in Bytes, NEW f \in FlagSet
    PROVE  RotationsAgree(a, f)
<1>1. 16 * LowNibble(a) + HighNibble(a) = HighNibble(a) + 16 * LowNibble(a)
  BY DEF LowNibble, HighNibble
<1>2. RotShiftResult("Swap", a, f, TRUE) = swap8(a)
  BY <1>1 DEF RotShiftResult, Rotated, swap8
<1>3. \A i \in 0 .. 7 : BitResSetResult("Bit", i, a, f) = bit_test(a, i, f.c)
  BY DEF BitResSetResult, bit_test
<1> QED
  BY <1>2, <1>3, LeftLemma, RightLemma DEF RotationsAgree

(* Words stay folded below: their 65536 elements are too many to list.       *)
LEMMA WordRange ==
    ASSUME NEW v
    PROVE  v \in Words <=> v \in Int /\ 0 <= v /\ v <= 65535
<1>1. PICK last \in Int : last = 65535
  OBVIOUS
<1>2. Words = 0 .. last
  BY <1>1 DEF Words
<1>3. v \in Words <=> v \in Int /\ 0 <= v /\ v <= last
  BY <1>2
<1> QED
  BY <1>1, <1>3

LEMMA WordsLemma ==
    ASSUME NEW v \in Words, NEW w \in Words, NEW b \in Bytes, NEW f \in FlagSet
    PROVE  WordsAgree(v, w, b, f)
<1> v \in Int /\ w \in Int
  BY WordRange
<1>1. Add16Result(v, w, f.z) = add16_hl(v, w, f.z)
  BY DEF Add16Result, add16_hl
<1>2. CASE b < 128
  <2>1. Signed(b) = b /\ (IF b < 128 THEN b ELSE 65280 + b) = b
    BY <1>2 DEF Signed
  <2> QED
    BY <1>1, <1>2, <2>1 DEF WordsAgree, AddSpE8Result, add_sp_e8
<1>3. CASE b >= 128
  <2>1. Signed(b) = b - 256 /\ (IF b < 128 THEN b ELSE 65280 + b) = 65280 + b
    BY <1>3 DEF Signed
  <2>2. Low16(v + (65280 + b)) = Low16(v + (b - 256))
    BY DEF Low16
  <2> DEFINE set == Flags(FALSE, FALSE, LowNibble(v) + LowNibble(b) > 15, Low8(v) + b > 255)
  <2>3. AddSpE8Result(v, b) = Result(Low16(v + (65280 + b)), set)
    <3> DEFINE off == IF b < 128 THEN b ELSE 65280 + b
    <3>1. AddSpE8Result(v, b) = Result(Low16(v + off), set)
      BY DEF AddSpE8Result
    <3>2. off = 65280 + b
      BY <2>1
    <3> HIDE DEF off
    <3> QED
      BY <3>1, <3>2
  <2>4. add_sp_e8(v, b) = Result(Low16(v + (b - 256)), set)
    BY <2>1 DEF add_sp_e8
  <2> HIDE DEF set, Result, Flags
  <2>5. AddSpE8Result(v, b) = add_sp_e8(v, b)
    BY <2>2, <2>3, <2>4
  <2> QED
    BY <1>1, <2>5 DEF WordsAgree
<1> QED
  BY <1>2, <1>3

LEMMA ArithmeticLemma ==
    ASSUME NEW a \in Bytes, NEW b \in Bytes, NEW f \in FlagSet
    PROVE  ArithmeticAgrees(a, b, f)
<1>1. f.c \in BOOLEAN
  BY DEF FlagSet
<1>2. Adc8Result(a, b, FALSE) = add8(a, b) /\ Adc8Result(a, b, f.c) = adc8(a, b, f.c)
  BY AddAgrees DEF Adc8Result, adc8
<1>3. Sbc8Result(a, b, FALSE) = sub8(a, b) /\ Sbc8Result(a, b, f.c) = sbc8(a, b, f.c)
  BY <1>1, SubAgrees, SubtractAgrees
<1>4. Cp8Result(a, b) = cp8(a, b)
  BY <1>3 DEF Cp8Result, cp8
<1> QED
  BY <1>2, <1>3, <1>4, LogicAgrees DEF ArithmeticAgrees, AluRequest

(* Every result is a byte with four flags.                                   *)
Typed(r) == r.value \in Bytes /\ r.flags \in FlagSet

LEMMA Low8Byte ==
    ASSUME NEW n \in Int
    PROVE  Low8(n) \in Bytes
  BY DEF Low8

LEMMA BitSums ==
    ASSUME NEW Set(_)
    PROVE  ByteOf(Set) \in Bytes
<1>1. /\ BitWeight[1] = 1 /\ BitWeight[2] = 2 /\ BitWeight[3] = 4 /\ BitWeight[4] = 8
      /\ BitWeight[5] = 16 /\ BitWeight[6] = 32 /\ BitWeight[7] = 64 /\ BitWeight[8] = 128
  BY DEF BitWeight
<1> QED
  BY <1>1 DEF ByteOf

LEMMA ArithmeticTyped ==
    ASSUME NEW a \in Bytes, NEW b \in Bytes, NEW c \in BOOLEAN
    PROVE  /\ Typed(Adc8Result(a, b, c)) /\ Typed(Sbc8Result(a, b, c))
           /\ Typed(Cp8Result(a, b))
<1>1. CarryOf(c) \in 0 .. 1
  OBVIOUS
<1>2. Low8(a + b + CarryOf(c)) \in Bytes
  BY <1>1, Low8Byte
<1>3. Typed(Adc8Result(a, b, c))
  BY <1>2 DEF Adc8Result, Typed, FlagSet
<1>5. \A k \in BOOLEAN : Typed(Sbc8Result(a, b, k))
  <2> SUFFICES ASSUME NEW k \in BOOLEAN
               PROVE  Typed(sbc8(a, b, k))
    BY SubtractAgrees
  <2>1. Low8(a - (b + CarryOf(k))) \in Bytes
    BY Low8Byte
  <2> QED
    BY <2>1 DEF sbc8, Typed, FlagSet
<1>6. Typed(Cp8Result(a, b))
  BY <1>5 DEF Cp8Result, Typed
<1> QED
  BY <1>3, <1>5, <1>6

LEMMA UnaryTyped ==
    ASSUME NEW a \in Bytes, NEW f \in FlagSet
    PROVE  /\ Typed(Inc8Result(a, f)) /\ Typed(Dec8Result(a, f))
           /\ Typed(DaaResult(a, f)) /\ Typed(CplResult(a, f))
           /\ ScfResult(f).flags \in FlagSet /\ CcfResult(f).flags \in FlagSet
<1>1. Low8(a + 1) \in Bytes /\ Low8(a - 1) \in Bytes
  BY Low8Byte
<1>2. Typed(Inc8Result(a, f)) /\ Typed(Dec8Result(a, f))
  BY <1>1 DEF Inc8Result, Dec8Result, Typed, FlagSet
<1>3. Typed(DaaResult(a, f))
  <2> DEFINE low == IF f.h \/ (~ f.n /\ LowNibble(a) > 9) THEN 6 ELSE 0
             high == IF f.c \/ (~ f.n /\ a > 153) THEN 96 ELSE 0
             v == Low8(IF f.n THEN a - (low + high) ELSE a + low + high)
  <2>1. v \in Bytes
    <3>1. low \in Int /\ high \in Int
      OBVIOUS
    <3> HIDE DEF low, high
    <3> QED
      BY <3>1, Low8Byte
  <2>2. DaaResult(a, f) = Result(v, Flags(v = 0, f.n, FALSE, f.c \/ (~ f.n /\ a > 153)))
    BY DEF DaaResult
  <2>3. f.n \in BOOLEAN /\ (f.c \/ (~ f.n /\ a > 153)) \in BOOLEAN /\ (v = 0) \in BOOLEAN
    BY DEF FlagSet
  <2> HIDE DEF v
  <2> QED
    BY <2>1, <2>2, <2>3 DEF Typed, FlagSet
<1>4. Typed(CplResult(a, f)) /\ ScfResult(f).flags \in FlagSet /\ CcfResult(f).flags \in FlagSet
  BY DEF CplResult, ScfResult, CcfResult, Typed, FlagSet
<1> QED
  BY <1>2, <1>3, <1>4

LEMMA LogicTyped ==
    ASSUME NEW a \in Bytes, NEW b \in Bytes
    PROVE  Typed(And8Result(a, b)) /\ Typed(Or8Result(a, b)) /\ Typed(Xor8Result(a, b))
<1>1. AndBytes(a, b) \in Bytes /\ OrBytes(a, b) \in Bytes /\ XorBytes(a, b) \in Bytes
  BY BitSums DEF AndBytes, OrBytes, XorBytes
<1> QED
  BY <1>1 DEF And8Result, Or8Result, Xor8Result, LogicResult, Typed, FlagSet

LEMMA RotationsTyped ==
    ASSUME NEW kind \in RotKinds, NEW a \in Bytes, NEW f \in FlagSet, NEW zero \in BOOLEAN
    PROVE  Typed(RotShiftResult(kind, a, f, zero))
<1>1. f.c \in BOOLEAN /\ BitOf(a, 7) \in BOOLEAN /\ BitOf(a, 0) \in BOOLEAN
  BY DEF FlagSet, BitOf
<1> DEFINE left(in) == Low8(2 * a) + CarryOf(in)
           right(in) == a \div 2 + 128 * CarryOf(in)
<1>2. \A in \in BOOLEAN : left(in) \in Bytes /\ right(in) \in Bytes
  <2>1. Low8(2 * a) + 1 \in Bytes /\ Low8(2 * a) + 0 \in Bytes
    BY DEF Low8
  <2>2. a \div 2 + 128 * 1 \in Bytes /\ a \div 2 + 128 * 0 \in Bytes
    OBVIOUS
  <2> QED
    BY <2>1, <2>2
<1>3. 16 * LowNibble(a) + HighNibble(a) \in Bytes
  BY DEF LowNibble, HighNibble
<1>4. \A v \in Bytes, out \in BOOLEAN : Typed(Result(v, Flags(zero /\ v = 0, FALSE, FALSE, out)))
  BY DEF Typed, FlagSet
<1> HIDE DEF left, right
<1>5. CASE kind \in {"Rlc", "Rl", "Sla"}
  <2> DEFINE in == CASE kind = "Rlc" -> BitOf(a, 7) [] kind = "Rl" -> f.c [] OTHER -> FALSE
  <2>1. in \in BOOLEAN
    BY <1>1
  <2>2. RotShiftResult(kind, a, f, zero)
            = Result(left(in), Flags(zero /\ left(in) = 0, FALSE, FALSE, BitOf(a, 7)))
    BY <1>5 DEF RotShiftResult, left
  <2> HIDE DEF in
  <2> QED
    BY <1>1, <1>2, <1>4, <2>1, <2>2, ZenonT(40)
<1>6. CASE kind \in {"Rrc", "Rr", "Sra", "Srl"}
  <2> DEFINE in == CASE kind = "Rrc" -> BitOf(a, 0) [] kind = "Rr" -> f.c
                     [] kind = "Sra" -> BitOf(a, 7) [] OTHER -> FALSE
  <2>1. in \in BOOLEAN
    BY <1>1
  <2>2. RotShiftResult(kind, a, f, zero)
            = Result(right(in), Flags(zero /\ right(in) = 0, FALSE, FALSE, BitOf(a, 0)))
    BY <1>6, ZenonT(40) DEF RotShiftResult, right
  <2> HIDE DEF in
  <2> QED
    BY <1>1, <1>2, <1>4, <2>1, <2>2, ZenonT(40)
<1>7. CASE kind = "Swap"
  BY <1>3, <1>4, <1>7 DEF RotShiftResult
<1> QED
  BY <1>5, <1>6, <1>7 DEF RotKinds

LEMMA BitsTyped ==
    ASSUME NEW kind \in {"Bit", "Res", "Set"}, NEW i \in 0 .. 7, NEW a \in Bytes, NEW f \in FlagSet
    PROVE  Typed(BitResSetResult(kind, i, a, f))
<1>1. \A set : WithBit(a, i, set) \in Bytes
  BY BitSums DEF WithBit
<1>2. CASE kind = "Bit"
  BY <1>2 DEF BitResSetResult, Typed, FlagSet
<1>3. CASE kind = "Res"
  BY <1>1, <1>3 DEF BitResSetResult, Typed
<1>4. CASE kind = "Set"
  BY <1>1, <1>4 DEF BitResSetResult, Typed
<1> QED
  BY <1>2, <1>3, <1>4

(* The registers keep their types whatever bytes the operands are.           *)
LEMMA TypingStep == OperandsAssumption /\ AccTypeOK /\ [AccNext]_accVars => AccTypeOK'
<1> SUFFICES ASSUME OperandsAssumption, AccTypeOK, [AccNext]_accVars
             PROVE  AccTypeOK'
  OBVIOUS
<1> USE DEF AccTypeOK
<1>0. \A r : Typed(r) /\ Keep(r) => AccTypeOK'
  BY DEF Typed, Keep
<1>1. CASE AluStep
  <2>1. PICK kind \in AluKinds, b \in Operands : Keep(AluRequest(kind, acc, b, flags))
    BY <1>1 DEF AluStep
  <2>2. b \in Bytes /\ flags.c \in BOOLEAN
    BY DEF OperandsAssumption, FlagSet
  <2>3. Typed(AluRequest(kind, acc, b, flags))
    <3> HIDE DEF Bytes, Result, Flags, CarryOf
    <3> QED
      BY <2>2, ArithmeticTyped, LogicTyped, UnaryTyped DEF AluRequest, AluKinds
  <2> QED
    BY <1>0, <2>1, <2>3
<1>2. CASE MiscStep
  <2>1. CASE \E kind \in {"Daa", "Cpl"} : Keep(MiscRequest(kind, acc, flags))
    BY <1>0, <2>1, UnaryTyped DEF MiscRequest
  <2>2. CASE \E kind \in {"Scf", "Ccf"} : KeepFlags(MiscRequest(kind, acc, flags).flags)
    BY <2>2, UnaryTyped DEF MiscRequest, KeepFlags
  <2> QED
    BY <1>2, <2>1, <2>2 DEF MiscStep
<1>3. CASE RotateStep
  BY <1>0, <1>3, RotationsTyped DEF RotateStep
<1>4. CASE BitStep
  BY <1>0, <1>4, BitsTyped DEF BitStep
<1>5. CASE UNCHANGED accVars
  BY <1>5 DEF accVars
<1> QED
  BY <1>1, <1>2, <1>3, <1>4, <1>5 DEF AccNext

LEMMA Typing == AccSpec => []AccTypeOK
<1>1. AccInit => AccTypeOK
  BY DEF AccInit, AccTypeOK, StartFlags, FlagSet
<1> QED
  BY <1>1, TypingStep, OperandsAssumption, PTL DEF AccSpec

LEMMA WordOfBytes ==
    ASSUME NEW h \in Bytes, NEW l \in Bytes
    PROVE  WordOf(h, l) \in Words
<1>1. WordOf(h, l) \in Int /\ 0 <= WordOf(h, l) /\ WordOf(h, l) <= 65535
  BY DEF WordOf
<1> HIDE DEF WordOf
<1> QED
  BY <1>1, WordRange

(* Whatever bytes the operands are and in whatever order the instructions    *)
(* come, the arithmetic unit (alu.spade) gives the value and the flags of    *)
(* the reference the tests compare it with (flag_policies.py).               *)
THEOREM AgreementTheorem == AccSpec => []FlagsAgree
<1>1. OperandsAssumption /\ AccTypeOK => FlagsAgree
  <2> SUFFICES ASSUME OperandsAssumption, AccTypeOK
               PROVE  FlagsAgree
    OBVIOUS
  <2>1. acc \in Bytes /\ flags \in FlagSet
    BY DEF AccTypeOK
  <2>2. ASSUME NEW b \in Operands
        PROVE  /\ ArithmeticAgrees(acc, b, flags)
               /\ WordsAgree(WordOf(acc, b), WordOf(b, acc), b, flags)
    <3>1. b \in Bytes
      BY DEF OperandsAssumption
    <3> HIDE DEF Bytes
    <3>2. WordOf(acc, b) \in Words /\ WordOf(b, acc) \in Words
      BY <2>1, <3>1, WordOfBytes
    <3> QED
      BY <2>1, <3>1, <3>2, ArithmeticLemma, WordsLemma
  <2> QED
    BY <2>1, <2>2, UnaryLemma, RotationsLemma DEF FlagsAgree
<1> QED
  BY <1>1, Typing, OperandsAssumption, PTL

(* Decimal arithmetic, digit by digit: t and s are the tens, u and w the     *)
(* units of the two operands.                                                *)
LEMMA DecimalDigits ==
    ASSUME NEW q \in Digits, NEW r \in Digits
    PROVE  DecimalOf(10 * q + r) = 16 * q + r
<1>1. (10 * q + r) \div 10 = q /\ (10 * q + r) % 10 = r
  BY DEF Digits
<1> QED
  BY <1>1 DEF DecimalOf

(* What the adjustment does after an addition and after a subtraction.       *)
LEMMA AdjustUp ==
    ASSUME NEW x, x.value \in Bytes, x.flags \in FlagSet, ~ x.flags.n,
           NEW carried \in 0 .. 1, (x.flags.h \/ LowNibble(x.value) > 9) <=> (carried = 1),
           NEW over \in 0 .. 1, (x.flags.c \/ x.value > 153) <=> (over = 1)
    PROVE  /\ Adjusted(x).value = Low8(x.value + 6 * carried + 96 * over)
           /\ Adjusted(x).flags.c <=> (over = 1)
<1> DEFINE low == IF x.flags.h \/ (~ x.flags.n /\ LowNibble(x.value) > 9) THEN 6 ELSE 0
           high == IF x.flags.c \/ (~ x.flags.n /\ x.value > 153) THEN 96 ELSE 0
<1>1. low = 6 * carried /\ high = 96 * over
  OBVIOUS
<1>2. Adjusted(x).value = Low8(IF x.flags.n THEN x.value - (low + high) ELSE x.value + low + high)
  BY DEF Adjusted, DaaResult
<1>3. Adjusted(x).flags.c <=> (over = 1)
  BY DEF Adjusted, DaaResult
<1> HIDE DEF low, high
<1> QED
  BY <1>1, <1>2, <1>3

LEMMA AdjustDown ==
    ASSUME NEW x, x.value \in Bytes, x.flags \in FlagSet, x.flags.n,
           NEW borrowed \in 0 .. 1, x.flags.h <=> (borrowed = 1),
           NEW under \in 0 .. 1, x.flags.c <=> (under = 1)
    PROVE  /\ Adjusted(x).value = Low8(x.value - 6 * borrowed - 96 * under)
           /\ Adjusted(x).flags.c <=> (under = 1)
<1> DEFINE low == IF x.flags.h \/ (~ x.flags.n /\ LowNibble(x.value) > 9) THEN 6 ELSE 0
           high == IF x.flags.c \/ (~ x.flags.n /\ x.value > 153) THEN 96 ELSE 0
<1>1. low = 6 * borrowed /\ high = 96 * under
  OBVIOUS
<1>2. Adjusted(x).value = Low8(IF x.flags.n THEN x.value - (low + high) ELSE x.value + low + high)
  BY DEF Adjusted, DaaResult
<1>3. Adjusted(x).flags.c <=> (under = 1)
  BY DEF Adjusted, DaaResult
<1> HIDE DEF low, high
<1>4. x.value - (low + high) = x.value - 6 * borrowed - 96 * under
  BY <1>1
<1> QED
  BY <1>2, <1>3, <1>4

LEMMA AddDigits ==
    ASSUME NEW t \in Digits, NEW u \in Digits, NEW s \in Digits, NEW w \in Digits, NEW k \in BOOLEAN
    PROVE  DecimalAdd(16 * t + u, 16 * s + w, k)
<1> DEFINE a == 16 * t + u
           b == 16 * s + w
           c == CarryOf(k)
           tens == t + s
           units == u + w + c
           raw == a + b + c
           carried == IF units >= 10 THEN 1 ELSE 0
           over == IF tens + carried >= 10 THEN 1 ELSE 0
           half == LowNibble(a) + LowNibble(b) + c > 15
           sum == Low8(raw)
           zero == sum = 0
           carry == raw > 255
           q == tens + carried - 10 * over
           r == units - 10 * carried
<1>1. /\ a \in Bytes /\ b \in Bytes /\ c \in 0 .. 1
      /\ LowNibble(a) = u /\ LowNibble(b) = w /\ HighNibble(a) = t /\ HighNibble(b) = s
  BY DEF LowNibble, HighNibble, Digits
<1>2. raw = 16 * tens + units /\ tens \in 0 .. 18 /\ units \in 0 .. 19
  BY <1>1 DEF Digits
<1>3. q \in Digits /\ r \in Digits
  BY <1>2 DEF Digits
<1>4. (half \/ LowNibble(sum) > 9) <=> (carried = 1)
  <2>1. half <=> (units > 15)
    BY <1>1
  <2> HIDE DEF a, b, c, tens, units, half
  <2>2. CASE units <= 15
    <3>1. LowNibble(sum) = units
      BY <1>2, <2>2 DEF Low8, LowNibble
    <3>2. ~ half
      BY <1>2, <2>1, <2>2
    <3> HIDE DEF sum
    <3> QED
      BY <1>2, <3>1, <3>2
  <2>3. CASE units > 15
    BY <1>2, <2>1, <2>3
  <2> QED
    BY <1>2, <2>2, <2>3
<1>5. (carry \/ sum > 153) <=> (over = 1)
  <2> HIDE DEF a, b, c, tens, units
  <2> QED
    BY <1>2 DEF Low8
<1>6. Low8(sum + 6 * carried + 96 * over) = 16 * q + r
  <2> HIDE DEF a, b, c, tens, units
  <2> QED
    BY <1>2 DEF Low8
<1>7. LET total == ValueOf(a) + ValueOf(b) + c
      IN (total % 100) = 10 * q + r /\ (total >= 100) = (over = 1)
  <2>1. ValueOf(a) + ValueOf(b) + c = 10 * tens + units
    <3> HIDE DEF a, b, c
    <3> QED
      BY <1>1 DEF ValueOf, Digits
  <2> HIDE DEF a, b, c, tens, units
  <2>2. (10 * tens + units) % 100 = 10 * q + r
    BY <1>2
  <2>3. (10 * tens + units >= 100) = (over = 1)
    BY <1>2
  <2> QED
    BY <2>1, <2>2, <2>3
<1>8. Adc8Result(a, b, k) = Result(sum, Flags(zero, FALSE, half, carry))
  BY DEF Adc8Result
<1>9. sum \in Bytes /\ carried \in 0 .. 1 /\ over \in 0 .. 1
  <2> HIDE DEF a, b, c, tens, units
  <2> QED
    BY <1>2 DEF Low8
<1>10. half \in BOOLEAN /\ carry \in BOOLEAN /\ zero \in BOOLEAN
  OBVIOUS
<1>11. DecimalOf(10 * q + r) = 16 * q + r
  BY <1>3, DecimalDigits
<1> HIDE DEF a, b, c, tens, units, sum, raw, zero, carry, half, carried, over, q, r,
             Result, Flags, CarryOf, Bytes
<1>12. /\ Adc8Result(a, b, k).value = sum /\ Adc8Result(a, b, k).flags.n = FALSE
       /\ Adc8Result(a, b, k).flags.h = half /\ Adc8Result(a, b, k).flags.c = carry
       /\ Adc8Result(a, b, k).flags \in FlagSet
  BY <1>8, <1>10 DEF Result, Flags, FlagSet
<1>13. /\ Adjusted(Adc8Result(a, b, k)).value = 16 * q + r
       /\ Adjusted(Adc8Result(a, b, k)).flags.c <=> (over = 1)
  BY <1>4, <1>5, <1>6, <1>9, <1>12, AdjustUp
<1>14. Adjusted(Adc8Result(a, b, k)).flags.c \in BOOLEAN
  BY <1>12 DEF Adjusted, DaaResult, Result, Flags, FlagSet
<1>15. DecimalAdd(a, b, k)
  BY <1>7, <1>11, <1>13, <1>14 DEF DecimalAdd, c
<1> QED
  BY <1>15 DEF a, b

LEMMA SubDigits ==
    ASSUME NEW t \in Digits, NEW u \in Digits, NEW s \in Digits, NEW w \in Digits, NEW k \in BOOLEAN
    PROVE  DecimalSub(16 * t + u, 16 * s + w, k)
<1> DEFINE a == 16 * t + u
           b == 16 * s + w
           c == CarryOf(k)
           tens == t - s
           units == u - w - c
           raw == a - (b + c)
           borrowed == IF units < 0 THEN 1 ELSE 0
           under == IF tens - borrowed < 0 THEN 1 ELSE 0
           half == LowNibble(a) < LowNibble(b) + c
           carry == a < b + c
           rest == Low8(raw)
           zero == rest = 0
           q == tens - borrowed + 10 * under
           r == units + 10 * borrowed
<1>1. /\ a \in Bytes /\ b \in Bytes /\ c \in 0 .. 1
      /\ LowNibble(a) = u /\ LowNibble(b) = w /\ HighNibble(a) = t /\ HighNibble(b) = s
  BY DEF LowNibble, HighNibble, Digits
<1>2. raw = 16 * tens + units /\ tens \in -9 .. 9 /\ units \in -10 .. 9
  BY <1>1 DEF Digits
<1>3. q \in Digits /\ r \in Digits
  BY <1>2 DEF Digits
<1>4. half <=> (borrowed = 1)
  BY <1>1 DEF Digits
<1>5. carry <=> (under = 1)
  <2>1. carry <=> (raw < 0)
    <3> HIDE DEF a, b, c
    <3> QED
      BY <1>1
  <2> HIDE DEF a, b, c, tens, units, carry
  <2> QED
    BY <1>2, <2>1
<1>6. Low8(rest - 6 * borrowed - 96 * under) = 16 * q + r
  <2> HIDE DEF a, b, c, tens, units
  <2> QED
    BY <1>2 DEF Low8
<1>7. LET left == ValueOf(a) - ValueOf(b) - c
      IN (left % 100) = 10 * q + r /\ (left < 0) = (under = 1)
  <2>1. ValueOf(a) - ValueOf(b) - c = 10 * tens + units
    <3> HIDE DEF a, b, c
    <3> QED
      BY <1>1 DEF ValueOf, Digits
  <2> HIDE DEF a, b, c, tens, units
  <2>2. (10 * tens + units) % 100 = 10 * q + r
    BY <1>2
  <2>3. (10 * tens + units < 0) = (under = 1)
    BY <1>2
  <2> QED
    BY <2>1, <2>2, <2>3
<1>8. Sbc8Result(a, b, k) = Result(rest, Flags(zero, TRUE, half, carry))
  BY <1>1, SubtractAgrees DEF sbc8
<1>9. rest \in Bytes /\ borrowed \in 0 .. 1 /\ under \in 0 .. 1
  <2> HIDE DEF a, b, c, tens, units
  <2> QED
    BY <1>2 DEF Low8
<1>10. half \in BOOLEAN /\ carry \in BOOLEAN /\ zero \in BOOLEAN
  OBVIOUS
<1>11. DecimalOf(10 * q + r) = 16 * q + r
  BY <1>3, DecimalDigits
<1> HIDE DEF a, b, c, tens, units, rest, raw, zero, carry, half, borrowed, under, q, r,
             Result, Flags, CarryOf, Bytes
<1>12. /\ Sbc8Result(a, b, k).value = rest /\ Sbc8Result(a, b, k).flags.n = TRUE
       /\ Sbc8Result(a, b, k).flags.h = half /\ Sbc8Result(a, b, k).flags.c = carry
       /\ Sbc8Result(a, b, k).flags \in FlagSet
  BY <1>8, <1>10 DEF Result, Flags, FlagSet
<1>13. /\ Adjusted(Sbc8Result(a, b, k)).value = 16 * q + r
       /\ Adjusted(Sbc8Result(a, b, k)).flags.c <=> (under = 1)
  BY <1>4, <1>5, <1>6, <1>9, <1>12, AdjustDown
<1>14. Adjusted(Sbc8Result(a, b, k)).flags.c \in BOOLEAN
  BY <1>12 DEF Adjusted, DaaResult, Result, Flags, FlagSet
<1>15. DecimalSub(a, b, k)
  BY <1>7, <1>11, <1>13, <1>14 DEF DecimalSub, c
<1> QED
  BY <1>15 DEF a, b

(* Addition and subtraction with decimal adjustment are decimal on every     *)
(* pair of decimal bytes and either carry, whatever instructions brought the *)
(* accumulator there (adc8_result, sbc8_result and daa_result of alu.spade). *)
THEOREM DecimalTheorem == AccSpec => []DecimalArithmetic
<1>1. ASSUME NEW b \in Bytes
      PROVE  b = 16 * HighNibble(b) + LowNibble(b)
  BY DEF HighNibble, LowNibble
<1>2. AccTypeOK => DecimalArithmetic
  <2> SUFFICES ASSUME AccTypeOK, IsDecimal(acc), NEW b \in Bytes, IsDecimal(b)
               PROVE  DecimalAdd(acc, b, flags.c) /\ DecimalSub(acc, b, flags.c)
    BY DEF DecimalArithmetic
  <2>1. acc \in Bytes /\ flags.c \in BOOLEAN
    BY DEF AccTypeOK, FlagSet
  <2>2. acc = 16 * HighNibble(acc) + LowNibble(acc) /\ b = 16 * HighNibble(b) + LowNibble(b)
    BY <1>1, <2>1
  <2> HIDE DEF Bytes
  <2> QED
    BY <2>1, <2>2, AddDigits, SubDigits DEF IsDecimal
<1> QED
  BY <1>2, Typing, PTL
=============================================================================
