------------------------------- MODULE Oracle -------------------------------
(***************************************************************************)
(* The reference emulator behind the lockstep tests: PyBoyOracle of        *)
(* bench/pyboy/oracle.py with the hook manifest of bench/pyboy/hooks.py    *)
(* and symbols.py.  The emulator runs whole frames; a hook on an address   *)
(* of the ROM queues a commit each time the program passes it, and the     *)
(* client takes the commits one by one.                                    *)
(*                                                                         *)
(* PyBoy is external: the program is the sequence of hooked addresses each *)
(* frame passes, its last frame (the loop at __pass) repeating for ever.   *)
(* Of the registers in a commit the model keeps what the client can        *)
(* change: the buttons held and the interrupt flags requested.  Raw window *)
(* events, which bypass the buttons the oracle remembers, and plain memory *)
(* writes are left out.                                                    *)
(***************************************************************************)
EXTENDS Integers, Sequences, FiniteSets, SequencesExt

CONSTANTS
    Symbols,               \* the .sym file: a sequence of [bank, addr, label]
    Program,               \* the addresses each frame passes, <<bank, addr>>
    max_frames_per_commit, \* frames one step may take
    BootFrames,            \* frames of the boot ROM
    BootromPresent,        \* whether the boot ROM file exists
    HeldButtons,           \* the buttons the script uses
    FlagValues,            \* the interrupt flags the script touches
    LastFrame              \* bound: the client stops stepping after this frame

ASSUME OracleAssumption ==
    /\ Program \in Seq(Seq(Nat \X Nat)) /\ Program # <<>>
    /\ max_frames_per_commit \in Nat /\ BootFrames \in Nat

VARIABLES
    emulator,   \* the PyBoy instance, or Off
    queue,      \* the commits captured and not yet taken
    seq,        \* the number of the next commit
    pressed,    \* the buttons the oracle believes are held
    saved,      \* a snapshot, or NoSnapshot
    got,        \* history: commits taken since the state was set up
    fired       \* history: commits the program has made since then

oracleVars == <<emulator, queue, seq, pressed, saved, got, fired>>

(******************************** the hooks *******************************)

REQUIRED_LABELS == {"__pass", "__fail"}
OPTIONAL_LABELS == {"__checkpoint_loop", "__commit_step"}

is_executable(symbol) ==
    symbol.addr < 32768 /\ (symbol.bank = 0 \/ symbol.addr >= 16384)

Key(symbol) == <<symbol.bank, symbol.addr>>

\* The first symbol of that name.
lookup(label) == SelectSeq(Symbols, LAMBDA s : s.label = label)[1]

Named == {Symbols[i].label : i \in DOMAIN Symbols}

Hookable == {Symbols[i] : i \in {j \in DOMAIN Symbols :
                /\ is_executable(Symbols[j])
                /\ Symbols[j].label \in REQUIRED_LABELS \cup OPTIONAL_LABELS}}

\* build_hook_manifest needs both required labels, in executable ROM.
ManifestBuilds == \A label \in REQUIRED_LABELS : label \in Named /\ is_executable(lookup(label))

\* One target an address, with every reserved label there.
Hooked == {Key(s) : s \in Hookable}
HookManifest ==
    [key \in Hooked |-> {s.label : s \in {t \in Hookable : Key(t) = key}}]

is_terminal(commit) == commit.labels \cap REQUIRED_LABELS # {}

(****************************** the emulator ******************************)

Off == [frame |-> -1000, held |-> {}, events |-> <<>>, flags |-> {}, hooked |-> FALSE]
NoSnapshot == [emulator |-> Off]

\* The input events queued between frames, in the order they were sent.
ApplyEvents(held, events) ==
    FoldLeft(LAMBDA now, e : (now \ e.release) \cup e.press, held, events)

Passed(n) == IF n <= 0 THEN <<>> ELSE Program[IF n > Len(Program) THEN Len(Program) ELSE n]

\* The hooked addresses the program passes in frame n of emulator e, in order.
HooksIn(e, n) ==
    LET passed == Passed(n)
        hooks[i \in 0 .. Len(passed)] ==
            IF i = 0 THEN <<>>
            ELSE hooks[i - 1] \o IF passed[i] \in Hooked THEN <<passed[i]>> ELSE <<>>
    IN  IF e.hooked THEN hooks[Len(passed)] ELSE <<>>

\* _capture_commit for each of them, numbered from `first`.
Commits(keys, first, held, flags) ==
    [i \in DOMAIN keys |-> [seq |-> first + i - 1, key |-> keys[i],
                            labels |-> HookManifest[keys[i]], held |-> held, flags |-> flags]]

\* Frames tick runs before a hook fires, or the whole allowance.
FramesRun ==
    Min({n \in 1 .. max_frames_per_commit : HooksIn(emulator, emulator.frame + n) # <<>>}
            \cup {max_frames_per_commit})

(******************************** the calls *******************************)

CommitWaits == queue # <<>>

\* What step_commit leaves behind: one commit more taken, or a timeout.
Stepped ==
    IF CommitWaits
    THEN [commits |-> queue, emulator |-> emulator, new |-> <<>>]
    ELSE LET n == FramesRun
             held == ApplyEvents(emulator.held, emulator.events)
             keys == HooksIn(emulator, emulator.frame + n)
         IN  [commits |-> Commits(keys, seq, held, emulator.flags),
              emulator |-> [emulator EXCEPT !.frame = @ + n, !.held = held, !.events = <<>>],
              new |-> Commits(keys, Len(fired), held, emulator.flags)]

TimedOut == Stepped.commits = <<>>

\* A slip: what else the frame queued is dropped with the commit returned.
TakeDroppingRest(commits) == <<>>

\* The commits that stay queued when the first one is returned.
TakeFirst(commits) == IF commits = <<>> THEN <<>> ELSE Tail(commits)

step_commit ==
    /\ emulator # Off /\ emulator.frame < LastFrame
    /\ emulator' = Stepped.emulator
    /\ queue' = TakeFirst(Stepped.commits)
    /\ seq' = seq + Len(Stepped.new)
    /\ fired' = fired \o Stepped.new
    /\ got' = IF TimedOut THEN got ELSE Append(got, Head(Stepped.commits))
    /\ UNCHANGED <<pressed, saved>>

\* JoypadButtonsEvent: releases, then presses, of what changed.
write_buttons(target) ==
    /\ emulator # Off
    /\ emulator' = [emulator EXCEPT !.events =
                        Append(@, [release |-> pressed \ target, press |-> target \ pressed])]
    /\ pressed' = target
    /\ UNCHANGED <<queue, seq, saved, got, fired>>

\* IfSetBitsEvent and IfClearBitsEvent reach the emulator's memory at once.
write_flags(flags) ==
    /\ emulator # Off
    /\ emulator' = [emulator EXCEPT !.flags = flags]
    /\ UNCHANGED <<queue, seq, pressed, saved, got, fired>>

\* A slip: the input events still pending are left out of the snapshot.
SnapshotWithoutEvents ==
    [emulator |-> [emulator EXCEPT !.events = <<>>], queue |-> queue, seq |-> seq,
     pressed |-> pressed, got |-> got, fired |-> fired]

\* The payload of snapshot, with the history it stands for.
Payload ==
    [emulator |-> emulator, queue |-> queue, seq |-> seq, pressed |-> pressed,
     got |-> got, fired |-> fired]

snapshot ==
    /\ emulator # Off
    /\ saved' = Payload
    /\ UNCHANGED <<emulator, queue, seq, pressed, got, fired>>

\* The hooks of the running instance stay as they are.
restore ==
    /\ emulator # Off /\ saved # NoSnapshot
    /\ emulator' = [saved.emulator EXCEPT !.hooked = emulator.hooked]
    /\ queue' = saved.queue
    /\ seq' = saved.seq
    /\ pressed' = saved.pressed
    /\ got' = saved.got
    /\ fired' = saved.fired
    /\ UNCHANGED saved

\* A boot ROM is pinned for the DMG only, and looked for before the instance
\* is made; the state after it is pinned for the DMG only, and applied after
\* the instance is made: that failure leaves an instance without hooks.
ResetFails(model, profile) ==
    model # "DMG" \/ (profile = "RawPowerOn" /\ ~BootromPresent)

reset(model, profile) ==
    /\ emulator' =
        IF ResetFails(model, profile) /\ profile = "RawPowerOn" THEN Off
        ELSE [frame |-> IF profile = "RawPowerOn" THEN -BootFrames ELSE 0,
              held |-> {}, events |-> <<>>,
              flags |-> IF profile = "SkipBoot" /\ model = "DMG" THEN {0} ELSE {},
              hooked |-> ~ResetFails(model, profile)]
    /\ queue' = <<>>
    /\ seq' = 0
    /\ pressed' = {}
    /\ got' = <<>>
    /\ fired' = <<>>
    /\ UNCHANGED saved

\* close keeps the queue and the counter; only a reset makes them usable.
close ==
    /\ emulator' = Off
    /\ pressed' = {}
    /\ UNCHANGED <<queue, seq, saved, got, fired>>

OracleInit ==
    /\ emulator = Off
    /\ queue = <<>> /\ seq = 0 /\ pressed = {}
    /\ saved = NoSnapshot
    /\ got = <<>> /\ fired = <<>>

(******************************* properties *******************************)

\* Commits are handed out in the order the program made them, each once, with
\* consecutive numbers and every reserved label of their address: across
\* timeouts, frames that make several, snapshots, restores and resets.
CommitsInOrder ==
    emulator # Off =>
        /\ got \o queue = fired
        /\ seq = Len(fired)
        /\ \A i \in DOMAIN fired :
            fired[i].labels = {s.label : s \in {t \in Hookable : Key(t) = fired[i].key}}
=============================================================================
