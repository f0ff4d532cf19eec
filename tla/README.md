# A verification development for the CSEE 4840 labs

The repository holds three programs of an embedded systems course, each with its
own hardware and software:

| lab | what it is | sources |
|---|---|---|
| 1 | an FPGA design that counts the terms of the Collatz sequences of a range of numbers and shows one of the counts | `src/lab1/*.sv` |
| 2 | a chat client on a framebuffer with a USB keyboard, three threads | `src/lab2/*.c` |
| 3 | a ball drawn by a VGA peripheral, moved by a program through a kernel driver | `src/lab3/lab3-hw/vga_ball.sv`, `src/lab3/lab3-sw/*.c` |

The labs share no code. Nearly all of the other files under `src/`, and of its lines, are
kernel headers and tool output.

1. [Inventory](#1-inventory)
2. [Modules](#2-modules)
3. [Runs](#3-runs)
4. [Fairness](#4-fairness)
5. [Proofs](#5-proofs)
6. [Where code and comments disagree](#6-where-code-and-comments-disagree)
7. [Not modelled](#7-not-modelled)
8. [Plan](#8-plan)

## 1. Inventory

### Lab 2: the chat client (`src/lab2/lab2.c`, `fbputchar.c`, `usbkeyboard.c`)

**State.** The input line: `input_buf`, `input_len`, `cursor_pos`. The chat area:
`chat_lines`, `chat_line_count`. The keyboard: the interface and endpoint that were
found, the packet of the last transfer, `last_kc`, `caps_lock_on`. Drawing:
`cursor_visible`, the words of the framebuffer, and the mutex `fb_lock`. The socket.

**Operations and interaction.** `openkeyboard` searches the devices for a keyboard.
`main` reads key reports and edits the line without a lock, sends it with
`send_input_line`, and redraws with `refresh_input_area`. `network_thread_f` reads the
socket and prints with `chat_print_line`, which also clamps `cursor_pos`.
`cursor_thread_f` toggles `cursor_visible` every half second and redraws. The two drawing
functions take `fb_lock`, and paint glyphs with `fbputchar` and `fbputs`. ESC cancels and
joins the two threads, one after the other.

**Hard.** Unlocked edits against locked readers and a locked writer of
`cursor_pos`; deferred cancellation of threads that use a mutex; partial and
failing writes; a byte stream cut anywhere; several keys held, more than a report has
slots among them; results of USB calls that nobody looks at; a full line, a full chat
area, an empty line; the cell of the cursor, which has a rule of its own; strings that
do not stop at the end of a row.

**Correct when.** An edit looks atomic; every store is inside the buffer; the
screen shows the line whenever the user can look at it, each glyph in the words of its
cell; mutual exclusion survives cancellation; ESC ends the program; what is read is
printed, in the rows it belongs in; the cursor blinks; the first keyboard is the one that
is found; no key is taken twice without another press.

### Lab 1: Collatz counts (`src/lab1/collatz.sv`, `range.sv`, `lab1.sv`)

**State.** The iterator: `dout`, `done` (here `cdone`). The range: `running`,
`num`, `n`, `din`, `cgo`, `we`, `done`, the memory and its output `count`. The top:
four debouncers, edge detectors, the repeat timers of two keys, `offset`,
`base_n`, `range_ready`, `k_display` and the blink counters. `hex7seg.sv` decodes the
digits.

**Operations and interaction.** Everything takes its next value at an edge of one
clock. KEY[3] starts a range at the switches; the range loads the iterator with one
number after the other, counts its steps and writes the count; the address of the
memory is the write pointer or, between two ranges, the offset, which KEY[0] and
KEY[1] move and KEY[2] clears. The count comes a cycle after the address and the
display a cycle after the count.

**Hard.** `cgo`, `cdone` and `we` each lag by a cycle, and a count is off by one if
they do not make up for each other; `range_ready` is set by a pulse and cleared by a
key that may be pressed in the same cycle; what is displayed lags behind what is
asked for; a second start while a range runs moves the number shown but not the range;
arithmetic that wraps, and 0, whose sequence would never end; bouncing
keys.

**Correct when.** Each word of the memory has the number of terms of its number;
what can be read off the digits is a number of the range and its count; a range that ends
is shown and nothing is shown of one that runs; one pulse a press, and the repeats when
they are due; no glitch passes a debouncer and no press is lost; the blinking ends.

### Lab 3: the bouncing ball (`lab3-hw/vga_ball.sv`, `lab3-sw/vga_ball.c`, `hello.c`)

**State.** The peripheral: the two raster counters and the two position registers.
The driver: the resource, the mapping `virtbase`, `dev.position`, the registration of
the misc device. The program: position and velocity.

**Operations and interaction.** `hello.c` moves the ball and sends each position by an
ioctl, which the driver turns into two bus writes and a store of `dev.position`. The
raster reads the registers at any moment. `probe` registers, requests, maps and sets;
`remove` undoes it; both interleave with processes that open and close the device.

**Hard.** A position is two bus writes and a store in two halves, each visible alone, and
no lock keeps two programs apart; `probe` registers the device before it is mapped and
`remove` unmaps it before it deregisters; each error path of `probe` must undo what was
done; the raster's decodes test bits, not ranges; the pixel test squares differences in a
few bits; the program and the hardware have radii of their own.

**Correct when.** The disc is on the screen at every moment, and nothing else is white;
the registers follow the program; the ball bounces for ever; no ioctl uses a mapping that
is not there; a write that runs alone leaves a whole position, whatever was mixed before
it; nothing is left behind; the syncs and the blanking are where the standard has them.

## 2. Modules

| module | models | role |
|---|---|---|
| `LineEditor` | — | what a user of the chat client is promised: a one-line editor (abstract) |
| `ChatClient` | `lab2.c`: `main`, `send_input_line`, `refresh_input_area`, both threads, `chat_print_line`'s clamp | the three threads, one load or store of shared state a step |
| `ChatClientRefinement` | — | the refinement mapping from `ChatClient` to `LineEditor` |
| `InputArea` | `lab2.c` 318–383 | the two input rows, cell by cell |
| `Framebuffer` | `fbputchar.c` 70–122 | `fbclear`, `fbputchar` and `fbputs` on a memory of words |
| `InputScreen` | `lab2.c` 230–242, 318–383 | EXTENDS `InputArea` and `Framebuffer`: the input rows and the divider in memory |
| `ChatLog` | `lab2.c` 236–316, 492–506 | chunks, wrapping, the window and its redraw, byte by byte |
| `UsbKeyboard` | `usbkeyboard.c` | the search for a keyboard, setting by setting |
| `Keyboard` | `lab2.c` 148–163, 441–459 | EXTENDS `UsbKeyboard`: held keys, reports, failing transfers, the de-repeat filter |
| `Range` | `collatz.sv`, `range.sv` | the iterator, the state machine and the memory |
| `Hex7Seg` | `hex7seg.sv` | the table of the digits, and numbers of three of them |
| `CountDisplay` | `lab1.sv` | EXTENDS `Range` and `Hex7Seg`: start, ready, offset, digits, blinking |
| `Debounce` | `lab1.sv`: `debounce` | one debouncer a key |
| `KeyRepeat` | `lab1.sv` | EXTENDS `Debounce`: edges, pulses, repeats, the offset |
| `VgaCounters` | `vga_ball.sv`: `vga_counters` | the raster and its decodes |
| `VgaBall` | `vga_ball.sv` 1–66 | EXTENDS `VgaCounters`: the bus, the registers and the test of each pixel |
| `BouncingBall` | `hello.c`, `write_position`, the registers of `vga_ball.sv` | the ball from the program to the hardware |
| `VgaBallDriver` | `vga_ball.c` | probe, remove and the calls of processes, each a few steps |
| `*Proofs` | — | theorems about the module of that name and those it extends: `ChatClientProofs` about `ChatClientRefinement` too, `CountDisplayProofs` about `Range`, `KeyRepeatProofs` about `Debounce`, `VgaBallProofs` about `VgaCounters`; `InputProofs` about `InputScreen`, `InputArea`, `Framebuffer`, `Keyboard` and `UsbKeyboard` |
| `MC*` | — | values for TLC |

### How state and actions correspond to the code

**ChatClient.** The variables have the code's names; `pc` has a label for each
thread. One action is what happens between two accesses to shared state. A key goes
from `key` through `move`, `put`, `len`, `load`, `store` (the memmove, the store of the
character, of `input_len`, the load and the store of `cursor_pos`) to the redraw
(`lock`, `row1`, `row2`, `cursor`, `unlock`). The Makefile compiles without
optimisation, so each of these is an instruction of its own; where several loads are
one step a comment says why the outcomes are the same. `input_buf` has the index -1 too,
because the program can get there (section 6). Cancellation is deferred: it acts in
`read`, `printf` and `usleep`. `write` takes any part of what is left, fails once the
server has gone, or kills the process by SIGPIPE. What `last_sent` and `chat_cursor`
keep nothing reads; they are left out.

**InputArea, ChatLog, Keyboard** have what `ChatClient` abstracts: in which cell a
character is drawn, how bytes become rows, and which key is the first of a report. In
`InputArea` a character is its own position in the line, so that one in a wrong cell
shows. `ChatLog` needs no other thread, since `fb_lock` is held from the first byte to
the redraw. What was received is in `heard`, without the carriage returns that are passed
over, and `ends` has how much of it there was as each row was pushed: the rows of a
text are said by where they end in it.

**Framebuffer, InputScreen.** A word of the memory holds which pixel of which glyph was
painted into it last; whether the font sets that pixel does not matter. `fbputs` paints
one cell after the other, also past the end of a row, as the code does: `Put` says what
that leaves, which is the pixel of the last cell that has the word. `InputScreen` is
the sequence of calls of `refresh_input_area` on that memory, beside `InputArea`, which
says what should come of it.

**UsbKeyboard, Keyboard.** One step looks at a device, an interface or a setting. A
configuration that could not be read is whatever the pointer leads to (`misread`); a
transfer that was never filled is a packet of anything (`garbage`); the endpoint that is
taken may lead to the keyboard, so that the packet is sent (`Sent`); with more keys than
slots every slot has the code of the overflow (`RollOver`). `main` looks at the first slot
only, so of the order of a report only its first key is kept (`front`). It is the keyboard's
choice: USB gives the order of the codes no meaning, so a new key may come first, last or
anywhere, and may put any other key first. What is assumed is that the first key does
not change while the same keys are held, unless there were too many of them.

**Range, CountDisplay, Debounce, KeyRepeat.** A step is a clock edge; an `always_ff`
block is a conjunct that says what its registers are next, with one operator for
each of its branches. KEY[0] and KEY[1] are `inc` and `dec`; every other key clears the offset
(`rst_pulse`); the proofs are for any number of those, the run has one of the two there are,
and a second does nothing but that. What the reset does not set is anything at first: `PowerUp`
says which values TLC tries. The code's answer to `inc` and `dec` at once is in `NextOffset`; what
they should do together is said nowhere, and no property is about it. In `CountDisplay` the presses and pulses of the keys are inputs
that may be anything on any edge, which covers what `KeyRepeat` produces.

**VgaCounters, VgaBall.** All horizontal decodes look at `hcount[10:5]` only, and all
horizontal lengths are multiples of 32. `Unit` stands for that 32: with `Unit = 32`, which
the run has, the module is the code, and the proofs hold for every `Unit` up to it. A step
of `VgaBall` is a clock, on which the bus may write a register, or the reset, which the
counters do not wait a clock for and the registers do. Differences and squares have the
bits and the signs of the code.

**BouncingBall.** One step is an ioctl, a bus write, the store or an update of the
program. The casts to 16 bits and the ten and nine bits of the registers are modelled
by what they do.

**VgaBallDriver.** `mod` is the label `probe` or `remove` is at; `Kernel` is who runs
`probe`, whose `write_position` is a call like those of the processes. A call is a step
for each bus write, each half of `dev.position`, and the copy to the process. The
kernel's part is external: an open takes a reference to the module of `.owner`, which is
given while the module is live or still coming, and keeps it from being unloaded. A
process that opens the device before `probe` has ended, on its error path too
(`Failing`), is remembered in `early`: if
`probe` fails, the kernel frees the module under it and it is `lost`. `beside` and `mixed`
remember which calls ran beside a write, and whether the last write did.

History variables (`log`, `heard`, `ends`, `spoken`, `typed`, `recent`, `garbage`, `misread`,
`first`, `steady`, `past`, `held` of `KeyRepeat`, `early`, `beside`, `mixed`) are written and never read by the modelled code.

## 3. Runs

Twelve runs; a property of a passing run has a variant of a definition, kept beside
it (`...Not`, `...Late`, ...), under which TLC finds the property violated.

| run | module, states | what it shows |
|---|---|---|
| `chat_net` | `MCChatClient`, 3,889,652 | Until the server speaks, whenever that is, the threads implement `LineEditor` and the screen shows the cursor; with chat lines at any moment, the screen shows the line whenever `main` waits for a key and nobody draws; mutual exclusion, no memmove or store of an edit outside the line, a cursor that is displaced by one place at most and stays put when nobody types; no chat line changes the line or what is sent (`LineEditor!SharedSpec`). |
| `chat_live` | `MCChatClient`, 104,566 | ESC ends the program, keys are answered, chunks are printed, the cursor blinks. |
| `chat_astray` | `MCChatClient` | A violation: section 6. |
| `input_area` | `InputScreen`, 240 | Each character and the cursor in its cell, but for two cursor positions; one cell off at most; each glyph whole in the words of its cell, and no other word touched. |
| `chat_log` | `MCChatLog`, 65,238 | Rows, window and screen for every way of cutting the stream. |
| `key_repeat` | `MCKeyRepeat`, 654,976 | No glitch passes, no press is lost, each pulse is due, a held key reaches the end. |
| `count_display` | `MCCountDisplay`, 26,720 | Counts and reading back; ready; what is read off the digits, with a second start while a range runs; the range shown; the end of the blinking. |
| `keyboard` | `Keyboard`, 837,132 | The first keyboard is found; no key is taken twice between two presses, whichever of the held keys comes first; failing transfers type nothing. |
| `keyboard_held` | `Keyboard` | A violation: section 6. |
| `vga_ball` | `VgaBall`, 7,560,000 | Blanking, both syncs and the pixels of the disc at every clock, for registers in and far out of the picture. |
| `bouncing_ball` | `BouncingBall`, 43,001 | The disc on the screen, the registers up to date, all four walls again and again. |
| `driver` | `VgaBallDriver`, 604,089 | Mapped when used, nothing left, whole positions after any mixture. |

### Bounds, and why they are enough

*ChatClient.* `Pressed` is the keys TLC presses (all of them but in `chat_live`),
`Chunks` what `read` returns. `FirstCap` and `RestCap` are 1 and 1 or 2: lines that are
empty, end in the first row, end in the second and are full; an edit's positions are
at the start, in the middle and at the end. `chat_net` has a line of three, so that
`memmove` moves more than one character, and one letter, in two cases, and one chunk: the races
are between positions, and two characters are enough to tell one place from another.
`KeysAstray = FALSE` lets the user press nothing but ESC while the cursor
is out of the line, which is what the finding needs; `chat_net` shows that nothing
else goes wrong with it, and until the server speaks it keeps nothing from the user, because
the cursor is in the line whenever `main` waits for a key (`EditorSafe` has no such assumption). In `chat_live` two chunks
compete for an area of one line.

*InputScreen.* Rows of 8 cells instead of 64: both rows are partly and wholly full, and
the two special positions are apart; the proofs cover all widths and sizes. Glyphs
of 2 by 2 pixels, a margin of a word and a line on every side, and a chat row above the
divider, so that a cell in a wrong place, or a string too long, meets words that must not
change.

*ChatLog.* Rows of 2, a window of 3, chunks of up to 4 bytes, 7 bytes in all besides
returns (`MaxHeard`): a row is filled exactly, overrun and left open within a chunk and across
two, and the window scrolls. The bytes are two characters, a line end, a return and NUL.

*Keyboard.* Two devices of up to two interfaces with up to two settings
(`MaxDevices`, `MaxInterfaces`, `MaxSettings`): each loop of the search goes round and is
started again. Four codes and three slots with ESC among them, so that a fourth key rolls
over. `keyboard_held` has one device, two slots and a code less: two keys that overlap are
all its counterexample needs.

*KeyRepeat.* A window, a delay and a period of 2 cycles instead of 50 and millions,
`MaxOffset` 2: each counter runs, wraps and is cut short. Timers start at rest
(`PowerUp`); any others are put to rest on the first edge.

*CountDisplay.* Words of 4 bits and counts of 3, so that `3n + 1`, `n` and
counts all wrap within reach; a memory of 4 words; three switch positions, from 0 on,
whose ranges are of different lengths. `DisplayMod` is 8, the blink counters 2 and 5.
`Halting` are the numbers whose sequence ends and whose count fits; nothing is claimed
about the others, which run too. `HaltingWords` finds them by following each sequence.

*VgaBall.* The sizes of the code: every clock of a field. The bus writes 3 and 2047, which
are near a corner and far outside. *BouncingBall* has the sizes and speeds of the code.
*VgaBallDriver* has two processes and the kernel's caller, any two or three of whose
calls may mix; a process that opened early and one that did not; two positions that have
no coordinate in common.

## 4. Fairness

*ChatClient.* Each thread is scheduled (WF of its steps); a lock that is free again and
again is got (SF of `Lock`), which holds because the holder waits for nothing and the
cursor thread sleeps half a second in between. The server takes bytes as long as the
connection is up. No fairness for keys, `read` or the server's closing: nobody has to
type and the server need say nothing.

*KeyRepeat, CountDisplay.* The clock ticks (WF of `Next`); the inputs are left free.

*BouncingBall.* The program runs while it lives (WF of `Move`). It may be killed at
any moment, and `Bounces` says what holds unless it is killed again and again.

The other runs check safety only.

## 5. Proofs

All theorems hold for every value of the constants that satisfies the named
assumptions of the module: sizes are positive, alphabets are disjoint, `Halting` is closed
under `NextTerm` and `Terms` counts along it.

| theorem | states | by |
|---|---|---|
| `LockSafe` | mutual exclusion of the drawing threads, `Spec => []LockHeld` | `LockInv`: `LockHeld`, and which threads do not exist yet |
| `EditSafe`, `CursorSafe`, `CursorStays` | `EditInLine`, `CursorNear`, `CursorKept` when `~KeysAstray` | `CursorInv` |
| `Typed` | `TypeOK` when `~KeysAstray` | `TypeInv`, on top of `CursorInv` |
| `RowsSafe` | `InputShown` | `RowsInv` |
| `MarkSafe` | `CursorShown` | `MarkInv`, until `spoken` |
| `EditorSafe` | `ImplementsLineEditor` | `EditorInv`, until `spoken`, and lemmas on `memmove` |
| `SharedEditorSafe` | `EditsUnderChat` when `~KeysAstray` | the same |
| `AreaSafe`, `OneCellSafe` | `AreaRight`, `OneCellOff` | `AreaInv`: the area is `Area` of the line and the cursor |
| `ScreenSafe` | `ScreenRight` | `AreaInv`, and lemmas on words and cells |
| `FirstFound` | `FirstKeyboard` | `SearchInv`: no keyboard is behind the search |
| `FailuresSafe` | `FailureTypesNothing` | `KeyInv`: behind a full report main remembers its key |
| `OnceSafe` | `OncePerPress` | `HeldInv`, on top of `KeyInv` |
| `LogTyped`, `LogShown` | types; `ShowsLatest` | `WindowInv`: the window is the last rows of `log` |
| `LogComplete` | `RowsOfText` | `RowsInv` of `ChatLogProofs`, on top of `WindowInv` |
| `RangeTyped`, `RangeCounts`, `RangeReads`, `RangeDone` | types; `CountsRight`, `ReadBack`; one cycle of `done` | `RangeInv` |
| `TopIsRange` | `TopSpec => Spec` of `Range` | every start lies in `Starts` |
| `ReadySafe`, `ShownSafe` | `ReadyMeansDone`, `ShownCount` | `TopInv`, on top of `RangeCounts` |
| `Glitches`, `Following` | `NoGlitch`, `Follows` | `DebounceInv` |
| `Pulses` | `PulsesDue` | `TimerInv` |
| `ActiveSafe`, `SyncSafe`, `DiscSafe` of `VgaBallProofs` | `ActiveRight`, `SyncsRight`, `DiscRight` | the ranges of counters and registers, and lemmas on columns and squares |
| `DiscSafe`, `FreshSafe`, `AwaySafe` of `BouncingBallProofs` | `DiscOnScreen`, `Fresh`; the ball leaves a wall it has reached | `BallInv` |
| `MappingSafe`, `LeftSafe`, `WholeSafe` | `WritesReachRegisters`, `NothingLeft`, `WholePositions` | `DriverInv` |

**`CursorInv`.** None of the properties of the cursor is inductive: whether the clamp
strikes depends on where `main` is in its edit. The invariant says, for each label of
`main`, where the cursor is (`Editing`: before an insertion, a deletion, after
`input_len--` it may be one too far, ...), and for the two stores of the network thread
which labels `main` can be at (`Clamping`). The latter is why the clamp cannot strike
between the guard of an edit and its memmove: what it has found true of the cursor is
only ever true in the window of a deletion or a send, or after it, while `main` waits
for the lock that the network thread holds.

**`RowsInv`, `MarkInv`.** `InputShown` and `CursorShown` speak of one moment, at the
keyboard with the lock free. The invariants say what the screen has at every label from
which `main` comes there without drawing (`Settled`, `Marked`), and that a redraw of
`blink` that is under way then has read what the line is now, because `main` had to wait
for the lock.

**`EditorInv`.** The refinement mapping of `ChatClientRefinement` leaves out the character
that an insertion has made room for, and counts a deletion from its `memmove` on. To
`CursorInv` the invariant adds which character is being inserted and what `main` has
loaded of the cursor (`Underway`), and how the cursor stands to the line when the network
thread is about to pull it back (`OneTooFar`). Each step is then mapped: a deletion
happens in `Move`, an insertion, an arrow and the end of a send in `StoreCursor`, Enter in
`KeyEnter`, and all the others stutter. With a server that speaks two steps of
`LineEditor!SharedSpec` are left, and both are the network thread's: `Slip`, when it pulls
back a cursor that Backspace has yet to move, so that it moves twice, and `Recover`, when
it finds a cursor before the line. That the others stutter is what the lemmas on buffers
show: making room and leaving the new byte out gives the old line (`MakeRoom`), closing
the gap removes one character (`CloseGap`), the byte that is stored is the one that is
left out (`FillRoom`), and with it the line is the old one with the character inserted
(`PutBack`). They hold for every length of line, which the runs cannot show.

**`ScreenSafe`.** `ScreenRight` is inductive beside `AreaInv`; the work is in the arithmetic
of `fbputchar`. `CellWords` says that a word is drawn with a cell exactly when its line and
its place in the line, divided by the size of a cell, are those of the cell: no cell goes
on in the next line, because the display is wide enough (`DisplayAssumption`), so the quotient
by the length of a line that `Y` and `X` take is the difference of lines and of places. Hence
no two cells of a row have a word in common (`PutRow`), and the calls of
`refresh_input_area` leave the glyphs of `Area` on two rows and everything else as it was
(`Refreshed`).

**`SearchInv`.** Until a configuration is misread, every keyboard lies at the place of the
search or after it (`NotAfter`), and `config` is the configuration of device `d`. A step
passes one place, which is no keyboard's, or the end of an interface or of a device, behind
which there is none.

**`KeyInv`, `HeldInv`.** Of the keys that are held only the first can have been taken since
the last press (`FrontTaken`), and then `last_kc` is its code, so that the filter refuses it:
a key that comes first later, because another was released, has not been taken since then,
and one that has been taken loses the first place only when it is released or another is
pressed, which starts anew. More keys than a report has slots are the work of a press too,
and until some are released there is nothing to take. The reading of a packet that nobody
has set is excluded (`garbage`). `FailuresSafe` needs less: a full report leaves
`kc = last_kc`, a short one may change `kc` but then nothing is handled.

**`RowsInv` of `ChatLogProofs`.** Between two bytes, what was heard behind the last row is
what is in the row being built (`UpToRow`); a flush makes of it a row that ends where the
text says. It gives `RowsOfText` once the row being built is empty.

**`RangeInv`.** Counts are right when a range is done because `din + Terms[dout] =
Terms[n] + 1` holds at every cycle between (`Counting`): a step of the iterator takes one
term off `Terms[dout]` and puts one on `din`. `Sequencing` says where `n`, `cgo`, `we`
and `cdone` are, and `Written` that the addresses below `num` are finished. The
memory's addresses and `n` wrap, so `At(i)` is used for the number at an address.

**`TopInv`.** `Pipeline` follows an offset through the count to the display, by the
history variable `steady`; that the digits can be read is a lemma on the table, whose
entries are distinct. `TopIsRange` is a refinement: `CountDisplay` gives `Range` no input it
was not proved for, hence `CountsRight` can be cited.

**`DebounceInv`, `TimerInv`.** The counter of a debouncer is for how many samples the key
has differed from the debounced one (`Differed`), so it fills exactly when the window has.
A timer is a function of how long the key has been held (`Timed`), whatever it was when
power came: only a key that is down looks at it, and a press sets it.

**`BallInv`.** `Progress` says which of the two registers and `dev.position` already has
the new position at each label; `Sendable` that the casts lose nothing.

**`DriverInv`.** What the module holds at each label (`Holdings`); that who has not
opened early uses the device only while it is live (`Users`); how far a write that runs
alone has got (`Alone`, `Progress`); and what is there when none runs (`Quiet`). A write
that runs beside another is in `beside` from the moment they overlap to its end, so the
last of several to end is still in it, and `mixed` stays set until one has run alone.

*Model-checked only.* Liveness (all of `chat_live`, `HoldReachesEnd`, `RangeShown`,
`BlinkEnds`, `Bounces`): fairness and ENABLED are out of the prover's reach. Every safety
property of a passing run is proved. Induction over data is out of reach too, so what
loops over strings and chunks compute is not stated by recursion: `Put` and `RowOfText` say
which cell, and which piece of the text, is the one that counts.

## 6. Where code and comments disagree

**A run shows it.** `chat_astray` (finding, `lab2.c:248`): Backspace does `input_len--`
(197) and then `cursor_pos--` (198) without the lock. If `chat_print_line` clamps the
cursor between the two, it is decremented once too often; on a line that has become
empty it is -1. The next printable key then passes its guard, and is stored at
`input_buf[-1]` (209) instead of "at cursor position" (205). `CursorNear`,
proved for a user who does not go on typing, says that it is one place and no more. Only a printable key does
harm then: the guards of Backspace and of the left arrow refuse, the right arrow and
the next chat line bring the cursor back to 0, Enter finds an empty line.

`keyboard_held` (finding, `lab2.c:453`): "same key still held -> do NOT generate another char",
but the filter remembers one code, and the code it sees is that of whichever held key the
keyboard puts first. Press `a`; press `b`, which this keyboard puts before `a`; release `b`:
`a`, held all the time, is first again, is not the last code, and is typed once more. It also
happens whatever the order when more keys are held than a report has slots: all slots then
have the code of the overflow, which becomes the last code (156). `OncePerPress`, proved for
every keyboard, says how far it goes: a key is not taken a second time unless some key was
pressed in between.

**Met while modelling; the models have the code's behaviour.**

- When `write` fails after a part of the line, the rest is dropped and the line is
  cleared (`lab2.c` 465–489): `WriteEnds`.
- A line that is sent is not shown in the chat area by the client itself, although
  `send_input_line` is described as doing so (461).
- At cursor positions 62 and 126 the cursor is drawn in the last column of a row,
  over the character there (358): `Displaced` in `InputArea`.
- `endpoint[0]` of the interface is taken whatever its direction (`usbkeyboard.c:71`). If it
  leads to the keyboard, the transfer sends the packet, and `main` handles what it has sent.
- "The first HID device that speaks the keyboard protocol" (`usbkeyboard.c:40`) is the first
  among devices of class 0; a device with a class of its own is passed over (50). The
  interface is claimed by its index, not by its `bInterfaceNumber` (67). The result of
  `libusb_get_config_descriptor` is not looked at (52).
- `fbopen` checks the bits of a pixel and not the size of the display (`fbputchar.c:58`);
  `DisplayAssumption` of `InputScreen` says what the client needs of it. A byte from 128 on
  has no glyph, and its index lies outside the font (74).
- The comment on the horizontal sync gives its first value as 0x520; the decode
  begins at 0x500, at the end of the picture (`vga_ball.sv` 118–120). `SyncsRight` has both.
- A register that is written while the beam is inside the disc shows the upper part of
  the disc at one place and the lower at another (`vga_ball.sv:37`). `DiscRight` holds at
  each clock, for the registers as they are; nothing says that a field is of one position.
- `probe` registers the device before it has mapped the registers and does not look
  at the result (`vga_ball.c:112`). `VgaBallDriver` says what holds for processes
  that open later.
- Two programs that write at once may leave the x of one with the y of the other, in the
  registers, in `dev.position`, or differently in the two (`vga_ball.c:56`).
  `WholePositions` says that the next write that runs alone makes up for it.

## 7. Not modelled

- The character table of `hid_to_ascii`, which has no control: letters and other keys stand
  for it. The bits of the font, likewise.
- `lab1_old.sv`, `plab1.sv`, `prange.sv`, `pcollatz.sv`, `phex7seg.sv`: other versions,
  in no build. `*.cpp` of lab 1: test benches, read for how the modules are driven.
- `intr_capturer.v`: vendor IP that the design does not use. `soc_system_top.sv`,
  `soc_system*`: wiring, and the output of Platform Designer.
- The kernel headers under `lab3/usr` and Verilator's output under `lab1/obj_dir`. They are
  nearly all of the lines under `src/` and none of its logic; what the kernel does for the
  driver is external, and modelled from how the driver uses it.

The logic of all three labs is in the modules above; what of it is abstracted is said in
section 2.

## 8. Plan

Written, in this order, the most important first: `LineEditor`, `ChatClient` and its
refinement; `Range`; `InputArea`, `ChatLog`, `Keyboard`; `Debounce`, `KeyRepeat`,
`CountDisplay`; `VgaCounters`, `BouncingBall`, `VgaBallDriver`; then `UsbKeyboard` under
`Keyboard`, `Framebuffer` and `InputScreen`, `Hex7Seg`, `VgaBall`, and the driver's calls as
steps; and their proofs.

To do:

1. *Model.* The picture of a field in which a register is written, against what the program
   meant.
