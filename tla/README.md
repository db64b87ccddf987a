# A verification of CrossWin in TLA+

CrossWin shows windows that live on Linux as native windows on Windows. A Linux
process keeps the truth - where a window is, who has grabbed it, what its pixels
are - and a Windows agent keeps one proxy window (an HWND) per Linux window,
shows what it is told to show, and reports the mouse and the keyboard. The two
talk CWNP, a binary protocol over one TCP connection. Paths below are relative
to the repository.

## 1. The system and its parts

| component | state it keeps | operations |
|---|---|---|
| **geometry library** `geometry/geometry.c` | none | rectangle intersection, window region on an output, global / output / window / surface points, logical to physical scaling and back |
| **fake-server session** `crosswin/fake-server/session.c` | the window's global rectangle, a ring of the presentations transmitted, the sequence counter, pressed buttons, the move grab | record, look up and recompute a presentation; map a pointer; handle motion, button, capture loss, disconnect |
| **fake server** `crosswin/fake-server/main.c` | the session, the PRESENT in flight, the deferred presentation, the script's step, the framebuffer | start after HELLO, handle ACK, pointer, button, capture-loss messages; end the connection |
| **agent application** `crosswin/windows-agent/main.cpp` | the proxies by window id, the queued presentations, whether a dispatch message is posted, the output configuration, the exit code | handle each protocol message, queue and apply presentations, fail the connection, run the Win32 message loop |
| **proxy window** `crosswin/windows-agent/proxy_window.cpp` | framebuffer and its sequence, presentation, physical rectangle, pressed buttons, tracking, focus, pressed keys | create, frame, damage, resize, present, bring to front, destroy; the window procedure for mouse, focus and keys |
| **agent transport** `crosswin/windows-agent/protocol.cpp` | socket, decoder, outgoing buffer | queue a message, flush, drain, react to socket events |
| **codec** `crosswin/common/protocol.c` | a decoder's partial message | encode, decode and validate headers and payloads |
| tests and test agents `crosswin/tests/` | - | clients that replay one conversation each |
| the Weston exporter | - | the production Linux end; not in this repository |

How they interact: server and agent share nothing but the two byte streams.
The server is one thread that reads a message and runs its handler to the end;
a handler that returns `false` ends the connection and the process. The agent is
one GUI thread whose message queue brings it a readable socket, a *posted*
present dispatch, or input; Win32 calls the window procedure recursively from
`SetFocus`, `ReleaseCapture` and `DestroyWindow`, so some handlers run inside
others. Presentations flow one way and are acknowledged; input flows the other
and names the presentation it was made on.

What is hard about it, and the properties that answer to it:

* **Input refers to the past.** A pointer event is made on the presentation the
  agent showed, read when the server may be several presentations further, and
  mapped through a history of limited size. It must still be found there
  (`InputIsNeverStale`), mean the same surface point (`InputMeaningIsFixed`),
  and a drag made of such events must not drift (`DragFollowsTheCursor`).
* **Flow control on both sides.** The server allows one PRESENT in flight and
  defers the newest other one; the agent coalesces queued ones and applies them
  from a posted message. Together they must agree on what is in flight
  (`OnePresentInFlight`, `ServerKeepsTheConnection`), never go back
  (`PresentationsAdvance`) and end at the newest state (`SettledShowsTheWindow`,
  `WindowIsShown`, `NewestIsShown`, `NewestIsAnswered`).
* **Messages that overtake a presentation.** RESIZE, ACTIVATE and DESTROY act when
  they are read, a PRESENT only when its posted dispatch is taken
  (`LegalStreamIsAccepted`, `ActivatedIsInFront`, `ReaderKnowsTheInput`).
* **Incremental contents.** Damage is relative to a frame, a resize invalidates
  what is on its way, a mismatch starts a request for a whole frame. The
  framebuffer must at any time be one content the client committed, never a mix
  of two (`FramebufferIsOneContent`), and catch up (`ContentCatchesUp`,
  `SettledShowsTheContent`).
* **Input state kept twice.** Buttons, capture, focus and keys are known to
  Win32, to the proxy and to the reader of its messages; loss of capture, loss of
  focus, hiding and destruction - also of a parent, with its popups - each have to
  give them back once and in order (`ButtonsAgree`, `MessagesMakeSense`,
  `ReaderKnowsTheInput`, `GrabIsTheLeftButton`, `TextInputStaysWithTheTopLevel`).
* **A stream of bytes.** Receives end anywhere, sends are taken in part, one end
  blocks and the other does not, and an end may go in the middle of a message
  (`StreamsAreChannels`, `ErrorsAreEarned`, `EverythingArrivesOrBothEnd`).
* **Integer geometry.** int32_t coordinates, 64-bit intermediate products, floor
  and ceiling at fractional scales, negative points under capture
  (`RefusedExactlyOnOverflow`, `PhysicalRectIsTheCover`, `InverseKeepsSides`, ...).
* **One end goes.** The other has to notice and end, and must not call a cut
  script a success (`NobodyIsLeftBehind`, `SuccessMeansTheScriptEnded`).

`PROJECT.json` lists these hazards one by one at the line where each bites,
including the few that no property covers, with the reason.

## 2. The modules

| module | models | notes |
|---|---|---|
| `Geometry` | `geometry.c` | a C function that returns `bool` and fills an out parameter is the set of its results: empty or a singleton |
| `GeometryCheck` | - | a call of the library as a state, with reference definitions: pixel sets and exact fractions |
| `Session` | `session.c` | an operator or an action fragment per function; extends `Geometry` |
| `PresentationLog` | abstract: the history | a sequence of the latest presentations, no ring |
| `SessionCheck` | - | the session's functions in any order; refines `PresentationLog` |
| `Wire` | the connection, whole messages | FIFO channels of records, sockets |
| `FakeServer` | `main.c` of the fake server | one action per message handler, one more for each way a handler returns `false` |
| `Agent` | `main.cpp`, `proxy_window.cpp` | one action per protocol message, one for the present dispatch, one per window-procedure message |
| `CrossWin` | both programs and a user | `FakeServer` and `Agent` on one `Wire` |
| `AgentCheck` | the agent and an exporter | any message the agent handles, including ones it must refuse; `known` is what a reader of the agent's messages knows |
| `Mirror` | abstract: a window's pixels | a view that is one of the contents committed, going forward |
| `ContentCheck` | the agent and an exporter of contents | frames, damage, resizes and requests, several on their way; refines `Mirror` |
| `Codec` | `protocol.c`: layout, validation, decoding | a message as a sequence of bytes and back |
| `Decoder` | `protocol.c`: `CwDecoder` | one pass of the feed loop as an operator on a record |
| `Channel` | abstract: one direction of a connection | whole messages, once, in order |
| `Transport` | `protocol.cpp`, and `main.c`'s socket loop | partial sends and receives, the transmit queue, ends that close; extends `Decoder` |
| `TransportCheck` | - | refines `Channel` twice, once for each direction |
| `GeometryLemmas`, `GeometryProofs`, `SessionLemmas`, `SessionProofs`, `CrossWinProofs`, `AgentProofs`, `ContentProofs`, `TransportProofs` | - | theorems |
| `MC...` | - | values of the constants for TLC |

`Transport` and `Wire` are two views of one thing. `Wire`'s channels carry whole
messages in order and lose nothing until an end closes; that the bytes below
keep that promise is `StreamsAreChannels`, checked and proved for every type of
message. So
`FakeServer`, `Agent` and what is composed of them need not look at bytes.

State corresponds to the code field by field; the comment at each VARIABLE names
the field. A few choices need saying:

* Optional values (a PRESENT in flight, a deferred presentation, the captured
  window) are sets of at most one element.
* A pixel buffer is the set of points that are not blank. In `CrossWin` these are
  the crosshairs drawn, in `ContentCheck` a content's columns: the properties are
  about whether the agent has what the other end has.
* `cw_fake_server_handle_motion` reserves the sequence, moves the window and
  *may* record; the model keeps this as `Generated`, `Moves`, `HandleMotion` and
  `SendPresent`, all in one action because the handler is one call.
* `SendPresent` is `send_present`, which records before it sends and is used from
  three handlers.
* Window-procedure calls made by Win32 inside another handler (`WM_KILLFOCUS`
  and `WM_SETFOCUS` inside `SetFocus`, `WM_CAPTURECHANGED` inside
  `ReleaseCapture`) are part of that handler's action, in the order they occur.
* A popup's `owners` are the windows it was created under, the top-level one
  first. Win32 destroys an owned HWND with its owner while the agent keeps the
  `ProxyWindow`: `alive` becomes FALSE, and drawing to it fails. The capture such
  a popup had is lost with a `WM_CAPTURECHANGED`, as with any other.
* `stack` is the order of the top-level proxies among themselves. The mouse may
  reach a window that is not the topmost under the cursor, because a layered
  window does not take it where it is transparent: `Target` leaves it open.
* `MaxInt` is `INT32_MAX`, `MaxSequence` `UINT64_MAX`, `Capacity` the size of the
  history, so that small values reach every overflow, exhaustion and wrap-around.
* In `Codec` a byte is a digit of the constant `Base`, 256 in the code and 12 in
  the run: the layout depends on the number of bytes, not on their width, and
  with 12 the 64-bit ones stay inside TLC's integers, while every type of message still
  fits in two. The theorems are for any base.
* `Modes` are the ways the programs may be started: the server's script or its
  interactive session, whether the agent may be killed, and how many events there
  are. `keyboard` is FALSE for the code. The fake server has no handler for
  KEYBOARD_FOCUS and ends the connection at the first click (finding 1), so with
  it nothing after a first click could be examined. TRUE adds one handler that
  reads and ignores the keyboard's messages, as the Weston exporter can be
  assumed to; everything else is `main.c`. Run `click` and one of the modes of
  `crosswin` have it FALSE.
* Definitions marked `mutant` are wrong on purpose: each stands beside the
  definition it would replace and is what a plausible bug there would be. No
  specification uses them. Every property of a passing run has one that breaks it.

External, modelled only from its use: Win32's routing of mouse messages
(`Target`, `Covers`), the cursor, capture, focus, owners and activation; `send`'s
room; the exporter of `AgentCheck` and `ContentCheck`.

## 3. The runs

Run one with `tlc -workers 2 -config X.cfg M`.

| run | module, config | states | shows |
|---|---|---|---|
| `geometry` | `MCGeometry` | 13 k | every coordinate function against pixels and fractions |
| `session` | `MCSession` | 53 k | the session's invariants and its refinement of `PresentationLog` |
| `crosswin` | `MCCrossWin` | 100 k | server, agent and a user in every interleaving, in a session, while the script plays, and with a server as it is and an agent that may be killed: nine safety properties, three of liveness, one of steps |
| `agent_windows` | `MCAgent`, `MCAgentWindows` | 517 k | two windows, the second perhaps the first one's popup, that come and go and are activated around a queued dispatch |
| `agent_input` | `MCAgent`, `MCAgentInput` | 801 k | mouse and keyboard of one window that shrinks, hides and goes, at scale 3/2 |
| `agent_content` | `MCContent`, `MCAgentContent` | 136 k | frames, damage, resizes and requests against `Mirror` |
| `stream` | `MCTransport` | 105 k | every type of message through the bytes and buffers of both ends, against `Channel` |
| `click` | `MCCrossWin`, `MCClick` | violated | finding 1 |
| `agent_rescale` | `MCAgent`, `MCAgentRescale` | violated | finding 2 |
| `agent_resize` | `MCContent`, `MCAgentResize` | violated | finding 3 |
| `popup_focus` | `MCAgent`, `MCPopupFocus` | violated | finding 4 |
| `agent_activate` | `MCAgent`, `MCAgentActivate` | violated | finding 5 |

### Bounds, and why they suffice

* `geometry`: `MaxInt = 7` makes a 32-bit integer 4 bits and a 64-bit one 8 bits
  wide, so edges, products and quotients overflow at many of the chosen
  rectangles and scales; scales below, at and above 1, with and without
  remainders, and zero.
* `session`: a ring of 2, 3 insertions (so that it wraps), 4 sequences (so that it
  is exhausted), locations on, off and beyond the output.
* `crosswin`: an output of 4 columns, a window of 2 and four cursor positions, three
  on the output and one beyond it: a drag of one column leaves the window whole, one
  of two columns cuts it at the right edge, one of three or four takes it off the
  output; the script cuts it at the left edge. 4 user
  events in a session, enough for press, two motions and release; 3 during a
  script. `Capacity = 2` is the smallest for which `InputIsNeverStale` holds, so
  the code's 64 is not needed for it. `InitialWindow` and `Script` reproduce the
  shapes of the program's: whole, cut at the left edge, hidden, shown again.
* `agent_windows`, `agent_input`: 2 exporter messages after each window's creation
  and first PRESENT are what it takes to coalesce and then destroy, or to destroy,
  create again and present; the user's 2 or 4 events are a press, a motion or a
  key, a release and a loss. The exporter sends its next message when the last has
  been read, and the thread and the user pause until the exporter has read the
  answers: neither end looks at what it has sent, so this only removes
  interleavings that no property tells apart.
* `agent_content`: contents of one and two columns in 3 versions, 2 presentations
  and 4 messages on their way: damage for a frame that was never sent, damage
  behind a resize, and a request that crosses another resize all occur. Damage
  covers what changed and may cover more, be empty, name overlapping rectangles,
  or name one outside of a narrow surface behind a good one. `ResizeWaits` has the
  exporter resize only when every PRESENT is acknowledged; without it there is
  finding 3. Likewise `ActivateWaits` in `agent_windows`, and finding 5. `Padding` is 0:
  the exporter sends its frames without padding behind the rows, as the fake server
  does; what becomes of padded ones is proved (below).
* `stream`: room for 1, 11 and 40 bytes in a direction and receives of 7 and 64, for
  messages of 24 bytes and more: a message needs many sends and receives, or
  several messages come in one, and headers and payloads are cut everywhere.
  Sixteen conversations of two to four messages have between them every type,
  numbers at the ends of their ranges, messages of another version or too long,
  a HELLO in the wrong place, and ends that may go.

CHECK_DEADLOCK is FALSE where the programs end, the user's events run out or
there is nothing left to say.

### Fairness

`WF(ServerStep)` and `WF(ThreadStep)`: both programs are loops that block only
until something is there to serve (`recv`; `GetMessageW`), and TCP delivers while
both ends are up. In `Transport` the same of each end's socket calls: `AgentStep`,
`ServerStep`; nobody has to say anything. `AgentCheck` and `ContentCheck` assume
besides that the exporter keeps reading, and answers a request for a frame.
Nothing is assumed of the user, of Win32 taking capture or focus away, or of
a process being killed.

### Findings

1. **A click ends an interactive session.** `crosswin/README.md:133-135` promises
   a crosshair under the click. The agent calls `SetFocus` before it reports the
   press (`proxy_window.cpp:734`), so KEYBOARD_FOCUS precedes POINTER_BUTTON, and
   the fake server's `default` branch (`main.c:462`) refuses it. Run `click`.
2. **A rescaled output leaves shown windows where they were.** The comment at
   `proxy_window.cpp:174-176` says they are redrawn with the new coverage; the
   physical rectangle is computed only in `apply_present`. Run `agent_rescale`.
3. **A resize can end the connection.** `crosswin/README.md:37-39` has contents and
   presentations independent of each other. RESIZE is applied when it is read
   (`main.cpp:283`), and a PRESENT of the old, larger size that waits for its
   dispatch is then refused by `apply_present` (`proxy_window.cpp:333`), which ends
   the connection. It takes a dispatch between the RESIZE and the next PRESENT,
   so a stream cut there. Run `agent_resize`.
4. **A popup of a popup takes text input away.** The comment at
   `proxy_window.cpp:732-733` keeps it with the top-level parent; `GW_OWNER` is the
   window the popup was created for, itself a popup. Run `popup_focus`.
5. **An activation is lost to a presentation sent before it.**
   `crosswin/README.md:47-50` puts the activated window in front; it is put there
   at once (`proxy_window.cpp:157`), and the dispatch that is still waiting then
   puts others on top. Run `agent_activate`.
Proved, and not the subject of a run: **a padded frame ends the connection.**
`crosswin/README.md:28-29` and `protocol_test.c:266` have a frame's stride invalid when
it is smaller than `width * 4`, and the codec takes any larger one
(`protocol.c:270-276`); `apply_frame` takes only `width * 4` itself
(`proxy_window.cpp:234`), and the frame it refuses was the means to resynchronise.
Neither the fake server nor a test sends the agent such a frame. In
`ContentCheck` the exporter's frames have `Padding` bytes behind each row:
`LegalStreamIsAccepted` is claimed for `Padding = 0` only, and
`PaddedFramesAreNeverDrawn` says what becomes of any other.

Observed while reading, and not the subject of a run: the inverse scaling divides
in proportion to the rounded physical size, so that near an interior boundary it
can name the logical pixel next to the one whose cover holds the physical one,
although `geometry.h:170-172` speaks of the same coverage policy; and an unknown
message with the optional bit passes the decoder, as the comment at
`protocol.c:403-404` wants, but both programs' switches then refuse it.

## 4. What is proved

`tlapm` proves the theorems below for every value of the constants under the
named assumptions of `Geometry`, `Session`, `FakeServer`, `Agent`, `CrossWin`,
`AgentCheck`, `ContentCheck`, `Codec` and `Transport`: any integer width, output, script,
cursor positions, buttons, keys, scales, contents and damage, any messages and any cut
of a stream, any number of windows, of messages and of events.

| theorem | says |
|---|---|
| `SessionProofs!SessionTypeCorrect` | `SessionTypeOK`: coordinates, counter and history stay in range |
| `SessionProofs!HistoryStaysKeyed` | `HistoryIsKeyed`, for any capacity |
| `SessionProofs!GrabStaysTheLeftButton` | `GrabIsTheLeftButton` |
| `SessionProofs!WindowStaysItsSize` | no grab changes the window's size |
| `SessionProofs!InputMeaningStaysFixed` | `InputMeaningIsFixed`: an event keeps its surface point while it can be looked up |
| `SessionProofs!RingRefinesTheLog` | `RingImplementsTheLog`: every call is a record of the log or a stutter |
| `SessionProofs!SessionImplementsTheLog` | `CheckSpec => Log!Spec`, the refinement as a whole |
| `GeometryProofs!InverseKeepsSidesAlways` | `InverseKeepsSides`, for every width of integer, fragment and scale |
| `GeometryProofs!RegionIsTheSharedPixelsAlways` | `RegionIsTheSharedPixels`, for every window and output |
| `GeometryProofs!PointerReachesThePresentedPixelAlways` | `PointerReachesThePresentedPixel`, for every window, output and point |
| `GeometryProofs!PhysicalRectIsTheCoverAlways` | `PhysicalRectIsTheCover`: neither a pixel too many nor one too few |
| `GeometryProofs!RefusedExactlyOnOverflowAlways` | `RefusedExactlyOnOverflow`: none of the 64-bit steps overflows before the 32-bit result does |
| `GeometryProofs!InverseIsMonotoneAndOntoAlways` | `InverseIsMonotoneAndOnto` |
| `CrossWinProofs!TypesStayCorrect` | `TypeOK` of the composed system |
| `CrossWinProofs!OnePresentInFlightAlways` | `OnePresentInFlight` |
| `CrossWinProofs!SuccessMeansTheScriptEndedAlways` | `SuccessMeansTheScriptEnded` |
| `CrossWinProofs!InputIsNeverStaleAlways` | `InputIsNeverStale`, if `Capacity > 1` |
| `CrossWinProofs!PresentationsAdvanceAlways` | `PresentationsAdvance`, if `Capacity > 1` |
| `CrossWinProofs!FramebufferIsCurrentAlways` | `FramebufferIsCurrent` |
| `CrossWinProofs!ServerKeepsTheConnectionAlways` | `ServerKeepsTheConnection`, if `Capacity > 1` |
| `CrossWinProofs!SettledShowsTheWindowAlways` | `SettledShowsTheWindow` while `CanRecompute`, if `Capacity > 1` |
| `CrossWinProofs!ButtonsAgreeAlways` | `ButtonsAgree`, if `Capacity > 1` and `ScreenIsMapped` |
| `AgentProofs!AgentTypes` | `TypeOK` of the agent against an exporter |
| `AgentProofs!NewestShown` | `NewestIsShown` |
| `AgentProofs!ReaderAlwaysKnowsTheInput` | `ReaderKnowsTheInput` |
| `AgentProofs!MessagesAlwaysMakeSense` | `MessagesMakeSense` |
| `AgentProofs!ActivatedStaysInFront` | `ActivatedIsInFront`, if `ActivateWaits` |
| `AgentProofs!ProxyStaysDrawnToScale` | `ProxyIsDrawnToScale`, if `Rescales = {}` |
| `AgentProofs!ShownPixelsStayReachable` | `ShownPixelsAreReachable`, if `Rescales = {}` and what is shown is `OnTheOutput` |
| `AgentProofs!TextInputAlwaysStays` | `TextInputStaysWithTheTopLevel`, if `NoPopupOfAPopup` |
| `ContentProofs!FramebufferIsOneContentHolds` | `FramebufferIsOneContent`: the refinement of `Mirror` |
| `ContentProofs!SettledShowsTheContentHolds` | `SettledShowsTheContent` |
| `ContentProofs!LegalStreamIsAcceptedHolds` | `LegalStreamIsAccepted`, if `ResizeWaits` and `Padding = 0` |
| `ContentProofs!PaddedFramesAreNeverDrawn` | the other side of it: if `Padding # 0`, the next frame the agent reads is refused and no proxy ever has one |
| `TransportProofs!U64IsReadBack`, `I32IsReadBack` (and the narrower ones) | an integer is read back as it was stored, at any offset between any bytes, over its whole range |
| `TransportProofs!HeaderIsReadBack` | a header is decoded into the fields it was encoded from |
| `TransportProofs!SurfaceFitsItsFrame` | every surface a CREATE or RESIZE may name has a whole frame that passes validation (the comment at `protocol.c:48-50`) |
| `TransportProofs!MessageIsReadBack` | for every type, all that a struct of `protocol.h` can hold is decoded as it was encoded |
| `TransportProofs!ErrorsAreEarnedHolds` | `ErrorsAreEarned` |
| `TransportProofs!StreamsAreChannelsHolds` | `StreamsAreChannels`: the refinement of `Channel`, in both directions |

Some hypotheses need a word. `Capacity > 1` (the code has 64): with a ring of one,
a PRESENT that is under way has already overwritten the presentation that input
still names, and `InputIsNeverStale` is false. `CanRecompute` says that the
sequence counter is not at its end: after 2^64 presentations the window still
moves and is no longer presented (`session.c:209`), so without it
`SettledShowsTheWindow` is false. `ScreenIsMapped` says that a point of the screen,
added to the output's origin, is a 32-bit coordinate: the server refuses a press
at any other (`session.c:169-172`), the agent does not learn of it, and
`ButtonsAgree` is false; TLC's cursor and output satisfy it. That every window,
cursor and button is allowed has one price, see `DragFollowsTheCursor` below.
`ActivateWaits`, `Rescales = {}`, `NoPopupOfAPopup`, `ResizeWaits` and `Padding = 0`
keep the exporter from what findings 5, 2, 4, 3 and the padded frame are about; without
each the property is false, and a run shows it, or for the padding a theorem. `OnTheOutput` says of a presentation that shows something that its rectangle
is not empty and ends within 32 bits: the fake server sends no other
(`presentation_is_valid`, `session.c:14-36`), the protocol's own validation lets an
empty one pass (`protocol.c:332`), and at a fractional scale that covers a pixel no
point of it maps back from. `ScreenAssumption` of `AgentCheck` says that the cursor
is a `POINT` of two `LONG`s. `ContentAssumption` says that the contents are no wider
than a surface may be, which is less than an `int32_t` holds, and that damage is a
sequence of rectangles: what the protocol's validation lets pass.

**The session.** None of its invariants is inductive alone. A
recorded presentation is valid only against the surface's size, which the grab
keeps; a recomputed presentation that a caller still holds must not have been
overtaken. The inductive invariant is therefore their conjunction with the
statement that the outstanding presentation is valid, in range and below the
counter. Each function of `session.c` has one step, each conjunct it can disturb
one below that. The steps on the ring rest on the lemmas of `SessionLemmas`
about which slots are in use before and after a record, and the steps that
recompute on `GeometryLemmas!RegionIsSound`: the region of a window on an output
is well typed, valid, and lies inside both.

The same invariant carries the refinement. `ReadingTheRing` shows that the
ring read from its oldest slot is a sequence of recorded presentations;
`RecordingAppends` that writing a slot is, on that sequence, to put one at the
end and to drop the first when the ring is full, although the slots wrap around. With `HistoryIsKeyed` a record of
the session is a `Keep` of the log (`RecordIsKeep`). `InputMeaningStaysFixed`
needs that a record can make the session forget a sequence and never rename one
(`RecordingOnlyForgets`).

**The geometry.** The calls of `GeometryCheck` stay typed, and the rest is
about sets of pixels. `IntersectionIsTheSharedPixels` shows that `rect_intersect`
returns the rectangle whose pixels both arguments share, `PixelsShift` that moving
a rectangle moves its pixels; together they give the region. A pointer is then
followed from the output (`PointerOnTheOutput`) and from the presented window
(`PointerInTheFragment`) to the one pixel of the region it is over. The overflow
checks matter here: a hit whose global point does not fit 32 bits is refused.
The scaling is division with remainder: `CoverOfInterval` turns floor and ceiling
of the edges into the pixels that an interval touches, `InverseIsTheProportion`
gives the inverse as one floored quotient, and `EveryColumnIsReached` names the
physical column that reaches a given logical one.

**The composed system.** `CrossWinProofs` begins with the types of everything on
the wire and shows that each action keeps them; `UserEffect` describes once, for all
the ways a user has of moving, pressing, losing capture and typing, which messages
are said and what of a proxy can change. It then adds the invariants in layers, each
inductive with those below it:

| invariant | says | why it is needed |
|---|---|---|
| `Inv` = `TypeInv` /\ `FlowInv` | the PRESENT being waited for is in exactly one place and is the newest recorded; the window is created once and goes once; where the script and its DESTROY are | `OnePresentInFlight` speaks only of two ends that are up, and says nothing of *which* presentation is under way, so that it survives neither an end closing nor an ACK |
| `Currency` | the proxy shows the newest or the second newest presentation of the ring, and so does every location on its way; one behind an ACK names the newest | staleness depends on how far the agent can be behind: at most one record, because the next one waits for the ACK and the ACK is behind the input |
| `Ahead` | what is on its way or deferred is valid, newer than what is shown and, if deferred, newer than all that is recorded | ordering across the deferral: its sequence was reserved long before it is sent |
| `WindowInv` | scale before CREATE before FRAME and PRESENT; a proxy has the window's size | a PRESENT or a FRAME without a window, or of another size, ends the connection |
| `PixelInv` | the last frame on its way, or else the proxy, has every crosshair | frames are whole and in order, but several may be under way |
| `HelloFirst` | HELLO is the first message and comes once | the server refuses anything else first |
| `ButtonsFollow`, `CaptureIsButtons`, `InputIsMapped`, `PhysicalIsLogical` | read in order, the button messages on their way turn the server's mask into the agent's; the mouse is captured while a button is down; input is at points the server can map, because at scale 1/1 the proxy is drawn where its presentation says | `ButtonsAgree` is about the moment when nothing is under way and says nothing of a press, release and loss of capture that follow each other on the wire |
| `LatestIsWindow`, `QueuedIsPosted` | the presentation made last has the window where it is; one that is queued has its dispatch posted | a motion that is folded into a deferred presentation replaces it |

Each has a lemma for the server's actions, one for the agent's and one for the
user's, with a step per action. `ServerKeepsTheConnectionAlways` then goes through
every refusal of both programs - a message in the wrong state, an ACK of another
sequence, a stale location, a presentation that does not fit, a rectangle that
overflows - and shows its condition to be false. `ButtonsAgreeAlways` rests on what
a stream of button messages does to a mask (`LeadsTo`: the last word on a button
decides): `ReadingBoth` composes two streams, the step of a sender, and
`ReadingTheRest` takes the first message off, the step of a reader. The reader
refuses no location, neither for the ring (`InputIsNeverStale`) nor for the output
(`InputIsMapped`); what it does refuse is an order error - the agent presses a
button twice when it could not report the release between - and that leaves the
mask as the message has it.

**The agent.** `AgentCheck` has no server to keep order: any number of windows
and popups come, go, resize, are presented and activated while the user does what
he likes, and every message that makes no sense is refused. Its invariants are in
layers too:

| invariant | says | why it is needed |
|---|---|---|
| `TypeInv` | types; a popup's `owners` are its parent's and the parent, and an HWND that is alive has owners that are; `stack` has each top-level proxy once | a destroyed owner takes its popups' HWNDs with it, and each drawing call depends on `alive` |
| `FlowInv` | the last presentation sent of a window is the last one of it on the wire, or else the one that waits for its dispatch, or else the one shown; and no CREATE follows a PRESENT on the wire | `NewestIsShown` is about the end of that way, and a window that is yet to be created has nothing to show |
| `ReaderInv` | what a reader knows, after it has read all that is on the way, is what the proxies have: their buttons, keys, focus, whether the pointer has entered, and which presentation is shown; and each message made sense when it was its turn | `MessagesMakeSense` is about the message at the head, sent many steps ago, when the agent was in another state |
| `FrontInv` | while a window is to be in front, nothing on its way or queued shows or hides another, and once its ACTIVATE is read it is the last of `stack` | ACTIVATE acts when it is read, a PRESENT only when its dispatch is taken |
| `ScaleInv`, `RegionInv` | the physical rectangle is the image of the destination at the one scale that was configured; every presentation on its way, queued or shown is one of the exporter's | `Covers` speaks of physical pixels, input of logical ones |
| `ParentInv` | a popup's one owner is the parent it was created for | `FocusOf` is the HWND's owner, not the top of the chain |

The argument of `ReaderInv` is a composition. `Reads(r, messages, last)` says that a
reader who knows `r` and reads `messages` in turn finds sense in each and knows
`last` at the end; it is a statement that there is a list of what is known in
between, because nothing may recurse. `ReadsBoth` puts two such lists after each other
and `ReadsRest` takes the first message off. Each handler then has one lemma on what it
tells (`TellsTo`): the messages it sends lead a reader from what the proxies had to
what they have now - one for `release_pressed_keys` and `LoseFocus`, whose number of
messages is the number of keys pressed, one for the acknowledgements of a dispatch,
in whatever order the hash table yields them, one for each kind of input. Induction
is needed for the lists, over sets of numbers (`NatInd`), not over a predicate,
which no prover here could instantiate.

**The contents.** `ContentCheck` has one window and an exporter that runs ahead: a
frame, the damage to it, a resize and the frame of the new size may all be on their
way, and the agent's requests for a whole frame cross them.

| invariant | says | why it is needed |
|---|---|---|
| `PixelInv` | the framebuffer is blank, or the content of the version in `frameSequence`, which has the proxy's width | the refinement of `Mirror` is about steps: damage turns the version it is relative to into the next one only if that version is what is there, whole |
| `StreamInv` | what the agent has made of the messages it has read is what a reader knows of them, the rest of the stream makes sense to that reader, and at its end the reader knows the exporter's content | a message was sent when the window had another size and another content; what it is relative to is what the messages before it say |
| `Agrees` (in it) | a proxy that lacks the content told of last has a whole frame owed behind a RESIZE, on its way or asked for; one that presents more than it has has a presentation owed or queued | `SettledShowsTheContent` is about the moment when none of these is left |
| `Accepted` | presentations come in order, and each one on its way or queued, unlike any that is acknowledged, is in the exporter's `unacked`; none is before a RESIZE | with `ResizeWaits` a RESIZE then finds nothing queued, and what comes behind it fits it |

`Follows(h, r, s, last)` is `Reads` of the agent's proofs for the other direction,
against a history that grows: a message that makes sense keeps making sense when
contents are committed. Every message the exporter sends is put at the end of the
stream by what it is to a reader of all before it (`FrameIsExpected`,
`ResizeIsExpected`, ...), and every handler of the agent takes one off its front.
`DamageIsExact` says what patching comes to: rectangles
that cover all that changed, each with the new content's pixels, turn the old
content into the new one, in whatever order they overlap. `LegalStreamIsAcceptedHolds`
then goes through the refusals of the agent - a message before its window, a frame or
damage that does not fit, a presentation of another size, one that cannot be
dispatched - and shows that no message on its way meets one (`NothingIsRefused`,
`NoDispatchFails`). With padding the same `StreamInv` says which stride the next frame
has, so that it is refused, and damage, which needs a frame to be relative to, never
finds one (`PaddedFramesAreNeverDrawn`).

**The codec.** Division with remainder splits a number into one byte and
a number one byte shorter, and multiplication puts it together again; `StoreU32`
does so three times and `StoreU64` splits in halves first. A negative integer is
first moved by 2^32, which the bounds of I32 make one to one. `Found(p, o, s)` says
that bytes `s` are at offset `o` of `p`: a part is found in a row of parts at the sum
of the lengths before it (`TwoParts` to `SixParts`), what is found in a part is
found in the whole (`FoundInPart`), and what is found is read (`FoundU32`, ...). Each
type of message is then a row of fields, from `HelloIsReadBack` to `KeyIsReadBack`.
The walk over damage rectangles is two recursive functions, the writer's and the
reader's: that they exist is proved (`RectsAreJoined`, `RectsAreWalked`), and
`RectsAreMet` takes them side by side. The reader is at each rectangle where the
writer put it, because a walk that stops anywhere would not come to the end, as
`valid_damage_payload` requires. `MessagesOf` gives the values of each struct with
the widths of its fields.

**The connection.** `StreamInv` of `TransportProofs` says of each end, with the messages
`s` the other end has sent and the `r` of them this one has handled (the first two
parts only of an end whose socket is open):

| part | says | why it is needed |
|---|---|---|
| `UnderWay` | the bytes in the decoder, in the chunk received, in the pipe and unsent at the other end, in this order, spell the messages of `s` from the `r`-th on | a step moves bytes from one of the four to the next; a message begins and ends wherever the cuts have it |
| `InMessage` | a decoder in use holds a part of the header, or that header and a part of its payload, of message `r + 1` | one pass takes what is missing and not a byte more, so the next pass starts at the next message |
| the part on what was handled | each message handled is one the other end sent, and the opinion of it was "ok" | the past of the two properties |
| `Earned` | an error is the one that message `r + 1` deserves, or the end of the stream or of the other end | `ErrorsAreEarned` |

When an end has gone, bytes may be lost from the end of what is under way: the
stream then carries a beginning of the rest. `PassMeansNext` is about one pass of
`cw_decoder_feed`, whatever it is given: the decoder stays in the message it was in, has all of it,
or refuses it for what its header says. `UnderWayFed` is the same of the whole stream, and
`AnswersAreJoined` shows that the bytes of a handler's answers are those of the answers in
a row. With `MessageIsReadBack` what is handled is what was said, and every step of
the connection is a step of `Channel` or none, in each direction. `TransportAssumption`
asks of what is said what `cw_message_encode` does: numbers that fit their fields, a
valid payload. A foreign message - one of another version - may be any
bytes behind a header that gives their number, as long as this version would not take
it for one of its own.

**Only model-checked.** `DragFollowsTheCursor`, which holds of the
windows and cursors of the run and not of all: at the ends of int32_t a window
that would leave the range stays where it is (`session.c:202-204`) and falls
behind the cursor, as it should. Liveness is out
of the prover's reach: `WindowIsShown`, `ScriptCompletes`, `NobodyIsLeftBehind`,
`NewestIsAnswered`, `ContentCatchesUp`, `EverythingArrivesOrBothEnd`.

## 5. What is not modelled

* Drawing: how pixels get on the screen (`update_layered_window`) is modelled by
  whether it succeeds, where the window is and what is above what. It fails in
  the model only when the HWND is gone; exhausted GDI resources and memory are
  left out, and so is their handling, which is to end the connection.
* Failures to open a socket, to post a message or to create a window; argument
  parsing; tracing.
* Which key codes a Windows scan code becomes, and the modifier state: a key is a
  model value.
* The test pattern of `pattern.c` beyond the crosshairs; the test programs, which
  replay one conversation each.
* The Weston exporter: not in the repository.

## 6. Plan

In this order; what is marked done is in this directory.

1. Geometry and session with their proofs - *done*.
2. Fake server and agent composed, the agent against an exporter - *done*.
3. Contents: damage, resize, resynchronisation against `Mirror` - *done*.
4. Windows: popups, owners, activation and stacking - *done*.
5. Bytes: `Codec`, `Decoder` and `Transport` against `Channel`, with the codec's first
   proofs - *done*.
6. Proofs of the composed system and of the session's refinement - *done*.
7. Proofs of the agent against any exporter - *done*.
8. Proofs of the contents, with the refinement of `Mirror` - *done*.
9. Proofs of the bytes: every payload read back, `ErrorsAreEarned`, and from the
   decoder's passes the refinement of `Channel` - *done*.
