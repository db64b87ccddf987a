-------------------------------- MODULE Wire --------------------------------
(***************************************************************************)
(* One CWNP connection: a TCP stream each way, read and written a whole    *)
(* message at a time, and the two ends' sockets.  A message is a record of *)
(* the payload fields its receiver reads; the bytes, and why a stream of   *)
(* them carries whole messages in order, are in Codec and Transport.       *)
(***************************************************************************)
EXTENDS Naturals, Sequences

VARIABLES
    toAgent,        \* messages sent by the server and not yet handled
    toServer,       \* messages sent by the agent and not yet handled
    serverSocket,   \* "open" or "closed"
    agentSocket     \* "open" or "closed"

wireVars == <<toAgent, toServer, serverSocket, agentSocket>>

WireInit ==
    /\ toAgent = <<>> /\ toServer = <<>>
    /\ serverSocket = "open" /\ agentSocket = "open"

\* Server to agent.
HelloAck                       == [type |-> "HELLO_ACK"]
OutputConfig(scale)            == [type |-> "OUTPUT_CONFIG", scale |-> scale]
WindowCreate(id, parent, width, height) ==
    [type |-> "WINDOW_CREATE", id |-> id, parent |-> parent,
     width |-> width, height |-> height]
WindowResize(id, width, height) == [type |-> "WINDOW_RESIZE", id |-> id,
                                    width |-> width, height |-> height]
\* The bytes of a row of pixels without padding; a frame names its rows' bytes,
\* the rectangles of damage have none to name.
Stride(width) == width * 4
WindowFrame(id, sequence, width, height, stride, pixels) ==
    [type |-> "WINDOW_FRAME", id |-> id, sequence |-> sequence,
     width |-> width, height |-> height, stride |-> stride, pixels |-> pixels]
WindowDamage(id, base, sequence, rects) ==
    [type |-> "WINDOW_DAMAGE", id |-> id, base |-> base, sequence |-> sequence,
     rects |-> rects]
WindowPresent(id, presentation) == [type |-> "WINDOW_PRESENT", id |-> id,
                                    presentation |-> presentation]
WindowActivate(id)             == [type |-> "WINDOW_ACTIVATE", id |-> id]
WindowDestroy(id)              == [type |-> "WINDOW_DESTROY", id |-> id]

\* Agent to server.
Hello                          == [type |-> "HELLO"]
PresentAck(id, sequence)       == [type |-> "WINDOW_PRESENT_ACK", id |-> id,
                                   sequence |-> sequence]
FrameRequest(id, known)        == [type |-> "WINDOW_FRAME_REQUEST", id |-> id,
                                   known |-> known]
PointerLocation(type, id, location) == [type |-> type, id |-> id, location |-> location]
PointerButton(id, location, button, down) ==
    [type |-> "POINTER_BUTTON", id |-> id, location |-> location,
     button |-> button, down |-> down]
CaptureLostMessage(id)         == [type |-> "POINTER_CAPTURE_LOST", id |-> id]
KeyboardFocus(id, focused)     == [type |-> "KEYBOARD_FOCUS", id |-> id, focused |-> focused]
KeyboardKey(id, key, down)     == [type |-> "KEYBOARD_KEY", id |-> id, key |-> key,
                                   down |-> down]

PointerTypes == {"POINTER_ENTER", "POINTER_LEAVE", "POINTER_MOTION", "POINTER_WHEEL",
                 "POINTER_BUTTON"}
LocationOnlyTypes == {"POINTER_ENTER", "POINTER_LEAVE", "POINTER_WHEEL"}

MessagesOf(channel, type) == {i \in DOMAIN channel : channel[i].type = type}
=============================================================================
