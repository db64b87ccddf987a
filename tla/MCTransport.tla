---------------------------- MODULE MCTransport -----------------------------
(***************************************************************************)
(* A byte is one of twelve values: enough for every type to fit in two of  *)
(* them, and for eight of them to fit in TLC's integers.  Every type of    *)
(* message, with numbers at the ends of their widths, is in some           *)
(* conversation.                                                           *)
(***************************************************************************)
EXTENDS TransportCheck, TLC

Rect(x, y, w, h) == [x |-> x, y |-> y, w |-> w, h |-> h]
XY(x, y) == [x |-> x, y |-> y]
Hello == [type |-> "HELLO", min |-> Version, max |-> Version, formats |-> 1]
OldHello == [Hello EXCEPT !.min = 1, !.max = Version - 1]
HelloAck == [type |-> "HELLO_ACK", version |-> Version, formats |-> 1]
Config == [type |-> "OUTPUT_CONFIG", logical |-> Rect(-Half, Half - 1, 2, 1),
           numerator |-> 3, denominator |-> 2]
Create == [type |-> "WINDOW_CREATE", id |-> U32Limit, parent |-> 0, width |-> 2, height |-> 1]
Frame  == [type |-> "WINDOW_FRAME", id |-> 1, sequence |-> 300, width |-> 1, height |-> 1,
           stride |-> 5, pixels |-> <<1, 2, 3, 4, 0>>]
Patch(x, pixels) == Rect(x, 0, Len(pixels) \div 4, 1) @@ [pixels |-> pixels]
Damage == [type |-> "WINDOW_DAMAGE", id |-> 1, sequence |-> 301, base |-> 300,
           rects |-> <<Patch(1, <<5, 6, 7, 8>>), Patch(0, <<>>)>>]
Resize == [type |-> "WINDOW_RESIZE", id |-> 1, width |-> 3, height |-> 2]
Present == [type |-> "WINDOW_PRESENT", id |-> 1, sequence |-> 2 * U32Limit + 1,
            source |-> Rect(0, 0, 2, 1), destination |-> Rect(-1, 0, 2, 1), visible |-> TRUE]
Activate == [type |-> "WINDOW_ACTIVATE", id |-> 2]
Destroy  == [type |-> "WINDOW_DESTROY", id |-> 1]
Ack == [type |-> "WINDOW_PRESENT_ACK", id |-> 1, sequence |-> 2 * U32Limit + 1]
Place == [id |-> 1, presented |-> 42, client |-> XY(-1, 0), output |-> XY(Half - 1, -Half),
          time |-> U32Limit - 1]
Enter  == [type |-> "POINTER_ENTER", at |-> Place]
Leave  == [type |-> "POINTER_LEAVE", at |-> Place]
Motion == [type |-> "POINTER_MOTION", at |-> Place, mask |-> 7]
Button == [type |-> "POINTER_BUTTON", at |-> Place, button |-> 3, down |-> FALSE]
Wheel  == [type |-> "POINTER_WHEEL", at |-> Place, delta |-> XY(-120, 0)]
CaptureLost == [type |-> "POINTER_CAPTURE_LOST", id |-> 1, presented |-> 42, time |-> 0]
Focus   == [type |-> "KEYBOARD_FOCUS", id |-> 1, focused |-> TRUE]
Key     == [type |-> "KEYBOARD_KEY", id |-> 1, key |-> 30, down |-> TRUE, time |-> 9]
Request == [type |-> "WINDOW_FRAME_REQUEST", id |-> 1, sequence |-> 0]

\* What a peer of another version might send: a header of that version, a type
\* of its own that must be known or may be ignored, a payload of another size.
Foreign(header, payload) == [type |-> "FOREIGN", header |-> header, payload |-> payload]
Newer     == Foreign([Header(1, 8, 0) EXCEPT !.version = Version + 1], Payload(Hello))
Mandatory == Foreign(Header(99, 0, 0), <<>>)
Optional  == Foreign(Header(U16Limit \div 2 + 1, 0, 0), <<>>)
Longer    == Foreign(Header(MessageTypes.WINDOW_PRESENT_ACK, 17, 0), Payload(Ack) \o <<0>>)
Huge      == Foreign(Header(MessageTypes.WINDOW_FRAME, MaxPayload + 1, 0), <<0>>)

Says(agent, server, mortal) == [agent |-> agent, server |-> server, mortal |-> mortal]
MCConversations ==
    {Says(<<Hello, Ack>>, <<<<HelloAck, Config>>, <<Create>>>>, {"agent"}),
     Says(<<Hello>>, <<<<Frame, Damage, Present>>>>, {}),
     Says(<<Hello>>, <<<<Resize, Activate, Destroy>>>>, {"server"}),
     Says(<<Hello, Enter, Motion, Leave>>, <<>>, {}),
     Says(<<Hello, Button, Wheel, CaptureLost>>, <<>>, {"agent"}),
     Says(<<Hello, Focus>>, <<<<HelloAck>>>>, {}),
     Says(<<Hello, Key>>, <<>>, {}), Says(<<Hello, Request>>, <<>>, {}),
     Says(<<OldHello, Ack>>, <<>>, {}), Says(<<Ack, Hello>>, <<>>, {}),
     Says(<<Hello, Hello>>, <<>>, {}),
     Says(<<Newer, Ack>>, <<>>, {}), Says(<<Hello>>, <<<<Mandatory, Destroy>>>>, {}),
     Says(<<Hello>>, <<<<Optional, Destroy>>>>, {}), Says(<<Hello, Longer, Ack>>, <<>>, {}),
     Says(<<Hello>>, <<<<Huge>>>>, {})}
=============================================================================
