-------------------------------- MODULE Codec --------------------------------
(***************************************************************************)
(* common/protocol.c: CWNP messages as bytes.  An integer is stored byte   *)
(* by byte, the least significant first; a message is a header of 24 bytes *)
(* and a payload laid out by its type.  The payloads are written by the    *)
(* send functions of windows-agent/protocol.cpp and fake-server/main.c.    *)
(*                                                                         *)
(* A byte is a digit of the constant Base, 256 in the code: the layout     *)
(* does not depend on it, and TLC's integers end at 2^31.                  *)
(***************************************************************************)
EXTENDS Integers, Sequences

CONSTANTS
    Base,           \* values of a byte
    Magic,          \* CW_PROTOCOL_MAGIC
    Version,        \* CW_PROTOCOL_VERSION
    MaxPayload,     \* CW_MAX_PAYLOAD
    MaxDimension,   \* CW_MAX_SURFACE_DIMENSION
    MaxRects,       \* CW_MAX_DAMAGE_RECTS
    MaxKeycode      \* CW_MAX_LINUX_KEYCODE

U16Limit == Base * Base
U32Limit == Base * (Base * (Base * Base))
Half     == U32Limit \div 2

Byte == 0 .. Base - 1
U16  == 0 .. U16Limit - 1
U32  == 0 .. U32Limit - 1
U64  == 0 .. U32Limit * U32Limit - 1
I32  == -Half .. Half - 1

ASSUME CodecAssumption ==
    /\ Base \in Nat /\ Base >= 2
    /\ Magic \in U32 /\ Version \in U16
    /\ MaxPayload \in U32 /\ MaxPayload >= 32
    /\ MaxDimension \in U32 /\ MaxRects \in U32 /\ MaxKeycode \in U32
-----------------------------------------------------------------------------
(* cw_store_*_le and cw_load_*_le.                                         *)

StoreU16(v) == <<v % Base, v \div Base>>
StoreU32(v) ==
    LET v1 == v \div Base
        v2 == v1 \div Base
    IN  <<v % Base, v1 % Base, v2 % Base, v2 \div Base>>
StoreU64(v) == StoreU32(v % U32Limit) \o StoreU32(v \div U32Limit)
StoreOffset(v) == StoreU32(IF v >= 0 THEN v ELSE Half + v)    \* mutant
StoreI32(v) == StoreU32(IF v >= 0 THEN v ELSE Half + (v + Half))

\* The integer at offset o of bytes p.
LoadU16(p, o) == p[o + 1] + Base * p[o + 2]
LoadU32(p, o) == p[o + 1] + Base * (p[o + 2] + Base * (p[o + 3] + Base * p[o + 4]))
LoadU64(p, o) == LoadU32(p, o) + U32Limit * LoadU32(p, o + 4)
LoadI32(p, o) ==
    LET bits == LoadU32(p, o)
    IN  IF bits < Half THEN bits ELSE (bits - Half) - Half
-----------------------------------------------------------------------------
(* The header: cw_header_encode, cw_header_decode, cw_header_is_valid.     *)

HeaderSize == 24

MessageTypes ==
    [HELLO |-> 1, HELLO_ACK |-> 2,
     WINDOW_CREATE |-> 10, WINDOW_FRAME |-> 11, WINDOW_PRESENT |-> 12,
     WINDOW_PRESENT_ACK |-> 13, WINDOW_DESTROY |-> 14, WINDOW_DAMAGE |-> 15,
     WINDOW_FRAME_REQUEST |-> 16, WINDOW_RESIZE |-> 17, WINDOW_ACTIVATE |-> 18,
     OUTPUT_CONFIG |-> 19,
     POINTER_ENTER |-> 30, POINTER_LEAVE |-> 31, POINTER_MOTION |-> 32,
     POINTER_BUTTON |-> 33, POINTER_WHEEL |-> 34, POINTER_CAPTURE_LOST |-> 35,
     KEYBOARD_FOCUS |-> 36, KEYBOARD_KEY |-> 37]
IsKnown(type)    == \E name \in DOMAIN MessageTypes : MessageTypes[name] = type
TypeName(type)   == CHOOSE name \in DOMAIN MessageTypes : MessageTypes[name] = type
IsOptional(type) == type >= U16Limit \div 2    \* the top bit

Header(type, length, sequence) ==
    [magic |-> Magic, version |-> Version, type |-> type, flags |-> 0,
     length |-> length, sequence |-> sequence]
HeaderBytes(h) ==
    StoreU32(h.magic) \o StoreU16(h.version) \o StoreU16(h.type)
    \o StoreU32(h.flags) \o StoreU32(h.length) \o StoreU64(h.sequence)
HeaderOf(p) ==
    [magic |-> LoadU32(p, 0), version |-> LoadU16(p, 4), type |-> LoadU16(p, 6),
     flags |-> LoadU32(p, 8), length |-> LoadU32(p, 12), sequence |-> LoadU64(p, 16)]

HeaderError(h) ==
    IF h.magic # Magic THEN "wrong magic"
    ELSE IF h.version # Version THEN "unsupported version"
    ELSE IF ~IsKnown(h.type) /\ ~IsOptional(h.type) THEN "unknown mandatory message"
    ELSE IF h.length > MaxPayload THEN "payload exceeds maximum"
    ELSE "ok"
-----------------------------------------------------------------------------
(* What a message says, by the name of its type: the structs of protocol.h *)
(* with the widths of their integers.                                      *)

Points    == [x : I32, y : I32]
Rects     == [x : I32, y : I32, w : I32, h : I32]
Areas     == [x : I32, y : I32, w : U32, h : U32]
Locations == [id : U64, presented : U64, client : Points, output : Points, time : U64]
DamageRects ==
    {r \in [x : I32, y : I32, w : U32, h : U32, pixels : Seq(Byte)] : Len(r.pixels) = r.w * r.h * 4}

MessagesOf(name) ==
    CASE name = "HELLO" -> [type : {name}, min : U16, max : U16, formats : U32]
      [] name = "HELLO_ACK" -> [type : {name}, version : U16, formats : U32]
      [] name = "OUTPUT_CONFIG" ->
             [type : {name}, logical : Areas, numerator : U32, denominator : U32]
      [] name = "WINDOW_CREATE" ->
             [type : {name}, id : U64, parent : U64, width : U32, height : U32]
      [] name = "WINDOW_RESIZE" -> [type : {name}, id : U64, width : U32, height : U32]
      [] name = "WINDOW_FRAME" ->
             [type : {name}, id : U64, sequence : U64, width : U32, height : U32,
              stride : U32, pixels : Seq(Byte)]
      [] name = "WINDOW_DAMAGE" ->
             {m \in [type : {name}, id : U64, sequence : U64, base : U64, rects : Seq(DamageRects)] :
                 Len(m.rects) \in U32}
      [] name = "WINDOW_PRESENT" ->
             [type : {name}, id : U64, sequence : U64, source : Rects, destination : Rects,
              visible : BOOLEAN]
      [] name \in {"WINDOW_PRESENT_ACK", "WINDOW_FRAME_REQUEST"} ->
             [type : {name}, id : U64, sequence : U64]
      [] name \in {"WINDOW_DESTROY", "WINDOW_ACTIVATE"} -> [type : {name}, id : U64]
      [] name \in {"POINTER_ENTER", "POINTER_LEAVE"} -> [type : {name}, at : Locations]
      [] name = "POINTER_MOTION" -> [type : {name}, at : Locations, mask : U32]
      [] name = "POINTER_BUTTON" -> [type : {name}, at : Locations, button : U32, down : BOOLEAN]
      [] name = "POINTER_WHEEL"  -> [type : {name}, at : Locations, delta : Points]
      [] name = "POINTER_CAPTURE_LOST" -> [type : {name}, id : U64, presented : U64, time : U64]
      [] name = "KEYBOARD_FOCUS" -> [type : {name}, id : U64, focused : BOOLEAN]
      [] name = "KEYBOARD_KEY"   ->
             [type : {name}, id : U64, key : U32, down : BOOLEAN, time : U64]
-----------------------------------------------------------------------------
(* What a payload is made of: a field by field list of its integers.       *)

StoreXY(p) == StoreI32(p.x) \o StoreI32(p.y)
StoreLocation(l) ==
    StoreU64(l.id) \o StoreU64(l.presented) \o StoreXY(l.client) \o StoreXY(l.output)
    \o StoreU64(l.time)
StoreRect(r) == StoreI32(r.x) \o StoreI32(r.y) \o StoreI32(r.w) \o StoreI32(r.h)
StoreArea(r) == StoreI32(r.x) \o StoreI32(r.y) \o StoreU32(r.w) \o StoreU32(r.h)
Flag(b) == StoreU32(IF b THEN 1 ELSE 0)
DamageBytes(rects) ==
    LET upTo[n \in 0 .. Len(rects)] ==
            IF n = 0 THEN <<>> ELSE upTo[n - 1] \o StoreArea(rects[n]) \o rects[n].pixels
    IN  upTo[Len(rects)]

FramePrefix(id, sequence, width, height, stride) ==
    StoreU64(id) \o StoreU64(sequence) \o StoreU32(width) \o StoreU32(height)
    \o StoreU32(stride) \o StoreU32(1)

\* The payload the senders write for a message m, by the name of its type.
Payload(m) ==
    CASE m.type = "HELLO" -> StoreU16(m.min) \o StoreU16(m.max) \o StoreU32(m.formats)
      [] m.type = "HELLO_ACK" -> StoreU16(m.version) \o StoreU16(0) \o StoreU32(m.formats)
      [] m.type = "OUTPUT_CONFIG" ->
             StoreArea(m.logical) \o StoreU32(m.numerator) \o StoreU32(m.denominator)
      [] m.type = "WINDOW_CREATE" ->
             StoreU64(m.id) \o StoreU32(m.width) \o StoreU32(m.height) \o StoreU64(m.parent)
      [] m.type = "WINDOW_RESIZE" -> StoreU64(m.id) \o StoreU32(m.width) \o StoreU32(m.height)
      [] m.type = "WINDOW_FRAME" ->
             FramePrefix(m.id, m.sequence, m.width, m.height, m.stride) \o m.pixels
      [] m.type = "WINDOW_DAMAGE" ->
             StoreU64(m.id) \o StoreU64(m.sequence) \o StoreU64(m.base)
             \o StoreU32(Len(m.rects)) \o StoreU32(0) \o DamageBytes(m.rects)
      [] m.type = "WINDOW_PRESENT" ->
             StoreU64(m.id) \o StoreU64(m.sequence) \o StoreRect(m.source)
             \o StoreRect(m.destination) \o Flag(m.visible) \o StoreU32(0)
      [] m.type \in {"WINDOW_PRESENT_ACK", "WINDOW_FRAME_REQUEST"} ->
             StoreU64(m.id) \o StoreU64(m.sequence)
      [] m.type \in {"WINDOW_DESTROY", "WINDOW_ACTIVATE"} -> StoreU64(m.id)
      [] m.type \in {"POINTER_ENTER", "POINTER_LEAVE"} -> StoreLocation(m.at)
      [] m.type = "POINTER_MOTION" -> StoreLocation(m.at) \o StoreU32(m.mask) \o StoreU32(0)
      [] m.type = "POINTER_BUTTON" -> StoreLocation(m.at) \o StoreU32(m.button) \o Flag(m.down)
      [] m.type = "POINTER_WHEEL"  -> StoreLocation(m.at) \o StoreXY(m.delta)
      [] m.type = "POINTER_CAPTURE_LOST" ->
             StoreU64(m.id) \o StoreU64(m.presented) \o StoreU64(m.time)
      [] m.type = "KEYBOARD_FOCUS" -> StoreU64(m.id) \o Flag(m.focused) \o StoreU32(0)
      [] m.type = "KEYBOARD_KEY"   ->
             StoreU64(m.id) \o StoreU32(m.key) \o Flag(m.down) \o StoreU64(m.time)
-----------------------------------------------------------------------------
(* cw_message_is_valid: what a receiver requires of a payload.             *)

ValidSurface(w, h) == w \in 1 .. MaxDimension /\ h \in 1 .. MaxDimension
ValidFrameSurface(w, h) == ValidSurface(w, h) /\ w * h * 4 <= MaxPayload - 32

ValidFrame(p) ==
    /\ Len(p) >= 32
    /\ LoadU64(p, 8) # 0
    /\ LET w      == LoadU32(p, 16)
           h      == LoadU32(p, 20)
           stride == LoadU32(p, 24)
       IN  /\ ValidFrameSurface(w, h)
           /\ LoadU32(p, 28) = 1
           /\ stride >= w * 4
           /\ 32 + stride * h = Len(p) /\ Len(p) <= MaxPayload

\* damage_rect_pixel_bytes and the walk of valid_damage_payload: the offset
\* behind the rectangle at offset o, if it is all there.
RectPixels(p, o) == LoadU32(p, o + 8) * LoadU32(p, o + 12) * 4
AfterRect(p, o) ==
    IF /\ Len(p) - o >= 16
       /\ LoadU32(p, o + 8) <= MaxDimension /\ LoadU32(p, o + 12) <= MaxDimension
       /\ RectPixels(p, o) <= MaxPayload /\ RectPixels(p, o) <= Len(p) - o - 16
    THEN {o + 16 + RectPixels(p, o)} ELSE {}
OffsetOfRect(p) ==
    LET at[n \in 0 .. LoadU32(p, 24)] ==
            IF n = 0 THEN {32} ELSE UNION {AfterRect(p, o) : o \in at[n - 1]}
    IN  at
ValidDamage(p) ==
    /\ Len(p) >= 32
    /\ LoadU64(p, 16) # 0 /\ LoadU64(p, 8) > LoadU64(p, 16)
    /\ LoadU32(p, 28) = 0
    /\ LoadU32(p, 24) <= MaxRects
    /\ OffsetOfRect(p)[LoadU32(p, 24)] = {Len(p)}

ValidPresent(p) ==
    /\ Len(p) = 56
    /\ \A o \in {24, 28, 40, 44} : LoadI32(p, o) >= 0
    /\ LoadI32(p, 24) = LoadI32(p, 40) /\ LoadI32(p, 28) = LoadI32(p, 44)
    /\ LoadU32(p, 48) \in {0, 1} /\ LoadU32(p, 52) = 0

\* An unknown optional message is taken as it is.
IsValid(type, p) ==
    ~IsKnown(type) \/
    LET name == TypeName(type) IN
    CASE name = "HELLO" -> Len(p) = 8 /\ LoadU16(p, 0) # 0 /\ LoadU16(p, 2) >= LoadU16(p, 0)
      [] name = "HELLO_ACK" -> Len(p) = 8 /\ LoadU16(p, 0) = Version /\ LoadU16(p, 2) = 0
      [] name = "OUTPUT_CONFIG" -> Len(p) = 24 /\ \A o \in {8, 12, 16, 20} : LoadU32(p, o) # 0
      [] name = "WINDOW_CREATE" ->
             /\ Len(p) = 24
             /\ LoadU64(p, 0) # 0 /\ LoadU64(p, 0) # LoadU64(p, 16)
             /\ ValidFrameSurface(LoadU32(p, 8), LoadU32(p, 12))
      [] name = "WINDOW_RESIZE" ->
             Len(p) = 16 /\ ValidFrameSurface(LoadU32(p, 8), LoadU32(p, 12))
      [] name = "WINDOW_FRAME"   -> ValidFrame(p)
      [] name = "WINDOW_DAMAGE"  -> ValidDamage(p)
      [] name = "WINDOW_PRESENT" -> ValidPresent(p)
      [] name \in {"WINDOW_PRESENT_ACK", "WINDOW_FRAME_REQUEST"} -> Len(p) = 16
      [] name = "WINDOW_DESTROY"  -> Len(p) = 8
      [] name = "WINDOW_ACTIVATE" -> Len(p) = 8 /\ LoadU64(p, 0) # 0
      [] name \in {"POINTER_ENTER", "POINTER_LEAVE"} -> Len(p) = 40
      [] name = "POINTER_MOTION" -> Len(p) = 48 /\ LoadU32(p, 44) = 0
      [] name = "POINTER_BUTTON" ->
             Len(p) = 48 /\ LoadU32(p, 40) \in 1 .. 3 /\ LoadU32(p, 44) \in {0, 1}
      [] name = "POINTER_WHEEL"  -> Len(p) = 48
      [] name = "POINTER_CAPTURE_LOST" -> Len(p) = 24
      [] name = "KEYBOARD_FOCUS" ->
             Len(p) = 16 /\ LoadU64(p, 0) # 0 /\ LoadU32(p, 8) \in {0, 1} /\ LoadU32(p, 12) = 0
      [] name = "KEYBOARD_KEY"   ->
             /\ Len(p) = 24
             /\ LoadU64(p, 0) # 0 /\ LoadU32(p, 8) <= MaxKeycode /\ LoadU32(p, 12) \in {0, 1}
-----------------------------------------------------------------------------
(* cw_decode_*: the fields a handler reads of a valid payload.             *)

LoadXY(p, o)   == [x |-> LoadI32(p, o), y |-> LoadI32(p, o + 4)]
LoadRect(p, o) == [x |-> LoadI32(p, o), y |-> LoadI32(p, o + 4),
                   w |-> LoadI32(p, o + 8), h |-> LoadI32(p, o + 12)]
LoadArea(p, o) == [x |-> LoadI32(p, o), y |-> LoadI32(p, o + 4),
                   w |-> LoadU32(p, o + 8), h |-> LoadU32(p, o + 12)]
LoadFlag(p, o) == LoadU32(p, o) # 0
RectAt(p, o) ==
    [x |-> LoadI32(p, o), y |-> LoadI32(p, o + 4),
     w |-> LoadU32(p, o + 8), h |-> LoadU32(p, o + 12),
     pixels |-> SubSeq(p, o + 17, o + 16 + RectPixels(p, o))]
LoadLocation(p) ==
    [id |-> LoadU64(p, 0), presented |-> LoadU64(p, 8), client |-> LoadXY(p, 16),
     output |-> LoadXY(p, 24), time |-> LoadU64(p, 32)]
Fields(name, p) ==
    CASE name = "HELLO" ->
             [type |-> name, min |-> LoadU16(p, 0), max |-> LoadU16(p, 2), formats |-> LoadU32(p, 4)]
      [] name = "HELLO_ACK" ->
             [type |-> name, version |-> LoadU16(p, 0), formats |-> LoadU32(p, 4)]
      [] name = "OUTPUT_CONFIG" ->
             [type |-> name, logical |-> LoadArea(p, 0),
              numerator |-> LoadU32(p, 16), denominator |-> LoadU32(p, 20)]
      [] name = "WINDOW_CREATE" ->
             [type |-> name, id |-> LoadU64(p, 0), parent |-> LoadU64(p, 16),
              width |-> LoadU32(p, 8), height |-> LoadU32(p, 12)]
      [] name = "WINDOW_RESIZE" ->
             [type |-> name, id |-> LoadU64(p, 0),
              width |-> LoadU32(p, 8), height |-> LoadU32(p, 12)]
      [] name = "WINDOW_FRAME" ->
             [type |-> name, id |-> LoadU64(p, 0), sequence |-> LoadU64(p, 8),
              width |-> LoadU32(p, 16), height |-> LoadU32(p, 20),
              stride |-> LoadU32(p, 24), pixels |-> SubSeq(p, 33, Len(p))]
      [] name = "WINDOW_DAMAGE" ->
             [type |-> name, id |-> LoadU64(p, 0), sequence |-> LoadU64(p, 8),
              base |-> LoadU64(p, 16),
              rects |-> [i \in 1 .. LoadU32(p, 24) |->
                            RectAt(p, CHOOSE o \in OffsetOfRect(p)[i - 1] : TRUE)]]
      [] name = "WINDOW_PRESENT" ->
             [type |-> name, id |-> LoadU64(p, 0), sequence |-> LoadU64(p, 8),
              source |-> LoadRect(p, 16), destination |-> LoadRect(p, 32),
              visible |-> LoadFlag(p, 48)]
      [] name \in {"WINDOW_PRESENT_ACK", "WINDOW_FRAME_REQUEST"} ->
             [type |-> name, id |-> LoadU64(p, 0), sequence |-> LoadU64(p, 8)]
      [] name \in {"WINDOW_DESTROY", "WINDOW_ACTIVATE"} -> [type |-> name, id |-> LoadU64(p, 0)]
      [] name = "POINTER_CAPTURE_LOST" ->
             [type |-> name, id |-> LoadU64(p, 0), presented |-> LoadU64(p, 8),
              time |-> LoadU64(p, 16)]
      [] name = "KEYBOARD_FOCUS" ->
             [type |-> name, id |-> LoadU64(p, 0), focused |-> LoadFlag(p, 8)]
      [] name = "KEYBOARD_KEY" ->
             [type |-> name, id |-> LoadU64(p, 0), key |-> LoadU32(p, 8),
              down |-> LoadFlag(p, 12), time |-> LoadU64(p, 16)]
      [] name \in {"POINTER_ENTER", "POINTER_LEAVE"} -> [type |-> name, at |-> LoadLocation(p)]
      [] name = "POINTER_MOTION" ->
             [type |-> name, at |-> LoadLocation(p), mask |-> LoadU32(p, 40)]
      [] name = "POINTER_BUTTON" ->
             [type |-> name, at |-> LoadLocation(p), button |-> LoadU32(p, 40),
              down |-> LoadFlag(p, 44)]
      [] name = "POINTER_WHEEL" ->
             [type |-> name, at |-> LoadLocation(p), delta |-> LoadXY(p, 40)]
=============================================================================
