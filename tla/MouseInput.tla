----------------------------- MODULE MouseInput -----------------------------
(***************************************************************************)
(* Mouse events for the application: Terminal decides whether an event is  *)
(* passed on (protocol, KAM, the bypass modifier, vi mode), InputGenerator *)
(* turns it into a report of the chosen protocol and transport.  A report  *)
(* is a record of the numbers the application reads.                       *)
(***************************************************************************)
EXTENDS Integers, Sequences, FiniteSets, FiniteSetsExt, Functions, TLC

CONSTANTS Cells,            \* line and column numbers the pointer can have
          MaxMouseEvents

VARIABLE mouse

Protocols == {"X10", "NormalTracking", "HighlightTracking", "ButtonTracking", "AnyEventTracking"}
Transports == {"Default", "Extended", "SGR", "SGRPixels", "URXVT"}
Buttons == <<"Left", "Right", "Middle">>             \* in the order of the enumeration
Wheels == {"WheelUp", "WheelDown", "WheelLeft", "WheelRight"}
NoProtocol == "none"
NoReport == <<>>
PixelsPerCell == 10

MouseInit ==
  mouse = [protocol |-> NoProtocol, transport |-> "Default", wheel |-> "Default", passive |-> FALSE,
           pressed |-> {}, genPos |-> 0, pos |-> 0,    \* the position the generator and the terminal know
           scroll |-> 0, vi |-> FALSE, events |-> 0,
           held |-> {}, told |-> {},                   \* buttons the user holds, and the application believes held
           kept |-> FALSE,                             \* a release was not passed on
           report |-> NoReport, event |-> <<>>]        \* the last report, and what it was for

(***************************************************************************)
(* Encoding.                                                               *)
(***************************************************************************)
ModifierBits(mods) == (IF "Shift" \in mods THEN 4 ELSE 0) + (IF "Super" \in mods THEN 8 ELSE 0)
                      + (IF "Control" \in mods THEN 16 ELSE 0)
ButtonNumber == ("Left" :> 0) @@ ("Middle" :> 1) @@ ("Right" :> 2) @@ ("Release" :> 3) @@ ("WheelUp" :> 4)
                @@ ("WheelDown" :> 5) @@ ("WheelRight" :> 6) @@ ("WheelLeft" :> 7)
IsMouseWheel(button) == button \in Wheels
ButtonX10(button) == IF IsMouseWheel(button) THEN ButtonNumber[button] + 60 ELSE ButtonNumber[button]
ButtonNormal(button, type) == IF type = "Release" THEN 3 ELSE ButtonX10(button)

Report(form, button, x, y, final) == [form |-> form, button |-> button, x |-> x, y |-> y, final |-> final]
\* The numbers are bytes.
X10Limit == 255 - 32
MouseTransportX10(button, mods, pos) ==
  IF pos < X10Limit THEN Report("X10", (32 + button + mods) % 256, (32 + pos + 1) % 256, (32 + pos + 1) % 256, "") ELSE NoReport
MouseTransportExtended(button, mods, pos) ==
  IF pos < 2015 THEN Report("Extended", (32 + button + mods) % 256, 32 + pos + 1, 32 + pos + 1, "") ELSE NoReport
MouseTransportSGR(type, button, mods, x) ==
  Report("SGR", button + mods, x, x, IF type # "Release" THEN "M" ELSE "m")
MouseTransportURXVT(type, button, mods, pos) ==
  IF type = "Press" THEN Report("URXVT", button + mods, pos + 1, pos + 1, "M") ELSE NoReport
\* Line and column are the same number here; it is negative above the page.
MouseTransport(s, type, button, mods, pos, pixel) ==
  CASE pos < 0 -> NoReport
    [] pos >= 0 /\ s.transport = "Default" -> MouseTransportX10(button, mods, pos)
    [] pos >= 0 /\ s.transport = "Extended" -> MouseTransportExtended(button, mods, pos)
    [] pos >= 0 /\ s.transport = "SGR" -> MouseTransportSGR(type, button, mods, pos + 1)
    [] pos >= 0 /\ s.transport = "SGRPixels" -> MouseTransportSGR(type, button, mods, pixel)
    [] pos >= 0 /\ s.transport = "URXVT" -> MouseTransportURXVT(type, button, mods, pos)

(***************************************************************************)
(* generateMouse: what is reported, and whether the event counts as        *)
(* handled.                                                                *)
(***************************************************************************)
Reported(s, type) ==
  CASE s.protocol = "X10" -> type = "Press"
    [] s.protocol = "NormalTracking" -> type \in {"Press", "Release"}
    [] s.protocol \in {"ButtonTracking", "AnyEventTracking"} -> TRUE
    [] OTHER -> FALSE
GenerateMouse(s, type, mods, button, pos, pixel) ==
  LET value == IF s.transport # "SGR" /\ s.protocol # "X10" THEN ButtonNormal(button, type) ELSE ButtonX10(button)
      dragged == IF type = "Drag" THEN value + 32 ELSE value
      report == IF Reported(s, type) THEN MouseTransport(s, type, dragged, ModifierBits(mods), pos, pixel) ELSE NoReport
  IN  [s EXCEPT !.report = report, !.event = <<type, button, mods, pos>>,
         !.told = CASE report = NoReport -> @ [] type = "Press" /\ ~IsMouseWheel(button) -> @ \cup {button}
                    [] report # NoReport /\ type = "Release" -> @ \ {button} [] OTHER -> @]
CursorKey(s, button) == [s EXCEPT !.report = Report("Key", 0, 0, 0, IF button = "WheelUp" THEN "A" ELSE "B"), !.event = <<>>]
GenerateMousePress(s, mods, button, pos, pixel) ==
  LET at == [s EXCEPT !.genPos = pos]
  IN  CASE s.protocol = NoProtocol -> at
        [] s.protocol # NoProtocol /\ s.wheel # "Default" /\ ~s.passive /\ button \in {"WheelUp", "WheelDown"} -> CursorKey(at, button)
        [] OTHER -> GenerateMouse([at EXCEPT !.pressed = IF IsMouseWheel(button) THEN @ ELSE @ \cup {button}],
                                  "Press", mods, button, pos, pixel)
GenerateMouseRelease(s, mods, button, pos, pixel) ==
  GenerateMouse([s EXCEPT !.genPos = pos, !.pressed = @ \ {button}], "Release", mods, button, pos, pixel)
\* Of several pressed buttons the first of the enumeration is reported.
GenerateMouseMove(s, mods, pos, pixel) ==
  LET at == [s EXCEPT !.genPos = pos]
      button == IF s.pressed = {} THEN "Release" ELSE Buttons[Min({i \in 1 .. 3 : Buttons[i] \in s.pressed})]
  IN  CASE pos = s.genPos /\ s.transport # "SGRPixels" -> s
        [] ~(pos = s.genPos /\ s.transport # "SGRPixels")
           /\ (s.protocol = "AnyEventTracking" \/ (s.protocol = "ButtonTracking" /\ s.pressed # {})) ->
             GenerateMouse(at, "Drag", mods, button, pos, pixel)
        [] OTHER -> at

(***************************************************************************)
(* Events of the user, and which of them are passed on.  The bypass        *)
(* modifier is Shift.                                                      *)
(***************************************************************************)
AllowPassMouseEventToApp(s, mods) == s.protocol # NoProtocol /\ "Shift" \notin mods /\ ~s.vi
MouseActive == mouse.events < MaxMouseEvents
MouseStep(s) == [s EXCEPT !.events = @ + 1, !.report = NoReport, !.event = <<>>]
SendMousePressEvent(mods, button) ==
  /\ MouseActive /\ button \notin mouse.held
  /\ LET s == [MouseStep(mouse) EXCEPT !.held = IF IsMouseWheel(button) THEN @ ELSE @ \cup {button}]
     IN  mouse' = IF AllowPassMouseEventToApp(s, mods)
                  THEN GenerateMousePress(s, mods, button, s.pos, s.pos * PixelsPerCell) ELSE s
SendMouseReleaseEvent(mods, button) ==
  /\ MouseActive /\ button \in mouse.held
  /\ LET s == [MouseStep(mouse) EXCEPT !.held = @ \ {button}]
     IN  mouse' = IF AllowPassMouseEventToApp(s, mods)
                  THEN GenerateMouseRelease(s, mods, button, s.pos, s.pos * PixelsPerCell)
                  ELSE [s EXCEPT !.kept = TRUE]
\* A move is passed with the position in the grid, presses and releases with that on the screen.
SendMouseMoveEvent(mods, to, pixel) ==
  /\ MouseActive
  /\ LET s == [MouseStep(mouse) EXCEPT !.pos = to]
     IN  mouse' = IF AllowPassMouseEventToApp(s, mods)
                  THEN GenerateMouseMove(s, mods, to - s.scroll, to * PixelsPerCell + pixel) ELSE s

(***************************************************************************)
(* The application and the user change modes.                              *)
(***************************************************************************)
SetMouseProtocol(protocol, enabled) ==
  /\ MouseActive
  /\ mouse' = IF enabled THEN [MouseStep(mouse) EXCEPT !.protocol = protocol, !.wheel = "Default"]
              ELSE [MouseStep(mouse) EXCEPT !.protocol = NoProtocol, !.event = <<"Off", protocol, {}, 0>>]
SetMouseTransport(transport) == MouseActive /\ mouse' = [MouseStep(mouse) EXCEPT !.transport = transport]
SetMouseWheelMode(mode) == MouseActive /\ mouse' = [MouseStep(mouse) EXCEPT !.wheel = mode]
SetPassiveMouseTracking(enable) ==
  /\ MouseActive
  /\ mouse' = [MouseStep(mouse) EXCEPT !.passive = enable, !.transport = IF enable THEN "SGR" ELSE "Default",
                 !.protocol = IF enable THEN "ButtonTracking" ELSE NoProtocol, !.wheel = IF enable THEN "Default" ELSE @]
ScrollView == MouseActive /\ mouse' = [MouseStep(mouse) EXCEPT !.scroll = 1 - @]
ToggleVi == MouseActive /\ mouse' = [MouseStep(mouse) EXCEPT !.vi = ~@]
ResetMouse ==
  /\ MouseActive
  /\ mouse' = [MouseStep(mouse) EXCEPT !.protocol = NoProtocol, !.transport = "Default", !.wheel = "Default"]

MouseNext ==
  \/ \E mods \in {{}, {"Shift"}, {"Control"}} :
        \/ \E button \in {"Left", "Middle", "WheelUp"} : SendMousePressEvent(mods, button) \/ SendMouseReleaseEvent(mods, button)
        \/ \E to \in Cells, pixel \in {0, 5} : SendMouseMoveEvent(mods, to, pixel)
  \/ \E protocol \in Protocols, enabled \in BOOLEAN : SetMouseProtocol(protocol, enabled)
  \/ \E transport \in Transports : SetMouseTransport(transport)
  \/ \E mode \in {"Default", "NormalCursorKeys", "ApplicationCursorKeys"} : SetMouseWheelMode(mode)
  \/ \E enable \in BOOLEAN : SetPassiveMouseTracking(enable)
  \/ ScrollView \/ ToggleVi \/ ResetMouse

HasReport == mouse.report # NoReport /\ mouse.event # <<>>

(***************************************************************************)
(* An application that undoes the offsets of its transport reads the cell  *)
(* the event happened in: what does not fit the transport is not sent      *)
(* rather than wrapped (mouseTransportX10 and the others).                 *)
(***************************************************************************)
LocationDecodes ==
  HasReport =>
    LET r == mouse.report
        x == CASE r.form \in {"X10", "Extended"} -> r.x - 33 [] r.form \in {"SGR", "URXVT"} -> r.x - 1
    IN  mouse.transport # "SGRPixels" => x = mouse.event[4]

(***************************************************************************)
(* With the SGR transport the report tells type, button and modifiers of   *)
(* the event apart: no other event has the same numbers (buttonX10, the    *)
(* drag bit 32 and the bits of the modifiers do not overlap).              *)
(***************************************************************************)
EventDecodes ==
  HasReport /\ mouse.transport = "SGR" =>
    \A type \in {"Press", "Drag", "Release"}, button \in Range(Buttons) \cup Wheels, mods \in SUBSET {"Shift", "Control"} :
      LET value == ButtonX10(button) + (IF type = "Drag" THEN 32 ELSE 0) + ModifierBits(mods)
          final == IF type = "Release" THEN "m" ELSE "M"
      IN  (value = mouse.report.button /\ final = mouse.report.final) =>
             /\ type = mouse.event[1] /\ mods = mouse.event[3] \cap {"Shift", "Control"} /\ button = mouse.event[2]

(***************************************************************************)
(* A drag is reported for a button the user holds, unless the release of a *)
(* button was kept from the generator before, because of the bypass        *)
(* modifier, vi mode or a protocol that was off (generateMouseMove).       *)
(***************************************************************************)
DragUnreleased ==
  HasReport /\ mouse.event[1] = "Drag" /\ ~mouse.kept => mouse.event[2] \in mouse.held \cup {"Release"}

(***************************************************************************)
(* What does not hold of this code.  A drag names a button the user holds. *)
(***************************************************************************)
DragHeld == HasReport /\ mouse.event[1] = "Drag" => mouse.event[2] \in mouse.held \cup {"Release"}

\* A drag names a button whose press the application was told of.
DragTold == HasReport /\ mouse.event[1] = "Drag" => mouse.event[2] \in mouse.told \cup {"Release"}

\* SGR-Pixels differs from SGR in its coordinates only (the comment of MouseTransport).
PixelsLikeSGR ==
  HasReport /\ mouse.transport = "SGRPixels" /\ mouse.event[1] = "Release" =>
    mouse.report.button = ButtonX10(mouse.event[2]) + ModifierBits(mouse.event[3])

\* Every event is reported where the pointer is.
ReportedAtPointer == HasReport => mouse.event[4] = mouse.pos

\* Switching a protocol off that is not the one in use changes nothing.
OtherProtocolKept ==
  [][mouse'.event # <<>> /\ mouse'.event[1] = "Off" /\ mouse'.event[2] # mouse.protocol =>
       mouse'.protocol = mouse.protocol]_mouse
=============================================================================
