------------------------------ MODULE Graphics ------------------------------
(***************************************************************************)
(* The graphics session of the runtime: aym_gfx_* of runtime.c for Windows *)
(* and runtime_gfx_linux.c.  The program opens, draws, asks for keys and   *)
(* closes; the user presses keys, leaves and closes the window meanwhile,  *)
(* and what the user does is seen when a call pumps the events.  A call of *)
(* the window system may fail.  The canvas is a row of cells.              *)
(***************************************************************************)
EXTENDS Integers, Sequences, FiniteSets

CONSTANTS
  Width,      \* cells of the canvas
  Colors,     \* colours a program draws with; 0 is an unpainted cell, White the initial colour
  MaxUser,    \* bound: what the user does
  MaxOpens,   \* bound: calls that open a window
  MaxTexts    \* bound: texts since the canvas was cleared

(* aym_gfx_open gives no window that is not wider than 0.                  *)
ASSUME WidthAssumption == Width \in Nat \ {0}

VARIABLES
  platform,
  win,        \* the variables of the runtime
  world,      \* events not yet pumped, keys held down, shift, the console window
  last,       \* the last call, as far as the properties tell calls apart, and what it showed
  past,       \* history, for the properties
  spent       \* counters of the bounds

graphicsVars == <<platform, win, world, last, past, spent>>

White == 9
Was(name, shown) == last' = [call |-> name, shown |-> shown]
Linux == platform = "linux"
Needed == IF Linux THEN {"display", "window", "gc", "pixels", "image"}
          ELSE {"window", "window dc", "mem dc", "bitmap"}
Buffers == {"mem dc", "bitmap", "font"}

Cells == 0..(Width - 1)
Blank == [ink |-> [x \in Cells |-> 0], texts |-> << >>]

(* A key gives X11 events another code while shift is down; Windows tells  *)
(* the keys themselves.                                                    *)
PhysicalKeys == {"1", "escape"}
Code(k, shift) == IF Linux /\ shift /\ k = "1" THEN "!" ELSE k
Codes == {"1", "!", "escape"}

(* What the program is owed of each key: nothing, a press it has not asked *)
(* for yet, or one after which the window lost the focus.                  *)
NothingOwed == [c \in Codes |-> "none"]

GraphicsInit ==
  /\ platform \in {"linux", "windows"}
  /\ win = [has |-> {}, alive |-> FALSE, keys |-> {}, hits |-> {}, color |-> White, picture |-> Blank,
            hid |-> FALSE, saw |-> FALSE]
  /\ world = [events |-> << >>, pressed |-> {}, shift |-> FALSE, console |-> TRUE]
  /\ last = [call |-> "none", shown |-> Blank]
  /\ past = [meant |-> Blank, covered |-> FALSE, owed |-> NothingOwed, missed |-> {}, disturbed |-> FALSE,
             abandoned |-> FALSE, leaked |-> 0]
  /\ spent = [user |-> 0, opens |-> 0]
-----------------------------------------------------------------------------
(* The user.  Events reach the program's queue while it has a window.      *)
User(events, w) ==
  /\ spent.user < MaxUser /\ spent' = [spent EXCEPT !.user = @ + 1]
  /\ world' = IF "window" \in win.has THEN [w EXCEPT !.events = @ \o events] ELSE w
  /\ UNCHANGED <<platform, win>> /\ Was("other", Blank)
Event(kind, code) == [kind |-> kind, code |-> code]

UserPresses(k) ==
  /\ k \notin world.pressed
  /\ User(<<Event("press", Code(k, world.shift))>>, [world EXCEPT !.pressed = @ \cup {k}])
  /\ UNCHANGED past
UserReleases(k) ==
  /\ k \in world.pressed
  /\ User(<<Event("release", Code(k, world.shift))>>, [world EXCEPT !.pressed = @ \ {k}])
  /\ UNCHANGED past

(* A key that is held repeats: to Windows as one more press; to X11, which *)
(* is not asked for detectable auto-repeat, as a release with a press.     *)
UserHolds(k) ==
  /\ k \in world.pressed
  /\ LET c == Code(k, world.shift) IN
       User((IF Linux THEN <<Event("release", c)>> ELSE << >>) \o <<Event("press", c)>>, world)
  /\ UNCHANGED past

(* Shift, and leaving the window and coming back, while a key is held.     *)
Disturbs == past' = [past EXCEPT !.disturbed = @ \/ world.pressed # {}]
UserShifts ==
  /\ User(<<Event("other", "shift")>>, [world EXCEPT !.shift = ~@])
  /\ IF Linux THEN Disturbs ELSE UNCHANGED past
UserLeaves == User(<<Event("focus", "")>>, world) /\ Disturbs
UserCloses == "window" \in win.has /\ User(<<Event("close", "")>>, world) /\ UNCHANGED past

(* aym_linux_pump_events, and aym_gfx_pump_messages with aym_gfx_wndproc:  *)
(* what becomes of win and of the presses the program is owed.  Escape and *)
(* q close a window of Windows; nothing more is dispatched to it then.     *)
Destroyed(w) == [w EXCEPT !.alive = FALSE, !.has = @ \ {"window"}]

(* Mutant: a released key is no longer a hit. *)
ReleasedForgotten(w, c) == [w EXCEPT !.keys = @ \ {c}, !.hits = @ \ {c}]

Released(w, c) == [w EXCEPT !.keys = @ \ {c}]
Pressed(linux, w, c) ==
  LET v == [w EXCEPT !.keys = @ \cup {c}, !.hits = @ \cup {c}]
  IN  IF ~linux /\ c = "escape" THEN Destroyed(v) ELSE v
Handle(linux, w, e) ==
  IF e.kind = "press" THEN Pressed(linux, w, e.code)
  ELSE IF e.kind = "release" THEN Released(w, e.code)
  ELSE IF e.kind = "focus" THEN [w EXCEPT !.keys = {}, !.hits = {}]
  ELSE IF e.kind # "close" THEN w
  ELSE IF linux THEN [w EXCEPT !.alive = FALSE] ELSE Destroyed(w)
Owes(owed, e) ==
  IF e.kind = "press" THEN [owed EXCEPT ![e.code] = "made"]
  ELSE IF e.kind = "focus" THEN [c \in Codes |-> IF owed[c] = "made" THEN "left" ELSE owed[c]]
  ELSE owed
PumpOne(linux, s, e) ==
  IF "window" \in s.win.has THEN [win |-> Handle(linux, s.win, e), owed |-> Owes(s.owed, e)] ELSE s
PumpedBy(linux, s, events) ==
  LET after[n \in 0..Len(events)] == IF n = 0 THEN s ELSE PumpOne(linux, after[n - 1], events[n])
  IN  after[Len(events)]
Pumped == PumpedBy(Linux, [win |-> win, owed |-> past.owed], world.events)
NoEvents(w) == [w EXCEPT !.events = << >>]
-----------------------------------------------------------------------------
(* Closing.  On Linux the pixels are freed with the image or not at all.   *)
Closed(w) ==
  [w EXCEPT !.has = IF Linux /\ "image" \notin @ THEN @ \cap {"pixels"} ELSE {},
            !.alive = FALSE, !.keys = {}, !.hits = {}, !.hid = FALSE, !.saw = FALSE,
            !.color = IF Linux THEN 0 ELSE @, !.picture = [@ EXCEPT !.texts = << >>]]
AfterClose(w) == [NoEvents(world) EXCEPT !.console = @ \/ (~Linux /\ w.hid /\ w.saw)]

(* aym_linux_close_window pumps first, if there is a display.              *)
BeforeClose == IF "display" \in win.has THEN Pumped.win ELSE win
Close ==
  /\ win' = Closed(BeforeClose) /\ world' = AfterClose(BeforeClose) /\ Was("close", Blank)
  /\ past' = [past EXCEPT !.owed = NothingOwed]
  /\ UNCHANGED <<platform, spent>>

(* Mutant: on Linux a session that is no longer alive is not closed first. *)
EndsAlive == win.alive

(* The session there is, which opening another one ends: on Windows only   *)
(* one whose window the user has not closed.                               *)
EndsFirst == IF Linux THEN win.has \cap {"display", "window"} # {} ELSE win.alive \/ "window" \in win.has

Start == IF EndsFirst THEN Closed(BeforeClose) ELSE win
Around == IF EndsFirst THEN AfterClose(BeforeClose) ELSE world

(* How far opening gets.  Linux leaves the pixels without an image behind  *)
(* them, and forgets pixels left behind by an earlier call.                *)
LinuxStages == {"display", "window", "gc", "pixels", "image", "done"}
Reaches(stage) ==
  IF stage \in {"display", "window", "gc"} THEN Start.has
  ELSE IF stage = "image" THEN {"pixels"} ELSE {}
LinuxOpen(stage) ==
  /\ win' = IF stage = "done"
              THEN [Start EXCEPT !.has = Needed, !.alive = TRUE, !.color = White, !.keys = {}, !.hits = {}, !.picture = Blank]
              ELSE [(IF stage = "display" THEN Start ELSE Closed(Start)) EXCEPT !.has = Reaches(stage)]
  /\ world' = Around
  /\ past' = [past EXCEPT !.owed = NothingOwed, !.abandoned = @ \/ stage = "image",
                          !.leaked = IF stage \in {"pixels", "image", "done"}
                                       THEN @ + Cardinality(Start.has) ELSE @,
                          !.meant = Blank, !.covered = FALSE, !.disturbed = Around.pressed # {}]

(* Windows gives back what it has when it fails.  The console is hidden,   *)
(* and shown again by Close if it was visible.                             *)
WindowsOpen(done, font) ==
  /\ win' = IF done
              THEN [Start EXCEPT !.has = Needed \cup (IF font THEN {"font"} ELSE {}), !.alive = TRUE, !.keys = {}, !.hits = {},
                                 !.picture = Blank, !.saw = Around.console, !.hid = @ \/ Around.console]
              ELSE Start
  /\ world' = IF done THEN [NoEvents(Around) EXCEPT !.console = FALSE] ELSE Around
  /\ past' = [past EXCEPT !.owed = NothingOwed, !.abandoned = @ \/ (done /\ Start.has # {}),
                          !.leaked = IF done THEN @ + Cardinality(Start.has \cap Buffers) ELSE @,
                          !.meant = Blank, !.covered = FALSE, !.disturbed = Around.pressed # {}]

Open ==
  /\ spent.opens < MaxOpens /\ spent' = [spent EXCEPT !.opens = @ + 1] /\ Was("other", Blank)
  /\ \/ Linux /\ \E stage \in LinuxStages : LinuxOpen(stage)
     \/ ~Linux /\ \E done, font \in BOOLEAN : WindowsOpen(done, font)
  /\ UNCHANGED platform
-----------------------------------------------------------------------------
(* A call that needs the window: does nothing without one, pumps, and does *)
(* nothing if the user has closed it, except that the colour is set.  w    *)
(* and p: what else the call makes of what pumping makes of win and past.  *)
Owing == [past EXCEPT !.owed = Pumped.owed]
Pump(name, w, p) ==
  /\ IF name = "present" /\ win.alive /\ Pumped.win.alive THEN Was(name, Pumped.win.picture) ELSE Was("other", Blank)
  /\ UNCHANGED <<platform, spent>>
  /\ IF ~win.alive
       THEN win' = [win EXCEPT !.color = w.color] /\ UNCHANGED <<world, past>>
       ELSE /\ world' = NoEvents(world)
            /\ IF Pumped.win.alive
                 THEN win' = w /\ past' = p
                 ELSE win' = [Pumped.win EXCEPT !.color = w.color] /\ past' = [past EXCEPT !.owed = NothingOwed]

IsOpen == Pump("is open", Pumped.win, Owing)
SetColor(c) == Was("other", Blank) /\ win' = [win EXCEPT !.color = c] /\ UNCHANGED <<platform, world, past, spent>>

(* The cells of a rectangle, along one axis.                               *)
LinuxSpan(x, w) ==
  LET from == IF w < 0 THEN x + w ELSE x
      to == IF w < 0 THEN x ELSE x + w
  IN  {i \in Cells : (IF from < 0 THEN 0 ELSE from) <= i /\ i < (IF to > Width THEN Width ELSE to)}
WindowsSpan(x, w) ==
  LET from == IF w < 0 THEN x + w ELSE x
      size == IF w < 0 THEN -w ELSE w
  IN  IF size <= 0 THEN {}
      ELSE {i \in Cells : (IF from < 0 THEN 0 ELSE from) <= i /\ i < (IF from + size > Width THEN Width ELSE from + size)}
Span(x, w) == IF Linux THEN LinuxSpan(x, w) ELSE WindowsSpan(x, w)

Painted(ink, cells, c) == [x \in Cells |-> IF x \in cells THEN c ELSE ink[x]]

(* Mutant: the texts of the picture before stay. *)
ClearedInk(picture, c) == [picture EXCEPT !.ink = Painted(@, Cells, c)]

ClearedTo(picture, c) == [picture EXCEPT !.ink = Painted(@, Cells, c), !.texts = << >>]

(* Texts go into the picture on Windows; Linux keeps them, and draws them  *)
(* over the picture when it is presented.  A text is drawn over the first  *)
(* cell, and is gone when that is painted.                                 *)
Filled(picture, cells, c) ==
  [picture EXCEPT !.ink = Painted(@, cells, c), !.texts = IF ~Linux /\ 0 \in cells THEN << >> ELSE @]
Between(x, w) == {i \in Cells : (x <= i /\ i < x + w) \/ (x + w <= i /\ i < x)}
MeantFill(p, cells, c) ==
  [p EXCEPT !.meant = [ink |-> Painted(@.ink, cells, c), texts |-> IF 0 \in cells THEN << >> ELSE @.texts],
            !.covered = @ \/ (Linux /\ 0 \in cells /\ p.meant.texts # << >>)]

Clear(c) ==
  Pump("clear", [Pumped.win EXCEPT !.picture = ClearedTo(@, c)],
       [Owing EXCEPT !.meant = [ink |-> Painted(@.ink, Cells, c), texts |-> << >>], !.covered = FALSE])
Rect(c, x, w) ==
  Pump("rect", [Pumped.win EXCEPT !.color = c, !.picture = Filled(@, Span(x, w), c)],
       MeantFill(Owing, Between(x, w), c))
DrawText(c) ==
  /\ Len(win.picture.texts) < MaxTexts
  /\ Pump("text", [Pumped.win EXCEPT !.color = c, !.picture.texts = Append(@, c)],
          [Owing EXCEPT !.meant.texts = Append(@, c)])

(* aym_linux_store_text without memory. *)
TextLost(c) == Linux /\ Pump("text", [Pumped.win EXCEPT !.color = c], Owing)
Present == Pump("present", Pumped.win, Owing)

(* A hit is told once; otherwise whether the key is down, which Windows is *)
(* asked for besides.                                                      *)
Tells(w, c) == c \in w.hits \/ c \in w.keys \/ (~Linux /\ c \in world.pressed)
KeyDown(c) ==
  Pump("key", [Pumped.win EXCEPT !.hits = @ \ {c}],
       [Owing EXCEPT !.missed = IF Pumped.owed[c] = "none" \/ Tells(Pumped.win, c) THEN @
                                  ELSE @ \cup {Pumped.owed[c]},
                     !.owed[c] = "none"])

ProgramCalls ==
  \/ Open \/ Close \/ IsOpen \/ Present \/ \E c \in Codes : KeyDown(c)
  \/ \E c \in Colors : SetColor(c) \/ Clear(c) \/ DrawText(c) \/ TextLost(c)
  \/ \E c \in Colors, x \in {-1, 0, Width - 1}, w \in {-2, 0, 2} : Rect(c, x, w)
UserActs ==
  \/ \E k \in PhysicalKeys : UserPresses(k) \/ UserReleases(k) \/ UserHolds(k)
  \/ UserShifts \/ UserLeaves \/ UserCloses
GraphicsNext == ProgramCalls \/ UserActs

GraphicsSpec == GraphicsInit /\ [][GraphicsNext]_graphicsVars
-----------------------------------------------------------------------------
(* A press is told when the program next asks for the key, however short   *)
(* it was, as long as the window stays open and the focus is not lost in   *)
(* between: a loss of the focus drops the presses not asked for.  And once *)
(* all events are pumped the keys that count as down are those that are,   *)
(* unless shift or the focus has changed while one was.                    *)
KeysFollow ==
  /\ "made" \notin past.missed
  /\ win.alive /\ world.events = << >> /\ ~past.disturbed =>
       win.keys = {Code(k, world.shift) : k \in world.pressed}

(* A window that counts as open has all that drawing uses.  Closing gives  *)
(* everything back and shows the console again, whatever opening, failing, *)
(* closing by the user and opening again came before, except after a       *)
(* Windows window that the user closed was opened again without aym_gfx_   *)
(* close, and after an XCreateImage that failed.                           *)
LeftAsFound ==
  /\ win.alive => Needed \subseteq win.has
  /\ ~past.abandoned =>
       past.leaked = 0 /\ (last.call = "close" => win.has = {} /\ world.console)

(* What is presented is what was drawn since the canvas was cleared, in    *)
(* that order, except on Linux where a rectangle was to cover a text.      *)
ShowsWhatWasDrawn ==
  last.call = "present" /\ ~past.covered => last.shown = past.meant
=============================================================================
