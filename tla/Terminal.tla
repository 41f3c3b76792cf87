------------------------------ MODULE Terminal ------------------------------
(***************************************************************************)
(* The terminal as the runtime uses it on POSIX systems: the mode it sets  *)
(* and gives back, and tecla(), which reads keys byte by byte while the    *)
(* user types and the terminal sends their bytes.                          *)
(***************************************************************************)
EXTENDS Integers, Sequences, SequencesExt

CONSTANTS MaxTyped   \* bound: keys typed

VARIABLES
  isatty,            \* standard input is a terminal, not a pipe
  mode,              \* raw, and whether reads of it do not wait
  prepared, active,  \* aym_term_initialized, aym_termios_active
  life,              \* of the program: running, ended, killed
  sending, queue,    \* bytes of the key just typed yet to be sent; bytes to be read
  poll,              \* what the call of tecla at work has read
  typed, told,       \* history: keys typed, and what tecla has returned for them
  hasty              \* history: an escape sequence was not read as one

terminalVars == <<isatty, mode, prepared, active, life, sending, queue, poll, typed, told, hasty>>

(* Keys and their bytes; each remembers, as history, which key it is of.   *)
Bytes == [q |-> <<"q">>, escape |-> <<"ESC">>, up |-> <<"ESC", "[", "A">>, left |-> <<"ESC", "[", "D">>]
Sent(k, n) == [i \in DOMAIN Bytes[k] |-> [byte |-> Bytes[k][i], of |-> n]]
Nothing == [byte |-> "none", of |-> 0]

TerminalInit ==
  /\ isatty \in BOOLEAN /\ mode = [raw |-> FALSE, nonblocking |-> FALSE]
  /\ prepared = FALSE /\ active = FALSE /\ life = "running"
  /\ sending = << >> /\ queue = << >> /\ poll = << >> /\ typed = << >> /\ told = << >> /\ hasty = FALSE

(* A key is typed when the bytes of the one before have been sent.         *)
UserTypes(k) ==
  /\ sending = << >> /\ Len(typed) < MaxTyped
  /\ sending' = Sent(k, Len(typed) + 1) /\ typed' = Append(typed, k)
  /\ UNCHANGED <<isatty, mode, prepared, active, life, queue, poll, told, hasty>>
Send ==
  /\ sending # << >>
  /\ queue' = Append(queue, Head(sending)) /\ sending' = Tail(sending)
  /\ UNCHANGED <<isatty, mode, prepared, active, life, poll, typed, told, hasty>>
-----------------------------------------------------------------------------
(* aym_term_init, the first time a call needs it: either system call may   *)
(* fail.  What it registers with atexit runs when the program ends.        *)
Prepare(raw, nonblocking) ==
  /\ mode' = [raw |-> isatty /\ raw, nonblocking |-> isatty /\ nonblocking]
  /\ active' = (isatty /\ raw) /\ prepared' = TRUE
Prepared ==
  IF prepared THEN UNCHANGED <<mode, active, prepared>>
  ELSE \E raw, nonblocking \in BOOLEAN : Prepare(raw, nonblocking)

(* clear, move, color, reset and cursor: they write a sequence. *)
Draw ==
  /\ life = "running" /\ poll = << >> /\ Prepared
  /\ UNCHANGED <<isatty, life, sending, queue, poll, typed, told, hasty>>

(* Mutant: the mode is given back only if there is nothing left to read. *)
RestoresWhenRead == active /\ queue = << >>

(* aym_term_restore: reads still do not wait afterwards.                   *)
Restores == active
ProgramEnds ==
  /\ life = "running" /\ poll = << >> /\ life' = "ended"
  /\ mode' = IF Restores THEN [mode EXCEPT !.raw = FALSE] ELSE mode
  /\ active' = (active /\ ~Restores)
  /\ UNCHANGED <<isatty, prepared, sending, queue, poll, typed, told, hasty>>
Killed ==
  /\ life = "running" /\ life' = "killed"
  /\ UNCHANGED <<isatty, mode, prepared, active, sending, queue, poll, typed, told, hasty>>
-----------------------------------------------------------------------------
(* A read finds a byte, or nothing: where it does not wait (VMIN = VTIME = *)
(* 0 is one way, O_NONBLOCK another), or at the end of a pipe.             *)
EndOfPipe == ~isatty /\ sending = << >> /\ Len(typed) = MaxTyped
MayRead == queue # << >> \/ mode'.raw \/ mode'.nonblocking \/ EndOfPipe
Found == IF queue = << >> THEN Nothing ELSE Head(queue)

ArrowOf == [A |-> "up", D |-> "left"]
Decode(reads) ==
  IF reads[1].byte # "ESC" THEN reads[1].byte
  ELSE IF reads[2].byte = "[" /\ reads[3].byte \in DOMAIN ArrowOf THEN ArrowOf[reads[3].byte]
  ELSE "escape"

(* aym_key_poll: one read, and two more after an escape byte.              *)
ReadsNeeded(reads) == IF reads[1].byte = "ESC" THEN 3 ELSE 1
OneKey(reads) ==
  Len(reads) = 3 =>
    \A i \in 2..3 : IF typed[reads[1].of] = "escape" THEN reads[i] = Nothing ELSE reads[i].of = reads[1].of
Returns(reads) ==
  /\ poll' = << >> /\ hasty' = (hasty \/ ~OneKey(reads))
  /\ told' = IF reads[1] = Nothing THEN told ELSE Append(told, Decode(reads))

Read ==
  /\ life = "running" /\ Prepared /\ MayRead
  /\ LET reads == Append(poll, Found)
     IN  IF Len(reads) = ReadsNeeded(reads) THEN Returns(reads)
         ELSE poll' = reads /\ UNCHANGED <<told, hasty>>
  /\ queue' = IF queue = << >> THEN queue ELSE Tail(queue)
  /\ UNCHANGED <<isatty, life, sending, typed>>

TerminalNext ==
  \/ \E k \in DOMAIN Bytes : UserTypes(k)
  \/ Send \/ Draw \/ ProgramEnds \/ Killed \/ Read

TerminalSpec == TerminalInit /\ [][TerminalNext]_terminalVars
-----------------------------------------------------------------------------
(* A program that ends by itself leaves the terminal in line mode, whatever *)
(* it was reading; and tecla tells each key typed, once and in order, as   *)
(* long as every escape sequence was there as a whole when its first byte  *)
(* was read and no other key had arrived behind a lone escape.             *)
TerminalKept ==
  /\ life = "ended" => ~mode.raw
  /\ ~hasty =>
       /\ IsPrefix(told, typed)
       /\ sending = << >> /\ queue = << >> /\ poll = << >> => told = typed
=============================================================================
