------------------------------- MODULE Terminal ------------------------------
(***************************************************************************)
(* demo/src/terminal.rs and src/src/serial.rs: the terminal as the VM's    *)
(* serial port.  A guard catches the signals and owns a thread that stops  *)
(* the VM at the first notice, a byte on a socket pair that a signal or    *)
(* Ctrl-] writes.  Module Demo composes this with the VM.                  *)
(***************************************************************************)
EXTENDS Naturals, Sequences, SequencesExt

CONSTANTS
  FifoSize,  \* bytes of input the UART holds
  Keys       \* bound on what is typed

ASSUME TerminalAssumption == FifoSize \in Nat \ {0} /\ Keys \in Nat

VARIABLES
  terminal,     \* the mode and flags of stdin: its Own, or Raw and nonblocking
  signals,      \* what SIGINT, SIGTERM and SIGHUP do
  input, fifo,  \* typed and not yet read; bytes in the UART
  term,         \* the stop thread
  byte,         \* a notice is in the socket pair
  closing       \* TerminalGuard::closing, and the end of the stream

tty   == <<terminal, signals>>
guard == <<term, byte, closing>>
terminalVars == <<tty, input, fifo, guard>>

TerminalTypeOK ==
  /\ terminal \in {"Own", "Raw"} /\ signals \in {"Default", "Caught", "Ignored"}
  /\ input \in Seq({"key", "escape"}) /\ fifo \in 0..FifoSize
  /\ term \in {"None", "Read", "Check", "Stop", "Wait", "Done"}
  /\ byte \in BOOLEAN /\ closing \in BOOLEAN

TerminalInit ==
  /\ terminal = "Own" /\ signals = "Default" /\ input = <<>> /\ fifo = 0
  /\ term = "None" /\ byte = FALSE /\ closing = FALSE

(***************************************************************************)
(* Construction, on the thread that will run the VM.                       *)
(***************************************************************************)
\* TerminalGuard::new, and what its failure leaves: a handler once registered
\* stays, without an effect.
Guard ==
  signals' = "Caught" /\ UNCHANGED <<terminal, input, fifo, guard>>
GuardFails ==
  signals' \in {"Default", "Ignored"} /\ UNCHANGED <<terminal, input, fifo, guard>>

\* Terminal::new.  On an error it restores the terminal and drops the guard.
Raw ==
  terminal' = "Raw" /\ UNCHANGED <<signals, input, fifo, guard>>
RawFails ==
  signals' = "Ignored" /\ closing' = TRUE /\ UNCHANGED <<terminal, input, fifo, term, byte>>

\* TerminalGuard::bind.
bind == term' = "Read" /\ UNCHANGED <<tty, input, fifo, byte, closing>>

(***************************************************************************)
(* The stop thread.  StopVm and StopReturns are its call of VmControl.     *)
(***************************************************************************)
\* MUTANT: the guard does not shut its end down.
EndOfStream_Missing == FALSE
EndOfStream == closing

ReadNotice ==
  /\ term = "Read"
  /\ \/ byte /\ byte' = FALSE /\ term' = "Check"
     \/ ~byte /\ EndOfStream /\ term' = "Done" /\ UNCHANGED byte
  /\ UNCHANGED <<tty, input, fifo, closing>>

CheckClosing ==
  /\ term = "Check"
  /\ term' = IF closing THEN "Done" ELSE "Stop"
  /\ UNCHANGED <<tty, input, fifo, byte, closing>>

StopVm == term = "Stop" /\ term' = "Wait" /\ UNCHANGED <<tty, input, fifo, byte, closing>>
StopReturns == term = "Wait" /\ term' = "Done" /\ UNCHANGED <<tty, input, fifo, byte, closing>>

\* The reader is there, or will be: a notice is kept until bind.
Notify == byte' = (byte \/ term \in {"None", "Read"})

(***************************************************************************)
(* Input.                                                                  *)
(***************************************************************************)
\* MUTANT: the escape is passed to nobody.
Escaped_Lost(taken) == FALSE
Escaped(taken) == Contains(taken, "escape")

\* MUTANT: one byte more is read than the UART has room for.
Room_OneMore == FifoSize - fifo + 1
Room == FifoSize - fifo

\* poll_input and Terminal::recv: what there is room for, up to an escape.
PollInput ==
  /\ fifo < FifoSize /\ input # <<>>
  /\ LET taken == SubSeq(input, 1, IF Room < Len(input) THEN Room ELSE Len(input))
         place == SelectInSeq(taken, LAMBDA key : key = "escape")
     IN  /\ input' = SubSeq(input, Len(taken) + 1, Len(input))
         /\ fifo' = fifo + (IF place = 0 THEN Len(taken) ELSE place - 1)
         /\ IF Escaped(taken) THEN Notify ELSE UNCHANGED byte
  /\ UNCHANGED <<tty, term, closing>>

GuestReads == fifo > 0 /\ fifo' = fifo - 1 /\ UNCHANGED <<tty, input, guard>>

Type(key) ==
  /\ terminal = "Raw" /\ fifo + Len(input) < Keys
  /\ input' = Append(input, key)
  /\ UNCHANGED <<tty, fifo, guard>>

\* External: signal-hook writes a byte; what it has let go does nothing.
SignalCaught == signals = "Caught" /\ ~byte /\ Notify /\ UNCHANGED <<tty, input, fifo, term, closing>>

(***************************************************************************)
(* The ends of both.                                                       *)
(***************************************************************************)
\* MUTANT: dropping the terminal leaves it raw.
RestoredMode_Raw == terminal
RestoredMode == "Own"

DropTerminal == terminal' = RestoredMode /\ UNCHANGED <<signals, input, fifo, guard>>

DropGuard == signals' = "Ignored" /\ closing' = TRUE /\ UNCHANGED <<terminal, input, fifo, term, byte>>
=============================================================================
