-------------------------------- MODULE LogRing --------------------------------
(***************************************************************************)
(* The log (log.c) and the transmit side of the root UART (uart.c): printf  *)
(* puts text into a ring and starts the UART; the transmit IRQ goes on as   *)
(* the FIFO becomes empty; urgent lines are written directly.               *)
(*                                                                         *)
(* All of this code runs with interrupts off, so that one caller at a time  *)
(* is in it; the UART goes on sending under it.                             *)
(***************************************************************************)
EXTENDS Integers, Sequences, SequencesExt

CONSTANTS
  Size,          \* LOGBUFFER_SIZE
  Depth,         \* characters in the transmit FIFO
  Lines,         \* what is printed in one call, a guest's UxTXREG store included
  Direct,        \* what uart_writeline is called with
  LineFeed, Return,
  NoChar

Chars == UNION {Range(l) : l \in Lines}

ASSUME LogAssumption ==
  /\ Size \in Nat /\ Size > 1
  /\ Depth \in Nat \ {0}
  /\ \A l \in Lines : l \in Seq(Range(l)) /\ Len(l) < Size   \* PRINTF_SIZE
  /\ \A l \in Direct : l \in Seq(Range(l))
  /\ LineFeed # Return

VARIABLES
  buffer, buffer_pos, buffer_current_pos,
  fifo,       \* the UART's transmit FIFO
  code,       \* who runs: "away", "log" (uart_sendlog), "line" (uart_writeline)
  rest,       \* characters uart_writechar waits to write for it
  tx_ifs,     \* the transmit IRQ is flagged in the real controller
  tx_iec,     \* and enabled there
  wire, sent, given, turn   \* history, as in Transcript

ring    == <<buffer, buffer_pos>>
irq     == <<tx_ifs, tx_iec>>
history == <<wire, sent, given, turn>>
vars == <<ring, buffer_current_pos, fifo, code, rest, irq, history>>

Init ==
  /\ buffer = [p \in 0 .. Size - 1 |-> NoChar]
  /\ buffer_pos = 0 /\ buffer_current_pos = 0
  /\ fifo = <<>>
  /\ code = "away" /\ rest = <<>>
  /\ tx_ifs = FALSE /\ tx_iec = FALSE
  /\ wire = NoChar /\ sent = 0
  /\ given = <<>> /\ turn = 0

\* In the ring, how far e is ahead of s, and the i-th place from s on.
Distance(s, e) == IF e >= s THEN e - s ELSE e + Size - s
Place(s, i) == IF s + i - 1 >= Size THEN s + i - 1 - Size ELSE s + i - 1

\* Fault: the end of the ring is not looked for.
AfterNoWrap(p) == p + 1

After(p) == IF p + 1 >= Size THEN 0 ELSE p + 1

Empty == buffer_current_pos = buffer_pos   \* log_char returns NULL
Full  == Len(fifo) = Depth                 \* UTXBF

Given(l) == given' = l /\ turn' = 1 - turn /\ UNCHANGED <<wire, sent>>

\* _log_output, up to uart_start_console: nothing looks for the reader.
Log(l) ==
  /\ code = "away"
  /\ buffer' = [p \in 0 .. Size - 1 |->
                  IF Distance(buffer_pos, p) < Len(l)
                  THEN l[Distance(buffer_pos, p) + 1] ELSE buffer[p]]
  /\ buffer_pos' = Place(buffer_pos, Len(l) + 1)
  /\ code' = "log"
  /\ Given(l)
  /\ UNCHANGED <<buffer_current_pos, fifo, rest, irq>>

\* uart_start_console called by main.c, without new text.
Start ==
  /\ code = "away" /\ code' = "log"
  /\ UNCHANGED <<ring, buffer_current_pos, fifo, rest, irq, history>>

\* uart_tx_irq: mask, acknowledge, and send what there is.
TxIrq ==
  /\ code = "away" /\ tx_ifs /\ tx_iec
  /\ tx_ifs' = FALSE /\ tx_iec' = FALSE
  /\ code' = "log"
  /\ UNCHANGED <<ring, buffer_current_pos, fifo, rest, history>>

\* uart_sendlog, one character that the FIFO has room for.
SendChar ==
  LET c == buffer[buffer_current_pos] IN
  /\ code = "log" /\ rest = <<>> /\ ~Empty /\ ~Full
  /\ fifo' = Append(fifo, c)
  /\ IF c = LineFeed
     THEN rest' = <<Return>> /\ UNCHANGED buffer_current_pos
     ELSE buffer_current_pos' = After(buffer_current_pos) /\ UNCHANGED rest
  /\ UNCHANGED <<ring, code, irq, history>>

\* Fault: the character that found no room is passed over.
BreakOffPassing == buffer_current_pos' = After(buffer_current_pos)

\* log_nextchar is not reached when the FIFO is full.
BreakOff == UNCHANGED buffer_current_pos

\* Fault: the caller of uart_sendlog leaves the transmit IRQ masked.
LeftMasked == UNCHANGED tx_iec

\* uart_start_console and uart_tx_irq enable the IRQ when text is left.
Left == tx_iec' = TRUE

\* The end of uart_sendlog and of its caller.
StopSending ==
  /\ code = "log" /\ rest = <<>>
  /\ \/ Empty /\ UNCHANGED <<buffer_current_pos, tx_iec>>
     \/ ~Empty /\ Full /\ BreakOff /\ Left
  /\ code' = "away"
  /\ UNCHANGED <<ring, fifo, rest, tx_ifs, history>>

\* uart_writechar: waits until the FIFO has room.
WriteChar ==
  /\ rest # <<>> /\ ~Full
  /\ fifo' = Append(fifo, Head(rest))
  /\ rest' = Tail(rest)
  /\ IF code = "log"
     THEN buffer_current_pos' = After(buffer_current_pos) /\ UNCHANGED code
     ELSE code' = (IF Len(rest) = 1 THEN "away" ELSE code) /\ UNCHANGED buffer_current_pos
  /\ UNCHANGED <<ring, irq, history>>

\* uart_writeline: the whole line, each line feed with a return behind it.
Written(l) ==
  FlattenSeq([i \in DOMAIN l |-> IF l[i] = LineFeed THEN <<LineFeed, Return>> ELSE <<l[i]>>])

WriteLine(l) ==
  /\ code = "away" /\ l # <<>>
  /\ code' = "line" /\ rest' = Written(l)
  /\ Given(l)
  /\ UNCHANGED <<ring, buffer_current_pos, fifo, irq>>

-----------------------------------------------------------------------------
(* The UART: its IRQ is flagged when the FIFO becomes empty (TXMODE_TXBEMPTY) *)
(* and may be flagged again while it is empty.                                *)

Shift ==
  /\ fifo # <<>>
  /\ wire' = Head(fifo) /\ sent' = 1 - sent
  /\ fifo' = Tail(fifo)
  /\ tx_ifs' = (tx_ifs \/ Tail(fifo) = <<>>)
  /\ UNCHANGED <<ring, buffer_current_pos, code, rest, tx_iec, given, turn>>

Flag ==
  /\ fifo = <<>> /\ ~tx_ifs /\ tx_ifs' = TRUE
  /\ UNCHANGED <<ring, buffer_current_pos, fifo, code, rest, tx_iec, history>>

Next ==
  \/ \E l \in Lines : Log(l)
  \/ \E l \in Direct : WriteLine(l)
  \/ Start \/ TxIrq
  \/ SendChar \/ StopSending \/ WriteChar
  \/ Shift \/ Flag

Spec == Init /\ [][Next]_vars

\* The code that runs goes on, the UART sends, a requested IRQ is served.
FairSpec ==
  /\ Spec
  /\ WF_vars(SendChar \/ StopSending \/ WriteChar)
  /\ WF_vars(Shift)
  /\ WF_vars(TxIrq)

-----------------------------------------------------------------------------
TypeOK ==
  /\ buffer \in [0 .. Size - 1 -> Chars \cup {NoChar}]
  /\ buffer_pos \in 0 .. Size - 1 /\ buffer_current_pos \in 0 .. Size - 1
  /\ Len(fifo) <= Depth
  /\ code \in {"away", "log", "line"} /\ (code = "away" => rest = <<>>)
  /\ tx_ifs \in BOOLEAN /\ tx_iec \in BOOLEAN
  /\ sent \in 0 .. 1 /\ turn \in 0 .. 1

\* What the ring holds, oldest first, and without the character in the FIFO
\* whose return is still to be written.
Content ==
  [i \in 1 .. Distance(buffer_current_pos, buffer_pos) |-> buffer[Place(buffer_current_pos, i)]]

Text == IF code = "log" /\ rest # <<>> THEN Tail(Content) ELSE Content

Transcripts == INSTANCE Transcript WITH
  Room <- Size - 1,
  text <- Text,
  ahead <- fifo \o rest

(* What is printed leaves the UART once, complete and in order, whichever of *)
(* printf, the transmit IRQ and the busy waits for returns moves it on; an   *)
(* overrun of the ring, for which nobody looks, costs the oldest text only.  *)
IsTranscript == Transcripts!Spec

(* Text in the ring does not stay there: the UART goes on sending, because   *)
(* whoever stops with text left leaves the transmit IRQ enabled, and the IRQ *)
(* was not acknowledged away.                                                *)
TextGoesOut ==
  \A b \in {0, 1} : (~Empty /\ sent = b) ~> (Empty \/ sent # b)

=============================================================================
