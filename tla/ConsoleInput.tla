---------------------------- MODULE ConsoleInput ----------------------------
(***************************************************************************)
(* The input side of the shared console (console.c): typed characters go to *)
(* the ring buffer of one VM, chosen with the escape character; a guest's   *)
(* emulated UART hands them out and its receive IRQ says when to ask.       *)
(***************************************************************************)
EXTENDS Integers, Sequences

CONSTANTS
  Vms,        \* 0 for the root, and the guests (vm_list not zero)
  MaxThread,  \* MAX_NUM_THREAD, the last place of vm_list
  Size,       \* MAX_INPUT_BUFFER_SIZE
  Chars,      \* what is typed, CONSOLE_ESC apart
  Esc,        \* CONSOLE_ESC
  Number,     \* the number of a character after an escape: value - '0'
  Careless,   \* VMs that read UxRXREG without looking at UxSTA first
  NoChar

ASSUME ConsoleAssumption ==
  /\ 0 \in Vms /\ Vms \subseteq 0 .. MaxThread
  /\ MaxThread \in Nat
  /\ Size \in Nat /\ Size > 1
  /\ Esc \notin Chars
  /\ Number \in [Chars -> Nat]
  /\ Careless \subseteq Vms \ {0}

VARIABLES
  console_buffer, console_buffer_start, console_buffer_end,
  console_rx_vmid,   \* the VM typed characters go to
  console_esc,       \* an escape was typed
  rx_flag,           \* guests with console_irq_rx set in their virtual IFS
  bell,              \* the last character typed was answered with a bell
  got,               \* history: the last character each VM read
  typed              \* history: the parity of the number of characters typed

vars == <<console_buffer, console_buffer_start, console_buffer_end,
          console_rx_vmid, console_esc, rx_flag, bell, got, typed>>

Init ==
  /\ console_buffer = [v \in Vms |-> [i \in 0 .. Size - 1 |-> NoChar]]
  /\ console_buffer_start = [v \in Vms |-> 0]
  /\ console_buffer_end = [v \in Vms |-> 0]
  /\ console_rx_vmid = 0
  /\ console_esc = FALSE
  /\ rx_flag = {}
  /\ got = [v \in Vms |-> NoChar]
  /\ bell = FALSE /\ typed = 0

\* Fault: the end of the ring is not looked for.
AfterNoWrap(p) == p + 1

\* The position after p.
After(p) == IF p + 1 >= Size THEN 0 ELSE p + 1

\* Fault: the writer fills the last place too.
FullNever(v) == FALSE

Full(v) == console_buffer_start[v] = After(console_buffer_end[v])

console_has_next_char(v) == console_buffer_start[v] # console_buffer_end[v]

\* console_input_char: a character that does not fit is dropped, with a bell.
console_input_char(c) ==
  LET v == console_rx_vmid IN
  /\ bell' = Full(v)
  /\ IF Full(v)
     THEN UNCHANGED <<console_buffer, console_buffer_end>>
     ELSE /\ console_buffer' = [console_buffer EXCEPT ![v][console_buffer_end[v]] = c]
          /\ console_buffer_end' = [console_buffer_end EXCEPT ![v] = After(@)]

\* console_next_char.  The reader's index is stored once, wrapped: what the build
\* (-O2) makes of the increment and the assignment after it.
Read(v) ==
  /\ got' = [got EXCEPT ![v] = console_buffer[v][console_buffer_start[v]]]
  /\ console_buffer_start' = [console_buffer_start EXCEPT ![v] = After(@)]

-----------------------------------------------------------------------------
(* console_rx, called from the receive interrupt *)

TypeEsc ==
  /\ ~console_esc
  /\ console_esc' = TRUE
  /\ UNCHANGED <<console_buffer, console_buffer_start, console_buffer_end,
                 console_rx_vmid, rx_flag, bell, got, typed>>

\* The character after an escape: vm_list is looked up for it, beyond its end
\* too, where the memory may hold anything.
Selected(c) ==
  IF Number[c] \in 0 .. MaxThread
  THEN {IF Number[c] \in Vms THEN Number[c] ELSE console_rx_vmid}
  ELSE {Number[c], console_rx_vmid}

TypeNumber(c) ==
  /\ console_esc
  /\ console_esc' = FALSE
  /\ console_rx_vmid' \in Selected(c)
  /\ UNCHANGED <<console_buffer, console_buffer_start, console_buffer_end, rx_flag,
                 bell, got, typed>>

\* Any other character; the receive IRQ follows even when it was dropped.
Type(c) ==
  /\ ~console_esc
  /\ console_rx_vmid \in Vms
  /\ console_input_char(c)
  /\ rx_flag' = rx_flag \cup ({console_rx_vmid} \ {0})
  /\ typed' = 1 - typed
  /\ UNCHANGED <<console_buffer_start, console_rx_vmid, console_esc, got>>

-----------------------------------------------------------------------------
(* Readers *)

\* A load from UxRXREG, or main.c taking a command.
ReadChar(v) ==
  /\ v \in Careless \/ console_has_next_char(v)
  /\ Read(v)
  /\ UNCHANGED <<console_buffer, console_buffer_end, console_rx_vmid, console_esc, rx_flag,
                 bell, typed>>

\* The guest acknowledges the receive IRQ: a store to IFSxCLR.
Acknowledge(v) ==
  /\ v \in rx_flag
  /\ rx_flag' = rx_flag \ {v}
  /\ UNCHANGED <<console_buffer, console_buffer_start, console_buffer_end,
                 console_rx_vmid, console_esc, bell, got, typed>>

Next ==
  \/ TypeEsc
  \/ \E c \in Chars : TypeNumber(c) \/ Type(c)
  \/ \E v \in Vms : ReadChar(v) \/ Acknowledge(v)

Spec == Init /\ [][Next]_vars

-----------------------------------------------------------------------------
TypeOK ==
  /\ console_buffer \in [Vms -> [0 .. Size - 1 -> Chars \cup {NoChar}]]
  /\ console_buffer_start \in [Vms -> 0 .. Size - 1]
  /\ console_buffer_end \in [Vms -> 0 .. Size - 1]
  /\ console_rx_vmid \in Nat
  /\ console_esc \in BOOLEAN
  /\ rx_flag \subseteq Vms
  /\ bell \in BOOLEAN /\ typed \in 0 .. 1
  /\ got \in [Vms -> Chars \cup {NoChar}]

\* In a ring, how far e is ahead of s, and the i-th place from s on.
Distance(s, e) == IF e >= s THEN e - s ELSE e + Size - s
Place(s, i) == IF s + i - 1 >= Size THEN s + i - 1 - Size ELSE s + i - 1

\* What the ring of v holds, oldest first.
Count(v) == Distance(console_buffer_start[v], console_buffer_end[v])

Content(v) ==
  [i \in 1 .. Count(v) |-> console_buffer[v][Place(console_buffer_start[v], i)]]

Queues == INSTANCE InputQueues WITH
  Capacity <- Size - 1,
  queue <- [v \in Vms |-> Content(v)],
  target <- console_rx_vmid

(* Each VM reads the characters typed for it, each once and in order, and    *)
(* only characters typed while its ring was full are lost, with a bell        *)
(* (console_input_char and console_next_char implement a bounded queue).     *)
IsQueue == Queues!Spec

(* Typed characters always go to a VM that exists: a "number can switch       *)
(* input from one guest to another. Number indicates a new guest VM"         *)
(* (console.c:194-195).  console_rx takes the distance of any character from  *)
(* '0' for one, since its bound is tested with || (line 208).                 *)
InputGoesToVm == console_rx_vmid \in Vms

(* While input for a guest is available the console has its receive IRQ     *)
(* requested.                                                               *)
InputAsks ==
  \A v \in Vms \ {0} : console_has_next_char(v) => v \in rx_flag

=============================================================================
