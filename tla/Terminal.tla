------------------------------ MODULE Terminal ------------------------------
(***************************************************************************)
(* kernel/tty.c and the part of kernel/kprint.c that has state: the cursor *)
(* of the screen, the count of messages and the buffer in which convert    *)
(* writes a number.  kprint's lock is commented out, so the messages of    *)
(* several printers (processors, and the handlers that interrupt them)     *)
(* interleave.  A step is a load or a store of a shared variable, as the   *)
(* compiler emits them without optimisation: ++terminal_row == VGA_HEIGHT  *)
(* loads, stores and loads again.                                          *)
(***************************************************************************)
EXTENDS Integers

CONSTANTS
    Printers,
    VGA_WIDTH, VGA_HEIGHT,
    Messages            \* bound: the messages printed

ASSUME TerminalAssumption == {VGA_WIDTH, VGA_HEIGHT, Messages} \subseteq Nat \ {0}

VARIABLES
    terminal_row, terminal_column,
    log_count, buff,
    printed,            \* the messages started
    at,                 \* where each printer is: what it prints, and the next step
    reg,                \* the register it counts in
    number,             \* the number it printed last
    garbled,            \* something was written off the screen, or a wrong number
    overlapped          \* two printers were printing at once

screenVars == <<terminal_row, terminal_column, log_count, buff, printed, at, reg, number,
                garbled, overlapped>>

Out == <<"out", "out">>

TerminalInit ==
    /\ terminal_row = 0 /\ terminal_column = 0
    /\ log_count = 0 /\ buff = 0 /\ printed = 0
    /\ at = [p \in Printers |-> Out]
    /\ reg = [p \in Printers |-> 0]
    /\ number = [p \in Printers |-> 0]
    /\ garbled = FALSE /\ overlapped = FALSE

Quiet == \A p \in Printers : at[p] = Out

Go(p, from, to) == at[p] = from /\ at' = [at EXCEPT ![p] = to]
Load(p, x) == reg' = [reg EXCEPT ![p] = x]

-----------------------------------------------------------------------------
(* kprint: the number of the message, its text of one character, a newline. *)

\* convert(log_count, 10), which fills the buffer in one step here; %d and %x, which use it
\* too, are not told apart from text.
kprint(p) ==
    /\ printed < Messages
    /\ printed' = printed + 1
    /\ Go(p, Out, <<"number", "column">>)
    /\ buff' = log_count
    /\ number' = [number EXCEPT ![p] = log_count]
    /\ overlapped' = (overlapped \/ ~Quiet)
    /\ UNCHANGED <<terminal_row, terminal_column, log_count, reg, garbled>>

\* log_count++
load_log_count(p) ==
    /\ Go(p, <<"number", "done">>, <<"number", "count">>)
    /\ Load(p, log_count)
    /\ UNCHANGED <<printed, terminal_row, terminal_column, log_count, buff, number, garbled>>
    /\ UNCHANGED overlapped

store_log_count(p) ==
    /\ Go(p, <<"number", "count">>, <<"text", "column">>)
    /\ log_count' = reg[p] + 1
    /\ UNCHANGED <<printed, terminal_row, terminal_column, buff, reg, number, garbled, overlapped>>

-----------------------------------------------------------------------------
(* term_putchar *)

newline(p) ==
    /\ Go(p, <<"text", "done">>, <<"newline", "row">>)
    /\ terminal_column' = 0
    /\ UNCHANGED <<printed, terminal_row, log_count, buff, reg, number, garbled, overlapped>>

load_column(p, what) ==
    /\ Go(p, <<what, "column">>, <<what, "store_column">>)
    /\ Load(p, terminal_column)
    /\ UNCHANGED <<printed, terminal_row, terminal_column, log_count, buff, number, garbled>>
    /\ UNCHANGED overlapped

store_column(p, what) ==
    /\ Go(p, <<what, "store_column">>, <<what, "test_column">>)
    /\ terminal_column' = reg[p] + 1
    /\ UNCHANGED <<printed, terminal_row, log_count, buff, reg, number, garbled, overlapped>>

test_column(p, what) ==
    /\ \/ /\ terminal_column = VGA_WIDTH
          /\ Go(p, <<what, "test_column">>, <<what, "row">>)
          /\ terminal_column' = 0
       \/ /\ terminal_column # VGA_WIDTH
          /\ Go(p, <<what, "test_column">>, <<what, "put">>)
          /\ UNCHANGED terminal_column
    /\ UNCHANGED <<printed, terminal_row, log_count, buff, reg, number, garbled, overlapped>>

load_row(p, what) ==
    /\ Go(p, <<what, "row">>, <<what, "store_row">>)
    /\ Load(p, terminal_row)
    /\ UNCHANGED <<printed, terminal_row, terminal_column, log_count, buff, number, garbled>>
    /\ UNCHANGED overlapped

store_row(p, what) ==
    /\ Go(p, <<what, "store_row">>, <<what, "test_row">>)
    /\ terminal_row' = reg[p] + 1
    /\ UNCHANGED <<printed, terminal_column, log_count, buff, reg, number, garbled, overlapped>>

AfterRow(what) == IF what = "newline" THEN Out ELSE <<what, "put">>

\* Faulty form: the screen is taken to have a row more.
test_row_Late(p, what) ==
    /\ Go(p, <<what, "test_row">>, AfterRow(what))
    /\ terminal_row' = IF terminal_row > VGA_HEIGHT THEN VGA_HEIGHT - 1 ELSE terminal_row
    /\ UNCHANGED <<printed, terminal_column, log_count, buff, reg, number, garbled, overlapped>>

\* move_entries_up moves the text, not the cursor.
test_row(p, what) ==
    /\ Go(p, <<what, "test_row">>, AfterRow(what))
    /\ terminal_row' = IF terminal_row = VGA_HEIGHT THEN VGA_HEIGHT - 1 ELSE terminal_row
    /\ UNCHANGED <<printed, terminal_column, log_count, buff, reg, number, garbled, overlapped>>

\* term_putentryat; the character of a number comes from buff
term_putentryat(p, what) ==
    /\ Go(p, <<what, "put">>, <<what, "done">>)
    /\ garbled' = \/ garbled
                  \/ terminal_row * VGA_WIDTH + terminal_column >= VGA_WIDTH * VGA_HEIGHT
                  \/ what = "number" /\ buff # number[p]
    /\ UNCHANGED <<printed, terminal_row, terminal_column, log_count, buff, reg, number, overlapped>>

term_putchar(p, what) ==
    \/ load_column(p, what) \/ store_column(p, what) \/ test_column(p, what)
    \/ load_row(p, what) \/ store_row(p, what) \/ test_row(p, what)
    \/ term_putentryat(p, what)

TerminalNext ==
    \E p \in Printers :
        \/ kprint(p) \/ load_log_count(p) \/ store_log_count(p)
        \/ newline(p)
        \/ \E what \in {"number", "text", "newline"} : term_putchar(p, what)

TerminalSpec == TerminalInit /\ [][TerminalNext]_screenVars

-----------------------------------------------------------------------------
\* Without kprint's lock, two printers can lose the end of the screen (the test of
\* terminal_row is for equality) or print each other's numbers; nothing else leads
\* there: as long as no two printed at once, the cursor is on the screen between
\* messages, every character was written to the screen, and every message has the number
\* that log_count had.
GarbledOnlyAfterOverlap ==
    \/ overlapped
    \/ /\ ~garbled
       /\ Quiet => terminal_row < VGA_HEIGHT /\ terminal_column < VGA_WIDTH
=============================================================================
