----------------------------- MODULE SerialFifo -----------------------------
(***************************************************************************)
(* What the serial lock promises (header of worker/src/serial-wait-lock.ts *)
(* and the comments of rotina-consumer.ts): the executions of a serial     *)
(* routine form one line; a newcomer joins at the tail, only the head is   *)
(* served, and the head keeps its place - retries included - until it is   *)
(* done.  Nobody is overtaken, nobody is in the line twice.                *)
(***************************************************************************)
EXTENDS Integers, Sequences

CONSTANTS Exe

VARIABLES
  line  \* the execution being served, then those that wait

InLine(e) == \E i \in DOMAIN line : line[i] = e

FifoInit == line = <<>>

Join(e) == ~InLine(e) /\ line' = Append(line, e)

Leave == line # <<>> /\ line' = Tail(line)

FifoNext == (\E e \in Exe : Join(e)) \/ Leave

FifoSpec == FifoInit /\ [][FifoNext]_line
=============================================================================
