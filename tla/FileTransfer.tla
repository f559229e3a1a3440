---------------------------- MODULE FileTransfer ----------------------------
(***************************************************************************)
(* What the two programs promise together, with no packet, window or       *)
(* sequence number: the pieces of a file are taken in order by one side    *)
(* and stored in order by the other; the sender reports success only when  *)
(* every piece is stored; the receiver reports the end of the file only    *)
(* after all of it; either side may give up.                               *)
(***************************************************************************)
EXTENDS Integers, Sequences

CONSTANT FileLength  \* pieces of the file; piece FileLength is its end

VARIABLES taken,  \* pieces read from the input file
          file,   \* what was stored: pieces, numbered from 0
          snd,    \* "run", "done" or "error"
          rcv     \* "run", "eof" or "ended"

vars == <<taken, file, snd, rcv>>

Init == taken = 0 /\ file = <<>> /\ snd = "run" /\ rcv = "run"

(* The sender reads one more piece.                                        *)
Take ==
  /\ snd = "run"
  /\ taken < FileLength
  /\ taken' = taken + 1
  /\ UNCHANGED <<file, snd, rcv>>

(* The receiver stores one or more of the next pieces that were taken.     *)
Store ==
  /\ rcv = "run"
  /\ \E n \in Len(file) + 1 .. taken :
       file' = [i \in 1 .. n |-> i - 1]
  /\ UNCHANGED <<taken, snd, rcv>>

(* The sender reports success: everything was taken and stored.            *)
Finish ==
  /\ snd = "run"
  /\ taken = FileLength
  /\ Len(file) >= FileLength
  /\ snd' = "done"
  /\ UNCHANGED <<taken, file, rcv>>

(* The receiver gets the end of the file, after the sender's success; it   *)
(* usually recognises it, and otherwise goes on waiting.                   *)
StoreEnd ==
  /\ rcv = "run"
  /\ snd = "done"
  /\ Len(file) = FileLength
  /\ file' = Append(file, FileLength)
  /\ rcv' \in {"run", "eof"}
  /\ UNCHANGED <<taken, snd>>

SndGivesUp == snd = "run" /\ snd' = "error" /\ UNCHANGED <<taken, file, rcv>>
RcvGivesUp == rcv = "run" /\ rcv' = "ended" /\ UNCHANGED <<taken, file, snd>>

Next ==
  Take \/ Store \/ Finish \/ StoreEnd \/ SndGivesUp \/ RcvGivesUp

Spec == Init /\ [][Next]_vars

=============================================================================
