---------------------------- MODULE MCFileTable ----------------------------
(* Instances of FileTable for TLC.                                         *)
EXTENDS FileTable, TLC

Symmetry == Permutations(Thread)

(* States that differ in the addresses of the entries only, or in objects  *)
(* that nothing points to, behave alike: what counts is the contents of    *)
(* each slot, and whether a pointer is to the entry of a slot or to one    *)
(* that was replaced, whose contents nobody writes any more.               *)
Pointee(e) == IF e = NoEntry THEN <<>>
              ELSE <<heap[e], {fh \in DOMAIN files : files[fh] = e}>>
View == <<[fh \in DOMAIN files |-> heap[files[fh]]], freeFiles, pc,
          [t \in Thread |-> <<fr[t].op, fr[t].fh, fr[t].file, fr[t].calls,
                           Pointee(fr[t].entry)>>],
          opened, lost, held, dirs>>
=============================================================================
