----------------------------- MODULE SliceNames -----------------------------
(***************************************************************************)
(* How the slices of a recording come back from the C code: the segment    *)
(* muxer numbers them from 0 in the order of the recording and names them  *)
(* with "%04d" (sa_split_wav_fixed), and sa_collect_segment_paths gives    *)
(* them back in the order of their names, as glob or qsort with strcmp     *)
(* sorts them.  A name is the sequence of its digits: what comes before    *)
(* them is the same in all names, and the "." after them is less than any  *)
(* digit, like the end of the sequence.                                    *)
(***************************************************************************)
EXTENDS Integers, Sequences, FiniteSets

CONSTANTS
  Radix,  \* 10
  Width   \* 4

ASSUME NamesAssumption == Radix \in Nat \ {0, 1} /\ Width \in Nat \ {0}

\* The digits of k.
Digits(k) ==
  LET digits[n \in 0 .. k] ==
        IF n < Radix THEN <<n>> ELSE Append(digits[n \div Radix], n % Radix)
  IN  digits[k]

\* The number k in at least Width digits.
Name(k) == [j \in 1 .. Width - Len(Digits(k)) |-> 0] \o Digits(k)

\* strcmp(s, t) < 0
Before(s, t) ==
  \E p \in 1 .. Len(t) :
    /\ Len(s) >= p - 1
    /\ \A q \in 1 .. p - 1 : s[q] = t[q]
    /\ Len(s) >= p => s[p] < t[p]

\* The numbers of n slices, in the order of their names.
ByName(n) ==
  [place \in 1 .. n |->
     CHOOSE k \in 0 .. n - 1 :
       Cardinality({j \in 0 .. n - 1 : Before(Name(j), Name(k))}) = place - 1]
=============================================================================
