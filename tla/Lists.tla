------------------------------- MODULE Lists --------------------------------
(***************************************************************************)
(* Two folds over sequences, as recursive functions: unlike the folds of   *)
(* the community modules they can be reasoned about (ListLemmas).          *)
(***************************************************************************)
EXTENDS Integers, Sequences

(* What each prefix of s selects, *)
SelectedUpTo(s, S) ==
  LET upTo[n \in 0 .. Len(s)] ==
        IF n = 0 THEN <<>>
        ELSE IF s[n] \in S THEN Append(upTo[n - 1], s[n])
        ELSE upTo[n - 1]
  IN  upTo

(* and the subsequence of those elements of s that are in S.               *)
Selected(s, S) == SelectedUpTo(s, S)[Len(s)]

(* What the prefixes of a sequence of numbers add up to, and their sum.    *)
TotalUpTo(s) ==
  LET upTo[n \in 0 .. Len(s)] == IF n = 0 THEN 0 ELSE upTo[n - 1] + s[n]
  IN  upTo

Total(s) == TotalUpTo(s)[Len(s)]

=============================================================================
