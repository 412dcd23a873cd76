----------------------------- MODULE SerialMemory -----------------------------
(***************************************************************************)
(* What the arbiter promises whoever uses the memory: one client at a time *)
(* stores into words and reads them back, and a read is answered once,     *)
(* with what was stored last.                                              *)
(***************************************************************************)
CONSTANTS Words, Lanes, Values

VARIABLES
  mem,       \* the lanes of each word
  asked,     \* <<the word being read>>, or <<>>
  reply      \* <<the lanes returned in this step>>, or <<>>

smvars == <<mem, asked, reply>>

SMInit ==
  /\ mem = [w \in Words |-> [l \in Lanes |-> 0]]
  /\ asked = <<>> /\ reply = <<>>

Store(w, word) ==
  /\ asked = <<>>
  /\ mem' = [mem EXCEPT ![w] = word]
  /\ asked' = <<>> /\ reply' = <<>>

Ask(w) ==
  /\ asked = <<>>
  /\ asked' = <<w>> /\ reply' = <<>>
  /\ UNCHANGED mem

\* An engine takes the whole word, the byte stream one lane of it.
Answer ==
  /\ asked # <<>>
  /\ \E lanes \in (SUBSET Lanes) \ {{}} :
       reply' = <<[l \in lanes |-> mem[asked[1]][l]]>>
  /\ asked' = <<>>
  /\ UNCHANGED mem

ReplySeen ==
  /\ reply # <<>> /\ reply' = <<>>
  /\ UNCHANGED <<mem, asked>>

SMNext ==
  \/ \E w \in Words : \E word \in [Lanes -> Values] : Store(w, word)
  \/ \E w \in Words : Ask(w)
  \/ Answer \/ ReplySeen

SMSpec == SMInit /\ [][SMNext]_smvars
=============================================================================
