----------------------------- MODULE ValueSeqs ------------------------------
(***************************************************************************)
(* What Array promises: each array is a sequence of values, changed and    *)
(* read by the calls below as one expects of a sequence, whatever is       *)
(* allocated, moved or destructed for it.                                  *)
(***************************************************************************)
EXTENDS Naturals, Sequences

CONSTANTS Name, Value, Empty,
          MaxLength  \* bound: largest size, capacity and index asked for

Seqs == INSTANCE SequencesExt

VARIABLES contents, \* the sequence of each array
          call,     \* the last call and its arguments
          reply     \* what it returned, as a sequence

values == <<contents, call, reply>>

SeqsInit == contents = [n \in Name |-> <<>>] /\ call = <<>> /\ reply = <<>>

Becomes(n, seq) == contents' = [contents EXCEPT ![n] = seq]
Swapped(seq, p, q) == [seq EXCEPT ![p] = seq[q], ![q] = seq[p]]
Padded(seq, size) == [p \in 1 .. size |-> IF p <= Len(seq) THEN seq[p] ELSE Empty]

Add(n, v) == /\ call' = <<"Emplace", n>> /\ reply' = <<>>
             /\ Becomes(n, Append(contents[n], v))

AddAt(n, p, v) == /\ call' = <<"Insert", n, p>> /\ reply' = <<>>
                  /\ Becomes(n, Seqs!InsertAt(contents[n], p, v))

\* Removal in order and by swapping with the last, with and without the value.
DropAt(n, p) ==
  /\ \/ call' = <<"Take", n, p>>   /\ reply' = <<contents[n][p]>>
     \/ call' = <<"Remove", n, p>> /\ reply' = <<>>
  /\ Becomes(n, Seqs!RemoveAt(contents[n], p))

DropSwapped(n, p) ==
  /\ \/ call' = <<"SwapTake", n, p>>   /\ reply' = <<contents[n][p]>>
     \/ call' = <<"SwapRemove", n, p>> /\ reply' = <<>>
  /\ Becomes(n, Seqs!Front(Swapped(contents[n], p, Len(contents[n]))))

DropLast(n) ==
  /\ contents[n] # <<>>
  /\ \/ call' = <<"Pop", n>>        /\ reply' = <<Seqs!Last(contents[n])>>
     \/ call' = <<"RemoveTail", n>> /\ reply' = <<>>
  /\ Becomes(n, Seqs!Front(contents[n]))

Exchange(n, p, q) == /\ call' = <<"Swap", n, p, q>> /\ reply' = <<>>
                     /\ Becomes(n, Swapped(contents[n], p, q))

Resize(n, size) == /\ call' = <<"set_size", n, size>> /\ reply' = <<>>
                   /\ Becomes(n, Padded(contents[n], size))

\* A smaller capacity cuts the sequence; a larger one is not seen.
Room(n, capacity) ==
  /\ \/ call' = <<"set_capacity", n, capacity>>
        /\ Becomes(n, SubSeq(contents[n], 1, IF capacity < Len(contents[n])
                                                  THEN capacity ELSE Len(contents[n])))
     \/ call' \in {<<"Reserve", n, capacity>>, <<"ShrinkToFit", n>>} /\ UNCHANGED contents
  /\ reply' = <<>>

Forget(n) == call' = <<"Clear", n>> /\ reply' = <<>> /\ Becomes(n, <<>>)

MoveFrom(n, m) ==
  /\ call' = <<"move", n, m>> /\ reply' = <<>>
  /\ contents' = [contents EXCEPT ![n] = contents[m], ![m] = <<>>]

CopyFrom(n, m) == call' = <<"copy", n, m>> /\ reply' = <<>> /\ Becomes(n, contents[m])

Compare(n, m) == /\ call' = <<"==", n, m>> /\ UNCHANGED contents
                 /\ reply' = <<contents[n] = contents[m]>>

Get(n, p) ==
  /\ call' = <<"TryGet", n, p>> /\ UNCHANGED contents
  /\ reply' = IF p \in DOMAIN contents[n] THEN <<contents[n][p]>> ELSE <<>>

SeqsNext ==
  \E n \in Name :
    \/ \E v \in Value : Add(n, v) \/ \E p \in 1 .. Len(contents[n]) + 1 : AddAt(n, p, v)
    \/ \E p \in DOMAIN contents[n] : DropAt(n, p) \/ DropSwapped(n, p)
    \/ \E p, q \in DOMAIN contents[n] : Exchange(n, p, q)
    \/ \E k \in 0 .. MaxLength : Resize(n, k) \/ Room(n, k) \/ Get(n, k)
    \/ \E m \in Name \ {n} : MoveFrom(n, m) \/ CopyFrom(n, m) \/ Compare(n, m)
    \/ DropLast(n) \/ Forget(n)

SeqsSpec == SeqsInit /\ [][SeqsNext]_values
=============================================================================
