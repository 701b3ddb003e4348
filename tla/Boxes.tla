------------------------------- MODULE Boxes --------------------------------
(***************************************************************************)
(* base::Box (wrap/box.hpp) and base::Optional (wrap/optional.hpp) around  *)
(* it, as values.  A box keeps a small object inside itself and a large    *)
(* one on the heap; what it does to the object depends on its handler.     *)
(*                                                                         *)
(* The operators work on a record w that has at least                      *)
(*   heap    the blocks allocated, by the object each was allocated for,   *)
(*           with what is in them                                          *)
(*   gone    what destructors have released                                *)
(*   misused the kinds of misuse so far                                    *)
(* or on a record x of such a w and a box.  Moving from an object leaves   *)
(* one that owns nothing.                                                  *)
(***************************************************************************)
EXTENDS Naturals, Sequences, FiniteSets

CONSTANT Dead   \* an object that owns nothing: moved from, or destructed

NoBox == [handler |-> "none", obj |-> Dead]

\* Box(T val): obj is the object itself, or the block it is in.
NewBox(w, val, small) ==
  IF small THEN [w |-> w, box |-> [handler |-> "small", obj |-> val]]
  ELSE [w   |-> [w EXCEPT !.heap = [b \in DOMAIN @ \cup {val} |-> IF b = val THEN val ELSE @[b]]],
        box |-> [handler |-> "large", obj |-> val]]

\* What is behind raw_ptr(); nothing in a block that has been freed.
Content(x) ==
  IF x.box.handler # "large" THEN x.box.obj
  ELSE IF x.box.obj \in DOMAIN x.w.heap THEN x.w.heap[x.box.obj] ELSE Dead

\* The object is moved out through raw_ptr().
Emptied(x) ==
  IF x.box.handler = "large" THEN [x EXCEPT !.w.heap[x.box.obj] = Dead]
  ELSE [x EXCEPT !.box.obj = Dead]

\* kDestruct of the LargeHandler: the object is destructed, its block freed.
Delete(w, block) ==
  IF block \notin DOMAIN w.heap THEN [w EXCEPT !.misused = @ \cup {"double_free"}]
  ELSE [w EXCEPT !.gone = @ \cup ({w.heap[block]} \ {Dead}),
                 !.heap = [b \in DOMAIN @ \ {block} |-> @[b]]]

\* Reset, and the destructor.
ResetBox(x) ==
  [box |-> NoBox,
   w |-> CASE x.box.handler = "none"  -> x.w
           [] x.box.handler = "small" -> [x.w EXCEPT !.gone = @ \cup ({x.box.obj} \ {Dead})]
           [] x.box.handler = "large" -> Delete(x.w, x.box.obj)]

\* Fault: a large object's pointer is copied and the source keeps its handler.
SourceKeepsLarge(box) == IF box.handler = "large" THEN box ELSE NoBox

\* kMove: the source has neither object nor handler afterwards.
MovedSource(box) == NoBox

\* Another box is constructed from this one, which is then destructed.
Pass(x) == [w |-> ResetBox([w |-> x.w, box |-> MovedSource(x.box)]).w, box |-> x.box]

\* Unwrap of a box: the object is moved out and the box is reset.
Unwrap(x) == [w |-> ResetBox(Emptied(x)).w, val |-> Content(x)]

-----------------------------------------------------------------------------
(* An Optional is the sequence of what it has. *)

New(box) == <<box>>

\* Optional::Unwrap: the box is moved out; the one moved from stays in the
\* Optional and is not destructed any more.
UnwrapOptional(w, opt) == [w |-> w, box |-> opt[1]]
=============================================================================
