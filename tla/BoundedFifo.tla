---------------------------- MODULE BoundedFifo -----------------------------
(***************************************************************************)
(* What a bounded blocking queue promises: items come out in the order in  *)
(* which they went in, each once, and at most m_max_size are inside.       *)
(***************************************************************************)
EXTENDS Naturals, Sequences

CONSTANTS Readers, Items, m_max_size, NoItem

VARIABLES
  items,   \* what is inside, oldest first
  taken    \* what each reader got last

Init == items = <<>> /\ taken = [t \in Readers |-> NoItem]

Put(x) ==
  /\ Len(items) < m_max_size
  /\ items' = Append(items, x)
  /\ UNCHANGED taken

Get(t) ==
  /\ items # <<>>
  /\ taken' = [taken EXCEPT ![t] = Head(items)]
  /\ items' = Tail(items)

Clear == items' = <<>> /\ UNCHANGED taken

Next == Clear \/ (\E x \in Items : Put(x)) \/ (\E t \in Readers : Get(t))

Spec == Init /\ [][Next]_<<items, taken>>

=============================================================================
