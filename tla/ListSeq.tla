------------------------------ MODULE ListSeq ------------------------------
(***************************************************************************)
(* What the indexed list of src/src/list.c promises, stated without        *)
(* handles, links or storage: the list is a sequence of payloads, and each *)
(* public call either inserts one payload at a position, removes the one   *)
(* at a position, empties the sequence, or leaves it alone.                *)
(*                                                                         *)
(* `call' labels the step with the call that made it, in positions of the  *)
(* sequence rather than handles: pos is the 1-based position the call      *)
(* named (0 when its handle named no item), ok whether it reported         *)
(* success, and freed the payloads handed to the destructor.               *)
(***************************************************************************)
EXTENDS Integers, Sequences, SequencesExt

CONSTANTS Data, NULL

VARIABLES seq, call

Call(op, pos, data, ok, freed) ==
  [op |-> op, pos |-> pos, data |-> data, ok |-> ok, freed |-> freed]

Init ==
  /\ seq = <<>>
  /\ call = Call("init", 0, NULL, TRUE, <<>>)

(* A push at position i shifts the items from i on one place back.        *)
Push(i, d) ==
  /\ i \in 1 .. Len(seq) + 1
  /\ seq' = InsertAt(seq, i, d)
  /\ call' = Call("push", i, d, TRUE, <<>>)

(* A push may fail (no memory, or a handle that names no item); then it  *)
(* changes nothing.                                                       *)
PushRejected(i, d) ==
  /\ seq' = seq
  /\ call' = Call("push", i, d, FALSE, <<>>)

Pop(i) ==
  /\ i \in 1 .. Len(seq)
  /\ seq' = RemoveAt(seq, i)
  /\ call' = Call("pop", i, seq[i], TRUE, <<>>)

(* Popping a position that holds no item changes nothing.                *)
PopRejected ==
  /\ seq' = seq
  /\ call' = Call("pop", 0, NULL, FALSE, <<>>)

(* Emptying the list hands every payload, in order, to the destructor    *)
(* when there is one, and none of them when there is not.                 *)
Clear(op) ==
  /\ seq' = <<>>
  /\ \E f \in {seq, <<>>} : call' = Call(op, 0, NULL, TRUE, f)

(* Growing storage, or (re)initialising an empty list, leaves the         *)
(* sequence alone.                                                        *)
Keep(op) ==
  /\ seq' = seq
  /\ call' \in {Call(op, 0, NULL, ok, <<>>) : ok \in BOOLEAN}

(* Each step is the call that call' names.                                 *)
Next ==
  \/ /\ call'.op = "push"
     /\ Push(call'.pos, call'.data) \/ PushRejected(call'.pos, call'.data)
  \/ /\ call'.op = "pop"
     /\ Pop(call'.pos) \/ PopRejected
  \/ call'.op \in {"clear", "deinit"} /\ Clear(call'.op)
  \/ call'.op = "reserve" /\ Keep("reserve")
  \/ call'.op = "init" /\ seq = <<>> /\ Keep("init")

Spec == Init /\ [][Next]_<<seq, call>>

=============================================================================
