---------------------------- MODULE IndexedList ----------------------------
(***************************************************************************)
(* The array-backed list of src/src/list.c.  The list_t struct is the      *)
(* record variable `list': items is the storage array (index = handle),    *)
(* size its capacity, count the number of used items, used_head and        *)
(* free_head the heads of the two circular doubly-linked chains threaded   *)
(* through items, dfn whether a delete function was given.  END is         *)
(* list_itr_end_t (-1), kept an integer because the code computes with it. *)
(*                                                                         *)
(* The private helpers remove_item, insert_item and list_grow are          *)
(* operators on a record of that shape; each public call that changes the  *)
(* list is one action.  Ghost variables: ret (the call's return value),    *)
(* call (the call in positions of the logical sequence, for the            *)
(* refinement of ListSeq) and live (between list_init and list_deinit).    *)
(***************************************************************************)
EXTENDS Integers, Sequences, FiniteSets, SequencesExt

CONSTANTS
  Data,          \* payload pointers the caller stores
  NULL,
  MaxSize,       \* bound on the capacity the list may grow to
  InitCaps,      \* initial capacities passed to list_init
  StaleHandles,  \* TRUE: callers may pass handles of free slots
  UBReads,       \* what list_pop may read as items[-1].used (see list_pop)
  AllocMayFail,  \* TRUE: CALLOC in list_grow may return NULL
  UintMod        \* 2^w for the w-bit unsigned count

ASSUME MaxSize \in Nat \ {0} /\ InitCaps \subseteq 0 .. MaxSize
ASSUME UBReads \subseteq BOOLEAN /\ UBReads # {}
ASSUME UintMod > MaxSize

END == -1
CTRUE == 1   \* the int_t TRUE and FALSE the calls return
CFALSE == 0
Handle == 0 .. MaxSize - 1
Item == [next : Handle \cup {END}, prev : Handle \cup {END},
         used : BOOLEAN, data : Data \cup {NULL}]

VARIABLES list, live, ret, call

vars == <<list, live, ret, call>>

Call(op, pos, data, ok, freed) ==
  [op |-> op, pos |-> pos, data |-> data, ok |-> ok, freed |-> freed]

(***************************************************************************)
(* Reference view of the used chain (not code): the handles met walking    *)
(* next from used_head, count of them, and the payloads stored there.      *)
(***************************************************************************)
RECURSIVE ChainFrom(_, _, _)
ChainFrom(its, h, n) ==
  IF n = 0 \/ h \notin DOMAIN its THEN <<>>
  ELSE <<h>> \o ChainFrom(its, its[h].next, n - 1)

UsedHandles(L) == ChainFrom(L.items, L.used_head, L.count)
FreeHandles(L) == ChainFrom(L.items, L.free_head, L.size - L.count)

(* Position of a handle in the sequence, 0 when it names no used item.    *)
PosOf(L, itr) ==
  LET hs == UsedHandles(L)
  IN IF \E k \in 1 .. Len(hs) : hs[k] = itr
     THEN CHOOSE k \in 1 .. Len(hs) : hs[k] = itr ELSE 0

(***************************************************************************)
(* Iterators and list_get: read-only, so operators.                        *)
(***************************************************************************)
list_itr_begin(L) == IF L.count = 0 THEN END ELSE L.used_head

list_itr_tail(L) == IF L.count = 0 THEN END ELSE L.items[L.used_head].prev

list_itr_next(L, itr) ==
  IF itr = END THEN END
  ELSE IF L.items[itr].next # L.used_head THEN L.items[itr].next ELSE END

list_itr_rnext(L, itr) ==
  IF itr = END THEN END
  ELSE IF itr # L.used_head THEN L.items[itr].prev ELSE END

list_get(L, itr) ==
  IF itr = END \/ L.size = 0 \/ itr \notin 0 .. L.size - 1 \/ ~L.items[itr].used
  THEN NULL ELSE L.items[itr].data

(* Fault variant of remove_item: no special case for a one-item chain.   *)
remove_item_no_singleton(its, itr) ==
  IF itr = END THEN [items |-> its, ret |-> END]
  ELSE
    LET n == its[itr].next
        p == its[itr].prev
        linked == [its EXCEPT ![p].next = n, ![n].prev = p]
    IN [items |-> [linked EXCEPT ![itr].next = END, ![itr].prev = END],
        ret   |-> n]

(***************************************************************************)
(* remove_item: unlink itr from its chain, clear its links, return the     *)
(* item after it (END if it was alone).                                    *)
(***************************************************************************)
remove_item(its, itr) ==
  IF itr = END THEN [items |-> its, ret |-> END]
  ELSE
    LET n == its[itr].next
        p == its[itr].prev
        multi == n # itr /\ p # itr
        linked == IF multi THEN [its EXCEPT ![p].next = n, ![n].prev = p]
                  ELSE its
    IN [items |-> [linked EXCEPT ![itr].next = END, ![itr].prev = END],
        ret   |-> IF multi THEN n ELSE END]

(***************************************************************************)
(* insert_item: link item in just before itr (as a one-item chain if itr  *)
(* is END); return the chain's head, itr or item.  The four assignments   *)
(* are made in the code's order.                                          *)
(***************************************************************************)
insert_item(its, itr, item) ==
  IF item = END THEN [items |-> its, ret |-> END]
  ELSE IF itr = END
  THEN [items |-> [its EXCEPT ![item].prev = item, ![item].next = item],
        ret   |-> item]
  ELSE
    LET s1 == [its EXCEPT ![item].next = itr]
        s2 == [s1 EXCEPT ![s1[itr].prev].next = item]
        s3 == [s2 EXCEPT ![item].prev = s2[itr].prev]
        s4 == [s3 EXCEPT ![itr].prev = item]
    IN [items |-> s4, ret |-> itr]

(***************************************************************************)
(* list_grow: the new capacity doubles the old one until size + amount    *)
(* fits (amount itself when the list had no storage); a fresh CALLOCed    *)
(* array is threaded into a free chain 0, 1, ..., then every used item is *)
(* moved, in iteration order, from the head of that free chain to the     *)
(* tail of a new used chain.                                               *)
(***************************************************************************)
(* The do-while in uint_t: new_size <<= 1 and size + amount wrap modulo   *)
(* 2^w.  Once new_size has shifted to 0 it stays 0 and the loop never      *)
(* ends; the operator returns NoReturn for that.                           *)
NoReturn == -2

(* Fault variant: while (new_size <= (list->size + amount)).               *)
RECURSIVE Doubled_le(_, _)
Doubled_le(n, need) ==
  IF n <= need THEN (IF n = 0 THEN NoReturn ELSE Doubled_le((2 * n) % UintMod, need))
  ELSE n

RECURSIVE Doubled(_, _)
Doubled(n, need) ==
  IF n < need THEN (IF n = 0 THEN NoReturn ELSE Doubled((2 * n) % UintMod, need))
  ELSE n

GrowSize(L, amount) ==
  IF L.size # 0 THEN Doubled((2 * L.size) % UintMod, (L.size + amount) % UintMod)
  ELSE amount

RECURSIVE FreeInit(_, _, _, _)
FreeInit(its, fh, i, n) ==
  IF i = n THEN [items |-> its, ret |-> fh]
  ELSE LET r == insert_item(its, fh, i) IN FreeInit(r.items, r.ret, i + 1, n)

RECURSIVE MoveUsed(_, _, _, _, _)
MoveUsed(L, its, fh, uh, itr) ==
  IF itr = END THEN [items |-> its, free_head |-> fh, used_head |-> uh]
  ELSE
    LET r   == remove_item(its, fh)
        cp  == [r.items EXCEPT ![fh].data = L.items[itr].data,
                               ![fh].used = L.items[itr].used]
        ins == insert_item(cp, uh, fh)
    IN MoveUsed(L, ins.items, r.ret, ins.ret, list_itr_next(L, itr))

list_grow(L, amount) ==
  IF amount = 0 THEN L
  ELSE
    LET n     == GrowSize(L, amount)
        fresh == [i \in 0 .. n - 1 |-> [next |-> 0, prev |-> 0,
                                        used |-> FALSE, data |-> NULL]]
        fl    == FreeInit(fresh, END, 0, n)
        mv    == MoveUsed(L, fl.items, fl.ret, END, list_itr_begin(L))
    IN [L EXCEPT !.items = mv.items, !.size = n,
                 !.used_head = mv.used_head, !.free_head = mv.free_head]

(* Whether list_grow(L, amount) stays within the model's bound.           *)
GrowFits(L, amount) == amount = 0 \/ GrowSize(L, amount) \in 1 .. MaxSize

(***************************************************************************)
(* list_init on a zeroed list_t: empty chains, then list_grow.             *)
(***************************************************************************)
EmptyList(f) ==
  [items |-> <<>>, size |-> 0, count |-> 0,
   used_head |-> END, free_head |-> END, dfn |-> f]

list_init(cap, f) == list_grow(EmptyList(f), cap)

Init ==
  \E cap \in InitCaps, f \in BOOLEAN :
    /\ list = list_init(cap, f)
    /\ live = TRUE
    /\ ret = CTRUE
    /\ call = Call("init", 0, NULL, TRUE, <<>>)

(* The handles a caller may hand to list_push.                            *)
PushHandles ==
  IF StaleHandles THEN {END} \cup (0 .. list.size - 1)
  ELSE {END} \cup {h \in 0 .. list.size - 1 : list.items[h].used}

Fail(op, pos, d) ==
  /\ ret' = CFALSE
  /\ call' = Call(op, pos, d, FALSE, <<>>)
  /\ UNCHANGED <<list, live>>

(***************************************************************************)
(* list_push(list, data, itr): insert data before itr, at the tail when    *)
(* itr is END.  When the list is full it first finds itr's ordinal from    *)
(* the head (failing if itr is not met within count steps), grows by one, *)
(* and walks the same ordinal from the new head, since growth renumbers    *)
(* the items.  A push before the old head makes the new item the head.    *)
(***************************************************************************)
RECURSIVE WalkTo(_, _, _, _)
WalkTo(L, tmp, itr, i) ==
  IF tmp # itr /\ i < L.count THEN WalkTo(L, L.items[tmp].next, itr, i + 1) ELSE i

RECURSIVE Advance(_, _, _)
Advance(L, h, i) == IF i > 0 THEN Advance(L, L.items[h].next, i - 1) ELSE h

(* Fault variant of PushInto: used_head is not moved to the new item when *)
(* it is pushed before the head.                                          *)
PushInto_keep_head(G, d, itr, before, the_head) ==
  LET item == G.free_head
      r    == remove_item(G.items, item)
      its  == [r.items EXCEPT ![item].data = d, ![item].used = TRUE]
      ins  == IF G.count > 0 /\ itr = END THEN insert_item(its, G.used_head, item)
              ELSE IF G.count > 0 /\ itr = the_head
                   THEN insert_item(its, G.used_head, item)
              ELSE insert_item(its, before, item)
      uh   == IF G.count = 0 THEN ins.ret ELSE G.used_head
  IN [G EXCEPT !.items = ins.items, !.free_head = r.ret,
               !.used_head = uh, !.count = @ + 1]

PushInto(G, d, itr, before, the_head) ==
  LET item == G.free_head
      r    == remove_item(G.items, item)
      its  == [r.items EXCEPT ![item].data = d, ![item].used = TRUE]
      ins  == IF G.count > 0 /\ itr = END THEN insert_item(its, G.used_head, item)
              ELSE IF G.count > 0 /\ itr = the_head
                   THEN insert_item(its, G.used_head, item)
              ELSE insert_item(its, before, item)
      uh   == IF G.count = 0 THEN ins.ret
              ELSE IF itr # END /\ itr = the_head THEN item
              ELSE G.used_head
  IN [G EXCEPT !.items = ins.items, !.free_head = r.ret,
               !.used_head = uh, !.count = @ + 1]

list_push(d, itr) ==
  /\ live
  /\ LET pos  == IF itr = END THEN Len(UsedHandles(list)) + 1 ELSE PosOf(list, itr)
         grow == list.count = list.size
         seek == list.count > 0 /\ itr # END
         i    == IF seek THEN WalkTo(list, list.used_head, itr, 0) ELSE 0
     IN IF grow
        THEN \/ seek /\ i = list.count /\ Fail("push", pos, d)
             \/ ~(seek /\ i = list.count) /\ AllocMayFail /\ Fail("push", pos, d)
             \/ /\ ~(seek /\ i = list.count)
                /\ GrowFits(list, 1)
                /\ LET G == list_grow(list, 1)
                       before == IF seek THEN Advance(G, G.used_head, i) ELSE itr
                   IN list' = PushInto(G, d, itr, before, list.used_head)
                /\ ret' = CTRUE
                /\ call' = Call("push", pos, d, TRUE, <<>>)
                /\ UNCHANGED live
        ELSE /\ list' = PushInto(list, d, itr, itr, list.used_head)
             /\ ret' = CTRUE
             /\ call' = Call("push", pos, d, TRUE, <<>>)
             /\ UNCHANGED live

(***************************************************************************)
(* list_pop(list, itr): remove itr, or the tail when itr is END; return    *)
(* the item after it, or END when the tail was asked for.  When itr is END *)
(* and the list is empty but has storage, list_itr_tail gives END and the  *)
(* code reads items[-1].used, before the array: undefined, so any value in *)
(* UBReads.  If that reads true the code goes on: remove_item and          *)
(* insert_item refuse END, so free_head becomes END, and count wraps.      *)
(***************************************************************************)
Reject(op) ==
  /\ ret' = END
  /\ call' = Call(op, 0, NULL, FALSE, <<>>)
  /\ UNCHANGED <<list, live>>

PopItem(itr, item, pos) ==
  LET r   == remove_item(list.items, item)
      its == [r.items EXCEPT ![item].data = NULL, ![item].used = FALSE]
      f   == insert_item(its, list.free_head, item)
  IN /\ list' = [list EXCEPT
                   !.items = f.items,
                   !.used_head = IF item = list.used_head THEN r.ret ELSE @,
                   !.free_head = f.ret,
                   !.count = (@ - 1) % UintMod]
     /\ ret' = IF itr = END THEN END ELSE r.ret
     /\ call' = Call("pop", pos, list.items[item].data, TRUE, <<>>)
     /\ UNCHANGED live

PopBeforeArray ==
  /\ list' = [list EXCEPT !.used_head = END, !.free_head = END,
                          !.count = (@ - 1) % UintMod]
  /\ ret' = END
  /\ call' = Call("pop", 0, NULL, FALSE, <<>>)
  /\ UNCHANGED live

list_pop(itr) ==
  /\ live
  /\ IF list.size = 0 \/ ~(itr = END \/ itr \in 0 .. list.size - 1)
     THEN Reject("pop")
     ELSE LET item == IF itr = END THEN list_itr_tail(list) ELSE itr
              pos  == IF itr = END THEN list.count ELSE PosOf(list, itr)
          IN IF item = END
             THEN \E u \in UBReads : IF u THEN PopBeforeArray ELSE Reject("pop")
             ELSE IF ~list.items[item].used THEN Reject("pop")
             ELSE PopItem(itr, item, pos)

(* list_reserve(list, amount): grow by the shortfall when amount > size.  *)
list_reserve(amount) ==
  /\ live
  /\ IF amount > list.size
     THEN /\ GrowFits(list, amount - list.size)
          /\ \/ /\ list' = list_grow(list, amount - list.size)
                /\ ret' = CTRUE
                /\ call' = Call("reserve", 0, NULL, TRUE, <<>>)
                /\ UNCHANGED live
             \/ AllocMayFail /\ Fail("reserve", 0, NULL)
     ELSE /\ ret' = CTRUE
          /\ call' = Call("reserve", 0, NULL, TRUE, <<>>)
          /\ UNCHANGED <<list, live>>

(***************************************************************************)
(* list_deinit: unless the list has no storage, hand every payload, in     *)
(* iteration order, to the delete function if there is one, then reset    *)
(* the struct and free the array.  list_clear is list_deinit followed by   *)
(* list_init(list, 0, dfn) with the remembered delete function.            *)
(***************************************************************************)
RECURSIVE IterData(_, _)
IterData(L, itr) ==
  IF itr = END THEN <<>> ELSE <<L.items[itr].data>> \o IterData(L, list_itr_next(L, itr))

Freed(L) ==
  IF L.size # 0 /\ L.dfn THEN IterData(L, list_itr_begin(L)) ELSE <<>>

(* Fault variant of list_deinit: the array is freed but the meta data is  *)
(* not reset.                                                             *)
list_deinit_no_reset ==
  /\ live
  /\ list' = IF list.size = 0 THEN list ELSE [list EXCEPT !.items = <<>>]
  /\ live' = FALSE
  /\ ret' = CTRUE
  /\ call' = Call("deinit", 0, NULL, TRUE, Freed(list))

list_deinit ==
  /\ live
  /\ list' = IF list.size = 0 THEN list ELSE EmptyList(FALSE)
  /\ live' = FALSE
  /\ ret' = CTRUE
  /\ call' = Call("deinit", 0, NULL, TRUE, Freed(list))

list_clear ==
  /\ live
  /\ list' = list_init(0, list.dfn)
  /\ ret' = CTRUE
  /\ call' = Call("clear", 0, NULL, TRUE, Freed(list))
  /\ UNCHANGED live

(* list_init on a list that list_deinit released.                         *)
Reinit(cap, f) ==
  /\ ~live
  /\ \/ /\ list' = list_init(cap, f)
        /\ live' = TRUE
        /\ ret' = CTRUE
        /\ call' = Call("init", 0, NULL, TRUE, <<>>)
     \/ /\ AllocMayFail /\ cap > 0
        /\ list' = EmptyList(f)
        /\ ret' = CFALSE
        /\ call' = Call("init", 0, NULL, FALSE, <<>>)
        /\ UNCHANGED live

Next ==
  \/ \E d \in Data, itr \in PushHandles : list_push(d, itr)
  \/ \E itr \in {END} \cup (0 .. list.size) : list_pop(itr)
  \/ \E a \in 0 .. MaxSize : list_reserve(a)
  \/ list_deinit
  \/ list_clear
  \/ \E cap \in InitCaps, f \in BOOLEAN : Reinit(cap, f)

Spec == Init /\ [][Next]_vars

(***************************************************************************)
(*                              PROPERTIES                                 *)
(***************************************************************************)

TypeOK ==
  /\ list.size \in 0 .. MaxSize
  /\ list.count \in 0 .. UintMod - 1
  /\ DOMAIN list.items = 0 .. list.size - 1
  /\ \A h \in DOMAIN list.items : list.items[h] \in Item
  /\ list.used_head \in Handle \cup {END}
  /\ list.free_head \in Handle \cup {END}
  /\ list.dfn \in BOOLEAN
  /\ live \in BOOLEAN
  /\ ret \in {CTRUE, CFALSE} \cup Handle \cup {END}

(* The handles the code's own iterators visit: forward from list_itr_begin *)
(* by list_itr_next, backward from list_itr_tail by list_itr_rnext, each   *)
(* cut off after size + 1 steps in case the links do not lead back.        *)
RECURSIVE WalkNext(_, _, _), WalkBack(_, _, _)
WalkNext(L, itr, fuel) ==
  IF itr = END \/ fuel = 0 THEN <<>>
  ELSE <<itr>> \o WalkNext(L, list_itr_next(L, itr), fuel - 1)
WalkBack(L, itr, fuel) ==
  IF itr = END \/ fuel = 0 THEN <<>>
  ELSE <<itr>> \o WalkBack(L, list_itr_rnext(L, itr), fuel - 1)

Forward(L)  == WalkNext(L, list_itr_begin(L), L.size + 1)
Backward(L) == WalkBack(L, list_itr_tail(L), L.size + 1)

(* A chain is circular when each handle's next is the one after it and    *)
(* that one's prev leads back.                                            *)
Circular(its, hs) ==
  \A k \in 1 .. Len(hs) :
    LET succ == hs[(k % Len(hs)) + 1]
    IN its[hs[k]].next = succ /\ its[succ].prev = hs[k]

(***************************************************************************)
(* WellFormed: whatever sequence of pushes, pops, reserves and clears the  *)
(* caller makes, the used chain (count items from used_head) and the free  *)
(* chain (size - count items from free_head) are circular, disjoint and   *)
(* together cover every slot of items; the used flag marks exactly the     *)
(* used chain; the heads are END exactly when their chain is empty; and    *)
(* the iterators list_itr_next / list_itr_rnext visit the used chain in    *)
(* order and in reverse.  This is what list_push, list_pop and list_grow   *)
(* must preserve between them (list.c lines 220-349, 415-483).             *)
(***************************************************************************)
WellFormed ==
  LET L == list
      U == UsedHandles(L)
      F == FreeHandles(L)
  IN /\ L.count <= L.size
     /\ Len(U) = L.count /\ Len(F) = L.size - L.count
     /\ ToSet(U) \cup ToSet(F) = 0 .. L.size - 1
     /\ (L.used_head = END) <=> (L.count = 0)
     /\ (L.free_head = END) <=> (L.count = L.size)
     /\ Circular(L.items, U) /\ Circular(L.items, F)
     /\ \A h \in DOMAIN L.items : L.items[h].used <=> h \in ToSet(U)
     /\ Forward(L) = U
     /\ Backward(L) = Reverse(U)

(***************************************************************************)
(* Refinement: read through the code's iterators and list_get, the list is *)
(* the sequence of ListSeq, and every call changes it as ListSeq says: a   *)
(* push at handle h inserts before h's position (at the end for END), also *)
(* when the push had to grow the array and renumber every item; a pop      *)
(* removes exactly its item; growth and reserve keep the order; clear and  *)
(* deinit hand exactly the stored payloads, in order, to the destructor.   *)
(***************************************************************************)
RECURSIVE PayloadsFrom(_, _, _)
PayloadsFrom(L, itr, fuel) ==
  IF itr = END \/ fuel = 0 THEN <<>>
  ELSE <<list_get(L, itr)>> \o PayloadsFrom(L, list_itr_next(L, itr), fuel - 1)

Payloads(L) == PayloadsFrom(L, list_itr_begin(L), L.size + 1)

Abstract == INSTANCE ListSeq WITH seq <- Payloads(list), call <- call

Refinement == Abstract!Spec

(***************************************************************************)
(* PopReturnsSuccessor: list_pop returns the handle of the item that now   *)
(* stands where the removed item's successor was, or END when the removed *)
(* item was the tail (spec 4.1; the comment at list.c lines 314-317).      *)
(* Callers continue an iteration with it after popping mid-traversal.      *)
(***************************************************************************)
PopReturnsSuccessor ==
  [][ (call'.op = "pop" /\ call'.ok) =>
        ret' = IF call'.pos = list.count THEN END
               ELSE UsedHandles(list')[call'.pos] ]_vars

(***************************************************************************)
(* The capacity list_grow would compute from the list's current size, for  *)
(* every amount a list_push (1) or list_reserve could ask for: whenever    *)
(* size + amount fits the w-bit uint_t, the shifting loop (list.c lines    *)
(* 434-441) either never ends or yields room for size + amount, and when    *)
(* the least size * 2^k (k >= 1) that reaches size + amount is             *)
(* representable it yields exactly that.  Beyond it, new_size <<= 1        *)
(* reaches 0 and the loop spins (from size 2^31 on a 32-bit uint_t).        *)
(***************************************************************************)
LeastDoubling(sz, need) == Min({sz * 2^k : k \in 1 .. UintMod} \cap (need .. sz * 2^UintMod))

GrowCapacityLeast ==
  \A amount \in 1 .. UintMod - 1 :
    LET got == GrowSize(list, amount)
    IN list.size # 0 /\ list.size + amount < UintMod =>
         /\ got = NoReturn \/ got >= list.size + amount
         /\ LeastDoubling(list.size, list.size + amount) < UintMod =>
              got = LeastDoubling(list.size, list.size + amount)

=============================================================================
